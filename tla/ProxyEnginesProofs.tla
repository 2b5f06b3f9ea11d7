------------------------- MODULE ProxyEnginesProofs -------------------------
(***************************************************************************)
(* Theorems about ProxyEngines, for every rule set and every connection:   *)
(* each engine implements EgressPolicy, and dials what the policy says.    *)
(*                                                                         *)
(* A rule of the config that has run leaves nothing behind in HAProxy but  *)
(* the place it went on to: what it had found out is in the invariant, by  *)
(* that place.                                                             *)
(***************************************************************************)
EXTENDS ProxyEngines, TLAPS

-----------------------------------------------------------------------------
(* The matchers, as each module has them. *)

LEMMA SameConstants ==
  /\ Inspect!Internal = Internal /\ Universal!Internal = Internal /\ Policy!Internal = Internal
  /\ Inspect!Host = Host /\ Universal!Host = Host /\ Policy!Host = Host
BY DEF Internal, Host, Inspect!Internal, Inspect!Host, Universal!Internal, Universal!Host,
       Policy!Internal, Policy!Host

LEMMA SameMatchers ==
  ASSUME NEW rs, NEW c
  PROVE  /\ Inspect!AddressMatches(rs, c) = AddressMatches(rs, c)
         /\ Universal!AddressMatches(rs, c) = AddressMatches(rs, c)
         /\ Policy!AddressMatches(rs, c) = AddressMatches(rs, c)
         /\ Inspect!SniMatches(rs, c) = SniMatches(rs, c)
         /\ Universal!SniMatches(rs, c) = SniMatches(rs, c)
         /\ Policy!SniMatches(rs, c) = SniMatches(rs, c)
         /\ Inspect!NamesAddress(rs, c) = NamesAddress(rs, c)
         /\ Policy!NamesAddress(rs, c) = NamesAddress(rs, c)
BY DEF AddressMatches, SniMatches, NamesAddress, SchemeRules, SchemeOf, RequestMatches,
       HostMatches, DefaultPort,
       Inspect!AddressMatches, Inspect!SniMatches, Inspect!NamesAddress, Inspect!SchemeRules,
       Inspect!SchemeOf, Inspect!RequestMatches, Inspect!HostMatches, Inspect!DefaultPort,
       Universal!AddressMatches, Universal!SniMatches, Universal!HostMatches,
       Policy!AddressMatches, Policy!SniMatches, Policy!NamesAddress, Policy!SchemeRules,
       Policy!SchemeOf, Policy!RequestMatches, Policy!HostMatches, Policy!DefaultPort

LEMMA SamePolicy ==
  ASSUME NEW rs, NEW c, NEW r
  PROVE  /\ Inspect!SchemeOf(c) = SchemeOf(c) /\ Policy!SchemeOf(c) = SchemeOf(c)
         /\ Inspect!SchemeRules(rs, c) = SchemeRules(rs, c)
         /\ Policy!SchemeRules(rs, c) = SchemeRules(rs, c)
         /\ \A scheme : /\ Inspect!RequestMatches(r, c, scheme) = RequestMatches(r, c, scheme)
                        /\ Policy!RequestMatches(r, c, scheme) = RequestMatches(r, c, scheme)
BY DEF SchemeRules, SchemeOf, RequestMatches, HostMatches, DefaultPort,
       Inspect!SchemeRules, Inspect!SchemeOf, Inspect!RequestMatches, Inspect!HostMatches,
       Inspect!DefaultPort, Policy!SchemeRules, Policy!SchemeOf, Policy!RequestMatches,
       Policy!HostMatches, Policy!DefaultPort

-----------------------------------------------------------------------------
(* The inductive invariant: what the place a connection has come to tells.  *)

\* A rule allows the request.
Allowed ==
  \/ rules.mode = "audit"
  \/ \E r \in SchemeRules(rules, conn) : RequestMatches(r, conn, SchemeOf(conn))

AtRules == {"rules", "resolve", "again", "found", "guard"}
PastRules == {"resolve", "again", "found", "guard"}
Resolved == {"again", "found", "guard"}

InspectInv ==
  engine = "inspect" =>
    /\ pc \notin {"origin", "ended"} => peer = NoAddress
    /\ pc = "address" => target = conn.dst
    /\ pc = "guardAddress" =>
         /\ pass = "tcp" /\ target = conn.dst /\ conn.dst # ProxyAddress
         /\ AddressMatches(rules, conn)
    /\ pc \in {"askSni", "foundSni", "guardSni"} => SniMatches(rules, conn)
    /\ pc = "foundSni" => resolved \in answers \cup {NoAddress}
    /\ pc = "guardSni" => resolved \in answers /\ target = resolved
    /\ pc \in {"path"} \cup AtRules => conn.host \in Host
    /\ pc \in AtRules => conn.path # Traversal
    /\ pc \in PastRules => Allowed
    /\ pc \in Resolved =>
         resolved \in IF conn.host \in Address THEN {conn.host} ELSE answers \cup {NoAddress}
    /\ pc = "guard" => resolved # NoAddress /\ target = resolved
    /\ peer # NoAddress /\ pass # "tcp" => peer \in answers \/ peer = conn.host

UniversalInv ==
  engine = "universal" =>
    /\ \A r \in rules.http : IsHostRule(r)
    /\ pc \notin {"relayed", "ended"} => peer = NoAddress
    /\ pc \notin {"address", "relayed", "ended"} => Universal!DnsRouted
    /\ pc \in {"askSni", "foundSni"} => SniMatches(Universal!Judged, conn)
    /\ pc \in {"head", "host", "resolve", "again", "found"} => ~conn.hello
    /\ pc \in {"resolve", "again", "found"} => conn.host \in Host /\ Universal!HostAllowed
    /\ pc \in {"foundSni", "again", "found"} => resolved \in answers \cup {NoAddress}
    /\ peer # NoAddress /\ Universal!DnsRouted => peer \in answers

Inv == engine \in {"inspect", "universal"} /\ TypeOK /\ InspectInv /\ UniversalInv

-----------------------------------------------------------------------------
(* Types, and what a place tells. *)

LEMMA InvBegins == Init => Inv
<1> SUFFICES ASSUME Init PROVE Inv
  OBVIOUS
<1> USE RuleSetAssumption, InputAssumption
<1>1. conn \in Connection /\ engine \in {"inspect", "universal"}
  BY DEF Init
<1>2. ASSUME NEW rs \in Rules PROVE HostRulesOf(rs) \in Rules
  BY DEF HostRulesOf, Rules
<1>3. rules \in Rules
  BY <1>2 DEF Init
<1>4. conn.dst \in Address
  BY <1>1 DEF Connection
<1>5. TypeOK
  BY <1>1, <1>3, <1>4 DEF Init, TypeOK, Inspect!Init, Universal!Init, Inspect!Labels, Universal!Labels
<1>6. InspectInv
  BY DEF Init, InspectInv, Inspect!Init, AtRules, PastRules, Resolved
<1>7. ASSUME NEW rs \in Rules PROVE \A r \in HostRulesOf(rs).http : IsHostRule(r)
  BY DEF HostRulesOf, Rules
<1>8. UniversalInv
  BY <1>7 DEF Init, UniversalInv, Universal!Init
<1> QED
  BY <1>1, <1>5, <1>6, <1>8 DEF Inv

\* The resolver answers an address, or nothing.
LEMMA InspectAsks ==
  ASSUME TypeOK, NEW n, Inspect!Ask(n)
  PROVE  /\ resolved' \in answers' \cup {NoAddress} /\ resolved' \in Address \cup {NoAddress}
         /\ answers \subseteq answers' /\ answers' \subseteq Address
         /\ asked' = asked \cup {n}
BY DEF TypeOK, Inspect!Ask

LEMMA UniversalAsks ==
  ASSUME TypeOK, NEW n, Universal!Ask(n)
  PROVE  /\ resolved' \in answers' \cup {NoAddress} /\ resolved' \in Address \cup {NoAddress}
         /\ answers \subseteq answers' /\ answers' \subseteq Address
         /\ asked' = asked \cup {n}
BY DEF TypeOK, Universal!Ask

LEMMA InspectKept ==
  ASSUME Inv, InspectStep
  PROVE  Inv'
<1> USE RuleSetAssumption DEF Inv
<1>1. /\ engine = "inspect" /\ engine' = "inspect" /\ UNCHANGED <<rules, conn, decision>>
  BY DEF InspectStep, Inspect!Step, Inspect!fixed, Inspect!JudgeAddress, Inspect!GuardAddress,
         Inspect!JudgeSni, Inspect!AskSni, Inspect!FoundSni, Inspect!GuardSni, Inspect!ReadHead,
         Inspect!JudgeHost, Inspect!JudgePath, Inspect!JudgeRequest, Inspect!Resolve,
         Inspect!ResolveAgain, Inspect!Found, Inspect!GuardInternal, Inspect!Origin
<1>2. SUFFICES TypeOK' /\ InspectInv'
  BY <1>1 DEF UniversalInv
<1>3. conn \in Connection /\ conn.dst \in Address /\ Name \subseteq Host /\ Address \subseteq Host
  BY DEF TypeOK, Connection, Host
<1>4. Allowed' = Allowed /\ Universal!Passed' = Universal!Passed
  BY <1>1 DEF Allowed, Universal!Passed, Universal!Audit
<1> USE <1>1, <1>3, <1>4, SameConstants, SameMatchers
        DEF TypeOK, InspectInv, Inspect!Labels, Inspect!fixed, Inspect!Ends, Inspect!Deny, Inspect!Relay,
            AtRules, PastRules, Resolved
<1>5. CASE Inspect!JudgeAddress
  BY <1>5 DEF Inspect!JudgeAddress, Inspect!PassesAddress
<1>6. CASE Inspect!GuardAddress
  BY <1>6 DEF Inspect!GuardAddress
<1>7. CASE Inspect!JudgeSni
  BY <1>7 DEF Inspect!JudgeSni
<1>8. CASE Inspect!AskSni
  <2>1. conn.sni \in Name
    BY <1>8 DEF Inspect!AskSni, SniMatches
  <2>2. Inspect!Ask(conn.sni) /\ pc = "askSni" /\ pc' = "foundSni"
        /\ UNCHANGED <<pass, target, peer>>
    BY <1>8 DEF Inspect!AskSni
  <2> QED
    BY <2>1, <2>2, InspectAsks
<1>9. CASE Inspect!FoundSni
  BY <1>9 DEF Inspect!FoundSni
<1>10. CASE Inspect!GuardSni
  BY <1>10 DEF Inspect!GuardSni
<1>11. CASE Inspect!ReadHead
  BY <1>11 DEF Inspect!ReadHead
<1> USE DEF Inspect!Continue, Inspect!NextRule
<1>12. CASE Inspect!JudgeHost
  BY <1>12 DEF Inspect!JudgeHost
<1>13. CASE Inspect!JudgePath
  BY <1>13 DEF Inspect!JudgePath
<1>14. CASE Inspect!JudgeRequest
  BY <1>14, SamePolicy DEF Inspect!JudgeRequest, Inspect!Audit, Inspect!Allows, Allowed
<1>15. CASE Inspect!Resolve
  <2>1. CASE conn.host \in Address
    BY <1>15, <2>1 DEF Inspect!Resolve
  <2>2. CASE conn.host \notin Address
    BY <1>15, <2>2, InspectAsks DEF Inspect!Resolve
  <2> QED
    BY <2>1, <2>2
<1>16. CASE Inspect!ResolveAgain
  <2>1. CASE conn.host \in Address \/ resolved # NoAddress
    BY <1>16, <2>1 DEF Inspect!ResolveAgain
  <2>2. CASE ~(conn.host \in Address \/ resolved # NoAddress)
    BY <1>16, <2>2, InspectAsks DEF Inspect!ResolveAgain
  <2> QED
    BY <2>1, <2>2
<1>17. CASE Inspect!Found
  BY <1>17 DEF Inspect!Found
<1>18. CASE Inspect!GuardInternal
  BY <1>18 DEF Inspect!GuardInternal
<1>19. CASE Inspect!Origin
  BY <1>19 DEF Inspect!Origin
<1> QED
  BY <1>5, <1>6, <1>7, <1>8, <1>9, <1>10, <1>11, <1>12, <1>13, <1>14, <1>15, <1>16, <1>17,
     <1>18, <1>19 DEF InspectStep, Inspect!Step

LEMMA UniversalKept ==
  ASSUME Inv, UniversalStep
  PROVE  Inv'
<1> USE RuleSetAssumption DEF Inv
<1>1. engine = "universal" /\ engine' = "universal" /\ UNCHANGED <<rules, conn, pass>>
  BY DEF UniversalStep, Universal!Step, Universal!fixed, Universal!JudgeAddress,
         Universal!JudgeSni, Universal!AskSni, Universal!FoundSni, Universal!ReadHead,
         Universal!JudgeHost, Universal!Resolve, Universal!ResolveAgain, Universal!Found,
         Universal!Relayed
<1>2. SUFFICES TypeOK' /\ UniversalInv'
  BY <1>1 DEF InspectInv
<1>3. conn \in Connection /\ conn.dst \in Address /\ Name \subseteq Host /\ Address \subseteq Host
  BY DEF TypeOK, Connection, Host
<1>4. Universal!Passed' = Universal!Passed /\ Universal!Judged' = Universal!Judged
  BY <1>1 DEF Universal!Passed, Universal!Audit, Universal!Judged, Universal!Anything
<1>5. Universal!DnsRouted' = Universal!DnsRouted /\ Universal!HostAllowed' = Universal!HostAllowed
  BY <1>1, <1>4 DEF Universal!DnsRouted, Universal!HostAllowed
<1> USE <1>1, <1>3, <1>4, <1>5, SameConstants, SameMatchers
        DEF TypeOK, UniversalInv, Universal!Labels, Universal!fixed, Universal!Ends,
            Universal!Decided, Universal!Reject, Universal!Goto, Universal!Accept
<1>6. CASE Universal!JudgeAddress
  BY <1>6 DEF Universal!JudgeAddress
<1>7. CASE Universal!JudgeSni
  BY <1>7 DEF Universal!JudgeSni
<1>8. CASE Universal!AskSni
  <2>1. conn.sni \in Name
    BY <1>8 DEF Universal!AskSni, SniMatches
  <2>2. Universal!Ask(conn.sni) /\ pc = "askSni" /\ pc' = "foundSni"
        /\ UNCHANGED <<decision, target, peer>>
    BY <1>8 DEF Universal!AskSni
  <2> QED
    BY <2>1, <2>2, UniversalAsks
<1>9. CASE Universal!FoundSni
  BY <1>9 DEF Universal!FoundSni
<1>10. CASE Universal!ReadHead
  BY <1>10 DEF Universal!ReadHead, Universal!NoRequest
<1>11. CASE Universal!JudgeHost
  BY <1>11 DEF Universal!JudgeHost
<1>12. CASE Universal!Resolve
  BY <1>12, UniversalAsks DEF Universal!Resolve
<1>13. CASE Universal!ResolveAgain
  <2>1. CASE resolved # NoAddress
    BY <1>13, <2>1 DEF Universal!ResolveAgain
  <2>2. CASE resolved = NoAddress
    BY <1>13, <2>2, UniversalAsks DEF Universal!ResolveAgain
  <2> QED
    BY <2>1, <2>2
<1>14. CASE Universal!Found
  BY <1>14 DEF Universal!Found
<1>15. CASE Universal!Relayed
  BY <1>15 DEF Universal!Relayed
<1> QED
  BY <1>6, <1>7, <1>8, <1>9, <1>10, <1>11, <1>12, <1>13, <1>14, <1>15
  DEF UniversalStep, Universal!Step

THEOREM Invariance == Spec => []Inv
<1>1. Inv /\ [Next]_vars => Inv'
  <2> SUFFICES ASSUME Inv, [Next]_vars PROVE Inv'
    OBVIOUS
  <2>1. CASE UNCHANGED vars
    BY <2>1 DEF vars, Inv, TypeOK, InspectInv, UniversalInv, Allowed, Universal!Passed,
                Universal!Audit, Universal!Judged, Universal!Anything, Universal!DnsRouted,
                Universal!HostAllowed
  <2> QED
    BY <2>1, InspectKept, UniversalKept DEF Next, Done
<1> QED
  BY <1>1, InvBegins, PTL DEF Spec

\* A connection keeps its type, and so does all that becomes of it.
THEOREM TypeCorrect == Spec => []TypeOK
<1>1. Inv => TypeOK
  BY DEF Inv
<1> QED
  BY <1>1, Invariance, PTL

\* A connection that named its destination goes where the proxy resolved the
\* name, whichever engine it goes through (haproxy-inspect-stage.ts:258-260,
\* haproxy-universal-config.ts:183-192).
THEOREM TheResolverChooses == Spec => []ClientChoosesNoTarget
<1>1. Inv => ClientChoosesNoTarget
  BY DEF Inv, InspectInv, UniversalInv, ClientChoosesNoTarget, Inspect!ClientChoosesNoTarget,
         Universal!ClientChoosesNoTarget
<1> QED
  BY <1>1, Invariance, PTL

-----------------------------------------------------------------------------
(* The policy. *)

Keeps == [Policy!Next]_(Policy!policyVars)
Given == UNCHANGED <<engine, rules, conn>>

\* The rules and the connection the policy judges do not change.
LEMMA GivenStays ==
  ASSUME Given
  PROVE  /\ (IF engine = "inspect" THEN rules ELSE Universal!Judged)'
              = IF engine = "inspect" THEN rules ELSE Universal!Judged
         /\ (IF engine = "inspect" THEN conn ELSE [conn EXCEPT !.path = CHOOSE p \in Path : TRUE])'
              = IF engine = "inspect" THEN conn
                ELSE [conn EXCEPT !.path = CHOOSE p \in Path : TRUE]
BY DEF Given, Universal!Judged, Universal!Anything, Universal!Audit

\* A step that asks nothing and dials nothing: it goes on, or closes.
LEMMA Silently ==
  ASSUME Given, UNCHANGED <<asked, answers, peer>>, pc # "ended"
  PROVE  Keeps
BY GivenStays DEF Keeps, Policy!Next, Policy!Close, Policy!policyVars

LEMMA ByAsking ==
  ASSUME TypeOK, Given, UNCHANGED peer, peer = NoAddress, pc # "ended", pc' # "ended",
         NEW n \in Host, Policy!MayAsk(n), asked' = asked \cup {n},
         answers \subseteq answers', answers' \subseteq Address
  PROVE  Keeps
<1>1. answers' \in SUBSET Address /\ answers' = answers \cup answers'
  OBVIOUS
<1>2. Policy!Ask(n)
  BY <1>1, GivenStays DEF Policy!Ask
<1> QED
  BY <1>2, SameConstants DEF Keeps, Policy!Next

LEMMA ByRelaying ==
  ASSUME Given, UNCHANGED <<asked, answers>>, peer = NoAddress, pc # "ended", pc' # "ended",
         NEW a \in Address, Policy!MayReach(a), peer' = a
  PROVE  Keeps
<1>1. Policy!Relay(a)
  BY GivenStays DEF Policy!Relay
<1> QED
  BY <1>1 DEF Keeps, Policy!Next

LEMMA PolicyBegins == Init => Policy!Init
<1> SUFFICES ASSUME Init PROVE Policy!Init
  OBVIOUS
<1>1. rules \in Rules /\ conn \in Connection /\ engine \in {"inspect", "universal"}
  BY InvBegins DEF Inv, TypeOK
<1>2. Policy!Rules = Rules /\ Policy!Connection = Connection
  BY DEF Policy!Rules, Policy!Connection, Policy!Matcher, Policy!Host, Rules, Connection,
         Matcher, Host
<1>3. Universal!Judged \in Rules
  <2>1. Universal!Anything \in Matcher
    BY DEF Universal!Anything, Universal!Host, Matcher, Host
  <2>2. [rules EXCEPT !.https = {}, !.http = {Universal!Anything},
                      !.ip = {Universal!Anything}, !.tls = {Universal!Anything}] \in Rules
    BY <1>1, <2>1 DEF Rules
  <2>3. [rules EXCEPT !.https = {}, !.tls = rules.https] \in Rules
    BY <1>1 DEF Rules
  <2> QED
    BY <2>2, <2>3 DEF Universal!Judged
<1>4. [conn EXCEPT !.path = CHOOSE p \in Path : TRUE] \in Connection
  <2>1. (CHOOSE p \in Path : TRUE) \in Path
    BY RuleSetAssumption
  <2> QED
    BY <1>1, <2>1 DEF Connection
<1> QED
  BY <1>1, <1>2, <1>3, <1>4 DEF Init, Inspect!Init, Universal!Init, Policy!Init

\* An address the request stands for: the resolver's answer, or the address it
\* names itself, guarded as the config guards it.
LEMMA InspectKeeps ==
  ASSUME Inv, InspectStep
  PROVE  Keeps
<1> USE RuleSetAssumption DEF Inv, TypeOK
<1>1. engine = "inspect" /\ Given /\ pc # "ended"
  BY DEF Given, InspectStep, Inspect!Step, Inspect!fixed, Inspect!JudgeAddress,
         Inspect!GuardAddress, Inspect!JudgeSni, Inspect!AskSni, Inspect!FoundSni,
         Inspect!GuardSni, Inspect!ReadHead, Inspect!JudgeHost, Inspect!JudgePath,
         Inspect!JudgeRequest, Inspect!Resolve, Inspect!ResolveAgain, Inspect!Found,
         Inspect!GuardInternal, Inspect!Origin
<1>2. conn.dst \in Address /\ Name \subseteq Host
  BY DEF Connection, Host
<1>3. Policy!RequestAllowed <=> conn.host \in Host /\ conn.path # Traversal /\ Allowed
  BY <1>1, SameConstants, SamePolicy DEF Policy!RequestAllowed, Allowed
<1>4. CASE \/ Inspect!JudgeAddress \/ Inspect!JudgeSni \/ Inspect!FoundSni \/ Inspect!ReadHead
           \/ Inspect!JudgeHost \/ Inspect!JudgePath \/ Inspect!JudgeRequest \/ Inspect!Found
           \/ Inspect!Origin
  <2>1. UNCHANGED <<asked, answers, peer>>
    BY <1>4 DEF Inspect!JudgeAddress, Inspect!JudgeSni, Inspect!FoundSni, Inspect!ReadHead,
                Inspect!JudgeHost, Inspect!JudgePath, Inspect!JudgeRequest, Inspect!Found,
                Inspect!Origin
  <2> QED
    BY <1>1, <2>1, Silently
<1>5. CASE Inspect!GuardAddress
  <2>1. pc = "guardAddress" /\ UNCHANGED <<asked, answers>>
        /\ (UNCHANGED peer \/ (/\ pc' = "origin" /\ peer' = target
                               /\ ~(conn.dst \in Internal /\ conn.port = ListenPort)))
    BY <1>5, SameConstants DEF Inspect!GuardAddress, Inspect!Relay
  <2>2. CASE UNCHANGED peer
    BY <1>1, <2>1, <2>2, Silently
  <2>3. CASE ~UNCHANGED peer
    <3>1. target = conn.dst /\ conn.dst # ProxyAddress /\ AddressMatches(rules, conn)
          /\ peer = NoAddress
      BY <1>1, <2>1 DEF InspectInv
    <3>2. Policy!MayReach(target)
      BY <1>1, <2>1, <2>3, <3>1, SameConstants, SameMatchers DEF Policy!MayReach
    <3> QED
      BY <1>1, <2>1, <2>3, <3>1, <3>2, ByRelaying
  <2> QED
    BY <2>2, <2>3
<1>6. CASE Inspect!AskSni
  <2>1. /\ pc = "askSni" /\ pc' = "foundSni" /\ UNCHANGED peer /\ Inspect!Ask(conn.sni)
        /\ SniMatches(rules, conn) /\ peer = NoAddress
    BY <1>1, <1>6 DEF Inspect!AskSni, InspectInv
  <2>2. conn.sni \in Host /\ Policy!MayAsk(conn.sni)
    BY <1>1, <1>2, <2>1, SameMatchers DEF Policy!MayAsk, SniMatches
  <2> QED
    BY <1>1, <2>1, <2>2, InspectAsks, ByAsking
<1>7. CASE Inspect!GuardSni
  <2>1. /\ pc = "guardSni" /\ UNCHANGED <<asked, answers>>
        /\ (UNCHANGED peer \/ (pc' = "origin" /\ peer' = target /\ resolved \notin Internal))
    BY <1>7, SameConstants DEF Inspect!GuardSni, Inspect!Relay
  <2>2. CASE UNCHANGED peer
    BY <1>1, <2>1, <2>2, Silently
  <2>3. CASE ~UNCHANGED peer
    <3>1. resolved \in answers /\ target = resolved /\ peer = NoAddress
      BY <1>1, <2>1 DEF InspectInv
    <3>2. Policy!MayReach(target)
      BY <2>1, <2>3, <3>1, SameConstants DEF Policy!MayReach
    <3> QED
      BY <1>1, <2>1, <2>3, <3>1, <3>2, ByRelaying
  <2> QED
    BY <2>2, <2>3
<1>8. CASE Inspect!Resolve \/ Inspect!ResolveAgain
  <2>1. /\ pc \in {"resolve", "again"} /\ pc' # "ended" /\ UNCHANGED peer
        /\ (UNCHANGED <<asked, answers>> \/ Inspect!Ask(conn.host))
    BY <1>8 DEF Inspect!Resolve, Inspect!ResolveAgain, Inspect!Continue, Inspect!NextRule
  <2>2. CASE UNCHANGED <<asked, answers>>
    BY <1>1, <2>1, <2>2, Silently
  <2>3. CASE Inspect!Ask(conn.host)
    <3>1. conn.host \in Host /\ conn.path # Traversal /\ Allowed /\ peer = NoAddress
      BY <1>1, <2>1 DEF InspectInv, AtRules, PastRules
    <3>2. Policy!MayAsk(conn.host)
      BY <1>1, <1>3, <3>1 DEF Policy!MayAsk
    <3> QED
      BY <1>1, <2>1, <2>3, <3>1, <3>2, InspectAsks, ByAsking
  <2> QED
    BY <2>1, <2>2, <2>3
<1>9. CASE Inspect!GuardInternal
  <2>1. /\ pc = "guard" /\ UNCHANGED <<asked, answers>>
        /\ (UNCHANGED peer \/ (pc' = "origin" /\ peer' = target /\ ~Inspect!RefusesInternal))
    BY <1>9 DEF Inspect!GuardInternal, Inspect!Relay
  <2>2. CASE UNCHANGED peer
    BY <1>1, <2>1, <2>2, Silently
  <2>3. CASE ~UNCHANGED peer
    <3>1. /\ conn.host \in Host /\ conn.path # Traversal /\ Allowed /\ peer = NoAddress
          /\ resolved \in IF conn.host \in Address THEN {conn.host} ELSE answers \cup {NoAddress}
          /\ resolved # NoAddress /\ target = resolved
      BY <1>1, <2>1 DEF InspectInv, AtRules, PastRules, Resolved
    <3>2. resolved \notin Internal
          \/ (NamesAddress(rules, conn) /\ resolved \notin ProxySubnet /\ conn.port # ListenPort)
      BY <2>1, <2>3, SameConstants, SameMatchers DEF Inspect!RefusesInternal
    <3>3. NamesAddress(rules, conn) => conn.host \in Address
      BY DEF NamesAddress
    <3>4. Policy!MayReach(target)
      BY <1>1, <1>3, <3>1, <3>2, <3>3, SameConstants, SameMatchers DEF Policy!MayReach
    <3> QED
      BY <1>1, <2>1, <2>3, <3>1, <3>4, ByRelaying
  <2> QED
    BY <2>2, <2>3
<1> QED
  BY <1>4, <1>5, <1>6, <1>7, <1>8, <1>9 DEF InspectStep, Inspect!Step

\* The policy's connection differs from the one the universal engine judges in
\* its path alone, which the engine never sees.
LEMMA UniversalMay ==
  ASSUME Inv, engine = "universal"
  PROVE  /\ SniMatches(Universal!Judged, conn) => Policy!MayAsk(conn.sni)
         /\ conn.host \in Host /\ Universal!HostAllowed /\ ~conn.hello => Policy!MayAsk(conn.host)
         /\ \A a \in answers \ Internal : Policy!MayReach(a)
         /\ conn.dst # ProxyAddress /\ AddressMatches(Universal!Judged, conn)
              /\ ~(conn.dst \in Internal /\ conn.port = ListenPort) => Policy!MayReach(conn.dst)
<1> USE RuleSetAssumption DEF Inv, TypeOK
<1> DEFINE seen == [conn EXCEPT !.path = CHOOSE p \in Path : TRUE]
<1>1. (CHOOSE p \in Path : TRUE) \in Path
  OBVIOUS
<1>2. /\ seen.dst = conn.dst /\ seen.port = conn.port /\ seen.hello = conn.hello
      /\ seen.sni = conn.sni /\ seen.host = conn.host /\ seen.method = conn.method
      /\ seen.path \in Path /\ conn.method \in Method
  BY <1>1 DEF Connection
<1>3. (IF engine = "inspect" THEN conn ELSE seen) = seen
      /\ (IF engine = "inspect" THEN rules ELSE Universal!Judged) = Universal!Judged
  OBVIOUS
<1> HIDE DEF seen
<1>4. /\ SniMatches(Universal!Judged, seen) = SniMatches(Universal!Judged, conn)
      /\ AddressMatches(Universal!Judged, seen) = AddressMatches(Universal!Judged, conn)
  BY <1>2 DEF SniMatches, AddressMatches
<1>5. SniMatches(Universal!Judged, conn) => Policy!MayAsk(conn.sni)
  BY <1>2, <1>3, <1>4, SameMatchers DEF Policy!MayAsk, seen
<1>6. \A a \in answers \ Internal : Policy!MayReach(a)
  BY SameConstants DEF Policy!MayReach
<1>7. conn.dst # ProxyAddress /\ AddressMatches(Universal!Judged, conn)
        /\ ~(conn.dst \in Internal /\ conn.port = ListenPort) => Policy!MayReach(conn.dst)
  BY <1>2, <1>3, <1>4, SameConstants, SameMatchers DEF Policy!MayReach, seen
<1>8. ASSUME conn.host \in Host, Universal!HostAllowed, ~conn.hello
      PROVE  Policy!MayAsk(conn.host)
  <2>1. PICK r \in Universal!Judged.http : Universal!HostMatches(r, conn.host, conn.port, AnyPort)
    BY <1>8 DEF Universal!HostAllowed
  <2>2. IsHostRule(r)
    <3>1. CASE rules.mode = "audit"
      <4>1. Universal!Judged.http = {Universal!Anything}
        BY <3>1 DEF Universal!Judged, Universal!Audit, Rules
      <4> QED
        BY <2>1, <4>1 DEF IsHostRule, Universal!Anything
    <3>2. CASE rules.mode # "audit"
      <4>1. Universal!Judged.http = rules.http
        BY <3>2 DEF Universal!Judged, Universal!Audit, Rules
      <4> QED
        BY <2>1, <4>1, <1>8 DEF UniversalInv
    <3> QED
      BY <3>1, <3>2
  <2>3. \A default : HostMatches(r, seen.host, seen.port, default)
    BY <1>2, <2>1, <2>2 DEF Universal!HostMatches, HostMatches, IsHostRule
  <2>4. r \in SchemeRules(Universal!Judged, seen) /\ RequestMatches(r, seen, SchemeOf(seen))
    BY <1>2, <1>8, <2>1, <2>2, <2>3 DEF SchemeRules, RequestMatches, IsHostRule
  <2>5. \E q \in Policy!SchemeRules(Universal!Judged, seen) :
          Policy!RequestMatches(q, seen, Policy!SchemeOf(seen))
    BY <2>4, SamePolicy
  <2>6. seen.host \in Policy!Host /\ seen.path # Traversal
    BY <1>2, <1>8, SameConstants
  <2>7. Policy!RequestAllowed
    BY <1>3, <2>5, <2>6 DEF Policy!RequestAllowed, seen
  <2> QED
    BY <1>2, <1>3, <2>7 DEF Policy!MayAsk, seen
<1> QED
  BY <1>5, <1>6, <1>7, <1>8

LEMMA UniversalKeeps ==
  ASSUME Inv, UniversalStep
  PROVE  Keeps
<1> USE RuleSetAssumption DEF Inv, TypeOK
<1>1. engine = "universal" /\ Given /\ pc # "ended"
  BY DEF Given, UniversalStep, Universal!Step, Universal!fixed, Universal!JudgeAddress,
         Universal!JudgeSni, Universal!AskSni, Universal!FoundSni, Universal!ReadHead,
         Universal!JudgeHost, Universal!Resolve, Universal!ResolveAgain, Universal!Found,
         Universal!Relayed
<1>2. conn.dst \in Address /\ Name \subseteq Host
  BY DEF Connection, Host
<1> USE DEF Universal!Goto, Universal!Accept
<1>3. CASE Universal!JudgeSni \/ Universal!ReadHead \/ Universal!JudgeHost \/ Universal!Relayed
  <2>1. UNCHANGED <<asked, answers, peer>>
    BY <1>3 DEF Universal!JudgeSni, Universal!ReadHead, Universal!JudgeHost, Universal!Relayed
  <2> QED
    BY <1>1, <2>1, Silently
<1>4. CASE Universal!JudgeAddress
  <2>1. /\ pc = "address" /\ UNCHANGED <<asked, answers>>
        /\ \/ UNCHANGED peer
           \/ /\ ~Universal!DnsRouted /\ AddressMatches(Universal!Judged, conn)
              /\ ~(conn.dst \in Internal /\ conn.port = ListenPort)
              /\ pc' = "relayed" /\ peer' = conn.dst
    BY <1>4, SameConstants, SameMatchers DEF Universal!JudgeAddress
  <2>2. CASE UNCHANGED peer
    BY <1>1, <2>1, <2>2, Silently
  <2>3. CASE ~UNCHANGED peer
    <3>1. peer = NoAddress /\ Policy!MayReach(conn.dst)
      BY <1>1, <2>1, <2>3, UniversalMay DEF UniversalInv, Universal!DnsRouted
    <3> QED
      BY <1>1, <1>2, <2>1, <2>3, <3>1, ByRelaying
  <2> QED
    BY <2>2, <2>3
<1>5. CASE Universal!AskSni
  <2>1. /\ pc = "askSni" /\ pc' = "foundSni" /\ UNCHANGED peer /\ Universal!Ask(conn.sni)
        /\ SniMatches(Universal!Judged, conn) /\ peer = NoAddress
    BY <1>1, <1>5 DEF Universal!AskSni, UniversalInv
  <2>2. conn.sni \in Host
    BY <1>2, <2>1 DEF SniMatches
  <2> QED
    BY <1>1, <2>1, <2>2, UniversalAsks, UniversalMay, ByAsking
<1>6. CASE Universal!FoundSni \/ Universal!Found
  <2>1. /\ pc \in {"foundSni", "found"} /\ UNCHANGED <<asked, answers>>
        /\ \/ UNCHANGED peer
           \/ /\ resolved # NoAddress /\ resolved \notin Internal
              /\ pc' = "relayed" /\ peer' = resolved
    BY <1>6, SameConstants DEF Universal!FoundSni, Universal!Found
  <2>2. CASE UNCHANGED peer
    BY <1>1, <2>1, <2>2, Silently
  <2>3. CASE ~UNCHANGED peer
    <3>1. peer = NoAddress /\ resolved \in answers \ Internal
      BY <1>1, <2>1, <2>3 DEF UniversalInv
    <3> QED
      BY <1>1, <2>1, <2>3, <3>1, UniversalMay, ByRelaying
  <2> QED
    BY <2>2, <2>3
<1>7. CASE Universal!Resolve \/ Universal!ResolveAgain
  <2>1. /\ pc \in {"resolve", "again"} /\ pc' \in {"again", "found"} /\ UNCHANGED peer
        /\ (UNCHANGED <<asked, answers>> \/ Universal!Ask(conn.host))
    BY <1>7 DEF Universal!Resolve, Universal!ResolveAgain
  <2>2. CASE UNCHANGED <<asked, answers>>
    BY <1>1, <2>1, <2>2, Silently
  <2>3. CASE Universal!Ask(conn.host)
    <3>1. conn.host \in Host /\ Universal!HostAllowed /\ ~conn.hello /\ peer = NoAddress
      BY <1>1, <2>1 DEF UniversalInv
    <3> QED
      BY <1>1, <2>1, <2>3, <3>1, UniversalAsks, UniversalMay, ByAsking
  <2> QED
    BY <2>1, <2>2, <2>3
<1> QED
  BY <1>3, <1>4, <1>5, <1>6, <1>7 DEF UniversalStep, Universal!Step

\* Both engines implement the policy: no query ahead of a deny, and no address
\* dialled that neither a rule nor the resolver gave, for every rule set and
\* every connection (haproxy-inspect-stage.ts:241-245,
\* haproxy-universal-config.ts:1-8).
THEOREM EnginesImplementPolicy == Spec => KeepsPolicy
<1>1. Inv /\ [Next]_vars => [Policy!Next]_(Policy!policyVars)
  <2> SUFFICES ASSUME Inv, [Next]_vars PROVE Keeps
    BY DEF Keeps
  <2>1. CASE UNCHANGED vars
    <3>1. Given /\ UNCHANGED <<asked, answers, peer, pc>>
      BY <2>1 DEF vars, Given
    <3> QED
      BY <3>1, GivenStays DEF Keeps, Policy!policyVars
  <2> QED
    BY <2>1, InspectKeeps, UniversalKeeps DEF Next, Done
<1> QED
  BY <1>1, PolicyBegins, Invariance, PTL DEF Spec, KeepsPolicy, Policy!Spec

-----------------------------------------------------------------------------
(* The report's row.  A connection leaves its one line where it ends, so    *)
(* what the line may say is what its last place had found out.              *)

\* The places whose rules run before anything was asked.
Unasked == {"address", "sni", "askSni", "head", "host", "path", "rules", "resolve"}

InspectRow ==
  engine = "inspect" =>
    /\ pc # "ended" => lines = <<>> /\ end = "open"
    /\ pc \in {"address", "sni", "head", "host", "path"} \cup AtRules => pass = "no"
    /\ pc = "guardAddress" => pass = "tcp"
    /\ pc \in {"askSni", "foundSni", "guardSni"} => pass = "tls"
    /\ pc \in Unasked => asked = {}
    /\ pc = "foundSni" => asked # {}
    /\ pc \in {"again", "found"} => asked # {} \/ conn.host \in Address
    /\ pc = "origin" => peer # NoAddress
    /\ Inspect!RowTellsWhatHappened

UniversalRow ==
  engine = "universal" =>
    /\ pc # "ended" => lines = <<>> /\ end = "open"
    /\ pc \notin {"relayed", "ended"} => decision = "BLOCKED"
    /\ pc = "relayed" => decision = Universal!Passed /\ peer # NoAddress
    /\ resolved = NoAddress => answers = {}
    /\ pc \in Unasked => asked = {} /\ answers = {}
    /\ pc \in {"foundSni", "again", "found"} => asked # {}
    /\ Universal!RowTellsWhatHappened

RowInv == Inv /\ InspectRow /\ UniversalRow

\* The one line.
LEMMA OneLine ==
  ASSUME NEW l, lines = <<>>, lines' = Append(lines, l)
  PROVE  DOMAIN lines' = {1} /\ lines'[1] = l
OBVIOUS

LEMMA RowBegins == Init => RowInv
<1> SUFFICES ASSUME Init PROVE InspectRow /\ UniversalRow
  BY InvBegins DEF RowInv
<1>1. DOMAIN <<>> = {}
  OBVIOUS
<1> QED
  BY <1>1 DEF Init, InspectRow, UniversalRow, Inspect!Init, Universal!Init, Unasked, AtRules,
              Inspect!RowTellsWhatHappened, Universal!RowTellsWhatHappened

\* A line and what its row says: Says(l) is the row of l after the step.
InspectSays(l, act) ==
  /\ end \in {"denied", "untrusted"} => act = "block" \/ (act = "failed" /\ l.reason = "dns-failed")
  /\ end = "served" => act \in {"allow", "audit"}
  /\ act \in {"allow", "audit"} => peer # NoAddress
  /\ act = "incomplete" => peer = NoAddress /\ asked = {}
  /\ act = "failed" => asked # {} \/ peer # NoAddress

LEMMA InspectRowOf ==
  ASSUME lines = <<>>, NEW l, lines' = Append(lines, l), InspectSays(l, Inspect!ActionOf(l))'
  PROVE  Inspect!RowTellsWhatHappened'
<1>1. DOMAIN lines' = {1} /\ lines'[1] = l
  BY OneLine
<1>2. ASSUME NEW i \in DOMAIN lines' PROVE InspectSays(lines[i], Inspect!ActionOf(lines[i]))'
  <2>1. lines'[i] = l
    BY <1>1, <1>2
  <2> QED
    BY <2>1
<1> QED
  BY <1>2 DEF Inspect!RowTellsWhatHappened, InspectSays

\* A refusal is a block; only a name that did not resolve is a failure.
LEMMA InspectDenies ==
  ASSUME lines = <<>>, NEW reason, Inspect!Deny(reason), pass \in {"no", "tcp", "tls"},
         reason \in {"internal-address", "dns-failed", "missing-host-header", "invalid-host", "-"},
         reason = "dns-failed" => asked' # {}
  PROVE  Inspect!RowTellsWhatHappened'
<1>1. PICK l :
        /\ end' = "denied" /\ lines' = Append(lines, l)
        /\ l = [stage |-> Inspect!Stage, ts |-> <<"P", "R">>, reason |-> reason, tlserr |-> "-",
                fcerr |-> "-", parsed |-> pass = "no", dst |-> target]
  BY DEF Inspect!Deny, Inspect!Ends
<1>2. /\ l.ts = <<"P", "R">> /\ l.ts[1] = "P" /\ l.fcerr = "-" /\ l.reason = reason
  BY <1>1
<1>3. Inspect!Incomplete(l) = "none" /\ Inspect!IsBlock(l.ts)
  BY <1>2 DEF Inspect!Incomplete, Inspect!IsBlock
<1>4. Inspect!ReasonOf(l) = reason \/ Inspect!ReasonOf(l) \in {"not-allowed", "bad-request"}
  BY <1>2 DEF Inspect!ReasonOf
<1>5. Inspect!ActionOf(l)' = "block" \/ (Inspect!ActionOf(l)' = "failed" /\ reason = "dns-failed")
  BY <1>3, <1>4 DEF Inspect!ActionOf, Inspect!FailureReason
<1> QED
  BY <1>1, <1>2, <1>5, InspectRowOf DEF InspectSays

\* A connection that ended while its head was read: refused as garbage, or set
\* aside with nothing asked and nothing dialled.
LEMMA InspectHeadRow ==
  ASSUME lines = <<>>, Inspect!ReadHead, pass = "no", peer = NoAddress, asked = {},
         pc' = "ended"
  PROVE  Inspect!RowTellsWhatHappened'
<1>1. PICK how, ts, fcerr :
        /\ Inspect!Ends(how, ts, "-", "-", fcerr, FALSE) /\ UNCHANGED <<peer, asked>>
        /\ \/ how = "denied" /\ ts = <<"P", "R">> /\ fcerr = "-"
           \/ how \in {"clientLeft", "machinery"}
              /\ (ts \in {<<"C", "R">>, <<"c", "R">>, <<"R", "R">>} \/ fcerr = "SSL_HANDSHAKE")
  BY DEF Inspect!ReadHead
<1>2. PICK l :
        /\ end' = how /\ lines' = Append(lines, l)
        /\ l = [stage |-> Inspect!Stage, ts |-> ts, reason |-> "-", tlserr |-> "-",
                fcerr |-> fcerr, parsed |-> FALSE, dst |-> target]
  BY <1>1 DEF Inspect!Ends
<1>3. /\ l.ts = ts /\ l.fcerr = fcerr /\ l.reason = "-" /\ l.parsed = FALSE
      /\ l.stage \in {"https", "http"}
  BY <1>2 DEF Inspect!Stage, Inspect!SchemeOf
<1>4. CASE how = "denied"
  <2>1. ts[1] = "P" /\ fcerr = "-"
    BY <1>1, <1>4
  <2>2. Inspect!Incomplete(l) = "none" /\ Inspect!IsBlock(l.ts)
        /\ Inspect!ReasonOf(l) = "bad-request"
    BY <1>3, <2>1 DEF Inspect!Incomplete, Inspect!IsBlock, Inspect!ReasonOf
  <2>3. Inspect!ActionOf(l)' = "block"
    BY <2>2 DEF Inspect!ActionOf, Inspect!FailureReason
  <2> QED
    BY <1>2, <1>4, <2>3, InspectRowOf DEF InspectSays
<1>5. CASE how \in {"clientLeft", "machinery"}
  <2>1. Inspect!Incomplete(l) # "none"
    <3>1. (ts[1] \in {"C", "c", "R"} /\ ts[2] = "R") \/ fcerr = "SSL_HANDSHAKE"
      BY <1>1, <1>5
    <3> QED
      BY <1>3, <3>1 DEF Inspect!Incomplete
  <2>2. Inspect!ActionOf(l)' = "incomplete"
    BY <1>3, <2>1 DEF Inspect!ActionOf
  <2> QED
    BY <1>1, <1>2, <1>5, <2>2, InspectRowOf DEF InspectSays
<1> QED
  BY <1>1, <1>4, <1>5

\* A connection that was dialled is never set aside; what was served is never a
\* block, and an impostor is nothing but a block.
LEMMA InspectOriginRow ==
  ASSUME lines = <<>>, Inspect!Origin, peer # NoAddress, pass \in {"no", "tcp", "tls"}
  PROVE  Inspect!RowTellsWhatHappened'
<1>1. PICK o \in Inspect!Outcomes \cup (IF Inspect!Stage = "https" THEN Inspect!Impostors ELSE {}) :
        Inspect!Ends(o.end, o.ts, "-", o.tlserr, "-", pass = "no") /\ UNCHANGED <<peer, asked>>
  BY DEF Inspect!Origin
<1>2. PICK l :
        /\ end' = o.end /\ lines' = Append(lines, l)
        /\ l = [stage |-> Inspect!Stage, ts |-> o.ts, reason |-> "-", tlserr |-> o.tlserr,
                fcerr |-> "-", parsed |-> pass = "no", dst |-> target]
  BY <1>1 DEF Inspect!Ends
<1>3. /\ l.ts = o.ts /\ l.fcerr = "-" /\ l.reason = "-" /\ l.tlserr = o.tlserr
      /\ l.stage = Inspect!Stage /\ l.parsed = (pass = "no")
  BY <1>2
<1>4. o.ts[2] # "R" /\ o.end # "denied"
  BY <1>1 DEF Inspect!Outcomes, Inspect!Impostors
<1>5. l.stage \in {"https", "http"} => l.parsed
  BY <1>3 DEF Inspect!Stage, Inspect!SchemeOf
<1>6. l.parsed => Inspect!Incomplete(l) = "none"
  BY <1>3, <1>4 DEF Inspect!Incomplete
<1>7. CASE o.end = "served"
  <2>1. o.ts[1] = "-"
    BY <1>1, <1>7 DEF Inspect!Outcomes, Inspect!Impostors
  <2>2. Inspect!ActionOf(l)' \in {"allow", "audit"}
    BY <1>3, <1>5, <1>6, <2>1 DEF Inspect!ActionOf, Inspect!IsBlock
  <2> QED
    BY <1>1, <1>2, <1>7, <2>2, InspectRowOf DEF InspectSays
<1>8. CASE o.end = "untrusted"
  <2>1. o.ts[1] = "S" /\ o.ts[2] = "C" /\ Inspect!Stage = "https"
    BY <1>1, <1>8 DEF Inspect!Outcomes, Inspect!Impostors
  <2>2. Inspect!ReasonOf(l) \in {"origin-untrusted", "origin-connect-failed"}
    BY <1>3, <2>1 DEF Inspect!ReasonOf
  <2>3. Inspect!ActionOf(l)' = "block"
    BY <1>3, <1>5, <1>6, <2>1, <2>2 DEF Inspect!ActionOf, Inspect!IsBlock, Inspect!FailureReason
  <2> QED
    BY <1>1, <1>2, <1>8, <2>3, InspectRowOf DEF InspectSays
<1>9. CASE o.end \notin {"served", "untrusted"}
  <2>1. Inspect!ActionOf(l)' # "incomplete"
    BY <1>5, <1>6 DEF Inspect!ActionOf
  <2> QED
    BY <1>1, <1>2, <1>4, <1>9, <2>1, InspectRowOf DEF InspectSays
<1> QED
  BY <1>7, <1>8, <1>9

LEMMA InspectRowKept ==
  ASSUME RowInv, InspectStep
  PROVE  RowInv'
<1> USE RuleSetAssumption DEF RowInv, Inv, TypeOK
<1>1. Inv'
  BY InspectKept
<1>2. /\ engine = "inspect" /\ engine' = "inspect" /\ UNCHANGED <<rules, conn>>
      /\ pc # "ended" /\ lines = <<>> /\ end = "open"
  BY DEF InspectStep, Inspect!Step, Inspect!fixed, Inspect!JudgeAddress, Inspect!GuardAddress,
         Inspect!JudgeSni, Inspect!AskSni, Inspect!FoundSni, Inspect!GuardSni, Inspect!ReadHead,
         Inspect!JudgeHost, Inspect!JudgePath, Inspect!JudgeRequest, Inspect!Resolve,
         Inspect!ResolveAgain, Inspect!Found, Inspect!GuardInternal, Inspect!Origin, InspectRow
<1>3. SUFFICES InspectRow'
  BY <1>1, <1>2 DEF UniversalRow
\* A step that ends nothing leaves no line to speak of.
<1>4. lines' = lines => Inspect!RowTellsWhatHappened'
  BY <1>2 DEF Inspect!RowTellsWhatHappened
<1>5. target \in Address /\ target # NoAddress
  OBVIOUS
<1> USE <1>2 DEF InspectRow, AtRules, Unasked
<1>6. CASE Inspect!JudgeAddress
  BY <1>4, <1>6 DEF Inspect!JudgeAddress
<1>7. CASE Inspect!GuardAddress
  <2>1. CASE Inspect!Deny("internal-address")
    BY <1>7, <2>1, InspectDenies DEF Inspect!GuardAddress, Inspect!Deny, Inspect!Ends
  <2>2. CASE Inspect!Relay
    BY <1>4, <1>5, <1>7, <2>2 DEF Inspect!GuardAddress, Inspect!Relay
  <2> QED
    BY <1>7, <2>1, <2>2 DEF Inspect!GuardAddress
<1>8. CASE Inspect!JudgeSni
  BY <1>4, <1>8 DEF Inspect!JudgeSni
<1>9. CASE Inspect!AskSni
  BY <1>4, <1>9 DEF Inspect!AskSni, Inspect!Ask
<1>10. CASE Inspect!FoundSni
  <2>1. CASE Inspect!Deny("dns-failed")
    BY <1>10, <2>1, InspectDenies DEF Inspect!FoundSni, Inspect!Deny, Inspect!Ends
  <2>2. CASE pc' = "guardSni" /\ UNCHANGED <<lines, end>>
    BY <1>4, <1>10, <2>2 DEF Inspect!FoundSni
  <2> QED
    BY <1>10, <2>1, <2>2 DEF Inspect!FoundSni
<1>11. CASE Inspect!GuardSni
  <2>1. CASE Inspect!Deny("internal-address")
    BY <1>11, <2>1, InspectDenies DEF Inspect!GuardSni, Inspect!Deny, Inspect!Ends
  <2>2. CASE Inspect!Relay
    BY <1>4, <1>5, <1>11, <2>2 DEF Inspect!GuardSni, Inspect!Relay
  <2> QED
    BY <1>11, <2>1, <2>2 DEF Inspect!GuardSni
<1>12. CASE Inspect!ReadHead
  <2>1. pass = "no" /\ asked = {} /\ peer = NoAddress
    BY <1>12 DEF Inspect!ReadHead, InspectInv
  <2>2. CASE pc' = "ended"
    BY <1>12, <2>1, <2>2, InspectHeadRow
  <2>3. CASE pc' # "ended"
    BY <1>4, <1>12, <2>3 DEF Inspect!ReadHead, Inspect!Ends
  <2> QED
    BY <2>2, <2>3
<1> USE DEF Inspect!Continue, Inspect!NextRule
<1>13. CASE Inspect!JudgeHost
  <2>1. CASE Inspect!Deny("missing-host-header") \/ Inspect!Deny("invalid-host")
    BY <1>13, <2>1, InspectDenies DEF Inspect!JudgeHost, Inspect!Deny, Inspect!Ends
  <2>2. CASE Inspect!Continue
    BY <1>4, <1>13, <2>2 DEF Inspect!JudgeHost
  <2> QED
    BY <1>13, <2>1, <2>2 DEF Inspect!JudgeHost
<1>14. CASE Inspect!JudgePath
  <2>1. CASE Inspect!Deny("-")
    BY <1>14, <2>1, InspectDenies DEF Inspect!JudgePath, Inspect!Deny, Inspect!Ends
  <2>2. CASE Inspect!Continue
    BY <1>4, <1>14, <2>2 DEF Inspect!JudgePath
  <2> QED
    BY <1>14, <2>1, <2>2 DEF Inspect!JudgePath
<1>15. CASE Inspect!JudgeRequest
  <2>1. CASE Inspect!Deny("-")
    BY <1>15, <2>1, InspectDenies DEF Inspect!JudgeRequest, Inspect!Deny, Inspect!Ends
  <2>2. CASE Inspect!Continue
    BY <1>4, <1>15, <2>2 DEF Inspect!JudgeRequest
  <2> QED
    BY <1>15, <2>1, <2>2 DEF Inspect!JudgeRequest
<1>16. CASE Inspect!Resolve
  BY <1>4, <1>16 DEF Inspect!Resolve, Inspect!Ask
<1>17. CASE Inspect!ResolveAgain
  BY <1>4, <1>17 DEF Inspect!ResolveAgain, Inspect!Ask
<1>18. CASE Inspect!Found
  <2>1. CASE Inspect!Deny("dns-failed")
    <3>1. resolved = NoAddress /\ conn.host \notin Address
      BY <1>18, <2>1 DEF Inspect!Found, Inspect!Deny, Inspect!Ends, InspectInv, Resolved
    <3> QED
      BY <1>18, <2>1, <3>1, InspectDenies DEF Inspect!Found, Inspect!Deny, Inspect!Ends
  <2>2. CASE Inspect!Continue
    BY <1>4, <1>18, <2>2 DEF Inspect!Found
  <2> QED
    BY <1>18, <2>1, <2>2 DEF Inspect!Found
<1>19. CASE Inspect!GuardInternal
  <2>1. CASE Inspect!Deny("internal-address")
    BY <1>19, <2>1, InspectDenies DEF Inspect!GuardInternal, Inspect!Deny, Inspect!Ends
  <2>2. CASE Inspect!Relay
    BY <1>4, <1>5, <1>19, <2>2 DEF Inspect!GuardInternal, Inspect!Relay
  <2> QED
    BY <1>19, <2>1, <2>2 DEF Inspect!GuardInternal
<1>20. CASE Inspect!Origin
  BY <1>20, InspectOriginRow DEF Inspect!Origin, Inspect!Ends
<1> QED
  BY <1>6, <1>7, <1>8, <1>9, <1>10, <1>11, <1>12, <1>13, <1>14, <1>15, <1>16, <1>17, <1>18,
     <1>19, <1>20 DEF InspectStep, Inspect!Step

\* The same of the other engine's line: what became of the connection, in the
\* decision and reason HAProxy was left with.
UniversalSays(act) ==
  /\ end = "denied" => act = "block" \/ (act = "failed" /\ asked # {} /\ answers = {})
  /\ act \in {"allow", "audit"} <=> peer # NoAddress
  /\ end \in {"clientLeft", "machinery"} /\ peer = NoAddress => act = "incomplete" /\ asked = {}

LEMMA UniversalRowOf ==
  ASSUME lines = <<>>, NEW l, lines' = Append(lines, l), UniversalSays(Universal!ActionOf(l))'
  PROVE  Universal!RowTellsWhatHappened'
<1>1. DOMAIN lines' = {1} /\ lines'[1] = l
  BY OneLine
<1>2. ASSUME NEW i \in DOMAIN lines' PROVE UniversalSays(Universal!ActionOf(lines[i]))'
  <2>1. lines'[i] = l
    BY <1>1, <1>2
  <2> QED
    BY <2>1
<1> QED
  BY <1>2 DEF Universal!RowTellsWhatHappened, UniversalSays

LEMMA UniversalRejects ==
  ASSUME lines = <<>>, NEW reason, Universal!Reject(reason), decision = "BLOCKED",
         peer' = NoAddress, reason = "dns-failed" => asked' # {} /\ answers' = {}
  PROVE  Universal!RowTellsWhatHappened'
<1>1. PICK l : /\ end' = "denied" /\ lines' = Append(lines, l)
               /\ l = [decision |-> decision, reason |-> reason, ts |-> <<"-", "-">>]
  BY DEF Universal!Reject, Universal!Decided, Universal!Ends
<1>2. Universal!ActionOf(l)' = IF reason = "dns-failed" THEN "failed" ELSE "block"
  BY <1>1 DEF Universal!ActionOf
<1> QED
  BY <1>1, <1>2, UniversalRowOf DEF UniversalSays

LEMMA UniversalHeadRow ==
  ASSUME lines = <<>>, NEW how, NEW cause, Universal!NoRequest(how, cause),
         peer' = NoAddress, asked' = {},
         (how = "denied" /\ cause = "P") \/ (how \in {"clientLeft", "machinery"} /\ cause \in {"C", "c", "R"})
  PROVE  Universal!RowTellsWhatHappened'
<1>1. PICK l : /\ end' = how /\ lines' = Append(lines, l)
               /\ l = [decision |-> "-", reason |-> "-", ts |-> <<cause, "R">>]
  BY DEF Universal!NoRequest, Universal!Ends
<1>2. l.decision = "-" /\ l.ts[1] = cause
  BY <1>1
<1>3. Universal!Incomplete(l.ts) = "none" <=> cause = "P"
  BY <1>2 DEF Universal!Incomplete
<1>4. Universal!ActionOf(l)' = IF cause = "P" THEN "block" ELSE "incomplete"
  BY <1>2, <1>3 DEF Universal!ActionOf
<1> QED
  BY <1>1, <1>4, UniversalRowOf DEF UniversalSays

LEMMA UniversalRowKept ==
  ASSUME RowInv, UniversalStep
  PROVE  RowInv'
<1> USE RuleSetAssumption DEF RowInv, Inv, TypeOK
<1>1. Inv'
  BY UniversalKept
<1>2. /\ engine = "universal" /\ engine' = "universal" /\ UNCHANGED <<rules, conn>>
      /\ pc # "ended" /\ lines = <<>> /\ end = "open"
  BY DEF UniversalStep, Universal!Step, Universal!fixed, Universal!JudgeAddress,
         Universal!JudgeSni, Universal!AskSni, Universal!FoundSni, Universal!ReadHead,
         Universal!JudgeHost, Universal!Resolve, Universal!ResolveAgain, Universal!Found,
         Universal!Relayed, UniversalRow
<1>3. SUFFICES UniversalRow'
  BY <1>1, <1>2 DEF InspectRow
<1>4. lines' = lines => Universal!RowTellsWhatHappened'
  BY <1>2 DEF Universal!RowTellsWhatHappened
<1>5. Universal!Passed' = Universal!Passed /\ conn.dst \in Address
  BY <1>2 DEF Universal!Passed, Universal!Audit, Connection
<1>6. pc # "relayed" => peer = NoAddress
  BY <1>2 DEF UniversalInv
<1> USE <1>2, <1>5 DEF UniversalRow, Unasked, Universal!Goto
\* A step that goes on, and one that refuses.
<1>7. CASE Universal!JudgeAddress
  <2>1. CASE \E reason \in {"ip-not-allowed", "internal-address"} :
               Universal!Reject(reason) /\ UNCHANGED <<decision, peer>>
    BY <1>6, <1>7, <2>1, UniversalRejects
    DEF Universal!JudgeAddress, Universal!Reject, Universal!Decided, Universal!Ends
  <2>2. CASE Universal!Accept(conn.dst)
    BY <1>4, <1>7, <2>2 DEF Universal!JudgeAddress, Universal!Accept
  <2>3. CASE UNCHANGED <<decision, peer, lines, end>> /\ pc' \in {"sni", "head"}
    BY <1>4, <1>7, <2>3 DEF Universal!JudgeAddress
  <2> QED
    BY <1>7, <2>1, <2>2, <2>3 DEF Universal!JudgeAddress
<1>8. CASE Universal!JudgeSni
  <2>1. CASE \E reason \in {"missing-sni", "invalid-sni", "not-allowed"} : Universal!Reject(reason)
    BY <1>6, <1>8, <2>1, UniversalRejects
    DEF Universal!JudgeSni, Universal!Reject, Universal!Decided, Universal!Ends
  <2>2. CASE Universal!Goto("askSni")
    BY <1>4, <1>8, <2>2 DEF Universal!JudgeSni
  <2> QED
    BY <1>8, <2>1, <2>2 DEF Universal!JudgeSni
<1>9. CASE Universal!AskSni
  BY <1>4, <1>9 DEF Universal!AskSni, Universal!Ask
<1>10. CASE Universal!FoundSni \/ Universal!Found
  <2>1. /\ pc \in {"foundSni", "found"} /\ UNCHANGED <<resolved, asked, answers>>
        /\ \/ /\ \/ Universal!Reject("internal-address")
                 \/ resolved = NoAddress /\ Universal!Reject("dns-failed")
              /\ UNCHANGED <<decision, peer>>
           \/ Universal!Accept(resolved) /\ resolved # NoAddress
    BY <1>10 DEF Universal!FoundSni, Universal!Found
  <2>2. CASE Universal!Accept(resolved)
    BY <1>4, <2>1, <2>2 DEF Universal!Accept, Universal!Reject, Universal!Decided, Universal!Ends
  <2>3. CASE Universal!Reject("internal-address") /\ UNCHANGED <<decision, peer>>
    BY <1>6, <2>1, <2>3, UniversalRejects DEF Universal!Reject, Universal!Decided, Universal!Ends
  <2>4. CASE /\ resolved = NoAddress /\ Universal!Reject("dns-failed")
             /\ UNCHANGED <<decision, peer>>
    BY <1>6, <2>1, <2>4, UniversalRejects DEF Universal!Reject, Universal!Decided, Universal!Ends
  <2> QED
    BY <2>1, <2>2, <2>3, <2>4
<1>11. CASE Universal!ReadHead
  <2>1. pc = "head" /\ UNCHANGED <<decision, resolved, asked, answers, peer>>
    BY <1>11 DEF Universal!ReadHead
  <2>2. CASE Universal!Goto("host")
    BY <1>4, <2>1, <2>2
  <2>3. CASE \E how, cause :
               /\ Universal!NoRequest(how, cause)
               /\ \/ how = "denied" /\ cause = "P"
                  \/ how \in {"clientLeft", "machinery"} /\ cause \in {"C", "c", "R"}
    <3>1. Universal!RowTellsWhatHappened'
      BY <1>6, <2>1, <2>3, UniversalHeadRow
    <3> QED
      BY <2>1, <2>3, <3>1 DEF Universal!NoRequest, Universal!Ends
  <2> QED
    BY <1>11, <2>2, <2>3 DEF Universal!ReadHead
<1>12. CASE Universal!JudgeHost
  <2>1. CASE \E reason \in {"missing-host-header", "invalid-host", "not-allowed"} :
               Universal!Reject(reason)
    BY <1>6, <1>12, <2>1, UniversalRejects
    DEF Universal!JudgeHost, Universal!Reject, Universal!Decided, Universal!Ends
  <2>2. CASE Universal!Goto("resolve")
    BY <1>4, <1>12, <2>2 DEF Universal!JudgeHost
  <2> QED
    BY <1>12, <2>1, <2>2 DEF Universal!JudgeHost
<1>13. CASE Universal!Resolve
  BY <1>4, <1>13 DEF Universal!Resolve, Universal!Ask
<1>14. CASE Universal!ResolveAgain
  BY <1>4, <1>14 DEF Universal!ResolveAgain, Universal!Ask
<1>15. CASE Universal!Relayed
  <2>1. PICK how \in {"served", "unreachable", "clientLeft"} : Universal!Decided(how, "-")
    BY <1>15 DEF Universal!Relayed
  <2>2. PICK l : /\ pc' = "ended" /\ end' = how /\ lines' = Append(lines, l)
                 /\ l = [decision |-> decision, reason |-> "-", ts |-> <<"-", "-">>]
    BY <2>1 DEF Universal!Decided, Universal!Ends
  <2>3. pc = "relayed" /\ UNCHANGED <<decision, peer, resolved, answers>>
    BY <1>15 DEF Universal!Relayed
  <2>4. Universal!ActionOf(l)' \in {"allow", "audit"}
    BY <2>2, <2>3 DEF Universal!ActionOf, Universal!Passed
  <2>5. Universal!RowTellsWhatHappened'
    BY <2>1, <2>2, <2>3, <2>4, UniversalRowOf DEF UniversalSays
  <2> QED
    BY <2>2, <2>3, <2>5
<1> QED
  BY <1>7, <1>8, <1>9, <1>10, <1>11, <1>12, <1>13, <1>14, <1>15 DEF UniversalStep, Universal!Step

\* The report's row agrees with what happened to the connection, whichever
\* engine wrote the line (log/inspect.ts, log/haproxy.ts, log/termination.ts).
THEOREM TheRowTells == Spec => []RowTellsWhatHappened
<1>1. RowInv /\ [Next]_vars => RowInv'
  <2> SUFFICES ASSUME RowInv, [Next]_vars PROVE RowInv'
    OBVIOUS
  <2>1. CASE UNCHANGED vars
    <3>1. Inv'
      BY <2>1 DEF vars, RowInv, Inv, TypeOK, InspectInv, UniversalInv, Allowed, Universal!Passed,
                  Universal!Audit, Universal!Judged, Universal!Anything, Universal!DnsRouted,
                  Universal!HostAllowed
    <3>2. InspectRow'
      BY <2>1 DEF vars, RowInv, InspectRow, Inspect!RowTellsWhatHappened, Inspect!ActionOf,
                  Inspect!Audit
    <3>3. UniversalRow'
      BY <2>1 DEF vars, RowInv, UniversalRow, Universal!RowTellsWhatHappened,
                  Universal!ActionOf, Universal!Passed, Universal!Audit
    <3> QED
      BY <3>1, <3>2, <3>3 DEF RowInv
  <2> QED
    BY <2>1, InspectRowKept, UniversalRowKept DEF Next, Done
<1>2. RowInv => RowTellsWhatHappened
  BY DEF RowInv, Inv, InspectRow, UniversalRow, RowTellsWhatHappened
<1> QED
  BY <1>1, <1>2, RowBegins, PTL DEF Spec

-----------------------------------------------------------------------------
(* The resolver and the proxy. *)

\* The half of a "~" rule that the resolver is given covers every name its whole
\* accepts (haproxy-rules.ts:151-157).  RawHostRule tells which expressions this
\* is true of: those with a port and nothing else after the host.
HalvesAgree(rs) ==
  \A r \in rs.https \cup rs.http \cup rs.tls : \A x \in r.pairs : x[1] \in r.hosts

NameInv ==
  /\ RowInv /\ HalvesAgree(rules)
  /\ engine = "inspect" /\ peer # NoAddress =>
       /\ pass = "tls" => SniMatches(rules, conn)
       /\ pass = "no" => Allowed
  /\ engine = "universal" /\ peer # NoAddress /\ Universal!DnsRouted =>
       IF conn.hello THEN SniMatches(Universal!Judged, conn) ELSE Universal!HostAllowed

LEMMA HostOfMatch ==
  ASSUME NEW r, NEW h, NEW p, NEW d, HostMatches(r, h, p, d), \A x \in r.pairs : x[1] \in r.hosts
  PROVE  h \in r.hosts
<1>1. <<h, p>>[1] = h
  OBVIOUS
<1> QED
  BY <1>1 DEF HostMatches

\* A host's own query is judged by the resolver's allowlist alone.
LEMMA VerdictOfHost ==
  ASSUME NEW rs, NEW n, rs.mode = "audit" \/ n \in ResolverHosts(rs)
  PROVE  Verdict(rs, [form |-> "host", host |-> n, type |-> "A"]) = "allowed"
<1> DEFINE q == [form |-> "host", host |-> n, type |-> "A"]
           First(i) == Takes(rs, Blocks[i], q) /\ \A j \in 1 .. i - 1 : ~Takes(rs, Blocks[j], q)
<1>1. /\ Blocks[1] = "reverse" /\ Blocks[2] = "discovery" /\ Blocks[3] = "allowed"
      /\ Blocks[4] = "service-denied" /\ Blocks[5] = "denied"
  BY DEF Blocks
<1>2. q.form = "host" /\ q.host = n
  OBVIOUS
<1> HIDE DEF q
<1>3. Takes(rs, Blocks[3], q) /\ ~Takes(rs, Blocks[1], q) /\ ~Takes(rs, Blocks[2], q)
  BY <1>1, <1>2 DEF Takes
<1>4. First(3)
  BY <1>3
<1>5. \A i \in 1 .. 5 : First(i) => i = 3
  <2> SUFFICES ASSUME NEW i \in 1 .. 5, First(i) PROVE i = 3
    OBVIOUS
  <2>1. i > 3 => 3 \in 1 .. i - 1
    OBVIOUS
  <2>2. i # 1 /\ i # 2
    BY <1>3
  <2>3. ~(i > 3)
    BY <1>3, <2>1
  <2> QED
    BY <2>2, <2>3
<1> HIDE DEF First
<1>6. (CHOOSE i \in 1 .. 5 : First(i)) = 3
  BY <1>4, <1>5
<1> QED
  BY <1>1, <1>6 DEF Verdict, q, First

LEMMA SameVerdict ==
  ASSUME NEW rs, NEW q
  PROVE  Inspect!Verdict(rs, q) = Verdict(rs, q) /\ Universal!Verdict(rs, q) = Verdict(rs, q)
BY DEF Verdict, Takes, Blocks, ResolverHosts, DiscoveryType,
       Inspect!Verdict, Inspect!Takes, Inspect!Blocks, Inspect!ResolverHosts, Inspect!DiscoveryType,
       Universal!Verdict, Universal!Takes, Universal!Blocks, Universal!ResolverHosts,
       Universal!DiscoveryType

LEMMA NamesBegin ==
  ASSUME \A rs \in RuleSets : HalvesAgree(rs), Init
  PROVE  NameInv
<1>1. RowInv
  BY RowBegins
<1>2. ASSUME NEW rs \in RuleSets PROVE HalvesAgree(HostRulesOf(rs))
  <2>1. /\ HostRulesOf(rs).https \subseteq rs.https /\ HostRulesOf(rs).http \subseteq rs.http
        /\ HostRulesOf(rs).tls = {}
    BY InputAssumption DEF HostRulesOf, Rules
  <2> QED
    BY <1>2, <2>1 DEF HalvesAgree
<1>3. HalvesAgree(rules)
  BY <1>2 DEF Init
<1> QED
  BY <1>1, <1>3 DEF Init, NameInv, Inspect!Init, Universal!Init

\* A connection is dialled by a name only where a rule matched the name.
LEMMA NamesKept ==
  ASSUME NameInv, [Next]_vars
  PROVE  NameInv'
<1> USE DEF NameInv, RowInv, Inv
<1>1. CASE UNCHANGED vars
  <2>1. RowInv'
    BY <1>1 DEF vars, TypeOK, InspectInv, UniversalInv, Allowed, Universal!Passed,
                Universal!Audit, Universal!Judged, Universal!Anything, Universal!DnsRouted,
                Universal!HostAllowed, InspectRow, UniversalRow, Inspect!RowTellsWhatHappened,
                Universal!RowTellsWhatHappened, Inspect!ActionOf, Inspect!Audit,
                Universal!ActionOf
  <2>2. /\ Allowed' = Allowed /\ Universal!Judged' = Universal!Judged
        /\ Universal!DnsRouted' = Universal!DnsRouted
        /\ Universal!HostAllowed' = Universal!HostAllowed
    BY <1>1 DEF vars, Allowed, Universal!Judged, Universal!Anything, Universal!Audit,
                Universal!DnsRouted, Universal!HostAllowed
  <2> QED
    BY <1>1, <2>1, <2>2 DEF vars
<1>2. CASE InspectStep
  <2>1. RowInv'
    BY <1>2, InspectRowKept
  <2>2. engine = "inspect" /\ UNCHANGED <<engine, rules, conn>>
    BY <1>2 DEF InspectStep, Inspect!Step, Inspect!fixed, Inspect!JudgeAddress,
         Inspect!GuardAddress, Inspect!JudgeSni, Inspect!AskSni, Inspect!FoundSni,
         Inspect!GuardSni, Inspect!ReadHead, Inspect!JudgeHost, Inspect!JudgePath,
         Inspect!JudgeRequest, Inspect!Resolve, Inspect!ResolveAgain, Inspect!Found,
         Inspect!GuardInternal, Inspect!Origin
  <2>3. Allowed' = Allowed
    BY <2>2 DEF Allowed
  <2>4. CASE Inspect!GuardAddress \/ Inspect!GuardSni \/ Inspect!GuardInternal
    <3>1. /\ UNCHANGED pass
          /\ \/ pc = "guardAddress" /\ pass = "tcp"
             \/ pc = "guardSni" /\ pass = "tls" /\ SniMatches(rules, conn)
             \/ pc = "guard" /\ pass = "no" /\ Allowed
      BY <2>2, <2>4 DEF Inspect!GuardAddress, Inspect!GuardSni, Inspect!GuardInternal, InspectInv,
                        InspectRow, AtRules, PastRules
    <3> QED
      BY <2>1, <2>2, <2>3, <3>1
  <2>5. CASE Inspect!JudgeAddress \/ Inspect!JudgeSni
    <3>1. peer' = NoAddress
      BY <2>2, <2>5 DEF Inspect!JudgeAddress, Inspect!JudgeSni, InspectInv
    <3> QED
      BY <2>1, <2>2, <3>1
  <2>6. CASE ~(\/ Inspect!GuardAddress \/ Inspect!GuardSni \/ Inspect!GuardInternal
               \/ Inspect!JudgeAddress \/ Inspect!JudgeSni)
    <3>1. UNCHANGED <<pass, peer>>
      BY <1>2, <2>6 DEF InspectStep, Inspect!Step, Inspect!AskSni, Inspect!FoundSni,
           Inspect!ReadHead, Inspect!JudgeHost, Inspect!JudgePath, Inspect!JudgeRequest,
           Inspect!Resolve, Inspect!ResolveAgain, Inspect!Found, Inspect!Origin
    <3> QED
      BY <2>1, <2>2, <2>3, <3>1
  <2> QED
    BY <2>4, <2>5, <2>6
<1>3. CASE UniversalStep
  <2>1. RowInv'
    BY <1>3, UniversalRowKept
  <2>2. engine = "universal" /\ UNCHANGED <<engine, rules, conn>>
    BY <1>3 DEF UniversalStep, Universal!Step, Universal!fixed, Universal!JudgeAddress,
         Universal!JudgeSni, Universal!AskSni, Universal!FoundSni, Universal!ReadHead,
         Universal!JudgeHost, Universal!Resolve, Universal!ResolveAgain, Universal!Found,
         Universal!Relayed
  <2>3. /\ Universal!Judged' = Universal!Judged /\ Universal!DnsRouted' = Universal!DnsRouted
        /\ Universal!HostAllowed' = Universal!HostAllowed
    BY <2>2 DEF Universal!Judged, Universal!Anything, Universal!Audit, Universal!DnsRouted,
                Universal!HostAllowed
  <2>4. UNCHANGED peer \/ peer' = NoAddress \/ ~Universal!DnsRouted
        \/ (pc = "foundSni" /\ SniMatches(Universal!Judged, conn))
        \/ (pc = "found" /\ ~conn.hello /\ Universal!HostAllowed)
    BY <1>3, <2>2 DEF UniversalStep, Universal!Step, Universal!JudgeAddress,
         Universal!JudgeSni, Universal!AskSni, Universal!FoundSni, Universal!ReadHead,
         Universal!JudgeHost, Universal!Resolve, Universal!ResolveAgain, Universal!Found,
         Universal!Relayed, UniversalInv
  <2>5. SniMatches(Universal!Judged, conn) => conn.hello
    BY DEF SniMatches
  <2> QED
    BY <2>1, <2>2, <2>3, <2>4, <2>5
<1> QED
  BY <1>1, <1>2, <1>3 DEF Next, Done

\* A rule that matched the name has it among the names the resolver answers for.
LEMMA NamesAgree == NameInv => ResolverAgrees
<1> SUFFICES ASSUME NameInv PROVE ResolverAgrees
  OBVIOUS
<1> USE RuleSetAssumption DEF NameInv, RowInv, Inv, TypeOK
<1>1. ASSUME rules.mode # "audit", NEW r \in rules.https \cup rules.http \cup rules.tls,
             NEW h, NEW p, NEW d, HostMatches(r, h, p, d)
      PROVE  h \in ResolverHosts(rules)
  BY <1>1, HostOfMatch DEF HalvesAgree, ResolverHosts
<1>2. CASE engine = "inspect"
  <2> SUFFICES ASSUME NEW named, named = IF pass = "tls" THEN conn.sni ELSE conn.host,
                      peer # NoAddress, pass # "tcp", named \in Name
               PROVE  Verdict(rules, [form |-> "host", host |-> named, type |-> "A"]) = "allowed"
    BY <1>2, SameVerdict DEF ResolverAgrees, Inspect!ResolverAgrees
  <2>1. CASE rules.mode = "audit"
    BY <2>1, VerdictOfHost
  <2>2. CASE rules.mode # "audit" /\ pass = "tls"
    <3>1. SniMatches(rules, conn)
      BY <1>2, <2>2
    <3> QED
      BY <1>1, <2>2, <3>1, VerdictOfHost DEF SniMatches
  <2>3. CASE rules.mode # "audit" /\ pass = "no"
    <3>1. PICK r \in SchemeRules(rules, conn) : RequestMatches(r, conn, SchemeOf(conn))
      BY <1>2, <2>3 DEF Allowed
    <3> QED
      BY <1>1, <2>3, <3>1, VerdictOfHost DEF SchemeRules, RequestMatches
  <2> QED
    BY <2>1, <2>2, <2>3
<1>3. CASE engine = "universal"
  <2> SUFFICES ASSUME NEW named, named = IF conn.hello THEN conn.sni ELSE conn.host,
                      peer # NoAddress, Universal!DnsRouted, named \in Name
               PROVE  Verdict(rules, [form |-> "host", host |-> named, type |-> "A"]) = "allowed"
    BY <1>3, SameVerdict DEF ResolverAgrees, Universal!ResolverAgrees
  <2>1. CASE rules.mode = "audit"
    BY <2>1, VerdictOfHost
  <2>2. CASE rules.mode # "audit"
    <3>1. Universal!Judged.tls = rules.https /\ Universal!Judged.http = rules.http
      BY <2>2 DEF Universal!Judged, Universal!Audit, Rules
    <3>2. CASE conn.hello
      BY <1>1, <1>3, <2>2, <3>1, <3>2, VerdictOfHost DEF SniMatches
    <3>3. CASE ~conn.hello
      <4>1. PICK r \in rules.http : Universal!HostMatches(r, conn.host, conn.port, AnyPort)
        BY <1>3, <3>1, <3>3 DEF Universal!HostAllowed
      <4>2. HostMatches(r, conn.host, conn.port, AnyPort)
        BY <4>1 DEF Universal!HostMatches, HostMatches
      <4> QED
        BY <1>1, <2>2, <3>3, <4>2, VerdictOfHost
    <3> QED
      BY <3>2, <3>3
  <2> QED
    BY <2>1, <2>2
<1> QED
  BY <1>2, <1>3

\* The resolver and the proxy agree about a name, wherever the halves of the "~"
\* rules do: a connection relayed by its name was not logged as denied by the
\* resolver it was looked up with (coredns-config.ts:215-219,
\* haproxy-rules.ts:151-157).
THEOREM TheResolverAgrees ==
  ASSUME \A rs \in RuleSets : HalvesAgree(rs)
  PROVE  Spec => []ResolverAgrees
<1>1. Init => NameInv
  BY NamesBegin
<1> QED
  BY <1>1, NamesKept, NamesAgree, PTL DEF Spec
=============================================================================
