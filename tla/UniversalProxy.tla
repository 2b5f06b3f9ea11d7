--------------------------- MODULE UniversalProxy ---------------------------
(***************************************************************************)
(* The `universal` engine: one connection through its haproxy.cfg, and the *)
(* row the report makes of its line.  Nothing is decrypted: a connection   *)
(* to an address no name led to is judged by the IP rules, a TLS one by    *)
(* its SNI, a plaintext one by its Host, each with the connection's port.  *)
(* A decision starts as BLOCKED and only a connection that passes every    *)
(* check overwrites it.  The resolver may answer any address, or none.     *)
(***************************************************************************)
EXTENDS RuleSet, Sequences

VARIABLES
  rules, conn,
  pc,        \* the rule HAProxy runs next
  decision,  \* txn.decision
  resolved,  \* txn.dst
  target,    \* dst, overwritten by set-dst
  asked, answers, peer, lines,
  end        \* history: how the connection really ended

fixed == <<rules, conn>>

Audit == rules.mode = "audit"
Passed == IF Audit THEN "AUDIT" ELSE "ALLOWED"
DnsRouted == conn.dst = ProxyAddress

\* What the policy is of: the lists in the place of the inspected ones.
\* Under audit the lists are not compiled, and each matches anything.
Anything ==
  [match |-> "wildcard", hosts |-> Host, port |-> AnyPort, pairs |-> {},
   paths |-> Path, methods |-> Method]
Judged ==
  IF Audit THEN [rules EXCEPT !.https = {}, !.http = {Anything}, !.ip = {Anything},
                              !.tls = {Anything}]
  ELSE [rules EXCEPT !.https = {}, !.tls = rules.https]
HostAllowed ==
  \E r \in Judged.http : HostMatches(r, conn.host, conn.port, AnyPort)

Ends(how, line) == pc' = "ended" /\ end' = how /\ lines' = Append(lines, line)

\* http_in alone logs how a connection ended, for the lines where no rule ran.
Decided(how, reason) == Ends(how, [decision |-> decision, reason |-> reason, ts |-> <<"-", "-">>])
Reject(reason) == Decided("denied", reason)
NoRequest(how, cause) == Ends(how, [decision |-> "-", reason |-> "-", ts |-> <<cause, "R">>])
Goto(label) == pc' = label /\ UNCHANGED <<lines, end>>

Accept(a) ==
  pc' = "relayed" /\ peer' = a /\ decision' = Passed /\ UNCHANGED <<lines, end>>

Ask(n) ==
  \E a \in Address \cup {NoAddress} :
    /\ resolved' = a
    /\ asked' = asked \cup {n}
    /\ answers' = answers \cup ({a} \ {NoAddress})

Init ==
  /\ pc = "address" /\ decision = "BLOCKED" /\ resolved = NoAddress /\ target = conn.dst
  /\ asked = {} /\ answers = {} /\ peer = NoAddress /\ lines = <<>> /\ end = "open"

-----------------------------------------------------------------------------
\* 1. A connection no name led to.
JudgeAddress ==
  /\ pc = "address"
  /\ \/ DnsRouted /\ UNCHANGED <<decision, peer>>
        /\ IF conn.hello THEN Goto("sni") ELSE Goto("head")
     \/ /\ ~DnsRouted /\ ~AddressMatches(Judged, conn)
        /\ Reject("ip-not-allowed") /\ UNCHANGED <<decision, peer>>
     \/ /\ ~DnsRouted /\ AddressMatches(Judged, conn)
        /\ IF conn.dst \in Internal /\ conn.port = ListenPort
             THEN Reject("internal-address") /\ UNCHANGED <<decision, peer>>
             ELSE Accept(conn.dst)
  /\ UNCHANGED <<fixed, resolved, target, asked, answers>>

\* Mutation: the name is resolved ahead of the allowlist.
JudgeSniAfterResolving ==
  /\ pc = "sni"
  /\ \/ conn.sni = NoHost /\ Reject("missing-sni")
     \/ conn.sni = NotAName /\ Reject("invalid-sni")
     \/ conn.sni \in Name /\ Goto("askSni")
  /\ UNCHANGED <<fixed, decision, resolved, target, asked, answers, peer>>

\* 2, 3. TLS without a usable SNI, and the allowlist.
JudgeSni ==
  /\ pc = "sni"
  /\ \/ conn.sni = NoHost /\ Reject("missing-sni")
     \/ conn.sni = NotAName /\ Reject("invalid-sni")
     \/ conn.sni \in Name /\ ~SniMatches(Judged, conn) /\ Reject("not-allowed")
     \/ SniMatches(Judged, conn) /\ Goto("askSni")
  /\ UNCHANGED <<fixed, decision, resolved, target, asked, answers, peer>>

\* 4. One attempt: the inspect-delay has no room for a second.
AskSni ==
  /\ pc = "askSni" /\ Goto("foundSni") /\ Ask(conn.sni)
  /\ UNCHANGED <<fixed, decision, target, peer>>

FoundSni ==
  /\ pc = "foundSni"
  /\ IF resolved = NoAddress \/ resolved \in Internal
       THEN /\ Reject(IF resolved = NoAddress THEN "dns-failed" ELSE "internal-address")
            /\ UNCHANGED <<decision, peer, target>>
       ELSE target' = resolved /\ Accept(resolved)
  /\ UNCHANGED <<fixed, resolved, asked, answers>>

-----------------------------------------------------------------------------
(* 5. Plaintext, through the frontend http_in and its backend. *)

ReadHead ==
  /\ pc = "head"
  /\ \/ conn.sends = "request" /\ Goto("host")
     \/ conn.sends = "garbage" /\ NoRequest("denied", "P")
     \/ conn.sends = "nothing" /\ \E cause \in {"C", "c"} : NoRequest("clientLeft", cause)
     \/ conn.sends = "nothing" /\ NoRequest("machinery", "R")
  /\ UNCHANGED <<fixed, decision, resolved, target, asked, answers, peer>>

JudgeHost ==
  /\ pc = "host"
  /\ \/ conn.host = NoHost /\ Reject("missing-host-header")
     \/ conn.host = NotAName /\ Reject("invalid-host")
     \/ conn.host \in Host /\ ~HostAllowed /\ Reject("not-allowed")
     \/ conn.host \in Host /\ HostAllowed /\ Goto("resolve")
  /\ UNCHANGED <<fixed, decision, resolved, target, asked, answers, peer>>

\* An address is asked like any name: nothing here takes it as it is.
Resolve ==
  /\ pc = "resolve" /\ Goto("again") /\ Ask(conn.host)
  /\ UNCHANGED <<fixed, decision, target, peer>>

ResolveAgain ==
  /\ pc = "again" /\ Goto("found")
  /\ IF resolved # NoAddress THEN UNCHANGED <<resolved, asked, answers>> ELSE Ask(conn.host)
  /\ UNCHANGED <<fixed, decision, target, peer>>

Found ==
  /\ pc = "found"
  /\ IF resolved = NoAddress \/ resolved \in Internal
       THEN /\ Reject(IF resolved = NoAddress THEN "dns-failed" ELSE "internal-address")
            /\ UNCHANGED <<decision, peer, target>>
       ELSE target' = resolved /\ Accept(resolved)
  /\ UNCHANGED <<fixed, resolved, asked, answers>>

\* Whatever becomes of a relayed connection, its line carries the decision.
Relayed ==
  /\ pc = "relayed"
  /\ \E how \in {"served", "unreachable", "clientLeft"} : Decided(how, "-")
  /\ UNCHANGED <<fixed, decision, resolved, target, asked, answers, peer>>

Step ==
  \/ JudgeAddress \/ JudgeSni \/ AskSni \/ FoundSni \/ ReadHead \/ JudgeHost
  \/ Resolve \/ ResolveAgain \/ Found \/ Relayed

-----------------------------------------------------------------------------
\* What ended a connection before its request, "none" where the proxy did.
Incomplete(ts) ==
  CASE ts[1] = "P" -> "none" [] ts[1] = "C" -> "client-aborted"
    [] ts[1] = "c" -> "client-timeout" [] OTHER -> "no-request"

\* Mutation: a line without a request is a block whoever ended it.
ActionOfBlocksAll(l) ==
  IF l.decision = "-" THEN "block"
  ELSE IF l.decision = "BLOCKED" THEN IF l.reason = "dns-failed" THEN "failed" ELSE "block"
  ELSE IF l.decision # Passed THEN "dropped" ELSE IF Audit THEN "audit" ELSE "allow"

ActionOf(l) ==
  IF l.decision = "-" THEN IF Incomplete(l.ts) = "none" THEN "block" ELSE "incomplete"
  ELSE IF l.decision = "BLOCKED" THEN IF l.reason = "dns-failed" THEN "failed" ELSE "block"
  ELSE IF l.decision # Passed THEN "dropped" ELSE IF Audit THEN "audit" ELSE "allow"

-----------------------------------------------------------------------------
Labels == {"address", "sni", "askSni", "foundSni", "head", "host", "resolve",
           "again", "found", "relayed", "ended"}

\* A connection a name led here for goes where the proxy resolved the name
\* (haproxy-universal-config.ts:116-127, :183-192).
ClientChoosesNoTarget == peer # NoAddress /\ DnsRouted => peer \in answers

\* The row agrees with what happened: a refusal is a block, or a failure where
\* a name the rules allow did not resolve; what was relayed is on record as
\* passed; what is set aside as incomplete left no query behind; and no line
\* is dropped (log/haproxy.ts).
RowTellsWhatHappened ==
  \A i \in DOMAIN lines :
    LET act == ActionOf(lines[i]) IN
    /\ end = "denied" => act = "block" \/ (act = "failed" /\ asked # {} /\ answers = {})
    /\ act \in {"allow", "audit"} <=> peer # NoAddress
    /\ end \in {"clientLeft", "machinery"} /\ peer = NoAddress =>
         act = "incomplete" /\ asked = {}

\* The resolver agrees with the proxy about every name relayed
\* (coredns-config.ts:215-219).
ResolverAgrees ==
  LET named == IF conn.hello THEN conn.sni ELSE conn.host IN
  peer # NoAddress /\ DnsRouted /\ named \in Name =>
    Verdict(rules, [form |-> "host", host |-> named, type |-> "A"]) = "allowed"
=============================================================================
