---------------------------- MODULE ProxyEngines ----------------------------
(***************************************************************************)
(* A builder's proxy, whichever engine setup chose: the rules it was given *)
(* become the config of that engine, and one connection goes through it.   *)
(* Both engines keep one policy, EgressPolicy.                             *)
(***************************************************************************)
EXTENDS RuleSet, Sequences

VARIABLES
  engine, rules, conn,
  pc, pass, decision, resolved, target, asked, answers, peer, lines, end

vars ==
  <<engine, rules, conn, pc, pass, decision, resolved, target, asked, answers, peer, lines, end>>

Inspect == INSTANCE InspectProxy
Universal == INSTANCE UniversalProxy

\* A host rule, as against a URL rule: the host and port alone.
IsHostRule(r) == r.match # "hostBareFull" /\ r.paths = Path /\ r.methods = Method
HostRulesOf(rs) ==
  [rs EXCEPT !.https = {r \in @ : IsHostRule(r)}, !.http = {r \in @ : IsHostRule(r)},
             !.tls = {}]

\* A rule that `universal` would ignore is refused where rules are enforced.
Supported(rs) == rs.mode = "audit" \/ HostRulesOf(rs) = rs

Init ==
  /\ conn \in Connections
  /\ \/ /\ engine = "inspect" /\ rules \in RuleSets
        /\ Inspect!Init /\ decision = "BLOCKED"
     \/ /\ engine = "universal"
        /\ rules \in {HostRulesOf(rs) : rs \in {x \in RuleSets : Supported(x)}}
        /\ Universal!Init /\ pass = "no"

InspectStep == engine = "inspect" /\ Inspect!Step /\ UNCHANGED <<engine, decision>>
UniversalStep == engine = "universal" /\ Universal!Step /\ UNCHANGED <<engine, pass>>
Done == pc = "ended" /\ UNCHANGED vars

Next == InspectStep \/ UniversalStep \/ Done
Spec == Init /\ [][Next]_vars

\* Every wait of the proxy has a timeout.
FairSpec == Spec /\ WF_vars(InspectStep \/ UniversalStep)

-----------------------------------------------------------------------------
\* The connection and whatever has become of it keep their type; of the log
\* lines each engine has its own.
TypeOK ==
  /\ rules \in Rules /\ conn \in Connection
  /\ pc \in IF engine = "inspect" THEN Inspect!Labels ELSE Universal!Labels
  /\ pass \in {"no", "tcp", "tls"} /\ decision \in {"BLOCKED", Universal!Passed}
  /\ resolved \in Address \cup {NoAddress} /\ target \in Address
  /\ asked \subseteq Host /\ answers \subseteq Address
  /\ peer \in Address \cup {NoAddress}

\* Both engines keep what the proxy promises, in whatever order their rules
\* run: no name is resolved ahead of a deny, no address is dialled that neither
\* a rule nor the resolver gave, nothing internal but what a rule names, and
\* never the proxy itself.  `universal` has its lists in the place of the
\* inspected ones, and no path to judge (haproxy-inspect-stage.ts:241-245,
\* haproxy-detect-frontend.ts:54-98, haproxy-universal-config.ts:1-8).
Policy == INSTANCE EgressPolicy WITH
  rules <- IF engine = "inspect" THEN rules ELSE Universal!Judged,
  conn <- IF engine = "inspect" THEN conn ELSE [conn EXCEPT !.path = CHOOSE p \in Path : TRUE],
  open <- pc # "ended"
KeepsPolicy == Policy!Spec

\* A connection that named its destination goes where the proxy resolved the
\* name, never where the client sent it (haproxy-inspect-stage.ts:258-260,
\* haproxy-detect-frontend.ts:132-138, haproxy-universal-config.ts:183-192).
ClientChoosesNoTarget ==
  IF engine = "inspect" THEN Inspect!ClientChoosesNoTarget ELSE Universal!ClientChoosesNoTarget

\* The report's row agrees with what happened, whichever engine wrote the line
\* (log/inspect.ts, log/haproxy.ts, log/termination.ts).
RowTellsWhatHappened ==
  IF engine = "inspect" THEN Inspect!RowTellsWhatHappened ELSE Universal!RowTellsWhatHappened

\* The resolver and the proxy agree about a name: a connection relayed by its
\* name was not logged as denied by the resolver it was looked up with
\* (coredns-config.ts:215-219, inspect-configs.qjs.ts:2-7).
ResolverAgrees ==
  IF engine = "inspect" THEN Inspect!ResolverAgrees ELSE Universal!ResolverAgrees

\* Every connection is decided, and on record exactly once, by the frontend
\* that decided it: the steps have no loop and each wait has a timeout
\* (haproxy-detect-frontend.ts:149-153).
EveryConnectionEnds == <>[](pc = "ended" /\ Len(lines) = 1)
=============================================================================
