---------------------------- MODULE EgressPolicy ----------------------------
(***************************************************************************)
(* What the proxy promises about one connection, whatever its engine and  *)
(* however its config is laid out:                                         *)
(*   - a query leaves it only for a name the rules allow the connection;   *)
(*   - it connects only where the rules or its own resolver say, and to    *)
(*     nothing internal unless a rule names that address.                  *)
(***************************************************************************)
EXTENDS RuleSet

VARIABLES
  rules, conn,   \* the rules in force, the connection judged
  asked,         \* names asked of the real resolver
  answers,       \* addresses it gave
  peer,          \* where the connection was relayed, NoAddress until then
  open           \* is the connection still there?

policyVars == <<rules, conn, asked, answers, peer, open>>

RequestAllowed ==
  /\ conn.host \in Host /\ conn.path # Traversal
  /\ \/ rules.mode = "audit"
     \/ \E r \in SchemeRules(rules, conn) : RequestMatches(r, conn, SchemeOf(conn))

MayAsk(n) ==
  \/ n = conn.sni /\ SniMatches(rules, conn)
  \/ n = conn.host /\ RequestAllowed

\* An IP rule's address, the resolver's answer, or the address the request
\* itself names.
MayReach(a) ==
  \/ /\ a = conn.dst /\ a # ProxyAddress /\ AddressMatches(rules, conn)
     /\ ~(a \in Internal /\ conn.port = ListenPort)
  \/ a \in answers \ Internal
  \/ /\ a = conn.host /\ RequestAllowed
     /\ \/ a \notin Internal
        \/ NamesAddress(rules, conn) /\ a \notin ProxySubnet /\ conn.port # ListenPort

Init ==
  /\ rules \in Rules /\ conn \in Connection
  /\ asked = {} /\ answers = {} /\ peer = NoAddress /\ open = TRUE

Ask(n) ==
  /\ open /\ peer = NoAddress /\ MayAsk(n)
  /\ asked' = asked \cup {n}
  /\ \E S \in SUBSET Address : answers' = answers \cup S
  /\ UNCHANGED <<rules, conn, peer, open>>

Relay(a) ==
  /\ open /\ peer = NoAddress /\ a \in Address /\ MayReach(a)
  /\ peer' = a
  /\ UNCHANGED <<rules, conn, asked, answers, open>>

Close ==
  /\ open /\ open' = FALSE
  /\ UNCHANGED <<rules, conn, asked, answers, peer>>

Next == (\E n \in Host : Ask(n)) \/ (\E a \in Address : Relay(a)) \/ Close

Spec == Init /\ [][Next]_policyVars
=============================================================================
