--------------------------- MODULE MCTrafficReport ---------------------------
(***************************************************************************)
(* A small build for TrafficReport: a few connections and lookups.         *)
(***************************************************************************)
EXTENDS TrafficReport

CONSTANTS
  good,    \* a host the rules allow
  bad,     \* one they do not
  addr,    \* an address no ip rule covers
  self,    \* the proxy's own address
  unknown, \* (unknown)
  none

Connection(act, proto, host, dest, byClient, known) ==
  [log |-> "proxy", act |-> act, proto |-> proto, host |-> host, dest |-> dest,
   byClient |-> byClient, known |-> known]
Lookup(act, host, known) ==
  [log |-> "resolver", act |-> act, proto |-> "dns", host |-> host, dest |-> self,
   byClient |-> FALSE, known |-> known]

\* A blocked request to an address with a foreign Host, expected and not; an
\* allowed one; a client's close on the same address; the lookup of the host.
RequestKnown == Connection("block", "https", bad, addr, FALSE, TRUE)
RequestBlocked == Connection("block", "https", bad, addr, FALSE, FALSE)
RequestAllowed == Connection("pass", "https", good, addr, FALSE, FALSE)
ClosedEarly == Connection("incomplete", "tcp", addr, addr, TRUE, FALSE)
LookedUp == Lookup("block", bad, FALSE)

WholeBuild == {RequestKnown, ClosedEarly, LookedUp}
TwoRequests == {RequestBlocked, RequestAllowed}
=============================================================================
