------------------------------ MODULE RuleSet ------------------------------
(***************************************************************************)
(* The rules as the config generators see them: compiled into matchers.   *)
(* What a pattern's text accepts is the subject of RuleText; here a        *)
(* pattern is the set of what it accepts.                                  *)
(*                                                                         *)
(* A rule's `hosts` is its host half alone, which the resolver's allowlist *)
(* is built from.  `pairs` is what a "~" rule accepts as `host:port`.      *)
(***************************************************************************)
EXTENDS Naturals, FiniteSets

CONSTANTS
  Name, Address,         \* host names, IPv4 addresses
  ProxyAddress,          \* what the resolver answers every name with
  ProxySubnet,           \* the network of the proxy and the build's steps
  InternalRange,         \* never-public ranges and the runner's addresses
  Port, ListenPort,      \* ports; the one the proxy listens on
  HttpsPort, HttpPort,   \* the default port of each scheme
  Path, Method,          \* paths and methods a request may carry
  Traversal,             \* a path with a `..` segment left, or a backslash
  AnyPort, NoHost, NotAName, NoAddress,
  RuleSets, Connections  \* the rule sets and connections considered

ASSUME RuleSetAssumption ==
  /\ ProxyAddress \in ProxySubnet
  /\ ProxySubnet \subseteq Address /\ InternalRange \subseteq Address
  /\ Name \cap Address = {}
  /\ NoHost \notin Name \cup Address /\ NotAName \notin Name \cup Address
  /\ NoHost # NotAName
  /\ NoAddress \notin Address
  /\ {ListenPort, HttpsPort, HttpPort} \subseteq Port /\ AnyPort \notin Port
  /\ Path # {} /\ Traversal \notin Path

Host == Name \cup Address
Internal == InternalRange \cup ProxySubnet
DefaultPort == [https |-> HttpsPort, http |-> HttpPort]

Matcher ==
  [match : {"wildcard", "hostPort", "hostBareFull"}, hosts : SUBSET Host,
   port : Port \cup {AnyPort}, pairs : SUBSET (Host \X Port),
   paths : SUBSET Path, methods : SUBSET Method]

Rules ==
  [mode : {"restrict", "audit"}, https : SUBSET Matcher, http : SUBSET Matcher,
   ip : SUBSET Matcher, tls : SUBSET Matcher]

\* One connection, as a build may make it: where to, and what it then sends.
\* `sends` is a whole request, bytes that parse as none, or nothing.
Connection ==
  [dst : Address, port : Port, hello : BOOLEAN,
   sni : Name \cup {NoHost, NotAName}, sends : {"request", "garbage", "nothing"},
   host : Host \cup {NoHost, NotAName}, path : Path \cup {Traversal},
   method : Method]

ASSUME InputAssumption == RuleSets \subseteq Rules /\ Connections \subseteq Connection

-----------------------------------------------------------------------------
\* A URL rule's "~" host half is tried bare on the default port, and in full.
HostMatches(r, h, p, default) ==
  \/ r.match = "wildcard" /\ h \in r.hosts /\ r.port \in {AnyPort, p}
  \/ r.match = "hostPort" /\ <<h, p>> \in r.pairs
  \/ r.match = "hostBareFull" /\ ((p = default /\ h \in r.hosts) \/ <<h, p>> \in r.pairs)

AddressMatches(rs, c) == \E r \in rs.ip : HostMatches(r, c.dst, c.port, AnyPort)

SniMatches(rs, c) ==
  /\ c.hello /\ c.sni \in Name
  /\ \E r \in rs.tls : HostMatches(r, c.sni, c.port, AnyPort)

RequestMatches(r, c, scheme) ==
  /\ HostMatches(r, c.host, c.port, DefaultPort[scheme])
  /\ c.path \in r.paths /\ c.method \in r.methods

SchemeOf(c) == IF c.hello THEN "https" ELSE "http"
SchemeRules(rs, c) == IF c.hello THEN rs.https ELSE rs.http

\* A rule naming an address as its host, and matching the whole request.
NamesAddress(rs, c) ==
  \E r \in SchemeRules(rs, c) :
    /\ r.match = "wildcard" /\ r.hosts = {c.host} /\ c.host \in Address
    /\ RequestMatches(r, c, SchemeOf(c))

-----------------------------------------------------------------------------
(* The resolver.  It answers every query with the proxy's address and logs  *)
(* it under the verb of the first block that takes it.                      *)

DiscoveryType == {"SRV", "TXT", "TLSA", "URI"}

\* `form` is how the name reads: a host's, a reversed address, or a service
\* name `_service._proto.<host>`.
Query ==
  [form : {"host", "reverse", "service"}, host : Name,
   type : {"A"} \cup DiscoveryType]

\* Mutation: the names of the https rules alone.
ResolverHostsHttps(rs) == UNION {r.hosts : r \in rs.https}

ResolverHosts(rs) == UNION {r.hosts : r \in rs.https \cup rs.http \cup rs.tls}

Blocks == <<"reverse", "discovery", "allowed", "service-denied", "denied">>

Takes(rs, verb, q) ==
  \/ verb = "reverse" /\ q.form = "reverse"
  \/ /\ verb = "discovery" /\ q.form = "service" /\ q.type \in DiscoveryType
     /\ (rs.mode = "audit" \/ q.host \in ResolverHosts(rs))
  \/ /\ verb = "allowed"
     /\ \/ rs.mode = "audit"
        \/ q.form = "host" /\ q.host \in ResolverHosts(rs)
  \/ verb = "service-denied" /\ q.form = "service"
  \/ verb = "denied"

Verdict(rs, q) ==
  LET first == CHOOSE i \in 1 .. 5 : Takes(rs, Blocks[i], q)
                 /\ \A j \in 1 .. i - 1 : ~Takes(rs, Blocks[j], q)
  IN Blocks[first]
=============================================================================
