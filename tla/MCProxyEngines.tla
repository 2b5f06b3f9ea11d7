--------------------------- MODULE MCProxyEngines ---------------------------
(* Rule sets and connections for TLC: each shape of rule that decides        *)
(* differently, against every connection over the small sets below.          *)
EXTENDS ProxyEngines

CONSTANTS a, b, proxy, step, public, metadata, https, http, listen, ok, other, get, put

MCName == {a, b}
MCAddress == {proxy, step, public, metadata}
MCProxySubnet == {proxy, step}
MCInternalRange == {metadata}
MCPort == {https, http, listen}
MCPath == {ok, other}
MCMethod == {get, put}

\* A wildcard rule of its default port, any path and any method.
Rule(hosts, port) ==
  [match |-> "wildcard", hosts |-> hosts, port |-> port, pairs |-> {},
   paths |-> MCPath, methods |-> MCMethod]
Raw(match, hosts, pairs) ==
  [Rule(hosts, AnyPort) EXCEPT !.match = match, !.pairs = pairs]

None == [mode |-> "restrict", https |-> {}, http |-> {}, ip |-> {}, tls |-> {}]

MCRuleSets ==
  {None,
   [None EXCEPT !.mode = "audit"],
   [None EXCEPT !.https = {[Rule({a}, https) EXCEPT !.paths = {ok}, !.methods = {get}]}],
   [None EXCEPT !.http = {Rule(MCName, http)}, !.https = {Rule({a}, AnyPort)}],
   [None EXCEPT !.https = {Raw("hostBareFull", {a}, {<<a, listen>>})}],
   [None EXCEPT !.ip = {Rule({public, metadata, proxy}, AnyPort)},
                !.tls = {Rule({b}, https)}],
   [None EXCEPT !.ip = {Raw("hostPort", {public}, {<<public, http>>, <<step, listen>>})},
                !.tls = {Raw("hostPort", {a}, {<<a, https>>, <<a, listen>>})}],
   \* Rules naming an internal address, and the proxy's own.
   [None EXCEPT !.http = {Rule({metadata}, http), Rule({proxy}, listen), Rule({step}, http)}],
   \* Rules of host and port alone, which both engines take.
   [None EXCEPT !.https = {Rule({a}, https)}, !.http = {Rule(MCName, AnyPort)}],
   [None EXCEPT !.https = {Raw("hostPort", {b}, {<<b, https>>, <<b, listen>>})},
                !.http = {Raw("hostPort", {a}, {<<a, http>>})}],
   [None EXCEPT !.ip = {Raw("hostPort", {public, step}, {<<public, http>>, <<step, listen>>})},
                !.http = {Rule({metadata, proxy}, AnyPort)}],
   [None EXCEPT !.https = {Rule({metadata}, AnyPort)}, !.tls = {Rule({a}, AnyPort)},
                !.mode = "audit"]}

MCConnections ==
  {c \in Connection :
     /\ ~c.hello => c.sni = NoHost
     /\ c.sends # "request" =>
          c.host = NoHost /\ c.path = ok /\ c.method = get
     /\ c.dst = step => c.port = listen}
=============================================================================
