------------------------------ MODULE UrlRule ------------------------------
(***************************************************************************)
(* The URL of a URL rule: wildcards, or after `~` an expression.  Neither  *)
(* is matched as one: setup cuts it into a scheme, a host and a path, the  *)
(* proxy matches the host against the connection's and the path against    *)
(* the request's, and the resolver matches the name alone.                 *)
(***************************************************************************)
EXTENDS RuleText

-----------------------------------------------------------------------------
First(S) == IF S = {} THEN 0 ELSE CHOOSE i \in S : \A j \in S : i <= j
Slash == {"/", "\\/"}
DefaultPort(scheme) == IF scheme = "https" THEN <<"4">> ELSE <<"8">>
SchemeText(scheme) == IF scheme = "https" THEN <<"http", "s">> ELSE <<"http">>

(* splitRawRegexUrl: `~`. *)

\* The text as it stands is searched, whatever the expression makes of it.
SchemeSep(r) ==
  First({i \in 1 .. Len(r) - 2 : r[i] = ":" /\ r[i + 1] \in Slash /\ r[i + 2] \in Slash})
PathSep(r) ==
  IF SchemeSep(r) = 0 THEN 0 ELSE First({i \in SchemeSep(r) + 3 .. Len(r) : r[i] \in Slash})

rawRegexSchemes(r) ==
  LET prefix == WithoutCaret(Upto(r, SchemeSep(r))) IN
  CASE prefix = <<"http", "s">> -> {"https"}
    [] prefix = <<"http">> -> {"http"}
    [] prefix = <<"http", "s", "?">> -> {"https", "http"}
    [] OTHER -> {}

HostPart(r) == SubSeq(r, SchemeSep(r) + 3, PathSep(r) - 1)
PathPart(r) == From(r, PathSep(r))
HostOnly(r) == splitDomainFromPortPattern(HostPart(r)).domain

RawAccepted(r) ==
  /\ Compiles(r, "JavaScript") /\ checkRawRegexHalf(r, FALSE)
  /\ PathSep(r) # 0 /\ rawRegexSchemes(r) # {}
  /\ checkRawRegexHalf(HostPart(r), FALSE) /\ checkRawRegexHalf(PathPart(r), FALSE)
  /\ \A i \in 1 .. Len(HostPart(r)) : HostPart(r)[i] # "@"
  /\ checkRawRegexHalf(HostOnly(r), TRUE)
  /\ Compiles(anchorRawRegex(HostPart(r)), "JavaScript")
  /\ Compiles(anchorRawRegex(HostOnly(r)), "JavaScript")
  /\ Compiles(<<"^">> \o PathPart(r), "JavaScript")

UrlRuns ==
  /\ field = "rawUrl" /\ RawAccepted(rule)
  /\ Compiles(HostPart(rule), "PCRE2") /\ Compiles(PathPart(rule), "PCRE2") /\ Compiles(HostOnly(rule), "PCRE2")

\* Mutation: the bare name is tried on whatever port the connection has.
RawHostTakesAnyPort(r, scheme, name, port) ==
  LET host == Lowered(anchorRawRegex(HostPart(r))) IN
  Finds(host, name) \/ Finds(host, name \o <<":">> \o port)

\* The host with the connection's port, and bare where that is the scheme's own.
RawHostTakes(r, scheme, name, port) ==
  LET host == Lowered(anchorRawRegex(HostPart(r))) IN
  \/ port = DefaultPort(scheme) /\ Finds(host, name)
  \/ Finds(host, name \o <<":">> \o port)

RawTakes(r, scheme, name, port, path) ==
  /\ scheme \in rawRegexSchemes(r)
  /\ RawHostTakes(r, scheme, name, port)
  /\ Matches(pathMatcher(<<"^">> \o PathPart(r)), path, FALSE)

-----------------------------------------------------------------------------
(* compileUrl: wildcards. *)

SplitUrl(u) ==
  LET sep == First({i \in 1 .. Len(u) - 2 : SubSeq(u, i, i + 2) = <<":", "/", "/">>})
      slash == First({i \in sep + 3 .. Len(u) : u[i] = "/"})
  IN [scheme |-> Upto(u, sep),
      authority |-> SubSeq(u, sep + 3, IF slash = 0 THEN Len(u) ELSE slash - 1),
      path |-> IF slash = 0 THEN <<>> ELSE From(u, slash),
      found |-> sep # 0]

\* A `?` with an `=` after it is a query string copied in.
rejectsQuery(path) ==
  \E i \in 1 .. Len(path) : path[i] = "?" /\ \E j \in i .. Len(path) : path[j] = "="

LastColon(a) ==
  LET colons == {i \in 1 .. Len(a) : a[i] = ":"}
  IN IF colons = {} THEN 0 ELSE CHOOSE i \in colons : \A j \in colons : i >= j
HostText(a) == IF LastColon(a) = 0 THEN a ELSE Upto(a, LastColon(a))
PortText(a) == IF LastColon(a) = 0 THEN <<>> ELSE From(a, LastColon(a) + 1)

LiteralAccepted(u) ==
  LET parts == SplitUrl(u) IN
  /\ parts.found /\ parts.scheme \in {<<"http">>, <<"http", "s">>}
  /\ PartialAccepts(HostText(parts.authority))
  /\ PortText(parts.authority) = <<>> \/ checkPort(PortText(parts.authority))
  /\ ~rejectsQuery(parts.path)

\* A pattern with no path permits any.
LiteralPath(u) ==
  LET path == SplitUrl(u).path IN
  IF path = <<>> THEN <<"^", "/">> ELSE <<"^">> \o atomToRegex(path, PATH_WORDS) \o <<"$">>

\* Mutation: a rule without a port is good for every port.
LiteralPortAny(u) ==
  LET port == PortText(SplitUrl(u).authority) IN IF port = <<>> THEN <<"*">> ELSE port

\* The scheme's own port where the rule names none.
LiteralPort(u) ==
  LET port == PortText(SplitUrl(u).authority)
  IN IF port # <<>> THEN port
     ELSE IF SplitUrl(u).scheme = <<"http">> THEN DefaultPort("http") ELSE DefaultPort("https")

LiteralTakes(u, scheme, name, port, path) ==
  LET host == <<"^">> \o domainToRegexPartial(HostText(SplitUrl(u).authority)) \o <<"$">> IN
  /\ SplitUrl(u).scheme = SchemeText(scheme)
  /\ Matches(hostMatcher(host), name, TRUE)
  /\ LiteralPort(u) \in {<<"*">>, port}
  /\ Matches(pathMatcher(LiteralPath(u)), path, FALSE)

-----------------------------------------------------------------------------
(* The URL of a request, as a client writes it: the default port left out. *)
Url(scheme, name, port, path) ==
  SchemeText(scheme) \o <<":", "/", "/">> \o name
  \o (IF port = DefaultPort(scheme) THEN <<>> ELSE <<":">> \o port) \o path
FullUrl(scheme, name, port, path) ==
  SchemeText(scheme) \o <<":", "/", "/">> \o name \o <<":">> \o port \o path

Requests == {"https", "http"} \X Names[field] \X Ports[field] \X Paths[field]

\* A request two separate matches admit is one the whole expression finds in
\* its URL, read in the case each part is matched in: cutting it never widens
\* it.  A `^` after something, or a `$` before something, matches nothing as a
\* whole (url-rules.ts:174-196).
AnchorsOutside(r) == (\A i \in 2 .. Len(r) : r[i] # "^") /\ (\A i \in 1 .. Len(r) - 1 : r[i] # "$")
WholeUrl(r) == Lowered(Upto(r, PathSep(r))) \o PathPart(r)
CutNeverWidens ==
  UrlRuns /\ AnchorsOutside(rule) =>
    \A q \in Requests :
      RawTakes(rule, q[1], q[2], q[3], q[4]) =>
        \/ Finds(WholeUrl(rule), Url(q[1], q[2], q[3], q[4]))
        \/ Finds(WholeUrl(rule), FullUrl(q[1], q[2], q[3], q[4]))

\* A URL rule takes the requests its URL names and no other: the scheme, the
\* name, the port or the scheme's own, and the path or any (url-rules.ts:1-30).
UrlMeansItself ==
  field = "url" /\ LiteralAccepted(rule) =>
    \A q \in Requests :
      LET parts == SplitUrl(rule)
          port == PortText(parts.authority)
      IN LiteralTakes(rule, q[1], q[2], q[3], q[4]) =
           /\ parts.scheme = SchemeText(q[1])
           /\ Means(Lowered(HostText(parts.authority)), q[2], ".")
           /\ port = <<"*">> \/ q[3] = (IF port = <<>> THEN DefaultPort(q[1]) ELSE port)
           /\ parts.path = <<>> \/ Means(parts.path, q[4], "/")

\* "A pattern with no port at all matches only the scheme's default port"
\* (url-rules.ts:186).
NoPortIsTheDefault ==
  UrlRuns /\ portPatternStart(HostPart(rule)) = 0 =>
    \A q \in Requests : RawTakes(rule, q[1], q[2], q[3], q[4]) => q[3] = DefaultPort(q[1])
=============================================================================
