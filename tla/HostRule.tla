----------------------------- MODULE HostRule ------------------------------
(***************************************************************************)
(* A host rule of wildcards, `<domain>:<port|*>`, which is compiled twice: *)
(* by the grammar setup and the `universal` engine read, and by the        *)
(* `inspect` engine's, which allows a wildcard inside a label.  A path of  *)
(* a URL rule has the same wildcards around another separator.             *)
(***************************************************************************)
EXTENDS RuleText

-----------------------------------------------------------------------------
(* wildcard-rules.ts *)

\* A label with a `*` in it is `*` or `**`.
LabelAccepts(label) ==
  /\ checkHostLabel(label)
  /\ label \in {<<"*">>, <<"*", "*">>} \/ \A i \in 1 .. Len(label) : label[i] # "*"

\* A `?` is one character of the label: its last n characters.
Singles(label) ==
  LET converted[n \in 0 .. Len(label)] ==
        LET c == label[Len(label) - n + 1] IN
        IF n = 0 THEN <<>>
        ELSE (IF c = "?" THEN <<"[^", ".", "]">> ELSE <<c>>) \o converted[n - 1]
  IN converted
WithSingles(label) == Singles(label)[Len(label)]

LabelToRegex(label) ==
  CASE label = <<"*", "*">> -> <<".", "+">>
    [] label = <<"*">> -> <<"[^", ".", "]", "+">>
    [] OTHER -> WithSingles(label)

\* Joined by dots: the last n labels.  A block's octets are compiled apart, by
\* AddressRule's cidrToRegex.
Joined(labels) ==
  LET joined[n \in 0 .. Len(labels)] ==
        LET label == LabelToRegex(labels[Len(labels) - n + 1]) IN
        IF n = 0 THEN <<>> ELSE IF n = 1 THEN label ELSE label \o (<<"\\.">> \o joined[n - 1])
  IN joined
domainToRegex(labels) == Joined(labels)[Len(labels)]

Colons(r) == {i \in 1 .. Len(r) : r[i] = ":"}
Colon(r) == CHOOSE i \in Colons(r) : TRUE
HostOf(r) == Upto(r, Colon(r))
PortOf(r) == From(r, Colon(r) + 1)

\* What is read as a CIDR block, before any label is looked at: digits and dots,
\* a slash, digits.
LooksLikeBlock(d) ==
  \E i \in 2 .. Len(d) - 1 :
    /\ d[i] = "/"
    /\ \A j \in 1 .. i - 1 : d[j] \in Digits \cup {"."}
    /\ \A j \in i + 1 .. Len(d) : d[j] \in Digits

\* A decimal without a leading zero.  One of the digits modelled is at most 255
\* if it has two of them, and at most 32 if it has one.
Decimal(t, digits) ==
  /\ Len(t) \in 1 .. digits /\ \A i \in 1 .. Len(t) : t[i] \in Digits
  /\ Len(t) > 1 => t[1] # "0"
IPV4_CIDR(d) ==
  \E i \in 1 .. Len(d) :
    LET octets == Labels(Upto(d, i)) IN
    /\ d[i] = "/" /\ Decimal(From(d, i + 1), 1)
    /\ Len(octets) = 4 /\ \A k \in 1 .. 4 : Decimal(octets[k], 2)

\* convertRule takes the rule: one colon, a port, and a block or labels of this
\* grammar.
SetupAccepts(r) ==
  /\ Cardinality(Colons(r)) = 1 /\ Colon(r) > 1
  /\ checkPort(PortOf(r))
  /\ IF LooksLikeBlock(HostOf(r)) THEN IPV4_CIDR(HostOf(r))
     ELSE \A i \in 1 .. Len(Labels(HostOf(r))) : LabelAccepts(Labels(HostOf(r))[i])

PortRegex(p) == IF p = <<"*">> THEN <<"\\d", "+">> ELSE p

\* What setup and the report match: `name:port` as one text.
convertRule(r) ==
  <<"^">> \o domainToRegex(Labels(HostOf(r))) \o <<":">> \o PortRegex(PortOf(r)) \o <<"$">>

-----------------------------------------------------------------------------
(* haproxy-rules.ts: the name and the port apart. *)

\* splitHostRule and domainToRegexPartial take it.
InspectAccepts(r) ==
  /\ Cardinality(Colons(r)) = 1
  /\ checkPort(PortOf(r)) /\ PartialAccepts(HostOf(r))
hostRuleToMatcher(r) == <<"^">> \o domainToRegexPartial(HostOf(r)) \o <<"$">>

\* The number a text of one or two digits is.
DigitOf(c) == CASE c = "4" -> 4 [] c = "8" -> 8 [] OTHER -> 0
PortNumber(p) ==
  IF Len(p) = 1 THEN DigitOf(p[1]) ELSE 10 * DigitOf(p[1]) + DigitOf(p[2])
\* How HAProxy writes the port of a connection.
Written(n) ==
  LET char(d) == CASE d = 4 -> "4" [] d = 8 -> "8" [] OTHER -> "0"
  IN IF n < 10 THEN <<char(n)>> ELSE <<char(n \div 10), char(n % 10)>>

\* A connection's port is one of the digits modelled.
ASSUME PortAssumption ==
  "host" \in Fields => \A n \in Ports["host"] : n \in Nat /\ PortNumber(Written(n)) = n

\* `dst_port` reads a number; the two others read text.
InspectTakes(r, name, port) ==
  /\ Matches(hostMatcher(hostRuleToMatcher(r)), name, TRUE)
  /\ PortOf(r) = <<"*">> \/ PortNumber(PortOf(r)) = port

hostPortRegex(r) ==
  LET m == hostRuleToMatcher(r) IN Upto(m, Len(m)) \o <<":">> \o PortRegex(PortOf(r)) \o <<"$">>

-----------------------------------------------------------------------------
\* A rule setup's parser takes is one the proxy takes too, unless it is a CIDR
\* block, which only the proxy's own compiler refuses in a host's field
\* (rules.test.ts:221-229); and a rule both take means the same to both engines
\* and to the report, on every name and port, though none of the three reads it
\* alike (partial-wildcard.ts:111-116, haproxy-universal-config.ts:73-80).
EnginesAgree ==
  field = "host" /\ SetupAccepts(rule) =>
    /\ InspectAccepts(rule) = ~LooksLikeBlock(HostOf(rule))
    /\ InspectAccepts(rule) =>
         \A n \in Names[field], p \in Ports[field] :
           LET takes == InspectTakes(rule, n, p) IN
           /\ takes = Finds(Lowered(hostPortRegex(rule)), Authority(n, Written(p)))
           /\ takes = Finds(Lowered(convertRule(rule)), Authority(n, Written(p)))

\* A match narrowed to a string or a prefix accepts what the expression does,
\* whatever case the author wrote (haproxy-matchers.ts:71-106).
NarrowingIsExact ==
  /\ field = "host" /\ Cardinality(Colons(rule)) = 1 /\ InspectAccepts(rule) =>
       \A n \in Names[field] :
         Matches(hostMatcher(hostRuleToMatcher(rule)), n, TRUE)
         = Finds(Lowered(hostRuleToMatcher(rule)), n)
  /\ field = "host" /\ Colons(rule) = {} =>
       LET path == <<"^">> \o atomToRegex(<<"/">> \o rule, PATH_WORDS) \o <<"$">> IN
       \A s \in Paths[field] : Matches(pathMatcher(path), s, FALSE) = Finds(path, s)

\* The compiled wildcards match what they are said to (partial-wildcard.ts:13-17,
\* :30).
WildcardsMean ==
  /\ field = "host" /\ Colons(rule) # {} /\ InspectAccepts(rule) =>
       \A n \in Names[field] : Spans(Lowered(domainToRegexPartial(HostOf(rule))), n)
                         = Means(Lowered(HostOf(rule)), n, ".")
  /\ field = "host" /\ Colons(rule) = {} =>
       \A s \in Paths[field] : Spans(atomToRegex(<<"/">> \o rule, PATH_WORDS), s)
                         = Means(<<"/">> \o rule, s, "/")
=============================================================================
