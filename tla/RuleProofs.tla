----------------------------- MODULE RuleProofs -----------------------------
(***************************************************************************)
(* Theorems about the rules: those of wildcards, in a host or a URL, for   *)
(* rules, names and paths of any length over any characters; and those of  *)
(* addresses, for octets of any width and any number of them, the eight    *)
(* bits and four octets of an IPv4 address among these.                    *)
(***************************************************************************)
EXTENDS HostRule, UrlRule, AddressRule, RuleRegexProofs

-----------------------------------------------------------------------------
(* The rules, and the theorems about them *)

\* A rule of wildcards is written in characters.
InCharacters == field \in Fields /\ (field \in {"host", "url"} => rule \in Seq(Character))

LEMMA RuleIsText == Spec => []InCharacters
<1> USE DEF InCharacters
<1> DEFINE Inv == InCharacters
<1>1. Init => Inv
  <2> SUFFICES ASSUME Init, field \in {"host", "url"}
               PROVE  rule \in Seq(Character)
    BY DEF Init
  <2> QED
    BY TextAssumption DEF Init
<1>2. Inv /\ [Next]_vars => Inv'
  <2> SUFFICES ASSUME Inv, [Next]_vars
               PROVE  Inv'
    OBVIOUS
  <2>1. CASE Write
    <3>1. field' = field
      BY <2>1 DEF Write
    <3>2. PICK f \in Fragments[field] : rule' = rule \o f
      BY <2>1 DEF Write
    <3>3. ASSUME field \in {"host", "url"}
          PROVE  rule' \in Seq(Character)
      <4>1. f \in Seq(Character)
        BY <3>2, <3>3, TextAssumption
      <4> QED
        BY <3>2, <3>3, <4>1, ConcatProperties
    <3> QED
      BY <3>1, <3>3
  <2>2. CASE UNCHANGED vars
    BY <2>2 DEF vars
  <2> QED
    BY <2>1, <2>2 DEF Next, WriteText
<1> QED
  BY <1>1, <1>2, PTL DEF Spec

\* A rule with one colon is a host and a port.
LEMMA HostAndPort ==
  ASSUME NEW r \in Seq(Character), Cardinality(Colons(r)) = 1
  PROVE  /\ Colon(r) \in 1 .. Len(r) /\ Colons(r) = {Colon(r)}
         /\ HostOf(r) \in Seq(Character) /\ PortOf(r) \in Seq(Character)
<1>1. IsFiniteSet(Colons(r))
  <2>1. IsFiniteSet(1 .. Len(r))
    BY FS_Interval
  <2> QED
    BY <2>1, FS_Subset DEF Colons
<1>2. \E i : Colons(r) = {i}
  BY <1>1, FS_Singleton
<1>3. Colons(r) = {Colon(r)} /\ Colon(r) \in 1 .. Len(r)
  BY <1>2 DEF Colons, Colon
<1> DEFINE c == Colon(r)
<1> HIDE DEF c
<1>4. c \in 1 .. Len(r)
  BY <1>3 DEF c
<1>5. SubSeq(r, 1, c - 1) \in Seq(Character) /\ SubSeq(r, c + 1, Len(r)) \in Seq(Character)
  <2>1. c - 1 \in Int /\ c + 1 \in Int /\ Len(r) \in Int
    BY <1>4
  <2>2. (\A i \in 1 .. c - 1 : r[i] \in Character) /\ \A i \in c + 1 .. Len(r) : r[i] \in Character
    BY <1>4
  <2> QED
    BY <2>1, <2>2, SubSeqProperties
<1> QED
  BY <1>3, <1>5 DEF HostOf, PortOf, Upto, From, c

\* The wildcards a host's or a path's expression is compiled from match the text
\* they are said to mean, however long the rule and the text
\* (partial-wildcard.ts:13-17, :30).
THEOREM WildcardsMeanWhatTheySay == Spec => []WildcardsMean
<1>1. InCharacters => WildcardsMean
  <2> SUFFICES ASSUME field = "host", field \in Fields, rule \in Seq(Character)
               PROVE  WildcardsMean
    BY DEF WildcardsMean, InCharacters
  <2>1. ASSUME Colons(rule) # {}, InspectAccepts(rule), NEW n \in Names[field]
        PROVE  Spans(Lowered(domainToRegexPartial(HostOf(rule))), n)
                 = Means(Lowered(HostOf(rule)), n, ".")
    <3>1. HostOf(rule) \in Seq(Character)
      BY <2>1, HostAndPort DEF InspectAccepts
    <3>2. n \in Seq(Character)
      BY TextAssumption
    <3> QED
      BY <3>1, <3>2, DomainSpans DEF domainToRegexPartial
  <2>2. ASSUME NEW s \in Paths[field]
        PROVE  Spans(atomToRegex(<<"/">> \o rule, PATH_WORDS), s) = Means(<<"/">> \o rule, s, "/")
    <3> DEFINE p == <<"/">> \o rule
    <3>1. s \in Seq(Character)
      BY TextAssumption
    <3>2. p \in Seq(Character)
      BY UnderRoot
    <3>3. Worded(PATH_WORDS, "/")
      BY DEF Worded
    <3> HIDE DEF p
    <3>4. Spans(atomToRegex(p, PATH_WORDS), s) = Means(p, s, "/")
      BY <3>1, <3>2, <3>3, WildcardsSpan
    <3> QED
      BY <3>4 DEF p
  <2> QED
    BY <2>1, <2>2 DEF WildcardsMean
<1> QED
  BY <1>1, RuleIsText, PTL

\* A host's or a path's expression matched as a string or a prefix accepts the
\* names and the paths it would find, however long and in whatever case the rule
\* is written (haproxy-matchers.ts:71-106).
THEOREM NarrowedMatchesAreExact == Spec => []NarrowingIsExact
<1>1. InCharacters => NarrowingIsExact
  <2> SUFFICES ASSUME field = "host", field \in Fields, rule \in Seq(Character)
               PROVE  NarrowingIsExact
    BY DEF NarrowingIsExact, InCharacters
  <2>1. ASSUME Cardinality(Colons(rule)) = 1, NEW n \in Names[field]
        PROVE  Matches(hostMatcher(hostRuleToMatcher(rule)), n, TRUE)
                 = Finds(Lowered(hostRuleToMatcher(rule)), n)
    <3> DEFINE d == HostOf(rule)
    <3>1. d \in Seq(Character)
      BY <2>1, HostAndPort
    <3>2. n \in Seq(Character)
      BY TextAssumption
    <3>3. hostRuleToMatcher(rule) = <<"^">> \o atomToRegex(d, DOMAIN_WORDS) \o <<"$">>
      BY DEF hostRuleToMatcher, domainToRegexPartial
    <3> HIDE DEF d
    <3> QED
      BY <3>1, <3>2, <3>3, HostMatched
  <2>2. ASSUME NEW s \in Paths[field]
        PROVE  LET path == <<"^">> \o atomToRegex(<<"/">> \o rule, PATH_WORDS) \o <<"$">> IN
               Matches(pathMatcher(path), s, FALSE) = Finds(path, s)
    <3> DEFINE p == <<"/">> \o rule
    <3>1. p \in Seq(Character)
      BY UnderRoot
    <3>2. s \in Seq(Character)
      BY TextAssumption
    <3> HIDE DEF p
    <3>3. LET path == <<"^">> \o atomToRegex(p, PATH_WORDS) \o <<"$">> IN
          Matches(pathMatcher(path), s, FALSE) = Finds(path, s)
      BY <3>1, <3>2, PathMatched
    <3> QED
      BY <3>3 DEF p
  <2> QED
    BY <2>1, <2>2 DEF NarrowingIsExact
<1> QED
  BY <1>1, RuleIsText, PTL

\* The parts of a URL are pieces of its text, and its path begins with a slash.
LEMMA UrlParts ==
  ASSUME NEW u \in Seq(Character), SplitUrl(u).found
  PROVE  LET parts == SplitUrl(u) IN
         /\ HostText(parts.authority) \in Seq(Character)
         /\ parts.path \in Seq(Character)
<1> DEFINE seps == {i \in 1 .. Len(u) - 2 : SubSeq(u, i, i + 2) = <<":", "/", "/">>}
           sep == First(seps)
           slashes == {i \in sep + 3 .. Len(u) : u[i] = "/"}
           slash == First(slashes)
           end == IF slash = 0 THEN Len(u) ELSE slash - 1
           a == SubSeq(u, sep + 3, end)
           path == IF slash = 0 THEN <<>> ELSE From(u, slash)
           parts == SplitUrl(u)
<1>1. parts.authority = a /\ parts.path = path /\ parts.found = (sep # 0)
  BY DEF SplitUrl
<1>2. Len(u) \in Nat
  OBVIOUS
<1>3. ASSUME NEW S \in SUBSET Nat, First(S) # 0
      PROVE  First(S) \in S
  <2>1. S # {}
    BY <1>3 DEF First
  <2>2. PICK x \in S : \A y \in S : x <= y
    BY <2>1, LeastOne
  <2> QED
    BY <2>1, <2>2 DEF First
<1>4. sep \in 1 .. Len(u) - 2
  <2>1. seps \in SUBSET Nat
    <3>1. \A i \in 1 .. Len(u) - 2 : i \in Nat
      OBVIOUS
    <3> QED
      BY <3>1
  <2>3. sep # 0
    <3> HIDE DEF sep
    <3> QED
      BY <1>1
  <2> HIDE DEF seps
  <2>2. sep \in seps
    BY <1>3, <2>1, <2>3
  <2> QED
    BY <2>2 DEF seps
<1>5. slash = 0 \/ slash \in sep + 3 .. Len(u)
  <2>1. slashes \in SUBSET Nat
    <3> HIDE DEF sep
    <3>1. \A i \in sep + 3 .. Len(u) : i \in Nat
      BY <1>4
    <3> QED
      BY <3>1
  <2> HIDE DEF slashes
  <2>2. slash # 0 => slash \in slashes
    BY <1>3, <2>1
  <2> QED
    BY <2>2 DEF slashes
<1> HIDE DEF sep, slash
<1>6. end \in 0 .. Len(u)
  BY <1>2, <1>4, <1>5
<1> HIDE DEF end
<1>7. a \in Seq(Character)
  <2>1. \A i \in sep + 3 .. end : u[i] \in Character
    BY <1>2, <1>4, <1>6
  <2>2. sep + 3 \in Int /\ end \in Int
    BY <1>4, <1>6
  <2> QED
    BY <2>1, <2>2, SubSeqProperties
<1>8. path \in Seq(Character)
  <2>1. CASE slash = 0
    BY <2>1
  <2>2. CASE slash # 0
    <3>1. slash \in 1 .. Len(u)
      BY <1>4, <1>5, <2>2
    <3>2. SubSeq(u, slash, Len(u)) \in Seq(Character)
      BY <1>2, <3>1
    <3> QED
      BY <2>2, <3>2 DEF From
  <2> QED
    BY <2>1, <2>2
<1> HIDE DEF a
<1>9. HostText(a) \in Seq(Character)
  <2> DEFINE colons == {i \in 1 .. Len(a) : a[i] = ":"}
             c == LastColon(a)
  <2>1. Len(a) \in Nat
    BY <1>7
  <2>2. ASSUME colons # {}
        PROVE  c \in 1 .. Len(a)
    <3>1. PICK x \in colons : \A y \in colons : x >= y
      BY <2>1, <2>2, GreatestOne
    <3> QED
      BY <2>2, <3>1 DEF LastColon
  <2>3. CASE colons = {}
    BY <1>7, <2>3 DEF HostText, LastColon
  <2>4. CASE colons # {}
    <3>1. c \in 1 .. Len(a) /\ c # 0
      BY <2>2, <2>4
    <3>2. SubSeq(a, 1, c - 1) \in Seq(Character)
      <4> HIDE DEF c
      <4> QED
        BY <1>7, <3>1
    <3> QED
      BY <3>1, <3>2 DEF HostText, Upto
  <2> QED
    BY <2>3, <2>4
<1> QED
  BY <1>1, <1>8, <1>9

\* A URL without a path takes every path.
LEMMA AnyPath ==
  ASSUME NEW s \in Seq(Character), s # <<>>, s[1] = "/"
  PROVE  Matches(pathMatcher(<<"^", "/">>), s, FALSE) = TRUE
<1> DEFINE r == <<"^", "/">>
           body == <<"/">>
<1>1. Len(r) = 2 /\ r[Len(r)] = "/" /\ Tail(r) = body
  OBVIOUS
<1>2. ~ EndsWith(r, "$")
  BY DEF EndsWith
<1>3. StartsWith(body, "/") /\ LITERAL_BODY(body)
  <2>1. body # <<>> /\ body[1] = "/" /\ Len(body) = 1
    OBVIOUS
  <2> HIDE DEF body
  <2>3. \A i \in 1 .. Len(body) : i = 1
    BY <2>1
  <2>4. "/" \in Literal
    BY DEF Literal
  <2>2. \A i \in 1 .. Len(body) : body[i] \in Literal
    BY <2>1, <2>3, <2>4
  <2> QED
    BY <2>1, <2>2 DEF StartsWith, LITERAL_BODY
<1>4. Unescaped(body) = body
  <2>1. Chars("/") = "/"
    BY DEF Chars, Meta, Escape
  <2> QED
    BY <2>1 DEF Unescaped
<1> HIDE DEF r, body
<1>5. pathMatcher(r) = [op |-> "beg", pattern |-> body]
  BY <1>1, <1>2, <1>3, <1>4 DEF pathMatcher
<1>6. Len(body) = 1
  BY DEF body
<1>7. SubSeq(s, 1, 1) = body
  <2>1. Len(s) >= 1
    OBVIOUS
  <2> DEFINE u == SubSeq(s, 1, 1)
  <2>2. u \in Seq(Character) /\ Len(u) = 1 /\ u[1] = "/"
    BY <2>1
  <2> HIDE DEF u
  <2>3. u = <<"/">>
    BY <2>2
  <2> QED
    BY <2>3 DEF body, u
<1>8. Len(body) <= Len(s)
  BY <1>6
<1> QED
  BY <1>5, <1>6, <1>7, <1>8 DEF Matches, r

\* A URL rule takes exactly the requests its URL names, of any length: the host
\* and the path are matched apart, as strings or expressions, and neither lets
\* the other's wildcards over the slash between them (url-rules.ts:1-30).
THEOREM UrlsMeanThemselves == Spec => []UrlMeansItself
<1>1. InCharacters => UrlMeansItself
  <2> SUFFICES ASSUME field = "url", field \in Fields, rule \in Seq(Character),
                      LiteralAccepted(rule), NEW q \in Requests
               PROVE  LET parts == SplitUrl(rule)
                          port == PortText(parts.authority)
                      IN LiteralTakes(rule, q[1], q[2], q[3], q[4]) =
                           /\ parts.scheme = SchemeText(q[1])
                           /\ Means(Lowered(HostText(parts.authority)), q[2], ".")
                           /\ port = <<"*">> \/ q[3] = (IF port = <<>> THEN DefaultPort(q[1]) ELSE port)
                           /\ parts.path = <<>> \/ Means(parts.path, q[4], "/")
    BY DEF UrlMeansItself, InCharacters
  <2> DEFINE parts == SplitUrl(rule)
             port == PortText(parts.authority)
             d == HostText(parts.authority)
             r == <<"^">> \o domainToRegexPartial(d) \o <<"$">>
  <2>1. /\ q[1] \in {"https", "http"} /\ q[2] \in Seq(Character)
        /\ q[4] \in Seq(Character) /\ q[4] # <<>> /\ q[4][1] = "/"
    <3>1. q[1] \in {"https", "http"} /\ q[2] \in Names[field] /\ q[4] \in Paths[field]
      BY DEF Requests
    <3> QED
      BY <3>1, TextAssumption
  <2>2. d \in Seq(Character) /\ parts.path \in Seq(Character) /\ parts.found
    <3>1. parts.found
      BY DEF LiteralAccepted
    <3> QED
      BY <3>1, UrlParts
  <2>3. Matches(hostMatcher(r), q[2], TRUE) = Means(Lowered(d), q[2], ".")
    <3> DEFINE n == q[2]
    <3> HIDE DEF d, n
    <3>1. Matches(hostMatcher(r), n, TRUE) = Means(Lowered(d), n, ".")
      BY <2>1, <2>2, HostMatched DEF domainToRegexPartial, n
    <3> QED
      BY <3>1 DEF n
  <2>4. Matches(pathMatcher(LiteralPath(rule)), q[4], FALSE)
          = (parts.path = <<>> \/ Means(parts.path, q[4], "/"))
    <3> DEFINE p == parts.path
               s == q[4]
    <3>1. LiteralPath(rule) = IF p = <<>> THEN <<"^", "/">>
                              ELSE <<"^">> \o atomToRegex(p, PATH_WORDS) \o <<"$">>
      BY DEF LiteralPath
    <3>2. p \in Seq(Character) /\ s \in Seq(Character) /\ s # <<>> /\ s[1] = "/"
      BY <2>1, <2>2
    <3> HIDE DEF p, s
    <3>3. Means(p, s, "/") \in BOOLEAN
      BY DEF Means
    <3>4. CASE p = <<>>
      <4>1. Matches(pathMatcher(LiteralPath(rule)), s, FALSE) = TRUE
        BY <3>1, <3>2, <3>4, AnyPath
      <4> QED
        BY <3>3, <3>4, <4>1 DEF p, s
    <3>5. CASE p # <<>>
      <4>1. Matches(pathMatcher(LiteralPath(rule)), s, FALSE) = Means(p, s, "/")
        BY <3>1, <3>2, <3>5, PathMatched
      <4> QED
        BY <3>3, <3>5, <4>1 DEF p, s
    <3> QED
      BY <3>4, <3>5
  <2>5. ASSUME parts.scheme = SchemeText(q[1])
        PROVE  LiteralPort(rule) \in {<<"*">>, q[3]}
                 <=> (port = <<"*">> \/ q[3] = (IF port = <<>> THEN DefaultPort(q[1]) ELSE port))
    <3>1. LiteralPort(rule) = IF port # <<>> THEN port
                              ELSE IF parts.scheme = <<"http">> THEN DefaultPort("http") ELSE DefaultPort("https")
      BY DEF LiteralPort
    <3>2. port = <<>> => LiteralPort(rule) = DefaultPort(q[1])
      <4>1. CASE q[1] = "http"
        <5>1. SchemeText(q[1]) = <<"http">>
          BY <4>1 DEF SchemeText
        <5> QED
          BY <2>5, <3>1, <4>1, <5>1
      <4>2. CASE q[1] = "https"
        <5>1. SchemeText(q[1]) # <<"http">>
          BY <4>2 DEF SchemeText
        <5> QED
          BY <2>5, <3>1, <4>2, <5>1
      <4> QED
        BY <2>1, <4>1, <4>2
    <3>3. DefaultPort(q[1]) # <<"*">>
      BY DEF DefaultPort
    <3>4. <<"*">> # <<>>
      OBVIOUS
    <3> HIDE DEF port, parts
    <3> QED
      BY <3>1, <3>2, <3>3, <3>4
  <2>6. LiteralTakes(rule, q[1], q[2], q[3], q[4]) <=>
          /\ parts.scheme = SchemeText(q[1])
          /\ Matches(hostMatcher(r), q[2], TRUE)
          /\ LiteralPort(rule) \in {<<"*">>, q[3]}
          /\ Matches(pathMatcher(LiteralPath(rule)), q[4], FALSE)
    BY DEF LiteralTakes
  <2>7. LiteralTakes(rule, q[1], q[2], q[3], q[4]) \in BOOLEAN
    BY DEF LiteralTakes
  <2> HIDE DEF parts, port, d, r
  <2>8. LiteralTakes(rule, q[1], q[2], q[3], q[4]) =
           /\ parts.scheme = SchemeText(q[1])
           /\ Means(Lowered(d), q[2], ".")
           /\ port = <<"*">> \/ q[3] = (IF port = <<>> THEN DefaultPort(q[1]) ELSE port)
           /\ parts.path = <<>> \/ Means(parts.path, q[4], "/")
    BY <2>3, <2>4, <2>5, <2>6, <2>7
  <2> QED
    BY <2>8 DEF parts, port, d
<1> QED
  BY <1>1, RuleIsText, PTL

(* A port, a number to one engine and text to the other *)

LEMMA WrittenInDigits ==
  ASSUME NEW n
  PROVE  Written(n) \in Seq(Digits) /\ Len(Written(n)) \in {1, 2}
<1> DEFINE char(d) == CASE d = 4 -> "4" [] d = 8 -> "8" [] OTHER -> "0"
<1>1. \A d : char(d) \in Digits
  BY DEF Digits
<1> HIDE DEF char
<1>2. <<char(n)>> \in Seq(Digits) /\ Len(<<char(n)>>) = 1
  BY <1>1
<1>3. <<char(n \div 10), char(n % 10)>> \in Seq(Digits) /\ Len(<<char(n \div 10), char(n % 10)>>) = 2
  BY <1>1
<1>4. Written(n) = <<char(n)>> \/ Written(n) = <<char(n \div 10), char(n % 10)>>
  BY DEF Written, char
<1> QED
  BY <1>2, <1>3, <1>4

\* The two agree.
LEMMA PortsAgree ==
  ASSUME NEW p \in Seq(Character), checkPort(p), p # <<"*">>, NEW n \in Nat, PortNumber(Written(n)) = n
  PROVE  PortNumber(p) = n <=> Written(n) = p
<1>1. /\ Len(p) \in {1, 2} /\ p[1] \in {"4", "8"}
      /\ \A i \in 1 .. Len(p) : p[i] \in Digits
  <2> DEFINE l == Len(p)
             a == p[1]
  <2>1. p # <<>> /\ a # "0" /\ l <= 2 /\ \A i \in 1 .. l : p[i] \in Digits
    BY DEF checkPort
  <2>2. l \in Nat /\ l # 0
    BY <2>1
  <2> HIDE DEF l
  <2>3. l \in {1, 2}
    BY <2>1, <2>2
  <2>4. a \in Digits
    BY <2>1, <2>3
  <2> HIDE DEF a
  <2>5. a \in {"4", "8"}
    BY <2>1, <2>4 DEF Digits
  <2> QED
    BY <2>1, <2>3, <2>5 DEF l, a
<1>2. ASSUME PortNumber(p) = n
      PROVE  Written(n) = p
  <2>1. CASE Len(p) = 1
    <3>1. n = DigitOf(p[1])
      BY <1>2, <2>1 DEF PortNumber
    <3>2. CASE p[1] = "4"
      <4>1. Written(n) = <<"4">>
        BY <3>1, <3>2 DEF DigitOf, Written
      <4> QED
        BY <2>1, <3>2, <4>1
    <3>3. CASE p[1] = "8"
      <4>1. Written(n) = <<"8">>
        BY <3>1, <3>3 DEF DigitOf, Written
      <4> QED
        BY <2>1, <3>3, <4>1
    <3> QED
      BY <1>1, <3>2, <3>3
  <2>2. CASE Len(p) = 2
    <3> DEFINE a == p[1]
               b == p[2]
               x == DigitOf(a)
               y == DigitOf(b)
    <3>1. n = 10 * x + y /\ a \in {"4", "8"} /\ b \in {"0", "4", "8"} /\ p = <<a, b>>
      BY <1>1, <1>2, <2>2 DEF PortNumber, Digits
    <3> HIDE DEF a, b
    <3>2. x \in {4, 8} /\ y \in {0, 4, 8}
      BY <3>1 DEF DigitOf
    <3> DEFINE char(d) == CASE d = 4 -> "4" [] d = 8 -> "8" [] OTHER -> "0"
    <3>3. char(x) = a /\ char(y) = b
      BY <3>1 DEF DigitOf
    <3> HIDE DEF x, y
    <3>4. ~ n < 10 /\ n \div 10 = x /\ n % 10 = y
      BY <3>1, <3>2
    <3>5. Written(n) = <<char(n \div 10), char(n % 10)>>
      BY <3>4 DEF Written
    <3> HIDE DEF char
    <3> QED
      BY <3>1, <3>3, <3>4, <3>5
  <2> QED
    BY <1>1, <2>1, <2>2
<1> QED
  BY <1>2

\* The digits of a text.
DigitsOf(s) == {j \in 1 .. Len(s) : s[j] \in Digits}

LEMMA DigitsTaken ==
  ASSUME NEW q, Sound(q), NEW shorter, NEW s, Len(s) \in Nat, NEW I \in SUBSET (1 .. Len(s) + 1)
  PROVE  Takes(shorter, <<"\\d", "+">>, q, s, I, MarkedBy(DigitsOf(s), s, "+", I))
<1> DEFINE a == <<"\\d">>
           mark == "+"
           C == DigitsOf(s)
<1>1. "\\d" \in Token /\ mark \in Token
  BY CharacterAssumption DEF Token, Compound, Meta, Quantifiers
<1>2. a \in Seq(Token) /\ Len(a) = 1 /\ a[1] = "\\d" /\ a # <<>>
  BY <1>1
<1>3. <<"\\d", "+">> = a \o <<mark>>
  OBVIOUS
<1> HIDE DEF a, C
<1>4. mark \in {"*", "+"}
  OBVIOUS
<1> HIDE DEF mark
<1>5. NoBars(a)
  BY <1>2 DEF NoBars
<1>6. AtomEnd((a \o <<mark>>) \o q) = Len(a)
  <2> DEFINE b == a \o <<mark>>
  <2>1. <<mark>> \in Seq(Token) /\ Len(<<mark>>) = 1
    BY <1>1
  <2>2. Glued(a, <<mark>>)
    BY <1>2, <2>1, Gluing
  <2>3. b \in Seq(Token) /\ Len(b) = 2 /\ b[1] = "\\d"
    BY <1>2, <2>1, <2>2 DEF Glued
  <2> HIDE DEF b
  <2>4. Glued(b, q)
    BY <2>3, Gluing DEF Sound
  <2>5. (b \o q)[1] = "\\d"
    BY <2>3, <2>4 DEF Glued
  <2>6. AtomEnd(b \o q) = Len(a)
    BY <1>2, <2>5 DEF AtomEnd, Openings, ClassOpenings
  <2> QED
    BY <2>6 DEF b
<1>7. Match(shorter, (a \o <<mark>>) \o q, s, I) = shorter[q][Often(shorter, a, s, mark, I)]
  <2>1. a[1] # "\\Q"
    BY <1>2
  <2> QED
    BY <1>2, <1>4, <1>5, <1>6, <2>1, AtomOften
<1>8. TakenAt(shorter, a, s, C)
  <2>1. ASSUME NEW J \in SUBSET (1 .. Len(s) + 1)
        PROVE  Once(shorter, a, s, J) = OneBy(C, J)
    <3>1. Once(shorter, a, s, J) = {i + 1 : i \in {j \in J : j <= Len(s) /\ s[j] \in Digits}}
      BY <1>2 DEF Once, Openings, ClassOpenings
    <3>2. {j \in J : j <= Len(s) /\ s[j] \in Digits} = J \cap C
      <4>1. \A j \in J : (j <= Len(s) /\ s[j] \in Digits) <=> j \in C
        BY DEF C, DigitsOf
      <4> QED
        BY <4>1
    <3> QED
      BY <3>1, <3>2 DEF OneBy
  <2>2. C \in SUBSET (1 .. Len(s))
    BY DEF C, DigitsOf
  <2> QED
    BY <2>1, <2>2 DEF TakenAt
<1>9. Often(shorter, a, s, mark, I) = MarkedBy(C, s, mark, I)
  BY <1>4, <1>8, OftenTakes
<1> QED
  BY <1>3, <1>7, <1>9 DEF Takes, C, mark

-----------------------------------------------------------------------------
(* The labels of a domain, compiled one by one and joined *)

\* A label's character but for a `*`.
Single(c) == IF c = "?" THEN <<"[^", ".", "]">> ELSE <<c>>

\* The escape of a dot is a token.
LEMMA DotEscaped == "\\." \in Token /\ <<"\\.">> \in Seq(Token) /\ Escape(".") = "\\."
<1>1. Escape(".") = "\\."
  BY DEF Escape
<1>2. "\\." \in Token
  BY <1>1 DEF Token, Compound, Meta
<1> QED
  BY <1>1, <1>2

\* A label is converted from its end.
LEMMA SinglesUnroll ==
  ASSUME NEW l \in Seq(Character)
  PROVE  /\ Singles(l) \in [0 .. Len(l) -> Seq(Token)] /\ Singles(l)[0] = <<>>
         /\ \A n \in 1 .. Len(l) : Singles(l)[n] = Single(l[Len(l) - n + 1]) \o Singles(l)[n - 1]
<1> DEFINE N == Len(l)
           V == Seq(Token)
           first == <<>>
           To(n, v) == (IF l[Len(l) - n + 1] = "?" THEN <<"[^", ".", "]">> ELSE <<l[Len(l) - n + 1]>>) \o v
           body(f, n) == IF n = 0 THEN first ELSE To(n, f[n - 1])
           Next2(f) == [n \in 0 .. N |-> body(f, n)]
<1>1. N \in Nat
  OBVIOUS
<1>2. first \in V
  OBVIOUS
<1>3. ASSUME NEW n \in 1 .. N, NEW v \in V
      PROVE  To(n, v) \in V
  <2> DEFINE c == l[N - n + 1]
  <2>1. N - n + 1 \in 1 .. N
    BY <1>1
  <2>2. c \in Character
    BY <2>1
  <2> HIDE DEF c
  <2>3. c \in Token /\ "[^" \in Token /\ "." \in Token /\ "]" \in Token
    BY <2>2, CharacterAssumption DEF Token, Compound, Meta
  <2>4. <<c>> \in Seq(Token) /\ <<"[^", ".", "]">> \in Seq(Token)
    BY <2>3
  <2>5. (IF c = "?" THEN <<"[^", ".", "]">> ELSE <<c>>) \in Seq(Token)
    BY <2>4
  <2> QED
    BY <2>5, ConcatProperties DEF c
<1> HIDE DEF N, V, first, To
<1>4. \E f : f = Next2(f)
  <2> DEFINE step == [n \in 1 .. N |-> [v \in V |-> To(n, v)]]
  <2>1. step \in [1 .. N -> [V -> V]]
    BY <1>3
  <2>2. PICK f \in [0 .. N -> V] : Unrolls(f, N, first, step)
    <3> HIDE DEF step
    <3> QED
      BY <1>1, <1>2, <2>1, Recursion
  <2>3. ASSUME NEW n \in 1 .. N
        PROVE  f[n] = To(n, f[n - 1])
    <3>1. n - 1 \in 0 .. N
      BY <1>1
    <3>2. f[n - 1] \in V
      BY <2>2, <3>1
    <3>3. f[n] = step[n][f[n - 1]]
      <4> HIDE DEF step
      <4> QED
        BY <2>2 DEF Unrolls
    <3> QED
      BY <3>2, <3>3
  <2>4. f[0] = first
    BY <2>2 DEF Unrolls
  <2>5. f = [n \in 0 .. N |-> f[n]]
    BY <2>2
  <2>6. ASSUME NEW n \in 0 .. N
        PROVE  f[n] = body(f, n)
    <3>1. CASE n = 0
      BY <2>4, <3>1
    <3>2. CASE n # 0
      <4>1. n \in 1 .. N
        BY <1>1, <3>2
      <4> QED
        BY <2>3, <3>2, <4>1
    <3> QED
      BY <3>1, <3>2
  <2>7. f = Next2(f)
    <3> HIDE DEF step, body
    <3> QED
      BY <2>5, <2>6
  <2> HIDE DEF Next2
  <2> QED
    BY <2>7
<1> DEFINE b == Singles(l)
<1>5. b = Next2(b)
  BY <1>4 DEF Singles, N, first, To
<1>6. /\ b[0] = first /\ \A n \in 1 .. N : b[n] = To(n, b[n - 1])
      /\ b = [n \in 0 .. N |-> b[n]]
  <2> HIDE DEF b, body
  <2>1. 0 \in 0 .. N /\ \A n \in 1 .. N : n \in 0 .. N /\ n # 0
    BY <1>1
  <2>2. b[0] = body(b, 0) /\ \A n \in 1 .. N : n # 0 /\ b[n] = body(b, n)
    BY <1>5, <2>1
  <2>3. b = [n \in 0 .. N |-> b[n]]
    BY <1>5
  <2> QED
    BY <2>2, <2>3 DEF body
<1> DEFINE T == {n \in 0 .. N : b[n] \in V}
<1> HIDE DEF b
<1>7. 0 \in T
  BY <1>1, <1>2, <1>6
<1>8. ASSUME NEW k \in 0 .. N - 1, k \in T
      PROVE  k + 1 \in T
  <2>1. k + 1 \in 1 .. N /\ k + 1 \in 0 .. N /\ (k + 1) - 1 = k
    BY <1>1
  <2>2. b[k + 1] = To(k + 1, b[k])
    BY <1>6, <2>1
  <2> QED
    BY <1>3, <1>8, <2>1, <2>2
<1>9. 0 .. N \subseteq T
  <2> HIDE DEF T
  <2> QED
    BY <1>1, <1>7, <1>8, UpTo
<1>10. b \in [0 .. N -> V]
  BY <1>6, <1>9
<1> QED
  BY <1>6, <1>10 DEF N, V, first, To, b, Single

\* A label compiles to tokens.
LEMMA LabelTyped ==
  ASSUME NEW l \in Seq(Character)
  PROVE  LabelToRegex(l) \in Seq(Token) /\ WithSingles(l) \in Seq(Token)
<1>1. {".", "+", "[^", "]"} \subseteq Token
  BY CharacterAssumption DEF Token, Compound, Meta
<1>2. <<".", "+">> \in Seq(Token) /\ <<"[^", ".", "]", "+">> \in Seq(Token)
  BY <1>1
<1>3. Singles(l)[Len(l)] \in Seq(Token)
  <2> DEFINE N == Len(l)
             c == Singles(l)
  <2>1. c \in [0 .. N -> Seq(Token)]
    BY SinglesUnroll
  <2>2. N \in Nat
    OBVIOUS
  <2> HIDE DEF N, c
  <2>3. c[N] \in Seq(Token)
    BY <2>1, <2>2
  <2> QED
    BY <2>3 DEF N, c
<1> QED
  BY <1>2, <1>3 DEF LabelToRegex, WithSingles

\* So are the labels put together.
LEMMA JoinedUnroll ==
  ASSUME NEW ls \in Seq(Seq(Character))
  PROVE  /\ Joined(ls) \in [0 .. Len(ls) -> Seq(Token)] /\ Joined(ls)[0] = <<>>
         /\ \A n \in 1 .. Len(ls) :
              Joined(ls)[n] = IF n = 1 THEN LabelToRegex(ls[Len(ls) - n + 1])
                              ELSE LabelToRegex(ls[Len(ls) - n + 1]) \o (<<"\\.">> \o Joined(ls)[n - 1])
<1> DEFINE N == Len(ls)
           V == Seq(Token)
           first == <<>>
           To(n, v) == IF n = 1 THEN LabelToRegex(ls[Len(ls) - n + 1])
                       ELSE LabelToRegex(ls[Len(ls) - n + 1]) \o (<<"\\.">> \o v)
           body(f, n) == IF n = 0 THEN first ELSE To(n, f[n - 1])
           Next2(f) == [n \in 0 .. N |-> body(f, n)]
<1>1. N \in Nat
  OBVIOUS
<1>2. first \in V
  OBVIOUS
<1>3. ASSUME NEW n \in 1 .. N, NEW v \in V
      PROVE  To(n, v) \in V
  <2> DEFINE l == ls[N - n + 1]
  <2>1. N - n + 1 \in 1 .. N
    BY <1>1
  <2>2. l \in Seq(Character)
    BY <2>1
  <2> HIDE DEF l
  <2>3. LabelToRegex(l) \in Seq(Token)
    BY <2>2, LabelTyped
  <2>4. <<"\\.">> \in Seq(Token)
    BY DotEscaped
  <2> QED
    BY <2>3, <2>4, ConcatProperties DEF l
<1> HIDE DEF N, V, first, To
<1>4. \E f : f = Next2(f)
  <2> DEFINE step == [n \in 1 .. N |-> [v \in V |-> To(n, v)]]
  <2>1. step \in [1 .. N -> [V -> V]]
    BY <1>3
  <2>2. PICK f \in [0 .. N -> V] : Unrolls(f, N, first, step)
    <3> HIDE DEF step
    <3> QED
      BY <1>1, <1>2, <2>1, Recursion
  <2>3. ASSUME NEW n \in 1 .. N
        PROVE  f[n] = To(n, f[n - 1])
    <3>1. n - 1 \in 0 .. N
      BY <1>1
    <3>2. f[n - 1] \in V
      BY <2>2, <3>1
    <3>3. f[n] = step[n][f[n - 1]]
      <4> HIDE DEF step
      <4> QED
        BY <2>2 DEF Unrolls
    <3> QED
      BY <3>2, <3>3
  <2>4. f[0] = first
    BY <2>2 DEF Unrolls
  <2>5. f = [n \in 0 .. N |-> f[n]]
    BY <2>2
  <2>6. ASSUME NEW n \in 0 .. N
        PROVE  f[n] = body(f, n)
    <3>1. CASE n = 0
      BY <2>4, <3>1
    <3>2. CASE n # 0
      <4>1. n \in 1 .. N
        BY <1>1, <3>2
      <4> QED
        BY <2>3, <3>2, <4>1
    <3> QED
      BY <3>1, <3>2
  <2>7. f = Next2(f)
    <3> HIDE DEF step, body
    <3> QED
      BY <2>5, <2>6
  <2> HIDE DEF Next2
  <2> QED
    BY <2>7
<1> DEFINE b == Joined(ls)
<1>5. b = Next2(b)
  BY <1>4 DEF Joined, N, first, To
<1>6. /\ b[0] = first /\ \A n \in 1 .. N : b[n] = To(n, b[n - 1])
      /\ b = [n \in 0 .. N |-> b[n]]
  <2> HIDE DEF b, body
  <2>1. 0 \in 0 .. N /\ \A n \in 1 .. N : n \in 0 .. N /\ n # 0
    BY <1>1
  <2>2. b[0] = body(b, 0) /\ \A n \in 1 .. N : n # 0 /\ b[n] = body(b, n)
    BY <1>5, <2>1
  <2>3. b = [n \in 0 .. N |-> b[n]]
    BY <1>5
  <2> QED
    BY <2>2, <2>3 DEF body
<1> DEFINE T == {n \in 0 .. N : b[n] \in V}
<1> HIDE DEF b
<1>7. 0 \in T
  BY <1>1, <1>2, <1>6
<1>8. ASSUME NEW k \in 0 .. N - 1, k \in T
      PROVE  k + 1 \in T
  <2>1. k + 1 \in 1 .. N /\ k + 1 \in 0 .. N /\ (k + 1) - 1 = k
    BY <1>1
  <2>2. b[k + 1] = To(k + 1, b[k])
    BY <1>6, <2>1
  <2> QED
    BY <1>3, <1>8, <2>1, <2>2
<1>9. 0 .. N \subseteq T
  <2> HIDE DEF T
  <2> QED
    BY <1>1, <1>7, <1>8, UpTo
<1>10. b \in [0 .. N -> V]
  BY <1>6, <1>9
<1> QED
  BY <1>6, <1>10 DEF N, V, first, To, b

\* And a domain is split from its end.
LEMMA LabelsUnroll ==
  ASSUME NEW d \in Seq(Character)
  PROVE  /\ LabelsOf(d) \in [0 .. Len(d) -> Seq(Seq(Character)) \ {<<>>}]
         /\ LabelsOf(d)[0] = << <<>> >>
         /\ \A n \in 1 .. Len(d) :
              LabelsOf(d)[n] = IF d[Len(d) - n + 1] = "." THEN << <<>> >> \o LabelsOf(d)[n - 1]
                               ELSE << <<d[Len(d) - n + 1]>> \o LabelsOf(d)[n - 1][1] >>
                                      \o Tail(LabelsOf(d)[n - 1])
<1> DEFINE N == Len(d)
           V == Seq(Seq(Character)) \ {<<>>}
           first == << <<>> >>
           To(n, v) == IF d[Len(d) - n + 1] = "." THEN << <<>> >> \o v
                       ELSE << <<d[Len(d) - n + 1]>> \o v[1] >> \o Tail(v)
           body(f, n) == IF n = 0 THEN first ELSE To(n, f[n - 1])
           Next2(f) == [n \in 0 .. N |-> body(f, n)]
<1>1. N \in Nat
  OBVIOUS
<1>2. first \in V
  <2>1. <<>> \in Seq(Character)
    OBVIOUS
  <2> QED
    BY <2>1
<1>3. ASSUME NEW n \in 1 .. N, NEW v \in V
      PROVE  To(n, v) \in V
  <2> DEFINE c == d[N - n + 1]
             W == Seq(Character)
  <2>1. N - n + 1 \in 1 .. N
    BY <1>1
  <2>2. c \in Character
    BY <2>1
  <2>3. <<c>> \in W /\ <<>> \in W
    BY <2>2
  <2> HIDE DEF c
  <2>4. v \in Seq(W) /\ v # <<>>
    OBVIOUS
  <2>5. v[1] \in W /\ Tail(v) \in Seq(W)
    <3> HIDE DEF W
    <3> QED
      BY <2>4
  <2>6. <<c>> \o v[1] \in W
    BY <2>3, <2>5, ConcatProperties
  <2> DEFINE x == <<c>> \o v[1]
             y == <<>>
  <2>7. x \in W /\ y \in W
    BY <2>3, <2>6
  <2> HIDE DEF x, y, W
  <2>8. <<x>> \in Seq(W) /\ <<y>> \in Seq(W) /\ Len(<<x>>) = 1 /\ Len(<<y>>) = 1
    BY <2>7
  <2>9. <<x>> \o Tail(v) \in Seq(W) /\ <<y>> \o v \in Seq(W)
    BY <2>4, <2>5, <2>8, ConcatProperties
  <2>10. <<x>> \o Tail(v) # <<>> /\ <<y>> \o v # <<>>
    <3>1. Len(<<x>> \o Tail(v)) = 1 + Len(Tail(v)) /\ Len(<<y>> \o v) = 1 + Len(v)
      BY <2>4, <2>5, <2>8, ConcatProperties
    <3>2. Len(Tail(v)) \in Nat /\ Len(v) \in Nat
      BY <2>4, <2>5
    <3> QED
      BY <3>1, <3>2
  <2> QED
    BY <2>9, <2>10 DEF x, y, W, c
<1> HIDE DEF N, V, first, To
<1>4. \E f : f = Next2(f)
  <2> DEFINE step == [n \in 1 .. N |-> [v \in V |-> To(n, v)]]
  <2>1. step \in [1 .. N -> [V -> V]]
    BY <1>3
  <2>2. PICK f \in [0 .. N -> V] : Unrolls(f, N, first, step)
    <3> HIDE DEF step
    <3> QED
      BY <1>1, <1>2, <2>1, Recursion
  <2>3. ASSUME NEW n \in 1 .. N
        PROVE  f[n] = To(n, f[n - 1])
    <3>1. n - 1 \in 0 .. N
      BY <1>1
    <3>2. f[n - 1] \in V
      BY <2>2, <3>1
    <3>3. f[n] = step[n][f[n - 1]]
      <4> HIDE DEF step
      <4> QED
        BY <2>2 DEF Unrolls
    <3> QED
      BY <3>2, <3>3
  <2>4. f[0] = first
    BY <2>2 DEF Unrolls
  <2>5. f = [n \in 0 .. N |-> f[n]]
    BY <2>2
  <2>6. ASSUME NEW n \in 0 .. N
        PROVE  f[n] = body(f, n)
    <3>1. CASE n = 0
      BY <2>4, <3>1
    <3>2. CASE n # 0
      <4>1. n \in 1 .. N
        BY <1>1, <3>2
      <4> QED
        BY <2>3, <3>2, <4>1
    <3> QED
      BY <3>1, <3>2
  <2>7. f = Next2(f)
    <3> HIDE DEF step, body
    <3> QED
      BY <2>5, <2>6
  <2> HIDE DEF Next2
  <2> QED
    BY <2>7
<1> DEFINE b == LabelsOf(d)
<1>5. b = Next2(b)
  BY <1>4 DEF LabelsOf, N, first, To
<1>6. /\ b[0] = first /\ \A n \in 1 .. N : b[n] = To(n, b[n - 1])
      /\ b = [n \in 0 .. N |-> b[n]]
  <2> HIDE DEF b, body
  <2>1. 0 \in 0 .. N /\ \A n \in 1 .. N : n \in 0 .. N /\ n # 0
    BY <1>1
  <2>2. b[0] = body(b, 0) /\ \A n \in 1 .. N : n # 0 /\ b[n] = body(b, n)
    BY <1>5, <2>1
  <2>3. b = [n \in 0 .. N |-> b[n]]
    BY <1>5
  <2> QED
    BY <2>2, <2>3 DEF body
<1> DEFINE T == {n \in 0 .. N : b[n] \in V}
<1> HIDE DEF b
<1>7. 0 \in T
  BY <1>1, <1>2, <1>6
<1>8. ASSUME NEW k \in 0 .. N - 1, k \in T
      PROVE  k + 1 \in T
  <2>1. k + 1 \in 1 .. N /\ k + 1 \in 0 .. N /\ (k + 1) - 1 = k
    BY <1>1
  <2>2. b[k + 1] = To(k + 1, b[k])
    BY <1>6, <2>1
  <2> QED
    BY <1>3, <1>8, <2>1, <2>2
<1>9. 0 .. N \subseteq T
  <2> HIDE DEF T
  <2> QED
    BY <1>1, <1>7, <1>8, UpTo
<1>10. b \in [0 .. N -> V]
  BY <1>6, <1>9
<1> QED
  BY <1>6, <1>10 DEF N, V, first, To, b

\* A sequence with one more element before it.
Preceded(x, c, l) ==
  /\ Len(x) = Len(l) + 1 /\ x[1] = c /\ x # <<>> /\ Tail(x) = l
  /\ \A i \in 1 .. Len(l) : x[i + 1] = l[i]

\* One put before a sequence is followed by it.
LEMMA PutBefore ==
  ASSUME NEW S, NEW c \in S, NEW l \in Seq(S)
  PROVE  <<c>> \o l \in Seq(S) /\ Preceded(<<c>> \o l, c, l)
<1> DEFINE a == <<c>>
           x == a \o l
<1>1. a \in Seq(S) /\ Len(a) = 1 /\ a[1] = c
  OBVIOUS
<1> HIDE DEF a
<1>2. /\ x \in Seq(S) /\ Len(x) = Len(a) + Len(l)
      /\ \A i \in 1 .. Len(x) : x[i] = IF i <= Len(a) THEN a[i] ELSE l[i - Len(a)]
  <2>1. x \in Seq(S)
    BY <1>1, ConcatProperties
  <2>2. Len(x) = Len(a) + Len(l)
    BY <1>1, ConcatProperties
  <2>3. \A i \in 1 .. Len(a) + Len(l) : x[i] = IF i <= Len(a) THEN a[i] ELSE l[i - Len(a)]
    BY <1>1, ConcatProperties
  <2> HIDE DEF x
  <2> QED
    BY <2>1, <2>2, <2>3
<1> HIDE DEF x
<1> DEFINE k == Len(l)
<1>3. k \in Nat
  OBVIOUS
<1>4. Len(x) = k + 1
  BY <1>1, <1>2, <1>3
<1>5. x[1] = c
  <2>1. 1 \in 1 .. Len(x) /\ 1 <= Len(a)
    BY <1>1, <1>3, <1>4
  <2> QED
    BY <1>1, <1>2, <2>1
<1>6. ASSUME NEW i \in 1 .. k
      PROVE  x[i + 1] = l[i]
  <2>1. i + 1 \in 1 .. Len(x) /\ ~ (i + 1 <= Len(a)) /\ (i + 1) - Len(a) = i
    BY <1>1, <1>3, <1>4
  <2> QED
    BY <1>2, <2>1
<1>7. x # <<>>
  BY <1>3, <1>4
<1>8. Tail(x) = l
  <2>1. Tail(x) \in Seq(S) /\ Len(Tail(x)) = k /\ \A i \in 1 .. k : Tail(x)[i] = x[i + 1]
    BY <1>2, <1>3, <1>4, <1>7, HeadTailProperties
  <2> DEFINE t == Tail(x)
  <2>2. t \in Seq(S) /\ Len(t) = Len(l) /\ \A i \in 1 .. Len(l) : t[i] = l[i]
    BY <1>6, <2>1
  <2> HIDE DEF t
  <2>3. t = l
    BY <2>2, SeqEqual
  <2> QED
    BY <2>3 DEF t
<1> QED
  BY <1>2, <1>4, <1>5, <1>6, <1>7, <1>8 DEF Preceded, x, a, k

\* A character before a label is converted before it.
LEMMA SinglesBefore ==
  ASSUME NEW c \in Character, NEW l \in Seq(Character)
  PROVE  WithSingles(<<c>> \o l) = Single(c) \o WithSingles(l)
<1> DEFINE x == <<c>> \o l
           L == Len(l)
           f == Singles(l)
           g == Singles(x)
           T == {k \in 0 .. L : g[k] = f[k]}
<1>1. x \in Seq(Character) /\ Preceded(x, c, l)
  BY PutBefore
<1>2. L \in Nat
  OBVIOUS
<1> HIDE DEF x
<1>3. f[0] = <<>> /\ \A n \in 1 .. L : f[n] = Single(l[L - n + 1]) \o f[n - 1]
  BY SinglesUnroll
<1>4. g[0] = <<>> /\ \A n \in 1 .. Len(x) : g[n] = Single(x[Len(x) - n + 1]) \o g[n - 1]
  BY <1>1, SinglesUnroll
<1>5. Len(x) = L + 1 /\ x[1] = c /\ \A i \in 1 .. L : x[i + 1] = l[i]
  BY <1>1 DEF Preceded
<1> HIDE DEF f, g, L
<1>6. 0 \in T
  BY <1>2, <1>3, <1>4
<1>7. ASSUME NEW k \in 0 .. L - 1, k \in T
      PROVE  k + 1 \in T
  <2> DEFINE n == k + 1
  <2>1. n \in 1 .. L /\ n \in 1 .. Len(x) /\ n - 1 = k
    BY <1>2, <1>5
  <2>2. L - n + 1 \in 1 .. L /\ Len(x) - n + 1 = (L - n + 1) + 1
    BY <1>2, <1>5, <2>1
  <2> HIDE DEF n
  <2>3. x[Len(x) - n + 1] = l[L - n + 1]
    BY <1>5, <2>2
  <2>4. f[n] = Single(l[L - n + 1]) \o f[k]
    BY <1>3, <2>1
  <2>5. g[n] = Single(x[Len(x) - n + 1]) \o g[k]
    BY <1>4, <2>1
  <2>6. g[k] = f[k]
    BY <1>7
  <2>7. g[n] = f[n]
    BY <2>3, <2>4, <2>5, <2>6
  <2>8. n \in 0 .. L
    BY <1>2, <2>1
  <2> QED
    BY <2>7, <2>8 DEF n
<1>8. 0 .. L \subseteq T
  <2> HIDE DEF T
  <2> QED
    BY <1>2, <1>6, <1>7, UpTo
<1>9. g[L] = f[L]
  BY <1>2, <1>8
<1>10. g[L + 1] = Single(c) \o g[L]
  <2>1. L + 1 \in 1 .. Len(x) /\ Len(x) - (L + 1) + 1 = 1 /\ (L + 1) - 1 = L
    BY <1>2, <1>5
  <2>2. g[L + 1] = Single(x[Len(x) - (L + 1) + 1]) \o g[(L + 1) - 1]
    BY <1>4, <2>1
  <2> QED
    BY <1>5, <2>1, <2>2
<1>11. WithSingles(x) = g[L + 1] /\ WithSingles(l) = f[L]
  BY <1>5 DEF WithSingles, f, g, L
<1> QED
  BY <1>9, <1>10, <1>11 DEF x

\* What follows the first label.
After(ls) == IF ls = <<>> THEN <<>> ELSE <<"\\.">> \o domainToRegex(ls)

\* Labels compile to tokens.
LEMMA DomainTyped ==
  ASSUME NEW ls \in Seq(Seq(Character))
  PROVE  domainToRegex(ls) \in Seq(Token) /\ After(ls) \in Seq(Token)
<1> DEFINE N == Len(ls)
           c == Joined(ls)
<1>1. c \in [0 .. N -> Seq(Token)]
  BY JoinedUnroll
<1>2. N \in Nat
  OBVIOUS
<1> HIDE DEF N, c
<1>3. c[N] \in Seq(Token)
  BY <1>1, <1>2
<1>4. domainToRegex(ls) \in Seq(Token)
  BY <1>3 DEF domainToRegex, N, c
<1>5. <<"\\.">> \in Seq(Token) /\ <<>> \in Seq(Token)
  BY DotEscaped
<1>6. <<"\\.">> \o domainToRegex(ls) \in Seq(Token)
  BY <1>4, <1>5, ConcatProperties
<1> QED
  BY <1>4, <1>5, <1>6 DEF After

\* A label before others is compiled before them.
LEMMA JoinedBefore ==
  ASSUME NEW l \in Seq(Character), NEW ls \in Seq(Seq(Character))
  PROVE  domainToRegex(<<l>> \o ls) = LabelToRegex(l) \o After(ls)
<1> DEFINE S == Seq(Character)
           x == <<l>> \o ls
           L == Len(ls)
           f == Joined(ls)
           g == Joined(x)
           T == {k \in 0 .. L : g[k] = f[k]}
<1>1. x \in Seq(S) /\ Preceded(x, l, ls)
  <2> HIDE DEF S
  <2>1. l \in S /\ ls \in Seq(S)
    BY DEF S
  <2> QED
    BY <2>1, PutBefore
<1>2. L \in Nat
  OBVIOUS
<1> HIDE DEF x
<1>3. f[0] = <<>> /\ \A n \in 1 .. L :
        f[n] = IF n = 1 THEN LabelToRegex(ls[L - n + 1])
               ELSE LabelToRegex(ls[L - n + 1]) \o (<<"\\.">> \o f[n - 1])
  BY JoinedUnroll
<1>4. g[0] = <<>> /\ \A n \in 1 .. Len(x) :
        g[n] = IF n = 1 THEN LabelToRegex(x[Len(x) - n + 1])
               ELSE LabelToRegex(x[Len(x) - n + 1]) \o (<<"\\.">> \o g[n - 1])
  BY <1>1, JoinedUnroll
<1>5. Len(x) = L + 1 /\ x[1] = l /\ \A i \in 1 .. L : x[i + 1] = ls[i]
  BY <1>1 DEF Preceded
<1> HIDE DEF f, g, L
<1>6. 0 \in T
  BY <1>2, <1>3, <1>4
<1>7. ASSUME NEW k \in 0 .. L - 1, k \in T
      PROVE  k + 1 \in T
  <2> DEFINE n == k + 1
  <2>1. n \in 1 .. L /\ n \in 1 .. Len(x) /\ n - 1 = k
    BY <1>2, <1>5
  <2>2. L - n + 1 \in 1 .. L /\ Len(x) - n + 1 = (L - n + 1) + 1
    BY <1>2, <1>5, <2>1
  <2> HIDE DEF n
  <2>3. x[Len(x) - n + 1] = ls[L - n + 1]
    BY <1>5, <2>2
  <2>4. f[n] = IF n = 1 THEN LabelToRegex(ls[L - n + 1])
               ELSE LabelToRegex(ls[L - n + 1]) \o (<<"\\.">> \o f[k])
    BY <1>3, <2>1
  <2>5. g[n] = IF n = 1 THEN LabelToRegex(x[Len(x) - n + 1])
               ELSE LabelToRegex(x[Len(x) - n + 1]) \o (<<"\\.">> \o g[k])
    BY <1>4, <2>1
  <2>6. g[k] = f[k]
    BY <1>7
  <2>7. g[n] = f[n]
    BY <2>3, <2>4, <2>5, <2>6
  <2>8. n \in 0 .. L
    BY <1>2, <2>1
  <2> QED
    BY <2>7, <2>8 DEF n
<1>8. 0 .. L \subseteq T
  <2> HIDE DEF T
  <2> QED
    BY <1>2, <1>6, <1>7, UpTo
<1>9. g[L] = f[L]
  BY <1>2, <1>8
<1>10. g[L + 1] = IF L = 0 THEN LabelToRegex(l) ELSE LabelToRegex(l) \o (<<"\\.">> \o g[L])
  <2>1. L + 1 \in 1 .. Len(x) /\ Len(x) - (L + 1) + 1 = 1 /\ (L + 1) - 1 = L /\ (L + 1 = 1 <=> L = 0)
    BY <1>2, <1>5
  <2> DEFINE n == L + 1
  <2>2. g[n] = IF n = 1 THEN LabelToRegex(x[Len(x) - n + 1])
               ELSE LabelToRegex(x[Len(x) - n + 1]) \o (<<"\\.">> \o g[n - 1])
    BY <1>4, <2>1
  <2> QED
    BY <1>5, <2>1, <2>2
<1>11. domainToRegex(x) = g[L + 1] /\ domainToRegex(ls) = f[L]
  BY <1>5 DEF domainToRegex, f, g, L
<1>12. LabelToRegex(l) \o <<>> = LabelToRegex(l)
  BY LabelTyped, ConcatEmptySeq
<1>13. L = 0 <=> ls = <<>>
  BY DEF L
<1> QED
  BY <1>9, <1>10, <1>11, <1>12, <1>13 DEF After, x

\* A sequence is its first element before the others.
LEMMA FirstBefore ==
  ASSUME NEW S, NEW v \in Seq(S), v # <<>>
  PROVE  v[1] \in S /\ Tail(v) \in Seq(S) /\ v = <<v[1]>> \o Tail(v)
<1> DEFINE c == v[1]
           l == Tail(v)
           x == <<c>> \o l
           L == Len(v)
<1>1. c \in S /\ L \in Nat /\ L >= 1
  OBVIOUS
<1>2. l \in Seq(S) /\ Len(l) = L - 1 /\ \A i \in 1 .. Len(l) : l[i] = v[i + 1]
  BY HeadTailProperties
<1> HIDE DEF c, l
<1>3. x \in Seq(S) /\ Preceded(x, c, l)
  BY <1>1, <1>2, PutBefore
<1>4. Len(x) = Len(l) + 1 /\ x[1] = c /\ \A i \in 1 .. Len(l) : x[i + 1] = l[i]
  BY <1>3 DEF Preceded
<1> HIDE DEF x
<1>5. ASSUME NEW i \in 1 .. L
      PROVE  x[i] = v[i]
  <2>1. CASE i = 1
    BY <1>4, <2>1 DEF c
  <2>2. CASE i # 1
    <3> DEFINE j == i - 1
    <3>1. j \in 1 .. Len(l) /\ j + 1 = i
      BY <1>1, <1>2, <2>2
    <3> HIDE DEF j
    <3>2. x[j + 1] = l[j] /\ l[j] = v[j + 1]
      BY <1>2, <1>4, <3>1
    <3> QED
      BY <3>1, <3>2
  <2> QED
    BY <2>1, <2>2
<1>6. Len(x) = Len(v)
  BY <1>1, <1>2, <1>4
<1>7. x = v
  BY <1>3, <1>5, <1>6, SeqEqual
<1> QED
  BY <1>1, <1>2, <1>7 DEF x, c, l

\* A label of a host's characters that is a wildcard or holds no `*`.
Uniform(l) ==
  /\ \A i \in 1 .. Len(l) : l[i] \in HostChar
  /\ l \in {<<"*">>, <<"*", "*">>} \/ \A i \in 1 .. Len(l) : l[i] # "*"

\* The labels such a label begins with.
LEMMA LabelKinds ==
  /\ LabelToRegex(<<>>) = <<>>
  /\ LabelToRegex(<<"*">>) = DOMAIN_WORDS.within
  /\ LabelToRegex(<<"*", "*">>) = DOMAIN_WORDS.across
  /\ Uniform(<<>>) /\ Uniform(<<"*">>)
<1>1. <<>> \in Seq(Character) /\ Len(<<>>) = 0
  OBVIOUS
<1>2. Singles(<<>>)[0] = <<>>
  BY <1>1, SinglesUnroll
<1>3. WithSingles(<<>>) = <<>>
  BY <1>1, <1>2 DEF WithSingles
<1>4. <<"*">> # <<"*", "*">> /\ <<>> # <<"*">> /\ <<>> # <<"*", "*">>
  <2>1. Len(<<"*">>) = 1 /\ Len(<<"*", "*">>) = 2 /\ Len(<<>>) = 0
    OBVIOUS
  <2> QED
    BY <2>1
<1>5. LabelToRegex(<<>>) = <<>>
  BY <1>3, <1>4 DEF LabelToRegex
<1>6. LabelToRegex(<<"*">>) = DOMAIN_WORDS.within
  BY <1>4 DEF LabelToRegex, DOMAIN_WORDS
<1>7. LabelToRegex(<<"*", "*">>) = DOMAIN_WORDS.across
  BY <1>4 DEF LabelToRegex, DOMAIN_WORDS
<1>8. Uniform(<<>>)
  BY DEF Uniform
<1>9. Uniform(<<"*">>)
  <2> DEFINE l == <<"*">>
  <2>1. Len(l) = 1 /\ l[1] = "*"
    OBVIOUS
  <2>2. l \in {<<"*">>, <<"*", "*">>}
    OBVIOUS
  <2> HIDE DEF l
  <2>3. \A i \in 1 .. Len(l) : l[i] \in HostChar
    <3>1. "*" \in HostChar
      BY DEF HostChar
    <3>2. \A i \in 1 .. Len(l) : i = 1
      BY <2>1
    <3> QED
      BY <2>1, <3>1, <3>2
  <2>4. Uniform(l)
    BY <2>2, <2>3 DEF Uniform
  <2> QED
    BY <2>4 DEF l
<1> QED
  BY <1>5, <1>6, <1>7, <1>8, <1>9

\* A character other than `*`, before a label, is compiled before it.
LEMMA PlainBefore ==
  ASSUME NEW c \in Character, c # "*", NEW l \in Seq(Character), Uniform(<<c>> \o l)
  PROVE  /\ LabelToRegex(<<c>> \o l) = Piece(c, DOMAIN_WORDS) \o LabelToRegex(l)
         /\ Uniform(l)
<1> DEFINE x == <<c>> \o l
<1>1. x \in Seq(Character) /\ Preceded(x, c, l)
  BY PutBefore
<1>2. WithSingles(x) = Single(c) \o WithSingles(l)
  BY SinglesBefore
<1>3. Uniform(x)
  OBVIOUS
<1> HIDE DEF x
<1>4. /\ Len(x) = Len(l) + 1 /\ x[1] = c /\ Len(l) \in Nat
      /\ \A i \in 1 .. Len(l) : x[i + 1] = l[i] /\ i + 1 \in 1 .. Len(x)
  BY <1>1 DEF Preceded
<1>5. c \in HostChar
  <2>1. 1 \in 1 .. Len(x)
    BY <1>4
  <2> QED
    BY <1>3, <1>4, <2>1 DEF Uniform
<1>6. x # <<"*">> /\ x # <<"*", "*">>
  BY <1>4
<1>7. \A i \in 1 .. Len(l) : l[i] # "*" /\ l[i] \in HostChar
  BY <1>3, <1>4, <1>6 DEF Uniform
<1>8. l # <<"*">> /\ l # <<"*", "*">>
  <2>1. <<"*">>[1] = "*" /\ <<"*", "*">>[1] = "*" /\ 1 \in 1 .. Len(<<"*">>) /\ 1 \in 1 .. Len(<<"*", "*">>)
    OBVIOUS
  <2> QED
    BY <1>7, <2>1
<1>9. LabelToRegex(x) = WithSingles(x)
  BY <1>6 DEF LabelToRegex
<1>10. LabelToRegex(l) = WithSingles(l)
  BY <1>8 DEF LabelToRegex
<1>11. Piece(c, DOMAIN_WORDS) = Single(c)
  <2>1. CASE c = "?"
    BY <2>1 DEF Piece, Single, DOMAIN_WORDS
  <2>2. CASE c # "?"
    <3>1. Escape(c) = c
      BY <1>5 DEF Escape, HostChar
    <3> QED
      BY <2>2, <3>1 DEF Piece, Single
  <2> QED
    BY <2>1, <2>2
<1>12. Uniform(l)
  BY <1>7 DEF Uniform
<1> QED
  BY <1>2, <1>9, <1>10, <1>11, <1>12 DEF x

\* A `*` stands before nothing else, or before another.
LEMMA StarBefore ==
  ASSUME NEW l \in Seq(Character), Uniform(<<"*">> \o l)
  PROVE  /\ \/ l = <<>> /\ <<"*">> \o l = <<"*">>
            \/ l = <<"*">> /\ <<"*">> \o l = <<"*", "*">>
         /\ Uniform(l)
<1> DEFINE c == "*"
           x == <<c>> \o l
<1>1. c \in Character
  BY CharacterAssumption DEF Quantifiers
<1> HIDE DEF c
<1>2. x \in Seq(Character) /\ Preceded(x, c, l)
  BY <1>1, PutBefore
<1>3. Uniform(x)
  BY DEF c
<1> HIDE DEF x
<1>4. Len(x) = Len(l) + 1 /\ x[1] = "*" /\ Tail(x) = l /\ Len(l) \in Nat
  BY <1>2 DEF Preceded, c
<1>5. x \in {<<"*">>, <<"*", "*">>}
  <2>1. 1 \in 1 .. Len(x)
    BY <1>4
  <2> QED
    BY <1>3, <1>4, <2>1 DEF Uniform
<1>6. CASE x = <<"*">>
  <2>1. l = <<>>
    BY <1>4, <1>6
  <2> QED
    BY <1>6, <2>1, LabelKinds DEF x, c
<1>7. CASE x = <<"*", "*">>
  <2>1. Tail(<<"*", "*">>) = <<"*">>
    OBVIOUS
  <2>2. l = <<"*">>
    BY <1>4, <1>7, <2>1
  <2> QED
    BY <1>7, <2>2, LabelKinds DEF x, c
<1> QED
  BY <1>5, <1>6, <1>7

\* One more character of a domain: a label begins before it, or its first label
\* begins with it.
LEMMA OneMoreCharacter ==
  ASSUME NEW d \in Seq(Character), NEW n \in 1 .. Len(d)
  PROVE  LET v == LabelsOf(d)[n - 1]
             c == d[Len(d) - n + 1]
         IN /\ v \in Seq(Seq(Character)) /\ v # <<>> /\ c \in Character
            /\ c = "." => LabelsOf(d)[n] = << <<>> >> \o v
            /\ c # "." => LabelsOf(d)[n] = << <<c>> \o v[1] >> \o Tail(v)
<1> DEFINE N == Len(d)
           ls == LabelsOf(d)
           c == d[N - n + 1]
<1>1. N \in Nat /\ N - n + 1 \in 1 .. N /\ n - 1 \in 0 .. N
  OBVIOUS
<1>2. c \in Character
  BY <1>1
<1>3. /\ ls \in [0 .. N -> Seq(Seq(Character)) \ {<<>>}]
      /\ ls[n] = IF d[N - n + 1] = "." THEN << <<>> >> \o ls[n - 1]
                 ELSE << <<d[N - n + 1]>> \o ls[n - 1][1] >> \o Tail(ls[n - 1])
  BY LabelsUnroll
<1> HIDE DEF N, ls
<1>4. ls[n - 1] \in Seq(Seq(Character)) \ {<<>>}
  BY <1>1, <1>3
<1> QED
  BY <1>2, <1>3, <1>4 DEF N, ls

\* Labels that are all of the kind.
AllUniform(ls) == \A i \in 1 .. Len(ls) : Uniform(ls[i])

\* So is each of labels with one before them.
LEMMA UniformBefore ==
  ASSUME NEW l \in Seq(Character), NEW ls \in Seq(Seq(Character))
  PROVE  AllUniform(<<l>> \o ls) <=> Uniform(l) /\ AllUniform(ls)
<1> DEFINE S == Seq(Character)
           x == <<l>> \o ls
           L == Len(ls)
<1>1. Preceded(x, l, ls)
  <2> HIDE DEF S
  <2>1. l \in S /\ ls \in Seq(S)
    BY DEF S
  <2> QED
    BY <2>1, PutBefore
<1>2. L \in Nat
  OBVIOUS
<1> HIDE DEF x
<1>3. Len(x) = L + 1 /\ x[1] = l /\ \A i \in 1 .. L : x[i + 1] = ls[i]
  BY <1>1 DEF Preceded
<1> HIDE DEF L
<1>4. ASSUME AllUniform(x)
      PROVE  Uniform(l) /\ AllUniform(ls)
  <2>1. 1 \in 1 .. Len(x)
    BY <1>2, <1>3
  <2>2. Uniform(l)
    BY <1>3, <1>4, <2>1 DEF AllUniform
  <2>3. ASSUME NEW i \in 1 .. L
        PROVE  Uniform(ls[i])
    <3>1. i + 1 \in 1 .. Len(x)
      BY <1>2, <1>3
    <3> QED
      BY <1>3, <1>4, <3>1 DEF AllUniform
  <2> QED
    BY <2>2, <2>3 DEF AllUniform, L
<1>5. ASSUME Uniform(l), AllUniform(ls)
      PROVE  AllUniform(x)
  <2>1. ASSUME NEW i \in 1 .. Len(x)
        PROVE  Uniform(x[i])
    <3>1. CASE i = 1
      BY <1>3, <1>5, <3>1
    <3>2. CASE i # 1
      <4> DEFINE j == i - 1
      <4>1. j \in 1 .. L /\ j + 1 = i
        BY <1>2, <1>3, <3>2
      <4> HIDE DEF j
      <4>2. x[j + 1] = ls[j] /\ Uniform(ls[j])
        BY <1>3, <1>5, <4>1 DEF AllUniform, L
      <4> QED
        BY <4>1, <4>2
    <3> QED
      BY <3>1, <3>2
  <2> QED
    BY <2>1 DEF AllUniform
<1> QED
  BY <1>4, <1>5 DEF x

\* Compiled before what it is a label before.
LEMMA PieceBefore ==
  ASSUME NEW a \in Seq(Token), NEW l \in Seq(Character), NEW x \in Seq(Character), NEW ls \in Seq(Seq(Character)),
         LabelToRegex(x) = a \o LabelToRegex(l)
  PROVE  domainToRegex(<<x>> \o ls) = a \o domainToRegex(<<l>> \o ls)
<1> DEFINE b == LabelToRegex(l)
           c == After(ls)
<1>1. b \in Seq(Token) /\ c \in Seq(Token)
  BY LabelTyped, DomainTyped
<1>2. domainToRegex(<<x>> \o ls) = LabelToRegex(x) \o c /\ domainToRegex(<<l>> \o ls) = b \o c
  BY JoinedBefore
<1> HIDE DEF b, c
<1>3. (a \o b) \o c = a \o (b \o c)
  BY <1>1, Associated
<1> QED
  BY <1>2, <1>3 DEF b

\* The labels of a domain, compiled one by one and joined, come to what the walk
\* over the whole domain compiles.
LEMMA DomainJoined ==
  ASSUME NEW d \in Seq(Character), AllUniform(Labels(d))
  PROVE  domainToRegex(Labels(d)) = atomToRegex(d, DOMAIN_WORDS)
<1> DEFINE N == Len(d)
           words == DOMAIN_WORDS
           W == Seq(Seq(Character))
           ls == LabelsOf(d)
           c == Suffixes(d, words)
           Holds(k) == AllUniform(ls[k]) => domainToRegex(ls[k]) = c[k]
           T == {k \in 0 .. N : Holds(k)}
<1>1. N \in Nat /\ words \in Words
  BY DEF Words
<1>2. ls[0] = << <<>> >>
  BY LabelsUnroll
<1>3. /\ c[0] = <<>>
      /\ \A n \in 1 .. N : c[n] = IF Stars(d, N - n + 1) THEN words.across \o c[n - 2]
                                  ELSE Piece(d[N - n + 1], words) \o c[n - 1]
  BY <1>1, Compiled
<1>4. \A n \in 1 .. N :
        /\ ls[n - 1] \in W /\ ls[n - 1] # <<>> /\ d[N - n + 1] \in Character
        /\ d[N - n + 1] = "." => ls[n] = << <<>> >> \o ls[n - 1]
        /\ d[N - n + 1] # "." => ls[n] = << <<d[N - n + 1]>> \o ls[n - 1][1] >> \o Tail(ls[n - 1])
  BY OneMoreCharacter
<1> HIDE DEF ls, c
<1>5. <<>> \in Seq(Character) /\ words.across \in Seq(Token) /\ words.within \in Seq(Token)
      /\ \A x \in Character : Piece(x, words) \in Seq(Token)
  BY <1>1, PiecesSound DEF Sounds
<1> DEFINE none == <<>>
<1>6. none \in Seq(Character) /\ LabelToRegex(none) = <<>> /\ Uniform(none)
  BY LabelKinds
<1>7. 0 \in T
  <2>1. <<>> \in W
    OBVIOUS
  <2>2. ls[0] = <<none>> \o <<>>
    <3>1. <<none>> \in Seq(Seq(Character))
      BY <1>6
    <3> HIDE DEF none
    <3>2. <<none>> \o <<>> = <<none>>
      BY <3>1, ConcatEmptySeq
    <3> QED
      BY <1>2, <3>2 DEF none
  <2>3. After(<<>>) = <<>>
    BY DEF After
  <2>4. domainToRegex(<<none>> \o <<>>) = <<>> \o <<>>
    <3> HIDE DEF none
    <3> QED
      BY <1>6, <2>1, <2>3, JoinedBefore
  <2>5. <<>> \o <<>> = <<>>
    OBVIOUS
  <2> QED
    BY <1>1, <1>3, <2>2, <2>4, <2>5
<1>8. ASSUME NEW k \in 1 .. N, k - 1 \in T, k > 1 => k - 2 \in T, AllUniform(ls[k])
      PROVE  domainToRegex(ls[k]) = c[k]
  <2> DEFINE i == N - k + 1
             x == d[i]
             v == ls[k - 1]
  <2>1. v \in W /\ v # <<>> /\ x \in Character /\ i \in 1 .. N
    <3>1. N - k + 1 \in 1 .. N
      BY <1>1
    <3>2. ls[k - 1] \in W /\ ls[k - 1] # <<>> /\ d[N - k + 1] \in Character
      <4> HIDE DEF W, N
      <4> QED
        BY <1>4
    <3> QED
      BY <3>1, <3>2
  <2>2. (x = "." => ls[k] = <<none>> \o v) /\ (x # "." => ls[k] = << <<x>> \o v[1] >> \o Tail(v))
    BY <1>4
  <2>3. c[k] = IF Stars(d, i) THEN words.across \o c[k - 2] ELSE Piece(x, words) \o c[k - 1]
    BY <1>3
  <2>4. AllUniform(v) => domainToRegex(v) = c[k - 1]
    BY <1>8
  <2>5. Stars(d, i) => x = "*"
    BY DEF Stars
  <2> DEFINE f == v[1]
             r == Tail(v)
  <2> HIDE DEF x, v, none
  <2>6. f \in Seq(Character) /\ r \in W /\ v = <<f>> \o r
    <3> DEFINE S == Seq(Character)
    <3>1. v \in Seq(S)
      BY <2>1
    <3> HIDE DEF S
    <3>2. v[1] \in S /\ Tail(v) \in Seq(S) /\ v = <<v[1]>> \o Tail(v)
      BY <2>1, <3>1, FirstBefore
    <3> QED
      BY <3>2 DEF S
  <2> HIDE DEF f, r
  <2>7. CASE x = "."
    <3>1. AllUniform(v)
      BY <1>6, <1>8, <2>1, <2>2, <2>7, UniformBefore
    <3>2. domainToRegex(ls[k]) = <<>> \o After(v)
      BY <1>6, <2>1, <2>2, <2>7, JoinedBefore
    <3>3. After(v) = <<"\\.">> \o domainToRegex(v) /\ After(v) \in Seq(Token)
      BY <2>1, DomainTyped DEF After
    <3>4. <<>> \o After(v) = After(v)
      BY <3>3, ConcatEmptySeq
    <3>5. Piece(x, words) = <<"\\.">>
      BY <2>7, DotEscaped DEF Piece
    <3>6. c[k] = <<"\\.">> \o c[k - 1]
      BY <2>3, <2>5, <2>7, <3>5
    <3> QED
      BY <2>4, <3>1, <3>2, <3>3, <3>4, <3>6
  <2>8. CASE x # "."
    <3> DEFINE y == <<x>> \o f
    <3>1. y \in Seq(Character)
      BY <2>1, <2>6, PutBefore
    <3>2. ls[k] = <<y>> \o r
      BY <2>2, <2>8 DEF f, r
    <3> HIDE DEF y
    <3>3. Uniform(y) /\ AllUniform(r)
      BY <1>8, <2>6, <3>1, <3>2, UniformBefore
    <3>4. CASE x # "*"
      <4>1. LabelToRegex(y) = Piece(x, words) \o LabelToRegex(f) /\ Uniform(f)
        BY <2>1, <2>6, <3>3, <3>4, PlainBefore DEF y
      <4>2. AllUniform(v)
        BY <2>6, <3>3, <4>1, UniformBefore
      <4> DEFINE a == Piece(x, words)
      <4>3. a \in Seq(Token)
        BY <1>5, <2>1
      <4> HIDE DEF a
      <4>4. domainToRegex(<<y>> \o r) = a \o domainToRegex(<<f>> \o r)
        BY <2>6, <3>1, <4>1, <4>3, PieceBefore DEF a
      <4> QED
        BY <2>3, <2>4, <2>5, <2>6, <3>2, <3>4, <4>2, <4>4 DEF a
    <3>5. CASE x = "*"
      <4>1. \/ f = <<>> /\ y = <<"*">>
            \/ f = <<"*">> /\ y = <<"*", "*">>
        BY <2>6, <3>3, <3>5, StarBefore DEF y
      <4>2. Uniform(f)
        BY <2>6, <3>3, <3>5, StarBefore DEF y
      <4>3. AllUniform(v)
        BY <2>6, <3>3, <4>2, UniformBefore
      \* What the character before it made of its label.
      <4> DEFINE e == d[i + 1]
                 w == ls[k - 2]
      <4>4. k # 1 => /\ w \in W /\ w # <<>> /\ e \in Character
                     /\ e = "." => v = <<none>> \o w
                     /\ e # "." => v = << <<e>> \o w[1] >> \o Tail(w)
        <5> DEFINE n == k - 1
        <5>1. k # 1 => n \in 1 .. N /\ n - 1 = k - 2 /\ N - n + 1 = i + 1
          BY <1>1
        <5>2. k # 1 => /\ ls[n - 1] \in W /\ ls[n - 1] # <<>> /\ d[N - n + 1] \in Character
                       /\ d[N - n + 1] = "." => ls[n] = << <<>> >> \o ls[n - 1]
                       /\ d[N - n + 1] # "." => ls[n] = << <<d[N - n + 1]>> \o ls[n - 1][1] >> \o Tail(ls[n - 1])
          <6> HIDE DEF n
          <6> QED
            BY <1>4, <5>1
        <5>3. v = ls[n]
          BY DEF v
        <5> HIDE DEF n
        <5> QED
          BY <5>1, <5>2, <5>3 DEF none
      <4>5. Stars(d, i) <=> k # 1 /\ e = "*"
        <5>1. i < N <=> k # 1
          BY <1>1
        <5> HIDE DEF i
        <5> QED
          BY <3>5, <5>1 DEF Stars, x
      <4> HIDE DEF e, w, i
      <4>6. k = 1 => f = <<>>
        <5>1. k = 1 => v = <<none>>
          BY <1>2 DEF v, none
        <5>2. <<none>>[1] = none
          OBVIOUS
        <5> QED
          BY <5>1, <5>2 DEF f, none
      <4>7. ASSUME k # 1, e = "."
            PROVE  f = <<>>
        <5>1. v = <<none>> \o w
          BY <4>4, <4>7
        <5> DEFINE S == Seq(Character)
        <5>2. none \in S /\ w \in Seq(S)
          BY <1>6, <4>4, <4>7
        <5> HIDE DEF S
        <5>3. Preceded(<<none>> \o w, none, w)
          BY <5>2, PutBefore
        <5> QED
          BY <5>1, <5>3 DEF Preceded, f, none
      <4>8. ASSUME k # 1, e # "."
            PROVE  /\ w[1] \in Seq(Character) /\ Tail(w) \in W /\ w = <<w[1]>> \o Tail(w)
                   /\ f = <<e>> \o w[1] /\ r = Tail(w)
        <5> DEFINE S == Seq(Character)
                   g == w[1]
                   z == <<e>> \o g
        <5>1. w \in Seq(S) /\ w # <<>> /\ e \in Character
          BY <4>4, <4>8
        <5>2. v = <<z>> \o Tail(w)
          BY <4>4, <4>8
        <5> HIDE DEF S
        <5>3. w[1] \in S /\ Tail(w) \in Seq(S) /\ w = <<w[1]>> \o Tail(w)
          BY <5>1, FirstBefore
        <5>4. g \in Seq(Character)
          BY <5>3 DEF S
        <5> HIDE DEF g
        <5>5. z \in S
          BY <5>1, <5>4, PutBefore DEF S
        <5> HIDE DEF z
        <5>6. Preceded(<<z>> \o Tail(w), z, Tail(w))
          BY <5>3, <5>5, PutBefore
        <5>7. f = z /\ r = Tail(w)
          BY <5>2, <5>6 DEF Preceded, f, r
        <5> QED
          BY <5>3, <5>7 DEF S, z, g
      <4>9. CASE f = <<>>
        <5>1. y = <<"*">>
          <6>1. <<>> # <<"*">>
            OBVIOUS
          <6> QED
            BY <4>1, <4>9, <6>1
        <5>2. ~ Stars(d, i)
          <6>1. ASSUME k # 1, e = "*"
                PROVE  FALSE
            <7>1. f = <<e>> \o w[1] /\ w[1] \in Seq(Character) /\ e \in Character
              BY <4>4, <4>8, <6>1
            <7> DEFINE g == w[1]
            <7> HIDE DEF g
            <7>2. Preceded(<<e>> \o g, e, g)
              BY <7>1, PutBefore DEF g
            <7> QED
              BY <4>9, <7>1, <7>2 DEF Preceded, g
          <6> QED
            BY <4>5, <6>1
        <5>3. LabelToRegex(y) = words.within \o LabelToRegex(f)
          <6>1. words.within \o <<>> = words.within
            BY <1>5, ConcatEmptySeq
          <6> QED
            BY <1>6, <4>9, <5>1, <6>1, LabelKinds DEF none
        <5> DEFINE a == words.within
        <5>4. a \in Seq(Token)
          BY <1>5
        <5> HIDE DEF a
        <5>5. domainToRegex(<<y>> \o r) = a \o domainToRegex(<<f>> \o r)
          BY <2>6, <3>1, <5>3, <5>4, PieceBefore DEF a
        <5>6. Piece(x, words) = a
          BY <3>5 DEF Piece, a
        <5> QED
          BY <2>3, <2>4, <2>6, <3>2, <4>3, <5>2, <5>5, <5>6
      <4>10. CASE f # <<>>
        <5>1. f = <<"*">> /\ y = <<"*", "*">>
          BY <4>1, <4>10
        <5>2. k # 1 /\ e # "."
          BY <4>6, <4>7, <4>10
        <5> DEFINE g == w[1]
        <5>3. /\ g \in Seq(Character) /\ Tail(w) \in W /\ w = <<g>> \o Tail(w)
              /\ f = <<e>> \o g /\ r = Tail(w) /\ e \in Character
          BY <4>4, <4>8, <5>2
        <5> HIDE DEF g
        <5>4. e = "*" /\ g = <<>>
          <6>1. Preceded(<<e>> \o g, e, g)
            BY <5>3, PutBefore
          <6>2. <<"*">>[1] = "*" /\ Tail(<<"*">>) = <<>>
            OBVIOUS
          <6> QED
            BY <5>1, <5>3, <6>1, <6>2 DEF Preceded
        <5>5. Stars(d, i)
          BY <4>5, <5>2, <5>4
        <5>6. LabelToRegex(y) = words.across \o LabelToRegex(g)
          <6>1. words.across \o <<>> = words.across
            BY <1>5, ConcatEmptySeq
          <6> QED
            BY <1>6, <5>1, <5>4, <6>1, LabelKinds DEF none
        <5> DEFINE a == words.across
        <5>7. a \in Seq(Token)
          BY <1>5
        <5> HIDE DEF a
        <5>8. domainToRegex(<<y>> \o r) = a \o domainToRegex(<<g>> \o r)
          BY <2>6, <3>1, <5>3, <5>6, <5>7, PieceBefore DEF a
        <5>9. AllUniform(w)
          BY <1>6, <3>3, <5>3, <5>4, UniformBefore DEF none
        <5>10. domainToRegex(w) = c[k - 2]
          <6>1. k > 1
            BY <5>2
          <6> QED
            BY <1>8, <5>9, <6>1 DEF w
        <5> QED
          BY <2>3, <3>2, <5>3, <5>5, <5>8, <5>10 DEF a
      <4> QED
        BY <4>9, <4>10
    <3> QED
      BY <3>4, <3>5
  <2> QED
    BY <2>7, <2>8
<1>9. \A k \in 1 .. N : (k - 1 \in T /\ (k > 1 => k - 2 \in T)) => k \in T
  BY <1>1, <1>8
<1>10. 0 .. N \subseteq T
  <2> HIDE DEF T
  <2> QED
    BY <1>1, <1>7, <1>9, UpToOverTwo
<1>11. N \in T
  BY <1>1, <1>10
<1> QED
  BY <1>11 DEF Labels, atomToRegex, ls, c

-----------------------------------------------------------------------------
(* A name and a port as one text *)

\* From where on a text is digits only.
DigitsToEnd(s) == {j \in 1 .. Len(s) : j .. Len(s) \subseteq DigitsOf(s)}

\* `\d+$` is matched from just there.
LEMMA DigitsFollow ==
  ASSUME NEW s, Len(s) \in Nat, NEW N \in Nat
  PROVE  Followed(N, s, <<"\\d", "+">> \o <<"$">>, DigitsToEnd(s), FALSE)
<1> DEFINE a == <<"\\d", "+">>
           q == <<"$">>
           t == a \o q
           e == Len(s) + 1
           C == DigitsOf(s)
           D == DigitsToEnd(s)
<1>1. Followed(N, s, q, {e}, FALSE)
  BY EndFollows
<1>2. "\\d" \in Token /\ "+" \in Token /\ "$" \in Token
  BY CharacterAssumption DEF Token, Compound, Meta, Quantifiers
<1>3. q \in Seq(Token) /\ Len(q) = 1
  BY <1>2
<1>4. Sound(a) /\ a \in Seq(Token) /\ Len(a) = 2
  <2>1. a \in Seq(Token) /\ Len(a) = 2 /\ a[1] = "\\d" /\ a[2] = "+"
    BY <1>2
  <2> HIDE DEF a
  <2> QED
    BY <2>1 DEF Sound, NoBars, Quantifiers
<1>5. Sound(q)
  BY <1>1 DEF Followed
<1> HIDE DEF q
<1>6. Sound(t) /\ Len(t) = 3
  <2> HIDE DEF a
  <2>1. Glued(a, q)
    BY <1>3, <1>4, Gluing
  <2> QED
    BY <1>3, <1>4, <1>5, <2>1, SoundTogether DEF Glued
<1>7. D \in SUBSET (1 .. e)
  BY DEF DigitsToEnd
<1>8. ASSUME NEW m \in Len(t) .. N, NEW I \in SUBSET (1 .. Len(s) + 1)
      PROVE  Ended(Matchers(N, s)[m][t][I], s, FALSE) <=> I \cap D # {}
  <2> DEFINE shorter == Matchers(N, s)[m - 1]
             J == MarkedBy(C, s, "+", I)
  <2>1. m \in 1 .. N /\ m - 1 \in Len(q) .. N /\ I \in SUBSET Nat
    BY <1>3, <1>6
  <2>2. J \in SUBSET (1 .. Len(s) + 1)
    BY DEF MarkedBy, SomeBy
  <2>3. Takes(shorter, a, q, s, I, J)
    <3> HIDE DEF shorter
    <3> QED
      BY <1>5, DigitsTaken
  <2>4. t \in Seq(Token)
    BY <1>6 DEF Sound
  <2>5. Matchers(N, s)[m][t][I] = Match(shorter, t, s, I)
    <3> HIDE DEF t
    <3> QED
      BY <2>1, <2>4, MatchStep
  <2>6. Ended(shorter[q][J], s, FALSE) <=> J \cap {e} # {}
    <3> HIDE DEF J
    <3> QED
      BY <1>1, <2>1, <2>2 DEF Followed
  <2>7. e \in J <=> I \cap D # {}
    <3>1. e \in J <=> \E j \in I : j < e /\ j .. e - 1 \subseteq C
      BY DEF MarkedBy, SomeBy
    <3>2. \A j \in I : (j < e /\ j .. e - 1 \subseteq C) <=> j \in D
      BY DEF DigitsToEnd
    <3> QED
      BY <3>1, <3>2
  <2> HIDE DEF J, shorter, a
  <2>8. Matchers(N, s)[m][t][I] = shorter[q][J]
    BY <2>3, <2>5 DEF Takes
  <2> QED
    BY <2>6, <2>7, <2>8
<1> HIDE DEF t, D
<1>9. Followed(N, s, t, D, FALSE)
  BY <1>6, <1>7, <1>8 DEF Followed
<1> QED
  BY <1>9 DEF t, D, a, q

\* A colon before what follows is matched where one stands before it.
ColonsBefore(s, D) == {j \in 1 .. Len(s) : s[j] = ":" /\ j + 1 \in D}

\* The compiled colon is followed by what follows it.
LEMMA ColonFollows ==
  ASSUME NEW s, Len(s) \in Nat, NEW N \in Nat, NEW q, NEW D, Followed(N, s, q, D, FALSE)
  PROVE  Followed(N, s, <<":">> \o q, ColonsBefore(s, D), FALSE)
<1> DEFINE p == <<":">>
           words == DOMAIN_WORDS
           separator == "."
           whole == FALSE
           n == 1
<1>1. ":" \in Character
  BY CharacterAssumption
<1>2. p \in Seq(Character) /\ Len(p) = 1 /\ p[1] = ":"
  BY <1>1
<1> HIDE DEF p
<1>3. Worded(words, separator) /\ words \in Words
  BY DEF Worded, Words
<1>4. D \in SUBSET (1 .. Len(s) + 1)
  BY DEF Followed
<1>5. ~ Stars(p, 1)
  BY <1>2 DEF Stars
<1>6. Suffixes(p, words)[1] = <<":">>
  <2>1. /\ Suffixes(p, words)[0] = <<>>
        /\ Suffixes(p, words)[1] = IF Stars(p, 1) THEN words.across \o Suffixes(p, words)[1 - 2]
                                   ELSE Piece(p[1], words) \o Suffixes(p, words)[0]
    <3> HIDE DEF words
    <3>1. /\ Suffixes(p, words)[0] = <<>>
          /\ \A k \in 1 .. Len(p) :
               Suffixes(p, words)[k] =
                 IF Stars(p, Len(p) - k + 1) THEN words.across \o Suffixes(p, words)[k - 2]
                 ELSE Piece(p[Len(p) - k + 1], words) \o Suffixes(p, words)[k - 1]
      BY <1>2, <1>3, Compiled
    <3> DEFINE c == Suffixes(p, words)
               L == Len(p)
    <3> HIDE DEF c, L
    <3>2. 1 \in 1 .. L /\ L - 1 + 1 = 1
      BY <1>2 DEF L
    <3>3. c[1] = IF Stars(p, L - 1 + 1) THEN words.across \o c[1 - 2] ELSE Piece(p[L - 1 + 1], words) \o c[1 - 1]
      BY <3>1, <3>2 DEF c, L
    <3>4. c[1] = IF Stars(p, 1) THEN words.across \o c[1 - 2] ELSE Piece(p[1], words) \o c[0]
      BY <3>2, <3>3
    <3> QED
      BY <3>1, <3>4 DEF c
  <2>2. Piece(p[1], words) = <<":">>
    BY <1>2 DEF Piece, Escape
  <2>3. <<":">> \o <<>> = <<":">>
    OBVIOUS
  <2> QED
    BY <1>5, <2>1, <2>2, <2>3
<1>7. Starts(p, s, separator, D)[1] = ColonsBefore(s, D)
  <2> DEFINE b == Starts(p, s, separator, D)
  <2>1. /\ b[0] = D
        /\ \A k \in 1 .. Len(p) : b[k] =
             {j \in 1 .. Len(s) + 1 : \E e \in j .. Len(s) + 1 :
                /\ e \in b[IF Stars(p, Len(p) - k + 1) THEN k - 2 ELSE k - 1]
                /\ StandsFor(p, Len(p) - k + 1, s, j, e, separator)}
    <3> HIDE DEF separator
    <3>1. Len(p) \in Nat
      BY <1>2
    <3> QED
      BY <1>4, <3>1, Begun
  <2> HIDE DEF b
  <2>2. b[1] = {j \in 1 .. Len(s) + 1 : \E e \in j .. Len(s) + 1 :
                  e \in D /\ StandsFor(p, 1, s, j, e, separator)}
    BY <1>2, <1>5, <2>1
  <2>3. \A j, e : StandsFor(p, 1, s, j, e, separator) <=> e = j + 1 /\ s[j] = ":"
    BY <1>2, <1>5 DEF StandsFor
  <2>4. \A j \in 1 .. Len(s) + 1 : j \in b[1] <=> j \in ColonsBefore(s, D)
    BY <1>4, <2>2, <2>3 DEF ColonsBefore
  <2>5. b[1] = ColonsBefore(s, D)
    BY <2>2, <2>4 DEF ColonsBefore
  <2> QED
    BY <2>5 DEF b
<1>8. n \in 0 .. Len(p) /\ whole \in BOOLEAN /\ Followed(N, s, q, D, whole)
  <2>1. n \in 0 .. Len(p)
    BY <1>2
  <2>2. whole \in BOOLEAN
    OBVIOUS
  <2> QED
    BY <2>1, <2>2
<1> HIDE DEF n, whole, words, separator
<1>9. Followed(N, s, Suffixes(p, words)[n] \o q, Starts(p, s, separator, D)[n], whole)
  BY <1>2, <1>3, <1>8, WildcardsMatched
<1> QED
  BY <1>6, <1>7, <1>9 DEF n, whole

\* s is the name n, a colon and the port w.
NameThenPort(s, n, w) ==
  /\ Len(s) = Len(n) + 1 + Len(w)
  /\ \A i \in 1 .. Len(n) : s[i] = n[i]
  /\ s[Len(n) + 1] = ":"
  /\ \A i \in 1 .. Len(w) : s[Len(n) + 1 + i] = w[i]

\* A connection's text is one such.
LEMMA AuthorityParts ==
  ASSUME NEW n \in Seq(Character), NEW w \in Seq(Digits)
  PROVE  Authority(n, w) \in Seq(Character) /\ NameThenPort(Authority(n, w), n, w)
<1> DEFINE c == <<":">>
           a == n \o c
           s == a \o w
<1>1. ":" \in Character /\ Digits \subseteq Character
  BY CharacterAssumption
<1>2. c \in Seq(Character) /\ Len(c) = 1 /\ c[1] = ":" /\ w \in Seq(Character)
  BY <1>1
<1> HIDE DEF c
<1>3. /\ a \in Seq(Character) /\ Len(a) = Len(n) + 1
      /\ \A i \in 1 .. Len(n) : a[i] = n[i]
      /\ \A i \in 1 .. Len(c) : a[Len(n) + i] = c[i]
  <2> DEFINE S == Character
  <2>1. n \in Seq(S) /\ c \in Seq(S)
    BY <1>2
  <2> HIDE DEF S
  <2>2. /\ a \in Seq(S) /\ Len(a) = Len(n) + Len(c)
        /\ \A i \in 1 .. Len(n) : a[i] = n[i]
        /\ \A i \in 1 .. Len(c) : a[Len(n) + i] = c[i]
    BY <2>1, ComesApart
  <2> QED
    BY <1>2, <2>2 DEF S
<1>4. a[Len(n) + 1] = ":"
  <2>1. 1 \in 1 .. Len(c)
    BY <1>2
  <2> HIDE DEF a
  <2> QED
    BY <1>2, <1>3, <2>1
<1> HIDE DEF a
<1>5. /\ s \in Seq(Character) /\ Len(s) = Len(a) + Len(w)
      /\ \A i \in 1 .. Len(a) : s[i] = a[i]
      /\ \A i \in 1 .. Len(w) : s[Len(a) + i] = w[i]
  <2> DEFINE S == Character
  <2>1. a \in Seq(S) /\ w \in Seq(S)
    BY <1>2, <1>3
  <2> HIDE DEF S
  <2>2. /\ s \in Seq(S) /\ Len(s) = Len(a) + Len(w)
        /\ \A i \in 1 .. Len(a) : s[i] = a[i]
        /\ \A i \in 1 .. Len(w) : s[Len(a) + i] = w[i]
    BY <2>1, ComesApart
  <2> QED
    BY <2>2 DEF S
<1>6. Authority(n, w) = s
  BY DEF Authority, a, c
<1> HIDE DEF s
<1>7. Len(n) \in Nat
  OBVIOUS
<1> QED
  BY <1>3, <1>4, <1>5, <1>6, <1>7 DEF NameThenPort

\* In the name, wildcards begin where they would without a port after it.
LEMMA NameAlone ==
  ASSUME NEW p \in Seq(Character), NEW n \in Seq(Character), NEW w, NEW s, Len(s) \in Nat,
         Len(w) \in Nat, NameThenPort(s, n, w), NEW separator, NEW k \in 0 .. Len(p)
  PROVE  Starts(p, s, separator, {Len(n) + 1})[k] = Starts(p, n, separator, {Len(n) + 1})[k]
<1> DEFINE L == Len(p)
           e == Len(n) + 1
           P == 1 .. Len(s) + 1
           Q == 1 .. e
           last == {e}
           b == Starts(p, s, separator, last)
           c == Starts(p, n, separator, last)
           T == {i \in 0 .. L : b[i] = c[i]}
<1>1. L \in Nat /\ Len(n) \in Nat /\ e \in Nat /\ e <= Len(s) + 1
  BY DEF NameThenPort
<1>2. last \in SUBSET P /\ last \in SUBSET Q
  BY <1>1
<1>3. /\ b[0] = last
      /\ \A i \in 1 .. L : b[i] =
           {j \in P : \E f \in j .. Len(s) + 1 :
              /\ f \in b[IF Stars(p, L - i + 1) THEN i - 2 ELSE i - 1]
              /\ StandsFor(p, L - i + 1, s, j, f, separator)}
  <2> HIDE DEF last
  <2> QED
    BY <1>1, <1>2, Begun
<1>4. /\ c[0] = last /\ \A i \in 0 .. L : c[i] \in SUBSET Q
      /\ \A i \in 1 .. L : c[i] =
           {j \in Q : \E f \in j .. e :
              /\ f \in c[IF Stars(p, L - i + 1) THEN i - 2 ELSE i - 1]
              /\ StandsFor(p, L - i + 1, n, j, f, separator)}
  <2> HIDE DEF last
  <2> QED
    BY <1>1, <1>2, Begun
<1> HIDE DEF b, c, last
<1>5. 0 \in T
  BY <1>1, <1>3, <1>4
<1>6. ASSUME NEW i \in 1 .. L, i - 1 \in T, i > 1 => i - 2 \in T
      PROVE  i \in T
  <2> DEFINE m == IF Stars(p, L - i + 1) THEN i - 2 ELSE i - 1
             x == L - i + 1
             K == b[m]
  <2>1. m \in 0 .. L /\ m \in T
    <3>1. Stars(p, L - i + 1) => i > 1
      BY <1>1 DEF Stars
    <3> QED
      BY <1>1, <1>6, <3>1
  <2>2. K = c[m] /\ K \in SUBSET Q
    BY <1>4, <2>1
  <2>3. b[i] = {j \in P : \E f \in j .. Len(s) + 1 : f \in K /\ StandsFor(p, x, s, j, f, separator)}
    BY <1>3
  <2>4. c[i] = {j \in Q : \E f \in j .. e : f \in K /\ StandsFor(p, x, n, j, f, separator)}
    BY <1>4, <2>2
  <2> HIDE DEF K, x, m
  <2>5. ASSUME NEW j \in Q, NEW f \in j .. e
        PROVE  StandsFor(p, x, s, j, f, separator) <=> StandsFor(p, x, n, j, f, separator)
    <3>1. \A y \in j .. f - 1 : s[y] = n[y]
      BY <1>1 DEF NameThenPort
    <3>2. f = j + 1 => s[j] = n[j]
      BY <1>1 DEF NameThenPort
    <3>3. Within(s, j, f, separator) <=> Within(n, j, f, separator)
      BY <3>1 DEF Within
    <3> QED
      BY <3>2, <3>3 DEF StandsFor
  <2>6. ASSUME NEW j \in P
        PROVE  j \in b[i] <=> j \in c[i]
    <3>1. ASSUME j \in b[i]
          PROVE  j \in c[i]
      <4>1. PICK f \in j .. Len(s) + 1 : f \in K /\ StandsFor(p, x, s, j, f, separator)
        BY <2>3, <3>1
      <4>2. j \in Q /\ f \in j .. e
        BY <1>1, <2>2, <4>1
      <4> QED
        BY <2>4, <2>5, <4>1, <4>2
    <3>2. ASSUME j \in c[i]
          PROVE  j \in b[i]
      <4>1. j \in Q
        BY <2>4, <3>2
      <4>2. PICK f \in j .. e : f \in K /\ StandsFor(p, x, n, j, f, separator)
        BY <2>4, <3>2
      <4>3. f \in j .. Len(s) + 1
        BY <1>1, <4>2
      <4> QED
        BY <2>3, <2>5, <4>1, <4>2, <4>3
    <3> QED
      BY <3>1, <3>2
  <2>7. b[i] \in SUBSET P /\ c[i] \in SUBSET P
    <3>1. Q \subseteq P
      BY <1>1
    <3> HIDE DEF P, Q
    <3> QED
      BY <2>3, <2>4, <3>1
  <2>8. b[i] = c[i]
    BY <2>6, <2>7
  <2> QED
    BY <2>8
<1>7. 0 .. L \subseteq T
  <2> HIDE DEF T, L
  <2> QED
    BY <1>1, <1>5, <1>6, UpToOverTwo
<1>8. b[k] = c[k]
  BY <1>7
<1> QED
  BY <1>8 DEF b, c, last

\* Before nothing, they begin nowhere.
LEMMA NowhereBefore ==
  ASSUME NEW p \in Seq(Character), NEW s, Len(s) \in Nat, NEW separator, NEW k \in 0 .. Len(p)
  PROVE  Starts(p, s, separator, {})[k] = {}
<1> DEFINE L == Len(p)
           P == 1 .. Len(s) + 1
           last == {}
           b == Starts(p, s, separator, last)
           T == {i \in 0 .. L : b[i] = {}}
<1>1. L \in Nat /\ last \in SUBSET P
  OBVIOUS
<1>2. /\ b[0] = last
      /\ \A i \in 1 .. L : b[i] =
           {j \in P : \E f \in j .. Len(s) + 1 :
              /\ f \in b[IF Stars(p, L - i + 1) THEN i - 2 ELSE i - 1]
              /\ StandsFor(p, L - i + 1, s, j, f, separator)}
  <2> HIDE DEF last
  <2> QED
    BY <1>1, Begun
<1> HIDE DEF b
<1>3. 0 \in T
  BY <1>1, <1>2
<1>4. ASSUME NEW i \in 1 .. L, i - 1 \in T, i > 1 => i - 2 \in T
      PROVE  i \in T
  <2>1. Stars(p, L - i + 1) => i > 1
    BY <1>1 DEF Stars
  <2>2. b[IF Stars(p, L - i + 1) THEN i - 2 ELSE i - 1] = {}
    BY <1>4, <2>1
  <2>3. b[i] = {}
    BY <1>2, <2>2
  <2> QED
    BY <2>3
<1>5. 0 .. L \subseteq T
  <2> HIDE DEF T, L
  <2> QED
    BY <1>1, <1>3, <1>4, UpToOverTwo
<1>6. b[k] = {}
  BY <1>5
<1> QED
  BY <1>6 DEF b, last

\* The colon of a name and its port, if the port is taken.
AtColon(n, taken) == IF taken THEN {Len(n) + 1} ELSE {}

\* What is expected after it then is found after that colon, and nowhere else.
LEMMA OneColon ==
  ASSUME NEW n \in Seq(Character), \A i \in 1 .. Len(n) : n[i] # ":",
         NEW w \in Seq(Digits), NEW s \in Seq(Character), NameThenPort(s, n, w),
         NEW D \in SUBSET (1 .. Len(s) + 1)
  PROVE  ColonsBefore(s, D) = AtColon(n, Len(n) + 2 \in D)
<1>1. /\ Len(n) \in Nat /\ Len(w) \in Nat /\ Len(s) = Len(n) + 1 + Len(w)
      /\ \A i \in 1 .. Len(n) : s[i] # ":"
      /\ s[Len(n) + 1] = ":"
  <2>1. Len(n) \in Nat /\ Len(w) \in Nat
    OBVIOUS
  <2>2. \A i \in 1 .. Len(n) : s[i] # ":"
    BY DEF NameThenPort
  <2> QED
    BY <2>1, <2>2 DEF NameThenPort
<1>2. ASSUME NEW i \in 1 .. Len(s), i > Len(n) + 1
      PROVE  s[i] # ":"
  <2>1. i - Len(n) - 1 \in 1 .. Len(w) /\ i = Len(n) + 1 + (i - Len(n) - 1)
    BY <1>1, <1>2
  <2>2. s[i] = w[i - Len(n) - 1]
    BY <2>1 DEF NameThenPort
  <2>3. w[i - Len(n) - 1] \in Digits
    BY <2>1
  <2> QED
    BY <2>2, <2>3 DEF Digits
<1>3. \A i \in 1 .. Len(s) : s[i] = ":" <=> i = Len(n) + 1
  BY <1>1, <1>2
<1>4. Len(n) + 1 \in 1 .. Len(s)
  BY <1>1
<1>5. \A i \in 1 .. Len(s) : i \in ColonsBefore(s, D) <=> i = Len(n) + 1 /\ Len(n) + 2 \in D
  <2>1. Len(n) + 1 + 1 = Len(n) + 2
    BY <1>1
  <2> QED
    BY <1>3, <2>1 DEF ColonsBefore
<1>6. ColonsBefore(s, D) \in SUBSET (1 .. Len(s))
  BY DEF ColonsBefore
<1> QED
  BY <1>4, <1>5, <1>6 DEF AtColon

\* A port pattern of digits takes the same digits.
LEMMA DigitsFound ==
  ASSUME NEW p \in Seq(Digits), NEW n \in Seq(Character), NEW w \in Seq(Digits),
         NEW s \in Seq(Character), NameThenPort(s, n, w)
  PROVE  Len(n) + 2 \in Starts(p, s, ".", {Len(s) + 1})[Len(p)] <=> w = p
<1> DEFINE L == Len(p)
           last == {Len(s) + 1}
           separator == "."
           b == Starts(p, s, separator, last)
           j == Len(n) + 2
           m == 0
<1>1. Digits \subseteq Character
  BY CharacterAssumption
<1>2. p \in Seq(Character) /\ L \in Nat /\ m \in 0 .. L /\ L \in m .. L
  BY <1>1
<1>3. PlainBut(p, m)
  BY DEF PlainBut, Digits
<1>4. /\ Len(n) \in Nat /\ Len(w) \in Nat /\ Len(s) \in Nat /\ Len(s) = Len(n) + 1 + Len(w)
      /\ \A i \in 1 .. Len(w) : s[Len(n) + 1 + i] = w[i]
  BY DEF NameThenPort
<1>5. last \in SUBSET (1 .. Len(s) + 1) /\ j \in 1 .. Len(s) + 1
  BY <1>4
<1>6. b[0] = last
  <2> HIDE DEF last
  <2> QED
    BY <1>2, <1>4, <1>5, Begun
<1>7. BeginPlain(b, p, s, m, L, j)
  <2> HIDE DEF last, separator, j, m, L
  <2> QED
    BY <1>2, <1>3, <1>4, <1>5, PlainStarts DEF L
<1> HIDE DEF b
<1>8. j \in b[L] <=> /\ j + L = Len(s) + 1
                     /\ \A x \in 0 .. L - 1 : s[j + x] = p[1 + x]
  <2>1. j \in b[L] <=> /\ j + (L - m) \in b[m]
                       /\ \A x \in 0 .. L - m - 1 : s[j + x] = p[Len(p) - L + 1 + x]
    <3> HIDE DEF j, m, L
    <3> QED
      BY <1>7 DEF BeginPlain
  <2>2. j + (L - m) = j + L /\ L - m - 1 = L - 1 /\ Len(p) - L + 1 = 1
    BY <1>2, <1>4
  <2> QED
    BY <1>6, <2>1, <2>2
<1>9. ASSUME j \in b[L]
      PROVE  w = p
  <2>1. Len(w) = L
    BY <1>2, <1>4, <1>8, <1>9
  <2>2. ASSUME NEW i \in 1 .. L
        PROVE  w[i] = p[i]
    <3>1. i - 1 \in 0 .. L - 1 /\ j + (i - 1) = Len(n) + 1 + i /\ 1 + (i - 1) = i
      BY <1>2, <1>4
    <3>2. s[j + (i - 1)] = p[1 + (i - 1)]
      <4> HIDE DEF j, L
      <4> QED
        BY <1>8, <1>9, <3>1
    <3> QED
      BY <1>4, <2>1, <3>1, <3>2
  <2> QED
    BY <2>1, <2>2
<1>10. ASSUME w = p
       PROVE  j \in b[L]
  <2>1. j + L = Len(s) + 1
    BY <1>4, <1>10
  <2>2. ASSUME NEW x \in 0 .. L - 1
        PROVE  s[j + x] = p[1 + x]
    <3>1. 1 + x \in 1 .. Len(w) /\ j + x = Len(n) + 1 + (1 + x)
      BY <1>4, <1>10
    <3> QED
      BY <1>4, <1>10, <3>1
  <2> QED
    BY <1>8, <2>1, <2>2
<1>11. j \in b[L] <=> w = p
  BY <1>9, <1>10
<1> QED
  BY <1>11 DEF b

\* A colon, a port pattern and the end are matched from a name's own colon, if
\* the port is the pattern's, and from nowhere else.
LEMMA PortFollows ==
  ASSUME NEW p \in Seq(Character), checkPort(p),
         NEW n \in Seq(Character), \A i \in 1 .. Len(n) : n[i] # ":",
         NEW w \in Seq(Digits), w # <<>>, NEW s \in Seq(Character), NameThenPort(s, n, w),
         NEW N \in Nat
  PROVE  Followed(N, s, <<":">> \o (PortRegex(p) \o <<"$">>), AtColon(n, p = <<"*">> \/ w = p), FALSE)
<1> DEFINE any == p = <<"*">>
           t == <<"$">>
           q == PortRegex(p) \o t
           last == {Len(s) + 1}
           D == IF any THEN DigitsToEnd(s) ELSE Starts(p, s, ".", last)[Len(p)]
           taken == any \/ w = p
<1>1. /\ Len(n) \in Nat /\ Len(w) \in Nat /\ Len(s) = Len(n) + 1 + Len(w)
      /\ Len(s) \in Nat /\ Len(w) >= 1
      /\ \A i \in 1 .. Len(w) : s[Len(n) + 1 + i] = w[i]
  <2>1. Len(n) \in Nat /\ Len(w) \in Nat /\ Len(w) >= 1
    OBVIOUS
  <2>2. Len(s) \in Nat
    OBVIOUS
  <2> QED
    BY <2>1, <2>2 DEF NameThenPort
<1>2. Followed(N, s, t, last, FALSE)
  BY <1>1, EndFollows
<1>3. ASSUME any
      PROVE  Followed(N, s, q, D, FALSE) /\ (Len(n) + 2 \in D <=> taken)
  <2>1. PortRegex(p) = <<"\\d", "+">> /\ D = DigitsToEnd(s)
    BY <1>3 DEF PortRegex
  <2>2. Followed(N, s, q, D, FALSE)
    <3>1. Followed(N, s, <<"\\d", "+">> \o <<"$">>, DigitsToEnd(s), FALSE)
      BY <1>1, DigitsFollow
    <3> QED
      BY <2>1, <3>1
  <2>3. Len(n) + 2 \in D
    <3>1. Len(n) + 2 \in 1 .. Len(s)
      BY <1>1
    <3>2. ASSUME NEW i \in Len(n) + 2 .. Len(s)
          PROVE  i \in DigitsOf(s)
      <4> DEFINE x == i - Len(n) - 1
      <4>1. x \in 1 .. Len(w) /\ i = Len(n) + 1 + x /\ i \in 1 .. Len(s)
        BY <1>1
      <4>2. w[x] \in Digits
        <5> HIDE DEF x
        <5> QED
          BY <4>1
      <4>3. s[i] = w[x]
        <5> HIDE DEF x
        <5> QED
          BY <1>1, <4>1
      <4> QED
        BY <4>1, <4>2, <4>3 DEF DigitsOf
    <3> QED
      BY <2>1, <3>1, <3>2 DEF DigitsToEnd
  <2> QED
    BY <1>3, <2>2, <2>3
<1>4. ASSUME ~any
      PROVE  Followed(N, s, q, D, FALSE) /\ (Len(n) + 2 \in D <=> taken)
  <2>1. PortRegex(p) = p /\ D = Starts(p, s, ".", last)[Len(p)]
    BY <1>4 DEF PortRegex
  <2>2. p \in Seq(Digits)
    <3>1. \A i \in 1 .. Len(p) : p[i] \in Digits
      BY <1>4 DEF checkPort
    <3>2. p = [i \in 1 .. Len(p) |-> p[i]] /\ Len(p) \in Nat
      OBVIOUS
    <3> QED
      BY <3>1, <3>2
  <2>3. atomToRegex(p, DOMAIN_WORDS) = p
    <3> DEFINE L == Len(p)
               m == 0
               words == DOMAIN_WORDS
               c == Suffixes(p, words)
    <3>1. L \in Nat /\ m \in 0 .. L /\ L \in m .. L /\ words \in Words
      BY DEF Words
    <3>2. PlainBut(p, m)
      <4>1. \A i \in 1 .. L : p[i] \in Digits
        BY <2>2
      <4>2. L - m = L
        BY <3>1
      <4> HIDE DEF m
      <4> QED
        BY <4>1, <4>2 DEF PlainBut, Digits
    <3>3. c[0] = <<>> /\ c[L] \in Seq(Token)
      <4>1. c \in [0 .. L -> Sounds] /\ c[0] = <<>>
        BY <3>1, Compiled
      <4> QED
        BY <3>1, <4>1 DEF Sounds
    <3>4. /\ Len(c[L]) = L - m + Len(c[m])
          /\ \A i \in 1 .. L - m : c[L][i] = Escape(p[L - L + i])
      <4> HIDE DEF m, L, words
      <4> QED
        BY <3>1, <3>2, PlainCompiled DEF L
    <3> HIDE DEF c
    <3>5. Len(c[L]) = L
      BY <3>1, <3>3, <3>4
    <3>6. ASSUME NEW i \in 1 .. L
          PROVE  c[L][i] = p[i]
      <4>1. p[i] \in Digits
        BY <2>2
      <4>2. Escape(p[i]) = p[i]
        BY <4>1 DEF Digits, Escape
      <4>3. L - L + i = i /\ i \in 1 .. L - m
        BY <3>1
      <4> QED
        BY <3>4, <4>2, <4>3
    <3>7. c[L] = p
      <4> DEFINE e == c[L]
      <4>1. e \in Seq(Token) /\ Len(e) = Len(p) /\ \A i \in 1 .. Len(p) : e[i] = p[i]
        BY <3>3, <3>5, <3>6
      <4> HIDE DEF e
      <4>2. e = [i \in 1 .. Len(e) |-> e[i]] /\ p = [i \in 1 .. Len(p) |-> p[i]]
        BY <4>1
      <4>3. [i \in 1 .. Len(e) |-> e[i]] = [i \in 1 .. Len(p) |-> p[i]]
        BY <4>1
      <4> QED
        BY <4>2, <4>3 DEF e
    <3> QED
      BY <3>7 DEF atomToRegex, c
  <2>4. Followed(N, s, q, D, FALSE)
    <3> DEFINE words == DOMAIN_WORDS
               separator == "."
               whole == FALSE
               k == Len(p)
    <3>1. Worded(words, separator) /\ whole \in BOOLEAN /\ k \in 0 .. Len(p)
      BY DEF Worded
    <3>2. Followed(N, s, t, last, whole)
      BY <1>2
    <3> HIDE DEF words, separator, whole, k, t, last
    <3>3. Followed(N, s, Suffixes(p, words)[k] \o t, Starts(p, s, separator, last)[k], whole)
      BY <1>1, <3>1, <3>2, WildcardsMatched
    <3> QED
      BY <2>1, <2>3, <3>3 DEF words, separator, whole, k, atomToRegex
  <2>5. Len(n) + 2 \in D <=> w = p
    BY <2>1, <2>2, DigitsFound
  <2> QED
    BY <1>4, <2>4, <2>5
<1>5. Followed(N, s, q, D, FALSE) /\ (Len(n) + 2 \in D <=> taken)
  BY <1>3, <1>4
<1> HIDE DEF q, D, taken
<1>6. D \in SUBSET (1 .. Len(s) + 1)
  BY <1>5 DEF Followed
<1>7. Followed(N, s, <<":">> \o q, ColonsBefore(s, D), FALSE)
  BY <1>1, <1>5, ColonFollows
<1>8. ColonsBefore(s, D) = AtColon(n, Len(n) + 2 \in D)
  BY <1>6, OneColon
<1>9. AtColon(n, Len(n) + 2 \in D) = AtColon(n, taken)
  BY <1>5 DEF AtColon
<1> QED
  BY <1>7, <1>8, <1>9 DEF q, taken

\* The whole is found where the pattern means the name and the port is the one.
FoundJust(d, p, n, w) ==
  Finds(<<"^">> \o (atomToRegex(d, DOMAIN_WORDS) \o (<<":">> \o (PortRegex(p) \o <<"$">>))),
        Authority(n, w))
    <=> Means(d, n, ".") /\ (p = <<"*">> \/ w = p)

\* That is so of every name without a colon and every port of digits.
LEMMA HostPortFound ==
  ASSUME NEW d \in Seq(Character), NEW p \in Seq(Character), checkPort(p),
         NEW n \in Seq(Character), \A i \in 1 .. Len(n) : n[i] # ":",
         NEW w \in Seq(Digits), w # <<>>
  PROVE  FoundJust(d, p, n, w)
<1> DEFINE s == Authority(n, w)
           t == <<":">> \o (PortRegex(p) \o <<"$">>)
           taken == p = <<"*">> \/ w = p
           last == AtColon(n, taken)
           words == DOMAIN_WORDS
           separator == "."
           b == Starts(d, s, separator, last)[Len(d)]
<1>1. s \in Seq(Character) /\ NameThenPort(s, n, w)
  BY AuthorityParts
<1>2. Len(s) \in Nat /\ Len(n) \in Nat /\ Len(w) \in Nat /\ Len(d) \in 0 .. Len(d)
  <2>1. Len(s) \in Nat
    <3> HIDE DEF s
    <3> QED
      BY <1>1
  <2> QED
    BY <2>1
<1> HIDE DEF s
<1>3. ASSUME NEW N \in Nat
      PROVE  Followed(N, s, t, last, FALSE)
  BY <1>1, PortFollows
<1>4. Worded(words, separator)
  BY DEF Worded
<1>5. Finds(<<"^">> \o (atomToRegex(d, words) \o t), s) <=> 1 \in b
  <2> HIDE DEF t, last, words, separator
  <2> QED
    BY <1>2, <1>3, <1>4, WildcardsBefore
<1>6. CASE taken
  <2>1. last = {Len(n) + 1}
    BY <1>6 DEF AtColon
  <2> DEFINE e == Starts(d, n, separator, {Len(n) + 1})[Len(d)]
  <2>2. b = e
    <3> HIDE DEF separator, last
    <3>1. Starts(d, s, separator, {Len(n) + 1})[Len(d)] = e
      BY <1>1, <1>2, NameAlone
    <3> QED
      BY <2>1, <3>1
  <2>3. Means(d, n, ".") <=> 1 \in e
    BY DEF Means
  <2> QED
    BY <1>5, <1>6, <2>2, <2>3 DEF s, FoundJust
<1>7. CASE ~taken
  <2>1. last = {}
    BY <1>7 DEF AtColon
  <2>2. b = {}
    <3> HIDE DEF separator, last
    <3>1. Starts(d, s, separator, {})[Len(d)] = {}
      BY <1>2, NowhereBefore
    <3> QED
      BY <2>1, <3>1
  <2> QED
    BY <1>5, <1>7, <2>2 DEF s, FoundJust
<1> QED
  BY <1>6, <1>7

-----------------------------------------------------------------------------
(* The rule, read by both engines and the report *)

\* Three sequences, put together from either end.
Regrouped(a, b, c) == (a \o b) \o c = a \o (b \o c)

\* They come to the same.
LEMMA Regrouping ==
  ASSUME NEW a \in Seq(Token), NEW b \in Seq(Token), NEW c \in Seq(Token)
  PROVE  Regrouped(a, b, c)
BY Associated DEF Regrouped

\* The pieces of the expression, taken from its front; in lower case, the
\* anchors and the colon are what they were.
LEMMA Pieced ==
  ASSUME NEW c \in Seq(Token), NEW q \in Seq(Token)
  PROVE  LET whole == <<"^">> \o c \o <<":">> \o q \o <<"$">> IN
         /\ whole \in Seq(Token)
         /\ whole = <<"^">> \o (c \o (<<":">> \o (q \o <<"$">>)))
         /\ Lowered(whole) = <<"^">> \o (Lowered(c) \o (<<":">> \o (Lowered(q) \o <<"$">>)))
<1> DEFINE a == <<"^">>
           m == <<":">>
           z == <<"$">>
<1>1. "^" \in Token /\ ":" \in Token /\ "$" \in Token
  BY CharacterAssumption DEF Token, Meta
<1>2. a \in Seq(Token) /\ m \in Seq(Token) /\ z \in Seq(Token)
  BY <1>1
<1>3. Lowered(a) = a /\ Lowered(m) = m /\ Lowered(z) = z
  BY DEF Lowered, Lower
<1> HIDE DEF a, m, z
<1> DEFINE u == a \o c
           v == u \o m
           w == v \o q
           qz == q \o z
           mqz == m \o qz
           rest == c \o mqz
<1>4. u \in Seq(Token)
  BY <1>2, ComesApart
<1>5. qz \in Seq(Token)
  BY <1>2, ComesApart
<1> HIDE DEF u, qz
<1>6. v \in Seq(Token) /\ mqz \in Seq(Token)
  BY <1>2, <1>4, <1>5, ComesApart
<1> HIDE DEF v, mqz
<1>7. w \in Seq(Token) /\ rest \in Seq(Token)
  <2>1. w \in Seq(Token)
    BY <1>6, ComesApart
  <2>2. rest \in Seq(Token)
    BY <1>6, ComesApart
  <2> QED
    BY <2>1, <2>2
<1> HIDE DEF w, rest
<1>8. w \o z = v \o qz
  <2>1. Regrouped(v, q, z)
    BY <1>2, <1>6, Regrouping
  <2> QED
    BY <2>1 DEF Regrouped, qz, w
<1>9. v \o qz = u \o mqz
  <2>1. Regrouped(u, m, qz)
    BY <1>2, <1>4, <1>5, Regrouping
  <2> QED
    BY <2>1 DEF Regrouped, v, mqz
<1>10. u \o mqz = a \o rest
  <2>1. Regrouped(a, c, mqz)
    BY <1>2, <1>6, Regrouping
  <2> QED
    BY <2>1 DEF Regrouped, u, rest
<1>11. w \o z = a \o rest
  BY <1>8, <1>9, <1>10
<1>12. w \o z \in Seq(Token)
  BY <1>2, <1>7, ComesApart
<1>13. Lowered(w \o z) = a \o Lowered(rest)
  BY <1>2, <1>3, <1>7, <1>11, LoweredTogether
<1>14. Lowered(rest) = Lowered(c) \o Lowered(mqz)
  BY <1>6, LoweredTogether DEF rest
<1>15. Lowered(mqz) = m \o Lowered(qz)
  BY <1>2, <1>3, <1>5, LoweredTogether DEF mqz
<1>16. Lowered(qz) = Lowered(q) \o z
  BY <1>2, <1>3, LoweredTogether DEF qz
<1> QED
  BY <1>11, <1>12, <1>13, <1>14, <1>15, <1>16 DEF a, m, z, u, v, w, qz, mqz, rest

\* A port has no case.
LEMMA PortLowered ==
  ASSUME NEW p \in Seq(Character), checkPort(p)
  PROVE  PortRegex(p) \in Seq(Token) /\ Lowered(PortRegex(p)) = PortRegex(p)
<1> DEFINE q == PortRegex(p)
<1>1. "\\d" \in Token /\ "+" \in Token /\ Character \subseteq Token
  BY CharacterAssumption DEF Token, Compound, Meta, Quantifiers
<1>2. q \in Seq(Token) /\ \A i \in 1 .. Len(q) : q[i] # "A"
  <2>1. CASE p = <<"*">>
    <3>1. q = <<"\\d", "+">>
      BY <2>1 DEF PortRegex
    <3> HIDE DEF q
    <3> QED
      BY <1>1, <3>1
  <2>2. CASE p # <<"*">>
    <3>1. q = p
      BY <2>2 DEF PortRegex
    <3>2. \A i \in 1 .. Len(p) : p[i] \in Digits
      BY <2>2 DEF checkPort
    <3>3. \A i \in 1 .. Len(p) : p[i] # "A"
      BY <3>2 DEF Digits
    <3>4. p \in Seq(Token)
      BY <1>1
    <3> HIDE DEF q
    <3> QED
      BY <3>1, <3>3, <3>4
  <2> QED
    BY <2>1, <2>2
<1> HIDE DEF q
<1>3. q = [i \in 1 .. Len(q) |-> q[i]]
  BY <1>2
<1>4. Lowered(q) = q
  BY <1>2, <1>3 DEF Lowered, Lower
<1> QED
  BY <1>2, <1>4 DEF q

\* The proxy's expression for both, and the report's, are the same.
LEMMA SameExpression ==
  ASSUME NEW r \in Seq(Character), SetupAccepts(r), ~LooksLikeBlock(HostOf(r))
  PROVE  LET whole == <<"^">> \o atomToRegex(HostOf(r), DOMAIN_WORDS) \o <<":">> \o PortRegex(PortOf(r)) \o <<"$">> IN
         convertRule(r) = whole /\ hostPortRegex(r) = whole
<1> DEFINE d == HostOf(r)
           c == atomToRegex(d, DOMAIN_WORDS)
           a == <<"^">>
           z == <<"$">>
<1>1. d \in Seq(Character)
  BY HostAndPort DEF SetupAccepts
<1>2. AllUniform(Labels(d))
  BY DEF SetupAccepts, LabelAccepts, checkHostLabel, AllUniform, Uniform
<1>3. domainToRegex(Labels(d)) = c
  BY <1>1, <1>2, DomainJoined
<1>4. c \in Seq(Token)
  BY <1>1, RegexSound DEF Sounds, Words
<1>5. hostRuleToMatcher(r) = (a \o c) \o z
  BY DEF hostRuleToMatcher, domainToRegexPartial
<1>6. a \in Seq(Token) /\ z \in Seq(Token) /\ Len(z) = 1
  <2>1. "^" \in Token /\ "$" \in Token
    BY CharacterAssumption DEF Token, Meta
  <2> QED
    BY <2>1
<1> DEFINE u == a \o c
           m == u \o z
<1> HIDE DEF d, c, a, z
<1>7. u \in Seq(Token)
  BY <1>4, <1>6, ComesApart
<1> HIDE DEF u
<1>8. Len(m) = Len(u) + Len(z) /\ SubSeq(m, 1, Len(u)) = u
  BY <1>6, <1>7, ComesApart
<1>9. Upto(m, Len(m)) = u
  <2>1. Len(u) \in Nat
    BY <1>7
  <2>2. Len(m) - 1 = Len(u)
    BY <1>6, <1>8, <2>1
  <2> HIDE DEF m
  <2> QED
    BY <1>8, <2>2 DEF Upto
<1>10. hostPortRegex(r) = u \o <<":">> \o PortRegex(PortOf(r)) \o z
  BY <1>5, <1>9 DEF hostPortRegex, u, m, z
<1> QED
  BY <1>3, <1>10 DEF convertRule, u, d, c, a, z

\* Labels no slash is in.
NoSlash(ls) == \A j \in 1 .. Len(ls) : \A i \in 1 .. Len(ls[j]) : ls[j][i] # "/"

\* No label of a domain that a slash is in is a host's: `inspect` refuses every
\* block.
LEMMA SlashRefused ==
  ASSUME NEW d \in Seq(Character), PartialAccepts(d)
  PROVE  \A i \in 1 .. Len(d) : d[i] # "/"
<1> DEFINE N == Len(d)
           S == Seq(Character)
           ls == LabelsOf(d)
           T == {k \in 0 .. N : NoSlash(ls[k]) => \A i \in N - k + 1 .. N : d[i] # "/"}
<1>1. N \in Nat
  OBVIOUS
<1>2. \A n \in 1 .. N :
        /\ ls[n - 1] \in Seq(S) /\ ls[n - 1] # <<>> /\ d[N - n + 1] \in Character
        /\ d[N - n + 1] = "." => ls[n] = << <<>> >> \o ls[n - 1]
        /\ d[N - n + 1] # "." => ls[n] = << <<d[N - n + 1]>> \o ls[n - 1][1] >> \o Tail(ls[n - 1])
  BY OneMoreCharacter
<1>3. NoSlash(ls[N])
  <2>1. \A j \in 1 .. Len(Labels(d)) : \A i \in 1 .. Len(Labels(d)[j]) : Labels(d)[j][i] \in HostChar
    BY DEF PartialAccepts, checkHostLabel
  <2>2. "/" \notin HostChar
    BY DEF HostChar
  <2> QED
    BY <2>1, <2>2 DEF NoSlash, Labels
<1> HIDE DEF ls
<1>4. 0 \in T
  BY <1>1
<1>5. ASSUME NEW k \in 0 .. N - 1, k \in T, NoSlash(ls[k + 1])
      PROVE  \A i \in N - (k + 1) + 1 .. N : d[i] # "/"
  <2> DEFINE n == k + 1
             c == d[N - n + 1]
             v == ls[k]
             w == ls[n]
             f == v[1]
             r == Tail(v)
  <2>1. n \in 1 .. N /\ n - 1 = k /\ N - n + 1 \in 1 .. N
    BY <1>1
  <2>2. /\ v \in Seq(S) /\ v # <<>> /\ c \in Character
        /\ c = "." => w = << <<>> >> \o v
        /\ c # "." => w = << <<c>> \o f >> \o r
    <3> HIDE DEF S, n, N
    <3> QED
      BY <1>2, <2>1
  <2>3. NoSlash(w)
    BY <1>5
  <2> HIDE DEF v, w, c, n
  <2>4. f \in S /\ r \in Seq(S) /\ v = <<f>> \o r
    <3> HIDE DEF S
    <3> QED
      BY <2>2, FirstBefore
  <2> HIDE DEF f, r
  <2>5. Preceded(v, f, r)
    <3> HIDE DEF S
    <3> QED
      BY <2>4, PutBefore
  <2>6. Len(v) \in Nat /\ Len(r) \in Nat /\ Len(f) \in Nat
    BY <2>2, <2>4
  <2>7. ASSUME c = "."
        PROVE  NoSlash(v) /\ c # "/"
    <3> DEFINE x == <<>>
    <3>1. x \in S
      OBVIOUS
    <3> HIDE DEF x
    <3>2. Preceded(w, x, v)
      <4>1. w = <<x>> \o v
        BY <2>2, <2>7 DEF x
      <4> HIDE DEF S
      <4> QED
        BY <2>2, <3>1, <4>1, PutBefore
    <3>3. ASSUME NEW j \in 1 .. Len(v)
          PROVE  \A i \in 1 .. Len(v[j]) : v[j][i] # "/"
      <4>1. j + 1 \in 1 .. Len(w) /\ w[j + 1] = v[j]
        BY <2>6, <3>2 DEF Preceded
      <4> QED
        BY <2>3, <4>1 DEF NoSlash
    <3> QED
      BY <2>7, <3>3 DEF NoSlash
  <2>8. ASSUME c # "."
        PROVE  NoSlash(v) /\ c # "/"
    <3> DEFINE x == <<c>> \o f
    <3>1. x \in S /\ Preceded(x, c, f)
      BY <2>2, <2>4, PutBefore
    <3>2. w = <<x>> \o r
      BY <2>2, <2>8
    <3> HIDE DEF x
    <3>3. Preceded(w, x, r)
      <4> HIDE DEF S
      <4> QED
        BY <2>4, <3>1, <3>2, PutBefore
    <3>4. \A i \in 1 .. Len(x) : x[i] # "/"
      <4>1. 1 \in 1 .. Len(w) /\ w[1] = x
        BY <2>6, <3>3 DEF Preceded
      <4> QED
        BY <2>3, <4>1 DEF NoSlash
    <3>5. c # "/" /\ \A i \in 1 .. Len(f) : f[i] # "/"
      <4>1. 1 \in 1 .. Len(x) /\ x[1] = c /\ \A i \in 1 .. Len(f) : i + 1 \in 1 .. Len(x) /\ x[i + 1] = f[i]
        BY <2>6, <3>1 DEF Preceded
      <4> QED
        BY <3>4, <4>1
    <3>6. ASSUME NEW j \in 1 .. Len(v)
          PROVE  \A i \in 1 .. Len(v[j]) : v[j][i] # "/"
      <4>1. CASE j = 1
        <5>1. v[1] = f
          BY <2>5 DEF Preceded
        <5> QED
          BY <3>5, <4>1, <5>1
      <4>2. CASE j # 1
        <5> DEFINE m == j - 1
        <5>1. m \in 1 .. Len(r) /\ m + 1 = j
          BY <2>5, <2>6, <4>2 DEF Preceded
        <5> HIDE DEF m
        <5>2. v[m + 1] = r[m] /\ w[m + 1] = r[m] /\ m + 1 \in 1 .. Len(w)
          BY <2>5, <2>6, <3>3, <5>1 DEF Preceded
        <5> QED
          BY <2>3, <5>1, <5>2 DEF NoSlash
      <4> QED
        BY <4>1, <4>2
    <3> QED
      BY <3>5, <3>6 DEF NoSlash
  <2>9. NoSlash(v) /\ c # "/"
    BY <2>7, <2>8
  <2>10. \A i \in N - k + 1 .. N : d[i] # "/"
    BY <1>5, <2>9 DEF v
  <2>11. d[N - (k + 1) + 1] # "/"
    BY <2>9 DEF c, n
  <2> QED
    <3>1. \A i \in N - (k + 1) + 1 .. N : i = N - (k + 1) + 1 \/ i \in N - k + 1 .. N
      BY <1>1
    <3> QED
      BY <2>10, <2>11, <3>1
<1>6. 0 .. N \subseteq T
  <2>1. ASSUME NEW k \in 0 .. N - 1, k \in T
        PROVE  k + 1 \in T
    <3>1. k + 1 \in 0 .. N
      BY <1>1
    <3> QED
      BY <1>5, <2>1, <3>1
  <2> HIDE DEF T
  <2> QED
    BY <1>1, <1>4, <2>1, UpTo
<1>7. N \in T
  BY <1>1, <1>6
<1> QED
  BY <1>1, <1>3, <1>7

\* A host rule setup's parser takes is taken by the proxy just where it is not a
\* CIDR block.  One that is taken matches the same names and ports as `inspect`
\* has it, as the `universal` engine does and as setup and the report do: the two
\* compilations of its labels come to one expression, which is found in
\* `name:port` just where the name alone is matched and the port is the number
\* (partial-wildcard.ts:111-116, haproxy-universal-config.ts:73-80).
THEOREM RulesReadAlike == Spec => []EnginesAgree
<1>1. InCharacters => EnginesAgree
  <2> SUFFICES ASSUME field = "host", field \in Fields, rule \in Seq(Character),
                      SetupAccepts(rule)
               PROVE  /\ InspectAccepts(rule) = ~LooksLikeBlock(HostOf(rule))
                      /\ InspectAccepts(rule) => \A n \in Names[field], port \in Ports[field] :
                           LET takes == InspectTakes(rule, n, port) IN
                           /\ takes = Finds(Lowered(hostPortRegex(rule)), Authority(n, Written(port)))
                           /\ takes = Finds(Lowered(convertRule(rule)), Authority(n, Written(port)))
    BY DEF EnginesAgree, InCharacters
  <2> DEFINE d == HostOf(rule)
             p == PortOf(rule)
             c == atomToRegex(d, DOMAIN_WORDS)
             q == PortRegex(p)
             whole == <<"^">> \o c \o <<":">> \o q \o <<"$">>
  <2>1. d \in Seq(Character) /\ p \in Seq(Character) /\ checkPort(p)
    BY HostAndPort DEF SetupAccepts
  <2>2. ASSUME ~LooksLikeBlock(d)
        PROVE  InspectAccepts(rule)
    BY <2>2 DEF SetupAccepts, InspectAccepts, PartialAccepts, LabelAccepts
  <2>9. ASSUME LooksLikeBlock(d), InspectAccepts(rule)
        PROVE  FALSE
    <3>1. PICK i \in 2 .. Len(d) - 1 : d[i] = "/"
      BY <2>9 DEF LooksLikeBlock
    <3>2. i \in 1 .. Len(d)
      BY <2>1, <3>1
    <3>3. PartialAccepts(d)
      BY <2>9 DEF InspectAccepts
    <3> HIDE DEF d
    <3> QED
      BY <2>1, <3>1, <3>2, <3>3, SlashRefused
  <2>10. InspectAccepts(rule) = ~LooksLikeBlock(d)
    <3>1. InspectAccepts(rule) \in BOOLEAN /\ LooksLikeBlock(d) \in BOOLEAN
      BY DEF InspectAccepts, LooksLikeBlock
    <3> QED
      BY <2>2, <2>9, <3>1
  <2>11. CASE LooksLikeBlock(d)
    BY <2>10, <2>11
  <2> SUFFICES ASSUME ~LooksLikeBlock(d)
               PROVE  \A n \in Names[field], port \in Ports[field] :
                        LET takes == InspectTakes(rule, n, port) IN
                        /\ takes = Finds(Lowered(hostPortRegex(rule)), Authority(n, Written(port)))
                        /\ takes = Finds(Lowered(convertRule(rule)), Authority(n, Written(port)))
    BY <2>10, <2>11
  <2>3. convertRule(rule) = whole /\ hostPortRegex(rule) = whole
    BY SameExpression
  <2>4. hostRuleToMatcher(rule) = <<"^">> \o c \o <<"$">>
    BY DEF hostRuleToMatcher, domainToRegexPartial
  <2>5. /\ Lowered(d) \in Seq(Character)
        /\ Lowered(c) = atomToRegex(Lowered(d), DOMAIN_WORDS) /\ c \in Seq(Token)
    <3> HIDE DEF d
    <3>1. DOMAIN_WORDS \in Words
      BY DEF Words
    <3> QED
      BY <2>1, <3>1, LoweredPattern, CompiledLowered, RegexSound DEF Sounds
  <2>6. q \in Seq(Token) /\ Lowered(q) = q
    <3> HIDE DEF p
    <3> QED
      BY <2>1, PortLowered
  <2>7. Lowered(whole)
          = <<"^">> \o (atomToRegex(Lowered(d), DOMAIN_WORDS) \o (<<":">> \o (q \o <<"$">>)))
    <3> HIDE DEF c, q
    <3>1. Lowered(whole) = <<"^">> \o (Lowered(c) \o (<<":">> \o (Lowered(q) \o <<"$">>)))
      BY <2>5, <2>6, Pieced
    <3> QED
      BY <2>5, <2>6, <3>1
  <2> HIDE DEF whole
  <2>8. ASSUME NEW n \in Names[field], NEW port \in Ports[field]
        PROVE  InspectTakes(rule, n, port) = Finds(Lowered(whole), Authority(n, Written(port)))
    <3> DEFINE w == Written(port)
               l == Lowered(d)
    <3>1. n \in Seq(Character) /\ \A i \in 1 .. Len(n) : n[i] # ":"
      BY TextAssumption
    <3>2. port \in Nat /\ PortNumber(w) = port
      BY PortAssumption
    <3>3. w \in Seq(Digits) /\ w # <<>>
      <4>1. w \in Seq(Digits) /\ Len(w) \in {1, 2}
        BY WrittenInDigits
      <4> HIDE DEF w
      <4>2. w = <<>> => Len(w) = 0
        OBVIOUS
      <4>3. Len(w) # 0
        <5>1. \A x \in {1, 2} : x # 0
          OBVIOUS
        <5> QED
          BY <4>1, <5>1, Zenon
      <4>4. w # <<>>
        BY <4>2, <4>3, Zenon
      <4> QED
        BY <4>1, <4>4
    <3>4. p # <<"*">> => (PortNumber(p) = port <=> w = p)
      <4> HIDE DEF p
      <4> QED
        BY <2>1, <3>2, PortsAgree
    <3>5. Matches(hostMatcher(hostRuleToMatcher(rule)), n, TRUE) = Means(l, n, ".")
      <4> HIDE DEF d
      <4> QED
        BY <2>1, <2>4, <3>1, HostMatched
    <3>6. InspectTakes(rule, n, port) <=> Means(l, n, ".") /\ (p = <<"*">> \/ w = p)
      BY <3>4, <3>5 DEF InspectTakes
    <3>7. Finds(Lowered(whole), Authority(n, w))
            <=> Means(l, n, ".") /\ (p = <<"*">> \/ w = p)
      <4> HIDE DEF p, w, l
      <4>1. l \in Seq(Character)
        BY <2>5 DEF l
      <4>2. FoundJust(l, p, n, w)
        <5>1. p \in Seq(Character) /\ checkPort(p)
          BY <2>1
        <5> QED
          BY <3>1, <3>3, <4>1, <5>1, HostPortFound
      <4> QED
        BY <2>7, <4>2 DEF l, FoundJust
    <3>8. /\ InspectTakes(rule, n, port) \in BOOLEAN
          /\ Finds(Lowered(whole), Authority(n, w)) \in BOOLEAN
      <4>1. Means(l, n, ".") \in BOOLEAN
        BY DEF Means
      <4> QED
        BY <3>5, <4>1 DEF InspectTakes, Finds
    <3> QED
      BY <3>6, <3>7, <3>8
  <2> QED
    BY <2>3, <2>8
<1> QED
  BY <1>1, RuleIsText, PTL

-----------------------------------------------------------------------------
(* Powers of two *)

\* What the powers are made of is there.
LEMMA Powers ==
  /\ Bits * Octets \in Nat /\ twoTo \in [0 .. Bits * Octets -> Nat]
  /\ twoTo[0] = 1
  /\ \A n \in 1 .. Bits * Octets : twoTo[n] = 2 * twoTo[n - 1]
<1> DEFINE N == Bits * Octets
           Next2(f) == [n \in 0 .. N |-> IF n = 0 THEN 1 ELSE 2 * f[n - 1]]
<1>1. N \in Nat
  BY AddressAssumption
<1>2. PICK f \in [0 .. N -> Nat] : f[0] = 1 /\ \A i \in 1 .. N : f[i] = 2 * f[i - 1]
  <2> DEFINE step == [i \in 1 .. N |-> [v \in Nat |-> 2 * v]]
  <2>1. step \in [1 .. N -> [Nat -> Nat]]
    OBVIOUS
  <2>2. \E f \in [0 .. N -> Nat] : f[0] = 1 /\ \A i \in 1 .. N : f[i] = step[i][f[i - 1]]
    <3> DEFINE first == 1
               V == Nat
    <3>1. first \in V /\ step \in [1 .. N -> [V -> V]]
      BY <2>1
    <3>2. \E f \in [0 .. N -> V] : Unrolls(f, N, first, step)
      <4> HIDE DEF N, step, first, V
      <4> QED
        BY <1>1, <3>1, Recursion
    <3> QED
      BY <3>2 DEF Unrolls
  <2>3. PICK f \in [0 .. N -> Nat] : f[0] = 1 /\ \A i \in 1 .. N : f[i] = step[i][f[i - 1]]
    BY <2>2
  <2>4. ASSUME NEW i \in 1 .. N
        PROVE  f[i] = 2 * f[i - 1]
    <3>1. f[i - 1] \in Nat 
      BY <1>1, <2>3
    <3> QED
      BY <2>3, <3>1
  <2> QED
    BY <2>3, <2>4
<1>3. f = Next2(f)
  BY <1>1, <1>2
<1>4. twoTo = Next2(twoTo)
  BY <1>3 DEF twoTo
<1>5. twoTo \in [0 .. N -> Nat]
  <2>1. twoTo[0] = 1 /\ \A n \in 1 .. N : twoTo[n] = 2 * twoTo[n - 1]
    BY <1>1, <1>4
  <2> DEFINE T == {n \in 0 .. N : twoTo[n] \in Nat}
  <2>2. 0 \in T
    BY <1>1, <2>1
  <2>3. \A k \in 0 .. N - 1 : k \in T => k + 1 \in T
    <3> SUFFICES ASSUME NEW k \in 0 .. N - 1, k \in T
                 PROVE  k + 1 \in T
      OBVIOUS
    <3>1. twoTo[k + 1] = 2 * twoTo[k]
      BY <1>1, <2>1
    <3> QED
      BY <1>1, <3>1
  <2>4. 0 .. N \subseteq T
    <3> HIDE DEF T, N
    <3> QED
      BY <1>1, <2>2, <2>3, UpTo
  <2>5. twoTo = [n \in 0 .. N |-> twoTo[n]]
    BY <1>4
  <2> HIDE DEF N
  <2> QED
    BY <2>4, <2>5
<1> QED
  BY <1>1, <1>4, <1>5

LEMMA PowersPositive ==
  ASSUME NEW n \in 0 .. Bits * Octets
  PROVE  twoTo[n] \in Nat /\ twoTo[n] >= 1
<1> DEFINE N == Bits * Octets
           T == {k \in 0 .. N : twoTo[k] \in Nat /\ twoTo[k] >= 1}
<1>1. N \in Nat
  BY Powers
<1>2. 0 \in T
  BY <1>1, Powers
<1>3. ASSUME NEW k \in 0 .. N - 1, k \in T
      PROVE  k + 1 \in T
  <2>1. twoTo[k + 1] = 2 * twoTo[k]
    BY <1>1, Powers
  <2> QED
    BY <1>1, <1>3, <2>1
<1>4. 0 .. N \subseteq T
  <2> HIDE DEF N, T
  <2> QED
    BY <1>1, <1>2, <1>3, UpTo
<1> QED
  BY <1>4

LEMMA PowersMultiply ==
  ASSUME NEW m \in Nat, NEW n \in Nat, m + n <= Bits * Octets
  PROVE  twoTo[m + n] = twoTo[m] * twoTo[n]
<1> DEFINE N == Bits * Octets
           T == {k \in 0 .. n : twoTo[m + k] = twoTo[m] * twoTo[k]}
<1>1. N \in Nat /\ twoTo[m] \in Nat
  BY Powers, PowersPositive
<1>2. 0 \in T
  BY <1>1, Powers
<1>3. ASSUME NEW k \in 0 .. n - 1, k \in T
      PROVE  k + 1 \in T
  <2>1. /\ k + 1 \in 1 .. N /\ (k + 1) - 1 = k
        /\ m + (k + 1) \in 1 .. N /\ (m + (k + 1)) - 1 = m + k
    BY <1>1
  <2>2. twoTo[k + 1] = 2 * twoTo[k] /\ twoTo[m + (k + 1)] = 2 * twoTo[m + k]
    BY <2>1, Powers
  <2>3. twoTo[k] \in Nat
    BY <1>1, PowersPositive
  <2>4. 2 * (twoTo[m] * twoTo[k]) = twoTo[m] * (2 * twoTo[k])
    BY <1>1, <2>3
  <2> QED
    BY <1>3, <2>2, <2>4
<1>4. 0 .. n \subseteq T
  <2> HIDE DEF T
  <2> QED
    BY <1>2, <1>3, UpTo
<1> QED
  BY <1>4

(* Quotients *)

\* A quotient is the number of whole times the divisor goes in.
LEMMA Quotient ==
  ASSUME NEW x \in Nat, NEW d \in Nat \ {0}
  PROVE  /\ x \div d \in Nat
         /\ (x \div d) * d <= x /\ x < ((x \div d) + 1) * d
         /\ \A q \in Nat : q * d <= x /\ x < (q + 1) * d => q = x \div d
<1>1. x \div d \in Nat /\ (x \div d) * d <= x /\ x < ((x \div d) + 1) * d
  OBVIOUS
<1>2. ASSUME NEW q \in Nat, q * d <= x, x < (q + 1) * d
      PROVE  q = x \div d
  BY <1>2
<1> QED
  BY <1>1, <1>2

\* What is divided by two numbers, one after the other.
LEMMA QuotientOfQuotient ==
  ASSUME NEW x \in Nat, NEW m \in Nat \ {0}, NEW n \in Nat \ {0}
  PROVE  x \div (m * n) = (x \div n) \div m
<1> DEFINE p == x \div n
           q == p \div m
<1>1. p \in Nat /\ p * n <= x /\ x < (p + 1) * n
  BY Quotient
<1>2. q \in Nat /\ q * m <= p /\ p < (q + 1) * m
  BY <1>1, Quotient
<1> HIDE DEF p, q
<1>3. m * n \in Nat \ {0}
  OBVIOUS
<1>4. q * (m * n) <= x
  <2>1. (q * m) * n <= p * n
    BY <1>1, <1>2
  <2> QED
    BY <1>1, <1>2, <2>1
<1>5. x < (q + 1) * (m * n)
  <2>1. p + 1 <= (q + 1) * m
    BY <1>1, <1>2
  <2>2. (p + 1) * n <= ((q + 1) * m) * n
    BY <1>1, <1>2, <2>1
  <2> QED
    BY <1>1, <1>2, <2>2
<1>6. q = x \div (m * n)
  BY <1>2, <1>3, <1>4, <1>5, Quotient
<1> QED
  BY <1>6 DEF p, q

\* A number ahead of a digit is no part of what divides the digit.
DividesOff(x, m, w, y) ==
  /\ y \div w \in 0 .. m - 1
  /\ (x * (m * w) + y) \div w = x * m + y \div w

LEMMA QuotientOfSum ==
  ASSUME NEW x \in Nat, NEW m \in Nat \ {0}, NEW w \in Nat \ {0}, NEW y \in 0 .. m * w - 1
  PROVE  DividesOff(x, m, w, y)
<1> DEFINE q == y \div w
           z == x * (m * w) + y
<1>1. m * w \in Nat /\ y \in Nat
  OBVIOUS
<1>2. q \in Nat /\ q * w <= y /\ y < (q + 1) * w
  BY <1>1, Quotient
<1> HIDE DEF q
<1>3. q < m
  <2>1. SUFFICES ASSUME m <= q
                 PROVE  FALSE
    BY <1>2
  <2>2. m * w <= q * w
    BY <1>2, <2>1
  <2> QED
    BY <1>1, <1>2, <2>2
<1>4. z \in Nat /\ x * m + q \in Nat
  BY <1>1, <1>2
<1>5. (x * m + q) * w = x * (m * w) + q * w
  BY <1>2
<1>6. ((x * m + q) + 1) * w = x * (m * w) + (q + 1) * w
  BY <1>2
<1>7. (x * m + q) * w <= z /\ z < ((x * m + q) + 1) * w
  <2>1. x * (m * w) \in Nat /\ q * w \in Nat /\ (q + 1) * w \in Nat
    BY <1>1, <1>2
  <2> QED
    BY <1>1, <1>2, <1>5, <1>6, <2>1
<1>8. x * m + q = z \div w
  <2> HIDE DEF z
  <2> QED
    BY <1>4, <1>7, Quotient
<1> QED
  BY <1>2, <1>3, <1>8 DEF q, DividesOff

\* A number and the digit after it are told from their sum.
LEMMA DigitsTold ==
  ASSUME NEW x \in Nat, NEW y \in Nat, NEW m \in Nat \ {0}, NEW c \in 0 .. m - 1, NEW d \in 0 .. m - 1
  PROVE  x * m + c = y * m + d <=> x = y /\ c = d
<1>1. x * m \in Nat /\ y * m \in Nat /\ (x + 1) * m = x * m + m /\ (y + 1) * m = y * m + m
  OBVIOUS
<1>2. ASSUME x < y
      PROVE  x * m + c # y * m + d
  <2>1. (x + 1) * m <= y * m
    BY <1>2
  <2> QED
    BY <1>1, <2>1
<1>3. ASSUME y < x
      PROVE  x * m + c # y * m + d
  <2>1. (y + 1) * m <= x * m
    BY <1>3
  <2> QED
    BY <1>1, <2>1
<1>4. CASE x = y
  BY <1>1, <1>4
<1> QED
  BY <1>2, <1>3, <1>4

(* Octets *)

\* The first octets of an address have no more bits than the address.
LEMMA BitsFit ==
  ASSUME NEW i \in 1 .. Octets
  PROVE  /\ Bits * i \in Nat /\ Bits * (i - 1) \in Nat
         /\ Bits * i = Bits * (i - 1) + Bits
         /\ Bits * i <= Bits * Octets /\ Bits <= Bits * Octets
<1>1. /\ Bits \in Nat /\ Bits >= 1 /\ Octets \in Nat
      /\ i \in Nat /\ i - 1 \in Nat /\ Octets - i \in Nat
  BY AddressAssumption
<1>2. /\ Bits * i \in Nat /\ Bits * (i - 1) \in Nat /\ Bits * (Octets - i) \in Nat
      /\ Bits * i = Bits * (i - 1) + Bits
      /\ Bits * Octets = Bits * i + Bits * (Octets - i)
  BY <1>1
<1> QED
  BY <1>1, <1>2

\* An octet is below the base, which is more than nothing.
LEMMA ValuesBounded ==
  /\ Bits \in 0 .. Bits * Octets /\ Base \in Nat \ {0}
  /\ Values = 0 .. Base - 1
<1>1. 1 \in 1 .. Octets
  BY AddressAssumption
<1>2. Bits \in 0 .. Bits * Octets
  BY <1>1, BitsFit, AddressAssumption
<1> QED
  BY <1>2, PowersPositive DEF Base, Values

\* The values listed for an octet are those with its first bits: as many of
\* them as the prefix fixes, none, some or all (wildcard-rules.ts:151-156).
LEMMA OctetListed ==
  ASSUME NEW x \in Values, NEW v \in Values, NEW bits \in 0 .. Bits
  PROVE  v \in octetOf(x, bits)
           <=> v \div twoTo[Bits - bits] = x \div twoTo[Bits - bits]
<1> DEFINE w == twoTo[Bits - bits]
           low == (x \div w) * w
<1>1. Bits \in Nat /\ Bits - bits \in 0 .. Bits * Octets
  BY ValuesBounded, AddressAssumption
<1>2. w \in Nat \ {0} /\ x \in Nat /\ v \in Nat /\ x < Base /\ v < Base
  BY <1>1, PowersPositive, ValuesBounded
<1>3. /\ x \div w \in Nat /\ v \div w \in Nat
      /\ \A q \in Nat : q * w <= v /\ v < (q + 1) * w => q = v \div w
      /\ (v \div w) * w <= v /\ v < (v \div w + 1) * w
      /\ low <= x /\ x < (x \div w + 1) * w
  BY <1>2, Quotient
<1>4. low \in Nat /\ (x \div w + 1) * w = low + w
  BY <1>2, <1>3
<1>5. v \div w = x \div w <=> low <= v /\ v < low + w
  BY <1>3, <1>4
<1>6. CASE bits = 0
  <2>1. w = Base /\ 0 * w = 0 /\ (0 + 1) * w = Base
    BY <1>1, <1>2, <1>6 DEF Base
  <2>2. x \div w = 0 /\ v \div w = 0
    BY <1>2, <2>1, Quotient
  <2> QED
    BY <1>6, <2>2 DEF octetOf
<1>7. CASE bits # 0 /\ bits = Bits
  <2>1. w = 1
    BY <1>1, <1>7, Powers
  <2>2. low <= v /\ v < low + w <=> v = low
    BY <1>2, <1>4, <2>1
  <2> QED
    BY <1>5, <1>7, <2>2 DEF octetOf
<1>8. CASE bits # 0 /\ bits # Bits
  <2>1. v \in octetOf(x, bits) <=> \E n \in 0 .. w - 1 : v = low + n
    BY <1>8 DEF octetOf
  <2>2. low <= v /\ v < low + w <=> \E n \in 0 .. w - 1 : v = low + n
    <3>1. ASSUME low <= v, v < low + w
          PROVE  v - low \in 0 .. w - 1 /\ v = low + (v - low)
      BY <1>2, <1>4, <3>1
    <3>2. ASSUME NEW n \in 0 .. w - 1, v = low + n
          PROVE  low <= v /\ v < low + w
      BY <1>2, <1>4, <3>2
    <3> QED
      BY <3>1, <3>2
  <2> QED
    BY <1>5, <2>1, <2>2
<1> QED
  BY <1>6, <1>7, <1>8

(* Numbers *)

\* What the octets of an address come to.
LEMMA Numbers ==
  ASSUME NEW a \in Addresses
  PROVE  /\ UpToOctet(a) \in [0 .. Octets -> Nat]
         /\ UpToOctet(a)[0] = 0
         /\ \A i \in 1 .. Octets : UpToOctet(a)[i] = UpToOctet(a)[i - 1] * Base + a[i]
<1> DEFINE Built(g) == [i \in 0 .. Octets |-> IF i = 0 THEN 0 ELSE g[i - 1] * Base + a[i]]
           u == UpToOctet(a)
<1>1. /\ Octets \in Nat /\ Base \in Nat
      /\ \A i \in 1 .. Octets : a[i] \in Nat
  BY ValuesBounded, AddressAssumption DEF Addresses
<1>2. PICK f \in [0 .. Octets -> Nat] :
        f[0] = 0 /\ \A i \in 1 .. Octets : f[i] = f[i - 1] * Base + a[i]
  <2> DEFINE first == 0
             step == [i \in 1 .. Octets |-> [v \in Nat |-> v * Base + a[i]]]
             V == Nat
  <2>1. first \in V /\ step \in [1 .. Octets -> [V -> V]]
    BY <1>1
  <2>2. \E f \in [0 .. Octets -> V] : Unrolls(f, Octets, first, step)
    <3> HIDE DEF first, step, V
    <3> QED
      BY <1>1, <2>1, Recursion
  <2>3. PICK f \in [0 .. Octets -> Nat] : Unrolls(f, Octets, first, step)
    BY <2>2
  <2>4. ASSUME NEW i \in 1 .. Octets
        PROVE  f[i] = f[i - 1] * Base + a[i]
    <3>1. f[i] = step[i][f[i - 1]]
      <4> HIDE DEF step
      <4> QED
        BY <2>3 DEF Unrolls
    <3>2. f[i - 1] \in Nat
      BY <1>1
    <3> QED
      BY <3>1, <3>2
  <2>5. f[0] = 0
    BY <2>3 DEF Unrolls
  <2> QED
    BY <2>4, <2>5
<1>3. f = Built(f)
  BY <1>1, <1>2
<1>4. u = Built(u)
  BY <1>3 DEF UpToOctet
<1> HIDE DEF u
<1>5. u[0] = 0 /\ \A i \in 1 .. Octets : u[i] = u[i - 1] * Base + a[i]
  BY <1>1, <1>4
<1>6. u \in [0 .. Octets -> Nat]
  <2> DEFINE T == {k \in 0 .. Octets : u[k] \in Nat}
  <2>1. 0 \in T
    BY <1>1, <1>5
  <2>2. ASSUME NEW k \in 0 .. Octets - 1, k \in T
        PROVE  k + 1 \in T
    <3>1. k + 1 \in 1 .. Octets /\ (k + 1) - 1 = k
      BY <1>1
    <3>2. u[k + 1] = u[k] * Base + a[k + 1]
      BY <1>5, <3>1
    <3>3. u[k] * Base \in Nat /\ a[k + 1] \in Nat
      BY <1>1, <2>2, <3>1
    <3> QED
      BY <1>1, <3>1, <3>2, <3>3
  <2>3. 0 .. Octets \subseteq T
    <3> HIDE DEF T
    <3> QED
      BY <1>1, <2>1, <2>2, UpTo
  <2>4. u = [k \in 0 .. Octets |-> u[k]]
    BY <1>4
  <2> QED
    BY <2>3, <2>4
<1> QED
  BY <1>5, <1>6 DEF u

(* Blocks *)

\* Of the first octets of an address, the bits a prefix leaves free.
FreeBits(prefix, i) == Most(Bits * i - prefix, 0)

\* An octet the prefix has not reached is told by no bit of it; the rest of
\* the number is then compared without it.
LEMMA BeyondThePrefix ==
  ASSUME NEW prefix \in 0 .. Bits * Octets, NEW i \in 1 .. Octets, prefix <= Bits * (i - 1),
         NEW x \in Nat, NEW c \in Values
  PROVE  /\ (x * Base + c) \div twoTo[FreeBits(prefix, i)]
               = x \div twoTo[FreeBits(prefix, i - 1)]
         /\ c \div twoTo[Bits - FixedBits(prefix, i)] = 0
<1> DEFINE free == FreeBits(prefix, i - 1)
           m == twoTo[free]
           z == x * Base + c
<1>1. /\ Bits \in Nat /\ Bits >= 1 /\ Bits * i \in Nat /\ Bits * (i - 1) \in Nat
      /\ Bits * i = Bits * (i - 1) + Bits /\ Bits * i <= Bits * Octets
      /\ Bits * Octets \in Nat
  BY BitsFit, AddressAssumption, Powers
<1>2. free \in Nat /\ FreeBits(prefix, i) = free + Bits /\ free + Bits <= Bits * Octets
  BY <1>1 DEF FreeBits, Most
<1>3. FixedBits(prefix, i) = 0
  BY <1>1 DEF FixedBits, Least, Most
<1>4. m \in Nat \ {0} /\ Base \in Nat \ {0} /\ c \in Nat /\ c < Base
  <2>1. free \in 0 .. Bits * Octets
    BY <1>1, <1>2
  <2> QED
    BY <2>1, PowersPositive, ValuesBounded
<1>5. twoTo[FreeBits(prefix, i)] = m * Base
  BY <1>1, <1>2, PowersMultiply DEF Base
<1> HIDE DEF m, free
<1>6. z \in Nat /\ z \div Base = x
  <2>1. x * Base \in Nat /\ (x + 1) * Base = x * Base + Base
    BY <1>4
  <2>2. z \in Nat /\ x * Base <= z /\ z < (x + 1) * Base
    BY <1>4, <2>1
  <2> HIDE DEF z
  <2> QED
    BY <1>4, <2>2, Quotient
<1>7. z \div (m * Base) = x \div m
  <2> HIDE DEF z
  <2> QED
    BY <1>4, <1>6, QuotientOfQuotient
<1>8. c \div Base = 0
  <2>1. 0 * Base <= c /\ c < (0 + 1) * Base
    BY <1>4
  <2> QED
    BY <1>4, <2>1, Quotient
<1>9. twoTo[Bits - FixedBits(prefix, i)] = Base
  BY <1>1, <1>3 DEF Base
<1> QED
  BY <1>5, <1>7, <1>8, <1>9 DEF m, free

\* An octet the prefix reaches is told by its first bits, and so is the number
\* that ends in it: together with the octets before, which are told whole.
LEMMA WithinThePrefix ==
  ASSUME NEW prefix \in 0 .. Bits * Octets, NEW i \in 1 .. Octets, Bits * (i - 1) < prefix,
         NEW x \in Nat, NEW y \in Nat, NEW c \in Values, NEW d \in Values
  PROVE  (x * Base + c) \div twoTo[FreeBits(prefix, i)]
             = (y * Base + d) \div twoTo[FreeBits(prefix, i)]
           <=> /\ x \div twoTo[FreeBits(prefix, i - 1)] = y \div twoTo[FreeBits(prefix, i - 1)]
               /\ c \div twoTo[Bits - FixedBits(prefix, i)] = d \div twoTo[Bits - FixedBits(prefix, i)]
<1> DEFINE free == FreeBits(prefix, i)
           w == twoTo[free]
           m == twoTo[Bits - free]
<1>1. /\ Bits \in Nat /\ Bits >= 1 /\ Bits * i \in Nat /\ Bits * (i - 1) \in Nat
      /\ Bits * i = Bits * (i - 1) + Bits /\ Bits * i <= Bits * Octets
      /\ Bits * Octets \in Nat /\ Bits <= Bits * Octets
  BY BitsFit, AddressAssumption, Powers
<1>2. FreeBits(prefix, i - 1) = 0
  BY <1>1 DEF FreeBits, Most
<1>3. free \in 0 .. Bits /\ Bits - FixedBits(prefix, i) = free
  BY <1>1 DEF FreeBits, FixedBits, Least, Most
<1> HIDE DEF free
<1>4. w \in Nat \ {0} /\ m \in Nat \ {0} /\ Base = m * w
  <2>1. free \in 0 .. Bits * Octets /\ Bits - free \in 0 .. Bits * Octets
        /\ (Bits - free) + free = Bits
    BY <1>1, <1>3
  <2>2. twoTo[(Bits - free) + free] = twoTo[Bits - free] * twoTo[free]
    BY <1>1, <1>3, <2>1, PowersMultiply
  <2> QED
    BY <2>1, <2>2, PowersPositive DEF Base
<1> HIDE DEF w, m
<1>5. c \in 0 .. m * w - 1 /\ d \in 0 .. m * w - 1
  BY <1>4 DEF Values
<1>6. /\ c \div w \in 0 .. m - 1 /\ (x * Base + c) \div w = x * m + c \div w
      /\ d \div w \in 0 .. m - 1 /\ (y * Base + d) \div w = y * m + d \div w
  <2>1. DividesOff(x, m, w, c)
    BY <1>4, <1>5, QuotientOfSum
  <2>2. DividesOff(y, m, w, d)
    BY <1>4, <1>5, QuotientOfSum
  <2>3. Base = m * w
    BY <1>4
  <2> QED
    BY <2>1, <2>2, <2>3, Zenon DEF DividesOff
<1>7. x * m + c \div w = y * m + d \div w <=> x = y /\ c \div w = d \div w
  BY <1>4, <1>6, DigitsTold
<1>8. twoTo[0] = 1 /\ x \div 1 = x /\ y \div 1 = y
  BY Powers
<1> QED
  BY <1>2, <1>3, <1>6, <1>7, <1>8 DEF w, free

\* Two addresses lie in the same block, as numbers, when octet by octet they
\* have the same bits among those the prefix fixes.
LEMMA SameBlock ==
  ASSUME NEW prefix \in 0 .. Bits * Octets, NEW a \in Addresses, NEW b \in Addresses
  PROVE  Number(a) \div twoTo[Bits * Octets - prefix] = Number(b) \div twoTo[Bits * Octets - prefix]
         <=> \A i \in 1 .. Octets :
               a[i] \div twoTo[Bits - FixedBits(prefix, i)] = b[i] \div twoTo[Bits - FixedBits(prefix, i)]
<1> DEFINE u == UpToOctet(a)
           v == UpToOctet(b)
           Alike(i) == a[i] \div twoTo[Bits - FixedBits(prefix, i)]
                         = b[i] \div twoTo[Bits - FixedBits(prefix, i)]
           Same(k) == u[k] \div twoTo[FreeBits(prefix, k)] = v[k] \div twoTo[FreeBits(prefix, k)]
           T == {k \in 0 .. Octets : Same(k) <=> \A i \in 1 .. k : Alike(i)}
<1>1. Bits \in Nat /\ Octets \in Nat /\ Octets \in 1 .. Octets
  BY AddressAssumption
<1>2. /\ u \in [0 .. Octets -> Nat] /\ v \in [0 .. Octets -> Nat] /\ u[0] = 0 /\ v[0] = 0
      /\ \A i \in 1 .. Octets : u[i] = u[i - 1] * Base + a[i] /\ v[i] = v[i - 1] * Base + b[i]
  BY Numbers
<1> HIDE DEF u, v
<1>3. 0 \in T
  BY <1>1, <1>2
<1>4. ASSUME NEW k \in 0 .. Octets - 1, k \in T
      PROVE  k + 1 \in T
  <2> DEFINE j == k + 1
  <2>1. j \in 1 .. Octets /\ j - 1 = k /\ u[k] \in Nat /\ v[k] \in Nat
    BY <1>1, <1>2
  <2>2. a[j] \in Values /\ b[j] \in Values
    BY <2>1 DEF Addresses
  <2>3. u[j] = u[k] * Base + a[j] /\ v[j] = v[k] * Base + b[j]
    BY <1>2, <2>1
  <2>4. Same(j) <=> Same(k) /\ Alike(j)
    <3> HIDE DEF j
    <3>1. CASE prefix <= Bits * (j - 1)
      <4>1. /\ u[j] \div twoTo[FreeBits(prefix, j)] = u[k] \div twoTo[FreeBits(prefix, k)]
            /\ a[j] \div twoTo[Bits - FixedBits(prefix, j)] = 0
        BY <2>1, <2>2, <2>3, <3>1, BeyondThePrefix
      <4>2. /\ v[j] \div twoTo[FreeBits(prefix, j)] = v[k] \div twoTo[FreeBits(prefix, k)]
            /\ b[j] \div twoTo[Bits - FixedBits(prefix, j)] = 0
        BY <2>1, <2>2, <2>3, <3>1, BeyondThePrefix
      <4> QED
        BY <4>1, <4>2
    <3>2. CASE Bits * (j - 1) < prefix
      BY <2>1, <2>2, <2>3, <3>2, WithinThePrefix
    <3>3. prefix \in Nat /\ Bits * (j - 1) \in Nat
      BY <1>1, <2>1, Powers
    <3> QED
      BY <3>1, <3>2, <3>3
  <2>5. (\A i \in 1 .. j : Alike(i)) <=> (\A i \in 1 .. k : Alike(i)) /\ Alike(j)
    <3> HIDE DEF Alike
    <3>1. 1 .. j = (1 .. k) \cup {j}
      BY <2>1
    <3> QED
      BY <3>1
  <2> HIDE DEF Same, Alike
  <2> QED
    BY <1>1, <1>4, <2>1, <2>4, <2>5
<1>5. 0 .. Octets \subseteq T
  <2> HIDE DEF T
  <2> QED
    BY <1>1, <1>3, <1>4, UpTo
<1>6. Same(Octets) <=> \A i \in 1 .. Octets : Alike(i)
  <2> HIDE DEF Same, Alike
  <2> QED
    BY <1>1, <1>5
<1>7. FreeBits(prefix, Octets) = Bits * Octets - prefix
  BY <1>1, Powers DEF FreeBits, Most
<1> QED
  BY <1>6, <1>7 DEF Number, u, v

\* A block covers the same addresses as numbers and as text.
LEMMA BlocksAgree ==
  ASSUME NEW r \in [address : Addresses, prefix : 0 .. Bits * Octets], NEW a \in Addresses
  PROVE  InspectCovers(r, a) = UniversalCovers(r, a)
<1>1. /\ r.address \in Addresses /\ r.prefix \in 0 .. Bits * Octets
      /\ "prefix" \in DOMAIN r
  OBVIOUS
<1>2. Covers(r, a)
        <=> \A i \in 1 .. Octets :
              a[i] \div twoTo[Bits - FixedBits(r.prefix, i)]
                = r.address[i] \div twoTo[Bits - FixedBits(r.prefix, i)]
  BY <1>1, SameBlock DEF Covers
<1>3. ASSUME NEW i \in 1 .. Octets
      PROVE  a[i] \in cidrToRegex(r)[i]
               <=> a[i] \div twoTo[Bits - FixedBits(r.prefix, i)]
                     = r.address[i] \div twoTo[Bits - FixedBits(r.prefix, i)]
  <2>1. a[i] \in Values /\ r.address[i] \in Values
    BY <1>1 DEF Addresses
  <2>2. FixedBits(r.prefix, i) \in 0 .. Bits
    <3>1. Bits \in Nat /\ r.prefix \in Nat /\ Bits * (i - 1) \in Nat
      BY <1>1, BitsFit, AddressAssumption, Powers
    <3> QED
      BY <3>1 DEF FixedBits, Least, Most
  <2>3. cidrToRegex(r)[i] = octetOf(r.address[i], FixedBits(r.prefix, i))
    BY DEF cidrToRegex
  <2> QED
    BY <2>1, <2>2, <2>3, OctetListed
<1>4. Covers(r, a) <=> \A i \in 1 .. Octets : a[i] \in cidrToRegex(r)[i]
  BY <1>2, <1>3
<1>5. Covers(r, a) \in BOOLEAN
  BY DEF Covers
<1> QED
  BY <1>1, <1>4, <1>5 DEF InspectCovers, UniversalCovers

(* Patterns *)

\* A pattern without wildcards matches, as text, the address it spells out.
LEMMA PlainText ==
  ASSUME NEW p \in UNION {[1 .. n -> Pieces] : n \in 1 .. Octets}, isIpRuleAddress(p),
         ~HasWildcard(p), NEW a \in Addresses
  PROVE  p = a <=> TextMatches(p, a)
<1>1. Octets \in Nat /\ Star \notin Values /\ One \notin Values /\ Across \notin Values
  BY ValuesBounded, AddressAssumption DEF Star, One, Across
<1>2. p \in [1 .. Octets -> Values] /\ Len(p) = Octets
  <2>1. PICK n \in 1 .. Octets : p \in [1 .. n -> Pieces]
    OBVIOUS
  <2>2. Len(p) = n /\ DOMAIN p = 1 .. n
    BY <1>1, <2>1
  <2>3. \A i \in 1 .. n : p[i] \in Values
    BY <2>2 DEF isIpRuleAddress, HasWildcard
  <2>4. Across \in Wild
    BY DEF Wild
  <2>5. n = Octets
    BY <2>2, <2>4 DEF isIpRuleAddress, HasWildcard
  <2> QED
    BY <2>1, <2>2, <2>3, <2>5
<1>3. a \in [1 .. Octets -> Values]
  BY DEF Addresses
<1>4. ASSUME NEW piece \in Values, NEW octet
      PROVE  piece # Across /\ (OctetMatches(piece, octet) <=> octet = piece)
  BY <1>1, <1>4 DEF OctetMatches
<1>5. ASSUME p = a
      PROVE  TextMatches(p, a)
  <2> DEFINE cut == [i \in 0 .. Octets |-> i]
  <2>1. cut \in [0 .. Len(p) -> 0 .. Octets] /\ cut[0] = 0 /\ cut[Len(p)] = Octets
    BY <1>1, <1>2
  <2>2. ASSUME NEW i \in 1 .. Len(p)
        PROVE  p[i] # Across /\ cut[i] = cut[i - 1] + 1 /\ OctetMatches(p[i], a[cut[i]])
    BY <1>1, <1>2, <1>4, <1>5
  <2> HIDE DEF cut
  <2> QED
    BY <2>1, <2>2 DEF TextMatches
<1>6. ASSUME TextMatches(p, a)
      PROVE  p = a
  <2>1. PICK cut \in [0 .. Len(p) -> 0 .. Octets] :
          /\ cut[0] = 0
          /\ \A i \in 1 .. Len(p) :
               IF p[i] = Across THEN cut[i - 1] < cut[i]
               ELSE cut[i] = cut[i - 1] + 1 /\ OctetMatches(p[i], a[cut[i]])
    BY <1>6 DEF TextMatches
  <2>2. ASSUME NEW i \in 1 .. Octets
        PROVE  cut[i] = cut[i - 1] + 1 /\ a[cut[i]] = p[i]
    <3>1. p[i] \in Values
      BY <1>2
    <3> QED
      BY <1>2, <1>4, <2>1, <3>1
  <2> DEFINE T == {k \in 0 .. Octets : cut[k] = k}
  <2>3. 0 \in T
    BY <1>1, <2>1
  <2>4. ASSUME NEW k \in 0 .. Octets - 1, k \in T
        PROVE  k + 1 \in T
    <3>1. k + 1 \in 1 .. Octets /\ (k + 1) - 1 = k
      BY <1>1
    <3> QED
      BY <1>1, <2>2, <2>4, <3>1
  <2>5. 0 .. Octets \subseteq T
    <3> HIDE DEF T
    <3> QED
      BY <1>1, <2>3, <2>4, UpTo
  <2>6. \A i \in 1 .. Octets : a[i] = p[i]
    BY <1>1, <2>2, <2>5
  <2> QED
    BY <1>2, <1>3, <2>6
<1> QED
  BY <1>5, <1>6

(* The theorem *)

\* A rule stays what it was: an address is chosen whole.
LEMMA AddressStays == Init /\ [][Write]_vars => [](field = "address" => rule \in IpRules)
<1> DEFINE Inv == field = "address" => rule \in IpRules
<1>1. Init => Inv
  BY AddressesAreRules DEF Init
<1>2. Inv /\ [Write]_vars => Inv'
  BY DEF Write, vars
<1> QED
  BY <1>1, <1>2, PTL

\* An IP rule covers the same addresses in both engines, for octets of any
\* width and any number of them: HAProxy's numeric comparison and the text the
\* other engine matches agree wherever the prefix cuts
\* (wildcard-rules.ts:140-163, haproxy-rules.ts:259-308).
THEOREM AddressesCoverTheSame == Init /\ [][Write]_vars => []EnginesCoverTheSame
<1>1. (field = "address" => rule \in IpRules) => EnginesCoverTheSame
  <2> SUFFICES ASSUME field = "address", rule \in IpRules,
                      IsBlock \/ isIpRuleAddress(rule.pattern), NEW a \in Addresses
               PROVE  InspectCovers(rule, a) = UniversalCovers(rule, a)
    BY DEF EnginesCoverTheSame
  <2>1. CASE rule \in [address : Addresses, prefix : 0 .. Bits * Octets]
    BY <2>1, BlocksAgree
  <2>2. CASE rule \in [pattern : UNION {[1 .. n -> Pieces] : n \in 1 .. Octets}]
    <3>1. /\ rule.pattern \in UNION {[1 .. n -> Pieces] : n \in 1 .. Octets}
          /\ "prefix" \notin DOMAIN rule
      BY <2>2
    <3>2. isIpRuleAddress(rule.pattern)
      BY <3>1 DEF IsBlock
    <3>3. CASE HasWildcard(rule.pattern)
      BY <3>1, <3>3 DEF InspectCovers, UniversalCovers
    <3>4. CASE ~HasWildcard(rule.pattern)
      <4>1. rule.pattern = a <=> TextMatches(rule.pattern, a)
        BY <3>1, <3>2, <3>4, PlainText
      <4>2. TextMatches(rule.pattern, a) \in BOOLEAN
        BY DEF TextMatches
      <4> QED
        BY <3>1, <3>4, <4>1, <4>2 DEF InspectCovers, UniversalCovers
    <3> QED
      BY <3>3, <3>4
  <2> QED
    BY <2>1, <2>2 DEF IpRules
<1> QED
  BY <1>1, AddressStays, PTL
=============================================================================
