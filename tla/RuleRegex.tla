----------------------------- MODULE RuleRegex -----------------------------
(***************************************************************************)
(* `~` rules: an expression the author wrote, read three times.  Setup     *)
(* reads it as JavaScript does, to check it and to cut it at its port; the *)
(* proxy compiles the anchored whole with PCRE2, the resolver the half     *)
(* before the port with RE2.  An expression is a sequence of tokens, an    *)
(* escape being one of them, so that the walk over characters that steps   *)
(* over a backslash's own is a walk over tokens.                           *)
(***************************************************************************)
EXTENDS Integers, Sequences, FiniteSets

CONSTANT Character   \* what text is made of

Openings == {"(", "(?:"}
ClassOpenings == {"[", "[^"}
Quantifiers == {"?", "*", "+"}
Assertions == {"^", "$"}

From(s, i) == SubSeq(s, i, Len(s))
Upto(s, i) == SubSeq(s, 1, i - 1)
EndsWith(s, t) == s # <<>> /\ s[Len(s)] = t
StartsWith(s, t) == s # <<>> /\ s[1] = t

-----------------------------------------------------------------------------
(* How an engine reads an expression.  JavaScript ends a class at its first *)
(* `]`; PCRE2 and RE2 take one right after the opening as a member.  `\Q`   *)
(* quotes up to `\E` for these two, and is a `Q` to JavaScript.             *)

\* Where the i-th token of r stands, after one that stands here; a class begins
\* with the token that stands first in it.
Standing(r, reader, i, here) ==
  LET t == r[i - 1] IN
  CASE here = "first" -> IF t = "]" /\ reader = "JavaScript" THEN "out" ELSE "in"
    [] here = "in" -> IF t = "]" THEN "out" ELSE "in"
    [] here = "quoted" -> IF t = "\\E" THEN "out" ELSE "quoted"
    [] here = "out" /\ t \in ClassOpenings -> "first"
    [] here = "out" /\ t = "\\Q" /\ reader # "JavaScript" -> "quoted"
    [] OTHER -> "out"

\* Where each token stands, and what follows: outside every class, inside one,
\* or quoted.
Reading(r, reader) ==
  LET place[i \in 1 .. Len(r) + 1] ==
        IF i = 1 THEN "out" ELSE Standing(r, reader, i, place[i - 1])
  IN place

Opened(r, place, i) == Cardinality({j \in 1 .. i - 1 : place[j] = "out" /\ r[j] \in Openings})
Closed(r, place, i) == Cardinality({j \in 1 .. i - 1 : place[j] = "out" /\ r[j] = ")"})
Depth(r, place, i) == Opened(r, place, i) - Closed(r, place, i)

\* May r be the start of an expression that compiles?
Begins(r, reader) ==
  LET place == Reading(r, reader) IN
  \A i \in 1 .. Len(r) :
    place[i] = "out" =>
      /\ r[i] = ")" => Opened(r, place, i) > Closed(r, place, i)
      /\ r[i] \in Quantifiers =>
           i > 1 /\ r[i - 1] \notin Openings \cup Quantifiers \cup Assertions \cup {"|"}

Compiles(r, reader) ==
  LET place == Reading(r, reader) IN
  /\ Begins(r, reader)
  /\ place[Len(r) + 1] \notin {"first", "in"}
  /\ Depth(r, place, Len(r) + 1) = 0

\* An escape stands for its own character.
Meta == {".", "$", "|", "(", ")", "[", "]", "{", "}", "^", "+", "\\"}
Escape(c) ==
  CASE c = "." -> "\\." [] c = "$" -> "\\$" [] c = "|" -> "\\|" [] c = "(" -> "\\(" [] c = ")" -> "\\)"
    [] c = "[" -> "\\[" [] c = "]" -> "\\]" [] c = "{" -> "\\{" [] c = "}" -> "\\}"
    [] c = "^" -> "\\^" [] c = "+" -> "\\+" [] c = "\\" -> "\\\\" [] OTHER -> c
Chars(t) ==
  IF t = "\\/" THEN "/"
  ELSE IF \E c \in Meta : Escape(c) = t THEN CHOOSE c \in Meta : Escape(c) = t ELSE t
Digits == {"0", "4", "8"}

\* The tokens of several characters.
Compound == {Escape(c) : c \in Meta} \cup {"\\/", "\\d", "\\Q", "\\E", "(?:", "[^"}
Token == Character \cup Compound

ASSUME CharacterAssumption ==
  /\ Meta \cup Quantifiers \cup Digits \cup {"/", ":", "a"} \subseteq Character
  /\ Character \cap Compound = {}

\* The tokens of the class that opens r, up to its end.
ClassEnd(r) ==
  LET place == Reading(r, "PCRE2") IN
  CHOOSE i \in 2 .. Len(r) : place[i + 1] = "out" /\ \A j \in 2 .. i : place[j] # "out"
GroupEnd(r) ==
  LET place == Reading(r, "PCRE2") IN
  CHOOSE i \in 2 .. Len(r) :
    /\ place[i] = "out" /\ r[i] = ")" /\ Depth(r, place, i) = 1
    /\ \A j \in 2 .. i - 1 : ~(place[j] = "out" /\ r[j] = ")" /\ Depth(r, place, j) = 1)

AtomEnd(r) ==
  CASE r[1] \in ClassOpenings -> ClassEnd(r) [] r[1] \in Openings -> GroupEnd(r) [] OTHER -> 1

Quoted(t, s, I) ==
  {i + Len(t) : i \in {j \in I : j + Len(t) <= Len(s) + 1 /\ SubSeq(s, j, j + Len(t) - 1) = t}}

\* Where an atom leaves s at, from one of the positions I.  shorter matches the
\* expressions of fewer tokens, a group's among them.
Once(shorter, atom, s, I) ==
  CASE atom[1] \in Openings -> shorter[SubSeq(atom, 2, Len(atom) - 1)][I]
    [] atom[1] \in ClassOpenings ->
         LET members == {Chars(atom[k]) : k \in 2 .. Len(atom) - 1} IN
         {i + 1 : i \in {j \in I : j <= Len(s) /\ (s[j] \in members) = (atom[1] = "[")}}
    [] atom[1] = "^" -> I \cap {1}
    [] atom[1] = "$" -> I \cap {Len(s) + 1}
    [] atom[1] = "." -> {i + 1 : i \in {j \in I : j <= Len(s)}}
    [] atom[1] = "\\d" -> {i + 1 : i \in {j \in I : j <= Len(s) /\ s[j] \in Digits}}
    [] OTHER -> {i + 1 : i \in {j \in I : j <= Len(s) /\ s[j] = Chars(atom[1])}}

\* As often as it may: a round that consumes nothing adds nothing.
Rounds(shorter, atom, s, I) ==
  LET after[k \in 0 .. Len(s) + 1] ==
        IF k = 0 THEN I
        ELSE LET J == after[k - 1] IN J \cup Once(shorter, atom, s, J)
  IN after
Repeat(shorter, atom, s, I) == Rounds(shorter, atom, s, I)[Len(s) + 1]

\* Which quantifier follows an atom, and what it makes of it.
MarkAt(r, i) == IF i <= Len(r) /\ r[i] \in Quantifiers THEN r[i] ELSE "once"
AsMarked(shorter, atom, mark, s, I) ==
  CASE mark = "once" -> Once(shorter, atom, s, I)
    [] mark = "?" -> I \cup Once(shorter, atom, s, I)
    [] mark = "*" -> Repeat(shorter, atom, s, I)
    [] OTHER -> Repeat(shorter, atom, s, Once(shorter, atom, s, I))

\* The bars between the alternatives of r.
Bars(r, place) ==
  {i \in 1 .. Len(r) : place[i] = "out" /\ r[i] = "|" /\ Depth(r, place, i) = 0}

\* Where an expression leaves s at, from one of the positions I: an alternative
\* of it, or after its first atom as often as its quantifier says, the rest.
Either(shorter, r, s, I, b) == shorter[Upto(r, b)][I] \cup shorter[From(r, b + 1)][I]
AfterQuoted(shorter, r, s, I, e) == shorter[From(r, e + 1)][Quoted(SubSeq(r, 2, e - 1), s, I)]
AfterAtom(shorter, r, s, I, last, mark) ==
  shorter[From(r, IF mark = "once" THEN last + 1 ELSE last + 2)]
         [AsMarked(shorter, SubSeq(r, 1, last), mark, s, I)]
AfterFirst(shorter, r, s, I, last) == AfterAtom(shorter, r, s, I, last, MarkAt(r, last + 1))

Match(shorter, r, s, I) ==
  LET place == Reading(r, "PCRE2")
      bars == Bars(r, place)
  IN IF r = <<>> THEN I
     ELSE IF bars # {} THEN Either(shorter, r, s, I, CHOOSE i \in bars : \A j \in bars : i <= j)
     ELSE IF r[1] = "\\Q"
       THEN AfterQuoted(shorter, r, s, I,
                        CHOOSE i \in 2 .. Len(r) + 1 :
                          /\ i = Len(r) + 1 \/ place[i + 1] = "out"
                          /\ \A j \in 2 .. i - 1 : place[j + 1] = "quoted")
     ELSE AfterFirst(shorter, r, s, I, AtomEnd(r))

\* The same by length: [r |-> [I |-> the positions]].
Matcher(shorter, s) == [r \in Seq(Token) |-> [I \in SUBSET Nat |-> Match(shorter, r, s, I)]]

Matchers(longest, s) ==
  LET matcher[n \in 0 .. longest] == Matcher(IF n = 0 THEN <<>> ELSE matcher[n - 1], s)
  IN matcher
Ends(r, s, I) == Matchers(Len(r), s)[Len(r)][r][I]

\* A search, as `-m reg` and `matches` do it; and a match of the whole text.
Finds(r, s) == Ends(r, s, 1 .. Len(s) + 1) # {}
Spans(r, s) == Len(s) + 1 \in Ends(r, s, {1})

-----------------------------------------------------------------------------
(* partial-wildcard.ts *)

hasTopLevelAlternation(r) == Bars(r, Reading(r, "JavaScript")) # {}

\* A class JavaScript ends where PCRE2 and RE2 read a literal.
checkClasses(r) ==
  LET place == Reading(r, "JavaScript") IN
  \A i \in 1 .. Len(r) - 1 :
    ~(place[i] = "out" /\ r[i] \in ClassOpenings /\ r[i + 1] = "]")

\* Escapes PCRE2 reads as something other than one character.
checkEscapes(r) == \A i \in 1 .. Len(r) : r[i] \notin {"\\Q", "\\E"}

\* Mutation: what setup and the proxy read apart is let through.
checkRawRegexHalfBare(r, hostHalf) == ~hasTopLevelAlternation(r)

\* The `hostHalf` checks: a bracket no name can hold, and text the Corefile
\* cannot quote.
checkRawRegexHalf(r, hostHalf) ==
  /\ checkClasses(r) /\ checkEscapes(r)
  /\ ~hasTopLevelAlternation(r)
  /\ hostHalf => \A i \in 1 .. Len(r) : r[i] \notin {"\\[", "\\]", "'"}

endsAnchored(r) == EndsWith(r, "$")

\* Mutation: the author is trusted to have written the `^`.
anchorRawRegexAtEnd(r) == r \o (IF endsAnchored(r) THEN <<>> ELSE <<"$">>)

anchorRawRegex(r) ==
  (IF StartsWith(r, "^") THEN <<>> ELSE <<"^">>) \o r \o (IF endsAnchored(r) THEN <<>> ELSE <<"$">>)

\* A bare colon, or the group that opens right at one; 0 where there is none.
portPatternStart(r) ==
  LET place == Reading(r, "JavaScript")
      starts == {i \in 1 .. Len(r) :
                   /\ place[i] = "out"
                   /\ r[i] = ":" \/ (r[i] = "(" /\ i < Len(r) /\ r[i + 1] = ":")}
  IN IF starts = {} THEN 0 ELSE CHOOSE i \in starts : \A j \in starts : i <= j

splitDomainFromPortPattern(r) ==
  LET start == portPatternStart(r) IN
  IF start = 0 THEN [domain |-> r, port |-> <<>>]
               ELSE [domain |-> Upto(r, start), port |-> From(r, start)]

WithoutCaret(r) == IF StartsWith(r, "^") THEN Tail(r) ELSE r

\* What the resolver matches of a `~` host rule.
HostHalf(r) == WithoutCaret(splitDomainFromPortPattern(r).domain)

\* splitRawRegexHost: is the rule taken at all?
Accepted(r) ==
  /\ Compiles(r, "JavaScript")
  /\ checkRawRegexHalf(r, FALSE)
  /\ portPatternStart(r) # 0
  /\ checkRawRegexHalf(HostHalf(r), TRUE)
  /\ Compiles(HostHalf(r), "JavaScript")

-----------------------------------------------------------------------------
(* haproxy-matchers.ts: the cheapest match that accepts what the expression *)
(* does.                                                                    *)

Literal == {"a", "A", "b", "-", "_", "0", "4", "8", ":", "/", "~", "%", "@", "\\."}
LITERAL_BODY(r) == \A i \in 1 .. Len(r) : r[i] \in Literal
Lower(c) == IF c = "A" THEN "a" ELSE c
Unescaped(r) == [i \in 1 .. Len(r) |-> Chars(r[i])]
Lowered(s) == [i \in 1 .. Len(s) |-> Lower(s[i])]

\* Mutation: the pattern keeps the case it was written in.
hostMatcherCased(r) ==
  LET body == SubSeq(r, 2, Len(r) - 1) IN
  IF Len(r) > 2 /\ StartsWith(r, "^") /\ EndsWith(r, "$") /\ LITERAL_BODY(body)
    THEN [op |-> "str", pattern |-> Unescaped(body)]
    ELSE [op |-> "reg", pattern |-> r]

hostMatcher(r) ==
  LET body == SubSeq(r, 2, Len(r) - 1) IN
  IF Len(r) > 2 /\ StartsWith(r, "^") /\ EndsWith(r, "$") /\ LITERAL_BODY(body)
    THEN [op |-> "str", pattern |-> Lowered(Unescaped(body))]
    ELSE [op |-> "reg", pattern |-> r]

pathMatcher(r) ==
  LET exact == EndsWith(r, "$")
      inner == IF exact THEN SubSeq(r, 2, Len(r) - 1) ELSE Tail(r)
      any == exact /\ Len(inner) >= 2 /\ SubSeq(inner, Len(inner) - 1, Len(inner)) = <<".", "*">>
      body == IF any THEN Upto(inner, Len(inner) - 1) ELSE inner
  IN IF ~StartsWith(body, "/") \/ ~LITERAL_BODY(body) THEN [op |-> "reg", pattern |-> r]
     ELSE [op |-> IF exact /\ ~any THEN "str" ELSE "beg", pattern |-> Unescaped(body)]

\* How HAProxy matches: `-i` on a host, which arrives in lower case.
Matches(m, s, anyCase) ==
  CASE m.op = "str" -> s = m.pattern
    [] m.op = "beg" -> Len(m.pattern) <= Len(s) /\ SubSeq(s, 1, Len(m.pattern)) = m.pattern
    [] OTHER -> Finds(IF anyCase THEN Lowered(m.pattern) ELSE m.pattern, s)
=============================================================================
