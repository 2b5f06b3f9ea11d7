---------------------------- MODULE RuleWildcard ----------------------------
(***************************************************************************)
(* The wildcards of a rule, `**`, `*` and `?`, which mean the same in a    *)
(* domain between dots and in a path between slashes, but that a path's    *)
(* `**` may stand for nothing.                                             *)
(***************************************************************************)
EXTENDS RuleRegex

DOMAIN_WORDS == [across |-> <<".", "+">>, within |-> <<"[^", ".", "]", "+">>, single |-> <<"[^", ".", "]">>]
PATH_WORDS == [across |-> <<".", "*">>, within |-> <<"[^", "/", "]", "+">>, single |-> <<"[^", "/", "]">>]

\* Does `**` stand at i?
Stars(atom, i) == i < Len(atom) /\ atom[i] = "*" /\ atom[i + 1] = "*"

Piece(c, words) ==
  CASE c = "*" -> words.within [] c = "?" -> words.single [] OTHER -> <<Escape(c)>>

\* Mutation: one star at a time.
atomToRegexByStar(atom, words) ==
  LET compiled[n \in 0 .. Len(atom)] ==
        IF n = 0 THEN <<>> ELSE Piece(atom[Len(atom) - n + 1], words) \o compiled[n - 1]
  IN compiled[Len(atom)]

\* The separators stand for themselves, so that one walk compiles the whole:
\* here, its last n characters.
Suffixes(atom, words) ==
  LET compiled[n \in 0 .. Len(atom)] ==
        LET i == Len(atom) - n + 1 IN
        IF n = 0 THEN <<>>
        ELSE IF Stars(atom, i) THEN words.across \o compiled[n - 2]
        ELSE Piece(atom[i], words) \o compiled[n - 1]
  IN compiled
atomToRegex(atom, words) == Suffixes(atom, words)[Len(atom)]

\* The labels of a domain, which dots separate: those of its last n characters.
LabelsOf(d) ==
  LET labels[n \in 0 .. Len(d)] ==
        IF n = 0 THEN << <<>> >>
        ELSE LET c == d[Len(d) - n + 1]
                 rest == labels[n - 1]
             IN IF c = "." THEN << <<>> >> \o rest
                ELSE << <<c>> \o rest[1] >> \o Tail(rest)
  IN labels
Labels(d) == LabelsOf(d)[Len(d)]

HostChar == {"a", "A", "b", "-", "_", "0", "4", "8", "*", "?"}
checkHostLabel(label) == label # <<>> /\ \A i \in 1 .. Len(label) : label[i] \in HostChar

\* domainToRegexPartial: what `inspect` and the resolver match.
PartialAccepts(d) == \A i \in 1 .. Len(Labels(d)) : checkHostLabel(Labels(d)[i])
domainToRegexPartial(d) == atomToRegex(d, DOMAIN_WORDS)

\* Mutation: zero is a port as any other.
checkPortWithZeros(p) == p = <<"*">> \/ (p # <<>> /\ \A i \in 1 .. Len(p) : p[i] \in Digits)

\* A decimal without a leading zero, of the ports' range; here of two digits.
checkPort(p) ==
  \/ p = <<"*">>
  \/ /\ p # <<>> /\ p[1] # "0" /\ Len(p) <= 2
     /\ \A i \in 1 .. Len(p) : p[i] \in Digits

-----------------------------------------------------------------------------
\* What the wildcards mean, piece by piece: where in s the last n characters of
\* the pattern may begin, if what they stand for is to end at one of some places.
Within(s, j, k, separator) == \A x \in j .. k - 1 : s[x] # separator
StandsFor(pattern, i, s, j, k, separator) ==
  IF Stars(pattern, i) THEN k > j \/ separator = "/"
  ELSE CASE pattern[i] = "*" -> k > j /\ Within(s, j, k, separator)
         [] pattern[i] = "?" -> k = j + 1 /\ Within(s, j, k, separator)
         [] OTHER -> k = j + 1 /\ s[j] = pattern[i]
Starts(pattern, s, separator, last) ==
  LET begins[n \in 0 .. Len(pattern)] ==
        LET i == Len(pattern) - n + 1
            rest == begins[IF Stars(pattern, i) THEN n - 2 ELSE n - 1]
        IN IF n = 0 THEN last
           ELSE {j \in 1 .. Len(s) + 1 : \E k \in j .. Len(s) + 1 :
                   k \in rest /\ StandsFor(pattern, i, s, j, k, separator)}
  IN begins
Means(pattern, s, separator) ==
  1 \in Starts(pattern, s, separator, {Len(s) + 1})[Len(pattern)]
=============================================================================
