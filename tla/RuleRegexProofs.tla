-------------------------- MODULE RuleRegexProofs --------------------------
(***************************************************************************)
(* What the compiled wildcards match, for patterns and texts of any length *)
(* over any characters.  An expression is matched piece by piece against   *)
(* the suffixes of a text, and so is a pattern; the two proceed together.  *)
(***************************************************************************)
EXTENDS RuleWildcard, FiniteSetTheorems, SequenceTheorems, WellFoundedInduction, TLAPS

-----------------------------------------------------------------------------
(* Induction and recursion up to a bound *)

LEMMA LeastOne ==
  ASSUME NEW S \in SUBSET Nat, S # {}
  PROVE  \E x \in S : \A y \in S : x <= y
<1>1. PICK x \in S : \A y \in S : ~ (<<y, x>> \in OpToRel(<, Nat))
  BY NatLessThanWellFounded, WFMin
<1>2. \A y \in S : ~ (y < x)
  BY <1>1 DEF OpToRel
<1>3. \A y \in S : x <= y
  BY <1>2
<1> QED
  BY <1>3

LEMMA GreatestOne ==
  ASSUME NEW N \in Nat, NEW S \in SUBSET (1 .. N), S # {}
  PROVE  \E x \in S : \A y \in S : x >= y
<1> DEFINE Mirrored == {N - y : y \in S}
<1>1. Mirrored \in SUBSET Nat /\ Mirrored # {}
  <2>1. \A y \in S : N - y \in Nat
    OBVIOUS
  <2>2. Mirrored \subseteq Nat
    BY <2>1
  <2>3. PICK y \in S : TRUE
    OBVIOUS
  <2>4. N - y \in Mirrored
    OBVIOUS
  <2> QED
    BY <2>2, <2>4
<1> HIDE DEF Mirrored
<1>2. PICK z \in Mirrored : \A y \in Mirrored : z <= y
  BY <1>1, LeastOne
<1>3. PICK x \in S : z = N - x
  BY <1>2 DEF Mirrored
<1>4. ASSUME NEW y \in S
      PROVE  x >= y
  <2>1. N - y \in Mirrored
    BY DEF Mirrored
  <2>2. N - x <= N - y
    BY <1>2, <1>3, <2>1
  <2>3. x \in 1 .. N /\ y \in 1 .. N
    OBVIOUS
  <2> QED
    BY <2>2, <2>3
<1> QED
  BY <1>4

\* What holds of zero, and of each number's successor, holds up to the bound.
LEMMA UpTo ==
  ASSUME NEW N \in Nat, NEW T, 0 \in T,
         \A k \in 0 .. N - 1 : k \in T => k + 1 \in T
  PROVE  0 .. N \subseteq T
<1> DEFINE Rest == (0 .. N) \ T
<1>1. CASE Rest = {}
  BY <1>1
<1>2. CASE Rest # {}
  <2>1. Rest \in SUBSET Nat
    OBVIOUS
  <2>2. PICK x \in Rest : \A y \in Rest : x <= y
    <3> HIDE DEF Rest
    <3> QED
      BY <1>2, <2>1, LeastOne
  <2>4. x # 0 /\ x - 1 \in 0 .. N - 1 /\ x - 1 < x
    OBVIOUS
  <2>5. x - 1 \in T
    BY <2>2, <2>4
  <2>6. (x - 1) + 1 \in T
    BY <2>4, <2>5
  <2> QED
    BY <2>6
<1> QED
  BY <1>1, <1>2

\* A function given by its first value and a step.
Unrolls(f, k, first, step) == f[0] = first /\ \A i \in 1 .. k : f[i] = step[i][f[i - 1]]

\* There is one.
LEMMA Recursion ==
  ASSUME NEW N \in Nat, NEW V, NEW first \in V, NEW step \in [1 .. N -> [V -> V]]
  PROVE  \E f \in [0 .. N -> V] : Unrolls(f, N, first, step)
<1> DEFINE Built(k, f) == Unrolls(f, k, first, step)
           T == {k \in 0 .. N : \E f \in [0 .. k -> V] : Built(k, f)}
<1>1. 0 \in T
  <2>1. [i \in 0 .. 0 |-> first] \in [0 .. 0 -> V] /\ Built(0, [i \in 0 .. 0 |-> first])
    BY DEF Unrolls
  <2>2. \E f \in [0 .. 0 -> V] : Built(0, f)
    <3> HIDE DEF Built
    <3> QED
      BY <2>1
  <2> QED
    BY <2>2
<1>2. ASSUME NEW k \in 0 .. N - 1, k \in T
      PROVE  k + 1 \in T
  <2>1. PICK f \in [0 .. k -> V] : Built(k, f)
    BY <1>2
  <2> DEFINE g == [i \in 0 .. k + 1 |-> IF i = k + 1 THEN step[k + 1][f[k]] ELSE f[i]]
  <2>2. g \in [0 .. k + 1 -> V]
    <3>1. f[k] \in V /\ k + 1 \in 1 .. N
      BY <2>1
    <3>2. step[k + 1][f[k]] \in V
      BY <3>1
    <3> QED
      BY <3>2, <2>1
  <2>3. g[0] = first
    BY <2>1 DEF Unrolls
  <2>4. ASSUME NEW i \in 1 .. k + 1
        PROVE  g[i] = step[i][g[i - 1]]
    <3>1. CASE i = k + 1
      BY <3>1
    <3>2. CASE i # k + 1
      BY <2>1, <3>2 DEF Unrolls
    <3> QED
      BY <3>1, <3>2
  <2>5. Built(k + 1, g)
    BY <2>3, <2>4 DEF Unrolls
  <2>6. \E h \in [0 .. k + 1 -> V] : Built(k + 1, h)
    <3> HIDE DEF g, Built
    <3> QED
      BY <2>2, <2>5
  <2> QED
    BY <2>6
<1>3. 0 .. N \subseteq T
  <2> HIDE DEF T
  <2> QED
    BY <1>1, <1>2, UpTo
<1>4. N \in T
  BY <1>3
<1> QED
  BY <1>4

\* A function given by its first value and a step that looks back twice.
UnrollsOverTwo(f, k, first, step) ==
  /\ f[0] = first
  /\ \A i \in 1 .. k : f[i] = step[i][f[i - 1]][IF i = 1 THEN first ELSE f[i - 2]]

LEMMA RecursionOverTwo ==
  ASSUME NEW N \in Nat, NEW V, NEW first \in V, NEW step \in [1 .. N -> [V -> [V -> V]]]
  PROVE  \E f \in [0 .. N -> V] : UnrollsOverTwo(f, N, first, step)
<1> DEFINE W == V \X V
           start == <<first, first>>
           turn == [i \in 1 .. N |-> [w \in W |-> <<step[i][w[1]][w[2]], w[1]>>]]
<1>1. start \in W
  OBVIOUS
<1>2. turn \in [1 .. N -> [W -> W]]
  <2>1. ASSUME NEW i \in 1 .. N, NEW w \in W
        PROVE  <<step[i][w[1]][w[2]], w[1]>> \in W
    <3>1. w[1] \in V /\ w[2] \in V
      OBVIOUS
    <3>2. step[i] \in [V -> [V -> V]]
      OBVIOUS
    <3>3. step[i][w[1]] \in [V -> V]
      BY <3>1, <3>2
    <3> QED
      BY <3>1, <3>3
  <2> HIDE DEF W
  <2> QED
    BY <2>1
<1>3. PICK g \in [0 .. N -> W] : Unrolls(g, N, start, turn)
  <2> HIDE DEF W, start, turn
  <2> QED
    BY <1>1, <1>2, Recursion
<1> DEFINE f == [i \in 0 .. N |-> g[i][1]]
<1>4. f \in [0 .. N -> V]
  BY <1>3
<1>5. f[0] = first
  BY <1>3 DEF Unrolls
<1>6. ASSUME NEW i \in 1 .. N
      PROVE  g[i] = <<step[i][g[i - 1][1]][g[i - 1][2]], g[i - 1][1]>>
  <2>1. i - 1 \in 0 .. N
    OBVIOUS
  <2>2. g[i - 1] \in W
    <3> HIDE DEF W
    <3> QED
      BY <1>3, <2>1
  <2>3. g[i] = turn[i][g[i - 1]]
    <3> HIDE DEF W, turn, start
    <3> QED
      BY <1>3 DEF Unrolls
  <2>4. turn[i] = [w \in W |-> <<step[i][w[1]][w[2]], w[1]>>]
    <3> HIDE DEF W
    <3> QED
      OBVIOUS
  <2> HIDE DEF W, turn
  <2> QED
    BY <2>2, <2>3, <2>4
<1>7. ASSUME NEW i \in 1 .. N
      PROVE  g[i - 1][2] = IF i = 1 THEN first ELSE f[i - 2]
  <2>1. CASE i = 1
    BY <1>3, <2>1 DEF Unrolls
  <2>2. CASE i # 1
    <3>1. i - 1 \in 1 .. N /\ (i - 1) - 1 = i - 2 /\ i - 2 \in 0 .. N
      BY <2>2
    <3>2. g[i - 1][2] = g[i - 2][1]
      BY <3>1, <1>6
    <3> QED
      BY <2>2, <3>1, <3>2
  <2> QED
    BY <2>1, <2>2
<1>8. ASSUME NEW i \in 1 .. N
      PROVE  f[i] = step[i][f[i - 1]][IF i = 1 THEN first ELSE f[i - 2]]
  <2>1. i \in 0 .. N /\ i - 1 \in 0 .. N
    OBVIOUS
  <2>2. f[i] = g[i][1] /\ f[i - 1] = g[i - 1][1]
    BY <2>1
  <2> HIDE DEF f
  <2> QED
    BY <1>6, <1>7, <2>2
<1> HIDE DEF f
<1>9. UnrollsOverTwo(f, N, first, step)
  BY <1>5, <1>8 DEF UnrollsOverTwo
<1> QED
  BY <1>4, <1>9

(* How an expression begins *)

\* Where the tokens stand, one after the other.
LEMMA Places ==
  ASSUME NEW r \in Seq(Token), NEW reader
  PROVE  /\ Reading(r, reader)[1] = "out"
         /\ \A i \in 2 .. Len(r) + 1 :
              Reading(r, reader)[i] = Standing(r, reader, i, Reading(r, reader)[i - 1])
<1> DEFINE N == Len(r)
           V == {"out", "first", "in", "quoted"}
           After(i, v) == Standing(r, reader, i, v)
           Next2(p) == [i \in 1 .. N + 1 |-> IF i = 1 THEN "out" ELSE After(i, p[i - 1])]
<1>1. N \in Nat
  OBVIOUS
<1>2. \E p : p = Next2(p)
  <2> DEFINE first == "out"
             step == [i \in 1 .. N |-> [v \in V |-> After(i + 1, v)]]
  <2>1. first \in V /\ step \in [1 .. N -> [V -> V]]
    <3>1. \A i \in 1 .. N : \A v \in V : After(i + 1, v) \in V
      BY DEF Standing
    <3> HIDE DEF After, V
    <3>2. step \in [1 .. N -> [V -> V]]
      BY <3>1
    <3> QED
      BY <3>2 DEF V
  <2>2. PICK f \in [0 .. N -> V] : Unrolls(f, N, first, step)
    <3> HIDE DEF N, V, first, step
    <3> QED
      BY <1>1, <2>1, Recursion
  <2> DEFINE p == [i \in 1 .. N + 1 |-> f[i - 1]]
  <2>3. ASSUME NEW i \in 1 .. N + 1
        PROVE  p[i] = IF i = 1 THEN "out" ELSE After(i, p[i - 1])
    <3> HIDE DEF After, V
    <3>1. CASE i = 1
      BY <1>1, <2>2, <3>1 DEF Unrolls
    <3>2. CASE i # 1
      <4>1. i - 1 \in 1 .. N /\ (i - 1) - 1 = i - 2 /\ (i - 1) + 1 = i /\ i - 2 \in 0 .. N
        BY <1>1, <3>2
      <4>2. f[i - 1] = step[i - 1][f[i - 2]] /\ f[i - 2] \in V
        <5> HIDE DEF step
        <5> QED
          BY <2>2, <4>1 DEF Unrolls
      <4>3. f[i - 1] = After(i, f[i - 2])
        BY <4>1, <4>2
      <4>4. p[i] = f[i - 1] /\ p[i - 1] = f[i - 2]
        BY <1>1, <3>2, <4>1
      <4> HIDE DEF p
      <4> QED
        BY <3>2, <4>3, <4>4
    <3> QED
      BY <3>1, <3>2
  <2>4. p = Next2(p)
    <3> HIDE DEF After
    <3> QED
      BY <2>3
  <2> HIDE DEF p, Next2
  <2> QED
    BY <2>4
<1>3. Reading(r, reader) = Next2(Reading(r, reader))
  BY <1>2 DEF Reading
<1>4. Reading(r, reader)[1] = "out"
  <2> HIDE DEF After
  <2> QED
    BY <1>1, <1>3
<1>5. ASSUME NEW i \in 2 .. N + 1
      PROVE  Reading(r, reader)[i] = After(i, Reading(r, reader)[i - 1])
  <2> HIDE DEF After
  <2> QED
    BY <1>1, <1>3
<1> QED
  BY <1>4, <1>5

\* A class of one character ends after it.
LEMMA ClassOfOne ==
  ASSUME NEW r \in Seq(Token), Len(r) >= 3, r[1] \in ClassOpenings,
         r[2] \notin ClassOpenings \cup {"]"}, r[3] = "]"
  PROVE  AtomEnd(r) = 3
<1> DEFINE p == Reading(r, "PCRE2")
<1>1. 2 \in 2 .. Len(r) + 1 /\ 3 \in 2 .. Len(r) + 1 /\ 4 \in 2 .. Len(r) + 1
  OBVIOUS
<1>2. p[1] = "out" /\ p[2] = Standing(r, "PCRE2", 2, p[1])
      /\ p[3] = Standing(r, "PCRE2", 3, p[2]) /\ p[4] = Standing(r, "PCRE2", 4, p[3])
  <2>1. p[1] = "out" /\ \A i \in 2 .. Len(r) + 1 : p[i] = Standing(r, "PCRE2", i, p[i - 1])
    BY Places
  <2> HIDE DEF p
  <2> QED
    BY <1>1, <2>1
<1> HIDE DEF p
<1>3. p[2] = "first"
  <2>1. 2 - 1 = 1
    OBVIOUS
  <2>2. Standing(r, "PCRE2", 2, "out") = "first"
    BY <2>1 DEF Standing, ClassOpenings
  <2> QED
    BY <1>2, <2>2
<1>4. p[3] = "in"
  BY <1>2, <1>3 DEF Standing, ClassOpenings
<1>5. p[4] = "out"
  BY <1>2, <1>4 DEF Standing, ClassOpenings
<1> DEFINE Ending(i) == p[i + 1] = "out" /\ \A j \in 2 .. i : p[j] # "out"
<1>6. 3 \in 2 .. Len(r) /\ Ending(3)
  BY <1>1, <1>3, <1>4, <1>5
<1>7. ASSUME NEW i \in 2 .. Len(r), Ending(i)
      PROVE  i = 3
  <2>1. i # 2
    BY <1>4, <1>7
  <2>2. ~ (i >= 4)
    BY <1>5, <1>7
  <2> QED
    BY <2>1, <2>2
<1>8. ClassEnd(r) = CHOOSE i \in 2 .. Len(r) : Ending(i)
  BY DEF ClassEnd, p
<1> HIDE DEF Ending
<1>9. ClassEnd(r) = 3
  BY <1>6, <1>7, <1>8
<1> QED
  BY <1>9 DEF AtomEnd, ClassOpenings, Openings

\* A sequence put together comes apart again.
LEMMA ComesApart ==
  ASSUME NEW S, NEW a \in Seq(S), NEW q \in Seq(S)
  PROVE  /\ a \o q \in Seq(S) /\ Len(a \o q) = Len(a) + Len(q)
         /\ \A i \in 1 .. Len(a) : (a \o q)[i] = a[i]
         /\ \A i \in 1 .. Len(q) : (a \o q)[Len(a) + i] = q[i]
         /\ SubSeq(a \o q, 1, Len(a)) = a
         /\ From(a \o q, Len(a) + 1) = q
<1> DEFINE r == a \o q
<1>1. /\ r \in Seq(S) /\ Len(r) = Len(a) + Len(q)
      /\ \A i \in 1 .. Len(a) + Len(q) : r[i] = IF i <= Len(a) THEN a[i] ELSE q[i - Len(a)]
  BY ConcatProperties
<1> HIDE DEF r
<1>2. Len(a) \in Nat /\ Len(q) \in Nat
  OBVIOUS
<1>3. \A i \in 1 .. Len(a) : r[i] = a[i]
  BY <1>1, <1>2
<1>4. ASSUME NEW i \in 1 .. Len(q)
      PROVE  r[Len(a) + i] = q[i]
  <2>1. Len(a) + i \in 1 .. Len(a) + Len(q) /\ ~ (Len(a) + i <= Len(a)) /\ (Len(a) + i) - Len(a) = i
    BY <1>2
  <2> QED
    BY <1>1, <2>1
<1>5. SubSeq(r, 1, Len(a)) = a
  <2>1. \A i \in 1 .. Len(a) : r[i] \in S
    BY <1>1, <1>2
  <2>2. /\ SubSeq(r, 1, Len(a)) \in Seq(S) /\ Len(SubSeq(r, 1, Len(a))) = Len(a)
        /\ \A i \in 1 .. Len(a) : SubSeq(r, 1, Len(a))[i] = r[i]
    <3>1. /\ SubSeq(r, 1, Len(a)) \in Seq(S)
          /\ Len(SubSeq(r, 1, Len(a))) = IF 1 <= Len(a) THEN Len(a) - 1 + 1 ELSE 0
          /\ \A i \in 1 .. Len(a) - 1 + 1 : SubSeq(r, 1, Len(a))[i] = r[1 + i - 1]
      BY <1>2, <2>1, SubSeqProperties
    <3> QED
      BY <1>2, <3>1
  <2> QED
    BY <1>3, <2>2, SeqEqual
<1>6. From(r, Len(a) + 1) = q
  <2> DEFINE m == Len(a) + 1
             n == Len(r)
             t == SubSeq(r, m, n)
  <2>1. m \in Int /\ n \in Int /\ n - m + 1 = Len(q) /\ (m <= n <=> Len(q) # 0)
    BY <1>1, <1>2
  <2>2. \A i \in m .. n : r[i] \in S
    BY <1>1, <1>2
  <2>3. /\ t \in Seq(S) /\ Len(t) = (IF m <= n THEN n - m + 1 ELSE 0)
        /\ \A i \in 1 .. n - m + 1 : t[i] = r[m + i - 1]
    <3> HIDE DEF m, n
    <3> QED
      BY <2>1, <2>2, SubSeqProperties
  <2>4. Len(t) = Len(q)
    <3> HIDE DEF m, n, t
    <3> QED
      BY <1>2, <2>1, <2>3
  <2>5. ASSUME NEW i \in 1 .. Len(q)
        PROVE  t[i] = q[i]
    <3>1. m + i - 1 = Len(a) + i
      BY <1>2
    <3>2. t[i] = r[m + i - 1]
      <4> HIDE DEF m, n, t
      <4> QED
        BY <2>1, <2>3
    <3> HIDE DEF m, n, t
    <3> QED
      BY <1>4, <3>1, <3>2
  <2>6. t = q
    <3> HIDE DEF t
    <3> QED
      BY <2>3, <2>4, <2>5, SeqEqual
  <2> QED
    BY <2>6 DEF From
<1> QED
  BY <1>1, <1>3, <1>4, <1>5, <1>6 DEF r

\* Of three, it does not matter which two are put together first.
LEMMA Associated ==
  ASSUME NEW a \in Seq(Token), NEW b \in Seq(Token), NEW c \in Seq(Token)
  PROVE  (a \o b) \o c = a \o (b \o c)
BY ConcatAssociative

NoBars(r) == \A i \in 1 .. Len(r) : r[i] # "|"

\* An expression without alternatives begins with an atom.
LEMMA MatchAtom ==
  ASSUME NEW shorter, NEW s, NEW I, NEW r \in Seq(Token), r # <<>>, NoBars(r), r[1] # "\\Q",
         AtomEnd(r) \in 1 .. Len(r)
  PROVE  LET last == AtomEnd(r)
             atom == SubSeq(r, 1, last)
         IN
         /\ last = Len(r) \/ r[last + 1] \notin Quantifiers =>
              Match(shorter, r, s, I) = shorter[From(r, last + 1)][Once(shorter, atom, s, I)]
         /\ last < Len(r) /\ r[last + 1] = "*" =>
              Match(shorter, r, s, I) = shorter[From(r, last + 2)][Repeat(shorter, atom, s, I)]
         /\ last < Len(r) /\ r[last + 1] = "+" =>
              Match(shorter, r, s, I)
                = shorter[From(r, last + 2)][Repeat(shorter, atom, s, Once(shorter, atom, s, I))]
<1> DEFINE last == AtomEnd(r)
           atom == SubSeq(r, 1, last)
           q == MarkAt(r, last + 1)
<1>1. Match(shorter, r, s, I) = AfterFirst(shorter, r, s, I, last)
  <2>1. Bars(r, Reading(r, "PCRE2")) = {}
    BY DEF NoBars, Bars
  <2> HIDE DEF last
  <2> QED
    BY <2>1 DEF Match, last
<1> HIDE DEF last
<1>2. last \in 1 .. Len(r) /\ (last + 1 <= Len(r) <=> last < Len(r)) /\ (last < Len(r) <=> last # Len(r))
  <2>1. last \in 1 .. Len(r)
    BY DEF last
  <2> QED
    BY <2>1
<1>3. CASE last = Len(r) \/ r[last + 1] \notin Quantifiers
  <2>1. q = "once"
    BY <1>2, <1>3 DEF MarkAt
  <2>2. AsMarked(shorter, atom, "once", s, I) = Once(shorter, atom, s, I)
    BY DEF AsMarked
  <2>3. Match(shorter, r, s, I) = shorter[From(r, last + 1)][Once(shorter, atom, s, I)]
    BY <1>1, <2>1, <2>2 DEF AfterFirst, AfterAtom
  <2>4. ~ (last < Len(r) /\ r[last + 1] \in {"*", "+"})
    BY <1>2, <1>3 DEF Quantifiers
  <2> QED
    BY <2>3, <2>4 DEF last
<1>4. CASE last < Len(r) /\ r[last + 1] = "*"
  <2>1. q = "*"
    BY <1>2, <1>4 DEF MarkAt, Quantifiers
  <2>2. AsMarked(shorter, atom, "*", s, I) = Repeat(shorter, atom, s, I)
    BY DEF AsMarked
  <2>3. Match(shorter, r, s, I) = shorter[From(r, last + 2)][Repeat(shorter, atom, s, I)]
    BY <1>1, <2>1, <2>2 DEF AfterFirst, AfterAtom
  <2>4. last # Len(r) /\ "*" \in Quantifiers /\ "*" # "+"
    BY <1>2, <1>4 DEF Quantifiers
  <2> QED
    BY <1>4, <2>3, <2>4 DEF last
<1>5. CASE last < Len(r) /\ r[last + 1] = "+"
  <2>1. q = "+"
    BY <1>2, <1>5 DEF MarkAt, Quantifiers
  <2>2. AsMarked(shorter, atom, "+", s, I) = Repeat(shorter, atom, s, Once(shorter, atom, s, I))
    BY DEF AsMarked
  <2>3. Match(shorter, r, s, I)
          = shorter[From(r, last + 2)][Repeat(shorter, atom, s, Once(shorter, atom, s, I))]
    BY <1>1, <2>1, <2>2 DEF AfterFirst, AfterAtom
  <2>4. last # Len(r) /\ "+" \in Quantifiers /\ "+" # "*"
    BY <1>2, <1>5 DEF Quantifiers
  <2> QED
    BY <1>5, <2>3, <2>4 DEF last
<1> QED
  BY <1>3, <1>4, <1>5 DEF last

\* The same of expressions.
Glued(a, q) ==
  /\ a \o q \in Seq(Token) /\ Len(a \o q) = Len(a) + Len(q)
  /\ \A i \in 1 .. Len(a) : (a \o q)[i] = a[i]
  /\ \A i \in 1 .. Len(q) : (a \o q)[Len(a) + i] = q[i]
  /\ From(a \o q, Len(a) + 1) = q

LEMMA Gluing ==
  ASSUME NEW a \in Seq(Token), NEW q \in Seq(Token)
  PROVE  Glued(a, q)
BY ComesApart DEF Glued

\* An expression that may follow an atom.
Sound(q) == q \in Seq(Token) /\ NoBars(q) /\ (q # <<>> => q[1] \notin Quantifiers)

LEMMA NoBarsTogether ==
  ASSUME NEW a \in Seq(Token), NEW q \in Seq(Token), NoBars(a), NoBars(q)
  PROVE  NoBars(a \o q)
<1>1. Len(a) \in Nat /\ Len(q) \in Nat
  OBVIOUS
<1>2. /\ Len(a \o q) = Len(a) + Len(q)
      /\ \A i \in 1 .. Len(a) + Len(q) : (a \o q)[i] = IF i <= Len(a) THEN a[i] ELSE q[i - Len(a)]
  BY ConcatProperties
<1>3. ASSUME NEW i \in 1 .. Len(a \o q)
      PROVE  (a \o q)[i] # "|"
  <2>1. CASE i <= Len(a)
    BY <1>1, <1>2, <2>1 DEF NoBars
  <2>2. CASE ~ (i <= Len(a))
    <3>1. i - Len(a) \in 1 .. Len(q)
      BY <1>1, <1>2, <2>2
    <3> QED
      BY <1>2, <2>2, <3>1 DEF NoBars
  <2> QED
    BY <2>1, <2>2
<1> QED
  BY <1>3 DEF NoBars

LEMMA SoundTogether ==
  ASSUME NEW a, NEW q, Sound(a), Sound(q)
  PROVE  Sound(a \o q)
<1>1. a \in Seq(Token) /\ q \in Seq(Token) /\ NoBars(a) /\ NoBars(q)
  BY DEF Sound
<1>2. a \o q \in Seq(Token) /\ NoBars(a \o q)
  BY <1>1, NoBarsTogether
<1>3. CASE a = <<>>
  BY <1>1, <1>3, ConcatEmptySeq
<1>4. CASE a # <<>>
  <2>1. 1 \in 1 .. Len(a)
    BY <1>1, <1>4
  <2>2. (a \o q)[1] = a[1]
    BY <1>1, <2>1, ComesApart
  <2> QED
    BY <1>2, <1>4, <2>2 DEF Sound
<1> QED
  BY <1>3, <1>4

LEMMA AtomOnce ==
  ASSUME NEW shorter, NEW s, NEW I, NEW a \in Seq(Token), NEW q, a # <<>>, NoBars(a),
         a[1] # "\\Q", Sound(q), AtomEnd(a \o q) = Len(a)
  PROVE  Match(shorter, a \o q, s, I) = shorter[q][Once(shorter, a, s, I)]
<1> DEFINE r == a \o q
           last == Len(a)
<1>1. q \in Seq(Token) /\ NoBars(q)
  BY DEF Sound
<1>2. /\ r \in Seq(Token) /\ Len(r) = Len(a) + Len(q)
      /\ \A i \in 1 .. Len(a) : r[i] = a[i]
      /\ \A i \in 1 .. Len(q) : r[Len(a) + i] = q[i]
      /\ SubSeq(r, 1, Len(a)) = a /\ From(r, Len(a) + 1) = q
  BY <1>1, ComesApart
<1>3. NoBars(r)
  BY <1>1, NoBarsTogether
<1>4. Len(a) \in Nat \ {0} /\ Len(q) \in Nat
  BY <1>1
<1> HIDE DEF r
<1>5. last \in 1 .. Len(r) /\ r # <<>> /\ r[1] # "\\Q"
  BY <1>2, <1>4
<1>6. last = Len(r) \/ r[last + 1] \notin Quantifiers
  <2>1. CASE q = <<>>
    BY <1>2, <1>4, <2>1
  <2>2. CASE q # <<>>
    <3>1. 1 \in 1 .. Len(q)
      BY <1>1, <2>2
    <3>2. r[last + 1] = q[1]
      BY <1>2, <3>1
    <3> QED
      BY <2>2, <3>2 DEF Sound
  <2> QED
    BY <2>1, <2>2
<1>7. AtomEnd(r) = last
  BY DEF r
<1>8. Match(shorter, r, s, I)
        = shorter[From(r, last + 1)][Once(shorter, SubSeq(r, 1, last), s, I)]
  <2> HIDE DEF last
  <2>1. AtomEnd(r) \in 1 .. Len(r)
    BY <1>5, <1>7
  <2>2. r \in Seq(Token)
    BY <1>2
  <2>3. last = Len(r) \/ r[last + 1] \notin Quantifiers =>
          Match(shorter, r, s, I)
            = shorter[From(r, last + 1)][Once(shorter, SubSeq(r, 1, last), s, I)]
    BY <1>3, <1>5, <1>7, <2>1, <2>2, MatchAtom
  <2> QED
    BY <1>6, <2>3
<1> QED
  BY <1>2, <1>8 DEF r

\* What a mark after an atom makes of it.
Often(shorter, a, s, mark, I) ==
  IF mark = "+" THEN Repeat(shorter, a, s, Once(shorter, a, s, I)) ELSE Repeat(shorter, a, s, I)

LEMMA AtomOften ==
  ASSUME NEW shorter, NEW s, NEW I, NEW a \in Seq(Token), NEW q, a # <<>>, NoBars(a),
         a[1] # "\\Q", Sound(q), NEW mark \in {"*", "+"},
         AtomEnd((a \o <<mark>>) \o q) = Len(a)
  PROVE  Match(shorter, (a \o <<mark>>) \o q, s, I)
           = shorter[q][Often(shorter, a, s, mark, I)]
<1> DEFINE b == a \o <<mark>>
           r == b \o q
           last == Len(a)
<1>1. q \in Seq(Token) /\ NoBars(q) /\ <<mark>> \in Seq(Token) /\ NoBars(<<mark>>)
  <2>1. mark \in Token /\ mark # "|"
    BY CharacterAssumption DEF Token, Quantifiers
  <2>2. <<mark>> \in Seq(Token) /\ Len(<<mark>>) = 1 /\ <<mark>>[1] = mark
    BY <2>1
  <2> QED
    BY <2>1, <2>2 DEF Sound, NoBars
<1>2. /\ b \in Seq(Token) /\ Len(b) = Len(a) + 1 /\ b[1] = a[1] /\ b[last + 1] = mark /\ SubSeq(b, 1, Len(a)) = a
  <2>1. Len(a) \in Nat \ {0}
    OBVIOUS
  <2>2. /\ b \in Seq(Token) /\ Len(b) = Len(a) + Len(<<mark>>)
        /\ \A i \in 1 .. Len(a) : b[i] = a[i]
        /\ \A i \in 1 .. Len(<<mark>>) : b[Len(a) + i] = <<mark>>[i]
        /\ SubSeq(b, 1, Len(a)) = a
    BY <1>1, ComesApart
  <2> HIDE DEF b
  <2> QED
    BY <2>1, <2>2
<1>3. NoBars(b)
  BY <1>1, NoBarsTogether
<1> HIDE DEF b
<1>4. /\ r \in Seq(Token) /\ Len(r) = Len(b) + Len(q)
      /\ \A i \in 1 .. Len(b) : r[i] = b[i]
      /\ From(r, Len(b) + 1) = q
  <2>1. b \in Seq(Token)
    BY <1>2
  <2> HIDE DEF r
  <2> QED
    BY <1>1, <2>1, ComesApart DEF r
<1>5. NoBars(r)
  BY <1>1, <1>2, <1>3, NoBarsTogether
<1>6. Len(a) \in Nat \ {0} /\ Len(q) \in Nat
  BY <1>1
<1>7. SubSeq(r, 1, last) = a
  <2> DEFINE c == <<mark>> \o q
  <2>1. c \in Seq(Token)
    BY <1>1, ConcatProperties
  <2>2. r = a \o c
    BY <1>1, ConcatAssociative DEF b
  <2> HIDE DEF c, r
  <2> QED
    BY <2>1, <2>2, ComesApart
<1> HIDE DEF r
<1>8. /\ last \in 1 .. Len(r) /\ last < Len(r) /\ r # <<>> /\ r[1] # "\\Q" /\ r[last + 1] = mark
      /\ From(r, last + 2) = q
  BY <1>2, <1>4, <1>6
<1>9. AtomEnd(r) = last
  BY DEF r, b
<1>10. /\ mark = "*" => Match(shorter, r, s, I) = shorter[q][Repeat(shorter, a, s, I)]
       /\ mark = "+" =>
            Match(shorter, r, s, I) = shorter[q][Repeat(shorter, a, s, Once(shorter, a, s, I))]
  <2> HIDE DEF last
  <2>1. AtomEnd(r) \in 1 .. Len(r)
    BY <1>8, <1>9
  <2>2. r \in Seq(Token)
    BY <1>4
  <2>3. /\ r[last + 1] = "*" =>
              Match(shorter, r, s, I) = shorter[From(r, last + 2)][Repeat(shorter, SubSeq(r, 1, last), s, I)]
        /\ r[last + 1] = "+" =>
              Match(shorter, r, s, I)
                = shorter[From(r, last + 2)][Repeat(shorter, SubSeq(r, 1, last), s,
                                                    Once(shorter, SubSeq(r, 1, last), s, I))]
    <3> DEFINE e == AtomEnd(r)
    <3>1. e < Len(r) /\ r # <<>> /\ r[1] # "\\Q" /\ e \in 1 .. Len(r)
      BY <1>8, <1>9, <2>1
    <3>2. /\ r[e + 1] = "*" =>
                Match(shorter, r, s, I) = shorter[From(r, e + 2)][Repeat(shorter, SubSeq(r, 1, e), s, I)]
          /\ r[e + 1] = "+" =>
                Match(shorter, r, s, I)
                  = shorter[From(r, e + 2)][Repeat(shorter, SubSeq(r, 1, e), s,
                                                   Once(shorter, SubSeq(r, 1, e), s, I))]
      BY <1>5, <2>2, <3>1, MatchAtom
    <3> QED
      BY <1>9, <3>2
  <2> QED
    BY <1>7, <1>8, <2>3
<1>11. Match(shorter, r, s, I) = shorter[q][Often(shorter, a, s, mark, I)]
  <2>1. CASE mark = "*"
    BY <1>10, <2>1 DEF Often
  <2>2. CASE mark = "+"
    BY <1>10, <2>2 DEF Often
  <2> QED
    BY <2>1, <2>2
<1> QED
  BY <1>11 DEF r, b

(* Characters and their escapes *)

\* An escaped character stands for the character, and opens nothing.
LEMMA Escapes ==
  ASSUME NEW c \in Character, c \notin {"*", "?"}
  PROVE  /\ Escape(c) \in Token /\ Chars(Escape(c)) = c
         /\ Escape(c) \notin Openings \cup ClassOpenings \cup Quantifiers
                              \cup {"^", "$", ".", "|", "\\d", "\\Q"}
<1>1. /\ c \notin Compound
      /\ \A m \in Meta : Escape(m) \in Compound
      /\ "\\/" \in Compound /\ "\\d" \in Compound /\ "\\Q" \in Compound /\ "(?:" \in Compound /\ "[^" \in Compound
  BY CharacterAssumption DEF Compound
<1>2. CASE c \in Meta
  <2>1. Escape(c) \in Token
    BY <1>1, <1>2 DEF Token
  <2>2. Escape(c) # "\\/"
    BY <1>2 DEF Meta, Escape
  <2>3. \A m \in Meta : Escape(m) = Escape(c) => m = c
    <3>1. SUFFICES ASSUME NEW m \in Meta, Escape(m) = Escape(c)
                   PROVE  m = c
      OBVIOUS
    <3> QED
      BY <1>2, <3>1 DEF Meta, Escape
  <2>4. Chars(Escape(c)) = c
    BY <1>2, <2>2, <2>3 DEF Chars
  <2>5. Escape(c) \notin Openings \cup ClassOpenings \cup Quantifiers
                          \cup {"^", "$", ".", "|", "\\d", "\\Q"}
    BY <1>2 DEF Meta, Escape, Openings, ClassOpenings, Quantifiers
  <2> QED
    BY <2>1, <2>4, <2>5
<1>3. CASE c \notin Meta
  <2>1. Escape(c) = c
    BY <1>3 DEF Meta, Escape
  <2>2. Chars(c) = c
    BY <1>1, <1>3 DEF Chars
  <2>3. c \notin Openings \cup ClassOpenings \cup Quantifiers \cup {"^", "$", ".", "|", "\\d", "\\Q"}
    BY <1>1, <1>3 DEF Meta, Openings, ClassOpenings, Quantifiers
  <2> QED
    BY <2>1, <2>2, <2>3 DEF Token
<1> QED
  BY <1>2, <1>3

(* What an atom takes *)

\* One step on from those positions where it may be taken.
OneBy(C, I) == {i + 1 : i \in I \cap C}
\* Any number of steps on, over places it may be taken at.
AnyBy(C, s, I) == {k \in 1 .. Len(s) + 1 : \E j \in I : j <= k /\ j .. k - 1 \subseteq C}
SomeBy(C, s, I) == {k \in 1 .. Len(s) + 1 : \E j \in I : j < k /\ j .. k - 1 \subseteq C}

\* The places an atom of one character may be taken at.
TakenAt(shorter, atom, s, C) ==
  /\ C \in SUBSET (1 .. Len(s))
  /\ \A I \in SUBSET (1 .. Len(s) + 1) : Once(shorter, atom, s, I) = OneBy(C, I)

\* Every position of a text, those of a character, and those of any other.
Anywhere(s) == 1 .. Len(s)
AtIts(s, c) == {j \in 1 .. Len(s) : s[j] = c}
NotAt(s, c) == {j \in 1 .. Len(s) : s[j] # c}

LEMMA OnceCharacter ==
  ASSUME NEW c \in Character, c \notin {"*", "?"}, NEW shorter, NEW s, Len(s) \in Nat,
         NEW I \in SUBSET (1 .. Len(s) + 1)
  PROVE  Once(shorter, <<Escape(c)>>, s, I) = OneBy(AtIts(s, c), I)
<1>1. /\ Chars(Escape(c)) = c
      /\ Escape(c) \notin Openings \cup ClassOpenings \cup Quantifiers
                           \cup {"^", "$", ".", "|", "\\d", "\\Q"}
  BY Escapes
<1>2. <<Escape(c)>>[1] = Escape(c)
  OBVIOUS
<1>3. Once(shorter, <<Escape(c)>>, s, I) = {i + 1 : i \in {j \in I : j <= Len(s) /\ s[j] = Chars(Escape(c))}}
  BY <1>1, <1>2 DEF Once
<1> QED
  BY <1>1, <1>3 DEF OneBy, AtIts

LEMMA OnceAny ==
  ASSUME NEW shorter, NEW s, Len(s) \in Nat, NEW I \in SUBSET (1 .. Len(s) + 1)
  PROVE  Once(shorter, <<".">>, s, I) = OneBy(Anywhere(s), I)
<1>1. <<".">>[1] = "."
  OBVIOUS
<1>2. Once(shorter, <<".">>, s, I) = {i + 1 : i \in {j \in I : j <= Len(s)}}
  BY <1>1 DEF Once, Openings, ClassOpenings
<1>3. {j \in I : j <= Len(s)} = I \cap Anywhere(s)
  <2>1. \A j \in I : j <= Len(s) <=> j \in Anywhere(s)
    BY DEF Anywhere
  <2> QED
    BY <2>1
<1> QED
  BY <1>2, <1>3 DEF OneBy

LEMMA OnceOther ==
  ASSUME NEW x \in {".", "/"}, NEW shorter, NEW s, Len(s) \in Nat,
         NEW I \in SUBSET (1 .. Len(s) + 1)
  PROVE  Once(shorter, <<"[^", x, "]">>, s, I) = OneBy(NotAt(s, x), I)
<1> DEFINE atom == <<"[^", x, "]">>
           members == {Chars(atom[k]) : k \in 2 .. Len(atom) - 1}
<1>1. atom[1] = "[^" /\ Len(atom) = 3 /\ atom[2] = x
  OBVIOUS
<1>2. Chars(x) = x
  BY DEF Chars, Meta, Escape
<1>3. members = {x}
  <2>1. 2 .. Len(atom) - 1 = {2}
    BY <1>1
  <2> HIDE DEF atom
  <2> QED
    BY <1>1, <1>2, <2>1
<1>4. Once(shorter, atom, s, I)
        = {i + 1 : i \in {j \in I : j <= Len(s) /\ (s[j] \in members) = (atom[1] = "[")}}
  <2> HIDE DEF atom
  <2> QED
    BY <1>1 DEF Once, Openings, ClassOpenings, members
<1>5. ~ (atom[1] = "[")
  BY <1>1
<1>6. \A j \in I : ((s[j] \in members) = (atom[1] = "[")) <=> s[j] # x
  <2> HIDE DEF members, atom
  <2> QED
    BY <1>3, <1>5
<1>7. Once(shorter, atom, s, I) = {i + 1 : i \in {j \in I : j <= Len(s) /\ s[j] # x}}
  <2> HIDE DEF members, atom
  <2> QED
    BY <1>4, <1>6
<1> QED
  BY <1>7 DEF OneBy, NotAt

LEMMA RepeatTakes ==
  ASSUME NEW shorter, NEW atom, NEW s, Len(s) \in Nat, NEW C, TakenAt(shorter, atom, s, C),
         NEW I \in SUBSET (1 .. Len(s) + 1)
  PROVE  Repeat(shorter, atom, s, I) = AnyBy(C, s, I)
<1> DEFINE L == Len(s)
           P == 1 .. L + 1
           Reached(k) == {m \in P : \E j \in I : j <= m /\ m - j <= k /\ j .. m - 1 \subseteq C}
           Round(J) == J \cup Once(shorter, atom, s, J)
           Next2(f) == [k \in 0 .. L + 1 |-> IF k = 0 THEN I ELSE Round(f[k - 1])]
<1>0. /\ C \in SUBSET (1 .. Len(s))
      /\ \A J \in SUBSET (1 .. Len(s) + 1) : Once(shorter, atom, s, J) = OneBy(C, J)
  BY DEF TakenAt
<1>1. Reached(0) = I
  <2>1. ASSUME NEW m \in Reached(0)
        PROVE  m \in I
    <3>1. PICK j \in I : j <= m /\ m - j <= 0
      BY <2>1
    <3>2. j = m
      BY <3>1
    <3> QED
      BY <3>2
  <2>2. ASSUME NEW m \in I
        PROVE  m \in Reached(0)
    <3>1. m \in P /\ m <= m /\ m - m <= 0 /\ m .. m - 1 \subseteq C
      OBVIOUS
    <3> QED
      BY <3>1
  <2> HIDE DEF Reached
  <2> QED
    BY <2>1, <2>2
<1>2. ASSUME NEW k \in 1 .. L + 1
      PROVE  Reached(k) = Round(Reached(k - 1))
  <2>1. Once(shorter, atom, s, Reached(k - 1)) = OneBy(C, Reached(k - 1))
    BY <1>0
  <2>2. ASSUME NEW m \in Reached(k), m \notin Reached(k - 1)
        PROVE  m \in OneBy(C, Reached(k - 1))
    <3>1. PICK j \in I : j <= m /\ m - j <= k /\ j .. m - 1 \subseteq C
      BY <2>2
    <3>2. j \in P /\ m \in P /\ m - j = k
      BY <2>2, <3>1
    <3>3. m - 1 \in C /\ m - 1 \in P /\ j <= m - 1 /\ (m - 1) - j <= k - 1
          /\ j .. (m - 1) - 1 \subseteq C
      BY <3>1, <3>2
    <3>4. m - 1 \in Reached(k - 1)
      BY <3>1, <3>3
    <3>5. m = (m - 1) + 1
      BY <3>2
    <3> QED
      BY <3>3, <3>4, <3>5 DEF OneBy
  <2>3. ASSUME NEW m \in OneBy(C, Reached(k - 1))
        PROVE  m \in Reached(k)
    <3>1. PICK i \in Reached(k - 1) : i \in C /\ m = i + 1
      BY <2>3 DEF OneBy
    <3>2. PICK j \in I : j <= i /\ i - j <= k - 1 /\ j .. i - 1 \subseteq C
      BY <3>1
    <3>3. i \in 1 .. L /\ j \in P
      BY <1>0, <3>1
    <3>4. m \in P /\ j <= m /\ m - j <= k /\ j .. m - 1 \subseteq C
      BY <3>1, <3>2, <3>3
    <3> QED
      BY <3>4
  <2>4. Reached(k - 1) \subseteq Reached(k)
    OBVIOUS
  <2> HIDE DEF Reached
  <2> QED
    BY <2>1, <2>2, <2>3, <2>4
<1>3. \E f : f = Next2(f)
  <2> DEFINE f == [k \in 0 .. L + 1 |-> Reached(k)]
  <2>1. f = Next2(f)
    <3> HIDE DEF Reached, Round
    <3> QED
      BY <1>1, <1>2
  <2> HIDE DEF f, Next2
  <2> QED
    BY <2>1
<1> DEFINE after == Rounds(shorter, atom, s, I)
<1>4. after = Next2(after)
  BY <1>3 DEF Rounds
<1>5. after[0] = I /\ \A k \in 1 .. L + 1 : after[k] = Round(after[k - 1])
  <2> HIDE DEF Round, after
  <2> QED
    BY <1>4
<1> DEFINE T == {k \in 0 .. L + 1 : after[k] = Reached(k)}
<1>6. 0 \in T
  <2> HIDE DEF after, Reached
  <2> QED
    BY <1>1, <1>5
<1>7. ASSUME NEW k \in 0 .. (L + 1) - 1, k \in T
      PROVE  k + 1 \in T
  <2>1. k + 1 \in 1 .. L + 1 /\ (k + 1) - 1 = k
    OBVIOUS
  <2> HIDE DEF after, Reached, Round
  <2>2. after[k + 1] = Round(after[k]) /\ Reached(k + 1) = Round(Reached(k))
    BY <1>2, <1>5, <2>1
  <2> QED
    BY <1>7, <2>1, <2>2
<1>8. L + 1 \in T
  <2>1. L + 1 \in Nat
    OBVIOUS
  <2>2. 0 .. L + 1 \subseteq T
    <3> DEFINE N == L + 1
    <3>1. N \in Nat /\ \A k \in 0 .. N - 1 : k \in T => k + 1 \in T
      BY <1>7, <2>1
    <3> HIDE DEF N, T
    <3>2. 0 .. N \subseteq T
      BY <1>6, <3>1, UpTo
    <3> QED
      BY <3>2 DEF N
  <2> HIDE DEF T
  <2> QED
    BY <2>1, <2>2
<1>9. Reached(L + 1) = AnyBy(C, s, I)
  <2>1. \A m \in P : \A j \in I : m - j <= L + 1
    OBVIOUS
  <2>2. \A m \in P : m \in Reached(L + 1) <=> m \in AnyBy(C, s, I)
    BY <2>1 DEF AnyBy
  <2>3. Reached(L + 1) \subseteq P /\ AnyBy(C, s, I) \subseteq P
    BY DEF AnyBy
  <2> HIDE DEF Reached
  <2> QED
    BY <2>2, <2>3
<1> HIDE DEF Reached, after
<1>10. after[L + 1] = Reached(L + 1)
  BY <1>8
<1> QED
  BY <1>9, <1>10 DEF Repeat, after

(* What the wildcards compile to *)

Words == {DOMAIN_WORDS, PATH_WORDS}
Sounds == {q \in Seq(Token) : Sound(q)}

LEMMA PiecesSound ==
  ASSUME NEW words \in Words
  PROVE  /\ words.across \in Sounds /\ words.within \in Sounds /\ words.single \in Sounds
         /\ \A c \in Character : Piece(c, words) \in Sounds
<1>1. /\ "." \in Token /\ "+" \in Token /\ "*" \in Token /\ "]" \in Token /\ "/" \in Token
      /\ "[^" \in Token
  BY CharacterAssumption DEF Token, Compound, Meta, Quantifiers
<1>2. ASSUME NEW x \in {".", "/"}
      PROVE  <<"[^", x, "]", "+">> \in Sounds /\ <<"[^", x, "]">> \in Sounds
  <2>1. x \in Token /\ x # "|"
    BY <1>1
  <2>2. <<"[^", x, "]", "+">> \in Seq(Token) /\ <<"[^", x, "]">> \in Seq(Token)
    BY <1>1, <2>1
  <2>3. NoBars(<<"[^", x, "]", "+">>) /\ NoBars(<<"[^", x, "]">>)
    <3>1. ASSUME NEW i \in 1 .. 4
          PROVE  <<"[^", x, "]", "+">>[i] # "|"
      <4>1. i = 1 \/ i = 2 \/ i = 3 \/ i = 4
        OBVIOUS
      <4> QED
        BY <2>1, <4>1
    <3>2. ASSUME NEW i \in 1 .. 3
          PROVE  <<"[^", x, "]">>[i] # "|"
      <4>1. i = 1 \/ i = 2 \/ i = 3
        OBVIOUS
      <4> QED
        BY <2>1, <4>1
    <3> QED
      BY <3>1, <3>2 DEF NoBars
  <2> QED
    BY <2>2, <2>3 DEF Sounds, Sound, Quantifiers
<1>3. ASSUME NEW m \in Quantifiers
      PROVE  <<".", m>> \in Sounds
  <2>1. m \in Token /\ m # "|"
    BY CharacterAssumption DEF Token, Quantifiers
  <2>2. <<".", m>> \in Seq(Token)
    BY <1>1, <2>1
  <2>3. NoBars(<<".", m>>)
    <3>1. ASSUME NEW i \in 1 .. 2
          PROVE  <<".", m>>[i] # "|"
      <4>1. i = 1 \/ i = 2
        OBVIOUS
      <4> QED
        BY <2>1, <4>1
    <3> QED
      BY <3>1 DEF NoBars
  <2> QED
    BY <2>2, <2>3 DEF Sounds, Sound, Quantifiers
<1>4. words.across \in Sounds /\ words.within \in Sounds /\ words.single \in Sounds
  <2>1. "+" \in Quantifiers /\ "*" \in Quantifiers
    BY DEF Quantifiers
  <2>2. CASE words = DOMAIN_WORDS
    <3>1. words.across = <<".", "+">> /\ words.within = <<"[^", ".", "]", "+">> /\ words.single = <<"[^", ".", "]">>
      BY <2>2 DEF DOMAIN_WORDS
    <3> QED
      BY <1>2, <1>3, <2>1, <3>1
  <2>3. CASE words = PATH_WORDS
    <3>1. words.across = <<".", "*">> /\ words.within = <<"[^", "/", "]", "+">> /\ words.single = <<"[^", "/", "]">>
      BY <2>3 DEF PATH_WORDS
    <3> QED
      BY <1>2, <1>3, <2>1, <3>1
  <2> QED
    BY <2>2, <2>3 DEF Words
<1>5. ASSUME NEW c \in Character, c \notin {"*", "?"}
      PROVE  <<Escape(c)>> \in Sounds
  <2>1. Escape(c) \in Token /\ Escape(c) # "|" /\ Escape(c) \notin Quantifiers
    BY <1>5, Escapes
  <2>2. <<Escape(c)>> \in Seq(Token) /\ Len(<<Escape(c)>>) = 1 /\ <<Escape(c)>>[1] = Escape(c)
    BY <2>1
  <2> QED
    BY <2>1, <2>2 DEF Sounds, Sound, NoBars
<1>6. ASSUME NEW c \in Character
      PROVE  Piece(c, words) \in Sounds
  <2>1. CASE c = "*" \/ c = "?"
    BY <1>4, <2>1 DEF Piece
  <2>2. CASE c \notin {"*", "?"}
    BY <1>5, <2>2 DEF Piece
  <2> QED
    BY <2>1, <2>2
<1> QED
  BY <1>4, <1>6

\* The compiled last n characters, one piece after the other.
LEMMA Compiled ==
  ASSUME NEW words \in Words, NEW p \in Seq(Character)
  PROVE  /\ Suffixes(p, words) \in [0 .. Len(p) -> Sounds]
         /\ Suffixes(p, words)[0] = <<>>
         /\ \A n \in 1 .. Len(p) :
              Suffixes(p, words)[n] =
                IF Stars(p, Len(p) - n + 1) THEN words.across \o Suffixes(p, words)[n - 2]
                ELSE Piece(p[Len(p) - n + 1], words) \o Suffixes(p, words)[n - 1]
<1> DEFINE N == Len(p)
           starred(n) == Stars(p, N - n + 1)
           piece(n) == Piece(p[N - n + 1], words)
           body(f, n) == IF n = 0 THEN <<>>
                         ELSE IF starred(n) THEN words.across \o f[n - 2] ELSE piece(n) \o f[n - 1]
           Next2(f) == [n \in 0 .. N |-> body(f, n)]
<1>1. N \in Nat
  OBVIOUS
<1>2. \A n \in 1 .. N : starred(n) => n >= 2
  BY <1>1 DEF Stars
<1>3. \A n \in 1 .. N : piece(n) \in Sounds
  <2> SUFFICES ASSUME NEW n \in 1 .. N
               PROVE  piece(n) \in Sounds
    OBVIOUS
  <2>1. N - n + 1 \in 1 .. N
    BY <1>1
  <2>2. p[N - n + 1] \in Character
    BY <2>1
  <2> QED
    BY <2>2, PiecesSound
<1>4. words.across \in Sounds
  BY PiecesSound
<1>5. \A a, q \in Sounds : a \o q \in Sounds
  BY SoundTogether, ConcatProperties DEF Sounds
<1>6. <<>> \in Sounds
  BY DEF Sounds, Sound, NoBars
<1> HIDE DEF N, starred, piece
<1>7. \E f : f = Next2(f)
  <2> DEFINE V == Sounds
             first == <<>>
             step == [n \in 1 .. N |-> [v \in V |-> [u \in V |->
                        IF starred(n) THEN words.across \o u ELSE piece(n) \o v]]]
  <2>1. first \in V /\ step \in [1 .. N -> [V -> [V -> V]]]
    BY <1>3, <1>4, <1>5, <1>6
  <2>2. PICK f \in [0 .. N -> V] : UnrollsOverTwo(f, N, first, step)
    <3> HIDE DEF V, first, step
    <3> QED
      BY <1>1, <2>1, RecursionOverTwo
  <2>3. ASSUME NEW n \in 1 .. N
        PROVE  f[n] = IF starred(n) THEN words.across \o f[n - 2] ELSE piece(n) \o f[n - 1]
    <3> DEFINE u == IF n = 1 THEN first ELSE f[n - 2]
    <3>1. n - 1 \in 0 .. N /\ (n # 1 => n - 2 \in 0 .. N)
      BY <1>1
    <3>2. f[n - 1] \in V /\ u \in V
      BY <2>1, <2>2, <3>1
    <3>3. f[n] = step[n][f[n - 1]][u]
      <4> HIDE DEF step, first
      <4> QED
        BY <2>2 DEF UnrollsOverTwo
    <3>4. f[n] = IF starred(n) THEN words.across \o u ELSE piece(n) \o f[n - 1]
      <4> HIDE DEF u, V
      <4> QED
        BY <3>2, <3>3
    <3>5. starred(n) => u = f[n - 2]
      BY <1>2
    <3> HIDE DEF u
    <3> QED
      BY <3>4, <3>5
  <2>4. f[0] = <<>>
    BY <2>2 DEF UnrollsOverTwo
  <2>5. f = [n \in 0 .. N |-> f[n]]
    <3> HIDE DEF V
    <3> QED
      BY <2>2
  <2>6. ASSUME NEW n \in 0 .. N
        PROVE  f[n] = body(f, n)
    <3>1. CASE n = 0
      BY <2>4, <3>1
    <3>2. CASE n # 0
      <4>1. n \in 1 .. N
        BY <1>1, <3>2
      <4> QED
        BY <2>3, <3>2, <4>1
    <3> QED
      BY <3>1, <3>2
  <2>7. f = Next2(f)
    <3> HIDE DEF step, V, first, body
    <3> QED
      BY <2>5, <2>6
  <2> HIDE DEF Next2
  <2> QED
    BY <2>7
<1> DEFINE c == Suffixes(p, words)
<1>8. c = Next2(c)
  BY <1>7 DEF Suffixes, N, starred, piece
<1>9. /\ c[0] = <<>>
      /\ \A n \in 1 .. N : c[n] = IF starred(n) THEN words.across \o c[n - 2] ELSE piece(n) \o c[n - 1]
      /\ c = [n \in 0 .. N |-> c[n]]
  <2> HIDE DEF c
  <2> QED
    BY <1>1, <1>8
<1> DEFINE T == {n \in 0 .. N : c[n] \in Sounds /\ (n # 0 => c[n - 1] \in Sounds)}
<1> HIDE DEF c
<1>10. 0 \in T
  BY <1>1, <1>6, <1>9
<1>11. ASSUME NEW k \in 0 .. N - 1, k \in T
       PROVE  k + 1 \in T
  <2>1. k + 1 \in 1 .. N /\ (k + 1) - 1 = k /\ (k + 1) - 2 = k - 1
    BY <1>1
  <2>2. c[k + 1] = IF starred(k + 1) THEN words.across \o c[k - 1] ELSE piece(k + 1) \o c[k]
    BY <1>9, <2>1
  <2>3. c[k] \in Sounds /\ (k # 0 => c[k - 1] \in Sounds)
    BY <1>11
  <2>4. starred(k + 1) => k # 0
    BY <1>1, <1>2, <2>1
  <2>5. c[k + 1] \in Sounds
    BY <1>3, <1>4, <1>5, <2>1, <2>2, <2>3, <2>4
  <2> QED
    BY <1>1, <2>1, <2>3, <2>5
<1>12. \A n \in 0 .. N : c[n] \in Sounds
  <2>1. 0 .. N \subseteq T
    <3> HIDE DEF T
    <3> QED
      BY <1>1, <1>10, <1>11, UpTo
  <2> QED
    BY <2>1
<1>13. c \in [0 .. N -> Sounds]
  BY <1>9, <1>12
<1> QED
  BY <1>9, <1>13 DEF c, N, starred, piece

LEMMA RegexSound ==
  ASSUME NEW words \in Words, NEW p \in Seq(Character)
  PROVE  atomToRegex(p, words) \in Sounds
<1>1. Len(p) \in 0 .. Len(p)
  OBVIOUS
<1> QED
  BY <1>1, Compiled DEF atomToRegex

(* What the wildcards mean, and how an expression is matched *)

\* Where the last n characters may begin.
LEMMA Begun ==
  ASSUME NEW p, Len(p) \in Nat, NEW s, Len(s) \in Nat, NEW separator,
         NEW last \in SUBSET (1 .. Len(s) + 1)
  PROVE  /\ \A n \in 0 .. Len(p) : Starts(p, s, separator, last)[n] \in SUBSET (1 .. Len(s) + 1)
         /\ Starts(p, s, separator, last)[0] = last
         /\ \A n \in 1 .. Len(p) :
              Starts(p, s, separator, last)[n] =
                {j \in 1 .. Len(s) + 1 : \E k \in j .. Len(s) + 1 :
                   /\ k \in Starts(p, s, separator, last)
                              [IF Stars(p, Len(p) - n + 1) THEN n - 2 ELSE n - 1]
                   /\ StandsFor(p, Len(p) - n + 1, s, j, k, separator)}
<1> DEFINE N == Len(p)
           P == 1 .. Len(s) + 1
           starred(n) == Stars(p, N - n + 1)
           To(n, K) == {j \in P : \E k \in j .. Len(s) + 1 :
                          k \in K /\ StandsFor(p, N - n + 1, s, j, k, separator)}
           body(f, n) == IF n = 0 THEN last ELSE To(n, f[IF starred(n) THEN n - 2 ELSE n - 1])
           Next2(f) == [n \in 0 .. N |-> body(f, n)]
<1>1. N \in Nat
  OBVIOUS
<1>2. \A n \in 1 .. N : starred(n) => n >= 2
  BY <1>1 DEF Stars
<1>3. \A n, K : To(n, K) \in SUBSET P
  OBVIOUS
<1>4. last \in SUBSET P
  OBVIOUS
<1> HIDE DEF starred, To, P
<1>5. \E f : f = Next2(f)
  <2> DEFINE V == SUBSET P
             first == last
             step == [n \in 1 .. N |-> [v \in V |-> [u \in V |-> To(n, IF starred(n) THEN u ELSE v)]]]
  <2>1. first \in V /\ step \in [1 .. N -> [V -> [V -> V]]]
    BY <1>3, <1>4
  <2>2. PICK f \in [0 .. N -> V] : UnrollsOverTwo(f, N, first, step)
    <3> HIDE DEF V, first, step, N
    <3> QED
      BY <1>1, <2>1, RecursionOverTwo
  <2>3. ASSUME NEW n \in 1 .. N
        PROVE  f[n] = To(n, f[IF starred(n) THEN n - 2 ELSE n - 1])
    <3> DEFINE u == IF n = 1 THEN first ELSE f[n - 2]
    <3>1. n - 1 \in 0 .. N /\ (n # 1 => n - 2 \in 0 .. N)
      BY <1>1
    <3>2. f[n - 1] \in V /\ u \in V
      <4> HIDE DEF V, step, N
      <4> QED
        BY <2>1, <2>2, <3>1
    <3>3. f[n] = step[n][f[n - 1]][u]
      <4> HIDE DEF step, first, N
      <4> QED
        BY <2>2 DEF UnrollsOverTwo
    <3>4. f[n] = To(n, IF starred(n) THEN u ELSE f[n - 1])
      <4> HIDE DEF u, V, N
      <4> QED
        BY <3>2, <3>3
    <3>5. starred(n) => u = f[n - 2]
      BY <1>2
    <3> HIDE DEF u
    <3> QED
      BY <3>4, <3>5
  <2>4. f[0] = last
    BY <2>2 DEF UnrollsOverTwo
  <2>5. f = [n \in 0 .. N |-> f[n]]
    <3> HIDE DEF V, N
    <3> QED
      BY <2>2
  <2>6. ASSUME NEW n \in 0 .. N
        PROVE  f[n] = body(f, n)
    <3>1. CASE n = 0
      BY <2>4, <3>1
    <3>2. CASE n # 0
      <4>1. n \in 1 .. N
        BY <1>1, <3>2
      <4> QED
        BY <2>3, <3>2, <4>1
    <3> QED
      BY <3>1, <3>2
  <2>7. f = Next2(f)
    <3> HIDE DEF step, V, first, body, N
    <3> QED
      BY <2>5, <2>6
  <2> HIDE DEF Next2
  <2> QED
    BY <2>7
<1> DEFINE b == Starts(p, s, separator, last)
<1>6. b = Next2(b)
  BY <1>5 DEF Starts, starred, To, P
<1>7. /\ b[0] = last
      /\ \A n \in 1 .. N : b[n] = To(n, b[IF starred(n) THEN n - 2 ELSE n - 1])
  <2> HIDE DEF b, N
  <2> QED
    BY <1>1, <1>6
<1>8. ASSUME NEW n \in 0 .. N
      PROVE  b[n] \in SUBSET P
  <2>1. CASE n = 0
    BY <1>4, <1>7, <2>1
  <2>2. CASE n # 0
    <3>1. n \in 1 .. N
      BY <1>1, <2>2
    <3> HIDE DEF b, N
    <3> QED
      BY <1>3, <1>7, <3>1
  <2> QED
    BY <2>1, <2>2
<1>9. \A n \in 1 .. N :
        b[n] = {j \in P : \E k \in j .. Len(s) + 1 :
                  /\ k \in b[IF Stars(p, N - n + 1) THEN n - 2 ELSE n - 1]
                  /\ StandsFor(p, N - n + 1, s, j, k, separator)}
  BY <1>7 DEF To, starred
<1> QED
  BY <1>7, <1>8, <1>9 DEF P

\* A longer expression is matched by those that match the shorter.
LEMMA MatchersUnroll ==
  ASSUME NEW N \in Nat, NEW s
  PROVE  /\ Matchers(N, s)[0] = Matcher(<<>>, s)
         /\ \A n \in 1 .. N : Matchers(N, s)[n] = Matcher(Matchers(N, s)[n - 1], s)
<1> DEFINE body(f, n) == IF n = 0 THEN Matcher(<<>>, s) ELSE Matcher(f[n - 1], s)
           Next2(k, f) == [n \in 0 .. k |-> body(f, n)]
           T == {k \in 0 .. N : \E f : f = Next2(k, f)}
<1>1. 0 \in T
  <2> DEFINE f == [n \in 0 .. 0 |-> Matcher(<<>>, s)]
  <2>1. f = Next2(0, f)
    OBVIOUS
  <2>2. \E g : g = Next2(0, g)
    <3> HIDE DEF f, Next2
    <3> QED
      BY <2>1
  <2> QED
    BY <2>2
<1>2. ASSUME NEW k \in 0 .. N - 1, k \in T
      PROVE  k + 1 \in T
  <2>1. PICK f : f = Next2(k, f)
    BY <1>2
  <2> DEFINE g == [n \in 0 .. k + 1 |-> IF n = k + 1 THEN Matcher(f[k], s) ELSE f[n]]
  <2>2. ASSUME NEW n \in 0 .. k + 1
        PROVE  g[n] = body(g, n)
    <3>1. CASE n = k + 1
      <4>1. n # 0 /\ n - 1 = k /\ g[k] = f[k] /\ g[n] = Matcher(f[k], s)
        BY <3>1
      <4> HIDE DEF g
      <4> QED
        BY <4>1
    <3>2. CASE n # k + 1
      <4>1. n \in 0 .. k
        BY <3>2
      <4>2. f[n] = body(f, n)
        <5> HIDE DEF body
        <5> QED
          BY <2>1, <4>1
      <4>3. g[n] = f[n] /\ (n # 0 => g[n - 1] = f[n - 1])
        BY <3>2, <4>1
      <4> HIDE DEF g
      <4> QED
        BY <4>2, <4>3
    <3> QED
      BY <3>1, <3>2
  <2>3. g = Next2(k + 1, g)
    <3>1. g = [n \in 0 .. k + 1 |-> g[n]]
      OBVIOUS
    <3> HIDE DEF g, body
    <3> QED
      BY <2>2, <3>1
  <2>4. \E h : h = Next2(k + 1, h)
    <3> HIDE DEF g, Next2
    <3> QED
      BY <2>3
  <2> HIDE DEF Next2
  <2> QED
    BY <2>4
<1>3. 0 .. N \subseteq T
  <2> HIDE DEF T
  <2> QED
    BY <1>1, <1>2, UpTo
<1>4. \E f : f = Next2(N, f)
  <2> HIDE DEF Next2
  <2> QED
    BY <1>3
<1> DEFINE m == Matchers(N, s)
<1>5. m = Next2(N, m)
  BY <1>4 DEF Matchers
<1>6. \A n \in 0 .. N : m[n] = body(m, n)
  <2> HIDE DEF m, body
  <2> QED
    BY <1>5
<1> HIDE DEF m, body
<1>7. 0 \in 0 .. N /\ \A n \in 1 .. N : n \in 0 .. N /\ n # 0
  OBVIOUS
<1>8. m[0] = body(m, 0) /\ \A n \in 1 .. N : n # 0 /\ m[n] = body(m, n)
  BY <1>6, <1>7
<1>9. m[0] = Matcher(<<>>, s) /\ \A n \in 1 .. N : m[n] = Matcher(m[n - 1], s)
  BY <1>8 DEF body
<1> QED
  BY <1>9 DEF m

\* So a matcher that may be long enough does one step of the match.
LEMMA MatchStep ==
  ASSUME NEW N \in Nat, NEW s, NEW n \in 1 .. N, NEW r \in Seq(Token), NEW I \in SUBSET Nat
  PROVE  Matchers(N, s)[n][r][I] = Match(Matchers(N, s)[n - 1], r, s, I)
<1>1. Matchers(N, s)[n] = Matcher(Matchers(N, s)[n - 1], s)
  BY MatchersUnroll
<1> DEFINE shorter == Matchers(N, s)[n - 1]
<1> HIDE DEF shorter
<1>2. Matcher(shorter, s)[r][I] = Match(shorter, r, s, I)
  BY DEF Matcher
<1> QED
  BY <1>1, <1>2 DEF shorter

\* The empty expression is matched where it stands.
LEMMA MatchEmpty ==
  ASSUME NEW N \in Nat, NEW s, NEW n \in 0 .. N, NEW I \in SUBSET Nat
  PROVE  Matchers(N, s)[n][<<>>][I] = I
<1>1. <<>> \in Seq(Token)
  OBVIOUS
<1>2. \A shorter : Match(shorter, <<>>, s, I) = I
  BY DEF Match
<1>3. \A shorter : Matcher(shorter, s)[<<>>][I] = Match(shorter, <<>>, s, I)
  BY <1>1 DEF Matcher
<1>4. \E shorter : Matchers(N, s)[n] = Matcher(shorter, s)
  <2>1. CASE n = 0
    BY <2>1, MatchersUnroll
  <2>2. CASE n # 0
    BY <2>2, MatchersUnroll
  <2> QED
    BY <2>1, <2>2
<1> QED
  BY <1>2, <1>3, <1>4


(* What a piece takes *)

\* One step, and then any number.
LEMMA OneThenAny ==
  ASSUME NEW s, Len(s) \in Nat, NEW C \in SUBSET (1 .. Len(s)), NEW I \in SUBSET (1 .. Len(s) + 1)
  PROVE  OneBy(C, I) \in SUBSET (1 .. Len(s) + 1) /\ AnyBy(C, s, OneBy(C, I)) = SomeBy(C, s, I)
<1> DEFINE P == 1 .. Len(s) + 1
<1>1. ASSUME NEW m \in OneBy(C, I)
      PROVE  m \in P
  <2>1. PICK j \in I \cap C : m = j + 1
    BY DEF OneBy
  <2>2. j \in 1 .. Len(s)
    OBVIOUS
  <2> QED
    BY <2>1, <2>2
<1>2. ASSUME NEW k \in AnyBy(C, s, OneBy(C, I))
      PROVE  \E j \in I : j < k /\ j .. k - 1 \subseteq C
  <2>1. PICK m \in OneBy(C, I) : m <= k /\ m .. k - 1 \subseteq C
    BY DEF AnyBy
  <2>2. PICK j \in I \cap C : m = j + 1
    BY DEF OneBy
  <2>3. k \in P /\ j \in P
    BY DEF AnyBy
  <2>4. j < k /\ j .. k - 1 \subseteq C
    BY <2>1, <2>2, <2>3
  <2> QED
    BY <2>2, <2>4
<1>3. ASSUME NEW k \in P, NEW j \in I, j < k, j .. k - 1 \subseteq C
      PROVE  k \in AnyBy(C, s, OneBy(C, I))
  <2>1. j \in I \cap C /\ j + 1 <= k /\ (j + 1) .. k - 1 \subseteq C
    BY <1>3
  <2>2. j + 1 \in OneBy(C, I)
    BY <2>1 DEF OneBy
  <2> QED
    BY <2>1, <2>2 DEF AnyBy
<1>4. AnyBy(C, s, OneBy(C, I)) \subseteq P
  BY DEF AnyBy
<1>5. \A k : k \in SomeBy(C, s, I) <=> k \in P /\ \E j \in I : j < k /\ j .. k - 1 \subseteq C
  BY DEF SomeBy
<1>6. AnyBy(C, s, OneBy(C, I)) = SomeBy(C, s, I)
  BY <1>2, <1>3, <1>4, <1>5
<1> QED
  BY <1>1, <1>6

\* An atom of one character, as often as its mark says.
MarkedBy(C, s, mark, I) == IF mark = "+" THEN SomeBy(C, s, I) ELSE AnyBy(C, s, I)

LEMMA OftenTakes ==
  ASSUME NEW shorter, NEW atom, NEW s, Len(s) \in Nat, NEW C, TakenAt(shorter, atom, s, C),
         NEW I \in SUBSET (1 .. Len(s) + 1), NEW mark \in {"*", "+"}
  PROVE  Often(shorter, atom, s, mark, I) = MarkedBy(C, s, mark, I)
<1>1. C \in SUBSET (1 .. Len(s)) /\ Once(shorter, atom, s, I) = OneBy(C, I)
  BY DEF TakenAt
<1>2. OneBy(C, I) \in SUBSET (1 .. Len(s) + 1) /\ AnyBy(C, s, OneBy(C, I)) = SomeBy(C, s, I)
  BY <1>1, OneThenAny
<1>3. CASE mark = "+"
  BY <1>1, <1>2, <1>3, RepeatTakes DEF Often, MarkedBy
<1>4. CASE mark = "*"
  BY <1>4, RepeatTakes DEF Often, MarkedBy
<1> QED
  BY <1>3, <1>4

\* Before q, a piece leaves the text at the positions J.
Takes(shorter, piece, q, s, I, J) == Match(shorter, piece \o q, s, I) = shorter[q][J]

LEMMA CharacterTaken ==
  ASSUME NEW c \in Character, c \notin {"*", "?"}, NEW q, Sound(q), NEW shorter,
         NEW s, Len(s) \in Nat, NEW I \in SUBSET (1 .. Len(s) + 1)
  PROVE  Takes(shorter, <<Escape(c)>>, q, s, I, OneBy(AtIts(s, c), I))
<1> DEFINE a == <<Escape(c)>>
<1>1. /\ Escape(c) \in Token
      /\ Escape(c) \notin Openings \cup ClassOpenings \cup Quantifiers
                           \cup {"^", "$", ".", "|", "\\d", "\\Q"}
  BY Escapes
<1>2. a \in Seq(Token) /\ Len(a) = 1 /\ a[1] = Escape(c) /\ a # <<>>
  BY <1>1
<1> HIDE DEF a
<1>3. NoBars(a)
  BY <1>1, <1>2 DEF NoBars
<1>4. AtomEnd(a \o q) = Len(a)
  <2>1. (a \o q)[1] = Escape(c)
    BY <1>2, Gluing DEF Glued, Sound
  <2> QED
    BY <1>1, <1>2, <2>1 DEF AtomEnd
<1>5. Match(shorter, a \o q, s, I) = shorter[q][Once(shorter, a, s, I)]
  BY <1>1, <1>2, <1>3, <1>4, AtomOnce
<1>6. Once(shorter, a, s, I) = OneBy(AtIts(s, c), I)
  BY OnceCharacter DEF a
<1> QED
  BY <1>5, <1>6 DEF a, Takes

LEMMA AnyTaken ==
  ASSUME NEW mark \in {"*", "+"}, NEW q, Sound(q), NEW shorter,
         NEW s, Len(s) \in Nat, NEW I \in SUBSET (1 .. Len(s) + 1)
  PROVE  Takes(shorter, <<".", mark>>, q, s, I, MarkedBy(Anywhere(s), s, mark, I))
<1> DEFINE a == <<".">>
           C == Anywhere(s)
<1>1. "." \in Token /\ mark \in Token
  BY CharacterAssumption DEF Token, Meta, Quantifiers
<1>2. a \in Seq(Token) /\ Len(a) = 1 /\ a[1] = "." /\ a # <<>>
  BY <1>1
<1>3. <<".", mark>> = a \o <<mark>>
  OBVIOUS
<1> HIDE DEF a
<1>4. NoBars(a)
  BY <1>2 DEF NoBars
<1>5. AtomEnd((a \o <<mark>>) \o q) = Len(a)
  <2> DEFINE b == a \o <<mark>>
  <2>1. <<mark>> \in Seq(Token) /\ Len(<<mark>>) = 1
    BY <1>1
  <2>2. Glued(a, <<mark>>)
    BY <1>2, <2>1, Gluing
  <2>3. b \in Seq(Token) /\ Len(b) = 2 /\ b[1] = "."
    BY <1>2, <2>1, <2>2 DEF Glued
  <2> HIDE DEF b
  <2>4. Glued(b, q)
    BY <2>3, Gluing DEF Sound
  <2>5. (b \o q)[1] = "."
    BY <2>3, <2>4 DEF Glued
  <2>6. AtomEnd(b \o q) = Len(a)
    BY <1>2, <2>5 DEF AtomEnd, Openings, ClassOpenings
  <2> QED
    BY <2>6 DEF b
<1>6. Match(shorter, (a \o <<mark>>) \o q, s, I) = shorter[q][Often(shorter, a, s, mark, I)]
  <2>1. a[1] # "\\Q"
    BY <1>2
  <2> QED
    <3> DEFINE b == (a \o <<mark>>) \o q
    <3>1. AtomEnd(b) = Len(a)
      BY <1>5
    <3>2. a \in Seq(Token) /\ a # <<>> /\ NoBars(a)
      BY <1>2, <1>4
    <3>3. Match(shorter, b, s, I) = shorter[q][Often(shorter, a, s, mark, I)]
      BY <2>1, <3>1, <3>2, AtomOften
    <3> QED
      BY <3>3
<1>7. TakenAt(shorter, a, s, C)
  BY OnceAny DEF a, TakenAt, Anywhere
<1>8. Often(shorter, a, s, mark, I) = MarkedBy(C, s, mark, I)
  <2> HIDE DEF C
  <2> QED
    BY <1>7, OftenTakes
<1> QED
  BY <1>3, <1>6, <1>8 DEF Takes

LEMMA OtherTaken ==
  ASSUME NEW x \in {".", "/"}, NEW q, Sound(q), NEW shorter,
         NEW s, Len(s) \in Nat, NEW I \in SUBSET (1 .. Len(s) + 1)
  PROVE  /\ Takes(shorter, <<"[^", x, "]">>, q, s, I, OneBy(NotAt(s, x), I))
         /\ Takes(shorter, <<"[^", x, "]", "+">>, q, s, I, MarkedBy(NotAt(s, x), s, "+", I))
<1> DEFINE a == <<"[^", x, "]">>
           mark == "+"
           C == NotAt(s, x)
<1>1. "[^" \in Token /\ x \in Token /\ "]" \in Token /\ mark \in Token
  BY CharacterAssumption DEF Token, Compound, Meta, Quantifiers
<1>2. x # "|" /\ x \notin ClassOpenings \cup {"]"} /\ mark \in {"*", "+"}
  BY DEF ClassOpenings
<1>3. a \in Seq(Token) /\ Len(a) = 3 /\ a[1] = "[^" /\ a[2] = x /\ a[3] = "]" /\ a # <<>>
  BY <1>1
<1>4. <<"[^", x, "]", "+">> = a \o <<mark>>
  OBVIOUS
<1>5. TakenAt(shorter, a, s, C)
  BY OnceOther DEF TakenAt, NotAt
<1> HIDE DEF a, mark, C
<1>6. <<mark>> \in Seq(Token) /\ Len(<<mark>>) = 1
  BY <1>1
<1>7. NoBars(a)
  <2>1. \A i \in 1 .. 3 : i = 1 \/ i = 2 \/ i = 3
    OBVIOUS
  <2> QED
    BY <1>2, <1>3, <2>1 DEF NoBars
<1>8. ASSUME NEW t \in Seq(Token), Len(t) >= 3, t[1] = a[1], t[2] = a[2], t[3] = a[3]
      PROVE  AtomEnd(t) = Len(a)
  <2>1. t[1] \in ClassOpenings /\ t[2] \notin ClassOpenings \cup {"]"} /\ t[3] = "]"
    BY <1>2, <1>3, <1>8 DEF ClassOpenings
  <2> QED
    BY <1>3, <1>8, <2>1, ClassOfOne
<1>9. q \in Seq(Token) /\ Len(q) \in Nat
  BY DEF Sound
<1>10. AtomEnd(a \o q) = Len(a)
  <2>1. Glued(a, q)
    BY <1>3, <1>9, Gluing
  <2>2. a \o q \in Seq(Token) /\ Len(a \o q) >= 3
    BY <1>3, <1>9, <2>1 DEF Glued
  <2>3. (a \o q)[1] = a[1] /\ (a \o q)[2] = a[2] /\ (a \o q)[3] = a[3]
    BY <1>3, <2>1 DEF Glued
  <2> QED
    BY <1>8, <2>2, <2>3
<1>11. AtomEnd((a \o <<mark>>) \o q) = Len(a)
  <2> DEFINE b == a \o <<mark>>
  <2>1. Glued(a, <<mark>>)
    BY <1>3, <1>6, Gluing
  <2>2. b \in Seq(Token) /\ Len(b) = 4 /\ b[1] = a[1] /\ b[2] = a[2] /\ b[3] = a[3]
    BY <1>3, <1>6, <2>1 DEF Glued
  <2> HIDE DEF b
  <2>3. Glued(b, q)
    BY <1>9, <2>2, Gluing
  <2>4. b \o q \in Seq(Token) /\ Len(b \o q) >= 3
    BY <1>9, <2>2, <2>3 DEF Glued
  <2>5. (b \o q)[1] = a[1] /\ (b \o q)[2] = a[2] /\ (b \o q)[3] = a[3]
    BY <2>2, <2>3 DEF Glued
  <2>6. AtomEnd(b \o q) = Len(a)
    BY <1>8, <2>4, <2>5
  <2> QED
    BY <2>6 DEF b
<1>12. a[1] # "\\Q"
  BY <1>3
<1>13. Match(shorter, a \o q, s, I) = shorter[q][OneBy(C, I)]
  <2>1. Match(shorter, a \o q, s, I) = shorter[q][Once(shorter, a, s, I)]
    BY <1>3, <1>7, <1>10, <1>12, AtomOnce
  <2> QED
    BY <1>5, <2>1 DEF TakenAt
<1>14. Match(shorter, (a \o <<mark>>) \o q, s, I) = shorter[q][MarkedBy(C, s, mark, I)]
  <2>1. Match(shorter, (a \o <<mark>>) \o q, s, I) = shorter[q][Often(shorter, a, s, mark, I)]
    <3>1. mark \in {"*", "+"} /\ a \in Seq(Token) /\ a # <<>>
      BY <1>2, <1>3
    <3> QED
      BY <1>7, <1>11, <1>12, <3>1, AtomOften
  <2>2. Often(shorter, a, s, mark, I) = MarkedBy(C, s, mark, I)
    BY <1>2, <1>5, OftenTakes
  <2> QED
    BY <2>1, <2>2
<1> QED
  BY <1>4, <1>13, <1>14 DEF a, mark, C, Takes

\* The words for a separator.
Worded(words, separator) ==
  \/ words = DOMAIN_WORDS /\ separator = "."
  \/ words = PATH_WORDS /\ separator = "/"

\* Where a piece of the pattern leaves the text at.
Reached(p, i, s, separator, I) ==
  {k \in 1 .. Len(s) + 1 : \E j \in I : j <= k /\ StandsFor(p, i, s, j, k, separator)}

LEMMA StarsTaken ==
  ASSUME NEW words, NEW separator, Worded(words, separator), NEW p, NEW i, Stars(p, i),
         NEW q, Sound(q), NEW shorter, NEW s, Len(s) \in Nat, NEW I \in SUBSET (1 .. Len(s) + 1)
  PROVE  Takes(shorter, words.across, q, s, I, Reached(p, i, s, separator, I))
<1> DEFINE C == Anywhere(s)
<1>1. \A k \in 1 .. Len(s) + 1, j \in I : j .. k - 1 \subseteq C
  BY DEF Anywhere
<1> HIDE DEF C
<1>2. \A j, k : StandsFor(p, i, s, j, k, separator) <=> (k > j \/ separator = "/")
  <2>1. p[i] = "*"
    BY DEF Stars
  <2> QED
    BY <2>1 DEF StandsFor
<1>3. CASE words = DOMAIN_WORDS /\ separator = "."
  <2>1. words.across = <<".", "+">>
    BY <1>3 DEF DOMAIN_WORDS
  <2>2. Takes(shorter, <<".", "+">>, q, s, I, MarkedBy(C, s, "+", I))
    BY AnyTaken DEF C
  <2>3. MarkedBy(C, s, "+", I) = Reached(p, i, s, separator, I)
    <3>1. \A k : k \in SomeBy(C, s, I) <=> k \in Reached(p, i, s, separator, I)
      BY <1>1, <1>2, <1>3 DEF SomeBy, Reached
    <3> QED
      BY <3>1 DEF MarkedBy
  <2> QED
    BY <2>1, <2>2, <2>3 DEF Takes
<1>4. CASE words = PATH_WORDS /\ separator = "/"
  <2>1. words.across = <<".", "*">>
    BY <1>4 DEF PATH_WORDS
  <2>2. Takes(shorter, <<".", "*">>, q, s, I, MarkedBy(C, s, "*", I))
    BY AnyTaken DEF C
  <2>3. MarkedBy(C, s, "*", I) = Reached(p, i, s, separator, I)
    <3>1. \A k : k \in AnyBy(C, s, I) <=> k \in Reached(p, i, s, separator, I)
      BY <1>1, <1>2, <1>4 DEF AnyBy, Reached
    <3> QED
      BY <3>1 DEF MarkedBy
  <2> QED
    BY <2>1, <2>2, <2>3 DEF Takes
<1> QED
  BY <1>3, <1>4 DEF Worded

LEMMA PieceTaken ==
  ASSUME NEW words, NEW separator, Worded(words, separator), NEW p, NEW i, ~ Stars(p, i),
         p[i] \in Character,
         NEW q, Sound(q), NEW shorter, NEW s, Len(s) \in Nat, NEW I \in SUBSET (1 .. Len(s) + 1)
  PROVE  Takes(shorter, Piece(p[i], words), q, s, I, Reached(p, i, s, separator, I))
<1> DEFINE C == NotAt(s, separator)
<1>1. separator \in {".", "/"}
  BY DEF Worded
<1>2. /\ words.within = <<"[^", separator, "]", "+">>
      /\ words.single = <<"[^", separator, "]">>
  BY DEF Worded, DOMAIN_WORDS, PATH_WORDS
<1>3. /\ Takes(shorter, words.single, q, s, I, OneBy(C, I))
      /\ Takes(shorter, words.within, q, s, I, MarkedBy(C, s, "+", I))
  BY <1>1, <1>2, OtherTaken
<1>4. \A k \in 1 .. Len(s) + 1, j \in I : j .. k - 1 \subseteq C <=> Within(s, j, k, separator)
  BY DEF Within, NotAt
<1>5. CASE p[i] = "*"
  <2>1. \A j, k : StandsFor(p, i, s, j, k, separator) <=> (k > j /\ Within(s, j, k, separator))
    BY <1>5 DEF StandsFor
  <2>2. Piece(p[i], words) = words.within
    BY <1>5 DEF Piece
  <2>3. MarkedBy(C, s, "+", I) = Reached(p, i, s, separator, I)
    <3> HIDE DEF C
    <3>1. \A k : k \in SomeBy(C, s, I) <=> k \in Reached(p, i, s, separator, I)
      BY <1>4, <2>1 DEF SomeBy, Reached
    <3> QED
      BY <3>1 DEF MarkedBy
  <2> QED
    BY <1>3, <2>2, <2>3
<1>6. CASE p[i] = "?"
  <2>1. \A j, k : StandsFor(p, i, s, j, k, separator) <=> (k = j + 1 /\ Within(s, j, k, separator))
    BY <1>6 DEF StandsFor
  <2>2. Piece(p[i], words) = words.single
    BY <1>6 DEF Piece
  <2>3. \A j \in I : j \in C <=> j <= Len(s) /\ Within(s, j, j + 1, separator)
    BY DEF Within, NotAt
  <2>4. OneBy(C, I) = Reached(p, i, s, separator, I)
    <3>1. ASSUME NEW k \in OneBy(C, I)
          PROVE  k \in Reached(p, i, s, separator, I)
      <4>1. PICK j \in I \cap C : k = j + 1
        BY DEF OneBy
      <4>2. k \in 1 .. Len(s) + 1 /\ j <= k /\ Within(s, j, k, separator)
        BY <2>3, <4>1
      <4> QED
        BY <2>1, <4>1, <4>2 DEF Reached
    <3>2. ASSUME NEW k \in Reached(p, i, s, separator, I)
          PROVE  k \in OneBy(C, I)
      <4>1. PICK j \in I : k = j + 1 /\ Within(s, j, k, separator) /\ k \in 1 .. Len(s) + 1
        BY <2>1 DEF Reached
      <4>2. j \in I \cap C
        BY <2>3, <4>1
      <4> QED
        BY <4>1, <4>2 DEF OneBy
    <3> QED
      BY <3>1, <3>2
  <2> QED
    BY <1>3, <2>2, <2>4
<1>7. CASE p[i] \notin {"*", "?"}
  <2> DEFINE D == AtIts(s, p[i])
  <2>1. \A j, k : StandsFor(p, i, s, j, k, separator) <=> (k = j + 1 /\ s[j] = p[i])
    BY <1>7 DEF StandsFor
  <2>2. Piece(p[i], words) = <<Escape(p[i])>>
    BY <1>7 DEF Piece
  <2>3. Takes(shorter, <<Escape(p[i])>>, q, s, I, OneBy(D, I))
    BY <1>7, CharacterTaken
  <2>4. OneBy(D, I) = Reached(p, i, s, separator, I)
    <3>1. ASSUME NEW k \in OneBy(D, I)
          PROVE  k \in Reached(p, i, s, separator, I)
      <4>1. PICK j \in I \cap D : k = j + 1
        BY DEF OneBy
      <4>2. k \in 1 .. Len(s) + 1 /\ j <= k /\ s[j] = p[i]
        BY <4>1 DEF AtIts
      <4> QED
        BY <2>1, <4>1, <4>2 DEF Reached
    <3>2. ASSUME NEW k \in Reached(p, i, s, separator, I)
          PROVE  k \in OneBy(D, I)
      <4>1. PICK j \in I : k = j + 1 /\ s[j] = p[i] /\ k \in 1 .. Len(s) + 1
        BY <2>1 DEF Reached
      <4>2. j \in I \cap D
        BY <4>1 DEF AtIts
      <4> QED
        BY <4>1, <4>2 DEF OneBy
    <3> QED
      BY <3>1, <3>2
  <2> QED
    BY <2>2, <2>3, <2>4
<1> QED
  BY <1>5, <1>6, <1>7

(* The compiled wildcards, before whatever follows *)

\* What a match is asked for: an end of it, or the end of the text.
Ended(ends, s, whole) == IF whole THEN Len(s) + 1 \in ends ELSE ends # {}

\* What follows, t, is matched so from just those places in last.
Followed(N, s, t, last, whole) ==
  /\ Sound(t) /\ last \in SUBSET (1 .. Len(s) + 1)
  /\ \A m \in Len(t) .. N : \A I \in SUBSET (1 .. Len(s) + 1) :
       Ended(Matchers(N, s)[m][t][I], s, whole) <=> I \cap last # {}

\* Then the wildcards before it are matched from where what they stand for may
\* begin.
LEMMA WildcardsMatched ==
  ASSUME NEW words, NEW separator, Worded(words, separator), NEW p \in Seq(Character),
         NEW s, Len(s) \in Nat, NEW N \in Nat, NEW whole \in BOOLEAN, NEW t, NEW last,
         Followed(N, s, t, last, whole), NEW n \in 0 .. Len(p)
  PROVE  Followed(N, s, Suffixes(p, words)[n] \o t, Starts(p, s, separator, last)[n], whole)
<1> DEFINE L == Len(p)
           P == 1 .. Len(s) + 1
           c == Suffixes(p, words)
           b == Starts(p, s, separator, last)
           F(k) == Followed(N, s, c[k] \o t, b[k], whole)
           T == {k \in 0 .. L : F(k) /\ (k # 0 => F(k - 1))}
<1>1. L \in Nat
  OBVIOUS
<1>2. words \in Words
  BY DEF Worded, Words
<1>3. last \in SUBSET P /\ Sound(t) /\ t \in Seq(Token)
  BY DEF Followed, Sound
<1>4. /\ c \in [0 .. L -> Sounds] /\ c[0] = <<>>
      /\ \A k \in 1 .. L : c[k] = IF Stars(p, L - k + 1) THEN words.across \o c[k - 2]
                                  ELSE Piece(p[L - k + 1], words) \o c[k - 1]
  BY <1>2, Compiled
<1>5. /\ \A k \in 0 .. L : b[k] \in SUBSET P
      /\ b[0] = last
      /\ \A k \in 1 .. L :
           b[k] = {j \in P : \E e \in j .. Len(s) + 1 :
                     /\ e \in b[IF Stars(p, L - k + 1) THEN k - 2 ELSE k - 1]
                     /\ StandsFor(p, L - k + 1, s, j, e, separator)}
  BY <1>1, <1>3, Begun
<1> HIDE DEF c, b
<1>6. 0 \in T
  <2>1. c[0] \o t = t
    BY <1>3, <1>4, ConcatEmptySeq
  <2>2. F(0)
    BY <1>5, <2>1
  <2> QED
    BY <1>1, <2>2
\* One piece more.
<1>7. ASSUME NEW k \in 1 .. L, NEW rest \in 0 .. k - 1, F(rest),
             rest = IF Stars(p, L - k + 1) THEN k - 2 ELSE k - 1
      PROVE  F(k)
  <2> DEFINE i == L - k + 1
             q == c[rest] \o t
             piece == IF Stars(p, i) THEN words.across ELSE Piece(p[i], words)
  <2>1. i \in 1 .. L
    BY <1>1
  <2>2. p[i] \in Character
    BY <2>1
  <2>3. c[rest] \in Sounds /\ rest \in 0 .. L
    <3>1. rest \in 0 .. L
      BY <1>1
    <3> HIDE DEF L, i, q, piece
    <3> QED
      BY <1>4, <3>1
  <2>4. piece \in Sounds /\ piece # <<>>
    <3>1. piece \in Sounds
      BY <1>2, <2>2, PiecesSound
    <3>2. words.across # <<>> /\ words.within # <<>> /\ words.single # <<>>
      <4>1. CASE words = DOMAIN_WORDS
        BY <4>1 DEF DOMAIN_WORDS
      <4>2. CASE words = PATH_WORDS
        BY <4>2 DEF PATH_WORDS
      <4> QED
        BY <4>1, <4>2 DEF Worded
    <3>3. Piece(p[i], words) # <<>>
      BY <3>2 DEF Piece
    <3> QED
      BY <3>1, <3>2, <3>3
  <2>5. c[k] = piece \o c[rest]
    BY <1>4, <1>7
  <2> HIDE DEF piece, i
  <2>6. c[k] \o t = piece \o q
    <3>1. piece \in Seq(Token) /\ c[rest] \in Seq(Token)
      BY <2>3, <2>4 DEF Sounds
    <3>2. (piece \o c[rest]) \o t = piece \o (c[rest] \o t)
      <4> DEFINE d == c[rest]
      <4>1. piece \in Seq(Token) /\ d \in Seq(Token)
        BY <3>1
      <4>2. t \in Seq(Token)
        BY <1>3
      <4> HIDE DEF d, q
      <4>3. (piece \o d) \o t = piece \o (d \o t)
        BY <4>1, <4>2, Associated
      <4> QED
        BY <4>3 DEF d
    <3> QED
      BY <2>5, <3>2
  <2>7. Sound(q) /\ q \in Seq(Token)
    BY <1>3, <2>3, SoundTogether DEF Sounds, Sound
  <2> HIDE DEF q
  <2>8. Followed(N, s, q, b[rest], whole)
    BY <1>7 DEF q
  <2>9. Sound(piece \o q) /\ piece \o q \in Seq(Token) /\ Len(piece \o q) = Len(piece) + Len(q)
        /\ Len(piece) \in Nat \ {0} /\ Len(q) \in Nat
    <3>1. Sound(piece \o q)
      BY <2>4, <2>7, SoundTogether DEF Sounds
    <3>2. Glued(piece, q)
      BY <2>4, <2>7, Gluing DEF Sounds
    <3> QED
      BY <2>4, <2>7, <3>1, <3>2 DEF Glued, Sounds
  <2>10. ASSUME NEW m \in Len(piece \o q) .. N, NEW I \in SUBSET P
         PROVE  Ended(Matchers(N, s)[m][piece \o q][I], s, whole) <=> I \cap b[k] # {}
    <3> DEFINE shorter == Matchers(N, s)[m - 1]
               J == Reached(p, i, s, separator, I)
    <3>1. m \in 1 .. N /\ m - 1 \in Len(q) .. N
      BY <2>9
    <3>2. I \in SUBSET Nat
      OBVIOUS
    <3>3. Matchers(N, s)[m][piece \o q][I] = Match(shorter, piece \o q, s, I)
      <4> DEFINE r == piece \o q
      <4>1. r \in Seq(Token)
        BY <2>9
      <4> HIDE DEF r
      <4>2. Matchers(N, s)[m][r][I] = Match(Matchers(N, s)[m - 1], r, s, I)
        BY <3>1, <3>2, <4>1, MatchStep
      <4> QED
        BY <4>2 DEF r
    <3> HIDE DEF shorter
    <3>4. Match(shorter, piece \o q, s, I) = shorter[q][J]
      <4>1. CASE Stars(p, i)
        <5>1. piece = words.across
          BY <4>1 DEF piece
        <5>2. Takes(shorter, words.across, q, s, I, Reached(p, i, s, separator, I))
          BY <2>7, <4>1, StarsTaken
        <5> QED
          BY <5>1, <5>2 DEF Takes, J
      <4>2. CASE ~ Stars(p, i)
        <5>1. piece = Piece(p[i], words)
          BY <4>2 DEF piece
        <5>2. p[i] \in Character
          BY <2>2 DEF i
        <5>3. Takes(shorter, Piece(p[i], words), q, s, I, Reached(p, i, s, separator, I))
          BY <2>7, <4>2, <5>2, PieceTaken
        <5> QED
          BY <5>1, <5>3 DEF Takes, J
      <4> QED
        BY <4>1, <4>2
    <3>5. J \in SUBSET P
      BY DEF Reached
    <3> HIDE DEF J
    <3>6. Ended(shorter[q][J], s, whole) <=> J \cap b[rest] # {}
      BY <2>8, <3>1, <3>5 DEF Followed, shorter
    <3>7. J \cap b[rest] # {} <=> I \cap b[k] # {}
      <4>1. \A j : j \in b[k] <=>
              /\ j \in P
              /\ \E e \in j .. Len(s) + 1 : e \in b[rest] /\ StandsFor(p, i, s, j, e, separator)
        BY <1>5, <1>7 DEF i
      <4>2. \A e : e \in J <=>
              e \in P /\ \E j \in I : j <= e /\ StandsFor(p, i, s, j, e, separator)
        BY DEF J, Reached
      <4>3. ASSUME NEW e \in J \cap b[rest]
            PROVE  I \cap b[k] # {}
        <5>1. PICK j \in I : j <= e /\ StandsFor(p, i, s, j, e, separator)
          BY <4>2
        <5>2. j \in P /\ e \in j .. Len(s) + 1
          BY <4>2, <5>1
        <5> QED
          BY <4>1, <5>1, <5>2
      <4>4. ASSUME NEW j \in I \cap b[k]
            PROVE  J \cap b[rest] # {}
        <5>1. PICK e \in j .. Len(s) + 1 : e \in b[rest] /\ StandsFor(p, i, s, j, e, separator)
          BY <4>1
        <5>2. j \in P /\ e \in P /\ j <= e
          <6>1. j \in P
            BY <4>4
          <6> QED
            BY <5>1, <6>1
        <5> QED
          BY <4>2, <5>1, <5>2
      <4> QED
        BY <4>3, <4>4
    <3> QED
      BY <3>3, <3>4, <3>6, <3>7
  <2>11. b[k] \in SUBSET P
    BY <1>5
  <2> QED
    BY <2>6, <2>9, <2>10, <2>11 DEF Followed
<1>8. ASSUME NEW k \in 0 .. L - 1, k \in T
      PROVE  k + 1 \in T
  <2>1. k + 1 \in 1 .. L /\ (k + 1) - 1 = k /\ (k + 1) - 2 = k - 1 /\ L - (k + 1) + 1 = L - k
    BY <1>1
  <2>2. F(k) /\ (k # 0 => F(k - 1))
    BY <1>8
  <2>3. Stars(p, L - k) => k # 0
    BY <1>1 DEF Stars
  <2> HIDE DEF F
  <2>4. F(k + 1)
    <3>1. CASE Stars(p, L - k)
      <4>1. k - 1 \in 0 .. (k + 1) - 1 /\ F(k - 1)
        BY <2>1, <2>2, <2>3, <3>1
      <4> QED
        BY <1>7, <2>1, <3>1, <4>1
    <3>2. CASE ~ Stars(p, L - k)
      <4>1. k \in 0 .. (k + 1) - 1
        BY <1>1
      <4> QED
        BY <1>7, <2>1, <2>2, <3>2, <4>1
    <3> QED
      BY <3>1, <3>2
  <2> QED
    BY <1>1, <2>1, <2>2, <2>4
<1>9. 0 .. L \subseteq T
  <2> HIDE DEF T
  <2> QED
    BY <1>1, <1>6, <1>8, UpTo
<1> QED
  BY <1>9 DEF c, b

(* Between the ends of the text *)

LEMMA AnchorTaken ==
  ASSUME NEW x \in {"^", "$"}, NEW q, Sound(q), NEW shorter, NEW s, NEW I
  PROVE  Takes(shorter, <<x>>, q, s, I, IF x = "^" THEN I \cap {1} ELSE I \cap {Len(s) + 1})
<1> DEFINE a == <<x>>
<1>1. x \in Token /\ x \notin Openings \cup ClassOpenings \cup {"|", "\\Q", ".", "\\d"}
  BY CharacterAssumption DEF Token, Meta, Openings, ClassOpenings
<1>2. a \in Seq(Token) /\ Len(a) = 1 /\ a[1] = x /\ a # <<>>
  BY <1>1
<1> HIDE DEF a
<1>3. NoBars(a)
  BY <1>1, <1>2 DEF NoBars
<1>4. AtomEnd(a \o q) = Len(a)
  <2>1. (a \o q)[1] = x
    BY <1>2, Gluing DEF Glued, Sound
  <2> QED
    BY <1>1, <1>2, <2>1 DEF AtomEnd
<1>5. Match(shorter, a \o q, s, I) = shorter[q][Once(shorter, a, s, I)]
  BY <1>1, <1>2, <1>3, <1>4, AtomOnce
<1>6. Once(shorter, a, s, I) = IF x = "^" THEN I \cap {1} ELSE I \cap {Len(s) + 1}
  BY <1>1, <1>2 DEF Once
<1> QED
  BY <1>5, <1>6 DEF a, Takes

\* An end, and nothing, are matched from the end of the text.
LEMMA EndFollows ==
  ASSUME NEW s, Len(s) \in Nat, NEW N \in Nat
  PROVE  Followed(N, s, <<"$">>, {Len(s) + 1}, FALSE)
<1> DEFINE t == <<"$">>
           e == Len(s) + 1
<1>1. t \in Seq(Token) /\ Len(t) = 1 /\ Sound(t)
  <2>1. "$" \in Token
    BY CharacterAssumption DEF Token, Meta
  <2> QED
    BY <2>1 DEF Sound, NoBars, Quantifiers
<1>2. Sound(<<>>)
  BY DEF Sound, NoBars
<1>3. t \o <<>> = t
  OBVIOUS
<1>4. ASSUME NEW m \in Len(t) .. N, NEW I \in SUBSET (1 .. Len(s) + 1)
      PROVE  Ended(Matchers(N, s)[m][t][I], s, FALSE) <=> I \cap {e} # {}
  <2> DEFINE shorter == Matchers(N, s)[m - 1]
             J == I \cap {e}
  <2>1. m \in 1 .. N /\ m - 1 \in 0 .. N /\ I \in SUBSET Nat /\ J \in SUBSET Nat
    BY <1>1
  <2> HIDE DEF t
  <2>2. Matchers(N, s)[m][t][I] = Match(shorter, t, s, I)
    BY <1>1, <2>1, MatchStep
  <2>3. shorter[<<>>][J] = J
    BY <2>1, MatchEmpty
  <2> HIDE DEF shorter
  <2>4. Takes(shorter, t, <<>>, s, I, J)
    BY <1>2, AnchorTaken DEF t
  <2> QED
    BY <1>3, <2>2, <2>3, <2>4 DEF Takes, Ended
<1>5. {e} \in SUBSET (1 .. Len(s) + 1)
  OBVIOUS
<1> HIDE DEF t
<1>6. Followed(N, s, t, {e}, FALSE)
  BY <1>1, <1>4, <1>5 DEF Followed
<1> QED
  BY <1>6 DEF t

LEMMA NothingFollows ==
  ASSUME NEW s, Len(s) \in Nat, NEW N \in Nat
  PROVE  Followed(N, s, <<>>, {Len(s) + 1}, TRUE)
<1>1. Sound(<<>>) /\ Len(<<>>) = 0
  BY DEF Sound, NoBars
<1>2. ASSUME NEW m \in 0 .. N, NEW I \in SUBSET (1 .. Len(s) + 1)
      PROVE  Ended(Matchers(N, s)[m][<<>>][I], s, TRUE) <=> I \cap {Len(s) + 1} # {}
  <2>1. I \in SUBSET Nat
    OBVIOUS
  <2>2. Matchers(N, s)[m][<<>>][I] = I
    BY <2>1, MatchEmpty
  <2> QED
    BY <2>2 DEF Ended
<1>3. {Len(s) + 1} \in SUBSET (1 .. Len(s) + 1)
  OBVIOUS
<1> DEFINE t == <<>>
<1> HIDE DEF t
<1>4. Followed(N, s, t, {Len(s) + 1}, TRUE)
  BY <1>1, <1>2, <1>3 DEF Followed, t
<1> QED
  BY <1>4 DEF t

\* What is anchored at the start is found just there.
LEMMA FoundAtStart ==
  ASSUME NEW s, Len(s) \in Nat, NEW q, NEW last, Followed(Len(q) + 1, s, q, last, FALSE)
  PROVE  Finds(<<"^">> \o q, s) <=> 1 \in last
<1> DEFINE r == <<"^">> \o q
           N == Len(q) + 1
           P == 1 .. Len(s) + 1
           shorter == Matchers(N, s)[N - 1]
<1>1. Sound(q) /\ q \in Seq(Token) /\ Len(q) \in Nat /\ last \in SUBSET P
  BY DEF Followed, Sound
<1>2. "^" \in Token /\ <<"^">> \in Seq(Token) /\ Len(<<"^">>) = 1
  <2>1. "^" \in Token
    BY CharacterAssumption DEF Token, Meta
  <2> QED
    BY <2>1
<1>3. r \in Seq(Token) /\ Len(r) = N
  <2>1. Glued(<<"^">>, q)
    BY <1>1, <1>2, Gluing
  <2> QED
    BY <1>1, <1>2, <2>1 DEF Glued
<1>4. Takes(shorter, <<"^">>, q, s, P, P \cap {1})
  BY <1>1, AnchorTaken
<1>5. Matchers(N, s)[N][r][P] = Match(shorter, r, s, P)
  <2>1. N \in 1 .. N /\ P \in SUBSET Nat /\ N \in Nat
    BY <1>1
  <2> HIDE DEF N, P, r
  <2> QED
    BY <1>3, <2>1, MatchStep
<1>6. P \cap {1} = {1} /\ {1} \in SUBSET P
  OBVIOUS
<1>7. Ends(r, s, P) = shorter[q][{1}]
  <2> HIDE DEF N, P, shorter
  <2> QED
    BY <1>3, <1>4, <1>5, <1>6 DEF Ends, Takes
<1>8. N - 1 \in Len(q) .. N
  BY <1>1
<1>9. Ended(shorter[q][{1}], s, FALSE) <=> {1} \cap last # {}
  <2> HIDE DEF N
  <2> QED
    BY <1>6, <1>8 DEF Followed, N
<1> HIDE DEF r, shorter
<1> QED
  BY <1>7, <1>9 DEF Finds, Ended, r

\* The compiled wildcards match a text they mean, as a whole.
LEMMA WildcardsSpan ==
  ASSUME NEW words, NEW separator, Worded(words, separator), NEW p \in Seq(Character),
         NEW s, Len(s) \in Nat
  PROVE  Spans(atomToRegex(p, words), s) = Means(p, s, separator)
<1> DEFINE r == atomToRegex(p, words)
           N == Len(r)
           last == {Len(s) + 1}
           b == Starts(p, s, separator, last)[Len(p)]
<1>1. words \in Words /\ Len(p) \in 0 .. Len(p)
  BY DEF Worded, Words
<1>2. r \in Seq(Token) /\ N \in Nat
  BY <1>1, RegexSound DEF Sounds
<1>3. Followed(N, s, r, b, TRUE)
  <2>1. Followed(N, s, <<>>, last, TRUE)
    BY <1>2, NothingFollows
  <2> DEFINE c == Suffixes(p, words)[Len(p)]
             whole == TRUE
  <2> HIDE DEF N, last
  <2>2. Followed(N, s, c \o <<>>, b, whole)
    <3> DEFINE t == <<>>
    <3>1. whole \in BOOLEAN /\ Followed(N, s, t, last, whole)
      BY <2>1
    <3> HIDE DEF t, whole
    <3> QED
      BY <1>1, <1>2, <3>1, WildcardsMatched DEF t
  <2>3. c \o <<>> = r
    BY <1>2, ConcatEmptySeq DEF atomToRegex
  <2> HIDE DEF c, r
  <2> QED
    BY <2>2, <2>3
<1>4. {1} \in SUBSET (1 .. Len(s) + 1) /\ N \in Len(r) .. N
  BY <1>2
<1> HIDE DEF r, N, b
<1>5. Ended(Matchers(N, s)[N][r][{1}], s, TRUE) <=> {1} \cap b # {}
  BY <1>3, <1>4 DEF Followed
<1>6. Len(s) + 1 \in Matchers(N, s)[N][r][{1}] <=> 1 \in b
  BY <1>5 DEF Ended
<1>7. Spans(r, s) <=> 1 \in b
  BY <1>6 DEF Spans, Ends, N
<1> QED
  BY <1>7 DEF Spans, Means, b, r

\* Anchored at the start, and before a t, they are found there.
LEMMA WildcardsBefore ==
  ASSUME NEW words, NEW separator, Worded(words, separator), NEW p \in Seq(Character),
         NEW s, Len(s) \in Nat, NEW t, NEW last, \A N \in Nat : Followed(N, s, t, last, FALSE)
  PROVE  Finds(<<"^">> \o (atomToRegex(p, words) \o t), s)
           <=> 1 \in Starts(p, s, separator, last)[Len(p)]
<1> DEFINE c == atomToRegex(p, words)
           q == c \o t
           b == Starts(p, s, separator, last)[Len(p)]
           whole == FALSE
<1>1. words \in Words /\ Len(p) \in 0 .. Len(p)
  BY DEF Worded, Words
<1>2. Sound(t)
  BY DEF Followed
<1>3. Sound(q) /\ Len(q) + 1 \in Nat
  <2>1. Sound(c)
    BY <1>1, RegexSound DEF Sounds
  <2> HIDE DEF c
  <2>2. Sound(q)
    BY <1>2, <2>1, SoundTogether
  <2> HIDE DEF q
  <2> QED
    BY <2>2 DEF Sound
<1>4. Followed(Len(q) + 1, s, q, b, FALSE)
  <2> DEFINE N == Len(q) + 1
  <2>1. Followed(N, s, t, last, whole) /\ whole \in BOOLEAN
    BY <1>3
  <2> HIDE DEF N, whole
  <2>2. Followed(N, s, Suffixes(p, words)[Len(p)] \o t, b, whole)
    BY <1>1, <1>3, <2>1, WildcardsMatched DEF N
  <2> QED
    BY <2>2 DEF N, whole, atomToRegex
<1> HIDE DEF q, b
<1>5. Finds(<<"^">> \o q, s) <=> 1 \in b
  BY <1>4, FoundAtStart
<1> QED
  BY <1>5 DEF q, b

\* Between anchors, in a text they mean.
LEMMA WildcardsFound ==
  ASSUME NEW words, NEW separator, Worded(words, separator), NEW p \in Seq(Character),
         NEW s, Len(s) \in Nat
  PROVE  Finds(<<"^">> \o atomToRegex(p, words) \o <<"$">>, s) = Means(p, s, separator)
<1> DEFINE c == atomToRegex(p, words)
           t == <<"$">>
           a == <<"^">>
           last == {Len(s) + 1}
<1>1. \A N \in Nat : Followed(N, s, t, last, FALSE)
  BY EndFollows
<1>2. c \in Seq(Token) /\ t \in Seq(Token) /\ a \in Seq(Token)
  <2>1. c \in Seq(Token)
    BY RegexSound DEF Sounds, Worded, Words
  <2>2. "$" \in Token /\ "^" \in Token
    BY CharacterAssumption DEF Token, Meta
  <2> QED
    BY <2>1, <2>2
<1> HIDE DEF t, last
<1>3. Finds(<<"^">> \o (c \o t), s) <=> 1 \in Starts(p, s, separator, last)[Len(p)]
  BY <1>1, WildcardsBefore
<1> HIDE DEF c, a
<1>4. (a \o c) \o t = a \o (c \o t)
  BY <1>2, ConcatAssociative
<1>5. Finds(a \o c \o t, s) <=> 1 \in Starts(p, s, separator, last)[Len(p)]
  BY <1>3, <1>4 DEF a
<1> QED
  BY <1>5 DEF Means, Finds, a, c, t, last

(* In lower case *)

LEMMA LoweredTogether ==
  ASSUME NEW a \in Seq(Token), NEW q \in Seq(Token)
  PROVE  Lowered(a \o q) = Lowered(a) \o Lowered(q)
<1> DEFINE b == a \o q
           l == Lowered(a)
           m == Lowered(q)
<1>1. Glued(a, q)
  BY Gluing
<1>2. Len(a) \in Nat /\ Len(q) \in Nat
  OBVIOUS
<1>3. Len(b) = Len(a) + Len(q) /\ (\A i \in 1 .. Len(a) : b[i] = a[i])
      /\ \A i \in 1 .. Len(q) : b[Len(a) + i] = q[i]
  BY <1>1 DEF Glued
<1> DEFINE S == {Lower(x) : x \in Token}
<1>4. /\ l \in Seq(S) /\ Len(l) = Len(a) /\ \A i \in 1 .. Len(a) : l[i] = Lower(a[i])
      /\ m \in Seq(S) /\ Len(m) = Len(q) /\ \A i \in 1 .. Len(q) : m[i] = Lower(q[i])
  BY DEF Lowered
<1> HIDE DEF l, m, S
<1>5. /\ l \o m \in Seq(S) /\ Len(l \o m) = Len(a) + Len(q)
      /\ \A i \in 1 .. Len(a) : (l \o m)[i] = l[i]
      /\ \A i \in 1 .. Len(q) : (l \o m)[Len(a) + i] = m[i]
  <2>1. /\ l \o m \in Seq(S) /\ Len(l \o m) = Len(l) + Len(m)
        /\ \A i \in 1 .. Len(l) : (l \o m)[i] = l[i]
        /\ \A i \in 1 .. Len(m) : (l \o m)[Len(l) + i] = m[i]
    <3>1. l \in Seq(S) /\ m \in Seq(S)
      BY <1>4
    <3> QED
      BY <3>1, ComesApart
  <2> QED
    BY <1>4, <2>1
<1>6. b \in Seq(Token)
  BY <1>1 DEF Glued
<1>7. Lowered(b) \in Seq(S) /\ Len(Lowered(b)) = Len(b) /\ \A i \in 1 .. Len(b) : Lowered(b)[i] = Lower(b[i])
  <2> HIDE DEF b
  <2> QED
    BY <1>6 DEF Lowered, S
<1> DEFINE n == l \o m
<1> HIDE DEF b, n
<1>8. \A i \in 1 .. Len(b) : Lowered(b)[i] = n[i]
  <2>1. SUFFICES ASSUME NEW i \in 1 .. Len(b)
                 PROVE  Lower(b[i]) = n[i]
    BY <1>7
  <2>2. CASE i <= Len(a)
    BY <1>2, <1>3, <1>4, <1>5, <2>2 DEF n
  <2>3. CASE ~ i <= Len(a)
    <3> DEFINE k == i - Len(a)
    <3>1. k \in 1 .. Len(q) /\ i = Len(a) + k
      BY <1>2, <1>3, <2>3
    <3> HIDE DEF k
    <3>2. b[i] = q[k] /\ m[k] = Lower(q[k]) /\ n[i] = m[k]
      BY <1>3, <1>4, <1>5, <3>1 DEF n
    <3> QED
      BY <3>2
  <2> QED
    BY <2>2, <2>3
<1>9. n \in Seq(S) /\ Len(n) = Len(b)
  BY <1>3, <1>5 DEF n
<1>10. Lowered(b) = n
  <2> DEFINE u == Lowered(b)
  <2> HIDE DEF u
  <2>1. u \in Seq(S) /\ Len(u) = Len(n) /\ \A i \in 1 .. Len(u) : u[i] = n[i]
    BY <1>7, <1>8, <1>9 DEF u
  <2>2. u = n
    BY <1>9, <2>1, SeqEqual
  <2> QED
    BY <2>2 DEF u
<1> QED
  BY <1>10 DEF b, l, m, n

LEMMA LoweredPieces ==
  ASSUME NEW words \in Words
  PROVE  /\ Lowered(words.across) = words.across
         /\ \A c \in Character : Lower(c) \in Character
                                 /\ Piece(Lower(c), words) = Lowered(Piece(c, words))
<1>1. /\ Lowered(words.across) = words.across /\ Lowered(words.within) = words.within
      /\ Lowered(words.single) = words.single
  <2> DEFINE Same(w) == \A i \in 1 .. Len(w) : w[i] # "A"
  <2>1. \A w : w = [i \in 1 .. Len(w) |-> w[i]] /\ Same(w) => Lowered(w) = w
    BY DEF Lowered, Lower
  <2>2. ASSUME NEW x \in {".", "/"}, NEW y \in {"+", "*"}
        PROVE  /\ Lowered(<<".", y>>) = <<".", y>>
               /\ Lowered(<<"[^", x, "]", "+">>) = <<"[^", x, "]", "+">>
               /\ Lowered(<<"[^", x, "]">>) = <<"[^", x, "]">>
    BY DEF Lowered, Lower
  <2>3. CASE words = DOMAIN_WORDS
    BY <2>2, <2>3 DEF DOMAIN_WORDS
  <2>4. CASE words = PATH_WORDS
    BY <2>2, <2>4 DEF PATH_WORDS
  <2> QED
    BY <2>3, <2>4 DEF Words
<1>2. ASSUME NEW c \in Character
      PROVE  Lower(c) \in Character /\ Piece(Lower(c), words) = Lowered(Piece(c, words))
  <2>1. Lower(c) \in Character
    BY CharacterAssumption DEF Lower
  <2>2. Escape(Lower(c)) = Lower(Escape(c))
    <3>1. CASE c = "A"
      BY <3>1 DEF Escape, Lower
    <3>2. CASE c # "A"
      <4>1. Lower(c) = c
        BY <3>2 DEF Lower
      <4>2. Escape(c) # "A"
        <5>1. CASE c \in Meta
          BY <5>1 DEF Meta, Escape
        <5>2. CASE c \notin Meta
          BY <3>2, <5>2 DEF Meta, Escape
        <5> QED
          BY <5>1, <5>2
      <4> QED
        BY <4>1, <4>2 DEF Lower
    <3> QED
      BY <3>1, <3>2
  <2>3. CASE c = "*" \/ c = "?"
    <3>1. Lower(c) = c
      BY <2>3 DEF Lower
    <3> QED
      BY <1>1, <2>1, <2>3, <3>1 DEF Piece
  <2>4. CASE c # "*" /\ c # "?"
    <3>1. Lower(c) # "*" /\ Lower(c) # "?"
      BY <2>4 DEF Lower
    <3>2. Piece(Lower(c), words) = <<Escape(Lower(c))>> /\ Piece(c, words) = <<Escape(c)>>
      BY <2>4, <3>1 DEF Piece
    <3>3. Lowered(<<Escape(c)>>) = <<Lower(Escape(c))>>
      BY DEF Lowered
    <3> QED
      BY <2>1, <2>2, <3>2, <3>3
  <2> QED
    BY <2>3, <2>4
<1> QED
  BY <1>1, <1>2

LEMMA LoweredPattern ==
  ASSUME NEW p \in Seq(Character)
  PROVE  /\ Lowered(p) \in Seq(Character) /\ Len(Lowered(p)) = Len(p)
         /\ \A i \in 1 .. Len(p) : Lowered(p)[i] = Lower(p[i])
         /\ \A i \in 1 .. Len(p) : Stars(Lowered(p), i) <=> Stars(p, i)
<1>1. \A c \in Character : Lower(c) \in Character
  BY CharacterAssumption DEF Lower
<1>2. /\ Lowered(p) \in Seq(Character) /\ Len(Lowered(p)) = Len(p)
      /\ \A i \in 1 .. Len(p) : Lowered(p)[i] = Lower(p[i])
  BY <1>1 DEF Lowered
<1>3. \A c : Lower(c) = "*" <=> c = "*"
  BY DEF Lower
<1>4. ASSUME NEW i \in 1 .. Len(p)
      PROVE  Stars(Lowered(p), i) <=> Stars(p, i)
  <2>1. CASE i < Len(p)
    <3>1. i + 1 \in 1 .. Len(p)
      BY <2>1
    <3> QED
      BY <1>2, <1>3, <3>1 DEF Stars
  <2>2. CASE ~ i < Len(p)
    BY <1>2, <2>2 DEF Stars
  <2> QED
    BY <2>1, <2>2
<1> QED
  BY <1>2, <1>4

\* What holds of zero, and of a number where it holds of those before it.
LEMMA UpToOverTwo ==
  ASSUME NEW N \in Nat, NEW T, 0 \in T,
         \A k \in 1 .. N : (k - 1 \in T /\ (k > 1 => k - 2 \in T)) => k \in T
  PROVE  0 .. N \subseteq T
<1> DEFINE U == {k \in 0 .. N : k \in T /\ (k > 0 => k - 1 \in T)}
<1>1. 0 \in U
  OBVIOUS
<1>2. ASSUME NEW k \in 0 .. N - 1, k \in U
      PROVE  k + 1 \in U
  <2>1. k + 1 \in 1 .. N /\ (k + 1) - 1 = k /\ (k + 1) - 2 = k - 1
    OBVIOUS
  <2>2. k \in T /\ (k + 1 > 1 => (k + 1) - 2 \in T)
    BY <1>2, <2>1
  <2>3. k + 1 \in T
    BY <2>1, <2>2
  <2> QED
    BY <2>1, <2>2, <2>3
<1>3. 0 .. N \subseteq U
  <2> HIDE DEF U
  <2> QED
    BY <1>1, <1>2, UpTo
<1> QED
  BY <1>3

\* To compile in lower case is to lower what was compiled.
LEMMA CompiledLowered ==
  ASSUME NEW words \in Words, NEW p \in Seq(Character)
  PROVE  atomToRegex(Lowered(p), words) = Lowered(atomToRegex(p, words))
<1> DEFINE L == Len(p)
           c == Suffixes(p, words)
           d == Suffixes(Lowered(p), words)
           T == {n \in 0 .. L : d[n] = Lowered(c[n])}
<1>1. Lowered(p) \in Seq(Character) /\ Len(Lowered(p)) = L /\ L \in Nat
      /\ \A i \in 1 .. L : Lowered(p)[i] = Lower(p[i]) /\ (Stars(Lowered(p), i) <=> Stars(p, i))
  BY LoweredPattern
<1>2. /\ c \in [0 .. L -> Sounds] /\ c[0] = <<>>
      /\ \A k \in 1 .. L : c[k] = IF Stars(p, L - k + 1) THEN words.across \o c[k - 2]
                                  ELSE Piece(p[L - k + 1], words) \o c[k - 1]
  BY Compiled
<1>3. /\ d[0] = <<>>
      /\ \A k \in 1 .. L : d[k] = IF Stars(Lowered(p), L - k + 1) THEN words.across \o d[k - 2]
                                  ELSE Piece(Lowered(p)[L - k + 1], words) \o d[k - 1]
  BY <1>1, Compiled
<1> HIDE DEF c, d
<1>4. 0 \in T
  BY <1>1, <1>2, <1>3 DEF Lowered
<1>5. ASSUME NEW k \in 1 .. L, k - 1 \in T, k > 1 => k - 2 \in T
      PROVE  k \in T
  <2> DEFINE i == L - k + 1
  <2>1. i \in 1 .. L /\ (Stars(p, i) => k > 1)
    BY <1>1 DEF Stars
  <2>2. p[i] \in Character /\ k - 1 \in 0 .. L
    BY <1>1, <2>1
  <2>3. CASE Stars(p, i)
    <3>1. c[k] = words.across \o c[k - 2] /\ d[k] = words.across \o d[k - 2]
      <4>1. Stars(Lowered(p), i)
        BY <1>1, <2>1, <2>3
      <4> QED
        BY <1>2, <1>3, <2>3, <4>1
    <3>4. k - 2 \in 0 .. L /\ k - 2 \in T
      BY <1>1, <1>5, <2>1, <2>3
    <3>2. words.across \in Seq(Token) /\ c[k - 2] \in Seq(Token)
      BY <1>2, <3>4, PiecesSound DEF Sounds
    <3>3. Lowered(c[k]) = Lowered(words.across) \o Lowered(c[k - 2])
      BY <3>1, <3>2, LoweredTogether
    <3> QED
      <4>1. d[k] = Lowered(c[k])
        BY <3>1, <3>3, <3>4, LoweredPieces
      <4> QED
        BY <4>1
  <2>4. CASE ~ Stars(p, i)
    <3> DEFINE piece == Piece(p[i], words)
    <3>1. c[k] = piece \o c[k - 1] /\ d[k] = Piece(Lower(p[i]), words) \o d[k - 1]
      BY <1>1, <1>2, <1>3, <2>1, <2>4
    <3>2. piece \in Seq(Token) /\ c[k - 1] \in Seq(Token)
      BY <1>2, <2>2, PiecesSound DEF Sounds
    <3>3. Piece(Lower(p[i]), words) = Lowered(piece)
      BY <2>2, LoweredPieces
    <3> HIDE DEF piece
    <3>4. Lowered(c[k]) = Lowered(piece) \o Lowered(c[k - 1])
      BY <3>1, <3>2, LoweredTogether
    <3> QED
      <4>1. d[k] = Lowered(c[k])
        BY <1>5, <3>1, <3>3, <3>4
      <4> QED
        BY <4>1
  <2> QED
    BY <2>3, <2>4
<1>6. 0 .. L \subseteq T
  <2> HIDE DEF T
  <2> QED
    BY <1>1, <1>4, <1>5, UpToOverTwo
<1>7. d[L] = Lowered(c[L])
  BY <1>1, <1>6
<1> QED
  BY <1>1, <1>7 DEF atomToRegex, c, d

\* A rule of a path is one from the root.
LEMMA UnderRoot ==
  ASSUME NEW r \in Seq(Character)
  PROVE  <<"/">> \o r \in Seq(Character)
<1>1. "/" \in Character
  BY CharacterAssumption
<1>2. <<"/">> \in Seq(Character)
  BY <1>1
<1> QED
  BY <1>2, ConcatProperties

\* A domain is compiled as written, and matched in lower case.
LEMMA DomainSpans ==
  ASSUME NEW d \in Seq(Character), NEW n \in Seq(Character)
  PROVE  Spans(Lowered(atomToRegex(d, DOMAIN_WORDS)), n) = Means(Lowered(d), n, ".")
<1>1. Worded(DOMAIN_WORDS, ".") /\ DOMAIN_WORDS \in Words
  BY DEF Worded, Words
<1>2. Lowered(d) \in Seq(Character)
  BY LoweredPattern
<1>3. Lowered(atomToRegex(d, DOMAIN_WORDS)) = atomToRegex(Lowered(d), DOMAIN_WORDS)
  BY <1>1, CompiledLowered
<1> QED
  BY <1>1, <1>2, <1>3, WildcardsSpan

(* What stands for itself *)

\* All but the last m characters of a pattern do.
PlainBut(p, m) == \A i \in 1 .. Len(p) - m : p[i] \notin {"*", "?"}

\* They are compiled to themselves, escaped, before what the last m are compiled to.
LEMMA PlainCompiled ==
  ASSUME NEW words \in Words, NEW p \in Seq(Character), NEW m \in 0 .. Len(p), PlainBut(p, m),
         NEW n \in m .. Len(p)
  PROVE  /\ Len(Suffixes(p, words)[n]) = n - m + Len(Suffixes(p, words)[m])
         /\ \A i \in 1 .. n - m : Suffixes(p, words)[n][i] = Escape(p[Len(p) - n + i])
<1> DEFINE L == Len(p)
           c == Suffixes(p, words)
           Holds(k) == /\ Len(c[m + k]) = k + Len(c[m])
                       /\ \A i \in 1 .. k : c[m + k][i] = Escape(p[L - (m + k) + i])
           T == {k \in 0 .. L - m : Holds(k)}
<1>1. L \in Nat /\ m \in Nat /\ m <= L
  OBVIOUS
<1>2. /\ c \in [0 .. L -> Sounds]
      /\ \A k \in 1 .. L : c[k] = IF Stars(p, L - k + 1) THEN words.across \o c[k - 2]
                                  ELSE Piece(p[L - k + 1], words) \o c[k - 1]
  BY Compiled
<1> HIDE DEF c
<1>3. 0 \in T
  BY <1>1, <1>2 DEF Sounds
<1>4. ASSUME NEW k \in 0 .. L - m - 1, k \in T
      PROVE  k + 1 \in T
  <2> DEFINE h == m + k
             x == p[L - h]
             q == c[h]
             a == <<Escape(x)>>
  <2>1. h \in 0 .. L - 1 /\ h + 1 \in 1 .. L /\ L - h \in 1 .. L - m /\ L - (h + 1) + 1 = L - h
    BY <1>1
  <2>2. x \in Character /\ x \notin {"*", "?"} /\ Escape(x) \in Token
    <3>1. x \in Character /\ x \notin {"*", "?"}
      BY <1>1, <2>1 DEF PlainBut
    <3> HIDE DEF x
    <3> QED
      BY <3>1, Escapes
  <2>3. c[h + 1] = a \o q
    <3>1. ~ Stars(p, L - (h + 1) + 1) /\ Piece(x, words) = a
      BY <2>1, <2>2 DEF Stars, Piece
    <3>2. c[h + 1] = Piece(p[L - (h + 1) + 1], words) \o c[(h + 1) - 1]
      BY <1>2, <2>1, <3>1
    <3>3. (h + 1) - 1 = h
      BY <2>1
    <3> QED
      BY <2>1, <3>1, <3>2, <3>3
  <2>4. q \in Seq(Token) /\ a \in Seq(Token) /\ Len(a) = 1
    BY <1>2, <2>1, <2>2 DEF Sounds
  <2>5. Len(q) = k + Len(c[m]) /\ \A i \in 1 .. k : q[i] = Escape(p[L - h + i])
    BY <1>4
  <2> DEFINE r == a \o q
  <2>6. Len(r) = 1 + Len(q) /\ r[1] = Escape(x) /\ \A i \in 1 .. Len(q) : r[1 + i] = q[i]
    <3>1. a[1] = Escape(x)
      OBVIOUS
    <3> HIDE DEF a, q, x
    <3>2. Glued(a, q)
      BY <2>4, Gluing
    <3> QED
      BY <2>4, <3>1, <3>2 DEF Glued
  <2>7. Len(c[m]) \in Nat /\ Len(q) \in Nat /\ k <= Len(q)
    <3>1. c[m] \in Seq(Token)
      BY <1>1, <1>2 DEF Sounds
    <3> QED
      BY <1>1, <2>4, <2>5, <3>1
  <2> HIDE DEF r, q
  <2>8. ASSUME NEW i \in 1 .. k + 1
        PROVE  r[i] = Escape(p[L - (h + 1) + i])
    <3>1. CASE i = 1
      BY <1>1, <2>1, <2>6, <3>1
    <3>2. CASE i # 1
      <4> DEFINE j == i - 1
      <4>1. j \in 1 .. k /\ i = 1 + j /\ L - (h + 1) + i = L - h + j
        BY <1>1, <2>1, <3>2
      <4>2. j \in 1 .. Len(q)
        BY <2>7, <4>1
      <4> HIDE DEF j, h
      <4>3. r[i] = q[j] /\ q[j] = Escape(p[L - h + j])
        BY <2>5, <2>6, <4>1, <4>2
      <4> QED
        BY <4>1, <4>3
    <3> QED
      BY <3>1, <3>2
  <2>9. m + (k + 1) = h + 1 /\ k + 1 \in 0 .. L - m
    BY <1>1
  <2>11. Len(r) = k + 1 + Len(c[m])
    <3> DEFINE u == Len(c[m])
               v == Len(q)
    <3>1. u \in Nat /\ v = k + u /\ Len(r) = 1 + v
      BY <2>5, <2>6, <2>7
    <3> HIDE DEF u, v
    <3>2. Len(r) = k + 1 + u
      BY <3>1
    <3> QED
      BY <3>2 DEF u
  <2>10. Len(c[h + 1]) = k + 1 + Len(c[m]) /\ \A i \in 1 .. k + 1 : c[h + 1][i] = Escape(p[L - (h + 1) + i])
    <3>1. c[h + 1] = r
      BY <2>3 DEF r, q
    <3> HIDE DEF h
    <3> QED
      BY <2>8, <2>11, <3>1
  <2> QED
    BY <2>9, <2>10
<1>5. 0 .. L - m \subseteq T
  <2>1. L - m \in Nat
    BY <1>1
  <2> HIDE DEF T
  <2> QED
    BY <1>3, <1>4, <2>1, UpTo
<1>6. n - m \in T /\ m + (n - m) = n
  <2>1. n - m \in 0 .. L - m /\ m + (n - m) = n
    BY <1>1
  <2> HIDE DEF T
  <2> QED
    BY <1>5, <2>1
<1> QED
  BY <1>6 DEF c

\* They begin before their own characters.
BeginPlain(b, p, s, m, n, j) ==
  j \in b[n] <=> /\ j + (n - m) \in b[m]
                 /\ \A x \in 0 .. n - m - 1 : s[j + x] = p[Len(p) - n + 1 + x]

LEMMA PlainStarts ==
  ASSUME NEW p \in Seq(Character), NEW m \in 0 .. Len(p), PlainBut(p, m),
         NEW s, Len(s) \in Nat, NEW separator, NEW last \in SUBSET (1 .. Len(s) + 1),
         NEW n \in m .. Len(p), NEW j \in 1 .. Len(s) + 1
  PROVE  BeginPlain(Starts(p, s, separator, last), p, s, m, n, j)
<1> DEFINE L == Len(p)
           P == 1 .. Len(s) + 1
           b == Starts(p, s, separator, last)
           Holds(k) == \A e \in P : e \in b[m + k]
                         <=> /\ e + k \in b[m]
                             /\ \A x \in 0 .. k - 1 : s[e + x] = p[L - (m + k) + 1 + x]
           T == {k \in 0 .. L - m : Holds(k)}
<1>1. L \in Nat /\ m \in Nat /\ m <= L
  OBVIOUS
<1>2. /\ \A k \in 0 .. L : b[k] \in SUBSET P
      /\ \A k \in 1 .. L :
           b[k] = {e \in P : \E f \in e .. Len(s) + 1 :
                     /\ f \in b[IF Stars(p, L - k + 1) THEN k - 2 ELSE k - 1]
                     /\ StandsFor(p, L - k + 1, s, e, f, separator)}
  BY <1>1, Begun
<1> HIDE DEF b
<1>3. 0 \in T
  BY <1>1
<1>4. ASSUME NEW k \in 0 .. L - m - 1, k \in T
      PROVE  k + 1 \in T
  <2> DEFINE h == m + k
             i == L - h
  <2>1. h \in 0 .. L - 1 /\ h + 1 \in 1 .. L /\ i \in 1 .. L - m /\ L - (h + 1) + 1 = i
        /\ (h + 1) - 1 = h
    BY <1>1
  <2>2. p[i] \notin {"*", "?"}
    BY <2>1 DEF PlainBut
  <2>3. ~ Stars(p, i) /\ \A e, f : StandsFor(p, i, s, e, f, separator) <=> (f = e + 1 /\ s[e] = p[i])
    BY <2>2 DEF Stars, StandsFor
  <2>4. b[h + 1] = {e \in P : \E f \in e .. Len(s) + 1 :
                      f \in b[h] /\ StandsFor(p, i, s, e, f, separator)}
    BY <1>2, <2>1, <2>3
  <2>5. b[h] \in SUBSET P /\ b[m] \in SUBSET P
    <3>1. h \in 0 .. L /\ m \in 0 .. L
      BY <1>1, <2>1
    <3> HIDE DEF h, P
    <3> QED
      BY <1>2, <3>1
  <2>6. \A e \in P : e \in b[h + 1] <=> (e + 1 \in b[h] /\ s[e] = p[i])
    BY <2>3, <2>4, <2>5
  <2>7. \A e \in P : e \in b[h] <=> /\ e + k \in b[m]
                                    /\ \A x \in 0 .. k - 1 : s[e + x] = p[L - h + 1 + x]
    BY <1>4
  <2>8. ASSUME NEW e \in P
        PROVE  e \in b[h + 1] <=> /\ e + (k + 1) \in b[m]
                                  /\ \A x \in 0 .. k : s[e + x] = p[L - (h + 1) + 1 + x]
    <3>1. \A x \in 1 .. k : x - 1 \in 0 .. k - 1 /\ e + x = (e + 1) + (x - 1)
                            /\ L - (h + 1) + 1 + x = L - h + 1 + (x - 1)
      BY <1>1
    <3>2. \A x \in 0 .. k - 1 : x + 1 \in 1 .. k /\ (e + 1) + x = e + (x + 1)
                                /\ L - h + 1 + x = L - (h + 1) + 1 + (x + 1)
      BY <1>1
    <3>3. ASSUME e \in b[h + 1]
          PROVE  /\ e + (k + 1) \in b[m]
                 /\ \A x \in 0 .. k : s[e + x] = p[L - (h + 1) + 1 + x]
      <4>1. e + 1 \in b[h] /\ s[e] = p[i]
        BY <2>6, <3>3
      <4>2. e + 1 \in P
        BY <2>5, <4>1
      <4>3. (e + 1) + k \in b[m] /\ \A x \in 0 .. k - 1 : s[(e + 1) + x] = p[L - h + 1 + x]
        BY <2>7, <4>1, <4>2
      <4>4. ASSUME NEW x \in 0 .. k
            PROVE  s[e + x] = p[L - (h + 1) + 1 + x]
        <5>1. CASE x = 0
          BY <1>1, <2>1, <4>1, <5>1
        <5>2. CASE x # 0
          <6>1. x \in 1 .. k
            BY <5>2
          <6> QED
            BY <3>1, <4>3, <6>1
        <5> QED
          BY <5>1, <5>2
      <4> QED
        BY <1>1, <4>3, <4>4
    <3>4. ASSUME e + (k + 1) \in b[m], \A x \in 0 .. k : s[e + x] = p[L - (h + 1) + 1 + x]
          PROVE  e \in b[h + 1]
      <4>1. s[e] = p[i]
        <5>1. 0 \in 0 .. k /\ e + 0 = e /\ L - (h + 1) + 1 + 0 = i
          BY <1>1, <2>1
        <5> QED
          BY <3>4, <5>1
      <4>2. e + 1 \in P /\ (e + 1) + k \in b[m]
        <5>1. e + (k + 1) \in P
          BY <2>5, <3>4
        <5> QED
          BY <1>1, <3>4, <5>1
      <4>3. \A x \in 0 .. k - 1 : s[(e + 1) + x] = p[L - h + 1 + x]
        <5>1. SUFFICES ASSUME NEW x \in 0 .. k - 1
                       PROVE  s[(e + 1) + x] = p[L - h + 1 + x]
          OBVIOUS
        <5>2. x + 1 \in 0 .. k
          OBVIOUS
        <5>3. s[e + (x + 1)] = p[L - (h + 1) + 1 + (x + 1)]
          BY <3>4, <5>2
        <5> QED
          BY <3>2, <5>3
      <4> QED
        BY <2>6, <2>7, <4>1, <4>2, <4>3
    <3> QED
      BY <3>3, <3>4
  <2>9. m + (k + 1) = h + 1 /\ k + 1 \in 0 .. L - m /\ (k + 1) - 1 = k
    BY <1>1
  <2> QED
    BY <2>8, <2>9
<1>5. 0 .. L - m \subseteq T
  <2>1. L - m \in Nat
    BY <1>1
  <2> HIDE DEF T
  <2> QED
    BY <1>3, <1>4, <2>1, UpTo
<1>6. n - m \in T /\ m + (n - m) = n
  <2>1. n - m \in 0 .. L - m /\ m + (n - m) = n
    BY <1>1
  <2> HIDE DEF T
  <2> QED
    BY <1>5, <2>1
<1> QED
  BY <1>6 DEF b, BeginPlain

\* What the last n characters are compiled to begins with what the first of them
\* is compiled to.
Led(c, p, n) ==
  LET i == Len(p) - n + 1 IN
  /\ c[n] \in Seq(Token) /\ Len(c[n]) \in Nat \ {0}
  /\ p[i] \in {"*", "?"} =>
       \/ c[n][1] = "[^" /\ Len(c[n]) >= 3
       \/ c[n][1] = "." /\ Stars(p, i) /\ n > 1 /\ Len(c[n]) = 2 + Len(c[n - 2])
  /\ p[i] \notin {"*", "?"} =>
       /\ Escape(p[i]) # "." /\ c[n][1] = Escape(p[i])
       /\ Len(c[n]) = 1 + Len(c[n - 1]) /\ c[n - 1] \in Seq(Token)
       /\ \A j \in 1 .. Len(c[n - 1]) : c[n][1 + j] = c[n - 1][j]

LEMMA CompiledFirst ==
  ASSUME NEW words \in Words, NEW p \in Seq(Character), NEW n \in 1 .. Len(p)
  PROVE  Led(Suffixes(p, words), p, n)
<1> DEFINE L == Len(p)
           c == Suffixes(p, words)
           i == L - n + 1
<1>1. /\ c \in [0 .. L -> Sounds]
      /\ \A k \in 1 .. L : c[k] = IF Stars(p, L - k + 1) THEN words.across \o c[k - 2]
                                  ELSE Piece(p[L - k + 1], words) \o c[k - 1]
  BY Compiled
<1> HIDE DEF c
<1>2. L \in Nat /\ i \in 1 .. L /\ n \in 1 .. L /\ p[i] \in Character
  OBVIOUS
<1>3. c[n] \in Seq(Token) /\ c[n - 1] \in Seq(Token) /\ (n > 1 => c[n - 2] \in Seq(Token))
  <2>1. c[n] \in Sounds /\ c[n - 1] \in Sounds /\ (n > 1 => c[n - 2] \in Sounds)
    <3>1. n \in 0 .. L /\ n - 1 \in 0 .. L /\ (n > 1 => n - 2 \in 0 .. L)
      BY <1>2
    <3> QED
      BY <1>1, <3>1
  <2> QED
    BY <2>1 DEF Sounds
<1>4. /\ words.across \in Seq(Token) /\ words.within \in Seq(Token) /\ words.single \in Seq(Token)
      /\ Len(words.across) = 2 /\ words.across[1] = "."
      /\ Len(words.within) = 4 /\ words.within[1] = "[^"
      /\ Len(words.single) = 3 /\ words.single[1] = "[^"
  <2>1. words.across \in Seq(Token) /\ words.within \in Seq(Token) /\ words.single \in Seq(Token)
    BY PiecesSound DEF Sounds
  <2>2. CASE words = DOMAIN_WORDS
    BY <2>1, <2>2 DEF DOMAIN_WORDS
  <2>3. CASE words = PATH_WORDS
    BY <2>1, <2>3 DEF PATH_WORDS
  <2> QED
    BY <2>2, <2>3 DEF Words
<1>5. CASE Stars(p, i)
  <2>1. p[i] = "*" /\ n > 1
    BY <1>2, <1>5 DEF Stars
  <2>2. c[n] = words.across \o c[n - 2]
    BY <1>1, <1>2, <1>5
  <2> DEFINE a == words.across
             q == c[n - 2]
  <2>3. a \in Seq(Token) /\ q \in Seq(Token) /\ Len(a) = 2 /\ a[1] = "."
    BY <1>3, <1>4, <2>1
  <2> HIDE DEF a, q
  <2>4. Glued(a, q) /\ Len(q) \in Nat
    BY <2>3, Gluing
  <2>5. (a \o q)[1] = "." /\ Len(a \o q) = 2 + Len(q)
    BY <2>3, <2>4 DEF Glued
  <2>6. c[n][1] = "." /\ Len(c[n]) = 2 + Len(q)
    BY <2>2, <2>5 DEF a, q
  <2> QED
    BY <1>3, <1>5, <2>1, <2>4, <2>6 DEF Led, q, c
<1>6. CASE ~ Stars(p, i) /\ p[i] \in {"*", "?"}
  <2> DEFINE a == Piece(p[i], words)
             q == c[n - 1]
  <2>1. c[n] = a \o q
    BY <1>1, <1>2, <1>6
  <2>2. a \in Seq(Token) /\ q \in Seq(Token) /\ Len(a) >= 3 /\ a[1] = "[^"
    <3>1. a = words.within \/ a = words.single
      BY <1>6 DEF Piece
    <3> HIDE DEF a
    <3>2. q \in Seq(Token)
      BY <1>3
    <3> HIDE DEF q
    <3> DEFINE v == words.within
               w == words.single
    <3>3. v \in Seq(Token) /\ Len(v) = 4 /\ v[1] = "[^" /\ w \in Seq(Token) /\ Len(w) = 3 /\ w[1] = "[^"
      BY <1>4
    <3>4. a = v \/ a = w
      BY <3>1
    <3> HIDE DEF v, w
    <3>5. a \in Seq(Token) /\ (Len(a) = 4 \/ Len(a) = 3) /\ a[1] = "[^"
      BY <3>3, <3>4, Zenon
    <3>6. Len(a) >= 3
      <4> DEFINE l == Len(a)
      <4>1. l = 4 \/ l = 3
        BY <3>5
      <4> HIDE DEF l
      <4>2. l >= 3
        BY <4>1
      <4> QED
        BY <4>2 DEF l
    <3>7. q \in Seq(Token)
      BY <3>2
    <3> QED
      BY <3>5, <3>6, <3>7
  <2> HIDE DEF a, q
  <2>3. Glued(a, q) /\ Len(q) \in Nat /\ Len(a) \in Nat
    BY <2>2, Gluing
  <2>4. (a \o q)[1] = "[^" /\ Len(a \o q) >= 3 /\ Len(a \o q) \in Nat
    BY <2>2, <2>3 DEF Glued
  <2>5. c[n][1] = "[^" /\ Len(c[n]) >= 3 /\ Len(c[n]) \in Nat
    BY <2>1, <2>4
  <2> QED
    BY <1>3, <1>6, <2>5 DEF Led, c
<1>7. CASE p[i] \notin {"*", "?"}
  <2> DEFINE x == Escape(p[i])
             a == <<x>>
             q == c[n - 1]
  <2>1. x \in Token /\ x # "."
    <3> DEFINE ch == p[i]
    <3>1. ch \in Character /\ ch \notin {"*", "?"}
      BY <1>2, <1>7
    <3> HIDE DEF ch
    <3>2. Escape(ch) \in Token /\ Escape(ch) # "."
      BY <3>1, Escapes
    <3> QED
      BY <3>2 DEF ch
  <2>2. ~ Stars(p, i) /\ Piece(p[i], words) = a
    BY <1>7 DEF Stars, Piece
  <2>3. c[n] = a \o q
    BY <1>1, <1>2, <2>2
  <2> HIDE DEF x
  <2>4. a \in Seq(Token) /\ q \in Seq(Token) /\ Len(a) = 1 /\ a[1] = x
    BY <1>3, <2>1
  <2> HIDE DEF a, q
  <2>5. Glued(a, q) /\ Len(q) \in Nat
    BY <2>4, Gluing
  <2>6. (a \o q)[1] = x /\ Len(a \o q) = 1 + Len(q) /\ \A j \in 1 .. Len(q) : (a \o q)[1 + j] = q[j]
    BY <2>4, <2>5 DEF Glued
  <2>7. c[n][1] = x /\ Len(c[n]) = 1 + Len(q) /\ \A j \in 1 .. Len(q) : c[n][1 + j] = q[j]
    BY <2>3, <2>6
  <2>8. Len(c[n]) \in Nat \ {0}
    BY <2>5, <2>7
  <2> QED
    BY <1>3, <1>7, <2>1, <2>4, <2>7, <2>8 DEF Led, x, q, c
<1> QED
  BY <1>5, <1>6, <1>7 DEF c

\* A wildcard is compiled to no literal.
LEMMA LiteralIsPlain ==
  ASSUME NEW words \in Words, NEW p \in Seq(Character), LITERAL_BODY(atomToRegex(p, words))
  PROVE  PlainBut(p, 0)
<1> DEFINE L == Len(p)
           c == Suffixes(p, words)
           Plain(k) == \A i \in L - k + 1 .. L : p[i] \notin {"*", "?"}
           T == {k \in 0 .. L : LITERAL_BODY(c[k]) => Plain(k)}
<1>1. L \in Nat
  OBVIOUS
<1>2. 0 \in T
  BY <1>1
<1>3. ASSUME NEW k \in 0 .. L - 1, k \in T
      PROVE  k + 1 \in T
  <2> DEFINE n == k + 1
             i == L - n + 1
  <2>1. n \in 1 .. L /\ n - 1 = k
    BY <1>1
  <2> HIDE DEF c, n
  <2>2. Led(c, p, n)
    BY <2>1, CompiledFirst DEF c
  <2>3. ASSUME LITERAL_BODY(c[n])
        PROVE  Plain(n)
    <3>1. 1 \in 1 .. Len(c[n])
      BY <2>2 DEF Led
    <3>2. c[n][1] \in Literal
      BY <2>3, <3>1 DEF LITERAL_BODY
    <3>3. p[i] \notin {"*", "?"}
      BY <2>2, <3>2 DEF Led, Literal
    <3>4. /\ Len(c[n]) = 1 + Len(c[k]) /\ c[k] \in Seq(Token)
          /\ \A j \in 1 .. Len(c[k]) : c[n][1 + j] = c[k][j]
      BY <2>1, <2>2, <3>3 DEF Led
    <3>5. LITERAL_BODY(c[k])
      <4>1. SUFFICES ASSUME NEW j \in 1 .. Len(c[k])
                     PROVE  c[k][j] \in Literal
        BY DEF LITERAL_BODY
      <4>2. 1 + j \in 1 .. Len(c[n])
        BY <3>4
      <4> QED
        BY <2>3, <3>4, <4>2 DEF LITERAL_BODY
    <3>6. Plain(k)
      BY <1>3, <3>5
    <3>7. \A j \in L - n + 1 .. L : j = i \/ j \in L - k + 1 .. L
      BY <1>1, <2>1
    <3> QED
      BY <3>3, <3>6, <3>7
  <2> QED
    BY <2>1, <2>3 DEF n
<1>4. 0 .. L \subseteq T
  <2> HIDE DEF T
  <2> QED
    BY <1>1, <1>2, <1>3, UpTo
<1>5. Plain(L)
  <2>1. L \in T
    BY <1>1, <1>4
  <2> QED
    BY <2>1 DEF atomToRegex
<1> QED
  BY <1>1, <1>5 DEF PlainBut

\* And only a `**` at its end ends a path's expression in `.*`.
EndsAny(q) ==
  /\ Len(q) >= 2 /\ q[Len(q) - 1] = "." /\ q[Len(q)] = "*"
  /\ \A i \in 1 .. Len(q) - 2 : q[i] \in Literal

LEMMA AnyIsLast ==
  ASSUME NEW words \in Words, NEW p \in Seq(Character), EndsAny(atomToRegex(p, words))
  PROVE  Len(p) >= 2 /\ Stars(p, Len(p) - 1) /\ PlainBut(p, 2)
<1> DEFINE L == Len(p)
           c == Suffixes(p, words)
           Goal(k) == k >= 2 /\ Stars(p, L - 1) /\ \A i \in L - k + 1 .. L - 2 : p[i] \notin {"*", "?"}
           T == {k \in 0 .. L : EndsAny(c[k]) => Goal(k)}
<1>1. L \in Nat
  OBVIOUS
<1>2. 0 \in T
  <2>1. c[0] = <<>>
    BY Compiled
  <2> QED
    BY <1>1, <2>1 DEF EndsAny
<1>3. ASSUME NEW k \in 0 .. L - 1, k \in T
      PROVE  k + 1 \in T
  <2> DEFINE n == k + 1
             i == L - n + 1
  <2>1. n \in 1 .. L /\ n - 1 = k
    BY <1>1
  <2> HIDE DEF c, n
  <2>2. Led(c, p, n)
    BY <2>1, CompiledFirst DEF c
  <2>3. ASSUME EndsAny(c[n])
        PROVE  Goal(n)
    <3> DEFINE r == c[n]
               l == Len(r)
    <3>1. r \in Seq(Token) /\ l \in Nat /\ l >= 2
      BY <2>2, <2>3 DEF Led, EndsAny
    <3>2. CASE p[i] \in {"*", "?"}
      <4>1. ~ l > 2
        <5>1. r[1] \notin Literal
          BY <2>2, <3>2 DEF Led, Literal
        <5>2. ASSUME l > 2
              PROVE  FALSE
          <6>1. 1 \in 1 .. l - 2
            BY <3>1, <5>2
          <6> QED
            BY <2>3, <5>1, <6>1 DEF EndsAny
        <5> QED
          BY <5>2
      <4>2. l = 2
        <5> HIDE DEF l
        <5> QED
          BY <3>1, <4>1
      <4>3. Stars(p, i) /\ n > 1 /\ 2 = 2 + Len(c[n - 2])
        BY <2>2, <3>2, <4>2 DEF Led
      <4>4. n = 2
        <5>1. CASE n > 2
          <6>1. n - 2 \in 1 .. L
            BY <2>1, <5>1
          <6> DEFINE u == n - 2
          <6>2. Led(c, p, u)
            <7>1. u \in 1 .. L
              BY <6>1
            <7> HIDE DEF u
            <7> QED
              BY <7>1, CompiledFirst DEF c
          <6>3. Len(c[n - 2]) \in Nat \ {0}
            BY <6>2 DEF Led
          <6> QED
            BY <4>3, <6>3
        <5> QED
          BY <2>1, <4>3, <5>1
      <4> QED
        BY <1>1, <4>3, <4>4
    <3>3. CASE p[i] \notin {"*", "?"}
      <4> DEFINE q == c[k]
                 h == Len(q)
      <4>1. /\ Escape(p[i]) # "." /\ r[1] = Escape(p[i]) /\ l = 1 + h /\ q \in Seq(Token)
            /\ \A j \in 1 .. h : r[1 + j] = q[j]
        BY <2>1, <2>2, <3>3 DEF Led
      <4>2. h \in Nat /\ h >= 2
        <5>1. h \in Nat
          BY <4>1
        <5>2. h # 1
          <6>1. r[l - 1] = "."
            BY <2>3 DEF EndsAny
          <6> HIDE DEF r, l, h
          <6> QED
            BY <4>1, <6>1
        <5> HIDE DEF h, l
        <5> QED
          BY <3>1, <4>1, <5>1, <5>2
      <4> HIDE DEF r, q
      <4>3. r[l - 1] = "." /\ r[l] = "*" /\ \A j \in 1 .. l - 2 : r[j] \in Literal
        BY <2>3 DEF EndsAny, r
      <4>4. EndsAny(q)
        <5>1. h - 1 \in 1 .. h /\ h \in 1 .. h /\ 1 + (h - 1) = l - 1 /\ 1 + h = l
          BY <4>1, <4>2
        <5>2. q[h - 1] = "." /\ q[h] = "*"
          BY <4>1, <4>3, <5>1
        <5>3. ASSUME NEW j \in 1 .. h - 2
              PROVE  q[j] \in Literal
          <6>1. j \in 1 .. h /\ 1 + j \in 1 .. l - 2
            BY <4>1, <4>2
          <6>2. r[1 + j] = q[j]
            BY <4>1, <6>1
          <6> QED
            BY <4>3, <6>1, <6>2
        <5> QED
          BY <4>2, <5>2, <5>3 DEF EndsAny
      <4>5. Goal(k)
        BY <1>3, <4>4 DEF q
      <4>6. \A j \in L - n + 1 .. L - 2 : j = i \/ j \in L - k + 1 .. L - 2
        BY <1>1, <2>1
      <4>7. n >= 2
        BY <2>1, <4>5
      <4> QED
        BY <3>3, <4>5, <4>6, <4>7
    <3> QED
      BY <3>2, <3>3
  <2> QED
    BY <2>1, <2>3 DEF n
<1>4. 0 .. L \subseteq T
  <2> HIDE DEF T
  <2> QED
    BY <1>1, <1>2, <1>3, UpTo
<1>5. Goal(L)
  <2>1. L \in T
    BY <1>1, <1>4
  <2> QED
    BY <2>1 DEF atomToRegex
<1> QED
  BY <1>1, <1>5 DEF PlainBut

\* So a pattern without wildcards means itself,
LEMMA PlainMeans ==
  ASSUME NEW p \in Seq(Character), PlainBut(p, 0), NEW s \in Seq(Character), NEW separator
  PROVE  Means(p, s, separator) <=> s = p
<1> DEFINE L == Len(p)
           last == {Len(s) + 1}
           b == Starts(p, s, separator, last)
<1>1. L \in Nat /\ Len(s) \in Nat /\ last \in SUBSET (1 .. Len(s) + 1)
  OBVIOUS
<1>2. b[0] = last
  BY <1>1, Begun
<1>3. 1 \in b[L] <=> 1 + (L - 0) \in b[0] /\ \A x \in 0 .. L - 0 - 1 : s[1 + x] = p[L - L + 1 + x]
  <2>1. 0 \in 0 .. L /\ L \in 0 .. L /\ 1 \in 1 .. Len(s) + 1
    BY <1>1
  <2> HIDE DEF last
  <2>2. BeginPlain(b, p, s, 0, L, 1)
    BY <1>1, <2>1, PlainStarts
  <2> QED
    BY <1>1, <2>1, <2>2 DEF BeginPlain
<1> HIDE DEF b
<1>4. ASSUME 1 \in b[L]
      PROVE  s = p
  <2>1. Len(s) = L
    BY <1>1, <1>2, <1>3, <1>4
  <2>2. ASSUME NEW i \in 1 .. L
        PROVE  s[i] = p[i]
    <3>1. i - 1 \in 0 .. L - 0 - 1 /\ 1 + (i - 1) = i /\ L - L + 1 + (i - 1) = i
      BY <1>1
    <3> QED
      BY <1>3, <1>4, <3>1
  <2> QED
    BY <2>1, <2>2, SeqEqual
<1>5. ASSUME s = p
      PROVE  1 \in b[L]
  <2>1. 1 + (L - 0) \in b[0]
    BY <1>1, <1>2, <1>5
  <2>2. \A x \in 0 .. L - 0 - 1 : s[1 + x] = p[L - L + 1 + x]
    BY <1>1, <1>5
  <2> QED
    BY <1>3, <2>1, <2>2
<1> QED
  BY <1>4, <1>5 DEF Means, b

\* and one with a `**` at the end of a path, what begins as it does.
LEMMA PlainThenAny ==
  ASSUME NEW p \in Seq(Character), Len(p) >= 2, Stars(p, Len(p) - 1), PlainBut(p, 2),
         NEW s \in Seq(Character)
  PROVE  Means(p, s, "/")
           <=> Len(p) - 2 <= Len(s) /\ SubSeq(s, 1, Len(p) - 2) = SubSeq(p, 1, Len(p) - 2)
<1> DEFINE L == Len(p)
           P == 1 .. Len(s) + 1
           separator == "/"
           last == {Len(s) + 1}
           b == Starts(p, s, separator, last)
           u == SubSeq(s, 1, L - 2)
           v == SubSeq(p, 1, L - 2)
<1>1. L \in Nat /\ L >= 2 /\ Len(s) \in Nat /\ last \in SUBSET P
  OBVIOUS
<1>2. \A e, f : StandsFor(p, L - 1, s, e, f, separator)
  BY DEF StandsFor
<1> HIDE DEF separator
<1>3. b[2] = P
  <2>1. /\ b[0] = last
        /\ b[2] = {e \in P : \E f \in e .. Len(s) + 1 :
                     /\ f \in b[IF Stars(p, L - 2 + 1) THEN 2 - 2 ELSE 2 - 1]
                     /\ StandsFor(p, L - 2 + 1, s, e, f, separator)}
    <3>1. 2 \in 1 .. L
      BY <1>1
    <3> HIDE DEF last, P, L
    <3> QED
      BY <1>1, <3>1, Begun DEF P, L
  <2>2. L - 2 + 1 = L - 1 /\ 2 - 2 = 0
    BY <1>1
  <2>3. b[2] = {e \in P : \E f \in e .. Len(s) + 1 : f \in last}
    <3> HIDE DEF b, last
    <3> QED
      BY <1>2, <2>1, <2>2
  <2>4. \A e \in P : Len(s) + 1 \in e .. Len(s) + 1
    BY <1>1
  <2> QED
    BY <2>3, <2>4
<1>4. 1 \in b[L] <=> 1 + (L - 2) \in b[2] /\ \A x \in 0 .. L - 2 - 1 : s[1 + x] = p[L - L + 1 + x]
  <2>1. 2 \in 0 .. L /\ L \in 2 .. L /\ 1 \in 1 .. Len(s) + 1
    BY <1>1
  <2> HIDE DEF last
  <2>2. BeginPlain(b, p, s, 2, L, 1)
    BY <1>1, <2>1, PlainStarts
  <2> QED
    BY <1>1, <2>2 DEF BeginPlain
<1> HIDE DEF b
<1>5. 1 + (L - 2) \in b[2] <=> L - 2 <= Len(s)
  BY <1>1, <1>3
<1> DEFINE k == L - 2
<1>11. k \in Nat /\ k <= L
  BY <1>1
<1>6. v \in Seq(Character) /\ Len(v) = L - 2 /\ \A i \in 1 .. L - 2 : v[i] = p[i]
  <2> HIDE DEF k
  <2>1. LET w == SubSeq(p, 1, k) IN w \in Seq(Character) /\ Len(w) = k /\ \A i \in 1 .. k : w[i] = p[i]
    BY <1>11
  <2> QED
    BY <2>1 DEF k
<1>7. L - 2 <= Len(s) => u \in Seq(Character) /\ Len(u) = L - 2 /\ \A i \in 1 .. L - 2 : u[i] = s[i]
  <2> HIDE DEF k
  <2>1. LET w == SubSeq(s, 1, k) IN
        k <= Len(s) => w \in Seq(Character) /\ Len(w) = k /\ \A i \in 1 .. k : w[i] = s[i]
    BY <1>1, <1>11
  <2> QED
    BY <2>1 DEF k
<1> HIDE DEF u, v
<1>8. ASSUME L - 2 <= Len(s), u = v
      PROVE  \A x \in 0 .. L - 2 - 1 : s[1 + x] = p[L - L + 1 + x]
  <2>1. \A x \in 0 .. L - 2 - 1 : 1 + x \in 1 .. L - 2 /\ L - L + 1 + x = 1 + x
    BY <1>1
  <2> QED
    BY <1>6, <1>7, <1>8, <2>1
<1>9. ASSUME L - 2 <= Len(s), \A x \in 0 .. L - 2 - 1 : s[1 + x] = p[L - L + 1 + x]
      PROVE  u = v
  <2>1. ASSUME NEW i \in 1 .. L - 2
        PROVE  u[i] = v[i]
    <3>1. i - 1 \in 0 .. L - 2 - 1 /\ 1 + (i - 1) = i /\ L - L + 1 + (i - 1) = i
      BY <1>1
    <3>2. s[i] = p[i]
      BY <1>9, <3>1
    <3> QED
      BY <1>6, <1>7, <1>9, <3>2
  <2>2. u \in Seq(Character) /\ v \in Seq(Character) /\ Len(u) = Len(v) /\ \A i \in 1 .. Len(u) : u[i] = v[i]
    BY <1>6, <1>7, <1>9, <2>1
  <2> QED
    BY <2>2, SeqEqual
<1>10. 1 \in b[L] <=> L - 2 <= Len(s) /\ u = v
  BY <1>4, <1>5, <1>8, <1>9
<1> QED
  BY <1>10 DEF Means, b, u, v, separator

\* What stands for itself is read back as it was.
LEMMA PlainUnescaped ==
  ASSUME NEW words \in Words, NEW p \in Seq(Character), NEW m \in 0 .. Len(p), PlainBut(p, m)
  PROVE  \A i \in 1 .. Len(p) - m : Chars(atomToRegex(p, words)[i]) = p[i]
<1> DEFINE L == Len(p)
           c == Suffixes(p, words)[L]
<1> SUFFICES ASSUME NEW i \in 1 .. L - m
             PROVE  Chars(c[i]) = p[i]
  BY DEF atomToRegex
<1>1. c[i] = Escape(p[L - L + i])
  <2>1. L \in m .. L
    OBVIOUS
  <2> QED
    BY <2>1, PlainCompiled
<1>2. L - L + i = i /\ i \in 1 .. L
  OBVIOUS
<1> DEFINE ch == p[i]
<1>3. ch \in Character /\ ch \notin {"*", "?"}
  BY <1>2 DEF PlainBut
<1> HIDE DEF ch
<1>4. Chars(Escape(ch)) = ch
  BY <1>3, Escapes
<1> HIDE DEF c
<1> QED
  BY <1>1, <1>2, <1>4 DEF ch

(* A match narrowed to a string or a prefix *)

\* An anchored expression comes apart again.
LEMMA Anchored ==
  ASSUME NEW c \in Seq(Token)
  PROVE  LET r == <<"^">> \o c \o <<"$">> IN
         /\ r \in Seq(Token) /\ Len(r) = Len(c) + 2 /\ r[1] = "^" /\ r[Len(r)] = "$"
         /\ SubSeq(r, 2, Len(r) - 1) = c
<1> DEFINE a == <<"^">>
           t == <<"$">>
           b == a \o c
           r == b \o t
<1>1. a \in Seq(Token) /\ Len(a) = 1 /\ a[1] = "^" /\ t \in Seq(Token) /\ Len(t) = 1 /\ t[1] = "$"
  <2>1. "^" \in Token /\ "$" \in Token
    BY CharacterAssumption DEF Token, Meta
  <2> QED
    BY <2>1
<1> HIDE DEF a, t
<1>2. Glued(a, c) /\ Len(c) \in Nat
  BY <1>1, Gluing
<1>3. b \in Seq(Token) /\ Len(b) = Len(c) + 1 /\ b[1] = "^" /\ \A i \in 1 .. Len(c) : b[1 + i] = c[i]
  BY <1>1, <1>2 DEF Glued
<1> HIDE DEF b
<1>4. Glued(b, t)
  BY <1>1, <1>3, Gluing
<1>5. /\ r \in Seq(Token) /\ Len(r) = Len(b) + 1
      /\ \A i \in 1 .. Len(b) : r[i] = b[i]
      /\ r[Len(b) + 1] = "$"
  BY <1>1, <1>3, <1>4 DEF Glued
<1> HIDE DEF r
<1>6. Len(r) = Len(c) + 2 /\ r[1] = "^" /\ r[Len(r)] = "$" /\ \A i \in 1 .. Len(c) : r[1 + i] = c[i]
  <2>1. 1 \in 1 .. Len(b) /\ \A i \in 1 .. Len(c) : 1 + i \in 1 .. Len(b)
    BY <1>2, <1>3
  <2> QED
    BY <1>2, <1>3, <1>5, <2>1
<1>7. SubSeq(r, 2, Len(r) - 1) = c
  <2> DEFINE u == SubSeq(r, 2, Len(r) - 1)
  <2>1. u \in Seq(Token) /\ Len(u) = Len(c) /\ \A i \in 1 .. Len(u) : u[i] = r[1 + i]
    BY <1>2, <1>5, <1>6
  <2> HIDE DEF u
  <2>2. \A i \in 1 .. Len(u) : u[i] = c[i]
    BY <1>6, <2>1
  <2>3. u = c
    BY <2>1, <2>2, SeqEqual
  <2> QED
    BY <2>3 DEF u
<1> QED
  BY <1>5, <1>6, <1>7 DEF r, b, a, t

\* A host's match accepts the names the domain means, in lower case.
LEMMA HostMatched ==
  ASSUME NEW d \in Seq(Character), NEW n \in Seq(Character)
  PROVE  LET r == <<"^">> \o atomToRegex(d, DOMAIN_WORDS) \o <<"$">> IN
         /\ Finds(Lowered(r), n) = Means(Lowered(d), n, ".")
         /\ Matches(hostMatcher(r), n, TRUE) = Means(Lowered(d), n, ".")
<1> DEFINE c == atomToRegex(d, DOMAIN_WORDS)
           r == <<"^">> \o c \o <<"$">>
<1>1. Worded(DOMAIN_WORDS, ".") /\ DOMAIN_WORDS \in Words
  BY DEF Worded, Words
<1>2. Lowered(d) \in Seq(Character) /\ Len(Lowered(d)) = Len(d)
      /\ \A i \in 1 .. Len(d) : Lowered(d)[i] = Lower(d[i])
  BY LoweredPattern
<1>3. c \in Seq(Token)
  BY <1>1, RegexSound DEF Sounds
<1>4. Lowered(r) = <<"^">> \o Lowered(c) \o <<"$">>
  <2> DEFINE a == <<"^">>
             t == <<"$">>
  <2>1. a \in Seq(Token) /\ t \in Seq(Token)
    <3>1. "^" \in Token /\ "$" \in Token
      BY CharacterAssumption DEF Token, Meta
    <3> QED
      BY <3>1
  <2>2. Lowered(a) = a /\ Lowered(t) = t
    BY DEF Lowered, Lower
  <2> HIDE DEF a, t, c
  <2>3. a \o c \in Seq(Token)
    BY <1>3, <2>1, ConcatProperties
  <2>4. Lowered(a \o c) = Lowered(a) \o Lowered(c)
    BY <1>3, <2>1, LoweredTogether
  <2> DEFINE b == a \o c
  <2> HIDE DEF b
  <2>5. Lowered(b \o t) = Lowered(b) \o Lowered(t)
    BY <2>1, <2>3, LoweredTogether DEF b
  <2>6. Lowered(a \o c \o t) = a \o Lowered(c) \o t
    BY <2>2, <2>4, <2>5 DEF b
  <2> QED
    BY <2>6 DEF a, t
<1>5. Finds(Lowered(r), n) = Means(Lowered(d), n, ".")
  <2> DEFINE e == Lowered(d)
  <2>1. Lowered(c) = atomToRegex(e, DOMAIN_WORDS)
    BY <1>1, CompiledLowered
  <2> HIDE DEF e
  <2>2. Finds(<<"^">> \o atomToRegex(e, DOMAIN_WORDS) \o <<"$">>, n) = Means(e, n, ".")
    BY <1>1, <1>2, WildcardsFound DEF e
  <2> HIDE DEF c, r
  <2> QED
    BY <1>4, <2>1, <2>2 DEF e
<1>6. /\ r \in Seq(Token) /\ Len(r) = Len(c) + 2 /\ r[1] = "^" /\ r[Len(r)] = "$"
      /\ SubSeq(r, 2, Len(r) - 1) = c
  <2> HIDE DEF c
  <2> QED
    BY <1>3, Anchored
<1> DEFINE m == hostMatcher(r)
<1>7. CASE m = [op |-> "reg", pattern |-> r]
  <2>1. Matches(m, n, TRUE) = Finds(Lowered(r), n)
    <3> HIDE DEF r
    <3> QED
      BY <1>7 DEF Matches
  <2> QED
    BY <1>5, <2>1
<1>8. CASE LITERAL_BODY(c) /\ m = [op |-> "str", pattern |-> Lowered(Unescaped(c))]
  <2>1. PlainBut(d, 0)
    BY <1>1, <1>8, LiteralIsPlain
  <2>2. Unescaped(c) = d
    <3>1. Len(c) = Len(d)
      <4>1. 0 \in 0 .. Len(d) /\ Len(d) \in 0 .. Len(d)
        OBVIOUS
      <4>2. Len(Suffixes(d, DOMAIN_WORDS)[Len(d)]) = Len(d) - 0 + Len(Suffixes(d, DOMAIN_WORDS)[0])
        BY <1>1, <2>1, <4>1, PlainCompiled
      <4>3. Suffixes(d, DOMAIN_WORDS)[0] = <<>>
        BY <1>1, Compiled
      <4> QED
        BY <4>2, <4>3 DEF atomToRegex
    <3>2. \A i \in 1 .. Len(d) : Chars(c[i]) = d[i]
      <4>1. 0 \in 0 .. Len(d) /\ Len(d) - 0 = Len(d)
        OBVIOUS
      <4> QED
        BY <1>1, <2>1, <4>1, PlainUnescaped
    <3> HIDE DEF c
    <3> QED
      BY <3>1, <3>2 DEF Unescaped
  <2>3. PlainBut(Lowered(d), 0)
    <3>1. ASSUME NEW i \in 1 .. Len(d)
          PROVE  Lowered(d)[i] \notin {"*", "?"}
      BY <1>2, <2>1 DEF PlainBut, Lower
    <3> QED
      BY <1>2, <3>1 DEF PlainBut
  <2>4. Means(Lowered(d), n, ".") <=> n = Lowered(d)
    BY <1>2, <2>3, PlainMeans
  <2>5. Matches(m, n, TRUE) = (n = Lowered(d))
    <3> HIDE DEF r, c
    <3> QED
      BY <1>8, <2>2 DEF Matches
  <2>6. Means(Lowered(d), n, ".") \in BOOLEAN
    BY DEF Means
  <2> QED
    BY <1>5, <2>4, <2>5, <2>6
<1>9. \/ m = [op |-> "reg", pattern |-> r]
      \/ LITERAL_BODY(c) /\ m = [op |-> "str", pattern |-> Lowered(Unescaped(c))]
  <2> HIDE DEF c, r
  <2> QED
    BY <1>6 DEF hostMatcher
<1> QED
  BY <1>5, <1>7, <1>8, <1>9

\* A path's match accepts the paths its pattern means.
LEMMA PathMatched ==
  ASSUME NEW p \in Seq(Character), NEW s \in Seq(Character)
  PROVE  LET r == <<"^">> \o atomToRegex(p, PATH_WORDS) \o <<"$">> IN
         /\ Finds(r, s) = Means(p, s, "/")
         /\ Matches(pathMatcher(r), s, FALSE) = Means(p, s, "/")
<1> DEFINE L == Len(p)
           c == atomToRegex(p, PATH_WORDS)
           r == <<"^">> \o c \o <<"$">>
           any == Len(c) >= 2 /\ SubSeq(c, Len(c) - 1, Len(c)) = <<".", "*">>
           body == IF any THEN Upto(c, Len(c) - 1) ELSE c
           m == pathMatcher(r)
<1>1. Worded(PATH_WORDS, "/") /\ PATH_WORDS \in Words /\ L \in Nat
  BY DEF Worded, Words
<1>2. c \in Seq(Token) /\ Len(c) \in Nat
  BY <1>1, RegexSound DEF Sounds
<1>3. Finds(r, s) = Means(p, s, "/")
  BY <1>1, WildcardsFound
<1>4. /\ r \in Seq(Token) /\ Len(r) = Len(c) + 2 /\ r[1] = "^" /\ r[Len(r)] = "$"
      /\ SubSeq(r, 2, Len(r) - 1) = c
  <2> HIDE DEF c
  <2> QED
    BY <1>2, Anchored
<1>5. \/ m = [op |-> "reg", pattern |-> r]
      \/ LITERAL_BODY(body) /\ m = [op |-> IF any THEN "beg" ELSE "str", pattern |-> Unescaped(body)]
  <2> HIDE DEF c, r
  <2>1. r # <<>>
    BY <1>2, <1>4
  <2> QED
    BY <1>4, <2>1 DEF pathMatcher, EndsWith
<1>6. CASE m = [op |-> "reg", pattern |-> r]
  <2>1. Matches(m, s, FALSE) = Finds(r, s)
    <3> HIDE DEF r
    <3> QED
      BY <1>6 DEF Matches
  <2> QED
    BY <1>3, <2>1
<1>7. CASE LITERAL_BODY(body) /\ ~ any /\ m = [op |-> "str", pattern |-> Unescaped(c)]
  <2>1. PlainBut(p, 0)
    BY <1>1, <1>7, LiteralIsPlain
  <2>2. Unescaped(c) = p
    <3>1. Len(c) = L
      <4>1. 0 \in 0 .. L /\ L \in 0 .. L
        BY <1>1
      <4>2. Len(Suffixes(p, PATH_WORDS)[L]) = L - 0 + Len(Suffixes(p, PATH_WORDS)[0])
        BY <1>1, <2>1, <4>1, PlainCompiled
      <4>3. Suffixes(p, PATH_WORDS)[0] = <<>>
        BY <1>1, Compiled
      <4> QED
        BY <1>1, <4>2, <4>3 DEF atomToRegex
    <3>2. \A i \in 1 .. L : Chars(c[i]) = p[i]
      <4>1. 0 \in 0 .. L /\ L - 0 = L
        BY <1>1
      <4> QED
        BY <1>1, <2>1, <4>1, PlainUnescaped
    <3> HIDE DEF c
    <3> QED
      BY <3>1, <3>2 DEF Unescaped
  <2>3. Means(p, s, "/") <=> s = p
    BY <2>1, PlainMeans
  <2>4. Matches(m, s, FALSE) = (s = p)
    <3> HIDE DEF r, c
    <3> QED
      BY <1>7, <2>2 DEF Matches
  <2>5. Means(p, s, "/") \in BOOLEAN
    BY DEF Means
  <2> QED
    BY <1>3, <2>3, <2>4, <2>5
<1>8. CASE LITERAL_BODY(body) /\ any /\ m = [op |-> "beg", pattern |-> Unescaped(body)]
  <2> DEFINE k == Len(c) - 2
  <2>1. k \in Nat /\ body = SubSeq(c, 1, k)
    <3> HIDE DEF c
    <3>1. Len(c) - 1 - 1 = k
      BY <1>2
    <3> QED
      BY <1>2, <1>8, <3>1 DEF Upto
  <2>2. EndsAny(c)
    <3> HIDE DEF c
    <3>1. c[Len(c) - 1] = "." /\ c[Len(c)] = "*"
      <4> DEFINE w == SubSeq(c, Len(c) - 1, Len(c))
      <4>1. w[1] = c[Len(c) - 1] /\ w[2] = c[Len(c)]
        BY <1>2, <1>8
      <4>2. w = <<".", "*">>
        BY <1>8
      <4> HIDE DEF w
      <4> QED
        BY <4>1, <4>2
    <3>2. ASSUME NEW i \in 1 .. Len(c) - 2
          PROVE  c[i] \in Literal
      <4>1. SubSeq(c, 1, k)[i] \in Literal /\ i \in 1 .. k
        <5>1. i \in 1 .. Len(SubSeq(c, 1, k))
          BY <1>2, <2>1
        <5> QED
          BY <1>8, <2>1, <5>1 DEF LITERAL_BODY
      <4> QED
        BY <1>2, <2>1, <4>1
    <3> QED
      BY <1>8, <3>1, <3>2 DEF EndsAny
  <2>3. L >= 2 /\ Stars(p, L - 1) /\ PlainBut(p, 2)
    BY <1>1, <2>2, AnyIsLast
  <2>4. k = L - 2
    <3>1. 2 \in 0 .. L /\ L \in 2 .. L /\ 2 \in 1 .. L /\ L - 2 + 1 = L - 1 /\ 2 - 2 = 0
      BY <1>1, <2>3
    <3>2. Len(Suffixes(p, PATH_WORDS)[L]) = L - 2 + Len(Suffixes(p, PATH_WORDS)[2])
      BY <1>1, <2>3, <3>1, PlainCompiled
    <3>3. Suffixes(p, PATH_WORDS)[2] = PATH_WORDS.across \o <<>>
      BY <1>1, <2>3, <3>1, Compiled
    <3>4. Len(PATH_WORDS.across \o <<>>) = 2
      BY DEF PATH_WORDS
    <3>5. Len(c) = L - 2 + 2
      BY <3>2, <3>3, <3>4 DEF atomToRegex
    <3> HIDE DEF c
    <3> QED
      BY <1>1, <3>5
  <2>5. Unescaped(body) = SubSeq(p, 1, L - 2)
    <3>1. \A i \in 1 .. L - 2 : Chars(c[i]) = p[i]
      <4>1. 2 \in 0 .. L
        BY <1>1, <2>3
      <4> QED
        BY <1>1, <2>3, <4>1, PlainUnescaped
    <3>2. Len(body) = k /\ \A i \in 1 .. k : body[i] = c[i]
      <4>1. k <= Len(c)
        BY <1>2
      <4> HIDE DEF c, body, k
      <4> QED
        BY <1>2, <2>1, <4>1
    <3>3. SubSeq(p, 1, k) = [i \in 1 .. k |-> p[i]]
      <4>1. k <= L
        BY <1>1, <2>3, <2>4
      <4> HIDE DEF k
      <4> QED
        BY <1>1, <2>1, <4>1
    <3> HIDE DEF c, body, k
    <3> QED
      BY <2>4, <3>1, <3>2, <3>3 DEF Unescaped
  <2>6. Means(p, s, "/") <=> L - 2 <= Len(s) /\ SubSeq(s, 1, L - 2) = SubSeq(p, 1, L - 2)
    BY <2>3, PlainThenAny
  <2>7. Len(SubSeq(p, 1, L - 2)) = L - 2
    <3> DEFINE h == L - 2
    <3>1. h \in Nat /\ h <= L
      BY <1>1, <2>3
    <3> HIDE DEF h
    <3>2. Len(SubSeq(p, 1, h)) = h
      BY <3>1
    <3> QED
      BY <3>2 DEF h
  <2>8. Matches(m, s, FALSE) = (L - 2 <= Len(s) /\ SubSeq(s, 1, L - 2) = SubSeq(p, 1, L - 2))
    <3> DEFINE v == SubSeq(p, 1, L - 2)
    <3>1. m = [op |-> "beg", pattern |-> v] /\ Len(v) = L - 2
      BY <1>8, <2>5, <2>7
    <3> HIDE DEF v, m
    <3>2. Matches(m, s, FALSE) = (Len(v) <= Len(s) /\ SubSeq(s, 1, Len(v)) = v)
      BY <3>1 DEF Matches
    <3> QED
      BY <3>1, <3>2 DEF v
  <2>9. Means(p, s, "/") \in BOOLEAN
    BY DEF Means
  <2> QED
    BY <1>3, <2>6, <2>8, <2>9
<1> HIDE DEF any
<1>9. any \/ ~ any
  OBVIOUS
<1> QED
  BY <1>3, <1>5, <1>6, <1>7, <1>8, <1>9
=============================================================================
