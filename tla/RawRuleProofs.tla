--------------------------- MODULE RawRuleProofs ---------------------------
(***************************************************************************)
(* What an author's expression matches, for every expression that          *)
(* compiles: the groups, the classes and the alternatives may be nested to *)
(* any depth.  A statement about expressions is proved of one by the       *)
(* alternatives it begins with, or by its first atom and what follows.     *)
(***************************************************************************)
EXTENDS RawHostRule, UrlRule, RuleRegexProofs

-----------------------------------------------------------------------------
(* Where the groups of an expression are *)

Place(r, i) == Reading(r, "PCRE2")[i]
Out(r, i) == Place(r, i) = "out"
Level(r, i) == Depth(r, Reading(r, "PCRE2"), i)

\* What the i-th token adds to the depth.
Rise(r, i) ==
  IF ~ Out(r, i) THEN 0 ELSE IF r[i] \in Openings THEN 1 ELSE IF r[i] = ")" THEN 0 - 1 ELSE 0

\* Counting those of a set up to a number.
LEMMA Counting ==
  ASSUME NEW A, NEW i \in Nat
  PROVE  /\ Cardinality((1 .. i) \cap A) \in Nat
         /\ Cardinality((1 .. i + 1) \cap A)
              = Cardinality((1 .. i) \cap A) + (IF i + 1 \in A THEN 1 ELSE 0)
<1> DEFINE S == (1 .. i) \cap A
<1>1. IsFiniteSet(S)
  <2>1. IsFiniteSet(1 .. i) /\ S \subseteq 1 .. i
    BY FS_Interval
  <2> HIDE DEF S
  <2> QED
    BY <2>1, FS_Subset
<1>2. CASE i + 1 \in A
  <2>1. (1 .. i + 1) \cap A = S \cup {i + 1} /\ i + 1 \notin S
    BY <1>2
  <2> HIDE DEF S
  <2>2. Cardinality(S \cup {i + 1}) = Cardinality(S) + 1
    BY <1>1, <2>1, FS_AddElement
  <2> QED
    BY <1>1, <1>2, <2>1, <2>2, FS_CardinalityType DEF S
<1>3. CASE i + 1 \notin A
  <2>1. (1 .. i + 1) \cap A = S
    BY <1>3
  <2>2. Cardinality(S) \in Nat
    <3> HIDE DEF S
    <3> QED
      BY <1>1, FS_CardinalityType
  <2> QED
    BY <1>3, <2>1, <2>2
<1> QED
  BY <1>2, <1>3

LEMMA Levels ==
  ASSUME NEW r \in Seq(Token)
  PROVE  /\ Level(r, 1) = 0
         /\ \A i \in 1 .. Len(r) : Level(r, i + 1) = Level(r, i) + Rise(r, i)
         /\ \A i \in 1 .. Len(r) + 1 :
              /\ Level(r, i) \in Int
              /\ Opened(r, Reading(r, "PCRE2"), i) > Closed(r, Reading(r, "PCRE2"), i) <=> Level(r, i) > 0
<1> DEFINE p == Reading(r, "PCRE2")
           A == {j \in 1 .. Len(r) : p[j] = "out" /\ r[j] \in Openings}
           B == {j \in 1 .. Len(r) : p[j] = "out" /\ r[j] = ")"}
<1>1. Len(r) \in Nat
  OBVIOUS
<1>2. ASSUME NEW i \in 1 .. Len(r) + 1
      PROVE  /\ Opened(r, p, i) = Cardinality((1 .. i - 1) \cap A)
             /\ Closed(r, p, i) = Cardinality((1 .. i - 1) \cap B)
  <2>1. {j \in 1 .. i - 1 : p[j] = "out" /\ r[j] \in Openings} = (1 .. i - 1) \cap A
    BY <1>1
  <2>2. {j \in 1 .. i - 1 : p[j] = "out" /\ r[j] = ")"} = (1 .. i - 1) \cap B
    BY <1>1
  <2> QED
    BY <2>1, <2>2 DEF Opened, Closed
<1>3. \A i \in 1 .. Len(r) : (i \in A <=> Out(r, i) /\ r[i] \in Openings) /\ (i \in B <=> Out(r, i) /\ r[i] = ")")
  BY DEF Out, Place
<1> HIDE DEF A, B, p
<1>4. ASSUME NEW i \in 1 .. Len(r) + 1
      PROVE  /\ Level(r, i) = Cardinality((1 .. i - 1) \cap A) - Cardinality((1 .. i - 1) \cap B)
             /\ Cardinality((1 .. i - 1) \cap A) \in Nat /\ Cardinality((1 .. i - 1) \cap B) \in Nat
             /\ Opened(r, p, i) > Closed(r, p, i) <=> Level(r, i) > 0
  <2> DEFINE k == i - 1
  <2>1. k \in Nat
    BY <1>1
  <2> HIDE DEF k
  <2>2. Cardinality((1 .. k) \cap A) \in Nat /\ Cardinality((1 .. k) \cap B) \in Nat
    BY <2>1, Counting
  <2>3. Level(r, i) = Opened(r, p, i) - Closed(r, p, i)
    BY DEF Level, Depth, p
  <2> QED
    BY <1>2, <2>2, <2>3 DEF k
<1>5. Level(r, 1) = 0
  <2>1. 1 \in 1 .. Len(r) + 1 /\ 1 .. 1 - 1 = {}
    BY <1>1
  <2>2. (1 .. 1 - 1) \cap A = {} /\ (1 .. 1 - 1) \cap B = {}
    BY <2>1
  <2> QED
    BY <1>4, <2>1, <2>2, FS_EmptySet, 0 - 0 = 0
<1>6. ASSUME NEW i \in 1 .. Len(r)
      PROVE  Level(r, i + 1) = Level(r, i) + Rise(r, i)
  <2> DEFINE k == i - 1
  <2>1. k \in Nat /\ k + 1 = i /\ (i + 1) - 1 = i /\ i \in 1 .. Len(r) + 1 /\ i + 1 \in 1 .. Len(r) + 1
    BY <1>1
  <2> HIDE DEF k
  <2>2. /\ Cardinality((1 .. k + 1) \cap A) = Cardinality((1 .. k) \cap A) + (IF k + 1 \in A THEN 1 ELSE 0)
        /\ Cardinality((1 .. k + 1) \cap B) = Cardinality((1 .. k) \cap B) + (IF k + 1 \in B THEN 1 ELSE 0)
        /\ Cardinality((1 .. k) \cap A) \in Nat /\ Cardinality((1 .. k) \cap B) \in Nat
    BY <2>1, Counting
  <2>3. /\ Level(r, i) = Cardinality((1 .. k) \cap A) - Cardinality((1 .. k) \cap B)
        /\ Level(r, i + 1) = Cardinality((1 .. k + 1) \cap A) - Cardinality((1 .. k + 1) \cap B)
    BY <1>4, <2>1 DEF k
  <2>4. /\ i \in A => Rise(r, i) = 1 /\ i \notin B
        /\ i \in B => Rise(r, i) = 0 - 1 /\ i \notin A
        /\ i \notin A /\ i \notin B => Rise(r, i) = 0
    BY <1>3 DEF Rise, Openings
  <2>5. CASE i \in A
    BY <2>1, <2>2, <2>3, <2>4, <2>5
  <2>6. CASE i \in B
    BY <2>1, <2>2, <2>3, <2>4, <2>6
  <2>7. CASE i \notin A /\ i \notin B
    BY <2>1, <2>2, <2>3, <2>4, <2>7
  <2> QED
    BY <2>5, <2>6, <2>7
<1>7. ASSUME NEW i \in 1 .. Len(r) + 1
      PROVE  Level(r, i) \in Int
  <2>1. \A m \in Nat, n \in Nat : m - n \in Int
    OBVIOUS
  <2> QED
    BY <1>4, <2>1
<1> QED
  BY <1>4, <1>5, <1>6, <1>7 DEF p

LEMMA SubSeqs ==
  ASSUME NEW r \in Seq(Token), NEW x \in 1 .. Len(r) + 1, NEW y \in x - 1 .. Len(r)
  PROVE  /\ SubSeq(r, x, y) \in Seq(Token) /\ Len(SubSeq(r, x, y)) = y - x + 1
         /\ \A j \in 1 .. y - x + 1 : SubSeq(r, x, y)[j] = r[x + j - 1]
<1> DEFINE t == SubSeq(r, x, y)
<1>1. x \in Int /\ y \in Int /\ x <= y + 1 /\ y <= Len(r) /\ 1 <= x /\ Len(r) \in Nat
  OBVIOUS
<1>2. \A i \in x .. y : r[i] \in Token
  BY <1>1
<1>3. /\ t \in Seq(Token) /\ Len(t) = (IF x <= y THEN y - x + 1 ELSE 0)
      /\ \A i \in 1 .. y - x + 1 : t[i] = r[x + i - 1]
  BY <1>1, <1>2, SubSeqProperties
<1> HIDE DEF t
<1>4. Len(t) = y - x + 1
  BY <1>1, <1>3
<1> QED
  BY <1>3, <1>4 DEF t

\* A part that begins outside every class is read as it is in the whole.
CutAt(r, x, y) ==
  \A j \in 1 .. y - x + 2 :
    /\ Place(SubSeq(r, x, y), j) = Place(r, x + j - 1)
    /\ Level(SubSeq(r, x, y), j) = Level(r, x + j - 1) - Level(r, x)

LEMMA Cutting ==
  ASSUME NEW r \in Seq(Token), NEW x \in 1 .. Len(r) + 1, NEW y \in x - 1 .. Len(r), Out(r, x)
  PROVE  CutAt(r, x, y)
<1> DEFINE t == SubSeq(r, x, y)
           M == y - x + 1
           Same(k) == /\ Place(t, k + 1) = Place(r, x + k)
                      /\ Level(t, k + 1) = Level(r, x + k) - Level(r, x)
           T == {k \in 0 .. M : Same(k)}
<1>1. /\ M \in Nat /\ Len(r) \in Nat /\ x \in Nat /\ y \in Int /\ x + M = y + 1
      /\ \A k \in 0 .. M : x + k \in 1 .. Len(r) + 1
  OBVIOUS
<1>2. t \in Seq(Token) /\ Len(t) = M /\ \A j \in 1 .. M : t[j] = r[x + j - 1]
  BY SubSeqs
<1> HIDE DEF t, M
<1>3. /\ Place(t, 1) = "out"
      /\ \A i \in 2 .. M + 1 : Place(t, i) = Standing(t, "PCRE2", i, Place(t, i - 1))
      /\ \A i \in 2 .. Len(r) + 1 : Place(r, i) = Standing(r, "PCRE2", i, Place(r, i - 1))
  BY <1>2, Places DEF Place
<1>4. /\ Level(t, 1) = 0
      /\ \A i \in 1 .. M : Level(t, i + 1) = Level(t, i) + Rise(t, i)
      /\ \A i \in 1 .. Len(r) : Level(r, i + 1) = Level(r, i) + Rise(r, i)
      /\ \A i \in 1 .. Len(r) + 1 : Level(r, i) \in Int
      /\ \A i \in 1 .. Len(t) + 1 : Level(t, i) \in Int
  BY <1>2, Levels
<1>5. 0 \in T
  <2>1. x + 0 = x /\ 0 + 1 = 1 /\ Level(r, x) - Level(r, x) = 0
    BY <1>1, <1>4
  <2> QED
    BY <1>1, <1>3, <1>4, <2>1 DEF Out
<1>6. ASSUME NEW k \in 0 .. M - 1, k \in T
      PROVE  k + 1 \in T
  <2> DEFINE i == k + 1
             m == x + k
  <2>1. /\ i \in 1 .. M /\ m \in 1 .. Len(r) /\ i + 1 \in 2 .. M + 1 /\ m + 1 \in 2 .. Len(r) + 1
        /\ (i + 1) - 1 = i /\ (m + 1) - 1 = m /\ x + i - 1 = m /\ x + i = m + 1 /\ k + 1 \in 0 .. M
    <3>1. k \in 0 .. M - 1 /\ x + (k + 1) \in 1 .. Len(r) + 1
      BY <1>1
    <3> QED
      BY <1>1, <3>1
  <2>2. Place(t, i) = Place(r, m) /\ Level(t, i) = Level(r, m) - Level(r, x)
    BY <1>6
  <2> HIDE DEF i, m
  <2>3. t[i] = r[m]
    BY <1>2, <2>1
  <2>4. Place(t, i + 1) = Place(r, m + 1)
    <3>1. Standing(t, "PCRE2", i + 1, Place(r, m)) = Standing(r, "PCRE2", m + 1, Place(r, m))
      BY <2>1, <2>3 DEF Standing
    <3> QED
      BY <1>3, <2>1, <2>2, <3>1
  <2>5. Rise(t, i) = Rise(r, m) /\ Rise(r, m) \in Int
    BY <2>2, <2>3 DEF Rise, Out
  <2>6. Level(t, i + 1) = Level(r, m + 1) - Level(r, x)
    <3>1. Level(t, i + 1) = (Level(r, m) - Level(r, x)) + Rise(r, m)
      BY <1>4, <2>1, <2>2, <2>5
    <3>2. Level(r, m + 1) = Level(r, m) + Rise(r, m)
      BY <1>4, <2>1
    <3>3. Level(r, m) \in Int /\ Level(r, x) \in Int
      BY <1>1, <1>4, <2>1
    <3> QED
      BY <2>5, <3>1, <3>2, <3>3
  <2>7. Same(i)
    BY <2>1, <2>4, <2>6
  <2> HIDE DEF Same
  <2> QED
    BY <2>1, <2>7 DEF i
<1> HIDE DEF T
<1>7. 0 .. M \subseteq T
  BY <1>1, <1>5, <1>6, UpTo
<1>8. ASSUME NEW j \in 1 .. y - x + 2
      PROVE  Place(t, j) = Place(r, x + j - 1) /\ Level(t, j) = Level(r, x + j - 1) - Level(r, x)
  <2> DEFINE k == j - 1
  <2>1. k \in 0 .. M /\ k + 1 = j /\ x + k = x + j - 1
    BY <1>1 DEF M
  <2> HIDE DEF k
  <2>2. Same(k)
    BY <1>7, <2>1 DEF T
  <2> QED
    BY <2>1, <2>2
<1> QED
  BY <1>8 DEF CutAt, t

(* An expression that compiles, and its parts *)

Whole(r) == r \in Seq(Token) /\ Compiles(r, "PCRE2") /\ checkEscapes(r)
Unrepeatable == Openings \cup Quantifiers \cup Assertions \cup {"|"}

\* Without quotes there are the classes and what is outside of them.
LEMMA NothingQuoted ==
  ASSUME NEW r \in Seq(Token), checkEscapes(r)
  PROVE  \A i \in 1 .. Len(r) + 1 : Place(r, i) \in {"out", "first", "in"}
<1> DEFINE N == Len(r)
           Plain == {"out", "first", "in"}
           T == {k \in 0 .. N : Place(r, k + 1) \in Plain}
<1>1. N \in Nat
  OBVIOUS
<1>2. Place(r, 1) = "out" /\ \A i \in 2 .. N + 1 : Place(r, i) = Standing(r, "PCRE2", i, Place(r, i - 1))
  BY Places DEF Place
<1>3. \A i \in 1 .. N : r[i] # "\\Q"
  BY DEF checkEscapes
<1> HIDE DEF N
<1>4. 0 \in T
  BY <1>1, <1>2
<1>5. ASSUME NEW k \in 0 .. N - 1, k \in T
      PROVE  k + 1 \in T
  <2>1. /\ k + 1 \in 0 .. N /\ k + 1 \in 1 .. N /\ (k + 1) + 1 \in 2 .. N + 1 /\ ((k + 1) + 1) - 1 = k + 1
    BY <1>1
  <2>2. \A here \in Plain : Standing(r, "PCRE2", (k + 1) + 1, here) \in Plain
    BY <1>3, <2>1 DEF Standing
  <2>3. Place(r, (k + 1) + 1) = Standing(r, "PCRE2", (k + 1) + 1, Place(r, k + 1))
    BY <1>2, <2>1
  <2> QED
    BY <1>5, <2>1, <2>2, <2>3
<1> HIDE DEF T
<1>6. 0 .. N \subseteq T
  BY <1>1, <1>4, <1>5, UpTo
<1>7. ASSUME NEW i \in 1 .. N + 1
      PROVE  Place(r, i) \in Plain
  <2>1. i - 1 \in 0 .. N /\ (i - 1) + 1 = i
    BY <1>1
  <2> QED
    BY <1>6, <2>1 DEF T
<1> QED
  BY <1>7 DEF N

\* The conditions of Compiles, in terms of the depth.
Balanced(r) ==
  /\ \A i \in 1 .. Len(r) :
       Out(r, i) =>
         /\ r[i] = ")" => Level(r, i) > 0
         /\ r[i] \in Quantifiers => i > 1 /\ r[i - 1] \notin Unrepeatable
  /\ Out(r, Len(r) + 1) /\ Level(r, Len(r) + 1) = 0

LEMMA WholeIsBalanced ==
  ASSUME NEW r \in Seq(Token), checkEscapes(r)
  PROVE  Whole(r) <=> Balanced(r)
<1>1. \A i \in 1 .. Len(r) + 1 :
        Opened(r, Reading(r, "PCRE2"), i) > Closed(r, Reading(r, "PCRE2"), i) <=> Level(r, i) > 0
  BY Levels
<1>2. Out(r, Len(r) + 1) <=> Reading(r, "PCRE2")[Len(r) + 1] \notin {"first", "in"}
  <2>1. Len(r) + 1 \in 1 .. Len(r) + 1
    OBVIOUS
  <2>2. Place(r, Len(r) + 1) \in {"out", "first", "in"}
    BY <2>1, NothingQuoted
  <2> QED
    BY <2>2 DEF Out, Place
<1>3. Level(r, Len(r) + 1) = Depth(r, Reading(r, "PCRE2"), Len(r) + 1)
  BY DEF Level
<1>4. Begins(r, "PCRE2") <=>
        \A i \in 1 .. Len(r) :
          Out(r, i) =>
            /\ r[i] = ")" => Level(r, i) > 0
            /\ r[i] \in Quantifiers => i > 1 /\ r[i - 1] \notin Unrepeatable
  <2>1. \A i \in 1 .. Len(r) : i \in 1 .. Len(r) + 1
    OBVIOUS
  <2>2. \A i \in 1 .. Len(r) : Out(r, i) <=> Reading(r, "PCRE2")[i] = "out"
    BY DEF Out, Place
  <2> DEFINE p == Reading(r, "PCRE2")
             Before(i) == Opened(r, p, i) > Closed(r, p, i)
  <2>3. \A i \in 1 .. Len(r) : Before(i) <=> Level(r, i) > 0
    BY <1>1, <2>1
  <2>4. Begins(r, "PCRE2") <=>
          \A i \in 1 .. Len(r) :
            p[i] = "out" =>
              /\ r[i] = ")" => Before(i)
              /\ r[i] \in Quantifiers => i > 1 /\ r[i - 1] \notin Unrepeatable
    BY DEF Begins, Unrepeatable
  <2> HIDE DEF Before, p
  <2>5. \A i \in 1 .. Len(r) : Out(r, i) <=> p[i] = "out"
    BY <2>2 DEF p
  <2> QED
    BY <2>3, <2>4, <2>5
<1> QED
  BY <1>2, <1>3, <1>4 DEF Whole, Balanced, Compiles

\* No group is closed that was not opened.
LEMMA NeverBelow ==
  ASSUME NEW r, Whole(r)
  PROVE  \A i \in 1 .. Len(r) + 1 : Level(r, i) \in Nat
<1> DEFINE N == Len(r)
           T == {k \in 0 .. N : Level(r, k + 1) \in Nat}
<1>1. r \in Seq(Token) /\ N \in Nat /\ Balanced(r)
  BY WholeIsBalanced DEF Whole
<1>2. Level(r, 1) = 0 /\ \A i \in 1 .. N : Level(r, i + 1) = Level(r, i) + Rise(r, i)
  BY <1>1, Levels
<1> HIDE DEF N
<1>3. 0 \in T
  BY <1>1, <1>2
<1>4. ASSUME NEW k \in 0 .. N - 1, k \in T
      PROVE  k + 1 \in T
  <2>1. k + 1 \in 0 .. N /\ k + 1 \in 1 .. N
    BY <1>1
  <2> DEFINE i == k + 1
  <2>2. Level(r, i) \in Nat /\ Level(r, i + 1) = Level(r, i) + Rise(r, i)
    BY <1>2, <1>4, <2>1
  <2> HIDE DEF i
  <2>3. Out(r, i) /\ r[i] = ")" => Level(r, i) > 0
    BY <1>1, <2>1 DEF Balanced, N, i
  <2>4. Level(r, i + 1) \in Nat
    BY <2>2, <2>3 DEF Rise
  <2> QED
    BY <2>1, <2>4 DEF i
<1> HIDE DEF T
<1>5. 0 .. N \subseteq T
  BY <1>1, <1>3, <1>4, UpTo
<1>6. ASSUME NEW i \in 1 .. N + 1
      PROVE  Level(r, i) \in Nat
  <2>1. i - 1 \in 0 .. N /\ (i - 1) + 1 = i
    BY <1>1
  <2> QED
    BY <1>5, <2>1 DEF T
<1> QED
  BY <1>6 DEF N

\* A part of it compiles when it ends outside every class and where it began,
\* and nowhere closes what was open before.
LEMMA PartIsWhole ==
  ASSUME NEW r, Whole(r), NEW x \in 1 .. Len(r) + 1, NEW y \in x - 1 .. Len(r),
         Out(r, x), Out(r, y + 1), Level(r, y + 1) = Level(r, x),
         \A j \in x .. y + 1 : Level(r, j) >= Level(r, x),
         x <= y => r[x] \notin Quantifiers
  PROVE  Whole(SubSeq(r, x, y))
<1> DEFINE t == SubSeq(r, x, y)
           M == y - x + 1
<1>1. r \in Seq(Token) /\ checkEscapes(r) /\ Len(r) \in Nat /\ Balanced(r)
  BY WholeIsBalanced DEF Whole
<1>2. /\ M \in Nat /\ x \in Nat /\ y \in Int /\ y - x + 2 = M + 1
      /\ \A j \in 1 .. M : x + j - 1 \in 1 .. Len(r) /\ x + j - 1 \in x .. y
      /\ \A j \in 1 .. M + 1 : x + j - 1 \in x .. y + 1 /\ x + j - 1 \in 1 .. Len(r) + 1
  BY <1>1
<1>3. t \in Seq(Token) /\ Len(t) = M /\ \A j \in 1 .. M : t[j] = r[x + j - 1]
  BY <1>1, SubSeqs
<1>4. \A j \in 1 .. M + 1 : Place(t, j) = Place(r, x + j - 1) /\ Level(t, j) = Level(r, x + j - 1) - Level(r, x)
  <2>1. CutAt(r, x, y)
    BY <1>1, Cutting
  <2> QED
    BY <1>2, <2>1 DEF CutAt
<1>5. \A j \in 1 .. Len(r) + 1 : Level(r, j) \in Int
  BY <1>1, Levels
<1> HIDE DEF t, M
<1>6. checkEscapes(t)
  BY <1>1, <1>2, <1>3 DEF checkEscapes
<1>7. ASSUME NEW j \in 1 .. M, Out(t, j)
      PROVE  /\ t[j] = ")" => Level(t, j) > 0
             /\ t[j] \in Quantifiers => j > 1 /\ t[j - 1] \notin Unrepeatable
  <2> DEFINE i == x + j - 1
  <2>1. /\ i \in 1 .. Len(r) /\ i \in x .. y /\ i + 1 \in x .. y + 1 /\ i + 1 \in 1 .. Len(r) + 1 /\ i \in 1 .. Len(r) + 1
        /\ j \in 1 .. M + 1 /\ x \in 1 .. Len(r) + 1
    BY <1>1, <1>2
  <2>2. Out(r, i) /\ t[j] = r[i] /\ Level(t, j) = Level(r, i) - Level(r, x)
    BY <1>3, <1>4, <1>7, <2>1 DEF Out
  <2>3. i > x => j > 1 /\ j - 1 \in 1 .. M /\ x + (j - 1) - 1 = i - 1
    BY <1>2
  <2>4. i > 1 /\ j = 1 => i = x
    BY <1>2
  <2> HIDE DEF i
  <2>5. r[i] = ")" => Level(t, j) > 0
    <3>1. ASSUME r[i] = ")"
          PROVE  Level(t, j) > 0
      <4>1. Rise(r, i) = 0 - 1
        BY <2>2, <3>1 DEF Rise, Openings
      <4>2. Level(r, i + 1) = Level(r, i) + (0 - 1) /\ Level(r, i + 1) >= Level(r, x)
        BY <1>1, <2>1, <4>1, Levels
      <4>3. Level(r, i) \in Int /\ Level(r, x) \in Int
        BY <1>5, <2>1
      <4> QED
        BY <2>2, <4>2, <4>3
    <3> QED
      BY <3>1
  <2>6. r[i] \in Quantifiers => j > 1 /\ t[j - 1] \notin Unrepeatable
    <3>1. ASSUME r[i] \in Quantifiers
          PROVE  j > 1 /\ t[j - 1] \notin Unrepeatable
      <4>1. i # x /\ i > x
        BY <2>1, <3>1
      <4>2. r[i - 1] \notin Unrepeatable
        BY <1>1, <2>1, <2>2, <3>1 DEF Balanced
      <4>3. j > 1 /\ j - 1 \in 1 .. M /\ t[j - 1] = r[i - 1]
        BY <1>3, <2>3, <4>1
      <4> QED
        BY <4>2, <4>3
    <3> QED
      BY <3>1
  <2> QED
    BY <2>2, <2>5, <2>6
<1>8. Out(t, M + 1) /\ Level(t, M + 1) = 0
  <2>1. M + 1 \in 1 .. M + 1 /\ x + (M + 1) - 1 = y + 1 /\ y + 1 \in 1 .. Len(r) + 1
    BY <1>1, <1>2 DEF M
  <2>2. Place(t, M + 1) = Place(r, y + 1) /\ Level(t, M + 1) = Level(r, y + 1) - Level(r, x)
    BY <1>4, <2>1
  <2>3. Level(r, x) \in Int
    BY <1>5
  <2> QED
    BY <2>2, <2>3 DEF Out
<1>9. Balanced(t)
  BY <1>3, <1>7, <1>8 DEF Balanced
<1> QED
  BY <1>3, <1>6, <1>9, WholeIsBalanced DEF t

LEMMA EmptyIsWhole == <<>> \in Seq(Token) /\ Whole(<<>>)
<1>1. <<>> \in Seq(Token) /\ checkEscapes(<<>>) /\ Len(<<>>) = 0
  BY DEF checkEscapes
<1>2. Reading(<<>>, "PCRE2")[1] = "out" /\ Level(<<>>, 1) = 0
  BY <1>1, Places, Levels
<1>3. Balanced(<<>>)
  BY <1>1, <1>2 DEF Balanced, Out, Place
<1> QED
  BY <1>1, <1>3, WholeIsBalanced

\* Two that compile do so together, where no quantifier joins them.
LEMMA JoinIsWhole ==
  ASSUME NEW a, Whole(a), NEW b, Whole(b), b # <<>> => b[1] \notin Quantifiers
  PROVE  /\ Whole(a \o b)
         /\ \A j \in 1 .. Len(a) + 1 : Place(a \o b, j) = Place(a, j) /\ Level(a \o b, j) = Level(a, j)
         /\ \A j \in 1 .. Len(b) + 1 :
              Place(a \o b, Len(a) + j) = Place(b, j) /\ Level(a \o b, Len(a) + j) = Level(b, j)
<1> DEFINE r == a \o b
           m == Len(a)
           n == Len(b)
<1>1. /\ a \in Seq(Token) /\ b \in Seq(Token) /\ m \in Nat /\ n \in Nat
      /\ checkEscapes(a) /\ checkEscapes(b) /\ Balanced(a) /\ Balanced(b)
  BY WholeIsBalanced DEF Whole
<1>2. /\ r \in Seq(Token) /\ Len(r) = m + n
      /\ \A i \in 1 .. m : r[i] = a[i]
      /\ \A i \in 1 .. n : r[m + i] = b[i]
      /\ SubSeq(r, 1, m) = a /\ SubSeq(r, m + 1, Len(r)) = b
  <2> DEFINE S == Token
  <2>1. a \in Seq(S) /\ b \in Seq(S)
    BY <1>1
  <2> HIDE DEF S
  <2>2. /\ a \o b \in Seq(S) /\ Len(a \o b) = Len(a) + Len(b)
        /\ \A i \in 1 .. Len(a) : (a \o b)[i] = a[i]
        /\ \A i \in 1 .. Len(b) : (a \o b)[Len(a) + i] = b[i]
        /\ SubSeq(a \o b, 1, Len(a)) = a
        /\ From(a \o b, Len(a) + 1) = b
    BY <2>1, ComesApart
  <2> QED
    BY <2>2 DEF From, S
<1> HIDE DEF r
<1>3. ASSUME NEW j \in 1 .. m + 1
      PROVE  Place(r, j) = Place(a, j) /\ Level(r, j) = Level(a, j)
  <2>1. 1 \in 1 .. Len(r) + 1 /\ m \in 1 - 1 .. Len(r) /\ j \in 1 .. m - 1 + 2 /\ 1 + j - 1 = j
    BY <1>1, <1>2
  <2>2. Out(r, 1) /\ Level(r, 1) = 0
    BY <1>2, Places, Levels DEF Out, Place
  <2>3. CutAt(r, 1, m)
    BY <1>2, <2>1, <2>2, Cutting
  <2>4. Place(a, j) = Place(r, j) /\ Level(a, j) = Level(r, j) - 0
    BY <1>2, <2>1, <2>2, <2>3 DEF CutAt
  <2>5. Level(r, j) \in Int
    <3>1. j \in 1 .. Len(r) + 1
      BY <1>1, <1>2
    <3> QED
      BY <1>2, <3>1, Levels
  <2> QED
    BY <2>4, <2>5
<1>4. Out(r, m + 1) /\ Level(r, m + 1) = 0
  <2>1. m + 1 \in 1 .. m + 1
    BY <1>1
  <2> QED
    BY <1>1, <1>3, <2>1 DEF Balanced, Out
<1>5. ASSUME NEW j \in 1 .. n + 1
      PROVE  Place(r, m + j) = Place(b, j) /\ Level(r, m + j) = Level(b, j)
  <2> DEFINE x == m + 1
             y == Len(r)
  <2>1. x \in 1 .. Len(r) + 1 /\ y \in x - 1 .. Len(r) /\ j \in 1 .. y - x + 2 /\ x + j - 1 = m + j
    BY <1>1, <1>2
  <2>2. Out(r, x) /\ Level(r, x) = 0 /\ SubSeq(r, x, y) = b
    BY <1>2, <1>4
  <2> HIDE DEF x, y
  <2>3. CutAt(r, x, y)
    BY <1>2, <2>1, <2>2, Cutting
  <2>4. Place(b, j) = Place(r, m + j) /\ Level(b, j) = Level(r, m + j) - 0
    BY <2>1, <2>2, <2>3 DEF CutAt
  <2>5. Level(r, m + j) \in Int
    <3>1. m + j \in 1 .. Len(r) + 1
      BY <1>1, <1>2
    <3> QED
      BY <1>2, <3>1, Levels
  <2> QED
    BY <2>4, <2>5
<1>6. checkEscapes(r)
  <2>1. ASSUME NEW i \in 1 .. Len(r)
        PROVE  r[i] \notin {"\\Q", "\\E"}
    <3>1. CASE i <= m
      <4>1. i \in 1 .. m
        BY <1>1, <3>1
      <4> QED
        BY <1>1, <1>2, <4>1 DEF checkEscapes
    <3>2. CASE i > m
      <4> DEFINE k == i - m
      <4>1. k \in 1 .. n /\ m + k = i
        BY <1>1, <1>2, <3>2
      <4> HIDE DEF k
      <4> QED
        BY <1>1, <1>2, <4>1 DEF checkEscapes
    <3> QED
      BY <1>1, <1>2, <3>1, <3>2
  <2> QED
    BY <2>1 DEF checkEscapes
<1>7. ASSUME NEW i \in 1 .. Len(r), Out(r, i)
      PROVE  /\ r[i] = ")" => Level(r, i) > 0
             /\ r[i] \in Quantifiers => i > 1 /\ r[i - 1] \notin Unrepeatable
  <2>1. CASE i <= m
    <3>1. i \in 1 .. m /\ i \in 1 .. m + 1 /\ (i > 1 => i - 1 \in 1 .. m)
      BY <1>1, <2>1
    <3>2. Out(a, i) /\ a[i] = r[i] /\ Level(a, i) = Level(r, i) /\ (i > 1 => r[i - 1] = a[i - 1])
      BY <1>2, <1>3, <1>7, <3>1 DEF Out
    <3> QED
      BY <1>1, <3>1, <3>2 DEF Balanced
  <2>2. CASE i > m
    <3> DEFINE k == i - m
    <3>1. /\ k \in 1 .. n /\ k \in 1 .. n + 1 /\ m + k = i
          /\ k > 1 => i > 1 /\ k - 1 \in 1 .. n /\ m + (k - 1) = i - 1
      BY <1>1, <1>2, <2>2
    <3> HIDE DEF k
    <3>2. Out(b, k) /\ b[k] = r[i] /\ Level(b, k) = Level(r, i) /\ (k > 1 => r[i - 1] = b[k - 1])
      BY <1>2, <1>5, <1>7, <3>1 DEF Out
    <3>3. b[k] \in Quantifiers => k > 1 /\ b[k - 1] \notin Unrepeatable
      BY <1>1, <3>1, <3>2 DEF Balanced
    <3>4. b[k] = ")" => Level(b, k) > 0
      BY <1>1, <3>1, <3>2 DEF Balanced
    <3> QED
      BY <3>1, <3>2, <3>3, <3>4
  <2> QED
    BY <1>1, <1>2, <2>1, <2>2
<1>8. Out(r, Len(r) + 1) /\ Level(r, Len(r) + 1) = 0
  <2>1. n + 1 \in 1 .. n + 1 /\ m + (n + 1) = Len(r) + 1
    BY <1>1, <1>2
  <2>2. Place(r, m + (n + 1)) = Place(b, n + 1) /\ Level(r, m + (n + 1)) = Level(b, n + 1)
    BY <1>5, <2>1
  <2> QED
    BY <1>1, <2>1, <2>2 DEF Balanced, Out
<1>9. Whole(r)
  <2>1. Balanced(r)
    BY <1>7, <1>8 DEF Balanced
  <2> QED
    BY <1>2, <1>6, <2>1, WholeIsBalanced
<1> QED
  BY <1>3, <1>5, <1>9 DEF r

\* The first place where what began is over.
IsOver(r, e) == Out(r, e + 1) /\ Level(r, e + 1) = 0
AtomIs(r, e) == e \in 1 .. Len(r) /\ IsOver(r, e) /\ \A j \in 1 .. e - 1 : ~ IsOver(r, j)

LEMMA AtomFound ==
  ASSUME NEW r, Whole(r), r # <<>>
  PROVE  \E e \in 1 .. Len(r) : AtomIs(r, e)
<1> DEFINE S == {e \in 1 .. Len(r) : IsOver(r, e)}
<1>1. r \in Seq(Token) /\ Balanced(r)
  BY WholeIsBalanced DEF Whole
<1>2. Len(r) \in Nat /\ Len(r) # 0
  BY <1>1
<1>3. Len(r) \in S
  BY <1>1, <1>2 DEF Balanced, IsOver
<1>4. S \in SUBSET Nat
  OBVIOUS
<1>5. PICK e \in S : \A j \in S : e <= j
  <2> HIDE DEF S
  <2> QED
    BY <1>3, <1>4, LeastOne
<1>6. ASSUME NEW j \in 1 .. e - 1
      PROVE  ~ IsOver(r, j)
  <2>1. j \in 1 .. Len(r) /\ ~ (e <= j)
    BY <1>2
  <2> QED
    BY <1>5, <2>1
<1>7. AtomIs(r, e)
  BY <1>6 DEF AtomIs
<1> QED
  BY <1>7

\* What the first token does to the depth.
LEMMA FirstRises ==
  ASSUME NEW r, Whole(r), r # <<>>
  PROVE  /\ Out(r, 1) /\ Level(r, 1) = 0
         /\ r[1] \notin Quantifiers /\ r[1] # ")" /\ r[1] # "\\Q"
         /\ r[1] \in Openings => Out(r, 2) /\ Level(r, 2) = 1
         /\ r[1] \in ClassOpenings => ~ Out(r, 2) /\ Level(r, 2) = 0
         /\ r[1] \notin Openings \cup ClassOpenings => IsOver(r, 1)
<1>1. r \in Seq(Token) /\ Balanced(r) /\ checkEscapes(r) /\ Len(r) \in Nat /\ Len(r) # 0
  BY WholeIsBalanced, EmptySeq DEF Whole
<1>2. 1 \in 1 .. Len(r) /\ 2 \in 2 .. Len(r) + 1 /\ 1 + 1 = 2 /\ 2 - 1 = 1
  BY <1>1
<1>3. Out(r, 1) /\ Place(r, 2) = Standing(r, "PCRE2", 2, "out")
  <2>1. Place(r, 1) = "out" /\ \A i \in 2 .. Len(r) + 1 : Place(r, i) = Standing(r, "PCRE2", i, Place(r, i - 1))
    BY <1>1, Places DEF Place
  <2> QED
    BY <1>2, <2>1 DEF Out
<1>4. Level(r, 1) = 0 /\ Level(r, 2) = Rise(r, 1)
  <2>1. Level(r, 1) = 0 /\ Level(r, 1 + 1) = Level(r, 1) + Rise(r, 1)
    BY <1>1, <1>2, Levels
  <2>2. Rise(r, 1) \in Int
    BY DEF Rise
  <2> QED
    BY <1>2, <2>1, <2>2
<1>5. r[1] \notin Quantifiers /\ r[1] # ")" /\ r[1] # "\\Q"
  BY <1>1, <1>2, <1>3, <1>4 DEF Balanced, checkEscapes
<1>6. CASE r[1] \in Openings
  <2>1. r[1] \notin ClassOpenings /\ Rise(r, 1) = 1
    BY <1>3, <1>6 DEF Rise, Openings, ClassOpenings
  <2>2. Standing(r, "PCRE2", 2, "out") = "out"
    BY <1>2, <1>5, <2>1 DEF Standing
  <2> QED
    BY <1>3, <1>4, <1>5, <1>6, <2>1, <2>2 DEF Out
<1>7. CASE r[1] \in ClassOpenings
  <2>1. r[1] \notin Openings /\ Rise(r, 1) = 0
    BY <1>3, <1>7 DEF Rise, Openings, ClassOpenings
  <2>2. Standing(r, "PCRE2", 2, "out") = "first"
    BY <1>2, <1>7 DEF Standing, ClassOpenings
  <2> QED
    BY <1>3, <1>4, <1>5, <1>7, <2>1, <2>2 DEF Out
<1>8. CASE r[1] \notin Openings \cup ClassOpenings
  <2>1. Rise(r, 1) = 0
    BY <1>3, <1>5, <1>8 DEF Rise
  <2>2. Standing(r, "PCRE2", 2, "out") = "out"
    BY <1>2, <1>5, <1>8 DEF Standing
  <2>3. IsOver(r, 1)
    BY <1>2, <1>3, <1>4, <2>1, <2>2 DEF Out, IsOver
  <2> QED
    BY <1>3, <1>4, <1>5, <1>8, <2>3
<1> QED
  BY <1>6, <1>7, <1>8

\* A class stays a class up to its end.
LEMMA ClassGoesOn ==
  ASSUME NEW r, Whole(r), NEW e, AtomIs(r, e), r # <<>>, r[1] \in ClassOpenings
  PROVE  e \in 2 .. Len(r) /\ \A j \in 2 .. e : ~ Out(r, j)
<1> DEFINE Inside(k) == Level(r, k + 2) = 0 /\ ~ Out(r, k + 2)
           T == {k \in 0 .. e - 2 : Inside(k)}
<1>1. r \in Seq(Token) /\ Len(r) \in Nat /\ e \in 1 .. Len(r)
  BY DEF Whole, AtomIs
<1>2. ~ Out(r, 2) /\ Level(r, 2) = 0
  BY FirstRises
<1>3. e # 1
  BY <1>2 DEF AtomIs, IsOver
<1>4. e - 2 \in Nat /\ e \in 2 .. Len(r)
  BY <1>1, <1>3
<1>5. 0 \in T
  BY <1>2, <1>4
<1>6. ASSUME NEW k \in 0 .. (e - 2) - 1, k \in T
      PROVE  k + 1 \in T
  <2> DEFINE j == k + 2
  <2>1. /\ k + 1 \in 0 .. e - 2 /\ j \in 1 .. Len(r) /\ j \in 1 .. e - 1 /\ (k + 1) + 2 = j + 1
    BY <1>4
  <2>2. Level(r, j) = 0 /\ ~ Out(r, j)
    BY <1>6
  <2> HIDE DEF j
  <2>3. Level(r, j + 1) = 0
    <3>1. Level(r, j + 1) = Level(r, j) + Rise(r, j)
      BY <1>1, <2>1, Levels
    <3> QED
      BY <2>2, <3>1 DEF Rise
  <2>4. ~ Out(r, j + 1)
    BY <2>1, <2>3 DEF AtomIs, IsOver
  <2> QED
    BY <2>1, <2>3, <2>4
<1> HIDE DEF T
<1>7. 0 .. e - 2 \subseteq T
  <2> DEFINE N == e - 2
  <2>1. N \in Nat /\ \A k \in 0 .. N - 1 : k \in T => k + 1 \in T
    BY <1>4, <1>6
  <2> HIDE DEF N
  <2>2. 0 .. N \subseteq T
    BY <1>5, <2>1, UpTo
  <2> QED
    BY <2>2 DEF N
<1>8. ASSUME NEW j \in 2 .. e
      PROVE  ~ Out(r, j)
  <2> DEFINE k == j - 2
  <2>1. k \in 0 .. e - 2 /\ k + 2 = j
    BY <1>4
  <2>2. Inside(k)
    <3> HIDE DEF k
    <3> QED
      BY <1>7, <2>1 DEF T
  <2> HIDE DEF k
  <2> QED
    BY <2>1, <2>2
<1> QED
  BY <1>4, <1>8

\* A group stays open up to its end.
LEMMA GroupGoesOn ==
  ASSUME NEW r, Whole(r), NEW e, AtomIs(r, e), r # <<>>, r[1] \in Openings
  PROVE  /\ e \in 2 .. Len(r) /\ \A j \in 2 .. e : Level(r, j) > 0
         /\ Out(r, e) /\ r[e] = ")" /\ Level(r, e) = 1
<1> DEFINE Inside(k) == Level(r, k + 2) > 0
           T == {k \in 0 .. e - 2 : Inside(k)}
<1>1. r \in Seq(Token) /\ Len(r) \in Nat /\ e \in 1 .. Len(r)
  BY DEF Whole, AtomIs
<1>2. Level(r, 2) = 1
  BY FirstRises
<1>3. e # 1
  BY <1>2 DEF AtomIs, IsOver
<1>4. e - 2 \in Nat /\ e \in 2 .. Len(r)
  BY <1>1, <1>3
<1>5. \A i \in 1 .. Len(r) + 1 : Level(r, i) \in Nat
  BY NeverBelow
\* Only a closing parenthesis leaves nothing open.
<1>6. ASSUME NEW j \in 2 .. Len(r), Level(r, j) > 0, Level(r, j + 1) = 0
      PROVE  Out(r, j) /\ r[j] = ")" /\ Level(r, j) = 1 /\ IsOver(r, j)
  <2>1. j \in 1 .. Len(r) /\ j \in 1 .. Len(r) + 1 /\ j + 1 \in 2 .. Len(r) + 1 /\ (j + 1) - 1 = j
    BY <1>1
  <2>2. Level(r, j + 1) = Level(r, j) + Rise(r, j) /\ Level(r, j) \in Nat
    BY <1>1, <1>5, <2>1, Levels
  <2>3. Rise(r, j) = 0 - 1 /\ Out(r, j) /\ r[j] = ")" /\ Level(r, j) = 1
    BY <1>6, <2>2 DEF Rise
  <2>4. Place(r, j + 1) = Standing(r, "PCRE2", j + 1, Place(r, j))
    BY <1>1, <2>1, Places DEF Place
  <2>5. Standing(r, "PCRE2", j + 1, "out") = "out"
    BY <2>1, <2>3 DEF Standing, ClassOpenings
  <2> QED
    BY <1>6, <2>3, <2>4, <2>5 DEF Out, IsOver
<1>7. 0 \in T
  BY <1>2, <1>4
<1>8. ASSUME NEW k \in 0 .. (e - 2) - 1, k \in T
      PROVE  k + 1 \in T
  <2> DEFINE j == k + 2
  <2>1. /\ k + 1 \in 0 .. e - 2 /\ j \in 2 .. Len(r) /\ j + 1 \in 1 .. Len(r) + 1 /\ j \in 1 .. e - 1 /\ (k + 1) + 2 = j + 1
    BY <1>4
  <2>2. Level(r, j) > 0
    BY <1>8
  <2> HIDE DEF j
  <2>3. Level(r, j + 1) # 0
    BY <1>6, <2>1, <2>2 DEF AtomIs
  <2>4. Level(r, j + 1) > 0
    BY <1>5, <2>1, <2>3
  <2> QED
    BY <2>1, <2>4
<1> HIDE DEF T
<1>9. 0 .. e - 2 \subseteq T
  <2> DEFINE N == e - 2
  <2>1. N \in Nat /\ \A k \in 0 .. N - 1 : k \in T => k + 1 \in T
    BY <1>4, <1>8
  <2> HIDE DEF N
  <2>2. 0 .. N \subseteq T
    BY <1>7, <2>1, UpTo
  <2> QED
    BY <2>2 DEF N
<1>10. ASSUME NEW j \in 2 .. e
       PROVE  Level(r, j) > 0
  <2> DEFINE k == j - 2
  <2>1. k \in 0 .. e - 2 /\ k + 2 = j
    BY <1>4
  <2>2. Inside(k)
    <3> HIDE DEF k
    <3> QED
      BY <1>9, <2>1 DEF T
  <2> HIDE DEF k
  <2> QED
    BY <2>1, <2>2
<1>11. Out(r, e) /\ r[e] = ")" /\ Level(r, e) = 1
  <2>1. Level(r, e + 1) = 0 /\ Level(r, e) > 0
    BY <1>4, <1>10 DEF AtomIs, IsOver
  <2> QED
    BY <1>4, <1>6, <2>1
<1> QED
  BY <1>4, <1>10, <1>11

\* So what AtomEnd finds is the first place where what began is over.
LEMMA AtomEnds ==
  ASSUME NEW r, Whole(r), r # <<>>, r[1] # "|", NEW e, AtomIs(r, e)
  PROVE  AtomEnd(r) = e
<1> DEFINE p == Reading(r, "PCRE2")
<1>1. r \in Seq(Token) /\ Len(r) \in Nat /\ e \in 1 .. Len(r)
  BY DEF Whole, AtomIs
<1>2. CASE r[1] \in ClassOpenings
  <2> DEFINE Ending(i) == p[i + 1] = "out" /\ \A j \in 2 .. i : p[j] # "out"
  <2>1. e \in 2 .. Len(r) /\ \A j \in 2 .. e : ~ Out(r, j)
    BY <1>2, ClassGoesOn
  <2>2. Out(r, e + 1)
    BY DEF AtomIs, IsOver
  <2>3. \A i : Ending(i) <=> Out(r, i + 1) /\ \A j \in 2 .. i : ~ Out(r, j)
    BY DEF Out, Place
  <2>4. ClassEnd(r) = CHOOSE i \in 2 .. Len(r) : Ending(i)
    BY DEF ClassEnd
  <2> HIDE DEF Ending
  <2>5. Ending(e)
    BY <2>1, <2>2, <2>3
  <2>6. ASSUME NEW i \in 2 .. Len(r), Ending(i)
        PROVE  i = e
    <3>1. CASE i < e
      <4>1. i + 1 \in 2 .. e
        BY <2>1, <3>1
      <4> QED
        BY <2>1, <2>3, <2>6, <4>1
    <3>2. CASE e < i
      <4>1. e + 1 \in 2 .. i
        BY <2>1, <3>2
      <4> QED
        BY <2>2, <2>3, <2>6, <4>1
    <3> QED
      BY <2>1, <3>1, <3>2
  <2>7. ClassEnd(r) = e
    BY <2>1, <2>4, <2>5, <2>6
  <2> QED
    BY <1>2, <2>7 DEF AtomEnd, ClassOpenings, Openings
<1>3. CASE r[1] \in Openings
  <2> DEFINE Closing(i) == p[i] = "out" /\ r[i] = ")" /\ Depth(r, p, i) = 1
             Ending(i) == p[i] = "out" /\ r[i] = ")" /\ Depth(r, p, i) = 1
                          /\ \A j \in 2 .. i - 1 : ~(p[j] = "out" /\ r[j] = ")" /\ Depth(r, p, j) = 1)
  <2>1. e \in 2 .. Len(r) /\ Out(r, e) /\ r[e] = ")" /\ Level(r, e) = 1
    BY <1>3, GroupGoesOn
  <2>2. \A i : Closing(i) <=> Out(r, i) /\ r[i] = ")" /\ Level(r, i) = 1
    BY DEF Out, Place, Level
  <2>3. \A i : Ending(i) <=> Closing(i) /\ \A j \in 2 .. i - 1 : ~ Closing(j)
    OBVIOUS
  <2>4. GroupEnd(r) = CHOOSE i \in 2 .. Len(r) : Ending(i)
    BY DEF GroupEnd
  <2> HIDE DEF Ending, Closing
  <2>5. ASSUME NEW j \in 2 .. Len(r), Closing(j)
        PROVE  IsOver(r, j)
    <3>1. j \in 1 .. Len(r) /\ j + 1 \in 2 .. Len(r) + 1 /\ (j + 1) - 1 = j
      BY <1>1
    <3>2. Out(r, j) /\ r[j] = ")" /\ Level(r, j) = 1
      BY <2>2, <2>5
    <3>3. Rise(r, j) = 0 - 1
      BY <3>2 DEF Rise, Openings
    <3>4. Level(r, j + 1) = 0
      BY <1>1, <3>1, <3>2, <3>3, Levels
    <3>5. Place(r, j + 1) = Standing(r, "PCRE2", j + 1, Place(r, j))
      BY <1>1, <3>1, Places DEF Place
    <3>6. Standing(r, "PCRE2", j + 1, "out") = "out"
      BY <3>1, <3>2 DEF Standing, ClassOpenings
    <3> QED
      BY <3>2, <3>4, <3>5, <3>6 DEF IsOver, Out
  <2>6. ASSUME NEW j \in 2 .. e - 1
        PROVE  ~ Closing(j)
    <3>1. j \in 1 .. e - 1 /\ j \in 2 .. Len(r)
      BY <1>1
    <3> QED
      BY <2>5, <3>1 DEF AtomIs
  <2>7. Ending(e)
    BY <2>1, <2>2, <2>3, <2>6
  <2>8. ASSUME NEW i \in 2 .. Len(r), Ending(i)
        PROVE  i = e
    <3>1. CASE i < e
      <4>1. i \in 2 .. e - 1
        BY <2>1, <3>1
      <4> QED
        BY <2>3, <2>6, <2>8, <4>1
    <3>2. CASE e < i
      <4>1. e \in 2 .. i - 1
        BY <2>1, <3>2
      <4> QED
        BY <2>3, <2>7, <2>8, <4>1
    <3> QED
      BY <2>1, <3>1, <3>2
  <2>9. GroupEnd(r) = e
    BY <2>1, <2>4, <2>7, <2>8
  <2> QED
    BY <1>3, <2>9 DEF AtomEnd, ClassOpenings, Openings
<1>4. CASE r[1] \notin Openings \cup ClassOpenings
  <2>1. IsOver(r, 1)
    BY <1>4, FirstRises
  <2>2. e = 1
    <3>1. e # 1 => 1 \in 1 .. e - 1
      BY <1>1
    <3> QED
      BY <2>1, <3>1 DEF AtomIs
  <2> QED
    BY <1>4, <2>2 DEF AtomEnd
<1> QED
  BY <1>2, <1>3, <1>4

(* The parts an expression is matched by *)

NoBar(r) == Bars(r, Reading(r, "PCRE2")) = {}
FirstBar(r) == LET bars == Bars(r, Reading(r, "PCRE2")) IN CHOOSE i \in bars : \A j \in bars : i <= j
Mark(r) == MarkAt(r, AtomEnd(r) + 1)
Rest(r) == From(r, IF Mark(r) = "once" THEN AtomEnd(r) + 1 ELSE AtomEnd(r) + 2)
Inner(r) == SubSeq(r, 2, AtomEnd(r) - 1)

LEMMA BarStands ==
  ASSUME NEW r, Whole(r)
  PROVE  \A i \in 1 .. Len(r) : i \in Bars(r, Reading(r, "PCRE2")) <=> Out(r, i) /\ r[i] = "|" /\ Level(r, i) = 0
BY DEF Bars, Out, Place, Level

\* An alternative compiles by itself.
LEMMA AlternativesAreWhole ==
  ASSUME NEW r, Whole(r), ~ NoBar(r)
  PROVE  /\ FirstBar(r) \in 1 .. Len(r) /\ r[FirstBar(r)] = "|"
         /\ FirstBar(r) \in Bars(r, Reading(r, "PCRE2"))
         /\ Whole(Upto(r, FirstBar(r))) /\ Len(Upto(r, FirstBar(r))) = FirstBar(r) - 1
         /\ Whole(From(r, FirstBar(r) + 1)) /\ Len(From(r, FirstBar(r) + 1)) = Len(r) - FirstBar(r)
         /\ NoBar(Upto(r, FirstBar(r)))
<1> DEFINE bars == Bars(r, Reading(r, "PCRE2"))
           b == FirstBar(r)
<1>1. r \in Seq(Token) /\ Len(r) \in Nat /\ Balanced(r)
  BY WholeIsBalanced DEF Whole
<1>2. b \in bars /\ \A j \in bars : b <= j
  <2>1. bars \in SUBSET Nat /\ bars # {}
    BY DEF Bars, NoBar
  <2> HIDE DEF bars
  <2>2. \E i \in bars : \A j \in bars : i <= j
    BY <2>1, LeastOne
  <2> QED
    BY <2>2 DEF FirstBar, bars
<1>3. b \in 1 .. Len(r)
  BY <1>2 DEF Bars
<1>4. Out(r, b) /\ r[b] = "|" /\ Level(r, b) = 0
  BY <1>2, <1>3, BarStands
<1>5. \A j \in 1 .. Len(r) + 1 : Level(r, j) \in Nat
  BY NeverBelow
<1> HIDE DEF b
<1>6. b - 1 \in 1 - 1 .. Len(r) /\ (b - 1) + 1 = b /\ 1 \in 1 .. Len(r) + 1 /\ b + 1 \in 1 .. Len(r) + 1 /\ (b + 1) - 1 = b
  BY <1>1, <1>3
<1>7. Out(r, 1) /\ Level(r, 1) = 0
  BY <1>1, Places, Levels DEF Out, Place
<1>8. Whole(Upto(r, b))
  <2>1. 1 <= b - 1 => r[1] \notin Quantifiers
    <3>1. ASSUME 1 <= b - 1
          PROVE  r # <<>>
      BY <1>1, <1>3
    <3> QED
      BY <3>1, FirstRises
  <2>2. \A j \in 1 .. (b - 1) + 1 : Level(r, j) >= Level(r, 1)
    BY <1>1, <1>3, <1>5, <1>7
  <2> DEFINE y == b - 1
  <2>3. y \in 1 - 1 .. Len(r) /\ y + 1 = b
    BY <1>6
  <2>4. \A j \in 1 .. y + 1 : Level(r, j) >= Level(r, 1)
    BY <2>2
  <2>5. 1 <= y => r[1] \notin Quantifiers
    BY <2>1
  <2> HIDE DEF y
  <2>6. Whole(SubSeq(r, 1, y))
    BY <1>4, <1>6, <1>7, <2>3, <2>4, <2>5, PartIsWhole
  <2> QED
    BY <2>6 DEF Upto, y
<1>9. Out(r, b + 1) /\ Level(r, b + 1) = 0
  <2>1. b + 1 \in 2 .. Len(r) + 1
    BY <1>1, <1>3
  <2>2. Place(r, b + 1) = Standing(r, "PCRE2", b + 1, Place(r, (b + 1) - 1))
    BY <1>1, <2>1, Places DEF Place
  <2>3. Standing(r, "PCRE2", b + 1, "out") = "out"
    BY <1>4, <1>6 DEF Standing, ClassOpenings
  <2>4. Rise(r, b) = 0
    BY <1>4 DEF Rise, Openings
  <2>5. Level(r, b + 1) = Level(r, b) + Rise(r, b)
    BY <1>1, <1>3, Levels
  <2> QED
    BY <1>4, <1>6, <2>2, <2>3, <2>4, <2>5 DEF Out
<1>10. Whole(From(r, b + 1))
  <2> DEFINE x == b + 1
             y == Len(r)
  <2>1. x \in 1 .. Len(r) + 1 /\ y \in x - 1 .. Len(r)
    BY <1>1, <1>3
  <2>2. Out(r, y + 1) /\ Level(r, y + 1) = Level(r, x) /\ Out(r, x)
    BY <1>1, <1>9 DEF Balanced
  <2>3. \A j \in x .. y + 1 : Level(r, j) >= Level(r, x)
    BY <1>1, <1>3, <1>5, <1>9
  <2>4. x <= y => r[x] \notin Quantifiers
    <3>1. ASSUME x <= y, r[x] \in Quantifiers
          PROVE  FALSE
      <4>1. x \in 1 .. Len(r) /\ x - 1 = b
        BY <1>1, <1>3, <3>1
      <4>2. r[x - 1] \notin Unrepeatable
        BY <1>1, <2>2, <3>1, <4>1 DEF Balanced
      <4> QED
        BY <1>4, <4>1, <4>2 DEF Unrepeatable
    <3> QED
      BY <3>1
  <2> HIDE DEF x, y
  <2>5. Whole(SubSeq(r, x, y))
    BY <2>1, <2>2, <2>3, <2>4, PartIsWhole
  <2> QED
    BY <2>5 DEF From, x, y
<1>11. Len(Upto(r, b)) = b - 1 /\ Len(From(r, b + 1)) = Len(r) - b
  <2>1. Len(SubSeq(r, 1, b - 1)) = (b - 1) - 1 + 1
    <3> DEFINE y == b - 1
    <3>1. y \in 1 - 1 .. Len(r)
      BY <1>6
    <3> HIDE DEF y
    <3>2. Len(SubSeq(r, 1, y)) = y - 1 + 1
      BY <1>1, <1>6, <3>1, SubSeqs
    <3> QED
      BY <3>2 DEF y
  <2>2. Len(SubSeq(r, b + 1, Len(r))) = Len(r) - (b + 1) + 1
    <3> DEFINE x == b + 1
               y == Len(r)
    <3>1. x \in 1 .. Len(r) + 1 /\ y \in x - 1 .. Len(r)
      BY <1>1, <1>3
    <3> HIDE DEF x, y
    <3>2. Len(SubSeq(r, x, y)) = y - x + 1
      BY <1>1, <3>1, SubSeqs
    <3> QED
      BY <3>2 DEF x, y
  <2> QED
    BY <1>1, <1>3, <2>1, <2>2 DEF Upto, From
<1>12. NoBar(Upto(r, b))
  <2> DEFINE t == Upto(r, b)
             y == b - 1
  <2>1. y \in 1 - 1 .. Len(r)
    BY <1>6
  <2> HIDE DEF y
  <2>2. CutAt(r, 1, y) /\ \A j \in 1 .. y - 1 + 1 : SubSeq(r, 1, y)[j] = r[1 + j - 1]
    BY <1>1, <1>6, <1>7, <2>1, Cutting, SubSeqs
  <2>3. ASSUME NEW i \in 1 .. Len(t), i \in Bars(t, Reading(t, "PCRE2"))
        PROVE  FALSE
    <3>1. Out(t, i) /\ t[i] = "|" /\ Level(t, i) = 0
      BY <1>8, <2>3, BarStands
    <3>2. i \in 1 .. y - 1 + 2 /\ i \in 1 .. y - 1 + 1 /\ 1 + i - 1 = i /\ i \in 1 .. Len(r) /\ i < b /\ t = SubSeq(r, 1, y)
      BY <1>1, <1>3, <1>11 DEF y, Upto
    <3>3. /\ Place(SubSeq(r, 1, y), i) = Place(r, i) /\ SubSeq(r, 1, y)[i] = r[i]
          /\ Level(SubSeq(r, 1, y), i) = Level(r, i) - Level(r, 1)
      BY <2>2, <3>2 DEF CutAt
    <3>4. Level(r, i) \in Nat
      BY <1>1, <1>5, <3>2
    <3>5. Out(r, i) /\ r[i] = "|" /\ Level(r, i) = 0
      <4>1. Place(SubSeq(r, 1, y), i) = "out" /\ SubSeq(r, 1, y)[i] = "|" /\ Level(SubSeq(r, 1, y), i) = 0
        <5> HIDE DEF t
        <5> QED
          BY <3>1, <3>2 DEF Out
      <4>2. Level(r, i) - 0 = 0
        BY <1>7, <3>3, <4>1
      <4>3. Level(r, i) = 0
        BY <3>4, <4>2
      <4>4. Place(r, i) = "out" /\ r[i] = "|"
        BY <3>3, <4>1
      <4> QED
        BY <4>3, <4>4 DEF Out
    <3>6. i \in bars
      BY <3>2, <3>5, BarStands
    <3> QED
      BY <1>2, <1>3, <3>2, <3>6
  <2> QED
    BY <2>3 DEF NoBar, Bars
<1> QED
  BY <1>2, <1>3, <1>4, <1>8, <1>10, <1>11, <1>12 DEF b

\* Without alternatives it begins with an atom; what the group holds, and what
\* follows the atom and its quantifier, compiles by itself.
Parted(r) ==
  LET e == AtomEnd(r)
      k == IF Mark(r) = "once" THEN e + 1 ELSE e + 2
  IN
  /\ AtomIs(r, e)
  /\ Whole(Rest(r)) /\ Len(Rest(r)) = Len(r) - k + 1 /\ Len(Rest(r)) < Len(r) /\ NoBar(Rest(r))
  /\ Rest(r) # <<>> => Rest(r)[1] = r[k] /\ k <= Len(r)
  /\ Mark(r) # "once" => e < Len(r) /\ Mark(r) = r[e + 1] /\ Mark(r) \in Quantifiers
  /\ Mark(r) = "once" => e = Len(r) \/ r[e + 1] \notin Quantifiers
  /\ r[1] \in Openings => Whole(Inner(r)) /\ Len(Inner(r)) < Len(r) /\ e \in 2 .. Len(r)
                          /\ SubSeq(SubSeq(r, 1, e), 2, Len(SubSeq(r, 1, e)) - 1) = Inner(r)
  /\ SubSeq(r, 1, e) \in Seq(Token) /\ Len(SubSeq(r, 1, e)) = e /\ SubSeq(r, 1, e)[1] = r[1]
  /\ r[1] \in ClassOpenings => e \in 2 .. Len(r)

\* The depth after the atom and its quantifier.
LEMMA AfterTheAtom ==
  ASSUME NEW r, Whole(r), r # <<>>, NEW e, AtomIs(r, e), e < Len(r), r[e + 1] \in Quantifiers
  PROVE  /\ IsOver(r, e + 1)
         /\ e + 2 <= Len(r) => r[e + 2] \notin Quantifiers
<1>1. r \in Seq(Token) /\ Len(r) \in Nat /\ e \in 1 .. Len(r) /\ Balanced(r)
  BY WholeIsBalanced DEF Whole, AtomIs
<1> DEFINE k == e + 1
<1>2. k \in 1 .. Len(r) /\ k + 1 \in 2 .. Len(r) + 1 /\ (k + 1) - 1 = k /\ e + 2 = k + 1
  BY <1>1
<1>3. Out(r, k) /\ Level(r, k) = 0 /\ r[k] \in Quantifiers
  BY DEF AtomIs, IsOver
<1> HIDE DEF k
<1>4. Rise(r, k) = 0 /\ r[k] \notin ClassOpenings /\ r[k] # "\\Q"
  BY <1>3 DEF Rise, Quantifiers, Openings, ClassOpenings
<1>5. Level(r, k + 1) = 0
  BY <1>1, <1>2, <1>3, <1>4, Levels
<1>6. Out(r, k + 1)
  <2>1. Place(r, k + 1) = Standing(r, "PCRE2", k + 1, Place(r, k))
    BY <1>1, <1>2, Places DEF Place
  <2>2. Standing(r, "PCRE2", k + 1, "out") = "out"
    BY <1>2, <1>4 DEF Standing
  <2> QED
    BY <1>3, <2>1, <2>2 DEF Out
<1>7. ASSUME k + 1 <= Len(r), r[k + 1] \in Quantifiers
      PROVE  FALSE
  <2>1. k + 1 \in 1 .. Len(r)
    BY <1>2, <1>7
  <2>2. r[(k + 1) - 1] \notin Unrepeatable
    BY <1>1, <1>6, <1>7, <2>1 DEF Balanced
  <2> QED
    BY <1>2, <1>3, <2>2 DEF Unrepeatable
<1>8. IsOver(r, k)
  BY <1>5, <1>6 DEF IsOver
<1> QED
  BY <1>2, <1>7, <1>8 DEF k

\* What follows a place where what began is over.
LEMMA RestIsWhole ==
  ASSUME NEW r, Whole(r), NoBar(r), NEW e \in 1 .. Len(r), IsOver(r, e),
         e + 1 <= Len(r) => r[e + 1] \notin Quantifiers
  PROVE  /\ Whole(From(r, e + 1)) /\ NoBar(From(r, e + 1)) /\ Len(From(r, e + 1)) = Len(r) - e
         /\ \A j \in 1 .. Len(r) - e : From(r, e + 1)[j] = r[e + j]
<1> DEFINE x == e + 1
           y == Len(r)
           t == SubSeq(r, x, y)
<1>1. r \in Seq(Token) /\ y \in Nat /\ Balanced(r)
  BY WholeIsBalanced DEF Whole
<1>2. x \in 1 .. Len(r) + 1 /\ y \in x - 1 .. Len(r) /\ y - x + 1 = Len(r) - e
  BY <1>1
<1>3. \A j \in 1 .. Len(r) + 1 : Level(r, j) \in Nat
  BY NeverBelow
<1>4. Out(r, x) /\ Level(r, x) = 0 /\ Out(r, y + 1) /\ Level(r, y + 1) = 0
  BY <1>1 DEF Balanced, IsOver
<1>5. \A j \in x .. y + 1 : Level(r, j) >= Level(r, x)
  BY <1>1, <1>2, <1>3, <1>4
<1>6. x <= y => r[x] \notin Quantifiers
  OBVIOUS
<1>7. \A j \in 1 .. Len(r) - e : x + j - 1 = e + j
  OBVIOUS
<1> HIDE DEF x, y
<1>8. Whole(t)
  BY <1>2, <1>4, <1>5, <1>6, PartIsWhole
<1>9. CutAt(r, x, y) /\ Len(t) = y - x + 1 /\ \A j \in 1 .. y - x + 1 : t[j] = r[x + j - 1]
  BY <1>1, <1>2, <1>4, Cutting, SubSeqs
<1>10. ASSUME NEW i \in 1 .. Len(t), i \in Bars(t, Reading(t, "PCRE2"))
       PROVE  FALSE
  <2>1. Out(t, i) /\ t[i] = "|" /\ Level(t, i) = 0
    BY <1>8, <1>10, BarStands
  <2> DEFINE j == x + i - 1
  <2>2. i \in 1 .. y - x + 2 /\ i \in 1 .. y - x + 1 /\ j \in 1 .. Len(r) /\ j \in 1 .. Len(r) + 1
    BY <1>1, <1>2, <1>9 DEF y
  <2>3. Place(t, i) = Place(r, j) /\ Level(t, i) = Level(r, j) - Level(r, x) /\ t[i] = r[j]
    BY <1>9, <2>2 DEF CutAt
  <2> HIDE DEF j, t
  <2>4. Level(r, j) \in Nat /\ Level(r, j) - 0 = 0
    BY <1>3, <1>4, <2>1, <2>2, <2>3
  <2>5. Out(r, j) /\ r[j] = "|" /\ Level(r, j) = 0
    BY <2>1, <2>3, <2>4 DEF Out
  <2> QED
    BY <2>2, <2>5, BarStands DEF NoBar
<1>11. NoBar(t)
  BY <1>10 DEF NoBar, Bars
<1> HIDE DEF t
<1>12. t = From(r, e + 1)
  BY DEF t, From, x, y
<1> QED
  BY <1>2, <1>7, <1>8, <1>9, <1>11, <1>12

LEMMA Parting ==
  ASSUME NEW r, Whole(r), r # <<>>, NoBar(r)
  PROVE  Parted(r)
<1>1. r \in Seq(Token) /\ Len(r) \in Nat /\ Len(r) # 0 /\ Balanced(r)
  BY WholeIsBalanced, EmptySeq DEF Whole
<1>2. r[1] # "|"
  <2>1. 1 \in 1 .. Len(r) /\ Out(r, 1) /\ Level(r, 1) = 0
    BY <1>1, FirstRises
  <2> QED
    BY <2>1, BarStands DEF NoBar
<1>3. PICK e \in 1 .. Len(r) : AtomIs(r, e)
  BY AtomFound
<1>4. AtomEnd(r) = e
  BY <1>2, <1>3, AtomEnds
<1>5. IsOver(r, e)
  BY <1>3 DEF AtomIs
<1> DEFINE k == IF Mark(r) = "once" THEN e + 1 ELSE e + 2
           Follows ==
             /\ Whole(Rest(r)) /\ Len(Rest(r)) = Len(r) - k + 1 /\ Len(Rest(r)) < Len(r) /\ NoBar(Rest(r))
             /\ Rest(r) # <<>> => Rest(r)[1] = r[k] /\ k <= Len(r)
             /\ Mark(r) # "once" => e < Len(r) /\ Mark(r) = r[e + 1] /\ Mark(r) \in Quantifiers
             /\ Mark(r) = "once" => e = Len(r) \/ r[e + 1] \notin Quantifiers
\* What follows.
<1>6. ASSUME Mark(r) = "once"
      PROVE  Follows
  <2>1. e = Len(r) \/ r[e + 1] \notin Quantifiers
    <3>1. "once" \notin Quantifiers
      BY DEF Quantifiers
    <3>2. e = Len(r) \/ e + 1 <= Len(r)
      BY <1>1
    <3> QED
      BY <1>4, <1>6, <3>1, <3>2 DEF Mark, MarkAt
  <2>2. e + 1 <= Len(r) => r[e + 1] \notin Quantifiers
    BY <1>1, <2>1
  <2>3. /\ Whole(From(r, e + 1)) /\ NoBar(From(r, e + 1)) /\ Len(From(r, e + 1)) = Len(r) - e
        /\ \A j \in 1 .. Len(r) - e : From(r, e + 1)[j] = r[e + j]
    BY <1>5, <2>2, RestIsWhole
  <2>4. Rest(r) = From(r, e + 1) /\ k = e + 1
    BY <1>4, <1>6 DEF Rest
  <2>5. Rest(r) # <<>> => Rest(r)[1] = r[k] /\ k <= Len(r)
    <3>1. ASSUME Rest(r) # <<>>
          PROVE  Rest(r)[1] = r[k] /\ k <= Len(r)
      <4>1. Len(r) - e \in Nat /\ Len(r) - e # 0
        <5>1. Rest(r) \in Seq(Token)
          BY <2>3, <2>4 DEF Whole
        <5>2. Len(Rest(r)) # 0 /\ Len(Rest(r)) \in Nat
          BY <3>1, <5>1, EmptySeq
        <5> QED
          BY <2>3, <2>4, <5>2
      <4>2. 1 \in 1 .. Len(r) - e /\ e + 1 <= Len(r)
        BY <1>1, <4>1
      <4> QED
        BY <2>3, <2>4, <4>2
    <3> QED
      BY <3>1
  <2> HIDE DEF k
  <2> QED
    BY <1>1, <1>6, <2>1, <2>3, <2>4, <2>5
<1>7. ASSUME Mark(r) # "once"
      PROVE  Follows
  <2>1. e + 1 <= Len(r) /\ r[e + 1] \in Quantifiers /\ Mark(r) = r[e + 1]
    BY <1>4, <1>7 DEF Mark, MarkAt
  <2>2. IsOver(r, e + 1) /\ (e + 2 <= Len(r) => r[e + 2] \notin Quantifiers)
    <3>1. e < Len(r)
      BY <1>1, <2>1
    <3> QED
      BY <1>3, <2>1, <3>1, AfterTheAtom
  <2> DEFINE m == e + 1
  <2>3. m \in 1 .. Len(r) /\ m + 1 = e + 2 /\ IsOver(r, m) /\ (m + 1 <= Len(r) => r[m + 1] \notin Quantifiers)
    BY <1>1, <2>1, <2>2
  <2>4. k = m + 1 /\ e < Len(r)
    BY <1>1, <1>7, <2>1
  <2> HIDE DEF m
  <2>5. /\ Whole(From(r, m + 1)) /\ NoBar(From(r, m + 1)) /\ Len(From(r, m + 1)) = Len(r) - m
        /\ \A j \in 1 .. Len(r) - m : From(r, m + 1)[j] = r[m + j]
    BY <2>3, RestIsWhole
  <2>6. Rest(r) = From(r, m + 1)
    BY <1>4, <1>7, <2>3 DEF Rest
  <2>7. Rest(r) # <<>> => Rest(r)[1] = r[k] /\ k <= Len(r)
    <3>1. ASSUME Rest(r) # <<>>
          PROVE  Rest(r)[1] = r[k] /\ k <= Len(r)
      <4>1. Len(r) - m \in Nat /\ Len(r) - m # 0
        <5>1. Rest(r) \in Seq(Token)
          BY <2>5, <2>6 DEF Whole
        <5>2. Len(Rest(r)) # 0 /\ Len(Rest(r)) \in Nat
          BY <3>1, <5>1, EmptySeq
        <5> QED
          BY <2>5, <2>6, <5>2
      <4>2. 1 \in 1 .. Len(r) - m /\ m + 1 <= Len(r)
        BY <1>1, <2>3, <4>1
      <4> QED
        BY <2>4, <2>5, <2>6, <4>2
    <3> QED
      BY <3>1
  <2> HIDE DEF k
  <2> QED
    BY <1>1, <1>7, <2>1, <2>3, <2>4, <2>5, <2>6, <2>7
\* The atom.
<1> DEFINE atom == SubSeq(r, 1, e)
<1>8. atom \in Seq(Token) /\ Len(atom) = e /\ \A j \in 1 .. e : atom[j] = r[j]
  <2>1. 1 \in 1 .. Len(r) + 1 /\ e \in 1 - 1 .. Len(r) /\ e - 1 + 1 = e /\ \A j \in 1 .. e : 1 + j - 1 = j
    BY <1>1
  <2> QED
    BY <1>1, <2>1, SubSeqs
<1>9. atom[1] = r[1]
  <2>1. 1 \in 1 .. e
    BY <1>1
  <2> QED
    BY <1>8, <2>1
<1> HIDE DEF atom
<1>10. r[1] \in ClassOpenings => e \in 2 .. Len(r)
  BY <1>3, ClassGoesOn
<1>11. ASSUME r[1] \in Openings
       PROVE  /\ Whole(Inner(r)) /\ Len(Inner(r)) < Len(r) /\ e \in 2 .. Len(r)
              /\ SubSeq(atom, 2, Len(atom) - 1) = Inner(r)
  <2>1. /\ e \in 2 .. Len(r) /\ \A j \in 2 .. e : Level(r, j) > 0
        /\ Out(r, e) /\ r[e] = ")" /\ Level(r, e) = 1
    BY <1>3, <1>11, GroupGoesOn
  <2>2. Out(r, 2) /\ Level(r, 2) = 1
    BY <1>11, FirstRises
  <2> DEFINE x == 2
             y == e - 1
  <2>3. x \in 1 .. Len(r) + 1 /\ y \in x - 1 .. Len(r) /\ y + 1 = e /\ y - x + 1 = e - 2
    BY <1>1, <2>1
  <2>4. \A j \in x .. y + 1 : Level(r, j) >= Level(r, x)
    <3>1. \A j \in 1 .. Len(r) + 1 : Level(r, j) \in Nat
      BY NeverBelow
    <3>2. \A j \in x .. y + 1 : j \in 2 .. e /\ j \in 1 .. Len(r) + 1
      BY <1>1, <2>1
    <3> QED
      BY <2>1, <2>2, <3>1, <3>2
  <2>5. x <= y => r[x] \notin Quantifiers
    <3>1. ASSUME r[x] \in Quantifiers, x <= y
          PROVE  FALSE
      <4>1. x \in 1 .. Len(r) /\ x - 1 = 1
        BY <1>1, <2>1
      <4>2. r[x - 1] \notin Unrepeatable
        BY <1>1, <2>2, <3>1, <4>1 DEF Balanced
      <4> QED
        BY <1>11, <4>1, <4>2 DEF Unrepeatable
    <3> QED
      BY <3>1
  <2>6. Out(r, x) /\ Out(r, y + 1) /\ Level(r, y + 1) = Level(r, x)
    BY <2>1, <2>2, <2>3
  <2> HIDE DEF x, y
  <2>7. Whole(SubSeq(r, x, y))
    BY <2>3, <2>4, <2>5, <2>6, PartIsWhole
  <2>8. /\ SubSeq(r, x, y) \in Seq(Token) /\ Len(SubSeq(r, x, y)) = y - x + 1
        /\ \A j \in 1 .. y - x + 1 : SubSeq(r, x, y)[j] = r[x + j - 1]
    BY <1>1, <2>3, SubSeqs
  <2>9. /\ SubSeq(atom, x, y) \in Seq(Token) /\ Len(SubSeq(atom, x, y)) = y - x + 1
        /\ \A j \in 1 .. y - x + 1 : SubSeq(atom, x, y)[j] = atom[x + j - 1]
    <3>1. x \in 1 .. Len(atom) + 1 /\ y \in x - 1 .. Len(atom)
      BY <1>1, <1>8, <2>1, <2>3 DEF x, y
    <3> QED
      BY <1>8, <3>1, SubSeqs
  <2>10. SubSeq(atom, x, y) = SubSeq(r, x, y)
    <3>1. \A j \in 1 .. y - x + 1 : x + j - 1 \in 1 .. e
      BY <1>1, <2>1 DEF x, y
    <3>2. \A j \in 1 .. y - x + 1 : SubSeq(atom, x, y)[j] = SubSeq(r, x, y)[j]
      BY <1>8, <2>8, <2>9, <3>1
    <3> QED
      BY <2>8, <2>9, <3>2, SeqEqual
  <2>11. Inner(r) = SubSeq(r, x, y) /\ Len(atom) - 1 = y
    BY <1>4, <1>8 DEF Inner, x, y
  <2>12. Len(Inner(r)) < Len(r)
    BY <1>1, <2>1, <2>3, <2>8, <2>11
  <2> QED
    BY <2>1, <2>7, <2>10, <2>11, <2>12 DEF x
<1>12. Follows
  BY <1>6, <1>7
<1> HIDE DEF k
<1> QED
  BY <1>3, <1>4, <1>8, <1>9, <1>10, <1>11, <1>12 DEF Parted, k, atom

-----------------------------------------------------------------------------
(* A repetition is the least that holds and goes on *)

\* Where a match may stand in s.
Positions(s) == 1 .. Len(s) + 1
StaysIn(shorter, atom, s) ==
  \A J \in SUBSET Positions(s) : Once(shorter, atom, s, J) \in SUBSET Positions(s)

LEMMA RoundsUnroll ==
  ASSUME NEW shorter, NEW atom, NEW s, Len(s) \in Nat, StaysIn(shorter, atom, s),
         NEW I \in SUBSET Positions(s)
  PROVE  /\ Rounds(shorter, atom, s, I)[0] = I
         /\ \A k \in 1 .. Len(s) + 1 :
              Rounds(shorter, atom, s, I)[k]
                = Rounds(shorter, atom, s, I)[k - 1] \cup Once(shorter, atom, s, Rounds(shorter, atom, s, I)[k - 1])
         /\ \A k \in 0 .. Len(s) + 1 : Rounds(shorter, atom, s, I)[k] \in SUBSET Positions(s)
<1> DEFINE N == Len(s) + 1
           V == SUBSET Positions(s)
           Round(J) == J \cup Once(shorter, atom, s, J)
           Next2(f) == [k \in 0 .. N |-> IF k = 0 THEN I ELSE Round(f[k - 1])]
<1>1. N \in Nat /\ I \in V /\ \A J \in V : Round(J) \in V
  BY DEF StaysIn
<1>2. PICK f \in [0 .. N -> V] : f = Next2(f)
  <2> DEFINE step == [i \in 1 .. N |-> [J \in V |-> Round(J)]]
  <2> HIDE DEF N, V, Round
  <2>1. step \in [1 .. N -> [V -> V]]
    BY <1>1
  <2>2. PICK f \in [0 .. N -> V] : Unrolls(f, N, I, step)
    <3> HIDE DEF step
    <3> QED
      BY <1>1, <2>1, Recursion
  <2>3. ASSUME NEW k \in 0 .. N
        PROVE  f[k] = IF k = 0 THEN I ELSE Round(f[k - 1])
    <3>1. CASE k = 0
      BY <2>2, <3>1 DEF Unrolls
    <3>2. CASE k # 0
      <4>1. k \in 1 .. N /\ k - 1 \in 0 .. N
        BY <1>1, <3>2
      <4>2. f[k] = step[k][f[k - 1]] /\ f[k - 1] \in V
        <5> HIDE DEF step
        <5> QED
          BY <2>2, <4>1 DEF Unrolls
      <4> QED
        BY <3>2, <4>1, <4>2
    <3> QED
      BY <3>1, <3>2
  <2>4. f = Next2(f)
    BY <2>3
  <2> HIDE DEF Next2
  <2> QED
    BY <2>4
<1> DEFINE after == Rounds(shorter, atom, s, I)
<1>3. after = Next2(after)
  <2>1. \E g : g = Next2(g)
    <3> HIDE DEF Next2
    <3> QED
      BY <1>2
  <2> QED
    BY <2>1 DEF Rounds
<1> HIDE DEF after, V
<1>4. after[0] = I /\ \A k \in 1 .. N : after[k] = Round(after[k - 1])
  <2> HIDE DEF Round
  <2>1. 0 \in 0 .. N /\ \A k \in 1 .. N : k \in 0 .. N /\ k # 0
    BY <1>1
  <2> HIDE DEF N
  <2> QED
    BY <1>3, <2>1
<1> DEFINE T == {k \in 0 .. N : after[k] \in V}
<1>5. 0 \in T /\ \A k \in 0 .. N - 1 : k \in T => k + 1 \in T
  <2>1. 0 \in T
    BY <1>1, <1>4
  <2>2. ASSUME NEW k \in 0 .. N - 1, k \in T
        PROVE  k + 1 \in T
    <3>1. k + 1 \in 1 .. N /\ (k + 1) - 1 = k /\ k + 1 \in 0 .. N
      BY <1>1
    <3> HIDE DEF Round
    <3>2. after[k + 1] = Round(after[k])
      BY <1>4, <3>1
    <3> QED
      BY <1>1, <2>2, <3>1, <3>2
  <2> QED
    BY <2>1, <2>2
<1> HIDE DEF T
<1>6. 0 .. N \subseteq T
  <2> HIDE DEF N
  <2> QED
    BY <1>1, <1>5, UpTo
<1>7. \A k \in 0 .. N : after[k] \in V
  BY <1>6 DEF T
<1> QED
  BY <1>4, <1>7 DEF after, V

LEMMA RepeatIsLeast ==
  ASSUME NEW shorter, NEW atom, NEW s, Len(s) \in Nat, StaysIn(shorter, atom, s),
         NEW I \in SUBSET Positions(s)
  PROVE  /\ Repeat(shorter, atom, s, I) \in SUBSET Positions(s)
         /\ I \subseteq Repeat(shorter, atom, s, I)
         /\ Once(shorter, atom, s, Repeat(shorter, atom, s, I)) \subseteq Repeat(shorter, atom, s, I)
         /\ \A X : /\ I \subseteq X
                   /\ \A J \in SUBSET Positions(s) : J \subseteq X => Once(shorter, atom, s, J) \subseteq X
                   => Repeat(shorter, atom, s, I) \subseteq X
<1> DEFINE N == Len(s) + 1
           P == Positions(s)
           after == Rounds(shorter, atom, s, I)
           Taken(J) == Once(shorter, atom, s, J)
           Steady(k) == Taken(after[k]) \subseteq after[k]
<1>1. N \in Nat /\ IsFiniteSet(P) /\ Cardinality(P) = N
  <2>1. IsFiniteSet(1 .. N) /\ Cardinality(1 .. N) = IF 1 > N THEN 0 ELSE N - 1 + 1
    BY FS_Interval
  <2> QED
    BY <2>1 DEF Positions
<1>2. /\ after[0] = I
      /\ \A k \in 1 .. N : after[k] = after[k - 1] \cup Taken(after[k - 1])
      /\ \A k \in 0 .. N : after[k] \in SUBSET P
  BY RoundsUnroll
<1>3. \A J \in SUBSET P : Taken(J) \in SUBSET P
  BY DEF StaysIn
<1>4. Repeat(shorter, atom, s, I) = after[N]
  BY DEF Repeat
<1> HIDE DEF N, P, after, Taken
<1>5. \A k \in 0 .. N - 1 : k + 1 \in 1 .. N /\ (k + 1) - 1 = k /\ k \in 0 .. N /\ k + 1 \in 0 .. N
  BY <1>1
<1>6. N \in 0 .. N
  BY <1>1
\* It only grows.
<1>7. I \subseteq after[N]
  <2> DEFINE T == {k \in 0 .. N : I \subseteq after[k]}
  <2>1. 0 \in T /\ \A k \in 0 .. N - 1 : k \in T => k + 1 \in T
    BY <1>1, <1>2, <1>5
  <2> HIDE DEF T
  <2>2. 0 .. N \subseteq T
    BY <1>1, <2>1, UpTo
  <2> QED
    BY <1>6, <2>2 DEF T
\* A round that adds nothing comes before the positions run out.
<1>8. Steady(N)
  <2> DEFINE T == {k \in 0 .. N : Steady(k) \/ Cardinality(after[k]) >= k}
  <2>1. \A k \in 0 .. N : IsFiniteSet(after[k]) /\ Cardinality(after[k]) \in Nat
    BY <1>1, <1>2, FS_Subset, FS_CardinalityType
  <2>2. 0 \in T
    BY <1>1, <2>1
  <2>3. ASSUME NEW k \in 0 .. N - 1, k \in T
        PROVE  k + 1 \in T
    <3>1. after[k + 1] = after[k] \cup Taken(after[k])
      BY <1>2, <1>5
    <3>2. CASE Steady(k)
      <4>1. after[k + 1] = after[k]
        BY <3>1, <3>2
      <4> QED
        BY <1>5, <3>2, <4>1
    <3>3. CASE ~ Steady(k)
      <4>1. Cardinality(after[k]) >= k
        BY <2>3, <3>3
      <4>2. after[k] \subseteq after[k + 1] /\ after[k] # after[k + 1]
        BY <3>1, <3>3
      <4>3. IsFiniteSet(after[k + 1])
        BY <1>5, <2>1
      <4>4. Cardinality(after[k]) <= Cardinality(after[k + 1]) /\ Cardinality(after[k]) # Cardinality(after[k + 1])
        <5> DEFINE A == after[k]
                   B == after[k + 1]
        <5> HIDE DEF A, B
        <5>1. A \in SUBSET B /\ A # B /\ IsFiniteSet(B)
          BY <4>2, <4>3 DEF A, B
        <5>2. Cardinality(A) <= Cardinality(B) /\ (Cardinality(B) = Cardinality(A) => B = A)
          BY <5>1, FS_Subset
        <5> QED
          BY <5>1, <5>2 DEF A, B
      <4>5. Cardinality(after[k]) \in Nat /\ Cardinality(after[k + 1]) \in Nat
        BY <1>5, <2>1
      <4>6. Cardinality(after[k + 1]) >= k + 1
        BY <4>1, <4>4, <4>5
      <4> QED
        BY <1>5, <4>6
    <3> QED
      BY <3>2, <3>3
  <2> HIDE DEF T
  <2>4. 0 .. N \subseteq T
    BY <1>1, <2>2, <2>3, UpTo
  <2>5. Steady(N) \/ Cardinality(after[N]) >= N
    BY <1>6, <2>4 DEF T
  <2>6. ASSUME Cardinality(after[N]) >= N
        PROVE  Steady(N)
    <3>1. after[N] \in SUBSET P /\ Cardinality(after[N]) \in Nat
      BY <1>2, <1>6, <2>1
    <3>2. Cardinality(after[N]) <= Cardinality(P) /\ (Cardinality(P) = Cardinality(after[N]) => P = after[N])
      <4> DEFINE A == after[N]
      <4>1. A \in SUBSET P
        BY <3>1
      <4> HIDE DEF A
      <4>2. Cardinality(A) <= Cardinality(P) /\ (Cardinality(P) = Cardinality(A) => P = A)
        BY <1>1, <4>1, FS_Subset
      <4> QED
        BY <4>2 DEF A
    <3>3. Cardinality(after[N]) = N
      BY <1>1, <2>6, <3>1, <3>2
    <3>4. after[N] = P
      BY <1>1, <3>2, <3>3
    <3> QED
      BY <1>3, <3>1, <3>4
  <2> QED
    BY <2>5, <2>6
\* Every round stays inside what is closed.
<1>9. ASSUME NEW X, I \subseteq X, \A J \in SUBSET P : J \subseteq X => Taken(J) \subseteq X
      PROVE  after[N] \subseteq X
  <2> DEFINE T == {k \in 0 .. N : after[k] \subseteq X}
  <2>1. 0 \in T
    BY <1>1, <1>2, <1>9
  <2>2. ASSUME NEW k \in 0 .. N - 1, k \in T
        PROVE  k + 1 \in T
    <3>1. after[k + 1] = after[k] \cup Taken(after[k]) /\ after[k] \in SUBSET P /\ k + 1 \in 0 .. N
      BY <1>2, <1>5
    <3>2. Taken(after[k]) \subseteq X
      BY <1>9, <2>2, <3>1
    <3> QED
      BY <2>2, <3>1, <3>2
  <2> HIDE DEF T
  <2>3. 0 .. N \subseteq T
    BY <1>1, <2>1, <2>2, UpTo
  <2> QED
    BY <1>6, <2>3 DEF T
<1> QED
  BY <1>2, <1>4, <1>6, <1>7, <1>8, <1>9 DEF P, Taken

-----------------------------------------------------------------------------
(* The match of an expression, by its parts *)

\* What holds of the parts, and so of the expression, holds of all that compile.
LEMMA ByParts ==
  ASSUME NEW T, <<>> \in T,
         \A r \in Seq(Token) :
           Whole(r) /\ ~ NoBar(r) /\ Upto(r, FirstBar(r)) \in T /\ From(r, FirstBar(r) + 1) \in T => r \in T,
         \A r \in Seq(Token) :
           Whole(r) /\ NoBar(r) /\ r # <<>> /\ Rest(r) \in T /\ (r[1] \in Openings => Inner(r) \in T) => r \in T
  PROVE  \A r \in Seq(Token) : Whole(r) => r \in T
<1> DEFINE S == {k \in Nat : \A r \in Seq(Token) : Whole(r) /\ Len(r) <= k => r \in T}
<1>1. 0 \in S
  <2>1. ASSUME NEW r \in Seq(Token), Len(r) <= 0
        PROVE  r \in T
    <3>1. Len(r) = 0
      BY <2>1
    <3>2. r = <<>>
      BY <3>1, EmptySeq
    <3> QED
      BY <3>2
  <2> QED
    BY <2>1
<1>2. ASSUME NEW k \in Nat, k \in S
      PROVE  k + 1 \in S
  <2>1. ASSUME NEW r \in Seq(Token), Whole(r), Len(r) <= k + 1
        PROVE  r \in T
    <3>1. Len(r) \in Nat
      OBVIOUS
    <3>2. \A q \in Seq(Token) : Whole(q) /\ Len(q) < Len(r) => q \in T
      <4>1. \A q \in Seq(Token) : Len(q) < Len(r) => Len(q) <= k
        BY <2>1, <3>1
      <4> QED
        BY <1>2, <4>1
    <3>3. CASE r = <<>>
      BY <3>3
    <3>4. CASE ~ NoBar(r)
      <4> DEFINE b == FirstBar(r)
      <4>1. /\ b \in 1 .. Len(r)
            /\ Whole(Upto(r, b)) /\ Len(Upto(r, b)) = b - 1
            /\ Whole(From(r, b + 1)) /\ Len(From(r, b + 1)) = Len(r) - b
        BY <2>1, <3>4, AlternativesAreWhole
      <4> HIDE DEF b
      <4>2. Len(Upto(r, b)) < Len(r) /\ Len(From(r, b + 1)) < Len(r)
        BY <3>1, <4>1
      <4>3. Upto(r, b) \in T /\ From(r, b + 1) \in T
        BY <3>2, <4>1, <4>2 DEF Whole
      <4> QED
        BY <2>1, <3>4, <4>3 DEF b
    <3>5. CASE r # <<>> /\ NoBar(r)
      <4>1. Parted(r)
        BY <2>1, <3>5, Parting
      <4>2. Rest(r) \in T
        <5>1. Whole(Rest(r)) /\ Len(Rest(r)) < Len(r)
          BY <4>1 DEF Parted
        <5> QED
          BY <3>2, <5>1 DEF Whole
      <4>3. r[1] \in Openings => Inner(r) \in T
        <5>1. r[1] \in Openings => Whole(Inner(r)) /\ Len(Inner(r)) < Len(r)
          BY <4>1 DEF Parted
        <5> QED
          BY <3>2, <5>1 DEF Whole
      <4> QED
        BY <2>1, <3>5, <4>2, <4>3
    <3> QED
      BY <3>3, <3>4, <3>5
  <2> QED
    BY <2>1
<1> HIDE DEF S
<1>3. ASSUME NEW r \in Seq(Token), Whole(r)
      PROVE  r \in T
  <2> DEFINE N == Len(r)
  <2>1. N \in Nat
    OBVIOUS
  <2> HIDE DEF N
  <2>2. 0 .. N \subseteq S
    <3>1. \A k \in 0 .. N - 1 : k \in S => k + 1 \in S
      BY <1>2
    <3> QED
      BY <1>1, <2>1, <3>1, UpTo
  <2>3. N \in S
    BY <2>1, <2>2
  <2> QED
    BY <1>3, <2>3 DEF S, N
<1> QED
  BY <1>3

\* The matches of all expressions at once, and of the parts of one.
Full(s) == [r \in Seq(Token) |-> [I \in SUBSET Nat |-> Ends(r, s, I)]]
Atom(r) == SubSeq(r, 1, AtomEnd(r))
OnceOf(r, s, I) == Once(Full(s), Atom(r), s, I)
Marked(r, s, I) == AsMarked(Full(s), Atom(r), Mark(r), s, I)

\* Two matchers that agree on what a group holds.
Agree(A, B, r, s) ==
  r[1] \in Openings =>
    \A J \in SUBSET Positions(s) : A[Inner(r)][J] = B[Inner(r)][J] /\ B[Inner(r)][J] \in SUBSET Positions(s)
OnceAgree(A, B, r, s) ==
  \A J \in SUBSET Positions(s) :
    Once(A, Atom(r), s, J) = Once(B, Atom(r), s, J) /\ Once(B, Atom(r), s, J) \in SUBSET Positions(s)

LEMMA AgreeOnAtoms ==
  ASSUME NEW s, Len(s) \in Nat, NEW r, Whole(r), r # <<>>, NoBar(r), NEW A, NEW B, Agree(A, B, r, s)
  PROVE  OnceAgree(A, B, r, s)
<1> DEFINE atom == Atom(r)
<1>1. /\ atom[1] = r[1]
      /\ r[1] \in Openings => SubSeq(atom, 2, Len(atom) - 1) = Inner(r)
  BY Parting DEF Parted, Atom
<1> HIDE DEF atom
<1>2. SUFFICES ASSUME NEW J \in SUBSET Positions(s)
               PROVE  Once(A, atom, s, J) = Once(B, atom, s, J) /\ Once(B, atom, s, J) \in SUBSET Positions(s)
  BY DEF OnceAgree, atom
<1>3. CASE r[1] \in Openings
  <2>1. \A M : Once(M, atom, s, J) = M[Inner(r)][J]
    BY <1>1, <1>3 DEF Once, Openings, ClassOpenings
  <2> QED
    BY <1>3, <2>1 DEF Agree
<1>4. CASE r[1] \notin Openings
  <2> DEFINE members == {Chars(atom[k]) : k \in 2 .. Len(atom) - 1}
             Step(C) == {i + 1 : i \in {j \in J : j <= Len(s) /\ j \in C}}
  <2>0. \A C : Step(C) \in SUBSET Positions(s)
    BY DEF Positions
  <2>1. CASE r[1] \in ClassOpenings
    <3>1. \A M : Once(M, atom, s, J) = {i + 1 : i \in {j \in J : j <= Len(s) /\ (s[j] \in members) = (atom[1] = "[")}}
      BY <1>1, <2>1 DEF Once, Openings, ClassOpenings
    <3> DEFINE C == {j \in J : (s[j] \in members) = (atom[1] = "[")}
    <3>2. \A M : Once(M, atom, s, J) = Step(C)
      <4> HIDE DEF members
      <4> QED
        BY <3>1
    <3> HIDE DEF Step, C
    <3> QED
      BY <2>0, <3>2
  <2>2. CASE r[1] = "^"
    <3>1. \A M : Once(M, atom, s, J) = J \cap {1}
      BY <1>1, <2>2 DEF Once, Openings, ClassOpenings
    <3> QED
      BY <3>1
  <2>3. CASE r[1] = "$"
    <3>1. \A M : Once(M, atom, s, J) = J \cap {Len(s) + 1}
      BY <1>1, <2>3 DEF Once, Openings, ClassOpenings
    <3> QED
      BY <3>1
  <2>4. CASE r[1] = "."
    <3>1. \A M : Once(M, atom, s, J) = {i + 1 : i \in {j \in J : j <= Len(s)}}
      BY <1>1, <2>4 DEF Once, Openings, ClassOpenings
    <3>2. \A M : Once(M, atom, s, J) = Step(J)
      BY <3>1
    <3> HIDE DEF Step
    <3> QED
      BY <2>0, <3>2
  <2>5. CASE r[1] = "\\d"
    <3>1. \A M : Once(M, atom, s, J) = {i + 1 : i \in {j \in J : j <= Len(s) /\ s[j] \in Digits}}
      BY <1>1, <2>5 DEF Once, Openings, ClassOpenings
    <3> DEFINE C == {j \in J : s[j] \in Digits}
    <3>2. \A M : Once(M, atom, s, J) = Step(C)
      BY <3>1
    <3> HIDE DEF Step, C
    <3> QED
      BY <2>0, <3>2
  <2>6. CASE r[1] \notin ClassOpenings \cup {"^", "$", ".", "\\d"}
    <3>1. \A M : Once(M, atom, s, J) = {i + 1 : i \in {j \in J : j <= Len(s) /\ s[j] = Chars(atom[1])}}
      BY <1>1, <1>4, <2>6 DEF Once
    <3> DEFINE C == {j \in J : s[j] = Chars(atom[1])}
    <3>2. \A M : Once(M, atom, s, J) = Step(C)
      BY <3>1
    <3> HIDE DEF Step, C
    <3> QED
      BY <2>0, <3>2
  <2> QED
    BY <2>1, <2>2, <2>3, <2>4, <2>5, <2>6
<1> QED
  BY <1>3, <1>4

\* Then they agree on as many of them as the quantifier says.
LEMMA AgreeOnRepeats ==
  ASSUME NEW s, Len(s) \in Nat, NEW r, NEW A, NEW B, OnceAgree(A, B, r, s), NEW I \in SUBSET Positions(s)
  PROVE  /\ Repeat(A, Atom(r), s, I) = Repeat(B, Atom(r), s, I)
         /\ Repeat(B, Atom(r), s, I) \in SUBSET Positions(s)
<1> DEFINE N == Len(s) + 1
           f == Rounds(A, Atom(r), s, I)
           g == Rounds(B, Atom(r), s, I)
           T == {k \in 0 .. N : f[k] = g[k]}
<1>1. StaysIn(A, Atom(r), s) /\ StaysIn(B, Atom(r), s)
  BY DEF StaysIn, OnceAgree
<1>2. /\ f[0] = I /\ \A k \in 1 .. N : f[k] = f[k - 1] \cup Once(A, Atom(r), s, f[k - 1])
      /\ g[0] = I /\ \A k \in 1 .. N : g[k] = g[k - 1] \cup Once(B, Atom(r), s, g[k - 1])
      /\ \A k \in 0 .. N : g[k] \in SUBSET Positions(s)
  BY <1>1, RoundsUnroll
<1>3. N \in Nat
  OBVIOUS
<1> HIDE DEF N, f, g
<1>4. 0 \in T
  BY <1>2, <1>3
<1>5. ASSUME NEW k \in 0 .. N - 1, k \in T
      PROVE  k + 1 \in T
  <2>1. k + 1 \in 1 .. N /\ (k + 1) - 1 = k /\ k \in 0 .. N /\ k + 1 \in 0 .. N
    BY <1>3
  <2>2. f[k] = g[k] /\ g[k] \in SUBSET Positions(s)
    BY <1>2, <1>5, <2>1
  <2>3. Once(A, Atom(r), s, f[k]) = Once(B, Atom(r), s, g[k])
    BY <2>2 DEF OnceAgree
  <2>4. f[k + 1] = f[k] \cup Once(A, Atom(r), s, f[k]) /\ g[k + 1] = g[k] \cup Once(B, Atom(r), s, g[k])
    BY <1>2, <2>1
  <2> QED
    BY <2>1, <2>2, <2>3, <2>4
<1> HIDE DEF T
<1>6. 0 .. N \subseteq T
  BY <1>3, <1>4, <1>5, UpTo
<1>7. N \in 0 .. N
  BY <1>3
<1>8. f[N] = g[N] /\ g[N] \in SUBSET Positions(s)
  BY <1>2, <1>6, <1>7 DEF T
<1> QED
  BY <1>8 DEF Repeat, f, g, N

LEMMA AgreeAsMarked ==
  ASSUME NEW s, Len(s) \in Nat, NEW r, NEW A, NEW B, OnceAgree(A, B, r, s), NEW I \in SUBSET Positions(s), NEW mark
  PROVE  /\ AsMarked(A, Atom(r), mark, s, I) = AsMarked(B, Atom(r), mark, s, I)
         /\ AsMarked(B, Atom(r), mark, s, I) \in SUBSET Positions(s)
<1> DEFINE J == Once(B, Atom(r), s, I)
<1>1. Once(A, Atom(r), s, I) = J /\ J \in SUBSET Positions(s)
  BY DEF OnceAgree
<1> HIDE DEF J
<1>2. /\ Repeat(A, Atom(r), s, I) = Repeat(B, Atom(r), s, I) /\ Repeat(B, Atom(r), s, I) \in SUBSET Positions(s)
      /\ Repeat(A, Atom(r), s, J) = Repeat(B, Atom(r), s, J) /\ Repeat(B, Atom(r), s, J) \in SUBSET Positions(s)
  BY <1>1, AgreeOnRepeats
<1>3. CASE mark = "once"
  BY <1>1, <1>3 DEF AsMarked, J
<1>4. CASE mark = "?"
  BY <1>1, <1>4 DEF AsMarked, J
<1>5. CASE mark = "*"
  BY <1>2, <1>5 DEF AsMarked
<1>6. CASE mark \notin {"once", "?", "*"}
  <2>1. \A M : AsMarked(M, Atom(r), mark, s, I) = Repeat(M, Atom(r), s, Once(M, Atom(r), s, I))
    BY <1>6 DEF AsMarked
  <2> QED
    BY <1>1, <1>2, <2>1 DEF J
<1> QED
  BY <1>3, <1>4, <1>5, <1>6

\* One step of a match, by the parts.
LEMMA MatchesParts ==
  ASSUME NEW shorter, NEW r, NEW s, NEW I, Whole(r)
  PROVE  /\ ~ NoBar(r) =>
              Match(shorter, r, s, I)
                = shorter[Upto(r, FirstBar(r))][I] \cup shorter[From(r, FirstBar(r) + 1)][I]
         /\ NoBar(r) /\ r # <<>> =>
              Match(shorter, r, s, I) = shorter[Rest(r)][AsMarked(shorter, Atom(r), Mark(r), s, I)]
<1>1. ASSUME ~ NoBar(r)
      PROVE  Match(shorter, r, s, I)
               = shorter[Upto(r, FirstBar(r))][I] \cup shorter[From(r, FirstBar(r) + 1)][I]
  <2>1. r # <<>>
    <3>1. FirstBar(r) \in 1 .. Len(r)
      BY <1>1, AlternativesAreWhole
    <3>2. r # <<>>
      BY <3>1
    <3> QED
      BY <3>2
  <2> DEFINE bars == Bars(r, Reading(r, "PCRE2"))
  <2>2. Match(shorter, r, s, I) = Either(shorter, r, s, I, CHOOSE i \in bars : \A j \in bars : i <= j)
    BY <1>1, <2>1 DEF Match, NoBar
  <2>3. FirstBar(r) = CHOOSE i \in bars : \A j \in bars : i <= j
    BY DEF FirstBar
  <2> HIDE DEF bars
  <2> QED
    BY <2>2, <2>3 DEF Either
<1>2. ASSUME NoBar(r), r # <<>>
      PROVE  Match(shorter, r, s, I) = shorter[Rest(r)][AsMarked(shorter, Atom(r), Mark(r), s, I)]
  <2>1. r[1] # "\\Q"
    BY <1>2, FirstRises
  <2>2. Match(shorter, r, s, I) = AfterFirst(shorter, r, s, I, AtomEnd(r))
    BY <1>2, <2>1 DEF Match, NoBar
  <2> QED
    BY <2>2 DEF AfterFirst, AfterAtom, Rest, Mark, Atom
<1> QED
  BY <1>1, <1>2

\* However long the matcher, the match is the same, and stays in the text.
Settled(r, s) ==
  /\ \A N \in Nat : \A m \in 0 .. N :
       Len(r) <= m => \A I \in SUBSET Positions(s) : Matchers(N, s)[m][r][I] = Ends(r, s, I)
  /\ \A I \in SUBSET Positions(s) : Ends(r, s, I) \in SUBSET Positions(s)

\* What a match is, whatever it is matched with.
ByItsParts(r, s, I) ==
  IF r = <<>> THEN I
  ELSE IF NoBar(r) THEN Ends(Rest(r), s, Marked(r, s, I))
  ELSE Ends(Upto(r, FirstBar(r)), s, I) \cup Ends(From(r, FirstBar(r) + 1), s, I)

LEMMA SettledByParts ==
  ASSUME NEW s, NEW r \in Seq(Token),
         \A N \in Nat : \A m \in 0 .. N :
           Len(r) <= m => \A I \in SUBSET Positions(s) : Matchers(N, s)[m][r][I] = ByItsParts(r, s, I),
         \A I \in SUBSET Positions(s) : ByItsParts(r, s, I) \in SUBSET Positions(s)
  PROVE  /\ Settled(r, s)
         /\ \A I \in SUBSET Positions(s) : Ends(r, s, I) = ByItsParts(r, s, I)
<1>1. Len(r) \in Nat /\ Len(r) \in 0 .. Len(r) /\ Len(r) <= Len(r)
  OBVIOUS
<1>2. \A I \in SUBSET Positions(s) : Ends(r, s, I) = ByItsParts(r, s, I)
  BY <1>1 DEF Ends
<1> QED
  BY <1>2 DEF Settled

LEMMA Settling ==
  ASSUME NEW s, Len(s) \in Nat
  PROVE  \A r \in Seq(Token) :
           Whole(r) => /\ Settled(r, s)
                       /\ \A I \in SUBSET Positions(s) : Ends(r, s, I) = ByItsParts(r, s, I)
<1> DEFINE Good(r) == /\ Settled(r, s)
                      /\ \A I \in SUBSET Positions(s) : Ends(r, s, I) = ByItsParts(r, s, I)
           T == {r \in Seq(Token) : Good(r)}
<1>1. \A I \in SUBSET Positions(s) : I \in SUBSET Nat
  BY DEF Positions
<1>2. <<>> \in T
  <2>1. <<>> \in Seq(Token)
    OBVIOUS
  <2>2. \A I : ByItsParts(<<>>, s, I) = I
    BY DEF ByItsParts
  <2>3. \A N \in Nat : \A m \in 0 .. N : \A I \in SUBSET Positions(s) : Matchers(N, s)[m][<<>>][I] = I
    BY <1>1, MatchEmpty
  <2> DEFINE r == <<>>
  <2> HIDE DEF r
  <2>4. r \in Seq(Token) /\ \A I \in SUBSET Positions(s) : ByItsParts(r, s, I) \in SUBSET Positions(s)
    BY <2>1, <2>2 DEF r
  <2>5. \A N \in Nat : \A m \in 0 .. N :
          Len(r) <= m => \A I \in SUBSET Positions(s) : Matchers(N, s)[m][r][I] = ByItsParts(r, s, I)
    BY <2>2, <2>3 DEF r
  <2>6. Good(r)
    BY <2>4, <2>5, SettledByParts
  <2> HIDE DEF Good
  <2> QED
    BY <2>1, <2>6 DEF r
<1>3. ASSUME NEW r \in Seq(Token), Whole(r), ~ NoBar(r), Upto(r, FirstBar(r)) \in T, From(r, FirstBar(r) + 1) \in T
      PROVE  r \in T
  <2> DEFINE b == FirstBar(r)
             x == Upto(r, b)
             y == From(r, b + 1)
  <2>1. b \in 1 .. Len(r) /\ Len(x) = b - 1 /\ Len(y) = Len(r) - b /\ Len(r) \in Nat
    BY <1>3, AlternativesAreWhole
  <2>2. Settled(x, s) /\ Settled(y, s)
    BY <1>3
  <2>3. r # <<>>
    <3>1. Len(r) # 0
      BY <2>1
    <3> QED
      BY <3>1
  <2>4. \A I : ByItsParts(r, s, I) = Ends(x, s, I) \cup Ends(y, s, I)
    BY <1>3, <2>3 DEF ByItsParts
  <2>5. \A M, I : Match(M, r, s, I) = M[x][I] \cup M[y][I]
    BY <1>3, MatchesParts
  <2> HIDE DEF b, x, y
  <2>6. \A I \in SUBSET Positions(s) : ByItsParts(r, s, I) \in SUBSET Positions(s)
    BY <2>2, <2>4 DEF Settled
  <2>7. ASSUME NEW N \in Nat, NEW m \in 0 .. N, Len(r) <= m, NEW I \in SUBSET Positions(s)
        PROVE  Matchers(N, s)[m][r][I] = ByItsParts(r, s, I)
    <3>1. m \in 1 .. N /\ m - 1 \in 0 .. N /\ Len(x) <= m - 1 /\ Len(y) <= m - 1
      BY <2>1, <2>7
    <3>2. Matchers(N, s)[m][r][I] = Match(Matchers(N, s)[m - 1], r, s, I)
      BY <1>1, <3>1, MatchStep
    <3>3. Matchers(N, s)[m - 1][x][I] = Ends(x, s, I) /\ Matchers(N, s)[m - 1][y][I] = Ends(y, s, I)
      BY <2>2, <3>1 DEF Settled
    <3> QED
      BY <2>4, <2>5, <3>2, <3>3
  <2>8. Good(r)
    BY <2>6, <2>7, SettledByParts
  <2> HIDE DEF Good
  <2> QED
    BY <2>8
<1>4. ASSUME NEW r \in Seq(Token), Whole(r), NoBar(r), r # <<>>, Rest(r) \in T, r[1] \in Openings => Inner(r) \in T
      PROVE  r \in T
  <2>1. /\ Whole(Rest(r)) /\ Len(Rest(r)) < Len(r) /\ Len(r) \in Nat /\ Len(Rest(r)) \in Nat
        /\ r[1] \in Openings => Whole(Inner(r)) /\ Len(Inner(r)) < Len(r) /\ Len(Inner(r)) \in Nat
    <3>1. Parted(r)
      BY <1>4, Parting
    <3>2. Whole(Rest(r)) /\ Len(Rest(r)) < Len(r) /\ (r[1] \in Openings => Whole(Inner(r)) /\ Len(Inner(r)) < Len(r))
      BY <3>1 DEF Parted
    <3> QED
      BY <3>2 DEF Whole
  <2>2. Settled(Rest(r), s) /\ (r[1] \in Openings => Settled(Inner(r), s))
    BY <1>4
  <2>3. \A I : ByItsParts(r, s, I) = Ends(Rest(r), s, Marked(r, s, I))
    BY <1>4 DEF ByItsParts
  <2>4. \A M, I : Match(M, r, s, I) = M[Rest(r)][AsMarked(M, Atom(r), Mark(r), s, I)]
    BY <1>4, MatchesParts
  <2>5. r[1] \in Openings => \A J \in SUBSET Positions(s) : Full(s)[Inner(r)][J] = Ends(Inner(r), s, J)
    BY <1>1, <2>1 DEF Full, Whole
  <2>6. ASSUME NEW A, r[1] \in Openings => \A J \in SUBSET Positions(s) : A[Inner(r)][J] = Ends(Inner(r), s, J)
        PROVE  \A I \in SUBSET Positions(s) :
                 /\ AsMarked(A, Atom(r), Mark(r), s, I) = Marked(r, s, I)
                 /\ Marked(r, s, I) \in SUBSET Positions(s)
    <3>1. Agree(A, Full(s), r, s)
      BY <2>2, <2>5, <2>6 DEF Agree, Settled
    <3>2. OnceAgree(A, Full(s), r, s)
      BY <1>4, <3>1, AgreeOnAtoms
    <3> QED
      BY <3>2, AgreeAsMarked DEF Marked
  <2>7. \A I \in SUBSET Positions(s) : Marked(r, s, I) \in SUBSET Positions(s)
    BY <2>5, <2>6
  <2>8. \A I \in SUBSET Positions(s) : ByItsParts(r, s, I) \in SUBSET Positions(s)
    BY <2>2, <2>3, <2>7 DEF Settled
  <2>9. ASSUME NEW N \in Nat, NEW m \in 0 .. N, Len(r) <= m, NEW I \in SUBSET Positions(s)
        PROVE  Matchers(N, s)[m][r][I] = ByItsParts(r, s, I)
    <3> DEFINE A == Matchers(N, s)[m - 1]
    <3>1. m \in 1 .. N /\ m - 1 \in 0 .. N /\ Len(Rest(r)) <= m - 1 /\ (r[1] \in Openings => Len(Inner(r)) <= m - 1)
      BY <2>1, <2>9
    <3>2. Matchers(N, s)[m][r][I] = Match(A, r, s, I)
      BY <1>1, <3>1, MatchStep
    <3>3. r[1] \in Openings => \A J \in SUBSET Positions(s) : A[Inner(r)][J] = Ends(Inner(r), s, J)
      BY <2>2, <3>1 DEF Settled
    <3>4. \A J \in SUBSET Positions(s) : A[Rest(r)][J] = Ends(Rest(r), s, J)
      BY <2>2, <3>1 DEF Settled
    <3> HIDE DEF A
    <3>5. AsMarked(A, Atom(r), Mark(r), s, I) = Marked(r, s, I) /\ Marked(r, s, I) \in SUBSET Positions(s)
      BY <2>6, <3>3
    <3> QED
      BY <2>3, <2>4, <3>2, <3>4, <3>5
  <2>10. Good(r)
    BY <2>8, <2>9, SettledByParts
  <2> HIDE DEF Good
  <2> QED
    BY <2>10
<1> HIDE DEF T
<1>5. \A r \in Seq(Token) : Whole(r) => r \in T
  BY <1>2, <1>3, <1>4, ByParts
<1> QED
  BY <1>5 DEF T

\* What follows is used of it: an expression's match, by its parts.
LEMMA Unfolds ==
  ASSUME NEW s, Len(s) \in Nat, NEW r, Whole(r), NEW I \in SUBSET Positions(s)
  PROVE  /\ r = <<>> => Ends(r, s, I) = I
         /\ ~ NoBar(r) =>
              Ends(r, s, I) = Ends(Upto(r, FirstBar(r)), s, I) \cup Ends(From(r, FirstBar(r) + 1), s, I)
         /\ NoBar(r) /\ r # <<>> => Ends(r, s, I) = Ends(Rest(r), s, Marked(r, s, I))
         /\ Ends(r, s, I) \in SUBSET Positions(s)
<1>1. r \in Seq(Token)
  BY DEF Whole
<1>2. Settled(r, s) /\ Ends(r, s, I) = ByItsParts(r, s, I)
  BY <1>1, Settling
<1>3. ~ NoBar(r) => r # <<>>
  <2>1. ASSUME ~ NoBar(r)
        PROVE  r # <<>>
    <3>1. FirstBar(r) \in 1 .. Len(r)
      BY <2>1, AlternativesAreWhole
    <3> QED
      BY <3>1
  <2> QED
    BY <2>1
<1> QED
  BY <1>2, <1>3 DEF ByItsParts, Settled

\* What one of its first atom takes.
Admits(r, c) ==
  IF r[1] \in ClassOpenings
    THEN (c \in {Chars(Atom(r)[k]) : k \in 2 .. Len(Atom(r)) - 1}) = (r[1] = "[")
  ELSE IF r[1] = "." THEN TRUE
  ELSE IF r[1] = "\\d" THEN c \in Digits
  ELSE c = Chars(r[1])
Taking(r, s, J) == {i + 1 : i \in {j \in J : j <= Len(s) /\ Admits(r, s[j])}}

LEMMA OnceIs ==
  ASSUME NEW s, Len(s) \in Nat, NEW r, Whole(r), r # <<>>, NoBar(r)
  PROVE  /\ StaysIn(Full(s), Atom(r), s)
         /\ \A J \in SUBSET Positions(s) :
              /\ r[1] \in Openings => OnceOf(r, s, J) = Ends(Inner(r), s, J)
              /\ r[1] = "^" => OnceOf(r, s, J) = J \cap {1}
              /\ r[1] = "$" => OnceOf(r, s, J) = J \cap {Len(s) + 1}
              /\ r[1] \notin Openings \cup Assertions => OnceOf(r, s, J) = Taking(r, s, J)
<1> DEFINE atom == Atom(r)
<1>1. /\ atom[1] = r[1]
      /\ r[1] \in Openings => Whole(Inner(r)) /\ SubSeq(atom, 2, Len(atom) - 1) = Inner(r)
  BY Parting DEF Parted, Atom
<1>2. Positions(s) \in SUBSET Nat
  BY DEF Positions
<1>3. Agree(Full(s), Full(s), r, s)
  <2>1. ASSUME r[1] \in Openings, NEW J \in SUBSET Positions(s)
        PROVE  Full(s)[Inner(r)][J] = Ends(Inner(r), s, J) /\ Ends(Inner(r), s, J) \in SUBSET Positions(s)
    <3>1. Inner(r) \in Seq(Token) /\ Whole(Inner(r)) /\ J \in SUBSET Nat
      BY <1>1, <1>2, <2>1 DEF Whole
    <3>2. Full(s)[Inner(r)][J] = Ends(Inner(r), s, J)
      BY <3>1 DEF Full
    <3> QED
      BY <3>1, <3>2, Unfolds
  <2> QED
    BY <2>1 DEF Agree
<1>4. StaysIn(Full(s), Atom(r), s)
  BY <1>3, AgreeOnAtoms DEF OnceAgree, StaysIn
<1> HIDE DEF atom
<1>5. ASSUME NEW J \in SUBSET Positions(s)
      PROVE  /\ r[1] \in Openings => OnceOf(r, s, J) = Ends(Inner(r), s, J)
             /\ r[1] = "^" => OnceOf(r, s, J) = J \cap {1}
             /\ r[1] = "$" => OnceOf(r, s, J) = J \cap {Len(s) + 1}
             /\ r[1] \notin Openings \cup Assertions => OnceOf(r, s, J) = Taking(r, s, J)
  <2>0. OnceOf(r, s, J) = Once(Full(s), atom, s, J)
    BY DEF OnceOf, atom
  <2>1. ASSUME r[1] \in Openings
        PROVE  OnceOf(r, s, J) = Ends(Inner(r), s, J)
    <3>1. OnceOf(r, s, J) = Full(s)[Inner(r)][J]
      BY <1>1, <2>0, <2>1 DEF Once, Openings, ClassOpenings
    <3>2. Inner(r) \in Seq(Token) /\ J \in SUBSET Nat
      BY <1>1, <1>2, <2>1 DEF Whole
    <3> QED
      BY <3>1, <3>2 DEF Full
  <2>2. r[1] = "^" => OnceOf(r, s, J) = J \cap {1}
    BY <1>1, <2>0 DEF Once, Openings, ClassOpenings
  <2>3. r[1] = "$" => OnceOf(r, s, J) = J \cap {Len(s) + 1}
    BY <1>1, <2>0 DEF Once, Openings, ClassOpenings
  <2>4. ASSUME r[1] \notin Openings \cup Assertions
        PROVE  OnceOf(r, s, J) = Taking(r, s, J)
    <3> DEFINE members == {Chars(atom[k]) : k \in 2 .. Len(atom) - 1}
    <3>1. ASSUME r[1] \in ClassOpenings
          PROVE  OnceOf(r, s, J) = Taking(r, s, J)
      <4>1. OnceOf(r, s, J) = {i + 1 : i \in {j \in J : j <= Len(s) /\ (s[j] \in members) = (atom[1] = "[")}}
        BY <1>1, <2>0, <3>1 DEF Once, Openings, ClassOpenings
      <4>2. \A c : Admits(r, c) = ((c \in members) = (r[1] = "["))
        BY <3>1 DEF Admits, atom
      <4> HIDE DEF members
      <4> QED
        BY <1>1, <4>1, <4>2 DEF Taking
    <3>2. ASSUME r[1] = "."
          PROVE  OnceOf(r, s, J) = Taking(r, s, J)
      <4>1. OnceOf(r, s, J) = {i + 1 : i \in {j \in J : j <= Len(s)}}
        BY <1>1, <2>0, <3>2 DEF Once, Openings, ClassOpenings
      <4>2. \A c : Admits(r, c)
        BY <3>2 DEF Admits, ClassOpenings
      <4> QED
        BY <4>1, <4>2 DEF Taking
    <3>3. ASSUME r[1] = "\\d"
          PROVE  OnceOf(r, s, J) = Taking(r, s, J)
      <4>1. OnceOf(r, s, J) = {i + 1 : i \in {j \in J : j <= Len(s) /\ s[j] \in Digits}}
        BY <1>1, <2>0, <3>3 DEF Once, Openings, ClassOpenings
      <4>2. \A c : Admits(r, c) = (c \in Digits)
        BY <3>3 DEF Admits, ClassOpenings
      <4> QED
        BY <4>1, <4>2 DEF Taking
    <3>4. ASSUME r[1] \notin ClassOpenings \cup {".", "\\d"}
          PROVE  OnceOf(r, s, J) = Taking(r, s, J)
      <4>1. r[1] \notin {"^", "$"}
        BY <2>4 DEF Assertions
      <4>2. OnceOf(r, s, J) = {i + 1 : i \in {j \in J : j <= Len(s) /\ s[j] = Chars(atom[1])}}
        BY <1>1, <2>0, <2>4, <3>4, <4>1 DEF Once
      <4>3. \A c : Admits(r, c) = (c = Chars(r[1]))
        BY <3>4 DEF Admits
      <4> QED
        BY <1>1, <4>2, <4>3 DEF Taking
    <3> QED
      BY <3>1, <3>2, <3>3, <3>4
  <2> QED
    BY <2>1, <2>2, <2>3, <2>4
<1> QED
  BY <1>4, <1>5

\* What a quantifier makes of it: the least that holds and goes on, where it repeats.
Repeated(r, s, I) == Repeat(Full(s), Atom(r), s, I)

LEMMA RepeatedIs ==
  ASSUME NEW s, Len(s) \in Nat, NEW r, Whole(r), r # <<>>, NoBar(r)
  PROVE  \A I \in SUBSET Positions(s) :
           /\ Repeated(r, s, I) \in SUBSET Positions(s)
           /\ I \subseteq Repeated(r, s, I)
           /\ OnceOf(r, s, Repeated(r, s, I)) \subseteq Repeated(r, s, I)
           /\ \A X : /\ I \subseteq X
                     /\ \A J \in SUBSET Positions(s) : J \subseteq X => OnceOf(r, s, J) \subseteq X
                     => Repeated(r, s, I) \subseteq X
<1>1. StaysIn(Full(s), Atom(r), s)
  BY OnceIs
<1> QED
  BY <1>1, RepeatIsLeast DEF Repeated, OnceOf

LEMMA MarkedIs ==
  ASSUME NEW s, Len(s) \in Nat, NEW r, Whole(r), r # <<>>, NoBar(r)
  PROVE  \A I \in SUBSET Positions(s) :
           /\ OnceOf(r, s, I) \in SUBSET Positions(s)
           /\ Marked(r, s, I) \in SUBSET Positions(s)
           /\ \/ Mark(r) = "once" /\ Marked(r, s, I) = OnceOf(r, s, I)
              \/ Mark(r) = "?" /\ Marked(r, s, I) = I \cup OnceOf(r, s, I)
              \/ Mark(r) = "*" /\ Marked(r, s, I) = Repeated(r, s, I)
              \/ Mark(r) = "+" /\ Marked(r, s, I) = Repeated(r, s, OnceOf(r, s, I))
<1>1. StaysIn(Full(s), Atom(r), s)
  BY OnceIs
<1>2. Mark(r) \in {"once", "?", "*", "+"}
  BY DEF Mark, MarkAt, Quantifiers
<1>3. ASSUME NEW I \in SUBSET Positions(s)
      PROVE  /\ OnceOf(r, s, I) \in SUBSET Positions(s)
             /\ Marked(r, s, I) \in SUBSET Positions(s)
             /\ \/ Mark(r) = "once" /\ Marked(r, s, I) = OnceOf(r, s, I)
                \/ Mark(r) = "?" /\ Marked(r, s, I) = I \cup OnceOf(r, s, I)
                \/ Mark(r) = "*" /\ Marked(r, s, I) = Repeated(r, s, I)
                \/ Mark(r) = "+" /\ Marked(r, s, I) = Repeated(r, s, OnceOf(r, s, I))
  <2>1. OnceOf(r, s, I) \in SUBSET Positions(s)
    BY <1>1 DEF StaysIn, OnceOf
  <2>2. Repeated(r, s, I) \in SUBSET Positions(s) /\ Repeated(r, s, OnceOf(r, s, I)) \in SUBSET Positions(s)
    BY <2>1, RepeatedIs
  <2>3. \/ Mark(r) = "once" /\ Marked(r, s, I) = OnceOf(r, s, I)
        \/ Mark(r) = "?" /\ Marked(r, s, I) = I \cup OnceOf(r, s, I)
        \/ Mark(r) = "*" /\ Marked(r, s, I) = Repeated(r, s, I)
        \/ Mark(r) = "+" /\ Marked(r, s, I) = Repeated(r, s, OnceOf(r, s, I))
    BY <1>2 DEF Marked, AsMarked, OnceOf, Repeated
  <2> QED
    BY <2>1, <2>2, <2>3
<1> QED
  BY <1>3

-----------------------------------------------------------------------------
(* From several positions a match leads where it leads from each *)

Spread(r, s) == \A I \in SUBSET Positions(s) : \A e : e \in Ends(r, s, I) <=> \E i \in I : e \in Ends(r, s, {i})
OnceSpread(r, s) == \A I \in SUBSET Positions(s) : \A e : e \in OnceOf(r, s, I) <=> \E i \in I : e \in OnceOf(r, s, {i})
RepeatSpread(r, s) ==
  \A I \in SUBSET Positions(s) : \A e : e \in Repeated(r, s, I) <=> \E i \in I : e \in Repeated(r, s, {i})
MarkedSpread(r, s) == \A I \in SUBSET Positions(s) : \A e : e \in Marked(r, s, I) <=> \E i \in I : e \in Marked(r, s, {i})

LEMMA RepeatSpreads ==
  ASSUME NEW s, Len(s) \in Nat, NEW r, Whole(r), r # <<>>, NoBar(r), OnceSpread(r, s)
  PROVE  RepeatSpread(r, s)
<1> DEFINE P == Positions(s)
<1>1. \A I \in SUBSET P :
        /\ Repeated(r, s, I) \in SUBSET P
        /\ I \subseteq Repeated(r, s, I)
        /\ OnceOf(r, s, Repeated(r, s, I)) \subseteq Repeated(r, s, I)
        /\ \A X : /\ I \subseteq X
                  /\ \A J \in SUBSET P : J \subseteq X => OnceOf(r, s, J) \subseteq X
                  => Repeated(r, s, I) \subseteq X
  BY RepeatedIs
<1>2. \A I \in SUBSET P : \A e : e \in OnceOf(r, s, I) <=> \E i \in I : e \in OnceOf(r, s, {i})
  BY DEF OnceSpread
<1>3. \A i \in P : {i} \in SUBSET P
  OBVIOUS
<1> HIDE DEF P
<1>4. \A I \in SUBSET P : \A J \in SUBSET P : J \subseteq Repeated(r, s, I) => OnceOf(r, s, J) \subseteq Repeated(r, s, I)
  <2>1. ASSUME NEW I \in SUBSET P, NEW J \in SUBSET P, J \subseteq Repeated(r, s, I), NEW e \in OnceOf(r, s, J)
        PROVE  e \in Repeated(r, s, I)
    <3>1. PICK j \in J : e \in OnceOf(r, s, {j})
      BY <1>2, <2>1
    <3>2. j \in Repeated(r, s, I)
      BY <2>1
    <3>3. e \in OnceOf(r, s, Repeated(r, s, I))
      BY <1>1, <1>2, <3>1, <3>2
    <3> QED
      BY <1>1, <3>3
  <2> QED
    BY <2>1
<1>5. ASSUME NEW I \in SUBSET P, NEW e, e \in Repeated(r, s, I)
      PROVE  \E i \in I : e \in Repeated(r, s, {i})
  <2> DEFINE X == {x \in P : \E i \in I : x \in Repeated(r, s, {i})}
  <2>1. I \subseteq X
    <3>1. \A i \in I : i \in P /\ i \in Repeated(r, s, {i})
      BY <1>1, <1>3
    <3> QED
      BY <3>1
  <2>2. ASSUME NEW J \in SUBSET P, J \subseteq X, NEW x \in OnceOf(r, s, J)
        PROVE  x \in X
    <3>1. PICK j \in J : x \in OnceOf(r, s, {j})
      BY <1>2, <2>2
    <3>2. PICK i \in I : j \in Repeated(r, s, {i})
      BY <2>2
    <3>3. i \in P /\ j \in P /\ {i} \in SUBSET P /\ {j} \in SUBSET P /\ {j} \subseteq Repeated(r, s, {i})
      BY <1>3, <3>2
    <3>4. OnceOf(r, s, {j}) \subseteq Repeated(r, s, {i})
      BY <1>4, <3>3
    <3>5. x \in Repeated(r, s, {i})
      BY <3>1, <3>4
    <3>6. x \in P
      BY <1>1, <3>3, <3>5
    <3> QED
      BY <3>5, <3>6
  <2>3. Repeated(r, s, I) \subseteq X
    <3>1. \A J \in SUBSET P : J \subseteq X => OnceOf(r, s, J) \subseteq X
      BY <2>2
    <3> HIDE DEF X
    <3> QED
      BY <1>1, <2>1, <3>1
  <2> QED
    BY <1>5, <2>3
<1>6. ASSUME NEW I \in SUBSET P, NEW i \in I
      PROVE  Repeated(r, s, {i}) \subseteq Repeated(r, s, I)
  <2> DEFINE X == Repeated(r, s, I)
  <2>1. {i} \in SUBSET P /\ {i} \subseteq X
    BY <1>1
  <2>2. \A J \in SUBSET P : J \subseteq X => OnceOf(r, s, J) \subseteq X
    BY <1>4
  <2> HIDE DEF X
  <2>3. Repeated(r, s, {i}) \subseteq X
    BY <1>1, <2>1, <2>2
  <2> QED
    BY <2>3 DEF X
<1> QED
  BY <1>5, <1>6 DEF RepeatSpread, P

LEMMA MarkedSpreads ==
  ASSUME NEW s, Len(s) \in Nat, NEW r, Whole(r), r # <<>>, NoBar(r), OnceSpread(r, s)
  PROVE  MarkedSpread(r, s)
<1>1. RepeatSpread(r, s)
  BY RepeatSpreads
<1>2. \A i \in Positions(s) : {i} \in SUBSET Positions(s)
  OBVIOUS
<1>3. SUFFICES ASSUME NEW I \in SUBSET Positions(s), NEW e
               PROVE  e \in Marked(r, s, I) <=> \E i \in I : e \in Marked(r, s, {i})
  BY DEF MarkedSpread
<1>4. \A i \in I : {i} \in SUBSET Positions(s)
  BY <1>2
<1>5. CASE Mark(r) = "once"
  <2>1. \A J \in SUBSET Positions(s) : Marked(r, s, J) = OnceOf(r, s, J)
    BY <1>5, MarkedIs
  <2>2. Marked(r, s, I) = OnceOf(r, s, I) /\ \A i \in I : Marked(r, s, {i}) = OnceOf(r, s, {i})
    BY <1>4, <2>1
  <2>3. e \in OnceOf(r, s, I) <=> \E i \in I : e \in OnceOf(r, s, {i})
    BY DEF OnceSpread
  <2> QED
    BY <2>2, <2>3
<1>6. CASE Mark(r) = "?"
  <2>1. \A J \in SUBSET Positions(s) : Marked(r, s, J) = J \cup OnceOf(r, s, J)
    BY <1>6, MarkedIs
  <2>2. e \in Marked(r, s, I) <=> e \in I \/ e \in OnceOf(r, s, I)
    BY <2>1
  <2>3. \A i \in I : e \in Marked(r, s, {i}) <=> e = i \/ e \in OnceOf(r, s, {i})
    BY <1>4, <2>1
  <2>4. e \in OnceOf(r, s, I) <=> \E i \in I : e \in OnceOf(r, s, {i})
    BY DEF OnceSpread
  <2> QED
    BY <2>2, <2>3, <2>4
<1>7. CASE Mark(r) = "*"
  <2>1. \A J \in SUBSET Positions(s) : Marked(r, s, J) = Repeated(r, s, J)
    BY <1>7, MarkedIs
  <2>2. Marked(r, s, I) = Repeated(r, s, I) /\ \A i \in I : Marked(r, s, {i}) = Repeated(r, s, {i})
    BY <1>4, <2>1
  <2>3. e \in Repeated(r, s, I) <=> \E i \in I : e \in Repeated(r, s, {i})
    BY <1>1 DEF RepeatSpread
  <2> QED
    BY <2>2, <2>3
<1>8. CASE Mark(r) = "+"
  <2>1. \A J \in SUBSET Positions(s) :
          Marked(r, s, J) = Repeated(r, s, OnceOf(r, s, J)) /\ OnceOf(r, s, J) \in SUBSET Positions(s)
    BY <1>8, MarkedIs
  <2>2. \A J \in SUBSET Positions(s) :
          e \in Marked(r, s, J) <=> \E k \in OnceOf(r, s, J) : e \in Repeated(r, s, {k})
    <3>1. ASSUME NEW J \in SUBSET Positions(s)
          PROVE  e \in Marked(r, s, J) <=> \E k \in OnceOf(r, s, J) : e \in Repeated(r, s, {k})
      <4> DEFINE K == OnceOf(r, s, J)
      <4>1. Marked(r, s, J) = Repeated(r, s, K) /\ K \in SUBSET Positions(s)
        BY <2>1
      <4> HIDE DEF K
      <4>2. e \in Repeated(r, s, K) <=> \E k \in K : e \in Repeated(r, s, {k})
        BY <1>1, <4>1 DEF RepeatSpread
      <4> QED
        BY <4>1, <4>2 DEF K
    <3> QED
      BY <3>1
  <2>3. \A k : k \in OnceOf(r, s, I) <=> \E i \in I : k \in OnceOf(r, s, {i})
    BY DEF OnceSpread
  <2>4. e \in Marked(r, s, I) <=> \E k \in OnceOf(r, s, I) : e \in Repeated(r, s, {k})
    BY <2>2
  <2>5. \A i \in I : e \in Marked(r, s, {i}) <=> \E k \in OnceOf(r, s, {i}) : e \in Repeated(r, s, {k})
    BY <1>4, <2>2
  <2> QED
    BY <2>3, <2>4, <2>5
<1>9. Mark(r) \in {"once", "?", "*", "+"}
  BY DEF Mark, MarkAt, Quantifiers
<1> QED
  BY <1>5, <1>6, <1>7, <1>8, <1>9

LEMMA OnceSpreads ==
  ASSUME NEW s, Len(s) \in Nat, NEW r, Whole(r), r # <<>>, NoBar(r), r[1] \in Openings => Spread(Inner(r), s)
  PROVE  OnceSpread(r, s)
<1>1. /\ \A J \in SUBSET Positions(s) :
           /\ r[1] \in Openings => OnceOf(r, s, J) = Ends(Inner(r), s, J)
           /\ r[1] = "^" => OnceOf(r, s, J) = J \cap {1}
           /\ r[1] = "$" => OnceOf(r, s, J) = J \cap {Len(s) + 1}
           /\ r[1] \notin Openings \cup Assertions => OnceOf(r, s, J) = Taking(r, s, J)
  BY OnceIs
<1>2. SUFFICES ASSUME NEW I \in SUBSET Positions(s), NEW e
               PROVE  e \in OnceOf(r, s, I) <=> \E i \in I : e \in OnceOf(r, s, {i})
  BY DEF OnceSpread
<1>3. \A i \in I : {i} \in SUBSET Positions(s)
  OBVIOUS
<1>4. CASE r[1] \in Openings
  <2>1. OnceOf(r, s, I) = Ends(Inner(r), s, I)
    BY <1>1, <1>4
  <2>2. \A i \in I : OnceOf(r, s, {i}) = Ends(Inner(r), s, {i})
    BY <1>1, <1>3, <1>4
  <2>3. e \in Ends(Inner(r), s, I) <=> \E i \in I : e \in Ends(Inner(r), s, {i})
    BY <1>4 DEF Spread
  <2> QED
    BY <2>1, <2>2, <2>3
<1>5. CASE r[1] = "^"
  <2>1. OnceOf(r, s, I) = I \cap {1}
    BY <1>1, <1>5
  <2>2. \A i \in I : OnceOf(r, s, {i}) = {i} \cap {1}
    BY <1>1, <1>3, <1>5
  <2> QED
    BY <2>1, <2>2
<1>6. CASE r[1] = "$"
  <2>1. OnceOf(r, s, I) = I \cap {Len(s) + 1}
    BY <1>1, <1>6
  <2>2. \A i \in I : OnceOf(r, s, {i}) = {i} \cap {Len(s) + 1}
    BY <1>1, <1>3, <1>6
  <2> QED
    BY <2>1, <2>2
<1>7. CASE r[1] \notin Openings \cup Assertions
  <2>1. OnceOf(r, s, I) = Taking(r, s, I)
    BY <1>1, <1>7
  <2>2. \A i \in I : OnceOf(r, s, {i}) = Taking(r, s, {i})
    BY <1>1, <1>3, <1>7
  <2>3. \A J : e \in Taking(r, s, J) <=> \E j \in J : e = j + 1 /\ j <= Len(s) /\ Admits(r, s[j])
    BY DEF Taking
  <2>4. e \in Taking(r, s, I) <=> \E i \in I : e = i + 1 /\ i <= Len(s) /\ Admits(r, s[i])
    BY <2>3
  <2>5. \A i \in I : e \in Taking(r, s, {i}) <=> e = i + 1 /\ i <= Len(s) /\ Admits(r, s[i])
    BY <2>3
  <2> QED
    BY <2>1, <2>2, <2>4, <2>5
<1> QED
  BY <1>4, <1>5, <1>6, <1>7 DEF Assertions

LEMMA Spreading ==
  ASSUME NEW s, Len(s) \in Nat
  PROVE  \A r \in Seq(Token) : Whole(r) => Spread(r, s)
<1> DEFINE T == {r \in Seq(Token) : Whole(r) /\ Spread(r, s)}
<1>0. \A i \in Positions(s) : {i} \in SUBSET Positions(s)
  OBVIOUS
<1>1. <<>> \in T
  <2> DEFINE r == <<>>
  <2>1. r \in Seq(Token) /\ Whole(r)
    BY EmptyIsWhole
  <2> HIDE DEF r
  <2>2. \A I \in SUBSET Positions(s) : Ends(r, s, I) = I
    BY <2>1, Unfolds DEF r
  <2>3. Spread(r, s)
    <3>1. ASSUME NEW I \in SUBSET Positions(s), NEW e
          PROVE  e \in Ends(r, s, I) <=> \E i \in I : e \in Ends(r, s, {i})
      <4>1. \A i \in I : Ends(r, s, {i}) = {i}
        BY <1>0, <2>2
      <4>2. Ends(r, s, I) = I
        BY <2>2
      <4> QED
        BY <4>1, <4>2
    <3> QED
      BY <3>1 DEF Spread
  <2> QED
    BY <2>1, <2>3 DEF r
<1>2. ASSUME NEW r \in Seq(Token), Whole(r), ~ NoBar(r), Upto(r, FirstBar(r)) \in T, From(r, FirstBar(r) + 1) \in T
      PROVE  r \in T
  <2> DEFINE x == Upto(r, FirstBar(r))
             y == From(r, FirstBar(r) + 1)
  <2>1. \A I \in SUBSET Positions(s) : Ends(r, s, I) = Ends(x, s, I) \cup Ends(y, s, I)
    BY <1>2, Unfolds
  <2>2. Spread(x, s) /\ Spread(y, s)
    BY <1>2
  <2> HIDE DEF x, y
  <2>3. ASSUME NEW I \in SUBSET Positions(s), NEW e
        PROVE  e \in Ends(r, s, I) <=> \E i \in I : e \in Ends(r, s, {i})
    <3>1. \A i \in I : {i} \in SUBSET Positions(s)
      BY <1>0
    <3>2. Ends(r, s, I) = Ends(x, s, I) \cup Ends(y, s, I)
      BY <2>1
    <3>3. \A i \in I : Ends(r, s, {i}) = Ends(x, s, {i}) \cup Ends(y, s, {i})
      BY <2>1, <3>1
    <3>4. /\ e \in Ends(x, s, I) <=> \E i \in I : e \in Ends(x, s, {i})
          /\ e \in Ends(y, s, I) <=> \E i \in I : e \in Ends(y, s, {i})
      BY <2>2 DEF Spread
    <3> QED
      BY <3>2, <3>3, <3>4
  <2>4. Spread(r, s)
    BY <2>3 DEF Spread
  <2> QED
    BY <1>2, <2>4
<1>3. ASSUME NEW r \in Seq(Token), Whole(r), NoBar(r), r # <<>>, Rest(r) \in T, r[1] \in Openings => Inner(r) \in T
      PROVE  r \in T
  <2>2. OnceSpread(r, s)
    BY <1>3, OnceSpreads
  <2>3. MarkedSpread(r, s)
    BY <1>3, <2>2, MarkedSpreads
  <2>4. Spread(Rest(r), s)
    BY <1>3
  <2>5. \A I \in SUBSET Positions(s) :
          Ends(r, s, I) = Ends(Rest(r), s, Marked(r, s, I)) /\ Marked(r, s, I) \in SUBSET Positions(s)
    BY <1>3, Unfolds, MarkedIs
  <2>6. ASSUME NEW I \in SUBSET Positions(s), NEW e
        PROVE  e \in Ends(r, s, I) <=> \E i \in I : e \in Ends(r, s, {i})
    <3>1. \A i \in I : {i} \in SUBSET Positions(s)
      BY <1>0
    <3>2. \A J \in SUBSET Positions(s) :
            e \in Ends(r, s, J) <=> \E k \in Marked(r, s, J) : e \in Ends(Rest(r), s, {k})
      BY <2>4, <2>5 DEF Spread
    <3>3. \A k : k \in Marked(r, s, I) <=> \E i \in I : k \in Marked(r, s, {i})
      BY <2>3 DEF MarkedSpread
    <3> QED
      BY <3>1, <3>2, <3>3
  <2>7. Spread(r, s)
    BY <2>6 DEF Spread
  <2> QED
    BY <1>3, <2>7
<1> HIDE DEF T
<1>4. \A r \in Seq(Token) : Whole(r) => r \in T
  BY <1>1, <1>2, <1>3, ByParts
<1> QED
  BY <1>4 DEF T

-----------------------------------------------------------------------------
(* One after another, each matches from where the one before left off *)

Composes(a, s) ==
  NoBar(a) =>
    \A b \in Seq(Token) :
      Whole(b) /\ NoBar(b) /\ (b # <<>> => b[1] \notin Quantifiers) =>
        \A I \in SUBSET Positions(s) : Ends(a \o b, s, I) = Ends(b, s, Ends(a, s, I))

\* What is put after an expression without alternatives is no part of its first
\* atom.
LEMMA AtomOfJoin ==
  ASSUME NEW a, Whole(a), NoBar(a), NEW b, Whole(b), NoBar(b), b # <<>> => b[1] \notin Quantifiers
  PROVE  /\ Whole(a \o b) /\ NoBar(a \o b)
         /\ a # <<>> => /\ a \o b # <<>> /\ Atom(a \o b) = Atom(a) /\ Mark(a \o b) = Mark(a)
                        /\ Rest(a \o b) = Rest(a) \o b
<1> DEFINE w == a \o b
           m == Len(a)
           n == Len(b)
<1>1. a \in Seq(Token) /\ b \in Seq(Token) /\ m \in Nat /\ n \in Nat
  BY DEF Whole
<1>2. /\ w \in Seq(Token) /\ Len(w) = m + n
      /\ \A i \in 1 .. m : w[i] = a[i]
      /\ \A i \in 1 .. n : w[m + i] = b[i]
  BY <1>1, Gluing DEF Glued
<1>3. /\ Whole(w)
      /\ \A j \in 1 .. m + 1 : Place(w, j) = Place(a, j) /\ Level(w, j) = Level(a, j)
      /\ \A j \in 1 .. n + 1 : Place(w, m + j) = Place(b, j) /\ Level(w, m + j) = Level(b, j)
  BY JoinIsWhole
<1> HIDE DEF w
<1>4. NoBar(w)
  <2>1. ASSUME NEW i \in 1 .. Len(w), i \in Bars(w, Reading(w, "PCRE2"))
        PROVE  FALSE
    <3>1. Out(w, i) /\ w[i] = "|" /\ Level(w, i) = 0
      BY <1>3, <2>1, BarStands
    <3>2. CASE i <= m
      <4>1. i \in 1 .. m /\ i \in 1 .. m + 1
        BY <1>1, <3>2
      <4>2. Out(a, i) /\ a[i] = "|" /\ Level(a, i) = 0
        BY <1>2, <1>3, <3>1, <4>1 DEF Out
      <4> QED
        BY <4>1, <4>2, BarStands DEF NoBar
    <3>3. CASE i > m
      <4> DEFINE k == i - m
      <4>1. k \in 1 .. n /\ k \in 1 .. n + 1 /\ m + k = i
        BY <1>1, <1>2, <3>3
      <4> HIDE DEF k
      <4>2. Place(w, i) = Place(b, k) /\ Level(w, i) = Level(b, k) /\ w[i] = b[k]
        BY <1>2, <1>3, <4>1
      <4>3. Out(b, k) /\ b[k] = "|" /\ Level(b, k) = 0
        BY <3>1, <4>2 DEF Out
      <4> QED
        BY <4>1, <4>3, BarStands DEF NoBar
    <3> QED
      BY <1>1, <1>2, <3>2, <3>3
  <2> QED
    BY <2>1 DEF NoBar, Bars
<1>5. ASSUME a # <<>>
      PROVE  w # <<>> /\ Atom(w) = Atom(a) /\ Mark(w) = Mark(a) /\ Rest(w) = Rest(a) \o b
  <2> DEFINE e == AtomEnd(a)
  <2>1. Parted(a)
    BY <1>5, Parting
  <2>2. AtomIs(a, e)
    BY <2>1 DEF Parted
  <2>3. e \in 1 .. m /\ m # 0
    BY <2>2 DEF AtomIs
  <2>4. w # <<>> /\ w[1] = a[1] /\ w[1] # "|"
    <3>1. Len(w) # 0 /\ 1 \in 1 .. m /\ 1 \in 1 .. Len(w)
      BY <1>1, <1>2, <2>3
    <3>2. w # <<>>
      BY <3>1
    <3>3. Out(w, 1) /\ Level(w, 1) = 0
      BY <1>3, <3>2, FirstRises
    <3>4. w[1] # "|"
      BY <1>3, <1>4, <3>1, <3>3, BarStands DEF NoBar
    <3> QED
      BY <1>2, <3>1, <3>2, <3>4
  <2> HIDE DEF e
  <2>5. AtomIs(w, e)
    <3>1. \A j \in 1 .. m : IsOver(w, j) <=> IsOver(a, j)
      <4>1. \A j \in 1 .. m : j + 1 \in 1 .. m + 1
        BY <1>1
      <4> QED
        BY <1>3, <4>1 DEF IsOver, Out
    <3>2. e \in 1 .. Len(w) /\ \A j \in 1 .. e - 1 : j \in 1 .. m
      BY <1>1, <1>2, <2>3
    <3> QED
      BY <2>2, <2>3, <3>1, <3>2 DEF AtomIs
  <2>6. AtomEnd(w) = e
    BY <1>3, <2>4, <2>5, AtomEnds
  <2>7. Mark(w) = Mark(a)
    <3>1. CASE e < m
      <4>1. e + 1 \in 1 .. m /\ e + 1 <= Len(w) /\ e + 1 <= m
        BY <1>1, <1>2, <2>3, <3>1
      <4>2. w[e + 1] = a[e + 1]
        BY <1>2, <4>1
      <4> QED
        BY <2>6, <4>1, <4>2 DEF Mark, MarkAt, e
    <3>2. CASE e = m
      <4>1. ~ (e + 1 <= m)
        BY <2>3, <3>2
      <4>2. Mark(a) = "once"
        BY <4>1 DEF Mark, MarkAt, e
      <4>3. ASSUME e + 1 <= Len(w)
            PROVE  w[e + 1] \notin Quantifiers
        <5>1. 1 \in 1 .. n
          BY <1>1, <1>2, <3>2, <4>3
        <5>2. w[m + 1] = b[1] /\ b # <<>>
          BY <1>2, <5>1
        <5> QED
          BY <3>2, <5>2
      <4>4. Mark(w) = "once"
        BY <2>6, <4>3 DEF Mark, MarkAt
      <4> QED
        BY <4>2, <4>4
    <3> QED
      BY <2>3, <3>1, <3>2
  <2>8. Atom(w) = Atom(a)
    <3>1. 1 \in 1 .. Len(w) + 1 /\ e \in 1 - 1 .. Len(w) /\ 1 \in 1 .. Len(a) + 1 /\ e \in 1 - 1 .. Len(a)
      BY <1>1, <1>2, <2>3
    <3>2. /\ SubSeq(w, 1, e) \in Seq(Token) /\ Len(SubSeq(w, 1, e)) = e - 1 + 1
          /\ \A j \in 1 .. e - 1 + 1 : SubSeq(w, 1, e)[j] = w[1 + j - 1]
      BY <1>2, <3>1, SubSeqs
    <3>3. /\ SubSeq(a, 1, e) \in Seq(Token) /\ Len(SubSeq(a, 1, e)) = e - 1 + 1
          /\ \A j \in 1 .. e - 1 + 1 : SubSeq(a, 1, e)[j] = a[1 + j - 1]
      BY <1>1, <3>1, SubSeqs
    <3>4. \A j \in 1 .. e - 1 + 1 : 1 + j - 1 \in 1 .. m
      BY <1>1, <2>3
    <3>5. \A j \in 1 .. e - 1 + 1 : SubSeq(w, 1, e)[j] = SubSeq(a, 1, e)[j]
      BY <1>2, <3>2, <3>3, <3>4
    <3>6. SubSeq(w, 1, e) = SubSeq(a, 1, e)
      BY <3>2, <3>3, <3>5, SeqEqual
    <3> QED
      BY <2>6, <3>6 DEF Atom, e
  <2>9. Rest(w) = Rest(a) \o b
    <3> DEFINE k == IF Mark(a) = "once" THEN e + 1 ELSE e + 2
    <3>1. Rest(w) = From(w, k) /\ Rest(a) = From(a, k)
      BY <2>6, <2>7 DEF Rest, e
    <3>2. k \in 1 .. m + 1
      <4>1. Mark(a) # "once" => e < m
        BY <2>1 DEF Parted, e
      <4> QED
        BY <1>1, <2>3, <4>1
    <3> HIDE DEF k
    <3> DEFINE t == From(a, k)
               h == m - k + 1
    <3>3. k \in 1 .. Len(w) + 1 /\ Len(w) \in k - 1 .. Len(w) /\ k \in 1 .. Len(a) + 1 /\ Len(a) \in k - 1 .. Len(a)
      BY <1>1, <1>2, <3>2
    <3>4. /\ t \in Seq(Token) /\ Len(t) = h
          /\ \A j \in 1 .. h : t[j] = a[k + j - 1]
      BY <1>1, <3>3, SubSeqs DEF From
    <3>5. /\ From(w, k) \in Seq(Token) /\ Len(From(w, k)) = h + n
          /\ \A j \in 1 .. h + n : From(w, k)[j] = w[k + j - 1]
      <4>1. /\ From(w, k) \in Seq(Token) /\ Len(From(w, k)) = Len(w) - k + 1
            /\ \A j \in 1 .. Len(w) - k + 1 : From(w, k)[j] = w[k + j - 1]
        BY <1>2, <3>3, SubSeqs DEF From
      <4>2. Len(w) - k + 1 = h + n
        BY <1>1, <1>2, <3>2
      <4> QED
        BY <4>1, <4>2
    <3> HIDE DEF t
    <3>6. h \in Nat
      BY <1>1, <3>2
    <3>7. /\ t \o b \in Seq(Token) /\ Len(t \o b) = h + n
          /\ \A i \in 1 .. h : (t \o b)[i] = t[i]
          /\ \A i \in 1 .. n : (t \o b)[h + i] = b[i]
      <4>1. t \in Seq(Token) /\ Len(t) = h
        BY <3>4
      <4> HIDE DEF h
      <4>2. Glued(t, b)
        BY <1>1, <4>1, Gluing
      <4> QED
        BY <4>1, <4>2 DEF Glued
    <3>8. ASSUME NEW j \in 1 .. h + n
          PROVE  From(w, k)[j] = (t \o b)[j]
      <4>1. From(w, k)[j] = w[k + j - 1]
        BY <3>5
      <4>2. CASE j <= h
        <5>1. j \in 1 .. h /\ k + j - 1 \in 1 .. m
          BY <1>1, <3>2, <3>6, <4>2
        <5> QED
          BY <1>2, <3>4, <3>7, <4>1, <5>1
      <4>3. CASE j > h
        <5> DEFINE i == j - h
        <5>1. i \in 1 .. n /\ h + i = j /\ m + i = k + j - 1
          BY <1>1, <3>2, <3>6, <4>3
        <5> HIDE DEF i, h
        <5>2. w[m + i] = b[i] /\ (t \o b)[h + i] = b[i]
          BY <1>2, <3>7, <5>1
        <5> QED
          BY <4>1, <5>1, <5>2
      <4>4. j <= h \/ j > h
        BY <1>1, <3>6
      <4> QED
        BY <4>2, <4>3, <4>4
    <3> HIDE DEF h
    <3>9. From(w, k) = t \o b
      BY <3>5, <3>7, <3>8, SeqEqual
    <3> QED
      BY <3>1, <3>9 DEF t
  <2> QED
    BY <2>4, <2>7, <2>8, <2>9
<1> QED
  BY <1>3, <1>4, <1>5 DEF w

LEMMA Composing ==
  ASSUME NEW s, Len(s) \in Nat
  PROVE  \A a \in Seq(Token) : Whole(a) => Composes(a, s)
<1> DEFINE T == {a \in Seq(Token) : Whole(a) /\ Composes(a, s)}
<1>1. <<>> \in T
  <2>1. ASSUME NEW b \in Seq(Token), Whole(b), NEW I \in SUBSET Positions(s)
        PROVE  Ends(<<>> \o b, s, I) = Ends(b, s, Ends(<<>>, s, I))
    <3>1. <<>> \o b = b
      OBVIOUS
    <3> DEFINE r == <<>>
    <3>2. Whole(r) /\ r = <<>>
      BY EmptyIsWhole
    <3> HIDE DEF r
    <3>3. Ends(r, s, I) = I
      BY <3>2, Unfolds
    <3> QED
      BY <3>1, <3>3 DEF r
  <2> QED
    BY <2>1, EmptyIsWhole DEF Composes
<1>2. \A r \in Seq(Token) :
        Whole(r) /\ ~ NoBar(r) /\ Upto(r, FirstBar(r)) \in T /\ From(r, FirstBar(r) + 1) \in T => r \in T
  BY DEF Composes
<1>3. ASSUME NEW a \in Seq(Token), Whole(a), NoBar(a), a # <<>>, Rest(a) \in T
      PROVE  a \in T
  <2>1. Whole(Rest(a)) /\ NoBar(Rest(a)) /\ Composes(Rest(a), s)
    BY <1>3, Parting DEF Parted
  <2>2. ASSUME NEW b \in Seq(Token), Whole(b), NoBar(b), b # <<>> => b[1] \notin Quantifiers,
               NEW I \in SUBSET Positions(s)
        PROVE  Ends(a \o b, s, I) = Ends(b, s, Ends(a, s, I))
    <3> DEFINE w == a \o b
               J == Marked(a, s, I)
    <3>1. /\ Whole(w) /\ NoBar(w) /\ w # <<>> /\ Atom(w) = Atom(a) /\ Mark(w) = Mark(a)
          /\ Rest(w) = Rest(a) \o b
      BY <1>3, <2>2, AtomOfJoin
    <3>2. J \in SUBSET Positions(s) /\ Ends(a, s, I) = Ends(Rest(a), s, J)
      BY <1>3, Unfolds, MarkedIs
    <3> HIDE DEF w, J
    <3>3. Ends(w, s, I) = Ends(Rest(w), s, Marked(w, s, I))
      <4>1. Whole(w) /\ NoBar(w) /\ w # <<>> /\ I \in SUBSET Positions(s)
        BY <2>2, <3>1
      <4> QED
        BY <4>1, Unfolds
    <3>4. Marked(w, s, I) = J
      BY <3>1 DEF Marked, J
    <3>5. Ends(Rest(a) \o b, s, J) = Ends(b, s, Ends(Rest(a), s, J))
      BY <2>1, <2>2, <3>2 DEF Composes
    <3> QED
      BY <3>1, <3>2, <3>3, <3>4, <3>5 DEF w
  <2>3. Composes(a, s)
    BY <2>2 DEF Composes
  <2> QED
    BY <1>3, <2>3
<1> HIDE DEF T
<1>4. \A r \in Seq(Token) :
        Whole(r) /\ NoBar(r) /\ r # <<>> /\ Rest(r) \in T /\ (r[1] \in Openings => Inner(r) \in T) => r \in T
  BY <1>3
<1>5. \A r \in Seq(Token) : Whole(r) => r \in T
  BY <1>1, <1>2, <1>4, ByParts
<1> QED
  BY <1>5 DEF T

-----------------------------------------------------------------------------
(* Where a match leads inside the beginning of a text, it leads in that     *)
(* beginning alone                                                          *)

Before(n, s) == Len(n) \in Nat /\ Len(s) \in Nat /\ Len(n) < Len(s) /\ \A i \in 1 .. Len(n) : s[i] = n[i]
Local(r, n, s) ==
  \A I \in SUBSET Positions(s) : Ends(r, s, I) \cap Positions(n) \subseteq Ends(r, n, I \cap Positions(n))
OnceLocal(r, n, s) ==
  \A I \in SUBSET Positions(s) : OnceOf(r, s, I) \cap Positions(n) \subseteq OnceOf(r, n, I \cap Positions(n))
MarkedLocal(r, n, s) ==
  \A I \in SUBSET Positions(s) : Marked(r, s, I) \cap Positions(n) \subseteq Marked(r, n, I \cap Positions(n))

\* From more positions a match leads to no fewer.
LEMMA Growing ==
  ASSUME NEW s, Len(s) \in Nat, NEW r, Whole(r)
  PROVE  \A I \in SUBSET Positions(s) : \A J \in SUBSET Positions(s) :
           I \subseteq J => Ends(r, s, I) \subseteq Ends(r, s, J)
<1>1. Spread(r, s)
  BY Spreading DEF Whole
<1> QED
  BY <1>1 DEF Spread

LEMMA OnceGrows ==
  ASSUME NEW s, Len(s) \in Nat, NEW r, Whole(r), r # <<>>, NoBar(r)
  PROVE  \A I \in SUBSET Positions(s) : \A J \in SUBSET Positions(s) :
           I \subseteq J => OnceOf(r, s, I) \subseteq OnceOf(r, s, J)
<1>1. r[1] \in Openings => Spread(Inner(r), s)
  <2>1. Parted(r)
    BY Parting
  <2> QED
    BY <2>1, Spreading DEF Parted, Whole
<1>2. OnceSpread(r, s)
  BY <1>1, OnceSpreads
<1> QED
  BY <1>2 DEF OnceSpread

LEMMA OnceStaysLocal ==
  ASSUME NEW n, NEW s, Before(n, s), NEW r, Whole(r), r # <<>>, NoBar(r),
         r[1] \in Openings => Local(Inner(r), n, s)
  PROVE  OnceLocal(r, n, s)
<1>1. Len(n) \in Nat /\ Len(s) \in Nat /\ Len(n) < Len(s) /\ \A i \in 1 .. Len(n) : s[i] = n[i]
  BY DEF Before
<1>2. \A J \in SUBSET Positions(s) :
        /\ r[1] \in Openings => OnceOf(r, s, J) = Ends(Inner(r), s, J)
        /\ r[1] = "^" => OnceOf(r, s, J) = J \cap {1}
        /\ r[1] = "$" => OnceOf(r, s, J) = J \cap {Len(s) + 1}
        /\ r[1] \notin Openings \cup Assertions => OnceOf(r, s, J) = Taking(r, s, J)
  BY <1>1, OnceIs
<1>3. \A J \in SUBSET Positions(n) :
        /\ r[1] \in Openings => OnceOf(r, n, J) = Ends(Inner(r), n, J)
        /\ r[1] = "^" => OnceOf(r, n, J) = J \cap {1}
        /\ r[1] \notin Openings \cup Assertions => OnceOf(r, n, J) = Taking(r, n, J)
  BY <1>1, OnceIs
<1>4. ASSUME NEW I \in SUBSET Positions(s), NEW e \in OnceOf(r, s, I), e \in Positions(n)
      PROVE  e \in OnceOf(r, n, I \cap Positions(n))
  <2> DEFINE K == I \cap Positions(n)
  <2>1. K \in SUBSET Positions(n)
    OBVIOUS
  <2>2. CASE r[1] \in Openings
    <3>1. e \in Ends(Inner(r), s, I) /\ OnceOf(r, n, K) = Ends(Inner(r), n, K)
      BY <1>2, <1>3, <1>4, <2>1, <2>2
    <3> QED
      BY <1>4, <2>2, <3>1 DEF Local
  <2>3. CASE r[1] = "^"
    <3>1. e \in I /\ e = 1 /\ OnceOf(r, n, K) = K \cap {1}
      BY <1>2, <1>3, <1>4, <2>1, <2>3
    <3> QED
      BY <1>4, <3>1
  <2>4. CASE r[1] = "$"
    <3>1. e = Len(s) + 1
      BY <1>2, <1>4, <2>4
    <3> QED
      BY <1>1, <1>4, <3>1 DEF Positions
  <2>5. CASE r[1] \notin Openings \cup Assertions
    <3>1. e \in Taking(r, s, I) /\ OnceOf(r, n, K) = Taking(r, n, K)
      BY <1>2, <1>3, <1>4, <2>1, <2>5
    <3>2. PICK j \in I : e = j + 1 /\ j <= Len(s) /\ Admits(r, s[j])
      BY <3>1 DEF Taking
    <3>3. j \in 1 .. Len(n)
      BY <1>1, <1>4, <3>2 DEF Positions
    <3>4. s[j] = n[j] /\ j \in K /\ j <= Len(n)
      BY <1>1, <3>2, <3>3 DEF Positions
    <3>5. e \in Taking(r, n, K)
      BY <3>2, <3>4 DEF Taking
    <3> QED
      BY <3>1, <3>5
  <2> QED
    BY <2>2, <2>3, <2>4, <2>5 DEF Assertions
<1> QED
  BY <1>4 DEF OnceLocal

LEMMA MarkedStaysLocal ==
  ASSUME NEW n, NEW s, Before(n, s), NEW r, Whole(r), r # <<>>, NoBar(r), OnceLocal(r, n, s)
  PROVE  MarkedLocal(r, n, s)
<1> DEFINE P == Positions(s)
           Q == Positions(n)
<1>1. Len(n) \in Nat /\ Len(s) \in Nat
  BY DEF Before
<1>2. \A I \in SUBSET P : \A X :
        I \subseteq X /\ (\A J \in SUBSET P : J \subseteq X => OnceOf(r, s, J) \subseteq X)
          => Repeated(r, s, I) \subseteq X
  BY <1>1, RepeatedIs
<1>3. \A I \in SUBSET Q : /\ Repeated(r, n, I) \in SUBSET Q /\ I \subseteq Repeated(r, n, I)
                          /\ OnceOf(r, n, Repeated(r, n, I)) \subseteq Repeated(r, n, I)
  BY <1>1, RepeatedIs
<1>4. \A I \in SUBSET Q : \A J \in SUBSET Q : I \subseteq J => OnceOf(r, n, I) \subseteq OnceOf(r, n, J)
  BY <1>1, OnceGrows
<1>5. \A I \in SUBSET P : OnceOf(r, s, I) \cap Q \subseteq OnceOf(r, n, I \cap Q)
  BY DEF OnceLocal
<1>6. \A I \in SUBSET P :
        /\ OnceOf(r, s, I) \in SUBSET P
        /\ \/ Mark(r) = "once" /\ Marked(r, s, I) = OnceOf(r, s, I)
           \/ Mark(r) = "?" /\ Marked(r, s, I) = I \cup OnceOf(r, s, I)
           \/ Mark(r) = "*" /\ Marked(r, s, I) = Repeated(r, s, I)
           \/ Mark(r) = "+" /\ Marked(r, s, I) = Repeated(r, s, OnceOf(r, s, I))
  BY <1>1, MarkedIs
<1>7. \A I \in SUBSET Q :
        /\ OnceOf(r, n, I) \in SUBSET Q
        /\ \/ Mark(r) = "once" /\ Marked(r, n, I) = OnceOf(r, n, I)
           \/ Mark(r) = "?" /\ Marked(r, n, I) = I \cup OnceOf(r, n, I)
           \/ Mark(r) = "*" /\ Marked(r, n, I) = Repeated(r, n, I)
           \/ Mark(r) = "+" /\ Marked(r, n, I) = Repeated(r, n, OnceOf(r, n, I))
  BY <1>1, MarkedIs
<1> HIDE DEF P, Q
\* A repetition leads where one from any K that holds those inside does.
<1>8. ASSUME NEW I \in SUBSET P, NEW K \in SUBSET Q, I \cap Q \subseteq K
      PROVE  Repeated(r, s, I) \cap Q \subseteq Repeated(r, n, K)
  <2> DEFINE R == Repeated(r, n, K)
             X == {x \in I \cup P : x \in Q => x \in R}
  <2>1. R \in SUBSET Q /\ K \subseteq R /\ OnceOf(r, n, R) \subseteq R
    BY <1>3, <1>8
  <2> HIDE DEF R
  <2>2. I \subseteq X
    BY <1>8, <2>1
  <2>3. ASSUME NEW J \in SUBSET P, J \subseteq X
        PROVE  OnceOf(r, s, J) \subseteq X
    <3>1. OnceOf(r, s, J) \in SUBSET P
      BY <1>6
    <3>2. J \cap Q \subseteq R /\ J \cap Q \in SUBSET Q
      BY <2>3
    <3>3. OnceOf(r, n, J \cap Q) \subseteq OnceOf(r, n, R)
      BY <1>4, <2>1, <3>2
    <3>4. OnceOf(r, s, J) \cap Q \subseteq OnceOf(r, n, J \cap Q)
      BY <1>5
    <3> QED
      BY <2>1, <3>1, <3>3, <3>4
  <2>4. Repeated(r, s, I) \subseteq X
    <3> HIDE DEF X
    <3> QED
      BY <1>2, <2>2, <2>3
  <2> QED
    BY <2>4 DEF R
<1>9. ASSUME NEW I \in SUBSET P
      PROVE  Marked(r, s, I) \cap Q \subseteq Marked(r, n, I \cap Q)
  <2> DEFINE K == I \cap Q
  <2>1. K \in SUBSET Q /\ I \cap Q \subseteq K
    OBVIOUS
  <2>2. OnceOf(r, s, I) \cap Q \subseteq OnceOf(r, n, K)
    BY <1>5
  <2> HIDE DEF K
  <2>3. Repeated(r, s, I) \cap Q \subseteq Repeated(r, n, K)
    BY <1>8, <2>1
  <2>4. Repeated(r, s, OnceOf(r, s, I)) \cap Q \subseteq Repeated(r, n, OnceOf(r, n, K))
    <3> DEFINE U == OnceOf(r, s, I)
               V == OnceOf(r, n, K)
    <3>1. U \in SUBSET P /\ V \in SUBSET Q /\ U \cap Q \subseteq V
      BY <1>6, <1>7, <2>1, <2>2
    <3> HIDE DEF U, V
    <3>2. Repeated(r, s, U) \cap Q \subseteq Repeated(r, n, V)
      BY <1>8, <3>1
    <3> QED
      BY <3>2 DEF U, V
  <2>5. /\ \/ Mark(r) = "once" /\ Marked(r, s, I) = OnceOf(r, s, I)
           \/ Mark(r) = "?" /\ Marked(r, s, I) = I \cup OnceOf(r, s, I)
           \/ Mark(r) = "*" /\ Marked(r, s, I) = Repeated(r, s, I)
           \/ Mark(r) = "+" /\ Marked(r, s, I) = Repeated(r, s, OnceOf(r, s, I))
        /\ \/ Mark(r) = "once" /\ Marked(r, n, K) = OnceOf(r, n, K)
           \/ Mark(r) = "?" /\ Marked(r, n, K) = K \cup OnceOf(r, n, K)
           \/ Mark(r) = "*" /\ Marked(r, n, K) = Repeated(r, n, K)
           \/ Mark(r) = "+" /\ Marked(r, n, K) = Repeated(r, n, OnceOf(r, n, K))
    BY <1>6, <1>7, <2>1
  <2>6. Marked(r, s, I) \cap Q \subseteq Marked(r, n, K)
    BY <2>1, <2>2, <2>3, <2>4, <2>5
  <2> QED
    BY <2>6 DEF K
<1> QED
  BY <1>9 DEF MarkedLocal, P, Q

LEMMA Locality ==
  ASSUME NEW n, NEW s, Before(n, s)
  PROVE  \A r \in Seq(Token) : Whole(r) => Local(r, n, s)
<1> DEFINE T == {r \in Seq(Token) : Whole(r) /\ Local(r, n, s)}
           P == Positions(s)
           Q == Positions(n)
<1>0. Len(n) \in Nat /\ Len(s) \in Nat
  BY DEF Before
<1>1. <<>> \in T
  <2> DEFINE r == <<>>
  <2>1. r \in Seq(Token) /\ Whole(r)
    BY EmptyIsWhole
  <2> HIDE DEF r
  <2>2. /\ \A I \in SUBSET P : Ends(r, s, I) = I
        /\ \A I \in SUBSET Q : Ends(r, n, I) = I
    BY <1>0, <2>1, Unfolds DEF r
  <2>3. Local(r, n, s)
    BY <2>2 DEF Local
  <2> QED
    BY <2>1, <2>3 DEF r
<1>2. ASSUME NEW r \in Seq(Token), Whole(r), ~ NoBar(r), Upto(r, FirstBar(r)) \in T, From(r, FirstBar(r) + 1) \in T
      PROVE  r \in T
  <2> DEFINE x == Upto(r, FirstBar(r))
             y == From(r, FirstBar(r) + 1)
  <2>1. /\ \A I \in SUBSET P : Ends(r, s, I) = Ends(x, s, I) \cup Ends(y, s, I)
        /\ \A I \in SUBSET Q : Ends(r, n, I) = Ends(x, n, I) \cup Ends(y, n, I)
    BY <1>0, <1>2, Unfolds
  <2>2. Local(x, n, s) /\ Local(y, n, s)
    BY <1>2
  <2> HIDE DEF x, y
  <2>3. ASSUME NEW I \in SUBSET P
        PROVE  Ends(r, s, I) \cap Q \subseteq Ends(r, n, I \cap Q)
    <3> DEFINE K == I \cap Q
    <3>1. K \in SUBSET Q
      OBVIOUS
    <3>2. Ends(x, s, I) \cap Q \subseteq Ends(x, n, K) /\ Ends(y, s, I) \cap Q \subseteq Ends(y, n, K)
      BY <2>2 DEF Local
    <3> HIDE DEF K
    <3>3. Ends(r, n, K) = Ends(x, n, K) \cup Ends(y, n, K)
      BY <2>1, <3>1
    <3>4. Ends(r, s, I) \cap Q \subseteq Ends(r, n, K)
      BY <2>1, <3>2, <3>3
    <3> QED
      BY <3>4 DEF K
  <2>4. Local(r, n, s)
    BY <2>3 DEF Local
  <2> QED
    BY <1>2, <2>4
<1>3. ASSUME NEW r \in Seq(Token), Whole(r), NoBar(r), r # <<>>, Rest(r) \in T, r[1] \in Openings => Inner(r) \in T
      PROVE  r \in T
  <2>1. Local(Rest(r), n, s) /\ Whole(Rest(r))
    BY <1>3
  <2>2. MarkedLocal(r, n, s)
    BY <1>3, OnceStaysLocal, MarkedStaysLocal
  <2>3. /\ \A I \in SUBSET P :
             Ends(r, s, I) = Ends(Rest(r), s, Marked(r, s, I)) /\ Marked(r, s, I) \in SUBSET P
        /\ \A I \in SUBSET Q :
             Ends(r, n, I) = Ends(Rest(r), n, Marked(r, n, I)) /\ Marked(r, n, I) \in SUBSET Q
    BY <1>0, <1>3, Unfolds, MarkedIs
  <2>4. \A I \in SUBSET Q : \A J \in SUBSET Q : I \subseteq J => Ends(Rest(r), n, I) \subseteq Ends(Rest(r), n, J)
    BY <1>0, <2>1, Growing
  <2>5. ASSUME NEW I \in SUBSET P
        PROVE  Ends(r, s, I) \cap Q \subseteq Ends(r, n, I \cap Q)
    <3> DEFINE K == I \cap Q
               M == Marked(r, s, I)
               W == M \cap Q
               V == Marked(r, n, K)
    <3>1. K \in SUBSET Q /\ W \in SUBSET Q
      OBVIOUS
    <3>2. W \subseteq V
      BY <2>2 DEF MarkedLocal
    <3>3. M \in SUBSET P /\ Ends(r, s, I) = Ends(Rest(r), s, M)
      BY <2>3
    <3>4. V \in SUBSET Q /\ Ends(r, n, K) = Ends(Rest(r), n, V)
      BY <2>3, <3>1
    <3>5. Ends(Rest(r), s, M) \cap Q \subseteq Ends(Rest(r), n, W)
      BY <2>1, <3>3 DEF Local
    <3> HIDE DEF K, M, W, V
    <3>6. Ends(Rest(r), n, W) \subseteq Ends(Rest(r), n, V)
      BY <2>4, <3>1, <3>2, <3>4
    <3>7. Ends(r, s, I) \cap Q \subseteq Ends(r, n, K)
      BY <3>3, <3>4, <3>5, <3>6
    <3> QED
      BY <3>7 DEF K
  <2>6. Local(r, n, s)
    BY <2>5 DEF Local
  <2> QED
    BY <1>3, <2>6
<1> HIDE DEF T
<1>4. \A r \in Seq(Token) : Whole(r) => r \in T
  BY <1>1, <1>2, <1>3, ByParts
<1> QED
  BY <1>4 DEF T

-----------------------------------------------------------------------------
(* An expression that takes no colon leads nowhere past one *)

\* X holds the positions up to a colon.
Fenced(X, s) == \A j \in X \cap (1 .. Len(s)) : s[j] # ":" => j + 1 \in X
Inside(r, s, X) ==
  WithoutColon(r) => \A I \in SUBSET Positions(s) : I \subseteq X => Ends(r, s, I) \subseteq X

\* What an expression does not write, no part of it does.
LEMMA PartsWithoutColon ==
  ASSUME NEW r, Whole(r), WithoutColon(r), NEW x \in 1 .. Len(r) + 1, NEW y \in x - 1 .. Len(r)
  PROVE  WithoutColon(SubSeq(r, x, y))
<1> DEFINE t == SubSeq(r, x, y)
           M == y - x + 1
<1>1. r \in Seq(Token) /\ Len(r) \in Nat
  BY DEF Whole
<1>2. Len(t) = M /\ \A j \in 1 .. M : t[j] = r[x + j - 1]
  BY <1>1, SubSeqs
<1>3. \A j \in 1 .. M : x + j - 1 \in 1 .. Len(r)
  BY <1>1
<1> HIDE DEF t, M
<1>4. WithoutColon(t)
  BY <1>2, <1>3 DEF WithoutColon
<1> QED
  BY <1>4 DEF t

LEMMA OnceStaysInside ==
  ASSUME NEW s, Len(s) \in Nat, NEW X, Fenced(X, s), NEW r, Whole(r), r # <<>>, NoBar(r), WithoutColon(r),
         r[1] \in Openings => \A J \in SUBSET Positions(s) : J \subseteq X => Ends(Inner(r), s, J) \subseteq X
  PROVE  \A J \in SUBSET Positions(s) : J \subseteq X => OnceOf(r, s, J) \subseteq X
<1>1. \A J \in SUBSET Positions(s) :
        /\ r[1] \in Openings => OnceOf(r, s, J) = Ends(Inner(r), s, J)
        /\ r[1] = "^" => OnceOf(r, s, J) = J \cap {1}
        /\ r[1] = "$" => OnceOf(r, s, J) = J \cap {Len(s) + 1}
        /\ r[1] \notin Openings \cup Assertions => OnceOf(r, s, J) = Taking(r, s, J)
  BY OnceIs
<1>2. ~ Admits(r, ":")
  <2> DEFINE a == Atom(r)
             e == AtomEnd(r)
  <2>1. Parted(r) /\ r \in Seq(Token) /\ Len(r) \in Nat
    BY Parting DEF Whole
  <2>2. e \in 1 .. Len(r)
    BY <2>1 DEF Parted, AtomIs
  <2>3. a \in Seq(Token) /\ WithoutColon(a) /\ a[1] = r[1]
    <3>1. 1 \in 1 .. Len(r) + 1 /\ e \in 1 - 1 .. Len(r)
      BY <2>1, <2>2
    <3>2. WithoutColon(SubSeq(r, 1, e))
      BY <3>1, PartsWithoutColon
    <3>3. SubSeq(r, 1, e) \in Seq(Token) /\ SubSeq(r, 1, e)[1] = r[1]
      BY <2>1 DEF Parted
    <3> QED
      BY <3>2, <3>3 DEF Atom
  <2> HIDE DEF a
  <2>4. \A k \in 1 .. Len(a) : Chars(a[k]) # ":"
    BY <2>3 DEF WithoutColon
  <2>5. r[1] \notin {".", "[^"} /\ Chars(r[1]) # ":"
    <3>1. 1 \in 1 .. Len(r)
      BY <2>1, <2>2
    <3> QED
      BY <3>1 DEF WithoutColon
  <2>6. ":" \notin {Chars(a[k]) : k \in 2 .. Len(a) - 1}
    BY <2>3, <2>4
  <2>7. CASE r[1] \in ClassOpenings
    <3>1. r[1] = "["
      BY <2>5, <2>7 DEF ClassOpenings
    <3> QED
      BY <2>6, <3>1 DEF Admits, a, ClassOpenings
  <2>8. CASE r[1] \notin ClassOpenings
    BY <2>5, <2>8 DEF Admits, Digits
  <2> QED
    BY <2>7, <2>8
<1>3. ASSUME NEW J \in SUBSET Positions(s), J \subseteq X, NEW e \in OnceOf(r, s, J)
      PROVE  e \in X
  <2>1. CASE r[1] \in Openings
    BY <1>1, <1>3, <2>1
  <2>2. CASE r[1] \in Assertions
    <3>1. e \in J
      BY <1>1, <1>3, <2>2 DEF Assertions
    <3> QED
      BY <1>3, <3>1
  <2>3. CASE r[1] \notin Openings \cup Assertions
    <3>1. e \in Taking(r, s, J)
      BY <1>1, <1>3, <2>3
    <3>2. PICK j \in J : e = j + 1 /\ j <= Len(s) /\ Admits(r, s[j])
      BY <3>1 DEF Taking
    <3>3. j \in X \cap (1 .. Len(s)) /\ s[j] # ":"
      BY <1>2, <1>3, <3>2 DEF Positions
    <3> QED
      BY <3>2, <3>3 DEF Fenced
  <2> QED
    BY <2>1, <2>2, <2>3
<1> QED
  BY <1>3

LEMMA StayingInside ==
  ASSUME NEW s, Len(s) \in Nat, NEW X, Fenced(X, s)
  PROVE  \A r \in Seq(Token) : Whole(r) => Inside(r, s, X)
<1> DEFINE T == {r \in Seq(Token) : Whole(r) /\ Inside(r, s, X)}
           P == Positions(s)
<1>1. <<>> \in T
  <2> DEFINE r == <<>>
  <2>1. r \in Seq(Token) /\ Whole(r)
    BY EmptyIsWhole
  <2> HIDE DEF r
  <2>2. \A I \in SUBSET P : Ends(r, s, I) = I
    BY <2>1, Unfolds DEF r
  <2>3. Inside(r, s, X)
    BY <2>2 DEF Inside
  <2> QED
    BY <2>1, <2>3 DEF r
<1>2. ASSUME NEW r \in Seq(Token), Whole(r), ~ NoBar(r), Upto(r, FirstBar(r)) \in T, From(r, FirstBar(r) + 1) \in T
      PROVE  r \in T
  <2> DEFINE b == FirstBar(r)
             x == Upto(r, b)
             y == From(r, b + 1)
  <2>1. \A I \in SUBSET P : Ends(r, s, I) = Ends(x, s, I) \cup Ends(y, s, I)
    BY <1>2, Unfolds
  <2>2. Inside(x, s, X) /\ Inside(y, s, X)
    BY <1>2
  <2>3. ASSUME WithoutColon(r)
        PROVE  WithoutColon(x) /\ WithoutColon(y)
    <3>1. b \in 1 .. Len(r)
      BY <1>2, AlternativesAreWhole
    <3> HIDE DEF b
    <3>2. Len(r) \in Nat /\ 1 \in 1 .. Len(r) + 1 /\ b - 1 \in 1 - 1 .. Len(r)
          /\ b + 1 \in 1 .. Len(r) + 1 /\ Len(r) \in b + 1 - 1 .. Len(r)
      BY <1>2, <3>1
    <3>3. WithoutColon(SubSeq(r, 1, b - 1)) /\ WithoutColon(SubSeq(r, b + 1, Len(r)))
      BY <1>2, <2>3, <3>2, PartsWithoutColon
    <3> QED
      BY <3>3 DEF Upto, From
  <2> HIDE DEF x, y
  <2>4. Inside(r, s, X)
    BY <2>1, <2>2, <2>3 DEF Inside
  <2> QED
    BY <1>2, <2>4
<1>3. ASSUME NEW r \in Seq(Token), Whole(r), NoBar(r), r # <<>>, Rest(r) \in T, r[1] \in Openings => Inner(r) \in T
      PROVE  r \in T
  <2>1. Inside(Rest(r), s, X) /\ (r[1] \in Openings => Inside(Inner(r), s, X))
    BY <1>3
  <2>2. Parted(r) /\ Len(r) \in Nat
    BY <1>3, Parting
  <2>3. ASSUME WithoutColon(r)
        PROVE  WithoutColon(Rest(r)) /\ (r[1] \in Openings => WithoutColon(Inner(r)))
    <3> DEFINE e == AtomEnd(r)
               k == IF Mark(r) = "once" THEN e + 1 ELSE e + 2
    <3>1. e \in 1 .. Len(r) /\ (Mark(r) # "once" => e < Len(r))
      BY <2>2 DEF Parted, AtomIs
    <3>2. k \in 1 .. Len(r) + 1 /\ Len(r) \in k - 1 .. Len(r)
      BY <2>2, <3>1
    <3>3. Rest(r) = SubSeq(r, k, Len(r))
      BY DEF Rest, From
    <3> HIDE DEF k
    <3>4. WithoutColon(Rest(r))
      BY <1>3, <2>3, <3>2, <3>3, PartsWithoutColon
    <3>5. ASSUME r[1] \in Openings
          PROVE  WithoutColon(Inner(r))
      <4>1. e \in 2 .. Len(r)
        BY <2>2, <3>5 DEF Parted
      <4> HIDE DEF e
      <4>2. 2 \in 1 .. Len(r) + 1 /\ e - 1 \in 2 - 1 .. Len(r)
        BY <2>2, <4>1
      <4>3. WithoutColon(SubSeq(r, 2, e - 1))
        BY <1>3, <2>3, <4>2, PartsWithoutColon
      <4> QED
        BY <4>3 DEF Inner, e
    <3> QED
      BY <3>4, <3>5
  <2>4. \A I \in SUBSET P :
          /\ OnceOf(r, s, I) \in SUBSET P
          /\ Marked(r, s, I) \in SUBSET P
          /\ \/ Marked(r, s, I) = OnceOf(r, s, I)
             \/ Marked(r, s, I) = I \cup OnceOf(r, s, I)
             \/ Marked(r, s, I) = Repeated(r, s, I)
             \/ Marked(r, s, I) = Repeated(r, s, OnceOf(r, s, I))
          /\ Ends(r, s, I) = Ends(Rest(r), s, Marked(r, s, I))
    BY <1>3, MarkedIs, Unfolds
  <2>5. \A I \in SUBSET P :
          I \subseteq X /\ (\A J \in SUBSET P : J \subseteq X => OnceOf(r, s, J) \subseteq X)
            => Repeated(r, s, I) \subseteq X
    BY <1>3, RepeatedIs
  <2>6. ASSUME WithoutColon(r), NEW I \in SUBSET P, I \subseteq X
        PROVE  Ends(r, s, I) \subseteq X
    <3>1. WithoutColon(Rest(r)) /\ (r[1] \in Openings => WithoutColon(Inner(r)))
      BY <2>3, <2>6
    <3>2. r[1] \in Openings => \A J \in SUBSET P : J \subseteq X => Ends(Inner(r), s, J) \subseteq X
      BY <2>1, <3>1 DEF Inside
    <3>3. \A J \in SUBSET P : J \subseteq X => OnceOf(r, s, J) \subseteq X
      BY <1>3, <2>6, <3>2, OnceStaysInside
    <3>4. OnceOf(r, s, I) \in SUBSET P /\ OnceOf(r, s, I) \subseteq X
      BY <2>4, <2>6, <3>3
    <3>5. Repeated(r, s, I) \subseteq X /\ Repeated(r, s, OnceOf(r, s, I)) \subseteq X
      BY <2>5, <2>6, <3>3, <3>4
    <3>6. Marked(r, s, I) \subseteq X /\ Marked(r, s, I) \in SUBSET P
      BY <2>4, <2>6, <3>4, <3>5
    <3>7. Ends(Rest(r), s, Marked(r, s, I)) \subseteq X
      BY <2>1, <3>1, <3>6 DEF Inside
    <3> QED
      BY <2>4, <3>7
  <2>7. Inside(r, s, X)
    BY <2>6 DEF Inside
  <2> QED
    BY <1>3, <2>7
<1> HIDE DEF T
<1>4. \A r \in Seq(Token) : Whole(r) => r \in T
  BY <1>1, <1>2, <1>3, ByParts
<1> QED
  BY <1>4 DEF T

-----------------------------------------------------------------------------
(* Anchors *)

\* A single anchor.
LEMMA AnAnchor ==
  ASSUME NEW t \in Assertions
  PROVE  /\ <<t>> \in Seq(Token) /\ Whole(<<t>>) /\ NoBar(<<t>>)
         /\ \A s : Len(s) \in Nat => \A I \in SUBSET Positions(s) :
              /\ t = "^" => Ends(<<t>>, s, I) = I \cap {1}
              /\ t = "$" => Ends(<<t>>, s, I) = I \cap {Len(s) + 1}
<1> DEFINE r == <<t>>
<1>1. /\ r \in Seq(Token) /\ Len(r) = 1 /\ r[1] = t /\ r # <<>>
      /\ t \notin Openings \cup ClassOpenings \cup Quantifiers /\ t # ")" /\ t # "|" /\ t \notin {"\\Q", "\\E"}
  <2>1. t \in Token
    BY CharacterAssumption DEF Assertions, Token, Meta
  <2>2. t \notin Openings \cup ClassOpenings \cup Quantifiers /\ t # ")" /\ t # "|" /\ t \notin {"\\Q", "\\E"}
    BY DEF Assertions, Openings, ClassOpenings, Quantifiers
  <2> QED
    BY <2>1, <2>2
<1> HIDE DEF r
<1>2. /\ Place(r, 1) = "out"
      /\ \A i \in 2 .. Len(r) + 1 : Place(r, i) = Standing(r, "PCRE2", i, Place(r, i - 1))
  BY <1>1, Places DEF Place
<1>3. Place(r, 2) = "out"
  <2>1. Place(r, 2) = Standing(r, "PCRE2", 2, "out")
    BY <1>1, <1>2
  <2>2. r[2 - 1] = t
    BY <1>1
  <2> QED
    BY <1>1, <2>1, <2>2 DEF Standing
<1>4. Level(r, 1) = 0 /\ Level(r, 2) = 0
  <2>1. Level(r, 1) = 0 /\ Level(r, 1 + 1) = Level(r, 1) + Rise(r, 1)
    BY <1>1, Levels
  <2>2. Rise(r, 1) = 0
    BY <1>1 DEF Rise
  <2> QED
    BY <2>1, <2>2
<1>5. checkEscapes(r)
  BY <1>1 DEF checkEscapes
<1>6. Whole(r)
  <2>1. Balanced(r)
    <3>1. \A i \in 1 .. Len(r) : i = 1
      BY <1>1
    <3>2. Len(r) + 1 = 2
      BY <1>1
    <3> QED
      BY <1>1, <1>3, <1>4, <3>1, <3>2 DEF Balanced, Out
  <2> QED
    BY <1>1, <1>5, <2>1, WholeIsBalanced
<1>7. NoBar(r)
  <2>1. \A i \in 1 .. Len(r) : r[i] # "|"
    BY <1>1
  <2> QED
    BY <2>1 DEF NoBar, Bars
<1>8. AtomEnd(r) = 1 /\ Mark(r) = "once" /\ Rest(r) = <<>>
  <2>1. Parted(r) /\ AtomEnd(r) \in 1 .. Len(r)
    BY <1>1, <1>6, <1>7, Parting DEF Parted, AtomIs
  <2>2. AtomEnd(r) = 1
    BY <1>1, <2>1
  <2>3. Mark(r) = "once"
    BY <1>1, <2>1, <2>2 DEF Parted
  <2>4. Rest(r) \in Seq(Token) /\ Len(Rest(r)) = 0
    BY <1>1, <2>1, <2>2, <2>3 DEF Parted, Whole
  <2> QED
    BY <2>2, <2>3, <2>4
<1>9. ASSUME NEW s, Len(s) \in Nat, NEW I \in SUBSET Positions(s)
      PROVE  /\ t = "^" => Ends(r, s, I) = I \cap {1}
             /\ t = "$" => Ends(r, s, I) = I \cap {Len(s) + 1}
  <2>1. Ends(r, s, I) = Ends(Rest(r), s, Marked(r, s, I))
    BY <1>1, <1>6, <1>7, <1>9, Unfolds
  <2>2. Marked(r, s, I) \in SUBSET Positions(s) /\ Marked(r, s, I) = OnceOf(r, s, I)
    BY <1>1, <1>6, <1>7, <1>8, <1>9, MarkedIs
  <2>3. Ends(Rest(r), s, Marked(r, s, I)) = Marked(r, s, I)
    <3> DEFINE q == <<>>
    <3>1. q = <<>> /\ Whole(q) /\ Rest(r) = q
      BY <1>8, EmptyIsWhole
    <3> HIDE DEF q
    <3> QED
      BY <1>9, <2>2, <3>1, Unfolds
  <2>4. /\ r[1] = "^" => OnceOf(r, s, I) = I \cap {1}
        /\ r[1] = "$" => OnceOf(r, s, I) = I \cap {Len(s) + 1}
    BY <1>1, <1>6, <1>7, <1>9, OnceIs
  <2> QED
    BY <1>1, <2>1, <2>2, <2>3, <2>4
<1> QED
  BY <1>1, <1>6, <1>7, <1>9 DEF r

\* An expression that begins with an anchor matches from the beginning only.
LEMMA BeginsAnchored ==
  ASSUME NEW s, Len(s) \in Nat, NEW r, Whole(r), NoBar(r), r # <<>>, r[1] = "^"
  PROVE  /\ \A I \in SUBSET Positions(s) : Ends(r, s, I) = Ends(r, s, I \cap {1})
         /\ Whole(Tail(r)) /\ NoBar(Tail(r))
         /\ \A I \in SUBSET Positions(s) : Ends(r, s, I) = Ends(Tail(r), s, I \cap {1})
         /\ Tail(r) # <<>> => Tail(r)[1] \notin Quantifiers
<1>1. Parted(r) /\ r \in Seq(Token) /\ Len(r) \in Nat
  BY Parting DEF Whole
<1>2. AtomEnd(r) = 1 /\ Mark(r) = "once" /\ Len(r) >= 1
  <2>1. IsOver(r, 1)
    BY FirstRises DEF Openings, ClassOpenings
  <2>2. AtomIs(r, AtomEnd(r))
    BY <1>1 DEF Parted
  <2>3. AtomEnd(r) = 1 /\ Len(r) >= 1
    BY <1>1, <2>1, <2>2 DEF AtomIs
  <2>4. ASSUME Mark(r) # "once"
        PROVE  FALSE
    <3>1. 1 + 1 \in 1 .. Len(r) /\ r[1 + 1] \in Quantifiers
      BY <1>1, <2>3, <2>4 DEF Parted
    <3>2. Balanced(r) /\ Out(r, 1 + 1)
      BY <2>1, WholeIsBalanced DEF IsOver, Whole
    <3>3. r[(1 + 1) - 1] \notin Unrepeatable
      BY <3>1, <3>2 DEF Balanced
    <3> QED
      BY <3>3 DEF Unrepeatable, Assertions
  <2> QED
    BY <2>3, <2>4
<1>3. Rest(r) = Tail(r)
  <2>1. Rest(r) = SubSeq(r, 2, Len(r))
    BY <1>2 DEF Rest, From
  <2>2. 2 \in 1 .. Len(r) + 1 /\ Len(r) \in 2 - 1 .. Len(r)
    BY <1>1, <1>2
  <2>3. SubSeq(r, 2, Len(r)) \in Seq(Token) /\ Len(SubSeq(r, 2, Len(r))) = Len(r) - 2 + 1
        /\ \A j \in 1 .. Len(r) - 2 + 1 : SubSeq(r, 2, Len(r))[j] = r[2 + j - 1]
    BY <1>1, <2>2, SubSeqs
  <2>4. Tail(r) \in Seq(Token) /\ Len(Tail(r)) = Len(r) - 1 /\ \A j \in 1 .. Len(r) - 1 : Tail(r)[j] = r[j + 1]
    BY <1>1, <1>2
  <2> DEFINE u == SubSeq(r, 2, Len(r))
             v == Tail(r)
  <2>5. \A j \in 1 .. Len(u) : u[j] = v[j]
    BY <1>1, <2>3, <2>4
  <2>6. u \in Seq(Token) /\ v \in Seq(Token) /\ Len(u) = Len(v)
    BY <1>1, <2>3, <2>4
  <2> HIDE DEF u, v
  <2>7. u = v
    BY <2>5, <2>6, SeqEqual
  <2> QED
    BY <2>1, <2>7 DEF u, v
<1>4. \A I \in SUBSET Positions(s) : Marked(r, s, I) = I \cap {1} /\ Ends(r, s, I) = Ends(Tail(r), s, I \cap {1})
  <2>1. ASSUME NEW I \in SUBSET Positions(s)
        PROVE  Marked(r, s, I) = I \cap {1} /\ Ends(r, s, I) = Ends(Tail(r), s, I \cap {1})
    <3>1. Marked(r, s, I) = OnceOf(r, s, I)
      BY <1>2, MarkedIs
    <3>2. OnceOf(r, s, I) = I \cap {1}
      BY OnceIs
    <3>3. Ends(r, s, I) = Ends(Rest(r), s, Marked(r, s, I))
      BY Unfolds
    <3> QED
      BY <1>3, <3>1, <3>2, <3>3
  <2> QED
    BY <2>1
<1>5. ASSUME NEW I \in SUBSET Positions(s)
      PROVE  Ends(r, s, I) = Ends(r, s, I \cap {1})
  <2> DEFINE J == I \cap {1}
  <2>1. J \in SUBSET Positions(s) /\ J \cap {1} = J
    OBVIOUS
  <2> HIDE DEF J
  <2>2. Ends(r, s, J) = Ends(Tail(r), s, J)
    BY <1>4, <2>1
  <2>3. Ends(r, s, I) = Ends(Tail(r), s, J)
    BY <1>4 DEF J
  <2> QED
    BY <2>2, <2>3 DEF J
<1>6. Whole(Tail(r)) /\ NoBar(Tail(r))
  BY <1>1, <1>3 DEF Parted
<1>7. Tail(r) # <<>> => Tail(r)[1] \notin Quantifiers
  <2>1. ASSUME Tail(r) # <<>>
        PROVE  Tail(r)[1] \notin Quantifiers
    <3> DEFINE v == Tail(r)
    <3>1. Whole(v) /\ v # <<>>
      BY <1>6, <2>1
    <3> HIDE DEF v
    <3>2. v[1] \notin Quantifiers
      BY <3>1, FirstRises
    <3> QED
      BY <3>2 DEF v
  <2> QED
    BY <2>1
<1> QED
  BY <1>4, <1>5, <1>6, <1>7

\* One that ends with an anchor leaves the text at its end only.
LEMMA EndsWithAnchor ==
  ASSUME NEW s, Len(s) \in Nat, NEW r, Whole(r), NoBar(r), r # <<>>, r[Len(r)] = "$"
  PROVE  \A I \in SUBSET Positions(s) : Ends(r, s, I) \subseteq {Len(s) + 1}
<1> DEFINE N == Len(r)
           m == N - 1
           a == SubSeq(r, 1, m)
           b == <<"$">>
<1>1. r \in Seq(Token) /\ N \in Nat /\ N >= 1 /\ checkEscapes(r) /\ Balanced(r)
  BY WholeIsBalanced DEF Whole
<1>2. N \in 1 .. N /\ N \in 1 .. N + 1 /\ N + 1 \in 2 .. N + 1 /\ (N + 1) - 1 = N /\ 1 \in 1 .. N + 1 /\ m \in 1 - 1 .. N
  BY <1>1
<1>3. Place(r, N + 1) = Standing(r, "PCRE2", N + 1, Place(r, N)) /\ Place(r, N + 1) = "out"
  BY <1>1, <1>2, Places DEF Place, Balanced, Out
<1>4. Place(r, N) = "out"
  <2>1. Place(r, N) \in {"out", "first", "in"}
    BY <1>1, <1>2, NothingQuoted
  <2>2. r[(N + 1) - 1] = "$"
    BY <1>2
  <2>3. \A here \in {"first", "in"} : Standing(r, "PCRE2", N + 1, here) # "out"
    BY <2>2 DEF Standing
  <2> QED
    BY <1>3, <2>1, <2>3
<1>5. Level(r, N) = 0
  <2>1. Level(r, N + 1) = Level(r, N) + Rise(r, N) /\ Level(r, N + 1) = 0 /\ Level(r, N) \in Int
    BY <1>1, <1>2, Levels DEF Balanced
  <2>2. Rise(r, N) = 0
    BY DEF Rise, Openings
  <2> QED
    BY <2>1, <2>2
<1>6. a \in Seq(Token) /\ Len(a) = m /\ \A j \in 1 .. m : a[j] = r[j]
  <2>1. a \in Seq(Token) /\ Len(a) = m - 1 + 1 /\ \A j \in 1 .. m - 1 + 1 : a[j] = r[1 + j - 1]
    BY <1>1, <1>2, SubSeqs
  <2> QED
    BY <1>1, <2>1
<1>7. Whole(a)
  <2>1. Out(r, 1) /\ Level(r, 1) = 0 /\ r[1] \notin Quantifiers
    BY FirstRises
  <2>2. Out(r, m + 1) /\ Level(r, m + 1) = 0
    BY <1>1, <1>4, <1>5 DEF Out
  <2>3. \A j \in 1 .. m + 1 : Level(r, j) >= 0
    <3>1. \A j \in 1 .. m + 1 : j \in 1 .. Len(r) + 1
      BY <1>1
    <3> QED
      BY <3>1, NeverBelow
  <2> HIDE DEF m
  <2> QED
    BY <1>2, <2>1, <2>2, <2>3, PartIsWhole
<1>8. NoBar(a)
  <2>1. CutAt(r, 1, m) /\ Level(r, 1) = 0
    BY <1>1, <1>2, FirstRises, Cutting
  <2>2. ASSUME NEW i \in 1 .. m, Out(a, i), a[i] = "|", Level(a, i) = 0
        PROVE  FALSE
    <3>1. i \in 1 .. m - 1 + 2 /\ i \in 1 .. Len(r) /\ 1 + i - 1 = i
      BY <1>1
    <3>2. Place(a, i) = Place(r, i) /\ Level(a, i) = Level(r, i) - Level(r, 1)
      BY <2>1, <3>1 DEF CutAt
    <3>3. Level(r, i) \in Nat
      BY <1>1, <3>1, NeverBelow
    <3>4. Out(r, i) /\ r[i] = "|" /\ Level(r, i) = 0
      BY <1>6, <2>1, <2>2, <3>2, <3>3 DEF Out
    <3> QED
      BY <3>1, <3>4, BarStands DEF NoBar
  <2> HIDE DEF a
  <2>3. \A i \in 1 .. Len(a) : i \in Bars(a, Reading(a, "PCRE2")) <=> Out(a, i) /\ a[i] = "|" /\ Level(a, i) = 0
    BY <1>7, BarStands
  <2>4. \A i \in Bars(a, Reading(a, "PCRE2")) : i \in 1 .. Len(a)
    BY DEF Bars
  <2> QED
    BY <1>6, <2>2, <2>3, <2>4 DEF NoBar
<1>9. r = a \o b
  <2>1. b \in Seq(Token) /\ Len(b) = 1 /\ b[1] = "$"
    BY AnAnchor DEF Assertions
  <2> HIDE DEF a, b
  <2>2. Glued(a, b)
    BY <1>6, <2>1, Gluing
  <2>3. /\ a \o b \in Seq(Token) /\ Len(a \o b) = N
        /\ \A i \in 1 .. m : (a \o b)[i] = a[i]
        /\ (a \o b)[N] = "$"
    <3>1. m + 1 = N /\ 1 \in 1 .. Len(b) /\ m + Len(b) = N
      BY <1>1, <2>1
    <3> HIDE DEF m, N
    <3>2. (a \o b)[m + 1] = b[1]
      BY <1>6, <2>2, <3>1 DEF Glued
    <3> QED
      BY <1>6, <2>1, <2>2, <3>1, <3>2 DEF Glued
  <2>4. \A i \in 1 .. N : r[i] = (a \o b)[i]
    <3>1. \A i \in 1 .. N : i \in 1 .. m \/ i = N
      BY <1>1
    <3> QED
      BY <1>6, <2>3, <3>1
  <2> QED
    BY <1>1, <2>3, <2>4, SeqEqual
<1>10. ASSUME NEW I \in SUBSET Positions(s)
       PROVE  Ends(r, s, I) \subseteq {Len(s) + 1}
  <2> DEFINE J == Ends(a, s, I)
  <2>1. Whole(b) /\ NoBar(b) /\ b \in Seq(Token) /\ b[1] \notin Quantifiers
    BY AnAnchor DEF Assertions, Quantifiers
  <2>2. \A K \in SUBSET Positions(s) : Ends(b, s, K) = K \cap {Len(s) + 1}
    BY AnAnchor DEF Assertions
  <2> HIDE DEF a, b
  <2>3. J \in SUBSET Positions(s)
    BY <1>7, Unfolds
  <2>4. Composes(a, s)
    BY <1>6, <1>7, Composing
  <2>5. Ends(a \o b, s, I) = Ends(b, s, J)
    BY <1>8, <2>1, <2>4 DEF Composes
  <2> QED
    BY <1>9, <2>2, <2>3, <2>5
<1> QED
  BY <1>10

\* Anchored, an expression matches nothing short of the text.
LEMMA AnchoredMatchesAll ==
  ASSUME NEW s, Len(s) \in Nat, NEW r, Whole(r), NoBar(r)
  PROVE  Finds(anchorRawRegex(r), s) => Spans(r, s)
<1> DEFINE P == Positions(s)
           o == {1}
           pre == IF StartsWith(r, "^") THEN <<>> ELSE <<"^">>
           post == IF endsAnchored(r) THEN <<>> ELSE <<"$">>
           B == pre \o r
           A == B \o post
           caret == <<"^">>
           dollar == <<"$">>
<1>1. r \in Seq(Token) /\ 1 \in P /\ o \in SUBSET P /\ P \cap o = o /\ P = 1 .. Len(s) + 1
  BY DEF Whole, Positions
<1>2. /\ caret \in Seq(Token) /\ Whole(caret) /\ NoBar(caret)
      /\ \A I \in SUBSET P : Ends(caret, s, I) = I \cap o
  BY AnAnchor DEF Assertions
<1>3. /\ dollar \in Seq(Token) /\ Whole(dollar) /\ NoBar(dollar) /\ dollar # <<>> /\ dollar[1] \notin Quantifiers
      /\ \A I \in SUBSET P : Ends(dollar, s, I) = I \cap {Len(s) + 1}
  BY AnAnchor DEF Assertions, Quantifiers
<1>4. r # <<>> => r[1] \notin Quantifiers
  BY FirstRises
<1> HIDE DEF caret, dollar
<1>5. Whole(B) /\ NoBar(B) /\ Ends(B, s, P) = Ends(r, s, o)
  <2>1. CASE StartsWith(r, "^")
    <3>1. B = r
      BY <1>1, <2>1
    <3>2. r # <<>> /\ r[1] = "^"
      BY <2>1 DEF StartsWith
    <3> HIDE DEF B
    <3>3. Ends(r, s, P) = Ends(r, s, P \cap {1})
      BY <3>2, BeginsAnchored
    <3> QED
      BY <1>1, <3>1, <3>3
  <2>2. CASE ~ StartsWith(r, "^")
    <3>1. B = caret \o r
      BY <2>2 DEF caret
    <3> HIDE DEF B, o
    <3>2. Whole(B) /\ NoBar(B)
      BY <1>2, <1>4, <3>1, AtomOfJoin
    <3>3. Composes(caret, s)
      BY <1>2, Composing
    <3>4. Ends(caret \o r, s, P) = Ends(r, s, Ends(caret, s, P))
      BY <1>1, <1>2, <1>4, <3>3 DEF Composes
    <3> QED
      BY <1>1, <1>2, <3>1, <3>2, <3>4
  <2> QED
    BY <2>1, <2>2
<1>6. Ends(A, s, P) \subseteq Ends(r, s, o) \cap {Len(s) + 1}
  <2>1. CASE endsAnchored(r)
    <3>1. A = B
      <4>1. B \in Seq(Token) /\ post = <<>>
        BY <1>5, <2>1 DEF Whole
      <4> HIDE DEF B, post
      <4> QED
        BY <4>1
    <3>2. r # <<>> /\ r[Len(r)] = "$"
      BY <2>1 DEF endsAnchored, EndsWith
    <3>3. Ends(r, s, o) \subseteq {Len(s) + 1}
      BY <1>1, <3>2, EndsWithAnchor
    <3> QED
      BY <1>5, <3>1, <3>3
  <2>2. CASE ~ endsAnchored(r)
    <3>1. A = B \o dollar
      BY <2>2 DEF dollar
    <3> HIDE DEF A, B
    <3>2. Composes(B, s) /\ B \in Seq(Token)
      BY <1>5, Composing DEF Whole
    <3>3. Ends(B \o dollar, s, P) = Ends(dollar, s, Ends(B, s, P))
      BY <1>3, <1>5, <3>2 DEF Composes
    <3>4. Ends(B, s, P) \in SUBSET P
      BY <1>5, Unfolds
    <3> QED
      BY <1>3, <1>5, <3>1, <3>3, <3>4
  <2> QED
    BY <2>1, <2>2
<1>7. anchorRawRegex(r) = A
  BY DEF anchorRawRegex
<1> HIDE DEF A
<1> QED
  BY <1>1, <1>6, <1>7 DEF Finds, Spans

-----------------------------------------------------------------------------
(* What is read alike *)

\* The same tokens, or some of them in lower case.
Alike(r, t) ==
  /\ r \in Seq(Token) /\ t \in Seq(Token) /\ Len(t) = Len(r)
  /\ \A i \in 1 .. Len(r) : t[i] = r[i] \/ (r[i] = "A" /\ t[i] = "a")
SamePlaces(r, p, q) == \A i \in 1 .. Len(r) + 1 : q[i] = p[i]

LEMMA DepthAlike ==
  ASSUME NEW r, NEW t, Alike(r, t), NEW p, NEW q, SamePlaces(r, p, q)
  PROVE  /\ \A i \in 1 .. Len(r) + 1 :
              Opened(t, q, i) = Opened(r, p, i) /\ Closed(t, q, i) = Closed(r, p, i) /\ Depth(t, q, i) = Depth(r, p, i)
         /\ Bars(t, q) = Bars(r, p)
<1>1. /\ Len(t) = Len(r) /\ Len(r) \in Nat
      /\ \A i \in 1 .. Len(r) : /\ q[i] = p[i]
                                /\ t[i] \in Openings <=> r[i] \in Openings
                                /\ t[i] = ")" <=> r[i] = ")"
                                /\ t[i] = "|" <=> r[i] = "|"
  BY DEF Alike, SamePlaces, Openings
<1>2. ASSUME NEW i \in 1 .. Len(r) + 1
      PROVE  Opened(t, q, i) = Opened(r, p, i) /\ Closed(t, q, i) = Closed(r, p, i) /\ Depth(t, q, i) = Depth(r, p, i)
  <2>1. \A j \in 1 .. i - 1 : j \in 1 .. Len(r)
    BY <1>1
  <2>2. /\ {j \in 1 .. i - 1 : q[j] = "out" /\ t[j] \in Openings} = {j \in 1 .. i - 1 : p[j] = "out" /\ r[j] \in Openings}
        /\ {j \in 1 .. i - 1 : q[j] = "out" /\ t[j] = ")"} = {j \in 1 .. i - 1 : p[j] = "out" /\ r[j] = ")"}
    BY <1>1, <2>1
  <2>3. Opened(t, q, i) = Opened(r, p, i) /\ Closed(t, q, i) = Closed(r, p, i)
    BY <2>2 DEF Opened, Closed
  <2> QED
    BY <2>3 DEF Depth
<1>3. Bars(t, q) = Bars(r, p)
  <2>1. \A i \in 1 .. Len(r) : i \in 1 .. Len(r) + 1
    BY <1>1
  <2>2. \A i \in 1 .. Len(r) : Depth(t, q, i) = Depth(r, p, i)
    BY <1>2, <2>1
  <2> QED
    BY <1>1, <2>2 DEF Bars
<1> QED
  BY <1>2, <1>3

\* Where each token stands is the same in lower case.
LEMMA PlacesAlike ==
  ASSUME NEW r, NEW t, Alike(r, t), NEW reader
  PROVE  SamePlaces(r, Reading(r, reader), Reading(t, reader))
<1> DEFINE N == Len(r)
           p == Reading(r, reader)
           q == Reading(t, reader)
           T == {k \in 0 .. N : q[k + 1] = p[k + 1]}
<1>1. N \in Nat /\ Len(t) = N /\ r \in Seq(Token) /\ t \in Seq(Token)
  BY DEF Alike
<1>2. /\ p[1] = "out" /\ \A i \in 2 .. N + 1 : p[i] = Standing(r, reader, i, p[i - 1])
      /\ q[1] = "out" /\ \A i \in 2 .. N + 1 : q[i] = Standing(t, reader, i, q[i - 1])
  BY <1>1, Places
<1> HIDE DEF p, q
<1>3. 0 \in T
  BY <1>1, <1>2
<1>4. ASSUME NEW k \in 0 .. N - 1, k \in T
      PROVE  k + 1 \in T
  <2> DEFINE i == k + 1
  <2>1. i \in 1 .. N /\ i + 1 \in 2 .. N + 1 /\ (i + 1) - 1 = i /\ i \in 0 .. N
    BY <1>1
  <2>2. q[i] = p[i]
    BY <1>4
  <2> HIDE DEF i, N
  <2>3. t[i] = r[i] \/ (r[i] = "A" /\ t[i] = "a")
    BY <2>1 DEF Alike, N
  <2>4. Standing(t, reader, i + 1, p[i]) = Standing(r, reader, i + 1, p[i])
    BY <2>1, <2>3 DEF Standing, ClassOpenings
  <2>5. q[i + 1] = p[i + 1]
    BY <1>2, <2>1, <2>2, <2>4
  <2> QED
    BY <2>1, <2>5 DEF i
<1> HIDE DEF T
<1>5. 0 .. N \subseteq T
  BY <1>1, <1>3, <1>4, UpTo
<1>6. ASSUME NEW j \in 1 .. N + 1
      PROVE  q[j] = p[j]
  <2>1. j - 1 \in 0 .. N /\ (j - 1) + 1 = j
    BY <1>1
  <2> QED
    BY <1>5, <2>1 DEF T
<1> QED
  BY <1>6 DEF SamePlaces, p, q

\* In lower case it compiles as it did.
LEMMA WholeAlike ==
  ASSUME NEW r, NEW t, Alike(r, t), Whole(r)
  PROVE  Whole(t) /\ (NoBar(r) => NoBar(t))
<1>1. /\ Len(t) = Len(r) /\ Len(r) \in Nat /\ r \in Seq(Token) /\ t \in Seq(Token)
      /\ \A i \in 1 .. Len(r) : t[i] = r[i] \/ (r[i] = "A" /\ t[i] = "a")
  BY DEF Alike
<1>2. SamePlaces(r, Reading(r, "PCRE2"), Reading(t, "PCRE2"))
  BY PlacesAlike
<1>3. /\ \A i \in 1 .. Len(r) + 1 : Place(t, i) = Place(r, i) /\ Level(t, i) = Level(r, i)
      /\ Bars(t, Reading(t, "PCRE2")) = Bars(r, Reading(r, "PCRE2"))
  BY <1>2, DepthAlike DEF SamePlaces, Place, Level
<1>4. checkEscapes(t)
  BY <1>1 DEF checkEscapes, Whole
<1>5. Balanced(r)
  BY <1>1, WholeIsBalanced DEF Whole
<1>6. Balanced(t)
  <2>1. ASSUME NEW i \in 1 .. Len(t), Out(t, i)
        PROVE  /\ t[i] = ")" => Level(t, i) > 0
               /\ t[i] \in Quantifiers => i > 1 /\ t[i - 1] \notin Unrepeatable
    <3>1. i \in 1 .. Len(r) /\ i \in 1 .. Len(r) + 1 /\ (i > 1 => i - 1 \in 1 .. Len(r))
      BY <1>1
    <3>2. Out(r, i) /\ Level(t, i) = Level(r, i)
      BY <1>3, <2>1, <3>1 DEF Out
    <3>3. (t[i] = ")" => r[i] = ")") /\ (t[i] \in Quantifiers => r[i] \in Quantifiers)
      BY <1>1, <3>1 DEF Quantifiers
    <3>4. i > 1 /\ r[i - 1] \notin Unrepeatable => t[i - 1] \notin Unrepeatable
      BY <1>1, <3>1 DEF Unrepeatable, Openings, Quantifiers, Assertions
    <3> QED
      BY <1>5, <3>1, <3>2, <3>3, <3>4 DEF Balanced
  <2>2. Out(t, Len(t) + 1) /\ Level(t, Len(t) + 1) = 0
    <3>1. Len(r) + 1 \in 1 .. Len(r) + 1
      BY <1>1
    <3> QED
      BY <1>1, <1>3, <1>5, <3>1 DEF Balanced, Out
  <2> QED
    BY <2>1, <2>2 DEF Balanced
<1> QED
  BY <1>1, <1>3, <1>4, <1>6, WholeIsBalanced DEF NoBar

LEMMA LoweredAlike ==
  ASSUME NEW r \in Seq(Token)
  PROVE  Alike(r, Lowered(r))
<1>1. \A t \in Token : Lower(t) \in Token /\ (Lower(t) = t \/ (t = "A" /\ Lower(t) = "a"))
  BY CharacterAssumption DEF Lower, Token
<1>2. \A i \in 1 .. Len(r) : r[i] \in Token
  OBVIOUS
<1>3. Lowered(r) \in Seq(Token) /\ Len(Lowered(r)) = Len(r)
  BY <1>1, <1>2 DEF Lowered
<1>4. \A i \in 1 .. Len(r) : Lowered(r)[i] = Lower(r[i])
  BY DEF Lowered
<1> QED
  BY <1>1, <1>2, <1>3, <1>4 DEF Alike

LEMMA LoweredWithoutColon ==
  ASSUME NEW r \in Seq(Token), WithoutColon(r)
  PROVE  WithoutColon(Lowered(r))
<1>1. Alike(r, Lowered(r))
  BY LoweredAlike
<1>2. Chars("a") = "a"
  <2>1. \A c \in Meta : Escape(c) # "a"
    BY DEF Meta, Escape
  <2> QED
    BY <2>1 DEF Chars
<1>3. ASSUME NEW i \in 1 .. Len(Lowered(r))
      PROVE  Lowered(r)[i] \notin {".", "[^"} /\ Chars(Lowered(r)[i]) # ":"
  <2>1. i \in 1 .. Len(r) /\ (Lowered(r)[i] = r[i] \/ Lowered(r)[i] = "a")
    BY <1>1, <1>3 DEF Alike
  <2> QED
    BY <1>2, <2>1 DEF WithoutColon
<1> QED
  BY <1>3 DEF WithoutColon

\* Where setup's checks pass, it and the proxy read alike.
LEMMA CheckedReadsAlike ==
  ASSUME NEW r \in Seq(Token), checkClasses(r), checkEscapes(r)
  PROVE  SamePlaces(r, Reading(r, "PCRE2"), Reading(r, "JavaScript"))
<1> DEFINE N == Len(r)
           p == Reading(r, "PCRE2")
           q == Reading(r, "JavaScript")
           T == {k \in 0 .. N : q[k + 1] = p[k + 1] /\
                                (q[k + 1] = "first" => k >= 1 /\ q[k] = "out" /\ r[k] \in ClassOpenings)}
<1>1. N \in Nat
  OBVIOUS
<1>2. /\ p[1] = "out" /\ \A i \in 2 .. N + 1 : p[i] = Standing(r, "PCRE2", i, p[i - 1])
      /\ q[1] = "out" /\ \A i \in 2 .. N + 1 : q[i] = Standing(r, "JavaScript", i, q[i - 1])
  BY <1>1, Places
<1>3. \A i \in 1 .. N - 1 : q[i] = "out" /\ r[i] \in ClassOpenings => r[i + 1] # "]"
  BY DEF checkClasses
<1> HIDE DEF p, q
<1>4. 0 \in T
  BY <1>1, <1>2
<1>5. ASSUME NEW k \in 0 .. N - 1, k \in T
      PROVE  k + 1 \in T
  <2> DEFINE i == k + 1
  <2>1. i \in 1 .. N /\ i + 1 \in 2 .. N + 1 /\ (i + 1) - 1 = i /\ i \in 0 .. N /\ i >= 1
    BY <1>1
  <2>2. /\ q[i] = p[i]
        /\ q[i] = "first" => r[i] # "]"
    <3>1. ASSUME q[i] = "first"
          PROVE  r[i] # "]"
      <4>1. k \in 1 .. N - 1 /\ q[k] = "out" /\ r[k] \in ClassOpenings
        BY <1>1, <1>5, <3>1
      <4> QED
        BY <1>3, <4>1
    <3> QED
      BY <1>5, <3>1
  <2> HIDE DEF i, N
  <2>3. r[i] \notin {"\\Q", "\\E"}
    BY <2>1 DEF checkEscapes, N
  <2>4. Standing(r, "JavaScript", i + 1, q[i]) = Standing(r, "PCRE2", i + 1, q[i])
    BY <2>1, <2>2, <2>3 DEF Standing
  <2>5. q[i + 1] = p[i + 1]
    BY <1>2, <2>1, <2>2, <2>4
  <2>6. Standing(r, "JavaScript", i + 1, q[i]) = "first" => q[i] = "out" /\ r[i] \in ClassOpenings
    BY <2>1 DEF Standing
  <2>7. q[i + 1] = "first" => q[i] = "out" /\ r[i] \in ClassOpenings
    BY <1>2, <2>1, <2>6
  <2> QED
    BY <2>1, <2>5, <2>7 DEF i
<1> HIDE DEF T
<1>6. 0 .. N \subseteq T
  BY <1>1, <1>4, <1>5, UpTo
<1>7. ASSUME NEW j \in 1 .. N + 1
      PROVE  q[j] = p[j]
  <2>1. j - 1 \in 0 .. N /\ (j - 1) + 1 = j
    BY <1>1
  <2> QED
    BY <1>6, <2>1 DEF T
<1> QED
  BY <1>7 DEF SamePlaces, p, q

LEMMA LoweredJoin ==
  ASSUME NEW a \in Seq(Token), NEW b \in Seq(Token)
  PROVE  Lowered(a \o b) = Lowered(a) \o Lowered(b)
<1> DEFINE w == a \o b
           x == Lowered(a)
           y == Lowered(b)
           m == Len(a)
           n == Len(b)
<1>1. m \in Nat /\ n \in Nat
  OBVIOUS
<1>2. /\ w \in Seq(Token) /\ Len(w) = m + n
      /\ \A i \in 1 .. m : w[i] = a[i]
      /\ \A i \in 1 .. n : w[m + i] = b[i]
  BY Gluing DEF Glued
<1>3. /\ x \in Seq(Token) /\ y \in Seq(Token) /\ Len(x) = m /\ Len(y) = n
      /\ \A i \in 1 .. m : x[i] = Lower(a[i])
      /\ \A i \in 1 .. n : y[i] = Lower(b[i])
  BY LoweredAlike DEF Alike, Lowered
<1>4. Glued(x, y)
  BY <1>3, Gluing
<1> HIDE DEF w, x, y
<1>5. /\ x \o y \in Seq(Token) /\ Len(x \o y) = m + n
      /\ \A i \in 1 .. m : (x \o y)[i] = x[i]
      /\ \A i \in 1 .. n : (x \o y)[m + i] = y[i]
  BY <1>3, <1>4 DEF Glued
<1>6. /\ Lowered(w) \in Seq(Token) /\ Len(Lowered(w)) = m + n
      /\ \A i \in 1 .. m + n : Lowered(w)[i] = Lower(w[i])
  BY <1>2, LoweredAlike DEF Alike, Lowered
<1>7. ASSUME NEW i \in 1 .. m + n
      PROVE  Lowered(w)[i] = (x \o y)[i]
  <2>1. CASE i \in 1 .. m
    BY <1>2, <1>3, <1>5, <1>6, <2>1
  <2>2. CASE i \notin 1 .. m
    <3> DEFINE k == i - m
    <3>1. k \in 1 .. n /\ m + k = i
      BY <1>1, <2>2
    <3> HIDE DEF k, m, n
    <3>2. w[m + k] = b[k] /\ (x \o y)[m + k] = y[k] /\ y[k] = Lower(b[k])
      BY <1>2, <1>3, <1>5, <3>1
    <3> QED
      BY <1>6, <3>1, <3>2
  <2> QED
    BY <2>1, <2>2
<1>8. Lowered(w) = x \o y
  BY <1>1, <1>5, <1>6, <1>7, SeqEqual
<1> QED
  BY <1>8 DEF w, x, y

\* A token that is no letter stays as it is.
LEMMA LoweredOne ==
  ASSUME NEW t \in Token, t # "A"
  PROVE  Lowered(<<t>>) = <<t>>
<1>1. Lower(t) = t
  BY DEF Lower
<1> DEFINE r == <<t>>
<1>2. r \in Seq(Token) /\ Len(r) = 1 /\ r[1] = t
  OBVIOUS
<1> HIDE DEF r
<1>3. Lowered(r) \in Seq(Token) /\ Len(Lowered(r)) = 1 /\ Lowered(r)[1] = Lower(r[1])
  <2>1. Lowered(r) \in Seq(Token) /\ Len(Lowered(r)) = 1
    BY <1>2, LoweredAlike DEF Alike
  <2>2. 1 \in 1 .. Len(r)
    BY <1>2
  <2> QED
    BY <2>1, <2>2 DEF Lowered
<1>4. \A i \in 1 .. 1 : Lowered(r)[i] = r[i]
  BY <1>1, <1>2, <1>3
<1>5. Lowered(r) = r
  BY <1>2, <1>3, <1>4, SeqEqual
<1> QED
  BY <1>5 DEF r

\* Anchoring and lowering are the same in either order.
LEMMA LoweredAnchors ==
  ASSUME NEW r \in Seq(Token)
  PROVE  Lowered(anchorRawRegex(r)) = anchorRawRegex(Lowered(r))
<1> DEFINE l == Lowered(r)
           pre == IF StartsWith(r, "^") THEN <<>> ELSE <<"^">>
           post == IF endsAnchored(r) THEN <<>> ELSE <<"$">>
<1>1. Alike(r, l) /\ Len(r) \in Nat
  BY LoweredAlike
<1> HIDE DEF l
<1>2. StartsWith(l, "^") <=> StartsWith(r, "^")
  <2>1. l # <<>> <=> r # <<>>
    BY <1>1 DEF Alike
  <2>2. r # <<>> => (l[1] = "^" <=> r[1] = "^")
    <3>1. r # <<>> => 1 \in 1 .. Len(r)
      BY <1>1
    <3> QED
      BY <1>1, <3>1 DEF Alike
  <2> QED
    BY <2>1, <2>2 DEF StartsWith
<1>3. endsAnchored(l) <=> endsAnchored(r)
  <2>1. (l # <<>> <=> r # <<>>) /\ Len(l) = Len(r)
    BY <1>1 DEF Alike
  <2>2. r # <<>> => (l[Len(r)] = "$" <=> r[Len(r)] = "$")
    <3>1. r # <<>> => Len(r) \in 1 .. Len(r)
      BY <1>1
    <3> QED
      BY <1>1, <3>1 DEF Alike
  <2> QED
    BY <2>1, <2>2 DEF endsAnchored, EndsWith
<1>4. pre \in Seq(Token) /\ post \in Seq(Token) /\ Lowered(pre) = pre /\ Lowered(post) = post
  <2>1. "^" \in Token /\ "$" \in Token
    BY CharacterAssumption DEF Token, Meta
  <2>2. Lowered(<<"^">>) = <<"^">> /\ Lowered(<<"$">>) = <<"$">>
    BY <2>1, LoweredOne
  <2>3. Lowered(<<>>) = <<>>
    <3> DEFINE e == <<>>
    <3>1. e \in Seq(Token) /\ Len(e) = 0
      OBVIOUS
    <3> HIDE DEF e
    <3>2. Lowered(e) \in Seq(Token) /\ Len(Lowered(e)) = 0
      BY <3>1, LoweredAlike DEF Alike
    <3>3. Lowered(e) = e
      BY <3>1, <3>2
    <3> QED
      BY <3>3 DEF e
  <2> QED
    BY <2>1, <2>2, <2>3
<1>5. anchorRawRegex(r) = (pre \o r) \o post /\ anchorRawRegex(l) = (pre \o l) \o post
  BY <1>2, <1>3 DEF anchorRawRegex
<1> HIDE DEF pre, post
<1>6. pre \o r \in Seq(Token)
  BY <1>4
<1>7. Lowered((pre \o r) \o post) = (pre \o l) \o post
  BY <1>4, <1>6, LoweredJoin DEF l
<1> QED
  BY <1>5, <1>7 DEF l

-----------------------------------------------------------------------------
(* What setup takes *)

\* The part before the port, and the port, compile by themselves.
Halved(r) ==
  LET d == splitDomainFromPortPattern(r).domain
      p == splitDomainFromPortPattern(r).port
  IN
  /\ Whole(r) /\ NoBar(r)
  /\ Whole(d) /\ NoBar(d) /\ Whole(p) /\ NoBar(p)
  /\ p # <<>> /\ p[1] \notin Quantifiers
  /\ r = d \o p
  /\ HostHalf(r) = WithoutCaret(d)

LEMMA AcceptedIsHalved ==
  ASSUME NEW r \in Seq(Token), Accepted(r), Compiles(r, "PCRE2"), Compiles(HostHalf(r), "PCRE2")
  PROVE  Halved(r)
<1> DEFINE k == portPatternStart(r)
           N == Len(r)
           d == Upto(r, k)
           p == From(r, k)
           h == WithoutCaret(d)
           caret == <<"^">>
<1>1. checkClasses(r) /\ checkEscapes(r) /\ ~ hasTopLevelAlternation(r) /\ k # 0 /\ N \in Nat
  BY DEF Accepted, checkRawRegexHalf
<1>2. Whole(r) /\ Balanced(r)
  BY <1>1, WholeIsBalanced DEF Whole
<1>3. SamePlaces(r, Reading(r, "PCRE2"), Reading(r, "JavaScript"))
  BY <1>1, CheckedReadsAlike
<1>4. NoBar(r)
  <2>1. Alike(r, r)
    BY DEF Alike
  <2>2. Bars(r, Reading(r, "JavaScript")) = Bars(r, Reading(r, "PCRE2"))
    BY <1>3, <2>1, DepthAlike
  <2> QED
    BY <1>1, <2>2 DEF hasTopLevelAlternation, NoBar
<1>5. k \in 1 .. N /\ Out(r, k) /\ r[k] \in {":", "("}
  <2> DEFINE starts == {i \in 1 .. N :
                          /\ Reading(r, "JavaScript")[i] = "out"
                          /\ r[i] = ":" \/ (r[i] = "(" /\ i < N /\ r[i + 1] = ":")}
  <2>1. k = IF starts = {} THEN 0 ELSE CHOOSE i \in starts : \A j \in starts : i <= j
    BY DEF portPatternStart
  <2>2. starts # {} /\ starts \subseteq Nat
    BY <1>1, <2>1
  <2>3. \E i \in starts : \A j \in starts : i <= j
    BY <2>2, LeastOne
  <2>4. k \in starts
    BY <2>1, <2>2, <2>3
  <2>5. k \in 1 .. N /\ k \in 1 .. N + 1 /\ Reading(r, "JavaScript")[k] = "out" /\ r[k] \in {":", "("}
    BY <1>1, <2>4
  <2> QED
    BY <1>3, <2>5 DEF SamePlaces, Out, Place
<1>6. splitDomainFromPortPattern(r).domain = d /\ splitDomainFromPortPattern(r).port = p
  BY <1>1 DEF splitDomainFromPortPattern
<1>7. HostHalf(r) = h
  BY <1>6 DEF HostHalf
<1> HIDE DEF k
<1>8. k \in 1 .. N + 1 /\ N \in k - 1 .. N /\ 1 \in 1 .. N + 1 /\ k - 1 \in 1 - 1 .. N
  BY <1>1, <1>5
<1>9. /\ d \in Seq(Token) /\ Len(d) = k - 1 /\ \A j \in 1 .. k - 1 : d[j] = r[j]
      /\ p \in Seq(Token) /\ Len(p) = N - k + 1 /\ \A j \in 1 .. N - k + 1 : p[j] = r[k + j - 1]
  <2>1. d \in Seq(Token) /\ Len(d) = k - 1 - 1 + 1 /\ \A j \in 1 .. k - 1 - 1 + 1 : d[j] = r[1 + j - 1]
    BY <1>8, SubSeqs DEF Upto
  <2>2. p \in Seq(Token) /\ Len(p) = N - k + 1 /\ \A j \in 1 .. N - k + 1 : p[j] = r[k + j - 1]
    BY <1>8, SubSeqs DEF From
  <2> HIDE DEF d, p
  <2> QED
    BY <1>1, <1>5, <2>1, <2>2
<1> HIDE DEF d, p
<1>10. Whole(d)
  <2>1. checkEscapes(d)
    <3>1. \A j \in 1 .. k - 1 : j \in 1 .. N
      BY <1>1, <1>5
    <3> QED
      BY <1>1, <1>9, <3>1 DEF checkEscapes
  <2>2. CASE StartsWith(d, "^")
    <3> DEFINE v == Tail(d)
    <3>1. d # <<>> /\ d[1] = "^" /\ h = v /\ Len(d) >= 1
      BY <1>9, <2>2 DEF StartsWith, WithoutCaret
    <3>2. v \in Seq(Token) /\ Len(v) = Len(d) - 1 /\ \A j \in 1 .. Len(d) - 1 : v[j] = d[j + 1]
      BY <1>9, <3>1
    <3> HIDE DEF h, v
    <3>3. checkEscapes(v)
      <4>1. \A j \in 1 .. Len(d) - 1 : j + 1 \in 1 .. Len(d)
        BY <1>9, <3>1
      <4> QED
        BY <2>1, <3>2, <4>1 DEF checkEscapes
    <3>4. Whole(v)
      BY <1>7, <3>1, <3>2, <3>3 DEF Whole
    <3>5. Whole(caret) /\ caret \in Seq(Token) /\ Len(caret) = 1 /\ caret[1] = "^"
      BY AnAnchor DEF Assertions
    <3>6. v # <<>> => v[1] \notin Quantifiers
      BY <3>4, FirstRises
    <3> HIDE DEF caret
    <3>7. Whole(caret \o v)
      BY <3>4, <3>5, <3>6, JoinIsWhole
    <3>8. d = caret \o v
      <4>1. Glued(caret, v)
        BY <3>2, <3>5, Gluing
      <4>2. /\ caret \o v \in Seq(Token) /\ Len(caret \o v) = Len(d) /\ (caret \o v)[1] = "^"
            /\ \A j \in 1 .. Len(d) - 1 : (caret \o v)[1 + j] = d[j + 1]
        <5>1. 1 \in 1 .. Len(caret) /\ 1 + Len(v) = Len(d)
          BY <1>9, <3>1, <3>2, <3>5
        <5> QED
          BY <3>2, <3>5, <4>1, <5>1 DEF Glued
      <4>3. \A i \in 1 .. Len(d) : (caret \o v)[i] = d[i]
        <5>1. ASSUME NEW i \in 1 .. Len(d)
              PROVE  (caret \o v)[i] = d[i]
          <6>1. CASE i = 1
            BY <3>1, <4>2, <6>1
          <6>2. CASE i # 1
            <7> DEFINE j == i - 1
            <7>1. j \in 1 .. Len(d) - 1 /\ 1 + j = i /\ j + 1 = i
              BY <1>9, <6>2
            <7> HIDE DEF j
            <7> QED
              BY <4>2, <7>1
          <6> QED
            BY <6>1, <6>2
        <5> QED
          BY <5>1
      <4> QED
        BY <1>9, <4>2, <4>3, SeqEqual
    <3> QED
      BY <3>7, <3>8
  <2>3. CASE ~ StartsWith(d, "^")
    <3>1. h = d
      BY <2>3 DEF WithoutCaret
    <3> HIDE DEF h
    <3> QED
      BY <1>7, <1>9, <2>1, <3>1 DEF Whole
  <2> QED
    BY <2>2, <2>3
<1>11. Level(r, k) = 0
  <2>1. CutAt(r, 1, k - 1) /\ Level(r, 1) = 0
    <3>1. r # <<>> /\ Out(r, 1) /\ Level(r, 1) = 0
      BY <1>1, <1>2, <1>5, FirstRises
    <3> QED
      BY <1>8, <3>1, Cutting
  <2>2. k \in 1 .. k - 1 - 1 + 2 /\ 1 + k - 1 = k
    BY <1>1, <1>5
  <2>3. Level(d, k) = Level(r, k) - Level(r, 1)
    BY <2>1, <2>2 DEF CutAt, d, Upto
  <2>4. Balanced(d) /\ Len(d) + 1 = k
    BY <1>1, <1>5, <1>9, <1>10, WholeIsBalanced DEF Whole
  <2>5. Level(d, k) = 0 /\ Level(r, k) \in Int
    BY <1>8, <2>4, Levels DEF Balanced
  <2> QED
    BY <2>1, <2>3, <2>5
<1>12. Whole(p)
  <2>1. Out(r, N + 1) /\ Level(r, N + 1) = 0
    BY <1>2 DEF Balanced
  <2>2. \A j \in k .. N + 1 : Level(r, j) >= 0
    <3>1. \A j \in k .. N + 1 : j \in 1 .. N + 1
      BY <1>1, <1>5
    <3> QED
      BY <1>2, <3>1, NeverBelow
  <2>3. r[k] \notin Quantifiers
    BY <1>5 DEF Quantifiers
  <2> QED
    BY <1>2, <1>5, <1>8, <1>11, <2>1, <2>2, <2>3, PartIsWhole DEF p, From
<1>13. p # <<>> /\ p[1] \notin Quantifiers
  <2>1. 1 \in 1 .. N - k + 1 /\ k + 1 - 1 = k
    BY <1>1, <1>5
  <2>2. p[1] = r[k] /\ Len(p) >= 1
    BY <1>9, <2>1
  <2> QED
    BY <1>5, <2>2 DEF Quantifiers
<1>14. NoBar(d) /\ NoBar(p)
  <2>1. Out(r, 1) /\ Level(r, 1) = 0
    BY <1>1, <1>2, <1>5, FirstRises
  <2>2. CutAt(r, 1, k - 1) /\ CutAt(r, k, N)
    BY <1>5, <1>8, <2>1, Cutting
  <2>3. \A i \in 1 .. N : ~ (Out(r, i) /\ r[i] = "|" /\ Level(r, i) = 0)
    BY <1>2, <1>4, BarStands DEF NoBar
  <2>4. \A i \in 1 .. N + 1 : Level(r, i) \in Int
    BY Levels
  <2>5. ASSUME NEW i \in 1 .. Len(d), Out(d, i), d[i] = "|", Level(d, i) = 0
        PROVE  FALSE
    <3>1. i \in 1 .. k - 1 /\ i \in 1 .. k - 1 - 1 + 2 /\ 1 + i - 1 = i /\ i \in 1 .. N /\ i \in 1 .. N + 1
      BY <1>1, <1>5, <1>9
    <3>2. Place(d, i) = Place(r, i) /\ Level(d, i) = Level(r, i) - Level(r, 1)
      BY <2>2, <3>1 DEF CutAt, d, Upto
    <3>3. Out(r, i) /\ r[i] = "|" /\ Level(r, i) = 0
      BY <1>9, <2>1, <2>4, <2>5, <3>1, <3>2 DEF Out
    <3> QED
      BY <2>3, <3>1, <3>3
  <2>6. ASSUME NEW i \in 1 .. Len(p), Out(p, i), p[i] = "|", Level(p, i) = 0
        PROVE  FALSE
    <3> DEFINE j == k + i - 1
    <3>1. i \in 1 .. N - k + 1 /\ i \in 1 .. N - k + 2 /\ j \in 1 .. N /\ j \in 1 .. N + 1
      BY <1>1, <1>5, <1>9
    <3>2. Place(p, i) = Place(r, j) /\ Level(p, i) = Level(r, j) - Level(r, k)
      BY <2>2, <3>1 DEF CutAt, p, From
    <3>3. p[i] = r[j]
      BY <1>9, <3>1
    <3> HIDE DEF j
    <3>4. Out(r, j) /\ r[j] = "|" /\ Level(r, j) = 0
      BY <1>11, <2>4, <2>6, <3>1, <3>2, <3>3 DEF Out
    <3> QED
      BY <2>3, <3>1, <3>4
  <2>7. NoBar(d)
    BY <1>10, <2>5, BarStands DEF NoBar, Bars
  <2>8. NoBar(p)
    BY <1>12, <2>6, BarStands DEF NoBar, Bars
  <2> QED
    BY <2>7, <2>8
<1>15. r = d \o p
  <2>1. Glued(d, p)
    BY <1>9, Gluing
  <2>2. Len(d) + Len(p) = N /\ d \o p \in Seq(Token) /\ Len(d \o p) = N
    BY <1>1, <1>5, <1>9, <2>1 DEF Glued
  <2>3. ASSUME NEW i \in 1 .. N
        PROVE  (d \o p)[i] = r[i]
    <3>1. CASE i < k
      <4>1. i \in 1 .. k - 1 /\ i \in 1 .. Len(d)
        BY <1>1, <1>5, <1>9, <3>1
      <4> QED
        BY <1>9, <2>1, <4>1 DEF Glued
    <3>2. CASE i >= k
      <4> DEFINE j == i - k + 1
      <4>1. j \in 1 .. N - k + 1 /\ Len(d) + j = i /\ k + j - 1 = i /\ j \in 1 .. Len(p)
        BY <1>1, <1>5, <1>9, <3>2
      <4> HIDE DEF j
      <4>2. (d \o p)[Len(d) + j] = p[j] /\ p[j] = r[k + j - 1]
        BY <1>9, <2>1, <4>1 DEF Glued
      <4> QED
        BY <4>1, <4>2
    <3>3. i < k \/ i >= k
      BY <1>1, <1>5
    <3> QED
      BY <3>1, <3>2, <3>3
  <2> QED
    BY <1>1, <2>2, <2>3, SeqEqual
<1> HIDE DEF h
<1>16. h = WithoutCaret(d)
  BY DEF h
<1> QED
  BY <1>2, <1>4, <1>6, <1>7, <1>10, <1>12, <1>13, <1>14, <1>15, <1>16 DEF Halved

-----------------------------------------------------------------------------
(* What the proxy admits, and what the resolver answers for *)

\* The text of a connection: the name, a colon that is the first, the port.
Addressed(s, n) ==
  /\ Before(n, s) /\ s[Len(n) + 1] = ":"
  /\ \A i \in 1 .. Len(s) : s[i] = ":" => i = Len(n) + 1

LEMMA AuthorityIs ==
  ASSUME NEW n \in Seq(Character), NEW p \in Seq(Character),
         \A i \in 1 .. Len(n) : n[i] # ":", \A i \in 1 .. Len(p) : p[i] # ":"
  PROVE  Addressed(Authority(Lowered(n), p), Lowered(n))
<1> DEFINE l == Lowered(n)
           c == <<":">>
           a == l \o c
           s == a \o p
           m == Len(l)
<1>1. n \in Seq(Token) /\ p \in Seq(Token) /\ c \in Seq(Token) /\ Len(c) = 1 /\ c[1] = ":"
  BY CharacterAssumption DEF Token
<1>2. Alike(n, l)
  BY <1>1, LoweredAlike
<1> HIDE DEF l, c
<1>3. l \in Seq(Token) /\ m \in Nat /\ \A i \in 1 .. m : l[i] # ":"
  BY <1>2 DEF Alike
<1>4. Glued(l, c)
  BY <1>1, <1>3, Gluing
<1>5. /\ a \in Seq(Token) /\ Len(a) = m + 1
      /\ \A i \in 1 .. m : a[i] = l[i]
      /\ a[m + 1] = ":"
  <2>1. 1 \in 1 .. Len(c)
    BY <1>1
  <2> HIDE DEF m
  <2>2. (l \o c)[Len(l) + 1] = c[1]
    BY <1>4, <2>1 DEF Glued
  <2> QED
    BY <1>1, <1>4, <2>2 DEF Glued, m
<1> HIDE DEF a
<1>6. Glued(a, p)
  BY <1>1, <1>5, Gluing
<1>7. /\ Len(s) = m + 1 + Len(p) /\ Len(p) \in Nat
      /\ \A i \in 1 .. m + 1 : s[i] = a[i]
      /\ \A i \in 1 .. Len(p) : s[m + 1 + i] = p[i]
  BY <1>1, <1>5, <1>6 DEF Glued
<1> HIDE DEF s
<1>8. Before(l, s)
  <2>1. \A i \in 1 .. m : s[i] = l[i]
    BY <1>3, <1>5, <1>7
  <2> QED
    BY <1>3, <1>7, <2>1 DEF Before
<1>9. s[m + 1] = ":"
  BY <1>3, <1>5, <1>7
<1>10. ASSUME NEW i \in 1 .. Len(s), s[i] = ":"
       PROVE  i = m + 1
  <2>1. CASE i \in 1 .. m
    BY <1>3, <1>8, <1>10, <2>1 DEF Before
  <2>2. CASE i > m + 1
    <3> DEFINE j == i - (m + 1)
    <3>1. j \in 1 .. Len(p) /\ m + 1 + j = i
      BY <1>3, <1>7, <2>2
    <3> HIDE DEF j, m
    <3>2. s[m + 1 + j] = p[j]
      BY <1>7, <3>1
    <3> QED
      BY <1>10, <3>1, <3>2
  <2> QED
    BY <1>3, <1>7, <2>1, <2>2
<1> QED
  BY <1>8, <1>9, <1>10 DEF Addressed, Authority, s, a, c, l

\* The part before the port leads to the end of the name, from which the port
\* takes the colon.
LEMMA TheNameIsLeft ==
  ASSUME NEW s, NEW n, Addressed(s, n), NEW d, Whole(d), NoBar(d),
         NEW p, Whole(p), NoBar(p), p # <<>>, p[1] \notin Quantifiers,
         Spans(d \o p, s), ColonFirst(p, s), NeverEmpty(p, s) \/ WithoutColon(d)
  PROVE  Spans(d, n)
<1> DEFINE P == Positions(s)
           D == Ends(d, s, {1})
<1>1. Len(n) \in Nat /\ Len(s) \in Nat /\ Len(n) < Len(s) /\ Before(n, s)
  BY DEF Addressed, Before
<1>2. {1} \in SUBSET P /\ 1 \in P /\ d \in Seq(Token) /\ p \in Seq(Token)
  BY <1>1 DEF Positions, Whole
<1>3. D \in SUBSET P
  BY <1>1, <1>2, Unfolds
<1>4. Len(s) + 1 \in Ends(p, s, D)
  <2>1. Composes(d, s)
    BY <1>1, <1>2, Composing
  <2>2. Ends(d \o p, s, {1}) = Ends(p, s, D)
    BY <1>2, <2>1 DEF Composes
  <2> QED
    BY <2>2 DEF Spans
<1> HIDE DEF D
<1>5. PICK k \in D : Len(s) + 1 \in Ends(p, s, {k})
  <2>1. Spread(p, s)
    BY <1>1, <1>2, Spreading
  <2> QED
    BY <1>3, <1>4, <2>1 DEF Spread
<1>6. k \in 1 .. Len(s) + 1
  BY <1>3, <1>5 DEF Positions
<1>7. k # Len(s) + 1
  <2>1. SUFFICES ASSUME k = Len(s) + 1 PROVE FALSE
    OBVIOUS
  <2>2. ~ NeverEmpty(p, s)
    BY <1>5, <1>6, <2>1 DEF NeverEmpty
  <2> DEFINE X == 1 .. Len(n) + 1
  <2>3. WithoutColon(d)
    BY <2>2
  <2>4. Fenced(X, s)
    <3>1. ASSUME NEW j \in X \cap (1 .. Len(s)), s[j] # ":"
          PROVE  j + 1 \in X
      <4>1. j # Len(n) + 1
        BY <3>1 DEF Addressed
      <4> QED
        BY <1>1, <4>1
    <3> QED
      BY <3>1 DEF Fenced
  <2>5. {1} \subseteq X
    BY <1>1
  <2> HIDE DEF X
  <2>6. Inside(d, s, X)
    BY <1>1, <1>2, <2>4, StayingInside
  <2>7. D \subseteq X
    BY <1>2, <2>3, <2>5, <2>6 DEF Inside, D
  <2> QED
    BY <1>1, <1>5, <2>1, <2>7 DEF X
<1>8. k = Len(n) + 1
  <2>1. k \in 1 .. Len(s) /\ Len(s) + 1 # k
    BY <1>1, <1>6, <1>7
  <2>2. s[k] = ":"
    BY <1>5, <1>6, <2>1 DEF ColonFirst
  <2> QED
    BY <2>1, <2>2 DEF Addressed
<1>9. k \in Ends(d, n, {1})
  <2>1. Local(d, n, s)
    BY <1>1, <1>2, Locality
  <2>2. k \in Positions(n) /\ {1} \cap Positions(n) = {1}
    BY <1>1, <1>8 DEF Positions
  <2>3. D \cap Positions(n) \subseteq Ends(d, n, {1} \cap Positions(n))
    BY <1>2, <2>1 DEF Local, D
  <2> QED
    BY <1>5, <2>2, <2>3
<1> QED
  BY <1>8, <1>9 DEF Spans

\* The resolver reads the part before the port without its caret, and in lower
\* case.
LEMMA TheHalfSpans ==
  ASSUME NEW n, Len(n) \in Nat, NEW d, Whole(d), NoBar(d), Spans(Lowered(d), n)
  PROVE  Spans(Lowered(WithoutCaret(d)), n)
<1> DEFINE v == Tail(d)
           caret == <<"^">>
<1>1. CASE ~ StartsWith(d, "^")
  BY <1>1 DEF WithoutCaret
<1>2. CASE StartsWith(d, "^")
  <2>1. d # <<>> /\ d[1] = "^" /\ WithoutCaret(d) = v /\ d \in Seq(Token)
    BY <1>2 DEF StartsWith, WithoutCaret, Whole
  <2>2. Whole(v) /\ NoBar(v) /\ (v # <<>> => v[1] \notin Quantifiers)
    <3>1. Len(<<>>) \in Nat
      OBVIOUS
    <3> QED
      BY <2>1, <3>1, BeginsAnchored
  <2>3. d = caret \o v
    BY <2>1
  <2> HIDE DEF v
  <2>4. /\ caret \in Seq(Token) /\ Whole(caret) /\ NoBar(caret)
        /\ \A I \in SUBSET Positions(n) : Ends(caret, n, I) = I \cap {1}
    BY AnAnchor DEF Assertions
  <2>5. Lowered(caret) = caret
    BY CharacterAssumption, LoweredOne DEF Token, Meta
  <2> HIDE DEF caret
  <2> DEFINE l == Lowered(v)
  <2>6. v \in Seq(Token) /\ Alike(v, l)
    BY <2>2, LoweredAlike DEF Whole
  <2>7. Lowered(d) = caret \o l
    BY <2>3, <2>4, <2>5, <2>6, LoweredJoin
  <2> HIDE DEF l
  <2>8. Whole(l) /\ NoBar(l) /\ l \in Seq(Token) /\ (l # <<>> => l[1] \notin Quantifiers)
    <3>1. Whole(l) /\ NoBar(l)
      BY <2>2, <2>6, WholeAlike
    <3>2. l # <<>> => l[1] \notin Quantifiers
      BY <3>1, FirstRises
    <3> QED
      BY <3>1, <3>2 DEF Whole
  <2>9. Composes(caret, n) /\ {1} \in SUBSET Positions(n) /\ {1} \cap {1} = {1}
    BY <2>4, Composing DEF Positions
  <2>10. Ends(caret \o l, n, {1}) = Ends(l, n, {1})
    <3> DEFINE o == {1}
    <3>1. o \in SUBSET Positions(n) /\ Ends(caret, n, o) = o
      BY <2>4, <2>9
    <3> HIDE DEF o
    <3>2. Ends(caret \o l, n, o) = Ends(l, n, Ends(caret, n, o))
      BY <2>4, <2>8, <2>9, <3>1 DEF Composes
    <3> QED
      BY <3>1, <3>2 DEF o
  <2> QED
    BY <2>1, <2>7, <2>10 DEF Spans, l
<1> QED
  BY <1>1, <1>2

\* What is written is an expression.
Raw == {"rawHost", "rawUrl"}
InvRaw == field \in Raw => rule \in Seq(Token) /\ field \in Fields

LEMMA RawTyped == Spec => []InvRaw
<1>0. \A f \in Fields \cap Raw : Beginnings[f] \cup Fragments[f] \subseteq Seq(Token)
  BY ExpressionAssumption DEF Raw
<1>1. Init => InvRaw
  BY <1>0 DEF Init, InvRaw
<1>2. InvRaw /\ [Next]_vars => InvRaw'
  <2> SUFFICES ASSUME InvRaw, [Next]_vars, field' \in Raw
               PROVE  rule' \in Seq(Token) /\ field' \in Fields
    BY DEF InvRaw
  <2>1. CASE UNCHANGED vars
    BY <2>1 DEF vars, InvRaw
  <2>2. CASE Write
    <3>1. field' = field /\ field \in Fields \cap Raw /\ rule \in Seq(Token)
      BY <2>2 DEF Write, InvRaw
    <3>2. PICK f \in Fragments[field] : rule' = rule \o f
      BY <2>2 DEF Write
    <3>3. f \in Seq(Token)
      BY <1>0, <3>1, <3>2
    <3> QED
      BY <3>1, <3>2, <3>3
  <2> QED
    BY <2>1, <2>2 DEF Next, WriteText
<1> QED
  BY <1>1, <1>2, PTL DEF Spec

\* The proxy admits only what the whole expression matches, and only names the
\* resolver answers for, where the part cut off as the port takes the colon
\* first and either must take it or is the only one that may: for every
\* expression, however deep its groups and classes are nested
\* (partial-wildcard.ts:252-271, :430-465, haproxy-rules.ts:151-157).
THEOREM AnchorsHold == Spec => []AnchorsBindTheWhole
<1>1. InvRaw => AnchorsBindTheWhole
  <2> SUFFICES ASSUME InvRaw, HostRuns, NEW n \in Names[field], NEW q \in Ports[field], ProxyAccepts(n, q)
               PROVE  LET s == Authority(Lowered(n), q)
                          port == Lowered(splitDomainFromPortPattern(rule).port)
                      IN /\ Spans(Lowered(rule), s)
                         /\ ColonFirst(port, s) /\ (NeverEmpty(port, s) \/ WithoutColon(HostHalf(rule))) =>
                              ResolverAccepts(n)
    BY DEF AnchorsBindTheWhole
  <2> DEFINE l == Lowered(n)
             s == Authority(l, q)
             d == splitDomainFromPortPattern(rule).domain
             p == splitDomainFromPortPattern(rule).port
             ld == Lowered(d)
             lp == Lowered(p)
             lr == Lowered(rule)
  <2>1. field = "rawHost" /\ rule \in Seq(Token) /\ "rawHost" \in Fields
    BY DEF HostRuns, InvRaw, Raw
  <2>2. Halved(rule)
    BY <2>1, AcceptedIsHalved DEF HostRuns
  <2>3. Addressed(s, l)
    <3>1. \A t \in Names["rawHost"] \cup Ports["rawHost"] : t \in Seq(Character) /\ \A i \in 1 .. Len(t) : t[i] # ":"
      BY <2>1, ExpressionAssumption
    <3> QED
      BY <2>1, <3>1, AuthorityIs
  <2>4. Finds(Lowered(anchorRawRegex(rule)), s)
    BY DEF ProxyAccepts, Proxy
  <2> HIDE DEF l, s, d, p
  <2>5. /\ Whole(rule) /\ NoBar(rule) /\ Whole(d) /\ NoBar(d) /\ Whole(p) /\ NoBar(p)
        /\ p # <<>> /\ p[1] \notin Quantifiers /\ rule = d \o p /\ HostHalf(rule) = WithoutCaret(d)
        /\ d \in Seq(Token) /\ p \in Seq(Token)
    BY <2>2 DEF Halved, Whole, d, p
  <2>6. Alike(rule, lr) /\ Alike(d, ld) /\ Alike(p, lp)
    BY <2>1, <2>5, LoweredAlike
  <2>7. lr = ld \o lp
    BY <2>5, LoweredJoin
  <2>8. Lowered(anchorRawRegex(rule)) = anchorRawRegex(lr)
    BY <2>1, LoweredAnchors
  <2> HIDE DEF lr, ld, lp
  <2>9. Whole(lr) /\ NoBar(lr) /\ Whole(ld) /\ NoBar(ld) /\ Whole(lp) /\ NoBar(lp)
    BY <2>5, <2>6, WholeAlike
  <2>10. lp # <<>> /\ lp[1] \notin Quantifiers
    <3>1. lp # <<>>
      BY <2>5, <2>6 DEF Alike
    <3> QED
      BY <2>9, <3>1, FirstRises
  <2>11. Len(s) \in Nat /\ Len(l) \in Nat
    BY <2>3 DEF Addressed, Before
  <2>12. Spans(lr, s)
    BY <2>4, <2>8, <2>9, <2>11, AnchoredMatchesAll
  <2>13. ASSUME ColonFirst(lp, s), NeverEmpty(lp, s) \/ WithoutColon(HostHalf(rule))
         PROVE  Spans(Lowered(HostHalf(rule)), l)
    <3>1. NeverEmpty(lp, s) \/ WithoutColon(ld)
      <4>1. ASSUME WithoutColon(WithoutCaret(d))
            PROVE  WithoutColon(d)
        <5>1. CASE ~ StartsWith(d, "^")
          BY <4>1, <5>1 DEF WithoutCaret
        <5>2. CASE StartsWith(d, "^")
          <6>1. d # <<>> /\ d[1] = "^" /\ WithoutColon(Tail(d))
            BY <4>1, <5>2 DEF StartsWith, WithoutCaret
          <6>2. Chars("^") = "^"
            <7>1. \A c \in Meta : Escape(c) # "^"
              BY DEF Meta, Escape
            <7> QED
              BY <7>1 DEF Chars
          <6>3. ASSUME NEW i \in 1 .. Len(d)
                PROVE  d[i] \notin {".", "[^"} /\ Chars(d[i]) # ":"
            <7>1. CASE i = 1
              BY <6>1, <6>2, <7>1
            <7>2. CASE i # 1
              <8> DEFINE j == i - 1
              <8>1. j \in 1 .. Len(Tail(d)) /\ Tail(d)[j] = d[i]
                BY <2>5, <6>1, <7>2
              <8> HIDE DEF j
              <8> QED
                BY <6>1, <8>1 DEF WithoutColon
            <7> QED
              BY <7>1, <7>2
          <6> QED
            BY <6>3 DEF WithoutColon
        <5> QED
          BY <5>1, <5>2
      <4>2. ASSUME WithoutColon(d)
            PROVE  WithoutColon(ld)
        BY <2>5, <4>2, LoweredWithoutColon DEF ld
      <4> QED
        BY <2>5, <2>13, <4>1, <4>2
    <3>2. Spans(ld, l)
      BY <2>3, <2>7, <2>9, <2>10, <2>12, <2>13, <3>1, TheNameIsLeft
    <3> QED
      BY <2>5, <2>11, <3>2, TheHalfSpans DEF ld
  <2> QED
    BY <2>12, <2>13 DEF ResolverAccepts, s, l, lr, lp, p
<1> QED
  BY <1>1, RawTyped, PTL

-----------------------------------------------------------------------------
(* A match is the same in a larger text, but for anchors *)

\* The tokens an expression is written with; its parts are written with no other.
Written(r) == {r[i] : i \in 1 .. Len(r)}

LEMMA CutsWrite ==
  ASSUME NEW r \in Seq(Token), NEW x \in 1 .. Len(r) + 1, NEW y \in x - 1 .. Len(r)
  PROVE  Written(SubSeq(r, x, y)) \subseteq Written(r)
<1> DEFINE t == SubSeq(r, x, y)
           M == y - x + 1
<1>1. Len(r) \in Nat
  OBVIOUS
<1>2. Len(t) = M /\ \A j \in 1 .. M : t[j] = r[x + j - 1]
  BY SubSeqs
<1>3. \A j \in 1 .. M : x + j - 1 \in 1 .. Len(r)
  BY <1>1
<1> HIDE DEF t, M
<1>4. Written(t) \subseteq Written(r)
  BY <1>2, <1>3 DEF Written
<1> QED
  BY <1>4 DEF t

LEMMA PartsWrite ==
  ASSUME NEW r, Whole(r)
  PROVE  /\ ~ NoBar(r) => /\ Written(Upto(r, FirstBar(r))) \subseteq Written(r)
                          /\ Written(From(r, FirstBar(r) + 1)) \subseteq Written(r)
         /\ NoBar(r) /\ r # <<>> => /\ Written(Rest(r)) \subseteq Written(r)
                                    /\ r[1] \in Openings => Written(Inner(r)) \subseteq Written(r)
                                    /\ r[1] \in Written(r)
<1>1. r \in Seq(Token) /\ Len(r) \in Nat
  BY DEF Whole
<1>2. ASSUME ~ NoBar(r)
      PROVE  /\ Written(Upto(r, FirstBar(r))) \subseteq Written(r)
             /\ Written(From(r, FirstBar(r) + 1)) \subseteq Written(r)
  <2> DEFINE b == FirstBar(r)
  <2>1. b \in 1 .. Len(r)
    BY <1>2, AlternativesAreWhole
  <2> HIDE DEF b
  <2>2. 1 \in 1 .. Len(r) + 1 /\ b - 1 \in 1 - 1 .. Len(r) /\ b + 1 \in 1 .. Len(r) + 1 /\ Len(r) \in b + 1 - 1 .. Len(r)
    BY <1>1, <2>1
  <2>3. Written(SubSeq(r, 1, b - 1)) \subseteq Written(r) /\ Written(SubSeq(r, b + 1, Len(r))) \subseteq Written(r)
    BY <1>1, <2>2, CutsWrite
  <2> QED
    BY <2>3 DEF Upto, From, b
<1>3. ASSUME NoBar(r), r # <<>>
      PROVE  /\ Written(Rest(r)) \subseteq Written(r)
             /\ r[1] \in Openings => Written(Inner(r)) \subseteq Written(r)
             /\ r[1] \in Written(r)
  <2> DEFINE e == AtomEnd(r)
             k == IF Mark(r) = "once" THEN e + 1 ELSE e + 2
  <2>1. Parted(r)
    BY <1>3, Parting
  <2>2. e \in 1 .. Len(r) /\ (Mark(r) # "once" => e < Len(r))
    BY <2>1 DEF Parted, AtomIs
  <2>3. k \in 1 .. Len(r) + 1 /\ Len(r) \in k - 1 .. Len(r)
    BY <1>1, <2>2
  <2>4. Rest(r) = SubSeq(r, k, Len(r))
    BY DEF Rest, From
  <2> HIDE DEF k
  <2>5. Written(Rest(r)) \subseteq Written(r)
    BY <1>1, <2>3, <2>4, CutsWrite
  <2>6. ASSUME r[1] \in Openings
        PROVE  Written(Inner(r)) \subseteq Written(r)
    <3>1. e \in 2 .. Len(r)
      BY <2>1, <2>6 DEF Parted
    <3> HIDE DEF e
    <3>2. 2 \in 1 .. Len(r) + 1 /\ e - 1 \in 2 - 1 .. Len(r)
      BY <1>1, <3>1
    <3>3. Written(SubSeq(r, 2, e - 1)) \subseteq Written(r)
      BY <1>1, <3>2, CutsWrite
    <3> QED
      BY <3>3 DEF Inner, e
  <2>7. 1 \in 1 .. Len(r)
    BY <1>1, <2>2
  <2> QED
    BY <2>5, <2>6, <2>7 DEF Written
<1> QED
  BY <1>2, <1>3

\* n stands in s, after k of it; an anchor is bound to the end of both or of neither.
Embedded(n, s, k) ==
  /\ Len(n) \in Nat /\ Len(s) \in Nat /\ k \in Nat /\ k + Len(n) <= Len(s)
  /\ \A i \in 1 .. Len(n) : s[k + i] = n[i]
Unbound(r, n, s, k) == "^" \notin Written(r) /\ ("$" \notin Written(r) \/ Len(s) = k + Len(n))
Moved(I, k) == {i + k : i \in I}
Moves(r, n, s, k) ==
  Unbound(r, n, s, k) =>
    \A I \in SUBSET Positions(n) : Moved(Ends(r, n, I), k) \subseteq Ends(r, s, Moved(I, k))
OnceMoves(r, n, s, k) ==
  \A I \in SUBSET Positions(n) : Moved(OnceOf(r, n, I), k) \subseteq OnceOf(r, s, Moved(I, k))
MarkedMoves(r, n, s, k) ==
  \A I \in SUBSET Positions(n) : Moved(Marked(r, n, I), k) \subseteq Marked(r, s, Moved(I, k))

LEMMA MovedStays ==
  ASSUME NEW n, NEW s, NEW k, Embedded(n, s, k)
  PROVE  \A I \in SUBSET Positions(n) : Moved(I, k) \in SUBSET Positions(s)
BY DEF Embedded, Positions, Moved

LEMMA OnceIsMoved ==
  ASSUME NEW n, NEW s, NEW k, Embedded(n, s, k), NEW r, Whole(r), r # <<>>, NoBar(r), Unbound(r, n, s, k),
         r[1] \in Openings =>
           \A I \in SUBSET Positions(n) : Moved(Ends(Inner(r), n, I), k) \subseteq Ends(Inner(r), s, Moved(I, k))
  PROVE  OnceMoves(r, n, s, k)
<1>1. Len(n) \in Nat /\ Len(s) \in Nat /\ k \in Nat /\ k + Len(n) <= Len(s) /\ \A i \in 1 .. Len(n) : s[k + i] = n[i]
  BY DEF Embedded
<1>2. \A J \in SUBSET Positions(n) :
        /\ r[1] \in Openings => OnceOf(r, n, J) = Ends(Inner(r), n, J)
        /\ r[1] = "$" => OnceOf(r, n, J) = J \cap {Len(n) + 1}
        /\ r[1] \notin Openings \cup Assertions => OnceOf(r, n, J) = Taking(r, n, J)
  BY <1>1, OnceIs
<1>3. \A J \in SUBSET Positions(s) :
        /\ r[1] \in Openings => OnceOf(r, s, J) = Ends(Inner(r), s, J)
        /\ r[1] = "$" => OnceOf(r, s, J) = J \cap {Len(s) + 1}
        /\ r[1] \notin Openings \cup Assertions => OnceOf(r, s, J) = Taking(r, s, J)
  BY <1>1, OnceIs
<1>4. r[1] \in Written(r)
  BY PartsWrite
<1>5. ASSUME NEW I \in SUBSET Positions(n), NEW e \in OnceOf(r, n, I)
      PROVE  e + k \in OnceOf(r, s, Moved(I, k))
  <2> DEFINE K == Moved(I, k)
  <2>1. K \in SUBSET Positions(s)
    BY MovedStays
  <2>2. CASE r[1] \in Openings
    <3>1. e \in Ends(Inner(r), n, I) /\ OnceOf(r, s, K) = Ends(Inner(r), s, K)
      BY <1>2, <1>3, <1>5, <2>1, <2>2
    <3>2. e + k \in Moved(Ends(Inner(r), n, I), k)
      BY <3>1 DEF Moved
    <3> QED
      BY <2>2, <3>1, <3>2
  <2>3. CASE r[1] = "^"
    BY <1>4, <2>3 DEF Unbound
  <2>4. CASE r[1] = "$"
    <3>1. e \in I /\ e = Len(n) + 1 /\ OnceOf(r, s, K) = K \cap {Len(s) + 1}
      BY <1>2, <1>3, <1>5, <2>1, <2>4
    <3>2. Len(s) = k + Len(n)
      BY <1>4, <2>4 DEF Unbound
    <3>3. e + k \in K /\ e + k = Len(s) + 1
      BY <1>1, <3>1, <3>2 DEF Moved
    <3> QED
      BY <3>1, <3>3
  <2>5. CASE r[1] \notin Openings \cup Assertions
    <3>1. e \in Taking(r, n, I) /\ OnceOf(r, s, K) = Taking(r, s, K)
      BY <1>2, <1>3, <1>5, <2>1, <2>5
    <3>2. PICK j \in I : e = j + 1 /\ j <= Len(n) /\ Admits(r, n[j])
      BY <3>1 DEF Taking
    <3> DEFINE m == j + k
    <3>3. j \in 1 .. Len(n) /\ m = k + j
      BY <1>1, <3>2 DEF Positions
    <3>4. s[m] = n[j] /\ m \in K /\ m <= Len(s) /\ e + k = m + 1
      BY <1>1, <3>2, <3>3 DEF Moved
    <3> HIDE DEF m, K
    <3>5. m + 1 \in Taking(r, s, K)
      BY <3>2, <3>4 DEF Taking
    <3> QED
      BY <3>1, <3>4, <3>5 DEF K
  <2> QED
    BY <2>2, <2>3, <2>4, <2>5 DEF Assertions
<1> QED
  BY <1>5 DEF OnceMoves, Moved

LEMMA MarkedIsMoved ==
  ASSUME NEW n, NEW s, NEW k, Embedded(n, s, k), NEW r, Whole(r), r # <<>>, NoBar(r), OnceMoves(r, n, s, k)
  PROVE  MarkedMoves(r, n, s, k)
<1> DEFINE P == Positions(s)
           Q == Positions(n)
<1>1. Len(n) \in Nat /\ Len(s) \in Nat
  BY DEF Embedded
<1>2. \A I \in SUBSET Q : \A X :
        I \subseteq X /\ (\A J \in SUBSET Q : J \subseteq X => OnceOf(r, n, J) \subseteq X)
          => Repeated(r, n, I) \subseteq X
  BY <1>1, RepeatedIs
<1>3. \A I \in SUBSET P : /\ Repeated(r, s, I) \in SUBSET P /\ I \subseteq Repeated(r, s, I)
                          /\ OnceOf(r, s, Repeated(r, s, I)) \subseteq Repeated(r, s, I)
  BY <1>1, RepeatedIs
<1>4. \A I \in SUBSET P : \A J \in SUBSET P : I \subseteq J => OnceOf(r, s, I) \subseteq OnceOf(r, s, J)
  BY <1>1, OnceGrows
<1>5. \A I \in SUBSET Q : \A e \in OnceOf(r, n, I) : e + k \in OnceOf(r, s, Moved(I, k))
  BY DEF OnceMoves, Moved
<1>6. \A I \in SUBSET Q :
        /\ OnceOf(r, n, I) \in SUBSET Q
        /\ \/ Mark(r) = "once" /\ Marked(r, n, I) = OnceOf(r, n, I)
           \/ Mark(r) = "?" /\ Marked(r, n, I) = I \cup OnceOf(r, n, I)
           \/ Mark(r) = "*" /\ Marked(r, n, I) = Repeated(r, n, I)
           \/ Mark(r) = "+" /\ Marked(r, n, I) = Repeated(r, n, OnceOf(r, n, I))
  BY <1>1, MarkedIs
<1>7. \A I \in SUBSET P :
        /\ OnceOf(r, s, I) \in SUBSET P
        /\ \/ Mark(r) = "once" /\ Marked(r, s, I) = OnceOf(r, s, I)
           \/ Mark(r) = "?" /\ Marked(r, s, I) = I \cup OnceOf(r, s, I)
           \/ Mark(r) = "*" /\ Marked(r, s, I) = Repeated(r, s, I)
           \/ Mark(r) = "+" /\ Marked(r, s, I) = Repeated(r, s, OnceOf(r, s, I))
  BY <1>1, MarkedIs
<1>8. \A I \in SUBSET Q : Moved(I, k) \in SUBSET P
  BY MovedStays
<1>9. \A I : \A e : e \in Moved(I, k) <=> \E i \in I : e = i + k
  BY DEF Moved
<1> HIDE DEF P, Q
<1>10. ASSUME NEW I \in SUBSET Q, NEW K \in SUBSET P, \A i \in I : i + k \in K
       PROVE  \A e \in Repeated(r, n, I) : e + k \in Repeated(r, s, K)
  <2> DEFINE R == Repeated(r, s, K)
             X == {x \in I \cup Q : x + k \in R}
  <2>1. R \in SUBSET P /\ K \subseteq R /\ OnceOf(r, s, R) \subseteq R
    BY <1>3
  <2> HIDE DEF R
  <2>2. I \subseteq X
    BY <1>10, <2>1
  <2>3. ASSUME NEW J \in SUBSET Q, J \subseteq X
        PROVE  OnceOf(r, n, J) \subseteq X
    <3>1. OnceOf(r, n, J) \in SUBSET Q
      BY <1>6
    <3>2. Moved(J, k) \subseteq R /\ Moved(J, k) \in SUBSET P
      BY <1>8, <1>9, <2>3
    <3>3. OnceOf(r, s, Moved(J, k)) \subseteq OnceOf(r, s, R)
      BY <1>4, <2>1, <3>2
    <3>4. \A e \in OnceOf(r, n, J) : e + k \in OnceOf(r, s, Moved(J, k))
      BY <1>5
    <3> QED
      BY <2>1, <3>1, <3>3, <3>4
  <2>4. Repeated(r, n, I) \subseteq X
    <3> HIDE DEF X
    <3> QED
      BY <1>2, <2>2, <2>3
  <2> QED
    BY <2>4 DEF R
<1>11. ASSUME NEW I \in SUBSET Q, NEW e \in Marked(r, n, I)
       PROVE  e + k \in Marked(r, s, Moved(I, k))
  <2> DEFINE K == Moved(I, k)
             U == OnceOf(r, n, I)
             V == OnceOf(r, s, K)
  <2>1. K \in SUBSET P /\ \A i \in I : i + k \in K
    BY <1>8, <1>9
  <2>2. \A u \in U : u + k \in V
    BY <1>5
  <2> HIDE DEF K
  <2>3. U \in SUBSET Q /\ V \in SUBSET P
    BY <1>6, <1>7, <2>1
  <2>4. \/ Mark(r) = "once" /\ Marked(r, n, I) = U
        \/ Mark(r) = "?" /\ Marked(r, n, I) = I \cup U
        \/ Mark(r) = "*" /\ Marked(r, n, I) = Repeated(r, n, I)
        \/ Mark(r) = "+" /\ Marked(r, n, I) = Repeated(r, n, U)
    BY <1>6
  <2>5. \/ Mark(r) = "once" /\ Marked(r, s, K) = V
        \/ Mark(r) = "?" /\ Marked(r, s, K) = K \cup V
        \/ Mark(r) = "*" /\ Marked(r, s, K) = Repeated(r, s, K)
        \/ Mark(r) = "+" /\ Marked(r, s, K) = Repeated(r, s, V)
    BY <1>7, <2>1
  <2> HIDE DEF U, V
  <2>6. \A x \in Repeated(r, n, I) : x + k \in Repeated(r, s, K)
    BY <1>10, <2>1
  <2>7. \A x \in Repeated(r, n, U) : x + k \in Repeated(r, s, V)
    BY <1>10, <2>2, <2>3
  <2>8. e + k \in Marked(r, s, K)
    BY <1>11, <2>1, <2>2, <2>4, <2>5, <2>6, <2>7
  <2> QED
    BY <2>8 DEF K
<1> QED
  BY <1>11 DEF MarkedMoves, Moved, Q

LEMMA Moving ==
  ASSUME NEW n, NEW s, NEW k, Embedded(n, s, k)
  PROVE  \A r \in Seq(Token) : Whole(r) => Moves(r, n, s, k)
<1> DEFINE T == {r \in Seq(Token) : Whole(r) /\ Moves(r, n, s, k)}
           P == Positions(s)
           Q == Positions(n)
<1>0. Len(n) \in Nat /\ Len(s) \in Nat /\ \A I \in SUBSET Q : Moved(I, k) \in SUBSET P
  BY MovedStays DEF Embedded
<1>1. <<>> \in T
  <2> DEFINE r == <<>>
  <2>1. r \in Seq(Token) /\ Whole(r)
    BY EmptyIsWhole
  <2> HIDE DEF r
  <2>2. /\ \A I \in SUBSET P : Ends(r, s, I) = I
        /\ \A I \in SUBSET Q : Ends(r, n, I) = I
    BY <1>0, <2>1, Unfolds DEF r
  <2>3. ASSUME NEW I \in SUBSET Q
        PROVE  Moved(Ends(r, n, I), k) \subseteq Ends(r, s, Moved(I, k))
    <3>1. Ends(r, n, I) = I /\ Ends(r, s, Moved(I, k)) = Moved(I, k)
      BY <1>0, <2>2
    <3> QED
      BY <3>1
  <2>4. Moves(r, n, s, k)
    BY <2>3 DEF Moves
  <2> QED
    BY <2>1, <2>4 DEF r
<1>2. ASSUME NEW r \in Seq(Token), Whole(r), ~ NoBar(r), Upto(r, FirstBar(r)) \in T, From(r, FirstBar(r) + 1) \in T
      PROVE  r \in T
  <2> DEFINE x == Upto(r, FirstBar(r))
             y == From(r, FirstBar(r) + 1)
  <2>1. /\ \A I \in SUBSET P : Ends(r, s, I) = Ends(x, s, I) \cup Ends(y, s, I)
        /\ \A I \in SUBSET Q : Ends(r, n, I) = Ends(x, n, I) \cup Ends(y, n, I)
    BY <1>0, <1>2, Unfolds
  <2>2. Moves(x, n, s, k) /\ Moves(y, n, s, k)
    BY <1>2
  <2>3. Written(x) \subseteq Written(r) /\ Written(y) \subseteq Written(r)
    BY <1>2, PartsWrite
  <2> HIDE DEF x, y
  <2>4. ASSUME Unbound(r, n, s, k), NEW I \in SUBSET Q
        PROVE  Moved(Ends(r, n, I), k) \subseteq Ends(r, s, Moved(I, k))
    <3>1. Unbound(x, n, s, k) /\ Unbound(y, n, s, k)
      BY <2>3, <2>4 DEF Unbound
    <3>2. /\ Moved(Ends(x, n, I), k) \subseteq Ends(x, s, Moved(I, k))
          /\ Moved(Ends(y, n, I), k) \subseteq Ends(y, s, Moved(I, k))
      BY <2>2, <3>1 DEF Moves
    <3>3. Ends(r, s, Moved(I, k)) = Ends(x, s, Moved(I, k)) \cup Ends(y, s, Moved(I, k))
      BY <1>0, <2>1
    <3>4. Ends(r, n, I) = Ends(x, n, I) \cup Ends(y, n, I)
      BY <2>1
    <3>5. \A A, B : Moved(A \cup B, k) = Moved(A, k) \cup Moved(B, k)
      BY DEF Moved
    <3> QED
      BY <3>2, <3>3, <3>4, <3>5
  <2>5. Moves(r, n, s, k)
    BY <2>4 DEF Moves
  <2> QED
    BY <1>2, <2>5
<1>3. ASSUME NEW r \in Seq(Token), Whole(r), NoBar(r), r # <<>>, Rest(r) \in T, r[1] \in Openings => Inner(r) \in T
      PROVE  r \in T
  <2>1. Moves(Rest(r), n, s, k) /\ Whole(Rest(r)) /\ (r[1] \in Openings => Moves(Inner(r), n, s, k))
    BY <1>3
  <2>2. /\ \A I \in SUBSET P :
             Ends(r, s, I) = Ends(Rest(r), s, Marked(r, s, I)) /\ Marked(r, s, I) \in SUBSET P
        /\ \A I \in SUBSET Q :
             Ends(r, n, I) = Ends(Rest(r), n, Marked(r, n, I)) /\ Marked(r, n, I) \in SUBSET Q
    BY <1>0, <1>3, Unfolds, MarkedIs
  <2>3. \A I \in SUBSET P : \A J \in SUBSET P : I \subseteq J => Ends(Rest(r), s, I) \subseteq Ends(Rest(r), s, J)
    BY <1>0, <2>1, Growing
  <2>4. /\ Written(Rest(r)) \subseteq Written(r)
        /\ r[1] \in Openings => Written(Inner(r)) \subseteq Written(r)
    BY <1>3, PartsWrite
  <2>5. ASSUME Unbound(r, n, s, k), NEW I \in SUBSET Q
        PROVE  Moved(Ends(r, n, I), k) \subseteq Ends(r, s, Moved(I, k))
    <3> DEFINE K == Moved(I, k)
               M == Marked(r, n, I)
               W == Moved(M, k)
               V == Marked(r, s, K)
    <3>1. Unbound(Rest(r), n, s, k) /\ (r[1] \in Openings => Unbound(Inner(r), n, s, k))
      BY <2>4, <2>5 DEF Unbound
    <3>2. r[1] \in Openings =>
            \A J \in SUBSET Q : Moved(Ends(Inner(r), n, J), k) \subseteq Ends(Inner(r), s, Moved(J, k))
      BY <2>1, <3>1 DEF Moves
    <3>3. OnceMoves(r, n, s, k)
      BY <1>3, <2>5, <3>2, OnceIsMoved
    <3>4. MarkedMoves(r, n, s, k)
      BY <1>3, <3>3, MarkedIsMoved
    <3>5. W \subseteq V
      BY <3>4 DEF MarkedMoves
    <3>6. K \in SUBSET P
      BY <1>0
    <3>7. M \in SUBSET Q /\ Ends(r, n, I) = Ends(Rest(r), n, M)
      BY <2>2
    <3>8. V \in SUBSET P /\ Ends(r, s, K) = Ends(Rest(r), s, V)
      BY <2>2, <3>6
    <3>9. W \in SUBSET P
      BY <1>0, <3>7
    <3>10. Moved(Ends(Rest(r), n, M), k) \subseteq Ends(Rest(r), s, W)
      BY <2>1, <3>1, <3>7 DEF Moves
    <3> HIDE DEF K, M, W, V
    <3>11. Ends(Rest(r), s, W) \subseteq Ends(Rest(r), s, V)
      BY <2>3, <3>5, <3>8, <3>9
    <3>12. Moved(Ends(r, n, I), k) \subseteq Ends(r, s, K)
      BY <3>7, <3>8, <3>10, <3>11
    <3> QED
      BY <3>12 DEF K
  <2>6. Moves(r, n, s, k)
    BY <2>5 DEF Moves
  <2> QED
    BY <1>3, <2>6
<1> HIDE DEF T
<1>4. \A r \in Seq(Token) : Whole(r) => r \in T
  BY <1>1, <1>2, <1>3, ByParts
<1> QED
  BY <1>4 DEF T

-----------------------------------------------------------------------------
(* A token that stands for a character *)

Special == Openings \cup ClassOpenings \cup Quantifiers \cup Assertions \cup {")", "|", "\\Q", "\\E", ".", "\\d"}

\* An expression that begins with one: it takes its character, or need not where
\* a question mark follows.
LEMMA TakesOne ==
  ASSUME NEW s, Len(s) \in Nat, NEW r, Whole(r), NoBar(r), r # <<>>, r[1] \notin Special, NEW j \in Positions(s)
  PROVE  /\ Len(r) = 1 \/ r[2] \notin Quantifiers =>
              /\ Whole(From(r, 2)) /\ NoBar(From(r, 2))
              /\ j <= Len(s) /\ s[j] = Chars(r[1]) => Ends(From(r, 2), s, {j + 1}) \subseteq Ends(r, s, {j})
         /\ Len(r) > 1 /\ r[2] = "?" =>
              /\ Whole(From(r, 3)) /\ NoBar(From(r, 3))
              /\ Ends(From(r, 3), s, {j}) \subseteq Ends(r, s, {j})
              /\ j <= Len(s) /\ s[j] = Chars(r[1]) => Ends(From(r, 3), s, {j + 1}) \subseteq Ends(r, s, {j})
<1>1. Parted(r) /\ r \in Seq(Token) /\ Len(r) \in Nat
  BY Parting DEF Whole
<1>2. AtomEnd(r) = 1 /\ Len(r) >= 1
  <2>1. IsOver(r, 1)
    BY FirstRises DEF Special
  <2>2. AtomIs(r, AtomEnd(r))
    BY <1>1 DEF Parted
  <2> QED
    BY <1>1, <2>1, <2>2 DEF AtomIs
<1>3. {j} \in SUBSET Positions(s)
  OBVIOUS
<1>4. Ends(r, s, {j}) = Ends(Rest(r), s, Marked(r, s, {j})) /\ Marked(r, s, {j}) \in SUBSET Positions(s)
  BY <1>3, Unfolds, MarkedIs
<1>5. OnceOf(r, s, {j}) = Taking(r, s, {j})
  BY <1>3, OnceIs DEF Special
<1>6. j <= Len(s) /\ s[j] = Chars(r[1]) => j + 1 \in OnceOf(r, s, {j}) /\ {j + 1} \in SUBSET Positions(s)
  <2>1. Admits(r, Chars(r[1]))
    BY DEF Admits, Special
  <2> SUFFICES ASSUME j <= Len(s), s[j] = Chars(r[1])
               PROVE  j + 1 \in OnceOf(r, s, {j}) /\ {j + 1} \in SUBSET Positions(s)
    OBVIOUS
  <2>2. j + 1 \in Taking(r, s, {j})
    BY <2>1 DEF Taking
  <2>3. j + 1 \in Positions(s)
    BY DEF Positions
  <2> QED
    BY <1>5, <2>2, <2>3
<1>7. \A K : K \in SUBSET Positions(s) /\ K \subseteq Marked(r, s, {j}) => Ends(Rest(r), s, K) \subseteq Ends(r, s, {j})
  BY <1>1, <1>4, Growing DEF Parted
<1>8. ASSUME Len(r) = 1 \/ r[2] \notin Quantifiers
      PROVE  /\ Whole(From(r, 2)) /\ NoBar(From(r, 2))
             /\ j <= Len(s) /\ s[j] = Chars(r[1]) => Ends(From(r, 2), s, {j + 1}) \subseteq Ends(r, s, {j})
  <2>1. Mark(r) = "once"
    BY <1>1, <1>2, <1>8 DEF Mark, MarkAt
  <2>2. Rest(r) = From(r, 2)
    BY <1>2, <2>1 DEF Rest
  <2>3. Marked(r, s, {j}) = OnceOf(r, s, {j})
    BY <1>3, <2>1, MarkedIs
  <2>4. j <= Len(s) /\ s[j] = Chars(r[1]) => Ends(Rest(r), s, {j + 1}) \subseteq Ends(r, s, {j})
    BY <1>6, <1>7, <2>3
  <2> QED
    BY <1>1, <2>2, <2>4 DEF Parted
<1>9. ASSUME Len(r) > 1, r[2] = "?"
      PROVE  /\ Whole(From(r, 3)) /\ NoBar(From(r, 3))
             /\ Ends(From(r, 3), s, {j}) \subseteq Ends(r, s, {j})
             /\ j <= Len(s) /\ s[j] = Chars(r[1]) => Ends(From(r, 3), s, {j + 1}) \subseteq Ends(r, s, {j})
  <2>1. Mark(r) = "?"
    BY <1>1, <1>2, <1>9 DEF Mark, MarkAt, Quantifiers
  <2>2. Rest(r) = From(r, 3)
    BY <1>2, <2>1 DEF Rest
  <2>3. Marked(r, s, {j}) = {j} \cup OnceOf(r, s, {j})
    BY <1>3, <2>1, MarkedIs
  <2>4. Ends(Rest(r), s, {j}) \subseteq Ends(r, s, {j})
    BY <1>3, <1>7, <2>3
  <2>5. j <= Len(s) /\ s[j] = Chars(r[1]) => Ends(Rest(r), s, {j + 1}) \subseteq Ends(r, s, {j})
    BY <1>6, <1>7, <2>3
  <2> QED
    BY <1>1, <2>2, <2>4, <2>5 DEF Parted
<1> QED
  BY <1>8, <1>9

LEMMA FromFrom ==
  ASSUME NEW r \in Seq(Token), NEW i \in 1 .. Len(r) + 1, NEW m \in 1 .. Len(r) - i + 2
  PROVE  From(From(r, i), m) = From(r, i + m - 1)
<1> DEFINE N == Len(r)
           x == From(r, i)
           y == From(x, m)
           h == i + m - 1
           z == From(r, h)
<1>1. N \in Nat /\ h \in 1 .. N + 1 /\ N \in i - 1 .. N /\ N \in h - 1 .. N
  OBVIOUS
<1>2. x \in Seq(Token) /\ Len(x) = N - i + 1 /\ \A j \in 1 .. N - i + 1 : x[j] = r[i + j - 1]
  BY <1>1, SubSeqs DEF From
<1>3. z \in Seq(Token) /\ Len(z) = N - h + 1 /\ \A j \in 1 .. N - h + 1 : z[j] = r[h + j - 1]
  <2> HIDE DEF h
  <2> QED
    BY <1>1, SubSeqs DEF From
<1> HIDE DEF x, z
<1>4. m \in 1 .. Len(x) + 1 /\ Len(x) \in m - 1 .. Len(x)
  BY <1>1, <1>2
<1>5. y \in Seq(Token) /\ Len(y) = Len(x) - m + 1 /\ \A j \in 1 .. Len(x) - m + 1 : y[j] = x[m + j - 1]
  BY <1>2, <1>4, SubSeqs DEF From
<1> HIDE DEF y
<1>6. Len(y) = N - h + 1
  BY <1>1, <1>2, <1>5
<1>7. ASSUME NEW j \in 1 .. N - h + 1
      PROVE  y[j] = z[j]
  <2> DEFINE g == m + j - 1
  <2>1. j \in 1 .. Len(x) - m + 1 /\ g \in 1 .. N - i + 1 /\ i + g - 1 = h + j - 1
    BY <1>1, <1>2
  <2>2. y[j] = x[g]
    BY <1>5, <2>1
  <2> HIDE DEF g, h
  <2>3. x[g] = r[i + g - 1] /\ z[j] = r[h + j - 1]
    BY <1>2, <1>3, <2>1
  <2> QED
    BY <2>1, <2>2, <2>3
<1>8. y = z
  BY <1>3, <1>5, <1>6, <1>7, SeqEqual
<1> QED
  BY <1>8 DEF x, y, z

LEMMA FromIs ==
  ASSUME NEW r \in Seq(Token), NEW i \in 1 .. Len(r) + 1
  PROVE  /\ From(r, i) \in Seq(Token) /\ Len(From(r, i)) = Len(r) - i + 1
         /\ \A j \in 1 .. Len(r) - i + 1 : From(r, i)[j] = r[i + j - 1]
<1>1. Len(r) \in i - 1 .. Len(r)
  OBVIOUS
<1> QED
  BY <1>1, SubSeqs DEF From

\* An expression that begins with characters takes them, one after another.
LEMMA TakesMany ==
  ASSUME NEW s, Len(s) \in Nat, NEW r, Whole(r), NoBar(r), NEW N \in 0 .. Len(r),
         \A i \in 1 .. N : r[i] \notin Special, N < Len(r) => r[N + 1] \notin Quantifiers,
         NEW j \in Positions(s), j + N <= Len(s) + 1, \A i \in 1 .. N : s[j + i - 1] = Chars(r[i])
  PROVE  /\ Whole(From(r, N + 1)) /\ NoBar(From(r, N + 1))
         /\ Ends(From(r, N + 1), s, {j + N}) \subseteq Ends(r, s, {j})
<1> DEFINE Goes(k) == /\ Whole(From(r, k + 1)) /\ NoBar(From(r, k + 1))
                      /\ Ends(From(r, k + 1), s, {j + k}) \subseteq Ends(r, s, {j})
           T == {k \in 0 .. N : Goes(k)}
<1>1. r \in Seq(Token) /\ Len(r) \in Nat /\ N \in Nat /\ j \in Nat /\ j >= 1 /\ N <= Len(r)
  BY DEF Whole, Positions
<1>2. 0 \in T
  <2>1. From(r, 1) = r
    <3>1. 1 \in 1 .. Len(r) + 1
      BY <1>1
    <3>2. From(r, 1) \in Seq(Token) /\ Len(From(r, 1)) = Len(r) - 1 + 1 /\ \A i \in 1 .. Len(r) - 1 + 1 : From(r, 1)[i] = r[1 + i - 1]
      BY <1>1, <3>1, FromIs
    <3> DEFINE x == From(r, 1)
    <3> HIDE DEF x
    <3>3. x \in Seq(Token) /\ Len(x) = Len(r)
      BY <1>1, <3>2 DEF x
    <3>4. ASSUME NEW i \in 1 .. Len(r)
          PROVE  x[i] = r[i]
      <4>1. i \in 1 .. Len(r) - 1 + 1 /\ 1 + i - 1 = i
        BY <1>1
      <4>2. x[i] = r[1 + i - 1]
        BY <3>2, <4>1 DEF x
      <4> QED
        BY <4>1, <4>2
    <3>5. x = r
      BY <1>1, <3>3, <3>4, SeqEqual
    <3> QED
      BY <3>5 DEF x
  <2>2. 0 + 1 = 1 /\ j + 0 = j /\ 0 \in 0 .. N
    BY <1>1
  <2> QED
    BY <2>1, <2>2
<1>3. ASSUME NEW k \in 0 .. N - 1, k \in T
      PROVE  k + 1 \in T
  <2> DEFINE x == From(r, k + 1)
             y == From(r, (k + 1) + 1)
             h == j + k
  <2>1. k + 1 \in 1 .. N /\ k + 1 \in 1 .. Len(r) /\ k + 1 \in 1 .. Len(r) + 1 /\ k + 1 \in 0 .. N /\ h \in Nat /\ k \in Nat
    BY <1>1
  <2>2. Whole(x) /\ NoBar(x) /\ Ends(x, s, {h}) \subseteq Ends(r, s, {j})
    BY <1>3
  <2>3. x \in Seq(Token) /\ Len(x) = Len(r) - (k + 1) + 1 /\ \A i \in 1 .. Len(r) - (k + 1) + 1 : x[i] = r[(k + 1) + i - 1]
    BY <1>1, <2>1, FromIs
  <2>4. From(x, 2) = y
    <3>1. 2 \in 1 .. Len(r) - (k + 1) + 2 /\ (k + 1) + 2 - 1 = (k + 1) + 1
      BY <1>1, <2>1
    <3> QED
      BY <1>1, <2>1, <3>1, FromFrom
  <2>5. Len(x) >= 1 /\ x # <<>> /\ x[1] = r[k + 1]
    <3>1. 1 \in 1 .. Len(r) - (k + 1) + 1 /\ (k + 1) + 1 - 1 = k + 1
      BY <1>1, <2>1
    <3> QED
      BY <2>3, <3>1
  <2>6. Len(x) = 1 \/ x[2] \notin Quantifiers
    <3>1. ASSUME Len(x) # 1
          PROVE  x[2] \notin Quantifiers
      <4>1. 2 \in 1 .. Len(r) - (k + 1) + 1 /\ (k + 1) + 2 - 1 = k + 2 /\ k + 2 <= Len(r)
        <5>1. Len(r) - (k + 1) + 1 >= 1 /\ Len(r) - (k + 1) + 1 # 1
          BY <2>3, <2>5, <3>1
        <5> QED
          BY <1>1, <2>1, <5>1
      <4>2. x[2] = r[k + 2]
        BY <2>3, <4>1
      <4>3. CASE k + 2 \in 1 .. N
        BY <4>2, <4>3 DEF Special
      <4>4. CASE k + 2 \notin 1 .. N
        <5>1. k + 2 = N + 1 /\ N < Len(r)
          BY <1>1, <2>1, <4>1, <4>4
        <5> QED
          BY <4>2, <5>1
      <4> QED
        BY <4>3, <4>4
    <3> QED
      BY <3>1
  <2>7. h \in Positions(s) /\ h <= Len(s) /\ s[h] = Chars(x[1])
    <3>1. s[j + (k + 1) - 1] = Chars(r[k + 1]) /\ j + (k + 1) - 1 = h
      BY <1>1, <2>1
    <3>2. h \in Positions(s) /\ h <= Len(s)
      BY <1>1, <2>1 DEF Positions
    <3> QED
      BY <2>5, <3>1, <3>2
  <2>8. x[1] \notin Special
    BY <2>1, <2>5
  <2> HIDE DEF x, h
  <2>9. Whole(From(x, 2)) /\ NoBar(From(x, 2)) /\ Ends(From(x, 2), s, {h + 1}) \subseteq Ends(x, s, {h})
    BY <2>2, <2>5, <2>6, <2>7, <2>8, TakesOne
  <2>10. h + 1 = j + (k + 1)
    BY <1>1, <2>1 DEF h
  <2> QED
    BY <2>1, <2>2, <2>4, <2>9, <2>10
<1> HIDE DEF T
<1>4. N \in T
  <2>1. 0 .. N \subseteq T
    BY <1>1, <1>2, <1>3, UpTo
  <2> QED
    BY <1>1, <2>1
<1> QED
  BY <1>4 DEF T

-----------------------------------------------------------------------------
(* A path *)

\* What `.*` leaves behind.
LEMMA AnyReachesTheEnd ==
  ASSUME NEW s, Len(s) \in Nat, NEW r, Whole(r), NoBar(r), Len(r) = 3, r[1] = ".", r[2] = "*", r[3] = "$",
         NEW j \in Positions(s)
  PROVE  Len(s) + 1 \in Ends(r, s, {j})
<1> DEFINE R == Repeated(r, s, {j})
           T == {k \in 0 .. Len(s) + 1 - j : j + k \in R}
           e == Len(s) + 1
<1>1. Parted(r) /\ r \in Seq(Token) /\ r # <<>> /\ {j} \in SUBSET Positions(s) /\ j \in Nat /\ j <= Len(s) + 1
  <2>1. r \in Seq(Token) /\ r # <<>>
    BY DEF Whole
  <2>2. Parted(r)
    BY <2>1, Parting
  <2>3. j \in Nat /\ j <= Len(s) + 1
    BY DEF Positions
  <2> QED
    BY <2>1, <2>2, <2>3
<1>2. AtomEnd(r) = 1
  <2>1. IsOver(r, 1)
    BY <1>1, FirstRises DEF Openings, ClassOpenings
  <2>2. AtomIs(r, AtomEnd(r))
    BY <1>1 DEF Parted
  <2> QED
    BY <1>1, <2>1, <2>2 DEF AtomIs
<1>3. Mark(r) = "*"
  BY <1>2 DEF Mark, MarkAt, Quantifiers
<1>4. Rest(r) = <<"$">>
  <2>1. Rest(r) = From(r, 3)
    BY <1>2, <1>3 DEF Rest
  <2>2. From(r, 3) \in Seq(Token) /\ Len(From(r, 3)) = 1 /\ From(r, 3)[1] = "$"
    <3>1. 3 \in 1 .. Len(r) + 1 /\ Len(r) - 3 + 1 = 1 /\ 1 \in 1 .. Len(r) - 3 + 1 /\ 3 + 1 - 1 = 3
      OBVIOUS
    <3>2. /\ From(r, 3) \in Seq(Token) /\ Len(From(r, 3)) = Len(r) - 3 + 1
          /\ \A i \in 1 .. Len(r) - 3 + 1 : From(r, 3)[i] = r[3 + i - 1]
      BY <1>1, <3>1, FromIs
    <3> QED
      BY <3>1, <3>2
  <2> DEFINE x == From(r, 3)
             y == <<"$">>
  <2>3. y \in Seq(Token) /\ Len(y) = 1 /\ y[1] = "$"
    BY AnAnchor DEF Assertions
  <2> HIDE DEF x, y
  <2>4. x = y
    <3>1. \A i \in 1 .. 1 : x[i] = y[i]
      BY <2>2, <2>3 DEF x
    <3> QED
      BY <2>2, <2>3, <3>1, SeqEqual DEF x
  <2> QED
    BY <2>1, <2>4 DEF x, y
<1>5. R \in SUBSET Positions(s) /\ {j} \subseteq R /\ OnceOf(r, s, R) \subseteq R
  BY <1>1, RepeatedIs
<1>6. Ends(r, s, {j}) = Ends(<<"$">>, s, R)
  <2>1. Marked(r, s, {j}) = R
    BY <1>1, <1>3, MarkedIs
  <2> QED
    BY <1>1, <1>4, <2>1, Unfolds
<1> HIDE DEF R
<1>7. \A i \in R : i <= Len(s) => i + 1 \in R
  <2>1. OnceOf(r, s, R) = Taking(r, s, R)
    BY <1>1, <1>5, OnceIs DEF Openings, Assertions
  <2>2. \A c : Admits(r, c)
    BY DEF Admits, ClassOpenings
  <2> QED
    BY <1>5, <2>1, <2>2 DEF Taking
<1>8. e \in R
  <2>1. 0 \in T
    BY <1>1, <1>5
  <2>2. ASSUME NEW k \in 0 .. (Len(s) + 1 - j) - 1, k \in T
        PROVE  k + 1 \in T
    <3>1. j + k \in R /\ j + k <= Len(s) /\ k + 1 \in 0 .. Len(s) + 1 - j /\ (j + k) + 1 = j + (k + 1)
      BY <1>1, <2>2
    <3> QED
      BY <1>7, <3>1
  <2> DEFINE M == Len(s) + 1 - j
  <2>3. M \in Nat /\ M \in 0 .. M /\ j + M = e
    BY <1>1
  <2> HIDE DEF T
  <2>4. 0 .. M \subseteq T
    <3>1. 0 \in T /\ \A k \in 0 .. M - 1 : k \in T => k + 1 \in T
      BY <2>1, <2>2
    <3> HIDE DEF M
    <3> QED
      BY <2>3, <3>1, UpTo
  <2>5. M \in T
    BY <2>3, <2>4
  <2> QED
    BY <2>3, <2>5 DEF T
<1>9. Ends(<<"$">>, s, R) = R \cap {e}
  BY <1>5, AnAnchor DEF Assertions
<1> QED
  BY <1>6, <1>8, <1>9

\* A path is compared as text where it is no more than one: up to a `$`, or up
\* to a `.*` before it.
Simple(r, N, m) ==
  /\ N \in 0 .. Len(r) /\ \A i \in 1 .. N : r[i] \in Literal
  /\ m.pattern = Unescaped(SubSeq(r, 1, N))
  /\ \/ m.op = "beg" /\ N = Len(r)
     \/ m.op = "str" /\ N = Len(r) - 1 /\ r[N + 1] = "$"
     \/ m.op = "beg" /\ N = Len(r) - 3 /\ r[N + 1] = "." /\ r[N + 2] = "*" /\ r[N + 3] = "$"

LEMMA PathMatcherIs ==
  ASSUME NEW r \in Seq(Token), r # <<>>
  PROVE  LET m == pathMatcher(<<"^">> \o r)
         IN m = [op |-> "reg", pattern |-> <<"^">> \o r] \/ \E N \in Nat : Simple(r, N, m)
<1> DEFINE caret == <<"^">>
           w == caret \o r
           n == Len(r)
           exact == EndsWith(w, "$")
           inner == IF exact THEN SubSeq(w, 2, Len(w) - 1) ELSE Tail(w)
           any == exact /\ Len(inner) >= 2 /\ SubSeq(inner, Len(inner) - 1, Len(inner)) = <<".", "*">>
           body == IF any THEN Upto(inner, Len(inner) - 1) ELSE inner
           m == pathMatcher(w)
           N == IF any THEN n - 3 ELSE IF exact THEN n - 1 ELSE n
<1>1. n \in Nat /\ n >= 1
  BY EmptySeq
<1>2. caret \in Seq(Token) /\ Len(caret) = 1 /\ caret[1] = "^"
  BY AnAnchor DEF Assertions
<1>3. m = IF ~ StartsWith(body, "/") \/ ~ LITERAL_BODY(body) THEN [op |-> "reg", pattern |-> w]
          ELSE [op |-> IF exact /\ ~ any THEN "str" ELSE "beg", pattern |-> Unescaped(body)]
  BY DEF pathMatcher
<1> HIDE DEF caret, m
<1>4. w \in Seq(Token) /\ Len(w) = n + 1 /\ \A i \in 1 .. n : w[1 + i] = r[i]
  BY <1>2, Gluing DEF Glued
<1> HIDE DEF w
<1>5. exact <=> r[n] = "$"
  <2>1. w # <<>> /\ w[Len(w)] = w[1 + n] /\ n \in 1 .. n
    BY <1>1, <1>4
  <2> QED
    BY <1>4, <2>1 DEF EndsWith
<1> HIDE DEF exact
<1>6. /\ inner \in Seq(Token) /\ Len(inner) = IF exact THEN n - 1 ELSE n
      /\ \A i \in 1 .. Len(inner) : inner[i] = r[i]
  <2>1. CASE exact
    <3> DEFINE x == SubSeq(w, 2, n)
    <3>1. 2 \in 1 .. Len(w) + 1 /\ n \in 2 - 1 .. Len(w) /\ n - 2 + 1 = n - 1 /\ Len(w) - 1 = n
      BY <1>1, <1>4
    <3>2. x \in Seq(Token) /\ Len(x) = n - 2 + 1 /\ \A j \in 1 .. n - 2 + 1 : x[j] = w[2 + j - 1]
      BY <1>4, <3>1, SubSeqs
    <3>3. inner = x
      BY <2>1, <3>1
    <3> HIDE DEF x, inner
    <3>4. ASSUME NEW j \in 1 .. n - 1
          PROVE  x[j] = r[j]
      <4>1. j \in 1 .. n - 2 + 1 /\ 2 + j - 1 = 1 + j /\ j \in 1 .. n
        BY <1>1
      <4> QED
        BY <1>4, <3>2, <4>1
    <3> QED
      BY <2>1, <3>1, <3>2, <3>3, <3>4
  <2>2. CASE ~ exact
    <3>1. inner = Tail(w)
      BY <2>2
    <3> HIDE DEF inner
    <3>2. inner \in Seq(Token) /\ Len(inner) = n /\ \A j \in 1 .. n : inner[j] = w[j + 1]
      BY <1>1, <1>4, <3>1
    <3> QED
      BY <1>4, <2>2, <3>2
  <2> QED
    BY <2>1, <2>2
<1> HIDE DEF inner
<1>7. any => exact /\ n - 3 \in Nat /\ r[n - 2] = "." /\ r[n - 1] = "*"
  <2>1. SUFFICES ASSUME any PROVE exact /\ n - 3 \in Nat /\ r[n - 2] = "." /\ r[n - 1] = "*"
    OBVIOUS
  <2> DEFINE x == SubSeq(inner, n - 2, n - 1)
             y == <<".", "*">>
  <2>2. exact /\ Len(inner) = n - 1 /\ n - 1 >= 2 /\ Len(inner) - 1 = n - 2
    BY <1>1, <1>6, <2>1
  <2>3. x = y
    BY <2>1, <2>2
  <2>4. y[1] = "." /\ y[2] = "*"
    OBVIOUS
  <2>5. n - 2 \in 1 .. Len(inner) + 1 /\ n - 1 \in (n - 2) - 1 .. Len(inner)
    BY <1>1, <2>2
  <2>6. \A j \in 1 .. (n - 1) - (n - 2) + 1 : x[j] = inner[(n - 2) + j - 1]
    BY <1>6, <2>5, SubSeqs
  <2> HIDE DEF x, y
  <2>7. x[1] = inner[n - 2] /\ x[2] = inner[n - 1]
    <3>1. 1 \in 1 .. (n - 1) - (n - 2) + 1 /\ 2 \in 1 .. (n - 1) - (n - 2) + 1 /\ (n - 2) + 1 - 1 = n - 2 /\ (n - 2) + 2 - 1 = n - 1
      BY <1>1
    <3>2. x[1] = inner[(n - 2) + 1 - 1] /\ x[2] = inner[(n - 2) + 2 - 1]
      BY <2>6, <3>1
    <3> QED
      BY <3>1, <3>2
  <2>8. n - 2 \in 1 .. Len(inner) /\ n - 1 \in 1 .. Len(inner) /\ n - 3 \in Nat
    BY <1>1, <2>2
  <2> QED
    BY <1>6, <2>2, <2>3, <2>4, <2>7, <2>8
<1> HIDE DEF any
<1>8. /\ N \in 0 .. n
      /\ body \in Seq(Token) /\ Len(body) = N /\ \A i \in 1 .. N : body[i] = r[i]
  <2>1. CASE any
    <3>1. exact /\ N = n - 3 /\ N \in Nat /\ Len(inner) = n - 1 /\ body = Upto(inner, n - 2)
      BY <1>1, <1>6, <1>7, <2>1
    <3>2. 1 \in 1 .. Len(inner) + 1 /\ (n - 2) - 1 \in 1 - 1 .. Len(inner) /\ (n - 2) - 1 - 1 + 1 = n - 3 /\ n - 3 \in 0 .. n
      BY <1>1, <3>1
    <3> HIDE DEF N, body
    <3>3. body \in Seq(Token) /\ Len(body) = (n - 2) - 1 - 1 + 1 /\ \A j \in 1 .. (n - 2) - 1 - 1 + 1 : body[j] = inner[1 + j - 1]
      BY <1>6, <3>1, <3>2, SubSeqs DEF Upto
    <3>4. ASSUME NEW j \in 1 .. N
          PROVE  body[j] = r[j]
      <4>1. j \in 1 .. (n - 2) - 1 - 1 + 1 /\ 1 + j - 1 = j /\ j \in 1 .. Len(inner)
        BY <1>1, <3>1, <3>2
      <4> QED
        BY <1>6, <3>3, <4>1
    <3> QED
      BY <3>1, <3>2, <3>3, <3>4
  <2>2. CASE ~ any
    <3>1. body = inner /\ N = Len(inner) /\ N \in 0 .. n
      BY <1>1, <1>6, <2>2
    <3> HIDE DEF body, N
    <3> QED
      BY <1>6, <3>1
  <2> QED
    BY <2>1, <2>2
<1>9. /\ ~ exact => N = n
      /\ exact /\ ~ any => N = n - 1 /\ r[N + 1] = "$"
      /\ any => N = n - 3 /\ r[N + 1] = "." /\ r[N + 2] = "*" /\ r[N + 3] = "$"
  <2>1. ASSUME any
        PROVE  N = n - 3 /\ r[N + 1] = "." /\ r[N + 2] = "*" /\ r[N + 3] = "$"
    <3>1. N = n - 3 /\ N + 1 = n - 2 /\ N + 2 = n - 1 /\ N + 3 = n
      BY <1>1, <2>1
    <3> HIDE DEF N
    <3> QED
      BY <1>5, <1>7, <2>1, <3>1
  <2>2. ASSUME exact, ~ any
        PROVE  N = n - 1 /\ r[N + 1] = "$"
    <3>1. N = n - 1 /\ N + 1 = n
      BY <1>1, <2>2
    <3> HIDE DEF N
    <3> QED
      BY <1>5, <2>2, <3>1
  <2>3. ~ exact => N = n
    BY <1>7
  <2> QED
    BY <2>1, <2>2, <2>3
<1> HIDE DEF body, N
<1>10. CASE ~ StartsWith(body, "/") \/ ~ LITERAL_BODY(body)
  BY <1>3, <1>10 DEF m, w, caret
<1>11. CASE LITERAL_BODY(body) /\ StartsWith(body, "/")
  <2>1. m.op = (IF exact /\ ~ any THEN "str" ELSE "beg") /\ m.pattern = Unescaped(body)
    BY <1>3, <1>11
  <2>2. body = SubSeq(r, 1, N)
    <3> DEFINE x == SubSeq(r, 1, N)
    <3>1. 1 \in 1 .. Len(r) + 1 /\ N \in 1 - 1 .. Len(r) /\ N - 1 + 1 = N
      BY <1>1, <1>8
    <3>2. x \in Seq(Token) /\ Len(x) = N - 1 + 1 /\ \A j \in 1 .. N - 1 + 1 : x[j] = r[1 + j - 1]
      BY <3>1, SubSeqs
    <3> HIDE DEF x
    <3>3. ASSUME NEW j \in 1 .. N
          PROVE  x[j] = body[j]
      <4>1. j \in 1 .. N - 1 + 1 /\ 1 + j - 1 = j
        BY <1>1, <1>8
      <4>2. x[j] = r[1 + j - 1] /\ body[j] = r[j]
        BY <1>8, <3>2, <4>1
      <4> QED
        BY <4>1, <4>2
    <3>4. x = body
      BY <1>8, <3>1, <3>2, <3>3, SeqEqual
    <3> QED
      BY <3>4 DEF x
  <2>3. \A i \in 1 .. N : r[i] \in Literal
    BY <1>8, <1>11 DEF LITERAL_BODY
  <2>4. \/ m.op = "beg" /\ N = n
        \/ m.op = "str" /\ N = n - 1 /\ r[N + 1] = "$"
        \/ m.op = "beg" /\ N = n - 3 /\ r[N + 1] = "." /\ r[N + 2] = "*" /\ r[N + 3] = "$"
    BY <1>9, <2>1
  <2>5. Simple(r, N, m) /\ N \in Nat
    BY <1>1, <1>8, <2>1, <2>2, <2>3, <2>4 DEF Simple
  <2> QED
    BY <2>5 DEF m, w, caret
<1> QED
  BY <1>10, <1>11

\* A path the proxy admits is one its expression begins to match at the start.
LEMMA PathTaken ==
  ASSUME NEW s \in Seq(Token), NEW r, Whole(r), NoBar(r), r # <<>>, Matches(pathMatcher(<<"^">> \o r), s, FALSE)
  PROVE  Ends(r, s, {1}) # {}
<1> DEFINE caret == <<"^">>
           w == caret \o r
           m == pathMatcher(w)
           o == {1}
<1>1. r \in Seq(Token) /\ Len(r) \in Nat /\ Len(s) \in Nat /\ 1 \in Positions(s) /\ o \in SUBSET Positions(s)
  BY DEF Whole, Positions
<1>2. Matches(m, s, FALSE) /\ (m = [op |-> "reg", pattern |-> w] \/ \E N \in Nat : Simple(r, N, m))
  BY <1>1, PathMatcherIs
<1> HIDE DEF m
<1>3. CASE m = [op |-> "reg", pattern |-> w]
  <2>1. Ends(w, s, Positions(s)) # {}
    BY <1>2, <1>3 DEF Matches, Finds, Positions
  <2>2. /\ caret \in Seq(Token) /\ Whole(caret) /\ NoBar(caret)
        /\ \A I \in SUBSET Positions(s) : Ends(caret, s, I) = I \cap {1}
    BY <1>1, AnAnchor DEF Assertions
  <2> HIDE DEF caret
  <2>3. r[1] \notin Quantifiers
    BY FirstRises
  <2>4. Composes(caret, s)
    BY <1>1, <2>2, Composing
  <2> DEFINE P == Positions(s)
  <2>5. P \in SUBSET Positions(s) /\ P \cap {1} = o
    BY <1>1
  <2> HIDE DEF P, o
  <2>6. Ends(caret \o r, s, P) = Ends(r, s, Ends(caret, s, P))
    BY <1>1, <2>2, <2>3, <2>4, <2>5 DEF Composes
  <2>7. Ends(r, s, o) # {}
    BY <2>1, <2>2, <2>5, <2>6 DEF P
  <2> QED
    BY <2>7 DEF o
<1>4. CASE \E N \in Nat : Simple(r, N, m)
  <2>1. PICK N \in Nat : Simple(r, N, m)
    BY <1>4
  <2> DEFINE b == SubSeq(r, 1, N)
             u == Unescaped(b)
             t == From(r, N + 1)
             e == 1 + N
  <2>2. /\ N \in 0 .. Len(r) /\ m.pattern = u /\ \A i \in 1 .. N : r[i] \in Literal
        /\ \/ m.op = "beg" /\ N = Len(r)
           \/ m.op = "str" /\ N = Len(r) - 1 /\ r[N + 1] = "$"
           \/ m.op = "beg" /\ N = Len(r) - 3 /\ r[N + 1] = "." /\ r[N + 2] = "*" /\ r[N + 3] = "$"
    BY <2>1 DEF Simple
  <2>3. Len(b) = N /\ \A i \in 1 .. N : b[i] = r[i]
    <3>1. 1 \in 1 .. Len(r) + 1 /\ N \in 1 - 1 .. Len(r) /\ N - 1 + 1 = N
      BY <1>1, <2>2
    <3>2. Len(b) = N - 1 + 1 /\ \A j \in 1 .. N - 1 + 1 : b[j] = r[1 + j - 1]
      BY <1>1, <3>1, SubSeqs
    <3> HIDE DEF b
    <3>3. ASSUME NEW j \in 1 .. N
          PROVE  b[j] = r[j]
      <4>1. j \in 1 .. N - 1 + 1 /\ 1 + j - 1 = j
        BY <1>1
      <4> QED
        BY <3>2, <4>1
    <3> QED
      BY <3>1, <3>2, <3>3
  <2> HIDE DEF b
  <2>4. Len(u) = N /\ \A i \in 1 .. N : u[i] = Chars(r[i])
    <3>1. u = [i \in 1 .. N |-> Chars(b[i])]
      BY <2>3 DEF Unescaped
    <3> DEFINE C == {Chars(b[i]) : i \in 1 .. N}
    <3>2. u \in Seq(C) /\ Len(u) = N /\ \A i \in 1 .. N : u[i] = Chars(b[i])
      <4>1. u \in [1 .. N -> C] /\ \A i \in 1 .. N : u[i] = Chars(b[i])
        BY <3>1
      <4> HIDE DEF u, C
      <4> QED
        BY <4>1
    <3> QED
      BY <2>3, <3>2
  <2> HIDE DEF u
  <2>5. /\ N <= Len(s) /\ \A i \in 1 .. N : s[i] = Chars(r[i])
        /\ m.op = "str" => Len(s) = N
    <3>1. CASE m.op = "str"
      <4>1. s = u
        BY <1>2, <2>2, <3>1 DEF Matches
      <4> QED
        BY <2>4, <4>1
    <3>2. CASE m.op = "beg"
      <4> DEFINE x == SubSeq(s, 1, N)
      <4>1. N <= Len(s) /\ x = u
        BY <1>2, <2>2, <2>4, <3>2 DEF Matches
      <4>2. 1 \in 1 .. Len(s) + 1 /\ N \in 1 - 1 .. Len(s) /\ N - 1 + 1 = N
        BY <1>1, <4>1
      <4>3. \A j \in 1 .. N - 1 + 1 : x[j] = s[1 + j - 1]
        BY <4>2, SubSeqs
      <4> HIDE DEF x
      <4>4. ASSUME NEW j \in 1 .. N
            PROVE  s[j] = Chars(r[j])
        <5>1. j \in 1 .. N - 1 + 1 /\ 1 + j - 1 = j
          BY <1>1
        <5>2. x[j] = s[j]
          BY <4>3, <5>1
        <5> QED
          BY <2>4, <4>1, <5>2
      <4> QED
        BY <3>2, <4>1, <4>4
    <3> QED
      BY <2>2, <3>1, <3>2
  <2>6. Whole(t) /\ NoBar(t) /\ Ends(t, s, {e}) \subseteq Ends(r, s, {1})
    <3>1. \A i \in 1 .. N : r[i] \notin Special
      <4>1. Literal \cap Special = {}
        BY DEF Literal, Special, Openings, ClassOpenings, Quantifiers, Assertions
      <4> QED
        BY <2>2, <4>1
    <3>2. N < Len(r) => r[N + 1] \notin Quantifiers
      BY <1>1, <2>2 DEF Quantifiers
    <3>3. 1 + N <= Len(s) + 1
      BY <1>1, <2>5
    <3>4. \A i \in 1 .. N : s[1 + i - 1] = Chars(r[i])
      <4>1. ASSUME NEW i \in 1 .. N
            PROVE  s[1 + i - 1] = Chars(r[i])
        <5>1. 1 + i - 1 = i
          OBVIOUS
        <5> QED
          BY <2>5, <5>1
      <4> QED
        BY <4>1
    <3> QED
      BY <1>1, <2>2, <3>1, <3>2, <3>3, <3>4, TakesMany
  <2>7. /\ t \in Seq(Token) /\ Len(t) = Len(r) - (N + 1) + 1
        /\ \A j \in 1 .. Len(r) - (N + 1) + 1 : t[j] = r[(N + 1) + j - 1]
    <3>1. N + 1 \in 1 .. Len(r) + 1
      BY <1>1, <2>2
    <3> QED
      BY <1>1, <3>1, FromIs
  <2>8. e \in Positions(s) /\ {e} \in SUBSET Positions(s)
    BY <1>1, <2>5 DEF Positions
  <2> HIDE DEF t, e
  <2>9. Ends(t, s, {e}) # {}
    <3>1. CASE N = Len(r)
      <4>1. t = <<>>
        <5>1. Len(t) = 0
          BY <1>1, <2>7, <3>1
        <5> QED
          BY <2>7, <5>1, EmptySeq
      <4>2. Ends(t, s, {e}) = {e}
        BY <1>1, <2>6, <2>8, <4>1, Unfolds
      <4> QED
        BY <4>2
    <3>2. CASE m.op = "str" /\ N = Len(r) - 1 /\ r[N + 1] = "$"
      <4> DEFINE y == <<"$">>
      <4>1. y \in Seq(Token) /\ Len(y) = 1 /\ y[1] = "$" /\ \A I \in SUBSET Positions(s) : Ends(y, s, I) = I \cap {Len(s) + 1}
        BY <1>1, AnAnchor DEF Assertions
      <4> HIDE DEF y
      <4>2. Len(t) = 1 /\ t[1] = "$"
        <5>1. 1 \in 1 .. Len(r) - (N + 1) + 1 /\ (N + 1) + 1 - 1 = N + 1 /\ Len(r) - (N + 1) + 1 = 1
          BY <1>1, <3>2
        <5> QED
          BY <2>7, <3>2, <5>1
      <4>3. t = y
        <5>1. \A i \in 1 .. 1 : t[i] = y[i]
          BY <4>1, <4>2
        <5> QED
          BY <2>7, <4>1, <4>2, <5>1, SeqEqual
      <4>4. e = Len(s) + 1
        BY <1>1, <2>5, <3>2 DEF e
      <4>5. Ends(t, s, {e}) = {e} \cap {Len(s) + 1}
        BY <2>8, <4>1, <4>3
      <4> QED
        BY <4>4, <4>5
    <3>3. CASE N = Len(r) - 3 /\ r[N + 1] = "." /\ r[N + 2] = "*" /\ r[N + 3] = "$"
      <4>1. Len(t) = 3 /\ t[1] = "." /\ t[2] = "*" /\ t[3] = "$"
        <5>1. /\ Len(r) - (N + 1) + 1 = 3
              /\ (N + 1) + 1 - 1 = N + 1 /\ (N + 1) + 2 - 1 = N + 2 /\ (N + 1) + 3 - 1 = N + 3
          BY <1>1, <3>3
        <5>2. t[1] = r[(N + 1) + 1 - 1] /\ t[2] = r[(N + 1) + 2 - 1] /\ t[3] = r[(N + 1) + 3 - 1]
          BY <2>7, <5>1
        <5> QED
          BY <2>7, <3>3, <5>1, <5>2
      <4>2. Len(s) + 1 \in Ends(t, s, {e})
        BY <1>1, <2>6, <2>8, <4>1, AnyReachesTheEnd
      <4> QED
        BY <4>2
    <3> QED
      BY <2>2, <3>1, <3>2, <3>3
  <2> QED
    BY <2>6, <2>9
<1> QED
  BY <1>2, <1>3, <1>4

-----------------------------------------------------------------------------
(* What a `~` URL is cut into *)

\* JavaScript and PCRE2 read a checked expression alike.
LEMMA CheckedIsWhole ==
  ASSUME NEW r \in Seq(Token), checkRawRegexHalf(r, FALSE)
  PROVE  (Compiles(r, "JavaScript") \/ Compiles(r, "PCRE2")) => Whole(r) /\ NoBar(r)
<1> DEFINE p == Reading(r, "PCRE2")
           q == Reading(r, "JavaScript")
<1>1. checkClasses(r) /\ checkEscapes(r) /\ ~ hasTopLevelAlternation(r) /\ Len(r) \in Nat
  BY DEF checkRawRegexHalf
<1>2. SamePlaces(r, p, q)
  BY <1>1, CheckedReadsAlike
<1>3. Alike(r, r)
  BY DEF Alike
<1>4. NoBar(r)
  <2>1. Bars(r, q) = Bars(r, p)
    BY <1>2, <1>3, DepthAlike
  <2> QED
    BY <1>1, <2>1 DEF hasTopLevelAlternation, NoBar
<1>5. ASSUME Compiles(r, "JavaScript")
      PROVE  Compiles(r, "PCRE2")
  <2> HIDE DEF p, q
  <2>1. \A i \in 1 .. Len(r) + 1 :
          Opened(r, q, i) = Opened(r, p, i) /\ Closed(r, q, i) = Closed(r, p, i) /\ Depth(r, q, i) = Depth(r, p, i)
    BY <1>2, <1>3, DepthAlike
  <2>2. \A i \in 1 .. Len(r) + 1 : q[i] = p[i]
    BY <1>2 DEF SamePlaces
  <2>3. Len(r) + 1 \in 1 .. Len(r) + 1 /\ \A i \in 1 .. Len(r) : i \in 1 .. Len(r) + 1
    BY <1>1
  <2>4. /\ \A i \in 1 .. Len(r) :
             q[i] = "out" =>
               /\ r[i] = ")" => Opened(r, q, i) > Closed(r, q, i)
               /\ r[i] \in Quantifiers =>
                    i > 1 /\ r[i - 1] \notin Openings \cup Quantifiers \cup Assertions \cup {"|"}
        /\ q[Len(r) + 1] \notin {"first", "in"}
        /\ Depth(r, q, Len(r) + 1) = 0
    BY <1>5 DEF Compiles, Begins, q
  <2>5. /\ \A i \in 1 .. Len(r) :
             p[i] = "out" =>
               /\ r[i] = ")" => Opened(r, p, i) > Closed(r, p, i)
               /\ r[i] \in Quantifiers =>
                    i > 1 /\ r[i - 1] \notin Openings \cup Quantifiers \cup Assertions \cup {"|"}
        /\ p[Len(r) + 1] \notin {"first", "in"}
        /\ Depth(r, p, Len(r) + 1) = 0
    BY <2>1, <2>2, <2>3, <2>4
  <2> QED
    BY <2>5 DEF Compiles, Begins, p
<1> QED
  BY <1>1, <1>4, <1>5 DEF Whole

\* The least of a set of numbers.
LEMMA FirstIs ==
  ASSUME NEW S \in SUBSET Nat
  PROVE  First(S) # 0 => First(S) \in S /\ \A i \in S : First(S) <= i
<1>1. ASSUME First(S) # 0
      PROVE  First(S) \in S /\ \A i \in S : First(S) <= i
  <2>1. S # {} /\ First(S) = CHOOSE i \in S : \A j \in S : i <= j
    BY <1>1 DEF First
  <2>2. \E i \in S : \A j \in S : i <= j
    BY <2>1, LeastOne
  <2> QED
    BY <2>1, <2>2
<1> QED
  BY <1>1

\* A scheme, a colon, two slashes, the host, and the path from its own slash on.
UrlCut(r, b, e) ==
  /\ b \in 1 .. Len(r) /\ e \in b + 3 .. Len(r)
  /\ r[b] = ":" /\ r[b + 1] \in Slash /\ r[b + 2] \in Slash /\ r[e] \in Slash

LEMMA UrlIsCut ==
  ASSUME NEW r \in Seq(Token), PathSep(r) # 0
  PROVE  UrlCut(r, SchemeSep(r), PathSep(r))
<1> DEFINE b == SchemeSep(r)
           e == PathSep(r)
           S == {i \in 1 .. Len(r) - 2 : r[i] = ":" /\ r[i + 1] \in Slash /\ r[i + 2] \in Slash}
           T == {i \in b + 3 .. Len(r) : r[i] \in Slash}
<1>1. Len(r) \in Nat /\ S \in SUBSET Nat
  OBVIOUS
<1>2. b = First(S)
  BY DEF SchemeSep
<1>3. b # 0 /\ e = First(T)
  BY DEF PathSep
<1> HIDE DEF b, e
<1>4. b \in S
  <2> HIDE DEF S
  <2> QED
    BY <1>1, <1>2, <1>3, FirstIs
<1>5. b \in Nat /\ T \in SUBSET Nat
  BY <1>1, <1>4
<1>6. e \in T
  <2>1. e # 0
    BY DEF e
  <2> HIDE DEF T
  <2> QED
    BY <1>3, <1>5, <2>1, FirstIs
<1>7. b \in 1 .. Len(r) /\ r[b] = ":" /\ r[b + 1] \in Slash /\ r[b + 2] \in Slash
  BY <1>1, <1>4
<1>8. UrlCut(r, b, e)
  BY <1>6, <1>7 DEF UrlCut
<1> QED
  BY <1>8 DEF b, e

\* The whole, in the case its parts are matched in: what stands before the host,
\* the host in lower case and the path.
Whereas(r, w, h, p, b) ==
  /\ Alike(r, w)
  /\ \A i \in 1 .. b + 2 : w[i] = Lower(r[i])
  /\ h \in Seq(Token) /\ p \in Seq(Token) /\ p # <<>> /\ p[1] \in Slash
  /\ Len(w) = b + 2 + Len(h \o p) /\ \A j \in 1 .. Len(h \o p) : w[b + 2 + j] = (h \o p)[j]
  /\ Len(h) + Len(p) = Len(h \o p)
  /\ \A j \in 1 .. Len(h) : h[j] = Lower(r[b + 2 + j])
  /\ \A j \in 1 .. Len(p) : p[j] = r[b + 2 + Len(h) + j]

LEMMA WholeUrlIs ==
  ASSUME NEW r \in Seq(Token), PathSep(r) # 0
  PROVE  Whereas(r, WholeUrl(r), Lowered(HostPart(r)), PathPart(r), SchemeSep(r))
<1> DEFINE b == SchemeSep(r)
           e == PathSep(r)
           N == Len(r)
           u == Upto(r, e)
           l == Lowered(u)
           p == PathPart(r)
           g == HostPart(r)
           h == Lowered(g)
           w == WholeUrl(r)
<1>1. UrlCut(r, b, e) /\ N \in Nat
  BY UrlIsCut
<1>2. b \in Nat /\ e \in Nat /\ b >= 1 /\ b + 3 <= e /\ e <= N /\ r[e] \in Slash
  BY <1>1 DEF UrlCut
<1> HIDE DEF b, e
<1>3. u \in Seq(Token) /\ Len(u) = e - 1 /\ \A j \in 1 .. e - 1 : u[j] = r[j]
  <2>1. 1 \in 1 .. N + 1 /\ e - 1 \in 1 - 1 .. N /\ (e - 1) - 1 + 1 = e - 1
    BY <1>1, <1>2
  <2>2. u \in Seq(Token) /\ Len(u) = (e - 1) - 1 + 1 /\ \A j \in 1 .. (e - 1) - 1 + 1 : u[j] = r[1 + j - 1]
    BY <2>1, SubSeqs DEF Upto
  <2> HIDE DEF u
  <2>3. ASSUME NEW j \in 1 .. e - 1
        PROVE  u[j] = r[j]
    <3>1. j \in 1 .. (e - 1) - 1 + 1 /\ 1 + j - 1 = j
      BY <1>2
    <3> QED
      BY <2>2, <3>1
  <2> QED
    BY <2>1, <2>2, <2>3
<1>4. p \in Seq(Token) /\ Len(p) = N - e + 1 /\ \A j \in 1 .. N - e + 1 : p[j] = r[e + j - 1]
  <2>1. e \in 1 .. N + 1
    BY <1>1, <1>2
  <2> QED
    BY <2>1, FromIs DEF PathPart, e
<1>5. g \in Seq(Token) /\ Len(g) = e - b - 3 /\ \A j \in 1 .. e - b - 3 : g[j] = r[b + 2 + j]
  <2>1. b + 3 \in 1 .. N + 1 /\ e - 1 \in (b + 3) - 1 .. N /\ (e - 1) - (b + 3) + 1 = e - b - 3
    BY <1>1, <1>2
  <2>2. g \in Seq(Token) /\ Len(g) = (e - 1) - (b + 3) + 1 /\ \A j \in 1 .. (e - 1) - (b + 3) + 1 : g[j] = r[(b + 3) + j - 1]
    BY <2>1, SubSeqs DEF HostPart, b, e
  <2> HIDE DEF g
  <2>3. ASSUME NEW j \in 1 .. e - b - 3
        PROVE  g[j] = r[b + 2 + j]
    <3>1. j \in 1 .. (e - 1) - (b + 3) + 1 /\ (b + 3) + j - 1 = b + 2 + j
      BY <1>2
    <3> QED
      BY <2>2, <3>1
  <2> QED
    BY <2>1, <2>2, <2>3
<1>6. w = l \o p
  BY DEF WholeUrl, e
<1> HIDE DEF u, p, g, w
<1>7. Alike(u, l) /\ Alike(g, h)
  BY <1>3, <1>5, LoweredAlike
<1>8. /\ \A j \in 1 .. e - 1 : l[j] = Lower(r[j])
      /\ \A j \in 1 .. e - b - 3 : h[j] = Lower(r[b + 2 + j])
  BY <1>3, <1>5 DEF Lowered
<1> HIDE DEF l, h
<1>9. /\ l \in Seq(Token) /\ Len(l) = e - 1 /\ h \in Seq(Token) /\ Len(h) = e - b - 3
      /\ \A j \in 1 .. e - 1 : l[j] = r[j] \/ (r[j] = "A" /\ l[j] = "a")
  BY <1>3, <1>5, <1>7 DEF Alike
<1>10. Glued(l, p) /\ Glued(h, p)
  BY <1>4, <1>9, Gluing
<1>11. /\ w \in Seq(Token) /\ Len(w) = N
       /\ \A j \in 1 .. e - 1 : w[j] = l[j]
       /\ \A j \in 1 .. N - e + 1 : w[e - 1 + j] = p[j]
  <2>1. (e - 1) + (N - e + 1) = N
    BY <1>1, <1>2
  <2> QED
    BY <1>4, <1>6, <1>9, <1>10, <2>1 DEF Glued
<1>12. Alike(r, w)
  <2>1. ASSUME NEW i \in 1 .. N
        PROVE  w[i] = r[i] \/ (r[i] = "A" /\ w[i] = "a")
    <3>1. CASE i <= e - 1
      <4>1. i \in 1 .. e - 1
        BY <1>2, <3>1
      <4> QED
        BY <1>9, <1>11, <4>1
    <3>2. CASE ~ (i <= e - 1)
      <4> DEFINE j == i - e + 1
      <4>1. j \in 1 .. N - e + 1 /\ e - 1 + j = i /\ e + j - 1 = i
        BY <1>1, <1>2, <3>2
      <4> HIDE DEF j
      <4> QED
        BY <1>4, <1>11, <4>1
    <3> QED
      BY <3>1, <3>2
  <2> QED
    BY <1>11, <2>1 DEF Alike
<1>13. \A i \in 1 .. b + 2 : w[i] = Lower(r[i])
  <2>1. \A i \in 1 .. b + 2 : i \in 1 .. e - 1
    BY <1>2
  <2> QED
    BY <1>8, <1>11, <2>1
<1>14. p # <<>> /\ p[1] \in Slash
  <2>1. 1 \in 1 .. N - e + 1 /\ e + 1 - 1 = e
    BY <1>1, <1>2
  <2> QED
    BY <1>2, <1>4, <2>1
<1>15. /\ Len(h \o p) = (e - b - 3) + (N - e + 1)
       /\ \A j \in 1 .. e - b - 3 : (h \o p)[j] = h[j]
       /\ \A j \in 1 .. N - e + 1 : (h \o p)[(e - b - 3) + j] = p[j]
  BY <1>4, <1>9, <1>10 DEF Glued
<1>16. Len(w) = b + 2 + Len(h \o p) /\ Len(h) + Len(p) = Len(h \o p)
  <2> DEFINE x == h \o p
  <2>1. Len(x) = (e - b - 3) + (N - e + 1)
    BY <1>15
  <2> HIDE DEF x
  <2>2. Len(w) = b + 2 + Len(x) /\ Len(h) + Len(p) = Len(x)
    BY <1>1, <1>2, <1>4, <1>9, <1>11, <2>1
  <2> QED
    BY <2>2 DEF x
<1>17. ASSUME NEW j \in 1 .. Len(h \o p)
       PROVE  w[b + 2 + j] = (h \o p)[j]
  <2>1. j \in 1 .. (e - b - 3) + (N - e + 1)
    BY <1>15
  <2>2. CASE j <= e - b - 3
    <3> DEFINE i == b + 2 + j
    <3>1. j \in 1 .. e - b - 3 /\ i \in 1 .. e - 1
      BY <1>2, <2>1, <2>2
    <3>2. (h \o p)[j] = h[j] /\ h[j] = Lower(r[b + 2 + j])
      BY <1>8, <1>15, <3>1
    <3>3. w[i] = Lower(r[i])
      BY <1>8, <1>11, <3>1
    <3> QED
      BY <3>2, <3>3
  <2>3. CASE ~ (j <= e - b - 3)
    <3> DEFINE i == j - (e - b - 3)
    <3>1. i \in 1 .. N - e + 1 /\ (e - b - 3) + i = j /\ e - 1 + i = b + 2 + j
      BY <1>1, <1>2, <2>1, <2>3
    <3> HIDE DEF i
    <3>2. (h \o p)[(e - b - 3) + i] = p[i] /\ w[e - 1 + i] = p[i]
      BY <1>11, <1>15, <3>1
    <3> QED
      BY <3>1, <3>2
  <2> QED
    BY <2>2, <2>3
<1>18. \A j \in 1 .. Len(h) : h[j] = Lower(r[b + 2 + j])
  BY <1>8, <1>9
<1>19. ASSUME NEW j \in 1 .. Len(p)
       PROVE  p[j] = r[b + 2 + Len(h) + j]
  <2>1. j \in 1 .. N - e + 1 /\ b + 2 + Len(h) + j = e + j - 1
    BY <1>1, <1>2, <1>4, <1>9
  <2> QED
    BY <1>4, <2>1
<1>20. Whereas(r, w, h, p, b)
  BY <1>4, <1>9, <1>12, <1>13, <1>14, <1>16, <1>17, <1>18, <1>19 DEF Whereas
<1> QED
  BY <1>20 DEF w, h, g, p, b

\* What follows the first N tokens of x.
Trails(x, y, N) ==
  /\ x \in Seq(Token) /\ y \in Seq(Token) /\ N \in Nat
  /\ Len(x) = N + Len(y) /\ \A j \in 1 .. Len(y) : x[N + j] = y[j]

LEMMA TrailsOn ==
  ASSUME NEW x, NEW y, NEW N, Trails(x, y, N), NEW i \in 1 .. N + 1
  PROVE  /\ Trails(From(x, i), y, N - i + 1)
         /\ \A j \in 1 .. N - i + 1 : From(x, i)[j] = x[i + j - 1]
         /\ i = N + 1 => From(x, i) = y
<1> DEFINE z == From(x, i)
           M == N - i + 1
<1>1. /\ x \in Seq(Token) /\ y \in Seq(Token) /\ N \in Nat /\ Len(x) = N + Len(y) /\ Len(y) \in Nat
      /\ \A j \in 1 .. Len(y) : x[N + j] = y[j]
  BY DEF Trails
<1>2. i \in 1 .. Len(x) + 1 /\ M \in Nat
  BY <1>1
<1>3. z \in Seq(Token) /\ Len(z) = Len(x) - i + 1 /\ \A j \in 1 .. Len(x) - i + 1 : z[j] = x[i + j - 1]
  BY <1>1, <1>2, FromIs
<1> HIDE DEF z
<1>4. Len(z) = M + Len(y) /\ \A j \in 1 .. M : j \in 1 .. Len(x) - i + 1
  BY <1>1, <1>3
<1>5. ASSUME NEW j \in 1 .. Len(y)
      PROVE  z[M + j] = y[j]
  <2> DEFINE k == M + j
  <2>1. k \in 1 .. Len(x) - i + 1 /\ i + k - 1 = N + j
    BY <1>1
  <2> HIDE DEF k
  <2>2. z[k] = x[i + k - 1]
    BY <1>3, <2>1
  <2> QED
    BY <1>1, <2>1, <2>2 DEF k
<1>6. Trails(z, y, M)
  BY <1>1, <1>2, <1>3, <1>4, <1>5 DEF Trails
<1>7. ASSUME i = N + 1
      PROVE  z = y
  <2>1. M = 0
    BY <1>1, <1>7
  <2>2. Len(z) = Len(y)
    BY <1>1, <1>4, <2>1
  <2>3. \A j \in 1 .. Len(y) : z[j] = y[j]
    <3>1. \A j \in 1 .. Len(y) : M + j = j
      BY <1>1, <2>1
    <3> QED
      BY <1>5, <3>1
  <2> QED
    BY <1>1, <1>3, <2>2, <2>3, SeqEqual
<1>8. \A j \in 1 .. M : z[j] = x[i + j - 1]
  BY <1>3, <1>4
<1> QED
  BY <1>6, <1>7, <1>8 DEF z

\* The characters before a host are tokens that stand for themselves.
Prefixing == {"http", "s", ":"} \cup Slash

LEMMA PrefixingPlain ==
  /\ \A t \in Prefixing : t \notin Special
  /\ Chars("http") = "http" /\ Chars("s") = "s" /\ Chars(":") = ":" /\ \A t \in Slash : Chars(t) = "/"
<1>1. \A t \in Prefixing : t \notin Special
  BY DEF Prefixing, Slash, Special, Openings, ClassOpenings, Quantifiers, Assertions
<1>2. \A c \in Meta : Escape(c) \notin {"http", "s", ":", "/"}
  BY DEF Meta, Escape
<1> QED
  BY <1>1, <1>2 DEF Chars, Slash

LEMMA SlashesTaken ==
  ASSUME NEW s, Len(s) \in Nat, NEW x, Whole(x), NoBar(x), NEW y, Trails(x, y, 3), y # <<>> => y[1] \notin Quantifiers,
         x[1] = ":", x[2] \in Slash, x[3] \in Slash,
         NEW j \in Nat, j >= 1, j + 3 <= Len(s) + 1, s[j] = ":", s[j + 1] = "/", s[j + 2] = "/"
  PROVE  Ends(y, s, {j + 3}) \subseteq Ends(x, s, {j})
<1> DEFINE N == 3
<1>1. Len(y) \in Nat /\ y \in Seq(Token) /\ Len(x) = N + Len(y) /\ Len(x) \in Nat
  BY DEF Trails
<1>2. \A i \in 1 .. N : x[i] \notin Special /\ s[j + i - 1] = Chars(x[i])
  <2>1. ASSUME NEW i \in 1 .. N
        PROVE  x[i] \notin Special /\ s[j + i - 1] = Chars(x[i])
    <3>1. i = 1 \/ i = 2 \/ i = 3
      OBVIOUS
    <3>2. j + 1 - 1 = j /\ j + 2 - 1 = j + 1 /\ j + 3 - 1 = j + 2
      OBVIOUS
    <3>3. x[1] \in Prefixing /\ x[2] \in Prefixing /\ x[3] \in Prefixing
      BY DEF Prefixing
    <3> QED
      BY <3>1, <3>2, <3>3, PrefixingPlain
  <2> QED
    BY <2>1
<1>3. N < Len(x) => x[N + 1] \notin Quantifiers
  <2>1. ASSUME N < Len(x)
        PROVE  x[N + 1] \notin Quantifiers
    <3>1. 1 \in 1 .. Len(y) /\ y # <<>>
      BY <1>1, <2>1
    <3>2. x[3 + 1] = y[1]
      BY <3>1 DEF Trails
    <3> QED
      BY <3>1, <3>2
  <2> QED
    BY <2>1
<1>4. j \in Positions(s) /\ N \in 0 .. Len(x) /\ j + N <= Len(s) + 1
  BY <1>1 DEF Positions
<1>5. From(x, N + 1) = y
  <2>1. N + 1 \in 1 .. N + 1 /\ Trails(x, y, N)
    OBVIOUS
  <2> QED
    BY <2>1, TrailsOn
<1>6. j + N = j + 3
  OBVIOUS
<1> HIDE DEF N
<1>7. Ends(From(x, N + 1), s, {j + N}) \subseteq Ends(x, s, {j})
  BY <1>2, <1>3, <1>4, TakesMany
<1> QED
  BY <1>5, <1>6, <1>7

\* The scheme an expression begins with, and the one a URL does.
Schemes == {<<"http">>, <<"http", "s">>, <<"http", "s", "?">>}
Heads(x, a) == \A i \in 1 .. Len(a) : x[i] = a[i]
Schemed(x, a) == /\ Heads(x, a) /\ x[Len(a) + 1] = ":" /\ x[Len(a) + 2] \in Slash /\ x[Len(a) + 3] \in Slash

LEMMA SchemeTaken ==
  ASSUME NEW s, Len(s) \in Nat, NEW x, Whole(x), NoBar(x), NEW y, y # <<>> => y[1] \notin Quantifiers,
         NEW a \in Schemes, NEW c \in {<<"http">>, <<"http", "s">>}, a = c \/ a = <<"http", "s", "?">>,
         Trails(x, y, Len(a) + 3), Schemed(x, a), Len(c) + 3 <= Len(s), Schemed(s, c),
         s[Len(c) + 2] = "/", s[Len(c) + 3] = "/"
  PROVE  Ends(y, s, {Len(c) + 4}) \subseteq Ends(x, s, {1})
<1>1. x \in Seq(Token) /\ Len(y) \in Nat /\ Len(x) \in Nat /\ Len(x) = Len(a) + 3 + Len(y)
  BY DEF Trails
<1>2. \/ Len(a) = 1 /\ a = c /\ Len(c) = 1 /\ a[1] = "http" /\ c[1] = "http"
      \/ Len(a) = 2 /\ a = c /\ Len(c) = 2 /\ a[1] = "http" /\ c[1] = "http" /\ a[2] = "s" /\ c[2] = "s"
      \/ Len(a) = 3 /\ Len(c) = 1 /\ a[1] = "http" /\ c[1] = "http" /\ a[2] = "s" /\ a[3] = "?"
      \/ Len(a) = 3 /\ Len(c) = 2 /\ a[1] = "http" /\ c[1] = "http" /\ a[2] = "s" /\ a[3] = "?" /\ c[2] = "s"
  BY DEF Schemes
<1>3. x[1] = "http" /\ s[1] = "http" /\ Len(s) >= 4 /\ 1 <= Len(s) /\ x # <<>> /\ 1 \in Positions(s) /\ 2 \in Positions(s)
  <2>1. 1 \in 1 .. Len(a) /\ 1 \in 1 .. Len(c)
    BY <1>2
  <2>2. x[1] = a[1] /\ s[1] = c[1]
    BY <2>1 DEF Schemed, Heads
  <2>3. Len(s) >= 4 /\ Len(x) >= 1
    BY <1>1, <1>2
  <2> QED
    BY <1>2, <2>2, <2>3 DEF Positions
<1>4. "http" \notin Special /\ "s" \notin Special /\ ":" \notin Quantifiers /\ "s" \notin Quantifiers
  BY PrefixingPlain DEF Prefixing, Quantifiers
<1> DEFINE z == From(x, 2)
<1>5. ASSUME x[2] \notin Quantifiers
      PROVE  Whole(z) /\ NoBar(z) /\ Ends(z, s, {2}) \subseteq Ends(x, s, {1})
  <2>1. s[1] = Chars(x[1]) /\ 1 + 1 = 2
    BY <1>3, PrefixingPlain
  <2> DEFINE j == 1
             i == j + 1
  <2>2. j \in Positions(s) /\ j <= Len(s) /\ s[j] = Chars(x[1]) /\ i = 2
    BY <1>3, <2>1
  <2> HIDE DEF j, i
  <2>3. Ends(z, s, {j + 1}) \subseteq Ends(x, s, {j}) /\ Whole(z) /\ NoBar(z)
    BY <1>3, <1>4, <1>5, <2>2, TakesOne
  <2> QED
    BY <2>2, <2>3 DEF i, j
<1>6. Trails(z, y, Len(a) + 2) /\ \A k \in 1 .. Len(a) + 2 : z[k] = x[k + 1]
  <2> DEFINE n == Len(a) + 3
             i == 2
  <2>1. i \in 1 .. n + 1 /\ n - i + 1 = Len(a) + 2 /\ Trails(x, y, n)
    BY <1>2
  <2>2. \A k \in 1 .. Len(a) + 2 : i + k - 1 = k + 1
    BY <1>2
  <2> HIDE DEF n, i
  <2>3. Trails(From(x, i), y, n - i + 1) /\ \A k \in 1 .. n - i + 1 : From(x, i)[k] = x[i + k - 1]
    BY <2>1, TrailsOn
  <2> QED
    BY <2>1, <2>2, <2>3 DEF i
<1>7. z \in Seq(Token) /\ Len(z) = Len(a) + 2 + Len(y)
  BY <1>6 DEF Trails
<1> HIDE DEF z
<1>8. CASE Len(a) = 1 /\ Len(c) = 1
  <2>1. x[2] = ":" /\ x[3] \in Slash /\ x[4] \in Slash /\ s[2] = ":" /\ s[3] = "/" /\ s[4] = "/"
    BY <1>8 DEF Schemed
  <2>2. z[1] = ":" /\ z[2] \in Slash /\ z[3] \in Slash /\ Trails(z, y, 3)
    BY <1>6, <1>8, <2>1
  <2> DEFINE j == 2
  <2>3. /\ j \in Nat /\ j >= 1 /\ j + 3 <= Len(s) + 1 /\ s[j] = ":" /\ s[j + 1] = "/" /\ s[j + 2] = "/"
        /\ j + 3 = Len(c) + 4
    BY <1>3, <1>8, <2>1
  <2>4. Whole(z) /\ NoBar(z) /\ Ends(z, s, {j}) \subseteq Ends(x, s, {1})
    BY <1>4, <1>5, <2>1
  <2> HIDE DEF j
  <2>5. Ends(y, s, {j + 3}) \subseteq Ends(z, s, {j})
    BY <2>2, <2>3, <2>4, SlashesTaken
  <2> QED
    BY <2>3, <2>4, <2>5
<1>9. CASE Len(a) = 2 /\ Len(c) = 2
  <2>1. x[2] = "s" /\ s[2] = "s" /\ x[3] = ":" /\ x[4] \in Slash /\ x[5] \in Slash /\ s[3] = ":" /\ s[4] = "/" /\ s[5] = "/"
    <3>1. x[2] = a[2] /\ s[2] = c[2]
      BY <1>9 DEF Schemed, Heads
    <3> QED
      BY <1>2, <1>9, <3>1 DEF Schemed
  <2> DEFINE v == From(z, 2)
             j == 2
             k == 3
  <2>2. Whole(z) /\ NoBar(z) /\ Ends(z, s, {j}) \subseteq Ends(x, s, {1})
    BY <1>4, <1>5, <2>1
  <2>3. z[1] = "s" /\ z[2] = ":" /\ z[3] \in Slash /\ z[4] \in Slash /\ z # <<>> /\ Trails(z, y, 4)
    BY <1>1, <1>6, <1>7, <1>9, <2>1
  <2>4. z[1] \notin Special /\ z[2] \notin Quantifiers /\ j \in Positions(s) /\ j <= Len(s) /\ s[j] = Chars(z[1]) /\ j + 1 = k
    BY <1>3, <1>4, <2>1, <2>3, PrefixingPlain
  <2>5. Trails(v, y, 3) /\ v[1] = ":" /\ v[2] \in Slash /\ v[3] \in Slash
    <3> DEFINE n == 4
               i == 2
    <3>1. i \in 1 .. n + 1 /\ n - i + 1 = 3 /\ i + 1 - 1 = 2 /\ i + 2 - 1 = 3 /\ i + 3 - 1 = 4 /\ Trails(z, y, n)
      BY <2>3
    <3> HIDE DEF n, i
    <3>2. Trails(From(z, i), y, n - i + 1) /\ \A m \in 1 .. n - i + 1 : From(z, i)[m] = z[i + m - 1]
      BY <3>1, TrailsOn
    <3>3. From(z, i)[1] = z[2] /\ From(z, i)[2] = z[3] /\ From(z, i)[3] = z[4]
      BY <3>1, <3>2
    <3> QED
      BY <2>3, <3>1, <3>2, <3>3 DEF i
  <2>6. /\ k \in Nat /\ k >= 1 /\ k + 3 <= Len(s) + 1 /\ s[k] = ":" /\ s[k + 1] = "/" /\ s[k + 2] = "/"
        /\ k + 3 = Len(c) + 4
    BY <1>1, <1>9, <2>1
  <2> HIDE DEF v, j, k
  <2>7. Whole(v) /\ NoBar(v) /\ Ends(v, s, {k}) \subseteq Ends(z, s, {j})
    BY <2>2, <2>3, <2>4, TakesOne DEF v
  <2>8. Ends(y, s, {k + 3}) \subseteq Ends(v, s, {k})
    BY <2>5, <2>6, <2>7, SlashesTaken
  <2> QED
    BY <2>2, <2>6, <2>7, <2>8
<1>10. CASE Len(a) = 3
  <2>1. /\ x[2] = "s" /\ x[3] = "?" /\ x[4] = ":" /\ x[5] \in Slash /\ x[6] \in Slash
        /\ s[Len(c) + 1] = ":" /\ s[Len(c) + 2] = "/" /\ s[Len(c) + 3] = "/"
        /\ Len(c) = 1 \/ (Len(c) = 2 /\ s[2] = "s")
    <3>1. x[2] = a[2] /\ x[3] = a[3]
      BY <1>10 DEF Schemed, Heads
    <3>2. Len(c) = 2 => s[2] = c[2]
      BY DEF Schemed, Heads
    <3> QED
      BY <1>2, <1>10, <3>1, <3>2 DEF Schemed
  <2> DEFINE v == From(z, 3)
             j == 2
             k == Len(c) + 1
  <2>2. Whole(z) /\ NoBar(z) /\ Ends(z, s, {j}) \subseteq Ends(x, s, {1})
    BY <1>4, <1>5, <2>1
  <2>3. /\ z[1] = "s" /\ z[2] = "?" /\ z[3] = ":" /\ z[4] \in Slash /\ z[5] \in Slash /\ z # <<>> /\ Trails(z, y, 5)
        /\ Len(z) > 1
    BY <1>1, <1>6, <1>7, <1>10, <2>1
  <2>4. z[1] \notin Special /\ j \in Positions(s) /\ j <= Len(s) /\ Chars(z[1]) = "s"
    BY <1>3, <1>4, <2>3, PrefixingPlain
  <2>5. Trails(v, y, 3) /\ v[1] = ":" /\ v[2] \in Slash /\ v[3] \in Slash
    <3> DEFINE n == 5
               i == 3
    <3>1. i \in 1 .. n + 1 /\ n - i + 1 = 3 /\ i + 1 - 1 = 3 /\ i + 2 - 1 = 4 /\ i + 3 - 1 = 5 /\ Trails(z, y, n)
      BY <2>3
    <3> HIDE DEF n, i
    <3>2. Trails(From(z, i), y, n - i + 1) /\ \A m \in 1 .. n - i + 1 : From(z, i)[m] = z[i + m - 1]
      BY <3>1, TrailsOn
    <3>3. From(z, i)[1] = z[3] /\ From(z, i)[2] = z[4] /\ From(z, i)[3] = z[5]
      BY <3>1, <3>2
    <3> QED
      BY <2>3, <3>1, <3>2, <3>3 DEF i
  <2>6. /\ k \in Nat /\ k >= 1 /\ k + 3 <= Len(s) + 1 /\ s[k] = ":" /\ s[k + 1] = "/" /\ s[k + 2] = "/"
        /\ k + 3 = Len(c) + 4 /\ (k = j \/ (k = j + 1 /\ s[j] = "s"))
    <3>1. CASE Len(c) = 1
      <4>1. k = 2 /\ k + 1 = Len(c) + 2 /\ k + 2 = Len(c) + 3 /\ k + 3 = Len(c) + 4 /\ k + 3 <= Len(s) + 1
        BY <1>3, <3>1
      <4> HIDE DEF k
      <4> QED
        BY <2>1, <3>1, <4>1
    <3>2. CASE Len(c) = 2 /\ s[2] = "s"
      <4>1. k = 3 /\ k + 1 = Len(c) + 2 /\ k + 2 = Len(c) + 3 /\ k + 3 = Len(c) + 4 /\ k + 3 <= Len(s) + 1
        BY <1>1, <3>2
      <4> HIDE DEF k
      <4> QED
        BY <2>1, <3>2, <4>1
    <3> QED
      BY <2>1, <3>1, <3>2
  <2> HIDE DEF v, j, k
  <2>7. Whole(v) /\ NoBar(v) /\ Ends(v, s, {k}) \subseteq Ends(z, s, {j})
    <3>1. /\ Whole(v) /\ NoBar(v) /\ Ends(v, s, {j}) \subseteq Ends(z, s, {j})
          /\ s[j] = "s" => Ends(v, s, {j + 1}) \subseteq Ends(z, s, {j})
      BY <2>2, <2>3, <2>4, TakesOne DEF v
    <3> QED
      BY <2>6, <3>1
  <2>8. Ends(y, s, {k + 3}) \subseteq Ends(v, s, {k})
    BY <2>5, <2>6, <2>7, SlashesTaken
  <2> QED
    BY <2>2, <2>6, <2>7, <2>8
<1> QED
  BY <1>2, <1>8, <1>9, <1>10

\* An expression whose scheme is one of the three, its caret left out.
Leading(x, a, w, y) ==
  /\ Whole(x) /\ NoBar(x) /\ Trails(x, y, Len(a) + 3) /\ a \in Schemes /\ Schemed(x, a)
  /\ \A s : Len(s) \in Nat => Ends(x, s, {1}) \subseteq Ends(w, s, {1})

LEMMA SchemesAre ==
  ASSUME NEW r, rawRegexSchemes(r) # {}
  PROVE  LET a == WithoutCaret(Upto(r, SchemeSep(r)))
         IN /\ a \in Schemes
            /\ \A q \in rawRegexSchemes(r) :
                 q \in {"http", "https"} /\ (a = SchemeText(q) \/ a = <<"http", "s", "?">>)
<1> DEFINE a == WithoutCaret(Upto(r, SchemeSep(r)))
<1>1. rawRegexSchemes(r) = CASE a = <<"http", "s">> -> {"https"}
                             [] a = <<"http">> -> {"http"}
                             [] a = <<"http", "s", "?">> -> {"https", "http"}
                             [] OTHER -> {}
  BY DEF rawRegexSchemes
<1> HIDE DEF a
<1>2. a \in Schemes
  BY <1>1 DEF Schemes
<1>3. <<"http">> # <<"http", "s">> /\ <<"http">> # <<"http", "s", "?">> /\ <<"http", "s">> # <<"http", "s", "?">>
  <2>1. Len(<<"http">>) = 1 /\ Len(<<"http", "s">>) = 2 /\ Len(<<"http", "s", "?">>) = 3
    OBVIOUS
  <2> QED
    BY <2>1
<1>4. ASSUME NEW q \in rawRegexSchemes(r)
      PROVE  q \in {"http", "https"} /\ (a = SchemeText(q) \/ a = <<"http", "s", "?">>)
  <2>1. CASE a = <<"http", "s">>
    <3>1. q = "https"
      BY <1>1, <1>3, <1>4, <2>1
    <3> QED
      BY <2>1, <3>1 DEF SchemeText
  <2>2. CASE a = <<"http">>
    <3>1. q = "http"
      BY <1>1, <1>3, <1>4, <2>2
    <3> QED
      BY <2>2, <3>1 DEF SchemeText
  <2>3. CASE a = <<"http", "s", "?">>
    <3>1. q \in {"https", "http"}
      BY <1>1, <1>3, <1>4, <2>3
    <3> QED
      BY <2>3, <3>1
  <2> QED
    BY <1>2, <2>1, <2>2, <2>3 DEF Schemes
<1> QED
  BY <1>2, <1>4 DEF a

LEMMA SchemeLeads ==
  ASSUME NEW r \in Seq(Token), PathSep(r) # 0, rawRegexSchemes(r) # {}, Whole(r), NoBar(r)
  PROVE  LET a == WithoutCaret(Upto(r, SchemeSep(r)))
         IN \E x : Leading(x, a, WholeUrl(r), Lowered(HostPart(r)) \o PathPart(r))
<1> DEFINE b == SchemeSep(r)
           e == PathSep(r)
           N == Len(r)
           d == Upto(r, b)
           a == WithoutCaret(d)
           h == Lowered(HostPart(r))
           p == PathPart(r)
           y == h \o p
           w == WholeUrl(r)
<1>1. UrlCut(r, b, e) /\ N \in Nat
  BY UrlIsCut
<1>2. b \in Nat /\ b >= 1 /\ b + 3 <= N /\ r[b] = ":" /\ r[b + 1] \in Slash /\ r[b + 2] \in Slash
  BY <1>1 DEF UrlCut
<1>3. Whereas(r, w, h, p, b)
  BY WholeUrlIs
<1>4. a \in Schemes
  BY SchemesAre
<1> HIDE DEF b, e
<1>5. d \in Seq(Token) /\ Len(d) = b - 1 /\ \A j \in 1 .. b - 1 : d[j] = r[j]
  <2>1. 1 \in 1 .. N + 1 /\ b - 1 \in 1 - 1 .. N /\ (b - 1) - 1 + 1 = b - 1
    BY <1>1, <1>2
  <2>2. d \in Seq(Token) /\ Len(d) = (b - 1) - 1 + 1 /\ \A j \in 1 .. (b - 1) - 1 + 1 : d[j] = r[1 + j - 1]
    BY <2>1, SubSeqs DEF Upto
  <2> HIDE DEF d
  <2>3. ASSUME NEW j \in 1 .. b - 1
        PROVE  d[j] = r[j]
    <3>1. j \in 1 .. (b - 1) - 1 + 1 /\ 1 + j - 1 = j
      BY <1>2
    <3> QED
      BY <2>2, <3>1
  <2> QED
    BY <2>1, <2>2, <2>3
<1> HIDE DEF w, h, p
<1>6. /\ Alike(r, w) /\ h \in Seq(Token) /\ p \in Seq(Token)
      /\ \A i \in 1 .. b + 2 : w[i] = Lower(r[i])
      /\ Len(w) = b + 2 + Len(y) /\ \A j \in 1 .. Len(y) : w[b + 2 + j] = y[j]
  BY <1>3 DEF Whereas
<1>7. Whole(w) /\ NoBar(w) /\ w \in Seq(Token) /\ Len(w) = N
  BY <1>6, WholeAlike DEF Alike
<1>8. y \in Seq(Token) /\ Len(y) \in Nat
  BY <1>6, Gluing DEF Glued
<1>9. w[b] = ":" /\ w[b + 1] \in Slash /\ w[b + 2] \in Slash
  <2>1. b \in 1 .. b + 2 /\ b + 1 \in 1 .. b + 2 /\ b + 2 \in 1 .. b + 2
    BY <1>2
  <2>2. Lower(":") = ":" /\ \A t \in Slash : Lower(t) = t
    BY DEF Lower, Slash
  <2> QED
    BY <1>2, <1>6, <2>1, <2>2
<1>10. \A i \in 1 .. Len(a) : Lower(a[i]) = a[i]
  <2>1. ASSUME NEW i \in 1 .. Len(a)
        PROVE  Lower(a[i]) = a[i]
    <3>1. /\ a = <<"http">> => Len(a) = 1 /\ a[1] = "http"
          /\ a = <<"http", "s">> => Len(a) = 2 /\ a[1] = "http" /\ a[2] = "s"
          /\ a = <<"http", "s", "?">> => Len(a) = 3 /\ a[1] = "http" /\ a[2] = "s" /\ a[3] = "?"
      OBVIOUS
    <3> HIDE DEF a
    <3>2. a[i] \in {"http", "s", "?"}
      BY <1>4, <3>1 DEF Schemes
    <3> QED
      BY <3>2 DEF Lower
  <2> QED
    BY <2>1
<1> HIDE DEF y
<1>11. CASE ~ StartsWith(d, "^")
  <2>1. a = d
    BY <1>11 DEF WithoutCaret
  <2> HIDE DEF a, d
  <2>2. Len(a) = b - 1 /\ Len(a) + 1 = b /\ Len(a) + 2 = b + 1 /\ Len(a) + 3 = b + 2
    BY <1>2, <1>5, <2>1
  <2>3. Trails(w, y, Len(a) + 3)
    BY <1>2, <1>6, <1>7, <1>8, <2>2 DEF Trails
  <2>4. \A i \in 1 .. Len(a) : w[i] = a[i]
    <3>1. ASSUME NEW i \in 1 .. Len(a)
          PROVE  w[i] = a[i]
      <4>1. i \in 1 .. b - 1 /\ i \in 1 .. b + 2
        BY <1>2, <2>2
      <4>2. w[i] = Lower(r[i]) /\ a[i] = r[i]
        BY <1>5, <1>6, <2>1, <4>1
      <4> QED
        BY <1>10, <4>2
    <3> QED
      BY <3>1
  <2>5. Schemed(w, a)
    BY <1>9, <2>2, <2>4 DEF Schemed, Heads
  <2>6. Leading(w, a, w, y)
    BY <1>4, <1>7, <2>3, <2>5 DEF Leading
  <2> QED
    BY <2>6 DEF a, d, w, y, h, p, b
<1>12. CASE StartsWith(d, "^")
  <2> DEFINE x == Tail(w)
  <2>1. d # <<>> /\ d[1] = "^" /\ a = Tail(d) /\ b >= 2
    BY <1>2, <1>5, <1>12 DEF StartsWith, WithoutCaret
  <2>2. Len(a) = b - 2 /\ \A i \in 1 .. b - 2 : a[i] = d[i + 1]
    BY <1>2, <1>5, <2>1
  <2> HIDE DEF a, d
  <2>3. Len(a) + 1 = b - 1 /\ Len(a) + 2 = b /\ Len(a) + 3 = b + 1 /\ Len(a) \in Nat
    BY <1>2, <2>1, <2>2
  <2>4. w # <<>> /\ w[1] = "^"
    <3>1. 1 \in 1 .. b - 1 /\ 1 \in 1 .. b + 2 /\ Lower("^") = "^"
      BY <1>2, <2>1 DEF Lower
    <3>2. w[1] = Lower(r[1]) /\ d[1] = r[1]
      BY <1>5, <1>6, <3>1
    <3>3. Len(w) # 0
      BY <1>1, <1>2, <1>7
    <3> QED
      BY <1>7, <2>1, <3>1, <3>2, <3>3
  <2>5. x \in Seq(Token) /\ Len(x) = N - 1 /\ \A i \in 1 .. N - 1 : x[i] = w[i + 1]
    BY <1>1, <1>7, <2>4
  <2> HIDE DEF x
  <2>6. Trails(x, y, Len(a) + 3)
    <3>1. N - 1 = b + 1 + Len(y)
      BY <1>2, <1>6, <1>7, <1>8
    <3>2. ASSUME NEW j \in 1 .. Len(y)
          PROVE  x[b + 1 + j] = y[j]
      <4> DEFINE k == b + 1 + j
      <4>1. k \in 1 .. N - 1 /\ k + 1 = b + 2 + j
        BY <1>2, <1>8, <3>1
      <4> HIDE DEF k
      <4>2. x[k] = w[k + 1]
        BY <2>5, <4>1
      <4> QED
        BY <1>6, <4>1, <4>2 DEF k
    <3> QED
      BY <1>8, <2>3, <2>5, <3>1, <3>2 DEF Trails
  <2>7. \A i \in 1 .. Len(a) : x[i] = a[i]
    <3>1. ASSUME NEW i \in 1 .. Len(a)
          PROVE  x[i] = a[i]
      <4>1. i \in 1 .. b - 2 /\ i + 1 \in 1 .. b - 1 /\ i + 1 \in 1 .. b + 2 /\ i \in 1 .. N - 1
        BY <1>1, <1>2, <2>2
      <4>2. x[i] = Lower(r[i + 1]) /\ a[i] = r[i + 1]
        BY <1>5, <1>6, <2>2, <2>5, <4>1
      <4> QED
        BY <1>10, <4>2
    <3> QED
      BY <3>1
  <2>8. Schemed(x, a)
    <3>1. b - 1 \in 1 .. N - 1 /\ b \in 1 .. N - 1 /\ b + 1 \in 1 .. N - 1 /\ (b - 1) + 1 = b /\ (b + 1) + 1 = b + 2
      BY <1>1, <1>2, <2>1
    <3>2. x[b - 1] = w[b] /\ x[b] = w[b + 1] /\ x[b + 1] = w[b + 2]
      BY <2>5, <3>1
    <3> QED
      BY <1>9, <2>3, <2>7, <3>2 DEF Schemed, Heads
  <2>9. ASSUME NEW s, Len(s) \in Nat
        PROVE  Ends(x, s, {1}) \subseteq Ends(w, s, {1}) /\ Whole(x) /\ NoBar(x)
    <3> DEFINE o == {1}
    <3>1. o \in SUBSET Positions(s) /\ o \cap {1} = o
      BY <2>9 DEF Positions
    <3> HIDE DEF o
    <3>2. Ends(w, s, o) = Ends(x, s, o \cap {1}) /\ Whole(x) /\ NoBar(x)
      BY <1>7, <2>4, <2>9, <3>1, BeginsAnchored DEF x
    <3> QED
      BY <3>1, <3>2 DEF o
  <2>10. Whole(x) /\ NoBar(x)
    <3>1. Len(<<>>) \in Nat
      OBVIOUS
    <3> QED
      BY <2>9, <3>1
  <2>11. Leading(x, a, w, y)
    BY <1>4, <2>6, <2>8, <2>9, <2>10 DEF Leading
  <2> QED
    BY <2>11 DEF a, d, w, y, h, p, b
<1> QED
  BY <1>11, <1>12

-----------------------------------------------------------------------------
(* Cutting never widens *)

\* Where the parts of a URL stand in it.
Stood(s, c, n, t) ==
  /\ Len(s) \in Nat /\ Len(s) = Len(c) + 3 + Len(n) + Len(t)
  /\ Len(c) + 3 <= Len(s) /\ Schemed(s, c) /\ s[Len(c) + 2] = "/" /\ s[Len(c) + 3] = "/"
  /\ Embedded(n, s, Len(c) + 3) /\ Embedded(t, s, Len(c) + 3 + Len(n))

LEMMA UrlStands ==
  ASSUME NEW c \in Seq(Token), NEW n \in Seq(Token), NEW t \in Seq(Token)
  PROVE  Stood(c \o <<":", "/", "/">> \o n \o t, c, n, t)
<1> DEFINE m == <<":", "/", "/">>
           x == c \o m
           y == x \o n
           s == y \o t
           k == Len(c)
           l == Len(n)
<1>1. m \in Seq(Token) /\ Len(m) = 3 /\ m[1] = ":" /\ m[2] = "/" /\ m[3] = "/"
  BY CharacterAssumption DEF Token
<1>2. k \in Nat /\ l \in Nat /\ Len(t) \in Nat
  OBVIOUS
<1> HIDE DEF m
<1>3. /\ x \in Seq(Token) /\ Len(x) = k + 3 /\ \A i \in 1 .. k : x[i] = c[i]
      /\ \A i \in 1 .. 3 : x[k + i] = m[i]
  <2>1. Glued(c, m)
    BY <1>1, Gluing
  <2> QED
    BY <1>1, <2>1 DEF Glued
<1> HIDE DEF x
<1>4. /\ y \in Seq(Token) /\ Len(y) = k + 3 + l /\ \A i \in 1 .. k + 3 : y[i] = x[i]
      /\ \A i \in 1 .. l : y[k + 3 + i] = n[i]
  <2>1. Glued(x, n)
    BY <1>3, Gluing
  <2> QED
    BY <1>3, <2>1 DEF Glued
<1> HIDE DEF y
<1>5. /\ s \in Seq(Token) /\ Len(s) = k + 3 + l + Len(t) /\ \A i \in 1 .. k + 3 + l : s[i] = y[i]
      /\ \A i \in 1 .. Len(t) : s[k + 3 + l + i] = t[i]
  <2>1. Glued(y, t)
    BY <1>4, Gluing
  <2> QED
    BY <1>4, <2>1 DEF Glued
<1> HIDE DEF s, k, l
<1>6. \A i \in 1 .. k + 3 : s[i] = x[i]
  <2>1. \A i \in 1 .. k + 3 : i \in 1 .. k + 3 + l
    BY <1>2
  <2> QED
    BY <1>4, <1>5, <2>1
<1>7. \A i \in 1 .. k : s[i] = c[i]
  <2>1. \A i \in 1 .. k : i \in 1 .. k + 3
    BY <1>2
  <2> QED
    BY <1>3, <1>6, <2>1
<1>8. s[k + 1] = ":" /\ s[k + 2] = "/" /\ s[k + 3] = "/"
  <2>1. k + 1 \in 1 .. k + 3 /\ k + 2 \in 1 .. k + 3 /\ k + 3 \in 1 .. k + 3
    BY <1>2
  <2>2. x[k + 1] = m[1] /\ x[k + 2] = m[2] /\ x[k + 3] = m[3]
    BY <1>3
  <2> QED
    BY <1>1, <1>6, <2>1, <2>2
<1>9. \A i \in 1 .. l : s[k + 3 + i] = n[i]
  <2>1. \A i \in 1 .. l : k + 3 + i \in 1 .. k + 3 + l
    BY <1>2
  <2> QED
    BY <1>4, <1>5, <2>1
<1>10. Schemed(s, c)
  BY <1>7, <1>8 DEF Schemed, Heads, Slash, k
<1>11. Embedded(n, s, k + 3) /\ Embedded(t, s, k + 3 + l)
  BY <1>2, <1>5, <1>9 DEF Embedded, l
<1>12. k + 3 <= Len(s) /\ Len(s) \in Nat
  BY <1>2, <1>5
<1>13. Stood(s, c, n, t)
  BY <1>5, <1>8, <1>10, <1>11, <1>12 DEF Stood, k, l
<1> QED
  BY <1>13 DEF s, y, x, m

\* What takes the whole host, and then what begins to take the path, takes the
\* URL from its first character on.
LEMMA HalvesMeet ==
  ASSUME NEW s, NEW c \in {<<"http">>, <<"http", "s">>}, NEW n, NEW t, Stood(s, c, n, t),
         NEW h, Whole(h), NoBar(h), NEW p, Whole(p), NoBar(p), p # <<>>,
         \A i \in 1 .. Len(h) : h[i] \notin Assertions, \A i \in 1 .. Len(p) : p[i] # "^",
         Spans(h, n), Ends(p, t, {1}) # {},
         NEW a \in Schemes, a = c \/ a = <<"http", "s", "?">>, NEW w, Whole(w), NEW x, Leading(x, a, w, h \o p)
  PROVE  Finds(w, s)
<1> DEFINE k == Len(c) + 3
           l == k + Len(n)
           y == h \o p
           o == {1}
           P == Positions(s)
           K == {Len(c) + 4}
           H == Ends(h, s, K)
<1>1. /\ Len(s) \in Nat /\ Len(s) = k + Len(n) + Len(t) /\ Embedded(n, s, k) /\ Embedded(t, s, l)
      /\ Len(c) + 3 <= Len(s) /\ Schemed(s, c) /\ s[Len(c) + 2] = "/" /\ s[Len(c) + 3] = "/"
  BY DEF Stood
<1>2. Len(n) \in Nat /\ Len(t) \in Nat /\ k \in Nat /\ l \in Nat /\ Len(c) \in Nat
  BY <1>1 DEF Embedded
<1>3. h \in Seq(Token) /\ p \in Seq(Token) /\ p[1] \notin Quantifiers
  BY FirstRises DEF Whole
<1>4. Unbound(h, n, s, k)
  BY DEF Unbound, Written, Assertions
<1>5. Unbound(p, t, s, l)
  <2>1. Len(s) = l + Len(t)
    BY <1>1, <1>2
  <2> QED
    BY <2>1 DEF Unbound, Written
<1>6. Len(c) + 4 = k + 1 /\ k + 1 \in P /\ l + 1 \in P
  BY <1>1, <1>2 DEF Positions
<1>7. /\ o \in SUBSET Positions(n) /\ o \in SUBSET Positions(t) /\ o \in SUBSET P
      /\ Moved(o, k) = K /\ Moved(o, l) = {l + 1} /\ K \in SUBSET P /\ {l + 1} \in SUBSET P
  <2>1. Moved(o, k) = {1 + k} /\ Moved(o, l) = {1 + l}
    BY DEF Moved
  <2> QED
    BY <1>1, <1>2, <1>6, <2>1 DEF Positions
<1> HIDE DEF o, K, P
<1>8. l + 1 \in H /\ H \in SUBSET P
  <2>1. Moves(h, n, s, k)
    BY <1>1, <1>3, Moving
  <2>2. Moved(Ends(h, n, o), k) \subseteq H
    BY <1>4, <1>7, <2>1 DEF Moves
  <2>3. Len(n) + 1 \in Ends(h, n, o)
    BY DEF Spans, o
  <2>4. (Len(n) + 1) + k \in Moved(Ends(h, n, o), k)
    BY <2>3 DEF Moved
  <2>5. (Len(n) + 1) + k = l + 1
    BY <1>2
  <2>6. H \in SUBSET P
    BY <1>1, <1>7, Unfolds DEF P
  <2> QED
    BY <2>2, <2>4, <2>5, <2>6
<1>9. Ends(p, s, {l + 1}) # {}
  <2>1. Moves(p, t, s, l)
    BY <1>1, <1>3, Moving
  <2>2. Moved(Ends(p, t, o), l) \subseteq Ends(p, s, {l + 1})
    BY <1>5, <1>7, <2>1 DEF Moves
  <2>3. PICK e : e \in Ends(p, t, o)
    BY DEF o
  <2>4. e + l \in Moved(Ends(p, t, o), l)
    BY <2>3 DEF Moved
  <2> QED
    BY <2>2, <2>4
<1> HIDE DEF H
<1>10. Ends(p, s, {l + 1}) \subseteq Ends(p, s, H)
  <2>1. {l + 1} \subseteq H
    BY <1>8
  <2> QED
    BY <1>1, <1>7, <1>8, <2>1, Growing DEF P
<1>11. Ends(y, s, K) = Ends(p, s, H)
  <2>1. Composes(h, s)
    BY <1>1, <1>3, Composing
  <2> QED
    BY <1>3, <1>7, <2>1 DEF Composes, H, P
<1>12. Whole(x) /\ NoBar(x) /\ Trails(x, y, Len(a) + 3) /\ Schemed(x, a) /\ Ends(x, s, {1}) \subseteq Ends(w, s, {1})
  BY <1>1 DEF Leading
<1>13. y # <<>> => y[1] \notin Quantifiers
  <2>1. Whole(y)
    BY <1>3, JoinIsWhole
  <2> HIDE DEF y
  <2> QED
    BY <2>1, FirstRises
<1> HIDE DEF y
<1>14. Ends(y, s, K) \subseteq Ends(x, s, {1})
  BY <1>1, <1>12, <1>13, SchemeTaken DEF K
<1>15. Ends(w, s, o) \subseteq Ends(w, s, P)
  BY <1>1, <1>7, Growing DEF P
<1>16. Ends(w, s, P) # {}
  BY <1>9, <1>10, <1>11, <1>12, <1>14, <1>15 DEF o
<1> QED
  BY <1>16 DEF Finds, P, Positions

\* The halves of a `~` URL, as the proxy compiles them.
LEMMA HalvesAre ==
  ASSUME NEW r \in Seq(Token), RawAccepted(r), Compiles(HostPart(r), "PCRE2"), Compiles(PathPart(r), "PCRE2"),
         AnchorsOutside(r)
  PROVE  LET h == Lowered(HostPart(r))
             p == PathPart(r)
         IN /\ Whole(r) /\ NoBar(r) /\ Whole(WholeUrl(r))
            /\ HostPart(r) \in Seq(Token) /\ Whole(h) /\ NoBar(h) /\ Whole(p) /\ NoBar(p) /\ p # <<>>
            /\ \A i \in 1 .. Len(h) : h[i] \notin Assertions
            /\ \A i \in 1 .. Len(p) : p[i] # "^"
<1> DEFINE b == SchemeSep(r)
           g == HostPart(r)
           h == Lowered(g)
           p == PathPart(r)
           w == WholeUrl(r)
<1>1. /\ Compiles(r, "JavaScript") /\ checkRawRegexHalf(r, FALSE) /\ PathSep(r) # 0
      /\ checkRawRegexHalf(g, FALSE) /\ checkRawRegexHalf(p, FALSE)
  BY DEF RawAccepted
<1>2. Whereas(r, w, h, p, b) /\ UrlCut(r, b, PathSep(r)) /\ Len(r) \in Nat
  BY <1>1, WholeUrlIs, UrlIsCut
<1>3. Whole(r) /\ NoBar(r)
  BY <1>1, CheckedIsWhole
<1>4. g \in Seq(Token)
  <2> DEFINE x == b + 3
             y == PathSep(r) - 1
  <2>1. x \in 1 .. Len(r) + 1 /\ y \in x - 1 .. Len(r)
    BY <1>2 DEF UrlCut
  <2> HIDE DEF x, y
  <2>2. SubSeq(r, x, y) \in Seq(Token)
    BY <2>1, SubSeqs
  <2> QED
    BY <2>2 DEF HostPart, x, y
<1>5. b \in Nat /\ b >= 1
  BY <1>2 DEF UrlCut
<1> HIDE DEF g, p, w, b
<1>6. Whole(g) /\ NoBar(g)
  BY <1>1, <1>4, CheckedIsWhole DEF g
<1>7. Alike(g, h)
  BY <1>4, LoweredAlike
<1> HIDE DEF h
<1>8. Whole(h) /\ NoBar(h)
  BY <1>6, <1>7, WholeAlike
<1>9. /\ Alike(r, w) /\ h \in Seq(Token) /\ p \in Seq(Token) /\ p # <<>>
      /\ Len(w) = b + 2 + Len(h \o p) /\ Len(h) + Len(p) = Len(h \o p)
      /\ \A j \in 1 .. Len(h) : h[j] = Lower(r[b + 2 + j])
      /\ \A j \in 1 .. Len(p) : p[j] = r[b + 2 + Len(h) + j]
  BY <1>2 DEF Whereas
<1>10. Whole(p) /\ NoBar(p)
  BY <1>1, <1>9, CheckedIsWhole DEF p
<1>11. Whole(w) /\ Len(w) = Len(r)
  BY <1>3, <1>9, WholeAlike DEF Alike
<1>12. Len(h) \in Nat /\ Len(p) \in Nat /\ Len(p) >= 1 /\ Len(r) = b + 2 + (Len(h) + Len(p))
  BY <1>9, <1>11, EmptySeq
<1>13. (\A i \in 2 .. Len(r) : r[i] # "^") /\ (\A i \in 1 .. Len(r) - 1 : r[i] # "$")
  BY DEF AnchorsOutside
<1>14. ASSUME NEW i \in 1 .. Len(h)
       PROVE  h[i] \notin Assertions
  <2> DEFINE j == b + 2 + i
  <2>1. j \in 2 .. Len(r) /\ j \in 1 .. Len(r) - 1
    BY <1>2, <1>5, <1>12
  <2>2. r[j] # "^" /\ r[j] # "$"
    BY <1>13, <2>1
  <2>3. h[i] = Lower(r[j])
    BY <1>9
  <2> QED
    BY <2>2, <2>3 DEF Lower, Assertions
<1>15. ASSUME NEW i \in 1 .. Len(p)
       PROVE  p[i] # "^"
  <2> DEFINE j == b + 2 + Len(h) + i
  <2>1. j \in 2 .. Len(r)
    BY <1>2, <1>5, <1>12
  <2>2. p[i] = r[j] /\ r[j] # "^"
    BY <1>9, <1>13, <2>1
  <2> QED
    BY <2>2
<1> QED
  BY <1>3, <1>4, <1>8, <1>9, <1>10, <1>11, <1>14, <1>15 DEF h, g, p, w

Regroups(a, b, c, d) == a \o ((b \o c) \o d) = ((a \o b) \o c) \o d

LEMMA JoinedInAnyOrder ==
  ASSUME NEW a \in Seq(Token), NEW b \in Seq(Token), NEW c \in Seq(Token), NEW d \in Seq(Token)
  PROVE  Regroups(a, b, c, d)
<1>1. b \o c \in Seq(Token)
  BY ConcatProperties
<1>2. (a \o (b \o c)) \o d = a \o ((b \o c) \o d)
  BY <1>1, ConcatAssociative
<1>3. (a \o b) \o c = a \o (b \o c)
  BY ConcatAssociative
<1> QED
  BY <1>2, <1>3 DEF Regroups

\* A request the host's match and the path's match both admit is one the whole
\* expression finds in its URL: for every expression whose anchors are at its
\* ends (url-rules.ts:174-196).
THEOREM CuttingHolds == Spec => []CutNeverWidens
<1>1. InvRaw => CutNeverWidens
  <2> SUFFICES ASSUME InvRaw, UrlRuns, AnchorsOutside(rule), NEW q \in Requests,
                      RawTakes(rule, q[1], q[2], q[3], q[4])
               PROVE  \/ Finds(WholeUrl(rule), Url(q[1], q[2], q[3], q[4]))
                      \/ Finds(WholeUrl(rule), FullUrl(q[1], q[2], q[3], q[4]))
    BY DEF CutNeverWidens
  <2> DEFINE g == HostPart(rule)
             h == Lowered(g)
             p == PathPart(rule)
             w == WholeUrl(rule)
             a == WithoutCaret(Upto(rule, SchemeSep(rule)))
             c == SchemeText(q[1])
             n == q[2]
             o == q[3]
             t == q[4]
             m == <<":", "/", "/">>
             k == <<":">>
  <2>1. /\ field = "rawUrl" /\ rule \in Seq(Token) /\ "rawUrl" \in Fields
        /\ RawAccepted(rule) /\ Compiles(g, "PCRE2") /\ Compiles(p, "PCRE2")
    BY DEF UrlRuns, InvRaw, Raw
  <2>2. PathSep(rule) # 0 /\ rawRegexSchemes(rule) # {} /\ q[1] \in rawRegexSchemes(rule)
    BY <2>1 DEF RawAccepted, RawTakes
  <2>3. n \in Seq(Token) /\ o \in Seq(Token) /\ t \in Seq(Token)
    <3>1. n \in Names["rawUrl"] /\ o \in Ports["rawUrl"] /\ t \in Paths["rawUrl"]
      BY <2>1 DEF Requests
    <3>2. n \in Seq(Character) /\ o \in Seq(Character) /\ t \in Seq(Character)
      BY <2>1, <3>1, ExpressionAssumption
    <3> QED
      BY <3>2 DEF Token
  <2>4. /\ Whole(rule) /\ NoBar(rule) /\ Whole(w) /\ g \in Seq(Token)
        /\ Whole(h) /\ NoBar(h) /\ Whole(p) /\ NoBar(p) /\ p # <<>>
        /\ \A i \in 1 .. Len(h) : h[i] \notin Assertions
        /\ \A i \in 1 .. Len(p) : p[i] # "^"
    BY <2>1, HalvesAre
  <2>5. a \in Schemes /\ q[1] \in {"http", "https"} /\ (a = c \/ a = <<"http", "s", "?">>)
    BY <2>2, SchemesAre
  <2>6. c \in {<<"http">>, <<"http", "s">>}
    BY DEF SchemeText
  <2>7. PICK x : Leading(x, a, w, h \o p)
    BY <2>1, <2>2, <2>4, SchemeLeads
  <2>8. Ends(p, t, {1}) # {}
    BY <2>3, <2>4, PathTaken DEF RawTakes
  <2>9. Lowered(anchorRawRegex(g)) = anchorRawRegex(h)
    BY <2>4, LoweredAnchors
  <2>10. \/ o = DefaultPort(q[1]) /\ Finds(anchorRawRegex(h), n)
         \/ Finds(anchorRawRegex(h), n \o k \o o)
    BY <2>9 DEF RawTakes, RawHostTakes
  <2>11. c \in Seq(Token)
    <3>1. Schemed(x, a) /\ x \in Seq(Token) /\ Len(a) + 3 <= Len(x)
      BY <2>7 DEF Leading, Trails
    <3>2. /\ a = <<"http">> => Len(a) = 1 /\ a[1] = "http"
          /\ a = <<"http", "s">> => Len(a) = 2 /\ a[1] = "http" /\ a[2] = "s"
          /\ a = <<"http", "s", "?">> => Len(a) = 3 /\ a[1] = "http" /\ a[2] = "s"
      OBVIOUS
    <3> HIDE DEF a, c
    <3>3. Len(a) \in {1, 2, 3}
      BY <2>5, <3>2 DEF Schemes
    <3>4. \A i \in 1 .. Len(a) : x[i] = a[i] /\ x[i] \in Token
      BY <3>1, <3>3 DEF Schemed, Heads
    <3>5. CASE c = <<"http">>
      <4>1. "http" \in Token
        <5>1. 1 \in 1 .. Len(a) /\ a[1] = "http"
          BY <2>5, <3>2, <3>3 DEF Schemes
        <5> QED
          BY <3>4, <5>1
      <4> QED
        BY <3>5, <4>1
    <3>6. CASE c = <<"http", "s">>
      <4>1. a # <<"http">>
        <5>1. Len(<<"http">>) = 1 /\ Len(<<"http", "s">>) = 2 /\ Len(<<"http", "s", "?">>) = 3
          OBVIOUS
        <5> QED
          BY <2>5, <3>6, <5>1
      <4>2. "http" \in Token /\ "s" \in Token
        <5>1. 1 \in 1 .. Len(a) /\ 2 \in 1 .. Len(a) /\ a[1] = "http" /\ a[2] = "s"
          BY <2>5, <3>2, <4>1 DEF Schemes
        <5> QED
          BY <3>4, <5>1
      <4> QED
        BY <3>6, <4>2
    <3> QED
      BY <2>6, <3>5, <3>6 DEF c
  <2> HIDE DEF g, h, p, w, a, c, n, o, t
  <2>12. ASSUME NEW v \in Seq(Token), Finds(anchorRawRegex(h), v)
         PROVE  Finds(w, c \o m \o v \o t)
    <3> DEFINE s == c \o m \o v \o t
    <3>1. Len(v) \in Nat
      OBVIOUS
    <3>2. Spans(h, v)
      BY <2>4, <2>12, <3>1, AnchoredMatchesAll
    <3>3. Stood(s, c, v, t)
      BY <2>3, <2>11, UrlStands
    <3> HIDE DEF s
    <3>4. Finds(w, s)
      BY <2>4, <2>5, <2>6, <2>7, <2>8, <3>2, <3>3, HalvesMeet
    <3> QED
      BY <3>4 DEF s
  <2>13. k \in Seq(Token) /\ m \in Seq(Token)
    BY CharacterAssumption DEF Token
  <2> HIDE DEF m, k
  <2>14. c \o m \in Seq(Token) /\ n \o k \in Seq(Token) /\ n \o k \o o \in Seq(Token) /\ c \o m \o n \in Seq(Token)
    BY <2>3, <2>11, <2>13, ConcatProperties
  <2>15. CASE o = DefaultPort(q[1]) /\ Finds(anchorRawRegex(h), n)
    <3>1. Finds(w, c \o m \o n \o t)
      BY <2>3, <2>12, <2>15
    <3>2. c \o m \o n \o <<>> = c \o m \o n
      BY <2>14, ConcatEmptySeq
    <3>3. Url(q[1], n, o, t) = c \o m \o n \o t
      BY <2>15, <3>2 DEF Url, c, m
    <3> QED
      BY <3>1, <3>3 DEF w, n, o, t
  <2>16. CASE Finds(anchorRawRegex(h), n \o k \o o)
    <3> DEFINE v == n \o k \o o
    <3>1. Finds(w, c \o m \o v \o t)
      BY <2>12, <2>14, <2>16
    <3>2. c \o m \o v = c \o m \o n \o k \o o
      <4> DEFINE x1 == c \o m
      <4>1. x1 \in Seq(Token)
        BY <2>14
      <4> HIDE DEF x1
      <4>2. Regroups(x1, n, k, o)
        BY <2>3, <2>13, <4>1, JoinedInAnyOrder
      <4> QED
        BY <4>2 DEF Regroups, x1
    <3>3. FullUrl(q[1], n, o, t) = c \o m \o n \o k \o o \o t
      BY DEF FullUrl, c, m, k
    <3> QED
      BY <3>1, <3>2, <3>3 DEF w, n, o, t
  <2> QED
    BY <2>10, <2>15, <2>16
<1> QED
  BY <1>1, RawTyped, PTL

=============================================================================
