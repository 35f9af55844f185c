--------------------------- MODULE OffsetsProofs ---------------------------
(***************************************************************************)
(* Induction over the natural numbers, for sets in place of operators, and *)
(* what follows from it about Offsets and FlattenSeq, which are recursive  *)
(* functions.                                                              *)
(***************************************************************************)
EXTENDS Offsets, SequencesExt, FiniteSetTheorems, WellFoundedInduction, TLAPS

\* The sets 1..n are well-founded by inclusion: there is no first one whose n is
\* not in S.
LEMMA InductionOnNat ==
  ASSUME NEW S, 0 \in S, \A n \in Nat : n \in S => n + 1 \in S
  PROVE  \A n \in Nat : n \in S
<1> DEFINE R == StrictSubsetOrdering(Nat)
           F == FiniteSubsetsOf(Nat)
           T == {1..n : n \in Nat \ S}
<1> SUFFICES ASSUME T # {} PROVE FALSE
  OBVIOUS
<1>1. IsWellFoundedOn(R, F)
  BY FS_StrictSubsetOrderingWellFounded
<1>2. T \subseteq F
  <2> SUFFICES ASSUME NEW n \in Nat PROVE 1..n \in F
    OBVIOUS
  <2>1. 1 \in Int /\ n \in Int /\ 1..n \in SUBSET Nat
    OBVIOUS
  <2>2. IsFiniteSet(1..n)
    BY <2>1, FS_Interval
  <2> QED
    BY <2>1, <2>2 DEF FiniteSubsetsOf
<1>3. PICK x \in T : \A y \in T : <<y, x>> \notin R
  <2> HIDE DEF R, F, T
  <2> QED
    BY <1>1, <1>2, WFMin
<1>4. PICK n \in Nat \ S : x = 1..n
  OBVIOUS
<1>5. n # 0 /\ n - 1 \in Nat /\ (n - 1) + 1 = n
  BY <1>4
<1>6. 1..(n - 1) \in T
  BY <1>5
<1>7. <<1..(n - 1), 1..n>> \in R
  BY <1>5 DEF StrictSubsetOrdering
<1> QED
  BY <1>3, <1>4, <1>6, <1>7

----------------------------------------------------------------------------
(* Offsets *)

\* The recursive function exists.
LEMMA OffsetsExist ==
  ASSUME NEW first \in Nat, NEW lens \in Seq(Nat)
  PROVE  \E f \in [1..Len(lens) -> Nat] :
            f = [i \in 1..Len(lens) |-> IF i = 1 THEN first ELSE f[i - 1] + lens[i - 1]]
<1> DEFINE Is(f, m) == f = [i \in 1..m |-> IF i = 1 THEN first ELSE f[i - 1] + lens[i - 1]]
           S == {m \in Nat : m <= Len(lens) => \E f \in [1..m -> Nat] : Is(f, m)}
<1>1. Len(lens) \in Nat /\ \A i \in 1..Len(lens) : lens[i] \in Nat
  OBVIOUS
<1>2. 0 \in S
  <2> DEFINE f == [i \in 1..0 |-> 0]
  <2>1. Is(f, 0) /\ f \in [1..0 -> Nat]
    OBVIOUS
  <2> HIDE DEF f, Is
  <2> QED
    BY <2>1
<1>3. ASSUME NEW m \in Nat, m \in S PROVE m + 1 \in S
  <2> SUFFICES ASSUME m + 1 <= Len(lens) PROVE \E f \in [1..m + 1 -> Nat] : Is(f, m + 1)
    OBVIOUS
  <2>1. PICK f \in [1..m -> Nat] : Is(f, m)
    <3>1. m <= Len(lens)
      BY <1>1, <1>3
    <3> HIDE DEF Is
    <3> QED
      BY <1>3, <3>1
  <2> DEFINE h == [i \in 1..m + 1 |->
                      IF i <= m THEN f[i] ELSE IF m = 0 THEN first ELSE f[m] + lens[m]]
  <2>2. h \in [1..m + 1 -> Nat]
    BY <1>1
  <2>3. ASSUME NEW i \in 1..m + 1 PROVE h[i] = IF i = 1 THEN first ELSE h[i - 1] + lens[i - 1]
    BY <2>1
  <2>4. Is(h, m + 1)
    BY <2>3
  <2> HIDE DEF h, Is
  <2> QED
    BY <2>2, <2>4
<1>4. \A m \in Nat : m \in S
  <2> HIDE DEF S
  <2> QED
    BY <1>2, <1>3, InductionOnNat
<1>5. \E f \in [1..Len(lens) -> Nat] : Is(f, Len(lens))
  <2> HIDE DEF Is
  <2>1. Len(lens) \in S
    BY <1>1, <1>4
  <2> QED
    BY <1>1, <2>1
<1> QED
  BY <1>5

\* What Offsets returns: each thing begins where the one before it ends.
LEMMA OffsetsFollow ==
  ASSUME NEW first \in Nat, NEW lens \in Seq(Nat)
  PROVE  /\ Offsets(first, lens) \in [1..Len(lens) -> Nat]
         /\ lens # <<>> => Offsets(first, lens)[1] = first
         /\ \A i \in 1..Len(lens) - 1 :
               Offsets(first, lens)[i + 1] = Offsets(first, lens)[i] + lens[i]
<1> DEFINE n == Len(lens)
           Is(f) == f = [i \in 1..n |-> IF i = 1 THEN first ELSE f[i - 1] + lens[i - 1]]
           o == Offsets(first, lens)
           S == {m \in Nat : m \in 1..n => o[m] \in Nat}
<1>1. n \in Nat /\ (lens # <<>> => n >= 1) /\ \A i \in 1..n : lens[i] \in Nat
  OBVIOUS
<1>2. o = CHOOSE f : Is(f)
  BY DEF Offsets
<1>3. \E f : Is(f)
  <2>1. PICK f \in [1..Len(lens) -> Nat] :
           f = [i \in 1..Len(lens) |-> IF i = 1 THEN first ELSE f[i - 1] + lens[i - 1]]
    BY OffsetsExist, Zenon
  <2>2. Is(f)
    BY <2>1, Zenon
  <2> HIDE DEF Is
  <2> QED
    BY <2>2
<1>4. Is(o)
  <2> HIDE DEF Is, o
  <2> QED
    BY <1>2, <1>3
<1> HIDE DEF o
<1>5. 0 \in S
  OBVIOUS
<1>6. ASSUME NEW m \in Nat, m \in S PROVE m + 1 \in S
  BY <1>1, <1>4, <1>6
<1>7. \A m \in Nat : m \in S
  <2> HIDE DEF S
  <2> QED
    BY <1>5, <1>6, InductionOnNat
<1>8. o \in [1..n -> Nat]
  BY <1>1, <1>4, <1>7
<1>9. lens # <<>> => o[1] = first
  BY <1>1, <1>4
<1>10. ASSUME NEW i \in 1..n - 1 PROVE o[i + 1] = o[i] + lens[i]
  <2>1. i + 1 \in 1..n /\ i + 1 # 1 /\ (i + 1) - 1 = i
    BY <1>1
  <2> QED
    BY <1>4, <2>1
<1> QED
  BY <1>8, <1>9, <1>10 DEF o

\* No two things overlap.
LEMMA OffsetsApart ==
  ASSUME NEW first \in Nat, NEW lens \in Seq(Nat), NEW i \in 1..Len(lens)
  PROVE  \A j \in 1..Len(lens) :
            i < j => Offsets(first, lens)[i] + lens[i] <= Offsets(first, lens)[j]
<1> DEFINE o == Offsets(first, lens)
           S == {m \in Nat : i + 1 + m <= Len(lens) => o[i] + lens[i] <= o[i + 1 + m]}
<1>1. Len(lens) \in Nat /\ \A j \in 1..Len(lens) : lens[j] \in Nat /\ o[j] \in Nat
  <2>1. o \in [1..Len(lens) -> Nat]
    BY OffsetsFollow
  <2> HIDE DEF o
  <2> QED
    BY <2>1
<1>2. \A j \in 1..Len(lens) - 1 : o[j + 1] = o[j] + lens[j]
  BY OffsetsFollow
<1> HIDE DEF o
<1>3. 0 \in S
  BY <1>1, <1>2
<1>4. ASSUME NEW m \in Nat, m \in S PROVE m + 1 \in S
  <2> SUFFICES ASSUME i + 1 + (m + 1) <= Len(lens) PROVE o[i] + lens[i] <= o[i + 1 + (m + 1)]
    OBVIOUS
  <2>1. i + 1 + m \in 1..Len(lens) - 1 /\ i + 1 + (m + 1) = (i + 1 + m) + 1
    BY <1>1
  <2>2. o[i] + lens[i] <= o[i + 1 + m]
    BY <1>1, <1>4, <2>1
  <2>3. o[(i + 1 + m) + 1] = o[i + 1 + m] + lens[i + 1 + m]
    BY <1>2, <2>1
  <2>4. o[i] \in Nat /\ lens[i] \in Nat /\ o[i + 1 + m] \in Nat /\ lens[i + 1 + m] \in Nat
    BY <1>1, <2>1
  <2> QED
    BY <2>1, <2>2, <2>3, <2>4
<1>5. \A m \in Nat : m \in S
  <2> HIDE DEF S
  <2> QED
    BY <1>3, <1>4, InductionOnNat
<1>6. ASSUME NEW j \in 1..Len(lens), i < j PROVE o[i] + lens[i] <= o[j]
  <2> DEFINE m == j - i - 1
  <2>1. m \in Nat /\ i + 1 + m = j /\ j <= Len(lens)
    BY <1>1, <1>6
  <2>2. m \in S
    BY <1>5, <2>1
  <2> HIDE DEF m
  <2> QED
    BY <2>1, <2>2
<1> QED
  BY <1>6 DEF o

----------------------------------------------------------------------------
(* Intervals that follow each other *)

\* Every x from the first to the last of some bounds is between two of them.
LEMMA BetweenBounds ==
  ASSUME NEW n \in Nat, NEW c, \A i \in 1..n + 1 : c[i] \in Int,
         NEW x \in Int, c[1] <= x, x < c[n + 1]
  PROVE  \E j \in 1..n : c[j] <= x /\ x < c[j + 1]
<1> SUFFICES ASSUME \A j \in 1..n : c[j] <= x => c[j + 1] <= x PROVE FALSE
  OBVIOUS
<1> DEFINE S == {m \in Nat : m <= n => c[m + 1] <= x}
<1>1. 0 \in S
  OBVIOUS
<1>2. ASSUME NEW m \in Nat, m \in S PROVE m + 1 \in S
  BY <1>2
<1>3. \A m \in Nat : m \in S
  <2> HIDE DEF S
  <2> QED
    BY <1>1, <1>2, InductionOnNat
<1> QED
  BY <1>3

\* The first of some bounds that do not fall is their least.
LEMMA BoundsRise ==
  ASSUME NEW n \in Nat, NEW c, \A i \in 1..n + 1 : c[i] \in Int,
         \A i \in 1..n : c[i] <= c[i + 1]
  PROVE  \A i \in 1..n + 1 : c[1] <= c[i]
<1> DEFINE S == {m \in Nat : m <= n => c[1] <= c[m + 1]}
<1>1. 0 \in S
  OBVIOUS
<1>2. ASSUME NEW m \in Nat, m \in S PROVE m + 1 \in S
  <2> SUFFICES ASSUME m + 1 <= n PROVE c[1] <= c[(m + 1) + 1]
    OBVIOUS
  <2>1. m + 1 \in 1..n /\ c[m + 1] \in Int /\ c[(m + 1) + 1] \in Int /\ c[1] \in Int
    OBVIOUS
  <2> QED
    BY <1>2, <2>1
<1>3. \A m \in Nat : m \in S
  <2> HIDE DEF S
  <2> QED
    BY <1>1, <1>2, InductionOnNat
<1>4. ASSUME NEW i \in 1..n + 1 PROVE c[1] <= c[i]
  <2>1. i - 1 \in Nat /\ i - 1 <= n /\ (i - 1) + 1 = i
    OBVIOUS
  <2>2. i - 1 \in S
    BY <1>3, <2>1
  <2> QED
    BY <2>1, <2>2
<1> QED
  BY <1>4

\* FlattenSeq joins intervals to one.
LEMMA FlattenIntervals ==
  ASSUME NEW n \in Nat, NEW c, \A i \in 1..n + 1 : c[i] \in Nat,
         \A i \in 1..n : c[i] <= c[i + 1],
         NEW s, s = [i \in 1..n |-> [k \in 1..c[i + 1] - c[i] |-> c[i] + k - 1]]
  PROVE  FlattenSeq(s) = [k \in 1..c[n + 1] - c[1] |-> c[1] + k - 1]
<1> DEFINE Is(f) == f = [i \in 1..n |-> IF i = 1 THEN s[i] ELSE f[i - 1] \o s[i]]
           Joined(i) == [k \in 1..c[i + 1] - c[1] |-> c[1] + k - 1]
           joined == [i \in 1..n |-> Joined(i)]
<1>1. Len(s) = n /\ \A i \in 1..n : s[i] = [k \in 1..c[i + 1] - c[i] |-> c[i] + k - 1]
  OBVIOUS
<1>2. CASE n = 0
  BY <1>1, <1>2 DEF FlattenSeq
<1>3. CASE n # 0
  <2>1. \A i \in 1..n : c[1] <= c[i + 1]
    <3>1. \A i \in 1..n + 1 : c[i] \in Int
      OBVIOUS
    <3>2. \A i \in 1..n + 1 : c[1] <= c[i]
      BY <3>1, BoundsRise
    <3>3. \A i \in 1..n : i + 1 \in 1..n + 1
      OBVIOUS
    <3> QED
      BY <3>2, <3>3
  <2>2. ASSUME NEW i \in 1..n, i # 1 PROVE Joined(i) = Joined(i - 1) \o s[i]
    <3> DEFINE a == c[1]  b == c[i]  d == c[i + 1]
    <3>1. a \in Nat /\ b \in Nat /\ d \in Nat /\ a <= b /\ b <= d
      <4>1. i - 1 \in 1..n /\ (i - 1) + 1 = i /\ 1 \in 1..n + 1 /\ i \in 1..n + 1 /\ i + 1 \in 1..n + 1
        BY <2>2
      <4>2. c[1] <= c[(i - 1) + 1]
        BY <2>1, <4>1
      <4> QED
        BY <4>1, <4>2
    <3>2. Joined(i - 1) = [k \in 1..b - a |-> a + k - 1] /\ s[i] = [k \in 1..d - b |-> b + k - 1]
          /\ Joined(i) = [k \in 1..d - a |-> a + k - 1]
      BY <1>1
    <3> HIDE DEF a, b, d, Joined
    <3>3. [k \in 1..d - a |-> a + k - 1]
             = [k \in 1..b - a |-> a + k - 1] \o [k \in 1..d - b |-> b + k - 1]
      <4>1. /\ [k \in 1..b - a |-> a + k - 1] \in Seq(Nat) /\ Len([k \in 1..b - a |-> a + k - 1]) = b - a
            /\ [k \in 1..d - b |-> b + k - 1] \in Seq(Nat) /\ Len([k \in 1..d - b |-> b + k - 1]) = d - b
        BY <3>1
      <4> QED
        BY <3>1, <4>1
    <3> QED
      BY <3>2, <3>3
  <2>3. Is(joined)
    <3>1. Joined(1) = s[1]
      BY <1>1, <1>3
    <3>2. ASSUME NEW i \in 1..n PROVE joined[i] = IF i = 1 THEN s[i] ELSE joined[i - 1] \o s[i]
      <4>1. i # 1 => i - 1 \in 1..n
        OBVIOUS
      <4> HIDE DEF Joined
      <4> QED
        BY <2>2, <3>1, <4>1
    <3> HIDE DEF Joined
    <3> QED
      BY <3>2
  <2> DEFINE flatten == CHOOSE f : Is(f)
  <2>4. FlattenSeq(s) = flatten[n]
    BY <1>1, <1>3 DEF FlattenSeq
  <2>5. Is(flatten)
    <3> HIDE DEF Is, joined
    <3> QED
      BY <2>3
  <2> HIDE DEF flatten
  <2> DEFINE Same == {m \in Nat : m \in 1..n => flatten[m] = joined[m]}
  <2>6. 0 \in Same
    OBVIOUS
  <2>7. ASSUME NEW m \in Nat, m \in Same PROVE m + 1 \in Same
    <3> SUFFICES ASSUME m + 1 \in 1..n PROVE flatten[m + 1] = joined[m + 1]
      OBVIOUS
    <3>1. /\ flatten[m + 1] = IF m = 0 THEN s[m + 1] ELSE flatten[m] \o s[m + 1]
          /\ joined[m + 1] = IF m = 0 THEN s[m + 1] ELSE joined[m] \o s[m + 1]
          /\ m # 0 => m \in 1..n
      <4>1. (m + 1 = 1 <=> m = 0) /\ (m + 1) - 1 = m
        OBVIOUS
      <4>2. flatten[m + 1] = IF m + 1 = 1 THEN s[m + 1] ELSE flatten[(m + 1) - 1] \o s[m + 1]
        BY <2>5
      <4> HIDE DEF joined
      <4>3. joined[m + 1] = IF m + 1 = 1 THEN s[m + 1] ELSE joined[(m + 1) - 1] \o s[m + 1]
        BY <2>3
      <4> QED
        BY <4>1, <4>2, <4>3
    <3> HIDE DEF joined
    <3> QED
      BY <2>7, <3>1
  <2>8. \A m \in Nat : m \in Same
    <3> HIDE DEF Same
    <3> QED
      BY <2>6, <2>7, InductionOnNat
  <2>9. flatten[n] = joined[n] /\ joined[n] = Joined(n)
    BY <1>3, <2>8
  <2> QED
    BY <2>4, <2>9
<1> QED
  BY <1>2, <1>3
=============================================================================
