------------------------------- MODULE Lemmas -------------------------------
(***************************************************************************)
(* Laws of the data the models are built from, for data of any size:       *)
(* functions defined by recursion, sums, rows picked from a list and lists *)
(* of a set.  The library's theorems about induction take the statement as *)
(* an operator, which no backend can instantiate; here a statement is the  *)
(* set of the numbers it holds for, and induction is that a set of numbers *)
(* that is not empty has a least one.                                      *)
(***************************************************************************)
EXTENDS Lists, Integers, Sequences, FiniteSets, Functions, SequencesExt, TLAPS,
        FiniteSetTheorems, SequenceTheorems, WellFoundedInduction

-----------------------------------------------------------------------------
LEMMA LeastNumber ==
  ASSUME NEW T \in SUBSET Nat, T # {}
  PROVE  \E n \in T : \A m \in T : n <= m
<1>1. \E n \in T : \A m \in T : ~(<<m, n>> \in OpToRel(<, Nat))
  BY NatLessThanWellFounded, WFMin
<1>2. \E n \in T : \A m \in T : ~(m < n)
  BY <1>1 DEF OpToRel
<1> QED
  BY <1>2

LEMMA Induction ==
  ASSUME NEW T, 0 \in T, \A n \in Nat : n \in T => n + 1 \in T
  PROVE  Nat \subseteq T
<1> SUFFICES ASSUME Nat \ T # {} PROVE FALSE
  OBVIOUS
<1>1. PICK n \in Nat \ T : \A m \in Nat \ T : n <= m
  BY LeastNumber
<1>2. n - 1 \in Nat /\ n - 1 \in T
  BY <1>1
<1> QED
  BY <1>1, <1>2

-----------------------------------------------------------------------------
(***************************************************************************)
(* A function on 0 .. N that is given by its first value and by steps.     *)
(***************************************************************************)
Goes(f, N, v0, step) == f = [n \in 0 .. N |-> IF n = 0 THEN v0 ELSE step[n][f[n - 1]]]

LEMMA StepsExist ==
  ASSUME NEW V, NEW v0 \in V, NEW N \in Nat, NEW step \in [1 .. N -> [V -> V]]
  PROVE  \E f \in [0 .. N -> V] : Goes(f, N, v0, step)
<1> DEFINE Upto(n, f) == f = [i \in 0 .. n |-> IF i = 0 THEN v0 ELSE step[i][f[i - 1]]]
           T == {n \in Nat : n <= N => \E f \in [0 .. n -> V] : Upto(n, f)}
<1>1. 0 \in T
  <2>1. [i \in 0 .. 0 |-> v0] \in [0 .. 0 -> V] /\ Upto(0, [i \in 0 .. 0 |-> v0])
    OBVIOUS
  <2> QED
    BY <2>1
<1>2. ASSUME NEW n \in Nat, n \in T PROVE n + 1 \in T
  <2> SUFFICES ASSUME n + 1 <= N PROVE \E f \in [0 .. n + 1 -> V] : Upto(n + 1, f)
    OBVIOUS
  <2>1. PICK f \in [0 .. n -> V] : Upto(n, f)
    BY <1>2
  <2>2. step[n + 1] \in [V -> V] /\ f[n] \in V
    OBVIOUS
  <2> DEFINE g == [i \in 0 .. n + 1 |-> IF i = n + 1 THEN step[n + 1][f[n]] ELSE f[i]]
  <2>3. g \in [0 .. n + 1 -> V]
    BY <2>2
  <2>4. ASSUME NEW i \in 0 .. n + 1
        PROVE  g[i] = IF i = 0 THEN v0 ELSE step[i][g[i - 1]]
    <3>1. CASE i = n + 1
      BY <3>1
    <3>2. CASE i # n + 1
      <4>1. i \in 0 .. n /\ g[i] = f[i] /\ (i # 0 => g[i - 1] = f[i - 1])
        BY <3>2
      <4> QED
        BY <4>1, <2>1
    <3> QED
      BY <3>1, <3>2
  <2>5. Upto(n + 1, g)
    BY <2>4
  <2> QED
    BY <2>3, <2>5
<1> HIDE DEF T
<1>3. Nat \subseteq T
  BY <1>1, <1>2, Induction
<1> QED
  BY <1>3 DEF T, Goes

-----------------------------------------------------------------------------
(***************************************************************************)
(* What is left of a list.                                                 *)
(***************************************************************************)
Picks(t, s, S, n) ==
  \E at \in [1 .. Len(t) -> 1 .. n] :
    /\ \A i, j \in 1 .. Len(t) : i < j => at[i] < at[j]
    /\ \A i \in 1 .. Len(t) : t[i] = s[at[i]] /\ s[at[i]] \in S
    /\ \A k \in 1 .. n : s[k] \in S => \E i \in 1 .. Len(t) : at[i] = k

LEMMA PicksMore ==
  ASSUME NEW E, NEW s \in Seq(E), NEW S, NEW n \in 1 .. Len(s),
         NEW t \in Seq(E), Picks(t, s, S, n - 1)
  PROVE  LET u == IF s[n] \in S THEN Append(t, s[n]) ELSE t
         IN  u \in Seq(E) /\ Picks(u, s, S, n)
<1>1. PICK at \in [1 .. Len(t) -> 1 .. n - 1] :
        /\ \A i, j \in 1 .. Len(t) : i < j => at[i] < at[j]
        /\ \A i \in 1 .. Len(t) : t[i] = s[at[i]] /\ s[at[i]] \in S
        /\ \A k \in 1 .. n - 1 : s[k] \in S => \E i \in 1 .. Len(t) : at[i] = k
  BY DEF Picks
<1>2. Len(t) \in Nat /\ s[n] \in E
  OBVIOUS
<1>3. CASE s[n] \notin S
  <2>1. at \in [1 .. Len(t) -> 1 .. n]
    BY <1>1
  <2>2. \A k \in 1 .. n : s[k] \in S => \E i \in 1 .. Len(t) : at[i] = k
    BY <1>1, <1>3
  <2>3. Picks(t, s, S, n)
    BY <1>1, <2>1, <2>2 DEF Picks
  <2> QED
    BY <1>3, <2>3
<1>4. CASE s[n] \in S
  <2> DEFINE u == Append(t, s[n])
             l == Len(t)
             more == [i \in 1 .. l + 1 |-> IF i = l + 1 THEN n ELSE at[i]]
  <2>1. u \in Seq(E) /\ Len(u) = l + 1 /\ u[l + 1] = s[n] /\ \A i \in 1 .. l : u[i] = t[i]
    BY <1>2, AppendProperties
  <2>2. more \in [1 .. l + 1 -> 1 .. n]
    BY <1>1, <1>2
  <2>3. ASSUME NEW i \in 1 .. l + 1, NEW j \in 1 .. l + 1, i < j PROVE more[i] < more[j]
    <3>1. i \in 1 .. l /\ more[i] = at[i] /\ at[i] \in 1 .. n - 1
      BY <1>2, <2>3
    <3>2. CASE j = l + 1
      BY <1>2, <3>1, <3>2
    <3>3. CASE j # l + 1
      <4>1. j \in 1 .. l /\ more[j] = at[j]
        BY <1>2, <3>3
      <4> QED
        BY <1>1, <2>3, <3>1, <4>1
    <3> QED
      BY <3>2, <3>3
  <2>4. \A i \in 1 .. l + 1 : u[i] = s[more[i]] /\ s[more[i]] \in S
    <3> HIDE DEF u
    <3> QED
      BY <1>1, <1>2, <1>4, <2>1
  <2>5. ASSUME NEW k \in 1 .. n, s[k] \in S PROVE \E i \in 1 .. l + 1 : more[i] = k
    <3>1. CASE k = n
      BY <1>2, <3>1
    <3>2. CASE k # n
      <4>1. n \in Nat /\ k \in 1 .. n - 1 /\ s[k] \in S
        BY <2>5, <3>2
      <4>2. PICK i \in 1 .. Len(t) : at[i] = k
        BY <1>1, <4>1
      <4> QED
        BY <1>2, <4>2
    <3> QED
      BY <3>1, <3>2
  <2> HIDE DEF u, more
  <2>6. Picks(u, s, S, n)
    <3> DEFINE D == 1 .. l + 1
    <3>1. D = 1 .. Len(u)
      BY <2>1
    <3>2. /\ more \in [D -> 1 .. n]
          /\ \A i, j \in D : i < j => more[i] < more[j]
          /\ \A i \in D : u[i] = s[more[i]] /\ s[more[i]] \in S
          /\ \A k \in 1 .. n : s[k] \in S => \E i \in D : more[i] = k
      BY <2>2, <2>3, <2>4, <2>5
    <3> HIDE DEF l, D
    <3> QED
      BY <3>1, <3>2 DEF Picks
  <2> QED
    BY <1>4, <2>1, <2>6 DEF u
<1> QED
  BY <1>3, <1>4

\* Every element that is in S stays, nothing else does, and the order is kept.
LEMMA StayingPicks ==
  ASSUME NEW E, NEW s \in Seq(E), NEW S
  PROVE  Staying(s, S) \in Seq(E) /\ Picks(Staying(s, S), s, S, Len(s))
<1> DEFINE N == Len(s)
           step == [n \in 1 .. N |-> [t \in Seq(E) |-> IF s[n] \in S THEN Append(t, s[n]) ELSE t]]
           Is(f) == f = [n \in 0 .. N |->
                           IF n = 0 THEN <<>>
                           ELSE IF s[n] \in S THEN Append(f[n - 1], s[n]) ELSE f[n - 1]]
           kept == CHOOSE f : Is(f)
<1>1. N \in Nat /\ <<>> \in Seq(E)
  OBVIOUS
<1>2. step \in [1 .. N -> [Seq(E) -> Seq(E)]]
  OBVIOUS
<1>3. PICK f \in [0 .. N -> Seq(E)] :
        f = [n \in 0 .. N |-> IF n = 0 THEN <<>> ELSE step[n][f[n - 1]]]
  <2> DEFINE V == Seq(E)
             v0 == <<>>
  <2>1. N \in Nat /\ v0 \in V /\ step \in [1 .. N -> [V -> V]]
    BY <1>1, <1>2
  <2> HIDE DEF step, N, V, v0
  <2>2. \E f \in [0 .. N -> V] : Goes(f, N, v0, step)
    BY <2>1, StepsExist
  <2> QED
    BY <2>2 DEF V, v0, Goes
<1>4. Is(f)
  <2> SUFFICES ASSUME NEW n \in 0 .. N, n # 0
               PROVE  step[n][f[n - 1]] = IF s[n] \in S THEN Append(f[n - 1], s[n]) ELSE f[n - 1]
    BY <1>3
  <2>1. n \in 1 .. N /\ f[n - 1] \in Seq(E)
    BY <1>1
  <2> QED
    BY <2>1
<1>5. Is(kept)
  BY <1>4
<1>6. Staying(s, S) = kept[N]
  BY DEF Staying
<1> DEFINE T == {n \in Nat : n <= N => kept[n] \in Seq(E) /\ Picks(kept[n], s, S, n)}
<1> HIDE DEF kept, step
<1>7. 0 \in T
  <2>1. kept[0] = <<>>
    BY <1>1, <1>5
  <2>2. Picks(<<>>, s, S, 0)
    <3>1. <<>> \in [1 .. Len(<<>>) -> 1 .. 0]
      OBVIOUS
    <3> QED
      BY <3>1 DEF Picks
  <2> QED
    BY <1>1, <2>1, <2>2
<1>8. ASSUME NEW n \in Nat, n \in T PROVE n + 1 \in T
  <2> SUFFICES ASSUME n + 1 <= N
               PROVE  kept[n + 1] \in Seq(E) /\ Picks(kept[n + 1], s, S, n + 1)
    OBVIOUS
  <2>1. kept[n + 1] = IF s[n + 1] \in S THEN Append(kept[n], s[n + 1]) ELSE kept[n]
    <3>1. n + 1 \in 0 .. N /\ n + 1 # 0 /\ (n + 1) - 1 = n
      BY <1>1
    <3> HIDE DEF N
    <3> QED
      BY <1>5, <3>1
  <2>2. kept[n] \in Seq(E) /\ Picks(kept[n], s, S, n + 1 - 1) /\ n + 1 \in 1 .. Len(s)
    BY <1>1, <1>8
  <2> DEFINE u == IF s[n + 1] \in S THEN Append(kept[n], s[n + 1]) ELSE kept[n]
  <2>3. u \in Seq(E) /\ Picks(u, s, S, n + 1)
    BY <2>2, PicksMore
  <2> QED
    BY <2>1, <2>3
<1> HIDE DEF T
<1>9. Nat \subseteq T
  BY <1>7, <1>8, Induction
<1> QED
  BY <1>1, <1>6, <1>9 DEF T

\* In the words of sets: also an element that occurs once still does.
LEMMA StayingIs ==
  ASSUME NEW E, NEW s \in Seq(E), NEW S
  PROVE  /\ Staying(s, S) \in Seq(E)
         /\ Range(Staying(s, S)) = Range(s) \cap S
         /\ IsInjective(s) => IsInjective(Staying(s, S))
<1> DEFINE t == Staying(s, S)
<1>1. t \in Seq(E) /\ Picks(t, s, S, Len(s))
  BY StayingPicks
<1> HIDE DEF t
<1>2. DOMAIN t = 1 .. Len(t) /\ DOMAIN s = 1 .. Len(s) /\ Len(s) \in Nat /\ Len(t) \in Nat
  BY <1>1
<1>3. PICK at \in [1 .. Len(t) -> 1 .. Len(s)] :
        /\ \A i, j \in 1 .. Len(t) : i < j => at[i] < at[j]
        /\ \A i \in 1 .. Len(t) : t[i] = s[at[i]] /\ s[at[i]] \in S
        /\ \A k \in 1 .. Len(s) : s[k] \in S => \E i \in 1 .. Len(t) : at[i] = k
  BY <1>1 DEF Picks
<1>4. Range(t) = Range(s) \cap S
  <2>1. ASSUME NEW x \in Range(t) PROVE x \in Range(s) \cap S
    BY <1>2, <1>3, <2>1 DEF Range
  <2>2. ASSUME NEW x \in Range(s) \cap S PROVE x \in Range(t)
    <3>1. PICK k \in 1 .. Len(s) : x = s[k]
      BY <1>2 DEF Range
    <3>2. PICK i \in 1 .. Len(t) : at[i] = k
      BY <1>3, <3>1
    <3> QED
      BY <1>2, <1>3, <3>1, <3>2 DEF Range
  <2> QED
    BY <2>1, <2>2
<1>5. ASSUME IsInjective(s), NEW i \in 1 .. Len(t), NEW j \in 1 .. Len(t), t[i] = t[j]
      PROVE  i = j
  <2>1. at[i] = at[j]
    BY <1>2, <1>3, <1>5 DEF IsInjective
  <2> QED
    BY <1>2, <1>3, <2>1
<1> QED
  BY <1>1, <1>2, <1>4, <1>5 DEF t, IsInjective

-----------------------------------------------------------------------------
(***************************************************************************)
(* The list of a finite set.                                               *)
(***************************************************************************)
\* An injection of 1 .. n into a set of n elements leaves none out.
LEMMA ListsAll ==
  ASSUME NEW S, IsFiniteSet(S), NEW s \in [1 .. Cardinality(S) -> S], IsInjective(s)
  PROVE  s \in Seq(S) /\ Range(s) = S
<1>1. Cardinality(S) \in Nat
  BY FS_CardinalityType
<1>2. Cardinality(1 .. Cardinality(S)) = Cardinality(S)
  BY <1>1, FS_Interval
<1>3. s \in Injection(1 .. Cardinality(S), S)
  BY DEF Injection
<1>4. s \in Surjection(1 .. Cardinality(S), S)
  BY <1>2, <1>3, FS_Injection
<1>5. Range(s) = S
  BY <1>4 DEF Surjection, Range
<1> QED
  BY <1>1, <1>5

LEMMA SetToSeqIs ==
  ASSUME NEW S, IsFiniteSet(S)
  PROVE  SetToSeq(S) \in Seq(S) /\ Range(SetToSeq(S)) = S /\ IsInjective(SetToSeq(S))
<1>1. ExistsBijection(1 .. Cardinality(S), S)
  BY FS_CardinalityType
<1>2. \E s \in [1 .. Cardinality(S) -> S] : IsInjective(s)
  BY <1>1 DEF ExistsBijection, Bijection, Injection
<1>3. SetToSeq(S) \in [1 .. Cardinality(S) -> S] /\ IsInjective(SetToSeq(S))
  BY <1>2 DEF SetToSeq
<1> QED
  BY <1>3, ListsAll

\* Two lists that share nothing.
LEMMA ConcatInjective ==
  ASSUME NEW E, NEW s \in Seq(E), NEW t \in Seq(E), IsInjective(s), IsInjective(t),
         Range(s) \cap Range(t) = {}
  PROVE  IsInjective(s \o t)
<1> DEFINE u == s \o t
<1>1. /\ DOMAIN u = 1 .. Len(s) + Len(t) /\ Len(s) \in Nat /\ Len(t) \in Nat
      /\ DOMAIN s = 1 .. Len(s) /\ DOMAIN t = 1 .. Len(t)
      /\ \A i \in 1 .. Len(s) + Len(t) : u[i] = IF i <= Len(s) THEN s[i] ELSE t[i - Len(s)]
  BY ConcatProperties
<1> HIDE DEF u
<1>2. ASSUME NEW i \in DOMAIN s, NEW j \in DOMAIN t PROVE s[i] # t[j]
  BY DEF Range
<1>3. ASSUME NEW i \in DOMAIN u, NEW j \in DOMAIN u, u[i] = u[j] PROVE i = j
  <2>1. CASE i <= Len(s) /\ j <= Len(s)
    <3>1. i \in DOMAIN s /\ j \in DOMAIN s /\ s[i] = s[j]
      BY <1>1, <1>3, <2>1
    <3> QED
      BY <3>1 DEF IsInjective
  <2>2. CASE ~(i <= Len(s)) /\ ~(j <= Len(s))
    <3> DEFINE a == i - Len(s)
               b == j - Len(s)
    <3>1. a \in DOMAIN t /\ b \in DOMAIN t /\ t[a] = t[b]
      BY <1>1, <1>3, <2>2
    <3>2. a = b
      BY <3>1 DEF IsInjective
    <3> QED
      BY <1>1, <3>2
  <2>3. CASE i <= Len(s) /\ ~(j <= Len(s))
    <3> DEFINE b == j - Len(s)
    <3>1. i \in DOMAIN s /\ b \in DOMAIN t /\ s[i] = t[b]
      BY <1>1, <1>3, <2>3
    <3> QED
      BY <1>2, <3>1
  <2>4. CASE ~(i <= Len(s)) /\ j <= Len(s)
    <3> DEFINE a == i - Len(s)
    <3>1. a \in DOMAIN t /\ j \in DOMAIN s /\ s[j] = t[a]
      BY <1>1, <1>3, <2>4
    <3> QED
      BY <1>2, <3>1
  <2> QED
    BY <2>1, <2>2, <2>3, <2>4
<1> QED
  BY <1>3 DEF u, IsInjective

Rising(s, S, n) == s \in [1 .. n -> S] /\ \A i, j \in 1 .. n : i < j => s[i] < s[j]

LEMMA RisingMore ==
  ASSUME NEW S \in SUBSET Nat, NEW m \in S, \A k \in S : m <= k,
         NEW n \in Nat, NEW s, Rising(s, S \ {m}, n)
  PROVE  \E t : Rising(t, S, n + 1)
<1> DEFINE t == [i \in 1 .. n + 1 |-> IF i = 1 THEN m ELSE s[i - 1]]
<1>1. s \in [1 .. n -> S \ {m}] /\ \A i, j \in 1 .. n : i < j => s[i] < s[j]
  BY DEF Rising
<1>2. ASSUME NEW i \in 1 .. n + 1, i # 1
      PROVE  i - 1 \in 1 .. n /\ t[i] = s[i - 1] /\ s[i - 1] \in S \ {m}
  BY <1>1, <1>2
<1>3. t[1] = m
  OBVIOUS
<1>4. t \in [1 .. n + 1 -> S]
  BY <1>2
<1>5. ASSUME NEW i \in 1 .. n + 1, NEW j \in 1 .. n + 1, i < j PROVE t[i] < t[j]
  <2>1. j - 1 \in 1 .. n /\ t[j] = s[j - 1] /\ s[j - 1] \in S \ {m}
    BY <1>2, <1>5
  <2>2. CASE i = 1
    <3>1. t[i] = m /\ m <= t[j] /\ m # t[j] /\ m \in Nat /\ t[j] \in Nat
      BY <2>1, <2>2, <1>3
    <3> QED
      BY <3>1
  <2>3. CASE i # 1
    <3>1. i - 1 \in 1 .. n /\ t[i] = s[i - 1]
      BY <1>2, <2>3
    <3>2. i - 1 < j - 1
      BY <1>5
    <3> HIDE DEF t
    <3> QED
      BY <1>1, <2>1, <3>1, <3>2
  <2> QED
    BY <2>2, <2>3
<1> HIDE DEF t
<1> QED
  BY <1>4, <1>5 DEF Rising

LEMMA RisingExists ==
  ASSUME NEW S \in SUBSET Nat, IsFiniteSet(S)
  PROVE  \E s : Rising(s, S, Cardinality(S))
<1> DEFINE T == {n \in Nat : \A R \in SUBSET Nat :
                   IsFiniteSet(R) /\ Cardinality(R) = n => \E s : Rising(s, R, n)}
<1>1. 0 \in T
  <2> SUFFICES ASSUME NEW R \in SUBSET Nat, IsFiniteSet(R), Cardinality(R) = 0
               PROVE  \E s : Rising(s, R, 0)
    OBVIOUS
  <2>1. Rising([i \in 1 .. 0 |-> 0], R, 0)
    BY DEF Rising
  <2> QED
    BY <2>1
<1>2. ASSUME NEW n \in Nat, n \in T PROVE n + 1 \in T
  <2> SUFFICES ASSUME NEW R \in SUBSET Nat, IsFiniteSet(R), Cardinality(R) = n + 1
               PROVE  \E s : Rising(s, R, n + 1)
    OBVIOUS
  <2>1. R # {}
    BY FS_EmptySet
  <2>2. PICK m \in R : \A k \in R : m <= k
    BY <2>1, LeastNumber
  <2>3. IsFiniteSet(R \ {m}) /\ Cardinality(R \ {m}) = n
    <3>1. IsFiniteSet(R \ {m}) /\ Cardinality(R \ {m}) = Cardinality(R) - 1
      BY FS_RemoveElement
    <3> QED
      BY <3>1
  <2>4. PICK s : Rising(s, R \ {m}, n)
    BY <1>2, <2>3
  <2> QED
    BY <2>2, <2>4, RisingMore
<1> HIDE DEF T
<1>3. Cardinality(S) \in T
  BY <1>1, <1>2, Induction, FS_CardinalityType
<1> QED
  BY <1>3 DEF T

LEMMA AscendingIs ==
  ASSUME NEW S \in SUBSET Nat, IsFiniteSet(S)
  PROVE  /\ Ascending(S) \in Seq(S) /\ Range(Ascending(S)) = S /\ IsInjective(Ascending(S))
         /\ \A i, j \in DOMAIN Ascending(S) : i < j => Ascending(S)[i] < Ascending(S)[j]
<1> DEFINE n == Cardinality(S)
           a == Ascending(S)
<1>1. n \in Nat
  BY FS_CardinalityType
<1>2. \E s \in [1 .. n -> S] : \A i, j \in DOMAIN s : i < j => s[i] < s[j]
  BY RisingExists DEF Rising
<1>3. a \in [1 .. n -> S] /\ \A i, j \in DOMAIN a : i < j => a[i] < a[j]
  BY <1>2 DEF Ascending
<1> HIDE DEF a
<1>4. ASSUME NEW i \in DOMAIN a, NEW j \in DOMAIN a, a[i] = a[j] PROVE i = j
  <2>1. i \in 1 .. n /\ j \in 1 .. n /\ a[i] \in S
    BY <1>3
  <2>2. a[i] \in Nat
    BY <2>1
  <2>3. ~(a[i] < a[j]) /\ ~(a[j] < a[i])
    BY <1>4, <2>2
  <2>4. ~(i < j) /\ ~(j < i)
    BY <1>3, <2>3
  <2> QED
    BY <1>1, <2>1, <2>4
<1>5. IsInjective(a)
  BY <1>4 DEF IsInjective
<1> QED
  BY <1>3, <1>5, ListsAll DEF a

-----------------------------------------------------------------------------
(***************************************************************************)
(* The sum of a function over a finite set.  SumFunctionOnSet takes the    *)
(* elements in the order in which CHOOSE yields them; the sum does not     *)
(* depend on it.                                                           *)
(***************************************************************************)
Taken(S) == CHOOSE x \in S : TRUE
Sums(f, w, S) ==
  f = [s \in SUBSET S |-> IF s = {} THEN 0 ELSE w[Taken(s)] + f[s \ {Taken(s)}]]

LEMMA FirstIn == ASSUME NEW S, S # {} PROVE Taken(S) \in S
BY DEF Taken

LEMMA SumIsChosen ==
  ASSUME NEW w, NEW S
  PROVE  SumFunctionOnSet(w, S) = (CHOOSE f : Sums(f, w, S))[S]
BY DEF SumFunctionOnSet, FoldFunctionOnSet, MapThenFoldSet, Sums, Taken

\* A proper part of s is what s without its first element is.
LEMMA FirstOut ==
  ASSUME NEW S, IsFiniteSet(S), NEW s \in SUBSET S, s # {}, NEW x \in s
  PROVE  /\ IsFiniteSet(s) /\ Cardinality(s) \in Nat
         /\ s \ {x} \in SUBSET S /\ IsFiniteSet(s \ {x})
         /\ Cardinality(s \ {x}) = Cardinality(s) - 1 /\ Cardinality(s) # 0
<1>1. IsFiniteSet(s)
  BY FS_Subset
<1>2. Cardinality(s) \in Nat
  BY <1>1, FS_CardinalityType
<1>3. IsFiniteSet(s \ {x}) /\ Cardinality(s \ {x}) = Cardinality(s) - 1
  BY <1>1, FS_RemoveElement
<1>4. Cardinality(s) # 0
  BY <1>1, FS_EmptySet
<1> QED
  BY <1>1, <1>2, <1>3, <1>4

LEMMA SumsExist ==
  ASSUME NEW S, IsFiniteSet(S), NEW w, \A x \in S : w[x] \in Int
  PROVE  \E f \in [SUBSET S -> Int] : Sums(f, w, S)
<1> DEFINE Step(f, s) == IF s = {} THEN 0 ELSE w[Taken(s)] + f[s \ {Taken(s)}]
           Upto(f, n) == \A s \in SUBSET S : Cardinality(s) <= n => f[s] = Step(f, s)
           T == {n \in Nat : \E f \in [SUBSET S -> Int] : Upto(f, n)}
<1>1. ASSUME NEW s \in SUBSET S, s # {}
      PROVE  /\ Taken(s) \in s /\ w[Taken(s)] \in Int
             /\ s \ {Taken(s)} \in SUBSET S
             /\ Cardinality(s) \in Nat /\ Cardinality(s) # 0
             /\ Cardinality(s \ {Taken(s)}) = Cardinality(s) - 1
  <2>1. Taken(s) \in s
    BY <1>1, FirstIn
  <2> QED
    BY <1>1, <2>1, FirstOut
<1>2. 0 \in T
  <2> DEFINE f == [s \in SUBSET S |-> 0]
  <2>1. f \in [SUBSET S -> Int]
    OBVIOUS
  <2>2. ASSUME NEW s \in SUBSET S, Cardinality(s) <= 0 PROVE f[s] = Step(f, s)
    <3>1. ASSUME s # {} PROVE FALSE
      <4>1. Cardinality(s) \in Nat /\ Cardinality(s) # 0
        BY <1>1, <3>1
      <4> QED
        BY <2>2, <4>1
    <3> QED
      BY <3>1
  <2> QED
    BY <2>1, <2>2
<1>3. ASSUME NEW n \in Nat, n \in T PROVE n + 1 \in T
  <2>1. PICK f \in [SUBSET S -> Int] : Upto(f, n)
    BY <1>3
  <2> DEFINE g == [s \in SUBSET S |-> IF Cardinality(s) <= n THEN f[s] ELSE Step(f, s)]
  <2>2. g \in [SUBSET S -> Int]
    <3> SUFFICES ASSUME NEW s \in SUBSET S, s # {} PROVE Step(f, s) \in Int
      BY <2>1
    <3>1. w[Taken(s)] \in Int /\ s \ {Taken(s)} \in SUBSET S
      BY <1>1
    <3>2. f[s \ {Taken(s)}] \in Int
      BY <3>1
    <3> QED
      BY <3>1, <3>2
  <2>3. ASSUME NEW s \in SUBSET S, Cardinality(s) <= n + 1 PROVE g[s] = Step(g, s)
    <3>1. CASE s = {}
      <4>1. Step(f, s) = 0 /\ Step(g, s) = 0
        BY <3>1
      <4>2. g[s] = Step(f, s)
        BY <2>1
      <4> QED
        BY <4>1, <4>2
    <3>2. CASE s # {}
      <4> DEFINE r == s \ {Taken(s)}
      <4>1. r \in SUBSET S /\ Cardinality(r) <= n
        BY <1>1, <2>3, <3>2
      <4>2. g[r] = f[r]
        BY <4>1
      <4>3. g[s] = Step(f, s)
        BY <2>1
      <4> QED
        BY <3>2, <4>2, <4>3
    <3> QED
      BY <3>1, <3>2
  <2>4. Upto(g, n + 1)
    BY <2>3
  <2> HIDE DEF g, Upto
  <2> QED
    BY <2>2, <2>4
<1> HIDE DEF T
<1>4. Cardinality(S) \in T /\ Cardinality(S) \in Nat
  BY <1>2, <1>3, Induction, FS_CardinalityType
<1>5. PICK f \in [SUBSET S -> Int] : Upto(f, Cardinality(S))
  BY <1>4 DEF T
<1>6. ASSUME NEW s \in SUBSET S PROVE f[s] = Step(f, s)
  <2>1. Cardinality(s) <= Cardinality(S)
    BY FS_Subset
  <2> QED
    BY <1>5, <2>1
<1>7. Sums(f, w, S)
  BY <1>6 DEF Sums
<1> QED
  BY <1>7

\* What is taken first makes no difference.
Additive(f, w, S) == \A R \in SUBSET S : \A y \in R : f[R] = w[y] + f[R \ {y}]

LEMMA SumsRemove ==
  ASSUME NEW S, IsFiniteSet(S), NEW w, \A x \in S : w[x] \in Int,
         NEW f \in [SUBSET S -> Int], Sums(f, w, S)
  PROVE  Additive(f, w, S)
<1> DEFINE T == {n \in Nat : \A s \in SUBSET S :
                   Cardinality(s) = n => \A x \in s : f[s] = w[x] + f[s \ {x}]}
<1>1. ASSUME NEW s \in SUBSET S, NEW x \in s
      PROVE  /\ s \ {x} \in SUBSET S /\ Cardinality(s) \in Nat /\ Cardinality(s) # 0
             /\ Cardinality(s \ {x}) = Cardinality(s) - 1
             /\ w[x] \in Int /\ f[s] \in Int /\ f[s \ {x}] \in Int
  BY FirstOut
<1>2. ASSUME NEW s \in SUBSET S, s # {}
      PROVE  Taken(s) \in s /\ f[s] = w[Taken(s)] + f[s \ {Taken(s)}]
  BY <1>2, FirstIn DEF Sums
<1>3. 0 \in T
  BY <1>1
<1>4. ASSUME NEW n \in Nat, n \in T PROVE n + 1 \in T
  <2> SUFFICES ASSUME NEW s \in SUBSET S, Cardinality(s) = n + 1, NEW x \in s
               PROVE  f[s] = w[x] + f[s \ {x}]
    OBVIOUS
  <2> DEFINE c == Taken(s)
  <2>1. c \in s /\ f[s] = w[c] + f[s \ {c}]
    BY <1>2
  <2> HIDE DEF c
  <2>2. CASE x # c
    <3>1. s \ {c} \in SUBSET S /\ Cardinality(s \ {c}) = n /\ x \in s \ {c}
      BY <1>1, <2>1, <2>2
    <3>2. s \ {x} \in SUBSET S /\ Cardinality(s \ {x}) = n /\ c \in s \ {x}
      BY <1>1, <2>1, <2>2
    <3> DEFINE r == (s \ {x}) \ {c}
    <3>3. r = (s \ {c}) \ {x}
      OBVIOUS
    <3>4. f[s \ {c}] = w[x] + f[r]
      <4>1. f[s \ {c}] = w[x] + f[(s \ {c}) \ {x}]
        BY <1>4, <3>1
      <4> QED
        BY <3>3, <4>1
    <3>5. f[s \ {x}] = w[c] + f[r]
      BY <1>4, <3>2
    <3>6. w[x] \in Int /\ w[c] \in Int /\ f[r] \in Int
      BY <1>1, <2>1, <3>2
    <3> DEFINE wx == w[x]
               wc == w[c]
               fr == f[r]
    <3>7. f[s] = wc + (wx + fr) /\ f[s \ {x}] = wc + fr
      BY <2>1, <3>4, <3>5
    <3>8. wx \in Int /\ wc \in Int /\ fr \in Int
      BY <3>6
    <3>9. f[s] = wx + f[s \ {x}]
      <4> HIDE DEF wx, wc, fr
      <4> QED
        BY <3>7, <3>8
    <3> QED
      BY <3>9
  <2> QED
    BY <2>1, <2>2
<1> HIDE DEF T
<1>5. Nat \subseteq T
  BY <1>3, <1>4, Induction
<1> QED
  BY <1>1, <1>5 DEF T, Additive

\* Nor does what else there is to sum, nor what else w is defined for.
LEMMA SumsSame ==
  ASSUME NEW S, IsFiniteSet(S), NEW R, IsFiniteSet(R), NEW w, NEW v, NEW f, Sums(f, w, S),
         NEW g, Sums(g, v, R), NEW Q \in SUBSET (S \cap R), \A x \in Q : w[x] = v[x]
  PROVE  f[Q] = g[Q]
<1> DEFINE T == {n \in Nat : \A s \in SUBSET Q : Cardinality(s) = n => f[s] = g[s]}
<1>1. IsFiniteSet(Q) /\ Q \in SUBSET S /\ Q \in SUBSET R
  BY FS_Subset
<1>2. ASSUME NEW s \in SUBSET Q, s # {}
      PROVE  /\ Taken(s) \in s /\ s \ {Taken(s)} \in SUBSET Q
             /\ Cardinality(s) \in Nat /\ Cardinality(s) # 0
             /\ Cardinality(s \ {Taken(s)}) = Cardinality(s) - 1
             /\ f[s] = w[Taken(s)] + f[s \ {Taken(s)}]
             /\ g[s] = v[Taken(s)] + g[s \ {Taken(s)}]
  <2>1. Taken(s) \in s
    BY <1>2, FirstIn
  <2>2. s \in SUBSET S /\ s \in SUBSET R
    BY <1>1
  <2>3. f[s] = w[Taken(s)] + f[s \ {Taken(s)}]
    BY <1>2, <2>2 DEF Sums
  <2>4. g[s] = v[Taken(s)] + g[s \ {Taken(s)}]
    BY <1>2, <2>2 DEF Sums
  <2>5. /\ s \ {Taken(s)} \in SUBSET Q /\ Cardinality(s) \in Nat /\ Cardinality(s) # 0
        /\ Cardinality(s \ {Taken(s)}) = Cardinality(s) - 1
    BY <1>1, <1>2, <2>1, FirstOut
  <2> QED
    BY <2>1, <2>3, <2>4, <2>5
<1>3. f[{}] = 0 /\ g[{}] = 0
  BY DEF Sums
<1>4. 0 \in T
  BY <1>2, <1>3
<1>5. ASSUME NEW n \in Nat, n \in T PROVE n + 1 \in T
  <2> SUFFICES ASSUME NEW s \in SUBSET Q, Cardinality(s) = n + 1 PROVE f[s] = g[s]
    OBVIOUS
  <2>1. s # {}
    BY FS_EmptySet
  <2>2. f[s \ {Taken(s)}] = g[s \ {Taken(s)}] /\ w[Taken(s)] = v[Taken(s)]
    BY <1>2, <1>5, <2>1
  <2> QED
    BY <1>2, <2>1, <2>2
<1> HIDE DEF T
<1>6. Cardinality(Q) \in T
  BY <1>1, <1>4, <1>5, Induction, FS_CardinalityType
<1> QED
  BY <1>6 DEF T

LEMMA SumEmpty ==
  ASSUME NEW w PROVE SumFunctionOnSet(w, {}) = 0
<1>1. \E f : Sums(f, w, {})
  BY SumsExist, FS_EmptySet
<1>2. Sums(CHOOSE f : Sums(f, w, {}), w, {})
  BY <1>1
<1> QED
  BY <1>2, SumIsChosen DEF Sums

\* One element is one summand.
LEMMA SumRemove ==
  ASSUME NEW S, IsFiniteSet(S), NEW w, \A x \in S : w[x] \in Int, NEW y \in S
  PROVE  /\ SumFunctionOnSet(w, S) \in Int /\ SumFunctionOnSet(w, S \ {y}) \in Int
         /\ SumFunctionOnSet(w, S) = w[y] + SumFunctionOnSet(w, S \ {y})
<1> DEFINE R == S \ {y}
           f == CHOOSE h : Sums(h, w, S)
           g == CHOOSE h : Sums(h, w, R)
<1>1. IsFiniteSet(R) /\ R \in SUBSET S /\ R \in SUBSET (S \cap R)
  BY FS_RemoveElement
<1>2. PICK a \in [SUBSET S -> Int] : Sums(a, w, S)
  BY SumsExist
<1>3. PICK b \in [SUBSET R -> Int] : Sums(b, w, R)
  BY <1>1, SumsExist
<1>4. Sums(f, w, S) /\ Sums(g, w, R)
  BY <1>2, <1>3
<1>5. SumFunctionOnSet(w, S) = f[S] /\ SumFunctionOnSet(w, R) = g[R]
  BY SumIsChosen
<1> HIDE DEF f, g, R
<1>6. f[S] = a[S]
  BY <1>2, <1>4, SumsSame
<1>7. g[R] = a[R]
  BY <1>1, <1>2, <1>4, SumsSame
<1>8. a[S] = w[y] + a[R]
  <2>1. Additive(a, w, S)
    BY <1>2, SumsRemove
  <2> QED
    BY <2>1 DEF R, Additive
<1>9. a[S] \in Int /\ a[R] \in Int
  BY <1>1
<1> QED
  BY <1>5, <1>6, <1>7, <1>8, <1>9 DEF R

\* The sum depends on the summands only.
LEMMA SumSame ==
  ASSUME NEW S, IsFiniteSet(S), NEW w, NEW v,
         \A x \in S : w[x] \in Int /\ v[x] = w[x]
  PROVE  SumFunctionOnSet(w, S) = SumFunctionOnSet(v, S) /\ SumFunctionOnSet(w, S) \in Int
<1> DEFINE f == CHOOSE h : Sums(h, w, S)
           g == CHOOSE h : Sums(h, v, S)
<1>1. PICK a \in [SUBSET S -> Int] : Sums(a, w, S)
  BY SumsExist
<1>2. PICK b \in [SUBSET S -> Int] : Sums(b, v, S)
  <2>1. \A x \in S : v[x] \in Int
    OBVIOUS
  <2> QED
    BY <2>1, SumsExist
<1>3. Sums(f, w, S) /\ Sums(g, v, S)
  BY <1>1, <1>2
<1>4. SumFunctionOnSet(w, S) = f[S] /\ SumFunctionOnSet(v, S) = g[S]
  BY SumIsChosen
<1> HIDE DEF f, g
<1>5. f[S] = g[S] /\ f[S] = a[S]
  BY <1>1, <1>3, SumsSame
<1> QED
  BY <1>4, <1>5

\* One summand that changes.
LEMMA SumAtOne ==
  ASSUME NEW S, IsFiniteSet(S), NEW y \in S, NEW w, NEW v,
         \A x \in S : w[x] \in Int /\ v[x] \in Int /\ (x # y => v[x] = w[x])
  PROVE  /\ SumFunctionOnSet(w, S) \in Int /\ SumFunctionOnSet(v, S) \in Int
         /\ SumFunctionOnSet(v, S) = SumFunctionOnSet(w, S) - w[y] + v[y]
<1>1. IsFiniteSet(S \ {y}) /\ \A x \in S \ {y} : w[x] \in Int /\ v[x] = w[x]
  BY FS_RemoveElement
<1>2. SumFunctionOnSet(w, S \ {y}) = SumFunctionOnSet(v, S \ {y})
  BY <1>1, SumSame
<1>3. /\ SumFunctionOnSet(w, S) \in Int /\ SumFunctionOnSet(w, S \ {y}) \in Int
      /\ SumFunctionOnSet(w, S) = w[y] + SumFunctionOnSet(w, S \ {y})
  BY SumRemove
<1>4. /\ SumFunctionOnSet(v, S) \in Int
      /\ SumFunctionOnSet(v, S) = v[y] + SumFunctionOnSet(v, S \ {y})
  BY SumRemove
<1> QED
  BY <1>2, <1>3, <1>4

-----------------------------------------------------------------------------
(***************************************************************************)
(* Induction over the parts of a finite set, and what it says of sums.     *)
(***************************************************************************)
LEMMA SetInduction ==
  ASSUME NEW S, IsFiniteSet(S), NEW T, {} \in T,
         \A Q \in SUBSET S : \A y \in S \ Q : Q \in T => Q \cup {y} \in T
  PROVE  S \in T
<1> DEFINE N == {n \in Nat : \A Q \in SUBSET S : Cardinality(Q) = n => Q \in T}
<1>1. 0 \in N
  <2> SUFFICES ASSUME NEW Q \in SUBSET S, Cardinality(Q) = 0 PROVE Q \in T
    OBVIOUS
  <2>1. Q = {}
    BY FS_Subset, FS_EmptySet
  <2> QED
    BY <2>1
<1>2. ASSUME NEW n \in Nat, n \in N PROVE n + 1 \in N
  <2> SUFFICES ASSUME NEW Q \in SUBSET S, Cardinality(Q) = n + 1 PROVE Q \in T
    OBVIOUS
  <2>1. IsFiniteSet(Q) /\ Q # {}
    BY FS_Subset, FS_EmptySet
  <2>2. PICK y \in Q : TRUE
    BY <2>1
  <2>3. Cardinality(Q \ {y}) = Cardinality(Q) - 1
    BY <2>1, FS_RemoveElement
  <2>4. Q \ {y} \in T
    <3>1. Cardinality(Q \ {y}) = n
      BY <2>3
    <3> QED
      BY <1>2, <3>1
  <2>5. (Q \ {y}) \cup {y} = Q
    OBVIOUS
  <2> QED
    BY <2>2, <2>4, <2>5
<1> HIDE DEF N
<1>3. Cardinality(S) \in N
  BY <1>1, <1>2, FS_CardinalityType, Induction
<1> QED
  BY <1>3 DEF N

\* A sum of numbers that are not negative grows with the set.
LEMMA SumMonotone ==
  ASSUME NEW S, IsFiniteSet(S), NEW w, \A x \in S : w[x] \in Nat, NEW R \in SUBSET S
  PROVE  /\ SumFunctionOnSet(w, R) \in Nat /\ SumFunctionOnSet(w, S) \in Nat
         /\ SumFunctionOnSet(w, R) <= SumFunctionOnSet(w, S)
<1> DEFINE Sum(Q) == SumFunctionOnSet(w, Q)
           T == {Q \in SUBSET S : Sum(Q) \in Nat /\ \A P \in SUBSET Q : Sum(P) \in Nat /\ Sum(P) <= Sum(Q)}
<1>1. {} \in T
  BY SumEmpty
<1>2. ASSUME NEW Q \in SUBSET S, NEW y \in S \ Q, Q \in T PROVE Q \cup {y} \in T
  <2> DEFINE more == Q \cup {y}
  <2>1. IsFiniteSet(more) /\ y \in more /\ more \ {y} = Q /\ \A x \in more : w[x] \in Int
    BY FS_Subset
  <2>2. Sum(more) = w[y] + Sum(Q)
    BY <2>1, SumRemove
  <2>3. w[y] \in Nat /\ Sum(Q) \in Nat
    BY <1>2
  <2>4. Sum(more) \in Nat /\ Sum(Q) <= Sum(more)
    BY <2>2, <2>3
  <2>5. ASSUME NEW P \in SUBSET more PROVE Sum(P) \in Nat /\ Sum(P) <= Sum(more)
    <3>1. CASE y \notin P
      <4>1. P \in SUBSET Q
        BY <3>1
      <4>2. Sum(P) \in Nat /\ Sum(P) <= Sum(Q)
        BY <1>2, <4>1
      <4> QED
        BY <2>3, <2>4, <4>2
    <3>2. CASE y \in P
      <4>1. P \ {y} \in SUBSET Q /\ IsFiniteSet(P) /\ \A x \in P : w[x] \in Int
        BY <2>1, FS_Subset
      <4>2. Sum(P) = w[y] + Sum(P \ {y})
        BY <3>2, <4>1, SumRemove
      <4>3. Sum(P \ {y}) \in Nat /\ Sum(P \ {y}) <= Sum(Q)
        BY <1>2, <4>1
      <4> QED
        BY <2>2, <2>3, <4>2, <4>3
    <3> QED
      BY <3>1, <3>2
  <2> QED
    BY <2>4, <2>5
<1> HIDE DEF T
<1>3. S \in T
  BY <1>1, <1>2, SetInduction
<1> QED
  BY <1>3 DEF T

\* A sum of equal numbers.
LEMMA SumConstant ==
  ASSUME NEW S, IsFiniteSet(S), NEW k \in Int, NEW w, \A x \in S : w[x] = k
  PROVE  SumFunctionOnSet(w, S) = Cardinality(S) * k
<1> DEFINE T == {Q \in SUBSET S : SumFunctionOnSet(w, Q) = Cardinality(Q) * k}
<1>1. {} \in T
  BY SumEmpty, FS_EmptySet
<1>2. ASSUME NEW Q \in SUBSET S, NEW y \in S \ Q, Q \in T PROVE Q \cup {y} \in T
  <2> DEFINE more == Q \cup {y}
  <2>1. /\ IsFiniteSet(Q) /\ IsFiniteSet(more) /\ y \in more /\ more \ {y} = Q
        /\ \A x \in more : w[x] \in Int
    BY FS_Subset
  <2>2. SumFunctionOnSet(w, more) = k + SumFunctionOnSet(w, Q)
    BY <2>1, SumRemove
  <2>3. Cardinality(Q) \in Nat /\ Cardinality(more) = Cardinality(Q) + 1
    BY <2>1, FS_CardinalityType, FS_AddElement
  <2>4. SumFunctionOnSet(w, Q) = Cardinality(Q) * k
    BY <1>2
  <2>5. \A n \in Nat : k + n * k = (n + 1) * k
    OBVIOUS
  <2>6. SumFunctionOnSet(w, more) = (Cardinality(Q) + 1) * k
    BY <2>2, <2>3, <2>4, <2>5
  <2> QED
    BY <2>3, <2>6
<1> HIDE DEF T
<1>3. S \in T
  BY <1>1, <1>2, SetInduction
<1> QED
  BY <1>3 DEF T

\* Zeros do not count.
LEMMA SumZeros ==
  ASSUME NEW S, IsFiniteSet(S), NEW w, \A x \in S : w[x] \in Int, NEW R \in SUBSET S,
         \A x \in S \ R : w[x] = 0
  PROVE  SumFunctionOnSet(w, S) = SumFunctionOnSet(w, R)
<1> DEFINE To(Q) == SumFunctionOnSet(w, Q)
           T == {Q \in SUBSET S : To(Q) = To(Q \cap R)}
<1>1. {} \in T
  OBVIOUS
<1>2. ASSUME NEW Q \in SUBSET S, NEW y \in S \ Q, Q \in T PROVE Q \cup {y} \in T
  <2> DEFINE more == Q \cup {y}
  <2>1. IsFiniteSet(more) /\ IsFiniteSet(more \cap R) /\ more \in SUBSET S /\ more \ {y} = Q
    BY FS_Subset
  <2>2. To(more) \in Int /\ To(Q) \in Int /\ To(more) = w[y] + To(Q)
    <3>1. \A x \in more : w[x] \in Int
      OBVIOUS
    <3>2. y \in more
      OBVIOUS
    <3> HIDE DEF more
    <3> QED
      BY <2>1, <3>1, <3>2, SumRemove
  <2>3. CASE y \in R
    <3> DEFINE part == more \cap R
    <3>1. y \in part /\ part \ {y} = Q \cap R /\ \A x \in part : w[x] \in Int
      BY <2>3
    <3>2. To(part) = w[y] + To(Q \cap R)
      <4> HIDE DEF more
      <4>1. IsFiniteSet(part)
        BY <2>1
      <4> HIDE DEF part
      <4> QED
        BY <3>1, <4>1, SumRemove
    <3> QED
      BY <1>2, <2>1, <2>2, <3>2
  <2>4. CASE y \notin R
    <3>1. more \cap R = Q \cap R /\ w[y] = 0
      BY <2>4
    <3>2. To(more) = To(Q) /\ To(Q) = To(Q \cap R)
      <4> HIDE DEF more
      <4> QED
        BY <1>2, <2>2, <3>1
    <3> QED
      BY <2>1, <3>1, <3>2
  <2> QED
    BY <2>3, <2>4
<1>3. S \in T
  <2> HIDE DEF T
  <2> QED
    BY <1>1, <1>2, SetInduction
<1>4. S \cap R = R
  OBVIOUS
<1> QED
  BY <1>3, <1>4

\* The sum of sums.
LEMMA SumAdd ==
  ASSUME NEW S, IsFiniteSet(S), NEW w, NEW v, NEW u,
         \A x \in S : w[x] \in Int /\ v[x] \in Int /\ u[x] = w[x] + v[x]
  PROVE  SumFunctionOnSet(u, S) = SumFunctionOnSet(w, S) + SumFunctionOnSet(v, S)
<1> DEFINE T == {Q \in SUBSET S : SumFunctionOnSet(u, Q) = SumFunctionOnSet(w, Q) + SumFunctionOnSet(v, Q)}
<1>1. {} \in T
  BY SumEmpty
<1>2. ASSUME NEW Q \in SUBSET S, NEW y \in S \ Q, Q \in T PROVE Q \cup {y} \in T
  <2> DEFINE more == Q \cup {y}
  <2>1. IsFiniteSet(more) /\ more \in SUBSET S /\ more \ {y} = Q /\ y \in more
    BY FS_Subset
  <2>2. \A x \in more : w[x] \in Int /\ v[x] \in Int /\ u[x] \in Int
    OBVIOUS
  <2>3. u[y] = w[y] + v[y] /\ w[y] \in Int /\ v[y] \in Int
    OBVIOUS
  <2> HIDE DEF more
  <2>4. SumFunctionOnSet(u, Q) \in Int /\ SumFunctionOnSet(u, more) = u[y] + SumFunctionOnSet(u, Q)
    BY <2>1, <2>2, SumRemove
  <2>5. SumFunctionOnSet(w, Q) \in Int /\ SumFunctionOnSet(w, more) = w[y] + SumFunctionOnSet(w, Q)
    BY <2>1, <2>2, SumRemove
  <2>6. SumFunctionOnSet(v, Q) \in Int /\ SumFunctionOnSet(v, more) = v[y] + SumFunctionOnSet(v, Q)
    BY <2>1, <2>2, SumRemove
  <2>7. SumFunctionOnSet(u, Q) = SumFunctionOnSet(w, Q) + SumFunctionOnSet(v, Q)
    BY <1>2
  <2>8. SumFunctionOnSet(u, more) = SumFunctionOnSet(w, more) + SumFunctionOnSet(v, more)
    BY <2>3, <2>4, <2>5, <2>6, <2>7
  <2> QED
    BY <2>1, <2>8 DEF more
<1>3. S \in T
  <2> HIDE DEF T
  <2> QED
    BY <1>1, <1>2, SetInduction
<1> QED
  BY <1>3

\* Summands under other names have the same sum.
Renamed(name, S, w, Z, v) ==
  /\ \A x \in S : name[x] \in Z /\ v[name[x]] = w[x] /\ w[x] \in Int
  /\ \A x, y \in S : name[x] = name[y] => x = y
  /\ \A z \in Z : \E x \in S : z = name[x]

LEMMA SumRenamed ==
  ASSUME NEW S, IsFiniteSet(S), NEW w, NEW name, NEW Z, NEW v, Renamed(name, S, w, Z, v)
  PROVE  SumFunctionOnSet(v, Z) = SumFunctionOnSet(w, S)
<1> USE DEF Renamed
<1> DEFINE Im(Q) == {name[x] : x \in Q}
           T == {Q \in SUBSET S : IsFiniteSet(Im(Q)) /\ SumFunctionOnSet(v, Im(Q)) = SumFunctionOnSet(w, Q)}
<1>1. {} \in T
  <2>1. Im({}) = {} /\ IsFiniteSet({})
    BY FS_EmptySet
  <2> QED
    BY <2>1, SumEmpty
<1>2. ASSUME NEW Q \in SUBSET S, NEW y \in S \ Q, Q \in T PROVE Q \cup {y} \in T
  <2> DEFINE more == Q \cup {y}  old == Im(Q)  new == Im(more)  z == name[y]
  <2>1. IsFiniteSet(more) /\ more \in SUBSET S /\ more \ {y} = Q /\ y \in more
    BY FS_Subset
  <2>2. /\ IsFiniteSet(old) /\ SumFunctionOnSet(v, old) = SumFunctionOnSet(w, Q)
        /\ new = old \cup {z} /\ z \notin old /\ v[z] = w[y]
        /\ \A x \in new : v[x] \in Int
        /\ \A x \in more : w[x] \in Int
    BY <1>2
  <2> HIDE DEF more, old, new, z
  <2>3. IsFiniteSet(new) /\ new \ {z} = old /\ z \in new
    BY <2>2, FS_AddElement
  <2>4. SumFunctionOnSet(v, new) = v[z] + SumFunctionOnSet(v, old)
    BY <2>2, <2>3, SumRemove
  <2>5. SumFunctionOnSet(w, more) = w[y] + SumFunctionOnSet(w, Q)
    BY <2>1, <2>2, SumRemove
  <2>6. IsFiniteSet(new) /\ SumFunctionOnSet(v, new) = SumFunctionOnSet(w, more)
    BY <2>2, <2>3, <2>4, <2>5
  <2> QED
    BY <2>1, <2>6 DEF more, new
<1>3. S \in T
  <2> HIDE DEF T
  <2> QED
    BY <1>1, <1>2, SetInduction
<1>4. Im(S) = Z
  OBVIOUS
<1> QED
  BY <1>3, <1>4

\* A sum may be taken group by group.
LEMMA SumGrouped ==
  ASSUME NEW S, IsFiniteSet(S), NEW w, \A x \in S : w[x] \in Int, NEW P, IsFiniteSet(P),
         NEW group, \A x \in S : group[x] \in P
  PROVE  SumFunctionOnSet([p \in P |-> SumFunctionOnSet(w, {x \in S : group[x] = p})], P) =
         SumFunctionOnSet(w, S)
<1> DEFINE In(Q, p) == {x \in Q : group[x] = p}
           Part(Q) == [p \in P |-> SumFunctionOnSet(w, In(Q, p))]
           T == {Q \in SUBSET S : /\ \A p \in P : Part(Q)[p] \in Int
                                  /\ SumFunctionOnSet(Part(Q), P) = SumFunctionOnSet(w, Q)}
<1>1. {} \in T
  <2> DEFINE u == Part({})
  <2>1. \A p \in P : u[p] = 0
    BY SumEmpty
  <2>2. SumFunctionOnSet(u, P) = Cardinality(P) * 0 /\ Cardinality(P) \in Nat
    <3> HIDE DEF u
    <3> QED
      BY <2>1, SumConstant, FS_CardinalityType
  <2>3. SumFunctionOnSet(u, P) = 0
    <3> HIDE DEF u
    <3> QED
      BY <2>2
  <2> QED
    BY <2>1, <2>3, SumEmpty
<1>2. ASSUME NEW Q \in SUBSET S, NEW y \in S \ Q, Q \in T PROVE Q \cup {y} \in T
  <2> DEFINE more == Q \cup {y}  q == group[y]  u == Part(Q)  v == Part(more)
             a == In(Q, q)  b == In(more, q)
  <2>1. IsFiniteSet(more) /\ more \in SUBSET S /\ more \ {y} = Q /\ y \in more /\ q \in P
    BY FS_Subset
  <2>2. \A p \in P : u[p] \in Int /\ (p # q => v[p] = u[p])
    <3>1. \A p \in P : p # q => In(more, p) = In(Q, p)
      OBVIOUS
    <3> QED
      BY <1>2, <3>1
  <2>3. v[q] = w[y] + u[q]
    <3>1. IsFiniteSet(b) /\ b \ {y} = a /\ y \in b /\ \A x \in b : w[x] \in Int
      BY <2>1, FS_Subset
    <3>2. SumFunctionOnSet(w, b) = w[y] + SumFunctionOnSet(w, a)
      <4> HIDE DEF a, b
      <4> QED
        BY <3>1, SumRemove
    <3> QED
      BY <2>1, <3>2
  <2>4. w[y] \in Int /\ u[q] \in Int
    BY <2>1, <2>2
  <2>5. SumFunctionOnSet(u, P) = SumFunctionOnSet(w, Q)
    BY <1>2
  <2>6. \A x \in more : w[x] \in Int
    OBVIOUS
  <2> HIDE DEF more, q, u, v
  <2>7. \A p \in P : v[p] \in Int
    BY <2>2, <2>3, <2>4
  <2>8. /\ SumFunctionOnSet(u, P) \in Int
        /\ SumFunctionOnSet(v, P) = SumFunctionOnSet(u, P) - u[q] + v[q]
    BY <2>1, <2>2, <2>7, SumAtOne
  <2>9. SumFunctionOnSet(w, more) = w[y] + SumFunctionOnSet(w, Q)
    BY <2>1, <2>6, SumRemove
  <2>10. SumFunctionOnSet(v, P) = SumFunctionOnSet(w, more)
    BY <2>3, <2>4, <2>5, <2>8, <2>9
  <2> QED
    BY <2>1, <2>7, <2>10 DEF more, v
<1>3. S \in T
  <2> HIDE DEF T
  <2> QED
    BY <1>1, <1>2, SetInduction
<1> QED
  <2>1. SumFunctionOnSet(Part(S), P) = SumFunctionOnSet(w, S)
    BY <1>3
  <2> QED
    BY <2>1

\* A set of numbers up to N has a greatest one.
LEMMA GreatestNumber ==
  ASSUME NEW N \in Nat, NEW T \in SUBSET (0 .. N), T # {}
  PROVE  \E n \in T : \A m \in T : m <= n
<1> DEFINE R == {k \in Nat : \E n \in T : k = N - n}
<1>1. R # {} /\ R \in SUBSET Nat
  <2>1. PICK n \in T : TRUE
    OBVIOUS
  <2>2. N - n \in R
    OBVIOUS
  <2> QED
    BY <2>2
<1> HIDE DEF R
<1>2. PICK k \in R : \A m \in R : k <= m
  BY <1>1, LeastNumber
<1>3. PICK n \in T : k = N - n
  BY <1>2 DEF R
<1>4. ASSUME NEW m \in T PROVE m <= n
  <2>1. N - m \in R
    BY DEF R
  <2>2. k <= N - m
    BY <1>2, <2>1
  <2> QED
    BY <1>3, <2>2
<1> QED
  BY <1>4

-----------------------------------------------------------------------------
(***************************************************************************)
(* Quotients and remainders.                                               *)
(***************************************************************************)
LEMMA DivMod ==
  ASSUME NEW a \in Nat, NEW b \in Nat \ {0}
  PROVE  /\ a \div b \in Nat /\ a % b \in Nat /\ a % b < b
         /\ a = b * (a \div b) + (a % b)
OBVIOUS

LEMMA DivRises ==
  ASSUME NEW a \in Nat, NEW c \in Nat, a <= c, NEW b \in Nat \ {0}
  PROVE  /\ a \div b <= c \div b
         /\ a \div b = c \div b => a % b <= c % b
<1> DEFINE q == a \div b  r == a % b  p == c \div b  s == c % b
<1>1. q \in Nat /\ r \in Nat /\ r < b /\ a = b * q + r
  BY DivMod
<1>2. p \in Nat /\ s \in Nat /\ s < b /\ c = b * p + s
  BY DivMod
<1> HIDE DEF q, r, p, s
<1>3. ASSUME p < q PROVE FALSE
  <2>1. b * (p + 1) <= b * q
    BY <1>1, <1>2, <1>3
  <2>2. b * (p + 1) = b * p + b
    BY <1>1, <1>2
  <2> QED
    BY <1>1, <1>2, <2>1, <2>2
<1>4. q = p => r <= s
  BY <1>1, <1>2
<1>5. q <= p
  BY <1>1, <1>2, <1>3
<1> QED
  BY <1>4, <1>5 DEF q, r, p, s
=============================================================================
