----------------------------- MODULE FoldLemmas -----------------------------
(***************************************************************************)
(* What FlattenSeq and FoldLeft of the community modules return, for every *)
(* sequence and every operation, and that a function can be defined by     *)
(* what it is of smaller arguments.                                        *)
(*                                                                         *)
(* All of them are recursive functions, so each of these is an induction,  *)
(* on the length, on the places folded so far or on a measure; it is over  *)
(* a set of numbers (SetInduction), which the provers can instantiate, and *)
(* not over a predicate.                                                   *)
(***************************************************************************)
EXTENDS Integers, Sequences, SequencesExt, NaturalsInduction,
        WellFoundedInduction, SequenceTheorems, TLAPS

\* A set with 0 that has the successor of each of its members below n has 0..n.
LEMMA SetInduction ==
  ASSUME NEW n \in Nat, NEW P, 0 \in P, \A k \in 0..(n - 1) : k \in P => k + 1 \in P
  PROVE  \A k \in 0..n : k \in P
<1> DEFINE T == {k \in 0..n : k \notin P}
           Below == {p \in Nat \X Nat : p[1] < p[2]}
<1> SUFFICES ASSUME T # {} PROVE FALSE
  OBVIOUS
<1>1. IsWellFoundedOn(Below, Nat)
  BY NatLessThanWellFounded, Zenon DEF OpToRel
<1>2. PICK k \in T : \A j \in T : <<j, k>> \notin Below
  <2>1. T \subseteq Nat
    OBVIOUS
  <2> HIDE DEF T, Below
  <2> QED BY <1>1, <2>1, WFMin
<1>3. \A j \in T : ~ j < k
  <2>1. \A j, i \in Nat : j < i => <<j, i>> \in Below
    OBVIOUS
  <2>2. \A j \in T : j \in Nat
    OBVIOUS
  <2> HIDE DEF Below, T
  <2> QED BY <1>2, <2>1, <2>2
<1>4. k # 0 /\ k - 1 \in 0..(n - 1)
  OBVIOUS
<1>5. k - 1 \in P
  BY <1>3, <1>4
<1> QED BY <1>4, <1>5

\* What accumulates sequences of S is a sequence of S.
LEMMA AccumulatedType ==
  ASSUME NEW S, NEW n \in Nat, NEW x, NEW f, f[0] = << >>,
         \A k \in 1..n : x[k] \in Seq(S) /\ f[k] = f[k - 1] \o x[k]
  PROVE  \A k \in 0..n : f[k] \in Seq(S)
<1> DEFINE P == {k \in Nat : f[k] \in Seq(S)}
<1>1. 0 \in P
  <2>1. f[0] \in Seq(S)
    <3>1. << >> \in Seq(S)
      BY EmptySeq
    <3> QED BY <3>1
  <2> QED BY <2>1
<1>2. ASSUME NEW k \in 0..(n - 1), k \in P PROVE k + 1 \in P
  <2> DEFINE j == k + 1
  <2>1. j \in 1..n /\ j \in Nat /\ j - 1 = k
    OBVIOUS
  <2>2. f[k] \in Seq(S)
    BY <1>2
  <2> HIDE DEF j, P
  <2>3. f[j] = f[k] \o x[j] /\ x[j] \in Seq(S)
    BY <2>1
  <2>4. f[j] \in Seq(S)
    <3> DEFINE b == f[k]
               c == x[j]
    <3>1. b \in Seq(S) /\ c \in Seq(S) /\ f[j] = b \o c
      BY <2>2, <2>3
    <3> HIDE DEF b, c
    <3>2. b \o c \in Seq(S)
      BY <3>1, ConcatProperties
    <3> QED BY <3>1, <3>2
  <2> USE DEF P
  <2>5. j \in P
    BY <2>1, <2>4
  <2> QED BY <2>5 DEF j
<1> HIDE DEF P
<1>3. \A k \in 0..n : k \in P
  BY <1>1, <1>2, SetInduction
<1> QED BY <1>3 DEF P

\* Three sequences in a row, whichever two are joined first.
LEMMA Regroup ==
  ASSUME NEW S, NEW a \in Seq(S), NEW b \in Seq(S), NEW c \in Seq(S)
  PROVE  (a \o b) \o c = a \o (b \o c)
BY ConcatAssociative

\* What is flattened up to each place: the first sequence, and then one more each.
IsFlattened(f, s) ==
  f = [i \in 1..Len(s) |-> IF i = 1 THEN s[i] ELSE f[i - 1] \o s[i]]

\* Such a function exists, and FlattenSeq is its last value.
LEMMA FlattenExists ==
  ASSUME NEW S, NEW s \in Seq(S), Len(s) # 0
  PROVE  \E f : IsFlattened(f, s) /\ FlattenSeq(s) = f[Len(s)]
<1> DEFINE n == Len(s)
           Up(f, m) == f = [i \in 1..m |-> IF i = 1 THEN s[i] ELSE f[i - 1] \o s[i]]
           P == {m \in Nat : \E f : Up(f, m)}
<1>1. n \in Nat /\ n # 0
  OBVIOUS
<1> HIDE DEF n
<1>2. 0 \in P
  <2>1. Up([i \in 1..0 |-> 0], 0)
    OBVIOUS
  <2> QED BY <2>1
<1>3. ASSUME NEW m \in 0..(n - 1), m \in P PROVE m + 1 \in P
  <2>1. PICK f : Up(f, m)
    BY <1>3
  <2> DEFINE g == [i \in 1..(m + 1) |->
                     IF i = m + 1 THEN (IF i = 1 THEN s[i] ELSE f[m] \o s[i]) ELSE f[i]]
  <2>2. \A i \in 1..m : f[i] = IF i = 1 THEN s[i] ELSE f[i - 1] \o s[i]
    BY <2>1
  <2>3. \A i \in 1..m : g[i] = f[i]
    BY <1>1
  <2>4. g[m + 1] = IF m + 1 = 1 THEN s[m + 1] ELSE g[m] \o s[m + 1]
    BY <1>1, <2>3
  <2>5. \A i \in 1..(m + 1) : g[i] = IF i = 1 THEN s[i] ELSE g[i - 1] \o s[i]
    <3> SUFFICES ASSUME NEW i \in 1..(m + 1)
                 PROVE  g[i] = IF i = 1 THEN s[i] ELSE g[i - 1] \o s[i]
      OBVIOUS
    <3>1. CASE i = m + 1
      BY <1>1, <2>4, <3>1
    <3>2. CASE i # m + 1
      <4>1. i \in 1..m /\ (i # 1 => i - 1 \in 1..m)
        BY <1>1, <3>2
      <4> HIDE DEF g
      <4> QED BY <2>2, <2>3, <4>1
    <3> QED BY <3>1, <3>2
  <2>6. g = [i \in 1..(m + 1) |-> g[i]]
    OBVIOUS
  <2> HIDE DEF g
  <2>7. Up(g, m + 1)
    BY <2>5, <2>6
  <2>8. m + 1 \in Nat
    BY <1>1
  <2> HIDE DEF Up
  <2>9. \E h : Up(h, m + 1)
    BY <2>7
  <2> QED BY <2>8, <2>9
<1>4. n \in P
  <2> HIDE DEF P
  <2>1. \A k \in 0..n : k \in P
    BY <1>1, <1>2, <1>3, SetInduction
  <2> QED BY <1>1, <2>1
<1>5. \E f : IsFlattened(f, s)
  BY <1>4 DEF IsFlattened, n
<1> DEFINE c == CHOOSE f : f = [i \in 1..Len(s) |-> IF i = 1 THEN s[i] ELSE f[i - 1] \o s[i]]
<1>6. IsFlattened(c, s)
  BY <1>5 DEF IsFlattened
<1>7. FlattenSeq(s) = c[Len(s)]
  BY DEF FlattenSeq
<1> HIDE DEF c
<1> QED BY <1>6, <1>7

\* The flattening of the first k sequences is the function at k.
LEMMA FlattenPrefix ==
  ASSUME NEW S, NEW s \in Seq(S), NEW f, IsFlattened(f, s), NEW k \in 1..Len(s)
  PROVE  FlattenSeq(SubSeq(s, 1, k)) = f[k]
<1> DEFINE p == SubSeq(s, 1, k)
<1>1. /\ p \in Seq(S) /\ Len(p) = k /\ k \in Nat /\ k # 0 /\ Len(s) \in Nat
      /\ \A i \in 1..k : p[i] = s[i] /\ i \in 1..Len(s)
  OBVIOUS
<1> HIDE DEF p
<1>2. PICK g : IsFlattened(g, p) /\ FlattenSeq(p) = g[k]
  BY <1>1, FlattenExists
<1>3. /\ \A i \in 1..k : g[i] = IF i = 1 THEN s[i] ELSE g[i - 1] \o s[i]
      /\ \A i \in 1..k : f[i] = IF i = 1 THEN s[i] ELSE f[i - 1] \o s[i]
  <2>1. \A i \in 1..k : g[i] = IF i = 1 THEN p[i] ELSE g[i - 1] \o p[i]
    BY <1>1, <1>2 DEF IsFlattened
  <2>2. \A i \in 1..Len(s) : f[i] = IF i = 1 THEN s[i] ELSE f[i - 1] \o s[i]
    BY DEF IsFlattened
  <2> QED BY <1>1, <2>1, <2>2
<1> DEFINE P == {m \in Nat : m \in 1..k => g[m] = f[m]}
<1>4. 0 \in P
  OBVIOUS
<1>5. ASSUME NEW m \in 0..(k - 1), m \in P PROVE m + 1 \in P
  <2>1. m + 1 \in 1..k /\ m + 1 \in Nat /\ (m + 1 # 1 => m \in 1..k /\ m + 1 - 1 = m)
    BY <1>1
  <2>2. g[m + 1] = f[m + 1]
    <3>1. CASE m + 1 = 1
      BY <1>3, <2>1, <3>1
    <3>2. CASE m + 1 # 1
      <4>1. g[m] = f[m]
        BY <1>5, <2>1, <3>2
      <4> DEFINE j == m + 1
      <4>2. j \in 1..k /\ j # 1 /\ j - 1 = m
        BY <1>1, <2>1, <3>2
      <4> HIDE DEF j
      <4>3. g[j] = g[m] \o s[j] /\ f[j] = f[m] \o s[j]
        BY <1>3, <4>2
      <4> QED BY <4>1, <4>3 DEF j
    <3> QED BY <3>1, <3>2
  <2> QED BY <2>1, <2>2
<1>6. k \in P
  <2> HIDE DEF P
  <2>1. \A i \in 0..k : i \in P
    BY <1>1, <1>4, <1>5, SetInduction
  <2> QED BY <1>1, <2>1
<1>7. g[k] = f[k]
  BY <1>1, <1>6
<1> QED BY <1>2, <1>7 DEF p

\* Nothing is flattened to nothing.
LEMMA FlattenEmpty == FlattenSeq(<< >>) = << >>
BY DEF FlattenSeq

\* The first k sequences flattened are the first k - 1 flattened, and the k-th.
LEMMA FlattenNext ==
  ASSUME NEW S, NEW s \in Seq(Seq(S)), NEW k \in 1..Len(s)
  PROVE  FlattenSeq(SubSeq(s, 1, k)) = FlattenSeq(SubSeq(s, 1, k - 1)) \o s[k]
<1>1. Len(s) \in Nat /\ Len(s) # 0 /\ k \in Nat /\ s[k] \in Seq(S)
  OBVIOUS
<1>2. PICK f : IsFlattened(f, s)
  BY <1>1, FlattenExists
<1>3. f[k] = IF k = 1 THEN s[k] ELSE f[k - 1] \o s[k]
  BY <1>2 DEF IsFlattened
<1>4. FlattenSeq(SubSeq(s, 1, k)) = f[k]
  BY <1>2, FlattenPrefix
<1>5. CASE k = 1
  <2>1. SubSeq(s, 1, k - 1) = << >>
    BY <1>5
  <2>2. << >> \o s[k] = s[k]
    BY <1>1
  <2> QED BY <1>3, <1>4, <1>5, <2>1, <2>2, FlattenEmpty
<1>6. CASE k # 1
  <2>1. k - 1 \in 1..Len(s)
    BY <1>1, <1>6
  <2>2. FlattenSeq(SubSeq(s, 1, k - 1)) = f[k - 1]
    BY <1>2, <2>1, FlattenPrefix
  <2> QED BY <1>3, <1>4, <1>6, <2>2
<1> QED BY <1>5, <1>6

\* Sequences of S flatten to a sequence of S.
LEMMA FlattenType ==
  ASSUME NEW S, NEW s \in Seq(Seq(S))
  PROVE  FlattenSeq(s) \in Seq(S)
<1> DEFINE n == Len(s)
           F(k) == FlattenSeq(SubSeq(s, 1, k))
           f == [k \in 0..n |-> F(k)]
<1>1. n \in Nat /\ SubSeq(s, 1, 0) = << >> /\ SubSeq(s, 1, n) = s
  OBVIOUS
<1>2. F(0) = << >> /\ F(n) = FlattenSeq(s)
  BY <1>1, FlattenEmpty
<1>3. \A k \in 1..n : s[k] \in Seq(S) /\ F(k) = F(k - 1) \o s[k]
  <2>1. \A k \in 1..n : F(k) = F(k - 1) \o s[k]
    BY FlattenNext
  <2>2. \A k \in 1..n : s[k] \in Seq(S)
    OBVIOUS
  <2> HIDE DEF F, n
  <2> QED BY <2>1, <2>2
<1> HIDE DEF F, n
<1>4. n \in 0..n /\ 0 \in 0..n /\ \A k \in 1..n : k \in 0..n /\ k - 1 \in 0..n
  BY <1>1
<1>5. \A k \in 0..n : f[k] = F(k)
  OBVIOUS
<1> HIDE DEF f
<1>6. f[0] = << >>
  BY <1>2, <1>4, <1>5
<1>7. \A k \in 1..n : s[k] \in Seq(S) /\ f[k] = f[k - 1] \o s[k]
  BY <1>3, <1>4, <1>5
<1>8. \A k \in 0..n : f[k] \in Seq(S)
  BY <1>1, <1>6, <1>7, AccumulatedType
<1> QED BY <1>2, <1>4, <1>5, <1>8

\* The flattening of a concatenation is the concatenation of the flattenings.
LEMMA FlattenConcat ==
  ASSUME NEW S, NEW s \in Seq(Seq(S)), NEW t \in Seq(Seq(S))
  PROVE  FlattenSeq(s \o t) = FlattenSeq(s) \o FlattenSeq(t)
<1> DEFINE m == Len(s)
           n == Len(t)
           u == s \o t
           a == FlattenSeq(s)
           F(k) == FlattenSeq(SubSeq(t, 1, k))
           G(k) == FlattenSeq(SubSeq(u, 1, m + k))
           f == [k \in 0..n |-> F(k)]
           g == [k \in 0..n |-> G(k)]
<1>1. /\ m \in Nat /\ n \in Nat /\ u \in Seq(Seq(S)) /\ Len(u) = m + n
      /\ \A k \in 1..n : u[m + k] = t[k] /\ t[k] \in Seq(S)
      /\ SubSeq(u, 1, m) = s /\ SubSeq(u, 1, m + n) = u
      /\ SubSeq(t, 1, 0) = << >> /\ SubSeq(t, 1, n) = t
  OBVIOUS
<1>2. a \in Seq(S)
  BY FlattenType
<1>3. \A k \in 1..n : F(k) = F(k - 1) \o t[k]
  BY FlattenNext
<1>4. ASSUME NEW k \in 1..n PROVE G(k) = G(k - 1) \o t[k]
  <2> HIDE DEF m, n, u
  <2> DEFINE i == m + k
  <2>1. i \in 1..Len(u) /\ i - 1 = m + (k - 1) /\ u[i] = t[k]
    BY <1>1
  <2> HIDE DEF i
  <2>2. FlattenSeq(SubSeq(u, 1, i)) = FlattenSeq(SubSeq(u, 1, i - 1)) \o u[i]
    BY <1>1, <2>1, FlattenNext
  <2> QED BY <2>1, <2>2 DEF i
<1>5. F(0) = << >> /\ G(0) = a
  <2>1. m + 0 = m
    BY <1>1
  <2> QED BY <1>1, <2>1, FlattenEmpty
<1>6. G(n) = FlattenSeq(u) /\ F(n) = FlattenSeq(t)
  BY <1>1
<1>7. n \in Nat /\ \A k \in 1..n : t[k] \in Seq(S)
  BY <1>1
<1> HIDE DEF F, G, a, n, u
<1>8. n \in 0..n /\ 0 \in 0..n /\ \A k \in 1..n : k \in 0..n /\ k - 1 \in 0..n
  BY <1>7
<1>9. \A k \in 0..n : f[k] = F(k) /\ g[k] = G(k)
  OBVIOUS
<1> HIDE DEF f, g
<1>10. f[0] = << >> /\ g[0] = a
  BY <1>5, <1>8, <1>9
<1>11. \A k \in 1..n :
         t[k] \in Seq(S) /\ f[k] = f[k - 1] \o t[k] /\ g[k] = g[k - 1] \o t[k]
  BY <1>3, <1>4, <1>7, <1>8, <1>9
<1>12. \A k \in 0..n : F(k) \in Seq(S)
  <2>1. \A k \in 0..n : SubSeq(t, 1, k) \in Seq(Seq(S))
    BY DEF n
  <2> QED BY <2>1, FlattenType DEF F
<1> DEFINE P == {k \in Nat : g[k] = a \o f[k]}
<1>13. 0 \in P
  <2>1. a \o << >> = a
    BY <1>2, ConcatEmptySeq
  <2>2. g[0] = a \o f[0]
    BY <1>10, <2>1
  <2> QED BY <2>2
<1>14. ASSUME NEW k \in 0..(n - 1), k \in P PROVE k + 1 \in P
  <2> DEFINE j == k + 1
  <2>1. j \in 1..n /\ j \in Nat /\ j - 1 = k /\ k \in 0..n
    BY <1>7
  <2>2. g[k] = a \o f[k]
    BY <1>14
  <2> HIDE DEF j, P
  <2>3. f[j] = f[k] \o t[j] /\ g[j] = g[k] \o t[j] /\ t[j] \in Seq(S)
    BY <1>11, <2>1
  <2>4. g[j] = a \o f[j]
    <3> DEFINE b == f[k]
               c == t[j]
    <3>1. b \in Seq(S) /\ c \in Seq(S)
      BY <1>9, <1>12, <2>1, <2>3
    <3>2. f[j] = b \o c /\ g[j] = (a \o b) \o c
      BY <2>2, <2>3
    <3> HIDE DEF b, c
    <3>3. (a \o b) \o c = a \o (b \o c)
      BY <1>2, <3>1, Regroup, SMTT(40)
    <3> QED BY <3>2, <3>3
  <2> USE DEF P
  <2>5. j \in P
    BY <2>1, <2>4
  <2> QED BY <2>5 DEF j
<1>15. \A k \in 0..n : g[k] = a \o f[k]
  <2> HIDE DEF P
  <2>1. \A k \in 0..n : k \in P
    BY <1>7, <1>13, <1>14, SetInduction
  <2> QED BY <2>1 DEF P
<1> QED BY <1>6, <1>8, <1>9, <1>15 DEF a, u
-----------------------------------------------------------------------------
(* FoldLeft.                                                               *)

\* The greatest of some numbers.
LEMMA MaxIs ==
  ASSUME NEW T, T \subseteq Nat, NEW x \in T, \A y \in T : y <= x
  PROVE  Max(T) = x
<1>1. \A y \in T : (\A z \in T : y >= z) => y = x
  OBVIOUS
<1> QED BY <1>1 DEF Max

\* A function that folds the members of every set of places up to m, the greatest
\* last: G[k] is what the k-th place does to what was folded before.
IsFold(f, X, b, m, G) ==
  /\ f \in [SUBSET (1..m) -> X]
  /\ \A s \in SUBSET (1..m) :
       /\ s # {} => Max(s) \in s
       /\ f[s] = IF s = {} THEN b ELSE G[Max(s)][f[s \ {Max(s)}]]

\* There is one.
LEMMA FoldExists ==
  ASSUME NEW X, NEW b \in X, NEW n \in Nat, NEW G \in [1..n -> [X -> X]]
  PROVE  \E f : IsFold(f, X, b, n, G)
<1> DEFINE P == {m \in Nat : \E f : IsFold(f, X, b, m, G)}
<1>1. 0 \in P
  <2> DEFINE f == [s \in SUBSET (1..0) |-> b]
  <2>1. \A s \in SUBSET (1..0) : s = {}
    OBVIOUS
  <2>2. \A s \in SUBSET (1..0) : f[s] = b
    OBVIOUS
  <2>3. f \in [SUBSET (1..0) -> X]
    OBVIOUS
  <2> HIDE DEF f
  <2>4. IsFold(f, X, b, 0, G)
    BY <2>1, <2>2, <2>3 DEF IsFold
  <2> QED BY <2>4
<1>2. ASSUME NEW m \in 0..(n - 1), m \in P PROVE m + 1 \in P
  <2>1. PICK f : IsFold(f, X, b, m, G)
    BY <1>2
  <2>0. /\ f \in [SUBSET (1..m) -> X]
        /\ \A s \in SUBSET (1..m) :
             /\ s # {} => Max(s) \in s
             /\ f[s] = IF s = {} THEN b ELSE G[Max(s)][f[s \ {Max(s)}]]
    BY <2>1 DEF IsFold
  <2> DEFINE j == m + 1
             g == [s \in SUBSET (1..j) |-> IF j \in s THEN G[j][f[s \ {j}]] ELSE f[s]]
  <2>2. j \in 1..n /\ j \in Nat /\ m \in Nat /\ \A k \in 1..j : k = j \/ k \in 1..m
    OBVIOUS
  <2>3. \A s \in SUBSET (1..j) : /\ s \ {j} \in SUBSET (1..m)
                                 /\ j \notin s => s \in SUBSET (1..m)
    BY <2>2
  <2>4. \A k \in 1..m : k \in 1..j /\ k # j
    OBVIOUS
  <2> HIDE DEF j
  <2>5. g \in [SUBSET (1..j) -> X]
    BY <2>0, <2>2, <2>3
  <2>6. ASSUME NEW s \in SUBSET (1..j)
        PROVE  /\ s # {} => Max(s) \in s
               /\ g[s] = IF s = {} THEN b ELSE G[Max(s)][g[s \ {Max(s)}]]
    <3>1. CASE j \in s
      <4>1. Max(s) = j
        <5>1. s \subseteq Nat /\ \A y \in s : y <= j
          BY <2>2
        <5> QED BY <3>1, <5>1, MaxIs
      <4>2. s \ {j} \in SUBSET (1..j) /\ j \notin s \ {j}
        OBVIOUS
      <4> QED BY <3>1, <4>1, <4>2
    <3>2. CASE j \notin s
      <4>1. s \in SUBSET (1..m)
        BY <2>3, <3>2
      <4>2. s \ {Max(s)} \in SUBSET (1..j) /\ j \notin s \ {Max(s)}
        BY <3>2
      <4>3. g[s] = f[s] /\ g[s \ {Max(s)}] = f[s \ {Max(s)}]
        BY <3>2, <4>2
      <4> HIDE DEF g
      <4> QED BY <2>0, <4>1, <4>3
    <3> QED BY <3>1, <3>2
  <2> HIDE DEF g
  <2>7. IsFold(g, X, b, j, G)
    BY <2>5, <2>6 DEF IsFold
  <2>8. \E h : IsFold(h, X, b, j, G)
    BY <2>7
  <2> QED BY <2>2, <2>8 DEF j
<1>3. n \in P
  <2> HIDE DEF P
  <2>1. \A k \in 0..n : k \in P
    BY <1>1, <1>2, SetInduction
  <2> QED BY <2>1
<1> QED BY <1>3

\* Of the places up to the k-th the k-th is the greatest.
LEMMA MaxUpTo ==
  ASSUME NEW k \in Nat, k # 0
  PROVE  Max(1..k) = k /\ (1..k) \ {k} = 1..(k - 1) /\ 1..k # {}
<1>1. 1..k \subseteq Nat /\ k \in 1..k /\ \A y \in 1..k : y <= k
  OBVIOUS
<1>2. Max(1..k) = k
  BY <1>1, MaxIs
<1> QED BY <1>1, <1>2
-----------------------------------------------------------------------------
(* Functions defined by recursion.                                         *)

\* G[x] makes of a function its value at x, from its values at places of a lower
\* rank only.
IsRecursion(S, V, N, rank, G) ==
  /\ N \in Nat /\ rank \in [S -> 0..N] /\ G \in [S -> [[S -> V] -> V]]
  /\ \A x \in S : \A f, g \in [S -> V] :
       (\A y \in S : rank[y] < rank[x] => f[y] = g[y]) => G[x][f] = G[x][g]
IsSolution(f, S, V, G) == f \in [S -> V] /\ \A x \in S : f[x] = G[x][f]

\* Such a function exists.
LEMMA RecursionExists ==
  ASSUME NEW S, NEW V, [S -> V] # {}, NEW N, NEW rank, NEW G, IsRecursion(S, V, N, rank, G)
  PROVE  \E f : IsSolution(f, S, V, G)
<1>0. /\ N \in Nat /\ rank \in [S -> 0..N] /\ G \in [S -> [[S -> V] -> V]]
      /\ \A x \in S : \A f, g \in [S -> V] :
           (\A y \in S : rank[y] < rank[x] => f[y] = g[y]) => G[x][f] = G[x][g]
  BY DEF IsRecursion
<1> DEFINE Holds(f, n) == \A x \in S : rank[x] < n => f[x] = G[x][f]
           P == {n \in Nat : \E f \in [S -> V] : Holds(f, n)}
<1>1. 0 \in P
  <2>1. PICK f0 : f0 \in [S -> V]
    OBVIOUS
  <2>2. Holds(f0, 0)
    BY <1>0
  <2> HIDE DEF Holds
  <2> QED BY <2>1, <2>2
<1>2. ASSUME NEW n \in 0..N, n \in P PROVE n + 1 \in P
  <2>1. PICK f \in [S -> V] : Holds(f, n)
    BY <1>2
  <2> DEFINE g == [x \in S |-> G[x][f]]
  <2>2. g \in [S -> V] /\ \A x \in S : g[x] = G[x][f]
    BY <1>0
  <2> HIDE DEF g
  <2>3. ASSUME NEW x \in S, rank[x] < n + 1 PROVE g[x] = G[x][g]
    <3>1. \A y \in S : rank[y] < rank[x] => f[y] = g[y]
      <4> SUFFICES ASSUME NEW y \in S, rank[y] < rank[x] PROVE f[y] = g[y]
        OBVIOUS
      <4>1. rank[y] < n
        BY <1>0, <1>2, <2>3
      <4> QED BY <2>1, <2>2, <4>1
    <3>2. G[x][f] = G[x][g]
      BY <1>0, <2>2, <3>1
    <3> QED BY <2>2, <3>2
  <2>4. Holds(g, n + 1)
    BY <2>3
  <2> HIDE DEF Holds
  <2> QED BY <2>2, <2>4
<1>3. N + 1 \in P
  <2> HIDE DEF P
  <2>1. N + 1 \in Nat /\ N + 1 \in 0..(N + 1) /\ (N + 1) - 1 = N
    BY <1>0
  <2>2. \A n \in 0..((N + 1) - 1) : n \in P => n + 1 \in P
    BY <1>2, <2>1
  <2>3. \A n \in 0..(N + 1) : n \in P
    BY <1>1, <2>1, <2>2, SetInduction
  <2> QED BY <2>1, <2>3
<1>4. PICK f \in [S -> V] : Holds(f, N + 1)
  BY <1>3
<1>5. \A x \in S : rank[x] < N + 1
  BY <1>0
<1>6. IsSolution(f, S, V, G)
  BY <1>4, <1>5 DEF IsSolution
<1> QED BY <1>6
=============================================================================
