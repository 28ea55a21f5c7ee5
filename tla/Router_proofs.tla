--------------------------- MODULE Router_proofs ----------------------------
(***************************************************************************)
(* Proofs about Router, for any set of routes, any number of them served   *)
(* in any order, and paths of any length, and about the routes PathParser  *)
(* makes of patterns.                                                      *)
(***************************************************************************)
EXTENDS Router, PathParser, FoldLemmas, FiniteSetTheorems
-----------------------------------------------------------------------------
(* Prefixes.                                                               *)

\* A prefix is as long at most, and the same place by place.
LEMMA PrefixIs ==
  ASSUME NEW S, NEW s \in Seq(S), NEW t \in Seq(S)
  PROVE  /\ IsPrefix(s, t) <=> Len(s) <= Len(t) /\ \A i \in 1..Len(s) : s[i] = t[i]
         /\ IsStrictPrefix(s, t) <=> IsPrefix(s, t) /\ s # t
<1>1. Len(s) \in Nat /\ Len(t) \in Nat /\ \A i \in 1..Len(s) : 1 <= i
  OBVIOUS
<1>2. ASSUME Len(s) <= Len(t)
      PROVE  SubSeq(s, 1, Len(s)) = SubSeq(t, 1, Len(s)) <=> \A i \in 1..Len(s) : s[i] = t[i]
  <2> DEFINE a == SubSeq(s, 1, Len(s))
             b == SubSeq(t, 1, Len(s))
  <2>1. a \in Seq(S) /\ Len(a) = Len(s) /\ b \in Seq(S) /\ Len(b) = Len(s)
    BY <1>1, <1>2
  <2>2. \A i \in 1..Len(s) : a[i] = s[i] /\ b[i] = t[i]
    BY <1>1, <1>2
  <2> HIDE DEF a, b
  <2>3. a = b <=> \A i \in 1..Len(s) : a[i] = b[i]
    BY <1>1, <2>1
  <2> QED BY <2>2, <2>3 DEF a, b
<1>3. IsPrefix(s, t) <=> Len(s) <= Len(t) /\ SubSeq(s, 1, Len(s)) = SubSeq(t, 1, Len(s))
  BY DEF IsPrefix
<1>4. IsStrictPrefix(s, t) <=> IsPrefix(s, t) /\ s # t
  BY DEF IsStrictPrefix
<1> QED BY <1>2, <1>3, <1>4

\* The same, as two rules.
LEMMA PrefixMeans ==
  ASSUME NEW S, NEW s \in Seq(S), NEW t \in Seq(S), IsPrefix(s, t)
  PROVE  Len(s) <= Len(t) /\ \A i \in 1..Len(s) : s[i] = t[i]
BY PrefixIs

\* The same, one way.
LEMMA IsPrefixIf ==
  ASSUME NEW S, NEW s \in Seq(S), NEW t \in Seq(S),
         Len(s) <= Len(t), \A i \in 1..Len(s) : s[i] = t[i]
  PROVE  IsPrefix(s, t)
BY PrefixIs

\* The places of two sequences put together.
LEMMA ConcatIs ==
  ASSUME NEW S, NEW s \in Seq(S), NEW t \in Seq(S)
  PROVE  /\ s \o t \in Seq(S) /\ Len(s \o t) = Len(s) + Len(t)
         /\ \A i \in 1..Len(s) : (s \o t)[i] = s[i]
         /\ \A i \in 1..Len(t) : (s \o t)[Len(s) + i] = t[i]
         /\ IsPrefix(s, s \o t)
<1>1. Len(s) \in Nat /\ Len(t) \in Nat
  OBVIOUS
<1>2. /\ s \o t \in Seq(S) /\ Len(s \o t) = Len(s) + Len(t)
      /\ \A i \in 1..Len(s) : (s \o t)[i] = s[i]
      /\ \A i \in 1..Len(t) : (s \o t)[Len(s) + i] = t[i]
  BY <1>1
<1> DEFINE u == s \o t
<1> HIDE DEF u
<1>3. u \in Seq(S) /\ Len(s) <= Len(u) /\ \A i \in 1..Len(s) : s[i] = u[i]
  BY <1>1, <1>2 DEF u
<1>4. IsPrefix(s, u)
  BY <1>3, PrefixIs
<1> QED BY <1>2, <1>4 DEF u

\* What is left of a sequence.
LEMMA RestIs ==
  ASSUME NEW S, NEW s \in Seq(S), NEW n \in 0..Len(s)
  PROVE  /\ Rest(s, n) \in Seq(S) /\ Len(Rest(s, n)) = Len(s) - n
         /\ \A i \in 1..(Len(s) - n) : Rest(s, n)[i] = s[n + i]
BY DEF Rest

\* A prefix and what is left make up the sequence.
LEMMA RestJoins ==
  ASSUME NEW S, NEW p \in Seq(S), NEW s \in Seq(S), IsPrefix(p, s)
  PROVE  /\ Len(p) \in 0..Len(s) /\ p \o Rest(s, Len(p)) = s
         /\ Len(Rest(s, Len(p))) = Len(s) - Len(p)
<1> DEFINE q == Rest(s, Len(p))
           t == p \o q
<1>1. Len(p) \in 0..Len(s) /\ Len(s) \in Nat /\ \A i \in 1..Len(p) : p[i] = s[i]
  BY PrefixIs
<1>2. /\ q \in Seq(S) /\ Len(q) = Len(s) - Len(p)
      /\ \A i \in 1..(Len(s) - Len(p)) : q[i] = s[Len(p) + i]
  BY <1>1, RestIs
<1> HIDE DEF q
<1>3. /\ t \in Seq(S) /\ Len(t) = Len(p) + Len(q)
      /\ \A i \in 1..Len(p) : t[i] = p[i]
      /\ \A i \in 1..Len(q) : t[Len(p) + i] = q[i]
  BY <1>2, ConcatIs
<1> HIDE DEF t
<1>4. ASSUME NEW i \in 1..Len(s) PROVE t[i] = s[i]
  <2>1. CASE i <= Len(p)
    BY <1>1, <1>3, <2>1
  <2>2. CASE i > Len(p)
    <3> DEFINE j == i - Len(p)
    <3>1. j \in 1..Len(q) /\ i = Len(p) + j
      BY <1>1, <1>2, <2>2
    <3> HIDE DEF j
    <3> QED BY <1>2, <1>3, <3>1
  <2> QED BY <1>1, <2>1, <2>2
<1>5. Len(t) = Len(s)
  BY <1>1, <1>2, <1>3
<1>6. t = s
  BY <1>3, <1>4, <1>5
<1> QED BY <1>1, <1>2, <1>6 DEF t, q

\* Of two prefixes of a sequence the shorter is one of the other.
LEMMA PrefixesCompare ==
  ASSUME NEW S, NEW p \in Seq(S), NEW q \in Seq(S), NEW s \in Seq(S),
         IsPrefix(p, s), IsPrefix(q, s), Len(p) <= Len(q)
  PROVE  IsPrefix(p, q)
<1>1. /\ Len(q) <= Len(s) /\ Len(p) \in Nat /\ Len(q) \in Nat
      /\ \A i \in 1..Len(p) : p[i] = s[i]
      /\ \A i \in 1..Len(q) : q[i] = s[i]
  BY PrefixIs
<1>2. \A i \in 1..Len(p) : i \in 1..Len(q)
  BY <1>1
<1>3. \A i \in 1..Len(p) : p[i] = q[i]
  BY <1>1, <1>2
<1> QED BY <1>3, PrefixIs

\* A prefix of a prefix is a prefix.
LEMMA PrefixOfPrefix ==
  ASSUME NEW S, NEW p \in Seq(S), NEW q \in Seq(S), NEW s \in Seq(S),
         IsPrefix(p, q), IsPrefix(q, s)
  PROVE  IsPrefix(p, s)
<1>0. Len(p) <= Len(q) /\ Len(p) \in Nat /\ Len(q) \in Nat /\ Len(s) \in Nat
      /\ \A i \in 1..Len(p) : p[i] = q[i]
  BY PrefixIs
<1>01. Len(q) <= Len(s) /\ \A i \in 1..Len(q) : q[i] = s[i]
  BY PrefixIs
<1>1. /\ Len(q) <= Len(s) /\ Len(p) <= Len(q) /\ Len(p) \in Nat /\ Len(q) \in Nat
      /\ Len(s) \in Nat
      /\ \A i \in 1..Len(p) : p[i] = q[i]
      /\ \A i \in 1..Len(q) : q[i] = s[i]
  BY <1>0, <1>01
<1>2. \A i \in 1..Len(p) : i \in 1..Len(q)
  BY <1>1
<1>3. \A i \in 1..Len(p) : p[i] = s[i]
  BY <1>1, <1>2
<1>4. Len(p) <= Len(s)
  BY <1>1
<1> QED BY <1>3, <1>4, PrefixIs

\* Behind the same text, one text is a prefix of another if it is so with it.
LEMMA PrefixBehind ==
  ASSUME NEW S, NEW s \in Seq(S), NEW p \in Seq(S), NEW q \in Seq(S)
  PROVE  IsPrefix(s \o p, s \o q) <=> IsPrefix(p, q)
<1> DEFINE a == s \o p
           b == s \o q
<1>1. /\ a \in Seq(S) /\ Len(a) = Len(s) + Len(p)
      /\ \A i \in 1..Len(s) : a[i] = s[i]
      /\ \A i \in 1..Len(p) : a[Len(s) + i] = p[i]
      /\ b \in Seq(S) /\ Len(b) = Len(s) + Len(q)
      /\ \A i \in 1..Len(s) : b[i] = s[i]
      /\ \A i \in 1..Len(q) : b[Len(s) + i] = q[i]
      /\ Len(s) \in Nat /\ Len(p) \in Nat /\ Len(q) \in Nat
  BY ConcatIs
<1> HIDE DEF a, b
<1>2. ASSUME IsPrefix(a, b) PROVE IsPrefix(p, q)
  <2>0. a \in Seq(S) /\ b \in Seq(S)
    BY <1>1
  <2>1. Len(a) <= Len(b) /\ \A i \in 1..Len(a) : a[i] = b[i]
    BY <1>2, <2>0, PrefixMeans
  <2>2. ASSUME NEW i \in 1..Len(p) PROVE p[i] = q[i]
    <3> DEFINE j == Len(s) + i
    <3>1. j \in 1..Len(a) /\ i \in 1..Len(q)
      BY <1>1, <2>1
    <3>2. a[j] = p[i] /\ b[j] = q[i]
      BY <1>1, <3>1
    <3> HIDE DEF j
    <3> QED BY <2>1, <3>1, <3>2
  <2>3. Len(p) <= Len(q)
    BY <1>1, <2>1
  <2> QED BY <2>2, <2>3, PrefixIs
<1>3. ASSUME IsPrefix(p, q) PROVE IsPrefix(a, b)
  <2>1. Len(p) <= Len(q) /\ \A i \in 1..Len(p) : p[i] = q[i]
    BY <1>3, PrefixIs
  <2>2. ASSUME NEW i \in 1..Len(a) PROVE a[i] = b[i]
    <3>1. CASE i <= Len(s)
      BY <1>1, <3>1
    <3>2. CASE i > Len(s)
      <4> DEFINE j == i - Len(s)
      <4>1. j \in 1..Len(p) /\ j \in 1..Len(q) /\ i = Len(s) + j
        BY <1>1, <2>1, <3>2
      <4> HIDE DEF j
      <4> QED BY <1>1, <2>1, <4>1
    <3> QED BY <1>1, <3>1, <3>2
  <2>3. Len(a) <= Len(b)
    BY <1>1, <2>1
  <2> QED BY <1>1, <2>2, <2>3, PrefixIs
<1> QED BY <1>2, <1>3 DEF a, b
-----------------------------------------------------------------------------
(* Patterns.                                                               *)

\* The symbols of a pattern, and those that can lead to a node.
Symbols == Chars \cup {"param", "wildcard"}
Marks == Chars \cup {"param"}

\* The symbols of a token, and of the first k tokens.
Piece(r, k) == IF r.tokens[k].kind = "static" THEN r.tokens[k].text
                                              ELSE <<r.tokens[k].kind>>
PiecesOf(r) == [k \in DOMAIN r.tokens |-> Piece(r, k)]
FlatTo(r, k) == FlattenSeq(SubSeq(PiecesOf(r), 1, k))

\* The tokens of a route.
LEMMA TokensAre ==
  ASSUME NEW r \in Routes
  PROVE  /\ Len(r.tokens) \in Nat /\ DOMAIN r.tokens = 1..Len(r.tokens)
         /\ \A k \in 1..Len(r.tokens) :
              /\ r.tokens[k].kind \in Kinds /\ r.tokens[k].text \in Seq(Chars)
              /\ r.tokens[k].kind = "static" => k = 1 \/ r.tokens[k - 1].kind # "static"
              /\ r.tokens[k].kind = "param" =>
                   /\ k > 1 /\ r.tokens[k - 1].kind = "static"
                   /\ r.tokens[k - 1].text # << >> /\ Last(r.tokens[k - 1].text) = "/"
              /\ r.tokens[k].kind = "wildcard" => k = Len(r.tokens)
<1> DEFINE ts == r.tokens
<1>1. IsParsed(ts)
  BY RoutesAssumption DEF RoutesAssumption
<1> HIDE DEF ts
<1>2. ts \in Seq([kind : Kinds, text : Seq(Chars)])
  BY <1>1 DEF IsParsed
<1>3. /\ Len(ts) \in Nat /\ DOMAIN ts = 1..Len(ts)
      /\ \A k \in 1..Len(ts) : ts[k].kind \in Kinds /\ ts[k].text \in Seq(Chars)
  <2> DEFINE T == [kind : Kinds, text : Seq(Chars)]
  <2>1. \A x \in T : x.kind \in Kinds /\ x.text \in Seq(Chars)
    OBVIOUS
  <2>2. ts \in Seq(T)
    BY <1>2
  <2> HIDE DEF T
  <2>3. Len(ts) \in Nat /\ DOMAIN ts = 1..Len(ts) /\ \A k \in 1..Len(ts) : ts[k] \in T
    BY <2>2
  <2> QED BY <2>1, <2>3
<1>4. \A k \in 1..Len(ts) :
              /\ ts[k].kind = "static" => k = 1 \/ ts[k - 1].kind # "static"
              /\ ts[k].kind = "param" =>
                   /\ k > 1 /\ ts[k - 1].kind = "static"
                   /\ ts[k - 1].text # << >> /\ Last(ts[k - 1].text) = "/"
              /\ ts[k].kind = "wildcard" => k = Len(ts)
  <2>1. \A k \in DOMAIN ts : ts[k].kind = "static" => k = 1 \/ ts[k - 1].kind # "static"
    BY <1>1, Zenon DEF IsParsed
  <2>2. \A k \in DOMAIN ts : ts[k].kind = "param" =>
                   /\ k > 1 /\ ts[k - 1].kind = "static"
                   /\ ts[k - 1].text # << >> /\ Last(ts[k - 1].text) = "/"
    BY <1>1, Zenon DEF IsParsed
  <2>3. \A k \in DOMAIN ts : ts[k].kind = "wildcard" => k = Len(ts)
    BY <1>1, Zenon DEF IsParsed
  <2> QED BY <1>3, <2>1, <2>2, <2>3, Zenon
<1> QED BY <1>3, <1>4 DEF ts

\* The characters are no marks of a parameter or a wildcard.
LEMMA MarksAreNoChars == "param" \notin Chars /\ "wildcard" \notin Chars
BY RoutesAssumption DEF RoutesAssumption, Kinds

\* What each token adds to the pattern.
LEMMA PieceIs ==
  ASSUME NEW r \in Routes, NEW k \in 1..Len(r.tokens)
  PROVE  /\ Piece(r, k) \in Seq(Symbols)
         /\ r.tokens[k].kind = "static" => Piece(r, k) = r.tokens[k].text
         /\ r.tokens[k].kind = "param" => Piece(r, k) = <<"param">>
         /\ r.tokens[k].kind = "wildcard" => Piece(r, k) = <<"wildcard">>
         /\ r.tokens[k].kind # "wildcard" => Piece(r, k) \in Seq(Marks)
<1>1. r.tokens[k].kind \in Kinds /\ r.tokens[k].text \in Seq(Chars)
  BY TokensAre
<1>2. Chars \subseteq Symbols /\ Chars \subseteq Marks
  BY DEF Symbols, Marks
<1>3. r.tokens[k].text \in Seq(Symbols) /\ r.tokens[k].text \in Seq(Marks)
  BY <1>1, <1>2
<1>4. <<"param">> \in Seq(Symbols) /\ <<"param">> \in Seq(Marks) /\ <<"wildcard">> \in Seq(Symbols)
  BY DEF Symbols, Marks
<1> QED BY <1>1, <1>3, <1>4 DEF Piece, Kinds

\* The pattern is put together token by token.
LEMMA FlatIs ==
  ASSUME NEW r \in Routes
  PROVE  /\ FlatTo(r, 0) = << >>
         /\ FlatTo(r, Len(r.tokens)) = Flat(r) /\ Flat(r) \in Seq(Symbols)
         /\ \A k \in 0..Len(r.tokens) : FlatTo(r, k) \in Seq(Symbols)
         /\ \A k \in 1..Len(r.tokens) : FlatTo(r, k) = FlatTo(r, k - 1) \o Piece(r, k)
<1> DEFINE n == Len(r.tokens)
           p == PiecesOf(r)
<1>1. n \in Nat /\ DOMAIN r.tokens = 1..n /\ \A k \in 1..n : Piece(r, k) \in Seq(Symbols)
  BY TokensAre, PieceIs
<1>2. p \in Seq(Seq(Symbols)) /\ Len(p) = n /\ \A k \in 1..n : p[k] = Piece(r, k)
  BY <1>1 DEF PiecesOf
<1>3. p = [k \in DOMAIN r.tokens |->
             IF r.tokens[k].kind = "static" THEN r.tokens[k].text
                                            ELSE <<r.tokens[k].kind>>]
  BY DEF PiecesOf, Piece
<1> HIDE DEF p, n
<1>4. Flat(r) = FlattenSeq(p)
  BY <1>3 DEF Flat
<1>5. SubSeq(p, 1, 0) = << >> /\ SubSeq(p, 1, n) = p
      /\ \A k \in 0..n : SubSeq(p, 1, k) \in Seq(Seq(Symbols))
  BY <1>1, <1>2
<1>6. \A k \in 0..n : FlatTo(r, k) = FlattenSeq(SubSeq(p, 1, k))
  BY DEF FlatTo, p
<1>7. 0 \in 0..n /\ n \in 0..n /\ \A k \in 1..n : k \in 0..n /\ k - 1 \in 0..n
  BY <1>1
<1>8. FlatTo(r, 0) = << >> /\ FlatTo(r, n) = Flat(r)
  BY <1>4, <1>5, <1>6, <1>7, FlattenEmpty
<1>9. \A k \in 0..n : FlatTo(r, k) \in Seq(Symbols)
  BY <1>5, <1>6, FlattenType
<1>10. \A k \in 1..n : FlatTo(r, k) = FlatTo(r, k - 1) \o Piece(r, k)
  <2> SUFFICES ASSUME NEW k \in 1..n PROVE FlatTo(r, k) = FlatTo(r, k - 1) \o Piece(r, k)
    OBVIOUS
  <2>1. FlattenSeq(SubSeq(p, 1, k)) = FlattenSeq(SubSeq(p, 1, k - 1)) \o p[k]
    BY <1>2, FlattenNext
  <2> QED BY <1>2, <1>6, <1>7, <2>1
<1> QED BY <1>7, <1>8, <1>9, <1>10 DEF n

\* Before a wildcard a pattern has characters and parameters only.
LEMMA FlatToMarks ==
  ASSUME NEW r \in Routes, NEW k \in 0..Len(r.tokens),
         k = 0 \/ r.tokens[k].kind # "wildcard"
  PROVE  FlatTo(r, k) \in Seq(Marks)
<1> DEFINE p == PiecesOf(r)
           q == SubSeq(p, 1, k)
<1>1. Len(r.tokens) \in Nat /\ \A j \in 1..k : j \in 1..Len(r.tokens)
  BY TokensAre
<1>2. \A j \in 1..k : r.tokens[j].kind # "wildcard"
  BY <1>1, TokensAre
<1>3. \A j \in 1..k : Piece(r, j) \in Seq(Marks)
  BY <1>1, <1>2, PieceIs
<1>4. DOMAIN r.tokens = 1..Len(r.tokens)
  BY TokensAre
<1>5. p \in Seq(Seq(Symbols)) /\ Len(p) = Len(r.tokens) /\ \A j \in 1..k : p[j] = Piece(r, j)
  BY <1>1, <1>4, PieceIs DEF PiecesOf
<1> HIDE DEF p
<1>6. q \in Seq(Seq(Marks))
  BY <1>1, <1>3, <1>5
<1> HIDE DEF q
<1>7. FlattenSeq(q) \in Seq(Marks)
  BY <1>6, FlattenType
<1> QED BY <1>7 DEF FlatTo, q, p

\* The first tokens make up a prefix of what more of them make up.
LEMMA FlatToPrefix ==
  ASSUME NEW r \in Routes, NEW k \in 0..Len(r.tokens), NEW j \in 0..k
  PROVE  IsPrefix(FlatTo(r, j), FlatTo(r, k))
<1> DEFINE n == Len(r.tokens)
           P == {m \in Nat : m >= j /\ m <= n => IsPrefix(FlatTo(r, j), FlatTo(r, m))}
<1>1. n \in Nat /\ j \in 0..n /\ k \in 0..n /\ j \in Nat
      /\ \A m \in 0..n : FlatTo(r, m) \in Seq(Symbols)
  BY TokensAre, FlatIs
<1>2. \A m \in 1..n : FlatTo(r, m) = FlatTo(r, m - 1) \o Piece(r, m)
                      /\ Piece(r, m) \in Seq(Symbols)
  BY FlatIs, PieceIs
<1> DEFINE f == FlatTo(r, j)
<1>3. IsPrefix(f, f)
  BY <1>1, IsPrefixIf
<1> HIDE DEF n, f
<1>4. 0 \in P
  BY <1>1, <1>3 DEF f
<1>5. ASSUME NEW m \in 0..(n - 1), m \in P PROVE m + 1 \in P
  <2> DEFINE i == m + 1
  <2>1. i \in 1..n /\ i \in Nat /\ i - 1 = m /\ m \in 0..n /\ i \in 0..n
    BY <1>1
  <2> HIDE DEF i
  <2>2. ASSUME i >= j PROVE IsPrefix(f, FlatTo(r, i))
    <3>1. CASE i = j
      BY <1>3, <3>1 DEF f
    <3>2. CASE i # j
      <4>1. m >= j /\ m <= n
        BY <1>1, <2>1, <2>2, <3>2
      <4>2. IsPrefix(f, FlatTo(r, m))
        BY <1>5, <4>1 DEF f
      <4> DEFINE a == FlatTo(r, m)
                 b == Piece(r, i)
      <4>3. a \in Seq(Symbols) /\ b \in Seq(Symbols) /\ f \in Seq(Symbols)
        BY <1>1, <1>2, <2>1 DEF f
      <4>4. FlatTo(r, i) = a \o b
        BY <1>2, <2>1
      <4> HIDE DEF a, b
      <4>5. IsPrefix(a, a \o b) /\ a \o b \in Seq(Symbols)
        BY <4>3, ConcatIs
      <4>6. IsPrefix(f, a \o b)
        BY <4>2, <4>3, <4>5, PrefixOfPrefix DEF a
      <4> QED BY <4>4, <4>6
    <3> QED BY <3>1, <3>2
  <2>3. i \in P
    BY <2>1, <2>2 DEF f
  <2> QED BY <2>3 DEF i
<1> HIDE DEF P
<1>6. k \in P
  <2>1. \A m \in 0..n : m \in P
    BY <1>1, <1>4, <1>5, SetInduction
  <2> QED BY <1>1, <2>1
<1> QED BY <1>1, <1>6 DEF P

\* What a text ends at: the pattern's end, a parameter or a wildcard.
LEMMA TextEnds ==
  ASSUME NEW r \in Routes, NEW k \in 1..Len(r.tokens), r.tokens[k].kind = "static"
  PROVE  \/ k = Len(r.tokens) /\ FlatTo(r, k) = Flat(r)
         \/ /\ Len(FlatTo(r, k)) < Len(Flat(r))
            /\ Flat(r)[Len(FlatTo(r, k)) + 1] \in {"param", "wildcard"}
<1>1. /\ Len(r.tokens) \in Nat /\ k \in 0..Len(r.tokens)
      /\ FlatTo(r, k) \in Seq(Symbols) /\ Flat(r) \in Seq(Symbols)
  BY TokensAre, FlatIs
<1>2. CASE k = Len(r.tokens)
  BY <1>2, FlatIs
<1>3. CASE k # Len(r.tokens)
  <2> DEFINE i == k + 1
             a == FlatTo(r, k)
             b == FlatTo(r, i)
             c == Piece(r, i)
  <2>1. i \in 1..Len(r.tokens) /\ i \in 0..Len(r.tokens) /\ i # 1 /\ i - 1 = k
    BY <1>1, <1>3
  <2> HIDE DEF i
  <2>2. r.tokens[i].kind \in {"param", "wildcard"}
    BY <2>1, TokensAre DEF Kinds
  <2>3. c = <<r.tokens[i].kind>>
    BY <2>1, <2>2, PieceIs
  <2>4. b = a \o c /\ b \in Seq(Symbols) /\ c \in Seq(Symbols) /\ a \in Seq(Symbols)
    BY <1>1, <2>1, FlatIs, PieceIs
  <2>5. IsPrefix(b, Flat(r))
    <3>1. Len(r.tokens) \in 0..Len(r.tokens) /\ FlatTo(r, Len(r.tokens)) = Flat(r)
      BY <1>1, FlatIs
    <3>2. IsPrefix(FlatTo(r, i), FlatTo(r, Len(r.tokens)))
      BY <2>1, <3>1, FlatToPrefix
    <3> QED BY <3>1, <3>2
  <2> HIDE DEF a, b, c
  <2>6. Len(c) = 1 /\ c[1] = r.tokens[i].kind /\ 1 \in 1..Len(c)
    BY <2>3
  <2>7. Len(b) = Len(a) + 1 /\ b[Len(a) + 1] = c[1]
    <3>1. Len(a \o c) = Len(a) + Len(c) /\ \A x \in 1..Len(c) : (a \o c)[Len(a) + x] = c[x]
      BY <2>4, ConcatIs
    <3> QED BY <2>4, <2>6, <3>1
  <2>8. Len(b) <= Len(Flat(r)) /\ \A x \in 1..Len(b) : b[x] = Flat(r)[x]
    BY <1>1, <2>4, <2>5, PrefixMeans
  <2>9. Len(a) \in Nat /\ Len(Flat(r)) \in Nat /\ Len(a) + 1 \in 1..Len(b)
    BY <1>1, <2>4, <2>7
  <2>10. Len(a) < Len(Flat(r)) /\ Flat(r)[Len(a) + 1] \in {"param", "wildcard"}
    BY <2>2, <2>6, <2>7, <2>8, <2>9
  <2> QED BY <2>10 DEF a
<1> QED BY <1>2, <1>3

\* The cuts of a route are where its texts end.
LEMMA CutsAre ==
  ASSUME NEW r \in Routes
  PROVE  Cuts(r) = {FlatTo(r, k) : k \in {k \in 1..Len(r.tokens) : r.tokens[k].kind = "static"}}
<1>1. Len(r.tokens) \in Nat /\ DOMAIN r.tokens = 1..Len(r.tokens)
      /\ r.tokens \in Seq([kind : Kinds, text : Seq(Chars)])
      /\ r = [verb |-> r.verb, tokens |-> r.tokens]
  BY TokensAre, RoutesAssumption DEF RoutesAssumption, IsParsed
<1>2. ASSUME NEW k \in 1..Len(r.tokens)
      PROVE  Flat([r EXCEPT !.tokens = SubSeq(@, 1, k)]) = FlatTo(r, k)
  <2> DEFINE q == [r EXCEPT !.tokens = SubSeq(@, 1, k)]
             ts == SubSeq(r.tokens, 1, k)
  <2>1. q.tokens = ts
    <3>1. r = [verb |-> r.verb, tokens |-> r.tokens]
      BY RoutesAssumption DEF RoutesAssumption
    <3> QED BY <3>1
  <2>2. DOMAIN ts = 1..k /\ \A j \in 1..k : ts[j] = r.tokens[j] /\ j \in 1..Len(r.tokens)
    <3> DEFINE T == [kind : Kinds, text : Seq(Chars)]
               tokens == r.tokens
    <3>1. tokens \in Seq(T)
      BY <1>1
    <3>2. Len(tokens) \in Nat /\ k \in 1..Len(tokens)
      BY <1>1
    <3> HIDE DEF T, tokens
    <3>3. SubSeq(tokens, 1, k) \in Seq(T) /\ DOMAIN SubSeq(tokens, 1, k) = 1..k
          /\ \A j \in 1..k : SubSeq(tokens, 1, k)[j] = tokens[j] /\ j \in 1..Len(tokens)
      BY <3>1, <3>2
    <3> QED BY <3>3 DEF tokens
  <2> HIDE DEF q, ts
  <2>3. Flat(q) = FlattenSeq([j \in 1..k |-> IF ts[j].kind = "static" THEN ts[j].text
                                             ELSE <<ts[j].kind>>])
    BY <2>1, <2>2 DEF Flat
  <2>4. [j \in 1..k |-> IF ts[j].kind = "static" THEN ts[j].text ELSE <<ts[j].kind>>]
          = [j \in 1..k |-> Piece(r, j)]
    BY <2>2 DEF Piece
  <2>5. PiecesOf(r) \in Seq(Seq(Symbols)) /\ Len(PiecesOf(r)) = Len(r.tokens)
        /\ \A j \in 1..k : PiecesOf(r)[j] = Piece(r, j)
    BY <1>1, <2>2, PieceIs DEF PiecesOf
  <2> DEFINE p == PiecesOf(r)
  <2> HIDE DEF p
  <2>6. SubSeq(p, 1, k) = [j \in 1..k |-> p[j]]
    BY <1>1, <2>5 DEF p
  <2>7. [j \in 1..k |-> p[j]] = [j \in 1..k |-> Piece(r, j)]
    BY <2>5 DEF p
  <2> QED BY <2>3, <2>4, <2>6, <2>7 DEF FlatTo, p, q
<1> QED BY <1>1, <1>2 DEF Cuts
-----------------------------------------------------------------------------
(* Trees.  Each node is labelled with the symbols that lead to it; a label *)
(* never changes.                                                          *)

NodeType == [prefix : Seq(Chars), routes : SUBSET Routes, statics : Seq(Nat),
             params : Seq(Nat), wildcard : SUBSET Routes]

Label(L, v) == L[v]
Prefix(t, v) == t[v].prefix
Statics(t, v) == t[v].statics
Params(t, v) == t[v].params

StaticChild(t, v, c) == \E j \in 1..Len(Statics(t, v)) : Statics(t, v)[j] = c
ParamChild(t, v, c) == Params(t, v) # << >> /\ Params(t, v)[1] = c
Child(t, v, c) == StaticChild(t, v, c) \/ ParamChild(t, v, c)

\* A tree: its first node is the root, every other one is a child, a static one of
\* one node and there once.
IsTree(t, L) ==
  /\ t \in Seq(NodeType) /\ t # << >> /\ L \in [1..Len(t) -> Seq(Marks)]
  /\ Label(L, 1) = << >>
  /\ \A v \in 1..Len(t), c \in Nat : StaticChild(t, v, c) =>
       /\ c \in 1..Len(t) /\ Prefix(t, c) # << >>
       /\ Label(L, c) = Label(L, v) \o Prefix(t, c)
  /\ \A v \in 1..Len(t), c \in Nat : ParamChild(t, v, c) =>
       c \in 1..Len(t) /\ Label(L, c) = Label(L, v) \o <<"param">>
  /\ \A c \in 2..Len(t) : \E v \in 1..Len(t) : Child(t, v, c)
  /\ \A v, w \in 1..Len(t) :
       \A j \in 1..Len(Statics(t, v)), k \in 1..Len(Statics(t, w)) :
         Statics(t, v)[j] = Statics(t, w)[k] => v = w /\ j = k

\* Of things that are measured there is a least one.
LEMMA Least ==
  ASSUME NEW T, NEW x \in T, NEW f, \A y \in T : f[y] \in Nat
  PROVE  \E z \in T : \A y \in T : f[z] <= f[y]
<1> DEFINE M == {f[y] : y \in T}
           Below == {p \in Nat \X Nat : p[1] < p[2]}
<1>1. IsWellFoundedOn(Below, Nat)
  BY NatLessThanWellFounded, Zenon DEF OpToRel
<1>2. M \subseteq Nat /\ M # {}
  OBVIOUS
<1>3. \A j, i \in Nat : j < i => <<j, i>> \in Below
  OBVIOUS
<1>4. PICK m \in M : \A n \in M : <<n, m>> \notin Below
  <2> HIDE DEF M, Below
  <2> QED BY <1>1, <1>2, WFMin
<1>5. PICK z \in T : m = f[z]
  BY <1>4
<1>6. \A y \in T : ~ f[y] < f[z]
  <2>1. \A y \in T : f[y] \in M
    OBVIOUS
  <2> HIDE DEF Below, M
  <2> QED BY <1>3, <1>4, <1>5, <2>1
<1> HIDE DEF M, Below
<1> QED BY <1>6

\* The fields of a node.
LEMMA NodeIs ==
  ASSUME NEW t \in Seq(NodeType), NEW v \in 1..Len(t)
  PROVE  /\ t[v] \in NodeType
         /\ Prefix(t, v) \in Seq(Chars) /\ Prefix(t, v) \in Seq(Marks)
         /\ Statics(t, v) \in Seq(Nat) /\ Params(t, v) \in Seq(Nat)
         /\ t[v].routes \subseteq Routes /\ t[v].wildcard \subseteq Routes
<1>1. \A x \in NodeType : /\ x.prefix \in Seq(Chars) /\ x.routes \subseteq Routes
                          /\ x.statics \in Seq(Nat) /\ x.params \in Seq(Nat)
                          /\ x.wildcard \subseteq Routes
  BY DEF NodeType
<1>2. t[v] \in NodeType
  OBVIOUS
<1> DEFINE x == t[v]
<1>3. Chars \subseteq Marks
  BY DEF Marks
<1> HIDE DEF x
<1>4. /\ x.prefix \in Seq(Chars) /\ x.routes \subseteq Routes
      /\ x.statics \in Seq(Nat) /\ x.params \in Seq(Nat)
      /\ x.wildcard \subseteq Routes
  BY <1>1, <1>2 DEF x
<1>5. x.prefix \in Seq(Marks)
  BY <1>3, <1>4
<1> QED BY <1>2, <1>4, <1>5 DEF x, Prefix, Statics, Params

\* What is known of a tree and its labels without looking at its shape.
LEMMA TreeIs ==
  ASSUME NEW t, NEW L, IsTree(t, L)
  PROVE  /\ t \in Seq(NodeType) /\ Len(t) \in Nat /\ 1 \in 1..Len(t) /\ DOMAIN t = 1..Len(t)
         /\ L \in [1..Len(t) -> Seq(Marks)] /\ Label(L, 1) = << >>
         /\ \A v \in 1..Len(t) : Label(L, v) \in Seq(Marks) /\ Len(Label(L, v)) \in Nat
<1>1. t \in Seq(NodeType) /\ t # << >> /\ L \in [1..Len(t) -> Seq(Marks)]
      /\ Label(L, 1) = << >>
  BY DEF IsTree
<1>2. ASSUME NEW v \in 1..Len(t) PROVE L[v] \in Seq(Marks)
  BY <1>1
<1>3. \A s \in Seq(Marks) : Len(s) \in Nat
  OBVIOUS
<1>4. Len(t) \in Nat /\ 1 \in 1..Len(t) /\ DOMAIN t = 1..Len(t)
  BY <1>1
<1> QED BY <1>1, <1>2, <1>3, <1>4 DEF Label

\* What it is for siblings to be disjoint.
LEMMA DisjointIs ==
  ASSUME NEW t \in Seq(NodeType)
  PROVE  Disjoint(t) <=>
           \A v \in 1..Len(t) : \A j, k \in 1..Len(Statics(t, v)) :
             j # k => ~IsPrefix(Prefix(t, Statics(t, v)[j]), Prefix(t, Statics(t, v)[k]))
<1>1. DOMAIN t = 1..Len(t)
  OBVIOUS
<1>2. \A v \in 1..Len(t) : DOMAIN Statics(t, v) = 1..Len(Statics(t, v))
  <2>1. \A s \in Seq(Nat) : DOMAIN s = 1..Len(s)
    OBVIOUS
  <2> QED BY <2>1, NodeIs
<1>3. Disjoint(t) <=>
           \A v \in DOMAIN t : \A j, k \in DOMAIN Statics(t, v) :
             j # k => ~IsPrefix(Prefix(t, Statics(t, v)[j]), Prefix(t, Statics(t, v)[k]))
  BY DEF Disjoint, Statics, Prefix
<1> QED BY <1>1, <1>2, <1>3, Zenon

\* A static child's label is the one of its parent and its text.
LEMMA StaticLabel ==
  ASSUME NEW t, NEW L, IsTree(t, L), NEW v \in 1..Len(t), NEW c \in Nat, StaticChild(t, v, c)
  PROVE  /\ c \in 1..Len(t) /\ Prefix(t, c) # << >> /\ Prefix(t, c) \in Seq(Chars)
         /\ Label(L, v) \in Seq(Marks) /\ Prefix(t, c) \in Seq(Marks) /\ Len(Prefix(t, c)) \in Nat
         /\ Len(Prefix(t, c)) # 0
         /\ Label(L, c) = Label(L, v) \o Prefix(t, c) /\ IsPrefix(Label(L, v), Label(L, c))
         /\ Len(Label(L, c)) = Len(Label(L, v)) + Len(Prefix(t, c))
         /\ Len(Label(L, v)) \in Nat /\ Label(L, c)[Len(Label(L, v)) + 1] \in Chars
<1>1. t \in Seq(NodeType) /\ L \in [1..Len(t) -> Seq(Marks)]
  BY TreeIs
<1>2. c \in Nat
  <2>1. Statics(t, v) \in Seq(Nat)
    BY <1>1, NodeIs
  <2> QED BY <2>1 DEF StaticChild
<1>3. c \in 1..Len(t) /\ Prefix(t, c) # << >> /\ Label(L, c) = Label(L, v) \o Prefix(t, c)
  BY <1>2 DEF IsTree
<1> DEFINE p == Prefix(t, c)
<1>4. p \in Seq(Chars) /\ Label(L, v) \in Seq(Marks)
  BY <1>1, <1>3, NodeIs, TreeIs
<1>5. p \in Seq(Marks)
  <2>1. Chars \subseteq Marks
    BY DEF Marks
  <2> HIDE DEF p
  <2> QED BY <1>4, <2>1
<1>6. Label(L, c) = Label(L, v) \o p /\ p # << >>
  BY <1>3
<1> HIDE DEF p
<1>7. Len(p) \in Nat /\ Len(p) # 0 /\ 1 \in 1..Len(p) /\ p[1] \in Chars
  BY <1>4, <1>6
<1>8. /\ Len(Label(L, v) \o p) = Len(Label(L, v)) + Len(p) /\ IsPrefix(Label(L, v), Label(L, v) \o p)
      /\ \A i \in 1..Len(p) : (Label(L, v) \o p)[Len(Label(L, v)) + i] = p[i]
  BY <1>4, <1>5, ConcatIs
<1>9. Label(L, c)[Len(Label(L, v)) + 1] = p[1]
  BY <1>6, <1>7, <1>8
<1>10. Len(Label(L, v)) \in Nat
  BY <1>4
<1> QED BY <1>3, <1>4, <1>5, <1>6, <1>7, <1>8, <1>9, <1>10 DEF p

\* A parameter child's label is the one of its parent and a parameter.
LEMMA ParamLabel ==
  ASSUME NEW t, NEW L, IsTree(t, L), NEW v \in 1..Len(t), NEW c \in Nat, ParamChild(t, v, c)
  PROVE  /\ c \in 1..Len(t) /\ Label(L, v) \in Seq(Marks)
         /\ Label(L, c) = Label(L, v) \o <<"param">> /\ IsPrefix(Label(L, v), Label(L, c))
         /\ Len(Label(L, c)) = Len(Label(L, v)) + 1
         /\ Len(Label(L, v)) \in Nat /\ Label(L, c)[Len(Label(L, v)) + 1] = "param"
<1>1. t \in Seq(NodeType) /\ L \in [1..Len(t) -> Seq(Marks)]
  BY TreeIs
<1>2. c \in Nat
  <2>1. Params(t, v) \in Seq(Nat)
    BY <1>1, NodeIs
  <2> QED BY <2>1 DEF ParamChild
<1>3. c \in 1..Len(t) /\ Label(L, c) = Label(L, v) \o <<"param">>
  BY <1>2 DEF IsTree
<1> DEFINE p == <<"param">>
<1>4. p \in Seq(Marks) /\ Len(p) = 1 /\ p[1] = "param" /\ 1 \in 1..Len(p)
  BY DEF Marks
<1>5. Label(L, v) \in Seq(Marks)
  BY TreeIs
<1>6. Label(L, c) = Label(L, v) \o p
  BY <1>3
<1> HIDE DEF p
<1>8. /\ Len(Label(L, v) \o p) = Len(Label(L, v)) + Len(p) /\ IsPrefix(Label(L, v), Label(L, v) \o p)
      /\ \A i \in 1..Len(p) : (Label(L, v) \o p)[Len(Label(L, v)) + i] = p[i]
  <2>1. p \in Seq(Marks)
    BY <1>4
  <2> QED BY <2>1, <1>5, ConcatIs
<1>9. Label(L, c)[Len(Label(L, v)) + 1] = "param"
  BY <1>4, <1>6, <1>8
<1>10. Len(Label(L, v)) \in Nat
  BY <1>5
<1> QED BY <1>3, <1>4, <1>5, <1>6, <1>8, <1>9, <1>10

\* A child's label is longer.
LEMMA ChildLabel ==
  ASSUME NEW t, NEW L, IsTree(t, L), NEW v \in 1..Len(t), NEW c \in Nat, Child(t, v, c)
  PROVE  /\ c \in 1..Len(t) /\ Label(L, v) \in Seq(Marks) /\ Label(L, c) \in Seq(Marks)
         /\ IsPrefix(Label(L, v), Label(L, c)) /\ Len(Label(L, v)) < Len(Label(L, c))
         /\ Len(Label(L, v)) \in Nat /\ Len(Label(L, c)) \in Nat
<1>1. c \in 1..Len(t) /\ Label(L, v) \in Seq(Marks)
  BY StaticLabel, ParamLabel DEF Child
<1>2. Label(L, c) \in Seq(Marks)
  BY <1>1, TreeIs
<1>3. IsPrefix(Label(L, v), Label(L, c))
  BY StaticLabel, ParamLabel DEF Child
<1>4. CASE StaticChild(t, v, c)
  <2>1. Len(Label(L, c)) = Len(Label(L, v)) + Len(Prefix(t, c)) /\ Len(Prefix(t, c)) \in Nat
        /\ Len(Prefix(t, c)) # 0 /\ Len(Label(L, v)) \in Nat
    BY <1>4, StaticLabel
  <2>2. Len(Label(L, v)) < Len(Label(L, c)) /\ Len(Label(L, c)) \in Nat
    BY <2>1
  <2> QED BY <1>1, <1>2, <1>3, <2>1, <2>2
<1>5. CASE ParamChild(t, v, c)
  BY <1>1, <1>2, <1>3, <1>5, ParamLabel
<1> QED BY <1>4, <1>5 DEF Child

\* The prefix of a path that goes on with a character is not the one with a parameter.
LEMMA SymbolAt ==
  ASSUME NEW S, NEW s \in Seq(S), NEW a \in Seq(S), NEW i \in 1..Len(a), IsPrefix(a, s)
  PROVE  i \in 1..Len(s) /\ s[i] = a[i]
<1>1. Len(a) <= Len(s) /\ \A k \in 1..Len(a) : a[k] = s[k]
  BY PrefixMeans
<1>2. Len(a) \in Nat /\ Len(s) \in Nat
  OBVIOUS
<1> QED BY <1>1, <1>2

\* Where siblings are disjoint at most one of them is on the way anywhere.
LEMMA SiblingsDiffer ==
  ASSUME NEW t, NEW L, IsTree(t, L), Disjoint(t), NEW w \in 1..Len(t),
         NEW c \in Nat, NEW d \in Nat, Child(t, w, c), Child(t, w, d),
         NEW S, Marks \subseteq S, NEW s \in Seq(S), IsPrefix(Label(L, c), s), IsPrefix(Label(L, d), s)
  PROVE  c = d
<1>1. /\ c \in 1..Len(t) /\ d \in 1..Len(t) /\ Label(L, w) \in Seq(Marks)
      /\ Label(L, c) \in Seq(Marks) /\ Label(L, d) \in Seq(Marks)
      /\ Len(Label(L, w)) < Len(Label(L, c)) /\ Len(Label(L, w)) < Len(Label(L, d))
      /\ Len(Label(L, w)) \in Nat /\ Len(Label(L, c)) \in Nat /\ Len(Label(L, d)) \in Nat
  <2>1. /\ c \in 1..Len(t) /\ Label(L, w) \in Seq(Marks) /\ Label(L, c) \in Seq(Marks)
        /\ Len(Label(L, w)) < Len(Label(L, c)) /\ Len(Label(L, w)) \in Nat /\ Len(Label(L, c)) \in Nat
    BY ChildLabel
  <2>2. /\ d \in 1..Len(t) /\ Label(L, d) \in Seq(Marks)
        /\ Len(Label(L, w)) < Len(Label(L, d)) /\ Len(Label(L, d)) \in Nat
    BY ChildLabel
  <2> QED BY <2>1, <2>2
<1>2. /\ Label(L, w) \in Seq(S) /\ Label(L, c) \in Seq(S) /\ Label(L, d) \in Seq(S)
  BY <1>1
<1> DEFINE i == Len(Label(L, w)) + 1
<1>3. Label(L, c)[i] = s[i] /\ Label(L, d)[i] = s[i]
  <2>1. i \in 1..Len(Label(L, c)) /\ i \in 1..Len(Label(L, d))
    BY <1>1
  <2> HIDE DEF i
  <2>2. Label(L, c)[i] = s[i]
    BY <1>2, <2>1, SymbolAt
  <2>3. Label(L, d)[i] = s[i]
    BY <1>2, <2>1, SymbolAt
  <2> QED BY <2>2, <2>3
<1>4. ASSUME StaticChild(t, w, c), ParamChild(t, w, d) PROVE FALSE
  <2>1. Label(L, c)[i] \in Chars
    BY <1>4, StaticLabel
  <2>2. Label(L, d)[i] = "param"
    BY <1>4, ParamLabel
  <2> QED BY <1>3, <2>1, <2>2, MarksAreNoChars
<1>5. ASSUME ParamChild(t, w, c), StaticChild(t, w, d) PROVE FALSE
  <2>1. Label(L, d)[i] \in Chars
    BY <1>5, StaticLabel
  <2>2. Label(L, c)[i] = "param"
    BY <1>5, ParamLabel
  <2> QED BY <1>3, <2>1, <2>2, MarksAreNoChars
<1>6. CASE ParamChild(t, w, c) /\ ParamChild(t, w, d)
  BY <1>6 DEF ParamChild
<1>7. CASE StaticChild(t, w, c) /\ StaticChild(t, w, d)
  <2> DEFINE p == Prefix(t, c)
             q == Prefix(t, d)
  <2>0. t \in Seq(NodeType)
    BY TreeIs
  <2>1. p \in Seq(Marks) /\ Label(L, c) = Label(L, w) \o p
    BY <1>7, StaticLabel
  <2>2. q \in Seq(Marks) /\ Label(L, d) = Label(L, w) \o q
    BY <1>7, StaticLabel
  <2>3. PICK j \in 1..Len(Statics(t, w)) : Statics(t, w)[j] = c
    BY <1>7 DEF StaticChild
  <2>4. PICK k \in 1..Len(Statics(t, w)) : Statics(t, w)[k] = d
    BY <1>7 DEF StaticChild
  <2>6. j # k => ~IsPrefix(p, q) /\ ~IsPrefix(q, p)
    BY <2>0, <2>3, <2>4, DisjointIs
  <2>7. CASE Len(Label(L, c)) <= Len(Label(L, d))
    <3>1. IsPrefix(Label(L, c), Label(L, d))
      BY <1>2, <2>7, PrefixesCompare
    <3> HIDE DEF p, q
    <3>2. IsPrefix(p, q)
      BY <1>1, <2>1, <2>2, <3>1, PrefixBehind
    <3> QED BY <2>3, <2>4, <2>6, <3>2
  <2>8. CASE Len(Label(L, d)) <= Len(Label(L, c))
    <3>1. IsPrefix(Label(L, d), Label(L, c))
      BY <1>2, <2>8, PrefixesCompare
    <3> HIDE DEF p, q
    <3>2. IsPrefix(q, p)
      BY <1>1, <2>1, <2>2, <3>1, PrefixBehind
    <3> QED BY <2>3, <2>4, <2>6, <3>2
  <2> QED BY <1>1, <2>7, <2>8
<1> QED BY <1>4, <1>5, <1>6, <1>7 DEF Child

\* A node other than the root has a parent, of a shorter label.
LEMMA ParentExists ==
  ASSUME NEW t, NEW L, IsTree(t, L), NEW c \in 1..Len(t), c # 1
  PROVE  \E v \in 1..Len(t) : Child(t, v, c)
<1>1. c \in 2..Len(t)
  BY TreeIs
<1> QED BY <1>1 DEF IsTree

\* In a tree of disjoint siblings, whose label starts that of another leads to it.
LEMMA Descent ==
  ASSUME NEW t, NEW L, IsTree(t, L), Disjoint(t), NEW v \in 1..Len(t), NEW u \in 1..Len(t),
         IsPrefix(Label(L, v), Label(L, u))
  PROVE  v = u \/ \E c \in 1..Len(t) : Child(t, v, c) /\ IsPrefix(Label(L, c), Label(L, u))
<1> DEFINE N == 1..Len(t)
           Leads(x, y) == x = y \/ \E c \in N : Child(t, x, c) /\ IsPrefix(Label(L, c), Label(L, y))
           Strays == {y \in N : \E x \in N : IsPrefix(Label(L, x), Label(L, y)) /\ ~Leads(x, y)}
           f == [y \in N |-> Len(Label(L, y))]
<1>0. /\ \A x \in N : Label(L, x) \in Seq(Marks) /\ Len(Label(L, x)) \in Nat
      /\ 1 \in N /\ Label(L, 1) = << >>
  BY TreeIs
<1>1. \A y \in N : f[y] = Len(Label(L, y)) /\ f[y] \in Nat
  BY <1>0
<1>2. \A x \in N, c \in N : Child(t, x, c) => IsPrefix(Label(L, x), Label(L, c))
                                              /\ Len(Label(L, x)) < Len(Label(L, c))
  <2>1. N \subseteq Nat
    BY TreeIs
  <2> SUFFICES ASSUME NEW x \in N, NEW c \in N, Child(t, x, c)
               PROVE  IsPrefix(Label(L, x), Label(L, c)) /\ Len(Label(L, x)) < Len(Label(L, c))
    OBVIOUS
  <2> QED BY <2>1, ChildLabel
<1>3. \A c \in N : c # 1 => \E x \in N : Child(t, x, c)
  BY ParentExists
<1>4. \A x \in N : IsPrefix(Label(L, x), Label(L, x))
  <2> SUFFICES ASSUME NEW x \in N PROVE IsPrefix(Label(L, x), Label(L, x))
    OBVIOUS
  <2>1. Label(L, x) \in Seq(Marks)
    BY <1>0
  <2> QED BY <2>1, IsPrefixIf
<1>5. \A x, y, z \in N : IsPrefix(Label(L, x), Label(L, y)) /\ IsPrefix(Label(L, y), Label(L, z))
                           => IsPrefix(Label(L, x), Label(L, z))
  BY <1>0, PrefixOfPrefix
<1>6. \A x, y, z \in N :
        (/\ IsPrefix(Label(L, x), Label(L, z)) /\ IsPrefix(Label(L, y), Label(L, z))
         /\ Len(Label(L, x)) <= Len(Label(L, y)))
          => IsPrefix(Label(L, x), Label(L, y))
  <2> SUFFICES ASSUME NEW x \in N, NEW y \in N, NEW z \in N,
                      IsPrefix(Label(L, x), Label(L, z)), IsPrefix(Label(L, y), Label(L, z)),
                      Len(Label(L, x)) <= Len(Label(L, y))
               PROVE  IsPrefix(Label(L, x), Label(L, y))
    OBVIOUS
  <2>1. /\ Label(L, x) \in Seq(Marks) /\ Label(L, y) \in Seq(Marks)
        /\ Label(L, z) \in Seq(Marks)
    BY <1>0
  <2> QED BY <2>1, PrefixesCompare
<1>7. \A x, y \in N : IsPrefix(Label(L, x), Label(L, y)) => Len(Label(L, x)) <= Len(Label(L, y))
  BY <1>0, PrefixMeans
<1>8. \A w, c, d, y \in N :
        Child(t, w, c) /\ Child(t, w, d) /\ IsPrefix(Label(L, c), Label(L, y))
          /\ IsPrefix(Label(L, d), Label(L, y)) => c = d
  <2> SUFFICES ASSUME NEW w \in N, NEW c \in N, NEW d \in N, NEW y \in N,
                      Child(t, w, c), Child(t, w, d),
                      IsPrefix(Label(L, c), Label(L, y)), IsPrefix(Label(L, d), Label(L, y))
               PROVE  c = d
    OBVIOUS
  <2>1. Label(L, y) \in Seq(Marks) /\ c \in Nat /\ d \in Nat /\ Marks \subseteq Marks
    BY <1>0, TreeIs
  <2> QED BY <2>1, SiblingsDiffer
<1>9. v \in N /\ u \in N
  OBVIOUS
<1> HIDE DEF N, f
<1> SUFFICES ASSUME Strays # {} PROVE FALSE
  BY <1>9 DEF N
<1>10. PICK y \in Strays : \A z \in Strays : f[y] <= f[z]
  <2>1. \A z \in Strays : f[z] \in Nat
    BY <1>1
  <2> HIDE DEF Strays
  <2> QED BY <2>1, Least
<1>11. PICK x0 \in N : IsPrefix(Label(L, x0), Label(L, y)) /\ ~Leads(x0, y)
  OBVIOUS
<1>12. y \in N
  OBVIOUS
<1>13. y # 1
  <2> SUFFICES ASSUME y = 1 PROVE FALSE
    OBVIOUS
  <2>1. Len(Label(L, y)) = 0
    BY <1>0
  <2>2. Len(Label(L, x0)) <= 0
    BY <1>7, <1>11, <1>12, <2>1
  <2>3. x0 # 1
    BY <1>11
  <2>4. PICK p \in N : Child(t, p, x0)
    BY <1>3, <2>3
  <2>5. Len(Label(L, p)) < Len(Label(L, x0)) /\ Len(Label(L, p)) \in Nat /\ Len(Label(L, x0)) \in Nat
    BY <1>0, <1>2, <2>4
  <2> QED BY <2>2, <2>5
<1>14. PICK p \in N : Child(t, p, y)
  BY <1>3, <1>12, <1>13
<1>15. Len(Label(L, p)) < Len(Label(L, y)) /\ IsPrefix(Label(L, p), Label(L, y))
  BY <1>2, <1>12, <1>14
<1>16. \A x \in N : IsPrefix(Label(L, x), Label(L, p)) => Leads(x, p)
  <2>1. p \notin Strays
    <3>1. f[p] < f[y] /\ f[p] \in Nat /\ f[y] \in Nat
      BY <1>1, <1>12, <1>15
    <3> HIDE DEF Strays
    <3> QED BY <1>10, <3>1
  <2> QED BY <2>1
<1>17. \A x \in N : IsPrefix(Label(L, x), Label(L, p)) => Leads(x, y)
  <2> SUFFICES ASSUME NEW x \in N, IsPrefix(Label(L, x), Label(L, p)) PROVE Leads(x, y)
    OBVIOUS
  <2>1. Leads(x, p)
    BY <1>16
  <2>2. CASE x = p
    BY <1>4, <1>12, <1>14, <2>2
  <2>3. CASE \E c \in N : Child(t, x, c) /\ IsPrefix(Label(L, c), Label(L, p))
    BY <1>5, <1>12, <1>15, <2>3
  <2> QED BY <2>1, <2>2, <2>3
<1> DEFINE Far == {x \in N : /\ IsPrefix(Label(L, x), Label(L, y)) /\ x # y
                             /\ ~(Len(Label(L, x)) <= Len(Label(L, p)))}
<1>18. x0 \in Far
  <2>1. x0 # y
    BY <1>11
  <2>2. ASSUME Len(Label(L, x0)) <= Len(Label(L, p)) PROVE FALSE
    <3>1. IsPrefix(Label(L, x0), Label(L, p))
      BY <1>6, <1>11, <1>12, <1>15, <2>2
    <3> QED BY <1>11, <1>17, <3>1
  <2> QED BY <1>11, <2>1, <2>2
<1>19. PICK x \in Far : \A z \in Far : f[x] <= f[z]
  <2>1. \A z \in Far : f[z] \in Nat
    BY <1>1
  <2> HIDE DEF Far
  <2> QED BY <1>18, <2>1, Least
<1>20. /\ x \in N /\ IsPrefix(Label(L, x), Label(L, y)) /\ x # y
       /\ ~(Len(Label(L, x)) <= Len(Label(L, p)))
  OBVIOUS
<1>21. x # 1
  BY <1>0, <1>20
<1>22. PICK w \in N : Child(t, w, x)
  BY <1>3, <1>20, <1>21
<1>23. Len(Label(L, w)) < Len(Label(L, x)) /\ IsPrefix(Label(L, w), Label(L, y))
  BY <1>2, <1>5, <1>12, <1>20, <1>22
<1>24. w # y
  BY <1>0, <1>7, <1>12, <1>20, <1>23
<1>25. w \notin Far
  <2>1. f[w] < f[x] /\ f[w] \in Nat /\ f[x] \in Nat
    BY <1>1, <1>20, <1>23
  <2> HIDE DEF Far
  <2> QED BY <1>19, <2>1
<1>26. Len(Label(L, w)) <= Len(Label(L, p))
  BY <1>23, <1>24, <1>25
<1>27. IsPrefix(Label(L, w), Label(L, p))
  BY <1>6, <1>12, <1>15, <1>23, <1>26
<1>28. CASE w = p
  BY <1>4, <1>8, <1>12, <1>14, <1>20, <1>22, <1>28
<1>29. CASE \E c \in N : Child(t, w, c) /\ IsPrefix(Label(L, c), Label(L, p))
  <2>1. PICK c \in N : Child(t, w, c) /\ IsPrefix(Label(L, c), Label(L, p))
    BY <1>29
  <2>2. IsPrefix(Label(L, c), Label(L, y))
    BY <1>5, <1>12, <1>15, <2>1
  <2>3. c = x
    BY <1>8, <1>12, <1>20, <1>22, <2>1, <2>2
  <2> QED BY <1>7, <1>20, <2>1, <2>3
<1> QED BY <1>16, <1>27, <1>28, <1>29

\* There no two nodes have the same label.
LEMMA LabelsDiffer ==
  ASSUME NEW t, NEW L, IsTree(t, L), Disjoint(t), NEW v \in 1..Len(t), NEW u \in 1..Len(t),
         Label(L, v) = Label(L, u)
  PROVE  v = u
<1>0. Label(L, v) \in Seq(Marks)
  BY TreeIs
<1>1. IsPrefix(Label(L, v), Label(L, u))
  BY <1>0, IsPrefixIf
<1>2. ASSUME NEW c \in 1..Len(t), Child(t, v, c), IsPrefix(Label(L, c), Label(L, u)) PROVE FALSE
  <2>1. c \in Nat
    BY TreeIs
  <2>2. Len(Label(L, v)) < Len(Label(L, c)) /\ Label(L, c) \in Seq(Marks)
        /\ Len(Label(L, v)) \in Nat /\ Len(Label(L, c)) \in Nat
    BY <1>2, <2>1, ChildLabel
  <2>3. Len(Label(L, c)) <= Len(Label(L, v))
    BY <1>0, <1>2, <2>2, PrefixMeans
  <2> QED BY <2>2, <2>3
<1> QED BY <1>1, <1>2, Descent
-----------------------------------------------------------------------------
(* What an insertion makes of a tree, field by field.                      *)

RoutesAt(t, v) == t[v].routes
WildcardAt(t, v) == t[v].wildcard

\* A tree with one node more, which has no routes: every other keeps its own.
Grows(t, t2) ==
  /\ t2 \in Seq(NodeType) /\ Len(t2) = Len(t) + 1
  /\ \A u \in 1..Len(t) : RoutesAt(t2, u) = RoutesAt(t, u)
                          /\ WildcardAt(t2, u) = WildcardAt(t, u)
  /\ RoutesAt(t2, Len(t2)) = {} /\ WildcardAt(t2, Len(t2)) = {}
  /\ Params(t2, Len(t2)) = << >>

\* A new parameter child of v, a new static one, and one between v and its j-th.
AddsParam(t, v, t2) ==
  /\ Grows(t, t2)
  /\ \A u \in 1..Len(t) : /\ Prefix(t2, u) = Prefix(t, u) /\ Statics(t2, u) = Statics(t, u)
                          /\ u # v => Params(t2, u) = Params(t, u)
  /\ Params(t2, v) = <<Len(t2)>>
  /\ Prefix(t2, Len(t2)) = << >> /\ Statics(t2, Len(t2)) = << >>

AddsStatic(t, v, text, t2) ==
  /\ Grows(t, t2)
  /\ \A u \in 1..Len(t) : /\ Prefix(t2, u) = Prefix(t, u) /\ Params(t2, u) = Params(t, u)
                          /\ u # v => Statics(t2, u) = Statics(t, u)
  /\ Statics(t2, v) = Append(Statics(t, v), Len(t2))
  /\ Prefix(t2, Len(t2)) = text /\ Statics(t2, Len(t2)) = << >>

Splits(t, v, j, text, t2) ==
  LET c == Statics(t, v)[j]
  IN /\ Grows(t, t2)
     /\ \A u \in 1..Len(t) : /\ u # c => Prefix(t2, u) = Prefix(t, u)
                             /\ Params(t2, u) = Params(t, u)
                             /\ u # v => Statics(t2, u) = Statics(t, u)
     /\ Prefix(t2, c) = Rest(Prefix(t, c), Len(text))
     /\ Statics(t2, v) = [Statics(t, v) EXCEPT ![j] = Len(t2)]
     /\ Prefix(t2, Len(t2)) = text /\ Statics(t2, Len(t2)) = <<c>>

\* A node with a field changed.
LEMMA FieldChanged ==
  ASSUME NEW x \in NodeType
  PROVE  /\ \A p \in Seq(Chars) : LET y == [x EXCEPT !.prefix = p] IN
              /\ y \in NodeType /\ y.prefix = p /\ y.routes = x.routes
              /\ y.statics = x.statics /\ y.params = x.params /\ y.wildcard = x.wildcard
         /\ \A p \in SUBSET Routes : LET y == [x EXCEPT !.routes = p] IN
              /\ y \in NodeType /\ y.prefix = x.prefix /\ y.routes = p
              /\ y.statics = x.statics /\ y.params = x.params /\ y.wildcard = x.wildcard
         /\ \A p \in Seq(Nat) : LET y == [x EXCEPT !.statics = p] IN
              /\ y \in NodeType /\ y.prefix = x.prefix /\ y.routes = x.routes
              /\ y.statics = p /\ y.params = x.params /\ y.wildcard = x.wildcard
         /\ \A p \in Seq(Nat) : LET y == [x EXCEPT !.params = p] IN
              /\ y \in NodeType /\ y.prefix = x.prefix /\ y.routes = x.routes
              /\ y.statics = x.statics /\ y.params = p /\ y.wildcard = x.wildcard
         /\ \A p \in SUBSET Routes : LET y == [x EXCEPT !.wildcard = p] IN
              /\ y \in NodeType /\ y.prefix = x.prefix /\ y.routes = x.routes
              /\ y.statics = x.statics /\ y.params = x.params /\ y.wildcard = p
BY DEF NodeType

\* A new node.
LEMMA NewNode ==
  ASSUME NEW p \in Seq(Chars)
  PROVE  /\ Node(p) \in NodeType /\ Node(p).prefix = p /\ Node(p).routes = {}
         /\ Node(p).statics = << >> /\ Node(p).params = << >> /\ Node(p).wildcard = {}
BY DEF Node, NodeType

\* A tree with a node changed, and with another one more.
LEMMA NodeChanged ==
  ASSUME NEW t \in Seq(NodeType), NEW v \in 1..Len(t), NEW x \in NodeType
  PROVE  /\ [t EXCEPT ![v] = x] \in Seq(NodeType) /\ Len([t EXCEPT ![v] = x]) = Len(t)
         /\ [t EXCEPT ![v] = x][v] = x
         /\ \A u \in 1..Len(t) : u # v => [t EXCEPT ![v] = x][u] = t[u]
OBVIOUS

\* A node more at the end.
LEMMA NodeAppended ==
  ASSUME NEW t \in Seq(NodeType), NEW y \in NodeType
  PROVE  /\ Append(t, y) \in Seq(NodeType) /\ Len(Append(t, y)) = Len(t) + 1
         /\ Append(t, y)[Len(t) + 1] = y
         /\ \A u \in 1..Len(t) : Append(t, y)[u] = t[u]
OBVIOUS

\* InsertParam adds a parameter child.
LEMMA ParamAdded ==
  ASSUME NEW t \in Seq(NodeType), NEW v \in 1..Len(t)
  PROVE  AddsParam(t, v, Append([t EXCEPT ![v].params = <<Len(t) + 1>>], Node(<< >>)))
<1> DEFINE n == Len(t) + 1
           x == [t[v] EXCEPT !.params = <<n>>]
           y == Node(<< >>)
           t1 == [t EXCEPT ![v] = x]
           t2 == Append(t1, y)
<1>1. t[v] \in NodeType /\ <<n>> \in Seq(Nat) /\ << >> \in Seq(Chars) /\ n \in Nat
  BY NodeIs
<1>2. /\ x \in NodeType /\ x.prefix = t[v].prefix /\ x.routes = t[v].routes
      /\ x.statics = t[v].statics /\ x.params = <<n>> /\ x.wildcard = t[v].wildcard
  BY <1>1, FieldChanged
<1>3. /\ y \in NodeType /\ y.prefix = << >> /\ y.routes = {}
      /\ y.statics = << >> /\ y.params = << >> /\ y.wildcard = {}
  BY <1>1, NewNode
<1>4. [t EXCEPT ![v].params = <<n>>] = t1
  OBVIOUS
<1> HIDE DEF x, y
<1>5. t1 \in Seq(NodeType) /\ Len(t1) = Len(t) /\ t1[v] = x
      /\ \A u \in 1..Len(t) : u # v => t1[u] = t[u]
  BY <1>2, NodeChanged
<1> HIDE DEF t1
<1>6. t2 \in Seq(NodeType) /\ Len(t2) = n /\ t2[n] = y /\ t2[v] = x
      /\ \A u \in 1..Len(t) : u # v => t2[u] = t[u]
  <2>1. t2 \in Seq(NodeType) /\ Len(t2) = Len(t1) + 1 /\ t2[Len(t1) + 1] = y
        /\ \A u \in 1..Len(t1) : t2[u] = t1[u]
    BY <1>3, <1>5, NodeAppended
  <2> QED BY <1>5, <2>1
<1> HIDE DEF t2, n
<1>7. Grows(t, t2)
  BY <1>2, <1>3, <1>6 DEF Grows, RoutesAt, WildcardAt, Params, n
<1>8. AddsParam(t, v, t2)
  BY <1>2, <1>3, <1>6, <1>7 DEF AddsParam, Prefix, Statics, Params
<1> QED BY <1>4, <1>8 DEF t2, t1, x, y, n

\* TryInsertStatic adds a static child where none fits.
LEMMA StaticAdded ==
  ASSUME NEW t \in Seq(NodeType), NEW v \in 1..Len(t), NEW text \in Seq(Chars)
  PROVE  AddsStatic(t, v, text,
                    Append([t EXCEPT ![v].statics = Append(@, Len(t) + 1)], Node(text)))
<1> DEFINE n == Len(t) + 1
           p == Append(t[v].statics, n)
           x == [t[v] EXCEPT !.statics = p]
           y == Node(text)
           t1 == [t EXCEPT ![v] = x]
           t2 == Append(t1, y)
<1>0. t[v].statics \in Seq(Nat)
  BY NodeIs DEF Statics
<1>1. t[v] \in NodeType /\ p \in Seq(Nat) /\ n \in Nat
  <2>1. \A s \in Seq(Nat) : Append(s, n) \in Seq(Nat)
    OBVIOUS
  <2> QED BY <1>0, <2>1, NodeIs
<1>4. [t EXCEPT ![v].statics = Append(@, Len(t) + 1)] = t1
  OBVIOUS
<1>41. p = Append(Statics(t, v), n)
  BY DEF Statics
<1> HIDE DEF p
<1>2. /\ x \in NodeType /\ x.prefix = t[v].prefix /\ x.routes = t[v].routes
      /\ x.statics = p /\ x.params = t[v].params /\ x.wildcard = t[v].wildcard
  BY <1>1, FieldChanged
<1>3. /\ y \in NodeType /\ y.prefix = text /\ y.routes = {}
      /\ y.statics = << >> /\ y.params = << >> /\ y.wildcard = {}
  BY <1>1, NewNode
<1> HIDE DEF x, y
<1>5. t1 \in Seq(NodeType) /\ Len(t1) = Len(t) /\ t1[v] = x
      /\ \A u \in 1..Len(t) : u # v => t1[u] = t[u]
  BY <1>2, NodeChanged
<1> HIDE DEF t1
<1>6. t2 \in Seq(NodeType) /\ Len(t2) = n /\ t2[n] = y /\ t2[v] = x
      /\ \A u \in 1..Len(t) : u # v => t2[u] = t[u]
  <2>1. t2 \in Seq(NodeType) /\ Len(t2) = Len(t1) + 1 /\ t2[Len(t1) + 1] = y
        /\ \A u \in 1..Len(t1) : t2[u] = t1[u]
    BY <1>3, <1>5, NodeAppended
  <2> QED BY <1>5, <2>1
<1> HIDE DEF t2, n
<1>7. Grows(t, t2)
  BY <1>2, <1>3, <1>6 DEF Grows, RoutesAt, WildcardAt, Params, n
<1>8. AddsStatic(t, v, text, t2)
  <2>1. Statics(t2, v) = p /\ Prefix(t2, n) = text /\ Statics(t2, n) = << >>
    BY <1>2, <1>3, <1>6 DEF Statics, Prefix
  <2>2. \A u \in 1..Len(t) : /\ Prefix(t2, u) = Prefix(t, u) /\ Params(t2, u) = Params(t, u)
                             /\ u # v => Statics(t2, u) = Statics(t, u)
    BY <1>2, <1>6 DEF Statics, Prefix, Params
  <2> QED BY <1>6, <1>7, <1>41, <2>1, <2>2 DEF AddsStatic
<1> QED BY <1>4, <1>8 DEF t2, t1, x, y, n, p

\* TryInsertStatic puts a node between two.
LEMMA NodeSplit ==
  ASSUME NEW t \in Seq(NodeType), NEW v \in 1..Len(t), NEW j \in 1..Len(Statics(t, v)),
         NEW text \in Seq(Chars), NEW s \in 1..Len(t), s = Statics(t, v)[j], s # v,
         Len(text) \in 0..Len(Prefix(t, s))
  PROVE  Splits(t, v, j, text,
                Append([t EXCEPT ![s].prefix = Rest(@, Len(text)),
                                 ![v].statics[j] = Len(t) + 1],
                       [Node(text) EXCEPT !.statics = <<s>>]))
<1> DEFINE n == Len(t) + 1
           p == Rest(t[s].prefix, Len(text))
           w == [t[s] EXCEPT !.prefix = p]
           q == [t[v].statics EXCEPT ![j] = n]
           x == [t[v] EXCEPT !.statics = q]
           y == [Node(text) EXCEPT !.statics = <<s>>]
           t0 == [t EXCEPT ![s] = w]
           t1 == [t0 EXCEPT ![v] = x]
           t2 == Append(t1, y)
<1>0. t[v].statics \in Seq(Nat) /\ t[s].prefix \in Seq(Chars) /\ j \in 1..Len(t[v].statics)
      /\ Len(text) \in 0..Len(t[s].prefix)
  BY NodeIs DEF Statics, Prefix
<1>1. t[v] \in NodeType /\ t[s] \in NodeType /\ n \in Nat /\ s \in Nat /\ <<s>> \in Seq(Nat)
  BY NodeIs, SMTT(40)
<1>2. p \in Seq(Chars)
  BY <1>0, RestIs
<1>3. q \in Seq(Nat)
  <2>1. \A z \in Seq(Nat) : \A i \in 1..Len(z) : [z EXCEPT ![i] = n] \in Seq(Nat)
    BY <1>1
  <2> QED BY <1>0, <2>1
<1>4. [t EXCEPT ![s].prefix = Rest(@, Len(text)), ![v].statics[j] = Len(t) + 1] = t1
  <2> DEFINE a == [t EXCEPT ![s].prefix = Rest(@, Len(text))]
  <2>1. a = t0
    OBVIOUS
  <2>2. [t EXCEPT ![s].prefix = Rest(@, Len(text)), ![v].statics[j] = n]
          = [a EXCEPT ![v].statics[j] = n]
    OBVIOUS
  <2>3. t0 \in Seq(NodeType) /\ t0[v] = t[v] /\ v \in 1..Len(t0)
    <3> HIDE DEF p
    <3>1. w \in NodeType
      BY <1>1, <1>2, FieldChanged
    <3> HIDE DEF w
    <3> QED BY <3>1, NodeChanged
  <2> HIDE DEF t0, a
  <2>4. [t0 EXCEPT ![v].statics[j] = n] = [t0 EXCEPT ![v] = [t0[v] EXCEPT !.statics[j] = n]]
    BY <2>3
  <2>5. [t[v] EXCEPT !.statics[j] = n] = x
    OBVIOUS
  <2> HIDE DEF x
  <2> QED BY <2>1, <2>2, <2>3, <2>4, <2>5
<1>41. q = [Statics(t, v) EXCEPT ![j] = n] /\ p = Rest(Prefix(t, s), Len(text))
  BY DEF Statics, Prefix
<1> HIDE DEF p, q
<1>5. /\ x \in NodeType /\ x.prefix = t[v].prefix /\ x.routes = t[v].routes
      /\ x.statics = q /\ x.params = t[v].params /\ x.wildcard = t[v].wildcard
  BY <1>1, <1>3, FieldChanged
<1>6. /\ w \in NodeType /\ w.prefix = p /\ w.routes = t[s].routes
      /\ w.statics = t[s].statics /\ w.params = t[s].params /\ w.wildcard = t[s].wildcard
  BY <1>1, <1>2, FieldChanged
<1>7. /\ y \in NodeType /\ y.prefix = text /\ y.routes = {}
      /\ y.statics = <<s>> /\ y.params = << >> /\ y.wildcard = {}
  <2> DEFINE z == Node(text)
  <2>1. /\ z \in NodeType /\ z.prefix = text /\ z.routes = {}
        /\ z.params = << >> /\ z.wildcard = {}
    BY NewNode
  <2> HIDE DEF z
  <2>2. LET b == [z EXCEPT !.statics = <<s>>] IN
          /\ b \in NodeType /\ b.prefix = z.prefix /\ b.routes = z.routes
          /\ b.statics = <<s>> /\ b.params = z.params /\ b.wildcard = z.wildcard
    BY <1>1, <2>1, FieldChanged
  <2> QED BY <2>1, <2>2 DEF z
<1> HIDE DEF x, y, w
<1>8. t0 \in Seq(NodeType) /\ Len(t0) = Len(t) /\ t0[s] = w
      /\ \A u \in 1..Len(t) : u # s => t0[u] = t[u]
  BY <1>6, NodeChanged
<1> HIDE DEF t0
<1>9. t1 \in Seq(NodeType) /\ Len(t1) = Len(t) /\ t1[v] = x
      /\ \A u \in 1..Len(t) : u # v => t1[u] = t0[u]
  <2>1. v \in 1..Len(t0)
    BY <1>8
  <2>2. /\ t1 \in Seq(NodeType) /\ Len(t1) = Len(t0) /\ t1[v] = x
        /\ \A u \in 1..Len(t0) : u # v => t1[u] = t0[u]
    BY <1>5, <1>8, <2>1, NodeChanged
  <2> QED BY <1>8, <2>2
<1> HIDE DEF t1
<1>10. t2 \in Seq(NodeType) /\ Len(t2) = n /\ t2[n] = y /\ t2[v] = x /\ t2[s] = w
       /\ \A u \in 1..Len(t) : u # v /\ u # s => t2[u] = t[u]
  <2>1. t2 \in Seq(NodeType) /\ Len(t2) = Len(t1) + 1 /\ t2[Len(t1) + 1] = y
        /\ \A u \in 1..Len(t1) : t2[u] = t1[u]
    BY <1>7, <1>9, NodeAppended
  <2> QED BY <1>8, <1>9, <2>1
<1> HIDE DEF t2, n
<1>11. Grows(t, t2)
  BY <1>5, <1>6, <1>7, <1>10 DEF Grows, RoutesAt, WildcardAt, Params, n
<1>12. Splits(t, v, j, text, t2)
  <2>1. Statics(t2, v) = q /\ Prefix(t2, n) = text /\ Statics(t2, n) = <<s>> /\ Prefix(t2, s) = p
    BY <1>5, <1>6, <1>7, <1>10 DEF Statics, Prefix
  <2>2. \A u \in 1..Len(t) : /\ u # s => Prefix(t2, u) = Prefix(t, u)
                             /\ Params(t2, u) = Params(t, u)
                             /\ u # v => Statics(t2, u) = Statics(t, u)
    BY <1>5, <1>6, <1>10 DEF Statics, Prefix, Params
  <2> QED BY <1>10, <1>11, <1>41, <2>1, <2>2 DEF Splits
<1> QED BY <1>4, <1>12 DEF t2, y, n

\* A route put among those of a node, or among those that end in a wildcard there.
AddsRoute(t, v, rs, ws, t2) ==
  /\ t2 \in Seq(NodeType) /\ Len(t2) = Len(t)
  /\ \A u \in 1..Len(t) : /\ Prefix(t2, u) = Prefix(t, u) /\ Statics(t2, u) = Statics(t, u)
                          /\ Params(t2, u) = Params(t, u)
                          /\ RoutesAt(t2, u) = RoutesAt(t, u) \cup (IF u = v THEN rs ELSE {})
                          /\ WildcardAt(t2, u) = WildcardAt(t, u) \cup (IF u = v THEN ws ELSE {})

\* TryInsertRoute puts a route at a node.
LEMMA RouteAdded ==
  ASSUME NEW t \in Seq(NodeType), NEW v \in 1..Len(t), NEW r \in Routes
  PROVE  AddsRoute(t, v, {r}, {}, [t EXCEPT ![v].routes = @ \cup {r}])
<1> DEFINE p == t[v].routes \cup {r}
           x == [t[v] EXCEPT !.routes = p]
           t1 == [t EXCEPT ![v] = x]
<1>1. t[v] \in NodeType /\ p \in SUBSET Routes
  BY NodeIs
<1>2. [t EXCEPT ![v].routes = @ \cup {r}] = t1
  OBVIOUS
<1> HIDE DEF p
<1>3. /\ x \in NodeType /\ x.prefix = t[v].prefix /\ x.routes = p
      /\ x.statics = t[v].statics /\ x.params = t[v].params /\ x.wildcard = t[v].wildcard
  BY <1>1, FieldChanged
<1> HIDE DEF x
<1>4. t1 \in Seq(NodeType) /\ Len(t1) = Len(t) /\ t1[v] = x
      /\ \A u \in 1..Len(t) : u # v => t1[u] = t[u]
  BY <1>3, NodeChanged
<1> HIDE DEF t1
<1>5. AddsRoute(t, v, {r}, {}, t1)
  BY <1>3, <1>4 DEF AddsRoute, RoutesAt, WildcardAt, Prefix, Statics, Params, p
<1> QED BY <1>2, <1>5 DEF t1, x, p

\* And one that ends in a wildcard.
LEMMA WildcardAdded ==
  ASSUME NEW t \in Seq(NodeType), NEW v \in 1..Len(t), NEW r \in Routes
  PROVE  AddsRoute(t, v, {}, {r}, [t EXCEPT ![v].wildcard = @ \cup {r}])
<1> DEFINE p == t[v].wildcard \cup {r}
           x == [t[v] EXCEPT !.wildcard = p]
           t1 == [t EXCEPT ![v] = x]
<1>1. t[v] \in NodeType /\ p \in SUBSET Routes
  BY NodeIs
<1>2. [t EXCEPT ![v].wildcard = @ \cup {r}] = t1
  OBVIOUS
<1> HIDE DEF p
<1>3. /\ x \in NodeType /\ x.prefix = t[v].prefix /\ x.routes = t[v].routes
      /\ x.statics = t[v].statics /\ x.params = t[v].params /\ x.wildcard = p
  BY <1>1, FieldChanged
<1> HIDE DEF x
<1>4. t1 \in Seq(NodeType) /\ Len(t1) = Len(t) /\ t1[v] = x
      /\ \A u \in 1..Len(t) : u # v => t1[u] = t[u]
  BY <1>3, NodeChanged
<1> HIDE DEF t1
<1>5. AddsRoute(t, v, {}, {r}, t1)
  BY <1>3, <1>4 DEF AddsRoute, RoutesAt, WildcardAt, Prefix, Statics, Params, p
<1> QED BY <1>2, <1>5 DEF t1, x, p
-----------------------------------------------------------------------------
(* What each change leaves of the tree.                                    *)

\* The labels of a tree with one node more.
Extended(L, n, s) == [u \in 1..n |-> IF u = n THEN s ELSE L[u]]

\* The label of the new node is there, and the others are what they were.
LEMMA ExtendedIs ==
  ASSUME NEW n \in Nat, NEW L \in [1..n -> Seq(Marks)], NEW s \in Seq(Marks)
  PROVE  /\ Extended(L, n + 1, s) \in [1..(n + 1) -> Seq(Marks)]
         /\ Label(Extended(L, n + 1, s), n + 1) = s
         /\ \A u \in 1..n : Label(Extended(L, n + 1, s), u) = Label(L, u)
BY DEF Extended, Label

\* Every node of the tree that has grown is the new one or one it had.
LEMMA GrownNodes ==
  ASSUME NEW t, NEW L, IsTree(t, L), NEW t2, Grows(t, t2), NEW s \in Seq(Marks)
  PROVE  LET n == Len(t2)
             L2 == Extended(L, n, s)
         IN /\ n = Len(t) + 1 /\ n \in Nat /\ n \notin 1..Len(t) /\ n \in 1..n /\ n # 1
            /\ 1 \in 1..Len(t) /\ \A u \in 1..n : u = n \/ u \in 1..Len(t)
            /\ \A u \in 1..Len(t) : u \in 1..n /\ u # n /\ u \in Nat
            /\ t2 \in Seq(NodeType) /\ t2 # << >> /\ L2 \in [1..n -> Seq(Marks)]
            /\ Label(L2, n) = s /\ \A u \in 1..Len(t) : Label(L2, u) = Label(L, u)
<1>1. t \in Seq(NodeType) /\ Len(t) \in Nat /\ L \in [1..Len(t) -> Seq(Marks)] /\ 1 \in 1..Len(t)
  BY TreeIs
<1>2. t2 \in Seq(NodeType) /\ Len(t2) = Len(t) + 1
  BY DEF Grows
<1>3. /\ Extended(L, Len(t) + 1, s) \in [1..(Len(t) + 1) -> Seq(Marks)]
      /\ Label(Extended(L, Len(t) + 1, s), Len(t) + 1) = s
      /\ \A u \in 1..Len(t) : Label(Extended(L, Len(t) + 1, s), u) = Label(L, u)
  BY <1>1, ExtendedIs
<1>4. t2 # << >>
  BY <1>1, <1>2
<1> QED BY <1>1, <1>2, <1>3, <1>4

\* A parameter child more.
LEMMA ParamTree ==
  ASSUME NEW t, NEW L, IsTree(t, L), NEW v \in 1..Len(t), Params(t, v) = << >>,
         NEW t2, AddsParam(t, v, t2)
  PROVE  IsTree(t2, Extended(L, Len(t2), Label(L, v) \o <<"param">>))
<1> DEFINE n == Len(t2)
           s == Label(L, v) \o <<"param">>
           L2 == Extended(L, n, s)
           N == 1..Len(t)
<1>0. s \in Seq(Marks)
  <2>1. <<"param">> \in Seq(Marks)
    BY DEF Marks
  <2>2. Label(L, v) \in Seq(Marks)
    BY TreeIs
  <2> QED BY <2>1, <2>2, ConcatIs
<1>1. Grows(t, t2)
  BY DEF AddsParam
<1>2. /\ n = Len(t) + 1 /\ n \in Nat /\ n \notin N /\ n \in 1..n /\ n # 1
      /\ 1 \in N /\ \A u \in 1..n : u = n \/ u \in N
      /\ \A u \in N : u \in 1..n /\ u # n /\ u \in Nat
      /\ t2 \in Seq(NodeType) /\ t2 # << >> /\ L2 \in [1..n -> Seq(Marks)]
      /\ Label(L2, n) = s /\ \A u \in N : Label(L2, u) = Label(L, u)
  <2> HIDE DEF s
  <2> QED BY <1>0, <1>1, GrownNodes
<1>3. /\ \A u \in N : /\ Prefix(t2, u) = Prefix(t, u) /\ Statics(t2, u) = Statics(t, u)
                      /\ u # v => Params(t2, u) = Params(t, u)
      /\ Params(t2, v) = <<n>> /\ Params(t2, n) = << >> /\ Statics(t2, n) = << >>
  BY <1>1 DEF AddsParam, Grows
<1>31. /\ \A u \in N, c \in Nat : StaticChild(t, u, c) =>
            c \in N /\ Prefix(t, c) # << >> /\ Label(L, c) = Label(L, u) \o Prefix(t, c)
       /\ \A u \in N, c \in Nat : ParamChild(t, u, c) =>
            c \in N /\ Label(L, c) = Label(L, u) \o <<"param">>
       /\ \A c \in 2..Len(t) : \E u \in N : Child(t, u, c)
       /\ \A u, w \in N :
            \A j \in 1..Len(Statics(t, u)), k \in 1..Len(Statics(t, w)) :
              Statics(t, u)[j] = Statics(t, w)[k] => u = w /\ j = k
       /\ Label(L, 1) = << >>
  BY DEF IsTree
<1> HIDE DEF n, N, L2, s
<1>4. \A c : ~StaticChild(t2, n, c) /\ ~ParamChild(t2, n, c)
  BY <1>3 DEF StaticChild, ParamChild
<1>5. \A u \in N, c \in Nat : StaticChild(t2, u, c) <=> StaticChild(t, u, c)
  BY <1>3, Zenon DEF StaticChild
<1>6. \A u \in N, c \in Nat : u # v => (ParamChild(t2, u, c) <=> ParamChild(t, u, c))
  BY <1>3, Zenon DEF ParamChild
<1>7. \A c : ParamChild(t2, v, c) <=> c = n
  <2>1. \A p : p = <<n>> => p # << >> /\ p[1] = n
    OBVIOUS
  <2> QED BY <1>3, <2>1, Zenon DEF ParamChild
<1>8. \A c : ~ParamChild(t, v, c)
  BY DEF ParamChild
<1>9. v \in N
  BY DEF N
<1>10. \A u \in 1..n, c \in Nat : StaticChild(t2, u, c) =>
         c \in 1..n /\ Prefix(t2, c) # << >> /\ Label(L2, c) = Label(L2, u) \o Prefix(t2, c)
  <2> SUFFICES ASSUME NEW u \in 1..n, NEW c \in Nat, StaticChild(t2, u, c)
               PROVE  c \in 1..n /\ Prefix(t2, c) # << >>
                      /\ Label(L2, c) = Label(L2, u) \o Prefix(t2, c)
    OBVIOUS
  <2>1. u \in N /\ StaticChild(t, u, c)
    BY <1>2, <1>4, <1>5
  <2>2. c \in N /\ Prefix(t, c) # << >> /\ Label(L, c) = Label(L, u) \o Prefix(t, c)
    BY <1>31, <2>1
  <2> QED BY <1>2, <1>3, <2>1, <2>2
<1>11. \A u \in 1..n, c \in Nat : ParamChild(t2, u, c) =>
         c \in 1..n /\ Label(L2, c) = Label(L2, u) \o <<"param">>
  <2> SUFFICES ASSUME NEW u \in 1..n, NEW c \in Nat, ParamChild(t2, u, c)
               PROVE  c \in 1..n /\ Label(L2, c) = Label(L2, u) \o <<"param">>
    OBVIOUS
  <2>1. u \in N
    BY <1>2, <1>4
  <2>2. CASE u = v
    BY <1>2, <1>7, <1>9, <2>2 DEF s
  <2>3. CASE u # v
    <3>1. c \in N /\ Label(L, c) = Label(L, u) \o <<"param">>
      BY <1>6, <1>31, <2>1, <2>3
    <3> QED BY <1>2, <2>1, <3>1
  <2> QED BY <2>2, <2>3
<1>12. \A c \in 2..n : \E u \in 1..n : Child(t2, u, c)
  <2> SUFFICES ASSUME NEW c \in 2..n PROVE \E u \in 1..n : Child(t2, u, c)
    OBVIOUS
  <2>1. CASE c = n
    BY <1>2, <1>7, <1>9, <2>1 DEF Child
  <2>2. CASE c # n
    <3>1. c \in 2..Len(t) /\ c \in Nat
      BY <1>2, <2>2
    <3>2. PICK u \in N : Child(t, u, c)
      BY <1>31, <3>1
    <3>3. Child(t2, u, c)
      BY <1>5, <1>6, <1>8, <3>1, <3>2, Zenon DEF Child
    <3> QED BY <1>2, <3>2, <3>3
  <2> QED BY <2>1, <2>2
<1>13. \A u, w \in 1..n :
         \A j \in 1..Len(Statics(t2, u)), k \in 1..Len(Statics(t2, w)) :
           Statics(t2, u)[j] = Statics(t2, w)[k] => u = w /\ j = k
  <2> SUFFICES ASSUME NEW u \in 1..n, NEW w \in 1..n, NEW j \in 1..Len(Statics(t2, u)),
                      NEW k \in 1..Len(Statics(t2, w)), Statics(t2, u)[j] = Statics(t2, w)[k]
               PROVE  u = w /\ j = k
    OBVIOUS
  <2>1. \A x \in 1..Len(Statics(t2, n)) : FALSE
    BY <1>3
  <2>2. u \in N /\ w \in N
    BY <1>2, <2>1
  <2>3. Statics(t2, u) = Statics(t, u) /\ Statics(t2, w) = Statics(t, w)
    BY <1>3, <2>2
  <2>4. j \in 1..Len(Statics(t, u)) /\ k \in 1..Len(Statics(t, w))
        /\ Statics(t, u)[j] = Statics(t, w)[k]
    BY <2>3
  <2> QED BY <1>31, <2>2, <2>4
<1>14. Label(L2, 1) = << >>
  BY <1>2, <1>31
<1>15. IsTree(t2, L2)
  BY <1>2, <1>10, <1>11, <1>12, <1>13, <1>14 DEF IsTree, n
<1> QED BY <1>15 DEF L2, n, s

\* A static child more.
LEMMA StaticTree ==
  ASSUME NEW t, NEW L, IsTree(t, L), NEW v \in 1..Len(t),
         NEW text \in Seq(Chars), text # << >>, NEW t2, AddsStatic(t, v, text, t2)
  PROVE  IsTree(t2, Extended(L, Len(t2), Label(L, v) \o text))
<1> DEFINE n == Len(t2)
           s == Label(L, v) \o text
           L2 == Extended(L, n, s)
           N == 1..Len(t)
           old == Statics(t, v)
<1>0. s \in Seq(Marks)
  <2>1. text \in Seq(Marks)
    BY DEF Marks
  <2>2. Label(L, v) \in Seq(Marks)
    BY TreeIs
  <2> QED BY <2>1, <2>2, ConcatIs
<1>1. Grows(t, t2)
  BY DEF AddsStatic
<1>2. /\ n = Len(t) + 1 /\ n \in Nat /\ n \notin N /\ n \in 1..n /\ n # 1
      /\ 1 \in N /\ \A u \in 1..n : u = n \/ u \in N
      /\ \A u \in N : u \in 1..n /\ u # n /\ u \in Nat
      /\ t2 \in Seq(NodeType) /\ t2 # << >> /\ L2 \in [1..n -> Seq(Marks)]
      /\ Label(L2, n) = s /\ \A u \in N : Label(L2, u) = Label(L, u)
  <2> HIDE DEF s
  <2> QED BY <1>0, <1>1, GrownNodes
<1>3. /\ \A u \in N : /\ Prefix(t2, u) = Prefix(t, u) /\ Params(t2, u) = Params(t, u)
                      /\ u # v => Statics(t2, u) = Statics(t, u)
      /\ Statics(t2, v) = Append(old, n)
      /\ Params(t2, n) = << >> /\ Statics(t2, n) = << >> /\ Prefix(t2, n) = text
  BY <1>1 DEF AddsStatic, Grows
<1>31. /\ \A u \in N, c \in Nat : StaticChild(t, u, c) =>
            c \in N /\ Prefix(t, c) # << >> /\ Label(L, c) = Label(L, u) \o Prefix(t, c)
       /\ \A u \in N, c \in Nat : ParamChild(t, u, c) =>
            c \in N /\ Label(L, c) = Label(L, u) \o <<"param">>
       /\ \A c \in 2..Len(t) : \E u \in N : Child(t, u, c)
       /\ \A u, w \in N :
            \A j \in 1..Len(Statics(t, u)), k \in 1..Len(Statics(t, w)) :
              Statics(t, u)[j] = Statics(t, w)[k] => u = w /\ j = k
       /\ Label(L, 1) = << >>
  BY DEF IsTree
<1>32. old \in Seq(Nat) /\ v \in N /\ \A u \in N : Statics(t, u) \in Seq(Nat)
  BY TreeIs, NodeIs
<1>33. \A u \in N : \A j \in 1..Len(Statics(t, u)) : Statics(t, u)[j] # n
  <2> SUFFICES ASSUME NEW u \in N, NEW j \in 1..Len(Statics(t, u)), Statics(t, u)[j] = n
               PROVE  FALSE
    OBVIOUS
  <2>1. StaticChild(t, u, n) /\ n \in Nat
    BY <1>2 DEF StaticChild
  <2> QED BY <1>2, <1>31, <2>1
<1> HIDE DEF n, N, L2, s
<1>34. /\ Append(old, n) \in Seq(Nat) /\ Len(Append(old, n)) = Len(old) + 1
       /\ Append(old, n)[Len(old) + 1] = n
       /\ \A j \in 1..Len(old) : Append(old, n)[j] = old[j] /\ j \in 1..(Len(old) + 1)
       /\ Len(old) + 1 \in 1..(Len(old) + 1)
       /\ \A j \in 1..(Len(old) + 1) : j = Len(old) + 1 \/ j \in 1..Len(old)
  <2>1. old \in Seq(Nat) /\ n \in Nat
    BY <1>2, <1>32
  <2> HIDE DEF old
  <2> QED BY <2>1
<1>4. \A c : ~StaticChild(t2, n, c) /\ ~ParamChild(t2, n, c)
  BY <1>3 DEF StaticChild, ParamChild
<1>5. \A u \in N, c \in Nat : u # v => (StaticChild(t2, u, c) <=> StaticChild(t, u, c))
  BY <1>3, Zenon DEF StaticChild
<1>6. \A u \in N, c \in Nat : ParamChild(t2, u, c) <=> ParamChild(t, u, c)
  BY <1>3, Zenon DEF ParamChild
<1>7. \A c : StaticChild(t2, v, c) <=> c = n \/ StaticChild(t, v, c)
  <2>1. \A c : StaticChild(t, v, c) <=> \E j \in 1..Len(old) : old[j] = c
    BY DEF StaticChild
  <2> DEFINE p == Append(old, n)
  <2>2. \A c : StaticChild(t2, v, c) <=> \E j \in 1..(Len(old) + 1) : p[j] = c
    BY <1>3, <1>34, Zenon DEF StaticChild
  <2> HIDE DEF old, p
  <2> QED BY <1>34, <2>1, <2>2, Zenon DEF p
<1> HIDE DEF old
<1>10. \A u \in 1..n, c \in Nat : StaticChild(t2, u, c) =>
         c \in 1..n /\ Prefix(t2, c) # << >> /\ Label(L2, c) = Label(L2, u) \o Prefix(t2, c)
  <2> SUFFICES ASSUME NEW u \in 1..n, NEW c \in Nat, StaticChild(t2, u, c)
               PROVE  c \in 1..n /\ Prefix(t2, c) # << >>
                      /\ Label(L2, c) = Label(L2, u) \o Prefix(t2, c)
    OBVIOUS
  <2>1. u \in N
    BY <1>2, <1>4
  <2>2. CASE u = v /\ c = n
    BY <1>2, <1>3, <1>32, <2>2 DEF s
  <2>3. CASE StaticChild(t, u, c)
    <3>1. c \in N /\ Prefix(t, c) # << >> /\ Label(L, c) = Label(L, u) \o Prefix(t, c)
      BY <1>31, <2>1, <2>3
    <3> QED BY <1>2, <1>3, <2>1, <3>1
  <2> QED BY <1>5, <1>7, <2>1, <2>2, <2>3
<1>11. \A u \in 1..n, c \in Nat : ParamChild(t2, u, c) =>
         c \in 1..n /\ Label(L2, c) = Label(L2, u) \o <<"param">>
  <2> SUFFICES ASSUME NEW u \in 1..n, NEW c \in Nat, ParamChild(t2, u, c)
               PROVE  c \in 1..n /\ Label(L2, c) = Label(L2, u) \o <<"param">>
    OBVIOUS
  <2>1. u \in N
    BY <1>2, <1>4
  <2>2. c \in N /\ Label(L, c) = Label(L, u) \o <<"param">>
    BY <1>6, <1>31, <2>1
  <2> QED BY <1>2, <2>1, <2>2
<1>12. \A c \in 2..n : \E u \in 1..n : Child(t2, u, c)
  <2> SUFFICES ASSUME NEW c \in 2..n PROVE \E u \in 1..n : Child(t2, u, c)
    OBVIOUS
  <2>1. CASE c = n
    BY <1>2, <1>7, <1>32, <2>1 DEF Child
  <2>2. CASE c # n
    <3>1. c \in 2..Len(t) /\ c \in Nat
      BY <1>2, <2>2
    <3>2. PICK u \in N : Child(t, u, c)
      BY <1>31, <3>1
    <3>3. Child(t2, u, c)
      BY <1>5, <1>6, <1>7, <3>1, <3>2, Zenon DEF Child
    <3> QED BY <1>2, <3>2, <3>3
  <2> QED BY <2>1, <2>2
<1>13. \A u, w \in 1..n :
         \A j \in 1..Len(Statics(t2, u)), k \in 1..Len(Statics(t2, w)) :
           Statics(t2, u)[j] = Statics(t2, w)[k] => u = w /\ j = k
  <2>0. \A u \in 1..n : \A j \in 1..Len(Statics(t2, u)) :
          /\ u \in N
          /\ \/ u = v /\ j = Len(old) + 1 /\ Statics(t2, u)[j] = n
             \/ j \in 1..Len(Statics(t, u)) /\ Statics(t2, u)[j] = Statics(t, u)[j]
    <3> SUFFICES ASSUME NEW u \in 1..n, NEW j \in 1..Len(Statics(t2, u))
                 PROVE  /\ u \in N
                        /\ \/ u = v /\ j = Len(old) + 1 /\ Statics(t2, u)[j] = n
                           \/ j \in 1..Len(Statics(t, u)) /\ Statics(t2, u)[j] = Statics(t, u)[j]
      OBVIOUS
    <3>1. u \in N
      <4>1. \A x \in 1..Len(Statics(t2, n)) : FALSE
        BY <1>3
      <4> QED BY <1>2, <4>1
    <3>2. CASE u # v
      BY <1>3, <3>1, <3>2
    <3>3. CASE u = v
      <4>1. Statics(t2, u) = Append(old, n) /\ Statics(t, u) = old
        BY <1>3, <3>3 DEF old
      <4> QED BY <1>34, <3>1, <3>3, <4>1
    <3> QED BY <3>2, <3>3
  <2> SUFFICES ASSUME NEW u \in 1..n, NEW w \in 1..n, NEW j \in 1..Len(Statics(t2, u)),
                      NEW k \in 1..Len(Statics(t2, w)), Statics(t2, u)[j] = Statics(t2, w)[k]
               PROVE  u = w /\ j = k
    OBVIOUS
  <2>1. CASE Statics(t2, u)[j] = n
    BY <1>33, <2>0, <2>1
  <2>2. CASE Statics(t2, u)[j] # n
    <3>1. /\ u \in N /\ w \in N
          /\ j \in 1..Len(Statics(t, u)) /\ Statics(t2, u)[j] = Statics(t, u)[j]
          /\ k \in 1..Len(Statics(t, w)) /\ Statics(t2, w)[k] = Statics(t, w)[k]
      BY <2>0, <2>2
    <3>2. Statics(t, u)[j] = Statics(t, w)[k]
      BY <3>1
    <3>3. Statics(t, u)[j] = Statics(t, w)[k] => u = w /\ j = k
      BY <1>31, <3>1, Zenon
    <3> QED BY <3>2, <3>3
  <2> QED BY <2>1, <2>2
<1>14. Label(L2, 1) = << >>
  BY <1>2, <1>31
<1>15. IsTree(t2, L2)
  BY <1>2, <1>10, <1>11, <1>12, <1>13, <1>14 DEF IsTree, n
<1> QED BY <1>15 DEF L2, n, s

\* Labels put together, whichever are joined first.
LEMMA MarksRegroup == \A a, b, c \in Seq(Marks) : (a \o b) \o c = a \o (b \o c)
BY Regroup

\* A node more between two.
LEMMA SplitTree ==
  ASSUME NEW t, NEW L, IsTree(t, L), NEW v \in 1..Len(t), NEW j \in 1..Len(Statics(t, v)),
         NEW text \in Seq(Chars), text # << >>, NEW c \in Nat, c = Statics(t, v)[j],
         IsPrefix(text, Prefix(t, c)), text # Prefix(t, c),
         NEW t2, Splits(t, v, j, text, t2)
  PROVE  IsTree(t2, Extended(L, Len(t2), Label(L, v) \o text))
<1> DEFINE n == Len(t2)
           s == Label(L, v) \o text
           L2 == Extended(L, n, s)
           N == 1..Len(t)
           old == Statics(t, v)
           new == [old EXCEPT ![j] = n]
           rest == Rest(Prefix(t, c), Len(text))
<1>0. s \in Seq(Marks) /\ text \in Seq(Marks) /\ Label(L, v) \in Seq(Marks)
  <2>1. text \in Seq(Marks)
    BY DEF Marks
  <2>2. Label(L, v) \in Seq(Marks)
    BY TreeIs
  <2> QED BY <2>1, <2>2, ConcatIs
<1>1. Grows(t, t2)
  BY DEF Splits
<1>2. /\ n = Len(t) + 1 /\ n \in Nat /\ n \notin N /\ n \in 1..n /\ n # 1
      /\ 1 \in N /\ \A u \in 1..n : u = n \/ u \in N
      /\ \A u \in N : u \in 1..n /\ u # n /\ u \in Nat
      /\ t2 \in Seq(NodeType) /\ t2 # << >> /\ L2 \in [1..n -> Seq(Marks)]
      /\ Label(L2, n) = s /\ \A u \in N : Label(L2, u) = Label(L, u)
  <2> HIDE DEF s
  <2> QED BY <1>0, <1>1, GrownNodes
<1>3. /\ \A u \in N : /\ u # c => Prefix(t2, u) = Prefix(t, u)
                      /\ Params(t2, u) = Params(t, u)
                      /\ u # v => Statics(t2, u) = Statics(t, u)
      /\ Prefix(t2, c) = rest /\ Statics(t2, v) = new
      /\ Params(t2, n) = << >> /\ Statics(t2, n) = <<c>> /\ Prefix(t2, n) = text
  BY <1>1 DEF Splits, Grows
<1>31. /\ \A u \in N, d \in Nat : StaticChild(t, u, d) =>
            d \in N /\ Prefix(t, d) # << >> /\ Label(L, d) = Label(L, u) \o Prefix(t, d)
       /\ \A u \in N, d \in Nat : ParamChild(t, u, d) =>
            d \in N /\ Label(L, d) = Label(L, u) \o <<"param">>
       /\ \A d \in 2..Len(t) : \E u \in N : Child(t, u, d)
       /\ Label(L, 1) = << >>
  BY DEF IsTree
<1>30. \A u, w \in N :
         \A i \in 1..Len(Statics(t, u)), k \in 1..Len(Statics(t, w)) :
           Statics(t, u)[i] = Statics(t, w)[k] => u = w /\ i = k
  BY DEF IsTree
<1>32. old \in Seq(Nat) /\ v \in N /\ j \in 1..Len(old) /\ c = old[j]
  BY TreeIs, NodeIs
<1>33. \A u \in N : \A i \in 1..Len(Statics(t, u)) : Statics(t, u)[i] # n
  <2> SUFFICES ASSUME NEW u \in N, NEW i \in 1..Len(Statics(t, u)), Statics(t, u)[i] = n
               PROVE  FALSE
    OBVIOUS
  <2>1. StaticChild(t, u, n) /\ n \in Nat
    BY <1>2 DEF StaticChild
  <2> QED BY <1>2, <1>31, <2>1
<1>34. /\ new \in Seq(Nat) /\ Len(new) = Len(old) /\ new[j] = n
       /\ \A i \in 1..Len(old) : i # j => new[i] = old[i]
  <2>1. old \in Seq(Nat) /\ n \in Nat
    BY <1>2, <1>32
  <2> HIDE DEF old, n
  <2> QED BY <1>32, <2>1
<1>35. StaticChild(t, v, c) /\ c \in N /\ Label(L, c) = Label(L, v) \o Prefix(t, c)
  <2>1. StaticChild(t, v, c)
    BY <1>32 DEF StaticChild
  <2> QED BY <1>31, <1>32, <2>1
<1>36. rest # << >> /\ Label(L, c) = s \o rest
  <2> DEFINE p == Prefix(t, c)
             q == Rest(p, Len(text))
             l == Label(L, v)
  <2>1. p \in Seq(Marks)
    BY <1>35, TreeIs, NodeIs
  <2> HIDE DEF p
  <2>2. Len(text) \in 0..Len(p) /\ text \o q = p /\ Len(q) = Len(p) - Len(text)
    <3>1. IsPrefix(text, p)
      BY DEF p
    <3> QED BY <1>0, <2>1, <3>1, RestJoins
  <2>3. q \in Seq(Marks)
    BY <2>1, <2>2, RestIs
  <2> HIDE DEF q, l
  <2>31. l \in Seq(Marks) /\ text \in Seq(Marks)
    BY <1>0 DEF l
  <2>4. (l \o text) \o q = l \o (text \o q)
    BY <2>3, <2>31, MarksRegroup, Zenon
  <2>5. q # << >>
    <3>1. text \o << >> = text
      OBVIOUS
    <3>2. text # p
      BY DEF p
    <3> QED BY <2>2, <3>1, <3>2
  <2> QED BY <1>35, <2>2, <2>4, <2>5 DEF l, q, p
<1> HIDE DEF n, N, L2, s, rest, new
<1>4. \A d : /\ StaticChild(t2, n, d) <=> d = c
             /\ ~ParamChild(t2, n, d)
  <2>1. Statics(t2, n) = <<c>> /\ Params(t2, n) = << >>
    BY <1>3
  <2>2. \A p : p = <<c>> => \A d : (\E i \in 1..Len(p) : p[i] = d) <=> d = c
    OBVIOUS
  <2> QED BY <2>1, <2>2, Zenon DEF StaticChild, ParamChild
<1>5. \A u \in N, d \in Nat : u # v => (StaticChild(t2, u, d) <=> StaticChild(t, u, d))
  BY <1>3, Zenon DEF StaticChild
<1>51. \A u \in N, d \in Nat : u # v /\ StaticChild(t, u, d) => d # c
  <2> SUFFICES ASSUME NEW u \in N, u # v, StaticChild(t, u, c) PROVE FALSE
    OBVIOUS
  <2>1. PICK i \in 1..Len(Statics(t, u)) : Statics(t, u)[i] = c
    BY DEF StaticChild
  <2>2. Statics(t, u)[i] = Statics(t, v)[j] => u = v /\ i = j
    BY <1>30, <1>32, Zenon
  <2> QED BY <2>1, <2>2
<1>6. \A u \in N, d \in Nat : ParamChild(t2, u, d) <=> ParamChild(t, u, d)
  BY <1>3, Zenon DEF ParamChild
<1>7. \A d \in Nat : StaticChild(t2, v, d) <=> d = n \/ (StaticChild(t, v, d) /\ d # c)
  <2>0. \A i, k \in 1..Len(old) : old[i] = old[k] => i = k
    BY <1>30, <1>32, Zenon
  <2>1. \A d : StaticChild(t, v, d) <=> \E i \in 1..Len(old) : old[i] = d
    BY DEF StaticChild
  <2>2. \A d : StaticChild(t2, v, d) <=> \E i \in 1..Len(new) : new[i] = d
    BY <1>3, Zenon DEF StaticChild
  <2>3. \A i \in 1..Len(old) : old[i] # n
    BY <1>32, <1>33, Zenon
  <2> HIDE DEF old
  <2> SUFFICES ASSUME NEW d \in Nat
               PROVE  (\E i \in 1..Len(new) : new[i] = d)
                        <=> d = n \/ ((\E i \in 1..Len(old) : old[i] = d) /\ d # c)
    BY <2>1, <2>2, Zenon
  <2>4. Len(new) = Len(old) /\ new[j] = n /\ j \in 1..Len(old) /\ c = old[j]
    BY <1>32, <1>34
  <2>5. ASSUME NEW i \in 1..Len(new), new[i] = d
        PROVE  d = n \/ ((\E k \in 1..Len(old) : old[k] = d) /\ d # c)
    <3>1. CASE i = j
      BY <2>4, <2>5, <3>1
    <3>2. CASE i # j
      <4>1. i \in 1..Len(old) /\ old[i] = d
        BY <1>34, <2>4, <2>5, <3>2
      <4> QED BY <2>0, <2>4, <3>2, <4>1
    <3> QED BY <3>1, <3>2
  <2>6. ASSUME d = n PROVE \E i \in 1..Len(new) : new[i] = d
    BY <2>4, <2>6
  <2>7. ASSUME NEW k \in 1..Len(old), old[k] = d, d # c PROVE \E i \in 1..Len(new) : new[i] = d
    <3>1. k # j /\ k \in 1..Len(new)
      BY <2>4, <2>7
    <3> QED BY <1>34, <2>7, <3>1
  <2> QED BY <2>5, <2>6, <2>7
<1>10. \A u \in 1..n, d \in Nat : StaticChild(t2, u, d) =>
         d \in 1..n /\ Prefix(t2, d) # << >> /\ Label(L2, d) = Label(L2, u) \o Prefix(t2, d)
  <2> SUFFICES ASSUME NEW u \in 1..n, NEW d \in Nat, StaticChild(t2, u, d)
               PROVE  d \in 1..n /\ Prefix(t2, d) # << >>
                      /\ Label(L2, d) = Label(L2, u) \o Prefix(t2, d)
    OBVIOUS
  <2>1. CASE u = n
    BY <1>2, <1>3, <1>4, <1>35, <1>36, <2>1
  <2>2. CASE u = v /\ d = n
    BY <1>2, <1>3, <1>32, <2>2 DEF s
  <2>3. CASE u \in N /\ StaticChild(t, u, d) /\ d # c
    <3>1. d \in N /\ Prefix(t, d) # << >> /\ Label(L, d) = Label(L, u) \o Prefix(t, d)
      BY <1>31, <2>3
    <3> QED BY <1>2, <1>3, <2>3, <3>1
  <2> QED BY <1>2, <1>5, <1>51, <1>7, <2>1, <2>2, <2>3
<1>11. \A u \in 1..n, d \in Nat : ParamChild(t2, u, d) =>
         d \in 1..n /\ Label(L2, d) = Label(L2, u) \o <<"param">>
  <2> SUFFICES ASSUME NEW u \in 1..n, NEW d \in Nat, ParamChild(t2, u, d)
               PROVE  d \in 1..n /\ Label(L2, d) = Label(L2, u) \o <<"param">>
    OBVIOUS
  <2>1. u \in N
    BY <1>2, <1>4
  <2>2. d \in N /\ Label(L, d) = Label(L, u) \o <<"param">>
    BY <1>6, <1>31, <2>1
  <2> QED BY <1>2, <2>1, <2>2
<1>12. \A d \in 2..n : \E u \in 1..n : Child(t2, u, d)
  <2> SUFFICES ASSUME NEW d \in 2..n PROVE \E u \in 1..n : Child(t2, u, d)
    OBVIOUS
  <2>1. CASE d = n
    BY <1>2, <1>7, <1>32, <2>1 DEF Child
  <2>2. CASE d = c
    BY <1>2, <1>4, <2>2 DEF Child
  <2>3. CASE d # n /\ d # c
    <3>1. d \in 2..Len(t) /\ d \in Nat
      BY <1>2, <2>3
    <3>2. PICK u \in N : Child(t, u, d)
      BY <1>31, <3>1
    <3>3. Child(t2, u, d)
      BY <1>5, <1>6, <1>7, <2>3, <3>1, <3>2, Zenon DEF Child
    <3> QED BY <1>2, <3>2, <3>3
  <2> QED BY <2>1, <2>2, <2>3
<1>13. \A u, w \in 1..n :
         \A i \in 1..Len(Statics(t2, u)), k \in 1..Len(Statics(t2, w)) :
           Statics(t2, u)[i] = Statics(t2, w)[k] => u = w /\ i = k
  <2>0. \A u \in 1..n : \A i \in 1..Len(Statics(t2, u)) :
          \/ u = n /\ i = 1 /\ Statics(t2, u)[i] = c
          \/ u = v /\ i = j /\ Statics(t2, u)[i] = n
          \/ /\ u \in N /\ i \in 1..Len(Statics(t, u)) /\ Statics(t2, u)[i] = Statics(t, u)[i]
             /\ Statics(t, u)[i] # c
    <3> SUFFICES ASSUME NEW u \in 1..n, NEW i \in 1..Len(Statics(t2, u))
                 PROVE
          \/ u = n /\ i = 1 /\ Statics(t2, u)[i] = c
          \/ u = v /\ i = j /\ Statics(t2, u)[i] = n
          \/ /\ u \in N /\ i \in 1..Len(Statics(t, u)) /\ Statics(t2, u)[i] = Statics(t, u)[i]
             /\ Statics(t, u)[i] # c
      OBVIOUS
    <3>1. CASE u = n
      <4>1. Statics(t2, u) = <<c>>
        BY <1>3, <3>1
      <4>2. \A p : p = <<c>> => \A x \in 1..Len(p) : x = 1 /\ p[x] = c
        OBVIOUS
      <4> QED BY <3>1, <4>1, <4>2
    <3>2. CASE u \in N /\ u # v
      <4>1. Statics(t2, u) = Statics(t, u)
        BY <1>3, <3>2
      <4>2. Statics(t, u)[i] # c
        <5>1. Statics(t, u)[i] = Statics(t, v)[j] => u = v /\ i = j
          BY <1>30, <1>32, <3>2, <4>1, Zenon
        <5> QED BY <3>2, <5>1
      <4> QED BY <3>2, <4>1, <4>2
    <3>3. CASE u = v
      <4>1. Statics(t2, u) = new /\ Statics(t, u) = old
        BY <1>3, <3>3 DEF old
      <4>2. i \in 1..Len(old)
        BY <1>34, <4>1
      <4>3. CASE i = j
        BY <1>34, <3>3, <4>1, <4>3
      <4>4. CASE i # j
        <5>1. old[i] # c
          <6>1. Statics(t, v)[i] = Statics(t, v)[j] => i = j
            BY <1>30, <1>32, <4>2, Zenon DEF old
          <6> QED BY <4>4, <6>1 DEF old
        <5> QED BY <1>32, <1>34, <3>3, <4>1, <4>2, <4>4, <5>1
      <4> QED BY <4>3, <4>4
    <3> QED BY <1>2, <3>1, <3>2, <3>3
  <2> SUFFICES ASSUME NEW u \in 1..n, NEW w \in 1..n, NEW i \in 1..Len(Statics(t2, u)),
                      NEW k \in 1..Len(Statics(t2, w)), Statics(t2, u)[i] = Statics(t2, w)[k]
               PROVE  u = w /\ i = k
    OBVIOUS
  <2>01. c # n
    BY <1>2, <1>35
  <2> DEFINE x == Statics(t2, u)[i]
             y == Statics(t2, w)[k]
  <2>02. \/ u = n /\ i = 1 /\ x = c
         \/ u = v /\ i = j /\ x = n
         \/ x # n /\ x # c
    <3>1. u \in N /\ i \in 1..Len(Statics(t, u)) => Statics(t, u)[i] # n
      BY <1>33
    <3> QED BY <2>0, <3>1
  <2>03. \/ w = n /\ k = 1 /\ y = c
         \/ w = v /\ k = j /\ y = n
         \/ y # n /\ y # c
    <3>1. w \in N /\ k \in 1..Len(Statics(t, w)) => Statics(t, w)[k] # n
      BY <1>33
    <3> QED BY <2>0, <3>1
  <2>04. x = y
    OBVIOUS
  <2>1. CASE Statics(t2, u)[i] = n
    <3>1. x = n
      BY <2>1
    <3> HIDE DEF x, y
    <3> QED BY <2>01, <2>02, <2>03, <2>04, <3>1
  <2>2. CASE Statics(t2, u)[i] = c
    <3>1. x = c
      BY <2>2
    <3> HIDE DEF x, y
    <3> QED BY <2>01, <2>02, <2>03, <2>04, <3>1
  <2> HIDE DEF x, y
  <2>3. CASE Statics(t2, u)[i] # n /\ Statics(t2, u)[i] # c
    <3>1. /\ u \in N /\ w \in N
          /\ i \in 1..Len(Statics(t, u)) /\ Statics(t2, u)[i] = Statics(t, u)[i]
          /\ k \in 1..Len(Statics(t, w)) /\ Statics(t2, w)[k] = Statics(t, w)[k]
      BY <2>0, <2>3
    <3>2. Statics(t, u)[i] = Statics(t, w)[k]
      BY <3>1
    <3>3. Statics(t, u)[i] = Statics(t, w)[k] => u = w /\ i = k
      <4>1. u \in N /\ w \in N /\ i \in 1..Len(Statics(t, u)) /\ k \in 1..Len(Statics(t, w))
        BY <3>1
      <4> QED BY <1>30, <4>1
    <3> QED BY <3>2, <3>3
  <2> QED BY <2>1, <2>2, <2>3
<1>14. Label(L2, 1) = << >>
  BY <1>2, <1>31
<1>15. IsTree(t2, L2)
  BY <1>2, <1>10, <1>11, <1>12, <1>13, <1>14 DEF IsTree, n
<1> QED BY <1>15 DEF L2, n, s
-----------------------------------------------------------------------------
(* What a tree holds.                                                      *)

OneEach(S) == \A p, q \in S : p.verb = q.verb => p = q

\* The tree holds the routes rs, each where its pattern leads.
Holds(t, L, rs) ==
  /\ \A v \in 1..Len(t) :
       /\ \A q \in RoutesAt(t, v) : q \in rs /\ Flat(q) = Label(L, v)
       /\ \A q \in WildcardAt(t, v) : q \in rs /\ Flat(q) = Label(L, v) \o <<"wildcard">>
       /\ OneEach(RoutesAt(t, v)) /\ OneEach(WildcardAt(t, v))
  /\ \A q \in rs : \E v \in 1..Len(t) : q \in RoutesAt(t, v) \cup WildcardAt(t, v)

\* Every node is on the way to one of them.
Labelled(t, L, rs) == \A v \in 2..Len(t) : \E q \in rs : IsPrefix(Label(L, v), Flat(q))

\* Where a text of one of them ends there is a node.
HasCuts(t, L, rs) ==
  \A q \in rs : \A s \in Cuts(q) : \E v \in 1..Len(t) : Label(L, v) = s

\* A node more changes nothing of what the tree holds.
LEMMA GrownHolds ==
  ASSUME NEW t, NEW L, IsTree(t, L), NEW t2, Grows(t, t2), NEW s \in Seq(Marks), NEW rs
  PROVE  LET L2 == Extended(L, Len(t2), s)
         IN /\ Holds(t, L, rs) => Holds(t2, L2, rs)
            /\ HasCuts(t, L, rs) => HasCuts(t2, L2, rs)
            /\ Labelled(t, L, rs) /\ (\E q \in rs : IsPrefix(s, Flat(q)))
                 => Labelled(t2, L2, rs)
<1> DEFINE n == Len(t2)
           L2 == Extended(L, n, s)
           N == 1..Len(t)
<1>1. /\ n = Len(t) + 1 /\ n \in Nat /\ n \notin N /\ n \in 1..n /\ n # 1
      /\ 1 \in N /\ \A u \in 1..n : u = n \/ u \in N
      /\ \A u \in N : u \in 1..n /\ u # n /\ u \in Nat
      /\ Label(L2, n) = s /\ \A u \in N : Label(L2, u) = Label(L, u)
  BY GrownNodes
<1>2. /\ \A u \in N : RoutesAt(t2, u) = RoutesAt(t, u) /\ WildcardAt(t2, u) = WildcardAt(t, u)
      /\ RoutesAt(t2, n) = {} /\ WildcardAt(t2, n) = {}
  BY DEF Grows
<1>3. \A v \in 2..n : v = n \/ v \in 2..Len(t)
  BY <1>1
<1>4. \A v \in 2..Len(t) : v \in N
  BY TreeIs
<1> HIDE DEF n, L2
<1>5. ASSUME Holds(t, L, rs) PROVE Holds(t2, L2, rs)
  <2> USE DEF N
  <2>1. /\ \A v \in N :
             /\ \A q \in RoutesAt(t, v) : q \in rs /\ Flat(q) = Label(L, v)
             /\ \A q \in WildcardAt(t, v) : q \in rs /\ Flat(q) = Label(L, v) \o <<"wildcard">>
             /\ OneEach(RoutesAt(t, v)) /\ OneEach(WildcardAt(t, v))
        /\ \A q \in rs : \E v \in N : q \in RoutesAt(t, v) \cup WildcardAt(t, v)
    BY <1>5, Zenon DEF Holds
  <2> HIDE DEF N
  <2>2. \A v \in 1..n :
             /\ \A q \in RoutesAt(t2, v) : q \in rs /\ Flat(q) = Label(L2, v)
             /\ \A q \in WildcardAt(t2, v) : q \in rs /\ Flat(q) = Label(L2, v) \o <<"wildcard">>
             /\ OneEach(RoutesAt(t2, v)) /\ OneEach(WildcardAt(t2, v))
    <3> SUFFICES ASSUME NEW v \in 1..n
        PROVE  /\ \A q \in RoutesAt(t2, v) : q \in rs /\ Flat(q) = Label(L2, v)
               /\ \A q \in WildcardAt(t2, v) : q \in rs /\ Flat(q) = Label(L2, v) \o <<"wildcard">>
               /\ OneEach(RoutesAt(t2, v)) /\ OneEach(WildcardAt(t2, v))
      OBVIOUS
    <3>1. CASE v = n
      BY <1>2, <3>1 DEF OneEach
    <3>2. CASE v \in N
      <4>1. RoutesAt(t2, v) = RoutesAt(t, v) /\ WildcardAt(t2, v) = WildcardAt(t, v)
            /\ Label(L2, v) = Label(L, v)
        BY <1>1, <1>2, <3>2
      <4> QED BY <2>1, <3>2, <4>1
    <3> QED BY <1>1, <3>1, <3>2
  <2>3. \A q \in rs : \E v \in 1..n : q \in RoutesAt(t2, v) \cup WildcardAt(t2, v)
    <3> SUFFICES ASSUME NEW q \in rs
                 PROVE  \E v \in 1..n : q \in RoutesAt(t2, v) \cup WildcardAt(t2, v)
      OBVIOUS
    <3>1. PICK v \in N : q \in RoutesAt(t, v) \cup WildcardAt(t, v)
      BY <2>1
    <3> QED BY <1>1, <1>2, <3>1
  <2> QED BY <2>2, <2>3, Zenon DEF Holds, n
<1>6. ASSUME HasCuts(t, L, rs) PROVE HasCuts(t2, L2, rs)
  <2> SUFFICES ASSUME NEW q \in rs, NEW x \in Cuts(q) PROVE \E v \in 1..n : Label(L2, v) = x
    BY Zenon DEF HasCuts, n
  <2>1. PICK v \in N : Label(L, v) = x
    BY <1>6, Zenon DEF HasCuts
  <2> QED BY <1>1, <2>1
<1>7. ASSUME Labelled(t, L, rs), NEW q \in rs, IsPrefix(s, Flat(q)) PROVE Labelled(t2, L2, rs)
  <2> SUFFICES ASSUME NEW v \in 2..n PROVE \E p \in rs : IsPrefix(Label(L2, v), Flat(p))
    BY Zenon DEF Labelled, n
  <2>1. CASE v = n
    BY <1>1, <1>7, <2>1
  <2>2. CASE v # n
    <3>1. v \in 2..Len(t) /\ v \in N
      BY <1>3, <1>4, <2>2
    <3>2. PICK p \in rs : IsPrefix(Label(L, v), Flat(p))
      BY <1>7, <3>1 DEF Labelled
    <3> QED BY <1>1, <3>1, <3>2
  <2> QED BY <2>1, <2>2
<1> QED BY <1>5, <1>6, <1>7 DEF L2, n

\* A route put into a node leaves the tree, its labels and its siblings.
LEMMA AddedTree ==
  ASSUME NEW t, NEW L, IsTree(t, L), NEW v, NEW rs, NEW ws, NEW t2, AddsRoute(t, v, rs, ws, t2)
  PROVE  /\ IsTree(t2, L)
         /\ Disjoint(t) => Disjoint(t2)
         /\ \A ss : Labelled(t, L, ss) => Labelled(t2, L, ss)
         /\ \A ss : HasCuts(t, L, ss) => HasCuts(t2, L, ss)
<1>1. t \in Seq(NodeType) /\ Len(t) \in Nat /\ 1 \in 1..Len(t)
  BY TreeIs
<1>2. t2 \in Seq(NodeType) /\ Len(t2) = Len(t)
  BY DEF AddsRoute
<1>3. \A u \in 1..Len(t) : /\ Prefix(t2, u) = Prefix(t, u) /\ Statics(t2, u) = Statics(t, u)
                           /\ Params(t2, u) = Params(t, u)
  BY Zenon DEF AddsRoute
<1>4. t2 # << >>
  BY <1>1, <1>2
<1>5. \A u \in 1..Len(t) : \A c :
                              /\ StaticChild(t2, u, c) <=> StaticChild(t, u, c)
                              /\ ParamChild(t2, u, c) <=> ParamChild(t, u, c)
                              /\ Child(t2, u, c) <=> Child(t, u, c)
  BY <1>3, Zenon DEF Child, StaticChild, ParamChild
<1>6. /\ L \in [1..Len(t) -> Seq(Marks)] /\ Label(L, 1) = << >>
      /\ \A u \in 1..Len(t), c \in Nat : StaticChild(t, u, c) =>
            c \in 1..Len(t) /\ Prefix(t, c) # << >> /\ Label(L, c) = Label(L, u) \o Prefix(t, c)
      /\ \A u \in 1..Len(t), c \in Nat : ParamChild(t, u, c) =>
            c \in 1..Len(t) /\ Label(L, c) = Label(L, u) \o <<"param">>
      /\ \A c \in 2..Len(t) : \E u \in 1..Len(t) : Child(t, u, c)
  BY DEF IsTree
<1>7. \A u, w \in 1..Len(t) :
         \A j \in 1..Len(Statics(t, u)), k \in 1..Len(Statics(t, w)) :
           Statics(t, u)[j] = Statics(t, w)[k] => u = w /\ j = k
  BY DEF IsTree
<1>8. \A u, w \in 1..Len(t) :
         \A j \in 1..Len(Statics(t2, u)), k \in 1..Len(Statics(t2, w)) :
           Statics(t2, u)[j] = Statics(t2, w)[k] => u = w /\ j = k
  <2> SUFFICES ASSUME NEW u \in 1..Len(t), NEW w \in 1..Len(t)
               PROVE  \A j \in 1..Len(Statics(t2, u)), k \in 1..Len(Statics(t2, w)) :
                        Statics(t2, u)[j] = Statics(t2, w)[k] => u = w /\ j = k
    OBVIOUS
  <2>1. Statics(t2, u) = Statics(t, u) /\ Statics(t2, w) = Statics(t, w)
    BY <1>3
  <2> QED BY <1>7, <2>1
<1>9. \A u \in 1..Len(t), c \in Nat : StaticChild(t2, u, c) =>
            c \in 1..Len(t) /\ Prefix(t2, c) # << >> /\ Label(L, c) = Label(L, u) \o Prefix(t2, c)
  BY <1>3, <1>5, <1>6
<1>10. IsTree(t2, L)
  <2>1. \A u \in 1..Len(t), c \in Nat : ParamChild(t2, u, c) =>
            c \in 1..Len(t) /\ Label(L, c) = Label(L, u) \o <<"param">>
    BY <1>5, <1>6, Zenon
  <2>2. \A c \in 2..Len(t) : \E u \in 1..Len(t) : Child(t2, u, c)
    BY <1>5, <1>6, Zenon
  <2> QED BY <1>2, <1>4, <1>6, <1>8, <1>9, <2>1, <2>2, Zenon DEF IsTree
<1>11. ASSUME Disjoint(t) PROVE Disjoint(t2)
  <2> SUFFICES ASSUME NEW u \in 1..Len(t), NEW j \in 1..Len(Statics(t2, u)),
                      NEW k \in 1..Len(Statics(t2, u)), j # k
               PROVE  ~IsPrefix(Prefix(t2, Statics(t2, u)[j]), Prefix(t2, Statics(t2, u)[k]))
    BY <1>2, DisjointIs
  <2>1. Statics(t2, u) = Statics(t, u)
    BY <1>3
  <2> DEFINE c == Statics(t, u)[j]
             d == Statics(t, u)[k]
  <2>2. ~IsPrefix(Prefix(t, c), Prefix(t, d))
    BY <1>1, <1>11, <2>1, DisjointIs
  <2>3. c \in 1..Len(t) /\ d \in 1..Len(t)
    <3>1. StaticChild(t, u, c) /\ StaticChild(t, u, d) /\ Statics(t, u) \in Seq(Nat)
      BY <1>1, <2>1, NodeIs DEF StaticChild
    <3>2. c \in Nat /\ d \in Nat
      BY <2>1, <3>1
    <3> HIDE DEF c, d
    <3> QED BY <1>6, <3>1, <3>2
  <2>4. Prefix(t2, c) = Prefix(t, c) /\ Prefix(t2, d) = Prefix(t, d)
    <3> HIDE DEF c, d
    <3> QED BY <1>3, <2>3
  <2> QED BY <2>1, <2>2, <2>4
<1>12. /\ \A ss : Labelled(t, L, ss) => Labelled(t2, L, ss)
       /\ \A ss : HasCuts(t, L, ss) => HasCuts(t2, L, ss)
  BY <1>2, Zenon DEF Labelled, HasCuts
<1> QED BY <1>10, <1>11, <1>12

\* The tree holds a route more.
LEMMA AddedHolds ==
  ASSUME NEW t, NEW L, IsTree(t, L), NEW v \in 1..Len(t), NEW rs, Holds(t, L, rs),
         NEW r, NEW t2,
         \/ /\ AddsRoute(t, v, {r}, {}, t2) /\ Flat(r) = Label(L, v)
            /\ \A q \in RoutesAt(t, v) : q.verb # r.verb
         \/ /\ AddsRoute(t, v, {}, {r}, t2) /\ Flat(r) = Label(L, v) \o <<"wildcard">>
            /\ \A q \in WildcardAt(t, v) : q.verb # r.verb
  PROVE  Holds(t2, L, rs \cup {r})
<1> DEFINE N == 1..Len(t)
<1>1. /\ Len(t2) = Len(t)
      /\ \A u \in N : u # v => /\ RoutesAt(t2, u) = RoutesAt(t, u)
                               /\ WildcardAt(t2, u) = WildcardAt(t, u)
  BY DEF AddsRoute
<1>2. /\ \A u \in N :
             /\ \A q \in RoutesAt(t, u) : q \in rs /\ Flat(q) = Label(L, u)
             /\ \A q \in WildcardAt(t, u) : q \in rs /\ Flat(q) = Label(L, u) \o <<"wildcard">>
             /\ OneEach(RoutesAt(t, u)) /\ OneEach(WildcardAt(t, u))
      /\ \A q \in rs : \E u \in N : q \in RoutesAt(t, u) \cup WildcardAt(t, u)
  BY Zenon DEF Holds
<1>3. \/ /\ RoutesAt(t2, v) = RoutesAt(t, v) \cup {r} /\ WildcardAt(t2, v) = WildcardAt(t, v)
         /\ Flat(r) = Label(L, v) /\ \A q \in RoutesAt(t, v) : q.verb # r.verb
      \/ /\ RoutesAt(t2, v) = RoutesAt(t, v) /\ WildcardAt(t2, v) = WildcardAt(t, v) \cup {r}
         /\ Flat(r) = Label(L, v) \o <<"wildcard">> /\ \A q \in WildcardAt(t, v) : q.verb # r.verb
  BY DEF AddsRoute
<1>4. v \in N
  OBVIOUS
<1> HIDE DEF N
<1>5. ASSUME NEW u \in N
      PROVE  /\ \A q \in RoutesAt(t2, u) : q \in rs \cup {r} /\ Flat(q) = Label(L, u)
             /\ \A q \in WildcardAt(t2, u) :
                  q \in rs \cup {r} /\ Flat(q) = Label(L, u) \o <<"wildcard">>
             /\ OneEach(RoutesAt(t2, u)) /\ OneEach(WildcardAt(t2, u))
  <2>1. CASE u # v
    <3>1. RoutesAt(t2, u) = RoutesAt(t, u) /\ WildcardAt(t2, u) = WildcardAt(t, u)
      BY <1>1, <2>1
    <3> QED BY <1>2, <3>1
  <2>2. CASE u = v
    <3> DEFINE A == RoutesAt(t, v)
               B == WildcardAt(t, v)
               x == Flat(r)
               l == Label(L, v)
               m == l \o <<"wildcard">>
    <3>1. /\ \A q \in A : q \in rs /\ Flat(q) = l
          /\ \A q \in B : q \in rs /\ Flat(q) = m
          /\ OneEach(A) /\ OneEach(B)
      BY <1>2, <1>4
    <3>2. \/ /\ RoutesAt(t2, v) = A \cup {r} /\ WildcardAt(t2, v) = B
             /\ Flat(r) = l /\ \A q \in A : q.verb # r.verb
          \/ /\ RoutesAt(t2, v) = A /\ WildcardAt(t2, v) = B \cup {r}
             /\ Flat(r) = m /\ \A q \in B : q.verb # r.verb
      BY <1>3
    <3> HIDE DEF A, B, l, m
    <3>3. \A q \in RoutesAt(t2, v) : q \in rs \cup {r} /\ Flat(q) = l
      BY <3>1, <3>2
    <3>4. \A q \in WildcardAt(t2, v) : q \in rs \cup {r} /\ Flat(q) = m
      BY <3>1, <3>2
    <3>5. \A S : OneEach(S) /\ (\A q \in S : q.verb # r.verb) => OneEach(S \cup {r})
      BY Zenon DEF OneEach
    <3>6. OneEach(RoutesAt(t2, v)) /\ OneEach(WildcardAt(t2, v))
      BY <3>1, <3>2, <3>5, Zenon
    <3> QED BY <2>2, <3>3, <3>4, <3>6 DEF l, m
  <2> QED BY <2>1, <2>2
<1>6. ASSUME NEW q \in rs \cup {r}
      PROVE  \E u \in N : q \in RoutesAt(t2, u) \cup WildcardAt(t2, u)
  <2>1. CASE q = r
    BY <1>3, <1>4, <2>1
  <2>2. CASE q \in rs
    <3>1. PICK u \in N : q \in RoutesAt(t, u) \cup WildcardAt(t, u)
      BY <1>2, <2>2
    <3> QED BY <1>1, <1>3, <3>1
  <2> QED BY <2>1, <2>2
<1> QED BY <1>1, <1>5, <1>6, Zenon DEF Holds, N

\* A parameter child more leaves siblings disjoint.
LEMMA ParamDisjoint ==
  ASSUME NEW t, NEW L, IsTree(t, L), Disjoint(t), NEW v \in 1..Len(t),
         NEW t2, AddsParam(t, v, t2)
  PROVE  Disjoint(t2)
<1>1. t \in Seq(NodeType) /\ Len(t) \in Nat /\ 1 \in 1..Len(t)
  BY TreeIs
<1>2. t2 \in Seq(NodeType) /\ Len(t2) = Len(t) + 1 /\ Statics(t2, Len(t2)) = << >>
      /\ \A u \in 1..Len(t) : Prefix(t2, u) = Prefix(t, u) /\ Statics(t2, u) = Statics(t, u)
  BY DEF AddsParam, Grows
<1> SUFFICES ASSUME NEW u \in 1..Len(t2), NEW j \in 1..Len(Statics(t2, u)),
                    NEW k \in 1..Len(Statics(t2, u)), j # k
             PROVE  ~IsPrefix(Prefix(t2, Statics(t2, u)[j]), Prefix(t2, Statics(t2, u)[k]))
  BY <1>2, DisjointIs
<1>3. u \in 1..Len(t)
  <2>1. \A x \in 1..Len(Statics(t2, Len(t2))) : FALSE
    BY <1>2
  <2>2. u # Len(t2)
    BY <2>1
  <2> QED BY <1>1, <1>2, <2>2
<1>4. Statics(t2, u) = Statics(t, u)
  BY <1>2, <1>3
<1> DEFINE c == Statics(t, u)[j]
           d == Statics(t, u)[k]
<1>5. ~IsPrefix(Prefix(t, c), Prefix(t, d))
  BY <1>1, <1>3, <1>4, DisjointIs
<1>6. c \in 1..Len(t) /\ d \in 1..Len(t)
  <2>1. StaticChild(t, u, c) /\ StaticChild(t, u, d) /\ Statics(t, u) \in Seq(Nat)
    BY <1>1, <1>3, <1>4, NodeIs DEF StaticChild
  <2>2. c \in Nat /\ d \in Nat
    BY <1>4, <2>1
  <2> HIDE DEF c, d
  <2> QED BY <1>3, <2>1, <2>2, StaticLabel
<1>7. Prefix(t2, c) = Prefix(t, c) /\ Prefix(t2, d) = Prefix(t, d)
  <2> HIDE DEF c, d
  <2> QED BY <1>2, <1>6
<1> QED BY <1>4, <1>5, <1>7

\* So does a static one whose text and theirs do not start each other.
LEMMA StaticDisjoint ==
  ASSUME NEW t, NEW L, IsTree(t, L), Disjoint(t), NEW v \in 1..Len(t), NEW text,
         \A j \in 1..Len(Statics(t, v)) : /\ ~IsPrefix(Prefix(t, Statics(t, v)[j]), text)
                                          /\ ~IsPrefix(text, Prefix(t, Statics(t, v)[j])),
         NEW t2, AddsStatic(t, v, text, t2)
  PROVE  Disjoint(t2)
<1> DEFINE n == Len(t2)
           old == Statics(t, v)
<1>1. t \in Seq(NodeType) /\ Len(t) \in Nat /\ 1 \in 1..Len(t)
  BY TreeIs
<1>2. /\ t2 \in Seq(NodeType) /\ n = Len(t) + 1 /\ Statics(t2, n) = << >>
      /\ Prefix(t2, n) = text /\ Statics(t2, v) = Append(old, n)
      /\ \A u \in 1..Len(t) : /\ Prefix(t2, u) = Prefix(t, u)
                              /\ u # v => Statics(t2, u) = Statics(t, u)
  BY DEF AddsStatic, Grows
<1>3. /\ Append(old, n) \in Seq(Nat) /\ Len(Append(old, n)) = Len(old) + 1
      /\ Append(old, n)[Len(old) + 1] = n
      /\ \A j \in 1..Len(old) : Append(old, n)[j] = old[j]
      /\ \A j \in 1..(Len(old) + 1) : j = Len(old) + 1 \/ j \in 1..Len(old)
  <2>1. old \in Seq(Nat) /\ n \in Nat
    BY <1>1, <1>2, NodeIs
  <2> HIDE DEF old, n
  <2> QED BY <2>1
<1>4. \A u \in 1..Len(t) : \A j \in 1..Len(Statics(t, u)) : Statics(t, u)[j] \in 1..Len(t)
  <2> SUFFICES ASSUME NEW u \in 1..Len(t), NEW j \in 1..Len(Statics(t, u))
               PROVE  Statics(t, u)[j] \in 1..Len(t)
    OBVIOUS
  <2> DEFINE c == Statics(t, u)[j]
  <2>1. StaticChild(t, u, c) /\ Statics(t, u) \in Seq(Nat)
    BY <1>1, NodeIs DEF StaticChild
  <2>2. c \in Nat
    BY <2>1
  <2> HIDE DEF c
  <2>3. c \in 1..Len(t)
    BY <2>1, <2>2, StaticLabel
  <2> QED BY <2>3 DEF c
<1> SUFFICES ASSUME NEW u \in 1..n, NEW j \in 1..Len(Statics(t2, u)),
                    NEW k \in 1..Len(Statics(t2, u)), j # k
             PROVE  ~IsPrefix(Prefix(t2, Statics(t2, u)[j]), Prefix(t2, Statics(t2, u)[k]))
  BY <1>2, DisjointIs
<1> HIDE DEF n
<1>5. u \in 1..Len(t)
  <2>1. \A x \in 1..Len(Statics(t2, n)) : FALSE
    BY <1>2
  <2>2. u # n
    BY <2>1
  <2> QED BY <1>1, <1>2, <2>2
<1>6. \A x, y \in 1..Len(Statics(t, u)) :
        x # y => ~IsPrefix(Prefix(t, Statics(t, u)[x]), Prefix(t, Statics(t, u)[y]))
  BY <1>1, <1>5, DisjointIs
<1>7. \A x \in 1..Len(Statics(t, u)) : Prefix(t2, Statics(t, u)[x]) = Prefix(t, Statics(t, u)[x])
  BY <1>2, <1>4, <1>5
<1>8. CASE u # v
  <2>1. Statics(t2, u) = Statics(t, u)
    BY <1>2, <1>5, <1>8
  <2> QED BY <1>6, <1>7, <2>1
<1>9. CASE u = v
  <2>1. Statics(t2, u) = Append(old, n) /\ Statics(t, u) = old
    BY <1>2, <1>9
  <2>2. \A x \in 1..Len(old) : /\ ~IsPrefix(Prefix(t, old[x]), text)
                               /\ ~IsPrefix(text, Prefix(t, old[x]))
    OBVIOUS
  <2>3. \A x \in 1..Len(old) : Prefix(t2, old[x]) = Prefix(t, old[x])
    BY <1>7, <2>1
  <2>4. \A x, y \in 1..Len(old) : x # y => ~IsPrefix(Prefix(t, old[x]), Prefix(t, old[y]))
    BY <1>6, <2>1
  <2> HIDE DEF old
  <2>5. (j = Len(old) + 1 \/ j \in 1..Len(old)) /\ (k = Len(old) + 1 \/ k \in 1..Len(old))
    BY <1>3, <2>1
  <2>6. \A x \in 1..Len(old) : Statics(t2, u)[x] = old[x]
    BY <1>3, <2>1
  <2>7. Statics(t2, u)[Len(old) + 1] = n
    BY <1>3, <2>1
  <2>8. CASE j = Len(old) + 1
    <3>1. k \in 1..Len(old)
      BY <2>5, <2>8
    <3>2. Prefix(t2, Statics(t2, u)[j]) = text
      BY <1>2, <2>7, <2>8
    <3>3. Prefix(t2, Statics(t2, u)[k]) = Prefix(t, old[k])
      BY <2>3, <2>6, <3>1
    <3> QED BY <2>2, <3>1, <3>2, <3>3
  <2>9. CASE j \in 1..Len(old)
    <3>1. Prefix(t2, Statics(t2, u)[j]) = Prefix(t, old[j])
      BY <2>3, <2>6, <2>9
    <3>2. CASE k = Len(old) + 1
      <4>1. Prefix(t2, Statics(t2, u)[k]) = text
        BY <1>2, <2>7, <3>2
      <4> QED BY <2>2, <2>9, <3>1, <4>1
    <3>3. CASE k \in 1..Len(old)
      <4>1. Prefix(t2, Statics(t2, u)[k]) = Prefix(t, old[k])
        BY <2>3, <2>6, <3>3
      <4> QED BY <2>4, <2>9, <3>1, <3>3, <4>1
    <3> QED BY <2>5, <3>2, <3>3
  <2> QED BY <2>5, <2>8, <2>9
<1> QED BY <1>8, <1>9
-----------------------------------------------------------------------------
(* An insertion, call by call.                                             *)

\* Another route of the same verb and pattern.
Again(rs, r) == \E q \in rs : q.verb = r.verb /\ Flat(q) = Flat(r)

\* The siblings are disjoint, and no text of r ends within a text of a route of rs.
Short(t, rs, r) ==
  /\ Disjoint(t)
  /\ \A q \in rs : \A s \in Cuts(r) : IsStrictPrefix(s, Flat(q)) =>
       s \in Cuts(q) \/ Flat(q)[Len(s) + 1] \in {"param", "wildcard"}

\* What remains true of the tree while r is inserted into the tree t0 of rs.
Growing(t, L, t0, rs, r) ==
  /\ IsTree(t, L) /\ Labelled(t, L, rs \cup {r})
  /\ Short(t0, rs, r) => Disjoint(t)

\* A node that has nothing yet but what the rest of the text leads to.
Blank(t, v, i, static, r) ==
  /\ RoutesAt(t, v) = {} /\ WildcardAt(t, v) = {} /\ Params(t, v) = << >>
  /\ \/ Statics(t, v) = << >>
     \/ ~static /\ (i = Len(r.tokens) + 1 \/ r.tokens[i].kind # "static")

\* Where a call is: the labels and the tokens it has gone through are the same.
IsAt(t, v, i, static, text, r, L) ==
  /\ v \in 1..Len(t) /\ i \in 1..(Len(r.tokens) + 1)
  /\ static => /\ i \in 1..Len(r.tokens) /\ r.tokens[i].kind = "static"
               /\ text \in Seq(Chars) /\ Label(L, v) \o text = FlatTo(r, i)
  /\ ~static => Label(L, v) = FlatTo(r, i - 1)
  /\ \A j \in 1..(i - 1) : r.tokens[j].kind = "static" =>
       \E w \in 1..Len(t) : Label(L, w) = FlatTo(r, j)

Going(t, v, i, static, text, r, t0, rs, L) ==
  /\ Growing(t, L, t0, rs, r) /\ Holds(t, L, rs) /\ HasCuts(t, L, rs)
  /\ IsAt(t, v, i, static, text, r, L)
  /\ t = t0 \/ Blank(t, v, i, static, r)
  /\ Disjoint(t0) /\ Again(rs, r) => t = t0

Done(t, ok, r, t0, rs, L) ==
  /\ ok => /\ Growing(t, L, t0, rs, r) /\ Holds(t, L, rs \cup {r}) /\ HasCuts(t, L, rs \cup {r})
           /\ ~(Disjoint(t0) /\ Again(rs, r))
  /\ ~ok => t = t0 /\ Again(rs, r)

\* How many calls there may still be.
Room(r, L, v, i, static) ==
  Len(Flat(r)) - Len(Label(L, v)) + 2 * (Len(r.tokens) + 1 - i) + (IF static THEN 0 ELSE 1)

IsCall(c) == c \in [tree : Seq(NodeType), at : Nat, i : Nat, static : BOOLEAN,
                    text : Seq(Chars), ended : BOOLEAN, ok : BOOLEAN]

\* What holds of the call after k.
CallIs(c, k, r, t0, rs) ==
  /\ IsCall(c) /\ (c.ended \/ ~c.ok)
  /\ \E L : IF c.ended THEN Done(c.tree, c.ok, r, t0, rs, L)
            ELSE /\ Going(c.tree, c.at, c.i, c.static, c.text, r, t0, rs, L)
                 /\ Room(r, L, c.at, c.i, c.static) + k <= CallsAtMost(r)

\* What leads to a node and is in a pattern does not reach its wildcard.
LEMMA MarksBeforeWildcard ==
  ASSUME NEW s \in Seq(Marks), NEW l \in Seq(Marks), IsPrefix(s, l \o <<"wildcard">>)
  PROVE  IsPrefix(s, l)
<1> DEFINE w == <<"wildcard">>
           m == l \o w
<1>1. Marks \subseteq Symbols /\ "wildcard" \notin Marks /\ w \in Seq(Symbols)
      /\ Len(w) = 1 /\ w[1] = "wildcard" /\ 1 \in 1..Len(w)
  BY MarksAreNoChars DEF Marks, Symbols
<1>2. s \in Seq(Symbols) /\ l \in Seq(Symbols) /\ Len(s) \in Nat /\ Len(l) \in Nat
  BY <1>1
<1> HIDE DEF w
<1>3. /\ m \in Seq(Symbols) /\ Len(m) = Len(l) + 1 /\ m[Len(l) + 1] = "wildcard"
      /\ IsPrefix(l, m)
  <2>1. /\ m \in Seq(Symbols) /\ Len(m) = Len(l) + Len(w)
        /\ \A i \in 1..Len(w) : m[Len(l) + i] = w[i]
        /\ IsPrefix(l, m)
    BY <1>1, <1>2, ConcatIs
  <2> HIDE DEF m
  <2> QED BY <1>1, <2>1
<1>4. IsPrefix(s, m)
  BY DEF w
<1> HIDE DEF m
<1>5. Len(s) <= Len(m) /\ \A i \in 1..Len(s) : s[i] = m[i]
  BY <1>2, <1>3, <1>4, PrefixMeans
<1>6. Len(s) <= Len(l)
  <2> SUFFICES ASSUME Len(s) > Len(l) PROVE FALSE
    BY <1>2
  <2>1. Len(s) = Len(l) + 1 /\ Len(s) \in 1..Len(s)
    BY <1>2, <1>3, <1>5
  <2>2. s[Len(s)] = "wildcard"
    BY <1>3, <1>5, <2>1
  <2>3. s[Len(s)] \in Marks
    BY <2>1
  <2> QED BY <1>1, <2>2, <2>3
<1> QED BY <1>2, <1>3, <1>4, <1>6, PrefixesCompare

\* Where a route of the same pattern is held the pattern leads to.
LEMMA HeldAgain ==
  ASSUME NEW t, NEW L, IsTree(t, L), NEW rs \in SUBSET Routes, Holds(t, L, rs),
         NEW r \in Routes, Again(rs, r)
  PROVE  \E q \in rs, u \in 1..Len(t) :
           /\ q.verb = r.verb /\ Label(L, u) \in Seq(Marks)
           /\ \/ q \in RoutesAt(t, u) /\ Flat(r) = Label(L, u)
              \/ q \in WildcardAt(t, u) /\ Flat(r) = Label(L, u) \o <<"wildcard">>
           /\ \A s \in Seq(Marks) : IsPrefix(s, Flat(r)) => IsPrefix(s, Label(L, u))
<1>1. PICK q \in rs : q.verb = r.verb /\ Flat(q) = Flat(r)
  BY DEF Again
<1>2. PICK u \in 1..Len(t) : q \in RoutesAt(t, u) \cup WildcardAt(t, u)
  BY Zenon DEF Holds
<1>3. /\ q \in RoutesAt(t, u) => Flat(q) = Label(L, u)
      /\ q \in WildcardAt(t, u) => Flat(q) = Label(L, u) \o <<"wildcard">>
  BY Zenon DEF Holds
<1>4. Label(L, u) \in Seq(Marks)
  BY TreeIs
<1>5. \A s \in Seq(Marks) : IsPrefix(s, Label(L, u) \o <<"wildcard">>) => IsPrefix(s, Label(L, u))
  BY <1>4, MarksBeforeWildcard
<1>6. CASE q \in RoutesAt(t, u)
  <2>1. Flat(r) = Label(L, u)
    BY <1>1, <1>3, <1>6
  <2> QED BY <1>1, <1>4, <1>6, <2>1
<1>7. CASE q \in WildcardAt(t, u)
  <2>1. Flat(r) = Label(L, u) \o <<"wildcard">>
    BY <1>1, <1>3, <1>7
  <2> QED BY <1>1, <1>4, <1>5, <1>7, <2>1
<1> QED BY <1>2, <1>6, <1>7

\* From each node on its way a child leads on to it.
LEMMA AgainLeadsOn ==
  ASSUME NEW t, NEW L, IsTree(t, L), Disjoint(t), NEW rs \in SUBSET Routes, Holds(t, L, rs),
         NEW r \in Routes, Again(rs, r), NEW v \in 1..Len(t), NEW s \in Seq(Marks),
         IsPrefix(s, Flat(r)), IsPrefix(Label(L, v), s), Len(Label(L, v)) < Len(s)
  PROVE  \E d \in 1..Len(t) :
           /\ Child(t, v, d) /\ IsPrefix(Label(L, d), Flat(r))
           /\ Label(L, d)[Len(Label(L, v)) + 1] = s[Len(Label(L, v)) + 1]
<1>1. PICK q \in rs, u \in 1..Len(t) :
           /\ q.verb = r.verb /\ Label(L, u) \in Seq(Marks)
           /\ \/ q \in RoutesAt(t, u) /\ Flat(r) = Label(L, u)
              \/ q \in WildcardAt(t, u) /\ Flat(r) = Label(L, u) \o <<"wildcard">>
           /\ \A x \in Seq(Marks) : IsPrefix(x, Flat(r)) => IsPrefix(x, Label(L, u))
  BY HeldAgain
<1> DEFINE l == Label(L, v)
           m == Label(L, u)
           i == Len(l) + 1
<1>2. l \in Seq(Marks) /\ m \in Seq(Marks) /\ Len(l) \in Nat /\ Len(s) \in Nat /\ Len(m) \in Nat
  BY TreeIs
<1>3. IsPrefix(s, m) /\ IsPrefix(m, Flat(r))
  <2>1. IsPrefix(m, m)
    BY <1>2, IsPrefixIf
  <2>2. IsPrefix(m, m \o <<"wildcard">>)
    <3>1. m \in Seq(Symbols) /\ <<"wildcard">> \in Seq(Symbols)
      <4>1. Marks \subseteq Symbols
        BY DEF Marks, Symbols
      <4> HIDE DEF m
      <4> QED BY <1>2, <4>1 DEF Symbols
    <3> HIDE DEF m
    <3> QED BY <3>1, ConcatIs
  <2> QED BY <1>1, <2>1, <2>2
<1>4. IsPrefix(l, m) /\ IsPrefix(l, s)
  <2>1. IsPrefix(l, s)
    OBVIOUS
  <2> HIDE DEF l, m
  <2> QED BY <1>2, <1>3, <2>1, PrefixOfPrefix
<1>5. v # u
  <2>1. Len(s) <= Len(m)
    BY <1>2, <1>3, PrefixMeans
  <2> QED BY <1>2, <2>1
<1>6. PICK d \in 1..Len(t) : Child(t, v, d) /\ IsPrefix(Label(L, d), m)
  BY <1>4, <1>5, Descent
<1> DEFINE k == Label(L, d)
<1>7. k \in Seq(Marks) /\ Len(l) < Len(k) /\ Len(k) \in Nat
  <2>1. d \in Nat
    BY TreeIs
  <2> QED BY <1>6, <2>1, ChildLabel
<1>8. IsPrefix(k, m)
  BY <1>6
<1>81. Len(l) < Len(s)
  OBVIOUS
<1> HIDE DEF l, m, k
<1>9. i \in 1..Len(s) /\ i \in 1..Len(k)
  BY <1>2, <1>7, <1>81
<1>10. s[i] = m[i]
  <2> HIDE DEF i
  <2> QED BY <1>2, <1>3, <1>9, SymbolAt
<1>11. k[i] = m[i]
  <2> HIDE DEF i
  <2> QED BY <1>2, <1>7, <1>8, <1>9, SymbolAt
<1>12. IsPrefix(k, Flat(r))
  <2>1. Flat(r) \in Seq(Symbols)
    BY FlatIs
  <2>2. Marks \subseteq Symbols
    BY DEF Marks, Symbols
  <2>3. k \in Seq(Symbols) /\ m \in Seq(Symbols)
    BY <1>2, <1>7, <2>2
  <2> QED BY <1>3, <1>8, <2>1, <2>3, PrefixOfPrefix
<1> QED BY <1>6, <1>10, <1>11, <1>12 DEF k, l

\* The symbols a static child adds are characters.
LEMMA StaticSymbols ==
  ASSUME NEW t, NEW L, IsTree(t, L), NEW v \in 1..Len(t), NEW d \in Nat, StaticChild(t, v, d),
         NEW x \in (Len(Label(L, v)) + 1)..Len(Label(L, d))
  PROVE  Label(L, d)[x] \in Chars
<1> DEFINE l == Label(L, v)
           p == Prefix(t, d)
           k == Label(L, d)
           i == x - Len(l)
<1>1. /\ l \in Seq(Marks) /\ p \in Seq(Marks) /\ p \in Seq(Chars) /\ k = l \o p
      /\ Len(k) = Len(l) + Len(p) /\ Len(l) \in Nat /\ Len(p) \in Nat
  BY StaticLabel
<1>2. x \in (Len(l) + 1)..Len(k)
  OBVIOUS
<1> HIDE DEF l, p, k
<1>3. i \in 1..Len(p) /\ x = Len(l) + i
  BY <1>1, <1>2
<1> HIDE DEF i
<1>4. \A y \in 1..Len(p) : (l \o p)[Len(l) + y] = p[y]
  BY <1>1, ConcatIs
<1>5. k[x] = p[i]
  BY <1>1, <1>3, <1>4
<1>6. p[i] \in Chars
  BY <1>1, <1>3
<1> QED BY <1>5, <1>6 DEF k

\* A child on the way of a text is static, and its text starts that one.
LEMMA ChildFits ==
  ASSUME NEW t, NEW L, IsTree(t, L), NEW v \in 1..Len(t), NEW d \in Nat, Child(t, v, d),
         NEW text \in Seq(Chars), text # << >>,
         IsPrefix(Label(L, d), Label(L, v) \o text)
  PROVE  StaticChild(t, v, d) /\ IsPrefix(Prefix(t, d), text)
<1> DEFINE l == Label(L, v)
           k == Label(L, d)
           s == l \o text
           i == Len(l) + 1
<1>1. /\ l \in Seq(Marks) /\ k \in Seq(Marks) /\ Len(l) < Len(k)
      /\ Len(l) \in Nat /\ Len(k) \in Nat
  BY ChildLabel
<1>2. text \in Seq(Marks) /\ Len(text) \in Nat /\ 1 \in 1..Len(text) /\ text[1] \in Chars
  BY DEF Marks
<1>3. IsPrefix(k, s)
  OBVIOUS
<1>4. s \in Seq(Marks) /\ s[i] = text[1]
  <2> HIDE DEF l
  <2>1. l \o text \in Seq(Marks) /\ \A y \in 1..Len(text) : (l \o text)[Len(l) + y] = text[y]
    BY <1>1, <1>2, ConcatIs
  <2> QED BY <1>2, <2>1
<1>5. StaticChild(t, v, d)
  <2> SUFFICES ASSUME ParamChild(t, v, d) PROVE FALSE
    BY DEF Child
  <2>1. k[i] = "param"
    BY ParamLabel
  <2> HIDE DEF l, k, s
  <2>2. i \in 1..Len(k)
    BY <1>1
  <2> HIDE DEF i
  <2>3. s[i] = k[i]
    BY <1>1, <1>3, <1>4, <2>2, SymbolAt
  <2> QED BY <1>2, <1>4, <2>1, <2>3, MarksAreNoChars
<1> DEFINE p == Prefix(t, d)
<1>6. p \in Seq(Marks) /\ k = l \o p
  BY <1>5, StaticLabel
<1> HIDE DEF l, p, k
<1>7. IsPrefix(l \o p, l \o text)
  BY <1>3, <1>6
<1>8. IsPrefix(p, text)
  BY <1>1, <1>2, <1>6, <1>7, PrefixBehind
<1> QED BY <1>5, <1>8 DEF p

\* Where a call is with a text, in symbols: s up to the end of the text, l up to here.
TextIs(v, i, text, r, t, s, l) ==
  /\ v \in 1..Len(t) /\ i \in 1..Len(r.tokens) /\ r.tokens[i].kind = "static"
  /\ text \in Seq(Chars) /\ text \in Seq(Marks) /\ s = l \o text
  /\ l \in Seq(Marks) /\ s \in Seq(Marks) /\ IsPrefix(s, Flat(r)) /\ IsPrefix(l, s)
  /\ Len(l) \in Nat /\ Len(s) \in Nat /\ Len(l) < Len(s)
  /\ s[Len(l) + 1] \in Chars
  /\ \/ Flat(r) = s
     \/ Len(s) < Len(Flat(r)) /\ Flat(r)[Len(s) + 1] \in {"param", "wildcard"}

\* Each call that has one is.
LEMMA TextAt ==
  ASSUME NEW t, NEW L, IsTree(t, L), NEW r \in Routes, NEW v, NEW i, NEW text, text # << >>,
         IsAt(t, v, i, TRUE, text, r, L)
  PROVE  TextIs(v, i, text, r, t, FlatTo(r, i), Label(L, v))
<1> DEFINE s == FlatTo(r, i)
           l == Label(L, v)
<1>1. /\ v \in 1..Len(t) /\ i \in 1..Len(r.tokens) /\ r.tokens[i].kind = "static"
      /\ text \in Seq(Chars) /\ s = l \o text
  BY DEF IsAt
<1>2. l \in Seq(Marks) /\ Len(l) \in Nat
  BY <1>1, TreeIs
<1>3. text \in Seq(Marks) /\ Len(text) \in Nat /\ Len(text) # 0 /\ 1 \in 1..Len(text)
      /\ text[1] \in Chars
  BY <1>1 DEF Marks
<1>4. /\ s \in Seq(Marks) /\ IsPrefix(l, s) /\ Len(s) = Len(l) + Len(text)
      /\ s[Len(l) + 1] = text[1]
  <2> HIDE DEF l
  <2>1. /\ l \o text \in Seq(Marks) /\ IsPrefix(l, l \o text)
        /\ Len(l \o text) = Len(l) + Len(text)
        /\ \A y \in 1..Len(text) : (l \o text)[Len(l) + y] = text[y]
    BY <1>2, <1>3, ConcatIs
  <2> QED BY <1>1, <1>3, <2>1
<1>5. IsPrefix(s, Flat(r))
  <2>1. Len(r.tokens) \in 0..Len(r.tokens) /\ i \in 0..Len(r.tokens)
        /\ FlatTo(r, Len(r.tokens)) = Flat(r)
    BY <1>1, TokensAre, FlatIs
  <2>2. IsPrefix(FlatTo(r, i), FlatTo(r, Len(r.tokens)))
    BY <2>1, FlatToPrefix
  <2> QED BY <2>1, <2>2
<1>6. \/ Flat(r) = s
      \/ Len(s) < Len(Flat(r)) /\ Flat(r)[Len(s) + 1] \in {"param", "wildcard"}
  BY <1>1, TextEnds
<1>7. Len(l) < Len(s) /\ Len(s) \in Nat
  <2> HIDE DEF l, s
  <2> QED BY <1>2, <1>3, <1>4
<1> QED BY <1>1, <1>2, <1>3, <1>4, <1>5, <1>6, <1>7, Zenon DEF TextIs

\* If a route of the same pattern is held a child's text starts the rest of the text.
LEMMA AgainFits ==
  ASSUME NEW t, NEW L, IsTree(t, L), Disjoint(t), NEW rs \in SUBSET Routes, Holds(t, L, rs),
         NEW r \in Routes, Again(rs, r), NEW v, NEW i, NEW text, text # << >>,
         IsAt(t, v, i, TRUE, text, r, L)
  PROVE  \E d \in Nat : StaticChild(t, v, d) /\ IsPrefix(Prefix(t, d), text)
<1> DEFINE s == FlatTo(r, i)
           l == Label(L, v)
<1>1. /\ v \in 1..Len(t)
      /\ text \in Seq(Chars) /\ text \in Seq(Marks) /\ s = l \o text
      /\ l \in Seq(Marks) /\ s \in Seq(Marks) /\ IsPrefix(s, Flat(r)) /\ IsPrefix(l, s)
      /\ Len(l) \in Nat /\ Len(s) \in Nat /\ Len(l) < Len(s)
      /\ s[Len(l) + 1] \in Chars
      /\ \/ Flat(r) = s
         \/ Len(s) < Len(Flat(r)) /\ Flat(r)[Len(s) + 1] \in {"param", "wildcard"}
  <2>1. TextIs(v, i, text, r, t, s, l)
    BY TextAt, Zenon
  <2> HIDE DEF s, l
  <2> QED BY <2>1, Zenon DEF TextIs
<1>2. PICK d \in 1..Len(t) :
           /\ Child(t, v, d) /\ IsPrefix(Label(L, d), Flat(r))
           /\ Label(L, d)[Len(l) + 1] = s[Len(l) + 1]
  <2>1. v \in 1..Len(t) /\ s \in Seq(Marks)
    BY <1>1, Zenon
  <2>2. IsPrefix(s, Flat(r)) /\ IsPrefix(Label(L, v), s) /\ Len(Label(L, v)) < Len(s)
    BY <1>1, Zenon
  <2> HIDE DEF s
  <2> QED BY <2>1, <2>2, AgainLeadsOn
<1> DEFINE k == Label(L, d)
<1>3. d \in Nat
  BY TreeIs
<1>4. k \in Seq(Marks) /\ Len(k) \in Nat
  BY TreeIs
<1>5. StaticChild(t, v, d)
  <2> SUFFICES ASSUME ParamChild(t, v, d) PROVE FALSE
    BY <1>2 DEF Child
  <2>1. k[Len(l) + 1] = "param"
    BY <1>1, <1>3, ParamLabel
  <2> QED BY <1>1, <1>2, <2>1, MarksAreNoChars
<1>6. Flat(r) \in Seq(Symbols) /\ k \in Seq(Symbols) /\ s \in Seq(Symbols)
      /\ Len(Flat(r)) \in Nat
  <2>1. Marks \subseteq Symbols
    BY DEF Marks, Symbols
  <2>2. Flat(r) \in Seq(Symbols)
    BY FlatIs
  <2> HIDE DEF k, s
  <2> QED BY <1>1, <1>4, <2>1, <2>2
<1>7. Len(k) <= Len(s)
  <2> SUFFICES ASSUME Len(k) > Len(s) PROVE FALSE
    BY <1>1, <1>4
  <2>1. Len(k) <= Len(Flat(r)) /\ \A x \in 1..Len(k) : k[x] = Flat(r)[x]
    BY <1>2, <1>6, PrefixMeans
  <2>2. \A x \in (Len(l) + 1)..Len(k) : k[x] \in Chars
    BY <1>1, <1>3, <1>5, StaticSymbols
  <2> DEFINE y == Len(s) + 1
             F == Flat(r)
  <2>20. \/ F = s
         \/ Len(s) < Len(F) /\ F[y] \in {"param", "wildcard"}
    BY <1>1
  <2> HIDE DEF l, k, s, F
  <2>3. y \in (Len(l) + 1)..Len(k) /\ y \in 1..Len(k)
    BY <1>1, <1>4
  <2> HIDE DEF y
  <2>4. k[y] \in Chars /\ k[y] = F[y] /\ Len(k) <= Len(F)
    BY <2>1, <2>2, <2>3 DEF F
  <2>5. F # s
    BY <1>1, <1>4, <2>4
  <2> QED BY <2>20, <2>4, <2>5, MarksAreNoChars
<1>8. IsPrefix(k, s)
  BY <1>1, <1>2, <1>6, <1>7, PrefixesCompare
<1>9. IsPrefix(Prefix(t, d), text)
  BY <1>1, <1>2, <1>3, <1>8, ChildFits
<1> QED BY <1>3, <1>5, <1>9

\* So does one if the text ends within a child's and no text ends within another's.
LEMMA ShortFits ==
  ASSUME NEW t, NEW L, IsTree(t, L), Disjoint(t), NEW rs \in SUBSET Routes,
         HasCuts(t, L, rs), NEW r \in Routes, Labelled(t, L, rs \cup {r}),
         NEW t0, Short(t0, rs, r), NEW v, NEW i, NEW text, text # << >>,
         IsAt(t, v, i, TRUE, text, r, L),
         NEW c \in Nat, StaticChild(t, v, c), IsPrefix(text, Prefix(t, c)), text # Prefix(t, c)
  PROVE  \E d \in Nat : StaticChild(t, v, d) /\ IsPrefix(Prefix(t, d), text)
<1> DEFINE s == FlatTo(r, i)
           l == Label(L, v)
           k == Label(L, c)
           p == Prefix(t, c)
           y == Len(s) + 1
<1>1. /\ v \in 1..Len(t) /\ i \in 1..Len(r.tokens) /\ r.tokens[i].kind = "static"
      /\ text \in Seq(Chars) /\ text \in Seq(Marks) /\ s = l \o text
      /\ l \in Seq(Marks) /\ s \in Seq(Marks) /\ IsPrefix(s, Flat(r)) /\ IsPrefix(l, s)
      /\ Len(l) \in Nat /\ Len(s) \in Nat /\ Len(l) < Len(s)
      /\ \/ Flat(r) = s
         \/ Len(s) < Len(Flat(r)) /\ Flat(r)[y] \in {"param", "wildcard"}
  <2>1. TextIs(v, i, text, r, t, s, l)
    BY TextAt, Zenon
  <2> HIDE DEF s, l
  <2> QED BY <2>1, Zenon DEF TextIs
<1>2. /\ c \in 1..Len(t) /\ p \in Seq(Marks) /\ k = l \o p
      /\ k \in Seq(Marks) /\ Len(k) \in Nat
  <2>1. v \in 1..Len(t)
    BY <1>1
  <2>2. c \in 1..Len(t) /\ p \in Seq(Marks) /\ k = l \o p
    BY <2>1, StaticLabel
  <2>3. k \in Seq(Marks) /\ Len(k) \in Nat
    BY <2>2, TreeIs
  <2> QED BY <2>2, <2>3
<1>3. IsPrefix(s, k) /\ s # k
  <2>1. IsPrefix(text, p) /\ text # p
    OBVIOUS
  <2> HIDE DEF l, p, k, s
  <2>2. IsPrefix(l \o text, l \o p)
    BY <1>1, <1>2, <2>1, PrefixBehind
  <2>3. IsPrefix(p, text) <=> IsPrefix(l \o p, l \o text)
    BY <1>1, <1>2, PrefixBehind
  <2>4. l \o text # l \o p
    <3> SUFFICES ASSUME l \o text = l \o p PROVE FALSE
      OBVIOUS
    <3>1. IsPrefix(l \o p, l \o text)
      BY <2>2
    <3>2. IsPrefix(p, text)
      BY <2>3, <3>1
    <3>3. Len(text) <= Len(p) /\ \A x \in 1..Len(text) : text[x] = p[x]
      BY <1>1, <1>2, <2>1, PrefixMeans
    <3>4. Len(p) <= Len(text)
      BY <1>1, <1>2, <3>2, PrefixMeans
    <3>5. text = p
      BY <1>1, <1>2, <3>3, <3>4, SMTT(40)
    <3> QED BY <2>1, <3>5
  <2> QED BY <1>1, <1>2, <2>2, <2>4
<1>4. Len(s) < Len(k) /\ y \in 1..Len(k) /\ k[y] \in Chars
  <2>1. \A x \in (Len(l) + 1)..Len(k) : k[x] \in Chars
    BY <1>1, StaticSymbols
  <2> HIDE DEF l, k, s
  <2>2. Len(s) <= Len(k) /\ \A x \in 1..Len(s) : s[x] = k[x]
    BY <1>1, <1>2, <1>3, PrefixMeans
  <2>3. s \in Seq(Marks) /\ k \in Seq(Marks) /\ s # k
    BY <1>1, <1>2, <1>3
  <2>4. Len(s) # Len(k)
    BY <2>2, <2>3
  <2>5. Len(l) \in Nat /\ Len(s) \in Nat /\ Len(k) \in Nat /\ Len(l) < Len(s)
        /\ Len(s) <= Len(k)
    BY <1>1, <1>2, <2>2
  <2>6. y \in (Len(l) + 1)..Len(k) /\ y \in 1..Len(k) /\ Len(s) < Len(k)
    BY <2>4, <2>5
  <2> QED BY <2>1, <2>6
<1>5. PICK q \in rs \cup {r} : IsPrefix(k, Flat(q))
  <2>1. c # 1
    <3>1. Label(L, 1) = << >>
      BY TreeIs
    <3> QED BY <1>1, <1>4, <3>1
  <2>2. c \in 2..Len(t)
    BY <1>2, <2>1
  <2> QED BY <2>2 DEF Labelled
<1>6. q \in Routes /\ Flat(q) \in Seq(Symbols) /\ k \in Seq(Symbols) /\ s \in Seq(Symbols)
  <2>1. Marks \subseteq Symbols
    BY DEF Marks, Symbols
  <2>2. q \in Routes
    OBVIOUS
  <2>3. Flat(q) \in Seq(Symbols)
    BY <2>2, FlatIs
  <2> HIDE DEF k, s
  <2>4. s \in Seq(Marks) /\ k \in Seq(Marks)
    BY <1>1, <1>2
  <2>5. s \in Seq(Symbols) /\ k \in Seq(Symbols)
    BY <2>1, <2>4
  <2> QED BY <2>2, <2>3, <2>5
<1> HIDE DEF y
<1>7. Len(k) <= Len(Flat(q)) /\ Flat(q)[y] = k[y]
  <2>1. Len(k) <= Len(Flat(q)) /\ \A x \in 1..Len(k) : k[x] = Flat(q)[x]
    BY <1>5, <1>6, PrefixMeans
  <2> QED BY <1>4, <2>1
<1>8. q # r
  <2> SUFFICES ASSUME q = r PROVE FALSE
    OBVIOUS
  <2>1. Len(k) <= Len(Flat(r)) /\ Flat(r)[y] \in Chars
    BY <1>4, <1>7
  <2>2. Flat(r) # s
    BY <1>1, <1>2, <1>4, <2>1
  <2> QED BY <1>1, <2>1, <2>2, MarksAreNoChars
<1>9. s \in Cuts(r)
  BY <1>1, CutsAre
<1>10. IsStrictPrefix(s, Flat(q))
  <2>1. IsPrefix(s, Flat(q))
    BY <1>3, <1>5, <1>6, PrefixOfPrefix
  <2>2. s # Flat(q)
    BY <1>1, <1>2, <1>4, <1>7
  <2> QED BY <2>1, <2>2 DEF IsStrictPrefix
<1>11. s \in Cuts(q)
  <2>1. s \in Cuts(q) \/ Flat(q)[Len(s) + 1] \in {"param", "wildcard"}
    BY <1>8, <1>9, <1>10 DEF Short
  <2>2. Flat(q)[Len(s) + 1] \in Chars
    BY <1>4, <1>7 DEF y
  <2> QED BY <2>1, <2>2, MarksAreNoChars
<1>12. PICK w \in 1..Len(t) : Label(L, w) = s
  BY <1>8, <1>11 DEF HasCuts
<1>13. v # w
  BY <1>1, <1>12
<1>14. PICK d \in 1..Len(t) : Child(t, v, d) /\ IsPrefix(Label(L, d), Label(L, w))
  BY <1>1, <1>12, <1>13, Descent
<1>15. d \in Nat /\ IsPrefix(Label(L, d), l \o text)
  BY <1>1, <1>12, <1>14, TreeIs
<1>16. StaticChild(t, v, d) /\ IsPrefix(Prefix(t, d), text)
  BY <1>1, <1>14, <1>15, ChildFits
<1> QED BY <1>15, <1>16

\* Each call leaves room for fewer.
LEMMA RoomShrinks ==
  ASSUME NEW r \in Routes, NEW t, NEW L, IsTree(t, L), NEW v \in 1..Len(t),
         NEW t2, NEW L2, IsTree(t2, L2), NEW w \in 1..Len(t2), NEW i \in 1..Len(r.tokens)
  PROVE  /\ Len(Label(L, v)) <= Len(Label(L2, w)) =>
              /\ Room(r, L2, w, i + 1, FALSE) + 1 <= Room(r, L, v, i, FALSE)
              /\ Room(r, L2, w, i + 1, FALSE) + 1 <= Room(r, L, v, i, TRUE)
         /\ Len(Label(L, v)) = Len(Label(L2, w)) =>
              Room(r, L2, w, i, TRUE) + 1 <= Room(r, L, v, i, FALSE)
         /\ Len(Label(L, v)) < Len(Label(L2, w)) =>
              Room(r, L2, w, i, TRUE) + 1 <= Room(r, L, v, i, TRUE)
<1>1. Len(Flat(r)) \in Nat
  <2>1. Flat(r) \in Seq(Symbols)
    BY FlatIs
  <2> QED BY <2>1
<1>2. Len(Label(L, v)) \in Nat
  BY TreeIs
<1>3. Len(Label(L2, w)) \in Nat
  BY TreeIs
<1>4. Len(r.tokens) \in Nat /\ i \in Nat
  BY TokensAre
<1> DEFINE a == Len(Flat(r))
           b == Len(Label(L, v))
           c == Len(Label(L2, w))
           n == Len(r.tokens)
<1>5. /\ Room(r, L2, w, i + 1, FALSE) = a - c + 2 * (n + 1 - (i + 1)) + 1
      /\ Room(r, L, v, i, FALSE) = a - b + 2 * (n + 1 - i) + 1
      /\ Room(r, L2, w, i, TRUE) = a - c + 2 * (n + 1 - i) + 0
      /\ Room(r, L, v, i, TRUE) = a - b + 2 * (n + 1 - i) + 0
  BY DEF Room
<1>6. a \in Nat /\ b \in Nat /\ c \in Nat /\ n \in Nat /\ i \in Nat
  BY <1>1, <1>2, <1>3, <1>4
<1> HIDE DEF a, b, c, n
<1> DEFINE x == a - c + 2 * (n + 1 - i)
           y == a - b + 2 * (n + 1 - i)
<1>7. /\ a - c + 2 * (n + 1 - (i + 1)) + 1 = x - 1 /\ y + 0 = y /\ x + 0 = x
      /\ x \in Int /\ y \in Int
      /\ b <= c => x <= y
      /\ b < c => x + 1 <= y
  BY <1>6
<1>8. /\ Room(r, L2, w, i + 1, FALSE) = x - 1 /\ Room(r, L, v, i, FALSE) = y + 1
      /\ Room(r, L2, w, i, TRUE) = x /\ Room(r, L, v, i, TRUE) = y
  BY <1>5, <1>7, Zenon
<1>9. b = c => x = y
  OBVIOUS
<1> HIDE DEF x, y
<1>10. /\ b <= c => (x - 1) + 1 <= y + 1 /\ (x - 1) + 1 <= y
       /\ b = c => x + 1 <= y + 1
       /\ b < c => x + 1 <= y
  BY <1>7, <1>9
<1> QED BY <1>8, <1>10, Zenon DEF b, c

\* The end of a text.
LEMMA EmptyStep ==
  ASSUME NEW t, NEW v, NEW i, NEW r \in Routes, NEW t0, NEW rs, NEW L,
         Going(t, v, i, TRUE, << >>, r, t0, rs, L)
  PROVE  /\ Going(t, v, i + 1, FALSE, << >>, r, t0, rs, L)
         /\ Room(r, L, v, i + 1, FALSE) + 1 <= Room(r, L, v, i, TRUE)
<1>1. Growing(t, L, t0, rs, r) /\ Holds(t, L, rs) /\ HasCuts(t, L, rs) /\ IsTree(t, L)
      /\ (Disjoint(t0) /\ Again(rs, r) => t = t0)
  BY DEF Going, Growing
<1>2. /\ v \in 1..Len(t) /\ i \in 1..Len(r.tokens) /\ r.tokens[i].kind = "static"
      /\ Label(L, v) \o << >> = FlatTo(r, i)
      /\ \A j \in 1..(i - 1) : r.tokens[j].kind = "static" =>
           \E w \in 1..Len(t) : Label(L, w) = FlatTo(r, j)
  BY DEF Going, IsAt
<1>3. Label(L, v) = FlatTo(r, i)
  <2>1. Label(L, v) \in Seq(Marks)
    BY <1>1, <1>2, TreeIs
  <2>2. \A s \in Seq(Marks) : s \o << >> = s
    OBVIOUS
  <2> QED BY <1>2, <2>1, <2>2
<1>4. Len(r.tokens) \in Nat /\ i \in Nat /\ i + 1 \in 1..(Len(r.tokens) + 1) /\ i + 1 \in Nat
      /\ (i + 1) - 1 = i
  BY <1>2, TokensAre
<1>5. IsAt(t, v, i + 1, FALSE, << >>, r, L)
  <2>1. \A j \in 1..((i + 1) - 1) : j \in 1..(i - 1) \/ j = i
    BY <1>4
  <2>2. \A j \in 1..((i + 1) - 1) : r.tokens[j].kind = "static" =>
           \E w \in 1..Len(t) : Label(L, w) = FlatTo(r, j)
    BY <1>2, <1>3, <2>1, Zenon
  <2> QED BY <1>2, <1>3, <1>4, <2>2 DEF IsAt
<1>6. t = t0 \/ Blank(t, v, i + 1, FALSE, r)
  <2>1. t = t0 \/ Blank(t, v, i, TRUE, r)
    BY DEF Going
  <2> QED BY <2>1 DEF Blank
<1>7. Room(r, L, v, i + 1, FALSE) + 1 <= Room(r, L, v, i, TRUE)
  <2>1. IsTree(t, L) /\ v \in 1..Len(t) /\ i \in 1..Len(r.tokens) /\ Len(Label(L, v)) \in Nat
    BY <1>1, <1>2, TreeIs
  <2>2. Len(Label(L, v)) <= Len(Label(L, v))
    BY <2>1
  <2> QED BY <2>1, <2>2, RoomShrinks
<1> QED BY <1>1, <1>5, <1>6, <1>7 DEF Going

\* The beginning of a text.
LEMMA TextStep ==
  ASSUME NEW t, NEW v, NEW i, NEW text, NEW r \in Routes, NEW t0, NEW rs, NEW L,
         Going(t, v, i, FALSE, text, r, t0, rs, L), i # Len(r.tokens) + 1,
         r.tokens[i].kind = "static"
  PROVE  /\ Going(t, v, i, TRUE, r.tokens[i].text, r, t0, rs, L)
         /\ Room(r, L, v, i, TRUE) + 1 <= Room(r, L, v, i, FALSE)
<1>1. Growing(t, L, t0, rs, r) /\ Holds(t, L, rs) /\ HasCuts(t, L, rs) /\ IsTree(t, L)
      /\ (Disjoint(t0) /\ Again(rs, r) => t = t0)
  BY DEF Going, Growing
<1>2. /\ v \in 1..Len(t) /\ i \in 1..(Len(r.tokens) + 1)
      /\ Label(L, v) = FlatTo(r, i - 1)
      /\ \A j \in 1..(i - 1) : r.tokens[j].kind = "static" =>
           \E w \in 1..Len(t) : Label(L, w) = FlatTo(r, j)
  BY DEF Going, IsAt
<1>3. i \in 1..Len(r.tokens) /\ Len(r.tokens) \in Nat /\ i \in Nat
  BY <1>2, TokensAre
<1>4. r.tokens[i].text \in Seq(Chars) /\ Label(L, v) \o r.tokens[i].text = FlatTo(r, i)
  <2>1. r.tokens[i].text \in Seq(Chars)
    BY <1>3, TokensAre
  <2>2. Piece(r, i) = r.tokens[i].text
    BY <1>3, PieceIs
  <2>3. FlatTo(r, i) = FlatTo(r, i - 1) \o Piece(r, i)
    BY <1>3, FlatIs
  <2> QED BY <1>2, <2>1, <2>2, <2>3
<1>5. IsAt(t, v, i, TRUE, r.tokens[i].text, r, L)
  BY <1>2, <1>3, <1>4 DEF IsAt
<1>6. t = t0 \/ Blank(t, v, i, TRUE, r)
  <2>1. t = t0 \/ Blank(t, v, i, FALSE, r)
    BY DEF Going
  <2> QED BY <2>1 DEF Blank
<1>7. Room(r, L, v, i, TRUE) + 1 <= Room(r, L, v, i, FALSE)
  <2>1. IsTree(t, L) /\ v \in 1..Len(t) /\ i \in 1..Len(r.tokens)
    BY <1>1, <1>2, <1>3
  <2> QED BY <2>1, RoomShrinks
<1> QED BY <1>1, <1>5, <1>6, <1>7 DEF Going

\* A child's text is taken off.
LEMMA DescendStep ==
  ASSUME NEW t, NEW v, NEW i, NEW text, NEW r \in Routes, NEW t0, NEW rs, NEW L,
         Going(t, v, i, TRUE, text, r, t0, rs, L),
         NEW c \in Nat, StaticChild(t, v, c), IsPrefix(Prefix(t, c), text)
  PROVE  /\ Going(t, c, i, TRUE, Rest(text, Len(Prefix(t, c))), r, t0, rs, L)
         /\ Rest(text, Len(Prefix(t, c))) \in Seq(Chars)
         /\ Room(r, L, c, i, TRUE) + 1 <= Room(r, L, v, i, TRUE)
<1> DEFINE p == Prefix(t, c)
           rest == Rest(text, Len(p))
<1>1. Growing(t, L, t0, rs, r) /\ Holds(t, L, rs) /\ HasCuts(t, L, rs) /\ IsTree(t, L)
      /\ (Disjoint(t0) /\ Again(rs, r) => t = t0)
  BY DEF Going, Growing
<1>2. /\ v \in 1..Len(t) /\ i \in 1..(Len(r.tokens) + 1)
      /\ i \in 1..Len(r.tokens) /\ r.tokens[i].kind = "static"
      /\ text \in Seq(Chars) /\ Label(L, v) \o text = FlatTo(r, i)
      /\ \A j \in 1..(i - 1) : r.tokens[j].kind = "static" =>
           \E w \in 1..Len(t) : Label(L, w) = FlatTo(r, j)
  BY DEF Going, IsAt
<1>3. /\ c \in 1..Len(t) /\ p \in Seq(Chars) /\ p \in Seq(Marks)
      /\ Label(L, v) \in Seq(Marks) /\ Len(p) \in Nat /\ Len(p) # 0
      /\ Label(L, c) = Label(L, v) \o p /\ Len(Label(L, c)) = Len(Label(L, v)) + Len(p)
  BY <1>1, <1>2, StaticLabel
<1>31. IsPrefix(p, text)
  OBVIOUS
<1>4. rest \in Seq(Chars) /\ p \o rest = text
  <2> HIDE DEF p
  <2>1. Len(p) \in 0..Len(text) /\ p \o Rest(text, Len(p)) = text
    BY <1>2, <1>3, <1>31, RestJoins
  <2>2. rest \in Seq(Chars)
    BY <1>2, <2>1, RestIs
  <2> QED BY <2>1, <2>2
<1>5. Label(L, c) \o rest = FlatTo(r, i)
  <2>1. Chars \subseteq Marks
    BY DEF Marks
  <2> HIDE DEF p, rest
  <2>2. rest \in Seq(Marks)
    BY <1>4, <2>1
  <2>3. (Label(L, v) \o p) \o rest = Label(L, v) \o (p \o rest)
    BY <1>3, <2>2, MarksRegroup
  <2> QED BY <1>2, <1>3, <1>4, <2>3
<1>6. IsAt(t, c, i, TRUE, rest, r, L)
  <2> HIDE DEF rest, p
  <2> QED BY <1>2, <1>3, <1>4, <1>5 DEF IsAt
<1>7. t = t0
  <2>1. ~Blank(t, v, i, TRUE, r)
    <3>1. Statics(t, v) # << >>
      BY DEF StaticChild
    <3> QED BY <3>1 DEF Blank
  <2> QED BY <2>1 DEF Going
<1>8. Room(r, L, c, i, TRUE) + 1 <= Room(r, L, v, i, TRUE)
  <2>1. IsTree(t, L) /\ v \in 1..Len(t) /\ c \in 1..Len(t) /\ i \in 1..Len(r.tokens)
        /\ Len(Label(L, v)) \in Nat
    BY <1>1, <1>2, <1>3, TreeIs
  <2>2. Len(Label(L, v)) < Len(Label(L, c))
    <3> DEFINE m == Len(p)
               a == Len(Label(L, v))
               b == Len(Label(L, c))
    <3>1. b = a + m /\ m \in Nat /\ m # 0 /\ a \in Nat
      BY <1>3, <2>1
    <3> HIDE DEF m, a, b
    <3>2. a < b
      BY <3>1
    <3> QED BY <3>2 DEF a, b
  <2> QED BY <2>1, <2>2, RoomShrinks
<1> QED BY <1>1, <1>4, <1>6, <1>7, <1>8, Zenon DEF Going

\* A parameter's child is there.
LEMMA ParamStep ==
  ASSUME NEW t, NEW v, NEW i, NEW text, NEW r \in Routes, NEW t0, NEW rs, NEW L,
         Going(t, v, i, FALSE, text, r, t0, rs, L), i # Len(r.tokens) + 1,
         r.tokens[i].kind = "param", NEW c \in Nat, ParamChild(t, v, c)
  PROVE  /\ Going(t, c, i + 1, FALSE, << >>, r, t0, rs, L)
         /\ Room(r, L, c, i + 1, FALSE) + 1 <= Room(r, L, v, i, FALSE)
<1>1. Growing(t, L, t0, rs, r) /\ Holds(t, L, rs) /\ HasCuts(t, L, rs) /\ IsTree(t, L)
      /\ (Disjoint(t0) /\ Again(rs, r) => t = t0)
  BY DEF Going, Growing
<1>2. /\ v \in 1..Len(t) /\ i \in 1..(Len(r.tokens) + 1)
      /\ Label(L, v) = FlatTo(r, i - 1)
      /\ \A j \in 1..(i - 1) : r.tokens[j].kind = "static" =>
           \E w \in 1..Len(t) : Label(L, w) = FlatTo(r, j)
  BY DEF Going, IsAt
<1>3. i \in 1..Len(r.tokens) /\ Len(r.tokens) \in Nat /\ i \in Nat
      /\ i + 1 \in 1..(Len(r.tokens) + 1) /\ i + 1 \in Nat /\ (i + 1) - 1 = i
  BY <1>2, TokensAre
<1>4. /\ c \in 1..Len(t) /\ Label(L, c) = Label(L, v) \o <<"param">>
      /\ Len(Label(L, c)) = Len(Label(L, v)) + 1
  BY <1>1, <1>2, ParamLabel
<1>5. Label(L, c) = FlatTo(r, i)
  <2>1. Piece(r, i) = <<"param">>
    BY <1>3, PieceIs
  <2>2. FlatTo(r, i) = FlatTo(r, i - 1) \o Piece(r, i)
    BY <1>3, FlatIs
  <2> QED BY <1>2, <1>4, <2>1, <2>2
<1>6. IsAt(t, c, i + 1, FALSE, << >>, r, L)
  <2>1. \A j \in 1..((i + 1) - 1) : j \in 1..(i - 1) \/ j = i
    BY <1>3
  <2>2. \A j \in 1..((i + 1) - 1) : r.tokens[j].kind = "static" =>
           \E w \in 1..Len(t) : Label(L, w) = FlatTo(r, j)
    BY <1>2, <1>4, <1>5, <2>1, Zenon
  <2> QED BY <1>3, <1>4, <1>5, <2>2 DEF IsAt
<1>7. t = t0
  <2>1. ~Blank(t, v, i, FALSE, r)
    BY DEF ParamChild, Blank
  <2> QED BY <2>1 DEF Going
<1>8. Room(r, L, c, i + 1, FALSE) + 1 <= Room(r, L, v, i, FALSE)
  <2>1. IsTree(t, L) /\ v \in 1..Len(t) /\ c \in 1..Len(t) /\ i \in 1..Len(r.tokens)
        /\ Len(Label(L, v)) \in Nat
    BY <1>1, <1>2, <1>3, <1>4, TreeIs
  <2>2. Len(Label(L, v)) <= Len(Label(L, c))
    BY <1>4, <2>1
  <2> QED BY <2>1, <2>2, RoomShrinks
<1> QED BY <1>1, <1>6, <1>7, <1>8, Zenon DEF Going

\* An insertion that adds a node goes on there.
LEMMA GrownStep ==
  ASSUME NEW t, NEW v, NEW i, NEW static \in BOOLEAN, NEW text, NEW r \in Routes, NEW t0,
         NEW rs, NEW L, Going(t, v, i, static, text, r, t0, rs, L),
         i \in 1..Len(r.tokens), NEW t2, Grows(t, t2),
         IsTree(t2, Extended(L, Len(t2), FlatTo(r, i))), FlatTo(r, i) \in Seq(Marks),
         Len(Label(L, v)) <= Len(FlatTo(r, i)),
         Short(t0, rs, r) => Disjoint(t2), ~(Disjoint(t0) /\ Again(rs, r)),
         \/ Statics(t2, Len(t2)) = << >>
         \/ i + 1 = Len(r.tokens) + 1 \/ r.tokens[i + 1].kind # "static"
  PROVE  LET n == Len(t2)
             L2 == Extended(L, n, FlatTo(r, i))
         IN /\ Going(t2, n, i + 1, FALSE, << >>, r, t0, rs, L2)
            /\ Room(r, L2, n, i + 1, FALSE) + 1 <= Room(r, L, v, i, static)
<1> DEFINE n == Len(t2)
           s == FlatTo(r, i)
           L2 == Extended(L, n, s)
<1>1. Growing(t, L, t0, rs, r) /\ Holds(t, L, rs) /\ HasCuts(t, L, rs) /\ IsTree(t, L)
      /\ Labelled(t, L, rs \cup {r})
  BY DEF Going, Growing
<1>2. /\ v \in 1..Len(t) /\ i \in 1..Len(r.tokens)
      /\ \A j \in 1..(i - 1) : r.tokens[j].kind = "static" =>
           \E w \in 1..Len(t) : Label(L, w) = FlatTo(r, j)
  BY DEF Going, IsAt
<1>3. /\ n \in 1..n
      /\ \A u \in 1..Len(t) : u \in 1..n
      /\ Label(L2, n) = s /\ \A u \in 1..Len(t) : Label(L2, u) = Label(L, u)
  <2>1. s \in Seq(Marks)
    OBVIOUS
  <2> HIDE DEF s
  <2> QED BY <1>1, <2>1, GrownNodes
<1>4. Holds(t2, L2, rs) /\ HasCuts(t2, L2, rs)
  <2>1. s \in Seq(Marks)
    OBVIOUS
  <2> HIDE DEF s
  <2> QED BY <1>1, <2>1, GrownHolds, Zenon
<1>5. Labelled(t2, L2, rs \cup {r})
  <2>1. s \in Seq(Marks)
    OBVIOUS
  <2>2. IsPrefix(s, Flat(r))
    <3>1. Len(r.tokens) \in 0..Len(r.tokens) /\ i \in 0..Len(r.tokens)
          /\ FlatTo(r, Len(r.tokens)) = Flat(r)
      BY <1>2, TokensAre, FlatIs
    <3>2. IsPrefix(FlatTo(r, i), FlatTo(r, Len(r.tokens)))
      BY <3>1, FlatToPrefix
    <3> QED BY <3>1, <3>2
  <2>3. \E q \in rs \cup {r} : IsPrefix(s, Flat(q))
    BY <2>2
  <2> HIDE DEF s
  <2> QED BY <1>1, <2>1, <2>3, GrownHolds, Zenon
<1>6. Growing(t2, L2, t0, rs, r)
  BY <1>5 DEF Growing
<1>7. Len(r.tokens) \in Nat /\ i \in Nat /\ i + 1 \in 1..(Len(r.tokens) + 1)
      /\ (i + 1) - 1 = i
  BY <1>2, TokensAre
<1>8. IsAt(t2, n, i + 1, FALSE, << >>, r, L2)
  <2>1. \A j \in 1..((i + 1) - 1) : j \in 1..(i - 1) \/ j = i
    BY <1>7
  <2>2. ASSUME NEW j \in 1..((i + 1) - 1), r.tokens[j].kind = "static"
        PROVE  \E w \in 1..n : Label(L2, w) = FlatTo(r, j)
    <3>1. CASE j = i
      BY <1>3, <3>1
    <3>2. CASE j \in 1..(i - 1)
      <4>1. PICK w \in 1..Len(t) : Label(L, w) = FlatTo(r, j)
        BY <1>2, <2>2, <3>2
      <4>2. w \in 1..n /\ Label(L2, w) = FlatTo(r, j)
        BY <1>3, <4>1
      <4> QED BY <4>2
    <3> QED BY <2>1, <3>1, <3>2
  <2>3. Label(L2, n) = FlatTo(r, (i + 1) - 1)
    BY <1>3, <1>7
  <2> HIDE DEF n, L2
  <2>4. n \in 1..n
    BY <1>3
  <2> QED BY <1>7, <2>2, <2>3, <2>4 DEF IsAt, n
<1>9. Blank(t2, n, i + 1, FALSE, r)
  BY DEF Blank, Grows
<1>10. Room(r, L2, n, i + 1, FALSE) + 1 <= Room(r, L, v, i, static)
  <2>1. Len(Label(L, v)) <= Len(Label(L2, n))
    BY <1>3
  <2>2. IsTree(t2, L2)
    OBVIOUS
  <2>3. n \in 1..n
    BY <1>3
  <2> HIDE DEF L2, n
  <2>4. Room(r, L2, n, i + 1, FALSE) + 1 <= Room(r, L, v, i, FALSE)
        /\ Room(r, L2, n, i + 1, FALSE) + 1 <= Room(r, L, v, i, TRUE)
    BY <1>1, <1>2, <2>1, <2>2, <2>3, RoomShrinks DEF n
  <2> QED BY <2>4
<1> HIDE DEF n, L2
<1> QED BY <1>4, <1>6, <1>8, <1>9, <1>10, Zenon DEF Going, n, L2

\* What a call with a text knows.
TextGoing(t, v, i, text, r, t0, rs, L, s, l) ==
  /\ Growing(t, L, t0, rs, r) /\ Holds(t, L, rs) /\ HasCuts(t, L, rs) /\ IsTree(t, L)
  /\ (Disjoint(t0) /\ Again(rs, r) => t = t0)
  /\ IsAt(t, v, i, TRUE, text, r, L) /\ Labelled(t, L, rs \cup {r})
  /\ (Short(t0, rs, r) => Disjoint(t))
  /\ v \in 1..Len(t) /\ i \in 1..Len(r.tokens) /\ r.tokens[i].kind = "static"
  /\ text \in Seq(Chars) /\ s = l \o text /\ s \in Seq(Marks) /\ Len(l) <= Len(s)

\* Each call that has a text knows that.
LEMMA TextGoes ==
  ASSUME NEW t, NEW v, NEW i, NEW text, NEW r \in Routes, NEW t0, NEW rs, NEW L,
         Going(t, v, i, TRUE, text, r, t0, rs, L), text # << >>
  PROVE  TextGoing(t, v, i, text, r, t0, rs, L, FlatTo(r, i), Label(L, v))
<1>1. IsTree(t, L) /\ IsAt(t, v, i, TRUE, text, r, L)
  BY DEF Going, Growing
<1> DEFINE s == FlatTo(r, i)
           l == Label(L, v)
<1>2. TextIs(v, i, text, r, t, s, l)
  BY <1>1, TextAt, Zenon
<1>3. Len(l) \in Nat /\ Len(s) \in Nat /\ Len(l) < Len(s)
  <2> HIDE DEF s, l
  <2> QED BY <1>2, Zenon DEF TextIs
<1>4. Len(l) <= Len(s)
  <2> HIDE DEF s, l
  <2> QED BY <1>3
<1>5. /\ v \in 1..Len(t) /\ i \in 1..Len(r.tokens) /\ r.tokens[i].kind = "static"
      /\ text \in Seq(Chars) /\ s = l \o text /\ s \in Seq(Marks)
  <2> HIDE DEF s, l
  <2> QED BY <1>2, Zenon DEF TextIs
<1> QED BY <1>1, <1>4, <1>5, Zenon DEF Going, Growing, TextGoing

\* Where no child starts the text there is no route of the pattern yet.
LEMMA NoneAgain ==
  ASSUME NEW t, NEW v, NEW i, NEW text, NEW r \in Routes, NEW t0, NEW rs \in SUBSET Routes,
         NEW L, Going(t, v, i, TRUE, text, r, t0, rs, L), text # << >>,
         \A c \in Nat : StaticChild(t, v, c) => ~IsPrefix(Prefix(t, c), text)
  PROVE  ~(Disjoint(t0) /\ Again(rs, r))
<1> SUFFICES ASSUME Disjoint(t0), Again(rs, r) PROVE FALSE
  OBVIOUS
<1>1. /\ Holds(t, L, rs) /\ IsTree(t, L) /\ t = t0 /\ IsAt(t, v, i, TRUE, text, r, L)
  BY TextGoes DEF TextGoing, Zenon
<1>2. Disjoint(t)
  BY <1>1
<1>3. \E d \in Nat : StaticChild(t, v, d) /\ IsPrefix(Prefix(t, d), text)
  BY <1>1, <1>2, AgainFits
<1> QED BY <1>3

\* A child's text starts with the text: it is split.
LEMMA SplitStep ==
  ASSUME NEW t, NEW v, NEW i, NEW text, NEW r \in Routes, NEW t0, NEW rs \in SUBSET Routes,
         NEW L, Going(t, v, i, TRUE, text, r, t0, rs, L), text # << >>,
         \A c \in Nat : StaticChild(t, v, c) => ~IsPrefix(Prefix(t, c), text),
         NEW j \in 1..Len(Statics(t, v)), IsPrefix(text, Prefix(t, Statics(t, v)[j])),
         NEW t2, Splits(t, v, j, text, t2)
  PROVE  LET n == Len(t2)
             L2 == Extended(L, n, FlatTo(r, i))
         IN /\ Going(t2, n, i + 1, FALSE, << >>, r, t0, rs, L2)
            /\ Room(r, L2, n, i + 1, FALSE) + 1 <= Room(r, L, v, i, TRUE)
<1>1. /\ HasCuts(t, L, rs) /\ IsTree(t, L)
      /\ IsAt(t, v, i, TRUE, text, r, L) /\ Labelled(t, L, rs \cup {r})
      /\ (Short(t0, rs, r) => Disjoint(t))
      /\ v \in 1..Len(t) /\ i \in 1..Len(r.tokens) /\ r.tokens[i].kind = "static"
      /\ text \in Seq(Chars) /\ FlatTo(r, i) = Label(L, v) \o text
      /\ FlatTo(r, i) \in Seq(Marks) /\ Len(Label(L, v)) <= Len(FlatTo(r, i))
  <2>1. TextGoing(t, v, i, text, r, t0, rs, L, FlatTo(r, i), Label(L, v))
    BY TextGoes, Zenon
  <2> QED BY <2>1, Zenon DEF TextGoing
<1>2. ~(Disjoint(t0) /\ Again(rs, r))
  BY NoneAgain
<1> DEFINE c == Statics(t, v)[j]
<1>3. c \in Nat /\ StaticChild(t, v, c)
  <2>1. t \in Seq(NodeType)
    BY <1>1, TreeIs
  <2>2. Statics(t, v) \in Seq(Nat)
    BY <1>1, <2>1, NodeIs
  <2> QED BY <2>2 DEF StaticChild
<1>4. c = Statics(t, v)[j] /\ IsPrefix(text, Prefix(t, c))
  OBVIOUS
<1> HIDE DEF c
<1>5. text # Prefix(t, c)
  <2> SUFFICES ASSUME text = Prefix(t, c) PROVE FALSE
    OBVIOUS
  <2> QED BY <1>3, <1>4
<1>6. IsTree(t2, Extended(L, Len(t2), Label(L, v) \o text))
  BY <1>1, <1>3, <1>4, <1>5, SplitTree
<1>7. ~Short(t0, rs, r)
  <2> SUFFICES ASSUME Short(t0, rs, r) PROVE FALSE
    OBVIOUS
  <2>1. Disjoint(t)
    BY <1>1
  <2>2. \E d \in Nat : StaticChild(t, v, d) /\ IsPrefix(Prefix(t, d), text)
    BY <1>1, <1>3, <1>4, <1>5, <2>1, ShortFits
  <2> QED BY <2>2
<1>8. i + 1 = Len(r.tokens) + 1 \/ r.tokens[i + 1].kind # "static"
  <2>1. Len(r.tokens) \in Nat /\ i \in Nat
        /\ (i + 1 = Len(r.tokens) + 1 \/ i + 1 \in 1..Len(r.tokens))
        /\ (i + 1) - 1 = i /\ i + 1 # 1
    BY <1>1, TokensAre
  <2>2. ASSUME i + 1 \in 1..Len(r.tokens) PROVE r.tokens[i + 1].kind # "static"
    <3> DEFINE k == i + 1
    <3>1. r.tokens[k].kind = "static" => k = 1 \/ r.tokens[k - 1].kind # "static"
      BY <2>2, TokensAre
    <3> QED BY <1>1, <2>1, <3>1
  <2> QED BY <2>1, <2>2
<1>9. Grows(t, t2)
  BY DEF Splits
<1>10. IsTree(t2, Extended(L, Len(t2), FlatTo(r, i)))
  BY <1>1, <1>6
<1> QED BY <1>1, <1>2, <1>7, <1>8, <1>9, <1>10, GrownStep

\* No child's text and the text start each other: there is a new child.
LEMMA NewStaticStep ==
  ASSUME NEW t, NEW v, NEW i, NEW text, NEW r \in Routes, NEW t0, NEW rs \in SUBSET Routes,
         NEW L, Going(t, v, i, TRUE, text, r, t0, rs, L), text # << >>,
         \A c \in Nat : StaticChild(t, v, c) =>
           ~IsPrefix(Prefix(t, c), text) /\ ~IsPrefix(text, Prefix(t, c)),
         NEW t2, AddsStatic(t, v, text, t2)
  PROVE  LET n == Len(t2)
             L2 == Extended(L, n, FlatTo(r, i))
         IN /\ Going(t2, n, i + 1, FALSE, << >>, r, t0, rs, L2)
            /\ Room(r, L2, n, i + 1, FALSE) + 1 <= Room(r, L, v, i, TRUE)
<1>1. /\ IsTree(t, L) /\ IsAt(t, v, i, TRUE, text, r, L)
      /\ (Short(t0, rs, r) => Disjoint(t))
      /\ v \in 1..Len(t) /\ i \in 1..Len(r.tokens)
      /\ text \in Seq(Chars) /\ FlatTo(r, i) = Label(L, v) \o text
      /\ FlatTo(r, i) \in Seq(Marks) /\ Len(Label(L, v)) <= Len(FlatTo(r, i))
  <2>1. TextGoing(t, v, i, text, r, t0, rs, L, FlatTo(r, i), Label(L, v))
    BY TextGoes, Zenon
  <2> QED BY <2>1, Zenon DEF TextGoing
<1>2. ~(Disjoint(t0) /\ Again(rs, r))
  BY NoneAgain
<1>3. IsTree(t2, Extended(L, Len(t2), Label(L, v) \o text))
  BY <1>1, StaticTree
<1>4. Short(t0, rs, r) => Disjoint(t2)
  <2> SUFFICES ASSUME Disjoint(t) PROVE Disjoint(t2)
    BY <1>1
  <2>1. ASSUME NEW j \in 1..Len(Statics(t, v))
        PROVE  /\ ~IsPrefix(Prefix(t, Statics(t, v)[j]), text)
               /\ ~IsPrefix(text, Prefix(t, Statics(t, v)[j]))
    <3>1. t \in Seq(NodeType)
      BY <1>1, TreeIs
    <3>2. Statics(t, v) \in Seq(Nat)
      BY <1>1, <3>1, NodeIs
    <3>3. Statics(t, v)[j] \in Nat /\ StaticChild(t, v, Statics(t, v)[j])
      BY <3>2 DEF StaticChild
    <3> QED BY <3>3
  <2> QED BY <1>1, <2>1, StaticDisjoint
<1>5. Grows(t, t2) /\ Statics(t2, Len(t2)) = << >>
  BY DEF AddsStatic
<1>6. IsTree(t2, Extended(L, Len(t2), FlatTo(r, i)))
  BY <1>1, <1>3
<1> QED BY <1>1, <1>2, <1>4, <1>5, <1>6, GrownStep

\* There is a new parameter child.
LEMMA NewParamStep ==
  ASSUME NEW t, NEW v, NEW i, NEW text, NEW r \in Routes, NEW t0, NEW rs \in SUBSET Routes,
         NEW L, Going(t, v, i, FALSE, text, r, t0, rs, L), i # Len(r.tokens) + 1,
         r.tokens[i].kind = "param", Params(t, v) = << >>, NEW t2, AddsParam(t, v, t2)
  PROVE  LET n == Len(t2)
             L2 == Extended(L, n, FlatTo(r, i))
         IN /\ Going(t2, n, i + 1, FALSE, << >>, r, t0, rs, L2)
            /\ Room(r, L2, n, i + 1, FALSE) + 1 <= Room(r, L, v, i, FALSE)
<1> DEFINE s == FlatTo(r, i)
           l == Label(L, v)
<1>1. Growing(t, L, t0, rs, r) /\ Holds(t, L, rs) /\ IsTree(t, L)
      /\ (Short(t0, rs, r) => Disjoint(t))
      /\ (Disjoint(t0) /\ Again(rs, r) => t = t0)
  BY DEF Going, Growing
<1>2. v \in 1..Len(t) /\ i \in 1..(Len(r.tokens) + 1) /\ l = FlatTo(r, i - 1)
  BY DEF Going, IsAt
<1>3. i \in 1..Len(r.tokens) /\ Len(r.tokens) \in Nat /\ i \in Nat
  BY <1>2, TokensAre
<1>4. l \in Seq(Marks) /\ Len(l) \in Nat
  BY <1>1, <1>2, TreeIs
<1>5. s = l \o <<"param">>
  <2>1. Piece(r, i) = <<"param">>
    BY <1>3, PieceIs
  <2>2. FlatTo(r, i) = FlatTo(r, i - 1) \o Piece(r, i)
    BY <1>3, FlatIs
  <2> QED BY <1>2, <2>1, <2>2
<1>6. /\ s \in Seq(Marks) /\ IsPrefix(l, s) /\ Len(s) = Len(l) + 1
      /\ s[Len(l) + 1] = "param"
  <2> DEFINE p == <<"param">>
  <2>1. p \in Seq(Marks) /\ Len(p) = 1 /\ p[1] = "param" /\ 1 \in 1..Len(p)
    BY DEF Marks
  <2> HIDE DEF l, p
  <2>2. /\ l \o p \in Seq(Marks) /\ Len(l \o p) = Len(l) + Len(p) /\ IsPrefix(l, l \o p)
        /\ \A x \in 1..Len(p) : (l \o p)[Len(l) + x] = p[x]
    <3>1. p \in Seq(Marks)
      BY <2>1
    <3> QED BY <1>4, <3>1, ConcatIs
  <2>3. s = l \o p
    BY <1>5 DEF p
  <2> HIDE DEF s
  <2> QED BY <2>1, <2>2, <2>3
<1>7. Len(l) < Len(s) /\ Len(l) <= Len(s)
  <2> HIDE DEF l, s
  <2> QED BY <1>4, <1>6
<1>8. IsPrefix(s, Flat(r))
  <2>1. Len(r.tokens) \in 0..Len(r.tokens) /\ i \in 0..Len(r.tokens)
        /\ FlatTo(r, Len(r.tokens)) = Flat(r)
    BY <1>3, TokensAre, FlatIs
  <2>2. IsPrefix(FlatTo(r, i), FlatTo(r, Len(r.tokens)))
    BY <2>1, FlatToPrefix
  <2> QED BY <2>1, <2>2
<1>9. ~(Disjoint(t0) /\ Again(rs, r))
  <2> SUFFICES ASSUME Disjoint(t0), Again(rs, r) PROVE FALSE
    OBVIOUS
  <2>1. Disjoint(t)
    BY <1>1
  <2>2. PICK d \in 1..Len(t) :
             /\ Child(t, v, d) /\ IsPrefix(Label(L, d), Flat(r))
             /\ Label(L, d)[Len(Label(L, v)) + 1] = s[Len(Label(L, v)) + 1]
    <3>1. s \in Seq(Marks) /\ IsPrefix(s, Flat(r)) /\ IsPrefix(Label(L, v), s)
          /\ Len(Label(L, v)) < Len(s)
      BY <1>6, <1>7, <1>8
    <3> HIDE DEF s
    <3> QED BY <1>1, <1>2, <2>1, <3>1, AgainLeadsOn
  <2>3. d \in Nat /\ Label(L, d)[Len(l) + 1] = "param"
    BY <1>6, <2>2
  <2>4. ~ParamChild(t, v, d)
    BY DEF ParamChild
  <2>5. StaticChild(t, v, d)
    BY <2>2, <2>4 DEF Child
  <2>6. Label(L, d)[Len(l) + 1] \in Chars
    BY <1>1, <1>2, <2>3, <2>5, StaticLabel
  <2> QED BY <2>3, <2>6, MarksAreNoChars
<1>10. IsTree(t2, Extended(L, Len(t2), s))
  <2>1. IsTree(t2, Extended(L, Len(t2), Label(L, v) \o <<"param">>))
    BY <1>1, <1>2, ParamTree
  <2> QED BY <1>5, <2>1
<1>11. Short(t0, rs, r) => Disjoint(t2)
  BY <1>1, <1>2, ParamDisjoint
<1>12. Grows(t, t2) /\ Statics(t2, Len(t2)) = << >>
  BY DEF AddsParam
<1> QED BY <1>3, <1>6, <1>7, <1>9, <1>10, <1>11, <1>12, GrownStep

\* A pattern that ends in a wildcard is no other, and tells what leads to it.
LEMMA WildcardBehind ==
  ASSUME NEW a \in Seq(Marks), NEW b \in Seq(Marks)
  PROVE  /\ a \o <<"wildcard">> # b
         /\ a \o <<"wildcard">> = b \o <<"wildcard">> => a = b
<1> DEFINE w == <<"wildcard">>
<1>1. w \in Seq(Symbols) /\ Len(w) = 1 /\ Marks \subseteq Symbols
  BY DEF Marks, Symbols
<1>2. a \in Seq(Symbols) /\ b \in Seq(Symbols) /\ Len(a) \in Nat /\ Len(b) \in Nat
  BY <1>1
<1>3. ASSUME a \o w = b PROVE FALSE
  <2>1. IsPrefix(b, b)
    BY IsPrefixIf
  <2>2. IsPrefix(b, a \o <<"wildcard">>)
    BY <1>3, <2>1
  <2>3. IsPrefix(b, a)
    BY <2>2, MarksBeforeWildcard
  <2>4. Len(b) <= Len(a)
    BY <2>3, PrefixMeans
  <2> HIDE DEF w
  <2>5. w \in Seq(Symbols)
    BY <1>1
  <2>6. Len(a \o w) = Len(a) + Len(w)
    BY <1>2, <2>5, ConcatIs
  <2> QED BY <1>1, <1>2, <1>3, <2>4, <2>6
<1>4. ASSUME a \o w = b \o w PROVE a = b
  <2> HIDE DEF w
  <2>1. w \in Seq(Symbols)
    BY <1>1
  <2>2. /\ Len(a \o w) = Len(a) + Len(w)
        /\ \A i \in 1..Len(a) : (a \o w)[i] = a[i]
    BY <1>2, <2>1, ConcatIs
  <2>3. /\ Len(b \o w) = Len(b) + Len(w)
        /\ \A i \in 1..Len(b) : (b \o w)[i] = b[i]
    BY <1>2, <2>1, ConcatIs
  <2>4. Len(a) = Len(b)
    BY <1>1, <1>2, <1>4, <2>2, <2>3
  <2>5. \A i \in 1..Len(a) : a[i] = b[i]
    BY <1>4, <2>2, <2>3, <2>4
  <2> QED BY <2>4, <2>5
<1> QED BY <1>3, <1>4

\* What a call without a text knows.
NodeGoing(t, v, i, r, t0, rs, L, l) ==
  /\ Growing(t, L, t0, rs, r) /\ Holds(t, L, rs) /\ HasCuts(t, L, rs) /\ IsTree(t, L)
  /\ (Disjoint(t0) /\ Again(rs, r) => t = t0) /\ Labelled(t, L, rs \cup {r})
  /\ (Short(t0, rs, r) => Disjoint(t))
  /\ v \in 1..Len(t) /\ i \in 1..(Len(r.tokens) + 1) /\ l = FlatTo(r, i - 1)
  /\ t = t0 \/ (RoutesAt(t, v) = {} /\ WildcardAt(t, v) = {} /\ Params(t, v) = << >>)
  /\ \A j \in 1..(i - 1) : r.tokens[j].kind = "static" =>
       \E w \in 1..Len(t) : Label(L, w) = FlatTo(r, j)

\* Each call that has none knows that.
LEMMA NodeGoes ==
  ASSUME NEW t, NEW v, NEW i, NEW text, NEW r \in Routes, NEW t0, NEW rs, NEW L,
         Going(t, v, i, FALSE, text, r, t0, rs, L)
  PROVE  NodeGoing(t, v, i, r, t0, rs, L, Label(L, v))
<1>1. Growing(t, L, t0, rs, r) /\ Holds(t, L, rs) /\ HasCuts(t, L, rs)
      /\ IsAt(t, v, i, FALSE, text, r, L) /\ (t = t0 \/ Blank(t, v, i, FALSE, r))
      /\ (Disjoint(t0) /\ Again(rs, r) => t = t0)
  BY Zenon DEF Going
<1>2. /\ v \in 1..Len(t) /\ i \in 1..(Len(r.tokens) + 1) /\ Label(L, v) = FlatTo(r, i - 1)
      /\ \A j \in 1..(i - 1) : r.tokens[j].kind = "static" =>
           \E w \in 1..Len(t) : Label(L, w) = FlatTo(r, j)
  BY <1>1, Zenon DEF IsAt
<1>3. IsTree(t, L) /\ Labelled(t, L, rs \cup {r}) /\ (Short(t0, rs, r) => Disjoint(t))
  BY <1>1, Zenon DEF Growing
<1>4. t = t0 \/ (RoutesAt(t, v) = {} /\ WildcardAt(t, v) = {} /\ Params(t, v) = << >>)
  BY <1>1, Zenon DEF Blank
<1> QED BY <1>1, <1>2, <1>3, <1>4, Zenon DEF NodeGoing

\* The routes that end at a node, or in a wildcard there, have its pattern.
LEMMA TakenStep ==
  ASSUME NEW t, NEW v, NEW i, NEW text, NEW r \in Routes, NEW t0, NEW rs, NEW L,
         Going(t, v, i, FALSE, text, r, t0, rs, L), NEW q,
         \/ q \in RoutesAt(t, v) /\ Flat(r) = Label(L, v)
         \/ q \in WildcardAt(t, v) /\ Flat(r) = Label(L, v) \o <<"wildcard">>,
         q.verb = r.verb
  PROVE  Done(t, FALSE, r, t0, rs, L)
<1> DEFINE l == Label(L, v)
<1>1. NodeGoing(t, v, i, r, t0, rs, L, l)
  BY NodeGoes
<1> HIDE DEF l
<1>2. Holds(t, L, rs) /\ v \in 1..Len(t)
      /\ (t = t0 \/ (RoutesAt(t, v) = {} /\ WildcardAt(t, v) = {}))
  BY <1>1, Zenon DEF NodeGoing
<1>3. t = t0
  BY <1>2
<1>4. q \in rs /\ Flat(q) = Flat(r)
  BY <1>2, Zenon DEF Holds
<1>5. Again(rs, r)
  BY <1>4 DEF Again
<1> QED BY <1>3, <1>5 DEF Done

\* Where there is none of its verb and pattern the route is added.
LEMMA RouteStep ==
  ASSUME NEW t, NEW v, NEW i, NEW text, NEW r \in Routes, NEW t0, NEW rs \in SUBSET Routes,
         NEW L, Going(t, v, i, FALSE, text, r, t0, rs, L),
         \A k \in 1..Len(r.tokens) : k \in 1..(i - 1) \/ r.tokens[k].kind # "static",
         NEW t2,
         \/ /\ AddsRoute(t, v, {r}, {}, t2) /\ Flat(r) = Label(L, v)
            /\ \A q \in RoutesAt(t, v) : q.verb # r.verb
         \/ /\ AddsRoute(t, v, {}, {r}, t2) /\ Flat(r) = Label(L, v) \o <<"wildcard">>
            /\ \A q \in WildcardAt(t, v) : q.verb # r.verb
  PROVE  Done(t2, TRUE, r, t0, rs, L)
<1> DEFINE l == Label(L, v)
<1>1. NodeGoing(t, v, i, r, t0, rs, L, l)
  BY NodeGoes
<1>2. /\ Holds(t, L, rs) /\ HasCuts(t, L, rs) /\ IsTree(t, L)
      /\ (Disjoint(t0) /\ Again(rs, r) => t = t0) /\ Labelled(t, L, rs \cup {r})
      /\ (Short(t0, rs, r) => Disjoint(t)) /\ v \in 1..Len(t)
      /\ \A j \in 1..(i - 1) : r.tokens[j].kind = "static" =>
           \E w \in 1..Len(t) : Label(L, w) = FlatTo(r, j)
  <2> HIDE DEF l
  <2> QED BY <1>1, Zenon DEF NodeGoing
<1>3. \E ps, ws : AddsRoute(t, v, ps, ws, t2)
  OBVIOUS
<1>4. /\ IsTree(t2, L) /\ (Disjoint(t) => Disjoint(t2))
      /\ Labelled(t2, L, rs \cup {r}) /\ HasCuts(t2, L, rs)
  BY <1>2, <1>3, AddedTree, Zenon
<1>5. Growing(t2, L, t0, rs, r)
  BY <1>2, <1>4 DEF Growing
<1>6. Holds(t2, L, rs \cup {r})
  BY <1>2, AddedHolds
<1>7. Len(t2) = Len(t)
  BY DEF AddsRoute
<1>8. HasCuts(t2, L, rs \cup {r})
  <2>1. ASSUME NEW s \in Cuts(r) PROVE \E w \in 1..Len(t2) : Label(L, w) = s
    <3>1. PICK k \in 1..Len(r.tokens) : r.tokens[k].kind = "static" /\ s = FlatTo(r, k)
      BY CutsAre
    <3>2. k \in 1..(i - 1)
      BY <3>1
    <3>3. \E w \in 1..Len(t) : Label(L, w) = s
      BY <1>2, <3>1, <3>2
    <3> QED BY <1>7, <3>3
  <2> QED BY <1>4, <2>1 DEF HasCuts
<1>9. ~(Disjoint(t0) /\ Again(rs, r))
  <2> SUFFICES ASSUME Disjoint(t0), Again(rs, r) PROVE FALSE
    OBVIOUS
  <2>1. t = t0 /\ Disjoint(t)
    BY <1>2
  <2>2. PICK q \in rs, u \in 1..Len(t) :
             /\ q.verb = r.verb /\ Label(L, u) \in Seq(Marks)
             /\ \/ q \in RoutesAt(t, u) /\ Flat(r) = Label(L, u)
                \/ q \in WildcardAt(t, u) /\ Flat(r) = Label(L, u) \o <<"wildcard">>
    <3>1. IsTree(t, L) /\ Holds(t, L, rs) /\ Again(rs, r) /\ rs \in SUBSET Routes /\ r \in Routes
      BY <1>2
    <3> HIDE DEF l
    <3> QED BY <3>1, HeldAgain
  <2>3. l \in Seq(Marks)
    BY <1>2, TreeIs
  <2>4. u = v => q \notin RoutesAt(t, u) \/ Flat(r) # l
    BY <2>2, <2>3, WildcardBehind
  <2>5. ASSUME l = Label(L, u) PROVE u = v
    BY <1>2, <2>1, <2>5, LabelsDiffer
  <2>6. CASE Flat(r) = l /\ \A p \in RoutesAt(t, v) : p.verb # r.verb
    <3>1. Flat(r) = Label(L, u) /\ q \in RoutesAt(t, u)
      BY <2>2, <2>3, <2>6, WildcardBehind
    <3>2. u = v
      BY <2>5, <2>6, <3>1
    <3> QED BY <2>2, <2>6, <3>1, <3>2
  <2>7. CASE Flat(r) = l \o <<"wildcard">> /\ \A p \in WildcardAt(t, v) : p.verb # r.verb
    <3>1. Flat(r) = Label(L, u) \o <<"wildcard">> /\ q \in WildcardAt(t, u)
      BY <2>2, <2>3, <2>7, WildcardBehind
    <3>2. l = Label(L, u)
      <4> HIDE DEF l
      <4> QED BY <2>2, <2>3, <2>7, <3>1, WildcardBehind
    <3>3. u = v
      BY <2>5, <3>2
    <3> QED BY <2>2, <2>7, <3>1, <3>3
  <2> QED BY <2>6, <2>7
<1> QED BY <1>5, <1>6, <1>8, <1>9 DEF Done

\* The pattern of a route ends where its last token has been gone through.
LEMMA PatternEnds ==
  ASSUME NEW r \in Routes, NEW i \in 1..(Len(r.tokens) + 1)
  PROVE  /\ i = Len(r.tokens) + 1 =>
              /\ Flat(r) = FlatTo(r, i - 1)
              /\ \A k \in 1..Len(r.tokens) : k \in 1..(i - 1)
         /\ i # Len(r.tokens) + 1 =>
              i \in 1..Len(r.tokens) /\ r.tokens[i].kind \in Kinds
         /\ i # Len(r.tokens) + 1 /\ r.tokens[i].kind = "wildcard" =>
              /\ Flat(r) = FlatTo(r, i - 1) \o <<"wildcard">>
              /\ \A k \in 1..Len(r.tokens) : k \in 1..(i - 1) \/ r.tokens[k].kind # "static"
<1>1. Len(r.tokens) \in Nat /\ i \in Nat
  BY TokensAre
<1>2. FlatTo(r, Len(r.tokens)) = Flat(r)
  BY FlatIs
<1>3. ASSUME i = Len(r.tokens) + 1
      PROVE  Flat(r) = FlatTo(r, i - 1) /\ \A k \in 1..Len(r.tokens) : k \in 1..(i - 1)
  <2>1. i - 1 = Len(r.tokens)
    BY <1>1, <1>3
  <2> QED BY <1>2, <2>1
<1>4. ASSUME i # Len(r.tokens) + 1
      PROVE  i \in 1..Len(r.tokens) /\ r.tokens[i].kind \in Kinds
  <2>1. i \in 1..Len(r.tokens)
    BY <1>1, <1>4
  <2> QED BY <2>1, TokensAre
<1>5. ASSUME i # Len(r.tokens) + 1, r.tokens[i].kind = "wildcard"
      PROVE  /\ Flat(r) = FlatTo(r, i - 1) \o <<"wildcard">>
             /\ \A k \in 1..Len(r.tokens) : k \in 1..(i - 1) \/ r.tokens[k].kind # "static"
  <2>1. i \in 1..Len(r.tokens)
    BY <1>4, <1>5
  <2>2. i = Len(r.tokens)
    BY <1>5, <2>1, TokensAre
  <2>3. Piece(r, i) = <<"wildcard">>
    BY <1>5, <2>1, PieceIs
  <2>4. FlatTo(r, i) = FlatTo(r, i - 1) \o Piece(r, i)
    BY <2>1, FlatIs
  <2>5. Flat(r) = FlatTo(r, i - 1) \o <<"wildcard">>
    BY <1>2, <2>2, <2>3, <2>4
  <2>6. ASSUME NEW k \in 1..Len(r.tokens)
        PROVE  k \in 1..(i - 1) \/ r.tokens[k].kind # "static"
    <3>1. k \in 1..(i - 1) \/ k = i
      BY <1>1, <2>2
    <3> QED BY <1>5, <3>1
  <2> QED BY <2>5, <2>6
<1> QED BY <1>3, <1>4, <1>5

\* The least of some numbers.
LEMMA MinIs ==
  ASSUME NEW T, T \subseteq Nat, NEW x \in T
  PROVE  Min(T) \in T /\ \A y \in T : Min(T) <= y
<1> DEFINE f == [y \in T |-> y]
<1>1. \A y \in T : f[y] \in Nat
  OBVIOUS
<1>2. PICK z \in T : \A y \in T : f[z] <= f[y]
  <2> HIDE DEF f
  <2> QED BY <1>1, Least
<1>3. \A y \in T : z <= y
  BY <1>2
<1>4. z \in T /\ \A y \in T : z <= y
  BY <1>3
<1> QED BY <1>4 DEF Min

\* The first child whose text starts the text, and the first whose text that starts.
Above(t, v, text) == SelectInSeq(Statics(t, v), LAMBDA u : IsPrefix(Prefix(t, u), text))
Below(t, v, text) == SelectInSeq(Statics(t, v), LAMBDA u : IsPrefix(text, Prefix(t, u)))

\* The first child whose text starts the text is one, if there is any.
LEMMA AboveIs ==
  ASSUME NEW t \in Seq(NodeType), NEW v \in 1..Len(t), NEW text
  PROVE  /\ Above(t, v, text) = 0 =>
              \A j \in 1..Len(Statics(t, v)) : ~IsPrefix(Prefix(t, Statics(t, v)[j]), text)
         /\ Above(t, v, text) # 0 =>
              /\ Above(t, v, text) \in 1..Len(Statics(t, v))
              /\ IsPrefix(Prefix(t, Statics(t, v)[Above(t, v, text)]), text)
<1> DEFINE n == Len(Statics(t, v))
           T == {j \in 1..n : IsPrefix(Prefix(t, Statics(t, v)[j]), text)}
<1>1. Above(t, v, text) = IF T # {} THEN Min(T) ELSE 0
  BY DEF Above, SelectInSeq
<1>2. T \subseteq Nat /\ 0 \notin T
  <2>1. n \in Nat
    <3>1. Statics(t, v) \in Seq(Nat)
      BY NodeIs
    <3> QED BY <3>1
  <2> HIDE DEF n
  <2> QED BY <2>1
<1>3. CASE T = {}
  <2>1. Above(t, v, text) = 0
    BY <1>1, <1>3
  <2> QED BY <1>3, <2>1
<1>4. CASE T # {}
  <2>1. PICK x \in T : TRUE
    BY <1>4
  <2>2. Above(t, v, text) \in T
    <3> HIDE DEF T
    <3>1. Min(T) \in T
      BY <1>2, <2>1, MinIs
    <3> QED BY <1>1, <1>4, <3>1
  <2>3. Above(t, v, text) # 0
    BY <1>2, <2>2
  <2> QED BY <2>2, <2>3
<1> QED BY <1>3, <1>4

\* So is the first whose text that starts.
LEMMA BelowIs ==
  ASSUME NEW t \in Seq(NodeType), NEW v \in 1..Len(t), NEW text
  PROVE  /\ Below(t, v, text) = 0 =>
              \A j \in 1..Len(Statics(t, v)) : ~IsPrefix(text, Prefix(t, Statics(t, v)[j]))
         /\ Below(t, v, text) # 0 =>
              /\ Below(t, v, text) \in 1..Len(Statics(t, v))
              /\ IsPrefix(text, Prefix(t, Statics(t, v)[Below(t, v, text)]))
<1> DEFINE n == Len(Statics(t, v))
           T == {j \in 1..n : IsPrefix(text, Prefix(t, Statics(t, v)[j]))}
<1>1. Below(t, v, text) = IF T # {} THEN Min(T) ELSE 0
  BY DEF Below, SelectInSeq
<1>2. T \subseteq Nat /\ 0 \notin T
  <2>1. n \in Nat
    <3>1. Statics(t, v) \in Seq(Nat)
      BY NodeIs
    <3> QED BY <3>1
  <2> HIDE DEF n
  <2> QED BY <2>1
<1>3. CASE T = {}
  <2>1. Below(t, v, text) = 0
    BY <1>1, <1>3
  <2> QED BY <1>3, <2>1
<1>4. CASE T # {}
  <2>1. PICK x \in T : TRUE
    BY <1>4
  <2>2. Below(t, v, text) \in T
    <3> HIDE DEF T
    <3>1. Min(T) \in T
      BY <1>2, <2>1, MinIs
    <3> QED BY <1>1, <1>4, <3>1
  <2>3. Below(t, v, text) # 0
    BY <1>2, <2>2
  <2> QED BY <2>2, <2>3
<1> QED BY <1>3, <1>4

\* A call's fields.
LEMMA CallFields ==
  ASSUME NEW c, IsCall(c)
  PROVE  /\ c.tree \in Seq(NodeType) /\ c.at \in Nat /\ c.i \in Nat /\ c.static \in BOOLEAN
         /\ c.text \in Seq(Chars) /\ c.ended \in BOOLEAN /\ c.ok \in BOOLEAN
BY DEF IsCall

\* A call that has not ended: in which tree, at which node, for which token, and its text.
CallAt(c, t, v, i, static, text) ==
  /\ IsCall(c) /\ c.tree = t /\ c.at = v /\ c.i = i
  /\ c.static = static /\ c.text = text /\ c.ended = FALSE /\ c.ok = FALSE

\* A call without a text.
LEMMA InsertIs ==
  ASSUME NEW t \in Seq(NodeType), NEW v \in Nat, NEW i \in Nat
  PROVE  CallAt(Insert(t, v, i), t, v, i, FALSE, << >>)
BY DEF IsCall, Insert, CallAt

\* One with a text.
LEMMA InsertStaticIs ==
  ASSUME NEW t \in Seq(NodeType), NEW v \in Nat, NEW i \in Nat, NEW text \in Seq(Chars)
  PROVE  CallAt(InsertStatic(t, v, text, i), t, v, i, TRUE, text)
BY DEF IsCall, InsertStatic, Insert, CallAt

\* How many calls there may be is a number.
LEMMA RoomType ==
  ASSUME NEW r \in Routes, NEW t, NEW L, IsTree(t, L), NEW v \in 1..Len(t),
         NEW i \in Nat, NEW static \in BOOLEAN
  PROVE  Room(r, L, v, i, static) \in Int /\ CallsAtMost(r) \in Nat
<1>1. Len(Flat(r)) \in Nat
  <2>1. Flat(r) \in Seq(Symbols)
    BY FlatIs
  <2> QED BY <2>1
<1>2. Len(Label(L, v)) \in Nat
  BY TreeIs
<1>3. Len(r.tokens) \in Nat
  BY TokensAre
<1> DEFINE a == Len(Flat(r))
           b == Len(Label(L, v))
           c == Len(r.tokens)
           d == IF static THEN 0 ELSE 1
<1>4. Room(r, L, v, i, static) = a - b + 2 * (c + 1 - i) + d /\ CallsAtMost(r) = a + 2 * c + 1
  BY DEF Room, CallsAtMost
<1>5. d \in Nat
  OBVIOUS
<1>6. a \in Nat /\ b \in Nat /\ c \in Nat
  BY <1>1, <1>2, <1>3
<1> HIDE DEF a, b, c, d
<1>7. a - b + 2 * (c + 1 - i) + d \in Int /\ a + 2 * c + 1 \in Nat
  BY <1>5, <1>6
<1> QED BY <1>4, <1>7

\* What goes on is a call.
LEMMA GoesOn ==
  ASSUME NEW t, NEW v, NEW i, NEW r \in Routes, NEW t0, NEW rs, NEW L, NEW k \in Nat,
         Going(t, v, i, FALSE, << >>, r, t0, rs, L), NEW y \in Int,
         Room(r, L, v, i, FALSE) + 1 <= y, y + k <= CallsAtMost(r)
  PROVE  CallIs(Insert(t, v, i), k + 1, r, t0, rs)
<1>1. IsTree(t, L) /\ v \in 1..Len(t) /\ i \in 1..(Len(r.tokens) + 1)
  BY DEF Going, Growing, IsAt
<1>2. t \in Seq(NodeType) /\ v \in Nat /\ i \in Nat
  BY <1>1, TreeIs, TokensAre
<1> DEFINE c == Insert(t, v, i)
<1>3. CallAt(c, t, v, i, FALSE, << >>)
  BY <1>2, InsertIs
<1>6. Room(r, L, v, i, FALSE) + (k + 1) <= CallsAtMost(r)
  <2> DEFINE x == Room(r, L, v, i, FALSE)
             m == CallsAtMost(r)
  <2>1. x \in Int /\ m \in Nat
    <3>1. \A static \in BOOLEAN : Room(r, L, v, i, static) \in Int /\ CallsAtMost(r) \in Nat
      BY <1>1, <1>2, RoomType
    <3> QED BY <3>1
  <2>2. x + 1 <= y /\ y + k <= m
    OBVIOUS
  <2> HIDE DEF x, m
  <2>3. x + (k + 1) <= m
    BY <2>1, <2>2
  <2> QED BY <2>3 DEF x, m
<1> HIDE DEF c
<1>4. Going(c.tree, c.at, c.i, c.static, c.text, r, t0, rs, L)
      /\ Room(r, L, c.at, c.i, c.static) + (k + 1) <= CallsAtMost(r)
  BY <1>3, <1>6 DEF CallAt
<1>5. CallIs(c, k + 1, r, t0, rs)
  BY <1>3, <1>4 DEF CallIs, CallAt
<1> QED BY <1>5 DEF c

\* So is what goes on with a text.
LEMMA GoesOnWithText ==
  ASSUME NEW t, NEW v, NEW i, NEW text \in Seq(Chars), NEW r \in Routes, NEW t0, NEW rs,
         NEW L, NEW k \in Nat, Going(t, v, i, TRUE, text, r, t0, rs, L), NEW y \in Int,
         Room(r, L, v, i, TRUE) + 1 <= y, y + k <= CallsAtMost(r)
  PROVE  CallIs(InsertStatic(t, v, text, i), k + 1, r, t0, rs)
<1>1. IsTree(t, L) /\ v \in 1..Len(t) /\ i \in 1..(Len(r.tokens) + 1)
  BY DEF Going, Growing, IsAt
<1>2. t \in Seq(NodeType) /\ v \in Nat /\ i \in Nat
  BY <1>1, TreeIs, TokensAre
<1> DEFINE c == InsertStatic(t, v, text, i)
<1>3. CallAt(c, t, v, i, TRUE, text)
  BY <1>2, InsertStaticIs
<1>6. Room(r, L, v, i, TRUE) + (k + 1) <= CallsAtMost(r)
  <2> DEFINE x == Room(r, L, v, i, TRUE)
             m == CallsAtMost(r)
  <2>1. x \in Int /\ m \in Nat
    <3>1. \A static \in BOOLEAN : Room(r, L, v, i, static) \in Int /\ CallsAtMost(r) \in Nat
      BY <1>1, <1>2, RoomType
    <3> QED BY <3>1
  <2>2. x + 1 <= y /\ y + k <= m
    OBVIOUS
  <2> HIDE DEF x, m
  <2>3. x + (k + 1) <= m
    BY <2>1, <2>2
  <2> QED BY <2>3 DEF x, m
<1> HIDE DEF c
<1>4. Going(c.tree, c.at, c.i, c.static, c.text, r, t0, rs, L)
      /\ Room(r, L, c.at, c.i, c.static) + (k + 1) <= CallsAtMost(r)
  BY <1>3, <1>6 DEF CallAt
<1>5. CallIs(c, k + 1, r, t0, rs)
  BY <1>3, <1>4 DEF CallIs, CallAt
<1> QED BY <1>5 DEF c

\* A call that has ended.
LEMMA EndsSo ==
  ASSUME NEW c, IsCall(c), c.ended, NEW k, NEW r, NEW t0, NEW rs, NEW L,
         Done(c.tree, c.ok, r, t0, rs, L)
  PROVE  CallIs(c, k, r, t0, rs)
BY DEF CallIs

\* A call with a text, by the children the text is compared to.
StaticCall(t, v, text, i, a, b) ==
  LET above == Statics(t, v)[a]
      below == Statics(t, v)[b]
  IN CASE text = << >> -> Insert(t, v, i + 1)
       [] text # << >> /\ a > 0 -> InsertStatic(t, above, Rest(text, Len(Prefix(t, above))), i)
       [] text # << >> /\ a = 0 /\ b > 0 ->
            Insert(Append([t EXCEPT ![below].prefix = Rest(@, Len(text)),
                                    ![v].statics[b] = Len(t) + 1],
                          [Node(text) EXCEPT !.statics = <<below>>]), Len(t) + 1, i + 1)
       [] OTHER ->
            Insert(Append([t EXCEPT ![v].statics = Append(@, Len(t) + 1)], Node(text)),
                   Len(t) + 1, i + 1)

\* Each call of try_insert_static is one of these.
LEMMA StaticCallIs ==
  ASSUME NEW c
  PROVE  TryInsertStatic(c) = StaticCall(c.tree, c.at, c.text, c.i, Above(c.tree, c.at, c.text),
                                         Below(c.tree, c.at, c.text))
BY DEF TryInsertStatic, StaticCall, Above, Below, Statics, Prefix, Fresh

\* A call with a text that goes on.
LEMMA StaticGoes ==
  ASSUME NEW t, NEW v, NEW i, NEW text, NEW r \in Routes, NEW t0, NEW rs \in SUBSET Routes,
         NEW L, Going(t, v, i, TRUE, text, r, t0, rs, L), NEW k \in Nat,
         Room(r, L, v, i, TRUE) + k <= CallsAtMost(r)
  PROVE  CallIs(StaticCall(t, v, text, i, Above(t, v, text), Below(t, v, text)), k + 1, r, t0, rs)
<1> DEFINE a == Above(t, v, text)
           b == Below(t, v, text)
           y == Room(r, L, v, i, TRUE)
           above == Statics(t, v)[a]
           below == Statics(t, v)[b]
           s == FlatTo(r, i)
<1>1. /\ IsTree(t, L) /\ v \in 1..Len(t) /\ i \in 1..Len(r.tokens) /\ text \in Seq(Chars)
  BY DEF Going, Growing, IsAt
<1>2. t \in Seq(NodeType) /\ v \in Nat /\ i \in Nat /\ Len(t) \in Nat
  BY <1>1, TreeIs, TokensAre
<1>3. y \in Int /\ y + k <= CallsAtMost(r)
  BY <1>1, <1>2, RoomType
<1>4. \A j \in 1..Len(Statics(t, v)) :
        Statics(t, v)[j] \in Nat /\ StaticChild(t, v, Statics(t, v)[j])
  <2>1. Statics(t, v) \in Seq(Nat)
    BY <1>1, <1>2, NodeIs
  <2> QED BY <2>1 DEF StaticChild
<1>5. /\ a = 0 => \A j \in 1..Len(Statics(t, v)) : ~IsPrefix(Prefix(t, Statics(t, v)[j]), text)
      /\ a # 0 => a \in 1..Len(Statics(t, v)) /\ IsPrefix(Prefix(t, above), text)
  BY <1>1, <1>2, AboveIs
<1>6. /\ b = 0 => \A j \in 1..Len(Statics(t, v)) : ~IsPrefix(text, Prefix(t, Statics(t, v)[j]))
      /\ b # 0 => b \in 1..Len(Statics(t, v)) /\ IsPrefix(text, Prefix(t, below))
  BY <1>1, <1>2, BelowIs
<1>7. a \in Nat /\ b \in Nat
  <2>1. Len(Statics(t, v)) \in Nat
    <3>1. Statics(t, v) \in Seq(Nat)
      BY <1>1, <1>2, NodeIs
    <3> QED BY <3>1
  <2> HIDE DEF a, b
  <2> QED BY <1>5, <1>6, <2>1
<1> HIDE DEF a, b, y
<1>8. CASE text = << >>
  <2>1. StaticCall(t, v, text, i, a, b) = Insert(t, v, i + 1)
    BY <1>8 DEF StaticCall
  <2>2. /\ Going(t, v, i + 1, FALSE, << >>, r, t0, rs, L)
        /\ Room(r, L, v, i + 1, FALSE) + 1 <= y
    BY <1>8, EmptyStep DEF y
  <2>3. CallIs(Insert(t, v, i + 1), k + 1, r, t0, rs)
    BY <1>3, <2>2, GoesOn
  <2> QED BY <2>1, <2>3, Zenon DEF a, b
<1>9. CASE text # << >> /\ a # 0
  <2> DEFINE p == Len(Prefix(t, above))
  <2>1. StaticCall(t, v, text, i, a, b) = InsertStatic(t, above, Rest(text, p), i)
    BY <1>7, <1>9 DEF StaticCall
  <2>2. above \in Nat /\ StaticChild(t, v, above) /\ IsPrefix(Prefix(t, above), text)
    BY <1>4, <1>5, <1>9
  <2> HIDE DEF above
  <2>3. /\ Going(t, above, i, TRUE, Rest(text, p), r, t0, rs, L) /\ Rest(text, p) \in Seq(Chars)
        /\ Room(r, L, above, i, TRUE) + 1 <= y
    BY <2>2, DescendStep DEF y
  <2> HIDE DEF p
  <2>4. CallIs(InsertStatic(t, above, Rest(text, p), i), k + 1, r, t0, rs)
    BY <1>3, <2>3, GoesOnWithText
  <2> QED BY <2>1, <2>4, Zenon DEF a, b
<1>10. ASSUME a = 0, NEW c \in Nat, StaticChild(t, v, c) PROVE ~IsPrefix(Prefix(t, c), text)
  <2>1. PICK j \in 1..Len(Statics(t, v)) : Statics(t, v)[j] = c
    BY <1>10 DEF StaticChild
  <2> QED BY <1>5, <1>10, <2>1
<1>11. CASE text # << >> /\ a = 0 /\ b # 0
  <2> DEFINE t2 == Append([t EXCEPT ![below].prefix = Rest(@, Len(text)),
                                    ![v].statics[b] = Len(t) + 1],
                          [Node(text) EXCEPT !.statics = <<below>>])
             L2 == Extended(L, Len(t2), s)
  <2>1. StaticCall(t, v, text, i, a, b) = Insert(t2, Len(t) + 1, i + 1)
    BY <1>7, <1>11 DEF StaticCall
  <2>2. b \in 1..Len(Statics(t, v)) /\ IsPrefix(text, Prefix(t, below))
        /\ below \in Nat /\ StaticChild(t, v, below) /\ below = Statics(t, v)[b]
    BY <1>4, <1>6, <1>11
  <2> HIDE DEF below
  <2>3. below \in 1..Len(t) /\ below # v /\ Prefix(t, below) \in Seq(Chars)
    <3>1. below \in 1..Len(t) /\ Prefix(t, below) \in Seq(Chars)
      BY <1>1, <2>2, StaticLabel
    <3>2. Len(Label(L, v)) < Len(Label(L, below)) /\ Len(Label(L, v)) \in Nat
      BY <1>1, <2>2, ChildLabel DEF Child
    <3>3. below # v
      BY <3>2
    <3> QED BY <3>1, <3>3
  <2>4. Len(text) \in 0..Len(Prefix(t, below))
    BY <1>1, <2>2, <2>3, RestJoins
  <2>5. Splits(t, v, b, text, t2)
    BY <1>1, <1>2, <2>2, <2>3, <2>4, NodeSplit
  <2> HIDE DEF t2, L2
  <2>6. Len(t2) = Len(t) + 1
    BY <2>5 DEF Splits, Grows
  <2>7. /\ Going(t2, Len(t2), i + 1, FALSE, << >>, r, t0, rs, L2)
        /\ Room(r, L2, Len(t2), i + 1, FALSE) + 1 <= y
    <3>1. \A c \in Nat : StaticChild(t, v, c) => ~IsPrefix(Prefix(t, c), text)
      BY <1>10, <1>11
    <3>2. text # << >> /\ b \in 1..Len(Statics(t, v))
          /\ IsPrefix(text, Prefix(t, Statics(t, v)[b]))
      BY <1>11, <2>2
    <3> QED BY <2>5, <3>1, <3>2, SplitStep DEF y, L2
  <2>8. CallIs(Insert(t2, Len(t2), i + 1), k + 1, r, t0, rs)
    BY <1>3, <2>7, GoesOn
  <2> QED BY <2>1, <2>6, <2>8, Zenon DEF a, b
<1>12. CASE text # << >> /\ a = 0 /\ b = 0
  <2> DEFINE t2 == Append([t EXCEPT ![v].statics = Append(@, Len(t) + 1)], Node(text))
             L2 == Extended(L, Len(t2), s)
  <2>1. StaticCall(t, v, text, i, a, b) = Insert(t2, Len(t) + 1, i + 1)
    BY <1>7, <1>12 DEF StaticCall
  <2>2. AddsStatic(t, v, text, t2)
    BY <1>1, <1>2, StaticAdded
  <2> HIDE DEF t2, L2
  <2>3. Len(t2) = Len(t) + 1
    BY <2>2 DEF AddsStatic, Grows
  <2>4. ASSUME NEW c \in Nat, StaticChild(t, v, c) PROVE ~IsPrefix(text, Prefix(t, c))
    <3>1. PICK j \in 1..Len(Statics(t, v)) : Statics(t, v)[j] = c
      BY <2>4 DEF StaticChild
    <3> QED BY <1>6, <1>12, <3>1
  <2>5. /\ Going(t2, Len(t2), i + 1, FALSE, << >>, r, t0, rs, L2)
        /\ Room(r, L2, Len(t2), i + 1, FALSE) + 1 <= y
    <3>1. \A c \in Nat : StaticChild(t, v, c) =>
            ~IsPrefix(Prefix(t, c), text) /\ ~IsPrefix(text, Prefix(t, c))
      BY <1>10, <1>12, <2>4
    <3> QED BY <1>12, <2>2, <3>1, NewStaticStep DEF y, L2
  <2>6. CallIs(Insert(t2, Len(t2), i + 1), k + 1, r, t0, rs)
    BY <1>3, <2>5, GoesOn
  <2> QED BY <2>1, <2>3, <2>6, Zenon DEF a, b
<1> QED BY <1>8, <1>9, <1>11, <1>12 DEF a, b

\* A call that ends, without and with its route in the tree.
LEMMA Ended ==
  ASSUME NEW c, IsCall(c)
  PROVE  LET d == [c EXCEPT !.ended = TRUE]
         IN IsCall(d) /\ d.tree = c.tree /\ d.ended /\ d.ok = c.ok
BY DEF IsCall

\* The other one.
IsAdded(d, t2) == IsCall(d) /\ d.tree = t2 /\ d.ended /\ d.ok

\* It has the new tree.
LEMMA EndedWith ==
  ASSUME NEW c, IsCall(c), NEW t2 \in Seq(NodeType)
  PROVE  IsAdded([c EXCEPT !.tree = t2, !.ended = TRUE, !.ok = TRUE], t2)
BY DEF IsCall, IsAdded

\* The end at a node.
LEMMA RouteGoes ==
  ASSUME NEW c, IsCall(c), ~c.ok, NEW r \in Routes, NEW t0, NEW rs \in SUBSET Routes, NEW L,
         NEW text, Going(c.tree, c.at, c.i, FALSE, text, r, t0, rs, L), NEW k,
         c.i = Len(r.tokens) + 1
  PROVE  CallIs(InsertRoute(c, r), k, r, t0, rs)
<1> DEFINE t == c.tree
           v == c.at
           i == c.i
           d == InsertRoute(c, r)
<1>1. t \in Seq(NodeType) /\ v \in 1..Len(t) /\ i \in 1..(Len(r.tokens) + 1)
  BY CallFields DEF Going, IsAt
<1>2. Label(L, v) = FlatTo(r, i - 1)
  BY DEF Going, IsAt
<1>3. Flat(r) = Label(L, v) /\ \A x \in 1..Len(r.tokens) : x \in 1..(i - 1)
  <2>1. i = Len(r.tokens) + 1
    OBVIOUS
  <2> HIDE DEF i
  <2> QED BY <1>1, <1>2, <2>1, PatternEnds
<1>4. CASE Taken(RoutesAt(t, v), r)
  <2>1. d = [c EXCEPT !.ended = TRUE]
    BY <1>4 DEF InsertRoute, RoutesAt
  <2>2. IsCall(d) /\ d.tree = t /\ d.ended /\ d.ok = c.ok
    BY <2>1, Ended
  <2>3. PICK q \in RoutesAt(t, v) : q.verb = r.verb
    BY <1>4 DEF Taken
  <2>4. Done(t, FALSE, r, t0, rs, L)
    BY <1>3, <2>3, TakenStep
  <2>5. Done(d.tree, d.ok, r, t0, rs, L)
    BY <2>2, <2>4 DEF Done
  <2> HIDE DEF d
  <2>6. CallIs(d, k, r, t0, rs)
    BY <2>2, <2>5, EndsSo
  <2> QED BY <2>6 DEF d
<1>5. CASE ~Taken(RoutesAt(t, v), r)
  <2> DEFINE t2 == [t EXCEPT ![v].routes = @ \cup {r}]
  <2>1. d = [c EXCEPT !.tree = t2, !.ended = TRUE, !.ok = TRUE]
    BY <1>5 DEF InsertRoute, RoutesAt
  <2>2. AddsRoute(t, v, {r}, {}, t2)
    BY <1>1, RouteAdded
  <2>3. t2 \in Seq(NodeType)
    BY <2>2, Zenon DEF AddsRoute
  <2> HIDE DEF t2
  <2>4. IsCall(d) /\ d.tree = t2 /\ d.ended /\ d.ok
    <3>1. IsAdded([c EXCEPT !.tree = t2, !.ended = TRUE, !.ok = TRUE], t2)
      BY <2>3, EndedWith
    <3> DEFINE e == [c EXCEPT !.tree = t2, !.ended = TRUE, !.ok = TRUE]
    <3> HIDE DEF d, e
    <3>2. IsAdded(e, t2) /\ d = e
      BY <2>1, <3>1 DEF e
    <3> QED BY <3>2 DEF IsAdded
  <2>5. \A q \in RoutesAt(t, v) : q.verb # r.verb
    BY <1>5 DEF Taken
  <2>6. \A x \in 1..Len(r.tokens) : x \in 1..(i - 1) \/ r.tokens[x].kind # "static"
    BY <1>3
  <2>7. Done(t2, TRUE, r, t0, rs, L)
    BY <1>3, <2>2, <2>5, <2>6, RouteStep
  <2> HIDE DEF d
  <2>8. CallIs(d, k, r, t0, rs)
    BY <2>4, <2>7, EndsSo DEF Done
  <2> QED BY <2>8 DEF d
<1> QED BY <1>4, <1>5

\* The end in a wildcard.
LEMMA WildcardGoes ==
  ASSUME NEW c, IsCall(c), ~c.ok, NEW r \in Routes, NEW t0, NEW rs \in SUBSET Routes, NEW L,
         NEW text, Going(c.tree, c.at, c.i, FALSE, text, r, t0, rs, L), NEW k,
         c.i # Len(r.tokens) + 1, r.tokens[c.i].kind = "wildcard"
  PROVE  CallIs(InsertWildcard(c, r), k, r, t0, rs)
<1> DEFINE t == c.tree
           v == c.at
           i == c.i
           d == InsertWildcard(c, r)
<1>1. t \in Seq(NodeType) /\ v \in 1..Len(t) /\ i \in 1..(Len(r.tokens) + 1)
  BY CallFields DEF Going, IsAt
<1>2. Label(L, v) = FlatTo(r, i - 1)
  BY DEF Going, IsAt
<1>3. /\ Flat(r) = Label(L, v) \o <<"wildcard">>
      /\ \A x \in 1..Len(r.tokens) : x \in 1..(i - 1) \/ r.tokens[x].kind # "static"
  <2>1. i # Len(r.tokens) + 1 /\ r.tokens[i].kind = "wildcard"
    OBVIOUS
  <2> HIDE DEF i
  <2> QED BY <1>1, <1>2, <2>1, PatternEnds
<1>4. CASE Taken(WildcardAt(t, v), r)
  <2>1. d = [c EXCEPT !.ended = TRUE]
    BY <1>4 DEF InsertWildcard, WildcardAt
  <2>2. IsCall(d) /\ d.tree = t /\ d.ended /\ d.ok = c.ok
    BY <2>1, Ended
  <2>3. PICK q \in WildcardAt(t, v) : q.verb = r.verb
    BY <1>4 DEF Taken
  <2>4. Done(t, FALSE, r, t0, rs, L)
    BY <1>3, <2>3, TakenStep
  <2>5. Done(d.tree, d.ok, r, t0, rs, L)
    BY <2>2, <2>4 DEF Done
  <2> HIDE DEF d
  <2>6. CallIs(d, k, r, t0, rs)
    BY <2>2, <2>5, EndsSo
  <2> QED BY <2>6 DEF d
<1>5. CASE ~Taken(WildcardAt(t, v), r)
  <2> DEFINE t2 == [t EXCEPT ![v].wildcard = @ \cup {r}]
  <2>1. d = [c EXCEPT !.tree = t2, !.ended = TRUE, !.ok = TRUE]
    BY <1>5 DEF InsertWildcard, WildcardAt
  <2>2. AddsRoute(t, v, {}, {r}, t2)
    BY <1>1, WildcardAdded
  <2>3. t2 \in Seq(NodeType)
    BY <2>2, Zenon DEF AddsRoute
  <2> HIDE DEF t2
  <2>4. IsCall(d) /\ d.tree = t2 /\ d.ended /\ d.ok
    <3>1. IsAdded([c EXCEPT !.tree = t2, !.ended = TRUE, !.ok = TRUE], t2)
      BY <2>3, EndedWith
    <3> DEFINE e == [c EXCEPT !.tree = t2, !.ended = TRUE, !.ok = TRUE]
    <3> HIDE DEF d, e
    <3>2. IsAdded(e, t2) /\ d = e
      BY <2>1, <3>1 DEF e
    <3> QED BY <3>2 DEF IsAdded
  <2>5. \A q \in WildcardAt(t, v) : q.verb # r.verb
    BY <1>5 DEF Taken
  <2>7. Done(t2, TRUE, r, t0, rs, L)
    BY <1>3, <2>2, <2>5, RouteStep
  <2> HIDE DEF d
  <2>8. CallIs(d, k, r, t0, rs)
    BY <2>4, <2>7, EndsSo DEF Done
  <2> QED BY <2>8 DEF d
<1> QED BY <1>4, <1>5

\* The parameter child, that is there or new.
LEMMA ParamGoes ==
  ASSUME NEW c, IsCall(c), NEW r \in Routes, NEW t0, NEW rs \in SUBSET Routes, NEW L,
         NEW text, Going(c.tree, c.at, c.i, FALSE, text, r, t0, rs, L), NEW k \in Nat,
         Room(r, L, c.at, c.i, FALSE) + k <= CallsAtMost(r),
         c.i # Len(r.tokens) + 1, r.tokens[c.i].kind = "param"
  PROVE  CallIs(InsertParam(c), k + 1, r, t0, rs)
<1> DEFINE t == c.tree
           v == c.at
           i == c.i
           y == Room(r, L, v, i, FALSE)
           p == Params(t, v)
<1>1. IsTree(t, L) /\ v \in 1..Len(t) /\ i \in 1..(Len(r.tokens) + 1)
  BY DEF Going, Growing, IsAt
<1>2. t \in Seq(NodeType) /\ v \in Nat /\ i \in Nat /\ Len(t) \in Nat
  BY <1>1, TreeIs, TokensAre
<1>3. y \in Int /\ y + k <= CallsAtMost(r)
  <2>1. \A static \in BOOLEAN : Room(r, L, v, i, static) \in Int
    BY <1>1, <1>2, RoomType
  <2> QED BY <2>1
<1>4. InsertParam(c) = IF p # << >> THEN Insert(t, p[1], i + 1)
                       ELSE Insert(Append([t EXCEPT ![v].params = <<Len(t) + 1>>], Node(<< >>)),
                                   Len(t) + 1, i + 1)
  BY DEF InsertParam, Params, Fresh
<1>5. CASE p # << >>
  <2>1. InsertParam(c) = Insert(t, p[1], i + 1)
    BY <1>4, <1>5
  <2>2. p[1] \in Nat /\ ParamChild(t, v, p[1])
    <3>1. p \in Seq(Nat)
      BY <1>1, <1>2, NodeIs
    <3>2. ParamChild(t, v, p[1])
      BY <1>5 DEF ParamChild
    <3> HIDE DEF p
    <3>3. p[1] \in Nat
      BY <1>5, <3>1
    <3> QED BY <3>2, <3>3
  <2> DEFINE x == p[1]
  <2> HIDE DEF p, x, y
  <2>3. /\ Going(t, x, i + 1, FALSE, << >>, r, t0, rs, L)
        /\ Room(r, L, x, i + 1, FALSE) + 1 <= y
    BY <2>2, ParamStep DEF x, y
  <2>4. CallIs(Insert(t, x, i + 1), k + 1, r, t0, rs)
    BY <1>3, <2>3, GoesOn
  <2> QED BY <2>1, <2>4, Zenon DEF x
<1>6. CASE p = << >>
  <2> DEFINE t2 == Append([t EXCEPT ![v].params = <<Len(t) + 1>>], Node(<< >>))
             L2 == Extended(L, Len(t2), FlatTo(r, i))
  <2>1. InsertParam(c) = Insert(t2, Len(t) + 1, i + 1)
    BY <1>4, <1>6
  <2>2. AddsParam(t, v, t2)
    BY <1>1, <1>2, ParamAdded
  <2> HIDE DEF t2, L2, y
  <2>3. Len(t2) = Len(t) + 1
    BY <2>2 DEF AddsParam, Grows
  <2>4. /\ Going(t2, Len(t2), i + 1, FALSE, << >>, r, t0, rs, L2)
        /\ Room(r, L2, Len(t2), i + 1, FALSE) + 1 <= y
    BY <1>6, <2>2, NewParamStep DEF y, L2
  <2>5. CallIs(Insert(t2, Len(t2), i + 1), k + 1, r, t0, rs)
    BY <1>3, <2>4, GoesOn
  <2> QED BY <2>1, <2>3, <2>5, Zenon
<1> QED BY <1>5, <1>6

\* Each call leads to the next.
LEMMA CalledGoes ==
  ASSUME NEW c, NEW r \in Routes, NEW t0, NEW rs \in SUBSET Routes, NEW k \in Nat,
         CallIs(c, k, r, t0, rs)
  PROVE  CallIs(Called(c, r), k + 1, r, t0, rs)
<1>1. IsCall(c) /\ (c.ended \/ ~c.ok) /\ c.ended \in BOOLEAN /\ c.static \in BOOLEAN
      /\ c.text \in Seq(Chars)
  <2>1. IsCall(c) /\ (c.ended \/ ~c.ok)
    BY DEF CallIs
  <2> QED BY <2>1, CallFields
<1>2. PICK L : IF c.ended THEN Done(c.tree, c.ok, r, t0, rs, L)
               ELSE /\ Going(c.tree, c.at, c.i, c.static, c.text, r, t0, rs, L)
                    /\ Room(r, L, c.at, c.i, c.static) + k <= CallsAtMost(r)
  BY DEF CallIs
<1>3. CASE c.ended
  <2>1. Called(c, r) = c
    BY <1>3 DEF Called
  <2>2. CallIs(c, k + 1, r, t0, rs)
    BY <1>1, <1>2, <1>3, EndsSo
  <2> QED BY <2>1, <2>2
<1>4. CASE ~c.ended /\ c.static
  <2>1. /\ Going(c.tree, c.at, c.i, TRUE, c.text, r, t0, rs, L)
        /\ Room(r, L, c.at, c.i, TRUE) + k <= CallsAtMost(r)
    <3>1. c.static = TRUE
      BY <1>1, <1>4
    <3> QED BY <1>2, <1>4, <3>1
  <2>2. Called(c, r) = TryInsertStatic(c)
    BY <1>4 DEF Called
  <2>3. CallIs(TryInsertStatic(c), k + 1, r, t0, rs)
    BY <2>1, StaticGoes, StaticCallIs
  <2> QED BY <2>2, <2>3
<1>5. CASE ~c.ended /\ ~c.static
  <2>1. /\ Going(c.tree, c.at, c.i, FALSE, c.text, r, t0, rs, L)
        /\ Room(r, L, c.at, c.i, FALSE) + k <= CallsAtMost(r)
    <3>1. c.static = FALSE
      BY <1>1, <1>5
    <3> QED BY <1>2, <1>5, <3>1
  <2>2. Called(c, r) = TryInsert(c, r)
    BY <1>5 DEF Called
  <2> DEFINE i == c.i
             kind == r.tokens[i].kind
  <2>3. i \in 1..(Len(r.tokens) + 1) /\ Len(r.tokens) \in Nat /\ i \in Nat
    BY <2>1, TokensAre DEF Going, IsAt
  <2>4. CASE i = Len(r.tokens) + 1
    <3>1. TryInsert(c, r) = InsertRoute(c, r)
      BY <2>3, <2>4 DEF TryInsert
    <3>2. CallIs(InsertRoute(c, r), k + 1, r, t0, rs)
      BY <1>1, <1>5, <2>1, <2>4, RouteGoes
    <3> QED BY <2>2, <3>1, <3>2
  <2>5. CASE i # Len(r.tokens) + 1
    <3>1. ~(i > Len(r.tokens)) /\ kind \in Kinds
      <4>1. i \in 1..Len(r.tokens)
        BY <2>3, <2>5
      <4>2. kind \in Kinds
        BY <4>1, TokensAre
      <4> HIDE DEF kind, i
      <4> QED BY <2>3, <4>1, <4>2
    <3>2. CASE kind = "static"
      <4>1. TryInsert(c, r) = InsertStatic(c.tree, c.at, r.tokens[i].text, i)
        BY <3>1, <3>2 DEF TryInsert
      <4>2. /\ Going(c.tree, c.at, i, TRUE, r.tokens[i].text, r, t0, rs, L)
            /\ Room(r, L, c.at, i, TRUE) + 1 <= Room(r, L, c.at, i, FALSE)
        BY <2>1, <2>5, <3>2, TextStep
      <4>3. r.tokens[i].text \in Seq(Chars)
        BY <4>2 DEF Going, IsAt
      <4>4. Room(r, L, c.at, i, FALSE) \in Int
        <5>1. IsTree(c.tree, L) /\ c.at \in 1..Len(c.tree)
          BY <2>1 DEF Going, Growing, IsAt
        <5>2. \A static \in BOOLEAN : Room(r, L, c.at, i, static) \in Int
          BY <2>3, <5>1, RoomType
        <5> QED BY <5>2
      <4> DEFINE y == Room(r, L, c.at, i, FALSE)
                 text == r.tokens[i].text
      <4> HIDE DEF y, text
      <4>5. CallIs(InsertStatic(c.tree, c.at, text, i), k + 1, r, t0, rs)
        BY <2>1, <4>2, <4>3, <4>4, GoesOnWithText DEF y, text
      <4> QED BY <2>2, <4>1, <4>5, Zenon DEF text
    <3>3. CASE kind = "param"
      <4>1. TryInsert(c, r) = InsertParam(c)
        BY <3>1, <3>3 DEF TryInsert
      <4>2. CallIs(InsertParam(c), k + 1, r, t0, rs)
        BY <1>1, <2>1, <2>5, <3>3, ParamGoes
      <4> QED BY <2>2, <4>1, <4>2
    <3>4. CASE kind = "wildcard"
      <4>1. TryInsert(c, r) = InsertWildcard(c, r)
        BY <3>1, <3>4 DEF TryInsert
      <4>2. CallIs(InsertWildcard(c, r), k + 1, r, t0, rs)
        BY <1>1, <1>5, <2>1, <2>5, <3>4, WildcardGoes
      <4> QED BY <2>2, <4>1, <4>2
    <3> QED BY <3>1, <3>2, <3>3, <3>4 DEF Kinds
  <2> QED BY <2>4, <2>5
<1> QED BY <1>1, <1>3, <1>4, <1>5

\* As long as a call has not ended there is room for another.
LEMMA RoomLeft ==
  ASSUME NEW t, NEW v, NEW i, NEW static \in BOOLEAN, NEW text, NEW r \in Routes, NEW t0,
         NEW rs, NEW L, Going(t, v, i, static, text, r, t0, rs, L)
  PROVE  Room(r, L, v, i, static) \in Int /\ Room(r, L, v, i, static) >= 1
<1> DEFINE l == Label(L, v)
           n == Len(r.tokens)
           a == Len(Flat(r))
           b == Len(l)
           d == IF static THEN 0 ELSE 1
           e == 2 * (n + 1 - i)
<1>1. IsTree(t, L) /\ v \in 1..Len(t) /\ i \in 1..(n + 1) /\ n \in Nat /\ i \in Nat
  <2>1. IsTree(t, L) /\ v \in 1..Len(t) /\ i \in 1..(n + 1)
    BY DEF Going, Growing, IsAt
  <2> QED BY <2>1, TokensAre
<1>2. l \in Seq(Marks) /\ b \in Nat
  BY <1>1, TreeIs
<1>3. Flat(r) \in Seq(Symbols) /\ a \in Nat
  <2>1. Flat(r) \in Seq(Symbols)
    BY FlatIs
  <2> QED BY <2>1
<1>4. ASSUME NEW k \in 0..n PROVE Len(FlatTo(r, k)) <= a /\ Len(FlatTo(r, k)) \in Nat
  <2>1. n \in 0..n /\ FlatTo(r, n) = Flat(r)
    BY <1>1, FlatIs
  <2>2. IsPrefix(FlatTo(r, k), Flat(r))
    BY <2>1, FlatToPrefix
  <2>3. FlatTo(r, k) \in Seq(Symbols)
    BY FlatIs
  <2> QED BY <1>3, <2>2, <2>3, PrefixMeans
<1>5. b <= a
  <2>1. CASE static
    <3>1. i \in 1..n /\ text \in Seq(Chars) /\ l \o text = FlatTo(r, i)
      BY <2>1 DEF Going, IsAt
    <3>2. text \in Seq(Marks) /\ Len(text) \in Nat
      BY <3>1 DEF Marks
    <3> HIDE DEF l
    <3>3. Len(l \o text) = Len(l) + Len(text)
      BY <1>2, <3>2, ConcatIs
    <3>4. i \in 0..n
      BY <3>1
    <3>5. Len(l \o text) <= a
      BY <1>4, <3>1, <3>4
    <3> DEFINE x == Len(text)
    <3> HIDE DEF a, b, x
    <3>6. b + x <= a /\ x \in Nat
      BY <3>2, <3>3, <3>5 DEF x, b
    <3> QED BY <1>2, <1>3, <3>6
  <2>2. CASE ~static
    <3>1. l = FlatTo(r, i - 1)
      BY <2>2 DEF Going, IsAt
    <3>2. i - 1 \in 0..n
      BY <1>1
    <3> QED BY <1>4, <3>1, <3>2
  <2> QED BY <2>1, <2>2
<1>6. Room(r, L, v, i, static) = a - b + e + d
  BY DEF Room
<1>7. d \in Nat /\ e \in Int /\ e + d >= 1
  <2>1. CASE static
    <3>1. i \in 1..n
      BY <2>1 DEF Going, IsAt
    <3> HIDE DEF n
    <3>2. e \in Int /\ e >= 1
      BY <1>1, <3>1
    <3> HIDE DEF e
    <3> QED BY <2>1, <3>2
  <2>2. CASE ~static
    <3> HIDE DEF n
    <3>2. e \in Int /\ e >= 0
      BY <1>1
    <3> HIDE DEF e
    <3> QED BY <2>2, <3>2
  <2> QED BY <2>1, <2>2
<1> HIDE DEF a, b, d, e
<1>8. a - b + e + d \in Int /\ a - b + e + d >= 1
  BY <1>2, <1>3, <1>5, <1>7
<1> QED BY <1>6, <1>8

\* The calls of an insertion.
IsCalls(f, t, r) ==
  f = [k \in 0..CallsAtMost(r) |-> IF k = 0 THEN Insert(t, 1, 1) ELSE Called(f[k - 1], r)]

\* They are well defined.
LEMMA CallsExist ==
  ASSUME NEW t, NEW r, CallsAtMost(r) \in Nat
  PROVE  IsCalls(Calls(t, r), t, r)
<1> DEFINE n == CallsAtMost(r)
           Up(f, m) == f = [k \in 0..m |-> IF k = 0 THEN Insert(t, 1, 1)
                                           ELSE Called(f[k - 1], r)]
           P == {m \in Nat : \E f : Up(f, m)}
<1>1. n \in Nat
  OBVIOUS
<1>0. Calls(t, r) = CHOOSE f : Up(f, n)
  BY DEF Calls
<1> HIDE DEF n
<1>2. 0 \in P
  <2> DEFINE f == [k \in 0..0 |-> Insert(t, 1, 1)]
  <2>1. f = [k \in 0..0 |-> IF k = 0 THEN Insert(t, 1, 1) ELSE Called(f[k - 1], r)]
    OBVIOUS
  <2>2. Up(f, 0)
    BY <2>1
  <2> QED BY <2>2
<1>3. ASSUME NEW m \in 0..(n - 1), m \in P PROVE m + 1 \in P
  <2>1. PICK f : Up(f, m)
    BY <1>3
  <2> DEFINE j == m + 1
             g == [k \in 0..j |-> IF k = j THEN Called(f[m], r) ELSE f[k]]
  <2>2. /\ j \in Nat /\ m \in Nat /\ j # 0 /\ j - 1 = m /\ j # m
        /\ (\A k \in 0..j : k = j \/ (k \in 0..m /\ k # j))
        /\ \A k \in 0..m : k \in 0..j /\ k # j /\ (k # 0 => k - 1 \in 0..m)
        /\ m \in 0..m
    BY <1>1
  <2>3. \A k \in 0..m : f[k] = IF k = 0 THEN Insert(t, 1, 1) ELSE Called(f[k - 1], r)
    BY <2>1
  <2> HIDE DEF Up, j
  <2>4. \A k \in 0..m : g[k] = f[k]
    BY <2>2
  <2>5. g[j] = Called(f[m], r)
    BY <2>2
  <2>6. ASSUME NEW k \in 0..j
        PROVE  g[k] = IF k = 0 THEN Insert(t, 1, 1) ELSE Called(g[k - 1], r)
    <3> HIDE DEF g
    <3>1. CASE k = j
      <4>1. g[k - 1] = f[m]
        BY <2>2, <2>4, <3>1
      <4> QED BY <2>2, <2>5, <3>1, <4>1
    <3>2. CASE k # j
      <4>1. k \in 0..m
        BY <2>2, <3>2
      <4>2. CASE k = 0
        BY <2>3, <2>4, <4>1, <4>2
      <4>3. CASE k # 0
        <5>1. k - 1 \in 0..m
          BY <2>2, <4>1, <4>3
        <5>2. g[k - 1] = f[k - 1] /\ g[k] = f[k]
          BY <2>4, <4>1, <5>1
        <5> QED BY <2>3, <4>1, <4>3, <5>2
      <4> QED BY <4>2, <4>3
    <3> QED BY <3>1, <3>2
  <2>7. g = [k \in 0..j |-> g[k]]
    OBVIOUS
  <2> HIDE DEF g
  <2>8. g = [k \in 0..j |-> IF k = 0 THEN Insert(t, 1, 1) ELSE Called(g[k - 1], r)]
    BY <2>6, <2>7
  <2>9. Up(g, j)
    BY <2>8 DEF Up
  <2>10. j \in P
    BY <2>2, <2>9
  <2> QED BY <2>10 DEF j
<1>4. n \in P
  <2> HIDE DEF P
  <2>1. \A k \in 0..n : k \in P
    BY <1>1, <1>2, <1>3, SetInduction
  <2> QED BY <1>1, <2>1
<1>5. Up(Calls(t, r), n)
  <2>1. \E f : Up(f, n)
    BY <1>4
  <2> HIDE DEF Up
  <2> QED BY <1>0, <2>1
<1> QED BY <1>5 DEF IsCalls, n

\* What an insertion makes of a tree that holds some routes.
LEMMA InsertedIs ==
  ASSUME NEW t, NEW L, NEW rs \in SUBSET Routes, NEW r \in Routes,
         IsTree(t, L), Holds(t, L, rs), Labelled(t, L, rs), HasCuts(t, L, rs)
  PROVE  /\ Inserted(t, r).ok \in BOOLEAN
         /\ \E L2 : Done(Inserted(t, r).tree, Inserted(t, r).ok, r, t, rs, L2)
<1> DEFINE n == CallsAtMost(r)
           f == Calls(t, r)
           c == f[n]
           P == {k \in Nat : CallIs(f[k], k, r, t, rs)}
<1>1. t \in Seq(NodeType) /\ 1 \in 1..Len(t) /\ Label(L, 1) = << >>
  BY TreeIs
<1>2. n \in Nat /\ Room(r, L, 1, 1, FALSE) \in Int
  BY <1>1, RoomType
<1>3. Room(r, L, 1, 1, FALSE) + 0 <= n
  <2> DEFINE a == Len(Flat(r))
             b == Len(Label(L, 1))
             m == Len(r.tokens)
  <2>1. a \in Nat
    <3>1. Flat(r) \in Seq(Symbols)
      BY FlatIs
    <3> QED BY <3>1
  <2>2. b = 0
    BY <1>1
  <2>3. m \in Nat
    BY TokensAre
  <2>4. Room(r, L, 1, 1, FALSE) = a - b + 2 * (m + 1 - 1) + 1 /\ n = a + 2 * m + 1
    BY DEF Room, CallsAtMost
  <2> HIDE DEF a, b, m, n
  <2>5. a - b + 2 * (m + 1 - 1) + 1 = a + 2 * m + 1 /\ a + 2 * m + 1 \in Nat
    BY <2>1, <2>2, <2>3
  <2>6. Room(r, L, 1, 1, FALSE) = n
    BY <2>4, <2>5, Zenon
  <2>7. n + 0 <= n
    BY <2>4, <2>5
  <2> QED BY <2>6, <2>7
<1>4. Going(t, 1, 1, FALSE, << >>, r, t, rs, L)
  <2>1. Growing(t, L, t, rs, r)
    BY DEF Growing, Labelled, Short
  <2>2. IsAt(t, 1, 1, FALSE, << >>, r, L)
    <3>1. Len(r.tokens) \in Nat /\ 1 \in 1..(Len(r.tokens) + 1) /\ 1 - 1 = 0
      BY TokensAre
    <3>2. Label(L, 1) = FlatTo(r, 0)
      BY <1>1, FlatIs
    <3> QED BY <1>1, <3>1, <3>2 DEF IsAt
  <2> QED BY <2>1, <2>2 DEF Going
<1>5. IsCalls(f, t, r)
  BY <1>2, CallsExist
<1> HIDE DEF f, n
<1>6. f[0] = Insert(t, 1, 1) /\ \A k \in 0..(n - 1) : f[k + 1] = Called(f[k], r)
  <2>1. f = [k \in 0..n |-> IF k = 0 THEN Insert(t, 1, 1) ELSE Called(f[k - 1], r)]
    BY <1>5 DEF IsCalls, n
  <2>2. 0 \in 0..n
    BY <1>2
  <2>3. ASSUME NEW k \in 0..(n - 1) PROVE f[k + 1] = Called(f[k], r)
    <3>1. k + 1 \in 0..n /\ k + 1 # 0 /\ (k + 1) - 1 = k
      BY <1>2
    <3> DEFINE j == k + 1
    <3> HIDE DEF j
    <3>2. f[j] = Called(f[j - 1], r)
      BY <2>1, <3>1 DEF j
    <3> QED BY <3>1, <3>2 DEF j
  <2> QED BY <2>1, <2>2, <2>3
<1>7. 0 \in P
  <2> DEFINE d == Insert(t, 1, 1)
  <2>1. CallAt(d, t, 1, 1, FALSE, << >>)
    BY <1>1, InsertIs
  <2> HIDE DEF d
  <2>2. Going(d.tree, d.at, d.i, d.static, d.text, r, t, rs, L)
        /\ Room(r, L, d.at, d.i, d.static) + 0 <= CallsAtMost(r)
    BY <1>3, <1>4, <2>1 DEF CallAt, n
  <2>3. CallIs(d, 0, r, t, rs)
    BY <2>1, <2>2 DEF CallIs, CallAt
  <2> QED BY <1>6, <2>3 DEF d
<1>8. ASSUME NEW k \in 0..(n - 1), k \in P PROVE k + 1 \in P
  <2>1. k \in Nat /\ k + 1 \in Nat
    OBVIOUS
  <2>2. CallIs(f[k], k, r, t, rs)
    BY <1>8
  <2> DEFINE d == f[k]
  <2> HIDE DEF d
  <2>3. CallIs(Called(d, r), k + 1, r, t, rs)
    BY <2>1, <2>2, CalledGoes DEF d
  <2> QED BY <1>6, <2>1, <2>3 DEF d
<1>9. n \in P
  <2> HIDE DEF P
  <2>1. \A k \in 0..n : k \in P
    BY <1>2, <1>7, <1>8, SetInduction
  <2> QED BY <1>2, <2>1
<1>10. CallIs(c, n, r, t, rs) /\ c = Inserted(t, r)
  BY <1>9 DEF Inserted, f, n
<1> HIDE DEF c
<1>11. IsCall(c) /\ c.static \in BOOLEAN /\ c.ok \in BOOLEAN
  <2>1. IsCall(c)
    BY <1>10 DEF CallIs
  <2> QED BY <2>1, CallFields
<1>12. PICK L2 : IF c.ended THEN Done(c.tree, c.ok, r, t, rs, L2)
                 ELSE /\ Going(c.tree, c.at, c.i, c.static, c.text, r, t, rs, L2)
                      /\ Room(r, L2, c.at, c.i, c.static) + n <= CallsAtMost(r)
  BY <1>10 DEF CallIs
<1>13. c.ended
  <2> SUFFICES ASSUME ~c.ended PROVE FALSE
    OBVIOUS
  <2> DEFINE x == Room(r, L2, c.at, c.i, c.static)
  <2>1. Going(c.tree, c.at, c.i, c.static, c.text, r, t, rs, L2)
    BY <1>12
  <2>2. x \in Int /\ x >= 1
    BY <1>11, <2>1, RoomLeft
  <2>3. x + n <= n
    BY <1>12 DEF n
  <2> HIDE DEF x
  <2> QED BY <1>2, <2>2, <2>3
<1> QED BY <1>10, <1>11, <1>12, <1>13
-----------------------------------------------------------------------------
(* optimize.                                                               *)

\* One sequence has the members of another, each as often.
Shuffled(cs, ds) ==
  /\ ds \in Seq(Nat) /\ Len(ds) = Len(cs)
  /\ \A j \in 1..Len(ds) : \E i \in 1..Len(cs) : ds[j] = cs[i]
  /\ \A i \in 1..Len(cs) : \E j \in 1..Len(ds) : ds[j] = cs[i]
  /\ (\A i, j \in 1..Len(cs) : cs[i] = cs[j] => i = j) =>
       (\A i, j \in 1..Len(ds) : ds[i] = ds[j] => i = j)

\* A member is put at one of the places.
IsPut(ds, p, c, es) ==
  /\ es \in Seq(Nat) /\ Len(es) = Len(ds) + 1 /\ es[p] = c
  /\ \A j \in 1..(p - 1) : es[j] = ds[j]
  /\ \A j \in (p + 1)..(Len(ds) + 1) : es[j] = ds[j - 1]

\* InsertAt puts it there.
LEMMA InsertAtIs ==
  ASSUME NEW ds \in Seq(Nat), NEW c \in Nat, NEW p \in 1..(Len(ds) + 1)
  PROVE  IsPut(ds, p, c, InsertAt(ds, p, c))
<1> DEFINE a == SubSeq(ds, 1, p - 1)
           b == SubSeq(ds, p, Len(ds))
           n == Len(ds)
           one == <<c>>
<1>1. n \in Nat /\ p \in Nat /\ p - 1 \in 0..n
  OBVIOUS
<1>2. a \in Seq(Nat) /\ Len(a) = p - 1 /\ \A j \in 1..(p - 1) : a[j] = ds[j]
  OBVIOUS
<1>3. b \in Seq(Nat) /\ Len(b) = n - p + 1 /\ \A j \in 1..(n - p + 1) : b[j] = ds[p + j - 1]
  OBVIOUS
<1>4. one \in Seq(Nat) /\ Len(one) = 1 /\ one[1] = c /\ 1 \in 1..Len(one)
  OBVIOUS
<1>5. InsertAt(ds, p, c) = (a \o one) \o b
  BY DEF InsertAt
<1> HIDE DEF a, b, one, n
<1> DEFINE d == a \o one
<1>6. /\ d \in Seq(Nat) /\ Len(d) = p /\ d[p] = c
      /\ \A j \in 1..(p - 1) : d[j] = ds[j]
  <2>1. a \in Seq(Nat) /\ one \in Seq(Nat)
    BY <1>2, <1>4
  <2>2. /\ d \in Seq(Nat) /\ Len(d) = Len(a) + Len(one)
        /\ \A i \in 1..Len(a) : d[i] = a[i]
        /\ \A i \in 1..Len(one) : d[Len(a) + i] = one[i]
    BY <2>1, ConcatIs
  <2> HIDE DEF d
  <2>3. Len(a) + 1 = p /\ Len(d) = p
    BY <1>1, <1>2, <1>4, <2>2
  <2>4. d[p] = c
    BY <1>4, <2>2, <2>3
  <2>5. \A j \in 1..(p - 1) : d[j] = ds[j]
    BY <1>2, <2>2
  <2> QED BY <2>2, <2>3, <2>4, <2>5
<1> HIDE DEF d
<1> DEFINE e == d \o b
<1>7. /\ e \in Seq(Nat) /\ Len(e) = n + 1
      /\ \A j \in 1..p : e[j] = d[j]
      /\ \A j \in 1..(n - p + 1) : e[p + j] = b[j]
  <2>1. d \in Seq(Nat) /\ b \in Seq(Nat)
    BY <1>3, <1>6
  <2>2. /\ e \in Seq(Nat) /\ Len(e) = Len(d) + Len(b)
        /\ \A i \in 1..Len(d) : e[i] = d[i]
        /\ \A i \in 1..Len(b) : e[Len(d) + i] = b[i]
    BY <2>1, ConcatIs
  <2> HIDE DEF e
  <2>3. Len(e) = n + 1
    BY <1>1, <1>3, <1>6, <2>2
  <2> QED BY <1>3, <1>6, <2>2, <2>3
<1> HIDE DEF e
<1>8. ASSUME NEW j \in (p + 1)..(n + 1) PROVE e[j] = ds[j - 1]
  <2> DEFINE i == j - p
  <2>1. i \in 1..(n - p + 1) /\ p + i - 1 = j - 1 /\ p + i = j
    BY <1>1
  <2> HIDE DEF i
  <2>2. e[p + i] = b[i] /\ b[i] = ds[p + i - 1]
    BY <1>3, <1>7, <2>1
  <2> QED BY <2>1, <2>2
<1>9. e[p] = c /\ \A j \in 1..(p - 1) : e[j] = ds[j]
  <2>1. p \in 1..p /\ \A j \in 1..(p - 1) : j \in 1..p
    BY <1>1
  <2> QED BY <1>6, <1>7, <2>1
<1>10. IsPut(ds, p, c, e)
  BY <1>7, <1>8, <1>9 DEF IsPut, n
<1> QED BY <1>5, <1>10 DEF e, d

\* A child's place is behind those that weigh no less.
LEMMA PutIs ==
  ASSUME NEW weight, NEW ds \in Seq(Nat), NEW c \in Nat
  PROVE  \E p \in 1..(Len(ds) + 1) : PutByWeight(weight, ds, c) = InsertAt(ds, p, c)
<1> DEFINE T == {k \in DOMAIN ds : weight[ds[k]] >= weight[c]}
           n == Len(ds)
<1>1. n \in Nat /\ DOMAIN ds = 1..n
  OBVIOUS
<1>2. T \in SUBSET (1..n)
  BY <1>1
<1>3. PutByWeight(weight, ds, c) = InsertAt(ds, 1 + Cardinality(T), c)
  BY DEF PutByWeight
<1> HIDE DEF T, n
<1>4. IsFiniteSet(1..n) /\ Cardinality(1..n) = n
  BY <1>1, FS_Interval
<1>5. IsFiniteSet(T) /\ Cardinality(T) <= n
  BY <1>2, <1>4, FS_Subset
<1>6. Cardinality(T) \in Nat
  BY <1>5, FS_CardinalityType
<1>7. 1 + Cardinality(T) \in 1..(n + 1)
  BY <1>1, <1>5, <1>6
<1> QED BY <1>3, <1>7 DEF n

\* What is in order after each of the children.
ByWeightSteps(F, weight, cs) ==
  /\ F[0] = << >> /\ ByWeight(weight, cs) = F[Len(cs)]
  /\ \A k \in 1..Len(cs) : F[k] = PutByWeight(weight, F[k - 1], cs[k])

\* ByWeight does one step for each child.
LEMMA ByWeightFolds ==
  ASSUME NEW weight, NEW cs \in Seq(Nat)
  PROVE  \E F : ByWeightSteps(F, weight, cs)
<1> DEFINE n == Len(cs)
           X == Seq(Nat)
           G == [k \in 1..n |-> [ds \in X |-> PutByWeight(weight, ds, cs[k])]]
<1>1. n \in Nat /\ DOMAIN cs = 1..n
  OBVIOUS
<1>2. G \in [1..n -> [X -> X]]
  <2>1. ASSUME NEW k \in 1..n, NEW ds \in X PROVE PutByWeight(weight, ds, cs[k]) \in X
    <3>1. cs[k] \in Nat
      OBVIOUS
    <3> DEFINE c == cs[k]
    <3> HIDE DEF c
    <3>2. PICK p \in 1..(Len(ds) + 1) : PutByWeight(weight, ds, c) = InsertAt(ds, p, c)
      BY <3>1, PutIs DEF c
    <3>3. InsertAt(ds, p, c) \in X
      BY <3>1, InsertAtIs DEF c, IsPut
    <3> QED BY <3>2, <3>3 DEF c
  <2> HIDE DEF n, X
  <2> QED BY <2>1
<1> DEFINE Folds(f) == f = [s \in SUBSET (1..n) |->
                              IF s = {} THEN << >>
                              ELSE PutByWeight(weight, f[s \ {Max(s)}], cs[Max(s)])]
<1>3. \E f : Folds(f)
  <2>0. << >> \in X
    OBVIOUS
  <2>1. n \in Nat
    BY <1>1
  <2> HIDE DEF G, n, X
  <2>2. PICK f : IsFold(f, X, << >>, n, G)
    BY <1>2, <2>0, <2>1, FoldExists
  <2>3. /\ f \in [SUBSET (1..n) -> X]
        /\ \A s \in SUBSET (1..n) :
             /\ s # {} => Max(s) \in s
             /\ f[s] = IF s = {} THEN << >> ELSE G[Max(s)][f[s \ {Max(s)}]]
    BY <2>2 DEF IsFold
  <2>4. ASSUME NEW s \in SUBSET (1..n), s # {}
        PROVE  G[Max(s)][f[s \ {Max(s)}]] = PutByWeight(weight, f[s \ {Max(s)}], cs[Max(s)])
    <3>1. Max(s) \in 1..n /\ f[s \ {Max(s)}] \in X
      BY <2>3, <2>4
    <3> DEFINE x == Max(s)
               y == f[s \ {Max(s)}]
    <3> HIDE DEF x, y
    <3>2. G[x][y] = PutByWeight(weight, y, cs[x])
      BY <3>1 DEF G, x, y
    <3> QED BY <3>2 DEF x, y
  <2>5. Folds(f)
    BY <2>3, <2>4
  <2> QED BY <2>5
<1> DEFINE h == CHOOSE f : Folds(f)
<1>4. ByWeight(weight, cs) = h[1..n]
  <2> HIDE DEF n
  <2>1. ByWeight(weight, cs) = h[DOMAIN cs]
    BY <1>1 DEF ByWeight, FoldLeft, MapThenFoldSet
  <2> QED BY <1>1, <2>1
<1>5. Folds(h)
  <2> HIDE DEF Folds
  <2> QED BY <1>3
<1> DEFINE F == [k \in 0..n |-> h[1..k]]
<1> HIDE DEF n, h, G
<1>6. F[0] = << >> /\ ByWeight(weight, cs) = F[n]
  <2>1. 0 \in 0..n /\ n \in 0..n /\ 1..0 = {} /\ 1..0 \in SUBSET (1..n)
    BY <1>1
  <2>2. h[1..0] = << >>
    BY <1>5, <2>1
  <2> QED BY <1>4, <2>1, <2>2
<1>7. ASSUME NEW k \in 1..n PROVE F[k] = PutByWeight(weight, F[k - 1], cs[k])
  <2> DEFINE s == 1..k
  <2>1. k \in Nat /\ k # 0 /\ s \in SUBSET (1..n) /\ k - 1 \in 0..n /\ k \in 0..n
    BY <1>1
  <2>2. Max(s) = k /\ s \ {k} = 1..(k - 1) /\ s # {}
    BY <2>1, MaxUpTo
  <2>3. h[s] = PutByWeight(weight, h[s \ {k}], cs[k])
    <3> HIDE DEF s
    <3>1. h[s] = IF s = {} THEN << >> ELSE PutByWeight(weight, h[s \ {Max(s)}], cs[Max(s)])
      BY <1>5, <2>1
    <3> QED BY <2>2, <3>1
  <2>4. F[k] = h[s] /\ F[k - 1] = h[1..(k - 1)]
    BY <2>1
  <2> HIDE DEF s, F
  <2> QED BY <2>2, <2>3, <2>4
<1> HIDE DEF F
<1>8. ByWeightSteps(F, weight, cs)
  BY <1>6, <1>7 DEF ByWeightSteps, n
<1> QED BY <1>8

\* Another child put in its place.
LEMMA PutShuffles ==
  ASSUME NEW cs \in Seq(Nat), NEW k \in 1..Len(cs), NEW ds, Shuffled(SubSeq(cs, 1, k - 1), ds),
         NEW weight
  PROVE  Shuffled(SubSeq(cs, 1, k), PutByWeight(weight, ds, cs[k]))
<1> DEFINE a == SubSeq(cs, 1, k - 1)
           b == SubSeq(cs, 1, k)
           c == cs[k]
<1>1. /\ Len(a) = k - 1 /\ Len(b) = k /\ k \in Nat /\ k - 1 \in Nat /\ c \in Nat
      /\ b[k] = c /\ \A i \in 1..(k - 1) : a[i] = b[i] /\ i \in 1..k /\ i # k
  <2>1. Len(a) = k - 1 /\ \A i \in 1..(k - 1) : a[i] = cs[i]
    OBVIOUS
  <2>2. Len(b) = k /\ \A i \in 1..k : b[i] = cs[i]
    OBVIOUS
  <2>3. k \in Nat /\ k - 1 \in Nat /\ k \in 1..k /\ c \in Nat
        /\ \A i \in 1..(k - 1) : i \in 1..k /\ i # k
    OBVIOUS
  <2> HIDE DEF a, b
  <2> QED BY <2>1, <2>2, <2>3
<1>0. Shuffled(a, ds)
  OBVIOUS
<1> HIDE DEF a, b
<1>2. /\ ds \in Seq(Nat) /\ Len(ds) = k - 1
      /\ \A j \in 1..(k - 1) : \E i \in 1..(k - 1) : ds[j] = a[i]
      /\ \A i \in 1..(k - 1) : \E j \in 1..(k - 1) : ds[j] = a[i]
      /\ (\A i, j \in 1..(k - 1) : a[i] = a[j] => i = j) =>
           (\A i, j \in 1..(k - 1) : ds[i] = ds[j] => i = j)
  <2>1. Len(a) = k - 1 /\ Len(ds) = k - 1
    BY <1>0, <1>1 DEF Shuffled
  <2> QED BY <1>0, <2>1, Zenon DEF Shuffled
<1>21. \A j \in 1..(k - 1) : \E i \in 1..(k - 1) : ds[j] = a[i]
  BY <1>2
<1> HIDE DEF c
<1>3. PICK p \in 1..k : PutByWeight(weight, ds, c) = InsertAt(ds, p, c)
  <2>1. Len(ds) + 1 = k
    BY <1>1, <1>2
  <2> QED BY <1>1, <1>2, <2>1, PutIs
<1> DEFINE es == InsertAt(ds, p, c)
<1>4. /\ es \in Seq(Nat) /\ Len(es) = k /\ es[p] = c
      /\ \A j \in 1..(p - 1) : es[j] = ds[j]
      /\ \A j \in (p + 1)..k : es[j] = ds[j - 1]
  <2>1. Len(ds) + 1 = k
    BY <1>1, <1>2
  <2>2. p \in 1..(Len(ds) + 1)
    BY <2>1
  <2>3. /\ es \in Seq(Nat) /\ Len(es) = Len(ds) + 1 /\ es[p] = c
        /\ \A j \in 1..(p - 1) : es[j] = ds[j]
        /\ \A j \in (p + 1)..(Len(ds) + 1) : es[j] = ds[j - 1]
    <3>1. IsPut(ds, p, c, es)
      BY <1>1, <1>2, <2>2, InsertAtIs
    <3> HIDE DEF es
    <3> QED BY <3>1, Zenon DEF IsPut
  <2> HIDE DEF es
  <2> QED BY <2>1, <2>3, Zenon
<1> HIDE DEF es
\* Where a member of the longer one is in the shorter one, and the other way round.
<1> DEFINE Back(j) == IF j < p THEN j ELSE j - 1
           Forth(j) == IF j < p THEN j ELSE j + 1
<1>5. ASSUME NEW j \in 1..k, j # p PROVE Back(j) \in 1..(k - 1) /\ es[j] = ds[Back(j)]
  <2>1. CASE j < p
    <3>1. j \in 1..(p - 1) /\ j \in 1..(k - 1)
      BY <1>1, <2>1
    <3> QED BY <1>4, <2>1, <3>1
  <2>2. CASE ~(j < p)
    <3>1. j \in (p + 1)..k /\ j - 1 \in 1..(k - 1)
      BY <1>1, <1>5, <2>2
    <3> QED BY <1>4, <2>2, <3>1
  <2> QED BY <2>1, <2>2
<1>6. ASSUME NEW j \in 1..(k - 1) PROVE Forth(j) \in 1..k /\ es[Forth(j)] = ds[j]
  <2>1. CASE j < p
    <3>1. j \in 1..(p - 1) /\ j \in 1..k
      BY <1>1, <2>1
    <3> QED BY <1>4, <2>1, <3>1
  <2>2. CASE ~(j < p)
    <3>1. j + 1 \in (p + 1)..k /\ j + 1 \in 1..k /\ (j + 1) - 1 = j
      BY <1>1, <2>2
    <3> DEFINE i == j + 1
    <3> HIDE DEF i
    <3>2. es[i] = ds[i - 1]
      BY <1>4, <3>1 DEF i
    <3> QED BY <2>2, <3>1, <3>2 DEF i
  <2> QED BY <2>1, <2>2
<1>7. \A i, j \in 1..k : i # p /\ j # p /\ Back(i) = Back(j) => i = j
  BY <1>1
<1> HIDE DEF Back, Forth
<1>8. \A i \in 1..k : i = k \/ i \in 1..(k - 1)
  BY <1>1
<1>9. k \in 1..k
  BY <1>1
<1>10. ASSUME NEW j \in 1..k PROVE \E i \in 1..k : es[j] = b[i]
  <2>1. CASE j = p
    BY <1>1, <1>4, <1>9, <2>1
  <2>2. CASE j # p
    <3>1. PICK i \in 1..(k - 1) : es[j] = a[i]
      <4>1. Back(j) \in 1..(k - 1) /\ es[j] = ds[Back(j)]
        BY <1>5, <2>2
      <4>2. \E i \in 1..(k - 1) : ds[Back(j)] = a[i]
        BY <1>21, <4>1, Zenon
      <4> QED BY <4>1, <4>2, Zenon
    <3>2. i \in 1..k /\ a[i] = b[i]
      BY <1>1, <3>1
    <3> QED BY <3>1, <3>2, Zenon
  <2> QED BY <2>1, <2>2
<1>11. ASSUME NEW i \in 1..k PROVE \E j \in 1..k : es[j] = b[i]
  <2>1. CASE i = k
    BY <1>1, <1>4, <2>1
  <2>2. CASE i \in 1..(k - 1)
    <3>1. PICK j \in 1..(k - 1) : ds[j] = a[i]
      BY <1>2, <2>2
    <3> QED BY <1>1, <1>6, <2>2, <3>1
  <2> QED BY <1>8, <2>1, <2>2
<1>12. ASSUME \A i, j \in 1..k : b[i] = b[j] => i = j, NEW i \in 1..k, NEW j \in 1..k,
              es[i] = es[j]
       PROVE  i = j
  <2>1. \A x, y \in 1..(k - 1) : ds[x] = ds[y] => x = y
    <3>1. ASSUME NEW x \in 1..(k - 1), NEW y \in 1..(k - 1), a[x] = a[y] PROVE x = y
      <4>1. x \in 1..k /\ y \in 1..k /\ a[x] = b[x] /\ a[y] = b[y]
        BY <1>1
      <4> QED BY <1>12, <3>1, <4>1, Zenon
    <3> QED BY <1>2, <3>1, Zenon
  <2>2. ASSUME NEW x \in 1..k, x # p PROVE es[x] # c
    <3>1. PICK y \in 1..(k - 1) : es[x] = a[y]
      <4>1. Back(x) \in 1..(k - 1) /\ es[x] = ds[Back(x)]
        BY <1>5, <2>2
      <4>2. \E y \in 1..(k - 1) : ds[Back(x)] = a[y]
        BY <1>21, <4>1, Zenon
      <4> QED BY <4>1, <4>2, Zenon
    <3>2. y \in 1..k /\ y # k /\ a[y] = b[y] /\ b[k] = c
      BY <1>1
    <3>3. b[y] # b[k]
      BY <1>9, <1>12, <3>2, Zenon
    <3> QED BY <3>1, <3>2, <3>3, Zenon
  <2>3. CASE i = p \/ j = p
    BY <1>4, <1>12, <2>2, <2>3
  <2>4. CASE i # p /\ j # p
    <3>1. Back(i) = Back(j)
      <4>1. Back(i) \in 1..(k - 1) /\ es[i] = ds[Back(i)]
        BY <1>5, <2>4
      <4>2. Back(j) \in 1..(k - 1) /\ es[j] = ds[Back(j)]
        BY <1>5, <2>4
      <4> QED BY <1>12, <2>1, <4>1, <4>2, Zenon
    <3> QED BY <1>7, <2>4, <3>1
  <2> QED BY <2>3, <2>4
<1>13. Shuffled(b, es)
  <2>1. Len(b) = k /\ Len(es) = k /\ es \in Seq(Nat)
    BY <1>1, <1>4
  <2>2. (\A i, j \in 1..k : b[i] = b[j] => i = j) => (\A i, j \in 1..k : es[i] = es[j] => i = j)
    BY <1>12
  <2> QED BY <1>10, <1>11, <2>1, <2>2, Zenon DEF Shuffled
<1> QED BY <1>3, <1>13 DEF es, b, c

\* The order is changed, nothing else.
LEMMA ByWeightIs ==
  ASSUME NEW weight, NEW cs \in Seq(Nat)
  PROVE  Shuffled(cs, ByWeight(weight, cs))
<1> DEFINE n == Len(cs)
<1>1. n \in Nat /\ SubSeq(cs, 1, 0) = << >> /\ SubSeq(cs, 1, n) = cs
  OBVIOUS
<1>2. PICK F : ByWeightSteps(F, weight, cs)
  BY ByWeightFolds
<1> DEFINE P == {k \in Nat : Shuffled(SubSeq(cs, 1, k), F[k])}
<1>3. 0 \in P
  <2>1. Shuffled(<< >>, << >>)
    BY DEF Shuffled
  <2>2. F[0] = << >>
    BY <1>2 DEF ByWeightSteps
  <2> QED BY <1>1, <2>1, <2>2
<1>4. ASSUME NEW k \in 0..(n - 1), k \in P PROVE k + 1 \in P
  <2> DEFINE j == k + 1
  <2>1. j \in Nat /\ j \in 1..Len(cs) /\ j - 1 = k
    BY <1>1
  <2> HIDE DEF j
  <2>2. F[j] = PutByWeight(weight, F[j - 1], cs[j])
    BY <1>2, <2>1 DEF ByWeightSteps
  <2>3. Shuffled(SubSeq(cs, 1, j - 1), F[k])
    BY <1>4, <2>1
  <2> DEFINE ds == F[k]
  <2> HIDE DEF ds
  <2>4. Shuffled(SubSeq(cs, 1, j), PutByWeight(weight, ds, cs[j]))
    BY <2>1, <2>3, PutShuffles DEF ds
  <2>5. Shuffled(SubSeq(cs, 1, j), F[j])
    BY <2>1, <2>2, <2>4 DEF ds
  <2> QED BY <2>1, <2>5 DEF j
<1>5. n \in P
  <2> HIDE DEF P, n
  <2>1. \A k \in 0..n : k \in P
    BY <1>1, <1>3, <1>4, SetInduction
  <2> QED BY <1>1, <2>1
<1> QED BY <1>1, <1>2, <1>5 DEF ByWeightSteps

\* Nothing of a tree is changed but the order of static children.
Reorders(t, t2) ==
  /\ t2 \in Seq(NodeType) /\ Len(t2) = Len(t)
  /\ \A v \in 1..Len(t) :
       /\ Prefix(t2, v) = Prefix(t, v) /\ Params(t2, v) = Params(t, v)
       /\ RoutesAt(t2, v) = RoutesAt(t, v) /\ WildcardAt(t2, v) = WildcardAt(t, v)
       /\ Shuffled(Statics(t, v), Statics(t2, v))

\* optimize does that.
LEMMA OptimizedIs ==
  ASSUME NEW t \in Seq(NodeType)
  PROVE  Reorders(t, Optimized(t))
<1> DEFINE w == Weights(t)
           N(v) == [t[v] EXCEPT !.statics = ByWeight(w, @)]
           t2 == Optimized(t)
<1>1. t2 = [v \in 1..Len(t) |-> N(v)]
  <2>1. DOMAIN t = 1..Len(t)
    OBVIOUS
  <2> QED BY <2>1 DEF Optimized
<1> HIDE DEF w, t2
<1>2. ASSUME NEW v \in 1..Len(t)
      PROVE  /\ N(v) \in NodeType /\ N(v).prefix = Prefix(t, v) /\ N(v).params = Params(t, v)
             /\ N(v).routes = RoutesAt(t, v) /\ N(v).wildcard = WildcardAt(t, v)
             /\ Shuffled(Statics(t, v), N(v).statics)
  <2> DEFINE x == t[v]
             ds == ByWeight(w, Statics(t, v))
             y == [x EXCEPT !.statics = ds]
  <2>1. x \in NodeType /\ Statics(t, v) \in Seq(Nat)
    BY NodeIs
  <2>2. Shuffled(Statics(t, v), ds)
    BY <2>1, ByWeightIs
  <2>3. ds \in Seq(Nat)
    BY <2>2, Zenon DEF Shuffled
  <2>4. N(v) = y
    BY DEF Statics
  <2>5. x.prefix = Prefix(t, v) /\ x.params = Params(t, v) /\ x.routes = RoutesAt(t, v)
        /\ x.wildcard = WildcardAt(t, v)
    BY DEF Prefix, Params, RoutesAt, WildcardAt
  <2> HIDE DEF ds, x, N
  <2>6. /\ y \in NodeType /\ y.prefix = x.prefix /\ y.routes = x.routes
        /\ y.statics = ds /\ y.params = x.params /\ y.wildcard = x.wildcard
    BY <2>1, <2>3, FieldChanged
  <2> HIDE DEF y
  <2> QED BY <2>2, <2>4, <2>5, <2>6
<1> HIDE DEF N
<1>3. Len(t) \in Nat
  OBVIOUS
<1>4. t2 \in Seq(NodeType) /\ Len(t2) = Len(t) /\ \A v \in 1..Len(t) : t2[v] = N(v)
  BY <1>1, <1>2, <1>3
<1>5. ASSUME NEW v \in 1..Len(t)
      PROVE  /\ Prefix(t2, v) = Prefix(t, v) /\ Params(t2, v) = Params(t, v)
             /\ RoutesAt(t2, v) = RoutesAt(t, v) /\ WildcardAt(t2, v) = WildcardAt(t, v)
             /\ Shuffled(Statics(t, v), Statics(t2, v))
  <2>1. t2[v] = N(v)
    BY <1>4
  <2>2. /\ Prefix(t2, v) = N(v).prefix /\ Params(t2, v) = N(v).params
        /\ RoutesAt(t2, v) = N(v).routes /\ WildcardAt(t2, v) = N(v).wildcard
        /\ Statics(t2, v) = N(v).statics
    BY <2>1 DEF Prefix, Params, RoutesAt, WildcardAt, Statics
  <2>3. /\ N(v).prefix = Prefix(t, v) /\ N(v).params = Params(t, v)
        /\ N(v).routes = RoutesAt(t, v) /\ N(v).wildcard = WildcardAt(t, v)
        /\ Shuffled(Statics(t, v), N(v).statics)
    BY <1>2
  <2> QED BY <2>2, <2>3, Zenon
<1>6. Reorders(t, t2)
  BY <1>4, <1>5 DEF Reorders
<1> QED BY <1>6 DEF t2

\* What is in a shuffled sequence.
LEMMA ShuffledIs ==
  ASSUME NEW cs, NEW ds, Shuffled(cs, ds)
  PROVE  /\ \A c : (\E j \in 1..Len(ds) : ds[j] = c) <=> (\E j \in 1..Len(cs) : cs[j] = c)
         /\ \A j \in 1..Len(ds) : \E i \in 1..Len(cs) : cs[i] = ds[j]
         /\ (\A i, j \in 1..Len(cs) : cs[i] = cs[j] => i = j) =>
              (\A i, j \in 1..Len(ds) : ds[i] = ds[j] => i = j)
<1>1. \A j \in 1..Len(ds) : \E i \in 1..Len(cs) : cs[i] = ds[j]
  BY Zenon DEF Shuffled
<1>2. \A i \in 1..Len(cs) : \E j \in 1..Len(ds) : ds[j] = cs[i]
  BY Zenon DEF Shuffled
<1>3. (\A i, j \in 1..Len(cs) : cs[i] = cs[j] => i = j) =>
        (\A i, j \in 1..Len(ds) : ds[i] = ds[j] => i = j)
  BY Zenon DEF Shuffled
<1>4. \A c : (\E j \in 1..Len(ds) : ds[j] = c) <=> (\E j \in 1..Len(cs) : cs[j] = c)
  BY <1>1, <1>2, Zenon
<1> QED BY <1>1, <1>3, <1>4, Zenon

\* A reordered tree is the same tree, with siblings disjoint if they were.
LEMMA ReorderedTree ==
  ASSUME NEW t, NEW L, IsTree(t, L), NEW t2, Reorders(t, t2)
  PROVE  /\ IsTree(t2, L)
         /\ Disjoint(t) => Disjoint(t2)
         /\ \A rs : Holds(t, L, rs) => Holds(t2, L, rs)
         /\ \A rs : Labelled(t, L, rs) => Labelled(t2, L, rs)
         /\ \A rs : HasCuts(t, L, rs) => HasCuts(t2, L, rs)
<1>1. /\ t \in Seq(NodeType) /\ t # << >> /\ L \in [1..Len(t) -> Seq(Marks)]
      /\ Label(L, 1) = << >>
      /\ \A v \in 1..Len(t), c \in Nat : StaticChild(t, v, c) =>
           /\ c \in 1..Len(t) /\ Prefix(t, c) # << >>
           /\ Label(L, c) = Label(L, v) \o Prefix(t, c)
      /\ \A v \in 1..Len(t), c \in Nat : ParamChild(t, v, c) =>
           c \in 1..Len(t) /\ Label(L, c) = Label(L, v) \o <<"param">>
      /\ \A c \in 2..Len(t) : \E v \in 1..Len(t) : Child(t, v, c)
      /\ \A v, w \in 1..Len(t) :
           \A j \in 1..Len(Statics(t, v)), k \in 1..Len(Statics(t, w)) :
             Statics(t, v)[j] = Statics(t, w)[k] => v = w /\ j = k
  BY DEF IsTree
<1>2. t2 \in Seq(NodeType) /\ Len(t2) = Len(t)
  BY DEF Reorders
<1>3. \A v \in 1..Len(t) : /\ Prefix(t2, v) = Prefix(t, v) /\ Params(t2, v) = Params(t, v)
                           /\ RoutesAt(t2, v) = RoutesAt(t, v)
                           /\ WildcardAt(t2, v) = WildcardAt(t, v)
                           /\ Shuffled(Statics(t, v), Statics(t2, v))
  BY DEF Reorders
<1>4. \A v \in 1..Len(t) : \A c : StaticChild(t2, v, c) <=> StaticChild(t, v, c)
  BY <1>3, ShuffledIs, Zenon DEF StaticChild
<1>5. \A v \in 1..Len(t) : \A c : ParamChild(t2, v, c) <=> ParamChild(t, v, c)
  BY <1>3, Zenon DEF ParamChild
<1>6. \A v \in 1..Len(t) : \A c : Child(t2, v, c) <=> Child(t, v, c)
  BY <1>4, <1>5, Zenon DEF Child
<1>7. ASSUME NEW v \in 1..Len(t) PROVE \A i, j \in 1..Len(Statics(t2, v)) :
                                         Statics(t2, v)[i] = Statics(t2, v)[j] => i = j
  <2>1. \A i, j \in 1..Len(Statics(t, v)) : Statics(t, v)[i] = Statics(t, v)[j] => i = j
    BY <1>1, Zenon
  <2>2. Shuffled(Statics(t, v), Statics(t2, v))
    BY <1>3
  <2> DEFINE cs == Statics(t, v)
             ds == Statics(t2, v)
  <2> HIDE DEF cs, ds
  <2>3. \A i, j \in 1..Len(cs) : cs[i] = cs[j] => i = j
    BY <2>1 DEF cs
  <2>4. Shuffled(cs, ds)
    BY <2>2 DEF cs, ds
  <2>5. \A i, j \in 1..Len(ds) : ds[i] = ds[j] => i = j
    BY <2>3, <2>4, Zenon DEF Shuffled
  <2> QED BY <2>5 DEF ds
<1>8. ASSUME NEW v \in 1..Len(t), NEW j \in 1..Len(Statics(t2, v))
      PROVE  \E i \in 1..Len(Statics(t, v)) : Statics(t, v)[i] = Statics(t2, v)[j]
  <2>1. Shuffled(Statics(t, v), Statics(t2, v))
    BY <1>3
  <2> QED BY <2>1, Zenon DEF Shuffled
<1>9. IsTree(t2, L)
  <2>1. t2 # << >>
    BY <1>1, <1>2
  <2>2. \A v \in 1..Len(t), c \in Nat : StaticChild(t2, v, c) =>
          /\ c \in 1..Len(t) /\ Prefix(t2, c) # << >>
          /\ Label(L, c) = Label(L, v) \o Prefix(t2, c)
    <3> SUFFICES ASSUME NEW v \in 1..Len(t), NEW c \in Nat, StaticChild(t2, v, c)
                 PROVE  /\ c \in 1..Len(t) /\ Prefix(t2, c) # << >>
                        /\ Label(L, c) = Label(L, v) \o Prefix(t2, c)
      OBVIOUS
    <3>1. StaticChild(t, v, c)
      BY <1>4
    <3>2. c \in 1..Len(t) /\ Prefix(t, c) # << >> /\ Label(L, c) = Label(L, v) \o Prefix(t, c)
      BY <1>1, <3>1
    <3>3. Prefix(t2, c) = Prefix(t, c)
      BY <1>3, <3>2
    <3> QED BY <3>2, <3>3
  <2>3. \A v \in 1..Len(t), c \in Nat : ParamChild(t2, v, c) =>
           c \in 1..Len(t) /\ Label(L, c) = Label(L, v) \o <<"param">>
    BY <1>1, <1>5, Zenon
  <2>4. \A c \in 2..Len(t) : \E v \in 1..Len(t) : Child(t2, v, c)
    BY <1>1, <1>6, Zenon
  <2>5. ASSUME NEW v \in 1..Len(t), NEW w \in 1..Len(t), NEW j \in 1..Len(Statics(t2, v)),
               NEW k \in 1..Len(Statics(t2, w)), Statics(t2, v)[j] = Statics(t2, w)[k]
        PROVE  v = w /\ j = k
    <3>1. PICK i \in 1..Len(Statics(t, v)) : Statics(t, v)[i] = Statics(t2, v)[j]
      BY <1>8
    <3>2. PICK l \in 1..Len(Statics(t, w)) : Statics(t, w)[l] = Statics(t2, w)[k]
      BY <1>8
    <3>3. Statics(t, v)[i] = Statics(t, w)[l]
      BY <2>5, <3>1, <3>2, Zenon
    <3>4. \A a, b \in 1..Len(t) :
            \A j1 \in 1..Len(Statics(t, a)), k1 \in 1..Len(Statics(t, b)) :
              Statics(t, a)[j1] = Statics(t, b)[k1] => a = b /\ j1 = k1
      BY <1>1, Zenon
    <3>5. v = w
      BY <3>3, <3>4, Zenon
    <3> QED BY <1>7, <2>5, <3>5, Zenon
  <2> QED BY <1>1, <1>2, <2>1, <2>2, <2>3, <2>4, <2>5, Zenon DEF IsTree
<1>10. ASSUME Disjoint(t) PROVE Disjoint(t2)
  <2>1. \A v \in 1..Len(t) : \A j, k \in 1..Len(Statics(t, v)) :
          j # k => ~IsPrefix(Prefix(t, Statics(t, v)[j]), Prefix(t, Statics(t, v)[k]))
    BY <1>1, <1>10, DisjointIs
  <2> SUFFICES ASSUME NEW v \in 1..Len(t), NEW j \in 1..Len(Statics(t2, v)),
                      NEW k \in 1..Len(Statics(t2, v)), j # k
               PROVE  ~IsPrefix(Prefix(t2, Statics(t2, v)[j]), Prefix(t2, Statics(t2, v)[k]))
    BY <1>2, DisjointIs
  <2>2. PICK i \in 1..Len(Statics(t, v)) : Statics(t, v)[i] = Statics(t2, v)[j]
    BY <1>8
  <2>3. PICK l \in 1..Len(Statics(t, v)) : Statics(t, v)[l] = Statics(t2, v)[k]
    BY <1>8
  <2>4. i # l
    BY <1>7, <2>2, <2>3, Zenon
  <2>5. ~IsPrefix(Prefix(t, Statics(t, v)[i]), Prefix(t, Statics(t, v)[l]))
    BY <2>1, <2>4, Zenon
  <2>6. \A x \in 1..Len(Statics(t, v)) : Statics(t, v)[x] \in 1..Len(t)
    <3> SUFFICES ASSUME NEW x \in 1..Len(Statics(t, v)) PROVE Statics(t, v)[x] \in 1..Len(t)
      OBVIOUS
    <3>1. Statics(t, v) \in Seq(Nat)
      BY <1>1, NodeIs
    <3>2. Statics(t, v)[x] \in Nat /\ StaticChild(t, v, Statics(t, v)[x])
      BY <3>1 DEF StaticChild
    <3> QED BY <1>1, <3>2
  <2>7. /\ Prefix(t2, Statics(t, v)[i]) = Prefix(t, Statics(t, v)[i])
        /\ Prefix(t2, Statics(t, v)[l]) = Prefix(t, Statics(t, v)[l])
    BY <1>3, <2>6, Zenon
  <2> QED BY <2>2, <2>3, <2>5, <2>7
<1>11. ASSUME NEW rs, Holds(t, L, rs) PROVE Holds(t2, L, rs)
  <2>1. \A v \in 1..Len(t) : /\ RoutesAt(t2, v) = RoutesAt(t, v)
                             /\ WildcardAt(t2, v) = WildcardAt(t, v)
    BY <1>3
  <2>2. \A v \in 1..Len(t) :
          /\ \A q \in RoutesAt(t2, v) : q \in rs /\ Flat(q) = Label(L, v)
          /\ \A q \in WildcardAt(t2, v) : q \in rs /\ Flat(q) = Label(L, v) \o <<"wildcard">>
          /\ OneEach(RoutesAt(t2, v)) /\ OneEach(WildcardAt(t2, v))
    <3> SUFFICES ASSUME NEW v \in 1..Len(t)
                 PROVE  /\ \A q \in RoutesAt(t2, v) : q \in rs /\ Flat(q) = Label(L, v)
                        /\ \A q \in WildcardAt(t2, v) :
                             q \in rs /\ Flat(q) = Label(L, v) \o <<"wildcard">>
                        /\ OneEach(RoutesAt(t2, v)) /\ OneEach(WildcardAt(t2, v))
      OBVIOUS
    <3>1. /\ \A q \in RoutesAt(t, v) : q \in rs /\ Flat(q) = Label(L, v)
          /\ \A q \in WildcardAt(t, v) : q \in rs /\ Flat(q) = Label(L, v) \o <<"wildcard">>
          /\ OneEach(RoutesAt(t, v)) /\ OneEach(WildcardAt(t, v))
      BY <1>11, Zenon DEF Holds
    <3>2. RoutesAt(t2, v) = RoutesAt(t, v) /\ WildcardAt(t2, v) = WildcardAt(t, v)
      BY <2>1
    <3> QED BY <3>1, <3>2, Zenon
  <2>3. ASSUME NEW q \in rs PROVE \E v \in 1..Len(t) : q \in RoutesAt(t2, v) \cup WildcardAt(t2, v)
    <3>1. PICK v \in 1..Len(t) : q \in RoutesAt(t, v) \cup WildcardAt(t, v)
      BY <1>11, Zenon DEF Holds
    <3> QED BY <2>1, <3>1
  <2> QED BY <1>2, <2>2, <2>3, Zenon DEF Holds
<1>12. \A rs : Labelled(t, L, rs) => Labelled(t2, L, rs)
  BY <1>2, Zenon DEF Labelled
<1>13. \A rs : HasCuts(t, L, rs) => HasCuts(t2, L, rs)
  BY <1>2, Zenon DEF HasCuts
<1> QED BY <1>9, <1>10, <1>11, <1>12, <1>13
-----------------------------------------------------------------------------
(* The state.                                                              *)

\* The tree of the routes accepted, with siblings disjoint if they were served
\* short prefixes first.
TreeInv ==
  /\ accepted \in Seq(Routes)
  /\ \E L : /\ IsTree(tree, L) /\ Holds(tree, L, ToSet(accepted))
            /\ Labelled(tree, L, ToSet(accepted)) /\ HasCuts(tree, L, ToSet(accepted))
  /\ ShortFirst(accepted) => Disjoint(tree)

\* It holds of the root alone.
LEMMA InitTree == Init => TreeInv
<1> SUFFICES ASSUME Init PROVE TreeInv
  OBVIOUS
<1> DEFINE t == <<Node(<< >>)>>
           L == [v \in 1..1 |-> << >>]
<1>1. tree = t /\ accepted = << >>
  BY DEF Init
<1>2. Node(<< >>) \in NodeType /\ Node(<< >>).routes = {} /\ Node(<< >>).wildcard = {}
      /\ Node(<< >>).statics = << >> /\ Node(<< >>).params = << >>
  <2>1. << >> \in Seq(Chars)
    OBVIOUS
  <2> QED BY <2>1, NewNode
<1>3. t \in Seq(NodeType) /\ Len(t) = 1 /\ t # << >> /\ t[1] = Node(<< >>)
  <2> DEFINE x == Node(<< >>)
  <2> HIDE DEF x
  <2>1. x \in NodeType
    BY <1>2 DEF x
  <2>2. <<x>> \in Seq(NodeType) /\ Len(<<x>>) = 1 /\ <<x>> # << >> /\ <<x>>[1] = x
    BY <2>1
  <2> QED BY <2>2 DEF x
<1>4. /\ Statics(t, 1) = << >> /\ Params(t, 1) = << >>
      /\ RoutesAt(t, 1) = {} /\ WildcardAt(t, 1) = {}
  <2> HIDE DEF t
  <2> QED BY <1>2, <1>3 DEF Statics, Params, RoutesAt, WildcardAt
<1>5. L \in [1..1 -> Seq(Marks)] /\ Label(L, 1) = << >>
  BY DEF Label
<1> HIDE DEF t, L
<1>6. \A v \in 1..1 : v = 1
  OBVIOUS
<1>7. \A v \in 1..1 : \A j \in 1..Len(Statics(t, v)) : FALSE
  BY <1>4, <1>6
<1>8. \A v \in 1..1 : \A c : ~StaticChild(t, v, c) /\ ~ParamChild(t, v, c)
  BY <1>4, <1>6, <1>7 DEF StaticChild, ParamChild
<1>9. \A c \in 2..1 : FALSE
  OBVIOUS
<1>10. IsTree(t, L)
  BY <1>3, <1>5, <1>7, <1>8, <1>9, Zenon DEF IsTree
<1>11. ToSet(accepted) = {}
  BY <1>1 DEF ToSet
<1>12. Holds(t, L, {})
  BY <1>3, <1>4, <1>6 DEF Holds, OneEach
<1>13. Labelled(t, L, {}) /\ HasCuts(t, L, {})
  BY <1>3, <1>9 DEF Labelled, HasCuts
<1>14. Disjoint(t)
  BY <1>3, <1>7, DisjointIs
<1>15. accepted \in Seq(Routes)
  BY <1>1
<1> QED BY <1>1, <1>10, <1>11, <1>12, <1>13, <1>14, <1>15 DEF TreeInv

\* A route more.
LEMMA AppendIs ==
  ASSUME NEW s \in Seq(Routes), NEW r \in Routes
  PROVE  /\ Append(s, r) \in Seq(Routes) /\ ToSet(Append(s, r)) = ToSet(s) \cup {r}
         /\ ToSet(s) \in SUBSET Routes /\ Append(s, r) # s
         /\ ShortFirst(Append(s, r)) => ShortFirst(s)
         /\ ShortFirst(Append(s, r)) =>
              \A q \in ToSet(s) : \A c \in Cuts(r) : IsStrictPrefix(c, Flat(q)) =>
                c \in Cuts(q) \/ Flat(q)[Len(c) + 1] \in {"param", "wildcard"}
<1> DEFINE n == Len(s)
           u == Append(s, r)
<1>1. /\ n \in Nat /\ DOMAIN s = 1..n /\ u \in Seq(Routes) /\ DOMAIN u = 1..(n + 1)
      /\ u[n + 1] = r /\ \A j \in 1..n : u[j] = s[j] /\ s[j] \in Routes
      /\ Len(u) = n + 1
  OBVIOUS
<1> HIDE DEF n, u
<1>2. /\ n + 1 \in 1..(n + 1) /\ \A j \in 1..n : j \in 1..(n + 1) /\ j < n + 1
      /\ \A j \in 1..(n + 1) : j \in 1..n \/ j = n + 1
  BY <1>1
<1>3. ToSet(u) = ToSet(s) \cup {r} /\ ToSet(s) \in SUBSET Routes
  <2>1. ToSet(s) = {s[j] : j \in 1..n} /\ ToSet(u) = {u[j] : j \in 1..(n + 1)}
    BY <1>1 DEF ToSet
  <2>2. ASSUME NEW x PROVE x \in ToSet(u) <=> x \in ToSet(s) \cup {r}
    BY <1>1, <1>2, <2>1
  <2>3. ToSet(s) \in SUBSET Routes
    BY <1>1, <2>1
  <2> QED BY <2>2, <2>3
<1>4. u # s
  <2>1. n # n + 1
    BY <1>1
  <2>2. Len(s) = n
    BY DEF n
  <2> QED BY <1>1, <2>1, <2>2
<1> DEFINE Ok(q, p) == \A c \in Cuts(q) : IsStrictPrefix(c, Flat(p)) =>
                         c \in Cuts(p) \/ Flat(p)[Len(c) + 1] \in {"param", "wildcard"}
<1>5. ShortFirst(u) <=> \A j, k \in DOMAIN u : j < k => Ok(u[k], u[j])
  BY DEF ShortFirst
<1>6. ShortFirst(s) <=> \A j, k \in DOMAIN s : j < k => Ok(s[k], s[j])
  BY DEF ShortFirst
<1> HIDE DEF Ok
<1>7. ShortFirst(u) => ShortFirst(s)
  <2> SUFFICES ASSUME ShortFirst(u), NEW j \in 1..n, NEW k \in 1..n, j < k
               PROVE  Ok(s[k], s[j])
    BY <1>1, <1>6
  <2>1. Ok(u[k], u[j])
    BY <1>1, <1>2, <1>5
  <2> QED BY <1>1, <2>1
<1>8. ASSUME ShortFirst(u), NEW q \in ToSet(s) PROVE Ok(r, q)
  <2>1. PICK j \in 1..n : q = s[j]
    BY <1>1 DEF ToSet
  <2>2. Ok(u[n + 1], u[j])
    BY <1>1, <1>2, <1>5, <1>8
  <2> QED BY <1>1, <2>1, <2>2
<1> QED BY <1>1, <1>3, <1>4, <1>7, <1>8 DEF u, Ok

\* What serving a route comes to.
LEMMA ServeTree ==
  ASSUME TreeInv, NEW r \in Routes, Serve(r)
  PROVE  /\ TreeInv'
         /\ accepted' = accepted => Again(ToSet(accepted), r) /\ tree' = tree
         /\ accepted' # accepted => ~(Disjoint(tree) /\ Again(ToSet(accepted), r))
<1> DEFINE rs == ToSet(accepted)
           c == Inserted(tree, r)
           s == Append(accepted, r)
<1>1. accepted \in Seq(Routes)
  BY DEF TreeInv
<1>2. /\ s \in Seq(Routes) /\ ToSet(s) = rs \cup {r} /\ rs \in SUBSET Routes /\ s # accepted
      /\ ShortFirst(s) => ShortFirst(accepted)
      /\ ShortFirst(s) =>
           \A q \in rs : \A x \in Cuts(r) : IsStrictPrefix(x, Flat(q)) =>
             x \in Cuts(q) \/ Flat(q)[Len(x) + 1] \in {"param", "wildcard"}
  BY <1>1, AppendIs
<1>3. tree' = c.tree /\ accepted' = IF c.ok THEN s ELSE accepted
  BY DEF Serve
<1>4. PICK L : /\ IsTree(tree, L) /\ Holds(tree, L, rs)
               /\ Labelled(tree, L, rs) /\ HasCuts(tree, L, rs)
  BY DEF TreeInv
<1>5. c.ok \in BOOLEAN /\ \E L2 : Done(c.tree, c.ok, r, tree, rs, L2)
  BY <1>2, <1>4, InsertedIs
<1>6. PICK L2 : Done(c.tree, c.ok, r, tree, rs, L2)
  BY <1>5
<1>7. ShortFirst(accepted) => Disjoint(tree)
  BY DEF TreeInv
<1>8. ShortFirst(s) => Short(tree, rs, r)
  <2> HIDE DEF s, rs
  <2> QED BY <1>2, <1>7, Zenon DEF Short
<1> HIDE DEF c, s
<1>9. CASE c.ok
  <2>1. /\ Growing(c.tree, L2, tree, rs, r) /\ Holds(c.tree, L2, rs \cup {r})
        /\ HasCuts(c.tree, L2, rs \cup {r}) /\ ~(Disjoint(tree) /\ Again(rs, r))
    BY <1>6, <1>9 DEF Done
  <2>2. /\ IsTree(c.tree, L2) /\ Labelled(c.tree, L2, rs \cup {r})
        /\ (Short(tree, rs, r) => Disjoint(c.tree))
    BY <2>1 DEF Growing
  <2>3. accepted' = s /\ tree' = c.tree
    BY <1>3, <1>9
  <2>4. ToSet(accepted)' = rs \cup {r}
    BY <1>2, <2>3 DEF ToSet
  <2>5. /\ accepted' \in Seq(Routes)
        /\ IsTree(tree', L2) /\ Holds(tree', L2, ToSet(accepted'))
        /\ Labelled(tree', L2, ToSet(accepted')) /\ HasCuts(tree', L2, ToSet(accepted'))
        /\ (ShortFirst(accepted') => Disjoint(tree'))
    BY <1>2, <1>8, <2>1, <2>2, <2>3
  <2>6. TreeInv'
    BY <2>5 DEF TreeInv
  <2> QED BY <1>2, <2>1, <2>3, <2>6
<1>10. CASE ~c.ok
  <2>1. c.tree = tree /\ Again(rs, r)
    BY <1>6, <1>10 DEF Done
  <2>2. accepted' = accepted /\ tree' = tree
    BY <1>3, <1>10, <2>1
  <2>3. TreeInv'
    BY <2>2 DEF TreeInv
  <2> QED BY <2>1, <2>2, <2>3
<1> QED BY <1>9, <1>10

\* What building the server comes to.
LEMMA BuildTree == TreeInv /\ Build => TreeInv'
<1> SUFFICES ASSUME TreeInv, Build PROVE TreeInv'
  OBVIOUS
<1> DEFINE rs == ToSet(accepted)
           t2 == Optimized(tree)
<1>1. tree' = t2 /\ accepted' = accepted
  BY DEF Build
<1>2. PICK L : /\ IsTree(tree, L) /\ Holds(tree, L, rs)
               /\ Labelled(tree, L, rs) /\ HasCuts(tree, L, rs)
  BY DEF TreeInv
<1>3. tree \in Seq(NodeType)
  BY <1>2, TreeIs
<1>4. Reorders(tree, t2)
  BY <1>3, OptimizedIs
<1> HIDE DEF t2
<1>5. /\ IsTree(t2, L) /\ (Disjoint(tree) => Disjoint(t2))
      /\ Holds(t2, L, rs) /\ Labelled(t2, L, rs) /\ HasCuts(t2, L, rs)
  BY <1>2, <1>4, ReorderedTree, Zenon
<1>6. accepted \in Seq(Routes) /\ (ShortFirst(accepted) => Disjoint(tree))
  BY DEF TreeInv
<1>7. /\ accepted' \in Seq(Routes)
      /\ IsTree(tree', L) /\ Holds(tree', L, ToSet(accepted'))
      /\ Labelled(tree', L, ToSet(accepted')) /\ HasCuts(tree', L, ToSet(accepted'))
      /\ (ShortFirst(accepted') => Disjoint(tree'))
  BY <1>1, <1>5, <1>6
<1> QED BY <1>7 DEF TreeInv

\* The tree is one in every state.
LEMMA TreeAlways == Spec => []TreeInv
<1>1. Init => TreeInv
  BY InitTree
<1>2. TreeInv /\ [Next]_vars => TreeInv'
  <2> SUFFICES ASSUME TreeInv, [Next]_vars PROVE TreeInv'
    OBVIOUS
  <2>1. CASE \E r \in Routes : Serve(r)
    <3>1. PICK r \in Routes : Serve(r)
      BY <2>1
    <3> QED BY <3>1, ServeTree
  <2>2. CASE Build
    BY <2>2, BuildTree
  <2>3. CASE UNCHANGED vars
    BY <2>3 DEF vars, TreeInv
  <2> QED BY <2>1, <2>2, <2>3 DEF Next
<1> QED BY <1>1, <1>2, PTL DEF Spec

\* Routes served short prefixes first make a tree with disjoint siblings, which
\* optimize leaves so (router.hpp:62-132).
THEOREM SiblingsDisjoint == Spec => []ShortFirstIsDisjoint
<1>1. TreeInv => ShortFirstIsDisjoint
  BY DEF TreeInv, ShortFirstIsDisjoint
<1> QED BY <1>1, TreeAlways, PTL

\* A route is rejected only for one of its verb and pattern, with the tree left as
\* it was, and for every one where siblings are disjoint (router.hpp:103-113).
THEOREM DuplicatesRejected == Spec => RejectsDuplicates
<1> DEFINE A(r) ==
             LET again == \E k \in DOMAIN accepted : /\ accepted[k].verb = r.verb
                                                     /\ Flat(accepted[k]) = Flat(r)
             IN IF accepted' = accepted THEN again /\ tree' = tree
                ELSE Disjoint(tree) => ~again
<1>1. ASSUME TreeInv, NEW r \in Routes, Serve(r) PROVE A(r)
  <2> DEFINE again == \E k \in DOMAIN accepted : /\ accepted[k].verb = r.verb
                                                 /\ Flat(accepted[k]) = Flat(r)
  <2>1. again <=> Again(ToSet(accepted), r)
    BY DEF Again, ToSet
  <2>2. /\ accepted' = accepted => Again(ToSet(accepted), r) /\ tree' = tree
        /\ accepted' # accepted => ~(Disjoint(tree) /\ Again(ToSet(accepted), r))
    BY <1>1, ServeTree
  <2> HIDE DEF again
  <2>3. IF accepted' = accepted THEN again /\ tree' = tree ELSE Disjoint(tree) => ~again
    BY <2>1, <2>2
  <2> QED BY <2>3 DEF again
<1>2. TreeInv /\ [Next]_vars => [\A r \in Routes : Serve(r) => A(r)]_vars
  BY <1>1
<1> QED BY <1>2, TreeAlways, PTL DEF Spec, RejectsDuplicates
-----------------------------------------------------------------------------
(* How far a pattern leads on a path.                                      *)

\* A segment ends behind its beginning, and within the path.
LEMMA SegmentEndIs ==
  ASSUME NEW path \in Seq(Chars), NEW k \in Nat, k < Len(path)
  PROVE  SegmentEnd(path, k) \in k..Len(path)
<1> DEFINE n == Len(path)
           T == Slashes(path, k)
           f == [y \in T |-> y]
<1>1. n \in Nat /\ T \subseteq (k + 1)..n
  BY DEF Slashes
<1>2. SegmentEnd(path, k) = IF T = {} THEN n ELSE (CHOOSE j \in T : \A i \in T : j <= i) - 1
  BY DEF SegmentEnd
<1>3. k < n
  OBVIOUS
<1> HIDE DEF n, T
<1>4. CASE T = {}
  BY <1>1, <1>2, <1>3, <1>4 DEF n
<1>5. CASE T # {}
  <2>1. PICK x \in T : TRUE
    BY <1>5
  <2>2. \A y \in T : f[y] \in Nat
    BY <1>1
  <2>3. PICK z \in T : \A y \in T : f[z] <= f[y]
    <3> HIDE DEF f
    <3> QED BY <2>1, <2>2, Least
  <2>4. \A y \in T : z <= y
    BY <2>3
  <2> DEFINE j == CHOOSE j \in T : \A i \in T : j <= i
  <2>5. j \in T
    BY <2>4
  <2> HIDE DEF j
  <2>6. j - 1 \in k..n
    BY <1>1, <2>5
  <2>7. SegmentEnd(path, k) = j - 1
    BY <1>2, <1>5 DEF j
  <2> QED BY <2>6, <2>7 DEF n
<1> QED BY <1>4, <1>5

\* What a symbol leads to.
LEMMA ReachedIs ==
  ASSUME NEW path \in Seq(Chars), NEW k \in 0..(Len(path) + 1)
  PROVE  /\ Reached("wildcard", k, path) = IF k <= Len(path) THEN Len(path) ELSE Len(path) + 1
         /\ Reached("param", k, path) =
              IF k < Len(path) THEN SegmentEnd(path, k) ELSE Len(path) + 1
         /\ \A c \in Chars : Reached(c, k, path) =
              IF k < Len(path) /\ path[k + 1] = c THEN k + 1 ELSE Len(path) + 1
<1> DEFINE n == Len(path)
<1>1. n \in Nat
  OBVIOUS
<1>2. "param" \notin Chars /\ "wildcard" \notin Chars /\ "param" # "wildcard"
  BY MarksAreNoChars
<1>3. Reached("wildcard", k, path) = IF k <= Len(path) THEN Len(path) ELSE Len(path) + 1
  BY <1>2 DEF Reached
<1>4. Reached("param", k, path) = IF k < Len(path) THEN SegmentEnd(path, k) ELSE Len(path) + 1
  BY <1>2 DEF Reached
<1>5. ASSUME NEW c \in Chars
      PROVE  Reached(c, k, path) =
               IF k < Len(path) /\ path[k + 1] = c THEN k + 1 ELSE Len(path) + 1
  <2>1. c # "param" /\ c # "wildcard"
    BY <1>2
  <2> QED BY <2>1 DEF Reached
<1> QED BY <1>3, <1>4, <1>5

\* It is a place of the path, at most one behind its end.
LEMMA ReachedType ==
  ASSUME NEW path \in Seq(Chars), NEW k \in 0..(Len(path) + 1), NEW symbol \in Symbols
  PROVE  Reached(symbol, k, path) \in 0..(Len(path) + 1)
<1> DEFINE n == Len(path)
           y == Reached(symbol, k, path)
<1>1. n \in Nat /\ k \in 0..(n + 1)
  OBVIOUS
<1>2. CASE symbol = "wildcard"
  <2>1. y = IF k <= n THEN n ELSE n + 1
    BY <1>2, ReachedIs
  <2> HIDE DEF n, y
  <2>2. y \in 0..(n + 1)
    BY <1>1, <2>1
  <2> QED BY <2>2 DEF n, y
<1>3. CASE symbol = "param"
  <2>1. y = IF k < n THEN SegmentEnd(path, k) ELSE n + 1
    BY <1>3, ReachedIs
  <2>2. k < n => SegmentEnd(path, k) \in k..n
    BY <1>1, SegmentEndIs
  <2> HIDE DEF n, y
  <2>3. y \in 0..(n + 1)
    BY <1>1, <2>1, <2>2
  <2> QED BY <2>3 DEF n, y
<1>4. CASE symbol \in Chars
  <2>1. y = IF k < n /\ path[k + 1] = symbol THEN k + 1 ELSE n + 1
    BY <1>4, ReachedIs
  <2> HIDE DEF n, y
  <2>2. y \in 0..(n + 1)
    BY <1>1, <2>1
  <2> QED BY <2>2 DEF n, y
<1> QED BY <1>2, <1>3, <1>4 DEF Symbols

\* The places after each of the symbols.
ReachSteps(F, s, path) ==
  /\ F[0] = 0 /\ Reach(s, path) = F[Len(s)]
  /\ \A k \in 1..Len(s) : F[k] = Reached(s[k], F[k - 1], path)

\* A pattern leads from place to place, one for each symbol.
LEMMA ReachFolds ==
  ASSUME NEW path \in Seq(Chars), NEW s \in Seq(Symbols)
  PROVE  \E F : ReachSteps(F, s, path)
<1> DEFINE n == Len(s)
           X == 0..(Len(path) + 1)
           G == [k \in 1..n |-> [p \in X |-> Reached(s[k], p, path)]]
<1>1. n \in Nat /\ DOMAIN s = 1..n
  OBVIOUS
<1>2. G \in [1..n -> [X -> X]]
  <2>1. ASSUME NEW k \in 1..n, NEW p \in X PROVE Reached(s[k], p, path) \in X
    <3>1. s[k] \in Symbols
      OBVIOUS
    <3> QED BY <3>1, ReachedType
  <2> HIDE DEF n, X
  <2> QED BY <2>1
<1> DEFINE Folds(f) == f = [u \in SUBSET (1..n) |->
                              IF u = {} THEN 0
                              ELSE Reached(s[Max(u)], f[u \ {Max(u)}], path)]
<1>3. \E f : Folds(f)
  <2>0. 0 \in X
    OBVIOUS
  <2>1. n \in Nat
    BY <1>1
  <2> HIDE DEF G, n, X
  <2>2. PICK f : IsFold(f, X, 0, n, G)
    BY <1>2, <2>0, <2>1, FoldExists
  <2>3. /\ f \in [SUBSET (1..n) -> X]
        /\ \A u \in SUBSET (1..n) :
             /\ u # {} => Max(u) \in u
             /\ f[u] = IF u = {} THEN 0 ELSE G[Max(u)][f[u \ {Max(u)}]]
    BY <2>2 DEF IsFold
  <2>4. ASSUME NEW u \in SUBSET (1..n), u # {}
        PROVE  G[Max(u)][f[u \ {Max(u)}]] = Reached(s[Max(u)], f[u \ {Max(u)}], path)
    <3>1. Max(u) \in 1..n /\ f[u \ {Max(u)}] \in X
      BY <2>3, <2>4
    <3> DEFINE x == Max(u)
               y == f[u \ {Max(u)}]
    <3> HIDE DEF x, y
    <3>2. G[x][y] = Reached(s[x], y, path)
      BY <3>1 DEF G, x, y
    <3> QED BY <3>2 DEF x, y
  <2>5. Folds(f)
    BY <2>3, <2>4
  <2> QED BY <2>5
<1> DEFINE h == CHOOSE f : Folds(f)
<1>4. Reach(s, path) = h[1..n]
  <2> HIDE DEF n
  <2>1. Reach(s, path) = h[DOMAIN s]
    BY <1>1 DEF Reach, FoldLeft, MapThenFoldSet
  <2> QED BY <1>1, <2>1
<1>5. Folds(h)
  <2> HIDE DEF Folds
  <2> QED BY <1>3
<1> DEFINE F == [k \in 0..n |-> h[1..k]]
<1> HIDE DEF n, h, G
<1>6. F[0] = 0 /\ Reach(s, path) = F[n]
  <2>1. 0 \in 0..n /\ n \in 0..n /\ 1..0 = {} /\ 1..0 \in SUBSET (1..n)
    BY <1>1
  <2>2. h[1..0] = 0
    BY <1>5, <2>1
  <2> QED BY <1>4, <2>1, <2>2
<1>7. ASSUME NEW k \in 1..n PROVE F[k] = Reached(s[k], F[k - 1], path)
  <2> DEFINE u == 1..k
  <2>1. k \in Nat /\ k # 0 /\ u \in SUBSET (1..n) /\ k - 1 \in 0..n /\ k \in 0..n
    BY <1>1
  <2>2. Max(u) = k /\ u \ {k} = 1..(k - 1) /\ u # {}
    BY <2>1, MaxUpTo
  <2>3. h[u] = Reached(s[k], h[u \ {k}], path)
    <3> HIDE DEF u
    <3>1. h[u] = IF u = {} THEN 0 ELSE Reached(s[Max(u)], h[u \ {Max(u)}], path)
      BY <1>5, <2>1
    <3> QED BY <2>2, <3>1
  <2>4. F[k] = h[1..k] /\ F[k - 1] = h[1..(k - 1)]
    BY <2>1
  <2> HIDE DEF F
  <2> QED BY <2>2, <2>3, <2>4
<1> HIDE DEF F
<1>8. ReachSteps(F, s, path)
  BY <1>6, <1>7 DEF n, ReachSteps
<1> QED BY <1>8

\* The places are those its prefixes lead to.
LEMMA ReachPrefix ==
  ASSUME NEW path \in Seq(Chars), NEW s \in Seq(Symbols), NEW F, ReachSteps(F, s, path),
         NEW l \in Seq(Symbols), IsPrefix(l, s)
  PROVE  Len(l) \in 0..Len(s) /\ Reach(l, path) = F[Len(l)]
<1> DEFINE n == Len(l)
           m == Len(s)
<1>1. n \in Nat /\ m \in Nat
  OBVIOUS
<1>2. n <= m /\ \A i \in 1..n : l[i] = s[i]
  BY PrefixMeans
<1>3. PICK H : ReachSteps(H, l, path)
  BY ReachFolds
<1>4. H[0] = 0 /\ Reach(l, path) = H[n] /\ \A k \in 1..n : H[k] = Reached(l[k], H[k - 1], path)
  BY <1>3, Zenon DEF ReachSteps
<1>5. F[0] = 0 /\ \A k \in 1..m : F[k] = Reached(s[k], F[k - 1], path)
  BY Zenon DEF ReachSteps
<1> HIDE DEF n, m
<1> DEFINE P == {k \in Nat : H[k] = F[k]}
<1>6. 0 \in P
  BY <1>4, <1>5
<1>7. ASSUME NEW k \in 0..(n - 1), k \in P PROVE k + 1 \in P
  <2> DEFINE j == k + 1
  <2>1. j \in 1..n /\ j \in 1..m /\ j - 1 = k /\ j \in Nat
    BY <1>1, <1>2
  <2> HIDE DEF j
  <2>2. H[j] = Reached(l[j], H[k], path) /\ F[j] = Reached(s[j], F[k], path) /\ l[j] = s[j]
    BY <1>2, <1>4, <1>5, <2>1
  <2>3. H[k] = F[k]
    BY <1>7
  <2>4. H[j] = F[j]
    BY <2>2, <2>3, Zenon
  <2> QED BY <2>1, <2>4 DEF j
<1>8. n \in P
  <2> HIDE DEF P
  <2>1. \A k \in 0..(n - 1) : k \in P => k + 1 \in P
    BY <1>7
  <2>2. \A k \in 0..n : k \in P
    BY <1>1, <1>6, <2>1, SetInduction
  <2> QED BY <1>1, <2>2
<1> QED BY <1>1, <1>2, <1>4, <1>8 DEF n, m

\* A symbol more.
LEMMA ReachNext ==
  ASSUME NEW path \in Seq(Chars), NEW l \in Seq(Symbols), NEW x \in Symbols
  PROVE  Reach(l \o <<x>>, path) = Reached(x, Reach(l, path), path)
<1> DEFINE n == Len(l)
           one == <<x>>
           s == l \o one
<1>1. n \in Nat /\ one \in Seq(Symbols) /\ Len(one) = 1 /\ one[1] = x
  OBVIOUS
<1> HIDE DEF one
<1>2. s \in Seq(Symbols) /\ Len(s) = n + 1 /\ s[n + 1] = x /\ IsPrefix(l, s)
  <2>1. 1 \in 1..Len(one)
    BY <1>1
  <2>2. /\ s \in Seq(Symbols) /\ Len(s) = Len(l) + Len(one)
        /\ \A i \in 1..Len(one) : s[Len(l) + i] = one[i]
        /\ IsPrefix(l, s)
    <3>1. l \in Seq(Symbols) /\ one \in Seq(Symbols)
      BY <1>1
    <3> QED BY <3>1, ConcatIs
  <2> HIDE DEF s
  <2> QED BY <1>1, <2>1, <2>2
<1> HIDE DEF s
<1>3. PICK F : ReachSteps(F, s, path)
  BY <1>2, ReachFolds
<1>4. Reach(s, path) = F[Len(s)] /\ \A k \in 1..Len(s) : F[k] = Reached(s[k], F[k - 1], path)
  BY <1>3, Zenon DEF ReachSteps
<1>5. Reach(l, path) = F[n]
  BY <1>2, <1>3, ReachPrefix
<1> HIDE DEF n
<1> DEFINE j == n + 1
<1>6. j \in 1..Len(s) /\ j - 1 = n /\ Len(s) = j /\ s[j] = x
  BY <1>1, <1>2
<1> HIDE DEF j
<1>7. F[j] = Reached(x, F[n], path)
  BY <1>4, <1>6
<1>8. Reach(s, path) = Reached(x, Reach(l, path), path)
  BY <1>4, <1>5, <1>6, <1>7, Zenon
<1> QED BY <1>8 DEF s, one

\* The places are places.
LEMMA StepsType ==
  ASSUME NEW path \in Seq(Chars), NEW s \in Seq(Symbols), NEW F, ReachSteps(F, s, path)
  PROVE  \A k \in 0..Len(s) : F[k] \in 0..(Len(path) + 1)
<1> DEFINE n == Len(s)
           X == 0..(Len(path) + 1)
           P == {k \in Nat : F[k] \in X}
<1>1. n \in Nat /\ \A k \in 1..n : s[k] \in Symbols
  OBVIOUS
<1>2. F[0] = 0 /\ \A k \in 1..n : F[k] = Reached(s[k], F[k - 1], path)
  BY Zenon DEF ReachSteps
<1>3. 0 \in P
  BY <1>2
<1> HIDE DEF n
<1>4. ASSUME NEW k \in 0..(n - 1), k \in P PROVE k + 1 \in P
  <2> DEFINE j == k + 1
  <2>1. j \in 1..n /\ j - 1 = k /\ j \in Nat
    BY <1>1
  <2> HIDE DEF j
  <2>2. F[j] = Reached(s[j], F[k], path) /\ s[j] \in Symbols /\ F[k] \in X
    BY <1>1, <1>2, <1>4, <2>1
  <2>3. F[j] \in X
    BY <2>2, ReachedType
  <2> HIDE DEF X
  <2> QED BY <2>1, <2>3 DEF j
<1>5. \A k \in 0..n : k \in P
  <2> HIDE DEF P
  <2>1. \A k \in 0..(n - 1) : k \in P => k + 1 \in P
    BY <1>4
  <2> QED BY <1>1, <1>3, <2>1, SetInduction
<1> QED BY <1>5 DEF n

\* So a pattern leads to a place.
LEMMA ReachType ==
  ASSUME NEW path \in Seq(Chars), NEW s \in Seq(Symbols)
  PROVE  Reach(s, path) \in 0..(Len(path) + 1)
<1>1. PICK F : ReachSteps(F, s, path)
  BY ReachFolds
<1>2. Reach(s, path) = F[Len(s)]
  BY <1>1 DEF ReachSteps
<1>3. \A k \in 0..Len(s) : F[k] \in 0..(Len(path) + 1)
  BY <1>1, StepsType
<1>4. Len(s) \in 0..Len(s)
  OBVIOUS
<1> QED BY <1>2, <1>3, <1>4

\* Where a prefix does not fit the pattern does not.
LEMMA PrefixFits ==
  ASSUME NEW path \in Seq(Chars), NEW s \in Seq(Symbols), NEW l \in Seq(Symbols),
         IsPrefix(l, s), Reach(s, path) <= Len(path)
  PROVE  Reach(l, path) <= Len(path)
<1> DEFINE n == Len(s)
           d == Len(path) + 1
           m == Len(l)
<1>1. PICK F : ReachSteps(F, s, path)
  BY ReachFolds
<1>2. n \in Nat /\ Len(path) \in Nat /\ \A k \in 1..n : s[k] \in Symbols
  OBVIOUS
<1>3. Reach(s, path) = F[n] /\ \A k \in 1..n : F[k] = Reached(s[k], F[k - 1], path)
  BY <1>1, Zenon DEF ReachSteps
<1>4. \A k \in 0..n : F[k] \in 0..d
  BY <1>1, StepsType
<1>5. m \in 0..n /\ Reach(l, path) = F[m]
  BY <1>1, ReachPrefix
<1>6. ASSUME NEW x \in Symbols PROVE Reached(x, d, path) = d
  <2>1. d \in 0..(Len(path) + 1) /\ ~(d <= Len(path)) /\ ~(d < Len(path))
    BY <1>2
  <2> HIDE DEF d
  <2>2. CASE x = "wildcard"
    BY <2>1, <2>2, ReachedIs DEF d
  <2>3. CASE x = "param"
    BY <2>1, <2>3, ReachedIs DEF d
  <2>4. CASE x \in Chars
    BY <2>1, <2>4, ReachedIs DEF d
  <2> QED BY <2>2, <2>3, <2>4 DEF Symbols
<1> SUFFICES ASSUME F[m] = d PROVE FALSE
  BY <1>2, <1>4, <1>5
<1> DEFINE P == {k \in Nat : F[m + k] = d}
           e == n - m
<1>7. 0 \in P /\ e \in Nat /\ m + e = n /\ m \in Nat
  BY <1>2, <1>5
<1> HIDE DEF e
<1>8. ASSUME NEW k \in 0..(e - 1), k \in P PROVE k + 1 \in P
  <2> DEFINE j == m + (k + 1)
  <2>1. j \in 1..n /\ j - 1 = m + k /\ k + 1 \in Nat
    BY <1>2, <1>7
  <2> HIDE DEF j, d
  <2>2. F[j] = Reached(s[j], F[m + k], path) /\ s[j] \in Symbols
    BY <1>2, <1>3, <2>1
  <2>3. F[m + k] = d
    BY <1>8
  <2>4. F[j] = d
    BY <1>6, <2>2, <2>3
  <2> QED BY <2>1, <2>4 DEF j
<1>9. e \in P
  <2> HIDE DEF P
  <2>1. \A k \in 0..(e - 1) : k \in P => k + 1 \in P
    BY <1>8
  <2>2. \A k \in 0..e : k \in P
    BY <1>7, <2>1, SetInduction
  <2> QED BY <1>7, <2>2
<1>10. F[n] = d
  BY <1>7, <1>9
<1> QED BY <1>2, <1>3, <1>10

\* A text fits if the rest of the path starts with it.
LEMMA ReachText ==
  ASSUME NEW path \in Seq(Chars), NEW l \in Seq(Symbols), NEW u \in Seq(Chars),
         Reach(l, path) <= Len(path)
  PROVE  /\ Reach(l, path) \in 0..Len(path)
         /\ Reach(l \o u, path) <= Len(path) <=> IsPrefix(u, Rest(path, Reach(l, path)))
         /\ Reach(l \o u, path) <= Len(path) =>
              Reach(l \o u, path) = Reach(l, path) + Len(u)
<1> DEFINE N == Len(path)
           n == Len(l)
           m == Len(u)
           s == l \o u
           k == Reach(l, path)
           rest == Rest(path, k)
<1>1. N \in Nat /\ n \in Nat /\ m \in Nat /\ \A i \in 1..m : u[i] \in Chars
  OBVIOUS
<1>2. k \in 0..N
  <2>1. k \in 0..(N + 1)
    BY ReachType
  <2> HIDE DEF k
  <2>2. k <= N
    BY DEF k
  <2> QED BY <1>1, <2>1, <2>2
<1>3. u \in Seq(Symbols)
  BY DEF Symbols
<1>4. /\ s \in Seq(Symbols) /\ Len(s) = n + m /\ IsPrefix(l, s)
      /\ \A i \in 1..m : s[n + i] = u[i]
  BY <1>3, ConcatIs
<1>5. rest \in Seq(Chars) /\ Len(rest) = N - k /\ \A i \in 1..(N - k) : rest[i] = path[k + i]
  BY <1>2, RestIs
<1>6. IsPrefix(u, rest) <=> m <= Len(rest) /\ \A i \in 1..m : u[i] = rest[i]
  BY <1>5, PrefixIs
<1> HIDE DEF s
<1>7. PICK F : ReachSteps(F, s, path)
  BY <1>4, ReachFolds
<1>8. /\ Reach(s, path) = F[Len(s)]
      /\ \A j \in 1..Len(s) : F[j] = Reached(s[j], F[j - 1], path)
  BY <1>7, Zenon DEF ReachSteps
<1>9. k = F[n]
  BY <1>4, <1>7, ReachPrefix
<1>10. \A j \in 0..Len(s) : F[j] \in 0..(N + 1)
  BY <1>4, <1>7, StepsType
<1> HIDE DEF N, n, m, k, rest
<1> DEFINE On(j) == k + j <= N /\ \A i \in 1..j : u[i] = path[k + i]
           P == {j \in Nat : F[n + j] = IF On(j) THEN k + j ELSE N + 1}
<1>11. 0 \in P
  BY <1>1, <1>2, <1>9
<1>12. ASSUME NEW j \in 0..(m - 1), j \in P PROVE j + 1 \in P
  <2> DEFINE i == n + (j + 1)
             y == F[n + j]
             c == u[j + 1]
  <2>1. i \in 1..Len(s) /\ i - 1 = n + j /\ j + 1 \in Nat /\ j + 1 \in 1..m /\ j \in Nat
    BY <1>1, <1>4
  <2>2. s[i] = c /\ c \in Chars
    BY <1>1, <1>4, <2>1
  <2>3. F[i] = Reached(c, y, path)
    BY <1>8, <2>1, <2>2
  <2>4. y = IF On(j) THEN k + j ELSE N + 1
    BY <1>12
  <2>5. y \in 0..(N + 1)
    BY <1>1, <1>2, <2>1, <2>4
  <2>6. Reached(c, y, path) = IF y < N /\ path[y + 1] = c THEN y + 1 ELSE N + 1
    BY <2>2, <2>5, ReachedIs DEF N
  <2> HIDE DEF i
  <2>7. On(j + 1) <=> On(j) /\ k + j < N /\ path[k + j + 1] = c
    <3>1. \A x \in 1..(j + 1) : x \in 1..j \/ x = j + 1
      BY <2>1
    <3>2. \A x \in 1..j : x \in 1..(j + 1)
      BY <2>1
    <3>3. k + (j + 1) = k + j + 1 /\ j + 1 \in 1..(j + 1)
      BY <1>2, <2>1
    <3>4. k + (j + 1) <= N <=> k + j <= N /\ k + j < N
      BY <1>1, <1>2, <2>1
    <3> QED BY <3>1, <3>2, <3>3, <3>4
  <2>8. F[i] = IF On(j + 1) THEN k + (j + 1) ELSE N + 1
    <3>1. CASE On(j)
      <4>1. y = k + j
        BY <2>4, <3>1
      <4> HIDE DEF y, c
      <4>2. On(j + 1) <=> y < N /\ path[y + 1] = c
        BY <2>7, <3>1, <4>1
      <4> HIDE DEF On
      <4>3. y + 1 = k + (j + 1)
        BY <1>2, <2>1, <4>1
      <4> QED BY <2>3, <2>6, <4>2, <4>3, Zenon
    <3>2. CASE ~On(j)
      <4>1. y = N + 1 /\ ~On(j + 1)
        BY <2>4, <2>7, <3>2
      <4> HIDE DEF y, c, On
      <4>2. ~(y < N)
        BY <1>1, <4>1
      <4> QED BY <2>3, <2>6, <4>1, <4>2, Zenon
    <3> QED BY <3>1, <3>2
  <2> HIDE DEF On
  <2> QED BY <2>1, <2>8 DEF i
<1>13. m \in P
  <2> HIDE DEF P
  <2>1. \A j \in 0..(m - 1) : j \in P => j + 1 \in P
    BY <1>12
  <2>2. \A j \in 0..m : j \in P
    BY <1>1, <1>11, <2>1, SetInduction
  <2> QED BY <1>1, <2>2
<1>14. Reach(s, path) = IF On(m) THEN k + m ELSE N + 1
  <2> HIDE DEF On
  <2> QED BY <1>4, <1>8, <1>13
<1>15. On(m) <=> IsPrefix(u, rest)
  <2>1. m <= Len(rest) <=> k + m <= N
    BY <1>1, <1>2, <1>5
  <2>2. m <= Len(rest) => \A i \in 1..m : i \in 1..(N - k)
    BY <1>1, <1>2, <1>5
  <2> QED BY <1>5, <1>6, <2>1, <2>2
<1> HIDE DEF On
<1>16. /\ Reach(s, path) <= N <=> IsPrefix(u, rest)
       /\ Reach(s, path) <= N => Reach(s, path) = k + m
  <2>1. CASE On(m)
    <3>1. k + m <= N
      BY <2>1 DEF On
    <3> QED BY <1>14, <1>15, <2>1, <3>1
  <2>2. CASE ~On(m)
    <3>1. ~(N + 1 <= N)
      BY <1>1
    <3> QED BY <1>14, <1>15, <2>2, <3>1
  <2> QED BY <2>1, <2>2
<1> QED BY <1>2, <1>16 DEF N, k, m, s, rest
-----------------------------------------------------------------------------
(* The search.                                                             *)

\* What is found from a node and a place.
At(f, v, k) == f[v][k]

\* The static child that is tried, if one is.
StaticTried(t, v, path, k, c) ==
  /\ c \in 1..Len(t) /\ StaticChild(t, v, c) /\ IsPrefix(Prefix(t, c), Rest(path, k))
  /\ k + Len(Prefix(t, c)) \in 0..Len(path)
  /\ \A f : TryFindStatic(f, t, v, path, k) = At(f, c, k + Len(Prefix(t, c)))
NoneTried(t, v, path, k) ==
  /\ \A c \in Nat : StaticChild(t, v, c) => ~IsPrefix(Prefix(t, c), Rest(path, k))
  /\ \A f : TryFindStatic(f, t, v, path, k) = NotFound

\* It is the first one whose text starts the rest of the path.
LEMMA StaticFound ==
  ASSUME NEW t, NEW L, IsTree(t, L), NEW v \in 1..Len(t), NEW path \in Seq(Chars),
         NEW k \in 0..Len(path)
  PROVE  NoneTried(t, v, path, k) \/ \E c : StaticTried(t, v, path, k, c)
<1> DEFINE rest == Rest(path, k)
           j == Above(t, v, rest)
           c == Statics(t, v)[j]
<1>1. \A f : TryFindStatic(f, t, v, path, k) =
               IF j = 0 THEN NotFound ELSE At(f, c, k + Len(Prefix(t, c)))
  BY DEF TryFindStatic, Above, Statics, Prefix, At
<1>2. t \in Seq(NodeType)
  BY TreeIs
<1>3. /\ j = 0 => \A i \in 1..Len(Statics(t, v)) : ~IsPrefix(Prefix(t, Statics(t, v)[i]), rest)
      /\ j # 0 => j \in 1..Len(Statics(t, v)) /\ IsPrefix(Prefix(t, Statics(t, v)[j]), rest)
  BY <1>2, AboveIs
<1>4. Statics(t, v) \in Seq(Nat)
  BY <1>2, NodeIs
<1>5. rest \in Seq(Chars) /\ Len(rest) = Len(path) - k /\ Len(path) \in Nat
  BY RestIs
<1> HIDE DEF j
<1>6. CASE j = 0
  <2>1. \A f : TryFindStatic(f, t, v, path, k) = NotFound
    BY <1>1, <1>6
  <2>2. ASSUME NEW d \in Nat, StaticChild(t, v, d) PROVE ~IsPrefix(Prefix(t, d), rest)
    BY <1>3, <1>6, <2>2 DEF StaticChild
  <2> QED BY <2>1, <2>2 DEF NoneTried
<1>7. CASE j # 0
  <2>1. c \in Nat /\ StaticChild(t, v, c) /\ IsPrefix(Prefix(t, c), rest)
    BY <1>3, <1>4, <1>7 DEF StaticChild
  <2>2. \A f : TryFindStatic(f, t, v, path, k) = At(f, c, k + Len(Prefix(t, c)))
    BY <1>1, <1>7
  <2> HIDE DEF c
  <2>3. c \in 1..Len(t) /\ Prefix(t, c) \in Seq(Chars)
    BY <2>1, StaticLabel
  <2>4. Len(Prefix(t, c)) <= Len(rest) /\ Len(Prefix(t, c)) \in Nat
    <3> DEFINE p == Prefix(t, c)
    <3> HIDE DEF p, rest
    <3>1. p \in Seq(Chars) /\ IsPrefix(p, rest)
      BY <2>1, <2>3 DEF p
    <3>2. Len(p) <= Len(rest) /\ Len(p) \in Nat
      BY <1>5, <3>1, PrefixMeans
    <3> QED BY <3>2 DEF p
  <2> DEFINE x == Len(Prefix(t, c))
             n == Len(path)
  <2>5. k + x \in 0..n
    <3>1. x \in Nat /\ x <= n - k /\ n \in Nat /\ k \in 0..n
      BY <1>5, <2>4
    <3> HIDE DEF x, n
    <3> QED BY <3>1
  <2>6. StaticTried(t, v, path, k, c)
    BY <2>1, <2>2, <2>3, <2>5 DEF StaticTried
  <2> QED BY <2>6
<1> QED BY <1>6, <1>7

\* The parameter child, if there is one.
ParamTried(t, v, path, k, c) ==
  /\ c \in 1..Len(t) /\ ParamChild(t, v, c) /\ SegmentEnd(path, k) \in k..Len(path)
  /\ \A f : TryFindParam(f, t, v, path, k) = At(f, c, SegmentEnd(path, k))
NoParam(t, v, path, k) ==
  /\ \A c \in Nat : ~ParamChild(t, v, c)
  /\ \A f : TryFindParam(f, t, v, path, k) = NotFound

\* It is tried with the rest of the path behind the segment.
LEMMA ParamFound ==
  ASSUME NEW t, NEW L, IsTree(t, L), NEW v \in 1..Len(t), NEW path \in Seq(Chars),
         NEW k \in Nat, k < Len(path)
  PROVE  NoParam(t, v, path, k) \/ \E c : ParamTried(t, v, path, k, c)
<1> DEFINE c == Params(t, v)[1]
<1>1. \A f : TryFindParam(f, t, v, path, k) =
               IF Params(t, v) = << >> THEN NotFound ELSE At(f, c, SegmentEnd(path, k))
  BY DEF TryFindParam, Params, At
<1>2. t \in Seq(NodeType)
  BY TreeIs
<1>3. Params(t, v) \in Seq(Nat)
  BY <1>2, NodeIs
<1>4. CASE Params(t, v) = << >>
  BY <1>1, <1>4 DEF NoParam, ParamChild
<1>5. CASE Params(t, v) # << >>
  <2>1. c \in Nat /\ ParamChild(t, v, c)
    <3> DEFINE p == Params(t, v)
    <3> HIDE DEF p
    <3>1. p \in Seq(Nat) /\ p # << >>
      BY <1>3, <1>5 DEF p
    <3>2. p[1] \in Nat
      BY <3>1
    <3> QED BY <1>5, <3>2 DEF p, ParamChild
  <2>2. \A f : TryFindParam(f, t, v, path, k) = At(f, c, SegmentEnd(path, k))
    BY <1>1, <1>5
  <2> HIDE DEF c
  <2>3. c \in 1..Len(t)
    BY <2>1, ParamLabel
  <2>4. SegmentEnd(path, k) \in k..Len(path)
    BY SegmentEndIs
  <2>5. ParamTried(t, v, path, k, c)
    BY <2>1, <2>2, <2>3, <2>4 DEF ParamTried
  <2> QED BY <2>5
<1> QED BY <1>4, <1>5

\* What a set of routes has for a method is one of them.
LEMMA RouteFound ==
  ASSUME NEW rs, NEW m
  PROVE  TryFindRoute(rs, m) \subseteq rs
BY DEF TryFindRoute, OrElse, NotFound

\* Labels are bounded.
LEMMA LabelsBounded ==
  ASSUME NEW t, NEW L, IsTree(t, L)
  PROVE  \E N \in Nat : \A v \in 1..Len(t) : Len(Label(L, v)) <= N
<1> DEFINE n == Len(t)
           l(v) == Len(Label(L, v))
           P == {i \in Nat : \E N \in Nat : \A v \in 1..i : l(v) <= N}
<1>1. n \in Nat /\ \A v \in 1..n : l(v) \in Nat
  BY TreeIs
<1> HIDE DEF n, l
<1>2. 0 \in P
  OBVIOUS
<1>3. ASSUME NEW i \in 0..(n - 1), i \in P PROVE i + 1 \in P
  <2>1. PICK N \in Nat : \A v \in 1..i : l(v) <= N
    BY <1>3
  <2> DEFINE j == i + 1
  <2>2. j \in 1..n /\ j \in Nat /\ \A v \in 1..j : v \in 1..i \/ v = j
    BY <1>1
  <2> HIDE DEF j
  <2>3. l(j) \in Nat
    BY <1>1, <2>2
  <2>4. PICK M \in Nat : N <= M /\ l(j) <= M
    <3>1. CASE N <= l(j)
      BY <2>3, <3>1
    <3>2. CASE ~(N <= l(j))
      <4>1. l(j) <= N
        BY <2>3, <3>2
      <4> QED BY <4>1
    <3> QED BY <3>1, <3>2
  <2>5. ASSUME NEW v \in 1..j PROVE l(v) <= M
    <3>1. CASE v = j
      BY <2>4, <3>1
    <3>2. CASE v \in 1..i
      <4>1. l(v) <= N /\ l(v) \in Nat
        BY <1>1, <2>1, <2>2, <3>2
      <4> QED BY <2>4, <4>1
    <3> QED BY <2>2, <3>1, <3>2
  <2> QED BY <2>2, <2>5 DEF j
<1>4. n \in P
  <2> HIDE DEF P
  <2>1. \A i \in 0..(n - 1) : i \in P => i + 1 \in P
    BY <1>3
  <2>2. \A i \in 0..n : i \in P
    BY <1>1, <1>2, <2>1, SetInduction
  <2> QED BY <1>1, <2>2
<1> QED BY <1>4 DEF n, l

\* The search comes to the search from its children.
FindSteps(f, t, m, path) ==
  f = [v \in 1..Len(t) |-> [k \in 0..Len(path) |-> TryFind(f, t, m, path, v, k)]]

\* What is found are routes, if they are below.
LEMMA TryFindType ==
  ASSUME NEW t, NEW L, IsTree(t, L), NEW v \in 1..Len(t), NEW path \in Seq(Chars),
         NEW k \in 0..Len(path), NEW m,
         NEW f \in [1..Len(t) -> [0..Len(path) -> SUBSET Routes]]
  PROVE  TryFind(f, t, m, path, v, k) \in SUBSET Routes
<1> DEFINE a == TryFindRoute(RoutesAt(t, v), m)
           b == TryFindRoute(WildcardAt(t, v), m)
           s == TryFindStatic(f, t, v, path, k)
           p == TryFindParam(f, t, v, path, k)
<1>1. TryFind(f, t, m, path, v, k) =
        IF k = Len(path) THEN OrElse(a, b) ELSE OrElse(s, OrElse(p, b))
  BY DEF TryFind, RoutesAt, WildcardAt
<1>2. a \in SUBSET Routes /\ b \in SUBSET Routes
  <2>1. t \in Seq(NodeType)
    BY TreeIs
  <2>2. RoutesAt(t, v) \subseteq Routes /\ WildcardAt(t, v) \subseteq Routes
    BY <2>1, NodeIs DEF RoutesAt, WildcardAt
  <2>3. a \subseteq RoutesAt(t, v) /\ b \subseteq WildcardAt(t, v)
    BY RouteFound
  <2> QED BY <2>2, <2>3
<1>3. ASSUME NEW c \in 1..Len(t), NEW i \in 0..Len(path) PROVE At(f, c, i) \in SUBSET Routes
  BY DEF At
<1>4. s \in SUBSET Routes
  <2>1. CASE NoneTried(t, v, path, k)
    BY <2>1 DEF NoneTried, NotFound
  <2>2. CASE \E c : StaticTried(t, v, path, k, c)
    <3>1. PICK c : StaticTried(t, v, path, k, c)
      BY <2>2
    <3>2. c \in 1..Len(t) /\ k + Len(Prefix(t, c)) \in 0..Len(path)
          /\ s = At(f, c, k + Len(Prefix(t, c)))
      BY <3>1 DEF StaticTried
    <3> HIDE DEF s
    <3> QED BY <1>3, <3>2
  <2> QED BY <2>1, <2>2, StaticFound
<1>5. CASE k = Len(path)
  <2> HIDE DEF a, b, s, p
  <2> QED BY <1>1, <1>2, <1>5 DEF OrElse
<1>6. CASE k # Len(path)
  <2>0. k \in Nat /\ k < Len(path)
    BY <1>6
  <2>1. p \in SUBSET Routes
    <3>1. CASE NoParam(t, v, path, k)
      BY <3>1 DEF NoParam, NotFound
    <3>2. CASE \E c : ParamTried(t, v, path, k, c)
      <4>1. PICK c : ParamTried(t, v, path, k, c)
        BY <3>2
      <4>2. /\ c \in 1..Len(t) /\ SegmentEnd(path, k) \in k..Len(path)
            /\ p = At(f, c, SegmentEnd(path, k))
        BY <4>1 DEF ParamTried
      <4>3. SegmentEnd(path, k) \in 0..Len(path)
        BY <4>2
      <4> HIDE DEF p
      <4> QED BY <1>3, <4>2, <4>3
    <3> QED BY <2>0, <3>1, <3>2, ParamFound
  <2> HIDE DEF a, b, s, p
  <2> QED BY <1>1, <1>2, <1>4, <1>6, <2>1 DEF OrElse
<1> QED BY <1>5, <1>6

\* What is found does not depend on anything but the nodes below.
LEMMA TryFindBelow ==
  ASSUME NEW t, NEW L, IsTree(t, L), NEW v \in 1..Len(t), NEW path \in Seq(Chars),
         NEW k \in 0..Len(path), NEW m, NEW f, NEW g,
         \A c \in 1..Len(t) : Child(t, v, c) => f[c] = g[c]
  PROVE  TryFind(f, t, m, path, v, k) = TryFind(g, t, m, path, v, k)
<1> DEFINE S(h) == TryFindStatic(h, t, v, path, k)
           P(h) == TryFindParam(h, t, v, path, k)
<1>1. ASSUME NEW c \in 1..Len(t), Child(t, v, c), NEW i PROVE At(f, c, i) = At(g, c, i)
  BY <1>1 DEF At
<1>2. S(f) = S(g)
  <2>1. CASE NoneTried(t, v, path, k)
    BY <2>1 DEF NoneTried
  <2>2. CASE \E c : StaticTried(t, v, path, k, c)
    <3>1. PICK c : StaticTried(t, v, path, k, c)
      BY <2>2
    <3>2. /\ c \in 1..Len(t) /\ Child(t, v, c)
          /\ \A h : S(h) = At(h, c, k + Len(Prefix(t, c)))
      BY <3>1 DEF StaticTried, Child
    <3>3. At(f, c, k + Len(Prefix(t, c))) = At(g, c, k + Len(Prefix(t, c)))
      BY <1>1, <3>2
    <3> HIDE DEF S
    <3> QED BY <3>2, <3>3, Zenon
  <2> QED BY <2>1, <2>2, StaticFound
<1>3. CASE k = Len(path)
  BY <1>3 DEF TryFind
<1>4. CASE k # Len(path)
  <2>0. k \in Nat /\ k < Len(path)
    BY <1>4
  <2>1. P(f) = P(g)
    <3>1. CASE NoParam(t, v, path, k)
      BY <3>1 DEF NoParam
    <3>2. CASE \E c : ParamTried(t, v, path, k, c)
      <4>1. PICK c : ParamTried(t, v, path, k, c)
        BY <3>2
      <4>2. /\ c \in 1..Len(t) /\ Child(t, v, c)
            /\ \A h : P(h) = At(h, c, SegmentEnd(path, k))
        BY <4>1 DEF ParamTried, Child
      <4>3. At(f, c, SegmentEnd(path, k)) = At(g, c, SegmentEnd(path, k))
        BY <1>1, <4>2
      <4> HIDE DEF P
      <4> QED BY <4>2, <4>3, Zenon
    <3> QED BY <2>0, <3>1, <3>2, ParamFound
  <2>2. \A h : TryFind(h, t, m, path, v, k) =
                 OrElse(S(h), OrElse(P(h), TryFindRoute(t[v].wildcard, m)))
    BY <1>4 DEF TryFind
  <2> HIDE DEF S, P
  <2> QED BY <1>2, <2>1, <2>2, Zenon
<1> QED BY <1>3, <1>4

\* The search is well defined.
LEMMA FindsExist ==
  ASSUME NEW t, NEW L, IsTree(t, L), NEW path \in Seq(Chars), NEW m
  PROVE  FindSteps(Finds(t, m, path), t, m, path)
<1> DEFINE S == 1..Len(t)
           K == 0..Len(path)
           V == [K -> SUBSET Routes]
           F(f, v) == [k \in K |-> TryFind(f, t, m, path, v, k)]
           G == [v \in S |-> [f \in [S -> V] |-> F(f, v)]]
           l(v) == Len(Label(L, v))
<1>1. PICK N \in Nat : \A v \in S : l(v) <= N
  BY LabelsBounded
<1>2. \A v \in S : l(v) \in Nat
  BY TreeIs
<1> DEFINE rank == [v \in S |-> N - l(v)]
<1>3. rank \in [S -> 0..N]
  <2>1. ASSUME NEW v \in S PROVE N - l(v) \in 0..N
    <3>1. l(v) \in Nat /\ l(v) <= N
      BY <1>1, <1>2
    <3> HIDE DEF l
    <3> QED BY <3>1
  <2> HIDE DEF S, l
  <2> QED BY <2>1
<1>4. ASSUME NEW v \in S, NEW f \in [S -> V] PROVE F(f, v) \in V
  <2>1. ASSUME NEW k \in K PROVE TryFind(f, t, m, path, v, k) \in SUBSET Routes
    BY TryFindType
  <2> HIDE DEF K
  <2> QED BY <2>1
<1>5. ASSUME NEW v \in S, NEW f, NEW g, \A w \in S : rank[w] < rank[v] => f[w] = g[w]
      PROVE  F(f, v) = F(g, v)
  <2>1. ASSUME NEW c \in 1..Len(t), Child(t, v, c) PROVE f[c] = g[c]
    <3>1. l(v) < l(c) /\ l(v) \in Nat /\ l(c) \in Nat
      BY <2>1, ChildLabel
    <3>2. rank[c] = N - l(c) /\ rank[v] = N - l(v)
      OBVIOUS
    <3> HIDE DEF l, rank
    <3>3. rank[c] < rank[v]
      BY <3>1, <3>2
    <3> QED BY <1>5, <3>3
  <2>2. ASSUME NEW k \in K
        PROVE  TryFind(f, t, m, path, v, k) = TryFind(g, t, m, path, v, k)
    BY <2>1, TryFindBelow
  <2> QED BY <2>2
<1>6. \E f0 : f0 \in [S -> V]
  <2> DEFINE e == [k \in K |-> {}]
  <2>1. e \in V
    OBVIOUS
  <2> HIDE DEF V, e
  <2>2. [v \in S |-> e] \in [S -> V]
    BY <2>1
  <2> QED BY <2>2
<1>7. PICK f0 : f0 \in [S -> V]
  BY <1>6
<1> HIDE DEF S, V, F, l, rank
<1>8. G \in [S -> [[S -> V] -> V]] /\ \A v \in S : \A f \in [S -> V] : G[v][f] = F(f, v)
  BY <1>4
<1> HIDE DEF G
<1>9. \A v \in S : \A f, g \in [S -> V] :
        (\A w \in S : rank[w] < rank[v] => f[w] = g[w]) => G[v][f] = G[v][g]
  <2> SUFFICES ASSUME NEW v \in S, NEW f \in [S -> V], NEW g \in [S -> V],
                      \A w \in S : rank[w] < rank[v] => f[w] = g[w]
               PROVE  G[v][f] = G[v][g]
    OBVIOUS
  <2>1. F(f, v) = F(g, v)
    BY <1>5
  <2> QED BY <1>8, <2>1
<1>10. \E f : IsSolution(f, S, V, G)
  <2>1. N \in Nat
    BY <1>1
  <2>2. G \in [S -> [[S -> V] -> V]]
    BY <1>8
  <2> HIDE DEF rank
  <2>3. IsRecursion(S, V, N, rank, G)
    BY <1>3, <1>9, <2>1, <2>2, Zenon DEF IsRecursion
  <2>4. [S -> V] # {}
    BY <1>7
  <2> QED BY <2>3, <2>4, RecursionExists, Zenon
<1>11. PICK f : f \in [S -> V] /\ \A v \in S : f[v] = G[v][f]
  BY <1>10 DEF IsSolution
<1>12. f = [v \in S |-> F(f, v)]
  BY <1>8, <1>11
<1> DEFINE Ok(h) == h = [v \in DOMAIN t |-> [k \in 0..Len(path) |-> TryFind(h, t, m, path, v, k)]]
<1>13. DOMAIN t = S
  BY TreeIs DEF S
<1>14. Ok(f)
  BY <1>12, <1>13 DEF F
<1>15. Finds(t, m, path) = CHOOSE h : Ok(h)
  BY DEF Finds
<1> HIDE DEF Ok
<1>16. Ok(Finds(t, m, path))
  BY <1>14, <1>15
<1> QED BY <1>13, <1>16 DEF Ok, FindSteps, S
-----------------------------------------------------------------------------
(* What the search finds.                                                  *)

\* The routes that cover the path, and of them those below a node.
Covering(rs, m, path) ==
  {r \in rs : r.verb \in {m, AnyVerb} /\ Reach(Flat(r), path) = Len(path)}
From(rs, m, path, s) == {r \in Covering(rs, m, path) : IsPrefix(s, Flat(r))}

\* The best of some routes, if there are any.
Winner(C, found) ==
  /\ found \subseteq C /\ (found = {} => C = {})
  /\ \A r \in found, q \in C : q # r => Precedes(r, q)
Ordered(C, D) == \A r \in C, q \in D : Precedes(r, q)

\* The best of the routes that go before others is the best of all.
LEMMA WinnerOrElse ==
  ASSUME NEW C, NEW D, NEW found, NEW other,
         Winner(C, found), Winner(D, other), Ordered(C, D)
  PROVE  Winner(C \cup D, OrElse(found, other))
<1>1. CASE found = {}
  <2>1. OrElse(found, other) = other
    BY <1>1 DEF OrElse, NotFound
  <2>2. C \cup D = D
    BY <1>1 DEF Winner
  <2> QED BY <2>1, <2>2
<1>2. CASE found # {}
  <2>1. OrElse(found, other) = found
    BY <1>2 DEF OrElse, NotFound
  <2>2. found \subseteq C /\ \A r \in found, q \in C : q # r => Precedes(r, q)
    BY DEF Winner
  <2>3. \A r \in C, q \in D : Precedes(r, q)
    BY DEF Ordered
  <2>4. ASSUME NEW r \in found, NEW q \in C \cup D, q # r PROVE Precedes(r, q)
    BY <2>2, <2>3, <2>4, Zenon
  <2>5. found \subseteq C \cup D
    BY <2>2
  <2> QED BY <1>2, <2>1, <2>4, <2>5 DEF Winner
<1> QED BY <1>1, <1>2

\* Of the routes that end at a node the one of the method is the best.
LEMMA RouteWins ==
  ASSUME NEW rs, NEW m, OneEach(rs), \A p, q \in rs : Flat(p) = Flat(q)
  PROVE  Winner({q \in rs : q.verb \in {m, AnyVerb}}, TryFindRoute(rs, m))
<1> DEFINE C == {q \in rs : q.verb \in {m, AnyVerb}}
           a == {q \in rs : q.verb = m}
           b == {q \in rs : q.verb = AnyVerb}
           x == TryFindRoute(rs, m)
<1>1. x = IF a # {} THEN a ELSE b
  BY DEF TryFindRoute, OrElse, NotFound
<1>2. x \subseteq C
  BY <1>1
<1>3. x = {} => C = {}
  BY <1>1
<1>4. ASSUME NEW r \in x, NEW q \in C, q # r PROVE Precedes(r, q)
  <2>1. r \in rs /\ q \in rs /\ r.verb # q.verb
    BY <1>1, <1>4 DEF OneEach
  <2>2. q.verb = AnyVerb
    BY <1>1, <1>4, <2>1
  <2>3. Flat(r) = Flat(q)
    BY <2>1
  <2> QED BY <2>2, <2>3 DEF Precedes
<1> HIDE DEF x, C
<1>5. Winner(C, x)
  BY <1>2, <1>3, <1>4 DEF Winner
<1> QED BY <1>5 DEF C, x

\* At the first place where two patterns differ the rank decides.
LEMMA RankDecides ==
  ASSUME NEW q \in Routes, NEW r \in Routes, NEW l \in Seq(Marks),
         IsPrefix(l, Flat(q)), IsPrefix(l, Flat(r)),
         Len(l) < Len(Flat(q)), Len(l) < Len(Flat(r)),
         Rank(Flat(q)[Len(l) + 1]) < Rank(Flat(r)[Len(l) + 1])
  PROVE  Precedes(q, r)
<1> DEFINE a == Flat(q)
           b == Flat(r)
           k == Len(l) + 1
<1>1. a \in Seq(Symbols) /\ b \in Seq(Symbols)
  BY FlatIs
<1>2. l \in Seq(Symbols)
  BY DEF Marks, Symbols
<1> HIDE DEF a, b
<1>3. k \in DOMAIN a \cap DOMAIN b
  BY <1>1 DEF a, b
<1>4. \A i \in 1..Len(l) : l[i] = a[i] /\ l[i] = b[i]
  BY <1>1, <1>2, PrefixMeans DEF a, b
<1>5. SubSeq(a, 1, k - 1) = SubSeq(b, 1, k - 1)
  <2> DEFINE c == SubSeq(a, 1, k - 1)
             d == SubSeq(b, 1, k - 1)
  <2>1. /\ c \in Seq(Symbols) /\ Len(c) = k - 1 /\ d \in Seq(Symbols) /\ Len(d) = k - 1
        /\ \A i \in 1..(k - 1) : c[i] = a[i] /\ d[i] = b[i]
    BY <1>1, <1>3
  <2>2. k - 1 = Len(l)
    OBVIOUS
  <2>3. \A i \in 1..(k - 1) : c[i] = d[i]
    BY <1>4, <2>1, <2>2
  <2> HIDE DEF c, d, k
  <2>4. c = d
    BY <2>1, <2>3, SeqEqual
  <2> QED BY <2>4 DEF c, d
<1>6. Rank(a[k]) < Rank(b[k])
  BY DEF a, b
<1> QED BY <1>3, <1>5, <1>6 DEF Precedes, a, b

\* The order of ranks.
LEMMA RanksAre ==
  /\ \A c \in Chars : Rank(c) = 1
  /\ Rank("param") = 2 /\ Rank("wildcard") = 3
<1>1. "param" \notin Chars /\ "wildcard" \notin Chars
  BY MarksAreNoChars
<1>2. ASSUME NEW c \in Chars PROVE Rank(c) = 1
  <2>1. c # "param" /\ c # "wildcard"
    BY <1>1
  <2> QED BY <2>1 DEF Rank
<1>3. Rank("param") = 2 /\ Rank("wildcard") = 3
  BY DEF Rank
<1> QED BY <1>2, <1>3

\* Labels are patterns.
LEMMA LabelSymbols ==
  ASSUME NEW t, NEW L, IsTree(t, L), NEW v \in 1..Len(t)
  PROVE  Label(L, v) \in Seq(Marks) /\ Label(L, v) \in Seq(Symbols)
<1>1. Label(L, v) \in Seq(Marks)
  BY TreeIs
<1> DEFINE l == Label(L, v)
<1> HIDE DEF l
<1>2. l \in Seq(Marks)
  BY <1>1 DEF l
<1>3. l \in Seq(Symbols)
  BY <1>2 DEF Marks, Symbols
<1> QED BY <1>2, <1>3 DEF l

\* The routes in a wildcard cover the path from wherever the node is reached.
LEMMA WildcardCovers ==
  ASSUME NEW t, NEW L, IsTree(t, L), NEW rs \in SUBSET Routes, Holds(t, L, rs),
         NEW path \in Seq(Chars), NEW m, NEW v \in 1..Len(t),
         Reach(Label(L, v), path) <= Len(path)
  PROVE  {q \in WildcardAt(t, v) : q.verb \in {m, AnyVerb}} \subseteq From(rs, m, path, Label(L, v))
<1> DEFINE l == Label(L, v)
           w == "wildcard"
<1>1. l \in Seq(Symbols)
  BY LabelSymbols
<1>2. w \in Symbols /\ <<w>> \in Seq(Symbols)
  BY DEF Symbols
<1>3. Reach(l, path) \in 0..(Len(path) + 1)
  BY <1>1, ReachType
<1>4. Reached(w, Reach(l, path), path) = Len(path)
  BY <1>3, ReachedIs
<1>5. Reach(l \o <<w>>, path) = Len(path)
  BY <1>1, <1>2, <1>4, ReachNext
<1>6. IsPrefix(l, l \o <<w>>)
  BY <1>1, <1>2, ConcatIs
<1>7. \A q \in WildcardAt(t, v) : q \in rs /\ Flat(q) = l \o <<w>>
  BY Zenon DEF Holds
<1> HIDE DEF l, w
<1>8. ASSUME NEW q \in WildcardAt(t, v), q.verb \in {m, AnyVerb}
      PROVE  q \in From(rs, m, path, l)
  <2>1. q \in rs /\ IsPrefix(l, Flat(q)) /\ Reach(Flat(q), path) = Len(path)
    BY <1>5, <1>6, <1>7
  <2> QED BY <1>8, <2>1 DEF From, Covering
<1> QED BY <1>8 DEF l

\* The routes that end at a node cover the path if the node is reached at its end.
LEMMA RoutesCover ==
  ASSUME NEW t, NEW L, IsTree(t, L), NEW rs \in SUBSET Routes, Holds(t, L, rs),
         NEW path \in Seq(Chars), NEW m, NEW v \in 1..Len(t),
         Reach(Label(L, v), path) = Len(path)
  PROVE  {q \in RoutesAt(t, v) : q.verb \in {m, AnyVerb}} \subseteq From(rs, m, path, Label(L, v))
<1> DEFINE l == Label(L, v)
<1>1. l \in Seq(Symbols)
  BY LabelSymbols
<1>2. \A q \in RoutesAt(t, v) : q \in rs /\ Flat(q) = l
  BY Zenon DEF Holds
<1>3. Reach(l, path) = Len(path)
  OBVIOUS
<1> HIDE DEF l
<1>4. IsPrefix(l, l)
  <2>1. \A i \in 1..Len(l) : l[i] = l[i]
    OBVIOUS
  <2>2. Len(l) <= Len(l)
    BY <1>1
  <2> QED BY <1>1, <2>1, <2>2, IsPrefixIf
<1>5. ASSUME NEW q \in RoutesAt(t, v), q.verb \in {m, AnyVerb}
      PROVE  q \in From(rs, m, path, l)
  <2>1. q \in rs /\ IsPrefix(l, Flat(q)) /\ Reach(Flat(q), path) = Len(path)
    BY <1>2, <1>3, <1>4
  <2> QED BY <1>5, <2>1 DEF From, Covering
<1> QED BY <1>5 DEF l

\* A route whose pattern begins with a label is at that node or below.
LEMMA WhereIs ==
  ASSUME NEW t, NEW L, IsTree(t, L), NEW rs \in SUBSET Routes, Holds(t, L, rs), Disjoint(t),
         NEW v \in 1..Len(t), NEW q \in rs, IsPrefix(Label(L, v), Flat(q))
  PROVE  \/ q \in RoutesAt(t, v)
         \/ q \in WildcardAt(t, v)
         \/ \E c \in 1..Len(t) : Child(t, v, c) /\ IsPrefix(Label(L, c), Flat(q))
<1>1. PICK u \in 1..Len(t) : q \in RoutesAt(t, u) \cup WildcardAt(t, u)
  BY Zenon DEF Holds
<1>2. /\ q \in RoutesAt(t, u) => Flat(q) = Label(L, u)
      /\ q \in WildcardAt(t, u) => Flat(q) = Label(L, u) \o <<"wildcard">>
  BY Zenon DEF Holds
<1>3. Label(L, u) \in Seq(Marks) /\ Label(L, v) \in Seq(Marks) /\ Label(L, u) \in Seq(Symbols)
  BY LabelSymbols
<1>4. Flat(q) \in Seq(Symbols)
  BY FlatIs
<1>5. IsPrefix(Label(L, v), Label(L, u))
  <2>1. CASE q \in RoutesAt(t, u)
    BY <1>2, <2>1
  <2>2. CASE q \in WildcardAt(t, u)
    BY <1>2, <1>3, <2>2, MarksBeforeWildcard
  <2> QED BY <1>1, <2>1, <2>2
<1>6. IsPrefix(Label(L, u), Flat(q))
  <2>1. CASE q \in RoutesAt(t, u)
    <3> DEFINE l == Label(L, u)
    <3> HIDE DEF l
    <3>1. l \in Seq(Symbols) /\ Flat(q) = l
      BY <1>2, <1>3, <2>1 DEF l
    <3>2. Len(l) <= Len(l) /\ \A i \in 1..Len(l) : l[i] = l[i]
      BY <3>1
    <3>3. IsPrefix(l, l)
      BY <3>1, <3>2, IsPrefixIf
    <3> QED BY <3>1, <3>3 DEF l
  <2>2. CASE q \in WildcardAt(t, u)
    <3>1. <<"wildcard">> \in Seq(Symbols)
      BY DEF Symbols
    <3>2. IsPrefix(Label(L, u), Label(L, u) \o <<"wildcard">>)
      BY <1>3, <3>1, ConcatIs
    <3> QED BY <1>2, <2>2, <3>2
  <2> QED BY <1>1, <2>1, <2>2
<1>7. CASE v = u
  BY <1>1, <1>7
<1>8. CASE v # u
  <2>1. PICK c \in 1..Len(t) : Child(t, v, c) /\ IsPrefix(Label(L, c), Label(L, u))
    BY <1>5, <1>8, Descent
  <2>2. Label(L, c) \in Seq(Symbols)
    BY LabelSymbols
  <2>3. IsPrefix(Label(L, c), Flat(q))
    BY <1>3, <1>4, <1>6, <2>1, <2>2, PrefixOfPrefix
  <2> QED BY <2>1, <2>3
<1> QED BY <1>7, <1>8

\* Where the children of a node are reached.
LEMMA StaticReached ==
  ASSUME NEW t, NEW L, IsTree(t, L), NEW path \in Seq(Chars), NEW v \in 1..Len(t),
         Reach(Label(L, v), path) <= Len(path), NEW c \in Nat, StaticChild(t, v, c)
  PROVE  LET k == Reach(Label(L, v), path)
         IN /\ k \in 0..Len(path)
            /\ Reach(Label(L, c), path) <= Len(path) <=> IsPrefix(Prefix(t, c), Rest(path, k))
            /\ Reach(Label(L, c), path) <= Len(path) =>
                 Reach(Label(L, c), path) = k + Len(Prefix(t, c))
<1>1. Label(L, v) \in Seq(Symbols)
  BY LabelSymbols
<1>2. Prefix(t, c) \in Seq(Chars) /\ Label(L, c) = Label(L, v) \o Prefix(t, c)
  BY StaticLabel
<1> QED BY <1>1, <1>2, ReachText

\* A parameter child is reached where the segment ends.
LEMMA ParamReached ==
  ASSUME NEW t, NEW L, IsTree(t, L), NEW path \in Seq(Chars), NEW v \in 1..Len(t),
         Reach(Label(L, v), path) <= Len(path), NEW c \in Nat, ParamChild(t, v, c)
  PROVE  LET k == Reach(Label(L, v), path)
         IN Reach(Label(L, c), path) = IF k < Len(path) THEN SegmentEnd(path, k) ELSE Len(path) + 1
<1>1. Label(L, v) \in Seq(Symbols)
  BY LabelSymbols
<1>2. Label(L, c) = Label(L, v) \o <<"param">>
  BY ParamLabel
<1>3. "param" \in Symbols
  BY DEF Symbols
<1>4. Reach(Label(L, v), path) \in 0..(Len(path) + 1)
  BY <1>1, ReachType
<1>5. Reach(Label(L, c), path) = Reached("param", Reach(Label(L, v), path), path)
  BY <1>1, <1>2, <1>3, ReachNext
<1> QED BY <1>4, <1>5, ReachedIs

\* The routes below a child are below the node.
LEMMA FromChild ==
  ASSUME NEW t, NEW L, IsTree(t, L), NEW rs \in SUBSET Routes, NEW path, NEW m,
         NEW v \in 1..Len(t), NEW c \in Nat, Child(t, v, c)
  PROVE  From(rs, m, path, Label(L, c)) \subseteq From(rs, m, path, Label(L, v))
<1>1. c \in 1..Len(t) /\ IsPrefix(Label(L, v), Label(L, c))
  BY ChildLabel
<1>2. Label(L, v) \in Seq(Symbols) /\ Label(L, c) \in Seq(Symbols)
  BY <1>1, LabelSymbols
<1>3. ASSUME NEW q \in From(rs, m, path, Label(L, c)) PROVE q \in From(rs, m, path, Label(L, v))
  <2>1. q \in Covering(rs, m, path) /\ IsPrefix(Label(L, c), Flat(q)) /\ q \in Routes
    BY DEF From, Covering
  <2>2. Flat(q) \in Seq(Symbols)
    BY <2>1, FlatIs
  <2>3. IsPrefix(Label(L, v), Flat(q))
    BY <1>1, <1>2, <2>1, <2>2, PrefixOfPrefix
  <2> QED BY <2>1, <2>3 DEF From
<1> QED BY <1>3

\* What is right to find from a node, where it is reached.
RightFrom(t, L, rs, m, path, v, found) ==
  /\ found \subseteq From(rs, m, path, Label(L, v))
  /\ Disjoint(t) => Winner(From(rs, m, path, Label(L, v)), found)
Right(t, L, rs, m, path, f, v) ==
  Reach(Label(L, v), path) <= Len(path) =>
    RightFrom(t, L, rs, m, path, v, At(f, v, Reach(Label(L, v), path)))

\* A child that is on the way to a route is reached if the route covers the path.
LEMMA ChildFitsPath ==
  ASSUME NEW t, NEW L, IsTree(t, L), NEW rs \in SUBSET Routes, NEW path \in Seq(Chars), NEW m,
         NEW c \in 1..Len(t), NEW q \in Covering(rs, m, path), IsPrefix(Label(L, c), Flat(q))
  PROVE  Reach(Label(L, c), path) <= Len(path)
<1>1. Label(L, c) \in Seq(Symbols)
  BY LabelSymbols
<1>2. q \in Routes /\ Reach(Flat(q), path) = Len(path)
  BY DEF Covering
<1>3. Flat(q) \in Seq(Symbols) /\ Len(path) \in Nat
  BY <1>2, FlatIs
<1>4. Reach(Flat(q), path) <= Len(path)
  BY <1>2, <1>3
<1> QED BY <1>1, <1>3, <1>4, PrefixFits

\* What is found from a node.
LEMMA AtIs ==
  ASSUME NEW t, NEW m, NEW path, NEW f, FindSteps(f, t, m, path),
         NEW v \in 1..Len(t), NEW k \in 0..Len(path)
  PROVE  At(f, v, k) = TryFind(f, t, m, path, v, k)
<1> DEFINE B(w, i) == TryFind(f, t, m, path, w, i)
           F == [w \in 1..Len(t) |-> [i \in 0..Len(path) |-> B(w, i)]]
<1>1. f = F
  BY DEF FindSteps
<1> HIDE DEF B
<1>2. F[v][k] = B(v, k)
  OBVIOUS
<1> QED BY <1>1, <1>2 DEF At, B

\* At the end of a path the routes of the node go before those in its wildcard.
LEMMA RightAtEnd ==
  ASSUME NEW t, NEW L, IsTree(t, L), NEW rs \in SUBSET Routes, Holds(t, L, rs),
         NEW path \in Seq(Chars), NEW m, NEW v \in 1..Len(t), NEW f,
         FindSteps(f, t, m, path), Reach(Label(L, v), path) = Len(path)
  PROVE  RightFrom(t, L, rs, m, path, v, At(f, v, Len(path)))
<1> DEFINE l == Label(L, v)
           P == Len(path)
           a == TryFindRoute(RoutesAt(t, v), m)
           b == TryFindRoute(WildcardAt(t, v), m)
           A == {q \in RoutesAt(t, v) : q.verb \in {m, AnyVerb}}
           W == {q \in WildcardAt(t, v) : q.verb \in {m, AnyVerb}}
           all == From(rs, m, path, l)
<1>1. P \in Nat /\ P \in 0..P /\ P <= P
  OBVIOUS
<1>2. At(f, v, P) = OrElse(a, b)
  <2>1. At(f, v, P) = TryFind(f, t, m, path, v, P)
    BY <1>1, AtIs
  <2> QED BY <2>1 DEF TryFind, RoutesAt, WildcardAt
<1>3. /\ \A q \in RoutesAt(t, v) : Flat(q) = l
      /\ \A q \in WildcardAt(t, v) : Flat(q) = l \o <<"wildcard">>
      /\ OneEach(RoutesAt(t, v)) /\ OneEach(WildcardAt(t, v))
  BY Zenon DEF Holds
<1>4. Winner(A, a) /\ Winner(W, b)
  <2>1. \A p, q \in RoutesAt(t, v) : Flat(p) = Flat(q)
    BY <1>3
  <2>2. \A p, q \in WildcardAt(t, v) : Flat(p) = Flat(q)
    BY <1>3
  <2> QED BY <1>3, <2>1, <2>2, RouteWins
<1>5. A \subseteq all /\ W \subseteq all
  <2>1. A \subseteq all
    BY RoutesCover
  <2>2. Reach(Label(L, v), path) <= Len(path)
    BY <1>1
  <2>3. W \subseteq all
    BY <2>2, WildcardCovers
  <2> QED BY <2>1, <2>3
<1>6. l \in Seq(Marks) /\ l \in Seq(Symbols)
  BY LabelSymbols
<1>7. IsStrictPrefix(l, l \o <<"wildcard">>)
  <2> DEFINE x == l \o <<"wildcard">>
  <2>1. <<"wildcard">> \in Seq(Symbols)
    BY DEF Symbols
  <2>2. x \in Seq(Symbols) /\ IsPrefix(l, x)
    BY <1>6, <2>1, ConcatIs
  <2>3. x # l
    BY <1>6, WildcardBehind
  <2> HIDE DEF x
  <2>4. IsStrictPrefix(l, x)
    BY <1>6, <2>2, <2>3, PrefixIs
  <2> QED BY <2>4 DEF x
<1> HIDE DEF A, W, a, b, all
<1>8. Ordered(A, W)
  <2>1. ASSUME NEW r \in A, NEW q \in W PROVE Precedes(r, q)
    <3>1. Flat(r) = l /\ Flat(q) = l \o <<"wildcard">>
      BY <1>3 DEF A, W
    <3>2. IsStrictPrefix(Flat(r), Flat(q))
      BY <1>7, <3>1
    <3> QED BY <3>2 DEF Precedes
  <2> QED BY <2>1 DEF Ordered
<1>9. Winner(A \cup W, At(f, v, P))
  BY <1>2, <1>4, <1>8, WinnerOrElse
<1>10. At(f, v, P) \subseteq all
  BY <1>5, <1>9 DEF Winner
<1>11. ASSUME Disjoint(t) PROVE all = A \cup W
  <2>1. ASSUME NEW q \in all PROVE q \in A \cup W
    <3>1. q \in Covering(rs, m, path) /\ IsPrefix(l, Flat(q))
      BY DEF all, From
    <3>2. q \in rs /\ q.verb \in {m, AnyVerb}
      BY <3>1 DEF Covering
    <3>3. \/ q \in RoutesAt(t, v)
          \/ q \in WildcardAt(t, v)
          \/ \E c \in 1..Len(t) : Child(t, v, c) /\ IsPrefix(Label(L, c), Flat(q))
      BY <1>11, <3>1, <3>2, WhereIs
    <3>4. ~ \E c \in 1..Len(t) : Child(t, v, c) /\ IsPrefix(Label(L, c), Flat(q))
      <4> SUFFICES ASSUME NEW c \in 1..Len(t), Child(t, v, c), IsPrefix(Label(L, c), Flat(q))
                   PROVE  FALSE
        OBVIOUS
      <4>1. Reach(Label(L, c), path) <= P
        BY <3>1, ChildFitsPath
      <4>2. Reach(Label(L, v), path) <= Len(path) /\ c \in Nat
        BY <1>1
      <4>3. CASE StaticChild(t, v, c)
        <5>1. IsPrefix(Prefix(t, c), Rest(path, P))
          BY <4>1, <4>2, <4>3, StaticReached
        <5>2. Prefix(t, c) \in Seq(Chars) /\ Len(Prefix(t, c)) \in Nat /\ Len(Prefix(t, c)) # 0
          BY <4>2, <4>3, StaticLabel
        <5>3. Rest(path, P) \in Seq(Chars) /\ Len(Rest(path, P)) = P - P
          BY <1>1, RestIs
        <5>4. Len(Prefix(t, c)) <= Len(Rest(path, P))
          BY <5>1, <5>2, <5>3, PrefixMeans
        <5> QED BY <1>1, <5>2, <5>3, <5>4
      <4>4. CASE ParamChild(t, v, c)
        <5>1. Reach(Label(L, c), path) = P + 1
          <6>1. ~(P < P)
            BY <1>1
          <6> QED BY <4>2, <4>4, <6>1, ParamReached
        <5> QED BY <1>1, <4>1, <5>1
      <4> QED BY <4>3, <4>4 DEF Child
    <3> QED BY <3>2, <3>3, <3>4 DEF A, W
  <2> QED BY <1>5, <2>1
<1> QED BY <1>9, <1>10, <1>11 DEF RightFrom, all

\* What is found on one of the sides of a node: routes that go on with a symbol of
\* a rank.
Side(C, found, rank, l, all) ==
  /\ found \subseteq C /\ C \subseteq all
  /\ \A q \in C : Len(l) < Len(Flat(q)) /\ Rank(Flat(q)[Len(l) + 1]) = rank

\* The sides are in order.
LEMMA SidesOrdered ==
  ASSUME NEW C, NEW D, NEW found, NEW other, NEW x \in Nat, NEW y \in Nat, x < y,
         NEW rs \in SUBSET Routes, NEW path, NEW m, NEW l \in Seq(Marks),
         Side(C, found, x, l, From(rs, m, path, l)), Side(D, other, y, l, From(rs, m, path, l))
  PROVE  Ordered(C, D)
<1>1. ASSUME NEW q \in C, NEW r \in D PROVE Precedes(q, r)
  <2>1. q \in From(rs, m, path, l) /\ r \in From(rs, m, path, l)
    BY DEF Side
  <2>2. q \in Routes /\ r \in Routes /\ IsPrefix(l, Flat(q)) /\ IsPrefix(l, Flat(r))
    BY <2>1 DEF From, Covering
  <2>3. /\ Len(l) < Len(Flat(q)) /\ Rank(Flat(q)[Len(l) + 1]) = x
        /\ Len(l) < Len(Flat(r)) /\ Rank(Flat(r)[Len(l) + 1]) = y
    BY DEF Side
  <2> QED BY <2>2, <2>3, RankDecides
<1> QED BY <1>1 DEF Ordered

\* What is found in the static children: all of those routes are below one child.
StaticSide(t, L, v, C, found, all) ==
  /\ Side(C, found, 1, Label(L, v), all)
  /\ Disjoint(t) =>
       /\ Winner(C, found)
       /\ \A c \in Nat, q \in all : StaticChild(t, v, c) /\ IsPrefix(Label(L, c), Flat(q)) => q \in C
ParamSide(t, L, v, C, found, all) ==
  /\ Side(C, found, 2, Label(L, v), all)
  /\ Disjoint(t) =>
       /\ Winner(C, found)
       /\ \A c \in Nat, q \in all : ParamChild(t, v, c) /\ IsPrefix(Label(L, c), Flat(q)) => q \in C

\* A pattern goes on as the label of the child does.
LEMMA NextSymbol ==
  ASSUME NEW t, NEW L, IsTree(t, L), NEW rs \in SUBSET Routes, NEW path, NEW m,
         NEW v \in 1..Len(t), NEW c \in Nat, NEW q \in From(rs, m, path, Label(L, c))
  PROVE  /\ StaticChild(t, v, c) => /\ Len(Label(L, v)) < Len(Flat(q))
                                    /\ Rank(Flat(q)[Len(Label(L, v)) + 1]) = 1
         /\ ParamChild(t, v, c) => /\ Len(Label(L, v)) < Len(Flat(q))
                                   /\ Rank(Flat(q)[Len(Label(L, v)) + 1]) = 2
<1> SUFFICES ASSUME Child(t, v, c)
             PROVE  /\ StaticChild(t, v, c) => /\ Len(Label(L, v)) < Len(Flat(q))
                                               /\ Rank(Flat(q)[Len(Label(L, v)) + 1]) = 1
                    /\ ParamChild(t, v, c) => /\ Len(Label(L, v)) < Len(Flat(q))
                                              /\ Rank(Flat(q)[Len(Label(L, v)) + 1]) = 2
  BY DEF Child
<1> DEFINE i == Len(Label(L, v)) + 1
<1>1. c \in 1..Len(t) /\ Len(Label(L, v)) < Len(Label(L, c))
      /\ Len(Label(L, v)) \in Nat /\ Len(Label(L, c)) \in Nat
  BY ChildLabel
<1>2. Label(L, c) \in Seq(Symbols)
  BY <1>1, LabelSymbols
<1>3. q \in Routes /\ IsPrefix(Label(L, c), Flat(q))
  BY DEF From, Covering
<1>4. Flat(q) \in Seq(Symbols) /\ Len(Flat(q)) \in Nat
  BY <1>3, FlatIs
<1>5. i \in 1..Len(Label(L, c))
  BY <1>1
<1>6. i \in 1..Len(Flat(q)) /\ Flat(q)[i] = Label(L, c)[i]
  BY <1>2, <1>3, <1>4, <1>5, SymbolAt
<1>7. Len(Label(L, v)) < Len(Flat(q))
  BY <1>1, <1>4, <1>6
<1>8. StaticChild(t, v, c) => Rank(Flat(q)[i]) = 1
  BY <1>6, StaticLabel, RanksAre
<1>9. ParamChild(t, v, c) => Rank(Flat(q)[i]) = 2
  BY <1>6, ParamLabel, RanksAre
<1> QED BY <1>7, <1>8, <1>9

\* Nothing is found where nothing is.
LEMMA NoSide ==
  ASSUME NEW rank, NEW l, NEW all
  PROVE  Side({}, NotFound, rank, l, all) /\ Winner({}, NotFound)
BY DEF Side, Winner, NotFound

\* The static child that is tried is the only one where there are routes.
LEMMA StaticSideIs ==
  ASSUME NEW t, NEW L, IsTree(t, L), NEW rs \in SUBSET Routes, NEW path \in Seq(Chars), NEW m,
         NEW v \in 1..Len(t), NEW f, Reach(Label(L, v), path) <= Len(path),
         \A c \in 1..Len(t) : Child(t, v, c) => Right(t, L, rs, m, path, f, c)
  PROVE  \E C : StaticSide(t, L, v, C, TryFindStatic(f, t, v, path, Reach(Label(L, v), path)),
                           From(rs, m, path, Label(L, v)))
<1> DEFINE l == Label(L, v)
           k == Reach(l, path)
           all == From(rs, m, path, l)
           s == TryFindStatic(f, t, v, path, k)
           rest == Rest(path, k)
<1>1. l \in Seq(Marks) /\ l \in Seq(Symbols)
  BY LabelSymbols
<1>2. Len(path) \in Nat /\ k \in 0..Len(path)
  <2>1. k \in 0..(Len(path) + 1) /\ k <= Len(path)
    BY <1>1, ReachType
  <2> HIDE DEF k
  <2> QED BY <2>1
<1>3. rest \in Seq(Chars)
  BY <1>2, RestIs
<1>4. ASSUME NEW c \in Nat, StaticChild(t, v, c)
      PROVE  /\ c \in 1..Len(t) /\ Child(t, v, c) /\ Prefix(t, c) \in Seq(Chars)
             /\ Label(L, c) = l \o Prefix(t, c)
             /\ Reach(Label(L, c), path) <= Len(path) <=> IsPrefix(Prefix(t, c), rest)
             /\ Reach(Label(L, c), path) <= Len(path) =>
                  Reach(Label(L, c), path) = k + Len(Prefix(t, c))
  BY <1>4, StaticLabel, StaticReached DEF Child
<1>5. ASSUME NEW c \in Nat, NEW q \in all, StaticChild(t, v, c), IsPrefix(Label(L, c), Flat(q))
      PROVE  IsPrefix(Prefix(t, c), rest) /\ q \in From(rs, m, path, Label(L, c))
  <2>1. q \in Covering(rs, m, path)
    BY DEF From
  <2>2. c \in 1..Len(t)
    BY <1>4, <1>5
  <2>3. Reach(Label(L, c), path) <= Len(path)
    BY <1>5, <2>1, <2>2, ChildFitsPath
  <2>4. q \in From(rs, m, path, Label(L, c))
    BY <1>5, <2>1 DEF From
  <2> QED BY <1>4, <1>5, <2>3, <2>4
<1> HIDE DEF k, all, s, rest
<1>6. CASE NoneTried(t, v, path, k)
  <2>1. s = NotFound
    BY <1>6 DEF NoneTried, s
  <2>2. Side({}, s, 1, l, all) /\ Winner({}, s)
    BY <2>1, NoSide
  <2>3. \A c \in Nat, q \in all : StaticChild(t, v, c) /\ IsPrefix(Label(L, c), Flat(q)) => q \in {}
    BY <1>5, <1>6 DEF NoneTried, rest
  <2>4. StaticSide(t, L, v, {}, s, all)
    BY <2>2, <2>3 DEF StaticSide
  <2> QED BY <2>4 DEF s, k, all
<1>7. CASE \E c : StaticTried(t, v, path, k, c)
  <2>1. PICK c : StaticTried(t, v, path, k, c)
    BY <1>7
  <2>2. /\ c \in 1..Len(t) /\ StaticChild(t, v, c) /\ IsPrefix(Prefix(t, c), rest)
        /\ s = At(f, c, k + Len(Prefix(t, c)))
    BY <2>1 DEF StaticTried, rest, s
  <2>3. c \in Nat /\ Child(t, v, c) /\ Prefix(t, c) \in Seq(Chars)
        /\ Label(L, c) = l \o Prefix(t, c)
    BY <1>4, <2>2
  <2>4. Reach(Label(L, c), path) <= Len(path) /\ Reach(Label(L, c), path) = k + Len(Prefix(t, c))
    BY <1>4, <2>2, <2>3
  <2> DEFINE C == From(rs, m, path, Label(L, c))
  <2>5. s \subseteq C /\ (Disjoint(t) => Winner(C, s))
    <3>1. Right(t, L, rs, m, path, f, c)
      BY <2>2, <2>3
    <3>2. RightFrom(t, L, rs, m, path, c, At(f, c, Reach(Label(L, c), path)))
      BY <2>4, <3>1 DEF Right
    <3>3. RightFrom(t, L, rs, m, path, c, s)
      BY <2>2, <2>4, <3>2, Zenon
    <3> QED BY <3>3, Zenon DEF RightFrom
  <2>6. Side(C, s, 1, l, all)
    <3>1. C \subseteq all
      BY <2>3, FromChild DEF all
    <3>2. \A q \in C : Len(l) < Len(Flat(q)) /\ Rank(Flat(q)[Len(l) + 1]) = 1
      BY <2>2, <2>3, NextSymbol
    <3> QED BY <2>5, <3>1, <3>2 DEF Side
  <2>7. ASSUME Disjoint(t), NEW d \in Nat, NEW q \in all, StaticChild(t, v, d),
               IsPrefix(Label(L, d), Flat(q))
        PROVE  q \in C
    <3>1. IsPrefix(Prefix(t, d), rest) /\ q \in From(rs, m, path, Label(L, d))
      BY <1>5, <2>7
    <3>2. Prefix(t, d) \in Seq(Chars) /\ Label(L, d) = l \o Prefix(t, d) /\ Child(t, v, d)
      BY <1>4, <2>7
    <3>3. c = d
      <4> DEFINE w == l \o rest
      <4>1. rest \in Seq(Symbols) /\ Prefix(t, c) \in Seq(Symbols) /\ Prefix(t, d) \in Seq(Symbols)
        <5>1. \A x \in Seq(Chars) : x \in Seq(Symbols)
          BY DEF Symbols
        <5> QED BY <1>3, <2>3, <3>2, <5>1
      <4>2. w \in Seq(Symbols)
        BY <1>1, <4>1, ConcatIs
      <4>3. IsPrefix(Label(L, c), w) /\ IsPrefix(Label(L, d), w)
        BY <1>1, <2>2, <2>3, <3>1, <3>2, <4>1, PrefixBehind
      <4>4. Marks \subseteq Symbols
        BY DEF Marks, Symbols
      <4> HIDE DEF w
      <4> QED BY <2>3, <2>7, <3>2, <4>2, <4>3, <4>4, SiblingsDiffer
    <3> QED BY <3>1, <3>3
  <2> HIDE DEF C
  <2>8. StaticSide(t, L, v, C, s, all)
    BY <2>5, <2>6, <2>7 DEF StaticSide
  <2> QED BY <2>8 DEF s, k, all
<1> QED BY <1>2, <1>6, <1>7, StaticFound

\* So is the parameter child.
LEMMA ParamSideIs ==
  ASSUME NEW t, NEW L, IsTree(t, L), NEW rs \in SUBSET Routes, NEW path \in Seq(Chars), NEW m,
         NEW v \in 1..Len(t), NEW f, Reach(Label(L, v), path) < Len(path),
         \A c \in 1..Len(t) : Child(t, v, c) => Right(t, L, rs, m, path, f, c)
  PROVE  \E C : ParamSide(t, L, v, C, TryFindParam(f, t, v, path, Reach(Label(L, v), path)),
                          From(rs, m, path, Label(L, v)))
<1> DEFINE l == Label(L, v)
           k == Reach(l, path)
           all == From(rs, m, path, l)
           s == TryFindParam(f, t, v, path, k)
<1>1. l \in Seq(Marks) /\ l \in Seq(Symbols)
  BY LabelSymbols
<1>2. Len(path) \in Nat /\ k \in Nat /\ k < Len(path) /\ k <= Len(path)
  <2>1. k \in 0..(Len(path) + 1) /\ k < Len(path)
    BY <1>1, ReachType
  <2> HIDE DEF k
  <2> QED BY <2>1
<1>3. ASSUME NEW c \in Nat, ParamChild(t, v, c)
      PROVE  /\ c \in 1..Len(t) /\ Child(t, v, c)
             /\ Reach(Label(L, c), path) = SegmentEnd(path, k)
  <2>1. c \in 1..Len(t)
    BY <1>3, ParamLabel
  <2>2. Reach(Label(L, v), path) <= Len(path) /\ Reach(Label(L, v), path) < Len(path)
    BY <1>2
  <2>3. Reach(Label(L, c), path) = SegmentEnd(path, k)
    BY <1>3, <2>2, ParamReached
  <2> QED BY <1>3, <2>1, <2>3 DEF Child
<1>4. ASSUME NEW c \in Nat, NEW q \in all, ParamChild(t, v, c), IsPrefix(Label(L, c), Flat(q))
      PROVE  q \in From(rs, m, path, Label(L, c))
  BY <1>4 DEF From
<1> HIDE DEF k, all, s
<1>5. CASE NoParam(t, v, path, k)
  <2>1. s = NotFound
    BY <1>5 DEF NoParam, s
  <2>2. Side({}, s, 2, l, all) /\ Winner({}, s)
    BY <2>1, NoSide
  <2>3. \A c \in Nat, q \in all : ParamChild(t, v, c) /\ IsPrefix(Label(L, c), Flat(q)) => q \in {}
    BY <1>5 DEF NoParam
  <2>4. ParamSide(t, L, v, {}, s, all)
    BY <2>2, <2>3 DEF ParamSide
  <2> QED BY <2>4 DEF s, k, all
<1>6. CASE \E c : ParamTried(t, v, path, k, c)
  <2>1. PICK c : ParamTried(t, v, path, k, c)
    BY <1>6
  <2>2. /\ c \in 1..Len(t) /\ ParamChild(t, v, c) /\ SegmentEnd(path, k) \in k..Len(path)
        /\ s = At(f, c, SegmentEnd(path, k))
    BY <2>1 DEF ParamTried, s
  <2>3. c \in Nat /\ Child(t, v, c) /\ Reach(Label(L, c), path) = SegmentEnd(path, k)
    BY <1>3, <2>2
  <2>4. Reach(Label(L, c), path) <= Len(path)
    BY <1>2, <2>2, <2>3
  <2> DEFINE C == From(rs, m, path, Label(L, c))
  <2>5. s \subseteq C /\ (Disjoint(t) => Winner(C, s))
    <3>1. Right(t, L, rs, m, path, f, c)
      BY <2>2, <2>3
    <3>2. RightFrom(t, L, rs, m, path, c, At(f, c, Reach(Label(L, c), path)))
      BY <2>4, <3>1 DEF Right
    <3>3. RightFrom(t, L, rs, m, path, c, s)
      BY <2>2, <2>3, <3>2, Zenon
    <3> QED BY <3>3, Zenon DEF RightFrom
  <2>6. Side(C, s, 2, l, all)
    <3>1. C \subseteq all
      BY <2>3, FromChild DEF all
    <3>2. \A q \in C : Len(l) < Len(Flat(q)) /\ Rank(Flat(q)[Len(l) + 1]) = 2
      BY <2>2, <2>3, NextSymbol
    <3> QED BY <2>5, <3>1, <3>2 DEF Side
  <2>7. ASSUME NEW d \in Nat, NEW q \in all, ParamChild(t, v, d), IsPrefix(Label(L, d), Flat(q))
        PROVE  q \in C
    <3>1. c = d
      BY <2>2, <2>7 DEF ParamChild
    <3> QED BY <1>4, <2>7, <3>1
  <2> HIDE DEF C
  <2>8. ParamSide(t, L, v, C, s, all)
    BY <2>5, <2>6, <2>7 DEF ParamSide
  <2> QED BY <2>8 DEF s, k, all
<1> QED BY <1>2, <1>5, <1>6, ParamFound

\* Before the end of a path the static child goes before the parameter child, and
\* that before the wildcard.
LEMMA RightOnTheWay ==
  ASSUME NEW t, NEW L, IsTree(t, L), NEW rs \in SUBSET Routes, Holds(t, L, rs),
         NEW path \in Seq(Chars), NEW m, NEW v \in 1..Len(t), NEW f,
         FindSteps(f, t, m, path), Reach(Label(L, v), path) < Len(path),
         \A c \in 1..Len(t) : Child(t, v, c) => Right(t, L, rs, m, path, f, c)
  PROVE  RightFrom(t, L, rs, m, path, v, At(f, v, Reach(Label(L, v), path)))
<1> DEFINE l == Label(L, v)
           k == Reach(l, path)
           all == From(rs, m, path, l)
           s == TryFindStatic(f, t, v, path, k)
           p == TryFindParam(f, t, v, path, k)
           b == TryFindRoute(WildcardAt(t, v), m)
           W == {q \in WildcardAt(t, v) : q.verb \in {m, AnyVerb}}
<1>1. l \in Seq(Marks) /\ l \in Seq(Symbols) /\ Len(l) \in Nat
  BY LabelSymbols
<1>2. Len(path) \in Nat /\ k \in 0..Len(path) /\ k # Len(path) /\ k <= Len(path)
  <2>1. k \in 0..(Len(path) + 1) /\ k < Len(path)
    BY <1>1, ReachType
  <2> HIDE DEF k
  <2> QED BY <2>1
<1>3. At(f, v, k) = OrElse(s, OrElse(p, b))
  <2>1. At(f, v, k) = TryFind(f, t, m, path, v, k)
    BY <1>2, AtIs
  <2> HIDE DEF k
  <2> QED BY <1>2, <2>1 DEF TryFind, WildcardAt
<1>4. PICK C : StaticSide(t, L, v, C, s, all)
  BY <1>2, StaticSideIs
<1>5. PICK D : ParamSide(t, L, v, D, p, all)
  BY ParamSideIs
<1>6. W \subseteq all
  BY <1>2, WildcardCovers
<1>7. /\ \A q \in WildcardAt(t, v) : Flat(q) = l \o <<"wildcard">>
      /\ OneEach(WildcardAt(t, v))
  BY Zenon DEF Holds
<1>8. Winner(W, b)
  <2>1. \A x, y \in WildcardAt(t, v) : Flat(x) = Flat(y)
    BY <1>7
  <2> QED BY <1>7, <2>1, RouteWins
<1>9. Side(W, b, 3, l, all)
  <2>1. b \subseteq W
    BY <1>8 DEF Winner
  <2>2. ASSUME NEW q \in W PROVE Len(l) < Len(Flat(q)) /\ Rank(Flat(q)[Len(l) + 1]) = 3
    <3> DEFINE w == <<"wildcard">>
               x == l \o w
    <3>1. w \in Seq(Symbols) /\ Len(w) = 1 /\ 1 \in 1..Len(w) /\ w[1] = "wildcard"
      BY DEF Symbols
    <3> HIDE DEF w
    <3>5. l \in Seq(Symbols) /\ w \in Seq(Symbols)
      BY <1>1, <3>1
    <3>7. Flat(q) = l \o w
      BY <1>7 DEF w
    <3> HIDE DEF l, W, s, p, b, all, k
    <3>6. Len(x) = Len(l) + Len(w) /\ \A i \in 1..Len(w) : x[Len(l) + i] = w[i]
      BY <3>5, ConcatIs
    <3>2. Len(x) = Len(l) + Len(w) /\ x[Len(l) + 1] = w[1]
      BY <3>1, <3>6
    <3> HIDE DEF x
    <3>3. Flat(q) = x
      BY <3>7 DEF x
    <3>4. Len(l) < Len(x) /\ x[Len(l) + 1] = "wildcard"
      BY <1>1, <3>1, <3>2
    <3> QED BY <3>3, <3>4, RanksAre
  <2> HIDE DEF all, W
  <2> QED BY <1>6, <2>1, <2>2 DEF Side
<1>10. /\ Side(C, s, 1, l, all) /\ Side(D, p, 2, l, all)
  BY <1>4, <1>5 DEF StaticSide, ParamSide
<1>11. Ordered(C, D) /\ Ordered(C, W) /\ Ordered(D, W)
  <2>1. 1 \in Nat /\ 2 \in Nat /\ 3 \in Nat /\ 1 < 2 /\ 1 < 3 /\ 2 < 3
    OBVIOUS
  <2> HIDE DEF W, s, p, b, l
  <2> QED BY <1>1, <1>9, <1>10, <2>1, SidesOrdered DEF all
<1> HIDE DEF k, all, s, p, b
<1>12. At(f, v, k) \subseteq all
  <2>1. s \subseteq all /\ p \subseteq all /\ b \subseteq all
    BY <1>9, <1>10 DEF Side
  <2> QED BY <1>3, <2>1 DEF OrElse
<1>13. ASSUME Disjoint(t) PROVE Winner(all, At(f, v, k))
  <2>1. Winner(C, s) /\ Winner(D, p)
    BY <1>4, <1>5, <1>13 DEF StaticSide, ParamSide
  <2>2. Winner(D \cup W, OrElse(p, b))
    BY <1>8, <1>11, <2>1, WinnerOrElse
  <2>3. Ordered(C, D \cup W)
    BY <1>11 DEF Ordered
  <2>4. Winner(C \cup (D \cup W), At(f, v, k))
    BY <1>3, <2>1, <2>2, <2>3, WinnerOrElse
  <2>5. ASSUME NEW q \in all PROVE q \in C \cup (D \cup W)
    <3>1. q \in Covering(rs, m, path) /\ IsPrefix(l, Flat(q))
      BY DEF all, From
    <3>2. q \in rs /\ q.verb \in {m, AnyVerb} /\ Reach(Flat(q), path) = Len(path)
      BY <3>1 DEF Covering
    <3>3. \/ q \in RoutesAt(t, v)
          \/ q \in WildcardAt(t, v)
          \/ \E c \in 1..Len(t) : Child(t, v, c) /\ IsPrefix(Label(L, c), Flat(q))
      BY <1>13, <3>1, <3>2, WhereIs
    <3>4. q \notin RoutesAt(t, v)
      <4>1. \A x \in RoutesAt(t, v) : Flat(x) = l
        BY Zenon DEF Holds
      <4>2. Reach(l, path) # Len(path)
        BY <1>2 DEF k
      <4> QED BY <3>2, <4>1, <4>2
    <3>5. CASE q \in WildcardAt(t, v)
      BY <3>2, <3>5
    <3>6. CASE \E c \in 1..Len(t) : Child(t, v, c) /\ IsPrefix(Label(L, c), Flat(q))
      <4>1. PICK c \in 1..Len(t) : Child(t, v, c) /\ IsPrefix(Label(L, c), Flat(q))
        BY <3>6
      <4>2. c \in Nat
        OBVIOUS
      <4>3. CASE StaticChild(t, v, c)
        BY <1>4, <1>13, <4>1, <4>2, <4>3 DEF StaticSide
      <4>4. CASE ParamChild(t, v, c)
        BY <1>5, <1>13, <4>1, <4>2, <4>4 DEF ParamSide
      <4> QED BY <4>1, <4>3, <4>4 DEF Child
    <3> QED BY <3>3, <3>4, <3>5, <3>6
  <2>6. C \cup (D \cup W) \subseteq all
    BY <1>9, <1>10 DEF Side
  <2>7. C \cup (D \cup W) = all
    BY <2>5, <2>6
  <2> QED BY <2>4, <2>7
<1> QED BY <1>12, <1>13 DEF RightFrom, all, k

\* So it is right from every node, the ones with long labels first.
LEMMA RightEverywhere ==
  ASSUME NEW t, NEW L, IsTree(t, L), NEW rs \in SUBSET Routes, Holds(t, L, rs),
         NEW path \in Seq(Chars), NEW m, NEW f, FindSteps(f, t, m, path)
  PROVE  \A v \in 1..Len(t) : Right(t, L, rs, m, path, f, v)
<1> DEFINE R(v) == Right(t, L, rs, m, path, f, v)
           l(v) == Len(Label(L, v))
<1>1. PICK N \in Nat : \A v \in 1..Len(t) : l(v) <= N
  BY LabelsBounded
<1>2. \A v \in 1..Len(t) : l(v) \in Nat
  BY TreeIs
<1> DEFINE P == {k \in Nat : \A v \in 1..Len(t) : N - l(v) < k => R(v)}
<1>3. 0 \in P
  <2> HIDE DEF l, R
  <2> QED BY <1>1, <1>2
<1>4. ASSUME NEW k \in 0..N, k \in P PROVE k + 1 \in P
  <2>1. \A v \in 1..Len(t) : N - l(v) < k => R(v)
    BY <1>4
  <2>2. ASSUME NEW v \in 1..Len(t), N - l(v) < k + 1 PROVE R(v)
    <3>1. ASSUME NEW c \in 1..Len(t), Child(t, v, c) PROVE R(c)
      <4>1. l(v) < l(c) /\ l(v) \in Nat /\ l(c) \in Nat
        BY <3>1, ChildLabel
      <4> HIDE DEF l, R
      <4>2. N - l(c) < k
        BY <1>1, <2>2, <4>1
      <4> QED BY <2>1, <4>2
    <3>2. SUFFICES ASSUME Reach(Label(L, v), path) <= Len(path)
                   PROVE  RightFrom(t, L, rs, m, path, v, At(f, v, Reach(Label(L, v), path)))
      BY DEF Right
    <3>3. CASE Reach(Label(L, v), path) = Len(path)
      <4>1. RightFrom(t, L, rs, m, path, v, At(f, v, Len(path)))
        BY <3>3, RightAtEnd
      <4> QED BY <3>3, <4>1
    <3>4. CASE Reach(Label(L, v), path) # Len(path)
      <4>1. Reach(Label(L, v), path) < Len(path)
        <5>1. Label(L, v) \in Seq(Symbols)
          BY LabelSymbols
        <5>2. Reach(Label(L, v), path) \in 0..(Len(path) + 1) /\ Len(path) \in Nat
          BY <5>1, ReachType
        <5> QED BY <3>2, <3>4, <5>2
      <4> QED BY <3>1, <4>1, RightOnTheWay
    <3> QED BY <3>3, <3>4
  <2> HIDE DEF l, R
  <2> QED BY <2>2
<1>5. \A v \in 1..Len(t) : R(v)
  <2>1. N + 1 \in Nat /\ N + 1 \in 0..(N + 1) /\ (N + 1) - 1 = N
    BY <1>1
  <2> HIDE DEF P
  <2>2. \A k \in 0..((N + 1) - 1) : k \in P => k + 1 \in P
    BY <1>4, <2>1
  <2>3. \A k \in 0..(N + 1) : k \in P
    BY <1>3, <2>1, <2>2, SetInduction
  <2>4. N + 1 \in P
    BY <2>1, <2>3
  <2>5. \A v \in 1..Len(t) : N - l(v) < N + 1 => R(v)
    BY <2>4 DEF P
  <2> HIDE DEF l, R
  <2> QED BY <1>1, <1>2, <2>5
<1> QED BY <1>5
-----------------------------------------------------------------------------
(* No two routes precede each other, so there is one that is the best.     *)

\* The first two ways to precede, place by place.
Earlier(a, b) ==
  \/ Len(a) < Len(b) /\ \A i \in 1..Len(a) : a[i] = b[i]
  \/ \E k \in 1..Len(a) : /\ k <= Len(b) /\ \A i \in 1..(k - 1) : a[i] = b[i]
                          /\ Rank(a[k]) < Rank(b[k])

\* It decides between two sequences in one way only.
LEMMA EarlierOnce ==
  ASSUME NEW a \in Seq(Symbols), NEW b \in Seq(Symbols), Earlier(a, b)
  PROVE  ~Earlier(b, a) /\ a # b
<1>1. Len(a) \in Nat /\ Len(b) \in Nat /\ \A x : Rank(x) \in Nat
  BY DEF Rank
<1> DEFINE R(x) == Rank(x)
           Strict(c, d) == Len(c) < Len(d) /\ \A i \in 1..Len(c) : c[i] = d[i]
           Place(c, d, k) == /\ k \in 1..Len(c) /\ k <= Len(d)
                             /\ \A i \in 1..(k - 1) : c[i] = d[i]
                             /\ R(c[k]) < R(d[k])
<1>2. \A x : R(x) \in Nat
  BY <1>1
<1>3. Strict(a, b) \/ \E k : Place(a, b, k)
  BY DEF Earlier
<1> HIDE DEF R
<1>4. ~Strict(a, b) \/ (~Strict(b, a) /\ (\A k : ~Place(b, a, k)) /\ a # b)
  BY <1>1, <1>2
<1>5. ASSUME NEW k, Place(a, b, k) PROVE ~Strict(b, a) /\ (\A j : ~Place(b, a, j)) /\ a # b
  <2>1. k \in 1..Len(a) /\ k \in 1..Len(b)
    BY <1>1, <1>5
  <2>2. a[k] # b[k]
    BY <1>2, <1>5
  <2>3. ASSUME NEW j, Place(b, a, j) PROVE FALSE
    <3>1. j \in 1..Len(a) /\ j \in 1..Len(b)
      BY <1>1, <2>3
    <3>2. CASE j = k
      BY <1>2, <1>5, <2>3, <3>2
    <3>3. CASE j < k
      <4>1. j \in 1..(k - 1)
        BY <2>1, <3>1, <3>3
      <4>2. a[j] = b[j]
        BY <1>5, <4>1
      <4> QED BY <1>2, <2>3, <4>2
    <3>4. CASE k < j
      <4>1. k \in 1..(j - 1)
        BY <2>1, <3>1, <3>4
      <4> QED BY <2>2, <2>3, <4>1
    <3> QED BY <2>1, <3>1, <3>2, <3>3, <3>4
  <2>4. ~Strict(b, a)
    BY <2>1, <2>2
  <2> QED BY <2>2, <2>3, <2>4
<1>6. ~Strict(b, a) /\ (\A k : ~Place(b, a, k)) /\ a # b
  BY <1>3, <1>4, <1>5
<1> QED BY <1>6 DEF Earlier, R

\* What Precedes says of two routes.
LEMMA PrecedesMeans ==
  ASSUME NEW q \in Routes, NEW r \in Routes, Precedes(q, r)
  PROVE  Earlier(Flat(q), Flat(r)) \/ (Flat(q) = Flat(r) /\ r.verb = AnyVerb)
<1> DEFINE a == Flat(q)
           b == Flat(r)
<1>1. a \in Seq(Symbols) /\ b \in Seq(Symbols)
  BY FlatIs
<1>2. \/ IsStrictPrefix(a, b)
      \/ \E k \in DOMAIN a \cap DOMAIN b :
           SubSeq(a, 1, k - 1) = SubSeq(b, 1, k - 1) /\ Rank(a[k]) < Rank(b[k])
      \/ a = b /\ r.verb = AnyVerb
  BY DEF Precedes
<1> HIDE DEF a, b
<1>3. CASE IsStrictPrefix(a, b)
  <2>1. IsPrefix(a, b) /\ a # b
    BY <1>1, <1>3, PrefixIs
  <2>2. Len(a) <= Len(b) /\ \A i \in 1..Len(a) : a[i] = b[i]
    BY <1>1, <2>1, PrefixMeans
  <2>3. Len(a) # Len(b)
    <3>1. SUFFICES ASSUME Len(a) = Len(b) PROVE FALSE
      OBVIOUS
    <3>2. a = b
      BY <1>1, <2>2, <3>1, SeqEqual
    <3> QED BY <2>1, <3>2
  <2>4. Len(a) \in Nat /\ Len(b) \in Nat
    BY <1>1
  <2>5. Earlier(a, b)
    BY <2>2, <2>3, <2>4 DEF Earlier
  <2> QED BY <2>5 DEF a, b
<1>4. CASE \E k \in DOMAIN a \cap DOMAIN b :
             SubSeq(a, 1, k - 1) = SubSeq(b, 1, k - 1) /\ Rank(a[k]) < Rank(b[k])
  <2>1. PICK k \in DOMAIN a \cap DOMAIN b :
          SubSeq(a, 1, k - 1) = SubSeq(b, 1, k - 1) /\ Rank(a[k]) < Rank(b[k])
    BY <1>4
  <2>2. k \in 1..Len(a) /\ k <= Len(b) /\ k \in Nat /\ Len(a) \in Nat /\ Len(b) \in Nat
    BY <1>1
  <2>3. ASSUME NEW i \in 1..(k - 1) PROVE a[i] = b[i]
    <3>1. SubSeq(a, 1, k - 1)[i] = a[i] /\ SubSeq(b, 1, k - 1)[i] = b[i]
      BY <1>1, <2>2
    <3> QED BY <2>1, <3>1
  <2>4. Earlier(a, b)
    BY <2>1, <2>2, <2>3 DEF Earlier
  <2> QED BY <2>4 DEF a, b
<1> QED BY <1>2, <1>3, <1>4 DEF a, b

\* A tree of disjoint siblings holds no route of one verb and pattern twice.
LEMMA HeldOnce ==
  ASSUME NEW t, NEW L, IsTree(t, L), Disjoint(t), NEW rs \in SUBSET Routes, Holds(t, L, rs),
         NEW q \in rs, NEW r \in rs, Flat(q) = Flat(r), q.verb = r.verb
  PROVE  q = r
<1>1. \A x \in rs : \E v \in 1..Len(t) : x \in RoutesAt(t, v) \/ x \in WildcardAt(t, v)
  BY Zenon DEF Holds
<1>2. PICK v \in 1..Len(t) : q \in RoutesAt(t, v) \/ q \in WildcardAt(t, v)
  BY <1>1
<1>3. PICK w \in 1..Len(t) : r \in RoutesAt(t, w) \/ r \in WildcardAt(t, w)
  BY <1>1
<1>4. \A u \in 1..Len(t) :
        /\ \A x \in RoutesAt(t, u) : Flat(x) = Label(L, u)
        /\ \A x \in WildcardAt(t, u) : Flat(x) = Label(L, u) \o <<"wildcard">>
        /\ OneEach(RoutesAt(t, u)) /\ OneEach(WildcardAt(t, u))
  BY Zenon DEF Holds
<1>5. Label(L, v) \in Seq(Marks) /\ Label(L, w) \in Seq(Marks)
  BY LabelSymbols
<1>6. Label(L, v) = Label(L, w) => v = w
  BY LabelsDiffer
<1>7. CASE q \in RoutesAt(t, v) /\ r \in RoutesAt(t, w)
  <2>1. v = w
    BY <1>4, <1>6, <1>7
  <2> QED BY <1>4, <1>7, <2>1 DEF OneEach
<1>8. CASE q \in WildcardAt(t, v) /\ r \in WildcardAt(t, w)
  <2>1. Label(L, v) \o <<"wildcard">> = Label(L, w) \o <<"wildcard">>
    BY <1>4, <1>8, Zenon
  <2>2. v = w
    BY <1>5, <1>6, <2>1, WildcardBehind
  <2> QED BY <1>4, <1>8, <2>2 DEF OneEach
<1>9. CASE q \in RoutesAt(t, v) /\ r \in WildcardAt(t, w)
  <2>1. Label(L, v) = Label(L, w) \o <<"wildcard">>
    BY <1>4, <1>9, Zenon
  <2> QED BY <1>5, <2>1, WildcardBehind
<1>10. CASE q \in WildcardAt(t, v) /\ r \in RoutesAt(t, w)
  <2>1. Label(L, w) = Label(L, v) \o <<"wildcard">>
    BY <1>4, <1>10, Zenon
  <2> QED BY <1>5, <2>1, WildcardBehind
<1> QED BY <1>2, <1>3, <1>7, <1>8, <1>9, <1>10

\* So the winner is the one route that precedes all the others.
LEMMA WinnerIsBest ==
  ASSUME NEW t, NEW L, IsTree(t, L), Disjoint(t), NEW rs \in SUBSET Routes, Holds(t, L, rs),
         NEW C \in SUBSET rs, NEW found, Winner(C, found)
  PROVE  found = {r \in C : \A q \in C \ {r} : Precedes(r, q)}
<1>1. ASSUME NEW q \in C, NEW r \in C, q # r, Precedes(q, r), Precedes(r, q) PROVE FALSE
  <2>1. q \in Routes /\ r \in Routes /\ q \in rs /\ r \in rs
    OBVIOUS
  <2>2. Flat(q) \in Seq(Symbols) /\ Flat(r) \in Seq(Symbols)
    BY <2>1, FlatIs
  <2>3. Earlier(Flat(q), Flat(r)) \/ (Flat(q) = Flat(r) /\ r.verb = AnyVerb)
    BY <1>1, <2>1, PrecedesMeans
  <2>4. Earlier(Flat(r), Flat(q)) \/ (Flat(r) = Flat(q) /\ q.verb = AnyVerb)
    BY <1>1, <2>1, PrecedesMeans
  <2>5. ~(Earlier(Flat(q), Flat(r)) \/ Earlier(Flat(r), Flat(q)))
    BY <2>2, <2>3, <2>4, EarlierOnce
  <2> QED BY <1>1, <2>1, <2>3, <2>4, <2>5, HeldOnce
<1>2. /\ found \subseteq C /\ (found = {} => C = {})
      /\ \A r \in found, q \in C : q # r => Precedes(r, q)
  BY DEF Winner
<1> QED BY <1>1, <1>2
-----------------------------------------------------------------------------
\* The empty pattern leads nowhere.
LEMMA EmptyReach ==
  ASSUME NEW path \in Seq(Chars)
  PROVE  Reach(<< >>, path) = 0
<1>1. << >> \in Seq(Symbols) /\ Len(<< >>) = 0
  OBVIOUS
<1>2. PICK F : ReachSteps(F, << >>, path)
  BY <1>1, ReachFolds
<1> QED BY <1>1, <1>2 DEF ReachSteps

\* What a search from the root comes to, before any character is looked at.
LEMMA FoundIs ==
  ASSUME NEW t, NEW L, IsTree(t, L), NEW rs \in SUBSET Routes, Holds(t, L, rs),
         NEW path \in Seq(Chars), NEW m
  PROVE  /\ Found(t, m, path) \subseteq Covering(rs, m, path)
         /\ Disjoint(t) => Winner(Covering(rs, m, path), Found(t, m, path))
<1> DEFINE f == Finds(t, m, path)
<1>1. 1 \in 1..Len(t) /\ Label(L, 1) = << >> /\ Len(path) \in Nat
  BY TreeIs
<1>2. << >> \in Seq(Symbols) /\ Len(<< >>) = 0
  OBVIOUS
<1>3. Reach(<< >>, path) = 0
  BY EmptyReach
<1>4. FindSteps(f, t, m, path)
  BY FindsExist
<1>5. Found(t, m, path) = At(f, 1, 0)
  BY DEF Found, At
<1>6. From(rs, m, path, << >>) = Covering(rs, m, path)
  <2>1. ASSUME NEW q \in Covering(rs, m, path) PROVE IsPrefix(<< >>, Flat(q))
    <3>1. q \in Routes
      BY DEF Covering
    <3>2. Flat(q) \in Seq(Symbols)
      BY <3>1, FlatIs
    <3>3. Len(<< >>) <= Len(Flat(q)) /\ \A i \in 1..Len(<< >>) : << >>[i] = Flat(q)[i]
      BY <3>2
    <3> QED BY <1>2, <3>2, <3>3, IsPrefixIf
  <2> QED BY <2>1 DEF From
<1> HIDE DEF f
<1>7. Right(t, L, rs, m, path, f, 1)
  BY <1>1, <1>4, RightEverywhere
<1>8. RightFrom(t, L, rs, m, path, 1, At(f, 1, 0))
  BY <1>1, <1>3, <1>7 DEF Right
<1> QED BY <1>1, <1>5, <1>6, <1>8 DEF RightFrom

\* A search finds what it should, in the trees the builder makes.
LEMMA TreeFinds == TreeInv => FindIsRight
<1> SUFFICES ASSUME TreeInv PROVE FindIsRight
  OBVIOUS
<1> DEFINE rs == ToSet(accepted)
<1>1. PICK L : IsTree(tree, L) /\ Holds(tree, L, rs)
  BY DEF TreeInv
<1>2. rs \in SUBSET Routes
  <2>1. accepted \in Seq(Routes)
    BY DEF TreeInv
  <2> QED BY <2>1 DEF ToSet
<1> HIDE DEF rs
<1>3. ASSUME NEW m \in Methods, NEW p \in Paths
      PROVE  FindIsSound(m, p) /\ (Disjoint(tree) => FindIsBest(m, p))
  <2>1. p \in Seq(Chars)
    BY RoutesAssumption DEF RoutesAssumption
  <2>2. Covering(rs, m, p) = Candidates(m, p)
    BY DEF Covering, Candidates, rs
  <2>3. /\ Found(tree, m, p) \subseteq Covering(rs, m, p)
        /\ Disjoint(tree) => Winner(Covering(rs, m, p), Found(tree, m, p))
    BY <1>1, <1>2, <2>1, FoundIs
  <2>4. Covering(rs, m, p) \in SUBSET rs
    BY DEF Covering
  <2>5. ASSUME Disjoint(tree) PROVE FindIsBest(m, p)
    <3> DEFINE C == Covering(rs, m, p)
               found == Found(tree, m, p)
    <3>1. Winner(C, found) /\ C \in SUBSET rs
      BY <2>3, <2>4, <2>5
    <3> HIDE DEF C, found
    <3>2. found = {r \in C : \A q \in C \ {r} : Precedes(r, q)}
      BY <1>1, <1>2, <2>5, <3>1, WinnerIsBest
    <3> QED BY <2>2, <3>2 DEF FindIsBest, Best, C, found
  <2> QED BY <2>2, <2>3, <2>5 DEF FindIsSound
<1> QED BY <1>3 DEF FindIsRight

\* Whatever routes are served, before and after optimize, a search finds no route
\* that was not served, is for another method or does not cover the path; and as
\* long as siblings are disjoint it finds the best one if there is one.
THEOREM FindsTheBest == Spec => []FindIsRight
BY TreeAlways, TreeFinds, PTL
-----------------------------------------------------------------------------
(* The matcher: places of the path after each character and each token.    *)

PlacesIn(path) == SUBSET (0..Len(path))

\* A character leads from places of the path to places of the path.
LEMMA PlacesType ==
  ASSUME NEW path \in Seq(Chars), NEW text, NEW j, NEW places \in PlacesIn(path)
  PROVE  PlacesAfter(text, j, places, path) \in PlacesIn(path)
<1> DEFINE N == Len(path)
<1>1. N \in Nat /\ places \subseteq 0..N
  BY DEF PlacesIn
<1>2. \A k \in places : Fits(text[j], path, k) => k + 1 \in 0..N
  BY <1>1 DEF Fits
<1>3. PlacesAfter(text, j, places, path) \subseteq 0..N
  BY <1>2 DEF PlacesAfter
<1> QED BY <1>3 DEF PlacesIn

\* The places after each of the characters of a text.
EndsSteps(F, text, path, k) ==
  /\ F[0] = {k} /\ Ends(text, path, k) = F[Len(text)]
  /\ \A j \in 0..Len(text) : F[j] \in PlacesIn(path)
  /\ \A j \in 1..Len(text) : F[j] = PlacesAfter(text, j, F[j - 1], path)

\* A text leads from some places to others, character by character.
LEMMA EndsFolds ==
  ASSUME NEW path \in Seq(Chars), NEW text \in Seq(Chars), NEW k \in 0..Len(path)
  PROVE  \E F : EndsSteps(F, text, path, k)
<1> DEFINE n == Len(text)
           X == PlacesIn(path)
           G == [j \in 1..n |-> [p \in X |-> PlacesAfter(text, j, p, path)]]
           I == [j \in DOMAIN text |-> j]
<1>1. n \in Nat /\ DOMAIN text = 1..n /\ DOMAIN I = 1..n /\ \A j \in 1..n : I[j] = j
  OBVIOUS
<1>2. G \in [1..n -> [X -> X]]
  <2>1. ASSUME NEW j \in 1..n, NEW p \in X PROVE PlacesAfter(text, j, p, path) \in X
    BY PlacesType
  <2> HIDE DEF n, X
  <2> QED BY <2>1
<1> DEFINE Folds(f) == f = [u \in SUBSET (1..n) |->
                              IF u = {} THEN {k}
                              ELSE PlacesAfter(text, I[Max(u)], f[u \ {Max(u)}], path)]
<1>3. \E f : Folds(f)
  <2>0. {k} \in X
    BY DEF PlacesIn
  <2>1. n \in Nat
    BY <1>1
  <2> HIDE DEF G, n, X, I
  <2>2. PICK f : IsFold(f, X, {k}, n, G)
    BY <1>2, <2>0, <2>1, FoldExists
  <2>3. /\ f \in [SUBSET (1..n) -> X]
        /\ \A u \in SUBSET (1..n) :
             /\ u # {} => Max(u) \in u
             /\ f[u] = IF u = {} THEN {k} ELSE G[Max(u)][f[u \ {Max(u)}]]
    BY <2>2 DEF IsFold
  <2>4. ASSUME NEW u \in SUBSET (1..n), u # {}
        PROVE  G[Max(u)][f[u \ {Max(u)}]] = PlacesAfter(text, I[Max(u)], f[u \ {Max(u)}], path)
    <3>1. Max(u) \in 1..n /\ f[u \ {Max(u)}] \in X
      BY <2>3, <2>4
    <3> DEFINE x == Max(u)
               y == f[u \ {Max(u)}]
    <3> HIDE DEF x, y
    <3>2. G[x][y] = PlacesAfter(text, I[x], y, path)
      BY <1>1, <3>1 DEF G, x, y
    <3> QED BY <3>2 DEF x, y
  <2>5. Folds(f)
    BY <2>3, <2>4
  <2> QED BY <2>5
<1> DEFINE h == CHOOSE f : Folds(f)
<1>4. Ends(text, path, k) = h[1..n]
  <2> HIDE DEF n
  <2>1. Ends(text, path, k) = h[DOMAIN I]
    BY <1>1 DEF Ends, FoldLeft, MapThenFoldSet
  <2> QED BY <1>1, <2>1
<1>5. Folds(h)
  <2> HIDE DEF Folds
  <2> QED BY <1>3
<1> DEFINE F == [j \in 0..n |-> h[1..j]]
<1> HIDE DEF n, h, G
<1>6. F[0] = {k} /\ Ends(text, path, k) = F[n]
  <2>1. 0 \in 0..n /\ n \in 0..n /\ 1..0 = {} /\ 1..0 \in SUBSET (1..n)
    BY <1>1
  <2>2. h[1..0] = {k}
    BY <1>5, <2>1
  <2> QED BY <1>4, <2>1, <2>2
<1>7. ASSUME NEW j \in 1..n PROVE F[j] = PlacesAfter(text, j, F[j - 1], path)
  <2> DEFINE u == 1..j
  <2>1. j \in Nat /\ j # 0 /\ u \in SUBSET (1..n) /\ j - 1 \in 0..n /\ j \in 0..n
    BY <1>1
  <2>2. Max(u) = j /\ u \ {j} = 1..(j - 1) /\ u # {}
    BY <2>1, MaxUpTo
  <2>3. h[u] = PlacesAfter(text, j, h[u \ {j}], path)
    <3> HIDE DEF u, I
    <3>1. h[u] = IF u = {} THEN {k} ELSE PlacesAfter(text, I[Max(u)], h[u \ {Max(u)}], path)
      BY <1>5, <2>1
    <3>2. I[j] = j
      BY <1>1
    <3> QED BY <2>2, <3>1, <3>2
  <2>4. F[j] = h[1..j] /\ F[j - 1] = h[1..(j - 1)]
    BY <2>1
  <2> HIDE DEF F
  <2> QED BY <2>2, <2>3, <2>4
<1> HIDE DEF F
<1>8. \A j \in 0..n : F[j] \in X
  <2> DEFINE P == {j \in Nat : F[j] \in X}
  <2>1. 0 \in P
    BY <1>6 DEF PlacesIn
  <2>2. ASSUME NEW j \in 0..(n - 1), j \in P PROVE j + 1 \in P
    <3>1. j + 1 \in Nat /\ j + 1 \in 1..n /\ (j + 1) - 1 = j /\ F[j] \in X
      BY <1>1, <2>2
    <3>2. F[j + 1] = PlacesAfter(text, j + 1, F[j], path)
      BY <1>7, <3>1
    <3> HIDE DEF X
    <3>3. F[j + 1] \in X
      BY <3>1, <3>2, PlacesType DEF X
    <3> QED BY <3>1, <3>3
  <2> HIDE DEF P
  <2>3. \A j \in 0..(n - 1) : j \in P => j + 1 \in P
    BY <2>2
  <2>4. \A j \in 0..n : j \in P
    BY <1>1, <2>1, <2>3, SetInduction
  <2> QED BY <2>4 DEF P
<1>9. EndsSteps(F, text, path, k)
  BY <1>6, <1>7, <1>8 DEF n, EndsSteps
<1> QED BY <1>9

\* A text that is on the path, and has no "+", matches there.
LEMMA TextMatches ==
  ASSUME NEW path \in Seq(Chars), NEW text \in Seq(Chars), NEW k \in 0..Len(path),
         IsPrefix(text, Rest(path, k)), \A j \in 1..Len(text) : text[j] # "+"
  PROVE  k + Len(text) \in Ends(text, path, k)
<1> DEFINE N == Len(path)
           n == Len(text)
           rest == Rest(path, k)
<1>1. N \in Nat /\ n \in Nat /\ k \in 0..N
  OBVIOUS
<1>2. rest \in Seq(Chars) /\ Len(rest) = N - k /\ \A i \in 1..(N - k) : rest[i] = path[k + i]
  BY <1>1, RestIs
<1>3. n <= Len(rest) /\ \A i \in 1..n : text[i] = rest[i]
  BY <1>2, PrefixMeans
<1>4. PICK F : EndsSteps(F, text, path, k)
  BY EndsFolds
<1>5. /\ F[0] = {k} /\ Ends(text, path, k) = F[n]
      /\ \A j \in 1..n : F[j] = PlacesAfter(text, j, F[j - 1], path)
  BY <1>4, Zenon DEF EndsSteps
<1> HIDE DEF N, n, rest
<1> DEFINE P == {j \in Nat : k + j \in F[j]}
<1>6. 0 \in P
  BY <1>1, <1>5
<1>7. ASSUME NEW j \in 0..(n - 1), j \in P PROVE j + 1 \in P
  <2>1. j + 1 \in Nat /\ j + 1 \in 1..n /\ (j + 1) - 1 = j /\ k + j \in F[j] /\ k + j < N
        /\ j + 1 \in 1..(N - k) /\ k + (j + 1) = (k + j) + 1 /\ k + j \in Nat
    BY <1>1, <1>2, <1>3, <1>7
  <2>2. text[j + 1] = path[(k + j) + 1] /\ text[j + 1] # "+"
    BY <1>2, <1>3, <2>1 DEF n
  <2>3. Fits(text[j + 1], path, k + j)
    BY <2>1, <2>2 DEF Fits, N
  <2>4. F[j + 1] = PlacesAfter(text, j + 1, F[j], path)
    BY <1>5, <2>1
  <2> DEFINE i == j + 1
             x == k + j
             places == F[j]
  <2>5. text[i] # "+" /\ Fits(text[i], path, x) /\ x \in places
    BY <2>1, <2>2, <2>3
  <2> HIDE DEF i, x, places
  <2>6. x + 1 \in PlacesAfter(text, i, places, path)
    BY <2>5 DEF PlacesAfter
  <2>7. k + (j + 1) \in F[j + 1]
    BY <2>1, <2>4, <2>6 DEF i, x, places
  <2> QED BY <2>1, <2>7
<1>8. n \in P
  <2> HIDE DEF P
  <2>1. \A j \in 0..(n - 1) : j \in P => j + 1 \in P
    BY <1>7
  <2>2. \A j \in 0..n : j \in P
    BY <1>1, <1>6, <2>1, SetInduction
  <2> QED BY <1>1, <2>2
<1> QED BY <1>5, <1>8 DEF n

\* A token leads from a place of the path to places of the path.
LEMMA MatchTokenType ==
  ASSUME NEW path \in Seq(Chars), NEW k \in 0..Len(path), NEW token,
         token.kind \in Kinds, token.text \in Seq(Chars)
  PROVE  MatchToken(token, path, k) \in PlacesIn(path)
<1> DEFINE N == Len(path)
           M == MatchToken(token, path, k)
<1>1. N \in Nat /\ k \in 0..N
  OBVIOUS
<1>2. CASE token.kind = "static"
  <2>1. M = Ends(token.text, path, k)
    BY <1>2 DEF MatchToken
  <2>2. PICK F : EndsSteps(F, token.text, path, k)
    BY EndsFolds
  <2>3. /\ Ends(token.text, path, k) = F[Len(token.text)]
        /\ \A j \in 0..Len(token.text) : F[j] \in PlacesIn(path)
    BY <2>2, Zenon DEF EndsSteps
  <2>4. Len(token.text) \in 0..Len(token.text)
    OBVIOUS
  <2> QED BY <2>1, <2>3, <2>4
<1>3. CASE token.kind = "param"
  <2> DEFINE e == SegmentEnd(path, k)
  <2>1. M \subseteq {j \in {e} : k < j}
    BY <1>3 DEF MatchToken
  <2>2. CASE k < N
    <3>1. e \in 0..N
      <4>1. e \in k..N
        BY <1>1, <2>2, SegmentEndIs
      <4> HIDE DEF e, N
      <4> QED BY <1>1, <4>1
    <3> HIDE DEF e, M
    <3> QED BY <2>1, <3>1 DEF PlacesIn, M
  <2>3. CASE k = N
    <3>1. Slashes(path, k) = {}
      <4>1. Slashes(path, k) \subseteq (k + 1)..N
        BY DEF Slashes
      <4> QED BY <1>1, <2>3, <4>1
    <3>2. e = N
      BY <3>1 DEF SegmentEnd
    <3> HIDE DEF e, M
    <3>3. M = {}
      BY <1>1, <2>1, <2>3, <3>2
    <3> QED BY <3>3 DEF PlacesIn, M
  <2> QED BY <1>1, <2>2, <2>3
<1>4. CASE token.kind = "wildcard"
  BY <1>1, <1>4 DEF MatchToken, PlacesIn
<1> QED BY <1>2, <1>3, <1>4 DEF Kinds

\* The places after each of the tokens.
Onward(token, places, path) == UNION {MatchToken(token, path, k) : k \in places}
MatchSteps(F, tokens, path) ==
  /\ F[0] = {0} /\ (Len(path) \in F[Len(tokens)] => Match(tokens, path))
  /\ \A j \in 1..Len(tokens) : F[j] = Onward(tokens[j], F[j - 1], path)

\* A pattern leads from some places to others, token by token.
LEMMA MatchFolds ==
  ASSUME NEW path \in Seq(Chars), NEW r \in Routes
  PROVE  \E F : MatchSteps(F, r.tokens, path)
<1> DEFINE tokens == r.tokens
           n == Len(tokens)
           X == PlacesIn(path)
           G == [j \in 1..n |-> [p \in X |-> Onward(tokens[j], p, path)]]
<1>1. /\ n \in Nat /\ DOMAIN tokens = 1..n
      /\ \A j \in 1..n : tokens[j].kind \in Kinds /\ tokens[j].text \in Seq(Chars)
  BY TokensAre
<1> HIDE DEF tokens
<1>2. G \in [1..n -> [X -> X]]
  <2>1. ASSUME NEW j \in 1..n, NEW p \in X PROVE Onward(tokens[j], p, path) \in X
    <3> DEFINE token == tokens[j]
    <3>1. token.kind \in Kinds /\ token.text \in Seq(Chars)
      BY <1>1
    <3> HIDE DEF token
    <3>2. \A k \in p : k \in 0..Len(path)
      BY DEF PlacesIn
    <3>3. \A k \in p : MatchToken(token, path, k) \in X
      BY <3>1, <3>2, MatchTokenType
    <3>4. Onward(token, p, path) \in X
      BY <3>3 DEF Onward, PlacesIn
    <3> QED BY <3>4 DEF token
  <2> HIDE DEF n, X
  <2> QED BY <2>1
<1> DEFINE Folds(f) == f = [u \in SUBSET (1..n) |->
                              IF u = {} THEN {0}
                              ELSE Onward(tokens[Max(u)], f[u \ {Max(u)}], path)]
<1>3. \E f : Folds(f)
  <2>0. {0} \in X
    BY DEF PlacesIn
  <2>1. n \in Nat
    BY <1>1
  <2> HIDE DEF G, n, X
  <2>2. PICK f : IsFold(f, X, {0}, n, G)
    BY <1>2, <2>0, <2>1, FoldExists
  <2>3. /\ f \in [SUBSET (1..n) -> X]
        /\ \A u \in SUBSET (1..n) :
             /\ u # {} => Max(u) \in u
             /\ f[u] = IF u = {} THEN {0} ELSE G[Max(u)][f[u \ {Max(u)}]]
    BY <2>2 DEF IsFold
  <2>4. ASSUME NEW u \in SUBSET (1..n), u # {}
        PROVE  G[Max(u)][f[u \ {Max(u)}]] = Onward(tokens[Max(u)], f[u \ {Max(u)}], path)
    <3>1. Max(u) \in 1..n /\ f[u \ {Max(u)}] \in X
      BY <2>3, <2>4
    <3> DEFINE x == Max(u)
               y == f[u \ {Max(u)}]
    <3> HIDE DEF x, y
    <3>2. G[x][y] = Onward(tokens[x], y, path)
      BY <3>1 DEF G, x, y
    <3> QED BY <3>2 DEF x, y
  <2>5. Folds(f)
    BY <2>3, <2>4
  <2> QED BY <2>5
<1> DEFINE h == CHOOSE f : Folds(f)
<1>4. Match(tokens, path) <=> Len(path) \in h[1..n]
  <2> HIDE DEF n
  <2>1. Match(tokens, path) <=> Len(path) \in h[DOMAIN tokens]
    BY <1>1 DEF Match, FoldLeft, MapThenFoldSet, Onward
  <2> QED BY <1>1, <2>1
<1>5. Folds(h)
  <2> HIDE DEF Folds
  <2> QED BY <1>3
<1> DEFINE F == [j \in 0..n |-> h[1..j]]
<1> HIDE DEF n, h, G
<1>6. F[0] = {0} /\ (Len(path) \in F[n] => Match(tokens, path))
  <2>1. 0 \in 0..n /\ n \in 0..n /\ 1..0 = {} /\ 1..0 \in SUBSET (1..n)
    BY <1>1
  <2>2. h[1..0] = {0}
    BY <1>5, <2>1
  <2> QED BY <1>4, <2>1, <2>2
<1>7. ASSUME NEW j \in 1..n PROVE F[j] = Onward(tokens[j], F[j - 1], path)
  <2> DEFINE u == 1..j
  <2>1. j \in Nat /\ j # 0 /\ u \in SUBSET (1..n) /\ j - 1 \in 0..n /\ j \in 0..n
    BY <1>1
  <2>2. Max(u) = j /\ u \ {j} = 1..(j - 1) /\ u # {}
    BY <2>1, MaxUpTo
  <2>3. h[u] = Onward(tokens[j], h[u \ {j}], path)
    <3> HIDE DEF u
    <3>1. h[u] = IF u = {} THEN {0} ELSE Onward(tokens[Max(u)], h[u \ {Max(u)}], path)
      BY <1>5, <2>1
    <3> QED BY <2>2, <3>1
  <2>4. F[j] = h[1..j] /\ F[j - 1] = h[1..(j - 1)]
    BY <2>1
  <2> HIDE DEF F
  <2> QED BY <2>2, <2>3, <2>4
<1> HIDE DEF F
<1>8. MatchSteps(F, tokens, path)
  BY <1>6, <1>7 DEF n, MatchSteps
<1> QED BY <1>8 DEF tokens
-----------------------------------------------------------------------------
\* A segment that does not begin with a slash is not empty.
LEMMA SegmentHolds ==
  ASSUME NEW path \in Seq(Chars), NEW k \in Nat, k < Len(path), path[k + 1] # "/"
  PROVE  k < SegmentEnd(path, k)
<1> DEFINE n == Len(path)
           T == Slashes(path, k)
           f == [y \in T |-> y]
<1>1. n \in Nat /\ T \subseteq (k + 1)..n /\ k + 1 \notin T
  BY DEF Slashes
<1>2. SegmentEnd(path, k) = IF T = {} THEN n ELSE (CHOOSE j \in T : \A i \in T : j <= i) - 1
  BY DEF SegmentEnd
<1>3. k < n
  OBVIOUS
<1> HIDE DEF n, T
<1>4. CASE T = {}
  BY <1>1, <1>2, <1>3, <1>4
<1>5. CASE T # {}
  <2>1. PICK x \in T : TRUE
    BY <1>5
  <2>2. \A y \in T : f[y] \in Nat
    BY <1>1
  <2>3. PICK z \in T : \A y \in T : f[z] <= f[y]
    <3> HIDE DEF f
    <3> QED BY <2>1, <2>2, Least
  <2>4. \A y \in T : z <= y
    BY <2>3
  <2> DEFINE j == CHOOSE j \in T : \A i \in T : j <= i
  <2>5. j \in T
    BY <2>4
  <2> HIDE DEF j
  <2>6. k < j - 1
    BY <1>1, <2>5
  <2>7. SegmentEnd(path, k) = j - 1
    BY <1>2, <1>5 DEF j
  <2> QED BY <2>6, <2>7
<1> QED BY <1>4, <1>5

\* Where a route's tokens lead on a path it covers.
Place(r, j, path) == Reach(FlatTo(r, j), path)

\* They lead to places of the path.
LEMMA PlaceIs ==
  ASSUME NEW path \in Seq(Chars), NEW r \in Routes, Reach(Flat(r), path) = Len(path),
         NEW j \in 0..Len(r.tokens)
  PROVE  /\ FlatTo(r, j) \in Seq(Symbols) /\ IsPrefix(FlatTo(r, j), Flat(r))
         /\ Place(r, j, path) \in 0..Len(path)
<1>1. FlatTo(r, j) \in Seq(Symbols) /\ Flat(r) \in Seq(Symbols)
  BY FlatIs
<1>2. IsPrefix(FlatTo(r, j), Flat(r))
  <2>1. Len(r.tokens) \in 0..Len(r.tokens)
    BY TokensAre
  <2>2. IsPrefix(FlatTo(r, j), FlatTo(r, Len(r.tokens)))
    BY <2>1, FlatToPrefix
  <2>3. FlatTo(r, Len(r.tokens)) = Flat(r)
    BY FlatIs
  <2> QED BY <2>2, <2>3
<1>3. Len(path) \in Nat /\ Len(path) <= Len(path)
  OBVIOUS
<1> DEFINE l == FlatTo(r, j)
<1> HIDE DEF l
<1>4. Reach(l, path) <= Len(path)
  BY <1>1, <1>2, <1>3, PrefixFits DEF l
<1>5. Reach(l, path) \in 0..(Len(path) + 1)
  BY <1>1, ReachType DEF l
<1>6. Reach(l, path) \in 0..Len(path)
  BY <1>3, <1>4, <1>5
<1> QED BY <1>1, <1>2, <1>6 DEF Place, l

\* A text of the route is on the path where the tokens before it lead.
LEMMA TextPlaced ==
  ASSUME NEW path \in Seq(Chars), NEW r \in Routes, Reach(Flat(r), path) = Len(path),
         NEW j \in 1..Len(r.tokens), r.tokens[j].kind = "static"
  PROVE  LET k == Place(r, j - 1, path)
             text == r.tokens[j].text
         IN /\ IsPrefix(text, Rest(path, k)) /\ Place(r, j, path) = k + Len(text)
            /\ \A i \in 1..Len(text) : text[i] \in ToSet(Flat(r))
<1> DEFINE l == FlatTo(r, j - 1)
           text == r.tokens[j].text
           k == Place(r, j - 1, path)
           s == FlatTo(r, j)
<1>1. j - 1 \in 0..Len(r.tokens) /\ j \in 0..Len(r.tokens) /\ Len(r.tokens) \in Nat
  BY TokensAre
<1>2. text \in Seq(Chars) /\ text \in Seq(Symbols)
  <2>1. text \in Seq(Chars)
    BY TokensAre
  <2> QED BY <2>1 DEF Symbols
<1>3. /\ l \in Seq(Symbols) /\ k \in 0..Len(path)
      /\ s \in Seq(Symbols) /\ IsPrefix(s, Flat(r)) /\ Place(r, j, path) \in 0..Len(path)
  BY <1>1, PlaceIs
<1>4. s = l \o text
  <2>1. s = l \o Piece(r, j)
    BY FlatIs
  <2>2. Piece(r, j) = text
    BY PieceIs
  <2> QED BY <2>1, <2>2
<1>5. k = Reach(l, path) /\ Place(r, j, path) = Reach(s, path)
  BY DEF Place
<1> HIDE DEF l, text, k, s
<1>6. Reach(l, path) <= Len(path) /\ Reach(s, path) <= Len(path)
  BY <1>3, <1>5
<1>7. /\ Reach(l \o text, path) <= Len(path) <=> IsPrefix(text, Rest(path, Reach(l, path)))
      /\ Reach(l \o text, path) <= Len(path) =>
           Reach(l \o text, path) = Reach(l, path) + Len(text)
  BY <1>2, <1>3, <1>6, ReachText
<1>8. IsPrefix(text, Rest(path, k)) /\ Place(r, j, path) = k + Len(text)
  BY <1>4, <1>5, <1>6, <1>7
<1>9. ASSUME NEW i \in 1..Len(text) PROVE text[i] \in ToSet(Flat(r))
  <2>1. Len(s) = Len(l) + Len(text) /\ \A x \in 1..Len(text) : s[Len(l) + x] = text[x]
    BY <1>2, <1>3, <1>4, ConcatIs
  <2>2. Len(l) + i \in 1..Len(s) /\ s[Len(l) + i] = text[i]
    BY <1>2, <1>3, <2>1
  <2> DEFINE y == Len(l) + i
             a == Flat(r)
  <2>3. y \in 1..Len(s) /\ a \in Seq(Symbols) /\ IsPrefix(s, a)
    BY <1>3, <2>2, FlatIs
  <2> HIDE DEF y, a
  <2>4. y \in 1..Len(a) /\ a[y] = s[y]
    BY <1>3, <2>3, SymbolAt
  <2>5. a[y] \in ToSet(a)
    BY <2>3, <2>4 DEF ToSet
  <2> QED BY <2>2, <2>4, <2>5 DEF y, a
<1> QED BY <1>8, <1>9 DEF k, text

\* Before a parameter the path has a slash.
LEMMA SlashBefore ==
  ASSUME NEW path \in Seq(Chars), NEW r \in Routes, Reach(Flat(r), path) = Len(path),
         NEW j \in 1..Len(r.tokens), r.tokens[j].kind = "param"
  PROVE  Place(r, j - 1, path) \in 1..Len(path) /\ path[Place(r, j - 1, path)] = "/"
<1> DEFINE i == j - 1
           text == r.tokens[i].text
           x == Place(r, i - 1, path)
           k == Place(r, i, path)
           n == Len(text)
<1>1. /\ i \in 1..Len(r.tokens) /\ i \in 0..Len(r.tokens) /\ i - 1 \in 0..Len(r.tokens)
      /\ r.tokens[i].kind = "static" /\ text # << >> /\ Last(text) = "/"
  BY TokensAre
<1>2. text \in Seq(Chars)
  BY <1>1, TokensAre
<1> HIDE DEF i
<1>3. IsPrefix(text, Rest(path, x)) /\ k = x + n
  BY <1>1, TextPlaced
<1>4. x \in 0..Len(path) /\ k \in 0..Len(path)
  BY <1>1, PlaceIs
<1> HIDE DEF x, k, text
<1>5. n \in Nat /\ n # 0 /\ n \in 1..n /\ text[n] = "/" /\ Len(path) \in Nat
  BY <1>1, <1>2 DEF Last
<1>6. /\ Rest(path, x) \in Seq(Chars) /\ Len(Rest(path, x)) = Len(path) - x
      /\ \A y \in 1..(Len(path) - x) : Rest(path, x)[y] = path[x + y]
  BY <1>4, RestIs
<1>7. n <= Len(Rest(path, x)) /\ \A y \in 1..n : text[y] = Rest(path, x)[y]
  BY <1>2, <1>3, <1>6, PrefixMeans
<1> HIDE DEF n
<1>8. n \in 1..(Len(path) - x)
  BY <1>4, <1>5, <1>6, <1>7
<1>9. path[x + n] = "/"
  BY <1>5, <1>6, <1>7, <1>8
<1>10. k \in 1..Len(path) /\ path[k] = "/"
  BY <1>3, <1>4, <1>5, <1>9
<1> QED BY <1>10 DEF k, i

\* What keeps the matcher from a path: an empty segment, a brace in the path, or
\* a "+" in the route.
Ordinary(path, r) ==
  /\ ~\E k \in 1..(Len(path) - 1) : path[k] = "/" /\ path[k + 1] = "/"
  /\ ToSet(path) \cap {"{", "}"} = {}
  /\ "+" \notin ToSet(Flat(r))

\* Each token matches from where the tokens before it lead to where it leads.
LEMMA TokenMatches ==
  ASSUME NEW path \in Seq(Chars), NEW r \in Routes, Reach(Flat(r), path) = Len(path),
         Ordinary(path, r), NEW j \in 1..Len(r.tokens)
  PROVE  Place(r, j, path) \in MatchToken(r.tokens[j], path, Place(r, j - 1, path))
<1> DEFINE token == r.tokens[j]
           l == FlatTo(r, j - 1)
           k == Place(r, j - 1, path)
           e == Place(r, j, path)
           N == Len(path)
<1>1. /\ j - 1 \in 0..Len(r.tokens) /\ j \in 0..Len(r.tokens)
      /\ token.kind \in Kinds /\ token.text \in Seq(Chars)
  BY TokensAre
<1>2. l \in Seq(Symbols) /\ k \in 0..N /\ e \in 0..N /\ N \in Nat
  BY <1>1, PlaceIs
<1>3. FlatTo(r, j) = l \o Piece(r, j) /\ e = Reach(FlatTo(r, j), path) /\ k = Reach(l, path)
  BY FlatIs DEF Place
<1>4. CASE token.kind = "static"
  <2>1. /\ IsPrefix(token.text, Rest(path, k)) /\ e = k + Len(token.text)
        /\ \A i \in 1..Len(token.text) : token.text[i] \in ToSet(Flat(r))
    BY <1>4, TextPlaced
  <2>2. "+" \notin ToSet(Flat(r))
    BY DEF Ordinary
  <2> HIDE DEF token, k, e
  <2>3. \A i \in 1..Len(token.text) : token.text[i] # "+"
    BY <2>1, <2>2
  <2>4. k + Len(token.text) \in Ends(token.text, path, k)
    BY <1>1, <1>2, <2>1, <2>3, TextMatches
  <2>5. e \in MatchToken(token, path, k)
    BY <1>4, <2>1, <2>4 DEF MatchToken
  <2> QED BY <2>5 DEF token, k, e
<1>5. CASE token.kind = "param"
  <2>1. k \in 1..N /\ path[k] = "/"
    BY <1>5, SlashBefore
  <2>2. e = Reached("param", k, path)
    <3>1. Piece(r, j) = <<"param">>
      BY <1>5, PieceIs
    <3>2. "param" \in Symbols
      BY DEF Symbols
    <3>3. Reach(l \o <<"param">>, path) = Reached("param", Reach(l, path), path)
      BY <1>2, <3>2, ReachNext
    <3> QED BY <1>3, <3>1, <3>3
  <2> HIDE DEF token, l, k, e
  <2>3. e = IF k < N THEN SegmentEnd(path, k) ELSE N + 1
    <3>1. k \in 0..(N + 1)
      BY <1>2
    <3> QED BY <2>2, <3>1, ReachedIs
  <2> HIDE DEF N
  <2>4. k < N /\ e = SegmentEnd(path, k) /\ k \in 1..(N - 1)
    BY <1>2, <2>1, <2>3
  <2>5. path[k + 1] # "/"
    BY <2>1, <2>4 DEF Ordinary, N
  <2>6. k < e
    BY <2>1, <2>4, <2>5, SegmentHolds DEF N
  <2>7. ToSet(SubSeq(path, k + 1, e)) \subseteq ToSet(path)
    <3> DEFINE s == SubSeq(path, k + 1, e)
    <3>1. Len(s) = e - k /\ \A i \in 1..Len(s) : s[i] = path[k + i]
      BY <1>2, <2>6 DEF N
    <3>2. \A i \in 1..Len(s) : k + i \in 1..N
      BY <1>2, <2>6, <3>1
    <3>3. \A i \in 1..Len(s) : s[i] \in ToSet(path)
      <4>1. \A x \in 1..N : path[x] \in ToSet(path)
        BY DEF ToSet, N
      <4> HIDE DEF s
      <4> QED BY <3>1, <3>2, <4>1
    <3>4. DOMAIN s = 1..Len(s)
      BY <1>2, <2>6 DEF N
    <3> HIDE DEF s
    <3>5. ToSet(s) \subseteq ToSet(path)
      BY <3>3, <3>4 DEF ToSet
    <3> QED BY <3>5 DEF s
  <2>8. ToSet(SubSeq(path, k + 1, e)) \cap {"{", "}"} = {}
    BY <2>7 DEF Ordinary
  <2>9. e \in MatchToken(token, path, k)
    BY <1>5, <2>4, <2>6, <2>8 DEF MatchToken
  <2> QED BY <2>9 DEF token, k, e
<1>6. CASE token.kind = "wildcard"
  <2>1. e = Reached("wildcard", k, path)
    <3>1. Piece(r, j) = <<"wildcard">>
      BY <1>6, PieceIs
    <3>2. "wildcard" \in Symbols
      BY DEF Symbols
    <3>3. Reach(l \o <<"wildcard">>, path) = Reached("wildcard", Reach(l, path), path)
      BY <1>2, <3>2, ReachNext
    <3> QED BY <1>3, <3>1, <3>3
  <2> HIDE DEF token, l, k, e
  <2>2. e = N
    <3>1. k \in 0..(N + 1) /\ k <= N
      BY <1>2
    <3> QED BY <2>1, <3>1, ReachedIs
  <2>3. e \in MatchToken(token, path, k)
    BY <1>6, <2>2 DEF MatchToken
  <2> QED BY <2>3 DEF token, k, e
<1> QED BY <1>1, <1>4, <1>5, <1>6 DEF Kinds

\* So the matcher of a route matches a path the route covers.
LEMMA RouteMatches ==
  ASSUME NEW path \in Seq(Chars), NEW r \in Routes, Reach(Flat(r), path) = Len(path),
         Ordinary(path, r)
  PROVE  Match(r.tokens, path)
<1> DEFINE n == Len(r.tokens)
           p(j) == Place(r, j, path)
<1>1. n \in Nat
  BY TokensAre
<1>2. PICK F : MatchSteps(F, r.tokens, path)
  BY MatchFolds
<1>3. /\ F[0] = {0} /\ (Len(path) \in F[n] => Match(r.tokens, path))
      /\ \A j \in 1..n : F[j] = Onward(r.tokens[j], F[j - 1], path)
  BY <1>2, Zenon DEF MatchSteps
<1>4. p(0) = 0 /\ p(n) = Len(path)
  <2>1. FlatTo(r, 0) = << >> /\ FlatTo(r, n) = Flat(r)
    BY FlatIs
  <2>2. Reach(<< >>, path) = 0
    BY EmptyReach
  <2> QED BY <2>1, <2>2 DEF Place
<1> DEFINE P == {j \in Nat : p(j) \in F[j]}
<1> HIDE DEF p
<1>5. 0 \in P
  BY <1>3, <1>4
<1>6. ASSUME NEW j \in 0..(n - 1), j \in P PROVE j + 1 \in P
  <2> DEFINE i == j + 1
  <2>1. i \in 1..n /\ i \in Nat /\ i - 1 = j /\ p(i - 1) \in F[i - 1]
    BY <1>1, <1>6
  <2> HIDE DEF i
  <2>2. p(i) \in MatchToken(r.tokens[i], path, p(i - 1))
    BY <2>1, TokenMatches DEF p
  <2>3. p(i) \in Onward(r.tokens[i], F[i - 1], path)
    BY <2>1, <2>2 DEF Onward
  <2>4. p(i) \in F[i]
    BY <1>3, <2>1, <2>3
  <2> QED BY <2>1, <2>4 DEF i
<1>7. n \in P
  <2> HIDE DEF P, n
  <2>1. \A j \in 0..(n - 1) : j \in P => j + 1 \in P
    BY <1>6
  <2>2. \A j \in 0..n : j \in P
    BY <1>1, <1>5, <2>1, SetInduction
  <2> QED BY <1>1, <2>2
<1> QED BY <1>3, <1>4, <1>7

\* And a route that was found covers the path.
LEMMA TreeMatches == TreeInv => MatcherAgrees
<1> SUFFICES ASSUME TreeInv, NEW m \in Methods, NEW p \in Paths, NEW r \in Found(tree, m, p),
                    Ordinary(p, r)
             PROVE  Match(r.tokens, p)
  <2>1. ASSUME TreeInv PROVE MatcherAgrees
    <3>1. ASSUME NEW m \in Methods, NEW p \in Paths, NEW r \in Found(tree, m, p)
          PROVE  \/ Match(r.tokens, p)
                 \/ \E k \in 1..(Len(p) - 1) : p[k] = "/" /\ p[k + 1] = "/"
                 \/ ToSet(p) \cap {"{", "}"} # {}
                 \/ ToSet(Flat(r)) \cap {"+"} # {}
      BY <2>1 DEF Ordinary
    <3> QED BY <3>1 DEF MatcherAgrees
  <2> QED BY <2>1
<1>1. FindIsRight
  BY TreeFinds
<1>2. r \in Candidates(m, p)
  BY <1>1 DEF FindIsRight, FindIsSound
<1>3. r \in ToSet(accepted) /\ Reach(Flat(r), p) = Len(p)
  BY <1>2 DEF Candidates
<1>4. accepted \in Seq(Routes)
  BY DEF TreeInv
<1>5. r \in Routes
  BY <1>3, <1>4 DEF ToSet
<1>6. p \in Seq(Chars)
  BY RoutesAssumption DEF RoutesAssumption
<1> QED BY <1>3, <1>5, <1>6, RouteMatches

\* The matcher of a route that a search finds matches the path, but for an empty
\* segment or a brace in the path or a "+" in the route: no other request ends
\* with bad_optional_access.
THEOREM FoundIsMatched == Spec => []MatcherAgrees
BY TreeAlways, TreeMatches, PTL
-----------------------------------------------------------------------------
(* The parser of patterns makes such routes.                               *)

Letters == Plain \cup {"/", "%"}
Token == [kind : Kinds, text : Seq(Letters)]
Parser == [kind : Kinds, token : Seq(Letters), tokens : Seq(Token), pct : Nat,
           slash : BOOLEAN, closed : BOOLEAN, bad : BOOLEAN]

\* Once it has given up, it stays a parser that has.
LEMMA BadIs ==
  ASSUME NEW p \in Parser
  PROVE  Bad(p) \in Parser /\ Bad(p).bad
BY DEF Bad, Parser

\* All but what is changed is as it was.
LEMMA ChangedIs ==
  ASSUME NEW p \in Parser
  PROVE  /\ \A n \in Nat : LET q == [p EXCEPT !.pct = n] IN
              /\ q \in Parser /\ q.kind = p.kind /\ q.token = p.token /\ q.tokens = p.tokens
              /\ q.slash = p.slash /\ q.closed = p.closed /\ q.bad = p.bad
         /\ \A b \in BOOLEAN : LET q == [p EXCEPT !.closed = b] IN
              /\ q \in Parser /\ q.kind = p.kind /\ q.token = p.token /\ q.tokens = p.tokens
              /\ q.slash = p.slash /\ q.bad = p.bad
BY DEF Parser

\* A character goes into the token.
LEMMA AdvanceIs ==
  ASSUME NEW p \in Parser, NEW c \in Letters
  PROVE  LET q == Advance(p, c) IN
         /\ q \in Parser /\ q.kind = p.kind /\ q.tokens = p.tokens /\ q.bad = p.bad
         /\ q.token = Append(p.token, c) /\ q.slash = (c = "/") /\ q.pct = p.pct
<1> DEFINE a == Append(p.token, c)
           b == (c = "/")
           q == [kind |-> p.kind, token |-> a, tokens |-> p.tokens, pct |-> p.pct,
                 slash |-> b, closed |-> FALSE, bad |-> p.bad]
<1>1. /\ p.kind \in Kinds /\ p.token \in Seq(Letters) /\ p.tokens \in Seq(Token)
      /\ p.pct \in Nat /\ p.bad \in BOOLEAN
      /\ p = [kind |-> p.kind, token |-> p.token, tokens |-> p.tokens, pct |-> p.pct,
              slash |-> p.slash, closed |-> p.closed, bad |-> p.bad]
  BY DEF Parser
<1>2. a \in Seq(Letters) /\ b \in BOOLEAN
  BY <1>1
<1>3. Advance(p, c) = [p EXCEPT !.token = a, !.slash = b, !.closed = FALSE]
  BY DEF Advance
<1> HIDE DEF a, b
<1>4. Advance(p, c) = q
  BY <1>1, <1>3
<1>5. q \in Parser
  BY <1>1, <1>2 DEF Parser
<1> QED BY <1>1, <1>4, <1>5 DEF a, b

\* A token goes behind the others, and an empty one of the kind given begins.
LEMMA PushIs ==
  ASSUME NEW p \in Parser, NEW kind \in Kinds
  PROVE  LET q == PushToken(p, kind) IN
         /\ q \in Parser /\ q.kind = kind /\ q.token = << >> /\ q.bad = p.bad /\ q.slash = FALSE
         /\ q.tokens = Append(p.tokens, [kind |-> p.kind, text |-> p.token])
<1> DEFINE x == Append(p.tokens, [kind |-> p.kind, text |-> p.token])
           q == [kind |-> kind, token |-> << >>, tokens |-> x, pct |-> p.pct,
                 slash |-> FALSE, closed |-> p.closed, bad |-> p.bad]
<1>1. /\ p.kind \in Kinds /\ p.token \in Seq(Letters) /\ p.tokens \in Seq(Token)
      /\ p.pct \in Nat /\ p.bad \in BOOLEAN /\ p.closed \in BOOLEAN
      /\ p = [kind |-> p.kind, token |-> p.token, tokens |-> p.tokens, pct |-> p.pct,
              slash |-> p.slash, closed |-> p.closed, bad |-> p.bad]
  BY DEF Parser
<1>2. x \in Seq(Token)
  <2>1. [kind |-> p.kind, text |-> p.token] \in Token
    BY <1>1 DEF Token
  <2> QED BY <1>1, <2>1
<1>3. PushToken(p, kind)
        = [p EXCEPT !.tokens = x, !.token = << >>, !.kind = kind, !.slash = FALSE]
  BY DEF PushToken
<1> HIDE DEF x
<1>4. PushToken(p, kind) = q
  BY <1>1, <1>3
<1>5. q \in Parser
  BY <1>1, <1>2 DEF Parser
<1> QED BY <1>1, <1>4, <1>5 DEF x

\* The characters that mark a name.
LeftBrace == "{"
RightBrace == "}"
Hash == "#"
Marked == Letters \cup {LeftBrace, RightBrace, Hash}

\* What is written of a token, when it is read and while it is.
Shown(kind, token) == CASE kind = "static" -> token
                        [] kind = "param" -> <<LeftBrace>> \o token \o <<RightBrace>>
                        [] kind = "wildcard" -> <<Hash>> \o token
Begun(kind, token) == CASE kind = "static" -> token
                        [] kind = "param" -> <<LeftBrace>> \o token
                        [] kind = "wildcard" -> <<Hash>> \o token

\* What is shown of a token is what is shown of it while it is read, and for a
\* parameter the brace that ends it.
LEMMA ShownIs ==
  ASSUME NEW token \in Seq(Letters)
  PROVE  /\ token \in Seq(Marked)
         /\ \A kind \in Kinds : /\ Shown(kind, token) \in Seq(Marked)
                                /\ Begun(kind, token) \in Seq(Marked)
         /\ Shown("static", token) = token /\ Begun("static", token) = token
         /\ Begun("static", << >>) = << >>
         /\ Shown("param", token) = Begun("param", token) \o <<RightBrace>>
         /\ Shown("wildcard", token) = Begun("wildcard", token)
         /\ Begun("param", << >>) = <<LeftBrace>> /\ Begun("wildcard", << >>) = <<Hash>>
<1>1. token \in Seq(Marked) /\ \A c \in {LeftBrace, RightBrace, Hash} : <<c>> \in Seq(Marked)
  BY DEF Marked
<1>2. \A a, b \in Seq(Marked) : a \o b \in Seq(Marked)
  OBVIOUS
<1>3. \A a \in Seq(Marked) : a \o << >> = a
  OBVIOUS
<1>4. /\ Shown("static", token) = token /\ Begun("static", token) = token
      /\ Shown("param", token) = <<LeftBrace>> \o token \o <<RightBrace>>
      /\ Begun("param", token) = <<LeftBrace>> \o token
      /\ Shown("wildcard", token) = <<Hash>> \o token /\ Begun("wildcard", token) = <<Hash>> \o token
      /\ Begun("static", << >>) = << >> /\ Begun("param", << >>) = <<LeftBrace>> \o << >>
      /\ Begun("wildcard", << >>) = <<Hash>> \o << >>
  BY DEF Shown, Begun
<1>5. \A kind \in Kinds : kind \in {"static", "param", "wildcard"}
  BY DEF Kinds
<1> DEFINE l == <<LeftBrace>>
           r == <<RightBrace>>
           h == <<Hash>>
<1>6. l \in Seq(Marked) /\ r \in Seq(Marked) /\ h \in Seq(Marked) /\ token \in Seq(Marked)
  BY <1>1
<1> HIDE DEF l, r, h
<1>7. /\ l \o token \in Seq(Marked) /\ (l \o token) \o r \in Seq(Marked)
      /\ h \o token \in Seq(Marked) /\ l \o << >> = l /\ h \o << >> = h
  BY <1>2, <1>3, <1>6
<1>8. /\ Shown("param", token) = (l \o token) \o r /\ Begun("param", token) = l \o token
      /\ Shown("wildcard", token) = h \o token /\ Begun("wildcard", token) = h \o token
      /\ Begun("param", << >>) = l \o << >> /\ Begun("wildcard", << >>) = h \o << >>
  BY <1>4 DEF l, r, h
<1>9. \A kind \in Kinds : Shown(kind, token) \in Seq(Marked) /\ Begun(kind, token) \in Seq(Marked)
  <2>1. \A kind \in {"static", "param", "wildcard"} :
          Shown(kind, token) \in Seq(Marked) /\ Begun(kind, token) \in Seq(Marked)
    BY <1>4, <1>6, <1>7, <1>8
  <2> QED BY <1>5, <2>1
<1>10. /\ Shown("param", token) = Begun("param", token) \o <<RightBrace>>
       /\ Shown("wildcard", token) = Begun("wildcard", token)
       /\ Begun("param", << >>) = <<LeftBrace>> /\ Begun("wildcard", << >>) = <<Hash>>
  BY <1>7, <1>8, Zenon DEF l, r, h
<1> QED BY <1>1, <1>4, <1>9, <1>10, Zenon

\* A token more is written behind the others.
LEMMA WrittenNext ==
  ASSUME NEW tokens \in Seq(Token), NEW x \in Token
  PROVE  /\ Written(tokens) \in Seq(Marked)
         /\ Written(Append(tokens, x)) = Written(tokens) \o Shown(x.kind, x.text)
<1> DEFINE n == Len(tokens)
           all == Append(tokens, x)
           piece(t) == Shown(t.kind, t.text)
           old == [k \in 1..n |-> piece(tokens[k])]
           new == [k \in 1..(n + 1) |-> piece(all[k])]
<1>1. /\ n \in Nat /\ DOMAIN tokens = 1..n /\ DOMAIN all = 1..(n + 1) /\ all[n + 1] = x
      /\ \A k \in 1..n : all[k] = tokens[k] /\ tokens[k] \in Token
  OBVIOUS
<1>2. \A t \in Token : piece(t) \in Seq(Marked)
  BY ShownIs DEF Token
<1>3. Written(tokens) = FlattenSeq(old) /\ Written(all) = FlattenSeq(new)
  BY <1>1 DEF Written, Shown, LeftBrace, RightBrace, Hash
<1> HIDE DEF n, all, piece
<1>4. old \in Seq(Seq(Marked)) /\ new \in Seq(Seq(Marked)) /\ Len(new) = n + 1 /\ Len(old) = n
  <2>1. \A k \in 1..n : piece(tokens[k]) \in Seq(Marked)
    BY <1>1, <1>2
  <2>2. \A k \in 1..(n + 1) : piece(all[k]) \in Seq(Marked)
    BY <1>1, <1>2
  <2>3. n + 1 \in Nat
    BY <1>1
  <2> DEFINE f == [k \in 1..n |-> piece(tokens[k])]
             g == [k \in 1..(n + 1) |-> piece(all[k])]
  <2>4. f \in Seq(Seq(Marked)) /\ Len(f) = n
    BY <1>1, <2>1
  <2>5. g \in Seq(Seq(Marked)) /\ Len(g) = n + 1
    BY <2>2, <2>3
  <2> QED BY <2>4, <2>5
<1>5. SubSeq(new, 1, n) = old /\ SubSeq(new, 1, n + 1) = new /\ new[n + 1] = piece(x)
  <2>1. \A k \in 1..n : new[k] = old[k]
    BY <1>1
  <2>2. new[n + 1] = piece(x)
    BY <1>1
  <2> HIDE DEF old, new
  <2>3. SubSeq(new, 1, n) = old /\ SubSeq(new, 1, n + 1) = new
    BY <1>1, <1>4, <2>1
  <2> QED BY <2>2, <2>3
<1> HIDE DEF old, new
<1>6. FlattenSeq(SubSeq(new, 1, n + 1)) = FlattenSeq(SubSeq(new, 1, (n + 1) - 1)) \o new[n + 1]
  <2>1. n + 1 \in 1..Len(new)
    BY <1>1, <1>4
  <2> QED BY <1>4, <2>1, FlattenNext
<1>7. (n + 1) - 1 = n
  BY <1>1
<1>8. Written(all) = Written(tokens) \o piece(x)
  BY <1>3, <1>5, <1>6, <1>7
<1>9. Written(tokens) \in Seq(Marked)
  BY <1>3, <1>4, FlattenType
<1> QED BY <1>8, <1>9 DEF all, piece

\* What the parser has read, and what its tokens are like.
TextOf(p) == Written(p.tokens) \o Begun(p.kind, p.token)
AfterSlash(x) == x.kind = "static" /\ x.text # << >> /\ Last(x.text) = "/"
Line(tokens) ==
  \A k \in 1..Len(tokens) :
    /\ tokens[k].kind # "wildcard"
    /\ tokens[k].kind = "static" => k = 1 \/ tokens[k - 1].kind # "static"
    /\ tokens[k].kind = "param" => k > 1 /\ AfterSlash(tokens[k - 1])
Suits(tokens, kind) ==
  LET n == Len(tokens)
  IN /\ kind = "static" => n = 0 \/ tokens[n].kind # "static"
     /\ kind = "param" => n # 0 /\ AfterSlash(tokens[n])
Sane(p) ==
  /\ p \in Parser
  /\ p.bad \/ /\ Line(p.tokens) /\ Suits(p.tokens, p.kind)
              /\ p.kind = "static" /\ p.slash => p.token # << >> /\ Last(p.token) = "/"
Goes(p, c, q) == Sane(q) /\ (q.bad \/ (~p.bad /\ TextOf(q) = TextOf(p) \o <<c>>))

\* A line is longer by a token that fits.
LEMMA LineGrows ==
  ASSUME NEW tokens \in Seq(Token), NEW x \in Token, Line(tokens), Suits(tokens, x.kind)
  PROVE  /\ x.kind # "wildcard" => Line(Append(tokens, x))
         /\ x.kind = "param" => Suits(Append(tokens, x), "static")
         /\ AfterSlash(x) => Suits(Append(tokens, x), "param")
         /\ Suits(Append(tokens, x), "wildcard")
<1> DEFINE n == Len(tokens)
           all == Append(tokens, x)
<1>1. /\ n \in Nat /\ Len(all) = n + 1 /\ all[n + 1] = x
      /\ \A k \in 1..n : all[k] = tokens[k]
  OBVIOUS
<1>2. \A k \in 1..(n + 1) : k = n + 1 \/ (k \in 1..n /\ (k > 1 => k - 1 \in 1..n))
  BY <1>1
<1>3. n # 0 => n \in 1..n
  BY <1>1
<1> HIDE DEF n, all
<1>4. ASSUME x.kind # "wildcard" PROVE Line(all)
  <2>1. ASSUME NEW k \in 1..(n + 1)
        PROVE  /\ all[k].kind # "wildcard"
               /\ all[k].kind = "static" => k = 1 \/ all[k - 1].kind # "static"
               /\ all[k].kind = "param" => k > 1 /\ AfterSlash(all[k - 1])
    <3>1. CASE k \in 1..n
      <4>1. all[k] = tokens[k] /\ (k > 1 => all[k - 1] = tokens[k - 1]) /\ (k = 1 \/ k > 1)
        BY <1>1, <1>2, <3>1
      <4>2. /\ tokens[k].kind # "wildcard"
            /\ tokens[k].kind = "static" => k = 1 \/ tokens[k - 1].kind # "static"
            /\ tokens[k].kind = "param" => k > 1 /\ AfterSlash(tokens[k - 1])
        BY <3>1 DEF Line, n
      <4> QED BY <4>1, <4>2
    <3>2. CASE k = n + 1
      <4>1. all[k] = x /\ k - 1 = n /\ (n = 0 => k = 1) /\ (n # 0 => k > 1 /\ all[k - 1] = tokens[n])
        BY <1>1, <1>3, <3>2
      <4> QED BY <1>4, <4>1 DEF Suits, n
    <3> QED BY <1>2, <3>1, <3>2
  <2> QED BY <1>1, <2>1 DEF Line
<1>5. n + 1 # 0
  BY <1>1
<1>6. /\ x.kind = "param" => Suits(all, "static")
      /\ AfterSlash(x) => Suits(all, "param")
      /\ Suits(all, "wildcard")
  BY <1>1, <1>5 DEF Suits
<1> QED BY <1>4, <1>6 DEF all

\* What becomes of a character in a text, and in a name.
LEMMA StaticIs ==
  ASSUME NEW p \in Parser, NEW c, NEW wildcard \in BOOLEAN
  PROVE  \/ OnStatic(p, c, wildcard) = Bad(p)
         \/ c = LeftBrace /\ p.slash /\ OnStatic(p, c, wildcard) = PushToken(p, "param")
         \/ c = Hash /\ OnStatic(p, c, wildcard) = PushToken(p, "wildcard")
         \/ c \in Letters /\ OnStatic(p, c, wildcard) = Advance(p, c)
         \/ c \in Letters /\ OnStatic(p, c, wildcard) = [Advance(p, c) EXCEPT !.pct = 2]
<1>1. \/ OnPchar(p, c) = Bad(p)
      \/ c \in Letters /\ OnPchar(p, c) = Advance(p, c)
      \/ c \in Letters /\ OnPchar(p, c) = [Advance(p, c) EXCEPT !.pct = 2]
  BY DEF OnPchar, Letters
<1>2. \/ OnStatic(p, c, wildcard) = Bad(p)
      \/ c = LeftBrace /\ p.slash /\ OnStatic(p, c, wildcard) = PushToken(p, "param")
      \/ c = Hash /\ OnStatic(p, c, wildcard) = PushToken(p, "wildcard")
      \/ c = "/" /\ OnStatic(p, c, wildcard) = Advance(p, c)
      \/ OnStatic(p, c, wildcard) = OnPchar(p, c)
  BY Zenon DEF OnStatic, LeftBrace, Hash
<1>3. "/" \in Letters
  BY DEF Letters
<1> QED BY <1>1, <1>2, <1>3

\* A character of a parameter's name.
LEMMA ParamIs ==
  ASSUME NEW p \in Parser, NEW c
  PROVE  \/ c = RightBrace /\ OnParam(p, c) = [TryPush(p, "static") EXCEPT !.closed = TRUE]
         \/ OnParam(p, c) = OnPchar(p, c)
BY Zenon DEF OnParam, RightBrace

\* Any character on_pchar takes, in a text or a name.
LEMMA PcharIs ==
  ASSUME NEW p, NEW c
  PROVE  \/ OnPchar(p, c) = Bad(p)
         \/ c \in Letters /\ OnPchar(p, c) = Advance(p, c)
         \/ c \in Letters /\ OnPchar(p, c) = [Advance(p, c) EXCEPT !.pct = 2]
BY DEF OnPchar, Letters

\* Who gives up has nothing more to keep.
LEMMA BadGoes ==
  ASSUME NEW p \in Parser, NEW c
  PROVE  Goes(p, c, Bad(p))
BY BadIs DEF Goes, Sane

\* A character more of a token.
LEMMA AdvanceGoes ==
  ASSUME NEW p, Sane(p), ~p.bad, NEW c \in Letters
  PROVE  /\ Goes(p, c, Advance(p, c))
         /\ \A n \in Nat : Goes(p, c, [Advance(p, c) EXCEPT !.pct = n])
<1> DEFINE a == Advance(p, c)
<1>1. p \in Parser /\ Line(p.tokens) /\ Suits(p.tokens, p.kind)
  BY DEF Sane
<1>2. /\ a \in Parser /\ a.kind = p.kind /\ a.tokens = p.tokens /\ a.bad = p.bad
      /\ a.token = Append(p.token, c) /\ a.slash = (c = "/")
  BY <1>1, AdvanceIs
<1>3. p.token \in Seq(Letters) /\ p.tokens \in Seq(Token) /\ p.kind \in Kinds
  BY <1>1 DEF Parser
<1>4. Written(p.tokens) \in Seq(Marked)
  <2>1. [kind |-> "static", text |-> << >>] \in Token
    BY DEF Token, Kinds
  <2> QED BY <1>3, <2>1, WrittenNext
<1>5. Begun(p.kind, a.token) = Begun(p.kind, p.token) \o <<c>>
  <2>1. a.token = p.token \o <<c>>
    BY <1>2, <1>3
  <2>2. \A x \in Marked : <<x>> \o a.token = (<<x>> \o p.token) \o <<c>>
    <3>1. p.token \in Seq(Marked) /\ <<c>> \in Seq(Marked)
      BY <1>3 DEF Marked
    <3>2. \A x \in Marked : <<x>> \in Seq(Marked)
      OBVIOUS
    <3> DEFINE t == p.token
               d == <<c>>
    <3>3. a.token = t \o d /\ t \in Seq(Marked) /\ d \in Seq(Marked)
      BY <2>1, <3>1
    <3> HIDE DEF t, d, a
    <3>4. \A u \in Seq(Marked) : u \o (t \o d) = (u \o t) \o d
      BY <3>3, Regroup, SMTT(40)
    <3>5. \A x \in Marked : <<x>> \o a.token = (<<x>> \o t) \o d
      BY <3>2, <3>3, <3>4
    <3> QED BY <3>5 DEF t, d
  <2>3. LeftBrace \in Marked /\ Hash \in Marked /\ p.kind \in {"static", "param", "wildcard"}
    BY <1>3 DEF Marked, Kinds
  <2> QED BY <2>1, <2>2, <2>3 DEF Begun
<1>6. TextOf(p) \o <<c>> = Written(p.tokens) \o (Begun(p.kind, p.token) \o <<c>>)
  <2> DEFINE w == Written(p.tokens)
             b == Begun(p.kind, p.token)
  <2>1. w \in Seq(Marked) /\ b \in Seq(Marked) /\ <<c>> \in Seq(Marked)
    BY <1>3, <1>4, ShownIs DEF Marked
  <2> HIDE DEF w, b
  <2>2. (w \o b) \o <<c>> = w \o (b \o <<c>>)
    BY <2>1
  <2> QED BY <2>2 DEF w, b, TextOf
<1>7. a.slash => a.token # << >> /\ Last(a.token) = "/"
  <2> DEFINE t == p.token
             u == Append(t, c)
  <2>1. a.token = u /\ a.slash = (c = "/") /\ t \in Seq(Letters)
    BY <1>2, <1>3
  <2> HIDE DEF t, a
  <2>2. u # << >> /\ Last(u) = c
    BY <2>1 DEF Last
  <2> QED BY <2>1, <2>2
<1> HIDE DEF a
<1>8. ASSUME NEW q \in Parser, q.kind = a.kind, q.token = a.token, q.tokens = a.tokens,
             q.slash = a.slash, q.bad = a.bad
      PROVE  Goes(p, c, q)
  <2>1. Sane(q)
    BY <1>1, <1>2, <1>7, <1>8 DEF Sane
  <2>2. TextOf(q) = TextOf(p) \o <<c>>
    BY <1>2, <1>5, <1>6, <1>8 DEF TextOf
  <2> QED BY <2>1, <2>2 DEF Goes
<1>9. Goes(p, c, a)
  BY <1>2, <1>8
<1>10. ASSUME NEW n \in Nat PROVE Goes(p, c, [a EXCEPT !.pct = n])
  <2> DEFINE q == [a EXCEPT !.pct = n]
  <2>1. /\ q \in Parser /\ q.kind = a.kind /\ q.token = a.token /\ q.tokens = a.tokens
        /\ q.slash = a.slash /\ q.bad = a.bad
    BY <1>2, ChangedIs
  <2> HIDE DEF q
  <2>2. Goes(p, c, q)
    BY <1>8, <2>1
  <2> QED BY <2>2 DEF q
<1> QED BY <1>9, <1>10 DEF a

\* Three of them in a row, whichever two are joined first.
LEMMA MarkedRegroup == \A a, b, c \in Seq(Marked) : (a \o b) \o c = a \o (b \o c)
BY Regroup

\* A token ends, and another begins with a brace or "#", or behind a brace.
LEMMA PushGoes ==
  ASSUME NEW p, Sane(p), ~p.bad, NEW c \in Marked, NEW kind \in Kinds,
         NEW q \in Parser, q.kind = kind, q.token = << >>, ~q.bad, q.slash = FALSE,
         q.tokens = Append(p.tokens, [kind |-> p.kind, text |-> p.token]),
         \/ p.kind = "static" /\ kind = "param" /\ p.slash /\ c = LeftBrace
         \/ p.kind = "static" /\ kind = "wildcard" /\ c = Hash
         \/ p.kind = "param" /\ kind = "static" /\ c = RightBrace
  PROVE  Goes(p, c, q)
<1> DEFINE x == [kind |-> p.kind, text |-> p.token]
<1>1. /\ p \in Parser /\ Line(p.tokens) /\ Suits(p.tokens, p.kind)
      /\ p.kind = "static" /\ p.slash => p.token # << >> /\ Last(p.token) = "/"
  BY DEF Sane
<1>2. p.token \in Seq(Letters) /\ p.tokens \in Seq(Token) /\ p.kind \in Kinds
  BY <1>1 DEF Parser
<1>3. x \in Token /\ x.kind = p.kind /\ x.text = p.token
  BY <1>2 DEF Token
<1> HIDE DEF x
<1>4. q.tokens = Append(p.tokens, x)
  BY DEF x
<1>5. /\ x.kind # "wildcard" => Line(q.tokens)
      /\ x.kind = "param" => Suits(q.tokens, "static")
      /\ AfterSlash(x) => Suits(q.tokens, "param")
      /\ Suits(q.tokens, "wildcard")
  BY <1>1, <1>2, <1>3, <1>4, LineGrows
<1>6. Line(q.tokens) /\ Suits(q.tokens, kind)
  <2>1. p.kind = "static" /\ p.slash => AfterSlash(x)
    BY <1>1, <1>3 DEF AfterSlash
  <2> QED BY <1>3, <1>5, <2>1
<1>7. Sane(q)
  BY <1>6 DEF Sane
<1>8. TextOf(q) = TextOf(p) \o <<c>>
  <2> DEFINE w == Written(p.tokens)
             s == Shown(p.kind, p.token)
             b == Begun(p.kind, p.token)
             e == Begun(kind, << >>)
  <2>1. w \in Seq(Marked) /\ Written(q.tokens) = w \o s
    BY <1>2, <1>3, <1>4, WrittenNext
  <2>2. /\ s \in Seq(Marked) /\ b \in Seq(Marked) /\ e \in Seq(Marked) /\ <<c>> \in Seq(Marked)
    <3>1. << >> \in Seq(Letters)
      OBVIOUS
    <3>2. <<c>> \in Seq(Marked)
      OBVIOUS
    <3>3. s \in Seq(Marked) /\ b \in Seq(Marked)
      BY <1>2, ShownIs
    <3>4. e \in Seq(Marked)
      BY <3>1, ShownIs
    <3> QED BY <3>2, <3>3, <3>4
  <2>3. s \o e = b \o <<c>>
    <3>1. << >> \in Seq(Letters)
      OBVIOUS
    <3>2. CASE p.kind = "static"
      <4>1. s = b
        BY <1>2, <3>2, ShownIs
      <4>2. e = <<c>>
        BY <3>1, <3>2, ShownIs
      <4> QED BY <4>1, <4>2
    <3>3. CASE p.kind = "param"
      <4>1. s = b \o <<c>> /\ e = << >>
        BY <1>2, <3>1, <3>3, ShownIs
      <4> HIDE DEF s, e, b
      <4>2. s \o << >> = s
        BY <2>2
      <4> QED BY <4>1, <4>2
    <3> QED BY <3>2, <3>3
  <2>4. TextOf(q) = Written(q.tokens) \o e /\ TextOf(p) = w \o b
    BY DEF TextOf
  <2> HIDE DEF w, s, b, e
  <2> DEFINE d == <<c>>
  <2> HIDE DEF d
  <2>6. w \in Seq(Marked) /\ s \in Seq(Marked) /\ b \in Seq(Marked) /\ e \in Seq(Marked)
        /\ d \in Seq(Marked)
    BY <2>1, <2>2 DEF d
  <2>7. (w \o s) \o e = w \o (s \o e)
    BY <2>6, MarkedRegroup, SMTT(40)
  <2>8. (w \o b) \o d = w \o (b \o d)
    BY <2>6, MarkedRegroup, SMTT(40)
  <2>5. (w \o s) \o e = w \o (s \o e) /\ (w \o b) \o <<c>> = w \o (b \o <<c>>)
    BY <2>7, <2>8 DEF d
  <2> QED BY <2>1, <2>3, <2>4, <2>5
<1> QED BY <1>7, <1>8 DEF Goes

\* So the parser stays as it should, whatever it is given.
LEMMA ParserGoes ==
  ASSUME NEW p, Sane(p), NEW c, NEW wildcard \in BOOLEAN
  PROVE  Goes(p, c, OnRoot(p, c, wildcard))
<1>1. p \in Parser
  BY DEF Sane
<1>2. p.kind \in {"static", "param", "wildcard"} /\ p.pct \in Nat /\ p.bad \in BOOLEAN
      /\ p.token \in Seq(Letters) /\ p.tokens \in Seq(Token)
  BY <1>1 DEF Parser, Kinds
<1>3. Goes(p, c, Bad(p))
  BY <1>1, BadGoes
<1>4. CASE p.bad
  <2>1. OnRoot(p, c, wildcard) = p
    BY <1>4 DEF OnRoot
  <2> QED BY <1>4, <2>1 DEF Goes
<1>5. ASSUME ~p.bad PROVE Goes(p, c, OnPchar(p, c))
  <2>1. c \in Letters => Goes(p, c, Advance(p, c)) /\ Goes(p, c, [Advance(p, c) EXCEPT !.pct = 2])
    BY <1>5, AdvanceGoes
  <2> QED BY <1>3, <2>1, PcharIs
<1>6. CASE ~p.bad /\ p.pct > 0
  <2>1. OnRoot(p, c, wildcard) = OnPctEncoded(p, c)
    BY <1>2, <1>6 DEF OnRoot
  <2>2. CASE c \in Hex
    <3>1. c \in Letters
      BY <2>2, PatternAssumption DEF PatternAssumption, Letters
    <3>2. OnPctEncoded(p, c) = [Advance(p, c) EXCEPT !.pct = @ - 1]
      BY <2>2 DEF OnPctEncoded
    <3> DEFINE a == Advance(p, c)
               n == a.pct - 1
    <3>3. n \in Nat
      <4>1. a.pct = p.pct
        BY <1>1, <3>1, AdvanceIs
      <4> HIDE DEF a
      <4> QED BY <1>2, <1>6, <4>1
    <3>4. OnPctEncoded(p, c) = [a EXCEPT !.pct = n]
      BY <3>2
    <3> HIDE DEF n
    <3>5. Goes(p, c, [a EXCEPT !.pct = n])
      BY <1>6, <3>1, <3>3, AdvanceGoes
    <3> QED BY <2>1, <3>4, <3>5
  <2>3. CASE c \notin Hex
    BY <1>3, <2>1, <2>3 DEF OnPctEncoded
  <2> QED BY <2>2, <2>3
<1>7. CASE ~p.bad /\ ~(p.pct > 0) /\ p.kind = "static"
  <2>1. p.pct = 0
    BY <1>2, <1>7
  <2>2. OnRoot(p, c, wildcard) = OnStatic(p, c, wildcard)
    BY <1>7, <2>1 DEF OnRoot
  <2>3. c \in Letters => Goes(p, c, Advance(p, c)) /\ Goes(p, c, [Advance(p, c) EXCEPT !.pct = 2])
    BY <1>7, AdvanceGoes
  <2>4. ASSUME c = LeftBrace, p.slash PROVE Goes(p, c, PushToken(p, "param"))
    <3> DEFINE q == PushToken(p, "param")
    <3>1. "param" \in Kinds /\ c \in Marked
      BY <2>4 DEF Kinds, Marked
    <3>2. /\ q \in Parser /\ q.kind = "param" /\ q.token = << >> /\ q.bad = p.bad /\ q.slash = FALSE
          /\ q.tokens = Append(p.tokens, [kind |-> p.kind, text |-> p.token])
      BY <1>1, <3>1, PushIs
    <3> HIDE DEF q
    <3>3. Goes(p, c, q)
      BY <1>7, <2>4, <3>1, <3>2, PushGoes
    <3> QED BY <3>3 DEF q
  <2>5. ASSUME c = Hash PROVE Goes(p, c, PushToken(p, "wildcard"))
    <3> DEFINE q == PushToken(p, "wildcard")
    <3>1. "wildcard" \in Kinds /\ c \in Marked
      BY <2>5 DEF Kinds, Marked
    <3>2. /\ q \in Parser /\ q.kind = "wildcard" /\ q.token = << >> /\ q.bad = p.bad
          /\ q.slash = FALSE
          /\ q.tokens = Append(p.tokens, [kind |-> p.kind, text |-> p.token])
      BY <1>1, <3>1, PushIs
    <3> HIDE DEF q
    <3>3. Goes(p, c, q)
      BY <1>7, <2>5, <3>1, <3>2, PushGoes
    <3> QED BY <3>3 DEF q
  <2>6. \/ OnStatic(p, c, wildcard) = Bad(p)
        \/ c = LeftBrace /\ p.slash /\ OnStatic(p, c, wildcard) = PushToken(p, "param")
        \/ c = Hash /\ OnStatic(p, c, wildcard) = PushToken(p, "wildcard")
        \/ c \in Letters /\ OnStatic(p, c, wildcard) = Advance(p, c)
        \/ c \in Letters /\ OnStatic(p, c, wildcard) = [Advance(p, c) EXCEPT !.pct = 2]
    BY <1>1, StaticIs
  <2> QED BY <1>3, <2>2, <2>3, <2>4, <2>5, <2>6, Zenon
<1>8. CASE ~p.bad /\ ~(p.pct > 0) /\ p.kind = "param"
  <2>1. p.pct = 0
    BY <1>2, <1>8
  <2>2. OnRoot(p, c, wildcard) = OnParam(p, c)
    BY <1>8, <2>1 DEF OnRoot
  <2>3. ASSUME c = RightBrace PROVE Goes(p, c, [TryPush(p, "static") EXCEPT !.closed = TRUE])
    <3> DEFINE s == TryPush(p, "static")
               q == [s EXCEPT !.closed = TRUE]
    <3>1. "static" \in Kinds /\ c \in Marked /\ TRUE \in BOOLEAN
      BY <2>3 DEF Kinds, Marked
    <3>2. CASE s = Bad(p)
      <4>1. s \in Parser /\ s.bad
        BY <1>1, <3>2, BadIs
      <4> HIDE DEF s
      <4>2. q \in Parser /\ q.bad = s.bad
        BY <3>1, <4>1, ChangedIs
      <4> QED BY <4>1, <4>2 DEF Goes, Sane, s
    <3>3. CASE s = PushToken(p, "static")
      <4>1. /\ s \in Parser /\ s.kind = "static" /\ s.token = << >> /\ s.bad = p.bad
            /\ s.slash = FALSE
            /\ s.tokens = Append(p.tokens, [kind |-> p.kind, text |-> p.token])
        <5> DEFINE y == PushToken(p, "static")
        <5>1. /\ y \in Parser /\ y.kind = "static" /\ y.token = << >> /\ y.bad = p.bad
              /\ y.slash = FALSE
              /\ y.tokens = Append(p.tokens, [kind |-> p.kind, text |-> p.token])
          BY <1>1, <3>1, PushIs
        <5> HIDE DEF s, y
        <5>2. s = y
          BY <3>3 DEF y
        <5> QED BY <5>1, <5>2
      <4> HIDE DEF s
      <4>2. /\ q \in Parser /\ q.kind = s.kind /\ q.token = s.token /\ q.tokens = s.tokens
            /\ q.slash = s.slash /\ q.bad = s.bad
        BY <3>1, <4>1, ChangedIs
      <4> HIDE DEF q
      <4>3. Goes(p, c, q)
        BY <1>8, <2>3, <3>1, <4>1, <4>2, PushGoes
      <4> QED BY <4>3 DEF q, s
    <3> QED BY <3>2, <3>3 DEF TryPush
  <2> QED BY <1>5, <1>8, <2>2, <2>3, <1>1, ParamIs
<1>9. CASE ~p.bad /\ ~(p.pct > 0) /\ p.kind = "wildcard"
  <2>1. p.pct = 0
    BY <1>2, <1>9
  <2>2. OnRoot(p, c, wildcard) = OnPchar(p, c)
    BY <1>9, <2>1 DEF OnRoot
  <2> QED BY <1>5, <1>9, <2>2
<1> QED BY <1>2, <1>4, <1>6, <1>7, <1>8, <1>9

\* Nothing is written of no tokens, and nothing has been read at the start.
LEMMA StartIs == Sane(Start) /\ ~Start.bad /\ TextOf(Start) = << >>
<1>1. /\ Start \in Parser /\ Start.tokens = << >> /\ Start.token = << >>
      /\ Start.kind = "static" /\ Start.slash = FALSE /\ Start.bad = FALSE
  BY DEF Start, Parser, Kinds
<1>2. Line(<< >>) /\ Suits(<< >>, "static")
  BY DEF Line, Suits
<1>3. Written(<< >>) = << >>
  <2>1. DOMAIN << >> = 1..0
    OBVIOUS
  <2>2. Written(<< >>) = FlattenSeq(<< >>)
    BY <2>1 DEF Written
  <2> QED BY <2>2, FlattenEmpty
<1>4. Begun("static", << >>) = << >>
  BY DEF Begun
<1>5. << >> \o << >> = << >>
  OBVIOUS
<1> QED BY <1>1, <1>2, <1>3, <1>4, <1>5 DEF Sane, TextOf

\* The parser behind each of the characters.
ParserSteps(F, pattern, wildcard) ==
  /\ F[0] = Start /\ Parsed(pattern, wildcard) = OnLast(F[Len(pattern)])
  /\ \A k \in 1..Len(pattern) : Sane(F[k - 1]) /\ F[k] = OnRoot(F[k - 1], pattern[k], wildcard)

\* A pattern takes the parser from one to the next.
LEMMA ParserFolds ==
  ASSUME NEW S, NEW pattern \in Seq(S), NEW wildcard \in BOOLEAN
  PROVE  \E F : ParserSteps(F, pattern, wildcard)
<1> DEFINE n == Len(pattern)
           X == {p \in Parser : Sane(p)}
           G == [k \in 1..n |-> [p \in X |-> OnRoot(p, pattern[k], wildcard)]]
<1>1. n \in Nat /\ DOMAIN pattern = 1..n
  OBVIOUS
<1>2. G \in [1..n -> [X -> X]]
  <2>1. ASSUME NEW p \in X, NEW c PROVE OnRoot(p, c, wildcard) \in X
    <3>1. Goes(p, c, OnRoot(p, c, wildcard))
      BY ParserGoes
    <3> QED BY <3>1 DEF Goes, Sane
  <2> HIDE DEF n, X
  <2> QED BY <2>1
<1> DEFINE Folds(f) == f = [u \in SUBSET (1..n) |->
                              IF u = {} THEN Start
                              ELSE OnRoot(f[u \ {Max(u)}], pattern[Max(u)], wildcard)]
<1>3. \E f : Folds(f)
  <2>0. Start \in X
    BY StartIs DEF Sane
  <2>1. n \in Nat
    BY <1>1
  <2> HIDE DEF G, n, X
  <2>2. PICK f : IsFold(f, X, Start, n, G)
    BY <1>2, <2>0, <2>1, FoldExists
  <2>3. /\ f \in [SUBSET (1..n) -> X]
        /\ \A u \in SUBSET (1..n) :
             /\ u # {} => Max(u) \in u
             /\ f[u] = IF u = {} THEN Start ELSE G[Max(u)][f[u \ {Max(u)}]]
    BY <2>2 DEF IsFold
  <2>4. ASSUME NEW u \in SUBSET (1..n), u # {}
        PROVE  G[Max(u)][f[u \ {Max(u)}]] = OnRoot(f[u \ {Max(u)}], pattern[Max(u)], wildcard)
    <3>1. Max(u) \in 1..n /\ f[u \ {Max(u)}] \in X
      BY <2>3, <2>4
    <3> DEFINE x == Max(u)
               y == f[u \ {Max(u)}]
    <3> HIDE DEF x, y
    <3>2. G[x][y] = OnRoot(y, pattern[x], wildcard)
      BY <3>1 DEF G, x, y
    <3> QED BY <3>2 DEF x, y
  <2>5. Folds(f)
    BY <2>3, <2>4
  <2> QED BY <2>5
<1> DEFINE h == CHOOSE f : Folds(f)
<1>4. Parsed(pattern, wildcard) = OnLast(h[1..n])
  <2> HIDE DEF n
  <2>1. Parsed(pattern, wildcard) = OnLast(h[DOMAIN pattern])
    BY <1>1 DEF Parsed, FoldLeft, MapThenFoldSet
  <2> QED BY <1>1, <2>1
<1>5. Folds(h)
  <2> HIDE DEF Folds
  <2> QED BY <1>3
<1> DEFINE F == [k \in 0..n |-> h[1..k]]
<1> HIDE DEF n, h, G
<1>6. F[0] = Start /\ Parsed(pattern, wildcard) = OnLast(F[n])
  <2>1. 0 \in 0..n /\ n \in 0..n /\ 1..0 = {} /\ 1..0 \in SUBSET (1..n)
    BY <1>1
  <2>2. h[1..0] = Start
    BY <1>5, <2>1
  <2> QED BY <1>4, <2>1, <2>2
<1>7. ASSUME NEW k \in 1..n PROVE F[k] = OnRoot(F[k - 1], pattern[k], wildcard)
  <2> DEFINE u == 1..k
  <2>1. k \in Nat /\ k # 0 /\ u \in SUBSET (1..n) /\ k - 1 \in 0..n /\ k \in 0..n
    BY <1>1
  <2>2. Max(u) = k /\ u \ {k} = 1..(k - 1) /\ u # {}
    BY <2>1, MaxUpTo
  <2>3. h[u] = OnRoot(h[u \ {k}], pattern[k], wildcard)
    <3> HIDE DEF u
    <3>1. h[u] = IF u = {} THEN Start ELSE OnRoot(h[u \ {Max(u)}], pattern[Max(u)], wildcard)
      BY <1>5, <2>1
    <3> QED BY <2>2, <3>1
  <2>4. F[k] = h[1..k] /\ F[k - 1] = h[1..(k - 1)]
    BY <2>1
  <2> HIDE DEF F
  <2> QED BY <2>2, <2>3, <2>4
<1> HIDE DEF F
<1>8. \A k \in 0..n : Sane(F[k])
  <2> DEFINE P == {k \in Nat : Sane(F[k])}
  <2>1. 0 \in P
    BY <1>6, StartIs
  <2>2. ASSUME NEW k \in 0..(n - 1), k \in P PROVE k + 1 \in P
    <3>1. k + 1 \in Nat /\ k + 1 \in 1..n /\ (k + 1) - 1 = k /\ Sane(F[k])
      BY <1>1, <2>2
    <3> DEFINE p == F[k]
               c == pattern[k + 1]
    <3>2. F[k + 1] = OnRoot(p, c, wildcard) /\ Sane(p)
      BY <1>7, <3>1
    <3> HIDE DEF p, c
    <3>3. Goes(p, c, OnRoot(p, c, wildcard))
      BY <3>2, ParserGoes
    <3> QED BY <3>1, <3>2, <3>3 DEF Goes
  <2> HIDE DEF P
  <2>3. \A k \in 0..(n - 1) : k \in P => k + 1 \in P
    BY <2>2
  <2>4. \A k \in 0..n : k \in P
    BY <1>1, <2>1, <2>3, SetInduction
  <2> QED BY <2>4 DEF P
<1>9. ParserSteps(F, pattern, wildcard)
  <2>1. \A k \in 1..n : Sane(F[k - 1])
    BY <1>1, <1>8
  <2> QED BY <1>6, <1>7, <2>1 DEF n, ParserSteps
<1> QED BY <1>9

\* As long as the parser goes on, its tokens are what it has read.
LEMMA ParserReads ==
  ASSUME NEW S, NEW pattern \in Seq(S), NEW wildcard \in BOOLEAN, NEW F,
         ParserSteps(F, pattern, wildcard)
  PROVE  /\ Sane(F[Len(pattern)])
         /\ F[Len(pattern)].bad \/ TextOf(F[Len(pattern)]) = pattern
<1> DEFINE n == Len(pattern)
           Read(k) == SubSeq(pattern, 1, k)
           Reads(p, k) == Sane(p) /\ (p.bad \/ TextOf(p) = Read(k))
           P == {k \in Nat : Reads(F[k], k)}
<1>1. n \in Nat /\ Read(0) = << >> /\ Read(n) = pattern
  OBVIOUS
<1>2. \A k \in 0..(n - 1) : Read(k + 1) = Read(k) \o <<pattern[k + 1]>>
  OBVIOUS
<1>3. F[0] = Start /\ \A k \in 1..n : F[k] = OnRoot(F[k - 1], pattern[k], wildcard)
  BY DEF ParserSteps
<1> HIDE DEF n, Read
<1>4. 0 \in P
  BY <1>1, <1>3, StartIs
<1>5. ASSUME NEW k \in 0..(n - 1), k \in P PROVE k + 1 \in P
  <2> DEFINE p == F[k]
             q == F[k + 1]
             c == pattern[k + 1]
  <2>1. k + 1 \in 1..n /\ k + 1 \in Nat /\ (k + 1) - 1 = k
    BY <1>1
  <2>2. q = OnRoot(p, c, wildcard) /\ Reads(p, k) /\ Read(k + 1) = Read(k) \o <<c>>
    BY <1>2, <1>3, <1>5, <2>1
  <2> HIDE DEF p, q, c
  <2>3. Goes(p, c, q)
    BY <2>2, ParserGoes
  <2>4. Reads(q, k + 1)
    BY <2>2, <2>3, Zenon DEF Goes
  <2> QED BY <2>1, <2>4 DEF q
<1> HIDE DEF P
<1>6. \A k \in 0..(n - 1) : k \in P => k + 1 \in P
  BY <1>5
<1>7. \A k \in 0..n : k \in P
  BY <1>1, <1>4, <1>6, SetInduction
<1>8. Reads(F[n], n)
  <2>1. n \in 0..n
    BY <1>1
  <2> QED BY <1>7, <2>1 DEF P
<1> QED BY <1>1, <1>8 DEF n

\* The tokens of a line are a route's, and so are they with one that fits.
LEMMA LineIsParsed ==
  ASSUME Letters \subseteq Chars, NEW tokens \in Seq(Token), Line(tokens)
  PROVE  /\ IsParsed(tokens)
         /\ \A x \in Token : Suits(tokens, x.kind) => IsParsed(Append(tokens, x))
<1> DEFINE T == [kind : Kinds, text : Seq(Chars)]
<1>1. Token \subseteq T
  <2>1. Seq(Letters) \subseteq Seq(Chars)
    OBVIOUS
  <2> QED BY <2>1 DEF Token
<1>2. ASSUME NEW all \in Seq(Token),
             \A k \in 1..Len(all) :
               /\ all[k].kind = "wildcard" => k = Len(all)
               /\ all[k].kind = "static" => k = 1 \/ all[k - 1].kind # "static"
               /\ all[k].kind = "param" => k > 1 /\ AfterSlash(all[k - 1])
      PROVE  IsParsed(all)
  <2>1. all \in Seq(T)
    <3> HIDE DEF T
    <3> QED BY <1>1
  <2>2. DOMAIN all = 1..Len(all)
    OBVIOUS
  <2>3. ASSUME NEW k \in DOMAIN all
        PROVE  /\ all[k].kind = "static" => k = 1 \/ all[k - 1].kind # "static"
               /\ all[k].kind = "param" =>
                    /\ k > 1 /\ all[k - 1].kind = "static" /\ all[k - 1].text # << >>
                    /\ Last(all[k - 1].text) = "/"
               /\ all[k].kind = "wildcard" => k = Len(all)
    <3>1. k \in 1..Len(all)
      BY <2>2
    <3> QED BY <1>2, <3>1, Zenon DEF AfterSlash
  <2> QED BY <2>1, <2>3, Zenon DEF IsParsed
<1>3. IsParsed(tokens)
  <2>1. \A k \in 1..Len(tokens) :
               /\ tokens[k].kind = "wildcard" => k = Len(tokens)
               /\ tokens[k].kind = "static" => k = 1 \/ tokens[k - 1].kind # "static"
               /\ tokens[k].kind = "param" => k > 1 /\ AfterSlash(tokens[k - 1])
    BY DEF Line
  <2> QED BY <1>2, <2>1
<1>4. ASSUME NEW x \in Token, Suits(tokens, x.kind) PROVE IsParsed(Append(tokens, x))
  <2> DEFINE all == Append(tokens, x)
             n == Len(tokens)
  <2>1. CASE x.kind # "wildcard"
    <3>1. Line(all)
      BY <1>4, <2>1, LineGrows
    <3>2. all \in Seq(Token)
      OBVIOUS
    <3> HIDE DEF all
    <3>3. \A k \in 1..Len(all) :
               /\ all[k].kind = "wildcard" => k = Len(all)
               /\ all[k].kind = "static" => k = 1 \/ all[k - 1].kind # "static"
               /\ all[k].kind = "param" => k > 1 /\ AfterSlash(all[k - 1])
      BY <3>1 DEF Line
    <3>4. IsParsed(all)
      BY <1>2, <3>2, <3>3
    <3> QED BY <3>4 DEF all
  <2>2. CASE x.kind = "wildcard"
    <3>1. /\ n \in Nat /\ Len(all) = n + 1 /\ all[n + 1] = x /\ all \in Seq(Token)
          /\ \A k \in 1..n : all[k] = tokens[k]
      OBVIOUS
    <3>2. \A k \in 1..n :
               /\ tokens[k].kind # "wildcard"
               /\ tokens[k].kind = "static" => k = 1 \/ tokens[k - 1].kind # "static"
               /\ tokens[k].kind = "param" => k > 1 /\ AfterSlash(tokens[k - 1])
      BY DEF Line
    <3> HIDE DEF all, n
    <3>3. ASSUME NEW k \in 1..Len(all)
          PROVE  /\ all[k].kind = "wildcard" => k = Len(all)
                 /\ all[k].kind = "static" => k = 1 \/ all[k - 1].kind # "static"
                 /\ all[k].kind = "param" => k > 1 /\ AfterSlash(all[k - 1])
      <4>1. CASE k = n + 1
        <5>1. all[k].kind = "wildcard" /\ k = Len(all)
          BY <2>2, <3>1, <4>1
        <5> QED BY <5>1, Zenon
      <4>2. CASE k \in 1..n
        <5>1. all[k] = tokens[k] /\ (k > 1 => all[k - 1] = tokens[k - 1]) /\ (k = 1 \/ k > 1)
          BY <3>1, <4>2
        <5> QED BY <3>2, <4>2, <5>1
      <4> QED BY <3>1, <4>1, <4>2
    <3>4. IsParsed(all)
      BY <1>2, <3>1, <3>3
    <3> QED BY <3>4 DEF all
  <2> QED BY <2>1, <2>2
<1> QED BY <1>3, <1>4

\* The end of a pattern, once the parser has not given up: what was being read
\* is a token more, unless it is a text of no characters.
LEMMA LastIs ==
  ASSUME NEW p \in Parser, ~OnLast(p).bad
  PROVE  /\ ~p.bad /\ p.kind # "param"
         /\ \/ p.kind = "static" /\ p.token = << >> /\ OnLast(p) = p
            \/ OnLast(p).tokens = Append(p.tokens, [kind |-> p.kind, text |-> p.token])
<1>1. /\ p.kind \in {"static", "param", "wildcard"} /\ p.pct \in Nat /\ p.bad \in BOOLEAN
      /\ "static" \in Kinds /\ "wildcard" \in Kinds
  BY DEF Parser, Kinds
<1>2. Bad(p).bad
  BY BadIs
<1>3. ~p.bad /\ ~(p.pct > 0) /\ p.kind # "param"
  <2>1. CASE p.bad \/ p.pct > 0 \/ p.kind = "param"
    <3>1. OnLast(p) = Bad(p)
      BY <2>1 DEF OnLast
    <3> QED BY <1>2, <3>1
  <2> QED BY <2>1
<1>4. p.pct = 0
  BY <1>1, <1>3
<1> DEFINE q == Append(p.tokens, [kind |-> p.kind, text |-> p.token])
<1>5. PushToken(p, "static").tokens = q /\ PushToken(p, "wildcard").tokens = q
  BY <1>1, PushIs
<1> HIDE DEF q
<1>6. CASE p.kind = "static"
  <2>1. OnLast(p) = IF p.token = << >> THEN p ELSE PushToken(p, "static")
    BY <1>3, <1>4, <1>6 DEF OnLast
  <2> QED BY <1>3, <1>5, <1>6, <2>1 DEF q
<1>7. CASE p.kind = "wildcard"
  <2>1. OnLast(p) = TryPush(p, "wildcard")
    BY <1>3, <1>4, <1>7 DEF OnLast
  <2>2. TryPush(p, "wildcard") = Bad(p) \/ TryPush(p, "wildcard") = PushToken(p, "wildcard")
    BY DEF TryPush
  <2> QED BY <1>2, <1>3, <1>5, <2>1, <2>2 DEF q
<1> QED BY <1>1, <1>3, <1>6, <1>7

\* What the router assumes of the tokens of a route is so of every pattern that
\* path_parser takes (RoutesAssumption), and written one behind the other they
\* are the pattern again: no character is lost.
THEOREM PatternsMakeRoutes ==
  ASSUME Letters \subseteq Chars, NEW S, NEW pattern \in Seq(S), NEW wildcard \in BOOLEAN,
         ~Parsed(pattern, wildcard).bad
  PROVE  /\ IsParsed(Parsed(pattern, wildcard).tokens)
         /\ Written(Parsed(pattern, wildcard).tokens) = pattern
<1>1. PICK F : ParserSteps(F, pattern, wildcard)
  BY ParserFolds
<1> DEFINE p == F[Len(pattern)]
           q == Parsed(pattern, wildcard)
           x == [kind |-> p.kind, text |-> p.token]
<1>2. q = OnLast(p)
  BY <1>1 DEF ParserSteps
<1>3. Sane(p) /\ (p.bad \/ TextOf(p) = pattern)
  BY <1>1, ParserReads
<1>4. ~q.bad
  OBVIOUS
<1> HIDE DEF p, q, x
<1>5. p \in Parser
  BY <1>3 DEF Sane
<1>6. /\ ~p.bad /\ p.kind # "param"
      /\ \/ p.kind = "static" /\ p.token = << >> /\ q = p
         \/ q.tokens = Append(p.tokens, x)
  BY <1>2, <1>4, <1>5, LastIs DEF x
<1>7. /\ Line(p.tokens) /\ Suits(p.tokens, p.kind) /\ p.tokens \in Seq(Token)
      /\ p.kind \in Kinds /\ p.token \in Seq(Letters)
  BY <1>3, <1>5, <1>6 DEF Sane, Parser
<1>8. x \in Token /\ x.kind = p.kind /\ x.text = p.token
  BY <1>7 DEF x, Token
<1>9. TextOf(p) = Written(p.tokens) \o Begun(p.kind, p.token) /\ TextOf(p) = pattern
  BY <1>3, <1>6 DEF TextOf
<1>10. Written(p.tokens) \in Seq(Marked)
  BY <1>7, <1>8, WrittenNext
<1>11. CASE p.kind = "static" /\ p.token = << >> /\ q = p
  <2>1. Begun(p.kind, p.token) = << >>
    BY <1>11, <1>7, ShownIs
  <2>2. Written(p.tokens) = pattern
    <3> DEFINE w == Written(p.tokens)
    <3> HIDE DEF w
    <3>1. w \in Seq(Marked) /\ pattern = w \o << >>
      BY <1>9, <1>10, <2>1, Zenon DEF w
    <3>2. w \o << >> = w
      BY <3>1
    <3> QED BY <3>1, <3>2 DEF w
  <2>3. IsParsed(p.tokens)
    BY <1>7, LineIsParsed
  <2> QED BY <1>11, <2>2, <2>3 DEF q
<1>12. CASE q.tokens = Append(p.tokens, x)
  <2>1. Written(q.tokens) = Written(p.tokens) \o Shown(p.kind, p.token)
    BY <1>7, <1>8, <1>12, WrittenNext
  <2>2. Shown(p.kind, p.token) = Begun(p.kind, p.token)
    <3>1. p.kind \in {"static", "wildcard"}
      BY <1>6, <1>7 DEF Kinds
    <3> QED BY <1>7, <3>1, ShownIs
  <2>3. IsParsed(q.tokens)
    BY <1>7, <1>8, <1>12, LineIsParsed
  <2> QED BY <1>9, <2>1, <2>2, <2>3 DEF q
<1> QED BY <1>6, <1>11, <1>12
=============================================================================
