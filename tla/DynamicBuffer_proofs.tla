------------------------ MODULE DynamicBuffer_proofs ------------------------
(***************************************************************************)
(* Proofs about dynamic_buffer, for every limit, container and bound.      *)
(***************************************************************************)
EXTENDS DynamicBuffer, TLAPS

\* The readable bytes were written, once and in this order, wherever in the
\* container they lie, and so were those released.
Written ==
  /\ ~released => /\ \A i \in (roffset + 1)..woffset : cells[i] > 0
                  /\ \A i, j \in (roffset + 1)..woffset : i < j => cells[i] < cells[j]
  /\ \A i \in 1..Len(output) : output[i] > 0
  /\ \A i, j \in 1..Len(output) : i < j => output[i] < output[j]

\* No more is readable than was written, and a region that does not fit was
\* asked for beyond the limit.
Room == ~released => /\ woffset <= next
                     /\ woffset + region <= Len(cells) \/ next + region > limit

Inv == TypeOK /\ Written /\ Room

-----------------------------------------------------------------------------
(* The helpers.                                                            *)

\* A resized container has the bytes of the old one, and zeros behind them.
LEMMA ResizedType ==
  ASSUME NEW m \in Nat, NEW c \in Seq(0..m), NEW n \in Nat
  PROVE  /\ Resized(c, n) \in Seq(0..m)
         /\ Len(Resized(c, n)) = n
         /\ \A i \in 1..n : i <= Len(c) => Resized(c, n)[i] = c[i]
<1>1. \A i \in 1..Len(c) : c[i] \in 0..m
  OBVIOUS
<1> QED
  BY <1>1 DEF Resized

\* Compressing moves the readable bytes to the front, in their order.
LEMMA CompressedType ==
  ASSUME TypeOK, ~released
  PROVE  /\ Compressed \in Seq(0..next)
         /\ Len(Compressed) = Len(cells)
         /\ \A i \in 1..ReadableSize : Compressed[i] = cells[roffset + i]
<1>1. \A i \in 1..Len(cells) : cells[i] \in 0..next
  BY DEF TypeOK
<1>2. ReadableSize \in Nat /\ roffset + ReadableSize = woffset
  BY DEF TypeOK, ReadableSize
<1>3. CASE roffset = 0
  BY <1>1, <1>2, <1>3 DEF Compressed, TypeOK
<1>4. CASE roffset > 0
  <2>1. Compressed = [i \in 1..Len(cells) |->
                        IF i \in 1..ReadableSize THEN cells[roffset + i] ELSE cells[i]]
    BY <1>4 DEF Compressed
  <2>2. \A i \in 1..ReadableSize : roffset + i \in 1..Len(cells)
    BY <1>2 DEF TypeOK
  <2> QED
    BY <1>1, <1>2, <2>1, <2>2 DEF TypeOK
<1> QED
  BY <1>3, <1>4 DEF TypeOK

\* The initial container is full of bytes that were written.
LEMMA UptoType ==
  ASSUME NEW n \in Nat
  PROVE  Upto(n) \in Seq(0..n) /\ Len(Upto(n)) = n
BY DEF Upto
-----------------------------------------------------------------------------
(* The invariant.                                                          *)

\* It holds of a new buffer.
LEMMA InvInit == Init => Inv
<1> SUFFICES ASSUME Init PROVE Inv
  OBVIOUS
<1>1. next \in Nat /\ next <= limit /\ limit \in 0..MaxSize
  <2>1. CASE limit \in Limits /\ next = 0
    BY <2>1, ConstantsAssumption
  <2>2. CASE limit = MaxSize /\ next \in Initials
    BY <2>2, ConstantsAssumption
  <2> QED
    BY <2>1, <2>2 DEF Init
<1>2. cells \in Seq(0..next) /\ Len(cells) = next
  BY <1>1, UptoType DEF Init
<1> DEFINE none == << >>
<1>3. TypeOK
  <2>1. none \in Seq(0..next)
    OBVIOUS
  <2>2. /\ woffset = next /\ roffset = 0 /\ region = 0
        /\ output = none /\ released = FALSE
    BY DEF Init
  <2>3. output \in Seq(0..next) /\ released \in BOOLEAN
    BY <2>1, <2>2
  <2>4. woffset <= Len(cells) /\ Len(cells) <= limit /\ roffset <= woffset
    BY <1>1, <1>2, <2>2
  <2> QED
    BY <1>1, <1>2, <2>2, <2>3, <2>4 DEF TypeOK
<1>4. Written
  BY <1>1, <1>2 DEF Init, Written, Upto
<1>5. Room
  BY <1>1, <1>2 DEF Init, Room
<1> QED
  BY <1>3, <1>4, <1>5 DEF Inv

\* Making room behind the readable bytes keeps them where they are.
LEMMA PrepareBehindInv ==
  ASSUME Inv, NEW n \in Nat, PrepareBehind(n)
  PROVE  Inv'
<1> USE DEF Inv
<1>1. cells' \in Seq(0..next) /\ Len(cells') = woffset + n
      /\ \A i \in 1..woffset : cells'[i] = cells[i]
  <2>1. /\ cells' = Resized(cells, woffset + n) /\ woffset + n \in Nat
        /\ cells \in Seq(0..next) /\ next \in Nat
        /\ woffset \in Nat /\ woffset <= Len(cells)
    BY DEF PrepareBehind, TypeOK
  <2>2. \A i \in 1..woffset : i \in 1..(woffset + n) /\ i <= Len(cells)
    BY <2>1
  <2> QED
    BY <2>1, <2>2, ResizedType
<1>2. TypeOK'
  BY <1>1 DEF PrepareBehind, TypeOK
<1>3. Written'
  <2>1. UNCHANGED <<roffset, woffset, output, released>> /\ ~released
        /\ roffset \in Nat /\ woffset \in Nat
    BY DEF PrepareBehind, TypeOK
  <2>2. \A i \in (roffset + 1)..woffset : cells'[i] = cells[i]
    BY <1>1, <2>1
  <2> QED
    BY <2>1, <2>2 DEF Written
<1>4. Room'
  BY <1>1 DEF PrepareBehind, TypeOK, Room
<1> QED
  BY <1>2, <1>3, <1>4

\* Moving the readable bytes keeps them.
LEMMA PrepareMovingInv ==
  ASSUME Inv, NEW n \in Nat, PrepareMoving(n)
  PROVE  Inv'
<1> USE DEF Inv
<1>1. cells' \in Seq(0..next) /\ Len(cells') = Len(cells)
      /\ \A i \in 1..ReadableSize : cells'[i] = cells[roffset + i]
  BY CompressedType DEF PrepareMoving
<1>2. ReadableSize \in Nat /\ roffset + ReadableSize = woffset
  BY DEF TypeOK, ReadableSize
<1>3. TypeOK'
  BY <1>1, <1>2 DEF PrepareMoving, TypeOK
<1>4. \A i \in 1..ReadableSize : roffset + i \in (roffset + 1)..woffset
  BY <1>2 DEF TypeOK
<1>5. Written'
  <2>1. UNCHANGED <<output, released>> /\ ~released
        /\ roffset' = 0 /\ woffset' = ReadableSize
    BY DEF PrepareMoving
  <2>2. \A i \in 1..ReadableSize : cells'[i] > 0
    BY <1>1, <1>4, <2>1 DEF Written
  <2>3. \A i, j \in 1..ReadableSize : i < j => cells'[i] < cells'[j]
    <3> SUFFICES ASSUME NEW i \in 1..ReadableSize, NEW j \in 1..ReadableSize, i < j
                 PROVE  cells[roffset + i] < cells[roffset + j]
      BY <1>1
    <3>1. roffset + i \in (roffset + 1)..woffset /\ roffset + j \in (roffset + 1)..woffset
      BY <1>4
    <3>2. roffset + i < roffset + j
      BY <1>2 DEF TypeOK
    <3> QED
      BY <2>1, <3>1, <3>2 DEF Written
  <2> QED
    BY <2>1, <2>2, <2>3 DEF Written
<1>6. Room'
  BY <1>1, <1>2 DEF PrepareMoving, TypeOK, Room
<1> QED
  BY <1>3, <1>5, <1>6

\* The bytes committed are greater than all that are readable.
LEMMA CommitInv ==
  ASSUME Inv, NEW k \in Nat, Commit(k)
  PROVE  Inv'
<1> USE DEF Inv
<1>1. /\ ~released /\ next' = next + k /\ region' = 0
      /\ woffset' \in Nat /\ woffset <= woffset' /\ woffset' <= woffset + k
      /\ woffset' <= Len(cells)
      /\ UNCHANGED <<roffset, limit, output, released>>
  BY DEF Commit, TypeOK
<1>2. /\ cells' \in Seq(0..next') /\ Len(cells') = Len(cells)
      /\ \A i \in 1..woffset : cells'[i] = cells[i]
      /\ \A i \in (woffset + 1)..woffset' : cells'[i] = next + (i - woffset)
  <2>1. \A i \in 1..Len(cells) : cells[i] \in 0..next
    BY DEF TypeOK
  <2>2. cells' = [i \in 1..Len(cells) |-> IF i \in (woffset + 1)..(woffset + k)
                                            THEN next + (i - woffset) ELSE cells[i]]
    BY DEF Commit, TypeOK
  <2>3. Len(cells) \in Nat /\ woffset \in Nat /\ next \in Nat
    BY DEF TypeOK
  <2> QED
    BY <1>1, <2>1, <2>2, <2>3
<1>3. TypeOK'
  <2>1. output' \in Seq(0..next')
    BY <1>1 DEF TypeOK
  <2> QED
    BY <1>1, <1>2, <2>1 DEF TypeOK
<1>4. Written'
  <2>1. \A i \in (roffset + 1)..woffset : cells[i] \in 0..next
    BY <1>1 DEF TypeOK
  <2>2. roffset \in Nat /\ woffset \in Nat /\ next \in Nat
    BY DEF TypeOK
  <2>3. \A i \in (roffset' + 1)..woffset' :
          \/ i \in (roffset + 1)..woffset /\ cells'[i] = cells[i]
          \/ i \in (woffset + 1)..woffset' /\ cells'[i] = next + (i - woffset)
    BY <1>1, <1>2, <2>2
  <2>4. \A i \in (roffset' + 1)..woffset' : cells'[i] > 0
    BY <1>1, <2>2, <2>3 DEF Written
  <2>5. \A i, j \in (roffset' + 1)..woffset' : i < j => cells'[i] < cells'[j]
    BY <1>1, <2>1, <2>2, <2>3 DEF Written
  <2> QED
    BY <1>1, <2>4, <2>5 DEF Written
<1>5. Room'
  BY <1>1, <1>2 DEF TypeOK, Room
<1> QED
  BY <1>3, <1>4, <1>5

\* Consuming drops bytes from the front.
LEMMA ConsumeInv ==
  ASSUME Inv, NEW n \in Nat, Consume(n)
  PROVE  Inv'
<1> USE DEF Inv
<1>1. TypeOK'
  BY DEF Consume, TypeOK
<1>2. Written'
  BY SMTT(40) DEF Consume, TypeOK, Written
<1>3. Room'
  BY DEF Consume, TypeOK, Room
<1> QED
  BY <1>1, <1>2, <1>3

\* What is released is what was readable.
LEMMA ReleaseOutput ==
  ASSUME TypeOK, Release
  PROVE  /\ output' \in Seq(0..next) /\ Len(output') = ReadableSize
         /\ \A i \in 1..ReadableSize : output'[i] = cells[roffset + i]
<1>1. ReadableSize \in Nat /\ roffset + ReadableSize = woffset
  BY DEF TypeOK, ReadableSize
<1>2. ~released /\ output' = Resized(Compressed, ReadableSize)
  BY DEF Release
<1>3. next \in Nat /\ Len(cells) \in Nat /\ ReadableSize <= Len(cells)
  BY <1>1, <1>2 DEF TypeOK
<1>4. /\ Compressed \in Seq(0..next) /\ Len(Compressed) = Len(cells)
      /\ \A i \in 1..ReadableSize : Compressed[i] = cells[roffset + i]
  BY <1>2, CompressedType
<1>5. /\ output' \in Seq(0..next) /\ Len(output') = ReadableSize
      /\ \A i \in 1..ReadableSize : i <= Len(Compressed) => output'[i] = Compressed[i]
  BY <1>1, <1>2, <1>3, <1>4, ResizedType
<1>6. \A i \in 1..ReadableSize : i <= Len(Compressed)
  BY <1>1, <1>3, <1>4
<1> QED
  BY <1>4, <1>5, <1>6

\* Release leaves nothing readable and an output in order.
LEMMA ReleaseInv ==
  ASSUME Inv, Release
  PROVE  Inv'
<1> USE DEF Inv
<1>1. ReadableSize \in Nat /\ roffset + ReadableSize = woffset
  BY DEF TypeOK, ReadableSize
<1>2. ~released /\ released'
  BY DEF Release
<1>3. TypeOK'
  BY <1>1, ReleaseOutput DEF Release, TypeOK
<1>4. Written'
  <2>1. /\ Len(output') = ReadableSize
        /\ \A i \in 1..ReadableSize : output'[i] = cells[roffset + i]
    BY ReleaseOutput
  <2>2. roffset \in Nat /\ woffset \in Nat
    BY DEF TypeOK
  <2>3. \A i \in 1..ReadableSize : roffset + i \in (roffset + 1)..woffset
    BY <1>1, <2>2
  <2>4. \A i \in 1..ReadableSize : output'[i] > 0
    BY <1>2, <2>1, <2>3 DEF Written
  <2>5. \A i, j \in 1..ReadableSize : i < j => output'[i] < output'[j]
    BY <1>1, <1>2, <2>1, <2>2, <2>3 DEF Written
  <2> QED
    BY <1>2, <2>1, <2>4, <2>5 DEF Written
<1>5. Room'
  BY <1>2 DEF Room
<1> QED
  BY <1>3, <1>4, <1>5

\* Every step preserves the invariant.
LEMMA InvStep == Inv /\ [Next]_vars => Inv'
<1> SUFFICES ASSUME Inv, [Next]_vars PROVE Inv'
  OBVIOUS
<1>1. 0..MaxOp \subseteq Nat
  BY ConstantsAssumption
<1>2. ASSUME UNCHANGED vars PROVE Inv'
  BY <1>2 DEF vars, Inv, TypeOK, Written, Room
<1>3. ASSUME NEW n \in 0..MaxOp, PrepareBehind(n) PROVE Inv'
  BY <1>1, <1>3, PrepareBehindInv
<1>4. ASSUME NEW n \in 0..MaxOp, PrepareMoving(n) PROVE Inv'
  BY <1>1, <1>4, PrepareMovingInv
<1>5. ASSUME NEW n \in 0..MaxOp, PrepareThrows(n) PROVE Inv'
  BY <1>2, <1>5 DEF PrepareThrows
<1>6. ASSUME NEW n \in 0..MaxOp, Commit(n) PROVE Inv'
  BY <1>1, <1>6, CommitInv
<1>7. ASSUME NEW n \in 0..MaxOp, Consume(n) PROVE Inv'
  BY <1>1, <1>7, ConsumeInv
<1>8. ASSUME Release PROVE Inv'
  BY <1>8, ReleaseInv
<1> QED
  BY <1>2, <1>3, <1>4, <1>5, <1>6, <1>7, <1>8 DEF Next

\* The invariant holds always.
LEMMA InvAlways == Spec => []Inv
BY InvInit, InvStep, PTL DEF Spec

\* The offsets of every reachable buffer are ordered and within its container,
\* and the container is within the limit.
THEOREM TypeCorrect == Spec => []TypeOK
<1>1. Inv => TypeOK
  BY DEF Inv
<1> QED
  BY <1>1, InvAlways, PTL

\* What is readable or was released was written, in this order and once.
THEOREM OnlyWrittenShows == Spec => []OnlyWritten
<1>1. Inv => OnlyWritten
  <2> SUFFICES ASSUME Inv, NEW s \in {Readable, output}
               PROVE  /\ \A i \in DOMAIN s : s[i] > 0
                      /\ \A i, j \in DOMAIN s : i < j => s[i] < s[j]
    BY DEF OnlyWritten
  <2>1. CASE s = output
    <3>1. DOMAIN output = 1..Len(output)
      BY DEF Inv, TypeOK
    <3> QED
      BY <2>1, <3>1 DEF Inv, Written
  <2>2. CASE s = Readable /\ released
    BY <2>2 DEF Readable
  <2>3. CASE s = Readable /\ ~released
    <3>1. s = [i \in 1..ReadableSize |-> cells[roffset + i]]
      BY <2>3 DEF Readable
    <3>2. ReadableSize \in Nat /\ roffset + ReadableSize = woffset /\ roffset \in Nat
      BY DEF Inv, TypeOK, ReadableSize
    <3>3. \A i \in 1..ReadableSize : roffset + i \in (roffset + 1)..woffset
      BY <3>2
    <3>4. \A i \in 1..ReadableSize : s[i] > 0
      BY <2>3, <3>1, <3>3 DEF Inv, Written
    <3>5. ASSUME NEW i \in 1..ReadableSize, NEW j \in 1..ReadableSize, i < j
          PROVE  cells[roffset + i] < cells[roffset + j]
      <4>1. roffset + i \in (roffset + 1)..woffset /\ roffset + j \in (roffset + 1)..woffset
        BY <3>3
      <4>2. roffset + i < roffset + j
        BY <3>2, <3>5
      <4> QED
        BY <2>3, <4>1, <4>2 DEF Inv, Written
    <3> QED
      BY <3>1, <3>4, <3>5
  <2> QED
    BY <2>1, <2>2, <2>3
<1> QED
  BY <1>1, InvAlways, PTL
-----------------------------------------------------------------------------
(* The byte queue.                                                         *)

\* Two sequences of the same bytes are the same.
LEMMA SameBytes ==
  ASSUME NEW s \in Seq(Nat), NEW t \in Seq(Nat), Len(s) = Len(t),
         \A i \in 1..Len(s) : s[i] = t[i]
  PROVE  s = t
OBVIOUS

\* A sequence that starts with s and goes on with t is the two in a row.
LEMMA Appended ==
  ASSUME NEW s \in Seq(Nat), NEW t \in Seq(Nat), NEW u \in Seq(Nat),
         Len(u) = Len(s) + Len(t),
         \A i \in 1..Len(s) : u[i] = s[i],
         \A i \in 1..Len(t) : u[Len(s) + i] = t[i]
  PROVE  u = s \o t
<1>1. s \o t \in Seq(Nat) /\ Len(s \o t) = Len(s) + Len(t)
  OBVIOUS
<1>2. ASSUME NEW i \in 1..Len(u) PROVE u[i] = (s \o t)[i]
  <2>1. CASE i <= Len(s)
    BY <2>1
  <2>2. CASE i > Len(s)
    <3>1. i - Len(s) \in 1..Len(t) /\ i = Len(s) + (i - Len(s))
      BY <2>2
    <3>2. u[i] = t[i - Len(s)]
      BY <3>1
    <3>3. (s \o t)[i] = t[i - Len(s)]
      BY <2>2, <3>1
    <3> QED
      BY <3>2, <3>3
  <2> QED
    BY <2>1, <2>2
<1> QED
  BY <1>1, <1>2, SameBytes

\* The readable bytes as a sequence.
ReadableOK ==
  /\ ReadableSize \in Nat /\ roffset + ReadableSize = woffset
  /\ Readable \in Seq(Nat)
  /\ ~released => /\ Len(Readable) = ReadableSize
                  /\ \A i \in 1..ReadableSize : Readable[i] = cells[roffset + i]

\* They are that in every state that is type correct.
LEMMA ReadableType == TypeOK => ReadableOK
<1> SUFFICES ASSUME TypeOK PROVE ReadableOK
  OBVIOUS
<1>1. ReadableSize \in Nat /\ roffset + ReadableSize = woffset
  BY DEF TypeOK, ReadableSize
<1>2. CASE released
  BY <1>1, <1>2 DEF Readable, ReadableOK
<1>3. CASE ~released
  <2>1. Readable = [i \in 1..ReadableSize |-> cells[roffset + i]]
    BY <1>3 DEF Readable
  <2>2. \A i \in 1..ReadableSize : cells[roffset + i] \in Nat
    BY <1>1, <1>3 DEF TypeOK
  <2> QED
    BY <1>1, <2>1, <2>2 DEF ReadableOK
<1> QED
  BY <1>2, <1>3

\* They are that after a step as well.
LEMMA ReadableTypeNext == TypeOK' => ReadableOK'
BY ReadableType, PTL

\* A commit appends the first bytes that were written, as many as there is
\* room for in the container.
LEMMA CommitAppends ==
  ASSUME Inv, Inv', NEW k \in Nat, Commit(k)
  PROVE  /\ woffset' - woffset \in 0..k
         /\ woffset + k <= Len(cells) => woffset' - woffset = k
         /\ Readable' = Readable \o [i \in 1..(woffset' - woffset) |-> next + i]
<1> DEFINE j == woffset' - woffset
           new == [i \in 1..j |-> next + i]
<1>1. /\ ~released /\ ~released' /\ roffset' = roffset
      /\ woffset \in Nat /\ roffset \in Nat /\ next \in Nat
      /\ roffset <= woffset /\ woffset <= Len(cells)
      /\ Len(cells) \in Nat
      /\ woffset' = IF woffset + k < Len(cells) THEN woffset + k ELSE Len(cells)
  BY DEF Commit, Inv, TypeOK
<1>2. /\ j \in 0..k /\ woffset' <= Len(cells) /\ woffset' \in Nat
      /\ woffset + k <= Len(cells) => j = k
  BY <1>1
<1>3. /\ \A i \in 1..woffset : cells'[i] = cells[i]
      /\ \A i \in 1..j : cells'[woffset + i] = next + i
  <2>1. cells' = [i \in 1..Len(cells) |-> IF i \in (woffset + 1)..(woffset + k)
                                            THEN next + (i - woffset) ELSE cells[i]]
    BY SMTT(40) DEF Commit, Inv, TypeOK
  <2>2. \A i \in 1..j : /\ woffset + i \in 1..Len(cells)
                        /\ woffset + i \in (woffset + 1)..(woffset + k)
                        /\ next + ((woffset + i) - woffset) = next + i
    BY <1>1, <1>2
  <2>3. \A i \in 1..woffset : i \in 1..Len(cells) /\ i \notin (woffset + 1)..(woffset + k)
    BY <1>1
  <2> QED
    BY <2>1, <2>2, <2>3
<1>4. new \in Seq(Nat) /\ Len(new) = j
  BY <1>1, <1>2
<1>5. /\ ReadableSize \in Nat /\ roffset + ReadableSize = woffset
      /\ Readable \in Seq(Nat) /\ Len(Readable) = ReadableSize
      /\ \A i \in 1..ReadableSize : Readable[i] = cells[roffset + i]
  BY <1>1, ReadableType DEF Inv, ReadableOK
<1>6. /\ ReadableSize' \in Nat /\ roffset + ReadableSize' = woffset'
      /\ Readable' \in Seq(Nat) /\ Len(Readable') = ReadableSize'
      /\ \A i \in 1..ReadableSize' : Readable'[i] = cells'[roffset + i]
  BY <1>1, ReadableTypeNext DEF Inv, ReadableOK
<1>7. Len(Readable') = Len(Readable) + Len(new) /\ ReadableSize' = ReadableSize + j
  BY <1>1, <1>2, <1>4, <1>5, <1>6
<1>8. \A i \in 1..Len(Readable) : Readable'[i] = Readable[i]
  <2> SUFFICES ASSUME NEW i \in 1..ReadableSize
               PROVE  Readable'[i] = Readable[i]
    BY <1>5
  <2>1. roffset + i \in 1..woffset /\ i \in 1..ReadableSize'
    BY <1>1, <1>2, <1>5, <1>7
  <2> QED
    BY <1>3, <1>5, <1>6, <2>1
<1>9. \A i \in 1..Len(new) : Readable'[Len(Readable) + i] = new[i]
  <2> SUFFICES ASSUME NEW i \in 1..j
               PROVE  Readable'[ReadableSize + i] = next + i
    BY <1>4, <1>5
  <2>1. ReadableSize + i \in 1..ReadableSize' /\ roffset + (ReadableSize + i) = woffset + i
    BY <1>1, <1>2, <1>5, <1>7
  <2> QED
    BY <1>3, <1>6, <2>1
<1>10. Readable' = Readable \o new
  <2> HIDE DEF new
  <2> QED
    BY <1>4, <1>5, <1>6, <1>7, <1>8, <1>9, Appended
<1> QED
  BY <1>2, <1>10

\* The bytes readable stay the same if they stay, or are moved, as they are.
LEMMA SameReadable ==
  ASSUME TypeOK, TypeOK', ~released, ~released',
         ReadableSize' = ReadableSize,
         \A i \in 1..ReadableSize : cells'[roffset' + i] = cells[roffset + i]
  PROVE  Readable' = Readable
<1>1. ReadableOK /\ ReadableOK'
  BY ReadableType, ReadableTypeNext
<1> QED
  BY <1>1, SameBytes DEF ReadableOK

\* Preparing a region leaves the readable bytes alone.
LEMMA PrepareKeeps ==
  ASSUME Inv, Inv', NEW n \in Nat, PrepareBehind(n) \/ PrepareMoving(n)
  PROVE  Readable' = Readable
<1>1. /\ ~released /\ ~released' /\ ReadableSize \in Nat
      /\ roffset + ReadableSize = woffset
      /\ roffset \in Nat /\ woffset \in Nat
  <2>1. ~released /\ released' = released
    BY DEF PrepareBehind, PrepareMoving
  <2>2. ReadableSize \in Nat /\ roffset + ReadableSize = woffset
    BY ReadableType DEF ReadableOK, Inv
  <2> QED
    BY <2>1, <2>2 DEF Inv, TypeOK
<1>2. CASE PrepareBehind(n)
  <2>1. /\ roffset' = roffset /\ woffset' = woffset
        /\ cells' = Resized(cells, woffset + n) /\ woffset + n \in Nat
        /\ cells \in Seq(0..next) /\ next \in Nat /\ woffset <= Len(cells)
    BY <1>1, <1>2 DEF PrepareBehind, Inv, TypeOK
  <2>2. \A i \in 1..(woffset + n) : i <= Len(cells) => cells'[i] = cells[i]
    BY <2>1, ResizedType
  <2>3. \A i \in 1..ReadableSize : /\ roffset + i \in 1..(woffset + n)
                                   /\ roffset + i <= Len(cells)
    BY <1>1, <2>1
  <2>4. \A i \in 1..ReadableSize : cells'[roffset' + i] = cells[roffset + i]
    BY <2>1, <2>2, <2>3
  <2>5. ReadableSize' = ReadableSize
    BY <2>1 DEF ReadableSize
  <2> QED
    BY <1>1, <2>4, <2>5, SameReadable DEF Inv
<1>3. CASE PrepareMoving(n)
  <2>1. /\ roffset' = 0 /\ woffset' = ReadableSize /\ cells' = Compressed
    BY <1>3 DEF PrepareMoving
  <2>2. \A i \in 1..ReadableSize : cells'[i] = cells[roffset + i]
    BY <1>1, <2>1, CompressedType DEF Inv
  <2>3. ReadableSize' = ReadableSize
    BY <1>1, <2>1 DEF ReadableSize
  <2> QED
    BY <1>1, <2>1, <2>2, <2>3, SameReadable DEF Inv
<1> QED
  BY <1>2, <1>3

\* Consuming takes bytes from the front of what is readable.
LEMMA ConsumeTakes ==
  ASSUME Inv, Inv', NEW n \in Nat, Consume(n)
  PROVE  \E m \in 0..Len(Readable) :
           Readable' = [i \in 1..(Len(Readable) - m) |-> Readable[m + i]]
<1>1. /\ ~released /\ ~released' /\ cells' = cells
      /\ roffset \in Nat /\ woffset \in Nat /\ roffset <= woffset
  BY DEF Consume, Inv, TypeOK
<1>2. ReadableOK /\ ReadableOK'
  BY ReadableType, ReadableTypeNext DEF Inv
<1>3. PICK r \in Nat : r = ReadableSize'
  BY <1>2 DEF ReadableOK
<1>4. /\ Readable \in Seq(Nat) /\ Len(Readable) = woffset - roffset
      /\ \A i \in 1..(woffset - roffset) : Readable[i] = cells[roffset + i]
  BY <1>1, <1>2 DEF ReadableOK, ReadableSize
<1>5. /\ Readable' \in Seq(Nat) /\ Len(Readable') = r
      /\ \A i \in 1..r : Readable'[i] = cells[roffset' + i]
  BY <1>1, <1>2, <1>3 DEF ReadableOK
<1>6. CASE roffset + n >= woffset
  <2>1. roffset' = 0 /\ woffset' = 0
    BY <1>6 DEF Consume
  <2>2. r = 0
    <3>1. 0 + r = 0
      BY <1>2, <1>3, <2>1 DEF ReadableOK
    <3> QED
      BY <3>1
  <2>3. Readable' = [i \in 1..(Len(Readable) - Len(Readable)) |-> Readable[Len(Readable) + i]]
    BY <1>4, <1>5, <2>2
  <2>4. Len(Readable) \in 0..Len(Readable)
    BY <1>4
  <2> QED
    BY <2>3, <2>4
<1>7. CASE ~(roffset + n >= woffset)
  <2>1. roffset' = roffset + n /\ woffset' = woffset
    BY <1>7 DEF Consume
  <2>2. (roffset + n) + r = woffset
    BY <1>2, <1>3, <2>1 DEF ReadableOK
  <2> DEFINE rest == [i \in 1..(Len(Readable) - n) |-> Readable[n + i]]
  <2>3. n \in 0..Len(Readable) /\ Len(Readable) - n = r
    BY <1>1, <1>4, <2>2
  <2>4. \A i \in 1..r : /\ n + i \in 1..(woffset - roffset)
                        /\ roffset' + i = roffset + (n + i)
    BY <1>1, <2>1, <2>2
  <2>5. \A i \in 1..r : Readable'[i] = Readable[n + i] /\ Readable[n + i] \in Nat
    <3> SUFFICES ASSUME NEW i \in 1..r
                 PROVE  Readable'[i] = Readable[n + i] /\ Readable[n + i] \in Nat
      OBVIOUS
    <3>1. Readable'[i] = cells[roffset' + i]
      BY <1>5
    <3>2. Readable[n + i] = cells[roffset + (n + i)]
      BY <1>4, <2>4
    <3>3. Readable[n + i] \in Nat
      BY <1>4, <2>4
    <3> QED
      BY <2>4, <3>1, <3>2, <3>3
  <2>6. rest \in Seq(Nat) /\ Len(rest) = r
    <3>1. rest = [i \in 1..r |-> Readable[n + i]]
      BY <2>3
    <3>2. \A i \in 1..r : Readable[n + i] \in Nat
      BY <2>5
    <3>3. [i \in 1..r |-> Readable[n + i]] \in [1..r -> Nat]
      BY <3>2
    <3>4. rest \in [1..r -> Nat] /\ r \in Nat
      BY <3>1, <3>3
    <3> HIDE DEF rest
    <3> QED
      BY <3>4
  <2>7. \A i \in 1..r : rest[i] = Readable'[i]
    BY <2>3, <2>5
  <2>8. Readable' = rest
    <3> HIDE DEF rest
    <3> QED
      BY <1>5, <2>6, <2>7, SameBytes
  <2> QED
    BY <2>3, <2>8
<1> QED
  BY <1>6, <1>7

\* A release hands over what is readable.
LEMMA ReleaseHandsOver ==
  ASSUME Inv, Inv', Release
  PROVE  output' = Readable /\ Readable' = << >>
<1>1. ~released /\ released'
  BY DEF Release
<1>2. ReadableOK /\ next \in Nat
  BY ReadableType DEF Inv, TypeOK
<1>3. /\ output' \in Seq(0..next) /\ Len(output') = ReadableSize
      /\ \A i \in 1..ReadableSize : output'[i] = cells[roffset + i]
  BY ReleaseOutput DEF Inv
<1>4. output' \in Seq(Nat)
  BY <1>2, <1>3
<1>5. output' = Readable
  BY <1>1, <1>2, <1>3, <1>4, SameBytes DEF ReadableOK
<1> QED
  BY <1>1, <1>5 DEF Readable

-----------------------------------------------------------------------------
(* The buffer keeps what is put into it, in order.                         *)

\* A region that was asked for within the limit lies within the container.
LEMMA CommitsAll ==
  ASSUME Inv, NEW k \in Nat, Commit(k), next + region <= limit
  PROVE  woffset' - woffset = k
<1>1. /\ ~released /\ k <= region
      /\ woffset' = IF woffset + k < Len(cells) THEN woffset + k ELSE Len(cells)
  BY DEF Commit
<1>2. /\ woffset \in Nat /\ region \in Nat /\ next \in Nat /\ limit \in Nat
      /\ Len(cells) \in Nat /\ woffset + region <= Len(cells)
  BY <1>1 DEF Inv, TypeOK, Room
<1>3. woffset' = woffset + k
  BY <1>1, <1>2
<1> QED
  BY <1>2, <1>3

\* CommitIsLossless: every byte committed gets readable, behind those that are,
\* as long as what was written and is asked for fits the limit.
THEOREM Lossless == Spec => CommitIsLossless
<1>1. Inv /\ Inv' =>
        \A k \in 0..MaxOp :
          Commit(k) /\ next + region <= limit =>
            Readable' = Readable \o [i \in 1..k |-> next + i]
  <2> SUFFICES ASSUME Inv, Inv', NEW k \in 0..MaxOp, Commit(k), next + region <= limit
               PROVE  Readable' = Readable \o [i \in 1..k |-> next + i]
    OBVIOUS
  <2>1. k \in Nat
    BY ConstantsAssumption
  <2> QED
    BY <2>1, CommitsAll, CommitAppends
<1> QED
  BY <1>1, InvAlways, PTL DEF CommitIsLossless

-----------------------------------------------------------------------------
(* It implements the byte queue.                                           *)

\* Its initial states are those of a queue.
LEMMA QueueInit == Init => Queue!Init
<1> SUFFICES ASSUME Init PROVE Queue!Init
  OBVIOUS
<1>1. next \in Nat
  <2>1. \A n \in 0..MaxSize : n \in Nat
    BY ConstantsAssumption
  <2>2. next = 0 \/ next \in 0..MaxSize
    BY Zenon, ConstantsAssumption DEF Init
  <2>3. CASE next = 0
    BY <2>3
  <2> QED
    BY <2>1, <2>2, <2>3
<1>2. Readable = [i \in 1..next |-> cells[i]]
  BY <1>1 DEF Init, Readable, ReadableSize
<1>3. cells = [i \in 1..next |-> i]
  BY DEF Init, Upto
<1> QED
  BY <1>1, <1>2, <1>3 DEF Init, Queue!Init, Queue!Upto

\* Every step is one of the queue, or leaves the queue as it is, unless it is
\* a commit that overruns.
LEMMA QueueStep == Inv /\ Inv' /\ [Next]_vars => [~Overrun => Queue!Next]_(Queue!vars)
<1> SUFFICES ASSUME Inv, Inv', [Next]_vars, ~Overrun
             PROVE  Queue!Next \/ UNCHANGED <<Readable, next, output>>
  BY DEF Queue!vars
<1>1. ASSUME NEW n \in 0..MaxOp, PrepareBehind(n) \/ PrepareMoving(n)
      PROVE  UNCHANGED <<Readable, next, output>>
  <2>1. n \in Nat
    BY ConstantsAssumption
  <2>2. UNCHANGED <<next, output>>
    BY <1>1 DEF PrepareBehind, PrepareMoving
  <2> QED
    BY <1>1, <2>1, <2>2, PrepareKeeps
<1>2. ASSUME UNCHANGED vars
      PROVE  UNCHANGED <<Readable, next, output>>
  BY <1>2 DEF vars, Readable, ReadableSize
<1>3. ASSUME NEW k \in 0..MaxOp, Commit(k)
      PROVE  Queue!Put
  <2>1. k \in Nat /\ next \in Nat
    BY ConstantsAssumption DEF Inv, TypeOK
  <2>2. next' = next + k /\ output' = output
    BY <1>3 DEF Commit
  <2>3. ~(woffset + k > Len(cells)) /\ woffset \in Nat /\ Len(cells) \in Nat
    BY <1>3 DEF Overrun, Inv, TypeOK
  <2>4. Readable' = Readable \o [i \in 1..k |-> next + i]
    <3>1. woffset + k <= Len(cells)
      BY <2>1, <2>3
    <3>2. woffset' - woffset = k
      BY <1>3, <2>1, <3>1, CommitAppends
    <3> QED
      BY <1>3, <2>1, <3>2, CommitAppends
  <2>5. next' \in Nat /\ next' >= next /\ next' - next = k
    BY <2>1, <2>2
  <2> QED
    BY <2>2, <2>4, <2>5 DEF Queue!Put
<1>4. ASSUME NEW n \in 0..MaxOp, Consume(n)
      PROVE  Queue!Get
  <2>1. n \in Nat
    BY ConstantsAssumption
  <2>2. UNCHANGED <<next, output>>
    BY <1>4 DEF Consume
  <2>3. PICK m \in 0..Len(Readable) :
          Readable' = [i \in 1..(Len(Readable) - m) |-> Readable[m + i]]
    BY <1>4, <2>1, ConsumeTakes
  <2> QED
    BY <2>2, <2>3 DEF Queue!Get
<1>5. ASSUME Release
      PROVE  Queue!HandOver
  <2>1. UNCHANGED next
    BY <1>5 DEF Release
  <2> QED
    BY <1>5, <2>1, ReleaseHandsOver DEF Queue!HandOver
<1> QED
  BY <1>1, <1>2, <1>3, <1>4, <1>5 DEF Next, PrepareThrows, Queue!Next

\* The buffer is a byte queue: what it lets be read, and releases, is all that
\* was put in, in order, whatever room prepare made and however often it moved
\* the bytes, as long as no commit reaches beyond the container.
THEOREM ImplementsQueue == Spec => QueueSpec
<1>1. Inv /\ Inv' /\ [Next]_vars => [~Overrun => Queue!Next]_(Queue!vars)
  BY QueueStep
<1> QED
  BY <1>1, QueueInit, InvAlways, PTL DEF Spec, QueueSpec
=============================================================================
