----------------------------- MODULE ByteQueue ------------------------------
(***************************************************************************)
(* What a dynamic buffer promises whoever fills and drains it: bytes come  *)
(* out in the order they went in, all of them, none twice and none that    *)
(* was never put in.  The bytes put in are numbered.                       *)
(***************************************************************************)
EXTENDS Naturals, Sequences

VARIABLES readable,  \* the bytes to read
          next,      \* bytes put in so far
          output     \* what was handed over at the end

vars == <<readable, next, output>>

Upto(n) == [i \in 1..n |-> i]

\* The bytes there may be from the start.
Init == /\ next \in Nat
        /\ readable = Upto(next)
        /\ output = << >>

Put == /\ next' \in Nat /\ next' >= next
       /\ readable' = readable \o [i \in 1..(next' - next) |-> next + i]
       /\ UNCHANGED output

Get == \E n \in 0..Len(readable) :
         /\ readable' = [i \in 1..(Len(readable) - n) |-> readable[n + i]]
         /\ UNCHANGED <<next, output>>

\* The bytes left are handed over.
HandOver == /\ output' = readable
            /\ readable' = << >>
            /\ UNCHANGED next

Next == Put \/ Get \/ HandOver

Spec == Init /\ [][Next]_vars
=============================================================================
