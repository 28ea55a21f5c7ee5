------------------------------ MODULE SumType -------------------------------
(***************************************************************************)
(* What a caller of expected and optional relies on: an object is on one   *)
(* side, "value", "error" or "empty", with one content.  A call that       *)
(* succeeds makes, replaces, hands on, exchanges or ends what it is about. *)
(* A call that throws moves no object to another side, unless it gives up  *)
(* what an optional held.                                                  *)
(***************************************************************************)
CONSTANTS Slots,        \* names of objects
          Data,         \* contents
          Unspecified   \* the content of which nothing is said but that it is valid

VARIABLES holds,  \* what each object holds
          threw   \* whether the last call threw

vars == <<holds, threw>>

Holding == [side : {"gone", "value", "error", "empty"}, data : Data]
Gone == [side |-> "gone", data |-> Unspecified]
Empty == [side |-> "empty", data |-> Unspecified]

\* The other objects may be used up, and stay on their side.
Kept(S) == \A s \in S : /\ holds'[s].side = holds[s].side
                        /\ holds'[s].data \in {holds[s].data, Unspecified}

Init == holds = [s \in Slots |-> Gone] /\ threw = FALSE

Put(s) == /\ holds' \in [Slots -> Holding]
          /\ Kept(Slots \ {s})
          /\ threw' = FALSE

Exchange(s, o) == /\ holds' = [holds EXCEPT ![s] = holds[o], ![o] = holds[s]]
                  /\ threw' = FALSE

Fail == /\ holds' \in [Slots -> Holding]
        /\ Kept(Slots)
        /\ threw' = TRUE

FailEmpty(s) == /\ holds[s].side \in {"value", "empty"}
                /\ holds' = [holds EXCEPT ![s] = Empty]
                /\ threw' = TRUE

Next == \/ \E s \in Slots : Put(s) \/ FailEmpty(s)
        \/ \E s, o \in Slots : Exchange(s, o)
        \/ Fail

Spec == Init /\ [][Next]_vars
=============================================================================
