---------------------------- MODULE TaggedUnion -----------------------------
(***************************************************************************)
(* The storage behind expected and optional: a union of a value and an     *)
(* error, and the flag has_ that says which of them is alive.              *)
(*                                                                         *)
(* Contents are told apart only by name.  The types in the union are       *)
(* described by safe: the ways to construct them that cannot throw.        *)
(***************************************************************************)
CONSTANTS Slots,        \* names of objects
          Values, Errors,
          Unspecified   \* what a moved-from or half assigned member holds

ASSUME ContentsAssumption ==
  /\ Values \cap Errors = {}
  /\ Unspecified \notin Values \cup Errors

Forms == {"expected", "void", "reference", "optional"}
Members == {"val", "err"}
Kinds == {"copy", "move", "convert"}
Data == Values \cup Errors \cup {Unspecified}

VARIABLES form,  \* which template: expected<T, E>, <void, E>, <T&, E>, optional<T>
          safe,  \* its types' constructors that do not throw
          made,  \* the objects there are
          obj,   \* their storage
          call   \* the last call

vars == <<form, safe, made, obj, call>>

Nothrow(m, k) == k \in safe[m]
Movable == Nothrow("val", "move") \/ Nothrow("err", "move")

\* The member that has_ promises: a void value and an empty optional have none.
Side(has) == IF has THEN (IF form = "void" THEN "none" ELSE "val")
             ELSE (IF form = "optional" THEN "none" ELSE "err")

\* A union before anything is constructed in it.
Blank == [has |-> FALSE, live |-> "none", data |-> Unspecified, fault |-> FALSE]

Made(has, d) == [has |-> has, live |-> Side(has), data |-> d, fault |-> FALSE]
Flagged(c, has) == [c EXCEPT !.has = has]
Blurred(c) == [c EXCEPT !.data = Unspecified]

\* A pointer may be written over; any other member has to be destroyed first.
Trivial(m) == m = "none" \/ (form = "reference" /\ m = "val")

\* destroy_at: a member that is not alive must not be destroyed.
Destroyed(c, m) == [c EXCEPT !.live = "none", !.data = Unspecified,
                             !.fault = c.fault \/ c.live # m]

\* construct_at: a member that is alive must not be constructed over.
Placed(c, m, d) == [c EXCEPT !.live = m, !.data = d,
                             !.fault = c.fault \/ ~Trivial(c.live)]

Done(c) == [cell |-> c, thrown |-> FALSE]
Threw(c) == [cell |-> c, thrown |-> TRUE]

\* What construct_at may come to; a throwing one leaves nothing constructed, and
\* may have written over a pointer that was there.
Built(c, m, k, d) ==
  {Done(Placed(c, m, d))} \cup
  (IF Nothrow(m, k) THEN {} ELSE {Threw(c)} \cup
     (IF c.live # "none" /\ Trivial(c.live)
      THEN {Threw([c EXCEPT !.live = "none", !.data = Unspecified])} ELSE {}))

\* What the assignment of a member may come to.
Assigned(c, m, d) ==
  LET on == [c EXCEPT !.fault = c.fault \/ c.live # m]
  IN {Done([on EXCEPT !.data = d]), Threw(on), Threw(Blurred(on))}

\* has_ is written last, after whatever can throw.
Then(rs, has) == {IF r.thrown THEN r ELSE Done(Flagged(r.cell, has)) : r \in rs}

\* What is left of an object whose member was passed on in the way k.
Spent(c, k) == IF k = "move" /\ ~Trivial(c.live) THEN {c, Blurred(c)} ELSE {c}

-----------------------------------------------------------------------------
Called(op, s, side, thrown) == call' = [op |-> op, on |-> s, side |-> side, thrown |-> thrown]

\* A call changes s only, or s and the object its content comes from.
Commit(op, s, side, r) ==
  /\ s \in made
  /\ obj' = [obj EXCEPT ![s] = r.cell]
  /\ Called(op, s, side, r.thrown)
  /\ UNCHANGED <<form, safe, made>>

CommitFrom(op, s, o, k, r) ==
  /\ {s, o} \subseteq made
  /\ \E c \in Spent(obj[o], k) : obj' = [obj EXCEPT ![o] = c, ![s] = r.cell]
  /\ Called(op, s, obj[o].has, r.thrown)
  /\ UNCHANGED <<form, safe, made>>

\* A constructor that throws leaves no object.
Create(s, r) ==
  /\ s \in Slots \ made
  /\ made' = IF r.thrown THEN made ELSE made \cup {s}
  /\ obj' = [obj EXCEPT ![s] = IF r.thrown THEN Blank ELSE r.cell]
  /\ Called("make", s, r.cell.has, r.thrown)
  /\ UNCHANGED <<form, safe>>

CreateFrom(s, o, k, r) ==
  /\ s \in Slots \ made /\ o \in made
  /\ made' = IF r.thrown THEN made ELSE made \cup {s}
  /\ \E c \in Spent(obj[o], k) :
       obj' = [obj EXCEPT ![o] = c, ![s] = IF r.thrown THEN Blank ELSE r.cell]
  /\ Called("make", s, r.cell.has, r.thrown)
  /\ UNCHANGED <<form, safe>>

\* and_then and its like: either f is called with what o holds, and makes any of
\* results or throws, or what o holds is passed on unseen.
Chain(s, o, k, called, results, passed) ==
  \E r \in IF called THEN {Done(c) : c \in results} \cup {Threw(Blank)} ELSE passed :
    CreateFrom(s, o, k, r)

\* Any object a callable may return.
Results == {Made(TRUE, d) : d \in Values} \cup {Made(FALSE, d) : d \in Errors}

\* value(), value_or() and the like on an rvalue move the content out; value()
\* without a value throws, and moves the error into the exception.
TakeValue(s, k) ==
  /\ s \in made
  /\ \E c \in Spent(obj[s], k) : obj' = [obj EXCEPT ![s] = c]
  /\ Called("take", s, obj[s].has, ~obj[s].has)
  /\ UNCHANGED <<form, safe, made>>

\* error(), error_or() likewise; its precondition is that there is an error.
TakeError(s, k) ==
  /\ s \in made /\ ~obj[s].has
  /\ \E c \in Spent(obj[s], k) : obj' = [obj EXCEPT ![s] = c]
  /\ Called("take", s, FALSE, FALSE)
  /\ UNCHANGED <<form, safe, made>>
=============================================================================
