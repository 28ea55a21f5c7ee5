------------------------------ MODULE SumTypes ------------------------------
(***************************************************************************)
(* Objects of one of the templates, made, assigned, exchanged and ended in *)
(* any order, over types any of whose constructors may throw.              *)
(***************************************************************************)
EXTENDS Expected, ExpectedVoid, ExpectedRef, Optional

\* Nothing that void and a pointer take part in can throw; an optional has no error.
Init ==
  /\ form \in Forms
  /\ safe \in [Members -> SUBSET Kinds]
  /\ form \in {"void", "reference"} => safe["val"] = Kinds
  /\ form = "optional" => safe["err"] = Kinds
  /\ made = {}
  /\ obj = [s \in Slots |-> Blank]
  /\ call \in [op : {"end"}, on : Slots, side : {FALSE}, thrown : {FALSE}]

Next == ExpectedNext \/ VoidNext \/ RefNext \/ OptNext

Spec == Init /\ [][Next]_vars

-----------------------------------------------------------------------------
Cells == [has : BOOLEAN, live : Members \cup {"none"}, data : Data, fault : BOOLEAN]

TypeOK ==
  /\ form \in Forms
  /\ safe \in [Members -> SUBSET Kinds]
  /\ made \subseteq Slots
  /\ obj \in [Slots -> Cells]
  /\ call \in [op : {"make", "assign", "emplace", "swap", "take", "reset", "end"},
               on : Slots, side : BOOLEAN, thrown : BOOLEAN]
  \* Where there is no object, no member is alive.
  /\ \A s \in Slots \ made : obj[s] = [Blank EXCEPT !.fault = obj[s].fault]

\* The templates that destroy what they hold.
Owning == form \in {"expected", "void", "optional"}

\* has_ names the member that is alive.
FlagTellsMember == Owning => \A s \in made : obj[s].live = Side(obj[s].has)

\* No member is destroyed twice, destroyed or assigned without having been
\* constructed, or constructed over one that was never destroyed.
NoMemberTwice == Owning => \A s \in Slots : ~obj[s].fault

\* After every call, also one that threw, the flag is right and each member that
\* was constructed is destroyed once (the pairs of destroy_at and construct_at in
\* expected.hpp 211-232, 431-552, 948-1006 and optional.hpp 180-332).
MemberIsSound == FlagTellsMember /\ NoMemberTwice

\* An expected<T&, E> that says it has a value can be dereferenced, if no
\* constructor of its error throws (expected.hpp 1778-1851, 2170-2208).
PointerIsValid ==
  (form = "reference" /\ safe["err"] = Kinds) => \A s \in made : obj[s].has => obj[s].live = "val"

\* An assignment that would change sides and throws leaves the object as it was
\* (reinit_expected, expected.hpp 211-232, and the assignments of optional.hpp).
AllOrNothing ==
  [][(Owning /\ call'.thrown /\ call'.op = "assign" /\ obj[call'.on].has # call'.side)
       => obj'[call'.on] = obj[call'.on]]_vars

\* Each call does what it is for: one object changes, or two are exchanged, and a
\* call that throws changes no side (SumType; all of expected.hpp and optional.hpp).
Held(s) ==
  [side |-> CASE ~Owning \/ s \notin made -> "gone"
              [] Owning /\ s \in made /\ obj[s].has -> "value"
              [] OTHER -> IF form = "optional" THEN "empty" ELSE "error",
   data |-> IF Owning /\ s \in made THEN obj[s].data ELSE Unspecified]

Sums == INSTANCE SumType WITH holds <- [s \in Slots |-> Held(s)], threw <- Owning /\ call.thrown

SumSpec == Sums!Spec
=============================================================================
