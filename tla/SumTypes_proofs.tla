-------------------------- MODULE SumTypes_proofs ---------------------------
(***************************************************************************)
(* Theorems about SumTypes for any number of objects, any contents and any *)
(* choice of constructors that throw.                                      *)
(*                                                                         *)
(* Sound is the invariant; Fit says of one outcome of an operation on a    *)
(* union what the invariant, the refinement and AllOrNothing need of it.   *)
(* Lemmas show that every operation's outcomes fit, and that committing a  *)
(* fitting outcome is a good step.                                         *)
(***************************************************************************)
EXTENDS SumTypes, TLAPS

\* Where no member is alive there is no content to tell apart.
NothingHeld == Owning => \A s \in made : obj[s].live = "none" => obj[s].data = Unspecified

Sound == TypeOK /\ FlagTellsMember /\ NoMemberTwice /\ NothingHeld

\* What Sound says of one object that is made.
Whole(c) == /\ c \in Cells
            /\ Owning => /\ c.live = Side(c.has) /\ ~c.fault
                         /\ c.live = "none" => c.data = Unspecified

Outcomes == [cell : Cells, thrown : BOOLEAN]

\* An outcome of an operation on a union that held c.
Fit(c, r) == /\ r \in Outcomes /\ Whole(r.cell)
             /\ Owning /\ r.thrown => r.cell.has = c.has /\ r.cell.data \in {c.data, Unspecified}

\* What any step has to come to.
GoodStep == /\ Sound'
            /\ Sums!Next \/ UNCHANGED Sums!vars
            /\ (Owning /\ call'.thrown /\ call'.op = "assign" /\ obj[call'.on].has # call'.side)
                 => obj'[call'.on] = obj[call'.on]

Ops == {"make", "assign", "emplace", "swap", "take", "reset", "end"}

\* What Sound says of one object.
LEMMA SoundSlot ==
  ASSUME Sound, NEW s \in Slots
  PROVE  /\ obj[s] \in Cells
         /\ s \in made => Whole(obj[s])
         /\ Owning => ~obj[s].fault
         /\ s \notin made => obj[s] = [Blank EXCEPT !.fault = obj[s].fault]
BY DEF Sound, TypeOK, FlagTellsMember, NoMemberTwice, NothingHeld, Whole

\* What is left of an object that was passed on is whole, and on its side.
LEMMA SpentWhole ==
  ASSUME NEW c, Whole(c), NEW k, NEW d \in Spent(c, k)
  PROVE  Whole(d) /\ d.has = c.has /\ d.data \in {c.data, Unspecified}
BY DEF Whole, Spent, Blurred, Cells, Data

-----------------------------------------------------------------------------
(* Steps seen as steps of SumType.                                         *)

\* Two states of an object that SumType may not tell apart but by its being used.
SameSide(t) == /\ t \in made' <=> t \in made
               /\ t \in made => /\ obj'[t].has = obj[t].has
                               /\ obj'[t].data \in {obj[t].data, Unspecified}

\* What an object holds, in terms of its storage.
LEMMA HeldIs ==
  ASSUME Sound, NEW s \in Slots
  PROVE  /\ ~Owning \/ s \notin made => Held(s) = Sums!Gone
         /\ Owning /\ s \in made =>
              Held(s) = [side |-> IF obj[s].has THEN "value"
                                  ELSE IF form = "optional" THEN "empty" ELSE "error",
                         data |-> obj[s].data]
         /\ Held(s) \in Sums!Holding
BY SoundSlot DEF Held, Sums!Gone, Sums!Holding, Cells, Data

\* The same of the next state.
LEMMA HeldBecomes ==
  ASSUME Sound', NEW s \in Slots
  PROVE  /\ ~Owning' \/ s \notin made' => Held(s)' = Sums!Gone
         /\ Owning' /\ s \in made' =>
              Held(s)' = [side |-> IF obj'[s].has THEN "value"
                                   ELSE IF form' = "optional" THEN "empty" ELSE "error",
                          data |-> obj'[s].data]
         /\ Held(s)' \in Sums!Holding
<1>1. obj'[s] \in Cells
  BY DEF Sound, TypeOK
<1> QED
  BY <1>1 DEF Held, Sums!Gone, Sums!Holding, Cells, Data

\* A reference is not seen by SumType.
LEMMA ReferenceStep ==
  ASSUME Sound, Sound', form' = form, ~Owning
  PROVE  UNCHANGED Sums!vars
<1>1. ~Owning'
  BY DEF Owning
<1>2. \A s \in Slots : Held(s) = Sums!Gone /\ Held(s)' = Sums!Gone
  BY <1>1, HeldIs, HeldBecomes
<1> QED
  BY <1>1, <1>2 DEF Sums!vars

\* An object that stays on its side is kept in the sense of SumType.
LEMMA SameSideKept ==
  ASSUME Sound, Sound', form' = form, NEW t \in Slots, SameSide(t)
  PROVE  Held(t)'.side = Held(t).side /\ Held(t)'.data \in {Held(t).data, Unspecified}
<1>1. Owning' <=> Owning
  BY DEF Owning
<1> QED
  BY <1>1, HeldIs, HeldBecomes DEF SameSide, Sums!Gone

\* A successful call that changes one object's side at most.
LEMMA PutStep ==
  ASSUME Sound, Sound', form' = form, NEW s \in Slots, ~call'.thrown,
         \A t \in Slots \ {s} : SameSide(t)
  PROVE  Sums!Next \/ UNCHANGED Sums!vars
<1>1. \A t \in Slots : Held(t)' \in Sums!Holding
  BY HeldBecomes
<1>2. Sums!Kept(Slots \ {s})
  BY SameSideKept DEF Sums!Kept
<1>3. Sums!Put(s)
  BY <1>1, <1>2 DEF Sums!Put
<1> QED
  BY <1>3 DEF Sums!Next

\* A call that throws and changes no object's side.
LEMMA FailStep ==
  ASSUME Sound, Sound', form' = form, call'.thrown,
         \A t \in Slots : SameSide(t)
  PROVE  Sums!Next \/ UNCHANGED Sums!vars
<1>1. CASE ~Owning
  BY <1>1, ReferenceStep
<1>2. CASE Owning
  <2>1. \A t \in Slots : Held(t)' \in Sums!Holding
    BY HeldBecomes
  <2>2. Sums!Kept(Slots)
    BY SameSideKept DEF Sums!Kept
  <2>3. (Owning /\ call.thrown)' = TRUE
    BY <1>2 DEF Owning, Sound, TypeOK
  <2>4. Sums!Fail
    BY <2>1, <2>2, <2>3 DEF Sums!Fail
  <2> QED
    BY <2>4 DEF Sums!Next
<1> QED
  BY <1>1, <1>2

-----------------------------------------------------------------------------
(* Committing an outcome.                                                  *)

\* A blank union is a cell.
LEMMA BlankCell == Blank \in Cells
BY DEF Blank, Cells, Data

\* A cell in which nothing is alive is what is left of an object.
LEMMA EndCell ==
  ASSUME NEW c \in Cells, c.has = FALSE, c.live = "none", c.data = Unspecified
  PROVE  c = [Blank EXCEPT !.fault = c.fault]
<1> DEFINE b == [Blank EXCEPT !.fault = c.fault]
<1>1. b \in Cells /\ b.has = FALSE /\ b.live = "none" /\ b.data = Unspecified /\ b.fault = c.fault
  BY DEF Blank, Cells, Data
<1> HIDE DEF b
<1>2. c = b
  BY <1>1 DEF Cells
<1> QED
  BY <1>2 DEF b

\* An outcome that fits is committed by a good step.
LEMMA CommitGood ==
  ASSUME Sound, NEW s \in Slots, NEW op \in Ops, NEW side \in BOOLEAN, NEW r,
         Fit(obj[s], r), Commit(op, s, side, r),
         Owning /\ op = "assign" /\ r.thrown /\ obj[s].has # side => r.cell = obj[s]
  PROVE  GoodStep
<1> USE DEF Commit, Called
<1>1. Sound'
  BY DEF Sound, TypeOK, FlagTellsMember, NoMemberTwice, NothingHeld, Fit, Whole, Outcomes, Ops, Owning, Side
<1>2. \A t \in Slots \ {s} : SameSide(t)
  BY DEF SameSide, Sound, TypeOK
<1>3. CASE r.thrown /\ Owning
  <2>1. SameSide(s)
    BY <1>3 DEF SameSide, Fit, Sound, TypeOK
  <2> QED
    BY <1>1, <1>2, <1>3, <2>1, FailStep DEF GoodStep, Sound, TypeOK
<1>4. CASE ~r.thrown /\ Owning
  BY <1>1, <1>2, <1>4, PutStep DEF GoodStep
<1>5. CASE ~Owning
  BY <1>1, <1>5, ReferenceStep DEF GoodStep
<1> QED
  BY <1>3, <1>4, <1>5 DEF Fit, Outcomes

\* The same for an outcome that uses another object up.
LEMMA CommitFromGood ==
  ASSUME Sound, NEW s \in Slots, NEW o \in Slots, NEW k, NEW r,
         Fit(obj[s], r), CommitFrom("assign", s, o, k, r),
         Owning /\ r.thrown /\ obj[s].has # obj[o].has => r.cell = obj[s]
  PROVE  GoodStep
<1> USE DEF CommitFrom, Called
<1>1. PICK c \in Spent(obj[o], k) : obj' = [obj EXCEPT ![o] = c, ![s] = r.cell]
  OBVIOUS
<1>2. Whole(c) /\ c.has = obj[o].has /\ c.data \in {obj[o].data, Unspecified}
  BY <1>1, SoundSlot, SpentWhole
<1>3. obj'[s] = r.cell /\ (o # s => obj'[o] = c) /\ \A t \in Slots \ {s, o} : obj'[t] = obj[t]
  BY <1>1 DEF Sound, TypeOK
<1>4. obj' \in [Slots -> Cells]
  BY <1>1, <1>2 DEF Sound, TypeOK, Fit, Whole, Outcomes
<1>5. obj[o].has \in BOOLEAN
  BY SoundSlot DEF Cells
<1>6. Sound'
  BY <1>2, <1>3, <1>4, <1>5
  DEF Sound, TypeOK, FlagTellsMember, NoMemberTwice, NothingHeld, Fit, Whole, Outcomes, Ops, Owning, Side
<1>7. \A t \in Slots \ {s} : SameSide(t)
  BY <1>2, <1>3 DEF SameSide
<1>8. CASE r.thrown /\ Owning
  <2>1. SameSide(s)
    BY <1>3, <1>8 DEF SameSide, Fit
  <2> QED
    BY <1>3, <1>6, <1>7, <1>8, <2>1, FailStep DEF GoodStep, Sound, TypeOK
<1>9. CASE ~r.thrown /\ Owning
  BY <1>6, <1>7, <1>9, PutStep DEF GoodStep
<1>10. CASE ~Owning
  BY <1>6, <1>10, ReferenceStep DEF GoodStep
<1> QED
  BY <1>8, <1>9, <1>10 DEF Fit, Outcomes

\* A constructor's outcome: nothing fits an object that was not made.
LEMMA CreateGood ==
  ASSUME Sound, NEW s \in Slots, NEW r \in Outcomes,
         ~r.thrown => Whole(r.cell), Create(s, r)
  PROVE  GoodStep
<1> USE DEF Create, Called
<1>1. obj'[s] = (IF r.thrown THEN Blank ELSE r.cell) /\ \A t \in Slots \ {s} : obj'[t] = obj[t]
  BY DEF Sound, TypeOK
<1>2. obj' \in [Slots -> Cells]
  BY BlankCell DEF Sound, TypeOK, Whole
<1>3. Sound'
  <2>1. made' \subseteq Slots /\ (s \in made' <=> ~r.thrown) /\ \A t \in Slots \ {s} : t \in made' <=> t \in made
    BY DEF Sound, TypeOK, Outcomes
  <2>2. call' \in [op : Ops, on : Slots, side : BOOLEAN, thrown : BOOLEAN]
    BY DEF Outcomes, Cells, Ops
  <2>3. \A t \in Slots \ made' : obj'[t] = [Blank EXCEPT !.fault = obj'[t].fault]
    <3>1. Blank = [Blank EXCEPT !.fault = Blank.fault]
      BY BlankCell, EndCell DEF Blank
    <3>2. ASSUME NEW t \in Slots \ made' PROVE (t = s /\ obj'[t] = Blank) \/ (t \notin made /\ obj'[t] = obj[t])
      BY <1>1, <2>1, <3>2
    <3> QED
      BY <3>1, <3>2, SoundSlot
  <2>4. TypeOK'
    BY <1>1, <1>2, <2>1, <2>2, <2>3 DEF Sound, TypeOK, Ops
  <2>5. Owning' => \A t \in Slots : ~obj'[t].fault
    BY <1>1, <1>2, SoundSlot DEF Owning, Whole, Blank
  <2>6. ASSUME Owning', NEW t \in made' 
        PROVE  obj'[t].live = Side(obj[t].has)' /\ (obj'[t].live = "none" => obj'[t].data = Unspecified)
    <3>1. Owning /\ Whole(obj'[t])
      BY <1>1, <1>2, <2>1, <2>6, SoundSlot DEF Owning, Whole
    <3> QED
      BY <3>1 DEF Whole, Side
  <2> QED
    BY <2>4, <2>5, <2>6 DEF Sound, FlagTellsMember, NoMemberTwice, NothingHeld
<1>4. \A t \in Slots \ {s} : SameSide(t)
  BY <1>1 DEF SameSide
<1>5. CASE r.thrown
  BY <1>1, <1>3, <1>4, <1>5, FailStep DEF GoodStep, SameSide, Sound, TypeOK
<1>6. CASE ~r.thrown
  BY <1>3, <1>4, <1>6, PutStep DEF GoodStep
<1> QED
  BY <1>5, <1>6 DEF Outcomes

\* The same for one that takes its content from another object.
LEMMA CreateFromGood ==
  ASSUME Sound, NEW s \in Slots, NEW o \in Slots, NEW k, NEW r \in Outcomes,
         ~r.thrown => Whole(r.cell), CreateFrom(s, o, k, r)
  PROVE  GoodStep
<1> USE DEF CreateFrom, Called
<1>1. PICK c \in Spent(obj[o], k) :
        obj' = [obj EXCEPT ![o] = c, ![s] = IF r.thrown THEN Blank ELSE r.cell]
  OBVIOUS
<1>2. Whole(c) /\ c.has = obj[o].has /\ c.data \in {obj[o].data, Unspecified}
  BY <1>1, SoundSlot, SpentWhole
<1>3. /\ o # s
      /\ obj'[s] = IF r.thrown THEN Blank ELSE r.cell
      /\ obj'[o] = c
      /\ \A t \in Slots \ {s, o} : obj'[t] = obj[t]
  BY <1>1 DEF Sound, TypeOK
<1>4. obj' \in [Slots -> Cells]
  BY <1>1, <1>2, BlankCell DEF Sound, TypeOK, Whole
<1>5. Sound'
  <2>1. made' \subseteq Slots /\ (s \in made' <=> ~r.thrown) /\ \A t \in Slots \ {s} : t \in made' <=> t \in made
    BY DEF Sound, TypeOK, Outcomes
  <2>2. call' \in [op : Ops, on : Slots, side : BOOLEAN, thrown : BOOLEAN]
    BY DEF Outcomes, Cells, Ops
  <2>3. \A t \in Slots \ made' : obj'[t] = [Blank EXCEPT !.fault = obj'[t].fault]
    <3>1. Blank = [Blank EXCEPT !.fault = Blank.fault]
      BY BlankCell, EndCell DEF Blank
    <3>2. ASSUME NEW t \in Slots \ made' PROVE (t = s /\ obj'[t] = Blank) \/ (t \notin made /\ obj'[t] = obj[t])
      BY <1>3, <2>1, <3>2
    <3> QED
      BY <3>1, <3>2, SoundSlot
  <2>4. TypeOK'
    BY <1>2, <1>3, <1>4, <2>1, <2>2, <2>3 DEF Sound, TypeOK, Ops
  <2>5. Owning' => \A t \in Slots : ~obj'[t].fault
    BY <1>2, <1>3, <1>4, SoundSlot DEF Owning, Whole, Blank
  <2>6. ASSUME Owning', NEW t \in made' 
        PROVE  obj'[t].live = Side(obj[t].has)' /\ (obj'[t].live = "none" => obj'[t].data = Unspecified)
    <3>1. Owning /\ Whole(obj'[t])
      BY <1>2, <1>3, <1>4, <2>1, <2>6, SoundSlot DEF Owning, Whole
    <3> QED
      BY <3>1 DEF Whole, Side
  <2> QED
    BY <2>4, <2>5, <2>6 DEF Sound, FlagTellsMember, NoMemberTwice, NothingHeld
<1>6. \A t \in Slots \ {s} : SameSide(t)
  BY <1>2, <1>3 DEF SameSide
<1>7. CASE r.thrown
  BY <1>3, <1>5, <1>6, <1>7, FailStep DEF GoodStep, SameSide, Sound, TypeOK
<1>8. CASE ~r.thrown
  BY <1>5, <1>6, <1>8, PutStep DEF GoodStep
<1> QED
  BY <1>7, <1>8 DEF Outcomes

\* What Chain creates is what f returned, or what was passed on.
LEMMA ChainGood ==
  ASSUME Sound, NEW s \in Slots, NEW o \in Slots, NEW k, NEW called, NEW results, NEW passed,
         \A c \in results : Whole(c),
         \A r \in passed : r \in Outcomes /\ (~r.thrown => Whole(r.cell)),
         Chain(s, o, k, called, results, passed)
  PROVE  GoodStep
<1>1. PICK r \in IF called THEN {Done(c) : c \in results} \cup {Threw(Blank)} ELSE passed :
        CreateFrom(s, o, k, r)
  BY DEF Chain
<1>2. r \in Outcomes /\ (~r.thrown => Whole(r.cell))
  <2>1. CASE ~called
    BY <1>1, <2>1
  <2>2. CASE called /\ r = Threw(Blank)
    BY <2>2, BlankCell DEF Threw, Outcomes
  <2>3. CASE called /\ \E c \in results : r = Done(c)
    BY <2>3 DEF Done, Outcomes, Whole
  <2> QED
    BY <1>1, <2>1, <2>2, <2>3
<1> QED
  BY <1>1, <1>2, CreateFromGood

\* Reading the content out moves no object to another side.
LEMMA TakeGood ==
  ASSUME Sound, NEW s \in Slots, NEW k, TakeValue(s, k) \/ TakeError(s, k)
  PROVE  GoodStep
<1> USE DEF TakeValue, TakeError, Called
<1>1. PICK c \in Spent(obj[s], k) : obj' = [obj EXCEPT ![s] = c]
  OBVIOUS
<1>2. Whole(obj[s]) /\ obj[s] \in Cells
  BY SoundSlot
<1>3. Whole(c) /\ c.has = obj[s].has /\ c.data \in {obj[s].data, Unspecified}
  BY <1>1, <1>2, SpentWhole
<1>4. Sound'
  <2>1. obj' \in [Slots -> Cells] /\ \A t \in Slots : obj'[t] = IF t = s THEN c ELSE obj[t]
    BY <1>1, <1>3 DEF Sound, TypeOK, Whole
  <2>2. call' \in [op : Ops, on : Slots, side : BOOLEAN, thrown : BOOLEAN]
    <3>1. obj[s].has \in BOOLEAN
      BY <1>2 DEF Cells
    <3>2. CASE call' = [op |-> "take", on |-> s, side |-> obj[s].has, thrown |-> ~obj[s].has]
      BY <3>1, <3>2 DEF Ops
    <3>3. CASE call' = [op |-> "take", on |-> s, side |-> FALSE, thrown |-> FALSE]
      BY <3>3 DEF Ops
    <3> QED
      BY <3>2, <3>3
  <2> QED
    BY <1>3, <2>1, <2>2
    DEF Sound, TypeOK, FlagTellsMember, NoMemberTwice, NothingHeld, Whole, Ops, Owning, Side
<1>5. \A t \in Slots : SameSide(t)
  BY <1>1, <1>3 DEF SameSide, Sound, TypeOK
<1>6. CASE call'.thrown
  BY <1>4, <1>5, <1>6, FailStep DEF GoodStep
<1>7. CASE ~call'.thrown
  BY <1>4, <1>5, <1>7, PutStep DEF GoodStep
<1> QED
  BY <1>6, <1>7

-----------------------------------------------------------------------------
(* The operations on one union.                                            *)

\* Outcomes of calls that return, and of calls that throw.
LEMMA OutcomeIs ==
  ASSUME NEW c \in Cells
  PROVE  /\ Done(c) \in Outcomes /\ Done(c).cell = c /\ Done(c).thrown = FALSE
         /\ Threw(c) \in Outcomes /\ Threw(c).cell = c /\ Threw(c).thrown = TRUE
BY DEF Done, Threw, Outcomes

\* What construct_at may come to.
LEMMA BuiltIs ==
  ASSUME NEW c \in Cells, NEW m \in Members, NEW k, NEW d \in Data, NEW r \in Built(c, m, k, d)
  PROVE  /\ r \in Outcomes
         /\ ~r.thrown => r.cell = Placed(c, m, d)
         /\ r.thrown /\ Owning => r.cell = c
         /\ r.thrown => ~Nothrow(m, k)
<1>1. Placed(c, m, d) \in Cells /\ [c EXCEPT !.live = "none", !.data = Unspecified] \in Cells
  BY DEF Placed, Cells, Data
<1>2. \/ r = Done(Placed(c, m, d))
      \/ ~Nothrow(m, k) /\ r = Threw(c)
      \/ ~Nothrow(m, k) /\ ~Owning /\ r = Threw([c EXCEPT !.live = "none", !.data = Unspecified])
  BY DEF Built, Owning, Trivial
<1> QED
  BY <1>1, <1>2, OutcomeIs

\* Constructing where nothing is alive, with the flag to follow.
LEMMA BuildFits ==
  ASSUME NEW c, Whole(c), Owning => c.live = "none", NEW m \in Members, NEW k, NEW d \in Data,
         NEW has \in BOOLEAN, Side(has) = m, NEW r \in Then(Built(c, m, k, d), has)
  PROVE  /\ Fit(c, r)
         /\ Owning /\ r.thrown => r.cell = c
         /\ ~r.thrown => r.cell.has = has /\ r.cell.data = d
<1>1. PICK b \in Built(c, m, k, d) : r = IF b.thrown THEN b ELSE Done(Flagged(b.cell, has))
  BY DEF Then
<1>2. /\ b \in Outcomes
      /\ ~b.thrown => b.cell = Placed(c, m, d)
      /\ b.thrown /\ Owning => b.cell = c
  BY BuiltIs DEF Whole
<1>3. Placed(c, m, d) \in Cells
  BY DEF Placed, Whole, Cells
<1>4. CASE b.thrown
  BY <1>1, <1>2, <1>4 DEF Fit, Outcomes, Whole
<1>5. CASE ~b.thrown
  BY <1>1, <1>2, <1>3, <1>5 DEF Fit, Outcomes, Whole, Done, Flagged, Placed, Cells, Trivial, Members
<1> QED
  BY <1>2, <1>4, <1>5 DEF Outcomes

\* Constructing a new object's member.
LEMMA NewFits ==
  ASSUME NEW m \in Members, NEW k, NEW d \in Data, NEW has \in BOOLEAN, Side(has) = m,
         NEW r \in Then(Built(Blank, m, k, d), has)
  PROVE  r \in Outcomes /\ (~r.thrown => Whole(r.cell))
<1>1. PICK b \in Built(Blank, m, k, d) : r = IF b.thrown THEN b ELSE Done(Flagged(b.cell, has))
  BY DEF Then
<1>2. b \in Outcomes /\ (~b.thrown => b.cell = Placed(Blank, m, d))
  BY <1>1, BlankCell, BuiltIs
<1> QED
  BY <1>1, <1>2, BlankCell DEF Outcomes, Whole, Done, Flagged, Placed, Blank, Cells, Trivial, Members

\* Assigning the member that is alive.
LEMMA AssignFits ==
  ASSUME NEW c, Whole(c), NEW m \in Members, Owning => m = Side(c.has), NEW d \in Data,
         NEW r \in Assigned(c, m, d)
  PROVE  Fit(c, r)
<1> DEFINE on == [c EXCEPT !.fault = c.fault \/ c.live # m]
<1>1. c \in Cells /\ on \in Cells /\ (Owning => on = c)
  BY DEF Whole, Cells
<1>2. [on EXCEPT !.data = d] \in Cells /\ Blurred(on) \in Cells
  BY <1>1, ZenonT(40) DEF Cells, Data, Blurred
<1>3. r \in {Done([on EXCEPT !.data = d]), Threw(on), Threw(Blurred(on))}
  BY DEF Assigned
<1>4. /\ [on EXCEPT !.data = d].has = on.has /\ [on EXCEPT !.data = d].live = on.live
      /\ [on EXCEPT !.data = d].fault = on.fault
      /\ Blurred(on).has = on.has /\ Blurred(on).live = on.live /\ Blurred(on).fault = on.fault
      /\ Blurred(on).data = Unspecified
  BY <1>1 DEF Blurred, Cells
<1> HIDE DEF on
<1>5. CASE r = Done([on EXCEPT !.data = d])
  BY <1>1, <1>2, <1>4, <1>5, OutcomeIs DEF Fit, Whole, Members
<1>6. CASE r = Threw(on)
  BY <1>1, <1>6, OutcomeIs DEF Fit, Whole
<1>7. CASE r = Threw(Blurred(on))
  BY <1>1, <1>2, <1>4, <1>7, OutcomeIs DEF Fit, Whole
<1> QED
  BY <1>3, <1>5, <1>6, <1>7

\* The cells that callables return.
LEMMA MadeWhole ==
  ASSUME NEW has \in BOOLEAN, NEW d \in Data, Side(has) = "none" => d = Unspecified
  PROVE  Whole(Made(has, d))
BY DEF Whole, Made, Cells, Side, Members

\* The member a flag promises is one of the two where it is constructed.
LEMMA Sides ==
  /\ form \in {"expected", "reference"} => Side(TRUE) = "val" /\ Side(FALSE) = "err"
  /\ form = "void" => Side(TRUE) = "none" /\ Side(FALSE) = "err"
  /\ form = "optional" => Side(TRUE) = "val" /\ Side(FALSE) = "none"
BY DEF Side

-----------------------------------------------------------------------------
(* expected<T, E>.                                                         *)

\* What was destroyed can be constructed in.
LEMMA DestroyedIs ==
  ASSUME NEW c, Whole(c), NEW m, c.live = m
  PROVE  /\ Destroyed(c, m) \in Cells
         /\ Destroyed(c, m).live = "none" /\ Destroyed(c, m).fault = c.fault
         /\ Destroyed(c, m).has = c.has /\ Destroyed(c, m).data = Unspecified
BY DEF Destroyed, Whole, Cells, Data

\* What is constructed in an empty union is what it holds.
LEMMA PlacedIs ==
  ASSUME NEW c \in Cells, c.live = "none", NEW m \in Members, NEW d \in Data
  PROVE  /\ Placed(c, m, d) \in Cells
         /\ Placed(c, m, d).live = m /\ Placed(c, m, d).fault = c.fault
         /\ Placed(c, m, d).has = c.has /\ Placed(c, m, d).data = d
BY DEF Placed, Cells, Data, Trivial

\* What Flagged changes.
LEMMA FlaggedIs ==
  ASSUME NEW c \in Cells, NEW has \in BOOLEAN
  PROVE  /\ Flagged(c, has) \in Cells /\ Flagged(c, has).has = has
         /\ Flagged(c, has).live = c.live /\ Flagged(c, has).fault = c.fault
         /\ Flagged(c, has).data = c.data
BY DEF Flagged, Cells

\* A union is itself again when its member is put back.
LEMMA PutBack ==
  ASSUME form = "expected", NEW c, Whole(c), c.live \in Members, Nothrow(c.live, "move"),
         NEW r \in Built(Destroyed(c, c.live), c.live, "move", c.data)
  PROVE  r.cell = c
<1> DEFINE empty == Destroyed(c, c.live)
<1>1. empty \in Cells /\ empty.live = "none" /\ c.data \in Data
  BY DestroyedIs DEF Whole, Cells
<1>2. ~r.thrown /\ r \in Outcomes /\ r.cell = Placed(empty, c.live, c.data)
  BY <1>1, BuiltIs DEF Outcomes
<1>3. c \in Cells /\ c.fault = FALSE
  BY DEF Owning, Whole, Cells
<1>4. /\ r.cell \in Cells /\ r.cell.live = c.live /\ r.cell.fault = c.fault
      /\ r.cell.has = c.has /\ r.cell.data = c.data
  BY <1>1, <1>2, PlacedIs, DestroyedIs
<1> QED
  BY <1>3, <1>4 DEF Cells

\* A union whose member gave way to another one holds the other one.
LEMMA RebuiltIs ==
  ASSUME Owning, NEW c, Whole(c), NEW m \in Members, NEW d \in Data, NEW has \in BOOLEAN, Side(has) = m
  PROVE  /\ Whole(Flagged(Placed(Destroyed(c, Side(c.has)), m, d), has))
         /\ Flagged(Placed(Destroyed(c, Side(c.has)), m, d), has).has = has
         /\ Flagged(Placed(Destroyed(c, Side(c.has)), m, d), has).data = d
<1> DEFINE empty == Destroyed(c, Side(c.has))
           there == Placed(empty, m, d)
<1>1. c.live = Side(c.has) /\ c.fault = FALSE /\ c \in Cells
  BY DEF Whole, Cells
<1>2. empty \in Cells /\ empty.live = "none" /\ empty.fault = FALSE
  BY <1>1, DestroyedIs
<1>3. there \in Cells /\ there.live = m /\ there.fault = FALSE /\ there.data = d
  BY <1>2, PlacedIs
<1> DEFINE c2 == Flagged(there, has)
<1>4. /\ c2 \in Cells /\ c2.has = has /\ c2.live = m /\ c2.fault = FALSE /\ c2.data = d
  <2> HIDE DEF there
  <2> QED
    BY <1>3, FlaggedIs
<1>5. Side(c2.has) = m
  BY <1>4
<1> HIDE DEF c2
<1>6. Whole(c2)
  BY <1>4, <1>5 DEF Whole, Members
<1> QED
  BY <1>4, <1>6 DEF c2

\* reinit_expected changes sides, or leaves the object as it was.
LEMMA ReinitFits ==
  ASSUME form = "expected", NEW c, Whole(c), NEW has \in BOOLEAN, c.has # has,
         NEW k, NEW d \in Data, Nothrow(Side(has), k) \/ Movable,
         NEW r \in Then(Reinit(c, Side(has), Side(c.has), k, d), has)
  PROVE  Fit(c, r) /\ (r.thrown => r.cell = c)
<1> DEFINE old == Side(c.has)  new == Side(has)
           empty == Destroyed(c, old)
           there == Placed(empty, new, d)
<1>1. /\ c \in Cells /\ Owning /\ c.live = old /\ c.fault = FALSE /\ c.has \in BOOLEAN
      /\ {old, new} = Members
  BY Sides DEF Whole, Owning, Cells, Members
<1>2. empty \in Cells /\ empty.live = "none" /\ empty.fault = FALSE
  BY <1>1, DestroyedIs
<1>3. there \in Cells /\ there.live = new /\ there.fault = FALSE
  BY <1>1, <1>2, PlacedIs
<1>4. PICK b \in Reinit(c, new, old, k, d) : r = IF b.thrown THEN b ELSE Done(Flagged(b.cell, has))
  BY DEF Then
<1>5. b = Done(there) \/ b = Threw(c)
  <2>1. CASE Nothrow(new, k)
    BY <1>4, <2>1 DEF Reinit
  <2>2. CASE ~Nothrow(new, k) /\ Nothrow(new, "move")
    BY <1>4, <2>2 DEF Reinit
  <2>3. CASE ~Nothrow(new, k) /\ ~Nothrow(new, "move")
    <3>1. Nothrow(old, "move")
      BY <1>1, <2>3 DEF Movable, Members
    <3>2. \A x \in Built(empty, old, "move", c.data) : x.cell = c
      BY <1>1, <3>1, PutBack
    <3> QED
      BY <1>4, <2>3, <3>2 DEF Reinit
  <2> QED
    BY <2>1, <2>2, <2>3
<1>6. CASE b = Threw(c)
  BY <1>1, <1>4, <1>6, OutcomeIs DEF Fit
<1>7. CASE b = Done(there)
  <2>1. Flagged(there, has) \in Cells /\ Whole(Flagged(there, has))
    BY <1>1, RebuiltIs DEF Whole
  <2>2. r = Done(Flagged(there, has))
    BY <1>3, <1>4, <1>7, OutcomeIs
  <2> QED
    BY <2>1, <2>2, OutcomeIs DEF Fit
<1> QED
  BY <1>5, <1>6, <1>7

\* Every assignment of an expected<T, E>.
LEMMA ReplacedFits ==
  ASSUME form = "expected", NEW c, Whole(c), NEW has \in BOOLEAN,
         NEW k, NEW d \in Data, Nothrow(Side(has), k) \/ Movable,
         NEW r \in Replaced(c, has, k, d)
  PROVE  Fit(c, r) /\ (r.thrown /\ c.has # has => r.cell = c)
<1>1. CASE c.has = has
  <2>1. Side(has) \in Members
    BY Sides DEF Members
  <2> QED
    BY <1>1, <2>1, AssignFits DEF Replaced
<1>2. CASE c.has # has
  BY <1>2, ReinitFits DEF Replaced
<1> QED
  BY <1>1, <1>2

\* Of two unions that change sides with each other, either both do or neither does.
LEMMA TradedFits ==
  ASSUME form = "expected", NEW h, Whole(h), NEW g, Whole(g), h.has # g.has,
         Nothrow(Side(h.has), "move"), NEW t \in Traded(h, g)
  PROVE  /\ Whole(t.hold) /\ Whole(t.give) /\ t.thrown \in BOOLEAN
         /\ ~t.thrown => /\ t.hold.has = g.has /\ t.hold.data = g.data
                         /\ t.give.has = h.has /\ t.give.data = h.data
         /\ t.thrown => /\ t.hold = h
                        /\ t.give.has = g.has /\ t.give.data \in {g.data, Unspecified}
<1> DEFINE mh == Side(h.has)  mg == Side(g.has)
           empty == Destroyed(h, mh)
           got == Flagged(Placed(empty, mg, g.data), g.has)
           gave == Flagged(Placed(Destroyed(g, mg), mh, h.data), h.has)
<1>1. /\ h \in Cells /\ g \in Cells /\ Owning
      /\ h.live = mh /\ g.live = mg /\ h.fault = FALSE /\ g.fault = FALSE
      /\ h.has \in BOOLEAN /\ g.has \in BOOLEAN /\ h.data \in Data /\ g.data \in Data
      /\ mh \in Members /\ mg \in Members
  BY Sides DEF Whole, Owning, Cells, Members
<1>2. Whole(got) /\ got.has = g.has /\ got.data = g.data
  BY <1>1, RebuiltIs
<1>3. Whole(gave) /\ gave.has = h.has /\ gave.data = h.data
  BY <1>1, RebuiltIs
<1>4. \A x \in Built(empty, mh, "move", h.data) : x.cell = h
  BY <1>1, PutBack
<1>5. CASE t = [hold |-> got, give |-> gave, thrown |-> FALSE]
  BY <1>2, <1>3, <1>5
<1>6. CASE t \in [hold : {x.cell : x \in Built(empty, mh, "move", h.data)},
                 give : Spent(g, "move"), thrown : {TRUE}]
  <2>1. t.hold = h /\ t.give \in Spent(g, "move") /\ t.thrown = TRUE
    BY <1>4, <1>6
  <2> QED
    BY <2>1, SpentWhole, ZenonT(40)
<1> QED
  BY <1>5, <1>6 DEF Traded

\* Two objects that change sides with each other exchange what they hold.
LEMMA ExchangeStep ==
  ASSUME Sound, Sound', UNCHANGED <<form, safe, made>>, NEW s \in made, NEW o \in made,
         s # o, ~call'.thrown,
         obj'[s].has = obj[o].has, obj'[s].data = obj[o].data,
         obj'[o].has = obj[s].has, obj'[o].data = obj[s].data,
         \A t \in Slots \ {s, o} : obj'[t] = obj[t]
  PROVE  Sums!Next \/ UNCHANGED Sums!vars
<1>1. CASE ~Owning
  BY <1>1, ReferenceStep
<1>2. CASE Owning
  <2>1. made \subseteq Slots /\ Owning'
    BY <1>2 DEF Sound, TypeOK, Owning
  <2>2. Held(s)' = Held(o) /\ Held(o)' = Held(s)
    BY <1>2, <2>1, HeldIs, HeldBecomes
  <2>3. \A t \in Slots \ {s, o} : Held(t)' = Held(t)
    BY <1>2, <2>1, HeldIs, HeldBecomes
  <2>4. Sums!Exchange(s, o)
    BY <1>2, <2>1, <2>2, <2>3 DEF Sums!Exchange
  <2> QED
    BY <2>1, <2>4 DEF Sums!Next
<1> QED
  BY <1>1, <1>2

\* A call that leaves the two objects it touches whole keeps the invariant.
LEMMA PairSound ==
  ASSUME Sound, UNCHANGED <<form, safe, made>>, NEW s \in made, NEW o \in made,
         call' \in [op : Ops, on : Slots, side : BOOLEAN, thrown : BOOLEAN],
         obj' \in [Slots -> Cells], Whole(obj'[s]), Whole(obj'[o]),
         \A t \in Slots \ {s, o} : obj'[t] = obj[t]
  PROVE  Sound'
<1>1. made \subseteq Slots
  BY DEF Sound, TypeOK
<1>2. TypeOK'
  BY <1>1 DEF Sound, TypeOK, Ops
<1> QED
  BY <1>1, <1>2 DEF Sound, FlagTellsMember, NoMemberTwice, NothingHeld, Whole, Owning, Side

\* A swap leaves two objects whole: if it throws each is on its side, and
\* otherwise they have exchanged what they hold, or are as they were.
LEMMA PairGood ==
  ASSUME Sound, UNCHANGED <<form, safe, made>>, NEW s \in made, NEW o \in made,
         call' \in [op : Ops, on : Slots, side : BOOLEAN, thrown : BOOLEAN], call'.op = "swap",
         obj' \in [Slots -> Cells], Whole(obj'[s]), Whole(obj'[o]),
         \A t \in Slots \ {s, o} : obj'[t] = obj[t],
         call'.thrown => /\ obj'[s].has = obj[s].has /\ obj'[s].data \in {obj[s].data, Unspecified}
                         /\ obj'[o].has = obj[o].has /\ obj'[o].data \in {obj[o].data, Unspecified},
         ~call'.thrown => \/ /\ s # o
                             /\ obj'[s].has = obj[o].has /\ obj'[s].data = obj[o].data
                             /\ obj'[o].has = obj[s].has /\ obj'[o].data = obj[s].data
                          \/ obj' = obj
  PROVE  GoodStep
<1>1. made \subseteq Slots
  BY DEF Sound, TypeOK
<1>2. Sound'
  BY PairSound
<1>3. CASE call'.thrown
  BY <1>2, <1>3, FailStep DEF GoodStep, SameSide
<1>4. CASE ~call'.thrown /\ obj' = obj
  BY <1>1, <1>2, <1>4, PutStep DEF GoodStep, SameSide
<1>5. CASE ~call'.thrown /\ obj' # obj
  BY <1>1, <1>2, <1>5, ExchangeStep DEF GoodStep
<1> QED
  BY <1>3, <1>4, <1>5

\* Committing what Traded came to.
LEMMA TradeGood ==
  ASSUME Sound, form = "expected", NEW s \in made, NEW o \in made, obj[s].has # obj[o].has,
         Nothrow(Side(obj[s].has), "move"),
         NEW t \in Traded(obj[s], obj[o]), CommitTrade(s, o, t)
  PROVE  GoodStep
<1>1. made \subseteq Slots /\ Whole(obj[s]) /\ Whole(obj[o]) /\ s # o
  BY SoundSlot DEF Sound, TypeOK
<1>2. /\ Whole(t.hold) /\ Whole(t.give) /\ t.thrown \in BOOLEAN
      /\ ~t.thrown => /\ t.hold.has = obj[o].has /\ t.hold.data = obj[o].data
                      /\ t.give.has = obj[s].has /\ t.give.data = obj[s].data
      /\ t.thrown => /\ t.hold = obj[s]
                     /\ t.give.has = obj[o].has /\ t.give.data \in {obj[o].data, Unspecified}
  BY <1>1, TradedFits
<1>3. /\ obj'[s] = t.hold /\ obj'[o] = t.give /\ \A x \in Slots \ {s, o} : obj'[x] = obj[x]
      /\ obj' \in [Slots -> Cells]
  BY <1>1, <1>2 DEF CommitTrade, Sound, TypeOK, Whole
<1>4. /\ UNCHANGED <<form, safe, made>>
      /\ call' \in [op : Ops, on : Slots, side : BOOLEAN, thrown : BOOLEAN]
      /\ call'.op = "swap" /\ call'.thrown = t.thrown
  BY <1>1, <1>2 DEF CommitTrade, Called, Ops, Whole, Cells
<1> QED
  BY <1>1, <1>2, <1>3, <1>4, PairGood

\* std::swap of two contents on the same side, when it returns.
LEMMA SwappedData ==
  ASSUME Sound, UNCHANGED <<form, safe, made>>, NEW s \in made, NEW o \in made,
         obj[s].has = obj[o].has, NEW side \in BOOLEAN, Called("swap", s, side, FALSE),
         obj' = [obj EXCEPT ![s].data = obj[o].data, ![o].data = obj[s].data]
  PROVE  GoodStep
<1>1. made \subseteq Slots /\ Whole(obj[s]) /\ Whole(obj[o]) /\ obj \in [Slots -> Cells]
  BY SoundSlot DEF Sound, TypeOK
<1>2. obj' = [t \in Slots |-> IF t = o THEN [obj[o] EXCEPT !.data = obj[s].data]
                              ELSE IF t = s THEN [obj[s] EXCEPT !.data = obj[o].data] ELSE obj[t]]
  BY <1>1 DEF Cells
<1>3. /\ [obj[o] EXCEPT !.data = obj[s].data] \in Cells /\ [obj[s] EXCEPT !.data = obj[o].data] \in Cells
  BY <1>1 DEF Whole, Cells
<1> DEFINE reported == /\ call' \in [op : Ops, on : Slots, side : BOOLEAN, thrown : BOOLEAN]
                      /\ call'.op = "swap" /\ call'.thrown = FALSE
<1>4. reported
  BY <1>1 DEF Called, Ops
<1>5. CASE s = o
  <2>1. obj' = obj
    BY <1>1, <1>2, <1>5 DEF Cells
  <2> QED
    BY <1>1, <1>4, <2>1, PairGood
<1>6. CASE s # o
  <2>1. /\ obj'[s] = [obj[s] EXCEPT !.data = obj[o].data] /\ obj'[o] = [obj[o] EXCEPT !.data = obj[s].data]
        /\ obj' \in [Slots -> Cells] /\ \A t \in Slots \ {s, o} : obj'[t] = obj[t]
    BY <1>1, <1>2, <1>3, <1>6
  <2>2. /\ obj'[s].has = obj[s].has /\ obj'[s].live = obj[s].live /\ obj'[s].fault = obj[s].fault
        /\ obj'[o].has = obj[o].has /\ obj'[o].live = obj[o].live /\ obj'[o].fault = obj[o].fault
        /\ obj'[s].data = obj[o].data /\ obj'[o].data = obj[s].data
    BY <1>1, <2>1 DEF Whole, Cells
  <2>3. Whole(obj'[s]) /\ Whole(obj'[o])
    BY <1>1, <1>3, <2>1, <2>2 DEF Whole
  <2> QED
    BY <1>1, <1>6, <1>4, <2>1, <2>2, <2>3, PairGood
<1> QED
  BY <1>5, <1>6

\* The same when it throws: the contents are used up at most.
LEMMA SwapThrew ==
  ASSUME Sound, UNCHANGED <<form, safe, made>>, NEW s \in made, NEW o \in made,
         NEW side \in BOOLEAN, Called("swap", s, side, TRUE),
         NEW x \in {obj[s], Blurred(obj[s])}, NEW y \in {obj[o], Blurred(obj[o])},
         obj' = [obj EXCEPT ![o] = y, ![s] = x]
  PROVE  GoodStep
<1>1. made \subseteq Slots /\ Whole(obj[s]) /\ Whole(obj[o]) /\ obj \in [Slots -> Cells]
  BY SoundSlot DEF Sound, TypeOK
<1>2. /\ Whole(x) /\ x.has = obj[s].has /\ x.data \in {obj[s].data, Unspecified}
      /\ Whole(y) /\ y.has = obj[o].has /\ y.data \in {obj[o].data, Unspecified}
  BY <1>1 DEF Whole, Blurred, Cells, Data
<1>3. /\ call' \in [op : Ops, on : Slots, side : BOOLEAN, thrown : BOOLEAN]
      /\ call'.op = "swap" /\ call'.thrown = TRUE
  BY <1>1 DEF Called, Ops
<1>4. /\ obj'[s] = x /\ (s # o => obj'[o] = y) /\ \A t \in Slots \ {s, o} : obj'[t] = obj[t]
      /\ obj' \in [Slots -> Cells]
  BY <1>1, <1>2 DEF Whole
<1> QED
  BY <1>1, <1>2, <1>4, <1>3, PairGood

\* A destructor leaves nothing alive.
LEMMA EndGood ==
  ASSUME Sound, NEW s \in made, UNCHANGED <<form, safe>>, made' = made \ {s},
         Called("end", s, FALSE, FALSE),
         NEW c \in Cells, c = [Blank EXCEPT !.fault = c.fault], Owning => ~c.fault,
         obj' = [obj EXCEPT ![s] = c]
  PROVE  GoodStep
<1> USE DEF Called
<1>1. made \subseteq Slots /\ obj'[s] = c /\ (\A t \in Slots \ {s} : obj'[t] = obj[t])
      /\ obj' \in [Slots -> Cells]
  BY DEF Sound, TypeOK
<1>2. Sound'
  <2>1. call' \in [op : Ops, on : Slots, side : BOOLEAN, thrown : BOOLEAN]
    BY <1>1 DEF Ops
  <2>2. \A t \in Slots \ made' : obj'[t] = [Blank EXCEPT !.fault = obj'[t].fault]
    BY <1>1, SoundSlot
  <2>3. TypeOK'
    BY <1>1, <2>1, <2>2 DEF Sound, TypeOK, Ops
  <2> QED
    BY <1>1, <2>3 DEF Sound, FlagTellsMember, NoMemberTwice, NothingHeld, Owning, Side
<1>3. \A t \in Slots \ {s} : SameSide(t)
  BY <1>1 DEF SameSide
<1> QED
  BY <1>1, <1>2, <1>3, PutStep DEF GoodStep

\* Every call of an expected<T, E>.
LEMMA ExpectedGood == ASSUME Sound, ExpectedNext PROVE GoodStep
<1>1. form = "expected" /\ Owning /\ made \subseteq Slots
  BY DEF ExpectedNext, Owning, Sound, TypeOK
<1>2. \A x \in made : Whole(obj[x]) /\ obj[x].has \in BOOLEAN /\ obj[x].data \in Data
                      /\ Side(obj[x].has) \in Members
  BY <1>1, SoundSlot, Sides DEF Whole, Cells, Members
<1>3. Values \subseteq Data /\ Errors \subseteq Data /\ Side(TRUE) = "val" /\ Side(FALSE) = "err"
      /\ "val" \in Members /\ "err" \in Members
  BY <1>1, Sides DEF Data, Members
<1>4. ASSUME NEW s \in Slots, NEW d \in Values, NewValue(s, d) PROVE GoodStep
  BY <1>3, <1>4, NewFits, CreateGood DEF NewValue
<1>5. ASSUME NEW s \in Slots, NEW d \in Errors, NEW k, NewError(s, k, d) PROVE GoodStep
  BY <1>3, <1>5, NewFits, CreateGood DEF NewError
<1>6. ASSUME NEW s \in Slots, NEW d \in Values, Emplace(s, d) PROVE GoodStep
  <2> DEFINE c2 == Flagged(Placed(Destroyed(obj[s], Side(obj[s].has)), "val", d), TRUE)
  <2>1. s \in made /\ Commit("emplace", s, TRUE, Done(c2))
    BY <1>6 DEF Emplace, Commit
  <2>2. Whole(c2)
    BY <1>1, <1>2, <1>3, <2>1, RebuiltIs
  <2> HIDE DEF c2
  <2>3. Fit(obj[s], Done(c2)) /\ Done(c2).thrown = FALSE
    BY <2>2, OutcomeIs DEF Fit, Whole
  <2> QED
    BY <2>1, <2>3, CommitGood DEF Ops
<1>7. ASSUME NEW s \in Slots, NEW d \in Values, NEW k, AssignValue(s, k, d) PROVE GoodStep
  <2>1. PICK r \in Replaced(obj[s], TRUE, k, d) : Commit("assign", s, TRUE, r)
    BY <1>7 DEF AssignValue
  <2>2. s \in made /\ (Nothrow(Side(TRUE), k) \/ Movable)
    BY <1>3, <1>7, <2>1 DEF AssignValue, Commit
  <2>3. Fit(obj[s], r) /\ (r.thrown /\ obj[s].has # TRUE => r.cell = obj[s])
    BY <1>1, <1>2, <1>3, <2>2, ReplacedFits
  <2> QED
    BY <2>1, <2>3, CommitGood DEF Ops
<1>8. ASSUME NEW s \in Slots, NEW d \in Errors, NEW k, AssignError(s, k, d) PROVE GoodStep
  <2>1. PICK r \in Replaced(obj[s], FALSE, k, d) : Commit("assign", s, FALSE, r)
    BY <1>8 DEF AssignError
  <2>2. s \in made /\ (Nothrow(Side(FALSE), k) \/ Movable)
    BY <1>3, <1>8, <2>1 DEF AssignError, Commit
  <2>3. Whole(obj[s]) /\ d \in Data /\ FALSE \in BOOLEAN
    BY <1>2, <1>3, <2>2
  <2>4. Fit(obj[s], r) /\ (r.thrown /\ obj[s].has # FALSE => r.cell = obj[s])
    BY <1>1, <2>1, <2>2, <2>3, ReplacedFits
  <2> QED
    BY <2>1, <2>4, CommitGood DEF Ops
<1>9. ASSUME NEW s \in Slots, NEW o \in Slots, NEW k, AssignFrom(s, o, k) PROVE GoodStep
  <2>1. PICK r \in Replaced(obj[s], obj[o].has, k, obj[o].data) : CommitFrom("assign", s, o, k, r)
    BY <1>9 DEF AssignFrom
  <2>2. s \in made /\ o \in made /\ Movable
    BY <1>9, <2>1 DEF AssignFrom, CommitFrom
  <2>3. Fit(obj[s], r) /\ (r.thrown /\ obj[s].has # obj[o].has => r.cell = obj[s])
    BY <1>1, <1>2, <2>2, ReplacedFits
  <2> QED
    BY <2>1, <2>3, CommitFromGood
<1>10. ASSUME NEW o \in made, NEW k, NEW r \in Passed(o, k)
       PROVE  r \in Outcomes /\ (~r.thrown => Whole(r.cell))
  BY <1>2, <1>10, NewFits DEF Passed
<1>11. ASSUME NEW s \in Slots, NEW o \in Slots, NEW k, NewFrom(s, o, k) PROVE GoodStep
  <2>1. PICK r \in Passed(o, k) : CreateFrom(s, o, k, r)
    BY <1>11 DEF NewFrom, Passed
  <2> QED
    BY <1>10, <2>1, CreateFromGood DEF CreateFrom
<1>12. ASSUME NEW s \in Slots, NEW o \in Slots, NEW k,
              AndThen(s, o, k) \/ OrElse(s, o, k) \/ Transform(s, o, k) \/ TransformError(s, o, k)
       PROVE  GoodStep
  <2>1. o \in made
    BY <1>12 DEF AndThen, OrElse, Transform, TransformError, Chain, CreateFrom
  <2>2. /\ \A d \in Values : Whole(Made(TRUE, d))
        /\ \A d \in Errors : Whole(Made(FALSE, d))
    BY <1>3, MadeWhole
  <2>3. \A c \in Results : Whole(c)
    BY <2>2 DEF Results
  <2>4. \A r \in Passed(o, k) : r \in Outcomes /\ (~r.thrown => Whole(r.cell))
    BY <1>10, <2>1
  <2>5. CASE AndThen(s, o, k)
    BY <2>3, <2>4, <2>5, ChainGood DEF AndThen
  <2>6. CASE OrElse(s, o, k)
    BY <2>3, <2>4, <2>6, ChainGood DEF OrElse
  <2>7. CASE Transform(s, o, k)
    <3>1. \A c \in {Made(TRUE, d) : d \in Values} : Whole(c)
      BY <2>2
    <3> QED
      BY <2>4, <2>7, <3>1, ChainGood DEF Transform
  <2>8. CASE TransformError(s, o, k)
    <3>1. \A c \in {Made(FALSE, d) : d \in Errors} : Whole(c)
      BY <2>2
    <3> QED
      BY <2>4, <2>8, <3>1, ChainGood DEF TransformError
  <2> QED
    BY <1>12, <2>5, <2>6, <2>7, <2>8
<1>13. ASSUME NEW s \in Slots, NEW o \in Slots, Swap(s, o) PROVE GoodStep
  <2>1. s \in made /\ o \in made /\ Movable
    BY <1>13 DEF Swap
  <2>2. CASE obj[s].has = obj[o].has /\ SwapSame(s, o)
    <3>1. UNCHANGED <<form, safe, made>>
      BY <2>2 DEF SwapSame
    <3>2. CASE /\ obj' = [obj EXCEPT ![s].data = obj[o].data, ![o].data = obj[s].data]
               /\ Called("swap", s, obj[o].has, FALSE)
      BY <1>2, <2>1, <2>2, <3>1, <3>2, SwappedData
    <3>3. CASE \E x \in {obj[s], Blurred(obj[s])}, y \in {obj[o], Blurred(obj[o])} :
                 /\ obj' = [obj EXCEPT ![o] = y, ![s] = x]
                 /\ Called("swap", s, obj[o].has, TRUE)
      <4>1. PICK x \in {obj[s], Blurred(obj[s])}, y \in {obj[o], Blurred(obj[o])} :
               /\ obj' = [obj EXCEPT ![o] = y, ![s] = x]
               /\ Called("swap", s, obj[o].has, TRUE)
        BY <3>3
      <4> QED
        BY <1>2, <2>1, <3>1, <4>1, SwapThrew
    <3> QED
      BY <2>2, <3>2, <3>3 DEF SwapSame
  <2>3. CASE obj[s].has /\ ~obj[o].has /\ Nothrow("err", "move")
    <3>1. PICK t \in Traded(obj[o], obj[s]) : CommitTrade(o, s, t)
      BY <1>13, <2>3 DEF Swap
    <3>2. obj[o].has = FALSE
      BY <1>2, <2>1, <2>3
    <3> QED
      BY <1>1, <1>3, <2>1, <2>3, <3>1, <3>2, TradeGood
  <2>4. CASE obj[s].has /\ ~obj[o].has /\ ~Nothrow("err", "move")
    <3>1. PICK t \in Traded(obj[s], obj[o]) : CommitTrade(s, o, t)
      BY <1>13, <2>4 DEF Swap
    <3>2. obj[s].has = TRUE /\ Nothrow("val", "move")
      BY <1>2, <2>1, <2>4 DEF Movable
    <3> QED
      BY <1>1, <1>3, <2>1, <2>4, <3>1, <3>2, TradeGood
  <2> QED
    BY <1>13, <2>2, <2>3, <2>4 DEF Swap
<1>14. ASSUME NEW s \in Slots, Destroy(s) PROVE GoodStep
  <2> DEFINE c2 == Flagged(Destroyed(obj[s], Side(obj[s].has)), FALSE)
  <2>1. s \in made
    BY <1>14 DEF Destroy
  <2>2. /\ Destroyed(obj[s], Side(obj[s].has)) \in Cells
        /\ Destroyed(obj[s], Side(obj[s].has)).live = "none"
        /\ Destroyed(obj[s], Side(obj[s].has)).fault = obj[s].fault
        /\ Destroyed(obj[s], Side(obj[s].has)).data = Unspecified
    BY <1>1, <1>2, <2>1, DestroyedIs DEF Whole
  <2>3. c2 \in Cells /\ c2.has = FALSE /\ c2.live = "none" /\ c2.data = Unspecified /\ c2.fault = obj[s].fault
    BY <2>2, FlaggedIs
  <2> HIDE DEF c2
  <2>4. c2 = [Blank EXCEPT !.fault = c2.fault]
    <3> DEFINE b == [Blank EXCEPT !.fault = c2.fault]
    <3>1. /\ b \in Cells /\ b.has = FALSE /\ b.live = "none" /\ b.data = Unspecified
          /\ b.fault = c2.fault
      BY <2>3 DEF Blank, Cells, Data
    <3> HIDE DEF b
    <3>2. c2 = b
      BY <2>3, <3>1 DEF Cells
    <3> QED
      BY <3>2 DEF b
  <2>5. ~c2.fault
    BY <1>1, <2>1, <2>3, SoundSlot
  <2>6. UNCHANGED <<form, safe>> /\ made' = made \ {s} /\ Called("end", s, FALSE, FALSE)
        /\ obj' = [obj EXCEPT ![s] = c2]
    BY <1>14 DEF Destroy, c2
  <2> QED
    BY <2>1, <2>3, <2>4, <2>5, <2>6, EndGood
<1> QED
  BY <1>4, <1>5, <1>6, <1>7, <1>8, <1>9, <1>11, <1>12, <1>13, <1>14, TakeGood DEF ExpectedNext

-----------------------------------------------------------------------------
(* expected<void, E>.                                                      *)

\* An error that is given up leaves a void value.
LEMMA VoidCleared ==
  ASSUME form = "void", NEW c, Whole(c), ~c.has
  PROVE  /\ Whole(Flagged(Destroyed(c, "err"), TRUE))
         /\ Flagged(Destroyed(c, "err"), TRUE).has = TRUE
         /\ Flagged(Destroyed(c, "err"), TRUE).data = Unspecified
<1>1. c \in Cells /\ c.live = "err" /\ ~c.fault
  BY Sides DEF Whole, Owning, Cells
<1> DEFINE e == Destroyed(c, "err")  v == Flagged(e, TRUE)
<1>2. e \in Cells /\ e.live = "none" /\ e.fault = c.fault /\ e.data = Unspecified
  BY <1>1, DestroyedIs
<1> HIDE DEF e
<1>3. v \in Cells /\ v.has = TRUE /\ v.live = "none" /\ v.fault = c.fault /\ v.data = Unspecified
  BY <1>2, FlaggedIs
<1> HIDE DEF v
<1>4. Whole(v)
  BY <1>1, <1>3, Sides DEF Whole
<1> QED
  BY <1>3, <1>4 DEF v, e

\* Every assignment of an expected<void, E>.
LEMMA VoidReplacedFits ==
  ASSUME form = "void", NEW c, Whole(c), NEW has \in BOOLEAN, NEW k, NEW d \in Data,
         NEW r \in VoidReplaced(c, has, k, d)
  PROVE  Fit(c, r) /\ (r.thrown /\ c.has # has => r.cell = c)
<1>1. /\ Owning /\ c \in Cells /\ c.has \in BOOLEAN /\ c.live = Side(c.has) /\ "err" \in Members
      /\ Side(FALSE) = "err" /\ Side(TRUE) = "none"
  BY Sides DEF Whole, Owning, Cells, Members
<1>2. CASE c.has /\ has
  BY <1>1, <1>2, OutcomeIs DEF VoidReplaced, Fit
<1>3. CASE c.has /\ ~has
  <2>1. r \in Then(Built(c, "err", k, d), FALSE)
    BY <1>3 DEF VoidReplaced
  <2>2. c.live = "none"
    BY <1>1, <1>3
  <2> QED
    BY <1>1, <2>1, <2>2, BuildFits
<1>4. CASE ~c.has /\ has
  <2> DEFINE v == Flagged(Destroyed(c, "err"), TRUE)
  <2>1. r = Done(v)
    BY <1>4 DEF VoidReplaced
  <2>2. Whole(v)
    BY <1>4, VoidCleared
  <2> HIDE DEF v
  <2> QED
    BY <2>1, <2>2, OutcomeIs DEF Fit, Whole
<1>5. CASE ~c.has /\ ~has
  <2>1. r \in Assigned(c, "err", d) /\ Side(c.has) = "err"
    BY <1>1, <1>5 DEF VoidReplaced
  <2> QED
    BY <1>1, <1>5, <2>1, AssignFits
<1> QED
  BY <1>1, <1>2, <1>3, <1>4, <1>5

\* A copy or a move of an expected<void, E>.
LEMMA VoidCopiedFits ==
  ASSUME form = "void", NEW c, Whole(c), NEW k, NEW r \in VoidCopied(c, k)
  PROVE  r \in Outcomes /\ (~r.thrown => Whole(r.cell))
<1>1. Side(FALSE) = "err" /\ Side(TRUE) = "none" /\ "err" \in Members /\ c.data \in Data
  BY Sides DEF Members, Whole, Cells
<1>2. CASE c.has
  <2>1. r = Done(Flagged(Blank, TRUE))
    BY <1>2 DEF VoidCopied
  <2> DEFINE v == Flagged(Blank, TRUE)
  <2>2. v \in Cells /\ v.has = TRUE /\ v.live = "none" /\ v.fault = FALSE /\ v.data = Unspecified
    BY BlankCell, FlaggedIs DEF Blank
  <2> HIDE DEF v
  <2>3. Whole(v)
    BY <1>1, <2>2 DEF Whole
  <2> QED
    BY <2>1, <2>2, <2>3, OutcomeIs DEF v
<1>3. CASE ~c.has
  BY <1>1, <1>3, NewFits DEF VoidCopied
<1> QED
  BY <1>2, <1>3

\* Where one of two has an error, swap hands it over or throws.
LEMMA VoidHandOver ==
  ASSUME Sound, form = "void", UNCHANGED <<form, safe, made>>, NEW s \in made, NEW o \in made,
         obj[s].has, ~obj[o].has,
         NEW r \in Then(Built(obj[s], "err", "move", obj[o].data), FALSE),
         NEW c \in Spent(obj[o], "move"),
         obj' = [obj EXCEPT ![s] = r.cell,
                            ![o] = IF r.thrown THEN c ELSE Flagged(Destroyed(obj[o], "err"), TRUE)],
         Called("swap", s, FALSE, r.thrown)
  PROVE  GoodStep
<1>1. /\ Owning /\ made \subseteq Slots /\ Whole(obj[s]) /\ Whole(obj[o]) /\ s # o
      /\ "err" \in Members /\ Side(FALSE) = "err" /\ Side(TRUE) = "none"
  BY SoundSlot, Sides DEF Owning, Sound, TypeOK, Members
<1>2. /\ obj[s].live = "none" /\ obj[s].data = Unspecified /\ obj[o].data \in Data
      /\ obj[s].has = TRUE /\ obj[o].has = FALSE /\ FALSE \in BOOLEAN
  BY <1>1 DEF Whole, Cells
<1>3. /\ Fit(obj[s], r) /\ (r.thrown => r.cell = obj[s])
      /\ ~r.thrown => r.cell.has = FALSE /\ r.cell.data = obj[o].data
  <2>1. ASSUME NEW old, Whole(old), old.live = "none", NEW d \in Data, NEW has \in BOOLEAN,
               Side(has) = "err", NEW q \in Then(Built(old, "err", "move", d), has)
        PROVE  Fit(old, q) /\ (q.thrown => q.cell = old)
               /\ (~q.thrown => q.cell.has = has /\ q.cell.data = d)
    BY <1>1, <2>1, BuildFits
  <2> QED
    BY <1>1, <1>2, <2>1
<1>4. r.thrown \in BOOLEAN /\ Whole(r.cell)
  BY <1>3 DEF Fit, Outcomes
<1> DEFINE v == Flagged(Destroyed(obj[o], "err"), TRUE)
<1>5. Whole(v) /\ v.has = TRUE /\ v.data = Unspecified
  BY <1>1, VoidCleared
<1>6. Whole(c) /\ c.has = obj[o].has /\ c.data \in {obj[o].data, Unspecified}
  BY <1>1, SpentWhole
<1>7. /\ obj'[s] = r.cell /\ obj'[o] = IF r.thrown THEN c ELSE v
      /\ \A x \in Slots \ {s, o} : obj'[x] = obj[x]
      /\ obj' \in [Slots -> Cells]
  BY <1>1, <1>4, <1>5, <1>6 DEF Sound, TypeOK, Whole
<1> HIDE DEF v
<1>8. Whole(obj'[s]) /\ Whole(obj'[o])
  BY <1>4, <1>5, <1>6, <1>7
<1>9. r.thrown => /\ obj'[s].has = obj[s].has /\ obj'[s].data \in {obj[s].data, Unspecified}
                  /\ obj'[o].has = obj[o].has /\ obj'[o].data \in {obj[o].data, Unspecified}
  BY <1>3, <1>6, <1>7
<1>10. ~r.thrown => /\ obj'[s].has = obj[o].has /\ obj'[s].data = obj[o].data
                    /\ obj'[o].has = obj[s].has /\ obj'[o].data = obj[s].data
  BY <1>2, <1>3, <1>5, <1>7
<1>11. /\ call' \in [op : Ops, on : Slots, side : BOOLEAN, thrown : BOOLEAN]
       /\ call'.op = "swap" /\ call'.thrown = r.thrown
  BY <1>1, <1>4 DEF Called, Ops
<1> QED
  BY <1>1, <1>7, <1>8, <1>9, <1>10, <1>11, PairGood

\* Every call of an expected<void, E>.
LEMMA VoidGood == ASSUME Sound, VoidNext PROVE GoodStep
<1>1. form = "void" /\ Owning /\ made \subseteq Slots
  BY DEF VoidNext, Owning, Sound, TypeOK
<1>2. \A x \in made : Whole(obj[x]) /\ obj[x].has \in BOOLEAN /\ obj[x].data \in Data
  BY <1>1, SoundSlot DEF Whole, Cells
<1>3. Errors \subseteq Data /\ Unspecified \in Data /\ Side(TRUE) = "none" /\ Side(FALSE) = "err"
      /\ "err" \in Members
  BY <1>1, Sides DEF Data, Members
<1>4. /\ Whole(Made(TRUE, Unspecified))
      /\ \A d \in Errors : Whole(Made(FALSE, d))
  BY <1>3, MadeWhole
<1>5. ASSUME NEW s \in Slots, VoidNewValue(s) PROVE GoodStep
  <2>1. Done(Made(TRUE, Unspecified)) \in Outcomes /\ Whole(Done(Made(TRUE, Unspecified)).cell)
    BY <1>4, OutcomeIs DEF Whole
  <2> QED
    BY <1>5, <2>1, CreateGood DEF VoidNewValue
<1>6. ASSUME NEW s \in Slots, NEW d \in Errors, NEW k, VoidNewError(s, k, d) PROVE GoodStep
  BY <1>3, <1>6, NewFits, CreateGood DEF VoidNewError
<1>7. ASSUME NEW s \in Slots, NEW d \in Errors, NEW k, VoidAssignError(s, k, d) PROVE GoodStep
  <2>1. PICK r \in VoidReplaced(obj[s], FALSE, k, d) : Commit("assign", s, FALSE, r)
    BY <1>7 DEF VoidAssignError
  <2>2. s \in made /\ Whole(obj[s]) /\ d \in Data /\ FALSE \in BOOLEAN
    BY <1>2, <1>3, <2>1 DEF Commit
  <2>3. Fit(obj[s], r) /\ (r.thrown /\ obj[s].has # FALSE => r.cell = obj[s])
    BY <1>1, <2>1, <2>2, VoidReplacedFits
  <2> QED
    BY <2>1, <2>3, CommitGood DEF Ops
<1>8. ASSUME NEW s \in Slots, NEW o \in Slots, NEW k, VoidAssignFrom(s, o, k) PROVE GoodStep
  <2>1. PICK r \in VoidReplaced(obj[s], obj[o].has, k, obj[o].data) : CommitFrom("assign", s, o, k, r)
    BY <1>8 DEF VoidAssignFrom
  <2>2. s \in made /\ o \in made
    BY <2>1 DEF CommitFrom
  <2>3. Fit(obj[s], r) /\ (r.thrown /\ obj[s].has # obj[o].has => r.cell = obj[s])
    BY <1>1, <1>2, <2>1, <2>2, VoidReplacedFits
  <2> QED
    BY <2>1, <2>3, CommitFromGood
<1>9. ASSUME NEW s \in Slots, VoidEmplace(s) PROVE GoodStep
  <2> DEFINE e == IF obj[s].has THEN obj[s] ELSE Flagged(Destroyed(obj[s], "err"), TRUE)
  <2>1. s \in made /\ Commit("emplace", s, TRUE, Done(e))
    BY <1>9 DEF VoidEmplace, Commit
  <2>2. Whole(e)
    BY <1>1, <1>2, <2>1, VoidCleared
  <2> HIDE DEF e
  <2>3. Fit(obj[s], Done(e))
    BY <2>2, OutcomeIs DEF Fit, Whole
  <2> QED
    BY <2>1, <2>3, CommitGood DEF Ops
<1>10. ASSUME NEW o \in made, NEW k, NEW r \in VoidCopied(obj[o], k)
       PROVE  r \in Outcomes /\ (~r.thrown => Whole(r.cell))
  BY <1>1, <1>2, <1>10, VoidCopiedFits
<1>11. ASSUME NEW s \in Slots, NEW o \in Slots, NEW k, VoidNewFrom(s, o, k) PROVE GoodStep
  <2>1. PICK r \in VoidCopied(obj[o], k) : CreateFrom(s, o, k, r)
    BY <1>11 DEF VoidNewFrom
  <2> QED
    BY <1>10, <2>1, CreateFromGood DEF CreateFrom
<1>12. ASSUME NEW s \in Slots, NEW o \in Slots, NEW k,
              \/ VoidAndThen(s, o, k) \/ VoidOrElse(s, o, k)
              \/ VoidTransform(s, o, k) \/ VoidTransformError(s, o, k)
       PROVE  GoodStep
  <2>1. o \in made
    BY <1>12 DEF VoidAndThen, VoidOrElse, VoidTransform, VoidTransformError, Chain, CreateFrom
  <2>2. /\ \A c \in VoidResults : Whole(c)
        /\ \A c \in {Made(TRUE, Unspecified)} : Whole(c)
        /\ \A c \in {Made(FALSE, d) : d \in Errors} : Whole(c)
    BY <1>4 DEF VoidResults
  <2>3. \A r \in VoidCopied(obj[o], k) : r \in Outcomes /\ (~r.thrown => Whole(r.cell))
    BY <1>10, <2>1
  <2>4. CASE VoidAndThen(s, o, k)
    BY <2>2, <2>3, <2>4, ChainGood DEF VoidAndThen
  <2>5. CASE VoidOrElse(s, o, k)
    BY <2>2, <2>3, <2>5, ChainGood DEF VoidOrElse
  <2>6. CASE VoidTransform(s, o, k)
    BY <2>2, <2>3, <2>6, ChainGood DEF VoidTransform
  <2>7. CASE VoidTransformError(s, o, k)
    BY <2>2, <2>3, <2>7, ChainGood DEF VoidTransformError
  <2> QED
    BY <1>12, <2>4, <2>5, <2>6, <2>7
<1>13. ASSUME NEW s \in Slots, NEW o \in Slots, VoidSwap(s, o) PROVE GoodStep
  <2>1. s \in made /\ o \in made /\ UNCHANGED <<form, safe, made>>
    BY <1>13 DEF VoidSwap
  <2>2. CASE obj[s].has /\ obj[o].has
    <3>1. UNCHANGED obj /\ Called("swap", s, TRUE, FALSE)
      BY <1>13, <2>2 DEF VoidSwap
    <3>2. /\ call' \in [op : Ops, on : Slots, side : BOOLEAN, thrown : BOOLEAN]
          /\ call'.op = "swap" /\ call'.thrown = FALSE
      BY <3>1 DEF Called, Ops
    <3>3. obj' \in [Slots -> Cells] /\ Whole(obj'[s]) /\ Whole(obj'[o])
      BY <1>2, <2>1, <3>1 DEF Sound, TypeOK
    <3> QED
      BY <2>1, <3>1, <3>2, <3>3, PairGood
  <2>3. CASE obj[s].has /\ ~obj[o].has
    <3>1. PICK r \in Then(Built(obj[s], "err", "move", obj[o].data), FALSE), c \in Spent(obj[o], "move") :
            /\ obj' = [obj EXCEPT ![s] = r.cell,
                                  ![o] = IF r.thrown THEN c ELSE Flagged(Destroyed(obj[o], "err"), TRUE)]
            /\ Called("swap", s, FALSE, r.thrown)
      BY <1>13, <2>3 DEF VoidSwap
    <3> QED
      BY <1>1, <2>1, <2>3, <3>1, VoidHandOver
  <2>4. CASE ~obj[s].has /\ ~obj[o].has
    <3>1. PICK x \in {obj[s], Blurred(obj[s])}, y \in {obj[o], Blurred(obj[o])} :
             \/ /\ obj' = [obj EXCEPT ![s].data = obj[o].data, ![o].data = obj[s].data]
                /\ Called("swap", s, FALSE, FALSE)
             \/ obj' = [obj EXCEPT ![o] = y, ![s] = x] /\ Called("swap", s, FALSE, TRUE)
      BY <1>13, <2>4 DEF VoidSwap
    <3>2. obj[s].has = obj[o].has /\ FALSE \in BOOLEAN
      BY <1>2, <2>1, <2>4
    <3>3. CASE /\ obj' = [obj EXCEPT ![s].data = obj[o].data, ![o].data = obj[s].data]
               /\ Called("swap", s, FALSE, FALSE)
      BY <2>1, <3>2, <3>3, SwappedData
    <3>4. CASE obj' = [obj EXCEPT ![o] = y, ![s] = x] /\ Called("swap", s, FALSE, TRUE)
      BY <2>1, <3>1, <3>2, <3>4, SwapThrew
    <3> QED
      BY <3>1, <3>3, <3>4
  <2> QED
    BY <1>13, <2>2, <2>3, <2>4 DEF VoidSwap
<1>14. ASSUME NEW s \in Slots, VoidDestroy(s) PROVE GoodStep
  <2> DEFINE e == IF obj[s].has THEN Flagged(obj[s], FALSE) ELSE Destroyed(obj[s], "err")
  <2>1. /\ s \in made /\ UNCHANGED <<form, safe>> /\ made' = made \ {s}
        /\ Called("end", s, FALSE, FALSE) /\ obj' = [obj EXCEPT ![s] = e]
    BY <1>14 DEF VoidDestroy
  <2>2. obj[s] \in Cells /\ ~obj[s].fault /\ obj[s].live = Side(obj[s].has)
        /\ (obj[s].live = "none" => obj[s].data = Unspecified)
    BY <1>1, <1>2, <2>1 DEF Whole
  <2>3. e \in Cells /\ e.has = FALSE /\ e.live = "none" /\ e.data = Unspecified /\ ~e.fault
    <3>1. CASE obj[s].has
      BY <1>3, <2>2, <3>1, FlaggedIs DEF Cells
    <3>2. CASE ~obj[s].has
      <4>1. Whole(obj[s]) /\ obj[s].has = FALSE
        BY <1>2, <2>1, <3>2
      <4>2. obj[s].live = "err"
        BY <1>3, <2>2, <4>1
      <4> QED
        BY <2>2, <3>2, <4>1, <4>2, DestroyedIs
    <3> QED
      BY <3>1, <3>2
  <2> HIDE DEF e
  <2> QED
    BY <2>1, <2>3, EndCell, EndGood
<1> QED
  BY <1>5, <1>6, <1>7, <1>8, <1>9, <1>11, <1>12, <1>13, <1>14, TakeGood DEF VoidNext

-----------------------------------------------------------------------------
(* expected<T&, E>: its typing.                                            *)

\* What is written into a reference's storage is a cell.
LEMMA ReferenceCells ==
  ASSUME NEW c \in Cells, NEW has \in BOOLEAN, NEW m \in Members, NEW d \in Data
  PROVE  /\ Flagged(c, has) \in Cells /\ Placed(c, m, d) \in Cells /\ Destroyed(c, m) \in Cells
         /\ Flagged(Placed(c, m, d), has) \in Cells /\ Content(c) \in Data
BY DEF Flagged, Placed, Destroyed, Cells, Data, Content

\* Pointed stores a pointer in a cell.
LEMMA PointedIs ==
  ASSUME NEW c \in Cells, NEW d \in Data
  PROVE  Pointed(c, d) \in Cells
<1>1. (IF c.has THEN c ELSE Destroyed(c, "err")) \in Cells
  BY ReferenceCells DEF Members
<1> QED
  BY <1>1, ReferenceCells DEF Pointed, Members

\* What Then makes of constructions and assignments is an outcome.
LEMMA ReferenceOutcomes ==
  ASSUME NEW c \in Cells, NEW k, NEW d \in Data, NEW has \in BOOLEAN
  PROVE  /\ \A r \in Then(Built(c, "err", k, d), has) : r \in Outcomes
         /\ \A r \in Assigned(c, "err", d) : r \in Outcomes
<1>1. ASSUME NEW r \in Then(Built(c, "err", k, d), has) PROVE r \in Outcomes
  <2>1. PICK b \in Built(c, "err", k, d) : r = IF b.thrown THEN b ELSE Done(Flagged(b.cell, has))
    BY <1>1 DEF Then
  <2>2. b \in Outcomes
    BY <2>1, BuiltIs DEF Members
  <2>3. Done(Flagged(b.cell, has)) \in Outcomes
    BY <2>2, FlaggedIs, OutcomeIs DEF Outcomes
  <2> QED
    BY <2>1, <2>2, <2>3
<1>2. ASSUME NEW r \in Assigned(c, "err", d) PROVE r \in Outcomes
  <2> DEFINE on == [c EXCEPT !.fault = c.fault \/ c.live # "err"]
  <2>1. on \in Cells /\ [on EXCEPT !.data = d] \in Cells /\ Blurred(on) \in Cells
    BY DEF Blurred, Cells, Data
  <2>2. r \in {Done([on EXCEPT !.data = d]), Threw(on), Threw(Blurred(on))}
    BY <1>2 DEF Assigned
  <2> HIDE DEF on
  <2> QED
    BY <2>1, <2>2, OutcomeIs
<1> QED
  BY <1>1, <1>2

\* A copy or a move of an expected<T&, E>.
LEMMA RefCopiedFits ==
  ASSUME NEW c \in Cells, NEW k, NEW r \in RefCopied(c, k)
  PROVE  r \in Outcomes
<1>1. Content(c) \in Data
  BY DEF Content, Cells, Data
<1>2. Placed(Blank, "val", Content(c)) \in Cells
  BY <1>1, BlankCell DEF Placed, Members, Cells
<1>3. Done(Flagged(Placed(Blank, "val", Content(c)), TRUE)) \in Outcomes
  BY <1>2, FlaggedIs, OutcomeIs
<1> QED
  BY <1>1, <1>3, BlankCell, ReferenceOutcomes DEF RefCopied

\* Two references changed by a swap.
LEMMA RefPairGood ==
  ASSUME Sound, form = "reference", UNCHANGED <<form, safe, made>>, NEW s \in made, NEW o \in made,
         call' \in [op : Ops, on : Slots, side : BOOLEAN, thrown : BOOLEAN],
         NEW x \in Cells, NEW y \in Cells,
         obj' \in {[obj EXCEPT ![s] = x, ![o] = y], [obj EXCEPT ![o] = x, ![s] = y]}
  PROVE  GoodStep
<1>1. ~Owning /\ made \subseteq Slots
  BY DEF Owning, Sound, TypeOK
<1>2. /\ obj' \in [Slots -> Cells] /\ obj'[s] \in Cells /\ obj'[o] \in Cells
      /\ \A t \in Slots \ {s, o} : obj'[t] = obj[t]
  BY <1>1 DEF Sound, TypeOK
<1>3. Sound'
  BY <1>1, <1>2, PairSound DEF Whole
<1> QED
  BY <1>1, <1>3, ReferenceStep DEF GoodStep

\* A pointer and an error that change places are stored in cells.
LEMMA RefTradeGood ==
  ASSUME Sound, form = "reference", NEW s \in made, NEW o \in made, RefTrade(s, o)
  PROVE  GoodStep
<1>1. /\ obj[s] \in Cells /\ obj[o] \in Cells /\ s \in Slots /\ o \in Slots
      /\ obj[s].data \in Data /\ FALSE \in BOOLEAN /\ TRUE \in BOOLEAN /\ "val" \in Members /\ "err" \in Members
  BY SoundSlot DEF Sound, TypeOK, Cells, Members
<1>2. PICK r \in Built(obj[s], "err", "move", Content(obj[o])), c \in Spent(obj[o], "move") :
        /\ obj' = [obj EXCEPT
             ![s] = IF r.thrown THEN r.cell ELSE Flagged(r.cell, FALSE),
             ![o] = IF r.thrown THEN c
                    ELSE Flagged(Placed(Destroyed(obj[o], "err"), "val", obj[s].data), TRUE)]
        /\ Called("swap", s, FALSE, r.thrown)
        /\ UNCHANGED <<form, safe, made>>
  BY DEF RefTrade
<1>3. r \in Outcomes
  BY <1>1, <1>2, ReferenceCells, BuiltIs
<1>4. c \in Cells
  BY <1>1, <1>2 DEF Spent, Blurred, Cells, Data
<1> DEFINE x == IF r.thrown THEN r.cell ELSE Flagged(r.cell, FALSE)
           y == IF r.thrown THEN c ELSE Flagged(Placed(Destroyed(obj[o], "err"), "val", obj[s].data), TRUE)
<1>5. x \in Cells
  BY <1>1, <1>3, ReferenceCells DEF Outcomes
<1>6. y \in Cells
  BY <1>1, <1>4, ReferenceCells
<1>7. call' \in [op : Ops, on : Slots, side : BOOLEAN, thrown : BOOLEAN]
  BY <1>1, <1>2, <1>3 DEF Called, Ops, Outcomes
<1>8. obj' = [obj EXCEPT ![s] = x, ![o] = y] /\ UNCHANGED <<form, safe, made>>
  BY <1>2
<1> HIDE DEF x, y
<1>9. obj' \in {[obj EXCEPT ![s] = x, ![o] = y], [obj EXCEPT ![o] = x, ![s] = y]}
  BY <1>8
<1> QED
  BY <1>5, <1>6, <1>7, <1>8, <1>9, RefPairGood

\* Every call of an expected<T&, E>.
LEMMA RefGood == ASSUME Sound, RefNext PROVE GoodStep
<1>1. form = "reference" /\ ~Owning /\ made \subseteq Slots
  BY DEF RefNext, Owning, Sound, TypeOK
<1>2. \A x \in Slots : obj[x] \in Cells /\ obj[x].has \in BOOLEAN /\ obj[x].data \in Data
  BY SoundSlot DEF Cells
<1>3. /\ Values \subseteq Data /\ Errors \subseteq Data /\ "val" \in Members /\ "err" \in Members
      /\ TRUE \in BOOLEAN /\ FALSE \in BOOLEAN
  BY DEF Data, Members
<1>4. \A x \in Slots : Content(obj[x]) \in Data
  BY <1>2, ReferenceCells, <1>3
<1>5. ASSUME NEW c, NEW r \in Outcomes PROVE Fit(c, r) /\ Whole(r.cell)
  BY <1>1, <1>5 DEF Fit, Whole, Outcomes
<1>6. ASSUME NEW s \in Slots, NEW d \in Values, RefNewValue(s, d) PROVE GoodStep
  <2>1. Done(Flagged(Placed(Blank, "val", d), TRUE)) \in Outcomes
    BY <1>3, BlankCell, ReferenceCells, OutcomeIs
  <2> QED
    BY <1>5, <1>6, <2>1, CreateGood DEF RefNewValue
<1>7. ASSUME NEW s \in Slots, NEW d \in Errors, NEW k, RefNewError(s, k, d) PROVE GoodStep
  <2>1. PICK r \in Then(Built(Blank, "err", k, d), FALSE) : Create(s, r)
    BY <1>7 DEF RefNewError
  <2>2. r \in Outcomes
    BY <1>3, <2>1, BlankCell, ReferenceOutcomes
  <2> QED
    BY <1>5, <2>1, <2>2, CreateGood
<1>8. ASSUME NEW s \in Slots, NEW d \in Values, RefAssignValue(s, d) \/ RefEmplace(s, d) PROVE GoodStep
  <2>1. Done(Pointed(obj[s], d)) \in Outcomes /\ Done(Pointed(obj[s], d)).thrown = FALSE
    BY <1>2, <1>3, PointedIs, OutcomeIs
  <2>2. Fit(obj[s], Done(Pointed(obj[s], d)))
    BY <1>5, <2>1
  <2> QED
    BY <1>1, <1>3, <1>8, <2>1, <2>2, CommitGood DEF RefAssignValue, RefEmplace, Ops
<1>9. ASSUME NEW s \in Slots, NEW d \in Errors, RefAssignError(s, d) PROVE GoodStep
  <2>1. PICK r \in IF obj[s].has THEN {Done(Flagged(obj[s], FALSE))} ELSE Assigned(obj[s], "err", d) :
          Commit("assign", s, FALSE, r)
    BY <1>9 DEF RefAssignError
  <2>2. Done(Flagged(obj[s], FALSE)) \in Outcomes
    BY <1>2, <1>3, ReferenceCells, OutcomeIs
  <2>3. r \in Outcomes
    BY <1>2, <1>3, <2>1, <2>2, ReferenceOutcomes
  <2> QED
    BY <1>1, <1>3, <1>5, <2>1, <2>3, CommitGood DEF Ops
<1>10. ASSUME NEW s \in Slots, NEW o \in Slots, NEW k, RefAssignFrom(s, o, k) PROVE GoodStep
  <2>1. PICK r \in RefReplaced(obj[s], obj[o], k) : CommitFrom("assign", s, o, k, r)
    BY <1>10 DEF RefAssignFrom
  <2>2. Done(Pointed(obj[s], Content(obj[o]))) \in Outcomes
    BY <1>2, <1>4, PointedIs, OutcomeIs
  <2>3. /\ \A q \in Then(Built(obj[s], "err", k, Content(obj[o])), FALSE) : q \in Outcomes
        /\ \A q \in Assigned(obj[s], "err", Content(obj[o])) : q \in Outcomes
    BY <1>2, <1>3, <1>4, ReferenceOutcomes
  <2>4. r \in Outcomes
    BY <2>1, <2>2, <2>3 DEF RefReplaced
  <2> QED
    BY <1>1, <1>5, <2>1, <2>4, CommitFromGood
<1>11. ASSUME NEW s \in Slots, NEW o \in Slots, NEW k, RefNewFrom(s, o, k) PROVE GoodStep
  <2>1. PICK r \in RefCopied(obj[o], k) : CreateFrom(s, o, k, r)
    BY <1>11 DEF RefNewFrom
  <2> QED
    BY <1>2, <1>5, <2>1, RefCopiedFits, CreateFromGood
<1>12. ASSUME NEW s \in Slots, NEW o \in Slots, NEW k,
              \/ RefAndThen(s, o, k) \/ RefOrElse(s, o, k)
              \/ RefTransform(s, o, k) \/ RefTransformError(s, o, k)
       PROVE  GoodStep
  <2>1. /\ \A d \in Values : Whole(Made(TRUE, d))
        /\ \A d \in Errors : Whole(Made(FALSE, d))
    BY <1>1, <1>3, Sides, MadeWhole
  <2>2. /\ \A c \in Results : Whole(c)
        /\ \A c \in {Made(TRUE, d) : d \in Values} : Whole(c)
        /\ \A c \in {Made(FALSE, d) : d \in Errors} : Whole(c)
    BY <2>1 DEF Results
  <2>3. \A r \in RefCopied(obj[o], k) : r \in Outcomes /\ (~r.thrown => Whole(r.cell))
    BY <1>2, <1>5, RefCopiedFits
  <2>4. CASE RefAndThen(s, o, k)
    BY <2>2, <2>3, <2>4, ChainGood DEF RefAndThen
  <2>5. CASE RefOrElse(s, o, k)
    BY <2>2, <2>3, <2>5, ChainGood DEF RefOrElse
  <2>6. CASE RefTransform(s, o, k)
    BY <2>2, <2>3, <2>6, ChainGood DEF RefTransform
  <2>7. CASE RefTransformError(s, o, k)
    BY <2>2, <2>3, <2>7, ChainGood DEF RefTransformError
  <2> QED
    BY <1>12, <2>4, <2>5, <2>6, <2>7
<1>13. ASSUME NEW s \in Slots, NEW o \in Slots, RefSwap(s, o) PROVE GoodStep
  <2>1. s \in made /\ o \in made
    BY <1>13 DEF RefSwap
  <2>2. CASE RefTrade(s, o) \/ RefTrade(o, s)
    BY <1>1, <2>1, <2>2, RefTradeGood
  <2>3. CASE /\ UNCHANGED <<form, safe, made>> /\ obj[s].has = obj[o].has
             /\ obj' = [obj EXCEPT ![s].data = obj[o].data, ![o].data = obj[s].data]
             /\ Called("swap", s, obj[o].has, FALSE)
    BY <1>2, <2>1, <2>3, SwappedData
  <2>4. CASE /\ UNCHANGED <<form, safe, made>>
             /\ \E x \in {obj[s], Blurred(obj[s])}, y \in {obj[o], Blurred(obj[o])} :
                  obj' = [obj EXCEPT ![o] = y, ![s] = x]
             /\ Called("swap", s, FALSE, TRUE)
    <3>1. PICK x \in {obj[s], Blurred(obj[s])}, y \in {obj[o], Blurred(obj[o])} :
            obj' = [obj EXCEPT ![o] = y, ![s] = x]
      BY <2>4
    <3> QED
      BY <1>3, <2>1, <2>4, <3>1, SwapThrew
  <2> QED
    BY <1>13, <2>2, <2>3, <2>4 DEF RefSwap
<1>14. ASSUME NEW s \in Slots, RefDestroy(s) PROVE GoodStep
  <2> DEFINE e == IF obj[s].has THEN [Blank EXCEPT !.fault = obj[s].fault] ELSE Destroyed(obj[s], "err")
  <2>1. /\ s \in made /\ UNCHANGED <<form, safe>> /\ made' = made \ {s}
        /\ Called("end", s, FALSE, FALSE) /\ obj' = [obj EXCEPT ![s] = e]
    BY <1>14 DEF RefDestroy
  <2>2. e \in Cells /\ e.has = FALSE /\ e.live = "none" /\ e.data = Unspecified
    <3>1. CASE obj[s].has
      BY <1>2, <3>1 DEF Blank, Cells, Data
    <3>2. CASE ~obj[s].has
      BY <1>2, <3>2 DEF Destroyed, Cells, Data
    <3> QED
      BY <3>1, <3>2
  <2> HIDE DEF e
  <2> QED
    BY <1>1, <2>1, <2>2, EndCell, EndGood
<1> QED
  BY <1>6, <1>7, <1>8, <1>9, <1>10, <1>11, <1>12, <1>13, <1>14, TakeGood DEF RefNext

-----------------------------------------------------------------------------
(* expected<T&, E>: the pointer behind the flag.                           *)

\* The template and its types are what they were.
LEMMA FormStays == ASSUME Next PROVE UNCHANGED <<form, safe>>
<1>1. /\ \A op, s, side, r : Commit(op, s, side, r) => UNCHANGED <<form, safe>>
      /\ \A op, s, o, k, r : CommitFrom(op, s, o, k, r) => UNCHANGED <<form, safe>>
      /\ \A s, r : Create(s, r) => UNCHANGED <<form, safe>>
      /\ \A s, o, k, r : CreateFrom(s, o, k, r) => UNCHANGED <<form, safe>>
      /\ \A s, k : TakeValue(s, k) \/ TakeError(s, k) => UNCHANGED <<form, safe>>
  BY DEF Commit, CommitFrom, Create, CreateFrom, TakeValue, TakeError
<1>2. \A s, o, k, called, results, passed :
        Chain(s, o, k, called, results, passed) => UNCHANGED <<form, safe>>
  BY <1>1 DEF Chain
<1>3. CASE ExpectedNext
  <2>1. \A s, o, t : CommitTrade(s, o, t) => UNCHANGED <<form, safe>>
    BY DEF CommitTrade
  <2>2. \A s, o : Swap(s, o) => UNCHANGED <<form, safe>>
    BY <2>1 DEF Swap, SwapSame
  <2> QED
    BY <1>1, <1>2, <1>3, <2>2, ZenonT(40)
    DEF ExpectedNext, NewValue, NewError, NewFrom, Destroy, AssignFrom, AssignValue, AssignError,
        Emplace, AndThen, OrElse, Transform, TransformError
<1>4. CASE VoidNext
  <2>1. \A s, o : VoidSwap(s, o) => UNCHANGED <<form, safe>>
    BY DEF VoidSwap
  <2> QED
    BY <1>1, <1>2, <1>4, <2>1
    DEF VoidNext, VoidNewValue, VoidNewError, VoidNewFrom, VoidDestroy, VoidAssignFrom,
        VoidAssignError, VoidEmplace, VoidAndThen, VoidOrElse, VoidTransform, VoidTransformError
<1>5. CASE RefNext
  <2>1. \A s, o : RefSwap(s, o) => UNCHANGED <<form, safe>>
    BY DEF RefSwap, RefTrade
  <2> QED
    BY <1>1, <1>2, <1>5, <2>1
    DEF RefNext, RefNewValue, RefNewError, RefNewFrom, RefDestroy, RefAssignFrom, RefAssignValue,
        RefAssignError, RefEmplace, RefAndThen, RefOrElse, RefTransform, RefTransformError
<1>6. CASE OptNext
  <2>1. \A s, o : OptSwap(s, o) => UNCHANGED <<form, safe>>
    BY DEF OptSwap
  <2> QED
    BY <1>1, <1>2, <1>6, <2>1
    DEF OptNext, OptNew, OptNewValue, OptNewFrom, OptDestroy, OptReset, OptAssignFrom,
        OptAssignValue, OptEmplace, OptAndThen, OptTransform, OptOrElse
<1> QED
  BY <1>3, <1>4, <1>5, <1>6 DEF Next

\* A reference that says it has a value has a pointer.
Points(c) == c.has => c.live = "val"

\* The errors of the references at hand can be constructed without an exception.
Steady == form = "reference" /\ safe["err"] = Kinds

\* What the operations on a reference leave has a pointer where the flag says so.
LEMMA PointsOutcomes ==
  ASSUME Steady, NEW k \in Kinds, NEW c \in Cells, NEW o \in Cells, NEW d \in Data
  PROVE  /\ Points(Pointed(c, d))
         /\ Points(Flagged(c, FALSE))
         /\ \A r \in Then(Built(c, "err", k, d), FALSE) : ~ r.thrown /\ Points(r.cell)
         /\ ~ c.has => \A r \in Assigned(c, "err", d) : Points(r.cell)
         /\ \A r \in RefReplaced(c, o, k) : Points(r.cell)
         /\ \A r \in RefCopied(c, k) : Points(r.cell)
<1>1. \A b \in Cells, e \in Data : Points(Pointed(b, e)) /\ Points(Flagged(b, FALSE))
  <2> TAKE b \in Cells, e \in Data
  <2> DEFINE x == IF b.has THEN b ELSE Destroyed(b, "err")
  <2>1. x \in Cells /\ Placed(x, "val", e) \in Cells /\ Placed(x, "val", e).live = "val"
    <3>1. x \in Cells
      BY ReferenceCells DEF Members
    <3> HIDE DEF x
    <3> QED BY <3>1 DEF Placed, Cells, Members
  <2> HIDE DEF x
  <2>2. Flagged(Placed(x, "val", e), TRUE).live = "val"
    BY <2>1 DEF Flagged, Cells
  <2>3. Flagged(b, FALSE).has = FALSE
    BY DEF Flagged, Cells
  <2> QED
    BY <2>2, <2>3 DEF Points, Pointed, x
<1>2. \A b \in Cells, e \in Data, q \in Kinds :
        \A r \in Then(Built(b, "err", q, e), FALSE) : ~ r.thrown /\ Points(r.cell)
  <2> SUFFICES ASSUME NEW b \in Cells, NEW e \in Data, NEW q \in Kinds,
                      NEW r \in Then(Built(b, "err", q, e), FALSE)
               PROVE  ~ r.thrown /\ Points(r.cell)
    OBVIOUS
  <2>1. PICK x \in Built(b, "err", q, e) : r = IF x.thrown THEN x ELSE Done(Flagged(x.cell, FALSE))
    BY DEF Then
  <2>2. x \in Outcomes /\ ~ x.thrown
    BY <2>1, BuiltIs DEF Steady, Nothrow, Members
  <2> QED
    <3>1. x.cell \in Cells
      BY <2>2 DEF Outcomes
    <3>2. Flagged(x.cell, FALSE) \in Cells /\ Points(Flagged(x.cell, FALSE))
      BY <1>1, <3>1, FlaggedIs
    <3>3. r = Done(Flagged(x.cell, FALSE))
      BY <2>1, <2>2
    <3> QED BY <3>2, <3>3, OutcomeIs
<1>3. \A b \in Cells, e \in Data : ~ b.has => \A r \in Assigned(b, "err", e) : Points(r.cell)
  <2> SUFFICES ASSUME NEW b \in Cells, NEW e \in Data, ~ b.has, NEW r \in Assigned(b, "err", e)
               PROVE  Points(r.cell)
    OBVIOUS
  <2> DEFINE on == [b EXCEPT !.fault = b.fault \/ b.live # "err"]
  <2>1. /\ on.has = b.has /\ [on EXCEPT !.data = e].has = b.has
        /\ Blurred(on).has = b.has
    BY DEF Blurred, Cells
  <2>2. r \in {Done([on EXCEPT !.data = e]), Threw(on), Threw(Blurred(on))}
    BY DEF Assigned
  <2> HIDE DEF on
  <2>3. \A x : Done(x).cell = x /\ Threw(x).cell = x
    BY DEF Done, Threw
  <2> QED
    BY <2>1, <2>2, <2>3 DEF Points
<1>4. Content(o) \in Data /\ Content(c) \in Data
  BY DEF Content, Cells, Data
<1>5. \A b \in Cells : Done(b).cell = b
  BY OutcomeIs
<1>6. \A r \in RefReplaced(c, o, k) : Points(r.cell)
  <2>1. Pointed(c, Content(o)) \in Cells
    BY <1>4, PointedIs
  <2>2. Points(Done(Pointed(c, Content(o))).cell)
    BY <1>1, <1>4, <1>5, <2>1
  <2> QED
    BY <1>2, <1>3, <1>4, <2>2 DEF RefReplaced
<1>7. \A r \in RefCopied(c, k) : Points(r.cell)
  <2> DEFINE x == Flagged(Placed(Blank, "val", Content(c)), TRUE)
  <2>1. x \in Cells /\ Points(x)
    <3>1. Placed(Blank, "val", Content(c)) \in Cells /\ Placed(Blank, "val", Content(c)).live = "val"
      BY <1>4, BlankCell DEF Placed, Cells, Members
    <3> QED BY <3>1 DEF Flagged, Points, Cells
  <2>2. Points(Done(x).cell)
    BY <1>5, <2>1
  <2> HIDE DEF x
  <2>3. \A r \in Then(Built(Blank, "err", k, Content(c)), FALSE) : Points(r.cell)
    BY <1>2, <1>4, BlankCell
  <2> QED
    BY <2>2, <2>3 DEF RefCopied, x
<1> QED
  BY <1>1, <1>2, <1>3, <1>6, <1>7

\* One or two objects get cells that keep their word, the others stay as they are.
LEMMA PointsCommitted ==
  ASSUME Sound, Steady, \A t \in made : Points(obj[t]), UNCHANGED <<form, safe>>,
         NEW s \in Slots, NEW o \in Slots, NEW x, NEW y,
         obj' = [obj EXCEPT ![o] = y, ![s] = x] \/ obj' = [obj EXCEPT ![s] = x, ![o] = y],
         made' \subseteq made \cup {s}, Points(x), Points(y)
  PROVE  PointerIsValid'
<1>1. \A t \in made' : t # s => t \in made /\ t \in Slots
  BY DEF Sound, TypeOK
<1>2. /\ \A t \in Slots \ {s, o} : obj'[t] = obj[t]
      /\ obj'[s] \in {x, y} /\ obj'[o] \in {x, y}
      /\ s # o => obj'[s] = x /\ obj'[o] = y
  BY DEF Sound, TypeOK
<1>3. \A t \in made' : Points(obj'[t])
  BY <1>1, <1>2
<1> QED
  BY <1>3 DEF PointerIsValid, Points

\* What is passed on keeps its flag and its pointer.
LEMMA PointsSpent ==
  ASSUME NEW c \in Cells, NEW k, NEW d \in Spent(c, k), Points(c)
  PROVE  Points(d)
BY DEF Spent, Blurred, Points, Cells

\* No call on references leaves a flag without its pointer.
LEMMA PointsStep == ASSUME Sound, Steady, PointerIsValid, RefNext PROVE PointerIsValid'
<1>0. /\ \A t \in made : Points(obj[t]) /\ t \in Slots
      /\ \A t \in Slots : obj[t] \in Cells /\ Content(obj[t]) \in Data
  BY SoundSlot DEF PointerIsValid, Points, Steady, Sound, TypeOK, Content, Cells, Data
<1>1. /\ Values \subseteq Data /\ Errors \subseteq Data /\ Blank \in Cells
      /\ {"copy", "move"} \subseteq Kinds /\ UNCHANGED <<form, safe>> /\ made \subseteq Slots
  BY BlankCell, FormStays DEF Data, Kinds, Next, Sound, TypeOK
<1>2. ASSUME NEW s \in Slots, NEW op, NEW side, NEW r, Points(r.cell), Commit(op, s, side, r)
      PROVE  PointerIsValid'
  <2>1. obj' = [obj EXCEPT ![s] = r.cell, ![s] = r.cell] /\ made' = made
    BY <1>2 DEF Commit, Sound, TypeOK
  <2> QED
    BY <1>0, <1>1, <1>2, <2>1, PointsCommitted
<1>3. ASSUME NEW s \in Slots, NEW o \in Slots, NEW op, NEW k, NEW r, Points(r.cell),
             CommitFrom(op, s, o, k, r)
      PROVE  PointerIsValid'
  <2>1. PICK c \in Spent(obj[o], k) : obj' = [obj EXCEPT ![o] = c, ![s] = r.cell]
    BY <1>3 DEF CommitFrom
  <2>2. {s, o} \subseteq made /\ made' = made
    BY <1>3 DEF CommitFrom
  <2>3. Points(c)
    BY <1>0, <2>1, <2>2, PointsSpent
  <2> QED
    BY <1>0, <1>1, <1>3, <2>1, <2>2, <2>3, PointsCommitted
<1>4. ASSUME NEW s \in Slots, NEW r, ~ r.thrown => Points(r.cell), Create(s, r)
      PROVE  PointerIsValid'
  <2> DEFINE x == IF r.thrown THEN Blank ELSE r.cell
  <2>1. Points(x)
    BY <1>4 DEF Points, Blank
  <2>2. obj' = [obj EXCEPT ![s] = x, ![s] = x] /\ made' \subseteq made \cup {s}
    BY <1>4 DEF Create, Sound, TypeOK
  <2> HIDE DEF x
  <2> QED
    BY <1>0, <1>1, <2>1, <2>2, PointsCommitted
<1>5. ASSUME NEW s \in Slots, NEW o \in Slots, NEW k, NEW r, ~ r.thrown => Points(r.cell),
             CreateFrom(s, o, k, r)
      PROVE  PointerIsValid'
  <2> DEFINE x == IF r.thrown THEN Blank ELSE r.cell
  <2>1. Points(x)
    BY <1>5 DEF Points, Blank
  <2>2. PICK c \in Spent(obj[o], k) : obj' = [obj EXCEPT ![o] = c, ![s] = x]
    BY <1>5 DEF CreateFrom
  <2>3. o \in made /\ made' \subseteq made \cup {s}
    BY <1>5 DEF CreateFrom
  <2>4. Points(c)
    BY <1>0, <2>2, <2>3, PointsSpent
  <2> HIDE DEF x
  <2> QED
    BY <1>0, <1>1, <2>1, <2>2, <2>3, <2>4, PointsCommitted
<1>6. ASSUME NEW s \in Slots, NEW o \in Slots, NEW k, NEW called, NEW results, NEW passed,
             \A c \in results : Points(c), \A r \in passed : Points(r.cell),
             Chain(s, o, k, called, results, passed)
      PROVE  PointerIsValid'
  <2>1. PICK r \in IF called THEN {Done(c) : c \in results} \cup {Threw(Blank)} ELSE passed :
          CreateFrom(s, o, k, r)
    BY <1>6 DEF Chain
  <2>2. \A x : Done(x).cell = x /\ Threw(x).thrown
    BY DEF Done, Threw
  <2> QED
    BY <1>5, <1>6, <2>1, <2>2
<1>7. ASSUME NEW s \in Slots, NEW k, TakeValue(s, k) \/ TakeError(s, k)
      PROVE  PointerIsValid'
  <2>1. PICK c \in Spent(obj[s], k) : obj' = [obj EXCEPT ![s] = c]
    BY <1>7 DEF TakeValue, TakeError
  <2>2. s \in made /\ made' = made
    BY <1>7 DEF TakeValue, TakeError
  <2>3. Points(c)
    BY <1>0, <2>1, <2>2, PointsSpent
  <2>4. obj' = [obj EXCEPT ![s] = c, ![s] = c]
    BY <2>1 DEF Sound, TypeOK
  <2> QED
    BY <1>0, <1>1, <2>2, <2>3, <2>4, PointsCommitted
<1>8. /\ \A d \in Values : Points(Made(TRUE, d))
      /\ \A d \in Errors : Points(Made(FALSE, d))
      /\ \A c \in Results : Points(c)
  BY DEF Points, Made, Side, Results, Steady
<1>9. \A x : Done(x).cell = x
  BY DEF Done
<1>10. ASSUME NEW s \in Slots, NEW d \in Values,
              RefNewValue(s, d) \/ RefAssignValue(s, d) \/ RefEmplace(s, d)
       PROVE  PointerIsValid'
  <2>1. Points(Flagged(Placed(Blank, "val", d), TRUE))
    BY DEF Points, Flagged, Placed, Blank
  <2>2. Points(Pointed(obj[s], d))
    BY <1>0, <1>1, PointsOutcomes DEF Kinds
  <2> QED
    BY <1>2, <1>4, <1>9, <1>10, <2>1, <2>2 DEF RefNewValue, RefAssignValue, RefEmplace
<1>11. ASSUME NEW s \in Slots, NEW d \in Errors, NEW k \in Kinds, RefNewError(s, k, d)
       PROVE  PointerIsValid'
  <2>1. PICK r \in Then(Built(Blank, "err", k, d), FALSE) : Create(s, r)
    BY <1>11 DEF RefNewError
  <2>2. Points(r.cell)
    BY <1>0, <1>1, <2>1, PointsOutcomes
  <2> QED
    BY <1>4, <2>1, <2>2
<1>12. ASSUME NEW s \in Slots, NEW d \in Errors, RefAssignError(s, d)
       PROVE  PointerIsValid'
  <2>1. PICK r \in IF obj[s].has THEN {Done(Flagged(obj[s], FALSE))} ELSE Assigned(obj[s], "err", d) :
          Commit("assign", s, FALSE, r)
    BY <1>12 DEF RefAssignError
  <2>2. Points(r.cell)
    BY <1>0, <1>1, <1>9, <2>1, PointsOutcomes DEF Kinds
  <2> QED
    BY <1>2, <2>1, <2>2
<1>13. ASSUME NEW s \in Slots, NEW o \in Slots, NEW k \in {"copy", "move"},
              \/ RefNewFrom(s, o, k) \/ RefAssignFrom(s, o, k) \/ RefAndThen(s, o, k)
              \/ RefOrElse(s, o, k) \/ RefTransform(s, o, k) \/ RefTransformError(s, o, k)
       PROVE  PointerIsValid'
  <2>1. /\ \A r \in RefReplaced(obj[s], obj[o], k) : Points(r.cell)
        /\ \A r \in RefCopied(obj[o], k) : Points(r.cell)
    <3>1. Unspecified \in Data /\ k \in Kinds
      BY <1>1 DEF Data
    <3> QED BY <1>0, <3>1, PointsOutcomes
  <2>2. CASE RefNewFrom(s, o, k)
    BY <1>5, <2>1, <2>2 DEF RefNewFrom
  <2>3. CASE RefAssignFrom(s, o, k)
    BY <1>3, <2>1, <2>3 DEF RefAssignFrom
  <2>4. CASE RefAndThen(s, o, k) \/ RefOrElse(s, o, k)
    BY <1>6, <1>8, <2>1, <2>4 DEF RefAndThen, RefOrElse
  <2>5. CASE RefTransform(s, o, k)
    BY <1>6, <1>8, <2>1, <2>5 DEF RefTransform
  <2>6. CASE RefTransformError(s, o, k)
    BY <1>6, <1>8, <2>1, <2>6, ZenonT(40) DEF RefTransformError
  <2> QED
    BY <1>13, <2>2, <2>3, <2>4, <2>5, <2>6
<1>14. ASSUME NEW s \in made, NEW o \in made, RefTrade(s, o), obj[s].has, ~ obj[o].has
       PROVE  PointerIsValid'
  <2>1. PICK r \in Built(obj[s], "err", "move", Content(obj[o])), c \in Spent(obj[o], "move") :
          obj' = [obj EXCEPT
            ![s] = IF r.thrown THEN r.cell ELSE Flagged(r.cell, FALSE),
            ![o] = IF r.thrown THEN c
                   ELSE Flagged(Placed(Destroyed(obj[o], "err"), "val", obj[s].data), TRUE)]
    BY <1>14 DEF RefTrade
  <2> DEFINE x == Flagged(r.cell, FALSE)
             y == Flagged(Placed(Destroyed(obj[o], "err"), "val", obj[s].data), TRUE)
  <2>2. r \in Outcomes /\ ~ r.thrown
    BY <1>0, <2>1, BuiltIs DEF Steady, Nothrow, Members, Kinds
  <2>3. Points(x)
    BY <2>2 DEF Points, Flagged, Outcomes, Cells
  <2>4. Points(y)
    BY <1>0 DEF Points, Flagged, Placed, Destroyed, Cells
  <2>5. obj' = [obj EXCEPT ![s] = x, ![o] = y] /\ made' = made
    BY <1>14, <2>1, <2>2 DEF RefTrade
  <2> HIDE DEF x, y
  <2> QED
    BY <1>0, <1>1, <2>3, <2>4, <2>5, PointsCommitted
<1>15. ASSUME NEW s \in Slots, NEW o \in Slots, RefSwap(s, o)
       PROVE  PointerIsValid'
  <2>1. s \in made /\ o \in made
    BY <1>15 DEF RefSwap
  <2>2. CASE obj[s].has /\ ~ obj[o].has /\ RefTrade(s, o)
    BY <1>14, <2>1, <2>2
  <2>3. CASE ~ obj[s].has /\ obj[o].has /\ RefTrade(o, s)
    BY <1>14, <2>1, <2>3
  <2>4. CASE /\ obj' = [obj EXCEPT ![s].data = obj[o].data, ![o].data = obj[s].data]
             /\ UNCHANGED made
    <3>1. \A t \in Slots : obj'[t].has = obj[t].has /\ obj'[t].live = obj[t].live
      BY <1>0, <2>4 DEF Sound, TypeOK, Cells
    <3> QED
      BY <1>0, <2>4, <3>1 DEF PointerIsValid, Points
  <2>5. CASE /\ ~ obj[s].has /\ ~ obj[o].has /\ UNCHANGED made
             /\ \E x \in {obj[s], Blurred(obj[s])}, y \in {obj[o], Blurred(obj[o])} :
                  obj' = [obj EXCEPT ![o] = y, ![s] = x]
    <3>1. PICK x \in {obj[s], Blurred(obj[s])}, y \in {obj[o], Blurred(obj[o])} :
            obj' = [obj EXCEPT ![o] = y, ![s] = x]
      BY <2>5
    <3>2. Points(x) /\ Points(y)
      BY <1>0, <2>5 DEF Points, Blurred, Cells
    <3> QED
      BY <1>0, <1>1, <2>5, <3>1, <3>2, PointsCommitted
  <2> QED
    BY <1>15, <2>2, <2>3, <2>4, <2>5 DEF RefSwap
<1>16. ASSUME NEW s \in Slots, RefDestroy(s) PROVE PointerIsValid'
  <2>1. made' = made \ {s} /\ \A t \in Slots \ {s} : obj'[t] = obj[t]
    BY <1>16 DEF RefDestroy, Sound, TypeOK
  <2> QED
    BY <1>0, <2>1 DEF PointerIsValid, Points
<1> QED
  BY <1>7, <1>10, <1>11, <1>12, <1>13, <1>15, <1>16 DEF RefNext

-----------------------------------------------------------------------------
(* optional<T>.                                                            *)

\* A value that is given up leaves an empty object.
LEMMA OptClearedIs ==
  ASSUME form = "optional", NEW c, Whole(c)
  PROVE  /\ Whole(OptCleared(c)) /\ OptCleared(c).has = FALSE
         /\ OptCleared(c).live = "none" /\ OptCleared(c).data = Unspecified
<1>1. /\ Owning /\ c \in Cells /\ c.has \in BOOLEAN /\ c.live = Side(c.has) /\ ~c.fault
      /\ Side(TRUE) = "val" /\ Side(FALSE) = "none"
      /\ c.live = "none" => c.data = Unspecified
  BY Sides DEF Whole, Owning, Cells
<1>2. CASE ~c.has
  <2>1. c.has = FALSE
    BY <1>1, <1>2
  <2> QED
    BY <1>1, <1>2, <2>1 DEF OptCleared
<1>3. CASE c.has
  <2> DEFINE e == Destroyed(c, "val")  v == Flagged(e, FALSE)
  <2>1. c.has = TRUE /\ c.live = "val"
    BY <1>1, <1>3
  <2>2. e \in Cells /\ e.live = "none" /\ e.fault = c.fault /\ e.data = Unspecified
    BY <2>1, DestroyedIs
  <2> HIDE DEF e
  <2>3. v \in Cells /\ v.has = FALSE /\ v.live = "none" /\ v.fault = c.fault /\ v.data = Unspecified
    BY <2>2, FlaggedIs
  <2>4. OptCleared(c) = v
    BY <1>3 DEF OptCleared, e
  <2> HIDE DEF v
  <2>5. Whole(v)
    BY <1>1, <2>3 DEF Whole
  <2> QED
    BY <2>3, <2>4, <2>5
<1> QED
  BY <1>2, <1>3

\* Every assignment of an optional<T>.
LEMMA OptReplacedFits ==
  ASSUME form = "optional", NEW c, Whole(c), NEW has \in BOOLEAN, NEW k, NEW d \in Data,
         NEW r \in OptReplaced(c, has, k, d)
  PROVE  Fit(c, r) /\ (r.thrown /\ c.has # has => r.cell = c)
<1>1. /\ Owning /\ c \in Cells /\ c.has \in BOOLEAN /\ c.live = Side(c.has) /\ "val" \in Members
      /\ Side(TRUE) = "val" /\ Side(FALSE) = "none"
  BY Sides DEF Whole, Owning, Cells, Members
<1>2. CASE c.has /\ has
  <2>1. r \in Assigned(c, "val", d) /\ Side(c.has) = "val"
    BY <1>1, <1>2 DEF OptReplaced
  <2> QED
    BY <1>1, <1>2, <2>1, AssignFits
<1>3. CASE ~c.has /\ has
  <2>1. r \in Then(Built(c, "val", k, d), has) /\ c.live = "none" /\ has = TRUE
    BY <1>1, <1>3 DEF OptReplaced
  <2>2. Side(has) = "val"
    BY <1>1, <2>1
  <2>3. Fit(c, r) /\ (Owning /\ r.thrown => r.cell = c)
    <3>1. ASSUME NEW h \in BOOLEAN, Side(h) = "val", NEW q \in Then(Built(c, "val", k, d), h)
          PROVE  Fit(c, q) /\ (Owning /\ q.thrown => q.cell = c)
      BY <1>1, <2>1, <3>1, BuildFits
    <3> QED
      BY <2>1, <2>2, <3>1
  <2> QED
    BY <1>1, <2>3
<1>4. CASE ~has
  <2>1. r = Done(OptCleared(c))
    BY <1>4 DEF OptReplaced
  <2>2. Whole(OptCleared(c))
    BY OptClearedIs
  <2> QED
    BY <2>1, <2>2, OutcomeIs DEF Fit, Whole
<1> QED
  BY <1>2, <1>3, <1>4

\* A copy or a move of an optional<T>.
LEMMA OptCopiedFits ==
  ASSUME form = "optional", NEW c, Whole(c), NEW k, NEW r \in OptCopied(c, k)
  PROVE  r \in Outcomes /\ (~r.thrown => Whole(r.cell))
<1>1. Side(TRUE) = "val" /\ "val" \in Members /\ c.data \in Data
  BY Sides DEF Members, Whole, Cells
<1>2. CASE c.has
  BY <1>1, <1>2, NewFits DEF OptCopied
<1>3. CASE ~c.has
  <2>1. r = Done(Blank) /\ Whole(Blank)
    BY <1>3, BlankCell, Sides DEF OptCopied, Whole, Blank
  <2> QED
    BY <2>1, OutcomeIs DEF Whole
<1> QED
  BY <1>2, <1>3

\* An emplace that throws leaves the object empty.
LEMMA GiveUpGood ==
  ASSUME Sound, form = "optional", NEW s \in Slots, NEW r, r.thrown = TRUE,
         Whole(r.cell), r.cell.has = FALSE, r.cell.data = Unspecified,
         Commit("emplace", s, TRUE, r)
  PROVE  GoodStep
<1> USE DEF Commit, Called
<1>1. Owning /\ Owning' /\ s \in made
  BY DEF Owning
<1>2. obj'[s] = r.cell /\ (\A t \in Slots \ {s} : obj'[t] = obj[t]) /\ obj' \in [Slots -> Cells]
  BY DEF Sound, TypeOK, Whole
<1>3. Sound'
  <2>1. call' \in [op : Ops, on : Slots, side : BOOLEAN, thrown : BOOLEAN]
    BY DEF Ops
  <2> QED
    BY <1>2, <2>1
    DEF Sound, TypeOK, FlagTellsMember, NoMemberTwice, NothingHeld, Whole, Ops, Owning, Side
<1>4. Held(s).side \in {"value", "empty"}
  BY <1>1, HeldIs
<1>5. Held(s)' = Sums!Empty
  BY <1>1, <1>2, <1>3, HeldBecomes DEF Sums!Empty
<1>6. \A t \in Slots \ {s} : Held(t)' = Held(t)
  BY <1>1, <1>2, <1>3, HeldIs, HeldBecomes
<1>7. (Owning /\ call.thrown)' = TRUE
  BY <1>1
<1>8. Sums!FailEmpty(s)
  BY <1>4, <1>5, <1>6, <1>7 DEF Sums!FailEmpty
<1> QED
  BY <1>3, <1>8 DEF GoodStep, Sums!Next

\* Where one of two has a value, swap hands it over or throws.
LEMMA OptHandOverGood ==
  ASSUME Sound, form = "optional", UNCHANGED <<form, safe, made>>, NEW s \in made, NEW o \in made,
         obj[s].has, ~obj[o].has, OptHandOver(s, o)
  PROVE  GoodStep
<1>1. /\ Owning /\ made \subseteq Slots /\ Whole(obj[s]) /\ Whole(obj[o]) /\ s # o
      /\ "val" \in Members /\ Side(TRUE) = "val" /\ Side(FALSE) = "none"
  BY SoundSlot, Sides DEF Owning, Sound, TypeOK, Members
<1>2. obj[s].data \in Data /\ obj[s].has = TRUE /\ obj[o].has = FALSE
  BY <1>1 DEF Whole, Cells
<1>3. obj[o].live = "none" /\ obj[o].data = Unspecified
  BY <1>1, <1>2 DEF Whole
<1>4. PICK r \in Then(Built(obj[o], "val", "move", obj[s].data), TRUE), c \in Spent(obj[s], "move") :
        /\ obj' = [obj EXCEPT ![o] = r.cell, ![s] = IF r.thrown THEN c ELSE OptCleared(obj[s])]
        /\ Called("swap", s, FALSE, r.thrown)
  BY DEF OptHandOver
<1>5. /\ Fit(obj[o], r) /\ (r.thrown => r.cell = obj[o])
      /\ ~r.thrown => r.cell.has = TRUE /\ r.cell.data = obj[s].data
  <2>1. ASSUME NEW old, Whole(old), old.live = "none", NEW d \in Data, NEW has \in BOOLEAN,
               Side(has) = "val", NEW q \in Then(Built(old, "val", "move", d), has)
        PROVE  Fit(old, q) /\ (q.thrown => q.cell = old)
               /\ (~q.thrown => q.cell.has = has /\ q.cell.data = d)
    BY <1>1, <2>1, BuildFits
  <2> QED
    BY <1>1, <1>2, <1>3, <1>4, <2>1
<1>6. r.thrown \in BOOLEAN /\ Whole(r.cell)
  BY <1>5 DEF Fit, Outcomes
<1> DEFINE v == OptCleared(obj[s])
<1>7. Whole(v) /\ v.has = FALSE /\ v.data = Unspecified
  BY <1>1, OptClearedIs
<1>8. Whole(c) /\ c.has = obj[s].has /\ c.data \in {obj[s].data, Unspecified}
  BY <1>1, SpentWhole
<1>9. /\ obj'[o] = r.cell /\ obj'[s] = IF r.thrown THEN c ELSE v
      /\ \A x \in Slots \ {s, o} : obj'[x] = obj[x]
      /\ obj' \in [Slots -> Cells]
  BY <1>1, <1>4, <1>6, <1>7, <1>8 DEF Sound, TypeOK, Whole
<1> HIDE DEF v
<1>10. Whole(obj'[s]) /\ Whole(obj'[o])
  BY <1>6, <1>7, <1>8, <1>9
<1>11. r.thrown => /\ obj'[s].has = obj[s].has /\ obj'[s].data \in {obj[s].data, Unspecified}
                   /\ obj'[o].has = obj[o].has /\ obj'[o].data \in {obj[o].data, Unspecified}
  BY <1>5, <1>8, <1>9
<1>12. ~r.thrown => /\ obj'[s].has = obj[o].has /\ obj'[s].data = obj[o].data
                    /\ obj'[o].has = obj[s].has /\ obj'[o].data = obj[s].data
  BY <1>2, <1>3, <1>5, <1>7, <1>9
<1>13. /\ call' \in [op : Ops, on : Slots, side : BOOLEAN, thrown : BOOLEAN]
       /\ call'.op = "swap" /\ call'.thrown = r.thrown
  BY <1>1, <1>4, <1>6 DEF Called, Ops
<1> QED
  BY <1>1, <1>9, <1>10, <1>11, <1>12, <1>13, PairGood

\* Every call of an optional<T>.
LEMMA OptGood == ASSUME Sound, OptNext PROVE GoodStep
<1>1. form = "optional" /\ Owning /\ made \subseteq Slots
  BY DEF OptNext, Owning, Sound, TypeOK
<1>2. \A x \in made : Whole(obj[x]) /\ obj[x].has \in BOOLEAN /\ obj[x].data \in Data
  BY <1>1, SoundSlot DEF Whole, Cells
<1>3. /\ Values \subseteq Data /\ Unspecified \in Data /\ Side(TRUE) = "val" /\ Side(FALSE) = "none"
      /\ "val" \in Members /\ TRUE \in BOOLEAN /\ FALSE \in BOOLEAN
  BY <1>1, Sides DEF Data, Members
<1>4. /\ Whole(Made(FALSE, Unspecified)) /\ Whole(Blank)
      /\ \A d \in Values : Whole(Made(TRUE, d))
  <2>1. Whole(Blank)
    BY <1>3, BlankCell DEF Whole, Blank
  <2> QED
    BY <1>3, <2>1, MadeWhole
<1>5. ASSUME NEW s \in Slots, OptNew(s) PROVE GoodStep
  <2>1. Done(Made(FALSE, Unspecified)) \in Outcomes /\ Whole(Done(Made(FALSE, Unspecified)).cell)
    BY <1>4, OutcomeIs DEF Whole
  <2> QED
    BY <1>5, <2>1, CreateGood DEF OptNew
<1>6. ASSUME NEW s \in Slots, NEW d \in Values, NEW k, OptNewValue(s, k, d) PROVE GoodStep
  BY <1>3, <1>6, NewFits, CreateGood DEF OptNewValue
<1>7. ASSUME NEW s \in Slots, NEW d \in Values, NEW k, OptAssignValue(s, k, d) PROVE GoodStep
  <2>1. PICK r \in OptReplaced(obj[s], TRUE, k, d) : Commit("assign", s, TRUE, r)
    BY <1>7 DEF OptAssignValue
  <2>2. s \in made /\ Whole(obj[s]) /\ d \in Data
    BY <1>2, <1>3, <2>1 DEF Commit
  <2>3. Fit(obj[s], r) /\ (r.thrown /\ obj[s].has # TRUE => r.cell = obj[s])
    BY <1>1, <1>3, <2>1, <2>2, OptReplacedFits
  <2> QED
    BY <2>1, <2>3, CommitGood DEF Ops
<1>8. ASSUME NEW s \in Slots, NEW o \in Slots, NEW k, OptAssignFrom(s, o, k) PROVE GoodStep
  <2>1. PICK r \in OptReplaced(obj[s], obj[o].has, k, obj[o].data) : CommitFrom("assign", s, o, k, r)
    BY <1>8 DEF OptAssignFrom
  <2>2. s \in made /\ o \in made
    BY <2>1 DEF CommitFrom
  <2>3. Fit(obj[s], r) /\ (r.thrown /\ obj[s].has # obj[o].has => r.cell = obj[s])
    BY <1>1, <1>2, <2>1, <2>2, OptReplacedFits
  <2> QED
    BY <2>1, <2>3, CommitFromGood
<1>9. ASSUME NEW s \in Slots, OptReset(s) PROVE GoodStep
  <2>1. s \in made /\ Commit("reset", s, FALSE, Done(OptCleared(obj[s])))
    BY <1>9 DEF OptReset, Commit
  <2>2. Whole(OptCleared(obj[s]))
    BY <1>1, <1>2, <2>1, OptClearedIs
  <2>3. Fit(obj[s], Done(OptCleared(obj[s])))
    BY <2>2, OutcomeIs DEF Fit, Whole
  <2> QED
    BY <2>1, <2>3, CommitGood DEF Ops
<1>10. ASSUME NEW s \in Slots, NEW d \in Values, OptEmplace(s, d) PROVE GoodStep
  <2> DEFINE e == OptCleared(obj[s])
  <2>1. PICK r \in Then(Built(e, "val", "convert", d), TRUE) : Commit("emplace", s, TRUE, r)
    BY <1>10 DEF OptEmplace
  <2>2. Whole(e) /\ e.has = FALSE /\ e.live = "none" /\ e.data = Unspecified
    BY <1>1, <1>2, <2>1, OptClearedIs DEF Commit
  <2> HIDE DEF e
  <2>3. Fit(e, r) /\ (r.thrown => r.cell = e)
    <3>1. ASSUME NEW has \in BOOLEAN, Side(has) = "val",
                 NEW q \in Then(Built(e, "val", "convert", d), has)
          PROVE  Fit(e, q) /\ (Owning /\ q.thrown => q.cell = e)
      BY <1>3, <2>2, <3>1, BuildFits
    <3> QED
      BY <1>1, <1>3, <2>1, <3>1
  <2>4. CASE r.thrown
    <3>1. r.thrown = TRUE
      BY <2>3, <2>4 DEF Fit, Outcomes
    <3> QED
      BY <1>1, <2>1, <2>2, <2>3, <2>4, <3>1, GiveUpGood
  <2>5. CASE ~r.thrown
    <3>1. Fit(obj[s], r)
      BY <2>3, <2>5 DEF Fit
    <3> QED
      BY <1>3, <2>1, <2>5, <3>1, CommitGood DEF Ops
  <2> QED
    BY <2>4, <2>5
<1>11. ASSUME NEW o \in made, NEW k, NEW r \in OptCopied(obj[o], k)
       PROVE  r \in Outcomes /\ (~r.thrown => Whole(r.cell))
  BY <1>1, <1>2, <1>11, OptCopiedFits
<1>12. ASSUME NEW s \in Slots, NEW o \in Slots, NEW k, OptNewFrom(s, o, k) PROVE GoodStep
  <2>1. PICK r \in OptCopied(obj[o], k) : CreateFrom(s, o, k, r)
    BY <1>12 DEF OptNewFrom
  <2> QED
    BY <1>11, <2>1, CreateFromGood DEF CreateFrom
<1>13. ASSUME NEW s \in Slots, NEW o \in Slots, NEW k,
              OptAndThen(s, o, k) \/ OptTransform(s, o, k) \/ OptOrElse(s, o, k)
       PROVE  GoodStep
  <2>1. o \in made
    BY <1>13 DEF OptAndThen, OptTransform, OptOrElse, Chain, CreateFrom
  <2>2. /\ \A c \in OptResults : Whole(c)
        /\ \A c \in {Made(TRUE, d) : d \in Values} : Whole(c)
    BY <1>4 DEF OptResults
  <2>3. \A r \in {Done(Blank)} : r \in Outcomes /\ (~r.thrown => Whole(r.cell))
    BY <1>4, BlankCell, OutcomeIs
  <2>4. \A r \in OptCopied(obj[o], k) : r \in Outcomes /\ (~r.thrown => Whole(r.cell))
    BY <1>11, <2>1
  <2>5. CASE OptAndThen(s, o, k)
    BY <2>2, <2>3, <2>5, ChainGood DEF OptAndThen
  <2>6. CASE OptTransform(s, o, k)
    BY <2>2, <2>3, <2>6, ChainGood DEF OptTransform
  <2>7. CASE OptOrElse(s, o, k)
    BY <2>2, <2>4, <2>7, ChainGood DEF OptOrElse
  <2> QED
    BY <1>13, <2>5, <2>6, <2>7
<1>14. ASSUME NEW s \in Slots, NEW o \in Slots, OptSwap(s, o) PROVE GoodStep
  <2>1. s \in made /\ o \in made /\ UNCHANGED <<form, safe, made>>
    BY <1>14 DEF OptSwap
  <2>2. CASE ~obj[s].has /\ ~obj[o].has
    <3>1. UNCHANGED obj /\ Called("swap", s, FALSE, FALSE)
      BY <1>14, <2>2 DEF OptSwap
    <3>2. /\ call' \in [op : Ops, on : Slots, side : BOOLEAN, thrown : BOOLEAN]
          /\ call'.op = "swap" /\ call'.thrown = FALSE
      BY <3>1 DEF Called, Ops
    <3>3. obj' \in [Slots -> Cells] /\ Whole(obj'[s]) /\ Whole(obj'[o])
      BY <1>2, <2>1, <3>1 DEF Sound, TypeOK
    <3> QED
      BY <2>1, <3>1, <3>2, <3>3, PairGood
  <2>3. CASE obj[s].has /\ ~obj[o].has
    <3>1. OptHandOver(s, o)
      BY <1>14, <2>3 DEF OptSwap
    <3> QED
      BY <1>1, <2>1, <2>3, <3>1, OptHandOverGood
  <2>4. CASE obj[s].has /\ obj[o].has
    <3>1. PICK x \in {obj[s], Blurred(obj[s])}, y \in {obj[o], Blurred(obj[o])} :
             \/ /\ obj' = [obj EXCEPT ![s].data = obj[o].data, ![o].data = obj[s].data]
                /\ Called("swap", s, TRUE, FALSE)
             \/ obj' = [obj EXCEPT ![o] = y, ![s] = x] /\ Called("swap", s, TRUE, TRUE)
      BY <1>14, <2>4 DEF OptSwap
    <3>2. obj[s].has = obj[o].has
      BY <1>2, <2>1, <2>4
    <3>3. CASE /\ obj' = [obj EXCEPT ![s].data = obj[o].data, ![o].data = obj[s].data]
               /\ Called("swap", s, TRUE, FALSE)
      BY <1>3, <2>1, <3>2, <3>3, SwappedData
    <3>4. CASE obj' = [obj EXCEPT ![o] = y, ![s] = x] /\ Called("swap", s, TRUE, TRUE)
      BY <1>3, <2>1, <3>1, <3>4, SwapThrew
    <3> QED
      BY <3>1, <3>3, <3>4
  <2> QED
    BY <1>14, <2>2, <2>3, <2>4 DEF OptSwap
<1>15. ASSUME NEW s \in Slots, OptDestroy(s) PROVE GoodStep
  <2>1. /\ s \in made /\ UNCHANGED <<form, safe>> /\ made' = made \ {s}
        /\ Called("end", s, FALSE, FALSE) /\ obj' = [obj EXCEPT ![s] = OptCleared(obj[s])]
    BY <1>15 DEF OptDestroy
  <2>2. /\ Whole(OptCleared(obj[s])) /\ OptCleared(obj[s]).has = FALSE
        /\ OptCleared(obj[s]).live = "none" /\ OptCleared(obj[s]).data = Unspecified
    BY <1>1, <1>2, <2>1, OptClearedIs
  <2>3. OptCleared(obj[s]) \in Cells /\ ~OptCleared(obj[s]).fault
    BY <1>1, <2>2 DEF Whole
  <2> QED
    BY <2>1, <2>2, <2>3, EndCell, EndGood
<1> QED
  BY <1>5, <1>6, <1>7, <1>8, <1>9, <1>10, <1>12, <1>13, <1>14, <1>15, TakeGood DEF OptNext

-----------------------------------------------------------------------------
(* The theorems.                                                           *)

\* Nothing is held at first.
LEMMA InitGood == ASSUME Init PROVE Sound /\ Sums!Init
<1>1. Sound
  BY BlankCell
  DEF Init, Sound, TypeOK, FlagTellsMember, NoMemberTwice, NothingHeld, Blank, Forms, Members
<1>2. \A s \in Slots : Held(s) = Sums!Gone
  BY <1>1, HeldIs DEF Init
<1>3. (Owning /\ call.thrown) = FALSE
  BY DEF Init
<1> QED
  BY <1>1, <1>2, <1>3 DEF Sums!Init

\* Every step is a good step.
LEMMA NextGood == ASSUME Sound, Next PROVE GoodStep
BY ExpectedGood, VoidGood, RefGood, OptGood DEF Next

\* So is one that changes nothing.
LEMMA StutterGood ==
  ASSUME Sound, UNCHANGED vars
  PROVE  Sound' /\ UNCHANGED Sums!vars
<1>1. Sound'
  BY DEF vars, Sound, TypeOK, FlagTellsMember, NoMemberTwice, NothingHeld, Owning, Side, Cells, Blank
<1>2. \A s \in Slots : Held(s)' = Held(s)
  BY <1>1, HeldIs, HeldBecomes DEF vars, Owning
<1> QED
  BY <1>1, <1>2 DEF vars, Sums!vars, Owning

\* The invariant of all the proofs.
LEMMA AlwaysSound == Spec => []Sound
<1>1. Init => Sound
  BY InitGood
<1>2. Sound /\ [Next]_vars => Sound'
  BY NextGood, StutterGood DEF GoodStep
<1> QED
  BY <1>1, <1>2, PTL DEF Spec

\* The model keeps its types, and nothing is alive where there is no object.
THEOREM TypeCorrect == Spec => []TypeOK
<1>1. Sound => TypeOK
  BY DEF Sound
<1> QED
  BY <1>1, AlwaysSound, PTL

\* After every call, also one that threw, has_ names the member that is alive, and
\* no member has been destroyed or constructed twice.
THEOREM FlagAndMember == Spec => []MemberIsSound
<1>1. Sound => MemberIsSound
  BY DEF Sound, MemberIsSound
<1> QED
  BY <1>1, AlwaysSound, PTL

\* An expected<T&, E> whose errors are constructed without exceptions points to
\* something whenever it says that it has a value.
THEOREM PointersAreValid == Spec => []PointerIsValid
<1>1. Init => PointerIsValid
  BY DEF Init, PointerIsValid
<1>2. Sound /\ PointerIsValid /\ [Next]_vars => PointerIsValid'
  <2> SUFFICES ASSUME Sound, PointerIsValid, [Next]_vars PROVE PointerIsValid'
    OBVIOUS
  <2>1. CASE UNCHANGED vars
    BY <2>1 DEF vars, PointerIsValid
  <2>2. CASE Next /\ Steady
    <3>1. RefNext
      BY <2>2 DEF Next, Steady, ExpectedNext, VoidNext, OptNext
    <3> QED
      BY <2>2, <3>1, PointsStep
  <2>3. CASE Next /\ ~ Steady
    BY <2>3, FormStays DEF Steady, PointerIsValid
  <2> QED
    BY <2>1, <2>2, <2>3
<1> QED
  BY <1>1, <1>2, AlwaysSound, PTL DEF Spec

\* An assignment that would change sides and throws has no effect.
THEOREM AssignmentRollsBack == Spec => AllOrNothing
<1> DEFINE A == (Owning /\ call'.thrown /\ call'.op = "assign" /\ obj[call'.on].has # call'.side)
                  => obj'[call'.on] = obj[call'.on]
<1>1. Sound /\ [Next]_vars => A \/ UNCHANGED vars
  BY NextGood DEF GoodStep
<1> QED
  BY <1>1, AlwaysSound, PTL DEF Spec, AllOrNothing

\* What each call does to what the objects hold is what SumType says.
THEOREM ImplementsSum == Spec => SumSpec
<1>1. Init => Sums!Init
  BY InitGood
<1>2. Sound /\ [Next]_vars => [Sums!Next]_Sums!vars
  BY NextGood, StutterGood DEF GoodStep
<1> QED
  BY <1>1, <1>2, AlwaysSound, PTL DEF Spec, SumSpec, Sums!Spec
=============================================================================
