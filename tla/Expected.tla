------------------------------ MODULE Expected ------------------------------
(***************************************************************************)
(* expected<T, E>.                                                         *)
(***************************************************************************)
EXTENDS TaggedUnion

\* Constructors; the default one makes some value.
NewValue(s, d) == \E r \in Then(Built(Blank, "val", "convert", d), TRUE) : Create(s, r)
NewError(s, k, d) == \E r \in Then(Built(Blank, "err", k, d), FALSE) : Create(s, r)

NewFrom(s, o, k) ==
  \E r \in Then(Built(Blank, Side(obj[o].has), k, obj[o].data), obj[o].has) : CreateFrom(s, o, k, r)

\* ~expected
Destroy(s) ==
  /\ s \in made
  /\ made' = made \ {s}
  /\ obj' = [obj EXCEPT ![s] = Flagged(Destroyed(obj[s], Side(obj[s].has)), FALSE)]
  /\ Called("end", s, FALSE, FALSE)
  /\ UNCHANGED <<form, safe>>

\* Mutant of Reinit: the old member is destroyed before a constructor that may throw.
ReinitEarly(c, new, old, k, d) == Built(Destroyed(c, old), new, k, d)

\* reinit_expected: old gives way to new.  If only the construction can throw, the
\* new member is made aside first; if its move can too, old is kept aside.
Reinit(c, new, old, k, d) ==
  LET empty == Destroyed(c, old)
      made_new == Done(Placed(empty, new, d))
      put_back == {Threw(r.cell) : r \in Built(empty, old, "move", c.data)}
  IN IF Nothrow(new, k) THEN {made_new}
     ELSE IF Nothrow(new, "move") THEN {made_new, Threw(c)}
     ELSE {made_new} \cup put_back

\* What an assignment from the side and data of another object may come to.
Replaced(c, has, k, d) ==
  IF c.has = has THEN Assigned(c, Side(has), d)
  ELSE Then(Reinit(c, Side(has), Side(c.has), k, d), has)

\* operator=(const expected&), operator=(expected&&)
AssignFrom(s, o, k) ==
  /\ k \in {"copy", "move"} /\ Movable
  /\ \E r \in Replaced(obj[s], obj[o].has, k, obj[o].data) : CommitFrom("assign", s, o, k, r)

\* operator=(U&&)
AssignValue(s, k, d) ==
  /\ Nothrow("val", k) \/ Movable
  /\ \E r \in Replaced(obj[s], TRUE, k, d) : Commit("assign", s, TRUE, r)

\* operator=(const unexpected<G>&), operator=(unexpected<G>&&)
AssignError(s, k, d) ==
  /\ Nothrow("err", k) \/ Movable
  /\ \E r \in Replaced(obj[s], FALSE, k, d) : Commit("assign", s, FALSE, r)

\* emplace is offered for constructions that cannot throw.
Emplace(s, d) ==
  /\ Nothrow("val", "convert")
  /\ Commit("emplace", s, TRUE,
            Done(Flagged(Placed(Destroyed(obj[s], Side(obj[s].has)), "val", d), TRUE)))

\* The members of hold and give change places, that of hold by way of a temporary.
\* If the one of give cannot be moved over, hold gets its own back.
Traded(hold, give) ==
  LET empty == Destroyed(hold, Side(hold.has))
      got == Flagged(Placed(empty, Side(give.has), give.data), give.has)
      gave == Flagged(Placed(Destroyed(give, Side(give.has)), Side(hold.has), hold.data), hold.has)
      put_back == Built(empty, Side(hold.has), "move", hold.data)
  IN {[hold |-> got, give |-> gave, thrown |-> FALSE]} \cup
     (IF Nothrow(Side(give.has), "move") THEN {}
      ELSE [hold : {r.cell : r \in put_back}, give : Spent(give, "move"), thrown : {TRUE}])

\* Mutant of CommitTrade: has_ of the second object is not written.
CommitTradeHalf(s, o, t) ==
  /\ obj' = [obj EXCEPT ![s] = t.hold, ![o] = Flagged(t.give, obj[o].has)]
  /\ Called("swap", s, obj[o].has, t.thrown)
  /\ UNCHANGED <<form, safe, made>>

CommitTrade(s, o, t) ==
  /\ obj' = [obj EXCEPT ![s] = t.hold, ![o] = t.give]
  /\ Called("swap", s, obj[o].has, t.thrown)
  /\ UNCHANGED <<form, safe, made>>

\* std::swap of two members on the same side; a move that throws leaves them used.
SwapSame(s, o) ==
  /\ \/ /\ obj' = [obj EXCEPT ![s].data = obj[o].data, ![o].data = obj[s].data]
        /\ Called("swap", s, obj[o].has, FALSE)
     \/ /\ \E x \in {obj[s], Blurred(obj[s])}, y \in {obj[o], Blurred(obj[o])} :
             obj' = [obj EXCEPT ![o] = y, ![s] = x]
        /\ Called("swap", s, obj[o].has, TRUE)
  /\ UNCHANGED <<form, safe, made>>

\* swap: the side that moves without throwing is held, the other one is given.  An
\* error in this and a value in the other is the same call the other way round.
Swap(s, o) ==
  /\ {s, o} \subseteq made /\ Movable
  /\ \/ obj[s].has = obj[o].has /\ SwapSame(s, o)
     \/ /\ obj[s].has /\ ~obj[o].has
        /\ IF Nothrow("err", "move")
           THEN \E t \in Traded(obj[o], obj[s]) : CommitTrade(o, s, t)
           ELSE \E t \in Traded(obj[s], obj[o]) : CommitTrade(s, o, t)

Passed(o, k) == Then(Built(Blank, Side(obj[o].has), k, obj[o].data), obj[o].has)

AndThen(s, o, k) == Chain(s, o, k, obj[o].has, Results, Passed(o, k))
OrElse(s, o, k) == Chain(s, o, k, ~obj[o].has, Results, Passed(o, k))
Transform(s, o, k) ==
  Chain(s, o, k, obj[o].has, {Made(TRUE, d) : d \in Values}, Passed(o, k))
TransformError(s, o, k) ==
  Chain(s, o, k, ~obj[o].has, {Made(FALSE, d) : d \in Errors}, Passed(o, k))

ExpectedNext ==
  /\ form = "expected"
  /\ \/ \E s \in Slots, d \in Values :
          NewValue(s, d) \/ Emplace(s, d) \/ \E k \in Kinds : AssignValue(s, k, d)
     \/ \E s \in Slots, d \in Errors, k \in Kinds : NewError(s, k, d) \/ AssignError(s, k, d)
     \/ \E s, o \in Slots, k \in {"copy", "move"} :
          \/ NewFrom(s, o, k) \/ AssignFrom(s, o, k) \/ Swap(s, o)
          \/ AndThen(s, o, k) \/ OrElse(s, o, k) \/ Transform(s, o, k) \/ TransformError(s, o, k)
     \/ \E s \in Slots, k \in {"copy", "move"} : TakeValue(s, k) \/ TakeError(s, k)
     \/ \E s \in Slots : Destroy(s)
=============================================================================
