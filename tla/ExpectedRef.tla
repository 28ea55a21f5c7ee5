---------------------------- MODULE ExpectedRef -----------------------------
(***************************************************************************)
(* expected<T&, E>: a pointer or an error.  A pointer needs no destructor, *)
(* so it is written over wherever an error is constructed.                 *)
(***************************************************************************)
EXTENDS TaggedUnion

\* What error() reads: nothing certain where no error was constructed.
Content(c) == IF c.live = Side(c.has) THEN c.data ELSE Unspecified

RefNewValue(s, d) == Create(s, Done(Flagged(Placed(Blank, "val", d), TRUE)))
RefNewError(s, k, d) == \E r \in Then(Built(Blank, "err", k, d), FALSE) : Create(s, r)

RefCopied(o, k) ==
  IF o.has THEN {Done(Flagged(Placed(Blank, "val", Content(o)), TRUE))}
  ELSE Then(Built(Blank, "err", k, Content(o)), FALSE)

RefNewFrom(s, o, k) == \E r \in RefCopied(obj[o], k) : CreateFrom(s, o, k, r)

RefDestroy(s) ==
  /\ s \in made
  /\ made' = made \ {s}
  /\ obj' = [obj EXCEPT ![s] =
                IF obj[s].has THEN [Blank EXCEPT !.fault = obj[s].fault] ELSE Destroyed(obj[s], "err")]
  /\ Called("end", s, FALSE, FALSE)
  /\ UNCHANGED <<form, safe>>

\* Mutant of Pointed: the flag is written and the pointer is not.
PointedFlag(c, d) == Flagged(IF c.has THEN c ELSE Destroyed(c, "err"), TRUE)

\* A pointer is stored; an error that was there is destroyed.
Pointed(c, d) == Flagged(Placed(IF c.has THEN c ELSE Destroyed(c, "err"), "val", d), TRUE)

\* operator=(const expected&), operator=(expected&&)
RefReplaced(c, o, k) ==
  CASE o.has -> {Done(Pointed(c, Content(o)))}
    [] ~o.has /\ c.has -> Then(Built(c, "err", k, Content(o)), FALSE)
    [] OTHER -> Assigned(c, "err", Content(o))

RefAssignFrom(s, o, k) ==
  \E r \in RefReplaced(obj[s], obj[o], k) : CommitFrom("assign", s, o, k, r)

\* operator=(U&&)
RefAssignValue(s, d) == Commit("assign", s, TRUE, Done(Pointed(obj[s], d)))

\* operator=(unexpected): where a pointer was, only the flag is written.
RefAssignError(s, d) ==
  \E r \in IF obj[s].has THEN {Done(Flagged(obj[s], FALSE))} ELSE Assigned(obj[s], "err", d) :
    Commit("assign", s, FALSE, r)

RefEmplace(s, d) == Commit("emplace", s, TRUE, Done(Pointed(obj[s], d)))

\* swap of a pointer in s and an error in o.
RefTrade(s, o) ==
  \E r \in Built(obj[s], "err", "move", Content(obj[o])), c \in Spent(obj[o], "move") :
    /\ obj' = [obj EXCEPT
         ![s] = IF r.thrown THEN r.cell ELSE Flagged(r.cell, FALSE),
         ![o] = IF r.thrown THEN c
                ELSE Flagged(Placed(Destroyed(obj[o], "err"), "val", obj[s].data), TRUE)]
    /\ Called("swap", s, FALSE, r.thrown)
    /\ UNCHANGED <<form, safe, made>>

RefSwap(s, o) ==
  /\ {s, o} \subseteq made
  /\ \/ obj[s].has /\ ~obj[o].has /\ RefTrade(s, o)
     \/ ~obj[s].has /\ obj[o].has /\ RefTrade(o, s)
     \/ /\ obj[s].has = obj[o].has
        /\ \/ /\ obj' = [obj EXCEPT ![s].data = obj[o].data, ![o].data = obj[s].data]
              /\ Called("swap", s, obj[o].has, FALSE)
           \/ /\ ~obj[s].has
              /\ \E x \in {obj[s], Blurred(obj[s])}, y \in {obj[o], Blurred(obj[o])} :
                   obj' = [obj EXCEPT ![o] = y, ![s] = x]
              /\ Called("swap", s, FALSE, TRUE)
        /\ UNCHANGED <<form, safe, made>>

RefAndThen(s, o, k) == Chain(s, o, k, obj[o].has, Results, RefCopied(obj[o], k))
RefOrElse(s, o, k) == Chain(s, o, k, ~obj[o].has, Results, RefCopied(obj[o], k))
RefTransform(s, o, k) ==
  Chain(s, o, k, obj[o].has, {Made(TRUE, d) : d \in Values}, RefCopied(obj[o], k))
RefTransformError(s, o, k) ==
  Chain(s, o, k, ~obj[o].has, {Made(FALSE, d) : d \in Errors}, RefCopied(obj[o], k))

RefNext ==
  /\ form = "reference"
  /\ \/ \E s \in Slots, d \in Values : RefNewValue(s, d) \/ RefAssignValue(s, d) \/ RefEmplace(s, d)
     \/ \E s \in Slots, d \in Errors, k \in Kinds : RefNewError(s, k, d)
     \/ \E s \in Slots, d \in Errors : RefAssignError(s, d)
     \/ \E s, o \in Slots : RefSwap(s, o)
     \/ \E s, o \in Slots, k \in {"copy", "move"} :
          \/ RefNewFrom(s, o, k) \/ RefAssignFrom(s, o, k) \/ RefAndThen(s, o, k)
          \/ RefOrElse(s, o, k) \/ RefTransform(s, o, k) \/ RefTransformError(s, o, k)
     \/ \E s \in Slots, k \in {"copy", "move"} : TakeError(s, k)
     \/ \E s \in Slots : TakeValue(s, "copy") \/ RefDestroy(s)
=============================================================================
