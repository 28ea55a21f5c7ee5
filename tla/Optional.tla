------------------------------ MODULE Optional ------------------------------
(***************************************************************************)
(* optional<T>: a flag, and a value that is there with it.                 *)
(***************************************************************************)
EXTENDS TaggedUnion

OptNew(s) == Create(s, Done(Made(FALSE, Unspecified)))
OptNewValue(s, k, d) == \E r \in Then(Built(Blank, "val", k, d), TRUE) : Create(s, r)

OptCopied(o, k) ==
  IF o.has THEN Then(Built(Blank, "val", k, o.data), TRUE) ELSE {Done(Blank)}

OptNewFrom(s, o, k) == \E r \in OptCopied(obj[o], k) : CreateFrom(s, o, k, r)

\* Mutant of OptCleared: the flag is reset and the value is not destroyed.
OptClearedFlag(c) == Flagged(c, FALSE)

OptCleared(c) == IF c.has THEN Flagged(Destroyed(c, "val"), FALSE) ELSE c

OptDestroy(s) ==
  /\ s \in made
  /\ made' = made \ {s}
  /\ obj' = [obj EXCEPT ![s] = OptCleared(obj[s])]
  /\ Called("end", s, FALSE, FALSE)
  /\ UNCHANGED <<form, safe>>

\* reset(), operator=(nullopt_t)
OptReset(s) == Commit("reset", s, FALSE, Done(OptCleared(obj[s])))

\* operator= from another optional, or from a value.
OptReplaced(c, has, k, d) ==
  CASE c.has /\ has -> Assigned(c, "val", d)
    [] ~c.has /\ has -> Then(Built(c, "val", k, d), TRUE)
    [] OTHER -> {Done(OptCleared(c))}

OptAssignFrom(s, o, k) ==
  \E r \in OptReplaced(obj[s], obj[o].has, k, obj[o].data) : CommitFrom("assign", s, o, k, r)

OptAssignValue(s, k, d) ==
  \E r \in OptReplaced(obj[s], TRUE, k, d) : Commit("assign", s, TRUE, r)

\* emplace gives the old value up first; if the constructor throws, it is empty.
OptEmplace(s, d) ==
  \E r \in Then(Built(OptCleared(obj[s]), "val", "convert", d), TRUE) : Commit("emplace", s, TRUE, r)

\* Mutant of OptHandOver: what has been moved from is not destroyed.
OptHandOverOnly(s, o) ==
  \E r \in Then(Built(obj[o], "val", "move", obj[s].data), TRUE), c \in Spent(obj[s], "move") :
    /\ obj' = [obj EXCEPT ![o] = r.cell, ![s] = IF r.thrown THEN c ELSE Flagged(c, FALSE)]
    /\ Called("swap", s, FALSE, r.thrown)

\* swap of a value in s with nothing in o.
OptHandOver(s, o) ==
  \E r \in Then(Built(obj[o], "val", "move", obj[s].data), TRUE), c \in Spent(obj[s], "move") :
    /\ obj' = [obj EXCEPT ![o] = r.cell, ![s] = IF r.thrown THEN c ELSE OptCleared(obj[s])]
    /\ Called("swap", s, FALSE, r.thrown)

OptSwap(s, o) ==
  /\ {s, o} \subseteq made
  /\ \/ ~obj[s].has /\ ~obj[o].has /\ Called("swap", s, FALSE, FALSE) /\ UNCHANGED obj
     \/ obj[s].has /\ ~obj[o].has /\ OptHandOver(s, o)
     \/ /\ obj[s].has /\ obj[o].has
        /\ \E x \in {obj[s], Blurred(obj[s])}, y \in {obj[o], Blurred(obj[o])} :
             \/ /\ obj' = [obj EXCEPT ![s].data = obj[o].data, ![o].data = obj[s].data]
                /\ Called("swap", s, TRUE, FALSE)
             \/ obj' = [obj EXCEPT ![o] = y, ![s] = x] /\ Called("swap", s, TRUE, TRUE)
  /\ UNCHANGED <<form, safe, made>>

OptResults == {Made(TRUE, d) : d \in Values} \cup {Made(FALSE, Unspecified)}

OptAndThen(s, o, k) == Chain(s, o, k, obj[o].has, OptResults, {Done(Blank)})
OptTransform(s, o, k) == Chain(s, o, k, obj[o].has, {Made(TRUE, d) : d \in Values}, {Done(Blank)})
OptOrElse(s, o, k) == Chain(s, o, k, ~obj[o].has, OptResults, OptCopied(obj[o], k))

OptNext ==
  /\ form = "optional"
  /\ \/ \E s \in Slots : OptNew(s) \/ OptReset(s) \/ OptDestroy(s)
     \/ \E s \in Slots, d \in Values :
          OptEmplace(s, d) \/ \E k \in Kinds : OptNewValue(s, k, d) \/ OptAssignValue(s, k, d)
     \/ \E s, o \in Slots : OptSwap(s, o)
     \/ \E s, o \in Slots, k \in {"copy", "move"} :
          \/ OptNewFrom(s, o, k) \/ OptAssignFrom(s, o, k)
          \/ OptAndThen(s, o, k) \/ OptTransform(s, o, k) \/ OptOrElse(s, o, k)
     \/ \E s \in Slots, k \in {"copy", "move"} : TakeValue(s, k)
=============================================================================
