---------------------------- MODULE ExpectedVoid ----------------------------
(***************************************************************************)
(* expected<void, E>: a flag, and an error that is there without it.       *)
(***************************************************************************)
EXTENDS TaggedUnion

VoidNewValue(s) == Create(s, Done(Made(TRUE, Unspecified)))
VoidNewError(s, k, d) == \E r \in Then(Built(Blank, "err", k, d), FALSE) : Create(s, r)

\* The error is copied only if there is one.
VoidCopied(o, k) ==
  IF o.has THEN {Done(Flagged(Blank, TRUE))}
  ELSE Then(Built(Blank, "err", k, o.data), FALSE)

VoidNewFrom(s, o, k) == \E r \in VoidCopied(obj[o], k) : CreateFrom(s, o, k, r)

VoidDestroy(s) ==
  /\ s \in made
  /\ made' = made \ {s}
  /\ obj' = [obj EXCEPT ![s] =
                IF obj[s].has THEN Flagged(obj[s], FALSE) ELSE Destroyed(obj[s], "err")]
  /\ Called("end", s, FALSE, FALSE)
  /\ UNCHANGED <<form, safe>>

\* Mutant of VoidReplaced: the flag is written although the constructor may throw.
VoidReplacedEarly(c, has, k, d) ==
  CASE c.has /\ has -> {Done(c)}
    [] c.has /\ ~has -> Built(Flagged(c, FALSE), "err", k, d)
    [] ~c.has /\ has -> {Done(Flagged(Destroyed(c, "err"), TRUE))}
    [] OTHER -> Assigned(c, "err", d)

\* operator= of every kind: from an object, or from an unexpected.
VoidReplaced(c, has, k, d) ==
  CASE c.has /\ has -> {Done(c)}
    [] c.has /\ ~has -> Then(Built(c, "err", k, d), FALSE)
    [] ~c.has /\ has -> {Done(Flagged(Destroyed(c, "err"), TRUE))}
    [] OTHER -> Assigned(c, "err", d)

VoidAssignFrom(s, o, k) ==
  \E r \in VoidReplaced(obj[s], obj[o].has, k, obj[o].data) : CommitFrom("assign", s, o, k, r)

VoidAssignError(s, k, d) ==
  \E r \in VoidReplaced(obj[s], FALSE, k, d) : Commit("assign", s, FALSE, r)

VoidEmplace(s) ==
  Commit("emplace", s, TRUE,
         Done(IF obj[s].has THEN obj[s] ELSE Flagged(Destroyed(obj[s], "err"), TRUE)))

\* swap: the error moves over before either flag is written.
VoidSwap(s, o) ==
  /\ {s, o} \subseteq made
  /\ \/ /\ obj[s].has /\ obj[o].has
        /\ Called("swap", s, TRUE, FALSE) /\ UNCHANGED obj
     \/ /\ obj[s].has /\ ~obj[o].has
        /\ \E r \in Then(Built(obj[s], "err", "move", obj[o].data), FALSE),
              c \in Spent(obj[o], "move") :
             /\ obj' = [obj EXCEPT ![s] = r.cell,
                                   ![o] = IF r.thrown THEN c
                                          ELSE Flagged(Destroyed(obj[o], "err"), TRUE)]
             /\ Called("swap", s, FALSE, r.thrown)
     \/ /\ ~obj[s].has /\ ~obj[o].has
        /\ \E x \in {obj[s], Blurred(obj[s])}, y \in {obj[o], Blurred(obj[o])} :
             \/ /\ obj' = [obj EXCEPT ![s].data = obj[o].data, ![o].data = obj[s].data]
                /\ Called("swap", s, FALSE, FALSE)
             \/ obj' = [obj EXCEPT ![o] = y, ![s] = x] /\ Called("swap", s, FALSE, TRUE)
  /\ UNCHANGED <<form, safe, made>>

VoidResults == {Made(TRUE, Unspecified)} \cup {Made(FALSE, d) : d \in Errors}

VoidAndThen(s, o, k) == Chain(s, o, k, obj[o].has, VoidResults, VoidCopied(obj[o], k))
VoidOrElse(s, o, k) == Chain(s, o, k, ~obj[o].has, VoidResults, VoidCopied(obj[o], k))
VoidTransform(s, o, k) ==
  Chain(s, o, k, obj[o].has, {Made(TRUE, Unspecified)}, VoidCopied(obj[o], k))
VoidTransformError(s, o, k) ==
  Chain(s, o, k, ~obj[o].has, {Made(FALSE, d) : d \in Errors}, VoidCopied(obj[o], k))

VoidNext ==
  /\ form = "void"
  /\ \/ \E s \in Slots : VoidNewValue(s) \/ VoidEmplace(s) \/ VoidDestroy(s)
     \/ \E s \in Slots, d \in Errors, k \in Kinds : VoidNewError(s, k, d) \/ VoidAssignError(s, k, d)
     \/ \E s, o \in Slots : VoidSwap(s, o)
     \/ \E s, o \in Slots, k \in {"copy", "move"} :
          \/ VoidNewFrom(s, o, k) \/ VoidAssignFrom(s, o, k) \/ VoidAndThen(s, o, k)
          \/ VoidOrElse(s, o, k) \/ VoidTransform(s, o, k) \/ VoidTransformError(s, o, k)
     \/ \E s \in Slots, k \in {"copy", "move"} : TakeValue(s, k) \/ TakeError(s, k)
=============================================================================
