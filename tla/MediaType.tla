----------------------------- MODULE MediaType ------------------------------
(***************************************************************************)
(* mime::mime_view::parse, which splits a text at ";", its first part at   *)
(* "/" and "+" and the others at "=", and takes the blanks off each part.  *)
(***************************************************************************)
EXTENDS Naturals, Sequences, SequencesExt, FiniteSetsExt

CONSTANTS Alnum,    \* letters and digits
          Joining,  \* what else a name may have behind its first character
          Lower     \* the letters without their case

Space == " "

Trim(text) ==
  LET ink == {k \in DOMAIN text : text[k] # Space}
  IN IF ink = {} THEN << >> ELSE SubSeq(text, Min(ink), Max(ink))

SplitOf(text, delimiter) ==
  LET at == SelectSeq([k \in DOMAIN text |-> k], LAMBDA k : text[k] = delimiter)
      ends == <<0>> \o at \o <<Len(text) + 1>>
  IN [k \in 1..(Len(at) + 1) |-> Trim(SubSeq(text, ends[k] + 1, ends[k + 1] - 1))]

IsValidName(name) == /\ name # << >> /\ name[1] \in Alnum
                     /\ ToSet(name) \subseteq Alnum \cup Joining

NoMedia == [ok |-> FALSE]

\* parse_primary: [ok, type, subtype, suffix], a suffix being one name or none;
\* the comments (mime_view.hpp:171, 292) have any number of them, ["+" suffix]*.
ParsePrimary(essence) ==
  LET types == SplitOf(essence, "/")
      subtypes == SplitOf(types[2], "+")
  IN IF /\ Len(types) = 2 /\ Len(subtypes) <= 2
        /\ \A name \in {types[1]} \cup ToSet(subtypes) : IsValidName(name)
       THEN [ok |-> TRUE, type |-> types[1], subtype |-> subtypes[1],
             suffix |-> Tail(subtypes)]
       ELSE NoMedia

\* Names of parameters are compared without case.
Folded(name) == [k \in DOMAIN name |-> IF name[k] \in DOMAIN Lower THEN Lower[name[k]] ELSE name[k]]

\* Mutant of PutParam: a name that comes again keeps its value.
PutParamOnce(params, name, value) == params @@ (Folded(name) :> value)
PutParam(params, name, value) == (Folded(name) :> value) @@ params

IsParam(param) == LET pair == SplitOf(param, "=")
                  IN Len(pair) = 2 /\ IsValidName(pair[1]) /\ IsValidName(pair[2])
ParseParams(list) ==
  FoldLeft(LAMBDA params, param : PutParam(params, SplitOf(param, "=")[1], SplitOf(param, "=")[2]),
           << >>, list)

ParseMedia(text) ==
  LET tokens == SplitOf(text, ";")
      primary == ParsePrimary(tokens[1])
  IN IF ~primary.ok \/ ~\A k \in 2..Len(tokens) : IsParam(tokens[k]) THEN NoMedia
     ELSE [ok |-> TRUE, essence |-> tokens[1], primary |-> primary,
           params |-> ParseParams(Tail(tokens))]
=============================================================================
