------------------------------- MODULE MCCore -------------------------------
(* The types and the texts that everything else is made of: two objects of    *)
(* the same type (SumTypes), and texts that begin with nothing, or where it    *)
(* gets interesting: behind a parameter, behind the subtype and a parameter    *)
(* of a media type, behind four characters (Texts).  They have nothing in      *)
(* common, and a behaviour is about the one or the other.                      *)
EXTENDS SumTypes, Texts

Chars(set) == {<<c>> : c \in set}

MCStarts == [pattern |-> {<< >>, <<"/", "{", "a", "}">>},
             media |-> {<< >>, <<"a", "/", "b">>, <<"a", "/", "b", ";", "a", "=", "b">>},
             base64 |-> {<< >>, <<1, 2, 3, 4>>}]
MCPieces == [pattern |-> Chars({"/", "{", "}", "#", "%", "a", "x"}),
             media |-> Chars({"a", "A", "b", "-", ".", " ", "/", "+", ";", "="}),
             base64 |-> Chars({0, 16, 27, 42, 63, Pad, Foreign})]
MCRoom == [pattern |-> 7, media |-> 4, base64 |-> 7]
MCLower == [c \in {"A"} |-> "a"]

NoText == reader = "none" /\ text = << >> /\ size = 0 /\ machine = NoMedia
NoObjects == /\ Init /\ form = "optional" /\ \A m \in Members : safe[m] = Kinds
             /\ call.on = CHOOSE s \in Slots : TRUE

MCInit == \/ Init /\ NoText
          \/ TextInit /\ NoObjects

\* A text may end anywhere.
MCNext == \/ reader = "none" /\ Next /\ UNCHANGED textVars
          \/ reader # "none" /\ TextNext /\ UNCHANGED vars
          \/ reader # "none" /\ UNCHANGED <<vars, textVars>>

MCSpec == MCInit /\ [][MCNext]_<<vars, textVars>>
=============================================================================
