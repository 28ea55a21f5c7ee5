----------------------------- MODULE PathParser -----------------------------
(***************************************************************************)
(* web::path_parser: the pattern of a route or a scope, read character by  *)
(* character.  Characters are strings of one letter.                       *)
(***************************************************************************)
EXTENDS Naturals, Sequences, SequencesExt

CONSTANTS Plain,  \* the characters a name or a text may have as they are
          Hex     \* those that may follow "%"

PatternAssumption == /\ Hex \subseteq Plain
                     /\ Plain \cap {"/", "{", "}", "#", "%"} = {}
ASSUME PatternAssumption

(* The parser: the kind of the token it is in, the token so far, those     *)
(* before it, the hexadecimal digits "%" still needs, whether a slash or a *)
(* parameter's brace was just read, and whether it has given up.           *)
Start == [kind |-> "static", token |-> << >>, tokens |-> << >>, pct |-> 0,
          slash |-> FALSE, closed |-> FALSE, bad |-> FALSE]

Bad(p) == [p EXCEPT !.bad = TRUE]
Advance(p, c) == [p EXCEPT !.token = Append(@, c), !.slash = (c = "/"), !.closed = FALSE]

\* on_pchar, whose "%" takes the two characters behind it along.
OnPchar(p, c) == CASE c \in Plain -> Advance(p, c)
                   [] c = "%" -> [Advance(p, c) EXCEPT !.pct = 2]
                   [] OTHER -> Bad(p)
OnPctEncoded(p, c) == IF c \in Hex THEN [Advance(p, c) EXCEPT !.pct = @ - 1] ELSE Bad(p)

\* A token ends, and the next is of another kind.
PushToken(p, kind) ==
  [p EXCEPT !.tokens = Append(@, [kind |-> p.kind, text |-> p.token]),
            !.token = << >>, !.kind = kind, !.slash = FALSE]

\* A name is compared with all tokens, texts as well.
Duplicate(p) == \E k \in DOMAIN p.tokens : p.tokens[k].text = p.token
TryPush(p, kind) == IF p.token = << >> \/ Duplicate(p) THEN Bad(p) ELSE PushToken(p, kind)

\* Mutant of OnStatic: a parameter may stand anywhere in a segment.
OnStaticAnywhere(p, c, wildcard) ==
  CASE p.closed /\ c # "/" -> Bad(p)
    [] c = "{" -> PushToken(p, "param")
    [] c = "#" /\ ~p.closed -> IF wildcard THEN PushToken(p, "wildcard") ELSE Bad(p)
    [] c = "/" -> Advance(p, c)
    [] OTHER -> OnPchar(p, c)

OnStatic(p, c, wildcard) ==
  CASE p.closed /\ c # "/" -> Bad(p)
    [] c = "{" /\ ~p.closed -> IF p.slash THEN PushToken(p, "param") ELSE Bad(p)
    [] c = "#" /\ ~p.closed -> IF wildcard THEN PushToken(p, "wildcard") ELSE Bad(p)
    [] c = "/" -> Advance(p, c)
    [] OTHER -> OnPchar(p, c)

OnParam(p, c) == IF c = "}" THEN [TryPush(p, "static") EXCEPT !.closed = TRUE]
                            ELSE OnPchar(p, c)

\* One turn of on_root, or one character of on_pct_encoded.
OnRoot(p, c, wildcard) ==
  CASE p.bad -> p
    [] ~p.bad /\ p.pct > 0 -> OnPctEncoded(p, c)
    [] ~p.bad /\ p.pct = 0 /\ p.kind = "static" -> OnStatic(p, c, wildcard)
    [] ~p.bad /\ p.pct = 0 /\ p.kind = "param" -> OnParam(p, c)
    [] ~p.bad /\ p.pct = 0 /\ p.kind = "wildcard" -> OnPchar(p, c)

\* The end of the pattern.
OnLast(p) ==
  CASE p.bad \/ p.pct > 0 \/ p.kind = "param" -> Bad(p)
    [] ~p.bad /\ p.pct = 0 /\ p.kind = "static" ->
         IF p.token = << >> THEN p ELSE PushToken(p, "static")
    [] ~p.bad /\ p.pct = 0 /\ p.kind = "wildcard" -> TryPush(p, "wildcard")

Parsed(pattern, wildcard) ==
  OnLast(FoldLeft(LAMBDA p, c : OnRoot(p, c, wildcard), Start, pattern))

\* The tokens written one behind the other.
Written(tokens) ==
  FlattenSeq([k \in DOMAIN tokens |->
    CASE tokens[k].kind = "static" -> tokens[k].text
      [] tokens[k].kind = "param" -> <<"{">> \o tokens[k].text \o <<"}">>
      [] tokens[k].kind = "wildcard" -> <<"#">> \o tokens[k].text])
=============================================================================
