------------------------------ MODULE MCRouter ------------------------------
(* A small instance of Router: patterns that share prefixes, stop inside one *)
(* another and compete for the same paths, and all short paths.              *)
EXTENDS Router

Plain == {"a", "b", "x", "+"}
P == INSTANCE PathParser WITH Hex <- {"a", "b"}

Route(verb, pattern) == [verb |-> verb, tokens |-> P!Parsed(pattern, TRUE).tokens]

MCRoutes ==
  {Route("get", <<"/", "a">>),
   Route("get", <<"/", "a", "b">>),
   Route("get", <<"/", "a", "a">>),
   Route("any", <<"/", "a">>),
   Route("get", <<"/", "{", "x", "}">>),
   Route("get", <<"/", "{", "x", "}", "/", "b">>),
   Route("get", <<"/", "a", "/", "{", "x", "}">>),
   Route("any", <<"/", "a", "#", "x">>),
   Route("get", <<"/", "#", "x">>),
   Route("get", <<"/", "a", "+">>)}

MCChars == Plain \cup {"/", ".", "{"}
Some == {"/", "a", "b"}
MCPaths == UNION {[1..n -> Some] : n \in 0..1}
             \cup {<<"/">> \o p : p \in [1..2 -> Some] \cup [1..3 -> Some]}
             \cup {<<"/", "a", "+">>, <<"/", "a", ".">>, <<"/", "{">>}
=============================================================================
