------------------------------- MODULE Router -------------------------------
(***************************************************************************)
(* web::router: the radix tree the builder fills route by route, reorders  *)
(* once (optimize) and the server then searches for every request, beside  *)
(* the matcher a found route applies to the same path.                     *)
(*                                                                         *)
(* A path is a sequence of characters.  A route is a verb and the tokens   *)
(* of its pattern; a token is a static text, a parameter (one segment) or  *)
(* a wildcard (the rest).                                                  *)
(***************************************************************************)
EXTENDS Naturals, Sequences, SequencesExt, FiniteSets

CONSTANTS Chars,      \* the characters of paths and texts
          Routes,     \* the routes that may be served: [verb, tokens]
          Methods,    \* the methods requests use
          Paths,      \* the paths they ask for
          MaxRoutes   \* bound: routes served

\* The verb of a route that serves every method (verb::unknown).
AnyVerb == "any"
Kinds == {"static", "param", "wildcard"}

\* What the parser makes of a pattern: no two texts in a row, a parameter only
\* behind a slash, a wildcard only at the end (router.hpp:58).
IsParsed(tokens) ==
  /\ tokens \in Seq([kind : Kinds, text : Seq(Chars)])
  /\ \A k \in DOMAIN tokens :
       /\ tokens[k].kind = "static" => k = 1 \/ tokens[k - 1].kind # "static"
       /\ tokens[k].kind = "param" =>
            /\ k > 1 /\ tokens[k - 1].kind = "static" /\ tokens[k - 1].text # << >>
            /\ Last(tokens[k - 1].text) = "/"
       /\ tokens[k].kind = "wildcard" => k = Len(tokens)

RoutesAssumption ==
  /\ Chars \cap Kinds = {}
  /\ \A r \in Routes : r = [verb |-> r.verb, tokens |-> r.tokens] /\ IsParsed(r.tokens)
  /\ Paths \subseteq Seq(Chars)
ASSUME RoutesAssumption

VARIABLES tree,      \* the nodes, the first of them the root
          accepted,  \* the routes inserted, in order
          built      \* the builder has built the server

vars == <<tree, accepted, built>>

(* A node: the text that leads to it, the routes that end at it, its       *)
(* static children in order, its parameter child (none or one) and the     *)
(* routes that end in a wildcard here.  A child is named by its place.     *)
Node(prefix) == [prefix |-> prefix, routes |-> {}, statics |-> << >>,
                 params |-> << >>, wildcard |-> {}]
Rest(s, n) == SubSeq(s, n + 1, Len(s))
-----------------------------------------------------------------------------
(* A call of try_insert, or of try_insert_static with what is left of a    *)
(* text: at which node, for the token of the route from which on, and how  *)
(* the insertion ended if it has.  Each call ends in the next.             *)
Insert(t, at, i) == [tree |-> t, at |-> at, i |-> i, static |-> FALSE, text |-> << >>,
                     ended |-> FALSE, ok |-> FALSE]
InsertStatic(t, at, text, i) == [Insert(t, at, i) EXCEPT !.static = TRUE, !.text = text]

\* Mutant: the map of routes is assigned to, not inserted into.
TakenNever(rs, r) == FALSE
Taken(rs, r) == \E q \in rs : q.verb = r.verb

\* try_insert_route into the routes, or into those that end in a wildcard.
InsertRoute(c, r) == IF Taken(c.tree[c.at].routes, r) THEN [c EXCEPT !.ended = TRUE]
                     ELSE [c EXCEPT !.tree[c.at].routes = @ \cup {r},
                                    !.ended = TRUE, !.ok = TRUE]
InsertWildcard(c, r) == IF Taken(c.tree[c.at].wildcard, r) THEN [c EXCEPT !.ended = TRUE]
                        ELSE [c EXCEPT !.tree[c.at].wildcard = @ \cup {r},
                                       !.ended = TRUE, !.ok = TRUE]

\* A node more, made a child of the one where the call is.
Fresh(c) == Len(c.tree) + 1
InsertParam(c) ==
  LET params == c.tree[c.at].params
  IN IF params # << >> THEN Insert(c.tree, params[1], c.i + 1)
     ELSE Insert(Append([c.tree EXCEPT ![c.at].params = <<Fresh(c)>>], Node(<< >>)),
                 Fresh(c), c.i + 1)

TryInsert(c, r) ==
  IF c.i > Len(r.tokens) THEN InsertRoute(c, r)
  ELSE CASE r.tokens[c.i].kind = "static" ->
              InsertStatic(c.tree, c.at, r.tokens[c.i].text, c.i)
         [] r.tokens[c.i].kind = "param" -> InsertParam(c)
         [] r.tokens[c.i].kind = "wildcard" -> InsertWildcard(c, r)

\* Mutant: a token that a child's text starts gets a child of its own.
TryInsertStaticFlat(c) ==
  IF c.text = << >> THEN Insert(c.tree, c.at, c.i + 1)
  ELSE Insert(Append([c.tree EXCEPT ![c.at].statics = Append(@, Fresh(c))], Node(c.text)),
              Fresh(c), c.i + 1)

\* A child whose text starts the token takes the rest of it; else the first
\* child whose text the token starts is split; else there is a new child.
TryInsertStatic(c) ==
  LET t == c.tree
      statics == t[c.at].statics
      above == SelectInSeq(statics, LAMBDA v : IsPrefix(t[v].prefix, c.text))
      below == SelectInSeq(statics, LAMBDA v : IsPrefix(c.text, t[v].prefix))
  IN CASE c.text = << >> -> Insert(t, c.at, c.i + 1)
       [] c.text # << >> /\ above > 0 ->
            InsertStatic(t, statics[above], Rest(c.text, Len(t[statics[above]].prefix)), c.i)
       [] c.text # << >> /\ above = 0 /\ below > 0 ->
            Insert(Append([t EXCEPT ![statics[below]].prefix = Rest(@, Len(c.text)),
                                    ![c.at].statics[below] = Fresh(c)],
                          [Node(c.text) EXCEPT !.statics = <<statics[below]>>]),
                   Fresh(c), c.i + 1)
       [] OTHER ->
            Insert(Append([t EXCEPT ![c.at].statics = Append(@, Fresh(c))], Node(c.text)),
                   Fresh(c), c.i + 1)

Called(c, r) == CASE c.ended -> c
                  [] ~c.ended /\ c.static -> TryInsertStatic(c)
                  [] ~c.ended /\ ~c.static -> TryInsert(c, r)

\* A route's pattern without the names: its characters, parameters and wildcard.
Flat(r) == FlattenSeq([k \in DOMAIN r.tokens |->
             IF r.tokens[k].kind = "static" THEN r.tokens[k].text
                                            ELSE <<r.tokens[k].kind>>])

\* The calls one after another; there are no more than this.
CallsAtMost(r) == Len(Flat(r)) + 2 * Len(r.tokens) + 1
Calls(t, r) ==
  LET calls[k \in 0..CallsAtMost(r)] == IF k = 0 THEN Insert(t, 1, 1)
                                        ELSE Called(calls[k - 1], r)
  IN calls
Inserted(t, r) == Calls(t, r)[CallsAtMost(r)]
-----------------------------------------------------------------------------
\* optimize: the static children of every node by the routes below them, most
\* first, and in their old order where that is equal (a multimap keeps it).
One(rs) == IF rs = {} THEN 0 ELSE 1
Weights(t) ==
  LET weight[v \in DOMAIN t] ==
        FoldSeq(LAMBDA c, w : weight[c] + w, One(t[v].routes) + One(t[v].wildcard),
                t[v].statics \o t[v].params)
  IN weight

\* One child put into its place behind those that weigh no less.
PutByWeight(weight, sorted, c) ==
  InsertAt(sorted, 1 + Cardinality({k \in DOMAIN sorted : weight[sorted[k]] >= weight[c]}), c)
ByWeight(weight, cs) == FoldLeft(LAMBDA sorted, c : PutByWeight(weight, sorted, c), << >>, cs)

Optimized(t) ==
  LET weight == Weights(t)
  IN [v \in DOMAIN t |-> [t[v] EXCEPT !.statics = ByWeight(weight, @)]]
-----------------------------------------------------------------------------
(* The search of a path, of which k characters have been looked at.  What  *)
(* is found is a set of at most one route.                                 *)
NotFound == {}
OrElse(found, other) == IF found # NotFound THEN found ELSE other

TryFindRoute(rs, m) ==
  LET with(verb) == {r \in rs : r.verb = verb}
  IN OrElse(with(m), with(AnyVerb))

\* Where the segment that begins behind the k-th character ends: before a slash.
Slashes(path, k) == {j \in (k + 1)..Len(path) : path[j] = "/"}
SegmentEnd(path, k) == IF Slashes(path, k) = {} THEN Len(path)
                       ELSE (CHOOSE j \in Slashes(path, k) : \A i \in Slashes(path, k) : j <= i) - 1

\* The first child whose text starts the path is the only one that is tried.
TryFindStatic(find, t, v, path, k) ==
  LET j == SelectInSeq(t[v].statics, LAMBDA c : IsPrefix(t[c].prefix, Rest(path, k)))
      child == t[v].statics[j]
  IN IF j = 0 THEN NotFound ELSE find[child][k + Len(t[child].prefix)]

\* Mutant: the slash after the segment goes with it.
TryFindParamAndSlash(find, t, v, path, k) ==
  IF t[v].params = << >> THEN NotFound
  ELSE find[t[v].params[1]][IF SegmentEnd(path, k) = Len(path) THEN Len(path)
                            ELSE SegmentEnd(path, k) + 1]

TryFindParam(find, t, v, path, k) ==
  IF t[v].params = << >> THEN NotFound ELSE find[t[v].params[1]][SegmentEnd(path, k)]

\* Mutant: a wildcard is looked at before the parameter.
TryFindWildcardFirst(find, t, m, path, v, k) ==
  IF k = Len(path)
    THEN OrElse(TryFindRoute(t[v].routes, m), TryFindRoute(t[v].wildcard, m))
    ELSE OrElse(TryFindStatic(find, t, v, path, k),
           OrElse(TryFindRoute(t[v].wildcard, m), TryFindParam(find, t, v, path, k)))

TryFind(find, t, m, path, v, k) ==
  IF k = Len(path)
    THEN OrElse(TryFindRoute(t[v].routes, m), TryFindRoute(t[v].wildcard, m))
    ELSE OrElse(TryFindStatic(find, t, v, path, k),
           OrElse(TryFindParam(find, t, v, path, k), TryFindRoute(t[v].wildcard, m)))

\* The search from each node, which comes to the search from its children.
Finds(t, m, path) ==
  LET find[v \in DOMAIN t] == [k \in 0..Len(path) |-> TryFind(find, t, m, path, v, k)]
  IN find
Found(t, m, path) == Finds(t, m, path)[1][0]
-----------------------------------------------------------------------------
(* path_matcher::match.  The pattern is made a regular expression, its      *)
(* texts as they are: of the characters that mean something else there, "." *)
(* (any character) and "+" (the last one again) stand for all.             *)
Fits(c, path, k) == k < Len(path) /\ c \in {".", path[k + 1]}

\* The places the j-th character of a text leads to from one of some.
PlacesAfter(text, j, places, path) ==
  IF j > 1 /\ text[j] = "+"
    THEN {k \in 0..Len(path) : \E i \in places :
            i <= k /\ \A n \in i..(k - 1) : Fits(text[j - 1], path, n)}
    ELSE {k + 1 : k \in {k \in places : Fits(text[j], path, k)}}
Ends(text, path, k) ==
  FoldLeft(LAMBDA places, j : PlacesAfter(text, j, places, path), {k}, [j \in DOMAIN text |-> j])

\* Mutant: a wildcard takes one character at least.
MatchSome(token, path, k) ==
  CASE token.kind = "static" -> Ends(token.text, path, k)
    [] token.kind = "param" -> IF k < SegmentEnd(path, k) THEN {SegmentEnd(path, k)} ELSE {}
    [] token.kind = "wildcard" -> IF k < Len(path) THEN {Len(path)} ELSE {}

\* Where a token may end that begins at k.  A parameter is a segment that is
\* neither empty nor has braces.
MatchToken(token, path, k) ==
  CASE token.kind = "static" -> Ends(token.text, path, k)
    [] token.kind = "param" ->
         {j \in {SegmentEnd(path, k)} :
            k < j /\ ToSet(SubSeq(path, k + 1, j)) \cap {"{", "}"} = {}}
    [] token.kind = "wildcard" -> {Len(path)}

Match(tokens, path) ==
  Len(path) \in FoldLeft(LAMBDA places, token : UNION {MatchToken(token, path, k) : k \in places},
                         {0}, tokens)
-----------------------------------------------------------------------------
Init == tree = <<Node(<< >>)>> /\ accepted = << >> /\ built = FALSE

\* http_server::builder::serve: a rejected route is thrown back at the caller.
Serve(r) ==
  LET call == Inserted(tree, r)
  IN /\ ~built /\ Len(accepted) < MaxRoutes
     /\ tree' = call.tree
     /\ accepted' = IF call.ok THEN Append(accepted, r) ELSE accepted
     /\ UNCHANGED built

\* http_server::builder::build.
Build == /\ ~built
         /\ tree' = Optimized(tree)
         /\ built' = TRUE
         /\ UNCHANGED accepted

Next == (\E r \in Routes : Serve(r)) \/ Build

Spec == Init /\ [][Next]_vars
-----------------------------------------------------------------------------
(* The reference: which of the accepted routes a request should get.       *)

\* Where a pattern, symbol by symbol, leads on a path, beyond its end if it does
\* not fit.  The tree looks for a parameter only where something is left.
Reached(symbol, k, path) ==
  CASE symbol = "wildcard" /\ k <= Len(path) -> Len(path)
    [] symbol = "param" /\ k < Len(path) -> SegmentEnd(path, k)
    [] symbol \in Chars /\ k < Len(path) /\ path[k + 1] = symbol -> k + 1
    [] OTHER -> Len(path) + 1
Reach(flat, path) == FoldLeft(LAMBDA k, symbol : Reached(symbol, k, path), 0, flat)

Candidates(m, path) == {r \in ToSet(accepted) : r.verb \in {m, AnyVerb}
                                                /\ Reach(Flat(r), path) = Len(path)}

\* At the first place where two routes differ, text goes before a parameter
\* and a parameter before a wildcard; of equals, the route of the method.
Rank(symbol) == CASE symbol = "wildcard" -> 3 [] symbol = "param" -> 2 [] OTHER -> 1
Precedes(q, r) ==
  LET a == Flat(q)
      b == Flat(r)
  IN \/ IsStrictPrefix(a, b)
     \/ \E k \in DOMAIN a \cap DOMAIN b :
          SubSeq(a, 1, k - 1) = SubSeq(b, 1, k - 1) /\ Rank(a[k]) < Rank(b[k])
     \/ a = b /\ r.verb = AnyVerb

Best(m, path) ==
  LET candidates == Candidates(m, path)
  IN {r \in candidates : \A q \in candidates \ {r} : Precedes(r, q)}

\* No node of the tree has two static children of which one's text starts the
\* other's.
Disjoint(t) ==
  \A v \in DOMAIN t : \A j, k \in DOMAIN t[v].statics :
    j # k => ~IsPrefix(t[t[v].statics[j]].prefix, t[t[v].statics[k]].prefix)
-----------------------------------------------------------------------------
(* Properties.                                                             *)

FindIsSound(m, path) == Found(tree, m, path) \subseteq Candidates(m, path)
FindIsBest(m, path) == Found(tree, m, path) = Best(m, path)

\* Whatever the tree looks like, a search never comes back with a route that was
\* not served, that is for another method or that does not cover the path.  As
\* long as siblings are disjoint, before and after optimize, it finds the best of
\* the routes that cover the path, and finds one if there is (router.hpp:134-226).
FindIsRight ==
  \A m \in Methods, p \in Paths : FindIsSound(m, p) /\ (Disjoint(tree) => FindIsBest(m, p))

\* Where a static token ends in a route, as a prefix of its pattern.
Cuts(r) == {Flat([r EXCEPT !.tokens = SubSeq(@, 1, k)]) :
              k \in {k \in DOMAIN r.tokens : r.tokens[k].kind = "static"}}

\* Siblings are disjoint if no route ends a text within the text of a route
\* served before it: short prefixes have to be served first.
ShortFirst(served) ==
  \A j, k \in DOMAIN served : j < k =>
    \A c \in Cuts(served[k]) :
      IsStrictPrefix(c, Flat(served[j])) =>
        \/ c \in Cuts(served[j])
        \/ Flat(served[j])[Len(c) + 1] \in {"param", "wildcard"}
ShortFirstIsDisjoint == ShortFirst(accepted) => Disjoint(tree)

\* The matcher of a route that was found matches the path, unless a segment of
\* the path is empty or has a brace, or a text of the route means something else
\* as a regular expression: then the request ends with bad_optional_access.
MatcherAgrees ==
  \A m \in Methods, p \in Paths : \A r \in Found(tree, m, p) :
    \/ Match(r.tokens, p)
    \/ \E k \in 1..(Len(p) - 1) : p[k] = "/" /\ p[k + 1] = "/"
    \/ ToSet(p) \cap {"{", "}"} # {}
    \/ ToSet(Flat(r)) \cap {"+"} # {}

\* A route is rejected only if one of its verb and pattern has been served, and
\* then the tree is left as it was; disjoint siblings miss no such duplicate.
RejectsDuplicates ==
  [][\A r \in Routes : Serve(r) =>
       LET again == \E k \in DOMAIN accepted : /\ accepted[k].verb = r.verb
                                               /\ Flat(accepted[k]) = Flat(r)
       IN IF accepted' = accepted THEN again /\ tree' = tree
          ELSE Disjoint(tree) => ~again]_vars
=============================================================================
