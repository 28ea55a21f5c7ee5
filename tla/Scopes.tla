------------------------------- MODULE Scopes -------------------------------
(***************************************************************************)
(* How a program puts a server together: routes and scopes are values, and *)
(* use_state, use and serve return a new one, which the program keeps in   *)
(* place of the old (or, for use_state, drops).  Their middlewares are     *)
(* copied with them; the states are in maps that copies share.             *)
(*                                                                         *)
(* A state is told from others of its type by where it was set and how     *)
(* often one had been set there.  Handlers and paths of their own play no  *)
(* part: a route is its name, its path the scopes it was put into.         *)
(***************************************************************************)
EXTENDS Naturals, Sequences, SequencesExt, FiniteSets

CONSTANTS Routes, Scopes, \* the program's variables
          Types,          \* types of states
          MaxSaid,        \* bound: states of one type set in one place
          MaxServed,      \* bound: routes in one scope
          MaxDepth        \* bound: scopes around a route

Places == Routes \cup Scopes

\* The variables are told apart, and a program has not infinitely many.
ASSUME PlacesAssumption == /\ Routes \cap Scopes = {} /\ IsFiniteSet(Scopes)
                           /\ MaxSaid \in Nat

VARIABLES heap,    \* the state_maps: what each type is bound to in them
          routes,  \* the routes: [maps, mws, home]
          scopes,  \* the scopes: [map, mws, served]
          server,  \* the routes in the router
          said     \* history: how often a type was bound in a place

scopeVars == <<heap, routes, scopes, server, said>>

Nowhere == "nowhere"
Unset == [at |-> Nowhere, nth |-> 0]
Blank == [t \in Types |-> Unset]
States == [at : Places, nth : 1..MaxSaid] \cup {Unset}

HasSaid(p) == \E t \in Types : said[p][t] > 0

\* history: a route has been through its own place and then through scopes;
\* there it took so many middlewares, and there were states or none.
Stop(p, mws) == [at |-> p, used |-> Len(mws), had |-> HasSaid(p)]
HomeOf(r) == IF routes[r].home = << >> THEN <<Stop(r, routes[r].mws)>> ELSE routes[r].home
Placed(r) == [routes[r] EXCEPT !.home = HomeOf(r)]
Path(route) == [k \in DOMAIN route.home |-> route.home[k].at]
-----------------------------------------------------------------------------
(* States.                                                                 *)
Value(p, t) == [at |-> p, nth |-> said[p][t] + 1]
Said(p, t) == said' = [said EXCEPT ![p][t] = @ + 1]

\* scope_impl::use_state writes into the map that all copies of the scope have.
ScopeUseState(s, t) ==
  /\ said[s][t] < MaxSaid
  /\ heap' = [heap EXCEPT ![scopes[s].map][t] = Value(s, t)]
  /\ Said(s, t)
  /\ UNCHANGED <<routes, scopes, server>>

\* Mutants of CopyInsertFront: a map of its own for the copy, or one more map.
InsertInCopy(maps, t, value) ==
  [maps |-> <<Len(heap) + 1>>,
   heap |-> Append(heap, [(IF maps = << >> THEN Blank ELSE heap[maps[1]]) EXCEPT ![t] = value])]
InsertAnew(maps, t, value) ==
  [maps |-> <<Len(heap) + 1>> \o maps, heap |-> Append(heap, [Blank EXCEPT ![t] = value])]

\* state_storage::copy_insert_front: a storage without a map gets one, another
\* writes into the first of its maps, which its copies have as well.
CopyInsertFront(maps, t, value) ==
  IF maps = << >>
    THEN [maps |-> <<Len(heap) + 1>>, heap |-> Append(heap, [Blank EXCEPT ![t] = value])]
    ELSE [maps |-> maps, heap |-> [heap EXCEPT ![maps[1]][t] = value]]

\* route_impl::use_state.  If the new route is dropped, so is a new map.
RouteUseState(r, t, kept) ==
  /\ said[r][t] < MaxSaid
  /\ kept \/ routes[r].maps # << >>
  /\ LET copy == CopyInsertFront(routes[r].maps, t, Value(r, t))
     IN heap' = copy.heap /\ routes' = [routes EXCEPT ![r].maps = copy.maps]
  /\ Said(r, t)
  /\ UNCHANGED <<scopes, server>>
-----------------------------------------------------------------------------
(* Middlewares.                                                            *)
Mark(p, mw) == [at |-> p, mw |-> mw]

RouteUse(r, mw) ==
  /\ routes' = [routes EXCEPT ![r].mws = Append(@, Mark(r, mw))]
  /\ UNCHANGED <<heap, scopes, server, said>>

ScopeUse(s, mw) ==
  /\ scopes' = [scopes EXCEPT ![s].mws = Append(@, Mark(s, mw))]
  /\ UNCHANGED <<heap, routes, server, said>>
-----------------------------------------------------------------------------
(* Serving.                                                                *)
\* Mutant of Rebound: the parent's middlewares go behind the route's.
ReboundInside(route, s) ==
  [maps |-> IF heap[scopes[s].map] = Blank THEN route.maps ELSE Append(route.maps, scopes[s].map),
   mws |-> route.mws \o scopes[s].mws,
   home |-> Append(route.home, Stop(s, scopes[s].mws))]

\* rebind_parent: an empty map of the parent is left out.
Rebound(route, s) ==
  [maps |-> IF heap[scopes[s].map] = Blank THEN route.maps ELSE Append(route.maps, scopes[s].map),
   mws |-> scopes[s].mws \o route.mws,
   home |-> Append(route.home, Stop(s, scopes[s].mws))]

Room(s, added) == /\ Len(scopes[s].served) + Len(added) <= MaxServed
                  /\ \A k \in DOMAIN added : Len(added[k].home) <= MaxDepth
Serve(s, added) ==
  /\ Room(s, added)
  /\ scopes' = [scopes EXCEPT ![s].served =
                  @ \o [k \in DOMAIN added |-> Rebound(added[k], s)]]
  /\ UNCHANGED <<heap, routes, server, said>>

ScopeServeRoute(s, r) == Serve(s, <<Placed(r)>>)
ScopeServeScope(s, child) == scopes[child].served # << >> /\ Serve(s, scopes[child].served)

\* router::try_insert: a path that is there is refused, and the builder throws.
Fresh(route) == \A k \in DOMAIN server : Path(server[k]) # Path(route)
ServerServeRoute(r) ==
  /\ Fresh(Placed(r))
  /\ server' = Append(server, Placed(r))
  /\ UNCHANGED <<heap, routes, scopes, said>>

\* What stands before the first one that is refused stays in the builder.
Accepted(served) ==
  LET good(n) == /\ \A k \in 1..n : Fresh(served[k])
                 /\ \A j, k \in 1..n : Path(served[j]) = Path(served[k]) => j = k
  IN SubSeq(served, 1, CHOOSE n \in 0..Len(served) :
                         good(n) /\ (n = Len(served) \/ ~good(n + 1)))
ServerServeScope(s) ==
  /\ Accepted(scopes[s].served) # << >>
  /\ server' = server \o Accepted(scopes[s].served)
  /\ UNCHANGED <<heap, routes, scopes, said>>
-----------------------------------------------------------------------------
\* Every scope is made with a map of its own.
MapOf == CHOOSE f \in [Scopes -> 1..Cardinality(Scopes)] :
           \A s, t \in Scopes : f[s] = f[t] => s = t

ScopesInit ==
  /\ heap = [k \in 1..Cardinality(Scopes) |-> Blank]
  /\ routes = [r \in Routes |-> [maps |-> << >>, mws |-> << >>, home |-> << >>]]
  /\ scopes = [s \in Scopes |-> [map |-> MapOf[s], mws |-> << >>, served |-> << >>]]
  /\ server = << >>
  /\ said = [p \in Places |-> [t \in Types |-> 0]]
=============================================================================
