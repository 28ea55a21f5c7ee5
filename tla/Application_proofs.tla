------------------------- MODULE Application_proofs -------------------------
(***************************************************************************)
(* Proofs about Application, for every program of routes, scopes, states   *)
(* and middlewares, in whatever order it puts them together; and about a   *)
(* request on its way through it: the types of what is passed on, what is  *)
(* said of a body and what the body is, and what a handler's arguments     *)
(* are, for every chain of middlewares, every request and every order of   *)
(* extraction.                                                             *)
(***************************************************************************)
EXTENDS Application, FoldLemmas, FiniteSetTheorems, FunctionTheorems

\* A middleware at a place, a stop on a route's way, and a route.
Marks == [at : Places, mw : plan.mounts]
Stops == [at : Places, used : Nat, had : BOOLEAN]
Served == [maps : Seq(Nat), mws : Seq(Marks), home : Seq(Stops)]

ScopeTypes ==
  /\ heap \in Seq([Types -> States])
  /\ routes \in [Routes -> [maps : Seq(Nat), mws : Seq(Marks), home : {<< >>}]]
  /\ scopes \in [Scopes -> [map : Nat, mws : Seq(Marks), served : Seq(Served)]]
  /\ server \in Seq(Served)
  /\ said \in [Places -> [Types -> 0..MaxSaid]]

\* Everything a route has been put into.
ServedIn(s) == {scopes[s].served[k] : k \in DOMAIN scopes[s].served}
Opened == {server[k] : k \in DOMAIN server}
Kept == Opened \cup UNION {ServedIn(s) : s \in Scopes}
-----------------------------------------------------------------------------
(* Middlewares.                                                            *)
MountedAt == [p \in Places |-> MountedIn(p)]

\* What was mounted at the places a route went through, the last place first.
Layers(route, mounted) ==
  [j \in DOMAIN route.home |-> SubSeq(mounted[route.home[j].at], 1, route.home[j].used)]
Layered(route, mounted) ==
  /\ \A j \in DOMAIN route.home : route.home[j].used \in 0..Len(mounted[route.home[j].at])
  /\ route.mws = FlattenSeq(Reverse(Layers(route, mounted)))

Onions == \A route \in Kept : Layered(route, MountedAt)
-----------------------------------------------------------------------------
(* States.                                                                 *)

\* The number of the map a place has, 0 for a route without one.
MapAt == [p \in Places |-> IF p \in Scopes THEN scopes[p].map
                           ELSE IF routes[p].maps = << >> THEN 0 ELSE routes[p].maps[1]]

\* A place shares its map with no other, and a route has one when a state was
\* bound in it.
OneMap(r) == /\ Len(routes[r].maps) <= 1
             /\ MapAt[r] # 0 <=> HasSaid(r)
             /\ MapAt[r] # 0 <=> routes[r].maps # << >>
MapsAreOwn ==
  /\ \A p, q \in Places : MapAt[p] # 0 /\ MapAt[p] = MapAt[q] => p = q
  /\ \A p \in Places : MapAt[p] \in 0..Len(heap)
  /\ \A s \in Scopes : MapAt[s] # 0
  /\ \A r \in Routes : OneMap(r)

\* A map has what was last bound in its place.
LastSaid(p, t) == IF said[p][t] = 0 THEN Unset ELSE [at |-> p, nth |-> said[p][t]]
MapsSay == \A p \in Places, t \in Types : MapAt[p] # 0 => heap[MapAt[p]][t] = LastSaid(p, t)

\* The maps of a route are those of the places it went through that had a state
\* then, in their order.
Threads(f, route, maps) ==
  /\ \A j, k \in DOMAIN route.maps : j < k => f[j] < f[k]
  /\ \A k \in DOMAIN route.maps : /\ route.home[f[k]].had
                                  /\ route.maps[k] = maps[route.home[f[k]].at]
  /\ \A j \in DOMAIN route.home : route.home[j].had => \E k \in DOMAIN route.maps : f[k] = j
Threaded(route, maps) ==
  /\ \A j \in DOMAIN route.home : route.home[j].had => maps[route.home[j].at] # 0
  /\ \E f \in [DOMAIN route.maps -> DOMAIN route.home] : Threads(f, route, maps)

Chains == \A route \in Kept : Threaded(route, MapAt)

ScopesInv == ScopeTypes /\ Onions /\ MapsAreOwn /\ MapsSay /\ Chains
-----------------------------------------------------------------------------
(* The layers of middlewares around a route.                               *)

\* What was mounted before one more is mounted.
LEMMA PrefixKept ==
  ASSUME NEW S, NEW m \in Seq(S), NEW x \in S, NEW u \in 0..Len(m)
  PROVE  u \in 0..Len(Append(m, x)) /\ SubSeq(Append(m, x), 1, u) = SubSeq(m, 1, u)
<1> DEFINE n == Append(m, x)
<1>1. n \in Seq(S) /\ Len(n) = Len(m) + 1 /\ Len(m) \in Nat /\ \A k \in 1..Len(m) : n[k] = m[k]
  OBVIOUS
<1> HIDE DEF n
<1>2. u \in 0..Len(n) /\ u \in Nat
  BY <1>1
<1> DEFINE a == SubSeq(n, 1, u)
           b == SubSeq(m, 1, u)
<1>3. a \in Seq(S) /\ Len(a) = u /\ \A k \in 1..u : a[k] = n[k]
  BY <1>1, <1>2
<1>4. b \in Seq(S) /\ Len(b) = u /\ \A k \in 1..u : b[k] = m[k]
  BY <1>1, <1>2
<1> HIDE DEF a, b
<1>5. \A k \in 1..u : a[k] = b[k]
  BY <1>1, <1>2, <1>3, <1>4, SMTT(40)
<1>6. a = b
  BY <1>3, <1>4, <1>5, SeqEqual
<1> QED BY <1>2, <1>6 DEF a, b, n

\* A sequence that is lengthened, from its end: the new comes first.
LEMMA ReverseLonger ==
  ASSUME NEW S, NEW s \in Seq(S), NEW x \in S
  PROVE  /\ Reverse(s) \in Seq(S)
         /\ Reverse(Append(s, x)) = <<x>> \o Reverse(s)
<1> DEFINE n == Len(s)
           l == Append(s, x)
           r == Reverse(s)
           a == Reverse(l)
           b == <<x>> \o r
<1>1. n \in Nat /\ l \in Seq(S) /\ Len(l) = n + 1 /\ l[n + 1] = x /\ \A k \in 1..n : l[k] = s[k]
  OBVIOUS
<1>2. r \in Seq(S) /\ Len(r) = n /\ \A k \in 1..n : r[k] = s[n - k + 1]
  BY DEF Reverse
<1> HIDE DEF l
<1>3. a \in Seq(S) /\ Len(a) = n + 1 /\ \A k \in 1..(n + 1) : a[k] = l[(n + 1) - k + 1]
  BY <1>1 DEF Reverse
<1> HIDE DEF r, a
<1>4. b \in Seq(S) /\ Len(b) = n + 1 /\ b[1] = x /\ \A k \in 2..(n + 1) : b[k] = r[k - 1]
  BY <1>1, <1>2
<1> HIDE DEF b, n
<1>5. ASSUME NEW k \in 1..(n + 1) PROVE a[k] = b[k]
  <2>1. CASE k = 1
    BY <1>1, <1>3, <1>4, <2>1
  <2>2. CASE k # 1
    <3>1. k \in 2..(n + 1) /\ k - 1 \in 1..n /\ (n + 1) - k + 1 \in 1..n
          /\ (n + 1) - k + 1 = n - (k - 1) + 1
      BY <1>1, <2>2
    <3> QED BY <1>1, <1>2, <1>3, <1>4, <3>1
  <2> QED BY <2>1, <2>2
<1>6. a = b
  BY <1>1, <1>3, <1>4, <1>5, SeqEqual
<1> QED BY <1>2, <1>6 DEF a, b, r, l

\* One layer more is the outermost.
LEMMA OneLayerMore ==
  ASSUME NEW S, NEW s \in Seq(Seq(S)), NEW x \in Seq(S)
  PROVE  FlattenSeq(Reverse(Append(s, x))) = x \o FlattenSeq(Reverse(s))
<1> DEFINE r == Reverse(s)
           one == <<x>>
<1>1. r \in Seq(Seq(S)) /\ Reverse(Append(s, x)) = one \o r
  BY ReverseLonger
<1>2. one \in Seq(Seq(S)) /\ Len(one) = 1 /\ one[1] = x
  OBVIOUS
<1> HIDE DEF r, one
<1>3. FlattenSeq(one \o r) = FlattenSeq(one) \o FlattenSeq(r)
  BY <1>1, <1>2, FlattenConcat
<1>4. FlattenSeq(one) = x
  <2>1. FlattenSeq(SubSeq(one, 1, 1)) = FlattenSeq(SubSeq(one, 1, 1 - 1)) \o one[1]
    <3>1. 1 \in 1..Len(one)
      BY <1>2
    <3> QED BY <1>2, <3>1, FlattenNext
  <2>2. SubSeq(one, 1, 1) = one /\ SubSeq(one, 1, 1 - 1) = << >>
    BY <1>2
  <2>3. << >> \o x = x
    OBVIOUS
  <2> QED BY <1>2, <2>1, <2>2, <2>3, FlattenEmpty
<1> QED BY <1>1, <1>3, <1>4 DEF r

\* Layers are sequences of what is mounted.
LEMMA LayersType ==
  ASSUME NEW S, NEW mounted \in [Places -> Seq(S)], NEW route, route.home \in Seq(Stops),
         \A j \in DOMAIN route.home : route.home[j].used \in 0..Len(mounted[route.home[j].at])
  PROVE  /\ Layers(route, mounted) \in Seq(Seq(S))
         /\ Len(Layers(route, mounted)) = Len(route.home)
<1> DEFINE home == route.home
<1>1. home \in Seq(Stops) /\ Len(home) \in Nat /\ DOMAIN home = 1..Len(home)
  OBVIOUS
<1> HIDE DEF home
<1>2. ASSUME NEW j \in 1..Len(home)
      PROVE  SubSeq(mounted[home[j].at], 1, home[j].used) \in Seq(S)
  <2>1. home[j] \in Stops
    BY <1>1
  <2>2. home[j].at \in Places /\ home[j].used \in 0..Len(mounted[home[j].at])
    BY <1>1, <2>1 DEF Stops, home
  <2> DEFINE m == mounted[home[j].at]
             u == home[j].used
  <2>3. m \in Seq(S) /\ u \in 0..Len(m)
    BY <2>2
  <2> HIDE DEF m, u
  <2>4. SubSeq(m, 1, u) \in Seq(S)
    BY <2>3
  <2> QED BY <2>4 DEF m, u
<1> DEFINE l == [j \in 1..Len(home) |-> SubSeq(mounted[home[j].at], 1, home[j].used)]
<1>3. l \in Seq(Seq(S)) /\ Len(l) = Len(home)
  BY <1>1, <1>2
<1>4. Layers(route, mounted) = l
  BY <1>1 DEF Layers, home
<1> QED BY <1>3, <1>4 DEF home

\* What is mounted later changes nothing around a route.
LEMMA LayersStay ==
  ASSUME NEW S, NEW mounted \in [Places -> Seq(S)], NEW more \in [Places -> Seq(S)],
         \A p \in Places : \A u \in 0..Len(mounted[p]) :
           u \in 0..Len(more[p]) /\ SubSeq(more[p], 1, u) = SubSeq(mounted[p], 1, u),
         NEW route, route.home \in Seq(Stops), Layered(route, mounted)
  PROVE  Layered(route, more)
<1> DEFINE home == route.home
<1>1. home \in Seq(Stops) /\ DOMAIN home = 1..Len(home)
  OBVIOUS
<1>2. \A j \in DOMAIN home : home[j].used \in 0..Len(mounted[home[j].at])
  BY DEF Layered
<1> HIDE DEF home
<1>3. ASSUME NEW j \in DOMAIN home
      PROVE  /\ home[j].used \in 0..Len(more[home[j].at])
             /\ SubSeq(more[home[j].at], 1, home[j].used)
                  = SubSeq(mounted[home[j].at], 1, home[j].used)
  <2>1. home[j] \in Stops
    BY <1>1
  <2>2. home[j].at \in Places /\ home[j].used \in 0..Len(mounted[home[j].at])
    BY <1>2, <2>1 DEF Stops
  <2> QED BY <2>2
<1>4. Layers(route, more) = Layers(route, mounted)
  BY <1>3 DEF Layers, home
<1> QED BY <1>3, <1>4 DEF Layered, home

\* A route that is put into a place gets what is mounted there around what it had.
LEMMA PutInside ==
  ASSUME NEW S, NEW mounted \in [Places -> Seq(S)], NEW place \in Places, NEW had \in BOOLEAN,
         NEW route, route.home \in Seq(Stops), Layered(route, mounted),
         NEW inside, inside.mws = mounted[place] \o route.mws,
         inside.home = Append(route.home, [at |-> place, used |-> Len(mounted[place]), had |-> had])
  PROVE  Layered(inside, mounted)
<1> DEFINE m == mounted[place]
           home == route.home
           stop == [at |-> place, used |-> Len(m), had |-> had]
           longer == Append(home, stop)
           layers == Layers(route, mounted)
<1>1. m \in Seq(S) /\ Len(m) \in Nat
  OBVIOUS
<1>2. stop \in Stops /\ stop.at = place /\ stop.used = Len(m)
  BY <1>1 DEF Stops
<1>3. /\ home \in Seq(Stops) /\ Len(home) \in Nat /\ DOMAIN home = 1..Len(home)
      /\ \A j \in DOMAIN home : home[j].used \in 0..Len(mounted[home[j].at])
  BY DEF Layered
<1>4. layers \in Seq(Seq(S)) /\ Len(layers) = Len(home)
  BY <1>3, LayersType
<1>5. route.mws = FlattenSeq(Reverse(layers))
  BY DEF Layered
<1>6. inside.home = longer /\ inside.mws = m \o route.mws
  OBVIOUS
<1> HIDE DEF stop, m
<1>7. /\ longer \in Seq(Stops) /\ Len(longer) = Len(home) + 1 /\ DOMAIN longer = 1..(Len(home) + 1)
      /\ longer[Len(home) + 1] = stop
      /\ \A j \in 1..Len(home) : longer[j] = home[j]
  BY <1>2, <1>3
<1> HIDE DEF longer
<1>8. ASSUME NEW j \in DOMAIN longer
      PROVE  longer[j].used \in 0..Len(mounted[longer[j].at])
  <2>1. CASE j = Len(home) + 1
    <3>1. longer[j].used = Len(m) /\ mounted[longer[j].at] = m
      BY <1>2, <1>7, <2>1 DEF m
    <3> QED BY <1>1, <3>1
  <2>2. CASE j # Len(home) + 1
    <3>1. j \in 1..Len(home)
      BY <1>3, <1>7, <2>2
    <3> QED BY <1>3, <1>7, <3>1
  <2> QED BY <2>1, <2>2
<1>9. Layers(inside, mounted) = Append(layers, m)
  <2> DEFINE a == Layers(inside, mounted)
             b == Append(layers, m)
  <2>1. a \in Seq(Seq(S)) /\ Len(a) = Len(home) + 1
    BY <1>6, <1>7, <1>8, LayersType
  <2>2. /\ b \in Seq(Seq(S)) /\ Len(b) = Len(home) + 1 /\ b[Len(home) + 1] = m
        /\ \A j \in 1..Len(home) : b[j] = layers[j]
    <3> HIDE DEF layers, home
    <3> QED BY <1>1, <1>4
  <2>3. ASSUME NEW j \in 1..(Len(home) + 1) PROVE a[j] = b[j]
    <3>1. a[j] = SubSeq(mounted[longer[j].at], 1, longer[j].used)
      BY <1>6, <1>7 DEF Layers
    <3>2. CASE j = Len(home) + 1
      <4>1. a[j] = SubSeq(m, 1, Len(m))
        BY <1>2, <1>7, <3>1, <3>2 DEF m
      <4> QED BY <1>1, <2>2, <3>2, <4>1
    <3>3. CASE j # Len(home) + 1
      <4>1. j \in 1..Len(home)
        BY <1>3, <3>3
      <4>2. layers[j] = SubSeq(mounted[home[j].at], 1, home[j].used)
        BY <1>3, <4>1 DEF Layers
      <4> QED BY <1>7, <2>2, <3>1, <4>1, <4>2
    <3> QED BY <3>2, <3>3
  <2> HIDE DEF a, b
  <2>4. a = b
    BY <1>3, <2>1, <2>2, <2>3, SeqEqual, SMTT(40)
  <2> QED BY <2>4 DEF a, b
<1>10. FlattenSeq(Reverse(Append(layers, m))) = m \o FlattenSeq(Reverse(layers))
  <2> HIDE DEF layers
  <2> QED BY <1>1, <1>4, OneLayerMore
<1> QED BY <1>5, <1>6, <1>8, <1>9, <1>10 DEF Layered

\* A route that nothing was put around has its own middlewares.
LEMMA AloneLayered ==
  ASSUME NEW S, NEW mounted \in [Places -> Seq(S)], NEW place \in Places, NEW had \in BOOLEAN,
         NEW route, route.mws = mounted[place],
         route.home = <<[at |-> place, used |-> Len(mounted[place]), had |-> had]>>
  PROVE  Layered(route, mounted)
<1> DEFINE none == [mws |-> << >>, home |-> << >>]
           m == mounted[place]
           stop == [at |-> place, used |-> Len(m), had |-> had]
<1>1. none.home \in Seq(Stops) /\ none.mws = << >> /\ none.home = << >>
  BY EmptySeq
<1> HIDE DEF none
<1>2. Layered(none, mounted)
  <2>1. Layers(none, mounted) = << >>
    BY <1>1 DEF Layers
  <2>2. Reverse(<< >>) = << >>
    BY DEF Reverse
  <2> QED BY <1>1, <2>1, <2>2, FlattenEmpty DEF Layered
<1>3. m \in Seq(S) /\ stop \in Stops
  BY DEF Stops
<1>4. route.mws = m \o none.mws
  BY <1>1, <1>3
<1>5. route.home = Append(none.home, stop)
  <2> HIDE DEF stop
  <2>1. route.home = <<stop>>
    BY DEF stop
  <2> QED BY <1>1, <2>1
<1> QED BY <1>1, <1>2, <1>4, <1>5, PutInside
-----------------------------------------------------------------------------
(* The maps of a route.                                                    *)

\* A place that has a map keeps it.
LEMMA ThreadsStay ==
  ASSUME NEW maps \in [Places -> Nat], NEW more \in [Places -> Nat],
         \A p \in Places : maps[p] # 0 => more[p] = maps[p],
         NEW route, route.home \in Seq(Stops), route.maps \in Seq(Nat), Threaded(route, maps)
  PROVE  Threaded(route, more)
<1> DEFINE home == route.home
<1>1. \A j \in DOMAIN home : home[j].at \in Places
  <2>1. \A j \in DOMAIN home : home[j] \in Stops
    OBVIOUS
  <2> QED BY <2>1 DEF Stops
<1>2. \A j \in DOMAIN home : home[j].had => maps[home[j].at] # 0
  BY DEF Threaded
<1>3. \A j \in DOMAIN home : home[j].had => more[home[j].at] = maps[home[j].at]
  BY <1>1, <1>2
<1>4. PICK f \in [DOMAIN route.maps -> DOMAIN home] : Threads(f, route, maps)
  BY DEF Threaded
<1>5. Threads(f, route, more)
  BY <1>3, <1>4 DEF Threads
<1> QED BY <1>2, <1>3, <1>4, <1>5 DEF Threaded

\* A route that is put into a place gets the map of it behind those it had, if a
\* state was bound there.
LEMMA ThreadedInside ==
  ASSUME NEW maps \in [Places -> Nat], NEW place \in Places, NEW had \in BOOLEAN, NEW used \in Nat,
         NEW route, route.home \in Seq(Stops), route.maps \in Seq(Nat), Threaded(route, maps),
         had => maps[place] # 0,
         NEW inside, inside.home = Append(route.home, [at |-> place, used |-> used, had |-> had]),
         inside.maps = IF had THEN Append(route.maps, maps[place]) ELSE route.maps
  PROVE  Threaded(inside, maps)
<1> DEFINE home == route.home
           ids == route.maps
           stop == [at |-> place, used |-> used, had |-> had]
           longer == Append(home, stop)
           n == Len(home)
           m == Len(ids)
<1>1. stop \in Stops /\ stop.at = place /\ stop.had = had
  BY DEF Stops
<1>2. inside.home = longer /\ inside.maps = IF had THEN Append(ids, maps[place]) ELSE ids
  OBVIOUS
<1>3. n \in Nat /\ DOMAIN home = 1..n /\ m \in Nat /\ DOMAIN ids = 1..m
  OBVIOUS
<1>4. home \in Seq(Stops) /\ ids \in Seq(Nat)
  OBVIOUS
<1>5. PICK f \in [DOMAIN ids -> DOMAIN home] : Threads(f, route, maps)
  BY DEF Threaded
<1>6. /\ f \in [1..m -> 1..n]
      /\ \A j, k \in 1..m : j < k => f[j] < f[k]
      /\ \A k \in 1..m : home[f[k]].had /\ ids[k] = maps[home[f[k]].at]
      /\ \A j \in 1..n : home[j].had => \E k \in 1..m : f[k] = j
      /\ \A j \in 1..n : home[j].had => maps[home[j].at] # 0
  BY <1>3, <1>5 DEF Threads, Threaded
<1> HIDE DEF stop
<1>7. /\ DOMAIN longer = 1..(n + 1) /\ longer[n + 1] = stop
      /\ \A j \in 1..n : longer[j] = home[j]
  BY <1>1, <1>3, <1>4
<1> HIDE DEF longer, home, ids
<1>8. \A j \in 1..(n + 1) : longer[j].had => maps[longer[j].at] # 0
  <2>1. \A j \in 1..(n + 1) : j \in 1..n \/ j = n + 1
    BY <1>3
  <2> QED BY <1>1, <1>6, <1>7, <2>1, SMTT(40)
<1>9. CASE had
  <2> DEFINE more == Append(ids, maps[place])
             g == [k \in 1..(m + 1) |-> IF k = m + 1 THEN n + 1 ELSE f[k]]
  <2>1. /\ DOMAIN more = 1..(m + 1) /\ more[m + 1] = maps[place]
        /\ \A k \in 1..m : more[k] = ids[k]
    <3>1. ids \in Seq(Nat) /\ maps[place] \in Nat /\ m = Len(ids)
      BY <1>4 DEF m, ids
    <3> QED BY <3>1
  <2> HIDE DEF more
  <2>2. inside.maps = more
    BY <1>2, <1>9 DEF more
  <2>3. g \in [1..(m + 1) -> 1..(n + 1)] /\ g[m + 1] = n + 1 /\ \A k \in 1..m : g[k] = f[k]
    BY <1>3, <1>6
  <2> HIDE DEF g, m, n
  <2>4. \A k \in 1..(m + 1) : k \in 1..m \/ k = m + 1
    BY <1>3
  <2>5. \A k \in 1..m : f[k] \in 1..n /\ f[k] < n + 1
    BY <1>3, <1>6
  <2>6. \A j, k \in 1..(m + 1) : j < k => g[j] < g[k]
    <3> SUFFICES ASSUME NEW j \in 1..(m + 1), NEW k \in 1..(m + 1), j < k PROVE g[j] < g[k]
      OBVIOUS
    <3>1. j \in 1..m
      BY <1>3
    <3> QED BY <1>6, <2>3, <2>4, <2>5, <3>1
  <2>7. \A k \in 1..(m + 1) : longer[g[k]].had /\ more[k] = maps[longer[g[k]].at]
    <3> SUFFICES ASSUME NEW k \in 1..(m + 1)
                 PROVE  longer[g[k]].had /\ more[k] = maps[longer[g[k]].at]
      OBVIOUS
    <3>1. CASE k = m + 1
      BY <1>1, <1>7, <1>9, <2>1, <2>3, <3>1
    <3>2. CASE k # m + 1
      <4>1. k \in 1..m
        BY <2>4, <3>2
      <4>2. g[k] = f[k] /\ f[k] \in 1..n /\ longer[g[k]] = home[f[k]]
        BY <1>7, <2>3, <2>5, <4>1
      <4>3. more[k] = ids[k]
        BY <2>1, <4>1
      <4> QED BY <1>6, <4>1, <4>2, <4>3
    <3> QED BY <3>1, <3>2
  <2>8. \A j \in 1..(n + 1) : longer[j].had => \E k \in 1..(m + 1) : g[k] = j
    <3> SUFFICES ASSUME NEW j \in 1..(n + 1), longer[j].had PROVE \E k \in 1..(m + 1) : g[k] = j
      OBVIOUS
    <3>1. CASE j = n + 1
      BY <1>3, <2>3, <3>1
    <3>2. CASE j # n + 1
      <4>1. j \in 1..n /\ home[j].had
        BY <1>3, <1>7, <3>2
      <4>2. PICK k \in 1..m : f[k] = j
        BY <1>6, <4>1
      <4>3. k \in 1..(m + 1) /\ g[k] = j
        BY <1>3, <2>3, <4>2
      <4> QED BY <4>3
    <3> QED BY <3>1, <3>2
  <2>9. g \in [DOMAIN inside.maps -> DOMAIN inside.home]
    BY <1>2, <1>7, <2>1, <2>2, <2>3
  <2>10. Threads(g, inside, maps)
    BY <1>2, <1>7, <2>1, <2>2, <2>6, <2>7, <2>8 DEF Threads
  <2> QED BY <1>2, <1>7, <1>8, <2>9, <2>10 DEF Threaded
<1>10. CASE ~had
  <2>1. inside.maps = ids
    BY <1>2, <1>10
  <2> HIDE DEF m, n
  <2>2. \A k \in 1..m : f[k] \in 1..n /\ f[k] \in 1..(n + 1)
    BY <1>3, <1>6
  <2>3. f \in [1..m -> 1..(n + 1)]
    BY <1>6, <2>2
  <2>4. \A k \in 1..m : longer[f[k]].had /\ ids[k] = maps[longer[f[k]].at]
    BY <1>6, <1>7, <2>2
  <2>5. \A j \in 1..(n + 1) : longer[j].had => \E k \in 1..m : f[k] = j
    <3> SUFFICES ASSUME NEW j \in 1..(n + 1), longer[j].had PROVE \E k \in 1..m : f[k] = j
      OBVIOUS
    <3>1. j # n + 1
      BY <1>1, <1>7, <1>10
    <3>2. j \in 1..n
      BY <1>3, <3>1
    <3> QED BY <1>6, <1>7, <3>2
  <2>6. f \in [DOMAIN inside.maps -> DOMAIN inside.home]
    BY <1>2, <1>3, <1>7, <2>1, <2>3
  <2>7. Threads(f, inside, maps)
    BY <1>2, <1>3, <1>6, <1>7, <2>1, <2>4, <2>5 DEF Threads
  <2> QED BY <1>2, <1>7, <1>8, <2>6, <2>7 DEF Threaded
<1> QED BY <1>9, <1>10

\* A route that nothing was put around has its own map or none.
LEMMA AloneThreaded ==
  ASSUME NEW maps \in [Places -> Nat], NEW place \in Places, NEW had \in BOOLEAN, NEW used \in Nat,
         had => maps[place] # 0,
         NEW route, route.home = <<[at |-> place, used |-> used, had |-> had]>>,
         route.maps = IF had THEN <<maps[place]>> ELSE << >>
  PROVE  Threaded(route, maps)
<1> DEFINE none == [maps |-> << >>, home |-> << >>]
           stop == [at |-> place, used |-> used, had |-> had]
           id == maps[place]
<1>1. none.home = << >> /\ none.maps = << >> /\ << >> \in Seq(Stops) /\ << >> \in Seq(Nat)
  BY EmptySeq
<1> HIDE DEF none
<1>2. Threaded(none, maps)
  <2>1. DOMAIN none.maps = {} /\ DOMAIN none.home = {}
    BY <1>1
  <2> DEFINE f == [k \in DOMAIN none.maps |-> 0]
  <2>2. f \in [DOMAIN none.maps -> DOMAIN none.home]
    BY <2>1
  <2> HIDE DEF f
  <2>3. Threads(f, none, maps)
    BY <2>1 DEF Threads
  <2> QED BY <2>1, <2>2, <2>3 DEF Threaded
<1>3. id \in Nat /\ Append(<< >>, id) = <<id>>
  OBVIOUS
<1>4. route.home = Append(none.home, stop)
  <2> HIDE DEF stop
  <2>1. route.home = <<stop>>
    BY DEF stop
  <2> QED BY <1>1, <2>1
<1>5. route.maps = IF had THEN Append(none.maps, id) ELSE none.maps
  BY <1>1, <1>3
<1> QED BY <1>1, <1>2, <1>4, <1>5, ThreadedInside

\* The least of some numbers.
LEMMA MinIs ==
  ASSUME NEW T, T \subseteq Nat, NEW x \in T, \A y \in T : x <= y
  PROVE  Min(T) = x
<1>1. \A y \in T : (\A z \in T : y <= z) => y = x
  OBVIOUS
<1> QED BY <1>1 DEF Min

\* Some numbers have a least one.
LEMMA HasMin ==
  ASSUME NEW T, T \subseteq Nat, T # {}
  PROVE  \E x \in T : \A y \in T : x <= y
<1> DEFINE Below == {p \in Nat \X Nat : p[1] < p[2]}
<1>1. IsWellFoundedOn(Below, Nat)
  BY NatLessThanWellFounded, Zenon DEF OpToRel
<1>2. PICK x \in T : \A y \in T : <<y, x>> \notin Below
  <2> HIDE DEF Below
  <2> QED BY <1>1, WFMin
<1>3. \A y \in T : ~ y < x
  <2>1. \A j, i \in Nat : j < i => <<j, i>> \in Below
    OBVIOUS
  <2> HIDE DEF Below
  <2> QED BY <1>2, <2>1
<1>4. \A y \in T : x <= y
  BY <1>3
<1> QED BY <1>2, <1>4

\* A route finds the state of the nearest place.
LEMMA FindsNearest ==
  ASSUME ScopeTypes, MapsSay, NEW route \in Served, Threaded(route, MapAt), NEW t \in Types
  PROVE  Found(route.maps, t) = Nearest(route, t)
<1> DEFINE home == route.home
           ids == route.maps
           holding == Holding(ids, t)
           near == Near(route, t)
<1>1. /\ home \in Seq(Stops) /\ DOMAIN home \subseteq Nat
      /\ ids \in Seq(Nat) /\ DOMAIN ids \subseteq Nat
  BY DEF Served
<1>2. PICK f \in [DOMAIN ids -> DOMAIN home] : Threads(f, route, MapAt)
  BY DEF Threaded
<1>3. \A j \in DOMAIN home : home[j].at \in Places
  <2>1. \A j \in DOMAIN home : home[j] \in Stops
    BY <1>1
  <2> QED BY <2>1 DEF Stops
<1>4. ASSUME NEW k \in DOMAIN ids
      PROVE  /\ f[k] \in DOMAIN home /\ home[f[k]].had /\ home[f[k]].at \in Places
             /\ heap[ids[k]][t] = LastSaid(home[f[k]].at, t)
  <2>1. f[k] \in DOMAIN home /\ home[f[k]].had /\ ids[k] = MapAt[home[f[k]].at]
    BY <1>2 DEF Threads
  <2>2. home[f[k]].at \in Places /\ MapAt[home[f[k]].at] # 0
    BY <1>3, <2>1 DEF Threaded
  <2> QED BY <2>1, <2>2 DEF MapsSay
<1>5. \A p \in Places : LastSaid(p, t) # Unset <=> said[p][t] > 0
  <2> SUFFICES ASSUME NEW p \in Places PROVE LastSaid(p, t) # Unset <=> said[p][t] > 0
    OBVIOUS
  <2>1. said[p][t] \in Nat
    BY PlacesAssumption DEF ScopeTypes
  <2> QED BY <2>1 DEF LastSaid, Unset
<1>6. \A k \in DOMAIN ids : k \in holding <=> f[k] \in near
  BY <1>4, <1>5 DEF Holding, Near
<1>7. \A j \in near : \E k \in holding : f[k] = j
  <2> SUFFICES ASSUME NEW j \in near PROVE \E k \in holding : f[k] = j
    OBVIOUS
  <2>1. j \in DOMAIN home /\ home[j].had
    BY DEF Near
  <2>2. PICK k \in DOMAIN ids : f[k] = j
    BY <1>2, <2>1 DEF Threads
  <2> QED BY <1>6, <2>2
<1>8. holding \subseteq DOMAIN ids /\ near \subseteq DOMAIN home
  BY DEF Holding, Near
<1>9. Found(ids, t) = IF holding = {} THEN Unset ELSE heap[ids[Min(holding)]][t]
  BY DEF Found
<1>10. Nearest(route, t) = IF near = {} THEN Unset
         ELSE [at |-> home[Min(near)].at, nth |-> said[home[Min(near)].at][t]]
  BY DEF Nearest
<1>11. \A k \in near : said[home[k].at][t] > 0
  BY DEF Near
<1>12. \A j, k \in DOMAIN ids : j < k => f[j] < f[k]
  BY <1>2 DEF Threads
<1> HIDE DEF holding, near, home, ids
<1>13. CASE holding = {}
  <2>1. near = {}
    BY <1>7, <1>13
  <2> QED BY <1>9, <1>10, <1>13, <2>1 DEF ids
<1>14. CASE holding # {}
  <2>1. PICK k \in holding : \A j \in holding : k <= j
    <3>1. holding \subseteq Nat
      BY <1>1, <1>8
    <3> QED BY <1>14, <3>1, HasMin
  <2>2. k \in DOMAIN ids /\ k \in Nat /\ f[k] \in near /\ f[k] \in Nat
    BY <1>1, <1>6, <1>8
  <2>3. \A i \in near : f[k] <= i
    <3> SUFFICES ASSUME NEW i \in near PROVE f[k] <= i
      OBVIOUS
    <3>1. PICK j \in holding : f[j] = i
      BY <1>7
    <3>2. j \in DOMAIN ids /\ j \in Nat /\ i \in Nat /\ k <= j
      BY <1>1, <1>8, <2>1, <3>1
    <3>3. k < j => f[k] < f[j]
      BY <1>12, <2>2, <3>2
    <3>4. k = j \/ k < j
      BY <2>2, <3>2
    <3> QED BY <2>2, <3>1, <3>2, <3>3, <3>4
  <2>4. Min(holding) = k
    <3>1. holding \subseteq Nat
      BY <1>1, <1>8
    <3> QED BY <2>1, <3>1, MinIs
  <2>5. Min(near) = f[k]
    <3>1. near \subseteq Nat
      BY <1>1, <1>8
    <3> QED BY <2>2, <2>3, <3>1, MinIs
  <2>6. heap[ids[k]][t] = LastSaid(home[f[k]].at, t)
    BY <1>4, <2>2 DEF ids, home
  <2>7. said[home[f[k]].at][t] # 0
    <3>1. said[home[f[k]].at][t] > 0
      BY <1>11, <2>2
    <3> QED BY <3>1
  <2>8. near # {}
    BY <2>2
  <2> QED BY <1>9, <1>10, <1>14, <2>4, <2>5, <2>6, <2>7, <2>8 DEF LastSaid, ids
<1> QED BY <1>13, <1>14
-----------------------------------------------------------------------------
(* What a step of the program changes and what it leaves.                  *)

\* The types of what the invariant speaks of.
LEMMA PlacesHave ==
  ASSUME ScopeTypes, MapsAreOwn
  PROVE  /\ MountedAt \in [Places -> Seq(Marks)]
         /\ MapAt \in [Places -> Nat]
         /\ \A route \in Kept : route \in Served /\ route.home \in Seq(Stops) /\ route.maps \in Seq(Nat)
<1>1. \A p \in Places : MountedIn(p) \in Seq(Marks)
  BY DEF ScopeTypes, MountedIn, Places
<1>2. MountedAt \in [Places -> Seq(Marks)]
  BY <1>1 DEF MountedAt
<1>3. MapAt \in [Places -> Nat]
  <2>1. \A p \in Places : MapAt[p] \in Nat
    BY DEF MapsAreOwn, ScopeTypes
  <2>2. \E f : MapAt = [p \in Places |-> f[p]]
    <3> DEFINE f == [p \in Places |-> IF p \in Scopes THEN scopes[p].map
                                      ELSE IF routes[p].maps = << >> THEN 0 ELSE routes[p].maps[1]]
    <3>1. MapAt = f
      BY DEF MapAt
    <3> HIDE DEF f
    <3>2. f = [p \in Places |-> f[p]]
      BY DEF f
    <3> QED BY <3>1, <3>2
  <2> QED BY <2>1, <2>2
<1>4. \A route \in Kept : route \in Served
  <2>1. \A k \in DOMAIN server : server[k] \in Served
    BY DEF ScopeTypes
  <2>2. \A s \in Scopes : \A k \in DOMAIN scopes[s].served : scopes[s].served[k] \in Served
    <3>1. \A s \in Scopes : scopes[s].served \in Seq(Served)
      BY DEF ScopeTypes
    <3> QED BY <3>1
  <2> QED BY <2>1, <2>2 DEF Kept, Opened, ServedIn
<1> QED BY <1>2, <1>3, <1>4 DEF Served

\* Without another route served, what is said of routes stays if middlewares are
\* only added and maps are kept.
LEMMA RoutesStay ==
  ASSUME ScopesInv, ScopeTypes', MapsAreOwn', plan' = plan, server' = server,
         \A s \in Scopes : scopes'[s].served = scopes[s].served,
         \A p \in Places : \A u \in 0..Len(MountedAt[p]) :
           /\ u \in 0..Len(MountedAt'[p])
           /\ SubSeq(MountedAt'[p], 1, u) = SubSeq(MountedAt[p], 1, u),
         \A p \in Places : MapAt[p] # 0 => MapAt'[p] = MapAt[p]
  PROVE  Onions' /\ Chains'
<1>1. Kept' = Kept
  BY DEF Kept, Opened, ServedIn
<1> DEFINE M == MountedAt
           N == MountedAt'
           A == MapAt
           B == MapAt'
<1>2. /\ M \in [Places -> Seq(Marks)] /\ A \in [Places -> Nat]
      /\ \A route \in Kept : route.home \in Seq(Stops) /\ route.maps \in Seq(Nat)
  BY PlacesHave DEF ScopesInv
<1>3. N \in [Places -> Seq(Marks)] /\ B \in [Places -> Nat]
  <2>1. Marks' = Marks
    BY DEF Marks
  <2>2. ScopeTypes' /\ MapsAreOwn' =>
          (MountedAt \in [Places -> Seq(Marks)] /\ MapAt \in [Places -> Nat])'
    BY PlacesHave, PTL
  <2> QED BY <2>1, <2>2
<1>4. ASSUME NEW route \in Kept PROVE Layered(route, N) /\ Threaded(route, B)
  <2>1. Layered(route, M) /\ Threaded(route, A)
    BY DEF ScopesInv, Onions, Chains
  <2>2. \A p \in Places : \A u \in 0..Len(M[p]) :
          u \in 0..Len(N[p]) /\ SubSeq(N[p], 1, u) = SubSeq(M[p], 1, u)
    OBVIOUS
  <2>3. \A p \in Places : A[p] # 0 => B[p] = A[p]
    OBVIOUS
  <2> HIDE DEF M, N, A, B
  <2> QED BY <1>2, <1>3, <2>1, <2>2, <2>3, LayersStay, ThreadsStay
<1> QED BY <1>1, <1>4 DEF Onions, Chains
-----------------------------------------------------------------------------
(* Binding a state.                                                        *)

\* A state more is said.
LEMMA SaidMore ==
  ASSUME ScopeTypes, NEW p \in Places, NEW t \in Types, said[p][t] < MaxSaid, Said(p, t)
  PROVE  /\ said' \in [Places -> [Types -> 0..MaxSaid]]
         /\ said'[p][t] = said[p][t] + 1 /\ said'[p][t] > 0 /\ said[p][t] + 1 \in 1..MaxSaid
         /\ \A q \in Places, u \in Types : q # p \/ u # t => said'[q][u] = said[q][u]
<1>1. said \in [Places -> [Types -> 0..MaxSaid]] /\ MaxSaid \in Nat
  BY PlacesAssumption DEF ScopeTypes
<1>2. said' = [said EXCEPT ![p][t] = @ + 1]
  BY DEF Said
<1>3. said[p][t] \in Nat /\ said[p][t] + 1 \in 1..MaxSaid /\ said[p][t] + 1 \in 0..MaxSaid
  BY <1>1
<1>4. said'[p][t] = said[p][t] + 1
  BY <1>1, <1>2
<1>5. \A q \in Places, u \in Types : q # p \/ u # t => said'[q][u] = said[q][u]
  BY <1>1, <1>2
<1>6. said' \in [Places -> [Types -> 0..MaxSaid]]
  BY <1>1, <1>2, <1>3
<1> QED BY <1>3, <1>4, <1>5, <1>6

\* One member of a sequence is replaced.
LEMMA ReplaceOne ==
  ASSUME NEW T, NEW s \in Seq(T), NEW i \in 1..Len(s), NEW x \in T
  PROVE  [s EXCEPT ![i] = x] \in Seq(T) /\ Len([s EXCEPT ![i] = x]) = Len(s)
OBVIOUS

\* A state is bound in a place that has a map.
LEMMA BindInPlace ==
  ASSUME ScopesInv, NEW p \in Places, NEW t \in Types, said[p][t] < MaxSaid, Said(p, t),
         MapAt[p] # 0, heap' = [heap EXCEPT ![MapAt[p]][t] = Value(p, t)],
         UNCHANGED <<routes, scopes, server, plan>>
  PROVE  ScopesInv'
<1> DEFINE id == MapAt[p]
           v == Value(p, t)
<1>1. ScopeTypes /\ MapsAreOwn /\ MapsSay
  BY DEF ScopesInv
<1>2. /\ said' \in [Places -> [Types -> 0..MaxSaid]]
      /\ said'[p][t] = said[p][t] + 1 /\ said'[p][t] > 0 /\ said[p][t] + 1 \in 1..MaxSaid
      /\ \A q \in Places, u \in Types : q # p \/ u # t => said'[q][u] = said[q][u]
  BY <1>1, SaidMore
<1>3. heap \in Seq([Types -> States]) /\ id \in 1..Len(heap) /\ Len(heap) \in Nat
  BY <1>1 DEF ScopeTypes, MapsAreOwn
<1>4. v \in States
  BY <1>2 DEF Value, States
<1>5. MapAt' = MapAt /\ MountedAt' = MountedAt /\ Marks' = Marks /\ Served' = Served
  BY DEF MapAt, MountedAt, MountedIn, Marks, Served
<1> HIDE DEF id, v
<1>6. heap' = [heap EXCEPT ![id] = [heap[id] EXCEPT ![t] = v]]
  BY DEF id, v
<1>7. heap' \in Seq([Types -> States]) /\ Len(heap') = Len(heap)
  <2>1. heap[id] \in [Types -> States]
    BY <1>3
  <2> DEFINE new == [heap[id] EXCEPT ![t] = v]
  <2>2. new \in [Types -> States]
    BY <1>4, <2>1
  <2>3. heap' = [heap EXCEPT ![id] = new]
    BY <1>6
  <2> HIDE DEF new
  <2> DEFINE T == [Types -> States]
  <2>4. heap \in Seq(T) /\ new \in T
    BY <1>3, <2>2
  <2> HIDE DEF T
  <2>5. [heap EXCEPT ![id] = new] \in Seq(T) /\ Len([heap EXCEPT ![id] = new]) = Len(heap)
    BY <1>3, <2>4, ReplaceOne
  <2> QED BY <2>3, <2>5 DEF T
<1>8. ScopeTypes'
  BY <1>1, <1>2, <1>5, <1>7 DEF ScopeTypes
<1>9. MapsAreOwn'
  <2>1. \A q \in Places : HasSaid(q) => HasSaid(q)'
    <3>1. \A q \in Places, u \in Types : said[q][u] > 0 => said'[q][u] > 0
      BY <1>2
    <3> QED BY <3>1 DEF HasSaid
  <2>2. HasSaid(p)'
    BY <1>2 DEF HasSaid
  <2>3. \A q \in Places : q # p => (HasSaid(q)' <=> HasSaid(q))
    BY <1>2 DEF HasSaid
  <2>4. \A r \in Routes : r \in Places
    BY DEF Places
  <2>5. ASSUME NEW r \in Routes PROVE OneMap(r)'
    <3>1. OneMap(r) /\ r \in Places
      BY <1>1, <2>4 DEF MapsAreOwn
    <3>2. HasSaid(r)' <=> HasSaid(r)
      <4>1. CASE r = p
        <5>1. HasSaid(r)
          BY <3>1, <4>1 DEF OneMap
        <5> QED BY <2>2, <4>1, <5>1
      <4>2. CASE r # p
        BY <2>3, <3>1, <4>2
      <4> QED BY <4>1, <4>2
    <3> QED BY <1>5, <3>1, <3>2 DEF OneMap
  <2>6. /\ \A q, o \in Places : MapAt'[q] # 0 /\ MapAt'[q] = MapAt'[o] => q = o
        /\ \A q \in Places : MapAt'[q] \in 0..Len(heap')
        /\ \A s \in Scopes : MapAt'[s] # 0
    BY <1>1, <1>5, <1>7 DEF MapsAreOwn
  <2> QED BY <2>5, <2>6 DEF MapsAreOwn
<1>10. MapsSay'
  <2> SUFFICES ASSUME NEW q \in Places, NEW u \in Types, MapAt[q] # 0
               PROVE  heap'[MapAt[q]][u] = LastSaid(q, u)'
    BY <1>5 DEF MapsSay
  <2>1. heap[MapAt[q]][u] = LastSaid(q, u)
    BY <1>1 DEF MapsSay
  <2>2. MapAt[q] \in 1..Len(heap)
    BY <1>1 DEF MapsAreOwn
  <2>3. CASE q = p /\ u = t
    <3>1. heap'[id][t] = v
      <4>1. heap[id] \in [Types -> States]
        BY <1>3
      <4> QED BY <1>3, <1>6, <4>1
    <3> QED BY <1>2, <2>3, <3>1 DEF LastSaid, Value, v, id
  <2>4. CASE q = p /\ u # t
    <3>1. heap'[id][u] = heap[id][u]
      <4>1. heap[id] \in [Types -> States]
        BY <1>3
      <4> QED BY <1>3, <1>6, <2>4, <4>1
    <3> QED BY <1>2, <2>1, <2>4, <3>1 DEF LastSaid, id
  <2>5. CASE q # p
    <3>1. MapAt[q] # id
      BY <1>1, <2>5 DEF MapsAreOwn, id
    <3>2. heap'[MapAt[q]] = heap[MapAt[q]]
      BY <1>3, <1>6, <2>2, <3>1
    <3> QED BY <1>2, <2>1, <2>5, <3>2 DEF LastSaid
  <2> QED BY <2>3, <2>4, <2>5
<1>11. Onions' /\ Chains'
  <2>1. \A q \in Places : \A u \in 0..Len(MountedAt[q]) :
          /\ u \in 0..Len(MountedAt'[q])
          /\ SubSeq(MountedAt'[q], 1, u) = SubSeq(MountedAt[q], 1, u)
    BY <1>5
  <2>2. \A q \in Places : MapAt[q] # 0 => MapAt'[q] = MapAt[q]
    BY <1>5
  <2>3. \A s \in Scopes : scopes'[s].served = scopes[s].served
    OBVIOUS
  <2> QED BY <1>8, <1>9, <2>1, <2>2, <2>3, RoutesStay
<1> QED BY <1>8, <1>9, <1>10, <1>11 DEF ScopesInv

\* scope_impl::use_state.
LEMMA ScopeUseStateInv ==
  ASSUME ScopesInv, NEW s \in Scopes, NEW t \in Types, ScopeUseState(s, t), plan' = plan
  PROVE  ScopesInv'
<1>1. s \in Places /\ MapAt[s] = scopes[s].map
  BY DEF Places, MapAt
<1>2. MapAt[s] # 0
  BY DEF ScopesInv, MapsAreOwn
<1> QED BY <1>1, <1>2, BindInPlace DEF ScopeUseState

\* route_impl::use_state: the first state of a route is put into a map of its own.
LEMMA RouteUseStateInv ==
  ASSUME ScopesInv, NEW r \in Routes, NEW t \in Types, NEW kept \in BOOLEAN,
         RouteUseState(r, t, kept), plan' = plan
  PROVE  ScopesInv'
<1>1. ScopeTypes /\ MapsAreOwn /\ MapsSay
  BY DEF ScopesInv
<1>2. r \in Places /\ r \notin Scopes /\ MapAt[r] = IF routes[r].maps = << >> THEN 0 ELSE routes[r].maps[1]
  BY PlacesAssumption DEF Places, MapAt
<1>3. /\ said[r][t] < MaxSaid /\ Said(r, t) /\ UNCHANGED <<scopes, server>>
      /\ heap' = CopyInsertFront(routes[r].maps, t, Value(r, t)).heap
      /\ routes' = [routes EXCEPT ![r].maps = CopyInsertFront(routes[r].maps, t, Value(r, t)).maps]
  BY DEF RouteUseState
<1>4. /\ routes[r] \in [maps : Seq(Nat), mws : Seq(Marks), home : {<< >>}]
      /\ routes[r].maps \in Seq(Nat) /\ OneMap(r)
  BY <1>1 DEF ScopeTypes, MapsAreOwn
<1>5. CASE routes[r].maps # << >>
  <2>1. /\ heap' = [heap EXCEPT ![routes[r].maps[1]][t] = Value(r, t)]
        /\ routes' = [routes EXCEPT ![r].maps = routes[r].maps]
    BY <1>3, <1>5 DEF CopyInsertFront
  <2>2. routes' = routes
    BY <1>1, <1>4, <2>1 DEF ScopeTypes
  <2>3. MapAt[r] = routes[r].maps[1] /\ MapAt[r] # 0
    BY <1>2, <1>4, <1>5 DEF OneMap
  <2> QED BY <1>2, <1>3, <2>1, <2>2, <2>3, BindInPlace
<1>6. CASE routes[r].maps = << >>
  <2> DEFINE n == Len(heap)
             v == Value(r, t)
             new == [Blank EXCEPT ![t] = v]
             id == n + 1
  <2>1. heap' = Append(heap, new) /\ routes' = [routes EXCEPT ![r].maps = <<id>>]
    BY <1>3, <1>6 DEF CopyInsertFront
  <2>2. /\ said' \in [Places -> [Types -> 0..MaxSaid]]
        /\ said'[r][t] = said[r][t] + 1 /\ said'[r][t] > 0 /\ said[r][t] + 1 \in 1..MaxSaid
        /\ \A q \in Places, u \in Types : q # r \/ u # t => said'[q][u] = said[q][u]
    BY <1>1, <1>2, <1>3, SaidMore
  <2>3. v \in States /\ Unset \in States
    BY <1>2, <2>2 DEF Value, States
  <2>4. new \in [Types -> States] /\ new[t] = v /\ \A u \in Types : u # t => new[u] = Unset
    BY <2>3 DEF Blank
  <2>5. heap \in Seq([Types -> States]) /\ n \in Nat
    BY <1>1 DEF ScopeTypes
  <2> HIDE DEF new, v, n
  <2>6. /\ heap' \in Seq([Types -> States]) /\ Len(heap') = id /\ heap'[id] = new
        /\ \A k \in 1..n : heap'[k] = heap[k]
    BY <2>1, <2>4, <2>5 DEF n
  <2>7. id \in Nat /\ id > n /\ id # 0
    BY <2>5
  <2> HIDE DEF id
  <2>8. Marks' = Marks /\ Served' = Served
    BY DEF Marks, Served
  <2>9. /\ routes' \in [Routes -> [maps : Seq(Nat), mws : Seq(Marks), home : {<< >>}]]
        /\ routes'[r].maps = <<id>>
        /\ \A q \in Routes : routes'[q].mws = routes[q].mws /\ (q # r => routes'[q] = routes[q])
    <3>1. routes \in [Routes -> [maps : Seq(Nat), mws : Seq(Marks), home : {<< >>}]]
      BY <1>1 DEF ScopeTypes
    <3>2. <<id>> \in Seq(Nat)
      BY <2>7
    <3> DEFINE ids == <<id>>
               x == [routes[r] EXCEPT !.maps = ids]
    <3> HIDE DEF ids
    <3>3. x \in [maps : Seq(Nat), mws : Seq(Marks), home : {<< >>}]
          /\ x.maps = ids /\ x.mws = routes[r].mws
      BY <1>4, <3>2 DEF ids
    <3>4. routes' = [routes EXCEPT ![r] = x]
      BY <2>1 DEF ids
    <3> HIDE DEF x
    <3>5. routes'[r] = x /\ \A q \in Routes : q # r => routes'[q] = routes[q]
      BY <3>1, <3>4
    <3>6. routes' \in [Routes -> [maps : Seq(Nat), mws : Seq(Marks), home : {<< >>}]]
      BY <3>1, <3>3, <3>4
    <3> QED BY <3>3, <3>5, <3>6 DEF ids
  <2>10. ScopeTypes'
    BY <1>1, <1>3, <2>2, <2>6, <2>8, <2>9 DEF ScopeTypes
  <2>11. MapAt'[r] = id /\ \A q \in Places : q # r => MapAt'[q] = MapAt[q]
    <3>1. routes'[r].maps # << >> /\ routes'[r].maps[1] = id
      BY <2>9
    <3>2. MapAt'[r] = id
      BY <1>2, <3>1 DEF MapAt
    <3>3. ASSUME NEW q \in Places, q # r PROVE MapAt'[q] = MapAt[q]
      <4>1. q \in Routes \ Scopes => routes'[q] = routes[q]
        BY <2>9, <3>3
      <4>2. scopes' = scopes
        BY <1>3
      <4>3. CASE q \in Scopes
        BY <4>2, <4>3 DEF MapAt
      <4>4. CASE q \notin Scopes
        <5>1. routes'[q] = routes[q]
          BY <4>1, <4>4 DEF Places
        <5> QED BY <4>4, <5>1 DEF MapAt
      <4> QED BY <4>3, <4>4
    <3> QED BY <3>2, <3>3
  <2>12. \A q \in Places : MapAt[q] \in 0..n
    BY <1>1 DEF MapsAreOwn, n
  <2>13. MapAt[r] = 0
    BY <1>2, <1>6
  <2>14. ~HasSaid(r) /\ HasSaid(r)'
    <3>1. ~HasSaid(r)
      BY <1>4, <2>13 DEF OneMap
    <3>2. HasSaid(r)'
      BY <2>2 DEF HasSaid
    <3> QED BY <3>1, <3>2
  <2>15. \A q \in Places : q # r => (HasSaid(q)' <=> HasSaid(q))
    BY <2>2 DEF HasSaid
  <2>16. MapsAreOwn'
    <3>1. ASSUME NEW p \in Places, NEW q \in Places, MapAt'[p] # 0, MapAt'[p] = MapAt'[q]
          PROVE  p = q
      <4>1. CASE p # r /\ q # r
        BY <1>1, <2>11, <3>1, <4>1 DEF MapsAreOwn
      <4>2. CASE p = r \/ q = r
        <5>1. \A o \in Places : o # r => MapAt'[o] # id
          BY <2>5, <2>7, <2>11, <2>12
        <5> QED BY <2>11, <3>1, <4>2, <5>1
      <4> QED BY <4>1, <4>2
    <3>2. \A q \in Places : MapAt'[q] \in 0..Len(heap')
      <4>1. \A q \in Places : MapAt[q] \in 0..id /\ id \in 0..id
        BY <2>5, <2>7, <2>12 DEF id
      <4> QED BY <2>6, <2>11, <4>1
    <3>3. \A s \in Scopes : MapAt'[s] # 0
      <4>1. \A s \in Scopes : s \in Places /\ s # r
        BY <1>2 DEF Places
      <4> QED BY <1>1, <2>11, <4>1 DEF MapsAreOwn
    <3>4. ASSUME NEW q \in Routes
          PROVE  OneMap(q)'
      <4>1. q \in Places
        BY DEF Places
      <4>2. CASE q = r
        <5>1. Len(<<id>>) = 1 /\ <<id>> # << >>
          OBVIOUS
        <5>2. Len(routes'[r].maps) <= 1 /\ routes'[r].maps # << >> /\ MapAt'[r] # 0
          BY <2>7, <2>9, <2>11, <5>1
        <5> QED BY <2>14, <4>2, <5>2 DEF OneMap
      <4>3. CASE q # r
        <5>1. OneMap(q)
          BY <1>1 DEF MapsAreOwn
        <5>2. routes'[q] = routes[q] /\ MapAt'[q] = MapAt[q] /\ (HasSaid(q)' <=> HasSaid(q))
          BY <2>9, <2>11, <2>15, <4>1, <4>3
        <5> QED BY <5>1, <5>2 DEF OneMap
      <4> QED BY <4>2, <4>3
    <3> QED BY <3>1, <3>2, <3>3, <3>4 DEF MapsAreOwn
  <2>17. MapsSay'
    <3> SUFFICES ASSUME NEW q \in Places, NEW u \in Types, MapAt'[q] # 0
                 PROVE  heap'[MapAt'[q]][u] = LastSaid(q, u)'
      BY DEF MapsSay
    <3>1. CASE q = r /\ u = t
      BY <2>2, <2>4, <2>6, <2>11, <3>1 DEF LastSaid, Value, v
    <3>2. CASE q = r /\ u # t
      <4>1. said[r][u] = 0
        <5>1. said[r][u] \in Nat
          BY <1>1, <1>2, PlacesAssumption DEF ScopeTypes
        <5> QED BY <2>14, <5>1 DEF HasSaid
      <4> QED BY <2>2, <2>4, <2>6, <2>11, <3>2, <4>1 DEF LastSaid
    <3>3. CASE q # r
      <4>1. MapAt'[q] = MapAt[q] /\ MapAt[q] \in 1..n
        BY <2>5, <2>11, <2>12, <3>3
      <4>2. heap[MapAt[q]][u] = LastSaid(q, u)
        BY <1>1, <4>1, <2>5 DEF MapsSay
      <4> QED BY <2>2, <2>6, <3>3, <4>1, <4>2 DEF LastSaid
    <3> QED BY <3>1, <3>2, <3>3
  <2>18. MountedAt' = MountedAt
    BY <1>3, <2>9 DEF MountedAt, MountedIn
  <2>19. Onions' /\ Chains'
    <3>1. \A q \in Places : \A u \in 0..Len(MountedAt[q]) :
            /\ u \in 0..Len(MountedAt'[q])
            /\ SubSeq(MountedAt'[q], 1, u) = SubSeq(MountedAt[q], 1, u)
      BY <2>18
    <3>2. \A q \in Places : MapAt[q] # 0 => MapAt'[q] = MapAt[q]
      BY <2>11, <2>13
    <3>3. server' = server /\ \A s \in Scopes : scopes'[s].served = scopes[s].served
      BY <1>3
    <3> QED BY <2>10, <2>16, <3>1, <3>2, <3>3, RoutesStay
  <2> QED BY <2>10, <2>16, <2>17, <2>19 DEF ScopesInv
<1> QED BY <1>5, <1>6
-----------------------------------------------------------------------------
(* Mounting a middleware.                                                  *)

\* A middleware more is mounted at one place.
LEMMA MountMore ==
  ASSUME ScopesInv, ScopeTypes', MapsAreOwn', plan' = plan, NEW p \in Places, NEW x \in Marks,
         MountedAt' = [MountedAt EXCEPT ![p] = Append(@, x)],
         MapAt' = MapAt, heap' = heap, said' = said, server' = server,
         \A s \in Scopes : scopes'[s].served = scopes[s].served
  PROVE  ScopesInv'
<1>1. MountedAt \in [Places -> Seq(Marks)]
  BY PlacesHave DEF ScopesInv
<1> DEFINE M == MountedAt
           N == [M EXCEPT ![p] = Append(@, x)]
<1>2. ASSUME NEW q \in Places, NEW u \in 0..Len(M[q])
      PROVE  u \in 0..Len(N[q]) /\ SubSeq(N[q], 1, u) = SubSeq(M[q], 1, u)
  <2> DEFINE m == M[q]
  <2>1. m \in Seq(Marks) /\ u \in 0..Len(m)
    BY <1>1
  <2>2. CASE q = p
    <3>1. N[q] = Append(m, x)
      BY <1>1, <2>2
    <3> HIDE DEF m, N
    <3>2. u \in 0..Len(Append(m, x)) /\ SubSeq(Append(m, x), 1, u) = SubSeq(m, 1, u)
      BY <2>1, PrefixKept
    <3> QED BY <3>1, <3>2 DEF m
  <2>3. CASE q # p
    BY <1>1, <2>3
  <2> QED BY <2>2, <2>3
<1>3. MountedAt' = N
  OBVIOUS
<1>4. Onions' /\ Chains'
  <2>1. \A q \in Places : \A u \in 0..Len(MountedAt[q]) :
          /\ u \in 0..Len(MountedAt'[q])
          /\ SubSeq(MountedAt'[q], 1, u) = SubSeq(MountedAt[q], 1, u)
    BY <1>2, <1>3
  <2>2. \A q \in Places : MapAt[q] # 0 => MapAt'[q] = MapAt[q]
    OBVIOUS
  <2> QED BY <2>1, <2>2, RoutesStay
<1>5. MapsSay'
  BY DEF ScopesInv, MapsSay, LastSaid
<1> QED BY <1>4, <1>5 DEF ScopesInv

\* What is mounted in a plan is a mark.
LEMMA MarkType ==
  ASSUME NEW p \in Places, NEW mw \in plan.mounts
  PROVE  Mark(p, mw) \in Marks
BY DEF Mark, Marks

\* A route gets a new middleware.
LEMMA MwsLonger ==
  ASSUME ScopeTypes, NEW d \in Routes, NEW x \in Marks,
         routes' = [routes EXCEPT ![d].mws = Append(@, x)]
  PROVE  /\ routes' \in [Routes -> [maps : Seq(Nat), mws : Seq(Marks), home : {<< >>}]]
         /\ routes'[d].mws = Append(routes[d].mws, x)
         /\ \A e \in Routes : routes'[e].maps = routes[e].maps /\ (e # d => routes'[e] = routes[e])
<1> DEFINE R == [maps : Seq(Nat), mws : Seq(Marks), home : {<< >>}]
           longer == Append(routes[d].mws, x)
           new == [routes[d] EXCEPT !.mws = longer]
<1>1. routes \in [Routes -> R] /\ routes[d] \in R /\ routes[d].mws \in Seq(Marks)
  BY DEF ScopeTypes
<1>2. longer \in Seq(Marks)
  <2> DEFINE m == routes[d].mws
  <2>1. m \in Seq(Marks)
    BY <1>1
  <2> HIDE DEF m
  <2>2. Append(m, x) \in Seq(Marks)
    BY <2>1
  <2> QED BY <2>2 DEF m
<1> HIDE DEF longer
<1>3. new \in R /\ new.mws = longer /\ new.maps = routes[d].maps
  BY <1>1, <1>2
<1> HIDE DEF new
<1>4. routes' = [routes EXCEPT ![d] = new]
  BY DEF new, longer
<1>5. /\ routes' \in [Routes -> R] /\ routes'[d] = new
      /\ \A e \in Routes : e # d => routes'[e] = routes[e]
  BY <1>1, <1>3, <1>4
<1>6. \A e \in Routes : routes'[e].maps = routes[e].maps
  BY <1>3, <1>5
<1> QED BY <1>3, <1>5, <1>6 DEF longer

\* route_impl::use.
LEMMA RouteUseInv ==
  ASSUME ScopesInv, NEW r \in Routes, NEW mw \in plan.mounts, RouteUse(r, mw), plan' = plan
  PROVE  ScopesInv'
<1> DEFINE x == Mark(r, mw)
<1>1. ScopeTypes /\ MapsAreOwn
  BY DEF ScopesInv
<1>2. r \in Places /\ \A q \in Routes : q \notin Scopes
  BY PlacesAssumption DEF Places
<1>3. x \in Marks
  BY <1>2, MarkType
<1>4. /\ routes' = [routes EXCEPT ![r].mws = Append(@, x)]
      /\ heap' = heap /\ scopes' = scopes /\ server' = server /\ said' = said
  BY DEF RouteUse
<1> HIDE DEF x
<1>6. /\ routes' \in [Routes -> [maps : Seq(Nat), mws : Seq(Marks), home : {<< >>}]]
      /\ routes'[r].mws = Append(routes[r].mws, x)
      /\ \A q \in Routes : routes'[q].maps = routes[q].maps /\ (q # r => routes'[q] = routes[q])
  BY <1>1, <1>3, <1>4, MwsLonger
<1>7. Marks' = Marks /\ Served' = Served
  BY DEF Marks, Served
<1>8. ScopeTypes'
  BY <1>1, <1>4, <1>6, <1>7 DEF ScopeTypes
<1>9. MapAt' = MapAt
  BY <1>4, <1>6 DEF MapAt, Places
<1>10. MapsAreOwn'
  BY <1>1, <1>4, <1>6, <1>9 DEF MapsAreOwn, OneMap, HasSaid
<1>11. MountedAt' = [MountedAt EXCEPT ![r] = Append(@, x)]
  <2>1. MountedAt = [p \in Places |-> MountedAt[p]]
    BY DEF MountedAt
  <2>2. MountedAt[r] = routes[r].mws /\ MountedAt'[r] = routes'[r].mws
    BY <1>2, <1>4 DEF MountedAt, MountedIn
  <2>3. \A p \in Places : p # r => MountedAt'[p] = MountedAt[p]
    BY <1>4, <1>6 DEF MountedAt, MountedIn
  <2>4. MountedAt' = [p \in Places |-> MountedAt'[p]]
    BY DEF MountedAt
  <2> QED BY <1>6, <2>1, <2>2, <2>3, <2>4
<1>12. \A s \in Scopes : scopes'[s].served = scopes[s].served
  BY <1>4
<1> QED BY <1>2, <1>3, <1>4, <1>8, <1>9, <1>10, <1>11, <1>12, MountMore

\* scope_impl::use.
LEMMA ScopeUseInv ==
  ASSUME ScopesInv, NEW s \in Scopes, NEW mw \in plan.mounts, ScopeUse(s, mw), plan' = plan
  PROVE  ScopesInv'
<1> DEFINE x == Mark(s, mw)
           R == [map : Nat, mws : Seq(Marks), served : Seq(Served)]
           longer == Append(scopes[s].mws, x)
           new == [scopes[s] EXCEPT !.mws = longer]
<1>1. ScopeTypes /\ MapsAreOwn
  BY DEF ScopesInv
<1>2. s \in Places /\ s \notin Routes
  BY PlacesAssumption DEF Places
<1>3. x \in Marks
  BY <1>2, MarkType
<1>4. /\ scopes' = [scopes EXCEPT ![s] = new]
      /\ heap' = heap /\ routes' = routes /\ server' = server /\ said' = said
  BY DEF ScopeUse
<1>5. scopes \in [Scopes -> R]
  BY <1>1 DEF ScopeTypes
<1> HIDE DEF x
<1>6. longer \in Seq(Marks)
  <2> DEFINE m == scopes[s].mws
  <2>1. m \in Seq(Marks)
    BY <1>5
  <2> HIDE DEF m
  <2>2. Append(m, x) \in Seq(Marks)
    BY <1>3, <2>1
  <2> QED BY <2>2 DEF m
<1> HIDE DEF longer
<1>7. /\ new \in R /\ new.mws = longer /\ new.map = scopes[s].map
      /\ new.served = scopes[s].served
  BY <1>5, <1>6
<1> HIDE DEF new
<1>8. /\ scopes' \in [Scopes -> R] /\ scopes'[s] = new
      /\ \A q \in Scopes : q # s => scopes'[q] = scopes[q]
  BY <1>4, <1>5, <1>7
<1>9. Marks' = Marks /\ Served' = Served
  BY DEF Marks, Served
<1>10. ScopeTypes'
  BY <1>1, <1>4, <1>8, <1>9 DEF ScopeTypes
<1>11. \A q \in Scopes : scopes'[q].map = scopes[q].map /\ scopes'[q].served = scopes[q].served
  BY <1>7, <1>8
<1>12. MapAt' = MapAt
  BY <1>4, <1>11 DEF MapAt
<1>13. MapsAreOwn'
  BY <1>1, <1>4, <1>12 DEF MapsAreOwn, OneMap, HasSaid
<1>14. MountedAt' = [MountedAt EXCEPT ![s] = Append(@, x)]
  <2>1. MountedAt = [p \in Places |-> MountedAt[p]]
    BY DEF MountedAt
  <2>2. MountedAt[s] = scopes[s].mws /\ MountedAt'[s] = longer
    BY <1>2, <1>7, <1>8 DEF MountedAt, MountedIn
  <2>3. \A p \in Places : p # s => MountedAt'[p] = MountedAt[p]
    BY <1>4, <1>8 DEF MountedAt, MountedIn, Places
  <2>4. MountedAt' = [p \in Places |-> MountedAt'[p]]
    BY DEF MountedAt
  <2> QED BY <2>1, <2>2, <2>3, <2>4 DEF longer
<1> QED BY <1>2, <1>3, <1>4, <1>10, <1>11, <1>12, <1>13, <1>14, MountMore
-----------------------------------------------------------------------------
(* Serving a route.                                                        *)

\* What is so of every route that was put somewhere.
Fits(route) == /\ route \in Served
               /\ Layered(route, MountedAt)
               /\ Threaded(route, MapAt)

\* What a place had, when a route was put there, is a stop.
LEMMA StopType ==
  ASSUME NEW p \in Places, NEW m \in Seq(Marks)
  PROVE  /\ Stop(p, m) = [at |-> p, used |-> Len(m), had |-> HasSaid(p)]
         /\ Stop(p, m) \in Stops /\ HasSaid(p) \in BOOLEAN
BY DEF Stop, Stops, HasSaid

\* A route as it is put somewhere.
LEMMA PlacedFits ==
  ASSUME ScopesInv, NEW r \in Routes
  PROVE  Fits(Placed(r))
<1> DEFINE m == routes[r].mws
           stop == Stop(r, m)
           had == HasSaid(r)
           homeward == <<stop>>
           placed == Placed(r)
<1>1. ScopeTypes /\ MapsAreOwn
  BY DEF ScopesInv
<1>2. r \in Places /\ r \notin Scopes
  BY PlacesAssumption DEF Places
<1>3. /\ MountedAt \in [Places -> Seq(Marks)] /\ MapAt \in [Places -> Nat]
      /\ MountedAt[r] = m
  BY <1>1, <1>2, PlacesHave DEF MountedAt, MountedIn
<1>4. /\ routes[r] \in [maps : Seq(Nat), mws : Seq(Marks), home : {<< >>}]
      /\ m \in Seq(Marks) /\ Len(m) \in Nat /\ routes[r].home = << >>
  BY <1>1 DEF ScopeTypes
<1>5. stop = [at |-> r, used |-> Len(m), had |-> had] /\ stop \in Stops /\ had \in BOOLEAN
  BY <1>2, <1>4, StopType
<1>6. HomeOf(r) = homeward
  BY <1>4 DEF HomeOf
<1> HIDE DEF had, stop
<1>7. homeward \in Seq(Stops)
  BY <1>5
<1> HIDE DEF homeward
<1>8. /\ placed \in Served /\ placed.home = homeward
      /\ placed.mws = m /\ placed.maps = routes[r].maps
  BY <1>4, <1>6, <1>7 DEF Placed, Served
<1> HIDE DEF placed
<1>9. Layered(placed, MountedAt)
  <2>1. placed.mws = MountedAt[r]
    BY <1>3, <1>8
  <2>2. placed.home = <<[at |-> r, used |-> Len(MountedAt[r]), had |-> had]>>
    BY <1>3, <1>5, <1>8 DEF homeward
  <2> HIDE DEF m
  <2> QED BY <1>2, <1>3, <1>5, <2>1, <2>2, AloneLayered
<1>10. Threaded(placed, MapAt)
  <2>1. OneMap(r)
    BY <1>1 DEF MapsAreOwn
  <2>2. MapAt[r] = IF routes[r].maps = << >> THEN 0 ELSE routes[r].maps[1]
    BY <1>2 DEF MapAt
  <2>3. had => MapAt[r] # 0
    BY <2>1 DEF OneMap, had
  <2>4. placed.maps = IF had THEN <<MapAt[r]>> ELSE << >>
    <3>1. had <=> routes[r].maps # << >>
      BY <2>1 DEF OneMap, had
    <3>2. routes[r].maps \in Seq(Nat) /\ Len(routes[r].maps) <= 1
      BY <1>4, <2>1 DEF OneMap
    <3>3. routes[r].maps # << >> => routes[r].maps = <<routes[r].maps[1]>>
      BY <3>2
    <3> QED BY <1>8, <2>2, <3>1, <3>3
  <2>5. placed.home = <<[at |-> r, used |-> Len(m), had |-> had]>>
    BY <1>5, <1>8 DEF homeward
  <2> HIDE DEF m
  <2> QED BY <1>2, <1>3, <1>4, <1>5, <2>3, <2>4, <2>5, AloneThreaded
<1> QED BY <1>8, <1>9, <1>10 DEF Fits, placed

\* The map of a scope is blank until a state is bound there.
LEMMA BlankIsUnsaid ==
  ASSUME ScopesInv, NEW s \in Scopes
  PROVE  heap[scopes[s].map] = Blank <=> ~HasSaid(s)
<1> DEFINE map == heap[scopes[s].map]
<1>1. s \in Places /\ MapAt[s] = scopes[s].map /\ MapAt[s] # 0 /\ MapAt[s] \in 1..Len(heap)
  <2>1. s \in Places /\ MapAt[s] = scopes[s].map
    BY DEF MapAt, Places
  <2>2. MapAt[s] # 0 /\ MapAt[s] \in 0..Len(heap)
    BY <2>1 DEF ScopesInv, MapsAreOwn
  <2> QED BY <2>1, <2>2
<1>2. map \in [Types -> States]
  BY <1>1 DEF ScopesInv, ScopeTypes
<1>3. \A t \in Types : map[t] = LastSaid(s, t)
  BY <1>1 DEF ScopesInv, MapsSay
<1>4. \A t \in Types : said[s][t] \in Nat
  BY <1>1, PlacesAssumption DEF ScopesInv, ScopeTypes
<1> HIDE DEF map
<1>5. \A t \in Types : map[t] = Unset <=> ~(said[s][t] > 0)
  <2> SUFFICES ASSUME NEW t \in Types PROVE map[t] = Unset <=> ~(said[s][t] > 0)
    OBVIOUS
  <2>1. map[t] = LastSaid(s, t) /\ said[s][t] \in Nat
    BY <1>3, <1>4
  <2> QED BY <2>1 DEF LastSaid, Unset
<1>6. map = Blank <=> \A t \in Types : map[t] = Unset
  BY <1>2 DEF Blank
<1> QED BY <1>5, <1>6 DEF HasSaid, map

\* A route that is put into a scope.
LEMMA ReboundFits ==
  ASSUME ScopesInv, NEW s \in Scopes, NEW route, Fits(route)
  PROVE  Fits(Rebound(route, s))
<1> DEFINE m == scopes[s].mws
           stop == Stop(s, m)
           had == HasSaid(s)
           inside == Rebound(route, s)
           onward == Append(route.home, stop)
<1>1. ScopeTypes /\ MapsAreOwn
  BY DEF ScopesInv
<1>2. s \in Places /\ s \notin Routes
  BY PlacesAssumption DEF Places
<1>3. /\ MountedAt \in [Places -> Seq(Marks)] /\ MapAt \in [Places -> Nat]
      /\ MountedAt[s] = m /\ MapAt[s] = scopes[s].map /\ MapAt[s] # 0
  <2>1. MountedAt \in [Places -> Seq(Marks)] /\ MapAt \in [Places -> Nat]
    BY <1>1, PlacesHave
  <2>2. MountedAt[s] = m /\ MapAt[s] = scopes[s].map
    BY <1>2 DEF MountedAt, MountedIn, MapAt
  <2> QED BY <1>1, <2>1, <2>2 DEF MapsAreOwn
<1>4. m \in Seq(Marks) /\ Len(m) \in Nat
  BY <1>1 DEF ScopeTypes
<1>5. stop = [at |-> s, used |-> Len(m), had |-> had] /\ stop \in Stops /\ had \in BOOLEAN
  BY <1>2, <1>4, StopType
<1>6. /\ route \in Served /\ route.home \in Seq(Stops) /\ route.maps \in Seq(Nat)
      /\ route.mws \in Seq(Marks) /\ Layered(route, MountedAt) /\ Threaded(route, MapAt)
  BY DEF Fits, Served
<1>7. /\ inside.home = onward /\ inside.mws = m \o route.mws
      /\ inside.maps = IF had THEN Append(route.maps, MapAt[s]) ELSE route.maps
      /\ inside = [maps |-> inside.maps, mws |-> inside.mws, home |-> inside.home]
  <2>1. heap[scopes[s].map] = Blank <=> ~HasSaid(s)
    BY BlankIsUnsaid
  <2> QED BY <1>3, <2>1 DEF Rebound
<1> HIDE DEF stop, had, inside
<1>8. inside \in Served
  <2>1. onward \in Seq(Stops)
    <3> DEFINE home == route.home
    <3>1. home \in Seq(Stops)
      BY <1>6
    <3> HIDE DEF home
    <3>2. Append(home, stop) \in Seq(Stops)
      BY <1>5, <3>1
    <3> QED BY <3>2 DEF home
  <2>2. m \o route.mws \in Seq(Marks)
    <3> DEFINE a == m
               b == route.mws
    <3>1. a \in Seq(Marks) /\ b \in Seq(Marks)
      BY <1>4, <1>6
    <3> HIDE DEF a, b
    <3>2. a \o b \in Seq(Marks)
      BY <3>1
    <3> QED BY <3>2 DEF a, b
  <2>3. inside.maps \in Seq(Nat)
    <3> DEFINE ids == route.maps
               id == MapAt[s]
    <3>1. ids \in Seq(Nat) /\ id \in Nat
      BY <1>2, <1>3, <1>6
    <3>2. inside.maps = IF had THEN Append(ids, id) ELSE ids
      BY <1>7
    <3> HIDE DEF ids, id
    <3> QED BY <3>1, <3>2
  <2> HIDE DEF onward
  <2>4. [maps |-> inside.maps, mws |-> inside.mws, home |-> inside.home] \in Served
    BY <1>7, <2>1, <2>2, <2>3 DEF Served
  <2> QED BY <1>7, <2>4
<1>9. Layered(inside, MountedAt)
  <2>1. inside.mws = MountedAt[s] \o route.mws
    BY <1>3, <1>7
  <2>2. inside.home
          = Append(route.home, [at |-> s, used |-> Len(MountedAt[s]), had |-> had])
    BY <1>3, <1>5, <1>7
  <2> HIDE DEF m, onward
  <2> QED BY <1>2, <1>3, <1>5, <1>6, <2>1, <2>2, PutInside
<1>10. Threaded(inside, MapAt)
  <2>1. had => MapAt[s] # 0
    BY <1>3
  <2>2. inside.home = Append(route.home, [at |-> s, used |-> Len(m), had |-> had])
    BY <1>5, <1>7
  <2>3. inside.maps = IF had THEN Append(route.maps, MapAt[s]) ELSE route.maps
    BY <1>7
  <2> HIDE DEF m, onward
  <2> QED BY <1>2, <1>3, <1>4, <1>5, <1>6, <2>1, <2>2, <2>3, ThreadedInside
<1> QED BY <1>8, <1>9, <1>10 DEF Fits, inside

\* What a scope has for the server: the routes up to the first that is refused.
LEMMA AcceptedIs ==
  ASSUME NEW served \in Seq(Served)
  PROVE  /\ Accepted(served) \in Seq(Served)
         /\ \A k \in DOMAIN Accepted(served) :
              k \in DOMAIN served /\ Accepted(served)[k] = served[k]
<1> DEFINE G(n) == /\ \A k \in 1..n : Fresh(served[k])
                   /\ \A j, k \in 1..n : Path(served[j]) = Path(served[k]) => j = k
           P(n) == G(n) /\ (n = Len(served) \/ ~G(n + 1))
           c == CHOOSE n \in 0..Len(served) : P(n)
           T == {n \in 0..Len(served) : n = Len(served) \/ ~G(n + 1)}
<1>1. Accepted(served) = SubSeq(served, 1, c)
  BY DEF Accepted
<1>2. Len(served) \in Nat
  OBVIOUS
<1>3. G(0)
  OBVIOUS
<1> HIDE DEF G
<1>4. PICK x \in T : \A y \in T : x <= y
  <2>1. T \subseteq Nat /\ Len(served) \in T
    BY <1>2
  <2> HIDE DEF T
  <2> QED BY <2>1, HasMin
<1>5. x \in 0..Len(served) /\ P(x)
  <2>1. CASE x = 0
    BY <1>2, <1>3, <2>1
  <2>2. CASE x # 0
    <3>1. x - 1 \in 0..Len(served) /\ x - 1 + 1 = x /\ ~ x <= x - 1 /\ x - 1 # Len(served)
      BY <1>2, <2>2
    <3>2. x - 1 \notin T
      BY <1>4, <3>1
    <3>3. G(x - 1 + 1)
      BY <3>1, <3>2
    <3>4. G(x)
      BY <3>1, <3>3
    <3> QED BY <1>2, <3>4
  <2> QED BY <2>1, <2>2
<1> HIDE DEF P
<1>6. c \in 0..Len(served)
  BY <1>5
<1> HIDE DEF c
<1>7. /\ SubSeq(served, 1, c) \in Seq(Served) /\ Len(SubSeq(served, 1, c)) = c
      /\ \A k \in 1..c : k \in 1..Len(served) /\ SubSeq(served, 1, c)[k] = served[k]
  BY <1>6
<1> QED BY <1>1, <1>7

\* A step that only puts routes somewhere, and only such as fit.
LEMMA KeptGrows ==
  ASSUME ScopesInv, plan' = plan, heap' = heap, routes' = routes, said' = said,
         server' \in Seq(Served),
         scopes' \in [Scopes -> [map : Nat, mws : Seq(Marks), served : Seq(Served)]],
         \A s \in Scopes : scopes'[s].map = scopes[s].map /\ scopes'[s].mws = scopes[s].mws,
         \A route \in Kept' : Fits(route)
  PROVE  ScopesInv'
<1>1. ScopeTypes /\ MapsAreOwn /\ MapsSay
  BY DEF ScopesInv
<1>2. Marks' = Marks /\ Served' = Served
  BY DEF Marks, Served
<1>3. ScopeTypes'
  BY <1>1, <1>2 DEF ScopeTypes
<1>4. MountedAt' = MountedAt
  BY DEF MountedAt, MountedIn, Places
<1>5. MapAt' = MapAt
  BY DEF MapAt
<1>6. MapsAreOwn'
  BY <1>1, <1>5 DEF MapsAreOwn, OneMap, HasSaid
<1>7. MapsSay'
  BY <1>1, <1>5 DEF MapsSay, LastSaid
<1>8. Onions' /\ Chains'
  <2>1. \A route \in Kept' : Layered(route, MountedAt) /\ Threaded(route, MapAt)
    BY DEF Fits
  <2> QED BY <1>4, <1>5, <2>1 DEF Onions, Chains
<1> QED BY <1>3, <1>6, <1>7, <1>8 DEF ScopesInv

\* What was put somewhere fits.
LEMMA KeptFit ==
  ASSUME ScopesInv, NEW route \in Kept
  PROVE  Fits(route)
<1>1. route \in Served
  BY PlacesHave DEF ScopesInv
<1> QED BY <1>1 DEF ScopesInv, Onions, Chains, Fits

\* A scope is served routes that fit.
LEMMA ServeFitting ==
  ASSUME ScopesInv, NEW s \in Scopes, NEW added \in Seq(Served), Serve(s, added), plan' = plan,
         \A k \in DOMAIN added : Fits(added[k])
  PROVE  ScopesInv'
<1> DEFINE R == [map : Nat, mws : Seq(Marks), served : Seq(Served)]
           more == [k \in DOMAIN added |-> Rebound(added[k], s)]
           had == scopes[s].served
           longer == had \o more
           new == [scopes[s] EXCEPT !.served = longer]
<1>1. ScopeTypes
  BY DEF ScopesInv
<1>2. /\ scopes' = [scopes EXCEPT ![s] = new]
      /\ heap' = heap /\ routes' = routes /\ server' = server /\ said' = said
  BY DEF Serve
<1>3. scopes \in [Scopes -> R] /\ scopes[s] \in R /\ had \in Seq(Served) /\ server \in Seq(Served)
  BY <1>1 DEF ScopeTypes
<1>4. \A k \in DOMAIN added : Fits(Rebound(added[k], s))
  BY ReboundFits
<1>5. /\ more \in Seq(Served) /\ Len(more) = Len(added) /\ DOMAIN more = DOMAIN added
      /\ \A k \in DOMAIN more : Fits(more[k])
  <2>1. \A k \in DOMAIN added : Rebound(added[k], s) \in Served
    BY <1>4 DEF Fits
  <2>2. DOMAIN added = 1..Len(added) /\ Len(added) \in Nat
    OBVIOUS
  <2>3. \A k \in DOMAIN added : more[k] = Rebound(added[k], s)
    OBVIOUS
  <2>4. more \in [1..Len(added) -> Served]
    BY <2>1, <2>2
  <2>5. DOMAIN more = DOMAIN added
    OBVIOUS
  <2> HIDE DEF more
  <2>6. more \in Seq(Served)
    BY <2>2, <2>4
  <2> QED BY <1>4, <2>2, <2>3, <2>4, <2>5, <2>6
<1> HIDE DEF more, had
<1>6. /\ longer \in Seq(Served)
      /\ \A k \in DOMAIN longer : \/ k \in DOMAIN had /\ longer[k] = had[k]
                                  \/ \E j \in DOMAIN more : longer[k] = more[j]
  <2>1. /\ had \in Seq(Served) /\ more \in Seq(Served)
        /\ DOMAIN had = 1..Len(had) /\ DOMAIN more = 1..Len(more)
        /\ Len(had) \in Nat /\ Len(more) \in Nat
    BY <1>3, <1>5
  <2>2. longer \in Seq(Served) /\ DOMAIN longer = 1..(Len(had) + Len(more))
    BY <2>1
  <2>3. ASSUME NEW k \in 1..(Len(had) + Len(more))
        PROVE  \/ k \in 1..Len(had) /\ longer[k] = had[k]
               \/ \E j \in 1..Len(more) : longer[k] = more[j]
    <3>1. CASE k <= Len(had)
      BY <2>1, <3>1
    <3>2. CASE ~ k <= Len(had)
      <4>1. k - Len(had) \in 1..Len(more) /\ longer[k] = more[k - Len(had)]
        BY <2>1, <3>2
      <4> QED BY <4>1
    <3> QED BY <3>1, <3>2
  <2> HIDE DEF longer
  <2> QED BY <2>1, <2>2, <2>3
<1> HIDE DEF longer
<1>7. new \in R /\ new.served = longer /\ new.map = scopes[s].map /\ new.mws = scopes[s].mws
  BY <1>3, <1>6
<1> HIDE DEF new
<1>8. /\ scopes' \in [Scopes -> R] /\ scopes'[s] = new
      /\ \A q \in Scopes : q # s => scopes'[q] = scopes[q]
  BY <1>2, <1>3, <1>7
<1>9. \A q \in Scopes : scopes'[q].map = scopes[q].map /\ scopes'[q].mws = scopes[q].mws
  BY <1>7, <1>8
<1>10. ASSUME NEW route \in Kept' PROVE Fits(route)
  <2>1. CASE route \in Opened'
    <3>1. route \in Kept
      BY <1>2, <2>1 DEF Kept, Opened
    <3> QED BY <3>1, KeptFit
  <2>2. CASE route \notin Opened'
    <3>1. PICK q \in Scopes : \E k \in DOMAIN scopes'[q].served : route = scopes'[q].served[k]
      BY <2>2 DEF Kept, ServedIn
    <3>2. PICK k \in DOMAIN scopes'[q].served : route = scopes'[q].served[k]
      BY <3>1
    <3>3. CASE q # s
      <4>1. route \in ServedIn(q)
        BY <1>8, <3>2, <3>3 DEF ServedIn
      <4>2. route \in Kept
        BY <4>1 DEF Kept
      <4> QED BY <4>2, KeptFit
    <3>4. CASE q = s
      <4>1. k \in DOMAIN longer /\ route = longer[k]
        BY <1>7, <1>8, <3>2, <3>4
      <4>2. CASE k \in DOMAIN had /\ longer[k] = had[k]
        <5>1. route \in ServedIn(s)
          BY <4>1, <4>2 DEF ServedIn, had
        <5>2. route \in Kept
          BY <5>1 DEF Kept
        <5> QED BY <5>2, KeptFit
      <4>3. CASE \E j \in DOMAIN more : longer[k] = more[j]
        BY <1>5, <4>1, <4>3
      <4> QED BY <1>6, <4>1, <4>2, <4>3
    <3> QED BY <3>3, <3>4
  <2> QED BY <2>1, <2>2
<1> QED BY <1>2, <1>3, <1>8, <1>9, <1>10, KeptGrows

\* scope_impl::serve, of a route.
LEMMA ScopeServeRouteInv ==
  ASSUME ScopesInv, NEW s \in Scopes, NEW r \in Routes, ScopeServeRoute(s, r), plan' = plan
  PROVE  ScopesInv'
<1> DEFINE added == <<Placed(r)>>
<1>1. Fits(Placed(r)) /\ Placed(r) \in Served
  BY PlacedFits DEF Fits
<1>2. added \in Seq(Served) /\ \A k \in DOMAIN added : added[k] = Placed(r)
  BY <1>1
<1>3. Serve(s, added)
  BY DEF ScopeServeRoute
<1> HIDE DEF added
<1> QED BY <1>1, <1>2, <1>3, ServeFitting

\* scope_impl::serve, of a scope.
LEMMA ScopeServeScopeInv ==
  ASSUME ScopesInv, NEW s \in Scopes, NEW child \in Scopes, ScopeServeScope(s, child), plan' = plan
  PROVE  ScopesInv'
<1> DEFINE added == scopes[child].served
<1>1. added \in Seq(Served)
  BY DEF ScopesInv, ScopeTypes
<1>2. ASSUME NEW k \in DOMAIN added PROVE Fits(added[k])
  <2>1. added[k] \in Kept
    BY DEF Kept, ServedIn
  <2> QED BY <2>1, KeptFit
<1>3. Serve(s, added)
  BY DEF ScopeServeScope
<1> HIDE DEF added
<1> QED BY <1>1, <1>2, <1>3, ServeFitting

\* The server gets routes that fit.
LEMMA OpenFitting ==
  ASSUME ScopesInv, NEW more \in Seq(Served), server' = server \o more,
         UNCHANGED <<heap, routes, scopes, said, plan>>, \A k \in DOMAIN more : Fits(more[k])
  PROVE  ScopesInv'
<1>1. /\ server \in Seq(Served)
      /\ scopes \in [Scopes -> [map : Nat, mws : Seq(Marks), served : Seq(Served)]]
  BY DEF ScopesInv, ScopeTypes
<1>2. /\ server' \in Seq(Served) /\ DOMAIN server' = 1..(Len(server) + Len(more))
      /\ Len(server) \in Nat /\ Len(more) \in Nat
      /\ DOMAIN server = 1..Len(server) /\ DOMAIN more = 1..Len(more)
  BY <1>1
<1>3. ASSUME NEW route \in Kept' PROVE Fits(route)
  <2>1. CASE route \in Opened'
    <3>1. PICK k \in DOMAIN server' : route = server'[k]
      BY <2>1 DEF Opened
    <3>2. CASE k <= Len(server)
      <4>1. k \in DOMAIN server /\ route = server[k]
        BY <1>1, <1>2, <3>1, <3>2
      <4>2. route \in Kept
        BY <4>1 DEF Kept, Opened
      <4> QED BY <4>2, KeptFit
    <3>3. CASE ~ k <= Len(server)
      <4>1. k - Len(server) \in DOMAIN more /\ route = more[k - Len(server)]
        BY <1>1, <1>2, <3>1, <3>3
      <4> QED BY <4>1
    <3> QED BY <3>2, <3>3
  <2>2. CASE route \notin Opened'
    <3>1. route \in Kept
      BY <2>2 DEF Kept, ServedIn
    <3> QED BY <3>1, KeptFit
  <2> QED BY <2>1, <2>2
<1> QED BY <1>1, <1>2, <1>3, KeptGrows

\* http_server_builder::serve, of a route.
LEMMA ServerServeRouteInv ==
  ASSUME ScopesInv, NEW r \in Routes, ServerServeRoute(r), plan' = plan
  PROVE  ScopesInv'
<1> DEFINE placed == Placed(r)
           more == <<placed>>
<1>1. Fits(placed) /\ placed \in Served /\ server \in Seq(Served)
  BY PlacedFits DEF Fits, ScopesInv, ScopeTypes
<1>2. server' = Append(server, placed) /\ UNCHANGED <<heap, routes, scopes, said>>
  BY DEF ServerServeRoute
<1> HIDE DEF placed
<1>3. /\ more \in Seq(Served) /\ \A k \in DOMAIN more : more[k] = placed
      /\ server' = server \o more
  BY <1>1, <1>2
<1> HIDE DEF more
<1> QED BY <1>1, <1>2, <1>3, OpenFitting

\* http_server_builder::serve, of a scope.
LEMMA ServerServeScopeInv ==
  ASSUME ScopesInv, NEW s \in Scopes, ServerServeScope(s), plan' = plan
  PROVE  ScopesInv'
<1> DEFINE served == scopes[s].served
           more == Accepted(served)
<1>1. served \in Seq(Served)
  BY DEF ScopesInv, ScopeTypes
<1>2. server' = server \o more /\ UNCHANGED <<heap, routes, scopes, said>>
  BY DEF ServerServeScope
<1> HIDE DEF served
<1>3. /\ more \in Seq(Served)
      /\ \A k \in DOMAIN more : k \in DOMAIN served /\ more[k] = served[k]
  BY <1>1, AcceptedIs
<1> HIDE DEF more
<1>4. ASSUME NEW k \in DOMAIN more PROVE Fits(more[k])
  <2>1. more[k] \in ServedIn(s)
    BY <1>3 DEF ServedIn, served
  <2>2. more[k] \in Kept
    BY <2>1 DEF Kept
  <2> QED BY <2>2, KeptFit
<1> QED BY <1>2, <1>3, <1>4, OpenFitting
-----------------------------------------------------------------------------
(* The program.                                                            *)

\* Finitely many scopes have a map each.
LEMMA MapOfIs ==
  MapOf \in [Scopes -> 1..Cardinality(Scopes)] /\ \A s, t \in Scopes : MapOf[s] = MapOf[t] => s = t
<1>1. ExistsBijection(1..Cardinality(Scopes), Scopes)
  BY PlacesAssumption, FS_CardinalityType
<1>2. ExistsBijection(Scopes, 1..Cardinality(Scopes))
  BY <1>1, Fun_ExistsBijSymmetric
<1>3. \E f \in [Scopes -> 1..Cardinality(Scopes)] : \A s, t \in Scopes : f[s] = f[t] => s = t
  <2> DEFINE N == 1..Cardinality(Scopes)
  <2>1. PICK f : f \in Bijection(Scopes, N)
    BY <1>2 DEF ExistsBijection
  <2> HIDE DEF N
  <2>2. f \in [Scopes -> N] /\ \A s, t \in Scopes : f[s] = f[t] => s = t
    BY <2>1, Fun_BijectionProperties, Zenon
  <2> QED BY <2>2 DEF N
<1> QED BY <1>3 DEF MapOf

\* A new server.
LEMMA ScopesInvInit ==
  ASSUME ScopesInit
  PROVE  ScopesInv
<1> DEFINE n == Cardinality(Scopes)
<1>1. n \in Nat
  BY PlacesAssumption, FS_CardinalityType
<1>2. MapOf \in [Scopes -> 1..n] /\ \A s, t \in Scopes : MapOf[s] = MapOf[t] => s = t
  BY MapOfIs
<1> HIDE DEF n
<1>3. /\ heap = [k \in 1..n |-> Blank]
      /\ routes = [r \in Routes |-> [maps |-> << >>, mws |-> << >>, home |-> << >>]]
      /\ scopes = [s \in Scopes |-> [map |-> MapOf[s], mws |-> << >>, served |-> << >>]]
      /\ server = << >> /\ said = [p \in Places |-> [t \in Types |-> 0]]
  BY DEF ScopesInit, n
<1>4. Blank \in [Types -> States]
  BY DEF Blank, States
<1>5. heap \in Seq([Types -> States]) /\ Len(heap) = n /\ \A k \in 1..n : heap[k] = Blank
  <2> DEFINE T == [Types -> States]
  <2>1. Blank \in T
    BY <1>4
  <2> HIDE DEF T
  <2>2. heap \in Seq(T) /\ Len(heap) = n /\ \A k \in 1..n : heap[k] = Blank
    BY <1>1, <1>3, <2>1
  <2> QED BY <2>2 DEF T
<1>6. << >> \in Seq(Nat) /\ << >> \in Seq(Marks) /\ << >> \in Seq(Served)
  BY EmptySeq
<1>7. ScopeTypes
  <2>1. routes \in [Routes -> [maps : Seq(Nat), mws : Seq(Marks), home : {<< >>}]]
    BY <1>3, <1>6
  <2>2. scopes \in [Scopes -> [map : Nat, mws : Seq(Marks), served : Seq(Served)]]
    <3>1. \A s \in Scopes : MapOf[s] \in Nat
      BY <1>1, <1>2
    <3> QED BY <1>3, <1>6, <3>1
  <2>3. said \in [Places -> [Types -> 0..MaxSaid]]
    BY <1>3, PlacesAssumption
  <2> QED BY <1>3, <1>5, <1>6, <2>1, <2>2, <2>3 DEF ScopeTypes
<1>8. \A r \in Routes : MapAt[r] = 0 /\ r \in Places
  BY <1>3, PlacesAssumption DEF MapAt, Places
<1>9. \A s \in Scopes : MapAt[s] = MapOf[s] /\ MapAt[s] \in 1..n /\ s \in Places
  BY <1>2, <1>3 DEF MapAt, Places
<1>10. \A p \in Places : ~HasSaid(p)
  BY <1>3 DEF HasSaid
<1>11. MapsAreOwn
  <2>1. \A p, q \in Places : MapAt[p] # 0 /\ MapAt[p] = MapAt[q] => p = q
    BY <1>1, <1>2, <1>8, <1>9 DEF Places
  <2>2. \A p \in Places : MapAt[p] \in 0..Len(heap)
    BY <1>1, <1>5, <1>8, <1>9 DEF Places
  <2>3. \A s \in Scopes : MapAt[s] # 0
    BY <1>1, <1>9
  <2>4. \A r \in Routes : routes[r].maps = << >> /\ Len(<< >>) = 0
    BY <1>3
  <2>5. \A r \in Routes : OneMap(r)
    BY <1>8, <1>10, <2>4 DEF OneMap
  <2> QED BY <2>1, <2>2, <2>3, <2>5 DEF MapsAreOwn
<1>12. MapsSay
  <2> SUFFICES ASSUME NEW p \in Places, NEW t \in Types, MapAt[p] # 0
               PROVE  heap[MapAt[p]][t] = LastSaid(p, t)
    BY DEF MapsSay
  <2>1. MapAt[p] \in 1..n
    BY <1>8, <1>9 DEF Places
  <2> QED BY <1>3, <1>5, <2>1 DEF LastSaid, Blank
<1>13. Kept = {}
  BY <1>3 DEF Kept, Opened, ServedIn
<1> QED BY <1>7, <1>11, <1>12, <1>13 DEF ScopesInv, Onions, Chains

\* A step of the program that builds the server.
LEMMA BuildInv ==
  ASSUME ScopesInv, plan \in Plans, Build, plan' = plan
  PROVE  ScopesInv'
<1>1. CASE Bind
  <2>1. \A t \in plan.states : t \in Types
    BY PlansAssumption
  <2>2. CASE \E r \in Routes, t \in plan.states, kept \in BOOLEAN :
               said[r][t] < plan.says /\ RouteUseState(r, t, kept)
    BY <2>1, <2>2, RouteUseStateInv
  <2>3. CASE \E s \in Scopes, t \in plan.states :
               plan.nests # {} /\ said[s][t] < plan.says /\ ScopeUseState(s, t)
    BY <2>1, <2>3, ScopeUseStateInv
  <2> QED BY <1>1, <2>2, <2>3 DEF Bind
<1>2. CASE Mount
  <2>1. CASE \E r \in Routes, mw \in plan.mounts :
               Len(routes[r].mws) < plan.chain /\ RouteUse(r, mw)
    BY <2>1, RouteUseInv
  <2>2. ASSUME NEW s \in Scopes, \E mw \in plan.mounts :
                 plan.nests # {} /\ Len(scopes[s].mws) < plan.chain /\ ScopeUse(s, mw)
        PROVE  ScopesInv'
    BY <2>2, ScopeUseInv
  <2>3. ASSUME NEW s \in Scopes, \E r \in Routes : <<r, s>> \in plan.nests /\ ScopeServeRoute(s, r)
        PROVE  ScopesInv'
    BY <2>3, ScopeServeRouteInv
  <2>4. ASSUME NEW s \in Scopes, \E child \in Scopes :
                 <<child, s>> \in plan.nests /\ ScopeServeScope(s, child)
        PROVE  ScopesInv'
    BY <2>4, ScopeServeScopeInv
  <2> QED BY <1>2, <2>1, <2>2, <2>3, <2>4 DEF Mount
<1>3. CASE Open
  BY <1>3, ServerServeRouteInv, ServerServeScopeInv DEF Open
<1> QED BY <1>1, <1>2, <1>3 DEF Build

\* What else happens leaves the scopes alone.
LEMMA ScopesAlone ==
  ASSUME ScopesInv, UNCHANGED <<scopeVars, plan>>
  PROVE  ScopesInv'
<1>1. /\ heap' = heap /\ routes' = routes /\ scopes' = scopes
      /\ server' = server /\ said' = said /\ plan' = plan
  BY DEF scopeVars
<1>2. /\ server \in Seq(Served)
      /\ scopes \in [Scopes -> [map : Nat, mws : Seq(Marks), served : Seq(Served)]]
  BY DEF ScopesInv, ScopeTypes
<1>3. Kept' = Kept
  BY <1>1 DEF Kept, Opened, ServedIn
<1>4. \A route \in Kept' : Fits(route)
  BY <1>3, KeptFit
<1> QED BY <1>1, <1>2, <1>4, KeptGrows

\* Every step.
LEMMA ScopesStep ==
  ASSUME ScopesInv, plan \in Plans, [Next]_vars
  PROVE  ScopesInv' /\ plan' \in Plans
<1>1. CASE Build /\ UNCHANGED <<handlingVars, plan>>
  BY <1>1, BuildInv
<1>2. CASE UNCHANGED <<scopeVars, plan>>
  BY <1>2, ScopesAlone
<1>3. CASE UNCHANGED vars
  BY <1>3, ScopesAlone DEF vars
<1> QED BY <1>1, <1>2, <1>3 DEF Next

\* The invariant holds in every behaviour.
LEMMA ScopesAlways == Spec => [](ScopesInv /\ plan \in Plans)
<1>1. Init => ScopesInv /\ plan \in Plans
  BY ScopesInvInit DEF Init
<1>2. (ScopesInv /\ plan \in Plans) /\ [Next]_vars => (ScopesInv /\ plan \in Plans)'
  BY ScopesStep
<1> QED BY <1>1, <1>2, PTL DEF Spec

\* A route of the server fits.
LEMMA ServedFits ==
  ASSUME ScopesInv, NEW k \in DOMAIN server
  PROVE  Fits(server[k])
<1>1. server[k] \in Kept
  BY DEF Kept, Opened
<1> QED BY <1>1, KeptFit

\* A route of the server finds the nearest states.
LEMMA NearestHolds == ASSUME ScopesInv PROVE NearestState
<1> SUFFICES ASSUME NEW k \in DOMAIN server, NEW t \in Types
             PROVE  Found(server[k].maps, t) = Nearest(server[k], t)
  BY DEF NearestState
<1>1. Fits(server[k])
  BY ServedFits
<1> DEFINE route == server[k]
<1>2. route \in Served /\ Threaded(route, MapAt)
  BY <1>1 DEF Fits
<1> HIDE DEF route
<1>3. Found(route.maps, t) = Nearest(route, t)
  BY <1>2, FindsNearest DEF ScopesInv
<1> QED BY <1>3 DEF route

\* Whatever the program bound, copied and put into one another, a route finds
\* the state that was last bound in the nearest place that has one.
THEOREM StatesAreNearest == Spec => []NearestState
BY NearestHolds, ScopesAlways, PTL

\* Around a route are the middlewares that the places it was put into had then,
\* the outermost place's first, and nothing else.
THEOREM OnionsHold == Spec => []OnionOrder
<1>1. ScopesInv => OnionOrder
  <2> SUFFICES ASSUME ScopesInv, NEW k \in DOMAIN server
               PROVE  server[k].mws = FlattenSeq(Reverse(
                        [j \in DOMAIN server[k].home |->
                           SubSeq(MountedIn(server[k].home[j].at), 1, server[k].home[j].used)]))
    BY DEF OnionOrder
  <2> DEFINE route == server[k]
             home == route.home
  <2>1. Layered(route, MountedAt) /\ route \in Served
    BY ServedFits DEF Fits
  <2> HIDE DEF route
  <2>2. \A j \in DOMAIN home : home[j].at \in Places
    <3>1. home \in Seq(Stops)
      BY <2>1 DEF Served
    <3> HIDE DEF home
    <3>2. \A j \in DOMAIN home : home[j] \in Stops
      BY <3>1
    <3> QED BY <3>2 DEF Stops
  <2>3. \A j \in DOMAIN home : MountedAt[home[j].at] = MountedIn(home[j].at)
    BY <2>2 DEF MountedAt
  <2>4. Layers(route, MountedAt)
          = [j \in DOMAIN home |-> SubSeq(MountedIn(home[j].at), 1, home[j].used)]
    BY <2>3 DEF Layers
  <2> QED BY <2>1, <2>4 DEF Layered, route
<1> QED BY <1>1, ScopesAlways, PTL
-----------------------------------------------------------------------------
(* Maps of parameters.                                                     *)

\* The map that QueryFrom folds, after each of the parameters.
Maps == UNION {[names -> STRING] : names \in SUBSET STRING}
QuerySteps(F, params) ==
  /\ F[0] = NoParams /\ QueryFrom(params) = F[Len(params)]
  /\ \A k \in 1..Len(params) :
       F[k] = IF params[k].has THEN Bound(F[k - 1], params[k].name, params[k].value)
              ELSE F[k - 1]
FormSteps(F, params) ==
  /\ F[0] = NoParams /\ FormFrom(params) = F[Len(params)]
  /\ \A k \in 1..Len(params) :
       F[k] = IF params[k].has THEN SetParam(F[k - 1], params[k].name, params[k].value)
              ELSE F[k - 1]

\* A parameter more makes another map.
LEMMA MapsClosed ==
  /\ NoParams \in Maps
  /\ \A m \in Maps, name \in STRING, value \in STRING :
       Bound(m, name, value) \in Maps /\ SetParam(m, name, value) \in Maps
<1>1. NoParams \in [{} -> STRING]
  BY DEF NoParams
<1>2. {} \in SUBSET STRING
  OBVIOUS
<1>3. NoParams \in Maps
  BY <1>1, <1>2 DEF Maps
<1>4. ASSUME NEW m \in Maps, NEW name \in STRING, NEW value \in STRING
      PROVE  Bound(m, name, value) \in Maps
  <2>1. PICK names \in SUBSET STRING : m \in [names -> STRING]
    BY DEF Maps
  <2> DEFINE more == names \cup {name}
  <2>2. Bound(m, name, value) \in [more -> STRING]
    BY <2>1 DEF Bound
  <2>3. more \in SUBSET STRING
    BY <2>1
  <2> HIDE DEF more
  <2> QED BY <2>2, <2>3 DEF Maps
<1> QED BY <1>3, <1>4 DEF SetParam

\* It can be folded from the left.
LEMMA QueryFolds ==
  ASSUME NEW params \in Params
  PROVE  \E F : QuerySteps(F, params)
<1> DEFINE n == Len(params)
           G == [k \in 1..n |->
                  [m \in Maps |-> IF params[k].has THEN Bound(m, params[k].name, params[k].value)
                                  ELSE m]]
<1>1. /\ n \in Nat /\ DOMAIN params = 1..n
      /\ \A k \in 1..n : params[k].name \in STRING /\ params[k].value \in STRING
  <2> DEFINE R == [name : STRING, has : BOOLEAN, value : STRING]
  <2>1. params \in Seq(R)
    BY DEF Params
  <2>2. \A p \in R : p.name \in STRING /\ p.value \in STRING
    OBVIOUS
  <2> HIDE DEF R
  <2>3. n \in Nat /\ DOMAIN params = 1..n /\ \A k \in 1..n : params[k] \in R
    BY <2>1
  <2> QED BY <2>2, <2>3
<1>2. G \in [1..n -> [Maps -> Maps]]
  BY <1>1, MapsClosed
<1> DEFINE Folds(f) == f = [s \in SUBSET (1..n) |->
                              IF s = {} THEN NoParams
                              ELSE IF params[Max(s)].has
                                     THEN Bound(f[s \ {Max(s)}], params[Max(s)].name,
                                                params[Max(s)].value)
                                     ELSE f[s \ {Max(s)}]]
<1>3. \E f : Folds(f)
  <2>1. NoParams \in Maps
    BY MapsClosed
  <2> HIDE DEF G, n
  <2>0. n \in Nat
    BY <1>1
  <2>4. PICK f : IsFold(f, Maps, NoParams, n, G)
    BY <1>2, <2>0, <2>1, FoldExists
  <2>2. /\ f \in [SUBSET (1..n) -> Maps]
        /\ \A s \in SUBSET (1..n) :
             /\ s # {} => Max(s) \in s
             /\ f[s] = IF s = {} THEN NoParams ELSE G[Max(s)][f[s \ {Max(s)}]]
    BY <2>4 DEF IsFold
  <2>3. ASSUME NEW s \in SUBSET (1..n), s # {}
        PROVE  G[Max(s)][f[s \ {Max(s)}]]
                 = IF params[Max(s)].has
                     THEN Bound(f[s \ {Max(s)}], params[Max(s)].name, params[Max(s)].value)
                     ELSE f[s \ {Max(s)}]
    <3>1. Max(s) \in 1..n /\ f[s \ {Max(s)}] \in Maps
      BY <2>2, <2>3
    <3> DEFINE x == Max(s)
               y == f[s \ {Max(s)}]
    <3> HIDE DEF x, y
    <3>2. G[x][y] = IF params[x].has THEN Bound(y, params[x].name, params[x].value) ELSE y
      BY <3>1 DEF G, x, y
    <3> QED BY <3>2 DEF x, y
  <2>5. Folds(f)
    BY <2>2, <2>3
  <2> QED BY <2>5
<1> DEFINE h == CHOOSE f : Folds(f)
<1>4. QueryFrom(params) = h[1..n]
  <2> HIDE DEF n
  <2>1. QueryFrom(params) = h[DOMAIN params]
    BY <1>1 DEF QueryFrom, FoldLeft, MapThenFoldSet
  <2> QED BY <1>1, <2>1
<1>5. Folds(h)
  <2> HIDE DEF Folds
  <2> QED BY <1>3
<1> DEFINE F == [k \in 0..n |-> h[1..k]]
<1> HIDE DEF n, h, G
<1>6. F[0] = NoParams /\ QueryFrom(params) = F[n]
  <2>1. 0 \in 0..n /\ n \in 0..n /\ 1..0 = {} /\ 1..0 \in SUBSET (1..n)
    BY <1>1
  <2>2. h[1..0] = NoParams
    BY <1>5, <2>1
  <2> QED BY <1>4, <2>1, <2>2
<1>7. ASSUME NEW k \in 1..n
      PROVE  F[k] = IF params[k].has THEN Bound(F[k - 1], params[k].name, params[k].value)
                    ELSE F[k - 1]
  <2> DEFINE s == 1..k
  <2>1. k \in Nat /\ k # 0 /\ s \in SUBSET (1..n) /\ k - 1 \in 0..n /\ k \in 0..n
    BY <1>1
  <2>2. Max(s) = k /\ s \ {k} = 1..(k - 1) /\ s # {}
    BY <2>1, MaxUpTo
  <2>3. h[s] = IF params[k].has THEN Bound(h[s \ {k}], params[k].name, params[k].value)
               ELSE h[s \ {k}]
    <3> HIDE DEF s
    <3>1. h[s] = IF s = {} THEN NoParams
                 ELSE IF params[Max(s)].has
                        THEN Bound(h[s \ {Max(s)}], params[Max(s)].name, params[Max(s)].value)
                        ELSE h[s \ {Max(s)}]
      BY <1>5, <2>1
    <3> QED BY <2>2, <3>1
  <2>4. F[k] = h[s] /\ F[k - 1] = h[1..(k - 1)]
    BY <2>1
  <2> HIDE DEF s, F
  <2> QED BY <2>2, <2>3, <2>4
<1> QED BY <1>6, <1>7 DEF QuerySteps, n

\* The same of a form.
LEMMA FormFolds ==
  ASSUME NEW params \in Params
  PROVE  \E F : FormSteps(F, params)
<1> DEFINE n == Len(params)
           G == [k \in 1..n |->
                  [m \in Maps |-> IF params[k].has THEN SetParam(m, params[k].name, params[k].value)
                                  ELSE m]]
<1>1. /\ n \in Nat /\ DOMAIN params = 1..n
      /\ \A k \in 1..n : params[k].name \in STRING /\ params[k].value \in STRING
  <2> DEFINE R == [name : STRING, has : BOOLEAN, value : STRING]
  <2>1. params \in Seq(R)
    BY DEF Params
  <2>2. \A p \in R : p.name \in STRING /\ p.value \in STRING
    OBVIOUS
  <2> HIDE DEF R
  <2>3. n \in Nat /\ DOMAIN params = 1..n /\ \A k \in 1..n : params[k] \in R
    BY <2>1
  <2> QED BY <2>2, <2>3
<1>2. G \in [1..n -> [Maps -> Maps]]
  BY <1>1, MapsClosed
<1> DEFINE Folds(f) == f = [s \in SUBSET (1..n) |->
                              IF s = {} THEN NoParams
                              ELSE IF params[Max(s)].has
                                     THEN SetParam(f[s \ {Max(s)}], params[Max(s)].name,
                                                params[Max(s)].value)
                                     ELSE f[s \ {Max(s)}]]
<1>3. \E f : Folds(f)
  <2>1. NoParams \in Maps
    BY MapsClosed
  <2> HIDE DEF G, n
  <2>0. n \in Nat
    BY <1>1
  <2>4. PICK f : IsFold(f, Maps, NoParams, n, G)
    BY <1>2, <2>0, <2>1, FoldExists
  <2>2. /\ f \in [SUBSET (1..n) -> Maps]
        /\ \A s \in SUBSET (1..n) :
             /\ s # {} => Max(s) \in s
             /\ f[s] = IF s = {} THEN NoParams ELSE G[Max(s)][f[s \ {Max(s)}]]
    BY <2>4 DEF IsFold
  <2>3. ASSUME NEW s \in SUBSET (1..n), s # {}
        PROVE  G[Max(s)][f[s \ {Max(s)}]]
                 = IF params[Max(s)].has
                     THEN SetParam(f[s \ {Max(s)}], params[Max(s)].name, params[Max(s)].value)
                     ELSE f[s \ {Max(s)}]
    <3>1. Max(s) \in 1..n /\ f[s \ {Max(s)}] \in Maps
      BY <2>2, <2>3
    <3> DEFINE x == Max(s)
               y == f[s \ {Max(s)}]
    <3> HIDE DEF x, y
    <3>2. G[x][y] = IF params[x].has THEN SetParam(y, params[x].name, params[x].value) ELSE y
      BY <3>1 DEF G, x, y
    <3> QED BY <3>2 DEF x, y
  <2>5. Folds(f)
    BY <2>2, <2>3
  <2> QED BY <2>5
<1> DEFINE h == CHOOSE f : Folds(f)
<1>4. FormFrom(params) = h[1..n]
  <2> HIDE DEF n
  <2>1. FormFrom(params) = h[DOMAIN params]
    BY <1>1 DEF FormFrom, FoldLeft, MapThenFoldSet
  <2> QED BY <1>1, <2>1
<1>5. Folds(h)
  <2> HIDE DEF Folds
  <2> QED BY <1>3
<1> DEFINE F == [k \in 0..n |-> h[1..k]]
<1> HIDE DEF n, h, G
<1>6. F[0] = NoParams /\ FormFrom(params) = F[n]
  <2>1. 0 \in 0..n /\ n \in 0..n /\ 1..0 = {} /\ 1..0 \in SUBSET (1..n)
    BY <1>1
  <2>2. h[1..0] = NoParams
    BY <1>5, <2>1
  <2> QED BY <1>4, <2>1, <2>2
<1>7. ASSUME NEW k \in 1..n
      PROVE  F[k] = IF params[k].has THEN SetParam(F[k - 1], params[k].name, params[k].value)
                    ELSE F[k - 1]
  <2> DEFINE s == 1..k
  <2>1. k \in Nat /\ k # 0 /\ s \in SUBSET (1..n) /\ k - 1 \in 0..n /\ k \in 0..n
    BY <1>1
  <2>2. Max(s) = k /\ s \ {k} = 1..(k - 1) /\ s # {}
    BY <2>1, MaxUpTo
  <2>3. h[s] = IF params[k].has THEN SetParam(h[s \ {k}], params[k].name, params[k].value)
               ELSE h[s \ {k}]
    <3> HIDE DEF s
    <3>1. h[s] = IF s = {} THEN NoParams
                 ELSE IF params[Max(s)].has
                        THEN SetParam(h[s \ {Max(s)}], params[Max(s)].name, params[Max(s)].value)
                        ELSE h[s \ {Max(s)}]
      BY <1>5, <2>1
    <3> QED BY <2>2, <3>1
  <2>4. F[k] = h[s] /\ F[k - 1] = h[1..(k - 1)]
    BY <2>1
  <2> HIDE DEF s, F
  <2> QED BY <2>2, <2>3, <2>4
<1> QED BY <1>6, <1>7 DEF FormSteps, n
-----------------------------------------------------------------------------
(* Taking codings off.                                                     *)

\* The stream that TakenOff folds, after each of the codings.
Coded(stream, c) == IF c = "identity" THEN stream ELSE Decoding(stream, c)
TakenSteps(F, tokens) ==
  /\ F[0] = req.body /\ TakenOff(tokens) = F[Len(tokens)]
  /\ \A k \in 1..Len(tokens) : F[k] = Coded(F[k - 1], Reverse(tokens)[k])

\* A decoder more makes another stream.
LEMMA CodedStream == ASSUME NEW stream \in Streams, NEW c PROVE Coded(stream, c) \in Streams
<1> DEFINE C == ToSet(sent.codings)
           cs == stream.codings
<1>1. cs \in Seq(C)
  BY DEF Streams
<1>2. cs # << >> => Front(cs) \in Seq(C)
  <2> HIDE DEF C, cs
  <2> QED BY <1>1 DEF Front
<1> HIDE DEF C
<1>3. Decoding(stream, c) \in Streams
  BY <1>2 DEF Streams, Decoding, C
<1> QED BY <1>3 DEF Coded

\* What takes codings off a body does so one after the other, the last first.
LEMMA TakenFolds ==
  ASSUME req.body \in Streams, NEW T, NEW tokens \in Seq(T)
  PROVE  \E F : TakenSteps(F, tokens)
<1> DEFINE n == Len(tokens)
           q == Reverse(tokens)
           G == [k \in 1..n |-> [m \in Streams |-> Coded(m, q[k])]]
<1>1. n \in Nat /\ DOMAIN q = 1..n
  BY DEF Reverse
<1>2. G \in [1..n -> [Streams -> Streams]]
  BY CodedStream
<1> DEFINE Folds(f) == f = [s \in SUBSET (1..n) |->
                              IF s = {} THEN req.body
                              ELSE Coded(f[s \ {Max(s)}], q[Max(s)])]
<1>3. \E f : Folds(f)
  <2>1. n \in Nat
    BY <1>1
  <2> HIDE DEF G, n, q
  <2>2. PICK f : IsFold(f, Streams, req.body, n, G)
    BY <1>2, <2>1, FoldExists
  <2>3. /\ f \in [SUBSET (1..n) -> Streams]
        /\ \A s \in SUBSET (1..n) :
             /\ s # {} => Max(s) \in s
             /\ f[s] = IF s = {} THEN req.body ELSE G[Max(s)][f[s \ {Max(s)}]]
    BY <2>2 DEF IsFold
  <2>4. ASSUME NEW s \in SUBSET (1..n), s # {}
        PROVE  G[Max(s)][f[s \ {Max(s)}]] = Coded(f[s \ {Max(s)}], q[Max(s)])
    <3>1. Max(s) \in 1..n /\ f[s \ {Max(s)}] \in Streams
      BY <2>3, <2>4
    <3> DEFINE x == Max(s)
               y == f[s \ {Max(s)}]
    <3> HIDE DEF x, y
    <3>2. G[x][y] = Coded(y, q[x])
      BY <3>1 DEF G, x, y
    <3> QED BY <3>2 DEF x, y
  <2>5. Folds(f)
    BY <2>3, <2>4
  <2> QED BY <2>5
<1> DEFINE h == CHOOSE f : Folds(f)
<1>4. TakenOff(tokens) = h[1..n]
  <2> HIDE DEF n
  <2>1. TakenOff(tokens) = h[DOMAIN q]
    BY <1>1 DEF TakenOff, Coded, FoldLeft, MapThenFoldSet
  <2> QED BY <1>1, <2>1
<1>5. Folds(h)
  <2> HIDE DEF Folds
  <2> QED BY <1>3
<1> DEFINE F == [k \in 0..n |-> h[1..k]]
<1> HIDE DEF n, h, G, q
<1>6. F[0] = req.body /\ TakenOff(tokens) = F[n]
  <2>1. 0 \in 0..n /\ n \in 0..n /\ 1..0 = {} /\ 1..0 \in SUBSET (1..n)
    BY <1>1
  <2>2. h[1..0] = req.body
    BY <1>5, <2>1
  <2> QED BY <1>4, <2>1, <2>2
<1>7. ASSUME NEW k \in 1..n PROVE F[k] = Coded(F[k - 1], q[k])
  <2> DEFINE s == 1..k
  <2>1. k \in Nat /\ k # 0 /\ s \in SUBSET (1..n) /\ k - 1 \in 0..n /\ k \in 0..n
    BY <1>1
  <2>2. Max(s) = k /\ s \ {k} = 1..(k - 1) /\ s # {}
    BY <2>1, MaxUpTo
  <2>3. h[s] = Coded(h[s \ {k}], q[k])
    <3> HIDE DEF s
    <3>1. h[s] = IF s = {} THEN req.body ELSE Coded(h[s \ {Max(s)}], q[Max(s)])
      BY <1>5, <2>1
    <3> QED BY <2>2, <3>1
  <2>4. F[k] = h[s] /\ F[k - 1] = h[1..(k - 1)]
    BY <2>1
  <2> HIDE DEF s, F
  <2> QED BY <2>2, <2>3, <2>4
<1> QED BY <1>6, <1>7 DEF TakenSteps, n, q
-----------------------------------------------------------------------------
(* What the maps have of a parameter.                                      *)

\* Some places have a last one.
LEMMA HasMax ==
  ASSUME NEW n \in Nat, NEW T, T \subseteq 1..n, T # {}
  PROVE  \E x \in T : Max(T) = x /\ \A y \in T : y <= x
<1> DEFINE S == {n - y : y \in T}
<1>1. S \subseteq Nat /\ S # {}
  <2>1. \A y \in T : n - y \in Nat
    OBVIOUS
  <2> QED BY <2>1
<1> HIDE DEF S
<1>2. PICK z \in S : \A y \in S : z <= y
  BY <1>1, HasMin
<1> USE DEF S
<1>3. PICK x \in T : z = n - x
  OBVIOUS
<1>4. \A y \in T : y <= x
  <2> SUFFICES ASSUME NEW y \in T PROVE y <= x
    OBVIOUS
  <2>1. n - y \in S
    OBVIOUS
  <2>2. z <= n - y
    BY <1>2, <2>1
  <2> HIDE DEF S
  <2> QED BY <1>3, <2>2
<1>5. T \subseteq Nat
  OBVIOUS
<1> HIDE DEF S
<1>6. Max(T) = x
  BY <1>4, <1>5, MaxIs
<1> QED BY <1>4, <1>6

\* A parameter that is named "a" and has a value.
IsA(p) == p.name = "a" /\ p.has

\* The parameters named a that a list has, and the first and the last of them.
LEMMA OfAIs ==
  ASSUME NEW params \in Params
  PROVE  /\ OfA(params) = {k \in 1..Len(params) : IsA(params[k])}
         /\ Len(params) \in Nat
         /\ OfA(params) # {} => /\ Max(OfA(params)) \in OfA(params)
                                /\ \A k \in OfA(params) : k <= Max(OfA(params))
                                /\ Min(OfA(params)) \in OfA(params)
                                /\ \A k \in OfA(params) : Min(OfA(params)) <= k
<1> DEFINE A == OfA(params)
           n == Len(params)
<1>1. n \in Nat /\ A = {k \in 1..n : IsA(params[k])}
  <2>1. n \in Nat /\ DOMAIN params = 1..n
    BY DEF Params
  <2> HIDE DEF n
  <2> QED BY <2>1 DEF OfA, IsA
<1> HIDE DEF n, A
<1>2. ASSUME A # {} PROVE Max(A) \in A /\ \A k \in A : k <= Max(A)
  <2>1. n \in Nat /\ A \subseteq 1..n
    BY <1>1
  <2> QED BY <1>2, <2>1, HasMax
<1>3. ASSUME A # {} PROVE Min(A) \in A /\ \A k \in A : Min(A) <= k
  <2>1. A \subseteq Nat
    BY <1>1
  <2>2. PICK x \in A : \A y \in A : x <= y
    BY <1>3, <2>1, HasMin
  <2>3. Min(A) = x
    BY <2>1, <2>2, MinIs
  <2> QED BY <2>2, <2>3
<1> QED BY <1>1, <1>2, <1>3 DEF n, A

\* The map of a query has the last value of "a".
LEMMA QueryIs ==
  ASSUME NEW params \in Params
  PROVE  /\ "a" \in DOMAIN QueryFrom(params) <=> OfA(params) # {}
         /\ OfA(params) # {} => QueryFrom(params)["a"] = params[Max(OfA(params))].value
         /\ params = << >> => QueryFrom(params) = NoParams
<1> DEFINE n == Len(params)
           S(k) == {j \in 1..k : IsA(params[j])}
           A == OfA(params)
<1>1. PICK F : QuerySteps(F, params)
  BY QueryFolds
<1>2. /\ F[0] = NoParams /\ QueryFrom(params) = F[n]
      /\ \A k \in 1..n :
           F[k] = IF params[k].has THEN Bound(F[k - 1], params[k].name, params[k].value)
                  ELSE F[k - 1]
  BY <1>1 DEF QuerySteps
<1>3. n \in Nat /\ A = S(n) /\ (params = << >> => n = 0)
  BY OfAIs
<1>4. A # {} => Max(A) \in A /\ \A k \in A : k <= Max(A)
  BY OfAIs
<1> HIDE DEF n, A
<1> DEFINE Says(k) == /\ "a" \in DOMAIN F[k] <=> S(k) # {}
                      /\ \A j \in S(k) : (\A i \in S(k) : i <= j) =>
                           F[k]["a"] = params[j].value
           P == {k \in Nat : Says(k)}
<1>5. 0 \in P
  <2>1. S(0) = {} /\ DOMAIN F[0] = {}
    BY <1>2 DEF NoParams
  <2> HIDE DEF S
  <2> QED BY <2>1
<1>6. ASSUME NEW k \in 0..(n - 1), k \in P PROVE k + 1 \in P
  <2> DEFINE j == k + 1
  <2>1. j \in 1..n /\ j - 1 = k /\ j \in Nat /\ k \in Nat
    BY <1>3
  <2>2. S(j) = IF IsA(params[j]) THEN S(k) \cup {j} ELSE S(k)
    BY <2>1
  <2>3. F[j] = IF params[j].has THEN Bound(F[k], params[j].name, params[j].value) ELSE F[k]
    BY <1>2, <2>1
  <2>4. Says(k) /\ \A i \in S(k) : i < j /\ i \in Nat
    BY <1>6, <2>1
  <2> HIDE DEF j, S
  <2>5. CASE IsA(params[j])
    <3>1. "a" \in DOMAIN F[j] /\ F[j]["a"] = params[j].value
      BY <2>3, <2>5 DEF IsA, Bound
    <3>2. j \in S(j) /\ \A m \in S(j) : m = j \/ (m < j /\ m \in Nat)
      BY <2>2, <2>4, <2>5
    <3>3. \A m \in S(j) : (\A i \in S(j) : i <= m) => m = j
      <4> SUFFICES ASSUME NEW m \in S(j), \A i \in S(j) : i <= m PROVE m = j
        OBVIOUS
      <4>1. j <= m /\ (m = j \/ (m < j /\ m \in Nat))
        BY <3>2
      <4> QED BY <2>1, <4>1
    <3>4. Says(j)
      BY <3>1, <3>2, <3>3
    <3> QED BY <2>1, <3>4 DEF j
  <2>6. CASE ~IsA(params[j])
    <3>1. S(j) = S(k)
      BY <2>2, <2>6
    <3>2. /\ "a" \in DOMAIN F[j] <=> "a" \in DOMAIN F[k]
          /\ "a" \in DOMAIN F[k] => F[j]["a"] = F[k]["a"]
      BY <2>3, <2>6 DEF IsA, Bound
    <3>3. Says(j)
      BY <2>4, <3>1, <3>2
    <3> QED BY <2>1, <3>3 DEF j
  <2> QED BY <2>5, <2>6
<1>7. Says(n)
  <2> HIDE DEF P
  <2>1. \A k \in 0..n : k \in P
    BY <1>3, <1>5, <1>6, SetInduction
  <2>2. n \in P
    BY <1>3, <2>1
  <2> QED BY <2>2 DEF P
<1> HIDE DEF S
<1>8. A # {} => F[n]["a"] = params[Max(A)].value
  BY <1>3, <1>4, <1>7
<1> QED BY <1>2, <1>3, <1>7, <1>8 DEF A

\* The map of a form has the first.
LEMMA FormIs ==
  ASSUME NEW params \in Params
  PROVE  /\ "a" \in DOMAIN FormFrom(params) <=> OfA(params) # {}
         /\ OfA(params) # {} => FormFrom(params)["a"] = params[Min(OfA(params))].value
<1> DEFINE n == Len(params)
           S(k) == {j \in 1..k : IsA(params[j])}
           A == OfA(params)
<1>1. PICK F : FormSteps(F, params)
  BY FormFolds
<1>2. /\ F[0] = NoParams /\ FormFrom(params) = F[n]
      /\ \A k \in 1..n :
           F[k] = IF params[k].has THEN SetParam(F[k - 1], params[k].name, params[k].value)
                  ELSE F[k - 1]
  BY <1>1 DEF FormSteps
<1>3. n \in Nat /\ A = S(n)
  BY OfAIs
<1>4. A # {} => Min(A) \in A /\ \A k \in A : Min(A) <= k
  BY OfAIs
<1> HIDE DEF n, A
<1> DEFINE Says(k) == /\ "a" \in DOMAIN F[k] <=> S(k) # {}
                      /\ \A j \in S(k) : (\A i \in S(k) : j <= i) =>
                           F[k]["a"] = params[j].value
           P == {k \in Nat : Says(k)}
<1>5. 0 \in P
  <2>1. S(0) = {} /\ DOMAIN F[0] = {}
    BY <1>2 DEF NoParams
  <2> HIDE DEF S
  <2> QED BY <2>1
<1>6. ASSUME NEW k \in 0..(n - 1), k \in P PROVE k + 1 \in P
  <2> DEFINE j == k + 1
  <2>1. j \in 1..n /\ j - 1 = k /\ j \in Nat /\ k \in Nat
    BY <1>3
  <2>2. S(j) = IF IsA(params[j]) THEN S(k) \cup {j} ELSE S(k)
    BY <2>1
  <2>3. F[j] = IF params[j].has THEN SetParam(F[k], params[j].name, params[j].value) ELSE F[k]
    BY <1>2, <2>1
  <2>4. Says(k) /\ \A i \in S(k) : i < j /\ i \in Nat
    BY <1>6, <2>1
  <2> HIDE DEF j, S
  <2>5. CASE IsA(params[j]) /\ S(k) = {}
    <3>1. "a" \in DOMAIN F[j] /\ F[j]["a"] = params[j].value
      BY <2>3, <2>4, <2>5 DEF IsA, SetParam, IsIn, Bound
    <3>2. S(j) = {j}
      BY <2>2, <2>5
    <3>3. Says(j)
      BY <3>1, <3>2
    <3> QED BY <2>1, <3>3 DEF j
  <2>6. CASE ~IsA(params[j]) \/ S(k) # {}
    <3>1. /\ "a" \in DOMAIN F[j] <=> "a" \in DOMAIN F[k]
          /\ "a" \in DOMAIN F[k] => F[j]["a"] = F[k]["a"]
      BY <2>3, <2>4, <2>6 DEF IsA, SetParam, IsIn, Bound
    <3>2. \A m \in S(j) : (\A i \in S(j) : m <= i) => m \in S(k) /\ \A i \in S(k) : m <= i
      BY <2>1, <2>2, <2>4, <2>6
    <3>3. S(j) # {} <=> S(k) # {}
      BY <2>2, <2>6
    <3>4. Says(j)
      BY <2>4, <3>1, <3>2, <3>3
    <3> QED BY <2>1, <3>4 DEF j
  <2> QED BY <2>5, <2>6
<1>7. Says(n)
  <2> HIDE DEF P
  <2>1. \A k \in 0..n : k \in P
    BY <1>3, <1>5, <1>6, SetInduction
  <2>2. n \in P
    BY <1>3, <2>1
  <2> QED BY <2>2 DEF P
<1> HIDE DEF S
<1>8. A # {} => F[n]["a"] = params[Min(A)].value
  BY <1>3, <1>4, <1>7
<1> QED BY <1>2, <1>3, <1>7, <1>8 DEF A

\* The codings of the first k tokens.
Tagged(tokens) ==
  [k \in DOMAIN tokens |-> IF tokens[k] = "identity" THEN << >> ELSE <<tokens[k]>>]
CodingsTo(tokens, k) == FlattenSeq(SubSeq(Tagged(tokens), 1, k))

\* Each token names a coding more, but for identity.
LEMMA CodingsNext ==
  ASSUME NEW T, NEW tokens \in Seq(T)
  PROVE  /\ CodingsTo(tokens, 0) = << >> /\ CodingsTo(tokens, Len(tokens)) = Codings(tokens)
         /\ \A k \in 1..Len(tokens) :
              /\ CodingsTo(tokens, k) = CodingsTo(tokens, k - 1)
                                          \o (IF tokens[k] = "identity" THEN << >> ELSE <<tokens[k]>>)
              /\ CodingsTo(tokens, k - 1) \in Seq(T)
<1> DEFINE s == Tagged(tokens)
           n == Len(tokens)
<1>1. /\ n \in Nat /\ s \in Seq(Seq(T)) /\ Len(s) = n
      /\ \A k \in 1..n : s[k] = IF tokens[k] = "identity" THEN << >> ELSE <<tokens[k]>>
  <2>1. n \in Nat /\ DOMAIN tokens = 1..n /\ \A k \in 1..n : tokens[k] \in T
    OBVIOUS
  <2> HIDE DEF n
  <2>2. s \in [1..n -> Seq(T)]
    BY <2>1 DEF Tagged
  <2>3. s \in Seq(Seq(T)) /\ Len(s) = n
    <3> HIDE DEF s
    <3> DEFINE U == Seq(T)
    <3> HIDE DEF U
    <3>1. s \in [1..n -> U]
      BY <2>2 DEF U
    <3>2. s \in Seq(U) /\ Len(s) = n
      BY <2>1, <3>1
    <3> QED BY <3>2 DEF U
  <2> QED BY <2>1, <2>3 DEF Tagged
<1>2. SubSeq(s, 1, 0) = << >> /\ SubSeq(s, 1, n) = s
  <2> HIDE DEF s, n
  <2>1. SubSeq(s, 1, Len(s)) = s /\ SubSeq(s, 1, 0) = << >>
    BY <1>1
  <2> QED BY <1>1, <2>1
<1>3. FlattenSeq(s) = Codings(tokens)
  BY DEF Codings, Tagged
<1> HIDE DEF s, n
<1>4. \A k \in 1..n : FlattenSeq(SubSeq(s, 1, k)) = FlattenSeq(SubSeq(s, 1, k - 1)) \o s[k]
  BY <1>1, FlattenNext
<1>5. \A k \in 1..n : FlattenSeq(SubSeq(s, 1, k - 1)) \in Seq(T)
  <2> SUFFICES ASSUME NEW k \in 1..n PROVE FlattenSeq(SubSeq(s, 1, k - 1)) \in Seq(T)
    OBVIOUS
  <2> DEFINE U == Seq(T)
             p == SubSeq(s, 1, k - 1)
  <2>1. s \in Seq(U) /\ k - 1 \in 0..Len(s)
    BY <1>1
  <2> HIDE DEF U
  <2>2. p \in Seq(U)
    BY <2>1
  <2>3. p \in Seq(Seq(T))
    BY <2>2 DEF U
  <2> HIDE DEF p
  <2>4. FlattenSeq(p) \in Seq(T)
    BY <2>3, FlattenType
  <2> QED BY <2>4 DEF p
<1>6. CodingsTo(tokens, 0) = << >> /\ CodingsTo(tokens, n) = Codings(tokens)
  BY <1>2, <1>3, FlattenEmpty DEF CodingsTo, s
<1>7. \A k \in 1..n : CodingsTo(tokens, k) = CodingsTo(tokens, k - 1) \o s[k]
  BY <1>4 DEF CodingsTo, s
<1>8. \A k \in 1..n : CodingsTo(tokens, k - 1) \in Seq(T)
  BY <1>5 DEF CodingsTo, s
<1> QED BY <1>1, <1>6, <1>7, <1>8 DEF n

\* Decoding takes the last coding off.
LEMMA DecodingLast ==
  ASSUME NEW T, NEW cs \in Seq(T), NEW c \in T, NEW stream \in Streams,
         stream.codings = cs \o <<c>>
  PROVE  /\ Decoding(stream, c).codings = cs
         /\ Decoding(stream, c).fails = stream.fails
<1> DEFINE more == cs \o <<c>>
<1>1. /\ more \in Seq(T) /\ Len(more) = Len(cs) + 1 /\ Len(cs) \in Nat
      /\ more # << >> /\ more[Len(cs) + 1] = c
      /\ SubSeq(more, 1, Len(cs)) = cs
  OBVIOUS
<1> HIDE DEF more
<1>2. Last(more) = c /\ Front(more) = cs
  BY <1>1 DEF Last, Front
<1>3. stream.codings = more
  BY DEF more
<1>4. Decoding(stream, c) = [stream EXCEPT !.codings = cs]
  BY <1>1, <1>2, <1>3 DEF Decoding
<1> QED BY <1>4 DEF Streams

\* Whatever tokens are taken off, the data are the same, and a plain stream stays
\* plain; a stream with just these codings becomes plain and fails no more than
\* before.
LEMMA TakenOffIs ==
  ASSUME req.body \in Streams, NEW T, NEW tokens \in Seq(T)
  PROVE  /\ TakenOff(tokens) \in Streams
         /\ TakenOff(tokens).data = req.body.data
         /\ TakenOff(tokens).gone = req.body.gone
         /\ req.body.codings = << >> => TakenOff(tokens).codings = << >>
         /\ req.body.codings = Codings(tokens) =>
              /\ TakenOff(tokens).codings = << >>
              /\ TakenOff(tokens).fails = req.body.fails
<1> DEFINE n == Len(tokens)
           C(k) == CodingsTo(tokens, k)
           b == req.body
<1>1. PICK F : TakenSteps(F, tokens)
  BY TakenFolds
<1>2. /\ F[0] = b /\ TakenOff(tokens) = F[n]
      /\ \A k \in 1..n : F[k] = Coded(F[k - 1], tokens[n - k + 1])
      /\ n \in Nat /\ \A k \in 1..n : tokens[k] \in T
  <2>1. \A k \in 1..n : Reverse(tokens)[k] = tokens[n - k + 1]
    BY DEF Reverse
  <2> QED BY <1>1, <2>1 DEF TakenSteps
<1>3. /\ C(0) = << >> /\ C(n) = Codings(tokens)
      /\ \A k \in 1..n :
           /\ C(k) = C(k - 1) \o (IF tokens[k] = "identity" THEN << >> ELSE <<tokens[k]>>)
           /\ C(k - 1) \in Seq(T)
  BY CodingsNext
<1> DEFINE told == b.codings = C(n)
<1> HIDE DEF n, C, b
<1> DEFINE Keeps(k) ==
             /\ F[k] \in Streams
             /\ F[k].data = b.data /\ F[k].gone = b.gone
             /\ b.codings = << >> => F[k].codings = << >>
             /\ told => F[k].codings = C(n - k) /\ F[k].fails = b.fails
           P == {k \in Nat : Keeps(k)}
<1>4. 0 \in P
  <2>1. n - 0 = n /\ b \in Streams
    BY <1>2 DEF b
  <2>2. Keeps(0)
    BY <1>2, <2>1
  <2> HIDE DEF Keeps
  <2> QED BY <2>2
<1>5. ASSUME NEW k \in 0..(n - 1), k \in P PROVE k + 1 \in P
  <2> DEFINE j == k + 1
             m == n - k
             c == tokens[m]
             f == F[k]
             g == F[j]
  <2>1. /\ j \in 1..n /\ j \in Nat /\ j - 1 = k /\ m \in 1..n /\ n - j + 1 = m /\ m - 1 = n - j
        /\ f \in Streams
    BY <1>2, <1>5
  <2>2. Keeps(k)
    BY <1>5
  <2>3. g = Coded(f, c)
    BY <1>2, <2>1
  <2>4. /\ C(m) = C(m - 1) \o (IF c = "identity" THEN << >> ELSE <<c>>)
        /\ C(m - 1) \in Seq(T) /\ c \in T
    BY <1>2, <1>3, <2>1
  <2>5. /\ f.data = b.data /\ f.gone = b.gone
        /\ b.codings = << >> => f.codings = << >>
        /\ told => f.codings = C(m) /\ f.fails = b.fails
    BY <2>2
  <2> HIDE DEF j, m, c, f, g, told
  <2>6. g \in Streams
    BY <2>1, <2>3, CodedStream
  <2>7. g.data = b.data /\ g.gone = b.gone /\ (b.codings = << >> => g.codings = << >>)
    BY <2>1, <2>3, <2>5 DEF Coded, Decoding, Streams
  <2>8. ASSUME told PROVE g.codings = C(m - 1) /\ g.fails = b.fails
    <3>1. CASE c = "identity"
      <4>1. C(m) = C(m - 1)
        BY <2>4, <3>1
      <4> QED BY <2>3, <2>5, <2>8, <3>1, <4>1 DEF Coded
    <3>2. CASE c # "identity"
      <4> DEFINE d == C(m - 1)
      <4>1. f.codings = d \o <<c>>
        BY <2>4, <2>5, <2>8, <3>2
      <4>2. g = Decoding(f, c)
        BY <2>3, <3>2 DEF Coded
      <4>3. d \in Seq(T) /\ c \in T /\ f \in Streams
        BY <2>1, <2>4
      <4> HIDE DEF d
      <4>4. Decoding(f, c).codings = d /\ Decoding(f, c).fails = f.fails
        BY <4>1, <4>3, DecodingLast
      <4> QED BY <2>5, <2>8, <4>2, <4>4 DEF d
    <3> QED BY <3>1, <3>2
  <2>9. Keeps(j)
    BY <2>1, <2>6, <2>7, <2>8 DEF g
  <2> HIDE DEF Keeps
  <2> QED BY <2>1, <2>9 DEF j
<1>6. Keeps(n)
  <2> HIDE DEF P
  <2>1. \A k \in 0..n : k \in P
    BY <1>2, <1>4, <1>5, SetInduction
  <2>2. n \in P
    BY <1>2, <2>1
  <2> QED BY <2>2 DEF P
<1>7. n - n = 0
  BY <1>2
<1> QED BY <1>2, <1>3, <1>6, <1>7 DEF b, C
-----------------------------------------------------------------------------
(* A request on its way.                                                   *)

\* The parts of a request, with headers that have lines of codings.
IsHeaders(headers) == /\ DOMAIN headers = Fields /\ "content-encoding" \in Fields
                      /\ headers["content-encoding"] \in Seq(Seq(STRING))
IsRequest(r) == /\ r = Request(r.headers, r.path, r.query, r.body, r.states)
                /\ IsHeaders(r.headers)
                /\ r.body \in Streams
IsOutcome(o) == \/ o = Nothing
                \/ o = Undefined
                \/ \E what : o = Throws(what)
                \/ \E res : o = Responds(res) /\ res.status \in Statuses

\* Where a request is, and that its arguments are extracted at the handler.
HandlingTypes ==
  /\ serving \in 0..Len(server)
  /\ serving = 0 => at = 0 /\ outcome = Nothing /\ args = << >> /\ req.body = Gone
  /\ serving # 0 => /\ IsMessage(sent)
                    /\ IsRequest(req)
                    /\ at \in 0..(Len(Chain) + 1)
                    /\ outcome = Nothing => at > 0
                    /\ outcome = Nothing /\ args # << >> => at > Len(Chain)
  /\ args \in Seq(ToSet(args))
  /\ ws.status \in Statuses \cup {0}
  /\ IsOutcome(outcome)

\* What the request says of its body and what its body is, until a middleware
\* puts another body there.
Rewriters == {k \in 1..(at - 1) : Chain[k].mw \in BodyRewrites}
Told ==
  GoingIn /\ Truthful /\ ~BodyRead /\ Rewriters = {} =>
    /\ Len(req.headers["content-encoding"]) <= 1
    /\ ~req.body.gone
    /\ req.body.fails => sent.breaks
    /\ Named(req.headers) = req.body.codings
    /\ req.body.data = sent.data
    /\ req.body.codings = IF "decompress" \in Entered THEN << >> ELSE sent.codings

\* What the middlewares leave of a body when the last one that puts one there is
\* the k-th.
PutBy(k) == [data |-> IF Chain[k].mw = "set_body()" THEN "" ELSE "mw", codings |-> << >>]
Spent == [data |-> "", codings |-> << >>]
Faithful == GoingIn /\ Mounted \cap Losing = {}
BodyStays ==
  Faithful /\ Truthful =>
    /\ BodyRead => Content(req.body) = Spent
    /\ ~BodyRead => \A k \in Rewriters : (\A j \in Rewriters : j <= k) =>
                      Content(req.body) = PutBy(k)

\* What is not of the body stays what the client sent, but for a parameter that
\* is set.
QueryStays(map) ==
  /\ OfA(sent.query) # {} => "a" \in DOMAIN map /\ map["a"] = sent.query[Max(OfA(sent.query))].value
  /\ OfA(sent.query) = {} => ("a" \in DOMAIN map => "set_query" \in Entered)
PartsStay ==
  Faithful => /\ req.path = PathInfo(sent.params)
              /\ req.states = server[serving].maps
              /\ QueryStays(req.query)

HandlingInv == HandlingTypes /\ Told /\ BodyStays /\ PartsStay /\ ArgumentsAreMeant

\* What the scopes give: the middlewares of a route, and the states it finds.
ScopesGive ==
  /\ \A k \in DOMAIN server : server[k].mws \in Seq(Marks)
  /\ NearestState
  /\ Len(server) \in Nat /\ DOMAIN server = 1..Len(server)
-----------------------------------------------------------------------------
(* The server does not change under a request.                             *)
Built == server' = server /\ said' = said /\ heap' = heap

\* The chain of the route that serves.
LEMMA ChainType ==
  ASSUME HandlingTypes, ScopesGive, serving # 0
  PROVE  /\ Chain \in Seq(Marks) /\ Len(Chain) \in Nat /\ DOMAIN Chain = 1..Len(Chain)
         /\ at \in Nat /\ serving \in DOMAIN server
<1>1. serving \in DOMAIN server
  BY DEF HandlingTypes, ScopesGive
<1>2. Chain \in Seq(Marks)
  BY <1>1 DEF ScopesGive, Chain
<1> DEFINE c == Chain
<1>3. at \in 0..(Len(c) + 1)
  BY DEF HandlingTypes
<1> HIDE DEF c
<1>4. c \in Seq(Marks)
  BY <1>2 DEF c
<1>5. Len(c) \in Nat /\ DOMAIN c = 1..Len(c)
  BY <1>4
<1> QED BY <1>1, <1>2, <1>3, <1>5 DEF c

\* What is meant does not change while the client's request is served.
LEMMA MeaningStays ==
  ASSUME Built, serving' = serving, sent' = sent
  PROVE  /\ Chain' = Chain /\ Mounted' = Mounted /\ (Truthful' <=> Truthful)
         /\ BodyMeant' = BodyMeant
         /\ \A t : Nearest(server[serving], t)' = Nearest(server[serving], t)
         /\ Streams' = Streams
<1>1. Chain' = Chain
  BY DEF Built, Chain
<1>2. Mounted' = Mounted
  BY <1>1 DEF Mounted
<1>3. Truthful' <=> Truthful
  BY DEF Truthful
<1>4. BodyMeant' = BodyMeant
  BY <1>1, <1>2 DEF BodyMeant
<1>5. \A t : Nearest(server[serving], t)' = Nearest(server[serving], t)
  BY DEF Built, Nearest, Near
<1>6. Streams' = Streams
  BY DEF Streams
<1> QED BY <1>1, <1>2, <1>3, <1>4, <1>5, <1>6

\* An argument that is there stays what it should be.
LEMMA OldArgument ==
  ASSUME Built, serving' = serving, sent' = sent, NEW j \in Nat, j > 0,
         \A k \in 1..j : args'[k] = args[k], ArgumentIsMeant(j)
  PROVE  ArgumentIsMeant(j)'
<1> DEFINE N(t) == Nearest(server[serving], t)
<1>1. BodyMeant' = BodyMeant /\ \A t : N(t)' = N(t)
  BY MeaningStays
<1>2. Mounted' = Mounted
  BY MeaningStays
<1>3. args'[j] = args[j]
  OBVIOUS
<1>4. Earlier(j)' <=> Earlier(j)
  BY DEF Earlier
<1>5. /\ LastA(sent.params)' <=> LastA(sent.params)
      /\ LastA(sent.query)' <=> LastA(sent.query)
      /\ OfA(sent.params)' = OfA(sent.params) /\ OfA(sent.query)' = OfA(sent.query)
      /\ Len(sent.params)' = Len(sent.params)
  OBVIOUS
<1>6. FormIsMeant(BodyMeant.data)' <=> FormIsMeant(BodyMeant.data)
  BY <1>1 DEF FormIsMeant
<1> HIDE DEF N
<1>7. /\ N(args[j].kind) = Nearest(server[serving], args[j].kind)
      /\ N(args[j].kind)' = Nearest(server[serving], args[j].kind)'
  BY DEF N
<1> QED BY <1>1, <1>2, <1>3, <1>4, <1>5, <1>6, <1>7 DEF ArgumentIsMeant

\* The arguments are the same.
LEMMA ArgumentsStay ==
  ASSUME HandlingTypes, ArgumentsAreMeant, Built, serving # 0,
         serving' = serving, sent' = sent, args' = args
  PROVE  ArgumentsAreMeant'
<1>1. args \in Seq(ToSet(args))
  BY DEF HandlingTypes
<1> DEFINE T == ToSet(args)
<1> HIDE DEF T
<1>2. \A j \in DOMAIN args : j \in Nat /\ j > 0
  <2>1. args \in Seq(T)
    BY <1>1 DEF T
  <2> QED BY <2>1
<1>3. (Truthful' <=> Truthful) /\ Mounted' = Mounted
  BY MeaningStays
<1> SUFFICES ASSUME Truthful', Mounted' \cap Losing = {}, NEW j \in DOMAIN args'
             PROVE  ArgumentIsMeant(j)'
  BY DEF ArgumentsAreMeant
<1>4. ArgumentIsMeant(j)
  BY <1>3 DEF ArgumentsAreMeant
<1>5. j \in Nat /\ j > 0 /\ \A k \in 1..j : args'[k] = args[k]
  BY <1>2
<1> QED BY <1>4, <1>5, OldArgument

\* One more argument.
LEMMA ArgsMore ==
  ASSUME args \in Seq(ToSet(args)), NEW e, args' = Append(args, e)
  PROVE  /\ args' \in Seq(ToSet(args')) /\ Len(args) \in Nat
         /\ DOMAIN args = 1..Len(args) /\ DOMAIN args' = 1..(Len(args) + 1)
         /\ \A k \in 1..Len(args) : args'[k] = args[k]
         /\ args'[Len(args) + 1] = e /\ args' # << >>
<1> DEFINE T == ToSet(args)
           U == T \cup {e}
           n == Len(args)
<1>1. args \in Seq(U) /\ e \in U
  <2> HIDE DEF T
  <2>1. args \in Seq(T)
    BY DEF T
  <2> QED BY <2>1
<1> HIDE DEF U, T
<1>2. /\ args' \in Seq(U) /\ n \in Nat /\ Len(args') = n + 1
      /\ DOMAIN args = 1..n /\ DOMAIN args' = 1..(n + 1)
      /\ \A k \in 1..n : args'[k] = args[k]
      /\ args'[n + 1] = e
  BY <1>1
<1> HIDE DEF n
<1> DEFINE V == ToSet(args')
<1>3. \A k \in 1..(n + 1) : args'[k] \in V
  BY <1>2 DEF ToSet
<1> HIDE DEF V
<1>4. args' \in Seq(V)
  BY <1>2, <1>3
<1>5. args' # << >>
  BY <1>2
<1> QED BY <1>2, <1>4, <1>5 DEF n, V

\* A request that is answered, or that may not be read: nothing is promised of
\* it any more, and the arguments stay.
LEMMA NoMore ==
  ASSUME HandlingInv, Built, serving # 0, serving' = serving, sent' = sent, args' = args,
         outcome' # Nothing
  PROVE  Told' /\ BodyStays' /\ PartsStay' /\ ArgumentsAreMeant'
<1>1. ~GoingIn'
  BY DEF GoingIn, Nothing
<1>2. ArgumentsAreMeant'
  BY ArgumentsStay DEF HandlingInv
<1> QED BY <1>1, <1>2 DEF Told, BodyStays, PartsStay, Faithful

\* On its way out.
LEMMA OutTypes ==
  ASSUME HandlingInv, ScopesGive, Built, serving # 0, serving' = serving, sent' = sent,
         args' = args, outcome' # Nothing, IsOutcome(outcome'), IsRequest(req)',
         at' \in {at, at - 1}, at > 0, ws'.status \in Statuses \cup {0}
  PROVE  HandlingInv'
<1>1. HandlingTypes
  BY DEF HandlingInv
<1>2. /\ at \in 0..(Len(Chain) + 1) /\ IsMessage(sent) /\ serving \in 0..Len(server)
      /\ args \in Seq(ToSet(args))
  BY <1>1 DEF HandlingTypes
<1>3. Chain' = Chain /\ Len(Chain) \in Nat /\ at \in Nat
  BY <1>1, ChainType, MeaningStays
<1>4. at' \in 0..(Len(Chain') + 1)
  <2> DEFINE n == Len(Chain)
  <2>1. n \in Nat /\ at \in 0..(n + 1)
    BY <1>2, <1>3
  <2> HIDE DEF n
  <2>2. at' \in 0..(n + 1)
    BY <2>1
  <2> QED BY <1>3, <2>2 DEF n
<1>5. serving' \in 0..Len(server') /\ IsMessage(sent)' /\ args' \in Seq(ToSet(args'))
  BY <1>2 DEF Built
<1>6. HandlingTypes'
  BY <1>2, <1>4, <1>5 DEF HandlingTypes, Nothing
<1> QED BY <1>6, NoMore DEF HandlingInv
-----------------------------------------------------------------------------
(* Answers.                                                                *)

\* What is sent has a status there is a factory for.
LEMMA AnswerStatus ==
  /\ \A s, data : TextAnswer(s, data).status = s
  /\ \A s : Response(s).status = s
  /\ 400 \in Statuses /\ 500 \in Statuses /\ 101 \in Statuses /\ 426 \in Statuses
  /\ 200 \in Statuses
<1>1. \A s : Response(s).status = s
  BY DEF Response
<1>2. ASSUME NEW s, NEW data PROVE TextAnswer(s, data).status = s
  BY DEF TextAnswer, ResWithText, ResWithHeader, Response
<1>3. /\ 400 \in Statuses /\ 500 \in Statuses /\ 101 \in Statuses /\ 426 \in Statuses
      /\ 200 \in Statuses
  BY DEF Statuses, Informational, Successful, Redirections, ClientErrors, ServerErrors
<1> QED BY <1>1, <1>2, <1>3

\* A client that asks for a WebSocket gets the 101 or is told what is wrong.
LEMMA HandshakeStatus ==
  ASSUME sent.upgrade \in {"good", "bad", "old"}
  PROVE  Handshake.status \in {101, 400, 426}
<1> DEFINE Is(res, s) == res = [status |-> s, headers |-> res.headers, body |-> res.body]
<1>1. ASSUME NEW res, NEW s, Is(res, s), NEW f, NEW v, NEW z
      PROVE  /\ Is(ResWithHeader(res, f, v), s) /\ Is(ResWithText(res, v), s)
             /\ Is(ResWithStatus(res, z), z) /\ Is(ResMovedFrom(res), s)
  <2> DEFINE h == res.headers
             b == res.body
  <2>1. res = [status |-> s, headers |-> h, body |-> b]
    BY <1>1
  <2> HIDE DEF h, b
  <2>2. ResWithHeader(res, f, v) = [status |-> s, headers |-> SetHeader(h, f, v), body |-> b]
    BY <2>1 DEF ResWithHeader
  <2>3. ResWithText(res, v) = [status |-> s, headers |-> h, body |-> Sized(v)]
    BY <2>1 DEF ResWithText
  <2>4. ResWithStatus(res, z) = [status |-> z, headers |-> h, body |-> b]
    BY <2>1 DEF ResWithStatus
  <2>5. ResMovedFrom(res) = [status |-> s, headers |-> NoHeaders, body |-> MovedBody(b)]
    <3> DEFINE c == MovedBody(b)
               r == [status |-> s, headers |-> h, body |-> b]
               q == [status |-> s, headers |-> NoHeaders, body |-> b]
    <3>1. ResMovedFrom(r) = [r EXCEPT !.headers = NoHeaders, !.body = c]
      BY DEF ResMovedFrom
    <3> HIDE DEF c
    <3>2. [r EXCEPT !.headers = NoHeaders, !.body = c]
            = [status |-> s, headers |-> NoHeaders, body |-> c]
      <4>1. [r EXCEPT !.headers = NoHeaders] = q /\ r = r
        OBVIOUS
      <4>2. [q EXCEPT !.body = c] = [status |-> s, headers |-> NoHeaders, body |-> c]
        OBVIOUS
      <4> HIDE DEF r, q
      <4>3. [r EXCEPT !.headers = NoHeaders, !.body = c]
              = [[r EXCEPT !.headers = NoHeaders] EXCEPT !.body = c]
        OBVIOUS
      <4> QED BY <4>1, <4>2, <4>3
    <3> HIDE DEF r
    <3> QED BY <2>1, <3>1, <3>2 DEF r, c
  <2> QED BY <2>2, <2>3, <2>4, <2>5
<1>2. \A s : Is(Response(s), s)
  BY DEF Response
<1>3. \A res, s : Is(res, s) => res.status = s
  OBVIOUS
<1> HIDE DEF Is
<1> DEFINE builder == Response(101)
           refused(s) == ResWithText(ResWithStatus(builder, s), "reason")
<1>4. Is(builder, 101)
  BY <1>2
<1> HIDE DEF builder
<1>5. Is(refused(400), 400) /\ Is(refused(426), 426)
  <2>1. Is(ResWithStatus(builder, 400), 400) /\ Is(ResWithStatus(builder, 426), 426)
    BY <1>1, <1>4
  <2> QED BY <1>1, <2>1
<1> HIDE DEF refused
<1>6. CASE sent.upgrade = "good"
  <2>1. Handshake = ResWithHeader(builder, "upgrade", "websocket")
    BY <1>6 DEF Handshake, Upgraded, builder
  <2>2. Is(Handshake, 101)
    BY <1>1, <1>4, <2>1
  <2> QED BY <1>3, <2>2
<1>7. CASE sent.upgrade = "bad"
  <2>1. Handshake = refused(400)
    BY <1>7 DEF Handshake, builder, refused
  <2> QED BY <1>3, <1>5, <2>1
<1>8. CASE sent.upgrade = "old"
  <2>1. Handshake = ResWithHeader(ResMovedFrom(refused(426)), "upgrade", "websocket")
    BY <1>8 DEF Handshake, Upgraded, builder, refused
  <2>2. Is(ResMovedFrom(refused(426)), 426)
    BY <1>1, <1>5
  <2>3. Is(Handshake, 426)
    BY <1>1, <2>1, <2>2
  <2> QED BY <1>3, <2>3
<1> QED BY <1>6, <1>7, <1>8

\* What a response may be.
LEMMA RespondsIs ==
  ASSUME NEW res, res.status \in Statuses
  PROVE  IsOutcome(Responds(res)) /\ Responds(res) # Nothing
BY DEF IsOutcome, Responds, Nothing

\* An exception is an outcome.
LEMMA ThrowsIs ==
  ASSUME NEW what
  PROVE  IsOutcome(Throws(what)) /\ Throws(what) # Nothing
BY DEF IsOutcome, Throws, Nothing

\* A response for a handshake that is left alone.
LEMMA WsStatus == ASSUME HandlingInv, ws' = ws PROVE ws'.status \in Statuses \cup {0}
BY DEF HandlingInv, HandlingTypes

\* The request goes to the handler and comes to something.
LEMMA HandleInv ==
  ASSUME HandlingInv, ScopesGive, Built, NEW result, IsResult(result), Handle(result)
  PROVE  HandlingInv'
<1>1. /\ serving # 0 /\ serving' = serving /\ sent' = sent /\ req' = req /\ args' = args
      /\ ws' = ws /\ at' = at - 1 /\ outcome = Nothing
      /\ result.type = "set_handler" => ws.status # 0
      /\ outcome' = CASE result.type = "throw" -> Throws(result.value)
                      [] result.type = "set_handler" -> Responds(ws)
                      [] result.type \notin {"throw", "set_handler"} -> Responds(ToResponse(result))
  BY DEF Handle, AtHandler, GoingIn
<1>2. IsOutcome(outcome') /\ outcome' # Nothing
  <2>1. CASE result.type = "throw"
    BY <1>1, <2>1, ThrowsIs
  <2>2. CASE result.type = "set_handler"
    <3>1. ws.status \in Statuses
      BY <1>1, <2>2 DEF HandlingInv, HandlingTypes
    <3>2. outcome' = Responds(ws)
      BY <1>1, <2>2
    <3> QED BY <3>1, <3>2, RespondsIs
  <2>3. CASE result.type \notin {"throw", "set_handler"}
    <3>1. ToResponse(result).status \in Statuses
      <4>1. result.type \in {"response", "string", "vector"}
        BY <2>3 DEF IsResult
      <4>2. CASE result.type = "response"
        BY <4>2 DEF IsResult, ToResponse
      <4>3. CASE result.type = "string"
        BY <4>3, AnswerStatus DEF ToResponse
      <4>4. CASE result.type = "vector"
        BY <4>4, AnswerStatus DEF ToResponse, ResWithText, ResWithHeader, Response
      <4> QED BY <4>1, <4>2, <4>3, <4>4
    <3>2. outcome' = Responds(ToResponse(result))
      BY <1>1, <2>3
    <3> QED BY <3>1, <3>2, RespondsIs
  <2> QED BY <2>1, <2>2, <2>3
<1>3. IsRequest(req)' /\ at > 0
  <2>1. IsRequest(req) /\ at \in 0..(Len(Chain) + 1) /\ at > 0
    BY <1>1 DEF HandlingInv, HandlingTypes
  <2>2. Streams' = Streams
    BY <1>1, MeaningStays
  <2> QED BY <1>1, <2>1, <2>2 DEF IsRequest, IsHeaders
<1> QED BY <1>1, <1>2, <1>3, OutTypes, WsStatus

\* A middleware is left with a response or an exception.
LEMMA LeaveInv ==
  ASSUME HandlingInv, ScopesGive, Built, Leave
  PROVE  HandlingInv'
<1>1. /\ serving # 0 /\ serving' = serving /\ sent' = sent /\ req' = req /\ args' = args
      /\ ws' = ws /\ at' = at - 1 /\ at > 0 /\ outcome.is \in {"response", "exception"}
      /\ outcome' = CASE Here = "exception_handler" /\ outcome.is = "exception" -> Caught(outcome)
                      [] Here = "trace_id" /\ outcome.is = "response" ->
                           Responds(Traced(outcome.res))
                      [] OTHER -> outcome
  BY DEF Leave, GoingOut
<1>2. IsOutcome(outcome)
  BY DEF HandlingInv, HandlingTypes
<1>3. IsOutcome(outcome') /\ outcome' # Nothing
  <2>1. ASSUME outcome' = outcome PROVE IsOutcome(outcome') /\ outcome' # Nothing
    BY <1>1, <1>2, <2>1 DEF Nothing
  <2>2. ASSUME outcome' = Caught(outcome), outcome' # outcome
        PROVE  IsOutcome(outcome') /\ outcome' # Nothing
    <3>1. outcome' = Responds(Response(500))
      BY <2>2 DEF Caught
    <3> QED BY <3>1, AnswerStatus, RespondsIs
  <2>3. ASSUME outcome' = Responds(Traced(outcome.res)), outcome.is = "response"
        PROVE  IsOutcome(outcome') /\ outcome' # Nothing
    <3>1. PICK res : outcome = Responds(res) /\ res.status \in Statuses
      BY <1>2, <2>3 DEF IsOutcome, Nothing, Undefined, Throws
    <3>2. outcome.res = res
      BY <3>1 DEF Responds
    <3>3. Traced(res).status \in Statuses
      BY <3>1 DEF Traced, ResWithHeader
    <3> QED BY <2>3, <3>2, <3>3, RespondsIs
  <2> QED BY <1>1, <2>1, <2>2, <2>3
<1>4. IsRequest(req)'
  <2>1. IsRequest(req)
    BY <1>1 DEF HandlingInv, HandlingTypes
  <2>2. Streams' = Streams
    BY <1>1, MeaningStays
  <2> QED BY <1>1, <2>1, <2>2 DEF IsRequest, IsHeaders
<1> QED BY <1>1, <1>3, <1>4, OutTypes, WsStatus
-----------------------------------------------------------------------------
(* Into the middlewares.                                                   *)

\* One middleware further.
LEMMA Further ==
  ASSUME HandlingInv, ScopesGive, Built, GoingIn, at <= Len(Chain), NEW r, Inward(r),
         IsRequest(r)
  PROVE  /\ HandlingTypes' /\ ArgumentsAreMeant'
         /\ GoingIn' /\ req' = r /\ args = << >> /\ args' = << >> /\ ~BodyRead /\ ~BodyRead'
         /\ sent' = sent /\ serving' = serving /\ Chain' = Chain /\ Mounted' = Mounted
         /\ (Truthful' <=> Truthful) /\ (Faithful' <=> Faithful)
         /\ Entered' = Entered \cup {Here}
         /\ Rewriters' = IF Here \in BodyRewrites THEN Rewriters \cup {at} ELSE Rewriters
         /\ at \in Nat /\ \A k \in Rewriters : k < at /\ k \in Nat
         /\ Here \in Mounted
<1>1. /\ req' = r /\ at' = at + 1 /\ serving' = serving /\ sent' = sent /\ args' = args
      /\ ws' = ws /\ outcome' = outcome
  BY DEF Inward
<1>2. serving # 0 /\ outcome = Nothing
  BY DEF GoingIn
<1>3. HandlingTypes
  BY DEF HandlingInv
<1>4. /\ Chain \in Seq(Marks) /\ Len(Chain) \in Nat /\ DOMAIN Chain = 1..Len(Chain)
      /\ at \in Nat /\ serving \in DOMAIN server
  BY <1>2, <1>3, ChainType
<1>5. at > 0 /\ args = << >>
  BY <1>2, <1>3, <1>4 DEF HandlingTypes
<1>6. Chain' = Chain /\ Mounted' = Mounted /\ (Truthful' <=> Truthful) /\ Streams' = Streams
  BY <1>1, MeaningStays
<1>7. at' \in 0..(Len(Chain') + 1) /\ at' > 0
  <2> DEFINE n == Len(Chain)
  <2>1. n \in Nat /\ at \in Nat /\ at <= n
    BY <1>4
  <2> HIDE DEF n
  <2>2. at' \in 0..(n + 1) /\ at' > 0
    BY <1>1, <2>1
  <2> QED BY <1>6, <2>2 DEF n
<1>8. HandlingTypes'
  <2>1. IsRequest(r)'
    BY <1>1, <1>6 DEF IsRequest, IsHeaders
  <2>2. /\ serving' \in 0..Len(server') /\ IsMessage(sent)' /\ IsRequest(req)'
        /\ args' \in Seq(ToSet(args')) /\ ws'.status \in Statuses \cup {0} /\ IsOutcome(outcome')
    <3>1. IsRequest(req)'
      BY <1>1, <1>6 DEF IsRequest, IsHeaders
    <3> QED BY <1>1, <1>2, <1>3, <3>1 DEF HandlingTypes, Built
  <2> QED BY <1>1, <1>2, <1>5, <1>7, <2>2 DEF HandlingTypes
<1>9. ArgumentsAreMeant'
  BY <1>1, <1>2, <1>3, ArgumentsStay DEF HandlingInv
<1>10. GoingIn' /\ ~BodyRead /\ ~BodyRead'
  BY <1>1, <1>2, <1>5 DEF GoingIn, BodyRead, Nothing
<1>11. 1..(at' - 1) = 1..(at - 1) \cup {at} /\ \A k \in 1..(at - 1) : k < at /\ k \in Nat
  BY <1>1, <1>4, <1>5
<1>12. Entered' = Entered \cup {Here}
  BY <1>6, <1>11 DEF Entered, Here
<1>13. Rewriters' = IF Here \in BodyRewrites THEN Rewriters \cup {at} ELSE Rewriters
  BY <1>6, <1>11 DEF Rewriters, Here
<1>14. \A k \in Rewriters : k < at /\ k \in Nat
  BY <1>11 DEF Rewriters
<1>15. Here \in Mounted
  <2> DEFINE c == Chain
  <2>1. DOMAIN c = 1..Len(c) /\ at <= Len(c) /\ Len(c) \in Nat
    BY <1>4
  <2> HIDE DEF c
  <2>2. at \in DOMAIN c
    BY <1>4, <1>5, <2>1
  <2> QED BY <2>2 DEF c, Mounted, Here
<1>16. Faithful' <=> Faithful
  BY <1>1, <1>2, <1>6, <1>10 DEF Faithful, GoingIn
<1> QED BY <1>1, <1>4, <1>5, <1>6, <1>8, <1>9, <1>10, <1>12, <1>13, <1>14, <1>15, <1>16

\* A middleware that leaves the body, and what is said of its codings, alone.
LEMMA BodyAlone ==
  ASSUME HandlingInv, ScopesGive, Built, GoingIn, at <= Len(Chain), NEW r, Inward(r),
         IsRequest(r), Here \notin BodyRewrites \cup {"decompress"},
         r.body = req.body,
         r.headers["content-encoding"] = req.headers["content-encoding"]
  PROVE  Told' /\ BodyStays'
<1>1. /\ GoingIn' /\ req' = r /\ ~BodyRead /\ ~BodyRead' /\ sent' = sent
      /\ (Truthful' <=> Truthful) /\ (Faithful' <=> Faithful) /\ Chain' = Chain
      /\ Entered' = Entered \cup {Here} /\ Rewriters' = Rewriters
  BY Further
<1>2. Told'
  <2> SUFFICES ASSUME Truthful', Rewriters' = {}
               PROVE  /\ Len(req'.headers["content-encoding"]) <= 1
                      /\ ~req'.body.gone
                      /\ req'.body.fails => sent'.breaks
                      /\ Named(req'.headers) = req'.body.codings
                      /\ req'.body.data = sent'.data
                      /\ req'.body.codings = IF "decompress" \in Entered' THEN << >>
                                             ELSE sent'.codings
    BY DEF Told
  <2>1. /\ Len(req.headers["content-encoding"]) <= 1
        /\ ~req.body.gone
        /\ req.body.fails => sent.breaks
        /\ Named(req.headers) = req.body.codings
        /\ req.body.data = sent.data
        /\ req.body.codings = IF "decompress" \in Entered THEN << >> ELSE sent.codings
    BY <1>1 DEF Told, HandlingInv
  <2>2. Named(req'.headers) = Named(req.headers)
    BY <1>1 DEF Named, HasHeader, Get
  <2>3. "decompress" \in Entered' <=> "decompress" \in Entered
    BY <1>1
  <2> QED BY <1>1, <2>1, <2>2, <2>3
<1>3. BodyStays'
  <2>1. \A k : PutBy(k)' = PutBy(k)
    BY <1>1 DEF PutBy
  <2>2. Content(req.body)' = Content(req.body)
    BY <1>1 DEF Content
  <2> QED BY <1>1, <2>1, <2>2 DEF BodyStays, HandlingInv
<1> QED BY <1>2, <1>3

\* A middleware that leaves path, states and query alone.
LEMMA PartsAlone ==
  ASSUME HandlingInv, ScopesGive, Built, GoingIn, at <= Len(Chain), NEW r, Inward(r),
         IsRequest(r), r.path = req.path, r.states = req.states, r.query = req.query
  PROVE  PartsStay'
<1>1. /\ req' = r /\ sent' = sent /\ serving' = serving /\ (Faithful' <=> Faithful)
      /\ Entered' = Entered \cup {Here}
  BY Further
<1>2. server' = server
  BY DEF Built
<1>3. QueryStays(req.query) => QueryStays(req.query)'
  BY <1>1 DEF QueryStays
<1> QED BY <1>1, <1>2, <1>3 DEF PartsStay, HandlingInv

\* exception_handler, logger and trace_id.
LEMMA EnterInv ==
  ASSUME HandlingInv, ScopesGive, Built, Enter
  PROVE  HandlingInv'
<1>1. /\ GoingIn /\ at <= Len(Chain) /\ Inward(req)
      /\ Here \notin BodyRewrites \cup {"decompress"}
  BY DEF Enter, BodyRewrites
<1>2. IsRequest(req)
  BY <1>1 DEF GoingIn, HandlingInv, HandlingTypes
<1>3. HandlingTypes' /\ ArgumentsAreMeant'
  BY <1>1, <1>2, Further
<1>4. Told' /\ BodyStays' /\ PartsStay'
  BY <1>1, <1>2, BodyAlone, PartsAlone
<1> QED BY <1>3, <1>4 DEF HandlingInv

\* The streams that middlewares put into a request.
LEMMA PutStreams ==
  /\ Gone \in Streams /\ Vector("") \in Streams /\ Vector("mw") \in Streams
  /\ Content(Vector("")) = [data |-> "", codings |-> << >>]
  /\ Content(Vector("mw")) = [data |-> "mw", codings |-> << >>]
<1>1. << >> \in Seq(ToSet(sent.codings))
  <2> DEFINE C == ToSet(sent.codings)
  <2> HIDE DEF C
  <2>1. << >> \in Seq(C)
    OBVIOUS
  <2> QED BY <2>1 DEF C
<1>2. Gone \in Streams
  BY <1>1 DEF Gone, Streams
<1>3. Vector("") \in Streams /\ Vector("mw") \in Streams
  BY <1>1 DEF Vector, Stream, Streams
<1>4. \A data : Content(Vector(data)) = [data |-> data, codings |-> << >>]
  BY DEF Content, Vector, Stream
<1> QED BY <1>2, <1>3, <1>4

\* A request with another part is a request with all its parts.
LEMMA WithPart ==
  ASSUME NEW r, IsRequest(r), NEW stream \in Streams, NEW q, NEW h, IsHeaders(h)
  PROVE  /\ IsRequest([r EXCEPT !.body = stream]) /\ IsRequest([r EXCEPT !.query = q])
         /\ IsRequest([r EXCEPT !.headers = h])
         /\ [r EXCEPT !.body = stream] = Request(r.headers, r.path, r.query, stream, r.states)
         /\ [r EXCEPT !.query = q] = Request(r.headers, r.path, q, r.body, r.states)
         /\ [r EXCEPT !.headers = h] = Request(h, r.path, r.query, r.body, r.states)
<1> DEFINE a == r.headers
           b == r.path
           c == r.query
           d == r.body
           e == r.states
<1>1. /\ r = [headers |-> a, path |-> b, query |-> c, body |-> d, states |-> e]
      /\ IsHeaders(a) /\ d \in Streams
  BY DEF IsRequest, Request
<1> HIDE DEF a, b, c, d, e
<1>2. [r EXCEPT !.body = stream]
        = [headers |-> a, path |-> b, query |-> c, body |-> stream, states |-> e]
  BY <1>1
<1>3. [r EXCEPT !.query = q] = [headers |-> a, path |-> b, query |-> q, body |-> d, states |-> e]
  BY <1>1
<1>4. [r EXCEPT !.headers = h] = [headers |-> h, path |-> b, query |-> c, body |-> d, states |-> e]
  BY <1>1
<1>5. ASSUME NEW hh, NEW pp, NEW qq, NEW bb, NEW ss, IsHeaders(hh), bb \in Streams
      PROVE  IsRequest(Request(hh, pp, qq, bb, ss))
  BY <1>5 DEF IsRequest, Request
<1>6. IsRequest([r EXCEPT !.body = stream])
  BY <1>1, <1>2, <1>5 DEF Request
<1>7. IsRequest([r EXCEPT !.query = q])
  BY <1>1, <1>3, <1>5 DEF Request
<1>8. IsRequest([r EXCEPT !.headers = h])
  BY <1>1, <1>4, <1>5 DEF Request
<1> QED BY <1>2, <1>3, <1>4, <1>6, <1>7, <1>8 DEF Request, a, b, c, d, e

\* Headers with another line that is not of codings.
LEMMA OtherHeader ==
  ASSUME NEW h, IsHeaders(h), NEW v
  PROVE  /\ IsHeaders([h EXCEPT !["x-trace-id"] = v])
         /\ [h EXCEPT !["x-trace-id"] = v]["content-encoding"] = h["content-encoding"]
<1>1. DOMAIN [h EXCEPT !["x-trace-id"] = v] = DOMAIN h
  OBVIOUS
<1>2. [h EXCEPT !["x-trace-id"] = v]["content-encoding"] = h["content-encoding"]
  BY DEF IsHeaders
<1> QED BY <1>1, <1>2 DEF IsHeaders

\* Middlewares that set a header.
LEMMA SetHeaderInv ==
  ASSUME HandlingInv, ScopesGive, Built, Rewrite, Here \in {"set_header", "insert_header"}
  PROVE  HandlingInv'
<1>1. GoingIn /\ at <= Len(Chain) /\ Inward(Rewritten(Here))
  BY DEF Rewrite
<1>2. IsRequest(req)
  BY <1>1 DEF GoingIn, HandlingInv, HandlingTypes
<1>3. PICK v : Rewritten(Here) = [req EXCEPT !.headers = [@ EXCEPT !["x-trace-id"] = v]]
  <2>1. CASE Here = "set_header"
    BY <2>1 DEF Rewritten, WithHeader, SetHeader
  <2>2. CASE Here = "insert_header"
    BY <2>2 DEF Rewritten, WithMoreHeader, InsertHeader
  <2> QED BY <2>1, <2>2
<1> DEFINE h == [req.headers EXCEPT !["x-trace-id"] = v]
           r == [req EXCEPT !.headers = h]
<1>4. IsHeaders(h) /\ h["content-encoding"] = req.headers["content-encoding"]
  BY <1>2, OtherHeader DEF IsRequest
<1>5. Rewritten(Here) = r
  BY <1>3
<1> HIDE DEF h
<1>6. IsRequest(r) /\ r = Request(h, req.path, req.query, req.body, req.states)
  <2>1. Gone \in Streams
    BY PutStreams
  <2> QED BY <1>2, <1>4, <2>1, WithPart
<1> HIDE DEF r
<1>7. /\ r.headers = h /\ r.path = req.path /\ r.query = req.query /\ r.body = req.body
      /\ r.states = req.states
  BY <1>6 DEF Request
<1>8. Here \notin BodyRewrites \cup {"decompress"}
  BY DEF BodyRewrites
<1>9. Inward(r)
  BY <1>1, <1>5
<1>10. HandlingTypes' /\ ArgumentsAreMeant'
  BY <1>1, <1>6, <1>9, Further
<1>11. Told' /\ BodyStays'
  BY <1>1, <1>4, <1>6, <1>7, <1>8, <1>9, BodyAlone
<1>12. PartsStay'
  BY <1>1, <1>6, <1>7, <1>9, PartsAlone
<1> QED BY <1>10, <1>11, <1>12 DEF HandlingInv

\* A middleware that sets a parameter of the query.
LEMMA SetQueryInv ==
  ASSUME HandlingInv, ScopesGive, Built, Rewrite, Here = "set_query"
  PROVE  HandlingInv'
<1> DEFINE q == SetParam(req.query, "a", "number")
           r == [req EXCEPT !.query = q]
<1>1. GoingIn /\ at <= Len(Chain) /\ Inward(r)
  BY DEF Rewrite, Rewritten, WithQuery
<1>2. IsRequest(req)
  BY <1>1 DEF GoingIn, HandlingInv, HandlingTypes
<1> HIDE DEF q
<1>3. IsRequest(r) /\ r = Request(req.headers, req.path, q, req.body, req.states)
  <2>1. Gone \in Streams /\ IsHeaders(req.headers)
    BY <1>2, PutStreams DEF IsRequest
  <2> QED BY <1>2, <2>1, WithPart
<1> HIDE DEF r
<1>4. /\ r.headers = req.headers /\ r.path = req.path /\ r.query = q /\ r.body = req.body
      /\ r.states = req.states
  BY <1>3 DEF Request
<1>5. Here \notin BodyRewrites \cup {"decompress"}
  BY DEF BodyRewrites
<1>6. HandlingTypes' /\ ArgumentsAreMeant'
  BY <1>1, <1>3, Further
<1>7. Told' /\ BodyStays'
  BY <1>1, <1>3, <1>4, <1>5, BodyAlone
<1>8. PartsStay'
  <2>1. /\ req' = r /\ sent' = sent /\ serving' = serving /\ (Faithful' <=> Faithful)
        /\ Entered' = Entered \cup {Here} /\ server' = server
    BY <1>1, <1>3, Further DEF Built
  <2>2. /\ "a" \in DOMAIN q
        /\ "a" \in DOMAIN req.query => q = req.query
    BY DEF q, SetParam, IsIn, Bound
  <2>3. QueryStays(req.query) => QueryStays(req.query)'
    BY <1>4, <2>1, <2>2 DEF QueryStays
  <2> QED BY <1>4, <2>1, <2>3 DEF PartsStay, HandlingInv
<1> QED BY <1>6, <1>7, <1>8 DEF HandlingInv

\* Middlewares that put a body of their own into the request.
LEMMA SetBodyInv ==
  ASSUME HandlingInv, ScopesGive, Built, Rewrite, Here \in {"set_body()", "set_body(span)"}
  PROVE  HandlingInv'
<1> DEFINE stream == IF Here = "set_body()" THEN Vector("") ELSE Vector("mw")
           r == [req EXCEPT !.body = stream]
<1>1. GoingIn /\ at <= Len(Chain) /\ Inward(r)
  BY DEF Rewrite, Rewritten, WithBody
<1>2. IsRequest(req)
  BY <1>1 DEF GoingIn, HandlingInv, HandlingTypes
<1>3. /\ stream \in Streams
      /\ Content(stream) = [data |-> IF Here = "set_body()" THEN "" ELSE "mw", codings |-> << >>]
  BY PutStreams
<1> HIDE DEF stream
<1>4. IsRequest(r) /\ r = Request(req.headers, req.path, req.query, stream, req.states)
  <2>1. IsHeaders(req.headers)
    BY <1>2 DEF IsRequest
  <2> QED BY <1>2, <1>3, <2>1, WithPart
<1> HIDE DEF r
<1>5. /\ r.headers = req.headers /\ r.path = req.path /\ r.query = req.query
      /\ r.body = stream /\ r.states = req.states
  BY <1>4 DEF Request
<1>6. HandlingTypes' /\ ArgumentsAreMeant'
  BY <1>1, <1>4, Further
<1>7. PartsStay'
  BY <1>1, <1>4, <1>5, PartsAlone
<1>8. /\ req' = r /\ Rewriters' = Rewriters \cup {at} /\ ~BodyRead' /\ Chain' = Chain
      /\ at \in Nat /\ \A k \in Rewriters : k < at /\ k \in Nat
  BY <1>1, <1>4, Further DEF BodyRewrites
<1>9. Told'
  BY <1>8 DEF Told
<1>10. BodyStays'
  <2>1. Content(req.body)' = PutBy(at)
    BY <1>3, <1>5, <1>8 DEF PutBy, Here, Content
  <2>2. \A k : PutBy(k)' = PutBy(k)
    BY <1>8 DEF PutBy
  <2>3. \A k \in Rewriters' : (\A j \in Rewriters' : j <= k) => k = at
    <3> SUFFICES ASSUME NEW k \in Rewriters', \A j \in Rewriters' : j <= k PROVE k = at
      OBVIOUS
    <3>1. at <= k /\ (k = at \/ (k < at /\ k \in Nat))
      BY <1>8
    <3> QED BY <1>8, <3>1
  <2> QED BY <1>8, <2>1, <2>2, <2>3 DEF BodyStays
<1> QED BY <1>6, <1>7, <1>9, <1>10 DEF HandlingInv

\* Middlewares that lose the request.
LEMMA LoseInv ==
  ASSUME HandlingInv, ScopesGive, Built, Rewrite, Here \in Losing
  PROVE  HandlingInv'
<1>1. GoingIn /\ at <= Len(Chain) /\ Inward(MovedFrom)
  BY DEF Rewrite, Rewritten, WithText, WithJson, Losing
<1>2. IsRequest(req)
  BY <1>1 DEF GoingIn, HandlingInv, HandlingTypes
<1>3. IsRequest(MovedFrom)
  <2>1. IsHeaders(NoHeaders)
    BY <1>2 DEF IsRequest, IsHeaders, NoHeaders
  <2> QED BY <2>1, PutStreams DEF IsRequest, MovedFrom, Request
<1>4. HandlingTypes' /\ ArgumentsAreMeant'
  BY <1>1, <1>3, Further
<1>5. Rewriters' # {}
  BY <1>1, <1>3, Further DEF BodyRewrites, Losing
<1>6. Here \in Mounted' /\ Here \in Losing
  BY <1>1, <1>3, Further
<1>7. ~Faithful'
  BY <1>6 DEF Faithful
<1>8. Told' /\ BodyStays' /\ PartsStay'
  BY <1>5, <1>7 DEF Told, BodyStays, PartsStay
<1> QED BY <1>4, <1>8 DEF HandlingInv

\* A middleware puts something else into the request.
LEMMA RewriteInv ==
  ASSUME HandlingInv, ScopesGive, Built, Rewrite
  PROVE  HandlingInv'
<1>1. \/ Here \in {"set_header", "insert_header"} \/ Here = "set_query"
      \/ Here \in {"set_body()", "set_body(span)"} \/ Here \in Losing
  BY DEF Rewrite, Rewrites, BodyRewrites, Losing
<1> QED BY <1>1, SetHeaderInv, SetQueryInv, SetBodyInv, LoseInv

\* decompress with nothing to take off, or with all of it taken off.
LEMMA DecompressIn ==
  ASSUME HandlingInv, ScopesGive, Built, GoingIn, at <= Len(Chain), Here = "decompress",
         NEW r, IsRequest(r), Inward(r),
         r.path = req.path, r.query = req.query, r.states = req.states,
         Named(r.headers) = << >>, Len(r.headers["content-encoding"]) <= 1,
         r.body.data = req.body.data, r.body.gone = req.body.gone,
         req.body.codings = << >> => r.body.codings = << >>,
         Named(req.headers) = req.body.codings => /\ r.body.codings = << >>
                                                  /\ r.body.fails = req.body.fails
  PROVE  HandlingInv'
<1>1. HandlingTypes' /\ ArgumentsAreMeant'
  BY Further
<1>2. PartsStay'
  BY PartsAlone
<1>3. /\ GoingIn' /\ req' = r /\ ~BodyRead /\ ~BodyRead' /\ sent' = sent
      /\ (Truthful' <=> Truthful) /\ (Faithful' <=> Faithful) /\ Chain' = Chain
      /\ Entered' = Entered \cup {Here} /\ Rewriters' = Rewriters
  BY Further DEF BodyRewrites
<1>4. Told'
  <2> SUFFICES ASSUME Truthful', Rewriters' = {}
               PROVE  /\ Len(req'.headers["content-encoding"]) <= 1
                      /\ ~req'.body.gone
                      /\ req'.body.fails => sent'.breaks
                      /\ Named(req'.headers) = req'.body.codings
                      /\ req'.body.data = sent'.data
                      /\ req'.body.codings = IF "decompress" \in Entered' THEN << >>
                                             ELSE sent'.codings
    BY DEF Told
  <2>1. /\ ~req.body.gone
        /\ req.body.fails => sent.breaks
        /\ Named(req.headers) = req.body.codings
        /\ req.body.data = sent.data
    BY <1>3 DEF Told, HandlingInv
  <2>2. "decompress" \in Entered'
    BY <1>3
  <2> QED BY <1>3, <2>1, <2>2
<1>5. BodyStays'
  <2>1. \A k : PutBy(k)' = PutBy(k)
    BY <1>3 DEF PutBy
  <2>2. ASSUME Faithful', Truthful', NEW k \in Rewriters', \A j \in Rewriters' : j <= k
        PROVE  Content(req.body)' = PutBy(k)'
    <3>1. Content(req.body) = PutBy(k)
      BY <1>3, <2>2 DEF BodyStays, HandlingInv
    <3>2. req.body.codings = << >> /\ req.body.data = PutBy(k).data
      BY <3>1 DEF Content, PutBy
    <3>3. Content(req.body)' = Content(req.body)
      BY <1>3, <3>2 DEF Content
    <3> QED BY <2>1, <3>1, <3>3
  <2> QED BY <1>3, <2>2 DEF BodyStays
<1> QED BY <1>1, <1>2, <1>4, <1>5 DEF HandlingInv

\* decompress, whether there are codings to take off or not, or the request is
\* answered because one of them is not supported.
LEMMA DecompressInv ==
  ASSUME HandlingInv, ScopesGive, Built, Decompress
  PROVE  HandlingInv'
<1> DEFINE lines == req.headers["content-encoding"]
           tokens == Get(req.headers, "content-encoding")
<1>1. GoingIn /\ at <= Len(Chain) /\ Here = "decompress" /\ serving # 0
  BY DEF Decompress, GoingIn
<1>2. IsRequest(req) /\ IsHeaders(req.headers) /\ req.body \in Streams
  BY <1>1 DEF HandlingInv, HandlingTypes, IsRequest
<1>3. /\ lines \in Seq(Seq(STRING)) /\ tokens = lines[1]
      /\ HasHeader(req.headers, "content-encoding") <=> lines # << >>
  BY <1>2 DEF IsHeaders, Get, HasHeader
<1>4. CASE ~HasHeader(req.headers, "content-encoding") /\ Inward(req)
  <2>1. lines = << >>
    BY <1>3, <1>4
  <2>2. Named(req.headers) = << >>
    BY <1>4 DEF Named
  <2>3. Len(lines) <= 1
    BY <2>1
  <2>4. Named(req.headers) = req.body.codings => /\ req.body.codings = << >>
                                                 /\ req.body.fails = req.body.fails
    BY <2>2
  <2> QED BY <1>1, <1>2, <1>4, <2>2, <2>3, <2>4, DecompressIn
<1>5. CASE HasHeader(req.headers, "content-encoding") /\ Inward(Decoded(TakenOff(tokens)))
  <2> DEFINE stream == TakenOff(tokens)
             h == EraseHeader(req.headers, "content-encoding")
             q == [req EXCEPT !.headers = h]
             r == Decoded(stream)
  <2>1. tokens \in Seq(STRING)
    <3> DEFINE U == Seq(STRING)
    <3>1. lines \in Seq(U) /\ lines # << >>
      BY <1>3, <1>5
    <3> HIDE DEF U, lines, tokens
    <3>2. lines[1] \in U
      BY <3>1
    <3> QED BY <1>3, <3>2 DEF U
  <2> HIDE DEF tokens
  <2>2. /\ stream \in Streams /\ stream.data = req.body.data /\ stream.gone = req.body.gone
        /\ req.body.codings = << >> => stream.codings = << >>
        /\ req.body.codings = Codings(tokens) => /\ stream.codings = << >>
                                                 /\ stream.fails = req.body.fails
    BY <1>2, <2>1, TakenOffIs
  <2> HIDE DEF stream
  <2>3. IsHeaders(h) /\ h["content-encoding"] = << >>
    <3>1. DOMAIN h = Fields /\ "content-encoding" \in Fields
      BY <1>2 DEF IsHeaders, EraseHeader
    <3>2. h["content-encoding"] = << >>
      BY <1>2 DEF IsHeaders, EraseHeader
    <3>3. << >> \in Seq(Seq(STRING))
      <4> DEFINE U == Seq(STRING)
      <4> HIDE DEF U
      <4>1. << >> \in Seq(U)
        OBVIOUS
      <4> QED BY <4>1 DEF U
    <3> HIDE DEF h
    <3> QED BY <3>1, <3>2, <3>3 DEF IsHeaders
  <2> HIDE DEF h
  <2>4. IsRequest(q) /\ q = Request(h, req.path, req.query, req.body, req.states)
    BY <1>2, <2>3, WithPart
  <2>5. r = [q EXCEPT !.body = stream]
    BY DEF Decoded, WithBody, h
  <2> HIDE DEF q, r
  <2>6. IsRequest(r) /\ r = Request(q.headers, q.path, q.query, stream, q.states)
    BY <2>2, <2>3, <2>4, <2>5, WithPart
  <2>7. /\ r.headers = h /\ r.path = req.path /\ r.query = req.query /\ r.states = req.states
        /\ r.body = stream
    BY <2>4, <2>6 DEF Request
  <2>8. Named(r.headers) = << >> /\ Len(r.headers["content-encoding"]) <= 1
    <3>1. Len(<< >>) <= 1
      OBVIOUS
    <3> QED BY <2>3, <2>7, <3>1 DEF Named, HasHeader
  <2>9. Named(req.headers) = Codings(tokens)
    BY <1>5 DEF Named, tokens
  <2>10. Inward(r)
    BY <1>5 DEF r, stream
  <2> QED BY <1>1, <2>2, <2>6, <2>7, <2>8, <2>9, <2>10, DecompressIn
<1>6. CASE req' = WithBody(req, Gone) /\ AnswerAt(TextAnswer(400, "unsupported"))
  <2>1. /\ serving' = serving /\ sent' = sent /\ args' = args /\ ws' = ws /\ at' = at - 1
        /\ outcome' = Responds(TextAnswer(400, "unsupported"))
    BY <1>6 DEF AnswerAt
  <2>2. IsOutcome(outcome') /\ outcome' # Nothing
    BY <2>1, AnswerStatus, RespondsIs
  <2>3. IsRequest(req)'
    <3>1. IsRequest(WithBody(req, Gone))
      BY <1>2, PutStreams, WithPart DEF WithBody
    <3>2. Streams' = Streams
      BY <2>1, MeaningStays
    <3> QED BY <1>6, <3>1, <3>2 DEF IsRequest, IsHeaders
  <2>4. at > 0
    BY <1>1 DEF GoingIn, HandlingInv, HandlingTypes
  <2> QED BY <1>1, <2>1, <2>2, <2>3, <2>4, OutTypes, WsStatus
<1> QED BY <1>4, <1>5, <1>6 DEF Decompress
-----------------------------------------------------------------------------
(* The arguments of the handler.                                           *)

\* What is promised of a new argument.
Meant(kind, value) ==
  CASE kind = "path_of" -> LastA(sent.params)
    [] kind = "path_tuple" -> Cardinality(OfA(sent.params)) = Len(sent.params) => LastA(sent.params)
    [] kind = "query_of" -> LastA(sent.query) \/ "set_query" \in Mounted
    [] kind = "string" -> value = IF BodyRead THEN Spent ELSE BodyMeant
    [] kind = "form_of" -> ~BodyRead /\ FormIsMeant(BodyMeant.data)
    [] kind = "json_of" -> ~BodyRead /\ value = BodyMeant
    [] kind \in Types -> value = Nearest(server[serving], kind)
    [] OTHER -> TRUE

\* An argument more is the one that is meant.
LEMMA NewArgument ==
  ASSUME args \in Seq(ToSet(args)), Built, serving' = serving, sent' = sent,
         NEW kind, NEW value, args' = Append(args, [kind |-> kind, value |-> value]),
         Meant(kind, value), NEW j, j = Len(args) + 1
  PROVE  ArgumentIsMeant(j)'
<1> DEFINE n == Len(args)
           N(t) == Nearest(server[serving], t)
<1>1. /\ n \in Nat /\ DOMAIN args = 1..n /\ j - 1 = n
      /\ \A k \in 1..n : args'[k] = args[k]
      /\ args'[j] = [kind |-> kind, value |-> value]
  BY ArgsMore
<1>2. args'[j].kind = kind /\ args'[j].value = value
  BY <1>1
<1> HIDE DEF n
<1>3. BodyMeant' = BodyMeant /\ Mounted' = Mounted /\ N(kind)' = N(kind)
  BY MeaningStays
<1>4. Earlier(j)' <=> BodyRead
  BY <1>1 DEF BodyRead, Earlier
<1>5. /\ LastA(sent.params)' <=> LastA(sent.params)
      /\ LastA(sent.query)' <=> LastA(sent.query)
      /\ OfA(sent.params)' = OfA(sent.params) /\ OfA(sent.query)' = OfA(sent.query)
      /\ Len(sent.params)' = Len(sent.params)
  OBVIOUS
<1>6. FormIsMeant(BodyMeant.data)' <=> FormIsMeant(BodyMeant.data)
  BY <1>3 DEF FormIsMeant
<1> QED BY <1>2, <1>3, <1>4, <1>5, <1>6 DEF ArgumentIsMeant, Meant, Spent

\* The handler gets one more argument.
LEMMA ArgumentTaken ==
  ASSUME HandlingInv, ScopesGive, Built, AtHandler, NEW kind, NEW value,
         args' = Append(args, [kind |-> kind, value |-> value]),
         serving' = serving, sent' = sent, at' = at, outcome' = outcome,
         ws'.status \in Statuses \cup {0},
         IsRequest(req)', req'.path = req.path, req'.query = req.query,
         req'.states = req.states,
         kind \in BodyKinds => Content(req.body)' = Spent,
         kind \notin BodyKinds => req' = req,
         Truthful /\ Mounted \cap Losing = {} => Meant(kind, value)
  PROVE  HandlingInv'
<1>1. GoingIn /\ serving # 0 /\ outcome = Nothing /\ at > Len(Chain) /\ HandlingTypes
  BY DEF AtHandler, GoingIn, HandlingInv
<1>2. /\ args \in Seq(ToSet(args)) /\ at \in 0..(Len(Chain) + 1) /\ at > 0
      /\ serving \in 0..Len(server) /\ IsMessage(sent) /\ IsOutcome(outcome)
  BY <1>1 DEF HandlingTypes
<1>3. /\ args' \in Seq(ToSet(args')) /\ Len(args) \in Nat
      /\ DOMAIN args = 1..Len(args) /\ DOMAIN args' = 1..(Len(args) + 1)
      /\ \A k \in 1..Len(args) : args'[k] = args[k]
      /\ args'[Len(args) + 1] = [kind |-> kind, value |-> value]
  BY <1>2, ArgsMore
<1>4. /\ Chain' = Chain /\ Mounted' = Mounted /\ (Truthful' <=> Truthful)
      /\ Streams' = Streams
  BY MeaningStays
<1>5. HandlingTypes'
  <2>1. /\ serving' \in 0..Len(server') /\ IsMessage(sent)' /\ IsOutcome(outcome')
        /\ at' \in 0..(Len(Chain') + 1) /\ at' > 0 /\ at' > Len(Chain')
    BY <1>1, <1>2, <1>4 DEF Built
  <2> QED BY <1>1, <1>3, <2>1 DEF HandlingTypes
<1>6. ArgumentsAreMeant'
  <2> SUFFICES ASSUME Truthful', Mounted' \cap Losing = {}, NEW j \in DOMAIN args'
               PROVE  ArgumentIsMeant(j)'
    BY DEF ArgumentsAreMeant
  <2>1. CASE j \in 1..Len(args)
    <3>1. ArgumentIsMeant(j)
      BY <1>1, <1>3, <1>4, <2>1 DEF HandlingInv, ArgumentsAreMeant
    <3>2. j \in Nat /\ j > 0 /\ \A k \in 1..j : args'[k] = args[k]
      BY <1>3, <2>1
    <3> QED BY <3>1, <3>2, OldArgument
  <2>2. CASE j = Len(args) + 1
    <3>1. Meant(kind, value)
      BY <1>4
    <3> QED BY <1>2, <2>2, <3>1, NewArgument
  <2> QED BY <1>3, <2>1, <2>2
<1>7. BodyRead' <=> BodyRead \/ kind \in BodyKinds
  <2> DEFINE n == Len(args)
  <2>1. /\ n \in Nat /\ DOMAIN args = 1..n /\ DOMAIN args' = 1..(n + 1)
        /\ \A k \in 1..n : args'[k] = args[k]
        /\ args'[n + 1].kind = kind
    BY <1>3
  <2> HIDE DEF n
  <2>2. \A k \in 1..(n + 1) : k \in 1..n \/ k = n + 1
    BY <2>1
  <2>3. n + 1 \in 1..(n + 1) /\ \A k \in 1..n : k \in 1..(n + 1)
    BY <2>1
  <2> QED BY <2>1, <2>2, <2>3 DEF BodyRead
<1>8. /\ GoingIn' /\ (Faithful' <=> Faithful) /\ Rewriters' = Rewriters /\ Entered' = Entered
      /\ \A k : PutBy(k)' = PutBy(k)
  BY <1>1, <1>4 DEF GoingIn, Faithful, Rewriters, Entered, PutBy
<1>9. Told'
  <2> SUFFICES ASSUME ~BodyRead', Truthful', Rewriters' = {} PROVE Told'
    BY DEF Told
  <2>1. req' = req /\ ~BodyRead
    BY <1>7
  <2> QED BY <1>1, <1>4, <1>8, <2>1 DEF Told, HandlingInv
<1>10. BodyStays'
  <2> SUFFICES ASSUME Faithful', Truthful'
               PROVE  /\ BodyRead' => Content(req.body)' = Spent
                      /\ ~BodyRead' =>
                           \A k \in Rewriters' : (\A j \in Rewriters' : j <= k) =>
                             Content(req.body)' = PutBy(k)'
    BY DEF BodyStays
  <2>1. CASE kind \in BodyKinds
    BY <1>7, <2>1
  <2>2. CASE kind \notin BodyKinds
    <3>1. Content(req.body)' = Content(req.body)
      BY <2>2 DEF Content
    <3> QED BY <1>4, <1>7, <1>8, <2>2, <3>1 DEF BodyStays, HandlingInv
  <2> QED BY <2>1, <2>2
<1>11. PartsStay'
  <2>1. QueryStays(req.query) => QueryStays(req.query)'
    BY <1>8 DEF QueryStays
  <2> QED BY <1>8, <2>1 DEF PartsStay, HandlingInv, Built
<1> QED BY <1>5, <1>6, <1>9, <1>10, <1>11 DEF HandlingInv

\* An extractor that failed has answered.
LEMMA ArgumentRefused ==
  ASSUME HandlingInv, ScopesGive, Built, AtHandler, NEW kind, NEW status \in {400, 500},
         Argument(kind, Refused(status)), serving' = serving, sent' = sent,
         ws'.status \in Statuses \cup {0}, IsRequest(req)'
  PROVE  HandlingInv'
<1>1. /\ outcome' = Responds(TextAnswer(status, "refused")) /\ at' = at - 1 /\ args' = args
  BY DEF Argument, Refused
<1>2. IsOutcome(outcome') /\ outcome' # Nothing
  BY <1>1, AnswerStatus, RespondsIs
<1>3. serving # 0 /\ at > 0
  BY DEF AtHandler, GoingIn, HandlingInv, HandlingTypes
<1> QED BY <1>1, <1>2, <1>3, OutTypes

\* The parameters of the path.
LEMMA PathIsMeant ==
  ASSUME HandlingInv, AtHandler, Mounted \cap Losing = {}
  PROVE  /\ \A v : FromPath = Extracted(v) => LastA(sent.params)
         /\ \A v : FromPathTuple = Extracted(v) =>
              (Cardinality(OfA(sent.params)) = Len(sent.params) => LastA(sent.params))
<1> DEFINE p == sent.params
           m == QueryFrom(p)
           A == OfA(p)
           n == Len(p)
<1>1. req.path = PathInfo(p) /\ p \in Params
  BY DEF AtHandler, Faithful, HandlingInv, PartsStay, HandlingTypes, GoingIn, IsMessage
<1>2. req.path.map = m /\ PathSize(req.path) = Cardinality(DOMAIN m)
      /\ \A k \in DOMAIN p : req.path.keys[k] = p[k].name
  BY <1>1 DEF PathInfo, PathSize
<1>3. /\ "a" \in DOMAIN m <=> A # {}
      /\ A # {} => m["a"] = p[Max(A)].value
      /\ p = << >> => m = NoParams
  BY <1>1, QueryIs
<1>4. /\ A = {k \in 1..n : IsA(p[k])} /\ n \in Nat
      /\ A # {} => Max(A) \in A
  BY <1>1, OfAIs
<1>5. DOMAIN p = 1..n /\ (n = 0 => p = << >>)
  <2> DEFINE U == [name : STRING, has : BOOLEAN, value : STRING]
  <2>1. p \in Seq(U)
    BY <1>1 DEF Params
  <2> HIDE DEF U, p
  <2> QED BY <2>1
<1>6. A # {} /\ m["a"] = "number" => LastA(p)
  BY <1>3, <1>4 DEF LastA, Numbered, IsA
<1>7. \A s : Refused(s).ok = FALSE
  BY DEF Refused
<1>8. \A v : Extracted(v).ok = TRUE
  BY DEF Extracted
<1> HIDE DEF A, n, m, p
<1>9. ASSUME NEW v, FromPath = Extracted(v) PROVE LastA(p)
  <2>1. Converts(req.path.map)
    BY <1>7, <1>8, <1>9 DEF FromPath
  <2> QED BY <1>2, <1>3, <1>6, <2>1 DEF Converts, IsIn
<1>10. ASSUME NEW v, FromPathTuple = Extracted(v), Cardinality(A) = n PROVE LastA(p)
  <2>1. PathSize(req.path) = 1 /\ PathAt(req.path, 1) = "number"
    BY <1>7, <1>8, <1>10 DEF FromPathTuple
  <2>2. n # 0
    <3> SUFFICES ASSUME n = 0 PROVE FALSE
      OBVIOUS
    <3>1. DOMAIN m = {}
      BY <1>3, <1>5 DEF NoParams
    <3>2. Cardinality(DOMAIN m) = 0
      BY <3>1, FS_EmptySet
    <3> QED BY <1>2, <2>1, <3>2
  <2>3. A = 1..n
    <3>1. IsFiniteSet(1..n) /\ Cardinality(1..n) = n
      BY <1>4, FS_Interval
    <3>2. A \subseteq 1..n
      BY <1>4
    <3> QED BY <1>10, <3>1, <3>2, FS_Subset
  <2>4. 1 \in A /\ p[1].name = "a" /\ 1 \in DOMAIN p
    BY <1>4, <1>5, <2>2, <2>3 DEF IsA
  <2>5. PathAt(req.path, 1) = m["a"]
    BY <1>2, <2>4 DEF PathAt
  <2> QED BY <1>6, <2>1, <2>4, <2>5
<1> QED BY <1>9, <1>10 DEF A, n, p

\* A map with the one wanted field.
LEMMA FieldsAre ==
  ASSUME NEW m, NEW v, FieldsOf(m) = Extracted(v)
  PROVE  "a" \in DOMAIN m /\ m["a"] = "number"
<1>1. Refused(400).ok = FALSE /\ Extracted(v).ok = TRUE
  BY DEF Refused, Extracted
<1>2. Converts(m)
  BY <1>1 DEF FieldsOf
<1> QED BY <1>2 DEF Converts, IsIn

\* The fields of the query.
LEMMA QueryIsMeant ==
  ASSUME HandlingInv, ScopesGive, AtHandler, Mounted \cap Losing = {},
         NEW v, FieldsOf(req.query) = Extracted(v)
  PROVE  LastA(sent.query) \/ "set_query" \in Mounted
<1>1. "a" \in DOMAIN req.query /\ req.query["a"] = "number"
  BY FieldsAre
<1>2. QueryStays(req.query) /\ sent.query \in Params /\ HandlingTypes /\ serving # 0
  BY DEF AtHandler, Faithful, HandlingInv, PartsStay, HandlingTypes, GoingIn, IsMessage
<1> DEFINE q == sent.query
           A == OfA(q)
<1>3. A = {k \in 1..Len(q) : IsA(q[k])} /\ (A # {} => Max(A) \in A)
  BY <1>2, OfAIs
<1>4. /\ A # {} => q[Max(A)].value = "number"
      /\ A = {} => "set_query" \in Entered
  BY <1>1, <1>2 DEF QueryStays
<1>5. Entered \subseteq Mounted
  <2> DEFINE n == Len(Chain)
  <2>1. n \in Nat /\ DOMAIN Chain = 1..n /\ at \in Nat /\ at \in 0..(n + 1)
    BY <1>2, ChainType DEF HandlingTypes
  <2> HIDE DEF n
  <2>2. \A k \in 1..(at - 1) : k \in DOMAIN Chain
    BY <2>1
  <2> QED BY <2>2 DEF Entered, Mounted
<1> HIDE DEF q, A
<1>6. A # {} => LastA(q)
  BY <1>3, <1>4 DEF LastA, Numbered, IsA, A
<1> QED BY <1>4, <1>5, <1>6 DEF q, A

\* A state.
LEMMA StateIsMeant ==
  ASSUME HandlingInv, ScopesGive, AtHandler, Mounted \cap Losing = {},
         NEW t \in Types, NEW v, FromStates(t) = Extracted(v)
  PROVE  v = Nearest(server[serving], t)
<1>1. req.states = server[serving].maps /\ serving \in DOMAIN server
  <2>1. HandlingTypes /\ serving # 0
    BY DEF AtHandler, GoingIn, HandlingInv
  <2>2. serving \in DOMAIN server
    BY <2>1, ChainType
  <2> QED BY <2>2 DEF AtHandler, Faithful, HandlingInv, PartsStay
<1>2. Refused(500).ok = FALSE /\ Extracted(v).ok = TRUE /\ Extracted(v).value = v
  BY DEF Refused, Extracted
<1>3. FromStates(t) = Extracted(Found(req.states, t))
  BY <1>2 DEF FromStates
<1>4. Extracted(Found(req.states, t)).value = Found(req.states, t)
  BY DEF Extracted
<1>5. v = Found(req.states, t)
  BY <1>2, <1>3, <1>4
<1> QED BY <1>1, <1>5 DEF ScopesGive, NearestState

\* The body.
LEMMA BodyIsMeant ==
  ASSUME HandlingInv, ScopesGive, AtHandler, Truthful, Mounted \cap Losing = {}
  PROVE  Content(req.body) = IF BodyRead THEN Spent ELSE BodyMeant
<1>1. Told /\ BodyStays /\ HandlingTypes /\ GoingIn /\ Faithful /\ serving # 0
  BY DEF AtHandler, GoingIn, Faithful, HandlingInv
<1>2. CASE BodyRead
  BY <1>1, <1>2 DEF BodyStays
<1>3. CASE ~BodyRead
  <2> DEFINE n == Len(Chain)
             puts == {k \in DOMAIN Chain : Chain[k].mw \in BodyRewrites}
  <2>1. n \in Nat /\ DOMAIN Chain = 1..n /\ at = n + 1
    <3>1. n \in Nat /\ DOMAIN Chain = 1..n /\ at \in 0..(n + 1) /\ at \in Nat /\ at > n
      BY <1>1, ChainType DEF HandlingTypes, AtHandler
    <3> HIDE DEF n
    <3> QED BY <3>1
  <2> HIDE DEF n
  <2>2. 1..(at - 1) = 1..n
    BY <2>1
  <2>3. Rewriters = puts /\ Entered = Mounted
    BY <2>1, <2>2 DEF Rewriters, Entered, Mounted
  <2>4. puts \subseteq 1..n
    BY <2>1
  <2>5. BodyMeant = IF puts # {}
                      THEN PutBy(CHOOSE k \in puts : \A j \in puts : j <= k)
                      ELSE [data |-> sent.data,
                            codings |-> IF "decompress" \in Mounted THEN << >> ELSE sent.codings]
    BY DEF BodyMeant, PutBy
  <2> HIDE DEF puts
  <2>6. CASE puts = {}
    <3>1. /\ req.body.data = sent.data
          /\ req.body.codings = IF "decompress" \in Mounted THEN << >> ELSE sent.codings
      BY <1>1, <1>3, <2>3, <2>6 DEF Told
    <3> QED BY <1>3, <2>5, <2>6, <3>1 DEF Content
  <2>7. CASE puts # {}
    <3> DEFINE last == CHOOSE k \in puts : \A j \in puts : j <= k
    <3>1. last \in puts /\ \A j \in puts : j <= last
      <4>1. \E x \in puts : \A y \in puts : y <= x
        BY <2>1, <2>4, <2>7, HasMax
      <4> QED BY <4>1
    <3> HIDE DEF last
    <3>2. Content(req.body) = PutBy(last)
      BY <1>1, <1>3, <2>3, <3>1 DEF BodyStays
    <3> QED BY <1>3, <2>5, <2>7, <3>2 DEF last
  <2> QED BY <2>6, <2>7
<1> QED BY <1>2, <1>3

\* What is promised, kind by kind.
LEMMA BodyMeans ==
  ASSUME NEW kind, kind \notin Types, NEW value
  PROVE  /\ kind = "string" => (Meant(kind, value) <=> value = IF BodyRead THEN Spent ELSE BodyMeant)
         /\ kind = "form_of" => (Meant(kind, value) <=> ~BodyRead /\ FormIsMeant(BodyMeant.data))
         /\ kind = "json_of" => (Meant(kind, value) <=> ~BodyRead /\ value = BodyMeant)
<1>1. ASSUME kind = "string"
      PROVE  Meant(kind, value) <=> value = IF BodyRead THEN Spent ELSE BodyMeant
  BY <1>1 DEF Meant
<1>2. ASSUME kind = "form_of"
      PROVE  Meant(kind, value) <=> ~BodyRead /\ FormIsMeant(BodyMeant.data)
  BY <1>2 DEF Meant
<1>3. ASSUME kind = "json_of"
      PROVE  Meant(kind, value) <=> ~BodyRead /\ value = BodyMeant
  BY <1>3 DEF Meant
<1> QED BY <1>1, <1>2, <1>3

\* The same of what is not read from the body.
LEMMA OtherMeans ==
  ASSUME NEW kind, kind \notin BodyKinds, NEW value
  PROVE  /\ kind \notin Types /\ kind = "path_of" => (Meant(kind, value) <=> LastA(sent.params))
         /\ kind \notin Types /\ kind = "path_tuple" =>
              (Meant(kind, value) <=>
                 (Cardinality(OfA(sent.params)) = Len(sent.params) => LastA(sent.params)))
         /\ kind \notin Types /\ kind = "query_of" =>
              (Meant(kind, value) <=> LastA(sent.query) \/ "set_query" \in Mounted)
         /\ kind \notin Types /\ kind \in {"request", "websocket"} => Meant(kind, value)
         /\ kind \in Types => (Meant(kind, value) <=> value = Nearest(server[serving], kind))
<1>1. \A t \in Types : t \notin {"path_of", "path_tuple", "query_of", "request", "websocket"}
  BY ArgumentsAssumption DEF LibraryKinds
<1>2. \A t \in Types : t \notin {"string", "form_of", "json_of"}
  BY ArgumentsAssumption DEF BodyKinds
<1>3. ASSUME kind \notin Types, kind = "path_of"
      PROVE  Meant(kind, value) <=> LastA(sent.params)
  BY <1>3 DEF Meant
<1>4. ASSUME kind \notin Types, kind = "path_tuple"
      PROVE  Meant(kind, value) <=>
               (Cardinality(OfA(sent.params)) = Len(sent.params) => LastA(sent.params))
  BY <1>4 DEF Meant
<1>5. ASSUME kind \notin Types, kind = "query_of"
      PROVE  Meant(kind, value) <=> LastA(sent.query) \/ "set_query" \in Mounted
  BY <1>5 DEF Meant
<1>6. ASSUME kind \notin Types, kind \in {"request", "websocket"} PROVE Meant(kind, value)
  BY <1>6 DEF Meant
<1>7. ASSUME kind \in Types PROVE Meant(kind, value) <=> value = Nearest(server[serving], kind)
  BY <1>1, <1>2, <1>7 DEF Meant
<1> QED BY <1>3, <1>4, <1>5, <1>6, <1>7

\* Of nothing there is no parameter.
LEMMA NoneOfA == OfA(<< >>) = {}
BY DEF OfA

\* What is read of the body.
LEMMA ReadIsMeant ==
  ASSUME HandlingInv, ScopesGive, AtHandler, Truthful, Mounted \cap Losing = {},
         NEW kind \in BodyKinds, NEW v, FromBody(kind) = Extracted(v)
  PROVE  Meant(kind, v)
<1>1. Content(req.body) = IF BodyRead THEN Spent ELSE BodyMeant
  BY BodyIsMeant
<1>2. /\ \A s : Refused(s).ok = FALSE
      /\ \A w : Extracted(w).ok = TRUE /\ Extracted(w).value = w
  BY DEF Refused, Extracted
<1>3. kind \notin Types
  BY ArgumentsAssumption
<1>4. Content(req.body).data = req.body.data /\ Spent.data = ""
  BY DEF Content, Spent
<1>5. CASE kind = "string"
  <2>1. Extracted(Content(req.body)) = Extracted(v)
    BY <1>5 DEF FromBody
  <2>2. v = Content(req.body)
    BY <1>2, <2>1
  <2> QED BY <1>1, <1>3, <1>5, <2>2, BodyMeans
<1>6. CASE kind = "form_of"
  <2> DEFINE data == req.body.data
             p == Forms[data]
             A == OfA(p)
  <2>1. data \in DOMAIN Forms /\ FieldsOf(FormFrom(p)) = Extracted(v)
    BY <1>2, <1>6 DEF FromBody
  <2>2. "a" \in DOMAIN FormFrom(p) /\ FormFrom(p)["a"] = "number"
    BY <2>1, FieldsAre
  <2>3. p \in Params
    BY <2>1, ArgumentsAssumption
  <2>4. A # {} /\ p[Min(A)].value = "number"
    BY <2>2, <2>3, FormIs
  <2>5. A = {k \in 1..Len(p) : IsA(p[k])} /\ Min(A) \in A
    BY <2>3, <2>4, OfAIs
  <2>6. FormIsMeant(data)
    <3> HIDE DEF A
    <3>1. OnlyA(p)
      <4>1. \A k \in A : A = {k} => Min(A) = k
        BY <2>5
      <4> QED BY <2>4, <2>5, <4>1 DEF OnlyA, Numbered, IsA, A
    <3> QED BY <2>1, <3>1 DEF FormIsMeant
  <2>7. data # ""
    <3> SUFFICES ASSUME data = "" PROVE FALSE
      OBVIOUS
    <3>1. p = << >>
      BY <2>1, ArgumentsAssumption
    <3> HIDE DEF p
    <3>2. A = {}
      BY <3>1, NoneOfA
    <3> HIDE DEF A
    <3> QED BY <2>4, <3>2
  <2>8. ~BodyRead /\ BodyMeant.data = data
    BY <1>1, <1>4, <2>7
  <2> QED BY <1>3, <1>6, <2>6, <2>8, BodyMeans
<1>7. CASE kind = "json_of"
  <2>1. req.body.data \in Jsons /\ Extracted(Content(req.body)) = Extracted(v)
    BY <1>2, <1>7 DEF FromBody
  <2>2. v = Content(req.body) /\ req.body.data # ""
    BY <1>2, <2>1, ArgumentsAssumption
  <2>3. ~BodyRead
    BY <1>1, <1>4, <2>2
  <2> QED BY <1>1, <1>3, <1>7, <2>2, <2>3, BodyMeans
<1> QED BY <1>5, <1>6, <1>7 DEF BodyKinds

\* An argument that is not read from the body is what it should be, or refused.
LEMMA OthersAre ==
  ASSUME HandlingInv, ScopesGive, AtHandler, NEW kind \in Others
  PROVE  \/ \E s \in {400, 500} : FromOthers(kind) = Refused(s)
         \/ \E v : /\ FromOthers(kind) = Extracted(v)
                   /\ Mounted \cap Losing = {} => Meant(kind, v)
<1>1. /\ \A t \in Types : t \notin LibraryKinds
      /\ kind \notin BodyKinds
  BY ArgumentsAssumption DEF Others, LibraryKinds, BodyKinds
<1>2. CASE kind = "request"
  <2>1. kind \notin Types
    BY <1>1, <1>2 DEF LibraryKinds
  <2>2. FromOthers(kind) = Extracted("all")
    BY <1>2, <2>1 DEF FromOthers
  <2> QED BY <1>1, <1>2, <2>1, <2>2, OtherMeans
<1>3. CASE kind = "path_of"
  <2>1. kind \notin Types
    BY <1>1, <1>3 DEF LibraryKinds
  <2>2. FromOthers(kind) = FromPath
    BY <1>3, <2>1 DEF FromOthers
  <2>3. \/ FromPath = Refused(500) \/ FromPath = Refused(400)
        \/ \E v : FromPath = Extracted(v)
    BY DEF FromPath
  <2>4. \A v : FromPath = Extracted(v) => (Mounted \cap Losing = {} => Meant(kind, v))
    BY <1>1, <1>3, <2>1, PathIsMeant, OtherMeans
  <2> QED BY <2>2, <2>3, <2>4
<1>4. CASE kind = "path_tuple"
  <2>1. kind \notin Types
    BY <1>1, <1>4 DEF LibraryKinds
  <2>2. FromOthers(kind) = FromPathTuple
    BY <1>4, <2>1 DEF FromOthers
  <2>3. FromPathTuple = Refused(400) \/ \E v : FromPathTuple = Extracted(v)
    BY DEF FromPathTuple
  <2>4. \A v : FromPathTuple = Extracted(v) => (Mounted \cap Losing = {} => Meant(kind, v))
    BY <1>1, <1>4, <2>1, PathIsMeant, OtherMeans
  <2> QED BY <2>2, <2>3, <2>4
<1>5. CASE kind = "query_of"
  <2>1. kind \notin Types
    BY <1>1, <1>5 DEF LibraryKinds
  <2>2. FromOthers(kind) = FieldsOf(req.query)
    BY <1>5, <2>1 DEF FromOthers
  <2>3. FieldsOf(req.query) = Refused(400) \/ \E v : FieldsOf(req.query) = Extracted(v)
    BY DEF FieldsOf
  <2>4. \A v : FieldsOf(req.query) = Extracted(v) => (Mounted \cap Losing = {} => Meant(kind, v))
    BY <1>1, <1>5, <2>1, QueryIsMeant, OtherMeans
  <2> QED BY <2>2, <2>3, <2>4
<1>6. CASE kind = "websocket"
  <2>1. kind \notin Types
    BY <1>1, <1>6 DEF LibraryKinds
  <2>2. FromOthers(kind) = FromWebSocket
    BY <1>6, <2>1 DEF FromOthers
  <2>3. FromWebSocket = Refused(400) \/ \E v : FromWebSocket = Extracted(v)
    BY DEF FromWebSocket
  <2>4. \A v : Meant(kind, v)
    BY <1>1, <1>6, <2>1, OtherMeans
  <2> QED BY <2>2, <2>3, <2>4
<1>7. CASE kind \in Types
  <2>1. kind \notin {"request", "path_of", "path_tuple", "query_of", "websocket"}
    BY <1>1, <1>7 DEF LibraryKinds
  <2>2. FromOthers(kind) = FromStates(kind)
    BY <1>7, <2>1 DEF FromOthers
  <2>3. FromStates(kind) = Refused(500) \/ \E v : FromStates(kind) = Extracted(v)
    BY DEF FromStates
  <2>4. \A v : FromStates(kind) = Extracted(v) => (Mounted \cap Losing = {} => Meant(kind, v))
    BY <1>1, <1>7, StateIsMeant, OtherMeans
  <2> QED BY <2>2, <2>3, <2>4
<1> QED BY <1>2, <1>3, <1>4, <1>5, <1>6, <1>7 DEF Others, LibraryKinds

\* The handler's next argument, one that leaves the body alone, is extracted.
LEMMA ExtractInv ==
  ASSUME HandlingInv, ScopesGive, Built, NEW kind, Extract(kind)
  PROVE  HandlingInv'
<1>1. /\ AtHandler /\ kind \in Others /\ Argument(kind, FromOthers(kind))
      /\ serving' = serving /\ sent' = sent /\ req' = req
      /\ ws' = IF kind = "websocket" /\ sent.upgrade # "no" THEN Handshake ELSE ws
  BY DEF Extract
<1>2. HandlingTypes /\ serving # 0
  BY <1>1 DEF HandlingInv, AtHandler, GoingIn
<1>3. ws'.status \in Statuses \cup {0}
  <2>1. CASE kind = "websocket" /\ sent.upgrade # "no"
    <3>1. sent.upgrade \in {"good", "bad", "old"}
      BY <1>2, <2>1 DEF HandlingTypes, IsMessage
    <3>2. Handshake.status \in {101, 400, 426}
      BY <3>1, HandshakeStatus
    <3>3. ws' = Handshake
      BY <1>1, <2>1
    <3> QED BY <3>2, <3>3, AnswerStatus
  <2>2. CASE ~(kind = "websocket" /\ sent.upgrade # "no")
    <3>1. ws' = ws
      BY <1>1, <2>2
    <3> QED BY <1>2, <3>1 DEF HandlingTypes
  <2> QED BY <2>1, <2>2
<1>4. IsRequest(req)'
  <2>1. Streams' = Streams
    BY <1>1, MeaningStays
  <2> QED BY <1>1, <1>2, <2>1 DEF HandlingTypes, IsRequest, IsHeaders
<1>5. CASE \E s \in {400, 500} : FromOthers(kind) = Refused(s)
  BY <1>1, <1>3, <1>4, <1>5, ArgumentRefused
<1>6. CASE \E v : /\ FromOthers(kind) = Extracted(v)
                  /\ Mounted \cap Losing = {} => Meant(kind, v)
  <2>1. PICK v : /\ FromOthers(kind) = Extracted(v)
                 /\ Mounted \cap Losing = {} => Meant(kind, v)
    BY <1>6
  <2>2. /\ args' = Append(args, [kind |-> kind, value |-> v])
        /\ at' = at /\ outcome' = outcome
    <3>1. Argument(kind, Extracted(v))
      BY <1>1, <2>1
    <3> QED BY <3>1 DEF Argument, Extracted
  <2>3. kind \notin BodyKinds
    BY <1>1, ArgumentsAssumption DEF Others, LibraryKinds, BodyKinds
  <2>4. req'.path = req.path /\ req'.query = req.query /\ req'.states = req.states
    BY <1>1
  <2> QED BY <1>1, <1>3, <1>4, <2>1, <2>2, <2>3, <2>4, ArgumentTaken
<1> QED BY <1>1, <1>5, <1>6, OthersAre

\* What is left of a body that was read.
LEMMA DrainedIs ==
  ASSUME NEW stream \in Streams
  PROVE  Drained(stream) \in Streams /\ Content(Drained(stream)) = Spent
<1> DEFINE C == ToSet(sent.codings)
           g == stream.gone
           f == stream.fails
           d == stream.data
           c == stream.codings
           nil == << >>
           none == ""
           p == [gone |-> g, fails |-> f, data |-> none, codings |-> c]
           q == [gone |-> g, fails |-> f, data |-> none, codings |-> nil]
<1>1. g \in BOOLEAN /\ f \in BOOLEAN /\ nil \in Seq(C)
  <2> HIDE DEF C
  <2>1. nil \in Seq(C)
    OBVIOUS
  <2> QED BY <2>1 DEF Streams
<1>2. stream = [gone |-> g, fails |-> f, data |-> d, codings |-> c]
  BY DEF Streams
<1>3. q \in Streams /\ Content(q) = Spent
  BY <1>1 DEF Streams, Content, Spent
<1>4. Drained(stream) = [[stream EXCEPT !.data = none] EXCEPT !.codings = nil]
  BY DEF Drained
<1> HIDE DEF nil, none, g, f, d, c
<1>5. [stream EXCEPT !.data = none] = p
  BY <1>2
<1>6. [p EXCEPT !.codings = nil] = q
  OBVIOUS
<1> HIDE DEF p, q
<1> QED BY <1>3, <1>4, <1>5, <1>6

\* The handler's next argument, one that reads the body, is extracted.
LEMMA ExtractBodyInv ==
  ASSUME HandlingInv, ScopesGive, Built, NEW kind, ExtractBody(kind)
  PROVE  HandlingInv'
<1>1. /\ AtHandler /\ kind \in BodyKinds
      /\ serving' = serving /\ sent' = sent /\ ws' = ws
  BY DEF ExtractBody
<1>2. HandlingTypes /\ serving # 0 /\ IsRequest(req) /\ Streams' = Streams /\ at > 0
  BY <1>1, MeaningStays DEF HandlingInv, AtHandler, GoingIn, HandlingTypes
<1>3. ws'.status \in Statuses \cup {0}
  BY <1>1, WsStatus
<1>4. ASSUME req' = req PROVE IsRequest(req)'
  BY <1>2, <1>4 DEF IsRequest, IsHeaders
<1>5. CASE Argument(kind, Refused(400)) /\ req' = req
  BY <1>1, <1>3, <1>4, <1>5, ArgumentRefused
<1>6. CASE outcome' = Undefined /\ UNCHANGED <<at, args, req>>
  <2>1. IsOutcome(outcome') /\ outcome' # Nothing
    BY <1>6 DEF IsOutcome, Undefined, Nothing
  <2> QED BY <1>1, <1>2, <1>3, <1>4, <1>6, <2>1, OutTypes
<1>7. CASE /\ req' = WithBody(req, Drained(req.body))
           /\ Argument(kind, IF req.body.fails THEN Refused(400) ELSE FromBody(kind))
  <2> DEFINE stream == Drained(req.body)
             r == [req EXCEPT !.body = stream]
  <2>1. stream \in Streams /\ Content(stream) = Spent
    BY <1>2, DrainedIs DEF IsRequest
  <2>2. req' = r
    BY <1>7 DEF WithBody
  <2> HIDE DEF stream
  <2>3. IsRequest(r) /\ r = Request(req.headers, req.path, req.query, stream, req.states)
    <3>1. IsHeaders(req.headers)
      BY <1>2 DEF IsRequest
    <3> QED BY <1>2, <2>1, <3>1, WithPart
  <2> HIDE DEF r
  <2>4. /\ r.path = req.path /\ r.query = req.query /\ r.states = req.states
        /\ r.body = stream
    BY <2>3 DEF Request
  <2>5. IsRequest(req)'
    BY <1>2, <2>2, <2>3 DEF IsRequest, IsHeaders
  <2>6. CASE Argument(kind, Refused(400))
    BY <1>1, <1>3, <2>5, <2>6, ArgumentRefused
  <2>7. CASE Argument(kind, FromBody(kind))
    <3>1. CASE FromBody(kind) = Refused(400)
      BY <2>6, <2>7, <3>1
    <3>2. CASE \E v : FromBody(kind) = Extracted(v)
      <4>1. PICK v : FromBody(kind) = Extracted(v)
        BY <3>2
      <4>2. /\ args' = Append(args, [kind |-> kind, value |-> v])
            /\ at' = at /\ outcome' = outcome
        <5>1. Argument(kind, Extracted(v))
          BY <2>7, <4>1
        <5> QED BY <5>1 DEF Argument, Extracted
      <4>3. Content(req.body)' = Spent
        BY <2>1, <2>2, <2>4 DEF Content
      <4>4. Truthful /\ Mounted \cap Losing = {} => Meant(kind, v)
        BY <1>1, <4>1, ReadIsMeant
      <4>5. req'.path = req.path /\ req'.query = req.query /\ req'.states = req.states
        BY <2>2, <2>4
      <4> QED BY <1>1, <1>3, <2>5, <4>2, <4>3, <4>4, <4>5, ArgumentTaken
    <3>3. FromBody(kind) = Refused(400) \/ \E v : FromBody(kind) = Extracted(v)
      <4>1. CASE kind = "string"
        BY <4>1 DEF FromBody
      <4>2. CASE kind = "form_of"
        BY <4>2 DEF FromBody, FieldsOf
      <4>3. CASE kind = "json_of"
        BY <4>3 DEF FromBody
      <4> QED BY <1>1, <4>1, <4>2, <4>3 DEF BodyKinds
    <3> QED BY <3>1, <3>2, <3>3
  <2> QED BY <1>7, <2>6, <2>7
<1> QED BY <1>5, <1>6, <1>7 DEF ExtractBody
-----------------------------------------------------------------------------
(* The program.                                                            *)

\* A request comes.
LEMMA DispatchInv ==
  ASSUME HandlingInv, ScopesGive, Built, NEW k \in DOMAIN server, NEW message,
         IsMessage(message), Dispatch(k, message)
  PROVE  HandlingInv'
<1> DEFINE stream == Stream(message.data, message.codings, message.breaks)
           q == QueryFrom(message.query)
           r == Request(message.headers, PathInfo(message.params), q, stream, server[k].maps)
<1>1. /\ serving = 0 /\ serving' = k /\ sent' = message /\ req' = r /\ at' = 1
      /\ args' = args /\ ws' = ws /\ outcome' = outcome
  BY DEF Dispatch
<1>2. /\ args = << >> /\ outcome = Nothing /\ ws.status \in Statuses \cup {0}
      /\ args \in Seq(ToSet(args))
  BY <1>1 DEF HandlingInv, HandlingTypes
<1>3. k \in 1..Len(server) /\ k # 0 /\ Chain' \in Seq(Marks)
  BY <1>1 DEF ScopesGive, Built, Chain
<1>4. stream \in Streams'
  <2> DEFINE C == ToSet(message.codings)
             c == message.codings
  <2>1. c \in Seq(C)
    <3> DEFINE n == Len(c)
    <3>1. n \in Nat /\ DOMAIN c = 1..n /\ c \in Seq(STRING)
      BY DEF IsMessage
    <3>2. \A i \in 1..n : c[i] \in C
      BY <3>1 DEF ToSet
    <3> HIDE DEF C, c
    <3> QED BY <3>1, <3>2
  <2>2. message.breaks \in BOOLEAN
    BY DEF IsMessage
  <2> HIDE DEF C
  <2>3. Streams' = [gone : BOOLEAN, fails : BOOLEAN, data : {"", "mw", message.data},
                    codings : Seq(C)]
    BY <1>1 DEF Streams, C
  <2> QED BY <2>1, <2>2, <2>3 DEF Stream
<1>5. /\ r.headers = message.headers /\ r.path = PathInfo(message.params) /\ r.query = q
      /\ r.body = stream /\ r.states = server[k].maps
      /\ r = Request(r.headers, r.path, r.query, r.body, r.states)
  BY DEF Request
<1>6. /\ stream.data = message.data /\ stream.codings = message.codings
      /\ stream.fails = message.breaks /\ stream.gone = FALSE
  BY DEF Stream
<1> HIDE DEF stream, r, q
<1>7. IsHeaders(message.headers)
  BY DEF IsMessage, IsHeaders
<1>8. IsRequest(req)'
  BY <1>1, <1>4, <1>5, <1>7 DEF IsRequest, IsHeaders
<1>9. at' \in 0..(Len(Chain') + 1) /\ at' > 0
  <2> DEFINE c == Chain'
  <2>1. c \in Seq(Marks)
    BY <1>3
  <2> HIDE DEF c
  <2>2. Len(c) \in Nat
    BY <2>1
  <2> HIDE DEF c
  <2>3. 1 \in 0..(Len(c) + 1)
    BY <2>2
  <2> QED BY <1>1, <2>3 DEF c
<1>10. HandlingTypes'
  <2>1. serving' \in 0..Len(server') /\ serving' # 0 /\ IsMessage(sent)'
    BY <1>1, <1>3 DEF Built, IsMessage, ScopesGive
  <2>2. IsOutcome(outcome')
    BY <1>1, <1>2 DEF IsOutcome
  <2> QED BY <1>1, <1>2, <1>8, <1>9, <2>1, <2>2 DEF HandlingTypes
<1>11. DOMAIN args' = {} /\ ~BodyRead'
  <2>1. DOMAIN args' = {}
    BY <1>1, <1>2
  <2> QED BY <2>1 DEF BodyRead
<1>12. ArgumentsAreMeant'
  BY <1>11 DEF ArgumentsAreMeant
<1>13. Rewriters' = {} /\ Entered' = {}
  <2>1. 1..(at' - 1) = {}
    BY <1>1
  <2> QED BY <2>1 DEF Rewriters, Entered
<1>14. Told'
  <2> SUFFICES ASSUME Truthful'
               PROVE  /\ Len(req'.headers["content-encoding"]) <= 1
                      /\ ~req'.body.gone
                      /\ req'.body.fails => sent'.breaks
                      /\ Named(req'.headers) = req'.body.codings
                      /\ req'.body.data = sent'.data
                      /\ req'.body.codings = IF "decompress" \in Entered' THEN << >>
                                             ELSE sent'.codings
    BY DEF Told
  <2>1. Len(message.headers["content-encoding"]) <= 1 /\ Named(message.headers) = message.codings
    BY <1>1 DEF Truthful
  <2> QED BY <1>1, <1>5, <1>6, <1>13, <2>1
<1>15. BodyStays'
  BY <1>11, <1>13 DEF BodyStays
<1>16. PartsStay'
  <2>1. QueryStays(req.query)'
    <3>1. message.query \in Params
      BY DEF IsMessage
    <3>2. /\ "a" \in DOMAIN q <=> OfA(message.query) # {}
          /\ OfA(message.query) # {} => q["a"] = message.query[Max(OfA(message.query))].value
      BY <3>1, QueryIs DEF q
    <3> QED BY <1>1, <1>5, <3>2 DEF QueryStays
  <2> QED BY <1>1, <1>5, <2>1 DEF PartsStay, Built
<1> QED BY <1>10, <1>12, <1>14, <1>15, <1>16 DEF HandlingInv

\* The scopes give what a request needs of them.
LEMMA ScopesDoGive == ASSUME ScopesInv PROVE ScopesGive
<1>1. server \in Seq(Served)
  BY DEF ScopesInv, ScopeTypes
<1> DEFINE R == Served
<1>2. /\ Len(server) \in Nat /\ DOMAIN server = 1..Len(server)
      /\ \A k \in DOMAIN server : server[k] \in R
  <2> HIDE DEF R
  <2>1. server \in Seq(R)
    BY <1>1 DEF R
  <2> QED BY <2>1
<1>3. \A route \in R : route.mws \in Seq(Marks)
  BY DEF Served
<1>4. NearestState
  BY NearestHolds
<1> HIDE DEF R
<1> QED BY <1>2, <1>3, <1>4 DEF ScopesGive

\* No request has come.
LEMMA BeforeIt ==
  ASSUME serving = 0, at = 0, outcome = Nothing, args = << >>, req.body = Gone,
         ws.status \in Statuses \cup {0}, Len(server) \in Nat
  PROVE  HandlingInv
<1>1. args \in Seq(ToSet(args))
  <2> DEFINE T == ToSet(args)
  <2> HIDE DEF T
  <2>1. << >> \in Seq(T)
    OBVIOUS
  <2> QED BY <2>1 DEF T
<1>2. 0 \in 0..Len(server) /\ IsOutcome(outcome)
  BY DEF IsOutcome
<1>3. HandlingTypes
  BY <1>1, <1>2 DEF HandlingTypes
<1> QED BY <1>3 DEF HandlingInv, Told, BodyStays, PartsStay, ArgumentsAreMeant, Faithful, GoingIn

\* Before the first request there is nothing to say.
LEMMA HandlingInvInit == ASSUME Init PROVE HandlingInv
<1>1. /\ serving = 0 /\ req = MovedFrom /\ at = 0 /\ args = << >> /\ ws = Response(0)
      /\ outcome = Nothing
  BY DEF Init, HandlingInit
<1>2. req.body = Gone
  BY <1>1 DEF MovedFrom, Request
<1>3. ws.status = 0
  BY <1>1, AnswerStatus
<1>4. Len(server) \in Nat
  BY ScopesInvInit, ScopesDoGive DEF ScopesGive, Init
<1> QED BY <1>1, <1>2, <1>3, <1>4, BeforeIt

\* While the program builds there is no request.
LEMMA BuildLeaves ==
  ASSUME HandlingInv, ScopesInv', serving = 0, UNCHANGED handlingVars
  PROVE  HandlingInv'
<1>1. /\ serving' = 0 /\ at' = at /\ outcome' = outcome /\ args' = args /\ req' = req
      /\ ws' = ws
  BY DEF handlingVars
<1>2. /\ at = 0 /\ outcome = Nothing /\ args = << >> /\ req.body = Gone
      /\ ws.status \in Statuses \cup {0}
  BY DEF HandlingInv, HandlingTypes
<1>3. Len(server)' \in Nat
  <2> DEFINE R == Served'
  <2>1. server' \in Seq(R)
    BY DEF ScopesInv, ScopeTypes
  <2> HIDE DEF R
  <2> QED BY <2>1
<1>4. args' \in Seq(ToSet(args'))
  <2> DEFINE T == ToSet(args')
  <2> HIDE DEF T
  <2>1. << >> \in Seq(T)
    OBVIOUS
  <2> QED BY <1>1, <1>2, <2>1 DEF T
<1>5. 0 \in 0..Len(server') /\ IsOutcome(outcome')
  BY <1>1, <1>2, <1>3 DEF IsOutcome
<1>6. HandlingTypes'
  BY <1>1, <1>2, <1>4, <1>5 DEF HandlingTypes
<1> QED BY <1>1, <1>6
        DEF HandlingInv, Told, BodyStays, PartsStay, ArgumentsAreMeant, Faithful, GoingIn

\* Nothing happens.
LEMMA NothingHappens ==
  ASSUME HandlingInv, ScopesGive, UNCHANGED vars
  PROVE  HandlingInv'
<1>1. /\ serving' = serving /\ sent' = sent /\ req' = req /\ at' = at /\ args' = args
      /\ ws' = ws /\ outcome' = outcome /\ server' = server /\ said' = said /\ heap' = heap
  BY DEF vars, handlingVars, scopeVars
<1>2. /\ Chain' = Chain /\ Mounted' = Mounted /\ (Truthful' <=> Truthful)
      /\ Streams' = Streams
  BY <1>1, MeaningStays DEF Built
<1>3. HandlingTypes'
  <2>1. IsRequest(req)' <=> IsRequest(req)
    BY <1>1, <1>2 DEF IsRequest, IsHeaders
  <2> QED BY <1>1, <1>2, <2>1 DEF HandlingInv, HandlingTypes
<1>4. /\ (GoingIn' <=> GoingIn) /\ (BodyRead' <=> BodyRead) /\ Rewriters' = Rewriters
      /\ Entered' = Entered /\ (Faithful' <=> Faithful) /\ \A k : PutBy(k)' = PutBy(k)
  BY <1>1, <1>2 DEF GoingIn, BodyRead, Rewriters, Entered, Faithful, PutBy
<1>5. Told'
  BY <1>1, <1>2, <1>4 DEF HandlingInv, Told
<1>6. BodyStays'
  <2>1. Content(req.body)' = Content(req.body)
    BY <1>1 DEF Content
  <2> QED BY <1>2, <1>4, <2>1 DEF HandlingInv, BodyStays
<1>7. PartsStay'
  <2>1. QueryStays(req.query) => QueryStays(req.query)'
    BY <1>1, <1>4 DEF QueryStays
  <2> QED BY <1>1, <1>4, <2>1 DEF HandlingInv, PartsStay
<1>8. ArgumentsAreMeant'
  <2>1. CASE serving = 0
    BY <1>1, <2>1 DEF ArgumentsAreMeant
  <2>2. CASE serving # 0
    BY <1>1, <2>2, ArgumentsStay DEF HandlingInv, Built
  <2> QED BY <2>1, <2>2
<1> QED BY <1>3, <1>5, <1>6, <1>7, <1>8 DEF HandlingInv

\* Every step.
LEMMA HandlingStep ==
  ASSUME ScopesInv, plan \in Plans, HandlingInv, [Next]_vars
  PROVE  HandlingInv'
<1>1. ScopesGive
  BY ScopesDoGive
<1>2. CASE serving = 0 /\ Build /\ UNCHANGED <<handlingVars, plan>>
  <2>1. ScopesInv'
    BY ScopesStep
  <2>2. UNCHANGED handlingVars
    BY <1>2
  <2> QED BY <1>2, <2>1, <2>2, BuildLeaves
<1>3. CASE (Come \/ Answering) /\ UNCHANGED <<scopeVars, plan>>
  <2>1. Built
    BY <1>3 DEF scopeVars, Built
  <2>2. CASE Come
    BY <1>1, <2>1, <2>2, PlansAssumption, DispatchInv DEF Come
  <2>3. CASE Enter
    BY <1>1, <2>1, <2>3, EnterInv
  <2>4. CASE Decompress
    BY <1>1, <2>1, <2>4, DecompressInv
  <2>5. CASE Rewrite
    BY <1>1, <2>1, <2>5, RewriteInv
  <2>6. CASE \E kind \in plan.kinds : Extract(kind) \/ ExtractBody(kind)
    BY <1>1, <2>1, <2>6, ExtractInv, ExtractBodyInv
  <2>7. CASE \E result \in plan.results : Handle(result)
    BY <1>1, <2>1, <2>7, PlansAssumption, HandleInv
  <2>8. CASE Leave
    BY <1>1, <2>1, <2>8, LeaveInv
  <2> QED BY <1>3, <2>2, <2>3, <2>4, <2>5, <2>6, <2>7, <2>8 DEF Answering
<1>4. CASE UNCHANGED vars
  BY <1>1, <1>4, NothingHappens
<1> QED BY <1>2, <1>3, <1>4 DEF Next

\* The invariant holds in every behaviour.
LEMMA HandlingAlways == Spec => []HandlingInv
<1>1. Init => HandlingInv
  BY HandlingInvInit
<1>2. (ScopesInv /\ plan \in Plans) /\ HandlingInv /\ [Next]_vars => HandlingInv'
  BY HandlingStep
<1> QED BY <1>1, <1>2, ScopesAlways, PTL DEF Spec

\* What is said of a request's body is so, whatever the client sent and whichever
\* middlewares it passes, in whatever order.
THEOREM EncodingIsTold == Spec => []EncodingTold
<1>1. HandlingInv => EncodingTold
  <2> SUFFICES ASSUME HandlingInv, GoingIn, Truthful, ~BodyRead, Entered \cap BodyRewrites = {}
               PROVE  /\ ~req.body.gone
                      /\ Named(req.headers) = req.body.codings
                      /\ ~req.body.fails \/ sent.breaks
    BY DEF EncodingTold
  <2>1. Rewriters = {}
    BY DEF Rewriters, Entered
  <2> QED BY <2>1 DEF HandlingInv, Told
<1> QED BY <1>1, HandlingAlways, PTL

\* A handler is called with what the client sent and the middlewares made of it; of
\* a name that query_map::set met twice nothing is said.
THEOREM ArgumentsHold == Spec => []ArgumentsAreMeant
<1>1. HandlingInv => ArgumentsAreMeant
  BY DEF HandlingInv
<1> QED BY <1>1, HandlingAlways, PTL

\* The types of the variables: every map and every route that is referred to is
\* there, and a response has a status there is a factory for.
THEOREM ApplicationTypes == Spec => []TypeOK
<1>1. ASSUME ScopesInv
      PROVE  /\ \A k \in DOMAIN heap : heap[k] \in [Types -> States]
             /\ said \in [Places -> [Types -> 0..MaxSaid]]
             /\ \A r \in Routes : /\ Len(routes[r].maps) <= 1
                                  /\ ToSet(routes[r].maps) \subseteq DOMAIN heap
             /\ \A s \in Scopes : scopes[s].map \in DOMAIN heap
             /\ \A k \in DOMAIN server : ToSet(server[k].maps) \subseteq DOMAIN heap
  <2> DEFINE H == [Types -> States]
             m == Len(heap)
  <2>1. /\ m \in Nat /\ DOMAIN heap = 1..m /\ \A k \in DOMAIN heap : heap[k] \in H
        /\ said \in [Places -> [Types -> 0..MaxSaid]]
    <3>1. heap \in Seq(H) /\ said \in [Places -> [Types -> 0..MaxSaid]]
      BY <1>1 DEF ScopesInv, ScopeTypes
    <3> HIDE DEF H
    <3> QED BY <3>1
  <2> HIDE DEF H, m
  <2>2. \A p \in Places : MapAt[p] # 0 => MapAt[p] \in DOMAIN heap
    BY <1>1, <2>1 DEF ScopesInv, MapsAreOwn, m
  <2>3. ASSUME NEW s \in Scopes PROVE scopes[s].map \in DOMAIN heap
    <3>1. s \in Places /\ MapAt[s] = scopes[s].map
      BY DEF Places, MapAt
    <3>2. MapAt[s] # 0
      BY <1>1 DEF ScopesInv, MapsAreOwn
    <3> QED BY <2>2, <3>1, <3>2
  <2>4. ASSUME NEW r \in Routes
        PROVE  Len(routes[r].maps) <= 1 /\ ToSet(routes[r].maps) \subseteq DOMAIN heap
    <3> DEFINE maps == routes[r].maps
    <3>1. r \in Places /\ r \notin Scopes
      BY PlacesAssumption DEF Places
    <3>2. /\ Len(maps) <= 1 /\ (MapAt[r] # 0 <=> maps # << >>)
      BY <1>1 DEF ScopesInv, MapsAreOwn, OneMap
    <3>3. maps \in Seq(Nat)
      BY <1>1 DEF ScopesInv, ScopeTypes
    <3>4. maps # << >> => MapAt[r] = maps[1]
      BY <3>1 DEF MapAt
    <3> HIDE DEF maps
    <3>5. \A k \in DOMAIN maps : k = 1 /\ maps # << >>
      BY <3>2, <3>3
    <3>6. \A k \in DOMAIN maps : maps[k] \in DOMAIN heap
      BY <2>2, <3>1, <3>2, <3>4, <3>5
    <3>7. ToSet(maps) \subseteq DOMAIN heap
      BY <3>6 DEF ToSet
    <3> QED BY <3>2, <3>7 DEF maps
  <2>5. ASSUME NEW k \in DOMAIN server PROVE ToSet(server[k].maps) \subseteq DOMAIN heap
    <3> DEFINE route == server[k]
    <3>1. route \in Served /\ Threaded(route, MapAt)
      BY <1>1, ServedFits DEF Fits
    <3> HIDE DEF route
    <3>2. \A j \in DOMAIN route.home : route.home[j].at \in Places
      <4> DEFINE home == route.home
      <4>1. home \in Seq(Stops)
        BY <3>1 DEF Served
      <4> HIDE DEF home
      <4>2. \A j \in DOMAIN home : home[j] \in Stops
        BY <4>1
      <4> QED BY <4>2 DEF Stops, home
    <3>3. PICK f \in [DOMAIN route.maps -> DOMAIN route.home] : Threads(f, route, MapAt)
      BY <3>1 DEF Threaded
    <3>4. \A j \in DOMAIN route.maps : route.maps[j] \in DOMAIN heap
      BY <2>2, <3>1, <3>2, <3>3 DEF Threads, Threaded
    <3> QED BY <3>4 DEF ToSet, route
  <2> QED BY <2>1, <2>3, <2>4, <2>5 DEF H
<1>2. ASSUME HandlingInv
      PROVE  /\ serving \in 0..Len(server)
             /\ at \in IF serving = 0 THEN {0} ELSE 0..(Len(Chain) + 1)
             /\ req.body \in Streams
             /\ outcome.is \in {"none", "response", "exception", "undefined"}
             /\ outcome.is = "response" => outcome.res.status \in Statuses
             /\ outcome = Nothing /\ serving # 0 => at > 0
  <2>1. HandlingTypes /\ IsOutcome(outcome)
    BY <1>2 DEF HandlingInv, HandlingTypes
  <2>2. req.body \in Streams
    BY <2>1, PutStreams DEF HandlingTypes, IsRequest
  <2>3. /\ outcome.is \in {"none", "response", "exception", "undefined"}
        /\ outcome.is = "response" => outcome.res.status \in Statuses
    <3>1. CASE outcome = Nothing \/ outcome = Undefined
      BY <3>1 DEF Nothing, Undefined
    <3>2. CASE \E what : outcome = Throws(what)
      BY <3>2 DEF Throws
    <3>3. CASE \E res : outcome = Responds(res) /\ res.status \in Statuses
      BY <3>3 DEF Responds
    <3> QED BY <2>1, <3>1, <3>2, <3>3 DEF IsOutcome
  <2> QED BY <2>1, <2>2, <2>3 DEF HandlingTypes
<1>3. ScopesInv /\ plan \in Plans /\ HandlingInv => TypeOK
  BY <1>1, <1>2 DEF TypeOK
<1> QED BY <1>3, ScopesAlways, HandlingAlways, PTL
=============================================================================
