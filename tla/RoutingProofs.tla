--------------------------- MODULE RoutingProofs ---------------------------
(***************************************************************************)
(* What holds of the routing decisions for every listing Docker can give    *)
(* and every way ContainerInspect can answer: how replicas merge, who holds *)
(* a host, what a router's file is called and what the rows tell of the     *)
(* routers.  RouteTableProofs and WatcherProofs apply it to their states.   *)
(***************************************************************************)
EXTENDS Routing, FiniteSetTheorems, WellFoundedInduction, TLAPS

-----------------------------------------------------------------------------
(***************************************************************************)
(* Finite sets of names.                                                    *)
(***************************************************************************)
\* A finite set of names that is not empty has a first and a last one.
LEMMA FirstAndLast ==
  ASSUME NEW S \in SUBSET Int, S # {}, IsFiniteSet(S)
  PROVE  (\E m \in S : \A x \in S : m <= x) /\ (\E m \in S : \A x \in S : x <= m)
<1> DEFINE Bounded(T) == (\E m \in T : \A x \in T : m <= x) /\ (\E m \in T : \A x \in T : x <= m)
           Bad == {n \in Nat : \E T \in SUBSET Int : T # {} /\ IsFiniteSet(T) /\ Cardinality(T) = n /\ ~Bounded(T)}
           R == OpToRel(<, Nat)
<1> SUFFICES ASSUME ~Bounded(S) PROVE FALSE
  OBVIOUS
<1>1. Cardinality(S) \in Bad
  BY FS_CardinalityType
<1>2. IsWellFoundedOn(R, Nat) /\ Bad \subseteq Nat
  BY NatLessThanWellFounded
<1>3. PICK n \in Bad : \A m \in Bad : <<m, n>> \notin R
  <2> HIDE DEF R, Bad
  <2> QED BY <1>1, <1>2, WFMin
<1>4. ASSUME NEW m \in Bad PROVE ~(m < n)
  <2>1. <<m, n>> \in Nat \X Nat /\ <<m, n>>[1] = m /\ <<m, n>>[2] = n
    BY <1>2, <1>4
  <2> QED BY <1>3, <1>4, <2>1, Zenon DEF OpToRel
<1>5. PICK T \in SUBSET Int : T # {} /\ IsFiniteSet(T) /\ Cardinality(T) = n /\ ~Bounded(T)
  BY <1>3
<1>6. PICK x \in T : TRUE
  BY <1>5
<1>7. IsFiniteSet(T \ {x}) /\ Cardinality(T \ {x}) = n - 1 /\ Cardinality(T \ {x}) \in Nat /\ n \in Nat
  BY <1>5, <1>6, FS_RemoveElement, FS_CardinalityType
<1>8. T \ {x} # {}
  BY <1>5, <1>6
<1>9. Bounded(T \ {x})
  <2>1. ~(n - 1 \in Bad)
    BY <1>4, <1>7
  <2> QED BY <1>7, <1>8, <2>1
<1>10. PICK lo \in T \ {x}, hi \in T \ {x} : \A y \in T \ {x} : lo <= y /\ y <= hi
  BY <1>9
<1>11. Bounded(T)
  <2>1. \E m \in T : \A y \in T : m <= y
    <3>1. CASE x <= lo
      BY <1>6, <1>10, <3>1
    <3>2. CASE ~(x <= lo)
      BY <1>6, <1>10, <3>2
    <3> QED BY <3>1, <3>2
  <2>2. \E m \in T : \A y \in T : y <= m
    <3>1. CASE hi <= x
      BY <1>6, <1>10, <3>1
    <3>2. CASE ~(hi <= x)
      BY <1>6, <1>10, <3>2
    <3> QED BY <3>1, <3>2
  <2> QED BY <2>1, <2>2
<1> QED
  BY <1>5, <1>11

\* The image of a finite set under a function is finite.
LEMMA FiniteImage ==
  ASSUME NEW S, IsFiniteSet(S), NEW f, DOMAIN f = S
  PROVE  IsFiniteSet({f[x] : x \in S})
<1> DEFINE T == {f[x] : x \in S}
           g == [x \in S |-> f[x]]
<1>1. g \in Surjection(S, T)
  BY DEF Surjection
<1> QED
  BY <1>1, FS_Surjection

-----------------------------------------------------------------------------
(***************************************************************************)
(* Routes, and the groups replicas merge into.                              *)
(***************************************************************************)
RouteFields == {"name", "ns", "proximo", "base", "hosts", "gen", "natives", "port", "tcp", "tls",
                "path", "mw", "inspect", "share", "internal", "servers"}

IsRoute(r) == DOMAIN r = RouteFields /\ r.name \in Int

\* What the resolver is given: finitely many routes, named apart.
Named(routes) ==
  /\ IsFiniteSet(routes)
  /\ \A r \in routes : IsRoute(r)
  /\ \A r, s \in routes : r.name = s.name => r = s

\* Finitely many routes, if any, have a first and a last by name.
LEMMA NamedExtremes ==
  ASSUME NEW S, IsFiniteSet(S), S # {}, \A r \in S : r.name \in Int
  PROVE  (\E r \in S : \A o \in S : r.name <= o.name) /\ (\E r \in S : \A o \in S : o.name <= r.name)
<1> DEFINE f == [r \in S |-> r.name]
           N == {f[r] : r \in S}
<1>1. IsFiniteSet(N)
  BY FiniteImage
<1>2. N \in SUBSET Int /\ N # {}
  OBVIOUS
<1>3. (\E m \in N : \A x \in N : m <= x) /\ (\E m \in N : \A x \in N : x <= m)
  <2> HIDE DEF N
  <2> QED BY <1>1, <1>2, FirstAndLast
<1> QED
  BY <1>3

\* Replicas ask for the same hosts, under no path, as routes of one namespace.
LEMMA ReplicasAlike ==
  ASSUME NEW routes, NEW r, NEW q \in ReplicasOf(r, routes)
  PROVE  /\ q \in routes
         /\ q.hosts = r.hosts /\ q.path = r.path /\ q.proximo = r.proximo
<1>1. CASE q = r
  BY <1>1 DEF ReplicasOf
<1>2. CASE q # r
  <2>1. replicaKey(q) = replicaKey(r) /\ mergeable(q) /\ mergeable(r)
    BY <1>2 DEF ReplicasOf
  <2>2. q.hosts = r.hosts
    <3>1. CASE q.tcp # <<>> /\ r.tcp # <<>>
      BY <2>1, <3>1 DEF replicaKey
    <3>2. CASE q.tcp = <<>> /\ r.tcp = <<>>
      BY <2>1, <3>2 DEF replicaKey
    <3>3. CASE q.tcp # <<>> /\ r.tcp = <<>>
      BY <2>1, <3>3 DEF replicaKey
    <3>4. CASE q.tcp = <<>> /\ r.tcp # <<>>
      BY <2>1, <3>4 DEF replicaKey
    <3> QED BY <3>1, <3>2, <3>3, <3>4
  <2> QED
    BY <1>2, <2>1, <2>2 DEF ReplicasOf, mergeable
<1> QED
  BY <1>1, <1>2

\* Being replicas is an equivalence: a replica's replicas are the same set.
LEMMA ReplicasShared ==
  ASSUME NEW routes, NEW r \in routes, NEW q \in ReplicasOf(r, routes)
  PROVE  ReplicasOf(q, routes) = ReplicasOf(r, routes)
BY DEF ReplicasOf

\* Merging changes a route's backends, and whether it is shared and inspected.
LEMMA GroupFields ==
  ASSUME NEW routes, NEW r, IsRoute(r), NEW g, g = Group(r, routes)
  PROVE  /\ IsRoute(g)
         /\ g.name = r.name /\ g.ns = r.ns /\ g.proximo = r.proximo /\ g.base = r.base
         /\ g.hosts = r.hosts /\ g.gen = r.gen /\ g.natives = r.natives
         /\ g.path = r.path /\ g.internal = r.internal
         /\ g.servers = {q.name : q \in ReplicasOf(r, routes)}
BY DEF Group, IsRoute, RouteFields

\* Every route is a backend of one group: that of the first of its replicas.
LEMMA GroupOfRoute ==
  ASSUME NEW routes, Named(routes), NEW r \in routes
  PROVE  \E f \in ReplicasOf(r, routes) :
            /\ IsFirst(f, routes) /\ r \in ReplicasOf(f, routes)
            /\ Group(f, routes) \in Groups(routes)
<1> DEFINE S == ReplicasOf(r, routes)
<1>1. r \in S /\ S \subseteq routes
  BY DEF ReplicasOf
<1>2. IsFiniteSet(S) /\ \A q \in S : q.name \in Int
  BY <1>1, FS_Subset DEF Named, IsRoute
<1>3. PICK f \in S : \A o \in S : f.name <= o.name
  <2> HIDE DEF S
  <2> QED BY <1>1, <1>2, NamedExtremes
<1>4. ReplicasOf(f, routes) = S
  BY ReplicasShared
<1> QED
  BY <1>1, <1>3, <1>4 DEF IsFirst, Groups

\* Groups are routes, named after the first of their replicas.
LEMMA GroupsAreRoutes ==
  ASSUME NEW routes, \A r \in routes : IsRoute(r), NEW g \in Groups(routes)
  PROVE  \E r \in routes : /\ IsFirst(r, routes) /\ g = Group(r, routes) /\ r.name = g.name
                           /\ IsRoute(g)
<1>1. PICK r \in routes : g = Group(r, routes) /\ IsFirst(r, routes)
  BY DEF Groups
<1> QED
  BY <1>1, GroupFields

\* The groups of routes named apart are finitely many, and named apart.
LEMMA GroupsNamed ==
  ASSUME NEW routes, Named(routes)
  PROVE  Named(Groups(routes))
<1> DEFINE F == {q \in routes : IsFirst(q, routes)}
           f == [r \in F |-> Group(r, routes)]
<1>1. IsFiniteSet(F)
  BY FS_Subset DEF Named
<1>2. IsFiniteSet({f[r] : r \in F})
  <2> HIDE DEF F
  <2> QED BY <1>1, FiniteImage
<1>3. Groups(routes) = {f[r] : r \in F}
  BY DEF Groups
<1>4. \A r \in routes : IsRoute(r)
  BY DEF Named
<1>5. \A g \in Groups(routes) : IsRoute(g)
  BY <1>4, GroupsAreRoutes
<1>6. ASSUME NEW g \in Groups(routes), NEW o \in Groups(routes), g.name = o.name PROVE g = o
  <2>1. PICK r \in routes : g = Group(r, routes) /\ r.name = g.name
    BY <1>4, GroupsAreRoutes
  <2>2. PICK s \in routes : o = Group(s, routes) /\ s.name = o.name
    BY <1>4, GroupsAreRoutes
  <2> QED
    BY <1>6, <2>1, <2>2 DEF Named
<1> QED
  BY <1>2, <1>3, <1>5, <1>6 DEF Named

\* A kept route is its group, but for the hosts a proximo group lost.
LEMMA KeptFields ==
  ASSUME NEW groups, \A g \in groups : IsRoute(g), NEW k \in KeptOf(groups)
  PROVE  \E g \in groups :
            /\ IsRoute(k)
            /\ k.name = g.name /\ k.proximo = g.proximo /\ k.path = g.path /\ k.gen = g.gen
            /\ k.base = g.base /\ k.ns = g.ns
            /\ k.natives = g.natives /\ k.servers = g.servers /\ k.internal = g.internal
            /\ g.proximo => /\ k.hosts = survivors(g, groups) /\ survivors(g, groups) # {}
                           /\ k = [g EXCEPT !.hosts = survivors(g, groups)]
            /\ ~g.proximo => k = g
<1>1. CASE k \in {g \in groups : ~g.proximo}
  BY <1>1
<1>2. CASE k \in {[g EXCEPT !.hosts = survivors(g, groups)] :
                    g \in {o \in groups : o.proximo /\ survivors(o, groups) # {}}}
  <2>1. PICK g \in groups : /\ g.proximo /\ survivors(g, groups) # {}
                           /\ k = [g EXCEPT !.hosts = survivors(g, groups)]
    BY <1>2
  <2>2. IsRoute(g)
    OBVIOUS
  <2> DEFINE S == survivors(g, groups)
  <2> HIDE DEF S
  <2>3. k = [g EXCEPT !.hosts = S]
    BY <2>1 DEF S
  <2>4. /\ IsRoute(k)
        /\ k.name = g.name /\ k.proximo = g.proximo /\ k.path = g.path /\ k.gen = g.gen
        /\ k.base = g.base /\ k.ns = g.ns
        /\ k.natives = g.natives /\ k.servers = g.servers /\ k.internal = g.internal
        /\ k.hosts = S
    BY <2>2, <2>3 DEF IsRoute, RouteFields
  <2> QED
    BY <2>1, <2>4 DEF S
<1> QED
  BY <1>1, <1>2 DEF KeptOf

\* Every proximo group with a host left, and every native group, is kept.
LEMMA GroupKept ==
  ASSUME NEW groups, NEW g \in groups, IsRoute(g), g.proximo => survivors(g, groups) # {}
  PROVE  \E k \in KeptOf(groups) :
            /\ k.name = g.name /\ k.servers = g.servers /\ k.path = g.path /\ k.gen = g.gen
            /\ k.ns = g.ns /\ k.proximo = g.proximo /\ k.internal = g.internal
            /\ k.hosts = IF g.proximo THEN survivors(g, groups) ELSE g.hosts
<1>1. CASE ~g.proximo
  BY <1>1 DEF KeptOf
<1>2. CASE g.proximo
  <2> DEFINE k == [g EXCEPT !.hosts = survivors(g, groups)]
  <2>1. k \in KeptOf(groups)
    BY <1>2 DEF KeptOf
  <2>2. /\ k.name = g.name /\ k.servers = g.servers /\ k.path = g.path /\ k.gen = g.gen
        /\ k.ns = g.ns /\ k.proximo = g.proximo /\ k.internal = g.internal
        /\ k.hosts = survivors(g, groups)
    BY DEF IsRoute, RouteFields
  <2> QED
    BY <1>2, <2>1, <2>2
<1> QED
  BY <1>1, <1>2

\* Two routes kept of any groups share no host under a path: of two claimants of
\* a host, at most one precedes the other.
LEMMA KeptDisjoint ==
  ASSUME NEW groups, \A g \in groups : IsRoute(g),
         NEW r \in KeptOf(groups), NEW s \in KeptOf(groups),
         r.proximo, s.proximo, r # s, r.path = s.path
  PROVE  r.hosts \cap s.hosts = {}
<1>1. PICK g \in groups : /\ r = [g EXCEPT !.hosts = survivors(g, groups)]
                          /\ r.hosts = survivors(g, groups) /\ r.path = g.path /\ g.proximo
  BY KeptFields
<1>2. PICK o \in groups : /\ s = [o EXCEPT !.hosts = survivors(o, groups)]
                          /\ s.hosts = survivors(o, groups) /\ s.path = o.path /\ o.proximo
  BY KeptFields
<1>4. g # o
  BY <1>1, <1>2
<1>5. ASSUME NEW h \in r.hosts \cap s.hosts PROVE FALSE
  <2>1. Claims(g, h, o.path) /\ Claims(o, h, g.path)
    BY <1>1, <1>2, <1>5 DEF survivors, Claims
  <2>2. Precedes(g, o, h) /\ Precedes(o, g, h)
    BY <1>1, <1>2, <1>4, <1>5, <2>1 DEF survivors
  <2>3. g.name \in Int /\ o.name \in Int
    BY DEF IsRoute
  <2>4. QED
    BY <2>2, <2>3 DEF Precedes
<1>6. QED
  BY <1>5

-----------------------------------------------------------------------------
(***************************************************************************)
(* The routes of a listing.                                                 *)
(***************************************************************************)
\* What classify makes of a container: a native route answers on the hosts of its
\* rules, a proximo route on the hosts declared and those generated from them.
WellFormed(r) ==
  /\ r.internal = FALSE /\ r.servers = {r.name}
  /\ ~r.proximo => r.hosts = r.natives /\ r.gen = {} /\ r.path = ""
  /\ r.proximo => \E declared \in SUBSET HostNames :
                    /\ r.gen = Generated(declared, r.ns)
                    /\ r.hosts = declared \cup r.gen

\* classify names its route as the container and fills in every field; the hosts come
\* from the container's labels, and its rules are native.
LEMMA ClassifyRoute ==
  ASSUME NEW c, c.name \in Int, c.hosts \subseteq HostNames, NEW inspect
  PROVE  /\ IsRoute(classify(c, inspect).route) /\ classify(c, inspect).route.name = c.name
         /\ WellFormed(classify(c, inspect).route)
         /\ classify(c, inspect).route.natives = IF c.native THEN c.rules ELSE {}
         /\ classify(c, inspect).route.hosts \subseteq
              c.hosts \cup Generated(c.hosts, namespaceOf(c)) \cup classify(c, inspect).route.natives
<1> DEFINE native    == NativeRoute(c)
           proximo   == ProximoRoute(c)
           tcpRoute  == [ProximoRoute(c) EXCEPT !.tcp = c.tcp, !.tls = c.tls]
           ports     == resolveBackendPort(c, inspect)
           port      == IF ports = {} THEN 0 ELSE CHOOSE p \in ports : TRUE
           httpRoute == [ProximoRoute(c) EXCEPT !.mw = c.mw, !.path = c.path, !.inspect = c.inspect,
                                                !.share = c.share, !.port = port]
           rules     == IF c.native THEN c.rules ELSE {}
           Good(r) == /\ IsRoute(r) /\ r.name = c.name /\ WellFormed(r) /\ r.natives = rules
                      /\ r.hosts \subseteq c.hosts \cup Generated(c.hosts, namespaceOf(c)) \cup r.natives
<1>1. Good(native)
  BY DEF NativeRoute, IsRoute, RouteFields, WellFormed
<1>2. /\ IsRoute(proximo) /\ proximo.name = c.name /\ proximo.ns = namespaceOf(c)
      /\ proximo.proximo /\ proximo.internal = FALSE /\ proximo.servers = {c.name}
      /\ proximo.gen = Generated(c.hosts, namespaceOf(c))
      /\ proximo.hosts = c.hosts \cup Generated(c.hosts, namespaceOf(c))
      /\ proximo.natives = rules
  <2> DEFINE G == Generated(c.hosts, namespaceOf(c))
  <2> HIDE DEF G
  <2>1. proximo = [NativeRoute(c) EXCEPT !.proximo = TRUE, !.hosts = c.hosts \cup G, !.gen = G]
    BY DEF ProximoRoute, G
  <2>2. /\ IsRoute(native) /\ native.name = c.name /\ native.ns = namespaceOf(c)
        /\ native.internal = FALSE /\ native.servers = {c.name} /\ native.natives = rules
    BY <1>1 DEF NativeRoute
  <2> HIDE DEF native
  <2>3. proximo = [native EXCEPT !.proximo = TRUE, !.hosts = c.hosts \cup G, !.gen = G]
    BY <2>1 DEF native
  <2>4. /\ IsRoute(proximo) /\ proximo.name = c.name /\ proximo.ns = namespaceOf(c)
        /\ proximo.proximo /\ proximo.internal = FALSE /\ proximo.servers = {c.name}
        /\ proximo.gen = G /\ proximo.hosts = c.hosts \cup G /\ proximo.natives = rules
    BY <2>2, <2>3 DEF IsRoute, RouteFields
  <2> QED BY <2>4 DEF G
<1>3. Good(tcpRoute)
  <2> HIDE DEF proximo
  <2> DEFINE t == [proximo EXCEPT !.tcp = c.tcp, !.tls = c.tls]
  <2>1. /\ IsRoute(t) /\ t.name = proximo.name /\ t.ns = proximo.ns /\ t.proximo = proximo.proximo
        /\ t.internal = proximo.internal /\ t.servers = proximo.servers /\ t.gen = proximo.gen
        /\ t.hosts = proximo.hosts /\ t.natives = proximo.natives
    BY <1>2 DEF IsRoute, RouteFields
  <2>2. t = tcpRoute
    BY DEF proximo
  <2> HIDE DEF t, tcpRoute
  <2>3. Good(t)
    BY <1>2, <2>1 DEF WellFormed
  <2> QED BY <2>2, <2>3
<1>4. Good(httpRoute)
  <2> HIDE DEF proximo, port
  <2> DEFINE t == [proximo EXCEPT !.mw = c.mw, !.path = c.path, !.inspect = c.inspect,
                                  !.share = c.share, !.port = port]
  <2>1. /\ IsRoute(t) /\ t.name = proximo.name /\ t.ns = proximo.ns /\ t.proximo = proximo.proximo
        /\ t.internal = proximo.internal /\ t.servers = proximo.servers /\ t.gen = proximo.gen
        /\ t.hosts = proximo.hosts /\ t.natives = proximo.natives
    BY <1>2 DEF IsRoute, RouteFields
  <2>2. t = httpRoute
    BY DEF proximo
  <2> HIDE DEF t, httpRoute
  <2>3. Good(t)
    BY <1>2, <2>1 DEF WellFormed
  <2> QED BY <2>2, <2>3
<1>5. classify(c, inspect).route \in {native, tcpRoute, httpRoute}
  <2> HIDE DEF tcpRoute, httpRoute
  <2>1. CASE ~isProximoRoute(c)
    BY <2>1 DEF classify
  <2>2. CASE isProximoRoute(c) /\ c.tcp # <<>>
    BY <2>2 DEF classify, tcpRoute
  <2>3. CASE isProximoRoute(c) /\ c.tcp = <<>>
    BY <2>3 DEF classify, httpRoute, port, ports
  <2> QED
    BY <2>1, <2>2, <2>3
<1> HIDE DEF native, tcpRoute, httpRoute, Good
<1>6. Good(classify(c, inspect).route)
  BY <1>1, <1>3, <1>4, <1>5
<1> QED
  BY <1>6 DEF Good

\* A listing Docker can give: finitely many containers of distinct names, one Traefik
\* at most; a user's has an own name, and hosts that are host names.
Listable(cs) ==
  /\ IsFiniteSet(cs)
  /\ \A c, d \in cs : c.name = d.name => c = d
  /\ \A c, d \in cs : (c.role = traefikRole /\ d.role = traefikRole) => c = d
  /\ \A c \in cs : c.role = "" => c.name \in Int \ {0, DashboardName} /\ c.hosts \subseteq HostNames

\* The fields of the dashboard's route that the groups depend on.
LEMMA DashboardFields ==
  /\ IsRoute(dashboardRoute)
  /\ dashboardRoute.name = DashboardName /\ dashboardRoute.proximo = TRUE
  /\ dashboardRoute.hosts = {DashboardHost} /\ dashboardRoute.gen = {} /\ dashboardRoute.natives = {}
  /\ dashboardRoute.tcp = <<>> /\ dashboardRoute.internal = TRUE /\ dashboardRoute.servers = {DashboardName}
  /\ dashboardRoute.base = DashboardBase /\ dashboardRoute.share = FALSE /\ dashboardRoute.inspect = FALSE
BY DashboardAssumption DEF dashboardRoute, IsRoute, RouteFields

\* The routes of a listing are well formed, and named apart, none as the dashboard's.
LEMMA PublishedNamed ==
  ASSUME NEW cs, NEW asked, Listable(cs)
  PROVE  /\ Named(Published(cs, asked)) /\ Named(Published(cs, asked) \cup {dashboardRoute})
         /\ \A r \in Published(cs, asked) : WellFormed(r) /\ r.name \in Int \ {0, DashboardName}
<1> DEFINE S == {d \in cs : isRouted(d) /\ isHealthRoutable(d) /\ classify(d, asked[d.name]).ok}
           f == [c \in S |-> classify(c, asked[c.name]).route]
<1>1. Published(cs, asked) = {f[c] : c \in S}
  BY DEF Published
<1>2. IsFiniteSet(Published(cs, asked))
  <2>1. IsFiniteSet(S)
    BY FS_Subset DEF Listable
  <2>2. IsFiniteSet({f[c] : c \in S})
    <3> HIDE DEF S
    <3> QED BY <2>1, FiniteImage
  <2> QED BY <1>1, <2>2
<1>3. ASSUME NEW c \in S
      PROVE  /\ IsRoute(f[c]) /\ f[c].name = c.name /\ WellFormed(f[c])
             /\ c.name \in Int \ {0, DashboardName}
  <2>1. c \in cs /\ c.role = ""
    BY DEF isRouted
  <2>2. /\ c.name \in Int \ {0, DashboardName} /\ c.hosts \subseteq HostNames
    BY <2>1 DEF Listable
  <2>3. f[c] = classify(c, asked[c.name]).route
    OBVIOUS
  <2> HIDE DEF f
  <2> QED BY <2>2, <2>3, ClassifyRoute
<1> HIDE DEF f
<1>4. \A r \in Published(cs, asked) : IsRoute(r) /\ WellFormed(r) /\ r.name \in Int \ {0, DashboardName}
  BY <1>1, <1>3
<1>5. ASSUME NEW r \in Published(cs, asked), NEW q \in Published(cs, asked), r.name = q.name PROVE r = q
  <2>1. PICK c \in S, d \in S : r = f[c] /\ q = f[d]
    BY <1>1
  <2>2. c.name = d.name /\ c \in cs /\ d \in cs
    BY <1>3, <1>5, <2>1
  <2> QED
    BY <2>1, <2>2 DEF Listable
<1>6. Named(Published(cs, asked))
  BY <1>2, <1>4, <1>5 DEF Named
<1>7. IsRoute(dashboardRoute) /\ dashboardRoute.name = DashboardName
  BY DashboardFields
<1>8. Named(Published(cs, asked) \cup {dashboardRoute})
  <2>1. IsFiniteSet(Published(cs, asked) \cup {dashboardRoute})
    BY <1>2, FS_AddElement
  <2> QED
    BY <1>4, <1>5, <1>7, <2>1 DEF Named
<1> QED
  BY <1>4, <1>6, <1>8

\* The groups the watcher resolves: those of the published routes and the dashboard's.
WatcherGroups(cs, asked) == Groups(Published(cs, asked) \cup {dashboardRoute})

\* Kept is what resolveRoutes keeps of the served groups.
LEMMA KeptOfServed == \A cs, asked : RoutedSet(cs, asked) = KeptOf(WatcherGroups(cs, asked))
BY DEF RoutedSet, resolveRoutes, WatcherGroups, Published

\* The served groups are routes, named apart.
LEMMA ServedNamed ==
  ASSUME NEW cs, NEW asked, Listable(cs)
  PROVE  Named(WatcherGroups(cs, asked)) /\ \A g \in WatcherGroups(cs, asked) : IsRoute(g)
BY PublishedNamed, GroupsNamed DEF WatcherGroups, Named

\* Two kept routes share no host under a path.
LEMMA HostsOnce ==
  ASSUME NEW cs, NEW asked, Listable(cs),
         NEW r \in RoutedSet(cs, asked), NEW s \in RoutedSet(cs, asked),
         r.proximo, s.proximo, r # s, r.path = s.path
  PROVE  r.hosts \cap s.hosts = {}
BY KeptOfServed, ServedNamed, KeptDisjoint

-----------------------------------------------------------------------------
(***************************************************************************)
(* The watcher's groups and the rows' groups.                               *)
(***************************************************************************)
\* The dashboard is no container's replica: only its route is internal.
LEMMA DashboardApart ==
  ASSUME NEW r, WellFormed(r)
  PROVE  replicaKey(r) # replicaKey(dashboardRoute)
<1> DEFINE d == dashboardRoute
<1>1. replicaKey(dashboardRoute) = <<"http", d.ns, d.hosts, d.port, d.mw, d.inspect, TRUE>>
  BY DashboardFields DEF replicaKey
<1> HIDE DEF d
<1>2. CASE r.tcp # <<>>
  <2>1. replicaKey(r) = <<"tcp", r.ns, r.hosts, r.tcp, r.tls>>
    BY <1>2 DEF replicaKey
  <2>2. replicaKey(r)[1] = "tcp" /\ replicaKey(dashboardRoute)[1] = "http"
    BY <1>1, <2>1
  <2> QED BY <2>2
<1>3. CASE r.tcp = <<>>
  <2>1. replicaKey(r) = <<"http", r.ns, r.hosts, r.port, r.mw, r.inspect, r.internal>>
    BY <1>3 DEF replicaKey
  <2>2. replicaKey(r) = <<"http", r.ns, r.hosts, r.port, r.mw, r.inspect, FALSE>>
    BY <2>1 DEF WellFormed
  <2>3. replicaKey(r)[7] = FALSE /\ replicaKey(dashboardRoute)[7] = TRUE
    BY <1>1, <2>2
  <2> QED BY <2>3
<1> QED
  BY <1>2, <1>3

\* So resolving the dashboard with the published routes changes no group.
LEMMA ServedGroups ==
  ASSUME NEW cs, NEW asked, Listable(cs)
  PROVE  WatcherGroups(cs, asked) = Groups(Published(cs, asked)) \cup {dashboardRoute}
<1> DEFINE P == Published(cs, asked)
           Q == P \cup {dashboardRoute}
<1>1. \A r \in P : WellFormed(r)
  BY PublishedNamed
<1>2. ASSUME NEW r \in P PROVE ReplicasOf(r, Q) = ReplicasOf(r, P)
  <2>1. dashboardRoute # r
    <3>1. r.name # DashboardName
      BY PublishedNamed
    <3>2. dashboardRoute.name = DashboardName
      BY DEF dashboardRoute
    <3> QED BY <3>1, <3>2
  <2> QED
    BY <1>1, <2>1, DashboardApart DEF ReplicasOf
<1>3. ReplicasOf(dashboardRoute, Q) = {dashboardRoute}
  <2>1. \A r \in P : replicaKey(r) # replicaKey(dashboardRoute)
    BY <1>1, DashboardApart
  <2> QED
    BY <2>1 DEF ReplicasOf
<1>4. Group(dashboardRoute, Q) = dashboardRoute
  <2>1. Group(dashboardRoute, Q) =
          [dashboardRoute EXCEPT !.servers = {q.name : q \in {dashboardRoute}},
                                 !.share = \E q \in {dashboardRoute} : q.share,
                                 !.inspect = dashboardRoute.inspect /\ {dashboardRoute} = {dashboardRoute}]
    BY <1>3 DEF Group
  <2>2. {q.name : q \in {dashboardRoute}} = {DashboardName}
    BY DashboardFields
  <2>3. (\E q \in {dashboardRoute} : q.share) = FALSE
    BY DashboardFields
  <2>4. (dashboardRoute.inspect /\ {dashboardRoute} = {dashboardRoute}) = FALSE
    BY DashboardFields
  <2>5. Group(dashboardRoute, Q) =
          [dashboardRoute EXCEPT !.servers = {DashboardName}, !.share = FALSE, !.inspect = FALSE]
    BY <2>1, <2>2, <2>3, <2>4
  <2>6. dashboardRoute = [f \in DOMAIN dashboardRoute |-> dashboardRoute[f]]
    BY DEF dashboardRoute
  <2> QED
    BY <2>5, <2>6, DashboardFields
<1>5. IsFirst(dashboardRoute, Q)
  <2>1. dashboardRoute.name \in Int
    BY DashboardAssumption DEF dashboardRoute
  <2> QED
    BY <1>3, <2>1 DEF IsFirst
<1>6. ASSUME NEW r \in P PROVE (IsFirst(r, Q) <=> IsFirst(r, P)) /\ Group(r, Q) = Group(r, P)
  BY <1>2 DEF IsFirst, Group
<1> HIDE DEF P
<1>7. Groups(Q) = Groups(P) \cup {dashboardRoute}
  BY <1>4, <1>5, <1>6 DEF Groups
<1> QED
  BY <1>7 DEF WatcherGroups, P

\* A published container is a backend of a served group, that of its first replica.
LEMMA PublishedServed ==
  ASSUME NEW cs, NEW asked, Listable(cs), NEW c \in Published(cs, asked)
  PROVE  \E f \in Published(cs, asked), g \in WatcherGroups(cs, asked) :
            /\ f \in ReplicasOf(c, Published(cs, asked)) /\ c \in ReplicasOf(f, Published(cs, asked))
            /\ IsFirst(f, Published(cs, asked)) /\ g = Group(f, Published(cs, asked)) /\ IsRoute(g)
            /\ g.name = f.name /\ g.gen = f.gen /\ g.natives = f.natives
            /\ g.hosts = c.hosts /\ g.path = c.path /\ g.proximo = c.proximo
            /\ c.name \in g.servers
<1>1. Named(Published(cs, asked))
  BY PublishedNamed
<1>2. PICK f \in ReplicasOf(c, Published(cs, asked)) :
         /\ IsFirst(f, Published(cs, asked)) /\ c \in ReplicasOf(f, Published(cs, asked))
         /\ Group(f, Published(cs, asked)) \in Groups(Published(cs, asked))
  BY <1>1, GroupOfRoute
<1>3. f \in Published(cs, asked) /\ f.hosts = c.hosts /\ f.path = c.path /\ f.proximo = c.proximo
  BY <1>2, ReplicasAlike
<1>4. IsRoute(f)
  BY <1>1, <1>3 DEF Named
<1>5. Group(f, Published(cs, asked)) \in WatcherGroups(cs, asked)
  BY <1>2, ServedGroups
<1> QED
  BY <1>2, <1>3, <1>4, <1>5, GroupFields

\* A served group is the dashboard's, or has the fields of a published container.
LEMMA ServedFromPublished ==
  ASSUME NEW cs, NEW asked, Listable(cs), NEW g \in WatcherGroups(cs, asked)
  PROVE  \/ g = dashboardRoute
         \/ \E f \in Published(cs, asked) :
               /\ IsFirst(f, Published(cs, asked)) /\ g = Group(f, Published(cs, asked))
               /\ WellFormed(f) /\ g.name = f.name /\ g.ns = f.ns
               /\ g.hosts = f.hosts /\ g.gen = f.gen /\ g.natives = f.natives
               /\ g.path = f.path /\ g.proximo = f.proximo /\ g.internal = f.internal
               /\ g.base = f.base
               /\ g.servers = {q.name : q \in ReplicasOf(f, Published(cs, asked))}
<1>1. Named(Published(cs, asked)) /\ \A r \in Published(cs, asked) : IsRoute(r) /\ WellFormed(r)
  BY PublishedNamed DEF Named
<1>2. CASE g \in Groups(Published(cs, asked))
  <2>1. PICK f \in Published(cs, asked) : IsFirst(f, Published(cs, asked)) /\ g = Group(f, Published(cs, asked))
    BY <1>2 DEF Groups
  <2> QED
    BY <1>1, <2>1, GroupFields
<1> QED
  BY <1>2, ServedGroups

-----------------------------------------------------------------------------
(***************************************************************************)
(* Native rules, declared hosts and collisions.                             *)
(***************************************************************************)
\* Merging the replicas among the routes P costs no native rule and withdraws no
\* generated host that a replica declares: the first of them speaks for all.
RulesFirst(P) ==
  \A f \in P : IsFirst(f, P) => \A c \in ReplicasOf(f, P) : c.natives \subseteq f.natives

DeclaredFirst(P) ==
  \A f \in P : IsFirst(f, P) => \A c \in ReplicasOf(f, P) : f.gen \subseteq c.gen

\* A host of a container's rule is one of its group's, and no group survives on it.
LEMMA NativesAlone ==
  ASSUME NEW cs, NEW asked, Listable(cs), RulesFirst(Published(cs, asked)),
         NEW c \in Published(cs, asked), NEW r \in RoutedSet(cs, asked), r.proximo
  PROVE  r.hosts \cap c.natives = {}
<1>1. PICK f \in Published(cs, asked), g \in WatcherGroups(cs, asked) :
         /\ c \in ReplicasOf(f, Published(cs, asked)) /\ IsFirst(f, Published(cs, asked)) /\ g.natives = f.natives
  BY PublishedServed
<1>2. c.natives \subseteq NativeHosts(WatcherGroups(cs, asked))
  BY <1>1 DEF RulesFirst, NativeHosts
<1>3. PICK o \in WatcherGroups(cs, asked) : r.hosts = survivors(o, WatcherGroups(cs, asked))
  BY KeptOfServed, ServedNamed, KeptFields
<1> QED
  BY <1>2, <1>3 DEF survivors

\* Against a group that declares the host, a generated claim does not survive.
LEMMA DeclaredBeats ==
  ASSUME NEW cs, NEW asked, Listable(cs), DeclaredFirst(Published(cs, asked)),
         NEW r \in RoutedSet(cs, asked), NEW h \in r.hosts \cap r.gen,
         NEW c \in Published(cs, asked), Claims(c, h, r.path), h \notin c.gen, c.name \notin r.servers
  PROVE  FALSE
<1>1. PICK g \in WatcherGroups(cs, asked) :
         /\ r.proximo = g.proximo /\ r.path = g.path /\ r.gen = g.gen /\ r.servers = g.servers
         /\ g.proximo => r.hosts = survivors(g, WatcherGroups(cs, asked))
  BY KeptOfServed, ServedNamed, KeptFields
<1>2. g.proximo
  <2>1. CASE g = dashboardRoute
    BY <2>1 DEF dashboardRoute
  <2>2. CASE g # dashboardRoute
    <3>1. PICK f \in Published(cs, asked) : WellFormed(f) /\ g.gen = f.gen /\ g.proximo = f.proximo
      BY <2>2, ServedFromPublished
    <3> QED
      BY <1>1, <3>1 DEF WellFormed
  <2> QED BY <2>1, <2>2
<1>3. PICK f \in Published(cs, asked), o \in WatcherGroups(cs, asked) :
         /\ c \in ReplicasOf(f, Published(cs, asked)) /\ IsFirst(f, Published(cs, asked))
         /\ o.gen = f.gen /\ o.hosts = c.hosts /\ o.path = c.path /\ o.proximo = c.proximo
         /\ c.name \in o.servers
  BY PublishedServed
<1>4. h \notin o.gen
  BY <1>3 DEF DeclaredFirst
<1>5. o # g
  BY <1>1, <1>3
<1>6. Claims(o, h, g.path)
  BY <1>1, <1>3 DEF Claims
<1>7. Precedes(g, o, h)
  BY <1>1, <1>2, <1>5, <1>6 DEF survivors
<1>8. h \in g.gen
  BY <1>1
<1> QED
  BY <1>4, <1>7, <1>8 DEF Precedes

\* A generated host ends in the namespace it was generated for, after another label.
LEMMA GeneratedLabels ==
  ASSUME NEW hosts \in SUBSET HostNames, NEW ns, NEW q \in Generated(hosts, ns)
  PROVE  Len(q.labels) > 1 /\ q.labels[Len(q.labels)] = ns
<1>1. PICK h \in hosts : q \in qualifiedHost(h, ns)
  BY DEF Generated
<1>2. q = [h EXCEPT !.labels = Append(h.labels, ns)]
  BY <1>1, Zenon DEF qualifiedHost
<1>3. h.labels \in Seq(STRING) /\ h.labels # <<>> /\ "labels" \in DOMAIN h
  BY DEF HostNames
<1>4. q.labels = Append(h.labels, ns)
  BY <1>2, <1>3
<1>5. Len(h.labels) \in Nat /\ Len(h.labels) # 0
  BY <1>3
<1>6. Len(Append(h.labels, ns)) = Len(h.labels) + 1
  BY <1>3
<1>7. Append(h.labels, ns)[Len(h.labels) + 1] = ns
  BY <1>3
<1> QED
  BY <1>4, <1>5, <1>6, <1>7

\* Another group claiming a generated host would have to be of the same namespace.
LEMMA BareHostOnly ==
  ASSUME NEW cs, NEW asked, Listable(cs),
         NEW c \in Published(cs, asked), NEW q \in c.gen,
         \A o \in Published(cs, asked) : q \notin o.natives,
         \A o \in Published(cs, asked) :
           Claims(o, q, c.path) => q \in o.gen /\ ~(o.ns = c.ns /\ o.name # c.name)
  PROVE  \E r \in RoutedSet(cs, asked) : c.name \in r.servers /\ q \in r.hosts
<1>1. WellFormed(c)
  BY PublishedNamed
<1>2. c.proximo
  BY <1>1 DEF WellFormed
<1>3. PICK declared \in SUBSET HostNames : c.gen = Generated(declared, c.ns) /\ c.hosts = declared \cup c.gen
  BY <1>1, <1>2 DEF WellFormed
<1>4. Len(q.labels) > 1 /\ q.labels[Len(q.labels)] = c.ns
  BY <1>3, GeneratedLabels
<1>5. PICK f \in Published(cs, asked), g \in WatcherGroups(cs, asked) :
         /\ c \in ReplicasOf(f, Published(cs, asked)) /\ IsFirst(f, Published(cs, asked))
         /\ g = Group(f, Published(cs, asked)) /\ IsRoute(g)
         /\ g.hosts = c.hosts /\ g.path = c.path /\ g.proximo = c.proximo /\ c.name \in g.servers
  BY PublishedServed
<1>6. q \notin NativeHosts(WatcherGroups(cs, asked))
  <2>1. ASSUME NEW o \in WatcherGroups(cs, asked), q \in o.natives PROVE FALSE
    BY <2>1, ServedFromPublished, DashboardFields
  <2> QED
    BY <2>1 DEF NativeHosts
<1>7. ASSUME NEW o \in WatcherGroups(cs, asked) \ {g}, Claims(o, q, g.path) PROVE FALSE
  <2>1. o # dashboardRoute
    <3>1. q # DashboardHost
      BY <1>4, DashboardAssumption
    <3> QED
      BY <1>7, <3>1, DashboardFields DEF Claims
  <2>2. PICK x \in Published(cs, asked) :
           /\ IsFirst(x, Published(cs, asked)) /\ o = Group(x, Published(cs, asked)) /\ WellFormed(x)
           /\ o.hosts = x.hosts /\ o.path = x.path /\ o.proximo = x.proximo
    BY <2>1, ServedFromPublished
  <2>3. Claims(x, q, c.path)
    BY <1>5, <1>7, <2>2 DEF Claims
  <2>4. q \in x.gen /\ x.proximo
    BY <2>3 DEF Claims
  <2>5. PICK xs \in SUBSET HostNames : x.gen = Generated(xs, x.ns)
    BY <2>2, <2>4 DEF WellFormed
  <2>6. x.ns = c.ns
    BY <1>4, <2>4, <2>5, GeneratedLabels
  <2>7. x.name = c.name
    BY <2>3, <2>6
  <2>8. x = c
    BY <2>7, PublishedNamed DEF Named
  <2>9. x \in ReplicasOf(f, Published(cs, asked)) /\ f \in ReplicasOf(x, Published(cs, asked))
    BY <1>5, <2>8 DEF ReplicasOf
  <2>10. f.name <= x.name /\ x.name <= f.name
    BY <1>5, <2>2, <2>9 DEF IsFirst
  <2>11. x.name \in Int /\ f.name \in Int
    BY PublishedNamed
  <2>12. x = f
    <3>1. x.name = f.name
      BY <2>10, <2>11
    <3> QED BY <1>5, <2>2, <3>1, PublishedNamed DEF Named
  <2> QED
    BY <1>5, <1>7, <2>2, <2>12
<1>8. q \in survivors(g, WatcherGroups(cs, asked))
  BY <1>3, <1>5, <1>6, <1>7 DEF survivors
<1>9. \E k \in KeptOf(WatcherGroups(cs, asked)) : k.servers = g.servers /\ k.hosts = survivors(g, WatcherGroups(cs, asked))
  <2>1. g.proximo /\ survivors(g, WatcherGroups(cs, asked)) # {}
    BY <1>2, <1>5, <1>8
  <2>2. g \in WatcherGroups(cs, asked) /\ IsRoute(g)
    BY <1>5
  <2> QED BY <2>1, <2>2, GroupKept
<1> QED
  BY <1>5, <1>8, <1>9, KeptOfServed

-----------------------------------------------------------------------------
(***************************************************************************)
(* File names.                                                              *)
(***************************************************************************)
\* Kept routes are finitely many, named apart; only the dashboard's is internal,
\* and only a container can be named otherwise than 0.
LEMMA KeptNamed ==
  ASSUME NEW cs, NEW asked, Listable(cs)
  PROVE  /\ IsFiniteSet(RoutedSet(cs, asked))
         /\ \A r, s \in RoutedSet(cs, asked) : r.name = s.name => r = s
         /\ \A r \in RoutedSet(cs, asked) : /\ r.internal \in BOOLEAN
                                            /\ ~r.internal => r.name \in Int \ {0}
                                            /\ r.internal => r.name = DashboardName
<1> DEFINE keep(g) == IF g.proximo THEN [g EXCEPT !.hosts = survivors(g, WatcherGroups(cs, asked))] ELSE g
           f == [g \in WatcherGroups(cs, asked) |-> keep(g)]
<1>1. Named(WatcherGroups(cs, asked))
  BY ServedNamed
<1>2. IsFiniteSet({f[g] : g \in WatcherGroups(cs, asked)})
  <2>1. DOMAIN f = WatcherGroups(cs, asked)
    OBVIOUS
  <2> HIDE DEF f
  <2> QED BY <1>1, <2>1, FiniteImage DEF Named
<1>3. ASSUME NEW r \in RoutedSet(cs, asked)
      PROVE  \E g \in WatcherGroups(cs, asked) : /\ r = f[g] /\ r.name = g.name
                                                 /\ r.internal = g.internal
  <2>1. PICK g \in WatcherGroups(cs, asked) :
           /\ r.name = g.name /\ r.internal = g.internal
           /\ g.proximo => r = [g EXCEPT !.hosts = survivors(g, WatcherGroups(cs, asked))]
           /\ ~g.proximo => r = g
    BY ServedNamed, KeptOfServed, KeptFields
  <2>2. r = keep(g)
    BY <2>1
  <2> QED
    BY <2>1, <2>2
<1> HIDE DEF f
<1>4. IsFiniteSet(RoutedSet(cs, asked))
  <2>1. RoutedSet(cs, asked) \in SUBSET {f[g] : g \in WatcherGroups(cs, asked)}
    BY <1>3
  <2> QED
    BY <1>2, <2>1, FS_Subset
<1>5. ASSUME NEW r \in RoutedSet(cs, asked), NEW s \in RoutedSet(cs, asked), r.name = s.name PROVE r = s
  <2>1. PICK g \in WatcherGroups(cs, asked) : r = f[g] /\ r.name = g.name
    BY <1>3
  <2>2. PICK o \in WatcherGroups(cs, asked) : s = f[o] /\ s.name = o.name
    BY <1>3
  <2> QED
    BY <1>1, <1>5, <2>1, <2>2 DEF Named
<1>6. ASSUME NEW r \in RoutedSet(cs, asked)
      PROVE  /\ r.internal \in BOOLEAN
             /\ ~r.internal => r.name \in Int \ {0}
             /\ r.internal => r.name = DashboardName
  <2>1. PICK g \in WatcherGroups(cs, asked) : r.name = g.name /\ r.internal = g.internal
    BY <1>3
  <2>2. CASE g = dashboardRoute
    BY <2>1, <2>2, DashboardFields
  <2>3. CASE g # dashboardRoute
    <3>1. PICK x \in Published(cs, asked) : WellFormed(x) /\ g.name = x.name /\ g.internal = x.internal
      BY <2>3, ServedFromPublished
    <3>2. x.internal = FALSE
      BY <3>1 DEF WellFormed
    <3>3. x.name \in Int \ {0}
      BY PublishedNamed
    <3> QED
      BY <2>1, <3>1, <3>2, <3>3
  <2> QED BY <2>2, <2>3
<1> QED
  BY <1>4, <1>5, <1>6

\* A set that holds two things has more than one element.
LEMMA TwoElements ==
  ASSUME NEW S, IsFiniteSet(S), NEW a \in S, NEW b \in S, a # b
  PROVE  Cardinality(S) > 1
<1>1. Cardinality(S) \in Nat
  BY FS_CardinalityType
<1>2. Cardinality(S) # 0
  BY FS_EmptySet
<1>3. Cardinality(S) # 1
  BY FS_Singleton
<1> QED
  BY <1>1, <1>2, <1>3

\* Two routes of one base both get their container's id, and a container never has 0.
LEMMA FilesApart ==
  ASSUME NEW cs, NEW asked, Listable(cs),
         NEW r \in RoutedSet(cs, asked), NEW s \in RoutedSet(cs, asked), r # s,
         assignSafeNames(r, RoutedSet(cs, asked)) = assignSafeNames(s, RoutedSet(cs, asked))
  PROVE  FALSE
<1> DEFINE rivals(x) == {q \in RoutedSet(cs, asked) : q.base = x.base /\ ~q.internal}
           taken(x)  == Cardinality(rivals(x)) + (IF x.base = DashboardBase THEN 1 ELSE 0)
<1>1. r.name # s.name
  BY KeptNamed
<1>2. ASSUME NEW x \in RoutedSet(cs, asked) PROVE IsFiniteSet(rivals(x)) /\ Cardinality(rivals(x)) \in Nat
  BY KeptNamed, FS_Subset, FS_CardinalityType
<1>3. ASSUME NEW x \in RoutedSet(cs, asked), x.internal
      PROVE  assignSafeNames(x, RoutedSet(cs, asked))[1] = DashboardBase /\ assignSafeNames(x, RoutedSet(cs, asked))[2] = 0
  BY <1>3 DEF assignSafeNames
<1>4. ASSUME NEW x \in RoutedSet(cs, asked), ~x.internal
      PROVE  /\ assignSafeNames(x, RoutedSet(cs, asked))[1] = x.base
             /\ taken(x) > 1 => assignSafeNames(x, RoutedSet(cs, asked))[2] = x.name
  <2>1. assignSafeNames(x, RoutedSet(cs, asked)) = IF taken(x) > 1 THEN <<x.base, x.name>> ELSE <<x.base, 0>>
    BY <1>4 DEF assignSafeNames
  <2> HIDE DEF taken
  <2>2. CASE taken(x) > 1
    BY <2>1, <2>2
  <2>3. CASE ~(taken(x) > 1)
    BY <2>1, <2>3
  <2> QED BY <2>2, <2>3
\* The dashboard's reserved name is no container's.
<1>5. ASSUME NEW x \in RoutedSet(cs, asked), NEW y \in RoutedSet(cs, asked), x.internal, ~y.internal
      PROVE  assignSafeNames(x, RoutedSet(cs, asked)) # assignSafeNames(y, RoutedSet(cs, asked))
  <2>1. CASE y.base # DashboardBase
    BY <1>3, <1>4, <1>5, <2>1
  <2>2. CASE y.base = DashboardBase
    <3>1. y \in rivals(y)
      BY <1>5
    <3>2. Cardinality(rivals(y)) # 0
      BY <1>2, <3>1, FS_EmptySet
    <3>3. taken(y) = Cardinality(rivals(y)) + 1
      BY <2>2
    <3>4. taken(y) > 1
      BY <1>2, <3>2, <3>3
    <3>5. assignSafeNames(y, RoutedSet(cs, asked))[2] = y.name
      BY <1>4, <1>5, <3>4
    <3>6. y.name # 0
      BY <1>5, KeptNamed
    <3> QED
      BY <1>3, <1>5, <3>5, <3>6
  <2> QED BY <2>1, <2>2
<1>6. CASE r.internal /\ s.internal
  BY <1>1, <1>6, KeptNamed
<1>7. CASE ~r.internal /\ ~s.internal
  <2>1. r.base = s.base
    BY <1>4, <1>7
  <2>2. rivals(r) = rivals(s) /\ r \in rivals(r) /\ s \in rivals(r)
    BY <1>7, <2>1
  <2>3. Cardinality(rivals(r)) > 1
    <3>1. IsFiniteSet(rivals(r))
      BY <1>2
    <3> HIDE DEF rivals
    <3> QED BY <2>2, <3>1, TwoElements
  <2>4. taken(r) > 1 /\ taken(s) > 1
    <3>1. Cardinality(rivals(r)) \in Nat /\ rivals(s) = rivals(r)
      BY <1>2, <2>2
    <3> HIDE DEF rivals
    <3> QED BY <2>3, <3>1
  <2> HIDE DEF taken
  <2>5. assignSafeNames(r, RoutedSet(cs, asked))[2] = r.name /\ assignSafeNames(s, RoutedSet(cs, asked))[2] = s.name
    BY <1>4, <1>7, <2>4
  <2> QED
    BY <1>1, <2>5
<1> QED
  BY <1>5, <1>6, <1>7, KeptNamed

-----------------------------------------------------------------------------
(***************************************************************************)
(* A container that stops.                                                  *)
(***************************************************************************)
\* The first of some merged replicas speaks for all of them.
FirstSpeaks(routes) ==
  \A f \in routes : IsFirst(f, routes) =>
    \A c \in ReplicasOf(f, routes) : c.natives \subseteq f.natives /\ f.gen \subseteq c.gen

\* A group that loses no backend stays the group it was.
LEMMA GroupStays ==
  ASSUME NEW P, NEW x, NEW f \in P, IsFirst(f, P), x \notin ReplicasOf(f, P)
  PROVE  /\ f \in P \ {x} /\ IsFirst(f, P \ {x}) /\ Group(f, P \ {x}) = Group(f, P)
         /\ ReplicasOf(f, P \ {x}) = ReplicasOf(f, P)
<1>1. f \in P \ {x}
  BY DEF ReplicasOf
<1>2. ReplicasOf(f, P \ {x}) = ReplicasOf(f, P)
  BY DEF ReplicasOf
<1> QED
  BY <1>1, <1>2 DEF IsFirst, Group

\* Group o of the routes left without x, represented by y, is behind that of f before.
StoodBehind(o, y, f, P, x) ==
  /\ y \in P \ {x} /\ IsFirst(y, P \ {x}) /\ o = Group(y, P \ {x})
  /\ f \in P /\ IsFirst(f, P) /\ y \in ReplicasOf(f, P) /\ Group(f, P) \in Groups(P)
  /\ o.natives \subseteq Group(f, P).natives /\ Group(f, P).gen \subseteq o.gen
  /\ o.hosts = Group(f, P).hosts /\ o.path = Group(f, P).path
  /\ o.proximo = Group(f, P).proximo
  /\ Group(f, P).name = f.name /\ o.name = y.name /\ f.name <= y.name

\* A rival after the stop stood behind one before it that was at least as strong.
LEMMA RivalBefore ==
  ASSUME NEW P, Named(P), FirstSpeaks(P), NEW x, NEW o \in Groups(P \ {x})
  PROVE  \E y, f \in P : StoodBehind(o, y, f, P, x)
<1>1. PICK y \in P \ {x} : IsFirst(y, P \ {x}) /\ o = Group(y, P \ {x})
  BY DEF Groups
<1>2. PICK f \in ReplicasOf(y, P) : IsFirst(f, P) /\ y \in ReplicasOf(f, P) /\ Group(f, P) \in Groups(P)
  BY <1>1, GroupOfRoute
<1>3. f \in P /\ f.hosts = y.hosts /\ f.path = y.path /\ f.proximo = y.proximo
  BY <1>2, ReplicasAlike
<1>4. IsRoute(y) /\ IsRoute(f)
  BY <1>1, <1>3 DEF Named
<1>5. /\ o.natives = y.natives /\ o.gen = y.gen /\ o.hosts = y.hosts /\ o.path = y.path
      /\ o.proximo = y.proximo /\ o.name = y.name
  BY <1>1, <1>4, GroupFields
<1>6. LET g == Group(f, P)
      IN  /\ g.natives = f.natives /\ g.gen = f.gen /\ g.hosts = f.hosts /\ g.path = f.path
          /\ g.proximo = f.proximo /\ g.name = f.name
  BY <1>4, GroupFields
<1>7. y.natives \subseteq f.natives /\ f.gen \subseteq y.gen
  BY <1>2, <1>3 DEF FirstSpeaks
<1>8. f.name <= y.name
  BY <1>2 DEF IsFirst
<1> QED
  BY <1>1, <1>2, <1>3, <1>5, <1>6, <1>7, <1>8 DEF StoodBehind

\* Removing a route from a set leaves the others what they were kept with.
LEMMA StopKeeps ==
  ASSUME NEW P, Named(P), FirstSpeaks(P), NEW x \in P,
         NEW r \in KeptOf(Groups(P)), x.name \notin r.servers
  PROVE  \E s \in KeptOf(Groups(P \ {x})) : s.name = r.name /\ r.hosts \subseteq s.hosts
<1> DEFINE Q == P \ {x}
<1>1. \A g \in Groups(P) : IsRoute(g)
  BY GroupsNamed DEF Named
<1>2. PICK g \in Groups(P) :
         /\ IsRoute(g) /\ r.name = g.name /\ r.servers = g.servers
         /\ g.proximo => r.hosts = survivors(g, Groups(P)) /\ survivors(g, Groups(P)) # {}
         /\ ~g.proximo => r = g
  BY <1>1, KeptFields
<1>3. PICK f \in P : IsFirst(f, P) /\ g = Group(f, P) /\ f.name = g.name
  BY GroupsAreRoutes DEF Named
<1>4. g.servers = {q.name : q \in ReplicasOf(f, P)}
  BY <1>3, GroupFields DEF Named
<1>5. x \notin ReplicasOf(f, P)
  BY <1>2, <1>4
<1>6. f \in Q /\ IsFirst(f, Q) /\ Group(f, Q) = g /\ ReplicasOf(f, Q) = ReplicasOf(f, P)
  BY <1>3, <1>5, GroupStays
<1>7. g \in Groups(Q)
  BY <1>6 DEF Groups
<1>8. survivors(g, Groups(P)) \subseteq survivors(g, Groups(Q))
  <2> SUFFICES ASSUME NEW h \in survivors(g, Groups(P)) PROVE h \in survivors(g, Groups(Q))
    OBVIOUS
  <2>1. h \in g.hosts /\ h \notin NativeHosts(Groups(P))
    BY DEF survivors
  <2>2. h \notin NativeHosts(Groups(Q))
    <3>1. ASSUME NEW o \in Groups(P \ {x}), h \in o.natives PROVE FALSE
      <4>1. \E e \in P : Group(e, P) \in Groups(P) /\ o.natives \subseteq Group(e, P).natives
        BY RivalBefore DEF StoodBehind
      <4> QED BY <2>1, <3>1, <4>1 DEF NativeHosts
    <3> QED BY <3>1 DEF NativeHosts
  <2>3. ASSUME NEW o \in Groups(Q) \ {g}, Claims(o, h, g.path) PROVE Precedes(g, o, h)
    <3>1. PICK y \in P, e \in P : StoodBehind(o, y, e, P, x)
      BY RivalBefore
    <3> USE <3>1 DEF StoodBehind
    <3> DEFINE b == Group(e, P)
    <3>2. b # g
      <4> SUFFICES ASSUME b = g PROVE FALSE
        OBVIOUS
      <4>1. e = f
        BY <1>3, <3>1 DEF Named
      <4>2. y \in ReplicasOf(f, Q) /\ f \in ReplicasOf(y, Q)
        BY <1>6, <3>1, <4>1 DEF ReplicasOf
      <4>3. y.name <= f.name /\ f.name <= y.name
        BY <1>6, <3>1, <4>2 DEF IsFirst
      <4>4. y.name \in Int /\ f.name \in Int
        BY DEF Named, IsRoute
      <4>5. y = f
        BY <4>3, <4>4 DEF Named
      <4> QED
        BY <1>6, <3>1, <4>5
    <3>3. b \in Groups(P) /\ Claims(b, h, g.path)
      BY <2>3, <3>1 DEF Claims
    <3>4. Precedes(g, b, h)
      BY <3>2, <3>3 DEF survivors
    <3>5. b.gen \subseteq o.gen /\ b.name = e.name /\ o.name = y.name /\ e.name <= y.name
      BY <3>1
    <3>6. g.name \in Int /\ e.name \in Int /\ y.name \in Int
      BY <1>2 DEF Named, IsRoute
    <3> HIDE DEF b
    <3>7. CASE h \in g.gen
      <4>1. h \in b.gen /\ g.name < b.name
        BY <3>4, <3>7 DEF Precedes
      <4>2. h \in o.gen
        BY <3>5, <4>1
      <4>3. g.name < o.name
        BY <3>5, <3>6, <4>1
      <4> QED
        BY <3>7, <4>2, <4>3 DEF Precedes
    <3>8. CASE h \notin g.gen /\ h \in o.gen
      BY <3>8 DEF Precedes
    <3>9. CASE h \notin g.gen /\ h \notin o.gen
      <4>1. h \notin b.gen
        BY <3>5, <3>9
      <4>2. g.name < b.name
        BY <3>4, <3>9, <4>1 DEF Precedes
      <4>3. g.name < o.name
        BY <3>5, <3>6, <4>2
      <4> QED
        BY <3>9, <4>3 DEF Precedes
    <3> QED
      BY <3>7, <3>8, <3>9
  <2> QED
    BY <2>1, <2>2, <2>3 DEF survivors
<1>9. PICK s \in KeptOf(Groups(Q)) :
         s.name = g.name /\ s.hosts = IF g.proximo THEN survivors(g, Groups(Q)) ELSE g.hosts
  <2>1. g.proximo => survivors(g, Groups(Q)) # {}
    BY <1>2, <1>8
  <2> HIDE DEF Q
  <2> QED BY <1>2, <1>7, <2>1, GroupKept
<1>10. r.hosts \subseteq s.hosts
  <2>1. CASE g.proximo
    BY <1>2, <1>8, <1>9, <2>1
  <2>2. CASE ~g.proximo
    BY <1>2, <1>9, <2>2
  <2> QED BY <2>1, <2>2
<1> QED
  BY <1>2, <1>9, <1>10

\* With the dashboard's route too, the first speaks for its replicas: it has none.
LEMMA ServedSpeaks ==
  ASSUME NEW cs, NEW asked, Listable(cs),
         RulesFirst(Published(cs, asked)), DeclaredFirst(Published(cs, asked))
  PROVE  FirstSpeaks(Published(cs, asked) \cup {dashboardRoute})
<1> DEFINE P == Published(cs, asked)
           Q == P \cup {dashboardRoute}
<1>1. ASSUME NEW r \in P PROVE ReplicasOf(r, Q) = ReplicasOf(r, P) /\ WellFormed(r)
  <2>1. WellFormed(r) /\ r.name # DashboardName
    BY PublishedNamed
  <2>2. dashboardRoute # r
    BY <2>1, DashboardFields
  <2> QED
    BY <2>1, <2>2, DashboardApart DEF ReplicasOf
<1>2. ReplicasOf(dashboardRoute, Q) = {dashboardRoute}
  <2>1. \A r \in P : replicaKey(r) # replicaKey(dashboardRoute)
    BY <1>1, DashboardApart
  <2> QED
    BY <2>1 DEF ReplicasOf
<1>3. ASSUME NEW f \in Q, IsFirst(f, Q), NEW c \in ReplicasOf(f, Q)
      PROVE  c.natives \subseteq f.natives /\ f.gen \subseteq c.gen
  <2>1. CASE f = dashboardRoute
    BY <1>2, <2>1
  <2>2. CASE f \in P
    <3>1. IsFirst(f, P) /\ c \in ReplicasOf(f, P)
      BY <1>1, <1>3, <2>2 DEF IsFirst
    <3> QED
      BY <2>2, <3>1 DEF RulesFirst, DeclaredFirst
  <2> QED
    BY <2>1, <2>2
<1> QED
  BY <1>3 DEF FirstSpeaks

\* A container that stops takes at most its own route from those published.
LEMMA StopPublished ==
  ASSUME NEW cs, NEW asked, NEW c \in cs,
         \A d \in cs : isRouted(d) => /\ classify(d, asked[d.name]).route.name = d.name
                                      /\ \A e \in cs : d.name = e.name => d = e
  PROVE  \/ Published(cs \ {c}, asked) = Published(cs, asked)
         \/ \E x \in Published(cs, asked) : /\ x.name = c.name
                                            /\ Published(cs \ {c}, asked) = Published(cs, asked) \ {x}
<1> DEFINE ok(d) == isRouted(d) /\ isHealthRoutable(d) /\ classify(d, asked[d.name]).ok
           route(d) == classify(d, asked[d.name]).route
<1>1. Published(cs, asked) = {route(d) : d \in {e \in cs : ok(e)}}
  BY DEF Published
<1>2. Published(cs \ {c}, asked) = {route(d) : d \in {e \in cs \ {c} : ok(e)}}
  BY DEF Published
<1>3. \A d \in cs : ok(d) => route(d).name = d.name /\ \A e \in cs : d.name = e.name => d = e
  OBVIOUS
<1> HIDE DEF ok, route
<1>4. CASE ~ok(c)
  BY <1>1, <1>2, <1>4
<1>5. CASE ok(c)
  <2>1. route(c) \in Published(cs, asked) /\ route(c).name = c.name
    BY <1>1, <1>3, <1>5
  <2>2. ASSUME NEW d \in cs \ {c}, ok(d) PROVE route(d) # route(c)
    BY <1>3, <1>5, <2>2
  <2>3. Published(cs \ {c}, asked) = Published(cs, asked) \ {route(c)}
    <3>1. ASSUME NEW y \in Published(cs \ {c}, asked) PROVE y \in Published(cs, asked) \ {route(c)}
      <4>1. PICK d \in cs \ {c} : ok(d) /\ y = route(d)
        BY <1>2
      <4> QED BY <1>1, <2>2, <4>1
    <3>2. ASSUME NEW y \in Published(cs, asked), y # route(c) PROVE y \in Published(cs \ {c}, asked)
      <4>1. PICK d \in cs : ok(d) /\ y = route(d)
        BY <1>1
      <4> QED BY <1>2, <3>2, <4>1
    <3> QED BY <3>1, <3>2
  <2> QED BY <2>1, <2>3
<1> QED
  BY <1>4, <1>5

\* So what the other routes answered on they keep.
LEMMA StopMovesOwn ==
  ASSUME NEW cs, NEW asked, Listable(cs),
         RulesFirst(Published(cs, asked)), DeclaredFirst(Published(cs, asked)),
         NEW c \in cs, NEW r \in RoutedSet(cs, asked), c.name \notin r.servers
  PROVE  \E s \in RoutedSet(cs \ {c}, asked) : s.name = r.name /\ r.hosts \subseteq s.hosts
<1> DEFINE P == Published(cs, asked)
           N == Published(cs \ {c}, asked)
           Q == P \cup {dashboardRoute}
<1>1. RoutedSet(cs, asked) = KeptOf(Groups(Q)) /\ RoutedSet(cs \ {c}, asked) = KeptOf(Groups(N \cup {dashboardRoute}))
  BY DEF RoutedSet, resolveRoutes
<1>2. Named(Q) /\ FirstSpeaks(Q)
  <2>1. Named(Q)
    BY PublishedNamed
  <2>2. FirstSpeaks(Q)
    BY ServedSpeaks
  <2> QED
    BY <2>1, <2>2
<1>3. \A d \in cs : isRouted(d) => /\ classify(d, asked[d.name]).route.name = d.name
                                   /\ \A e \in cs : d.name = e.name => d = e
  <2>1. ASSUME NEW d \in cs, isRouted(d)
        PROVE  classify(d, asked[d.name]).route.name = d.name
    <3>1. d.role = ""
      BY <2>1 DEF isRouted
    <3>2. d.name \in Int /\ d.hosts \subseteq HostNames
      BY <3>1 DEF Listable
    <3> QED
      BY <3>2, ClassifyRoute
  <2> QED
    BY <2>1 DEF Listable
<1>4. \/ N = P
      \/ \E x \in P : x.name = c.name /\ N = P \ {x}
  BY <1>3, StopPublished
<1> HIDE DEF P, N
<1>5. CASE N = P
  BY <1>1, <1>5
<1>6. CASE \E x \in P : x.name = c.name /\ N = P \ {x}
  <2>1. PICK x \in P : x.name = c.name /\ N = P \ {x}
    BY <1>6
  <2>2. x # dashboardRoute
    <3>1. x.name # DashboardName
      BY PublishedNamed DEF P, Published
    <3> QED BY <3>1, DashboardFields
  <2>3. N \cup {dashboardRoute} = Q \ {x}
    BY <2>1, <2>2
  <2>4. x \in Q /\ x.name \notin r.servers
    BY <2>1
  <2> HIDE DEF Q
  <2> QED
    BY <1>1, <1>2, <2>3, <2>4, StopKeeps
<1> QED
  BY <1>4, <1>5, <1>6

-----------------------------------------------------------------------------
(***************************************************************************)
(* The rows of a listing.                                                   *)
(***************************************************************************)
\* The groups the rows resolve: those of the published routes alone.
RowGroups(cs, asked) == Groups(Published(cs, asked))

\* They are named apart, with the fields of published containers.
LEMMA AskedNamed ==
  ASSUME NEW cs, NEW asked, Listable(cs)
  PROVE  /\ Named(RowGroups(cs, asked)) /\ \A g \in RowGroups(cs, asked) : IsRoute(g)
         /\ \A g \in RowGroups(cs, asked) :
              \E f \in Published(cs, asked) : /\ WellFormed(f) /\ g.ns = f.ns /\ g.name = f.name
                                              /\ g.hosts = f.hosts /\ g.gen = f.gen /\ g.natives = f.natives
                                              /\ g.path = f.path /\ g.proximo = f.proximo
                                              /\ g.internal = f.internal
<1>1. Named(Published(cs, asked)) /\ \A r \in Published(cs, asked) : IsRoute(r) /\ WellFormed(r)
  BY PublishedNamed DEF Named
<1>2. Named(RowGroups(cs, asked))
  BY <1>1, GroupsNamed DEF RowGroups
<1>3. ASSUME NEW g \in RowGroups(cs, asked)
      PROVE  \E f \in Published(cs, asked) : /\ WellFormed(f) /\ g.ns = f.ns /\ g.name = f.name
                                             /\ g.hosts = f.hosts /\ g.gen = f.gen /\ g.natives = f.natives
                                             /\ g.path = f.path /\ g.proximo = f.proximo
                                             /\ g.internal = f.internal
  <2>1. PICK f \in Published(cs, asked) : g = Group(f, Published(cs, asked))
    BY DEF RowGroups, Groups
  <2> QED
    BY <1>1, <2>1, GroupFields
<1> QED
  BY <1>2, <1>3 DEF Named

\* The rows of a kept host, of a native rule and of a lost host.
ServedRow(k, h) == Row("served", k.name, h, k.path, servedQualified(k, h), 0)
NativeRow(g, h) == Row("served", g.name, h, "", {}, 0)

\* The owner a lost host is reported with, and the qualified hosts that are left.
OwnerName(g, h, groups) ==
  IF h \in NativeHosts(groups) THEN nativeRule(h, groups) ELSE OwnerOf(h, g.path, groups).name

Left(name, path, h, kept) ==
  UNION {servedQualified(r, h) : r \in {q \in kept : q.name = name /\ q.path = path}}

CollisionRow(g, h, groups) ==
  Row("collision", g.name, h, g.path, Left(g.name, g.path, h, KeptOf(groups)), OwnerName(g, h, groups))

\* What servedRows lists of a resolution, no more and no less.
LEMMA ServedRowsAre ==
  ASSUME NEW routes, NEW x
  PROVE  x \in servedRows(resolveRoutes(routes)) <=>
           \/ \E k \in KeptOf(Groups(routes)) : \E h \in k.hosts \ k.gen : x = ServedRow(k, h)
           \/ \E g \in Groups(routes) : g.proximo /\ \E h \in g.natives : x = NativeRow(g, h)
           \/ \E g \in Groups(routes) :
                g.proximo /\ \E h \in g.hosts \ survivors(g, Groups(routes)) :
                               x = CollisionRow(g, h, Groups(routes))
<1> DEFINE G == Groups(routes)
           res == resolveRoutes(routes)
           lost(g, h) == [name |-> g.name, host |-> h, path |-> g.path, owner |-> OwnerName(g, h, G)]
           row(l) == Row("collision", l.name, l.host, l.path, Left(l.name, l.path, l.host, KeptOf(G)), l.owner)
           own(n) == Row("served", n.name, n.host, "", {}, 0)
           rule(g, h) == [name |-> g.name, host |-> h]
           proximos == {o \in G : o.proximo}
<1>1. res.kept = KeptOf(G)
  BY DEF resolveRoutes
<1>2. res.collisions = UNION {{lost(g, h) : h \in g.hosts \ survivors(g, G)} : g \in proximos}
  BY DEF resolveRoutes, CollisionsOf, OwnerName
<1>3. res.proximoNatives = UNION {{rule(g, h) : h \in g.natives} : g \in proximos}
  BY DEF resolveRoutes
<1>4. servedRows(res) = (UNION {{ServedRow(k, h) : h \in k.hosts \ k.gen} : k \in res.kept})
                        \cup {own(n) : n \in res.proximoNatives}
                        \cup {row(l) : l \in res.collisions}
  BY <1>1 DEF servedRows, ServedRow, Left
<1>5. \A g, h : row(lost(g, h)) = CollisionRow(g, h, G)
  BY DEF CollisionRow
<1>6. \A g, h : own(rule(g, h)) = NativeRow(g, h)
  BY DEF NativeRow
<1> HIDE DEF G, res, lost, row, own, rule
<1>7. x \in {row(l) : l \in res.collisions} <=>
        \E g \in proximos : \E h \in g.hosts \ survivors(g, G) : x = CollisionRow(g, h, G)
  BY <1>2, <1>5
<1>8. x \in {own(n) : n \in res.proximoNatives} <=>
        \E g \in proximos : \E h \in g.natives : x = NativeRow(g, h)
  BY <1>3, <1>6
<1>9. x \in UNION {{ServedRow(k, h) : h \in k.hosts \ k.gen} : k \in res.kept} <=>
        \E k \in KeptOf(G) : \E h \in k.hosts \ k.gen : x = ServedRow(k, h)
  BY <1>1
<1>10. x \in servedRows(res) <=>
         \/ \E k \in KeptOf(G) : \E h \in k.hosts \ k.gen : x = ServedRow(k, h)
         \/ \E g \in proximos : \E h \in g.natives : x = NativeRow(g, h)
         \/ \E g \in proximos : \E h \in g.hosts \ survivors(g, G) : x = CollisionRow(g, h, G)
  BY <1>4, <1>7, <1>8, <1>9
<1> QED
  BY <1>10 DEF G, res

\* With Traefik running the rows are those, the dashboard's, and what is withheld.
LEMMA RowsUp ==
  ASSUME NEW cs, NEW asked, NEW t \in cs, t.role = traefikRole
  PROVE  routesOf(cs, asked) = dashboardRows(cs) \cup flaggedRows(cs, asked) \cup observedRows(cs)
                \cup servedRows(resolveRoutes(Published(cs, asked)))
BY DEF routesOf

\* A host some group claims and no native rule matches survives in one of them.
LEMMA SomeoneHolds ==
  ASSUME NEW groups, Named(groups), NEW h, h \notin NativeHosts(groups), NEW path,
         NEW g \in groups, Claims(g, h, path)
  PROVE  \E o \in groups : Claims(o, h, path) /\ h \in survivors(o, groups)
<1> DEFINE C == {o \in groups : Claims(o, h, path)}
           D == {o \in C : h \notin o.gen}
<1>1. ASSUME NEW S \in SUBSET C, S # {}
      PROVE  \E f \in S : \A o \in S \ {f} : f.name < o.name
  <2>1. S \in SUBSET groups
    OBVIOUS
  <2>2. IsFiniteSet(S)
    BY <2>1, FS_Subset DEF Named
  <2>3. \A r \in S : r.name \in Int
    BY <2>1 DEF Named, IsRoute
  <2>4. PICK f \in S : \A o \in S : f.name <= o.name
    BY <1>1, <2>2, <2>3, NamedExtremes
  <2>5. \A o \in S \ {f} : f.name # o.name
    BY <2>1 DEF Named
  <2> QED
    BY <2>3, <2>4, <2>5
<1>2. ASSUME NEW f \in C, \A o \in C \ {f} : Precedes(f, o, h)
      PROVE  \E o \in groups : Claims(o, h, path) /\ h \in survivors(o, groups)
  <2>1. \A o \in groups \ {f} : Claims(o, h, f.path) => Precedes(f, o, h)
    BY <1>2 DEF Claims
  <2> QED
    BY <1>2, <2>1 DEF Claims, survivors
<1>3. CASE D # {}
  <2>1. PICK f \in D : \A o \in D \ {f} : f.name < o.name
    BY <1>1, <1>3
  <2>2. ASSUME NEW o \in C \ {f} PROVE Precedes(f, o, h)
    BY <2>1 DEF Precedes
  <2> QED
    BY <1>2, <2>2
<1>4. CASE D = {}
  <2>1. PICK f \in C : \A o \in C \ {f} : f.name < o.name
    BY <1>1
  <2>2. ASSUME NEW o \in C \ {f} PROVE Precedes(f, o, h)
    BY <1>4, <2>1 DEF Precedes
  <2> QED
    BY <1>2, <2>2
<1> QED
  BY <1>3, <1>4

\* The group recorded as carrying a native rule does carry it.
LEMMA RuleCarried ==
  ASSUME NEW groups, Named(groups), NEW h \in NativeHosts(groups)
  PROVE  \E n \in groups : h \in n.natives /\ nativeRule(h, groups) = n.name
<1> DEFINE S == {g \in groups : h \in g.natives}
<1>1. S # {} /\ S \in SUBSET groups
  BY DEF NativeHosts
<1>2. IsFiniteSet(S) /\ \A r \in S : r.name \in Int
  BY <1>1, FS_Subset DEF Named, IsRoute
<1>3. PICK n \in S : \A o \in S : o.name <= n.name
  <2> HIDE DEF S
  <2> QED BY <1>1, <1>2, NamedExtremes
<1>4. \E g \in groups : h \in g.natives /\ \A o \in groups : h \in o.natives => o.name <= g.name
  BY <1>3
<1> QED
  BY <1>4 DEF nativeRule

\* Whoever holds a lost host is kept with it, and so is a row that answers on it.
LEMMA ClaimsReported ==
  ASSUME NEW cs, NEW asked, Listable(cs), NEW t \in cs, t.role = traefikRole,
         NEW g \in RowGroups(cs, asked), g.proximo, NEW h \in g.hosts \ g.gen
  PROVE  \E row \in routesOf(cs, asked) :
           /\ row.container = g.name /\ row.host = h /\ row.path = g.path
           /\ \/ row.kind = "served"
              \/ /\ row.kind = "collision"
                 /\ \E other \in routesOf(cs, asked) : other.container = row.owner /\ h \in AnswersOn(other)
<1>1. Named(RowGroups(cs, asked)) /\ \A o \in RowGroups(cs, asked) : IsRoute(o)
  BY AskedNamed
<1>2. \A x : x \in servedRows(resolveRoutes(Published(cs, asked))) => x \in routesOf(cs, asked)
  BY RowsUp
<1>3. CASE h \in survivors(g, RowGroups(cs, asked))
  <2>1. PICK k \in KeptOf(RowGroups(cs, asked)) :
           k.name = g.name /\ k.path = g.path /\ k.gen = g.gen /\ k.hosts = survivors(g, RowGroups(cs, asked))
    BY <1>1, <1>3, GroupKept
  <2>2. ServedRow(k, h) \in routesOf(cs, asked)
    BY <1>2, <1>3, <2>1, ServedRowsAre DEF RowGroups
  <2>3. /\ ServedRow(k, h).container = g.name /\ ServedRow(k, h).host = h
        /\ ServedRow(k, h).path = g.path /\ ServedRow(k, h).kind = "served"
    BY <2>1 DEF ServedRow, Row
  <2> QED
    BY <2>2, <2>3
<1>4. CASE h \notin survivors(g, RowGroups(cs, asked))
  <2> DEFINE x == CollisionRow(g, h, RowGroups(cs, asked))
  <2>1. x \in routesOf(cs, asked)
    BY <1>2, <1>4, ServedRowsAre DEF RowGroups
  <2>2. /\ x.container = g.name /\ x.host = h /\ x.path = g.path /\ x.kind = "collision"
        /\ x.owner = OwnerName(g, h, RowGroups(cs, asked))
    BY DEF CollisionRow, Row
  <2>3. \E other \in routesOf(cs, asked) : other.container = OwnerName(g, h, RowGroups(cs, asked)) /\ h \in AnswersOn(other)
    <3>1. CASE h \in NativeHosts(RowGroups(cs, asked))
      <4>1. PICK n \in RowGroups(cs, asked) : h \in n.natives /\ OwnerName(g, h, RowGroups(cs, asked)) = n.name
        BY <1>1, <3>1, RuleCarried DEF OwnerName
      <4>2. CASE n.proximo
        <5>1. NativeRow(n, h) \in routesOf(cs, asked)
          BY <1>2, <4>1, <4>2, ServedRowsAre DEF RowGroups
        <5>2. NativeRow(n, h).container = n.name /\ h \in AnswersOn(NativeRow(n, h))
          BY DEF NativeRow, Row, AnswersOn
        <5> QED
          BY <4>1, <5>1, <5>2
      <4>3. CASE ~n.proximo
        <5>1. PICK f \in Published(cs, asked) : /\ WellFormed(f) /\ n.hosts = f.hosts /\ n.gen = f.gen
                                                /\ n.natives = f.natives /\ n.proximo = f.proximo
          BY AskedNamed
        <5>2. n.hosts = n.natives /\ n.gen = {}
          BY <4>3, <5>1 DEF WellFormed
        <5>3. n \in KeptOf(RowGroups(cs, asked))
          BY <4>3 DEF KeptOf
        <5>4. ServedRow(n, h) \in routesOf(cs, asked)
          BY <1>2, <4>1, <5>2, <5>3, ServedRowsAre DEF RowGroups
        <5>5. ServedRow(n, h).container = n.name /\ h \in AnswersOn(ServedRow(n, h))
          BY DEF ServedRow, Row, AnswersOn
        <5> QED
          BY <4>1, <5>4, <5>5
      <4> QED BY <4>2, <4>3
    <3>2. CASE h \notin NativeHosts(RowGroups(cs, asked))
      <4>1. Claims(g, h, g.path)
        BY DEF Claims
      <4>2. \E o \in RowGroups(cs, asked) : Claims(o, h, g.path) /\ h \in survivors(o, RowGroups(cs, asked))
        BY <1>1, <3>2, <4>1, SomeoneHolds
      <4> DEFINE o == OwnerOf(h, g.path, RowGroups(cs, asked))
      <4>3. o \in RowGroups(cs, asked) /\ Claims(o, h, g.path) /\ h \in survivors(o, RowGroups(cs, asked))
        BY <4>2 DEF OwnerOf
      <4>4. OwnerName(g, h, RowGroups(cs, asked)) = o.name
        BY <3>2 DEF OwnerName
      <4> HIDE DEF o
      <4>5. o # g
        BY <1>4, <4>3
      <4>6. Precedes(o, g, h)
        BY <4>1, <4>3, <4>5 DEF survivors, Claims
      <4>7. h \notin o.gen
        BY <4>6 DEF Precedes
      <4>8. o.proximo /\ survivors(o, RowGroups(cs, asked)) # {} /\ IsRoute(o)
        BY <1>1, <4>3 DEF Claims
      <4>9. PICK k \in KeptOf(RowGroups(cs, asked)) : k.name = o.name /\ k.gen = o.gen /\ k.hosts = survivors(o, RowGroups(cs, asked))
        BY <4>3, <4>8, GroupKept
      <4>10. ServedRow(k, h) \in routesOf(cs, asked)
        BY <1>2, <4>3, <4>7, <4>9, ServedRowsAre DEF RowGroups
      <4>11. ServedRow(k, h).container = k.name /\ h \in AnswersOn(ServedRow(k, h))
        BY DEF ServedRow, Row, AnswersOn
      <4> QED
        BY <4>4, <4>9, <4>10, <4>11
    <3> QED BY <3>1, <3>2
  <2> HIDE DEF x
  <2> QED
    BY <2>1, <2>2, <2>3
<1> QED
  BY <1>3, <1>4

-----------------------------------------------------------------------------
(***************************************************************************)
(* The rows and the routers.                                                *)
(***************************************************************************)
\* The names the rows say are answered, and those the routers and the native rules
\* answer, t being Traefik.
AnsweredIn(cs, asked) == UNION {{<<x.container, h, x.path>> : h \in AnswersOn(x)} : x \in routesOf(cs, asked)}

RoutedIn(cs, asked, t) ==
  (UNION {{<<IF r.internal THEN t.name ELSE r.name, h, r.path>> : h \in r.hosts} : r \in RoutedSet(cs, asked)})
  \cup UNION {{<<g.name, h, "">> : h \in g.natives} : g \in {x \in Groups(Published(cs, asked)) : x.proximo}}

\* No published container asks for the dashboard's host.
Uncontested(P) == \A c \in P : DashboardHost \notin c.hosts \cup c.natives

\* Uncontested, the dashboard's group takes nothing from the others and is kept whole.
LEMMA KeptUncontested ==
  ASSUME NEW cs, NEW asked, Listable(cs), Uncontested(Published(cs, asked))
  PROVE  RoutedSet(cs, asked) = KeptOf(RowGroups(cs, asked)) \cup {dashboardRoute}
<1> DEFINE d == dashboardRoute
<1>1. WatcherGroups(cs, asked) = RowGroups(cs, asked) \cup {d}
  BY ServedGroups DEF RowGroups
<1>2. ASSUME NEW g \in RowGroups(cs, asked) PROVE DashboardHost \notin g.hosts \cup g.natives /\ g # d
  <2>1. PICK f \in Published(cs, asked) : g.hosts = f.hosts /\ g.natives = f.natives
    BY AskedNamed
  <2>2. DashboardHost \notin g.hosts \cup g.natives
    BY <2>1 DEF Uncontested
  <2> QED
    BY <2>2, DashboardFields
<1>3. d.hosts = {DashboardHost} /\ d.natives = {} /\ d.proximo = TRUE
  BY DashboardFields
<1>4. d = [f \in DOMAIN d |-> d[f]] /\ "hosts" \in DOMAIN d
  BY DEF dashboardRoute
<1> HIDE DEF d
<1>5. NativeHosts(WatcherGroups(cs, asked)) = NativeHosts(RowGroups(cs, asked)) /\ DashboardHost \notin NativeHosts(RowGroups(cs, asked))
  BY <1>1, <1>2, <1>3 DEF NativeHosts
<1>6. ASSUME NEW g \in RowGroups(cs, asked) PROVE survivors(g, WatcherGroups(cs, asked)) = survivors(g, RowGroups(cs, asked))
  <2>1. \A h \in g.hosts : ~Claims(d, h, g.path)
    BY <1>2, <1>3 DEF Claims
  <2>2. \A h \in g.hosts : (\A o \in WatcherGroups(cs, asked) \ {g} : Claims(o, h, g.path) => Precedes(g, o, h))
                       <=> (\A o \in RowGroups(cs, asked) \ {g} : Claims(o, h, g.path) => Precedes(g, o, h))
    BY <1>1, <2>1
  <2> QED
    BY <1>5, <2>2 DEF survivors
<1>7. survivors(d, WatcherGroups(cs, asked)) = {DashboardHost}
  <2>1. \A o \in WatcherGroups(cs, asked) \ {d} : ~Claims(o, DashboardHost, d.path)
    BY <1>1, <1>2 DEF Claims
  <2> QED
    BY <1>3, <1>5, <2>1 DEF survivors
<1>8. [d EXCEPT !.hosts = survivors(d, WatcherGroups(cs, asked))] = d
  BY <1>3, <1>4, <1>7
<1>9. KeptOf(WatcherGroups(cs, asked)) = KeptOf(RowGroups(cs, asked)) \cup {d}
  <2> DEFINE whole(g) == [g EXCEPT !.hosts = survivors(g, WatcherGroups(cs, asked))]
             part(g)  == [g EXCEPT !.hosts = survivors(g, RowGroups(cs, asked))]
  <2>1. KeptOf(WatcherGroups(cs, asked)) = {g \in WatcherGroups(cs, asked) : ~g.proximo}
                         \cup {whole(g) : g \in {o \in WatcherGroups(cs, asked) : o.proximo /\ survivors(o, WatcherGroups(cs, asked)) # {}}}
    BY DEF KeptOf
  <2>2. KeptOf(RowGroups(cs, asked)) = {g \in RowGroups(cs, asked) : ~g.proximo}
                        \cup {part(g) : g \in {o \in RowGroups(cs, asked) : o.proximo /\ survivors(o, RowGroups(cs, asked)) # {}}}
    BY DEF KeptOf
  <2>3. \A g \in RowGroups(cs, asked) : whole(g) = part(g)
    BY <1>6
  <2>4. whole(d) = d
    BY <1>8
  <2> HIDE DEF whole, part
  <2>5. {g \in WatcherGroups(cs, asked) : ~g.proximo} = {g \in RowGroups(cs, asked) : ~g.proximo}
    BY <1>1, <1>3
  <2>6. {o \in WatcherGroups(cs, asked) : o.proximo /\ survivors(o, WatcherGroups(cs, asked)) # {}}
          = {o \in RowGroups(cs, asked) : o.proximo /\ survivors(o, RowGroups(cs, asked)) # {}} \cup {d}
    BY <1>1, <1>3, <1>6, <1>7
  <2> QED
    BY <2>1, <2>2, <2>3, <2>4, <2>5, <2>6
<1> QED
  BY <1>9, KeptOfServed DEF d

\* Route k is what resolving the groups kept of group g.
KeptAs(k, g, groups) ==
  /\ k.name = g.name /\ k.path = g.path /\ k.gen = g.gen /\ k.ns = g.ns
  /\ k.proximo = g.proximo /\ k.internal = FALSE
  /\ k.hosts = IF g.proximo THEN survivors(g, groups) ELSE g.hosts

\* What a kept route of the rows' resolution is.
LEMMA AskedKept ==
  ASSUME NEW cs, NEW asked, Listable(cs), NEW k \in KeptOf(RowGroups(cs, asked))
  PROVE  \E g \in RowGroups(cs, asked) : KeptAs(k, g, RowGroups(cs, asked))
<1>1. PICK g \in RowGroups(cs, asked) :
         /\ k.name = g.name /\ k.path = g.path /\ k.gen = g.gen /\ k.ns = g.ns
         /\ k.proximo = g.proximo /\ k.internal = g.internal
         /\ g.proximo => k.hosts = survivors(g, RowGroups(cs, asked))
         /\ ~g.proximo => k = g
  BY AskedNamed, KeptFields
<1>2. PICK f \in Published(cs, asked) : WellFormed(f) /\ g.internal = f.internal
  BY AskedNamed
<1>3. k.internal = FALSE
  BY <1>1, <1>2 DEF WellFormed
<1>4. k.hosts = IF g.proximo THEN survivors(g, RowGroups(cs, asked)) ELSE g.hosts
  <2>1. CASE g.proximo
    BY <1>1, <2>1
  <2>2. CASE ~g.proximo
    BY <1>1, <2>2
  <2> QED BY <2>1, <2>2
<1> QED
  BY <1>1, <1>3, <1>4 DEF KeptAs

\* Every name a kept route answers on is in a row: declared hosts have their own, and
\* a generated one is in that of the host it was generated from, served or lost.
LEMMA KeptHostInRow ==
  ASSUME NEW cs, NEW asked, Listable(cs), NEW t \in cs, t.role = traefikRole,
         NEW k \in KeptOf(RowGroups(cs, asked)), NEW h \in k.hosts
  PROVE  \E row \in routesOf(cs, asked) : row.container = k.name /\ row.path = k.path /\ h \in AnswersOn(row)
<1>1. \A x : x \in servedRows(resolveRoutes(Published(cs, asked))) => x \in routesOf(cs, asked)
  BY RowsUp
<1>0. PICK g \in RowGroups(cs, asked) : KeptAs(k, g, RowGroups(cs, asked))
  BY AskedKept
<1>2. /\ k.name = g.name /\ k.path = g.path /\ k.gen = g.gen /\ k.ns = g.ns
      /\ k.proximo = g.proximo
      /\ k.hosts = IF g.proximo THEN survivors(g, RowGroups(cs, asked)) ELSE g.hosts
  BY <1>0 DEF KeptAs
<1>3. ASSUME NEW b \in k.hosts \ k.gen, h = b \/ h \in servedQualified(k, b)
      PROVE  \E row \in routesOf(cs, asked) : row.container = k.name /\ row.path = k.path /\ h \in AnswersOn(row)
  <2>1. ServedRow(k, b) \in routesOf(cs, asked)
    BY <1>1, ServedRowsAre DEF RowGroups
  <2>2. ServedRow(k, b).container = k.name /\ ServedRow(k, b).path = k.path
    BY DEF ServedRow, Row
  <2>3. h \in AnswersOn(ServedRow(k, b))
    BY <1>3 DEF ServedRow, Row, AnswersOn
  <2> QED
    BY <2>1, <2>2, <2>3
<1>4. CASE h \notin k.gen
  BY <1>3, <1>4
<1>5. CASE h \in k.gen
  <2>1. PICK f \in Published(cs, asked) : /\ WellFormed(f) /\ g.ns = f.ns /\ g.hosts = f.hosts
                                          /\ g.gen = f.gen /\ g.proximo = f.proximo
    BY <1>2, AskedNamed
  <2>2. f.proximo
    BY <1>2, <1>5, <2>1 DEF WellFormed
  <2>3. PICK declared \in SUBSET HostNames : f.gen = Generated(declared, f.ns) /\ f.hosts = declared \cup f.gen
    BY <2>1, <2>2 DEF WellFormed
  <2>4. PICK b \in declared : h \in qualifiedHost(b, f.ns)
    BY <1>2, <1>5, <2>1, <2>3 DEF Generated
  <2>5. b \notin f.gen /\ b \in g.hosts
    BY <2>1, <2>3 DEF Generated
  <2>6. h \in servedQualified(k, b)
    BY <1>2, <1>5, <2>1, <2>4 DEF servedQualified
  <2>7. CASE b \in k.hosts
    BY <1>2, <1>3, <2>1, <2>5, <2>6, <2>7
  <2>8. CASE b \notin k.hosts
    <3>1. g.proximo /\ b \in g.hosts \ survivors(g, RowGroups(cs, asked))
      BY <1>2, <2>1, <2>2, <2>5, <2>8
    <3>2. CollisionRow(g, b, RowGroups(cs, asked)) \in routesOf(cs, asked)
      BY <1>1, <3>1, ServedRowsAre DEF RowGroups
    <3>3. CollisionRow(g, b, RowGroups(cs, asked)).container = k.name /\ CollisionRow(g, b, RowGroups(cs, asked)).path = k.path
      BY <1>2 DEF CollisionRow, Row
    <3>4. h \in Left(g.name, g.path, b, KeptOf(RowGroups(cs, asked)))
      BY <1>2, <2>6 DEF Left
    <3>5. h \in AnswersOn(CollisionRow(g, b, RowGroups(cs, asked)))
      BY <3>4 DEF CollisionRow, Row, AnswersOn
    <3> QED
      BY <3>2, <3>3, <3>5
  <2> QED BY <2>7, <2>8
<1> QED
  BY <1>4, <1>5

\* Row by row and route by route, both sides name the same.
LEMMA RowsMatch ==
  ASSUME NEW cs, NEW asked, Listable(cs), Uncontested(Published(cs, asked)),
         NEW t \in cs, t.role = traefikRole
  PROVE  AnsweredIn(cs, asked) = RoutedIn(cs, asked, t)
<1> DEFINE named(r) == IF r.internal THEN t.name ELSE r.name
           proximos == {x \in Groups(Published(cs, asked)) : x.proximo}
           said(x)  == {<<x.container, h, x.path>> : h \in AnswersOn(x)}
           names(r) == {<<named(r), h, r.path>> : h \in r.hosts}
           rules(g) == {<<g.name, h, "">> : h \in g.natives}
<1>1. AnsweredIn(cs, asked) = UNION {said(x) : x \in routesOf(cs, asked)}
  BY DEF AnsweredIn
<1>2. RoutedIn(cs, asked, t) = (UNION {names(r) : r \in RoutedSet(cs, asked)}) \cup UNION {rules(g) : g \in proximos}
  BY DEF RoutedIn
<1>3. RoutedSet(cs, asked) = KeptOf(RowGroups(cs, asked)) \cup {dashboardRoute}
  BY KeptUncontested
<1>4. /\ named(dashboardRoute) = t.name /\ dashboardRoute.path = ""
      /\ dashboardRoute.hosts = {DashboardHost}
  BY DEF dashboardRoute
<1>5. \A k \in KeptOf(RowGroups(cs, asked)) : named(k) = k.name
  BY AskedKept DEF KeptAs
<1> HIDE DEF named
<1>6. \A x \in routesOf(cs, asked) : \A h \in AnswersOn(x) : <<x.container, h, x.path>> \in AnsweredIn(cs, asked)
  <2>1. \A x \in routesOf(cs, asked) : \A h \in AnswersOn(x) : <<x.container, h, x.path>> \in said(x)
    OBVIOUS
  <2> HIDE DEF said
  <2> QED BY <1>1, <2>1
<1>7. \A r \in RoutedSet(cs, asked) : \A h \in r.hosts : <<named(r), h, r.path>> \in RoutedIn(cs, asked, t)
  <2>1. \A r \in RoutedSet(cs, asked) : \A h \in r.hosts : <<named(r), h, r.path>> \in names(r)
    OBVIOUS
  <2> HIDE DEF names, rules
  <2> QED BY <1>2, <2>1
<1>8. \A g \in proximos : \A h \in g.natives : <<g.name, h, "">> \in RoutedIn(cs, asked, t)
  <2>1. \A g \in proximos : \A h \in g.natives : <<g.name, h, "">> \in rules(g)
    OBVIOUS
  <2> HIDE DEF names, rules
  <2> QED BY <1>2, <2>1
<1>9. ASSUME NEW y \in AnsweredIn(cs, asked)
      PROVE  \E x \in routesOf(cs, asked) : \E h \in AnswersOn(x) : y = <<x.container, h, x.path>>
  <2>1. PICK x \in routesOf(cs, asked) : y \in said(x)
    BY <1>1
  <2> QED BY <2>1
<1>10. ASSUME NEW y \in RoutedIn(cs, asked, t)
      PROVE  \/ \E r \in RoutedSet(cs, asked) : \E h \in r.hosts : y = <<named(r), h, r.path>>
             \/ \E g \in proximos : \E h \in g.natives : y = <<g.name, h, "">>
  <2>1. CASE \E r \in RoutedSet(cs, asked) : y \in names(r)
    BY <2>1
  <2>2. CASE \E g \in proximos : y \in rules(g)
    BY <2>2
  <2>3. (\E r \in RoutedSet(cs, asked) : y \in names(r)) \/ (\E g \in proximos : y \in rules(g))
    <3> HIDE DEF names, rules
    <3> QED BY <1>2
  <2> QED BY <2>1, <2>2, <2>3
<1> HIDE DEF said, names, rules
<1>11. ASSUME NEW k \in KeptOf(RowGroups(cs, asked)), NEW h \in k.hosts PROVE <<k.name, h, k.path>> \in RoutedIn(cs, asked, t)
  BY <1>3, <1>5, <1>7
<1>12. ASSUME NEW x \in routesOf(cs, asked), NEW h \in AnswersOn(x) PROVE <<x.container, h, x.path>> \in RoutedIn(cs, asked, t)
  <2>1. CASE x \in dashboardRows(cs)
    <3>1. PICK c \in cs : c.role = traefikRole /\ x = Row("served", c.name, DashboardHost, "", {}, 0)
      BY <2>1 DEF dashboardRows
    <3>2. x.container = t.name /\ x.path = "" /\ h = DashboardHost
      BY <3>1 DEF Listable, Row, AnswersOn
    <3>3. <<named(dashboardRoute), DashboardHost, dashboardRoute.path>> \in RoutedIn(cs, asked, t)
      BY <1>3, <1>4, <1>7
    <3> QED
      BY <1>4, <3>2, <3>3
  <2>2. CASE x \in flaggedRows(cs, asked) \cup observedRows(cs)
    <3>1. \E n, host, path : \/ x = Row("flagged", n, host, path, {}, 0)
                             \/ x = Row("observed", n, host, path, {}, 0)
      BY <2>2 DEF flaggedRows, observedRows
    <3>2. AnswersOn(x) = {}
      BY <3>1 DEF Row, AnswersOn
    <3> QED
      BY <3>2
  <2>3. CASE x \in servedRows(resolveRoutes(Published(cs, asked)))
    <3>1. ASSUME NEW k \in KeptOf(RowGroups(cs, asked)), NEW b \in k.hosts \ k.gen, x = ServedRow(k, b)
          PROVE  <<x.container, h, x.path>> \in RoutedIn(cs, asked, t)
      <4>1. x.container = k.name /\ x.path = k.path /\ h \in {b} \cup servedQualified(k, b)
        BY <3>1 DEF ServedRow, Row, AnswersOn
      <4>2. h \in k.hosts
        BY <4>1 DEF servedQualified
      <4> QED
        BY <1>11, <4>1, <4>2
    <3>2. ASSUME NEW g \in RowGroups(cs, asked), g.proximo, NEW b \in g.natives, x = NativeRow(g, b)
          PROVE  <<x.container, h, x.path>> \in RoutedIn(cs, asked, t)
      <4>1. x.container = g.name /\ x.path = "" /\ h = b
        BY <3>2 DEF NativeRow, Row, AnswersOn
      <4>2. <<g.name, b, "">> \in RoutedIn(cs, asked, t)
        BY <1>8, <3>2 DEF RowGroups
      <4> QED
        BY <4>1, <4>2
    <3>3. ASSUME NEW g \in RowGroups(cs, asked), NEW b, x = CollisionRow(g, b, RowGroups(cs, asked))
          PROVE  <<x.container, h, x.path>> \in RoutedIn(cs, asked, t)
      <4>1. x.container = g.name /\ x.path = g.path /\ h \in Left(g.name, g.path, b, KeptOf(RowGroups(cs, asked)))
        BY <3>3 DEF CollisionRow, Row, AnswersOn
      <4>2. PICK k \in KeptOf(RowGroups(cs, asked)) : k.name = g.name /\ k.path = g.path /\ h \in servedQualified(k, b)
        BY <4>1 DEF Left
      <4>3. h \in k.hosts
        BY <4>2 DEF servedQualified
      <4> QED
        BY <1>11, <4>1, <4>2, <4>3
    <3> QED
      BY <2>3, <3>1, <3>2, <3>3, ServedRowsAre DEF RowGroups
  <2> QED
    BY <2>1, <2>2, <2>3, RowsUp
<1>13. ASSUME NEW k \in KeptOf(RowGroups(cs, asked)), NEW h \in k.hosts PROVE <<k.name, h, k.path>> \in AnsweredIn(cs, asked)
  BY <1>6, KeptHostInRow
<1>14. <<t.name, DashboardHost, "">> \in AnsweredIn(cs, asked)
  <2> DEFINE x == Row("served", t.name, DashboardHost, "", {}, 0)
  <2>1. x \in routesOf(cs, asked)
    BY RowsUp DEF dashboardRows
  <2>2. x.container = t.name /\ x.path = "" /\ DashboardHost \in AnswersOn(x)
    BY DEF Row, AnswersOn
  <2> HIDE DEF x
  <2> QED
    BY <1>6, <2>1, <2>2
<1>15. ASSUME NEW g \in proximos, NEW h \in g.natives PROVE <<g.name, h, "">> \in AnsweredIn(cs, asked)
  <2>1. NativeRow(g, h) \in routesOf(cs, asked)
    BY RowsUp, ServedRowsAre
  <2>2. NativeRow(g, h).container = g.name /\ NativeRow(g, h).path = "" /\ h \in AnswersOn(NativeRow(g, h))
    BY DEF NativeRow, Row, AnswersOn
  <2> QED
    BY <1>6, <2>1, <2>2
<1>16. AnsweredIn(cs, asked) \subseteq RoutedIn(cs, asked, t)
  BY <1>9, <1>12
<1>17. RoutedIn(cs, asked, t) \subseteq AnsweredIn(cs, asked)
  <2>1. ASSUME NEW r \in RoutedSet(cs, asked), NEW h \in r.hosts PROVE <<named(r), h, r.path>> \in AnsweredIn(cs, asked)
    <3>1. CASE r = dashboardRoute
      BY <1>4, <1>14, <3>1
    <3>2. CASE r \in KeptOf(RowGroups(cs, asked))
      BY <1>5, <1>13, <3>2
    <3> QED
      BY <1>3, <3>1, <3>2
  <2> QED
    BY <1>10, <1>15, <2>1
<1> QED
  BY <1>16, <1>17
=============================================================================
