--------------------------- MODULE WatcherProofs ---------------------------
(***************************************************************************)
(* What holds of the watcher for every catalogue, every number of changes   *)
(* and faults: its passes never take a stack container off the stack's own  *)
(* network, no router is in place before Traefik reaches its backends, and  *)
(* the router files and the inventory tell one story.  RoutingProofs gives   *)
(* what is decided for a listing; the rest is about what becomes of those   *)
(* decisions while Docker changes, calls fail and the watcher dies.         *)
(***************************************************************************)
EXTENDS Watcher, RoutingProofs

\* The strengthening: incarnations and attachments are kept per role.
Attached ==
  /\ id = [r \in Roles |-> id[r]]
  /\ attached = [r \in Roles |-> attached[r]]
  /\ StackNetworkKept

\* The stack containers start on the stack's network.
LEMMA InitAttached == Init => Attached
BY DEF Init, Attached, StackNetworkKept

\* What users and Docker do attaches at most a new incarnation, to the stack's network.
LEMMA DockerAttached == ASSUME Attached, DockerNext PROVE Attached'
<1> USE DEF Attached, StackNetworkKept
<1>1. ASSUME UNCHANGED <<id, attached>> PROVE Attached'
  BY <1>1
<1>2. CASE \E c \in Catalogue : Start(c)
  BY <1>1, <1>2 DEF Start
<1>3. CASE \E c \in running : Stop(c)
  BY <1>1, <1>3 DEF Stop
<1>4. CASE \E c \in running, s \in HealthStates \ {"none"} : HealthChange(c, s)
  BY <1>1, <1>4 DEF HealthChange
<1>5. ASSUME NEW r \in Roles, StackDown(r) PROVE Attached'
  BY <1>5 DEF StackDown
<1>6. ASSUME NEW r \in Roles, StackUp(r) PROVE Attached'
  BY <1>6 DEF StackUp
<1>7. CASE BreakStream
  BY <1>1, <1>7 DEF BreakStream, docker
<1>8. QED
  BY <1>2, <1>3, <1>4, <1>5, <1>6, <1>7 DEF DockerNext

\* The one step that attaches and detaches: nothing it disconnects is the stack's.
LEMMA SyncAttached == ASSUME Attached, SyncNetworks PROVE Attached'
<1> USE DEF Attached, StackNetworkKept
<1>1. \A r \in Roles : StackNet \notin Disconnects(r)
  BY DEF Disconnects
<1>2. PICK failed :
        LET lost == {r \in Roles : cancelled \/ pass.id[r] # id[r]}
            on   == [r \in Roles |-> IF r \in lost THEN {} ELSE Connects(r) \ failed]
            off  == [r \in Roles |-> IF r \in lost THEN {} ELSE Disconnects(r) \ failed]
        IN  attached' = [r \in Roles |-> (attached[r] \cup on[r]) \ off[r]]
  BY DEF SyncNetworks
<1> DEFINE lost == {r \in Roles : cancelled \/ pass.id[r] # id[r]}
           on   == [r \in Roles |-> IF r \in lost THEN {} ELSE Connects(r) \ failed]
           off  == [r \in Roles |-> IF r \in lost THEN {} ELSE Disconnects(r) \ failed]
<1>3. attached' = [r \in Roles |-> (attached[r] \cup on[r]) \ off[r]]
  BY <1>2
<1>4. \A r \in Roles : StackNet \notin off[r]
  BY <1>1
<1> HIDE DEF on, off
<1>5. id' = id
  BY DEF SyncNetworks
<1>6. QED
  BY <1>3, <1>4, <1>5

\* Every other step of the process leaves Docker alone.
LEMMA RestUnchanged ==
  ASSUME \/ FirstPass \/ Ticker \/ Event \/ Subscribe \/ StreamError \/ Done
         \/ List \/ ListFails \/ RemoveStaleRouters \/ WriteInventory
         \/ (\E w \in pass.todo : WriteRouter(w))
         \/ Cancel \/ Crash \/ Restart \/ UNCHANGED vars
  PROVE  UNCHANGED <<id, attached>>
BY DEF FirstPass, Ticker, Event, BeginPass, Subscribe, StreamError, Done, List, ListFails,
       RemoveStaleRouters, WriteInventory, WriteRouter, Cancel, Crash, Restart, vars, docker

\* So no step loses that network.
LEMMA NextAttached == Attached /\ [Next]_vars => Attached'
<1> SUFFICES ASSUME Attached, [Next]_vars PROVE Attached'
  OBVIOUS
<1>1. CASE DockerNext
  BY <1>1, DockerAttached
<1>2. CASE SyncNetworks
  BY <1>2, SyncAttached
<1>3. CASE UNCHANGED <<id, attached>>
  BY <1>3 DEF Attached, StackNetworkKept
<1>4. QED
  BY <1>1, <1>2, <1>3, RestUnchanged DEF Next, Run, Reconcile

\* Traefik and the inspector stay on the stack's network for as long as they
\* run, for any containers, however listings go stale, calls fail, the watcher
\* dies or the stack containers are recreated in the middle of a pass.
THEOREM StackNetworkNeverLost == Spec => []StackNetworkKept
<1>1. Attached => StackNetworkKept
  BY DEF Attached
<1>2. QED
  BY InitAttached, NextAttached, <1>1, PTL DEF Spec

-----------------------------------------------------------------------------
(***************************************************************************)
(* The decisions of a pass.                                                 *)
(***************************************************************************)
ServedIn(ws) == UNION {w.route.hosts : w \in {x \in ws : x.file # DashboardFile}}
ListedIn(rows) == UNION {AnswersOn(r) : r \in {x \in rows : x.container # Traefik.name}}

OneStory(ws, rows) ==
  ServedIn(ws) \subseteq ListedIn(rows) /\ ListedIn(rows) \ ServedIn(ws) \subseteq NativeRules

OneEach(ws) == \A v, w \in ws : v.file = w.file => v = w

\* A container in any state of its healthcheck is the same container otherwise.
LEMMA AnyHealthFields ==
  ASSUME NEW c \in Catalogue, NEW d \in AnyHealth(c)
  PROVE  /\ d.name = c.name /\ d.hosts = c.hosts /\ d.role = c.role /\ d.nets = c.nets
         /\ d.rules = c.rules /\ d.native = c.native
<1>1. {"name", "health", "hosts", "role", "nets", "rules", "native"} \subseteq DOMAIN c
  BY WatcherAssumption
<1>2. CASE c.health = "none"
  BY <1>2 DEF AnyHealth
<1>3. CASE c.health # "none"
  <2>1. PICK s \in HealthStates \ {"none"} : d = [c EXCEPT !.health = s]
    BY <1>3 DEF AnyHealth
  <2> QED BY <1>1, <2>1
<1> QED BY <1>2, <1>3

\* What can be said of any container Docker shows, and two of one name have the same
\* networks.
LEMMA ContainerFields ==
  ASSUME NEW c \in AnyContainer
  PROVE  /\ c.role = "" /\ c.name \in Int \ {0, DashboardName} /\ c.name \in Names
         /\ c.hosts \subseteq HostNames /\ c.nets \subseteq Networks
         /\ c.native => c.rules \subseteq NativeRules
         /\ DashboardUncontested => DashboardHost \notin c.hosts \cup c.rules
         /\ \A d \in AnyContainer : d.name = c.name => d.nets = c.nets
<1>1. PICK b \in Catalogue : c \in AnyHealth(b)
  BY DEF AnyContainer
<1>2. /\ c.name = b.name /\ c.hosts = b.hosts /\ c.role = b.role /\ c.nets = b.nets
      /\ c.rules = b.rules /\ c.native = b.native
  BY <1>1, AnyHealthFields
<1>3. b.role = "" /\ b.name \in Int \ {0, DashboardName} /\ b.hosts \subseteq HostNames
  BY WatcherAssumption
<1>4. c.name \in Names /\ c.nets \subseteq Networks
  BY <1>2 DEF Names, Networks
<1>5. c.native => c.rules \subseteq NativeRules
  BY <1>2 DEF NativeRules
<1>6. DashboardUncontested => DashboardHost \notin c.hosts \cup c.rules
  BY <1>2 DEF DashboardUncontested
<1>7. ASSUME NEW d \in AnyContainer, d.name = c.name PROVE d.nets = c.nets
  <2>1. PICK e \in Catalogue : d \in AnyHealth(e)
    BY DEF AnyContainer
  <2>2. d.name = e.name /\ d.nets = e.nets
    BY <2>1, AnyHealthFields
  <2>3. e = b
    BY <1>2, <1>7, <2>2, WatcherAssumption
  <2> QED
    BY <1>2, <2>2, <2>3
<1> QED
  BY <1>2, <1>3, <1>4, <1>5, <1>6, <1>7

\* A healthcheck has finitely many states, and so have the containers.
LEMMA ContainersFinite == IsFiniteSet(AnyContainer)
<1> DEFINE f == [c \in Catalogue |-> AnyHealth(c)]
<1>1. ASSUME NEW c \in Catalogue PROVE IsFiniteSet(AnyHealth(c))
  <2> DEFINE g == [s \in HealthStates \ {"none"} |-> [c EXCEPT !.health = s]]
  <2>1. IsFiniteSet(HealthStates \ {"none"})
    <3>1. HealthStates \ {"none"} = {"starting", "healthy", "unhealthy"}
      BY DEF HealthStates
    <3>2. IsFiniteSet({"starting", "healthy", "unhealthy"})
      <4>1. IsFiniteSet({"starting"})
        BY FS_Singleton
      <4>2. IsFiniteSet({"starting"} \cup {"healthy"})
        BY <4>1, FS_AddElement
      <4>3. IsFiniteSet(({"starting"} \cup {"healthy"}) \cup {"unhealthy"})
        BY <4>2, FS_AddElement
      <4>4. ({"starting"} \cup {"healthy"}) \cup {"unhealthy"} = {"starting", "healthy", "unhealthy"}
        OBVIOUS
      <4> QED BY <4>3, <4>4
    <3> QED BY <3>1, <3>2
  <2>2. IsFiniteSet({g[s] : s \in HealthStates \ {"none"}})
    <3> HIDE DEF g
    <3>1. DOMAIN g = HealthStates \ {"none"}
      BY DEF g
    <3> QED BY <2>1, <3>1, FiniteImage
  <2>3. IsFiniteSet({c})
    BY FS_Singleton
  <2>4. AnyHealth(c) = {c} \/ AnyHealth(c) = {g[s] : s \in HealthStates \ {"none"}}
    BY DEF AnyHealth
  <2> HIDE DEF g
  <2> QED BY <2>2, <2>3, <2>4
<1>2. IsFiniteSet({f[c] : c \in Catalogue})
  <2>1. DOMAIN f = Catalogue
    OBVIOUS
  <2>2. IsFiniteSet(Catalogue)
    BY WatcherAssumption
  <2> HIDE DEF f
  <2> QED BY <2>1, <2>2, FiniteImage
<1>3. \A T \in {f[c] : c \in Catalogue} : IsFiniteSet(T)
  BY <1>1
<1>4. AnyContainer = UNION {f[c] : c \in Catalogue}
  BY DEF AnyContainer
<1> HIDE DEF f
<1> QED
  BY <1>2, <1>3, <1>4, FS_UNION

\* RoutingProofs speaks of every listing of the instance.
LEMMA AllListable == \A cs \in Listings : Listable(cs)
<1> SUFFICES ASSUME NEW cs \in Listings PROVE Listable(cs)
  OBVIOUS
<1>1. cs \subseteq AnyContainer \cup {Traefik} /\ \A c, d \in cs : c.name = d.name => c = d
  BY DEF Listings
<1>2. IsFiniteSet(cs)
  BY <1>1, ContainersFinite, FS_AddElement, FS_Subset
<1>3. \A c \in cs : c = Traefik \/ c \in AnyContainer
  BY <1>1
<1>4. traefikRole # "" /\ Traefik.role = traefikRole
  BY WatcherAssumption DEF traefikRole
<1> QED
  BY <1>1, <1>2, <1>3, <1>4, ContainerFields DEF Listable

\* What a published route is made from: a container users run, routed and healthy.
LEMMA PublishedFrom ==
  ASSUME NEW cs \in Listings, NEW asked, NEW f \in Published(cs, asked)
  PROVE  \E c \in cs :
            /\ c \in AnyContainer /\ isRouted(c) /\ isHealthRoutable(c)
            /\ f.name = c.name /\ f.name \in Names /\ f.natives \subseteq NativeRules
            /\ DashboardUncontested => DashboardHost \notin f.hosts \cup f.natives
<1>1. PICK c \in cs : isRouted(c) /\ isHealthRoutable(c) /\ f = classify(c, asked[c.name]).route
  BY DEF Published
<1>2. c \in AnyContainer
  <2>1. c.role # traefikRole
    BY <1>1 DEF isRouted, traefikRole
  <2> QED BY <2>1, WatcherAssumption DEF Listings
<1>3. /\ c.name \in Int /\ c.name \in Names /\ c.hosts \subseteq HostNames
      /\ c.native => c.rules \subseteq NativeRules
      /\ DashboardUncontested => DashboardHost \notin c.hosts \cup c.rules
  BY <1>2, ContainerFields
<1>4. /\ f.name = c.name /\ f.natives = IF c.native THEN c.rules ELSE {}
      /\ f.hosts \subseteq c.hosts \cup Generated(c.hosts, namespaceOf(c)) \cup f.natives
  BY <1>1, <1>3, ClassifyRoute
<1>5. f.natives \subseteq NativeRules
  <2>1. CASE c.native
    BY <1>3, <1>4, <2>1
  <2>2. CASE ~c.native
    BY <1>4, <2>2
  <2> QED BY <2>1, <2>2
<1>6. ASSUME DashboardUncontested PROVE DashboardHost \notin f.hosts \cup f.natives
  <2>1. DashboardHost \notin Generated(c.hosts, namespaceOf(c))
    BY <1>3, GeneratedLabels, DashboardAssumption
  <2>2. DashboardHost \notin c.hosts /\ DashboardHost \notin c.rules
    BY <1>3, <1>6
  <2>3. DashboardHost \notin f.natives
    <3>1. CASE c.native
      BY <1>4, <2>2, <3>1
    <3>2. CASE ~c.native
      BY <1>4, <3>2
    <3> QED BY <3>1, <3>2
  <2> QED
    BY <1>4, <2>1, <2>2, <2>3
<1> QED
  BY <1>1, <1>2, <1>3, <1>4, <1>5, <1>6

\* No two routers of a pass share a file.
LEMMA RoutersApart ==
  ASSUME NEW cs \in Listings, NEW asked
  PROVE  OneEach(RoutersOf(cs, asked))
<1> DEFINE kept == RoutedSet(cs, asked)
<1> SUFFICES ASSUME NEW v \in RoutersOf(cs, asked), NEW w \in RoutersOf(cs, asked), v.file = w.file
             PROVE  v = w
  BY DEF OneEach
<1>1. PICK r \in kept : v = [file |-> assignSafeNames(r, kept), route |-> r]
  BY DEF RoutersOf
<1>2. PICK s \in kept : w = [file |-> assignSafeNames(s, kept), route |-> s]
  BY DEF RoutersOf
<1>3. assignSafeNames(r, kept) = assignSafeNames(s, kept)
  BY <1>1, <1>2
<1>4. r = s
  BY <1>3, AllListable, FilesApart
<1> QED
  BY <1>1, <1>2, <1>4

\* A backend of a router is a container of the listing, whose networks are desired.
LEMMA BackendsDesired ==
  ASSUME NEW cs \in Listings, NEW asked, NEW w \in RoutersOf(cs, asked),
         NEW c \in AnyContainer, c.name \in w.route.servers
  PROVE  c.nets \subseteq DesiredNetworks(cs)
<1>1. PICK r \in RoutedSet(cs, asked) : w = [file |-> assignSafeNames(r, RoutedSet(cs, asked)), route |-> r]
  BY DEF RoutersOf
<1>2. c.name \in r.servers
  BY <1>1
<1>3. Listable(cs)
  BY AllListable
<1>4. PICK g \in WatcherGroups(cs, asked) : r.servers = g.servers
  BY <1>3, KeptOfServed, ServedNamed, KeptFields
<1>5. g # dashboardRoute
  BY <1>2, <1>4, ContainerFields, DashboardFields
<1>6. PICK f \in Published(cs, asked) : g.servers = {q.name : q \in ReplicasOf(f, Published(cs, asked))}
  BY <1>3, <1>5, ServedFromPublished
<1>7. PICK q \in Published(cs, asked) : c.name = q.name
  BY <1>2, <1>4, <1>6 DEF ReplicasOf
<1>8. PICK d \in cs : d \in AnyContainer /\ isRouted(d) /\ isHealthRoutable(d) /\ q.name = d.name
  BY PublishedFrom
<1>9. d.nets = c.nets
  BY <1>7, <1>8, ContainerFields
<1> QED
  BY <1>8, <1>9 DEF DesiredNetworks

\* The rows of a pass and its routers tell of the same names, the native ones apart.
LEMMA PassTellsOneStory ==
  ASSUME DashboardUncontested, NEW cs \in Listings, Traefik \in cs, NEW asked
  PROVE  OneStory(RoutersOf(cs, asked), routesOf(cs, asked))
<1> DEFINE kept == RoutedSet(cs, asked)
           file(r) == assignSafeNames(r, kept)
<1>1. Listable(cs) /\ Traefik.role = traefikRole
  BY AllListable, WatcherAssumption
<1>2. Uncontested(Published(cs, asked))
  BY PublishedFrom DEF Uncontested
<1>3. kept = KeptOf(RowGroups(cs, asked)) \cup {dashboardRoute}
  BY <1>1, <1>2, KeptUncontested
<1>4. file(dashboardRoute) = DashboardFile
  BY DashboardFields DEF assignSafeNames, DashboardFile
<1>5. ASSUME NEW r \in kept, r # dashboardRoute PROVE file(r) # DashboardFile
  BY <1>1, <1>3, <1>4, <1>5, FilesApart
<1>6. ASSUME NEW k \in KeptOf(RowGroups(cs, asked))
      PROVE  /\ k.name # Traefik.name /\ k.internal = FALSE /\ k # dashboardRoute
             /\ ~k.proximo => k.hosts \subseteq NativeRules
  <2>1. PICK g \in RowGroups(cs, asked) : KeptAs(k, g, RowGroups(cs, asked))
    BY <1>1, AskedKept
  <2>2. PICK f \in Published(cs, asked) :
           WellFormed(f) /\ g.name = f.name /\ g.hosts = f.hosts /\ g.proximo = f.proximo
    BY <1>1, AskedNamed
  <2>3. f.name \in Names /\ f.natives \subseteq NativeRules
    BY PublishedFrom
  <2>4. Traefik.name \notin Names
    BY WatcherAssumption
  <2>5. k.name = f.name /\ k.internal = FALSE /\ k.proximo = f.proximo
    BY <2>1, <2>2 DEF KeptAs
  <2>6. ASSUME ~k.proximo PROVE k.hosts \subseteq NativeRules
    BY <2>1, <2>2, <2>3, <2>5, <2>6 DEF KeptAs, WellFormed
  <2> QED
    BY <2>3, <2>4, <2>5, <2>6, DashboardFields
<1>7. \A w \in RoutersOf(cs, asked) :
        \E r \in kept : w.file = file(r) /\ w.route = r
  BY DEF RoutersOf
<1>8. \A r \in kept : r.proximo => \E w \in RoutersOf(cs, asked) : w.file = file(r) /\ w.route = r
  <2> SUFFICES ASSUME NEW r \in kept, r.proximo
               PROVE \E w \in RoutersOf(cs, asked) : w.file = file(r) /\ w.route = r
    OBVIOUS
  <2>1. [file |-> file(r), route |-> r] \in RoutersOf(cs, asked)
    BY DEF RoutersOf
  <2> QED BY <2>1
<1> HIDE DEF file, kept
<1>9. ServedIn(RoutersOf(cs, asked)) \subseteq ListedIn(routesOf(cs, asked))
  <2> SUFFICES ASSUME NEW w \in RoutersOf(cs, asked), w.file # DashboardFile, NEW h \in w.route.hosts
               PROVE  h \in ListedIn(routesOf(cs, asked))
    BY DEF ServedIn
  <2>1. w.route \in KeptOf(RowGroups(cs, asked))
    BY <1>3, <1>4, <1>7
  <2>2. PICK row \in routesOf(cs, asked) : row.container = w.route.name /\ h \in AnswersOn(row)
    BY <1>1, <2>1, KeptHostInRow
  <2>3. row.container # Traefik.name
    BY <1>6, <2>1, <2>2
  <2> QED
    BY <2>2, <2>3 DEF ListedIn
<1>10. ASSUME NEW h \in ListedIn(routesOf(cs, asked)), h \notin NativeRules
       PROVE  h \in ServedIn(RoutersOf(cs, asked))
  <2>1. PICK x \in routesOf(cs, asked) : x.container # Traefik.name /\ h \in AnswersOn(x)
    BY <1>10 DEF ListedIn
  <2>2. <<x.container, h, x.path>> \in RoutedIn(cs, asked, Traefik)
    <3>1. <<x.container, h, x.path>> \in AnsweredIn(cs, asked)
      BY <2>1 DEF AnsweredIn
    <3> QED BY <3>1, <1>1, <1>2, RowsMatch
  <2>3. ASSUME NEW r \in kept, h \in r.hosts, x.container = IF r.internal THEN Traefik.name ELSE r.name
        PROVE  h \in ServedIn(RoutersOf(cs, asked))
    <3>1. ~r.internal
      BY <2>1, <2>3
    <3>2. r # dashboardRoute
      BY <3>1, DashboardFields
    <3>3. r.proximo
      BY <1>3, <1>6, <1>10, <2>3, <3>2
    <3>4. PICK w \in RoutersOf(cs, asked) : w.file = file(r) /\ w.route = r
      BY <1>8, <3>3
    <3> QED
      BY <1>5, <2>3, <3>2, <3>4 DEF ServedIn
  <2>4. ASSUME NEW g \in Groups(Published(cs, asked)), h \in g.natives PROVE FALSE
    <3>1. PICK f \in Published(cs, asked) : g.natives = f.natives
      BY <1>1, AskedNamed DEF RowGroups
    <3> QED
      BY <1>10, <2>4, <3>1, PublishedFrom
  <2>5. \/ \E r \in kept : \E b \in r.hosts :
              <<x.container, h, x.path>> = <<IF r.internal THEN Traefik.name ELSE r.name, b, r.path>>
        \/ \E g \in Groups(Published(cs, asked)) : \E b \in g.natives : <<x.container, h, x.path>> = <<g.name, b, "">>
    BY <2>2 DEF RoutedIn, kept
  <2>6. \/ \E r \in kept : h \in r.hosts /\ x.container = IF r.internal THEN Traefik.name ELSE r.name
        \/ \E g \in Groups(Published(cs, asked)) : h \in g.natives
    BY <2>5
  <2> QED
    BY <2>3, <2>4, <2>6
<1> QED
  BY <1>9, <1>10 DEF OneStory

-----------------------------------------------------------------------------
(***************************************************************************)
(* Types, and what a pass knows of the containers.                          *)
(***************************************************************************)
\* A pass keeps all it read, the containers that run are named apart, and no incarnation
\* is newer than the changes that have happened: one that comes up after the listing of
\* a pass is none the pass knows.
Knowing ==
  /\ DOMAIN pass = {"id", "nets", "desired", "files", "todo", "rows"}
  /\ \A c, d \in running : c.name = d.name => c = d
  /\ \A r \in Roles : id[r] <= changes + 1 /\ pass.id[r] <= changes + 1

\* A container is shown in the state its healthcheck starts in, or in another.
LEMMA Shown ==
  /\ \A c \in Catalogue : c \in AnyContainer
  /\ \A c \in AnyContainer, s \in HealthStates \ {"none"} :
       c.health # "none" => /\ [c EXCEPT !.health = s] \in AnyContainer
                            /\ [c EXCEPT !.health = s].name = c.name
<1>1. ASSUME NEW c \in Catalogue PROVE c \in AnyContainer
  <2>1. c = [f \in DOMAIN c |-> c[f]] /\ c.health \in HealthStates
    BY WatcherAssumption
  <2>2. CASE c.health = "none"
    BY <2>2 DEF AnyContainer, AnyHealth
  <2>3. CASE c.health # "none"
    <3>1. c = [c EXCEPT !.health = c.health]
      BY <2>1
    <3>2. c \in AnyHealth(c)
      BY <2>1, <2>3, <3>1 DEF AnyHealth
    <3> QED BY <3>2 DEF AnyContainer
  <2> QED BY <2>2, <2>3
<1>2. ASSUME NEW c \in AnyContainer, NEW s \in HealthStates \ {"none"}, c.health # "none"
      PROVE  [c EXCEPT !.health = s] \in AnyContainer /\ [c EXCEPT !.health = s].name = c.name
  <2>1. PICK b \in Catalogue : c \in AnyHealth(b)
    BY DEF AnyContainer
  <2>2. b.health # "none"
    BY <1>2, <2>1 DEF AnyHealth
  <2>3. PICK t \in HealthStates \ {"none"} : c = [b EXCEPT !.health = t]
    BY <2>1, <2>2 DEF AnyHealth
  <2>4. [c EXCEPT !.health = s] = [b EXCEPT !.health = s]
    BY <2>3
  <2>5. [b EXCEPT !.health = s] \in AnyHealth(b)
    BY <2>2 DEF AnyHealth
  <2>6. [b EXCEPT !.health = s].name = b.name /\ c.name = b.name
    BY <2>1, <2>5, AnyHealthFields
  <2> QED BY <2>4, <2>5, <2>6 DEF AnyContainer
<1> QED BY <1>1, <1>2

\* The listing is always one that the decisions are tabulated for.
LEMMA ListingKnown == TypeOK /\ Knowing => Listing \in Listings
<1> SUFFICES ASSUME TypeOK, Knowing PROVE Listing \in Listings
  OBVIOUS
<1>1. Listing \subseteq AnyContainer \cup {Traefik}
  BY DEF TypeOK, Listing
<1>2. \A c \in running : c.name # Traefik.name
  BY ContainerFields, WatcherAssumption DEF TypeOK
<1>3. ASSUME NEW c \in Listing, NEW d \in Listing, c.name = d.name PROVE c = d
  BY <1>2, <1>3 DEF Knowing, Listing
<1> QED BY <1>1, <1>3 DEF Listings

\* What a pass asks Docker for are networks of containers users run.
LEMMA DesiredTyped == ASSUME NEW cs \in Listings, NEW r \in Roles PROVE Desired(cs)[r] \subseteq Networks
<1>1. ASSUME NEW c \in cs, isRouted(c) PROVE c.nets \subseteq Networks
  <2>1. c.role # traefikRole
    BY <1>1 DEF isRouted, traefikRole
  <2>2. c \in AnyContainer
    BY <2>1, WatcherAssumption DEF Listings
  <2> QED BY <2>2, ContainerFields
<1>2. DesiredNetworks(cs) \subseteq Networks /\ InspectNetworks(cs) \subseteq Networks
  BY <1>1 DEF DesiredNetworks, InspectNetworks
<1> QED BY <1>2 DEF Desired

\* The process starts with an empty pass and no files.
LEMMA InitTyped == Init => TypeOK /\ Knowing
<1> SUFFICES ASSUME Init PROVE TypeOK /\ Knowing
  OBVIOUS
<1>1. running \subseteq AnyContainer /\ running \subseteq Catalogue
  BY Shown DEF Init
<1>2. StackNet \in Networks
  BY DEF Networks
<1>3. /\ id = [r \in Roles |-> 1] /\ attached = [r \in Roles |-> {StackNet}]
      /\ pass = NoPass /\ changes = 0 /\ faults = 0
  BY DEF Init
<1>4. PassTypeOK
  BY <1>3 DEF PassTypeOK, NoPass
<1>5. TypeOK
  <2>1. id \in [Roles -> Nat] /\ attached \in [Roles -> SUBSET Networks]
    BY <1>2, <1>3
  <2>2. stream = "none" /\ backlog = 0 /\ pc = "boot" /\ cancelled = FALSE /\ dirty = TRUE
    BY DEF Init
  <2> QED BY <1>1, <1>3, <1>4, <2>1, <2>2 DEF TypeOK
<1>6. DOMAIN pass = {"id", "nets", "desired", "files", "todo", "rows"}
  BY <1>3 DEF NoPass
<1>7. \A c, d \in running : c.name = d.name => c = d
  BY <1>1, WatcherAssumption
<1>8. \A r \in Roles : id[r] <= changes + 1 /\ pass.id[r] <= changes + 1
  BY <1>3 DEF NoPass
<1> QED BY <1>5, <1>6, <1>7, <1>8 DEF Knowing

\* The backlog counts, as long as what is added to it does.
LEMMA NotifyTyped ==
  ASSUME backlog \in Nat, NEW n \in Nat, Notify(n) PROVE backlog' \in Nat
<1>1. MaxBacklog \in Nat
  BY WatcherAssumption
<1>2. backlog + n \in Nat
  OBVIOUS
<1>3. backlog' \in {backlog, backlog + n, MaxBacklog}
  BY DEF Notify, Least
<1> QED BY <1>1, <1>2, <1>3

\* What happens outside the watcher leaves its pass and its files alone.
LEMMA DockerTyped == ASSUME TypeOK, Knowing, DockerNext PROVE TypeOK' /\ Knowing'
<1>1. ASSUME Change, UNCHANGED <<id, attached>>, running' \subseteq AnyContainer,
             \A c, d \in running' : c.name = d.name => c = d
      PROVE  TypeOK' /\ Knowing'
  <2>1. backlog' \in Nat
    BY <1>1, NotifyTyped DEF Change, TypeOK
  <2>2. /\ UNCHANGED <<stream, pc, pass, files, cancelled, dirty, faults>>
        /\ changes' = changes + 1 /\ changes' \in Nat
    BY <1>1 DEF Change, TypeOK
  <2>3. PassTypeOK'
    BY <2>2 DEF TypeOK, PassTypeOK
  <2>4. \A r \in Roles : id'[r] <= changes' + 1 /\ pass'.id[r] <= changes' + 1
    BY <1>1, <2>2 DEF TypeOK, PassTypeOK, Knowing
  <2> QED
    BY <1>1, <2>1, <2>2, <2>3, <2>4 DEF TypeOK, Knowing
<1>2. ASSUME Change, UNCHANGED running, id' \in [Roles -> Nat], attached' \in [Roles -> SUBSET Networks],
             \A r \in Roles : id'[r] <= changes + 2
      PROVE  TypeOK' /\ Knowing'
  <2>1. backlog' \in Nat
    BY <1>2, NotifyTyped DEF Change, TypeOK
  <2>2. /\ UNCHANGED <<stream, pc, pass, files, cancelled, dirty, faults>>
        /\ changes' = changes + 1 /\ changes' \in Nat
    BY <1>2 DEF Change, TypeOK
  <2>3. PassTypeOK'
    BY <2>2 DEF TypeOK, PassTypeOK
  <2>4. \A r \in Roles : id'[r] <= changes' + 1 /\ pass'.id[r] <= changes' + 1
    BY <1>2, <2>2 DEF TypeOK, PassTypeOK, Knowing
  <2> QED
    BY <1>2, <2>1, <2>2, <2>3, <2>4 DEF TypeOK, Knowing
<1>3. ASSUME NEW c \in Catalogue, Start(c) PROVE TypeOK' /\ Knowing'
  <2>1. running' \subseteq AnyContainer
    BY <1>3, Shown DEF Start, TypeOK
  <2>2. \A d, e \in running' : d.name = e.name => d = e
    BY <1>3 DEF Start, Knowing
  <2> QED BY <1>1, <1>3, <2>1, <2>2 DEF Start
<1>4. ASSUME NEW c \in running, Stop(c) PROVE TypeOK' /\ Knowing'
  <2>1. running' \subseteq AnyContainer
    BY <1>4 DEF Stop, TypeOK
  <2>2. \A d, e \in running' : d.name = e.name => d = e
    BY <1>4 DEF Stop, Knowing
  <2> QED BY <1>1, <1>4, <2>1, <2>2 DEF Stop
<1>5. ASSUME NEW c \in running, NEW s \in HealthStates \ {"none"}, HealthChange(c, s)
      PROVE  TypeOK' /\ Knowing'
  <2> DEFINE b == [c EXCEPT !.health = s]
  <2>1. b \in AnyContainer /\ b.name = c.name
    BY <1>5, Shown DEF HealthChange, TypeOK
  <2>2. running' = (running \ {c}) \cup {b}
    BY <1>5 DEF HealthChange
  <2> HIDE DEF b
  <2>3. running' \subseteq AnyContainer
    BY <2>1, <2>2 DEF TypeOK
  <2>4. \A d, e \in running' : d.name = e.name => d = e
    BY <2>1, <2>2 DEF Knowing
  <2> QED BY <1>1, <1>5, <2>3, <2>4 DEF HealthChange
<1>6. ASSUME NEW r \in Roles, StackDown(r) PROVE TypeOK' /\ Knowing'
  <2>1. id' \in [Roles -> Nat] /\ attached' \in [Roles -> SUBSET Networks]
    BY <1>6 DEF StackDown, TypeOK
  <2>2. \A q \in Roles : id'[q] <= changes + 2
    BY <1>6 DEF StackDown, TypeOK, Knowing
  <2> QED BY <1>2, <1>6, <2>1, <2>2 DEF StackDown
<1>7. ASSUME NEW r \in Roles, StackUp(r) PROVE TypeOK' /\ Knowing'
  <2>1. id' \in [Roles -> Nat] /\ attached' \in [Roles -> SUBSET Networks]
    BY <1>7 DEF StackUp, TypeOK, Networks
  <2>2. \A q \in Roles : id'[q] <= changes + 2
    BY <1>7 DEF StackUp, TypeOK, Knowing
  <2> QED BY <1>2, <1>7, <2>1, <2>2 DEF StackUp
<1>8. CASE BreakStream
  BY <1>8 DEF BreakStream, Fault, docker, TypeOK, PassTypeOK, Knowing
<1> QED
  BY <1>3, <1>4, <1>5, <1>6, <1>7, <1>8 DEF DockerNext

\* Connecting and disconnecting, the pass stays among the networks there are.
LEMMA SyncTyped == ASSUME TypeOK, Knowing, SyncNetworks PROVE TypeOK' /\ Knowing'
<1>1. PICK failed :
        LET lost == {r \in Roles : cancelled \/ pass.id[r] # id[r]}
            on   == [r \in Roles |-> IF r \in lost THEN {} ELSE Connects(r) \ failed]
            off  == [r \in Roles |-> IF r \in lost THEN {} ELSE Disconnects(r) \ failed]
        IN  /\ Fault(failed # {})
            /\ attached' = [r \in Roles |-> (attached[r] \cup on[r]) \ off[r]]
            /\ Notify(Cardinality({x \in Roles \X Networks : x[2] \in on[x[1]] \cup off[x[1]]}))
            /\ dirty' = (failed # {} \/ lost # {})
  BY DEF SyncNetworks
<1> DEFINE lost == {r \in Roles : cancelled \/ pass.id[r] # id[r]}
           on   == [r \in Roles |-> IF r \in lost THEN {} ELSE Connects(r) \ failed]
           off  == [r \in Roles |-> IF r \in lost THEN {} ELSE Disconnects(r) \ failed]
           told == {x \in Roles \X Networks : x[2] \in on[x[1]] \cup off[x[1]]}
<1>2. /\ Fault(failed # {}) /\ attached' = [r \in Roles |-> (attached[r] \cup on[r]) \ off[r]]
      /\ Notify(Cardinality(told)) /\ dirty' = (failed # {} \/ lost # {})
  BY <1>1
<1>3. \A r \in Roles : on[r] \subseteq Networks
  BY DEF Connects, TypeOK, PassTypeOK
<1>4. Cardinality(told) \in Nat
  <2>1. IsFiniteSet(Roles)
    <3>1. IsFiniteSet({"traefik"})
      BY FS_Singleton
    <3>2. IsFiniteSet({"traefik"} \cup {"inspector"})
      BY <3>1, FS_AddElement
    <3>3. {"traefik"} \cup {"inspector"} = Roles
      BY DEF Roles
    <3> QED BY <3>2, <3>3
  <2>2. IsFiniteSet(Networks)
    BY WatcherAssumption
  <2>3. IsFiniteSet(Roles \X Networks)
    BY <2>1, <2>2, FS_Product
  <2> HIDE DEF on, off
  <2>4. told \subseteq Roles \X Networks
    OBVIOUS
  <2> HIDE DEF told
  <2> QED BY <2>3, <2>4, FS_Subset, FS_CardinalityType
<1> HIDE DEF on, off, told
<1>5. backlog' \in Nat
  BY <1>2, <1>4, NotifyTyped DEF TypeOK
<1>6. attached' \in [Roles -> SUBSET Networks]
  BY <1>2, <1>3 DEF TypeOK
<1>7. dirty' \in BOOLEAN /\ faults' \in Nat
  BY <1>2 DEF Fault, TypeOK
<1>8. UNCHANGED <<running, id, stream, pass, cancelled, changes>> /\ pc' \in {"stale", "routers"}
  BY DEF SyncNetworks
<1>9. PassTypeOK' /\ Knowing'
  BY <1>8 DEF TypeOK, PassTypeOK, Knowing
<1> QED
  BY <1>5, <1>6, <1>7, <1>8, <1>9 DEF TypeOK

\* A listing fills the pass in.
LEMMA ListTyped == ASSUME TypeOK, Knowing, List PROVE TypeOK' /\ Knowing'
<1>1. PICK silent :
        /\ Fault(silent # {})
        /\ pass' = [id |-> id, nets |-> attached, desired |-> Desired(Listing),
                    files |-> Decisions[Listing][silent].files,
                    todo |-> Decisions[Listing][silent].files, rows |-> Decisions[Listing][silent].rows]
  BY DEF List
<1>2. \A r \in Roles : Desired(Listing)[r] \subseteq Networks
  BY ListingKnown, DesiredTyped
<1>3. PassTypeOK'
  BY <1>1, <1>2 DEF TypeOK, PassTypeOK
<1>4. UNCHANGED <<docker, stream, backlog, cancelled, changes>> /\ pc' \in {"inventory", "networks"} /\ dirty' \in BOOLEAN
  BY DEF List
<1>5. faults' \in Nat
  BY <1>1 DEF Fault, TypeOK
<1>6. Knowing'
  BY <1>1, <1>4 DEF TypeOK, Knowing, docker
<1> QED
  BY <1>3, <1>4, <1>5, <1>6 DEF TypeOK, docker

\* Every other step leaves the containers alone, and the pass as it is, one router short
\* or empty.
LEMMA RestTyped ==
  ASSUME TypeOK, Knowing,
         \/ FirstPass \/ Ticker \/ Event \/ Subscribe \/ StreamError \/ Done
         \/ ListFails \/ RemoveStaleRouters \/ WriteInventory
         \/ (\E w \in pass.todo : WriteRouter(w))
         \/ Cancel \/ Crash \/ Restart \/ UNCHANGED vars
  PROVE  TypeOK' /\ Knowing'
<1>0. /\ NoPass.todo = {} /\ NoPass.id = [r \in Roles |-> 0]
      /\ NoPass.nets = [r \in Roles |-> {}] /\ NoPass.desired = [r \in Roles |-> {}]
      /\ DOMAIN NoPass = {"id", "nets", "desired", "files", "todo", "rows"}
  BY DEF NoPass
<1>1. UNCHANGED docker
  BY DEF FirstPass, Ticker, Event, BeginPass, Subscribe, StreamError, Done, ListFails,
         RemoveStaleRouters, WriteInventory, WriteRouter, Cancel, Crash, Restart, vars
<1>2. \/ pass' = pass \/ pass' = NoPass
      \/ \E w : pass' = [pass EXCEPT !.todo = @ \ {w}]
  BY DEF FirstPass, Ticker, Event, BeginPass, Subscribe, StreamError, Done, ListFails,
         RemoveStaleRouters, WriteInventory, WriteRouter, Cancel, Crash, Restart, vars
<1>3. PassTypeOK'
  BY <1>0, <1>2 DEF TypeOK, PassTypeOK, Knowing
<1>4. changes' \in Nat /\ changes <= changes'
  <2>1. changes' = changes \/ changes' = changes + 1
    BY DEF FirstPass, Ticker, Event, BeginPass, Subscribe, StreamError, Done, ListFails,
           RemoveStaleRouters, WriteInventory, WriteRouter, Cancel, Crash, Restart, vars
  <2> QED BY <2>1 DEF TypeOK
<1>5. Knowing'
  <2>1. pass'.id \in {pass.id, [r \in Roles |-> 0]}
        /\ DOMAIN pass' = {"id", "nets", "desired", "files", "todo", "rows"}
    BY <1>0, <1>2 DEF Knowing
  <2>2. \A r \in Roles : id[r] \in Nat /\ pass.id[r] \in Nat
    BY DEF TypeOK, PassTypeOK
  <2>3. \A r \in Roles : id[r] <= changes' + 1 /\ pass'.id[r] <= changes' + 1
    BY <1>4, <2>1, <2>2 DEF Knowing, TypeOK
  <2> QED BY <1>1, <2>1, <2>3 DEF Knowing, docker
<1>6. faults' \in Nat
  BY DEF FirstPass, Ticker, Event, BeginPass, Subscribe, StreamError, Done, ListFails, Fault,
         RemoveStaleRouters, WriteInventory, WriteRouter, Cancel, Crash, Restart, vars, TypeOK
<1>7. backlog' \in Nat
  <2>1. backlog' = backlog \/ backlog' = 0 \/ (backlog > 0 /\ backlog' = backlog - 1)
    BY DEF FirstPass, Ticker, Event, BeginPass, Subscribe, StreamError, Done, ListFails, Exit,
           RemoveStaleRouters, WriteInventory, WriteRouter, Cancel, Crash, Restart, vars
  <2> QED BY <2>1 DEF TypeOK
<1>8. stream' \in {"none", "open", "broken"} /\ cancelled' \in BOOLEAN
  BY DEF FirstPass, Ticker, Event, BeginPass, Subscribe, StreamError, Done, ListFails, Exit,
         RemoveStaleRouters, WriteInventory, WriteRouter, Cancel, Crash, Restart, vars, TypeOK
<1>9. dirty' \in BOOLEAN
  BY DEF FirstPass, Ticker, Event, BeginPass, Subscribe, StreamError, Done, ListFails,
         RemoveStaleRouters, WriteInventory, WriteRouter, Cancel, Crash, Restart, vars, TypeOK
<1>10. pc' \in {"boot", "list", "networks", "routers", "stale", "inventory", "subscribe",
                "idle", "reconnect", "stopped", "down"}
  BY DEF FirstPass, Ticker, Event, BeginPass, Subscribe, StreamError, Done, ListFails, Exit, EndPass,
         RemoveStaleRouters, WriteInventory, WriteRouter, Cancel, Crash, Restart, vars, TypeOK
<1> QED
  BY <1>1, <1>3, <1>4, <1>5, <1>6, <1>7, <1>8, <1>9, <1>10 DEF TypeOK, docker

\* Every step keeps the types and what a pass knows.
LEMMA NextTyped == TypeOK /\ Knowing /\ [Next]_vars => TypeOK' /\ Knowing'
<1> SUFFICES ASSUME TypeOK, Knowing, [Next]_vars PROVE TypeOK' /\ Knowing'
  OBVIOUS
<1> QED
  BY DockerTyped, SyncTyped, ListTyped, RestTyped DEF Next, Run, Reconcile

\* Every variable keeps its type: what a pass desires and is attached to are networks,
\* and it writes only routers it decided on.
THEOREM WatcherTyped == Spec => []TypeOK
BY InitTyped, NextTyped, PTL DEF Spec

\* With it, what a pass knows of the containers.
LEMMA AlwaysKnowing == Spec => [](TypeOK /\ Knowing)
BY InitTyped, NextTyped, PTL DEF Spec

-----------------------------------------------------------------------------
(***************************************************************************)
(* Traefik is on the networks of the backends before their routers exist.   *)
(***************************************************************************)
\* Working on the networks, the pass knows those of every incarnation it lists that is
\* still up.
Fresh ==
  pc = "networks" =>
    \A r \in Roles : (pass.id[r] = id[r] /\ id[r] # 0) => pass.nets[r] = attached[r]

\* It writes routers with Traefik listed, and desires the networks of all their backends.
Backed ==
  pc \in {"networks", "routers", "stale"} =>
    /\ pass.id["traefik"] # 0
    /\ \A w \in pass.files : \A c \in AnyContainer :
         c.name \in w.route.servers => c.nets \subseteq pass.desired["traefik"]

\* With the networks done and nothing failed, the Traefik it listed is on all of them.
Reached ==
  (pc \in {"routers", "stale"} /\ ~dirty /\ pass.id["traefik"] = id["traefik"]) =>
    pass.desired["traefik"] \subseteq attached["traefik"]

Reaching == Fresh /\ Backed /\ Reached

\* The decisions a listing is given, read off the table.
LEMMA Decided ==
  ASSUME TypeOK, Knowing, List
  PROVE  \E silent \in SUBSET Names :
            pass' = [id |-> id, nets |-> attached, desired |-> Desired(Listing),
                     files |-> IF Traefik \in Listing THEN RoutersOf(Listing, Inspected(silent)) ELSE {},
                     todo |-> IF Traefik \in Listing THEN RoutersOf(Listing, Inspected(silent)) ELSE {},
                     rows |-> routesOf(Listing, Inspected(silent))]
<1>1. PICK silent \in {{}} \cup {{c.name} : c \in running} :
        pass' = [id |-> id, nets |-> attached, desired |-> Desired(Listing),
                 files |-> Decisions[Listing][silent].files,
                 todo |-> Decisions[Listing][silent].files, rows |-> Decisions[Listing][silent].rows]
  BY DEF List
<1>2. silent \in SUBSET Names
  <2>1. \A c \in running : c.name \in Names
    BY ContainerFields DEF TypeOK
  <2> QED BY <1>1, <2>1
<1>3. Listing \in Listings
  BY ListingKnown
<1>4. Decisions[Listing][silent] =
        [files |-> IF Traefik \in Listing THEN RoutersOf(Listing, Inspected(silent)) ELSE {},
         rows  |-> RowsOf(Listing, silent)]
  BY <1>2, <1>3 DEF Decisions
<1>5. /\ Decisions[Listing][silent].files =
             IF Traefik \in Listing THEN RoutersOf(Listing, Inspected(silent)) ELSE {}
      /\ Decisions[Listing][silent].rows = routesOf(Listing, Inspected(silent))
  BY <1>4 DEF RowsOf
<1> WITNESS silent \in SUBSET Names
<1> QED
  BY <1>1, <1>5

\* Docker leaves a stack container alone, or takes it down, or brings up another.
LEMMA DockerStep ==
  ASSUME TypeOK, DockerNext
  PROVE  /\ UNCHANGED <<pc, pass, files, dirty>>
         /\ \A r \in Roles : \/ id'[r] = id[r] /\ attached'[r] = attached[r]
                             \/ id'[r] = 0
                             \/ id'[r] = changes + 2
<1> DEFINE Small ==
             /\ UNCHANGED <<pc, pass, files, dirty>>
             /\ \A r \in Roles : \/ id'[r] = id[r] /\ attached'[r] = attached[r]
                                 \/ id'[r] = 0
                                 \/ id'[r] = changes + 2
<1> SUFFICES Small
  OBVIOUS
<1>1. ASSUME UNCHANGED <<id, attached>>, UNCHANGED <<pc, pass, files, dirty>>
      PROVE  Small
  BY <1>1
<1>2. CASE \E c \in Catalogue : Start(c)
  BY <1>1, <1>2 DEF Start, Change
<1>3. CASE \E c \in running : Stop(c)
  BY <1>1, <1>3 DEF Stop, Change
<1>4. CASE \E c \in running, s \in HealthStates \ {"none"} : HealthChange(c, s)
  BY <1>1, <1>4 DEF HealthChange, Change
<1>5. ASSUME NEW r \in Roles, StackDown(r) PROVE Small
  BY <1>5 DEF StackDown, Change, TypeOK
<1>6. ASSUME NEW r \in Roles, StackUp(r) PROVE Small
  BY <1>6 DEF StackUp, Change, TypeOK
<1>7. CASE BreakStream
  BY <1>1, <1>7 DEF BreakStream, docker
<1> QED
  BY <1>2, <1>3, <1>4, <1>5, <1>6, <1>7 DEF DockerNext

\* A change outside a pass detaches Traefik only by giving it a new incarnation.
LEMMA DockerReaching == ASSUME TypeOK, Knowing, Reaching, DockerNext PROVE Reaching'
<1>1. UNCHANGED <<pc, pass, files, dirty>>
  BY DockerStep
<1>2. ASSUME NEW r \in Roles, pass.id[r] = id'[r], id'[r] # 0
      PROVE  id'[r] = id[r] /\ attached'[r] = attached[r]
  <2>1. pass.id[r] \in Nat /\ changes \in Nat /\ pass.id[r] <= changes + 1
    BY DEF TypeOK, PassTypeOK, Knowing
  <2>2. id'[r] # changes + 2
    BY <1>2, <2>1
  <2> QED BY <1>2, <2>2, DockerStep
<1>3. Fresh'
  BY <1>1, <1>2 DEF Reaching, Fresh
<1>4. Backed'
  BY <1>1 DEF Reaching, Backed
<1>5. Reached'
  <2> SUFFICES ASSUME pc' \in {"routers", "stale"}, ~dirty', pass'.id["traefik"] = id'["traefik"]
               PROVE  pass'.desired["traefik"] \subseteq attached'["traefik"]
    BY DEF Reached
  <2>1. pass.id["traefik"] # 0
    BY <1>1 DEF Reaching, Backed
  <2>2. id'["traefik"] = id["traefik"] /\ attached'["traefik"] = attached["traefik"]
    BY <1>1, <1>2, <2>1 DEF Roles
  <2> QED BY <1>1, <2>2 DEF Reaching, Reached
<1> QED
  BY <1>3, <1>4, <1>5 DEF Reaching

\* Connecting is what reaches: if nothing failed and the listing still describes Traefik,
\* it is on what is desired, and nothing desired is disconnected.
LEMMA SyncReaching == ASSUME TypeOK, Knowing, Reaching, SyncNetworks PROVE Reaching'
<1>1. PICK failed :
        LET lost == {r \in Roles : cancelled \/ pass.id[r] # id[r]}
            on   == [r \in Roles |-> IF r \in lost THEN {} ELSE Connects(r) \ failed]
            off  == [r \in Roles |-> IF r \in lost THEN {} ELSE Disconnects(r) \ failed]
        IN  /\ attached' = [r \in Roles |-> (attached[r] \cup on[r]) \ off[r]]
            /\ dirty' = (failed # {} \/ lost # {})
  BY DEF SyncNetworks
<1> DEFINE lost == {r \in Roles : cancelled \/ pass.id[r] # id[r]}
           on   == [r \in Roles |-> IF r \in lost THEN {} ELSE Connects(r) \ failed]
           off  == [r \in Roles |-> IF r \in lost THEN {} ELSE Disconnects(r) \ failed]
<1>2. /\ attached' = [r \in Roles |-> (attached[r] \cup on[r]) \ off[r]]
      /\ dirty' = (failed # {} \/ lost # {})
  BY <1>1
<1>3. pc = "networks" /\ UNCHANGED <<id, pass>> /\ pc' \in {"stale", "routers"}
  BY DEF SyncNetworks
<1>4. ASSUME ~dirty' PROVE pass.desired["traefik"] \subseteq attached'["traefik"]
  <2>1. failed = {} /\ lost = {}
    BY <1>2, <1>4
  <2>2. "traefik" \in Roles /\ pass.id["traefik"] # 0
    BY <1>3 DEF Roles, Reaching, Backed
  <2>3. pass.id["traefik"] = id["traefik"]
    BY <2>1, <2>2
  <2>4. pass.nets["traefik"] = attached["traefik"]
    BY <1>3, <2>2, <2>3 DEF Reaching, Fresh
  <2>5. /\ on["traefik"] = pass.desired["traefik"] \ attached["traefik"]
        /\ off["traefik"] \cap pass.desired["traefik"] = {}
    BY <2>1, <2>2, <2>4 DEF Connects, Disconnects
  <2>6. attached'["traefik"] = (attached["traefik"] \cup on["traefik"]) \ off["traefik"]
    BY <1>2, <2>2
  <2> QED BY <2>5, <2>6
<1>5. Fresh' /\ Backed'
  BY <1>3 DEF Reaching, Fresh, Backed
<1> QED
  BY <1>3, <1>4, <1>5 DEF Reaching, Reached

\* A listing that shows Traefik desires the networks of every backend.
LEMMA ListReaching == ASSUME TypeOK, Knowing, List PROVE Reaching'
<1>1. PICK silent \in SUBSET Names :
        pass' = [id |-> id, nets |-> attached, desired |-> Desired(Listing),
                 files |-> IF Traefik \in Listing THEN RoutersOf(Listing, Inspected(silent)) ELSE {},
                 todo |-> IF Traefik \in Listing THEN RoutersOf(Listing, Inspected(silent)) ELSE {},
                 rows |-> routesOf(Listing, Inspected(silent))]
  BY Decided
<1>2. Listing \in Listings /\ id' = id /\ attached' = attached
  BY ListingKnown DEF List, docker
<1>3. pc' = IF id["traefik"] = 0 THEN "inventory" ELSE "networks"
  BY DEF List
<1>4. Desired(Listing)["traefik"] = DesiredNetworks(Listing)
  BY DEF Desired, Roles
<1>5. ASSUME NEW w \in pass'.files, NEW c \in AnyContainer, c.name \in w.route.servers
      PROVE  c.nets \subseteq pass'.desired["traefik"]
  <2>1. w \in RoutersOf(Listing, Inspected(silent))
    BY <1>1, <1>5
  <2> QED BY <1>1, <1>2, <1>4, <1>5, <2>1, BackendsDesired
<1>6. Fresh'
  BY <1>1, <1>2 DEF Fresh
<1>7. Backed'
  BY <1>1, <1>3, <1>5 DEF Backed
<1> QED
  BY <1>3, <1>6, <1>7 DEF Reaching, Reached

\* Writing a router changes neither the networks nor what the pass desires.
LEMMA WriteReaching ==
  ASSUME Knowing, Reaching, NEW w, WriteRouter(w) PROVE Reaching'
<1>1. /\ pc = "routers" /\ pc' \in {"routers", "stale"}
      /\ UNCHANGED <<id, attached>> /\ (~dirty' => ~dirty)
      /\ pass' = [pass EXCEPT !.todo = @ \ {w}]
  BY DEF WriteRouter, docker
<1>2. pass'.id = pass.id /\ pass'.desired = pass.desired /\ pass'.files = pass.files
  BY <1>1 DEF Knowing
<1> QED
  BY <1>1, <1>2 DEF Reaching, Fresh, Backed, Reached

\* Any other step has no pass at work, or leaves it where it is.
LEMMA RestReaching ==
  ASSUME Reaching,
         \/ FirstPass \/ Ticker \/ Event \/ Subscribe \/ StreamError \/ Done
         \/ ListFails \/ RemoveStaleRouters \/ WriteInventory
         \/ Cancel \/ Crash \/ Restart \/ UNCHANGED vars
  PROVE  Reaching'
<1>1. \/ pc' \notin {"networks", "routers", "stale"}
      \/ UNCHANGED <<pc, pass, docker, dirty>>
  BY DEF FirstPass, Ticker, Event, BeginPass, Subscribe, StreamError, Done, ListFails, Exit, EndPass,
         RemoveStaleRouters, WriteInventory, Cancel, Crash, Restart, vars
<1> QED
  BY <1>1 DEF Reaching, Fresh, Backed, Reached, docker

\* Every step keeps what is reached.
LEMMA NextReaching == TypeOK /\ Knowing /\ Reaching /\ [Next]_vars => Reaching'
<1> SUFFICES ASSUME TypeOK, Knowing, Reaching, [Next]_vars PROVE Reaching'
  OBVIOUS
<1> QED
  BY DockerReaching, SyncReaching, ListReaching, WriteReaching, RestReaching DEF Next, Run, Reconcile

\* No router is in place at first.
LEMMA InitReaching == Init => Reaching
BY DEF Init, Reaching, Fresh, Backed, Reached

\* A router is on disk only once Traefik can reach its backends: with the files of a
\* pass in place and nothing failed, Traefik is on the networks of all of them, however
\* containers come, go and change health and the stack's containers are recreated.
THEOREM BackendsReachedFirst == Spec => []ReachBeforeRouter
<1>1. TypeOK /\ Reaching => ReachBeforeRouter
  BY DEF TypeOK, Reaching, Backed, Reached, ReachBeforeRouter
<1>2. Spec => []Reaching
  BY AlwaysKnowing, InitReaching, NextReaching, PTL DEF Spec
<1> QED
  BY <1>1, <1>2, WatcherTyped, PTL

-----------------------------------------------------------------------------
(***************************************************************************)
(* The router files and the inventory tell one story.                       *)
(***************************************************************************)
But(ws) == {w \in ws : w.file # DashboardFile}

\* One router a file, on disk and in the pass.
OneRouterEach == OneEach(routers) /\ OneEach(pass.files)

\* A pass that has failed in nothing has written the routers it is done with, and once
\* the stale files are gone there are no others.
Written ==
  /\ pc = "networks" => pass.todo = pass.files
  /\ (pc = "routers" /\ ~dirty) => pass.files \ pass.todo \subseteq routers
  /\ (pc = "stale" /\ ~dirty) => pass.files \subseteq routers
  /\ (pc = "inventory" /\ ~dirty) => pass.id["traefik"] # 0 /\ But(routers) = But(pass.files)

\* With Traefik listed, the rows of a pass tell of its routers; between passes that
\* failed in nothing, so do the files.
Told ==
  /\ (pc \in {"networks", "routers", "stale", "inventory"} /\ pass.id["traefik"] # 0) =>
       OneStory(pass.files, pass.rows)
  /\ (pc \in {"list", "subscribe", "idle", "reconnect"} /\ ~dirty) => OneStory(routers, inventory)
  /\ pc = "boot" => dirty

Filing == OneRouterEach /\ Written /\ (DashboardUncontested => Told)

\* There are no files at first, and nothing was decided.
LEMMA InitFiling == Init => Filing
<1> SUFFICES ASSUME Init PROVE Filing
  OBVIOUS
<1>1. routers = {} /\ pass.files = {} /\ pc = "boot" /\ dirty = TRUE
  BY DEF Init, NoPass
<1> QED
  BY <1>1 DEF Filing, OneRouterEach, OneEach, Written, Told

\* The dashboard's file, and no other, is outside the story.
LEMMA StoryOfFiles ==
  ASSUME NEW v, NEW w, But(v) = But(w), NEW rows, OneStory(v, rows)
  PROVE  OneStory(w, rows)
<1>1. ServedIn(v) = ServedIn(w)
  BY DEF ServedIn, But
<1> QED
  BY <1>1 DEF OneStory

\* A listing decides routers and rows at once, so they tell one story.
LEMMA ListFiling == ASSUME TypeOK, Knowing, Filing, List PROVE Filing'
<1>1. PICK silent \in SUBSET Names :
        pass' = [id |-> id, nets |-> attached, desired |-> Desired(Listing),
                 files |-> IF Traefik \in Listing THEN RoutersOf(Listing, Inspected(silent)) ELSE {},
                 todo |-> IF Traefik \in Listing THEN RoutersOf(Listing, Inspected(silent)) ELSE {},
                 rows |-> routesOf(Listing, Inspected(silent))]
  BY Decided
<1>2. Listing \in Listings
  BY ListingKnown
<1>3. /\ UNCHANGED files /\ dirty' = (id["traefik"] = 0)
      /\ pc' = IF id["traefik"] = 0 THEN "inventory" ELSE "networks"
  BY DEF List
<1>4. pass'.id = id /\ pass'.todo = pass'.files /\ pass'.rows = routesOf(Listing, Inspected(silent))
      /\ pass'.files = IF Traefik \in Listing THEN RoutersOf(Listing, Inspected(silent)) ELSE {}
  BY <1>1
<1>5. OneEach(pass'.files)
  <2>1. OneEach({})
    BY DEF OneEach
  <2>2. OneEach(RoutersOf(Listing, Inspected(silent)))
    BY <1>2, RoutersApart
  <2>3. CASE Traefik \in Listing
    BY <1>4, <2>2, <2>3
  <2>4. CASE Traefik \notin Listing
    BY <1>4, <2>1, <2>4
  <2> QED BY <2>3, <2>4
<1>6. OneRouterEach'
  BY <1>3, <1>5 DEF Filing, OneRouterEach, files, OneEach
<1>7. Written'
  BY <1>3, <1>4 DEF Written
<1>8. ASSUME DashboardUncontested, id["traefik"] # 0 PROVE OneStory(pass'.files, pass'.rows)
  <2>1. Traefik \in Listing
    BY <1>8 DEF Listing
  <2>2. OneStory(RoutersOf(Listing, Inspected(silent)), routesOf(Listing, Inspected(silent)))
    BY <1>2, <1>8, <2>1, PassTellsOneStory
  <2> QED BY <1>4, <2>1, <2>2
<1>9. DashboardUncontested => Told'
  BY <1>3, <1>4, <1>8 DEF Told
<1> QED
  BY <1>6, <1>7, <1>9 DEF Filing, DashboardUncontested

\* Networks are no files.
LEMMA SyncFiling == ASSUME Filing, SyncNetworks PROVE Filing'
<1>1. /\ pc = "networks" /\ UNCHANGED <<files, pass>>
      /\ pc' = IF pass.todo = {} THEN "stale" ELSE "routers"
  BY DEF SyncNetworks
<1>2. OneRouterEach'
  BY <1>1 DEF Filing, OneRouterEach, files, OneEach
<1>3. Written'
  BY <1>1 DEF Filing, Written
<1>4. DashboardUncontested => Told'
  BY <1>1 DEF Filing, Told
<1> QED
  BY <1>2, <1>3, <1>4 DEF Filing, DashboardUncontested

\* A router that is written replaces the file of its name, and touches no other of the pass.
LEMMA WriteFiling ==
  ASSUME TypeOK, Knowing, Filing, NEW w \in pass.todo, WriteRouter(w) PROVE Filing'
<1>1. PICK failed \in BOOLEAN :
        /\ routers' = IF failed THEN routers ELSE {x \in routers : x.file # w.file} \cup {w}
        /\ dirty' = (dirty \/ failed)
  BY DEF WriteRouter
<1>2. /\ pc = "routers" /\ inventory' = inventory
      /\ pass' = [pass EXCEPT !.todo = @ \ {w}]
      /\ pc' = IF pass'.todo = {} THEN "stale" ELSE pc
  BY DEF WriteRouter
<1>3. /\ pass'.id = pass.id /\ pass'.files = pass.files /\ pass'.rows = pass.rows
      /\ pass'.todo = pass.todo \ {w}
  BY <1>2 DEF Knowing
<1>4. w \in pass.files
  BY DEF TypeOK, PassTypeOK
<1>5. OneEach(routers')
  <2>1. CASE failed
    BY <1>1, <2>1 DEF Filing, OneRouterEach
  <2>2. CASE ~failed
    BY <1>1, <2>2 DEF Filing, OneRouterEach, OneEach
  <2> QED BY <2>1, <2>2
<1>6. ASSUME ~dirty' PROVE pass'.files \ pass'.todo \subseteq routers'
  <2>1. routers' = {x \in routers : x.file # w.file} \cup {w} /\ ~dirty
    BY <1>1, <1>6
  <2>2. pass.files \ pass.todo \subseteq routers
    BY <1>2, <2>1 DEF Filing, Written
  <2>3. \A v \in pass.files : v.file = w.file => v = w
    BY <1>4 DEF Filing, OneRouterEach, OneEach
  <2> QED BY <1>3, <2>1, <2>2, <2>3
<1>7. OneRouterEach'
  BY <1>3, <1>5 DEF Filing, OneRouterEach, OneEach
<1>8. Written'
  BY <1>2, <1>6 DEF Written
<1>9. DashboardUncontested => Told'
  BY <1>2, <1>3 DEF Filing, Told
<1> QED
  BY <1>7, <1>8, <1>9 DEF Filing, DashboardUncontested

\* With the routers of a pass in place, what is stale is every other one.
LEMMA StaleFiling == ASSUME Filing, Reaching, RemoveStaleRouters PROVE Filing'
<1>1. PICK failed :
        /\ routers' = routers \ (Stale \ failed) /\ dirty' = (dirty \/ failed # {})
  BY DEF RemoveStaleRouters
<1>2. pc = "stale" /\ pc' = "inventory" /\ UNCHANGED <<pass, inventory>>
  BY DEF RemoveStaleRouters
<1>3. OneRouterEach'
  BY <1>1, <1>2 DEF Filing, OneRouterEach, OneEach
<1>4. ASSUME ~dirty' PROVE pass.id["traefik"] # 0 /\ But(routers') = But(pass.files)
  <2>1. routers' = routers \ Stale /\ ~dirty
    BY <1>1, <1>4
  <2>2. pass.files \subseteq routers
    BY <1>2, <2>1 DEF Filing, Written
  <2>3. ASSUME NEW w \in But(routers') PROVE w \in But(pass.files)
    <3>1. w \in routers /\ w.file \in Active /\ w.file # DashboardFile
      BY <2>1 DEF But, Stale
    <3>2. PICK v \in pass.files : v.file = w.file
      BY <3>1 DEF Active
    <3>3. v = w
      BY <2>2, <3>1, <3>2 DEF Filing, OneRouterEach, OneEach
    <3> QED BY <3>1, <3>2, <3>3 DEF But
  <2>4. ASSUME NEW w \in But(pass.files) PROVE w \in But(routers')
    <3>1. w \in routers /\ w \notin Stale /\ w.file # DashboardFile
      BY <2>2 DEF But, Stale, Active
    <3> QED BY <2>1, <3>1 DEF But
  <2>5. pass.id["traefik"] # 0
    BY <1>2 DEF Reaching, Backed
  <2> QED BY <2>3, <2>4, <2>5
<1>5. Written'
  BY <1>2, <1>4 DEF Written
<1>6. DashboardUncontested => Told'
  BY <1>2 DEF Filing, Told
<1> QED
  BY <1>3, <1>5, <1>6 DEF Filing, DashboardUncontested

\* The rows are written beside the routers they tell of.
LEMMA InventoryFiling == ASSUME Filing, WriteInventory PROVE Filing'
<1>1. PICK failed \in BOOLEAN :
        /\ inventory' = IF failed THEN inventory ELSE pass.rows
        /\ dirty' = (dirty \/ failed)
  BY DEF WriteInventory
<1>2. pc = "inventory" /\ pc' \in {"subscribe", "idle"} /\ pass' = NoPass /\ routers' = routers
  BY DEF WriteInventory, EndPass
<1>3. OneRouterEach'
  BY <1>2 DEF Filing, OneRouterEach, OneEach, NoPass
<1>4. ASSUME DashboardUncontested, ~dirty' PROVE OneStory(routers', inventory')
  <2>1. inventory' = pass.rows /\ ~dirty
    BY <1>1, <1>4
  <2>2. pass.id["traefik"] # 0 /\ But(routers) = But(pass.files)
    BY <1>2, <2>1 DEF Filing, Written
  <2>3. OneStory(pass.files, pass.rows)
    BY <1>2, <1>4, <2>2 DEF Filing, Told
  <2> QED BY <1>2, <2>1, <2>2, <2>3, StoryOfFiles
<1>5. Written'
  BY <1>2 DEF Written
<1>6. DashboardUncontested => Told'
  BY <1>2, <1>4 DEF Told
<1> QED
  BY <1>3, <1>5, <1>6 DEF Filing, DashboardUncontested

\* Any other step leaves the files as they are, unless it ends the process.
LEMMA RestFiling ==
  ASSUME TypeOK, Filing,
         \/ DockerNext \/ FirstPass \/ Ticker \/ Event \/ Subscribe \/ StreamError \/ Done
         \/ ListFails \/ Cancel \/ Crash \/ Restart \/ UNCHANGED vars
  PROVE  Filing'
<1>1. /\ routers' = routers
      /\ \/ UNCHANGED <<pc, pass, inventory, dirty>>
         \/ /\ UNCHANGED <<pass, inventory>>
            /\ pc' \in {"list", "subscribe", "idle", "reconnect"}
            /\ \/ dirty' = TRUE
               \/ dirty' = dirty /\ pc \in {"boot", "list", "subscribe", "idle", "reconnect"}
         \/ pass' \in {pass, NoPass} /\ pc' \in {"stopped", "down"}
         \/ pass' = NoPass /\ pc' = "boot" /\ dirty' = TRUE
  <2>1. CASE DockerNext
    BY <2>1, DockerStep DEF files
  <2>2. CASE FirstPass \/ Ticker \/ Event
    BY <2>2 DEF FirstPass, Ticker, Event, BeginPass, files
  <2>3. CASE Subscribe \/ StreamError \/ Done
    BY <2>3 DEF Subscribe, StreamError, Done, Exit, files
  <2>4. CASE ListFails
    BY <2>4 DEF ListFails, EndPass, files
  <2>5. CASE Cancel \/ Crash \/ Restart \/ UNCHANGED vars
    BY <2>5 DEF Cancel, Crash, Restart, vars, files
  <2> QED
    BY <2>1, <2>2, <2>3, <2>4, <2>5
<1>2. OneRouterEach'
  <2>1. OneEach(NoPass.files)
    BY DEF NoPass, OneEach
  <2>2. pass' = pass \/ pass' = NoPass
    BY <1>1
  <2> QED BY <1>1, <2>1, <2>2 DEF Filing, OneRouterEach, OneEach
<1>3. Written'
  BY <1>1 DEF Filing, Written
<1>4. DashboardUncontested => Told'
  BY <1>1 DEF Filing, Told
<1> QED
  BY <1>2, <1>3, <1>4 DEF Filing, DashboardUncontested

\* Every step keeps the story told.
LEMMA NextFiling == TypeOK /\ Knowing /\ Reaching /\ Filing /\ [Next]_vars => Filing'
<1> SUFFICES ASSUME TypeOK, Knowing, Reaching, Filing, [Next]_vars PROVE Filing'
  OBVIOUS
<1> QED
  BY ListFiling, SyncFiling, WriteFiling, StaleFiling, InventoryFiling, RestFiling DEF Next, Run, Reconcile

\* After a pass in which nothing failed, the router files and the inventory tell one
\* story of the same listing, whatever Docker did meanwhile: every name a router answers
\* is listed, and a name listed beyond those is a native rule's.  It is asked that no
\* container wants the dashboard's host: the two files disagree on whose that is.
THEOREM FilesTellOneStory == ASSUME DashboardUncontested PROVE Spec => []InventoryMatchesFiles
<1>1. Filing => InventoryMatchesFiles
  BY DashboardUncontested
     DEF Filing, Told, OneStory, ServedIn, ListedIn, InventoryMatchesFiles, Served, Listed
<1>2. Spec => []Reaching
  BY AlwaysKnowing, InitReaching, NextReaching, PTL DEF Spec
<1>3. Spec => []Filing
  BY AlwaysKnowing, <1>2, InitFiling, NextFiling, PTL DEF Spec
<1> QED
  BY <1>1, <1>3, PTL
=============================================================================
