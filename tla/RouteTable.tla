----------------------------- MODULE RouteTable -----------------------------
(***************************************************************************)
(* The routing decisions of internal/docker over every set of containers    *)
(* that can be reached by starting, stopping, recreating and health-checking *)
(* them one at a time.  Each state is one listing; the operators of Routing  *)
(* say what proximo serves for it.  The properties are about the decisions  *)
(* themselves; Watcher models when and how they are carried out.            *)
(***************************************************************************)
EXTENDS Routing

CONSTANTS
  Catalogues, \* sets of containers; one set is used, and one may run per name
  Traefik     \* the stack's Traefik container

HealthStates == {"none", "starting", "healthy", "unhealthy"}

AllContainers == UNION Catalogues
Names == {c.name : c \in AllContainers}

ASSUME RouteTableAssumption ==
  /\ \A c \in AllContainers : c.name \in Int \ {0, DashboardName} /\ c.health \in HealthStates
  /\ \A c \in AllContainers : c.hosts \subseteq HostNames /\ c.role # traefikRole
  /\ \A c \in AllContainers : /\ c = [f \in DOMAIN c |-> c[f]]
                            /\ {"name", "health", "hosts", "role"} \subseteq DOMAIN c
  /\ Traefik.name \in Int /\ Traefik.name \notin Names /\ Traefik.health = "none"
  /\ Traefik.role = traefikRole

VARIABLES
  catalogue,  \* the containers of this machine
  listing,    \* the running containers, as ContainerList returns them
  inspected   \* name -> whether ContainerInspect answers for it now

vars == <<catalogue, listing, inspected>>

Running(n) == \E c \in listing : c.name = n

\* A container of the catalogue in any state its healthcheck can put it in.
AnyHealth(c) == IF c.health = "none" THEN {c}
                ELSE {[c EXCEPT !.health = s] : s \in HealthStates \ {"none"}}

TypeOK ==
  /\ catalogue \in Catalogues
  /\ listing \subseteq (UNION {AnyHealth(c) : c \in catalogue}) \cup {Traefik}
  /\ \A c, d \in listing : c.name = d.name => c = d
  /\ inspected \in [Names \cup {Traefik.name} -> BOOLEAN]

Init ==
  /\ catalogue \in Catalogues
  /\ listing = {}
  /\ inspected = [n \in Names \cup {Traefik.name} |-> TRUE]

\* Slip: two containers of one name run at once.
StartAgain(c) == listing' = listing \cup {c} /\ UNCHANGED <<catalogue, inspected>>

Start(c) ==
  /\ ~Running(c.name)
  /\ listing' = listing \cup {c}
  /\ UNCHANGED <<catalogue, inspected>>

Stop(c) ==
  /\ listing' = listing \ {c}
  /\ UNCHANGED <<catalogue, inspected>>

HealthChange(c, s) ==
  /\ c.health # "none" /\ s # c.health
  /\ listing' = (listing \ {c}) \cup {[c EXCEPT !.health = s]}
  /\ UNCHANGED <<catalogue, inspected>>

InspectChange(n) ==
  /\ inspected' = [inspected EXCEPT ![n] = ~inspected[n]]
  /\ UNCHANGED <<catalogue, listing>>

Next ==
  \/ \E c \in catalogue \cup {Traefik} : Start(c)
  \/ \E c \in listing : Stop(c)
  \/ \E c \in listing, s \in HealthStates \ {"none"} : HealthChange(c, s)
  \/ \E c \in listing : c.port = 0 /\ InspectChange(c.name)

Spec == Init /\ [][Next]_vars

-----------------------------------------------------------------------------
(***************************************************************************)
(* Properties.                                                              *)
(***************************************************************************)
Kept == RoutedSet(listing, inspected)
Rows == routesOf(listing, inspected)
PublishedNow == Published(listing, inspected)

TraefikRunning == Traefik \in listing

\* Traefik never has two proximo routers for one host and path: of the routes
\* resolveRoutes keeps, no two share a host under the same path prefix.
UniqueRouters ==
  \A r, s \in Kept :
    (r.proximo /\ s.proximo /\ r # s /\ r.path = s.path) => r.hosts \cap s.hosts = {}

\* Where a merge loses nothing: the first replica by name, whose fields become
\* the group's, carries every native rule of the others, and generates no host
\* that another of them declares.
RulesOnFirst ==
  \A f \in PublishedNow : IsFirst(f, PublishedNow) =>
    \A c \in ReplicasOf(f, PublishedNow) : c.natives \subseteq f.natives

DeclaredOnFirst ==
  \A f \in PublishedNow : IsFirst(f, PublishedNow) =>
    \A c \in ReplicasOf(f, PublishedNow) : f.gen \subseteq c.gen

\* Where the watcher's routes and the rows are of one set: no published
\* container asks for the dashboard's host.
DashboardUncontested == \A c \in PublishedNow : DashboardHost \notin c.hosts \cup c.natives

\* A host a traefik.* rule matches is served by that rule alone: whichever
\* published container carries the rule, proximo keeps no router on the host.
NativeServesAlone ==
  \A c \in PublishedNow, r \in Kept : r.proximo => r.hosts \cap c.natives = {}

\* A name proximo generated never displaces a name a developer wrote: a kept
\* route answers on a generated host only if no published container but its own
\* replicas declares it.  A merge can lose a declaration to the first replica,
\* which generates the name: then a third container of the project that comes
\* before them and generates it too keeps it.  The catalogues hold no such three.
DeclaredBeatsGenerated ==
  \A r \in Kept : \A h \in r.hosts \cap r.gen :
    ~\E c \in PublishedNow : Claims(c, h, r.path) /\ h \notin c.gen /\ c.name \notin r.servers

\* A collision costs a bare host, not a service: a container of a project keeps
\* every qualified host proximo generated for it, unless a native rule or a
\* developer's own declaration has that name, or a container of its own project
\* asks for the same one.
CollisionCostsOnlyBareHost ==
  \A c \in PublishedNow : \A q \in c.gen :
    \/ \E r \in Kept : c.name \in r.servers /\ q \in r.hosts
    \/ \E o \in PublishedNow : q \in o.natives
    \/ \E o \in PublishedNow : Claims(o, q, c.path) /\ (q \notin o.gen \/ (o.ns = c.ns /\ o.name # c.name))

\* Nothing is lost in silence: every host declared by a published proximo
\* container is a row of the replica set it belongs to, either served or lost
\* to a named claimant that answers on it.
EveryClaimReported ==
  TraefikRunning =>
    \A g \in {x \in Groups(PublishedNow) : x.proximo} : \A h \in g.hosts \ g.gen :
      \E row \in Rows :
        /\ row.container = g.name /\ row.host = h /\ row.path = g.path
        /\ \/ row.kind = "served"
           \/ /\ row.kind = "collision"
              /\ \E other \in Rows : other.container = row.owner /\ h \in AnswersOn(other)

\* What the inventory says is answered, and what the routers and the native
\* rules answer: triples of a container, a name and a path prefix.
Answered == UNION {{<<x.container, h, x.path>> : h \in AnswersOn(x)} : x \in Rows}

Routed ==
  (UNION {{<<IF r.internal THEN Traefik.name ELSE r.name, h, r.path>> : h \in r.hosts} : r \in Kept})
  \cup UNION {{<<g.name, h, "">> : h \in g.natives} : g \in {x \in Groups(PublishedNow) : x.proximo}}

\* The inventory and the routers tell one story: with Traefik running, the
\* names the rows say a container answers on are the names of its router, and
\* of the native rules it carries.
InventoryMatchesRouters == TraefikRunning => Answered = Routed

\* Two routes never write one file: file names are distinct over the kept set,
\* and none is the dashboard's unless it is the dashboard.
DistinctFiles ==
  \A r, s \in Kept : r # s => assignSafeNames(r, Kept) # assignSafeNames(s, Kept)

\* Stopping a container moves only the hosts it was serving: a route none of
\* whose backends stopped keeps every host it answered on.
StopMovesOnlyItsOwnHosts ==
  [][\A c \in listing :
       Stop(c) => \A r \in Kept : c.name \notin r.servers =>
                    \E s \in Kept' : s.name = r.name /\ r.hosts \subseteq s.hosts]_vars
=============================================================================
