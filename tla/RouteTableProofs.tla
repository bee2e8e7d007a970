-------------------------- MODULE RouteTableProofs --------------------------
(***************************************************************************)
(* What holds of the routing decisions for every catalogue of containers:   *)
(* every listing that starts, stops and healthchecks lead to is one that    *)
(* RoutingProofs speaks of, so each property of RouteTable holds of it.      *)
(***************************************************************************)
EXTENDS RouteTable, RoutingProofs

-----------------------------------------------------------------------------
(***************************************************************************)
(* The listings.                                                            *)
(***************************************************************************)
\* A healthcheck changes nothing but what it reports.
LEMMA AnyHealthNames ==
  ASSUME NEW c \in AllContainers, NEW d \in AnyHealth(c)
  PROVE  /\ d.name = c.name /\ d.hosts = c.hosts /\ d.role = c.role
         /\ DOMAIN d = DOMAIN c
BY RouteTableAssumption DEF AnyHealth

\* A healthcheck that reports another state leaves the container in the catalogue.
LEMMA AnyHealthClosed ==
  ASSUME NEW c \in AllContainers, NEW d \in AnyHealth(c), d.health # "none",
         NEW s \in HealthStates \ {"none"}
  PROVE  [d EXCEPT !.health = s] \in AnyHealth(c) /\ [d EXCEPT !.health = s].name = d.name
<1>1. {"name", "health"} \subseteq DOMAIN c /\ DOMAIN d = DOMAIN c
  BY AnyHealthNames, RouteTableAssumption
<1>2. c.health # "none"
  BY DEF AnyHealth
<1>3. PICK t \in HealthStates \ {"none"} : d = [c EXCEPT !.health = t]
  BY <1>2 DEF AnyHealth
<1>4. [d EXCEPT !.health = s] = [c EXCEPT !.health = s]
  BY <1>1, <1>3
<1>5. QED
  BY <1>1, <1>2, <1>4 DEF AnyHealth

\* Nothing runs at first.
LEMMA InitTypeOK == Init => TypeOK
BY DEF Init, TypeOK

\* A container starts only when none of its name runs, and keeps its name and labels.
LEMMA NextTypeOK == TypeOK /\ [Next]_vars => TypeOK'
<1> SUFFICES ASSUME TypeOK, [Next]_vars PROVE TypeOK'
  OBVIOUS
<1> USE DEF TypeOK
<1>0. catalogue \subseteq AllContainers
  BY DEF AllContainers
<1>1. ASSUME NEW c \in catalogue \cup {Traefik}, Start(c) PROVE TypeOK'
  <2>1. c \in (UNION {AnyHealth(d) : d \in catalogue}) \cup {Traefik}
    <3>1. CASE c \in catalogue
      <4>1. c \in AnyHealth(c)
        <5>1. c.health \in HealthStates /\ "health" \in DOMAIN c
          BY <3>1, <1>0, RouteTableAssumption
        <5>2. c.health # "none" => c = [c EXCEPT !.health = c.health]
          BY <5>1, RouteTableAssumption, <3>1, <1>0
        <5>3. QED
          BY <5>1, <5>2 DEF AnyHealth
      <4>2. QED
        BY <3>1, <4>1
    <3>2. QED
      BY <3>1, <1>1
  <2>2. \A d \in listing : d.name # c.name
    BY <1>1 DEF Start, Running
  <2>3. QED
    BY <1>1, <2>1, <2>2 DEF Start
<1>2. ASSUME NEW c \in listing, Stop(c) PROVE TypeOK'
  BY <1>2 DEF Stop
<1>3. ASSUME NEW c \in listing, NEW s \in HealthStates \ {"none"}, HealthChange(c, s) PROVE TypeOK'
  <2>1. c # Traefik
    BY <1>3, RouteTableAssumption DEF HealthChange
  <2>2. PICK d \in catalogue : c \in AnyHealth(d)
    BY <2>1
  <2> DEFINE e == [c EXCEPT !.health = s]
  <2>3. e \in AnyHealth(d) /\ e.name = c.name
    BY <2>2, <1>0, <1>3, AnyHealthClosed DEF HealthChange
  <2>4. listing' = (listing \ {c}) \cup {e} /\ catalogue' = catalogue /\ inspected' = inspected
    BY <1>3 DEF HealthChange
  <2> HIDE DEF e
  <2>5. listing' \subseteq (UNION {AnyHealth(x) : x \in catalogue'}) \cup {Traefik}
    BY <2>2, <2>3, <2>4
  <2>6. \A x, y \in listing' : x.name = y.name => x = y
    BY <2>3, <2>4, <1>3
  <2>7. QED
    BY <2>4, <2>5, <2>6
<1>4. ASSUME NEW n \in {c.name : c \in listing}, InspectChange(n) PROVE TypeOK'
  BY <1>4 DEF InspectChange
<1>5. CASE UNCHANGED vars
  BY <1>5 DEF vars
<1>6. QED
  BY <1>1, <1>2, <1>3, <1>4, <1>5 DEF Next

\* Whatever is started, stopped and health-checked, the listing holds at most one
\* container per name, each of the catalogue in a state of its healthcheck.
THEOREM ListingTyped == Spec => []TypeOK
<1>1. QED
  BY InitTypeOK, NextTypeOK, PTL DEF Spec

\* Strengthening: finitely many containers run.
FiniteListing == IsFiniteSet(listing)

\* Starting, stopping and checking containers one at a time keeps the listing finite.
LEMMA ListingFinite == Spec => []FiniteListing
<1>1. Init => FiniteListing
  BY FS_EmptySet DEF Init, FiniteListing
<1>2. ASSUME FiniteListing, [Next]_vars PROVE FiniteListing'
  <2>1. IsFiniteSet(listing)
    BY <1>2 DEF FiniteListing
  <2>2. \A c : IsFiniteSet(listing \cup {c}) /\ IsFiniteSet(listing \ {c})
    BY <2>1, FS_AddElement, FS_RemoveElement
  <2>3. \A c, d : IsFiniteSet((listing \ {c}) \cup {d})
    BY <2>2, FS_AddElement
  <2> DEFINE OneMore == \/ listing' = listing
                        \/ \E c : listing' = listing \cup {c}
                        \/ \E c : listing' = listing \ {c}
                        \/ \E c, d : listing' = (listing \ {c}) \cup {d}
  <2>4. OneMore
    <3>1. ASSUME NEW c \in catalogue \cup {Traefik}, Start(c) PROVE OneMore
      BY <3>1 DEF Start
    <3>2. ASSUME NEW c \in listing, Stop(c) PROVE OneMore
      BY <3>2 DEF Stop
    <3>3. ASSUME NEW c \in listing, NEW s \in HealthStates \ {"none"}, HealthChange(c, s) PROVE OneMore
      BY <3>3, Zenon DEF HealthChange
    <3>4. ASSUME NEW n, InspectChange(n) PROVE OneMore
      BY <3>4 DEF InspectChange
    <3>5. CASE UNCHANGED vars
      BY <3>5 DEF vars
    <3> QED
      BY <1>2, <3>1, <3>2, <3>3, <3>4, <3>5 DEF Next
  <2>5. IsFiniteSet(listing')
    <3>1. CASE listing' = listing
      BY <2>1, <3>1
    <3>2. CASE \E c : listing' = listing \cup {c}
      BY <2>2, <3>2
    <3>3. CASE \E c : listing' = listing \ {c}
      BY <2>2, <3>3
    <3>4. CASE \E c, d : listing' = (listing \ {c}) \cup {d}
      BY <2>3, <3>4
    <3> QED
      BY <2>4, <3>1, <3>2, <3>3, <3>4
  <2> QED
    BY <2>5 DEF FiniteListing
<1> QED
  BY <1>1, <1>2, PTL DEF Spec

\* What can be said of a running container, whatever its healthcheck reports.
LEMMA ListedContainers ==
  ASSUME TypeOK, NEW c \in listing, c.role = ""
  PROVE  /\ c.name \in Int \ {0, DashboardName} /\ c.hosts \subseteq HostNames
         /\ c # Traefik
<1>1. c # Traefik
  BY RouteTableAssumption DEF traefikRole
<1>2. PICK d \in catalogue : c \in AnyHealth(d)
  BY <1>1 DEF TypeOK
<1>3. d \in AllContainers
  BY <1>2 DEF TypeOK, AllContainers
<1> QED
  BY <1>1, <1>2, <1>3, AnyHealthNames, RouteTableAssumption

\* No user's container is Traefik.
LEMMA OneTraefik ==
  ASSUME TypeOK, NEW c \in listing, c.role = traefikRole
  PROVE  c = Traefik
<1> SUFFICES ASSUME c # Traefik PROVE FALSE
  OBVIOUS
<1>1. PICK d \in catalogue : c \in AnyHealth(d)
  BY DEF TypeOK
<1>2. d \in AllContainers
  BY <1>1 DEF TypeOK, AllContainers
<1> QED
  BY <1>1, <1>2, AnyHealthNames, RouteTableAssumption

\* So RoutingProofs speaks of every listing.
LEMMA ListingListable == TypeOK /\ FiniteListing => Listable(listing)
<1> SUFFICES ASSUME TypeOK, FiniteListing PROVE Listable(listing)
  OBVIOUS
<1>1. \A c \in listing : c.role = "" => c.name \in Int \ {0, DashboardName} /\ c.hosts \subseteq HostNames
  BY ListedContainers
<1>2. \A c, d \in listing : (c.role = traefikRole /\ d.role = traefikRole) => c = d
  BY OneTraefik
<1> QED
  BY <1>1, <1>2 DEF TypeOK, FiniteListing, Listable

\* Whatever happens, the listing stays one that Docker can give.
LEMMA AlwaysListable == Spec => []Listable(listing)
BY ListingTyped, ListingFinite, ListingListable, PTL

-----------------------------------------------------------------------------
(***************************************************************************)
(* The properties.                                                          *)
(***************************************************************************)
\* Traefik never gets two proximo routers for one host and path, whatever
\* containers run and however their labels overlap.
THEOREM RoutersUnique == Spec => []UniqueRouters
<1>1. Listable(listing) => UniqueRouters
  BY HostsOnce DEF UniqueRouters, Kept
<1> QED
  BY <1>1, AlwaysListable, PTL

\* Proximo keeps no router on a host of a native rule, of any published container,
\* as long as the rules of merged replicas are also on the first of them.
THEOREM NativeRulesServeAlone == Spec /\ []RulesOnFirst => []NativeServesAlone
<1>1. Listable(listing) /\ RulesOnFirst => NativeServesAlone
  BY NativesAlone DEF NativeServesAlone, RulesOnFirst, RulesFirst, PublishedNow, Kept
<1> QED
  BY <1>1, AlwaysListable, PTL

\* A generated name never displaces one that is declared, as long as no host that is
\* generated for the first of some merged replicas is declared by another of them.
THEOREM DeclaredHostsWin == Spec /\ []DeclaredOnFirst => []DeclaredBeatsGenerated
<1>1. Listable(listing) /\ DeclaredOnFirst => DeclaredBeatsGenerated
  BY DeclaredBeats DEF DeclaredBeatsGenerated, DeclaredOnFirst, DeclaredFirst, PublishedNow, Kept
<1> QED
  BY <1>1, AlwaysListable, PTL

\* A collision costs a container the bare host and nothing else, whatever the labels
\* of the other containers: its qualified hosts are contested by nobody who generated
\* them for another project.
THEOREM CollisionsCostBareHosts == Spec => []CollisionCostsOnlyBareHost
<1>1. Listable(listing) => CollisionCostsOnlyBareHost
  BY BareHostOnly DEF CollisionCostsOnlyBareHost, PublishedNow, Kept
<1> QED
  BY <1>1, AlwaysListable, PTL

\* No two routes of a pass write one file, however their projects, services and
\* names are spelled: a base that is taken, or reserved, gets the container's id.
THEOREM FilesDistinct == Spec => []DistinctFiles
<1>1. Listable(listing) => DistinctFiles
  BY FilesApart DEF DistinctFiles, Kept
<1> QED
  BY <1>1, AlwaysListable, PTL

\* Stopping a container takes no host from a route it was no backend of, as long as
\* the first of merged replicas speaks for all of them: otherwise its successor may
\* bring a native rule, or declare a host that the first one only generated.
THEOREM StopsAreLocal ==
  Spec /\ []RulesOnFirst /\ []DeclaredOnFirst => StopMovesOnlyItsOwnHosts
<1>1. ASSUME Listable(listing), RulesOnFirst, DeclaredOnFirst,
             NEW c \in listing, Stop(c), NEW r \in Kept, c.name \notin r.servers
      PROVE  \E s \in Kept' : s.name = r.name /\ r.hosts \subseteq s.hosts
  <2>1. Kept' = RoutedSet(listing \ {c}, inspected)
    BY <1>1 DEF Stop, Kept
  <2>2. r \in RoutedSet(listing, inspected)
    BY DEF Kept
  <2>3. RulesFirst(Published(listing, inspected)) /\ DeclaredFirst(Published(listing, inspected))
    BY <1>1 DEF RulesOnFirst, DeclaredOnFirst, RulesFirst, DeclaredFirst, PublishedNow
  <2> QED
    BY <1>1, <2>1, <2>2, <2>3, StopMovesOwn
<1>2. ASSUME Listable(listing), RulesOnFirst, DeclaredOnFirst, [Next]_vars
      PROVE  [\A c \in listing :
                Stop(c) => \A r \in Kept : c.name \notin r.servers =>
                             \E s \in Kept' : s.name = r.name /\ r.hosts \subseteq s.hosts]_vars
  BY <1>1, <1>2
<1> QED
  BY <1>2, AlwaysListable, PTL DEF Spec, StopMovesOnlyItsOwnHosts

\* Nothing is lost in silence: with Traefik running, every host declared by a
\* published container is a row, served or lost to a claimant that answers on it.
THEOREM EveryClaimAccounted == Spec => []EveryClaimReported
<1>1. Listable(listing) => EveryClaimReported
  <2> SUFFICES ASSUME Listable(listing), TraefikRunning,
                      NEW g \in Groups(PublishedNow), g.proximo, NEW h \in g.hosts \ g.gen
               PROVE  \E row \in Rows :
                        /\ row.container = g.name /\ row.host = h /\ row.path = g.path
                        /\ \/ row.kind = "served"
                           \/ /\ row.kind = "collision"
                              /\ \E other \in Rows : other.container = row.owner /\ h \in AnswersOn(other)
    BY DEF EveryClaimReported
  <2>1. Traefik \in listing /\ Traefik.role = traefikRole
    BY RouteTableAssumption DEF TraefikRunning
  <2>2. g \in RowGroups(listing, inspected)
    BY DEF RowGroups, PublishedNow
  <2> QED
    BY <2>1, <2>2, ClaimsReported DEF Rows
<1> QED
  BY <1>1, AlwaysListable, PTL

\* With Traefik running, the inventory answers exactly what the routers and the native
\* rules answer, unless some published container asks for the dashboard's host.
THEOREM RowsTellTheRouters == Spec /\ []DashboardUncontested => []InventoryMatchesRouters
<1>1. Listable(listing) /\ DashboardUncontested => InventoryMatchesRouters
  <2> SUFFICES ASSUME Listable(listing), DashboardUncontested, TraefikRunning PROVE Answered = Routed
    BY DEF InventoryMatchesRouters
  <2>1. Traefik \in listing /\ Traefik.role = traefikRole
    BY RouteTableAssumption DEF TraefikRunning
  <2>2. AnsweredIn(listing, inspected) = RoutedIn(listing, inspected, Traefik)
    BY <2>1, RowsMatch DEF DashboardUncontested, Uncontested, PublishedNow
  <2> QED
    BY <2>2 DEF AnsweredIn, RoutedIn, Answered, Routed, Rows, Kept, PublishedNow
<1> QED
  BY <1>1, AlwaysListable, PTL
=============================================================================
