------------------------------ MODULE Routing ------------------------------
(***************************************************************************)
(* What a container's labels ask for and what proximo serves for a set of  *)
(* containers: the classifier (classify), the host resolver (resolveRoutes),*)
(* the file names (assignSafeNames) and the inventory rows (routesOf) of   *)
(* internal/docker.  No state: Watcher and RouteTable apply these operators *)
(* to the containers Docker lists.                                          *)
(*                                                                          *)
(* A host is [labels, tld]: the labels before the TLD, and whether it lies  *)
(* under the configured TLD at all.  A container carries what its label     *)
(* parsers yield, never the raw text:                                       *)
(*   name     an integer, ordered as the container names are                *)
(*   own      the file name its own name sanitizes to                       *)
(*   role     the stack service it is ("" for a user's container)           *)
(*   project, service    the Compose labels ("" outside a project)          *)
(*   hosts, enabled      proximo.hosts (valid entries), proximo.enable      *)
(*   native, rules       traefik.enable, the hosts of its router rules      *)
(*   port, exposed       proximo.port (0 = absent), the exposed TCP ports   *)
(*   tcp, tls            proximo.tcp.* ports in order, and the TLS mode     *)
(*   path, pathOK        proximo.path ("" = absent) and whether it is valid *)
(*   mw                  everything else an HTTP router renders             *)
(*   inspect, share, transcript, gated    the remaining proximo.* switches  *)
(*   health              what its healthcheck reports ("none" without one)  *)
(*   nets                the routable networks targetNetworks yields        *)
(***************************************************************************)
EXTENDS Integers, FiniteSets, Sequences

CONSTANTS
  DashboardName,   \* "traefik" among the container names, which the sort sees
  DashboardHost,   \* traefik.<tld>
  DashboardBase    \* the reserved file name "dashboard"

traefikRole  == "traefik"
stackProject == "proximo"
NoMiddleware == "none"

\* A host name has a label before the TLD: "test" alone does not end in ".test".
HostNames == [labels : Seq(STRING) \ {<<>>}, tld : BOOLEAN]

ASSUME DashboardAssumption ==
  DashboardName \in Int /\ DashboardHost \in HostNames /\ Len(DashboardHost.labels) = 1

(***************************************************************************)
(* Labels.                                                                  *)
(***************************************************************************)
isProximoRoute(c) == c.hosts # {} /\ c.enabled

isRouted(c) == c.role = "" /\ (isProximoRoute(c) \/ c.native)

isObserved(c) == c.role = "" /\ (isRouted(c) \/ c.transcript)

isHealthRoutable(c) == c.gated => c.health \in {"none", "healthy"}

namespaceOf(c) == IF c.project = stackProject THEN "" ELSE c.project

\* The qualified host of h in namespace ns, as a set of at most one host.
qualifiedHost(h, ns) ==
  LET n == Len(h.labels)
      qualified == n > 1 /\ h.labels[n] = ns
  IN  IF ns = "" \/ ~h.tld \/ qualified
      THEN {}
      ELSE {[h EXCEPT !.labels = Append(h.labels, ns)]}

\* The hosts qualifyHosts appends: never one the developer declared.
Generated(hosts, ns) == (UNION {qualifiedHost(h, ns) : h \in hosts}) \ hosts

(***************************************************************************)
(* classify: the routing model of one container, whether it is routed, and  *)
(* whether an unresolved backend port is what stopped it.  inspected says   *)
(* whether Docker answers ContainerInspect for it during this pass.         *)
(***************************************************************************)
\* The backend port as a set of at most one: the label when it is set, and
\* otherwise the only exposed TCP port.
resolveBackendPort(c, inspected) ==
  IF c.port # 0
  THEN {c.port} \cap 1..65535
  ELSE {p \in c.exposed : inspected /\ Cardinality(c.exposed) = 1}

NativeRoute(c) ==
  [name |-> c.name, ns |-> namespaceOf(c), proximo |-> FALSE,
   base |-> IF namespaceOf(c) # "" /\ c.service # "" THEN <<namespaceOf(c), c.service>> ELSE c.own,
   hosts |-> IF c.native THEN c.rules ELSE {}, gen |-> {},
   natives |-> IF c.native THEN c.rules ELSE {},
   port |-> 0, tcp |-> <<>>, tls |-> "", path |-> "", mw |-> NoMiddleware,
   inspect |-> FALSE, share |-> FALSE, internal |-> FALSE, servers |-> {c.name}]

ProximoRoute(c) ==
  LET gen == Generated(c.hosts, namespaceOf(c))
  IN  [NativeRoute(c) EXCEPT !.proximo = TRUE, !.hosts = c.hosts \cup gen, !.gen = gen]

classify(c, inspected) ==
  LET ports == resolveBackendPort(c, inspected)
      tcpRoute  == [ProximoRoute(c) EXCEPT !.tcp = c.tcp, !.tls = c.tls]
      httpRoute == [ProximoRoute(c) EXCEPT !.mw = c.mw, !.path = c.path, !.inspect = c.inspect,
                                           !.share = c.share,
                                           !.port = IF ports = {} THEN 0 ELSE CHOOSE p \in ports : TRUE]
  IN  IF ~isProximoRoute(c)
      THEN [route |-> NativeRoute(c), ok |-> c.native /\ c.rules # {}, portFailed |-> FALSE]
      ELSE IF c.tcp # <<>>
      THEN [route |-> tcpRoute, ok |-> TRUE, portFailed |-> FALSE]
      ELSE [route |-> httpRoute, ok |-> c.pathOK /\ ports # {}, portFailed |-> c.pathOK /\ ports = {}]

dashboardRoute ==
  [name |-> DashboardName, ns |-> "", proximo |-> TRUE, base |-> DashboardBase,
   hosts |-> {DashboardHost}, gen |-> {}, natives |-> {}, port |-> 0, tcp |-> <<>>,
   tls |-> "", path |-> "", mw |-> "redirect", inspect |-> FALSE, share |-> FALSE,
   internal |-> TRUE, servers |-> {DashboardName}]

(***************************************************************************)
(* resolveRoutes.  Names are distinct, so the name order makes the groups a *)
(* set: the first of each replica class represents it.                      *)
(***************************************************************************)
\* What two containers must share to be one route: the rendered router with
\* the backend's identity taken out, and the namespace.
replicaKey(r) ==
  IF r.tcp # <<>>
  THEN <<"tcp", r.ns, r.hosts, r.tcp, r.tls>>
  ELSE <<"http", r.ns, r.hosts, r.port, r.mw, r.inspect, r.internal>>

mergeable(r) == r.proximo /\ r.path = ""

ReplicasOf(r, routes) ==
  {q \in routes : q = r \/ (mergeable(q) /\ mergeable(r) /\ replicaKey(q) = replicaKey(r))}

\* One group: the first container by name, every replica's name as a backend,
\* shared when any replica asks, inspected only when it has a single backend.
Group(r, routes) ==
  LET replicas == ReplicasOf(r, routes)
  IN  [r EXCEPT !.servers = {q.name : q \in replicas},
                !.share   = \E q \in replicas : q.share,
                !.inspect = r.inspect /\ replicas = {r}]

IsFirst(r, routes) == \A o \in ReplicasOf(r, routes) : r.name <= o.name

Groups(routes) == {Group(r, routes) : r \in {q \in routes : IsFirst(q, routes)}}

\* Hosts Traefik's own provider serves, and the group recorded as carrying the
\* rule: the last one by name.
NativeHosts(groups) == UNION {g.natives : g \in groups}

nativeRule(h, groups) ==
  (CHOOSE g \in groups : h \in g.natives /\ \A o \in groups : h \in o.natives => o.name <= g.name).name

\* Slip: hosts are claimed in name order alone.
PrecedesByName(g, o, h) == g.name < o.name

\* Declared hosts are claimed before generated ones, then in name order.
Precedes(g, o, h) ==
  \/ h \notin g.gen /\ h \in o.gen
  \/ (h \in g.gen) = (h \in o.gen) /\ g.name < o.name

Claims(g, h, path) == g.proximo /\ h \in g.hosts /\ g.path = path

\* Slips: generated hosts are never contested; native rules are not looked at;
\* a host is compared with its last claimant alone.
survivorsUncontested(g, groups) ==
  {h \in g.hosts \ NativeHosts(groups) :
     \A o \in groups \ {g} : (Claims(o, h, g.path) /\ h \notin g.gen) => Precedes(g, o, h)}

survivorsOverNative(g, groups) ==
  {h \in g.hosts : \A o \in groups \ {g} : Claims(o, h, g.path) => Precedes(g, o, h)}

survivorsOfLast(g, groups) ==
  {h \in g.hosts \ NativeHosts(groups) :
     \A o \in groups \ {g} :
       (Claims(o, h, g.path) /\ \A q \in groups \ {g} : Claims(q, h, g.path) => q.name <= o.name)
         => Precedes(g, o, h)}

survivors(g, groups) ==
  {h \in g.hosts \ NativeHosts(groups) :
     \A o \in groups \ {g} : Claims(o, h, g.path) => Precedes(g, o, h)}

\* The group that holds (h, path): CHOOSE only where some group claims it.
OwnerOf(h, path, groups) ==
  CHOOSE g \in groups : Claims(g, h, path) /\ h \in survivors(g, groups)

\* Slip: losing one host costs the whole route.
KeptOfWhole(groups) ==
  {g \in groups : ~g.proximo} \cup {g \in groups : g.proximo /\ survivors(g, groups) = g.hosts}

KeptOf(groups) ==
  {g \in groups : ~g.proximo} \cup
  {[g EXCEPT !.hosts = survivors(g, groups)] : g \in {o \in groups : o.proximo /\ survivors(o, groups) # {}}}

\* Slip: a route that lost every host reports no collision.
CollisionsOfKept(groups) ==
  UNION {{[name |-> g.name, host |-> h, path |-> g.path,
           owner |-> IF h \in NativeHosts(groups) THEN nativeRule(h, groups)
                     ELSE OwnerOf(h, g.path, groups).name] :
            h \in g.hosts \ survivors(g, groups)} :
         g \in {o \in groups : o.proximo /\ survivors(o, groups) # {}}}

CollisionsOf(groups) ==
  UNION {{[name |-> g.name, host |-> h, path |-> g.path,
           owner |-> IF h \in NativeHosts(groups) THEN nativeRule(h, groups)
                     ELSE OwnerOf(h, g.path, groups).name] :
            h \in g.hosts \ survivors(g, groups)} : g \in {o \in groups : o.proximo}}

resolveRoutes(routes) ==
  LET groups == Groups(routes)
  IN  [kept |-> KeptOf(groups), collisions |-> CollisionsOf(groups),
       proximoNatives |-> UNION {{[name |-> g.name, host |-> h] : h \in g.natives} : g \in {o \in groups : o.proximo}}]

\* Slip: the dashboard's name is not reserved.
assignSafeNamesUnreserved(r, kept) ==
  LET rivals == {q \in kept : q.base = r.base /\ ~q.internal}
  IN  IF r.internal THEN <<DashboardBase, 0>>
      ELSE IF Cardinality(rivals) > 1 THEN <<r.base, r.name>> ELSE <<r.base, 0>>

\* A route's file name: its base, and its container id when the base is taken.
assignSafeNames(r, kept) ==
  LET rivals == {q \in kept : q.base = r.base /\ ~q.internal}
      taken  == Cardinality(rivals) + (IF r.base = DashboardBase THEN 1 ELSE 0)
  IN  IF r.internal THEN <<DashboardBase, 0>>
      ELSE IF taken > 1 THEN <<r.base, r.name>> ELSE <<r.base, 0>>

(***************************************************************************)
(* The two readers of a listing: the watcher's routed set, and the rows of  *)
(* `proximo status` and of the inventory.  inspected maps a container name  *)
(* to whether ContainerInspect answers.                                     *)
(***************************************************************************)
Published(cs, inspected) ==
  {classify(c, inspected[c.name]).route :
     c \in {d \in cs : isRouted(d) /\ isHealthRoutable(d) /\ classify(d, inspected[d.name]).ok}}

RoutedSet(cs, inspected) == resolveRoutes(Published(cs, inspected) \cup {dashboardRoute}).kept

DesiredNetworks(cs) == UNION {c.nets : c \in {d \in cs : isRouted(d) /\ isHealthRoutable(d)}}

InspectNetworks(cs) ==
  UNION {c.nets : c \in {d \in cs : isRouted(d) /\ isHealthRoutable(d) /\ d.inspect}}

Row(kind, container, host, path, qualified, owner) ==
  [kind |-> kind, container |-> container, host |-> host, path |-> path,
   qualified |-> qualified, owner |-> owner]

NoHost == [labels |-> <<>>, tld |-> FALSE]

\* The qualified host still answering for bare host h of a resolved route.
servedQualified(r, h) == qualifiedHost(h, r.ns) \cap r.gen \cap r.hosts

dashboardRows(cs) ==
  {Row("served", c.name, DashboardHost, "", {}, 0) : c \in {d \in cs : d.role = traefikRole}}

observedRows(cs) ==
  {Row("observed", c.name, NoHost, "", {}, 0) : c \in {d \in cs : isObserved(d) /\ ~isRouted(d)}}

\* Containers that opted in and are withheld: not yet healthy, or without a port.
flaggedRows(cs, inspected) ==
  UNION {LET k == classify(c, inspected[c.name])
             path == IF isHealthRoutable(c) THEN "" ELSE k.route.path
         IN  {Row("flagged", c.name, h, path, {}, 0) : h \in k.route.hosts \ k.route.gen} :
         c \in {d \in cs : /\ isRouted(d)
                           /\ LET k == classify(d, inspected[d.name])
                              IN  (k.ok \/ k.portFailed) /\ ~(k.ok /\ isHealthRoutable(d))}}

\* Slip: a container that lost a host is not shown with the name it kept.
servedRowsBareOnly(res) ==
  {Row("collision", l.name, l.host, l.path, {}, l.owner) : l \in res.collisions}
  \cup {Row("served", n.name, n.host, "", {}, 0) : n \in res.proximoNatives}
  \cup UNION {{Row("served", r.name, h, r.path, servedQualified(r, h), 0) : h \in r.hosts \ r.gen} : r \in res.kept}

servedRows(res) ==
  (UNION {{Row("served", r.name, h, r.path, servedQualified(r, h), 0) : h \in r.hosts \ r.gen} : r \in res.kept})
  \cup {Row("served", n.name, n.host, "", {}, 0) : n \in res.proximoNatives}
  \cup {Row("collision", l.name, l.host, l.path,
            UNION {servedQualified(r, l.host) : r \in {q \in res.kept : q.name = l.name /\ q.path = l.path}},
            l.owner) : l \in res.collisions}

markStackDown(rows) ==
  {[r EXCEPT !.kind = IF r.kind = "served" THEN "flagged" ELSE r.kind, !.qualified = {}] : r \in rows}

routesOf(cs, inspected) ==
  LET rows == dashboardRows(cs) \cup flaggedRows(cs, inspected) \cup observedRows(cs)
              \cup servedRows(resolveRoutes(Published(cs, inspected)))
  IN  IF \E c \in cs : c.role = traefikRole THEN rows ELSE markStackDown(rows)

\* The names a row answers on, as NewInventory separates them from claimed ones.
AnswersOn(row) == IF row.kind = "served" THEN {row.host} \cup row.qualified ELSE row.qualified
=============================================================================
