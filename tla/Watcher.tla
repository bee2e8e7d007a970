------------------------------ MODULE Watcher ------------------------------
(***************************************************************************)
(* The watcher process (internal/docker/watcher.go): Run's loop over Docker *)
(* events, the 30 s ticker and cancellation, and one reconcile pass cut at  *)
(* the points where Docker can change, an operation can fail or the process *)
(* can die: list, networks, router files, stale router files, inventory.    *)
(* The certificates of the same pass are modelled by Certs.                 *)
(*                                                                          *)
(* Docker is external: users start, stop and health-check containers, the   *)
(* stack's own containers are recreated, and its event stream can break.    *)
(***************************************************************************)
EXTENDS Routing

CONSTANTS
  Catalogue,   \* the containers users may run, at most one per name
  Traefik,     \* the stack's Traefik, as ContainerList shows it
  StackNet,    \* the stack's own network
  MaxChanges,  \* bound on what users and Docker do to the containers
  MaxFaults,   \* bound on failed operations, broken streams and crashes
  MaxBacklog   \* bound on undelivered events

Roles == {"traefik", "inspector"}
HealthStates == {"none", "starting", "healthy", "unhealthy"}
Names == {c.name : c \in Catalogue}
Networks == {StackNet} \cup UNION {c.nets : c \in Catalogue}

ASSUME WatcherAssumption ==
  /\ \A c \in Catalogue : /\ c = [f \in DOMAIN c |-> c[f]]
                         /\ {"name", "health", "hosts", "role", "nets", "rules", "native"} \subseteq DOMAIN c
                         /\ c.role = "" /\ c.health \in HealthStates
                         /\ c.name \in Int \ {0, DashboardName} /\ c.hosts \subseteq HostNames
  /\ \A c, d \in Catalogue : c.name = d.name => c = d
  /\ IsFiniteSet(Catalogue) /\ IsFiniteSet(Networks)
  /\ Traefik.name \in Int \ Names /\ Traefik.role = traefikRole /\ Traefik.health = "none"
  /\ MaxChanges \in Nat /\ MaxFaults \in Nat /\ MaxBacklog \in Nat

VARIABLES
  running,    \* users' containers that are up
  id,         \* role -> incarnation of the stack container, 0 while it is down
  attached,   \* role -> networks that incarnation is on
  stream,     \* the event subscription: "none", "open" or "broken"
  backlog,    \* events sent and not yet received
  pc,         \* where the watcher is
  pass,       \* what the current pass read from Docker
  routers,    \* router files: file name -> the route rendered in it
  inventory,  \* rows of the inventory file ({} when it lists nothing)
  cancelled,  \* the process was asked to stop
  dirty,      \* an operation of the last pass failed, or it did not finish
  changes, faults   \* how much of the bounds is used

docker == <<running, id, attached>>
files  == <<routers, inventory>>
vars   == <<docker, stream, backlog, pc, pass, files, cancelled, dirty, changes, faults>>

AnyHealth(c) == IF c.health = "none" THEN {c}
                ELSE {[c EXCEPT !.health = s] : s \in HealthStates \ {"none"}}

AnyContainer == UNION {AnyHealth(c) : c \in Catalogue}

\* What a pass works from: the listing's view of the stack containers, and the
\* networks, router files and rows the pass is going to establish.
NoPass == [id |-> [r \in Roles |-> 0], nets |-> [r \in Roles |-> {}],
           desired |-> [r \in Roles |-> {}], files |-> {}, todo |-> {}, rows |-> {}]

DashboardFile == <<DashboardBase, 0>>

\* The listing Docker would give now.
Listing == running \cup (IF id["traefik"] = 0 THEN {} ELSE {Traefik})

\* Whether ContainerInspect answers for each name, one answer for a whole pass.
Inspected(silent) == [n \in Names \cup {Traefik.name} |-> n \notin silent]

\* One file per routed proximo container: its name and the router in it.
RoutersOf(cs, inspected) ==
  LET kept == RoutedSet(cs, inspected)
  IN  {[file |-> assignSafeNames(r, kept), route |-> r] : r \in {q \in kept : q.proximo}}

\* Slip: the inventory asks Docker again instead of reusing the pass's answers.
RowsAskedAgain(cs, silent) == routesOf(cs, Inspected(IF silent = {} THEN Names ELSE {}))

RowsOf(cs, silent) == routesOf(cs, Inspected(silent))

\* The decisions of a pass over every listing, tabulated.
Listings ==
  {cs \in SUBSET (AnyContainer \cup {Traefik}) : \A c, d \in cs : c.name = d.name => c = d}

Decisions ==
  [cs \in Listings |-> [silent \in SUBSET Names |->
     [files |-> IF Traefik \in cs THEN RoutersOf(cs, Inspected(silent)) ELSE {},
      rows  |-> RowsOf(cs, silent)]]]

Least(n, m) == IF n < m THEN n ELSE m

\* n more events reach an open subscription.
Notify(n) == backlog' = IF stream = "open" THEN Least(backlog + n, MaxBacklog) ELSE backlog

Fault(happens) ==
  /\ happens => faults < MaxFaults
  /\ faults' = IF happens THEN faults + 1 ELSE faults

Init ==
  /\ running \in SUBSET Catalogue
  /\ id = [r \in Roles |-> 1]
  /\ attached = [r \in Roles |-> {StackNet}]
  /\ stream = "none" /\ backlog = 0
  /\ pc = "boot" /\ pass = NoPass
  /\ routers = {} /\ inventory = {}
  /\ cancelled = FALSE /\ dirty = TRUE
  /\ changes = 0 /\ faults = 0

-----------------------------------------------------------------------------
(***************************************************************************)
(* Docker and its users.                                                    *)
(***************************************************************************)
Change ==
  /\ changes < MaxChanges
  /\ changes' = changes + 1
  /\ Notify(1)
  /\ UNCHANGED <<stream, pc, pass, files, cancelled, dirty, faults>>

Start(c) ==
  /\ Change
  /\ \A d \in running : d.name # c.name
  /\ running' = running \cup {c}
  /\ UNCHANGED <<id, attached>>

Stop(c) ==
  /\ Change
  /\ running' = running \ {c}
  /\ UNCHANGED <<id, attached>>

HealthChange(c, s) ==
  /\ Change
  /\ c.health # "none" /\ s # c.health
  /\ running' = (running \ {c}) \cup {[c EXCEPT !.health = s]}
  /\ UNCHANGED <<id, attached>>

\* A stack container goes down, or comes back as a new one on its own network.
StackDown(r) ==
  /\ Change
  /\ id[r] # 0
  /\ id' = [id EXCEPT ![r] = 0]
  /\ attached' = [attached EXCEPT ![r] = {}]
  /\ UNCHANGED running

StackUp(r) ==
  /\ Change
  /\ id[r] = 0
  /\ id' = [id EXCEPT ![r] = changes + 2]
  /\ attached' = [attached EXCEPT ![r] = {StackNet}]
  /\ UNCHANGED running

BreakStream ==
  /\ stream = "open" /\ Fault(TRUE)
  /\ stream' = "broken" /\ backlog' = 0
  /\ UNCHANGED <<docker, pc, pass, files, cancelled, dirty, changes>>

\* The stack is told to stop.  Cancelling the context also ends the stream.
Cancel ==
  /\ ~cancelled /\ pc \notin {"stopped", "down"}
  /\ cancelled' = TRUE
  /\ stream' = IF stream = "open" THEN "broken" ELSE stream
  /\ UNCHANGED <<docker, backlog, pc, pass, files, dirty, changes, faults>>

-----------------------------------------------------------------------------
(***************************************************************************)
(* Run: the select loop.                                                    *)
(***************************************************************************)
BeginPass(from) ==
  /\ pc = from
  /\ pc' = "list"
  /\ UNCHANGED <<docker, stream, pass, files, cancelled, dirty, changes, faults>>

FirstPass == BeginPass("boot") /\ UNCHANGED backlog

\* Slip: the resync is a retry, taken only after a failure.
TickerRetries == dirty /\ BeginPass("idle") /\ UNCHANGED backlog

Ticker == BeginPass("idle") /\ UNCHANGED backlog

\* Slip: the queue is not looked at.
EventAnyway == BeginPass("idle") /\ backlog' = backlog - 1

Event ==
  /\ backlog > 0
  /\ BeginPass("idle")
  /\ backlog' = backlog - 1

Subscribe ==
  /\ pc \in {"subscribe", "reconnect"}
  /\ pc' = "idle"
  /\ stream' = IF cancelled THEN "broken" ELSE "open"
  /\ backlog' = 0
  /\ UNCHANGED <<docker, pass, files, cancelled, dirty, changes, faults>>

\* The process returns from Run.
Exit == pc' = "stopped" /\ stream' = "none" /\ backlog' = 0

StreamError ==
  /\ pc = "idle" /\ stream = "broken"
  /\ IF cancelled THEN Exit ELSE pc' = "reconnect" /\ UNCHANGED <<stream, backlog>>
  /\ UNCHANGED <<docker, pass, files, cancelled, dirty, changes, faults>>

Done ==
  /\ pc = "idle" /\ cancelled
  /\ \E failed \in BOOLEAN :
       /\ Fault(failed)
       /\ inventory' = IF failed THEN inventory ELSE {}
       /\ dirty' = failed
  /\ Exit
  /\ UNCHANGED <<docker, pass, routers, cancelled, changes>>

\* A kill at any point loses the process and its memory; files stay.
Crash ==
  /\ pc \notin {"stopped", "down"}
  /\ Fault(TRUE)
  /\ pc' = "down" /\ pass' = NoPass /\ dirty' = TRUE
  /\ stream' = "none" /\ backlog' = 0
  /\ UNCHANGED <<docker, files, cancelled, changes>>

\* The restart policy, or `proximo up` after a stop.
Restart ==
  /\ \/ pc = "down" /\ ~cancelled /\ UNCHANGED changes
     \/ pc = "stopped" /\ changes < MaxChanges /\ changes' = changes + 1
  /\ pc' = "boot" /\ pass' = NoPass /\ cancelled' = FALSE
  /\ dirty' = TRUE
  /\ UNCHANGED <<docker, stream, backlog, files, faults>>

-----------------------------------------------------------------------------
(***************************************************************************)
(* reconcile.                                                               *)
(***************************************************************************)
EndPass == pc' = IF stream = "none" THEN "subscribe" ELSE "idle"

\* Slip: Traefik is attached like the hop.
DesiredInspected(cs) == [r \in Roles |-> InspectNetworks(cs)]

Desired(cs) == [r \in Roles |-> IF r = "traefik" THEN DesiredNetworks(cs) ELSE InspectNetworks(cs)]

\* ContainerList, and the decisions of the pass.  memoInspect settles once which
\* containers (silent) Docker does not answer ContainerInspect for.
List ==
  /\ pc = "list" /\ ~cancelled
  /\ \E silent \in {{}} \cup {{c.name} : c \in running} :
       LET decided == Decisions[Listing][silent]
       IN  /\ Fault(silent # {})
           /\ pass' = [id |-> id, nets |-> attached, desired |-> Desired(Listing),
                       files |-> decided.files, todo |-> decided.files, rows |-> decided.rows]
  /\ pc' = IF id["traefik"] = 0 THEN "inventory" ELSE "networks"
  /\ dirty' = (id["traefik"] = 0)
  /\ UNCHANGED <<docker, stream, backlog, files, cancelled, changes>>

\* A listing that fails, as it does once cancelled, ends the pass there.
ListFails ==
  /\ pc = "list"
  /\ Fault(~cancelled)
  /\ EndPass
  /\ dirty' = TRUE
  /\ UNCHANGED <<docker, stream, backlog, pass, files, cancelled, changes>>

Connects(role) == IF pass.id[role] = 0 THEN {} ELSE pass.desired[role] \ pass.nets[role]

\* Slips: the stack's own network is disconnected like any other; a network is
\* disconnected even though it is desired.
DisconnectsAny(role) == IF pass.id[role] = 0 THEN {} ELSE pass.nets[role] \ pass.desired[role]

DisconnectsDesired(role) == IF pass.id[role] = 0 THEN {} ELSE pass.nets[role] \ {StackNet}

Disconnects(role) ==
  IF pass.id[role] = 0 THEN {} ELSE (pass.nets[role] \ pass.desired[role]) \ {StackNet}

\* syncNetworks for Traefik and then for the hop.  A connect or disconnect that
\* fails is skipped; one addressed to a container recreated since the listing
\* fails, and so does every one after cancellation.
SyncNetworks ==
  /\ pc = "networks"
  /\ \E failed \in {{}} \cup {{n} : n \in UNION {Connects(r) \cup Disconnects(r) : r \in Roles}} :
       LET lost == {r \in Roles : cancelled \/ pass.id[r] # id[r]}
           on   == [r \in Roles |-> IF r \in lost THEN {} ELSE Connects(r) \ failed]
           off  == [r \in Roles |-> IF r \in lost THEN {} ELSE Disconnects(r) \ failed]
       IN  /\ Fault(failed # {})
           /\ attached' = [r \in Roles |-> (attached[r] \cup on[r]) \ off[r]]
           /\ Notify(Cardinality({x \in Roles \X Networks : x[2] \in on[x[1]] \cup off[x[1]]}))
           /\ dirty' = (failed # {} \/ lost # {})
  /\ pc' = IF pass.todo = {} THEN "stale" ELSE "routers"
  /\ UNCHANGED <<running, id, stream, pass, files, cancelled, changes>>

\* syncDynamic, first half: each file is replaced atomically, one after another.
WriteRouter(w) ==
  /\ pc = "routers"
  /\ \E failed \in BOOLEAN :
       /\ Fault(failed)
       /\ routers' = IF failed THEN routers ELSE {x \in routers : x.file # w.file} \cup {w}
       /\ dirty' = (dirty \/ failed)
  /\ pass' = [pass EXCEPT !.todo = @ \ {w}]
  /\ pc' = IF pass'.todo = {} THEN "stale" ELSE pc
  /\ UNCHANGED <<docker, stream, backlog, inventory, cancelled, changes>>

Active == {w.file : w \in pass.files} \cup {DashboardFile}

Stale == {w \in routers : w.file \notin Active}

\* Second half: every file that no route of this pass owns goes, but never the
\* dashboard's.
RemoveStaleRouters ==
  /\ pc = "stale"
  /\ \E failed \in {{}} \cup {{w} : w \in Stale} :
       /\ Fault(failed # {})
       /\ routers' = routers \ (Stale \ failed)
       /\ dirty' = (dirty \/ failed # {})
  /\ pc' = "inventory"
  /\ UNCHANGED <<docker, stream, backlog, pass, inventory, cancelled, changes>>

WriteInventory ==
  /\ pc = "inventory"
  /\ \E failed \in BOOLEAN :
       /\ Fault(failed)
       /\ inventory' = IF failed THEN inventory ELSE pass.rows
       /\ dirty' = (dirty \/ failed)
  /\ pass' = NoPass
  /\ EndPass
  /\ UNCHANGED <<docker, stream, backlog, routers, cancelled, changes>>

-----------------------------------------------------------------------------
DockerNext ==
  \/ \E c \in Catalogue : Start(c)
  \/ \E c \in running : Stop(c)
  \/ \E c \in running, s \in HealthStates \ {"none"} : HealthChange(c, s)
  \/ \E r \in Roles : StackDown(r) \/ StackUp(r)
  \/ BreakStream

Reconcile ==
  \/ List \/ ListFails \/ SyncNetworks \/ RemoveStaleRouters \/ WriteInventory
  \/ \E w \in pass.todo : WriteRouter(w)

Run == FirstPass \/ Ticker \/ Event \/ Subscribe \/ StreamError \/ Done \/ Reconcile

Next == DockerNext \/ Run \/ Cancel \/ Crash \/ Restart

Spec == Init /\ [][Next]_vars

(***************************************************************************)
(* Fairness: the process is scheduled; the ticker keeps firing; select picks *)
(* uniformly among its ready cases, so one that is ready again and again is  *)
(* taken; the restart policy brings a killed watcher back.  Nothing is asked *)
(* of Docker, of its users or of whoever stops the stack.  ListTaken is a     *)
(* List step told by where it leads, so that TLC need not run the decisions  *)
(* again to know that one can be taken.                                      *)
(***************************************************************************)
ListTaken == pc = "list" /\ ~cancelled /\ pc' \in {"networks", "inventory"}

FairSpec ==
  /\ Spec
  /\ WF_pc(ListTaken)
  /\ WF_vars(\/ FirstPass \/ Subscribe \/ ListFails
              \/ SyncNetworks \/ RemoveStaleRouters \/ WriteInventory
              \/ \E w \in pass.todo : WriteRouter(w))
  /\ WF_vars(Ticker)
  /\ SF_vars(Event) /\ SF_vars(StreamError) /\ SF_vars(Done)
  /\ WF_vars(pc = "down" /\ Restart)

-----------------------------------------------------------------------------
(***************************************************************************)
(* Properties.                                                              *)
(***************************************************************************)
PassTypeOK ==
  /\ pass.id \in [Roles -> Nat]
  /\ \A r \in Roles : pass.nets[r] \subseteq Networks /\ pass.desired[r] \subseteq Networks
  /\ pass.todo \subseteq pass.files

TypeOK ==
  /\ running \subseteq AnyContainer
  /\ id \in [Roles -> Nat]
  /\ attached \in [Roles -> SUBSET Networks]
  /\ stream \in {"none", "open", "broken"} /\ backlog \in Nat
  /\ pc \in {"boot", "list", "networks", "routers", "stale", "inventory", "subscribe",
             "idle", "reconnect", "stopped", "down"}
  /\ PassTypeOK
  /\ cancelled \in BOOLEAN /\ dirty \in BOOLEAN
  /\ changes \in Nat /\ faults \in Nat

\* A stack container that is up never leaves the stack's own network, however
\* the passes, the failures and the recreations of that container interleave.
StackNetworkKept == \A r \in Roles : id[r] # 0 => StackNet \in attached[r]

\* When the router files of a pass are all in place and every operation so far
\* succeeded, Traefik can reach every backend in them: networks come first.
ReachBeforeRouter ==
  (pc = "stale" /\ ~dirty /\ pass.id = id) =>
    \A w \in routers : \A c \in running :
      (c.name \in w.route.servers /\ w \in pass.files) => c.nets \subseteq attached["traefik"]

\* The names the router files answer, and the names the inventory says are
\* answered, the dashboard's apart.
Served == UNION {w.route.hosts : w \in {x \in routers : x.file # DashboardFile}}
Listed == UNION {AnswersOn(r) : r \in {x \in inventory : x.container # Traefik.name}}

\* Hosts of traefik.* rules: rows show them, and Traefik's own provider serves them.
NativeRules == UNION {c.rules : c \in {d \in Catalogue : d.native}}

\* Between passes, if nothing failed, the two files tell one story even if
\* Docker changed or stopped answering in the middle of the pass: a name that a
\* router file answers is listed, and a name listed beyond those is a native
\* rule's.
InventoryMatchesFiles ==
  (pc = "idle" /\ ~dirty) => Served \subseteq Listed /\ Listed \ Served \subseteq NativeRules

\* Where that can be said of any catalogue: nobody asks for the dashboard's host.
DashboardUncontested == \A c \in Catalogue : DashboardHost \notin c.hosts \cup c.rules

Target == Decisions[Listing][{}]

\* The files and the attachments are those of the containers running now.
Converged ==
  /\ inventory = Target.rows
  /\ id["traefik"] # 0 =>
       /\ {w \in routers : w.file # DashboardFile} = {w \in Target.files : w.file # DashboardFile}
       /\ \A r \in Roles : id[r] # 0 => attached[r] = {StackNet} \cup Desired(Listing)[r]

\* Once Docker is quiet and the watcher is left running, what it serves becomes
\* and stays what the running containers ask for, whatever happened before.
Convergence == <>[](~cancelled /\ pc # "stopped") => <>[]Converged

\* A watcher does not keep itself busy: the events its own connects and
\* disconnects cause die out.
Quiesces == <>[](backlog = 0)
=============================================================================
