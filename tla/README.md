# proximo: TLA+ models and proofs

proximo gives every container of a development machine an HTTPS name. A
*watcher* process lists the Docker containers, decides from their labels which
hosts each one gets, attaches Traefik to their networks, and writes router
files, certificates and an inventory that Traefik, `proximo status` and other
tools read. An *Inspection hop* in front of chosen containers injects an agent
into their pages and remembers the requests. A host CLI installs and converges the
stack all of these are part of. This directory models that system in TLA+, checks the models with TLC on
small instances, and proves the most important facts with TLAPS.

Paths below are relative to the repository root as seen from here (`src/`).

## 1. Inventory of the system

| Component | Source | State it keeps | Operations | Hard behaviour | What makes it correct | Modelled |
|---|---|---|---|---|---|---|
| Route classification and resolution | `internal/docker/watcher.go` (classify, resolveRoutes, assignSafeNames), `labels.go` | none: a function of the listing | classify, merge replicas, claim hosts, name files | overlapping declared, generated and native hosts; replicas; paths | one router per host and path; native rules alone; a collision costs the bare host only; nothing is lost silently | `Routing`, `RouteTable`, `HostClaims` |
| Status rows and inventory | `routes.go`, `inventory.go` | `inventory.json` | routesOf, markStackDown, NewInventory | two readers of one listing must agree | the rows say what the routers do | `Routing`, `RouteTable`, `Watcher` (content; wording left out) |
| Watcher loop | `watcher.go` (Run, reconcile, syncNetworks, syncDynamic), `cmd/watcher/main.go` | event subscription, one pass's locals, router files, attachments | first pass, tick, event, stream error, cancel; list, connect, write, sweep, publish | Docker changes mid-pass, failed calls, broken streams, kills, restarts, its own events | the stack's network is kept, networks come before routers, a quiet Docker is caught up with and left alone | `Watcher` |
| Certificates | `watcher.go` (syncCerts, syncDefaultCert, syncPeerLeaf, writeTLSConfig, sweeps), `internal/tls/cert.go` | pairs on disk, `lastHosts`, `defaultIssued`, `proximo-tls.yml` | issue, skip, list, sweep | kills and failures between files, stale cache, replaced CA, new peer material | nothing listed is missing, stale or of another host set | `Certs` |
| Incident store | `incident.go`, `incidentapi.go` | Incidents per service, recent OOMs, ids seen healthy | Observe, SawHealthy, record, List, select | events queued behind a newer listing, swapped, replayed or lost; age and count limits | an Incident is something the runtime declared, once, and the newest are kept | `Incidents` |
| Exchange store and Inspection hop | `internal/inspect/`, `cmd/inspector` | Exchanges within a byte budget, requests in flight, pages with the agent | Add, Complete, Attach, evict, Select; ServeHTTP, modifyResponse, ErrorHandler, ingest; reconcileCSP | concurrent requests and reports, eviction under an open request, aborted copies, restarts | the account is exact, both halves of an Exchange meet, pages admit the agent | `Exchanges`, `CSP` (HTML and gzip rewriting left out) |
| Host lifecycle | `internal/cli/` (hoststeps, install, uninstall, updown, config, update, trust), `docker/stack.go`, `internal/config` | host steps applied, saved configuration, materialized stack, containers | applySteps, Converge, Down, Save, every command | a step fails or is cut short, the next command starts from what is left | a command that succeeded leaves what it promises whatever came before | `Lifecycle`, `Settings` |
| Peer sharing | `peer.go`, `peerdns.go`, `cmd/peerrelay` | peer material, two optional services | MissingValues, copyPeer, AppendPeers, restartPeerServices | copies from several commands, an address that comes and goes | the material is what the configuration calls for; declared services run in the end | `Settings`, `Lifecycle`, `Certs` (the reader); relay pumps left out |
| DNS server | `internal/dns/server.go` | none | answer, refuse, forward | none across queries | a name is answered by its suffix | no: stateless; the TLD it runs with is in `Lifecycle` |
| Host resolver | `internal/dns/resolver.go`, `observe.go` | drop-ins | configure, remove, observe | order against configuration saves | one drop-in, of the configured TLD | steps of `Lifecycle` |
| CA, intermediates, trust | `internal/tls/` | PEM files, trust stores | generate, purge, trust, untrust, accept | order against other steps, replaced CA | stores, stack and disk agree | steps of `Lifecycle`, acceptance in `Settings` |
| Transcripts | `internal/transcript/` | none: reads container output | window, overlap, cut, incarnation, merge | edges, recreated containers and the second a listing gives for them, two sources of one request | no later container's lines, to the second; all counted | `Transcript`, used by `Exchanges`; the Incident's window in `Incidents` |
| Checks and doctor | `internal/checks`, `cli/doctor.go` | none | a check, its prerequisites, its Remedy | a Remedy run from a half-changed host | the Remedy cures | the checks a command cures, in `Lifecycle` |
| Listings | `cli/status.go`, `errors.go`, `incidents.go` | none | select, merge, narrow, render | the selections must agree | nothing recent is lost | selections in `Exchanges`, `Incidents`, rows in `Routing`; rendering left out |
| Skill files, hub bootstrap, platform helpers | `internal/skill`, `internal/observability`, `internal/platform` | none that another part depends on | file generation, a linear HTTP conversation repeated from its start | none | table tests reach them | no |

How the components meet:

- Docker's event stream and a 30 s ticker wake the watcher; each pass reads one
  `ContainerList` and memoizes `ContainerInspect` for its own duration.
- The watcher writes files that Traefik's file provider follows; there is no
  acknowledgement, so the *order* of file operations is the whole protocol.
- `proximo status` and the inventory call the same `routesOf` over the same
  classifier and resolver as the watcher's routers.
- The host CLI writes the CA and the peer material into a directory the watcher
  mounts: the CA is read once per process, the peer material once per pass.
- The event stream also feeds the Incident store, before the reconcile it
  triggers; the listing of each pass feeds the same store with ids seen healthy.
- Traefik sends inspected routes through the hop and logs every request itself;
  `proximo errors` asks both and keeps one row per request.
- The CLI's commands share nothing but what they leave on disk, on the host and in
  Docker; Compose decides from `.env` and the compose file what to create again.

`PROJECT.json` lists the hazards of this code at the line where each bites, with
the properties that watch for it or the reason there is none yet.

## 2. Modules

| Module | Role |
|---|---|
| `Routing` | operators only: labels to routes, replicas, claims, file names, networks, status rows |
| `RouteTable` / `MCRouteTable` | state: the set of running containers; properties of the decisions |
| `RoutingProofs` | lemmas about the operators of `Routing`: groups, survivors, file names, rows |
| `RouteTableProofs` | every property of `RouteTable`, from those lemmas |
| `HostClaims` / `MCHostClaims` | the two-round claim loop of `resolveRoutes`, step by step |
| `HostClaimsProofs` | inductive invariant of the loop; the hosts and the losses it computes are what `Routing` states |
| `Watcher` / `MCWatcher` | `Run` and the reconcile pass against Docker, with failures, kills, restarts |
| `WatcherProofs` | types; the stack's network is never lost; backends are reached first; the files tell one story |
| `Certs` / `MCCerts` | the certificate half of a pass, cut at every file |
| `CertsProofs` | nothing listed is missing, half replaced, of other names or of another signer |
| `Incidents` / `MCIncidents` | the Incident store, the event queue and the passes that read ahead of it |
| `IncidentsProofs` | every property of `Incidents`: falls, the newest kept, quotes of one life, OOM kills |
| `CSP` | operators only: policies, what governs, how the hop relaxes them, what a browser allows |
| `Transcript` | operators only: the window of an Exchange and how its lines are cut |
| `Exchanges` / `MCExchanges` | the Inspection hop, its store, Traefik's log and the reader of both |
| `ExchangesProofs` | the policies of `CSP` and every safety property of `Exchanges` |
| `Settings` | operators only: what the configuration means for peer sharing |
| `Lifecycle` / `MCLifecycle` | the CLI's commands, step by step, over disk, host and Docker |
| `LifecycleProofs` | every safety property of `Lifecycle` that the code keeps: uninstall, install, material, Remedies |

`RouteTable`, `HostClaims` and `Watcher` extend `Routing`, so the decisions they
reason about are one text; `Incidents` extends it for which containers are observed.
`Exchanges` composes `CSP` and `Transcript`, `Lifecycle` uses `Settings`. `Certs` is separate: the certificate half of a pass
depends on the routes only through their safe names, hosts and share flags, and
interacts with the rest of the pass through nothing else.

### Routing

A container is a record of what the label parsers yield, never label text: hosts
are label sequences with a flag for the configured TLD, names are integers in
the order of the container names, Docker's answer to an inspect is a Boolean.
`classify` follows the three branches of the code (native, TCP, HTTP), including
the withheld route of an ambiguous port, and `resolveBackendPort` yields at most
one port. `replicaKey` stands for the rendered router with the backend's identity
taken out, so it holds exactly the fields `renderRouter` renders. `survivors` is
the *declarative* reading of the claim loop: a group keeps a host that no native
rule matches and on which it precedes every other claimant. `HostClaims` shows
that the loop agrees. `routesOf` is a second reader of the same listing and is
modelled separately, since the code computes it separately.

### RouteTable

One state is one listing. Containers of a catalogue start and stop, their
healthchecks move, and `ContainerInspect` begins or stops answering for those that
need it. At most one container runs per name. The properties quantify over
`Kept` (the watcher's routers) and `Rows` (the status rows) of the current
listing; `StopMovesOnlyItsOwnHosts` compares a step's two listings.

### HostClaims

`left` is the part of the current round's loop still to come, `claimed` the map
of the code with its path-scoped key, `survived` and `losses` the two results.
`Pass` skips a native group, `Visit` is one iteration of the inner loop over a
group's hosts, `NextRound` goes from declared to generated hosts.

### Watcher

`pc` names where the process is; one pass is `List`, `SyncNetworks`, one
`WriteRouter` per file, `RemoveStaleRouters`, `WriteInventory`. What the pass read
is kept in `pass`, so every later step works from a listing that may be out of
date: users may start, stop and health-check containers, and stack containers may
be recreated as a new incarnation (`id`), between any two steps. Without a
running Traefik the pass goes straight to the inventory, as the code does. Each
step can fail (`Fault`), the process can be killed at any point, the event stream
can break, and the stack can be told to stop, which also ends the stream: `Done`
and `StreamError` then race as the two ready cases of `select` do. The file
operations of one step happen one at a time (`WriteRouter`) where an observer could
tell; connects and disconnects of one `syncNetworks`, and the removals of one
sweep, are one step with at most one of them failing. An error of
`ContainerList` leaves everything as it was. `dirty` is a history variable: the
last pass did not do all it meant to.

### Certs

A *slot* is one certificate and key: the default, a route's leaf, a shared
route's peer leaf. A file is abstracted to which generated pair it is half of,
the names and the signer; so a certificate and a key that do not belong together
are distinguishable. A pass goes through the slots in the order of the code:
`Skip` when the cache and the disk agree, otherwise `WriteCrt` then `WriteKey`,
each of which may fail; then `WriteTLSConfig`, then `RemoveStale`. The CA is read at
`Boot`, the intermediate at `Begin`: changes to them are therefore placed between
passes, where a change during one would have the same effect. A kill is
possible anywhere and loses the cache; files can be lost between passes.
`fresh`, `failed` and `passFailed` are history variables used by properties only.

### Incidents

Docker's side (`life`, `starts`, `now`) changes and puts events in `queue`; the
watcher subscribes, passes, and hands one deliverable event at a time to
`NoteIncident`. An event may be overtaken by another container's less than `Skew`
apart, delivered twice, or lost with a broken stream. `Pass` and `List` are what reads
Docker *as it is*: a pass calls `SawHealthy` with it, which is why the order of the two
sources matters. `Observe` is one operator per event kind over `healthy`, `oom` and
`held`; `record` appends, sorts by time, cuts to `PerService` and drops what is too
old. `observed` is history. `QuotedStarts` is the window of the Transcript of an
Incident, seen through the line each container writes as it starts.

### Exchanges

A request is `Receive` (the Exchange is added before any answer), then the backend's
answer (`InjectAgent`, `PassThrough` or `BadGateway`, for `modifyResponse` and the
`ErrorHandler`), then `Finish` or `Abort`. `flight` is what `ServeHTTP` holds on
its stack: the state `modifyResponse` writes through a pointer and what really went out
(`sent`), which are not the same. `Ingest` may come at any time after a page was
sent. Every change of the store ends in `Evicted`, as in the code, with `used` kept by
differences rather than computed. `HopStops` loses everything but Traefik's log. The
second part of the module is the reader: `Select` in the store, `Access` over the
log, `Merge`, and the last narrowing of the CLI, then `Quoted`.

A policy is a function from its directives to their sources, so `governing` is the
fallback chain and `reconcileCSP` what the hop sends instead. `Loads` and
`Connects` are the browser's side (external). In `Transcript` a line is its instant and
length, and the incarnation it is of. `Second` ticks make a second, which is the grace of a
window and all that a container listing tells of a creation: `Created` is the beginning of the
second, so `quote` compares an instant with a whole second, as the code does.

### Lifecycle

`disk` is the state home (configuration, CA pair, intermediate, stack files, peer
material), `host` the resolver drop-ins and trust stores, `services` and `peers` what
Docker runs and what it was created *from*. A command starts by deciding its program
(`cmd.todo`), from the same early returns as the code; then `Perform` does the next
step, `Fail` fails it (install's host steps are then reverted, best-effort steps
passed over, other commands end), `Kill` ends the command at once, `Refuse` is a
team root that no longer passes when it is judged again before it is anchored. Steps that are not atomic in the code have partial
effects in `Fail` and `Kill` (a CA's two files, a `compose up` that got as far as
some services). Between and during commands the environment moves: `restartPeerServices`,
the mesh, a reboot, a stopped service, a replaced team root file, an upgraded CLI.
`torn`, `cmd.before` and `cmd.failing` are history; the last is what doctor would have
reported failing as the command started.

`Remedies` names, for each of ten checks of doctor, the command doctor prescribes; `Holds` is
what the check asks and `Needs` its prerequisites. A check that reads version or image reads
the container Docker lists `first`. Whether a watcher publishes Incidents is a matter
of the image it was created from (`IncidentAPI` is the first version that does); whether
the peer relay answers, of the services, the address and what they were created with.
Three checks that prescribe a proximo command are left out: `access-log` (section 6),
`peer-intermediate`, whose `config csr` only begins a ceremony completed on another machine,
and `agent-skill`, about files nothing else reads. The others prescribe no proximo
command.

## 3. Runs

| Run | States | Shows |
|---|---|---|
| `RouteTable` | 1,728 | the nine properties below, over every listing of two catalogues |
| `HostClaims` | 1,454 | `IInv` is an invariant of the loop; the loop agrees with `survivors` and `CollisionsOf` |
| `Watcher` | 126,127 | four safety and two liveness properties |
| `Certs` | 5.0 million | five invariants |
| `Incidents` | 3.4 million | five invariants |
| `Exchanges` | 488,584 | six invariants |
| `Lifecycle` | 2.2 million | five invariants, one liveness property |
| `RouteTableNativeReplica`, `RouteTableDashboard`, `CertsLeafKey`, `ExchangesFailures`, `LifecycleRollback` | - | five disagreements between the code and its documentation (section 6) |

**RouteTable.** `UniqueRouters`: no two proximo routers contest a host under one
path. `NativeServesAlone`: a host of a `traefik.*` rule has no proximo router.
`DeclaredBeatsGenerated`: a name proximo made up never displaces one somebody
wrote. `CollisionCostsOnlyBareHost`: two projects wanting one host both keep their
qualified names. `EveryClaimReported`: each declared host of a published
container is a row, served or lost to a claimant that does answer on it.
`InventoryMatchesRouters`: the names the rows say are answered are those the
routers and native rules answer. `DistinctFiles`: no two routes share a file, nor
take the dashboard's. `StopMovesOnlyItsOwnHosts`: stopping a container takes
nothing from a route it was no backend of. Two catalogues are used, one for
collisions between and inside projects, replicas, generated names, TCP, paths,
ambiguous ports and file-name clashes, and one for native rules, opt-outs and
observed containers. Each allows up to four or five containers at once, which is
enough for a replica pair, a third and a fourth claimant and one with a path or
port variant; the properties relate at most three routes.

**Watcher.** `StackNetworkKept`: nothing takes Traefik or the hop off the stack's
own network. `ReachBeforeRouter`: when a pass without failures has its routers in
place, Traefik is on the network of every backend in them. `InventoryMatchesFiles`:
between passes without failures the two outputs of a pass agree, even if
Docker's answers changed inside it: the names a router answers are listed, and the
names listed beyond those are native rules'. `Convergence`: once the watcher is left
running, the files and attachments become and stay what the running containers ask
for, whatever failed before (changes and faults are bounded, so every behaviour
has a quiet suffix). `Quiesces`: the events that the watcher's own connects and
disconnects cause die out. Bounds: two containers contesting a host, one of
which is inspected and needs `ContainerInspect`, the other health-gated;
`MaxChanges = 2` changes, `MaxFaults = 1` failure, break or kill;
`MaxBacklog = 2` queued events, beyond which further ones are only more of the same
wake-up. Two changes let one fall inside a pass and one after it, or recreate a
stack container inside a pass.

**Certs.** `NoDanglingReference`: everything `proximo-tls.yml` names exists at
*every* step while no operation has failed since the last clean pass, wherever a
kill falls. `DefaultIsOurs`: a default pair of an earlier process, perhaps of a
replaced CA, is never listed. `PeerLeafCurrent`: a listed peer leaf names what the
route serves and is signed by the current intermediate, whatever failed.
`LeafMatchesRoute`: after a pass without failures each route has a matching pair
for exactly its hosts under the loaded CA. Bounds: the dashboard's route and one
that comes, goes, changes its hosts, is shared or not; two CAs and two
intermediates; two faults, which is what it takes to fail in one pass and
lose a file or fail again in a later one. This run excludes one failure, of the key of a route's
own leaf (`LeafKeyFails = FALSE`); `CertsLeafKey` includes it.

**Incidents.** `NewestKept`: whatever order events came in and however often, each
service's store is its newest `PerService` Incidents that are not too old, once each, in
order. `FallsReported`: a check that stopped passing is an Incident whenever a listing
saw it pass. `OOMExplained`: an exit is called an OOM kill exactly when an oom of its
container came within the window and explains no other failure. `QuotesOneLife`: a
Transcript stays within the life that ended, however few rows are listed. Bounds: two
replicas of one service (one with a healthcheck, one without), `PerService = 2` so that the cap bites at the third
Incident, `MaxChanges = 4` so that one container can fail twice while another has an
event to swap with, `MaxFaults = 1` duplicate, break or restart, a queue of 2, and an age
and an OOM window that time passes within the run.

**Exchanges.** `Accounted`: the byte count is the sum of what is held, over the budget
only for one Exchange alone, and the newest is as new as any open request.
`HalvesJoined`: a held Exchange has every report taken for it and exactly the outcome its
request had, in either order. `RecentReportListed`: three narrowings in a row (the hop's,
the merge, the CLI's) list a page that reported in the window exactly once.
`TranscriptFaithful`: a quote never is of a container that took the name a second or more
after the request; if the container was there already, the quote is of it and goes from the first
to the last line of the window; what it leaves out is counted. (Within the second the code
may quote the wrong container, section 6: a second is two ticks here, so that a recreation can
fall within the second of a request and beyond it.) `AgentAdmitted`: each page
sent admits the agent under all its policies. Bounds: three requests, two reports, one
fault; a budget of two bare Exchanges and a report, so that Add, Attach and a Snapshot
each evict, one report per Exchange before suppression, and six headers, one for each
way `reconcileCSP` branches. `FailuresListed` is apart: the code violates it.

**Lifecycle.** `UninstallRestores`: after an uninstall that passed nothing over, nothing
of proximo is left, for every TLD ever configured, whatever was killed or failed
before. `InstallServes`: after such an install, resolver, stores, stack copy, services
and recorded team root agree. `MaterialOfConfig`: at rest the peer material is what the
configuration and the intermediate call for, whichever command changed either.
`RemedyCures`: the command doctor names for a failing check makes the check pass, for every
check that failed as the command started, if it is `InReach`: the address of the peer services is
held, and `incidents` failed beside a check of version or image (section 6 has the case without).
`PeerServicesStart`: peer services whose address stays held run in the end. Bounds: any
three commands and one failure, kill, reboot or lost service, from three starts (a
fresh host, an installed one, one that shares); two TLDs (one with a suffix under it), two
machine labels, one suffix, one address, a good and a badly scoped root, one
upgrade, which brings the Incident API (`IncidentAPI = 2`), so that an old watcher beside a new
DNS server is a state. Three commands are what it takes to change a value, change it back or
uninstall, and check a Remedy after a fault. Two commands with two faults (969,050 states) were run as well and hold.

Deadlock is not checked where the system may really stop: `HostClaims` ends,
`Watcher` may be stopped with its bounds used up, in `Certs` a watcher without a
CA certifies nothing, and `Exchanges` and `Lifecycle` use up their requests and
commands. `RouteTable` and `Incidents` check it.

Each property of a passing run has a mutant in `PROJECT.json`: a plausible slip
in one definition (kept beside the definition, marked "Slip"), under which the
property fails in the same run.

## 4. Fairness

`Watcher` and `Lifecycle` state liveness. `FairSpec` of `Watcher` assumes:

- weak fairness of the process's own steps: a goroutine that can run does;
- weak fairness of `Ticker`: a `time.Ticker` keeps firing while the loop idles;
- strong fairness of `Event`, `StreamError` and `Done`: Go's `select` picks
  uniformly among its ready cases, so a case that is ready again and again is
  eventually taken although the ticker may be ready each time too;
- weak fairness of `Restart` after a kill: the compose file's restart policy.

Nothing is assumed of users, of Docker's events, or of whoever stops the stack.
`Convergence` is conditional on the watcher not being stopped for good.

`Lifecycle` assumes weak fairness of `restartPeerServices` alone: the watcher calls it at
the end of each pass, and the 30 s ticker makes passes without any event. Nothing is
assumed of commands; `PeerServicesStart` is conditional on the services, the watcher
and the address being there from some point on.

## 5. Theorems

Proved by TLAPS for every value of the constants satisfying the named assumption
of the module.

- `LoopInvariant` and `LoopCorrect` (`HostClaimsProofs`), from
  `HostClaimsAssumption`: group names are integers and distinct. `LoopDecides` alone is
  not inductive: it says nothing before the end. `IInv` adds that groups are
  taken in name order, that each entry of `claimed` belongs to a group ahead of
  every claimant the loop has reached, that every reached host is held
  unless a native rule has it, and that `survived` and `claimed` agree. One lemma
  per action preserves it; `ReachedBefore` is the core: whoever was reached for
  a host before the current group precedes it. At the end everything is
  reached, and `IInv` is the declarative `survivors`.
  `LossesCorrect` adds `LossInv`: each host of each group that was reached and not held
  is among the losses with the claimant that holds it, and nothing else is. It uses
  that the claimed key is path-scoped and that a holder is never displaced.
- `ListingTyped` and the theorems of the eight other properties of `RouteTable`
  (`RouteTableProofs`), from `RouteTableAssumption` (names are integers, distinct from the
  dashboard's and Traefik's) and `DashboardAssumption` (the dashboard's host is one label
  under the TLD, as the code builds it). A listing is `Listable` throughout: typed,
  finite, with one container per name. Everything else is about one listing, in
  `RoutingProofs`: the groups have distinct names and each is made from the first of its
  replicas by name, who exists because the listing is finite (`FirstAndLast`, by
  induction on its size without an operator argument: a least counterexample); of two
  claimants of one host and path just one precedes the other (`KeptDisjoint`); among
  finitely many claimants one precedes all others, so a loss always has an owner that
  holds the host; and a file name that is shared or reserved gets the
  container's name appended, which no other has. Three theorems have a condition, each a case in
  which the code does otherwise:
  - `NativeRulesServeAlone` and `StopsAreLocal` need `RulesOnFirst`, since a merge loses the
    native rules of later replicas (`RouteTableNativeReplica` shows it);
  - `DeclaredHostsWin` and `StopsAreLocal` need `DeclaredOnFirst`, since a merge also loses
    that a later replica *declared* a host the first one only generated (section 6);
  - `RowsTellTheRouters` needs `DashboardUncontested` (`RouteTableDashboard` shows it).
- `StackNetworkNeverLost` (`WatcherProofs`): from `Attached`, which adds the
  function shape of `id` and `attached` to `StackNetworkKept`. Only `SyncNetworks` disconnects,
  and never `StackNet`; `StackUp` attaches a new incarnation to it.
- `WatcherTyped`, `BackendsReachedFirst`, `FilesTellOneStory` (`WatcherProofs`), from
  `WatcherAssumption` (containers are records with the fields a listing reads, named apart,
  finitely many) and `DashboardAssumption`. `Knowing` relates a pass to the present: an
  incarnation it read is not newer than the changes counted, so an id that still matches is
  the container it read. `Reaching` says, for each place of the pass, which networks a
  container that still has that id is on: all it was to be connected to, once
  `SyncNetworks` was done without a failure, since nothing but the watcher's own
  steps detaches a live container. A router file is of a route the pass decided on, so
  its backend's networks are among those. `Filing` says that the files and the
  rows still to be written come from one decision (`Written`, `Told`), which is what
  makes it irrelevant that Docker's answers change in the meantime. That the two outputs
  of one decision agree is `RowsMatch` of `RoutingProofs`; it needs
  `DashboardUncontested`, here of the catalogue. The two liveness
  properties stay with TLC.
- `FallsAlwaysReported` (`IncidentsProofs`), from `IncidentsAssumption`. `FallsReported` is
  about events already handled. The invariant adds, of events still queued, that those of
  one container come in the order they happened (`Queued`); of a container a listing saw
  healthy, that its id is remembered or an event that explains why not is
  still to come (`Sighted`); and of a fall in the queue that was sighted, that by the
  time it is delivered the id is remembered or the same event was observed before
  (`FallsAwaited`). The point is that replays and overtaking move events only past those of other
  containers, so an older event that makes the store forget a container is always
  handled before the fall.
- `IncidentsTyped`, `NewestAlwaysKept` (`IncidentsProofs`), from `IncidentsAssumption`.
  `NewestKept` is not inductive: it speaks of what is fresh now, and the store has cut
  against earlier clocks. `StoreInv` adds `Timed` (each event known has an instant of its
  own, at which its container does not start, and those of one container are taken in
  order) and, for each service, `Kept`: the store is `Rising` and holds, of what was
  declared and is fresh, each or else `PerService` younger ones (`Holds`). This survives the clock
  (`KeptLater`), a reader (`KeptFresh`) and `record` (`KeptRecord`), and yields the
  property (`KeptNewest`). What `record` leaves is `RecordKept`, in three parts:
  `SortedKept` (the sorted arrangement exists, since there is a place for the new one,
  and has the same members), `FreshKept` (the indices `fresh` keeps have an order,
  `OrderExists`, and it meets each of them, `OrderMeetsAll`)
  and `CapKept`.
- `QuotesOfOneLife`: the failure of the life before, when held, is no later than the
  predecessor `QuoteIncident` finds (`QuotedAfter`), so the start quoted lies between the
  two failures, and two lives next to one another have no start between but one.
- `OOMsExplained`, under the hypothesis `Skew <= 1`. `Remembering` relates `oom` to the
  events handled: what is remembered is an oom no exit answered (`Unanswered`), and an
  oom no exit answered is remembered, or a later one is, or it is `Past`: no exit
  that is queued or will be sent is within the window of it. The hypothesis is used once, in
  `TakenRemembers`: an oom of another container prunes entries older than the window,
  which is harmless when all that it overtook is less than two instants older (section 6).

- `ReconciledAdmits` (`ExchangesProofs`), from `CSPAssumption`: the minted nonce is none of
  the page's, and keywords are not hosts. `WidenAdds` says that widening a policy changes
  neither its directives nor what governs and only adds the one source;
  `RelaxedAdds` composes the two widenings. The case where the page's own nonce is
  reused works only because the header is a single policy.
- `PagesAdmitAgent`, `HalvesMeet`, `StoreAccounted` (`ExchangesProofs`), from
  `ExchangesAssumption` and `CSPAssumption`. `HalvesJoined` is not inductive: a new
  Exchange must find no history under its id, and changing one must change no other.
  `IInv` adds that ids not given out have no history and nothing in flight, that the ids
  held increase and were given out, and what is noted of an open request. The argument has
  four parts: `Total` of a store that is appended to, changed in one place or cut in two
  (`TotalAppend`, `TotalExcept`, `TotalSplit`); eviction leaves a non-empty suffix and the
  count of it (`EvictedSuffix`); a suffix, an appended or a changed Exchange keep what is
  held `Sound`; one lemma per action. `Keeps` is what a step of the store must
  show, so that `Complete` and both branches of `Attach` share one argument. `Total` is a
  fold that takes elements in whatever order CHOOSE has. `FoldAdds`
  shows that the order is immaterial. It uses induction over the size of a subset, which
  the provers take as a set of naturals that has 0 and every successor (`SetInduction`),
  and `RecursiveExists`, that the function the fold is defined by exists at all.
- `TypesCorrect`, `ReportsListed`, `TranscriptsFaithful` (`ExchangesProofs`) add three
  invariants. `Bounded`: times are within the clock and the hop has a request once.
  `Apart`: a record of Traefik's log is the hop's, which `Merge` drops, or has an id that
  is not in the store, so nothing is listed twice. `Written`: the container that has a name
  has the lines it wrote itself, since recreating takes the output along. That a transcript
  is true to its lines is `CutCounts`, from what `take` and `takeBack` leave of any
  sequence; that the window of a sequence of lines has exactly the lines in it, in their order,
  is `LinesInWindow`, about the fold of `readLogs`: it is the `Selection` of the lines whose
  instant is in the window. That no later container is quoted needs `TranscriptAssumption` and
  `SecondBegins`: a second begins less than a second before any instant in it.

- `CertsTyped`, `ListedExists`, `DefaultOfThisCA`, `PeerLeavesCurrent`, `RoutesCertified`
  (`CertsProofs`), from `CertsAssumption`: the routes' safe names are distinct. None of
  the properties is inductive: they speak of the end of a pass and of clean passes. `IInv`
  adds what holds in between: the cache tells the truth of every pair but the one whose
  key is being written and a peer leaf that failed in this pass (`CacheTrue`,
  `Missed`); what is placed is on disk and up to date; what a written `proximo-tls.yml`
  lists of the default and the peer leaves is placed; a pass without failure has missed
  nothing. The default stays truthful only because the cache forgets it before it is
  issued again (`KeyNext`), which is what a route's own leaf lacks: `RoutesCertified`
  needs `~LeafKeyFails`, the others do not.

- `LifecycleTyped`, `MaterialFollowsConfig`, `UninstallRestoresHost`, `InstallsServe`, `RemediesCure`
  (`LifecycleProofs`), from `SettingsAssumption` (the default TLD is one of the TLDs, there is
  a machine label, the empty string is no value) and `LifecycleAssumption` (the bounds).
  Any configuration values, any number of commands, faults and upgrades. All five follow
  from `LifecycleInvariant`: `IInv` is `Typed`, `Scripted` and `Coherent`. None of the
  properties is inductive: they speak of commands that are over, and say nothing of
  how a command gets there or what it starts from.
  - `Scripted`: what is left of a program is in one fixed order (`Rank`), holds every step
    the command must still take (`Must`), and each step that changes what the peer material
    is made from is followed by the copy (`Followed`). It makes a program a set of
    steps (`Ahead`): that a step is being taken means that those of a lower rank are not
    ahead and those of a higher rank are. `InstallProgram`, `TLDProgram` and their like
    show it of each command as it starts, `Advance` and `RollbackSteps` keep it.
  - `NextMoves` then reduces a step of the system to three kinds: a command starts
    (`Launches`), a step is done, passed over, ends the command or is where it is killed
    (`Progress`, with a frame of what each step may touch), or neither (`Wanders`). Each
    part of the invariant has one lemma for each kind.
  - `Decided` and `OneResolver` carry `UninstallRestores` over TLD changes: what a command
    read is what is saved, and the saved TLD changes only while no drop-in is there.
    That holds because `config tld` removes before it saves; an interrupted one leaves
    no drop-in or one of the TLD saved, never one that nobody knows of.
  - `Composed`: containers do not outlive the files they are declared in, or `ComposeDown`
    would skip them. `Uninstalling` needs it, and it needs `Uninstalling`, since
    `RemoveHome` takes the files away.
  - `Trusting`, `Serving`, `Converging`, `Uninstalling` say, step by step, what holds once
    the step is no longer ahead and the command has not failed. The CA is the
    delicate part: stores, stack copy and watcher agree with it because `EnsureCA` precedes
    them all and nothing after it makes another.
  - `InStep`: the material is wanted, or its copy is next, or `torn`. A configuration
    saved by install, trust or config tld cannot change what is wanted, since it `Agrees` with the one
    saved (`WantedAgrees`); that wanted material names the machine of its intermediate is
    `WantedLoads`.
  - `RemediesCure` is about all checks that failed as the command started, a history the steps
    do not change. A Remedy that converges makes both services anew from what it has just
    written, so each of its checks holds whichever container is listed first. `update` may also do nothing;
    not when doctor found version or image astray (`Skew`), since both look at the
    container listed first, and that is what `InReach` asks for `incidents`.

Only model-checked, and why:

- the three liveness properties: liveness under fairness and ENABLED are out of the
  prover's reach;
- `RollbackRestores` of `Lifecycle`, which the code does not keep (section 6).

No proved module declares a RECURSIVE operator.

## 6. What the models disagree with

- `RouteTableNativeReplica`. When two replicas merge, only the first one's fields
  survive, and `replicaKey` does not see native rules. A `traefik.*` rule carried by any
  replica but the first by name is therefore never seen by the claim loop, and proximo
  keeps a router on a host that Traefik's Docker provider serves. `docs/routing.md`
  and the comment above `nativeRule` say proximo withdraws.
- `RouteTableDashboard`. The watcher resolves the dashboard's route with the users'
  routes; the status rows resolve the users' alone. A container claiming
  `traefik.<tld>` makes the rows disagree with the routers, against the comment
  "so status lists exactly what is served" and against `docs/cli.md`.
- `CertsLeafKey`. When a route's certificate is replaced and its key then cannot
  be written, `lastHosts` still holds the earlier host set. If that set comes
  back, the mismatched or outdated pair counts as up to date. The default
  certificate avoids this by forgetting first.

- `ExchangesFailures`. The `ErrorHandler` writes 502 to the client and not to the state
  that is completed, so the Exchange has status 0 (or 200 when a page broke
  off), and `Merge` drops Traefik's copy, which had the 502. `proximo errors` then lists
  nothing, against its own help text.
- `LifecycleRollback`. An install on a host that already has a CA, whose resolver step
  fails, reverts by purging that CA, although the comment of `applySteps` says
  that the host is left in its pre-install state.

Read in the code and not run as violations:

- A merge of replicas also loses which hosts a later replica declared. `replicaKey` does
  not see that the first replica by name only generated `api.shop.test` while another one
  declares it, so the merged group holds it as generated, and another service of the
  project that comes before it by name and generated the same host keeps it.
  `docs/routing.md` (lines 127-128) says of a declared host that it "wins: proximo withdraws
  its own generated name". Found by the proof of `DeclaredBeatsGenerated`, which
  fails without `DeclaredOnFirst`; a catalogue of three containers (services `web` and
  `api` of `shop` declaring `api.test`, a second replica of `api` declaring
  `api.shop.test` too, `web` first by name) shows it in TLC.
- A hop that is down, was restarted or has evicted an Exchange loses the row too, since
  Traefik's copy is dropped as the hop's own; the comment at `errors.go:564` says only
  Client reports are lost.
- A nonce added to a policy with `'unsafe-inline'` makes browsers ignore the latter,
  which can break the page's own inline scripts.
- An oom event prunes the entries of the other containers that are older than
  `oomWindow`, by its own time. When it overtakes an exit of another container by more
  than that exit has left of its window, the oom which explains the exit is gone and the
  exit is not called an OOM kill. Found by the proof of `OOMExplained`, which fails
  without `Skew <= 1`; TLC shows it with `Skew = 2` and `MaxChanges = 5`.
- A clean exit leaves the container's oom entry, so another life that fails within the
  window is called an OOM kill. The oldest Incident held has no predecessor, so its
  quote reaches into earlier lives. A starting-to-unhealthy event behind a
  listing that already shows the container healthy is declared an Incident, which the comment
  at `incident.go:203` does not intend.
- The Remedy of `incidents` may not cure. `StackStatus` reads version and image of the first
  container Docker lists. After an upgrade, an `update` cut in the middle of its `compose up` can leave
  a new DNS server and the old watcher. If the new container is the one listed first, `stack-version` and
  `stack-image` pass, `incidents` fails, and the `proximo update` it names (`registry.go:178`)
  answers that everything is up to date and does nothing (`update.go:67`).
  `RemedyCures` fails on this in TLC, after two commands and an upgrade, when
  `InReach` drops its second line; `proximo up` or `update --force` cures it.
- A container recreated within the second of a request it did not serve can be quoted as the one
  that did: a listing has the second of a creation only, and that second began no later than the
  request (`read.go:228`). The comment there holds the case to be none ("a restart apart, not
  a second"); the one of `quote` says that it never quotes "another container's
  output". `TranscriptFaithful` speaks of containers a second or more younger; the
  stronger property fails in TLC.
- The check `access-log` asks what the running Traefik records and reads the mounted file
  for it, which is a file on the host that `Materialize` overwrites. After a converge that is cut
  before `compose up` the check passes for a Traefik that was started from the earlier file, against the
  comment of `StackRecordsAccessLog` ("rather than the copy this CLI would materialize").
- The team root is anchored before `Converge` and recorded after it; a failure between
  leaves an anchor that uninstall has no record of. A failed untrust is only a
  warning, and the record then goes with the state home.
- `EnsureCA` and the purge write or remove two files; two cuts can leave a certificate
  and a key of different pairs. A kill between `Materialize` and `AppendPeers`, followed
  by an unset, leaves peer services no compose file declares.
- `config tld` repeated after a failure says that there is nothing to change (doctor's
  Remedies cure the host all the same). `config peer-suffix` refuses a suffix under the
  TLD; `config tld` does not check the converse. A changed team root does not
  invalidate an intermediate of the old one.

- A failed write of `proximo-tls.yml` does not stop the sweeps, which then remove
  files the old one names (the comment of `removeStaleCerts` excludes it).
- On cancellation the stream ends too, and the error branch of `Run` returns
  without emptying the inventory.
- A route whose first certificate cannot be written is listed in
  `proximo-tls.yml` all the same; `NoDanglingReference` is stated for passes without
  failures because of it.
- Certificates are never renewed before they expire (397 days).

The exclusions made because of findings are explicit: the catalogues of
`RouteTable` hold no replica with a native rule, no claim on `traefik.<tld>`
(those are `NativeReplicas` and `DashboardClaimants`) and no three services in which a
merge hides a declaration, `Certs` excludes the leaf's key failure, `TranscriptFaithful`
leaves out containers recreated within the second of a request, and `RemedyCures` asks that a failing
`incidents` be `InReach` of `update`.

## 7. What is left out of the modelled parts

Label text and its parsing, YAML rendering, log lines and note wording; X.509 content
beyond names and signer; expiry; basic-auth hashing (`materializeAuth`); temporary files
of `atomicWrite`, whose rename is what makes a replacement one step; peer names as
strings (a peer leaf is compared by the hosts it stands for). `restartPeerServices` and
`noteIncident` share the watcher's loop but touch neither its files nor its
attachments; they are in `Lifecycle` and `Incidents`.

Incidents: readings and wording; containers restart and are not created again under their name,
so `QuoteIncident`'s check of the creation has nothing to decide. Exchanges: HTML and gzip rewriting, decoding of
reports, the warnings keyed by host, the names of a silent Transcript, TTY framing;
sizes are in units of 256 bytes.

Lifecycle: one command runs at a time; the Docker-unreachable branches of `update`,
`update --image`, the observability profile, skill refresh, image purge, the inventory
that `down` empties, `mesh-remedy` and the macOS variants. Preflight is one refusal. Two core
services stand for all, the two peer services are one, and every NSS database is one.
The first container Docker lists is the same for doctor and for the command it names. A
copy that is cut inside one file leaves the old file. The checks `access-log`,
`peer-intermediate` and `agent-skill` are left out (section 2).

The watcher reads the peer material in one step of `Certs`, and the CLI copies it in another
module: a pass that reads in the middle of a copy, which is not atomic across its files, is not
modelled.

Not modelled at all: the observability hub's bootstrap (a linear conversation repeated
from its start), the skill generator (it writes files nothing else reads), the pumps of
the peer relay (connections share nothing), the DNS server's handlers (a function
of one query), peer names (string derivation with table tests), X.509 content
and expiry.

## 8. Plan

The state machines of the system are modelled; what is left, in this order:

1. `Lifecycle` with two commands at once, which the code does not exclude: `Scripted` and
   the frame of each step would carry over, `Decided` would not.
2. `Incidents` with the CLI's limits on age and count as separate readers.
3. An abstract specification of what a host promises between commands, and `Lifecycle`
   shown to implement it from `IInv`.

## 9. Running

    tlc -workers 2 -config RouteTable.cfg MCRouteTable.tla
    tlc -workers 2 -config Watcher.cfg MCWatcher.tla
    tlc -workers 2 -config Lifecycle.cfg MCLifecycle.tla
    tlapm ExchangesProofs.tla
    tlapm HostClaimsProofs.tla
    tlapm LifecycleProofs.tla
    tlapm RoutingProofs.tla

`PROJECT.json` maps each definition to the lines it models.
