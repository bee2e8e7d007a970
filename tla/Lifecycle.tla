------------------------------ MODULE Lifecycle ------------------------------
(***************************************************************************)
(* The commands that change this host (internal/cli): install, uninstall,   *)
(* up, down, update, trust and config, one at a time, each a program of      *)
(* steps that may fail or be interrupted anywhere, over what they leave      *)
(* behind: the state home, the host's resolver and trust stores, and the     *)
(* stack Docker runs (internal/docker/stack.go, peerdns.go).                 *)
(*                                                                          *)
(* The host is Linux: one drop-in per TLD, one file per trust anchor.  Docker *)
(* Compose and the mesh are external.  Of the core services two are kept:    *)
(* the watcher, which loads the CA at start, and dns for all the others.     *)
(***************************************************************************)
EXTENDS Settings, FiniteSetsExt, SequencesExt

CONSTANTS
  IncidentAPI,                        \* the version whose watcher is the first to publish Incidents
  MaxCommands, MaxFaults, MaxVersion  \* bounds on commands, faults and CLI upgrades

ASSUME LifecycleAssumption ==
  {IncidentAPI, MaxCommands, MaxFaults} \subseteq Nat /\ MaxVersion \in Nat \ {0}

Core == {"dns", "watcher"}

VARIABLES
  disk,      \* the state home, ~/.proximo
  host,      \* resolver drop-ins and trust anchors
  services,  \* core containers: service -> what it was created from, or none
  peers,     \* the peer services' containers
  mesh,      \* addresses some interface holds
  rootFile,  \* what the team root file contains
  cli,       \* the version of the CLI installed
  cmd,       \* the command running, or the last one
  torn,      \* history: a command stopped short since peer material was last copied
  faults, commands

machine == <<disk, host, services, peers>>
vars == <<machine, mesh, rootFile, cli, cmd, torn, faults, commands>>

\* What a CLI pins its stack to, and an override (--image, or a local build), which
\* may be as old as any; the second part is the version of what runs in it.
CanonicalImage(v) == <<"pinned", v>>
Override          == <<"override", 0>>

NoFiles   == [written |-> FALSE, peers |-> <<>>]   \* docker-compose.yml
NoEnv     == [tld |-> "", image |-> <<"", 0>>, version |-> 0]
EmptyHome == [config |-> Default, ca |-> [cert |-> 0, key |-> 0], mkey |-> FALSE, int |-> NoIntermediate,
              compose |-> NoFiles, env |-> NoEnv, caCopy |-> 0, material |-> NoMaterial]
CleanHost == [resolvers |-> {}, system |-> 0, nss |-> 0, root |-> ""]
Absent    == [env |-> NoEnv, ca |-> 0]
PeerSpec(cfg) == <<cfg.machine, cfg.suffix, cfg.address>>
NoPeers   == [state |-> "absent", spec |-> <<>>]

\* cfg, tld, image and int are what the command holds in memory, todo the steps it
\* has left, undoing that they revert a failed install; skipped says that a step
\* was passed over with a warning.  History: before, what it found, and failing,
\* the checks doctor would have failed.
Idle == [name |-> "", cfg |-> Default, tld |-> DefaultTLD, image |-> <<"", 0>>, int |-> NoIntermediate, todo |-> <<>>,
         undoing |-> FALSE, ok |-> TRUE, skipped |-> FALSE, failing |-> {},
         before |-> [ca |-> EmptyHome.ca, host |-> CleanHost, watcher |-> Absent]]

Busy      == cmd.todo # <<>>
Doing(op) == Busy /\ Head(cmd.todo) = op
Up        == {c \in Core : services[c] # Absent}

-----------------------------------------------------------------------------
(***************************************************************************)
(* What `proximo doctor` reports (internal/checks), of the checks that name  *)
(* one of these commands as the Remedy.  StackStatus takes version and image   *)
(* from the first container Docker lists.                                    *)
(*                                                                          *)
(* Three checks that name a proximo command are left out: access-log, which   *)
(* reads a file every converge writes first; peer-intermediate, whose `config *)
(* csr` begins a ceremony that is completed on another machine; agent-skill.  *)
(***************************************************************************)
Remedies == [installed |-> "install", trust_system |-> "trust", trust_nss |-> "trust", stack |-> "up",
             stack_version |-> "update", stack_image |-> "up", incidents |-> "update", dns_server |-> "up",
             peer_dns |-> "up", peer_relay |-> "up"]

Needs == [c \in DOMAIN Remedies |->
            CASE c \in {"trust_system", "trust_nss"} -> {"installed"}
              [] c \in {"stack_version", "stack_image", "incidents", "dns_server",
                       "peer_dns", "peer_relay"} -> {"stack"}
              [] OTHER -> {}]

PeerDNSAnswers ==
  peerConfigured(disk.config) =>
    peers.state = "running" /\ disk.config.address \in mesh /\ peers.spec = PeerSpec(disk.config)

\* The relay is published on the address and knows neither machine nor suffix.
PeerRelayAnswers ==
  peerConfigured(disk.config) =>
    peers.state = "running" /\ disk.config.address \in mesh /\ peers.spec[3] = disk.config.address

\* A CLI from before the API does not ask for it.
IncidentsPublished == cli >= IncidentAPI => services["watcher"].env.image[2] >= IncidentAPI

\* The statement of each check.
Holds(check, first) ==
  CASE check = "installed"     -> disk.ca.cert # 0 /\ disk.config.tld \in host.resolvers
    [] check = "trust_system"  -> host.system = disk.ca.cert
    [] check = "trust_nss"     -> host.nss = disk.ca.cert
    [] check = "stack"         -> Up = Core
    [] check = "stack_version" -> services[first].env.version = cli
    [] check = "stack_image"   -> services[first].env.image = CanonicalImage(cli)
    [] check = "incidents"     -> IncidentsPublished
    [] check = "dns_server"    -> services["dns"].env.tld = disk.config.tld
    [] check = "peer_dns"      -> PeerDNSAnswers
    [] check = "peer_relay"    -> PeerRelayAnswers

\* Run: a check whose prerequisite does not pass is skipped.
Failures(first) ==
  {c \in DOMAIN Remedies : (\A n \in Needs[c] : Holds(n, first)) /\ ~Holds(c, first)}

-----------------------------------------------------------------------------
(***************************************************************************)
(* The steps.  Each Effect is what the step leaves when it is done.          *)
(***************************************************************************)
NextCA == 1 + Max({disk.ca.cert, disk.ca.key, disk.caCopy, host.system, host.nss, services["watcher"].ca})

OnDisk(d) == disk' = d /\ UNCHANGED <<host, services, peers>>
OnHost(h) == host' = h /\ UNCHANGED <<disk, services, peers>>

\* A service as .env declares it now; the watcher loads the CA it finds.
Created(c) == [env |-> disk.env, ca |-> IF c = "watcher" THEN disk.caCopy ELSE 0]

\* Slip: `docker compose start`, which creates nothing again.
ComposeStart(cs) ==
  /\ services' = [c \in Core |-> IF c \in cs /\ services[c] = Absent THEN Created(c) ELSE services[c]]
  /\ UNCHANGED <<disk, host, peers>>

\* `docker compose up`, got as far as cs: what changed is created again.
ComposeUp(cs) ==
  /\ services' = [c \in Core |-> IF c \in cs /\ services[c].env # disk.env THEN Created(c) ELSE services[c]]
  /\ UNCHANGED <<disk, host, peers>>

\* Compose binds the address or leaves the container created.
StartPeers ==
  IF ~peerConfigured(disk.config) THEN UNCHANGED machine
  ELSE /\ peers' = [spec |-> disk.compose.peers,
                    state |-> IF peers.spec = disk.compose.peers /\ peers.state = "running" THEN "running"
                              ELSE IF disk.compose.peers[3] \in mesh THEN "running" ELSE "created"]
       /\ UNCHANGED <<disk, host, services>>

\* Slip: a CA the stack already holds is left alone.
materializeKept == [disk EXCEPT !.compose = [written |-> TRUE, peers |-> <<>>],
                                !.caCopy = IF @ # 0 THEN @ ELSE disk.ca.cert]

\* The embedded files written over, and copyCA.
materialize == [disk EXCEPT !.compose = [written |-> TRUE, peers |-> <<>>],
                            !.caCopy = IF disk.ca.cert = 0 THEN @ ELSE disk.ca.cert]

CopyPeer(k) ==
  OnDisk(IF disk.compose.written
         THEN [disk EXCEPT !.material = Copied(@, Wanted(disk.config, disk.int), k)] ELSE disk)

EnsureCA ==
  OnDisk(IF disk.ca.cert # 0 /\ disk.ca.key # 0 THEN disk
         ELSE [disk EXCEPT !.ca = [cert |-> NextCA, key |-> NextCA]])
PurgeCA == OnDisk([disk EXCEPT !.ca = [cert |-> 0, key |-> 0]])

ConfigureResolver == OnHost([host EXCEPT !.resolvers = @ \cup {cmd.cfg.tld}])
RemoveResolver    == OnHost([host EXCEPT !.resolvers = @ \ {cmd.tld}])

InstallSystemTrust == OnHost([host EXCEPT !.system = disk.ca.cert])
RemoveSystemTrust  == OnHost([host EXCEPT !.system = 0])
InstallNSSTrust    == OnHost([host EXCEPT !.nss = disk.ca.cert])
RemoveNSSTrust     == OnHost([host EXCEPT !.nss = 0])

TrustTeamRoot   == OnHost(IF cmd.cfg.teamRoot THEN [host EXCEPT !.root = rootFile] ELSE host)
UntrustTeamRoot == OnHost(IF cmd.cfg.trusted = "" THEN host ELSE [host EXCEPT !.root = ""])

SaveConfig      == OnDisk([disk EXCEPT !.config = cmd.cfg])
RemoveHome      == OnDisk(EmptyHome)
MachineKey      == OnDisk([disk EXCEPT !.mkey = TRUE])
SetIntermediate == OnDisk([disk EXCEPT !.int = cmd.int])

writeEnv == OnDisk([disk EXCEPT !.env = [tld |-> cmd.cfg.tld, image |-> cmd.image, version |-> cli]])

appendPeerServices ==
  OnDisk(IF peerConfigured(disk.config) THEN [disk EXCEPT !.compose.peers = PeerSpec(disk.config)] ELSE disk)

\* Peer services that are declared and not configured any more are removed.
RemovePeers ==
  /\ peers' = IF ~peerConfigured(disk.config) /\ disk.compose.peers # <<>> THEN NoPeers ELSE peers
  /\ UNCHANGED <<disk, host, services>>

ComposeDown ==
  /\ services' = IF disk.compose.written THEN [c \in Core |-> Absent] ELSE services
  /\ peers' = IF disk.compose.written THEN NoPeers ELSE peers
  /\ UNCHANGED <<disk, host>>

Effect(op) ==
  \/ op = "EnsureCA"          /\ EnsureCA
  \/ op = "PurgeCA"           /\ PurgeCA
  \/ op = "ConfigureResolver" /\ ConfigureResolver
  \/ op = "RemoveResolver"    /\ RemoveResolver
  \/ op = "InstallSystem"     /\ InstallSystemTrust
  \/ op = "RemoveSystem"      /\ RemoveSystemTrust
  \/ op = "InstallNSS"        /\ InstallNSSTrust
  \/ op = "RemoveNSS"         /\ RemoveNSSTrust
  \/ op = "TrustTeamRoot"     /\ TrustTeamRoot
  \/ op = "UntrustTeamRoot"   /\ UntrustTeamRoot
  \/ op = "SaveConfig"        /\ SaveConfig
  \/ op = "RemoveHome"        /\ RemoveHome
  \/ op = "EnsureKey"         /\ MachineKey
  \/ op = "SetIntermediate"   /\ SetIntermediate
  \/ op = "CopyPeer"          /\ CopyPeer(3)
  \/ op = "Materialize"       /\ OnDisk(materialize)
  \/ op = "WriteEnv"          /\ writeEnv
  \/ op = "AppendPeers"       /\ appendPeerServices
  \/ op = "ComposeUp"         /\ ComposeUp(Core)
  \/ op = "ComposeDown"       /\ ComposeDown
  \/ op = "StartPeers"        /\ StartPeers
  \/ op = "RemovePeers"       /\ RemovePeers

\* trustTeamRoot interrupted: an anchor of another fingerprint is removed first,
\* and forgotten once it is gone.  Pairs of the anchor left and the one recorded.
TeamRootCut ==
  LET old == cmd.cfg.trusted IN
  IF old \in {"", rootFile} THEN {<<host.root, old>>, <<rootFile, old>>}
  ELSE {<<host.root, old>>, <<"", old>>, <<"", "">>, <<rootFile, "">>}

\* What a step that is cut short may leave.
Cut(op) ==
  \/ UNCHANGED machine
  \/ op # "TrustTeamRoot" /\ Effect(op)
  \/ op = "EnsureCA" /\ (disk.ca.cert = 0 \/ disk.ca.key = 0) /\ OnDisk([disk EXCEPT !.ca.cert = NextCA])
  \/ op = "PurgeCA"  /\ OnDisk([disk EXCEPT !.ca.cert = 0])
  \/ op = "CopyPeer" /\ \E k \in 1..2 : CopyPeer(k)
  \/ op = "ComposeUp" /\ \E c \in Core : ComposeUp({c})
  \/ op = "RemoveHome" /\ OnDisk([disk EXCEPT !.config = Default])

-----------------------------------------------------------------------------
(***************************************************************************)
(* A command runs its steps in order.  Some failures are reported and passed *)
(* over; a failed host step of install reverts those before it; any other     *)
(* ends the command.                                                         *)
(***************************************************************************)
HostSteps == <<"EnsureCA", "ConfigureResolver", "InstallSystem", "InstallNSS">>
Reversal  == [EnsureCA |-> "PurgeCA", ConfigureResolver |-> "RemoveResolver",
              InstallSystem |-> "RemoveSystem", InstallNSS |-> "RemoveNSS"]

\* The reversals of the steps before op, last first.
Rollback(op) ==
  LET k == CHOOSE k \in DOMAIN HostSteps : HostSteps[k] = op
  IN  [i \in 1..(k - 1) |-> Reversal[HostSteps[k - i]]]

Swallowed(op) ==
  \/ cmd.undoing
  \/ op \in {"RemovePeers", "StartPeers", "InstallNSS", "RemoveNSS", "UntrustTeamRoot"}
  \/ op = "TrustTeamRoot" /\ cmd.name = "install"

Fatal(op) == ~cmd.undoing /\ op \notin {"RemovePeers", "StartPeers", "RemoveNSS", "UntrustTeamRoot"}
                          /\ ~(op = "TrustTeamRoot" /\ cmd.name = "install")

PassOver == [cmd EXCEPT !.todo = Tail(@), !.skipped = TRUE]

Abort(op) ==
  [cmd EXCEPT !.ok = FALSE,
              !.undoing = (cmd.name = "install" /\ op \in DOMAIN Reversal),
              !.todo = IF cmd.name = "install" /\ op \in DOMAIN Reversal THEN Rollback(op) ELSE <<>>]

\* The team root is judged again before it is trusted.
RootRefused(op) == op = "TrustTeamRoot" /\ cmd.cfg.teamRoot /\ ~ValidateTeamRoot(rootFile, cmd.cfg.suffix)

\* The command stops between what the peer material is made from and its copy.
Behind == torn' = (torn \/ Head(cmd.todo) = "RemoveHome"
                        \/ /\ Head(cmd.todo) \in {"SaveConfig", "SetIntermediate", "Materialize", "CopyPeer"}
                           /\ \E i \in DOMAIN cmd.todo : cmd.todo[i] = "CopyPeer")

Perform ==
  /\ Busy
  /\ LET op == Head(cmd.todo) IN
     /\ ~RootRefused(op)
     /\ Effect(op)
     /\ cmd' = [cmd EXCEPT !.todo = Tail(@),
                           !.cfg.trusted = IF op = "TrustTeamRoot" /\ cmd.cfg.teamRoot THEN rootFile ELSE @,
                           !.skipped = @ \/ (op = "StartPeers" /\ peers'.state = "created")]
     /\ torn' = (torn /\ op # "CopyPeer")
  /\ UNCHANGED <<mesh, rootFile, cli, faults, commands>>

Refuse ==
  /\ Busy
  /\ LET op == Head(cmd.todo) IN
     /\ RootRefused(op)
     /\ cmd' = IF Swallowed(op) THEN PassOver ELSE Abort(op)
  /\ UNCHANGED <<machine, mesh, rootFile, cli, torn, faults, commands>>

Fault == faults < MaxFaults /\ faults' = faults + 1

\* A step fails, having got anywhere.
Fail ==
  /\ Busy /\ Fault
  /\ LET op == Head(cmd.todo) IN
     /\ ~RootRefused(op)
     /\ \E trusted \in {cmd.cfg.trusted, ""} :
          LET record(c) == [c EXCEPT !.cfg.trusted = trusted] IN
          /\ IF op = "TrustTeamRoot" /\ cmd.cfg.teamRoot
             THEN \E cut \in TeamRootCut : cut[2] = trusted /\ OnHost([host EXCEPT !.root = cut[1]])
             ELSE trusted = cmd.cfg.trusted /\ Cut(op)
          /\ \/ Swallowed(op) /\ cmd' = record(PassOver) /\ torn' = torn
             \/ Fatal(op) /\ cmd' = record(Abort(op)) /\ Behind
  /\ UNCHANGED <<mesh, rootFile, cli, commands>>

\* The command is interrupted: nothing is reverted.
Kill ==
  /\ Busy /\ Fault
  /\ IF Doing("TrustTeamRoot") /\ cmd.cfg.teamRoot /\ ~RootRefused("TrustTeamRoot")
     THEN \E cut \in TeamRootCut : OnHost([host EXCEPT !.root = cut[1]])
     ELSE Cut(Head(cmd.todo))
  /\ cmd' = [Idle EXCEPT !.ok = FALSE]
  /\ Behind
  /\ UNCHANGED <<mesh, rootFile, cli, commands>>

-----------------------------------------------------------------------------
(***************************************************************************)
(* The commands, each with its early returns as guards; a refused command     *)
(* changes nothing.  first is the stack container Docker lists first.        *)
(***************************************************************************)
converge == <<"RemovePeers", "Materialize", "CopyPeer", "WriteEnv", "AppendPeers", "ComposeUp", "StartPeers">>

Listed == IF Up = {} THEN Core ELSE Up

Run(name, first, cfg, image, int, todo) ==
  /\ ~Busy /\ commands < MaxCommands
  /\ commands' = commands + 1
  /\ cmd' = [Idle EXCEPT !.name = name, !.cfg = cfg, !.tld = disk.config.tld, !.image = image, !.int = int,
                         !.todo = todo,
                         !.failing = Failures(first),
                         !.before = [ca |-> disk.ca, host |-> host, watcher |-> services["watcher"]]]
  /\ UNCHANGED <<machine, mesh, rootFile, cli, torn, faults>>

\* A command about neither an image nor an intermediate, and one about an intermediate.
Plain(name, cfg, todo) ==
  \E first \in Listed : Run(name, first, cfg, CanonicalImage(cli), NoIntermediate, todo)

Installing(int) ==
  \E first \in Listed :
    Run("config", first, disk.config, CanonicalImage(cli), int, <<"SetIntermediate", "CopyPeer">>)

install ==
  Plain("install", disk.config,
        HostSteps \o (IF disk.config.teamRoot \/ disk.config.trusted # "" THEN <<"TrustTeamRoot">> ELSE <<>>)
                  \o converge \o <<"SaveConfig">>)

uninstall ==
  Plain("uninstall", disk.config,
        <<"ComposeDown">> \o (IF disk.config.teamRoot \/ disk.config.trusted # "" THEN <<"UntrustTeamRoot">> ELSE <<>>)
                          \o <<"RemoveNSS", "RemoveSystem", "RemoveResolver", "PurgeCA", "RemoveHome">>)

\* Under an override the command is not the Remedy doctor names.
up(image) ==
  \E first \in Listed :
    Run(IF image = Override THEN "up_image" ELSE "up", first, disk.config, image, NoIntermediate, converge)

down == Plain("down", disk.config, <<"ComposeDown">>)

\* decideUpdate: nothing to do without a stack, or level with the CLI already.
UpToDate(first, mustConverge) ==
  /\ services[first].env.version = cli /\ services[first].env.image = CanonicalImage(cli)
  /\ ~mustConverge

update(force) ==
  \E first \in Listed :
    Run("update", first, disk.config, CanonicalImage(cli), NoIntermediate,
        IF Up = {} \/ UpToDate(first, force) THEN <<>> ELSE converge)

trust ==
  Plain("trust", disk.config,
        <<"EnsureCA", "InstallSystem", "InstallNSS">>
        \o (IF disk.config.teamRoot THEN <<"TrustTeamRoot", "SaveConfig">> ELSE <<>>))

\* Slip: the new TLD is saved before the old resolver is removed.
configTLDSaved(tld) ==
  Plain("config_tld", [disk.config EXCEPT !.tld = tld],
        IF tld = disk.config.tld THEN <<>>
        ELSE <<"SaveConfig", "RemoveResolver", "ConfigureResolver">> \o converge)

configTLD(tld) ==
  Plain("config_tld", [disk.config EXCEPT !.tld = tld],
        IF tld = disk.config.tld THEN <<>>
        ELSE <<"RemoveResolver", "SaveConfig", "ConfigureResolver">> \o converge)

savePeerValue(name, cfg) == Plain(name, cfg, <<"SaveConfig", "CopyPeer">>)

configMachine(m) == savePeerValue("config", [disk.config EXCEPT !.machine = m])

configSuffix(s) ==
  /\ <<s, disk.config.tld>> \notin Under
  /\ savePeerValue("config", [disk.config EXCEPT !.suffix = s])

configAddress(a) == savePeerValue("config", [disk.config EXCEPT !.address = a])

configTeamRoot ==
  /\ disk.config.suffix # "" /\ ValidateTeamRoot(rootFile, disk.config.suffix)
  /\ savePeerValue("config", [disk.config EXCEPT !.teamRoot = TRUE])

configCSR ==
  /\ requirePeerValues(disk.config, {"machine", "suffix"})
  /\ Plain("config", disk.config, <<"EnsureKey">>)

configIntermediate(int) ==
  /\ requirePeerValues(disk.config, {"machine", "suffix", "team-root"})
  /\ ValidateTeamRoot(rootFile, disk.config.suffix)
  /\ ValidateIntermediate(int, rootFile, disk.config.machine, disk.config.suffix) /\ disk.mkey
  /\ Installing(int)

\* Slip: the whole configuration returns to its zero value.
unsetAll(value) == savePeerValue("config", [Default EXCEPT !.tld = ""])

unset(value) ==
  savePeerValue("config", [disk.config EXCEPT ![value] = IF value = "teamRoot" THEN FALSE ELSE ""])

unsetIntermediate == Installing(NoIntermediate)

Commands ==
  \/ install \/ uninstall \/ down \/ trust
  \/ \E image \in {CanonicalImage(cli), Override} : up(image)
  \/ \E force \in BOOLEAN : update(force)
  \/ \E tld \in TLDs : configTLD(tld)
  \/ \E m \in Machines : configMachine(m)
  \/ \E s \in PeerSuffixes : configSuffix(s)
  \/ \E a \in Addresses : configAddress(a)
  \/ configTeamRoot \/ configCSR \/ unsetIntermediate
  \/ \E int \in Intermediates : configIntermediate(int)
  \/ \E value \in {"machine", "suffix", "address", "teamRoot"} : unset(value)

-----------------------------------------------------------------------------
(***************************************************************************)
(* Meanwhile: the watcher's tick, Docker, the mesh client and the user.      *)
(***************************************************************************)
\* What doctor would say after it is no longer the last command's doing.
Forget == cmd' = IF Busy THEN cmd ELSE Idle

\* Slip: only an exited service is started again.
restartExited ==
  /\ services["watcher"] # Absent
  /\ peers.state = "exited" /\ peers.spec[3] \in mesh
  /\ peers' = [peers EXCEPT !.state = "running"]
  /\ UNCHANGED <<disk, host, services, mesh, rootFile, cli, cmd, torn, faults, commands>>

\* The watcher starts a peer service that is created or exited; Docker refuses
\* while no interface holds the address.
restartPeerServices ==
  /\ services["watcher"] # Absent
  /\ peers.state \in {"created", "exited"} /\ peers.spec[3] \in mesh
  /\ peers' = [peers EXCEPT !.state = "running"]
  /\ UNCHANGED <<disk, host, services, mesh, rootFile, cli, cmd, torn, faults, commands>>

MeshChanges ==
  /\ \E a \in Addresses : mesh' = IF a \in mesh THEN mesh \ {a} ELSE mesh \cup {a}
  /\ Forget
  /\ UNCHANGED <<machine, rootFile, cli, torn, faults, commands>>

\* Docker starts every container again: the watcher loads the CA of the stack.
Reboot ==
  /\ ~Busy /\ Fault
  /\ services' = [c \in Core |-> IF services[c] = Absent \/ c # "watcher" THEN services[c]
                                 ELSE [services[c] EXCEPT !.ca = disk.caCopy]]
  /\ \E s \in {"running", "exited"} :
       /\ s = "running" => peers.state = "running" /\ peers.spec[3] \in mesh
       /\ peers' = [peers EXCEPT !.state = IF @ = "running" THEN s ELSE @]
  /\ Forget
  /\ UNCHANGED <<disk, host, mesh, rootFile, cli, torn, commands>>

StopService ==
  /\ ~Busy /\ Fault
  /\ \E c \in Up : services' = [services EXCEPT ![c] = Absent]
  /\ Forget
  /\ UNCHANGED <<disk, host, peers, mesh, rootFile, cli, torn, commands>>

ReplaceRootFile ==
  /\ ~Busy
  /\ rootFile' \in Roots \ {rootFile}
  /\ Forget
  /\ UNCHANGED <<machine, mesh, cli, torn, faults, commands>>

Upgrade ==
  /\ ~Busy /\ cli < MaxVersion
  /\ cli' = cli + 1
  /\ Forget
  /\ UNCHANGED <<machine, mesh, rootFile, torn, faults, commands>>

Steps       == Perform \/ Refuse \/ Fail \/ Kill
Environment == restartPeerServices \/ MeshChanges \/ Reboot \/ StopService \/ ReplaceRootFile \/ Upgrade

Next == Commands \/ Steps \/ Environment

-----------------------------------------------------------------------------
\* A host never touched, one where proximo is installed, and one that shares.
InstalledHome == [EmptyHome EXCEPT !.ca = [cert |-> 1, key |-> 1], !.caCopy = 1, !.compose.written = TRUE,
                                   !.env = [tld |-> DefaultTLD, image |-> CanonicalImage(1), version |-> 1]]

SharingHome(cfg, int) == [InstalledHome EXCEPT !.config = cfg, !.mkey = TRUE, !.int = int,
                                               !.compose.peers = PeerSpec(cfg), !.material = Wanted(cfg, int)]

Installed ==
  /\ host = [CleanHost EXCEPT !.resolvers = {DefaultTLD}, !.system = 1, !.nss = 1]
  /\ services = [c \in Core |-> [env |-> InstalledHome.env, ca |-> IF c = "watcher" THEN 1 ELSE 0]]

Init ==
  /\ rootFile \in Roots /\ mesh = Addresses
  /\ cli = 1 /\ cmd = Idle /\ torn = FALSE /\ faults = 0 /\ commands = 0
  /\ \/ /\ disk = EmptyHome /\ host = CleanHost /\ peers = NoPeers
        /\ services = [c \in Core |-> Absent]
     \/ disk = InstalledHome /\ Installed /\ peers = NoPeers
     \/ \E s \in PeerSuffixes, a \in Addresses :
          LET m   == CHOOSE label \in Machines : TRUE   \* labels are interchangeable
              cfg == [Default EXCEPT !.machine = m, !.suffix = s, !.address = a, !.teamRoot = TRUE]
              int == [subtree |-> MachineSubtree(m, s), root |-> rootFile]
          IN  /\ ValidateTeamRoot(rootFile, s)
              /\ disk = SharingHome(cfg, int) /\ Installed
              /\ peers = [state |-> "running", spec |-> PeerSpec(cfg)]

Spec == Init /\ [][Next]_vars /\ WF_vars(restartPeerServices)

-----------------------------------------------------------------------------
TypeOK ==
  /\ disk.config \in Configs /\ disk.int \in Intermediates \cup {NoIntermediate}
  /\ {disk.ca.cert, disk.ca.key, disk.caCopy, host.system, host.nss} \subseteq Nat
  /\ host.resolvers \subseteq TLDs /\ host.root \in Roots \cup {""}
  /\ \A c \in Core : services[c].ca \in Nat /\ services[c].env.version \in 0..cli
  /\ peers.state \in {"absent", "created", "running", "exited"} /\ mesh \subseteq Addresses
  /\ rootFile \in Roots /\ cli \in 1..MaxVersion
  /\ cmd.cfg \in Configs /\ {cmd.ok, cmd.skipped, cmd.undoing, torn} \subseteq BOOLEAN
  /\ faults \in 0..MaxFaults /\ commands \in 0..MaxCommands

Finished(name) == ~Busy /\ cmd.name = name /\ cmd.ok

(* "The host has been restored to its prior state" (cli/uninstall.go): after  *)
(* an uninstall that passed nothing over, whatever was killed, failed or was   *)
(* reconfigured before it, no resolver drop-in of any TLD, no trusted CA, no   *)
(* container and no file of proximo is left, and no team root unless one was    *)
(* anchored that the configuration had no record of.                          *)
UninstallRestores ==
  Finished("uninstall") =>
    /\ disk = EmptyHome /\ host.resolvers = {} /\ host.system = 0
    /\ Up = {} /\ peers.state = "absent"
    /\ ~cmd.skipped => host.nss = 0 /\ (cmd.cfg.trusted # "" => host.root = "")

(* After an install that passed nothing over, one resolver drop-in points at   *)
(* the TLD the stack serves, both trust stores and the stack hold the CA on     *)
(* disk, every service is of the CLI's version and image whatever override or   *)
(* older version ran before, the anchored team root is the recorded one, and    *)
(* the watcher signs with that CA, unless it is a watcher Compose had no        *)
(* reason to create again.                                                    *)
InstallServes ==
  (Finished("install") /\ ~cmd.skipped) =>
    /\ host.resolvers = {disk.config.tld}
    /\ host.system = disk.ca.cert /\ host.nss = disk.ca.cert /\ disk.caCopy = disk.ca.cert
    /\ \A c \in Core : services[c].env = [tld |-> disk.config.tld, image |-> CanonicalImage(cli), version |-> cli]
    /\ services["watcher"].ca = disk.ca.cert \/ services["watcher"] = cmd.before.watcher
    /\ disk.config.teamRoot => host.root = disk.config.trusted

(* At rest, the stack's peer material is what the configuration and the        *)
(* installed intermediate call for, whichever of the two changed last and       *)
(* through whichever command, and never names one machine with another's        *)
(* intermediate — unless a command stopped before it had copied the material.   *)
MaterialOfConfig ==
  (~Busy /\ ~torn /\ disk.compose.written) =>
    /\ disk.material = Wanted(disk.config, disk.int)
    /\ Loadable(disk.material) => disk.material.int.subtree = disk.material.names

\* What a Remedy takes for granted.  The peer services need their address held.
\* `update` looks at the container listed first and, if that one is current, does
\* nothing for an older watcher (cli/update.go:67): incidents needs one of the two
\* checks that look at the same container to fail beside it.
InReach(c) ==
  /\ c \in {"peer_dns", "peer_relay"} => disk.config.address \in mesh
  /\ c = "incidents" => cmd.failing \cap {"stack_version", "stack_image"} # {}

(* A Remedy cures: after the proximo command doctor names for a failing check    *)
(* has finished and passed nothing over, that check passes, whatever state an    *)
(* interrupted command had left, if the check is InReach of its Remedy.         *)
RemedyCures ==
  (~Busy /\ cmd.ok /\ ~cmd.skipped) =>
    \A c \in cmd.failing : \A first \in Listed :
      (Remedies[c] = cmd.name /\ InReach(c)) => Holds(c, first)

(* Peer services that exist while the watcher runs and the address stays held   *)
(* are started in the end, though Docker never retries a container it left       *)
(* created (restartPeerServices).                                            *)
CanStart == peers.state # "absent" /\ services["watcher"] # Absent /\ peers.spec[3] \in mesh
PeerServicesStart == <>[]CanStart => []<>(peers.state = "running")

(* "When a step fails, the already-applied prefix is reverted in reverse        *)
(* (best-effort) so a mid-install failure leaves the host in its pre-install     *)
(* state" (cli/hoststeps.go), on a host that already had a CA.                 *)
RollbackRestores ==
  (~Busy /\ cmd.undoing /\ ~cmd.skipped /\ cmd.before.ca.key # 0) =>
    disk.ca = cmd.before.ca /\ host = cmd.before.host
=============================================================================
