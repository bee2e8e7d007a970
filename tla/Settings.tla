------------------------------ MODULE Settings ------------------------------
(***************************************************************************)
(* What the saved configuration (internal/config) means for peer sharing:   *)
(* which values are missing, which team root and intermediate are accepted   *)
(* (internal/tls), and which peer material the stack must have               *)
(* (internal/docker/peer.go).  No state.                                     *)
(*                                                                          *)
(* A certificate is what the rules read of it: a team root is a name with    *)
(* the suffixes it is constrained to, an intermediate is the subtree it is   *)
(* for and the root that signed it.  "" is an unset value.                   *)
(***************************************************************************)
EXTENDS Naturals, Sequences, FiniteSets

CONSTANTS
  TLDs, DefaultTLD, Machines, PeerSuffixes,
  Addresses,   \* IPv4 addresses of this machine on the mesh
  Roots,       \* contents the team root file may have
  Scope,       \* what each root is constrained to: root -> suffixes
  Under        \* the pairs of a peer suffix and a TLD it lies under

ASSUME SettingsAssumption ==
  /\ DefaultTLD \in TLDs /\ Machines # {}
  /\ "" \notin TLDs \cup Machines \cup PeerSuffixes \cup Addresses \cup Roots
  /\ Scope \in [Roots -> SUBSET PeerSuffixes]
  /\ Under \subseteq PeerSuffixes \X TLDs

\* config.Config: teamRoot says whether a path is configured (there is one
\* file), trusted is the fingerprint recorded.
Configs == [tld : TLDs, machine : Machines \cup {""}, suffix : PeerSuffixes \cup {""},
            address : Addresses \cup {""}, teamRoot : BOOLEAN, trusted : Roots \cup {""}]

Default == [tld |-> DefaultTLD, machine |-> "", suffix |-> "", address |-> "",
            teamRoot |-> FALSE, trusted |-> ""]

MachineSubtree(machine, suffix) == <<machine, suffix>>

Intermediates == [subtree : Machines \X PeerSuffixes, root : Roots]
NoIntermediate == [subtree |-> <<"", "">>, root |-> ""]

\* The root may sign for the suffix and for nothing else.
ValidateTeamRoot(root, suffix) == Scope[root] = {suffix}

ValidateIntermediate(int, root, machine, suffix) ==
  int.root = root /\ int.subtree = MachineSubtree(machine, suffix)

IntermediateFor(int, machine, suffix) ==
  int # NoIntermediate /\ int.subtree = MachineSubtree(machine, suffix)

PeerMissing(cfg, int) ==
  {v \in {"machine", "suffix", "address"} : cfg[v] = ""}
  \cup (IF cfg.teamRoot THEN {} ELSE {"team-root"})
  \cup (IF IntermediateFor(int, cfg.machine, cfg.suffix) THEN {} ELSE {"intermediate"})

\* Slip: whatever is installed is taken to be for these names.
PeerServedAnyway(missing) == missing \subseteq {"address", "intermediate"}

PeerServed(missing) == missing \subseteq {"address"}

\* The peer services have a place in the stack.
peerConfigured(cfg) == "" \notin {cfg.machine, cfg.suffix, cfg.address}

requirePeerValues(cfg, names) ==
  /\ \A v \in names \cap {"machine", "suffix"} : cfg[v] # ""
  /\ "team-root" \in names => cfg.teamRoot

\* The peer material of a stack: peer.json, the intermediate and its key.
NoMaterial == [names |-> <<"", "">>, int |-> NoIntermediate, key |-> FALSE]

Wanted(cfg, int) ==
  IF PeerServed(PeerMissing(cfg, int))
  THEN [names |-> MachineSubtree(cfg.machine, cfg.suffix), int |-> int, key |-> TRUE]
  ELSE NoMaterial

\* copyPeer interrupted after k of its three files, written or removed in order.
Copied(old, new, k) ==
  [names |-> IF k >= 1 THEN new.names ELSE old.names,
   int   |-> IF k >= 2 THEN new.int   ELSE old.int,
   key   |-> IF k >= 3 THEN new.key   ELSE old.key]

\* loadPeerMaterial finds something to serve.
Loadable(m) == m.names # <<"", "">> /\ m.int # NoIntermediate /\ m.key
=============================================================================
