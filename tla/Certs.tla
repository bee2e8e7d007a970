------------------------------- MODULE Certs -------------------------------
(***************************************************************************)
(* The certificates of a reconcile pass (syncCerts and what it calls in     *)
(* internal/docker/watcher.go): the pairs on disk, the cache of what each    *)
(* was issued for, and proximo-tls.yml, which Traefik follows.  A pass is    *)
(* cut at every file it replaces; each replacement can fail, the process can *)
(* be killed between any two, and pairs can vanish from the directory.       *)
(*                                                                          *)
(* A slot is one certificate and its key: the nameless default, the leaf of  *)
(* a route, or the peer leaf of a shared route.                             *)
(***************************************************************************)
EXTENDS Integers, Sequences, FiniteSets, SequencesExt

CONSTANTS
  SafeNames,   \* the safe names of the routes, in order
  Wants,       \* what passes may be asked to certify: safe name -> [hosts, share]
  LeafKeyFails,   \* whether the key of a route's own leaf can fail to be written
  MaxEpoch,    \* bound on the CAs and intermediates of the machine
  MaxFaults    \* bound on failures, kills and lost files

Safes == Range(SafeNames)

Leaf(s) == [kind |-> "leaf", safe |-> s]
Peer(s) == [kind |-> "peer", safe |-> s]
Default == [kind |-> "default", safe |-> "default"]

Leaves == {Leaf(s) : s \in Safes}
Peers  == {Peer(s) : s \in Safes}
Slots  == {Default} \cup Leaves \cup Peers

ASSUME CertsAssumption ==
  /\ SafeNames \in Seq(STRING) /\ IsInjective(SafeNames)
  /\ \A w \in Wants : DOMAIN w \subseteq Safes
  /\ LeafKeyFails \in BOOLEAN /\ MaxEpoch \in Nat \ {0} /\ MaxFaults \in Nat

\* A certificate file or a key file: which generated pair it is half of, and
\* the names and the signer of that pair.
Pairs  == 1..3
NoFile == [pair |-> 0, names |-> {}, signer |-> 0]
NoKey  == [names |-> {}, signer |-> -1]      \* no cache entry
NoTLS  == [default |-> {}, refs |-> {}]      \* proximo-tls.yml is absent

VARIABLES
  crt, key,      \* slot -> the certificate file, the key file
  yml,           \* proximo-tls.yml: the default store's slot and the listed ones
  caFile,        \* the CA the machine holds
  intermediate,  \* the peer intermediate in the ca directory, 0 without one
  ca,            \* the CA this process loaded when it started, 0 without one
  cache,         \* lastHosts and defaultIssued: slot -> what it was issued for
  pc, want, material, todo, placed,   \* the pass
  fresh,         \* the last pass wrote proximo-tls.yml and nothing was lost since
  failed,        \* an operation failed since the last pass that had no failure
  passFailed,    \* an operation of this pass failed
  faults

disk    == <<crt, key, yml>>
machine == <<caFile, intermediate>>
pass    == <<want, material, todo, placed>>
vars    == <<disk, machine, ca, cache, pc, pass, fresh, failed, passFailed, faults>>

Fault(happens) ==
  /\ happens => faults < MaxFaults
  /\ faults' = IF happens THEN faults + 1 ELSE faults
  /\ failed' = (failed \/ happens)
  /\ passFailed' = (passFailed \/ happens)

\* The hosts a slot is to name: the peer names of a route stand for its hosts.
NamesOf(slot) == IF slot = Default THEN {} ELSE want[slot.safe].hosts

SignerOf(slot) == IF slot.kind = "peer" THEN material ELSE ca

\* Slips: the intermediate is not part of the key; the hosts are not.
CacheKeyUnsigned(slot) == [names |-> NamesOf(slot), signer |-> 0]

CacheKeyUnnamed(slot) == [names |-> {}, signer |-> IF slot.kind = "peer" THEN material ELSE 0]

CacheKey(slot) ==
  [names |-> NamesOf(slot), signer |-> IF slot.kind = "peer" THEN material ELSE 0]

OnDisk(slot) == crt[slot] # NoFile /\ key[slot] # NoFile

\* Slip: files that are there need no reissue when the process starts.
UpToDateOnDisk(slot) == OnDisk(slot) /\ cache[slot] \in {NoKey, CacheKey(slot)}

UpToDate(slot) == OnDisk(slot) /\ cache[slot] = CacheKey(slot)

\* A newly generated pair is none of those still on disk.
NewPair(slot) ==
  [pair   |-> CHOOSE p \in Pairs : p \notin {crt[slot].pair, key[slot].pair},
   names  |-> NamesOf(slot),
   signer |-> SignerOf(slot)]

Init ==
  /\ crt = [s \in Slots |-> NoFile] /\ key = [s \in Slots |-> NoFile]
  /\ yml = NoTLS
  /\ caFile = 1 /\ intermediate \in {0, 1}
  /\ ca = 0 /\ cache = [s \in Slots |-> NoKey]
  /\ pc = "down" /\ want = <<>> /\ material = 0 /\ todo = {} /\ placed = {}
  /\ fresh = FALSE /\ failed = FALSE /\ passFailed = FALSE /\ faults = 0

-----------------------------------------------------------------------------
(***************************************************************************)
(* The machine: a CA replaced, a new ceremony, sharing given up, lost files. *)
(* A process reads the CA when it starts and the intermediate when a pass    *)
(* begins, so a change in the middle of a pass is one right after it.        *)
(***************************************************************************)
BetweenPasses == pc \in {"down", "idle"}

ReplaceCA ==
  /\ BetweenPasses /\ caFile < MaxEpoch
  /\ caFile' = caFile + 1
  /\ UNCHANGED <<disk, intermediate, ca, cache, pc, pass, fresh, failed, passFailed, faults>>

Ceremony ==
  /\ BetweenPasses
  /\ \E i \in (intermediate + 1)..MaxEpoch : intermediate' = i
  /\ UNCHANGED <<disk, caFile, ca, cache, pc, pass, fresh, failed, passFailed, faults>>

\* The machine's peer configuration is unset, and with it the peer material.
Withdraw ==
  /\ BetweenPasses /\ intermediate # 0
  /\ intermediate' = 0
  /\ UNCHANGED <<disk, caFile, ca, cache, pc, pass, fresh, failed, passFailed, faults>>

LoseFile(slot) ==
  /\ pc = "idle" /\ Fault(TRUE)
  /\ \/ crt[slot] # NoFile /\ crt' = [crt EXCEPT ![slot] = NoFile] /\ UNCHANGED key
     \/ key[slot] # NoFile /\ key' = [key EXCEPT ![slot] = NoFile] /\ UNCHANGED crt
  /\ fresh' = FALSE
  /\ UNCHANGED <<yml, machine, ca, cache, pc, pass>>

Kill ==
  /\ pc # "down"
  /\ faults < MaxFaults /\ faults' = faults + 1
  /\ pc' = "down" /\ ca' = 0 /\ cache' = [s \in Slots |-> NoKey]
  /\ want' = <<>> /\ material' = 0 /\ todo' = {} /\ placed' = {}
  /\ fresh' = FALSE /\ passFailed' = FALSE
  /\ UNCHANGED <<disk, machine, failed>>

\* NewWatcher loads the CA once; without one it certifies nothing.
Boot ==
  /\ pc = "down"
  /\ \E loaded \in BOOLEAN : Fault(~loaded) /\ ca' = IF loaded THEN caFile ELSE 0
  /\ pc' = "idle"
  /\ UNCHANGED <<disk, machine, cache, pass, fresh>>

-----------------------------------------------------------------------------
(***************************************************************************)
(* syncCerts.                                                               *)
(***************************************************************************)
Shared(w, m) == {s \in DOMAIN w : w[s].share /\ m # 0}

SlotsOf(w, m) == {Default} \cup {Peer(s) : s \in Shared(w, m)} \cup {Leaf(s) : s \in DOMAIN w}

\* The order slots are looked at in: the default, then each route's peer leaf and
\* its own.
Rank(slot) ==
  IF slot = Default THEN 0
  ELSE 2 * (CHOOSE i \in DOMAIN SafeNames : SafeNames[i] = slot.safe) + (IF slot.kind = "leaf" THEN 1 ELSE 0)

\* The slot a pass has come to.
Current == CHOOSE x \in todo : \A y \in todo : Rank(x) <= Rank(y)

Begin(w) ==
  /\ pc = "idle" /\ ca # 0
  /\ want' = w /\ material' = intermediate
  /\ todo' = SlotsOf(w, intermediate) /\ placed' = {}
  /\ pc' = "issue" /\ passFailed' = FALSE /\ fresh' = FALSE
  /\ UNCHANGED <<disk, machine, ca, cache, failed, faults>>

\* The cache forgets the default before it is issued again, and only then.
Forget(slot) == IF slot = Default THEN [cache EXCEPT ![slot] = NoKey] ELSE cache

\* Slip: a slot that is up to date is not taken off the list.
SkipOver ==
  /\ pc = "issue" /\ todo # {} /\ UpToDate(Current)
  /\ placed' = placed \cup {Current}
  /\ UNCHANGED <<disk, machine, ca, cache, pc, want, material, todo, fresh, failed, passFailed, faults>>

Skip ==
  /\ pc = "issue" /\ todo # {} /\ UpToDate(Current)
  /\ todo' = todo \ {Current} /\ placed' = placed \cup {Current}
  /\ UNCHANGED <<disk, machine, ca, cache, pc, want, material, fresh, failed, passFailed, faults>>

\* Issuing can fail like writing the certificate does; both leave the old pair.
WriteCrt ==
  /\ pc = "issue" /\ todo # {} /\ ~UpToDate(Current)
  /\ LET slot == Current
     IN  /\ cache' = Forget(slot)
         /\ \/ Fault(FALSE) /\ crt' = [crt EXCEPT ![slot] = NewPair(slot)]
               /\ pc' = "key" /\ UNCHANGED todo
            \/ Fault(TRUE) /\ todo' = todo \ {Current} /\ UNCHANGED <<crt, pc>>
  /\ UNCHANGED <<key, yml, machine, ca, want, material, placed, fresh>>

WriteKey ==
  /\ pc = "key"
  /\ LET slot == Current
     IN  \/ /\ Fault(FALSE)
            /\ key' = [key EXCEPT ![slot] = crt[slot]]
            /\ cache' = [cache EXCEPT ![slot] = CacheKey(slot)]
            /\ placed' = placed \cup {slot}
         \/ /\ slot.kind = "leaf" => LeafKeyFails
            /\ Fault(TRUE)
            /\ UNCHANGED <<key, cache, placed>>
  /\ todo' = todo \ {Current} /\ pc' = "issue"
  /\ UNCHANGED <<crt, yml, machine, ca, want, material, fresh>>

\* Slip: the peer leaf of every route that asks is listed.
TLSConfigAsked ==
  [default |-> {Default} \cap placed,
   refs    |-> UNION {{Leaf(s), Peer(s)} : s \in {x \in DOMAIN want : want[x].share}}]

\* Every route of the pass is listed, whether its leaf is in place or not; a
\* peer leaf only when it is.  Without the default the first leaf stands in.
TLSConfig ==
  LET first == {s \in DOMAIN want : \A i, j \in DOMAIN SafeNames :
                  (SafeNames[i] = s /\ SafeNames[j] \in DOMAIN want) => i <= j}
  IN  IF want = <<>> /\ Default \notin placed
      THEN NoTLS
      ELSE [default |-> IF Default \in placed THEN {Default} ELSE {Leaf(s) : s \in first},
            refs    |-> {Leaf(s) : s \in DOMAIN want} \cup (placed \cap Peers)]

WriteTLSConfig ==
  /\ pc = "issue" /\ todo = {}
  /\ \E ok \in BOOLEAN :
       /\ Fault(~ok)
       /\ yml' = IF ok THEN TLSConfig ELSE yml
       /\ fresh' = ok
  /\ pc' = "stale"
  /\ UNCHANGED <<crt, key, machine, ca, cache, pass>>

\* What the two sweeps find by the certificate file: leaves of no route of this
\* pass, and peer leaves that are not in place.
Stale ==
  {x \in Leaves : crt[x] # NoFile /\ x.safe \notin DOMAIN want}
  \cup {x \in Peers \ placed : crt[x] # NoFile}

RemoveStale ==
  /\ pc = "stale"
  /\ \E keptCrt, keptKey \in {{}} \cup {{x} : x \in Stale} :
       /\ Fault(keptCrt \cup keptKey # {})
       /\ crt' = [x \in Slots |-> IF x \in Stale \ keptCrt THEN NoFile ELSE crt[x]]
       /\ key' = [x \in Slots |-> IF x \in Stale \ keptKey THEN NoFile ELSE key[x]]
  /\ cache' = [x \in Slots |-> IF x \in Stale THEN NoKey ELSE cache[x]]
  /\ pc' = "end"
  /\ UNCHANGED <<yml, machine, ca, pass, fresh>>

End ==
  /\ pc = "end"
  /\ pc' = "idle"
  /\ failed' = passFailed
  /\ UNCHANGED <<disk, machine, ca, cache, pass, fresh, passFailed, faults>>

-----------------------------------------------------------------------------
SyncCerts ==
  \/ \E w \in Wants : Begin(w)
  \/ Skip \/ WriteCrt \/ WriteKey \/ WriteTLSConfig \/ RemoveStale \/ End

Next ==
  \/ ReplaceCA \/ Ceremony \/ Withdraw \/ (\E x \in Slots : LoseFile(x)) \/ Kill \/ Boot
  \/ SyncCerts

Spec == Init /\ [][Next]_vars

-----------------------------------------------------------------------------
(***************************************************************************)
(* Properties.                                                              *)
(***************************************************************************)
AllHosts == UNION {UNION {w[s].hosts : s \in DOMAIN w} : w \in Wants}

Content == [pair : {0} \cup Pairs, names : SUBSET AllHosts, signer : 0..MaxEpoch]

TypeOK ==
  /\ crt \in [Slots -> Content] /\ key \in [Slots -> Content]
  /\ yml.default \subseteq Slots /\ yml.refs \subseteq Leaves \cup Peers
  /\ caFile \in 1..MaxEpoch /\ intermediate \in 0..MaxEpoch /\ ca \in 0..caFile
  /\ pc \in {"down", "idle", "issue", "key", "stale", "end"}
  /\ todo \subseteq Slots \ placed
  /\ pc = "key" => todo # {} /\ crt[Current] # NoFile
  /\ failed \in BOOLEAN /\ fresh \in BOOLEAN /\ faults \in 0..MaxFaults

Matches(x) == OnDisk(x) /\ crt[x] = key[x]

\* Traefik never reads of a file that is not there: unless an operation failed
\* and no pass has succeeded since, every pair proximo-tls.yml names exists,
\* at every step of every pass and wherever a kill cuts it.
NoDanglingReference == ~failed => \A x \in yml.default \cup yml.refs : OnDisk(x)

\* The default store holds a pair of the CA this process loaded: a pair left by
\* an earlier run is never listed again, whatever failed.
DefaultIsOurs ==
  (fresh /\ pc = "idle" /\ Default \in yml.default) => Matches(Default) /\ crt[Default].signer = ca

\* A listed peer leaf is whole, names what its route serves and is signed by the
\* intermediate the pass read, whatever failed in this pass or an earlier one.
PeerLeafCurrent ==
  (fresh /\ pc = "idle") =>
    \A x \in yml.refs \cap Peers : /\ Matches(x)
                                   /\ crt[x].names = NamesOf(x) /\ crt[x].signer = material

\* After a pass in which nothing failed, each route is served by a certificate
\* of exactly its hosts, with the key that belongs to it, under the loaded CA.
LeafMatchesRoute ==
  (fresh /\ pc = "idle" /\ ~passFailed) =>
    \A s \in DOMAIN want : /\ Matches(Leaf(s))
                           /\ crt[Leaf(s)].names = want[s].hosts /\ crt[Leaf(s)].signer = ca
=============================================================================
