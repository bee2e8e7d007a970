----------------------------- MODULE CertsProofs -----------------------------
(***************************************************************************)
(* What holds of the certificates of a pass for any routes, any number of    *)
(* CAs, intermediates, failures, kills and lost files: nothing listed is      *)
(* missing while no operation has failed, and a listed default or peer leaf   *)
(* is whole, of the right names and of the right signer, whatever failed.     *)
(***************************************************************************)
EXTENDS Certs, TLAPS, WellFoundedInduction

\* Leaves, peer leaves and the default are different slots.
LEMMA SlotFacts ==
  /\ \A s, t : Leaf(s) # Peer(t) /\ Leaf(s) # Default /\ Peer(s) # Default
  /\ \A s : Leaf(s).kind = "leaf" /\ Leaf(s).safe = s /\ Peer(s).kind = "peer" /\ Peer(s).safe = s
  /\ Default.kind = "default"
  /\ Default \in Slots /\ Leaves \subseteq Slots /\ Peers \subseteq Slots
  /\ \A x \in Slots : x = Default \/ x \in Leaves \/ x \in Peers
  /\ \A x \in Leaves : x.safe \in Safes /\ x = Leaf(x.safe) /\ x.kind = "leaf"
  /\ \A x \in Peers : x.safe \in Safes /\ x = Peer(x.safe) /\ x.kind = "peer"
  /\ Default \notin Peers /\ Default \notin Leaves /\ Leaves \cap Peers = {}
<1>1. /\ \A s, t : Leaf(s) # Peer(t) /\ Leaf(s) # Default /\ Peer(s) # Default
      /\ \A s : Leaf(s).kind = "leaf" /\ Leaf(s).safe = s /\ Peer(s).kind = "peer" /\ Peer(s).safe = s
      /\ Default.kind = "default"
  BY DEF Leaf, Peer, Default
<1>2. \A x \in Leaves : x.safe \in Safes /\ x = Leaf(x.safe) /\ x.kind = "leaf"
  BY <1>1 DEF Leaves
<1>3. \A x \in Peers : x.safe \in Safes /\ x = Peer(x.safe) /\ x.kind = "peer"
  BY <1>1 DEF Peers
<1>4. Default \notin Peers /\ Default \notin Leaves /\ Leaves \cap Peers = {}
  BY <1>1, <1>2, <1>3
<1>5. /\ Default \in Slots /\ Leaves \subseteq Slots /\ Peers \subseteq Slots
      /\ \A x \in Slots : x = Default \/ x \in Leaves \/ x \in Peers
  BY DEF Slots
<1> QED BY <1>1, <1>2, <1>3, <1>4, <1>5

\* Every slot has a rank.
LEMMA RankIsNatural == ASSUME NEW x \in Slots PROVE Rank(x) \in Nat
<1>1. CASE x = Default
  BY <1>1 DEF Rank
<1>2. CASE x # Default
  <2>1. x.safe \in Safes
    BY <1>2, SlotFacts
  <2>2. DOMAIN SafeNames \subseteq Nat
    BY CertsAssumption DEF CertsAssumption
  <2>3. \E i \in DOMAIN SafeNames : SafeNames[i] = x.safe
    BY <2>1 DEF Safes, Range
  <2> DEFINE i == CHOOSE i \in DOMAIN SafeNames : SafeNames[i] = x.safe
  <2>4. i \in Nat
    BY <2>2, <2>3
  <2>5. Rank(x) = 2 * i + (IF x.kind = "leaf" THEN 1 ELSE 0)
    BY <1>2 DEF Rank
  <2> HIDE DEF i
  <2> QED BY <2>4, <2>5
<1> QED BY <1>1, <1>2

\* A pass that has slots left has come to one of them.
LEMMA CurrentIsLeft == ASSUME todo \subseteq Slots, todo # {} PROVE Current \in todo
<1> DEFINE R == {ss \in Nat \X Nat : ss[1] < ss[2]}
           S == {Rank(x) : x \in todo}
<1>1. IsWellFoundedOn(R, Nat)
  <2>1. R = OpToRel(<, Nat)
    BY DEF OpToRel
  <2> QED BY <2>1, NatLessThanWellFounded
<1>2. S \subseteq Nat /\ S # {}
  BY RankIsNatural
<1>3. PICK n \in S : \A m \in S : <<m, n>> \notin R
  <2> HIDE DEF R, S
  <2> QED BY <1>1, <1>2, WFMin
<1>4. \A m \in S : n <= m
  <2>1. ASSUME NEW m \in S PROVE n <= m
    <3>1. m \in Nat /\ n \in Nat
      BY <1>2
    <3>2. <<m, n>> \in Nat \X Nat /\ <<m, n>>[1] = m /\ <<m, n>>[2] = n
      BY <3>1
    <3>3. ~(m < n)
      BY <1>3, <3>2, Zenon
    <3> QED BY <3>1, <3>3
  <2> QED BY <2>1
<1>5. PICK x \in todo : n = Rank(x)
  BY <1>3
<1>6. \A y \in todo : Rank(x) <= Rank(y)
  BY <1>4, <1>5
<1> QED BY <1>6 DEF Current

-----------------------------------------------------------------------------
\* The slots whose pairs are never listed half replaced.
Guarded == {Default} \cup Peers

\* A failure of the key of a route's own leaf is what CertsLeafKey.cfg is about.
Paired == Guarded \cup (IF LeafKeyFails THEN {} ELSE Leaves)

\* The key of the slot is being written, or an attempt of this pass failed.
Missed(x) ==
  \/ pc = "key" /\ x = Current
  \/ pc \in {"issue", "key", "stale"} /\ x \in Peers /\ x \notin todo /\ x \notin placed

\* The pair is one, and is what the cache says it was issued for.
Whole(x) ==
  /\ crt[x] = key[x] /\ crt[x].names = cache[x].names
  /\ crt[x].signer = IF x \in Peers THEN cache[x].signer ELSE ca

Listed == yml.default \cup yml.refs

Shape ==
  /\ TypeOK
  /\ cache \in [Slots -> [names : SUBSET AllHosts, signer : Int]]
  /\ want \in Wants \cup {<<>>} /\ material \in 0..MaxEpoch
  /\ placed \subseteq Slots /\ todo \cup placed \subseteq SlotsOf(want, material)
  /\ passFailed \in BOOLEAN /\ (passFailed => failed)

\* The cache tells the truth of every such slot but the missed ones.
CacheTrue == \A x \in Paired : (cache[x] # NoKey /\ OnDisk(x) /\ ~Missed(x)) => Whole(x)

PlacedUpToDate ==
  (pc \in {"issue", "key", "stale", "end"} \/ (pc = "idle" /\ fresh)) =>
    \A x \in placed : OnDisk(x) /\ cache[x] = CacheKey(x)

KeyNext ==
  pc = "key" => /\ todo # {} /\ crt[Current] # NoFile
                /\ crt[Current].names = NamesOf(Current) /\ crt[Current].signer = SignerOf(Current)
                /\ Current = Default => cache[Current] = NoKey

DownForgets == pc = "down" => ~fresh /\ \A x \in Slots : cache[x] = NoKey

ListedPlaced ==
  (fresh /\ pc \in {"stale", "end", "idle"}) => Listed \cap Guarded \subseteq placed

NothingMissed ==
  /\ (pc \in {"issue", "key"} /\ ~passFailed) => SlotsOf(want, material) \subseteq todo \cup placed
  /\ (pc \in {"stale", "end"} /\ ~passFailed) => Listed \subseteq placed
  /\ ((pc \in {"stale", "end"} \/ (pc = "idle" /\ fresh)) /\ ~passFailed) =>
       SlotsOf(want, material) \subseteq placed

IInv == Shape /\ CacheTrue /\ PlacedUpToDate /\ KeyNext /\ DownForgets /\ ListedPlaced /\ NothingMissed
        /\ NoDanglingReference

-----------------------------------------------------------------------------
\* What a pass is asked to certify, and what is issued for it.
LEMMA AskedFacts ==
  ASSUME Shape
  PROVE  /\ DOMAIN want \subseteq Safes /\ SlotsOf(want, material) \subseteq Slots
         /\ todo \subseteq Slots /\ placed \subseteq Slots /\ todo \cap placed = {}
         /\ \A x \in SlotsOf(want, material) : /\ NamesOf(x) \in SUBSET AllHosts
                                               /\ SignerOf(x) \in 0..MaxEpoch
                                               /\ CacheKey(x) \in [names : SUBSET AllHosts, signer : Int]
                                               /\ CacheKey(x) # NoKey
<1>1. DOMAIN want \subseteq Safes
  <2>1. CASE want \in Wants
    BY <2>1, CertsAssumption DEF CertsAssumption
  <2>2. CASE want = <<>>
    BY <2>2
  <2> QED BY <2>1, <2>2 DEF Shape
<1>2. \A s \in DOMAIN want : want[s].hosts \in SUBSET AllHosts
  <2>1. CASE want \in Wants
    BY <2>1 DEF AllHosts
  <2>2. CASE want = <<>>
    BY <2>2
  <2> QED BY <2>1, <2>2 DEF Shape
<1>3. Shared(want, material) \subseteq DOMAIN want
  BY DEF Shared
<1>4. \A x \in SlotsOf(want, material) : x \in Slots /\ (x = Default \/ x.safe \in DOMAIN want)
  <2>1. ASSUME NEW x \in SlotsOf(want, material) PROVE x \in Slots /\ (x = Default \/ x.safe \in DOMAIN want)
    <3>1. CASE x = Default
      BY <3>1, SlotFacts
    <3>2. CASE x \in {Peer(s) : s \in Shared(want, material)}
      BY <1>1, <1>3, <3>2, SlotFacts DEF Peers, Slots
    <3>3. CASE x \in {Leaf(s) : s \in DOMAIN want}
      BY <1>1, <3>3, SlotFacts DEF Leaves, Slots
    <3> QED BY <2>1, <3>1, <3>2, <3>3 DEF SlotsOf
  <2> QED BY <2>1
<1>5. material \in 0..MaxEpoch /\ ca \in 0..MaxEpoch /\ MaxEpoch \in Nat
  BY CertsAssumption DEF Shape, TypeOK, CertsAssumption
<1>6. ASSUME NEW x \in SlotsOf(want, material)
      PROVE  /\ NamesOf(x) \in SUBSET AllHosts /\ SignerOf(x) \in 0..MaxEpoch
             /\ CacheKey(x) \in [names : SUBSET AllHosts, signer : Int] /\ CacheKey(x) # NoKey
  <2>1. NamesOf(x) \in SUBSET AllHosts
    BY <1>2, <1>4 DEF NamesOf
  <2>2. SignerOf(x) \in 0..MaxEpoch
    BY <1>5 DEF SignerOf
  <2>3. CacheKey(x).signer \in 0..MaxEpoch /\ CacheKey(x).names = NamesOf(x)
    BY <1>5 DEF CacheKey
  <2>4. CacheKey(x) \in [names : SUBSET AllHosts, signer : Int]
    BY <1>5, <2>1 DEF CacheKey
  <2>5. CacheKey(x) # NoKey
    BY <1>5, <2>3 DEF NoKey
  <2> QED BY <2>1, <2>2, <2>4, <2>5
<1> QED BY <1>1, <1>4, <1>6 DEF Shape, TypeOK

\* Every slot the cache is to be right about is a slot.
LEMMA PairedAreSlots == Guarded \subseteq Paired /\ Paired \subseteq Slots
BY SlotFacts DEF Guarded, Paired

\* A placed slot was not missed, so its pair is whole.
LEMMA PlacedWhole ==
  ASSUME IInv, pc \in {"stale", "end"} \/ (pc = "idle" /\ fresh), NEW x \in Paired, x \in placed
  PROVE  OnDisk(x) /\ cache[x] = CacheKey(x) /\ Whole(x)
<1>1. OnDisk(x) /\ cache[x] = CacheKey(x)
  BY DEF IInv, PlacedUpToDate
<1>2. cache[x] # NoKey
  BY <1>1, AskedFacts DEF IInv, Shape
<1>3. ~Missed(x)
  BY DEF Missed
<1> QED BY <1>1, <1>2, <1>3 DEF IInv, CacheTrue

\* A machine with a CA and no certificates.
LEMMA Initial == Init => IInv
<1> SUFFICES ASSUME Init PROVE IInv
  OBVIOUS
<1>1. /\ crt = [s \in Slots |-> NoFile] /\ key = [s \in Slots |-> NoFile] /\ yml = NoTLS
      /\ caFile = 1 /\ intermediate \in {0, 1} /\ ca = 0 /\ cache = [s \in Slots |-> NoKey]
      /\ pc = "down" /\ want = <<>> /\ material = 0 /\ todo = {} /\ placed = {}
      /\ fresh = FALSE /\ failed = FALSE /\ passFailed = FALSE /\ faults = 0
  BY DEF Init
<1>2. MaxEpoch \in Nat \ {0} /\ MaxFaults \in Nat
  BY CertsAssumption DEF CertsAssumption
<1>3. NoFile \in Content /\ NoKey \in [names : SUBSET AllHosts, signer : Int]
  <2>1. 0 \in 0..MaxEpoch /\ {} \in SUBSET AllHosts /\ 0 \in {0} \cup Pairs
    BY <1>2
  <2>2. NoFile \in Content
    BY <2>1 DEF NoFile, Content
  <2>3. NoKey \in [names : SUBSET AllHosts, signer : Int]
    BY <2>1 DEF NoKey
  <2> QED BY <2>2, <2>3
<1>4. TypeOK
  <2>1. crt \in [Slots -> Content] /\ key \in [Slots -> Content]
    BY <1>1, <1>3
  <2>2. yml.default = {} /\ yml.refs = {}
    BY <1>1 DEF NoTLS
  <2>3. failed \in BOOLEAN /\ fresh \in BOOLEAN
    BY <1>1, Zenon
  <2>4. /\ caFile \in 1..MaxEpoch /\ intermediate \in 0..MaxEpoch /\ ca \in 0..caFile
        /\ faults \in 0..MaxFaults
    BY <1>1, <1>2
  <2>5. todo \subseteq Slots \ placed /\ pc \in {"down", "idle", "issue", "key", "stale", "end"} /\ pc # "key"
    BY <1>1
  <2> QED BY <2>1, <2>2, <2>3, <2>4, <2>5 DEF TypeOK
<1>5. Shape
  <2>1. passFailed \in BOOLEAN /\ (passFailed => failed)
    BY <1>1, Zenon
  <2>2. cache \in [Slots -> [names : SUBSET AllHosts, signer : Int]]
    BY <1>1, <1>3
  <2>3. /\ want \in Wants \cup {<<>>} /\ material \in 0..MaxEpoch
        /\ placed \subseteq Slots /\ todo \cup placed \subseteq SlotsOf(want, material)
    BY <1>1, <1>2
  <2> QED BY <1>4, <2>1, <2>2, <2>3 DEF Shape
<1>6. \A x \in Slots : ~OnDisk(x) /\ cache[x] = NoKey
  BY <1>1 DEF OnDisk
<1>7. CacheTrue
  BY <1>6, PairedAreSlots DEF CacheTrue
<1>8. PlacedUpToDate /\ KeyNext /\ DownForgets /\ ListedPlaced /\ NothingMissed
  BY <1>1, <1>6 DEF PlacedUpToDate, KeyNext, DownForgets, ListedPlaced, NothingMissed
<1>9. NoDanglingReference
  BY <1>1 DEF NoDanglingReference, NoTLS
<1> QED BY <1>5, <1>7, <1>8, <1>9 DEF IInv

-----------------------------------------------------------------------------
\* The machine's CA or intermediate changes, or nothing does.
LEMMA MachineKeeps ==
  ASSUME IInv, UNCHANGED <<disk, ca, cache, pc, pass, fresh, failed, passFailed, faults>>,
         caFile' \in caFile..MaxEpoch, intermediate' \in 0..MaxEpoch
  PROVE  IInv'
<1>1. /\ crt' = crt /\ key' = key /\ yml' = yml /\ ca' = ca /\ cache' = cache /\ pc' = pc
      /\ want' = want /\ material' = material /\ todo' = todo /\ placed' = placed
      /\ fresh' = fresh /\ failed' = failed /\ passFailed' = passFailed /\ faults' = faults
  BY DEF disk, pass
<1>2. caFile' \in 1..MaxEpoch /\ ca' \in 0..caFile'
  <2>1. MaxEpoch \in Nat /\ caFile \in 1..MaxEpoch /\ ca \in 0..caFile
    BY CertsAssumption DEF IInv, Shape, TypeOK, CertsAssumption
  <2> QED BY <1>1, <2>1
<1>3. Current' = Current
  BY <1>1 DEF Current
<1>4. TypeOK'
  BY <1>1, <1>2, <1>3 DEF IInv, Shape, TypeOK
<1>5. Shape'
  BY <1>1, <1>4 DEF IInv, Shape
<1>6. \A x : /\ (OnDisk(x)' <=> OnDisk(x)) /\ (Missed(x)' <=> Missed(x)) /\ (Whole(x)' <=> Whole(x))
             /\ CacheKey(x)' = CacheKey(x) /\ NamesOf(x)' = NamesOf(x) /\ SignerOf(x)' = SignerOf(x)
  BY <1>1, <1>3 DEF OnDisk, Missed, Whole, CacheKey, NamesOf, SignerOf
<1>7. CacheTrue' /\ PlacedUpToDate'
  BY <1>1, <1>6 DEF IInv, CacheTrue, PlacedUpToDate
<1>8. KeyNext' /\ DownForgets'
  BY <1>1, <1>3, <1>6 DEF IInv, KeyNext, DownForgets
<1>9. ListedPlaced' /\ NothingMissed' /\ NoDanglingReference'
  BY <1>1, <1>6 DEF IInv, ListedPlaced, Listed, NothingMissed, NoDanglingReference
<1> QED BY <1>5, <1>7, <1>8, <1>9 DEF IInv

\* A file of a pair is lost between two passes.
LEMMA LoseFileKeeps ==
  ASSUME IInv, NEW slot \in Slots, LoseFile(slot)
  PROVE  IInv'
<1>1. /\ pc = "idle" /\ faults < MaxFaults /\ faults' = faults + 1
      /\ yml' = yml /\ ca' = ca /\ cache' = cache /\ pc' = pc /\ caFile' = caFile /\ intermediate' = intermediate
      /\ want' = want /\ material' = material /\ todo' = todo /\ placed' = placed
  BY DEF LoseFile, Fault, pass, machine
<1>2. failed' = TRUE /\ passFailed' = TRUE /\ fresh' = FALSE
  BY Zenon DEF LoseFile, Fault
<1>3. \/ crt' = [crt EXCEPT ![slot] = NoFile] /\ key' = key
      \/ key' = [key EXCEPT ![slot] = NoFile] /\ crt' = crt
  BY DEF LoseFile
<1>4. NoFile \in Content
  BY CertsAssumption DEF NoFile, Content, CertsAssumption
<1>5. crt' \in [Slots -> Content] /\ key' \in [Slots -> Content]
  BY <1>3, <1>4 DEF IInv, Shape, TypeOK
<1>6. faults' \in 0..MaxFaults
  BY <1>1, CertsAssumption DEF IInv, Shape, TypeOK, CertsAssumption
<1>7. TypeOK'
  BY <1>1, <1>2, <1>5, <1>6 DEF IInv, Shape, TypeOK
<1>8. Shape'
  BY <1>1, <1>2, <1>7 DEF IInv, Shape
<1>9. \A x \in Slots : OnDisk(x)' => OnDisk(x) /\ crt'[x] = crt[x] /\ key'[x] = key[x]
  <2>1. crt \in [Slots -> Content] /\ key \in [Slots -> Content]
    BY DEF IInv, Shape, TypeOK
  <2> QED BY <1>3, <2>1 DEF OnDisk
<1>10. CacheTrue'
  <2>1. \A x : ~Missed(x)
    BY <1>1 DEF Missed
  <2>2. Paired \subseteq Slots
    BY PairedAreSlots
  <2> QED BY <1>1, <1>9, <2>1, <2>2 DEF IInv, CacheTrue, Whole
<1>11. PlacedUpToDate' /\ KeyNext' /\ DownForgets' /\ ListedPlaced' /\ NothingMissed'
  BY <1>1, <1>2 DEF PlacedUpToDate, KeyNext, DownForgets, ListedPlaced, NothingMissed
<1>12. NoDanglingReference'
  BY <1>2 DEF NoDanglingReference
<1> QED BY <1>8, <1>10, <1>11, <1>12 DEF IInv

\* A kill loses what the process held and touches no file.
LEMMA KillKeeps ==
  ASSUME IInv, Kill
  PROVE  IInv'
<1>1. /\ faults < MaxFaults /\ faults' = faults + 1
      /\ pc' = "down" /\ ca' = 0 /\ cache' = [s \in Slots |-> NoKey]
      /\ want' = <<>> /\ material' = 0 /\ todo' = {} /\ placed' = {}
      /\ crt' = crt /\ key' = key /\ yml' = yml /\ caFile' = caFile /\ intermediate' = intermediate
  BY DEF Kill, disk, machine
<1>2. fresh' = FALSE /\ passFailed' = FALSE /\ failed' = failed
  BY Zenon DEF Kill
<1>3. faults' \in 0..MaxFaults /\ ca' \in 0..caFile' /\ MaxEpoch \in Nat
  BY <1>1, CertsAssumption DEF IInv, Shape, TypeOK, CertsAssumption
<1>4. NoKey \in [names : SUBSET AllHosts, signer : Int]
  <2>1. {} \in SUBSET AllHosts
    OBVIOUS
  <2> QED BY <2>1 DEF NoKey
<1>5. TypeOK'
  BY <1>1, <1>2, <1>3 DEF IInv, Shape, TypeOK
<1>6. Shape'
  <2>1. cache' \in [Slots -> [names : SUBSET AllHosts, signer : Int]]
    BY <1>1, <1>4
  <2>2. passFailed' \in BOOLEAN /\ (passFailed' => failed')
    BY <1>2, Zenon
  <2> QED BY <1>1, <1>3, <1>5, <2>1, <2>2 DEF Shape
<1>7. \A x \in Slots : cache'[x] = NoKey
  BY <1>1
<1>8. CacheTrue'
  <2>1. Paired \subseteq Slots
    BY PairedAreSlots
  <2> QED BY <1>7, <2>1 DEF CacheTrue
<1>9. PlacedUpToDate' /\ KeyNext' /\ DownForgets' /\ ListedPlaced' /\ NothingMissed'
  BY <1>1, <1>2, <1>7 DEF PlacedUpToDate, KeyNext, DownForgets, ListedPlaced, NothingMissed
<1>10. NoDanglingReference'
  BY <1>1, <1>2 DEF IInv, NoDanglingReference, OnDisk
<1> QED BY <1>6, <1>8, <1>9, <1>10 DEF IInv

\* A process starts with an empty cache, with the CA or without one.
LEMMA BootKeeps ==
  ASSUME IInv, Boot
  PROVE  IInv'
<1>1. PICK loaded \in BOOLEAN : Fault(~loaded) /\ ca' = IF loaded THEN caFile ELSE 0
  BY DEF Boot
<1>2. /\ pc = "down" /\ pc' = "idle"
      /\ crt' = crt /\ key' = key /\ yml' = yml /\ caFile' = caFile /\ intermediate' = intermediate
      /\ cache' = cache /\ want' = want /\ material' = material /\ todo' = todo /\ placed' = placed
      /\ fresh' = fresh
  BY DEF Boot, disk, machine, pass
<1>3. ca' \in 0..caFile' /\ faults' \in 0..MaxFaults
  BY <1>1, <1>2, CertsAssumption DEF IInv, Shape, TypeOK, Fault, CertsAssumption
<1>4. /\ failed' \in BOOLEAN /\ passFailed' \in BOOLEAN /\ (passFailed' => failed') /\ (failed => failed')
      /\ fresh' \in BOOLEAN
  BY <1>1, <1>2, Zenon DEF Fault, IInv, Shape, TypeOK
<1>5. TypeOK'
  BY <1>2, <1>3, <1>4 DEF IInv, Shape, TypeOK
<1>6. Shape'
  BY <1>2, <1>4, <1>5 DEF IInv, Shape
<1>7. ~fresh /\ \A x \in Slots : cache'[x] = NoKey
  BY <1>2 DEF IInv, DownForgets
<1>8. CacheTrue'
  <2>1. Paired \subseteq Slots
    BY PairedAreSlots
  <2> QED BY <1>7, <2>1 DEF CacheTrue
<1>9. PlacedUpToDate' /\ KeyNext' /\ DownForgets' /\ ListedPlaced' /\ NothingMissed'
  BY <1>2, <1>7 DEF PlacedUpToDate, KeyNext, DownForgets, ListedPlaced, NothingMissed
<1>10. NoDanglingReference'
  BY <1>2, <1>4 DEF IInv, NoDanglingReference, OnDisk
<1> QED BY <1>6, <1>8, <1>9, <1>10 DEF IInv

\* A pass begins: everything asked for is left to do.
LEMMA BeginKeeps ==
  ASSUME IInv, NEW w \in Wants, Begin(w)
  PROVE  IInv'
<1>1. /\ pc = "idle" /\ pc' = "issue" /\ want' = w /\ material' = intermediate
      /\ todo' = SlotsOf(w, intermediate) /\ placed' = {}
      /\ crt' = crt /\ key' = key /\ yml' = yml /\ caFile' = caFile /\ intermediate' = intermediate
      /\ ca' = ca /\ cache' = cache /\ faults' = faults
  BY DEF Begin, disk, machine
<1>2. passFailed' = FALSE /\ fresh' = FALSE /\ failed' = failed
  BY Zenon DEF Begin
<1>3. todo' \subseteq Slots
  <2>1. DOMAIN w \subseteq Safes /\ Shared(w, intermediate) \subseteq DOMAIN w
    BY CertsAssumption DEF CertsAssumption, Shared
  <2>2. \A s \in Safes : Peer(s) \in Slots /\ Leaf(s) \in Slots
    BY DEF Slots, Leaves, Peers
  <2> QED BY <1>1, <2>1, <2>2, SlotFacts DEF SlotsOf
<1>4. TypeOK'
  BY <1>1, <1>2, <1>3 DEF IInv, Shape, TypeOK
<1>5. Shape'
  <2>1. passFailed' \in BOOLEAN /\ (passFailed' => failed')
    BY <1>2, Zenon
  <2>2. material' \in 0..MaxEpoch
    BY <1>1 DEF IInv, Shape, TypeOK
  <2> QED BY <1>1, <1>4, <2>1, <2>2 DEF IInv, Shape
<1>6. CacheTrue'
  <2>1. \A x : ~Missed(x)
    BY <1>1 DEF Missed
  <2> QED BY <1>1, <2>1 DEF IInv, CacheTrue, Whole, OnDisk
<1>7. PlacedUpToDate' /\ KeyNext' /\ DownForgets' /\ ListedPlaced' /\ NothingMissed'
  BY <1>1, <1>2 DEF PlacedUpToDate, KeyNext, DownForgets, ListedPlaced, NothingMissed
<1>8. NoDanglingReference'
  BY <1>1, <1>2 DEF IInv, NoDanglingReference, OnDisk
<1> QED BY <1>5, <1>6, <1>7, <1>8 DEF IInv

\* What a fault is, and what it says of the bound.
LEMMA FaultFacts ==
  ASSUME Shape, NEW happens \in BOOLEAN, Fault(happens)
  PROVE  /\ faults' \in 0..MaxFaults /\ failed' \in BOOLEAN /\ passFailed' \in BOOLEAN
         /\ (passFailed' => failed') /\ (failed => failed') /\ (passFailed => passFailed')
         /\ (happens => failed' /\ passFailed')
<1>1. faults' \in 0..MaxFaults
  BY CertsAssumption DEF Shape, TypeOK, Fault, CertsAssumption
<1>2. /\ failed' \in BOOLEAN /\ passFailed' \in BOOLEAN
      /\ (passFailed' => failed') /\ (failed => failed') /\ (passFailed => passFailed')
      /\ (happens => failed' /\ passFailed')
  BY Zenon DEF Shape, TypeOK, Fault
<1> QED BY <1>1, <1>2

\* A slot that is up to date is passed by.
LEMMA SkipKeeps ==
  ASSUME IInv, Skip
  PROVE  IInv'
<1>1. /\ pc = "issue" /\ pc' = "issue" /\ todo # {} /\ UpToDate(Current)
      /\ todo' = todo \ {Current} /\ placed' = placed \cup {Current}
      /\ crt' = crt /\ key' = key /\ yml' = yml /\ caFile' = caFile /\ intermediate' = intermediate
      /\ ca' = ca /\ cache' = cache /\ want' = want /\ material' = material /\ faults' = faults
      /\ fresh' = fresh /\ failed' = failed /\ passFailed' = passFailed
  BY DEF Skip, disk, machine
<1>2. Current \in todo /\ todo \subseteq Slots /\ todo \cap placed = {}
  BY <1>1, AskedFacts, CurrentIsLeft DEF IInv
<1>3. TypeOK'
  BY <1>1, <1>2 DEF IInv, Shape, TypeOK
<1>4. Shape'
  BY <1>1, <1>2, <1>3 DEF IInv, Shape
<1>5. \A x : /\ (OnDisk(x)' <=> OnDisk(x)) /\ (Whole(x)' <=> Whole(x)) /\ CacheKey(x)' = CacheKey(x)
             /\ (Missed(x) => Missed(x)')
  BY <1>1, <1>2 DEF OnDisk, Whole, CacheKey, NamesOf, Missed
<1>6. CacheTrue'
  BY <1>1, <1>5 DEF IInv, CacheTrue
<1>7. PlacedUpToDate'
  BY <1>1, <1>5 DEF IInv, PlacedUpToDate, UpToDate
<1>8. KeyNext' /\ DownForgets' /\ ListedPlaced'
  BY <1>1 DEF KeyNext, DownForgets, ListedPlaced
<1>9. NothingMissed' /\ NoDanglingReference'
  BY <1>1, <1>5 DEF IInv, NothingMissed, NoDanglingReference
<1> QED BY <1>4, <1>6, <1>7, <1>8, <1>9 DEF IInv

\* A new certificate is written, or cannot be.
LEMMA WriteCrtKeeps ==
  ASSUME IInv, WriteCrt
  PROVE  IInv'
<1> DEFINE slot == Current
<1>1. /\ pc = "issue" /\ todo # {} /\ cache' = Forget(slot)
      /\ key' = key /\ yml' = yml /\ caFile' = caFile /\ intermediate' = intermediate
      /\ ca' = ca /\ want' = want /\ material' = material /\ placed' = placed /\ fresh' = fresh
  BY DEF WriteCrt, machine
<1>2. slot \in todo /\ todo \subseteq Slots /\ todo \cap placed = {} /\ slot \in SlotsOf(want, material)
  BY <1>1, AskedFacts, CurrentIsLeft DEF IInv, Shape
<1>3. /\ cache' \in [Slots -> [names : SUBSET AllHosts, signer : Int]]
      /\ \A x \in Slots : x # slot => cache'[x] = cache[x]
      /\ slot = Default => cache'[slot] = NoKey
      /\ slot # Default => cache'[slot] = cache[slot]
  <2>1. NoKey \in [names : SUBSET AllHosts, signer : Int]
    <3>1. {} \in SUBSET AllHosts
      OBVIOUS
    <3> QED BY <3>1 DEF NoKey
  <2>2. cache \in [Slots -> [names : SUBSET AllHosts, signer : Int]]
    BY DEF IInv, Shape
  <2> HIDE DEF slot
  <2> QED BY <1>1, <1>2, <2>1, <2>2 DEF Forget
<1>4. \A x : CacheKey(x)' = CacheKey(x) /\ NamesOf(x)' = NamesOf(x) /\ SignerOf(x)' = SignerOf(x)
  BY <1>1 DEF CacheKey, NamesOf, SignerOf
<1>5. CASE Fault(FALSE) /\ crt' = [crt EXCEPT ![slot] = NewPair(slot)] /\ pc' = "key" /\ todo' = todo
  <2> DEFINE new == NewPair(slot)
  <2>1. Current' = Current
    BY <1>5 DEF Current
  <2>2. new \in Content /\ new # NoFile /\ new.names = NamesOf(slot) /\ new.signer = SignerOf(slot)
    <3>1. new.pair \in Pairs
      <4>1. \E p \in Pairs : p \notin {crt[slot].pair, key[slot].pair}
        BY DEF Pairs
      <4> QED BY <4>1 DEF NewPair
    <3>2. new.names = NamesOf(slot) /\ new.signer = SignerOf(slot) /\ NoFile.pair = 0 /\ 0 \notin Pairs
      BY DEF NewPair, NoFile, Pairs
    <3>3. NamesOf(slot) \in SUBSET AllHosts /\ SignerOf(slot) \in 0..MaxEpoch
      BY <1>2, AskedFacts DEF IInv
    <3>4. new = [pair |-> new.pair, names |-> new.names, signer |-> new.signer]
      BY DEF NewPair
    <3> HIDE DEF new, slot
    <3>5. new \in Content
      BY <3>1, <3>2, <3>3, <3>4 DEF Content
    <3> QED BY <3>1, <3>2, <3>5
  <2> HIDE DEF new
  <2>3. /\ crt' \in [Slots -> Content] /\ crt'[slot] = new /\ \A x \in Slots : x # slot => crt'[x] = crt[x]
    <3>1. crt \in [Slots -> Content] /\ slot \in Slots
      BY <1>2 DEF IInv, Shape, TypeOK
    <3> HIDE DEF slot
    <3> QED BY <1>5, <2>2, <3>1 DEF new
  <2>4. /\ faults' \in 0..MaxFaults /\ failed' \in BOOLEAN /\ passFailed' \in BOOLEAN
        /\ (passFailed' => failed') /\ (failed => failed') /\ (passFailed => passFailed')
    BY <1>5, FaultFacts DEF IInv
  <2>5. TypeOK'
    BY <1>1, <1>5, <2>1, <2>2, <2>3, <2>4 DEF IInv, Shape, TypeOK
  <2>6. Shape'
    BY <1>1, <1>3, <1>5, <2>4, <2>5 DEF IInv, Shape
  <2>7. \A x \in Slots : OnDisk(x) => OnDisk(x)'
    BY <1>1, <2>2, <2>3 DEF OnDisk
  <2>8. \A x \in Slots : x # slot => (OnDisk(x)' <=> OnDisk(x)) /\ (Whole(x)' <=> Whole(x))
    BY <1>1, <1>3, <2>3 DEF OnDisk, Whole
  <2>9. \A x : Missed(x) => Missed(x)'
    BY <1>1, <1>5 DEF Missed
  <2>10. CacheTrue'
    <3>1. Paired \subseteq Slots /\ \A x : x = slot => Missed(x)'
      BY <1>5, <2>1, PairedAreSlots DEF Missed
    <3> QED BY <1>3, <2>8, <2>9, <3>1 DEF IInv, CacheTrue
  <2>11. PlacedUpToDate'
    <3>1. \A x \in placed : x \in Slots /\ x # slot
      BY <1>2, AskedFacts DEF IInv
    <3> QED BY <1>1, <1>3, <1>4, <2>8, <3>1 DEF IInv, PlacedUpToDate
  <2>12. KeyNext'
    BY <1>1, <1>3, <1>4, <1>5, <2>1, <2>2, <2>3 DEF KeyNext
  <2>13. DownForgets' /\ ListedPlaced'
    BY <1>5 DEF DownForgets, ListedPlaced
  <2>14. NothingMissed'
    BY <1>1, <1>5, <2>4 DEF IInv, NothingMissed
  <2>15. NoDanglingReference'
    <3>1. yml.default \cup yml.refs \subseteq Slots
      BY SlotFacts DEF IInv, Shape, TypeOK
    <3> QED BY <1>1, <2>4, <2>7, <3>1 DEF IInv, NoDanglingReference
  <2> QED BY <2>6, <2>10, <2>11, <2>12, <2>13, <2>14, <2>15 DEF IInv
<1>6. CASE Fault(TRUE) /\ todo' = todo \ {slot} /\ crt' = crt /\ pc' = pc
  <2>1. /\ faults' \in 0..MaxFaults /\ failed' \in BOOLEAN /\ passFailed' \in BOOLEAN
        /\ (passFailed' => failed') /\ failed' /\ passFailed'
    BY <1>6, FaultFacts DEF IInv
  <2>2. TypeOK'
    BY <1>1, <1>6, <2>1 DEF IInv, Shape, TypeOK
  <2>3. Shape'
    BY <1>1, <1>3, <1>6, <2>1, <2>2 DEF IInv, Shape
  <2>4. \A x : (OnDisk(x)' <=> OnDisk(x)) /\ (Missed(x) => Missed(x)')
    BY <1>1, <1>6 DEF OnDisk, Missed
  <2>5. CacheTrue'
    <3>1. ASSUME NEW x \in Paired, cache'[x] # NoKey PROVE cache'[x] = cache[x] /\ (Whole(x)' <=> Whole(x))
      <4>1. x \in Slots
        BY PairedAreSlots
      <4>2. cache'[x] = cache[x]
        BY <1>3, <3>1, <4>1
      <4> QED BY <1>1, <1>6, <4>2 DEF Whole
    <3> QED BY <2>4, <3>1 DEF IInv, CacheTrue
  <2>6. PlacedUpToDate'
    <3>1. \A x \in placed : x \in Slots /\ x # slot
      BY <1>2, AskedFacts DEF IInv
    <3> QED BY <1>1, <1>3, <1>4, <2>4, <3>1 DEF IInv, PlacedUpToDate
  <2>7. KeyNext' /\ DownForgets' /\ ListedPlaced'
    BY <1>1, <1>6 DEF KeyNext, DownForgets, ListedPlaced
  <2>8. NothingMissed' /\ NoDanglingReference'
    BY <2>1 DEF NothingMissed, NoDanglingReference
  <2> QED BY <2>3, <2>5, <2>6, <2>7, <2>8 DEF IInv
<1> QED BY <1>5, <1>6 DEF WriteCrt

\* The key follows its certificate, or cannot be written; what is missed then is
\* not placed.
LEMMA WriteKeyKeeps ==
  ASSUME IInv, WriteKey
  PROVE  IInv'
<1>1. PICK slot : slot = Current
  OBVIOUS
<1>2. /\ pc = "key" /\ todo' = todo \ {slot} /\ pc' = "issue"
      /\ crt' = crt /\ yml' = yml /\ caFile' = caFile /\ intermediate' = intermediate
      /\ ca' = ca /\ want' = want /\ material' = material /\ fresh' = fresh
  BY <1>1 DEF WriteKey, machine
<1>3. /\ crt[slot] # NoFile /\ crt[slot].names = NamesOf(slot) /\ crt[slot].signer = SignerOf(slot)
      /\ slot = Default => cache[slot] = NoKey
      /\ todo # {}
  BY <1>1, <1>2 DEF IInv, KeyNext
<1>4. slot \in todo /\ slot \in Slots /\ todo \cap placed = {} /\ slot \in SlotsOf(want, material)
  BY <1>1, <1>3, AskedFacts, CurrentIsLeft DEF IInv, Shape
<1>5. \A x : CacheKey(x)' = CacheKey(x)
  BY <1>2 DEF CacheKey, NamesOf
<1>6. \A x : x # slot /\ Missed(x) => x \in Peers /\ x \notin todo /\ x \notin placed
  BY <1>1, <1>2 DEF Missed
<1>7. CASE /\ Fault(FALSE) /\ key' = [key EXCEPT ![slot] = crt[slot]]
           /\ cache' = [cache EXCEPT ![slot] = CacheKey(slot)] /\ placed' = placed \cup {slot}
  <2>1. /\ faults' \in 0..MaxFaults /\ failed' \in BOOLEAN /\ passFailed' \in BOOLEAN
        /\ (passFailed' => failed') /\ (failed => failed') /\ (passFailed => passFailed')
    BY <1>7, FaultFacts DEF IInv
  <2>2. /\ key' \in [Slots -> Content] /\ key'[slot] = crt[slot] /\ \A x \in Slots : x # slot => key'[x] = key[x]
    BY <1>4, <1>7 DEF IInv, Shape, TypeOK
  <2>3. /\ cache' \in [Slots -> [names : SUBSET AllHosts, signer : Int]] /\ cache'[slot] = CacheKey(slot)
        /\ \A x \in Slots : x # slot => cache'[x] = cache[x]
    <3>1. CacheKey(slot) \in [names : SUBSET AllHosts, signer : Int]
      BY <1>4, AskedFacts DEF IInv
    <3> QED BY <1>4, <1>7, <3>1 DEF IInv, Shape
  <2>4. TypeOK'
    BY <1>2, <1>4, <1>7, <2>1, <2>2 DEF IInv, Shape, TypeOK
  <2>5. Shape'
    BY <1>2, <1>4, <1>7, <2>1, <2>3, <2>4 DEF IInv, Shape
  <2>6. \A x \in Slots : OnDisk(x) => OnDisk(x)'
    BY <1>2, <1>3, <2>2 DEF OnDisk
  <2>7. \A x \in Slots : x # slot => (OnDisk(x)' <=> OnDisk(x)) /\ (Whole(x)' <=> Whole(x))
    BY <1>2, <2>2, <2>3 DEF OnDisk, Whole
  <2>8. \A x : x = slot => OnDisk(x)'
    BY <1>2, <1>3, <2>2 DEF OnDisk
  <2>9. \A x : x = slot => Whole(x)'
    <3>1. /\ crt[slot].names = CacheKey(slot).names
          /\ crt[slot].signer = IF slot \in Peers THEN CacheKey(slot).signer ELSE ca
      <4>1. CASE slot \in Peers
        BY <1>3, <4>1, SlotFacts DEF CacheKey, SignerOf, Peers
      <4>2. CASE slot \notin Peers
        <5>1. slot.kind # "peer"
          BY <1>4, <4>2, SlotFacts
        <5> QED BY <1>3, <4>2, <5>1 DEF CacheKey, SignerOf
      <4> QED BY <4>1, <4>2
    <3> QED BY <1>2, <2>2, <2>3, <3>1 DEF Whole
  <2>10. CacheTrue'
    <3>1. \A x : x # slot /\ Missed(x) => Missed(x)'
      BY <1>2, <1>6, <1>7 DEF Missed
    <3>2. Paired \subseteq Slots
      BY PairedAreSlots
    <3> QED BY <2>3, <2>7, <2>9, <3>1, <3>2 DEF IInv, CacheTrue
  <2>11. PlacedUpToDate'
    <3>1. \A x \in placed : x \in Slots /\ x # slot /\ OnDisk(x) /\ cache[x] = CacheKey(x)
      BY <1>2, <1>4, AskedFacts DEF IInv, PlacedUpToDate
    <3> QED BY <1>5, <1>7, <2>3, <2>7, <2>8, <3>1 DEF PlacedUpToDate
  <2>12. KeyNext' /\ DownForgets' /\ ListedPlaced'
    BY <1>2 DEF KeyNext, DownForgets, ListedPlaced
  <2>13. NothingMissed'
    BY <1>2, <1>7, <2>1 DEF IInv, NothingMissed
  <2>14. NoDanglingReference'
    <3>1. yml.default \cup yml.refs \subseteq Slots
      BY SlotFacts DEF IInv, Shape, TypeOK
    <3> QED BY <1>2, <2>1, <2>6, <3>1 DEF IInv, NoDanglingReference
  <2> QED BY <2>5, <2>10, <2>11, <2>12, <2>13, <2>14 DEF IInv
<1>8. CASE /\ slot.kind = "leaf" => LeafKeyFails
           /\ Fault(TRUE) /\ key' = key /\ cache' = cache /\ placed' = placed
  <2>1. /\ faults' \in 0..MaxFaults /\ failed' \in BOOLEAN /\ passFailed' \in BOOLEAN
        /\ (passFailed' => failed') /\ failed' /\ passFailed'
    BY <1>8, FaultFacts DEF IInv
  <2>2. TypeOK'
    BY <1>2, <1>8, <2>1 DEF IInv, Shape, TypeOK
  <2>3. Shape'
    BY <1>2, <1>8, <2>1, <2>2 DEF IInv, Shape
  <2>4. \A x : (OnDisk(x)' <=> OnDisk(x)) /\ (Whole(x)' <=> Whole(x))
    BY <1>2, <1>8 DEF OnDisk, Whole
  <2>5. CacheTrue'
    <3>1. \A x : x # slot /\ Missed(x) => Missed(x)'
      BY <1>2, <1>6, <1>8 DEF Missed
    <3>2. \A x : x = slot /\ x \in Peers => Missed(x)'
      BY <1>2, <1>4, <1>8 DEF Missed
    <3>3. \A x \in Paired : x = slot => cache'[x] = NoKey \/ x \in Peers
      <4>1. slot \in Leaves => LeafKeyFails
        BY <1>8, SlotFacts
      <4> QED BY <1>3, <1>8, <4>1 DEF Paired, Guarded
    <3> QED BY <1>8, <2>4, <3>1, <3>2, <3>3 DEF IInv, CacheTrue
  <2>6. PlacedUpToDate'
    BY <1>2, <1>5, <1>8, <2>4 DEF IInv, PlacedUpToDate
  <2>7. KeyNext' /\ DownForgets' /\ ListedPlaced'
    BY <1>2 DEF KeyNext, DownForgets, ListedPlaced
  <2>8. NothingMissed' /\ NoDanglingReference'
    BY <2>1 DEF NothingMissed, NoDanglingReference
  <2> QED BY <2>3, <2>5, <2>6, <2>7, <2>8 DEF IInv
<1> QED BY <1>1, <1>7, <1>8 DEF WriteKey

\* proximo-tls.yml is replaced, or stays as it was.
LEMMA WriteTLSConfigKeeps ==
  ASSUME IInv, WriteTLSConfig
  PROVE  IInv'
<1>1. PICK ok \in BOOLEAN : Fault(~ok) /\ yml' = (IF ok THEN TLSConfig ELSE yml) /\ fresh' = ok
  BY DEF WriteTLSConfig
<1>2. /\ pc = "issue" /\ todo = {} /\ pc' = "stale"
      /\ crt' = crt /\ key' = key /\ caFile' = caFile /\ intermediate' = intermediate /\ ca' = ca /\ cache' = cache
      /\ want' = want /\ material' = material /\ todo' = todo /\ placed' = placed
  BY DEF WriteTLSConfig, machine, pass
<1>3. /\ faults' \in 0..MaxFaults /\ failed' \in BOOLEAN /\ passFailed' \in BOOLEAN
      /\ (passFailed' => failed') /\ (failed => failed') /\ (passFailed => passFailed') /\ (~ok => failed' /\ passFailed')
  <2>1. CASE ok
    <3>1. Fault(FALSE)
      BY <1>1, <2>1
    <3> QED BY <2>1, <3>1, FaultFacts DEF IInv
  <2>2. CASE ~ok
    <3>1. Fault(TRUE)
      BY <1>1, <2>2
    <3> QED BY <2>2, <3>1, FaultFacts DEF IInv
  <2> QED BY <2>1, <2>2
<1>4. /\ placed \subseteq Slots /\ DOMAIN want \subseteq Safes
      /\ \A s \in DOMAIN want : Leaf(s) \in SlotsOf(want, material) /\ Leaf(s) \in Leaves
      /\ Default \in SlotsOf(want, material)
  BY AskedFacts DEF IInv, SlotsOf, Leaves
<1>5. /\ TLSConfig.default \subseteq ({Default} \cap placed) \cup {Leaf(s) : s \in DOMAIN want}
      /\ TLSConfig.refs \subseteq {Leaf(s) : s \in DOMAIN want} \cup (placed \cap Peers)
  BY DEF TLSConfig, NoTLS
<1>6. /\ yml'.default \subseteq Slots /\ yml'.refs \subseteq Leaves \cup Peers
  <2>1. CASE ok
    BY <1>1, <1>4, <1>5, <2>1, SlotFacts
  <2>2. CASE ~ok
    BY <1>1, <2>2 DEF IInv, Shape, TypeOK
  <2> QED BY <2>1, <2>2
<1>7. TypeOK'
  BY <1>1, <1>2, <1>3, <1>6 DEF IInv, Shape, TypeOK
<1>8. Shape'
  BY <1>2, <1>3, <1>7 DEF IInv, Shape
<1>9. \A x : (OnDisk(x)' <=> OnDisk(x)) /\ (Whole(x)' <=> Whole(x)) /\ CacheKey(x)' = CacheKey(x)
             /\ (Missed(x) => Missed(x)')
  BY <1>2 DEF OnDisk, Whole, CacheKey, NamesOf, Missed
<1>10. CacheTrue' /\ PlacedUpToDate'
  BY <1>2, <1>9 DEF IInv, CacheTrue, PlacedUpToDate
<1>11. KeyNext' /\ DownForgets'
  BY <1>2 DEF KeyNext, DownForgets
<1>12. ListedPlaced'
  <2>1. ASSUME ok PROVE Listed' \cap Guarded \subseteq placed
    <3>1. Listed' = TLSConfig.default \cup TLSConfig.refs
      BY <1>1, <2>1 DEF Listed
    <3>2. \A s \in DOMAIN want : Leaf(s) \notin Guarded
      BY SlotFacts DEF Guarded, Peers
    <3> QED BY <1>5, <3>1, <3>2
  <2> QED BY <1>1, <1>2, <2>1 DEF ListedPlaced
<1>13. ~passFailed' => Listed' \subseteq placed
  <2>1. ASSUME ~passFailed' PROVE Listed' \subseteq placed
    <3>1. ok /\ SlotsOf(want, material) \subseteq placed
      BY <1>2, <1>3, <2>1 DEF IInv, NothingMissed
    <3>2. Listed' = TLSConfig.default \cup TLSConfig.refs
      BY <1>1, <3>1 DEF Listed
    <3> QED BY <1>4, <1>5, <3>1, <3>2
  <2> QED BY <2>1
<1>14. NothingMissed'
  <2>1. ~passFailed' => SlotsOf(want, material) \subseteq placed
    BY <1>2, <1>3 DEF IInv, NothingMissed
  <2>2. SlotsOf(want', material') = SlotsOf(want, material)
    BY <1>2
  <2> QED BY <1>2, <1>13, <2>1, <2>2 DEF NothingMissed
<1>15. NoDanglingReference'
  <2>1. \A x \in placed : OnDisk(x)'
    BY <1>2, <1>9 DEF IInv, PlacedUpToDate
  <2> QED BY <1>3, <1>13, <2>1 DEF NoDanglingReference, Listed
<1> QED BY <1>8, <1>10, <1>11, <1>12, <1>14, <1>15 DEF IInv

\* The sweeps take what is not in place, and what they cannot take fails the pass.
LEMMA RemoveStaleKeeps ==
  ASSUME IInv, RemoveStale
  PROVE  IInv'
<1>1. PICK keptCrt \in SUBSET Slots, keptKey \in SUBSET Slots, gone \in BOOLEAN :
        /\ Fault(gone)
        /\ crt' = [x \in Slots |-> IF x \in Stale \ keptCrt THEN NoFile ELSE crt[x]]
        /\ key' = [x \in Slots |-> IF x \in Stale \ keptKey THEN NoFile ELSE key[x]]
  <2>1. Stale \subseteq Slots
    BY SlotFacts DEF Stale
  <2>2. PICK c \in {{}} \cup {{x} : x \in Stale}, k \in {{}} \cup {{x} : x \in Stale} :
          /\ Fault(c \cup k # {})
          /\ crt' = [x \in Slots |-> IF x \in Stale \ c THEN NoFile ELSE crt[x]]
          /\ key' = [x \in Slots |-> IF x \in Stale \ k THEN NoFile ELSE key[x]]
    BY DEF RemoveStale
  <2>3. c \in SUBSET Slots /\ k \in SUBSET Slots
    BY <2>1, <2>2
  <2>4. CASE c \cup k # {}
    <3>1. Fault(TRUE)
      BY <2>2, <2>4
    <3> QED BY <2>2, <2>3, <3>1
  <2>5. CASE c \cup k = {}
    <3>1. Fault(FALSE)
      BY <2>2, <2>5
    <3> QED BY <2>2, <2>3, <3>1
  <2> QED BY <2>4, <2>5
<1>2. /\ pc = "stale" /\ pc' = "end" /\ cache' = [x \in Slots |-> IF x \in Stale THEN NoKey ELSE cache[x]]
      /\ yml' = yml /\ caFile' = caFile /\ intermediate' = intermediate /\ ca' = ca /\ fresh' = fresh
      /\ want' = want /\ material' = material /\ todo' = todo /\ placed' = placed
  BY DEF RemoveStale, machine, pass
<1>3. /\ faults' \in 0..MaxFaults /\ failed' \in BOOLEAN /\ passFailed' \in BOOLEAN
      /\ (passFailed' => failed') /\ (failed => failed') /\ (passFailed => passFailed')
  BY <1>1, FaultFacts DEF IInv
<1>4. NoFile \in Content /\ NoKey \in [names : SUBSET AllHosts, signer : Int]
  <2>1. {} \in SUBSET AllHosts
    OBVIOUS
  <2>2. NoKey \in [names : SUBSET AllHosts, signer : Int]
    BY <2>1 DEF NoKey
  <2>3. NoFile \in Content
    BY CertsAssumption DEF NoFile, Content, CertsAssumption
  <2> QED BY <2>2, <2>3
<1>5. crt' \in [Slots -> Content] /\ key' \in [Slots -> Content]
  BY <1>1, <1>4 DEF IInv, Shape, TypeOK
<1>6. cache' \in [Slots -> [names : SUBSET AllHosts, signer : Int]]
  BY <1>2, <1>4 DEF IInv, Shape
<1>7. TypeOK'
  BY <1>2, <1>3, <1>5 DEF IInv, Shape, TypeOK
<1>8. Shape'
  BY <1>2, <1>3, <1>6, <1>7 DEF IInv, Shape
<1>9. \A x \in placed : x \in Slots /\ x \notin Stale
  <2>1. ASSUME NEW x \in placed, x \in Leaves PROVE x.safe \in DOMAIN want
    <3>1. x \in SlotsOf(want, material)
      BY <2>1 DEF IInv, Shape
    <3>2. PICK s \in DOMAIN want : x = Leaf(s)
      BY <2>1, <3>1, SlotFacts DEF SlotsOf, Leaves
    <3> QED BY <3>2, SlotFacts
  <2>2. \A x \in Peers : x \notin Leaves
    BY SlotFacts DEF Peers, Leaves
  <2> QED BY <2>1, <2>2, AskedFacts DEF IInv, Stale
<1>10. \A x \in Slots : x \notin Stale => /\ crt'[x] = crt[x] /\ key'[x] = key[x] /\ cache'[x] = cache[x]
                                          /\ (OnDisk(x)' <=> OnDisk(x)) /\ (Whole(x)' <=> Whole(x))
  BY <1>1, <1>2 DEF OnDisk, Whole
<1>11. \A x : CacheKey(x)' = CacheKey(x)
  BY <1>2 DEF CacheKey, NamesOf
<1>12. CacheTrue'
  <2>1. ASSUME NEW x \in Paired, cache'[x] # NoKey, OnDisk(x)' PROVE Whole(x)'
    <3>1. x \in Slots
      BY PairedAreSlots
    <3>2. x \notin Stale
      BY <1>2, <2>1, <3>1
    <3>3. cache[x] # NoKey /\ OnDisk(x)
      BY <1>10, <2>1, <3>1, <3>2
    <3>4. x \in Peers => x \in placed
      BY <3>2, <3>3 DEF Stale, OnDisk
    <3>6. ~Missed(x)
      BY <1>2, <3>4 DEF Missed
    <3>7. Whole(x)
      BY <3>3, <3>6 DEF IInv, CacheTrue
    <3> QED BY <1>10, <3>1, <3>2, <3>7
  <2> QED BY <2>1 DEF CacheTrue
<1>13. PlacedUpToDate'
  BY <1>2, <1>9, <1>10, <1>11 DEF IInv, PlacedUpToDate
<1>14. KeyNext' /\ DownForgets'
  BY <1>2 DEF KeyNext, DownForgets
<1>15. ListedPlaced' /\ NothingMissed'
  BY <1>2, <1>3 DEF IInv, ListedPlaced, Listed, NothingMissed
<1>16. NoDanglingReference'
  <2>1. \A x \in placed : OnDisk(x)'
    BY <1>2, <1>9, <1>10 DEF IInv, PlacedUpToDate
  <2>2. ~failed' => Listed \subseteq placed
    BY <1>2, <1>3 DEF IInv, NothingMissed
  <2> QED BY <1>2, <2>1, <2>2 DEF NoDanglingReference, Listed
<1> QED BY <1>8, <1>12, <1>13, <1>14, <1>15, <1>16 DEF IInv

\* A pass ends, and one in which nothing failed leaves nothing failed.
LEMMA EndKeeps ==
  ASSUME IInv, End
  PROVE  IInv'
<1>1. /\ pc = "end" /\ pc' = "idle" /\ faults' = faults
      /\ crt' = crt /\ key' = key /\ yml' = yml /\ caFile' = caFile /\ intermediate' = intermediate
      /\ ca' = ca /\ cache' = cache /\ want' = want /\ material' = material /\ todo' = todo /\ placed' = placed
  BY DEF End, disk, machine, pass
<1>2. failed' = passFailed /\ passFailed' = passFailed /\ fresh' = fresh
  BY Zenon DEF End
<1>3. failed' \in BOOLEAN /\ passFailed' \in BOOLEAN /\ (passFailed' => failed')
  BY <1>2, Zenon DEF IInv, Shape
<1>4. TypeOK'
  BY <1>1, <1>2, <1>3 DEF IInv, Shape, TypeOK
<1>5. Shape'
  BY <1>1, <1>3, <1>4 DEF IInv, Shape
<1>6. \A x : /\ (OnDisk(x)' <=> OnDisk(x)) /\ (Whole(x)' <=> Whole(x)) /\ CacheKey(x)' = CacheKey(x)
             /\ ~Missed(x)
  BY <1>1 DEF OnDisk, Whole, CacheKey, NamesOf, Missed
<1>7. CacheTrue' /\ PlacedUpToDate'
  BY <1>1, <1>6 DEF IInv, CacheTrue, PlacedUpToDate
<1>8. KeyNext' /\ DownForgets' /\ NothingMissed'
  BY <1>1, <1>2 DEF IInv, KeyNext, DownForgets, NothingMissed
<1>9. ListedPlaced'
  BY <1>1, <1>2 DEF IInv, ListedPlaced, Listed
<1>10. NoDanglingReference'
  <2>1. \A x \in placed : OnDisk(x)'
    BY <1>1, <1>6 DEF IInv, PlacedUpToDate
  <2>2. ~failed' => Listed \subseteq placed
    BY <1>1, <1>2 DEF IInv, NothingMissed
  <2> QED BY <1>1, <2>1, <2>2 DEF NoDanglingReference, Listed
<1> QED BY <1>5, <1>7, <1>8, <1>9, <1>10 DEF IInv

-----------------------------------------------------------------------------
\* Every step of the machine and of a pass keeps the invariant.
LEMMA Inductive == IInv /\ [Next]_vars => IInv'
<1> SUFFICES ASSUME IInv, [Next]_vars PROVE IInv'
  OBVIOUS
<1>1. caFile \in 1..MaxEpoch /\ intermediate \in 0..MaxEpoch /\ MaxEpoch \in Nat
  BY CertsAssumption DEF IInv, Shape, TypeOK, CertsAssumption
<1>2. CASE ReplaceCA
  BY <1>1, <1>2, MachineKeeps DEF ReplaceCA
<1>3. CASE Ceremony
  BY <1>1, <1>3, MachineKeeps DEF Ceremony
<1>4. CASE Withdraw
  BY <1>1, <1>4, MachineKeeps DEF Withdraw
<1>5. CASE \E x \in Slots : LoseFile(x)
  BY <1>5, LoseFileKeeps
<1>6. CASE Kill
  BY <1>6, KillKeeps
<1>7. CASE Boot
  BY <1>7, BootKeeps
<1>8. CASE SyncCerts
  <2>1. CASE \E w \in Wants : Begin(w)
    BY <2>1, BeginKeeps
  <2>2. CASE Skip
    BY <2>2, SkipKeeps
  <2>3. CASE WriteCrt
    BY <2>3, WriteCrtKeeps
  <2>4. CASE WriteKey
    BY <2>4, WriteKeyKeeps
  <2>5. CASE WriteTLSConfig
    BY <2>5, WriteTLSConfigKeeps
  <2>6. CASE RemoveStale
    BY <2>6, RemoveStaleKeeps
  <2>7. CASE End
    BY <2>7, EndKeeps
  <2> QED BY <1>8, <2>1, <2>2, <2>3, <2>4, <2>5, <2>6, <2>7 DEF SyncCerts
<1>9. CASE UNCHANGED vars
  BY <1>1, <1>9, MachineKeeps DEF vars, machine
<1> QED BY <1>2, <1>3, <1>4, <1>5, <1>6, <1>7, <1>8, <1>9 DEF Next

\* The inductive invariant holds of every state of every run.
THEOREM Invariant == Spec => []IInv
<1>1. Init => IInv
  BY Initial
<1>2. IInv /\ [Next]_vars => IInv'
  BY Inductive
<1> QED BY <1>1, <1>2, PTL DEF Spec

\* The pairs, the cache and the pass of syncCerts keep their types.
THEOREM CertsTyped == Spec => []TypeOK
<1>1. IInv => TypeOK
  BY DEF IInv, Shape
<1> QED BY <1>1, Invariant, PTL

\* No step of a pass and no kill leaves proximo-tls.yml naming a pair that does
\* not exist, unless an operation failed since the last clean pass.
THEOREM ListedExists == Spec => []NoDanglingReference
<1>1. IInv => NoDanglingReference
  BY DEF IInv
<1> QED BY <1>1, Invariant, PTL

\* A default that is listed is whole and of the CA the process loaded, whatever
\* an earlier run of the watcher left in the certificate directory.
THEOREM DefaultOfThisCA == Spec => []DefaultIsOurs
<1>1. IInv => DefaultIsOurs
  <2> SUFFICES ASSUME IInv, fresh, pc = "idle", Default \in yml.default
               PROVE  Matches(Default) /\ crt[Default].signer = ca
    BY DEF DefaultIsOurs
  <2>1. Default \in Guarded
    BY DEF Guarded
  <2>2. Default \in placed
    BY <2>1 DEF IInv, ListedPlaced, Listed
  <2>3. OnDisk(Default) /\ Whole(Default)
    BY <2>1, <2>2, PairedAreSlots, PlacedWhole
  <2> QED BY <2>3, SlotFacts DEF Matches, Whole
<1> QED BY <1>1, Invariant, PTL

\* A listed peer leaf is whole, names what its route serves and is signed by the
\* intermediate the pass read, whatever failed or was killed before.
THEOREM PeerLeavesCurrent == Spec => []PeerLeafCurrent
<1>1. IInv => PeerLeafCurrent
  <2> SUFFICES ASSUME IInv, fresh, pc = "idle", NEW x \in yml.refs \cap Peers
               PROVE  Matches(x) /\ crt[x].names = NamesOf(x) /\ crt[x].signer = material
    BY DEF PeerLeafCurrent
  <2>1. x \in Guarded /\ x # Default /\ x.kind = "peer"
    BY SlotFacts DEF Guarded, Peers
  <2>2. x \in placed
    BY <2>1 DEF IInv, ListedPlaced, Listed
  <2>3. OnDisk(x) /\ cache[x] = CacheKey(x) /\ Whole(x)
    BY <2>1, <2>2, PairedAreSlots, PlacedWhole
  <2>4. CacheKey(x).names = NamesOf(x) /\ CacheKey(x).signer = material
    BY <2>1 DEF CacheKey
  <2> QED BY <2>1, <2>3, <2>4 DEF Matches, Whole
<1> QED BY <1>1, Invariant, PTL

\* After a pass in which nothing failed every route has the certificate of its
\* hosts, with its key, under the loaded CA, if the key of a leaf can be written.
THEOREM RoutesCertified == ~LeafKeyFails => (Spec => []LeafMatchesRoute)
<1> SUFFICES ASSUME ~LeafKeyFails PROVE Spec => []LeafMatchesRoute
  OBVIOUS
<1>1. IInv => LeafMatchesRoute
  <2> SUFFICES ASSUME IInv, fresh, pc = "idle", ~passFailed, NEW s \in DOMAIN want
               PROVE  /\ Matches(Leaf(s))
                      /\ crt[Leaf(s)].names = want[s].hosts /\ crt[Leaf(s)].signer = ca
    BY DEF LeafMatchesRoute
  <2>1. Leaf(s) \in placed
    BY DEF IInv, NothingMissed, SlotsOf
  <2>2. Leaf(s) \in Paired /\ Leaf(s) \notin Peers /\ Leaf(s) # Default
    BY AskedFacts, SlotFacts DEF IInv, Paired, Leaves, Peers
  <2>3. OnDisk(Leaf(s)) /\ cache[Leaf(s)] = CacheKey(Leaf(s)) /\ Whole(Leaf(s))
    BY <2>1, <2>2, PlacedWhole
  <2>4. CacheKey(Leaf(s)).names = want[s].hosts
    BY <2>2, SlotFacts DEF CacheKey, NamesOf
  <2> QED BY <2>2, <2>3, <2>4 DEF Matches, Whole
<1> QED BY <1>1, Invariant, PTL

=============================================================================
