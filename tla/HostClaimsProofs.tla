-------------------------- MODULE HostClaimsProofs --------------------------
(***************************************************************************)
(* The claim loop decides what Routing says it does, for any groups: the     *)
(* inductive invariant of HostClaims holds, and with it LoopDecides and      *)
(* LossesReported.                                                          *)
(***************************************************************************)
EXTENDS HostClaims, TLAPS

USE HostClaimsAssumption

\* The claim order is strict: no host goes to each of two groups.
LEMMA PrecedesAsymmetric ==
  ASSUME NEW gs \in GroupSets, NEW g \in gs, NEW o \in gs, NEW h,
         Precedes(g, o, h), Precedes(o, g, h)
  PROVE  FALSE
BY DEF Precedes

\* The loop comes to a host in the claim order: when group g, the next in name
\* order, is visited, every other group already reached for h precedes g on h.
LEMMA ReachedBefore ==
  ASSUME IInv, NEW g \in left, InOrder(g), NEW h \in Asked(g),
         NEW o \in groups, o # g, Reached(o, h)
  PROVE  Precedes(o, g, h)
<1>1. round # "done" /\ round \in {"declared", "generated"}
  BY DEF IInv, TypeOK
<1>2. g \in groups /\ groups \in GroupSets
  BY DEF IInv, TypeOK
<1>3. o \notin left => o.name < g.name
  BY DEF IInv
<1>4. CASE h \in g.gen
  <2>1. round = "generated"
    BY <1>4 DEF Asked
  <2>2. QED
    BY <2>1, <1>3, <1>4 DEF Reached, Precedes
<1>5. CASE h \notin g.gen
  <2>1. round = "declared"
    BY <1>1, <1>5 DEF Asked
  <2>2. QED
    BY <2>1, <1>3, <1>5 DEF Reached, Precedes
<1>6. QED
  BY <1>4, <1>5

\* Visiting or passing group g makes the loop reach exactly g's hosts of the
\* round besides those already reached.
LEMMA ReachedAfter ==
  ASSUME IInv, NEW g \in left, left' = left \ {g}, round' = round,
         NEW o \in groups, NEW h \in o.hosts
  PROVE  Reached(o, h)' <=> (Reached(o, h) \/ (o = g /\ h \in Asked(g)))
<1>1. round \in {"declared", "generated"}
  BY DEF IInv, TypeOK
<1>2. QED
  BY <1>1 DEF Reached, Asked

\* Before the first round nothing is reached, so nothing is claimed or lost.
LEMMA InitInv == Init => IInv
<1> SUFFICES ASSUME Init PROVE IInv
  OBVIOUS
<1>1. TypeOK
  BY DEF Init, TypeOK, GroupNames
<1>2. \A g \in groups : \A h \in g.hosts : ~Reached(g, h)
  BY DEF Init, Reached
<1>3. \A g \in groups : survived[g.name] = {}
  BY DEF Init
<1>4. QED
  BY <1>1, <1>2, <1>3 DEF Init, IInv

\* A native group is passed by: it claims nothing and loses nothing.
LEMMA PassInv == ASSUME IInv, NEW g \in left, Pass(g) PROVE IInv'
<1> USE DEF Pass
<1>0. g \in groups /\ groups \in GroupSets /\ left \subseteq groups
  BY DEF IInv, TypeOK
<1>1. TypeOK'
  BY DEF IInv, TypeOK, GroupNames
<1>2. (round = "done" => left = {})'
  BY DEF IInv
<1>3. (\A p \in left, o \in groups \ left : o.name < p.name)'
  BY <1>0 DEF IInv, InOrder
<1>4. NativeHosts(groups)' = NativeHosts(groups)
  OBVIOUS
<1>5. ASSUME NEW e \in claimed' PROVE EntrySound(e)'
  <2>1. EntrySound(e)
    BY <1>5 DEF IInv
  <2>2. PICK p \in groups :
          /\ p.name = e.owner /\ e.host \in survived[p.name]
          /\ Claims(p, e.host, e.path) /\ e.host \notin NativeHosts(groups) /\ Reached(p, e.host)
          /\ \A o \in groups : (Claims(o, e.host, e.path) /\ Reached(o, e.host)) => (o = p \/ Precedes(p, o, e.host))
    BY <2>1 DEF EntrySound
  <2>3. \A o \in groups : Claims(o, e.host, e.path) => (Reached(o, e.host)' <=> Reached(o, e.host))
    BY ReachedAfter, <1>0 DEF Claims
  <2>4. QED
    BY <2>2, <2>3, <1>4 DEF EntrySound, Claims, Precedes
<1>6. (\A p \in groups : \A h \in p.hosts :
         (p.proximo /\ Reached(p, h) /\ h \notin NativeHosts(groups)) => Held(h, p.path))'
  BY ReachedAfter, <1>4 DEF IInv, Held
<1>7. (\A p \in groups : \A h \in survived[p.name] :
         \E e \in claimed : e.host = h /\ e.path = p.path /\ e.owner = p.name)'
  BY DEF IInv
<1>8. QED
  BY <1>1, <1>2, <1>3, <1>5, <1>6, <1>7 DEF IInv

\* A visit claims the group's hosts of the round that nobody ahead of it holds.
LEMMA VisitInv == ASSUME IInv, NEW g \in left, Visit(g) PROVE IInv'
<1> DEFINE New == {[host |-> h, path |-> g.path, owner |-> g.name] : h \in Free(g)}
<1>0. /\ g \in groups /\ groups \in GroupSets /\ left \subseteq groups
      /\ groups' = groups /\ round' = round /\ left' = left \ {g}
      /\ claimed' = claimed \cup New /\ g.proximo /\ InOrder(g)
  BY DEF IInv, TypeOK, Visit
<1>00. survived \in [GroupNames -> SUBSET UNION {p.hosts : p \in groups}] /\ g.name \in GroupNames
  BY <1>0 DEF IInv, TypeOK, GroupNames
<1>01. survived' = [survived EXCEPT ![g.name] = survived[g.name] \cup Free(g)]
  BY DEF Visit
<1>02. \A p \in groups : survived'[p.name] = IF p = g THEN survived[g.name] \cup Free(g) ELSE survived[p.name]
  BY <1>0, <1>00, <1>01 DEF GroupNames
<1>03. Free(g) \subseteq g.hosts /\ Free(g) \subseteq Asked(g)
  BY DEF Free, Asked
<1>1. TypeOK'
  <2>1. survived' \in [GroupNames' -> SUBSET UNION {p.hosts : p \in groups'}]
    <3>1. survived[g.name] \cup Free(g) \in SUBSET UNION {p.hosts : p \in groups}
      BY <1>0, <1>00, <1>03
    <3>2. QED
      BY <3>1, <1>0, <1>00, <1>01 DEF GroupNames
  <2>2. QED
    BY <2>1, <1>0 DEF IInv, TypeOK
<1>2. (round = "done" => left = {})'
  BY <1>0 DEF IInv
<1>3. (\A p \in left, o \in groups \ left : o.name < p.name)'
  BY <1>0 DEF IInv, InOrder
<1>4. NativeHosts(groups)' = NativeHosts(groups)
  BY <1>0
<1>5. ASSUME NEW e \in claimed' PROVE EntrySound(e)'
  <2>1. CASE e \in claimed
    <3>1. PICK p \in groups :
            /\ p.name = e.owner /\ e.host \in survived[p.name]
            /\ Claims(p, e.host, e.path) /\ e.host \notin NativeHosts(groups) /\ Reached(p, e.host)
            /\ \A o \in groups : (Claims(o, e.host, e.path) /\ Reached(o, e.host)) => (o = p \/ Precedes(p, o, e.host))
      BY <2>1 DEF IInv, EntrySound
    <3>2. ASSUME NEW o \in groups, Claims(o, e.host, e.path), Reached(o, e.host)'
          PROVE  o = p \/ Precedes(p, o, e.host)
      <4>1. Reached(o, e.host) \/ (o = g /\ e.host \in Asked(g))
        BY <3>2, ReachedAfter, <1>0 DEF Claims
      <4>2. CASE o = g /\ e.host \in Asked(g)
        BY <4>2, <3>1, ReachedBefore, <1>0
      <4>3. QED
        BY <4>1, <4>2, <3>1, <3>2
    <3>3. Reached(p, e.host)'
      BY <3>1, ReachedAfter, <1>0 DEF Claims
    <3>4. e.host \in survived'[p.name]
      BY <3>1, <1>02
    <3>5. QED
      BY <3>1, <3>2, <3>3, <3>4, <1>0, <1>4 DEF EntrySound, Claims, Precedes
  <2>2. CASE e \in New
    <3>1. PICK h \in Free(g) : e = [host |-> h, path |-> g.path, owner |-> g.name]
      BY <2>2
    <3>2. h \in g.hosts /\ h \in Asked(g) /\ h \notin NativeHosts(groups) /\ ~Held(h, g.path)
      BY <3>1 DEF Free, Asked
    <3>3. ASSUME NEW o \in groups, Claims(o, h, g.path), Reached(o, h)' PROVE o = g
      <4>1. SUFFICES ASSUME o # g PROVE FALSE
        OBVIOUS
      <4>2. Reached(o, h)
        BY <4>1, <3>3, ReachedAfter, <1>0 DEF Claims
      <4>3. Held(h, o.path)
        BY <4>2, <3>2, <3>3 DEF IInv, Claims
      <4>4. QED
        BY <4>3, <3>2, <3>3 DEF Claims
    <3>4. Reached(g, h)'
      BY <3>2, ReachedAfter, <1>0
    <3>5. Claims(g, h, g.path) /\ h \in survived'[g.name]
      BY <3>1, <3>2, <1>0, <1>02 DEF Claims
    <3>6. e.host = h /\ e.path = g.path /\ e.owner = g.name
      BY <3>1
    <3>7. QED
      BY <3>2, <3>3, <3>4, <3>5, <3>6, <1>0, <1>4 DEF EntrySound, Claims
  <2>3. QED
    BY <2>1, <2>2, <1>0, <1>5
<1>6. ASSUME NEW p \in groups, NEW h \in p.hosts,
             p.proximo, Reached(p, h)', h \notin NativeHosts(groups)
      PROVE  Held(h, p.path)'
  <2>1. CASE Reached(p, h)
    <3>1. Held(h, p.path)
      BY <2>1, <1>6 DEF IInv
    <3>2. QED
      BY <3>1, <1>0 DEF Held
  <2>2. CASE p = g /\ h \in Asked(g)
    <3>1. CASE Held(h, g.path)
      BY <3>1, <2>2, <1>0 DEF Held
    <3>2. CASE h \in Free(g)
      <4>1. [host |-> h, path |-> g.path, owner |-> g.name] \in claimed'
        BY <3>2, <1>0
      <4>2. QED
        BY <4>1, <2>2 DEF Held
    <3>3. QED
      BY <3>1, <3>2, <2>2, <1>6 DEF Free
  <2>3. QED
    BY <2>1, <2>2, <1>6, ReachedAfter, <1>0
<1>7. ASSUME NEW p \in groups, NEW h \in survived'[p.name]
      PROVE  \E e \in claimed' : e.host = h /\ e.path = p.path /\ e.owner = p.name
  <2>1. CASE h \in survived[p.name]
    BY <2>1, <1>0 DEF IInv
  <2>2. CASE p = g /\ h \in Free(g)
    <3>1. [host |-> h, path |-> g.path, owner |-> g.name] \in claimed'
      BY <2>2, <1>0
    <3>2. QED
      BY <3>1, <2>2
  <2>3. QED
    BY <2>1, <2>2, <1>02, <1>7
<1>8. QED
  BY <1>0, <1>1, <1>2, <1>3, <1>4, <1>5, <1>6, <1>7 DEF IInv

\* After the first round all groups are to come again, after the second none is left.
LEMMA RoundInv == ASSUME IInv, NextRound \/ Finish PROVE IInv'
<1> USE DEF NextRound, Finish
<1>1. TypeOK'
  BY DEF IInv, TypeOK, GroupNames
<1>2. (round = "done" => left = {})'
  BY DEF IInv
<1>3. (\A p \in left, o \in groups \ left : o.name < p.name)'
  BY DEF IInv
<1>4. \A p, h : p \in groups => (Reached(p, h)' <=> Reached(p, h))
  BY DEF Reached
<1>5. ASSUME NEW e \in claimed' PROVE EntrySound(e)'
  <2>1. EntrySound(e)
    BY <1>5 DEF IInv
  <2>2. QED
    BY <2>1, <1>4 DEF EntrySound
<1>6. (\A p \in groups : \A h \in p.hosts :
         (p.proximo /\ Reached(p, h) /\ h \notin NativeHosts(groups)) => Held(h, p.path))'
  BY <1>4 DEF IInv, Held
<1>7. (\A p \in groups : \A h \in survived[p.name] :
         \E e \in claimed : e.host = h /\ e.path = p.path /\ e.owner = p.name)'
  BY DEF IInv
<1>8. QED
  BY <1>1, <1>2, <1>3, <1>5, <1>6, <1>7 DEF IInv

\* Every step of the loop keeps the invariant.
LEMMA NextInv == IInv /\ [Next]_vars => IInv'
<1> SUFFICES ASSUME IInv, [Next]_vars PROVE IInv'
  OBVIOUS
<1>1. CASE \E g \in left : Pass(g) \/ Visit(g)
  BY <1>1, PassInv, VisitInv
<1>2. CASE NextRound \/ Finish
  BY <1>2, RoundInv
<1>3. CASE UNCHANGED vars
  BY <1>3 DEF vars, IInv, TypeOK, GroupNames, EntrySound, Reached, Held
<1>4. QED
  BY <1>1, <1>2, <1>3 DEF Next

\* The claim loop keeps its inductive invariant for every set of groups: groups
\* are taken in name order, and whoever holds a host is ahead of every claimant
\* the loop has come to.
THEOREM LoopInvariant == Spec => []IInv
<1>1. QED
  BY InitInv, NextInv, PTL DEF Spec

\* When the loop has ended, what a group holds is what no claimant precedes it on.
LEMMA InvDecides == IInv => LoopDecides
<1> SUFFICES ASSUME IInv, round = "done", NEW g \in groups, g.proximo
             PROVE  survived[g.name] = survivors(g, groups)
  BY DEF LoopDecides
<1>0. groups \in GroupSets
  BY DEF IInv, TypeOK
<1>1. ASSUME NEW h \in survived[g.name] PROVE h \in survivors(g, groups)
  <2>1. PICK e \in claimed : e.host = h /\ e.path = g.path /\ e.owner = g.name
    BY <1>1 DEF IInv
  <2>2. PICK p \in groups :
          /\ p.name = e.owner /\ Claims(p, h, g.path) /\ h \notin NativeHosts(groups)
          /\ \A o \in groups : (Claims(o, h, g.path) /\ Reached(o, h)) => (o = p \/ Precedes(p, o, h))
    BY <2>1 DEF IInv, EntrySound
  <2>3. p = g
    BY <2>1, <2>2, <1>0
  <2>4. QED
    BY <2>2, <2>3 DEF survivors, Claims, Reached
<1>2. ASSUME NEW h \in survivors(g, groups) PROVE h \in survived[g.name]
  <2>1. h \in g.hosts /\ h \notin NativeHosts(groups)
        /\ \A o \in groups \ {g} : Claims(o, h, g.path) => Precedes(g, o, h)
    BY <1>2 DEF survivors
  <2>2. Held(h, g.path)
    BY <2>1 DEF IInv, Reached
  <2>3. PICK e \in claimed : e.host = h /\ e.path = g.path
    BY <2>2 DEF Held
  <2>4. PICK p \in groups :
          /\ h \in survived[p.name] /\ Claims(p, h, g.path)
          /\ \A o \in groups : (Claims(o, h, g.path) /\ Reached(o, h)) => (o = p \/ Precedes(p, o, h))
    BY <2>3 DEF IInv, EntrySound
  <2>5. p = g
    <3>1. SUFFICES ASSUME p # g PROVE FALSE
      OBVIOUS
    <3>2. Precedes(g, p, h)
      BY <3>1, <2>1, <2>4
    <3>3. Claims(g, h, g.path) /\ Reached(g, h)
      BY <2>1 DEF Claims, Reached
    <3>4. Precedes(p, g, h)
      BY <3>1, <3>3, <2>4
    <3>5. QED
      BY <3>2, <3>4, PrecedesAsymmetric, <1>0
  <2>6. QED
    BY <2>4, <2>5
<1>3. QED
  BY <1>1, <1>2

\* The loop of resolveRoutes implements its declarative reading, whatever
\* containers are running: a proximo group ends up with exactly the hosts that
\* no native rule has and no other claimant precedes it on.
THEOREM LoopCorrect == Spec => []LoopDecides
<1>1. QED
  BY LoopInvariant, InvDecides, PTL

-----------------------------------------------------------------------------
(***************************************************************************)
(* The losses.                                                              *)
(***************************************************************************)
\* Group g was asked about host h and did not get it.
Lost(g, h) == g.proximo /\ h \in g.hosts /\ Reached(g, h) /\ h \notin survived[g.name]

\* Strengthening: a host has one holder under a path, so the owner noted with a loss
\* stays its owner, and what was noted is what was asked for and not got.
LossInv ==
  /\ \A e, f \in claimed : (e.host = f.host /\ e.path = f.path) => e.owner = f.owner
  /\ \A l \in losses : \E g \in groups : \E h \in g.hosts : Lost(g, h) /\ l = LossOf(g, h)
  /\ \A g \in groups : \A h \in g.hosts : Lost(g, h) => LossOf(g, h) \in losses

\* Whoever holds a host is its holder, now and after a step that keeps every entry.
LEMMA HolderIs ==
  ASSUME NEW C, NEW e \in C, \A d, f \in C : (d.host = f.host /\ d.path = f.path) => d.owner = f.owner
  PROVE  (CHOOSE f \in C : f.host = e.host /\ f.path = e.path).owner = e.owner
<1>1. \E f \in C : f.host = e.host /\ f.path = e.path
  OBVIOUS
<1> QED
  BY <1>1

\* Before the loop has begun nobody holds anything and nothing was lost.
LEMMA InitLoss == Init => LossInv
BY DEF Init, LossInv, Lost, Reached

\* Coming to a group that is not proximo's loses nothing: it asks for no host.
LEMMA PassLoss ==
  ASSUME IInv, LossInv, NEW g \in left, Pass(g)
  PROVE  LossInv'
<1>1. /\ groups' = groups /\ round' = round /\ left' = left \ {g} /\ claimed' = claimed
      /\ survived' = survived /\ losses' = losses /\ ~g.proximo /\ g \in groups
  BY DEF Pass, IInv, TypeOK
<1>2. \A o \in groups : \A h \in o.hosts : Lost(o, h)' <=> Lost(o, h)
  BY <1>1, ReachedAfter DEF Lost
<1>3. \A o, h : LossOf(o, h)' = LossOf(o, h)
  BY <1>1 DEF LossOf, Holder
<1> QED
  BY <1>1, <1>2, <1>3 DEF LossInv

\* Coming to a group notes exactly the hosts it asked for and did not get; what was
\* noted before keeps its owner, because no entry of claimed is ever displaced.
LEMMA VisitLoss ==
  ASSUME IInv, LossInv, NEW g \in left, Visit(g)
  PROVE  LossInv'
<1> DEFINE New == {[host |-> h, path |-> g.path, owner |-> g.name] : h \in Free(g)}
<1>1. /\ g \in groups /\ groups \in GroupSets /\ groups' = groups /\ round' = round
      /\ left' = left \ {g} /\ claimed' = claimed \cup New /\ g.proximo
      /\ losses' = losses \cup {LossOf(g, h) : h \in Asked(g) \ Free(g)}
  BY DEF IInv, TypeOK, Visit
<1>2. \A p \in groups : survived'[p.name] = IF p = g THEN survived[g.name] \cup Free(g) ELSE survived[p.name]
  <2>1. survived \in [GroupNames -> SUBSET UNION {p.hosts : p \in groups}] /\ g.name \in GroupNames
    BY <1>1 DEF IInv, TypeOK, GroupNames
  <2>2. survived' = [survived EXCEPT ![g.name] = survived[g.name] \cup Free(g)]
    BY DEF Visit
  <2> QED
    BY <1>1, <2>1, <2>2 DEF GroupNames
<1>3. \A e, f \in claimed' : (e.host = f.host /\ e.path = f.path) => e.owner = f.owner
  <2>1. \A e \in New : e.host \in Free(g) /\ e.path = g.path /\ e.owner = g.name
    OBVIOUS
  <2>2. \A e \in New, f \in claimed : ~(e.host = f.host /\ e.path = f.path)
    BY <2>1 DEF Free, Held
  <2>3. \A e, f \in New : e.owner = f.owner
    BY <2>1
  <2> HIDE DEF New
  <2> QED
    BY <1>1, <2>2, <2>3 DEF LossInv
\* What was lost keeps its owner.
<1>4. ASSUME NEW o \in groups, NEW h, h \in NativeHosts(groups) \/ Held(h, o.path)
      PROVE  LossOf(o, h)' = LossOf(o, h)
  <2>1. CASE h \in NativeHosts(groups)
    BY <1>1, <2>1 DEF LossOf
  <2>2. CASE h \notin NativeHosts(groups) /\ Held(h, o.path)
    <3>1. PICK e \in claimed : e.host = h /\ e.path = o.path
      BY <2>2 DEF Held
    <3>2. Holder(h, o.path) = e.owner
      BY <3>1, HolderIs DEF LossInv, Holder
    <3>3. e \in claimed'
      BY <1>1, <3>1
    <3>4. (CHOOSE f \in claimed' : f.host = e.host /\ f.path = e.path).owner = e.owner
      <4> HIDE DEF New
      <4> QED BY <1>3, <3>3, HolderIs
    <3>5. Holder(h, o.path)' = e.owner
      BY <3>1, <3>4 DEF Holder
    <3> QED
      BY <1>1, <2>2, <3>2, <3>5 DEF LossOf
  <2> QED
    BY <1>4, <2>1, <2>2
<1>5. ASSUME NEW o \in groups, NEW h \in o.hosts, Lost(o, h)
      PROVE  (h \in NativeHosts(groups) \/ Held(h, o.path)) /\ Lost(o, h)'
  <2>1. o.proximo /\ Reached(o, h) /\ h \notin survived[o.name]
    BY <1>5 DEF Lost
  <2>2. h \in NativeHosts(groups) \/ Held(h, o.path)
    BY <2>1 DEF IInv
  <2>3. ~(o = g /\ h \in Free(g))
    BY <2>2 DEF Free
  <2>4. Reached(o, h)'
    BY <1>1, <2>1, ReachedAfter
  <2> QED
    BY <1>1, <1>2, <2>1, <2>2, <2>3, <2>4 DEF Lost
<1>6. ASSUME NEW o \in groups, NEW h \in o.hosts, Lost(o, h)'
      PROVE  Lost(o, h) \/ (o = g /\ h \in Asked(g) \ Free(g))
  <2>1. o.proximo /\ Reached(o, h)' /\ h \notin survived'[o.name]
    BY <1>1, <1>6 DEF Lost
  <2>2. Reached(o, h) \/ (o = g /\ h \in Asked(g))
    BY <1>1, <2>1, ReachedAfter
  <2>3. h \notin survived[o.name] /\ ~(o = g /\ h \in Free(g))
    BY <1>2, <2>1
  <2> QED
    BY <2>1, <2>2, <2>3 DEF Lost
<1>7. ASSUME NEW h \in Asked(g) \ Free(g)
      PROVE  /\ h \in g.hosts /\ (h \in NativeHosts(groups) \/ Held(h, g.path))
             /\ LossOf(g, h)' = LossOf(g, h)
             /\ Lost(g, h) \/ Lost(g, h)'
  <2>1. h \in g.hosts
    BY DEF Asked
  <2>2. h \in NativeHosts(groups) \/ Held(h, g.path)
    BY DEF Free
  <2>3. Reached(g, h)'
    BY <1>1, <2>1, ReachedAfter
  <2>4. h \notin survived[g.name]
    <3> SUFFICES ASSUME h \in survived[g.name] PROVE FALSE
      OBVIOUS
    <3>1. PICK e \in claimed : e.host = h /\ e.path = g.path /\ e.owner = g.name
      BY <1>1 DEF IInv
    <3>2. PICK p \in groups : /\ p.name = e.owner /\ Claims(p, h, g.path) /\ Reached(p, h)
      BY <3>1 DEF IInv, EntrySound
    <3>3. p = g
      BY <1>1, <3>1, <3>2
    <3>4. ~Reached(g, h)
      BY DEF Asked, Reached, IInv, TypeOK
    <3> QED
      BY <3>2, <3>3, <3>4
  <2>5. h \notin survived'[g.name]
    BY <1>1, <1>2, <2>4
  <2> QED
    BY <1>1, <1>4, <2>1, <2>2, <2>3, <2>5 DEF Lost
<1>8. ASSUME NEW l \in losses' PROVE \E o \in groups : \E h \in o.hosts : Lost(o, h)' /\ l = LossOf(o, h)'
  <2>1. CASE l \in losses
    <3>1. PICK o \in groups : \E h \in o.hosts : Lost(o, h) /\ l = LossOf(o, h)
      BY <2>1 DEF LossInv
    <3>2. PICK h \in o.hosts : Lost(o, h) /\ l = LossOf(o, h)
      BY <3>1
    <3> QED
      BY <1>4, <1>5, <3>2
  <2>2. CASE \E h \in Asked(g) \ Free(g) : l = LossOf(g, h)
    <3>1. PICK h \in Asked(g) \ Free(g) : l = LossOf(g, h)
      BY <2>2
    <3>2. h \in g.hosts /\ Lost(g, h)' /\ LossOf(g, h)' = LossOf(g, h)
      BY <1>1, <1>5, <1>7
    <3> QED
      BY <1>1, <3>1, <3>2
  <2> QED
    BY <1>1, <1>8, <2>1, <2>2
<1>9. ASSUME NEW o \in groups, NEW h \in o.hosts, Lost(o, h)' PROVE LossOf(o, h)' \in losses'
  <2>1. CASE Lost(o, h)
    <3>1. LossOf(o, h) \in losses
      BY <2>1 DEF LossInv
    <3>2. LossOf(o, h)' = LossOf(o, h)
      BY <1>4, <1>5, <2>1
    <3> QED
      BY <1>1, <3>1, <3>2
  <2>2. CASE o = g /\ h \in Asked(g) \ Free(g)
    BY <1>1, <1>7, <2>2
  <2> QED
    BY <1>6, <1>9, <2>1, <2>2
<1> QED
  BY <1>1, <1>3, <1>8, <1>9 DEF LossInv

\* Every step of the loop keeps the strengthening.
LEMMA NextLoss == IInv /\ LossInv /\ [Next]_vars => LossInv'
<1> SUFFICES ASSUME IInv, LossInv, [Next]_vars PROVE LossInv'
  OBVIOUS
<1>1. CASE \E g \in left : Pass(g) \/ Visit(g)
  BY <1>1, PassLoss, VisitLoss
<1>2. CASE NextRound \/ Finish
  <2>1. \A p \in groups : \A h : Reached(p, h)' <=> Reached(p, h)
    BY <1>2 DEF NextRound, Finish, Reached
  <2>2. groups' = groups /\ claimed' = claimed /\ survived' = survived /\ losses' = losses
    BY <1>2 DEF NextRound, Finish
  <2>3. \A p \in groups : \A h : Lost(p, h)' <=> Lost(p, h)
    BY <2>1, <2>2 DEF Lost
  <2>4. \A p \in groups : \A h : LossOf(p, h)' = LossOf(p, h)
    BY <2>2 DEF LossOf, Holder
  <2> QED
    BY <2>2, <2>3, <2>4 DEF LossInv
<1>3. CASE UNCHANGED vars
  BY <1>3 DEF vars, LossInv, Lost, Reached, LossOf, Holder
<1> QED
  BY <1>1, <1>2, <1>3 DEF Next

\* When the loop has ended, the losses noted are the collisions of resolveRoutes: the
\* holder noted with a loss is the one claimant that survives with the host.
LEMMA InvLosses == IInv /\ LossInv => LossesReported
<1> SUFFICES ASSUME IInv, LossInv, round = "done" PROVE losses = CollisionsOf(groups)
  BY DEF LossesReported
<1>0. groups \in GroupSets
  BY DEF IInv, TypeOK
<1>1. \A g \in groups : g.proximo => survived[g.name] = survivors(g, groups)
  BY InvDecides DEF LoopDecides
<1>2. \A g \in groups : \A h \in g.hosts : Lost(g, h) <=> g.proximo /\ h \notin survivors(g, groups)
  BY <1>1 DEF Lost, Reached
<1>3. ASSUME NEW g \in groups, NEW h \in g.hosts, g.proximo, h \notin NativeHosts(groups)
      PROVE  Holder(h, g.path) = OwnerOf(h, g.path, groups).name
  <2>1. Held(h, g.path)
    BY <1>3 DEF IInv, Reached
  <2>2. PICK e \in claimed : e.host = h /\ e.path = g.path
    BY <2>1 DEF Held
  <2>3. Holder(h, g.path) = e.owner
    BY <2>2, HolderIs DEF LossInv, Holder
  <2>4. PICK p \in groups : p.name = e.owner /\ h \in survived[p.name] /\ Claims(p, h, g.path)
    BY <2>2 DEF IInv, EntrySound
  <2>5. h \in survivors(p, groups)
    BY <1>1, <2>4 DEF Claims
  <2>6. ASSUME NEW o \in groups, Claims(o, h, g.path), h \in survivors(o, groups) PROVE o = p
    <3> SUFFICES ASSUME o # p PROVE FALSE
      OBVIOUS
    <3>1. Precedes(o, p, h) /\ Precedes(p, o, h)
      BY <2>4, <2>5, <2>6 DEF survivors, Claims
    <3> QED
      BY <1>0, <3>1, PrecedesAsymmetric
  <2>7. OwnerOf(h, g.path, groups) = p
    BY <2>4, <2>5, <2>6 DEF OwnerOf
  <2> QED
    BY <2>3, <2>4, <2>7
<1> DEFINE lost(g, h) == [name |-> g.name, host |-> h, path |-> g.path,
                          owner |-> IF h \in NativeHosts(groups) THEN nativeRule(h, groups)
                                    ELSE OwnerOf(h, g.path, groups).name]
<1>4. \A g \in groups : \A h \in g.hosts : g.proximo => LossOf(g, h) = lost(g, h)
  BY <1>3 DEF LossOf
<1>5. CollisionsOf(groups) =
        UNION {{lost(g, h) : h \in g.hosts \ survivors(g, groups)} : g \in {o \in groups : o.proximo}}
  BY DEF CollisionsOf
<1> HIDE DEF lost
<1>6. ASSUME NEW l \in losses PROVE l \in CollisionsOf(groups)
  <2>1. PICK g \in groups : \E h \in g.hosts : Lost(g, h) /\ l = LossOf(g, h)
    BY DEF LossInv
  <2>2. PICK h \in g.hosts : Lost(g, h) /\ l = LossOf(g, h)
    BY <2>1
  <2>3. g.proximo /\ h \in g.hosts \ survivors(g, groups) /\ l = lost(g, h)
    BY <1>2, <1>4, <2>2
  <2> QED
    BY <1>5, <2>3
<1>7. ASSUME NEW l \in CollisionsOf(groups) PROVE l \in losses
  <2>1. PICK g \in groups : g.proximo /\ \E h \in g.hosts \ survivors(g, groups) : l = lost(g, h)
    BY <1>5
  <2>2. PICK h \in g.hosts \ survivors(g, groups) : l = lost(g, h)
    BY <2>1
  <2>3. Lost(g, h) /\ l = LossOf(g, h)
    BY <1>2, <1>4, <2>1, <2>2
  <2> QED
    BY <2>3 DEF LossInv
<1> QED
  BY <1>6, <1>7

\* The losses the loop notes are the collisions of the declarative reading, no more
\* and no less, each with the owner that has the host in the end: the holder noted in
\* passing is never displaced.
THEOREM LossesCorrect == Spec => []LossesReported
<1>1. Spec => []LossInv
  BY LoopInvariant, InitLoss, NextLoss, PTL DEF Spec
<1> QED
  BY <1>1, LoopInvariant, InvLosses, PTL
=============================================================================
