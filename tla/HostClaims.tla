----------------------------- MODULE HostClaims -----------------------------
(***************************************************************************)
(* The claim loop of resolveRoutes: two rounds over the groups in name       *)
(* order, the hosts people wrote first and the ones proximo generated after, *)
(* each group taking what no earlier claimant holds.  Routing states what    *)
(* the loop decides without running it (survivors, CollisionsOf); here the   *)
(* loop is run, and the two are shown to agree.                             *)
(***************************************************************************)
EXTENDS Routing

CONSTANT GroupSets   \* the sets of groups the loop may be given

ASSUME HostClaimsAssumption ==
  \A gs \in GroupSets :
    /\ \A g \in gs : g.name \in Int /\ g.proximo \in BOOLEAN
    /\ \A g, o \in gs : g.name = o.name => g = o

VARIABLES
  groups,    \* the groups of this resolution
  round,     \* the round under way
  left,      \* the groups this round has not come to
  claimed,   \* who holds a host under a path
  survived,  \* group name -> the hosts it holds
  losses     \* what was asked for and not got

vars == <<groups, round, left, claimed, survived, losses>>

GroupNames == {g.name : g \in groups}

Init ==
  /\ groups \in GroupSets
  /\ round = "declared" /\ left = groups
  /\ claimed = {} /\ losses = {}
  /\ survived = [n \in {g.name : g \in groups} |-> {}]

\* Slip: a round looks at every host.
AskedTwice(g) == g.hosts

\* The hosts of g this round looks at.
Asked(g) == {h \in g.hosts : (h \in g.gen) = (round = "generated")}

Held(h, path) == \E e \in claimed : e.host = h /\ e.path = path

Holder(h, path) == (CHOOSE e \in claimed : e.host = h /\ e.path = path).owner

\* Slip: native rules are not looked at.
FreeOverNative(g) == {h \in Asked(g) : ~Held(h, g.path)}

Free(g) == {h \in Asked(g) \ NativeHosts(groups) : ~Held(h, g.path)}

LossOf(g, h) ==
  [name |-> g.name, host |-> h, path |-> g.path,
   owner |-> IF h \in NativeHosts(groups) THEN nativeRule(h, groups) ELSE Holder(h, g.path)]

\* Slip: the rounds look at the groups in no order.
InOrderAny(g) == g \in left

InOrder(g) == g \in left /\ \A o \in left : g.name <= o.name

\* A group that is not proximo's claims nothing.
Pass(g) ==
  /\ InOrder(g) /\ ~g.proximo
  /\ left' = left \ {g}
  /\ UNCHANGED <<groups, round, claimed, survived, losses>>

Visit(g) ==
  /\ InOrder(g) /\ g.proximo
  /\ left' = left \ {g}
  /\ claimed' = claimed \cup {[host |-> h, path |-> g.path, owner |-> g.name] : h \in Free(g)}
  /\ survived' = [survived EXCEPT ![g.name] = @ \cup Free(g)]
  /\ losses' = losses \cup {LossOf(g, h) : h \in Asked(g) \ Free(g)}
  /\ UNCHANGED <<groups, round>>

NextRound ==
  /\ round = "declared" /\ left = {}
  /\ round' = "generated" /\ left' = groups
  /\ UNCHANGED <<groups, claimed, survived, losses>>

Finish ==
  /\ round = "generated" /\ left = {}
  /\ round' = "done"
  /\ UNCHANGED <<groups, left, claimed, survived, losses>>

Next == (\E g \in left : Pass(g) \/ Visit(g)) \/ NextRound \/ Finish

Spec == Init /\ [][Next]_vars

-----------------------------------------------------------------------------
TypeOK ==
  /\ groups \in GroupSets
  /\ round \in {"declared", "generated", "done"}
  /\ left \subseteq groups
  /\ survived \in [GroupNames -> SUBSET UNION {g.hosts : g \in groups}]

\* The loop has come to host h of group g.
Reached(g, h) ==
  \/ round = "done"
  \/ h \notin g.gen /\ (round = "generated" \/ g \notin left)
  \/ h \in g.gen /\ round = "generated" /\ g \notin left

\* An entry names a claimant reached, ahead of every other claimant reached.
EntrySound(e) ==
  \E g \in groups :
    /\ g.name = e.owner /\ e.host \in survived[g.name]
    /\ Claims(g, e.host, e.path) /\ e.host \notin NativeHosts(groups) /\ Reached(g, e.host)
    /\ \A o \in groups : (Claims(o, e.host, e.path) /\ Reached(o, e.host)) => (o = g \/ Precedes(g, o, e.host))

\* What makes the loop right at every step: groups are taken in name order;
\* every entry is sound; every host reached is held by someone, unless a native
\* rule has it; and a group survives with what it holds.
IInv ==
  /\ TypeOK
  /\ round = "done" => left = {}
  /\ \A g \in left, o \in groups \ left : o.name < g.name
  /\ \A e \in claimed : EntrySound(e)
  /\ \A g \in groups : \A h \in g.hosts :
       (g.proximo /\ Reached(g, h) /\ h \notin NativeHosts(groups)) => Held(h, g.path)
  /\ \A g \in groups : \A h \in survived[g.name] :
       \E e \in claimed : e.host = h /\ e.path = g.path /\ e.owner = g.name

\* When the loop ends, each proximo group holds exactly the hosts that no other
\* claimant precedes it on: what Routing says of resolveRoutes.
LoopDecides ==
  round = "done" => \A g \in groups : g.proximo => survived[g.name] = survivors(g, groups)

\* And every loss is reported once, to the claimant that kept the host.
LossesReported == round = "done" => losses = CollisionsOf(groups)
=============================================================================
