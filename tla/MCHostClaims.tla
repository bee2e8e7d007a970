---------------------------- MODULE MCHostClaims ----------------------------
(***************************************************************************)
(* The claim loop on the groups of every listing MCRouteTable's catalogues  *)
(* allow, the dashboard's route among them.                                 *)
(***************************************************************************)
EXTENDS HostClaims, Sequences

MC == INSTANCE MCRouteTable WITH
  Catalogues <- {}, Traefik <- {}, catalogue <- {}, listing <- {}, inspected <- {},
  DashboardName <- 0, DashboardHost <- {}, DashboardBase <- {}

Listings(catalogue) == {l \in SUBSET catalogue : \A c, d \in l : c.name = d.name => c = d}

GroupsOf(l) ==
  Groups({k.route : k \in {x \in {classify(c, TRUE) : c \in l} : x.ok}} \cup {dashboardRoute})

MCGroupSets == {GroupsOf(l) : l \in UNION {Listings(k) : k \in {MC!Claimants, MC!Natives, MC!DashboardClaimants}}}
MCDashboardHost == MC!dash
MCDashboardBase == MC!MCDashboardBase
=============================================================================
