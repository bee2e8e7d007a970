---------------------------- MODULE MCIncidents ----------------------------
(***************************************************************************)
(* Instances of Incidents: two replicas of a service, one routed and with a *)
(* healthcheck, one known by its proximo.transcript label alone.            *)
(***************************************************************************)
EXTENDS Incidents

dash == [labels |-> <<"traefik">>, tld |-> TRUE]
MCDashboardBase == <<"dashboard">>

Plain(n) ==
  [name |-> n, own |-> <<"c", n>>, role |-> "", project |-> "shop", service |-> "worker",
   hosts |-> {}, enabled |-> TRUE, native |-> FALSE, rules |-> {},
   port |-> 0, exposed |-> {}, tcp |-> <<>>, tls |-> "terminate",
   path |-> "", pathOK |-> TRUE, mw |-> "none", inspect |-> FALSE, share |-> FALSE,
   transcript |-> TRUE, gated |-> TRUE, health |-> "none", nets |-> {}]

Checked   == [Plain(1) EXCEPT !.hosts = {dash}, !.transcript = FALSE, !.health = "starting"]
Unchecked == Plain(2)

MCCatalogue == {Checked, Unchecked}
=============================================================================
