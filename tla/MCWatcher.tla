----------------------------- MODULE MCWatcher -----------------------------
(***************************************************************************)
(* An instance of Watcher: two containers that contest a host, one of which *)
(* is inspected and needs ContainerInspect to find its port.                *)
(***************************************************************************)
EXTENDS Watcher

web  == [labels |-> <<"web">>, tld |-> TRUE]
dash == [labels |-> <<"traefik">>, tld |-> TRUE]

Plain(n) ==
  [name |-> n, own |-> <<"c", n>>, role |-> "", project |-> "", service |-> "",
   hosts |-> {}, enabled |-> TRUE, native |-> FALSE, rules |-> {},
   port |-> 80, exposed |-> {80}, tcp |-> <<>>, tls |-> "terminate",
   path |-> "", pathOK |-> TRUE, mw |-> "none", inspect |-> FALSE, share |-> FALSE,
   transcript |-> FALSE, gated |-> TRUE, health |-> "none", nets |-> {}]

Shop == [Plain(1) EXCEPT !.project = "shop", !.service = "web", !.hosts = {web},
                         !.port = 0, !.inspect = TRUE, !.nets = {"shopNet"}]
Blog == [Plain(2) EXCEPT !.project = "blog", !.service = "web", !.hosts = {web},
                         !.health = "starting", !.nets = {"blogNet"}]

MCCatalogue == {Shop, Blog}
MCTraefik == [Plain(0) EXCEPT !.role = "traefik", !.nets = {}]
MCDashboardBase == <<"dashboard">>
=============================================================================
