---------------------------- MODULE MCRouteTable ----------------------------
(***************************************************************************)
(* Instances of RouteTable: small catalogues, each chosen so that the label *)
(* combinations that interact can run at the same time.                     *)
(***************************************************************************)
EXTENDS RouteTable

api    == [labels |-> <<"api">>, tld |-> TRUE]          \* api.test
apiShop == [labels |-> <<"api", "shop">>, tld |-> TRUE] \* api.shop.test
ext    == [labels |-> <<"ext">>, tld |-> FALSE]         \* outside the TLD
dash   == [labels |-> <<"traefik">>, tld |-> TRUE]      \* traefik.test

Plain(n) ==
  [name |-> n, own |-> <<"c", n>>, role |-> "", project |-> "", service |-> "",
   hosts |-> {}, enabled |-> TRUE, native |-> FALSE, rules |-> {},
   port |-> 80, exposed |-> {80}, tcp |-> <<>>, tls |-> "terminate",
   path |-> "", pathOK |-> TRUE, mw |-> "none", inspect |-> FALSE, share |-> FALSE,
   transcript |-> FALSE, gated |-> TRUE, health |-> "none", nets |-> {n}]

In(project, service, n) == [Plain(n) EXCEPT !.project = project, !.service = service]

MCDashboardBase == <<"dashboard">>

MCTraefik == [Plain(0) EXCEPT !.role = "traefik"]

\* Collisions across and inside projects, replicas, generated names, paths.
Claimants == {
  [In("shop", "api", 1) EXCEPT !.hosts = {api}, !.health = "starting", !.inspect = TRUE],
  [In("shop", "api", 2) EXCEPT !.hosts = {api}, !.inspect = TRUE, !.share = TRUE],
  [In("blog", "api", 2) EXCEPT !.hosts = {api, ext}],
  [In("shop", "web", 4) EXCEPT !.hosts = {api}, !.mw = "auth"],
  [Plain(4) EXCEPT !.hosts = {apiShop}, !.own = <<"shop", "api">>],
  [In("blog", "db", 4) EXCEPT !.hosts = {ext, api}, !.tcp = <<5432>>],
  [In("shop", "api", 5) EXCEPT !.hosts = {api, apiShop}, !.inspect = TRUE],
  [In("blog", "spa", 5) EXCEPT !.hosts = {api, ext}, !.path = "/p", !.port = 0],
  [Plain(5) EXCEPT !.hosts = {ext}, !.port = 0, !.exposed = {80, 443}, !.own = <<"dashboard">>],
  [Plain(5) EXCEPT !.hosts = {ext}, !.port = 70000, !.own = <<"dashboard">>],
  [Plain(5) EXCEPT !.hosts = {ext}, !.own = <<"dashboard">>] }

\* traefik.* rules, on containers of their own and beside proximo labels.
Natives == {
  [Plain(1) EXCEPT !.native = TRUE, !.rules = {api}],
  [In("shop", "api", 1) EXCEPT !.hosts = {api, ext}, !.native = TRUE, !.rules = {api}],
  [Plain(1) EXCEPT !.hosts = {api}, !.enabled = FALSE, !.native = TRUE, !.rules = {ext}],
  [In("shop", "web", 2) EXCEPT !.hosts = {api}],
  [In("blog", "api", 4) EXCEPT !.hosts = {api, apiShop}, !.health = "starting"],
  [Plain(4) EXCEPT !.native = TRUE, !.rules = {apiShop}],
  [Plain(4) EXCEPT !.native = TRUE],
  [Plain(5) EXCEPT !.hosts = {ext}, !.path = "bad", !.pathOK = FALSE],
  [Plain(5) EXCEPT !.transcript = TRUE],
  [In("proximo", "logs", 5) EXCEPT !.hosts = {ext}, !.gated = FALSE, !.health = "starting"] }

\* A replica that also carries a traefik.* rule for the host it shares.
NativeReplicas == {
  [In("shop", "api", 1) EXCEPT !.hosts = {api}],
  [In("shop", "api", 2) EXCEPT !.hosts = {api}, !.native = TRUE, !.rules = {api}],
  [In("blog", "api", 4) EXCEPT !.hosts = {api}, !.health = "starting"],
  [In("blog", "api", 5) EXCEPT !.hosts = {api}, !.health = "starting"] }

\* A user's container claiming the stack's own host.
DashboardClaimants == {
  [In("shop", "api", 1) EXCEPT !.hosts = {dash}, !.health = "starting"],
  [In("blog", "api", 2) EXCEPT !.hosts = {api}, !.health = "starting"],
  [In("blog", "api", 5) EXCEPT !.hosts = {dash}, !.health = "starting"] }

MCCatalogues == {Claimants, Natives}
MCNativeReplicas == {NativeReplicas}
MCDashboardClaimants == {DashboardClaimants}
MCNatives == {Natives}
=============================================================================
