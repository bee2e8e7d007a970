------------------------------ MODULE MCCerts ------------------------------
(***************************************************************************)
(* Instances of Certs: two routes, the second of which comes, goes, changes  *)
(* its hosts and is shared or not.                                          *)
(***************************************************************************)
EXTENDS Certs

Route(hosts, share) == [hosts |-> hosts, share |-> share]

OnlyDashboard == [s \in {"dashboard"} |-> Route({"d"}, FALSE)]
With(route) == [s \in {"dashboard", "web"} |-> IF s = "web" THEN route ELSE OnlyDashboard[s]]

MCSafeNames == <<"dashboard", "web">>
MCWants == {OnlyDashboard, With(Route({"w"}, TRUE)), With(Route({"w", "v"}, TRUE)),
            With(Route({"w"}, FALSE))}

\* A claim on the dashboard's own host can leave a machine with no route at all.
MCNoRoutes == [s \in {} |-> Route({}, FALSE)]
MCWantsNone == MCWants \cup {MCNoRoutes}
=============================================================================
