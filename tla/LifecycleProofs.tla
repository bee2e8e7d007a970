-------------------------- MODULE LifecycleProofs --------------------------
(***************************************************************************)
(* What the commands leave of a host, for any values the configuration may  *)
(* take, any number of commands, faults, kills, reboots and CLI upgrades:    *)
(* an uninstall takes everything away, an install serves, the peer material  *)
(* follows the configuration, and the Remedy doctor names cures.             *)
(*                                                                          *)
(* What a command owes is stated by the steps it has not taken yet (Ahead).  *)
(* Every program is in one fixed order (Rank), so that a step being taken    *)
(* means that the steps of a lower rank have been, and those of a higher one *)
(* have not: the invariant is, for each step, what holds once it is no        *)
(* longer ahead and the command has not failed.                              *)
(***************************************************************************)
EXTENDS Lifecycle, FiniteSetTheorems, SequenceTheorems, TLAPS

\* The steps of install on the host, those of converge, and all of them.
Hosting == {"EnsureCA", "ConfigureResolver", "InstallSystem", "InstallNSS"}

Converge == {"RemovePeers", "Materialize", "CopyPeer", "WriteEnv", "AppendPeers", "ComposeUp", "StartPeers"}

Ops == Converge \cup Hosting
       \cup {"TrustTeamRoot", "SaveConfig", "SetIntermediate", "EnsureKey", "ComposeDown", "UntrustTeamRoot",
             "RemoveNSS", "RemoveSystem", "RemoveResolver", "PurgeCA", "RemoveHome"}

Names == {"", "install", "uninstall", "down", "trust", "up", "up_image", "update", "config_tld", "config"}

\* Where a command has a step: its programs are in this order.
Rank(n, op) ==
  CASE op = "ComposeDown" -> 1 [] op = "UntrustTeamRoot" -> 2 [] op = "RemoveNSS" -> 3 [] op = "RemoveSystem" -> 4
    [] op \in {"RemoveResolver", "EnsureCA"} -> 5
    [] op \in {"PurgeCA", "SetIntermediate", "EnsureKey"} -> 6
    [] op \in {"RemoveHome", "ConfigureResolver"} -> 7
    [] op = "InstallSystem" -> 8 [] op = "InstallNSS" -> 9 [] op = "TrustTeamRoot" -> 10
    [] op = "RemovePeers" -> 11 [] op = "Materialize" -> 12 [] op = "CopyPeer" -> 13 [] op = "WriteEnv" -> 14
    [] op = "AppendPeers" -> 15 [] op = "ComposeUp" -> 16 [] op = "StartPeers" -> 17
    [] op = "SaveConfig" -> IF n \in {"config", "config_tld"} THEN 6 ELSE 18

\* The steps a command may have, and those it has whenever it has an earlier one.
Script(n) ==
  CASE n = "install"    -> Hosting \cup {"TrustTeamRoot"} \cup Converge \cup {"SaveConfig"}
    [] n = "uninstall"  -> {"ComposeDown", "UntrustTeamRoot", "RemoveNSS", "RemoveSystem", "RemoveResolver", "PurgeCA",
                            "RemoveHome"}
    [] n = "down"       -> {"ComposeDown"}
    [] n = "trust"      -> {"EnsureCA", "InstallSystem", "InstallNSS", "TrustTeamRoot", "SaveConfig"}
    [] n = "config_tld" -> {"RemoveResolver", "SaveConfig", "ConfigureResolver"} \cup Converge
    [] n = "config"     -> {"SaveConfig", "SetIntermediate", "EnsureKey", "CopyPeer"}
    [] n \in {"up", "up_image", "update"} -> Converge
    [] n = ""           -> {}

Must(n) == IF n \in {"down", "config_tld", "config", ""} THEN {}
           ELSE Script(n) \ {"TrustTeamRoot", "UntrustTeamRoot", IF n = "trust" THEN "SaveConfig" ELSE ""}

\* The steps of a program, and those still ahead.
Elems(s) == {s[i] : i \in 1..Len(s)}
Ahead    == Elems(cmd.todo)

Ascends(n, s) == \A i, j \in 1..Len(s) : i < j => Rank(n, s[i]) < Rank(n, s[j])

\* The steps the material is made from are followed by its copy.
Copies(n, op) == op \in {"Materialize", "SetIntermediate"} \/ (op = "SaveConfig" /\ n = "config")
Followed(n, s) == \A i \in 1..Len(s) : Copies(n, s[i]) => i < Len(s) /\ s[i + 1] = "CopyPeer"

\* A program in order.
Proper(n, s) == s \in Seq(Ops) /\ Ascends(n, s) /\ Followed(n, s)

\* The order, read off.
LEMMA Ranks ==
  ASSUME NEW n
  PROVE  /\ Rank(n, "ComposeDown") = 1 /\ Rank(n, "UntrustTeamRoot") = 2 /\ Rank(n, "RemoveNSS") = 3
         /\ Rank(n, "RemoveSystem") = 4 /\ Rank(n, "RemoveResolver") = 5 /\ Rank(n, "EnsureCA") = 5
         /\ Rank(n, "PurgeCA") = 6 /\ Rank(n, "SetIntermediate") = 6 /\ Rank(n, "EnsureKey") = 6
         /\ Rank(n, "RemoveHome") = 7 /\ Rank(n, "ConfigureResolver") = 7 /\ Rank(n, "InstallSystem") = 8
         /\ Rank(n, "InstallNSS") = 9 /\ Rank(n, "TrustTeamRoot") = 10 /\ Rank(n, "RemovePeers") = 11
         /\ Rank(n, "Materialize") = 12 /\ Rank(n, "CopyPeer") = 13 /\ Rank(n, "WriteEnv") = 14
         /\ Rank(n, "AppendPeers") = 15 /\ Rank(n, "ComposeUp") = 16 /\ Rank(n, "StartPeers") = 17
         /\ Rank(n, "SaveConfig") = IF n \in {"config", "config_tld"} THEN 6 ELSE 18
BY DEF Rank

\* The host steps come before converge, the team root between them.
LEMMA Bounds ==
  ASSUME NEW n
  PROVE  /\ \A x \in Hosting : Rank(n, x) \in 5..9
         /\ Rank(n, "TrustTeamRoot") = 10
         /\ \A x \in Converge : Rank(n, x) \in 11..17
<1>1. \A x \in Hosting : Rank(n, x) \in 5..9
  BY Ranks DEF Hosting
<1>2. \A x \in Converge : Rank(n, x) \in 11..17
  BY Ranks DEF Converge
<1> QED BY <1>1, <1>2, Ranks

\* Ranks are numbers.
LEMMA RankNat ==
  ASSUME NEW n, NEW op \in Ops
  PROVE  Rank(n, op) \in Nat
<1>1. op \in {"RemovePeers", "Materialize", "CopyPeer", "WriteEnv", "AppendPeers", "ComposeUp", "StartPeers", "EnsureCA",
              "ConfigureResolver", "InstallSystem", "InstallNSS", "TrustTeamRoot", "SaveConfig", "SetIntermediate",
              "EnsureKey", "ComposeDown", "UntrustTeamRoot", "RemoveNSS", "RemoveSystem", "RemoveResolver", "PurgeCA",
              "RemoveHome"}
  BY Zenon DEF Ops, Converge, Hosting
<1> QED BY <1>1 DEF Rank

(* A step taken leaves the program without it, still in order, and all that    *)
(* is left comes later.                                                       *)
LEMMA Advance ==
  ASSUME NEW n, NEW s \in Seq(Ops), s # <<>>, Ascends(n, s), Followed(n, s)
  PROVE  /\ Head(s) \in Elems(s) /\ Head(s) \in Ops /\ Tail(s) \in Seq(Ops)
         /\ Elems(Tail(s)) = Elems(s) \ {Head(s)}
         /\ \A x \in Elems(Tail(s)) : x \in Ops /\ Rank(n, Head(s)) < Rank(n, x)
         /\ Ascends(n, Tail(s)) /\ Followed(n, Tail(s))
         /\ Copies(n, Head(s)) => Tail(s) # <<>> /\ Head(Tail(s)) = "CopyPeer" /\ "CopyPeer" \in Elems(Tail(s))
<1> DEFINE t == Tail(s)
<1>1. Len(s) \in Nat /\ Len(s) >= 1 /\ Head(s) = s[1]
  BY EmptySeq
<1>2. t \in Seq(Ops) /\ Len(t) = Len(s) - 1 /\ \A i \in 1..Len(t) : t[i] = s[i + 1]
  BY HeadTailProperties
<1>3. \A i \in 1..Len(s) : s[i] \in Ops
  BY ElementOfSeq
<1>4. \A x \in Elems(t) : x \in Ops /\ x \in Elems(s) /\ Rank(n, s[1]) < Rank(n, x)
  BY <1>1, <1>2, <1>3 DEF Elems, Ascends
<1>5. s[1] \notin Elems(t)
  BY <1>1, <1>3, <1>4, RankNat
<1>6. \A i \in 1..Len(s) : s[i] = s[1] \/ s[i] \in Elems(t)
  <2> TAKE i \in 1..Len(s)
  <2>1. CASE i = 1
    BY <2>1
  <2>2. CASE i # 1
    <3>1. i - 1 \in 1..Len(t) /\ t[i - 1] = s[i]
      BY <2>2, <1>1, <1>2
    <3> QED BY <3>1 DEF Elems
  <2> QED BY <2>1, <2>2
<1>7. Elems(t) = Elems(s) \ {s[1]}
  BY <1>4, <1>5, <1>6 DEF Elems
<1>8. Ascends(n, t)
  BY <1>1, <1>2 DEF Ascends
<1>9. Followed(n, t)
  BY <1>1, <1>2 DEF Followed
<1>10. ASSUME Copies(n, s[1]) PROVE t # <<>> /\ Head(t) = "CopyPeer" /\ "CopyPeer" \in Elems(t)
  <2>1. 1 < Len(s) /\ s[2] = "CopyPeer"
    BY <1>1, <1>10 DEF Followed
  <2> HIDE DEF t
  <2>2. 1 \in 1..Len(t) /\ t[1] = s[1 + 1]
    BY <2>1, <1>1, <1>2
  <2>3. "CopyPeer" \in Elems(t)
    BY <2>1, <2>2 DEF Elems
  <2> QED BY <2>1, <2>2, <2>3, <1>2, EmptySeq
<1> HIDE DEF t
<1>11. s[1] \in Elems(s) /\ s[1] \in Ops
  BY <1>1, <1>3 DEF Elems
<1> QED BY <1>1, <1>2, <1>4, <1>7, <1>8, <1>9, <1>10, <1>11 DEF t

(* Programs put together.                                                    *)
LEMMA Joined ==
  ASSUME NEW n, NEW s \in Seq(Ops), NEW t \in Seq(Ops), Ascends(n, s), Ascends(n, t), Followed(n, s), Followed(n, t),
         \A x \in Elems(s), y \in Elems(t) : Rank(n, x) < Rank(n, y)
  PROVE  s \o t \in Seq(Ops) /\ Elems(s \o t) = Elems(s) \cup Elems(t) /\ Ascends(n, s \o t) /\ Followed(n, s \o t)
<1> DEFINE u == s \o t
<1>1. /\ u \in Seq(Ops) /\ Len(u) = Len(s) + Len(t) /\ Len(s) \in Nat /\ Len(t) \in Nat
      /\ \A i \in 1..Len(u) : u[i] = IF i <= Len(s) THEN s[i] ELSE t[i - Len(s)]
  BY ConcatProperties
<1> HIDE DEF u
<1>2. \A i \in 1..Len(s) : i \in 1..Len(u) /\ u[i] = s[i]
  BY <1>1
<1>3. \A i \in 1..Len(t) : i + Len(s) \in 1..Len(u) /\ u[i + Len(s)] = t[i]
  <2> TAKE i \in 1..Len(t)
  <2>1. i + Len(s) \in 1..Len(u) /\ ~(i + Len(s) <= Len(s)) /\ (i + Len(s)) - Len(s) = i
    BY <1>1
  <2> QED BY <2>1, <1>1
<1>4. \A i \in 1..Len(u) : u[i] \in Elems(s) \cup Elems(t)
  <2> TAKE i \in 1..Len(u)
  <2>1. CASE i <= Len(s)
    BY <2>1, <1>1 DEF Elems
  <2>2. CASE i > Len(s)
    <3>1. i - Len(s) \in 1..Len(t) /\ u[i] = t[i - Len(s)]
      BY <2>2, <1>1
    <3> QED BY <3>1 DEF Elems
  <2> QED BY <2>1, <2>2, <1>1
<1>5. Elems(u) = Elems(s) \cup Elems(t)
  <2>1. Elems(s) \subseteq Elems(u)
    BY <1>2 DEF Elems
  <2>2. Elems(t) \subseteq Elems(u)
    BY <1>3 DEF Elems
  <2>3. Elems(u) \subseteq Elems(s) \cup Elems(t)
    BY <1>4 DEF Elems
  <2> QED BY <2>1, <2>2, <2>3
<1>6. Ascends(n, u)
  <2> SUFFICES ASSUME NEW i \in 1..Len(u), NEW j \in 1..Len(u), i < j PROVE Rank(n, u[i]) < Rank(n, u[j])
    BY DEF Ascends
  <2>1. CASE j <= Len(s)
    BY <2>1, <1>1 DEF Ascends
  <2>2. CASE i > Len(s)
    <3> DEFINE p == i - Len(s)
               q == j - Len(s)
    <3>1. p \in 1..Len(t) /\ q \in 1..Len(t) /\ p < q
      BY <2>2, <1>1
    <3>2. u[i] = t[p] /\ u[j] = t[q]
      BY <2>2, <1>1
    <3> HIDE DEF p, q
    <3>3. Rank(n, t[p]) < Rank(n, t[q])
      BY <3>1 DEF Ascends
    <3> QED BY <3>2, <3>3
  <2>3. CASE i <= Len(s) /\ j > Len(s)
    <3>1. i \in 1..Len(s) /\ u[i] = s[i] /\ j - Len(s) \in 1..Len(t) /\ u[j] = t[j - Len(s)]
      BY <2>3, <1>1
    <3>2. u[i] \in Elems(s) /\ u[j] \in Elems(t)
      BY <3>1 DEF Elems
    <3> QED BY <3>2
  <2> QED BY <2>1, <2>2, <2>3, <1>1
<1>7. Followed(n, u)
  <2> SUFFICES ASSUME NEW i \in 1..Len(u), Copies(n, u[i]) PROVE i < Len(u) /\ u[i + 1] = "CopyPeer"
    BY DEF Followed
  <2>1. CASE i <= Len(s)
    <3>1. i < Len(s) /\ s[i + 1] = "CopyPeer"
      BY <2>1, <1>1 DEF Followed
    <3> QED BY <3>1, <1>1
  <2>2. CASE i > Len(s)
    <3>1. i - Len(s) \in 1..Len(t) /\ u[i] = t[i - Len(s)]
      BY <2>2, <1>1
    <3>2. i - Len(s) < Len(t) /\ t[(i - Len(s)) + 1] = "CopyPeer"
      BY <3>1 DEF Followed
    <3> QED BY <3>2, <2>2, <1>1
  <2> QED BY <2>1, <2>2, <1>1
<1> QED BY <1>1, <1>5, <1>6, <1>7 DEF u

(* The pieces programs are put together from.                                *)
LEMMA NoSteps ==
  ASSUME NEW n
  PROVE  Proper(n, <<>>) /\ Elems(<<>>) = {}
BY DEF Proper, Ascends, Followed, Elems

\* A program of one step is in order.
LEMMA OneStep ==
  ASSUME NEW n, NEW op \in Ops, ~Copies(n, op)
  PROVE  Proper(n, <<op>>) /\ Elems(<<op>>) = {op}
<1> DEFINE s == <<op>>
<1>1. s \in Seq(Ops) /\ Len(s) = 1 /\ 1..1 = {1} /\ s[1] = op
  OBVIOUS
<1> HIDE DEF s
<1>2. Elems(s) = {op}
  BY <1>1 DEF Elems
<1>3. Ascends(n, s) /\ Followed(n, s)
  BY <1>1 DEF Ascends, Followed
<1> QED BY <1>1, <1>2, <1>3 DEF s, Proper

\* converge is in order, its material copied right after the files are written.
LEMMA ConvergeSteps ==
  ASSUME NEW n
  PROVE  Proper(n, converge)
         /\ Elems(converge)
            = {"RemovePeers", "Materialize", "CopyPeer", "WriteEnv", "AppendPeers", "ComposeUp", "StartPeers"}
<1> DEFINE s == converge
<1>1. s \in Seq(Ops) /\ Len(s) = 7 /\ 1..7 = {1, 2, 3, 4, 5, 6, 7}
  BY DEF Ops, Converge, Hosting, converge
<1>2. s[1] = "RemovePeers" /\ s[2] = "Materialize" /\ s[3] = "CopyPeer" /\ s[4] = "WriteEnv"
      /\ s[5] = "AppendPeers" /\ s[6] = "ComposeUp" /\ s[7] = "StartPeers"
  BY DEF converge
<1> HIDE DEF s
<1>3. Elems(s) = {"RemovePeers", "Materialize", "CopyPeer", "WriteEnv", "AppendPeers", "ComposeUp", "StartPeers"}
  BY <1>1, <1>2 DEF Elems
<1>4. Ascends(n, s)
  <2>1. Rank(n, s[1]) = 11 /\ Rank(n, s[2]) = 12 /\ Rank(n, s[3]) = 13 /\ Rank(n, s[4]) = 14
        /\ Rank(n, s[5]) = 15 /\ Rank(n, s[6]) = 16 /\ Rank(n, s[7]) = 17
    BY <1>2, Ranks
  <2> QED BY <2>1, <1>1 DEF Ascends
<1>5. Followed(n, s)
  <2> SUFFICES ASSUME NEW i \in 1..Len(s), Copies(n, s[i]) PROVE i < Len(s) /\ s[i + 1] = "CopyPeer"
    BY DEF Followed
  <2>1. i = 2
    BY <1>1, <1>2 DEF Copies
  <2> QED BY <2>1, <1>1, <1>2
<1> QED BY <1>1, <1>3, <1>4, <1>5 DEF Proper, s

\* The host steps of install are in order.
LEMMA HostStepsInOrder ==
  ASSUME NEW n
  PROVE  Proper(n, HostSteps) /\ Elems(HostSteps) = {"EnsureCA", "ConfigureResolver", "InstallSystem", "InstallNSS"}
<1> DEFINE s == HostSteps
<1>1. s \in Seq(Ops) /\ Len(s) = 4 /\ 1..4 = {1, 2, 3, 4}
  BY DEF Ops, Converge, Hosting, HostSteps
<1>2. s[1] = "EnsureCA" /\ s[2] = "ConfigureResolver" /\ s[3] = "InstallSystem" /\ s[4] = "InstallNSS"
  BY DEF HostSteps
<1> HIDE DEF s
<1>3. Elems(s) = {"EnsureCA", "ConfigureResolver", "InstallSystem", "InstallNSS"}
  BY <1>1, <1>2 DEF Elems
<1>4. Ascends(n, s)
  <2>1. Rank(n, s[1]) = 5 /\ Rank(n, s[2]) = 7 /\ Rank(n, s[3]) = 8 /\ Rank(n, s[4]) = 9
    BY <1>2, Ranks
  <2> QED BY <2>1, <1>1 DEF Ascends
<1>5. Followed(n, s)
  <2> SUFFICES ASSUME NEW i \in 1..Len(s), Copies(n, s[i]) PROVE i < Len(s) /\ s[i + 1] = "CopyPeer"
    BY DEF Followed
  <2> QED BY <1>1, <1>2 DEF Copies
<1> QED BY <1>1, <1>3, <1>4, <1>5 DEF Proper, s

\* The end of uninstall.
LEMMA RemovalSteps ==
  ASSUME NEW n
  PROVE  Proper(n, <<"RemoveNSS", "RemoveSystem", "RemoveResolver", "PurgeCA", "RemoveHome">>)
         /\ Elems(<<"RemoveNSS", "RemoveSystem", "RemoveResolver", "PurgeCA", "RemoveHome">>)
            = {"RemoveNSS", "RemoveSystem", "RemoveResolver", "PurgeCA", "RemoveHome"}
<1> DEFINE s == <<"RemoveNSS", "RemoveSystem", "RemoveResolver", "PurgeCA", "RemoveHome">>
<1>1. s \in Seq(Ops) /\ Len(s) = 5 /\ 1..5 = {1, 2, 3, 4, 5}
  BY DEF Ops, Converge, Hosting
<1>2. s[1] = "RemoveNSS" /\ s[2] = "RemoveSystem" /\ s[3] = "RemoveResolver" /\ s[4] = "PurgeCA" /\ s[5] = "RemoveHome"
  OBVIOUS
<1> HIDE DEF s
<1>3. Elems(s) = {"RemoveNSS", "RemoveSystem", "RemoveResolver", "PurgeCA", "RemoveHome"}
  BY <1>1, <1>2 DEF Elems
<1>4. Ascends(n, s)
  <2>1. Rank(n, s[1]) = 3 /\ Rank(n, s[2]) = 4 /\ Rank(n, s[3]) = 5 /\ Rank(n, s[4]) = 6 /\ Rank(n, s[5]) = 7
    BY <1>2, Ranks
  <2> QED BY <2>1, <1>1 DEF Ascends
<1>5. Followed(n, s)
  <2> SUFFICES ASSUME NEW i \in 1..Len(s), Copies(n, s[i]) PROVE i < Len(s) /\ s[i + 1] = "CopyPeer"
    BY DEF Followed
  <2> QED BY <1>1, <1>2 DEF Copies
<1> QED BY <1>1, <1>3, <1>4, <1>5 DEF Proper, s

\* The beginning of trust.
LEMMA TrustSteps ==
  ASSUME NEW n
  PROVE  Proper(n, <<"EnsureCA", "InstallSystem", "InstallNSS">>)
         /\ Elems(<<"EnsureCA", "InstallSystem", "InstallNSS">>) = {"EnsureCA", "InstallSystem", "InstallNSS"}
<1> DEFINE s == <<"EnsureCA", "InstallSystem", "InstallNSS">>
<1>1. s \in Seq(Ops) /\ Len(s) = 3 /\ 1..3 = {1, 2, 3}
  BY DEF Ops, Converge, Hosting
<1>2. s[1] = "EnsureCA" /\ s[2] = "InstallSystem" /\ s[3] = "InstallNSS"
  OBVIOUS
<1> HIDE DEF s
<1>3. Elems(s) = {"EnsureCA", "InstallSystem", "InstallNSS"}
  BY <1>1, <1>2 DEF Elems
<1>4. Ascends(n, s)
  <2>1. Rank(n, s[1]) = 5 /\ Rank(n, s[2]) = 8 /\ Rank(n, s[3]) = 9
    BY <1>2, Ranks
  <2> QED BY <2>1, <1>1 DEF Ascends
<1>5. Followed(n, s)
  <2> SUFFICES ASSUME NEW i \in 1..Len(s), Copies(n, s[i]) PROVE i < Len(s) /\ s[i + 1] = "CopyPeer"
    BY DEF Followed
  <2> QED BY <1>1, <1>2 DEF Copies
<1> QED BY <1>1, <1>3, <1>4, <1>5 DEF Proper, s

\* An intermediate installed or removed.
LEMMA IntermediateSteps ==
  ASSUME NEW n
  PROVE  Proper(n, <<"SetIntermediate", "CopyPeer">>)
         /\ Elems(<<"SetIntermediate", "CopyPeer">>) = {"SetIntermediate", "CopyPeer"}
<1> DEFINE s == <<"SetIntermediate", "CopyPeer">>
<1>1. s \in Seq(Ops) /\ Len(s) = 2 /\ 1..2 = {1, 2}
  BY DEF Ops, Converge, Hosting
<1>2. s[1] = "SetIntermediate" /\ s[2] = "CopyPeer"
  OBVIOUS
<1> HIDE DEF s
<1>3. Elems(s) = {"SetIntermediate", "CopyPeer"}
  BY <1>1, <1>2 DEF Elems
<1>4. Ascends(n, s)
  <2>1. Rank(n, s[1]) = 6 /\ Rank(n, s[2]) = 13
    BY <1>2, Ranks
  <2> QED BY <2>1, <1>1 DEF Ascends
<1>5. Followed(n, s)
  <2> SUFFICES ASSUME NEW i \in 1..Len(s), Copies(n, s[i]) PROVE i < Len(s) /\ s[i + 1] = "CopyPeer"
    BY DEF Followed
  <2>1. i = 1
    BY <1>1, <1>2 DEF Copies
  <2> QED BY <2>1, <1>1, <1>2
<1> QED BY <1>1, <1>3, <1>4, <1>5 DEF Proper, s

\* The end of trust when a team root is configured.
LEMMA TrustSaved ==
  ASSUME NEW n, n \notin {"config", "config_tld"}
  PROVE  Proper(n, <<"TrustTeamRoot", "SaveConfig">>)
         /\ Elems(<<"TrustTeamRoot", "SaveConfig">>) = {"TrustTeamRoot", "SaveConfig"}
<1> DEFINE s == <<"TrustTeamRoot", "SaveConfig">>
<1>0. "TrustTeamRoot" \in Ops /\ "SaveConfig" \in Ops
  BY DEF Ops, Converge, Hosting
<1>1. s \in Seq(Ops) /\ Len(s) = 2 /\ 1..2 = {1, 2}
  BY <1>0
<1>2. s[1] = "TrustTeamRoot" /\ s[2] = "SaveConfig"
  OBVIOUS
<1> HIDE DEF s
<1>3. Elems(s) = {"TrustTeamRoot", "SaveConfig"}
  BY <1>1, <1>2 DEF Elems
<1>4. Ascends(n, s)
  <2>1. Rank(n, s[1]) = 10 /\ Rank(n, s[2]) = 18
    <3>1. Rank(n, "SaveConfig") = 18
      BY Ranks
    <3> QED BY <3>1, <1>2, Ranks
  <2> QED BY <2>1, <1>1 DEF Ascends
<1>5. Followed(n, s)
  <2> SUFFICES ASSUME NEW i \in 1..Len(s), Copies(n, s[i]) PROVE i < Len(s) /\ s[i + 1] = "CopyPeer"
    BY DEF Followed
  <2> QED BY <1>1, <1>2 DEF Copies
<1> QED BY <1>1, <1>3, <1>4, <1>5 DEF Proper, s

\* A peer value saved.
LEMMA ValueSteps ==
  ASSUME NEW n, n \in {"config"}
  PROVE  Proper(n, <<"SaveConfig", "CopyPeer">>) /\ Elems(<<"SaveConfig", "CopyPeer">>) = {"SaveConfig", "CopyPeer"}
<1> DEFINE s == <<"SaveConfig", "CopyPeer">>
<1>1. s \in Seq(Ops) /\ Len(s) = 2 /\ 1..2 = {1, 2}
  BY DEF Ops, Converge, Hosting
<1>2. s[1] = "SaveConfig" /\ s[2] = "CopyPeer"
  OBVIOUS
<1> HIDE DEF s
<1>3. Elems(s) = {"SaveConfig", "CopyPeer"}
  BY <1>1, <1>2 DEF Elems
<1>4. Ascends(n, s)
  <2>1. Rank(n, s[1]) = 6 /\ Rank(n, s[2]) = 13
    BY <1>2, Ranks
  <2> QED BY <2>1, <1>1 DEF Ascends
<1>5. Followed(n, s)
  <2> SUFFICES ASSUME NEW i \in 1..Len(s), Copies(n, s[i]) PROVE i < Len(s) /\ s[i + 1] = "CopyPeer"
    BY DEF Followed
  <2>1. i = 1
    BY <1>1, <1>2 DEF Copies
  <2> QED BY <2>1, <1>1, <1>2
<1> QED BY <1>1, <1>3, <1>4, <1>5 DEF Proper, s

\* A TLD changed, the part before converge.
LEMMA TLDSteps ==
  ASSUME NEW n, n \in {"config_tld"}
  PROVE  Proper(n, <<"RemoveResolver", "SaveConfig", "ConfigureResolver">>)
         /\ Elems(<<"RemoveResolver", "SaveConfig", "ConfigureResolver">>)
            = {"RemoveResolver", "SaveConfig", "ConfigureResolver"}
<1> DEFINE s == <<"RemoveResolver", "SaveConfig", "ConfigureResolver">>
<1>0. "RemoveResolver" \in Ops /\ "SaveConfig" \in Ops /\ "ConfigureResolver" \in Ops
  BY DEF Ops, Converge, Hosting
<1>1. s \in Seq(Ops) /\ Len(s) = 3 /\ 1..3 = {1, 2, 3}
  BY <1>0
<1>2. s[1] = "RemoveResolver" /\ s[2] = "SaveConfig" /\ s[3] = "ConfigureResolver"
  OBVIOUS
<1> HIDE DEF s
<1>3. Elems(s) = {"RemoveResolver", "SaveConfig", "ConfigureResolver"}
  BY <1>1, <1>2 DEF Elems
<1>4. Ascends(n, s)
  <2>1. Rank(n, s[1]) = 5 /\ Rank(n, s[2]) = 6 /\ Rank(n, s[3]) = 7
    <3>1. Rank(n, "SaveConfig") = 6
      BY Ranks
    <3> QED BY <3>1, <1>2, Ranks
  <2> QED BY <2>1, <1>1 DEF Ascends
<1>5. Followed(n, s)
  <2> SUFFICES ASSUME NEW i \in 1..Len(s), Copies(n, s[i]) PROVE i < Len(s) /\ s[i + 1] = "CopyPeer"
    BY DEF Followed
  <2> QED BY <1>1, <1>2 DEF Copies
<1> QED BY <1>1, <1>3, <1>4, <1>5 DEF Proper, s

-----------------------------------------------------------------------------
CAs        == [cert : Nat, key : Nat]
Ints       == Intermediates \cup {NoIntermediate}
Specs      == {<<>>} \cup ((Machines \cup {""}) \X (PeerSuffixes \cup {""}) \X (Addresses \cup {""}))
Images     == {"", "pinned", "override"} \X Nat
Envs       == [tld : TLDs \cup {""}, image : Images, version : Nat]
Materials  == [names : (Machines \cup {""}) \X (PeerSuffixes \cup {""}), int : Ints, key : BOOLEAN]
Homes      == [config : Configs, ca : CAs, mkey : BOOLEAN, int : Ints, compose : [written : BOOLEAN, peers : Specs],
               env : Envs, caCopy : Nat, material : Materials]
Hosts      == [resolvers : SUBSET TLDs, system : Nat, nss : Nat, root : Roots \cup {""}]
Containers == [env : Envs, ca : Nat]
Peers      == [state : {"absent", "created", "running", "exited"}, spec : Specs]
Cmds       == [name : Names, cfg : Configs, tld : TLDs, image : Images, int : Ints, todo : Seq(Ops), undoing : BOOLEAN,
               ok : BOOLEAN, skipped : BOOLEAN, failing : SUBSET DOMAIN Remedies,
               before : [ca : CAs, host : Hosts, watcher : Containers]]

\* The types of a machine; nothing is newer than the CLI.
Fits(d, h, s, p) ==
  /\ d \in Homes /\ h \in Hosts /\ s \in [Core -> Containers] /\ p \in Peers
  /\ d.env.version <= cli /\ \A c \in Core : s[c].env.version <= cli

MachineTyped == Fits(disk, host, services, peers)

Typed ==
  /\ MachineTyped
  /\ mesh \subseteq Addresses /\ rootFile \in Roots /\ cli \in 1..MaxVersion /\ cmd \in Cmds /\ torn \in BOOLEAN
  /\ faults \in 0..MaxFaults /\ commands \in 0..MaxCommands

-----------------------------------------------------------------------------
\* What a step done, failed or interrupted may have done.
Moves(op) ==
  \/ Effect(op)
  \/ Cut(op)
  \/ op = "TrustTeamRoot" /\ \E cut \in TeamRootCut : OnHost([host EXCEPT !.root = cut[1]])

\* Each part of the state is changed by these steps only.
Only(op, ops, new, old) == op \notin ops => new = old

Frame(op) ==
  /\ Only(op, {"SaveConfig", "RemoveHome"}, disk'.config, disk.config)
  /\ Only(op, {"EnsureCA", "PurgeCA", "RemoveHome"}, disk'.ca, disk.ca)
  /\ Only(op, {"SetIntermediate", "RemoveHome"}, disk'.int, disk.int)
  /\ Only(op, {"Materialize", "RemoveHome"}, <<disk'.compose.written, disk'.caCopy>>, <<disk.compose.written, disk.caCopy>>)
  /\ Only(op, {"Materialize", "AppendPeers", "RemoveHome"}, disk'.compose, disk.compose)
  /\ Only(op, {"WriteEnv", "RemoveHome"}, disk'.env, disk.env)
  /\ Only(op, {"CopyPeer", "RemoveHome"}, disk'.material, disk.material)
  /\ Only(op, {"ConfigureResolver", "RemoveResolver"}, host'.resolvers, host.resolvers)
  /\ Only(op, {"InstallSystem", "RemoveSystem"}, host'.system, host.system)
  /\ Only(op, {"InstallNSS", "RemoveNSS"}, host'.nss, host.nss)
  /\ Only(op, {"TrustTeamRoot", "UntrustTeamRoot"}, host'.root, host.root)
  /\ Only(op, {"ComposeUp", "ComposeDown"}, services', services)
  /\ Only(op, {"ComposeDown", "StartPeers", "RemovePeers"}, peers', peers)

\* A CA that is made is none that was there, and is one.
LEMMA NextCAPositive ==
  ASSUME MachineTyped
  PROVE  NextCA \in Nat /\ NextCA > 0
<1> DEFINE S == {disk.ca.cert, disk.ca.key, disk.caCopy, host.system, host.nss, services["watcher"].ca}
<1>1. S \subseteq Nat
  BY DEF MachineTyped, Fits, Homes, Hosts, Containers, Core, CAs
<1>2. \E m \in S : \A y \in S : m >= y
  BY <1>1
<1>3. Max(S) \in S
  BY <1>2 DEF Max
<1> QED BY <1>1, <1>3 DEF NextCA

\* The material called for, whole or copied in part, is material.
LEMMA WantedTyped ==
  ASSUME NEW cfg \in Configs, NEW int \in Ints
  PROVE  /\ Wanted(cfg, int) \in Materials
         /\ \A old \in Materials, k \in 1..3 : Copied(old, Wanted(cfg, int), k) \in Materials
         /\ \A old \in Materials : Copied(old, Wanted(cfg, int), 3) = Wanted(cfg, int)
<1>1. NoMaterial \in Materials
  BY DEF NoMaterial, Materials, Ints
<1>2. Wanted(cfg, int) \in Materials
  BY <1>1 DEF Wanted, Materials, Configs, MachineSubtree
<1> DEFINE w == Wanted(cfg, int)
<1> HIDE DEF w
<1>3. w \in Materials
  BY <1>2 DEF w
<1>4. ASSUME NEW old \in Materials, NEW k \in 1..3 PROVE Copied(old, w, k) \in Materials
  BY <1>3 DEF Copied, Materials
<1>5. ASSUME NEW old \in Materials PROVE Copied(old, w, 3) = w
  <2>1. Copied(old, w, 3) = [names |-> w.names, int |-> w.int, key |-> w.key]
    BY DEF Copied
  <2>2. w = [names |-> w.names, int |-> w.int, key |-> w.key]
    BY <1>3 DEF Materials
  <2> QED BY <2>1, <2>2
<1> QED BY <1>3, <1>4, <1>5 DEF w

\* The empty values are of their types.
LEMMA EmptyTyped ==
  /\ EmptyHome \in Homes /\ CleanHost \in Hosts /\ Absent \in Containers /\ NoPeers \in Peers
  /\ Default \in Configs /\ NoIntermediate \in Ints
<1>1. DefaultTLD \in TLDs
  BY SettingsAssumption
<1>2. Default \in Configs
  BY <1>1 DEF Default, Configs
<1>3. NoEnv \in Envs
  BY DEF NoEnv, Envs, Images
<1>4. NoMaterial \in Materials /\ NoIntermediate \in Ints
  BY DEF NoMaterial, Materials, Ints
<1>5. EmptyHome \in Homes
  BY <1>2, <1>3, <1>4 DEF EmptyHome, Homes, CAs, NoFiles, Specs
<1>6. CleanHost \in Hosts /\ Absent \in Containers /\ NoPeers \in Peers
  BY <1>3 DEF CleanHost, Hosts, Absent, Containers, NoPeers, Peers, Specs
<1> QED BY <1>2, <1>4, <1>5, <1>6

\* The machine, typed field by field.
Fields == /\ disk \in Homes /\ disk.config \in Configs /\ disk.ca \in CAs /\ disk.int \in Ints /\ disk.env \in Envs
          /\ disk.compose \in [written : BOOLEAN, peers : Specs] /\ disk.caCopy \in Nat /\ disk.material \in Materials
          /\ host \in Hosts /\ services \in [Core -> Containers] /\ peers \in Peers

\* The types of the fields the steps update.
LEMMA Typing ==
  ASSUME MachineTyped
  PROVE  Fields
BY DEF MachineTyped, Fits, Fields, Homes

(* A step keeps to its part of the state, and writes what belongs there.     *)
LEMMA EffectMoves ==
  ASSUME MachineTyped, cmd \in Cmds, rootFile \in Roots, cli \in Nat, NEW op, Effect(op)
  PROVE  Frame(op) /\ Fits(disk', host', services', peers')
<1> USE DEF MachineTyped, Fits
<1>1. Fields /\ NextCA \in Nat
  BY Typing, NextCAPositive
<1>2. cmd.cfg \in Configs /\ cmd.tld \in TLDs /\ cmd.image \in Images /\ cmd.int \in Ints
  BY DEF Cmds
<1>3. CASE op = "EnsureCA" /\ EnsureCA
  <2>1. disk' \in Homes /\ disk'.env.version <= cli /\ UNCHANGED <<host, services, peers>>
    BY <1>3, <1>1, <1>2 DEF EnsureCA, OnDisk, Homes, Fields, CAs
  <2>2. Frame(op)
    BY <1>3, <1>1 DEF EnsureCA, OnDisk, Homes, Fields, Frame, Only
  <2> QED BY <2>1, <2>2
<1>4. CASE op = "PurgeCA" /\ PurgeCA
  <2>1. disk' \in Homes /\ disk'.env.version <= cli /\ UNCHANGED <<host, services, peers>>
    BY <1>4, <1>1, <1>2 DEF PurgeCA, OnDisk, Homes, Fields, CAs
  <2>2. Frame(op)
    BY <1>4, <1>1 DEF PurgeCA, OnDisk, Homes, Fields, Frame, Only
  <2> QED BY <2>1, <2>2
<1>5. CASE op = "ConfigureResolver" /\ ConfigureResolver
  <2>1. host' \in Hosts /\ UNCHANGED <<disk, services, peers>>
    BY <1>5, <1>1, <1>2 DEF ConfigureResolver, OnHost, Hosts, Fields, CAs, Configs
  <2>2. Frame(op)
    BY <1>5, <1>1 DEF ConfigureResolver, OnHost, Hosts, Fields, Frame, Only
  <2> QED BY <2>1, <2>2
<1>6. CASE op = "RemoveResolver" /\ RemoveResolver
  <2>1. host' \in Hosts /\ UNCHANGED <<disk, services, peers>>
    BY <1>6, <1>1, <1>2 DEF RemoveResolver, OnHost, Hosts, Fields, CAs, Configs
  <2>2. Frame(op)
    BY <1>6, <1>1 DEF RemoveResolver, OnHost, Hosts, Fields, Frame, Only
  <2> QED BY <2>1, <2>2
<1>7. CASE op = "InstallSystem" /\ InstallSystemTrust
  <2>1. host' \in Hosts /\ UNCHANGED <<disk, services, peers>>
    BY <1>7, <1>1, <1>2 DEF InstallSystemTrust, OnHost, Hosts, Fields, CAs, Configs
  <2>2. Frame(op)
    BY <1>7, <1>1 DEF InstallSystemTrust, OnHost, Hosts, Fields, Frame, Only
  <2> QED BY <2>1, <2>2
<1>8. CASE op = "RemoveSystem" /\ RemoveSystemTrust
  <2>1. host' \in Hosts /\ UNCHANGED <<disk, services, peers>>
    BY <1>8, <1>1, <1>2 DEF RemoveSystemTrust, OnHost, Hosts, Fields, CAs, Configs
  <2>2. Frame(op)
    BY <1>8, <1>1 DEF RemoveSystemTrust, OnHost, Hosts, Fields, Frame, Only
  <2> QED BY <2>1, <2>2
<1>9. CASE op = "InstallNSS" /\ InstallNSSTrust
  <2>1. host' \in Hosts /\ UNCHANGED <<disk, services, peers>>
    BY <1>9, <1>1, <1>2 DEF InstallNSSTrust, OnHost, Hosts, Fields, CAs, Configs
  <2>2. Frame(op)
    BY <1>9, <1>1 DEF InstallNSSTrust, OnHost, Hosts, Fields, Frame, Only
  <2> QED BY <2>1, <2>2
<1>10. CASE op = "RemoveNSS" /\ RemoveNSSTrust
  <2>1. host' \in Hosts /\ UNCHANGED <<disk, services, peers>>
    BY <1>10, <1>1, <1>2 DEF RemoveNSSTrust, OnHost, Hosts, Fields, CAs, Configs
  <2>2. Frame(op)
    BY <1>10, <1>1 DEF RemoveNSSTrust, OnHost, Hosts, Fields, Frame, Only
  <2> QED BY <2>1, <2>2
<1>11. CASE op = "TrustTeamRoot" /\ TrustTeamRoot
  <2>1. host' \in Hosts /\ UNCHANGED <<disk, services, peers>>
    BY <1>11, <1>1, <1>2 DEF TrustTeamRoot, OnHost, Hosts, Fields, CAs, Configs
  <2>2. Frame(op)
    BY <1>11, <1>1 DEF TrustTeamRoot, OnHost, Hosts, Fields, Frame, Only
  <2> QED BY <2>1, <2>2
<1>12. CASE op = "UntrustTeamRoot" /\ UntrustTeamRoot
  <2>1. host' \in Hosts /\ UNCHANGED <<disk, services, peers>>
    BY <1>12, <1>1, <1>2 DEF UntrustTeamRoot, OnHost, Hosts, Fields, CAs, Configs
  <2>2. Frame(op)
    BY <1>12, <1>1 DEF UntrustTeamRoot, OnHost, Hosts, Fields, Frame, Only
  <2> QED BY <2>1, <2>2
<1>13. CASE op = "SaveConfig" /\ SaveConfig
  <2>1. disk' \in Homes /\ disk'.env.version <= cli /\ UNCHANGED <<host, services, peers>>
    BY <1>13, <1>1, <1>2 DEF SaveConfig, OnDisk, Homes, Fields
  <2>2. Frame(op)
    BY <1>13, <1>1 DEF SaveConfig, OnDisk, Homes, Fields, Frame, Only
  <2> QED BY <2>1, <2>2
<1>14. CASE op = "RemoveHome" /\ RemoveHome
  <2>1. disk' \in Homes /\ disk'.env.version <= cli /\ UNCHANGED <<host, services, peers>>
    <3>1. EmptyHome.env.version = 0
      BY DEF EmptyHome, NoEnv
    <3> QED BY <3>1, <1>14, EmptyTyped DEF RemoveHome, OnDisk
  <2> QED BY <2>1, <1>14 DEF Frame, Only
<1>15. CASE op = "EnsureKey" /\ MachineKey
  <2>1. disk' \in Homes /\ disk'.env.version <= cli /\ UNCHANGED <<host, services, peers>>
    BY <1>15, <1>1, <1>2 DEF MachineKey, OnDisk, Homes, Fields
  <2>2. Frame(op)
    BY <1>15, <1>1 DEF MachineKey, OnDisk, Homes, Fields, Frame, Only
  <2> QED BY <2>1, <2>2
<1>16. CASE op = "SetIntermediate" /\ SetIntermediate
  <2>1. disk' \in Homes /\ disk'.env.version <= cli /\ UNCHANGED <<host, services, peers>>
    BY <1>16, <1>1, <1>2 DEF SetIntermediate, OnDisk, Homes, Fields
  <2>2. Frame(op)
    BY <1>16, <1>1 DEF SetIntermediate, OnDisk, Homes, Fields, Frame, Only
  <2> QED BY <2>1, <2>2
<1>17. CASE op = "CopyPeer" /\ CopyPeer(3)
  <2>1. disk' \in Homes /\ disk'.env.version <= cli /\ UNCHANGED <<host, services, peers>>
    BY <1>17, <1>1, <1>2, WantedTyped, SMTT(30) DEF CopyPeer, OnDisk, Homes, Fields
  <2>2. Frame(op)
    BY <1>17, <1>1 DEF CopyPeer, OnDisk, Homes, Fields, Frame, Only
  <2> QED BY <2>1, <2>2
<1>18. CASE op = "Materialize" /\ OnDisk(materialize)
  <2>1. disk' \in Homes /\ disk'.env.version <= cli /\ UNCHANGED <<host, services, peers>>
    BY <1>18, <1>1, <1>2 DEF materialize, OnDisk, Homes, Fields, CAs, Specs
  <2>2. Frame(op)
    BY <1>18, <1>1 DEF materialize, OnDisk, Homes, Fields, Frame, Only
  <2> QED BY <2>1, <2>2
<1>19. CASE op = "WriteEnv" /\ writeEnv
  <2>1. disk' \in Homes /\ disk'.env.version <= cli /\ UNCHANGED <<host, services, peers>>
    <3> DEFINE e == [tld |-> cmd.cfg.tld, image |-> cmd.image, version |-> cli]
    <3>1. e \in Envs /\ e.version = cli
      BY <1>2 DEF Envs, Configs
    <3>2. disk' = [disk EXCEPT !.env = e] /\ UNCHANGED <<host, services, peers>>
      BY <1>19 DEF writeEnv, OnDisk
    <3> HIDE DEF e
    <3> QED BY <3>1, <3>2, <1>1 DEF Homes, Fields
  <2>2. Frame(op)
    BY <1>19, <1>1 DEF writeEnv, OnDisk, Homes, Fields, Frame, Only
  <2> QED BY <2>1, <2>2
<1>20. CASE op = "AppendPeers" /\ appendPeerServices
  <2>1. disk' \in Homes /\ disk'.env.version <= cli /\ UNCHANGED <<host, services, peers>>
    BY <1>20, <1>1, <1>2 DEF appendPeerServices, OnDisk, Homes, Fields, PeerSpec, peerConfigured, Specs, Configs
  <2>2. Frame(op)
    BY <1>20, <1>1 DEF appendPeerServices, OnDisk, Homes, Fields, Frame, Only
  <2> QED BY <2>1, <2>2
<1>21. CASE op = "ComposeUp" /\ ComposeUp(Core)
  <2>1. services' \in [Core -> Containers] /\ peers' \in Peers /\ UNCHANGED <<disk, host>> /\ \A c \in Core : services'[c].env.version <= cli
    BY <1>21, <1>1, EmptyTyped DEF ComposeUp, Created, Fields, Peers, NoPeers, Absent, NoEnv, Containers, machine
  <2>2. Frame(op)
    BY <1>21 DEF ComposeUp, Created, machine, Frame, Only
  <2> QED BY <2>1, <2>2
<1>22. CASE op = "ComposeDown" /\ ComposeDown
  <2>1. services' \in [Core -> Containers] /\ peers' \in Peers /\ UNCHANGED <<disk, host>> /\ \A c \in Core : services'[c].env.version <= cli
    <3>1. Absent.env.version = 0
      BY DEF Absent, NoEnv
    <3>2. services' = services \/ services' = [c \in Core |-> Absent]
      BY <1>22 DEF ComposeDown
    <3>3. services' \in [Core -> Containers] /\ \A c \in Core : services'[c].env.version <= cli
      BY <3>1, <3>2, <1>1, EmptyTyped DEF Fields
    <3> QED BY <3>3, <1>22, <1>1, EmptyTyped DEF ComposeDown, Fields
  <2>2. Frame(op)
    BY <1>22 DEF ComposeDown, machine, Frame, Only
  <2> QED BY <2>1, <2>2
<1>23. CASE op = "StartPeers" /\ StartPeers
  <2>1. services' \in [Core -> Containers] /\ peers' \in Peers /\ UNCHANGED <<disk, host>> /\ \A c \in Core : services'[c].env.version <= cli
    <3>1. CASE UNCHANGED machine
      BY <3>1, <1>1 DEF machine, Fields
    <3>2. CASE ~UNCHANGED machine
      <4>1. UNCHANGED <<disk, host, services>>
        BY <3>2, <1>23 DEF StartPeers
      <4>2. disk.compose.peers \in Specs
        BY <1>1 DEF Fields
      <4>3. peers' \in Peers
        BY <4>2, <3>2, <1>23 DEF StartPeers, Peers
      <4> QED BY <4>1, <4>3, <1>1 DEF Fields
    <3> QED BY <3>1, <3>2
  <2>2. Frame(op)
    BY <1>23 DEF StartPeers, machine, Frame, Only
  <2> QED BY <2>1, <2>2
<1>24. CASE op = "RemovePeers" /\ RemovePeers
  <2>1. services' \in [Core -> Containers] /\ peers' \in Peers /\ UNCHANGED <<disk, host>> /\ \A c \in Core : services'[c].env.version <= cli
    BY <1>24, <1>1, EmptyTyped DEF RemovePeers, Fields, Peers, NoPeers, Absent, NoEnv, Containers, machine
  <2>2. Frame(op)
    BY <1>24 DEF RemovePeers, machine, Frame, Only
  <2> QED BY <2>1, <2>2
<1> QED BY <1>3, <1>4, <1>5, <1>6, <1>7, <1>8, <1>9, <1>10, <1>11, <1>12, <1>13, <1>14,
           <1>15, <1>16, <1>17, <1>18, <1>19, <1>20, <1>21, <1>22, <1>23, <1>24 DEF Effect

(* Nor does a step cut short reach any further.                              *)
LEMMA StepMoves ==
  ASSUME MachineTyped, cmd \in Cmds, rootFile \in Roots, cli \in Nat, NEW op, Moves(op)
  PROVE  Frame(op) /\ Fits(disk', host', services', peers')
<1> USE DEF MachineTyped, Fits
<1>1. Fields /\ NextCA \in Nat
  BY Typing, NextCAPositive
<1>2. CASE Effect(op)
  BY <1>2, EffectMoves
<1>3. CASE UNCHANGED machine
  BY <1>3 DEF machine, Frame, Only
<1>4. CASE op = "TrustTeamRoot" /\ \E cut \in TeamRootCut : OnHost([host EXCEPT !.root = cut[1]])
  <2> PICK cut \in TeamRootCut : OnHost([host EXCEPT !.root = cut[1]])
    BY <1>4
  <2>1. cut[1] \in {host.root, rootFile, ""}
    <3> DEFINE old == cmd.cfg.trusted
    <3>1. \/ cut = <<host.root, old>> \/ cut = <<rootFile, old>> \/ cut = <<"", old>>
          \/ cut = <<"", "">> \/ cut = <<rootFile, "">>
      BY Zenon DEF TeamRootCut
    <3> HIDE DEF old
    <3>2. /\ <<host.root, old>>[1] = host.root /\ <<rootFile, old>>[1] = rootFile /\ <<"", old>>[1] = ""
          /\ <<"", "">>[1] = "" /\ <<rootFile, "">>[1] = rootFile
      OBVIOUS
    <3> QED BY <3>1, <3>2, Zenon
  <2>2. cut[1] \in Roots \cup {""}
    BY <2>1, <1>1 DEF Hosts, Fields
  <2>3. host' \in Hosts /\ UNCHANGED <<disk, services, peers>>
    BY <2>2, <1>1 DEF OnHost, Hosts, Fields
  <2>4. Frame(op)
    BY <1>1, <1>4 DEF OnHost, Hosts, Fields, Frame, Only
  <2> QED BY <2>3, <2>4
<1>5. CASE op = "EnsureCA" /\ OnDisk([disk EXCEPT !.ca.cert = NextCA])
  <2>1. disk' \in Homes /\ disk'.env.version <= cli /\ UNCHANGED <<host, services, peers>>
    BY <1>5, <1>1 DEF OnDisk, Homes, Fields, CAs
  <2>2. Frame(op)
    BY <1>5, <1>1 DEF OnDisk, Homes, Fields, Frame, Only
  <2> QED BY <2>1, <2>2
<1>6. CASE op = "PurgeCA" /\ OnDisk([disk EXCEPT !.ca.cert = 0])
  <2>1. disk' \in Homes /\ disk'.env.version <= cli /\ UNCHANGED <<host, services, peers>>
    BY <1>6, <1>1 DEF OnDisk, Homes, Fields, CAs
  <2>2. Frame(op)
    BY <1>6, <1>1 DEF OnDisk, Homes, Fields, Frame, Only
  <2> QED BY <2>1, <2>2
<1>7. CASE op = "CopyPeer" /\ \E k \in 1..2 : CopyPeer(k)
  <2> PICK k \in 1..2 : CopyPeer(k)
    BY <1>7
  <2>0. k \in 1..3
    OBVIOUS
  <2>1. disk' \in Homes /\ disk'.env.version <= cli /\ UNCHANGED <<host, services, peers>>
    BY <2>0, <1>1, WantedTyped DEF CopyPeer, OnDisk, Homes, Fields
  <2>2. Frame(op)
    BY <1>7, <1>1 DEF CopyPeer, OnDisk, Homes, Fields, Frame, Only
  <2> QED BY <2>1, <2>2
<1>8. CASE op = "ComposeUp" /\ \E c \in Core : ComposeUp({c})
  <2> PICK d \in Core : ComposeUp({d})
    BY <1>8
  <2>1. services' \in [Core -> Containers] /\ UNCHANGED <<disk, host, peers>> /\ \A c \in Core : services'[c].env.version <= cli
    BY <1>1 DEF ComposeUp, Created, Fields, Containers
  <2>2. Frame(op)
    BY <2>1, <1>8 DEF Frame, Only
  <2> QED BY <2>1, <2>2
<1>9. CASE op = "RemoveHome" /\ OnDisk([disk EXCEPT !.config = Default])
  <2>1. disk' \in Homes /\ disk'.env.version <= cli /\ UNCHANGED <<host, services, peers>>
    BY <1>9, <1>1, EmptyTyped DEF OnDisk, Homes, Fields
  <2>2. Frame(op)
    BY <1>9, <1>1 DEF OnDisk, Homes, Fields, Frame, Only
  <2> QED BY <2>1, <2>2
<1> QED BY <1>2, <1>3, <1>4, <1>5, <1>6, <1>7, <1>8, <1>9 DEF Moves, Cut

-----------------------------------------------------------------------------
\* What a failed install reverts, and a program with what each of its steps entails.
Undo == {"RemoveSystem", "RemoveResolver", "PurgeCA"}

Complete(n, E) ==
  E \subseteq Script(n) /\ \A x \in E, y \in Must(n) : Rank(n, x) < Rank(n, y) => y \in E

\* The program a command has left.
Scripted ==
  /\ Proper(cmd.name, cmd.todo)
  /\ cmd.undoing => cmd.name = "install" /\ ~cmd.ok /\ Ahead \subseteq Undo
  /\ ~cmd.undoing => (Busy => cmd.ok) /\ Complete(cmd.name, Ahead)

\* The reversals are in an order of their own, and revert host steps only.
LEMMA RollbackSteps ==
  ASSUME NEW op \in DOMAIN Reversal, NEW n
  PROVE  Proper(n, Rollback(op)) /\ Elems(Rollback(op)) \subseteq Undo
<1> DEFINE k == CHOOSE k \in DOMAIN HostSteps : HostSteps[k] = op
           s == Rollback(op)
<1>1. DOMAIN HostSteps = 1..4 /\ HostSteps[1] = "EnsureCA" /\ HostSteps[2] = "ConfigureResolver"
      /\ HostSteps[3] = "InstallSystem" /\ HostSteps[4] = "InstallNSS"
  BY DEF HostSteps
<1>2. /\ Reversal["EnsureCA"] = "PurgeCA" /\ Reversal["ConfigureResolver"] = "RemoveResolver"
      /\ Reversal["InstallSystem"] = "RemoveSystem"
      /\ op \in {"EnsureCA", "ConfigureResolver", "InstallSystem", "InstallNSS"}
  BY DEF Reversal
<1>3. \E i \in DOMAIN HostSteps : HostSteps[i] = op
  BY <1>1, <1>2
<1>4. k \in 1..4
  BY <1>1, <1>3
<1>5. s = [i \in 1..(k - 1) |-> Reversal[HostSteps[k - i]]]
  BY DEF Rollback
<1> HIDE DEF k, s
<1>6. \A i \in 1..(k - 1) : s[i] \in Undo
  <2> TAKE i \in 1..(k - 1)
  <2>1. k - i \in {1, 2, 3}
    BY <1>4
  <2>2. HostSteps[k - i] \in {"EnsureCA", "ConfigureResolver", "InstallSystem"}
    BY <2>1, <1>1
  <2>3. s[i] = Reversal[HostSteps[k - i]]
    BY <1>5
  <2> QED BY <2>2, <2>3, <1>2 DEF Undo
<1>7. s \in Seq(Ops) /\ Len(s) = k - 1
  <2>1. \A i \in 1..(k - 1) : s[i] \in Ops
    BY <1>6 DEF Undo, Ops
  <2> QED BY <2>1, <1>4, <1>5
<1>8. Elems(s) \subseteq Undo
  BY <1>6, <1>7 DEF Elems
<1>9. Followed(n, s)
  BY <1>6, <1>7 DEF Followed, Copies, Undo
<1>10. Ascends(n, s)
  <2> SUFFICES ASSUME NEW i \in 1..(k - 1), NEW j \in 1..(k - 1), i < j PROVE Rank(n, s[i]) < Rank(n, s[j])
    BY <1>7 DEF Ascends
  <2>1. s[i] = Reversal[HostSteps[k - i]] /\ s[j] = Reversal[HostSteps[k - j]]
    BY <1>5
  <2>2. <<k - i, k - j>> \in {<<2, 1>>, <<3, 1>>, <<3, 2>>}
    BY <1>4
  <2>3. <<s[i], s[j]>> \in {<<"RemoveResolver", "PurgeCA">>, <<"RemoveSystem", "PurgeCA">>,
                            <<"RemoveSystem", "RemoveResolver">>}
    BY <2>1, <2>2, <1>1, <1>2
  <2> QED BY <2>3, Ranks
<1> QED BY <1>7, <1>8, <1>9, <1>10 DEF Proper, s

\* What a step does to the command that takes it: it is done, passed over, ends
\* the command, or is where the command is killed.
Keeps ==
  /\ cmd' \in Cmds
  /\ cmd'.name = cmd.name /\ cmd'.tld = cmd.tld /\ cmd'.image = cmd.image /\ cmd'.int = cmd.int
  /\ cmd'.failing = cmd.failing /\ cmd'.before = cmd.before
  /\ cmd'.cfg.tld = cmd.cfg.tld /\ cmd'.cfg.machine = cmd.cfg.machine /\ cmd'.cfg.suffix = cmd.cfg.suffix
  /\ cmd'.cfg.address = cmd.cfg.address /\ cmd'.cfg.teamRoot = cmd.cfg.teamRoot

Advances == Keeps /\ cmd'.todo = Tail(cmd.todo) /\ cmd'.undoing = cmd.undoing /\ cmd'.ok = cmd.ok

Done(op) ==
  /\ Advances /\ Effect(op)
  /\ IF op = "TrustTeamRoot" /\ cmd.cfg.teamRoot THEN cmd'.cfg.trusted = rootFile ELSE cmd'.cfg = cmd.cfg
  /\ ~cmd'.skipped => ~cmd.skipped /\ ~(op = "StartPeers" /\ peers'.state = "created")
  /\ torn' = (torn /\ op # "CopyPeer")

PassedOver(op) ==
  /\ Advances /\ cmd'.skipped /\ torn' = torn
  /\ cmd.undoing \/ op \in {"RemovePeers", "StartPeers", "InstallNSS", "RemoveNSS", "UntrustTeamRoot", "TrustTeamRoot"}

Ended(op) ==
  /\ Keeps /\ ~cmd.undoing /\ ~cmd'.ok
  /\ \/ cmd'.undoing /\ cmd.name = "install" /\ op \in DOMAIN Reversal /\ cmd'.todo = Rollback(op)
     \/ ~cmd'.undoing /\ cmd'.todo = <<>>
  /\ Behind \/ (op = "TrustTeamRoot" /\ torn' = torn /\ UNCHANGED machine)

Killed == cmd' = [Idle EXCEPT !.ok = FALSE] /\ Behind

Takes(op) ==
  /\ Busy /\ op = Head(cmd.todo) /\ op \in Ahead /\ Moves(op)
  /\ Done(op) \/ PassedOver(op) \/ Ended(op) \/ Killed
  /\ UNCHANGED <<mesh, rootFile, cli, commands>> /\ faults' \in 0..MaxFaults

\* A configuration with another anchor recorded.
SameBut(c, d) ==
  /\ c \in Configs /\ c.tld = d.tld /\ c.machine = d.machine /\ c.suffix = d.suffix /\ c.address = d.address
  /\ c.teamRoot = d.teamRoot

LEMMA ConfigChanged ==
  ASSUME NEW c \in Configs, NEW r \in Roots \cup {""}
  PROVE  LET d == [c EXCEPT !.trusted = r] IN SameBut(d, c) /\ d.trusted = r /\ (r = c.trusted => d = c)
BY DEF Configs, SameBut

\* The command that is none.
LEMMA IdleTyped == Idle \in Cmds
<1>1. <<"", 0>> \in Images
  BY DEF Images
<1>2. <<>> \in Seq(Ops)
  OBVIOUS
<1>3. EmptyHome.ca \in CAs /\ DefaultTLD \in TLDs
  BY SettingsAssumption DEF EmptyHome, CAs
<1>4. Absent \in Containers /\ CleanHost \in Hosts /\ Default \in Configs /\ NoIntermediate \in Ints
  BY EmptyTyped
<1>5. [ca |-> EmptyHome.ca, host |-> CleanHost, watcher |-> Absent] \in [ca : CAs, host : Hosts, watcher : Containers]
  BY <1>3, <1>4
<1> QED BY <1>1, <1>2, <1>3, <1>4, <1>5 DEF Idle, Cmds, Names

(* Every step of a command is one of these.                                  *)
LEMMA StepsTake ==
  ASSUME Typed, Scripted, Steps
  PROVE  Takes(Head(cmd.todo))
<1> DEFINE op == Head(cmd.todo)
<1>0. <<>> \in Seq(Ops)
  OBVIOUS
<1>1. Busy
  BY DEF Steps, Perform, Refuse, Fail, Kill
<1>2. /\ cmd \in Cmds /\ cmd.cfg \in Configs /\ cmd.todo \in Seq(Ops) /\ cmd.skipped \in BOOLEAN /\ rootFile \in Roots
      /\ torn \in BOOLEAN /\ faults \in 0..MaxFaults /\ MaxFaults \in Nat
  BY LifecycleAssumption DEF Typed, Cmds
<1>3. op \in Ahead /\ op \in Ops /\ Tail(cmd.todo) \in Seq(Ops)
  BY <1>1, <1>2, Advance DEF Scripted, Proper, Busy, Ahead
<1>4. faults' \in 0..MaxFaults /\ UNCHANGED <<mesh, rootFile, cli, commands>>
  <2>1. faults' = faults \/ (faults < MaxFaults /\ faults' = faults + 1)
    BY DEF Steps, Perform, Refuse, Fail, Kill, Fault
  <2>2. UNCHANGED <<mesh, rootFile, cli, commands>>
    BY DEF Steps, Perform, Refuse, Fail, Kill
  <2> QED BY <2>1, <2>2, <1>2
<1>5. ASSUME op \in DOMAIN Reversal PROVE Rollback(op) \in Seq(Ops)
  BY <1>5, RollbackSteps DEF Proper
<1> HIDE DEF op
<1>6. CASE Perform
  <2> DEFINE tr == IF op = "TrustTeamRoot" /\ cmd.cfg.teamRoot THEN rootFile ELSE cmd.cfg.trusted
             sk == cmd.skipped \/ (op = "StartPeers" /\ peers'.state = "created")
  <2>1. Effect(op) /\ torn' = (torn /\ op # "CopyPeer")
        /\ cmd' = [cmd EXCEPT !.todo = Tail(cmd.todo), !.cfg.trusted = tr, !.skipped = sk]
    BY <1>6 DEF Perform, op
  <2>2. tr \in Roots \cup {""} /\ sk \in BOOLEAN
    BY <1>2 DEF Configs
  <2>3. op = "TrustTeamRoot" /\ cmd.cfg.teamRoot => tr = rootFile
    OBVIOUS
  <2>4. ~(op = "TrustTeamRoot" /\ cmd.cfg.teamRoot) => tr = cmd.cfg.trusted
    OBVIOUS
  <2>5. ~sk => ~cmd.skipped /\ ~(op = "StartPeers" /\ peers'.state = "created")
    OBVIOUS
  <2> HIDE DEF tr, sk
  <2> DEFINE g == [cmd.cfg EXCEPT !.trusted = tr]
  <2>a. cmd' = [cmd EXCEPT !.todo = Tail(cmd.todo), !.cfg = g, !.skipped = sk]
    BY <2>1
  <2>b. SameBut(g, cmd.cfg) /\ g.trusted = tr /\ (tr = cmd.cfg.trusted => g = cmd.cfg)
    BY <2>2, <1>2, ConfigChanged DEF Cmds
  <2> HIDE DEF g
  <2>6. Advances /\ cmd'.cfg.trusted = tr /\ cmd'.skipped = sk
    BY <2>a, <2>b, <2>2, <1>2, <1>3 DEF Advances, Keeps, Cmds, SameBut
  <2>7. tr = cmd.cfg.trusted => cmd'.cfg = cmd.cfg
    BY <2>a, <2>b, <1>2 DEF Cmds
  <2>8. Done(op)
    BY <2>1, <2>3, <2>4, <2>5, <2>6, <2>7 DEF Done
  <2> QED BY <2>1, <2>8, <1>1, <1>3, <1>4 DEF Takes, Moves, op
<1>7. CASE Refuse
  <2>1. op = "TrustTeamRoot" /\ UNCHANGED machine /\ torn' = torn
        /\ cmd' = IF Swallowed(op) THEN PassOver ELSE Abort(op)
    BY <1>7 DEF Refuse, RootRefused, op
  <2>2. CASE Swallowed(op)
    <3>1. cmd' = [cmd EXCEPT !.todo = Tail(cmd.todo), !.skipped = TRUE]
      BY <2>1, <2>2 DEF PassOver
    <3>2. Advances /\ cmd'.skipped
      BY <3>1, <1>2, <1>3 DEF Advances, Keeps, Cmds, Configs
    <3> QED BY <3>2, <2>1, <1>1, <1>3, <1>4 DEF Takes, PassedOver, Moves, Cut, op
  <2>3. CASE ~Swallowed(op)
    <3>1. op \notin DOMAIN Reversal /\ ~cmd.undoing
      BY <2>1, <2>3 DEF Reversal, Swallowed
    <3>2. cmd' = [cmd EXCEPT !.ok = FALSE, !.undoing = FALSE, !.todo = <<>>]
      BY <2>1, <2>3, <3>1 DEF Abort
    <3>3. Keeps /\ ~cmd'.ok /\ ~cmd'.undoing /\ cmd'.todo = <<>>
      BY <1>0, <3>2, <1>2 DEF Keeps, Cmds, Configs
    <3>4. Ended(op)
      BY <3>1, <3>3, <2>1 DEF Ended
    <3> QED BY <3>4, <2>1, <1>1, <1>3, <1>4 DEF Takes, Moves, Cut, op
  <2> QED BY <2>2, <2>3
<1>8. CASE Fail
  <2> DEFINE record(c, tr) == [c EXCEPT !.cfg.trusted = tr]
  <2>1. PICK tr \in {cmd.cfg.trusted, ""} :
          /\ Cut(op) \/ (op = "TrustTeamRoot" /\ \E cut \in TeamRootCut : OnHost([host EXCEPT !.root = cut[1]]))
          /\ \/ Swallowed(op) /\ cmd' = record(PassOver, tr) /\ torn' = torn
             \/ Fatal(op) /\ cmd' = record(Abort(op), tr) /\ Behind
    BY <1>8 DEF Fail, op
  <2>2. tr \in Roots \cup {""} /\ Moves(op)
    BY <2>1, <1>2 DEF Configs, Moves
  <2>3. CASE Swallowed(op) /\ cmd' = record(PassOver, tr) /\ torn' = torn
    <3>1. cmd' = [[cmd EXCEPT !.todo = Tail(cmd.todo), !.skipped = TRUE] EXCEPT !.cfg.trusted = tr]
      BY <2>3 DEF PassOver
    <3>2. Advances /\ cmd'.skipped
      BY <3>1, <2>2, <1>2, <1>3 DEF Advances, Keeps, Cmds, Configs
    <3> QED BY <3>2, <2>2, <2>3, <1>1, <1>3, <1>4 DEF Takes, PassedOver, Swallowed, op
  <2>4. CASE Fatal(op) /\ cmd' = record(Abort(op), tr) /\ Behind
    <3> DEFINE u == cmd.name = "install" /\ op \in DOMAIN Reversal
               t == IF u THEN Rollback(op) ELSE <<>>
    <3>1. cmd' = [[cmd EXCEPT !.ok = FALSE, !.undoing = u, !.todo = t] EXCEPT !.cfg.trusted = tr]
      BY <2>4 DEF Abort
    <3>2. u \in BOOLEAN /\ t \in Seq(Ops)
      <4>2. CASE u
        BY <4>2, <1>5
      <4>3. CASE ~u
        BY <1>0, <4>3
      <4>4. u \in BOOLEAN
        OBVIOUS
      <4> QED BY <4>2, <4>3, <4>4
    <3>3. (u /\ cmd.name = "install" /\ op \in DOMAIN Reversal /\ t = Rollback(op)) \/ (~u /\ t = <<>>)
      OBVIOUS
    <3> HIDE DEF u, t
    <3> DEFINE g == [cmd.cfg EXCEPT !.trusted = tr]
    <3>a. cmd' = [cmd EXCEPT !.ok = FALSE, !.undoing = u, !.todo = t, !.cfg = g]
      BY <3>1, <1>2 DEF Cmds
    <3>b. SameBut(g, cmd.cfg)
      BY <2>2, <1>2, ConfigChanged DEF Cmds
    <3> HIDE DEF g
    <3>4. Keeps /\ ~cmd'.ok /\ cmd'.undoing = u /\ cmd'.todo = t
      BY <3>a, <3>b, <3>2, <1>2 DEF Keeps, Cmds, SameBut
    <3>5. Ended(op)
      BY <3>3, <3>4, <2>4 DEF Ended, Fatal
    <3> QED BY <3>5, <2>2, <1>1, <1>3, <1>4 DEF Takes, op
  <2> QED BY <2>1, <2>3, <2>4
<1>9. CASE Kill
  <2>1. Killed
    BY <1>9 DEF Kill, Killed
  <2>2. Moves(op)
    BY <1>9 DEF Kill, Moves, Doing, op
  <2> QED BY <2>1, <2>2, <1>1, <1>3, <1>4 DEF Takes, op
<1> QED BY <1>6, <1>7, <1>8, <1>9 DEF Steps, op

-----------------------------------------------------------------------------
\* A configuration that calls for the same peer material as the one saved.
Agrees(cfg) ==
  /\ cfg.machine = disk.config.machine /\ cfg.suffix = disk.config.suffix /\ cfg.address = disk.config.address
  /\ cfg.teamRoot = disk.config.teamRoot

\* How a command starts: its program is in order and whole.
Opened(name, first, cfg, image, todo) ==
  /\ ~Busy /\ UNCHANGED <<machine, mesh, rootFile, cli, torn, faults>> /\ commands' \in 0..MaxCommands
  /\ cmd' \in Cmds /\ cmd'.name = name /\ cmd'.cfg = cfg /\ cmd'.tld = disk.config.tld /\ cmd'.image = image
  /\ cmd'.todo = todo /\ ~cmd'.undoing /\ cmd'.ok /\ ~cmd'.skipped
  /\ cmd'.failing = Failures(first)
  /\ cmd'.before.watcher = services["watcher"]

Launched(name, first, cfg, image, todo) ==
    LET E == Elems(todo) IN
    /\ Opened(name, first, cfg, image, todo)
    /\ Proper(name, todo) /\ Complete(name, E)
    /\ name \notin {"config", "config_tld"} => cfg = disk.config
    /\ name = "config" => cfg.tld = disk.config.tld
    /\ name = "config_tld" => Agrees(cfg) /\ (E = {} \/ {"RemoveResolver", "SaveConfig", "Materialize"} \subseteq E)
    /\ name \in {"install", "uninstall", "trust", "up", "up_image"} => Must(name) \subseteq E
    /\ name = "update" => E = Converge \/ (E = {} /\ (Up = {} \/ UpToDate(first, FALSE)))
    /\ name = "install" => (cfg.teamRoot => "TrustTeamRoot" \in E)
    /\ name = "uninstall" => (cfg.trusted # "" => "UntrustTeamRoot" \in E)
    /\ name \in {"install", "up", "update"} => image = CanonicalImage(cli)

Launches ==
  \E name \in Names \ {""}, first \in Listed, cfg \in Configs, image \in Images, todo \in Seq(Ops) :
    Launched(name, first, cfg, image, todo)

\* Run opens a command with the program it is given.
LEMMA RunOpens ==
  ASSUME Typed, NEW name \in Names, NEW first, NEW cfg \in Configs, NEW image \in Images, NEW int \in Ints,
         NEW todo \in Seq(Ops), Run(name, first, cfg, image, int, todo)
  PROVE  Opened(name, first, cfg, image, todo)
<1> DEFINE F == Failures(first)
           B == [ca |-> disk.ca, host |-> host, watcher |-> services["watcher"]]
<1>1. Fields
  BY Typing DEF Typed
<1>2. disk.config.tld \in TLDs /\ B \in [ca : CAs, host : Hosts, watcher : Containers] /\ B.watcher = services["watcher"]
  BY <1>1 DEF Fields, Configs, Core
<1>3. F \in SUBSET DOMAIN Remedies
  BY DEF Failures
<1>4. cmd' = [Idle EXCEPT !.name = name, !.cfg = cfg, !.tld = disk.config.tld, !.image = image, !.int = int,
                          !.todo = todo, !.failing = F, !.before = B]
  BY DEF Run
<1> HIDE DEF F, B
<1>5. Idle.undoing = FALSE /\ Idle.ok = TRUE /\ Idle.skipped = FALSE
  BY DEF Idle
<1>6. /\ cmd' \in Cmds /\ cmd'.name = name /\ cmd'.cfg = cfg /\ cmd'.tld = disk.config.tld /\ cmd'.image = image
      /\ cmd'.todo = todo /\ ~cmd'.undoing /\ cmd'.ok /\ ~cmd'.skipped /\ cmd'.failing = F /\ cmd'.before = B
  BY <1>2, <1>3, <1>4, <1>5, IdleTyped DEF Cmds
<1>7. commands' \in 0..MaxCommands
  BY LifecycleAssumption DEF Run, Typed
<1>8. ~Busy /\ UNCHANGED <<machine, mesh, rootFile, cli, torn, faults>>
  BY DEF Run
<1> QED BY <1>2, <1>6, <1>7, <1>8 DEF Opened, F

\* A program that has all it must, or is empty, is whole.
LEMMA WholeScript ==
  ASSUME NEW n, NEW E, E \subseteq Script(n), Must(n) \subseteq E \/ Must(n) = {} \/ E = {}
  PROVE  Complete(n, E)
BY DEF Complete

\* What launches names its program.
LEMMA Launching ==
  ASSUME NEW name \in Names \ {""}, NEW first \in Listed, NEW cfg \in Configs, NEW image \in Images,
         NEW todo, Proper(name, todo), Launched(name, first, cfg, image, todo)
  PROVE  Launches
<1>1. todo \in Seq(Ops)
  BY DEF Proper
<1> QED BY <1>1, Zenon DEF Launches

\* Joined, for programs in order.
LEMMA Join ==
  ASSUME NEW n, NEW s, NEW t, Proper(n, s), Proper(n, t), \A x \in Elems(s), y \in Elems(t) : Rank(n, x) < Rank(n, y)
  PROVE  Proper(n, s \o t) /\ Elems(s \o t) = Elems(s) \cup Elems(t)
BY Joined DEF Proper

(* The longer programs.                                                      *)
LEMMA InstallProgram ==
  ASSUME NEW n, n = "install", NEW b, Proper(n, b), Elems(b) \subseteq {"TrustTeamRoot"}
  PROVE  LET todo == HostSteps \o b \o converge \o <<"SaveConfig">>
         IN  Proper(n, todo) /\ Elems(todo) = Hosting \cup Elems(b) \cup Converge \cup {"SaveConfig"}
<1> DEFINE a == HostSteps
           c == converge
           d == <<"SaveConfig">>
<1>1. Proper(n, a) /\ Elems(a) = Hosting
  BY HostStepsInOrder DEF Hosting
<1>2. Proper(n, c) /\ Elems(c) = Converge
  BY ConvergeSteps DEF Converge
<1>3. Proper(n, d) /\ Elems(d) = {"SaveConfig"}
  <2>1. "SaveConfig" \in Ops /\ ~Copies(n, "SaveConfig")
    BY DEF Ops, Copies
  <2> QED BY <2>1, OneStep
<1>4. (\A x \in Hosting : Rank(n, x) \in 5..9) /\ Rank(n, "TrustTeamRoot") = 10 /\ (\A x \in Converge : Rank(n, x) \in 11..17)
  BY Bounds
<1>5. Rank(n, "SaveConfig") = 18
  BY Ranks
<1> HIDE DEF a, c, d
<1>6. Proper(n, a \o b) /\ Elems(a \o b) = Elems(a) \cup Elems(b)
  <2>1. \A x \in Elems(a), y \in Elems(b) : Rank(n, x) < Rank(n, y)
    BY <1>1, <1>4
  <2> QED BY <1>1, <2>1, Join
<1>7. Proper(n, a \o b \o c) /\ Elems(a \o b \o c) = Elems(a \o b) \cup Elems(c)
  <2>1. \A x \in Elems(a \o b) : Rank(n, x) \in 5..10
    BY <1>1, <1>4, <1>6
  <2>2. ASSUME NEW x \in Elems(a \o b), NEW y \in Elems(c) PROVE Rank(n, x) < Rank(n, y)
    <3>1. Rank(n, x) \in 5..10
      BY <2>1
    <3>2. Rank(n, y) \in 11..17
      BY <1>2, <1>4
    <3> QED BY <3>1, <3>2
  <2> QED BY <1>2, <1>6, <2>2, Join
<1>8. Proper(n, a \o b \o c \o d) /\ Elems(a \o b \o c \o d) = Elems(a \o b \o c) \cup Elems(d)
  <2>1. \A x \in Elems(a \o b \o c) : Rank(n, x) \in 5..17
    BY <1>1, <1>2, <1>4, <1>6, <1>7
  <2>2. ASSUME NEW x \in Elems(a \o b \o c), NEW y \in Elems(d) PROVE Rank(n, x) < Rank(n, y)
    <3>1. Rank(n, x) \in 5..17
      BY <2>1
    <3>2. Rank(n, y) \in 18..18
      BY <1>3, <1>5
    <3> QED BY <3>1, <3>2
  <2> QED BY <1>3, <1>7, <2>2, Join
<1> QED BY <1>1, <1>2, <1>3, <1>6, <1>7, <1>8 DEF a, c, d

\* The program of uninstall, with a team root and without.
LEMMA UninstallProgram ==
  ASSUME NEW n, n = "uninstall", NEW b, Proper(n, b), Elems(b) \subseteq {"UntrustTeamRoot"}
  PROVE  LET todo == <<"ComposeDown">> \o b \o <<"RemoveNSS", "RemoveSystem", "RemoveResolver", "PurgeCA", "RemoveHome">>
         IN  Proper(n, todo) /\ Elems(todo) = Script(n) \ ({"UntrustTeamRoot"} \ Elems(b))
<1> DEFINE a == <<"ComposeDown">>
           c == <<"RemoveNSS", "RemoveSystem", "RemoveResolver", "PurgeCA", "RemoveHome">>
           C == {"RemoveNSS", "RemoveSystem", "RemoveResolver", "PurgeCA", "RemoveHome"}
<1>1. Proper(n, a) /\ Elems(a) = {"ComposeDown"}
  <2>1. "ComposeDown" \in Ops /\ ~Copies(n, "ComposeDown")
    BY DEF Ops, Copies
  <2> QED BY <2>1, OneStep
<1>2. Proper(n, c) /\ Elems(c) = C
  BY RemovalSteps
<1>3. Rank(n, "ComposeDown") = 1 /\ Rank(n, "UntrustTeamRoot") = 2
  BY Ranks
<1>4. \A x \in C : Rank(n, x) \in 3..7
  BY Ranks
<1>5. Script(n) = {"ComposeDown", "UntrustTeamRoot"} \cup C
  BY DEF Script
<1> HIDE DEF a, c, C
<1>6. Proper(n, a \o b) /\ Elems(a \o b) = Elems(a) \cup Elems(b)
  <2>1. \A x \in Elems(a), y \in Elems(b) : Rank(n, x) < Rank(n, y)
    BY <1>1, <1>3
  <2> QED BY <1>1, <2>1, Join
<1>7. Proper(n, a \o b \o c) /\ Elems(a \o b \o c) = Elems(a \o b) \cup Elems(c)
  <2>1. \A x \in Elems(a \o b) : Rank(n, x) \in 1..2
    BY <1>1, <1>3, <1>6
  <2>2. ASSUME NEW x \in Elems(a \o b), NEW y \in Elems(c) PROVE Rank(n, x) < Rank(n, y)
    <3>1. Rank(n, x) \in 1..2
      BY <2>1
    <3>2. Rank(n, y) \in 3..7
      BY <1>2, <1>4
    <3> QED BY <3>1, <3>2
  <2> QED BY <1>2, <1>6, <2>2, Join
<1>8. "UntrustTeamRoot" \notin C /\ "ComposeDown" # "UntrustTeamRoot"
  BY DEF C
<1>9. Elems(a \o b \o c) = Script(n) \ ({"UntrustTeamRoot"} \ Elems(b))
  BY <1>1, <1>2, <1>5, <1>6, <1>7, <1>8
<1> QED BY <1>7, <1>9 DEF a, c

\* The program of trust, with a team root and without.
LEMMA TrustProgram ==
  ASSUME NEW n, n = "trust", NEW b, Proper(n, b), \A x \in Elems(b) : x = "TrustTeamRoot" \/ x = "SaveConfig"
  PROVE  LET todo == <<"EnsureCA", "InstallSystem", "InstallNSS">> \o b
         IN  Proper(n, todo) /\ Elems(todo) = {"EnsureCA", "InstallSystem", "InstallNSS"} \cup Elems(b)
<1> DEFINE a == <<"EnsureCA", "InstallSystem", "InstallNSS">>
           A == {"EnsureCA", "InstallSystem", "InstallNSS"}
<1>1. Proper(n, a) /\ Elems(a) = A
  BY TrustSteps
<1>2. \A x \in A : Rank(n, x) \in 5..9
  BY Ranks
<1>3. Rank(n, "TrustTeamRoot") = 10 /\ Rank(n, "SaveConfig") = 18
  BY Ranks
<1> HIDE DEF a, A
<1>4. Proper(n, a)
  BY <1>1
<1>5. Proper(n, a \o b) /\ Elems(a \o b) = Elems(a) \cup Elems(b)
  <2>1. \A x \in Elems(a), y \in Elems(b) : Rank(n, x) < Rank(n, y)
    BY <1>1, <1>2, <1>3
  <2> QED BY <1>4, <2>1, Join
<1> QED BY <1>1, <1>5 DEF a, A

\* The program of config tld.
LEMMA TLDProgram ==
  ASSUME NEW n, n = "config_tld"
  PROVE  LET todo == <<"RemoveResolver", "SaveConfig", "ConfigureResolver">> \o converge
         IN  Proper(n, todo) /\ Elems(todo) = {"RemoveResolver", "SaveConfig", "ConfigureResolver"} \cup Converge
<1> DEFINE a == <<"RemoveResolver", "SaveConfig", "ConfigureResolver">>
           A == {"RemoveResolver", "SaveConfig", "ConfigureResolver"}
           c == converge
<1>1. Proper(n, a) /\ Elems(a) = A
  BY TLDSteps
<1>2. Proper(n, c) /\ Elems(c) = Converge
  BY ConvergeSteps DEF Converge
<1>3. \A x \in A : Rank(n, x) \in 5..7
  BY Ranks
<1>4. \A x \in Converge : Rank(n, x) \in 11..17
  BY Bounds
<1> HIDE DEF a, A, c
<1>5. \A x \in Elems(a), y \in Elems(c) : Rank(n, x) < Rank(n, y)
  BY <1>1, <1>2, <1>3, <1>4
<1>6. Proper(n, a \o c) /\ Elems(a \o c) = Elems(a) \cup Elems(c)
  BY <1>1, <1>2, <1>5, Join
<1> QED BY <1>1, <1>2, <1>6 DEF a, A, c

(* Which scripts are whole.                                                  *)
LEMMA Scripts ==
  /\ Script("install") = Hosting \cup {"TrustTeamRoot"} \cup Converge \cup {"SaveConfig"}
  /\ Script("trust") = {"EnsureCA", "InstallSystem", "InstallNSS", "TrustTeamRoot", "SaveConfig"}
  /\ Script("down") = {"ComposeDown"} /\ Script("") = {}
  /\ Script("config_tld") = {"RemoveResolver", "SaveConfig", "ConfigureResolver"} \cup Converge
  /\ Script("config") = {"SaveConfig", "SetIntermediate", "EnsureKey", "CopyPeer"}
  /\ Script("up") = Converge /\ Script("up_image") = Converge /\ Script("update") = Converge
  /\ Must("down") = {} /\ Must("config") = {} /\ Must("config_tld") = {} /\ Must("") = {}
  /\ Must("install") = Hosting \cup Converge \cup {"SaveConfig"}
  /\ Must("uninstall") = {"ComposeDown", "RemoveNSS", "RemoveSystem", "RemoveResolver", "PurgeCA", "RemoveHome"}
  /\ Must("trust") = {"EnsureCA", "InstallSystem", "InstallNSS"}
  /\ Must("up") = Converge /\ Must("up_image") = Converge /\ Must("update") = Converge
<1>1. Script("install") = Hosting \cup {"TrustTeamRoot"} \cup Converge \cup {"SaveConfig"}
  BY DEF Script
<1>2. Script("trust") = {"EnsureCA", "InstallSystem", "InstallNSS", "TrustTeamRoot", "SaveConfig"}
  BY DEF Script
<1>3. Script("down") = {"ComposeDown"}
  BY DEF Script
<1>4. Script("") = {}
  BY DEF Script
<1>5. Script("config_tld") = {"RemoveResolver", "SaveConfig", "ConfigureResolver"} \cup Converge
  BY DEF Script
<1>6. Script("config") = {"SaveConfig", "SetIntermediate", "EnsureKey", "CopyPeer"}
  BY DEF Script
<1>7. Script("up") = Converge
  BY DEF Script
<1>8. Script("up_image") = Converge
  BY DEF Script
<1>9. Script("update") = Converge
  BY DEF Script
<1>10. Must("install") = Hosting \cup Converge \cup {"SaveConfig"}
  BY DEF Must, Script, Converge, Hosting
<1>11. Must("uninstall") = {"ComposeDown", "RemoveNSS", "RemoveSystem", "RemoveResolver", "PurgeCA", "RemoveHome"}
  BY DEF Must, Script, Converge, Hosting
<1>12. Must("trust") = {"EnsureCA", "InstallSystem", "InstallNSS"}
  BY DEF Must, Script, Converge, Hosting
<1>13. Must("up") = Converge
  BY DEF Must, Script, Converge, Hosting
<1>14. Must("up_image") = Converge
  BY DEF Must, Script, Converge, Hosting
<1>15. Must("update") = Converge
  BY DEF Must, Script, Converge, Hosting
<1>16. Must("down") = {} /\ Must("config") = {} /\ Must("config_tld") = {} /\ Must("") = {}
  BY DEF Must
<1> QED BY <1>1, <1>2, <1>3, <1>4, <1>5, <1>6, <1>7, <1>8, <1>9, <1>10, <1>11, <1>12, <1>13, <1>14, <1>15, <1>16

\* The images a command may pin.
LEMMA ImagesTyped ==
  ASSUME Typed
  PROVE  CanonicalImage(cli) \in Images /\ Override \in Images /\ cli \in Nat
<1>1. cli \in Nat
  BY LifecycleAssumption DEF Typed
<1> QED BY <1>1 DEF CanonicalImage, Images, Override

(* Plain, up and update open a command; so do the programs about a value.    *)
LEMMA PlainOpens ==
  ASSUME Typed, NEW name \in Names \ {""}, NEW cfg \in Configs, NEW todo, Proper(name, todo), Plain(name, cfg, todo),
         \A first \in Listed : Opened(name, first, cfg, CanonicalImage(cli), todo)
                               => Launched(name, first, cfg, CanonicalImage(cli), todo)
  PROVE  Launches
<1>1. CanonicalImage(cli) \in Images /\ NoIntermediate \in Ints
  BY ImagesTyped, EmptyTyped, Zenon
<1>2. todo \in Seq(Ops)
  BY DEF Proper
<1>3. PICK first \in Listed : Run(name, first, cfg, CanonicalImage(cli), NoIntermediate, todo)
  BY Zenon DEF Plain
<1>4. Opened(name, first, cfg, CanonicalImage(cli), todo)
  BY <1>1, <1>2, <1>3, RunOpens
<1> QED BY <1>1, <1>2, <1>4, Launching

\* config and unset of a peer value.
LEMMA ValueOpens ==
  ASSUME Typed, NEW cfg \in Configs, cfg.tld = disk.config.tld, savePeerValue("config", cfg)
  PROVE  Launches
<1> DEFINE n == "config"
           todo == <<"SaveConfig", "CopyPeer">>
<1>1. Proper(n, todo) /\ Elems(todo) = {"SaveConfig", "CopyPeer"}
  BY ValueSteps
<1>2. Complete(n, Elems(todo))
  BY <1>1, Scripts, WholeScript
<1>3. ASSUME NEW first \in Listed, Opened(n, first, cfg, CanonicalImage(cli), todo)
      PROVE  Launched(n, first, cfg, CanonicalImage(cli), todo)
  BY <1>1, <1>2, <1>3 DEF Launched
<1>4. n \in Names \ {""} /\ Plain(n, cfg, todo)
  BY DEF Names, savePeerValue
<1> HIDE DEF n, todo
<1> QED BY <1>1, <1>3, <1>4, PlainOpens

\* config and unset of the intermediate.
LEMMA IntermediateOpens ==
  ASSUME Typed, NEW int \in Ints, Installing(int)
  PROVE  Launches
<1> DEFINE n == "config"
           todo == <<"SetIntermediate", "CopyPeer">>
           image == CanonicalImage(cli)
<1>1. Proper(n, todo) /\ Elems(todo) = {"SetIntermediate", "CopyPeer"}
  BY IntermediateSteps
<1>2. Complete(n, Elems(todo))
  BY <1>1, Scripts, WholeScript
<1>3. PICK first \in Listed : Run(n, first, disk.config, image, int, todo)
  BY Zenon DEF Installing
<1>4. disk.config \in Configs
  BY Typing DEF Typed, Fields
<1>6. image \in Images
  BY ImagesTyped
<1>7. n \in Names \ {""} /\ todo \in Seq(Ops)
  BY <1>1 DEF Names, Proper
<1>8. Opened(n, first, disk.config, image, todo)
  BY <1>3, <1>4, <1>6, <1>7, RunOpens
<1>9. Launched(n, first, disk.config, image, todo)
  BY <1>1, <1>2, <1>8 DEF Launched
<1> HIDE DEF n, todo, image
<1> QED BY <1>1, <1>4, <1>6, <1>7, <1>9, Launching

\* up and update.
LEMMA ConvergeOpens ==
  ASSUME Typed, NEW n \in {"up", "up_image", "update"}, NEW first \in Listed, NEW image \in Images,
         n # "up_image" => image = CanonicalImage(cli),
         NEW todo \in {converge, <<>>}, todo = <<>> => n = "update" /\ (Up = {} \/ UpToDate(first, FALSE)),
         Run(n, first, disk.config, image, NoIntermediate, todo)
  PROVE  Launches
<1>1. Proper(n, converge) /\ Elems(converge) = Converge
  BY ConvergeSteps DEF Converge
<1>2. Proper(n, <<>>) /\ Elems(<<>>) = {}
  BY NoSteps
<1>3. Script(n) = Converge /\ Must(n) = Converge
  BY Scripts
<1>4. Proper(n, todo) /\ (Elems(todo) = Converge \/ (todo = <<>> /\ Elems(todo) = {}))
  BY <1>1, <1>2
<1>5. Complete(n, Elems(todo))
  BY <1>3, <1>4, WholeScript
<1>6. disk.config \in Configs /\ NoIntermediate \in Ints
  BY Typing, EmptyTyped DEF Typed, Fields
<1>7. n \in Names \ {""} /\ todo \in Seq(Ops)
  BY <1>4 DEF Names, Proper
<1>8. Opened(n, first, disk.config, image, todo)
  BY <1>6, <1>7, RunOpens
<1>9. Launched(n, first, disk.config, image, todo)
  BY <1>3, <1>4, <1>5, <1>8 DEF Launched
<1> QED BY <1>4, <1>6, <1>7, <1>9, Launching

(* Every command opens with its program.                                     *)
LEMMA CommandsLaunch ==
  ASSUME Typed, Commands
  PROVE  Launches
<1>1. /\ disk.config \in Configs /\ Default \in Configs /\ NoIntermediate \in Ints
      /\ CanonicalImage(cli) \in Images /\ Override \in Images
  BY Typing, EmptyTyped, ImagesTyped DEF Typed, Fields
<1>2. CASE install
  <2> DEFINE b == IF disk.config.teamRoot \/ disk.config.trusted # "" THEN <<"TrustTeamRoot">> ELSE <<>>
             n == "install"
             todo == HostSteps \o b \o converge \o <<"SaveConfig">>
  <2>1. Proper(n, b) /\ Elems(b) \subseteq {"TrustTeamRoot"} /\ (disk.config.teamRoot => "TrustTeamRoot" \in Elems(b))
    <3>1. "TrustTeamRoot" \in Ops /\ ~Copies(n, "TrustTeamRoot")
      BY DEF Ops, Copies
    <3> QED BY <3>1, OneStep, NoSteps
  <2>2. Plain(n, disk.config, todo)
    BY <1>2, Zenon DEF install
  <2> HIDE DEF b
  <2>3. Proper(n, todo) /\ Elems(todo) = Hosting \cup Elems(b) \cup Converge \cup {"SaveConfig"}
    BY <2>1, InstallProgram
  <2> HIDE DEF todo
  <2>4. Must(n) \subseteq Elems(todo) /\ Elems(todo) \subseteq Script(n)
    BY <2>1, <2>3, Scripts
  <2>5. Complete(n, Elems(todo))
    BY <2>4, WholeScript
  <2>6. ASSUME NEW first \in Listed, Opened(n, first, disk.config, CanonicalImage(cli), todo)
        PROVE  Launched(n, first, disk.config, CanonicalImage(cli), todo)
    BY <2>1, <2>3, <2>4, <2>5, <2>6 DEF Launched
  <2>7. n \in Names \ {""}
    BY DEF Names
  <2> HIDE DEF n
  <2> QED BY <1>1, <2>2, <2>3, <2>6, <2>7, PlainOpens
<1>3. CASE uninstall
  <2> DEFINE b == IF disk.config.teamRoot \/ disk.config.trusted # "" THEN <<"UntrustTeamRoot">> ELSE <<>>
             n == "uninstall"
             todo == <<"ComposeDown">> \o b \o <<"RemoveNSS", "RemoveSystem", "RemoveResolver", "PurgeCA", "RemoveHome">>
  <2>1. /\ Proper(n, b) /\ Elems(b) \subseteq {"UntrustTeamRoot"}
        /\ disk.config.trusted # "" => "UntrustTeamRoot" \in Elems(b)
    <3>1. "UntrustTeamRoot" \in Ops /\ ~Copies(n, "UntrustTeamRoot")
      BY DEF Ops, Copies
    <3> QED BY <3>1, OneStep, NoSteps
  <2>2. Plain(n, disk.config, todo)
    BY <1>3, Zenon DEF uninstall
  <2> HIDE DEF b
  <2>3. Proper(n, todo) /\ Elems(todo) = Script(n) \ ({"UntrustTeamRoot"} \ Elems(b))
    BY <2>1, UninstallProgram
  <2> HIDE DEF todo
  <2>4. Must(n) \subseteq Elems(todo) /\ Elems(todo) \subseteq Script(n)
    BY <2>3 DEF Must
  <2>5. Complete(n, Elems(todo))
    BY <2>4, WholeScript
  <2>6. disk.config.trusted # "" => "UntrustTeamRoot" \in Elems(todo)
    <3>1. "UntrustTeamRoot" \in Script(n)
      BY DEF Script
    <3> QED BY <3>1, <2>1, <2>3
  <2>7. ASSUME NEW first \in Listed, Opened(n, first, disk.config, CanonicalImage(cli), todo)
        PROVE  Launched(n, first, disk.config, CanonicalImage(cli), todo)
    BY <2>3, <2>4, <2>5, <2>6, <2>7 DEF Launched
  <2>8. n \in Names \ {""}
    BY DEF Names
  <2> HIDE DEF n
  <2> QED BY <1>1, <2>2, <2>3, <2>7, <2>8, PlainOpens
<1>4. CASE down
  <2> DEFINE n == "down"
             todo == <<"ComposeDown">>
  <2>1. Proper(n, todo) /\ Elems(todo) = {"ComposeDown"}
    <3>1. "ComposeDown" \in Ops /\ ~Copies(n, "ComposeDown")
      BY DEF Ops, Copies
    <3> QED BY <3>1, OneStep
  <2>2. Plain(n, disk.config, todo)
    BY <1>4, Zenon DEF down
  <2>3. Complete(n, Elems(todo))
    BY <2>1, Scripts, WholeScript
  <2> HIDE DEF todo
  <2>4. ASSUME NEW first \in Listed, Opened(n, first, disk.config, CanonicalImage(cli), todo)
        PROVE  Launched(n, first, disk.config, CanonicalImage(cli), todo)
    BY <2>1, <2>3, <2>4 DEF Launched
  <2>5. n \in Names \ {""}
    BY DEF Names
  <2> HIDE DEF n
  <2> QED BY <1>1, <2>1, <2>2, <2>4, <2>5, PlainOpens
<1>5. CASE trust
  <2> DEFINE b == IF disk.config.teamRoot THEN <<"TrustTeamRoot", "SaveConfig">> ELSE <<>>
             n == "trust"
             todo == <<"EnsureCA", "InstallSystem", "InstallNSS">> \o b
  <2>1. Proper(n, b) /\ \A x \in Elems(b) : x = "TrustTeamRoot" \/ x = "SaveConfig"
    <3>1. Proper(n, <<"TrustTeamRoot", "SaveConfig">>)
          /\ Elems(<<"TrustTeamRoot", "SaveConfig">>) = {"TrustTeamRoot", "SaveConfig"}
      BY TrustSaved
    <3> QED BY <3>1, NoSteps
  <2>2. Plain(n, disk.config, todo)
    BY <1>5, Zenon DEF trust
  <2> HIDE DEF b
  <2>3. Proper(n, todo) /\ Elems(todo) = {"EnsureCA", "InstallSystem", "InstallNSS"} \cup Elems(b)
    BY <2>1, TrustProgram
  <2> HIDE DEF todo
  <2>4. Must(n) \subseteq Elems(todo) /\ Elems(todo) \subseteq Script(n)
    BY <2>1, <2>3, Scripts
  <2>5. Complete(n, Elems(todo))
    BY <2>4, WholeScript
  <2>6. ASSUME NEW first \in Listed, Opened(n, first, disk.config, CanonicalImage(cli), todo)
        PROVE  Launched(n, first, disk.config, CanonicalImage(cli), todo)
    BY <2>3, <2>4, <2>5, <2>6 DEF Launched
  <2>7. n \in Names \ {""}
    BY DEF Names
  <2> HIDE DEF n
  <2> QED BY <1>1, <2>2, <2>3, <2>6, <2>7, PlainOpens
<1>6. CASE \E image \in {CanonicalImage(cli), Override} : up(image)
  <2> PICK image \in {CanonicalImage(cli), Override} : up(image)
    BY <1>6
  <2> DEFINE n == IF image = Override THEN "up_image" ELSE "up"
  <2>1. PICK first \in Listed : Run(n, first, disk.config, image, NoIntermediate, converge)
    BY DEF up
  <2>2. n \in {"up", "up_image", "update"} /\ (n # "up_image" => image = CanonicalImage(cli))
    OBVIOUS
  <2>3. image \in Images /\ converge \in {converge, <<>>} /\ converge # <<>>
    BY <1>1 DEF converge
  <2> HIDE DEF n
  <2> QED BY <2>1, <2>2, <2>3, ConvergeOpens
<1>7. CASE \E force \in BOOLEAN : update(force)
  <2> PICK force \in BOOLEAN : update(force)
    BY <1>7
  <2> PICK first \in Listed : Run("update", first, disk.config, CanonicalImage(cli), NoIntermediate,
                                  IF Up = {} \/ UpToDate(first, force) THEN <<>> ELSE converge)
    BY DEF update
  <2> DEFINE todo == IF Up = {} \/ UpToDate(first, force) THEN <<>> ELSE converge
             n == "update"
             image == CanonicalImage(cli)
  <2>1. Run(n, first, disk.config, image, NoIntermediate, todo)
    OBVIOUS
  <2>2. todo \in {converge, <<>>} /\ (todo = <<>> => n = "update" /\ (Up = {} \/ UpToDate(first, FALSE)))
    BY DEF UpToDate, converge
  <2>3. image \in Images /\ n \in {"up", "up_image", "update"} /\ (n # "up_image" => image = CanonicalImage(cli))
    BY <1>1
  <2> HIDE DEF n, todo, image
  <2> QED BY <2>1, <2>2, <2>3, ConvergeOpens
<1>8. CASE \E tld \in TLDs : configTLD(tld)
  <2> PICK tld \in TLDs : configTLD(tld)
    BY <1>8
  <2> DEFINE long == <<"RemoveResolver", "SaveConfig", "ConfigureResolver">> \o converge
             todo == IF tld = disk.config.tld THEN <<>> ELSE long
             n == "config_tld"
             cfg == [disk.config EXCEPT !.tld = tld]
  <2>1. Proper(n, long) /\ Elems(long) = {"RemoveResolver", "SaveConfig", "ConfigureResolver"} \cup Converge
    BY TLDProgram
  <2>2. Plain(n, cfg, todo)
    BY Zenon DEF configTLD
  <2> HIDE DEF long
  <2>3. Proper(n, todo) /\ (Elems(todo) = {} \/ Elems(todo) = {"RemoveResolver", "SaveConfig", "ConfigureResolver"} \cup Converge)
    BY <2>1, NoSteps
  <2>4. cfg \in Configs /\ Agrees(cfg)
    BY <1>1 DEF Configs, Agrees
  <2> HIDE DEF todo, cfg
  <2>5. Complete(n, Elems(todo))
    BY <2>3, Scripts, WholeScript
  <2>6. "Materialize" \in Converge
    BY DEF Converge
  <2>7. ASSUME NEW first \in Listed, Opened(n, first, cfg, CanonicalImage(cli), todo)
        PROVE  Launched(n, first, cfg, CanonicalImage(cli), todo)
    BY <2>3, <2>4, <2>5, <2>6, <2>7 DEF Launched
  <2>8. n \in Names \ {""}
    BY DEF Names
  <2> HIDE DEF n
  <2> QED BY <2>2, <2>3, <2>4, <2>7, <2>8, PlainOpens
<1>9. CASE \E m \in Machines : configMachine(m)
  <2> PICK m \in Machines : configMachine(m)
    BY <1>9
  <2> DEFINE cfg == [disk.config EXCEPT !.machine = m]
  <2>1. cfg \in Configs /\ cfg.tld = disk.config.tld
    BY <1>1 DEF Configs
  <2> QED BY <2>1, ValueOpens DEF configMachine
<1>10. CASE \E s \in PeerSuffixes : configSuffix(s)
  <2> PICK s \in PeerSuffixes : configSuffix(s)
    BY <1>10
  <2> DEFINE cfg == [disk.config EXCEPT !.suffix = s]
  <2>1. cfg \in Configs /\ cfg.tld = disk.config.tld
    BY <1>1 DEF Configs
  <2> QED BY <2>1, ValueOpens DEF configSuffix
<1>11. CASE \E a \in Addresses : configAddress(a)
  <2> PICK a \in Addresses : configAddress(a)
    BY <1>11
  <2> DEFINE cfg == [disk.config EXCEPT !.address = a]
  <2>1. cfg \in Configs /\ cfg.tld = disk.config.tld
    BY <1>1 DEF Configs
  <2> QED BY <2>1, ValueOpens DEF configAddress
<1>12. CASE configTeamRoot
  <2> DEFINE cfg == [disk.config EXCEPT !.teamRoot = TRUE]
  <2>1. cfg \in Configs /\ cfg.tld = disk.config.tld
    BY <1>1 DEF Configs
  <2> QED BY <2>1, <1>12, ValueOpens DEF configTeamRoot
<1>13. CASE configCSR
  <2> DEFINE n == "config"
             todo == <<"EnsureKey">>
  <2>1. Proper(n, todo) /\ Elems(todo) = {"EnsureKey"}
    <3>1. "EnsureKey" \in Ops /\ ~Copies(n, "EnsureKey")
      BY DEF Ops, Copies
    <3> QED BY <3>1, OneStep
  <2>2. Plain(n, disk.config, todo)
    BY <1>13, Zenon DEF configCSR
  <2>3. Complete(n, Elems(todo))
    BY <2>1, Scripts, WholeScript
  <2> HIDE DEF todo
  <2>4. ASSUME NEW first \in Listed, Opened(n, first, disk.config, CanonicalImage(cli), todo)
        PROVE  Launched(n, first, disk.config, CanonicalImage(cli), todo)
    BY <2>1, <2>3, <2>4 DEF Launched
  <2>5. n \in Names \ {""}
    BY DEF Names
  <2> HIDE DEF n
  <2> QED BY <1>1, <2>1, <2>2, <2>4, <2>5, PlainOpens
<1>14. CASE unsetIntermediate
  BY <1>1, <1>14, IntermediateOpens DEF unsetIntermediate
<1>15. CASE \E int \in Intermediates : configIntermediate(int)
  <2> PICK int \in Intermediates : configIntermediate(int)
    BY <1>15
  <2> QED BY IntermediateOpens DEF configIntermediate, Ints
<1>16. CASE \E value \in {"machine", "suffix", "address", "teamRoot"} : unset(value)
  <2> PICK value \in {"machine", "suffix", "address", "teamRoot"} : unset(value)
    BY <1>16
  <2> DEFINE cfg == [disk.config EXCEPT ![value] = IF value = "teamRoot" THEN FALSE ELSE ""]
  <2>1. cfg \in Configs /\ cfg.tld = disk.config.tld
    <3>1. CASE value = "machine"
      BY <3>1, <1>1 DEF Configs
    <3>2. CASE value = "suffix"
      BY <3>2, <1>1 DEF Configs
    <3>3. CASE value = "address"
      BY <3>3, <1>1 DEF Configs
    <3>4. CASE value = "teamRoot"
      BY <3>4, <1>1 DEF Configs
    <3> QED BY <3>1, <3>2, <3>3, <3>4
  <2> QED BY <2>1, ValueOpens DEF unset
<1> QED BY <1>2, <1>3, <1>4, <1>5, <1>6, <1>7, <1>8, <1>9, <1>10, <1>11, <1>12, <1>13, <1>14, <1>15, <1>16 DEF Commands

-----------------------------------------------------------------------------
\* Meanwhile: what is not a command's doing leaves disk and host alone, and a
\* command at rest is forgotten, unless only a peer service was started.
Wanders ==
  /\ UNCHANGED <<disk, host, torn, commands>>
  /\ \/ cmd' = Idle /\ ~Busy
     \/ /\ cmd' = cmd /\ UNCHANGED <<services, rootFile, cli>>
        /\ peers' = peers \/ (services["watcher"] # Absent /\ peers.state \in {"created", "exited"}
                              /\ peers' = [peers EXCEPT !.state = "running"])
  /\ Up' \subseteq Up /\ (peers'.state # "absent" => peers.state # "absent")

\* Docker, the mesh, the watcher and the user do no more than that.
LEMMA EnvironmentWanders ==
  ASSUME Typed, Environment
  PROVE  Wanders /\ Typed'
<1>1. /\ Fields /\ cmd \in Cmds /\ Idle \in Cmds /\ peers.state \in {"absent", "created", "running", "exited"}
      /\ peers.spec \in Specs /\ cli \in Nat /\ MaxVersion \in Nat /\ MaxFaults \in Nat
  BY Typing, IdleTyped, ImagesTyped, LifecycleAssumption DEF Typed, Fields, Peers
<1>2. disk.env.version \in Nat /\ \A c \in Core : services[c] \in Containers /\ services[c].env.version \in Nat
  BY <1>1 DEF Fields, Containers, Envs
<1>3. \A st \in {"running", "exited"} : [peers EXCEPT !.state = st] \in Peers
  BY <1>1 DEF Fields, Peers
<1>4. \A st \in {"running", "exited"} : [peers EXCEPT !.state = st].state = st
  BY <1>1 DEF Fields, Peers
<1>5. CASE restartPeerServices
  <2>1. Wanders
    BY <1>4, <1>5 DEF Wanders, restartPeerServices, Up
  <2>2. peers' \in Peers
    BY <1>3, <1>5 DEF restartPeerServices
  <2> QED BY <2>1, <2>2, <1>5 DEF Typed, MachineTyped, Fits, restartPeerServices
<1>6. CASE MeshChanges
  <2>1. Wanders
    BY <1>6, Zenon DEF Wanders, MeshChanges, Forget, machine, Up
  <2>2. mesh' \subseteq Addresses /\ cmd' \in Cmds
    BY <1>1, <1>6 DEF MeshChanges, Forget, Typed
  <2>3. UNCHANGED <<disk, host, services, peers, rootFile, cli, torn, faults, commands>>
    BY <1>6 DEF MeshChanges, machine
  <2>4. Typed'
    BY <2>2, <2>3 DEF Typed, MachineTyped, Fits
  <2> QED BY <2>1, <2>4
<1>7. CASE Reboot
  <2>1. \A c \in Core : services[c] = Absent => services'[c] = Absent
    BY <1>7, Zenon DEF Reboot
  <2>2. cmd' = Idle /\ ~Busy
    BY <1>7 DEF Reboot, Forget
  <2>3. PICK st \in {"running", "exited"} : peers' = [peers EXCEPT !.state = IF @ = "running" THEN st ELSE @]
    BY <1>7 DEF Reboot
  <2>4. peers' \in Peers /\ (peers'.state # "absent" => peers.state # "absent")
    BY <2>3, <1>1 DEF Fields, Peers
  <2>5. services' \in [Core -> Containers] /\ \A c \in Core : services'[c].env.version <= cli
    BY <1>7, <1>1, <1>2 DEF Reboot, Containers, Fields, Typed, MachineTyped, Fits
  <2>6. faults' \in 0..MaxFaults
    BY <1>7, <1>1 DEF Reboot, Fault, Typed
  <2>7. Wanders
    BY <2>1, <2>2, <2>4, <1>7 DEF Wanders, Reboot, Up
  <2> QED BY <2>2, <2>4, <2>5, <2>6, <2>7, <1>1, <1>7 DEF Typed, MachineTyped, Fits, Reboot
<1>8. CASE StopService
  <2>1. PICK d \in Up : services' = [services EXCEPT ![d] = Absent]
    BY <1>8 DEF StopService
  <2>2. cmd' = Idle /\ ~Busy
    BY <1>8 DEF StopService, Forget
  <2>3. Absent \in Containers /\ Absent.env.version = 0
    BY EmptyTyped DEF Absent, NoEnv
  <2>4. services' \in [Core -> Containers] /\ \A c \in Core : services'[c].env.version <= cli /\ services'[c] \in {services[c], Absent}
    BY <2>1, <2>3, <1>1 DEF Fields, Up, Typed, MachineTyped, Fits
  <2>5. faults' \in 0..MaxFaults
    BY <1>8, <1>1 DEF StopService, Fault, Typed
  <2>6. Wanders
    BY <2>2, <2>4, <1>8 DEF Wanders, StopService, Up
  <2> QED BY <2>2, <2>4, <2>5, <2>6, <1>1, <1>8 DEF Typed, MachineTyped, Fits, StopService
<1>9. CASE ReplaceRootFile
  <2>1. Wanders
    BY <1>9, Zenon DEF Wanders, ReplaceRootFile, Forget, machine, Up
  <2> QED BY <2>1, <1>1, <1>9 DEF Typed, MachineTyped, Fits, ReplaceRootFile, Forget, machine
<1>10. CASE Upgrade
  <2>1. Wanders
    BY <1>10, Zenon DEF Wanders, Upgrade, Forget, machine, Up
  <2>2. cli' \in 1..MaxVersion /\ cli' = cli + 1 /\ cmd' = Idle
    BY <1>10, <1>1 DEF Upgrade, Forget, Typed
  <2>3. Fits(disk, host, services, peers)'
    BY <2>2, <1>1, <1>2, <1>10 DEF Typed, MachineTyped, Fits, Upgrade, machine
  <2> QED BY <2>1, <2>2, <2>3, <1>1, <1>10 DEF Typed, MachineTyped, Upgrade, machine
<1> QED BY <1>5, <1>6, <1>7, <1>8, <1>9, <1>10 DEF Environment

\* The step of a command, and what its program is after it.
Progress(op) ==
  /\ Takes(op) /\ op \in Ops /\ Frame(op) /\ Fits(disk', host', services', peers')
  /\ \A x \in Ahead : x = op \/ Rank(cmd.name, op) < Rank(cmd.name, x)
  /\ cmd.undoing => cmd.name = "install" /\ ~cmd.ok /\ op \in Undo
  /\ ~cmd.undoing => cmd.ok /\ op \in Script(cmd.name) /\ Complete(cmd.name, Ahead)
  /\ Copies(cmd.name, op) => "CopyPeer" \in Ahead
  /\ Advances => Ahead' = Ahead \ {op} /\ (Copies(cmd.name, op) => Busy' /\ Head(cmd'.todo) = "CopyPeer")
  /\ (cmd'.todo = <<>>) <=> (Ahead' = {})

\* A program is over when no step is ahead.
LEMMA NothingAhead ==
  ASSUME NEW s \in Seq(Ops)
  PROVE  (s = <<>>) <=> (Elems(s) = {})
<1>1. Len(s) \in Nat /\ (Len(s) = 0 <=> s = <<>>)
  BY EmptySeq
<1>2. CASE Len(s) = 0
  BY <1>1, <1>2 DEF Elems
<1>3. CASE Len(s) > 0
  <2>1. 1 \in 1..Len(s)
    BY <1>1, <1>3
  <2> QED BY <2>1, <1>1, <1>3 DEF Elems
<1> QED BY <1>1, <1>2, <1>3

\* A step of a command keeps types and program.
LEMMA StepsProgress ==
  ASSUME Typed, Scripted, Steps
  PROVE  Progress(Head(cmd.todo)) /\ Typed' /\ Scripted'
<1> DEFINE op == Head(cmd.todo)
           n == cmd.name
<1>1. Takes(op)
  BY StepsTake
<1>2. /\ cmd.todo \in Seq(Ops) /\ cmd.todo # <<>> /\ Ascends(n, cmd.todo) /\ Followed(n, cmd.todo)
      /\ cmd \in Cmds /\ rootFile \in Roots /\ cli \in Nat /\ MachineTyped /\ torn \in BOOLEAN
  BY <1>1, ImagesTyped DEF Scripted, Proper, Takes, Busy, Typed
<1>3. op \in Ahead /\ op \in Ops
  BY <1>2, Advance DEF Ahead
<1>4. Elems(Tail(cmd.todo)) = Ahead \ {op} /\ Proper(n, Tail(cmd.todo))
      /\ \A x \in Elems(Tail(cmd.todo)) : Rank(n, op) < Rank(n, x)
  BY <1>2, Advance DEF Ahead, Proper
<1>5. Copies(n, op) => Tail(cmd.todo) # <<>> /\ Head(Tail(cmd.todo)) = "CopyPeer" /\ "CopyPeer" \in Elems(Tail(cmd.todo))
  BY <1>2, Advance
<1> HIDE DEF op
<1>6. Frame(op) /\ Fits(disk', host', services', peers')
  BY <1>1, <1>2, StepMoves DEF Takes
<1>7. Scripted'
  <2>1. CASE Advances
    <3>1. Ahead' = Ahead \ {op} /\ Proper(cmd'.name, cmd'.todo) /\ cmd'.name = n
      BY <2>1, <1>4 DEF Advances, Keeps, Ahead
    <3>2. Complete(n, Ahead) => Complete(n, Ahead')
      <4> SUFFICES ASSUME Complete(n, Ahead), NEW x \in Ahead', NEW y \in Must(n), Rank(n, x) < Rank(n, y) PROVE y \in Ahead'
        BY <3>1 DEF Complete
      <4>1. y \in Ahead /\ x \in Ahead /\ y \in Ops
        <5>1. y \in Ahead /\ x \in Ahead
          BY <3>1 DEF Complete
        <5>2. \A i \in 1..Len(cmd.todo) : cmd.todo[i] \in Ops
          BY <1>2, ElementOfSeq
        <5> QED BY <5>1, <5>2 DEF Ahead, Elems
      <4>2. Rank(n, op) < Rank(n, x) /\ x \in Ops
        <5>1. \A i \in 1..Len(cmd.todo) : cmd.todo[i] \in Ops
          BY <1>2, ElementOfSeq
        <5> QED BY <5>1, <3>1, <1>4 DEF Ahead, Elems
      <4>3. y # op
        BY <4>1, <4>2, <1>3, RankNat
      <4> QED BY <4>1, <4>3, <3>1
    <3>3. Busy' => Busy
      BY <1>2 DEF Busy
    <3> QED BY <2>1, <3>1, <3>2, <3>3 DEF Scripted, Advances, Keeps
  <2>2. CASE Ended(op)
    <3>1. CASE cmd'.undoing /\ cmd.name = "install" /\ op \in DOMAIN Reversal /\ cmd'.todo = Rollback(op)
      BY <2>2, <3>1, RollbackSteps DEF Scripted, Ended, Keeps, Ahead
    <3>2. CASE ~cmd'.undoing /\ cmd'.todo = <<>>
      <4>1. Proper(cmd'.name, <<>>) /\ Ahead' = {}
        BY <3>2, NoSteps DEF Ahead
      <4> QED BY <4>1, <3>2 DEF Scripted, Busy, Complete
    <3> QED BY <2>2, <3>1, <3>2 DEF Ended
  <2>3. CASE Killed
    <3>1. cmd'.todo = <<>> /\ ~cmd'.undoing
      BY <2>3 DEF Killed, Idle
    <3>2. Proper(cmd'.name, <<>>) /\ Ahead' = {}
      BY <3>1, NoSteps DEF Ahead
    <3> QED BY <3>1, <3>2 DEF Scripted, Busy, Complete
  <2> QED BY <1>1, <2>1, <2>2, <2>3 DEF Takes, Done, PassedOver
<1>8. Typed'
  <2>1. cmd' \in Cmds
    <3>1. [Idle EXCEPT !.ok = FALSE] \in Cmds
      BY IdleTyped DEF Cmds
    <3> QED BY <3>1, <1>1 DEF Takes, Done, PassedOver, Ended, Killed, Advances, Keeps
  <2>2. torn' \in BOOLEAN
    BY <1>1, <1>2, Zenon DEF Takes, Done, PassedOver, Ended, Killed, Behind
  <2>3. cli' = cli /\ mesh' = mesh /\ rootFile' = rootFile /\ commands' = commands /\ faults' \in 0..MaxFaults
    BY <1>1 DEF Takes
  <2>4. MachineTyped'
    BY <1>6, <2>3 DEF MachineTyped, Fits
  <2> QED BY <2>1, <2>2, <2>3, <2>4 DEF Typed
<1>9. Advances => Ahead' = Ahead \ {op} /\ (Copies(n, op) => Busy' /\ Head(cmd'.todo) = "CopyPeer")
  BY <1>4, <1>5 DEF Advances, Ahead, Busy
<1>10. (cmd'.todo = <<>>) <=> (Ahead' = {})
  BY <1>7, NothingAhead DEF Scripted, Proper, Ahead
<1>11. \A x \in Ahead : x = op \/ Rank(n, op) < Rank(n, x)
  BY <1>4
<1>12. cmd.undoing => cmd.name = "install" /\ ~cmd.ok /\ op \in Undo
  BY <1>3 DEF Scripted
<1>13. ~cmd.undoing => cmd.ok /\ op \in Script(cmd.name) /\ Complete(cmd.name, Ahead)
  BY <1>1, <1>3 DEF Scripted, Complete, Takes
<1>14. Copies(n, op) => "CopyPeer" \in Ahead
  BY <1>4, <1>5
<1>15. Progress(op)
  BY <1>1, <1>3, <1>6, <1>9, <1>10, <1>11, <1>12, <1>13, <1>14 DEF Progress
<1> QED BY <1>7, <1>8, <1>15 DEF op

\* So does a command that starts.
LEMMA LaunchesScripted ==
  ASSUME Typed, Launches
  PROVE  Typed' /\ Scripted'
<1> PICK name \in Names \ {""}, first \in Listed, cfg \in Configs, image \in Images, todo \in Seq(Ops) :
           Launched(name, first, cfg, image, todo)
  BY DEF Launches
<1>1. Opened(name, first, cfg, image, todo) /\ Proper(name, todo) /\ Complete(name, Elems(todo))
  BY DEF Launched
<1>2. UNCHANGED <<disk, host, services, peers, mesh, rootFile, cli, torn, faults>> /\ commands' \in 0..MaxCommands /\ cmd' \in Cmds
  BY <1>1 DEF Opened, machine
<1>3. Typed'
  BY <1>2 DEF Typed, MachineTyped, Fits
<1>4. cmd'.name = name /\ cmd'.todo = todo /\ ~cmd'.undoing /\ cmd'.ok /\ Ahead' = Elems(todo)
  BY <1>1 DEF Opened, Ahead
<1>5. Scripted'
  BY <1>1, <1>4 DEF Scripted
<1> QED BY <1>3, <1>5

\* No command, no program.
LEMMA IdleScripted ==
  ASSUME cmd = Idle
  PROVE  Scripted /\ Ahead = {} /\ cmd.name = "" /\ ~Busy /\ cmd.ok /\ cmd.failing = {}
<1>1. cmd.name = "" /\ cmd.todo = <<>> /\ ~cmd.undoing /\ cmd.ok /\ cmd.failing = {}
  BY DEF Idle
<1>2. Ahead = {}
  BY <1>1, NoSteps DEF Ahead
<1> QED BY <1>1, <1>2, NoSteps DEF Scripted, Complete, Busy

(* A step of the system starts a command, is a command's own or is none.     *)
LEMMA NextMoves ==
  ASSUME Typed, Scripted, [Next]_vars
  PROVE  Typed' /\ Scripted' /\ (Launches \/ Progress(Head(cmd.todo)) \/ Wanders)
<1>1. CASE Commands
  BY <1>1, CommandsLaunch, LaunchesScripted
<1>2. CASE Steps
  BY <1>2, StepsProgress
<1>3. CASE Environment
  <2>1. Wanders /\ Typed'
    BY <1>3, EnvironmentWanders
  <2>2. CASE cmd' = cmd
    BY <2>1, <2>2 DEF Scripted, Ahead, Busy
  <2>3. CASE cmd' = Idle
    <3>1. (cmd = Idle)' => Scripted'
      BY IdleScripted, PTL
    <3> QED BY <2>1, <2>3, <3>1
  <2> QED BY <2>1, <2>2, <2>3 DEF Wanders
<1>4. CASE UNCHANGED vars
  <2>1. UNCHANGED <<disk, host, services, peers, mesh, rootFile, cli, cmd, torn, faults, commands>>
    BY <1>4 DEF vars, machine
  <2>2. Wanders
    BY <2>1 DEF Wanders, Up
  <2> QED BY <2>1, <2>2 DEF Typed, MachineTyped, Fits, Scripted, Ahead, Busy
<1> QED BY <1>1, <1>2, <1>3, <1>4 DEF Next

-----------------------------------------------------------------------------
\* The homes a host may start with.
SharingConfig(m, s, a) == [Default EXCEPT !.machine = m, !.suffix = s, !.address = a, !.teamRoot = TRUE]

\* The homes Init starts from are homes.
LEMMA HomesTyped ==
  /\ InstalledHome \in Homes /\ InstalledHome.env.version = 1 /\ InstalledHome.compose.written = TRUE
  /\ \A m \in Machines, s \in PeerSuffixes, a \in Addresses, r \in Roots :
       LET cfg == SharingConfig(m, s, a)
           int == [subtree |-> MachineSubtree(m, s), root |-> r]
       IN  /\ cfg \in Configs /\ int \in Ints /\ PeerSpec(cfg) \in Specs
           /\ SharingHome(cfg, int) \in Homes /\ SharingHome(cfg, int).env.version = 1
<1> DEFINE e == [tld |-> DefaultTLD, image |-> CanonicalImage(1), version |-> 1]
           c == [cert |-> 1, key |-> 1]
<1>1. e \in Envs /\ e.version = 1
  <2>1. CanonicalImage(1) \in Images
    BY DEF CanonicalImage, Images
  <2> QED BY <2>1, SettingsAssumption DEF Envs
<1>2. c \in CAs
  BY DEF CAs
<1>3. InstalledHome = [EmptyHome EXCEPT !.ca = c, !.caCopy = 1, !.compose.written = TRUE, !.env = e]
  BY DEF InstalledHome
<1> HIDE DEF e, c
<1>4. InstalledHome \in Homes /\ InstalledHome.env = e /\ InstalledHome.compose.written = TRUE
  BY <1>1, <1>2, <1>3, EmptyTyped DEF Homes
<1>5. ASSUME NEW m \in Machines, NEW s \in PeerSuffixes, NEW a \in Addresses, NEW r \in Roots
      PROVE  LET cfg == SharingConfig(m, s, a)
                 int == [subtree |-> MachineSubtree(m, s), root |-> r]
             IN  /\ cfg \in Configs /\ int \in Ints /\ PeerSpec(cfg) \in Specs
                 /\ SharingHome(cfg, int) \in Homes /\ SharingHome(cfg, int).env.version = 1
  <2> DEFINE cfg == SharingConfig(m, s, a)
             int == [subtree |-> MachineSubtree(m, s), root |-> r]
  <2>1. cfg \in Configs /\ cfg.machine = m /\ cfg.suffix = s /\ cfg.address = a
    BY EmptyTyped DEF SharingConfig, Configs
  <2>2. int \in Ints
    BY DEF Ints, Intermediates, MachineSubtree
  <2> HIDE DEF cfg, int
  <2>3. PeerSpec(cfg) \in Specs
    BY <2>1 DEF PeerSpec, Specs
  <2>4. Wanted(cfg, int) \in Materials
    BY <2>1, <2>2, WantedTyped
  <2>5. SharingHome(cfg, int) \in Homes /\ SharingHome(cfg, int).env = e
    BY <1>4, <2>1, <2>2, <2>3, <2>4 DEF SharingHome, Homes
  <2> QED BY <1>1, <2>1, <2>2, <2>3, <2>5 DEF cfg, int
<1> QED BY <1>1, <1>4, <1>5

\* Each of the three hosts Init starts from is in order.
LEMMA InitFacts ==
  ASSUME Init
  PROVE  /\ Typed /\ Scripted /\ cmd = Idle
         /\ host.resolvers \subseteq {disk.config.tld}
         /\ (Up # {} \/ peers.state # "absent") => disk.compose.written
         /\ ~disk.compose.written \/ disk.material = Wanted(disk.config, disk.int)
<1>1. /\ rootFile \in Roots /\ mesh = Addresses /\ cli = 1 /\ cmd = Idle /\ torn = FALSE /\ faults = 0 /\ commands = 0
  BY DEF Init
<1>2. cmd \in Cmds /\ Scripted /\ cli \in 1..MaxVersion /\ faults \in 0..MaxFaults /\ commands \in 0..MaxCommands
  <2>1. MaxCommands \in Nat /\ MaxFaults \in Nat /\ MaxVersion \in Nat \ {0}
    BY LifecycleAssumption
  <2>2. cli \in 1..MaxVersion /\ faults \in 0..MaxFaults /\ commands \in 0..MaxCommands
    BY <2>1, <1>1
  <2> QED BY <2>2, <1>1, IdleTyped, IdleScripted
<1> DEFINE Good ==
      /\ MachineTyped
      /\ host.resolvers \subseteq {disk.config.tld}
      /\ (Up # {} \/ peers.state # "absent") => disk.compose.written
      /\ ~disk.compose.written \/ disk.material = Wanted(disk.config, disk.int)
<1> SUFFICES Good
  <2>1. Typed
    BY <1>1, <1>2 DEF Typed
  <2> QED BY <1>1, <1>2, <2>1
<1>3. Absent.env.version = 0 /\ NoPeers.state = "absent" /\ EmptyHome.env.version = 0 /\ CleanHost.resolvers = {}
      /\ EmptyHome.compose.written = FALSE
  BY DEF Absent, NoEnv, NoPeers, EmptyHome, NoFiles, CleanHost
<1>4. ASSUME Installed, disk \in Homes, disk.env.version = 1, disk.config.tld = DefaultTLD
      PROVE  /\ host \in Hosts /\ services \in [Core -> Containers] /\ \A c \in Core : services[c].env.version = 1
             /\ host.resolvers \subseteq {disk.config.tld}
  <2>1. host = [CleanHost EXCEPT !.resolvers = {DefaultTLD}, !.system = 1, !.nss = 1]
    BY <1>4 DEF Installed
  <2>2. host \in Hosts /\ host.resolvers = {DefaultTLD}
    BY <2>1, EmptyTyped, SettingsAssumption DEF Hosts
  <2>3. InstalledHome.env \in Envs /\ InstalledHome.env.version = 1
    BY HomesTyped DEF Homes
  <2>4. services = [c \in Core |-> [env |-> InstalledHome.env, ca |-> IF c = "watcher" THEN 1 ELSE 0]]
    BY <1>4 DEF Installed
  <2>5. services \in [Core -> Containers] /\ \A c \in Core : services[c].env.version = 1
    BY <2>3, <2>4 DEF Containers
  <2> QED BY <2>2, <2>5, <1>4
<1>5. CASE disk = EmptyHome /\ host = CleanHost /\ peers = NoPeers /\ services = [c \in Core |-> Absent]
  <2>1. services \in [Core -> Containers] /\ (\A c \in Core : services[c].env.version = 0) /\ Up = {}
    BY <1>3, <1>5, EmptyTyped DEF Up
  <2>2. MachineTyped
    <3>1. disk.env.version <= cli
      BY <1>1, <1>3, <1>5
    <3>2. \A c \in Core : services[c].env.version <= cli
      BY <2>1, <1>1
    <3> QED BY <3>1, <3>2, <2>1, <1>5, EmptyTyped, Zenon DEF MachineTyped, Fits
  <2> QED BY <2>1, <2>2, <1>3, <1>5
<1>6. CASE disk = InstalledHome /\ Installed /\ peers = NoPeers
  <2>1. disk.config = Default /\ disk.int = NoIntermediate /\ disk.material = NoMaterial /\ disk.compose.written = TRUE
    BY <1>6, EmptyTyped DEF InstalledHome, EmptyHome, NoFiles
  <2>2. Default.machine = "" /\ Default.tld = DefaultTLD
    BY DEF Default
  <2>3. Wanted(Default, NoIntermediate) = NoMaterial
    <3>1. "machine" \in PeerMissing(Default, NoIntermediate)
      BY <2>2 DEF PeerMissing
    <3> QED BY <3>1 DEF Wanted, PeerServed
  <2>4. /\ host \in Hosts /\ services \in [Core -> Containers] /\ \A c \in Core : services[c].env.version = 1
        /\ host.resolvers \subseteq {disk.config.tld}
    BY <1>4, <1>6, <2>1, <2>2, HomesTyped
  <2>5. MachineTyped
    <3>1. InstalledHome.env.version = 1 /\ InstalledHome \in Homes /\ NoPeers \in Peers
      BY HomesTyped, EmptyTyped, Zenon
    <3>2. disk.env.version <= cli
      BY <3>1, <1>1, <1>6
    <3>3. \A c \in Core : services[c].env.version <= cli
      BY <2>4, <1>1
    <3> QED BY <3>1, <3>2, <3>3, <2>4, <1>6, Zenon DEF MachineTyped, Fits
  <2> QED BY <2>1, <2>3, <2>4, <2>5
<1>7. CASE \E s \in PeerSuffixes, a \in Addresses :
             LET m   == CHOOSE label \in Machines : TRUE
                 cfg == [Default EXCEPT !.machine = m, !.suffix = s, !.address = a, !.teamRoot = TRUE]
                 int == [subtree |-> MachineSubtree(m, s), root |-> rootFile]
             IN  /\ ValidateTeamRoot(rootFile, s)
                 /\ disk = SharingHome(cfg, int) /\ Installed
                 /\ peers = [state |-> "running", spec |-> PeerSpec(cfg)]
  <2> DEFINE m == CHOOSE label \in Machines : TRUE
  <2>1. m \in Machines
    BY SettingsAssumption
  <2> PICK s \in PeerSuffixes, a \in Addresses :
             LET cfg == [Default EXCEPT !.machine = m, !.suffix = s, !.address = a, !.teamRoot = TRUE]
                 int == [subtree |-> MachineSubtree(m, s), root |-> rootFile]
             IN  /\ disk = SharingHome(cfg, int) /\ Installed
                 /\ peers = [state |-> "running", spec |-> PeerSpec(cfg)]
    BY <1>7
  <2> DEFINE cfg == SharingConfig(m, s, a)
             int == [subtree |-> MachineSubtree(m, s), root |-> rootFile]
  <2>2. disk = SharingHome(cfg, int) /\ Installed /\ peers = [state |-> "running", spec |-> PeerSpec(cfg)]
    BY DEF SharingConfig
  <2> HIDE DEF m
  <2>3. cfg \in Configs /\ int \in Ints /\ PeerSpec(cfg) \in Specs /\ disk \in Homes /\ disk.env.version = 1
    BY <1>1, <2>1, <2>2, HomesTyped
  <2>4. cfg.tld = DefaultTLD
    BY EmptyTyped DEF SharingConfig, Default
  <2> HIDE DEF cfg, int
  <2>5. disk.config = cfg /\ disk.int = int /\ disk.material = Wanted(cfg, int) /\ disk.compose.written = TRUE
    <3>1. InstalledHome \in Homes
      BY HomesTyped
    <3>2. InstalledHome.compose.written = TRUE
      BY HomesTyped, Zenon
    <3> DEFINE w == Wanted(cfg, int)
               q == PeerSpec(cfg)
    <3>3. disk = [InstalledHome EXCEPT !.config = cfg, !.mkey = TRUE, !.int = int, !.compose.peers = q, !.material = w]
      BY <2>2 DEF SharingHome
    <3>4. InstalledHome.compose \in [written : BOOLEAN, peers : Specs]
      BY <3>1 DEF Homes
    <3> HIDE DEF w, q
    <3>5. disk.config = cfg /\ disk.int = int /\ disk.material = w
      BY <3>1, <3>3 DEF Homes
    <3> DEFINE p == [InstalledHome.compose EXCEPT !.peers = q]
    <3>a. disk = [InstalledHome EXCEPT !.config = cfg, !.mkey = TRUE, !.int = int, !.compose = p, !.material = w]
      BY <3>3
    <3>b. p.written = TRUE
      BY <3>2, <3>4
    <3> HIDE DEF p
    <3>6. disk.compose.written = TRUE
      BY <3>1, <3>a, <3>b DEF Homes
    <3> QED BY <3>5, <3>6 DEF w
  <2>6. peers \in Peers
    BY <2>2, <2>3 DEF Peers
  <2>7. /\ host \in Hosts /\ services \in [Core -> Containers] /\ \A c \in Core : services[c].env.version = 1
        /\ host.resolvers \subseteq {disk.config.tld}
    BY <1>4, <2>2, <2>3, <2>4, <2>5
  <2>8. MachineTyped
    <3>1. disk.env.version <= cli
      BY <2>3, <1>1
    <3>2. \A c \in Core : services[c].env.version <= cli
      BY <2>7, <1>1
    <3> QED BY <3>1, <3>2, <2>3, <2>6, <2>7, Zenon DEF MachineTyped, Fits
  <2> QED BY <2>5, <2>7, <2>8
<1> HIDE DEF Good
<1> QED BY <1>5, <1>6, <1>7, Zenon DEF Init

-----------------------------------------------------------------------------
\* Whose step it is.
Roles(n, op) ==
  /\ op = "RemoveHome" => n = "uninstall"
  /\ op = "SaveConfig" => n \in {"install", "trust", "config", "config_tld"}
  /\ op \in {"SetIntermediate", "EnsureKey"} => n = "config"
  /\ op \in {"PurgeCA", "RemoveSystem", "RemoveNSS", "UntrustTeamRoot"} => n = "uninstall"
  /\ op = "RemoveResolver" => n \in {"uninstall", "config_tld"}
  /\ op = "ConfigureResolver" => n \in {"install", "config_tld"}
  /\ op \in {"EnsureCA", "InstallSystem", "InstallNSS", "TrustTeamRoot"} => n \in {"install", "trust"}
  /\ op = "ComposeDown" => n \in {"uninstall", "down"}
  /\ op \in Converge \ {"CopyPeer"} => n \in {"install", "config_tld", "up", "up_image", "update"}
  /\ op = "CopyPeer" => n \in {"install", "config_tld", "up", "up_image", "update", "config"}

\* Read off the programs.
LEMMA RolesOfSteps ==
  ASSUME NEW n \in Names, NEW op \in Script(n)
  PROVE  Roles(n, op)
<1>1. CASE n = "install"
  BY <1>1, Scripts DEF Roles, Converge, Hosting
<1>2. CASE n = "uninstall"
  BY <1>2 DEF Roles, Converge, Script
<1>3. CASE n = "trust"
  BY <1>3, Scripts DEF Roles, Converge
<1>4. CASE n = "config_tld"
  BY <1>4, Scripts DEF Roles, Converge
<1>5. CASE n = "config"
  BY <1>5, Scripts DEF Roles, Converge
<1>6. CASE n \in {"up", "up_image", "update"}
  BY <1>6, Scripts DEF Roles, Converge
<1>7. CASE n \in {"down", ""}
  BY <1>7, Scripts DEF Roles, Converge
<1> QED BY <1>1, <1>2, <1>3, <1>4, <1>5, <1>6, <1>7 DEF Names

\* A step is a reversal of a failed install or has its role in the command.
LEMMA ProgressRoles ==
  ASSUME Typed, NEW op, Progress(op)
  PROVE  (cmd.undoing /\ op \in Undo /\ cmd.name = "install" /\ ~cmd.ok) \/ (~cmd.undoing /\ cmd.ok /\ Roles(cmd.name, op))
BY RolesOfSteps DEF Progress, Typed, Cmds

-----------------------------------------------------------------------------
(* What a command read when it started is what is saved: its configuration   *)
(* is the one on disk, but for the values config is about to save, and the    *)
(* resolver that config tld and uninstall remove is that of the TLD saved.    *)
Decided ==
  /\ (cmd.ok /\ cmd.name \in {"install", "up", "up_image", "update", "trust"}) =>
       Agrees(cmd.cfg) /\ cmd.cfg.tld = disk.config.tld
  /\ (Busy /\ cmd.name = "install") => cmd.cfg.tld = disk.config.tld /\ cmd.tld = disk.config.tld
  /\ (Busy /\ cmd.name = "config_tld" /\ "SaveConfig" \in Ahead) => Agrees(cmd.cfg) /\ cmd.tld = disk.config.tld
  /\ (Busy /\ cmd.name = "config_tld" /\ "SaveConfig" \notin Ahead) => disk.config.tld = cmd.cfg.tld
  /\ (Busy /\ cmd.name = "config") => cmd.cfg.tld = disk.config.tld
  /\ (Busy /\ cmd.name = "uninstall" /\ "RemoveResolver" \in Ahead) => cmd.tld = disk.config.tld

\* A command that starts reads the configuration saved.
LEMMA DecidedLaunches ==
  ASSUME Typed, Launches
  PROVE  Decided'
<1> PICK name \in Names \ {""}, first \in Listed, cfg \in Configs, image \in Images, todo \in Seq(Ops) :
           Launched(name, first, cfg, image, todo)
  BY DEF Launches
<1>1. disk' = disk /\ cmd'.name = name /\ cmd'.cfg = cfg /\ cmd'.tld = disk.config.tld /\ cmd'.todo = todo /\ Ahead' = Elems(todo)
  BY DEF Launched, Opened, machine, Ahead
<1>2. /\ name \notin {"config", "config_tld"} => cfg = disk.config
      /\ name = "config" => cfg.tld = disk.config.tld
      /\ name = "config_tld" => Agrees(cfg) /\ (Elems(todo) = {} \/ {"RemoveResolver", "SaveConfig", "Materialize"} \subseteq Elems(todo))
  BY DEF Launched
<1>3. Busy' <=> Ahead' # {}
  BY <1>1, NothingAhead DEF Busy
<1> QED BY <1>1, <1>2, <1>3 DEF Decided, Agrees

\* Only SaveConfig and RemoveHome change what is saved.
LEMMA DecidedProgress ==
  ASSUME Typed, Decided, NEW op, Progress(op)
  PROVE  Decided'
<1> DEFINE n == cmd.name
<1>1. (cmd.undoing /\ op \in Undo /\ n = "install" /\ ~cmd.ok) \/ (~cmd.undoing /\ cmd.ok /\ Roles(n, op))
  BY ProgressRoles
<1>2. Busy /\ op \in Ahead
  BY DEF Progress, Takes
<1>3. op \notin {"SaveConfig", "RemoveHome"} => disk'.config = disk.config
  BY DEF Progress, Frame, Only
<1>4. \A x \in Ahead : x = op \/ Rank(n, op) < Rank(n, x)
  BY DEF Progress
<1>5. Fields /\ cmd \in Cmds /\ cmd.cfg \in Configs
  BY Typing DEF Typed, Cmds
<1>6. CASE Advances /\ op \notin {"SaveConfig", "RemoveHome"}
  <2>1. Ahead' = Ahead \ {op} /\ disk'.config = disk.config
    BY <1>3, <1>6 DEF Progress
  <2> QED BY <2>1, <1>2, <1>6 DEF Decided, Agrees, Advances, Keeps
<1>7. CASE Done(op) /\ op = "SaveConfig"
  <2>1. disk'.config = cmd.cfg /\ cmd'.cfg = cmd.cfg
    BY <1>5, <1>7 DEF Done, Effect, SaveConfig, OnDisk, Fields, Homes
  <2>2. Ahead' = Ahead \ {op} /\ Advances
    BY <1>7 DEF Progress, Done
  <2>3. n = "config_tld" \/ n \in {"install", "trust", "config"}
    BY <1>1, <1>7 DEF Roles, Undo
  <2>4. n = "install" => cmd.tld = disk.config.tld /\ cmd.cfg.tld = disk.config.tld
    BY <1>2 DEF Decided
  <2> QED BY <2>1, <2>2, <2>3, <2>4, <1>7 DEF Decided, Agrees, Advances, Keeps
<1>8. CASE Done(op) /\ op = "RemoveHome"
  <2>1. n = "uninstall" /\ Ahead' = Ahead \ {op} /\ Advances
    BY <1>1, <1>8 DEF Progress, Done, Roles, Undo
  <2>2. "RemoveResolver" \notin Ahead
    BY <1>4, <1>8, Ranks
  <2> QED BY <2>1, <2>2 DEF Decided, Advances, Keeps
<1>9. CASE PassedOver(op) /\ op \in {"SaveConfig", "RemoveHome"}
  BY <1>1, <1>9 DEF PassedOver, Undo
<1>10. CASE Ended(op)
  <2>1. CASE cmd'.todo = <<>>
    BY <2>1, <1>10 DEF Decided, Busy, Ended
  <2>2. CASE n = "install" /\ op \in DOMAIN Reversal
    <3>1. disk'.config = disk.config
      BY <2>2, <1>3 DEF Reversal
    <3> QED BY <3>1, <2>2, <1>2, <1>10 DEF Decided, Ended, Keeps
  <2> QED BY <2>1, <2>2, <1>10 DEF Ended
<1>11. CASE Killed
  BY <1>11 DEF Killed, Idle, Decided
<1> QED BY <1>6, <1>7, <1>8, <1>9, <1>10, <1>11 DEF Progress, Takes, Done, PassedOver

\* Nothing else does.
LEMMA DecidedWanders ==
  ASSUME Decided, Wanders
  PROVE  Decided'
<1>1. CASE cmd' = Idle
  BY <1>1 DEF Decided, Idle
<1>2. CASE cmd' = cmd
  BY <1>2 DEF Decided, Wanders, Agrees, Ahead, Busy
<1> QED BY <1>1, <1>2 DEF Wanders

-----------------------------------------------------------------------------
(* There is never a drop-in of another TLD than the one saved; and none while *)
(* config tld saves the new TLD, or uninstall removes the saved one.          *)
OneResolver ==
  /\ host.resolvers \subseteq {disk.config.tld}
  /\ (Busy /\ cmd.name \in {"config_tld", "uninstall"} /\ "RemoveResolver" \notin Ahead
      /\ Ahead \cap {"SaveConfig", "RemoveHome"} # {}) => host.resolvers = {}

\* config tld and uninstall start with the old resolver still to be removed.
LEMMA OneResolverLaunches ==
  ASSUME Typed, OneResolver, Launches
  PROVE  OneResolver'
<1> PICK name \in Names \ {""}, first \in Listed, cfg \in Configs, image \in Images, todo \in Seq(Ops) :
           Launched(name, first, cfg, image, todo)
  BY DEF Launches
<1>1. disk' = disk /\ host' = host /\ cmd'.name = name /\ cmd'.todo = todo /\ Ahead' = Elems(todo)
  BY DEF Launched, Opened, machine, Ahead
<1>2. name = "config_tld" => Elems(todo) = {} \/ "RemoveResolver" \in Elems(todo)
  BY DEF Launched
<1>3. name = "uninstall" => "RemoveResolver" \in Elems(todo)
  BY Scripts DEF Launched
<1>4. Busy' <=> Ahead' # {}
  BY <1>1, NothingAhead DEF Busy
<1> QED BY <1>1, <1>2, <1>3, <1>4 DEF OneResolver

\* The TLD saved changes while no resolver is there.
LEMMA OneResolverProgress ==
  ASSUME Typed, Decided, OneResolver, NEW op, Progress(op)
  PROVE  OneResolver'
<1> DEFINE n == cmd.name
<1>1. (cmd.undoing /\ op \in Undo /\ n = "install" /\ ~cmd.ok) \/ (~cmd.undoing /\ cmd.ok /\ Roles(n, op))
  BY ProgressRoles
<1>2. Busy /\ op \in Ahead
  BY DEF Progress, Takes
<1>3. /\ op \notin {"SaveConfig", "RemoveHome"} => disk'.config = disk.config
      /\ op \notin {"ConfigureResolver", "RemoveResolver"} => host'.resolvers = host.resolvers
  BY DEF Progress, Frame, Only
<1>4. \A x \in Ahead : x = op \/ Rank(n, op) < Rank(n, x)
  BY DEF Progress
<1>5. Fields /\ cmd \in Cmds /\ cmd.cfg \in Configs /\ host.resolvers \subseteq TLDs
  BY Typing DEF Typed, Cmds, Fields, Hosts
<1>6. Takes(op) /\ Moves(op)
  BY DEF Progress, Takes
\* The resolvers left point at the TLD saved.
<1>7. host'.resolvers \subseteq {disk'.config.tld}
  <2>1. CASE op = "ConfigureResolver"
    <3>1. n = "install" => cmd.cfg.tld = disk.config.tld
      BY <1>2 DEF Decided
    <3>2. n = "config_tld" => "SaveConfig" \notin Ahead
      BY <2>1, <1>4, Ranks
    <3>3. cmd.cfg.tld = disk.config.tld
      BY <3>1, <3>2, <2>1, <1>1, <1>2 DEF Decided, Roles, Undo
    <3>4. host'.resolvers = host.resolvers \/ host'.resolvers = host.resolvers \cup {cmd.cfg.tld}
      BY <2>1, <1>5, <1>6 DEF Moves, Cut, Effect, ConfigureResolver, OnHost, machine, Fields, Hosts
    <3> QED BY <3>3, <3>4, <2>1, <1>3 DEF OneResolver
  <2>2. CASE op = "RemoveResolver"
    <3>1. host'.resolvers \subseteq host.resolvers
      BY <2>2, <1>5, <1>6 DEF Moves, Cut, Effect, RemoveResolver, OnHost, machine, Fields, Hosts
    <3> QED BY <3>1, <2>2, <1>3 DEF OneResolver
  <2>3. CASE op = "SaveConfig"
    <3>1. disk'.config = disk.config \/ disk'.config = cmd.cfg
      BY <2>3, <1>5, <1>6 DEF Moves, Cut, Effect, SaveConfig, OnDisk, machine, Fields, Homes
    <3>2. n \in {"install", "trust", "config", "config_tld"} /\ cmd.ok
      BY <2>3, <1>1 DEF Roles, Undo
    <3>3. n # "config_tld" => cmd.cfg.tld = disk.config.tld
      BY <3>2, <1>2 DEF Decided
    <3>4. n = "config_tld" => host.resolvers = {}
      <4>1. "RemoveResolver" \notin Ahead \/ n # "config_tld"
        <5>1. n = "config_tld" => Rank(n, "SaveConfig") = 6
          BY Ranks
        <5>2. Rank(n, "RemoveResolver") = 5
          BY Ranks
        <5> QED BY <5>1, <5>2, <2>3, <1>4
      <4> QED BY <4>1, <2>3, <1>2 DEF OneResolver
    <3> QED BY <3>1, <3>3, <3>4, <2>3, <1>3 DEF OneResolver
  <2>4. CASE op = "RemoveHome"
    <3>1. "RemoveResolver" \notin Ahead
      BY <2>4, <1>4, Ranks
    <3>2. n = "uninstall"
      BY <2>4, <1>1 DEF Roles, Undo
    <3> QED BY <3>1, <3>2, <2>4, <1>2, <1>3 DEF OneResolver
  <2> QED BY <2>1, <2>2, <2>3, <2>4, <1>3 DEF OneResolver
<1>8. CASE Advances
  <2>1. Ahead' = Ahead \ {op} /\ cmd'.name = n
    BY <1>8 DEF Progress, Advances, Keeps
  <2>2. CASE op = "RemoveResolver" /\ n \in {"config_tld", "uninstall"}
    <3>1. Done(op)
      BY <2>2, <1>1, <1>6, <1>8 DEF Takes, PassedOver, Ended, Killed, Undo, Advances, Keeps, Idle
    <3>2. host'.resolvers = host.resolvers \ {cmd.tld}
      BY <2>2, <3>1, <1>5 DEF Done, Effect, RemoveResolver, OnHost, Fields, Hosts
    <3>3. (n = "config_tld" /\ "SaveConfig" \in Ahead) \/ n = "uninstall" => cmd.tld = disk.config.tld
      BY <2>2, <1>2 DEF Decided
    <3>4. n = "config_tld" => "RemoveHome" \notin Ahead
      <4>1. n = "config_tld" => Ahead \subseteq Script(n)
        BY <1>1, <2>2 DEF Progress, Complete
      <4> QED BY <4>1, Scripts DEF Converge
    <3> QED BY <3>2, <3>3, <3>4, <2>1, <1>7 DEF OneResolver
  <2>3. CASE op # "RemoveResolver" /\ n \in {"config_tld", "uninstall"}
    <3>1. op = "ConfigureResolver" => Ahead \cap {"SaveConfig", "RemoveHome"} = {}
      <4>1. op = "ConfigureResolver" => n = "config_tld"
        BY <2>3, <1>1 DEF Roles, Undo
      <4>2. "RemoveHome" \notin Ahead \/ n = "uninstall"
        <5>1. n = "config_tld" => Ahead \subseteq Script(n)
          BY <1>1, <2>3 DEF Progress, Complete
        <5> QED BY <5>1, <2>3, Scripts DEF Converge
      <4>3. n = "config_tld" => Rank(n, "SaveConfig") = 6
        BY Ranks
      <4>4. Rank(n, "ConfigureResolver") = 7
        BY Ranks
      <4>5. op = "ConfigureResolver" => "SaveConfig" \notin Ahead
        BY <4>1, <4>3, <4>4, <1>4
      <4> QED BY <4>1, <4>2, <4>5
    <3> QED BY <3>1, <2>1, <2>3, <1>2, <1>3, <1>7 DEF OneResolver
  <2> QED BY <2>1, <2>2, <2>3, <1>7 DEF OneResolver
<1>9. CASE Ended(op)
  <2>1. cmd'.todo = <<>> \/ cmd'.name = "install"
    BY <1>9 DEF Ended, Keeps
  <2> QED BY <2>1, <1>7 DEF OneResolver, Busy
<1>10. CASE Killed
  BY <1>7, <1>10 DEF Killed, Idle, OneResolver, Busy
<1> QED BY <1>6, <1>8, <1>9, <1>10 DEF Takes, Done, PassedOver

\* Nothing but commands touches a resolver.
LEMMA OneResolverWanders ==
  ASSUME OneResolver, Wanders
  PROVE  OneResolver'
<1>1. CASE cmd' = Idle
  BY <1>1 DEF OneResolver, Wanders, Idle, Busy
<1>2. CASE cmd' = cmd
  BY <1>2 DEF OneResolver, Wanders, Ahead, Busy
<1> QED BY <1>1, <1>2 DEF Wanders

\* What Materialize leaves.
LEMMA Materialized ==
  ASSUME Fields, OnDisk(materialize)
  PROVE  /\ disk'.compose.written = TRUE /\ (disk.ca.cert # 0 => disk'.caCopy = disk.ca.cert)
         /\ UNCHANGED <<host, services, peers>>
<1> DEFINE c == [written |-> TRUE, peers |-> <<>>]
           a == IF disk.ca.cert = 0 THEN disk.caCopy ELSE disk.ca.cert
<1>1. disk' = [disk EXCEPT !.compose = c, !.caCopy = a] /\ UNCHANGED <<host, services, peers>>
  BY DEF OnDisk, materialize
<1>2. c.written = TRUE /\ (disk.ca.cert # 0 => a = disk.ca.cert)
  OBVIOUS
<1> HIDE DEF a, c
<1>3. disk'.compose = c /\ disk'.caCopy = a
  BY <1>1 DEF Fields, Homes
<1> QED BY <1>1, <1>2, <1>3

-----------------------------------------------------------------------------
(* Containers need the files they are declared in: without them ComposeDown   *)
(* would leave the containers running.                                       *)
Composed ==
  /\ (Up # {} \/ peers.state # "absent") => disk.compose.written
  /\ (Ahead \cap {"ComposeUp", "StartPeers"} # {} /\ "Materialize" \notin Ahead) => disk.compose.written

(* What uninstall has removed, by the steps it has taken.                    *)
Uninstalling ==
  (cmd.name = "uninstall" /\ cmd.ok) =>
    /\ "ComposeDown" \notin Ahead => Up = {} /\ peers.state = "absent"
    /\ "RemoveSystem" \notin Ahead => host.system = 0
    /\ "RemoveResolver" \notin Ahead => host.resolvers = {}
    /\ "RemoveHome" \notin Ahead => disk = EmptyHome
    /\ (~cmd.skipped /\ "RemoveNSS" \notin Ahead) => host.nss = 0
    /\ (~cmd.skipped /\ cmd.cfg.trusted # "" /\ "UntrustTeamRoot" \notin Ahead) => host.root = ""

\* Programs that start containers write the files first.
LEMMA ComposedLaunches ==
  ASSUME Typed, Composed, Launches
  PROVE  Composed'
<1> PICK name \in Names \ {""}, first \in Listed, cfg \in Configs, image \in Images, todo \in Seq(Ops) :
           Launched(name, first, cfg, image, todo)
  BY DEF Launches
<1>1. disk' = disk /\ services' = services /\ peers' = peers /\ Ahead' = Elems(todo) /\ Up' = Up
  BY DEF Launched, Opened, machine, Ahead, Up
<1>2. Elems(todo) \cap {"ComposeUp", "StartPeers"} # {} => "Materialize" \in Elems(todo)
  <2>1. Elems(todo) \subseteq Script(name)
    BY DEF Launched, Complete
  <2>2. Elems(todo) \cap {"ComposeUp", "StartPeers"} # {} =>
          name \in {"install", "config_tld", "up", "up_image", "update"}
    <3>1. \A x \in Elems(todo) : Roles(name, x)
      BY <2>1, RolesOfSteps
    <3> QED BY <3>1 DEF Roles, Converge
  <2>3. "Materialize" \in Converge
    BY DEF Converge
  <2>4. name \in {"install", "up", "up_image"} => "Materialize" \in Elems(todo)
    BY <2>3, Scripts DEF Launched
  <2>5. name = "update" => Elems(todo) = {} \/ "Materialize" \in Elems(todo)
    BY <2>3 DEF Launched
  <2>6. name = "config_tld" => Elems(todo) = {} \/ "Materialize" \in Elems(todo)
    BY DEF Launched
  <2> QED BY <2>2, <2>4, <2>5, <2>6
<1> QED BY <1>1, <1>2 DEF Composed

\* The files go only after every container has.
LEMMA ComposedProgress ==
  ASSUME Typed, Composed, Uninstalling, NEW op, Progress(op)
  PROVE  Composed'
<1> DEFINE n == cmd.name
<1>1. (cmd.undoing /\ op \in Undo /\ n = "install" /\ ~cmd.ok) \/ (~cmd.undoing /\ cmd.ok /\ Roles(n, op))
  BY ProgressRoles
<1>2. Busy /\ op \in Ahead /\ Takes(op) /\ Moves(op)
  BY DEF Progress, Takes
<1>3. /\ op \notin {"Materialize", "RemoveHome"} => disk'.compose.written = disk.compose.written
      /\ op \notin {"ComposeUp", "ComposeDown"} => services' = services
      /\ op \notin {"ComposeDown", "StartPeers", "RemovePeers"} => peers' = peers
  <2>1. op \notin {"Materialize", "RemoveHome"} => <<disk'.compose.written, disk'.caCopy>> = <<disk.compose.written, disk.caCopy>>
    BY DEF Progress, Frame, Only
  <2>2. op \notin {"Materialize", "RemoveHome"} => disk'.compose.written = disk.compose.written
    BY <2>1
  <2> QED BY <2>2 DEF Progress, Frame, Only
<1>4. \A x \in Ahead : x = op \/ Rank(n, op) < Rank(n, x)
  BY DEF Progress
<1>5. Fields /\ cmd \in Cmds
  BY Typing DEF Typed, Fields
<1>6. (Up' # {} \/ peers'.state # "absent") => disk'.compose.written
  <2>1. CASE op = "ComposeUp" \/ op = "StartPeers"
    <3>1. "Materialize" \notin Ahead
      BY <2>1, <1>4, Ranks
    <3> QED BY <3>1, <2>1, <1>2, <1>3 DEF Composed
  <2>2. CASE op = "ComposeDown"
    <3>1. UNCHANGED machine \/ ComposeDown
      BY <2>2, <1>2 DEF Moves, Cut, Effect
    <3>2. CASE UNCHANGED machine
      BY <3>2 DEF machine, Composed, Up
    <3>3. CASE ComposeDown
      <4>1. CASE disk.compose.written
        BY <4>1, <2>2, <1>3
      <4>2. CASE ~disk.compose.written
        BY <4>2, <3>3 DEF ComposeDown, Composed, Up
      <4> QED BY <4>1, <4>2
    <3> QED BY <3>1, <3>2, <3>3
  <2>3. CASE op = "RemovePeers"
    <3>1. peers' = peers \/ peers' = NoPeers
      BY <2>3, <1>2 DEF Moves, Cut, Effect, RemovePeers, machine
    <3> QED BY <3>1, <2>3, <1>3 DEF Composed, Up, NoPeers
  <2>4. CASE op = "RemoveHome"
    <3>1. "ComposeDown" \notin Ahead
      BY <2>4, <1>4, Ranks
    <3>2. n = "uninstall" /\ cmd.ok
      BY <2>4, <1>1 DEF Roles, Undo
    <3> QED BY <3>1, <3>2, <2>4, <1>3 DEF Uninstalling, Up
  <2>5. CASE op = "Materialize"
    <3>1. disk'.compose.written = disk.compose.written \/ disk'.compose.written = TRUE
      <4>1. OnDisk(materialize) \/ UNCHANGED machine
        BY <2>5, <1>2 DEF Moves, Cut, Effect
      <4> QED BY <4>1, <1>5, Materialized DEF machine
    <3> QED BY <3>1, <2>5, <1>3 DEF Composed, Up
  <2> QED BY <2>1, <2>2, <2>3, <2>4, <2>5, <1>3 DEF Composed, Up
<1>7. CASE Advances
  <2>1. Ahead' = Ahead \ {op}
    BY <1>7 DEF Progress
  <2>2. CASE op = "Materialize"
    <3>1. Done(op)
      BY <2>2, <1>1, <1>2, <1>7 DEF Takes, PassedOver, Ended, Killed, Undo, Advances, Keeps, Idle
    <3>2. disk'.compose.written = TRUE
      <4>1. OnDisk(materialize)
        BY <2>2, <3>1 DEF Done, Effect
      <4> QED BY <4>1, <1>5, Materialized
    <3> QED BY <3>2, <1>6 DEF Composed
  <2>3. CASE op = "RemoveHome"
    <3>1. n = "uninstall" /\ ~cmd.undoing
      BY <2>3, <1>1 DEF Roles, Undo
    <3>2. Ahead \subseteq Script("uninstall")
      BY <3>1 DEF Progress, Complete
    <3>3. Ahead \cap {"ComposeUp", "StartPeers"} = {}
      BY <3>2 DEF Script
    <3> QED BY <3>3, <2>1, <1>6 DEF Composed
  <2>4. CASE op \notin {"Materialize", "RemoveHome"}
    BY <2>1, <2>4, <1>3, <1>6 DEF Composed
  <2> QED BY <2>2, <2>3, <2>4
<1>8. CASE Ended(op)
  <2>1. Ahead' \subseteq Undo
    <3>1. CASE cmd'.todo = <<>>
      BY <3>1, NoSteps DEF Ahead
    <3>2. CASE op \in DOMAIN Reversal /\ cmd'.todo = Rollback(op)
      BY <3>2, RollbackSteps DEF Ahead
    <3> QED BY <3>1, <3>2, <1>8 DEF Ended
  <2> QED BY <2>1, <1>6 DEF Composed, Undo
<1>9. CASE Killed
  <2>1. cmd'.todo = <<>>
    BY <1>9 DEF Killed, Idle
  <2>2. Ahead' = {}
    BY <2>1, NoSteps DEF Ahead
  <2> QED BY <2>2, <1>6 DEF Composed
<1> QED BY <1>2, <1>7, <1>8, <1>9 DEF Takes, Done, PassedOver

\* No container comes up by itself.
LEMMA ComposedWanders ==
  ASSUME Composed, Wanders
  PROVE  Composed'
<1>1. disk' = disk /\ ((Up' # {} \/ peers'.state # "absent") => (Up # {} \/ peers.state # "absent"))
  BY DEF Wanders
<1>2. CASE cmd' = Idle
  <2>1. cmd'.todo = <<>>
    BY <1>2 DEF Idle
  <2>2. Ahead' = {}
    BY <2>1, NoSteps DEF Ahead
  <2> QED BY <2>2, <1>1 DEF Composed
<1>3. CASE cmd' = cmd
  BY <1>1, <1>3 DEF Composed, Ahead
<1> QED BY <1>2, <1>3 DEF Wanders

-----------------------------------------------------------------------------
(* The material is what configuration and intermediate call for, unless its   *)
(* copy is the very next step or a command stopped short of it.               *)
InStep ==
  \/ torn \/ ~disk.compose.written \/ Doing("CopyPeer")
  \/ disk.material = Wanted(disk.config, disk.int)

(* Neither the TLD nor the recorded anchor is part of the material.          *)
LEMMA WantedAgrees ==
  ASSUME NEW c, NEW d, NEW int, c.machine = d.machine, c.suffix = d.suffix, c.address = d.address, c.teamRoot = d.teamRoot
  PROVE  Wanted(c, int) = Wanted(d, int)
<1>1. \A v \in {"machine", "suffix", "address"} : c[v] = d[v]
  OBVIOUS
<1>2. {v \in {"machine", "suffix", "address"} : c[v] = ""} = {v \in {"machine", "suffix", "address"} : d[v] = ""}
  BY <1>1
<1>3. PeerMissing(c, int) = PeerMissing(d, int)
  BY <1>2, Zenon DEF PeerMissing
<1> QED BY <1>3, Zenon DEF Wanted

\* Starting a command changes no file.
LEMMA InStepLaunches ==
  ASSUME InStep, Launches
  PROVE  InStep'
<1>1. ~Busy /\ UNCHANGED <<disk, torn>>
  <2> PICK name \in Names \ {""}, first \in Listed, cfg \in Configs, image \in Images, todo \in Seq(Ops) :
             Launched(name, first, cfg, image, todo)
    BY DEF Launches
  <2> QED BY DEF Launched, Opened, machine
<1> QED BY <1>1 DEF InStep, Doing

\* A step that changes what is called for is followed by the copy or leaves torn.
LEMMA InStepProgress ==
  ASSUME Typed, Decided, InStep, NEW op, Progress(op)
  PROVE  InStep'
<1> DEFINE n == cmd.name
<1>1. (cmd.undoing /\ op \in Undo /\ n = "install" /\ ~cmd.ok) \/ (~cmd.undoing /\ cmd.ok /\ Roles(n, op))
  BY ProgressRoles
<1>2. Busy /\ op = Head(cmd.todo) /\ op \in Ahead /\ Takes(op) /\ Moves(op)
  BY DEF Progress, Takes
<1>3. /\ op \notin {"SaveConfig", "RemoveHome"} => disk'.config = disk.config
      /\ op \notin {"SetIntermediate", "RemoveHome"} => disk'.int = disk.int
      /\ op \notin {"CopyPeer", "RemoveHome"} => disk'.material = disk.material
      /\ op \notin {"Materialize", "AppendPeers", "RemoveHome"} => disk'.compose = disk.compose
      /\ op \notin {"Materialize", "RemoveHome"} => disk'.compose.written = disk.compose.written
  <2>1. op \notin {"Materialize", "RemoveHome"} => <<disk'.compose.written, disk'.caCopy>> = <<disk.compose.written, disk.caCopy>>
    BY DEF Progress, Frame, Only
  <2>2. op \notin {"Materialize", "RemoveHome"} => disk'.compose.written = disk.compose.written
    BY <2>1
  <2> QED BY <2>2 DEF Progress, Frame, Only
<1>4. Fields /\ cmd \in Cmds /\ cmd.cfg \in Configs
  BY Typing DEF Typed, Fields, Cmds
<1>5. Doing("CopyPeer") <=> op = "CopyPeer"
  BY <1>2 DEF Doing
<1>6. Copies(n, op) => "CopyPeer" \in Ahead
  BY DEF Progress
\* A configuration saved by another command than config calls for the same.
<1>7. ASSUME op = "SaveConfig", ~Copies(n, op)
      PROVE  /\ Wanted(disk'.config, disk'.int) = Wanted(disk.config, disk.int)
             /\ disk'.material = disk.material /\ disk'.compose.written = disk.compose.written
  <2>1. disk'.config = disk.config \/ disk'.config = cmd.cfg
    BY <1>7, <1>2, <1>4 DEF Moves, Cut, Effect, SaveConfig, OnDisk, machine, Fields, Homes
  <2>2. Agrees(cmd.cfg)
    BY <1>1, <1>2, <1>7 DEF Decided, Roles, Undo, Copies
  <2>3. Wanted(cmd.cfg, disk.int) = Wanted(disk.config, disk.int)
    BY <2>2, WantedAgrees DEF Agrees
  <2> QED BY <2>1, <2>3, <1>3, <1>7
<1>8. CASE op = "CopyPeer"
  <2>1. CASE Done(op)
    <3>1. CopyPeer(3)
      BY <2>1, <1>8 DEF Done, Effect
    <3>2. disk.compose.written => disk'.material = Copied(disk.material, Wanted(disk.config, disk.int), 3)
      BY <3>1, <1>4 DEF CopyPeer, OnDisk, Fields, Homes
    <3>3. disk.compose.written => disk'.material = Wanted(disk.config, disk.int)
      BY <3>2, <1>4, WantedTyped DEF Fields
    <3> QED BY <3>3, <1>3, <1>8 DEF InStep
  <2>2. CASE PassedOver(op)
    BY <2>2, <1>1, <1>8 DEF PassedOver, Undo
  <2>3. CASE Ended(op) \/ Killed
    <3>1. Behind
      BY <2>3, <1>8 DEF Ended, Killed
    <3>2. torn'
      <4>1. \E i \in DOMAIN cmd.todo : cmd.todo[i] = "CopyPeer"
        BY <1>2, <1>4, <1>8 DEF Ahead, Elems, Cmds
      <4> QED BY <3>1, <4>1, <1>2, <1>8 DEF Behind
    <3> QED BY <3>2 DEF InStep
  <2> QED BY <2>1, <2>2, <2>3, <1>2 DEF Takes
\* What a command that stops behind the material it changed leaves.
<1>9. CASE op # "CopyPeer" /\ Copies(n, op)
  <2>1. op \in {"SaveConfig", "SetIntermediate", "Materialize"}
    BY <1>9 DEF Copies
  <2>2. CASE Advances
    BY <2>2, <1>9 DEF Progress, Doing, InStep
  <2>3. CASE Ended(op) \/ Killed
    <3>1. Behind
      BY <2>1, <2>3 DEF Ended, Killed
    <3>2. \E i \in DOMAIN cmd.todo : cmd.todo[i] = "CopyPeer"
      BY <1>6, <1>4, <1>9 DEF Ahead, Elems, Cmds
    <3>3. torn'
      BY <2>1, <3>1, <3>2, <1>2 DEF Behind
    <3> QED BY <3>3 DEF InStep
  <2> QED BY <2>2, <2>3, <1>2 DEF Takes, Done, PassedOver
<1>10. CASE op = "RemoveHome"
  <2>1. CASE Done(op)
    <3>1. disk' = EmptyHome
      BY <2>1, <1>10 DEF Done, Effect, RemoveHome, OnDisk
    <3>2. disk'.compose.written = FALSE
      BY <3>1 DEF EmptyHome, NoFiles
    <3> QED BY <3>2 DEF InStep
  <2>2. CASE PassedOver(op)
    BY <2>2, <1>1, <1>10 DEF PassedOver, Undo
  <2>3. CASE Ended(op) \/ Killed
    <3>1. Behind
      BY <2>3, <1>10 DEF Ended, Killed
    <3>2. torn'
      BY <3>1, <1>2, <1>10 DEF Behind
    <3> QED BY <3>2 DEF InStep
  <2> QED BY <2>1, <2>2, <2>3, <1>2 DEF Takes
<1>11. CASE op \notin {"CopyPeer", "RemoveHome"} /\ ~Copies(n, op)
  <2>1. op \notin {"Materialize", "SetIntermediate"}
    BY <1>11 DEF Copies
  <2>2. /\ Wanted(disk'.config, disk'.int) = Wanted(disk.config, disk.int)
        /\ disk'.material = disk.material /\ disk'.compose.written = disk.compose.written
    BY <2>1, <1>3, <1>7, <1>11
  <2>3. torn => torn'
    BY <1>2, <1>11 DEF Takes, Done, PassedOver, Ended, Killed, Behind
  <2> QED BY <2>2, <2>3, <1>5, <1>11 DEF InStep
<1> QED BY <1>8, <1>9, <1>10, <1>11

\* Nothing else changes a file.
LEMMA InStepWanders ==
  ASSUME InStep, Wanders
  PROVE  InStep'
<1>1. UNCHANGED <<disk, torn>> /\ (cmd' = cmd \/ ~Busy)
  BY DEF Wanders
<1> QED BY <1>1 DEF InStep, Doing, Busy

-----------------------------------------------------------------------------
\* uninstall starts with every removal ahead.
LEMMA UninstallingLaunches ==
  ASSUME Launches
  PROVE  Uninstalling'
<1> PICK name \in Names \ {""}, first \in Listed, cfg \in Configs, image \in Images, todo \in Seq(Ops) :
           Launched(name, first, cfg, image, todo)
  BY DEF Launches
<1>1. cmd'.name = name /\ cmd'.cfg = cfg /\ Ahead' = Elems(todo)
  BY DEF Launched, Opened, Ahead
<1>2. name = "uninstall" => Must("uninstall") \subseteq Elems(todo) /\ (cfg.trusted # "" => "UntrustTeamRoot" \in Elems(todo))
  BY DEF Launched
<1> QED BY <1>1, <1>2, Scripts DEF Uninstalling

\* What a step has removed no later step of uninstall brings back.
LEMMA UninstallingProgress ==
  ASSUME Typed, Decided, OneResolver, Composed, Uninstalling, NEW op, Progress(op)
  PROVE  Uninstalling'
<1> SUFFICES ASSUME cmd'.name = "uninstall", cmd'.ok PROVE Uninstalling'
  BY DEF Uninstalling
<1>1. Takes(op) /\ Moves(op) /\ Busy /\ op \in Ahead
  BY DEF Progress, Takes
<1>2. Advances /\ (Done(op) \/ PassedOver(op))
  BY <1>1 DEF Takes, Done, PassedOver, Ended, Killed, Idle
<1>3. cmd.name = "uninstall" /\ cmd.ok /\ ~cmd.undoing /\ Ahead' = Ahead \ {op}
  BY <1>2 DEF Advances, Keeps, Progress
<1>4. op \in {"ComposeDown", "UntrustTeamRoot", "RemoveNSS", "RemoveSystem", "RemoveResolver", "PurgeCA", "RemoveHome"}
  BY <1>3 DEF Progress, Script
<1>5. Fields /\ cmd \in Cmds
  BY Typing DEF Typed
<1>6. /\ op # "ComposeDown" => services' = services /\ peers' = peers
      /\ op # "RemoveSystem" => host'.system = host.system
      /\ op # "RemoveResolver" => host'.resolvers = host.resolvers
      /\ op # "RemoveNSS" => host'.nss = host.nss
      /\ op # "UntrustTeamRoot" => host'.root = host.root
  BY <1>4 DEF Progress, Frame, Only
<1>7. "RemoveHome" \in Ahead
  <2>1. "RemoveHome" \in Must("uninstall")
    BY Scripts
  <2>2. op = "RemoveHome" \/ Rank("uninstall", op) < Rank("uninstall", "RemoveHome")
    BY <1>4, Ranks
  <2> QED BY <2>1, <2>2, <1>1, <1>3 DEF Progress, Complete
<1>8. ~cmd'.skipped => ~cmd.skipped /\ Done(op)
  BY <1>2 DEF Done, PassedOver
<1>9. op \in {"ComposeDown", "RemoveSystem", "RemoveResolver", "RemoveHome"} => Done(op)
  BY <1>2, <1>3 DEF PassedOver
<1>10. cmd'.cfg.trusted = cmd.cfg.trusted \/ cmd'.skipped
  BY <1>2, <1>4 DEF Done, PassedOver
<1>11. "ComposeDown" \notin Ahead' => Up' = {} /\ peers'.state = "absent"
  <2>1. CASE op = "ComposeDown"
    <3>1. ComposeDown
      BY <2>1, <1>9 DEF Done, Effect
    <3> QED BY <3>1 DEF ComposeDown, NoPeers, Up, Composed
  <2>2. CASE op # "ComposeDown"
    BY <2>2, <1>3, <1>6 DEF Uninstalling, Up
  <2> QED BY <2>1, <2>2
<1>12. "RemoveSystem" \notin Ahead' => host'.system = 0
  <2>1. CASE op = "RemoveSystem"
    BY <2>1, <1>5, <1>9 DEF Done, Effect, RemoveSystemTrust, OnHost, Fields, Hosts
  <2>2. CASE op # "RemoveSystem"
    BY <2>2, <1>3, <1>6 DEF Uninstalling
  <2> QED BY <2>1, <2>2
<1>13. "RemoveResolver" \notin Ahead' => host'.resolvers = {}
  <2>1. CASE op = "RemoveResolver"
    <3>1. host'.resolvers = host.resolvers \ {cmd.tld}
      BY <2>1, <1>5, <1>9 DEF Done, Effect, RemoveResolver, OnHost, Fields, Hosts
    <3>2. cmd.tld = disk.config.tld
      BY <2>1, <1>1, <1>3 DEF Decided
    <3> QED BY <3>1, <3>2 DEF OneResolver
  <2>2. CASE op # "RemoveResolver"
    BY <2>2, <1>3, <1>6 DEF Uninstalling
  <2> QED BY <2>1, <2>2
<1>14. "RemoveHome" \notin Ahead' => disk' = EmptyHome
  <2>1. CASE op = "RemoveHome"
    BY <2>1, <1>9 DEF Done, Effect, RemoveHome, OnDisk
  <2>2. CASE op # "RemoveHome"
    BY <2>2, <1>3, <1>7
  <2> QED BY <2>1, <2>2
<1>15. (~cmd'.skipped /\ "RemoveNSS" \notin Ahead') => host'.nss = 0
  <2>1. CASE op = "RemoveNSS"
    BY <2>1, <1>5, <1>8 DEF Done, Effect, RemoveNSSTrust, OnHost, Fields, Hosts
  <2>2. CASE op # "RemoveNSS"
    BY <2>2, <1>3, <1>6, <1>8 DEF Uninstalling
  <2> QED BY <2>1, <2>2
<1>16. (~cmd'.skipped /\ cmd'.cfg.trusted # "" /\ "UntrustTeamRoot" \notin Ahead') => host'.root = ""
  <2>1. CASE op = "UntrustTeamRoot"
    <3>1. ~cmd'.skipped => UntrustTeamRoot
      BY <2>1, <1>8 DEF Done, Effect
    <3> QED BY <3>1, <1>5, <1>10 DEF UntrustTeamRoot, OnHost, Fields, Hosts
  <2>2. CASE op # "UntrustTeamRoot"
    BY <2>2, <1>3, <1>6, <1>8, <1>10 DEF Uninstalling
  <2> QED BY <2>1, <2>2
<1> QED BY <1>11, <1>12, <1>13, <1>14, <1>15, <1>16 DEF Uninstalling

\* Nor does anything else while the command is remembered.
LEMMA UninstallingWanders ==
  ASSUME Uninstalling, Wanders
  PROVE  Uninstalling'
<1>1. CASE cmd' = Idle
  BY <1>1 DEF Uninstalling, Idle
<1>2. CASE cmd' = cmd
  BY <1>2 DEF Uninstalling, Wanders, Ahead
<1> QED BY <1>1, <1>2 DEF Wanders

-----------------------------------------------------------------------------
(* What install and trust have put into the trust stores.                    *)
Trusting ==
  (cmd.name \in {"install", "trust"} /\ cmd.ok) =>
    /\ "EnsureCA" \notin Ahead => disk.ca.cert # 0
    /\ "InstallSystem" \notin Ahead => host.system = disk.ca.cert
    /\ ("InstallNSS" \notin Ahead /\ ~cmd.skipped) => host.nss = disk.ca.cert

\* install and trust start with the CA and both stores ahead.
LEMMA TrustingLaunches ==
  ASSUME Launches
  PROVE  Trusting'
<1> PICK name \in Names \ {""}, first \in Listed, cfg \in Configs, image \in Images, todo \in Seq(Ops) :
           Launched(name, first, cfg, image, todo)
  BY DEF Launches
<1>1. cmd'.name = name /\ Ahead' = Elems(todo)
  BY DEF Launched, Opened, Ahead
<1>2. name \in {"install", "trust"} => Must(name) \subseteq Elems(todo)
  BY DEF Launched
<1>3. {"EnsureCA", "InstallSystem", "InstallNSS"} \subseteq Hosting
  BY DEF Hosting
<1> QED BY <1>1, <1>2, <1>3, Scripts DEF Trusting

\* A command that installs or trusts, and goes on.
Going(op) ==
  /\ Advances /\ (Done(op) \/ PassedOver(op)) /\ cmd.ok /\ ~cmd.undoing /\ Ahead' = Ahead \ {op} /\ op \in Ahead
  /\ Roles(cmd.name, op) /\ op \in Script(cmd.name) /\ Fields /\ cmd \in Cmds
  /\ op \notin {"RemovePeers", "StartPeers", "InstallNSS", "RemoveNSS", "UntrustTeamRoot", "TrustTeamRoot"} => Done(op)
  /\ ~cmd'.skipped => ~cmd.skipped /\ Done(op)
  /\ \A x \in Must(cmd.name) : Rank(cmd.name, op) < Rank(cmd.name, x) => x \in Ahead

\* A step after which the command has not failed.
LEMMA GoesOn ==
  ASSUME Typed, NEW op, Progress(op), cmd'.ok, cmd'.name # ""
  PROVE  Going(op) /\ cmd.name = cmd'.name
<1>1. Takes(op) /\ op \in Ahead
  BY DEF Progress, Takes
<1>2. Advances /\ (Done(op) \/ PassedOver(op))
  BY <1>1 DEF Takes, Done, PassedOver, Ended, Killed, Idle
<1>3. cmd.name = cmd'.name /\ cmd.ok /\ ~cmd.undoing /\ Ahead' = Ahead \ {op}
  BY <1>2 DEF Advances, Keeps, Progress
<1>4. Roles(cmd.name, op) /\ op \in Script(cmd.name) /\ Complete(cmd.name, Ahead)
  BY <1>3, ProgressRoles DEF Progress
<1>5. Fields /\ cmd \in Cmds
  BY Typing DEF Typed
<1>6. op \notin {"RemovePeers", "StartPeers", "InstallNSS", "RemoveNSS", "UntrustTeamRoot", "TrustTeamRoot"} => Done(op)
  BY <1>2, <1>3 DEF PassedOver
<1>7. ~cmd'.skipped => ~cmd.skipped /\ Done(op)
  BY <1>2 DEF Done, PassedOver
<1>8. \A x \in Must(cmd.name) : Rank(cmd.name, op) < Rank(cmd.name, x) => x \in Ahead
  BY <1>1, <1>4 DEF Complete
<1> QED BY <1>1, <1>2, <1>3, <1>4, <1>5, <1>6, <1>7, <1>8 DEF Going

\* The CA changes only before the stores are filled.
LEMMA TrustingProgress ==
  ASSUME Typed, Trusting, NEW op, Progress(op)
  PROVE  Trusting'
<1> SUFFICES ASSUME cmd'.name \in {"install", "trust"}, cmd'.ok PROVE Trusting'
  BY DEF Trusting
<1>1. Going(op) /\ cmd.name \in {"install", "trust"}
  BY GoesOn
<1>2. /\ op # "EnsureCA" => disk'.ca = disk.ca
      /\ op # "InstallSystem" => host'.system = host.system
      /\ op # "InstallNSS" => host'.nss = host.nss
  BY <1>1 DEF Progress, Frame, Only, Going, Roles
<1>3. Ahead' = Ahead \ {op} /\ Fields /\ (op \notin {"InstallNSS"} /\ op \in {"EnsureCA", "InstallSystem"} => Done(op))
      /\ (~cmd'.skipped => ~cmd.skipped /\ Done(op)) /\ cmd.ok
  BY <1>1 DEF Going
\* The trust stores are filled after the CA is there.
<1>4. op = "EnsureCA" => {"InstallSystem", "InstallNSS"} \subseteq Ahead
  <2>1. {"InstallSystem", "InstallNSS"} \subseteq Must(cmd.name)
    BY <1>1, Scripts DEF Hosting
  <2>2. op = "EnsureCA" => \A x \in {"InstallSystem", "InstallNSS"} : Rank(cmd.name, op) < Rank(cmd.name, x)
    BY Ranks
  <2> QED BY <2>1, <2>2, <1>1 DEF Going
<1>5. op = "EnsureCA" => disk'.ca.cert # 0
  <2> SUFFICES ASSUME op = "EnsureCA" PROVE disk'.ca.cert # 0
    OBVIOUS
  <2>1. EnsureCA
    BY <1>3 DEF Done, Effect
  <2>2. NextCA \in Nat /\ NextCA > 0
    BY NextCAPositive DEF Typed
  <2>3. CASE disk.ca.cert # 0 /\ disk.ca.key # 0
    BY <2>1, <2>3 DEF EnsureCA, OnDisk
  <2>4. CASE ~(disk.ca.cert # 0 /\ disk.ca.key # 0)
    <3> DEFINE k == NextCA
    <3>1. disk' = [disk EXCEPT !.ca = [cert |-> k, key |-> k]]
      BY <2>1, <2>4 DEF EnsureCA, OnDisk
    <3> HIDE DEF k
    <3>2. disk'.ca.cert = k
      BY <3>1, <1>3 DEF Fields, Homes
    <3> QED BY <3>2, <2>2 DEF k
  <2> QED BY <2>3, <2>4
<1>6. op = "InstallSystem" => host'.system = disk.ca.cert
  BY <1>3 DEF Done, Effect, InstallSystemTrust, OnHost, Fields, Hosts
<1>7. (op = "InstallNSS" /\ ~cmd'.skipped) => host'.nss = disk.ca.cert
  BY <1>3 DEF Done, Effect, InstallNSSTrust, OnHost, Fields, Hosts
<1> QED BY <1>1, <1>2, <1>3, <1>4, <1>5, <1>6, <1>7 DEF Trusting

\* Nothing but commands touches a trust store.
LEMMA TrustingWanders ==
  ASSUME Trusting, Wanders
  PROVE  Trusting'
<1>1. CASE cmd' = Idle
  BY <1>1 DEF Trusting, Idle
<1>2. CASE cmd' = cmd
  BY <1>2 DEF Trusting, Wanders, Ahead
<1> QED BY <1>1, <1>2 DEF Wanders

-----------------------------------------------------------------------------
(* What install has done besides: the watcher it found is still there until   *)
(* ComposeUp, which leaves that one or creates one that loads the CA on disk. *)
Serving ==
  (cmd.name = "install" /\ cmd.ok) =>
    /\ "ConfigureResolver" \notin Ahead => host.resolvers = {disk.config.tld}
    /\ ("TrustTeamRoot" \notin Ahead /\ ~cmd.skipped /\ cmd.cfg.teamRoot) => host.root = cmd.cfg.trusted
    /\ "Materialize" \notin Ahead => disk.caCopy = disk.ca.cert
    /\ "ComposeUp" \in Ahead => services["watcher"] = cmd.before.watcher
    /\ "ComposeUp" \notin Ahead => services["watcher"].ca = disk.ca.cert \/ services["watcher"] = cmd.before.watcher
    /\ "SaveConfig" \notin Ahead => disk.config = cmd.cfg

\* install starts with all of it ahead, and notes the watcher it found.
LEMMA ServingLaunches ==
  ASSUME Launches
  PROVE  Serving'
<1> PICK name \in Names \ {""}, first \in Listed, cfg \in Configs, image \in Images, todo \in Seq(Ops) :
           Launched(name, first, cfg, image, todo)
  BY DEF Launches
<1>1. cmd'.name = name /\ cmd'.cfg = cfg /\ Ahead' = Elems(todo)
      /\ services'["watcher"] = services["watcher"] /\ cmd'.before.watcher = services["watcher"]
  BY DEF Launched, Opened, Ahead, machine
<1>2. name = "install" => Must(name) \subseteq Elems(todo) /\ (cfg.teamRoot => "TrustTeamRoot" \in Elems(todo))
  BY DEF Launched
<1>3. {"ConfigureResolver", "Materialize", "ComposeUp", "SaveConfig"} \subseteq Must("install")
  BY Scripts DEF Hosting, Converge
<1> QED BY <1>1, <1>2, <1>3 DEF Serving

\* Each promise of install is kept by the step named and by all later ones.
LEMMA ServingProgress ==
  ASSUME Typed, Decided, OneResolver, Trusting, Serving, NEW op, Progress(op)
  PROVE  Serving'
<1> SUFFICES ASSUME cmd'.name = "install", cmd'.ok PROVE Serving'
  BY DEF Serving
<1>1. Going(op) /\ cmd.name = "install" /\ cmd.ok /\ Ahead' = Ahead \ {op} /\ op \in Ahead /\ Fields /\ cmd \in Cmds
  BY GoesOn DEF Going
<1>2. op \in Hosting \cup {"TrustTeamRoot"} \cup Converge \cup {"SaveConfig"}
  BY <1>1, Scripts DEF Going
<1>3. /\ op # "SaveConfig" => disk'.config = disk.config
      /\ op # "EnsureCA" => disk'.ca = disk.ca
      /\ op # "Materialize" => disk'.caCopy = disk.caCopy
      /\ op # "ConfigureResolver" => host'.resolvers = host.resolvers
      /\ op # "TrustTeamRoot" => host'.root = host.root
      /\ op # "ComposeUp" => services' = services
  <2>1. op \notin {"RemoveHome", "PurgeCA", "RemoveResolver", "UntrustTeamRoot", "ComposeDown"}
    BY <1>2 DEF Hosting, Converge
  <2>2. op # "Materialize" => <<disk'.compose.written, disk'.caCopy>> = <<disk.compose.written, disk.caCopy>>
    BY <2>1 DEF Progress, Frame, Only
  <2>3. op # "Materialize" => disk'.caCopy = disk.caCopy
    BY <2>2
  <2> QED BY <2>1, <2>3 DEF Progress, Frame, Only
<1>4. op \in {"ConfigureResolver", "EnsureCA", "Materialize", "ComposeUp", "SaveConfig"} => Done(op)
  BY <1>1 DEF Going
<1>5. ~cmd'.skipped => ~cmd.skipped /\ Done(op)
  BY <1>1 DEF Going
<1>6. cmd.cfg.tld = disk.config.tld /\ cmd'.before = cmd.before /\ cmd'.cfg.teamRoot = cmd.cfg.teamRoot
  <2>1. Busy
    BY DEF Progress, Takes
  <2>2. Keeps
    BY <1>1 DEF Going, Advances
  <2> QED BY <1>1, <2>1, <2>2 DEF Decided, Keeps
<1>7. \A x \in Ahead : x = op \/ Rank("install", op) < Rank("install", x)
  BY <1>1 DEF Progress
<1>8. \A x \in Must("install") : Rank("install", op) < Rank("install", x) => x \in Ahead
  BY <1>1 DEF Going
<1>9. {"ConfigureResolver", "Materialize", "ComposeUp", "SaveConfig"} \subseteq Must("install")
  BY Scripts DEF Hosting, Converge
<1>10. disk'.config.tld = disk.config.tld
  <2>1. CASE op = "SaveConfig"
    <3>1. disk'.config = cmd.cfg
      BY <2>1, <1>1, <1>4 DEF Done, Effect, SaveConfig, OnDisk, Fields, Homes
    <3> QED BY <3>1, <1>6
  <2> QED BY <2>1, <1>3
<1>11. "ConfigureResolver" \notin Ahead' => host'.resolvers = {disk'.config.tld}
  <2>1. CASE op = "ConfigureResolver"
    <3>1. host'.resolvers = host.resolvers \cup {cmd.cfg.tld}
      BY <2>1, <1>1, <1>4 DEF Done, Effect, ConfigureResolver, OnHost, Fields, Hosts
    <3> QED BY <3>1, <1>6, <1>10 DEF OneResolver
  <2>2. CASE op # "ConfigureResolver"
    BY <2>2, <1>1, <1>3, <1>10 DEF Serving
  <2> QED BY <2>1, <2>2
<1>12. ("TrustTeamRoot" \notin Ahead' /\ ~cmd'.skipped /\ cmd'.cfg.teamRoot) => host'.root = cmd'.cfg.trusted
  <2> SUFFICES ASSUME "TrustTeamRoot" \notin Ahead', ~cmd'.skipped, cmd.cfg.teamRoot PROVE host'.root = cmd'.cfg.trusted
    BY <1>6
  <2>1. CASE op = "TrustTeamRoot"
    <3>1. cmd'.cfg.trusted = rootFile /\ TrustTeamRoot
      BY <2>1, <1>5 DEF Done, Effect
    <3> QED BY <3>1, <1>1 DEF TrustTeamRoot, OnHost, Fields, Hosts
  <2>2. CASE op # "TrustTeamRoot"
    <3>1. cmd'.cfg = cmd.cfg /\ ~cmd.skipped
      BY <2>2, <1>5 DEF Done
    <3> QED BY <3>1, <2>2, <1>1, <1>3 DEF Serving
  <2> QED BY <2>1, <2>2
<1>13. op = "EnsureCA" => {"Materialize", "ComposeUp"} \subseteq Ahead'
  <2>1. op = "EnsureCA" => \A x \in {"Materialize", "ComposeUp"} : Rank("install", op) < Rank("install", x)
    BY Ranks
  <2> QED BY <2>1, <1>1, <1>8, <1>9
<1>14. "Materialize" \notin Ahead' => disk'.caCopy = disk'.ca.cert
  <2>1. CASE op = "Materialize"
    <3>1. OnDisk(materialize)
      BY <2>1, <1>4 DEF Done, Effect
    <3>2. "EnsureCA" \notin Ahead
      BY <2>1, <1>7, Ranks
    <3>3. disk.ca.cert # 0
      BY <3>2, <1>1 DEF Trusting
    <3> QED BY <3>1, <3>3, <2>1, <1>1, <1>3, Materialized
  <2>2. CASE op # "Materialize"
    BY <2>2, <1>1, <1>3, <1>13 DEF Serving
  <2> QED BY <2>1, <2>2
<1>15. "ComposeUp" \in Ahead' => services'["watcher"] = cmd'.before.watcher
  BY <1>1, <1>3, <1>6 DEF Serving
<1>16. "ComposeUp" \notin Ahead' => services'["watcher"].ca = disk'.ca.cert \/ services'["watcher"] = cmd'.before.watcher
  <2>1. CASE op = "ComposeUp"
    <3>1. ComposeUp(Core)
      BY <2>1, <1>4 DEF Done, Effect
    <3>2. services'["watcher"] = IF services["watcher"].env # disk.env THEN Created("watcher") ELSE services["watcher"]
      BY <3>1 DEF ComposeUp, Core
    <3>3. Created("watcher").ca = disk.caCopy
      BY DEF Created
    <3>4. "Materialize" \notin Ahead
      BY <2>1, <1>7, Ranks
    <3> QED BY <3>2, <3>3, <3>4, <2>1, <1>1, <1>3, <1>6 DEF Serving
  <2>2. CASE op # "ComposeUp"
    BY <2>2, <1>1, <1>3, <1>6, <1>13 DEF Serving
  <2> QED BY <2>1, <2>2
<1>17. "SaveConfig" \notin Ahead' => disk'.config = cmd'.cfg
  <2>1. CASE op = "SaveConfig"
    <3>1. disk'.config = cmd.cfg /\ cmd'.cfg = cmd.cfg
      BY <2>1, <1>1, <1>4 DEF Done, Effect, SaveConfig, OnDisk, Fields, Homes
    <3> QED BY <3>1
  <2>2. CASE op # "SaveConfig"
    <3>1. Rank("install", "SaveConfig") = 18
      BY Ranks
    <3>2. Rank("install", op) < 18
      <4>1. (\A x \in Hosting : Rank("install", x) \in 5..9) /\ Rank("install", "TrustTeamRoot") = 10
            /\ \A x \in Converge : Rank("install", x) \in 11..17
        BY Bounds
      <4> QED BY <4>1, <2>2, <1>2
    <3>3. "SaveConfig" \in Ahead
      BY <3>1, <3>2, <1>8, <1>9
    <3> QED BY <3>3, <2>2, <1>1
  <2> QED BY <2>1, <2>2
<1> QED BY <1>11, <1>12, <1>14, <1>15, <1>16, <1>17 DEF Serving

\* No container changes while the command is remembered.
LEMMA ServingWanders ==
  ASSUME Serving, Wanders
  PROVE  Serving'
<1>1. CASE cmd' = Idle
  BY <1>1 DEF Serving, Idle
<1>2. CASE cmd' = cmd /\ UNCHANGED services
  BY <1>2 DEF Serving, Wanders, Ahead
<1> QED BY <1>1, <1>2 DEF Wanders

-----------------------------------------------------------------------------
\* The commands that run converge, update when doctor had called for it, and what
\* they declare the services with.
Skew == {"stack_version", "stack_image"}

Converges ==
  cmd.ok /\ (cmd.name \in {"install", "up", "up_image"} \/ (cmd.name = "update" /\ cmd.failing \cap Skew # {}))

Declared == [tld |-> cmd.cfg.tld, image |-> cmd.image, version |-> cli]

(* What converge has done, by the steps it has taken.                        *)
Converging ==
  Converges =>
    /\ cmd.name # "up_image" => cmd.image = CanonicalImage(cli)
    /\ "WriteEnv" \notin Ahead => disk.env = Declared
    /\ "AppendPeers" \notin Ahead => (peerConfigured(disk.config) => disk.compose.peers = PeerSpec(disk.config))
    /\ "ComposeUp" \notin Ahead => \A c \in Core : services[c].env = Declared
    /\ ("StartPeers" \notin Ahead /\ ~cmd.skipped /\ peerConfigured(disk.config)) =>
         peers.state = "running" /\ peers.spec = PeerSpec(disk.config)

\* The table of Remedies, read off.
LEMMA RemediesListed ==
  /\ DOMAIN Remedies = {"installed", "trust_system", "trust_nss", "stack", "stack_version", "stack_image", "incidents",
                         "dns_server", "peer_dns", "peer_relay"}
  /\ Remedies["installed"] = "install" /\ Remedies["trust_system"] = "trust" /\ Remedies["trust_nss"] = "trust"
  /\ Remedies["stack"] = "up" /\ Remedies["stack_version"] = "update" /\ Remedies["stack_image"] = "up"
  /\ Remedies["incidents"] = "update"
  /\ Remedies["dns_server"] = "up" /\ Remedies["peer_dns"] = "up" /\ Remedies["peer_relay"] = "up"
BY DEF Remedies

\* update converges if doctor found version or image astray: it is not up to date then.
LEMMA ConvergingLaunches ==
  ASSUME Launches
  PROVE  Converging'
<1> SUFFICES ASSUME Converges' PROVE Converging'
  BY DEF Converging
<1> PICK name \in Names \ {""}, first \in Listed, cfg \in Configs, image \in Images, todo \in Seq(Ops) :
           Launched(name, first, cfg, image, todo)
  BY DEF Launches
<1>1. cmd'.name = name /\ cmd'.image = image /\ Ahead' = Elems(todo) /\ cli' = cli
      /\ cmd'.failing = Failures(first)
  BY DEF Launched, Opened, Ahead
<1>2. name \in {"install", "up", "update"} => image = CanonicalImage(cli)
  BY DEF Launched
<1>3. name \in {"install", "up", "up_image", "update"}
  BY <1>1 DEF Converges
<1>4. Converge \subseteq Elems(todo)
  <2>1. CASE name # "update"
    BY <2>1, <1>3, Scripts DEF Launched
  <2>2. CASE name = "update"
    <3>1. PICK c \in Failures(first) : c \in Skew
      BY <2>2, <1>1 DEF Converges
    <3>2. Holds("stack", first) /\ ~Holds(c, first)
      BY <3>1 DEF Failures, Needs, Remedies, Skew
    <3>3. Up = Core
      BY <3>2 DEF Holds
    <3>4. services[first].env.version # cli \/ services[first].env.image # CanonicalImage(cli)
      BY <3>1, <3>2 DEF Holds, Skew
    <3>5. Up # {} /\ ~UpToDate(first, FALSE)
      BY <3>3, <3>4 DEF Core, UpToDate
    <3> QED BY <3>5, <2>2 DEF Launched
  <2> QED BY <2>1, <2>2
<1>5. {"WriteEnv", "AppendPeers", "ComposeUp", "StartPeers"} \subseteq Converge
  BY DEF Converge
<1>6. cmd'.name # "up_image" => cmd'.image = CanonicalImage(cli')
  BY <1>1, <1>2, <1>3
<1> QED BY <1>1, <1>4, <1>5, <1>6 DEF Converging

\* Configurations that agree declare the same peer services.
LEMMA SameSpec ==
  ASSUME Agrees(disk'.config) \/ disk'.config = disk.config
  PROVE  PeerSpec(disk'.config) = PeerSpec(disk.config) /\ (peerConfigured(disk'.config) <=> peerConfigured(disk.config))
BY DEF Agrees, PeerSpec, peerConfigured

\* Each promise of converge is kept by the step named and by all later ones.
LEMMA ConvergingProgress ==
  ASSUME Typed, Decided, Converging, NEW op, Progress(op)
  PROVE  Converging'
<1> SUFFICES ASSUME Converges' PROVE Converging'
  BY DEF Converging
<1>1. /\ Going(op) /\ cmd.name = cmd'.name /\ cmd.ok /\ Ahead' = Ahead \ {op} /\ op \in Ahead /\ Fields /\ cmd \in Cmds
      /\ cmd.name \in {"install", "up", "up_image", "update"}
  BY GoesOn DEF Going, Converges
<1> DEFINE n == cmd.name
<1>2. op \in Hosting \cup {"TrustTeamRoot"} \cup Converge \cup {"SaveConfig"}
      /\ (op = "SaveConfig" => n = "install")
  BY <1>1, Scripts DEF Going, Roles
<1>3. Keeps /\ UNCHANGED cli
  BY <1>1 DEF Going, Advances, Progress, Takes
<1>4. Converges /\ Declared' = Declared /\ cmd'.image = cmd.image
  BY <1>1, <1>3 DEF Converges, Declared, Keeps
<1>5. /\ op # "SaveConfig" => disk'.config = disk.config
      /\ op # "WriteEnv" => disk'.env = disk.env
      /\ op \notin {"Materialize", "AppendPeers"} => disk'.compose = disk.compose
      /\ op # "ComposeUp" => services' = services
      /\ op \notin {"StartPeers", "RemovePeers"} => peers' = peers
  <2>1. op \notin {"RemoveHome", "ComposeDown"}
    BY <1>2 DEF Hosting, Converge
  <2> QED BY <2>1 DEF Progress, Frame, Only
<1>6. op \in {"Materialize", "AppendPeers", "WriteEnv", "ComposeUp", "SaveConfig"} => Done(op)
  BY <1>1 DEF Going
<1>7. ~cmd'.skipped => ~cmd.skipped /\ Done(op)
  BY <1>1 DEF Going
<1>8. \A x \in Ahead : x = op \/ Rank(n, op) < Rank(n, x)
  BY DEF Progress
<1>9. \A x \in Must(n) : Rank(n, op) < Rank(n, x) => x \in Ahead
  BY <1>1 DEF Going
<1>10. {"WriteEnv", "AppendPeers", "ComposeUp", "StartPeers"} \subseteq Must(n)
  BY <1>1, Scripts DEF Converge
<1>11. PeerSpec(disk'.config) = PeerSpec(disk.config) /\ (peerConfigured(disk'.config) <=> peerConfigured(disk.config))
  <2>1. CASE op = "SaveConfig"
    <3>1. disk'.config = cmd.cfg
      BY <2>1, <1>1, <1>6 DEF Done, Effect, SaveConfig, OnDisk, Fields, Homes
    <3>2. Agrees(cmd.cfg)
      BY <2>1, <1>1, <1>2 DEF Decided
    <3> QED BY <3>1, <3>2, SameSpec
  <2> QED BY <2>1, <1>5, SameSpec
<1>12. "WriteEnv" \notin Ahead' => disk'.env = Declared'
  <2>1. CASE op = "WriteEnv"
    <3>1. writeEnv
      BY <2>1, <1>6 DEF Done, Effect
    <3>2. disk' = [disk EXCEPT !.env = Declared]
      BY <3>1, Zenon DEF writeEnv, OnDisk, Declared
    <3> HIDE DEF Declared
    <3>3. disk'.env = Declared
      BY <3>2, <1>1 DEF Fields, Homes
    <3> QED BY <3>3, <1>4
  <2>2. CASE op # "WriteEnv"
    BY <2>2, <1>1, <1>4, <1>5 DEF Converging
  <2> QED BY <2>1, <2>2
<1>13. "AppendPeers" \notin Ahead' => (peerConfigured(disk'.config) => disk'.compose.peers = PeerSpec(disk'.config))
  <2>1. CASE op = "AppendPeers"
    <3> SUFFICES ASSUME peerConfigured(disk.config) PROVE disk'.compose.peers = PeerSpec(disk.config)
      BY <1>11
    <3> DEFINE q == PeerSpec(disk.config)
    <3>1. disk' = [disk EXCEPT !.compose.peers = q]
      BY <2>1, <1>6 DEF Done, Effect, appendPeerServices, OnDisk
    <3> HIDE DEF q
    <3>2. disk'.compose.peers = q
      BY <3>1, <1>1 DEF Fields, Homes
    <3> QED BY <3>2 DEF q
  <2>2. CASE op = "Materialize"
    <3>1. "AppendPeers" \in Ahead'
      BY <2>2, <1>1, <1>9, <1>10, Ranks
    <3> QED BY <3>1
  <2>3. CASE op \notin {"AppendPeers", "Materialize"}
    BY <2>3, <1>1, <1>4, <1>5, <1>11 DEF Converging
  <2> QED BY <2>1, <2>2, <2>3
<1>14. "ComposeUp" \notin Ahead' => \A c \in Core : services'[c].env = Declared'
  <2>1. CASE op = "ComposeUp"
    <3>1. ComposeUp(Core)
      BY <2>1, <1>6 DEF Done, Effect
    <3>2. \A c \in Core : Created(c).env = disk.env
      BY DEF Created
    <3>3. \A c \in Core : services'[c].env = disk.env
      BY <3>1, <3>2 DEF ComposeUp
    <3>4. "WriteEnv" \notin Ahead
      BY <2>1, <1>8, Ranks
    <3>5. disk.env = Declared
      BY <3>4, <1>4 DEF Converging
    <3> QED BY <3>3, <3>5, <1>4
  <2>2. CASE op # "ComposeUp"
    BY <2>2, <1>1, <1>4, <1>5 DEF Converging
  <2> QED BY <2>1, <2>2
<1>15. ("StartPeers" \notin Ahead' /\ ~cmd'.skipped /\ peerConfigured(disk'.config)) =>
         peers'.state = "running" /\ peers'.spec = PeerSpec(disk'.config)
  <2> SUFFICES ASSUME "StartPeers" \notin Ahead', ~cmd'.skipped, peerConfigured(disk.config)
               PROVE  peers'.state = "running" /\ peers'.spec = PeerSpec(disk.config)
    BY <1>11
  <2>1. CASE op = "StartPeers"
    <3>1. StartPeers /\ peers'.state # "created"
      BY <2>1, <1>7 DEF Done, Effect
    <3>2. peers'.spec = disk.compose.peers /\ peers'.state \in {"running", "created"}
      BY <3>1 DEF StartPeers
    <3>3. "AppendPeers" \notin Ahead
      BY <2>1, <1>8, Ranks
    <3>4. disk.compose.peers = PeerSpec(disk.config)
      BY <3>3, <1>4 DEF Converging
    <3> QED BY <3>1, <3>2, <3>4
  <2>2. CASE op = "RemovePeers"
    <3>1. "StartPeers" \in Ahead'
      BY <2>2, <1>1, <1>9, <1>10, Ranks
    <3> QED BY <3>1
  <2>3. CASE op \notin {"StartPeers", "RemovePeers"}
    BY <2>3, <1>1, <1>4, <1>5, <1>7 DEF Converging
  <2> QED BY <2>1, <2>2, <2>3
<1>16. cmd'.name # "up_image" => cmd'.image = CanonicalImage(cli')
  BY <1>1, <1>3, <1>4 DEF Converging
<1> QED BY <1>12, <1>13, <1>14, <1>15, <1>16 DEF Converging

\* A peer service started meanwhile is one more running.
LEMMA ConvergingWanders ==
  ASSUME Typed, Converging, Wanders
  PROVE  Converging'
<1>1. CASE cmd' = Idle
  BY <1>1 DEF Converging, Converges, Idle
<1>2. CASE /\ cmd' = cmd /\ UNCHANGED <<services, rootFile, cli>>
           /\ peers' = peers \/ (peers.state \in {"created", "exited"} /\ peers' = [peers EXCEPT !.state = "running"])
  <2>1. Converges' = Converges /\ Declared' = Declared /\ Ahead' = Ahead /\ disk' = disk
    BY <1>2 DEF Converges, Declared, Ahead, Wanders
  <2>2. peers.state = "running" => peers' = peers
    BY <1>2
  <2> QED BY <2>1, <2>2, <1>2 DEF Converging
<1> QED BY <1>1, <1>2 DEF Wanders

-----------------------------------------------------------------------------
(***************************************************************************)
(* The inductive invariant.  OneResolver needs Decided; Uninstalling and      *)
(* Composed need each other and OneResolver; Serving needs Trusting.          *)
(***************************************************************************)
Coherent ==
  /\ Decided /\ OneResolver /\ Composed /\ InStep
  /\ Uninstalling /\ Trusting /\ Serving /\ Converging

IInv == Typed /\ Scripted /\ Coherent

\* No command has run at first.
LEMMA InitIInv ==
  ASSUME Init
  PROVE  IInv
<1>1. Typed /\ Scripted /\ cmd = Idle /\ host.resolvers \subseteq {disk.config.tld}
      /\ ((Up # {} \/ peers.state # "absent") => disk.compose.written)
      /\ (~disk.compose.written \/ disk.material = Wanted(disk.config, disk.int))
  BY InitFacts
<1>2. Ahead = {} /\ cmd.name = "" /\ ~Busy /\ cmd.failing = {}
  BY <1>1, IdleScripted
<1>3. Decided /\ OneResolver /\ Composed /\ InStep
  BY <1>1, <1>2 DEF Decided, OneResolver, Composed, InStep
<1>4. Uninstalling /\ Trusting /\ Serving /\ Converging
  BY <1>2 DEF Uninstalling, Trusting, Serving, Converging, Converges
<1> QED BY <1>1, <1>3, <1>4 DEF IInv, Coherent

\* Every part is kept by a command that starts, by its steps and by all else.
LEMMA StepIInv ==
  ASSUME IInv, [Next]_vars
  PROVE  IInv'
<1> USE DEF Coherent
<1> DEFINE op == Head(cmd.todo)
<1>1. Typed /\ Scripted /\ Coherent
  BY DEF IInv
<1>2. Typed' /\ Scripted' /\ (Launches \/ Progress(op) \/ Wanders)
  BY <1>1, NextMoves
<1> HIDE DEF op
<1>3. CASE Launches
  BY <1>1, <1>2, <1>3, DecidedLaunches, OneResolverLaunches, ComposedLaunches, InStepLaunches, UninstallingLaunches,
     TrustingLaunches, ServingLaunches, ConvergingLaunches DEF IInv
<1>4. CASE Progress(op)
  <2>1. Decided' /\ OneResolver' /\ Composed' /\ InStep'
    BY <1>1, <1>4, DecidedProgress, OneResolverProgress, ComposedProgress, InStepProgress
  <2>2. Uninstalling' /\ Trusting' /\ Serving' /\ Converging'
    BY <1>1, <1>4, UninstallingProgress, TrustingProgress, ServingProgress, ConvergingProgress
  <2> QED BY <1>2, <2>1, <2>2 DEF IInv
<1>5. CASE Wanders
  BY <1>1, <1>2, <1>5, DecidedWanders, OneResolverWanders, ComposedWanders, InStepWanders, UninstallingWanders,
     TrustingWanders, ServingWanders, ConvergingWanders DEF IInv
<1> QED BY <1>2, <1>3, <1>4, <1>5

(* Whatever commands run, fail, are killed or meet a reboot, what a command   *)
(* still has to do and what the host is like agree (internal/cli).            *)
THEOREM LifecycleInvariant == Spec => []IInv
<1>1. Init => IInv
  BY InitIInv
<1>2. IInv /\ [Next]_vars => IInv'
  BY StepIInv
<1> QED BY <1>1, <1>2, PTL DEF Spec

-----------------------------------------------------------------------------
\* A command that is over has no step ahead.
LEMMA AtRest ==
  ASSUME ~Busy
  PROVE  Ahead = {} /\ ~Doing("CopyPeer")
BY NoSteps DEF Busy, Ahead, Doing

\* The types TypeOK asks for.
LEMMA IInvTyped ==
  ASSUME IInv
  PROVE  TypeOK
<1>1. Typed /\ Fields /\ cmd \in Cmds
  BY Typing DEF IInv, Typed
<1>2. cli \in Nat /\ MaxVersion \in Nat
  BY <1>1, LifecycleAssumption DEF Typed
<1>3. disk.config \in Configs /\ disk.int \in Intermediates \cup {NoIntermediate}
  BY <1>1 DEF Fields, Ints
<1>4. {disk.ca.cert, disk.ca.key, disk.caCopy, host.system, host.nss} \subseteq Nat
  BY <1>1 DEF Fields, CAs, Hosts
<1>5. host.resolvers \subseteq TLDs /\ host.root \in Roots \cup {""}
  BY <1>1 DEF Fields, Hosts
<1>6. \A c \in Core : services[c].ca \in Nat /\ services[c].env.version \in 0..cli
  <2> TAKE c \in Core
  <2>1. services[c] \in Containers
    BY <1>1 DEF Fields
  <2>2. services[c].ca \in Nat /\ services[c].env \in Envs
    BY <2>1 DEF Containers
  <2>3. services[c].env.version \in Nat
    BY <2>2 DEF Envs
  <2>4. services[c].env.version <= cli
    BY <1>1 DEF Typed, MachineTyped, Fits
  <2> QED BY <2>2, <2>3, <2>4, <1>2
<1>7. peers.state \in {"absent", "created", "running", "exited"} /\ mesh \subseteq Addresses
  BY <1>1 DEF Fields, Peers, Typed
<1>8. rootFile \in Roots /\ cli \in 1..MaxVersion /\ faults \in 0..MaxFaults /\ commands \in 0..MaxCommands
  BY <1>1 DEF Typed
<1>9. cmd.cfg \in Configs /\ {cmd.ok, cmd.skipped, cmd.undoing, torn} \subseteq BOOLEAN
  BY <1>1 DEF Cmds, Typed
<1> QED BY <1>3, <1>4, <1>5, <1>6, <1>7, <1>8, <1>9 DEF TypeOK

\* Material is served only with an intermediate for the very names.
LEMMA WantedLoads ==
  ASSUME NEW cfg, NEW int, Loadable(Wanted(cfg, int))
  PROVE  Wanted(cfg, int).int.subtree = Wanted(cfg, int).names
<1>1. CASE PeerServed(PeerMissing(cfg, int))
  <2>1. "intermediate" \notin PeerMissing(cfg, int)
    BY <1>1 DEF PeerServed
  <2>2. IntermediateFor(int, cfg.machine, cfg.suffix)
    BY <2>1 DEF PeerMissing
  <2> DEFINE m == MachineSubtree(cfg.machine, cfg.suffix)
  <2>3. int.subtree = m
    BY <2>2 DEF IntermediateFor
  <2>4. Wanted(cfg, int) = [names |-> m, int |-> int, key |-> TRUE]
    BY <1>1 DEF Wanted
  <2> HIDE DEF m
  <2> QED BY <2>3, <2>4
<1>2. CASE ~PeerServed(PeerMissing(cfg, int))
  <2>1. Wanted(cfg, int) = NoMaterial
    BY <1>2 DEF Wanted
  <2>2. NoMaterial.names = <<"", "">>
    BY DEF NoMaterial
  <2>3. ~Loadable(NoMaterial)
    BY <2>2 DEF Loadable
  <2> QED BY <2>1, <2>3, Zenon
<1> QED BY <1>1, <1>2

\* InStep, at rest.
LEMMA IInvMaterial ==
  ASSUME IInv
  PROVE  MaterialOfConfig
<1> SUFFICES ASSUME ~Busy, ~torn, disk.compose.written
             PROVE  /\ disk.material = Wanted(disk.config, disk.int)
                    /\ Loadable(disk.material) => disk.material.int.subtree = disk.material.names
  BY DEF MaterialOfConfig
<1>1. disk.material = Wanted(disk.config, disk.int)
  BY AtRest DEF IInv, Coherent, InStep
<1> QED BY <1>1, WantedLoads

\* Uninstalling, with nothing ahead.
LEMMA IInvUninstall ==
  ASSUME IInv
  PROVE  UninstallRestores
<1> SUFFICES ASSUME Finished("uninstall")
             PROVE  /\ disk = EmptyHome /\ host.resolvers = {} /\ host.system = 0
                    /\ Up = {} /\ peers.state = "absent"
                    /\ ~cmd.skipped => host.nss = 0 /\ (cmd.cfg.trusted # "" => host.root = "")
  BY DEF UninstallRestores
<1>1. Ahead = {} /\ cmd.name = "uninstall" /\ cmd.ok
  BY AtRest DEF Finished
<1> QED BY <1>1 DEF IInv, Coherent, Uninstalling

\* Trusting, Serving and Converging, with nothing ahead.
LEMMA IInvInstall ==
  ASSUME IInv
  PROVE  InstallServes
<1> SUFFICES ASSUME Finished("install"), ~cmd.skipped
             PROVE  /\ host.resolvers = {disk.config.tld}
                    /\ host.system = disk.ca.cert /\ host.nss = disk.ca.cert /\ disk.caCopy = disk.ca.cert
                    /\ \A c \in Core :
                         services[c].env = [tld |-> disk.config.tld, image |-> CanonicalImage(cli), version |-> cli]
                    /\ services["watcher"].ca = disk.ca.cert \/ services["watcher"] = cmd.before.watcher
                    /\ disk.config.teamRoot => host.root = disk.config.trusted
  BY DEF InstallServes
<1>1. Ahead = {} /\ cmd.name = "install" /\ cmd.ok
  BY AtRest DEF Finished
<1>2. /\ host.resolvers = {disk.config.tld} /\ disk.caCopy = disk.ca.cert /\ disk.config = cmd.cfg
      /\ services["watcher"].ca = disk.ca.cert \/ services["watcher"] = cmd.before.watcher
      /\ cmd.cfg.teamRoot => host.root = cmd.cfg.trusted
  BY <1>1 DEF IInv, Coherent, Serving
<1>3. host.system = disk.ca.cert /\ host.nss = disk.ca.cert
  BY <1>1 DEF IInv, Coherent, Trusting
<1>4. cmd.image = CanonicalImage(cli) /\ \A c \in Core : services[c].env = Declared
  BY <1>1 DEF IInv, Coherent, Converging, Converges
<1>5. Declared = [tld |-> disk.config.tld, image |-> CanonicalImage(cli), version |-> cli]
  BY <1>2, <1>4 DEF Declared
<1> QED BY <1>2, <1>3, <1>4, <1>5

\* The parts about the command that is the Remedy, with nothing ahead.
LEMMA IInvRemedies ==
  ASSUME IInv
  PROVE  RemedyCures
<1> SUFFICES ASSUME ~Busy, cmd.ok, ~cmd.skipped, NEW c \in cmd.failing, NEW first \in Listed,
                    Remedies[c] = cmd.name, InReach(c)
             PROVE  Holds(c, first)
  BY DEF RemedyCures
<1>1. Ahead = {} /\ c \in DOMAIN Remedies
  BY AtRest DEF IInv, Typed, Cmds
<1>2. first \in Core
  BY DEF Listed, Up
<1>3. ASSUME cmd.name = "up" \/ (cmd.name = "update" /\ cmd.failing \cap Skew # {})
      PROVE  /\ cmd.image = CanonicalImage(cli) /\ (\A s \in Core : services[s].env = Declared)
             /\ Declared.tld = disk.config.tld /\ Declared.image = CanonicalImage(cli) /\ Declared.version = cli
             /\ peerConfigured(disk.config) => peers.state = "running" /\ peers.spec = PeerSpec(disk.config)
  <2>1. Converges
    BY <1>3 DEF Converges
  <2>2. /\ cmd.image = CanonicalImage(cli) /\ (\A s \in Core : services[s].env = Declared)
        /\ peerConfigured(disk.config) => peers.state = "running" /\ peers.spec = PeerSpec(disk.config)
    BY <2>1, <1>1, <1>3 DEF IInv, Coherent, Converging
  <2>3. cmd.cfg.tld = disk.config.tld
    BY <1>3 DEF IInv, Coherent, Decided
  <2> QED BY <2>2, <2>3 DEF Declared
<1>4. CASE c = "installed"
  <2>1. cmd.name = "install"
    BY <1>1, <1>4, RemediesListed
  <2>2. disk.ca.cert # 0 /\ disk.config.tld \in host.resolvers
    BY <2>1, <1>1 DEF IInv, Coherent, Trusting, Serving
  <2> QED BY <2>2, <1>4 DEF Holds
<1>5. CASE c \in {"trust_system", "trust_nss"}
  <2>1. cmd.name = "trust"
    BY <1>1, <1>5, RemediesListed
  <2>2. host.system = disk.ca.cert /\ host.nss = disk.ca.cert
    BY <2>1, <1>1 DEF IInv, Coherent, Trusting
  <2> QED BY <2>2, <1>5 DEF Holds
<1>6. CASE c \in {"stack", "stack_image", "dns_server", "peer_dns", "peer_relay"}
  <2>1. cmd.name = "up"
    BY <1>1, <1>6, RemediesListed
  <2>2. CASE c = "stack"
    <3>1. disk.config.tld # ""
      <4>1. disk.config.tld \in TLDs
        BY Typing DEF IInv, Typed, Fields, Configs
      <4> QED BY <4>1, SettingsAssumption
    <3>2. Absent.env.tld = ""
      BY DEF Absent, NoEnv
    <3>3. \A s \in Core : services[s] # Absent
      BY <2>1, <3>1, <3>2, <1>3
    <3> QED BY <3>3, <2>2 DEF Holds, Up
  <2>3. CASE c = "stack_image"
    BY <2>1, <2>3, <1>2, <1>3 DEF Holds
  <2>4. CASE c = "dns_server"
    BY <2>1, <2>4, <1>3 DEF Holds, Core
  <2>5. CASE c = "peer_dns"
    BY <2>1, <2>5, <1>3 DEF Holds, PeerDNSAnswers, InReach
  <2>6. CASE c = "peer_relay"
    <3>1. PeerSpec(disk.config)[3] = disk.config.address
      BY DEF PeerSpec
    <3>2. PeerRelayAnswers
      BY <2>1, <2>6, <3>1, <1>3 DEF PeerRelayAnswers, InReach
    <3> QED BY <3>2, <2>6 DEF Holds
  <2> QED BY <2>2, <2>3, <2>4, <2>5, <2>6, <1>6
<1>7. CASE c \in {"stack_version", "incidents"}
  <2>1. cmd.name = "update" /\ cmd.failing \cap Skew # {}
    BY <1>1, <1>7, RemediesListed DEF Skew, InReach
  <2>2. CASE c = "stack_version"
    BY <2>1, <2>2, <1>2, <1>3 DEF Holds
  <2>3. CASE c = "incidents"
    <3>1. services["watcher"].env = Declared /\ Declared.image = CanonicalImage(cli)
      BY <2>1, <1>3 DEF Core
    <3>2. CanonicalImage(cli)[2] = cli
      BY DEF CanonicalImage
    <3>3. services["watcher"].env.image[2] = cli
      BY <3>1, <3>2
    <3>4. IncidentsPublished
      BY <3>3 DEF IncidentsPublished
    <3> QED BY <3>4, <2>3 DEF Holds
  <2> QED BY <2>2, <2>3, <1>7
<1> QED BY <1>1, <1>4, <1>5, <1>6, <1>7, RemediesListed

(* Configuration, CA, anchors, containers and the command in progress keep     *)
(* their types, and no container is of a version newer than the CLI's, through *)
(* any sequence of commands, faults and upgrades (internal/cli, config).       *)
THEOREM LifecycleTyped == Spec => []TypeOK
BY LifecycleInvariant, IInvTyped, PTL

(* At rest the stack's peer material is what the saved configuration and the   *)
(* installed intermediate call for, and names no machine with an intermediate  *)
(* of another, unless a command stopped before copyPeer (docker/peer.go).      *)
THEOREM MaterialFollowsConfig == Spec => []MaterialOfConfig
BY LifecycleInvariant, IInvMaterial, PTL

(* After an uninstall that did not fail, whatever failed, was killed or        *)
(* reconfigured before it, no resolver, CA, container or file is left, and no   *)
(* team root of which the configuration had a record (cli/uninstall.go).       *)
THEOREM UninstallRestoresHost == Spec => []UninstallRestores
BY LifecycleInvariant, IInvUninstall, PTL

(* After an install that passed nothing over, resolver, trust stores, stack    *)
(* and configuration agree on TLD, CA, version, image and team root, whatever   *)
(* an earlier command had left half done (cli/install.go, docker/stack.go).    *)
THEOREM InstallsServe == Spec => []InstallServes
BY LifecycleInvariant, IInvInstall, PTL

(* The command doctor names for a failing check makes that check pass when it   *)
(* finishes and passes nothing over, from any state an earlier command may      *)
(* have left, whichever container Docker lists first: for incidents if version  *)
(* or image of that container are astray too (internal/checks).               *)
THEOREM RemediesCure == Spec => []RemedyCures
BY LifecycleInvariant, IInvRemedies, PTL
=============================================================================
