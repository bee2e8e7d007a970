----------------------------- MODULE Incidents -----------------------------
(***************************************************************************)
(* The Incident store (internal/docker/incident.go) and the part of the     *)
(* watcher that feeds it: every event of the subscription goes to Observe   *)
(* before the reconcile it causes, and every reconcile's listing tells the  *)
(* store which containers are healthy (SawHealthy).  The two sources run at *)
(* different speeds: a listing shows Docker as it is, the queue as it was.  *)
(*                                                                          *)
(* An instant is an integer; every event has its own.  Docker is external:  *)
(* it keeps the events of one container in order, may swap events of two    *)
(* containers less than Skew apart, may deliver an event twice, and loses   *)
(* what is queued when the stream breaks.                                   *)
(***************************************************************************)
EXTENDS Routing, FiniteSetsExt, SequencesExt

CONSTANTS
  Catalogue,    \* the containers, one per name; the name stands for the id too
  PerService,   \* DefaultIncidentsPerService
  MaxAge,       \* DefaultIncidentMaxAge
  OOMWindow,    \* oomWindow
  Skew,         \* how far apart two swapped events may be
  MaxChanges,   \* bound on what happens to the containers
  MaxFaults,    \* bound on broken streams, duplicates and restarts
  MaxQueue      \* bound on undelivered events

ASSUME IncidentsAssumption ==
  /\ PerService \in Nat \ {0} /\ MaxAge \in Nat \ {0} /\ OOMWindow \in Nat \ {0} /\ Skew \in Nat
  /\ MaxChanges \in Nat /\ MaxFaults \in Nat /\ MaxQueue \in Nat

Ids == {c.name : c \in Catalogue}
At(n) == CHOOSE c \in Catalogue : c.name = n

VARIABLES
  life,      \* id -> "down", "none" (up, no healthcheck), "starting", "healthy" or "unhealthy"
  starts,    \* id -> the instants it was started at, oldest first
  now,       \* the clock
  sighted,   \* ids whose present spell of health a listing of this process saw
  stream,    \* the subscription: "none", "open" or "broken"
  queue,     \* events sent and not yet received
  pc,        \* where the watcher is
  healthy, oom, held,   \* the store's healthy, oom (id -> instant, 0 = none) and byService
  observed,  \* history: what this process's Observe was given and made of it
  changes, faults       \* how much of the bounds is used

docker  == <<life, starts, now>>
store   == <<healthy, oom, held>>
bounds  == <<changes, faults>>
vars    == <<docker, sighted, stream, queue, pc, store, observed, bounds>>

-----------------------------------------------------------------------------
(***************************************************************************)
(* Names.                                                                   *)
(***************************************************************************)
ServiceOf(c) ==
  IF c.service = "" THEN <<c.own>>
  ELSE IF namespaceOf(c) = "" THEN <<c.service>>
  ELSE <<namespaceOf(c), c.service>>

Services == {ServiceOf(c) : c \in Catalogue}

\* DeriveIDParts: the service, the instant and the kind, and nothing else.
IdOf(inc) == <<inc.service, inc.at, inc.kind>>

-----------------------------------------------------------------------------
(***************************************************************************)
(* The store.                                                               *)
(***************************************************************************)
StoreInit == healthy = {} /\ oom = [n \in Ids |-> 0] /\ held = [s \in Services |-> <<>>]

\* sort.SliceStable by instant.
Sorted(incs) ==
  LET Before(i, j) == incs[i].at < incs[j].at \/ (incs[i].at = incs[j].at /\ i < j)
      p == CHOOSE p \in [DOMAIN incs -> DOMAIN incs] : \A i, j \in DOMAIN incs : i < j => Before(p[i], p[j])
  IN  [i \in DOMAIN incs |-> incs[p[i]]]

\* Those that are not too old, in their order.
fresh(incs, t) ==
  LET young == {i \in DOMAIN incs : incs[i].at > t - MaxAge}
      p == CHOOSE p \in [1..Cardinality(young) -> young] : \A i, j \in DOMAIN p : i < j => p[i] < p[j]
  IN  [i \in DOMAIN p |-> incs[p[i]]]

\* Slips: the cap keeps the first; there is no cap.
recordOldest(h, inc, t) ==
  LET kept == fresh(Sorted(Append(h, inc)), t)
  IN  IF \E i \in 1..Len(h) : IdOf(h[i]) = IdOf(inc) THEN h
      ELSE SubSeq(kept, 1, Min({PerService, Len(kept)}))

recordUncapped(h, inc, t) ==
  IF \E i \in 1..Len(h) : IdOf(h[i]) = IdOf(inc) THEN h
  ELSE fresh(Sorted(Append(h, inc)), t)

\* record: a replay is dropped; the rest is sorted, aged and capped.
record(h, inc, t) ==
  LET kept == fresh(Sorted(Append(h, inc)), t)
  IN  IF \E i \in 1..Len(h) : IdOf(h[i]) = IdOf(inc) THEN h
      ELSE SubSeq(kept, Max({1, Len(kept) - PerService + 1}), Len(kept))

\* An exit is an OOM kill when the container's last oom event is near it.
\* Slip: an oom is near as long as it is remembered.
explainsAny(killed, at) == killed # 0

explains(killed, at) == killed # 0 /\ at - killed < OOMWindow /\ at - killed > -OOMWindow

Incident(e, kind, byOOM) ==
  [service |-> ServiceOf(At(e.n)), at |-> e.at, kind |-> kind, n |-> e.n, oom |-> byOOM]

\* The Incident an event declares, as a set of at most one, from what the store
\* remembers of the container.
Declares(e) ==
  IF ~isObserved(At(e.n)) THEN {}
  ELSE CASE e.action = "exit"                         -> {Incident(e, "exited", explains(oom[e.n], e.at))}
         [] e.action = "restart"                      -> {Incident(e, "restarted", FALSE)}
         [] e.action = "unhealthy" /\ e.n \in healthy -> {Incident(e, "unhealthy", FALSE)}
         [] OTHER                                     -> {}

\* What the store remembers after an event: whether the check passed, and the
\* last oom.  A clean exit forgets the first and keeps the second.
Remembered(e) ==
  IF ~isObserved(At(e.n)) THEN UNCHANGED <<healthy, oom>>
  ELSE /\ healthy' = CASE e.action \in {"exit", "clean", "unhealthy"} -> healthy \ {e.n}
                       [] e.action = "healthy"                      -> healthy \cup {e.n}
                       [] OTHER                                     -> healthy
       /\ oom' = CASE e.action = "oom"  -> [n \in Ids |-> IF n = e.n THEN e.at
                                                          ELSE IF e.at - oom[n] > OOMWindow THEN 0 ELSE oom[n]]
                   [] e.action = "exit" -> [oom EXCEPT ![e.n] = 0]
                   [] OTHER             -> oom

Observe(e) ==
  /\ Remembered(e)
  /\ held' = [s \in Services |-> IF \E i \in Declares(e) : i.service = s
                                 THEN record(held[s], CHOOSE i \in Declares(e) : TRUE, now)
                                 ELSE held[s]]
  /\ observed' = observed \cup {[e |-> e, inc |-> Declares(e)]}

\* SawHealthy, for every container a listing shows healthy (noteHealthy).
Healthy == {n \in Ids : life[n] = "healthy" /\ isObserved(At(n))}

-----------------------------------------------------------------------------
(***************************************************************************)
(* Docker and its users.  Every event takes an instant of its own; fell and *)
(* sighted say what a property needs to know of the moment it was sent.     *)
(***************************************************************************)
Event(n, action, t) ==
  [n |-> n, action |-> action, at |-> t, fell |-> life[n] = "healthy", sighted |-> n \in sighted]

\* The clock moves, and events es are sent.
Happen(es, t) ==
  /\ changes < MaxChanges /\ changes' = changes + 1
  /\ now' = t
  /\ Len(queue) + Len(es) <= MaxQueue
  /\ queue' = IF stream = "open" THEN queue \o es ELSE queue
  /\ UNCHANGED <<stream, pc, store, observed, faults>>

Up(n, t) ==
  /\ life' = [life EXCEPT ![n] = IF At(n).health = "none" THEN "none" ELSE "starting"]
  /\ starts' = [starts EXCEPT ![n] = Append(@, t)]

Start(n) ==
  /\ life[n] = "down"
  /\ Up(n, now + 1)
  /\ Happen(<<>>, now + 1)
  /\ UNCHANGED sighted

\* A healthcheck changes its mind.
Check(n, s) ==
  /\ life[n] \notin {"down", "none", s}
  /\ life' = [life EXCEPT ![n] = s]
  /\ Happen(<<Event(n, s, now + 1)>>, now + 1)
  /\ sighted' = sighted \ {n}
  /\ UNCHANGED starts

\* The kernel kills something of the container; it may live on.
Oom(n) ==
  /\ life[n] # "down"
  /\ Happen(<<Event(n, "oom", now + 1)>>, now + 1)
  /\ UNCHANGED <<life, starts, sighted>>

Die(n, how) ==
  /\ life[n] # "down"
  /\ life' = [life EXCEPT ![n] = "down"]
  /\ Happen(<<Event(n, how, now + 1)>>, now + 1)
  /\ sighted' = sighted \ {n}
  /\ UNCHANGED starts

\* `docker restart`: the container dies, comes back, and a restart is declared.
Restart(n, how) ==
  /\ life[n] # "down"
  /\ Up(n, now + 2)
  /\ Happen(<<Event(n, how, now + 1), Event(n, "restart", now + 3)>>, now + 3)
  /\ sighted' = sighted \ {n}

\* Time passes in which nothing happens.
Elapse ==
  /\ Happen(<<>>, now + OOMWindow)
  /\ UNCHANGED <<life, starts, sighted>>

Fault == faults < MaxFaults /\ faults' = faults + 1

BreakStream ==
  /\ stream = "open" /\ Fault
  /\ stream' = "broken" /\ queue' = <<>>
  /\ UNCHANGED <<docker, sighted, pc, store, observed, changes>>

-----------------------------------------------------------------------------
(***************************************************************************)
(* The watcher.                                                             *)
(***************************************************************************)
\* One reconcile, as far as the store is concerned: its listing.
\* Slip: only the first listing tells the store who is healthy.
PassFirst ==
  /\ pc \in {"boot", "pass"}
  /\ healthy' = IF pc = "boot" THEN healthy \cup Healthy ELSE healthy
  /\ sighted' = sighted \cup Healthy
  /\ pc' = IF stream = "none" THEN "subscribe" ELSE "idle"
  /\ UNCHANGED <<docker, stream, queue, oom, held, observed, bounds>>

Pass ==
  /\ pc \in {"boot", "pass"}
  /\ healthy' = healthy \cup Healthy
  /\ sighted' = sighted \cup Healthy
  /\ pc' = IF stream = "none" THEN "subscribe" ELSE "idle"
  /\ UNCHANGED <<docker, stream, queue, oom, held, observed, bounds>>

Subscribe ==
  /\ pc = "subscribe"
  /\ pc' = "idle" /\ stream' = "open" /\ queue' = <<>>
  /\ UNCHANGED <<docker, sighted, store, observed, bounds>>

Tick ==
  /\ pc = "idle" /\ pc' = "pass"
  /\ UNCHANGED <<docker, sighted, stream, queue, store, observed, bounds>>

\* The positions Docker may deliver from.
Deliverable ==
  {i \in 1..Len(queue) :
     \A j \in 1..(i - 1) : queue[j].n # queue[i].n /\ queue[i].at - queue[j].at <= Skew}

\* noteIncident, and then the reconcile.
NoteIncident(i) ==
  /\ pc = "idle" /\ pc' = "pass"
  /\ Observe(queue[i])
  /\ \/ queue' = RemoveAt(queue, i) /\ UNCHANGED faults
     \/ Fault /\ UNCHANGED queue
  /\ UNCHANGED <<docker, sighted, stream, changes>>

StreamError ==
  /\ pc = "idle" /\ stream = "broken"
  /\ pc' = "subscribe"
  /\ UNCHANGED <<docker, sighted, stream, queue, store, observed, bounds>>

\* The store lives in the watcher's memory.
RestartWatcher ==
  /\ Fault
  /\ pc' = "boot" /\ stream' = "none" /\ queue' = <<>>
  /\ healthy' = {} /\ oom' = [n \in Ids |-> 0] /\ held' = [s \in Services |-> <<>>]
  /\ sighted' = {} /\ observed' = {}
  /\ UNCHANGED <<docker, changes>>

\* A reader of the API: List ages the store as it goes.
List ==
  /\ held' = [s \in Services |-> fresh(held[s], now)]
  /\ UNCHANGED <<docker, sighted, stream, queue, pc, healthy, oom, observed, bounds>>

Init ==
  /\ life \in [Ids -> {"down", "none", "starting", "healthy", "unhealthy"}]
  /\ \A n \in Ids : life[n] # "down" => (life[n] = "none" <=> At(n).health = "none")
  /\ starts = [n \in Ids |-> IF life[n] = "down" THEN <<>> ELSE <<1>>] /\ now = 1
  /\ sighted = {} /\ stream = "none" /\ queue = <<>> /\ pc = "boot"
  /\ StoreInit
  /\ observed = {} /\ changes = 0 /\ faults = 0

DockerNext ==
  \/ \E n \in Ids : Start(n) \/ Oom(n)
  \/ \E n \in Ids, s \in {"healthy", "unhealthy"} : Check(n, s)
  \/ \E n \in Ids, how \in {"exit", "clean"} : Die(n, how) \/ Restart(n, how)
  \/ Elapse \/ BreakStream

WatcherNext ==
  \/ Pass \/ Subscribe \/ Tick \/ StreamError \/ RestartWatcher \/ List
  \/ \E i \in Deliverable : NoteIncident(i)

Next == DockerNext \/ WatcherNext

Spec == Init /\ [][Next]_vars

-----------------------------------------------------------------------------
(***************************************************************************)
(* Quoting: what a listed Incident's Transcript is cut from.                *)
(***************************************************************************)
Held == UNION {ToSet(held[s]) : s \in Services}

\* The Incidents of inc's service before it, latest first; at most one.
PreviousIncident(inc, all) ==
  LET before == {o \in all : o.service = inc.service /\ IdOf(o) # IdOf(inc) /\ o.at < inc.at}
  IN  {o \in before : \A p \in before : p.at <= o.at}

\* SelectIncidents with a limit: the rows a listing prints.
Listed(all, limit) == {i \in all : Cardinality({j \in all : j.at > i.at}) < limit}

\* QuoteIncident, on the line every container writes as it starts: the starts in
\* the window inc closes.  The previous Incident is looked for among all of them.
\* Slip: it is looked for among the listed ones.
QuotedStartsListed(inc, all, limit) ==
  LET from == {p.at : p \in PreviousIncident(inc, Listed(all, limit))}
  IN  {t \in ToSet(starts[inc.n]) : t <= inc.at /\ \A f \in from : t >= f}

QuotedStarts(inc, all, limit) ==
  LET from == {p.at : p \in PreviousIncident(inc, all)}
  IN  {t \in ToSet(starts[inc.n]) : t <= inc.at /\ \A f \in from : t >= f}

-----------------------------------------------------------------------------
(***************************************************************************)
(* Properties.                                                              *)
(***************************************************************************)
TypeOK ==
  /\ life \in [Ids -> {"down", "none", "starting", "healthy", "unhealthy"}]
  /\ healthy \subseteq {n \in Ids : isObserved(At(n))} /\ sighted \subseteq Ids
  /\ pc \in {"boot", "pass", "subscribe", "idle"} /\ stream \in {"none", "open", "broken"}
  /\ Len(queue) <= MaxQueue
  /\ \A s \in Services : Len(held[s]) <= PerService /\ \A i \in 1..Len(held[s]) : held[s][i].service = s

\* The Incidents this process's Observe took events for.
Declared == UNION {o.inc : o \in observed}

Fresh(incs) == {i \in incs : i.at > now - MaxAge}

NewestOf(ids) == {x \in ids : Cardinality({y \in ids : y[2] > x[2]}) < PerService}

\* Whatever order events came in, however often each was delivered, whoever read
\* the store in between: it holds the newest PerService Incidents of each service
\* that are not too old, each once, oldest first.
NewestKept ==
  \A s \in Services :
    /\ {IdOf(i) : i \in Fresh(ToSet(held[s]))}
         = NewestOf({IdOf(i) : i \in {j \in Fresh(Declared) : j.service = s}})
    /\ \A i, j \in 1..Len(held[s]) : i < j =>
         held[s][i].at <= held[s][j].at /\ IdOf(held[s][i]) # IdOf(held[s][j])

\* A check that stopped passing is an Incident whenever a listing saw it pass,
\* although events of the past may reach the store after that listing.
FallsReported ==
  \A o \in observed :
    (o.e.action = "unhealthy" /\ o.e.fell /\ o.e.sighted /\ isObserved(At(o.e.n))) =>
       \E p \in observed : p.e = o.e /\ p.inc # {}

\* An exit is called an OOM kill exactly when an oom event of its container came
\* within the window before it and no other failure was put down to that oom.
OOMExplained ==
  \A i \in Held : i.kind = "exited" =>
    (i.oom <=> \E o \in observed :
       /\ o.e.n = i.n /\ o.e.action = "oom" /\ o.e.at < i.at /\ i.at - o.e.at < OOMWindow
       /\ ~\E p \in observed : p.e.n = i.n /\ p.e.action = "exit" /\ o.e.at < p.e.at /\ p.e.at < i.at)

\* The life of container n that instant t falls in, as the number of its starts.
LifeAt(n, t) == Cardinality({s \in ToSet(starts[n]) : s <= t})

\* The Transcript of an exit whose container failed in its life before too, and
\* that failure is still held, is of the life that ended and of no other - no
\* matter how few rows are listed.
QuotesOneLife ==
  \A i, p \in Held : \A limit \in 1..PerService :
    (/\ i.kind = "exited" /\ p.kind = "exited" /\ i.n = p.n
     /\ LifeAt(p.n, p.at) + 1 = LifeAt(i.n, i.at)
     /\ i \in Listed(Held, limit))
    => \A t \in QuotedStarts(i, Held, limit) : LifeAt(i.n, t) = LifeAt(i.n, i.at)
=============================================================================
