----------------------------- MODULE Exchanges -----------------------------
(***************************************************************************)
(* The Inspection hop (internal/inspect): requests are registered before    *)
(* they are answered and completed after, the page they served reports       *)
(* against them in between or long after, and the store that holds both      *)
(* halves evicts by size.  Traefik logs every request too, and `proximo      *)
(* errors` reads both sources (internal/cli/errors.go).                      *)
(*                                                                          *)
(* A request goes to a container behind the hop (inspected) or to one        *)
(* Traefik serves directly.  Ids and instants are integers.  Traefik, the    *)
(* containers and the browser are external.  Sizes are in units of 256 bytes.*)
(***************************************************************************)
EXTENDS CSP, Transcript

CONSTANTS
  budget,       \* NewStore's
  maxReports,   \* Client reports one Exchange keeps
  exchangeSize, \* what size() charges for an Exchange on its own
  ReportSizes,  \* what it charges for a report
  SnapshotSize, \* and for a DOM Snapshot
  Headers,      \* the Content-Security-Policy headers projects send
  limit,        \* bytes one Transcript quotes
  MaxRequests, MaxReports, MaxTime,   \* bounds on requests, reports and the clock
  MaxFaults     \* bound on restarts, aborts and recreated containers

ASSUME ExchangesAssumption ==
  /\ budget \in Nat /\ maxReports \in Nat \ {0} /\ exchangeSize \in Nat /\ SnapshotSize \in Nat \ {0}
  /\ ReportSizes \subseteq Nat
  /\ \A h \in Headers : DOMAIN h = 1..Len(h) /\ \A i \in DOMAIN h : IsPolicy(h[i])
  /\ {MaxRequests, MaxReports, MaxTime, MaxFaults} \subseteq Nat

Inspected == "web"
Direct    == "api"
Hop       == "inspector"
Containers == {Inspected, Direct}
NoPage == [nonce |-> {}, policies |-> <<>>]   \* an answer without the agent in it

VARIABLES
  now,      \* the clock
  up,       \* the hop is running
  items,    \* the store's items, oldest first
  used,     \* its byte count
  flight,   \* requests inside the hop: id -> what ServeHTTP holds (state)
  pages,    \* ids whose page runs in a browser with the agent in it
  log,      \* Traefik's access log
  output,   \* container -> [born, lines]: the one that has the name
  accepted, outcome,   \* history, per id: reports Attach took, what was completed
  next, reports, faults  \* how much of the bounds is used

store   == <<items, used>>
project == <<output>>
history == <<accepted, outcome>>
vars    == <<now, up, store, flight, pages, log, project, history, next, reports, faults>>

Ids == 1..MaxRequests
Unfinished == [status |-> -1, warned |-> FALSE]

-----------------------------------------------------------------------------
(***************************************************************************)
(* The store.                                                               *)
(***************************************************************************)
size(e) == exchangeSize + (IF e.dom THEN SnapshotSize ELSE 0) + FoldSeq(LAMBDA r, n : r.size + n, 0, e.reports)

Total(es) == FoldSeq(LAMBDA e, n : size(e) + n, 0, es)

ids == {items[i].id : i \in DOMAIN items}
Get(id) == CHOOSE i \in DOMAIN items : items[i].id = id

\* The store after one change, evicted: es are the items, n the bytes counted.
\* The newest is kept however big it is.
\* Slip: an Exchange gives back what it took when it was added.
EvictedLight(es, n) ==
  LET k == Min({i \in 0..(Len(es) - 1) : n - Total(SubSeq(es, 1, i)) <= budget} \cup {Len(es) - 1})
  IN  [items |-> SubSeq(es, k + 1, Len(es)), used |-> n - k * exchangeSize]

Evicted(es, n) ==
  LET fits == {i \in 0..(Len(es) - 1) : n - Total(SubSeq(es, 1, i)) <= budget}
      k    == Min(fits \cup {Len(es) - 1})
  IN  [items |-> SubSeq(es, k + 1, Len(es)), used |-> n - Total(SubSeq(es, 1, k))]

Becomes(s) == items' = s.items /\ used' = s.used

\* An Exchange changes in place, and the difference of its sizes is counted.
Changed(id, e) ==
  LET i == Get(id)
  IN  Evicted([items EXCEPT ![i] = e], used + size(e) - size(items[i]))

Add(e) == Becomes(Evicted(Append(items, e), used + size(e)))

\* Slip: a late Complete replaces the warnings and reports it found.
CompleteAfresh(id, st) ==
  IF id \notin ids THEN UNCHANGED store
  ELSE Becomes(Changed(id, [items[Get(id)] EXCEPT !.status = st.status, !.warned = st.warned,
                                                  !.reports = <<>>]))

Complete(id, st) ==
  IF id \notin ids THEN UNCHANGED store
  ELSE Becomes(Changed(id, [items[Get(id)] EXCEPT !.status = st.status, !.warned = st.warned,
                                                  !.took = now - items[Get(id)].at]))

\* Slip: a page may report for ever.
AttachUncapped(id, r, dom) ==
  IF id \notin ids THEN UNCHANGED store
  ELSE Becomes(Changed(id, [items[Get(id)] EXCEPT !.reports = Append(@, r), !.dom = @ \/ dom]))

Attach(id, r, dom) ==
  IF id \notin ids THEN UNCHANGED store
  ELSE LET e == items[Get(id)]
       IN  Becomes(IF Len(e.reports) >= maxReports
                   THEN [items |-> [items EXCEPT ![Get(id)].suppressed = @ + 1], used |-> used]
                   ELSE Changed(id, [e EXCEPT !.reports = Append(@, r), !.dom = @ \/ dom]))

-----------------------------------------------------------------------------
(***************************************************************************)
(* Requests.                                                                *)
(***************************************************************************)
Tick == now < MaxTime /\ now' = now + 1

Fault == faults < MaxFaults /\ faults' = faults + 1

\* What Traefik logs when a request ends; done is when it did.
Logged(id, at, host, status, backend, done) ==
  log' = log \cup {[id |-> id, at |-> at, host |-> host, status |-> status, backend |-> backend,
                    took |-> done - at, done |-> done]}

\* A container writes a line.
Writes(c) ==
  output' = [output EXCEPT ![c].lines = Append(@, [at |-> now', len |-> 1, of |-> output[c].born])]

\* A request to a container Traefik serves itself.
Serve(status) ==
  /\ Tick /\ next < MaxRequests /\ next' = next + 1
  /\ Writes(Direct)
  /\ Logged(next', now', Direct, status, Direct, now')
  /\ UNCHANGED <<up, store, flight, pages, history, reports, faults>>

\* ServeHTTP, up to the proxy: the Exchange is there before any answer.
Receive ==
  /\ up /\ Tick /\ next < MaxRequests /\ next' = next + 1
  /\ Add([id |-> next', at |-> now', host |-> Inspected, backend |-> Inspected, status |-> 0,
          took |-> 0, warned |-> FALSE, reports |-> <<>>, suppressed |-> 0, dom |-> FALSE])
  /\ flight' = [flight EXCEPT ![next'] = {[at |-> now', status |-> 0, warned |-> FALSE, sent |-> 0, page |-> NoPage]}]
  /\ UNCHANGED <<up, pages, log, project, history, reports, faults>>

Open(id)     == \E st \in flight[id] : st.sent = 0
Answered(id) == \E st \in flight[id] : st.sent # 0
State(id)    == CHOOSE st \in flight[id] : TRUE

\* The response of the backend: what modifyResponse notes of it (status,
\* warned), and what goes out (sent, and the header and tag of a page).
Note(id, status, warned, sent, page) ==
  /\ Open(id)
  /\ flight' = [flight EXCEPT ![id] = {[at |-> State(id).at, status |-> status, warned |-> warned,
                                        sent |-> sent, page |-> page]}]
  /\ UNCHANGED <<up, store, log, history, next, reports>>

\* An HTML page: its policy is reconciled and the agent injected.
InjectAgent(id, h) ==
  LET r == reconcileCSP(h)
  IN  /\ Tick
      /\ Note(id, 200, r.warned, 200, [nonce |-> r.nonce, policies |-> r.policies])
      /\ pages' = pages \cup {id}
      /\ Writes(Inspected)
      /\ UNCHANGED faults

\* Anything else the backend answers: not HTML or not 2xx, or HTML that cannot
\* be injected into, which is a warning.
PassThrough(id, status) ==
  /\ Tick
  /\ \E warned \in BOOLEAN :
       /\ warned => status = 200
       /\ Note(id, status, warned, status, NoPage)
  /\ Writes(Inspected)
  /\ UNCHANGED <<pages, faults>>

\* The backend cannot be reached, or breaks off a page that is being read: the
\* ErrorHandler answers, and the state keeps what modifyResponse had noted.
BadGateway(id, status) ==
  /\ Note(id, status, FALSE, 502, NoPage)
  /\ UNCHANGED <<now, pages, project, faults>>

\* ServeHTTP, after the proxy.
Finish(id) ==
  /\ Answered(id)
  /\ Complete(id, State(id))
  /\ outcome' = [outcome EXCEPT ![id] = [status |-> State(id).status, warned |-> State(id).warned]]
  /\ Logged(id, State(id).at, Inspected, State(id).sent, Hop, now)
  /\ flight' = [flight EXCEPT ![id] = {}]
  /\ UNCHANGED <<now, up, pages, project, accepted, next, reports, faults>>

\* The copy to the browser fails and the handler is aborted: nothing completes.
Abort(id) ==
  /\ Answered(id) /\ Fault
  /\ Logged(id, State(id).at, Inspected, State(id).sent, Hop, now)
  /\ flight' = [flight EXCEPT ![id] = {}]
  /\ UNCHANGED <<now, up, store, pages, project, history, next, reports>>

\* ingest: a page reports, whatever became of its Exchange.
Ingest(id, n, dom) ==
  /\ id \in pages /\ up
  /\ reports < MaxReports /\ reports' = reports + 1
  /\ Tick
  /\ Attach(id, [at |-> now', size |-> n], dom)
  /\ accepted' = [accepted EXCEPT ![id] = IF id \in ids THEN @ + 1 ELSE @]
  /\ UNCHANGED <<up, flight, pages, log, project, outcome, next, faults>>

\* The hop stops: what it held is gone, and Traefik answers for it.
HopStops ==
  /\ up /\ Fault
  /\ up' = FALSE
  /\ items' = <<>> /\ used' = 0
  /\ flight' = [id \in Ids |-> {}]
  /\ log' = log \cup {[id |-> id, at |-> State(id).at, host |-> Inspected, status |-> 502, backend |-> Hop,
                       took |-> now - State(id).at, done |-> now] : id \in {i \in Ids : flight[i] # {}}}
  /\ UNCHANGED <<now, pages, project, history, next, reports>>

HopStarts ==
  /\ ~up /\ up' = TRUE
  /\ UNCHANGED <<now, store, flight, pages, log, project, history, next, reports, faults>>

\* A request to an inspected route while the hop is down.
Refuse ==
  /\ ~up /\ Tick /\ next < MaxRequests /\ next' = next + 1
  /\ Logged(next', now', Inspected, 502, Hop, now')
  /\ UNCHANGED <<up, store, flight, pages, project, history, reports, faults>>

\* A container is recreated under its name; its output goes with the old one.
Recreate(c) ==
  /\ Tick /\ Fault
  /\ output' = [output EXCEPT ![c] = [born |-> now', lines |-> <<[at |-> now', len |-> 1, of |-> now']>>]]
  /\ UNCHANGED <<up, store, flight, pages, log, history, next, reports>>

Init ==
  /\ now = 0 /\ up = TRUE /\ items = <<>> /\ used = 0
  /\ flight = [id \in Ids |-> {}] /\ pages = {} /\ log = {}
  /\ output = [c \in Containers |-> [born |-> 0, lines |-> <<>>]]
  /\ accepted = [id \in Ids |-> 0] /\ outcome = [id \in Ids |-> Unfinished]
  /\ next = 0 /\ reports = 0 /\ faults = 0

Next ==
  \/ \E status \in {200, 500} : Serve(status)
  \/ Receive \/ Refuse \/ HopStops \/ HopStarts
  \/ \E id \in Ids :
       \/ \E h \in Headers : InjectAgent(id, h)
       \/ \E status \in {200, 500} : PassThrough(id, status)
       \/ \E status \in {0, 200} : BadGateway(id, status)
       \/ Finish(id) \/ Abort(id)
       \/ \E n \in ReportSizes, dom \in BOOLEAN : Ingest(id, n, dom)
  \/ \E c \in Containers : Recreate(c)

Spec == Init /\ [][Next]_vars

-----------------------------------------------------------------------------
(***************************************************************************)
(* The reader: `proximo errors`.                                            *)
(***************************************************************************)
Interesting(e) == e.reports # <<>> \/ e.warned \/ e.status >= 400

\* When something last happened on an Exchange.
\* Slip: when it was requested.
ActivityAt(e) == e.at

Activity(e) == Max({e.at} \cup {e.reports[i].at : i \in DOMAIN e.reports})

Select(all, since, onlyProblems) ==
  {e \in all : Activity(e) >= since /\ (onlyProblems => Interesting(e))}

\* Access: what Traefik logged since then, as Exchanges.
Access(since) ==
  {[id |-> r.id, at |-> r.at, host |-> r.host, backend |-> r.backend, status |-> r.status, took |-> r.took,
    warned |-> FALSE, reports |-> <<>>, suppressed |-> 0, dom |-> FALSE] : r \in {x \in log : x.done >= since}}

\* The hop is asked for everything its window holds; not up, it has nothing.
hopExchanges(since) ==
  IF up THEN Select(ToSet(items), since, FALSE) ELSE {}

servedByTheStack(backend) == backend = Hop

Merge(logged, inspected) == {e \in logged : ~servedByTheStack(e.backend)} \cup inspected

Window(since) == Merge(Access(since), hopExchanges(since))

Listing(since) == Select(Window(since), since, TRUE)

\* The Transcript of an Exchange.
Quoted(e) == quote(e, {output[c] : c \in Containers \cap {e.backend}}, limit)

-----------------------------------------------------------------------------
(***************************************************************************)
(* Properties.                                                              *)
(***************************************************************************)
TypeOK ==
  /\ now \in 0..MaxTime /\ up \in BOOLEAN /\ used \in Nat
  /\ \A i \in DOMAIN items : Len(items[i].reports) <= maxReports /\ items[i].id \in Ids
  /\ \A i, j \in DOMAIN items : i < j => items[i].id < items[j].id
  /\ pages \subseteq Ids /\ next \in 0..MaxRequests
  /\ \A id \in Ids : Cardinality(flight[id]) <= 1

\* However adds, completions and reports interleave with evictions: the byte
\* count is that of what is held, it is over the budget only for one Exchange on
\* its own, and the store always holds something as new as any open request.
WithinBudget == used <= budget \/ Len(items) = 1

NewestHeld == \A id \in Ids : flight[id] # {} => items # <<>> /\ items[Len(items)].id >= id

Accounted == used = Total(items) /\ WithinBudget /\ NewestHeld

\* An Exchange that is held carries everything both of its halves said, whichever
\* came first: a page may report before its request completes.
HalvesJoined ==
  \A i \in DOMAIN items :
    LET e == items[i]
    IN  /\ Len(e.reports) + e.suppressed = accepted[e.id]
        /\ outcome[e.id] # Unfinished =>
             e.status = outcome[e.id].status /\ e.warned = outcome[e.id].warned
        /\ outcome[e.id] = Unfinished => e.status = 0 /\ ~e.warned

\* A page that reported within the window is listed while its Exchange is held,
\* once, however long ago it was requested: three narrowings in a row must agree.
RecentReportListed ==
  \A i \in DOMAIN items, since \in 1..now :
    (up /\ \E j \in DOMAIN items[i].reports : items[i].reports[j].at >= since) =>
      Cardinality({e \in Listing(since) : e.id = items[i].id}) = 1

\* A Transcript of a request quotes no container that took the name a second or
\* more after it; one that was there is quoted from the first to the last line of
\* the window, and the lines left out are counted.  A container recreated within
\* the second of a request it did not serve is quoted (read.go:228-231).
TranscriptFaithful ==
  \A e \in Window(0) :
    LET t     == Quoted(e)
        c     == output[e.backend]
        lines == InWindow(c.lines, From(e), To(e))
        shown == t.head \o t.tail
    IN  /\ \A i \in DOMAIN shown : shown[i].of < e.at + Second
        /\ c.born <= e.at => Len(shown) + t.dropped = Len(lines)
        /\ (c.born <= e.at /\ lines # <<>>) =>
             shown[1] = lines[1] /\ shown[Len(shown)] = lines[Len(lines)]
        /\ t.dropped > 0 => t.head # <<>> /\ t.tail # <<>>

\* Every page sent with the agent in it lets the agent load and report.
AgentAdmitted ==
  \A id \in Ids : \A st \in flight[id] : Admits(st.page.policies, st.page.nonce)

\* cli/errors.go:51-53, what `proximo errors` shows by default: what went wrong,
\* a failing status among it.  Every request that was answered with one is there.
FailuresListed == \A r \in log : r.status >= 400 => \E e \in Listing(0) : e.id = r.id
=============================================================================
