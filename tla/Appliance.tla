----------------------------- MODULE Appliance -----------------------------
(***************************************************************************)
(* One HomeConnectAppliance (hc_appliance.py) together with the worker     *)
(* thread that runs all of its handlers (hc_events.Scheduler).             *)
(*                                                                         *)
(* The appliance caches the reachability of one physical appliance and     *)
(* owns the re-read queue: an ordered pass of 3 or 5 GETs that refreshes   *)
(* the cache after a reconnect, is skipped while the last pass is fresh,   *)
(* backs off on errors, parks after too many of them, and is re-probed     *)
(* slowly while parked.  Stream START and STOP are synthetic events; a     *)
(* STOP is turned into a disconnection by a job that a later START or STOP *)
(* supersedes through a generation number.                                 *)
(*                                                                         *)
(* Every handler runs on the one worker thread, so a handler is one        *)
(* action, except _run_read: it performs one network request per loop      *)
(* iteration, and during each of them time passes and the other threads    *)
(* post jobs.  Its loop is therefore one action per iteration.             *)
(*                                                                         *)
(* Time is relative: a job carries the ticks left until it is due, `age'   *)
(* is the time since the last completed pass, and Tick moves both.         *)
(***************************************************************************)
EXTENDS Integers, Sequences

CONSTANTS
    PassLength,     \* GETs in one full re-read: 3, or 5 with programs
    Grace,          \* DISCONNECT_DELAY
    MinDelay,       \* READ_MIN_DELAY
    MaxDelay,       \* READ_MAX_DELAY
    FreshWindow,    \* READ_FRESH_WINDOW
    GiveUpAfter,    \* READ_GIVE_UP_AFTER
    ParkedRetry,    \* READ_PARKED_RETRY
    GateWaits,      \* waits a 429 may impose on the shared request gate
    RetryWait,      \* MAX_429_RETRY_WAIT: the longest a GET waits to be resent
    Answers,        \* what a GET of this instance may come back with
    MaxEvents,      \* bound on the environment's actions
    None            \* Python's None

\* "full": the answer carries what the GET asks for; "bare": the details of
\* the appliance without its "connected" field; "error": a HomeConnectError;
\* "raise": any other exception (a body that parses but has another shape).
AnswerKinds == {"full", "bare", "error", "raise"}

ASSUME ConstantsOK ==
    /\ PassLength \in Nat \ {0}
    /\ Grace \in Nat
    /\ MinDelay \in Nat \ {0}
    /\ MaxDelay \in Nat \ {0}
    /\ FreshWindow \in Nat \ {0}
    /\ GiveUpAfter \in Nat \ {0}
    /\ ParkedRetry \in Nat
    /\ GateWaits \subseteq Nat \ {0}
    /\ RetryWait \in Nat
    /\ Answers \subseteq AnswerKinds
    /\ MaxEvents \in Nat
    /\ None \notin Int

VARIABLES
    app,        \* the fields of the HomeConnectAppliance object
    gen,        \* its _disconnect_gen
    jobs,       \* the scheduler's heap, in the order it will be popped
    worker,     \* "idle": between jobs; in the loop of _run_read "loop":
                \* at its top or at the request gate, "wire": in a GET
    known,      \* the coordinator's registry still holds the appliance
    gate,       \* what gate_wait_remaining() returns
    aborted,    \* the API client was aborted; its requests raise
    streamUp,   \* the SSE stream is open
    reachable,  \* the cloud sees the appliance online
    lastStream, \* history: the last stream event the worker handled
    events      \* environment actions taken so far

vars == <<app, gen, jobs, worker, known, gate, aborted, streamUp,
          reachable, lastStream, events>>

StreamEvents == {"start", "stop", "stopError"}
WireEvents == {"connected", "disconnected", "paired", "depaired"}
OwnJobs == {"read", "probe", "disconnect"}
Kinds == StreamEvents \cup WireEvents \cup OwnJobs

Jobs == [kind : Kinds, gen : Nat, left : Nat]
Job(kind, g, delay) == [kind |-> kind, gen |-> g, left |-> delay]

Appliances ==
    [connected : BOOLEAN,       \* _state[CONNECTED]
     actions : 0 .. PassLength \cup {None}, \* how many of _read_actions are left
     scheduled : BOOLEAN,       \* _read_scheduled
     parked : BOOLEAN,          \* _read_parked
     failures : Nat,            \* _read_failures
     delay : Nat,               \* _read_delay
     age : 0 .. FreshWindow]    \* since _last_read_complete; FreshWindow: stale or never

----------------------------------------------------------------------------
(* The scheduler: a heap ordered by deadline, then by order of posting.    *)

InsertAt(s, p, j) ==
    [i \in 1 .. (Len(s) + 1) |-> IF i < p THEN s[i]
                                 ELSE IF i = p THEN j
                                 ELSE s[i - 1]]

\* Mutant of Posted: no sequence number, a job overtakes one due as early.
PostedLifo(s, j) ==
    {InsertAt(s, p, j) : p \in {q \in 1 .. (Len(s) + 1) :
        /\ \A i \in 1 .. (q - 1) : s[i].left < j.left
        /\ \A i \in q .. Len(s) : s[i].left >= j.left}}

\* The heaps after a post: the one position behind every job due no later.
Posted(s, j) ==
    {InsertAt(s, p, j) : p \in {q \in 1 .. (Len(s) + 1) :
        /\ \A i \in 1 .. (q - 1) : s[i].left <= j.left
        /\ \A i \in q .. Len(s) : s[i].left > j.left}}

Pending(s, kind) == \E i \in 1 .. Len(s) : s[i].kind = kind

\* The worker is free and the earliest job is due and of this kind.
Due(kind) ==
    /\ worker = "idle"
    /\ Len(jobs) > 0
    /\ jobs[1].kind = kind
    /\ jobs[1].left = 0
----------------------------------------------------------------------------
(* The re-read queue and the connection flag.                              *)

\* Mutant of Unpark: the failures so far still count.
UnparkKeepsFailures(a) == [a EXCEPT !.parked = FALSE, !.delay = 0]

\* A clean slate for a queue that is to try again.
Unpark(a) == [a EXCEPT !.parked = FALSE, !.failures = 0, !.delay = 0]

\* _schedule_read.  A forced read unparks; one that is not forced is skipped
\* while parked or fresh; none replaces a pass that is pending or running.
ScheduleRead(a, force) ==
    LET b == IF a.parked /\ force THEN Unpark(a) ELSE a
    IN  IF \/ b.parked
           \/ ~force /\ b.age < FreshWindow
           \/ b.actions # None
        THEN b
        ELSE [b EXCEPT !.actions = PassLength, !.scheduled = TRUE]

\* Mutant of SetConnected: a disconnection keeps the reads that are pending.
SetConnectedKeepsReads(a, value) ==
    IF ~value
    THEN [a EXCEPT !.connected = FALSE]
    ELSE ScheduleRead(IF a.connected THEN a
                      ELSE [Unpark(a) EXCEPT !.connected = TRUE], FALSE)

\* _set_connected.  False abandons the pass; a transition to True unparks.
SetConnected(a, value) ==
    IF ~value
    THEN [a EXCEPT !.connected = FALSE, !.actions = None]
    ELSE ScheduleRead(IF a.connected THEN a
                      ELSE [Unpark(a) EXCEPT !.connected = TRUE], FALSE)

\* Mutant of Handled: a new pass posts its job without a look at _read_scheduled.
HandledPostsAgain(a) ==
    /\ app' = a
    /\ jobs' \in IF a.actions # None /\ app.actions = None
                 THEN Posted(Tail(jobs), Job("read", 0, 0))
                 ELSE {Tail(jobs)}

\* The first job is done: the appliance is now `a', and if the handler set
\* _read_scheduled it also posted _run_read.
Handled(a) ==
    /\ app' = a
    /\ jobs' \in IF a.scheduled /\ ~app.scheduled
                 THEN Posted(Tail(jobs), Job("read", 0, 0))
                 ELSE {Tail(jobs)}

----------------------------------------------------------------------------
(* Routed events.                                                          *)

\* Mutant of OnStreamStart: the pending disconnect is not superseded.
OnStreamStartKeepsGen ==
    /\ Due("start") /\ known
    /\ lastStream' = "start"
    /\ Handled(ScheduleRead(app, FALSE))
    /\ UNCHANGED <<gen, worker, known, gate, aborted, streamUp, reachable, events>>

OnStreamStart ==
    /\ Due("start") /\ known
    /\ gen' = gen + 1
    /\ lastStream' = "start"
    /\ Handled(ScheduleRead(app, FALSE))
    /\ UNCHANGED <<worker, known, gate, aborted, streamUp, reachable, events>>

\* A STOP with an error disconnects at once, one without after the grace.
OnStreamStop ==
    /\ \E kind \in {"stop", "stopError"} :
        /\ Due(kind) /\ known
        /\ jobs' \in Posted(Tail(jobs),
               Job("disconnect", gen + 1, IF kind = "stopError" THEN 0 ELSE Grace))
    /\ gen' = gen + 1
    /\ lastStream' = "stop"
    /\ UNCHANGED <<app, worker, known, gate, aborted, streamUp, reachable, events>>

MaybeDisconnect ==
    /\ Due("disconnect")
    /\ Handled(IF jobs[1].gen = gen THEN SetConnected(app, FALSE) ELSE app)
    /\ UNCHANGED <<gen, worker, known, gate, aborted, streamUp, reachable,
                   lastStream, events>>

OnConnected ==
    /\ Due("connected") /\ known
    /\ Handled(SetConnected(app, TRUE))
    /\ UNCHANGED <<gen, worker, known, gate, aborted, streamUp, reachable,
                   lastStream, events>>

OnDisconnected ==
    /\ Due("disconnected") /\ known
    /\ Handled(SetConnected(app, FALSE))
    /\ UNCHANGED <<gen, worker, known, gate, aborted, streamUp, reachable,
                   lastStream, events>>

OnPaired ==
    /\ Due("paired") /\ known
    /\ Handled(ScheduleRead(app, TRUE))
    /\ UNCHANGED <<gen, worker, known, gate, aborted, streamUp, reachable,
                   lastStream, events>>

\* Mutant of RemoveAppliance: it forgets on_disconnected().
RemoveApplianceOnly ==
    /\ Due("depaired") /\ known
    /\ known' = FALSE
    /\ Handled(app)
    /\ UNCHANGED <<gen, worker, gate, aborted, streamUp, reachable, lastStream, events>>

\* _remove_appliance: out of the registry, then on_disconnected().
RemoveAppliance ==
    /\ Due("depaired") /\ known
    /\ known' = FALSE
    /\ Handled(SetConnected(app, FALSE))
    /\ UNCHANGED <<gen, worker, gate, aborted, streamUp, reachable, lastStream, events>>

\* Events for an appliance that is no longer registered do not reach it.
RouteUnknown ==
    /\ ~known
    /\ \E kind \in StreamEvents \cup WireEvents : Due(kind)
    /\ Handled(app)
    /\ UNCHANGED <<gen, worker, known, gate, aborted, streamUp, reachable,
                   lastStream, events>>

----------------------------------------------------------------------------
(* _run_read.                                                              *)

Lower(m, n) == IF m < n THEN m ELSE n

\* The request gate is closed: try again one tick after it opens.
DeferRead ==
    /\ Due("read") /\ gate > 0 /\ app.actions # None
    /\ jobs' \in Posted(Tail(jobs), Job("read", 0, Lower(gate + 1, MaxDelay)))
    /\ UNCHANGED <<app, gen, worker, known, gate, aborted, streamUp, reachable,
                   lastStream, events>>

\* The gate is closed and the pass was abandoned while the job was queued.
DropDeferredRead ==
    /\ Due("read") /\ gate > 0 /\ app.actions = None
    /\ app' = [app EXCEPT !.scheduled = FALSE]
    /\ jobs' = Tail(jobs)
    /\ UNCHANGED <<gen, worker, known, gate, aborted, streamUp, reachable,
                   lastStream, events>>

BeginRead ==
    /\ Due("read") /\ gate = 0
    /\ worker' = "loop"
    /\ jobs' = Tail(jobs)
    /\ UNCHANGED <<app, gen, known, gate, aborted, streamUp, reachable,
                   lastStream, events>>

\* Mutant of EndRead: an abandoned pass counts as a completed one.
EndReadAbandoned ==
    /\ worker = "loop" /\ app.actions \in {None, 0}
    /\ worker' = "idle"
    /\ app' = [app EXCEPT !.actions = None, !.scheduled = FALSE,
                          !.age = 0, !.failures = 0]
    /\ UNCHANGED <<gen, jobs, known, gate, aborted, streamUp, reachable,
                   lastStream, events>>

\* Finished or abandoned: only a finished pass is remembered as fresh.  (The
\* code then sets `connected' again if it was set and no longer is; both are
\* read on the thread that alone writes it, so that changes nothing.)
EndRead ==
    /\ worker = "loop" /\ app.actions \in {None, 0}
    /\ worker' = "idle"
    /\ app' = LET done == [app EXCEPT !.actions = None, !.scheduled = FALSE]
              IN  IF app.actions = 0
                  THEN [done EXCEPT !.age = 0, !.failures = 0]
                  ELSE done
    /\ UNCHANGED <<gen, jobs, known, gate, aborted, streamUp, reachable,
                   lastStream, events>>

ReadsLeft == app.actions \notin {None, 0}

\* The GET passes the shared request gate; until then the worker blocks there.
SendGet ==
    /\ worker = "loop" /\ ReadsLeft
    /\ gate = 0
    /\ worker' = "wire"
    /\ UNCHANGED <<app, gen, jobs, known, gate, aborted, streamUp, reachable,
                   lastStream, events>>

\* A GET is answered.  The first one of a pass reads the appliance itself and
\* may turn `connected' either way; a disconnection there abandons the pass.
GetAnswered ==
    /\ worker = "wire"
    /\ worker' = "loop"
    /\ \E answer \in Answers \cap {"full", "bare"} :
        LET a == IF app.actions = PassLength /\ answer = "full"
                 THEN SetConnected(app, reachable) ELSE app
        IN  app' = [a EXCEPT !.delay = 0,
                             !.actions = IF @ \in {None, 0} THEN @ ELSE @ - 1]
    /\ UNCHANGED <<gen, jobs, known, gate, aborted, streamUp, reachable,
                   lastStream, events>>

\* An aborted client gives up the wait at the gate and between two attempts
\* at a GET that fails, and nowhere else.
ReadAborted ==
    /\ aborted
    /\ \/ worker = "loop" /\ ReadsLeft /\ gate > 0
       \/ worker = "wire" /\ "error" \in Answers
    /\ worker' = "idle"
    /\ app' = [app EXCEPT !.actions = None, !.scheduled = FALSE]
    /\ UNCHANGED <<gen, jobs, known, gate, aborted, streamUp, reachable,
                   lastStream, events>>

ReadFails == worker = "wire" /\ "error" \in Answers

\* _on_read_error while disconnected: the pass is dropped.
DropFailedRead ==
    /\ ReadFails /\ ~app.connected
    /\ worker' = "idle"
    /\ app' = [app EXCEPT !.actions = None, !.scheduled = FALSE]
    /\ UNCHANGED <<gen, jobs, known, gate, aborted, streamUp, reachable,
                   lastStream, events>>

\* Mutant of ParkReads: parked without a probe.
ParkReadsForever ==
    /\ ReadFails /\ app.connected /\ app.failures + 1 >= GiveUpAfter
    /\ worker' = "idle"
    /\ app' = [app EXCEPT !.failures = @ + 1, !.parked = TRUE,
                          !.actions = None, !.scheduled = FALSE]
    /\ UNCHANGED <<gen, jobs, known, gate, aborted, streamUp, reachable,
                   lastStream, events>>

\* _on_read_error, too many failures in a row: park and probe much later.
ParkReads ==
    /\ ReadFails /\ app.connected /\ app.failures + 1 >= GiveUpAfter
    /\ worker' = "idle"
    /\ app' = [app EXCEPT !.failures = @ + 1, !.parked = TRUE,
                          !.actions = None, !.scheduled = FALSE]
    /\ jobs' \in Posted(jobs, Job("probe", 0, ParkedRetry))
    /\ UNCHANGED <<gen, known, gate, aborted, streamUp, reachable,
                   lastStream, events>>

Backoff(delay) == Lower(IF delay = 0 THEN MinDelay ELSE 2 * delay, MaxDelay)

\* Mutant of BackOffRead: the retry is never posted.
BackOffReadUnposted ==
    /\ ReadFails /\ app.connected /\ app.failures + 1 < GiveUpAfter
    /\ worker' = "idle"
    /\ app' = [app EXCEPT !.failures = @ + 1, !.delay = Backoff(@)]
    /\ UNCHANGED <<gen, jobs, known, gate, aborted, streamUp, reachable,
                   lastStream, events>>

\* _on_read_error, otherwise: retry the same GET after the backoff.
BackOffRead ==
    /\ ReadFails /\ app.connected /\ app.failures + 1 < GiveUpAfter
    /\ worker' = "idle"
    /\ app' = [app EXCEPT !.failures = @ + 1, !.delay = Backoff(@)]
    /\ jobs' \in Posted(jobs, Job("read", 0, Backoff(app.delay)))
    /\ UNCHANGED <<gen, known, gate, aborted, streamUp, reachable,
                   lastStream, events>>

\* Any other exception leaves _run_read; _safe_run logs it and goes on.
ReadRaises ==
    /\ worker = "wire" /\ "raise" \in Answers
    /\ worker' = "idle"
    /\ UNCHANGED <<app, gen, jobs, known, gate, aborted, streamUp, reachable,
                   lastStream, events>>

\* Mutant of ParkedProbe: the probe does not force the read.
ParkedProbeUnforced ==
    /\ Due("probe")
    /\ Handled(IF app.parked /\ app.connected THEN ScheduleRead(app, FALSE) ELSE app)
    /\ UNCHANGED <<gen, worker, known, gate, aborted, streamUp, reachable,
                   lastStream, events>>

\* _parked_probe: a forced pass, unless the appliance is offline or unparked.
ParkedProbe ==
    /\ Due("probe")
    /\ Handled(IF app.parked /\ app.connected THEN ScheduleRead(app, TRUE) ELSE app)
    /\ UNCHANGED <<gen, worker, known, gate, aborted, streamUp, reachable,
                   lastStream, events>>

----------------------------------------------------------------------------
(* The environment: the reader thread that posts events, the cloud, the    *)
(* other users of the request gate, and time.                              *)

Post(kind) == jobs' \in Posted(jobs, Job(kind, 0, 0))

StreamOpens ==
    /\ ~streamUp /\ events < MaxEvents
    /\ streamUp' = TRUE
    /\ events' = events + 1
    /\ Post("start")
    /\ UNCHANGED <<app, gen, worker, known, gate, aborted, reachable, lastStream>>

\* The stream ends, or an attempt to open it fails (with an error): a STOP.
StreamEnds ==
    /\ events < MaxEvents
    /\ streamUp' = FALSE
    /\ events' = events + 1
    /\ \/ streamUp /\ Post("stop")
       \/ Post("stopError")
    /\ UNCHANGED <<app, gen, worker, known, gate, aborted, reachable, lastStream>>

\* The appliance goes on or off line; the event is lost while no stream is up.
CloudReports(value) ==
    /\ events < MaxEvents
    /\ reachable' = value
    /\ events' = events + 1
    /\ IF streamUp THEN Post(IF value THEN "connected" ELSE "disconnected")
                   ELSE jobs' = jobs
    /\ UNCHANGED <<app, gen, worker, known, gate, aborted, streamUp, lastStream>>

\* PAIRED; DEPAIRED, which discovery also infers from the account's list.
PairingChanges ==
    /\ events < MaxEvents
    /\ events' = events + 1
    /\ \/ streamUp /\ Post("paired")
       \/ Post("depaired")
    /\ UNCHANGED <<app, gen, worker, known, gate, aborted, streamUp, reachable, lastStream>>

Higher(m, n) == IF m < n THEN n ELSE m

\* A request is answered 429 with a Retry-After: one of another thread, or the
\* GET on the wire, which goes back to the gate if the wait there is short and
\* otherwise fails.
GateCloses ==
    /\ events < MaxEvents
    /\ events' = events + 1
    /\ \E wait \in GateWaits : gate' = Higher(gate, wait)
    /\ \/ worker' = worker
       \/ worker = "wire" /\ gate' <= RetryWait /\ worker' = "loop"
    /\ UNCHANGED <<app, gen, jobs, known, aborted, streamUp, reachable, lastStream>>

ClientAborts ==
    /\ ~aborted /\ events < MaxEvents
    /\ aborted' = TRUE
    /\ events' = events + 1
    /\ UNCHANGED <<app, gen, jobs, worker, known, gate, streamUp, reachable, lastStream>>

\* Mutant of Sooner: the wait that remains may be negative.
SoonerUnclamped(n) == n - 1

\* The wait that remains a tick later: none once it is over.
Sooner(n) == IF n > 0 THEN n - 1 ELSE 0
Ticked(s) == [i \in 1 .. Len(s) |-> [s[i] EXCEPT !.left = Sooner(@)]]

Tick ==
    /\ jobs' = Ticked(jobs)
    /\ app' = [app EXCEPT !.age = Lower(@ + 1, FreshWindow)]
    /\ gate' = Sooner(gate)
    /\ UNCHANGED <<gen, worker, known, aborted, streamUp, reachable, lastStream, events>>

----------------------------------------------------------------------------
\* First discovery: the object is built from the listed info, then on_paired()
\* runs; the stream may or may not be up already.
Init ==
    /\ reachable \in BOOLEAN
    /\ app = [connected |-> reachable, actions |-> None, scheduled |-> FALSE,
              parked |-> FALSE, failures |-> 0, delay |-> 0, age |-> FreshWindow]
    /\ gen = 0
    /\ jobs = <<Job("paired", 0, 0)>>
    /\ worker = "idle"
    /\ known = TRUE
    /\ gate = 0
    /\ aborted = FALSE
    /\ streamUp \in BOOLEAN
    /\ lastStream = IF streamUp THEN "start" ELSE "stop"
    /\ events = 0

Route ==
    \/ OnStreamStart \/ OnStreamStop \/ OnConnected \/ OnDisconnected
    \/ OnPaired \/ RemoveAppliance \/ RouteUnknown

RunRead ==
    \/ DeferRead \/ DropDeferredRead \/ BeginRead \/ SendGet \/ EndRead
    \/ GetAnswered \/ ReadAborted \/ DropFailedRead \/ ParkReads
    \/ BackOffRead \/ ReadRaises

Work == Route \/ MaybeDisconnect \/ RunRead \/ ParkedProbe

Environment ==
    \/ StreamOpens \/ StreamEnds \/ PairingChanges \/ GateCloses \/ ClientAborts
    \/ \E value \in BOOLEAN : CloudReports(value)

Next == Work \/ Environment \/ Tick

Spec == Init /\ [][Next]_vars

\* The worker is a thread that never blocks for good (every request has a
\* timeout, and its 401 handler is taken to return: see TokenRefresh), and time
\* passes.
FairSpec == Spec /\ WF_vars(Work) /\ WF_vars(Tick)

----------------------------------------------------------------------------
(* Properties.                                                             *)

TypeOK ==
    /\ app \in Appliances
    /\ gen \in Nat
    /\ jobs \in Seq(Jobs)
    /\ worker \in {"idle", "loop", "wire"}
    /\ known \in BOOLEAN
    /\ gate \in Nat
    /\ aborted \in BOOLEAN
    /\ streamUp \in BOOLEAN
    /\ reachable \in BOOLEAN
    /\ lastStream \in {"start", "stop"}
    /\ events \in Nat

AtMostOne(s, kind) ==
    \A i, j \in 1 .. Len(s) : s[i].kind = kind /\ s[j].kind = kind => i = j

\* _read_scheduled is set exactly while one _run_read is posted or running, and
\* reads that are wanted always have one: no read is lost and no two passes
\* ever run side by side, whatever flaps, backoffs, deferrals and probes do.
ReadJobExact ==
    /\ app.scheduled <=> (worker # "idle" \/ Pending(jobs, "read"))
    /\ worker # "idle" => ~Pending(jobs, "read")
    /\ AtMostOne(jobs, "read")
    /\ app.actions # None => app.scheduled

\* A parked queue has stopped: nothing pending, nothing running; and the queue
\* parks exactly when the consecutive failures reach the limit, so that no
\* path leaves a failing appliance retried beyond it.
ParkedMeansGaveUp ==
    /\ app.parked <=> app.failures = GiveUpAfter
    /\ app.failures <= GiveUpAfter
    /\ app.parked => app.actions = None /\ ~app.scheduled

\* A parked queue of an appliance that is connected always has a probe posted
\* that will give it another chance.
ParkedOnlineIsProbed == app.parked /\ app.connected => Pending(jobs, "probe")

\* An appliance that left the registry stays disconnected and wants no reads:
\* no job posted before its removal revives it.
RemovedStaysQuiet == ~known => ~app.connected /\ app.actions = None

\* Beyond the first GET of a pass, which establishes reachability, a pass goes
\* on only for a connected appliance: a disconnection abandons it wherever it
\* is (running, deferred at the gate, or backing off).  It takes answers that
\* carry "connected", as the API's do.
LaterReadsOnline == app.actions \in 0 .. (PassLength - 1) => app.connected

\* The freshness window, which lets reconnects skip their re-read, opens only
\* for an appliance that is connected: were it opened by a pass a
\* disconnection cut short, the next reconnect would keep the stale state.
FreshOnlyOnline == [][app'.age < app.age => app'.connected]_vars

\* A STOP disconnects only if no START was handled since: a stream that came
\* back in time keeps the appliance connected whatever jobs are still queued.
StartSupersedesStop ==
    [][MaybeDisconnect /\ app' # app => lastStream = "stop"]_vars

\* The worker sees stream events in the order in which the reader posted them:
\* when none is queued, the last one it handled is the stream's present state.
RoutedInOrder ==
    known /\ (\A kind \in StreamEvents : ~Pending(jobs, kind))
        => (lastStream = "start" <=> streamUp)

\* A re-read that was scheduled comes to an end: completed, parked or dropped,
\* if the 401 handlers of its GETs return.
ReadsSettle == app.scheduled ~> ~app.scheduled

\* A parked queue of a connected appliance gets another chance.
ParkedHeals == app.parked /\ app.connected ~> ~(app.parked /\ app.connected)

\* The flag follows the cloud: with the stream up and the appliance reachable
\* for good, the appliance is shown as connected.  README.md:145 defines the
\* state as "Appliance reachable on the Home Connect cloud".
ReachableIsConnected ==
    <>[](reachable /\ streamUp /\ known /\ ~aborted) => []<>app.connected

=============================================================================
