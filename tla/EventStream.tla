---------------------------- MODULE EventStream ----------------------------
(***************************************************************************)
(* The reader thread of the event stream (hc_events.EventStream.run) with  *)
(* the thread that stops it (HomeConnectCoordinator.stop), the request     *)
(* gate it shares with every other request, and the cloud.                 *)
(*                                                                         *)
(* The reader opens the stream, registers it where stop() can close it,    *)
(* dispatches START, the wire events, and a STOP however the stream ended, *)
(* and waits before the next attempt: a doubling backoff, escalated after  *)
(* too many attempts in a row that did not last.  A stream on which only   *)
(* keep-alives arrive while a program runs is renewed.                     *)
(*                                                                         *)
(* Ages are ticks, kept up to the bound they are compared with.            *)
(***************************************************************************)
EXTENDS Integers

CONSTANTS
    ReconnectMin,       \* RECONNECT_MIN_DELAY
    ReconnectMax,       \* RECONNECT_MAX_DELAY
    ReconnectExtended,  \* RECONNECT_EXTENDED_DELAY
    EscalateAfter,      \* RECONNECT_ESCALATE_AFTER
    StableSeconds,      \* RECONNECT_STABLE_SECONDS
    ZombieAfter,        \* ZOMBIE_SUSPECT_SECONDS
    AuthPoll,           \* AUTH_POLL_INTERVAL
    GateWaits,          \* waits a 429 may impose on the shared request gate
    MaxEvents           \* bound on the environment's actions

ASSUME ConstantsOK ==
    /\ ReconnectMin \in Nat \ {0}
    /\ ReconnectMax \in Nat /\ ReconnectMin <= ReconnectMax
    /\ ReconnectExtended \in Nat /\ ReconnectMax <= ReconnectExtended
    /\ EscalateAfter \in Nat \ {0}
    /\ StableSeconds \in Nat
    /\ ZombieAfter \in Nat /\ StableSeconds <= ZombieAfter
    /\ AuthPoll \in Nat
    /\ GateWaits \subseteq Nat
    /\ MaxEvents \in Nat

VARIABLES
    pc,         \* where the reader is
    stream,     \* the socket of the stream opened last: "none", "open", "shut"
    current,    \* it is registered in _current
    cause,      \* why the stream or the attempt ended
    resent,     \* the open was already sent again after a 401
    lived,      \* age of the stream since opened_at
    idle,       \* time since last_real, the last wire event
    backoff,    \* the reader's local variables
    failures,
    wait,       \* what is left of its _wait
    stopper,    \* stop(): "no", "set" (the stop event), "closed" (close() too)
    auth,       \* auth_ok()
    active,     \* activity_check(): some appliance runs a program
    aborted,    \* the API client was aborted
    gate,       \* what remains of the request gate's wait
    up,         \* history: START dispatched and no STOP since
    said,       \* history: the last event dispatched
    sinceSent,  \* history: time since an open was last sent
    burst,      \* history: opens sent since one that proved stable, or
                \* since a pause of ReconnectExtended
    events      \* environment actions taken so far

attempt == <<stream, current, cause, resent>>
ages == <<lived, idle>>
pause == <<backoff, failures, wait>>
world == <<auth, active, aborted, gate, events>>
history == <<up, said, sinceSent, burst>>
vars == <<pc, attempt, ages, pause, stopper, world, history>>

Stopping == stopper # "no"
Lower(m, n) == IF m < n THEN m ELSE n
Higher(m, n) == IF m < n THEN n ELSE m

\* Mutant of Sooner: the wait that remains may be negative.
SoonerUnclamped(n) == n - 1
Sooner(n) == IF n > 0 THEN n - 1 ELSE 0

Goto(from, to) == pc = from /\ pc' = to

\* The reader dispatches an event to the worker; a bracket is open then, or not.
Dispatch(event, bracket) ==
    /\ said' = event
    /\ up' = bracket
    /\ sinceSent' = sinceSent

----------------------------------------------------------------------------
(* The reader.                                                             *)

\* Mutant of PauseForAuth: a reader without authorization ends.
EndForAuth ==
    /\ ~Stopping /\ ~auth
    /\ Goto("top", "done")
    /\ UNCHANGED <<attempt, ages, pause, stopper, world, history>>

PauseForAuth ==
    /\ ~Stopping /\ ~auth
    /\ Goto("top", "wait")
    /\ wait' = AuthPoll
    /\ UNCHANGED <<attempt, ages, backoff, failures, stopper, world, history>>

BeginOpen ==
    /\ ~Stopping /\ auth
    /\ Goto("top", "gate")
    /\ cause' = "none" /\ resent' = FALSE
    /\ UNCHANGED <<stream, current, ages, pause, stopper, world, history>>

Finish ==
    /\ Stopping
    /\ Goto("top", "done")
    /\ UNCHANGED <<attempt, ages, pause, stopper, world, history>>

\* The attempt or the stream is over; on to the `finally' of the loop.
Fail(from) == Goto(from, "ended") /\ cause' = "error"

AbandonGate ==
    /\ gate > 0 /\ (Stopping \/ aborted)
    /\ Fail("gate")
    /\ UNCHANGED <<stream, current, resent, ages, pause, stopper, world, history>>

SendOpen ==
    /\ gate = 0
    /\ Goto("gate", "opening")
    /\ sinceSent' = 0
    /\ burst' = IF sinceSent = ReconnectExtended THEN 1 ELSE burst + 1
    /\ UNCHANGED <<attempt, ages, pause, stopper, world, up, said>>

OpenSucceeds ==
    /\ Goto("opening", "opened")
    /\ stream' = "open"
    /\ UNCHANGED <<current, cause, resent, ages, pause, stopper, world, history>>

\* A 401 whose token was refreshed: once per attempt, the open is sent again.
\* That its handler returns is taken for granted (see FairSpec).
ResendOpen ==
    /\ ~resent
    /\ Goto("opening", "gate")
    /\ resent' = TRUE
    /\ UNCHANGED <<stream, current, cause, ages, pause, stopper, world, history>>

\* A transport error, or an error status; a 429 closes the gate as well.
OpenFails ==
    /\ events < MaxEvents
    /\ Fail("opening")
    /\ gate' \in {gate} \cup {Higher(gate, w) : w \in GateWaits}
    /\ events' = events + 1
    /\ UNCHANGED <<stream, current, resent, ages, pause, stopper,
                   auth, active, aborted, history>>

\* Mutant of Register: not once the stop event is set, the attempt ends anyway.
RegisterLate ==
    /\ Goto("opened", "registered")
    /\ current' = ~Stopping
    /\ UNCHANGED <<stream, cause, resent, ages, pause, stopper, world, history>>

Register ==
    /\ Goto("opened", "registered")
    /\ current' = TRUE
    /\ UNCHANGED <<stream, cause, resent, ages, pause, stopper, world, history>>

\* Mutant of Enter: no second look at the stop event.
EnterUnchecked ==
    /\ Goto("registered", "reading")
    /\ lived' = 0 /\ idle' = 0
    /\ backoff' = 0
    /\ Dispatch("start", TRUE) /\ burst' = burst
    /\ UNCHANGED <<attempt, failures, wait, stopper, world>>

\* Mutant of Enter: the backoff of the failed attempts before is kept.
EnterKeepsBackoff ==
    \/ /\ Stopping
       /\ Fail("registered")
       /\ UNCHANGED <<stream, current, resent, ages, pause, stopper, world, history>>
    \/ /\ ~Stopping
       /\ Goto("registered", "reading")
       /\ lived' = 0 /\ idle' = 0
       /\ Dispatch("start", TRUE) /\ burst' = burst
       /\ UNCHANGED <<attempt, pause, stopper, world>>

\* The stop event is looked at again once stop() can reach the stream.
Enter ==
    \/ /\ Stopping
       /\ Fail("registered")
       /\ UNCHANGED <<stream, current, resent, ages, pause, stopper, world, history>>
    \/ /\ ~Stopping
       /\ Goto("registered", "reading")
       /\ lived' = 0 /\ idle' = 0
       /\ backoff' = 0
       /\ Dispatch("start", TRUE) /\ burst' = burst
       /\ UNCHANGED <<attempt, failures, wait, stopper, world>>

ReadWireEvent ==
    /\ idle' = 0
    /\ \/ /\ Stopping
          /\ Goto("reading", "ended")
          /\ cause' = "end"
          /\ UNCHANGED history
       \/ /\ ~Stopping
          /\ Goto("reading", "reading")
          /\ cause' = cause
          /\ Dispatch("event", TRUE) /\ burst' = burst
    /\ UNCHANGED <<stream, current, resent, lived, pause, stopper, world>>

\* A keep-alive is not an event: it only makes the reader check for a zombie.
ReadKeepAlive ==
    /\ active /\ idle = ZombieAfter
    /\ Goto("reading", "ended")
    /\ cause' = "renewal"
    /\ UNCHANGED <<stream, current, resent, ages, pause, stopper, world, history>>

\* The server closes the stream, or the read fails: a transport error, a read
\* timeout, a line that does not parse.
ReadEnds ==
    /\ events < MaxEvents
    /\ events' = events + 1
    /\ Goto("reading", "ended")
    /\ cause' \in {"end", "error"}
    /\ UNCHANGED <<stream, current, resent, ages, pause, stopper,
                   auth, active, aborted, gate, history>>

\* stop() shut the socket under the read.
ReadShut ==
    /\ stream = "shut"
    /\ Goto("reading", "ended")
    /\ cause' \in {"end", "error"}
    /\ UNCHANGED <<stream, current, resent, ages, pause, stopper, world, history>>

\* Mutant of Failures: a stream that opened at all resets the count.
FailuresForgiving == IF up THEN 0 ELSE failures + 1

\* The attempts in a row that did not prove stable, this one included.
Failures == IF up /\ lived = StableSeconds THEN 0 ELSE failures + 1

Backoff ==
    IF Failures >= EscalateAfter THEN ReconnectExtended
    ELSE Lower(IF backoff = 0 THEN ReconnectMin ELSE 2 * backoff, ReconnectMax)

\* `finally' closes the stream if stop() has not taken it already.
CloseCurrent ==
    /\ stream' = IF current THEN "none" ELSE stream
    /\ current' = FALSE

StopEvent == IF cause = "error" THEN "stopError" ELSE "stop"

\* Mutant of EndAttempt: a reader that is to stop leaves without a STOP.
EndAttemptSilently ==
    /\ CloseCurrent
    /\ burst' = IF up /\ lived = StableSeconds THEN 0 ELSE burst
    /\ \/ /\ Stopping
          /\ Goto("ended", "done")
          /\ UNCHANGED <<pause, up, said, sinceSent>>
       \/ /\ ~Stopping
          /\ Goto("ended", "wait")
          /\ Dispatch(StopEvent, FALSE)
          /\ failures' = Failures
          /\ backoff' = Backoff
          /\ wait' = Backoff
    /\ UNCHANGED <<cause, resent, ages, stopper, world>>

EndAttempt ==
    /\ CloseCurrent
    /\ Dispatch(StopEvent, FALSE)
    /\ burst' = IF up /\ lived = StableSeconds THEN 0 ELSE burst
    /\ \/ /\ Stopping
          /\ Goto("ended", "done")
          /\ UNCHANGED pause
       \/ /\ ~Stopping
          /\ Goto("ended", "wait")
          /\ failures' = Failures
          /\ backoff' = Backoff
          /\ wait' = Backoff
    /\ UNCHANGED <<cause, resent, ages, stopper, world>>

EndWait ==
    /\ wait = 0 \/ Stopping
    /\ Goto("wait", "top")
    /\ UNCHANGED <<attempt, ages, pause, stopper, world, history>>

----------------------------------------------------------------------------
(* stop(), the cloud, the authorization, the other requests, and time.     *)

RequestStop ==
    /\ stopper = "no"
    /\ stopper' = "set"
    /\ UNCHANGED <<pc, attempt, ages, pause, world, history>>

\* Mutant of CloseStream: the stream is dropped, its socket not shut.
CloseStreamUnshut ==
    /\ stopper = "set"
    /\ stopper' = "closed"
    /\ current' = FALSE
    /\ UNCHANGED <<pc, stream, cause, resent, ages, pause, world, history>>

\* close(): takes the registered stream, if there is one, and shuts it.
CloseStream ==
    /\ stopper = "set"
    /\ stopper' = "closed"
    /\ stream' = IF current THEN "shut" ELSE stream
    /\ current' = FALSE
    /\ UNCHANGED <<pc, cause, resent, ages, pause, world, history>>

AuthChanges ==
    /\ events < MaxEvents
    /\ auth' = ~auth
    /\ events' = events + 1
    /\ UNCHANGED <<pc, attempt, ages, pause, stopper, active, aborted, gate, history>>

ProgramChanges ==
    /\ events < MaxEvents
    /\ active' = ~active
    /\ events' = events + 1
    /\ UNCHANGED <<pc, attempt, ages, pause, stopper, auth, aborted, gate, history>>

ClientAborts ==
    /\ ~aborted
    /\ aborted' = TRUE
    /\ UNCHANGED <<pc, attempt, ages, pause, stopper, auth, active, gate, events, history>>

GateCloses ==
    /\ events < MaxEvents
    /\ \E w \in GateWaits : gate' = Higher(gate, w)
    /\ events' = events + 1
    /\ UNCHANGED <<pc, attempt, ages, pause, stopper, auth, active, aborted, history>>

Tick ==
    /\ lived' = Lower(lived + 1, StableSeconds)
    /\ idle' = Lower(idle + 1, ZombieAfter)
    /\ wait' = Sooner(wait)
    /\ gate' = Sooner(gate)
    /\ sinceSent' = Lower(sinceSent + 1, ReconnectExtended)
    /\ UNCHANGED <<pc, attempt, backoff, failures, stopper, auth, active, aborted,
                   events, up, said, burst>>

----------------------------------------------------------------------------
Init ==
    /\ pc = "top"
    /\ stream = "none" /\ current = FALSE /\ cause = "none" /\ resent = FALSE
    /\ lived = 0 /\ idle = 0
    /\ backoff = 0 /\ failures = 0 /\ wait = 0
    /\ stopper = "no"
    /\ auth \in BOOLEAN /\ active \in BOOLEAN
    /\ aborted = FALSE /\ gate = 0 /\ events = 0
    /\ up = FALSE /\ said = "nothing"
    /\ sinceSent = ReconnectExtended /\ burst = 0

Open ==
    \/ BeginOpen \/ AbandonGate \/ SendOpen \/ OpenSucceeds \/ ResendOpen
    \/ OpenFails \/ Register

\* What the reader does by itself.  How long a stream lasts and which events
\* come is the cloud's choice; an open is answered, or times out.
Reader ==
    \/ PauseForAuth \/ Finish \/ Open \/ Enter \/ ReadShut \/ EndAttempt \/ EndWait

Cloud == ReadWireEvent \/ ReadKeepAlive \/ ReadEnds

Others ==
    \/ RequestStop \/ CloseStream \/ AuthChanges \/ ProgramChanges
    \/ ClientAborts \/ GateCloses

Next == Reader \/ Cloud \/ Others \/ Tick

Spec == Init /\ [][Next]_vars

\* The reader and the thread inside stop() are never descheduled for good, and
\* time passes.  The 401 handler is part of the step that ends the open, so what
\* is shown is shown for one that returns, and does not wait for the refresh lock
\* for ever (TokenRefresh, run own_lock).
FairSpec == Spec /\ WF_vars(Reader) /\ WF_vars(CloseStream) /\ WF_vars(Tick)

----------------------------------------------------------------------------
(* Properties.                                                             *)

TypeOK ==
    /\ pc \in {"top", "gate", "opening", "opened", "registered", "reading",
               "ended", "wait", "done"}
    /\ stream \in {"none", "open", "shut"}
    /\ current \in BOOLEAN
    /\ cause \in {"none", "end", "error", "renewal"}
    /\ resent \in BOOLEAN
    /\ lived \in 0 .. StableSeconds
    /\ idle \in 0 .. ZombieAfter
    /\ backoff \in 0 .. ReconnectExtended
    /\ failures \in Nat
    /\ wait \in Nat
    /\ stopper \in {"no", "set", "closed"}
    /\ auth \in BOOLEAN
    /\ active \in BOOLEAN
    /\ aborted \in BOOLEAN
    /\ gate \in Nat
    /\ up \in BOOLEAN
    /\ said \in {"nothing", "start", "event", "stop", "stopError"}
    /\ sinceSent \in 0 .. ReconnectExtended
    /\ burst \in Nat
    /\ events \in 0 .. MaxEvents

\* A stop() that has closed what it found leaves no reader behind on a stream
\* it could not reach: the gap between opening a stream and registering it is
\* covered by the second look at the stop event.
StopReachesStream == stopper = "closed" /\ pc = "reading" => stream = "shut"

\* A stream that is open belongs to the attempt under way: whatever order
\* stop() and the reader come in, no attempt leaves its connection open.
NoStreamLeaks ==
    stream = "open" => pc \in {"opened", "registered", "reading", "ended"}

\* Every open is a counted request: without a stream that proves stable, or a
\* pause of ReconnectExtended, at most EscalateAfter attempts are made, each
\* sending at most two opens, however the attempts fail.
BurstBounded == burst <= 2 * EscalateAfter

\* The renewal of a zombie stream reconnects as fast as it can and tells the
\* appliances no error: the failures before the stream do not slow it down.
RenewalIsQuick ==
    [][EndAttempt /\ cause = "renewal" /\ ~Stopping
        => wait' = ReconnectMin /\ said' = "stop"]_vars

\* The events the worker routes come in brackets (StreamFeed).
Feed == INSTANCE StreamFeed WITH over <- (pc = "done")
FeedSpec == Feed!Spec

\* A reader that is told to stop stops, in whatever window the stop falls, if the
\* 401 handler of an open under way returns.
StopEnds == Stopping ~> pc = "done"

\* Unless it is stopped or the authorization is lost for good, the stream
\* comes back again and again, whatever the failures before: no backoff, pause
\* or closed gate is final, and neither is an aborted client.  This too takes
\* every 401 handler to return.
StreamReturns == []<>(up \/ ~auth \/ Stopping)

=============================================================================
