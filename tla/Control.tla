------------------------------ MODULE Control ------------------------------
(***************************************************************************)
(* Control actions on one appliance (hc_control.Controller), run by        *)
(* several Indigo threads: the pre-flight checks against the state cache,  *)
(* the power-on before a start or a selection with its wait for Ready, the *)
(* two rate limiters (RateLimiter) and the request itself (Requests).      *)
(*                                                                         *)
(* The worker thread merges what the cloud reports into the cache and then *)
(* calls the observers: two steps, between which the action threads run.   *)
(* The capability cache is taken to be warm.  What it allows, whether the  *)
(* appliance is connected and what its remote flags say may change at any  *)
(* time and is not kept: a pre-flight that depends on them may refuse.     *)
(***************************************************************************)
EXTENDS Integers, Sequences

CONSTANTS
    Callers, MaxRetries, BackoffBase, RetryWaitMax, RetryAfters, MaxEvents,
    Limit,          \* START_LIMIT and STOP_LIMIT
    Window,         \* RATE_WINDOW
    MaxTime,        \* bound on the clock
    MaxActions,     \* bound on the actions Indigo runs
    GateRefuse,     \* GATE_REFUSE_THRESHOLD
    ReadyTimeout    \* READY_TIMEOUT

ASSUME ControlOK ==
    /\ MaxRetries \in Nat /\ BackoffBase \in Nat /\ RetryWaitMax \in Nat
    /\ \A n \in 0 .. MaxRetries : BackoffBase * 2 ^ n \in Nat
    /\ RetryAfters \subseteq Nat /\ MaxEvents \in Nat
    /\ Limit \in Nat \ {0} /\ Window \in Nat /\ MaxTime \in Nat
    /\ MaxActions \in Nat /\ ReadyTimeout \in Nat

VARIABLES
    pc, retryable, attempt, resent, pause, gate, aborted, executed, sends, events,
    now,
    starts, startsDropped,  \* _start_limiter
    stops, stopsDropped,    \* _stop_limiter
    phase,      \* where each thread is in its action
    selects,    \* the action is select_program, not start_program
    ready,      \* the Event of its _wait_ready
    timer,      \* what is left of its wait
    power,      \* the state cache: PowerState
    op,         \* and OperationState
    note,       \* a value of OperationState merged, its observers not yet called
    ran,        \* history: program starts the appliance executed
    actions     \* actions run so far

Net == INSTANCE Requests
StartLimiter == INSTANCE RateLimiter WITH granted <- starts, dropped <- startsDropped
StopLimiter == INSTANCE RateLimiter WITH granted <- stops, dropped <- stopsDropped

request == <<pc, retryable, attempt, resent, pause, gate, aborted, executed, sends,
             events>>
startLimiter == <<starts, startsDropped>>
stopLimiter == <<stops, stopsDropped>>
limiters == <<now, startLimiter, stopLimiter>>
threads == <<phase, selects, ready, timer>>
cache == <<power, op, note>>
vars == <<request, limiters, threads, cache, ran, actions>>

Ops == {"none", "Inactive", "Ready", "Run"}
Powers == {"none", "Off", "Standby", "On"}

Moves(c, to) == phase' = [phase EXCEPT ![c] = to]

\* Indigo runs an action on a thread of its own.
Begins(c, to) ==
    /\ phase[c] = "idle" /\ Moves(c, to)
    /\ actions < MaxActions /\ actions' = actions + 1

----------------------------------------------------------------------------
(* The pre-flights.                                                        *)

GateOpen == gate <= GateRefuse

\* _is_powered_off: an appliance that reports nothing counts as off.
PoweredOff ==
    \/ power = "Off"
    \/ power # "On" /\ op = "Inactive"
    \/ power = "none" /\ op = "none"

\* _require_remote_start: a state never reported does not refuse.
MayStart == op \in {"Ready", "none"}

\* _require_powered
MaySelect == power \notin {"Off", "Standby"}

MayStop == op = "Run"

----------------------------------------------------------------------------
(* An action thread.                                                       *)

\* start_program or select_program; without power_on_first, or with the power
\* on, straight to the second pre-flight.
Start(c, select, powerOnFirst) ==
    /\ GateOpen
    /\ selects' = [selects EXCEPT ![c] = select]
    /\ \/ powerOnFirst /\ PoweredOff /\ Begins(c, "powering") /\ Net!Call(c, TRUE)
       \/ ~(powerOnFirst /\ PoweredOff) /\ Begins(c, "launch") /\ UNCHANGED request
    /\ UNCHANGED <<limiters, ready, timer, cache, ran>>

\* _wait_ready looks at the cache first.
PowerOnReturns(c) ==
    /\ phase[c] = "powering" /\ pc[c] = "returned"
    /\ Net!Leave(c)
    /\ Moves(c, IF op = "Ready" THEN "launch" ELSE "subscribe")
    /\ UNCHANGED <<limiters, selects, ready, timer, cache, ran, actions>>

Subscribe(c) ==
    /\ phase[c] = "subscribe"
    /\ Moves(c, "subscribed")
    /\ UNCHANGED <<request, limiters, selects, ready, timer, cache, ran, actions>>

\* Mutant of Recheck: it waits without looking at the cache again.
RecheckNothing(c) ==
    /\ phase[c] = "subscribed"
    /\ Moves(c, "waiting") /\ timer' = [timer EXCEPT ![c] = ReadyTimeout]
    /\ UNCHANGED <<request, limiters, selects, ready, cache, ran, actions>>

\* The wait is over: the Event is dropped, and a refused action's choice too.
Unsubscribe(c) ==
    /\ ready' = [ready EXCEPT ![c] = FALSE]
    /\ timer' = [timer EXCEPT ![c] = 0]

GivesUp(c) ==
    /\ Moves(c, "idle")
    /\ selects' = [selects EXCEPT ![c] = FALSE]

\* Ready may have come between the first look and the subscription.
Recheck(c) ==
    /\ phase[c] = "subscribed"
    /\ \/ op = "Ready" /\ Moves(c, "launch") /\ Unsubscribe(c)
       \/ op # "Ready" /\ Moves(c, "waiting") /\ ready' = ready
          /\ timer' = [timer EXCEPT ![c] = ReadyTimeout]
    /\ UNCHANGED <<request, limiters, selects, cache, ran, actions>>

\* The observer saw Ready, or the wait timed out and the action is refused.
WaitEnds(c) ==
    /\ phase[c] = "waiting"
    /\ \/ ready[c] /\ Moves(c, "launch") /\ selects' = selects
       \/ ~ready[c] /\ timer[c] = 0 /\ GivesUp(c)
    /\ Unsubscribe(c)
    /\ UNCHANGED <<request, limiters, cache, ran, actions>>

\* Mutant of LaunchStart: the start is sent like any other PUT.
LaunchStartRetryable(c) ==
    /\ phase[c] = "launch" /\ ~selects[c] /\ MayStart
    /\ StartLimiter!Grant
    /\ Net!Call(c, TRUE)
    /\ Moves(c, "starting")
    /\ UNCHANGED <<stopLimiter, selects, ready, timer, cache, ran, actions>>

\* The limiter records the start before it is sent; it is sent with no_retry.
LaunchStart(c) ==
    /\ phase[c] = "launch" /\ ~selects[c] /\ MayStart
    /\ StartLimiter!Grant
    /\ Net!Call(c, FALSE)
    /\ Moves(c, "starting")
    /\ UNCHANGED <<stopLimiter, selects, ready, timer, cache, ran, actions>>

LimitStart(c) ==
    /\ phase[c] = "launch" /\ ~selects[c] /\ MayStart
    /\ StartLimiter!Refuse
    /\ GivesUp(c)
    /\ UNCHANGED <<request, stopLimiter, ready, timer, cache, ran, actions>>

LaunchSelect(c) ==
    /\ phase[c] = "launch" /\ selects[c] /\ MaySelect
    /\ Net!Call(c, TRUE)
    /\ Moves(c, "writing")
    /\ selects' = [selects EXCEPT ![c] = FALSE]
    /\ UNCHANGED <<limiters, ready, timer, cache, ran, actions>>

\* The state, the connection or a remote flag forbids it.
Refused(c) ==
    /\ phase[c] = "launch"
    /\ GivesUp(c)
    /\ UNCHANGED <<request, limiters, ready, timer, cache, ran, actions>>

\* Mutant of Stop: it is recorded, but never refused.
StopUnlimited(c) ==
    /\ GateOpen /\ MayStop
    /\ Begins(c, "stopping")
    /\ stops' = Append(stops, now)
    /\ Net!Call(c, TRUE)
    /\ UNCHANGED <<now, stopsDropped, startLimiter, selects, ready, timer, cache, ran>>

Stop(c) ==
    /\ GateOpen /\ MayStop
    /\ Begins(c, "stopping")
    /\ StopLimiter!Grant
    /\ Net!Call(c, TRUE)
    /\ UNCHANGED <<startLimiter, selects, ready, timer, cache, ran>>

LimitStop(c) ==
    /\ phase[c] = "idle" /\ GateOpen /\ MayStop
    /\ StopLimiter!Refuse
    /\ UNCHANGED <<request, startLimiter, threads, cache, ran, actions>>

\* set_setting, set_power and send_command, when the capabilities allow them.
Write(c) ==
    /\ GateOpen
    /\ Begins(c, "writing")
    /\ Net!Call(c, TRUE)
    /\ UNCHANGED <<limiters, selects, ready, timer, cache, ran>>

Request(c) ==
    /\ phase[c] \in {"powering", "starting", "stopping", "writing"}
    /\ Net!Proceed(c)
    /\ ran' = ran + (IF phase[c] = "starting" THEN executed'[c] - executed[c] ELSE 0)
    /\ UNCHANGED <<limiters, threads, cache, actions>>

\* The action is over, or its power-on failed.
EndAction(c) ==
    /\ \/ phase[c] \in {"starting", "stopping", "writing"} /\ pc[c] \in Net!Over
       \/ phase[c] = "powering" /\ pc[c] = "raised"
    /\ Net!Leave(c)
    /\ GivesUp(c)
    /\ UNCHANGED <<limiters, ready, timer, cache, ran, actions>>

----------------------------------------------------------------------------
(* The worker thread, and time.                                            *)

\* A report is merged into the cache; its observers come next.
MergeOp(v) ==
    /\ note = "none" /\ v # "none"
    /\ op' = v /\ note' = v
    /\ UNCHANGED <<request, limiters, threads, power, ran, actions>>

MergePower ==
    /\ note = "none"
    /\ power' \in Powers \ {"none"}
    /\ UNCHANGED <<request, limiters, threads, op, note, ran, actions>>

\* Mutant of Notify: the observers registered before the merge are called.
NotifyWaiting ==
    /\ note # "none"
    /\ ready' = [c \in Callers |->
                     ready[c] \/ (phase[c] = "waiting" /\ note = "Ready")]
    /\ note' = "none"
    /\ UNCHANGED <<request, limiters, phase, selects, timer, power, op,
                   ran, actions>>

\* The observers registered by now are called.
Notify ==
    /\ note # "none"
    /\ ready' = [c \in Callers |->
                     ready[c] \/ (phase[c] \in {"subscribed", "waiting"} /\ note = "Ready")]
    /\ note' = "none"
    /\ UNCHANGED <<request, limiters, phase, selects, timer, power, op,
                   ran, actions>>

Abort == Net!ClientAborts /\ UNCHANGED <<limiters, threads, cache, ran, actions>>

Tick ==
    /\ Net!Tick
    /\ now < MaxTime /\ now' = now + 1
    /\ timer' = [c \in Callers |-> Net!Sooner(timer[c])]
    /\ UNCHANGED <<startLimiter, stopLimiter, phase, selects, ready, cache, ran, actions>>

Init ==
    /\ Net!Init
    /\ StartLimiter!Init /\ StopLimiter!Init
    /\ phase = [c \in Callers |-> "idle"]
    /\ selects = [c \in Callers |-> FALSE]
    /\ ready = [c \in Callers |-> FALSE]
    /\ timer = [c \in Callers |-> 0]
    /\ power = "none" /\ op = "none" /\ note = "none"
    /\ ran = 0 /\ actions = 0

Act(c) ==
    \/ \E select, powerOnFirst \in BOOLEAN : Start(c, select, powerOnFirst)
    \/ PowerOnReturns(c) \/ Subscribe(c) \/ Recheck(c) \/ WaitEnds(c)
    \/ LaunchStart(c) \/ LimitStart(c) \/ LaunchSelect(c) \/ Refused(c)
    \/ Stop(c) \/ LimitStop(c) \/ Write(c) \/ Request(c) \/ EndAction(c)

Worker == (\E v \in Ops : MergeOp(v)) \/ MergePower \/ Notify

Next == (\E c \in Callers : Act(c)) \/ Worker \/ Abort \/ Tick

Spec == Init /\ [][Next]_vars

----------------------------------------------------------------------------
(* Properties.                                                             *)

TypeOK ==
    /\ Net!TypeOK
    /\ StartLimiter!TypeOK /\ StopLimiter!TypeOK
    /\ phase \in [Callers -> {"idle", "powering", "subscribe", "subscribed", "waiting",
                              "launch", "starting", "stopping", "writing"}]
    /\ selects \in [Callers -> BOOLEAN]
    /\ ready \in [Callers -> BOOLEAN]
    /\ timer \in [Callers -> 0 .. ReadyTimeout]
    /\ power \in Powers /\ op \in Ops /\ note \in Ops
    /\ ran \in Nat
    /\ actions \in 0 .. MaxActions

\* Every program start the appliance executes was granted by the limiter:
\* neither a lost answer, nor a retry, nor the resend after a token refresh
\* makes it run one more.
StartsArePaidFor == ran <= Len(starts)

\* A thread that waits for Ready has not missed it: whenever the report came,
\* before or after the subscription, the cache or the observer showed it.
NoLostReady ==
    \A c \in Callers :
        phase[c] = "waiting" /\ op = "Ready" /\ note = "none" => ready[c]

=============================================================================
