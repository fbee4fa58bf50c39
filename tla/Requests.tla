------------------------------ MODULE Requests ------------------------------
(***************************************************************************)
(* The request loop of the HTTP client (HomeConnectAPI.request), run by    *)
(* several threads over one request gate: wait for the gate, send, and on  *)
(* failure retry, resend after a token refresh, or raise.                  *)
(*                                                                         *)
(* The cloud executes a request or not before it answers, and the answer   *)
(* may be lost.  Delays are ticks.                                         *)
(***************************************************************************)
EXTENDS Integers

CONSTANTS
    Callers,        \* threads that make requests
    MaxRetries,     \* max_retries
    BackoffBase,    \* RETRY_BACKOFF_BASE
    RetryWaitMax,   \* MAX_429_RETRY_WAIT
    RetryAfters,    \* waits a 429 may impose
    MaxEvents       \* bound on failed answers

ASSUME RequestsOK ==
    /\ MaxRetries \in Nat /\ BackoffBase \in Nat /\ RetryWaitMax \in Nat
    /\ RetryAfters \subseteq Nat
    /\ MaxEvents \in Nat

\* Every backoff is a number of ticks, as it is if BackoffBase is one.
ASSUME BackoffsOK == \A n \in 0 .. MaxRetries : BackoffBase * 2 ^ n \in Nat

VARIABLES
    pc,         \* where each caller is in request()
    retryable,  \* an idempotent method, without no_retry
    attempt,    \* its local variables
    resent,     \* unauthorized_retried
    pause,      \* what is left of its _backoff_before_retry
    gate,       \* what remains until _earliest_retry
    aborted,    \* abort() was called
    executed,   \* history: how often the cloud executed the request
    sends,      \* history: how often it was sent
    events      \* failed answers so far

locals == <<retryable, attempt, resent, pause>>
shared == <<gate, aborted, events>>
history == <<executed, sends>>
vars == <<pc, locals, shared, history>>

Higher(m, n) == IF m < n THEN n ELSE m

Sooner(n) == IF n > 0 THEN n - 1 ELSE 0

Goto(c, from, to) == pc[c] = from /\ pc' = [pc EXCEPT ![c] = to]

\* The request ends with a HomeConnectError.
Raises(c, from) == Goto(c, from, "raised") /\ UNCHANGED locals

Over == {"returned", "raised"}

----------------------------------------------------------------------------
(* A caller.                                                               *)

Call(c, r) ==
    /\ Goto(c, "idle", "gate")
    /\ retryable' = [retryable EXCEPT ![c] = r]
    /\ UNCHANGED <<attempt, resent, pause, shared, history>>

\* The caller has its result, or its exception; the local variables are gone.
Leave(c) ==
    /\ pc[c] \in Over
    /\ pc' = [pc EXCEPT ![c] = "idle"]
    /\ retryable' = [retryable EXCEPT ![c] = FALSE]
    /\ attempt' = [attempt EXCEPT ![c] = 0]
    /\ resent' = [resent EXCEPT ![c] = FALSE]
    /\ pause' = [pause EXCEPT ![c] = 0]
    /\ executed' = [executed EXCEPT ![c] = 0]
    /\ sends' = [sends EXCEPT ![c] = 0]
    /\ UNCHANGED shared

Abandon(c) ==
    /\ gate > 0 /\ aborted
    /\ Raises(c, "gate")
    /\ UNCHANGED <<shared, history>>

Send(c) ==
    /\ gate = 0
    /\ Goto(c, "gate", "sent")
    /\ sends' = [sends EXCEPT ![c] = @ + 1]
    /\ UNCHANGED <<locals, shared, executed>>

\* Mutant of CanRetry: no_retry is ignored.
CanRetryAnything(c) == attempt[c] < MaxRetries
CanRetry(c) == retryable[c] /\ attempt[c] < MaxRetries

NextAttempt(c) ==
    /\ attempt' = [attempt EXCEPT ![c] = @ + 1]
    /\ UNCHANGED <<retryable, resent, pause>>

Executes(c) == executed' = [executed EXCEPT ![c] = @ + 1]

Succeeds(c) ==
    /\ Goto(c, "sent", "returned")
    /\ Executes(c)
    /\ UNCHANGED <<locals, shared, sends>>

\* A 4xx that is neither 401, 408 nor 429: refused, and never retried.
Rejected(c) == Raises(c, "sent") /\ UNCHANGED <<shared, history>>

\* No answer, a 408 or a 5xx: whether the cloud executed it is not known.
Fails(c) ==
    /\ events < MaxEvents
    /\ events' = events + 1
    /\ \/ CanRetry(c) /\ Goto(c, "sent", "backoff")
          /\ pause' = [pause EXCEPT ![c] = BackoffBase * 2 ^ attempt[c]]
          /\ UNCHANGED <<retryable, attempt, resent>>
       \/ ~CanRetry(c) /\ Raises(c, "sent")
    /\ Executes(c) \/ UNCHANGED executed
    /\ UNCHANGED <<gate, aborted, sends>>

\* Mutant of EndBackoff: abort() cuts the wait short, and the retry goes on.
EndBackoffImpatient(c) ==
    /\ pause[c] = 0 \/ aborted
    /\ Goto(c, "backoff", "gate")
    /\ NextAttempt(c)
    /\ UNCHANGED <<shared, history>>

\* Mutant of EndBackoff: only abort() ends the wait.
EndBackoffNever(c) ==
    /\ aborted /\ Raises(c, "backoff")
    /\ UNCHANGED <<shared, history>>

\* abort() ends the wait and the request.
EndBackoff(c) ==
    /\ \/ pause[c] = 0 /\ ~aborted
          /\ Goto(c, "backoff", "gate")
          /\ NextAttempt(c)
       \/ aborted /\ Raises(c, "backoff")
    /\ UNCHANGED <<shared, history>>

\* A 429 closes the gate for everybody.  Its own request waits there only if
\* the gate, whoever closed it, opens soon.
TooMany(c) ==
    /\ events < MaxEvents
    /\ events' = events + 1
    /\ \E w \in RetryAfters : gate' = Higher(gate, w)
    /\ \/ CanRetry(c) /\ gate' <= RetryWaitMax
          /\ Goto(c, "sent", "gate")
          /\ NextAttempt(c)
       \/ ~(CanRetry(c) /\ gate' <= RetryWaitMax) /\ Raises(c, "sent")
    /\ UNCHANGED <<aborted, history>>

\* A 401, which the cloud did not execute: once, the token may be refreshed.
Unauthorized(c) ==
    /\ \/ ~resent[c] /\ Goto(c, "sent", "handler") /\ UNCHANGED locals
       \/ resent[c] /\ Raises(c, "sent")
    /\ UNCHANGED <<shared, history>>

\* Mutant of HandlerReturns: unauthorized_retried is never set.
HandlerForgets(c) ==
    /\ \/ Goto(c, "handler", "gate") /\ UNCHANGED locals
       \/ Raises(c, "handler")
    /\ UNCHANGED <<shared, history>>

HandlerReturns(c) ==
    /\ \/ /\ Goto(c, "handler", "gate")
          /\ resent' = [resent EXCEPT ![c] = TRUE]
          /\ UNCHANGED <<retryable, attempt, pause>>
       \/ Raises(c, "handler")
    /\ UNCHANGED <<shared, history>>

----------------------------------------------------------------------------
ClientAborts ==
    /\ ~aborted
    /\ aborted' = TRUE
    /\ UNCHANGED <<pc, locals, gate, events, history>>

Tick ==
    /\ gate' = Sooner(gate)
    /\ pause' = [c \in Callers |-> Sooner(pause[c])]
    /\ UNCHANGED <<pc, retryable, attempt, resent, aborted, events, history>>

Init ==
    /\ pc = [c \in Callers |-> "idle"]
    /\ retryable = [c \in Callers |-> FALSE]
    /\ attempt = [c \in Callers |-> 0]
    /\ resent = [c \in Callers |-> FALSE]
    /\ pause = [c \in Callers |-> 0]
    /\ gate = 0 /\ aborted = FALSE /\ events = 0
    /\ executed = [c \in Callers |-> 0]
    /\ sends = [c \in Callers |-> 0]

\* What a caller does by itself; a request is answered or times out.
Proceed(c) ==
    \/ Abandon(c) \/ Send(c) \/ Succeeds(c) \/ Rejected(c) \/ Fails(c)
    \/ EndBackoff(c) \/ TooMany(c) \/ Unauthorized(c) \/ HandlerReturns(c)

Next ==
    \/ \E c \in Callers : Proceed(c) \/ Leave(c) \/ \E r \in BOOLEAN : Call(c, r)
    \/ ClientAborts \/ Tick

Spec == Init /\ [][Next]_vars

\* Every thread that makes a request is scheduled, and time passes.  Not so in
\* the 401 handler, which may wait for the refresh lock for ever (TokenRefresh,
\* run own_lock).
FairSpec ==
    /\ Spec /\ WF_vars(Tick)
    /\ \A c \in Callers : WF_vars(pc[c] # "handler" /\ Proceed(c))

----------------------------------------------------------------------------
(* Properties.                                                             *)

TypeOK ==
    /\ pc \in [Callers -> {"idle", "gate", "sent", "backoff", "handler"} \cup Over]
    /\ retryable \in [Callers -> BOOLEAN]
    /\ attempt \in [Callers -> 0 .. MaxRetries]
    /\ resent \in [Callers -> BOOLEAN]
    /\ pause \in [Callers -> Int] /\ \A c \in Callers : pause[c] >= 0
    /\ gate \in Nat
    /\ aborted \in BOOLEAN
    /\ executed \in [Callers -> Nat]
    /\ sends \in [Callers -> Nat]
    /\ events \in 0 .. MaxEvents

\* A program start never runs twice, whichever answers are lost and whatever
\* the gate, the token and abort() do in between.
AtMostOnce == \A c \in Callers : ~retryable[c] => executed[c] <= 1

\* What one call can cost the budget: its retries, and one resend.
SendsBounded ==
    \A c \in Callers :
        sends[c] <= 2 + (IF retryable[c] THEN MaxRetries ELSE 0)

\* Nothing, abort() included, lets a failed request be sent again before the
\* backoff it owes is over.
RetriesSpaced == [][\A c \in Callers : Send(c) => pause[c] = 0]_vars

\* Every request ends, whatever happens to the others: with a gate that they
\* close again and again, retries and resends, none waits for ever, except for a
\* 401 handler that never returns.
CallsEnd ==
    \A c \in Callers :
        pc[c] \notin {"idle"} \cup Over ~> pc[c] \in Over \/ [](pc[c] = "handler")

=============================================================================
