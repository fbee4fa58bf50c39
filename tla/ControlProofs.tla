---------------------------- MODULE ControlProofs ----------------------------
(***************************************************************************)
(* Proofs about Control, for every set of threads, limit and timeout.      *)
(*                                                                         *)
(* A step of Control is a step of the request loop and of each limiter, or *)
(* leaves them alone: what Requests and RateLimiter guarantee carries over *)
(* and the proofs here rest on it.                                         *)
(***************************************************************************)
EXTENDS Control, FiniteSets, FiniteSetTheorems, TLAPS

NetP == INSTANCE RequestsProofs
StartP == INSTANCE RateLimiterProofs WITH granted <- starts, dropped <- startsDropped
StopP == INSTANCE RateLimiterProofs WITH granted <- stops, dropped <- stopsDropped

----------------------------------------------------------------------------
(* The components' own proofs apply.                                       *)

LEMMA ComponentAssumptions ==
  /\ NetP!RequestsOK /\ NetP!BackoffsOK
  /\ StartP!LimiterOK /\ StopP!LimiterOK
BY ControlOK DEF ControlOK, NetP!RequestsOK, NetP!BackoffsOK, StartP!LimiterOK, StopP!LimiterOK

\* What an action does to the request loop.
LEMMA NetSame ==
  ASSUME NEW c \in Callers
  PROVE  /\ Net!Proceed(c) <=> NetP!Proceed(c)
         /\ Net!Leave(c) <=> NetP!Leave(c)
         /\ \A r \in BOOLEAN : Net!Call(c, r) <=> NetP!Call(c, r)
BY DEF Net!Proceed, NetP!Proceed, Net!Leave, NetP!Leave, Net!Call, NetP!Call,
     Net!Abandon, NetP!Abandon, Net!Send, NetP!Send, Net!Succeeds, NetP!Succeeds,
     Net!Rejected, NetP!Rejected, Net!Fails, NetP!Fails, Net!EndBackoff, NetP!EndBackoff,
     Net!TooMany, NetP!TooMany, Net!Unauthorized, NetP!Unauthorized,
     Net!HandlerReturns, NetP!HandlerReturns, Net!Goto, NetP!Goto, Net!Raises, NetP!Raises,
     Net!CanRetry, NetP!CanRetry, Net!Executes, NetP!Executes,
     Net!NextAttempt, NetP!NextAttempt, Net!Higher, NetP!Higher, Net!Over, NetP!Over,
     Net!locals, NetP!locals, Net!shared, NetP!shared, Net!history, NetP!history

LEMMA NetStep ==
  ASSUME [Next]_vars
  PROVE  [NetP!Next]_(NetP!vars)
<1>1. ASSUME NEW c \in Callers, Act(c) PROVE NetP!Next \/ UNCHANGED request
  <2>1. \/ Net!Proceed(c) \/ Net!Leave(c) \/ Net!Call(c, TRUE) \/ Net!Call(c, FALSE)
        \/ UNCHANGED request
    BY <1>1 DEF Act, Start, PowerOnReturns, Subscribe, Recheck, WaitEnds, LaunchStart,
         LimitStart, LaunchSelect, Refused, Stop, LimitStop, Write, Request, EndAction
  <2>2. \/ NetP!Proceed(c) \/ NetP!Leave(c) \/ (\E r \in BOOLEAN : NetP!Call(c, r))
        \/ UNCHANGED request
    BY <2>1, NetSame
  <2> QED BY <2>2 DEF NetP!Next
<1>2. ASSUME Worker PROVE UNCHANGED request
  BY <1>2 DEF Worker, MergeOp, MergePower, Notify
<1>3. ASSUME Abort \/ Tick PROVE NetP!Next
  BY <1>3 DEF Abort, Tick, NetP!Next, Net!ClientAborts, NetP!ClientAborts, Net!Tick, NetP!Tick,
     Net!Sooner, NetP!Sooner, Net!locals, NetP!locals, Net!history, NetP!history
<1>4. UNCHANGED vars => UNCHANGED request
  BY DEF vars
<1>5. UNCHANGED request => UNCHANGED NetP!vars
  BY DEF request, NetP!vars, NetP!locals, NetP!shared, NetP!history
<1> QED BY <1>1, <1>2, <1>3, <1>4, <1>5 DEF Next

LEMMA StartStep ==
  ASSUME [Next]_vars
  PROVE  [StartP!Next]_(StartP!vars)
<1>1. ASSUME NEW c \in Callers, Act(c)
      PROVE  StartLimiter!Grant \/ StartLimiter!Refuse \/ UNCHANGED <<now, startLimiter>>
  BY <1>1 DEF Act, Start, PowerOnReturns, Subscribe, Recheck, WaitEnds, LaunchStart,
         LimitStart, LaunchSelect, Refused, Stop, LimitStop, Write, Request, EndAction,
         StopLimiter!Grant, StopLimiter!Refuse, limiters
<1>2. StartLimiter!Grant \/ StartLimiter!Refuse => StartP!Next
  BY DEF StartLimiter!Grant, StartP!Grant, StartLimiter!Refuse, StartP!Refuse, StartP!Next,
     StartLimiter!Prunes, StartP!Prunes, StartLimiter!Full, StartP!Full,
     StartLimiter!Grants, StartP!Grants, StartLimiter!Expired, StartP!Expired
<1>3. Tick => StartP!Next
  BY DEF Tick, StartP!Next, StartP!Tick, startLimiter
<1>4. Worker \/ Abort \/ UNCHANGED vars => UNCHANGED <<now, startLimiter>>
  BY DEF Worker, MergeOp, MergePower, Notify, Abort, limiters, vars
<1>5. UNCHANGED <<now, startLimiter>> => UNCHANGED StartP!vars
  BY DEF startLimiter, StartP!vars
<1> QED BY <1>1, <1>2, <1>3, <1>4, <1>5 DEF Next

LEMMA StopStep ==
  ASSUME [Next]_vars
  PROVE  [StopP!Next]_(StopP!vars)
<1>1. ASSUME NEW c \in Callers, Act(c)
      PROVE  StopLimiter!Grant \/ StopLimiter!Refuse \/ UNCHANGED <<now, stopLimiter>>
  BY <1>1 DEF Act, Start, PowerOnReturns, Subscribe, Recheck, WaitEnds, LaunchStart,
         LimitStart, LaunchSelect, Refused, Stop, LimitStop, Write, Request, EndAction,
         StartLimiter!Grant, StartLimiter!Refuse, limiters
<1>2. StopLimiter!Grant \/ StopLimiter!Refuse => StopP!Next
  BY DEF StopLimiter!Grant, StopP!Grant, StopLimiter!Refuse, StopP!Refuse, StopP!Next,
     StopLimiter!Prunes, StopP!Prunes, StopLimiter!Full, StopP!Full,
     StopLimiter!Grants, StopP!Grants, StopLimiter!Expired, StopP!Expired
<1>3. Tick => StopP!Next
  BY DEF Tick, StopP!Next, StopP!Tick, stopLimiter
<1>4. Worker \/ Abort \/ UNCHANGED vars => UNCHANGED <<now, stopLimiter>>
  BY DEF Worker, MergeOp, MergePower, Notify, Abort, limiters, vars
<1>5. UNCHANGED <<now, stopLimiter>> => UNCHANGED StopP!vars
  BY DEF stopLimiter, StopP!vars
<1> QED BY <1>1, <1>2, <1>3, <1>4, <1>5 DEF Next

LEMMA InitComponents ==
  Init => NetP!Init /\ StartP!Init /\ StopP!Init
BY DEF Init, Net!Init, NetP!Init, StartLimiter!Init, StartP!Init, StopLimiter!Init, StopP!Init

\* Whatever the action threads do, the request loop behaves as Requests says.
THEOREM ImplementsRequests == Spec => NetP!Spec
BY InitComponents, NetStep, PTL DEF Spec, NetP!Spec

\* And each limiter as RateLimiter says, though they share the clock.
THEOREM ImplementsLimiters == Spec => StartP!Spec /\ StopP!Spec
BY InitComponents, StartStep, StopStep, PTL DEF Spec, StartP!Spec, StopP!Spec

LEMMA ComponentInvariants == Spec => [](NetP!IInv /\ StartP!IInv /\ StopP!IInv)
<1>1. NetP!Spec => []NetP!IInv
  BY NetP!Invariance, ComponentAssumptions
<1>2. StartP!Spec => []StartP!IInv
  BY StartP!Invariance, ComponentAssumptions
<1>3. StopP!Spec => []StopP!IInv
  BY StopP!Invariance, ComponentAssumptions
<1> QED BY <1>1, <1>2, <1>3, ImplementsRequests, ImplementsLimiters, PTL

----------------------------------------------------------------------------
(* The inductive invariant of the composition.                             *)

Phases ==
    {"idle", "powering", "subscribe", "subscribed", "waiting", "launch", "starting",
     "stopping", "writing"}

\* Where a thread has a request under way, or its result not yet looked at.
Requesting == {"powering", "starting", "stopping", "writing"}

\* The types; how far the counter of actions goes matters to nothing else.
ThreadsOK ==
    /\ phase \in [Callers -> Phases]
    /\ selects \in [Callers -> BOOLEAN]
    /\ ready \in [Callers -> BOOLEAN]
    /\ timer \in [Callers -> 0 .. ReadyTimeout]
    /\ power \in Powers /\ op \in Ops /\ note \in Ops
    /\ actions \in 0 .. MaxActions

\* A thread is in a request exactly in those phases, and a start has no retries.
RequestOK(c) ==
    /\ pc[c] # "idle" <=> phase[c] \in Requesting
    /\ phase[c] = "starting" => ~retryable[c]

\* Starts granted and under way that the appliance has not executed.
Unspent == {c \in Callers : phase[c] = "starting" /\ executed[c] = 0}

\* Each of them has been paid for, as have those it has executed.
PaidOK ==
    /\ ran \in Nat /\ IsFiniteSet(Unspent)
    /\ ran + Cardinality(Unspent) <= Len(starts)

\* Who waits has not seen Ready, or is about to be told.
WaitOK ==
    /\ note # "none" => op = note
    /\ \A c \in Callers :
           phase[c] = "waiting" /\ op = "Ready" => ready[c] \/ note = "Ready"

Components == NetP!IInv /\ StartP!IInv /\ StopP!IInv

IInv == ThreadsOK /\ (\A c \in Callers : RequestOK(c)) /\ PaidOK /\ WaitOK

----------------------------------------------------------------------------
(* Types, and the wait for Ready.                                          *)

LEMMA InitKeeps == Init => IInv
<1> SUFFICES ASSUME Init PROVE IInv
  OBVIOUS
<1>1. ThreadsOK
  BY ControlOK DEF Init, ThreadsOK, Phases, Powers, Ops, ControlOK
<1>2. \A c \in Callers : RequestOK(c)
  BY DEF Init, RequestOK, Requesting, Net!Init
<1>3. PaidOK
  <2>1. Unspent = {}
    BY DEF Init, Unspent
  <2>2. Len(starts) = 0 /\ ran = 0
    BY DEF Init, StartLimiter!Init
  <2> QED BY <2>1, <2>2, FS_EmptySet DEF PaidOK
<1>4. WaitOK
  BY DEF Init, WaitOK
<1> QED BY <1>1, <1>2, <1>3, <1>4 DEF IInv

LEMMA ThreadsKept ==
  ASSUME IInv, Next
  PROVE  ThreadsOK'
<1>0. ThreadsOK
  BY DEF IInv
<1>1. ASSUME NEW c \in Callers, Act(c) PROVE ThreadsOK'
  <2>1. \/ UNCHANGED phase
        \/ \E p \in Phases : phase' = [phase EXCEPT ![c] = p]
    BY <1>1 DEF Act, Start, PowerOnReturns, Subscribe, Recheck, WaitEnds, LaunchStart,
         LimitStart, LaunchSelect, Refused, Stop, LimitStop, Write, Request, EndAction,
         Begins, Moves, GivesUp, Phases, threads
  <2>2. \/ UNCHANGED selects
        \/ \E v \in BOOLEAN : selects' = [selects EXCEPT ![c] = v]
    BY <1>1 DEF Act, Start, PowerOnReturns, Subscribe, Recheck, WaitEnds, LaunchStart,
         LimitStart, LaunchSelect, Refused, Stop, LimitStop, Write, Request, EndAction,
         GivesUp, threads
  <2>3. ready' = ready \/ ready' = [ready EXCEPT ![c] = FALSE]
    BY <1>1 DEF Act, Start, PowerOnReturns, Subscribe, Recheck, WaitEnds, LaunchStart,
         LimitStart, LaunchSelect, Refused, Stop, LimitStop, Write, Request, EndAction,
         Unsubscribe, threads
  <2>4. timer' = timer \/ \E n \in {0, ReadyTimeout} : timer' = [timer EXCEPT ![c] = n]
    BY <1>1 DEF Act, Start, PowerOnReturns, Subscribe, Recheck, WaitEnds, LaunchStart,
         LimitStart, LaunchSelect, Refused, Stop, LimitStop, Write, Request, EndAction,
         Unsubscribe, threads
  <2>5. actions' = actions \/ (actions < MaxActions /\ actions' = actions + 1)
    BY <1>1 DEF Act, Start, PowerOnReturns, Subscribe, Recheck, WaitEnds, LaunchStart,
         LimitStart, LaunchSelect, Refused, Stop, LimitStop, Write, Request, EndAction,
         Begins
  <2>6. UNCHANGED cache
    BY <1>1 DEF Act, Start, PowerOnReturns, Subscribe, Recheck, WaitEnds, LaunchStart,
         LimitStart, LaunchSelect, Refused, Stop, LimitStop, Write, Request, EndAction
  <2>7. phase' \in [Callers -> Phases]
    BY <1>0, <2>1 DEF ThreadsOK
  <2>8. selects' \in [Callers -> BOOLEAN] /\ ready' \in [Callers -> BOOLEAN]
    BY <1>0, <2>2, <2>3 DEF ThreadsOK
  <2>9. timer' \in [Callers -> 0 .. ReadyTimeout]
    <3>1. {0, ReadyTimeout} \subseteq 0 .. ReadyTimeout
      BY ControlOK DEF ControlOK
    <3> QED BY <1>0, <2>4, <3>1 DEF ThreadsOK
  <2>10. actions' \in 0 .. MaxActions
    BY <1>0, <2>5, ControlOK DEF ThreadsOK, ControlOK
  <2> QED BY <1>0, <2>6, <2>7, <2>8, <2>9, <2>10 DEF ThreadsOK, cache
<1>2. ASSUME Worker PROVE ThreadsOK'
  <2>1. CASE Notify
    <3>1. UNCHANGED <<phase, selects, timer, power, op, actions>> /\ note' = "none"
      BY <2>1 DEF Notify
    <3>2. ready' \in [Callers -> BOOLEAN]
      BY <2>1 DEF Notify
    <3> QED BY <1>0, <3>1, <3>2 DEF ThreadsOK, Ops
  <2>2. CASE MergePower \/ \E v \in Ops : MergeOp(v)
    BY <1>0, <2>2 DEF MergePower, MergeOp, ThreadsOK, threads
  <2> QED BY <1>2, <2>1, <2>2 DEF Worker
<1>3. ASSUME Abort PROVE ThreadsOK'
  BY <1>0, <1>3 DEF Abort, ThreadsOK, threads, cache
<1>4. ASSUME Tick PROVE ThreadsOK'
  <2>1. UNCHANGED <<phase, selects, ready, cache, actions>>
    BY <1>4 DEF Tick
  <2>2. timer' = [c \in Callers |-> Net!Sooner(timer[c])]
    BY <1>4 DEF Tick
  <2>3. timer' \in [Callers -> 0 .. ReadyTimeout]
    BY <1>0, <2>2, ControlOK DEF Net!Sooner, ThreadsOK, ControlOK
  <2> QED BY <1>0, <2>1, <2>3 DEF ThreadsOK, cache
<1> QED BY <1>1, <1>2, <1>3, <1>4 DEF Next

\* No thread misses Ready.
LEMMA WaitKept ==
  ASSUME IInv, Next
  PROVE  WaitOK'
<1>0. WaitOK /\ ThreadsOK
  BY DEF IInv
<1>1. ASSUME NEW c \in Callers, Act(c) PROVE WaitOK'
  <2>1. UNCHANGED cache
    BY <1>1 DEF Act, Start, PowerOnReturns, Subscribe, Recheck, WaitEnds, LaunchStart,
         LimitStart, LaunchSelect, Refused, Stop, LimitStop, Write, Request, EndAction
  <2>2. ASSUME NEW d \in Callers, d # c PROVE phase'[d] = phase[d] /\ ready'[d] = ready[d]
    BY <1>0, <1>1, <2>2 DEF Act, Start, PowerOnReturns, Subscribe, Recheck, WaitEnds,
         LaunchStart, LimitStart, LaunchSelect, Refused, Stop, LimitStop, Write, Request,
         EndAction, Begins, Moves, GivesUp, Unsubscribe, threads, ThreadsOK
  <2>3. phase'[c] = "waiting" => op # "Ready" \/ (phase[c] = "waiting" /\ ready'[c] = ready[c])
    BY <1>0, <1>1 DEF Act, Start, PowerOnReturns, Subscribe, Recheck, WaitEnds, LaunchStart,
         LimitStart, LaunchSelect, Refused, Stop, LimitStop, Write, Request, EndAction,
         Begins, Moves, GivesUp, Unsubscribe, threads, ThreadsOK
  <2> QED BY <1>0, <2>1, <2>2, <2>3 DEF WaitOK, cache
<1>2. ASSUME Worker PROVE WaitOK'
  <2>1. CASE Notify
    BY <1>0, <2>1 DEF Notify, WaitOK
  <2>2. CASE MergePower \/ \E v \in Ops : MergeOp(v)
    BY <1>0, <2>2 DEF MergePower, MergeOp, WaitOK, threads
  <2> QED BY <1>2, <2>1, <2>2 DEF Worker
<1>3. ASSUME Abort \/ Tick PROVE WaitOK'
  BY <1>0, <1>3 DEF Abort, Tick, WaitOK, threads, cache
<1> QED BY <1>1, <1>2, <1>3 DEF Next

----------------------------------------------------------------------------
(* What a start costs.                                                     *)

\* A request leaves the others alone.
LEMMA OthersAlone ==
  ASSUME NetP!ShapeOK, NEW c \in Callers, NEW d \in Callers \ {c},
         Net!Proceed(c) \/ Net!Leave(c) \/ Net!Call(c, TRUE) \/ Net!Call(c, FALSE)
  PROVE  pc'[d] = pc[d] /\ retryable'[d] = retryable[d] /\ executed'[d] = executed[d]
<1>1. \/ executed' = executed \/ executed' = [executed EXCEPT ![c] = 0]
      \/ executed' = [executed EXCEPT ![c] = @ + 1]
  BY DEF Net!Proceed, Net!Leave, Net!Call, Net!Abandon, Net!Send, Net!Succeeds, Net!Rejected,
     Net!Fails, Net!EndBackoff, Net!TooMany, Net!Unauthorized, Net!HandlerReturns,
     Net!Executes, Net!history
<1>2. retryable' = retryable \/ \E r \in BOOLEAN : retryable' = [retryable EXCEPT ![c] = r]
  BY DEF Net!Proceed, Net!Leave, Net!Call, Net!Abandon, Net!Send, Net!Succeeds, Net!Rejected,
     Net!Fails, Net!EndBackoff, Net!TooMany, Net!Unauthorized, Net!HandlerReturns,
     Net!Raises, Net!NextAttempt, Net!locals
<1>3. \E p : pc' = [pc EXCEPT ![c] = p]
  BY DEF Net!Proceed, Net!Leave, Net!Call, Net!Abandon, Net!Send, Net!Succeeds, Net!Rejected,
     Net!Fails, Net!EndBackoff, Net!TooMany, Net!Unauthorized, Net!HandlerReturns,
     Net!Raises, Net!Goto
<1> QED BY <1>1, <1>2, <1>3 DEF NetP!ShapeOK

\* A request that goes on does not become idle, keeps its kind, and is executed at
\* most once in a step.
LEMMA ProceedFacts ==
  ASSUME NetP!ShapeOK, NEW c \in Callers, Net!Proceed(c)
  PROVE  /\ pc[c] # "idle" /\ pc'[c] # "idle"
         /\ retryable' = retryable
         /\ executed' = executed \/ executed' = [executed EXCEPT ![c] = @ + 1]
<1>1. \/ executed' = executed \/ executed' = [executed EXCEPT ![c] = @ + 1]
  BY DEF Net!Proceed, Net!Abandon, Net!Send, Net!Succeeds, Net!Rejected,
     Net!Fails, Net!EndBackoff, Net!TooMany, Net!Unauthorized, Net!HandlerReturns,
     Net!Executes, Net!history
<1>2. retryable' = retryable
  BY DEF Net!Proceed, Net!Abandon, Net!Send, Net!Succeeds, Net!Rejected,
     Net!Fails, Net!EndBackoff, Net!TooMany, Net!Unauthorized, Net!HandlerReturns,
     Net!Raises, Net!NextAttempt, Net!locals
<1>3. \E p \in {"gate", "sent", "handler", "backoff", "returned", "raised"} :
          pc[c] # "idle" /\ pc' = [pc EXCEPT ![c] = p]
  BY DEF Net!Proceed, Net!Abandon, Net!Send, Net!Succeeds, Net!Rejected,
     Net!Fails, Net!EndBackoff, Net!TooMany, Net!Unauthorized, Net!HandlerReturns,
     Net!Raises, Net!Goto
<1> QED BY <1>1, <1>2, <1>3 DEF NetP!ShapeOK

\* One begins idle, and ends idle with nothing left.
LEMMA CallFacts ==
  ASSUME NetP!ShapeOK, NEW c \in Callers, NEW r \in BOOLEAN, Net!Call(c, r)
  PROVE  /\ pc[c] = "idle" /\ pc'[c] # "idle" /\ retryable'[c] = r
         /\ executed' = executed
BY DEF NetP!ShapeOK, Net!Call, Net!Goto, Net!history

LEMMA LeaveFacts ==
  ASSUME NetP!ShapeOK, NEW c \in Callers, Net!Leave(c)
  PROVE  pc[c] # "idle" /\ pc'[c] = "idle" /\ executed' = [executed EXCEPT ![c] = 0]
BY DEF NetP!ShapeOK, Net!Leave, Net!Over

\* The request of a thread, and no other, is under way in its phases.
LEMMA RequestKept ==
  ASSUME IInv, NetP!IInv, Next, NEW d \in Callers
  PROVE  RequestOK(d)'
<1>0. RequestOK(d) /\ ThreadsOK /\ NetP!ShapeOK
  BY DEF IInv, NetP!IInv
<1>1. ASSUME NEW c \in Callers, Act(c), c # d PROVE RequestOK(d)'
  <2>1. phase'[d] = phase[d]
    BY <1>0, <1>1 DEF Act, Start, PowerOnReturns, Subscribe, Recheck, WaitEnds,
         LaunchStart, LimitStart, LaunchSelect, Refused, Stop, LimitStop, Write, Request,
         EndAction, Begins, Moves, GivesUp, threads, ThreadsOK
  <2>2. \/ Net!Proceed(c) \/ Net!Leave(c) \/ Net!Call(c, TRUE) \/ Net!Call(c, FALSE)
        \/ UNCHANGED request
    BY <1>1 DEF Act, Start, PowerOnReturns, Subscribe, Recheck, WaitEnds, LaunchStart,
         LimitStart, LaunchSelect, Refused, Stop, LimitStop, Write, Request, EndAction
  <2>3. pc'[d] = pc[d] /\ retryable'[d] = retryable[d]
    BY <1>0, <1>1, <2>2, OthersAlone DEF request
  <2> QED BY <1>0, <2>1, <2>3 DEF RequestOK
<1>2. ASSUME Act(d) PROVE RequestOK(d)'
  <2> USE DEF RequestOK, Requesting
  <2>1. CASE LaunchStart(d)
    <3>1. Net!Call(d, FALSE) /\ phase' = [phase EXCEPT ![d] = "starting"]
      BY <2>1 DEF LaunchStart, Moves
    <3> QED BY <1>0, <3>1, CallFacts DEF ThreadsOK
  <2>2. CASE LaunchSelect(d) \/ Stop(d) \/ Write(d)
    <3>1. /\ Net!Call(d, TRUE)
          /\ \E p \in {"stopping", "writing"} : phase' = [phase EXCEPT ![d] = p]
      BY <2>2 DEF LaunchSelect, Stop, Write, Begins, Moves
    <3> QED BY <1>0, <3>1, CallFacts DEF ThreadsOK
  <2>3. CASE \E select, powerOnFirst \in BOOLEAN : Start(d, select, powerOnFirst)
    <3>1. /\ phase[d] = "idle"
          /\ \/ Net!Call(d, TRUE) /\ phase' = [phase EXCEPT ![d] = "powering"]
             \/ UNCHANGED request /\ phase' = [phase EXCEPT ![d] = "launch"]
      BY <2>3 DEF Start, Begins, Moves
    <3> QED BY <1>0, <3>1, CallFacts DEF ThreadsOK, request
  <2>4. CASE PowerOnReturns(d) \/ EndAction(d)
    <3>1. /\ Net!Leave(d)
          /\ \E p \in {"launch", "subscribe", "idle"} : phase' = [phase EXCEPT ![d] = p]
      BY <2>4 DEF PowerOnReturns, EndAction, Moves, GivesUp
    <3> QED BY <1>0, <3>1, LeaveFacts DEF ThreadsOK
  <2>5. CASE Subscribe(d) \/ Recheck(d) \/ WaitEnds(d) \/ LimitStart(d) \/ Refused(d)
             \/ LimitStop(d)
    <3>1. /\ phase[d] \notin Requesting
          /\ \/ phase' = phase
             \/ \E p \in {"subscribed", "launch", "waiting", "idle"} :
                   phase' = [phase EXCEPT ![d] = p]
          /\ UNCHANGED request
      BY <2>5 DEF Subscribe, Recheck, WaitEnds, LimitStart, Refused, LimitStop, Moves, GivesUp,
                  threads
    <3> QED BY <1>0, <3>1 DEF ThreadsOK, request
  <2>6. CASE Request(d)
    <3>1. Net!Proceed(d) /\ phase' = phase
      BY <2>6 DEF Request, threads
    <3> QED BY <1>0, <3>1, ProceedFacts
  <2> QED BY <1>2, <2>1, <2>2, <2>3, <2>4, <2>5, <2>6 DEF Act
<1>3. ASSUME Worker \/ Abort \/ Tick PROVE RequestOK(d)'
  <2>1. phase' = phase /\ pc' = pc /\ retryable' = retryable
    BY <1>3 DEF Worker, MergeOp, MergePower, Notify, Abort, Tick, threads, request,
       Net!ClientAborts, Net!Tick, Net!locals
  <2> QED BY <1>0, <2>1 DEF RequestOK
<1> QED BY <1>1, <1>2, <1>3 DEF Next

\* A step that neither grants nor executes a start, and begins none, costs nothing.
LEMMA NothingSpent ==
  ASSUME PaidOK, ran' = ran, Len(starts') = Len(starts), Unspent' \subseteq Unspent
  PROVE  PaidOK'
<1>1. IsFiniteSet(Unspent') /\ Cardinality(Unspent') <= Cardinality(Unspent)
  BY FS_Subset DEF PaidOK
<1>2. Cardinality(Unspent) \in Nat /\ Cardinality(Unspent') \in Nat
  BY <1>1, FS_CardinalityType DEF PaidOK
<1> DEFINE m == Cardinality(Unspent)
           n == Cardinality(Unspent')
<1> HIDE DEF m, n
<1>3. ran + n <= Len(starts')
  <2>1. ran \in Nat /\ Len(starts) \in Int /\ ran + m <= Len(starts)
    BY DEF PaidOK, m
  <2> QED BY <1>1, <1>2, <2>1 DEF m, n
<1> QED BY <1>1, <1>3 DEF PaidOK, n

\* A start granted is one more to spend.
LEMMA OneGranted ==
  ASSUME PaidOK, ran' = ran, Len(starts) \in Nat, Len(starts') = Len(starts) + 1, NEW c,
         Unspent' \subseteq Unspent \cup {c}
  PROVE  PaidOK'
<1>1. /\ IsFiniteSet(Unspent \cup {c}) /\ Cardinality(Unspent) \in Nat
      /\ Cardinality(Unspent \cup {c}) <= Cardinality(Unspent) + 1
  <2>1. IsFiniteSet(Unspent) /\ Cardinality(Unspent) \in Nat
    BY FS_CardinalityType DEF PaidOK
  <2>2. /\ IsFiniteSet(Unspent \cup {c})
        /\ Cardinality(Unspent \cup {c})
               = IF c \in Unspent THEN Cardinality(Unspent) ELSE Cardinality(Unspent) + 1
    BY <2>1, FS_AddElement
  <2> QED BY <2>1, <2>2
<1>2. IsFiniteSet(Unspent') /\ Cardinality(Unspent') <= Cardinality(Unspent \cup {c})
  BY <1>1, FS_Subset
<1>3. Cardinality(Unspent') \in Nat /\ Cardinality(Unspent \cup {c}) \in Nat
  BY <1>1, <1>2, FS_CardinalityType
<1>4. ran' + Cardinality(Unspent') <= Len(starts')
  BY <1>1, <1>2, <1>3 DEF PaidOK
<1> QED BY <1>2, <1>4 DEF PaidOK

\* One that is executed is one less.
LEMMA OneExecuted ==
  ASSUME PaidOK, ran' = ran + 1, Len(starts) \in Nat, Len(starts') = Len(starts),
         NEW c \in Unspent, Unspent' \subseteq Unspent \ {c}
  PROVE  PaidOK'
<1>1. /\ IsFiniteSet(Unspent \ {c}) /\ Cardinality(Unspent) \in Nat
      /\ Cardinality(Unspent \ {c}) = Cardinality(Unspent) - 1
  BY FS_RemoveElement, FS_CardinalityType DEF PaidOK
<1>2. IsFiniteSet(Unspent') /\ Cardinality(Unspent') <= Cardinality(Unspent \ {c})
  BY <1>1, FS_Subset
<1>3. Cardinality(Unspent') \in Nat
  BY <1>2, FS_CardinalityType
<1>4. ran' \in Nat /\ ran' + Cardinality(Unspent') <= Len(starts')
  BY <1>1, <1>2, <1>3 DEF PaidOK
<1> QED BY <1>2, <1>4 DEF PaidOK

\* So the account is never overdrawn.
LEMMA PaidKept ==
  ASSUME IInv, Components, NetP!IInv', Next
  PROVE  PaidOK'
<1>0. /\ PaidOK /\ ThreadsOK /\ NetP!ShapeOK
      /\ starts \in Seq(0 .. MaxTime) /\ Len(starts) \in Nat
  BY DEF IInv, Components, NetP!IInv, StartP!IInv, StartP!TypeOK
<1>1. ASSUME NEW c \in Callers, Act(c) PROVE PaidOK'
  <2>1. ASSUME NEW d \in Callers \ {c} PROVE phase'[d] = phase[d] /\ executed'[d] = executed[d]
    <3>1. phase'[d] = phase[d]
      BY <1>0, <1>1 DEF Act, Start, PowerOnReturns, Subscribe, Recheck, WaitEnds,
         LaunchStart, LimitStart, LaunchSelect, Refused, Stop, LimitStop, Write, Request,
         EndAction, Begins, Moves, GivesUp, threads, ThreadsOK
    <3>2. \/ Net!Proceed(c) \/ Net!Leave(c) \/ Net!Call(c, TRUE) \/ Net!Call(c, FALSE)
          \/ UNCHANGED request
      BY <1>1 DEF Act, Start, PowerOnReturns, Subscribe, Recheck, WaitEnds, LaunchStart,
         LimitStart, LaunchSelect, Refused, Stop, LimitStop, Write, Request, EndAction
    <3> QED BY <1>0, <3>1, <3>2, OthersAlone DEF request
  <2>2. Unspent' \subseteq Unspent \cup {c}
    BY <2>1 DEF Unspent
  <2>3. CASE LaunchStart(c)
    <3>1. starts' = Append(starts, now) /\ ran' = ran
      BY <2>3 DEF LaunchStart, StartLimiter!Grant
    <3>2. Len(starts') = Len(starts) + 1
      <4>1. now \in 0 .. MaxTime
        BY DEF Components, StartP!IInv, StartP!TypeOK
      <4> QED BY <1>0, <3>1, <4>1
    <3> QED BY <1>0, <2>2, <3>1, <3>2, OneGranted
  <2>4. CASE Request(c)
    <3>1. /\ Net!Proceed(c) /\ UNCHANGED <<phase, starts>>
          /\ ran' = ran + (IF phase[c] = "starting" THEN executed'[c] - executed[c] ELSE 0)
      BY <2>4 DEF Request, threads, limiters, startLimiter
    <3>2. /\ executed[c] \in Nat /\ ran \in Nat
          /\ executed'[c] = executed[c] \/ executed'[c] = executed[c] + 1
          /\ retryable' = retryable
      BY <1>0, <3>1, ProceedFacts DEF NetP!ShapeOK, PaidOK
    <3>3. CASE phase[c] # "starting" \/ executed'[c] = executed[c]
      <4>1. ran' = ran
        BY <3>1, <3>2, <3>3
      <4>2. Unspent' \subseteq Unspent
        BY <2>1, <3>1, <3>3 DEF Unspent
      <4> QED BY <1>0, <3>1, <4>1, <4>2, NothingSpent
    <3>4. CASE phase[c] = "starting" /\ executed'[c] = executed[c] + 1
      <4>1. ~retryable'[c]
        BY <3>2, <3>4 DEF IInv, RequestOK
      <4>2. executed'[c] <= 1
        BY <4>1 DEF NetP!IInv, NetP!CallOK, NetP!OnceOK
      <4>3. executed[c] = 0 /\ executed'[c] = 1 /\ ran' = ran + 1
        BY <3>1, <3>2, <3>4, <4>2
      <4>4. c \in Unspent /\ Unspent' \subseteq Unspent \ {c}
        BY <2>1, <3>1, <3>4, <4>3 DEF Unspent
      <4> QED BY <1>0, <3>1, <4>3, <4>4, OneExecuted
    <3> QED BY <3>2, <3>3, <3>4
  <2>5. CASE ~LaunchStart(c) /\ ~Request(c)
    <3>1. ran' = ran /\ starts' = starts
      BY <1>1, <2>5 DEF Act, Start, PowerOnReturns, Subscribe, Recheck, WaitEnds, LimitStart,
         LaunchSelect, Refused, Stop, LimitStop, Write, EndAction, limiters, startLimiter,
         StartLimiter!Refuse
    <3>2. phase'[c] # "starting" \/ (phase'[c] = phase[c] /\ executed'[c] = executed[c])
      BY <1>0, <1>1, <2>5 DEF Act, Start, PowerOnReturns, Subscribe, Recheck, WaitEnds,
         LimitStart, LaunchSelect, Refused, Stop, LimitStop, Write, EndAction,
         Begins, Moves, GivesUp, threads, request, ThreadsOK
    <3>3. Unspent' \subseteq Unspent
      BY <2>1, <3>2 DEF Unspent
    <3> QED BY <1>0, <3>1, <3>3, NothingSpent
  <2> QED BY <2>3, <2>4, <2>5
<1>2. ASSUME Worker \/ Abort \/ Tick PROVE PaidOK'
  <2>1. UNCHANGED <<ran, starts, phase, executed>>
    BY <1>2 DEF Worker, MergeOp, MergePower, Notify, Abort, Tick, threads, request, limiters,
       startLimiter, Net!ClientAborts, Net!Tick, Net!history
  <2> QED BY <1>0, <2>1 DEF PaidOK, Unspent
<1> QED BY <1>1, <1>2 DEF Next

----------------------------------------------------------------------------
(* The theorems.                                                           *)

\* The invariant of the composition, which rests on those of its parts.
THEOREM Invariance == Spec => [](IInv /\ Components)
<1>1. Spec => []Components
  BY ComponentInvariants, PTL DEF Components
<1>2. IInv /\ Components /\ NetP!IInv' /\ [Next]_vars => IInv'
  <2> SUFFICES ASSUME IInv, Components, NetP!IInv', [Next]_vars PROVE IInv'
    OBVIOUS
  <2>1. CASE Next
    BY <2>1, ThreadsKept, WaitKept, RequestKept, PaidKept DEF IInv, Components
  <2>2. CASE UNCHANGED vars
    <3>1. UNCHANGED <<pc, retryable, executed, starts, threads, cache, ran, actions>>
      BY <2>2 DEF vars, request, limiters, startLimiter
    <3>2. ThreadsOK' /\ WaitOK'
      BY <3>1 DEF IInv, ThreadsOK, WaitOK, threads, cache
    <3>3. PaidOK'
      BY <3>1 DEF IInv, PaidOK, Unspent, threads
    <3>4. \A c \in Callers : RequestOK(c)'
      BY <3>1 DEF IInv, RequestOK, threads
    <3> QED BY <3>2, <3>3, <3>4 DEF IInv
  <2> QED BY <2>1, <2>2
<1>3. Components => NetP!IInv
  BY DEF Components
<1> QED BY <1>1, <1>2, <1>3, InitKeeps, PTL DEF Spec

\* The appliance executes no more program starts than the limiter granted, though
\* answers are lost, requests retried and resent, and threads start side by side.
THEOREM StartsPaid == Spec => []StartsArePaidFor
<1>1. IInv /\ Components => StartsArePaidFor
  <2> SUFFICES ASSUME IInv, Components PROVE ran <= Len(starts)
    BY DEF StartsArePaidFor
  <2>1. Cardinality(Unspent) \in Nat
    BY FS_CardinalityType DEF IInv, PaidOK
  <2>2. Len(starts) \in Nat
    BY DEF Components, StartP!IInv, StartP!TypeOK
  <2> QED BY <2>1, <2>2 DEF IInv, PaidOK
<1> QED BY <1>1, Invariance, PTL

\* A thread that waits for Ready is told of it, whenever the report comes.
THEOREM ReadyIsNotLost == Spec => []NoLostReady
<1>1. IInv => NoLostReady
  BY DEF IInv, WaitOK, NoLostReady, Ops
<1> QED BY <1>1, Invariance, PTL

\* Neither limiter lets more than Limit through in any window, with every thread
\* and both of them on one clock.
THEOREM LimitsHold == Spec => [](StartLimiter!WindowBounded /\ StopLimiter!WindowBounded)
<1>1. Components => StartLimiter!WindowBounded /\ StopLimiter!WindowBounded
  BY DEF Components, StartP!IInv, StopP!IInv, StartP!WindowBounded, StopP!WindowBounded,
     StartLimiter!WindowBounded, StopLimiter!WindowBounded, StartP!Grants, StopP!Grants,
     StartLimiter!Grants, StopLimiter!Grants
<1> QED BY <1>1, Invariance, PTL

\* Every variable keeps its type.
THEOREM TypeCorrect == Spec => []TypeOK
<1>1. Spec => []NetP!TypeOK
  <2>1. NetP!Spec => []NetP!TypeOK
    BY NetP!TypeCorrect, ComponentAssumptions
  <2> QED BY <2>1, ImplementsRequests, PTL
<1>2. ASSUME IInv, Components, NetP!TypeOK PROVE TypeOK
  <2>1. Net!TypeOK
    BY <1>2 DEF NetP!TypeOK, Net!TypeOK, NetP!Over, Net!Over
  <2>2. StartLimiter!TypeOK /\ StopLimiter!TypeOK
    BY <1>2 DEF Components, StartP!IInv, StopP!IInv, StartP!TypeOK, StopP!TypeOK,
       StartLimiter!TypeOK, StopLimiter!TypeOK
  <2> QED BY <1>2, <2>1, <2>2 DEF IInv, ThreadsOK, Phases, PaidOK, TypeOK
<1> QED BY <1>1, <1>2, Invariance, PTL

=============================================================================
