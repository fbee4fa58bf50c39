--------------------------- MODULE RequestsProofs ---------------------------
(***************************************************************************)
(* Proofs about Requests, for every set of callers, retry limit, backoff   *)
(* and gate.                                                               *)
(***************************************************************************)
EXTENDS Requests, TLAPS

\* The types the proofs need; what a backoff's length is does not matter.
ShapeOK ==
    /\ pc \in [Callers -> {"idle", "gate", "sent", "backoff", "handler",
               "returned", "raised"}]
    /\ retryable \in [Callers -> BOOLEAN]
    /\ attempt \in [Callers -> Nat]
    /\ resent \in [Callers -> BOOLEAN]
    /\ pause = [c \in Callers |-> pause[c]]
    /\ executed \in [Callers -> Nat]
    /\ sends \in [Callers -> Nat]

\* A request that may not be retried is executed only as it ends.
OnceOK(c) ==
    ~retryable[c] =>
        /\ executed[c] <= 1
        /\ pc[c] \in {"gate", "sent", "handler"} => executed[c] = 0
        /\ pc[c] # "backoff"

\* Each send is accounted for: the first, a retry, or the resend.
CostOK(c) ==
    /\ attempt[c] <= (IF retryable[c] THEN MaxRetries ELSE 0)
    /\ pc[c] = "backoff" => attempt[c] < MaxRetries
    /\ pc[c] = "handler" => ~resent[c]
    /\ sends[c] <= attempt[c] + (IF resent[c] THEN 1 ELSE 0)
                       + (IF pc[c] = "gate" THEN 0 ELSE 1)

\* A backoff is owed only while it is waited out.
PauseOK(c) == pc[c] \in {"gate", "sent", "handler"} => pause[c] = 0

\* Nothing is left of the requests before.
IdleOK(c) ==
    pc[c] = "idle" =>
        attempt[c] = 0 /\ ~resent[c] /\ pause[c] = 0 /\ executed[c] = 0 /\ sends[c] = 0

CallOK(c) == OnceOK(c) /\ CostOK(c) /\ PauseOK(c) /\ IdleOK(c)

\* The inductive invariant.
IInv == ShapeOK /\ \A c \in Callers : CallOK(c)

----------------------------------------------------------------------------
(* A step of one caller leaves the others alone; what it does to its own   *)
(* part of the invariant is shown action by action.                        *)

\* What a step of caller c changes is c's alone.
Alone(c) ==
    \A d \in Callers \ {c} :
        /\ pc'[d] = pc[d] /\ retryable'[d] = retryable[d]
        /\ attempt'[d] = attempt[d] /\ resent'[d] = resent[d]
        /\ pause'[d] = pause[d]
        /\ executed'[d] = executed[d] /\ sends'[d] = sends[d]

\* So the others' part of the invariant survives it.
LEMMA OthersKeep ==
  ASSUME IInv, NEW c \in Callers, Alone(c), ShapeOK', CallOK(c)'
  PROVE  IInv'
<1>1. \A d \in Callers \ {c} : CallOK(d)'
  BY DEF IInv, Alone, CallOK, OnceOK, CostOK, PauseOK, IdleOK
<1> QED BY <1>1 DEF IInv

\* The steps of one caller.
LEMMA ProceedKeeps ==
  ASSUME IInv, NEW c \in Callers, Proceed(c)
  PROVE  IInv'
<1> USE RequestsOK DEF RequestsOK
<1>0. ShapeOK /\ CallOK(c)
  BY DEF IInv
<1>1. CASE Abandon(c)
  <2>1. ShapeOK'
    BY <1>0, <1>1 DEF ShapeOK, Abandon, Raises, Goto, locals, shared, history
  <2>2. Alone(c)
    BY <1>0, <1>1 DEF ShapeOK, Alone, Abandon, Raises, Goto, locals, shared, history
  <2>3. OnceOK(c)'
    BY <1>0, <1>1 DEF ShapeOK, CallOK, OnceOK, Abandon, Raises, Goto, locals, shared, history
  <2>4. CostOK(c)'
    BY <1>0, <1>1 DEF ShapeOK, CallOK, CostOK, Abandon, Raises, Goto, locals, shared, history
  <2>5. PauseOK(c)'
    BY <1>0, <1>1 DEF ShapeOK, CallOK, PauseOK, Abandon, Raises, Goto, locals, shared, history
  <2>6. IdleOK(c)'
    BY <1>0, <1>1 DEF ShapeOK, IdleOK, Abandon, Raises, Goto, locals, shared, history
  <2> QED BY <2>1, <2>2, <2>3, <2>4, <2>5, <2>6, OthersKeep DEF CallOK
<1>2. CASE Send(c)
  <2>1. ShapeOK'
    BY <1>0, <1>2 DEF ShapeOK, Send, Goto, locals, shared
  <2>2. Alone(c)
    BY <1>0, <1>2 DEF ShapeOK, Alone, Send, Goto, locals, shared
  <2>3. OnceOK(c)'
    BY <1>0, <1>2 DEF ShapeOK, CallOK, OnceOK, Send, Goto, locals, shared
  <2>4. CostOK(c)'
    BY <1>0, <1>2 DEF ShapeOK, CallOK, CostOK, Send, Goto, locals, shared
  <2>5. PauseOK(c)'
    BY <1>0, <1>2 DEF ShapeOK, CallOK, PauseOK, Send, Goto, locals, shared
  <2>6. IdleOK(c)'
    BY <1>0, <1>2 DEF ShapeOK, IdleOK, Send, Goto, locals, shared
  <2> QED BY <2>1, <2>2, <2>3, <2>4, <2>5, <2>6, OthersKeep DEF CallOK
<1>3. CASE Succeeds(c)
  <2>1. ShapeOK'
    BY <1>0, <1>3 DEF ShapeOK, Succeeds, Goto, Executes, locals, shared
  <2>2. Alone(c)
    BY <1>0, <1>3 DEF ShapeOK, Alone, Succeeds, Goto, Executes, locals, shared
  <2>3. OnceOK(c)'
    BY <1>0, <1>3 DEF ShapeOK, CallOK, OnceOK, Succeeds, Goto, Executes, locals, shared
  <2>4. CostOK(c)'
    BY <1>0, <1>3 DEF ShapeOK, CallOK, CostOK, Succeeds, Goto, Executes, locals, shared
  <2>5. PauseOK(c)'
    BY <1>0, <1>3 DEF ShapeOK, CallOK, PauseOK, Succeeds, Goto, Executes, locals, shared
  <2>6. IdleOK(c)'
    BY <1>0, <1>3 DEF ShapeOK, IdleOK, Succeeds, Goto, Executes, locals, shared
  <2> QED BY <2>1, <2>2, <2>3, <2>4, <2>5, <2>6, OthersKeep DEF CallOK
<1>4. CASE Rejected(c)
  <2>1. ShapeOK'
    BY <1>0, <1>4 DEF ShapeOK, Rejected, Raises, Goto, locals, shared, history
  <2>2. Alone(c)
    BY <1>0, <1>4 DEF ShapeOK, Alone, Rejected, Raises, Goto, locals, shared, history
  <2>3. OnceOK(c)'
    BY <1>0, <1>4 DEF ShapeOK, CallOK, OnceOK, Rejected, Raises, Goto, locals, shared, history
  <2>4. CostOK(c)'
    BY <1>0, <1>4 DEF ShapeOK, CallOK, CostOK, Rejected, Raises, Goto, locals, shared, history
  <2>5. PauseOK(c)'
    BY <1>0, <1>4 DEF ShapeOK, CallOK, PauseOK, Rejected, Raises, Goto, locals, shared, history
  <2>6. IdleOK(c)'
    BY <1>0, <1>4 DEF ShapeOK, IdleOK, Rejected, Raises, Goto, locals, shared, history
  <2> QED BY <2>1, <2>2, <2>3, <2>4, <2>5, <2>6, OthersKeep DEF CallOK
<1>5. CASE Fails(c)
  <2>1. ShapeOK'
    BY <1>0, <1>5 DEF ShapeOK, Fails, Raises, Goto, CanRetry, Executes, locals
  <2>2. Alone(c)
    BY <1>0, <1>5 DEF ShapeOK, Alone, Fails, Raises, Goto, CanRetry, Executes, locals
  <2>3. OnceOK(c)'
    BY <1>0, <1>5 DEF ShapeOK, CallOK, OnceOK, Fails, Raises, Goto, CanRetry, Executes, locals
  <2>4. CostOK(c)'
    BY <1>0, <1>5 DEF ShapeOK, CallOK, CostOK, Fails, Raises, Goto, CanRetry, Executes, locals
  <2>5. PauseOK(c)'
    BY <1>0, <1>5 DEF ShapeOK, CallOK, PauseOK, Fails, Raises, Goto, CanRetry, Executes, locals
  <2>6. IdleOK(c)'
    BY <1>0, <1>5 DEF ShapeOK, IdleOK, Fails, Raises, Goto, CanRetry, Executes, locals
  <2> QED BY <2>1, <2>2, <2>3, <2>4, <2>5, <2>6, OthersKeep DEF CallOK
<1>6. CASE EndBackoff(c)
  <2>1. ShapeOK'
    BY <1>0, <1>6 DEF ShapeOK, EndBackoff, Raises, Goto, NextAttempt, locals, shared, history
  <2>2. Alone(c)
    BY <1>0, <1>6 DEF ShapeOK, Alone, EndBackoff, Raises, Goto, NextAttempt, locals, shared, history
  <2>3. OnceOK(c)'
    BY <1>0, <1>6 DEF ShapeOK, CallOK, OnceOK, EndBackoff, Raises, Goto, NextAttempt, locals, shared, history
  <2>4. CostOK(c)'
    BY <1>0, <1>6 DEF ShapeOK, CallOK, CostOK, OnceOK, EndBackoff, Raises, Goto, NextAttempt, locals, shared, history
  <2>5. PauseOK(c)'
    BY <1>0, <1>6 DEF ShapeOK, CallOK, PauseOK, EndBackoff, Raises, Goto, NextAttempt, locals, shared, history
  <2>6. IdleOK(c)'
    BY <1>0, <1>6 DEF ShapeOK, IdleOK, EndBackoff, Raises, Goto, NextAttempt, locals, shared, history
  <2> QED BY <2>1, <2>2, <2>3, <2>4, <2>5, <2>6, OthersKeep DEF CallOK
<1>7. CASE TooMany(c)
  <2>1. ShapeOK'
    BY <1>0, <1>7 DEF ShapeOK, TooMany, Raises, Goto, CanRetry, NextAttempt, locals, history
  <2>2. Alone(c)
    BY <1>0, <1>7 DEF ShapeOK, Alone, TooMany, Raises, Goto, CanRetry, NextAttempt, locals, history
  <2>3. OnceOK(c)'
    BY <1>0, <1>7 DEF ShapeOK, CallOK, OnceOK, TooMany, Raises, Goto, CanRetry, NextAttempt, locals, history
  <2>4. CostOK(c)'
    BY <1>0, <1>7 DEF ShapeOK, CallOK, CostOK, TooMany, Raises, Goto, CanRetry, NextAttempt, locals, history
  <2>5. PauseOK(c)'
    BY <1>0, <1>7 DEF ShapeOK, CallOK, PauseOK, TooMany, Raises, Goto, CanRetry, NextAttempt, locals, history
  <2>6. IdleOK(c)'
    BY <1>0, <1>7 DEF ShapeOK, IdleOK, TooMany, Raises, Goto, CanRetry, NextAttempt, locals, history
  <2> QED BY <2>1, <2>2, <2>3, <2>4, <2>5, <2>6, OthersKeep DEF CallOK
<1>8. CASE Unauthorized(c)
  <2>1. ShapeOK'
    BY <1>0, <1>8 DEF ShapeOK, Unauthorized, Raises, Goto, locals, shared, history
  <2>2. Alone(c)
    BY <1>0, <1>8 DEF ShapeOK, Alone, Unauthorized, Raises, Goto, locals, shared, history
  <2>3. OnceOK(c)'
    BY <1>0, <1>8 DEF ShapeOK, CallOK, OnceOK, Unauthorized, Raises, Goto, locals, shared, history
  <2>4. CostOK(c)'
    BY <1>0, <1>8 DEF ShapeOK, CallOK, CostOK, Unauthorized, Raises, Goto, locals, shared, history
  <2>5. PauseOK(c)'
    BY <1>0, <1>8 DEF ShapeOK, CallOK, PauseOK, Unauthorized, Raises, Goto, locals, shared, history
  <2>6. IdleOK(c)'
    BY <1>0, <1>8 DEF ShapeOK, IdleOK, Unauthorized, Raises, Goto, locals, shared, history
  <2> QED BY <2>1, <2>2, <2>3, <2>4, <2>5, <2>6, OthersKeep DEF CallOK
<1>9. CASE HandlerReturns(c)
  <2>1. ShapeOK'
    BY <1>0, <1>9 DEF ShapeOK, HandlerReturns, Raises, Goto, locals, shared, history
  <2>2. Alone(c)
    BY <1>0, <1>9 DEF ShapeOK, Alone, HandlerReturns, Raises, Goto, locals, shared, history
  <2>3. OnceOK(c)'
    BY <1>0, <1>9 DEF ShapeOK, CallOK, OnceOK, HandlerReturns, Raises, Goto, locals, shared, history
  <2>4. CostOK(c)'
    BY <1>0, <1>9 DEF ShapeOK, CallOK, CostOK, HandlerReturns, Raises, Goto, locals, shared, history
  <2>5. PauseOK(c)'
    BY <1>0, <1>9 DEF ShapeOK, CallOK, PauseOK, HandlerReturns, Raises, Goto, locals, shared, history
  <2>6. IdleOK(c)'
    BY <1>0, <1>9 DEF ShapeOK, IdleOK, HandlerReturns, Raises, Goto, locals, shared, history
  <2> QED BY <2>1, <2>2, <2>3, <2>4, <2>5, <2>6, OthersKeep DEF CallOK
<1> QED BY <1>1, <1>2, <1>3, <1>4, <1>5, <1>6, <1>7, <1>8, <1>9 DEF Proceed

\* A new request starts within the invariant.
LEMMA CallKeeps ==
  ASSUME IInv, NEW c \in Callers, NEW r \in BOOLEAN, Call(c, r)
  PROVE  IInv'
<1>0. ShapeOK /\ CallOK(c)
  BY DEF IInv
<1>1. ShapeOK'
  BY <1>0 DEF ShapeOK, Call, Goto, shared, history
<1>2. Alone(c)
  BY <1>0 DEF ShapeOK, Alone, Call, Goto, shared, history
<1>3. OnceOK(c)'
  BY <1>0 DEF ShapeOK, CallOK, IdleOK, OnceOK, Call, Goto, shared, history
<1>4. CostOK(c)'
  BY <1>0, RequestsOK DEF ShapeOK, CallOK, IdleOK, CostOK, Call, Goto, shared, history, RequestsOK
<1>5. PauseOK(c)'
  BY <1>0 DEF ShapeOK, CallOK, IdleOK, PauseOK, Call, Goto, shared, history
<1>6. IdleOK(c)'
  BY <1>0 DEF ShapeOK, IdleOK, Call, Goto
<1> QED BY <1>1, <1>2, <1>3, <1>4, <1>5, <1>6, OthersKeep DEF CallOK

\* A request that is over leaves nothing behind.
LEMMA LeaveKeeps ==
  ASSUME IInv, NEW c \in Callers, Leave(c)
  PROVE  IInv'
<1>0. ShapeOK
  BY DEF IInv
<1>1. ShapeOK'
  BY <1>0 DEF ShapeOK, Leave
<1>2. Alone(c)
  BY <1>0 DEF ShapeOK, Alone, Leave
<1>3. OnceOK(c)'
  BY <1>0 DEF ShapeOK, OnceOK, Leave
<1>4. CostOK(c)'
  BY <1>0, RequestsOK DEF ShapeOK, CostOK, Leave, RequestsOK
<1>5. PauseOK(c)'
  BY <1>0 DEF ShapeOK, PauseOK, Leave
<1>6. IdleOK(c)'
  BY <1>0 DEF ShapeOK, IdleOK, Leave
<1> QED BY <1>1, <1>2, <1>3, <1>4, <1>5, <1>6, OthersKeep DEF CallOK

\* Time and abort() keep the invariant.
LEMMA EnvironmentKeeps ==
  ASSUME IInv, ClientAborts \/ Tick
  PROVE  IInv'
<1>1. ShapeOK'
  BY DEF IInv, ShapeOK, ClientAborts, Tick, locals, history
<1>2. ASSUME NEW c \in Callers PROVE CallOK(c)'
  <2>1. PauseOK(c)'
    BY DEF IInv, ShapeOK, CallOK, PauseOK, Sooner, ClientAborts, Tick, locals, history
  <2>2. OnceOK(c)' /\ CostOK(c)'
    BY DEF IInv, CallOK, OnceOK, CostOK, ClientAborts, Tick, locals, history
  <2>3. IdleOK(c)'
    BY DEF IInv, ShapeOK, CallOK, IdleOK, Sooner, ClientAborts, Tick, locals, history
  <2> QED BY <2>1, <2>2, <2>3 DEF CallOK
<1> QED BY <1>1, <1>2 DEF IInv

\* The invariant is inductive.
LEMMA InitInvariant == Init => IInv
<1> SUFFICES ASSUME Init PROVE IInv
  OBVIOUS
<1>1. ShapeOK
  BY DEF Init, ShapeOK
<1>2. ASSUME NEW c \in Callers PROVE CallOK(c)
  BY RequestsOK DEF Init, CallOK, OnceOK, CostOK, PauseOK, IdleOK, RequestsOK
<1> QED BY <1>1, <1>2 DEF IInv

LEMMA StepInvariant == IInv /\ [Next]_vars => IInv'
<1> SUFFICES ASSUME IInv, [Next]_vars PROVE IInv'
  OBVIOUS
<1>1. ASSUME NEW c \in Callers, Proceed(c) PROVE IInv'
  BY <1>1, ProceedKeeps
<1>2. ASSUME NEW c \in Callers, NEW r \in BOOLEAN, Call(c, r) PROVE IInv'
  BY <1>2, CallKeeps
<1>3. ASSUME NEW c \in Callers, Leave(c) PROVE IInv'
  BY <1>3, LeaveKeeps
<1>4. CASE ClientAborts \/ Tick
  BY <1>4, EnvironmentKeeps
<1>5. CASE UNCHANGED vars
  BY <1>5 DEF vars, locals, history, IInv, ShapeOK, CallOK, OnceOK, CostOK, PauseOK, IdleOK
<1> QED BY <1>1, <1>2, <1>3, <1>4, <1>5 DEF Next

\* The invariant holds of every behaviour.
THEOREM Invariance == Spec => []IInv
BY InitInvariant, StepInvariant, PTL DEF Spec

----------------------------------------------------------------------------
(* What the invariant leaves out of the types.                             *)

RestOK ==
    /\ pause \in [Callers -> Int] /\ \A c \in Callers : pause[c] >= 0
    /\ gate \in Nat
    /\ aborted \in BOOLEAN
    /\ events \in 0 .. MaxEvents

\* The types follow, attempt's bound from what a call may cost.
LEMMA TypesFollow ==
  ASSUME IInv, RestOK
  PROVE  TypeOK
<1>1. attempt \in [Callers -> 0 .. MaxRetries]
  <2>1. ASSUME NEW c \in Callers PROVE attempt[c] \in 0 .. MaxRetries
    <3>1. attempt[c] \in Nat /\ attempt[c] <= (IF retryable[c] THEN MaxRetries ELSE 0)
      BY DEF IInv, ShapeOK, CallOK, CostOK
    <3> QED BY <3>1, RequestsOK DEF RequestsOK
  <2>2. attempt \in [Callers -> Nat]
    BY DEF IInv, ShapeOK
  <2> QED BY <2>1, <2>2
<1> QED BY <1>1 DEF IInv, ShapeOK, RestOK, TypeOK, Over

\* No step leaves them.
LEMMA RestKeeps ==
  ASSUME IInv, RestOK, NEW c \in Callers,
         Proceed(c) \/ Leave(c) \/ (\E r \in BOOLEAN : Call(c, r))
  PROVE  RestOK'
<1>1. ASSUME NEW n \in Int, n >= 0, pause' = [pause EXCEPT ![c] = n]
      PROVE  pause' \in [Callers -> Int] /\ \A d \in Callers : pause'[d] >= 0
  BY <1>1 DEF RestOK
<1>2. pause' \in [Callers -> Int] /\ \A d \in Callers : pause'[d] >= 0
  <2>1. CASE Fails(c)
    <3>1. CASE CanRetry(c)
      <4>1. attempt[c] \in 0 .. MaxRetries
        BY <3>1, RequestsOK DEF IInv, ShapeOK, CanRetry, RequestsOK
      <4>2. BackoffBase * 2 ^ attempt[c] \in Nat
        BY <4>1, BackoffsOK DEF BackoffsOK
      <4>3. pause' = [pause EXCEPT ![c] = BackoffBase * 2 ^ attempt[c]]
        BY <2>1, <3>1 DEF Fails
      <4> DEFINE n == BackoffBase * 2 ^ attempt[c]
      <4> HIDE DEF n
      <4>4. n \in Int /\ n >= 0 /\ pause' = [pause EXCEPT ![c] = n]
        BY <4>2, <4>3 DEF n
      <4> QED BY <1>1, <4>4
    <3>2. CASE ~CanRetry(c)
      <4>1. pause' = pause
        BY <2>1, <3>2 DEF Fails, Raises, locals
      <4> QED BY <4>1 DEF RestOK
    <3> QED BY <3>1, <3>2
  <2>2. CASE Leave(c)
    <3>1. pause' = [pause EXCEPT ![c] = 0]
      BY <2>2 DEF Leave
    <3> QED BY <3>1 DEF RestOK
  <2>3. CASE \/ Abandon(c) \/ Send(c) \/ Succeeds(c) \/ Rejected(c) \/ EndBackoff(c)
             \/ TooMany(c) \/ Unauthorized(c) \/ HandlerReturns(c)
             \/ (\E r \in BOOLEAN : Call(c, r))
    <3>1. pause' = pause
      BY <2>3 DEF Abandon, Send, Succeeds, Rejected, EndBackoff, TooMany, Unauthorized,
                  HandlerReturns, Call, Raises, NextAttempt, locals
    <3> QED BY <3>1 DEF RestOK
  <2> QED BY <2>1, <2>2, <2>3 DEF Proceed
<1>3. gate' \in Nat
  <2>1. gate \in Nat /\ \A w \in RetryAfters : Higher(gate, w) \in Nat
    BY RequestsOK DEF RestOK, Higher, RequestsOK
  <2>2. \/ gate' = gate
        \/ \E w \in RetryAfters : gate' = Higher(gate, w)
    BY DEF Proceed, Abandon, Send, Succeeds, Rejected, Fails, EndBackoff, TooMany, Unauthorized,
           HandlerReturns, Leave, Call, Raises, shared
  <2> QED BY <2>1, <2>2
<1>4. aborted' \in BOOLEAN
  <2>1. aborted' = aborted
    BY DEF Proceed, Abandon, Send, Succeeds, Rejected, Fails, EndBackoff, TooMany, Unauthorized,
           HandlerReturns, Leave, Call, Raises, shared
  <2> QED BY <2>1 DEF RestOK
<1>5. events' \in 0 .. MaxEvents
  <2>1. events' = events \/ (events < MaxEvents /\ events' = events + 1)
    BY DEF Proceed, Abandon, Send, Succeeds, Rejected, Fails, EndBackoff, TooMany, Unauthorized,
           HandlerReturns, Leave, Call, Raises, shared
  <2> QED BY <2>1, RequestsOK DEF RestOK, RequestsOK
<1> QED BY <1>2, <1>3, <1>4, <1>5 DEF RestOK

LEMMA EnvironmentKeepsRest ==
  ASSUME IInv, RestOK, ClientAborts \/ Tick
  PROVE  RestOK'
<1>1. CASE ClientAborts
  BY <1>1 DEF ClientAborts, RestOK, locals
<1>2. CASE Tick
  BY <1>2 DEF Tick, Sooner, RestOK
<1> QED BY <1>1, <1>2

----------------------------------------------------------------------------
(* The theorems.                                                           *)

\* Every variable keeps its type, and no call exceeds its retries.
THEOREM TypeCorrect == Spec => []TypeOK
<1>1. Init => RestOK
  <2> SUFFICES ASSUME Init PROVE RestOK
    OBVIOUS
  <2>1. gate = 0 /\ aborted = FALSE /\ events = 0 /\ pause = [c \in Callers |-> 0]
    BY DEF Init
  <2>2. 0 \in 0 .. MaxEvents
    BY RequestsOK DEF RequestsOK
  <2>3. pause \in [Callers -> Int] /\ \A c \in Callers : pause[c] >= 0
    BY <2>1
  <2>4. gate \in Nat /\ events \in 0 .. MaxEvents
    BY <2>1, <2>2
  <2>5. aborted \in BOOLEAN
    BY <2>1
  <2> QED BY <2>3, <2>4, <2>5 DEF RestOK
<1>2. IInv /\ RestOK /\ [Next]_vars => RestOK'
  <2> SUFFICES ASSUME IInv, RestOK, [Next]_vars PROVE RestOK'
    OBVIOUS
  <2>1. CASE UNCHANGED vars
    BY <2>1 DEF vars, locals, shared, RestOK
  <2> QED BY <2>1, RestKeeps, EnvironmentKeepsRest DEF Next
<1>3. IInv /\ RestOK => TypeOK
  BY TypesFollow
<1> QED BY <1>1, <1>2, <1>3, Invariance, PTL DEF Spec

\* A request sent with no_retry is executed at most once, whatever is lost.
THEOREM NeverTwice == Spec => []AtMostOnce
<1>1. IInv => AtMostOnce
  BY DEF IInv, CallOK, OnceOK, AtMostOnce
<1> QED BY <1>1, Invariance, PTL

\* No call is sent more often than its retries and one resend allow.
THEOREM CostBounded == Spec => []SendsBounded
<1>1. ASSUME IInv, NEW c \in Callers
      PROVE  sends[c] <= 2 + (IF retryable[c] THEN MaxRetries ELSE 0)
  <2>1. /\ sends[c] \in Nat /\ attempt[c] \in Nat
        /\ retryable[c] \in BOOLEAN /\ CostOK(c)
    BY <1>1 DEF IInv, ShapeOK, CallOK
  <2>2. sends[c] <= attempt[c] + 2
    BY <2>1 DEF CostOK
  <2>3. CASE retryable[c]
    <3>1. attempt[c] <= MaxRetries
      BY <2>1, <2>3 DEF CostOK
    <3> QED BY <2>1, <2>2, <2>3, <3>1, RequestsOK DEF RequestsOK
  <2>4. CASE ~retryable[c]
    <3>1. attempt[c] <= 0
      BY <2>1, <2>4 DEF CostOK
    <3> QED BY <2>1, <2>2, <2>4, <3>1
  <2> QED BY <2>3, <2>4
<1>2. IInv => SendsBounded
  BY <1>1 DEF SendsBounded
<1> QED BY <1>2, Invariance, PTL

\* Nothing is sent while a backoff is owed.
THEOREM BackoffKept == Spec => RetriesSpaced
<1>1. IInv /\ [Next]_vars => [\A c \in Callers : Send(c) => pause[c] = 0]_vars
  BY DEF IInv, CallOK, PauseOK, Send, Goto
<1> QED BY <1>1, Invariance, PTL DEF Spec, RetriesSpaced

=============================================================================
