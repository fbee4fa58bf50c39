------------------------- MODULE EventStreamProofs -------------------------
(***************************************************************************)
(* EventStream for every value of its constants: the stop() of the         *)
(* coordinator reaches every stream, no stream leaks, an outage costs a    *)
(* bounded number of opens, a renewal is quick, and the reader implements  *)
(* StreamFeed, which the appliances rely on.                               *)
(***************************************************************************)
EXTENDS EventStream, TLAPS

\* A bracket is open exactly while a stream is read or about to be left; only
\* an attempt that never opened one ends with an error and no bracket.
BracketOK ==
    /\ up => pc \in {"reading", "ended"}
    /\ pc = "reading" => up
    /\ pc = "ended" => cause # "none" /\ (cause # "error" => up)

\* Who can still reach the socket: the reader until it has registered it, then
\* whoever empties _current first.
SocketOK ==
    /\ current => stream = "open" /\ pc \in {"registered", "reading", "ended"}
    /\ stream = "open" => pc = "opened" \/ current
    /\ pc = "opened" => stream = "open"
    /\ pc \in {"registered", "reading"} /\ stopper # "closed" => current
    /\ pc = "reading" /\ stopper = "closed" => stream = "shut"

\* Once the failures call for it, the next open is sent ReconnectExtended after
\* the last; until then each failure accounts for at most two opens.
Rested == failures >= EscalateAfter => sinceSent = ReconnectExtended

BudgetOK ==
    /\ burst <= 2 * EscalateAfter
    /\ pc \in {"top", "wait"} => burst <= 2 * failures
    /\ pc = "wait" /\ failures >= EscalateAfter /\ ~Stopping
           => sinceSent + wait >= ReconnectExtended
    /\ pc = "top" /\ ~Stopping => Rested
    /\ pc = "gate" /\ ~resent => Rested /\ burst <= 2 * failures
    /\ (pc = "opening" /\ ~resent) \/ (pc = "gate" /\ resent)
           => burst <= 2 * EscalateAfter - 1 /\ burst <= 2 * failures + 1
    /\ pc \in {"opening", "opened", "registered", "reading", "ended"}
           => burst <= 2 * failures + 2

\* A stream starts with no backoff and no age, and has lived for as long as it
\* was idle.
FreshOK ==
    /\ up => backoff = 0 /\ (idle <= lived \/ lived = StableSeconds)
    /\ pc = "ended" /\ cause = "renewal" => lived = StableSeconds

\* TypeOK, in the part about truth values and the part about the rest.
FlagsOK ==
    /\ current \in BOOLEAN
    /\ resent \in BOOLEAN
    /\ auth \in BOOLEAN
    /\ active \in BOOLEAN
    /\ aborted \in BOOLEAN
    /\ up \in BOOLEAN

RangesOK ==
    /\ pc \in {"top", "gate", "opening", "opened", "registered", "reading",
               "ended", "wait", "done"}
    /\ stream \in {"none", "open", "shut"}
    /\ cause \in {"none", "end", "error", "renewal"}
    /\ lived \in 0 .. StableSeconds
    /\ idle \in 0 .. ZombieAfter
    /\ backoff \in 0 .. ReconnectExtended
    /\ failures \in Nat
    /\ wait \in Nat
    /\ stopper \in {"no", "set", "closed"}
    /\ gate \in Nat
    /\ said \in {"nothing", "start", "event", "stop", "stopError"}
    /\ sinceSent \in 0 .. ReconnectExtended
    /\ burst \in Nat
    /\ events \in 0 .. MaxEvents

\* The type invariant, split for the provers: flags and ranges.
LEMMA TypeIsBoth == TypeOK <=> FlagsOK /\ RangesOK
BY DEF TypeOK, FlagsOK, RangesOK

IInv == TypeOK /\ BracketOK /\ SocketOK /\ BudgetOK /\ FreshOK

----------------------------------------------------------------------------
(* Every step preserves the invariant, part by part. *)

\* The flags stay Boolean.
LEMMA StepKeepsFlags == IInv /\ [Next]_vars => FlagsOK'
<1> SUFFICES ASSUME FlagsOK, [Next]_vars PROVE FlagsOK'
  BY DEF IInv, TypeOK, FlagsOK
<1> USE ConstantsOK DEF FlagsOK, ConstantsOK, Goto, Stopping,
       attempt, ages, pause, world, history
<1>1. CASE PauseForAuth
  BY <1>1 DEF PauseForAuth
<1>2. CASE BeginOpen
  BY <1>2 DEF BeginOpen
<1>3. CASE Finish
  BY <1>3 DEF Finish
<1>4. CASE AbandonGate
  BY <1>4 DEF AbandonGate, Fail
<1>5. CASE SendOpen
  BY <1>5 DEF SendOpen
<1>6. CASE OpenSucceeds
  BY <1>6 DEF OpenSucceeds
<1>7. CASE ResendOpen
  BY <1>7 DEF ResendOpen
<1>8. CASE OpenFails
  BY <1>8 DEF OpenFails, Fail, Higher
<1>9. CASE Register
  BY <1>9 DEF Register
<1>10. CASE Enter
  BY <1>10 DEF Enter, Fail, Dispatch
<1>11. CASE ReadWireEvent
  BY <1>11 DEF ReadWireEvent, Dispatch
<1>12. CASE ReadKeepAlive
  BY <1>12 DEF ReadKeepAlive
<1>13. CASE ReadEnds
  BY <1>13 DEF ReadEnds
<1>14. CASE ReadShut
  BY <1>14 DEF ReadShut
<1>15. CASE EndAttempt
  BY <1>15 DEF EndAttempt, Dispatch, CloseCurrent, StopEvent, Failures, Backoff, Lower
<1>16. CASE EndWait
  BY <1>16 DEF EndWait
<1>17. CASE Others
  BY <1>17 DEF Others, RequestStop, CloseStream, AuthChanges, ProgramChanges,
                   ClientAborts, GateCloses, Higher
<1>18. CASE Tick
  BY <1>18 DEF Tick, Lower, Sooner
<1>19. CASE UNCHANGED vars
  BY <1>19 DEF vars
<1> QED
  BY <1>1, <1>2, <1>3, <1>4, <1>5, <1>6, <1>7, <1>8, <1>9, <1>10, <1>11, <1>12,
     <1>13, <1>14, <1>15, <1>16, <1>17, <1>18, <1>19
  DEF Next, Reader, Open, Cloud

\* Every other variable stays in its range.
LEMMA StepKeepsRanges == IInv /\ [Next]_vars => RangesOK'
<1> SUFFICES ASSUME TypeOK, [Next]_vars PROVE RangesOK'
  BY DEF IInv, TypeOK, FlagsOK
<1> USE ConstantsOK DEF TypeOK, RangesOK, ConstantsOK, Goto, Stopping,
       attempt, ages, pause, world, history
<1>1. CASE PauseForAuth
  BY <1>1 DEF PauseForAuth
<1>2. CASE BeginOpen
  BY <1>2 DEF BeginOpen
<1>3. CASE Finish
  BY <1>3 DEF Finish
<1>4. CASE AbandonGate
  BY <1>4 DEF AbandonGate, Fail
<1>5. CASE SendOpen
  BY <1>5 DEF SendOpen
<1>6. CASE OpenSucceeds
  BY <1>6 DEF OpenSucceeds
<1>7. CASE ResendOpen
  BY <1>7 DEF ResendOpen
<1>8. CASE OpenFails
  BY <1>8 DEF OpenFails, Fail, Higher
<1>9. CASE Register
  BY <1>9 DEF Register
<1>10. CASE Enter
  BY <1>10 DEF Enter, Fail, Dispatch
<1>11. CASE ReadWireEvent
  BY <1>11 DEF ReadWireEvent, Dispatch
<1>12. CASE ReadKeepAlive
  BY <1>12 DEF ReadKeepAlive
<1>13. CASE ReadEnds
  BY <1>13 DEF ReadEnds
<1>14. CASE ReadShut
  BY <1>14 DEF ReadShut
<1>15. CASE EndAttempt
  BY <1>15 DEF EndAttempt, Dispatch, CloseCurrent, StopEvent, Failures, Backoff, Lower
<1>16. CASE EndWait
  BY <1>16 DEF EndWait
<1>17. CASE Others
  BY <1>17 DEF Others, RequestStop, CloseStream, AuthChanges, ProgramChanges,
                   ClientAborts, GateCloses, Higher
<1>18. CASE Tick
  BY <1>18 DEF Tick, Lower, Sooner
<1>19. CASE UNCHANGED vars
  BY <1>19 DEF vars
<1> QED
  BY <1>1, <1>2, <1>3, <1>4, <1>5, <1>6, <1>7, <1>8, <1>9, <1>10, <1>11, <1>12,
     <1>13, <1>14, <1>15, <1>16, <1>17, <1>18, <1>19
  DEF Next, Reader, Open, Cloud

\* Every step keeps the brackets.
LEMMA StepKeepsBracket == IInv /\ [Next]_vars => BracketOK'
<1> SUFFICES ASSUME TypeOK, BracketOK, [Next]_vars PROVE BracketOK'
  BY DEF IInv, TypeOK, FlagsOK
<1> USE ConstantsOK DEF BracketOK, TypeOK, ConstantsOK, Goto, Stopping,
       attempt, ages, pause, world, history
<1>1. CASE PauseForAuth
  BY <1>1 DEF PauseForAuth
<1>2. CASE BeginOpen
  BY <1>2 DEF BeginOpen
<1>3. CASE Finish
  BY <1>3 DEF Finish
<1>4. CASE AbandonGate
  BY <1>4 DEF AbandonGate, Fail
<1>5. CASE SendOpen
  BY <1>5 DEF SendOpen
<1>6. CASE OpenSucceeds
  BY <1>6 DEF OpenSucceeds
<1>7. CASE ResendOpen
  BY <1>7 DEF ResendOpen
<1>8. CASE OpenFails
  BY <1>8 DEF OpenFails, Fail, Higher
<1>9. CASE Register
  BY <1>9 DEF Register
<1>10. CASE Enter
  BY <1>10 DEF Enter, Fail, Dispatch
<1>11. CASE ReadWireEvent
  BY <1>11 DEF ReadWireEvent, Dispatch
<1>12. CASE ReadKeepAlive
  BY <1>12 DEF ReadKeepAlive
<1>13. CASE ReadEnds
  BY <1>13 DEF ReadEnds
<1>14. CASE ReadShut
  BY <1>14 DEF ReadShut
<1>15. CASE EndAttempt
  BY <1>15 DEF EndAttempt, Dispatch, CloseCurrent, StopEvent, Failures, Backoff, Lower
<1>16. CASE EndWait
  BY <1>16 DEF EndWait
<1>17. CASE Others
  BY <1>17 DEF Others, RequestStop, CloseStream, AuthChanges, ProgramChanges,
                   ClientAborts, GateCloses, Higher
<1>18. CASE Tick
  BY <1>18 DEF Tick, Lower, Sooner
<1>19. CASE UNCHANGED vars
  BY <1>19 DEF vars
<1> QED
  BY <1>1, <1>2, <1>3, <1>4, <1>5, <1>6, <1>7, <1>8, <1>9, <1>10, <1>11, <1>12,
     <1>13, <1>14, <1>15, <1>16, <1>17, <1>18, <1>19
  DEF Next, Reader, Open, Cloud

\* Every step keeps the socket in reach.
LEMMA StepKeepsSocket == IInv /\ [Next]_vars => SocketOK'
<1> SUFFICES ASSUME TypeOK, SocketOK, [Next]_vars PROVE SocketOK'
  BY DEF IInv, TypeOK, FlagsOK
<1> USE ConstantsOK DEF SocketOK, TypeOK, ConstantsOK, Goto, Stopping,
       attempt, ages, pause, world, history
<1>1. CASE PauseForAuth
  BY <1>1 DEF PauseForAuth
<1>2. CASE BeginOpen
  BY <1>2 DEF BeginOpen
<1>3. CASE Finish
  BY <1>3 DEF Finish
<1>4. CASE AbandonGate
  BY <1>4 DEF AbandonGate, Fail
<1>5. CASE SendOpen
  BY <1>5 DEF SendOpen
<1>6. CASE OpenSucceeds
  BY <1>6 DEF OpenSucceeds
<1>7. CASE ResendOpen
  BY <1>7 DEF ResendOpen
<1>8. CASE OpenFails
  BY <1>8 DEF OpenFails, Fail, Higher
<1>9. CASE Register
  BY <1>9 DEF Register
<1>10. CASE Enter
  BY <1>10 DEF Enter, Fail, Dispatch
<1>11. CASE ReadWireEvent
  BY <1>11 DEF ReadWireEvent, Dispatch
<1>12. CASE ReadKeepAlive
  BY <1>12 DEF ReadKeepAlive
<1>13. CASE ReadEnds
  BY <1>13 DEF ReadEnds
<1>14. CASE ReadShut
  BY <1>14 DEF ReadShut
<1>15. CASE EndAttempt
  BY <1>15 DEF EndAttempt, Dispatch, CloseCurrent, StopEvent, Failures, Backoff, Lower
<1>16. CASE EndWait
  BY <1>16 DEF EndWait
<1>17. CASE Others
  BY <1>17 DEF Others, RequestStop, CloseStream, AuthChanges, ProgramChanges,
                   ClientAborts, GateCloses, Higher
<1>18. CASE Tick
  BY <1>18 DEF Tick, Lower, Sooner
<1>19. CASE UNCHANGED vars
  BY <1>19 DEF vars
<1> QED
  BY <1>1, <1>2, <1>3, <1>4, <1>5, <1>6, <1>7, <1>8, <1>9, <1>10, <1>11, <1>12,
     <1>13, <1>14, <1>15, <1>16, <1>17, <1>18, <1>19
  DEF Next, Reader, Open, Cloud

\* Every step keeps the account of the opens.
LEMMA StepKeepsBudget == IInv /\ [Next]_vars => BudgetOK'
<1> SUFFICES ASSUME TypeOK, BudgetOK, [Next]_vars PROVE BudgetOK'
  BY DEF IInv, TypeOK, FlagsOK
<1> USE ConstantsOK DEF BudgetOK, Rested, TypeOK, ConstantsOK, Goto, Stopping,
       attempt, ages, pause, world, history
<1>1. CASE PauseForAuth
  BY <1>1 DEF PauseForAuth
<1>2. CASE BeginOpen
  BY <1>2 DEF BeginOpen
<1>3. CASE Finish
  BY <1>3 DEF Finish
<1>4. CASE AbandonGate
  BY <1>4 DEF AbandonGate, Fail
<1>5. CASE SendOpen
  BY <1>5 DEF SendOpen
<1>6. CASE OpenSucceeds
  BY <1>6 DEF OpenSucceeds
<1>7. CASE ResendOpen
  BY <1>7 DEF ResendOpen
<1>8. CASE OpenFails
  BY <1>8 DEF OpenFails, Fail, Higher
<1>9. CASE Register
  BY <1>9 DEF Register
<1>10. CASE Enter
  BY <1>10 DEF Enter, Fail, Dispatch
<1>11. CASE ReadWireEvent
  BY <1>11 DEF ReadWireEvent, Dispatch
<1>12. CASE ReadKeepAlive
  BY <1>12 DEF ReadKeepAlive
<1>13. CASE ReadEnds
  BY <1>13 DEF ReadEnds
<1>14. CASE ReadShut
  BY <1>14 DEF ReadShut
<1>15. CASE EndAttempt
  BY <1>15 DEF EndAttempt, Dispatch, CloseCurrent, StopEvent, Failures, Backoff, Lower
<1>16. CASE EndWait
  BY <1>16 DEF EndWait
<1>17. CASE Others
  BY <1>17 DEF Others, RequestStop, CloseStream, AuthChanges, ProgramChanges,
                   ClientAborts, GateCloses, Higher
<1>18. CASE Tick
  BY <1>18 DEF Tick, Lower, Sooner
<1>19. CASE UNCHANGED vars
  BY <1>19 DEF vars
<1> QED
  BY <1>1, <1>2, <1>3, <1>4, <1>5, <1>6, <1>7, <1>8, <1>9, <1>10, <1>11, <1>12,
     <1>13, <1>14, <1>15, <1>16, <1>17, <1>18, <1>19
  DEF Next, Reader, Open, Cloud

\* Every step keeps the relation of a stream's ages.
LEMMA StepKeepsFresh == IInv /\ [Next]_vars => FreshOK'
<1> SUFFICES ASSUME TypeOK, BracketOK, FreshOK, [Next]_vars PROVE FreshOK'
  BY DEF IInv, TypeOK, FlagsOK
<1> USE ConstantsOK DEF FreshOK, BracketOK, TypeOK, ConstantsOK, Goto, Stopping,
       attempt, ages, pause, world, history
<1>1. CASE PauseForAuth
  BY <1>1 DEF PauseForAuth
<1>2. CASE BeginOpen
  BY <1>2 DEF BeginOpen
<1>3. CASE Finish
  BY <1>3 DEF Finish
<1>4. CASE AbandonGate
  BY <1>4 DEF AbandonGate, Fail
<1>5. CASE SendOpen
  BY <1>5 DEF SendOpen
<1>6. CASE OpenSucceeds
  BY <1>6 DEF OpenSucceeds
<1>7. CASE ResendOpen
  BY <1>7 DEF ResendOpen
<1>8. CASE OpenFails
  BY <1>8 DEF OpenFails, Fail, Higher
<1>9. CASE Register
  BY <1>9 DEF Register
<1>10. CASE Enter
  BY <1>10 DEF Enter, Fail, Dispatch
<1>11. CASE ReadWireEvent
  BY <1>11 DEF ReadWireEvent, Dispatch
<1>12. CASE ReadKeepAlive
  BY <1>12 DEF ReadKeepAlive
<1>13. CASE ReadEnds
  BY <1>13 DEF ReadEnds
<1>14. CASE ReadShut
  BY <1>14 DEF ReadShut
<1>15. CASE EndAttempt
  BY <1>15 DEF EndAttempt, Dispatch, CloseCurrent, StopEvent, Failures, Backoff, Lower
<1>16. CASE EndWait
  BY <1>16 DEF EndWait
<1>17. CASE Others
  BY <1>17 DEF Others, RequestStop, CloseStream, AuthChanges, ProgramChanges,
                   ClientAborts, GateCloses, Higher
<1>18. CASE Tick
  BY <1>18 DEF Tick, Lower, Sooner
<1>19. CASE UNCHANGED vars
  BY <1>19 DEF vars
<1> QED
  BY <1>1, <1>2, <1>3, <1>4, <1>5, <1>6, <1>7, <1>8, <1>9, <1>10, <1>11, <1>12,
     <1>13, <1>14, <1>15, <1>16, <1>17, <1>18, <1>19
  DEF Next, Reader, Open, Cloud

\* The invariant holds of every behaviour.
THEOREM Invariance == Spec => []IInv
<1>1. Init => IInv
  <2> SUFFICES ASSUME Init PROVE IInv
    OBVIOUS
  <2> USE ConstantsOK DEF ConstantsOK, Init
  <2>1. FlagsOK
    BY DEF FlagsOK
  <2>2. RangesOK
    BY DEF RangesOK
  <2>3. BracketOK /\ SocketOK
    BY DEF BracketOK, SocketOK
  <2>4. BudgetOK /\ FreshOK
    BY DEF BudgetOK, FreshOK, Rested
  <2> QED BY <2>1, <2>2, <2>3, <2>4, TypeIsBoth DEF IInv
<1>2. IInv /\ [Next]_vars => IInv'
  <2> SUFFICES ASSUME IInv /\ [Next]_vars PROVE IInv'
    OBVIOUS
  <2>1. TypeOK'
    BY StepKeepsFlags, StepKeepsRanges DEF TypeOK, FlagsOK, RangesOK
  <2> QED BY <2>1, StepKeepsBracket, StepKeepsSocket, StepKeepsBudget, StepKeepsFresh
          DEF IInv
<1> QED BY <1>1, <1>2, PTL DEF Spec

----------------------------------------------------------------------------
(* The theorems.                                                           *)

\* Every variable keeps its type; no age, backoff or wait leaves its range.
THEOREM TypeCorrect == Spec => []TypeOK
<1>1. IInv => TypeOK
  BY DEF IInv
<1> QED BY <1>1, Invariance, PTL

\* Once stop() has closed what it found, a reader that still reads does so on a
\* socket that was shut under it.
THEOREM StopReaches == Spec => []StopReachesStream
<1>1. IInv => StopReachesStream
  BY DEF IInv, SocketOK, StopReachesStream
<1> QED BY <1>1, Invariance, PTL

\* No attempt, stopped at whatever point, leaves its stream open.
THEOREM NothingLeaks == Spec => []NoStreamLeaks
<1>1. IInv => NoStreamLeaks
  BY DEF IInv, SocketOK, NoStreamLeaks
<1> QED BY <1>1, Invariance, PTL

\* However the attempts fail, an outage costs at most 2 * EscalateAfter opens
\* between two pauses of ReconnectExtended.
THEOREM OutageIsCheap == Spec => []BurstBounded
<1>1. IInv => BurstBounded
  BY DEF IInv, BudgetOK, BurstBounded
<1> QED BY <1>1, Invariance, PTL

\* A renewal waits ReconnectMin and reports no error, whatever failed before.
THEOREM RenewalsAreQuick == Spec => RenewalIsQuick
<1>1. IInv /\ [Next]_vars
        => [EndAttempt /\ cause = "renewal" /\ ~Stopping
              => wait' = ReconnectMin /\ said' = "stop"]_vars
  <2> SUFFICES ASSUME IInv, EndAttempt, cause = "renewal", ~Stopping
               PROVE  wait' = ReconnectMin /\ said' = "stop"
    OBVIOUS
  <2>1. up /\ lived = StableSeconds /\ backoff = 0
    BY DEF IInv, BracketOK, FreshOK, EndAttempt, Goto
  <2>2. Backoff = ReconnectMin
    BY <2>1, ConstantsOK DEF ConstantsOK, Backoff, Failures, Lower
  <2> QED BY <2>2 DEF EndAttempt, Dispatch, StopEvent, Goto
<1> QED BY <1>1, Invariance, PTL DEF Spec, RenewalIsQuick

\* The reader implements StreamFeed: its events come in brackets, and nothing
\* comes after its end.
THEOREM Implements == Spec => FeedSpec
<1>1. Init => Feed!Init
  BY DEF Init, Feed!Init
<1>2. IInv /\ [Next]_vars => [Feed!Next]_(Feed!feed)
  <2> SUFFICES ASSUME IInv, [Next]_vars
               PROVE  Feed!Next \/ UNCHANGED Feed!feed
    OBVIOUS
  <2> USE DEF Goto, history, Stopping
  <2>1. TypeOK /\ BracketOK
    BY DEF IInv
  <2>2. CASE Enter /\ ~Stopping
    BY <2>1, <2>2 DEF Enter, Dispatch, BracketOK, Fail, Feed!Next, Feed!Start
  <2>3. CASE ReadWireEvent /\ ~Stopping
    BY <2>1, <2>3 DEF ReadWireEvent, Dispatch, BracketOK, Feed!Next, Feed!Deliver
  <2>4. CASE EndAttempt
    BY <2>1, <2>4 DEF EndAttempt, Dispatch, StopEvent, BracketOK, TypeOK, Feed!Next, Feed!Stop
  <2>5. CASE Finish
    BY <2>1, <2>5 DEF Finish, BracketOK, Feed!Next, Feed!End
  <2>6. CASE \/ Enter /\ Stopping
             \/ ReadWireEvent /\ Stopping
             \/ Open \/ PauseForAuth \/ ReadShut \/ EndWait
             \/ ReadKeepAlive \/ ReadEnds
             \/ Others \/ Tick \/ UNCHANGED vars
    BY <2>6 DEF Enter, ReadWireEvent, Fail, Open, BeginOpen, AbandonGate, SendOpen,
                OpenSucceeds, ResendOpen, OpenFails, Register, PauseForAuth, ReadShut,
                EndWait, ReadKeepAlive, ReadEnds, Others, RequestStop, CloseStream,
                AuthChanges, ProgramChanges, ClientAborts, GateCloses, Tick, vars,
                Feed!feed
  <2> QED BY <2>2, <2>3, <2>4, <2>5, <2>6 DEF Next, Reader, Cloud
<1> QED BY <1>1, <1>2, Invariance, PTL DEF Spec, FeedSpec, Feed!Spec

=============================================================================
