------------------------- MODULE TokenRefreshProofs -------------------------
(***************************************************************************)
(* Proofs about TokenRefresh, for every set of threads and tokens and all  *)
(* delays: one thread exchanges at a time, what it presents has not been   *)
(* spent, and refreshes are MinInterval apart.                             *)
(***************************************************************************)
EXTENDS TokenRefresh, TLAPS

\* The types the proofs need.
ShapeOK ==
    /\ pc \in [Threads -> {"idle", "sent", "again", "check", "lock", "gate", "posted",
                           "own lock", "refreshed"}]
    /\ token \in [Threads -> Tokens \cup {None}]
    /\ stored \in Tokens /\ disk \in Tokens
    /\ sinceRefresh \in 0 .. MinInterval

Exchanging == {"gate", "posted", "own lock"}

\* One thread exchanges a token at a time: the one that holds the lock.
LockOK == \A t \in Threads : pc[t] \in Exchanging => lock = t

\* The file lags behind only when it could not be written.
SavedOK == ~unsaved => disk = stored

\* What is stored, and what is about to be presented, the service accepts,
\* unless it lost us an answer or the user revoked access.
AliveOK ==
    ~forsaken =>
        /\ stored \in accepted
        /\ \A t \in Threads : pc[t] \in Exchanging => token[t] \in accepted

\* Nobody refreshed since the thread that holds the lock looked.
SpacedOK == \A t \in Threads : pc[t] \in Exchanging => sinceRefresh = MinInterval

\* The inductive invariant.  AuthorizationKept needs AliveOK, which needs
\* LockOK: were two threads exchanging, the first would spend the token of
\* the second.  SavedOK is for what a restart finds.
IInv == ShapeOK /\ LockOK /\ SavedOK /\ AliveOK /\ SpacedOK /\ AuthorizationKept

\* What the service issues is a token that nobody refers to.
LEMMA NewTokenFresh == Fresh # {} => NewToken \in Tokens \ {stored}
BY DEF NewToken, Fresh

\* A thread's step keeps the invariant.
LEMMA ThreadKeeps ==
  ASSUME IInv, NEW t \in Threads, Proceed(t) \/ Acquire(t) \/ Send(t)
  PROVE  IInv'
<1> USE TokensOK DEF TokensOK
<1>0. ShapeOK /\ LockOK /\ SavedOK /\ AliveOK /\ SpacedOK /\ AuthorizationKept
  BY DEF IInv
<1>n. None \notin Threads
  OBVIOUS
<1>1. CASE Answered(t)
  <2>1. ShapeOK'
    BY <1>0, <1>1 DEF ShapeOK, Answered, Ends, locals, timers, outside
  <2>2. LockOK'
    BY <1>0, <1>n, <1>1 DEF ShapeOK, LockOK, Exchanging, Answered, Ends, locals, timers, outside
  <2>3. AliveOK'
    BY <1>0, <1>n, <1>1 DEF ShapeOK, LockOK, AliveOK, Exchanging, Answered, Ends, locals, timers,
                            outside
  <2>4. SpacedOK'
    BY <1>0, <1>n, <1>1 DEF ShapeOK, LockOK, SpacedOK, Exchanging, Answered, Ends, locals, timers,
                            outside
  <2>5. AuthorizationKept'
    BY <1>0, <1>1 DEF AuthorizationKept, AliveOK, Exchanging, BacksOff, Answered, Ends, locals,
                      timers, outside
  <2>6. SavedOK'
    BY <1>0, <1>1 DEF SavedOK, Answered, outside
  <2> QED BY <2>1, <2>2, <2>3, <2>4, <2>5, <2>6 DEF IInv
<1>2. CASE Unauthorized(t)
  <2>1. ShapeOK'
    BY <1>0, <1>2 DEF ShapeOK, Unauthorized, Ends, Goto, locals, timers, outside
  <2>2. LockOK'
    BY <1>0, <1>n, <1>2 DEF ShapeOK, LockOK, Exchanging, Unauthorized, Ends, Goto, locals, timers,
                            outside
  <2>3. AliveOK'
    BY <1>0, <1>n, <1>2 DEF ShapeOK, LockOK, AliveOK, Exchanging, Unauthorized, Ends, Goto,
                            locals, timers, outside
  <2>4. SpacedOK'
    BY <1>0, <1>n, <1>2 DEF ShapeOK, LockOK, SpacedOK, Exchanging, Unauthorized, Ends, Goto,
                            locals, timers, outside
  <2>5. AuthorizationKept'
    BY <1>0, <1>2 DEF AuthorizationKept, AliveOK, Exchanging, BacksOff, Unauthorized, Ends, Goto,
                      locals, timers, outside
  <2>6. SavedOK'
    BY <1>0, <1>2 DEF SavedOK, Unauthorized, outside
  <2> QED BY <2>1, <2>2, <2>3, <2>4, <2>5, <2>6 DEF IInv
<1>3. CASE Resume(t)
  <2>1. ShapeOK'
    BY <1>0, <1>3 DEF ShapeOK, Resume, Ends, Goto, locals, timers, outside
  <2>2. LockOK'
    BY <1>0, <1>n, <1>3 DEF ShapeOK, LockOK, Exchanging, Resume, Ends, Goto, locals, timers, outside
  <2>3. AliveOK'
    BY <1>0, <1>n, <1>3 DEF ShapeOK, LockOK, AliveOK, Exchanging, Resume, Ends, Goto, locals,
                            timers, outside
  <2>4. SpacedOK'
    BY <1>0, <1>n, <1>3 DEF ShapeOK, LockOK, SpacedOK, Exchanging, Resume, Ends, Goto, locals,
                            timers, outside
  <2>5. AuthorizationKept'
    BY <1>0, <1>3 DEF AuthorizationKept, AliveOK, Exchanging, BacksOff, Resume, Ends, Goto,
                      locals, timers, outside
  <2>6. SavedOK'
    BY <1>0, <1>3 DEF SavedOK, Resume, outside
  <2> QED BY <2>1, <2>2, <2>3, <2>4, <2>5, <2>6 DEF IInv
<1>4. CASE Check(t)
  <2>1. ShapeOK'
    BY <1>0, <1>4 DEF ShapeOK, Check, Ends, Goto, locals, timers, outside
  <2>2. LockOK'
    BY <1>0, <1>n, <1>4 DEF ShapeOK, LockOK, Exchanging, Check, Ends, Goto, locals, timers, outside
  <2>3. AliveOK'
    BY <1>0, <1>n, <1>4 DEF ShapeOK, LockOK, AliveOK, Exchanging, Check, Ends, Goto, locals,
                            timers, outside
  <2>4. SpacedOK'
    BY <1>0, <1>n, <1>4 DEF ShapeOK, LockOK, SpacedOK, Exchanging, Check, Ends, Goto, locals,
                            timers, outside
  <2>5. AuthorizationKept'
    BY <1>0, <1>4 DEF AuthorizationKept, AliveOK, Exchanging, BacksOff, Check, Ends, Goto, locals,
                      timers, outside
  <2>6. SavedOK'
    BY <1>0, <1>4 DEF SavedOK, Check, outside
  <2> QED BY <2>1, <2>2, <2>3, <2>4, <2>5, <2>6 DEF IInv
<1>5. CASE Post(t)
  <2>1. ShapeOK'
    BY <1>0, <1>5 DEF ShapeOK, Post, Goto, locals, timers, outside
  <2>2. LockOK'
    BY <1>0, <1>n, <1>5 DEF ShapeOK, LockOK, Exchanging, Post, Goto, locals, timers, outside
  <2>3. AliveOK'
    BY <1>0, <1>n, <1>5 DEF ShapeOK, LockOK, AliveOK, Exchanging, Post, Goto, locals, timers,
                            outside
  <2>4. SpacedOK'
    BY <1>0, <1>n, <1>5 DEF ShapeOK, LockOK, SpacedOK, Exchanging, Post, Goto, locals, timers,
                            outside
  <2>5. AuthorizationKept'
    BY <1>0, <1>5 DEF AuthorizationKept, AliveOK, Exchanging, BacksOff, Post, Goto, locals,
                      timers, outside
  <2>6. SavedOK'
    BY <1>0, <1>5 DEF SavedOK, Post, outside
  <2> QED BY <2>1, <2>2, <2>3, <2>4, <2>5, <2>6 DEF IInv
<1>6. CASE Granted(t)
  <2>1. ShapeOK'
    <3>1. stored' \in Tokens /\ disk' \in Tokens
      BY <1>0, <1>6, NewTokenFresh DEF ShapeOK, Granted, Store, Save
    <3>2. sinceRefresh' \in 0 .. MinInterval
      <4>1. sinceRefresh' = 0
        BY <1>6 DEF Granted
      <4>2. MinInterval \in Nat
        OBVIOUS
      <4> QED BY <4>1, <4>2
    <3>3. pc' \in [Threads -> {"idle", "sent", "again", "check", "lock", "gate", "posted",
                               "own lock", "refreshed"}]
      BY <1>0, <1>6 DEF ShapeOK, Granted, Goto
    <3>4. token' \in [Threads -> Tokens \cup {None}]
      BY <1>0, <1>6 DEF ShapeOK, Granted
    <3> QED BY <3>1, <3>2, <3>3, <3>4 DEF ShapeOK
  <2>2. LockOK'
    BY <1>0, <1>n, <1>6 DEF ShapeOK, LockOK, Exchanging, Granted, Goto, Store, Save, locals,
                            timers, outside
  <2>3. AliveOK'
    BY <1>0, <1>n, <1>6, NewTokenFresh DEF ShapeOK, LockOK, AliveOK, Exchanging, Granted, Goto,
                                           Store, Save, locals, timers, outside
  <2>4. SpacedOK'
    BY <1>0, <1>n, <1>6 DEF ShapeOK, LockOK, SpacedOK, Exchanging, Granted, Goto, Store, Save,
                            locals, timers, outside
  <2>5. AuthorizationKept'
    BY <1>0, <1>6 DEF AuthorizationKept, AliveOK, Exchanging, BacksOff, Granted, Goto, Store,
                      Save, locals, timers, outside
  <2>6. SavedOK'
    BY <1>0, <1>6 DEF SavedOK, Granted, Store, Save, outside
  <2> QED BY <2>1, <2>2, <2>3, <2>4, <2>5, <2>6 DEF IInv
<1>7. CASE Lost(t)
  <2>1. ShapeOK'
    BY <1>0, <1>7 DEF ShapeOK, Lost, GivesUp, Ends, locals, timers, outside
  <2>2. LockOK'
    BY <1>0, <1>n, <1>7 DEF ShapeOK, LockOK, Exchanging, Lost, GivesUp, Ends, locals, timers,
                            outside
  <2>3. AliveOK'
    BY <1>0, <1>n, <1>7 DEF ShapeOK, LockOK, AliveOK, Exchanging, Lost, GivesUp, Ends, locals,
                            timers, outside
  <2>4. SpacedOK'
    BY <1>0, <1>n, <1>7 DEF ShapeOK, LockOK, SpacedOK, Exchanging, Lost, GivesUp, Ends, locals,
                            timers, outside
  <2>5. AuthorizationKept'
    BY <1>0, <1>7 DEF AuthorizationKept, AliveOK, Exchanging, BacksOff, Lost, GivesUp, Ends,
                      locals, timers, outside
  <2>6. SavedOK'
    BY <1>0, <1>7 DEF SavedOK, Lost, GivesUp, Ends, outside
  <2> QED BY <2>1, <2>2, <2>3, <2>4, <2>5, <2>6 DEF IInv
<1>8. CASE Failed(t)
  <2>1. ShapeOK'
    BY <1>0, <1>8 DEF ShapeOK, Failed, GivesUp, Ends, locals, timers, outside
  <2>2. LockOK'
    BY <1>0, <1>n, <1>8 DEF ShapeOK, LockOK, Exchanging, Failed, GivesUp, Ends, locals, timers,
                            outside
  <2>3. AliveOK'
    BY <1>0, <1>n, <1>8 DEF ShapeOK, LockOK, AliveOK, Exchanging, Failed, GivesUp, Ends, locals,
                            timers, outside
  <2>4. SpacedOK'
    BY <1>0, <1>n, <1>8 DEF ShapeOK, LockOK, SpacedOK, Exchanging, Failed, GivesUp, Ends, locals,
                            timers, outside
  <2>5. AuthorizationKept'
    BY <1>0, <1>8 DEF AuthorizationKept, AliveOK, Exchanging, BacksOff, Failed, GivesUp, Ends,
                      locals, timers, outside
  <2>6. SavedOK'
    BY <1>0, <1>8 DEF SavedOK, Failed, GivesUp, Ends, outside
  <2> QED BY <2>1, <2>2, <2>3, <2>4, <2>5, <2>6 DEF IInv
<1>9. CASE TooMany(t)
  <2>1. ShapeOK'
    BY <1>0, <1>9 DEF ShapeOK, TooMany, GivesUp, Ends, locals, timers, outside
  <2>2. LockOK'
    BY <1>0, <1>n, <1>9 DEF ShapeOK, LockOK, Exchanging, TooMany, GivesUp, Ends, locals, timers,
                            outside
  <2>3. AliveOK'
    BY <1>0, <1>n, <1>9 DEF ShapeOK, LockOK, AliveOK, Exchanging, TooMany, GivesUp, Ends, locals,
                            timers, outside
  <2>4. SpacedOK'
    BY <1>0, <1>n, <1>9 DEF ShapeOK, LockOK, SpacedOK, Exchanging, TooMany, GivesUp, Ends, locals,
                            timers, outside
  <2>5. AuthorizationKept'
    BY <1>0, <1>9 DEF AuthorizationKept, AliveOK, Exchanging, BacksOff, TooMany, GivesUp, Ends,
                      locals, timers, outside
  <2>6. SavedOK'
    BY <1>0, <1>9 DEF SavedOK, TooMany, GivesUp, Ends, outside
  <2> QED BY <2>1, <2>2, <2>3, <2>4, <2>5, <2>6 DEF IInv
<1>10. CASE InvalidGrant(t)
  <2>1. ShapeOK'
    BY <1>0, <1>10 DEF ShapeOK, InvalidGrant, GivesUp, Ends, locals, timers, outside
  <2>2. LockOK'
    BY <1>0, <1>n, <1>10 DEF ShapeOK, LockOK, Exchanging, InvalidGrant, GivesUp, Ends, locals,
                             timers, outside
  <2>3. AliveOK'
    BY <1>0, <1>n, <1>10 DEF ShapeOK, LockOK, AliveOK, Exchanging, InvalidGrant, GivesUp, Ends,
                             locals, timers, outside
  <2>4. SpacedOK'
    BY <1>0, <1>n, <1>10 DEF ShapeOK, LockOK, SpacedOK, Exchanging, InvalidGrant, GivesUp, Ends,
                             locals, timers, outside
  <2>5. AuthorizationKept'
    BY <1>0, <1>10 DEF AuthorizationKept, AliveOK, Exchanging, BacksOff, InvalidGrant, GivesUp,
                       Ends, locals, timers, outside
  <2>6. SavedOK'
    BY <1>0, <1>10 DEF SavedOK, InvalidGrant, GivesUp, Ends, outside
  <2> QED BY <2>1, <2>2, <2>3, <2>4, <2>5, <2>6 DEF IInv
<1>11. CASE Denied(t)
  <2>1. ShapeOK'
    BY <1>0, <1>11 DEF ShapeOK, Denied, GivesUp, Ends, Goto, locals, timers, outside
  <2>2. LockOK'
    BY <1>0, <1>n, <1>11 DEF ShapeOK, LockOK, Exchanging, Denied, GivesUp, Ends, Goto, locals,
                             timers, outside
  <2>3. AliveOK'
    BY <1>0, <1>n, <1>11 DEF ShapeOK, LockOK, AliveOK, Exchanging, Denied, GivesUp, Ends, Goto,
                             locals, timers, outside
  <2>4. SpacedOK'
    BY <1>0, <1>n, <1>11 DEF ShapeOK, LockOK, SpacedOK, Exchanging, Denied, GivesUp, Ends, Goto,
                             locals, timers, outside
  <2>5. AuthorizationKept'
    BY <1>0, <1>11 DEF AuthorizationKept, AliveOK, Exchanging, BacksOff, Denied, GivesUp, Ends,
                       Goto, locals, timers, outside
  <2>6. SavedOK'
    BY <1>0, <1>11 DEF SavedOK, Denied, GivesUp, Ends, outside
  <2> QED BY <2>1, <2>2, <2>3, <2>4, <2>5, <2>6 DEF IInv
<1>12. CASE Acquire(t)
  <2>1. ShapeOK'
    BY <1>0, <1>12 DEF ShapeOK, Acquire, Goto, Collapses, locals, timers, outside
  <2>2. LockOK'
    BY <1>0, <1>n, <1>12 DEF ShapeOK, LockOK, Exchanging, Acquire, Goto, Collapses, locals,
                             timers, outside
  <2>3. AliveOK'
    BY <1>0, <1>n, <1>12 DEF ShapeOK, LockOK, AliveOK, Exchanging, Acquire, Goto, Collapses,
                             locals, timers, outside
  <2>4. SpacedOK'
    <3>1. sinceRefresh' = sinceRefresh
      BY <1>12 DEF Acquire, timers
    <3>2. CASE Collapses(t)
      BY <1>0, <1>12, <3>1, <3>2 DEF ShapeOK, SpacedOK, Exchanging, Acquire, Goto
    <3>3. CASE ~Collapses(t)
      <4>1. ~(sinceRefresh < MinInterval)
        BY <3>3 DEF Collapses
      <4>2. sinceRefresh \in 0 .. MinInterval /\ MinInterval \in Nat
        BY <1>0 DEF ShapeOK
      <4>3. sinceRefresh = MinInterval
        BY <4>1, <4>2
      <4> QED BY <3>1, <4>3 DEF SpacedOK
    <3> QED BY <3>2, <3>3
  <2>5. AuthorizationKept'
    BY <1>0, <1>12 DEF AuthorizationKept, AliveOK, Exchanging, BacksOff, Acquire, Goto, Collapses,
                       locals, timers, outside
  <2>6. SavedOK'
    BY <1>0, <1>12 DEF SavedOK, Acquire, outside
  <2> QED BY <2>1, <2>2, <2>3, <2>4, <2>5, <2>6 DEF IInv
<1>13. CASE Send(t)
  <2>1. ShapeOK'
    BY <1>0, <1>13 DEF ShapeOK, Send, locals, timers, outside
  <2>2. LockOK'
    BY <1>0, <1>n, <1>13 DEF ShapeOK, LockOK, Exchanging, Send, locals, timers, outside
  <2>3. AliveOK'
    BY <1>0, <1>n, <1>13 DEF ShapeOK, LockOK, AliveOK, Exchanging, Send, locals, timers, outside
  <2>4. SpacedOK'
    BY <1>0, <1>n, <1>13 DEF ShapeOK, LockOK, SpacedOK, Exchanging, Send, locals, timers, outside
  <2>5. AuthorizationKept'
    BY <1>0, <1>13 DEF AuthorizationKept, AliveOK, Exchanging, BacksOff, Send, locals, timers,
                       outside
  <2>6. SavedOK'
    BY <1>0, <1>13 DEF SavedOK, Send, outside
  <2> QED BY <2>1, <2>2, <2>3, <2>4, <2>5, <2>6 DEF IInv
<1> QED BY <1>1, <1>2, <1>3, <1>4, <1>5, <1>6, <1>7, <1>8, <1>9, <1>10, <1>11, <1>12, <1>13
           DEF Proceed, Exchange

\* So does whatever else happens.
LEMMA EnvironmentKeeps ==
  ASSUME IInv, Wake \/ NewGrant \/ Revoke \/ Restart \/ Tick
  PROVE  IInv'
<1> USE TokensOK DEF TokensOK
<1>0. ShapeOK /\ LockOK /\ SavedOK /\ AliveOK /\ SpacedOK /\ AuthorizationKept
  BY DEF IInv
<1>1. CASE Wake
  <2>1. ShapeOK'
    BY <1>0, <1>1 DEF ShapeOK, Wake, Goto, Threads, locals, timers, outside
  <2>2. LockOK'
    BY <1>0, <1>1 DEF ShapeOK, LockOK, Exchanging, Wake, Goto, Threads, locals, timers, outside
  <2>3. AliveOK'
    BY <1>0, <1>1 DEF ShapeOK, LockOK, AliveOK, Exchanging, Wake, Goto, Threads, locals, timers,
                      outside
  <2>4. SpacedOK'
    BY <1>0, <1>1 DEF ShapeOK, SpacedOK, Exchanging, Wake, Goto, Threads, locals, timers, outside
  <2>5. AuthorizationKept'
    BY <1>0, <1>1 DEF AuthorizationKept, Wake, Goto, Threads, locals, timers, outside
  <2>6. SavedOK'
    BY <1>0, <1>1 DEF SavedOK, Wake, outside
  <2> QED BY <2>1, <2>2, <2>3, <2>4, <2>5, <2>6 DEF IInv
<1>2. CASE NewGrant
  <2>1. ShapeOK'
    BY <1>0, <1>2, NewTokenFresh DEF ShapeOK, NewGrant, Store, Save, locals, timers, outside
  <2>2. LockOK'
    BY <1>0, <1>2 DEF ShapeOK, LockOK, Exchanging, NewGrant, Store, Save, locals, timers, outside
  <2>3. AliveOK'
    BY <1>0, <1>2, NewTokenFresh DEF ShapeOK, LockOK, AliveOK, Exchanging, NewGrant, Store, Save,
                                     StillOfUse, locals, timers, outside
  <2>4. SpacedOK'
    BY <1>0, <1>2 DEF ShapeOK, SpacedOK, Exchanging, NewGrant, Store, Save, locals, timers, outside
  <2>5. AuthorizationKept'
    BY <1>0, <1>2 DEF AuthorizationKept, NewGrant, Store, Save, locals, timers, outside
  <2>6. SavedOK'
    BY <1>0, <1>2 DEF SavedOK, NewGrant, Store, Save, outside
  <2> QED BY <2>1, <2>2, <2>3, <2>4, <2>5, <2>6 DEF IInv
<1>3. CASE Revoke
  <2>1. ShapeOK'
    BY <1>0, <1>3 DEF ShapeOK, Revoke, locals, timers, outside
  <2>2. LockOK'
    BY <1>0, <1>3 DEF ShapeOK, LockOK, Exchanging, Revoke, locals, timers, outside
  <2>3. AliveOK'
    BY <1>0, <1>3 DEF ShapeOK, LockOK, AliveOK, Exchanging, Revoke, locals, timers, outside
  <2>4. SpacedOK'
    BY <1>0, <1>3 DEF ShapeOK, SpacedOK, Exchanging, Revoke, locals, timers, outside
  <2>5. AuthorizationKept'
    BY <1>0, <1>3 DEF AuthorizationKept, Revoke, locals, timers, outside
  <2>6. SavedOK'
    BY <1>0, <1>3 DEF SavedOK, Revoke, outside
  <2> QED BY <2>1, <2>2, <2>3, <2>4, <2>5, <2>6 DEF IInv
<1>4. CASE Tick
  <2>1. sinceRefresh \in 0 .. MinInterval /\ MinInterval \in Nat
    BY <1>0 DEF ShapeOK
  <2>2. sinceRefresh' = Lower(sinceRefresh + 1, MinInterval)
    BY <1>4 DEF Tick
  <2>3. sinceRefresh' \in 0 .. MinInterval
    <3>1. CASE sinceRefresh + 1 < MinInterval
      BY <2>1, <2>2, <3>1 DEF Lower
    <3>2. CASE ~(sinceRefresh + 1 < MinInterval)
      BY <2>1, <2>2, <3>2 DEF Lower
    <3> QED BY <3>1, <3>2
  <2>4. sinceRefresh = MinInterval => sinceRefresh' = MinInterval
    BY <2>1, <2>2 DEF Lower
  <2>5. UNCHANGED <<pc, token, stored, disk, unsaved>>
    BY <1>4 DEF Tick, locals, outside
  <2>6. ShapeOK'
    BY <1>0, <2>3, <2>5 DEF ShapeOK
  <2>7. LockOK'
    BY <1>0, <1>4 DEF ShapeOK, LockOK, Exchanging, Tick, Lower, locals, timers, outside
  <2>8. AliveOK'
    BY <1>0, <1>4 DEF ShapeOK, LockOK, AliveOK, Exchanging, Tick, Lower, locals, timers, outside
  <2>9. SpacedOK'
    BY <1>0, <2>4, <2>5 DEF SpacedOK
  <2>10. AuthorizationKept'
    BY <1>0, <1>4 DEF AuthorizationKept, Tick, Lower, locals, timers, outside
  <2>11. SavedOK'
    BY <1>0, <1>4 DEF SavedOK, Tick, outside
  <2> QED BY <2>6, <2>7, <2>8, <2>9, <2>10, <2>11 DEF IInv
<1>5. CASE Restart
  <2>1. ShapeOK'
    <3>1. sinceRefresh' \in 0 .. MinInterval
      <4>1. sinceRefresh' = MinInterval /\ MinInterval \in Nat
        BY <1>5 DEF Restart
      <4> QED BY <4>1
    <3> QED BY <1>0, <1>5, <3>1 DEF ShapeOK, Restart
  <2>2. LockOK'
    BY <1>5 DEF LockOK, Exchanging, Restart
  <2>3. AliveOK'
    BY <1>0, <1>5 DEF ShapeOK, SavedOK, AliveOK, Exchanging, Restart
  <2>4. SpacedOK'
    BY <1>5 DEF SpacedOK, Exchanging, Restart
  <2>5. AuthorizationKept'
    BY <1>5 DEF AuthorizationKept, Restart
  <2>6. SavedOK'
    BY <1>0, <1>5 DEF SavedOK, Restart
  <2> QED BY <2>1, <2>2, <2>3, <2>4, <2>5, <2>6 DEF IInv
<1> QED BY <1>1, <1>2, <1>3, <1>4, <1>5

\* The inductive invariant holds of every behaviour.
THEOREM Invariance == Spec => []IInv
<1>1. Init => IInv
  <2> SUFFICES ASSUME Init PROVE IInv
    OBVIOUS
  <2>1. stored \in Tokens
    BY TokensOK DEF TokensOK, Init
  <2>2. ShapeOK
    BY TokensOK, <2>1 DEF TokensOK, Init, ShapeOK
  <2>3. LockOK /\ AliveOK /\ SpacedOK
    BY DEF Init, LockOK, AliveOK, SpacedOK, Exchanging
  <2>4. SavedOK /\ AuthorizationKept
    BY Zenon DEF Init, SavedOK, AuthorizationKept
  <2> QED BY <2>2, <2>3, <2>4 DEF IInv
<1>2. IInv /\ [Next]_vars => IInv'
  <2> SUFFICES ASSUME IInv, [Next]_vars PROVE IInv'
    OBVIOUS
  <2>1. CASE Next
    BY <2>1, ThreadKeeps, EnvironmentKeeps DEF Next
  <2>2. CASE UNCHANGED vars
    BY <2>2 DEF vars, locals, timers, outside, IInv, ShapeOK, LockOK, SavedOK, AliveOK, SpacedOK,
       AuthorizationKept
  <2> QED BY <2>1, <2>2
<1> QED BY <1>1, <1>2, PTL DEF Spec

\* Authorization is lost only to a lost answer, a token that could not be saved
\* or the user: no number of threads, failures, 401s and restarts makes the
\* plugin present a token it has spent.
THEOREM KeepsAuthorization == Spec => []AuthorizationKept
<1>1. IInv => AuthorizationKept
  BY DEF IInv
<1> QED BY Invariance, <1>1, PTL

\* No exchange is sent within MinInterval of the last that succeeded.
THEOREM SpacesRefreshes == Spec => RefreshesSpaced
<1>1. IInv /\ [Next]_vars => [\A t \in Threads : Post(t) => sinceRefresh = MinInterval]_vars
  BY DEF IInv, SpacedOK, Post, Goto, Exchanging
<1> QED BY Invariance, <1>1, PTL DEF Spec, RefreshesSpaced

----------------------------------------------------------------------------
(* What the invariant leaves out of the types.                             *)

LocalsOK ==
    /\ used \in [Threads -> Tokens \cup {None}]
    /\ seen \in [Threads -> Tokens \cup {None}]
    /\ resent \in [Threads -> BOOLEAN]
    /\ lock \in Threads \cup {None} /\ lastUsed \in Tokens \cup {None}
    /\ authRequired \in BOOLEAN /\ forsaken \in BOOLEAN /\ unsaved \in BOOLEAN
    /\ bare \subseteq Tokens /\ accepted \subseteq Tokens

\* Each failure counted is one of the events, which bounds the backoff.
CountersOK ==
    /\ due \in 0 .. Lifetime /\ sinceAttempt \in 0 .. MinInterval
    /\ backoff \in Nat /\ gate \in Nat
    /\ failures \in Nat /\ events \in 0 .. MaxEvents /\ failures <= events

\* Who exchanges presents a token.
PresentsOK == \A t \in Threads : pc[t] \in Exchanging => token[t] \in Tokens

RestOK == LocalsOK /\ CountersOK /\ PresentsOK

\* Only who gets the lock comes to present anything.
LEMMA PresentsKept ==
  ASSUME IInv, PresentsOK, [Next]_vars
  PROVE  PresentsOK'
<1> USE TokensOK DEF TokensOK
<1>0. ShapeOK /\ Supervisor \in Threads
  BY DEF IInv, Threads
<1>1. ASSUME NEW t \in Threads, Acquire(t) PROVE PresentsOK'
  BY <1>0, <1>1 DEF ShapeOK, PresentsOK, Exchanging, Acquire, Goto
<1>2. ASSUME NEW t \in Threads, Answered(t) \/ Unauthorized(t) \/ Resume(t) \/ Check(t) \/ Send(t)
      PROVE  PresentsOK'
  BY <1>0, <1>2 DEF ShapeOK, PresentsOK, Exchanging, Answered, Unauthorized, Resume, Check, Send,
                    Ends, Goto
<1>3. ASSUME NEW t \in Threads, Exchange(t) PROVE PresentsOK'
  BY <1>0, <1>3 DEF ShapeOK, PresentsOK, Exchanging, Exchange, Post, Granted, Lost, Failed, TooMany,
                    InvalidGrant, Denied, GivesUp, Ends, Goto, locals
<1>4. CASE Wake
  BY <1>0, <1>4 DEF ShapeOK, PresentsOK, Exchanging, Wake, Goto, locals
<1>5. CASE NewGrant \/ Revoke \/ Tick \/ UNCHANGED vars
  BY <1>5 DEF PresentsOK, NewGrant, Revoke, Tick, locals, vars
<1>6. CASE Restart
  BY <1>6 DEF PresentsOK, Exchanging, Restart
<1> QED BY <1>1, <1>2, <1>3, <1>4, <1>5, <1>6 DEF Next, Proceed

\* What a step binds is a token, and what it spends was one.
LEMMA LocalsKept ==
  ASSUME IInv, LocalsOK, PresentsOK, [Next]_vars
  PROVE  LocalsOK'
<1> USE TokensOK DEF TokensOK
<1>0. ShapeOK /\ (Fresh # {} => NewToken \in Tokens)
  BY NewTokenFresh DEF IInv
<1>e. ASSUME NEW t \in Threads, Ends(t)
      PROVE  /\ used' \in [Threads -> Tokens \cup {None}] /\ seen' \in [Threads -> Tokens \cup {None}]
             /\ resent' \in [Threads -> BOOLEAN]
  BY <1>e DEF LocalsOK, Ends
<1>1. ASSUME NEW t \in Threads, Answered(t) \/ Unauthorized(t) \/ Resume(t) PROVE LocalsOK'
  <2>1. CASE Answered(t)
    BY <1>0, <2>1 DEF ShapeOK, LocalsOK, Answered, Ends, outside
  <2>2. CASE Unauthorized(t)
    <3>1. /\ used' \in [Threads -> Tokens \cup {None}] /\ seen' \in [Threads -> Tokens \cup {None}]
          /\ resent' \in [Threads -> BOOLEAN]
      <4>1. \/ Ends(t)
            \/ UNCHANGED <<seen, resent>> /\ used' = [used EXCEPT ![t] = lastUsed]
        BY <2>2, Zenon DEF Unauthorized
      <4>2. CASE UNCHANGED <<seen, resent>> /\ used' = [used EXCEPT ![t] = lastUsed]
        BY <4>2 DEF LocalsOK
      <4> QED BY <1>e, <4>1, <4>2
    <3> QED BY <2>2, <3>1 DEF LocalsOK, Unauthorized, outside
  <2>3. CASE Resume(t)
    BY <1>0, <2>3 DEF ShapeOK, LocalsOK, Resume, Ends, outside
  <2> QED BY <1>1, <2>1, <2>2, <2>3
<1>2. ASSUME NEW t \in Threads, Check(t) \/ Acquire(t) \/ Send(t) PROVE LocalsOK'
  <2>1. CASE Check(t)
    <3>1. /\ used' \in [Threads -> Tokens \cup {None}] /\ seen' \in [Threads -> Tokens \cup {None}]
          /\ resent' \in [Threads -> BOOLEAN]
      <4>1. \/ Ends(t)
            \/ UNCHANGED <<used, resent>> /\ seen' = [seen EXCEPT ![t] = stored]
        BY <2>1, Zenon DEF Check
      <4>2. CASE UNCHANGED <<used, resent>> /\ seen' = [seen EXCEPT ![t] = stored]
        BY <1>0, <4>2 DEF ShapeOK, LocalsOK
      <4> QED BY <1>e, <4>1, <4>2
    <3> QED BY <2>1, <3>1 DEF LocalsOK, Check, outside
  <2>2. CASE Acquire(t)
    BY <2>2 DEF LocalsOK, Acquire, outside
  <2>3. CASE Send(t)
    <3>1. (pc[t] = "again") \in BOOLEAN
      OBVIOUS
    <3> QED BY <1>0, <2>3, <3>1 DEF ShapeOK, LocalsOK, Send, outside
  <2> QED BY <1>2, <2>1, <2>2, <2>3
<1>3. ASSUME NEW t \in Threads, Exchange(t) PROVE LocalsOK'
  <2>0. pc[t] = "posted" => token[t] \in Tokens
    BY DEF PresentsOK, Exchanging
  <2>1. CASE Post(t)
    BY <2>1 DEF LocalsOK, Post, locals, outside
  <2>2. CASE Granted(t)
    <3>1. pc[t] = "posted" /\ NewToken \in Tokens
      BY <1>0, <2>2 DEF Granted, Goto, Store
    <3>2. unsaved' \in BOOLEAN /\ authRequired' = FALSE
      BY <2>2 DEF Granted, Store, Save
    <3>3. accepted' \subseteq Tokens
      BY <2>0, <2>2, <3>1 DEF LocalsOK, Granted, StillOfUse
    <3>4. bare' \subseteq Tokens
      BY <2>2, <3>1 DEF LocalsOK, Granted, Store
    <3> QED BY <2>2, <3>2, <3>3, <3>4 DEF LocalsOK, Granted
  <2>3. CASE Lost(t)
    <3>1. accepted' \subseteq Tokens
      BY <2>0, <2>3 DEF LocalsOK, Lost, GivesUp
    <3> QED BY <2>3, <3>1 DEF LocalsOK, Lost, GivesUp, Ends, BacksOff
  <2>4. CASE Failed(t) \/ TooMany(t) \/ InvalidGrant(t) \/ Denied(t)
    BY <2>4 DEF LocalsOK, Failed, TooMany, InvalidGrant, Denied, GivesUp, Ends, BacksOff, locals,
                outside
  <2> QED BY <1>3, <2>1, <2>2, <2>3, <2>4 DEF Exchange
<1>4. CASE Wake \/ NewGrant \/ Revoke \/ Tick \/ UNCHANGED vars
  BY <1>0, <1>4 DEF LocalsOK, Wake, NewGrant, Revoke, Tick, Store, Save, StillOfUse, locals,
                         outside, vars
<1>5. CASE Restart
  <2>1. accepted' \subseteq Tokens
    <3>1. accepted' \subseteq accepted
      BY <1>5 DEF Restart
    <3> QED BY <3>1 DEF LocalsOK
  <2>2. forsaken' \in BOOLEAN
    BY <1>5, Zenon DEF LocalsOK, Restart
  <2> QED BY <1>5, <2>1, <2>2 DEF LocalsOK, Restart
<1> QED BY <1>1, <1>2, <1>3, <1>4, <1>5 DEF Next, Proceed

\* Every failure is an event.
LEMMA CountersKept ==
  ASSUME CountersOK, [Next]_vars
  PROVE  CountersOK'
<1> USE TokensOK DEF TokensOK
<1>1. BacksOff /\ Mishap => /\ backoff' \in Nat /\ failures' \in Nat
                           /\ events' \in 0 .. MaxEvents /\ failures' <= events'
  <2> SUFFICES ASSUME BacksOff, Mishap
               PROVE  /\ backoff' \in Nat /\ failures' \in Nat
                      /\ events' \in 0 .. MaxEvents /\ failures' <= events'
    OBVIOUS
  <2>1. failures' \in Nat /\ events' \in 0 .. MaxEvents /\ failures' <= events'
    BY DEF CountersOK, BacksOff, Mishap
  <2>2. failures \in 0 .. MaxEvents
    BY DEF CountersOK
  <2>3. BackoffBase * 2 ^ failures \in Nat
    BY <2>2, BackoffsOK DEF BackoffsOK
  <2>4. backoff' \in {BackoffBase * 2 ^ failures, BackoffMax}
    BY DEF BacksOff, Lower
  <2> QED BY <2>1, <2>3, <2>4
<1>2. Mishap => events' \in 0 .. MaxEvents /\ events' = events + 1
  BY DEF CountersOK, Mishap
<1>3. \A w \in GateWaits : Higher(gate, w) \in Nat /\ w \in Nat
  BY DEF CountersOK, Higher
<1>4. ASSUME NEW t \in Threads,
             \/ Answered(t) \/ Unauthorized(t) \/ Resume(t) \/ Check(t) \/ Acquire(t)
             \/ Send(t) \/ Post(t) \/ Granted(t) \/ InvalidGrant(t)
      PROVE  CountersOK'
  BY <1>2, <1>4 DEF CountersOK, Answered, Unauthorized, Resume, Check, Acquire, Send, Post, Granted,
                    InvalidGrant, GivesUp, Store, timers
<1>5. ASSUME NEW t \in Threads, Lost(t) \/ Failed(t) \/ Denied(t) PROVE CountersOK'
  <2>1. BacksOff \/ UNCHANGED <<failures, backoff>>
    BY <1>5 DEF Lost, Failed, Denied
  <2>2. Mishap /\ gate' = gate /\ due' = due /\ sinceAttempt' \in {sinceAttempt, 0}
    BY <1>5 DEF Lost, Failed, Denied, GivesUp
  <2> QED BY <1>1, <1>2, <2>1, <2>2 DEF CountersOK
<1>6. ASSUME NEW t \in Threads, TooMany(t) PROVE CountersOK'
  <2>1. PICK w \in GateWaits :
           gate' = Higher(gate, w) /\ (BacksOff \/ (backoff' = w /\ failures' = failures))
    BY <1>6 DEF TooMany
  <2>2. Mishap /\ due' = due /\ sinceAttempt' = sinceAttempt
    BY <1>6 DEF TooMany, GivesUp
  <2> QED BY <1>1, <1>2, <1>3, <2>1, <2>2 DEF CountersOK
<1>7. CASE Wake \/ NewGrant \/ Revoke \/ UNCHANGED vars
  BY <1>2, <1>7 DEF CountersOK, Wake, NewGrant, Revoke, Store, timers, vars
<1>8. CASE Restart
  <2>1. due' \in 0 .. Lifetime /\ events' \in 0 .. MaxEvents
    BY <1>2, <1>8 DEF CountersOK, Restart
  <2>2. sinceAttempt' = MinInterval /\ backoff' = 0 /\ failures' = 0 /\ gate' = 0
    BY <1>8 DEF Restart
  <2> QED BY <2>1, <2>2 DEF CountersOK
<1>9. CASE Tick
  BY <1>9 DEF CountersOK, Tick, Sooner, Lower
<1> QED BY <1>4, <1>5, <1>6, <1>7, <1>8, <1>9 DEF Next, Proceed, Exchange

\* Every reachable state has the types the module declares.
THEOREM TypeCorrect == Spec => []TypeOK
<1>1. Init => RestOK
  <2> SUFFICES ASSUME Init PROVE RestOK
    OBVIOUS
  <2>1. LocalsOK
    BY TokensOK DEF TokensOK, Init, LocalsOK
  <2>2. CountersOK
    BY TokensOK DEF TokensOK, Init, CountersOK
  <2>3. PresentsOK
    BY DEF Init, PresentsOK, Exchanging
  <2> QED BY <2>1, <2>2, <2>3 DEF RestOK
<1>2. IInv /\ RestOK /\ [Next]_vars => RestOK'
  BY LocalsKept, CountersKept, PresentsKept DEF RestOK
<1>3. IInv /\ RestOK => TypeOK
  BY DEF IInv, ShapeOK, RestOK, LocalsOK, CountersOK, TypeOK
<1> QED BY <1>1, <1>2, <1>3, Invariance, PTL DEF Spec
=============================================================================
