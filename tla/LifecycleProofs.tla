--------------------------- MODULE LifecycleProofs ---------------------------
(***************************************************************************)
(* Proofs about Lifecycle, for every number of coordinators and clients    *)
(* and every set of configurations.                                        *)
(***************************************************************************)
EXTENDS Lifecycle, TLAPS

\* The user's next client has an index, and the one it replaces is stale by then.
RoomOK ==
    /\ pc[UI] \in {"press", "replace", "rebuild"} => cur < MaxClients
    /\ pc[UI] = "save" /\ config[cur] # want => cur < MaxClients
    /\ pc[UI] \in {"replace", "rebuild"} => superseded = cur

Types == TypeOK /\ RoomOK

\* Whatever has a thread alive is still referred to.
AliveOK == \A k \in alive : ref = k

\* Only a coordinator told to stop may serve a client that was replaced.
ServesOK == ref # None => ref \in told \/ serves[ref] = cur

\* Who waits for a coordinator to end holds the lock, and told it to.
JoinOK == \A t \in Threads : pc[t] \in Joining => lock = t /\ ref # None /\ ref \in told

\* The inductive invariant, beside the types.  OneStream needs JoinOK: a thread
\* that did not hold the lock could launch a coordinator next to another's.
Streams == AliveOK /\ ServesOK /\ JoinOK

----------------------------------------------------------------------------
(* Types.                                                                  *)

\* A launched coordinator serves a client there is.
LEMMA LaunchTypes ==
  ASSUME TypeOK, Launch
  PROVE  /\ ref' \in Coordinators \cup {None}
         /\ serves' \in [Coordinators -> Clients]
         /\ told' \subseteq Coordinators /\ alive' \subseteq Coordinators
BY DEF TypeOK, Launch

\* A new client keeps the types if there is room for it.
LEMMA BuildTypes ==
  ASSUME TypeOK, cur < MaxClients, superseded' = cur, cancelled' = cancelled, Build
  PROVE  /\ cur' \in Clients /\ config' \in [Clients -> Configs]
         /\ superseded' \in cur' - 1 .. cur' /\ cancelled' \in 0 .. cur'
         /\ state' \in {"unauthorized", "pending", "authorized", "required"}
<1>1. MaxClients \in Nat /\ cur \in 1 .. MaxClients /\ cancelled \in 0 .. cur
  BY LifecycleOK DEF LifecycleOK, TypeOK, Clients
<1>2. cur' = cur + 1
  BY DEF Build
<1>3. cur' \in 1 .. MaxClients /\ superseded' \in cur' - 1 .. cur' /\ cancelled' \in 0 .. cur'
  BY <1>1, <1>2
<1>4. config' \in [Clients -> Configs]
  BY DEF Build, TypeOK
<1>5. state' \in {"unauthorized", "pending", "authorized", "required"}
  BY DEF Build
<1> QED BY <1>3, <1>4, <1>5 DEF Clients

\* Every step keeps the types.
LEMMA StepTypes ==
  ASSUME Types,
         NEW t \in Threads, NEW c \in Configs, NEW i \in Clients,
         NEW k \in Coordinators,
         \/ Reconcile(t) \/ Joined(t) \/ Press(c) \/ Save(c)
         \/ Pressed \/ Replaced \/ Ask \/ Saved \/ Rebuilt
         \/ Works(i) \/ Die(k) \/ Push(k) \/ Refresh
  PROVE  Types'
<1> USE LifecycleOK DEF LifecycleOK, Threads
<1>1. CASE Reconcile(t)
  <2>0. \/ ref = None /\ Launch /\ Goto(t, Home(t)) /\ lock' = lock
        \/ ref # None /\ ref' = ref /\ (Signal(t, "restart") \/ Signal(t, "stop"))
        \/ Goto(t, Home(t)) /\ UNCHANGED <<lock, ref, coords>>
    BY <1>1 DEF Reconcile, OtherClient
  <2>1. UNCHANGED <<want, client, superseded, cancelled, state, tokens, flow, shown>> /\ lock = None
    BY <1>1 DEF Reconcile
  <2>2. CASE ref = None /\ Launch /\ Goto(t, Home(t)) /\ lock' = lock
    BY <2>1, <2>2, LaunchTypes DEF Types, TypeOK, RoomOK, Joining, Goto, Home, client
  <2>3. CASE ref # None /\ ref' = ref /\ (Signal(t, "restart") \/ Signal(t, "stop"))
    BY <2>1, <2>3 DEF Types, TypeOK, RoomOK, Joining, Signal, Goto, client
  <2>4. CASE Goto(t, Home(t)) /\ UNCHANGED <<lock, ref, coords>>
    BY <2>1, <2>4 DEF Types, TypeOK, RoomOK, Joining, Goto, Home, client, coords
  <2> QED BY <2>0, <2>2, <2>3, <2>4
<1>2. CASE Joined(t)
  <2>1. TypeOK'
    BY <1>2, LaunchTypes DEF Types, TypeOK, RoomOK, Joining, Joined, Goto, Home, client, coords
  <2>2. RoomOK'
    BY <1>2 DEF Types, TypeOK, RoomOK, Joining, Joined, Goto, Home, client, coords
  <2> QED BY <2>1, <2>2 DEF Types
<1>3. CASE Press(c)
  <2>1. cancelled' \in 0 .. cur'
    <3>1. cur \in 1 .. MaxClients /\ MaxClients \in Nat
      BY DEF Types, TypeOK, Clients
    <3>2. cancelled' = cur /\ cur' = cur
      BY <1>3 DEF Press, client
    <3> QED BY <3>1, <3>2
  <2>2. TypeOK'
    BY <1>3, <2>1 DEF Types, TypeOK, RoomOK, Joining, Press, Goto, client, coords
  <2>9. RoomOK'
    BY <1>3 DEF Types, TypeOK, RoomOK, Joining, Press, Goto, client, coords
  <2> QED BY <2>2, <2>9 DEF Types
<1>4. CASE Save(c)
  <2>1. TypeOK'
    BY <1>4 DEF Types, TypeOK, RoomOK, Joining, Save, Goto, client, coords
  <2>2. RoomOK'
    BY <1>4 DEF Types, TypeOK, RoomOK, Joining, Save, Goto, client, coords
  <2> QED BY <2>1, <2>2 DEF Types
<1>5. CASE Pressed
  <2>0. cur \in 1 .. MaxClients /\ MaxClients \in Nat
    BY DEF Types, TypeOK, Clients
  <2>1. CASE superseded' = cur /\ ref # None /\ Signal(UI, "replace") /\ UNCHANGED <<client, state>>
    <3>1. superseded' \in cur' - 1 .. cur'
      BY <2>0, <2>1 DEF client
    <3> QED BY <1>5, <2>1, <3>1 DEF Types, TypeOK, RoomOK, Joining, Pressed, Signal, Goto,
       client
  <2>2. CASE superseded' = cur /\ ref = None /\ Build /\ Goto(UI, "ask") /\ UNCHANGED <<lock, coords>>
    <3>1. cur < MaxClients /\ UNCHANGED <<want, cancelled, tokens, flow, ref, shown>>
      BY <1>5, <2>2 DEF Types, TypeOK, RoomOK, Joining, Pressed
    <3>2. /\ cur' \in Clients /\ config' \in [Clients -> Configs]
          /\ superseded' \in cur' - 1 .. cur' /\ cancelled' \in 0 .. cur'
          /\ state' \in {"unauthorized", "pending", "authorized", "required"}
      BY <2>2, <3>1, BuildTypes DEF Types
    <3> QED BY <2>2, <3>1, <3>2 DEF Types, TypeOK, RoomOK, Joining, Goto, coords
  <2> QED BY <1>5, <2>1, <2>2 DEF Pressed
<1>6. CASE Replaced
  <2>1. TypeOK'
    BY <1>6, BuildTypes DEF Types, TypeOK, RoomOK, Joining, Replaced, LetGo, Goto, client,
       coords
  <2>2. RoomOK'
    BY <1>6 DEF Types, TypeOK, RoomOK, Joining, Replaced, LetGo, Goto, Build, client, coords
  <2> QED BY <2>1, <2>2 DEF Types
<1>7. CASE Ask
  <2>1. TypeOK'
    BY <1>7 DEF Types, TypeOK, RoomOK, Joining, Ask, Goto, client, coords
  <2>2. RoomOK'
    BY <1>7 DEF Types, TypeOK, RoomOK, Joining, Ask, Goto, client, coords
  <2> QED BY <2>1, <2>2 DEF Types
<1>8. CASE Saved
  <2>0. cur \in 1 .. MaxClients /\ MaxClients \in Nat
    BY DEF Types, TypeOK, Clients
  <2>1. CASE superseded' = cur /\ ref # None /\ Signal(UI, "rebuild") /\ UNCHANGED <<client, state>>
    <3>1. superseded' \in cur' - 1 .. cur'
      BY <2>0, <2>1 DEF client
    <3> QED BY <1>8, <2>1, <3>1 DEF Types, TypeOK, RoomOK, Joining, Saved, Signal, Goto, client
  <2>4. ref = None /\ superseded' = cur /\ Build => config[cur] # want
    BY <1>8, <2>0 DEF Saved, Build, client
  <2>2. CASE superseded' = cur /\ ref = None /\ Build /\ Goto(UI, "reconcile") /\ UNCHANGED <<lock, coords>>
    <3>1. cur < MaxClients /\ UNCHANGED <<want, cancelled, tokens, flow, ref, shown>>
      BY <1>8, <2>2, <2>4 DEF Types, TypeOK, RoomOK, Joining, Saved
    <3>2. /\ cur' \in Clients /\ config' \in [Clients -> Configs]
          /\ superseded' \in cur' - 1 .. cur' /\ cancelled' \in 0 .. cur'
          /\ state' \in {"unauthorized", "pending", "authorized", "required"}
      BY <2>2, <3>1, BuildTypes DEF Types
    <3> QED BY <2>2, <3>1, <3>2 DEF Types, TypeOK, RoomOK, Joining, Goto, coords
  <2>3. CASE Goto(UI, "reconcile") /\ UNCHANGED <<lock, client, superseded, state, coords>>
    BY <1>8, <2>3 DEF Types, TypeOK, RoomOK, Joining, Saved, Goto, client, coords
  <2> QED BY <1>8, <2>1, <2>2, <2>3 DEF Saved
<1>9. CASE Rebuilt
  <2>1. TypeOK'
    BY <1>9, BuildTypes DEF Types, TypeOK, RoomOK, Joining, Rebuilt, LetGo, Goto, client, coords
  <2>2. RoomOK'
    BY <1>9 DEF Types, TypeOK, RoomOK, Joining, Rebuilt, LetGo, Goto, Build, client, coords
  <2> QED BY <2>1, <2>2 DEF Types
<1>10. CASE Cancel(i)
  <2>1. TypeOK'
    BY <1>10 DEF Types, TypeOK, RoomOK, Joining, Cancel, FlowTo, SetState, client, coords
  <2>2. RoomOK'
    BY <1>10 DEF Types, TypeOK, RoomOK, Joining, Cancel, FlowTo, SetState, client, coords
  <2> QED BY <2>1, <2>2 DEF Types
<1>11. CASE Approve(i)
  <2>1. TypeOK'
    BY <1>11 DEF Types, TypeOK, RoomOK, Joining, Approve, FlowTo, SetState, client, coords
  <2>2. RoomOK'
    BY <1>11 DEF Types, TypeOK, RoomOK, Joining, Approve, FlowTo, SetState, client, coords
  <2> QED BY <2>1, <2>2 DEF Types
<1>12. CASE Store(i)
  <2>1. TypeOK'
    BY <1>12 DEF Types, TypeOK, RoomOK, Joining, Store, FlowTo, SetState, client, coords
  <2>2. RoomOK'
    BY <1>12 DEF Types, TypeOK, RoomOK, Joining, Store, FlowTo, SetState, client, coords
  <2> QED BY <2>1, <2>2 DEF Types
<1>13. CASE Expire(i)
  <2>1. TypeOK'
    BY <1>13 DEF Types, TypeOK, RoomOK, Joining, Expire, FlowTo, SetState, client, coords
  <2>2. RoomOK'
    BY <1>13 DEF Types, TypeOK, RoomOK, Joining, Expire, FlowTo, SetState, client, coords
  <2> QED BY <2>1, <2>2 DEF Types
<1>14. CASE Refuse(i)
  <2>1. TypeOK'
    BY <1>14 DEF Types, TypeOK, RoomOK, Joining, Refuse, FlowTo, SetState, client, coords
  <2>2. RoomOK'
    BY <1>14 DEF Types, TypeOK, RoomOK, Joining, Refuse, FlowTo, SetState, client, coords
  <2> QED BY <2>1, <2>2 DEF Types
<1>15. CASE Judge(i)
  <2>1. TypeOK'
    BY <1>15 DEF Types, TypeOK, RoomOK, Joining, Judge, FlowTo, client, coords
  <2>2. RoomOK'
    BY <1>15 DEF Types, TypeOK, RoomOK, Joining, Judge, FlowTo, client, coords
  <2> QED BY <2>1, <2>2 DEF Types
<1>16. CASE Die(k)
  <2>1. TypeOK'
    BY <1>16 DEF Types, TypeOK, RoomOK, Joining, Die, client, coords
  <2>2. RoomOK'
    BY <1>16 DEF Types, TypeOK, RoomOK, Joining, Die, client, coords
  <2> QED BY <2>1, <2>2 DEF Types
<1>17. CASE Push(k)
  <2>1. TypeOK'
    BY <1>17 DEF Types, TypeOK, RoomOK, Joining, Push, client, coords
  <2>2. RoomOK'
    BY <1>17 DEF Types, TypeOK, RoomOK, Joining, Push, client, coords
  <2> QED BY <2>1, <2>2 DEF Types
<1>18. CASE Refresh
  <2>1. TypeOK'
    BY <1>18 DEF Types, TypeOK, RoomOK, Joining, Refresh, client, coords
  <2>2. RoomOK'
    BY <1>18 DEF Types, TypeOK, RoomOK, Joining, Refresh, client, coords
  <2> QED BY <2>1, <2>2 DEF Types
<1> QED BY <1>1, <1>2, <1>3, <1>4, <1>5, <1>6, <1>7, <1>8, <1>9, <1>10, <1>11, <1>12, <1>13,
   <1>14, <1>15, <1>16, <1>17, <1>18 DEF Works

----------------------------------------------------------------------------
(* Streams.                                                                *)

\* Every step keeps what is said of the coordinators.
LEMMA StepStreams ==
  ASSUME Types, Streams,
         NEW t \in Threads, NEW c \in Configs, NEW i \in Clients,
         NEW k \in Coordinators,
         \/ Reconcile(t) \/ Joined(t) \/ Press(c) \/ Save(c)
         \/ Pressed \/ Replaced \/ Ask \/ Saved \/ Rebuilt
         \/ Works(i) \/ Die(k) \/ Push(k) \/ Refresh
  PROVE  Streams'
<1> USE LifecycleOK DEF LifecycleOK, Threads
<1>1. CASE Reconcile(t)
  <2>0. \/ ref = None /\ Launch /\ Goto(t, Home(t)) /\ lock' = lock
        \/ ref # None /\ ref' = ref /\ (Signal(t, "restart") \/ Signal(t, "stop"))
        \/ Goto(t, Home(t)) /\ UNCHANGED <<lock, ref, coords>>
    BY <1>1 DEF Reconcile, OtherClient
  <2>1. UNCHANGED <<want, client, superseded, cancelled, state, tokens, flow, shown>> /\ lock = None
    BY <1>1 DEF Reconcile
  <2>2. CASE ref = None /\ Launch /\ Goto(t, Home(t)) /\ lock' = lock
    <3>1. alive = {}
      BY <2>2 DEF Types, TypeOK, Streams, AliveOK, ServesOK, JoinOK, Joining
    <3>2. PICK l \in Coordinators : ref' = l /\ serves' = [serves EXCEPT ![l] = cur] /\ alive' = alive \cup {l}
      BY <2>2 DEF Launch
    <3>3. AliveOK'
      BY <3>1, <3>2 DEF AliveOK
    <3>4. ServesOK'
      BY <2>1, <3>2 DEF Types, TypeOK, ServesOK, client
    <3>5. JoinOK'
      BY <2>1, <2>2 DEF Types, TypeOK, Streams, AliveOK, ServesOK, JoinOK, Joining, Goto, Home
    <3> QED BY <3>3, <3>4, <3>5 DEF Streams
  <2>3. CASE ref # None /\ ref' = ref /\ (Signal(t, "restart") \/ Signal(t, "stop"))
    BY <2>1, <2>3 DEF Types, TypeOK, Streams, AliveOK, ServesOK, JoinOK, Joining, Signal,
       Goto, client
  <2>4. CASE Goto(t, Home(t)) /\ UNCHANGED <<lock, ref, coords>>
    BY <2>1, <2>4 DEF Types, TypeOK, Streams, AliveOK, ServesOK, JoinOK, Joining, Goto, Home,
       client, coords
  <2> QED BY <2>0, <2>2, <2>3, <2>4
<1>2. CASE Joined(t)
  <2>0. /\ UNCHANGED client /\ Goto(t, Home(t))
        /\ \/ UNCHANGED <<ref, coords>>
           \/ ref \notin alive /\ ref' = None /\ UNCHANGED coords
           \/ ref \notin alive /\ Launch
    BY <1>2 DEF Joined
  <2>1. lock = t /\ t \in Threads
    BY <1>2 DEF Joined
  <2>2. \A u \in Threads : pc'[u] \notin Joining
    BY <2>0, <2>1 DEF Types, TypeOK, Streams, AliveOK, ServesOK, JoinOK, Joining, Goto, Home
  <2>3. CASE UNCHANGED <<ref, coords>>
    BY <2>0, <2>2, <2>3 DEF Types, TypeOK, Streams, AliveOK, ServesOK, JoinOK, Joining,
       client, coords
  <2>4. CASE ref \notin alive /\ ref' = None /\ UNCHANGED coords
    BY <2>2, <2>4 DEF Types, TypeOK, Streams, AliveOK, ServesOK, JoinOK, Joining, coords
  <2>5. CASE ref \notin alive /\ Launch
    <3>1. alive = {}
      BY <2>5 DEF Types, TypeOK, Streams, AliveOK, ServesOK, JoinOK, Joining
    <3>2. PICK l \in Coordinators : ref' = l /\ serves' = [serves EXCEPT ![l] = cur] /\ alive' = alive \cup {l}
      BY <2>5 DEF Launch
    <3>3. AliveOK'
      BY <3>1, <3>2 DEF AliveOK
    <3>4. ServesOK'
      BY <2>0, <3>2 DEF Types, TypeOK, ServesOK, client
    <3>5. JoinOK'
      BY <2>2 DEF JoinOK
    <3> QED BY <3>3, <3>4, <3>5 DEF Streams
  <2> QED BY <2>0, <2>3, <2>4, <2>5
<1>3. CASE Press(c)
  <2>1. AliveOK'
    BY <1>3 DEF Types, TypeOK, Streams, AliveOK, ServesOK, JoinOK, Joining, Press, Goto,
       client, coords
  <2>2. ServesOK'
    BY <1>3 DEF Types, TypeOK, Streams, AliveOK, ServesOK, JoinOK, Joining, Press, Goto,
       client, coords
  <2>3. JoinOK'
    BY <1>3 DEF Types, TypeOK, Streams, AliveOK, ServesOK, JoinOK, Joining, Press, Goto,
       client, coords
  <2> QED BY <2>1, <2>2, <2>3 DEF Streams
<1>4. CASE Save(c)
  <2>1. AliveOK'
    BY <1>4 DEF Types, TypeOK, Streams, AliveOK, ServesOK, JoinOK, Joining, Save, Goto,
       client, coords
  <2>2. ServesOK'
    BY <1>4 DEF Types, TypeOK, Streams, AliveOK, ServesOK, JoinOK, Joining, Save, Goto,
       client, coords
  <2>3. JoinOK'
    BY <1>4 DEF Types, TypeOK, Streams, AliveOK, ServesOK, JoinOK, Joining, Save, Goto,
       client, coords
  <2> QED BY <2>1, <2>2, <2>3 DEF Streams
<1>5. CASE Pressed
  <2>1. AliveOK'
    BY <1>5 DEF Types, TypeOK, Streams, AliveOK, ServesOK, JoinOK, Joining, Pressed, Signal,
       Goto, Build, client, coords
  <2>2. ServesOK'
    BY <1>5 DEF Types, TypeOK, Streams, AliveOK, ServesOK, JoinOK, Joining, Pressed, Signal,
       Goto, Build, client, coords
  <2>3. JoinOK'
    BY <1>5 DEF Types, TypeOK, Streams, AliveOK, ServesOK, JoinOK, Joining, Pressed, Signal,
       Goto, Build, client, coords
  <2> QED BY <2>1, <2>2, <2>3 DEF Streams
<1>6. CASE Replaced
  <2>1. AliveOK'
    BY <1>6 DEF Types, TypeOK, Streams, AliveOK, ServesOK, JoinOK, Joining, Replaced, LetGo,
       Goto, Build, client, coords
  <2>2. ServesOK'
    BY <1>6 DEF Types, TypeOK, Streams, AliveOK, ServesOK, JoinOK, Joining, Replaced, LetGo,
       Goto, Build, client, coords
  <2>3. JoinOK'
    BY <1>6 DEF Types, TypeOK, Streams, AliveOK, ServesOK, JoinOK, Joining, Replaced, LetGo,
       Goto, Build, client, coords
  <2> QED BY <2>1, <2>2, <2>3 DEF Streams
<1>7. CASE Ask
  <2>1. AliveOK'
    BY <1>7 DEF Types, TypeOK, Streams, AliveOK, ServesOK, JoinOK, Joining, Ask, Goto,
       client, coords
  <2>2. ServesOK'
    BY <1>7 DEF Types, TypeOK, Streams, AliveOK, ServesOK, JoinOK, Joining, Ask, Goto,
       client, coords
  <2>3. JoinOK'
    BY <1>7 DEF Types, TypeOK, Streams, AliveOK, ServesOK, JoinOK, Joining, Ask, Goto,
       client, coords
  <2> QED BY <2>1, <2>2, <2>3 DEF Streams
<1>8. CASE Saved
  <2>1. AliveOK'
    BY <1>8 DEF Types, TypeOK, Streams, AliveOK, ServesOK, JoinOK, Joining, Saved, Signal,
       Goto, Build, client, coords
  <2>2. ServesOK'
    BY <1>8 DEF Types, TypeOK, Streams, AliveOK, ServesOK, JoinOK, Joining, Saved, Signal,
       Goto, Build, client, coords
  <2>3. JoinOK'
    BY <1>8 DEF Types, TypeOK, Streams, AliveOK, ServesOK, JoinOK, Joining, Saved, Signal,
       Goto, Build, client, coords
  <2> QED BY <2>1, <2>2, <2>3 DEF Streams
<1>9. CASE Rebuilt
  <2>1. AliveOK'
    BY <1>9 DEF Types, TypeOK, Streams, AliveOK, ServesOK, JoinOK, Joining, Rebuilt, LetGo,
       Goto, Build, client, coords
  <2>2. ServesOK'
    BY <1>9 DEF Types, TypeOK, Streams, AliveOK, ServesOK, JoinOK, Joining, Rebuilt, LetGo,
       Goto, Build, client, coords
  <2>3. JoinOK'
    BY <1>9 DEF Types, TypeOK, Streams, AliveOK, ServesOK, JoinOK, Joining, Rebuilt, LetGo,
       Goto, Build, client, coords
  <2> QED BY <2>1, <2>2, <2>3 DEF Streams
<1>10. CASE Cancel(i)
  <2>1. AliveOK'
    BY <1>10 DEF Types, TypeOK, Streams, AliveOK, ServesOK, JoinOK, Joining, Cancel, FlowTo,
       SetState, client, coords
  <2>2. ServesOK'
    BY <1>10 DEF Types, TypeOK, Streams, AliveOK, ServesOK, JoinOK, Joining, Cancel, FlowTo,
       SetState, client, coords
  <2>3. JoinOK'
    BY <1>10 DEF Types, TypeOK, Streams, AliveOK, ServesOK, JoinOK, Joining, Cancel, FlowTo,
       SetState, client, coords
  <2> QED BY <2>1, <2>2, <2>3 DEF Streams
<1>11. CASE Approve(i)
  <2>1. AliveOK'
    BY <1>11 DEF Types, TypeOK, Streams, AliveOK, ServesOK, JoinOK, Joining, Approve, FlowTo,
       SetState, client, coords
  <2>2. ServesOK'
    BY <1>11 DEF Types, TypeOK, Streams, AliveOK, ServesOK, JoinOK, Joining, Approve, FlowTo,
       SetState, client, coords
  <2>3. JoinOK'
    BY <1>11 DEF Types, TypeOK, Streams, AliveOK, ServesOK, JoinOK, Joining, Approve, FlowTo,
       SetState, client, coords
  <2> QED BY <2>1, <2>2, <2>3 DEF Streams
<1>12. CASE Store(i)
  <2>1. AliveOK'
    BY <1>12 DEF Types, TypeOK, Streams, AliveOK, ServesOK, JoinOK, Joining, Store, FlowTo,
       SetState, client, coords
  <2>2. ServesOK'
    BY <1>12 DEF Types, TypeOK, Streams, AliveOK, ServesOK, JoinOK, Joining, Store, FlowTo,
       SetState, client, coords
  <2>3. JoinOK'
    BY <1>12 DEF Types, TypeOK, Streams, AliveOK, ServesOK, JoinOK, Joining, Store, FlowTo,
       SetState, client, coords
  <2> QED BY <2>1, <2>2, <2>3 DEF Streams
<1>13. CASE Expire(i)
  <2>1. AliveOK'
    BY <1>13 DEF Types, TypeOK, Streams, AliveOK, ServesOK, JoinOK, Joining, Expire, FlowTo,
       SetState, client, coords
  <2>2. ServesOK'
    BY <1>13 DEF Types, TypeOK, Streams, AliveOK, ServesOK, JoinOK, Joining, Expire, FlowTo,
       SetState, client, coords
  <2>3. JoinOK'
    BY <1>13 DEF Types, TypeOK, Streams, AliveOK, ServesOK, JoinOK, Joining, Expire, FlowTo,
       SetState, client, coords
  <2> QED BY <2>1, <2>2, <2>3 DEF Streams
<1>14. CASE Refuse(i)
  <2>1. AliveOK'
    BY <1>14 DEF Types, TypeOK, Streams, AliveOK, ServesOK, JoinOK, Joining, Refuse, FlowTo,
       SetState, client, coords
  <2>2. ServesOK'
    BY <1>14 DEF Types, TypeOK, Streams, AliveOK, ServesOK, JoinOK, Joining, Refuse, FlowTo,
       SetState, client, coords
  <2>3. JoinOK'
    BY <1>14 DEF Types, TypeOK, Streams, AliveOK, ServesOK, JoinOK, Joining, Refuse, FlowTo,
       SetState, client, coords
  <2> QED BY <2>1, <2>2, <2>3 DEF Streams
<1>15. CASE Judge(i)
  <2>1. AliveOK'
    BY <1>15 DEF Types, TypeOK, Streams, AliveOK, ServesOK, JoinOK, Joining, Judge, FlowTo,
       client, coords
  <2>2. ServesOK'
    BY <1>15 DEF Types, TypeOK, Streams, AliveOK, ServesOK, JoinOK, Joining, Judge, FlowTo,
       client, coords
  <2>3. JoinOK'
    BY <1>15 DEF Types, TypeOK, Streams, AliveOK, ServesOK, JoinOK, Joining, Judge, FlowTo,
       client, coords
  <2> QED BY <2>1, <2>2, <2>3 DEF Streams
<1>16. CASE Die(k)
  <2>1. AliveOK'
    BY <1>16 DEF Types, TypeOK, Streams, AliveOK, ServesOK, JoinOK, Joining, Die, client, coords
  <2>2. ServesOK'
    BY <1>16 DEF Types, TypeOK, Streams, AliveOK, ServesOK, JoinOK, Joining, Die, client, coords
  <2>3. JoinOK'
    BY <1>16 DEF Types, TypeOK, Streams, AliveOK, ServesOK, JoinOK, Joining, Die, client, coords
  <2> QED BY <2>1, <2>2, <2>3 DEF Streams
<1>17. CASE Push(k)
  <2>1. AliveOK'
    BY <1>17 DEF Types, TypeOK, Streams, AliveOK, ServesOK, JoinOK, Joining, Push, client,
       coords
  <2>2. ServesOK'
    BY <1>17 DEF Types, TypeOK, Streams, AliveOK, ServesOK, JoinOK, Joining, Push, client,
       coords
  <2>3. JoinOK'
    BY <1>17 DEF Types, TypeOK, Streams, AliveOK, ServesOK, JoinOK, Joining, Push, client,
       coords
  <2> QED BY <2>1, <2>2, <2>3 DEF Streams
<1>18. CASE Refresh
  <2>1. AliveOK'
    BY <1>18 DEF Types, TypeOK, Streams, AliveOK, ServesOK, JoinOK, Joining, Refresh, client,
       coords
  <2>2. ServesOK'
    BY <1>18 DEF Types, TypeOK, Streams, AliveOK, ServesOK, JoinOK, Joining, Refresh, client,
       coords
  <2>3. JoinOK'
    BY <1>18 DEF Types, TypeOK, Streams, AliveOK, ServesOK, JoinOK, Joining, Refresh, client,
       coords
  <2> QED BY <2>1, <2>2, <2>3 DEF Streams
<1> QED BY <1>1, <1>2, <1>3, <1>4, <1>5, <1>6, <1>7, <1>8, <1>9, <1>10, <1>11, <1>12, <1>13,
   <1>14, <1>15, <1>16, <1>17, <1>18 DEF Works

----------------------------------------------------------------------------
(* The theorems.                                                           *)

\* The invariants hold of every behaviour.
THEOREM Invariance == Spec => [](Types /\ Streams)
<1>1. Init => Types
  <2> SUFFICES ASSUME Init PROVE Types
    OBVIOUS
  <2>1. 1 \in Clients
    BY LifecycleOK DEF LifecycleOK, Clients
  <2>2. ref \in Coordinators \cup {None} /\ told \subseteq Coordinators /\ alive \subseteq Coordinators
    BY DEF Init
  <2>3. cur \in Clients /\ superseded \in cur - 1 .. cur /\ cancelled \in 0 .. cur
    BY <2>1 DEF Init
  <2>4. pc \in [Threads -> Joining \cup {"idle", "reconcile", "press", "ask", "save"}]
    BY DEF Init, Home
  <2>5. /\ flow \in [Clients -> {"none", "polling", "polling again", "expired", "granted",
                                "failed", "marking"}]
        /\ state \in {"unauthorized", "pending", "authorized", "required"}
        /\ shown \in {"live", "waiting", "auth required"}
        /\ lock \in Threads \cup {None}
    BY DEF Init
  <2>6. want \in Configs /\ config \in [Clients -> Configs] /\ tokens \subseteq Configs
        /\ serves \in [Coordinators -> Clients]
    BY <2>1 DEF Init
  <2>7. TypeOK
    BY <2>2, <2>3, <2>4, <2>5, <2>6 DEF TypeOK
  <2>8. RoomOK
    BY LifecycleOK DEF LifecycleOK, Init, RoomOK, Home, Threads
  <2> QED BY <2>7, <2>8 DEF Types
<1>2. Init => Streams
  BY LifecycleOK DEF LifecycleOK, Init, Streams, AliveOK, ServesOK, JoinOK, Joining, Home,
     Threads
<1>3. Types /\ Streams /\ [Next]_vars => Types' /\ Streams'
  <2> SUFFICES ASSUME Types, Streams, [Next]_vars PROVE Types' /\ Streams'
    OBVIOUS
  <2>1. CASE UNCHANGED vars
    BY <2>1 DEF vars, client, coords, Types, TypeOK, RoomOK, Streams, AliveOK, ServesOK, JoinOK
  <2>2. CASE Next
    <3>1. \E t \in Threads, c \in Configs, i \in Clients, k \in Coordinators :
              \/ Reconcile(t) \/ Joined(t) \/ Press(c) \/ Save(c)
              \/ Pressed \/ Replaced \/ Ask \/ Saved \/ Rebuilt
              \/ Works(i) \/ Die(k) \/ Push(k) \/ Refresh
      BY <2>2, LifecycleOK DEF LifecycleOK, Next, Types, TypeOK, Threads
    <3> QED BY <3>1, StepTypes, StepStreams
  <2> QED BY <2>1, <2>2
<1> QED BY <1>1, <1>2, <1>3, PTL DEF Spec

\* Every variable keeps its type, the indices of the clients included.
THEOREM TypeCorrect == Spec => []TypeOK
<1>1. Types => TypeOK
  BY DEF Types
<1> QED BY Invariance, <1>1, PTL

\* However the supervisor, the user and coordinators that will not end
\* interleave, at most one coordinator has a thread alive.
THEOREM OneStreamAlways == Spec => []OneStream
<1>1. Streams => OneStream
  BY DEF Streams, AliveOK, OneStream
<1> QED BY Invariance, <1>1, PTL

\* A coordinator that was not told to stop is the plugin's and serves the
\* current client.
THEOREM StreamsAreCurrent == Spec => []StreamIsCurrent
<1>1. Types /\ Streams => StreamIsCurrent
  BY LifecycleOK DEF LifecycleOK, Types, TypeOK, Streams, AliveOK, ServesOK, StreamIsCurrent
<1> QED BY Invariance, <1>1, PTL
=============================================================================
