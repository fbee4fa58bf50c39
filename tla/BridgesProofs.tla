---------------------------- MODULE BridgesProofs ----------------------------
(***************************************************************************)
(* Proofs about Bridges, for every number of bridge and appliance objects: *)
(* who holds a bridge's lock and what is written under it (IInv), where    *)
(* each thread is and what it knows there (PlacesOK), how the device's     *)
(* bridge follows the registry (AttachmentOK), and what the device shows:  *)
(* its appliance (AttachedShown), the loss of authorization (LostAuthShown),*)
(* or the loss of its appliance (OrphanShown).                             *)
(***************************************************************************)
EXTENDS Bridges, TLAPS

\* Where a thread is in a bridge.
Inside ==
    {"find", "attach", "subscribe", "push", "write", "detach", "unsubscribe", "mark auth",
     "mark waiting", "orphan", "flag", "latch"}

\* What a thread has in hand, and that it is in some bridge when it should be.
ThreadsOK ==
    /\ pc \in [Threads -> Places] /\ back \in [Threads -> Returns]
    /\ mine \in [Threads -> BridgeObjects \cup {None}]
    /\ object \in [Threads -> Objects \cup {None}]
    /\ \A t \in Threads :
           pc[t] \in Inside \/ back[t] = "orphan" => mine[t] \in BridgeObjects

BridgesTyped ==
    /\ registered \in BridgeObjects \cup {None}
    /\ appliance \in [BridgeObjects -> Objects \cup {None}]
    /\ holder \in [BridgeObjects -> Threads \cup {None}]
    /\ calls \subseteq BridgeObjects
    /\ registry \in Objects \cup {None}
    /\ observers \in [Objects -> SUBSET BridgeObjects]

\* A bridge's lock is held, over more than a step, by the thread that writes from it.
LockOK ==
    \A b \in BridgeObjects, t \in Threads :
        holder[b] = t <=> At(t, "write") /\ mine[t] = b

\* What is written is of the appliance the bridge is attached to.
WritersOK == \A t \in Threads : At(t, "write") => appliance[mine[t]] = object[t]

\* The inductive invariant.  WritersOK needs LockOK: an attachment that changes
\* under a push would take the lock from the thread that writes.
IInv == ThreadsOK /\ BridgesTyped /\ LockOK /\ WritersOK

----------------------------------------------------------------------------
(* How a thread moves.                                                     *)

\* t goes on, calls or returns, but does not start to write.
Moves(t) ==
    \/ \E p \in Places \ {"write"} :
          /\ p \in Inside => mine[t] \in BridgeObjects
          /\ Goto(t, p)
    \/ \E p \in Places \ {"write"}, r \in Returns,
          b \in BridgeObjects \cup {None}, o \in Objects \cup {None} :
          /\ p \in Inside \/ r = "orphan" => b \in BridgeObjects
          /\ Into(t, p, b, o, r)

\* Locks, and what bridges under lock are attached to, stay.
Framed ==
    /\ BridgesTyped' /\ holder' = holder
    /\ \A b \in BridgeObjects : appliance'[b] = appliance[b] \/ holder[b] \notin Threads

\* A step into a place, with a bridge if the place is in one.
LEMMA Entering ==
  ASSUME ThreadsOK, NEW t \in Threads, NEW p \in Places, NEW r \in Returns,
         NEW b \in BridgeObjects \cup {None}, NEW o \in Objects \cup {None},
         p \in Inside \/ r = "orphan" => b \in BridgeObjects,
         Into(t, p, b, o, r)
  PROVE  /\ ThreadsOK'
         /\ pc'[t] = p /\ mine'[t] = b /\ object'[t] = o
         /\ \A u \in Threads \ {t} :
                pc'[u] = pc[u] /\ mine'[u] = mine[u] /\ object'[u] = object[u]
BY DEF ThreadsOK, Into

\* However it moves, the others stay where they are.
LEMMA Moving ==
  ASSUME ThreadsOK, NEW t \in Threads, Moves(t)
  PROVE  /\ ThreadsOK'
         /\ pc'[t] # "write"
         /\ \A u \in Threads \ {t} :
                pc'[u] = pc[u] /\ mine'[u] = mine[u] /\ object'[u] = object[u]
<1>1. CASE \E p \in Places \ {"write"} :
              /\ p \in Inside => mine[t] \in BridgeObjects
              /\ Goto(t, p)
  BY <1>1 DEF ThreadsOK, Goto
<1>2. CASE \E p \in Places \ {"write"}, r \in Returns,
              b \in BridgeObjects \cup {None}, o \in Objects \cup {None} :
              /\ p \in Inside \/ r = "orphan" => b \in BridgeObjects
              /\ Into(t, p, b, o, r)
  BY <1>2, Entering
<1> QED BY <1>1, <1>2 DEF Moves

\* A return from a bridge is such a step.
LEMMA Returning ==
  ASSUME ThreadsOK, NEW t \in Threads, Return(t)
  PROVE  Moves(t)
<1>1. back[t] \in Returns /\ back[t] \in Places \ {"write"} /\ "idle" \in Returns
  BY DEF ThreadsOK, Returns, Places
<1>2. mine[t] \in BridgeObjects \cup {None} /\ (back[t] = "orphan" => mine[t] \in BridgeObjects)
  BY DEF ThreadsOK
<1>3. back[t] # "orphan" => back[t] \notin Inside
  BY <1>1 DEF Returns, Inside
<1> DEFINE b == IF back[t] = "orphan" THEN mine[t] ELSE None
<1>4. Into(t, back[t], b, None, "idle")
  BY DEF Return, Enter
<1>5. b \in BridgeObjects \cup {None} /\ (back[t] \in Inside => b \in BridgeObjects)
  BY <1>2, <1>3
<1> HIDE DEF b
<1> QED BY <1>1, <1>4, <1>5 DEF Moves

\* A move that leaves the locks, and the attachment of bridges under lock, alone.
LEMMA LocksKept ==
  ASSUME IInv, NEW t \in Threads, ~At(t, "write"), Moves(t), Framed
  PROVE  LockOK' /\ WritersOK'
<1>1. /\ pc'[t] # "write"
      /\ \A u \in Threads \ {t} :
             pc'[u] = pc[u] /\ mine'[u] = mine[u] /\ object'[u] = object[u]
  BY Moving DEF IInv
<1>2. LockOK'
  BY <1>1 DEF Framed, IInv, LockOK, At
<1>3. ASSUME NEW u \in Threads, pc'[u] = "write" PROVE appliance'[mine'[u]] = object'[u]
  <2>1. u # t /\ pc[u] = "write" /\ mine'[u] = mine[u] /\ object'[u] = object[u]
    BY <1>1, <1>3
  <2>2. mine[u] \in BridgeObjects /\ holder[mine[u]] = u /\ appliance[mine[u]] = object[u]
    BY <2>1 DEF IInv, ThreadsOK, Inside, LockOK, WritersOK, At
  <2> QED BY <2>1, <2>2 DEF Framed
<1> QED BY <1>2, <1>3 DEF WritersOK, At

\* Nobody holds a lock that is free.
LEMMA FreeLock ==
  ASSUME NEW b, Free(b)
  PROVE  holder[b] \notin Threads
BY BridgesOK DEF BridgesOK, Free

----------------------------------------------------------------------------
(* The steps.                                                              *)

\* Each operation that writes nothing from a snapshot is a move of its thread.
LEMMA Operations ==
  ASSUME IInv, NEW t \in Threads
  PROVE  /\ Attach(t) \/ Subscribe(t) \/ Detach(t) \/ Unsubscribe(t) \/ MarkAuth(t)
                => ~At(t, "write") /\ Moves(t)
         /\ MarkWaiting \/ StartComm \/ Find \/ StopComm => ~At(Main, "write") /\ Moves(Main)
         /\ WorkerNext
                => ~At(Worker, "write") /\ Moves(Worker)
         /\ StopCoordinator \/ ListBridges => ~At(Supervisor, "write") /\ Moves(Supervisor)
<1> USE DEF At
<1>0. /\ ThreadsOK /\ BridgesTyped
      /\ Main \in Threads /\ Worker \in Threads /\ Supervisor \in Threads
  BY DEF IInv, Threads
<1>1. ASSUME Attach(t) PROVE ~At(t, "write") /\ Moves(t)
  <2>1. ~At(t, "write") /\ (Return(t) \/ Goto(t, "subscribe")) /\ mine[t] \in BridgeObjects
    BY <1>0, <1>1 DEF Attach, ThreadsOK, Inside
  <2> QED BY <1>0, <2>1, Returning DEF Moves, Places
<1>2. ASSUME Subscribe(t) PROVE ~At(t, "write") /\ Moves(t)
  <2>1. ~At(t, "write") /\ Goto(t, "push") /\ mine[t] \in BridgeObjects
    BY <1>0, <1>2 DEF Subscribe, ThreadsOK, Inside
  <2> QED BY <2>1 DEF Moves, Places
<1>3. ASSUME Detach(t) PROVE ~At(t, "write") /\ Moves(t)
  <2>1. ~At(t, "write") /\ mine[t] \in BridgeObjects /\ back[t] \in Returns
    BY <1>0, <1>3 DEF Detach, ThreadsOK, Inside
  <2>2. \/ Return(t)
        \/ Into(t, "unsubscribe", mine[t], appliance[mine[t]], back[t])
    BY <1>3 DEF Detach, Enter
  <2>3. appliance[mine[t]] \in Objects \cup {None} /\ "unsubscribe" \in Places \ {"write"}
    BY <1>0, <2>1 DEF BridgesTyped, Places
  <2> QED BY <1>0, <2>1, <2>2, <2>3, Returning DEF Moves
<1>4. ASSUME Unsubscribe(t) \/ MarkAuth(t) PROVE ~At(t, "write") /\ Moves(t)
  BY <1>0, <1>4, Returning DEF Unsubscribe, MarkAuth
<1>5. ASSUME MarkWaiting PROVE ~At(Main, "write") /\ Moves(Main)
  BY <1>0, <1>5, Returning DEF MarkWaiting
<1>6. ASSUME StartComm PROVE ~At(Main, "write") /\ Moves(Main)
  <2>1. ~At(Main, "write") /\ \E b \in BridgeObjects : Into(Main, "find", b, None, "idle")
    BY <1>6 DEF StartComm, Enter
  <2> QED BY <2>1 DEF Moves, Places, Returns
<1>7. ASSUME Find PROVE ~At(Main, "write") /\ Moves(Main)
  <2>1. ~At(Main, "write") /\ mine[Main] \in BridgeObjects
    BY <1>0, <1>7 DEF Find, ThreadsOK, Inside
  <2>2. \/ Into(Main, "attach", mine[Main], registry, "idle")
        \/ Goto(Main, "mark auth") \/ Goto(Main, "mark waiting")
    BY <1>7 DEF Find, Finds, Enter
  <2>3. /\ {"attach", "mark auth", "mark waiting"} \subseteq Places \ {"write"}
        /\ "idle" \in Returns /\ registry \in Objects \cup {None}
    BY <1>0 DEF BridgesTyped, Places, Returns
  <2> QED BY <2>1, <2>2, <2>3 DEF Moves
<1>8. ASSUME StopComm PROVE ~At(Main, "write") /\ Moves(Main)
  <2>1. /\ ~At(Main, "write") /\ Into(Main, "detach", registered, None, "idle")
        /\ registered \in BridgeObjects
    BY <1>0, <1>8 DEF StopComm, Enter, BridgesTyped
  <2> QED BY <2>1 DEF Moves, Places, Returns
<1>9. ASSUME Merge \/ Depaired PROVE ~At(Worker, "write") /\ Moves(Worker)
  <2>1. ~At(Worker, "write") /\ Into(Worker, "notify", None, None, "idle")
    BY <1>9 DEF Merge, Depaired, Remove, Change
  <2> QED BY <2>1 DEF Moves, Places, Inside, Returns
<1>10. ASSUME Notify PROVE ~At(Worker, "write") /\ Moves(Worker)
  <2>1. /\ ~At(Worker, "write")
        /\ \/ \E b \in BridgeObjects : Into(Worker, "push", b, None, "notify")
           \/ Goto(Worker, "unhook") \/ Goto(Worker, "idle")
    BY <1>0, <1>10 DEF Notify, Enter, BridgesTyped
  <2> QED BY <2>1 DEF Moves, Places, Inside, Returns
<1>11. ASSUME Discover PROVE ~At(Worker, "write") /\ Moves(Worker)
  <2>1. /\ ~At(Worker, "write")
        /\ \/ Goto(Worker, "hook") \/ Goto(Worker, "complete")
           \/ Into(Worker, "notify", None, None, "idle")
    BY <1>11 DEF Discover, Remove, Change
  <2> QED BY <2>1 DEF Moves, Places, Inside, Returns
<1>12. ASSUME Hook PROVE ~At(Worker, "write") /\ Moves(Worker)
  <2>1. /\ ~At(Worker, "write")
        /\ \/ Goto(Worker, "complete")
           \/ /\ registered \in BridgeObjects /\ registry \in Objects \cup {None}
              /\ Into(Worker, "attach", registered, registry, "complete")
    BY <1>0, <1>12 DEF Hook, Enter, BridgesTyped
  <2> QED BY <2>1 DEF Moves, Places, Inside, Returns
<1>13. ASSUME Unhook PROVE ~At(Worker, "write") /\ Moves(Worker)
  <2>0. OrphanDone => Moves(Worker)
    <3>1. OrphanDone => Return(Worker) \/ Into(Worker, "complete", None, None, "idle")
      BY DEF OrphanDone, Enter
    <3>2. Into(Worker, "complete", None, None, "idle") => Moves(Worker)
      BY DEF Moves, Places, Inside, Returns
    <3> QED BY <1>0, <3>1, <3>2, Returning
  <2>1. /\ ~At(Worker, "write")
        /\ \/ OrphanDone
           \/ registered \in BridgeObjects /\ Into(Worker, "detach", registered, None, "orphan")
    BY <1>0, <1>13 DEF Unhook, Enter, BridgesTyped
  <2>2. "detach" \in Places \ {"write"} /\ "orphan" \in Returns
    BY DEF Places, Returns
  <2> QED BY <2>0, <2>1, <2>2 DEF Moves
<1>14. ASSUME Complete PROVE ~At(Worker, "write") /\ Moves(Worker)
  <2>1. /\ ~At(Worker, "write")
        /\ \/ registered \in BridgeObjects /\ Into(Worker, "orphan", registered, None, "idle")
           \/ Into(Worker, "idle", None, None, "idle")
    BY <1>0, <1>14 DEF Complete, Enter, BridgesTyped
  <2> QED BY <2>1 DEF Moves, Places, Inside, Returns
<1>15. ASSUME MarkOrphaned PROVE ~At(Worker, "write") /\ Moves(Worker)
  <2>0. OrphanDone => Moves(Worker)
    <3>1. OrphanDone => Return(Worker) \/ Into(Worker, "complete", None, None, "idle")
      BY DEF OrphanDone, Enter
    <3>2. Into(Worker, "complete", None, None, "idle") => Moves(Worker)
      BY DEF Moves, Places, Inside, Returns
    <3> QED BY <1>0, <3>1, <3>2, Returning
  <2>1. ~At(Worker, "write") /\ mine[Worker] \in BridgeObjects
    BY <1>0, <1>15 DEF MarkOrphaned, ThreadsOK, Inside
  <2>2. OrphanDone \/ Goto(Worker, "flag") \/ Goto(Worker, "latch")
    BY <1>15 DEF MarkOrphaned
  <2> QED BY <2>0, <2>1, <2>2 DEF Moves, Places
<1>16. ASSUME StopCoordinator PROVE ~At(Supervisor, "write") /\ Moves(Supervisor)
  <2>1. ~At(Supervisor, "write") /\ (Goto(Supervisor, "list") \/ Goto(Supervisor, "idle"))
    BY <1>16 DEF StopCoordinator
  <2> QED BY <2>1 DEF Moves, Places, Inside
<1>17. ASSUME ListBridges PROVE ~At(Supervisor, "write") /\ Moves(Supervisor)
  <2>1. /\ ~At(Supervisor, "write")
        /\ \/ Goto(Supervisor, "idle")
           \/ /\ registered \in BridgeObjects
              /\ Into(Supervisor, "mark auth", registered, None, "idle")
    BY <1>0, <1>17 DEF ListBridges, Enter, BridgesTyped
  <2> QED BY <2>1 DEF Moves, Places, Inside, Returns
<1> QED BY <1>1, <1>2, <1>3, <1>4, <1>5, <1>6, <1>7, <1>8, <1>9, <1>10, <1>11, <1>12, <1>13,
   <1>14, <1>15, <1>16, <1>17 DEF WorkerNext

\* Those operations keep the locks, and what bridges are attached to under lock.
LEMMA Frames ==
  ASSUME IInv, NEW t \in Threads,
         \/ Attach(t) \/ Subscribe(t) \/ Detach(t) \/ Unsubscribe(t) \/ MarkAuth(t)
         \/ MarkWaiting \/ StartComm \/ Find \/ StopComm
         \/ WorkerNext \/ StopCoordinator \/ ListBridges
  PROVE  Framed
<1>0. ThreadsOK /\ BridgesTyped /\ LockOK
  BY DEF IInv
<1>1. ASSUME Attach(t) \/ Detach(t)
      PROVE  Framed
  <2>1. /\ Free(mine[t]) /\ holder' = holder
        /\ registered' = registered /\ calls' = calls
        /\ registry' = registry /\ observers' = observers
        /\ \/ appliance' = appliance
           \/ appliance' = [appliance EXCEPT ![mine[t]] = object[t]]
           \/ appliance' = [appliance EXCEPT ![mine[t]] = None]
    BY <1>1 DEF Attach, Detach, coordinator
  <2>2. object[t] \in Objects \cup {None}
    BY <1>0 DEF ThreadsOK
  <2>3. holder[mine[t]] \notin Threads
    BY <2>1, FreeLock
  <2>4. BridgesTyped'
    BY <1>0, <2>1, <2>2 DEF BridgesTyped
  <2> QED BY <1>0, <2>1, <2>3, <2>4 DEF BridgesTyped, Framed
<1>2. ASSUME StartComm
      PROVE  Framed
  <2>1. PICK b \in BridgeObjects :
            /\ Unused(b) /\ registered' = b
            /\ appliance' = [appliance EXCEPT ![b] = None] /\ calls' = calls \ {b}
            /\ observers' = [o \in Objects |-> observers[o] \ {b}]
    BY <1>2 DEF StartComm
  <2>2. holder' = holder /\ registry' = registry
    BY <1>2 DEF StartComm
  <2>3. holder[b] \notin Threads
    BY <1>0, <2>1 DEF LockOK, Unused
  <2>4. BridgesTyped'
    BY <1>0, <2>1, <2>2 DEF BridgesTyped
  <2> QED BY <1>0, <2>1, <2>2, <2>3, <2>4 DEF BridgesTyped, Framed
<1>3. ASSUME \/ Subscribe(t) \/ Unsubscribe(t) \/ MarkAuth(t) \/ MarkWaiting \/ Find
             \/ StopComm \/ StopCoordinator \/ ListBridges
      PROVE  BridgesTyped' /\ holder' = holder /\ appliance' = appliance
  <2>1. ASSUME Subscribe(t) \/ Unsubscribe(t) PROVE observers' \in [Objects -> SUBSET BridgeObjects]
    <3>1. mine[t] \in BridgeObjects /\ observers \in [Objects -> SUBSET BridgeObjects]
      BY <1>0, <2>1 DEF Subscribe, Unsubscribe, At, ThreadsOK, Inside, BridgesTyped
    <3>2. \/ observers' = [observers EXCEPT ![object[t]] = @ \cup {mine[t]}]
          \/ observers' = [observers EXCEPT ![object[t]] = @ \ {mine[t]}]
      BY <2>1 DEF Subscribe, Unsubscribe
    <3> QED BY <3>1, <3>2
  <2>2. ASSUME \/ MarkAuth(t) \/ MarkWaiting \/ Find \/ StopComm \/ StopCoordinator
               \/ ListBridges
        PROVE  observers' \in [Objects -> SUBSET BridgeObjects]
    BY <1>0, <2>2
       DEF MarkAuth, MarkWaiting, Find, StopComm, StopCoordinator, ListBridges, BridgesTyped,
           coordinator
  <2>3. /\ holder' = holder /\ appliance' = appliance /\ calls' = calls
        /\ registered' \in BridgeObjects \cup {None} /\ registry' \in Objects \cup {None}
    BY <1>0, <1>3
       DEF Subscribe, Unsubscribe, MarkAuth, MarkWaiting, Find, StopComm, StopCoordinator,
           ListBridges, BridgesTyped, bridges, coordinator
  <2> QED BY <1>0, <1>3, <2>1, <2>2, <2>3 DEF BridgesTyped
<1>4. ASSUME WorkerNext
      PROVE  BridgesTyped' /\ holder' = holder /\ appliance' = appliance
  <2>1. CASE Merge \/ Depaired \/ Discover
    <3>1. \/ registry # None /\ calls' = observers[registry]
          \/ calls' = calls
      BY <2>1 DEF Merge, Depaired, Discover, Remove, Change
    <3>2. calls' \subseteq BridgeObjects
      BY <1>0, <3>1 DEF BridgesTyped
    <3>3. registered' = registered /\ holder' = holder /\ appliance' = appliance
      BY <2>1 DEF Merge, Depaired, Discover, bridges
    <3>4. registry' \in Objects \cup {None} /\ observers' \in [Objects -> SUBSET BridgeObjects]
      BY <1>0, <2>1 DEF Merge, Depaired, Discover, Remove, coordinator, BridgesTyped
    <3> QED BY <1>0, <3>2, <3>3, <3>4 DEF BridgesTyped
  <2>2. CASE Notify \/ Hook \/ Unhook \/ Complete \/ MarkOrphaned
    <3>1. /\ registered' = registered /\ holder' = holder /\ appliance' = appliance
          /\ registry' = registry /\ observers' = observers /\ calls' \subseteq calls
      BY <2>2 DEF Notify, Hook, Unhook, Complete, MarkOrphaned, bridges, coordinator
    <3> QED BY <1>0, <3>1 DEF BridgesTyped
  <2> QED BY <1>4, <2>1, <2>2 DEF WorkerNext
<1> QED BY <1>1, <1>2, <1>3, <1>4 DEF Framed

\* A push takes the lock with the appliance it found under it.
LEMMA Pushing ==
  ASSUME IInv, NEW t \in Threads, Push(t)
  PROVE  IInv'
<1>1. /\ At(t, "push") /\ mine[t] \in BridgeObjects /\ back[t] \in Returns
      /\ holder[mine[t]] \notin Threads
  BY FreeLock DEF Push, IInv, ThreadsOK, Inside, At
<1>2. BridgesTyped'
  BY DEF Push, IInv, BridgesTyped, coordinator
<1>3. CASE Return(t) /\ holder' = holder
  <2>1. Moves(t) /\ ~At(t, "write")
    BY <1>1, <1>3, Returning DEF IInv, At
  <2>2. appliance' = appliance
    BY DEF Push
  <2> QED BY <1>2, <1>3, <2>1, <2>2, Moving, LocksKept DEF IInv, Framed
<1>4. CASE /\ Into(t, "write", mine[t], appliance[mine[t]], back[t])
           /\ holder' = [holder EXCEPT ![mine[t]] = t]
  <2>1. "write" \in Places /\ appliance[mine[t]] \in Objects \cup {None}
    BY <1>1 DEF IInv, BridgesTyped, Places
  <2>2. /\ ThreadsOK'
        /\ pc'[t] = "write" /\ mine'[t] = mine[t] /\ object'[t] = appliance[mine[t]]
        /\ \A u \in Threads \ {t} :
               pc'[u] = pc[u] /\ mine'[u] = mine[u] /\ object'[u] = object[u]
    BY <1>1, <1>4, <2>1, Entering DEF IInv
  <2>3. LockOK'
    BY <1>1, <1>4, <2>2 DEF IInv, LockOK, BridgesTyped, At
  <2>4. appliance' = appliance
    BY DEF Push
  <2>5. WritersOK'
    BY <2>2, <2>4 DEF IInv, WritersOK, At
  <2> QED BY <1>2, <2>2, <2>3, <2>5 DEF IInv
<1> QED BY <1>3, <1>4 DEF Push, Enter

\* What writes lets go of its lock.
LEMMA Writing ==
  ASSUME IInv, NEW t \in Threads, Write(t)
  PROVE  IInv'
<1>1. /\ At(t, "write") /\ mine[t] \in BridgeObjects /\ holder[mine[t]] = t
      /\ holder' = [holder EXCEPT ![mine[t]] = None]
  BY DEF Write, IInv, ThreadsOK, Inside, At, LockOK
<1>2. BridgesTyped'
  BY <1>1 DEF Write, IInv, BridgesTyped, coordinator
<1>3. /\ ThreadsOK' /\ pc'[t] # "write"
      /\ \A u \in Threads \ {t} :
             pc'[u] = pc[u] /\ mine'[u] = mine[u] /\ object'[u] = object[u]
  BY Returning, Moving DEF IInv, Write
<1>4. LockOK'
  BY <1>1, <1>3, BridgesOK DEF BridgesOK, IInv, LockOK, BridgesTyped, At
<1>5. WritersOK'
  BY <1>3 DEF Write, IInv, WritersOK, At
<1> QED BY <1>2, <1>3, <1>4, <1>5 DEF IInv

\* Only the thread that holds a bridge's lock writes from it, what it writes is of
\* the appliance the bridge is attached to, and everybody is where they may be.
THEOREM Invariance == Spec => []IInv
<1>1. Init => IInv
  <2> SUFFICES ASSUME Init PROVE IInv
    OBVIOUS
  <2>1. ThreadsOK
    BY DEF Init, ThreadsOK, Places, Returns, Inside
  <2>2. BridgesTyped
    BY DEF Init, BridgesTyped
  <2>3. LockOK /\ WritersOK
    BY BridgesOK DEF BridgesOK, Init, LockOK, WritersOK, At
  <2> QED BY <2>1, <2>2, <2>3 DEF IInv
<1>2. IInv /\ [Next]_vars => IInv'
  <2> SUFFICES ASSUME IInv, [Next]_vars PROVE IInv'
    OBVIOUS
  <2>0. Main \in Threads /\ Worker \in Threads /\ Supervisor \in Threads
    BY DEF Threads
  <2>1. ASSUME NEW t \in Threads,
               Attach(t) \/ Subscribe(t) \/ Detach(t) \/ Unsubscribe(t) \/ MarkAuth(t)
        PROVE  IInv'
    <3>1. ~At(t, "write") /\ Moves(t)
      BY <2>0, <2>1, Operations
    <3>2. Framed
      BY <2>0, <2>1, Frames
    <3> QED BY <2>0, <3>1, <3>2, Moving, LocksKept DEF IInv, Framed
  <2>2. CASE MarkWaiting \/ StartComm \/ Find \/ StopComm
    <3>1. ~At(Main, "write") /\ Moves(Main)
      BY <2>0, <2>2, Operations
    <3>2. Framed
      BY <2>0, <2>2, Frames
    <3> QED BY <2>0, <3>1, <3>2, Moving, LocksKept DEF IInv, Framed
  <2>3. CASE WorkerNext
    <3>1. ~At(Worker, "write") /\ Moves(Worker)
      BY <2>0, <2>3, Operations
    <3>2. Framed
      BY <2>0, <2>3, Frames
    <3> QED BY <2>0, <3>1, <3>2, Moving, LocksKept DEF IInv, Framed
  <2>4. CASE StopCoordinator \/ ListBridges
    <3>1. ~At(Supervisor, "write") /\ Moves(Supervisor)
      BY <2>0, <2>4, Operations
    <3>2. Framed
      BY <2>0, <2>4, Frames
    <3> QED BY <2>0, <3>1, <3>2, Moving, LocksKept DEF IInv, Framed
  <2>5. CASE StartCoordinator \/ LoseAuth \/ Pair \/ UNCHANGED vars
    <3>1. UNCHANGED <<thread, bridges, observers, registry>>
      BY <2>5 DEF StartCoordinator, LoseAuth, Pair, vars, coordinator
    <3> QED BY <3>1
            DEF IInv, ThreadsOK, BridgesTyped, LockOK, WritersOK, At, thread, bridges
  <2> QED BY <2>1, <2>2, <2>3, <2>4, <2>5, Pushing, Writing
          DEF Next, InBridge, MainNext, SupervisorNext
<1> QED BY <1>1, <1>2, PTL DEF Spec

\* A bridge that is detached, or attached to another object, writes nothing of the
\* appliance it had, though a push of it was under way.
THEOREM SilentOnceStopped == Spec => StoppedIsSilent
<1>1. IInv /\ [Next]_vars => [\A t \in Threads : Write(t) => appliance[mine[t]] = object[t]]_vars
  BY DEF IInv, WritersOK, Write
<1> QED BY <1>1, Invariance, PTL DEF Spec, StoppedIsSilent

----------------------------------------------------------------------------
(* What each thread does, and knows, where it is.                          *)

\* The marks a device may show.
Shows ==
    [by : {"none", "push", "waiting", "orphan", "auth"}, object : Objects \cup {None},
     current : BOOLEAN]

\* What the device shows, and what is known of the past, is of the right kind.
ShownTyped ==
    /\ outdated \subseteq Threads /\ orphaned \subseteq BridgeObjects
    /\ shown \in Shows
    /\ kept \in Objects \cup {None}
    /\ running \in BOOLEAN /\ listed \in BOOLEAN /\ authLost \in BOOLEAN
    /\ pass \in BOOLEAN /\ passed \in BOOLEAN /\ late \in BOOLEAN

\* The main thread is in the bridge it registered, or detaches the one it let go of;
\* what it found it has not had the time to misjudge.
MainOK ==
    /\ pc[Main] \in {"idle", "find", "attach", "subscribe", "push", "write", "detach",
                     "unsubscribe", "mark auth", "mark waiting"}
    /\ back[Main] = "idle"
    /\ pc[Main] \in {"find", "attach", "subscribe", "push", "write", "mark auth", "mark waiting"}
           => mine[Main] = registered
    /\ pc[Main] \in {"detach", "unsubscribe"} => registered = None
    /\ pc[Main] \in {"attach", "subscribe", "write"} => object[Main] # None
    /\ pc[Main] \in {"attach", "mark auth"} => ~late
    /\ At(Main, "mark waiting") /\ authLost => late

\* The worker calls observers.
Notifying == At(Worker, "notify") \/ (pc[Worker] \in {"push", "write"} /\ back[Worker] = "notify")

\* The worker is in the callback that its notification, its discovery or its removal
\* of the appliance calls for.
WorkerOK ==
    /\ pc[Worker] \in {"idle", "notify", "hook", "attach", "subscribe", "push", "write",
                       "unhook", "detach", "unsubscribe", "complete", "orphan", "flag", "latch"}
    /\ pc[Worker] \in {"hook", "attach", "subscribe"} => registry # None
    /\ pc[Worker] \in {"attach", "subscribe"}
           => object[Worker] = registry /\ back[Worker] = "complete"
    /\ pc[Worker] \in {"push", "write"}
           => \/ back[Worker] = "notify"
              \/ back[Worker] = "complete" /\ registry # None
    /\ At(Worker, "write") => object[Worker] # None
    /\ pc[Worker] \in {"unhook", "detach", "unsubscribe", "orphan", "flag", "latch"}
           => registry = None
    /\ pc[Worker] \in {"detach", "unsubscribe"} => back[Worker] = "orphan"
    /\ pc[Worker] \in {"idle", "notify", "hook", "unhook", "complete", "orphan", "flag", "latch"}
           => back[Worker] = "idle"
    /\ calls # {} => Notifying
    /\ Worker \notin outdated

\* The supervisor marks devices when there is no coordinator and its worker is gone.
SupervisorOK ==
    /\ pc[Supervisor] \in {"idle", "list", "mark auth"}
    /\ back[Supervisor] = "idle"
    /\ ~At(Supervisor, "idle") => ~running
    /\ ~running => registry = None /\ At(Worker, "idle")

\* Every thread is where the code lets it be, with what it needs there.
PlacesOK == ShownTyped /\ MainOK /\ WorkerOK /\ SupervisorOK

\* Where t goes, and that the others stay.
Becomes(t, place, b, o, then) ==
    /\ pc'[t] = place /\ mine'[t] = b /\ object'[t] = o /\ back'[t] = then
    /\ \A u \in Threads \ {t} :
           pc'[u] = pc[u] /\ mine'[u] = mine[u] /\ object'[u] = object[u] /\ back'[u] = back[u]

\* A step inside the code a thread is in moves that thread and no other.
LEMMA Going ==
  ASSUME ThreadsOK, NEW t \in Threads, NEW place
  PROVE  Goto(t, place)
            => Becomes(t, place, mine[t], object[t], back[t]) /\ outdated' = outdated
BY DEF ThreadsOK, Goto, Becomes

\* Entering code binds its bridge, its object and the place to return to.
LEMMA Coming ==
  ASSUME ThreadsOK, NEW t \in Threads, NEW place, NEW b, NEW o, NEW then
  PROVE  /\ Into(t, place, b, o, then) => Becomes(t, place, b, o, then)
         /\ Enter(t, place, b, o, then)
               => Becomes(t, place, b, o, then) /\ outdated' = outdated \ {t}
BY DEF ThreadsOK, Into, Enter, Becomes

\* Returning forgets the object, and the bridge unless its loop goes on with it.
LEMMA Leaving ==
  ASSUME ThreadsOK, NEW t \in Threads, Return(t)
  PROVE  /\ Becomes(t, back[t], IF back[t] = "orphan" THEN mine[t] ELSE None, None, "idle")
         /\ outdated' = outdated \ {t}
BY Coming DEF Return

\* The orphan callback returns to the pass that called it, or to nothing.
LEMMA LeavingOrphan ==
  ASSUME ThreadsOK, back[Worker] = "idle", OrphanDone
  PROVE  /\ \E place \in {"idle", "complete"} : Becomes(Worker, place, None, None, "idle")
         /\ outdated' = outdated \ {Worker}
<1>1. Worker \in Threads
  BY DEF Threads
<1>2. CASE pass
  BY <1>1, <1>2, Coming DEF OrphanDone
<1>3. CASE ~pass
  <2>1. Becomes(Worker, "idle", None, None, "idle") /\ outdated' = outdated \ {Worker}
    BY <1>1, <1>3, Leaving DEF OrphanDone
  <2> QED BY <2>1
<1> QED BY <1>2, <1>3

\* There are three threads, and None is none of anything.
LEMMA ThreeThreads ==
  /\ Main \in Threads /\ Worker \in Threads /\ Supervisor \in Threads
  /\ Main # Worker /\ Main # Supervisor /\ Worker # Supervisor
  /\ \A t \in Threads : t \in {Main, Worker, Supervisor}
  /\ None \notin BridgeObjects /\ None \notin Objects /\ None \notin Threads
BY BridgesOK DEF BridgesOK, Threads

\* Where the steps of the main thread take it.
LEMMA MainHere ==
  ASSUME IInv, PlacesOK
  PROVE  ThreadsOK /\ Main \in Threads /\ back[Main] = "idle"
BY ThreeThreads DEF IInv, PlacesOK, MainOK

\* To attach what is attached already changes nothing.
LEMMA MainAttaches ==
  ASSUME IInv, PlacesOK, Attach(Main)
  PROVE  \/ /\ appliance[mine[Main]] = object[Main]
            /\ appliance' = appliance /\ orphaned' = orphaned
            /\ Becomes(Main, "idle", None, None, "idle")
         \/ /\ appliance' = [appliance EXCEPT ![mine[Main]] = object[Main]]
            /\ orphaned' = orphaned \ {mine[Main]}
            /\ Becomes(Main, "subscribe", mine[Main], object[Main], "idle")
BY MainHere, Going, Leaving DEF Attach

\* Having subscribed, it pushes.
LEMMA MainSubscribes ==
  ASSUME IInv, PlacesOK, Subscribe(Main)
  PROVE  Becomes(Main, "push", mine[Main], object[Main], "idle")
BY MainHere, Going DEF Subscribe

\* A push of a detached bridge writes nothing.
LEMMA MainPushes ==
  ASSUME IInv, PlacesOK, Push(Main)
  PROVE  \/ /\ appliance[mine[Main]] = None
            /\ Becomes(Main, "idle", None, None, "idle")
         \/ /\ appliance[mine[Main]] # None /\ outdated' = outdated \ {Main}
            /\ Becomes(Main, "write", mine[Main], appliance[mine[Main]], "idle")
BY MainHere, Coming, Leaving DEF Push

\* After these it is back in Indigo.
LEMMA MainReturns ==
  ASSUME IInv, PlacesOK, Write(Main) \/ Unsubscribe(Main) \/ MarkAuth(Main) \/ MarkWaiting
  PROVE  Becomes(Main, "idle", None, None, "idle")
BY MainHere, Leaving DEF Write, Unsubscribe, MarkAuth, MarkWaiting

\* detach() of a detached bridge has nobody to leave.
LEMMA MainDetaches ==
  ASSUME IInv, PlacesOK, Detach(Main)
  PROVE  \/ Becomes(Main, "idle", None, None, "idle")
         \/ Becomes(Main, "unsubscribe", mine[Main], appliance[mine[Main]], "idle")
BY MainHere, Coming, Leaving DEF Detach

\* A start makes a bridge that nothing refers to.
LEMMA MainStarts ==
  ASSUME IInv, PlacesOK, StartComm
  PROVE  \E b \in BridgeObjects :
            /\ Unused(b) /\ registered' = b /\ Becomes(Main, "find", b, None, "idle")
            /\ appliance' = [appliance EXCEPT ![b] = None] /\ orphaned' = orphaned \ {b}
            /\ observers' = [o \in Objects |-> observers[o] \ {b}] /\ calls' = calls \ {b}
BY MainHere, Coming DEF StartComm

\* A stop forgets the bridge before it detaches it.
LEMMA MainStops ==
  ASSUME IInv, PlacesOK, StopComm
  PROVE  registered' = None /\ Becomes(Main, "detach", registered, None, "idle")
BY MainHere, Coming DEF StopComm

\* What a start finds in the registry decides what it does.
LEMMA MainFinds ==
  ASSUME IInv, PlacesOK, Find
  PROVE  \/ registry # None /\ Becomes(Main, "attach", mine[Main], registry, "idle")
         \/ /\ registry = None /\ authLost
            /\ Becomes(Main, "mark auth", mine[Main], object[Main], "idle")
         \/ /\ registry = None /\ ~authLost
            /\ Becomes(Main, "mark waiting", mine[Main], object[Main], "idle")
BY MainHere, Going, Coming DEF Find, Finds

\* Where those of the worker take it.
LEMMA WorkerHere ==
  ASSUME IInv, PlacesOK
  PROVE  /\ ThreadsOK /\ Worker \in Threads /\ Worker \notin outdated
         /\ pc[Worker] \in {"idle", "notify", "hook", "unhook", "complete", "orphan", "flag",
                            "latch"} => back[Worker] = "idle"
         /\ pc[Worker] \in {"attach", "subscribe"} => back[Worker] = "complete"
         /\ pc[Worker] \in {"detach", "unsubscribe"} => back[Worker] = "orphan"
         /\ pc[Worker] \in {"push", "write"} => back[Worker] # "orphan"
BY ThreeThreads DEF IInv, PlacesOK, WorkerOK

\* To attach what is attached already changes nothing.
LEMMA WorkerAttaches ==
  ASSUME IInv, PlacesOK, Attach(Worker)
  PROVE  \/ /\ appliance[mine[Worker]] = object[Worker]
            /\ appliance' = appliance /\ orphaned' = orphaned
            /\ Becomes(Worker, "complete", None, None, "idle")
         \/ /\ appliance[mine[Worker]] # object[Worker]
            /\ appliance' = [appliance EXCEPT ![mine[Worker]] = object[Worker]]
            /\ orphaned' = orphaned \ {mine[Worker]}
            /\ Becomes(Worker, "subscribe", mine[Worker], object[Worker], "complete")
BY WorkerHere, Going, Leaving DEF Attach, At

\* Having subscribed, it pushes.
LEMMA WorkerSubscribes ==
  ASSUME IInv, PlacesOK, Subscribe(Worker)
  PROVE  Becomes(Worker, "push", mine[Worker], object[Worker], "complete")
BY WorkerHere, Going DEF Subscribe, At

\* A push of a detached bridge writes nothing.
LEMMA WorkerPushes ==
  ASSUME IInv, PlacesOK, Push(Worker)
  PROVE  \/ /\ appliance[mine[Worker]] = None
            /\ Becomes(Worker, back[Worker], None, None, "idle")
         \/ /\ appliance[mine[Worker]] # None
            /\ Becomes(Worker, "write", mine[Worker], appliance[mine[Worker]], back[Worker])
BY WorkerHere, Coming, Leaving DEF Push, At

\* It goes on with the notification or the pass it pushed for.
LEMMA WorkerWrites ==
  ASSUME IInv, PlacesOK, Write(Worker)
  PROVE  Becomes(Worker, back[Worker], None, None, "idle")
BY WorkerHere, Leaving DEF Write, At

\* It detaches for mark_orphaned, and goes on with that.
LEMMA WorkerDetaches ==
  ASSUME IInv, PlacesOK, Detach(Worker)
  PROVE  \/ Becomes(Worker, "orphan", mine[Worker], None, "idle")
         \/ Becomes(Worker, "unsubscribe", mine[Worker], appliance[mine[Worker]], "orphan")
BY WorkerHere, Coming, Leaving DEF Detach, At

\* So it does when it has left the observers.
LEMMA WorkerUnsubscribes ==
  ASSUME IInv, PlacesOK, Unsubscribe(Worker)
  PROVE  Becomes(Worker, "orphan", mine[Worker], None, "idle")
BY WorkerHere, Leaving DEF Unsubscribe, At

\* A change, or a removal, is notified.
LEMMA WorkerIsTold ==
  ASSUME IInv, PlacesOK, Merge \/ Depaired
  PROVE  Becomes(Worker, "notify", None, None, "idle")
BY WorkerHere, Coming DEF Merge, Depaired, Remove, Change

\* Observers are called one after another, then the removal hook if there is one.
LEMMA WorkerNotifies ==
  ASSUME IInv, PlacesOK, Notify
  PROVE  \/ \E b \in calls : calls' = calls \ {b} /\ Becomes(Worker, "push", b, None, "notify")
         \/ /\ calls = {} /\ calls' = {}
            /\ \E place, b, o :
                  /\ place \in {"unhook", "idle"} /\ (place = "unhook" <=> registry = None)
                  /\ Becomes(Worker, place, b, o, "idle")
BY WorkerHere, Going, Coming DEF Notify, At

\* A pass adds an appliance, removes one or has nothing to change.
LEMMA WorkerDiscovers ==
  ASSUME IInv, PlacesOK, Discover
  PROVE  \/ /\ registry = None /\ calls' = calls /\ shown' = shown /\ outdated' = outdated
            /\ \E o \in Objects :
                  /\ UnusedObject(o)
                  /\ registry' = o /\ observers' = [observers EXCEPT ![o] = {}]
            /\ \E b, o : Becomes(Worker, "hook", b, o, "idle")
         \/ Remove /\ Becomes(Worker, "notify", None, None, "idle")
         \/ /\ registry' = registry /\ calls' = calls /\ shown' = shown /\ outdated' = outdated
            /\ observers' = observers
            /\ \E b, o : Becomes(Worker, "complete", b, o, "idle")
<1>1. CASE ~listed /\ Remove
  BY <1>1, WorkerHere, Coming DEF Remove, Change
<1>2. CASE ~(~listed /\ Remove)
  BY <1>2, WorkerHere, Going DEF Discover, At, coordinator
<1> QED BY <1>1, <1>2

\* The hook attaches the bridge that is registered.
LEMMA WorkerHooks ==
  ASSUME IInv, PlacesOK, Hook
  PROVE  \/ registered = None /\ \E b, o : Becomes(Worker, "complete", b, o, "idle")
         \/ registered # None /\ Becomes(Worker, "attach", registered, registry, "complete")
BY WorkerHere, Going, Coming DEF Hook, At

\* The removal hook orphans the bridge that is registered.
LEMMA WorkerUnhooks ==
  ASSUME IInv, PlacesOK, Unhook
  PROVE  \/ /\ registered = None
            /\ \E place \in {"idle", "complete"} : Becomes(Worker, place, None, None, "idle")
         \/ registered # None /\ Becomes(Worker, "detach", registered, None, "orphan")
BY WorkerHere, LeavingOrphan, Coming DEF Unhook, At

\* At the end of a pass a registered bridge with no appliance is an orphan.
LEMMA WorkerCompletes ==
  ASSUME IInv, PlacesOK, Complete
  PROVE  \/ /\ registered # None /\ registry = None
            /\ Becomes(Worker, "orphan", registered, None, "idle")
         \/ /\ ~(registered # None /\ registry = None)
            /\ Becomes(Worker, "idle", None, None, "idle")
BY WorkerHere, Coming DEF Complete

\* mark_orphaned looks, flags the device, and latches if it is still detached.
LEMMA WorkerFlags ==
  ASSUME IInv, PlacesOK, MarkOrphaned
  PROVE  \/ /\ At(Worker, "orphan") /\ (mine[Worker] \in orphaned \/ appliance[mine[Worker]] # None)
            /\ orphaned' = orphaned /\ shown' = shown
            /\ \E place \in {"idle", "complete"} : Becomes(Worker, place, None, None, "idle")
         \/ /\ At(Worker, "orphan") /\ mine[Worker] \notin orphaned /\ appliance[mine[Worker]] = None
            /\ orphaned' = orphaned /\ shown' = shown
            /\ \E o : Becomes(Worker, "flag", mine[Worker], o, "idle")
         \/ /\ At(Worker, "flag") /\ orphaned' = orphaned /\ Show("orphan")
            /\ \E o : Becomes(Worker, "latch", mine[Worker], o, "idle")
         \/ /\ At(Worker, "latch") /\ shown' = shown
            /\ orphaned' = IF appliance[mine[Worker]] = None THEN orphaned \cup {mine[Worker]}
                           ELSE orphaned
            /\ \E place \in {"idle", "complete"} : Becomes(Worker, place, None, None, "idle")
<1>0. pc[Worker] \in {"orphan", "flag", "latch"} => back[Worker] = "idle"
  BY WorkerHere
<1>1. CASE At(Worker, "orphan")
  BY <1>0, <1>1, WorkerHere, LeavingOrphan, Going DEF MarkOrphaned, At
<1>2. CASE At(Worker, "flag")
  BY <1>0, <1>2, WorkerHere, Going DEF MarkOrphaned, At
<1>3. CASE At(Worker, "latch")
  BY <1>0, <1>3, WorkerHere, LeavingOrphan DEF MarkOrphaned, At
<1> QED BY <1>1, <1>2, <1>3 DEF MarkOrphaned

\* What a step of the main thread leaves alone.
MainOnly ==
    /\ \A u \in {Worker, Supervisor} :
           pc'[u] = pc[u] /\ mine'[u] = mine[u] /\ object'[u] = object[u] /\ back'[u] = back[u]
    /\ registry' = registry /\ running' = running /\ authLost' = authLost /\ kept' = kept
    /\ calls' \subseteq calls /\ outdated' \subseteq outdated

\* What a step of the worker leaves alone, and that there is a coordinator then.
WorkerOnly ==
    /\ \A u \in {Main, Supervisor} :
           pc'[u] = pc[u] /\ mine'[u] = mine[u] /\ object'[u] = object[u] /\ back'[u] = back[u]
    /\ registered' = registered /\ late' = late /\ authLost' = authLost /\ kept' = kept
    /\ running /\ running' = running

\* A step of the main thread, as an update of the state.
LEMMA MainEffects ==
  ASSUME IInv, PlacesOK, InBridge(Main) \/ MainNext
  PROVE  MainOnly
<1>0. ThreadsOK
  BY DEF IInv
<1>1. CASE Attach(Main) \/ Subscribe(Main) \/ Push(Main)
  <2>1. \E place, b, o, then : Becomes(Main, place, b, o, then) /\ outdated' \subseteq outdated
    BY <1>0, <1>1, ThreeThreads, Going, Coming, Leaving DEF Attach, Subscribe, Push
  <2> QED BY <1>1, <2>1, ThreeThreads
          DEF MainOnly, Becomes, Attach, Subscribe, Push, coordinator, past
<1>2. CASE Write(Main) \/ Detach(Main) \/ Unsubscribe(Main) \/ MarkAuth(Main)
  <2>1. \E place, b, o, then : Becomes(Main, place, b, o, then) /\ outdated' \subseteq outdated
    BY <1>0, <1>2, ThreeThreads, Coming, Leaving DEF Write, Detach, Unsubscribe, MarkAuth
  <2> QED BY <1>2, <2>1, ThreeThreads
          DEF MainOnly, Becomes, Write, Detach, Unsubscribe, MarkAuth, coordinator, past
<1>3. CASE StartComm \/ Find \/ MarkWaiting \/ StopComm
  <2>1. \E place, b, o, then : Becomes(Main, place, b, o, then) /\ outdated' \subseteq outdated
    BY <1>0, <1>3, ThreeThreads, Going, Coming, Leaving
       DEF StartComm, Find, Finds, MarkWaiting, StopComm
  <2> QED BY <1>3, <2>1, ThreeThreads
          DEF MainOnly, Becomes, StartComm, Find, MarkWaiting, StopComm, coordinator, past
<1> QED BY <1>1, <1>2, <1>3 DEF InBridge, MainNext

\* A step of the worker, as an update of the state.
LEMMA WorkerEffects ==
  ASSUME IInv, PlacesOK, InBridge(Worker) \/ WorkerNext
  PROVE  WorkerOnly
<1>1. running \/ At(Worker, "idle")
  BY DEF PlacesOK, SupervisorOK
<1>2. CASE InBridge(Worker)
  <2>1. ~At(Worker, "idle") /\ ~At(Worker, "mark auth")
    BY <1>2 DEF InBridge, Attach, Subscribe, Push, Write, Detach, Unsubscribe, MarkAuth, At,
                PlacesOK, WorkerOK
  <2>2. \E place, b, o, then : Becomes(Worker, place, b, o, then)
    BY <1>2, <2>1, WorkerAttaches, WorkerSubscribes, WorkerPushes, WorkerWrites, WorkerDetaches,
       WorkerUnsubscribes DEF InBridge, MarkAuth
  <2>3. late' = late
    <3>1. late \in BOOLEAN
      BY DEF PlacesOK, ShownTyped
    <3> QED BY <1>2, <3>1, ThreeThreads
            DEF InBridge, Attach, Subscribe, Push, Write, Detach, Unsubscribe, MarkAuth, PushedLate
  <2>4. /\ registered' = registered /\ authLost' = authLost /\ kept' = kept
        /\ running' = running
    BY <1>2 DEF InBridge, Attach, Subscribe, Push, Write, Detach, Unsubscribe, MarkAuth, bridges,
                coordinator, past
  <2> QED BY <1>1, <2>1, <2>2, <2>3, <2>4, ThreeThreads DEF WorkerOnly, Becomes
<1>3. CASE WorkerNext
  <2>1. \E place, b, o, then : Becomes(Worker, place, b, o, then)
    BY <1>3, WorkerIsTold, WorkerNotifies, WorkerDiscovers, WorkerHooks, WorkerUnhooks,
       WorkerCompletes, WorkerFlags DEF WorkerNext
  <2>2. running
    BY <1>1, <1>3 DEF WorkerNext, Merge, Notify, Discover, Hook, Depaired, Unhook, Complete,
                      MarkOrphaned, At
  <2>3. /\ registered' = registered /\ authLost' = authLost /\ kept' = kept
        /\ running' = running /\ late' = late
    BY <1>3 DEF WorkerNext, Merge, Notify, Discover, Hook, Depaired, Unhook, Complete,
                MarkOrphaned, Remove, bridges, coordinator, past
  <2> QED BY <2>1, <2>2, <2>3, ThreeThreads DEF WorkerOnly, Becomes
<1> QED BY <1>2, <1>3

\* The supervisor marks devices; what else it does it does with every thread where
\* it was, or joins the worker first.
LEMMA SupervisorEffects ==
  ASSUME IInv, PlacesOK, InBridge(Supervisor) \/ SupervisorNext
  PROVE  /\ \A u \in {Main, Worker} :
                pc'[u] = pc[u] /\ mine'[u] = mine[u] /\ object'[u] = object[u] /\ back'[u] = back[u]
         /\ registered' = registered /\ appliance' = appliance /\ orphaned' = orphaned
         /\ observers' = observers /\ late' = late /\ calls' = calls /\ outdated' \subseteq outdated
         /\ \/ /\ InBridge(Supervisor) \/ ListBridges
               /\ ~running /\ registry' = registry /\ running' = running /\ authLost' = authLost
               /\ kept' = kept /\ passed' = passed
            \/ /\ StartCoordinator
               /\ pc' = pc /\ mine' = mine /\ object' = object /\ back' = back
               /\ registry' = registry /\ shown' = shown /\ kept' = kept /\ passed' = passed
            \/ /\ StopCoordinator
               /\ running /\ At(Worker, "idle") /\ ~running' /\ registry' = None
               /\ authLost' = authLost /\ shown' = shown /\ ~passed'
<1> USE DEF At
<1>0. ThreadsOK /\ (~At(Supervisor, "idle") => ~running)
      /\ pc[Supervisor] \in {"idle", "list", "mark auth"}
  BY DEF IInv, PlacesOK, SupervisorOK
<1>1. CASE InBridge(Supervisor)
  <2>1. MarkAuth(Supervisor)
    BY <1>0, <1>1 DEF InBridge, Attach, Subscribe, Push, Write, Detach, Unsubscribe
  <2>2. \E place, b, o, then : Becomes(Supervisor, place, b, o, then) /\ outdated' \subseteq outdated
    BY <1>0, <2>1, ThreeThreads, Leaving DEF MarkAuth
  <2> QED BY <1>0, <1>1, <2>1, <2>2, ThreeThreads DEF Becomes, MarkAuth, coordinator, bridges, past
<1>2. CASE ListBridges
  <2>2. \E place, b, o, then : Becomes(Supervisor, place, b, o, then) /\ outdated' \subseteq outdated
    BY <1>0, <1>2, ThreeThreads, Going, Coming DEF ListBridges
  <2> QED BY <1>0, <1>2, <2>2, ThreeThreads DEF Becomes, ListBridges, coordinator, bridges, past
<1>3. CASE StopCoordinator
  <2>2. \E place, b, o, then : Becomes(Supervisor, place, b, o, then) /\ outdated' \subseteq outdated
    BY <1>0, <1>3, ThreeThreads, Going DEF StopCoordinator
  <2> QED BY <1>0, <1>3, <2>2, ThreeThreads DEF Becomes, StopCoordinator, coordinator, bridges, past
<1>4. CASE StartCoordinator
  BY <1>0, <1>4, ThreeThreads DEF StartCoordinator, thread, bridges, past
<1> QED BY <1>1, <1>2, <1>3, <1>4 DEF SupervisorNext

\* The main thread stays where the code lets it be.
LEMMA MainIsThere ==
  ASSUME PlacesOK, IInv, InBridge(Main) \/ MainNext
  PROVE  MainOK'
<1> USE DEF At
<1>0. MainOK
  BY DEF PlacesOK
<1>1. CASE Attach(Main) \/ Subscribe(Main)
  <2>1. /\ pc[Main] \in {"attach", "subscribe"} /\ registered' = registered
        /\ \/ Becomes(Main, "idle", None, None, "idle")
           \/ \E place \in {"subscribe", "push"} :
                 Becomes(Main, place, mine[Main], object[Main], "idle")
    BY <1>1, MainAttaches, MainSubscribes DEF Attach, Subscribe, bridges
  <2> QED BY <1>0, <2>1 DEF MainOK, Becomes
<1>2. CASE Push(Main)
  <2>1. At(Main, "push") /\ registered' = registered
    BY <1>2 DEF Push
  <2> QED BY <1>0, <1>2, <2>1, MainPushes DEF MainOK, Becomes
<1>3. CASE Write(Main) \/ Unsubscribe(Main) \/ MarkAuth(Main) \/ MarkWaiting
  BY <1>3, MainReturns DEF MainOK, Becomes
<1>4. CASE Detach(Main)
  <2>1. registered = None /\ registered' = registered
    BY <1>0, <1>4 DEF Detach, MainOK
  <2> QED BY <1>4, <2>1, MainDetaches DEF MainOK, Becomes
<1>5. CASE StartComm \/ StopComm
  BY <1>5, MainStarts, MainStops DEF MainOK, Becomes
<1>6. CASE Find
  <2>1. /\ At(Main, "find") /\ registered' = registered /\ ~late' /\ authLost' = authLost
    BY <1>6 DEF Find, bridges
  <2> QED BY <1>0, <1>6, <2>1, MainFinds DEF MainOK, Becomes
<1> QED BY <1>1, <1>2, <1>3, <1>4, <1>5, <1>6 DEF InBridge, MainNext

\* So does the worker.
LEMMA WorkerIsThere ==
  ASSUME PlacesOK, IInv, InBridge(Worker) \/ WorkerNext
  PROVE  WorkerOK'
<1> USE DEF At, Notifying
<1>0. WorkerOK /\ Worker \notin outdated /\ Worker \in Threads
      /\ (running \/ At(Worker, "idle"))
  BY WorkerHere DEF PlacesOK, SupervisorOK
<1>1. CASE Attach(Worker)
  BY <1>0, <1>1, Going, Leaving, WorkerAttaches, WorkerHere DEF Attach, WorkerOK, Becomes,
                                                                coordinator
<1>2. CASE Subscribe(Worker)
  BY <1>0, <1>2, Going, WorkerHere DEF Subscribe, WorkerOK, Becomes
<1>3. CASE Push(Worker)
  BY <1>0, <1>3, Coming, Leaving, WorkerHere DEF Push, WorkerOK, Becomes, coordinator
<1>4. CASE Write(Worker)
  BY <1>0, <1>4, Leaving, WorkerHere DEF Write, WorkerOK, Becomes, coordinator
<1>5. CASE Detach(Worker)
  BY <1>0, <1>5, Coming, Leaving, WorkerHere DEF Detach, WorkerOK, Becomes, coordinator
<1>6. CASE Unsubscribe(Worker)
  BY <1>0, <1>6, Leaving, WorkerHere DEF Unsubscribe, WorkerOK, Becomes, coordinator
<1>7. CASE Merge \/ Depaired
  <2>1. Worker \notin outdated' /\ pc[Worker] = "idle"
    BY <1>0, <1>7 DEF Merge, Depaired, Remove, Change
  <2> QED BY <1>0, <1>7, <2>1, WorkerIsTold DEF WorkerOK, Becomes
<1>8. CASE Discover
  <2>1. pc[Worker] = "idle" /\ Worker \notin outdated'
    BY <1>0, <1>8, WorkerDiscovers DEF Discover, Remove, Change
  <2>2. \/ /\ registry' # None /\ calls' = calls
           /\ \E b, o : Becomes(Worker, "hook", b, o, "idle")
        \/ Becomes(Worker, "notify", None, None, "idle")
        \/ calls' = calls /\ \E b, o : Becomes(Worker, "complete", b, o, "idle")
    BY <1>8, WorkerDiscovers, ThreeThreads
  <2> QED BY <1>0, <2>1, <2>2 DEF WorkerOK, Becomes
<1>9. CASE Notify
  <2>1. pc[Worker] = "notify" /\ registry' = registry /\ Worker \notin outdated'
    BY <1>0, <1>9, WorkerHere, Going DEF Notify, coordinator, Enter
  <2> QED BY <1>0, <1>9, <2>1, WorkerNotifies DEF WorkerOK, Becomes
<1>10. CASE Hook \/ Complete
  BY <1>0, <1>10, Going, Coming, WorkerHere DEF Hook, Complete, WorkerOK, Becomes, coordinator
<1>11. CASE Unhook
  BY <1>0, <1>11, LeavingOrphan, Coming, WorkerHere DEF Unhook, WorkerOK, Becomes, coordinator
<1>12. CASE MarkOrphaned
  BY <1>0, <1>12, LeavingOrphan, Going, WorkerHere DEF MarkOrphaned, WorkerOK, Becomes, coordinator
<1>13. CASE MarkAuth(Worker)
  BY <1>0, <1>13 DEF MarkAuth, WorkerOK
<1> QED BY <1>1, <1>2, <1>3, <1>4, <1>5, <1>6, <1>7, <1>8, <1>9, <1>10, <1>11, <1>12, <1>13
        DEF InBridge, WorkerNext

\* So does the supervisor.
LEMMA SupervisorIsThere ==
  ASSUME PlacesOK, IInv, InBridge(Supervisor) \/ SupervisorNext
  PROVE  SupervisorOK'
<1> USE DEF At
<1>0. ThreadsOK /\ SupervisorOK /\ Supervisor \in Threads /\ Supervisor # Worker
  BY ThreeThreads DEF IInv, PlacesOK
<1>1. CASE InBridge(Supervisor) \/ ListBridges
  <2>1. MarkAuth(Supervisor) \/ ListBridges
    BY <1>0, <1>1 DEF SupervisorOK, InBridge, Attach, Subscribe, Push, Write, Detach, Unsubscribe
  <2>2. ~running /\ registry = None /\ running' = running /\ registry' = registry
        /\ pc[Worker] = "idle"
    BY <1>0, <2>1 DEF SupervisorOK, MarkAuth, ListBridges, coordinator
  <2>3. \/ Becomes(Supervisor, "idle", None, None, "idle")
        \/ \E place \in {"idle", "mark auth"} :
              \E b, o : Becomes(Supervisor, place, b, o, "idle")
    <3>1. CASE MarkAuth(Supervisor)
      BY <1>0, <3>1, Leaving DEF MarkAuth, SupervisorOK
    <3>2. CASE ListBridges /\ registered = None
      BY <1>0, <3>2, Going DEF ListBridges, SupervisorOK
    <3>3. CASE ListBridges /\ registered # None
      BY <1>0, <3>3, Coming DEF ListBridges
    <3> QED BY <2>1, <3>1, <3>2, <3>3
  <2> QED BY <1>0, <2>2, <2>3, ThreeThreads DEF SupervisorOK, Becomes
<1>2. CASE StopCoordinator
  <2>1. ~running' /\ registry' = None /\ pc[Worker] = "idle"
    BY <1>2 DEF StopCoordinator
  <2>2. \E place \in {"idle", "list"} : \E b, o : Becomes(Supervisor, place, b, o, "idle")
    <3>1. \E place \in {"idle", "list"} : Goto(Supervisor, place)
      BY <1>2 DEF StopCoordinator
    <3> QED BY <1>0, <3>1, Going DEF SupervisorOK
  <2> QED BY <1>0, <2>1, <2>2, ThreeThreads DEF SupervisorOK, Becomes
<1>3. CASE StartCoordinator
  BY <1>0, <1>3 DEF StartCoordinator, SupervisorOK, thread
<1> QED BY <1>1, <1>2, <1>3 DEF SupervisorNext

\* Every step keeps the kinds of what is shown and remembered.
LEMMA ShownKind ==
  ASSUME PlacesOK, IInv, [Next]_vars
  PROVE  ShownTyped'
<1>0. ThreadsOK /\ BridgesTyped /\ ShownTyped
  BY DEF IInv, PlacesOK
<1>1. ASSUME NEW t \in Threads, InBridge(t)
      PROVE  ShownTyped'
  <2>0. mine[t] \in BridgeObjects \cup {None} /\ object[t] \in Objects \cup {None}
    BY <1>0 DEF ThreadsOK
  <2>1. CASE Attach(t) \/ Subscribe(t) \/ Push(t)
    <3>1. outdated' \subseteq outdated
      BY <1>0, <2>1, Going, Coming, Leaving DEF Attach, Subscribe, Push
    <3>2. late' \in BOOLEAN
      BY <1>0, <2>1 DEF Attach, Subscribe, Push, PushedLate, ShownTyped
    <3>3. /\ orphaned' \subseteq orphaned /\ shown' = shown /\ kept' = kept /\ pass' = pass
          /\ passed' = passed /\ running' = running /\ listed' = listed /\ authLost' = authLost
      BY <2>1 DEF Attach, Subscribe, Push, bridges, coordinator, past
    <3> QED BY <1>0, <3>1, <3>2, <3>3 DEF ShownTyped, Shows
  <2>2. CASE Write(t) \/ Detach(t) \/ Unsubscribe(t) \/ MarkAuth(t)
    <3>1. outdated' \subseteq outdated
      BY <1>0, <2>2, Coming, Leaving DEF Write, Detach, Unsubscribe, MarkAuth
    <3>2. late' \in BOOLEAN
      BY <1>0, <2>2 DEF Write, Detach, Unsubscribe, MarkAuth, ShownTyped
    <3>3. /\ orphaned' = orphaned /\ kept' = kept /\ pass' = pass
          /\ passed' = passed /\ running' = running /\ listed' = listed /\ authLost' = authLost
      BY <2>2 DEF Write, Detach, Unsubscribe, MarkAuth, bridges, coordinator, past
    <3>4. \/ shown' = shown
          \/ shown' = [by |-> "push", object |-> object[t], current |-> t \notin outdated]
          \/ shown' = [by |-> "auth", object |-> None, current |-> TRUE]
      BY <2>2 DEF Write, Detach, Unsubscribe, MarkAuth, Show
    <3>5. shown' \in Shows
      <4>1. CASE shown' = shown
        BY <1>0, <4>1 DEF ShownTyped, Shows
      <4>2. CASE shown' = [by |-> "push", object |-> object[t], current |-> t \notin outdated]
        <5> DEFINE c == t \notin outdated
        <5>1. c \in BOOLEAN /\ shown' = [by |-> "push", object |-> object[t], current |-> c]
          BY <4>2
        <5> HIDE DEF c
        <5> QED BY <2>0, <5>1 DEF Shows
      <4>3. CASE shown' = [by |-> "auth", object |-> None, current |-> TRUE]
        BY <4>3 DEF Shows
      <4> QED BY <3>4, <4>1, <4>2, <4>3
    <3> QED BY <1>0, <3>1, <3>2, <3>3, <3>5 DEF ShownTyped
  <2> QED BY <1>1, <2>1, <2>2 DEF InBridge
<1>2. CASE MainNext
  <2>0. mine[Main] \in BridgeObjects \cup {None} /\ outdated' \subseteq outdated
    BY <1>0, <1>2, MainEffects, ThreeThreads DEF ThreadsOK, MainOnly
  <2>1. CASE StartComm \/ StopComm \/ Find
    BY <1>0, <2>0, <2>1 DEF StartComm, StopComm, Find, ShownTyped, bridges, coordinator, past
  <2>2. CASE MarkWaiting
    <3>1. shown' \in Shows
      BY <2>2 DEF MarkWaiting, Show, Shows
    <3>2. late' \in BOOLEAN
      BY <2>2 DEF MarkWaiting
    <3> QED BY <1>0, <2>0, <2>2, <3>1, <3>2
            DEF MarkWaiting, ShownTyped, bridges, coordinator, past
  <2> QED BY <1>2, <2>1, <2>2 DEF MainNext
<1>3. CASE WorkerNext
  <2>1. CASE Merge \/ Depaired \/ Discover
    <3>1. \/ shown' = shown
          \/ shown' = [shown EXCEPT !.current = @ /\ shown.object # registry]
      BY <2>1 DEF Merge, Depaired, Discover, Remove, Change
    <3>2. outdated' \subseteq Threads
      BY <1>0, <2>1, ThreeThreads, Going
         DEF Merge, Depaired, Discover, Remove, Change, ShownTyped
    <3>3. /\ orphaned' = orphaned /\ kept' = kept /\ pass' \in BOOLEAN /\ late' = late
          /\ passed' = passed /\ running' = running /\ listed' = listed /\ authLost' = authLost
      BY <1>0, <2>1 DEF Merge, Depaired, Discover, Remove, bridges, coordinator, past, ShownTyped
    <3>4. shown' \in Shows
      <4> DEFINE c == shown.current /\ shown.object # registry
      <4>1. c \in BOOLEAN /\ (shown' = shown \/ shown' = [shown EXCEPT !.current = c])
        BY <3>1
      <4> HIDE DEF c
      <4> QED BY <1>0, <4>1 DEF ShownTyped, Shows
    <3> QED BY <1>0, <3>2, <3>3, <3>4 DEF ShownTyped
  <2>2. CASE Notify \/ Hook \/ Unhook \/ Complete \/ MarkOrphaned
    <3>0. outdated' \subseteq outdated
      <4>0. At(Worker, "unhook") \/ At(Worker, "orphan") \/ At(Worker, "flag")
                \/ At(Worker, "latch") => back[Worker] = "idle"
        BY DEF PlacesOK, WorkerOK, At
      <4>1. CASE Notify \/ Hook \/ Complete
        BY <1>0, <4>1, ThreeThreads, Going, Coming DEF Notify, Hook, Complete
      <4>2. CASE Unhook \/ MarkOrphaned
        BY <1>0, <4>0, <4>2, ThreeThreads, Going, Coming, LeavingOrphan DEF Unhook, MarkOrphaned
      <4> QED BY <2>2, <4>1, <4>2
    <3>1. shown' = shown \/ shown' = [by |-> "orphan", object |-> None, current |-> TRUE]
      BY <2>2 DEF Notify, Hook, Unhook, Complete, MarkOrphaned, Show
    <3>2. orphaned' = orphaned \/ (mine[Worker] \in BridgeObjects /\ orphaned' \subseteq orphaned \cup {mine[Worker]})
      BY <1>0, <2>2, ThreeThreads
         DEF Notify, Hook, Unhook, Complete, MarkOrphaned, bridges, ThreadsOK, Inside, At
    <3>3. /\ kept' = kept /\ late' = late /\ pass' \in BOOLEAN /\ passed' \in BOOLEAN
          /\ running' = running /\ listed' = listed /\ authLost' = authLost
      BY <1>0, <2>2
         DEF Notify, Hook, Unhook, Complete, MarkOrphaned, coordinator, past, ShownTyped
    <3>4. shown' \in Shows
      <4>1. CASE shown' = shown
        BY <1>0, <4>1 DEF ShownTyped
      <4>2. CASE shown' = [by |-> "orphan", object |-> None, current |-> TRUE]
        BY <4>2 DEF Shows
      <4> QED BY <3>1, <4>1, <4>2
    <3> QED BY <1>0, <3>0, <3>2, <3>3, <3>4 DEF ShownTyped
  <2> QED BY <1>3, <2>1, <2>2 DEF WorkerNext
<1>4. CASE SupervisorNext
  <2>0. outdated' \subseteq outdated
    BY <1>4, SupervisorEffects
  <2> QED BY <1>0, <1>4, <2>0
          DEF SupervisorNext, StopCoordinator, ListBridges, StartCoordinator, ShownTyped,
              BridgesTyped, thread, bridges, coordinator, past
<1>5. CASE LoseAuth \/ Pair \/ UNCHANGED vars
  BY <1>0, <1>5 DEF LoseAuth, Pair, vars, thread, bridges, coordinator, past, ShownTyped
<1> QED BY <1>1, <1>2, <1>3, <1>4, <1>5 DEF Next

\* Every thread is where its work takes it, and knows what it should there.
THEOREM InPlace == Spec => []PlacesOK
<1>1. Init => PlacesOK
  <2> SUFFICES ASSUME Init PROVE PlacesOK
    OBVIOUS
  <2>1. /\ pc[Main] = "idle" /\ pc[Worker] = "idle" /\ pc[Supervisor] = "idle"
        /\ back[Main] = "idle" /\ back[Worker] = "idle" /\ back[Supervisor] = "idle"
    BY ThreeThreads DEF Init
  <2>2. ShownTyped
    BY DEF Init, ShownTyped, Shows
  <2>3. MainOK
    BY <2>1 DEF MainOK, At
  <2>4. WorkerOK /\ SupervisorOK
    BY <2>1 DEF Init, WorkerOK, SupervisorOK, At
  <2> QED BY <2>2, <2>3, <2>4 DEF PlacesOK
<1>2. PlacesOK /\ IInv /\ [Next]_vars => PlacesOK'
  <2> SUFFICES ASSUME PlacesOK, IInv, [Next]_vars PROVE PlacesOK'
    OBVIOUS
  <2>0. ShownTyped' /\ MainOK /\ WorkerOK /\ SupervisorOK
    BY ShownKind DEF PlacesOK
  <2>1. CASE InBridge(Main) \/ MainNext
    <3>1. MainOK' /\ MainOnly
      BY <2>1, MainIsThere, MainEffects
    <3>2. WorkerOK' /\ SupervisorOK'
      BY <2>0, <3>1 DEF MainOnly, WorkerOK, SupervisorOK, At, Notifying
    <3> QED BY <2>0, <3>1, <3>2 DEF PlacesOK
  <2>2. CASE InBridge(Worker) \/ WorkerNext
    <3>1. WorkerOK' /\ WorkerOnly
      BY <2>2, WorkerIsThere, WorkerEffects
    <3>2. MainOK' /\ SupervisorOK'
      BY <2>0, <3>1 DEF WorkerOnly, MainOK, SupervisorOK, At
    <3> QED BY <2>0, <3>1, <3>2 DEF PlacesOK
  <2>3. CASE InBridge(Supervisor) \/ SupervisorNext
    <3>1. MainOK'
      <4>1. /\ authLost' = authLost \/ ~authLost'
            /\ pc'[Main] = pc[Main] /\ mine'[Main] = mine[Main] /\ object'[Main] = object[Main]
            /\ back'[Main] = back[Main] /\ registered' = registered /\ late' = late
        BY <2>3, SupervisorEffects DEF StartCoordinator
      <4>2. pc'[Main] = "mark waiting" /\ authLost' => late'
        BY <2>0, <4>1 DEF MainOK, At
      <4>3. pc'[Main] \in {"attach", "mark auth"} => ~late'
        BY <2>0, <4>1 DEF MainOK
      <4> QED BY <2>0, <4>1, <4>2, <4>3 DEF MainOK, At
    <3>2. WorkerOK'
      BY <2>0, <2>3, SupervisorEffects DEF WorkerOK, At, Notifying
    <3>3. SupervisorOK'
      BY <2>3, SupervisorIsThere DEF PlacesOK
    <3> QED BY <2>0, <3>1, <3>2, <3>3 DEF PlacesOK
  <2>4. CASE LoseAuth
    BY <2>0, <2>4
       DEF LoseAuth, PlacesOK, MainOK, WorkerOK, SupervisorOK, At, Notifying, thread, bridges,
           coordinator
  <2>5. CASE Pair \/ UNCHANGED vars
    <3>1. UNCHANGED <<thread, bridges, coordinator, authLost, shown, late>>
      BY <2>5 DEF Pair, vars
    <3>2. MainOK'
      BY <2>0, <3>1 DEF MainOK, At, thread, bridges
    <3>3. WorkerOK' /\ SupervisorOK'
      BY <2>0, <3>1 DEF WorkerOK, SupervisorOK, At, Notifying, thread, coordinator
    <3> QED BY <2>0, <3>2, <3>3 DEF PlacesOK
  <2> QED BY <2>1, <2>2, <2>3, <2>4, <2>5, ThreeThreads DEF Next
<1> QED BY <1>1, <1>2, Invariance, PTL DEF Spec

----------------------------------------------------------------------------
(* The device follows its appliance.                                       *)

\* The device's claims hold unless its start acted on an outdated look; until it
\* looks they hold anyway.
Fresh == ~late \/ At(Main, "find")

\* The thread is in the device's bridge, at one of these places.
InMine(t, places) == pc[t] \in places /\ mine[t] = registered

\* The appliance was removed, and its bridge will be detached.
Removing == registry = None /\ (Notifying \/ At(Worker, "unhook"))

\* The main thread subscribes what it attached.
SubscribesAttached ==
    At(Main, "subscribe") /\ object[Main] = registry => appliance[registered] = registry

\* The worker will push what bridge b is attached to.
InHand(b) == pc[Worker] \in {"subscribe", "push", "write"} /\ mine[Worker] = b

\* What the worker pushes is of the registry's object: only the bridge of a start
\* that went wrong is subscribed to that and attached to another, and it is detached
\* before the next one starts.
PushesCurrent ==
    \A b \in BridgeObjects :
        registry # None /\ (b = registered => Fresh) /\ ~(At(Main, "detach") /\ mine[Main] = b)
        /\ (b \in observers[registry] \cup calls \/ InHand(b))
            => appliance[b] \in {registry, None}

\* Who is to attach the device, if it is not attached to the registry's object.
WillAttach ==
    registered # None /\ registry # None /\ Fresh =>
        \/ appliance[registered] = registry
        \/ appliance[registered] = None
           /\ (At(Main, "find") \/ (At(Main, "attach") /\ object[Main] = registry))
        \/ At(Worker, "hook")
        \/ InMine(Worker, {"attach"})

\* An orphan is detached, and a device is not flagged once its appliance is back.
OrphansOK ==
    /\ \A b \in orphaned : appliance[b] = None
    /\ registered \in orphaned /\ registry # None => At(Worker, "hook") \/ InMine(Worker, {"attach"})
    /\ registered \in orphaned => ~Removing /\ pc[Worker] \notin {"detach", "unsubscribe"}

\* With no appliance, a device is attached to that of the last coordinator or will
\* be detached.
LeftAttached ==
    registered # None /\ registry = None /\ Fresh /\ appliance[registered] # None =>
        \/ appliance[registered] = kept
        \/ Removing
        \/ InMine(Worker, {"detach"})

\* No step makes a start fresh again.
LEMMA FreshBefore ==
  ASSUME IInv, PlacesOK, [Next]_vars, Fresh'
  PROVE  Fresh \/ StartComm
<1> USE DEF At, Fresh
<1>0. late \in BOOLEAN
  BY DEF PlacesOK, ShownTyped
<1>1. CASE Attach(Main) \/ MarkAuth(Main)
  BY <1>1 DEF PlacesOK, MainOK, Attach, MarkAuth
<1>2. CASE Find
  BY <1>2 DEF Find
<1>3. CASE StartComm
  BY <1>3
<1>4. CASE Push(Main) \/ MarkWaiting
  <2>1. pc'[Main] # "find"
    BY <1>4, MainPushes, MainReturns DEF Becomes
  <2> QED BY <1>0, <1>4, <2>1 DEF Push, PushedLate, MarkWaiting
<1>5. CASE Subscribe(Main) \/ Write(Main) \/ Detach(Main) \/ Unsubscribe(Main) \/ StopComm
  <2>1. pc'[Main] # "find"
    BY <1>5, MainSubscribes, MainReturns, MainDetaches, MainStops DEF Becomes
  <2> QED BY <1>5, <2>1 DEF Subscribe, Write, Detach, Unsubscribe, StopComm
<1>6. CASE InBridge(Worker) \/ WorkerNext
  BY <1>6, WorkerEffects DEF WorkerOnly
<1>7. CASE InBridge(Supervisor) \/ SupervisorNext
  BY <1>7, SupervisorEffects
<1>8. CASE LoseAuth \/ Pair \/ UNCHANGED vars
  BY <1>8 DEF LoseAuth, Pair, vars, thread
<1> QED BY <1>1, <1>2, <1>3, <1>4, <1>5, <1>6, <1>7, <1>8, ThreeThreads
        DEF Next, InBridge, MainNext

\* What the worker and the supervisor do to the registry.
LEMMA Registering ==
  ASSUME IInv, PlacesOK, [Next]_vars
  PROVE  \/ registry' = registry
         \/ registry' = None
         \/ /\ Discover /\ registry = None /\ registry' \in Objects /\ UnusedObject(registry')
            /\ observers' = [observers EXCEPT ![registry'] = {}] /\ calls' = calls
            /\ \E b, o : Becomes(Worker, "hook", b, o, "idle")
<1>1. CASE InBridge(Main) \/ MainNext
  BY <1>1, MainEffects DEF MainOnly
<1>2. CASE InBridge(Worker)
  BY <1>2 DEF InBridge, Attach, Subscribe, Push, Write, Detach, Unsubscribe, MarkAuth, coordinator
<1>3. CASE Discover
  BY <1>3, WorkerDiscovers DEF Remove
<1>4. CASE Depaired
  BY <1>4 DEF Depaired, Remove
<1>5. CASE Merge \/ Notify \/ Hook \/ Unhook \/ Complete \/ MarkOrphaned
  BY <1>5 DEF Merge, Notify, Hook, Unhook, Complete, MarkOrphaned, coordinator
<1>6. CASE InBridge(Supervisor) \/ SupervisorNext
  BY <1>6, SupervisorEffects
<1>7. CASE LoseAuth \/ Pair \/ UNCHANGED vars
  BY <1>7 DEF LoseAuth, Pair, vars, coordinator
<1> QED BY <1>1, <1>2, <1>3, <1>4, <1>5, <1>6, <1>7, ThreeThreads DEF Next, WorkerNext

\* Who changes what bridges are attached to.
LEMMA Attachments ==
  ASSUME [Next]_vars
  PROVE  \/ appliance' = appliance
         \/ Attach(Main) \/ Attach(Worker) \/ Detach(Main) \/ Detach(Worker)
         \/ Attach(Supervisor) \/ Detach(Supervisor) \/ StartComm
<1>1. ASSUME NEW t \in Threads, Subscribe(t) \/ Push(t) \/ Write(t) \/ Unsubscribe(t) \/ MarkAuth(t)
      PROVE  appliance' = appliance
  BY <1>1 DEF Subscribe, Push, Write, Unsubscribe, MarkAuth, bridges
<1>2. WorkerNext \/ SupervisorNext => appliance' = appliance
  BY DEF WorkerNext, Merge, Notify, Discover, Hook, Depaired, Unhook, Complete, MarkOrphaned,
         SupervisorNext, StopCoordinator, ListBridges, StartCoordinator, bridges
<1>3. Find \/ MarkWaiting \/ StopComm \/ LoseAuth \/ Pair \/ UNCHANGED vars
          => appliance' = appliance
  BY DEF Find, MarkWaiting, StopComm, LoseAuth, Pair, vars, bridges
<1> QED BY <1>1, <1>2, <1>3, ThreeThreads DEF Next, InBridge, MainNext

\* Nobody attaches another object between the main thread's attach and subscribe.
LEMMA SubscribesAttachedKept ==
  ASSUME IInv, PlacesOK, SubscribesAttached, [Next]_vars
  PROVE  SubscribesAttached'
<1> USE DEF At, SubscribesAttached
<1>0. ThreadsOK /\ BridgesTyped /\ MainOK
  BY DEF IInv, PlacesOK
<1>1. CASE InBridge(Main) \/ MainNext
  <2>1. CASE Attach(Main)
    <3>1. mine[Main] = registered /\ registered \in BridgeObjects /\ registered' = registered
          /\ registry' = registry
      BY <1>0, <2>1, ThreeThreads DEF Attach, MainOK, ThreadsOK, Inside, coordinator
    <3> QED BY <1>0, <2>1, <3>1, MainAttaches DEF Becomes, BridgesTyped
  <2>2. CASE ~Attach(Main)
    <3>1. pc'[Main] # "subscribe"
      BY <1>1, <2>2, MainSubscribes, MainPushes, MainReturns, MainDetaches, MainStarts, MainStops,
         MainFinds DEF Becomes, InBridge, MainNext
    <3> QED BY <3>1
  <2> QED BY <2>1, <2>2
<1>2. CASE InBridge(Worker) \/ WorkerNext
  <2>0. WorkerOnly
    BY <1>2, WorkerEffects
  <2> SUFFICES ASSUME pc[Main] = "subscribe", object[Main] = registry'
               PROVE  appliance'[registered] = registry'
    BY <2>0 DEF WorkerOnly
  <2>1. object[Main] # None /\ registered \in BridgeObjects
    BY <1>0, ThreeThreads DEF MainOK, ThreadsOK, Inside
  <2>2. registry' = registry
    BY <1>2, <2>1, Registering, ThreeThreads DEF UnusedObject, Next, InBridge
  <2>3. CASE Attach(Worker)
    <3>1. object[Worker] = registry
      BY <2>3 DEF Attach, PlacesOK, WorkerOK
    <3> QED BY <1>0, <2>1, <2>2, <2>3, <3>1, WorkerAttaches DEF BridgesTyped
  <2>4. CASE Detach(Worker)
    BY <2>1, <2>2, <2>4 DEF Detach, PlacesOK, WorkerOK
  <2>5. CASE ~Attach(Worker) /\ ~Detach(Worker)
    <3>1. appliance' = appliance
      BY <1>2, <2>5 DEF InBridge, Subscribe, Push, Write, Unsubscribe, MarkAuth,
                        WorkerNext, Merge, Notify, Discover, Hook, Depaired, Unhook,
                        Complete, MarkOrphaned, bridges
    <3> QED BY <2>2, <3>1
  <2> QED BY <2>3, <2>4, <2>5
<1>3. CASE InBridge(Supervisor) \/ SupervisorNext
  BY <1>0, <1>3, SupervisorEffects DEF MainOK
<1>4. CASE LoseAuth \/ Pair \/ UNCHANGED vars
  BY <1>4 DEF LoseAuth, Pair, vars, thread, bridges, coordinator
<1> QED BY <1>1, <1>2, <1>3, <1>4, ThreeThreads DEF Next

\* What the worker pushes stays of the registered object: the main thread subscribes
\* the device to the object it is attached to, and a bridge that starts is in nobody's hand.
LEMMA PushesCurrentKept ==
  ASSUME IInv, PlacesOK, SubscribesAttached, PushesCurrent, [Next]_vars
  PROVE  PushesCurrent'
<1> USE DEF At
<1>0. ThreadsOK /\ BridgesTyped /\ MainOK /\ WorkerOK
  BY DEF IInv, PlacesOK
<1> SUFFICES ASSUME NEW b \in BridgeObjects, registry' # None, b = registered' => Fresh',
                    ~(pc'[Main] = "detach" /\ mine'[Main] = b),
                    b \in observers'[registry'] \cup calls' \/ InHand(b)'
             PROVE  appliance'[b] \in {registry', None}
  BY DEF PushesCurrent
<1>a. ASSUME registry # None, b = registered => Fresh,
             ~(pc[Main] = "detach" /\ mine[Main] = b),
             b \in observers[registry] \cup calls \/ InHand(b)
      PROVE  appliance[b] \in {registry, None}
  BY <1>a DEF PushesCurrent
<1>1. CASE InBridge(Main) \/ MainNext
  <2>0. /\ registry' = registry /\ calls' \subseteq calls /\ (InHand(b)' <=> InHand(b))
        /\ registry \in Objects
    BY <1>0, <1>1, MainEffects DEF MainOnly, InHand, BridgesTyped
  <2>1. CASE Attach(Main)
    <3>1. mine[Main] = registered /\ registered' = registered /\ observers' = observers
          /\ pc[Main] = "attach"
      BY <1>0, <2>1 DEF Attach, MainOK, coordinator
    <3>2. CASE b = mine[Main]
      <4>1. object[Main] = registry
        <5>1. Fresh' /\ pc'[Main] # "find"
          BY <2>1, <3>1, <3>2, MainAttaches DEF Becomes
        <5> QED BY <2>1, <5>1 DEF Attach, Fresh
      <4> QED BY <1>0, <2>0, <2>1, <3>2, <4>1, MainAttaches DEF BridgesTyped
    <3>3. CASE b # mine[Main]
      BY <1>0, <1>a, <2>0, <2>1, <3>1, <3>3, MainAttaches DEF BridgesTyped
    <3> QED BY <3>2, <3>3
  <2>2. CASE Subscribe(Main)
    <3>1. /\ mine[Main] = registered /\ registered' = registered /\ appliance' = appliance
          /\ pc[Main] = "subscribe"
          /\ observers' = [observers EXCEPT ![object[Main]] = @ \cup {mine[Main]}]
      BY <1>0, <2>2 DEF Subscribe, MainOK, bridges
    <3>2. CASE b = registered /\ object[Main] = registry
      BY <2>0, <3>1, <3>2 DEF SubscribesAttached
    <3>3. CASE ~(b = registered /\ object[Main] = registry)
      <4>1. b \in observers[registry] \cup calls \/ InHand(b)
        BY <1>0, <2>0, <3>1, <3>3 DEF BridgesTyped
      <4>2. ~StartComm
        BY <2>2 DEF Subscribe, StartComm
      <4> QED BY <1>a, <2>0, <3>1, <4>1, <4>2, FreshBefore
    <3> QED BY <3>2, <3>3
  <2>3. CASE Detach(Main)
    <3>1. /\ mine[Main] \in BridgeObjects /\ registered' = registered /\ registered = None
          /\ appliance' = [appliance EXCEPT ![mine[Main]] = None] /\ observers' = observers
      BY <1>0, <2>3, ThreeThreads DEF Detach, MainOK, ThreadsOK, Inside, coordinator
    <3>2. CASE b = mine[Main]
      BY <1>0, <3>1, <3>2 DEF BridgesTyped
    <3>3. CASE b # mine[Main]
      BY <1>0, <1>a, <2>0, <3>1, <3>3, ThreeThreads DEF BridgesTyped
    <3> QED BY <3>2, <3>3
  <2>4. CASE StartComm
    <3>1. PICK c \in BridgeObjects :
              /\ appliance' = [appliance EXCEPT ![c] = None]
              /\ observers' = [o \in Objects |-> observers[o] \ {c}]
      BY <2>4 DEF StartComm
    <3>2. pc[Main] = "idle" /\ registered = None
      BY <2>4 DEF StartComm
    <3> QED BY <1>0, <1>a, <2>0, <3>1, <3>2, ThreeThreads DEF BridgesTyped
  <2>5. CASE StopComm
    <3>1. /\ pc[Main] = "idle" /\ appliance' = appliance /\ observers' = observers
          /\ mine'[Main] = registered /\ pc'[Main] = "detach"
      BY <2>5, MainStops DEF StopComm, coordinator, Becomes
    <3> QED BY <1>a, <2>0, <3>1
  <2>6. CASE Unsubscribe(Main)
    <3>1. /\ appliance' = appliance /\ registered = None /\ pc[Main] = "unsubscribe"
          /\ observers' = [observers EXCEPT ![object[Main]] = @ \ {mine[Main]}]
      BY <1>0, <2>6 DEF Unsubscribe, MainOK, bridges
    <3>2. observers'[registry] \subseteq observers[registry]
      BY <1>0, <2>0, <3>1 DEF BridgesTyped
    <3> QED BY <1>a, <2>0, <3>1, <3>2, ThreeThreads
  <2>7. CASE Push(Main) \/ Write(Main) \/ MarkAuth(Main) \/ Find \/ MarkWaiting
    <3>1. /\ appliance' = appliance /\ observers' = observers /\ registered' = registered
          /\ pc[Main] # "detach" /\ ~StartComm
      BY <2>7 DEF Push, Write, MarkAuth, Find, MarkWaiting, StartComm, bridges, coordinator
    <3> QED BY <1>a, <2>0, <3>1, FreshBefore
  <2> QED BY <1>1, <2>1, <2>2, <2>3, <2>4, <2>5, <2>6, <2>7 DEF InBridge, MainNext
<1>2. CASE InBridge(Worker) \/ WorkerNext
  <2>0. /\ registered' = registered /\ (Fresh' <=> Fresh)
        /\ pc'[Main] = pc[Main] /\ mine'[Main] = mine[Main]
    BY <1>2, WorkerEffects DEF WorkerOnly, Fresh
  <2>1. CASE Attach(Worker)
    <3>1. object[Worker] = registry /\ registry' = registry /\ observers' = observers
          /\ calls' = calls /\ registry \in Objects
      BY <1>0, <2>1 DEF Attach, WorkerOK, coordinator, BridgesTyped
    <3>2. CASE b = mine[Worker]
      BY <1>0, <2>1, <3>1, <3>2, WorkerAttaches DEF BridgesTyped
    <3>3. CASE b # mine[Worker]
      <4>1. ~InHand(b)' /\ appliance'[b] = appliance[b]
        BY <1>0, <2>1, <3>3, WorkerAttaches, ThreeThreads DEF BridgesTyped, Becomes, InHand
      <4> QED BY <1>a, <2>0, <3>1, <4>1
    <3> QED BY <3>2, <3>3
  <2>2. CASE Subscribe(Worker)
    <3>1. /\ object[Worker] = registry /\ registry' = registry /\ appliance' = appliance
          /\ calls' = calls /\ registry \in Objects /\ pc[Worker] = "subscribe"
          /\ observers' = [observers EXCEPT ![object[Worker]] = @ \cup {mine[Worker]}]
      BY <1>0, <2>2 DEF Subscribe, WorkerOK, bridges, BridgesTyped
    <3>2. mine'[Worker] = mine[Worker]
      BY <2>2, WorkerSubscribes DEF Becomes
    <3>3. b \in observers[registry] \cup calls \/ InHand(b)
      BY <1>0, <3>1, <3>2 DEF BridgesTyped, InHand
    <3> QED BY <1>a, <2>0, <3>1, <3>3
  <2>3. CASE Push(Worker) \/ Write(Worker)
    <3>1. /\ registry' = registry /\ appliance' = appliance /\ calls' = calls
          /\ observers' = observers
      BY <2>3 DEF Push, Write, bridges, coordinator
    <3>2. InHand(b)' => InHand(b)
      <4>1. Push(Worker) => (InHand(b)' => InHand(b))
        BY WorkerPushes, ThreeThreads DEF Becomes, InHand, Push
      <4>2. Write(Worker) => (InHand(b)' => InHand(b))
        BY WorkerWrites, ThreeThreads DEF Becomes, InHand
      <4> QED BY <2>3, <4>1, <4>2
    <3> QED BY <1>a, <2>0, <3>1, <3>2
  <2>4. CASE Merge
    <3>1. /\ registry' = registry /\ registry # None /\ appliance' = appliance
          /\ observers' = observers /\ calls' = observers[registry]
      BY <2>4 DEF Merge, Change, bridges, coordinator
    <3>2. ~InHand(b)'
      BY <2>4, WorkerIsTold DEF Becomes, InHand
    <3> QED BY <1>a, <2>0, <3>1, <3>2
  <2>5. CASE Notify
    <3>1. /\ registry' = registry /\ appliance' = appliance /\ observers' = observers
      BY <2>5 DEF Notify, bridges, coordinator
    <3>2. b \in calls' \/ InHand(b)' => b \in calls
      BY <2>5, WorkerNotifies DEF Becomes, InHand
    <3> QED BY <1>a, <2>0, <3>1, <3>2
  <2>6. CASE Discover
    <3>1. appliance' = appliance /\ calls = {} /\ pc[Worker] = "idle"
      BY <1>0, <2>6 DEF Discover, WorkerOK, bridges, Notifying
    <3>2. registry' = registry /\ observers' = observers /\ calls' = calls /\ ~InHand(b)'
      <4>1. ~Remove
        BY DEF Remove
      <4>2. CASE registry' = registry /\ calls' = calls /\ observers' = observers
                 /\ \E c, o : Becomes(Worker, "complete", c, o, "idle")
        BY <4>2 DEF Becomes, InHand
      <4>3. CASE /\ registry' \in Objects /\ observers' = [observers EXCEPT ![registry'] = {}]
                 /\ calls' = calls /\ \E c, o : Becomes(Worker, "hook", c, o, "idle")
        <5>1. b \notin observers'[registry'] /\ b \notin calls' /\ ~InHand(b)'
          BY <1>0, <3>1, <4>3 DEF BridgesTyped, Becomes, InHand
        <5> QED BY <5>1
      <4> QED BY <2>6, <4>1, <4>2, <4>3, WorkerDiscovers
    <3> QED BY <1>a, <2>0, <3>1, <3>2
  <2>7. CASE Hook \/ Complete
    <3>1. /\ registry' = registry /\ appliance' = appliance /\ observers' = observers
          /\ calls' = calls
      BY <2>7 DEF Hook, Complete, bridges, coordinator
    <3>2. ~InHand(b)'
      BY <2>7, WorkerHooks, WorkerCompletes DEF Becomes, InHand
    <3> QED BY <1>a, <2>0, <3>1, <3>2
  <2>8. CASE Detach(Worker) \/ Unsubscribe(Worker) \/ Unhook \/ MarkOrphaned \/ Depaired
    BY <1>0, <2>8, Registering
       DEF Detach, Unsubscribe, Unhook, MarkOrphaned, Depaired, Remove, WorkerOK, coordinator
  <2>9. CASE MarkAuth(Worker)
    BY <1>0, <2>9 DEF MarkAuth, WorkerOK
  <2> QED BY <1>2, <2>1, <2>2, <2>3, <2>4, <2>5, <2>6, <2>7, <2>8, <2>9 DEF InBridge, WorkerNext
<1>3. CASE InBridge(Supervisor) \/ SupervisorNext
  <2>1. /\ registry' = registry /\ appliance' = appliance /\ observers' = observers
        /\ calls' = calls /\ (InHand(b)' <=> InHand(b)) /\ registered' = registered
        /\ (Fresh' <=> Fresh) /\ pc'[Main] = pc[Main] /\ mine'[Main] = mine[Main]
    BY <1>3, SupervisorEffects DEF InHand, Fresh
  <2> QED BY <1>a, <2>1
<1>4. CASE LoseAuth \/ Pair \/ UNCHANGED vars
  <2>1. /\ registry' = registry /\ appliance' = appliance /\ observers' = observers
        /\ calls' = calls /\ (InHand(b)' <=> InHand(b)) /\ registered' = registered
        /\ pc' = pc /\ mine' = mine
    BY <1>4 DEF LoseAuth, Pair, vars, InHand, thread, bridges, coordinator
  <2>2. Fresh' => Fresh
    BY <1>4, FreshBefore DEF LoseAuth, Pair, StartComm, vars, thread, Fresh
  <2> QED BY <1>a, <2>1, <2>2
<1> QED BY <1>1, <1>2, <1>3, <1>4, ThreeThreads DEF Next

\* The start finds what is in the registry, or the hook finds the bridge registered.
LEMMA WillAttachKept ==
  ASSUME IInv, PlacesOK, WillAttach, [Next]_vars
  PROVE  WillAttach'
<1> USE DEF At
<1>0. ThreadsOK /\ BridgesTyped /\ MainOK /\ WorkerOK
  BY DEF IInv, PlacesOK
<1> SUFFICES ASSUME registered' # None, registry' # None, Fresh'
             PROVE  \/ appliance'[registered'] = registry'
                    \/ /\ appliance'[registered'] = None
                       /\ \/ pc'[Main] = "find"
                          \/ pc'[Main] = "attach" /\ object'[Main] = registry'
                    \/ pc'[Worker] = "hook"
                    \/ InMine(Worker, {"attach"})'
  BY DEF WillAttach
<1>a. ASSUME registered # None, registry # None, Fresh
      PROVE  \/ appliance[registered] = registry
             \/ /\ appliance[registered] = None
                /\ pc[Main] = "find" \/ (pc[Main] = "attach" /\ object[Main] = registry)
             \/ pc[Worker] = "hook"
             \/ InMine(Worker, {"attach"})
  BY <1>a DEF WillAttach
<1>1. CASE InBridge(Main) \/ MainNext
  <2>0. /\ registry' = registry /\ pc'[Worker] = pc[Worker] /\ mine'[Worker] = mine[Worker]
    BY <1>1, MainEffects DEF MainOnly
  <2>1. CASE Attach(Main)
    <3>1. mine[Main] = registered /\ registered' = registered /\ registered \in BridgeObjects
      BY <1>0, <2>1, ThreeThreads DEF Attach, MainOK, ThreadsOK, Inside
    <3>2. object[Main] = registry
      <4>1. pc'[Main] # "find"
        BY <2>1, MainAttaches DEF Becomes
      <4> QED BY <2>1, <4>1 DEF Attach, Fresh
    <3> QED BY <1>0, <2>0, <2>1, <3>1, <3>2, MainAttaches DEF BridgesTyped
  <2>2. CASE StartComm
    BY <1>0, <2>0, <2>2, MainStarts DEF BridgesTyped, Becomes
  <2>3. CASE Find
    <3>1. registered' = registered /\ appliance' = appliance /\ pc[Main] = "find"
      BY <2>3 DEF Find, bridges
    <3> QED BY <1>a, <2>0, <2>3, <3>1, MainFinds DEF Becomes, InMine, Fresh
  <2>4. CASE Detach(Main) \/ Unsubscribe(Main) \/ StopComm
    BY <1>0, <2>4 DEF Detach, Unsubscribe, StopComm, MainOK, bridges
  <2>5. CASE Subscribe(Main) \/ Push(Main) \/ Write(Main) \/ MarkAuth(Main) \/ MarkWaiting
    <3>1. registered' = registered /\ appliance' = appliance /\ ~StartComm
          /\ pc[Main] # "find" /\ pc[Main] # "attach"
      BY <2>5 DEF Subscribe, Push, Write, MarkAuth, MarkWaiting, StartComm, bridges
    <3> QED BY <1>a, <2>0, <3>1, FreshBefore DEF InMine
  <2> QED BY <1>1, <2>1, <2>2, <2>3, <2>4, <2>5 DEF InBridge, MainNext
<1>2. CASE InBridge(Worker) \/ WorkerNext
  <2>0. /\ registered' = registered /\ (Fresh' <=> Fresh)
        /\ pc'[Main] = pc[Main] /\ object'[Main] = object[Main] /\ registered \in BridgeObjects
    BY <1>0, <1>2, WorkerEffects DEF WorkerOnly, Fresh, BridgesTyped
  <2>1. CASE Attach(Worker)
    <3>1. object[Worker] = registry /\ registry' = registry
      BY <1>0, <2>1 DEF Attach, WorkerOK, coordinator
    <3>2. CASE mine[Worker] = registered
      BY <1>0, <2>0, <2>1, <3>1, <3>2, WorkerAttaches DEF BridgesTyped
    <3>3. CASE mine[Worker] # registered
      <4>1. appliance'[registered] = appliance[registered] /\ pc[Worker] = "attach"
        BY <1>0, <2>0, <2>1, <3>3, WorkerAttaches DEF BridgesTyped, Attach
      <4> QED BY <1>a, <2>0, <3>1, <3>3, <4>1 DEF InMine
    <3> QED BY <3>2, <3>3
  <2>2. CASE Hook
    <3>1. registry' = registry /\ appliance' = appliance
      BY <2>2 DEF Hook, bridges, coordinator
    <3> QED BY <2>0, <2>2, <3>1, WorkerHooks DEF InMine, Becomes
  <2>3. CASE Discover
    <3>1. appliance' = appliance /\ pc[Worker] = "idle"
      BY <2>3 DEF Discover, bridges
    <3> QED BY <1>a, <2>0, <2>3, <3>1, WorkerDiscovers DEF Remove, InMine, Becomes
  <2>4. CASE Subscribe(Worker) \/ Push(Worker) \/ Write(Worker) \/ Merge \/ Notify \/ Complete
    <3>1. registry' = registry /\ appliance' = appliance
          /\ pc[Worker] # "hook" /\ pc[Worker] # "attach"
      BY <2>4 DEF Subscribe, Push, Write, Merge, Notify, Complete, bridges, coordinator
    <3> QED BY <1>a, <2>0, <3>1 DEF InMine
  <2>5. CASE Detach(Worker) \/ Unsubscribe(Worker) \/ Unhook \/ MarkOrphaned \/ Depaired
    BY <1>0, <2>5
       DEF Detach, Unsubscribe, Unhook, MarkOrphaned, Depaired, Remove, WorkerOK, coordinator
  <2>6. CASE MarkAuth(Worker)
    BY <1>0, <2>6 DEF MarkAuth, WorkerOK
  <2> QED BY <1>2, <2>1, <2>2, <2>3, <2>4, <2>5, <2>6 DEF InBridge, WorkerNext
<1>3. CASE InBridge(Supervisor) \/ SupervisorNext
  <2>1. /\ registry' = registry /\ appliance' = appliance /\ registered' = registered
        /\ (Fresh' <=> Fresh) /\ (InMine(Worker, {"attach"})' <=> InMine(Worker, {"attach"}))
        /\ pc'[Main] = pc[Main] /\ object'[Main] = object[Main] /\ pc'[Worker] = pc[Worker]
    BY <1>3, SupervisorEffects DEF InMine, Fresh
  <2> QED BY <1>a, <2>1
<1>4. CASE LoseAuth \/ Pair \/ UNCHANGED vars
  <2>1. /\ registry' = registry /\ appliance' = appliance /\ registered' = registered
        /\ pc' = pc /\ mine' = mine /\ object' = object
    BY <1>4 DEF LoseAuth, Pair, vars, thread, bridges, coordinator
  <2>2. Fresh
    BY <1>4, FreshBefore DEF LoseAuth, Pair, StartComm, vars, thread, Fresh
  <2> QED BY <1>a, <2>1, <2>2 DEF InMine
<1> QED BY <1>1, <1>2, <1>3, <1>4, ThreeThreads DEF Next

\* The latch is set only under the lock, on a detached bridge.
LEMMA OrphansKept ==
  ASSUME IInv, PlacesOK, OrphansOK, [Next]_vars
  PROVE  OrphansOK'
<1> USE DEF At
<1>0. ThreadsOK /\ BridgesTyped /\ MainOK /\ WorkerOK /\ orphaned \subseteq BridgeObjects
      /\ None \notin orphaned
  BY ThreeThreads DEF IInv, PlacesOK, ShownTyped
<1> DEFINE
      Detached == \A b \in orphaned : appliance[b] = None
      Back == registered \in orphaned /\ registry # None
                 => pc[Worker] = "hook" \/ InMine(Worker, {"attach"})
      Gone == registered \in orphaned
                 => ~Removing /\ pc[Worker] \notin {"detach", "unsubscribe"}
<1> SUFFICES Detached' /\ Back' /\ Gone'
  BY DEF OrphansOK
<1>a. Detached /\ Back /\ Gone
  BY DEF OrphansOK
<1>1. CASE InBridge(Main) \/ MainNext
  <2>0. /\ registry' = registry /\ pc'[Worker] = pc[Worker] /\ mine'[Worker] = mine[Worker]
        /\ back'[Worker] = back[Worker]
    BY <1>1, MainEffects DEF MainOnly
  <2>1. CASE Attach(Main)
    <3>1. mine[Main] = registered /\ registered' = registered /\ registered \in BridgeObjects
          /\ object[Main] # None
      BY <1>0, <2>1, ThreeThreads DEF Attach, MainOK, ThreadsOK, Inside
    <3>2. Detached' /\ registered \notin orphaned'
      BY <1>0, <1>a, <2>1, <3>1, MainAttaches DEF BridgesTyped
    <3> QED BY <3>1, <3>2
  <2>2. CASE StartComm
    <3>1. PICK b \in BridgeObjects :
              /\ registered' = b /\ orphaned' = orphaned \ {b}
              /\ appliance' = [appliance EXCEPT ![b] = None]
      BY <2>2 DEF StartComm
    <3> QED BY <1>0, <1>a, <3>1 DEF BridgesTyped
  <2>3. CASE StopComm
    <3>1. registered' = None /\ orphaned' = orphaned /\ appliance' = appliance
      BY <2>3 DEF StopComm
    <3> QED BY <1>0, <1>a, <3>1
  <2>4. CASE Detach(Main)
    <3>1. /\ registered' = registered /\ orphaned' = orphaned
          /\ appliance' = [appliance EXCEPT ![mine[Main]] = None]
      BY <2>4 DEF Detach
    <3> QED BY <1>0, <1>a, <2>0, <3>1 DEF InMine, Removing, Notifying, BridgesTyped
  <2>5. CASE \/ Subscribe(Main) \/ Push(Main) \/ Write(Main) \/ Unsubscribe(Main)
             \/ MarkAuth(Main) \/ MarkWaiting \/ Find
    <3>1. registered' = registered /\ orphaned' = orphaned /\ appliance' = appliance
      BY <2>5 DEF Subscribe, Push, Write, Unsubscribe, MarkAuth, MarkWaiting, Find, bridges
    <3> QED BY <1>a, <2>0, <3>1 DEF InMine, Removing, Notifying
  <2> QED BY <1>1, <2>1, <2>2, <2>3, <2>4, <2>5 DEF InBridge, MainNext
<1>2. CASE InBridge(Worker) \/ WorkerNext
  <2>0. registered' = registered
    BY <1>2, WorkerEffects DEF WorkerOnly
  <2>1. CASE Attach(Worker)
    <3>1. /\ object[Worker] = registry /\ registry' = registry /\ registry # None
          /\ mine[Worker] \in BridgeObjects /\ pc[Worker] = "attach"
      BY <1>0, <2>1, ThreeThreads DEF Attach, WorkerOK, coordinator, ThreadsOK, Inside
    <3>2. Detached' /\ mine[Worker] \notin orphaned' /\ orphaned' \subseteq orphaned
      BY <1>0, <1>a, <2>1, <3>1, WorkerAttaches DEF BridgesTyped
    <3>3. registered \notin orphaned'
      BY <1>a, <3>1, <3>2 DEF InMine
    <3> QED BY <2>0, <3>2, <3>3
  <2>2. CASE Hook
    <3>1. /\ registry' = registry /\ appliance' = appliance /\ orphaned' = orphaned
          /\ registry # None
      BY <1>0, <2>2 DEF Hook, bridges, coordinator, WorkerOK
    <3>2. registered # None => InMine(Worker, {"attach"})'
      BY <2>0, <2>2, WorkerHooks DEF InMine, Becomes
    <3> QED BY <1>0, <1>a, <2>0, <3>1, <3>2 DEF InMine, Removing
  <2>3. CASE Discover
    <3>1. /\ appliance' = appliance /\ orphaned' = orphaned /\ pc[Worker] = "idle"
      BY <2>3 DEF Discover, bridges
    <3>2. CASE Remove
      <4>1. registered \notin orphaned
        BY <1>a, <3>1, <3>2 DEF Remove, InMine
      <4> QED BY <1>a, <2>0, <3>1, <4>1
    <3>3. CASE ~Remove
      <4>1. /\ ~Removing' /\ pc'[Worker] \in {"hook", "complete"}
            /\ (registry' = registry \/ pc'[Worker] = "hook")
        BY <2>3, <3>3, WorkerDiscovers DEF Becomes, Removing, Notifying
      <4> QED BY <1>a, <2>0, <3>1, <4>1 DEF InMine
    <3> QED BY <3>2, <3>3
  <2>4. CASE Depaired
    <3>1. /\ appliance' = appliance /\ orphaned' = orphaned /\ pc[Worker] = "idle"
          /\ registry # None
      BY <2>4 DEF Depaired, Remove, bridges
    <3>2. registered \notin orphaned
      BY <1>a, <3>1 DEF InMine
    <3> QED BY <1>a, <2>0, <3>1, <3>2
  <2>5. CASE \/ Subscribe(Worker) \/ Push(Worker) \/ Write(Worker) \/ Merge \/ Notify
             \/ Complete
    <3>1. /\ registry' = registry /\ appliance' = appliance /\ orphaned' = orphaned
          /\ pc[Worker] \in {"subscribe", "push", "write", "idle", "notify", "complete"}
      BY <2>5 DEF Subscribe, Push, Write, Merge, Notify, Complete, bridges, coordinator
    <3>2. /\ pc'[Worker] \notin {"detach", "unsubscribe"}
          /\ Removing' => Removing
      <4>1. CASE Subscribe(Worker)
        BY <1>0, <2>5, <3>1, <4>1, WorkerSubscribes DEF Becomes, Removing, Notifying
      <4>2. CASE Push(Worker)
        BY <1>0, <3>1, <4>2, WorkerPushes DEF Push, Becomes, Removing, Notifying, WorkerOK
      <4>3. CASE Write(Worker)
        BY <1>0, <3>1, <4>3, WorkerWrites DEF Write, Becomes, Removing, Notifying, WorkerOK
      <4>4. CASE Merge \/ Complete
        BY <3>1, <4>4, WorkerIsTold, WorkerCompletes DEF Merge, Becomes, Removing, Notifying
      <4>5. CASE Notify
        BY <3>1, <4>5, WorkerNotifies DEF Notify, Becomes, Removing, Notifying
      <4> QED BY <2>5, <4>1, <4>2, <4>3, <4>4, <4>5
    <3> QED BY <1>a, <2>0, <3>1, <3>2 DEF InMine
  <2>6. CASE Detach(Worker) \/ Unsubscribe(Worker) \/ Unhook
    <3>1. registered \notin orphaned /\ orphaned' = orphaned
      BY <1>0, <1>a, <2>6
         DEF Detach, Unsubscribe, Unhook, WorkerOK, Removing, bridges
    <3>2. appliance' = appliance \/ appliance' = [appliance EXCEPT ![mine[Worker]] = None]
      BY <2>6 DEF Detach, Unsubscribe, Unhook, bridges
    <3> QED BY <1>0, <1>a, <2>0, <3>1, <3>2 DEF BridgesTyped
  <2>7. CASE MarkOrphaned
    <3>1. registry' = registry /\ registry = None /\ appliance' = appliance
      BY <1>0, <2>7 DEF MarkOrphaned, WorkerOK, coordinator
    <3>2. ~Removing' /\ pc'[Worker] \notin {"detach", "unsubscribe"}
      BY <2>7, WorkerFlags DEF Becomes, Removing, Notifying
    <3>3. Detached'
      BY <1>a, <2>7, <3>1, WorkerFlags
    <3> QED BY <3>1, <3>2, <3>3
  <2>8. CASE MarkAuth(Worker)
    BY <1>0, <2>8 DEF MarkAuth, WorkerOK
  <2> QED BY <1>2, <2>1, <2>2, <2>3, <2>4, <2>5, <2>6, <2>7, <2>8 DEF InBridge, WorkerNext
<1>3. CASE InBridge(Supervisor) \/ SupervisorNext
  <2>1. /\ appliance' = appliance /\ registered' = registered /\ orphaned' = orphaned
        /\ mine'[Worker] = mine[Worker] /\ pc'[Worker] = pc[Worker]
        /\ back'[Worker] = back[Worker]
    BY <1>3, SupervisorEffects
  <2>2. registry' = registry \/ (registry' = None /\ pc[Worker] = "idle")
    BY <1>3, SupervisorEffects
  <2> QED BY <1>a, <2>1, <2>2 DEF InMine, Removing, Notifying
<1>4. CASE LoseAuth \/ Pair \/ UNCHANGED vars
  <2>1. /\ registry' = registry /\ appliance' = appliance /\ registered' = registered
        /\ pc' = pc /\ mine' = mine /\ back' = back /\ orphaned' = orphaned
    BY <1>4 DEF LoseAuth, Pair, vars, thread, bridges, coordinator
  <2> QED BY <1>a, <2>1 DEF InMine, Removing, Notifying
<1> QED BY <1>1, <1>2, <1>3, <1>4, ThreeThreads DEF Next

\* Every removal detaches the bridge, and every stop remembers what was left attached.
LEMMA LeftAttachedKept ==
  ASSUME IInv, PlacesOK, WillAttach, LeftAttached, [Next]_vars
  PROVE  LeftAttached'
<1> USE DEF At
<1>0. ThreadsOK /\ BridgesTyped /\ MainOK /\ WorkerOK
  BY DEF IInv, PlacesOK
<1> SUFFICES ASSUME registered' # None, registry' = None, Fresh', appliance'[registered'] # None
             PROVE  \/ appliance'[registered'] = kept'
                    \/ Removing'
                    \/ InMine(Worker, {"detach"})'
  BY DEF LeftAttached
<1>a. ASSUME registered # None, registry = None, Fresh, appliance[registered] # None
      PROVE  \/ appliance[registered] = kept
             \/ Removing
             \/ InMine(Worker, {"detach"})
  BY <1>a DEF LeftAttached
<1>1. CASE InBridge(Main) \/ MainNext
  <2>0. /\ registry' = registry /\ kept' = kept
        /\ (Removing' <=> Removing)
        /\ pc'[Worker] = pc[Worker] /\ mine'[Worker] = mine[Worker]
    BY <1>1, MainEffects DEF MainOnly, Removing, Notifying
  <2>1. ~Attach(Main) /\ ~Detach(Main) /\ ~StartComm
    <3>1. ~Attach(Main)
      <4> SUFFICES ASSUME Attach(Main) PROVE FALSE
        OBVIOUS
      <4>1. pc'[Main] # "find" /\ object[Main] # None
        BY <1>0, MainAttaches DEF Becomes, Attach, MainOK
      <4> QED BY <2>0, <4>1 DEF Attach, Fresh
    <3>2. ~Detach(Main)
      BY <1>0 DEF Detach, MainOK
    <3>3. ~StartComm
      BY <1>0 DEF StartComm, BridgesTyped
    <3> QED BY <3>1, <3>2, <3>3
  <2>2. appliance' = appliance /\ (registered' = registered \/ registered' = None)
    BY <1>1, <2>1
       DEF InBridge, MainNext, Subscribe, Push, Write, Unsubscribe, MarkAuth, MarkWaiting, Find,
           StopComm, bridges
  <2> QED BY <1>a, <2>0, <2>1, <2>2, FreshBefore DEF InMine
<1>2. CASE InBridge(Worker) \/ WorkerNext
  <2>0. /\ registered' = registered /\ (Fresh' <=> Fresh) /\ kept' = kept
        /\ registered \in BridgeObjects
    BY <1>0, <1>2, WorkerEffects DEF WorkerOnly, Fresh, BridgesTyped
  <2>1. CASE Attach(Worker) \/ Subscribe(Worker) \/ Hook \/ Merge
    BY <1>0, <2>1 DEF Attach, Subscribe, Hook, Merge, WorkerOK, coordinator
  <2>2. CASE Detach(Worker)
    <3>1. /\ registry' = registry /\ pc[Worker] = "detach"
          /\ appliance' = [appliance EXCEPT ![mine[Worker]] = None]
      BY <2>2 DEF Detach, coordinator
    <3>2. mine[Worker] # registered /\ appliance'[registered] = appliance[registered]
      BY <1>0, <2>0, <3>1 DEF BridgesTyped
    <3> QED BY <1>a, <2>0, <3>1, <3>2 DEF InMine, Removing, Notifying
  <2>3. CASE Push(Worker) \/ Write(Worker) \/ Notify
    <3>1. registry' = registry /\ appliance' = appliance
          /\ pc[Worker] \in {"push", "write", "notify"}
      BY <2>3 DEF Push, Write, Notify, bridges, coordinator
    <3>2. Removing'
      <4>1. CASE Push(Worker)
        BY <1>0, <3>1, <4>1, WorkerPushes DEF Push, Becomes, Removing, Notifying, WorkerOK
      <4>2. CASE Write(Worker)
        BY <1>0, <3>1, <4>2, WorkerWrites DEF Write, Becomes, Removing, Notifying, WorkerOK
      <4>3. CASE Notify
        BY <3>1, <4>3, WorkerNotifies DEF Becomes, Removing, Notifying
      <4> QED BY <2>3, <4>1, <4>2, <4>3
    <3> QED BY <3>2
  <2>4. CASE Discover \/ Depaired
    <3>1. appliance' = appliance /\ pc[Worker] = "idle"
      BY <2>4 DEF Discover, Depaired, bridges
    <3>2. CASE Remove
      <4>1. pc'[Worker] = "notify"
        BY <1>0, <3>1, <3>2, ThreeThreads, Coming DEF Remove, Change, Becomes
      <4> QED BY <4>1 DEF Removing, Notifying
    <3>3. CASE ~Remove
      <4>1. registry' = registry
        BY <1>0, <2>4, <3>3, WorkerDiscovers, ThreeThreads DEF Depaired
      <4> QED BY <1>a, <2>0, <3>1, <4>1 DEF InMine, Removing, Notifying
    <3> QED BY <3>2, <3>3
  <2>5. CASE Unhook
    BY <2>0, <2>5, WorkerUnhooks DEF InMine, Becomes
  <2>6. CASE Unsubscribe(Worker) \/ Complete \/ MarkOrphaned
    <3>1. registry' = registry /\ appliance' = appliance
          /\ pc[Worker] \in {"unsubscribe", "complete", "orphan", "flag", "latch"}
      BY <2>6 DEF Unsubscribe, Complete, MarkOrphaned, bridges, coordinator
    <3> QED BY <1>a, <2>0, <3>1 DEF InMine, Removing, Notifying
  <2>7. CASE MarkAuth(Worker)
    BY <1>0, <2>7 DEF MarkAuth, WorkerOK
  <2> QED BY <1>2, <2>1, <2>2, <2>3, <2>4, <2>5, <2>6, <2>7 DEF InBridge, WorkerNext
<1>3. CASE InBridge(Supervisor) \/ SupervisorNext
  <2>1. /\ appliance' = appliance /\ registered' = registered /\ (Fresh' <=> Fresh)
        /\ mine'[Worker] = mine[Worker] /\ pc'[Worker] = pc[Worker]
        /\ back'[Worker] = back[Worker]
    BY <1>3, SupervisorEffects DEF Fresh
  <2>2. CASE StopCoordinator
    <3>1. /\ pc[Worker] = "idle" /\ kept' = IF registry = None THEN kept ELSE registry
      BY <2>2 DEF StopCoordinator
    <3>2. CASE registry = None
      BY <1>a, <2>1, <3>1, <3>2 DEF InMine, Removing, Notifying
    <3>3. CASE registry # None
      BY <2>1, <3>1, <3>3 DEF WillAttach, InMine
    <3> QED BY <3>2, <3>3
  <2>3. CASE ~StopCoordinator
    <3>1. registry' = registry /\ kept' = kept
      BY <1>3, <2>3, SupervisorEffects
    <3> QED BY <1>a, <2>1, <3>1 DEF InMine, Removing, Notifying
  <2> QED BY <2>2, <2>3
<1>4. CASE LoseAuth \/ Pair \/ UNCHANGED vars
  <2>1. /\ registry' = registry /\ appliance' = appliance /\ registered' = registered
        /\ pc' = pc /\ mine' = mine /\ back' = back /\ kept' = kept
    BY <1>4 DEF LoseAuth, Pair, vars, thread, bridges, coordinator, past
  <2>2. Fresh
    BY <1>4, FreshBefore DEF LoseAuth, Pair, StartComm, vars, thread, Fresh
  <2> QED BY <1>a, <2>1, <2>2 DEF InMine, Removing, Notifying
<1> QED BY <1>1, <1>2, <1>3, <1>4, ThreeThreads DEF Next

\* A device's bridge follows the registry.
AttachmentOK == SubscribesAttached /\ PushesCurrent /\ WillAttach /\ OrphansOK /\ LeftAttached

\* The device is attached to the appliance of the registry or will be; once that is
\* gone it is detached or will be, but for what a coordinator left when it stopped.
THEOREM FollowsRegistry == Spec => []AttachmentOK
<1>1. Init => AttachmentOK
  <2> SUFFICES ASSUME Init PROVE AttachmentOK
    OBVIOUS
  <2>1. pc[Main] = "idle" /\ registered = None /\ registry = None /\ orphaned = {}
    BY ThreeThreads DEF Init
  <2> QED BY <2>1
          DEF At, AttachmentOK, SubscribesAttached, PushesCurrent, WillAttach, OrphansOK,
              LeftAttached
<1>2. AttachmentOK /\ IInv /\ PlacesOK /\ [Next]_vars => AttachmentOK'
  BY SubscribesAttachedKept, PushesCurrentKept, WillAttachKept, OrphansKept, LeftAttachedKept
     DEF AttachmentOK
<1> QED BY <1>1, <1>2, Invariance, InPlace, PTL DEF Spec

----------------------------------------------------------------------------
(* It shows its present state.                                             *)

\* The device's bridge is attached to the registry's object.
Attached == registered # None /\ registry # None /\ Fresh /\ appliance[registered] = registry

\* Who is to subscribe the device.
WillSubscribe ==
    Attached =>
        \/ registered \in observers[registry]
        \/ At(Main, "subscribe") /\ object[Main] = registry
        \/ InMine(Worker, {"subscribe"})

\* The device shows the present state of that object.
UpToDate == shown = [by |-> "push", object |-> registry, current |-> TRUE]

\* Who is to write its present state.
WillShow ==
    Attached =>
        \/ UpToDate
        \/ pc[Main] \in {"subscribe", "push"}
        \/ At(Main, "write") /\ Main \notin outdated
        \/ InMine(Worker, {"subscribe", "push", "write"})
        \/ registered \in calls

\* A snapshot that is outdated is followed by another.
WillShowAgain ==
    Attached /\ At(Main, "write") /\ Main \in outdated =>
        registered \in calls \/ InMine(Worker, {"push"})

\* Only the main thread registers bridges.
LEMMA Registrations ==
  ASSUME IInv, PlacesOK, [Next]_vars
  PROVE  registered' = registered \/ StartComm \/ StopComm
<1>1. \A t \in Threads : InBridge(t) => registered' = registered
  BY DEF InBridge, Attach, Subscribe, Push, Write, Detach, Unsubscribe, MarkAuth, bridges
<1>2. WorkerNext \/ SupervisorNext => registered' = registered
  BY WorkerEffects, SupervisorEffects DEF WorkerOnly
<1>3. Find \/ MarkWaiting \/ LoseAuth \/ Pair \/ UNCHANGED vars => registered' = registered
  BY DEF Find, MarkWaiting, LoseAuth, Pair, vars, bridges
<1> QED BY <1>1, <1>2, <1>3 DEF Next, MainNext

\* A device becomes attached only by an attachment.
LEMMA AttachedBefore ==
  ASSUME IInv, PlacesOK, AttachmentOK, [Next]_vars, Attached'
  PROVE  \/ Attach(Main) \/ Attach(Worker)
         \/ /\ Attached /\ registered' = registered /\ registry' = registry
            /\ appliance'[registered] = appliance[registered]
<1> USE DEF At, Attached
<1>0. ThreadsOK /\ BridgesTyped /\ MainOK /\ WorkerOK
  BY DEF IInv, PlacesOK
<1>1. CASE StartComm
  <2>1. registry' = registry /\ appliance'[registered'] = None
    BY <1>0, <1>1, MainStarts DEF StartComm, BridgesTyped
  <2> QED BY <2>1
<1>2. CASE StopComm
  BY <1>2 DEF StopComm
<1>3. CASE Detach(Main) \/ Detach(Worker) \/ Attach(Supervisor) \/ Detach(Supervisor)
  BY <1>0, <1>3 DEF Detach, Attach, MainOK, WorkerOK, PlacesOK, SupervisorOK, coordinator
<1>4. CASE /\ appliance' = appliance /\ registered' = registered /\ ~StartComm
  <2>1. registry' = registry
    <3>1. registered \in BridgeObjects
      BY <1>0, <1>4 DEF BridgesTyped
    <3> QED BY <1>4, <3>1, Registering DEF UnusedObject
  <2> QED BY <1>4, <2>1, FreshBefore
<1> QED BY <1>1, <1>2, <1>3, <1>4, Registrations, Attachments

\* A thread is moved by nobody else.
LEMMA MainStays ==
  ASSUME IInv, PlacesOK, [Next]_vars, ~InBridge(Main), ~MainNext
  PROVE  pc'[Main] = pc[Main] /\ mine'[Main] = mine[Main] /\ object'[Main] = object[Main]
<1>1. LoseAuth \/ Pair \/ UNCHANGED vars => pc' = pc /\ mine' = mine /\ object' = object
  BY DEF LoseAuth, Pair, vars, thread
<1> QED BY <1>1, WorkerEffects, SupervisorEffects, ThreeThreads DEF Next, WorkerOnly

\* A step of another thread leaves the worker where it is.
LEMMA WorkerStays ==
  ASSUME IInv, PlacesOK, [Next]_vars, ~InBridge(Worker), ~WorkerNext
  PROVE  /\ pc'[Worker] = pc[Worker] /\ mine'[Worker] = mine[Worker]
         /\ object'[Worker] = object[Worker]
<1>1. LoseAuth \/ Pair \/ UNCHANGED vars => pc' = pc /\ mine' = mine /\ object' = object
  BY DEF LoseAuth, Pair, vars, thread
<1> QED BY <1>1, MainEffects, SupervisorEffects, ThreeThreads DEF Next, MainOnly

\* While an appliance is registered, the supervisor does nothing to the devices.
LEMMA NoSupervisor ==
  ASSUME IInv, PlacesOK, InBridge(Supervisor) \/ SupervisorNext, registry' # None
  PROVE  FALSE
BY SupervisorEffects DEF PlacesOK, SupervisorOK, StartCoordinator

\* An observer of the registry's object stays one while the bridge is attached to it.
LEMMA WillSubscribeKept ==
  ASSUME IInv, PlacesOK, AttachmentOK, WillSubscribe, [Next]_vars
  PROVE  WillSubscribe'
<1> USE DEF At
<1>0. ThreadsOK /\ BridgesTyped /\ MainOK /\ WorkerOK
  BY DEF IInv, PlacesOK
<1> SUFFICES ASSUME Attached'
             PROVE  \/ registered' \in observers'[registry']
                    \/ pc'[Main] = "subscribe" /\ object'[Main] = registry'
                    \/ InMine(Worker, {"subscribe"})'
  BY DEF WillSubscribe
<1>a. ASSUME Attached
      PROVE  \/ registered \in observers[registry]
             \/ pc[Main] = "subscribe" /\ object[Main] = registry
             \/ InMine(Worker, {"subscribe"})
  BY <1>a DEF WillSubscribe
<1>1. CASE Attach(Main)
  <2>1. /\ mine[Main] = registered /\ registered' = registered /\ observers' = observers
        /\ registry' = registry /\ pc[Main] = "attach" /\ ~late
    BY <1>0, <1>1 DEF Attach, MainOK, coordinator
  <2>2. object[Main] = registry
    BY <1>1, MainAttaches DEF Attached, Fresh, Attach, Becomes
  <2>3. CASE pc'[Main] = "subscribe"
    BY <1>1, <2>1, <2>2, <2>3, MainAttaches DEF Becomes
  <2>4. CASE pc'[Main] # "subscribe"
    <3>1. Attached
      BY <1>1, <2>1, <2>2, <2>4, MainAttaches DEF Attached, Fresh, Becomes
    <3>2. pc'[Worker] = pc[Worker] /\ mine'[Worker] = mine[Worker]
      BY <1>1, MainEffects DEF MainOnly, InBridge
    <3> QED BY <1>a, <2>1, <3>1, <3>2 DEF InMine
  <2> QED BY <2>3, <2>4
<1>2. CASE Attach(Worker)
  <2>1. /\ object[Worker] = registry /\ registered' = registered /\ observers' = observers
        /\ registry' = registry /\ pc[Worker] = "attach" /\ registered \in BridgeObjects
    BY <1>0, <1>2 DEF Attach, WorkerOK, coordinator, Attached, BridgesTyped
  <2>2. /\ pc'[Main] = pc[Main] /\ object'[Main] = object[Main] /\ (Fresh' <=> Fresh)
    BY <1>2, WorkerEffects DEF WorkerOnly, InBridge, Fresh
  <2>3. CASE mine[Worker] = registered /\ pc'[Worker] = "subscribe"
    BY <1>2, <2>1, <2>3, WorkerAttaches DEF Becomes, InMine
  <2>4. CASE ~(mine[Worker] = registered /\ pc'[Worker] = "subscribe")
    <3>1. Attached
      <4>1. appliance'[registered] = appliance[registered]
        BY <1>0, <1>2, <2>1, <2>4, WorkerAttaches DEF BridgesTyped, Becomes
      <4> QED BY <2>1, <2>2, <4>1 DEF Attached
    <3> QED BY <1>a, <2>1, <2>2, <3>1 DEF InMine
  <2> QED BY <2>3, <2>4
<1>3. CASE ~Attach(Main) /\ ~Attach(Worker)
  <2>0. /\ Attached /\ registered' = registered /\ registry' = registry
        /\ registered \in BridgeObjects /\ registry \in Objects
    BY <1>0, <1>3, AttachedBefore DEF Attached, BridgesTyped
  <2>1. CASE Subscribe(Main) \/ Subscribe(Worker)
    <3>1. PICK t \in {Main, Worker} : Subscribe(t)
      BY <2>1
    <3>2. CASE mine[t] = registered /\ object[t] = registry
      BY <1>0, <2>0, <3>1, <3>2 DEF Subscribe, BridgesTyped
    <3>3. CASE ~(mine[t] = registered /\ object[t] = registry)
      <4>1. /\ registered \in observers[registry] => registered \in observers'[registry]
        BY <1>0, <2>0, <3>1 DEF Subscribe, BridgesTyped
      <4>2. CASE t = Main
        <5>1. pc'[Worker] = pc[Worker] /\ mine'[Worker] = mine[Worker] /\ mine[Main] = registered
          BY <1>0, <3>1, <4>2, MainEffects DEF MainOnly, InBridge, Subscribe, MainOK
        <5> QED BY <1>a, <2>0, <3>3, <4>1, <4>2, <5>1 DEF InMine
      <4>3. CASE t = Worker
        <5>1. pc'[Main] = pc[Main] /\ object'[Main] = object[Main] /\ object[Worker] = registry
          BY <1>0, <3>1, <4>3, WorkerEffects DEF WorkerOnly, InBridge, Subscribe, WorkerOK
        <5> QED BY <1>a, <2>0, <3>3, <4>1, <4>3, <5>1 DEF InMine
      <4> QED BY <4>2, <4>3
    <3> QED BY <3>2, <3>3
  <2>2. CASE ~Subscribe(Main) /\ ~Subscribe(Worker)
    <3>1. observers' = observers
      <4>1. CASE Discover
        BY <2>0, <4>1, WorkerDiscovers DEF Remove, Attached
      <4>2. CASE Depaired
        BY <2>0, <4>2 DEF Depaired, Remove, Attached
      <4>3. CASE Unsubscribe(Main) \/ Unsubscribe(Worker) \/ StartComm
        BY <1>0, <2>0, <4>3 DEF Unsubscribe, StartComm, MainOK, WorkerOK, Attached
      <4>4. CASE InBridge(Supervisor) \/ SupervisorNext
        BY <4>4, SupervisorEffects
      <4>5. CASE \E t \in {Main, Worker} :
                     Attach(t) \/ Push(t) \/ Write(t) \/ Detach(t) \/ MarkAuth(t)
        BY <4>5 DEF Attach, Push, Write, Detach, MarkAuth, coordinator
      <4>6. CASE \/ Find \/ MarkWaiting \/ StopComm \/ Merge \/ Notify \/ Hook \/ Unhook
                 \/ Complete \/ MarkOrphaned \/ LoseAuth \/ Pair \/ UNCHANGED vars
        BY <4>6
           DEF Find, MarkWaiting, StopComm, Merge, Notify, Hook, Unhook, Complete, MarkOrphaned,
               LoseAuth, Pair, vars, coordinator
      <4> QED BY <2>2, <4>1, <4>2, <4>3, <4>4, <4>5, <4>6, ThreeThreads
              DEF Next, InBridge, MainNext, WorkerNext
    <3>2. pc[Main] = "subscribe" => pc'[Main] = pc[Main] /\ object'[Main] = object[Main]
      <4>1. pc[Main] = "subscribe" => ~InBridge(Main) /\ ~MainNext
        BY <2>2 DEF InBridge, MainNext, Attach, Push, Write, Detach, Unsubscribe, MarkAuth,
                    StartComm, Find, MarkWaiting, StopComm
      <4> QED BY <4>1, MainStays
    <3>3. pc[Worker] = "subscribe" => pc'[Worker] = pc[Worker] /\ mine'[Worker] = mine[Worker]
      <4>1. pc[Worker] = "subscribe" => ~InBridge(Worker) /\ ~WorkerNext
        BY <2>2 DEF InBridge, WorkerNext, Attach, Push, Write, Detach, Unsubscribe, MarkAuth,
                    Merge, Notify, Discover, Hook, Depaired, Unhook, Complete, MarkOrphaned
      <4> QED BY <4>1, WorkerStays
    <3> QED BY <1>a, <2>0, <3>1, <3>2, <3>3 DEF InMine
  <2> QED BY <2>1, <2>2
<1> QED BY <1>1, <1>2, <1>3

\* Every change calls the observers, and every attachment pushes.
LEMMA WillShowKept ==
  ASSUME IInv, PlacesOK, AttachmentOK, WillSubscribe, WillShow, WillShowAgain, [Next]_vars
  PROVE  WillShow'
<1> USE DEF At
<1>0. ThreadsOK /\ BridgesTyped /\ MainOK /\ WorkerOK
  BY DEF IInv, PlacesOK
<1> SUFFICES ASSUME Attached'
             PROVE  \/ UpToDate'
                    \/ pc'[Main] \in {"subscribe", "push"}
                    \/ pc'[Main] = "write" /\ Main \notin outdated'
                    \/ InMine(Worker, {"subscribe", "push", "write"})'
                    \/ registered' \in calls'
  BY DEF WillShow
<1>a. ASSUME Attached
      PROVE  \/ UpToDate
             \/ pc[Main] \in {"subscribe", "push"}
             \/ pc[Main] = "write" /\ Main \notin outdated
             \/ InMine(Worker, {"subscribe", "push", "write"})
             \/ registered \in calls
  BY <1>a DEF WillShow
<1>1. CASE Attach(Main)
  <2>1. /\ registered' = registered /\ calls' = calls /\ shown' = shown
        /\ registry' = registry /\ pc[Main] = "attach" /\ ~late
    BY <1>0, <1>1 DEF Attach, MainOK, coordinator
  <2>2. mine[Main] = registered /\ object[Main] = registry
    BY <1>0, <1>1, MainAttaches DEF Attached, Fresh, Attach, Becomes, MainOK
  <2>3. CASE pc'[Main] # "subscribe"
    <3>1. Attached
      BY <1>1, <2>1, <2>2, <2>3, MainAttaches DEF Attached, Fresh, Becomes
    <3>2. pc'[Worker] = pc[Worker] /\ mine'[Worker] = mine[Worker]
      BY <1>1, MainEffects DEF MainOnly, InBridge
    <3> QED BY <1>a, <2>1, <3>1, <3>2 DEF InMine, UpToDate
  <2> QED BY <2>3
<1>2. CASE Attach(Worker)
  <2>1. /\ registered' = registered /\ calls' = calls /\ shown' = shown
        /\ registry' = registry /\ pc[Worker] = "attach" /\ registered \in BridgeObjects
    BY <1>0, <1>2 DEF Attach, coordinator, Attached, BridgesTyped
  <2>2. /\ pc'[Main] = pc[Main] /\ (Fresh' <=> Fresh) /\ outdated' \subseteq outdated
    BY <1>2, WorkerEffects, WorkerHere, Going, Leaving DEF WorkerOnly, InBridge, Fresh, Attach
  <2>3. CASE mine[Worker] = registered /\ pc'[Worker] = "subscribe"
    BY <1>2, <2>1, <2>3, WorkerAttaches DEF Becomes, InMine
  <2>4. CASE ~(mine[Worker] = registered /\ pc'[Worker] = "subscribe")
    <3>1. Attached
      <4>1. appliance'[registered] = appliance[registered]
        BY <1>0, <1>2, <2>1, <2>4, WorkerAttaches DEF BridgesTyped, Becomes
      <4> QED BY <2>1, <2>2, <4>1 DEF Attached
    <3> QED BY <1>a, <2>1, <2>2, <3>1 DEF InMine, UpToDate
  <2> QED BY <2>3, <2>4
<1>3. CASE ~Attach(Main) /\ ~Attach(Worker)
  <2>0. /\ Attached /\ registered' = registered /\ registry' = registry
        /\ registered \in BridgeObjects /\ registry \in Objects /\ registered # None
        /\ appliance[registered] = registry
    BY <1>0, <1>3, AttachedBefore DEF Attached, BridgesTyped
  <2>1. CASE InBridge(Main) \/ MainNext
    <3>0. /\ pc'[Worker] = pc[Worker] /\ mine'[Worker] = mine[Worker]
      BY <2>1, MainEffects DEF MainOnly
    <3>1. CASE Subscribe(Main)
      BY <3>1, MainSubscribes DEF Becomes
    <3>2. CASE Push(Main)
      <4>1. mine[Main] = registered
        BY <1>0, <3>2 DEF Push, MainOK
      <4> QED BY <2>0, <3>2, <4>1, MainPushes, ThreeThreads DEF Becomes
    <3>3. CASE Write(Main)
      <4>1. /\ pc[Main] = "write" /\ calls' = calls /\ mine[Main] = registered
            /\ object[Main] = registry
            /\ shown' = [by |-> "push", object |-> object[Main], current |-> Main \notin outdated]
        BY <1>0, <2>0, <3>3, ThreeThreads DEF Write, IInv, WritersOK, MainOK
      <4>2. CASE Main \in outdated
        BY <2>0, <3>0, <4>1, <4>2 DEF WillShowAgain, InMine
      <4>3. CASE Main \notin outdated
        BY <2>0, <4>1, <4>3 DEF UpToDate
      <4> QED BY <4>2, <4>3
    <3>4. CASE MarkAuth(Main) \/ MarkWaiting
      BY <2>0, <3>4, MainReturns DEF MarkAuth, MarkWaiting, Attached, Fresh, Becomes
    <3>5. CASE Find
      <4>1. pc[Main] = "find" /\ calls' = calls /\ shown' = shown
        BY <3>5 DEF Find
      <4> QED BY <1>a, <2>0, <3>0, <4>1 DEF InMine, UpToDate
    <3>6. CASE Detach(Main) \/ Unsubscribe(Main) \/ StartComm \/ StopComm
      BY <1>0, <2>0, <3>6 DEF Detach, Unsubscribe, StartComm, StopComm, MainOK
    <3> QED BY <1>3, <2>1, <3>1, <3>2, <3>3, <3>4, <3>5, <3>6 DEF InBridge, MainNext
  <2>2. CASE InBridge(Worker) \/ WorkerNext
    <3>0. pc'[Main] = pc[Main]
      BY <2>2, WorkerEffects DEF WorkerOnly
    <3>1. CASE Subscribe(Worker)
      <4>1. /\ pc[Worker] = "subscribe" /\ calls' = calls /\ shown' = shown
            /\ outdated' = outdated
        BY <1>0, <3>1, WorkerHere, Going DEF Subscribe
      <4> QED BY <1>a, <2>0, <3>0, <3>1, <4>1, WorkerSubscribes DEF InMine, UpToDate, Becomes
    <3>2. CASE Push(Worker)
      <4>1. /\ pc[Worker] = "push" /\ calls' = calls /\ shown' = shown
            /\ outdated' \subseteq outdated
        BY <1>0, <3>2, WorkerHere, Coming, Leaving DEF Push
      <4>2. CASE mine[Worker] = registered
        BY <2>0, <3>2, <4>2, WorkerPushes, ThreeThreads DEF InMine, Becomes
      <4>3. CASE mine[Worker] # registered
        BY <1>a, <2>0, <3>0, <4>1, <4>3 DEF InMine, UpToDate
      <4> QED BY <4>2, <4>3
    <3>3. CASE Write(Worker)
      <4>1. /\ pc[Worker] = "write" /\ mine[Worker] \in BridgeObjects
            /\ object[Worker] # None /\ appliance[mine[Worker]] = object[Worker]
            /\ Worker \notin outdated
            /\ shown' = [by |-> "push", object |-> object[Worker], current |-> Worker \notin outdated]
        BY <1>0, <3>3, ThreeThreads
           DEF Write, IInv, WritersOK, WorkerOK, ThreadsOK, Inside
      <4>2. pc[Main] # "detach" /\ registry # None /\ Fresh
        BY <1>0, <2>0 DEF MainOK, Attached
      <4>3. object[Worker] = registry
        BY <4>1, <4>2 DEF AttachmentOK, PushesCurrent, InHand
      <4> QED BY <2>0, <4>1, <4>3 DEF UpToDate
    <3>4. CASE Merge
      <4>1. pc[Worker] = "idle" /\ calls' = observers[registry]
        BY <3>4 DEF Merge, Change
      <4> QED BY <2>0, <3>0, <4>1 DEF WillSubscribe, InMine
    <3>5. CASE Notify
      <4>1. pc[Worker] = "notify" /\ shown' = shown /\ outdated' \subseteq outdated
        BY <1>0, <3>5, WorkerHere, Going, Coming DEF Notify
      <4> QED BY <1>a, <2>0, <3>0, <3>5, <4>1, WorkerNotifies DEF InMine, UpToDate, Becomes
    <3>6. CASE Discover
      <4>1. pc[Worker] = "idle"
        BY <3>6 DEF Discover
      <4>2. calls' = calls /\ shown' = shown /\ outdated' = outdated
        BY <2>0, <3>6, WorkerDiscovers, ThreeThreads DEF Remove
      <4> QED BY <1>a, <2>0, <3>0, <4>1, <4>2 DEF InMine, UpToDate
    <3>7. CASE Hook \/ Complete
      <4>1. /\ pc[Worker] \in {"hook", "complete"} /\ calls' = calls /\ shown' = shown
            /\ outdated' \subseteq outdated
        BY <1>0, <3>7, WorkerHere, Going, Coming DEF Hook, Complete
      <4> QED BY <1>a, <2>0, <3>0, <4>1 DEF InMine, UpToDate
    <3>8. CASE Detach(Worker) \/ Unsubscribe(Worker) \/ Unhook \/ MarkOrphaned \/ Depaired
      BY <1>0, <2>0, <3>8, ThreeThreads
         DEF Detach, Unsubscribe, Unhook, MarkOrphaned, Depaired, Remove, WorkerOK
    <3>9. CASE MarkAuth(Worker)
      BY <1>0, <3>9 DEF MarkAuth, WorkerOK
    <3> QED BY <1>3, <2>2, <3>1, <3>2, <3>3, <3>4, <3>5, <3>6, <3>7, <3>8, <3>9
            DEF InBridge, WorkerNext
  <2>3. CASE InBridge(Supervisor) \/ SupervisorNext
    BY <2>3, NoSupervisor DEF Attached
  <2>4. CASE LoseAuth \/ Pair \/ UNCHANGED vars
    <3>1. /\ pc' = pc /\ mine' = mine /\ outdated' = outdated /\ calls' = calls
          /\ shown' = shown
      BY <2>4 DEF LoseAuth, Pair, vars, thread
    <3> QED BY <1>a, <2>0, <3>1 DEF InMine, UpToDate
  <2> QED BY <2>1, <2>2, <2>3, <2>4, ThreeThreads DEF Next
<1> QED BY <1>1, <1>2, <1>3

\* A change while the main thread writes is notified to the same bridge.
LEMMA WillShowAgainKept ==
  ASSUME IInv, PlacesOK, AttachmentOK, WillSubscribe, WillShowAgain, [Next]_vars
  PROVE  WillShowAgain'
<1> USE DEF At
<1>0. ThreadsOK /\ BridgesTyped /\ MainOK /\ WorkerOK /\ LockOK
  BY DEF IInv, PlacesOK
<1> SUFFICES ASSUME Attached', pc'[Main] = "write", Main \in outdated'
             PROVE  registered' \in calls' \/ InMine(Worker, {"push"})'
  BY DEF WillShowAgain
<1>a. ASSUME Attached, pc[Main] = "write", Main \in outdated
      PROVE  registered \in calls \/ InMine(Worker, {"push"})
  BY <1>a DEF WillShowAgain
<1>1. ~InBridge(Main) /\ ~MainNext
  <2> SUFFICES ASSUME InBridge(Main) \/ MainNext PROVE FALSE
    OBVIOUS
  <2>1. Push(Main)
    BY MainAttaches, MainSubscribes, MainReturns, MainDetaches, MainStarts, MainStops, MainFinds
       DEF InBridge, MainNext, Becomes
  <2> QED BY <2>1, MainPushes DEF Becomes
<1>2. pc[Main] = "write" /\ mine[Main] = registered /\ ~Attach(Main)
  BY <1>0, <1>1, MainStays DEF MainOK, InBridge
<1>3. CASE Attach(Worker)
  <2>1. /\ registered' = registered /\ calls' = calls /\ registry' = registry
        /\ pc[Worker] = "attach" /\ Free(mine[Worker]) /\ registered \in BridgeObjects
    BY <1>0, <1>3 DEF Attach, coordinator, Attached, BridgesTyped
  <2>2. mine[Worker] # registered
    BY <1>0, <1>2, <2>1, FreeLock, ThreeThreads DEF LockOK
  <2>3. (Fresh' <=> Fresh) /\ outdated' \subseteq outdated
    BY <1>3, WorkerEffects, WorkerHere, Going, Leaving DEF WorkerOnly, InBridge, Fresh, Attach
  <2>4. Attached
    <3>1. appliance'[registered] = appliance[registered]
      BY <1>0, <1>3, <2>1, <2>2, WorkerAttaches DEF BridgesTyped
    <3> QED BY <2>1, <2>3, <3>1 DEF Attached
  <2> QED BY <1>a, <1>2, <2>1, <2>3, <2>4 DEF InMine
<1>4. CASE ~Attach(Worker)
  <2>0. /\ Attached /\ registered' = registered /\ registry' = registry
        /\ registered \in BridgeObjects /\ registry \in Objects
    BY <1>0, <1>2, <1>4, AttachedBefore DEF Attached, BridgesTyped
  <2>1. CASE InBridge(Worker) \/ WorkerNext
    <3>1. CASE Push(Worker)
      <4>1. /\ pc[Worker] = "push" /\ calls' = calls /\ Free(mine[Worker])
            /\ outdated' \subseteq outdated
        BY <1>0, <3>1, WorkerHere, Coming, Leaving DEF Push
      <4>2. mine[Worker] # registered
        BY <1>0, <1>2, <2>0, <4>1, FreeLock, ThreeThreads DEF LockOK
      <4> QED BY <1>a, <1>2, <2>0, <4>1, <4>2 DEF InMine
    <3>2. CASE Merge
      <4>1. pc[Worker] = "idle" /\ calls' = observers[registry]
        BY <3>2 DEF Merge, Change
      <4> QED BY <1>2, <2>0, <4>1 DEF WillSubscribe, InMine
    <3>3. CASE Notify
      <4>1. pc[Worker] = "notify" /\ outdated' \subseteq outdated
        BY <1>0, <3>3, WorkerHere, Going, Coming DEF Notify
      <4> QED BY <1>a, <1>2, <2>0, <3>3, <4>1, WorkerNotifies DEF InMine, Becomes
    <3>4. CASE Discover
      <4>1. pc[Worker] = "idle"
        BY <3>4 DEF Discover
      <4>2. calls' = calls /\ outdated' = outdated
        BY <2>0, <3>4, WorkerDiscovers, ThreeThreads DEF Remove
      <4> QED BY <1>a, <1>2, <2>0, <4>1, <4>2 DEF InMine
    <3>5. CASE Subscribe(Worker) \/ Write(Worker) \/ Hook \/ Complete
      <4>1. /\ pc[Worker] # "push" /\ calls' = calls /\ outdated' \subseteq outdated
        BY <1>0, <3>5, WorkerHere, Going, Coming, Leaving DEF Subscribe, Write, Hook, Complete
      <4> QED BY <1>a, <1>2, <2>0, <4>1 DEF InMine
    <3>6. CASE Detach(Worker) \/ Unsubscribe(Worker) \/ Unhook \/ MarkOrphaned \/ Depaired
      BY <1>0, <2>0, <3>6, ThreeThreads
         DEF Detach, Unsubscribe, Unhook, MarkOrphaned, Depaired, Remove, WorkerOK
    <3>7. CASE MarkAuth(Worker)
      BY <1>0, <3>7 DEF MarkAuth, WorkerOK
    <3> QED BY <1>4, <2>1, <3>1, <3>2, <3>3, <3>4, <3>5, <3>6, <3>7 DEF InBridge, WorkerNext
  <2>2. CASE InBridge(Supervisor) \/ SupervisorNext
    BY <2>2, NoSupervisor DEF Attached
  <2>3. CASE LoseAuth \/ Pair \/ UNCHANGED vars
    <3>1. pc' = pc /\ mine' = mine /\ outdated' = outdated /\ calls' = calls
      BY <2>3 DEF LoseAuth, Pair, vars, thread
    <3> QED BY <1>a, <1>2, <2>0, <3>1 DEF InMine
  <2> QED BY <1>1, <2>1, <2>2, <2>3, ThreeThreads DEF Next
<1> QED BY <1>3, <1>4

\* However the start of a device, the discovery and updates of its appliance, and
\* the removal of an earlier one interleave, once all is done the device is attached
\* to the registry's object and shows its present state.
THEOREM AttachmentShown == Spec => []AttachedShown
<1> DEFINE ShowsOK == WillSubscribe /\ WillShow /\ WillShowAgain
<1>1. Init => ShowsOK
  BY DEF Init, WillSubscribe, WillShow, WillShowAgain, Attached
<1>2. ShowsOK /\ AttachmentOK /\ IInv /\ PlacesOK /\ [Next]_vars => ShowsOK'
  BY WillSubscribeKept, WillShowKept, WillShowAgainKept
<1>3. ShowsOK /\ AttachmentOK /\ IInv /\ PlacesOK => AttachedShown
  <2> SUFFICES ASSUME ShowsOK, AttachmentOK, PlacesOK, Settled, registry # None
               PROVE  appliance[registered] = registry /\ UpToDate
    BY DEF AttachedShown, UpToDate
  <2>1. /\ pc[Main] = "idle" /\ pc[Worker] = "idle" /\ calls = {}
        /\ registered # None /\ Fresh
    BY ThreeThreads DEF Settled, At, PlacesOK, WorkerOK, Notifying, Fresh
  <2>2. appliance[registered] = registry
    BY <2>1 DEF AttachmentOK, WillAttach, InMine, At
  <2> QED BY <2>1, <2>2 DEF WillShow, Attached, InMine, At
<1> QED BY <1>1, <1>2, <1>3, Invariance, InPlace, FollowsRegistry, PTL DEF Spec

----------------------------------------------------------------------------
(* It says that authorization is lost.                                     *)

\* The supervisor marks the device, or is about to list it.
WillMarkAuth == At(Supervisor, "list") \/ InMine(Supervisor, {"mark auth"})

\* Authorization is lost, and the coordinator is gone for that.
Lost == authLost /\ ~running

\* Who is to mark the device, and that no snapshot is written over the mark.
AuthOK ==
    registered # None /\ Lost /\ Fresh =>
        /\ \/ shown.by = "auth" \/ WillMarkAuth
           \/ pc[Main] \in {"find", "mark auth"}
        /\ At(Main, "write") => WillMarkAuth

\* A start that comes too late for the list marks its own device.
LEMMA AuthKept ==
  ASSUME IInv, PlacesOK, AuthOK, [Next]_vars
  PROVE  AuthOK'
<1> USE DEF At
<1>0. ThreadsOK /\ BridgesTyped /\ MainOK /\ WorkerOK /\ SupervisorOK /\ LockOK
  BY DEF IInv, PlacesOK
<1> SUFFICES ASSUME registered' # None, Lost', Fresh'
             PROVE  /\ \/ (shown.by)' = "auth" \/ WillMarkAuth'
                       \/ pc'[Main] \in {"find", "mark auth"}
                    /\ pc'[Main] = "write" => WillMarkAuth'
  BY DEF AuthOK
<1>a. ASSUME registered # None, Lost, Fresh
      PROVE  /\ \/ shown.by = "auth" \/ WillMarkAuth
                \/ pc[Main] \in {"find", "mark auth"}
             /\ pc[Main] = "write" => WillMarkAuth
  BY <1>a DEF AuthOK
<1>1. CASE InBridge(Main) \/ MainNext
  <2>0. /\ Lost /\ registry = None /\ registry' = None
        /\ pc'[Supervisor] = pc[Supervisor] /\ mine'[Supervisor] = mine[Supervisor]
    <3>1. MainOnly
      BY <1>1, MainEffects
    <3>2. Lost
      BY <3>1 DEF MainOnly, Lost
    <3> QED BY <1>0, <3>1, <3>2 DEF MainOnly, SupervisorOK, Lost
  <2>1. CASE StartComm
    BY <2>1, MainStarts DEF Becomes
  <2>2. CASE Find
    BY <2>0, <2>2, MainFinds DEF Becomes, Lost
  <2>3. CASE MarkAuth(Main)
    BY <2>3, MainReturns DEF MarkAuth, Show, Becomes
  <2>4. CASE MarkWaiting
    <3>1. pc[Main] = "mark waiting" /\ late
      BY <1>0, <2>0, <2>4 DEF MarkWaiting, MainOK, Lost
    <3> QED BY <2>4, <3>1, MainReturns DEF MarkWaiting, Fresh, Becomes
  <2>5. CASE Attach(Main)
    BY <1>0, <2>0, <2>5, MainAttaches DEF Attach, MainOK, Fresh, Becomes
  <2>6. CASE Push(Main)
    <3>1. pc'[Main] # "write"
      <4> SUFFICES ASSUME pc'[Main] = "write" PROVE FALSE
        OBVIOUS
      <4>1. appliance[mine[Main]] # None
        BY <2>6, MainPushes DEF Becomes
      <4> QED BY <2>0, <2>6, <4>1 DEF Push, PushedLate, Fresh
    <3>2. pc[Main] = "push" /\ registered' = registered /\ shown' = shown /\ ~StartComm
      BY <2>6 DEF Push, StartComm
    <3> QED BY <1>a, <2>0, <3>1, <3>2, FreshBefore DEF WillMarkAuth, InMine
  <2>7. CASE Subscribe(Main)
    <3>1. pc[Main] = "subscribe" /\ registered' = registered /\ shown' = shown /\ ~StartComm
          /\ pc'[Main] # "write"
      BY <2>7, MainSubscribes DEF Subscribe, StartComm, Becomes, bridges
    <3> QED BY <1>a, <2>0, <3>1, FreshBefore DEF WillMarkAuth, InMine
  <2>8. CASE Write(Main)
    <3>1. pc[Main] = "write" /\ registered' = registered /\ ~StartComm /\ pc'[Main] # "write"
      BY <2>8, MainReturns DEF Write, StartComm, Becomes
    <3> QED BY <1>a, <2>0, <3>1, FreshBefore DEF WillMarkAuth, InMine
  <2>9. CASE Detach(Main) \/ Unsubscribe(Main) \/ StopComm
    BY <1>0, <2>9 DEF Detach, Unsubscribe, StopComm, MainOK, bridges
  <2> QED BY <1>1, <2>1, <2>2, <2>3, <2>4, <2>5, <2>6, <2>7, <2>8, <2>9 DEF InBridge, MainNext
<1>2. CASE InBridge(Worker) \/ WorkerNext
  <2>1. running' = running /\ running
    BY <1>2, WorkerEffects DEF WorkerOnly
  <2> QED BY <2>1 DEF Lost
<1>3. CASE InBridge(Supervisor) \/ SupervisorNext
  <2>0. /\ registered' = registered /\ (Fresh' <=> Fresh) /\ pc'[Main] = pc[Main]
    BY <1>3, SupervisorEffects DEF Fresh
  <2>1. CASE MarkAuth(Supervisor)
    <3>1. (shown.by)' = "auth" /\ pc[Supervisor] = "mark auth" /\ Free(mine[Supervisor])
      BY <2>1 DEF MarkAuth, Show
    <3>0. Lost
      BY <2>1 DEF MarkAuth, Lost, coordinator
    <3>2. pc[Main] # "write"
      <4> SUFFICES ASSUME pc[Main] = "write" PROVE FALSE
        OBVIOUS
      <4>1. mine[Main] = registered /\ registered \in BridgeObjects
        BY <1>0, ThreeThreads DEF MainOK, ThreadsOK, Inside
      <4>2. mine[Supervisor] = registered
        BY <1>a, <2>0, <3>0, <3>1, <4>1, ThreeThreads DEF WillMarkAuth, InMine
      <4>3. holder[registered] = Main
        BY <1>0, <4>1, ThreeThreads DEF LockOK
      <4> QED BY <3>1, <4>2, <4>3, ThreeThreads DEF Free
    <3> QED BY <2>0, <3>1, <3>2
  <2>2. CASE ListBridges
    <3>1. WillMarkAuth'
      BY <1>0, <2>0, <2>2, ThreeThreads, Coming DEF ListBridges, WillMarkAuth, InMine, Becomes
    <3> QED BY <3>1
  <2>3. CASE StopCoordinator
    <3>0. authLost
      BY <2>3 DEF StopCoordinator, Lost
    <3>1. pc'[Supervisor] = "list"
      BY <1>0, <2>3, <3>0, ThreeThreads, Going DEF StopCoordinator, Becomes
    <3> QED BY <3>1 DEF WillMarkAuth
  <2>4. CASE StartCoordinator
    BY <2>4 DEF StartCoordinator, Lost
  <2> QED BY <1>0, <1>3, <2>1, <2>2, <2>3, <2>4
          DEF SupervisorNext, InBridge, Attach, Subscribe, Push, Write, Detach, Unsubscribe,
              SupervisorOK
<1>4. CASE LoseAuth
  BY <1>4 DEF LoseAuth, coordinator, Lost
<1>5. CASE Pair \/ UNCHANGED vars
  <2>1. /\ pc' = pc /\ mine' = mine /\ registered' = registered /\ shown' = shown
    BY <1>5 DEF Pair, vars, thread, bridges
  <2>2. Lost
    <3>1. authLost' = authLost /\ running' = running
      BY <1>5 DEF Pair, vars, coordinator
    <3> QED BY <3>1 DEF Lost
  <2>3. Fresh
    BY <1>5 DEF Pair, vars, thread, Fresh
  <2> QED BY <1>a, <2>1, <2>2, <2>3 DEF WillMarkAuth, InMine
<1> QED BY <1>1, <1>2, <1>3, <1>4, <1>5, ThreeThreads DEF Next

\* Whether a device is started before, while or after the loss of authorization is
\* noticed, once all is done it says that authorization is required.
THEOREM LossOfAuthShown == Spec => []LostAuthShown
<1>1. Init => AuthOK
  BY DEF Init, AuthOK
<1>2. AuthOK /\ IInv /\ PlacesOK /\ [Next]_vars => AuthOK'
  BY AuthKept
<1>3. AuthOK => LostAuthShown
  BY ThreeThreads DEF AuthOK, Lost, LostAuthShown, Settled, At, Fresh, WillMarkAuth, InMine
<1> QED BY <1>1, <1>2, <1>3, Invariance, InPlace, PTL DEF Spec

----------------------------------------------------------------------------
(* It says that its appliance is gone.                                     *)

\* The device shows that its appliance is gone, or that authorization is.
Flagged == shown.by \in {"orphan", "auth"}

\* What was flagged stays so.
StaysFlagged ==
    registered # None /\ registry = None /\ Fresh =>
        /\ registered \in orphaned => Flagged
        /\ InMine(Worker, {"latch"}) => Flagged \/ appliance[registered] # None

\* After a pass that did not find it, a device is flagged or will be.
WillFlag ==
    registered # None /\ registry = None /\ Fresh /\ passed =>
        \/ kept # None /\ appliance[registered] = kept
        \/ Removing
        \/ InMine(Worker, {"detach", "unsubscribe", "orphan", "flag"})
        \/ InMine(Worker, {"latch"}) /\ Flagged
        \/ registered \in orphaned /\ Flagged

\* A device without appliance was there before, unless it just starts.
LEMMA GoneBefore ==
  ASSUME IInv, PlacesOK, AttachmentOK, [Next]_vars, registered' # None, registry' = None, Fresh'
  PROVE  \/ StartComm
         \/ /\ ~StartComm /\ ~StopComm /\ ~Attach(Main) /\ ~Detach(Main)
            /\ Fresh /\ registered # None /\ registered' = registered
            /\ registered \in BridgeObjects
<1> USE DEF At
<1>0. ThreadsOK /\ BridgesTyped /\ MainOK
  BY DEF IInv, PlacesOK
<1>1. ~Attach(Main)
  <2> SUFFICES ASSUME Attach(Main) PROVE FALSE
    OBVIOUS
  <2>1. pc'[Main] # "find" /\ object[Main] # None /\ registry' = registry
    BY <1>0, MainAttaches DEF Becomes, Attach, MainOK, coordinator
  <2> QED BY <2>1 DEF Attach, Fresh
<1>2. ~StopComm
  BY DEF StopComm
<1>3. Detach(Main) => registered' = None
  BY <1>0 DEF Detach, MainOK
<1> QED BY <1>0, <1>1, <1>2, <1>3, FreshBefore, Registrations DEF BridgesTyped

\* What the main thread does to a device without appliance.
LEMMA MainShows ==
  ASSUME IInv, PlacesOK, AttachmentOK, [Next]_vars, registered' # None, registry' = None, Fresh',
         InBridge(Main) \/ MainNext, ~StartComm
  PROVE  /\ orphaned' = orphaned /\ appliance' = appliance /\ registry = None
         /\ passed' = passed /\ kept' = kept
         /\ pc'[Worker] = pc[Worker] /\ mine'[Worker] = mine[Worker]
         /\ back'[Worker] = back[Worker]
         /\ \/ shown' = shown
            \/ Flagged'
            \/ Write(Main) /\ appliance[registered] # None
            \/ /\ appliance[registered] = None /\ registered \notin orphaned
               /\ ~At(Worker, "latch")
<1> USE DEF At
<1>0. ThreadsOK /\ BridgesTyped /\ MainOK
  BY DEF IInv, PlacesOK
<1>1. /\ ~StopComm /\ ~Attach(Main) /\ ~Detach(Main)
  BY GoneBefore
<1>2. /\ registry = None /\ kept' = kept
      /\ pc'[Worker] = pc[Worker] /\ mine'[Worker] = mine[Worker] /\ back'[Worker] = back[Worker]
  BY MainEffects DEF MainOnly
<1>3. orphaned' = orphaned /\ appliance' = appliance /\ passed' = passed
  BY <1>1
     DEF InBridge, MainNext, Subscribe, Push, Write, Unsubscribe, MarkAuth, Find, MarkWaiting,
         bridges, past
<1>4. CASE Write(Main)
  <2>1. appliance[registered] # None
    BY <1>0, <1>4, ThreeThreads DEF Write, IInv, WritersOK, MainOK
  <2> QED BY <1>2, <1>3, <1>4, <2>1
<1>5. CASE MarkAuth(Main)
  <2>1. Flagged'
    BY <1>5 DEF MarkAuth, Show, Flagged
  <2> QED BY <1>2, <1>3, <2>1
<1>6. CASE MarkWaiting
  <2>1. pc'[Main] # "find" /\ mine[Main] = registered
    BY <1>0, <1>6, MainReturns DEF Becomes, MarkWaiting, MainOK
  <2> QED BY <1>2, <1>3, <1>6, <2>1 DEF MarkWaiting, Fresh
<1>7. CASE Subscribe(Main) \/ Push(Main) \/ Unsubscribe(Main) \/ Find
  BY <1>2, <1>3, <1>7 DEF Subscribe, Push, Unsubscribe, Find
<1> QED BY <1>1, <1>2, <1>3, <1>4, <1>5, <1>6, <1>7 DEF InBridge, MainNext

\* And what the supervisor does to any device.
LEMMA SupervisorShows ==
  ASSUME IInv, PlacesOK, InBridge(Supervisor) \/ SupervisorNext
  PROVE  shown' = shown \/ Flagged'
<1>1. InBridge(Supervisor) => MarkAuth(Supervisor)
  BY DEF InBridge, Attach, Subscribe, Push, Write, Detach, Unsubscribe, At, PlacesOK, SupervisorOK
<1>2. ASSUME MarkAuth(Supervisor) PROVE Flagged'
  <2>1. shown' = [by |-> "auth", object |-> None, current |-> TRUE]
    BY <1>2 DEF MarkAuth, Show
  <2> QED BY <2>1 DEF Flagged
<1>3. SupervisorNext => shown' = shown
  BY DEF SupervisorNext, StopCoordinator, ListBridges, StartCoordinator
<1> QED BY <1>1, <1>2, <1>3

\* Only a push takes the mark away, and a push needs an appliance.
LEMMA StaysFlaggedKept ==
  ASSUME IInv, PlacesOK, AttachmentOK, AttachmentOK', StaysFlagged, [Next]_vars
  PROVE  StaysFlagged'
<1> USE DEF At
<1>0. ThreadsOK /\ BridgesTyped /\ MainOK /\ WorkerOK /\ OrphansOK /\ OrphansOK'
  BY DEF IInv, PlacesOK, AttachmentOK
<1> SUFFICES ASSUME registered' # None, registry' = None, Fresh'
             PROVE  /\ registered' \in orphaned' => Flagged'
                    /\ InMine(Worker, {"latch"})' => Flagged' \/ appliance'[registered'] # None
  BY DEF StaysFlagged
<1>a. ASSUME registered # None, registry = None, Fresh
      PROVE  /\ registered \in orphaned => Flagged
             /\ InMine(Worker, {"latch"}) => Flagged \/ appliance[registered] # None
  BY <1>a DEF StaysFlagged
<1>1. CASE StartComm
  <2>1. PICK b \in BridgeObjects :
            Unused(b) /\ registered' = b /\ orphaned' = orphaned \ {b}
    BY <1>1 DEF StartComm
  <2>2. mine'[Worker] = mine[Worker] /\ mine[Worker] # b
    BY <1>1, <2>1, MainEffects, ThreeThreads DEF MainNext, MainOnly, Unused
  <2> QED BY <2>1, <2>2 DEF InMine
<1>2. CASE ~StartComm
  <2>0. Fresh /\ registered # None /\ registered' = registered /\ registered \in BridgeObjects
    BY <1>2, GoneBefore
  <2>1. CASE InBridge(Main) \/ MainNext
    <3>1. /\ orphaned' = orphaned /\ appliance' = appliance /\ registry = None
          /\ pc'[Worker] = pc[Worker] /\ mine'[Worker] = mine[Worker]
          /\ \/ shown' = shown
             \/ Flagged'
             \/ Write(Main) /\ appliance[registered] # None
             \/ registered \notin orphaned /\ pc[Worker] # "latch"
      BY <1>2, <2>1, MainShows
    <3>2. appliance[registered] # None => registered \notin orphaned
      BY <1>0 DEF OrphansOK
    <3> QED BY <1>a, <2>0, <3>1, <3>2 DEF InMine, Flagged
  <2>2. CASE InBridge(Worker) \/ WorkerNext
    <3>1. CASE Discover \/ Depaired
      <4>1. pc[Worker] = "idle" /\ orphaned' = orphaned
        BY <3>1 DEF Discover, Depaired, bridges
      <4>2. CASE registry = None
        <5>1. pc'[Worker] = "complete" /\ shown' = shown
          BY <1>0, <3>1, <4>2, WorkerDiscovers, ThreeThreads DEF Remove, Depaired, Becomes
        <5> QED BY <1>a, <2>0, <4>1, <4>2, <5>1 DEF InMine, Flagged
      <4>3. CASE registry # None
        <5>1. pc'[Worker] = "notify"
          BY <3>1, <4>3, WorkerDiscovers, WorkerIsTold DEF Becomes
        <5>2. registered \notin orphaned
          BY <1>0, <4>1, <4>3 DEF OrphansOK, InMine
        <5> QED BY <2>0, <4>1, <5>1, <5>2 DEF InMine
      <4> QED BY <4>2, <4>3
    <3>2. CASE Write(Worker)
      <4>1. registry' = registry /\ orphaned' = orphaned /\ pc'[Worker] = "notify"
            /\ registry = None /\ Removing
        BY <1>0, <3>2, WorkerWrites
           DEF Write, bridges, coordinator, Becomes, WorkerOK, Removing, Notifying
      <4>2. registered \notin orphaned
        BY <1>0, <4>1 DEF OrphansOK
      <4> QED BY <2>0, <4>1, <4>2 DEF InMine
    <3>3. CASE MarkOrphaned
      <4>0. registry' = registry /\ appliance' = appliance
        BY <3>3 DEF MarkOrphaned, coordinator
      <4>1. CASE pc[Worker] = "orphan"
        <5>1. orphaned' = orphaned /\ shown' = shown /\ pc'[Worker] # "latch"
          BY <3>3, <4>1, WorkerFlags DEF Becomes
        <5> QED BY <1>a, <2>0, <4>0, <5>1 DEF InMine, Flagged
      <4>2. CASE pc[Worker] = "flag"
        BY <3>3, <4>2, WorkerFlags DEF Show, Flagged
      <4>3. CASE pc[Worker] = "latch"
        <5>1. /\ shown' = shown /\ pc'[Worker] # "latch"
              /\ orphaned' = IF appliance[mine[Worker]] = None THEN orphaned \cup {mine[Worker]}
                             ELSE orphaned
          BY <3>3, <4>3, WorkerFlags DEF Becomes
        <5> QED BY <1>a, <2>0, <4>0, <4>3, <5>1 DEF InMine, Flagged
      <4> QED BY <3>3, <4>1, <4>2, <4>3 DEF MarkOrphaned
    <3>4. CASE Attach(Worker) \/ Subscribe(Worker) \/ Merge \/ Hook
      BY <1>0, <3>4 DEF Attach, Subscribe, Merge, Hook, WorkerOK, coordinator
    <3>5. CASE \/ Push(Worker) \/ Detach(Worker) \/ Unsubscribe(Worker) \/ Notify \/ Unhook
               \/ Complete
      <4>1. registry' = registry /\ orphaned' = orphaned /\ shown' = shown
        BY <3>5 DEF Push, Detach, Unsubscribe, Notify, Unhook, Complete, bridges, coordinator
      <4>2. pc'[Worker] # "latch"
        BY <1>0, <3>5, WorkerPushes, WorkerDetaches, WorkerUnsubscribes, WorkerNotifies,
           WorkerUnhooks, WorkerCompletes DEF Becomes, Push, WorkerOK
      <4> QED BY <1>a, <2>0, <4>1, <4>2 DEF InMine, Flagged
    <3>6. CASE MarkAuth(Worker)
      BY <1>0, <3>6 DEF MarkAuth, WorkerOK
    <3> QED BY <2>2, <3>1, <3>2, <3>3, <3>4, <3>5, <3>6 DEF InBridge, WorkerNext
  <2>3. CASE InBridge(Supervisor) \/ SupervisorNext
    <3>1. /\ orphaned' = orphaned /\ appliance' = appliance
          /\ pc'[Worker] = pc[Worker] /\ mine'[Worker] = mine[Worker]
      BY <2>3, SupervisorEffects
    <3>2. shown' = shown \/ Flagged'
      BY <2>3, SupervisorShows
    <3>3. registry = None \/ (pc[Worker] = "idle" /\ registered \notin orphaned)
      <4>1. registry' = registry \/ pc[Worker] = "idle"
        BY <2>3, SupervisorEffects
      <4> QED BY <1>0, <4>1 DEF OrphansOK, InMine
    <3> QED BY <1>a, <2>0, <3>1, <3>2, <3>3 DEF InMine, Flagged
  <2>4. CASE LoseAuth \/ Pair \/ UNCHANGED vars
    <3>1. /\ pc' = pc /\ mine' = mine /\ shown' = shown /\ orphaned' = orphaned
          /\ appliance' = appliance /\ registry' = registry
      BY <2>4 DEF LoseAuth, Pair, vars, thread, bridges, coordinator
    <3> QED BY <1>a, <2>0, <3>1 DEF InMine, Flagged
  <2> QED BY <2>1, <2>2, <2>3, <2>4, ThreeThreads DEF Next
<1> QED BY <1>1, <1>2

\* The end of the pass flags what its beginning found detached.
LEMMA WillFlagKept ==
  ASSUME IInv, PlacesOK, AttachmentOK, AttachmentOK', StaysFlagged, WillFlag, [Next]_vars
  PROVE  WillFlag'
<1> USE DEF At
<1>0. /\ ThreadsOK /\ BridgesTyped /\ WorkerOK
      /\ OrphansOK /\ LeftAttached /\ LeftAttached'
  BY DEF IInv, PlacesOK, AttachmentOK
<1> SUFFICES ASSUME registered' # None, registry' = None, Fresh', passed',
                    appliance'[registered'] = None
             PROVE  \/ Removing'
                    \/ InMine(Worker, {"detach", "unsubscribe", "orphan", "flag"})'
                    \/ InMine(Worker, {"latch"})' /\ Flagged'
                    \/ registered' \in orphaned' /\ Flagged'
  BY <1>0 DEF WillFlag, LeftAttached, InMine
<1>a. ASSUME registered # None, registry = None, Fresh, passed
      PROVE  \/ kept # None /\ appliance[registered] = kept
             \/ Removing
             \/ InMine(Worker, {"detach", "unsubscribe", "orphan", "flag"})
             \/ InMine(Worker, {"latch"}) /\ Flagged
             \/ registered \in orphaned /\ Flagged
  BY <1>a DEF WillFlag
<1>1. ~StartComm
  BY DEF StartComm
<1>2. Fresh /\ registered # None /\ registered' = registered /\ registered \in BridgeObjects
  BY <1>1, GoneBefore
<1>3. CASE InBridge(Main) \/ MainNext
  <2>1. /\ orphaned' = orphaned /\ appliance' = appliance /\ registry = None
        /\ passed' = passed
        /\ pc'[Worker] = pc[Worker] /\ mine'[Worker] = mine[Worker]
        /\ back'[Worker] = back[Worker]
        /\ \/ shown' = shown
           \/ Flagged'
           \/ registered \notin orphaned /\ pc[Worker] # "latch"
    BY <1>1, <1>2, <1>3, MainShows
  <2> QED BY <1>a, <1>2, <2>1 DEF InMine, Flagged, Removing, Notifying
<1>4. CASE InBridge(Worker) \/ WorkerNext
  <2>1. CASE Discover \/ Depaired
    <3>1. pc[Worker] = "idle" /\ orphaned' = orphaned /\ appliance' = appliance
          /\ passed' = passed
      BY <2>1 DEF Discover, Depaired, bridges, past
    <3>2. CASE registry = None
      <4>1. shown' = shown
        BY <1>0, <2>1, <3>2, WorkerDiscovers, ThreeThreads DEF Remove, Depaired
      <4> QED BY <1>a, <1>2, <3>1, <3>2, <4>1 DEF InMine, Flagged, Removing, Notifying
    <3>3. CASE registry # None
      <4>1. pc'[Worker] = "notify"
        BY <2>1, <3>3, WorkerDiscovers, WorkerIsTold DEF Becomes
      <4> QED BY <4>1 DEF Removing, Notifying
    <3> QED BY <3>2, <3>3
  <2>2. CASE Push(Worker) \/ Write(Worker) \/ Notify
    <3>1. registry = None
      BY <2>2 DEF Push, Write, Notify, coordinator
    <3>2. Removing'
      <4>1. CASE Push(Worker)
        BY <1>0, <3>1, <4>1, WorkerPushes DEF Push, Becomes, Removing, Notifying, WorkerOK
      <4>2. CASE Write(Worker)
        BY <1>0, <3>1, <4>2, WorkerWrites DEF Write, Becomes, Removing, Notifying, WorkerOK
      <4>3. CASE Notify
        BY <3>1, <4>3, WorkerNotifies DEF Becomes, Removing, Notifying
      <4> QED BY <2>2, <4>1, <4>2, <4>3
    <3> QED BY <3>2
  <2>3. CASE Unhook
    BY <1>2, <2>3, WorkerUnhooks DEF InMine, Becomes
  <2>4. CASE Detach(Worker)
    <3>1. /\ registry = None /\ orphaned' = orphaned /\ shown' = shown /\ passed' = passed
          /\ pc[Worker] = "detach" /\ appliance' = [appliance EXCEPT ![mine[Worker]] = None]
      BY <2>4 DEF Detach, coordinator, past
    <3>2. CASE mine[Worker] = registered
      BY <1>2, <2>4, <3>2, WorkerDetaches DEF InMine, Becomes
    <3>3. CASE mine[Worker] # registered
      <4>1. appliance[registered] = None
        BY <1>0, <1>2, <3>1, <3>3 DEF BridgesTyped
      <4> QED BY <1>a, <1>2, <3>1, <3>3, <4>1 DEF InMine, Flagged, Removing, Notifying
    <3> QED BY <3>2, <3>3
  <2>5. CASE Unsubscribe(Worker)
    <3>1. /\ registry = None /\ orphaned' = orphaned /\ shown' = shown /\ passed' = passed
          /\ pc[Worker] = "unsubscribe" /\ appliance' = appliance
      BY <2>5 DEF Unsubscribe, bridges, past
    <3> QED BY <1>a, <1>2, <2>5, <3>1, WorkerUnsubscribes
            DEF InMine, Flagged, Removing, Notifying, Becomes
  <2>6. CASE Complete
    BY <1>2, <2>6, WorkerCompletes DEF Complete, coordinator, InMine, Becomes
  <2>7. CASE MarkOrphaned
    <3>0. registry = None /\ registry' = registry /\ appliance' = appliance /\ passed' = passed
          /\ pc[Worker] \in {"orphan", "flag", "latch"}
      BY <1>0, <2>7 DEF MarkOrphaned, WorkerOK, coordinator, past
    <3>1. CASE pc[Worker] = "orphan" /\ mine[Worker] = registered
      <4>1. CASE registered \in orphaned
        <5>1. orphaned' = orphaned /\ shown' = shown
          BY <2>7, <3>1, WorkerFlags
        <5> QED BY <1>2, <3>0, <4>1, <5>1 DEF StaysFlagged, Flagged
      <4>2. CASE registered \notin orphaned
        BY <1>2, <2>7, <3>0, <3>1, <4>2, WorkerFlags DEF Becomes, InMine
      <4> QED BY <4>1, <4>2
    <3>2. CASE pc[Worker] = "flag" /\ mine[Worker] = registered
      BY <1>2, <2>7, <3>2, WorkerFlags DEF Becomes, InMine, Show, Flagged
    <3>3. CASE pc[Worker] = "latch" /\ mine[Worker] = registered
      <4>1. /\ shown' = shown /\ registered \in orphaned'
        BY <1>2, <2>7, <3>0, <3>3, WorkerFlags
      <4>2. Flagged
        BY <1>2, <3>0, <3>3 DEF StaysFlagged, InMine
      <4> QED BY <1>2, <4>1, <4>2 DEF Flagged
    <3>4. CASE mine[Worker] # registered
      <4>1. registered \in orphaned /\ Flagged
        BY <1>a, <1>2, <3>0, <3>4 DEF InMine, Removing, Notifying
      <4>2. orphaned \subseteq orphaned' /\ (shown' = shown \/ Flagged')
        BY <2>7, <3>0, WorkerFlags DEF Show, Flagged
      <4> QED BY <1>2, <4>1, <4>2 DEF Flagged
    <3> QED BY <3>0, <3>1, <3>2, <3>3, <3>4
  <2>8. CASE Attach(Worker) \/ Subscribe(Worker) \/ Merge \/ Hook
    BY <1>0, <2>8 DEF Attach, Subscribe, Merge, Hook, WorkerOK, coordinator
  <2>9. CASE MarkAuth(Worker)
    BY <1>0, <2>9 DEF MarkAuth, WorkerOK
  <2> QED BY <1>4, <2>1, <2>2, <2>3, <2>4, <2>5, <2>6, <2>7, <2>8, <2>9 DEF InBridge, WorkerNext
<1>5. CASE InBridge(Supervisor) \/ SupervisorNext
  <2>1. /\ orphaned' = orphaned /\ appliance' = appliance
        /\ pc'[Worker] = pc[Worker] /\ mine'[Worker] = mine[Worker]
        /\ back'[Worker] = back[Worker]
    BY <1>5, SupervisorEffects
  <2>2. registry' = registry /\ passed' = passed
    BY <1>5, SupervisorEffects
  <2> QED BY <1>5, <1>a, <1>2, <2>1, <2>2, SupervisorShows
          DEF InMine, Flagged, Removing, Notifying
<1>6. CASE LoseAuth \/ Pair \/ UNCHANGED vars
  <2>1. /\ pc' = pc /\ mine' = mine /\ back' = back /\ shown' = shown /\ orphaned' = orphaned
        /\ appliance' = appliance /\ registry' = registry /\ passed' = passed
    BY <1>6 DEF LoseAuth, Pair, vars, thread, bridges, coordinator, past
  <2> QED BY <1>a, <1>2, <2>1 DEF InMine, Flagged, Removing, Notifying
<1> QED BY <1>3, <1>4, <1>5, <1>6, ThreeThreads DEF Next

\* However a removal, a discovery pass, the end of a coordinator and the start of a
\* device interleave, once all is done a device whose appliance a pass did not find
\* says so, but for the two cases the property names.
THEOREM OrphansShown == Spec => []OrphanShown
<1> DEFINE FlagsOK == StaysFlagged /\ WillFlag
<1>1. Init => FlagsOK
  BY DEF Init, StaysFlagged, WillFlag
<1>2. FlagsOK /\ AttachmentOK /\ AttachmentOK' /\ IInv /\ PlacesOK /\ [Next]_vars => FlagsOK'
  BY StaysFlaggedKept, WillFlagKept
<1>3. FlagsOK /\ AttachmentOK /\ PlacesOK => OrphanShown
  <2> SUFFICES ASSUME FlagsOK, AttachmentOK, PlacesOK, Settled, passed, registry = None
               PROVE  \/ shown.by = "orphan"
                      \/ kept # None /\ appliance[registered] = kept
                      \/ registered \in orphaned /\ shown.by = "auth"
    BY DEF OrphanShown
  <2>1. pc[Main] = "idle" /\ pc[Worker] = "idle" /\ registered # None /\ Fresh
    BY ThreeThreads DEF Settled, At, Fresh
  <2> QED BY <2>1 DEF WillFlag, Flagged, InMine, Removing, Notifying, At
<1> QED BY <1>1, <1>2, <1>3, Invariance, InPlace, FollowsRegistry, PTL DEF Spec

\* Every reachable state has the types the module declares.
THEOREM TypeCorrect == Spec => []TypeOK
<1>1. IInv /\ PlacesOK => TypeOK
  BY DEF IInv, ThreadsOK, BridgesTyped, PlacesOK, ShownTyped, Shows, TypeOK
<1> QED BY <1>1, Invariance, InPlace, PTL
=============================================================================
