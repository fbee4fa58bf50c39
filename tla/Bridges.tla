------------------------------ MODULE Bridges ------------------------------
(***************************************************************************)
(* The Indigo device of one appliance: Indigo's main thread starts and     *)
(* stops it (plugin.deviceStartComm), the worker discovers, removes and    *)
(* updates appliance objects, and the supervisor replaces the coordinator  *)
(* or reports its loss of authorization.  They meet in the bridge          *)
(* (device_bridge.ApplianceBridge), whose lock `holder' is.                *)
(*                                                                         *)
(* A bridge serves one start of the device, an object one stay in the      *)
(* registry of one coordinator; those nobody refers to any more are used   *)
(* again.  Writes to the Indigo server do not fail.  The main thread acts  *)
(* on what it saw a while ago: `late' says when that was outdated.         *)
(***************************************************************************)
EXTENDS Integers

CONSTANTS Main, Worker, Supervisor, None,
    BridgeObjects,  \* ApplianceBridge objects
    Objects         \* HomeConnectAppliance objects

Threads == {Main, Worker, Supervisor}

ASSUME BridgesOK ==
    /\ Main # Worker /\ Main # Supervisor /\ Worker # Supervisor
    /\ None \notin Threads \cup BridgeObjects \cup Objects

VARIABLES
    pc, back,       \* where each thread is, and where what it called returns to
    mine, object,   \* the bridge it is in, and the object in hand
    outdated,       \* threads that write a snapshot of which the object has moved on
    calls,          \* bridges the worker still has to notify
    pass,           \* the worker is inside _discover
    registered,     \* the device's entry in _bridges
    appliance,      \* each bridge: _appliance, set exactly while _active
    orphaned,       \* bridges whose _orphaned is set
    holder,         \* each bridge: who holds its lock over more than a step
    observers,      \* each object: the bridges subscribed
    registry,       \* the coordinator's entry for the haId
    running,        \* there is a coordinator
    listed,         \* the account has the appliance
    authLost,       \* STATE_AUTH_REQUIRED
    shown,          \* what the device shows: written by whom, of which object, up to date
    passed,         \* history: a discovery pass ended since device and coordinator started
    kept,           \* history: the object last dropped with its coordinator
    late            \* history: the last start of the device acted on an outdated look

thread == <<pc, back, mine, object, outdated, calls, pass>>
bridges == <<registered, appliance, orphaned, holder>>
coordinator == <<observers, registry, running>>
past == <<passed, kept>>
vars == <<thread, bridges, coordinator, listed, authLost, shown, past, late>>

At(t, place) == pc[t] = place
Goto(t, place) ==
    pc' = [pc EXCEPT ![t] = place] /\ UNCHANGED <<back, mine, object, outdated>>

\* t calls something with b and o, and will go on at `then'.
Into(t, place, b, o, then) ==
    /\ pc' = [pc EXCEPT ![t] = place] /\ back' = [back EXCEPT ![t] = then]
    /\ mine' = [mine EXCEPT ![t] = b] /\ object' = [object EXCEPT ![t] = o]
Enter(t, place, b, o, then) ==
    Into(t, place, b, o, then) /\ outdated' = outdated \ {t}
Return(t) ==
    Enter(t, back[t], IF back[t] = "orphan" THEN mine[t] ELSE None, None, "idle")

Show(by) == shown' = [by |-> by, object |-> None, current |-> TRUE]
Free(b) == holder[b] = None

----------------------------------------------------------------------------
(* ApplianceBridge.                                                        *)

\* Mutant of Attach: a bridge that is attached stays so.
AttachOnce(t) ==
    /\ At(t, "attach") /\ Free(mine[t])
    /\ \/ appliance[mine[t]] # None
          /\ Return(t) /\ UNCHANGED <<appliance, orphaned>>
       \/ appliance[mine[t]] = None
          /\ Goto(t, "subscribe")
          /\ appliance' = [appliance EXCEPT ![mine[t]] = object[t]]
          /\ orphaned' = orphaned \ {mine[t]}
    /\ late' = IF t = Main THEN object[t] # registry ELSE late
    /\ UNCHANGED <<calls, pass, registered, holder, coordinator, listed, authLost, shown, past>>

\* attach: under the lock, then the subscription.
Attach(t) ==
    /\ At(t, "attach") /\ Free(mine[t])
    /\ \/ appliance[mine[t]] = object[t]
          /\ Return(t) /\ UNCHANGED <<appliance, orphaned>>
       \/ appliance[mine[t]] # object[t]
          /\ Goto(t, "subscribe")
          /\ appliance' = [appliance EXCEPT ![mine[t]] = object[t]]
          /\ orphaned' = orphaned \ {mine[t]}
    /\ late' = IF t = Main THEN object[t] # registry ELSE late
    /\ UNCHANGED <<calls, pass, registered, holder, coordinator, listed, authLost, shown, past>>

Subscribe(t) ==
    /\ At(t, "subscribe") /\ Goto(t, "push")
    /\ observers' = [observers EXCEPT ![object[t]] = @ \cup {mine[t]}]
    /\ UNCHANGED <<calls, pass, bridges, registry, running, listed, authLost, shown, past, late>>

\* What the main thread pushes, too, may be of an object that is gone by now.
PushedLate(t) == late \/ (t = Main /\ appliance[mine[t]] \notin {registry, None})

\* Mutant of Push: it takes the snapshot without the lock.
PushUnlocked(t) ==
    /\ At(t, "push") /\ Free(mine[t])
    /\ \/ appliance[mine[t]] = None /\ Return(t)
       \/ appliance[mine[t]] # None
          /\ Enter(t, "write", mine[t], appliance[mine[t]], back[t])
    /\ late' = PushedLate(t)
    /\ UNCHANGED <<calls, pass, bridges, coordinator, listed, authLost, shown, past>>

\* push: the lock is held from the snapshot to the end of the writes.
Push(t) ==
    /\ At(t, "push") /\ Free(mine[t])
    /\ \/ appliance[mine[t]] = None /\ Return(t) /\ holder' = holder
       \/ appliance[mine[t]] # None
          /\ Enter(t, "write", mine[t], appliance[mine[t]], back[t])
          /\ holder' = [holder EXCEPT ![mine[t]] = t]
    /\ late' = PushedLate(t)
    /\ UNCHANGED <<calls, pass, registered, appliance, orphaned, coordinator, listed, authLost,
                   shown, past>>

Write(t) ==
    /\ At(t, "write") /\ Return(t)
    /\ shown' = [by |-> "push", object |-> object[t], current |-> t \notin outdated]
    /\ holder' = [holder EXCEPT ![mine[t]] = None]
    /\ UNCHANGED <<calls, pass, registered, appliance, orphaned, coordinator, listed, authLost,
                   past, late>>

Detach(t) ==
    /\ At(t, "detach") /\ Free(mine[t])
    /\ \/ appliance[mine[t]] = None /\ Return(t)
       \/ appliance[mine[t]] # None
          /\ Enter(t, "unsubscribe", mine[t], appliance[mine[t]], back[t])
    /\ appliance' = [appliance EXCEPT ![mine[t]] = None]
    /\ UNCHANGED <<calls, pass, registered, orphaned, holder, coordinator, listed, authLost,
                   shown, past, late>>

Unsubscribe(t) ==
    /\ At(t, "unsubscribe") /\ Return(t)
    /\ observers' = [observers EXCEPT ![object[t]] = @ \ {mine[t]}]
    /\ UNCHANGED <<calls, pass, bridges, registry, running, listed, authLost, shown, past, late>>

\* mark_auth_required, by the supervisor or by a device that starts.
MarkAuth(t) ==
    /\ At(t, "mark auth") /\ Free(mine[t]) /\ Return(t)
    /\ Show("auth")
    /\ late' = IF t = Main THEN registry # None \/ ~authLost ELSE late
    /\ UNCHANGED <<calls, pass, bridges, coordinator, listed, authLost, past>>

\* mark_waiting, which takes no lock.
MarkWaiting ==
    /\ At(Main, "mark waiting") /\ Return(Main)
    /\ Show("waiting")
    /\ late' = \/ late \/ registry # None
                \/ appliance[mine[Main]] # None \/ mine[Main] \in orphaned
                \/ At(Worker, "latch")
    /\ UNCHANGED <<calls, pass, bridges, coordinator, listed, authLost, past>>

OrphanDone == IF pass THEN Enter(Worker, "complete", None, None, "idle") ELSE Return(Worker)

\* mark_orphaned: a look under the lock, a write without, a latch under it.
MarkOrphaned ==
    /\ \/ /\ At(Worker, "orphan") /\ Free(mine[Worker])
          /\ IF mine[Worker] \in orphaned \/ appliance[mine[Worker]] # None
                THEN OrphanDone ELSE Goto(Worker, "flag")
          /\ UNCHANGED <<orphaned, shown>>
       \/ /\ At(Worker, "flag") /\ Goto(Worker, "latch")
          /\ Show("orphan") /\ UNCHANGED orphaned
       \/ /\ At(Worker, "latch") /\ Free(mine[Worker]) /\ OrphanDone
          /\ orphaned' = IF appliance[mine[Worker]] = None THEN orphaned \cup {mine[Worker]}
                        ELSE orphaned
          /\ UNCHANGED shown
    /\ UNCHANGED <<calls, pass, registered, appliance, holder, coordinator, listed, authLost,
                   past, late>>

----------------------------------------------------------------------------
(* The main thread.                                                        *)

Unused(b) == b # registered /\ \A t \in Threads : mine[t] # b

\* deviceStartComm registers a new bridge, then looks for the appliance.
StartComm ==
    /\ At(Main, "idle") /\ registered = None
    /\ \E b \in BridgeObjects :
          /\ Unused(b)
          /\ registered' = b /\ Enter(Main, "find", b, None, "idle")
          /\ appliance' = [appliance EXCEPT ![b] = None]
          /\ orphaned' = orphaned \ {b}
          /\ observers' = [o \in Objects |-> observers[o] \ {b}]
          /\ calls' = calls \ {b}
    /\ passed' = FALSE
    /\ UNCHANGED <<pass, holder, registry, running, listed, authLost, shown, kept, late>>

Finds(t, missing) ==
    IF registry # None THEN Enter(t, "attach", mine[t], registry, "idle")
                       ELSE Goto(t, missing)

\* Mutant of Find: the state of the authorization is not asked for.
FindUnasked ==
    /\ At(Main, "find") /\ Finds(Main, "mark waiting")
    /\ late' = FALSE
    /\ UNCHANGED <<calls, pass, bridges, coordinator, listed, authLost, shown, past>>

Find ==
    /\ At(Main, "find")
    /\ Finds(Main, IF authLost THEN "mark auth" ELSE "mark waiting")
    /\ late' = FALSE
    /\ UNCHANGED <<calls, pass, bridges, coordinator, listed, authLost, shown, past>>

StopComm ==
    /\ At(Main, "idle") /\ registered # None
    /\ Enter(Main, "detach", registered, None, "idle")
    /\ registered' = None
    /\ UNCHANGED <<calls, pass, appliance, orphaned, holder, coordinator, listed, authLost, shown,
                   past, late>>

----------------------------------------------------------------------------
(* The worker.                                                             *)

\* What object o caches changed: its observers will be called one by one.
Change(o) ==
    /\ calls' = observers[o]
    /\ Into(Worker, "notify", None, None, "idle")
    /\ outdated' = outdated \cup {t \in Threads \ {Worker} : object[t] = o}
    /\ shown' = [shown EXCEPT !.current = @ /\ shown.object # o]

Merge ==
    /\ At(Worker, "idle") /\ running /\ registry # None
    /\ Change(registry)
    /\ UNCHANGED <<pass, bridges, coordinator, listed, authLost, past, late>>

\* _on_change; a bridge that is detached by now does nothing in push.
Notify ==
    /\ At(Worker, "notify")
    /\ \/ \E b \in calls :
             calls' = calls \ {b} /\ Enter(Worker, "push", b, None, "notify")
       \/ calls = {} /\ calls' = calls
          /\ Goto(Worker, IF registry = None THEN "unhook" ELSE "idle")
    /\ UNCHANGED <<pass, bridges, coordinator, listed, authLost, shown, past, late>>

UnusedObject(o) ==
    /\ o \notin {registry, shown.object, kept}
    /\ \A t \in Threads : object[t] # o
    /\ \A b \in BridgeObjects : appliance[b] # o

\* _remove_appliance, which disconnects the object first.
Remove ==
    /\ registry # None
    /\ registry' = None /\ Change(registry)
    /\ UNCHANGED <<observers, running>>

\* A discovery pass that got its list registers what is new, lets go of what is
\* gone, and completes.
Discover ==
    /\ At(Worker, "idle") /\ running
    /\ pass' = TRUE
    /\ \/ /\ listed /\ registry = None /\ Goto(Worker, "hook")
          /\ \E o \in Objects :
                /\ UnusedObject(o)
                /\ registry' = o /\ observers' = [observers EXCEPT ![o] = {}]
          /\ UNCHANGED <<calls, running, shown>>
       \/ ~listed /\ Remove
       \/ /\ (listed <=> registry # None) /\ Goto(Worker, "complete")
          /\ UNCHANGED <<calls, coordinator, shown>>
    /\ UNCHANGED <<bridges, listed, authLost, past, late>>

\* _appliance_discovered attaches the bridge registered by now.
Hook ==
    /\ At(Worker, "hook")
    /\ IF registered = None THEN Goto(Worker, "complete")
       ELSE Enter(Worker, "attach", registered, registry, "complete")
    /\ UNCHANGED <<calls, pass, bridges, coordinator, listed, authLost, shown, past, late>>

\* DEPAIRED: the removal without the pass.
Depaired ==
    /\ At(Worker, "idle") /\ running /\ ~listed
    /\ Remove
    /\ UNCHANGED <<pass, bridges, listed, authLost, past, late>>

\* Mutant of Unhook: it flags without detaching.
UnhookAttached ==
    /\ At(Worker, "unhook")
    /\ IF registered = None THEN OrphanDone
       ELSE Enter(Worker, "orphan", registered, None, "idle")
    /\ UNCHANGED <<calls, pass, bridges, coordinator, listed, authLost, shown, past, late>>

\* _appliance_removed detaches and flags the bridge registered by now.
Unhook ==
    /\ At(Worker, "unhook")
    /\ IF registered = None THEN OrphanDone
       ELSE Enter(Worker, "detach", registered, None, "orphan")
    /\ UNCHANGED <<calls, pass, bridges, coordinator, listed, authLost, shown, past, late>>

\* _discovery_complete.
Complete ==
    /\ At(Worker, "complete")
    /\ pass' = FALSE
    /\ passed' = (registered # None)
    /\ IF registered # None /\ registry = None
          THEN Enter(Worker, "orphan", registered, None, "idle")
          ELSE Enter(Worker, "idle", None, None, "idle")
    /\ UNCHANGED <<calls, bridges, coordinator, listed, authLost, shown, kept, late>>

----------------------------------------------------------------------------
(* The supervisor.                                                         *)

\* Refused by the service, in whatever request.
LoseAuth ==
    /\ running /\ ~authLost /\ authLost' = TRUE
    /\ late' = (late \/ At(Main, "mark waiting"))
    /\ UNCHANGED <<thread, bridges, coordinator, listed, shown, past>>

\* _stop_coordinator has joined the worker.
StopCoordinator ==
    /\ At(Supervisor, "idle") /\ running /\ At(Worker, "idle")
    /\ running' = FALSE /\ registry' = None
    /\ passed' = FALSE /\ kept' = IF registry = None THEN kept ELSE registry
    /\ Goto(Supervisor, IF authLost THEN "list" ELSE "idle")
    /\ UNCHANGED <<calls, pass, bridges, observers, listed, authLost, shown, late>>

\* _mark_devices_auth_required reads _bridges, then marks.
ListBridges ==
    /\ At(Supervisor, "list")
    /\ IF registered = None THEN Goto(Supervisor, "idle")
       ELSE Enter(Supervisor, "mark auth", registered, None, "idle")
    /\ UNCHANGED <<calls, pass, bridges, coordinator, listed, authLost, shown, past, late>>

\* Authorized, or authorized again.
StartCoordinator ==
    /\ At(Supervisor, "idle") /\ ~running
    /\ running' = TRUE /\ authLost' = FALSE
    /\ UNCHANGED <<thread, bridges, observers, registry, listed, shown, past, late>>

\* The user pairs the appliance, or removes it from the account.
Pair ==
    /\ listed' = ~listed
    /\ UNCHANGED <<thread, bridges, coordinator, authLost, shown, past, late>>

Init ==
    /\ pc = [t \in Threads |-> "idle"] /\ back = [t \in Threads |-> "idle"]
    /\ mine = [t \in Threads |-> None] /\ object = [t \in Threads |-> None]
    /\ outdated = {} /\ calls = {} /\ pass = FALSE
    /\ registered = None
    /\ appliance = [b \in BridgeObjects |-> None]
    /\ orphaned = {}
    /\ holder = [b \in BridgeObjects |-> None]
    /\ observers = [o \in Objects |-> {}] /\ registry = None
    /\ running \in BOOLEAN /\ listed \in BOOLEAN
    /\ authLost = FALSE /\ passed = FALSE /\ kept = None /\ late = FALSE
    /\ shown = [by |-> "none", object |-> None, current |-> TRUE]

InBridge(t) ==
    \/ Attach(t) \/ Subscribe(t) \/ Push(t) \/ Write(t) \/ Detach(t) \/ Unsubscribe(t)
    \/ MarkAuth(t)
MainNext == StartComm \/ Find \/ MarkWaiting \/ StopComm
WorkerNext ==
    Merge \/ Notify \/ Discover \/ Hook \/ Depaired \/ Unhook \/ Complete \/ MarkOrphaned
SupervisorNext == StopCoordinator \/ ListBridges \/ StartCoordinator

Next ==
    \/ \E t \in Threads : InBridge(t)
    \/ MainNext \/ WorkerNext \/ SupervisorNext
    \/ LoseAuth \/ Pair

Spec == Init /\ [][Next]_vars

----------------------------------------------------------------------------
(* Properties.                                                             *)

Places ==
    {"idle", "find", "attach", "subscribe", "push", "write", "detach", "unsubscribe",
     "mark auth", "mark waiting", "notify", "hook", "unhook", "complete", "orphan", "flag",
     "latch", "list"}

Returns == {"idle", "notify", "complete", "orphan"}

TypeOK ==
    /\ pc \in [Threads -> Places] /\ back \in [Threads -> Returns]
    /\ mine \in [Threads -> BridgeObjects \cup {None}]
    /\ object \in [Threads -> Objects \cup {None}] /\ outdated \subseteq Threads
    /\ calls \subseteq BridgeObjects /\ pass \in BOOLEAN
    /\ registered \in BridgeObjects \cup {None}
    /\ appliance \in [BridgeObjects -> Objects \cup {None}]
    /\ orphaned \subseteq BridgeObjects
    /\ holder \in [BridgeObjects -> Threads \cup {None}]
    /\ observers \in [Objects -> SUBSET BridgeObjects]
    /\ registry \in Objects \cup {None}
    /\ running \in BOOLEAN /\ listed \in BOOLEAN /\ authLost \in BOOLEAN
    /\ shown \in [by : {"none", "push", "waiting", "orphan", "auth"},
                  object : Objects \cup {None}, current : BOOLEAN]
    /\ passed \in BOOLEAN /\ kept \in Objects \cup {None} /\ late \in BOOLEAN

\* The device is started and every thread has done what it was doing.
Settled == registered # None /\ ~late /\ \A t \in Threads : At(t, "idle")

\* Whether the device starts before, while or after its appliance is discovered,
\* it is attached to the object of the registry and shows its present state.
AttachedShown ==
    Settled /\ registry # None =>
        /\ appliance[registered] = registry
        /\ shown = [by |-> "push", object |-> registry, current |-> TRUE]

\* Authorization lost is shown by every device, whenever it started.
LostAuthShown == Settled /\ authLost /\ ~running => shown.by = "auth"

\* After a discovery pass, a device whose appliance is not on the account says so,
\* unless it is still attached to an object of an earlier coordinator, or was
\* flagged already when the loss of authorization was marked over it.
OrphanShown ==
    Settled /\ passed /\ registry = None =>
        \/ shown.by = "orphan"
        \/ kept # None /\ appliance[registered] = kept
        \/ registered \in orphaned /\ shown.by = "auth"

\* Once detached a bridge writes no state of its appliance any more, even if a push
\* was under way.
StoppedIsSilent == [][\A t \in Threads : Write(t) => appliance[mine[t]] = object[t]]_vars

=============================================================================
