------------------------------ MODULE Lifecycle ------------------------------
(***************************************************************************)
(* The plugin around its client (plugin.Plugin): the supervisor brings the *)
(* coordinator in line with the authorization every minute, while the      *)
(* user authorizes or saves other preferences, the workers of device       *)
(* flows run on, and a coordinator told to stop may outlive stop().        *)
(*                                                                         *)
(* Client i is the i-th pair of api and auth built; self._api and          *)
(* self._auth are always the latest.  The state of an earlier auth is      *)
(* asked for by nobody.  All devices are shown alike.                      *)
(***************************************************************************)
EXTENDS Integers

CONSTANTS
    Supervisor, UI, None,
    Configs,        \* client id, secret and simulator flag, with a client id each
    Simulated,      \* those that use the simulator
    Coordinators,   \* coordinator objects
    MaxClients      \* bound on the clients built

Threads == {Supervisor, UI}
Clients == 1 .. MaxClients

ASSUME LifecycleOK ==
    /\ Supervisor # UI /\ None \notin Threads \cup Coordinators
    /\ Simulated \subseteq Configs /\ Coordinators # {}
    /\ MaxClients \in Nat \ {0}

VARIABLES
    pc,             \* where each thread is
    lock,           \* who holds _coord_lock over more than a step
    want,           \* the preferences the user authorizes or saves
    cur,            \* the current client
    config,         \* what each client was built with
    superseded,     \* clients up to this one are stale
    cancelled,      \* the device flows of clients up to this one are told to stop
    state,          \* _auth.state()
    tokens,         \* configurations with an entry in the token store
    flow,           \* where the device flow of each client is
    ref,            \* _coordinator
    serves,         \* each coordinator's client
    told,           \* coordinators told to stop
    alive,          \* coordinators with a thread alive
    shown           \* what the devices show

client == <<cur, config>>
coords == <<serves, told, alive>>
vars == <<pc, lock, want, client, superseded, cancelled, state, tokens, flow, ref, coords,
          shown>>

\* Threads inside _stop_coordinator, waiting for a coordinator to end.
Joining == {"stop", "restart", "replace", "rebuild"}
Home(t) == IF t = Supervisor THEN "reconcile" ELSE "idle"
Goto(t, place) == pc' = [pc EXCEPT ![t] = place]

\* Only the current auth's state is looked at.
SetState(i, s) == state' = IF i = cur THEN s ELSE state

----------------------------------------------------------------------------
(* Coordinators.                                                           *)

\* _start_coordinator: the new object refers to the current client.
Launch ==
    \E k \in Coordinators \ alive :
        /\ ref' = k
        /\ serves' = [serves EXCEPT ![k] = cur]
        /\ told' = told \ {k} /\ alive' = alive \cup {k}

\* The first half of stop().
Signal(t, place) ==
    /\ lock' = t /\ Goto(t, place)
    /\ told' = told \cup {ref} /\ UNCHANGED <<serves, alive>>

\* A coordinator that was told to stop ends, perhaps after stop() gave up on it.
Die(k) ==
    /\ k \in told \cap alive
    /\ alive' = alive \ {k}
    /\ UNCHANGED <<pc, lock, want, client, superseded, cancelled, state, tokens, flow, ref,
                   serves, told, shown>>

\* Its worker writes what an appliance reports to the devices.
Push(k) ==
    /\ k \in alive
    /\ shown' = "live"
    /\ UNCHANGED <<pc, lock, want, client, superseded, cancelled, state, tokens, flow, ref,
                   coords>>

\* Mutant of OtherClient: whatever runs will do.
OtherClientIgnored == FALSE
OtherClient == ref # None /\ serves[ref] # cur

Authorized == state = "authorized"

Reconcile(t) ==
    /\ lock = None /\ pc[t] = "reconcile"
    /\ \/ Authorized /\ ref = None
          /\ Launch /\ Goto(t, Home(t)) /\ lock' = lock
       \/ Authorized /\ OtherClient
          /\ Signal(t, "restart") /\ ref' = ref
       \/ ~Authorized /\ ref # None
          /\ Signal(t, "stop") /\ ref' = ref
       \/ (IF Authorized THEN ref # None /\ ~OtherClient ELSE ref = None)
          /\ Goto(t, Home(t)) /\ UNCHANGED <<lock, ref, coords>>
    /\ UNCHANGED <<want, client, superseded, cancelled, state, tokens, flow, shown>>

\* Mutant of Joined: the coordinator that did not end is forgotten.
JoinedForgets(t) ==
    /\ lock = t /\ pc[t] \in {"stop", "restart"}
    /\ lock' = None /\ Goto(t, Home(t))
    /\ \/ ref' = None /\ UNCHANGED <<coords, shown>>
       \/ pc[t] = "restart" /\ Launch /\ shown' = shown
    /\ UNCHANGED <<want, client, superseded, cancelled, state, tokens, flow>>
\* Mutant of Joined: whether there was a coordinator is asked after it stopped.
JoinedUnmarked(t) ==
    /\ lock = t /\ pc[t] \in {"stop", "restart"}
    /\ lock' = None /\ Goto(t, Home(t))
    /\ \/ ref \in alive /\ UNCHANGED <<ref, coords>>
       \/ ref \notin alive /\ pc[t] = "stop" /\ ref' = None /\ UNCHANGED coords
       \/ ref \notin alive /\ pc[t] = "restart" /\ Launch
    /\ UNCHANGED <<want, client, superseded, cancelled, state, tokens, flow, shown>>

\* stop() returns, within its timeout or not; what ended is let go or replaced.
Joined(t) ==
    /\ lock = t /\ pc[t] \in {"stop", "restart"}
    /\ lock' = None /\ Goto(t, Home(t))
    /\ \/ ref \in alive /\ UNCHANGED <<ref, coords, shown>>
       \/ ref \notin alive /\ pc[t] = "stop"
          /\ ref' = None /\ UNCHANGED coords
          /\ shown' = IF state = "required" THEN "auth required" ELSE shown
       \/ ref \notin alive /\ pc[t] = "restart"
          /\ Launch /\ shown' = shown
    /\ UNCHANGED <<want, client, superseded, cancelled, state, tokens, flow>>

----------------------------------------------------------------------------
(* The user.                                                               *)

\* A new auth is authorized if the store has a token for it.
Build ==
    /\ cur' = cur + 1
    /\ config' = [config EXCEPT ![cur + 1] = want]
    /\ state' = IF want \in tokens THEN "authorized" ELSE "unauthorized"

\* authorizeButtonPressed, up to the lock.
Press(c) ==
    /\ pc[UI] = "idle" /\ cur < MaxClients
    /\ Goto(UI, "press")
    /\ want' = c /\ cancelled' = cur
    /\ UNCHANGED <<lock, client, superseded, state, tokens, flow, ref, coords, shown>>

\* Mutant of Pressed: the coordinator is left to the supervisor.
PressedOverStream ==
    /\ lock = None /\ pc[UI] = "press"
    /\ superseded' = cur
    /\ Build /\ Goto(UI, "ask") /\ UNCHANGED <<lock, coords>>
    /\ UNCHANGED <<want, cancelled, tokens, flow, ref, shown>>

Pressed ==
    /\ lock = None /\ pc[UI] = "press"
    /\ superseded' = cur
    /\ \/ ref # None /\ Signal(UI, "replace") /\ UNCHANGED <<client, state>>
       \/ ref = None /\ Build /\ Goto(UI, "ask") /\ UNCHANGED <<lock, coords>>
    /\ UNCHANGED <<want, cancelled, tokens, flow, ref, shown>>

\* _stop_coordinator returns; the client is replaced either way.
LetGo == ref' = IF ref \in alive THEN ref ELSE None

Replaced ==
    /\ lock = UI /\ pc[UI] = "replace"
    /\ LetGo /\ Build
    /\ lock' = None /\ Goto(UI, "ask")
    /\ UNCHANGED <<want, superseded, cancelled, tokens, flow, coords, shown>>

\* Without the lock: the simulator grants at once, the service starts a device
\* flow, or the request fails.
Ask ==
    /\ pc[UI] = "ask" /\ Goto(UI, "idle")
    /\ \/ want \in Simulated
          /\ tokens' = tokens \cup {want} /\ state' = "authorized" /\ flow' = flow
       \/ want \notin Simulated
          /\ state' = "pending" /\ flow' = [flow EXCEPT ![cur] = "polling"]
          /\ tokens' = tokens
       \/ UNCHANGED <<state, tokens, flow>>
    /\ UNCHANGED <<lock, want, client, superseded, cancelled, ref, coords, shown>>

\* closedPrefsConfigUi, up to the lock in _rebuild_client.
Save(c) ==
    /\ pc[UI] = "idle"
    /\ config[cur] # c => cur < MaxClients
    /\ Goto(UI, "save")
    /\ want' = c
    /\ UNCHANGED <<lock, client, superseded, cancelled, state, tokens, flow, ref, coords,
                   shown>>

\* Mutant of Saved: the old auth is not marked stale.
SavedUnmarked ==
    /\ lock = None /\ pc[UI] = "save"
    /\ \/ config[cur] # want /\ ref # None
          /\ Signal(UI, "rebuild") /\ UNCHANGED <<client, state>>
       \/ config[cur] # want /\ ref = None
          /\ Build /\ Goto(UI, "reconcile") /\ UNCHANGED <<lock, coords>>
    /\ UNCHANGED <<want, superseded, cancelled, tokens, flow, ref, shown>>

Saved ==
    /\ lock = None /\ pc[UI] = "save"
    /\ \/ config[cur] = want
          /\ Goto(UI, "reconcile")
          /\ UNCHANGED <<lock, client, superseded, state, coords>>
       \/ config[cur] # want /\ ref # None
          /\ superseded' = cur
          /\ Signal(UI, "rebuild") /\ UNCHANGED <<client, state>>
       \/ config[cur] # want /\ ref = None
          /\ superseded' = cur
          /\ Build /\ Goto(UI, "reconcile") /\ UNCHANGED <<lock, coords>>
    /\ UNCHANGED <<want, cancelled, tokens, flow, ref, shown>>

\* There was a coordinator, so the devices are marked if its successor may not start.
Rebuilt ==
    /\ lock = UI /\ pc[UI] = "rebuild"
    /\ LetGo /\ Build
    /\ shown' = IF state' # "authorized" THEN "auth required" ELSE shown
    /\ lock' = None /\ Goto(UI, "reconcile")
    /\ UNCHANGED <<want, superseded, cancelled, tokens, flow, coords>>

----------------------------------------------------------------------------
(* The worker of client i's device flow.                                   *)

FlowTo(i, place) == flow' = [flow EXCEPT ![i] = place]
Polling(i) == flow[i] \in {"polling", "polling again"}

\* should_stop is asked before each poll.
Cancel(i) ==
    /\ Polling(i) /\ i <= cancelled
    /\ FlowTo(i, "none") /\ SetState(i, "unauthorized")
    /\ UNCHANGED <<pc, lock, want, client, superseded, cancelled, tokens, ref, coords, shown>>

\* The user approved; what a stale auth is granted is dropped.
Approve(i) ==
    /\ Polling(i)
    /\ \/ i > superseded /\ FlowTo(i, "granted") /\ state' = state
       \/ i <= superseded /\ FlowTo(i, "none") /\ SetState(i, "unauthorized")
    /\ UNCHANGED <<pc, lock, want, client, superseded, cancelled, tokens, ref, coords, shown>>

\* _store_token.
Store(i) ==
    /\ flow[i] = "granted"
    /\ tokens' = tokens \cup {config[i]}
    /\ FlowTo(i, "none") /\ SetState(i, "authorized")
    /\ UNCHANGED <<pc, lock, want, client, superseded, cancelled, ref, coords, shown>>

\* The code expired, for the first time: another is asked for, or that fails
\* and the worker dies of it.
Expire(i) ==
    /\ \/ flow[i] = "polling" /\ FlowTo(i, "expired") /\ SetState(i, "unauthorized")
       \/ flow[i] = "expired" /\ FlowTo(i, "polling again") /\ SetState(i, "pending")
       \/ flow[i] = "expired" /\ FlowTo(i, "none") /\ state' = state
    /\ UNCHANGED <<pc, lock, want, client, superseded, cancelled, tokens, ref, coords, shown>>

\* Denied, or expired again; or the poll fails, which leaves the state.
Refuse(i) ==
    /\ Polling(i) /\ FlowTo(i, "failed")
    /\ SetState(i, "unauthorized") \/ state' = state
    /\ UNCHANGED <<pc, lock, want, client, superseded, cancelled, tokens, ref, coords, shown>>

\* It looks whether the failure still matters, then marks the devices.
Judge(i) ==
    /\ \/ flow[i] = "failed" /\ FlowTo(i, IF i = cur /\ ~Authorized THEN "marking" ELSE "none")
          /\ shown' = shown
       \/ flow[i] = "marking" /\ FlowTo(i, "none") /\ shown' = "auth required"
    /\ UNCHANGED <<pc, lock, want, client, superseded, cancelled, state, tokens, ref, coords>>

----------------------------------------------------------------------------
(* A refresh of the stored token, by whichever thread.                     *)

Refresh ==
    /\ config[cur] \in tokens /\ state # "required"
    /\ state' \in {"authorized", "required"}
    /\ UNCHANGED <<pc, lock, want, client, superseded, cancelled, tokens, flow, ref, coords,
                   shown>>

\* After startup().
Init ==
    /\ pc = [t \in Threads |-> Home(t)] /\ lock = None
    /\ cur = 1 /\ superseded = 0 /\ cancelled = 0
    /\ want \in Configs /\ tokens \in SUBSET Configs
    /\ config = [i \in Clients |-> want]
    /\ flow = [i \in Clients |-> "none"]
    /\ serves = [k \in Coordinators |-> 1]
    /\ \/ /\ want \in tokens /\ state = "authorized" /\ shown = "live"
          /\ \E k \in Coordinators :
                 ref = k /\ alive = {k} /\ told = Coordinators \ {k}
       \/ /\ want \notin tokens /\ state = "unauthorized" /\ shown = "waiting"
          /\ ref = None /\ alive = {} /\ told = Coordinators

Works(i) == Cancel(i) \/ Approve(i) \/ Store(i) \/ Expire(i) \/ Refuse(i) \/ Judge(i)

Next ==
    \/ \E t \in Threads : Reconcile(t) \/ Joined(t)
    \/ \E c \in Configs : Press(c) \/ Save(c)
    \/ Pressed \/ Replaced \/ Ask \/ Saved \/ Rebuilt
    \/ \E i \in Clients : Works(i)
    \/ \E k \in Coordinators : Die(k) \/ Push(k)
    \/ Refresh

Spec == Init /\ [][Next]_vars

\* The supervisor comes round and is not kept from the lock by a user for ever;
\* whoever holds it goes on; threads told to stop end.  All of them make requests,
\* whose 401 handler is taken to return (see TokenRefresh).
FairSpec ==
    /\ Spec
    /\ SF_vars(Reconcile(Supervisor)) /\ WF_vars(Joined(Supervisor))
    /\ WF_vars(Joined(UI) \/ Replaced \/ Rebuilt)
    /\ \A k \in Coordinators : WF_vars(Die(k))

----------------------------------------------------------------------------
(* Properties.                                                             *)

\* Types, and every client but the current one is stale.
TypeOK ==
    /\ pc \in [Threads -> Joining \cup {"idle", "reconcile", "press", "ask", "save"}]
    /\ lock \in Threads \cup {None}
    /\ want \in Configs
    /\ cur \in Clients /\ config \in [Clients -> Configs]
    /\ superseded \in cur - 1 .. cur /\ cancelled \in 0 .. cur
    /\ state \in {"unauthorized", "pending", "authorized", "required"}
    /\ tokens \subseteq Configs
    /\ flow \in [Clients -> {"none", "polling", "polling again", "expired", "granted",
                             "failed", "marking"}]
    /\ ref \in Coordinators \cup {None}
    /\ serves \in [Coordinators -> Clients]
    /\ told \subseteq Coordinators /\ alive \subseteq Coordinators
    /\ shown \in {"live", "waiting", "auth required"}

\* Whoever starts and stops coordinators, and however long those told to stop
\* take, no two of them have a thread alive.
OneStream == \A k, l \in alive : k = l

\* A coordinator nobody told to stop is the plugin's own and serves the current
\* client: an api that was replaced is never left streaming.
StreamIsCurrent == \A k \in alive \ told : ref = k /\ serves[k] = cur

Streaming == ref \in alive \ told

\* When authorization is lost under a running coordinator, the devices come to say
\* so and nothing is left that could push over it, though stop() may time out.
LostAuthShown ==
    state = "required" /\ ref # None
        ~> state # "required" \/ (ref = None /\ shown = "auth required")

\* An authorized client gets its stream, even if the coordinator of the client
\* before it was stuck when it was replaced.
ClientGetsStream ==
    Authorized /\ (ref = None \/ serves[ref] # cur) ~> ~Authorized \/ Streaming

\* "the caller must retry rather than assume stopped" (hc_events.py:656, of a
\* stop() that timed out): an authorized plugin comes to stream, or loses its
\* authorization.
AuthorizedStreams == Authorized ~> ~Authorized \/ Streaming

=============================================================================
