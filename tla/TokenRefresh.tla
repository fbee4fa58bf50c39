---------------------------- MODULE TokenRefresh ----------------------------
(***************************************************************************)
(* The refresh of the access token (hc_auth.HomeConnectAuth) by the        *)
(* supervisor thread when it falls due, and by any thread whose request    *)
(* comes back with a 401.  The refresh token is single-use: a lock per     *)
(* client is held for the whole exchange.                                  *)
(*                                                                         *)
(* An access token and its refresh token are one Token; `accepted' are     *)
(* those the service has neither exchanged nor revoked, as far as anybody  *)
(* may yet present them.  Those in `bare' came without a refresh token, as *)
(* their entries in the store do.  A Token nobody refers to any more may   *)
(* be issued again.  The token store (hc_auth.TokenStore) keeps the Token  *)
(* in memory and on disk, which is all a restart of the plugin leaves.     *)
(***************************************************************************)
EXTENDS Integers

CONSTANTS
    Supervisor,     \* the thread of runConcurrentThread
    Requesters,     \* threads that make requests
    Tokens, None,
    MinInterval,    \* MIN_REFRESH_INTERVAL
    Lifetime,       \* from a refresh until the next is due
    BackoffBase,    \* REFRESH_BACKOFF_BASE
    BackoffMax,     \* REFRESH_BACKOFF_MAX
    GateWaits,      \* waits a 429 may impose
    MaxEvents       \* bound on what goes wrong

Threads == Requesters \cup {Supervisor}

ASSUME TokensOK ==
    /\ Supervisor \notin Requesters /\ None \notin Threads \cup Tokens
    /\ Tokens # {}
    /\ MinInterval \in Nat /\ Lifetime \in Nat
    /\ BackoffBase \in Nat /\ BackoffMax \in Nat
    /\ GateWaits \subseteq Nat \ {0}
    /\ MaxEvents \in Nat

\* Every backoff is a number of ticks, as it is if BackoffBase is one.
ASSUME BackoffsOK == \A n \in 0 .. MaxEvents : BackoffBase * 2 ^ n \in Nat

VARIABLES
    pc,             \* where each thread is
    used,           \* the token its 401 is about
    seen,           \* seen_access, until it is compared
    token,          \* use_token, which it presents
    resent,         \* its request was resent after a refresh
    lock,           \* who holds the refresh lock
    stored,         \* the entry of the token store
    disk,           \* the entry in its file
    bare,           \* those of the two whose entry has no refresh token
    unsaved,        \* history: the last save failed
    due,            \* until it is within REFRESH_WINDOW of its expiry
    lastUsed,       \* _last_used_token of the client, one for all threads
    sinceRefresh,   \* since last_refresh, up to MinInterval
    sinceAttempt,   \* since _last_refresh_attempt, up to MinInterval
    backoff,        \* until _refresh_backoff_until
    failures,       \* _refresh_failures
    authRequired,   \* STATE_AUTH_REQUIRED
    gate,           \* gate_wait_remaining()
    accepted,       \* the service accepts these refresh tokens, once
    forsaken,       \* history: a new token was lost, by the network or in a restart,
                    \* or access revoked
    events

locals == <<used, seen, token, resent>>
timers == <<due, sinceRefresh, sinceAttempt, backoff, gate>>
outside == <<disk, bare, unsaved, accepted, forsaken>>
vars == <<pc, locals, lock, stored, lastUsed, timers, failures, authRequired, outside,
          events>>

\* Tokens nobody refers to, one of which the service issues next.
Fresh ==
    Tokens \ ({stored, disk, lastUsed} \cup
              UNION {{used[t], seen[t], token[t]} : t \in Threads})
NewToken == CHOOSE k \in Fresh : TRUE

Lower(m, n) == IF m < n THEN m ELSE n
Higher(m, n) == IF m < n THEN n ELSE m

Sooner(n) == IF n > 0 THEN n - 1 ELSE 0

Goto(t, from, to) == pc[t] = from /\ pc' = [pc EXCEPT ![t] = to]

\* What was called returns to the thread's top, with nothing kept.
Ends(t) ==
    /\ pc' = [pc EXCEPT ![t] = "idle"]
    /\ used' = [used EXCEPT ![t] = None]
    /\ seen' = [seen EXCEPT ![t] = None]
    /\ token' = [token EXCEPT ![t] = None]
    /\ resent' = [resent EXCEPT ![t] = FALSE]

Mishap == events < MaxEvents /\ events' = events + 1

----------------------------------------------------------------------------
(* A thread that makes a request.                                          *)

Send(t) ==
    /\ t \in Requesters /\ gate = 0
    /\ pc[t] \in {"idle", "again"}
    /\ pc' = [pc EXCEPT ![t] = "sent"]
    /\ resent' = [resent EXCEPT ![t] = (pc[t] = "again")]
    /\ lastUsed' = stored
    /\ UNCHANGED <<used, seen, token, lock, stored, timers, failures, authRequired, outside,
                   events>>

\* Any other answer, or a second 401.
Answered(t) ==
    /\ pc[t] = "sent"
    /\ Ends(t)
    /\ UNCHANGED <<lock, stored, lastUsed, timers, failures, authRequired, outside, events>>

\* handle_unauthorized is given the token last used by any thread.
Unauthorized(t) ==
    /\ Mishap
    /\ ~resent[t]
    /\ \/ lastUsed = stored
          /\ Goto(t, "sent", "check")
          /\ used' = [used EXCEPT ![t] = lastUsed]
          /\ UNCHANGED <<seen, token, resent>>
       \/ lastUsed # stored /\ pc[t] = "sent" /\ Ends(t)
    /\ UNCHANGED <<lock, stored, lastUsed, timers, failures, authRequired, outside>>

\* refresh_if_needed returned True: resent if the token is another one.
Resume(t) ==
    /\ pc[t] = "refreshed"
    /\ \/ t \in Requesters /\ stored # used[t]
          /\ Goto(t, "refreshed", "again")
          /\ used' = [used EXCEPT ![t] = None]
          /\ UNCHANGED <<seen, token, resent>>
       \/ (t = Supervisor \/ stored = used[t]) /\ Ends(t)
    /\ UNCHANGED <<lock, stored, lastUsed, timers, failures, authRequired, outside, events>>

----------------------------------------------------------------------------
(* refresh_if_needed.                                                      *)

Wake ==
    /\ Goto(Supervisor, "idle", "check")
    /\ UNCHANGED <<locals, lock, stored, lastUsed, timers, failures, authRequired, outside,
                   events>>

\* Mutant of Allowed: the supervisor refreshes only what a 401 forced it to.
AllowedForced(force) ==
    gate = 0 /\ ~authRequired /\ backoff = 0 /\ force

\* A refresh is wanted and allowed.
Allowed(force) ==
    /\ gate = 0 /\ ~authRequired /\ backoff = 0
    /\ force \/ (due = 0 /\ sinceAttempt = MinInterval)

\* With no refresh token to present, the attempt counts and nothing else happens.
Check(t) ==
    /\ pc[t] = "check"
    /\ \/ /\ Allowed(t # Supervisor) /\ stored \notin bare
          /\ Goto(t, "check", "lock")
          /\ seen' = [seen EXCEPT ![t] = stored]
          /\ sinceAttempt' = 0
          /\ UNCHANGED <<used, token, resent>>
       \/ Allowed(t # Supervisor) /\ stored \in bare /\ Ends(t) /\ sinceAttempt' = 0
       \/ ~Allowed(t # Supervisor) /\ Ends(t) /\ sinceAttempt' = sinceAttempt
    /\ UNCHANGED <<lock, stored, lastUsed, due, sinceRefresh, backoff, gate, failures,
                   authRequired, outside, events>>

\* Mutant of Collapses: a token that is new to this caller is refreshed at once.
CollapsesIfChanged(t) == stored # seen[t]

\* Another thread refreshed in the meantime, or a moment ago.
Collapses(t) == sinceRefresh < MinInterval \/ stored # seen[t]

\* Mutant of Acquire: it presents the refresh token of the entry it saw.
AcquireSeen(t) ==
    /\ lock = None
    /\ \/ sinceRefresh < MinInterval /\ Goto(t, "lock", "refreshed") /\ UNCHANGED <<lock, token>>
       \/ sinceRefresh >= MinInterval /\ Goto(t, "lock", "gate")
          /\ lock' = t /\ token' = [token EXCEPT ![t] = seen[t]]
    /\ UNCHANGED <<used, seen, resent, stored, lastUsed, timers, failures, authRequired,
                   outside, events>>

Acquire(t) ==
    /\ lock = None
    /\ \/ Collapses(t) /\ Goto(t, "lock", "refreshed") /\ UNCHANGED <<lock, token>>
       \/ ~Collapses(t) /\ Goto(t, "lock", "gate")
          /\ lock' = t /\ token' = [token EXCEPT ![t] = stored]
    /\ seen' = [seen EXCEPT ![t] = None]
    /\ UNCHANGED <<used, resent, stored, lastUsed, timers, failures, authRequired,
                   outside, events>>

\* The exchange goes through the client too, without a token.
Post(t) ==
    /\ gate = 0
    /\ Goto(t, "gate", "posted")
    /\ lastUsed' = None
    /\ UNCHANGED <<locals, lock, stored, timers, failures, authRequired, outside, events>>

\* TokenStore.set: when the file cannot be replaced, the old one stays.
Save(k) ==
    /\ stored' = k
    /\ \/ disk' = k /\ unsaved' = FALSE
       \/ disk' = disk /\ unsaved' = TRUE

\* Of the tokens accepted, those that may be presented after a new one is stored.
StillOfUse == accepted \cap ({disk'} \cup {token[t] : t \in Threads})

\* _store_token stores what the answer has, with or without a refresh token; it
\* also ends STATE_AUTH_REQUIRED.
Store(k) ==
    /\ Fresh # {}
    /\ Save(k)
    /\ \E b \in SUBSET {k} : bare' = b \cup (bare \cap {disk'})
    /\ due' = Lifetime
    /\ authRequired' = FALSE

Granted(t) ==
    /\ token[t] \in accepted
    /\ Goto(t, "posted", "refreshed")
    /\ Store(NewToken)
    /\ accepted' = (StillOfUse \ {token[t]}) \cup {NewToken}
    /\ sinceRefresh' = 0 /\ failures' = 0
    /\ lock' = None /\ token' = [token EXCEPT ![t] = None]
    /\ IF unsaved' \/ stored' \in bare' THEN Mishap ELSE events' = events
    /\ UNCHANGED <<used, seen, resent, lastUsed, sinceAttempt, backoff, gate, forsaken>>

\* The exchange is over without a token to store.
GivesUp(t) ==
    /\ pc[t] = "posted"
    /\ Ends(t)
    /\ lock' = None
    /\ UNCHANGED <<stored, bare, lastUsed, due, sinceRefresh>>

\* A generic failure: exponential backoff.
BacksOff ==
    /\ failures' = failures + 1
    /\ backoff' = Lower(BackoffBase * 2 ^ failures, BackoffMax)
    /\ UNCHANGED authRequired

\* The service exchanged the token if it still could; the answer does not
\* arrive, or does not carry what _store_token needs and raises.
Lost(t) ==
    /\ Mishap
    /\ GivesUp(t)
    /\ accepted' = accepted \ {token[t]} /\ forsaken' = TRUE
    /\ BacksOff \/ UNCHANGED <<failures, backoff, authRequired>>
    /\ UNCHANGED <<gate, sinceAttempt, disk, unsaved>>

\* No answer and no exchange, or a 5xx.
Failed(t) ==
    /\ Mishap
    /\ GivesUp(t)
    /\ BacksOff
    /\ UNCHANGED <<gate, sinceAttempt, outside>>

\* The endpoint's own limit also closes the gate, and sets the backoff if it
\* says for how long.
TooMany(t) ==
    /\ Mishap
    /\ GivesUp(t)
    /\ \E w \in GateWaits :
           /\ gate' = Higher(gate, w)
           /\ BacksOff \/ (backoff' = w /\ UNCHANGED <<failures, authRequired>>)
    /\ UNCHANGED <<sinceAttempt, outside>>

InvalidGrant(t) ==
    /\ token[t] \notin accepted
    /\ GivesUp(t)
    /\ authRequired' = TRUE
    /\ UNCHANGED <<failures, backoff, gate, sinceAttempt, outside, events>>

\* A 401 from the token endpoint runs the same handler, while the lock is held.
Denied(t) ==
    /\ Mishap
    /\ \/ /\ lastUsed = stored /\ Allowed(TRUE) /\ stored \notin bare
          /\ Goto(t, "posted", "own lock")
          /\ sinceAttempt' = 0
          /\ UNCHANGED <<locals, lock, stored, lastUsed, due, sinceRefresh, backoff, failures,
                         authRequired, gate>>
       \/ /\ ~(lastUsed = stored /\ Allowed(TRUE) /\ stored \notin bare)
          /\ sinceAttempt' = IF lastUsed = stored /\ Allowed(TRUE) THEN 0 ELSE sinceAttempt
          /\ GivesUp(t) /\ BacksOff /\ gate' = gate
    /\ UNCHANGED outside

----------------------------------------------------------------------------
\* A device flow ends with a token.
NewGrant ==
    /\ Mishap
    /\ Store(NewToken)
    /\ accepted' = StillOfUse \cup {NewToken}
    /\ UNCHANGED <<pc, locals, lock, lastUsed, sinceRefresh, sinceAttempt, backoff, gate,
                   failures, forsaken>>

\* The user revokes access, or leaves it unused for 60 days.
Revoke ==
    /\ Mishap
    /\ accepted' = {} /\ forsaken' = TRUE
    /\ UNCHANGED <<pc, locals, lock, stored, disk, bare, unsaved, lastUsed, timers, failures,
                   authRequired>>

\* The plugin stops and starts; the service may have gone on to exchange the
\* token presented last.
Restart ==
    /\ Mishap
    /\ pc' = [t \in Threads |-> "idle"]
    /\ used' = [t \in Threads |-> None]
    /\ seen' = [t \in Threads |-> None]
    /\ token' = [t \in Threads |-> None]
    /\ resent' = [t \in Threads |-> FALSE]
    /\ lock' = None /\ lastUsed' = None
    /\ stored' = disk /\ unsaved' = FALSE
    /\ IF disk = stored THEN due' = due ELSE due' \in 0 .. Lifetime
    /\ sinceRefresh' = MinInterval /\ sinceAttempt' = MinInterval
    /\ backoff' = 0 /\ failures' = 0 /\ gate' = 0 /\ authRequired' = FALSE
    /\ \/ accepted' = accepted \cap {disk} /\ forsaken' = (forsaken \/ unsaved)
       \/ \E t \in Threads :
             /\ pc[t] = "posted"
             /\ accepted' = (accepted \cap {disk}) \ {token[t]} /\ forsaken' = TRUE
    /\ disk' = disk /\ bare' = bare \cap {disk}

Tick ==
    /\ due' = Sooner(due) /\ backoff' = Sooner(backoff) /\ gate' = Sooner(gate)
    /\ sinceRefresh' = Lower(sinceRefresh + 1, MinInterval)
    /\ sinceAttempt' = Lower(sinceAttempt + 1, MinInterval)
    /\ UNCHANGED <<pc, locals, lock, stored, lastUsed, failures, authRequired, outside, events>>

Init ==
    /\ pc = [t \in Threads |-> "idle"]
    /\ used = [t \in Threads |-> None]
    /\ seen = [t \in Threads |-> None]
    /\ token = [t \in Threads |-> None]
    /\ resent = [t \in Threads |-> FALSE]
    /\ lock = None /\ lastUsed = None
    /\ stored = (CHOOSE k \in Tokens : TRUE) /\ due \in 0 .. Lifetime
    /\ disk = stored /\ unsaved = FALSE
    /\ sinceRefresh = MinInterval /\ sinceAttempt = MinInterval
    /\ backoff = 0 /\ failures = 0 /\ gate = 0
    /\ authRequired = FALSE /\ forsaken = FALSE
    /\ bare = {} /\ accepted = {stored} /\ events = 0

\* What a thread does by itself; every request is answered or times out.
Exchange(t) ==
    \/ Post(t) \/ Granted(t) \/ Lost(t) \/ Failed(t) \/ TooMany(t) \/ InvalidGrant(t)
    \/ Denied(t)
Proceed(t) == Answered(t) \/ Unauthorized(t) \/ Resume(t) \/ Check(t) \/ Exchange(t)

Next ==
    \/ \E t \in Threads : Proceed(t) \/ Acquire(t) \/ Send(t)
    \/ Wake \/ NewGrant \/ Revoke \/ Restart \/ Tick

Spec == Init /\ [][Next]_vars

\* The threads are scheduled, a free lock is not refused for ever to one that
\* waits for it, and time passes.
FairSpec ==
    /\ Spec /\ WF_vars(Wake) /\ WF_vars(Tick)
    /\ \A t \in Threads : WF_vars(Proceed(t)) /\ SF_vars(Acquire(t))

----------------------------------------------------------------------------
(* Properties.                                                             *)

TypeOK ==
    /\ pc \in [Threads -> {"idle", "sent", "again", "check", "lock", "gate", "posted",
                           "own lock", "refreshed"}]
    /\ used \in [Threads -> Tokens \cup {None}]
    /\ seen \in [Threads -> Tokens \cup {None}]
    /\ token \in [Threads -> Tokens \cup {None}]
    /\ resent \in [Threads -> BOOLEAN]
    /\ lock \in Threads \cup {None}
    /\ stored \in Tokens /\ disk \in Tokens /\ lastUsed \in Tokens \cup {None}
    /\ due \in 0 .. Lifetime
    /\ sinceRefresh \in 0 .. MinInterval /\ sinceAttempt \in 0 .. MinInterval
    /\ backoff \in Nat /\ gate \in Nat /\ failures \in Nat
    /\ authRequired \in BOOLEAN /\ forsaken \in BOOLEAN /\ unsaved \in BOOLEAN
    /\ bare \subseteq Tokens /\ accepted \subseteq Tokens
    /\ events \in 0 .. MaxEvents

\* The plugin never loses its authorization by its own doing: however many
\* threads refresh at once, whatever fails and whenever the plugin restarts, the
\* service refuses a refresh token only after an answer was lost, or a token
\* that could not be saved, or the user revoked access.
AuthorizationKept == authRequired => forsaken

\* A token just refreshed is not refreshed again within MinInterval, even by
\* threads whose 401s are about the token before it (a restart forgets when).
RefreshesSpaced == [][\A t \in Threads : Post(t) => sinceRefresh = MinInterval]_vars

\* A token that falls due is replaced, or the user is asked to authorize, unless
\* a thread waits for the lock it holds itself (see WaitersGetLock), or the entry
\* has no refresh token: then nothing replaces it and nobody is asked.
DueIsRefreshed ==
    due = 0 ~> \/ due > 0 \/ authRequired \/ stored \in bare
               \/ \E t \in Threads : pc[t] = "own lock"

\* "a second caller that arrives while a refresh is in flight waits, then
\* re-reads the freshly rotated token" (hc_auth.py:23-25): a waiting caller
\* gets the lock.
WaitersGetLock == \A t \in Threads : pc[t] = "lock" ~> pc[t] # "lock"

=============================================================================
