--------------------------- MODULE ApplianceProofs ---------------------------
(***************************************************************************)
(* Theorems about Appliance, for every value of its constants.  The run    *)
(* MCAppliance_safety checks the same formulas on a small instance.        *)
(***************************************************************************)
EXTENDS Appliance, TLAPS

----------------------------------------------------------------------------
(* The heap: what a post, a pop and a tick do to the kinds it holds.       *)

\* A post adds its job and keeps the others, wherever it is put.
LEMMA PostedAdds ==
    ASSUME NEW s \in Seq(Jobs), NEW j \in Jobs, NEW t \in Posted(s, j)
    PROVE  /\ t \in Seq(Jobs)
           /\ \A kind : Pending(t, kind) <=> Pending(s, kind) \/ j.kind = kind
           /\ \A kind : AtMostOne(s, kind) /\ (j.kind = kind => ~Pending(s, kind))
                            => AtMostOne(t, kind)
<1>1. PICK p \in 1 .. (Len(s) + 1) : t = InsertAt(s, p, j)
  BY DEF Posted
<1>2. /\ t \in Seq(Jobs)
      /\ Len(t) = Len(s) + 1
      /\ \A i \in 1 .. Len(t) : t[i] = IF i < p THEN s[i] ELSE IF i = p THEN j ELSE s[i - 1]
  BY <1>1 DEF InsertAt
<1>a. ASSUME NEW n \in 1 .. Len(t), n # p
      PROVE  IF n < p THEN n \in 1 .. Len(s) /\ t[n] = s[n]
                      ELSE n - 1 \in 1 .. Len(s) /\ t[n] = s[n - 1]
  BY <1>2, <1>a
<1>3. ASSUME NEW kind PROVE Pending(t, kind) <=> Pending(s, kind) \/ j.kind = kind
  <2>1. ASSUME NEW i \in 1 .. Len(s), s[i].kind = kind PROVE Pending(t, kind)
    <3>1. CASE i < p
      BY <1>2, <2>1, <3>1 DEF Pending
    <3>2. CASE ~(i < p)
      <4>1. i + 1 \in 1 .. Len(t) /\ t[i + 1] = s[i]
        BY <1>2, <3>2
      <4> QED BY <2>1, <4>1 DEF Pending
    <3> QED BY <3>1, <3>2
  <2>2. ASSUME j.kind = kind PROVE Pending(t, kind)
    BY <1>2, <2>2 DEF Pending
  <2>3. ASSUME NEW i \in 1 .. Len(t), t[i].kind = kind
        PROVE  Pending(s, kind) \/ j.kind = kind
    <3>1. CASE i < p
      BY <1>2, <2>3, <3>1 DEF Pending
    <3>2. CASE i = p
      BY <1>2, <2>3, <3>2
    <3>3. CASE i > p
      <4>1. i - 1 \in 1 .. Len(s) /\ t[i] = s[i - 1]
        BY <1>2, <3>3
      <4> QED BY <2>3, <4>1 DEF Pending
    <3> QED BY <3>1, <3>2, <3>3
  <2> QED BY <2>1, <2>2, <2>3 DEF Pending
<1>4. ASSUME NEW kind, AtMostOne(s, kind), j.kind = kind => ~Pending(s, kind)
      PROVE  AtMostOne(t, kind)
  <2> SUFFICES ASSUME NEW i \in 1 .. Len(t), NEW k \in 1 .. Len(t),
                      t[i].kind = kind, t[k].kind = kind
               PROVE  i = k
    BY DEF AtMostOne
  <2>1. CASE j.kind = kind
    <3>1. \A n \in 1 .. Len(t) : n # p => t[n].kind # kind
      <4> SUFFICES ASSUME NEW n \in 1 .. Len(t), n # p, t[n].kind = kind PROVE FALSE
        OBVIOUS
      <4> QED BY <1>a, <1>4, <2>1 DEF Pending
    <3> QED BY <3>1
  <2>2. CASE j.kind # kind
    <3>1. i # p /\ k # p
      BY <1>2, <2>2
    <3>2. /\ i < p => i \in 1 .. Len(s) /\ s[i].kind = kind
          /\ i > p => i - 1 \in 1 .. Len(s) /\ s[i - 1].kind = kind
      BY <1>a, <3>1
    <3>3. /\ k < p => k \in 1 .. Len(s) /\ s[k].kind = kind
          /\ k > p => k - 1 \in 1 .. Len(s) /\ s[k - 1].kind = kind
      BY <1>a, <3>1
    <3>4. CASE i < p /\ k < p
      BY <1>4, <3>2, <3>3, <3>4 DEF AtMostOne
    <3>5. CASE i > p /\ k > p
      <4>1. i - 1 = k - 1
        BY <1>4, <3>2, <3>3, <3>5 DEF AtMostOne
      <4> QED BY <4>1
    <3>6. CASE i < p /\ k > p
      <4>1. i = k - 1
        BY <1>4, <3>2, <3>3, <3>6 DEF AtMostOne
      <4> QED BY <3>6, <4>1
    <3>7. CASE i > p /\ k < p
      <4>1. i - 1 = k
        BY <1>4, <3>2, <3>3, <3>7 DEF AtMostOne
      <4> QED BY <3>7, <4>1
    <3> QED BY <3>1, <3>4, <3>5, <3>6, <3>7
  <2> QED BY <2>1, <2>2
<1> QED BY <1>2, <1>3, <1>4

\* A pop takes the first job and keeps the others.
LEMMA TailDrops ==
    ASSUME NEW s \in Seq(Jobs), Len(s) > 0
    PROVE  /\ Tail(s) \in Seq(Jobs)
           /\ \A kind : Pending(Tail(s), kind) => Pending(s, kind)
           /\ \A kind : s[1].kind # kind => (Pending(s, kind) <=> Pending(Tail(s), kind))
           /\ \A kind : AtMostOne(s, kind) => AtMostOne(Tail(s), kind)
           /\ \A kind : AtMostOne(s, kind) /\ s[1].kind = kind => ~Pending(Tail(s), kind)
<1>1. /\ Tail(s) \in Seq(Jobs)
      /\ Len(Tail(s)) = Len(s) - 1
      /\ \A i \in 1 .. Len(Tail(s)) : Tail(s)[i] = s[i + 1] /\ i + 1 \in 1 .. Len(s)
  OBVIOUS
<1>2. ASSUME NEW kind, Pending(Tail(s), kind) PROVE Pending(s, kind)
  BY <1>1, <1>2 DEF Pending
<1>3. ASSUME NEW kind, s[1].kind # kind, Pending(s, kind) PROVE Pending(Tail(s), kind)
  <2>1. PICK i \in 1 .. Len(s) : s[i].kind = kind
    BY <1>3 DEF Pending
  <2>2. i - 1 \in 1 .. Len(Tail(s)) /\ Tail(s)[i - 1] = s[i]
    BY <1>1, <1>3, <2>1
  <2> QED BY <2>1, <2>2 DEF Pending
<1>4. ASSUME NEW kind, AtMostOne(s, kind) PROVE AtMostOne(Tail(s), kind)
  <2> SUFFICES ASSUME NEW i \in 1 .. Len(Tail(s)), NEW k \in 1 .. Len(Tail(s)),
                      Tail(s)[i].kind = kind, Tail(s)[k].kind = kind
               PROVE  i = k
    BY DEF AtMostOne
  <2>1. i + 1 = k + 1
    BY <1>1, <1>4 DEF AtMostOne
  <2> QED BY <2>1
<1>5. ASSUME NEW kind, AtMostOne(s, kind), s[1].kind = kind PROVE ~Pending(Tail(s), kind)
  <2> SUFFICES ASSUME NEW i \in 1 .. Len(Tail(s)), Tail(s)[i].kind = kind PROVE FALSE
    BY DEF Pending
  <2>1. 1 = i + 1
    BY <1>1, <1>5 DEF AtMostOne
  <2> QED BY <2>1
<1> QED BY <1>1, <1>2, <1>3, <1>4, <1>5

\* Time changes no kind.
LEMMA TickedKeeps ==
    ASSUME NEW s \in Seq(Jobs)
    PROVE  /\ Ticked(s) \in Seq(Jobs)
           /\ \A kind : Pending(Ticked(s), kind) <=> Pending(s, kind)
           /\ \A kind : AtMostOne(s, kind) => AtMostOne(Ticked(s), kind)
<1>1. /\ Ticked(s) \in Seq(Jobs)
      /\ Len(Ticked(s)) = Len(s)
      /\ \A i \in 1 .. Len(s) : Ticked(s)[i].kind = s[i].kind /\ Ticked(s)[i].gen = s[i].gen
  <2>1. ASSUME NEW i \in 1 .. Len(s)
        PROVE  /\ [s[i] EXCEPT !.left = Sooner(@)] \in Jobs
               /\ [s[i] EXCEPT !.left = Sooner(@)].kind = s[i].kind
               /\ [s[i] EXCEPT !.left = Sooner(@)].gen = s[i].gen
    <3>1. s[i] \in Jobs
      OBVIOUS
    <3> QED BY <3>1 DEF Jobs, Sooner
  <2>2. Ticked(s) \in [1 .. Len(s) -> Jobs]
    BY <2>1 DEF Ticked
  <2>3. Ticked(s) \in Seq(Jobs) /\ Len(Ticked(s)) = Len(s)
    BY <2>2
  <2>4. \A i \in 1 .. Len(s) : Ticked(s)[i] = [s[i] EXCEPT !.left = Sooner(@)]
    BY DEF Ticked
  <2> QED BY <2>1, <2>3, <2>4
<1> QED BY <1>1 DEF Pending, AtMostOne
----------------------------------------------------------------------------
(* The queue: what the two helpers of the handlers return.                 *)

\* What holds of the object alone: it is well-typed, it is parked exactly when
\* it gave up, and reads that are wanted are scheduled.
QueueOK(a) ==
    /\ a \in Appliances
    /\ a.parked <=> a.failures = GiveUpAfter
    /\ a.failures <= GiveUpAfter
    /\ a.parked => a.actions = None /\ ~a.scheduled
    /\ a.actions # None => a.scheduled

\* A queue that was unparked is well-formed, and only that changed.
LEMMA UnparkOK ==
    ASSUME NEW a, QueueOK(a)
    PROVE  LET b == Unpark(a)
           IN  /\ QueueOK(b)
               /\ ~b.parked
               /\ b.connected = a.connected /\ b.age = a.age
               /\ b.scheduled = a.scheduled /\ b.actions = a.actions
<1> DEFINE b == Unpark(a)
<1>1. /\ b \in Appliances
      /\ b.parked = FALSE /\ b.failures = 0
  BY DEF QueueOK, Unpark, Appliances
<1>2. /\ b.connected = a.connected /\ b.age = a.age
      /\ b.scheduled = a.scheduled /\ b.actions = a.actions
  BY DEF QueueOK, Unpark, Appliances
<1> HIDE DEF b
<1>3. QueueOK(b)
  BY <1>1, <1>2, ConstantsOK DEF QueueOK
<1> QED BY <1>1, <1>2, <1>3 DEF b

\* _schedule_read keeps the object well-formed and touches the flag and the
\* freshness of the last pass in no way; it only ever sets _read_scheduled.
LEMMA ScheduleReadOK ==
    ASSUME NEW a, QueueOK(a), NEW force \in BOOLEAN
    PROVE  LET b == ScheduleRead(a, force)
           IN  /\ QueueOK(b)
               /\ b.connected = a.connected /\ b.age = a.age
               /\ a.scheduled => b.scheduled
               /\ b.parked => a.parked /\ ~force
               /\ b.actions \in {a.actions, PassLength}
               /\ a.actions # None => b.actions = a.actions
<1> DEFINE c == IF a.parked /\ force THEN Unpark(a) ELSE a
<1>1. /\ QueueOK(c)
      /\ c.connected = a.connected /\ c.age = a.age
      /\ c.scheduled = a.scheduled /\ c.actions = a.actions
      /\ c.parked => a.parked /\ ~force
  <2>1. CASE a.parked /\ force
    BY <2>1, UnparkOK
  <2>2. CASE ~(a.parked /\ force)
    BY <2>2
  <2> QED BY <2>1, <2>2
<1>2. \/ ScheduleRead(a, force) = c
      \/ /\ ~c.parked /\ c.actions = None
         /\ ScheduleRead(a, force) = [c EXCEPT !.actions = PassLength, !.scheduled = TRUE]
  BY DEF ScheduleRead
<1> HIDE DEF c
<1>3. CASE ScheduleRead(a, force) = c
  BY <1>1, <1>3
<1>4. CASE /\ ~c.parked /\ c.actions = None
           /\ ScheduleRead(a, force) = [c EXCEPT !.actions = PassLength, !.scheduled = TRUE]
  <2> DEFINE b == ScheduleRead(a, force)
  <2>b. b = [c EXCEPT !.actions = PassLength, !.scheduled = TRUE]
    BY <1>4
  <2> HIDE DEF b
  <2>1. /\ b \in Appliances
        /\ b.scheduled = TRUE /\ b.actions = PassLength
        /\ b.parked = c.parked /\ b.failures = c.failures
        /\ b.connected = c.connected /\ b.age = c.age
    <3>1. c \in Appliances /\ PassLength \in 0 .. PassLength \cup {None}
      BY <1>1, ConstantsOK DEF QueueOK
    <3> QED BY <3>1, <2>b DEF Appliances
  <2>2. QueueOK(b)
    BY <1>1, <1>4, <2>1 DEF QueueOK
  <2> QED BY <1>1, <1>4, <2>1, <2>2 DEF b
<1> QED BY <1>2, <1>3, <1>4

\* _set_connected: the flag is set; False leaves no reads; True unparks a
\* queue that was offline.
LEMMA SetConnectedOK ==
    ASSUME NEW a, QueueOK(a), NEW value \in BOOLEAN
    PROVE  LET b == SetConnected(a, value)
           IN  /\ QueueOK(b)
               /\ b.connected <=> value
               /\ b.age = a.age
               /\ a.scheduled => b.scheduled
               /\ b.parked => a.parked
               /\ b.parked /\ b.connected => a.connected
               /\ ~value => b.actions = None
               /\ value => b.actions \in {a.actions, PassLength}
<1>1. CASE ~value
  <2> DEFINE b == SetConnected(a, value)
  <2>1. b = [a EXCEPT !.connected = FALSE, !.actions = None]
    BY <1>1 DEF SetConnected
  <2> HIDE DEF b
  <2>2. /\ b \in Appliances
        /\ b.connected = FALSE /\ b.actions = None
        /\ b.parked = a.parked /\ b.failures = a.failures
        /\ b.age = a.age /\ b.scheduled = a.scheduled
    BY <2>1 DEF QueueOK, Appliances
  <2>3. QueueOK(b)
    BY <2>2 DEF QueueOK
  <2> QED BY <1>1, <2>2, <2>3 DEF b
<1>2. CASE value /\ a.connected
  <2>1. SetConnected(a, value) = ScheduleRead(a, FALSE)
    BY <1>2 DEF SetConnected
  <2> DEFINE b == ScheduleRead(a, FALSE)
  <2>2. /\ QueueOK(b) /\ b.connected = a.connected /\ b.age = a.age
        /\ a.scheduled => b.scheduled
        /\ b.parked => a.parked
        /\ b.actions \in {a.actions, PassLength}
    BY ScheduleReadOK
  <2> HIDE DEF b
  <2> QED BY <1>2, <2>1, <2>2 DEF b
<1>3. CASE value /\ ~a.connected
  <2> DEFINE c == [Unpark(a) EXCEPT !.connected = TRUE]
  <2>1. SetConnected(a, value) = ScheduleRead(c, FALSE)
    BY <1>3 DEF SetConnected
  <2>2. /\ QueueOK(c)
        /\ c.connected /\ ~c.parked /\ c.age = a.age
        /\ c.scheduled = a.scheduled /\ c.actions = a.actions
    <3> DEFINE u == Unpark(a)
    <3>1. /\ QueueOK(u) /\ ~u.parked /\ u.age = a.age
          /\ u.scheduled = a.scheduled /\ u.actions = a.actions
      BY UnparkOK
    <3> HIDE DEF u
    <3>2. /\ c = [u EXCEPT !.connected = TRUE]
          /\ u \in Appliances
      BY <3>1 DEF u, QueueOK
    <3> HIDE DEF c
    <3>3. /\ c \in Appliances
          /\ c.connected = TRUE /\ c.parked = u.parked /\ c.failures = u.failures
          /\ c.age = u.age /\ c.scheduled = u.scheduled /\ c.actions = u.actions
      BY <3>2 DEF Appliances
    <3> QED BY <3>1, <3>3 DEF QueueOK
  <2> HIDE DEF c
  <2> DEFINE b == ScheduleRead(c, FALSE)
  <2>3. /\ QueueOK(b) /\ b.connected = c.connected /\ b.age = c.age
        /\ c.scheduled => b.scheduled
        /\ b.parked => c.parked
        /\ b.actions \in {c.actions, PassLength}
    BY <2>2, ScheduleReadOK
  <2> HIDE DEF b
  <2> QED BY <1>3, <2>1, <2>2, <2>3 DEF b
<1> QED BY <1>1, <1>2, <1>3

----------------------------------------------------------------------------
(* The inductive invariant.                                                *)

\* The half of ReadJobExact that holds whatever a GET comes back with.
ReadJobs ==
    /\ worker # "idle" \/ Pending(jobs, "read") => app.scheduled
    /\ worker # "idle" => ~Pending(jobs, "read")
    /\ AtMostOne(jobs, "read")

IInv ==
    /\ TypeOK
    /\ QueueOK(app)
    /\ ReadJobs
    /\ ParkedOnlineIsProbed
    /\ RemovedStaysQuiet

\* Every job a handler may post or the environment posts is a job.
LEMMA JobOK ==
    ASSUME NEW kind \in Kinds, NEW g \in Nat, NEW delay \in Nat
    PROVE  /\ Job(kind, g, delay) \in Jobs
           /\ Job(kind, g, delay).kind = kind
           /\ Job(kind, g, delay).gen = g
BY DEF Job, Jobs

LEMMA BackoffOK ==
    ASSUME NEW delay \in Nat
    PROVE  Backoff(delay) \in Nat
BY ConstantsOK DEF Backoff, Lower

\* What a handler that ran as the first job did to the heap, for a result `a'
\* that keeps _read_scheduled if it was set.
LEMMA HandledOK ==
    ASSUME TypeOK, ReadJobs, worker = "idle", Len(jobs) > 0,
           jobs[1].kind # "read",
           NEW a, a.scheduled \in BOOLEAN, app.scheduled => a.scheduled,
           Handled(a), worker' = worker
    PROVE  /\ app' = a
           /\ jobs' \in Seq(Jobs)
           /\ ReadJobs'
           /\ \A kind : kind # jobs[1].kind /\ Pending(jobs, kind) => Pending(jobs', kind)
           /\ (app.scheduled => Pending(jobs, "read"))
                 => (a.scheduled => Pending(jobs', "read"))
<1> DEFINE rest == Tail(jobs)
<1>1. /\ rest \in Seq(Jobs)
      /\ \A kind : kind # jobs[1].kind => (Pending(jobs, kind) <=> Pending(rest, kind))
      /\ AtMostOne(rest, "read")
  BY TailDrops DEF TypeOK, ReadJobs
<1>2. app' = a /\ app.scheduled \in BOOLEAN
  BY DEF Handled, TypeOK, Appliances
<1>3. CASE a.scheduled /\ ~app.scheduled
  <2>1. jobs' \in Posted(rest, Job("read", 0, 0))
    BY <1>3 DEF Handled
  <2>2. Job("read", 0, 0) \in Jobs /\ Job("read", 0, 0).kind = "read"
    BY JobOK DEF Kinds, OwnJobs
  <2>3. ~Pending(rest, "read")
    BY <1>1, <1>3 DEF ReadJobs
  <2> HIDE DEF rest
  <2>4. /\ jobs' \in Seq(Jobs)
        /\ \A kind : Pending(jobs', kind) <=> Pending(rest, kind) \/ "read" = kind
        /\ AtMostOne(jobs', "read")
    BY <1>1, <2>1, <2>2, <2>3, PostedAdds
  <2> QED BY <1>1, <1>2, <1>3, <2>4 DEF ReadJobs
<1>4. CASE ~(a.scheduled /\ ~app.scheduled)
  <2>1. jobs' = rest
    BY <1>4 DEF Handled
  <2> HIDE DEF rest
  <2> QED BY <1>1, <1>2, <1>4, <2>1 DEF ReadJobs
<1> QED BY <1>3, <1>4

\* A post of another kind leaves the read job alone.
LEMMA PostedOther ==
    ASSUME NEW s \in Seq(Jobs), NEW j \in Jobs, j.kind # "read", NEW t \in Posted(s, j)
    PROVE  /\ t \in Seq(Jobs)
           /\ Pending(t, "read") <=> Pending(s, "read")
           /\ Pending(s, "probe") => Pending(t, "probe")
           /\ AtMostOne(s, "read") => AtMostOne(t, "read")
BY PostedAdds

\* The other variables are well-typed.
RestOK ==
    /\ gen \in Nat
    /\ worker \in {"idle", "loop", "wire"}
    /\ known \in BOOLEAN
    /\ gate \in Nat
    /\ aborted \in BOOLEAN
    /\ streamUp \in BOOLEAN
    /\ reachable \in BOOLEAN
    /\ lastStream \in {"start", "stop"}
    /\ events \in Nat

LEMMA TypeIsRest == TypeOK <=> app \in Appliances /\ jobs \in Seq(Jobs) /\ RestOK
BY DEF TypeOK, RestOK

\* A handler that is not _run_read preserves the invariant if its result is
\* well-formed, keeps _read_scheduled, and is parked online only if the object
\* already was and the handler is not the probe.
LEMMA HandlerKeeps ==
    ASSUME IInv, NEW kind \in Kinds \ {"read"}, Due(kind),
           NEW a, QueueOK(a), Handled(a),
           app.scheduled => a.scheduled,
           a.parked /\ a.connected => app.parked /\ app.connected /\ kind # "probe",
           worker' = worker, RestOK',
           ~known' => ~a.connected /\ a.actions = None
    PROVE  IInv'
<1>1. /\ worker = "idle" /\ Len(jobs) > 0
      /\ jobs[1].kind = kind /\ jobs[1].kind # "read"
      /\ TypeOK /\ ReadJobs
      /\ a \in Appliances /\ a.scheduled \in BOOLEAN
  BY DEF IInv, Due, QueueOK, Appliances
<1>2. /\ app' = a
      /\ jobs' \in Seq(Jobs)
      /\ ReadJobs'
      /\ \A k : k # jobs[1].kind /\ Pending(jobs, k) => Pending(jobs', k)
  BY <1>1, HandledOK
<1>3. TypeOK' /\ QueueOK(app)'
  BY <1>1, <1>2 DEF TypeOK, RestOK, QueueOK
<1>4. ParkedOnlineIsProbed'
  BY <1>1, <1>2 DEF IInv, ParkedOnlineIsProbed
<1>5. RemovedStaysQuiet'
  BY <1>2 DEF RemovedStaysQuiet
<1> QED BY <1>2, <1>3, <1>4, <1>5 DEF IInv

LEMMA ScheduledKeeps ==
    ASSUME IInv, NEW kind \in Kinds \ {"read"}, Due(kind),
           NEW force \in BOOLEAN, Handled(ScheduleRead(app, force)),
           kind = "probe" => force,
           known',
           worker' = worker, RestOK'
    PROVE  IInv'
<1> DEFINE a == ScheduleRead(app, force)
<1>1. QueueOK(app)
  BY DEF IInv
<1>2. /\ QueueOK(a)
      /\ a.connected = app.connected
      /\ app.scheduled => a.scheduled
      /\ a.parked => app.parked /\ ~force
  BY <1>1, ScheduleReadOK
<1>3. Handled(a)
  OBVIOUS
<1> HIDE DEF a
<1> QED BY <1>2, <1>3, HandlerKeeps

LEMMA ConnectionKeeps ==
    ASSUME IInv, NEW kind \in Kinds \ {"read", "probe"}, Due(kind),
           NEW value \in BOOLEAN, Handled(SetConnected(app, value)),
           ~known' => ~value,
           worker' = worker, RestOK'
    PROVE  IInv'
<1> DEFINE a == SetConnected(app, value)
<1>1. QueueOK(app)
  BY DEF IInv
<1>2. /\ QueueOK(a)
      /\ a.connected <=> value
      /\ app.scheduled => a.scheduled
      /\ a.parked => app.parked
      /\ a.parked /\ a.connected => app.connected
      /\ ~value => a.actions = None
  BY <1>1, SetConnectedOK
<1>3. Handled(a)
  OBVIOUS
<1> HIDE DEF a
<1> QED BY <1>2, <1>3, HandlerKeeps

LEMMA InitIInv == Init => IInv
<1> SUFFICES ASSUME Init PROVE IInv
  OBVIOUS
<1>1. jobs \in Seq(Jobs) /\ Len(jobs) = 1 /\ jobs[1].kind = "paired"
  <2>1. Job("paired", 0, 0) \in Jobs /\ Job("paired", 0, 0).kind = "paired"
    BY JobOK DEF Kinds, WireEvents
  <2> QED BY <2>1 DEF Init
<1>2. app \in Appliances
  BY ConstantsOK DEF Init, Appliances
<1>3. TypeOK
  BY <1>1, <1>2 DEF Init, TypeOK
<1>4. QueueOK(app)
  BY <1>2, ConstantsOK DEF Init, QueueOK
<1>5. ReadJobs
  BY <1>1 DEF Init, ReadJobs, Pending, AtMostOne
<1>6. ParkedOnlineIsProbed /\ RemovedStaysQuiet
  BY DEF Init, ParkedOnlineIsProbed, RemovedStaysQuiet
<1> QED BY <1>3, <1>4, <1>5, <1>6 DEF IInv

\* The handlers of the routed events, of the disconnect job and of the probe.
LEMMA HandlersKeepIInv ==
    ASSUME IInv, Route \/ MaybeDisconnect \/ ParkedProbe
    PROVE  IInv'
<1>1. TypeOK /\ QueueOK(app) /\ RestOK /\ app.connected \in BOOLEAN
  BY TypeIsRest DEF IInv, QueueOK, Appliances
<1>2. CASE OnStreamStart
  <2>1. /\ Due("start") /\ known' /\ worker' = worker
        /\ Handled(ScheduleRead(app, FALSE))
    BY <1>2 DEF OnStreamStart
  <2>2. RestOK'
    BY <1>1, <1>2 DEF OnStreamStart, RestOK
  <2>3. "start" \in Kinds \ {"read", "probe"}
    BY DEF Kinds, StreamEvents, WireEvents
  <2> QED BY <2>1, <2>2, <2>3, ScheduledKeeps
<1>3. CASE OnStreamStop
  <2>1. PICK kind \in {"stop", "stopError"} :
            /\ Due(kind) /\ known
            /\ jobs' \in Posted(Tail(jobs),
                  Job("disconnect", gen + 1, IF kind = "stopError" THEN 0 ELSE Grace))
    BY <1>3 DEF OnStreamStop
  <2> DEFINE j == Job("disconnect", gen + 1, IF kind = "stopError" THEN 0 ELSE Grace)
  <2>2. j \in Jobs /\ j.kind = "disconnect"
    BY <1>1, JobOK, ConstantsOK DEF TypeOK, Kinds, OwnJobs
  <2> HIDE DEF j
  <2>3. /\ Len(jobs) > 0 /\ jobs[1].kind = kind /\ jobs \in Seq(Jobs)
    BY <1>1, <2>1 DEF Due, TypeOK
  <2>4. /\ Tail(jobs) \in Seq(Jobs)
        /\ Pending(Tail(jobs), "read") <=> Pending(jobs, "read")
        /\ Pending(jobs, "probe") => Pending(Tail(jobs), "probe")
        /\ AtMostOne(jobs, "read") => AtMostOne(Tail(jobs), "read")
    BY <2>3, TailDrops
  <2>5. /\ jobs' \in Seq(Jobs)
        /\ Pending(jobs', "read") <=> Pending(Tail(jobs), "read")
        /\ Pending(Tail(jobs), "probe") => Pending(jobs', "probe")
        /\ AtMostOne(Tail(jobs), "read") => AtMostOne(jobs', "read")
    BY <2>1, <2>2, <2>4, PostedOther DEF j
  <2>6. /\ app' = app /\ worker' = worker /\ known' = known
        /\ RestOK'
    BY <1>1, <1>3 DEF OnStreamStop, RestOK
  <2>7. TypeOK' /\ QueueOK(app)'
    BY <1>1, <2>5, <2>6 DEF TypeOK, RestOK, QueueOK
  <2>8. ReadJobs'
    BY <2>4, <2>5, <2>6 DEF IInv, ReadJobs
  <2>9. ParkedOnlineIsProbed' /\ RemovedStaysQuiet'
    BY <2>4, <2>5, <2>6 DEF IInv, ParkedOnlineIsProbed, RemovedStaysQuiet
  <2> QED BY <2>7, <2>8, <2>9 DEF IInv
<1>4. CASE OnConnected
  <2>1. /\ Due("connected") /\ known' /\ worker' = worker
        /\ Handled(SetConnected(app, TRUE))
    BY <1>4 DEF OnConnected
  <2>2. RestOK'
    BY <1>1, <1>4 DEF OnConnected, RestOK
  <2>3. "connected" \in Kinds \ {"read", "probe"}
    BY DEF Kinds, StreamEvents, WireEvents
  <2> QED BY <2>1, <2>2, <2>3, ConnectionKeeps
<1>5. CASE OnDisconnected
  <2>1. /\ Due("disconnected") /\ known' /\ worker' = worker
        /\ Handled(SetConnected(app, FALSE))
    BY <1>5 DEF OnDisconnected
  <2>2. RestOK'
    BY <1>1, <1>5 DEF OnDisconnected, RestOK
  <2>3. "disconnected" \in Kinds \ {"read", "probe"}
    BY DEF Kinds, StreamEvents, WireEvents
  <2> QED BY <2>1, <2>2, <2>3, ConnectionKeeps
<1>6. CASE OnPaired
  <2>1. /\ Due("paired") /\ known' /\ worker' = worker
        /\ Handled(ScheduleRead(app, TRUE))
    BY <1>6 DEF OnPaired
  <2>2. RestOK'
    BY <1>1, <1>6 DEF OnPaired, RestOK
  <2>3. "paired" \in Kinds \ {"read", "probe"}
    BY DEF Kinds, StreamEvents, WireEvents
  <2> QED BY <2>1, <2>2, <2>3, ScheduledKeeps
<1>7. CASE RemoveAppliance
  <2>1. /\ Due("depaired") /\ worker' = worker
        /\ Handled(SetConnected(app, FALSE))
    BY <1>7 DEF RemoveAppliance
  <2>2. RestOK'
    BY <1>1, <1>7 DEF RemoveAppliance, RestOK
  <2>3. "depaired" \in Kinds \ {"read", "probe"}
    BY DEF Kinds, StreamEvents, WireEvents
  <2> QED BY <2>1, <2>2, <2>3, ConnectionKeeps
<1>8. CASE RouteUnknown
  <2>1. PICK kind \in StreamEvents \cup WireEvents : Due(kind)
    BY <1>8 DEF RouteUnknown
  <2>2. /\ kind \in Kinds \ {"read"} /\ kind # "probe"
    BY DEF Kinds, StreamEvents, WireEvents
  <2>3. /\ ~known /\ known' = known /\ worker' = worker
        /\ Handled(app)
        /\ RestOK'
        /\ ~app.connected /\ app.actions = None
    BY <1>1, <1>8 DEF RouteUnknown, RestOK, IInv, RemovedStaysQuiet
  <2> QED BY <1>1, <2>1, <2>2, <2>3, HandlerKeeps
<1>9. CASE MaybeDisconnect
  <2>1. /\ Due("disconnect") /\ known' = known /\ worker' = worker
        /\ RestOK'
        /\ ~known => ~app.connected /\ app.actions = None
        /\ "disconnect" \in Kinds \ {"read"}
    BY <1>1, <1>9 DEF MaybeDisconnect, RestOK, IInv, RemovedStaysQuiet, Kinds, OwnJobs
  <2>2. CASE jobs[1].gen = gen
    <3>1. Handled(SetConnected(app, FALSE))
      BY <1>9, <2>2 DEF MaybeDisconnect
    <3> QED BY <1>1, <2>1, <3>1, SetConnectedOK, HandlerKeeps
  <2>3. CASE jobs[1].gen # gen
    <3>1. Handled(app)
      BY <1>9, <2>3 DEF MaybeDisconnect
    <3> QED BY <1>1, <2>1, <3>1, HandlerKeeps
  <2> QED BY <2>2, <2>3
<1>10. CASE ParkedProbe
  <2>1. /\ Due("probe") /\ known' = known /\ worker' = worker
        /\ RestOK'
        /\ ~known => ~app.connected /\ app.actions = None
        /\ "probe" \in Kinds \ {"read"}
    BY <1>1, <1>10 DEF ParkedProbe, RestOK, IInv, RemovedStaysQuiet, Kinds, OwnJobs
  <2>2. CASE app.parked /\ app.connected
    <3>1. Handled(ScheduleRead(app, TRUE))
      BY <1>10, <2>2 DEF ParkedProbe
    <3> QED BY <1>1, <2>1, <2>2, <3>1, ScheduleReadOK, HandlerKeeps
  <2>3. CASE ~(app.parked /\ app.connected)
    <3>1. Handled(app)
      BY <1>10, <2>3 DEF ParkedProbe
    <3> QED BY <1>1, <2>1, <2>3, <3>1, HandlerKeeps
  <2> QED BY <2>2, <2>3
<1> QED BY <1>2, <1>3, <1>4, <1>5, <1>6, <1>7, <1>8, <1>9, <1>10 DEF Route

\* A step of _run_read that ends it with nothing scheduled and no job posted.
LEMMA DroppedKeeps ==
    ASSUME IInv, worker # "idle", worker' = "idle", known' = known, RestOK',
           NEW a, app' = a, QueueOK(a),
           a.actions = None, ~a.scheduled, a.connected = app.connected,
           jobs' \in Seq(Jobs),
           Pending(jobs', "read") <=> Pending(jobs, "read"),
           AtMostOne(jobs, "read") => AtMostOne(jobs', "read"),
           Pending(jobs, "probe") => Pending(jobs', "probe"),
           a.parked => app.parked \/ Pending(jobs', "probe")
    PROVE  IInv'
<1>1. TypeOK' /\ QueueOK(app)'
  BY DEF TypeOK, RestOK, QueueOK
<1>2. ReadJobs'
  BY DEF IInv, ReadJobs
<1>3. ParkedOnlineIsProbed' /\ RemovedStaysQuiet'
  BY DEF IInv, ParkedOnlineIsProbed, RemovedStaysQuiet
<1> QED BY <1>1, <1>2, <1>3 DEF IInv

\* A step that leaves the object alone, the worker outside _run_read or still
\* inside, and adds no read job.
LEMMA QuietKeeps ==
    ASSUME IInv, app' = app, RestOK',
           known' = known,
           worker' = "idle" <=> worker = "idle",
           jobs' \in Seq(Jobs),
           Pending(jobs', "read") <=> Pending(jobs, "read"),
           AtMostOne(jobs, "read") => AtMostOne(jobs', "read"),
           Pending(jobs, "probe") => Pending(jobs', "probe")
    PROVE  IInv'
<1>1. TypeOK' /\ QueueOK(app)'
  BY DEF IInv, TypeOK, RestOK, QueueOK
<1>2. ReadJobs'
  BY DEF IInv, ReadJobs
<1>3. ParkedOnlineIsProbed' /\ RemovedStaysQuiet'
  BY DEF IInv, ParkedOnlineIsProbed, RemovedStaysQuiet
<1> QED BY <1>1, <1>2, <1>3 DEF IInv

\* _run_read.
LEMMA RunReadKeepsIInv ==
    ASSUME IInv, RunRead
    PROVE  IInv'
<1>1. /\ TypeOK /\ QueueOK(app) /\ ReadJobs /\ RestOK
      /\ app \in Appliances /\ jobs \in Seq(Jobs)
  BY TypeIsRest DEF IInv
<1>2. ASSUME Due("read")
      PROVE  /\ Tail(jobs) \in Seq(Jobs)
             /\ ~Pending(Tail(jobs), "read")
             /\ Pending(jobs, "probe") => Pending(Tail(jobs), "probe")
             /\ AtMostOne(Tail(jobs), "read")
             /\ Pending(jobs, "read")
             /\ app.scheduled /\ worker = "idle"
  <2>1. Len(jobs) > 0 /\ jobs[1].kind = "read" /\ worker = "idle"
    BY <1>2 DEF Due
  <2>2. Pending(jobs, "read")
    BY <1>1, <2>1 DEF Pending
  <2>3. "probe" # "read"
    OBVIOUS
  <2> QED BY <1>1, <2>1, <2>2, <2>3, TailDrops DEF ReadJobs
<1>3. CASE DeferRead
  <2>1. Due("read") /\ app' = app /\ worker' = worker /\ known' = known
    BY <1>3 DEF DeferRead
  <2> DEFINE j == Job("read", 0, Lower(gate + 1, MaxDelay))
  <2>2. j \in Jobs /\ j.kind = "read" /\ jobs' \in Posted(Tail(jobs), j)
    <3>1. Lower(gate + 1, MaxDelay) \in Nat
      BY <1>1, ConstantsOK DEF RestOK, Lower
    <3>2. 0 \in Nat /\ "read" \in Kinds
      BY DEF Kinds, OwnJobs
    <3> QED BY <3>1, <3>2, <1>3, JobOK DEF DeferRead
  <2> HIDE DEF j
  <2>3. /\ jobs' \in Seq(Jobs)
        /\ \A kind : Pending(jobs', kind) <=> Pending(Tail(jobs), kind) \/ "read" = kind
        /\ AtMostOne(jobs', "read")
    BY <1>2, <2>1, <2>2, PostedAdds
  <2>4. RestOK'
    BY <1>1, <1>3 DEF DeferRead, RestOK
  <2> QED BY <1>2, <2>1, <2>3, <2>4, QuietKeeps
<1>4. CASE DropDeferredRead
  <2>1. /\ Due("read") /\ jobs' = Tail(jobs) /\ worker' = worker /\ known' = known
        /\ app.actions = None
        /\ app' = [app EXCEPT !.scheduled = FALSE]
    BY <1>4 DEF DropDeferredRead
  <2>2. /\ app' \in Appliances /\ app'.scheduled = FALSE
        /\ app'.actions = app.actions /\ app'.parked = app.parked
        /\ app'.failures = app.failures /\ app'.connected = app.connected
    BY <1>1, <2>1 DEF Appliances
  <2>3. QueueOK(app)'
    BY <1>1, <2>1, <2>2 DEF QueueOK
  <2>4. RestOK'
    BY <1>1, <1>4 DEF DropDeferredRead, RestOK
  <2>5. TypeOK'
    BY <1>2, <2>1, <2>2, <2>4 DEF TypeOK, RestOK
  <2>6. ReadJobs'
    BY <1>2, <2>1 DEF ReadJobs
  <2>7. ParkedOnlineIsProbed' /\ RemovedStaysQuiet'
    BY <1>2, <2>1, <2>2 DEF IInv, ParkedOnlineIsProbed, RemovedStaysQuiet
  <2> QED BY <2>3, <2>5, <2>6, <2>7 DEF IInv
<1>5. CASE BeginRead
  <2>1. /\ Due("read") /\ jobs' = Tail(jobs) /\ worker' = "loop" /\ known' = known
        /\ app' = app
    BY <1>5 DEF BeginRead
  <2>2. RestOK'
    BY <1>1, <1>5 DEF BeginRead, RestOK
  <2>3. TypeOK' /\ QueueOK(app)'
    BY <1>1, <1>2, <2>1, <2>2 DEF TypeOK, RestOK, QueueOK
  <2>4. ReadJobs'
    BY <1>2, <2>1 DEF ReadJobs
  <2>5. ParkedOnlineIsProbed' /\ RemovedStaysQuiet'
    BY <1>2, <2>1 DEF IInv, ParkedOnlineIsProbed, RemovedStaysQuiet
  <2> QED BY <2>3, <2>4, <2>5 DEF IInv
<1>6. CASE SendGet
  <2>1. app' = app /\ jobs' = jobs /\ worker = "loop" /\ worker' = "wire" /\ known' = known
    BY <1>6 DEF SendGet
  <2>2. RestOK'
    BY <1>1, <1>6 DEF SendGet, RestOK
  <2> QED BY <1>1, <2>1, <2>2, QuietKeeps
<1>7. CASE EndRead
  <2> DEFINE done == [app EXCEPT !.actions = None, !.scheduled = FALSE]
  <2>1. /\ worker = "loop" /\ worker' = "idle" /\ jobs' = jobs /\ known' = known
        /\ app' = IF app.actions = 0 THEN [done EXCEPT !.age = 0, !.failures = 0] ELSE done
    BY <1>7 DEF EndRead
  <2>2. ~app.parked
    BY <1>1, <2>1 DEF ReadJobs, QueueOK
  <2>3. /\ done \in Appliances /\ done.actions = None /\ done.scheduled = FALSE
        /\ done.parked = app.parked /\ done.failures = app.failures
        /\ done.connected = app.connected
    BY <1>1 DEF Appliances
  <2> HIDE DEF done
  <2>4. /\ app' \in Appliances /\ app'.actions = None /\ app'.scheduled = FALSE
        /\ app'.parked = app.parked /\ app'.failures \in {0, app.failures}
        /\ app'.connected = app.connected
    <3>1. CASE app.actions = 0
      <4>1. app' = [done EXCEPT !.age = 0, !.failures = 0] /\ 0 \in 0 .. FreshWindow
        BY <2>1, <3>1, ConstantsOK
      <4> QED BY <2>3, <4>1 DEF Appliances
    <3>2. CASE app.actions # 0
      <4>1. app' = done
        BY <2>1, <3>2
      <4> QED BY <2>3, <4>1
    <3> QED BY <3>1, <3>2
  <2>5. QueueOK(app')
    BY <1>1, <2>2, <2>4, ConstantsOK DEF QueueOK
  <2>6. RestOK'
    BY <1>1, <1>7 DEF EndRead, RestOK
  <2> QED BY <1>1, <2>1, <2>2, <2>4, <2>5, <2>6, DroppedKeeps
<1>8. CASE ReadAborted \/ DropFailedRead
  <2>1. /\ worker # "idle" /\ worker' = "idle" /\ jobs' = jobs /\ known' = known
        /\ app' = [app EXCEPT !.actions = None, !.scheduled = FALSE]
    BY <1>8 DEF ReadAborted, DropFailedRead, ReadFails
  <2>2. ~app.parked
    BY <1>1, <2>1 DEF ReadJobs, QueueOK
  <2>3. /\ app' \in Appliances /\ app'.actions = None /\ app'.scheduled = FALSE
        /\ app'.parked = app.parked /\ app'.failures = app.failures
        /\ app'.connected = app.connected
    BY <1>1, <2>1 DEF Appliances
  <2>4. QueueOK(app')
    BY <1>1, <2>2, <2>3 DEF QueueOK
  <2>5. RestOK'
    BY <1>1, <1>8 DEF ReadAborted, DropFailedRead, RestOK
  <2> QED BY <1>1, <2>1, <2>2, <2>3, <2>4, <2>5, DroppedKeeps
<1>9. CASE ParkReads
  <2>1. /\ worker = "wire" /\ worker' = "idle" /\ known' = known
        /\ app.failures + 1 >= GiveUpAfter
        /\ app' = [app EXCEPT !.failures = @ + 1, !.parked = TRUE,
                              !.actions = None, !.scheduled = FALSE]
        /\ jobs' \in Posted(jobs, Job("probe", 0, ParkedRetry))
    BY <1>9 DEF ParkReads, ReadFails
  <2>2. app.failures < GiveUpAfter /\ app.failures \in Nat
    BY <1>1, <2>1, ConstantsOK DEF ReadJobs, QueueOK, Appliances
  <2>3. /\ app' \in Appliances /\ app'.actions = None /\ app'.scheduled = FALSE
        /\ app'.parked = TRUE /\ app'.failures = app.failures + 1
        /\ app'.connected = app.connected
    <3> DEFINE n == app.failures + 1
    <3>1. /\ app \in Appliances /\ n \in Nat
          /\ app' = [app EXCEPT !.failures = n, !.parked = TRUE,
                                !.actions = None, !.scheduled = FALSE]
      BY <1>1, <2>1, <2>2
    <3> HIDE DEF n
    <3>2. /\ app' \in Appliances /\ app'.actions = None /\ app'.scheduled = FALSE
          /\ app'.parked = TRUE /\ app'.failures = n
          /\ app'.connected = app.connected
      BY <3>1 DEF Appliances
    <3> QED BY <3>2 DEF n
  <2>4. QueueOK(app')
    BY <2>1, <2>2, <2>3, ConstantsOK DEF QueueOK
  <2>5. Job("probe", 0, ParkedRetry) \in Jobs /\ Job("probe", 0, ParkedRetry).kind = "probe"
    BY JobOK, ConstantsOK DEF Kinds, OwnJobs
  <2>6. /\ jobs' \in Seq(Jobs)
        /\ Pending(jobs', "read") <=> Pending(jobs, "read")
        /\ Pending(jobs', "probe")
        /\ AtMostOne(jobs, "read") => AtMostOne(jobs', "read")
    BY <1>1, <2>1, <2>5, PostedAdds
  <2>7. RestOK'
    BY <1>1, <1>9 DEF ParkReads, RestOK
  <2> QED BY <2>1, <2>3, <2>4, <2>6, <2>7, DroppedKeeps
<1>10. CASE BackOffRead
  <2>1. /\ worker = "wire" /\ worker' = "idle" /\ known' = known
        /\ app.connected /\ app.failures + 1 < GiveUpAfter
        /\ app' = [app EXCEPT !.failures = @ + 1, !.delay = Backoff(@)]
        /\ jobs' \in Posted(jobs, Job("read", 0, Backoff(app.delay)))
    BY <1>10 DEF BackOffRead, ReadFails
  <2>2. app.failures \in Nat /\ app.delay \in Nat /\ Backoff(app.delay) \in Nat
    BY <1>1, BackoffOK DEF Appliances
  <2>3. ~app.parked /\ app.scheduled /\ ~Pending(jobs, "read") /\ AtMostOne(jobs, "read")
    BY <1>1, <2>1 DEF ReadJobs, QueueOK
  <2>4. /\ app' \in Appliances /\ app'.actions = app.actions
        /\ app'.scheduled = app.scheduled /\ app'.connected = app.connected
        /\ app'.parked = app.parked /\ app'.failures = app.failures + 1
    <3> DEFINE n == app.failures + 1
               d == Backoff(app.delay)
    <3>1. /\ app \in Appliances /\ n \in Nat /\ d \in Nat
          /\ app' = [app EXCEPT !.failures = n, !.delay = d]
      BY <1>1, <2>1, <2>2
    <3> HIDE DEF n, d
    <3>2. /\ app' \in Appliances /\ app'.actions = app.actions
          /\ app'.scheduled = app.scheduled /\ app'.connected = app.connected
          /\ app'.parked = app.parked /\ app'.failures = n
      BY <3>1 DEF Appliances
    <3> QED BY <3>2 DEF n
  <2>5. QueueOK(app)'
    BY <1>1, <2>1, <2>2, <2>3, <2>4, ConstantsOK DEF QueueOK
  <2>6. /\ Job("read", 0, Backoff(app.delay)) \in Jobs
        /\ Job("read", 0, Backoff(app.delay)).kind = "read"
    BY <2>2, JobOK DEF Kinds, OwnJobs
  <2>7. jobs' \in Seq(Jobs) /\ Pending(jobs', "read") /\ AtMostOne(jobs', "read")
    BY <1>1, <2>1, <2>3, <2>6, PostedAdds
  <2>8. RestOK'
    BY <1>1, <1>10 DEF BackOffRead, RestOK
  <2>9. TypeOK'
    BY <2>4, <2>7, <2>8 DEF TypeOK, RestOK
  <2>10. ReadJobs'
    BY <2>1, <2>3, <2>4, <2>7 DEF ReadJobs
  <2>11. ParkedOnlineIsProbed' /\ RemovedStaysQuiet'
    BY <2>1, <2>3, <2>4 DEF IInv, ParkedOnlineIsProbed, RemovedStaysQuiet
  <2> QED BY <2>5, <2>9, <2>10, <2>11 DEF IInv
<1>11. CASE GetAnswered
  <2>1. PICK answer \in Answers \cap {"full", "bare"} :
          app' = [(IF app.actions = PassLength /\ answer = "full"
                   THEN SetConnected(app, reachable) ELSE app)
                  EXCEPT !.delay = 0, !.actions = IF @ \in {None, 0} THEN @ ELSE @ - 1]
    BY <1>11 DEF GetAnswered
  <2> DEFINE b == IF app.actions = PassLength /\ answer = "full"
                  THEN SetConnected(app, reachable) ELSE app
  <2>2. worker = "wire" /\ worker' = "loop" /\ jobs' = jobs /\ known' = known
    BY <1>11 DEF GetAnswered
  <2>3. app.scheduled /\ ~app.parked
    BY <1>1, <2>2 DEF ReadJobs, QueueOK
  <2>4. /\ QueueOK(b) /\ b.scheduled /\ ~b.parked
        /\ ~known => ~b.connected /\ b.actions = None
    <3>1. ~known => ~app.connected /\ app.actions = None
      BY DEF IInv, RemovedStaysQuiet
    <3>2. reachable \in BOOLEAN /\ PassLength # None
      BY <1>1, ConstantsOK DEF RestOK
    <3>3. CASE app.actions = PassLength /\ answer = "full"
      BY <1>1, <2>3, <3>1, <3>2, <3>3, SetConnectedOK
    <3>4. CASE ~(app.actions = PassLength /\ answer = "full")
      BY <1>1, <2>3, <3>1, <3>4
    <3> QED BY <3>3, <3>4
  <2>5. app' = [b EXCEPT !.delay = 0, !.actions = IF @ \in {None, 0} THEN @ ELSE @ - 1]
    BY <2>1
  <2> HIDE DEF b
  <2>6. /\ app' \in Appliances
        /\ app'.scheduled = b.scheduled /\ app'.parked = b.parked
        /\ app'.failures = b.failures /\ app'.connected = b.connected
        /\ app'.actions = IF b.actions \in {None, 0} THEN b.actions ELSE b.actions - 1
    <3>1. b \in Appliances
      BY <2>4 DEF QueueOK
    <3>2. (IF b.actions \in {None, 0} THEN b.actions ELSE b.actions - 1)
             \in 0 .. PassLength \cup {None}
      BY <3>1, ConstantsOK DEF Appliances
    <3> QED BY <2>5, <3>1, <3>2 DEF Appliances
  <2>7. QueueOK(app)'
    BY <2>4, <2>6 DEF QueueOK
  <2>8. RestOK'
    BY <1>1, <1>11 DEF GetAnswered, RestOK
  <2>9. TypeOK'
    BY <1>1, <2>2, <2>6, <2>8 DEF TypeOK, RestOK
  <2>10. ReadJobs'
    BY <1>1, <2>2, <2>4, <2>6 DEF ReadJobs
  <2>11. ParkedOnlineIsProbed' /\ RemovedStaysQuiet'
    BY <2>2, <2>4, <2>6 DEF ParkedOnlineIsProbed, RemovedStaysQuiet
  <2> QED BY <2>7, <2>9, <2>10, <2>11 DEF IInv
<1>12. CASE ReadRaises
  <2>1. app' = app /\ jobs' = jobs /\ worker = "wire" /\ worker' = "idle" /\ known' = known
    BY <1>12 DEF ReadRaises
  <2>2. RestOK'
    BY <1>1, <1>12 DEF ReadRaises, RestOK
  <2>3. TypeOK' /\ QueueOK(app)'
    BY <1>1, <2>1, <2>2 DEF TypeOK, RestOK, QueueOK
  <2>4. ReadJobs' /\ ParkedOnlineIsProbed' /\ RemovedStaysQuiet'
    BY <1>1, <2>1 DEF IInv, ReadJobs, ParkedOnlineIsProbed, RemovedStaysQuiet
  <2> QED BY <2>3, <2>4 DEF IInv
<1> QED BY <1>3, <1>4, <1>5, <1>6, <1>7, <1>8, <1>9, <1>10, <1>11, <1>12 DEF RunRead

\* The environment posts events, never reads, and does not touch the object.
LEMMA EnvironmentKeepsIInv ==
    ASSUME IInv, Environment
    PROVE  IInv'
<1>1. TypeOK /\ RestOK /\ jobs \in Seq(Jobs)
  BY TypeIsRest DEF IInv
<1>2. ASSUME NEW kind \in Kinds \ OwnJobs, Post(kind)
      PROVE  /\ jobs' \in Seq(Jobs)
             /\ Pending(jobs', "read") <=> Pending(jobs, "read")
             /\ AtMostOne(jobs, "read") => AtMostOne(jobs', "read")
             /\ Pending(jobs, "probe") => Pending(jobs', "probe")
  <2>1. Job(kind, 0, 0) \in Jobs /\ Job(kind, 0, 0).kind # "read"
    BY JobOK DEF OwnJobs
  <2> QED BY <1>1, <1>2, <2>1, PostedOther DEF Post
<1>3. StreamEvents \cup WireEvents \subseteq Kinds \ OwnJobs
  BY DEF Kinds, StreamEvents, WireEvents, OwnJobs
<1>4. /\ jobs' \in Seq(Jobs)
      /\ Pending(jobs', "read") <=> Pending(jobs, "read")
      /\ AtMostOne(jobs, "read") => AtMostOne(jobs', "read")
      /\ Pending(jobs, "probe") => Pending(jobs', "probe")
  <2>1. \/ jobs' = jobs
        \/ \E kind \in StreamEvents \cup WireEvents : Post(kind)
    BY DEF Environment, StreamOpens, StreamEnds, CloudReports, PairingChanges, GateCloses,
           ClientAborts, StreamEvents, WireEvents
  <2> QED BY <1>1, <1>2, <1>3, <2>1
<1>5. app' = app /\ known' = known /\ (worker' = "idle" <=> worker = "idle")
  BY DEF Environment, StreamOpens, StreamEnds, CloudReports, PairingChanges, GateCloses,
         ClientAborts
<1>6. RestOK'
  <2>1. CASE StreamOpens
    BY <1>1, <2>1 DEF StreamOpens, RestOK
  <2>2. CASE StreamEnds
    <3>1. /\ streamUp' = FALSE /\ events' = events + 1
          /\ UNCHANGED <<gen, worker, known, gate, aborted, reachable, lastStream>>
      BY <2>2 DEF StreamEnds
    <3>2. streamUp' \in BOOLEAN
      BY <3>1
    <3>3. events' \in Nat
      BY <1>1, <3>1 DEF RestOK
    <3>4. UNCHANGED <<gen, worker, known, gate, aborted, reachable, lastStream>>
      BY <3>1
    <3> QED BY <1>1, <3>2, <3>3, <3>4 DEF RestOK
  <2>3. CASE PairingChanges
    BY <1>1, <2>3 DEF PairingChanges, RestOK
  <2>4. CASE GateCloses
    <3>1. \A wait \in GateWaits : Higher(gate, wait) \in Nat
      BY <1>1, ConstantsOK DEF Higher, RestOK
    <3> QED BY <1>1, <2>4, <3>1 DEF GateCloses, RestOK
  <2>5. CASE ClientAborts
    BY <1>1, <2>5 DEF ClientAborts, RestOK
  <2>6. CASE \E value \in BOOLEAN : CloudReports(value)
    BY <1>1, <2>6 DEF CloudReports, RestOK
  <2> QED BY <2>1, <2>2, <2>3, <2>4, <2>5, <2>6 DEF Environment
<1> QED BY <1>4, <1>5, <1>6, QuietKeeps

\* A tick changes only how soon the jobs are due and how old the last pass is.
LEMMA TickFacts ==
    ASSUME TypeOK, Tick
    PROVE  /\ app' \in Appliances
           /\ app'.connected = app.connected /\ app'.actions = app.actions
           /\ app'.scheduled = app.scheduled /\ app'.parked = app.parked
           /\ app'.failures = app.failures /\ app'.age >= app.age
<1> DEFINE n == Lower(app.age + 1, FreshWindow)
<1>1. app \in Appliances /\ app' = [app EXCEPT !.age = n]
  BY DEF Tick, TypeOK
<1>2. n \in 0 .. FreshWindow /\ n >= app.age
  BY <1>1, ConstantsOK DEF Lower, Appliances
<1> HIDE DEF n
<1>3. /\ app' \in Appliances
      /\ app'.connected = app.connected /\ app'.actions = app.actions
      /\ app'.scheduled = app.scheduled /\ app'.parked = app.parked
      /\ app'.failures = app.failures /\ app'.age = n
  BY <1>1, <1>2 DEF Appliances
<1> QED BY <1>2, <1>3

LEMMA TickKeepsIInv ==
    ASSUME IInv, Tick
    PROVE  IInv'
<1>1. TypeOK /\ QueueOK(app) /\ RestOK /\ jobs \in Seq(Jobs)
  BY TypeIsRest DEF IInv
<1>2. /\ jobs' = Ticked(jobs)
      /\ worker' = worker /\ known' = known
  BY DEF Tick
<1>3. /\ jobs' \in Seq(Jobs)
      /\ \A kind : Pending(jobs', kind) <=> Pending(jobs, kind)
      /\ \A kind : AtMostOne(jobs, kind) => AtMostOne(jobs', kind)
  BY <1>1, <1>2, TickedKeeps
<1>4. RestOK'
  BY <1>1 DEF Tick, RestOK, Sooner
<1>5. QueueOK(app)' /\ TypeOK'
  BY <1>1, <1>3, <1>4, TickFacts DEF QueueOK, TypeOK, RestOK
<1>6. ReadJobs'
  BY <1>1, <1>2, <1>3, TickFacts DEF IInv, ReadJobs
<1>7. ParkedOnlineIsProbed' /\ RemovedStaysQuiet'
  BY <1>1, <1>2, <1>3, TickFacts DEF IInv, ParkedOnlineIsProbed, RemovedStaysQuiet
<1> QED BY <1>5, <1>6, <1>7 DEF IInv

LEMMA StepKeepsIInv == IInv /\ [Next]_vars => IInv'
<1> SUFFICES ASSUME IInv, [Next]_vars PROVE IInv'
  OBVIOUS
<1>1. CASE Work
  BY <1>1, HandlersKeepIInv, RunReadKeepsIInv DEF Work
<1>2. CASE Environment
  BY <1>2, EnvironmentKeepsIInv
<1>3. CASE Tick
  BY <1>3, TickKeepsIInv
<1>4. CASE UNCHANGED vars
  BY <1>4 DEF vars, IInv, TypeOK, QueueOK, ReadJobs, Pending, AtMostOne,
              ParkedOnlineIsProbed, RemovedStaysQuiet
<1> QED BY <1>1, <1>2, <1>3, <1>4 DEF Next

\* The invariant holds in every reachable state, whatever a GET comes back with.
THEOREM Invariance == Spec => []IInv
<1>1. Init => IInv
  BY InitIInv
<1>2. IInv /\ [Next]_vars => IInv'
  BY StepKeepsIInv
<1> QED BY <1>1, <1>2, PTL DEF Spec

----------------------------------------------------------------------------
(* The theorems.                                                           *)

\* Every variable keeps its type: in particular no counter, delay or wait is
\* ever negative and no pass has more GETs left than it started with.
THEOREM TypeCorrect == Spec => []TypeOK
<1>1. IInv => TypeOK
  BY DEF IInv
<1> QED BY <1>1, Invariance, PTL

\* The queue is parked exactly when it has failed GiveUpAfter times in a row,
\* and then has nothing pending or scheduled.
THEOREM ParkingSafe == Spec => []ParkedMeansGaveUp
<1>1. IInv => ParkedMeansGaveUp
  BY DEF IInv, QueueOK, ParkedMeansGaveUp
<1> QED BY <1>1, Invariance, PTL

\* A parked queue of a connected appliance always has a probe on its way.
THEOREM ParkedIsProbed == Spec => []ParkedOnlineIsProbed
<1>1. IInv => ParkedOnlineIsProbed
  BY DEF IInv
<1> QED BY <1>1, Invariance, PTL

\* No job posted before an appliance was removed revives it.
THEOREM RemovedIsQuiet == Spec => []RemovedStaysQuiet
<1>1. IInv => RemovedStaysQuiet
  BY DEF IInv
<1> QED BY <1>1, Invariance, PTL

----------------------------------------------------------------------------
(* The theorems that depend on what a GET may come back with.              *)

LaterOnline(a) == a.actions \in 0 .. (PassLength - 1) => a.connected

\* The result of every handler that is not _run_read, in one formula.
HandlerResult(a) ==
    /\ QueueOK(a)
    /\ Handled(a)
    /\ app.scheduled => a.scheduled
    /\ a.age = app.age
    /\ LaterOnline(app) => LaterOnline(a)

LEMMA HandlerResults ==
    ASSUME IInv, Route \/ MaybeDisconnect \/ ParkedProbe
    PROVE  /\ \E kind \in Kinds \ {"read"} : Due(kind)
           /\ worker' = worker
           /\ OnStreamStop \/ \E a \in Appliances : HandlerResult(a)
<1>1. QueueOK(app) /\ app \in Appliances
  BY DEF IInv, QueueOK
<1>2. ASSUME NEW force \in BOOLEAN, Handled(ScheduleRead(app, force))
      PROVE  \E a \in Appliances : HandlerResult(a)
  <2> DEFINE a == ScheduleRead(app, force)
  <2>1. /\ QueueOK(a) /\ a.connected = app.connected /\ a.age = app.age
        /\ app.scheduled => a.scheduled
        /\ a.actions \in {app.actions, PassLength}
    BY <1>1, ScheduleReadOK
  <2>2. Handled(a)
    BY <1>2
  <2> HIDE DEF a
  <2>3. LaterOnline(app) => LaterOnline(a)
    BY <2>1, ConstantsOK DEF LaterOnline
  <2>4. a \in Appliances
    BY <2>1 DEF QueueOK
  <2> QED BY <2>1, <2>2, <2>3, <2>4 DEF HandlerResult
<1>3. ASSUME NEW value \in BOOLEAN, Handled(SetConnected(app, value))
      PROVE  \E a \in Appliances : HandlerResult(a)
  <2> DEFINE a == SetConnected(app, value)
  <2>1. /\ QueueOK(a) /\ (a.connected <=> value) /\ a.age = app.age
        /\ app.scheduled => a.scheduled
        /\ ~value => a.actions = None
    BY <1>1, SetConnectedOK
  <2>2. Handled(a)
    BY <1>3
  <2> HIDE DEF a
  <2>3. LaterOnline(a)
    BY <2>1, ConstantsOK DEF LaterOnline
  <2>4. a \in Appliances
    BY <2>1 DEF QueueOK
  <2> QED BY <2>1, <2>2, <2>3, <2>4 DEF HandlerResult
<1>4. ASSUME Handled(app) PROVE \E a \in Appliances : HandlerResult(a)
  BY <1>1, <1>4 DEF HandlerResult
<1>5. OnStreamStop \/ \E a \in Appliances : HandlerResult(a)
  BY <1>2, <1>3, <1>4 DEF Route, OnStreamStart, OnConnected, OnDisconnected, OnPaired,
                           RemoveAppliance, RouteUnknown, MaybeDisconnect, ParkedProbe
<1>6. worker' = worker
  BY DEF Route, OnStreamStart, OnStreamStop, OnConnected, OnDisconnected, OnPaired,
         RemoveAppliance, RouteUnknown, MaybeDisconnect, ParkedProbe
<1>7. \E kind \in Kinds \ {"read"} : Due(kind)
  BY DEF Route, OnStreamStart, OnStreamStop, OnConnected, OnDisconnected, OnPaired,
         RemoveAppliance, RouteUnknown, MaybeDisconnect, ParkedProbe,
         Kinds, StreamEvents, WireEvents, OwnJobs
<1> QED BY <1>5, <1>6, <1>7

\* The other half of ReadJobExact: what is scheduled has a job.
ScheduledHasJob == app.scheduled => worker # "idle" \/ Pending(jobs, "read")

LEMMA StepKeepsJob ==
    ASSUME "raise" \notin Answers, IInv, ScheduledHasJob, [Next]_vars
    PROVE  ScheduledHasJob'
<1>1. TypeOK /\ ReadJobs /\ jobs \in Seq(Jobs) /\ app \in Appliances
  BY TypeIsRest DEF IInv
<1>2. CASE Route \/ MaybeDisconnect \/ ParkedProbe
  <2>1. PICK kind \in Kinds \ {"read"} : Due(kind)
    BY <1>2, HandlerResults
  <2>2. worker = "idle" /\ Len(jobs) > 0 /\ jobs[1].kind # "read" /\ worker' = worker
    BY <1>2, <2>1, HandlerResults DEF Due
  <2>3. CASE OnStreamStop
    <3>1. PICK j \in Jobs : j.kind # "read" /\ jobs' \in Posted(Tail(jobs), j)
      <4>1. PICK k \in {"stop", "stopError"} :
              jobs' \in Posted(Tail(jobs),
                  Job("disconnect", gen + 1, IF k = "stopError" THEN 0 ELSE Grace))
        BY <2>3 DEF OnStreamStop
      <4> DEFINE j == Job("disconnect", gen + 1, IF k = "stopError" THEN 0 ELSE Grace)
      <4>2. j \in Jobs /\ j.kind = "disconnect"
        <5>1. /\ gen + 1 \in Nat
              /\ (IF k = "stopError" THEN 0 ELSE Grace) \in Nat
              /\ "disconnect" \in Kinds
          BY <1>1, ConstantsOK DEF TypeOK, Kinds, OwnJobs
        <5> QED BY <5>1, JobOK
      <4> QED BY <4>1, <4>2
    <3>2. Tail(jobs) \in Seq(Jobs) /\ (Pending(jobs, "read") <=> Pending(Tail(jobs), "read"))
      BY <1>1, <2>2, TailDrops
    <3>3. Pending(jobs', "read") <=> Pending(Tail(jobs), "read")
      BY <3>1, <3>2, PostedOther
    <3>4. app' = app
      BY <2>3 DEF OnStreamStop
    <3> QED BY <2>2, <3>2, <3>3, <3>4 DEF ScheduledHasJob
  <2>4. CASE ~OnStreamStop
    <3>1. PICK a \in Appliances : HandlerResult(a)
      BY <1>2, <2>4, HandlerResults
    <3>2. a.scheduled \in BOOLEAN /\ (app.scheduled => a.scheduled) /\ Handled(a)
      BY <3>1 DEF HandlerResult, Appliances
    <3>3. app.scheduled => Pending(jobs, "read")
      BY <2>2 DEF ScheduledHasJob
    <3>4. app' = a /\ (a.scheduled => Pending(jobs', "read"))
      BY <1>1, <2>2, <3>2, <3>3, HandledOK
    <3> QED BY <3>4 DEF ScheduledHasJob
  <2> QED BY <2>3, <2>4
<1>3. CASE RunRead
  <2>1. CASE DeferRead \/ BackOffRead
    <3>1. PICK delay \in Nat, s \in Seq(Jobs) : jobs' \in Posted(s, Job("read", 0, delay))
      <4>1. CASE DeferRead
        <5>1. Lower(gate + 1, MaxDelay) \in Nat
          BY <1>1, ConstantsOK DEF TypeOK, Lower
        <5>2. Tail(jobs) \in Seq(Jobs)
          BY <1>1, <4>1, TailDrops DEF DeferRead, Due
        <5> QED BY <4>1, <5>1, <5>2 DEF DeferRead
      <4>2. CASE BackOffRead
        <5>1. Backoff(app.delay) \in Nat
          BY <1>1, BackoffOK DEF Appliances
        <5> QED BY <1>1, <4>2, <5>1 DEF BackOffRead
      <4> QED BY <2>1, <4>1, <4>2
    <3>2. Job("read", 0, delay) \in Jobs /\ Job("read", 0, delay).kind = "read"
      BY JobOK DEF Kinds, OwnJobs
    <3>3. Pending(jobs', "read")
      BY <3>1, <3>2, PostedAdds
    <3> QED BY <3>3 DEF ScheduledHasJob
  <2>2. CASE BeginRead \/ SendGet \/ GetAnswered
    <3>1. worker' # "idle"
      BY <2>2 DEF BeginRead, SendGet, GetAnswered
    <3> QED BY <3>1 DEF ScheduledHasJob
  <2>3. CASE DropDeferredRead \/ ReadAborted \/ DropFailedRead \/ ParkReads
    <3>1. app'.scheduled = FALSE
      BY <1>1, <2>3 DEF DropDeferredRead, ReadAborted, DropFailedRead, ParkReads, Appliances
    <3> QED BY <3>1 DEF ScheduledHasJob
  <2>4. CASE EndRead
    <3>1. app'.scheduled = FALSE
      <4> DEFINE done == [app EXCEPT !.actions = None, !.scheduled = FALSE]
      <4>1. done.scheduled = FALSE /\ done \in Appliances
        BY <1>1 DEF Appliances
      <4>2. app' = done \/ app' = [done EXCEPT !.age = 0, !.failures = 0]
        BY <2>4 DEF EndRead
      <4> HIDE DEF done
      <4> QED BY <4>1, <4>2 DEF Appliances
    <3> QED BY <3>1 DEF ScheduledHasJob
  <2>5. ~ReadRaises
    BY DEF ReadRaises
  <2> QED BY <1>3, <2>1, <2>2, <2>3, <2>4, <2>5 DEF RunRead
<1>4. CASE Environment
  <2>1. app' = app /\ (worker' = "idle" <=> worker = "idle")
    BY <1>4 DEF Environment, StreamOpens, StreamEnds, CloudReports, PairingChanges,
                GateCloses, ClientAborts
  <2>2. jobs' = jobs \/ \E kind \in StreamEvents \cup WireEvents : Post(kind)
    BY <1>4 DEF Environment, StreamOpens, StreamEnds, CloudReports, PairingChanges,
                GateCloses, ClientAborts, StreamEvents, WireEvents
  <2>3. Pending(jobs, "read") => Pending(jobs', "read")
    <3>1. ASSUME NEW kind \in StreamEvents \cup WireEvents, Post(kind)
          PROVE  Pending(jobs, "read") => Pending(jobs', "read")
      <4>1. Job(kind, 0, 0) \in Jobs
        BY JobOK DEF Kinds
      <4> QED BY <1>1, <3>1, <4>1, PostedAdds DEF Post
    <3> QED BY <2>2, <3>1
  <2> QED BY <2>1, <2>3 DEF ScheduledHasJob
<1>5. CASE Tick
  <2>1. Pending(jobs', "read") <=> Pending(jobs, "read")
    BY <1>1, <1>5, TickedKeeps DEF Tick
  <2>2. app'.scheduled = app.scheduled /\ worker' = worker
    BY <1>1, <1>5, TickFacts DEF Tick
  <2> QED BY <2>1, <2>2 DEF ScheduledHasJob
<1>6. CASE UNCHANGED vars
  BY <1>6 DEF vars, ScheduledHasJob, Pending
<1> QED BY <1>2, <1>3, <1>4, <1>5, <1>6 DEF Next, Work

\* As long as no GET leaves _run_read by another exception, _read_scheduled is
\* set exactly while one _run_read is posted or running.
THEOREM ReadJobIsExact ==
    ASSUME "raise" \notin Answers
    PROVE  Spec => []ReadJobExact
<1>1. Init => ScheduledHasJob
  BY DEF Init, ScheduledHasJob
<1>2. IInv /\ ScheduledHasJob /\ [Next]_vars => ScheduledHasJob'
  BY StepKeepsJob
<1>3. IInv /\ ScheduledHasJob => ReadJobExact
  BY DEF IInv, ReadJobs, QueueOK, Appliances, ScheduledHasJob, ReadJobExact
<1> QED BY <1>1, <1>2, <1>3, Invariance, PTL DEF Spec

\* What a handler returns keeps LaterOnline; so do the steps of _run_read, as
\* the first GET of a pass reports reachability and only then are there others.
LEMMA StepKeepsLater ==
    ASSUME "bare" \notin Answers, IInv, LaterOnline(app), [Next]_vars
    PROVE  LaterOnline(app')
<1>1. TypeOK /\ QueueOK(app) /\ app \in Appliances /\ RestOK /\ PassLength # None
  BY TypeIsRest, ConstantsOK DEF IInv
<1>2. CASE Route \/ MaybeDisconnect \/ ParkedProbe
  <2>1. CASE OnStreamStop
    BY <2>1 DEF OnStreamStop
  <2>2. CASE ~OnStreamStop
    <3>1. PICK a \in Appliances : HandlerResult(a)
      BY <1>2, <2>2, HandlerResults
    <3> QED BY <3>1 DEF HandlerResult, Handled
  <2> QED BY <2>1, <2>2
<1>3. CASE RunRead
  <2>1. CASE DeferRead \/ BeginRead \/ SendGet \/ ReadRaises
    BY <2>1 DEF DeferRead, BeginRead, SendGet, ReadRaises
  <2>2. CASE DropDeferredRead \/ ReadAborted \/ DropFailedRead \/ ParkReads
    <3>1. app'.actions = None
      BY <1>1, <2>2 DEF DropDeferredRead, ReadAborted, DropFailedRead, ParkReads, Appliances
    <3> QED BY <3>1, ConstantsOK DEF LaterOnline
  <2>3. CASE EndRead
    <3> DEFINE done == [app EXCEPT !.actions = None, !.scheduled = FALSE]
    <3>1. done.actions = None /\ done \in Appliances
      BY <1>1 DEF Appliances
    <3>2. app' = done \/ app' = [done EXCEPT !.age = 0, !.failures = 0]
      BY <2>3 DEF EndRead
    <3> HIDE DEF done
    <3>3. app'.actions = None
      BY <3>1, <3>2 DEF Appliances
    <3> QED BY <3>3, ConstantsOK DEF LaterOnline
  <2>4. CASE BackOffRead
    <3>1. app'.actions = app.actions /\ app'.connected = app.connected
      BY <1>1, <2>4 DEF BackOffRead, Appliances
    <3> QED BY <3>1 DEF LaterOnline
  <2>5. CASE GetAnswered
    <3> DEFINE b == IF app.actions = PassLength THEN SetConnected(app, reachable) ELSE app
    <3>1. /\ worker = "wire"
          /\ app' = [b EXCEPT !.delay = 0, !.actions = IF @ \in {None, 0} THEN @ ELSE @ - 1]
      BY <2>5, ConstantsOK DEF GetAnswered, AnswerKinds
    <3>2. b.connected \/ b.actions = None \/ b.actions \notin 0 .. PassLength
      <4>1. CASE app.actions = PassLength
        <5>1. reachable \in BOOLEAN
          BY <1>1 DEF RestOK
        <5>2. /\ SetConnected(app, reachable).connected <=> reachable
              /\ ~reachable => SetConnected(app, reachable).actions = None
          BY <1>1, <5>1, SetConnectedOK
        <5>3. b = SetConnected(app, reachable)
          BY <4>1
        <5> HIDE DEF b
        <5> QED BY <5>1, <5>2, <5>3
      <4>2. CASE app.actions # PassLength
        BY <1>1, <4>2, ConstantsOK DEF LaterOnline, Appliances
      <4> QED BY <4>1, <4>2
    <3>3. b \in Appliances
      BY <1>1, SetConnectedOK DEF RestOK, QueueOK
    <3> HIDE DEF b
    <3>4. /\ app'.connected = b.connected
          /\ app'.actions = IF b.actions \in {None, 0} THEN b.actions ELSE b.actions - 1
      BY <3>1, <3>3 DEF Appliances
    <3>5. b.actions \in 0 .. PassLength \cup {None}
      BY <3>3 DEF Appliances
    <3> QED BY <3>2, <3>4, <3>5, ConstantsOK DEF LaterOnline
  <2> QED BY <1>3, <2>1, <2>2, <2>3, <2>4, <2>5 DEF RunRead
<1>4. CASE Environment
  BY <1>4 DEF Environment, StreamOpens, StreamEnds, CloudReports, PairingChanges,
              GateCloses, ClientAborts
<1>5. CASE Tick
  BY <1>1, <1>5, TickFacts DEF LaterOnline
<1>6. CASE UNCHANGED vars
  BY <1>6 DEF vars
<1> QED BY <1>2, <1>3, <1>4, <1>5, <1>6 DEF Next, Work

\* If every answer to the first GET carries "connected", a pass goes beyond it
\* only for a connected appliance: every disconnection abandons the pass.
THEOREM LaterReadsAreOnline ==
    ASSUME "bare" \notin Answers
    PROVE  Spec => []LaterReadsOnline
<1>1. Init => LaterOnline(app)
  BY ConstantsOK DEF Init, LaterOnline
<1>2. IInv /\ LaterOnline(app) /\ [Next]_vars => LaterOnline(app)'
  BY StepKeepsLater DEF LaterOnline
<1>3. LaterOnline(app) => LaterReadsOnline
  BY DEF LaterOnline, LaterReadsOnline
<1> QED BY <1>1, <1>2, <1>3, Invariance, PTL DEF Spec

\* Then the freshness window opens only for a connected appliance.
THEOREM FreshIsOnline ==
    ASSUME "bare" \notin Answers
    PROVE  Spec => FreshOnlyOnline
<1>1. ASSUME IInv, LaterReadsOnline, [Next]_vars, app'.age < app.age
      PROVE  app'.connected
  <2>1. TypeOK /\ app \in Appliances /\ QueueOK(app) /\ RestOK /\ app.age \in Int
    <3>1. TypeOK /\ app \in Appliances /\ QueueOK(app) /\ RestOK
      BY <1>1, TypeIsRest DEF IInv
    <3> QED BY <3>1, ConstantsOK DEF Appliances
  <2>2. ~(Route \/ MaybeDisconnect \/ ParkedProbe)
    <3> SUFFICES ASSUME Route \/ MaybeDisconnect \/ ParkedProbe PROVE FALSE
      OBVIOUS
    <3>1. OnStreamStop => app' = app
      BY DEF OnStreamStop
    <3>2. (\E a \in Appliances : HandlerResult(a)) => app'.age = app.age
      BY DEF HandlerResult, Handled
    <3>3. app'.age = app.age
      BY <1>1, <3>1, <3>2, HandlerResults
    <3> QED BY <1>1, <2>1, <3>3
  <2>3. ~Tick /\ ~Environment /\ ~UNCHANGED vars
    <3>1. Environment => app' = app
      BY DEF Environment, StreamOpens, StreamEnds, CloudReports, PairingChanges,
             GateCloses, ClientAborts
    <3>2. UNCHANGED vars => app' = app
      BY DEF vars
    <3>3. Tick => app'.age \in Int /\ app'.age >= app.age
      BY <2>1, TickFacts DEF Appliances
    <3> QED BY <1>1, <2>1, <3>1, <3>2, <3>3
  <2>4. RunRead
    BY <1>1, <2>2, <2>3 DEF Next, Work
  <2>5. EndRead
    <3>1. CASE DeferRead \/ BeginRead \/ SendGet \/ ReadRaises
      BY <1>1, <2>1, <3>1 DEF DeferRead, BeginRead, SendGet, ReadRaises
    <3>2. CASE DropDeferredRead \/ ReadAborted \/ DropFailedRead \/ ParkReads \/ BackOffRead
      <4>1. app'.age = app.age
        BY <2>1, <3>2 DEF DropDeferredRead, ReadAborted, DropFailedRead, ParkReads,
                          BackOffRead, Appliances
      <4> QED BY <1>1, <2>1, <4>1
    <3>3. CASE GetAnswered
      <4>1. PICK b \in {app, SetConnected(app, reachable)} :
              app' = [b EXCEPT !.delay = 0, !.actions = IF @ \in {None, 0} THEN @ ELSE @ - 1]
        BY <3>3 DEF GetAnswered
      <4>2. b \in Appliances /\ b.age = app.age
        <5>1. reachable \in BOOLEAN
          BY <2>1 DEF RestOK
        <5>2. /\ QueueOK(SetConnected(app, reachable))
              /\ SetConnected(app, reachable).age = app.age
          BY <2>1, <5>1, SetConnectedOK
        <5> QED BY <2>1, <5>2 DEF QueueOK
      <4>3. app'.age = b.age
        BY <4>1, <4>2 DEF Appliances
      <4> QED BY <1>1, <2>1, <4>2, <4>3
    <3> QED BY <2>4, <3>1, <3>2, <3>3 DEF RunRead
  <2> DEFINE done == [app EXCEPT !.actions = None, !.scheduled = FALSE]
  <2>6. app' = IF app.actions = 0 THEN [done EXCEPT !.age = 0, !.failures = 0] ELSE done
    BY <2>5 DEF EndRead
  <2>7. done \in Appliances /\ done.age = app.age /\ done.connected = app.connected
    BY <2>1 DEF Appliances
  <2> HIDE DEF done
  <2>8. app.actions = 0 /\ app'.connected = app.connected
    BY <1>1, <2>1, <2>6, <2>7 DEF Appliances
  <2>9. 0 \in 0 .. (PassLength - 1)
    BY ConstantsOK
  <2> QED BY <1>1, <2>8, <2>9 DEF LaterReadsOnline
<1>2. IInv /\ LaterReadsOnline /\ [Next]_vars => [app'.age < app.age => app'.connected]_vars
  BY <1>1
<1> QED BY <1>2, Invariance, LaterReadsAreOnline, PTL DEF Spec, FreshOnlyOnline

----------------------------------------------------------------------------
(* A START supersedes the disconnects of the STOPs before it.              *)

\* No disconnect job is of a later generation, and one of the present
\* generation was posted by the last stream event handled, a STOP.
DisconnectsOK(s, g, last) ==
    \A i \in 1 .. Len(s) : s[i].kind = "disconnect"
        => s[i].gen <= g /\ (s[i].gen = g => last = "stop")

LEMMA PostedFrom ==
    ASSUME NEW s \in Seq(Jobs), NEW j \in Jobs, NEW t \in Posted(s, j)
    PROVE  /\ t \in Seq(Jobs)
           /\ \A i \in 1 .. Len(t) : t[i] = j \/ \E k \in 1 .. Len(s) : t[i] = s[k]
<1>1. PICK p \in 1 .. (Len(s) + 1) : t = InsertAt(s, p, j)
  BY DEF Posted
<1>2. /\ t \in Seq(Jobs)
      /\ Len(t) = Len(s) + 1
      /\ \A i \in 1 .. Len(t) : t[i] = IF i < p THEN s[i] ELSE IF i = p THEN j ELSE s[i - 1]
  BY <1>1 DEF InsertAt
<1>3. ASSUME NEW i \in 1 .. Len(t)
      PROVE  t[i] = j \/ \E k \in 1 .. Len(s) : t[i] = s[k]
  <2>1. CASE i < p
    BY <1>2, <2>1
  <2>2. CASE i = p
    BY <1>2, <2>2
  <2>3. CASE i > p
    <3>1. i - 1 \in 1 .. Len(s) /\ t[i] = s[i - 1]
      BY <1>2, <2>3
    <3> QED BY <3>1
  <2> QED BY <2>1, <2>2, <2>3
<1> QED BY <1>2, <1>3

LEMMA TailFrom ==
    ASSUME NEW s \in Seq(Jobs), Len(s) > 0
    PROVE  /\ Tail(s) \in Seq(Jobs)
           /\ \A i \in 1 .. Len(Tail(s)) : \E k \in 1 .. Len(s) : Tail(s)[i] = s[k]
<1>1. /\ Tail(s) \in Seq(Jobs)
      /\ \A i \in 1 .. Len(Tail(s)) : Tail(s)[i] = s[i + 1] /\ i + 1 \in 1 .. Len(s)
  OBVIOUS
<1> QED BY <1>1

LEMMA TickedFrom ==
    ASSUME NEW s \in Seq(Jobs)
    PROVE  /\ Len(Ticked(s)) = Len(s)
           /\ \A i \in 1 .. Len(s) : Ticked(s)[i].kind = s[i].kind /\ Ticked(s)[i].gen = s[i].gen
<1>1. /\ Len(Ticked(s)) = Len(s)
      /\ \A i \in 1 .. Len(s) : Ticked(s)[i] = [s[i] EXCEPT !.left = Sooner(@)]
  BY DEF Ticked
<1>2. ASSUME NEW i \in 1 .. Len(s)
      PROVE  /\ [s[i] EXCEPT !.left = Sooner(@)].kind = s[i].kind
             /\ [s[i] EXCEPT !.left = Sooner(@)].gen = s[i].gen
  <2>1. s[i] \in Jobs
    OBVIOUS
  <2> QED BY <2>1 DEF Jobs
<1> QED BY <1>1, <1>2

\* The jobs after a step are old ones, or one of another kind.
OldDisconnects ==
    \A i \in 1 .. Len(jobs') : jobs'[i].kind = "disconnect"
        => \E k \in 1 .. Len(jobs) : jobs[k].kind = "disconnect" /\ jobs[k].gen = jobs'[i].gen

LEMMA OldFromPost ==
    ASSUME jobs \in Seq(Jobs), NEW s \in Seq(Jobs),
           \A i \in 1 .. Len(s) : \E k \in 1 .. Len(jobs) : s[i] = jobs[k],
           NEW j \in Jobs, j.kind # "disconnect",
           jobs' = s \/ jobs' \in Posted(s, j)
    PROVE  OldDisconnects
<1>1. CASE jobs' = s
  BY <1>1 DEF OldDisconnects
<1>2. CASE jobs' \in Posted(s, j)
  <2>1. \A i \in 1 .. Len(jobs') : jobs'[i] = j \/ \E k \in 1 .. Len(s) : jobs'[i] = s[k]
    BY <1>2, PostedFrom
  <2>2. ASSUME NEW i \in 1 .. Len(jobs'), jobs'[i].kind = "disconnect"
        PROVE  \E k \in 1 .. Len(jobs) : jobs[k].kind = "disconnect" /\ jobs[k].gen = jobs'[i].gen
    <3>1. PICK k \in 1 .. Len(s) : jobs'[i] = s[k]
      BY <2>1, <2>2
    <3>2. PICK m \in 1 .. Len(jobs) : s[k] = jobs[m]
      OBVIOUS
    <3> QED BY <2>2, <3>1, <3>2
  <2> QED BY <2>2 DEF OldDisconnects
<1> QED BY <1>1, <1>2

LEMMA StepOldDisconnects ==
    ASSUME IInv, Next, ~OnStreamStop
    PROVE  OldDisconnects
<1>1. TypeOK /\ jobs \in Seq(Jobs) /\ app \in Appliances /\ RestOK
  BY TypeIsRest DEF IInv
<1>2. \A i \in 1 .. Len(jobs) : \E k \in 1 .. Len(jobs) : jobs[i] = jobs[k]
  OBVIOUS
<1>3. ASSUME Len(jobs) > 0
      PROVE  /\ Tail(jobs) \in Seq(Jobs)
             /\ \A i \in 1 .. Len(Tail(jobs)) : \E k \in 1 .. Len(jobs) : Tail(jobs)[i] = jobs[k]
  BY <1>1, <1>3, TailFrom
<1>4. ASSUME NEW kind \in Kinds \ {"disconnect"}, NEW delay \in Nat
      PROVE  Job(kind, 0, delay) \in Jobs /\ Job(kind, 0, delay).kind # "disconnect"
  BY JobOK
<1>5. {"read", "probe"} \cup StreamEvents \cup WireEvents \subseteq Kinds \ {"disconnect"}
  BY DEF Kinds, StreamEvents, WireEvents, OwnJobs
<1>6. CASE Route \/ MaybeDisconnect \/ ParkedProbe
  <2>1. Len(jobs) > 0
    BY <1>6, HandlerResults DEF Due
  <2>2. PICK a : Handled(a)
    BY <1>6, HandlerResults DEF HandlerResult
  <2>3. jobs' = Tail(jobs) \/ jobs' \in Posted(Tail(jobs), Job("read", 0, 0))
    BY <2>2 DEF Handled
  <2> QED BY <1>1, <1>3, <1>4, <1>5, <2>1, <2>3, OldFromPost
<1>7. CASE RunRead
  <2>1. CASE DeferRead \/ DropDeferredRead \/ BeginRead
    <3>1. Len(jobs) > 0
      BY <2>1 DEF DeferRead, DropDeferredRead, BeginRead, Due
    <3>2. Lower(gate + 1, MaxDelay) \in Nat
      BY <1>1, ConstantsOK DEF RestOK, Lower
    <3>3. \/ jobs' = Tail(jobs)
          \/ jobs' \in Posted(Tail(jobs), Job("read", 0, Lower(gate + 1, MaxDelay)))
      BY <2>1 DEF DeferRead, DropDeferredRead, BeginRead
    <3> QED BY <1>1, <1>3, <1>4, <1>5, <3>1, <3>2, <3>3, OldFromPost
  <2>2. CASE SendGet \/ EndRead \/ GetAnswered \/ ReadAborted \/ DropFailedRead \/ ReadRaises
    <3>1. jobs' = jobs
      BY <2>2 DEF SendGet, EndRead, GetAnswered, ReadAborted, DropFailedRead, ReadRaises
    <3> QED BY <3>1 DEF OldDisconnects
  <2>3. CASE ParkReads
    <3>1. jobs' \in Posted(jobs, Job("probe", 0, ParkedRetry)) /\ ParkedRetry \in Nat
      BY <2>3, ConstantsOK DEF ParkReads
    <3> QED BY <1>1, <1>2, <1>4, <1>5, <3>1, OldFromPost
  <2>4. CASE BackOffRead
    <3>1. jobs' \in Posted(jobs, Job("read", 0, Backoff(app.delay))) /\ Backoff(app.delay) \in Nat
      BY <1>1, <2>4, BackoffOK DEF BackOffRead, Appliances
    <3> QED BY <1>1, <1>2, <1>4, <1>5, <3>1, OldFromPost
  <2> QED BY <1>7, <2>1, <2>2, <2>3, <2>4 DEF RunRead
<1>8. CASE Environment
  <2>1. jobs' = jobs \/ \E kind \in StreamEvents \cup WireEvents : Post(kind)
    BY <1>8 DEF Environment, StreamOpens, StreamEnds, CloudReports, PairingChanges,
                GateCloses, ClientAborts, StreamEvents, WireEvents
  <2>2. CASE jobs' = jobs
    BY <2>2 DEF OldDisconnects
  <2>3. ASSUME NEW kind \in StreamEvents \cup WireEvents, Post(kind)
        PROVE  OldDisconnects
    BY <1>1, <1>2, <1>4, <1>5, <2>3, OldFromPost DEF Post
  <2> QED BY <2>1, <2>2, <2>3
<1>9. CASE Tick
  <2>1. jobs' = Ticked(jobs)
    BY <1>9 DEF Tick
  <2> QED BY <1>1, <2>1, TickedFrom DEF OldDisconnects
<1> QED BY <1>6, <1>7, <1>8, <1>9 DEF Next, Work

LEMMA StepKeepsDisconnects ==
    ASSUME IInv, DisconnectsOK(jobs, gen, lastStream), [Next]_vars
    PROVE  DisconnectsOK(jobs', gen', lastStream')
<1>1. TypeOK /\ jobs \in Seq(Jobs) /\ gen \in Nat /\ RestOK
  BY TypeIsRest DEF IInv, TypeOK
<1>2. \A k \in 1 .. Len(jobs) : jobs[k] \in Jobs /\ jobs[k].gen \in Nat
  <2>1. \A k \in 1 .. Len(jobs) : jobs[k] \in Jobs
    BY <1>1
  <2>2. \A j \in Jobs : j.gen \in Nat
    BY DEF Jobs
  <2> QED BY <2>1, <2>2
<1>3. CASE OnStreamStop
  <2>1. /\ gen' = gen + 1 /\ lastStream' = "stop"
        /\ \E kind \in {"stop", "stopError"} :
             /\ Due(kind)
             /\ jobs' \in Posted(Tail(jobs),
                  Job("disconnect", gen + 1, IF kind = "stopError" THEN 0 ELSE Grace))
    BY <1>3 DEF OnStreamStop
  <2>2. PICK kind \in {"stop", "stopError"} :
             /\ Len(jobs) > 0
             /\ jobs' \in Posted(Tail(jobs),
                  Job("disconnect", gen + 1, IF kind = "stopError" THEN 0 ELSE Grace))
    BY <2>1 DEF Due
  <2> DEFINE j == Job("disconnect", gen + 1, IF kind = "stopError" THEN 0 ELSE Grace)
  <2>3. j \in Jobs /\ j.gen = gen + 1
    <3>1. /\ gen + 1 \in Nat
          /\ (IF kind = "stopError" THEN 0 ELSE Grace) \in Nat
          /\ "disconnect" \in Kinds
      BY <1>1, ConstantsOK DEF Kinds, OwnJobs
    <3> QED BY <3>1, JobOK
  <2> HIDE DEF j
  <2>4. /\ Tail(jobs) \in Seq(Jobs)
        /\ \A i \in 1 .. Len(Tail(jobs)) : \E k \in 1 .. Len(jobs) : Tail(jobs)[i] = jobs[k]
    BY <1>1, <2>2, TailFrom
  <2>5. \A i \in 1 .. Len(jobs') : jobs'[i] = j \/ \E k \in 1 .. Len(Tail(jobs)) : jobs'[i] = Tail(jobs)[k]
    BY <2>2, <2>3, <2>4, PostedFrom DEF j
  <2>6. ASSUME NEW i \in 1 .. Len(jobs'), jobs'[i].kind = "disconnect"
        PROVE  jobs'[i].gen <= gen'
    <3>1. CASE jobs'[i] = j
      BY <1>1, <2>1, <2>3, <3>1
    <3>2. CASE jobs'[i] # j
      <4>1. PICK k \in 1 .. Len(jobs) : jobs'[i] = jobs[k]
        BY <2>4, <2>5, <3>2
      <4>2. jobs[k].gen <= gen /\ jobs[k].gen \in Nat
        BY <1>2, <2>6, <4>1 DEF DisconnectsOK
      <4> QED BY <1>1, <2>1, <4>1, <4>2
    <3> QED BY <3>1, <3>2
  <2> QED BY <2>1, <2>6 DEF DisconnectsOK
<1>4. CASE Next /\ ~OnStreamStop
  <2>1. OldDisconnects
    BY <1>4, StepOldDisconnects
  <2>2. CASE OnStreamStart
    <3>1. gen' = gen + 1
      BY <2>2 DEF OnStreamStart
    <3>2. ASSUME NEW i \in 1 .. Len(jobs'), jobs'[i].kind = "disconnect"
          PROVE  jobs'[i].gen <= gen' /\ jobs'[i].gen # gen'
      <4>1. PICK k \in 1 .. Len(jobs) : jobs[k].kind = "disconnect" /\ jobs[k].gen = jobs'[i].gen
        BY <2>1, <3>2 DEF OldDisconnects
      <4>2. jobs[k].gen <= gen /\ jobs[k].gen \in Nat
        BY <1>2, <4>1 DEF DisconnectsOK
      <4> QED BY <1>1, <3>1, <4>1, <4>2
    <3> QED BY <3>2 DEF DisconnectsOK
  <2>3. CASE ~OnStreamStart
    <3>1. gen' = gen /\ lastStream' = lastStream
      BY <1>4, <2>3 DEF Next, Work, Route, MaybeDisconnect, ParkedProbe, OnConnected,
           OnDisconnected, OnPaired, RemoveAppliance, RouteUnknown, RunRead, DeferRead,
           DropDeferredRead, BeginRead, SendGet, EndRead, GetAnswered, ReadAborted,
           DropFailedRead, ParkReads, BackOffRead, ReadRaises, Environment, StreamOpens,
           StreamEnds, CloudReports, PairingChanges, GateCloses, ClientAborts, Tick
    <3> QED BY <2>1, <3>1 DEF DisconnectsOK, OldDisconnects
  <2> QED BY <2>2, <2>3
<1>5. CASE UNCHANGED vars
  BY <1>5 DEF vars
<1> QED BY <1>3, <1>4, <1>5

\* A disconnect job acts only if no START was handled since its STOP.
THEOREM StartSupersedes == Spec => StartSupersedesStop
<1>1. Init => DisconnectsOK(jobs, gen, lastStream)
  <2> SUFFICES ASSUME Init PROVE DisconnectsOK(jobs, gen, lastStream)
    OBVIOUS
  <2>1. Len(jobs) = 1 /\ jobs[1].kind = "paired"
    BY DEF Init, Job
  <2> QED BY <2>1 DEF DisconnectsOK
<1>2. IInv /\ DisconnectsOK(jobs, gen, lastStream) /\ [Next]_vars
        => DisconnectsOK(jobs, gen, lastStream)'
  BY StepKeepsDisconnects DEF DisconnectsOK
<1>3. ASSUME IInv, DisconnectsOK(jobs, gen, lastStream), MaybeDisconnect, app' # app
      PROVE  lastStream = "stop"
  <2>1. Len(jobs) > 0 /\ jobs[1].kind = "disconnect" /\ jobs[1].gen = gen /\ jobs \in Seq(Jobs)
    BY <1>3 DEF MaybeDisconnect, Due, Handled, IInv, TypeOK
  <2> QED BY <1>3, <2>1 DEF DisconnectsOK
<1>4. IInv /\ DisconnectsOK(jobs, gen, lastStream) /\ [Next]_vars
        => [MaybeDisconnect /\ app' # app => lastStream = "stop"]_vars
  BY <1>3
<1> QED BY <1>1, <1>2, <1>4, Invariance, PTL DEF Spec, StartSupersedesStop

----------------------------------------------------------------------------
(* Stream events reach the worker in the order in which they were posted.  *)

\* Position i holds the stream event that will be handled last.
LastOf(s, i) ==
    /\ i \in 1 .. Len(s) /\ s[i].kind \in StreamEvents
    /\ \A k \in (i + 1) .. Len(s) : s[k].kind \notin StreamEvents

\* Stream events are due at once, the last one queued says what the stream is now,
\* and when none is queued the last one handled does.
OrderOK(s, last, up) ==
    /\ \A i \in 1 .. Len(s) : s[i].kind \in StreamEvents => s[i].left = 0
    /\ \A i \in 1 .. Len(s) : LastOf(s, i) => (s[i].kind = "start" <=> up)
    /\ (\A i \in 1 .. Len(s) : s[i].kind \notin StreamEvents) => (last = "start" <=> up)

\* Where the jobs of a heap are after a post.
LEMMA PostedAt ==
    ASSUME NEW s \in Seq(Jobs), NEW j \in Jobs, NEW t \in Posted(s, j)
    PROVE  /\ t \in Seq(Jobs) /\ Len(t) = Len(s) + 1
           /\ \E p \in 1 .. (Len(s) + 1) :
                 /\ t[p] = j
                 /\ \A i \in 1 .. Len(s) : i < p => t[i] = s[i]
                 /\ \A i \in 1 .. Len(s) : i >= p => t[i + 1] = s[i] /\ s[i].left > j.left
<1>1. PICK p \in 1 .. (Len(s) + 1) :
         t = InsertAt(s, p, j) /\ \A i \in p .. Len(s) : s[i].left > j.left
  BY DEF Posted
<1>2. /\ t \in Seq(Jobs)
      /\ Len(t) = Len(s) + 1
      /\ \A i \in 1 .. Len(t) : t[i] = IF i < p THEN s[i] ELSE IF i = p THEN j ELSE s[i - 1]
  BY <1>1 DEF InsertAt
<1>3. t[p] = j
  BY <1>2
<1>4. ASSUME NEW i \in 1 .. Len(s), i < p PROVE t[i] = s[i]
  BY <1>2, <1>4
<1>5. ASSUME NEW i \in 1 .. Len(s), i >= p PROVE t[i + 1] = s[i] /\ s[i].left > j.left
  <2>1. i + 1 \in 1 .. Len(t) /\ ~(i + 1 < p) /\ i + 1 # p /\ (i + 1) - 1 = i /\ i \in p .. Len(s)
    BY <1>2, <1>5
  <2> QED BY <1>1, <1>2, <2>1
<1> QED BY <1>2, <1>3, <1>4, <1>5

\* A job that is no stream event may be posted anywhere.
LEMMA OrderPosted ==
    ASSUME NEW s \in Seq(Jobs), NEW j \in Jobs, NEW t \in Posted(s, j), NEW last, NEW up,
           j.kind \notin StreamEvents, OrderOK(s, last, up)
    PROVE  OrderOK(t, last, up)
<1>1. PICK p \in 1 .. (Len(s) + 1) :
         /\ t[p] = j
         /\ \A i \in 1 .. Len(s) : i < p => t[i] = s[i]
         /\ \A i \in 1 .. Len(s) : i >= p => t[i + 1] = s[i] /\ s[i].left > j.left
  BY PostedAt
<1>2. Len(t) = Len(s) + 1 /\ Len(s) \in Nat
  BY PostedAt
<1> DEFINE old(i) == IF i < p THEN i ELSE i - 1
           pos(k) == IF k < p THEN k ELSE k + 1
<1>3. ASSUME NEW i \in 1 .. Len(t), i # p
      PROVE  old(i) \in 1 .. Len(s) /\ t[i] = s[old(i)]
  <2>1. CASE i < p
    BY <1>1, <1>2, <2>1
  <2>2. CASE ~(i < p)
    <3>1. i - 1 \in 1 .. Len(s) /\ i - 1 >= p /\ (i - 1) + 1 = i
      BY <1>2, <1>3, <2>2
    <3>2. t[(i - 1) + 1] = s[i - 1]
      BY <1>1, <3>1
    <3> QED BY <2>2, <3>1, <3>2
  <2> QED BY <2>1, <2>2
<1>4. ASSUME NEW k \in 1 .. Len(s)
      PROVE  pos(k) \in 1 .. Len(t) /\ t[pos(k)] = s[k]
  BY <1>1, <1>2
<1>5. ASSUME NEW i \in 1 .. Len(t), t[i].kind \in StreamEvents
      PROVE  i # p /\ t[i].left = 0
  BY <1>1, <1>3, <1>5 DEF OrderOK
<1>6. ASSUME NEW i \in 1 .. Len(t), LastOf(t, i) PROVE t[i].kind = "start" <=> up
  <2>1. i # p /\ old(i) \in 1 .. Len(s) /\ t[i] = s[old(i)]
    BY <1>1, <1>3, <1>6 DEF LastOf
  <2>2. ASSUME NEW k \in (old(i) + 1) .. Len(s) PROVE s[k].kind \notin StreamEvents
    <3>1. k \in 1 .. Len(s) /\ pos(k) \in (i + 1) .. Len(t)
      BY <1>2, <2>1
    <3> QED BY <1>4, <1>6, <3>1 DEF LastOf
  <2>3. LastOf(s, old(i))
    BY <1>6, <2>1, <2>2 DEF LastOf
  <2> QED BY <2>1, <2>3 DEF OrderOK
<1>7. ASSUME \A i \in 1 .. Len(t) : t[i].kind \notin StreamEvents PROVE last = "start" <=> up
  <2>1. \A k \in 1 .. Len(s) : s[k].kind \notin StreamEvents
    BY <1>4, <1>7
  <2> QED BY <2>1 DEF OrderOK
<1> QED BY <1>5, <1>6, <1>7 DEF OrderOK

\* A stream event is posted behind all others: they are due, and none is overtaken.
LEMMA OrderPostedStream ==
    ASSUME NEW s \in Seq(Jobs), NEW j \in Jobs, NEW t \in Posted(s, j), NEW last, NEW up,
           j.kind \in StreamEvents, j.left = 0, OrderOK(s, last, up)
    PROVE  OrderOK(t, last, j.kind = "start")
<1>1. PICK p \in 1 .. (Len(s) + 1) :
         /\ t[p] = j
         /\ \A i \in 1 .. Len(s) : i < p => t[i] = s[i]
         /\ \A i \in 1 .. Len(s) : i >= p => t[i + 1] = s[i] /\ s[i].left > 0
  BY PostedAt
<1>2. Len(t) = Len(s) + 1 /\ Len(s) \in Nat
  BY PostedAt
<1>3. ASSUME NEW i \in 1 .. Len(t), i < p
      PROVE  i \in 1 .. Len(s) /\ t[i] = s[i]
  BY <1>1, <1>2, <1>3
<1>4. ASSUME NEW i \in 1 .. Len(t), i > p PROVE t[i].kind \notin StreamEvents
  <2>1. i - 1 \in 1 .. Len(s) /\ i - 1 >= p /\ (i - 1) + 1 = i
    BY <1>2, <1>4
  <2>2. t[(i - 1) + 1] = s[i - 1] /\ s[i - 1].left > 0
    BY <1>1, <2>1
  <2>3. s[i - 1].kind \notin StreamEvents
    BY <2>1, <2>2 DEF OrderOK
  <2> QED BY <2>1, <2>2, <2>3
<1>5. ASSUME NEW i \in 1 .. Len(t), t[i].kind \in StreamEvents PROVE t[i].left = 0
  <2>1. i = p \/ i < p
    BY <1>2, <1>4, <1>5
  <2> QED BY <1>1, <1>3, <1>5, <2>1 DEF OrderOK
<1>6. ASSUME NEW i \in 1 .. Len(t), LastOf(t, i) PROVE t[i] = j
  <2>1. ~(i < p)
    <3>1. i < p => p \in (i + 1) .. Len(t)
      BY <1>2
    <3> QED BY <1>1, <1>6, <3>1 DEF LastOf
  <2>2. ~(i > p)
    BY <1>4, <1>6 DEF LastOf
  <2> QED BY <1>1, <1>2, <2>1, <2>2
<1>7. p \in 1 .. Len(t) /\ t[p].kind \in StreamEvents
  BY <1>1, <1>2
<1> QED BY <1>5, <1>6, <1>7 DEF OrderOK

\* A pop of another job changes nothing; one of a stream event makes it the last
\* one handled.
LEMMA OrderTail ==
    ASSUME NEW s \in Seq(Jobs), Len(s) > 0, NEW last, NEW next, NEW up,
           OrderOK(s, last, up),
           IF s[1].kind \in StreamEvents THEN next = "start" <=> s[1].kind = "start"
                                         ELSE next = last
    PROVE  OrderOK(Tail(s), next, up)
<1>1. /\ Len(Tail(s)) = Len(s) - 1 /\ Len(s) \in Nat
      /\ \A i \in 1 .. Len(Tail(s)) : Tail(s)[i] = s[i + 1] /\ i + 1 \in 1 .. Len(s)
  OBVIOUS
<1> DEFINE t == Tail(s)
<1> HIDE DEF t
<1>2. /\ Len(t) = Len(s) - 1 /\ Len(s) \in Nat
      /\ \A i \in 1 .. Len(t) : t[i] = s[i + 1] /\ i + 1 \in 1 .. Len(s)
  BY <1>1 DEF t
<1>3. ASSUME NEW k \in 2 .. Len(s) PROVE k - 1 \in 1 .. Len(t) /\ t[k - 1] = s[k]
  <2>1. k - 1 \in 1 .. Len(t) /\ (k - 1) + 1 = k
    BY <1>2
  <2> QED BY <1>2, <2>1
<1>4. ASSUME NEW i \in 1 .. Len(t), t[i].kind \in StreamEvents PROVE t[i].left = 0
  BY <1>2, <1>4 DEF OrderOK
<1>5. ASSUME NEW i \in 1 .. Len(t), LastOf(t, i) PROVE t[i].kind = "start" <=> up
  <2>1. i + 1 \in 1 .. Len(s) /\ t[i] = s[i + 1]
    BY <1>2
  <2>2. ASSUME NEW k \in ((i + 1) + 1) .. Len(s) PROVE s[k].kind \notin StreamEvents
    <3>1. k \in 2 .. Len(s) /\ k - 1 \in (i + 1) .. Len(t)
      BY <1>2
    <3> QED BY <1>3, <1>5, <3>1 DEF LastOf
  <2>3. LastOf(s, i + 1)
    BY <1>5, <2>1, <2>2 DEF LastOf
  <2> QED BY <2>1, <2>3 DEF OrderOK
<1>6. ASSUME \A i \in 1 .. Len(t) : t[i].kind \notin StreamEvents PROVE next = "start" <=> up
  <2>1. \A k \in 2 .. Len(s) : s[k].kind \notin StreamEvents
    BY <1>3, <1>6
  <2>2. CASE s[1].kind \in StreamEvents
    <3>1. 1 \in 1 .. Len(s) /\ LastOf(s, 1)
      BY <1>2, <2>1, <2>2 DEF LastOf
    <3> QED BY <2>2, <3>1 DEF OrderOK
  <2>3. CASE s[1].kind \notin StreamEvents
    <3>1. \A k \in 1 .. Len(s) : k = 1 \/ k \in 2 .. Len(s)
      BY <1>2
    <3> QED BY <2>1, <2>3, <3>1 DEF OrderOK
  <2> QED BY <2>2, <2>3
<1> QED BY <1>4, <1>5, <1>6 DEF OrderOK, t

\* What is due stays due.
LEMMA OrderTicked ==
    ASSUME NEW s \in Seq(Jobs), NEW last, NEW up, OrderOK(s, last, up)
    PROVE  OrderOK(Ticked(s), last, up)
<1>1. /\ Len(Ticked(s)) = Len(s) /\ Len(s) \in Nat
      /\ \A i \in 1 .. Len(s) : Ticked(s)[i].kind = s[i].kind
  BY TickedFrom
<1>2. ASSUME NEW i \in 1 .. Len(s), s[i].left = 0 PROVE Ticked(s)[i].left = 0
  <2>1. s[i] \in Jobs /\ Ticked(s)[i] = [s[i] EXCEPT !.left = Sooner(@)]
    BY DEF Ticked
  <2> QED BY <1>2, <2>1 DEF Jobs, Sooner
<1> QED BY <1>1, <1>2 DEF OrderOK, LastOf

\* A step of a registered appliance keeps the order.
LEMMA StepKeepsOrder ==
    ASSUME IInv, known, OrderOK(jobs, lastStream, streamUp), [Next]_vars, known'
    PROVE  OrderOK(jobs', lastStream', streamUp')
<1>1. jobs \in Seq(Jobs) /\ app \in Appliances /\ RestOK
  BY TypeIsRest DEF IInv
<1>2. ASSUME NEW kind \in Kinds, NEW g \in Nat, NEW delay \in Nat
      PROVE  /\ Job(kind, g, delay) \in Jobs
             /\ Job(kind, g, delay).kind = kind /\ Job(kind, g, delay).left = delay
  BY DEF Job, Jobs
<1>3. /\ OwnJobs \cup StreamEvents \cup WireEvents \subseteq Kinds
      /\ \A kind \in OwnJobs \cup WireEvents : kind \notin StreamEvents
  BY DEF Kinds, StreamEvents, WireEvents, OwnJobs
<1>4. ASSUME NEW kind \in OwnJobs, NEW g \in Nat, NEW delay \in Nat, NEW s \in Seq(Jobs),
             NEW last, OrderOK(s, last, streamUp), jobs' \in Posted(s, Job(kind, g, delay))
      PROVE  OrderOK(jobs', last, streamUp)
  BY <1>2, <1>3, <1>4, OrderPosted
<1>5. ASSUME NEW a, Handled(a), NEW s, s = Tail(jobs), s \in Seq(Jobs), NEW last,
             OrderOK(s, last, streamUp)
      PROVE  OrderOK(jobs', last, streamUp)
  <2>1. jobs' = s \/ jobs' \in Posted(s, Job("read", 0, 0))
    BY <1>5 DEF Handled
  <2> QED BY <1>4, <1>5, <2>1 DEF OwnJobs
<1>6. ASSUME NEW kind \in Kinds, Due(kind), NEW last,
             IF kind \in StreamEvents THEN last = "start" <=> kind = "start"
                                      ELSE last = lastStream
      PROVE  Tail(jobs) \in Seq(Jobs) /\ OrderOK(Tail(jobs), last, streamUp)
  BY <1>1, <1>6, OrderTail DEF Due
<1>7. CASE OnStreamStart
  <2>1. Due("start") /\ lastStream' = "start" /\ streamUp' = streamUp
        /\ Handled(ScheduleRead(app, FALSE))
    BY <1>7 DEF OnStreamStart
  <2>2. Tail(jobs) \in Seq(Jobs) /\ OrderOK(Tail(jobs), "start", streamUp)
    BY <1>3, <1>6, <2>1 DEF StreamEvents
  <2> QED BY <1>5, <2>1, <2>2
<1>8. CASE OnStreamStop
  <2>1. PICK kind \in {"stop", "stopError"} :
          /\ Due(kind)
          /\ jobs' \in Posted(Tail(jobs),
                 Job("disconnect", gen + 1, IF kind = "stopError" THEN 0 ELSE Grace))
    BY <1>8 DEF OnStreamStop
  <2>2. lastStream' = "stop" /\ streamUp' = streamUp
    BY <1>8 DEF OnStreamStop
  <2>3. Tail(jobs) \in Seq(Jobs) /\ OrderOK(Tail(jobs), "stop", streamUp)
    BY <1>3, <1>6, <2>1 DEF StreamEvents
  <2>4. gen + 1 \in Nat /\ (IF kind = "stopError" THEN 0 ELSE Grace) \in Nat
    BY <1>1, ConstantsOK DEF RestOK
  <2> QED BY <1>4, <2>1, <2>2, <2>3, <2>4 DEF OwnJobs
<1>9. CASE OnConnected \/ OnDisconnected \/ OnPaired \/ MaybeDisconnect \/ ParkedProbe
  <2>1. /\ \E kind \in OwnJobs \cup WireEvents : Due(kind)
        /\ \E a : Handled(a)
        /\ lastStream' = lastStream /\ streamUp' = streamUp
    BY <1>9 DEF OnConnected, OnDisconnected, OnPaired, MaybeDisconnect, ParkedProbe,
                OwnJobs, WireEvents
  <2>2. Tail(jobs) \in Seq(Jobs) /\ OrderOK(Tail(jobs), lastStream, streamUp)
    BY <1>3, <1>6, <2>1
  <2> QED BY <1>5, <2>1, <2>2
<1>10. CASE DeferRead \/ DropDeferredRead \/ BeginRead
  <2>1. /\ Due("read") /\ lastStream' = lastStream /\ streamUp' = streamUp
        /\ \/ jobs' = Tail(jobs)
           \/ jobs' \in Posted(Tail(jobs), Job("read", 0, Lower(gate + 1, MaxDelay)))
    BY <1>10 DEF DeferRead, DropDeferredRead, BeginRead
  <2>2. Tail(jobs) \in Seq(Jobs) /\ OrderOK(Tail(jobs), lastStream, streamUp)
    BY <1>3, <1>6, <2>1 DEF OwnJobs
  <2>3. Lower(gate + 1, MaxDelay) \in Nat
    BY <1>1, ConstantsOK DEF RestOK, Lower
  <2> QED BY <1>4, <2>1, <2>2, <2>3 DEF OwnJobs
<1>11. CASE SendGet \/ EndRead \/ GetAnswered \/ ReadAborted \/ DropFailedRead \/ ReadRaises
            \/ GateCloses \/ ClientAborts \/ UNCHANGED vars
  <2>1. UNCHANGED <<jobs, lastStream, streamUp>>
    BY <1>11 DEF SendGet, EndRead, GetAnswered, ReadAborted, DropFailedRead, ReadRaises,
                 GateCloses, ClientAborts, vars
  <2> QED BY <2>1
<1>12. CASE ParkReads \/ BackOffRead
  <2>1. /\ lastStream' = lastStream /\ streamUp' = streamUp
        /\ \/ jobs' \in Posted(jobs, Job("probe", 0, ParkedRetry))
           \/ jobs' \in Posted(jobs, Job("read", 0, Backoff(app.delay)))
    BY <1>12 DEF ParkReads, BackOffRead
  <2>2. ParkedRetry \in Nat /\ Backoff(app.delay) \in Nat
    BY <1>1, BackoffOK, ConstantsOK DEF Appliances
  <2> QED BY <1>1, <1>4, <2>1, <2>2 DEF OwnJobs
<1>13. CASE StreamOpens \/ StreamEnds
  <2>1. PICK kind \in StreamEvents :
          /\ jobs' \in Posted(jobs, Job(kind, 0, 0))
          /\ streamUp' = (kind = "start") /\ lastStream' = lastStream
    BY <1>13 DEF StreamOpens, StreamEnds, Post, StreamEvents
  <2>2. /\ Job(kind, 0, 0) \in Jobs
        /\ Job(kind, 0, 0).kind = kind /\ Job(kind, 0, 0).left = 0
    BY <1>2, <1>3
  <2> QED BY <1>1, <2>1, <2>2, OrderPostedStream
<1>14. CASE PairingChanges \/ \E value \in BOOLEAN : CloudReports(value)
  <2>1. /\ lastStream' = lastStream /\ streamUp' = streamUp
        /\ jobs' = jobs \/ \E kind \in WireEvents : jobs' \in Posted(jobs, Job(kind, 0, 0))
    BY <1>14 DEF PairingChanges, CloudReports, Post, WireEvents
  <2>2. ASSUME NEW kind \in WireEvents, jobs' \in Posted(jobs, Job(kind, 0, 0))
        PROVE  OrderOK(jobs', lastStream, streamUp)
    BY <1>1, <1>2, <1>3, <2>2, OrderPosted
  <2> QED BY <2>1, <2>2
<1>15. CASE Tick
  <2>1. jobs' = Ticked(jobs) /\ lastStream' = lastStream /\ streamUp' = streamUp
    BY <1>15 DEF Tick
  <2> QED BY <1>1, <2>1, OrderTicked
<1>16. ~RemoveAppliance /\ ~RouteUnknown
  BY DEF RemoveAppliance, RouteUnknown
<1> QED BY <1>7, <1>8, <1>9, <1>10, <1>11, <1>12, <1>13, <1>14, <1>15, <1>16
        DEF Next, Work, Route, RunRead, Environment

\* Once its events are handled, what a registered appliance saw last of the stream
\* is what the stream is.
THEOREM RoutesInOrder == Spec => []RoutedInOrder
<1> DEFINE Order == known => OrderOK(jobs, lastStream, streamUp)
<1>1. Init => Order
  <2> SUFFICES ASSUME Init PROVE OrderOK(jobs, lastStream, streamUp)
    OBVIOUS
  <2>1. Len(jobs) = 1 /\ jobs[1].kind = "paired" /\ (lastStream = "start" <=> streamUp)
    BY DEF Init, Job
  <2> QED BY <2>1 DEF OrderOK, LastOf, StreamEvents
<1>2. IInv /\ Order /\ [Next]_vars => Order'
  <2> SUFFICES ASSUME IInv, Order, [Next]_vars, known'
               PROVE  OrderOK(jobs, lastStream, streamUp)'
    OBVIOUS
  <2>1. known
    BY DEF Next, Work, Route, MaybeDisconnect, ParkedProbe, OnStreamStart, OnStreamStop,
           OnConnected, OnDisconnected, OnPaired, RemoveAppliance, RouteUnknown, RunRead,
           DeferRead, DropDeferredRead, BeginRead, SendGet, EndRead, GetAnswered,
           ReadAborted, DropFailedRead, ParkReads, BackOffRead, ReadRaises, Environment,
           StreamOpens, StreamEnds, CloudReports, PairingChanges, GateCloses, ClientAborts,
           Tick, vars
  <2>2. OrderOK(jobs', lastStream', streamUp')
    BY <2>1, StepKeepsOrder
  <2> QED BY <2>2 DEF OrderOK, LastOf
<1>3. Order => RoutedInOrder
  BY DEF OrderOK, RoutedInOrder, Pending
<1> QED BY <1>1, <1>2, <1>3, Invariance, PTL DEF Spec

=============================================================================
