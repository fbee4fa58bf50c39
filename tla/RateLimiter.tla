---------------------------- MODULE RateLimiter ----------------------------
(***************************************************************************)
(* The local limiter of program starts and stops (hc_control.RateLimiter): *)
(* at most Limit grants in any Window, on the monotonic clock.  acquire()  *)
(* holds its lock throughout, so each call is one step whichever threads   *)
(* make it.                                                                *)
(*                                                                         *)
(* The deque _events is a suffix of the history of grants: append extends  *)
(* the history, popleft drops one more of its head.                        *)
(***************************************************************************)
EXTENDS Integers, Sequences

CONSTANTS
    Limit,      \* limit
    Window,     \* window
    MaxTime     \* bound on the clock

ASSUME LimiterOK == Limit \in Nat \ {0} /\ Window \in Nat /\ MaxTime \in Nat

VARIABLES
    now,        \* the monotonic clock
    granted,    \* history: the times of all grants
    dropped     \* how many of them were dropped; _events holds the others

vars == <<now, granted, dropped>>

Grants == 1 .. Len(granted)

\* Mutant of Expired: a grant is forgotten a tick early.
ExpiredEarly(t) == now - t + 1 >= Window
\* Mutant of Expired: a grant is kept a tick longer.
ExpiredLate(t) == now - t > Window
Expired(t) == now - t >= Window

\* The loop of acquire() stops having dropped the first d grants.
Prunes(d) ==
    /\ dropped <= d
    /\ \A i \in Grants : dropped < i /\ i <= d => Expired(granted[i])
    /\ d < Len(granted) => ~Expired(granted[d + 1])

\* The window is full once the first d grants are dropped.
Full(d) == Len(granted) - d >= Limit

Grant ==
    \E d \in 0 .. Len(granted) :
        /\ Prunes(d) /\ ~Full(d)
        /\ dropped' = d
        /\ granted' = Append(granted, now)
        /\ now' = now

\* ControlRefused; what was pruned stays pruned.
Refuse ==
    \E d \in 0 .. Len(granted) :
        /\ Prunes(d) /\ Full(d)
        /\ dropped' = d
        /\ UNCHANGED <<now, granted>>

Tick ==
    /\ now < MaxTime
    /\ now' = now + 1
    /\ UNCHANGED <<granted, dropped>>

Init == now = 0 /\ granted = <<>> /\ dropped = 0

Next == Grant \/ Refuse \/ Tick

Spec == Init /\ [][Next]_vars

----------------------------------------------------------------------------
(* Properties.                                                             *)

\* The deque never outgrows the limit.
TypeOK ==
    /\ now \in 0 .. MaxTime
    /\ granted \in Seq(0 .. MaxTime)
    /\ dropped \in 0 .. Len(granted)
    /\ Len(granted) - dropped <= Limit

\* Whatever was pruned when, a grant comes a whole Window after the Limit-th
\* before it: no window, wherever it starts, holds more than Limit grants.
WindowBounded ==
    \A i, j \in Grants : j = i + Limit => granted[j] - granted[i] >= Window

\* acquire() refuses only when Limit grants lie within the last Window: a
\* caller turned away really was one too many.
RefusesOnlyWhenFull ==
    (\E d \in 0 .. Len(granted) : Prunes(d) /\ Full(d))
        => /\ Len(granted) >= Limit
           /\ now - granted[Len(granted) - Limit + 1] < Window

=============================================================================
