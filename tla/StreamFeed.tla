----------------------------- MODULE StreamFeed -----------------------------
(***************************************************************************)
(* What the reader thread promises the worker that routes its events: they *)
(* come in brackets.  A START opens one; wire events come only inside one; *)
(* a STOP closes it, or reports an attempt that opened none, in which case *)
(* it carries the error; and nothing comes after the reader has ended,     *)
(* which it does outside a bracket.                                        *)
(*                                                                         *)
(* Appliance relies on exactly this in its actions StreamOpens, StreamEnds *)
(* and CloudReports; EventStream implements it.                            *)
(***************************************************************************)
VARIABLES
    up,     \* a START was dispatched and no STOP since
    said,   \* the last event dispatched
    over    \* the reader has ended

feed == <<up, said, over>>

Said == {"nothing", "start", "event", "stop", "stopError"}

Init == ~up /\ said = "nothing" /\ ~over

Start == ~over /\ ~up /\ up' /\ said' = "start" /\ ~over'

Deliver == ~over /\ up /\ up' /\ said' = "event" /\ ~over'

\* The last STOP and the end of the reader are one step.
Stop ==
    /\ ~over /\ ~up'
    /\ said' \in (IF up THEN {"stop", "stopError"} ELSE {"stopError"})
    /\ over' \in BOOLEAN

End == ~over /\ ~up /\ ~up' /\ said' = said /\ over'

Next == Start \/ Deliver \/ Stop \/ End

Spec == Init /\ [][Next]_feed
=============================================================================
