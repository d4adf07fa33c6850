---------------------------- MODULE MCInspectLive ----------------------------
(* Inspect with a clock that never stops, for the liveness run.             *)
EXTENDS MCInspect

\* At this age a record counts like any older one.
Old == IF PendingTTL < Cooldown THEN Cooldown ELSE PendingTTL

\* From Old on the clock can still run through a whole TTL or cooldown.
ASSUME SlideAssumption == Old + Old <= MaxTime

Slid(t) == IF t = 0 THEN 0 ELSE t - 1

\* Time goes on past MaxTime: the window of instants the model knows moves by one.
\* Recorded times move with the clock; those that fall out of it stay at its start,
\* of age Old at least.  No process holds a time of its own.
Slide ==
    /\ now > Old
    /\ \A p \in Procs : ctx[p] = Blank
    /\ now' = Slid(now)
    /\ file' = [file EXCEPT !.sentAt = Slid(@),
                            !.pending = [i \in Items |-> [count |-> @[i].count,
                                                         firstSeen |-> Slid(@[i].firstSeen)]]]
    /\ mail' = [mail EXCEPT !.at = Slid(@)]
    /\ UNCHANGED <<pc, lock, ctx, world, faults, history>>

\* Fairness, and nobody owes that time passes.
EndlessSpec == Init /\ [][Next \/ Slide]_vars /\ Fairness
=============================================================================
