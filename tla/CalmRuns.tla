------------------------------ MODULE CalmRuns ------------------------------
(***************************************************************************)
(* Inspect with an observer that counts the runs recorded since the raw     *)
(* warnings last changed: what periodic runs do while nothing changes.      *)
(***************************************************************************)
EXTENDS Inspect

VARIABLE calm

CalmInit == Init /\ calm = 0

Recorded == \E p \in Procs : pc[p] = "save" /\ pc'[p] = "exit" /\ faults' = faults

CalmNext ==
    /\ Next
    /\ calm' = IF world' # world THEN 0 ELSE IF Recorded THEN Upto(calm) ELSE calm

CalmSpec == CalmInit /\ [][CalmNext]_<<vars, calm>>

\* Once N runs have recorded the same warnings, no alert mail follows another
\* within the cooldown: "periodic runs do not produce duplicate mails ... exactly
\* one alert mail in the 2 hour window" (openspec alert-persistence-confirmation).
OneMailPerCooldown ==
    [][/\ mail' # mail
       /\ mail.kind = "alert" /\ mail'.kind = "alert"
       /\ calm = ConsecutiveRuns /\ faults = 0
       => mail'.at - mail.at >= Cooldown]_<<vars, calm>>
=============================================================================
