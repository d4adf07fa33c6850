---------------------------- MODULE RecoveryRuns ----------------------------
(***************************************************************************)
(* Runs one after the other over MySQL slaves alone: what Replication makes *)
(* of their answers is what NotifyRules decides by.  No run fails and every *)
(* mail arrives; Inspect has the rest.                                      *)
(***************************************************************************)
EXTENDS NotifyRules, Sequences

CONSTANTS
    Slaves,     \* BK_MYSQL_SLAVE_IP_COMMA
    Lag,        \* INSPECT_MYSQL_REPL_LAG_THRESHOLD
    Answers,    \* what a slave may answer, among those of Replication
    MaxTime     \* bound of the runs

VARIABLES
    now,        \* runs so far, and the clock
    told,       \* what the slaves answered in the last run
    state,      \* notify/state.json
    mail        \* the last mail

vars == <<now, told, state, mail>>

REP == INSTANCE Replication

Init ==
    /\ now = 1
    /\ told = <<>>
    /\ state = ColdState
    /\ mail = "none"

\* Collection and rules of the slaves, then Prepare and Dispatch.
Run(a) ==
    LET slaves == [i \in DOMAIN Slaves |-> REP!collectMySQLSlave(Slaves[i], a[i], Lag)]
        rows   == REP!RowsOfEach(slaves, REP!SlaveRows)
        raw    == {field[2] : field \in REP!Fields(rows, "warn")}
        act    == DispatchAction(state, raw, now)
    IN  /\ now < MaxTime /\ now' = now + 1
        /\ told' = a
        /\ state' = NextState(state, raw, now, act)
        /\ mail' = IF act = "none" THEN mail ELSE act

Next == \E a \in [DOMAIN Slaves -> Answers] : Run(a)

Spec == Init /\ [][Next]_vars

Replicates(a) ==
    \E row \in {REP!StatusOfSlave(a).rows[k] : k \in DOMAIN REP!StatusOfSlave(a).rows} :
        row.IO /\ row.SQL /\ REP!SecondsBehind(row) <= Lag

\* BuildRecoveryBody (email.go) says that all checks are back to normal: a recovery is
\* mailed only when every slave replicates.
RecoveryMeansHealthy ==
    [][(mail # "recovery" /\ mail' = "recovery") => \A i \in DOMAIN told' : Replicates(told'[i])]_vars
=============================================================================
