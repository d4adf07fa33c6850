------------------------------- MODULE Gather -------------------------------
(***************************************************************************)
(* What the collection of the services promises: every host of every module *)
(* is asked once, its answer is put on the board of its module in one step, *)
(* in whatever order the answers come, and nothing is put there afterwards. *)
(***************************************************************************)
EXTENDS Naturals, Sequences

VARIABLES
    moduleHosts,  \* the hosts of each module; does not change
    phase,        \* "idle", "running", "done"
    pending,      \* module and position of the hosts still to answer
    board         \* of each module, the hosts that answered, in order

vars == <<moduleHosts, phase, pending, board>>

Places == UNION {{m} \X DOMAIN moduleHosts[m] : m \in DOMAIN moduleHosts}

Init ==
    /\ phase = "idle"
    /\ pending = {}
    /\ board = [m \in DOMAIN moduleHosts |-> <<>>]

Open ==
    /\ phase = "idle" /\ phase' = "running"
    /\ pending' = Places
    /\ UNCHANGED <<moduleHosts, board>>

Deliver(m, i) ==
    /\ phase = "running"
    /\ <<m, i>> \in pending
    /\ pending' = pending \ {<<m, i>>}
    /\ board' = [board EXCEPT ![m] = Append(@, moduleHosts[m][i])]
    /\ UNCHANGED <<moduleHosts, phase>>

Close ==
    /\ phase = "running" /\ phase' = "done"
    /\ pending = {}
    /\ UNCHANGED <<moduleHosts, pending, board>>

Next == Open \/ Close \/ \E p \in pending : Deliver(p[1], p[2])

Spec == Init /\ [][Next]_vars
=============================================================================
