------------------------------ MODULE ESCollect ------------------------------
(***************************************************************************)
(* CollectES (collector/es.go): one goroutine per node asks whether it      *)
(* answers; then the first that does, in the order of the list, is asked    *)
(* for the cluster's health and, within the same five seconds, for the      *)
(* nodes.  The rules of checker/es.go come last.                            *)
(* A definition X_Change is a deliberately wrong variant of X.              *)
(***************************************************************************)
EXTENDS Integers, SequencesExt

CHECKS == INSTANCE Probe

VARIABLES
    ips,      \* Config.ES7IPs; does not change
    phase,    \* "idle", "probing", "health", "nodes", "done"
    reach,    \* NodeReachability, by position; "pending" before its goroutine ends
    cluster   \* the ESCluster being filled

vars == <<ips, phase, reach, cluster>>

NoError == CHECKS!NoError
CurlErrors == CHECKS!CurlErrors
Levels == 0 .. 2

\* leader is the position of the node that was asked; 0 when there is none.
NoCluster ==
    [leader |-> 0, Error |-> "", ErrorClass |-> "", Status |-> "",
     UnassignedShards |-> 0, PendingTasks |-> 0, Nodes |-> <<>>]

\* _cluster/health: an error of curl, or a body.  A body that is no health, such as
\* that of a rejected login, leaves the fields as they are.
Health ==
    [err : {NoError}, Status : {"green", "yellow"}, Unassigned : Levels, Pending : Levels]
    \cup [err : CurlErrors \cup {NoError}, Status : {""}, Unassigned : {0}, Pending : {0}]
GoodHealth == [err |-> NoError, Status |-> "green", Unassigned |-> 0, Pending |-> 0]

\* _cat/nodes: an error, or no list, leaves the nodes out.
Nodes == {<<>>} \cup {<<n>> : n \in [HeapPercent : Levels, RAMPercent : Levels]}
GoodNodes == <<[HeapPercent |-> 0, RAMPercent |-> 0]>>

-----------------------------------------------------------------------------

Init ==
    /\ phase = "idle"
    /\ reach = <<>>
    /\ cluster = NoCluster

\* exec.LookPath found no curl.
NoCurl ==
    /\ phase = "idle" /\ phase' = "done"
    /\ ips # <<>>
    /\ cluster' = [NoCluster EXCEPT !.Error = "curl CLI not available",
                                    !.ErrorClass = "unknown"]
    /\ UNCHANGED <<ips, reach>>

\* Nothing is collected for an empty list.
Begin ==
    /\ phase = "idle"
    /\ phase' = IF ips = <<>> THEN "done" ELSE "probing"
    /\ reach' = [i \in DOMAIN ips |-> "pending"]
    /\ UNCHANGED <<ips, cluster>>

Reached(i, err) ==
    /\ phase = "probing"
    /\ reach[i] = "pending"
    /\ reach' = [reach EXCEPT ![i] = IF err = NoError THEN "ok" ELSE "unreachable"]
    /\ UNCHANGED <<ips, phase, cluster>>

Elect_NoWait ==
    /\ phase = "probing"
    /\ \E i \in DOMAIN ips : reach[i] # "pending"
    /\ LET up == {i \in DOMAIN ips : reach[i] = "ok"}
       IN  /\ phase' = IF up = {} THEN "done" ELSE "health"
           /\ cluster' = IF up = {}
                         THEN [cluster EXCEPT !.Error = "all nodes unreachable",
                                              !.ErrorClass = "network"]
                         ELSE [cluster EXCEPT !.leader = CHECKS!Min(up)]
    /\ UNCHANGED <<ips, reach>>

\* wg.Wait, then the first node of the list that answered.
Elect ==
    /\ phase = "probing"
    /\ \A i \in DOMAIN ips : reach[i] # "pending"
    /\ LET up == {i \in DOMAIN ips : reach[i] = "ok"}
       IN  /\ phase' = IF up = {} THEN "done" ELSE "health"
           /\ cluster' = IF up = {}
                         THEN [cluster EXCEPT !.Error = "all nodes unreachable",
                                              !.ErrorClass = "network"]
                         ELSE [cluster EXCEPT !.leader = CHECKS!Min(up)]
    /\ UNCHANGED <<ips, reach>>

GetHealth_Silent(h) ==
    /\ phase = "health"
    /\ phase' = IF h.err = NoError THEN "nodes" ELSE "done"
    /\ cluster' = [cluster EXCEPT !.Status = h.Status, !.UnassignedShards = h.Unassigned,
                                  !.PendingTasks = h.Pending]
    /\ UNCHANGED <<ips, reach>>

\* The leader may have gone since it was elected.
GetHealth(h) ==
    /\ phase = "health"
    /\ phase' = IF h.err = NoError THEN "nodes" ELSE "done"
    /\ cluster' = IF h.err # NoError
                  THEN [cluster EXCEPT !.Error = "curl error",
                                       !.ErrorClass = CHECKS!curlErrClass(h.err)]
                  ELSE [cluster EXCEPT !.Status = h.Status, !.UnassignedShards = h.Unassigned,
                                       !.PendingTasks = h.Pending]
    /\ UNCHANGED <<ips, reach>>

\* A failure here is not told.
GetNodes(n) ==
    /\ phase = "nodes" /\ phase' = "done"
    /\ cluster' = [cluster EXCEPT !.Nodes = n]
    /\ UNCHANGED <<ips, reach>>

-----------------------------------------------------------------------------
(* checker/es.go *)

NodeRows(n, thresholds) ==
    CHECKS!RowIf(n.HeapPercent > thresholds["es_heap"], <<"es", "node", "heap">>, "notice")
    \o CHECKS!RowIf(n.RAMPercent > thresholds["es_ram"], <<"es", "node", "ram">>, "notice")

\* A cluster that could not be asked gets one row, whatever is known of its nodes.
CheckES(c, nodes, thresholds) ==
    LET OfNode(n) == NodeRows(n, thresholds)
        Unreachable(i) == CHECKS!RowIf(reach[i] = "unreachable",
                                       <<"es", nodes[i], "reachability">>, "warn")
    IN  IF c.Error # ""
        THEN <<CHECKS!CheckResult(<<"es", "cluster", "cluster_error">>, "warn")>>
        ELSE CHECKS!RowIf(c.Status \notin {"", "green"},
                          <<"es", "cluster", "cluster_status">>, "notice")
             \o CHECKS!RowIf(c.UnassignedShards > thresholds["es_unassigned"],
                             <<"es", "cluster", "unassigned_shards">>, "notice")
             \o CHECKS!RowIf(c.PendingTasks > 0, <<"es", "cluster", "pending_tasks">>, "notice")
             \o CHECKS!RowsOfEach(c.Nodes, OfNode)
             \o FlattenSeq([i \in DOMAIN reach |-> Unreachable(i)])
=============================================================================
