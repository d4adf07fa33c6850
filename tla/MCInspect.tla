------------------------------ MODULE MCInspect ------------------------------
(* Instances of Inspect for TLC. *)
EXTENDS Inspect, TLC

CONSTANTS queue1, queue2

\* Every item has its own key, but the queues of a vhost share one.
PlainSigKey == [i \in Items |-> i]
VhostSigKey == [i \in Items |-> IF i = queue2 THEN queue1 ELSE i]

Symmetric == Permutations(Procs) \cup Permutations(Items)
=============================================================================
