----------------------------- MODULE MCCalmRuns -----------------------------
(* Two unrelated alerts, one process at a time. *)
EXTENDS CalmRuns

PlainSigKey == [i \in Items |-> i]
=============================================================================
