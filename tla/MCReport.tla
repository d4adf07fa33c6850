------------------------------ MODULE MCReport ------------------------------
(* Two hosts sharing a field, one field of the first host alone; a module on *)
(* two hosts, whose service has one field for both; one queue.              *)
EXTENDS Report

CONSTANTS h1, h2, broker, cpu, disk, svc, queue

TwoHosts == <<h1, h2>>
TwoHostFields == [h \in {h1, h2} |-> IF h = h1 THEN {cpu, disk} ELSE {cpu}]
ModuleAndQueue == [e \in {h1, h2, broker} |-> IF e = broker THEN {queue} ELSE {svc}]
Says == [f \in {cpu, disk, svc, queue} |->
            CASE f = cpu   -> {"ok", "warn"}
              [] f = disk  -> {"absent", "ok", "warn"}
              [] f = svc   -> {"ok", "warn", "unknown"}
              [] f = queue -> {"absent", "ok", "warn", "notice"}]
=============================================================================
