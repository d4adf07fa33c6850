------------------------------ MODULE DepProbes ------------------------------
(***************************************************************************)
(* CollectBKMonitorV3Deps (collector/bkmonitor_dep.go): six endpoints are   *)
(* probed one after the other, two by a TCP connection and four by a        *)
(* command line tool.  runWithTimeout runs the tool in a goroutine, selects *)
(* between its answer and a timer, and kills the process when the timer     *)
(* wins.  The rules of checker/bkdeps.go come last.                         *)
(* A definition X_Change is a deliberately wrong variant of X.              *)
(***************************************************************************)
EXTENDS Integers, SequencesExt

CHECKS == INSTANCE Probe

VARIABLES
    hosts,      \* the host lists of Config; do not change
    deps,       \* Config.BKMonitorV3: the fields each probe needs; does not change
    phase,      \* main: "idle", "next", "select", "done", "panicked"
    results,    \* the DependencyResults so far
    process,    \* of each item: "none", "forked" (goroutine), "failed" to start,
                \* "started", "ended"
    chan        \* of each item: the answer its goroutine or connection gave

vars == <<hosts, deps, phase, results, process, chan>>

Items == <<"redis", "mysql", "rabbitmq", "zookeeper", "es7", "influxdb">>
OverTCP == {"rabbitmq", "zookeeper"}

\* An error (of the tool or the connection); or an answer: what is expected, a
\* rejected login, nothing (of curl also "000"), or something else.
Answers == {"error", "expected", "rejected", "nothing", "other"}
NoAnswer == "none yet"

Item == Items[Len(results) + 1]
Record(status) == results' = Append(results, [Item |-> Item, Status |-> status])
GoOn == phase' = IF Len(results) + 1 = Len(Items) THEN "done" ELSE "next"

\* Whether bkmonitorv3 is deployed: any of its five lists.
Collects_OldLists(lists) == lists["bkmonitorv3"] # <<>>

Collects(lists) ==
    \E l \in {"bkmonitorv3", "bkmonitorv3-monitor", "bkmonitorv3-influxdb-proxy",
              "bkmonitorv3-transfer", "bkmonitorv3-unify-query"} : lists[l] # <<>>

\* A field the item needs is empty.
Missing(item) == \E k \in DOMAIN deps[item] : deps[item][k] = ""

\* What an answer is worth.  Any AMQP answer and any connection to ZooKeeper will
\* do; an error of the mysql client is a failure, of the others unreachable.
Grade(item, answer) ==
    IF answer = "error" THEN IF item = "mysql" THEN "fail" ELSE "unreachable"
    ELSE CASE item = "zookeeper" \/ answer = "expected" -> "ok"
           [] item = "rabbitmq" /\ answer # "expected" -> IF answer = "nothing" THEN "fail" ELSE "ok"
           [] item \in {"es7", "influxdb"} /\ answer = "nothing" -> "unreachable"
           [] OTHER -> "fail"

-----------------------------------------------------------------------------

Init ==
    /\ phase = "idle"
    /\ results = <<>>
    /\ process = [i \in ToSet(Items) |-> "none"]
    /\ chan = [i \in ToSet(Items) |-> NoAnswer]

Begin ==
    /\ phase = "idle"
    /\ phase' = IF Collects(hosts) THEN "next" ELSE "done"
    /\ UNCHANGED <<hosts, deps, results, process, chan>>

Skip ==
    /\ phase = "next"
    /\ Missing(Item)
    /\ Record("skip") /\ GoOn
    /\ UNCHANGED <<hosts, deps, process, chan>>

\* exec.LookPath found no such tool.
NoTool ==
    /\ phase = "next"
    /\ ~ Missing(Item) /\ Item \notin OverTCP
    /\ Record("unreachable") /\ GoOn
    /\ UNCHANGED <<hosts, deps, process, chan>>

\* The dial and what is said over the connection have deadlines.
Connect(answer) ==
    /\ phase = "next"
    /\ ~ Missing(Item) /\ Item \in OverTCP
    /\ chan' = [chan EXCEPT ![Item] = answer]
    /\ Record(Grade(Item, answer)) /\ GoOn
    /\ UNCHANGED <<hosts, deps, process>>

\* The goroutine is created and main enters the select.
Launch ==
    /\ phase = "next" /\ phase' = "select"
    /\ ~ Missing(Item) /\ Item \notin OverTCP
    /\ process' = [process EXCEPT ![Item] = "forked"]
    /\ UNCHANGED <<hosts, deps, results, chan>>

\* CombinedOutput started the process; cmd.Process is set from now on.
Started(i) ==
    /\ process[i] = "forked"
    /\ process' = [process EXCEPT ![i] = "started"]
    /\ UNCHANGED <<hosts, deps, phase, results, chan>>

\* cmd.Start failed; cmd.Process stays nil.
StartFailed(i) ==
    /\ process[i] = "forked"
    /\ process' = [process EXCEPT ![i] = "failed"]
    /\ chan' = [chan EXCEPT ![i] = "error"]
    /\ UNCHANGED <<hosts, deps, phase, results>>

\* The process ended; the channel has room whether main waits or not.
Ended(i, answer) ==
    /\ process[i] = "started"
    /\ process' = [process EXCEPT ![i] = "ended"]
    /\ chan' = [chan EXCEPT ![i] = answer]
    /\ UNCHANGED <<hosts, deps, phase, results>>

Receive ==
    /\ phase = "select"
    /\ chan[Item] # NoAnswer
    /\ Record(Grade(Item, chan[Item])) /\ GoOn
    /\ UNCHANGED <<hosts, deps, process, chan>>

\* The timer won, whether or not an answer was ready as well.
Timeout ==
    /\ phase = "select"
    /\ process[Item] \in {"started", "ended"}
    /\ Record(Grade(Item, "error")) /\ GoOn
    /\ UNCHANGED <<hosts, deps, process, chan>>

\* The timer won and there is no process: cmd.Process.Kill of nil ends the program.
TimeoutBeforeStart ==
    /\ phase = "select" /\ phase' = "panicked"
    /\ process[Item] \in {"forked", "failed"}
    /\ UNCHANGED <<hosts, deps, results, process, chan>>

Judged == {results[k].Item : k \in DOMAIN results}

LateEnd_Overwrites(i) ==
    /\ i \in Judged /\ process[i] = "started"
    /\ process' = [process EXCEPT ![i] = "ended"]
    /\ results' = [k \in DOMAIN results |->
                      IF results[k].Item = i THEN [results[k] EXCEPT !.Status = "ok"]
                      ELSE results[k]]
    /\ UNCHANGED <<hosts, deps, phase, chan>>

\* A process main killed, or gave up to kill, ends after main went on.
LateEnd(i) == i \in Judged /\ Ended(i, "error")

\* What main does, tools and servers giving one of the answers.
Main(answers) ==
    \/ Begin \/ Skip \/ Launch \/ Receive
    \/ \E a \in answers : Connect(a)

Lag == NoTool \/ Timeout \/ TimeoutBeforeStart

Tool(answers) ==
    /\ phase = "select"
    /\ \/ Started(Item)
       \/ "error" \in answers /\ StartFailed(Item)
       \/ \E a \in answers : Ended(Item, a)

-----------------------------------------------------------------------------
(* checker/bkdeps.go *)

DepRow_Verbatim(d) == <<CHECKS!CheckResult(<<"bkdeps", d.Item, "status">>, d.Status)>>

\* What was skipped yields no row.
DepRow(d) ==
    CASE d.Status = "ok" -> <<CHECKS!CheckResult(<<"bkdeps", d.Item, "status">>, "ok")>>
      [] d.Status = "skip" -> <<>>
      [] OTHER -> <<CHECKS!CheckResult(<<"bkdeps", d.Item, "status">>, "notice")>>

CheckBKDeps(dependencies) == CHECKS!RowsOfEach(dependencies, DepRow)

-----------------------------------------------------------------------------
(* Properties *)

\* A verdict is given once, in the order of the probes, and stands: what a command
\* says after its timer went off, or after collection ended, reaches nobody.
DepsSettle == [][IsPrefix(results, results')]_vars
=============================================================================
