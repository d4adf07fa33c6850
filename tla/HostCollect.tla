----------------------------- MODULE HostCollect -----------------------------
(***************************************************************************)
(* CollectAllHosts (collector/host.go): two rounds of one goroutine per     *)
(* host with a WaitGroup between them, each making one call of the SSH      *)
(* client.  Client.RunContext (ssh/client.go) dials, starts the remote      *)
(* command in a goroutine of its own and selects between its answer and the *)
(* deadline; a command that missed the deadline goes on without a reader.   *)
(*                                                                          *)
(* Output is counted in pieces that arrived whole: the line of cpuStatCmd,  *)
(* then the sections of hostBatchCmd; what is in them, and the rules applied *)
(* to it later, make no difference here.                                    *)
(* A definition X_Change is a deliberately wrong variant of X.              *)
(***************************************************************************)
EXTENDS Integers

CONSTANTS
    Hosts,
    Sections,          \* sections of hostBatchCmd
    HandshakeMayHang   \* a host may take the TCP connection and never greet

ASSUME CollectAssumption ==
    /\ Sections \in Nat \ {0}
    /\ HandshakeMayHang \in BOOLEAN

VARIABLES
    phase,    \* main: "first" round, "second" round, "done"
    at,       \* the goroutine of a call: "idle", "dial", "exec", "done"
    running,  \* calls whose remote command has not ended
    chan,     \* what each command goroutine put in its channel
    first,    \* hosts whose cpuStat1 is filled
    result,   \* results[idx]: Error, and the sections parsed
    stuck     \* hosts that never complete the handshake (fixed)

vars == <<phase, at, running, chan, first, result, stuck>>

Calls == Hosts \X {1, 2}
\* A whole answer: the CPU line and every section.
Whole == Sections + 1
Silence == [out |-> 0, err |-> TRUE]
NoReply == [out |-> 0, err |-> FALSE]
\* A reply is output with or without an error; success means whole output.
Reply == {r \in [out : 0 .. Whole, err : BOOLEAN] : r.err \/ r.out = Whole}
HostMetrics == [error : {"", "ssh", "incomplete"}, got : 0 .. Sections]

Init ==
    /\ phase = "first"
    /\ at = [c \in Calls |-> IF c \in Hosts \X {1} THEN "dial" ELSE "idle"]
    /\ running = {}
    /\ chan = [c \in Calls |-> NoReply]
    /\ first = {}
    /\ result = [h \in Hosts |-> [error |-> "", got |-> 0]]
    /\ stuck \in IF HandshakeMayHang THEN SUBSET Hosts ELSE {{}}

Moves(c, from, to) == at[c] = from /\ at' = [at EXCEPT ![c] = to]

-----------------------------------------------------------------------------
(* What the collecting goroutine does with the result of client.Run *)

\* Round one: an error is reported, anything else is the first CPU sample.
FirstSample(h, r) ==
    IF r.err
    THEN /\ result' = [result EXCEPT ![h].error = "ssh"]
         /\ UNCHANGED first
    ELSE /\ first' = first \cup {h}
         /\ UNCHANGED result

parseHostOutput_Unchecked(r) ==
    [error |-> "", got |-> IF r.out = 0 THEN 0 ELSE r.out - 1]

parseHostOutput_CountsCpuLine(r) ==
    IF r.out = 0 THEN [error |-> "incomplete", got |-> 0] ELSE [error |-> "", got |-> r.out]

\* Fewer than two lines, so not even the CPU line is whole: "incomplete output".
\* Past it a short answer is no error: it leaves the fields of the missing sections
\* zero, of all of them at worst.  (The warning about unmatched mounts is left out.)
parseHostOutput(r) ==
    IF r.out = 0 THEN [error |-> "incomplete", got |-> 0] ELSE [error |-> "", got |-> r.out - 1]

\* Round two: the error is dropped, the output is parsed whatever it is.
Measure(h, r) ==
    /\ result' = [result EXCEPT ![h] = parseHostOutput(r)]
    /\ UNCHANGED first

Return(c, r) == IF c[2] = 1 THEN FirstSample(c[1], r) ELSE Measure(c[1], r)

-----------------------------------------------------------------------------
(* RunContext *)

\* Refused, unroutable, not authenticated, or no session.
DialFailed(c) ==
    /\ c[1] \notin stuck
    /\ Moves(c, "dial", "done")
    /\ Return(c, Silence)
    /\ UNCHANGED <<phase, running, chan, stuck>>

Connected(c) ==
    /\ c[1] \notin stuck
    /\ Moves(c, "dial", "exec")
    /\ running' = running \cup {c}
    /\ UNCHANGED <<phase, chan, first, result, stuck>>

Ended_Unbuffered(c, r) ==
    /\ c \in running
    /\ at[c] = "exec"
    /\ running' = running \ {c}
    /\ chan' = [chan EXCEPT ![c] = r]
    /\ UNCHANGED <<phase, at, first, result, stuck>>

\* session.CombinedOutput returned; the channel has room, read or not.
Ended(c, r) ==
    /\ c \in running
    /\ running' = running \ {c}
    /\ chan' = [chan EXCEPT ![c] = r]
    /\ UNCHANGED <<phase, at, first, result, stuck>>

\* The remote command ends in its own time, if ever; the connection may break.
Answer(c) == at[c] = "exec" /\ \E r \in Reply : Ended(c, r)

\* The caller left and closed session and connection: CombinedOutput fails.
Hangup(c) == at[c] = "done" /\ Ended(c, Silence)

Received(c) ==
    /\ chan[c] \in Reply
    /\ Moves(c, "exec", "done")
    /\ Return(c, chan[c])
    /\ UNCHANGED <<phase, running, chan, stuck>>

Timeout_Never(c) == FALSE /\ UNCHANGED vars

\* ctx.Done won the select, an answer being ready or not.
Timeout(c) ==
    /\ Moves(c, "exec", "done")
    /\ Return(c, Silence)
    /\ UNCHANGED <<phase, running, chan, stuck>>

-----------------------------------------------------------------------------
(* CollectAllHosts *)

BeginSecond_NoWait ==
    /\ phase = "first" /\ phase' = "second"
    /\ at' = [c \in Calls |-> IF c[2] = 2 /\ result[c[1]].error = "" THEN "dial" ELSE at[c]]
    /\ UNCHANGED <<running, chan, first, result, stuck>>

BeginSecond_All ==
    /\ phase = "first" /\ phase' = "second"
    /\ \A h \in Hosts : at[<<h, 1>>] = "done"
    /\ at' = [c \in Calls |-> IF c[2] = 2 THEN "dial" ELSE at[c]]
    /\ UNCHANGED <<running, chan, first, result, stuck>>

\* wg1.Wait, the sleep, and the loop that skips hosts with an error.
BeginSecond ==
    /\ phase = "first" /\ phase' = "second"
    /\ \A h \in Hosts : at[<<h, 1>>] = "done"
    /\ at' = [c \in Calls |-> IF c[2] = 2 /\ result[c[1]].error = "" THEN "dial" ELSE at[c]]
    /\ UNCHANGED <<running, chan, first, result, stuck>>

Finish_NoWait ==
    /\ phase = "second" /\ phase' = "done"
    /\ UNCHANGED <<at, running, chan, first, result, stuck>>

\* wg2.Wait and return.
Finish ==
    /\ phase = "second" /\ phase' = "done"
    /\ \A h \in Hosts : at[<<h, 2>>] \in {"idle", "done"}
    /\ UNCHANGED <<at, running, chan, first, result, stuck>>

-----------------------------------------------------------------------------

Call(c) == DialFailed(c) \/ Connected(c) \/ Received(c) \/ Timeout(c)

Next ==
    \/ BeginSecond \/ Finish
    \/ \E c \in Calls : Call(c) \/ Answer(c) \/ Hangup(c)

Spec == Init /\ [][Next]_vars

\* Goroutines run, deadlines pass, dials and closed connections end; a remote
\* command owes no answer.
FairSpec ==
    /\ Spec
    /\ WF_vars(BeginSecond) /\ WF_vars(Finish)
    /\ \A c \in Calls : WF_vars(Call(c)) /\ WF_vars(Hangup(c))

-----------------------------------------------------------------------------
(* Properties *)

TypeOK ==
    /\ phase \in {"first", "second", "done"}
    /\ at \in [Calls -> {"idle", "dial", "exec", "done"}]
    /\ running \in SUBSET Calls
    /\ chan \in [Calls -> Reply \cup {NoReply}]
    /\ first \in SUBSET Hosts
    /\ result \in [Hosts -> HostMetrics]
    /\ stuck \in SUBSET Hosts

\* CPU usage is the difference of two samples: no host has metrics without its
\* first sample (wg1.Wait; an empty cpuStat1 would give the average since boot).
SampledBefore == \A h \in Hosts : result[h].got > 0 => h \in first

\* Round two drops its error (out, _ := client.Run), and a timed-out command may
\* answer behind its back.  All the same a host without an Error had both its calls
\* answered, and has the sections of that answer, no more; a host with one has none.
\* Not that it has any: an answer cut after the CPU line is no Error.
MetricsAnswered ==
    phase = "done" =>
        \A h \in Hosts :
            IF result[h].error = ""
            THEN h \in first /\ chan[<<h, 2>>].out = result[h].got + 1
            ELSE result[h].got = 0

\* A host that failed in round one keeps its SSH error, and nothing is written
\* after CollectAllHosts returned: late answers of commands that timed out go
\* to a channel nobody reads.
ResultsSettle ==
    [][/\ phase = "done" => UNCHANGED result
       /\ \A h \in Hosts : result[h].error = "ssh" => result'[h] = result[h]]_vars

\* Collection ends although remote commands may hang (ExecTimeout).
CollectionEnds == stuck = {} => <>(phase = "done")

\* No command goroutine outlives its connection: the channel is buffered.
GoroutinesEnd == stuck = {} => <>[](running = {})

\* A host out of reach "does not block the collection of the other hosts".
OthersCollected ==
    \A h \in Hosts :
        <>(h \in stuck \/ at[<<h, 2>>] = "done" \/ result[h].error # "")
=============================================================================
