------------------------------- MODULE Inspect -------------------------------
(***************************************************************************)
(* Runs of weops-inspect as main.go sequences them: cron starts processes   *)
(* that may overlap; each takes the flock of lock/lock.go, collects,        *)
(* evaluates the notification rules against state.json (Prepare), writes    *)
(* the report, mails (Dispatch) and saves the state.  A process may die     *)
(* between any two steps; reading the state, writing the report, mailing    *)
(* and saving may each fail; the clock may be set back.                     *)
(***************************************************************************)
EXTENDS NotifyRules, FiniteSets

CONSTANTS
    Procs,      \* process slots cron may start a run in
    NoProc,     \* "nobody holds the lock"
    MaxTime,    \* bound: the wall clock stays in 0..MaxTime
    MaxFaults,  \* bound: faults in a behaviour
    MaxStreak   \* bound: a run is not modelled beyond this recovery streak

ASSUME InspectAssumption ==
    /\ NoProc \notin Procs
    /\ MaxTime \in Nat
    /\ MaxFaults \in Nat
    /\ MaxStreak \in Nat

VARIABLES
    pc,        \* where each process is
    lock,      \* holder of inspect.lock
    ctx,       \* PrepContext of each process
    file,      \* what LoadState reads: the content of state.json
    mail,      \* the last mail the SMTP server accepted
    world,     \* items found warning by the latest collection
    now,       \* wall clock, as last read
    faults,    \* faults so far
    \* History: what happened in the runs whose state reached the disk.
    trail,     \* consecutive sightings of each item, consecutive quiet runs
    forgot,    \* the state file does not record the last mail
    degraded   \* some run went on without the lock

vars == <<pc, lock, ctx, file, mail, world, now, faults, trail, forgot, degraded>>
history == <<trail, forgot, degraded>>

Context == [on : BOOLEAN, cold : BOOLEAN,
            prev : State, raw : SUBSET Items, now : Nat]
Blank == [on |-> FALSE, cold |-> FALSE,
          prev |-> ColdState, raw |-> {}, now |-> 0]
Mail == [kind : {"none", "alert", "recovery"}, items : SUBSET Items, at : Nat]
Trail == [seen : [Items -> Nat], quiet : Nat]

Init ==
    /\ pc = [p \in Procs |-> "idle"]
    /\ lock = NoProc
    /\ ctx = [p \in Procs |-> Blank]
    /\ file = ColdState
    /\ mail = [kind |-> "none", items |-> {}, at |-> 0]
    /\ world = {}
    /\ now = 0
    /\ faults = 0
    /\ trail = [seen |-> [i \in Items |-> 0], quiet |-> 0]
    /\ forgot = FALSE
    /\ degraded = FALSE

-----------------------------------------------------------------------------
(* What a prepared process has decided *)

Fires(p)  == Filtered(ctx[p].raw, ctx[p].prev.pending, ctx[p].now)
Action(p) == DispatchAction(ctx[p].prev, ctx[p].raw, ctx[p].now)
Result(p) == NextState(ctx[p].prev, ctx[p].raw, ctx[p].now, Action(p))

Goto(p, from, to) == pc[p] = from /\ pc' = [pc EXCEPT ![p] = to]
Fault == faults < MaxFaults /\ faults' = faults + 1

Gone_LockKept(p) ==
    /\ ctx' = [ctx EXCEPT ![p] = Blank]
    /\ UNCHANGED lock

\* The process is gone: the kernel drops its flock, its memory is lost.
Gone(p) ==
    /\ ctx' = [ctx EXCEPT ![p] = Blank]
    /\ lock' = IF lock = p THEN NoProc ELSE lock

\* The run counts: its state reached the disk.
Upto(n) == IF n < ConsecutiveRuns THEN n + 1 ELSE ConsecutiveRuns
Record(raw) ==
    trail' = [seen |-> [i \in Items |-> IF i \in raw THEN Upto(trail.seen[i]) ELSE 0],
              quiet |-> IF raw = {} THEN Upto(trail.quiet) ELSE 0]

-----------------------------------------------------------------------------
(* A run, step by step *)

\* cron starts the program; flags and configuration are valid.
Launch(p) ==
    /\ Goto(p, "idle", "start")
    /\ UNCHANGED <<lock, ctx, file, mail, world, now, faults, history>>

Acquire_NoExclusion(p) ==
    /\ Goto(p, "start", "collect")
    /\ lock' = p
    /\ UNCHANGED <<ctx, file, mail, world, now, faults, history>>

Acquire(p) ==
    /\ lock = NoProc
    /\ Goto(p, "start", "collect")
    /\ lock' = p
    /\ UNCHANGED <<ctx, file, mail, world, now, faults, history>>

\* ErrBusy: leave quietly, exit code 0.
AcquireBusy(p) ==
    /\ lock # NoProc
    /\ Goto(p, "start", "idle")
    /\ UNCHANGED <<lock, ctx, file, mail, world, now, faults, history>>

\* Any other error of Acquire (directory, open, flock): run without the lock.
AcquireUnavailable(p) ==
    /\ Fault
    /\ Goto(p, "start", "collect")
    /\ degraded' = TRUE
    /\ UNCHANGED <<lock, ctx, file, mail, world, now, trail, forgot>>

\* Collection, checks, notify.Load and Prepare: the run now holds the state it
\* read, the raw warnings and the time.  Nothing else looks at the clock or at
\* the inspected platform, so both move here, by any amount.
Gather(p, prev, cold) ==
    /\ Goto(p, "collect", "write")
    /\ world' \in SUBSET Items
    /\ now' \in now .. MaxTime
    /\ UpdateRecoveryStreak(prev.streak, prev.status, world') <= MaxStreak
    /\ ctx' = [ctx EXCEPT ![p] = [on |-> TRUE, cold |-> cold,
                                  prev |-> prev, raw |-> world', now |-> now']]
    /\ UNCHANGED <<lock, file, mail, history>>

Prepare(p) == Gather(p, file, FALSE) /\ UNCHANGED faults

\* LoadState finds state.json unreadable or damaged and starts cold.
PrepareCold(p) == Gather(p, ColdState, TRUE) /\ Fault

\* notify.json absent, disabled, unreadable or incomplete: no PrepContext.
PrepareSkipped(p) ==
    /\ Fault
    /\ Goto(p, "collect", "write")
    /\ UNCHANGED <<lock, ctx, file, mail, world, now, history>>

WriteReport(p) ==
    /\ Goto(p, "write", "dispatch")
    /\ UNCHANGED <<lock, ctx, file, mail, world, now, faults, history>>

\* output.Write failed: os.Exit(1) skips Dispatch and the deferred release.
WriteFailed(p) ==
    /\ Fault
    /\ Goto(p, "write", "idle")
    /\ Gone(p)
    /\ UNCHANGED <<file, mail, world, now, history>>

\* Dispatch(nil): nothing to do.
DispatchSkipped(p) ==
    /\ ~ctx[p].on
    /\ Goto(p, "dispatch", "exit")
    /\ UNCHANGED <<lock, ctx, file, mail, world, now, faults, history>>

Suppress(p) ==
    /\ ctx[p].on /\ Action(p) = "none"
    /\ Goto(p, "dispatch", "save")
    /\ UNCHANGED <<lock, ctx, file, mail, world, now, faults, history>>

Delivered(p) ==
    /\ mail' = [kind |-> Action(p), items |-> Fires(p), at |-> ctx[p].now]
    /\ forgot' = TRUE

Send(p) ==
    /\ ctx[p].on /\ Action(p) # "none"
    /\ Goto(p, "dispatch", "save")
    /\ Delivered(p)
    /\ UNCHANGED <<lock, ctx, file, world, now, faults, trail, degraded>>

SendFailed_StillSaves(p) ==
    /\ ctx[p].on /\ Action(p) # "none"
    /\ Fault
    /\ Goto(p, "dispatch", "save")
    /\ UNCHANGED <<lock, ctx, file, mail, world, now, history>>

\* Send returned an error: Dispatch returns with the old state kept.
SendFailed(p) ==
    /\ ctx[p].on /\ Action(p) # "none"
    /\ Fault
    /\ Goto(p, "dispatch", "exit")
    /\ UNCHANGED <<lock, ctx, file, mail, world, now, history>>

\* The server took the mail, the 30 s deadline or the closing reply failed:
\* Send returns an error all the same.
SendAmbiguous(p) ==
    /\ ctx[p].on /\ Action(p) # "none"
    /\ Fault
    /\ Goto(p, "dispatch", "exit")
    /\ Delivered(p)
    /\ UNCHANGED <<lock, ctx, file, world, now, trail, degraded>>

Save(p) ==
    /\ Goto(p, "save", "exit")
    /\ file' = Result(p)
    /\ Record(ctx[p].raw)
    /\ forgot' = (Action(p) = "none" /\ (forgot \/ ctx[p].cold))
    /\ UNCHANGED <<lock, ctx, mail, world, now, faults, degraded>>

\* SaveState's error is dropped; temp file and rename leave the old state whole.
SaveFailed(p) ==
    /\ Fault
    /\ Goto(p, "save", "exit")
    /\ UNCHANGED <<lock, ctx, file, mail, world, now, history>>

\* main returns: the deferred release unlocks.
Exit(p) ==
    /\ Goto(p, "exit", "idle")
    /\ Gone(p)
    /\ UNCHANGED <<file, mail, world, now, faults, history>>

\* SIGKILL, a panic, or the os.Exit(1) of a failed SSH client initialisation.
Crash(p) ==
    /\ Fault
    /\ pc[p] # "idle"
    /\ pc' = [pc EXCEPT ![p] = "idle"]
    /\ Gone(p)
    /\ UNCHANGED <<file, mail, world, now, history>>

\* Somebody sets the wall clock back: what is on disk may be of the future.
ClockSetBack ==
    /\ Fault
    /\ now' \in 0 .. now - 1
    /\ UNCHANGED <<pc, lock, ctx, file, mail, world, history>>

-----------------------------------------------------------------------------

Step(p) ==
    \/ Launch(p) \/ Acquire(p) \/ AcquireBusy(p) \/ Prepare(p) \/ WriteReport(p)
    \/ DispatchSkipped(p) \/ Suppress(p) \/ Send(p) \/ Save(p) \/ Exit(p)

Failure(p) ==
    \/ AcquireUnavailable(p) \/ PrepareCold(p) \/ PrepareSkipped(p) \/ WriteFailed(p)
    \/ SendFailed(p) \/ SendAmbiguous(p) \/ SaveFailed(p) \/ Crash(p)

Next == ClockSetBack \/ \E p \in Procs : Step(p) \/ Failure(p)

Spec == Init /\ [][Next]_vars

\* cron keeps starting runs and a live process keeps going (collection ends);
\* faults are bounded, the clock and the platform owe nothing.
Fairness == \A p \in Procs : WF_vars(Step(p))

-----------------------------------------------------------------------------
(* Properties *)

TypeOK ==
    /\ pc \in [Procs -> {"idle", "start", "collect", "write", "dispatch", "save", "exit"}]
    /\ lock \in Procs \cup {NoProc}
    /\ ctx \in [Procs -> Context]
    /\ file \in State
    /\ mail \in Mail
    /\ world \in SUBSET Items
    /\ now \in 0 .. MaxTime
    /\ faults \in 0 .. MaxFaults
    /\ trail \in Trail
    /\ forgot \in BOOLEAN
    /\ degraded \in BOOLEAN

Prepared(p) == ctx[p].on /\ pc[p] \in {"write", "dispatch", "save"}

\* Unless a run went on without the lock, the state a run decides from is
\* still the state on disk when it saves: the read/decide/write window the
\* lock package exists to close (lock/lock.go, main.go).
NoLostUpdate ==
    ~degraded => \A p \in Procs : Prepared(p) => ctx[p].cold \/ ctx[p].prev = file

\* An alert mail names only items that warned in this run and in the N - 1
\* recorded runs before it, whatever crashed or failed meanwhile
\* (ApplyPersistence across runs, state.go, Dispatch).
AlertConfirmed ==
    [][mail' # mail /\ ~degraded =>
         \A i \in mail'.items : trail.seen[i] + 1 >= ConsecutiveRuns]_vars

\* A recovery mail goes out only after N runs in a row without a raw warning,
\* this one and N - 1 recorded ones (UpdateRecoveryStreak and Dispatch).
RecoveryConfirmed ==
    [][mail' # mail /\ mail'.kind = "recovery" /\ ~degraded =>
         trail.quiet + 1 >= ConsecutiveRuns]_vars

\* Whenever the last mail was recorded, state.json describes it: kind, set of
\* keys and time (Dispatch writes last_* only after a successful send).
MailRecorded ==
    ~forgot /\ ~degraded =>
        /\ file.status = CASE mail.kind = "none"     -> ""
                           [] mail.kind = "alert"    -> "alert"
                           [] mail.kind = "recovery" -> "ok"
        /\ file.signature = Signature(mail.items)
        /\ file.sentAt = mail.at

\* Seen from the mailbox, runs under the lock are a Notifier.  A run that read
\* no state, and any run after one without the lock, is not sure of the last mail.
Mailbox == INSTANCE Notifier WITH
    sure <- ~forgot /\ ~degraded /\ \A p \in Procs : ~ctx[p].cold

\* Cooldown and recovery promises, across processes, crashes and failures
\* (Decide and Dispatch under the lock).
MailsAsPromised == Mailbox!Spec

\* The cooldown of a recorded alert holds the item's key back.  The record may
\* be older than the last mail: a recovery whose record was lost.
HeldBack(i) ==
    /\ file.status = "alert" /\ SigKey[i] \in file.signature
    /\ now - file.sentAt < Cooldown

\* The pending entry of the item is so old that a run starts counting afresh.
Expired(i) == file.pending[i].count > 0 /\ now - file.pending[i].firstSeen >= PendingTTL

\* Once faults stop, an item that keeps warning gets its key into the current
\* alert mail, at the latest when the cooldown of the recorded alert ends: on the
\* hypothesis that runs come often enough to reach N before the pending TTL.  Where
\* the entry expires, time and again perhaps, nothing is promised (persistence,
\* decision, lock release; the clock may stand still).
AlertsTold ==
    \A i \in Items :
        i \in world ~> \/ i \notin world
                       \/ mail.kind = "alert" /\ SigKey[i] \in Signature(mail.items)
                       \/ HeldBack(i)
                       \/ Expired(i)

\* Where recoveries are mailed (send_recovery), once faults stop: a platform that stays
\* clean is reported recovered (or was never reported broken), whatever the clock does.
RecoveryTold ==
    SendRecovery => (world = {} ~> world # {} \/ file.status # "alert")

\* A warning that is still pending and shows up again moves on towards firing:
\* the TTL "only matters if a coding bug ever leaves orphans behind"
\* (pendingTTL in notify/persistence.go).
PendingAdvances ==
    [][\A i \in Items :
         /\ file' # file /\ faults = 0
         /\ trail'.seen[i] > 0 /\ file.pending[i].count > 0
         => file'.pending[i].count # 1]_vars
=============================================================================
