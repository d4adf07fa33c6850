---------------------------- MODULE InspectProofs ----------------------------
(***************************************************************************)
(* Proofs about Inspect for every number of processes, every set of alert   *)
(* items, every N, TTL and cooldown, and every bound on clock and faults.   *)
(***************************************************************************)
EXTENDS Inspect, TLAPS

-----------------------------------------------------------------------------
(* One decision: for every state it may have read, every set of raw warnings and every time *)

\* The rules return values of their types.
LEMMA AccruedType ==
    ASSUME NEW pending \in [Items -> PendingItem], NEW i \in Items, NEW time \in Nat
    PROVE  /\ Accrued(i, pending, time) \in PendingItem
           /\ Accrued(i, pending, time).count > 0
  BY DEF Accrued, PendingItem

LEMMA NextPendingType ==
    ASSUME NEW pending \in [Items -> PendingItem], NEW raw \in SUBSET Items, NEW time \in Nat
    PROVE  NextPending(raw, pending, time) \in [Items -> PendingItem]
  <1>1. NotPending \in PendingItem
    BY DEF NotPending, PendingItem
  <1>2. QED
    BY <1>1, AccruedType DEF NextPending

LEMMA StreakType ==
    ASSUME NEW streak \in Nat, NEW status, NEW raw
    PROVE  UpdateRecoveryStreak(streak, status, raw) \in Nat
  BY DEF UpdateRecoveryStreak

LEMMA SignatureType ==
    ASSUME NEW items \in SUBSET Items
    PROVE  Signature(items) \in SUBSET SigKeys
  BY RulesAssumption DEF Signature

LEMMA ColdStateType == ColdState \in State
  BY DEF ColdState, State, NotPending, PendingItem

\* The only three outcomes of Dispatch.
LEMMA ActionRange ==
    ASSUME NEW prev, NEW raw, NEW time
    PROVE  DispatchAction(prev, raw, time) \in {"none", "alert", "recovery"}
  BY DEF DispatchAction, Decide

LEMMA StateIntro ==
    ASSUME NEW at \in Nat, NEW sig \in SUBSET SigKeys, NEW st \in {"", "alert", "ok"},
           NEW pend \in [Items -> PendingItem], NEW k \in Nat
    PROVE  [sentAt |-> at, signature |-> sig, status |-> st,
            pending |-> pend, streak |-> k] \in State
  BY DEF State

LEMMA NextStateType ==
    ASSUME NEW prev \in State, NEW raw \in SUBSET Items, NEW time \in Nat,
           NEW act \in {"none", "alert", "recovery"}
    PROVE  NextState(prev, raw, time, act) \in State
  <1> DEFINE pending == NextPending(raw, prev.pending, time)
             streak == UpdateRecoveryStreak(prev.streak, prev.status, raw)
             fired == Filtered(raw, prev.pending, time)
  <1>1. pending \in [Items -> PendingItem]
    BY NextPendingType DEF State
  <1>2. streak \in Nat
    BY StreakType DEF State
  <1>3. Signature(fired) \in SUBSET SigKeys
    BY SignatureType DEF Filtered
  <1> HIDE DEF pending, streak, fired
  <1>4. CASE act = "none"
    <2>1. NextState(prev, raw, time, act)
            = [prev EXCEPT !.pending = pending, !.streak = streak]
      BY <1>4 DEF NextState, pending, streak
    <2>2. QED
      BY <2>1, <1>1, <1>2 DEF State
  <1>5. CASE act = "alert"
    <2>1. NextState(prev, raw, time, act)
            = [sentAt |-> time, signature |-> Signature(fired), status |-> "alert",
               pending |-> pending, streak |-> 0]
      BY <1>5 DEF NextState, pending, fired
    <2>2. QED
      BY <2>1, <1>1, <1>3, StateIntro
  <1>6. CASE act = "recovery"
    <2>1. NextState(prev, raw, time, act)
            = [sentAt |-> time, signature |-> {}, status |-> "ok",
               pending |-> pending, streak |-> 0]
      BY <1>6 DEF NextState, pending
    <2>2. QED
      BY <2>1, <1>1, StateIntro
  <1>7. QED
    BY <1>4, <1>5, <1>6

-----------------------------------------------------------------------------

\* An item fires only if this run makes its N-th sighting in the pending map.
THEOREM FiringNeedsSightings ==
    ASSUME NEW pending \in [Items -> PendingItem], NEW raw \in SUBSET Items, NEW time \in Nat,
           NEW i \in Filtered(raw, pending, time)
    PROVE  i \in raw /\ pending[i].count + 1 >= ConsecutiveRuns
  BY RulesAssumption DEF Filtered, Accrued, PendingItem

\* What stays pending has advanced by one at most, and is still below N; what
\* did not warn is forgotten (natural reset).
THEOREM PendingBelowN ==
    ASSUME NEW pending \in [Items -> PendingItem], NEW raw \in SUBSET Items, NEW time \in Nat,
           NEW i \in Items
    PROVE  LET next == NextPending(raw, pending, time)[i].count
           IN  /\ next < ConsecutiveRuns
               /\ next <= pending[i].count + 1
               /\ i \notin raw => next = 0
  <1>1. CASE i \in raw \ Filtered(raw, pending, time)
    <2>1. NextPending(raw, pending, time)[i] = Accrued(i, pending, time)
      BY <1>1 DEF NextPending
    <2>2. ~(Accrued(i, pending, time).count >= ConsecutiveRuns)
      BY <1>1 DEF Filtered
    <2>3. Accrued(i, pending, time).count \in Nat
      BY AccruedType DEF PendingItem
    <2>4. Accrued(i, pending, time).count <= pending[i].count + 1
      BY DEF Accrued, PendingItem
    <2>5. QED
      BY <1>1, <2>1, <2>2, <2>3, <2>4, RulesAssumption
  <1>2. CASE i \notin raw \ Filtered(raw, pending, time)
    <2>1. NextPending(raw, pending, time)[i] = NotPending
      BY <1>2 DEF NextPending
    <2>2. pending[i].count \in Nat
      BY DEF PendingItem
    <2>3. QED
      BY <2>1, <2>2, RulesAssumption DEF NotPending
  <1>3. QED
    BY <1>1, <1>2

\* Recovery is decided only on an alert state, without raw warnings, at the
\* N-th quiet run of the streak.
THEOREM RecoveryNeedsStreak ==
    ASSUME NEW prev \in State, NEW raw \in SUBSET Items, NEW time \in Nat,
           DispatchAction(prev, raw, time) = "recovery"
    PROVE  /\ prev.status = "alert"
           /\ raw = {}
           /\ Filtered(raw, prev.pending, time) = {}
           /\ prev.streak + 1 >= ConsecutiveRuns
  BY DEF DispatchAction, Decide, UpdateRecoveryStreak

\* An alert is decided only with something firing, and repeats the recorded
\* signature only after the cooldown.
THEOREM AlertNeedsNews ==
    ASSUME NEW prev \in State, NEW raw \in SUBSET Items, NEW time \in Nat,
           DispatchAction(prev, raw, time) = "alert"
    PROVE  LET fired == Filtered(raw, prev.pending, time)
           IN  /\ fired # {}
               /\ \/ prev.status # "alert"
                  \/ Signature(fired) # prev.signature
                  \/ time - prev.sentAt >= Cooldown
  BY DEF DispatchAction, Decide

-----------------------------------------------------------------------------
(* The runs *)

LEMMA DecisionType ==
    ASSUME TypeOK, NEW p \in Procs
    PROVE  /\ ctx[p] \in Context
           /\ Fires(p) \in SUBSET Items
           /\ Action(p) \in {"none", "alert", "recovery"}
           /\ Result(p) \in State
  <1>1. ctx[p] \in Context
    BY DEF TypeOK
  <1>2. ctx[p].prev \in State /\ ctx[p].raw \in SUBSET Items /\ ctx[p].now \in Nat
    BY <1>1 DEF Context
  <1>3. Action(p) \in {"none", "alert", "recovery"}
    BY ActionRange DEF Action
  <1>4. Fires(p) \in SUBSET Items
    BY <1>2 DEF Fires, Filtered
  <1>5. Result(p) \in State
    BY <1>2, <1>3, NextStateType DEF Result
  <1>6. QED
    BY <1>1, <1>3, <1>4, <1>5

LEMMA BlankType == Blank \in Context
  BY ColdStateType DEF Blank, Context

LEMMA RecordType ==
    ASSUME TypeOK, NEW raw, Record(raw)
    PROVE  trail' \in Trail
  <1>1. trail.seen \in [Items -> Nat] /\ trail.quiet \in Nat
    BY DEF TypeOK, Trail
  <1>2. ASSUME NEW n \in Nat PROVE Upto(n) \in Nat
    BY RulesAssumption DEF Upto
  <1>3. [i \in Items |-> IF i \in raw THEN Upto(trail.seen[i]) ELSE 0] \in [Items -> Nat]
    BY <1>1, <1>2
  <1>4. (IF raw = {} THEN Upto(trail.quiet) ELSE 0) \in Nat
    BY <1>1, <1>2
  <1>5. QED
    BY <1>3, <1>4 DEF Record, Trail

LEMMA DeliveredType ==
    ASSUME TypeOK, NEW p \in Procs, Action(p) # "none", Delivered(p)
    PROVE  mail' \in Mail /\ forgot' \in BOOLEAN
  <1>1. Action(p) \in {"alert", "recovery"} /\ Fires(p) \in SUBSET Items /\ ctx[p].now \in Nat
    BY DecisionType DEF Context
  <1>2. QED
    BY <1>1 DEF Delivered, Mail

LEMMA GoneType ==
    ASSUME TypeOK, NEW p \in Procs, Gone(p)
    PROVE  ctx' \in [Procs -> Context] /\ lock' \in Procs \cup {NoProc}
  BY BlankType DEF TypeOK, Gone

LEMMA GatherType ==
    ASSUME TypeOK, NEW p \in Procs, NEW prev \in State, NEW cold \in BOOLEAN,
           Gather(p, prev, cold)
    PROVE  /\ ctx' \in [Procs -> Context]
           /\ world' \in SUBSET Items
           /\ now' \in 0 .. MaxTime
  <1>1. world' \in SUBSET Items /\ now' \in 0 .. MaxTime
    BY InspectAssumption DEF TypeOK, Gather
  <1>2. [on |-> TRUE, cold |-> cold, prev |-> prev, raw |-> world', now |-> now'] \in Context
    BY <1>1 DEF Context
  <1>3. QED
    BY <1>1, <1>2 DEF TypeOK, Gather

LEMMA TypeInit == Init => TypeOK
  <1> SUFFICES ASSUME Init PROVE TypeOK
    OBVIOUS
  <1>1. ctx \in [Procs -> Context] /\ file \in State
    BY BlankType, ColdStateType DEF Init
  <1>2. mail \in Mail
    BY DEF Init, Mail
  <1>3. trail \in Trail
    BY DEF Init, Trail
  <1>4. now \in 0 .. MaxTime /\ faults \in 0 .. MaxFaults
    BY InspectAssumption DEF Init
  <1>5. pc \in [Procs -> {"idle", "start", "collect", "write", "dispatch", "save", "exit"}]
    BY DEF Init
  <1>6. QED
    BY <1>1, <1>2, <1>3, <1>4, <1>5 DEF Init, TypeOK

LEMMA TypeStep == TypeOK /\ [Next]_vars => TypeOK'
  <1> SUFFICES ASSUME TypeOK, [Next]_vars PROVE TypeOK'
    OBVIOUS
  <1> USE InspectAssumption
  <1>1. ASSUME NEW p \in Procs, Step(p) PROVE TypeOK'
    <2>1. CASE Launch(p)
      BY <2>1 DEF TypeOK, Launch, Goto, history
    <2>2. CASE Acquire(p)
      BY <2>2 DEF TypeOK, Acquire, Goto, history
    <2>3. CASE AcquireBusy(p)
      BY <2>3 DEF TypeOK, AcquireBusy, Goto, history
    <2>4. CASE Prepare(p)
      <3>1. Gather(p, file, FALSE) /\ file \in State
        BY <2>4 DEF Prepare, TypeOK
      <3>2. QED
        BY <2>4, <3>1, GatherType DEF TypeOK, Prepare, Gather, Goto, history
    <2>5. CASE WriteReport(p)
      BY <2>5 DEF TypeOK, WriteReport, Goto, history
    <2>6. CASE DispatchSkipped(p)
      BY <2>6 DEF TypeOK, DispatchSkipped, Goto, history
    <2>7. CASE Suppress(p)
      BY <2>7 DEF TypeOK, Suppress, Goto, history
    <2>8. CASE Send(p)
      BY <2>8, DeliveredType DEF TypeOK, Send, Goto
    <2>9. CASE Save(p)
      <3>1. trail' \in Trail
        BY <2>9, RecordType DEF Save
      <3>2. file' \in State
        BY <2>9, DecisionType DEF Save
      <3>3. forgot' \in BOOLEAN
        BY <2>9 DEF Save
      <3>4. pc' \in [Procs -> {"idle", "start", "collect", "write", "dispatch", "save", "exit"}]
        BY <2>9 DEF TypeOK, Save, Goto
      <3>5. UNCHANGED <<lock, ctx, mail, world, now, faults, degraded>>
        BY <2>9 DEF Save
      <3>6. QED
        BY <3>1, <3>2, <3>3, <3>4, <3>5 DEF TypeOK
    <2>10. CASE Exit(p)
      BY <2>10, GoneType DEF TypeOK, Exit, Goto, history
    <2>11. QED
      BY <1>1, <2>1, <2>2, <2>3, <2>4, <2>5, <2>6, <2>7, <2>8, <2>9, <2>10 DEF Step
  <1>2. ASSUME NEW p \in Procs, Failure(p) PROVE TypeOK'
    <2>1. CASE AcquireUnavailable(p)
      BY <2>1 DEF TypeOK, AcquireUnavailable, Goto, Fault
    <2>2. CASE PrepareCold(p)
      <3>1. Gather(p, ColdState, TRUE)
        BY <2>2 DEF PrepareCold
      <3>2. /\ ctx' \in [Procs -> Context]
            /\ world' \in SUBSET Items
            /\ now' \in 0 .. MaxTime
        BY <3>1, GatherType, ColdStateType
      <3>3. faults' \in 0 .. MaxFaults
        BY <2>2 DEF PrepareCold, Fault, TypeOK
      <3>4. pc' \in [Procs -> {"idle", "start", "collect", "write", "dispatch", "save", "exit"}]
        BY <3>1 DEF Gather, Goto, TypeOK
      <3>5. UNCHANGED <<lock, file, mail, trail, forgot, degraded>>
        BY <3>1 DEF Gather, history
      <3>6. QED
        BY <3>2, <3>3, <3>4, <3>5 DEF TypeOK
    <2>3. CASE PrepareSkipped(p)
      BY <2>3 DEF TypeOK, PrepareSkipped, Goto, Fault, history
    <2>4. CASE WriteFailed(p)
      BY <2>4, GoneType DEF TypeOK, WriteFailed, Goto, Fault, history
    <2>5. CASE SendFailed(p)
      BY <2>5 DEF TypeOK, SendFailed, Goto, Fault, history
    <2>6. CASE SendAmbiguous(p)
      BY <2>6, DeliveredType DEF TypeOK, SendAmbiguous, Goto, Fault
    <2>7. CASE SaveFailed(p)
      BY <2>7 DEF TypeOK, SaveFailed, Goto, Fault, history
    <2>8. CASE Crash(p)
      BY <2>8, GoneType DEF TypeOK, Crash, Fault, history
    <2>9. QED
      BY <1>2, <2>1, <2>2, <2>3, <2>4, <2>5, <2>6, <2>7, <2>8 DEF Failure
  <1>3. CASE ClockSetBack
    <2>1. now' \in 0 .. MaxTime /\ faults' \in 0 .. MaxFaults
      BY <1>3 DEF TypeOK, ClockSetBack, Fault
    <2>2. QED
      BY <1>3, <2>1 DEF TypeOK, ClockSetBack, history
  <1>4. CASE UNCHANGED vars
    BY <1>4 DEF TypeOK, vars
  <1>5. QED
    BY <1>1, <1>2, <1>3, <1>4 DEF Next

\* Every variable keeps its type, whatever the processes do and whatever fails
\* (main.go, lock.go, Prepare and Dispatch).
THEOREM TypeCorrect == Spec => []TypeOK
  BY TypeInit, TypeStep, PTL DEF Spec

-----------------------------------------------------------------------------
(* The lock and what it protects *)

Inside == {"collect", "write", "dispatch", "save", "exit"}

\* What the control state says about a process's PrepContext.
ContextInv ==
    \A p \in Procs :
        /\ ctx[p].on => pc[p] \in {"write", "dispatch", "save", "exit"}
        /\ pc[p] = "save" => ctx[p].on
        /\ ctx[p].cold => ctx[p].on /\ ctx[p].prev = ColdState

\* Without unlocked runs, whoever is past Acquire holds the flock.
LockInv ==
    ~degraded => \A p \in Procs : pc[p] \in Inside => lock = p

LEMMA ContextStep == TypeOK /\ ContextInv /\ [Next]_vars => ContextInv'
  <1> SUFFICES ASSUME TypeOK, ContextInv, [Next]_vars PROVE ContextInv'
    OBVIOUS
  <1>1. ASSUME NEW p \in Procs, Step(p) PROVE ContextInv'
    <2>1. CASE Launch(p) \/ Acquire(p) \/ AcquireBusy(p) \/ WriteReport(p) \/ DispatchSkipped(p)
      BY <2>1 DEF TypeOK, ContextInv, Context, Goto, Launch, Acquire, AcquireBusy, WriteReport,
                  DispatchSkipped
    <2>2. CASE Suppress(p) \/ Send(p) \/ Save(p)
      BY <2>2 DEF TypeOK, ContextInv, Context, Goto, Suppress, Send, Save
    <2>3. CASE Prepare(p)
      BY <2>3 DEF TypeOK, ContextInv, Context, Goto, Prepare, Gather
    <2>4. CASE Exit(p)
      BY <2>4 DEF TypeOK, ContextInv, Context, Goto, Exit, Gone, Blank
    <2>5. QED
      BY <1>1, <2>1, <2>2, <2>3, <2>4 DEF Step
  <1>2. ASSUME NEW p \in Procs, Failure(p) PROVE ContextInv'
    <2>1. CASE AcquireUnavailable(p) \/ PrepareSkipped(p) \/ SaveFailed(p)
      BY <2>1 DEF TypeOK, ContextInv, Context, Goto, AcquireUnavailable, PrepareSkipped,
                  SaveFailed
    <2>2. CASE SendFailed(p) \/ SendAmbiguous(p)
      BY <2>2 DEF TypeOK, ContextInv, Context, Goto, SendFailed, SendAmbiguous
    <2>3. CASE PrepareCold(p)
      BY <2>3 DEF TypeOK, ContextInv, Context, Goto, PrepareCold, Gather
    <2>4. CASE WriteFailed(p) \/ Crash(p)
      BY <2>4 DEF TypeOK, ContextInv, Context, Goto, WriteFailed, Crash, Gone, Blank
    <2>5. QED
      BY <1>2, <2>1, <2>2, <2>3, <2>4 DEF Failure
  <1>3. CASE ClockSetBack \/ UNCHANGED vars
    BY <1>3 DEF ContextInv, ClockSetBack, history, vars
  <1>4. QED
    BY <1>1, <1>2, <1>3 DEF Next

LEMMA LockStep == TypeOK /\ LockInv /\ [Next]_vars => LockInv'
  <1> SUFFICES ASSUME TypeOK, LockInv, [Next]_vars PROVE LockInv'
    OBVIOUS
  <1> USE InspectAssumption DEF LockInv, Inside
  <1>1. ASSUME NEW p \in Procs, Step(p) PROVE LockInv'
    <2>1. CASE Launch(p) \/ AcquireBusy(p) \/ WriteReport(p) \/ DispatchSkipped(p)
      BY <2>1 DEF TypeOK, Goto, Launch, AcquireBusy, WriteReport, DispatchSkipped, history
    <2>2. CASE Acquire(p)
      BY <2>2 DEF TypeOK, Goto, Acquire, history
    <2>3. CASE Suppress(p) \/ Send(p) \/ Save(p)
      BY <2>3 DEF TypeOK, Goto, Suppress, Send, Save, history
    <2>4. CASE Prepare(p)
      BY <2>4 DEF TypeOK, Goto, Prepare, Gather, history
    <2>5. CASE Exit(p)
      BY <2>5 DEF TypeOK, Goto, Exit, Gone, history
    <2>6. QED
      BY <1>1, <2>1, <2>2, <2>3, <2>4, <2>5 DEF Step
  <1>2. ASSUME NEW p \in Procs, Failure(p) PROVE LockInv'
    <2>1. CASE AcquireUnavailable(p)
      BY <2>1 DEF AcquireUnavailable
    <2>2. CASE PrepareSkipped(p) \/ SaveFailed(p) \/ SendFailed(p) \/ SendAmbiguous(p)
      BY <2>2 DEF TypeOK, Goto, PrepareSkipped, SaveFailed, SendFailed, SendAmbiguous, history
    <2>3. CASE PrepareCold(p)
      BY <2>3 DEF TypeOK, Goto, PrepareCold, Gather, history
    <2>4. CASE WriteFailed(p) \/ Crash(p)
      BY <2>4 DEF TypeOK, Goto, WriteFailed, Crash, Gone, history
    <2>5. QED
      BY <1>2, <2>1, <2>2, <2>3, <2>4 DEF Failure
  <1>3. CASE ClockSetBack \/ UNCHANGED vars
    BY <1>3 DEF ClockSetBack, history, vars
  <1>4. QED
    BY <1>1, <1>2, <1>3 DEF Next

LEMMA FreshStep ==
    TypeOK /\ ContextInv /\ LockInv /\ NoLostUpdate /\ [Next]_vars => NoLostUpdate'
  <1> SUFFICES ASSUME TypeOK, ContextInv, LockInv, NoLostUpdate, [Next]_vars
               PROVE NoLostUpdate'
    OBVIOUS
  <1> USE DEF NoLostUpdate, Prepared
  <1>1. ASSUME NEW p \in Procs, Step(p) PROVE NoLostUpdate'
    <2>1. CASE Launch(p) \/ Acquire(p) \/ AcquireBusy(p) \/ WriteReport(p) \/ DispatchSkipped(p)
      BY <2>1 DEF TypeOK, ContextInv, Goto, Launch, Acquire, AcquireBusy, WriteReport,
                  DispatchSkipped, history
    <2>2. CASE Suppress(p) \/ Send(p)
      BY <2>2 DEF TypeOK, Goto, Suppress, Send, history
    <2>3. CASE Prepare(p)
      BY <2>3 DEF TypeOK, Context, Goto, Prepare, Gather, history
    <2>4. CASE Save(p)
      BY <2>4 DEF TypeOK, LockInv, Inside, Goto, Save
    <2>5. CASE Exit(p)
      BY <2>5 DEF TypeOK, Goto, Exit, Gone, history
    <2>6. QED
      BY <1>1, <2>1, <2>2, <2>3, <2>4, <2>5 DEF Step
  <1>2. ASSUME NEW p \in Procs, Failure(p) PROVE NoLostUpdate'
    <2>1. CASE AcquireUnavailable(p)
      BY <2>1 DEF AcquireUnavailable
    <2>2. CASE PrepareSkipped(p)
      BY <2>2 DEF TypeOK, ContextInv, Goto, PrepareSkipped, history
    <2>3. CASE SaveFailed(p) \/ SendFailed(p) \/ SendAmbiguous(p)
      BY <2>3 DEF TypeOK, Goto, SaveFailed, SendFailed, SendAmbiguous, history
    <2>4. CASE PrepareCold(p)
      BY <2>4 DEF TypeOK, Context, Goto, PrepareCold, Gather, history
    <2>5. CASE WriteFailed(p) \/ Crash(p)
      BY <2>5 DEF TypeOK, Goto, WriteFailed, Crash, Gone, history
    <2>6. QED
      BY <1>2, <2>1, <2>2, <2>3, <2>4, <2>5 DEF Failure
  <1>3. CASE ClockSetBack \/ UNCHANGED vars
    BY <1>3 DEF ClockSetBack, history, vars
  <1>4. QED
    BY <1>1, <1>2, <1>3 DEF Next

LEMMA LockInit == Init => ContextInv /\ LockInv /\ NoLostUpdate
  BY DEF Init, Blank, ContextInv, LockInv, Inside, NoLostUpdate, Prepared

\* The inductive invariant of the lock: types, contexts, holder, freshness.
LockedInv == TypeOK /\ ContextInv /\ LockInv /\ NoLostUpdate

THEOREM LockedCorrect == Spec => []LockedInv
  <1>1. Init => LockedInv
    BY TypeInit, LockInit DEF LockedInv
  <1>2. LockedInv /\ [Next]_vars => LockedInv'
    BY TypeStep, ContextStep, LockStep, FreshStep DEF LockedInv
  <1>3. QED
    BY <1>1, <1>2, PTL DEF Spec

\* As long as every run had the lock, no run saves a state derived from one
\* that is no longer on disk: lock/lock.go closes the window of Prepare..Dispatch.
THEOREM NoUpdateIsLost == Spec => []NoLostUpdate
  <1>1. LockedInv => NoLostUpdate
    BY DEF LockedInv
  <1>2. QED
    BY <1>1, LockedCorrect, PTL

-----------------------------------------------------------------------------
(* The persistence gate *)

\* A state claims no more than what recorded runs saw.
Honest(s) ==
    /\ \A i \in Items : s.pending[i].count <= trail.seen[i]
    /\ s.streak <= trail.quiet \/ trail.quiet = ConsecutiveRuns

TrailInv ==
    /\ \A i \in Items : trail.seen[i] <= ConsecutiveRuns
    /\ trail.quiet <= ConsecutiveRuns

GateInv == TrailInv /\ (~degraded => Honest(file))

LEMMA ColdIsHonest == TypeOK => Honest(ColdState)
  BY DEF Honest, ColdState, NotPending, TypeOK, Trail

LEMMA UptoBounds ==
    ASSUME NEW n \in Nat, n <= ConsecutiveRuns
    PROVE  /\ Upto(n) \in Nat
           /\ Upto(n) <= ConsecutiveRuns
           /\ \A m \in Nat : m <= n + 1 /\ m < ConsecutiveRuns => m <= Upto(n)
           /\ \A m \in Nat : m <= n => m + 1 <= Upto(n) \/ Upto(n) = ConsecutiveRuns
           /\ n = ConsecutiveRuns => Upto(n) = ConsecutiveRuns
  BY RulesAssumption DEF Upto

LEMMA RecordBounds ==
    ASSUME TypeOK, TrailInv, NEW raw, Record(raw)
    PROVE  TrailInv'
  <1>1. trail.seen \in [Items -> Nat] /\ trail.quiet \in Nat
    BY DEF TypeOK, Trail
  <1>2. ASSUME NEW i \in Items PROVE trail'.seen[i] <= ConsecutiveRuns
    <2>1. Upto(trail.seen[i]) <= ConsecutiveRuns
      BY <1>1, UptoBounds DEF TrailInv
    <2>2. trail'.seen[i] = IF i \in raw THEN Upto(trail.seen[i]) ELSE 0
      BY DEF Record
    <2>3. QED
      BY <2>1, <2>2, RulesAssumption
  <1>3. trail'.quiet <= ConsecutiveRuns
    <2>1. Upto(trail.quiet) <= ConsecutiveRuns
      BY <1>1, UptoBounds DEF TrailInv
    <2>2. QED
      BY <2>1, RulesAssumption DEF Record
  <1>4. QED
    BY <1>2, <1>3 DEF TrailInv

\* The state a run holds is as honest as the one on disk.
LEMMA HeldIsHonest ==
    ASSUME LockedInv, GateInv, ~degraded, NEW p \in Procs, Prepared(p)
    PROVE  Honest(ctx[p].prev)
  BY ColdIsHonest DEF LockedInv, GateInv, NoLostUpdate, ContextInv

LEMMA SaveIsHonest ==
    ASSUME LockedInv, GateInv, ~degraded, NEW p \in Procs, Save(p)
    PROVE  TrailInv' /\ Honest(file)'
  <1> DEFINE raw == ctx[p].raw
             prev == ctx[p].prev
             t == ctx[p].now
  <1>1. TypeOK /\ Prepared(p) /\ Record(raw) /\ file' = Result(p)
    BY DEF LockedInv, ContextInv, Save, Goto, Prepared
  <1>2. prev \in State /\ raw \in SUBSET Items /\ t \in Nat
    BY <1>1 DEF TypeOK, Context
  <1>3. trail.seen \in [Items -> Nat] /\ trail.quiet \in Nat
    BY <1>1 DEF TypeOK, Trail
  <1>4. Honest(prev)
    BY <1>1, HeldIsHonest
  <1>5. Action(p) \in {"none", "alert", "recovery"}
    BY <1>1, DecisionType
  <1>6. /\ file'.pending = NextPending(raw, prev.pending, t)
        /\ file'.streak \in {0, UpdateRecoveryStreak(prev.streak, prev.status, raw)}
    BY <1>1, <1>2, <1>5 DEF Result, NextState, State
  <1>7. /\ trail'.seen = [i \in Items |-> IF i \in raw THEN Upto(trail.seen[i]) ELSE 0]
        /\ trail'.quiet = IF raw = {} THEN Upto(trail.quiet) ELSE 0
    BY <1>1 DEF Record
  <1>8. ASSUME NEW i \in Items
        PROVE  /\ trail'.seen[i] <= ConsecutiveRuns
               /\ file'.pending[i].count <= trail'.seen[i]
    <2> DEFINE next == NextPending(raw, prev.pending, t)[i].count
    <2>1. /\ next < ConsecutiveRuns
          /\ next <= prev.pending[i].count + 1
          /\ i \notin raw => next = 0
      BY <1>2, PendingBelowN DEF State
    <2>2. next \in Nat /\ prev.pending[i].count \in Nat
      <3>1. prev.pending \in [Items -> PendingItem]
        BY <1>2 DEF State
      <3>2. NextPending(raw, prev.pending, t) \in [Items -> PendingItem]
        BY <3>1, <1>2, NextPendingType
      <3>3. QED
        BY <3>1, <3>2 DEF PendingItem
    <2>3. prev.pending[i].count <= trail.seen[i] /\ trail.seen[i] <= ConsecutiveRuns
      BY <1>4 DEF Honest, GateInv, TrailInv
    <2> HIDE DEF next, prev, raw, t
    <2>4. CASE i \in raw
      <3>1. trail'.seen[i] = Upto(trail.seen[i])
        BY <1>7, <2>4
      <3>2. next <= trail.seen[i] + 1
        BY <2>1, <2>2, <2>3, <1>3
      <3>3. next <= Upto(trail.seen[i]) /\ Upto(trail.seen[i]) <= ConsecutiveRuns
        BY <3>2, <2>1, <2>2, <2>3, <1>3, UptoBounds
      <3>4. QED
        BY <3>1, <3>3, <1>6 DEF next
    <2>5. CASE i \notin raw
      <3>1. trail'.seen[i] = 0
        BY <1>7, <2>5
      <3>2. QED
        BY <3>1, <2>1, <2>5, <1>6, RulesAssumption DEF next
    <2>6. QED
      BY <2>4, <2>5
  <1>9. /\ trail'.quiet <= ConsecutiveRuns
        /\ file'.streak <= trail'.quiet \/ trail'.quiet = ConsecutiveRuns
    <2>1. prev.streak \in Nat
      BY <1>2 DEF State
    <2>2. /\ trail.quiet <= ConsecutiveRuns
          /\ prev.streak <= trail.quiet \/ trail.quiet = ConsecutiveRuns
      BY <1>4 DEF Honest, GateInv, TrailInv
    <2> HIDE DEF prev, raw, t
    <2>3. CASE raw = {}
      <3>1. trail'.quiet = Upto(trail.quiet)
        BY <1>7, <2>3
      <3>2. file'.streak \in {0, prev.streak + 1}
        BY <1>6 DEF UpdateRecoveryStreak
      <3>3. QED
        BY <3>1, <3>2, <2>1, <2>2, <1>3, UptoBounds
    <2>4. CASE raw # {}
      <3>1. trail'.quiet = 0 /\ file'.streak = 0
        BY <1>6, <1>7, <2>4 DEF UpdateRecoveryStreak
      <3>2. QED
        BY <3>1, RulesAssumption
    <2>5. QED
      BY <2>3, <2>4
  <1>10. QED
    BY <1>8, <1>9 DEF TrailInv, Honest

LEMMA GateInit == Init => GateInv
  <1> SUFFICES ASSUME Init PROVE GateInv
    OBVIOUS
  <1>1. TrailInv
    BY RulesAssumption DEF Init, TrailInv
  <1>2. Honest(file)
    BY TypeInit, ColdIsHonest DEF Init
  <1>3. QED
    BY <1>1, <1>2 DEF GateInv

LEMMA GateStep == LockedInv /\ GateInv /\ [Next]_vars => GateInv'
  <1> SUFFICES ASSUME LockedInv, GateInv, [Next]_vars PROVE GateInv'
    OBVIOUS
  <1>1. CASE UNCHANGED <<file, trail>> /\ (degraded' = degraded \/ degraded' = TRUE)
    BY <1>1 DEF GateInv, TrailInv, Honest
  <1>2. ASSUME NEW p \in Procs, Save(p) PROVE GateInv'
    <2>1. CASE ~degraded
      BY <1>2, <2>1, SaveIsHonest DEF GateInv
    <2>2. CASE degraded
      <3>1. degraded' /\ Record(ctx[p].raw)
        BY <1>2, <2>2 DEF Save
      <3>2. TrailInv'
        BY <3>1, RecordBounds DEF LockedInv, GateInv
      <3>3. QED
        BY <3>1, <3>2 DEF GateInv
    <2>3. QED
      BY <2>1, <2>2
  <1>3. ASSUME NEW p \in Procs, Step(p), ~Save(p)
        PROVE  UNCHANGED <<file, trail>> /\ degraded' = degraded
    BY <1>3 DEF Step, Launch, Acquire, AcquireBusy, Prepare, Gather, WriteReport,
                DispatchSkipped, Suppress, Send, Exit, history
  <1>4. ASSUME NEW p \in Procs, Failure(p)
        PROVE  UNCHANGED <<file, trail>> /\ (degraded' = degraded \/ degraded' = TRUE)
    BY <1>4 DEF Failure, AcquireUnavailable, PrepareCold, Gather, PrepareSkipped, WriteFailed,
                SendFailed, SendAmbiguous, SaveFailed, Crash, history
  <1>5. CASE ClockSetBack \/ UNCHANGED vars
    BY <1>5, <1>1 DEF ClockSetBack, history, vars
  <1>6. QED
    BY <1>1, <1>2, <1>3, <1>4, <1>5 DEF Next

\* The counters of state.json never run ahead of the recorded runs.
THEOREM GateHolds == Spec => [](LockedInv /\ GateInv)
  <1>1. Init => LockedInv /\ GateInv
    BY TypeInit, LockInit, GateInit DEF LockedInv
  <1>2. LockedInv /\ GateInv /\ [Next]_vars => LockedInv' /\ GateInv'
    BY TypeStep, ContextStep, LockStep, FreshStep, GateStep DEF LockedInv
  <1>3. QED
    BY <1>1, <1>2, PTL DEF Spec

\* A step that changes the mail is the delivery of the mail a run decided on.
LEMMA OnlyDelivery ==
    ASSUME LockedInv, [Next]_vars, mail' # mail
    PROVE  \E p \in Procs :
             /\ Prepared(p) /\ Action(p) # "none" /\ Delivered(p)
             /\ UNCHANGED <<ctx, file, trail, degraded>>
  <1>1. ASSUME NEW p \in Procs, Step(p), ~Send(p) PROVE mail' = mail
    BY <1>1 DEF Step, Launch, Acquire, AcquireBusy, Prepare, Gather, WriteReport,
                DispatchSkipped, Suppress, Save, Exit
  <1>2. ASSUME NEW p \in Procs, Failure(p), ~SendAmbiguous(p) PROVE mail' = mail
    BY <1>2 DEF Failure, AcquireUnavailable, PrepareCold, Gather, PrepareSkipped, WriteFailed,
                SendFailed, SaveFailed, Crash
  <1>3. \E p \in Procs : Send(p) \/ SendAmbiguous(p)
    BY <1>1, <1>2 DEF Next, ClockSetBack, vars
  <1>4. PICK p \in Procs : Send(p) \/ SendAmbiguous(p)
    BY <1>3
  <1>5. QED
    BY <1>4 DEF Send, SendAmbiguous, Prepared, Goto

LEMMA AlertStep ==
    LockedInv /\ GateInv /\ [Next]_vars =>
      (mail' # mail /\ ~degraded =>
         \A i \in mail'.items : trail.seen[i] + 1 >= ConsecutiveRuns)
  <1> SUFFICES ASSUME LockedInv, GateInv, [Next]_vars, mail' # mail, ~degraded,
                      NEW i \in mail'.items
               PROVE  trail.seen[i] + 1 >= ConsecutiveRuns
    OBVIOUS
  <1>1. PICK p \in Procs : Prepared(p) /\ Delivered(p)
    BY OnlyDelivery
  <1>2. i \in Filtered(ctx[p].raw, ctx[p].prev.pending, ctx[p].now)
    BY <1>1 DEF Delivered, Fires
  <1>3. /\ ctx[p].prev.pending \in [Items -> PendingItem]
        /\ ctx[p].raw \in SUBSET Items
        /\ ctx[p].now \in Nat
    BY DEF LockedInv, TypeOK, Context, State
  <1>4. i \in Items /\ ctx[p].prev.pending[i].count + 1 >= ConsecutiveRuns
    BY <1>2, <1>3, FiringNeedsSightings
  <1>5. ctx[p].prev.pending[i].count <= trail.seen[i]
    BY <1>1, <1>4, HeldIsHonest DEF Honest
  <1>6. ctx[p].prev.pending[i].count \in Nat /\ trail.seen[i] \in Nat
    BY <1>3, <1>4 DEF PendingItem, LockedInv, TypeOK, Trail
  <1>7. QED
    BY <1>4, <1>5, <1>6, RulesAssumption

\* Alert mails are confirmed by N consecutive recorded runs for every N, every
\* interleaving of processes and every pattern of crashes and failures
\* (ApplyPersistence, state.go, Dispatch), as long as runs take the lock.
THEOREM AlertsAreConfirmed == Spec => AlertConfirmed
  <1>1. LockedInv /\ GateInv /\ [Next]_vars =>
          [mail' # mail /\ ~degraded =>
             \A i \in mail'.items : trail.seen[i] + 1 >= ConsecutiveRuns]_vars
    BY AlertStep
  <1>2. QED
    BY <1>1, GateHolds, PTL DEF Spec, AlertConfirmed

LEMMA RecoveryStep ==
    LockedInv /\ GateInv /\ [Next]_vars =>
      (mail' # mail /\ mail'.kind = "recovery" /\ ~degraded =>
         trail.quiet + 1 >= ConsecutiveRuns)
  <1> SUFFICES ASSUME LockedInv, GateInv, [Next]_vars, mail' # mail,
                      mail'.kind = "recovery", ~degraded
               PROVE  trail.quiet + 1 >= ConsecutiveRuns
    OBVIOUS
  <1>1. PICK p \in Procs : Prepared(p) /\ Delivered(p)
    BY OnlyDelivery
  <1>2. DispatchAction(ctx[p].prev, ctx[p].raw, ctx[p].now) = "recovery"
    BY <1>1 DEF Delivered, Action
  <1>3. ctx[p].prev \in State /\ ctx[p].raw \in SUBSET Items /\ ctx[p].now \in Nat
    BY DEF LockedInv, TypeOK, Context
  <1>4. ctx[p].prev.streak + 1 >= ConsecutiveRuns
    BY <1>2, <1>3, RecoveryNeedsStreak
  <1>5. ctx[p].prev.streak <= trail.quiet \/ trail.quiet = ConsecutiveRuns
    BY <1>1, HeldIsHonest DEF Honest
  <1>6. ctx[p].prev.streak \in Nat /\ trail.quiet \in Nat
    BY <1>3 DEF State, LockedInv, TypeOK, Trail
  <1>7. QED
    BY <1>4, <1>5, <1>6, RulesAssumption

\* Recovery mails follow N consecutive recorded runs without a warning
\* (UpdateRecoveryStreak and the hard override in Dispatch).
THEOREM RecoveriesAreConfirmed == Spec => RecoveryConfirmed
  <1>1. LockedInv /\ GateInv /\ [Next]_vars =>
          [mail' # mail /\ mail'.kind = "recovery" /\ ~degraded =>
             trail.quiet + 1 >= ConsecutiveRuns]_vars
    BY RecoveryStep
  <1>2. QED
    BY <1>1, GateHolds, PTL DEF Spec, RecoveryConfirmed

-----------------------------------------------------------------------------
(* Runs under the lock implement Notifier: what state.json says of the last mail, *)
(* and what that forbids the next one *)

\* Between Send and Save the last mail is the one the run is about to record.
OwedInv ==
    ~degraded => \A p \in Procs :
        pc[p] = "save" /\ Action(p) # "none" =>
            mail = [kind |-> Action(p), items |-> Fires(p), at |-> ctx[p].now]

MailInv == LockedInv /\ OwedInv /\ MailRecorded

\* Steps of one process leave what another one decided alone.
LEMMA DecisionFrame ==
    ASSUME NEW q, ctx[q]' = ctx[q]
    PROVE  (Action(q))' = Action(q) /\ (Fires(q))' = Fires(q)
  BY DEF Action, Fires

\* A step that neither mails nor enters "save" owes nothing new.
LEMMA OwedFrame ==
    ASSUME OwedInv, mail' = mail, degraded' = degraded,
           \A q \in Procs : pc'[q] = "save" => pc[q] = "save" /\ ctx'[q] = ctx[q]
    PROVE  OwedInv'
  <1> SUFFICES ASSUME ~degraded', NEW q \in Procs, pc'[q] = "save", (Action(q))' # "none"
               PROVE  (mail = [kind |-> Action(q), items |-> Fires(q), at |-> ctx[q].now])'
    BY DEF OwedInv
  <1>1. pc[q] = "save" /\ ctx'[q] = ctx[q]
    OBVIOUS
  <1>2. (Action(q))' = Action(q) /\ (Fires(q))' = Fires(q)
    BY <1>1, DecisionFrame
  <1>3. mail = [kind |-> Action(q), items |-> Fires(q), at |-> ctx[q].now]
    BY <1>1, <1>2 DEF OwedInv
  <1>4. QED
    BY <1>1, <1>2, <1>3

LEMMA OwedStep == LockedInv /\ OwedInv /\ [Next]_vars => OwedInv'
  <1> SUFFICES ASSUME LockedInv, OwedInv, [Next]_vars PROVE OwedInv'
    OBVIOUS
  <1>0. TypeOK /\ ContextInv /\ LockInv
    BY DEF LockedInv
  <1>1. ASSUME NEW p \in Procs, Step(p) PROVE OwedInv'
    <2>1. CASE Launch(p) \/ Acquire(p) \/ AcquireBusy(p) \/ WriteReport(p) \/ DispatchSkipped(p)
      BY <2>1, <1>0, OwedFrame DEF TypeOK, Goto, Launch, Acquire, AcquireBusy, WriteReport,
                                   DispatchSkipped, history
    <2>2. CASE Suppress(p)
      <3>1. UNCHANGED <<ctx, mail, degraded>> /\ Action(p) = "none"
        BY <2>2 DEF Suppress, history
      <3>2. ASSUME NEW q \in Procs, ~degraded, pc'[q] = "save", (Action(q))' # "none"
            PROVE  (mail = [kind |-> Action(q), items |-> Fires(q), at |-> ctx[q].now])'
        <4>1. (Action(q))' = Action(q) /\ (Fires(q))' = Fires(q)
          BY <3>1, DecisionFrame
        <4>2. q # p
          BY <3>1, <3>2, <4>1
        <4>3. pc[q] = "save"
          BY <4>2, <3>2, <2>2, <1>0 DEF Suppress, Goto, TypeOK
        <4>4. mail = [kind |-> Action(q), items |-> Fires(q), at |-> ctx[q].now]
          BY <3>2, <4>1, <4>3 DEF OwedInv
        <4>5. QED
          BY <3>1, <4>1, <4>4
      <3>3. QED
        BY <3>1, <3>2 DEF OwedInv
    <2>3. CASE Send(p)
      <3>1. UNCHANGED <<ctx, degraded>> /\ Delivered(p)
        BY <2>3 DEF Send
      <3>2. ASSUME NEW q \in Procs, ~degraded, pc'[q] = "save", (Action(q))' # "none"
            PROVE  (mail = [kind |-> Action(q), items |-> Fires(q), at |-> ctx[q].now])'
        <4>1. q = p
          BY <3>2, <2>3, <1>0 DEF Send, Goto, TypeOK, LockInv, Inside
        <4>2. (Action(p))' = Action(p) /\ (Fires(p))' = Fires(p)
          BY <3>1, DecisionFrame
        <4>3. QED
          BY <3>1, <4>1, <4>2 DEF Delivered
      <3>3. QED
        BY <3>1, <3>2 DEF OwedInv
    <2>4. CASE Save(p)
      BY <2>4, <1>0, OwedFrame DEF TypeOK, Goto, Save
    <2>5. CASE Prepare(p)
      BY <2>5, <1>0, OwedFrame DEF TypeOK, Goto, Prepare, Gather, history
    <2>6. CASE Exit(p)
      BY <2>6, <1>0, OwedFrame DEF TypeOK, Goto, Exit, Gone, history
    <2>7. QED
      BY <1>1, <2>1, <2>2, <2>3, <2>4, <2>5, <2>6 DEF Step
  <1>2. ASSUME NEW p \in Procs, Failure(p) PROVE OwedInv'
    <2>1. CASE AcquireUnavailable(p)
      BY <2>1 DEF AcquireUnavailable, OwedInv
    <2>2. CASE PrepareSkipped(p) \/ SaveFailed(p) \/ SendFailed(p)
      BY <2>2, <1>0, OwedFrame DEF TypeOK, Goto, PrepareSkipped, SaveFailed, SendFailed, history
    <2>3. CASE SendAmbiguous(p)
      <3>1. ~degraded => \A q \in Procs : pc'[q] # "save"
        BY <2>3, <1>0 DEF TypeOK, Goto, SendAmbiguous, LockInv, Inside
      <3>2. degraded' = degraded
        BY <2>3 DEF SendAmbiguous
      <3>3. QED
        BY <3>1, <3>2 DEF OwedInv
    <2>4. CASE PrepareCold(p)
      BY <2>4, <1>0, OwedFrame DEF TypeOK, Goto, PrepareCold, Gather, history
    <2>5. CASE WriteFailed(p) \/ Crash(p)
      BY <2>5, <1>0, OwedFrame DEF TypeOK, Goto, WriteFailed, Crash, Gone, history
    <2>6. QED
      BY <1>2, <2>1, <2>2, <2>3, <2>4, <2>5 DEF Failure
  <1>3. CASE ClockSetBack \/ UNCHANGED vars
    BY <1>3, OwedFrame DEF ClockSetBack, history, vars
  <1>4. QED
    BY <1>1, <1>2, <1>3 DEF Next

-----------------------------------------------------------------------------
(* The record of the last mail *)

LEMMA RecordedSave ==
    ASSUME LockedInv, OwedInv, MailRecorded, ~degraded, NEW p \in Procs, Save(p)
    PROVE  MailRecorded'
  <1> DEFINE prev == ctx[p].prev
             raw == ctx[p].raw
             t == ctx[p].now
  <1>1. /\ pc[p] = "save" /\ ctx[p].on /\ ~degraded' /\ mail' = mail
        /\ file' = NextState(prev, raw, t, Action(p))
        /\ forgot' = (Action(p) = "none" /\ (forgot \/ ctx[p].cold))
    BY DEF LockedInv, ContextInv, Save, Goto, Result
  <1>2. /\ ctx[p] \in Context
        /\ Action(p) \in {"none", "alert", "recovery"}
    BY DecisionType DEF LockedInv
  <1>3. prev \in State /\ raw \in SUBSET Items /\ t \in Nat
    BY <1>2 DEF Context
  <1> SUFFICES ASSUME ~forgot'
               PROVE  /\ file'.status = CASE mail.kind = "none"     -> ""
                                          [] mail.kind = "alert"    -> "alert"
                                          [] mail.kind = "recovery" -> "ok"
                      /\ file'.signature = Signature(mail.items)
                      /\ file'.sentAt = mail.at
    BY <1>1 DEF MailRecorded, Signature
  <1>4. CASE Action(p) = "none"
    <2>1. ~forgot /\ prev = file
      BY <1>1, <1>4 DEF LockedInv, NoLostUpdate, Prepared
    <2>2. /\ file'.status = file.status
          /\ file'.signature = file.signature
          /\ file'.sentAt = file.sentAt
      BY <1>1, <1>3, <1>4, <2>1 DEF NextState, State
    <2>3. QED
      BY <2>1, <2>2 DEF MailRecorded
  <1>5. ASSUME Action(p) # "none"
        PROVE  mail = [kind |-> Action(p), items |-> Fires(p), at |-> t]
    BY <1>1, <1>5 DEF OwedInv
  <1>6. CASE Action(p) = "alert"
    <2>1. /\ file'.status = "alert"
          /\ file'.signature = Signature(Fires(p))
          /\ file'.sentAt = t
      BY <1>1, <1>6 DEF NextState, Fires
    <2>2. QED
      BY <2>1, <1>5, <1>6
  <1>7. CASE Action(p) = "recovery"
    <2>1. /\ file'.status = "ok"
          /\ file'.signature = {}
          /\ file'.sentAt = t
      BY <1>1, <1>7 DEF NextState
    <2>2. Fires(p) = {}
      BY <1>3, <1>7, RecoveryNeedsStreak DEF Action, Fires
    <2>3. Signature({}) = {}
      BY DEF Signature
    <2>4. QED
      BY <2>1, <2>2, <2>3, <1>5, <1>7
  <1>8. QED
    BY <1>2, <1>4, <1>6, <1>7

LEMMA RecordedStep == MailInv /\ [Next]_vars => MailRecorded'
  <1> SUFFICES ASSUME MailInv, [Next]_vars PROVE MailRecorded'
    OBVIOUS
  <1>1. CASE UNCHANGED <<file, mail, forgot>> /\ (degraded' = degraded \/ degraded' = TRUE)
    BY <1>1 DEF MailInv, MailRecorded, Signature
  <1>2. ASSUME NEW p \in Procs, Save(p) PROVE MailRecorded'
    <2>1. CASE ~degraded
      BY <1>2, <2>1, RecordedSave DEF MailInv
    <2>2. CASE degraded
      BY <1>2, <2>2 DEF Save, MailRecorded
    <2>3. QED
      BY <2>1, <2>2
  <1>3. ASSUME NEW p \in Procs, Delivered(p) PROVE MailRecorded'
    BY <1>3 DEF Delivered, MailRecorded
  <1>4. ASSUME NEW p \in Procs, Step(p), ~Save(p), ~Send(p)
        PROVE  UNCHANGED <<file, mail, forgot, degraded>>
    BY <1>4 DEF Step, Launch, Acquire, AcquireBusy, Prepare, Gather, WriteReport,
                DispatchSkipped, Suppress, Exit, history
  <1>5. ASSUME NEW p \in Procs, Failure(p), ~SendAmbiguous(p)
        PROVE  /\ UNCHANGED <<file, mail, forgot>>
               /\ degraded' = degraded \/ degraded' = TRUE
    BY <1>5 DEF Failure, AcquireUnavailable, PrepareCold, Gather, PrepareSkipped, WriteFailed,
                SendFailed, SaveFailed, Crash, history
  <1>6. ASSUME NEW p \in Procs, Send(p) \/ SendAmbiguous(p) PROVE Delivered(p)
    BY <1>6 DEF Send, SendAmbiguous
  <1>7. CASE ClockSetBack \/ UNCHANGED vars
    BY <1>7, <1>1 DEF ClockSetBack, history, vars
  <1>8. QED
    BY <1>1, <1>2, <1>3, <1>4, <1>5, <1>6, <1>7 DEF Next

LEMMA MailInit == Init => MailInv
  <1> SUFFICES ASSUME Init PROVE MailInv
    OBVIOUS
  <1>1. LockedInv
    BY TypeInit, LockInit DEF LockedInv
  <1>2. OwedInv
    BY DEF Init, OwedInv
  <1>3. MailRecorded
    BY DEF Init, MailRecorded, ColdState, Signature
  <1>4. QED
    BY <1>1, <1>2, <1>3 DEF MailInv

THEOREM MailInvHolds == Spec => []MailInv
  <1>1. MailInv /\ [Next]_vars => MailInv'
    BY OwedStep, RecordedStep, TypeStep, ContextStep, LockStep, FreshStep DEF MailInv, LockedInv
  <1>2. QED
    BY <1>1, MailInit, PTL DEF Spec

\* state.json describes the last mail whenever that mail was recorded: Dispatch
\* updates last_sent_at, last_signature and last_status together, after the send.
THEOREM MailIsRecorded == Spec => []MailRecorded
  <1>1. MailInv => MailRecorded
    BY DEF MailInv
  <1>2. QED
    BY <1>1, MailInvHolds, PTL

-----------------------------------------------------------------------------
(* Refinement *)

Sure == ~forgot /\ ~degraded /\ \A p \in Procs : ~ctx[p].cold

LEMMA DeliverRefines ==
    ASSUME MailInv, NEW p \in Procs, Prepared(p), Action(p) # "none", Delivered(p)
    PROVE  Mailbox!Deliver
  <1> DEFINE prev == ctx[p].prev
             raw == ctx[p].raw
             t == ctx[p].now
  <1>1. /\ prev \in State /\ raw \in SUBSET Items /\ t \in Nat
        /\ Action(p) \in {"alert", "recovery"}
        /\ Fires(p) \in SUBSET Items
    BY DecisionType DEF MailInv, LockedInv, Context
  <1>2. mail' = [kind |-> Action(p), items |-> Fires(p), at |-> t] /\ forgot'
    BY DEF Delivered
  <1>3. Sure =>
          /\ prev = file
          /\ file.status = CASE mail.kind = "none"     -> ""
                             [] mail.kind = "alert"    -> "alert"
                             [] mail.kind = "recovery" -> "ok"
          /\ file.signature = Signature(mail.items)
          /\ file.sentAt = mail.at
    BY DEF Sure, MailInv, MailRecorded, LockedInv, NoLostUpdate
  <1>4. mail.kind \in {"none", "alert", "recovery"}
    BY DEF MailInv, LockedInv, TypeOK, Mail
  <1>5. CASE Action(p) = "alert"
    <2>1. /\ Fires(p) # {}
          /\ \/ prev.status # "alert"
             \/ Signature(Fires(p)) # prev.signature
             \/ t - prev.sentAt >= Cooldown
      BY <1>1, <1>5, AlertNeedsNews DEF Action, Fires
    <2>2. Sure => \/ mail.kind # "alert"
                  \/ Signature(Fires(p)) # Signature(mail.items)
                  \/ t - mail.at >= Cooldown
      BY <2>1, <1>3, <1>4
    <2>3. Mailbox!Alert
      BY <1>1, <1>2, <1>5, <2>1, <2>2 DEF Mailbox!Alert, Mailbox!Keys, Signature, Sure
    <2>4. QED
      BY <2>3, <1>2 DEF Mailbox!Deliver
  <1>6. CASE Action(p) = "recovery"
    <2>1. prev.status = "alert" /\ Fires(p) = {}
      BY <1>1, <1>6, RecoveryNeedsStreak DEF Action, Fires
    <2>2. Sure => mail.kind = "alert"
      BY <2>1, <1>3, <1>4
    <2>3. Mailbox!Recovery
      BY <1>2, <1>6, <2>1, <2>2 DEF Mailbox!Recovery, Sure
    <2>4. QED
      BY <2>3, <1>2 DEF Mailbox!Deliver
  <1>7. QED
    BY <1>1, <1>5, <1>6

LEMMA InitRefines == Init => Mailbox!Init
  BY DEF Init, Mailbox!Init, Blank

LEMMA StepRefines ==
    MailInv /\ [Next]_vars => [Mailbox!Next]_<<mail, Sure>>
  <1> SUFFICES ASSUME MailInv, [Next]_vars PROVE [Mailbox!Next]_<<mail, Sure>>
    OBVIOUS
  <1>1. CASE mail' # mail
    BY <1>1, OnlyDelivery, DeliverRefines DEF MailInv, Mailbox!Next
  <1>2. CASE mail' = mail
    BY <1>2 DEF Mailbox!Next, Mailbox!Learn, Mailbox!Forget, Sure
  <1>3. QED
    BY <1>1, <1>2

\* For every number of processes and items and every N, TTL and cooldown, runs
\* that take the lock keep the mailbox promise of Notifier (Decide, Dispatch):
\* no repeat within the cooldown, no recovery without an alert.
THEOREM MailboxRefined == Spec => MailsAsPromised
  <1>1. MailInv /\ [Next]_vars => [Mailbox!Next]_<<mail, Sure>>
    BY StepRefines
  <1>2. QED
    BY <1>1, InitRefines, MailInvHolds, PTL DEF Spec, MailsAsPromised, Mailbox!Spec, Sure

=============================================================================
