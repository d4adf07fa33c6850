# Verification of weops-inspect

weops-inspect is started by cron, takes a file lock, inspects the hosts, the
BlueKing services and the open-source components of a platform, rewrites the
report so that unconfirmed warnings become notices, writes it as HTML and JSON,
mails an alert or a recovery when one is due, and saves what it decided in
`state.json` for the next run. The difficult behaviour is not in one run but
between runs: counters, cooldown and recovery streak survive in a file while
runs overlap, die, fail to mail, fail to save and read damaged files. `Inspect`
models that part, `Collection` what happens inside one run before it.

## Inventory

| Part | State | Operations | Talks to | Hard behaviour | What makes it correct |
|---|---|---|---|---|---|
| Run and lock (`main.go`, `lock/lock.go`) | flock on `inspect.lock` | acquire, busy exit, unlocked run, release | every other part, in a fixed order | overlapping runs, crash with the lock held, lock unavailable | no run saves a state derived from one that is no longer on disk; the lock never stays behind |
| Persistence gate (`notify/persistence.go`) | `pending`, `recovery_streak` in `state.json` | `ApplyPersistence`, `UpdateRecoveryStreak` | called by `Prepare` | counting over runs that fail; TTL | alerts and recoveries follow N recorded runs in a row |
| Signature, decision (`signature.go`, `trigger.go`) | `last_*` in `state.json` | `Signature`, `Decide` | called by `Dispatch` | queue names that rotate, cooldown | no repeat of the same set within the cooldown; no recovery without an alert |
| State file (`notify/state.go`) | `state.json` | `LoadState`, `SaveState` | disk | damaged file, failed save, crash before the save | describes the last mail whenever the mail was recorded |
| Prepare, Dispatch (`notify/notify.go`) | `PrepContext`, the report | rewrite the report, decide, mail, save | all of the above, SMTP | error paths and their order | mail, report and state tell the same story |
| Alert extraction (`notify/alerts.go`) | none | `ExtractAlerts` | report | `CheckResult` has no host, it is guessed from the field | a row counts for its own host and its own entry |
| SMTP (`notify/email.go`) | none | `Send` | mail server | a mail that was taken although `Send` fails | see state file |
| Report output (`output`, `render`) | two files | `Write` | disk | failure ends the run before `Dispatch` | nothing is recorded then |
| Host collection (`collector/host.go`) | result slice, first CPU samples | two rounds of goroutines | SSH client | barrier, late answers, partial output | metrics come from two samples and are what was answered; collection ends |
| SSH client (`ssh/client.go`) | one connection per call | `Run`, `RunContext` | hosts | deadline against answer, silent hosts | no call outlives its deadline, no goroutine leaks |
| Service collection (`collector/service.go`) | map of results under a mutex | one goroutine per module and host | SSH client, `config` | order of results | every configured host reports once |
| Component collectors (`collector/{es,mysql,redis,mongo,rabbitmq,replication}.go`, `probe.go`) | sections of the report | one collector after the other; a goroutine per Elasticsearch node | component APIs | some nodes answer, some do not; calls that share a deadline | what was not reached is visible; no verdict without an answer |
| bkmonitor probes (`collector/bkmonitor_dep.go`) | six results | `runWithTimeout` and six probes | CLIs, TCP | kill before start, timeout against answer | a probe ends, and its verdict stands |
| Rules (`checker`) | none | sections to statuses, `Summarize` | report | zero values, boundaries | missing data is not OK |
| Configuration (`config`, `notify/config.go`) | none | read the environment and `config.json` | environment, disk | deduplication of hosts | every host once |

## Modules

| Module | Models | Uses |
|---|---|---|
| `NotifyRules` | the decision rules as operators | |
| `Inspect` | runs, lock, state file, mail | `NotifyRules` |
| `Notifier` | abstract: what the mailbox sees | |
| `CalmRuns` | `Inspect` with an observer of unchanged runs | `Inspect` |
| `Report` | how runs rewrite the report | `NotifyRules` (as `Rules!`) |
| `HostCollect` | host collection over the SSH client | |
| `Config` | `Load`: lists, thresholds, fallbacks, blacklists | |
| `Probe` | error classes; rows and `Summarize` | |
| `ServiceCollect` | the goroutines of `CollectAllServices`, its output, its rules | `Probe`, `Gather` |
| `Gather` | abstract: what collecting the services promises | |
| `ESCollect` | `CollectES` with its goroutines, and `CheckES` | `Probe` |
| `DepProbes` | `CollectBKMonitorV3Deps`, `runWithTimeout`, `CheckBKDeps` | `Probe` |
| `Databases` | MySQL, Redis, sentinels, MongoDB, and their rules | `Probe` |
| `Broker` | `CollectRabbitMQ` and `CheckRabbitMQ` | `Probe` |
| `Replication` | `CollectReplication` and `CheckReplication` | `Probe` |
| `HostRules` | `parseHostOutput`, the df filter, `CheckHost` | `Probe` |
| `Collection` | `main` from `config.Load` to the summary | `Config` and the eight above it |
| `RecoveryRuns` | runs over MySQL slaves, up to the mail | `NotifyRules`, `Replication` |
| `InspectProofs`, `ReportProofs`, `HostCollectProofs`, `ServiceProofs` | theorems | the module they are about, `TLAPS` |
| `ListProofs` | lemmas on lists, flattened lists, folds over finite sets | the community modules, `TLAPS` |
| `CollectionProofs`, `RowProofs`, `VerdictProofs` | theorems about `Collection`: what is collected; which rows it gives; what the rows say | `Collection`, `ListProofs`, `ServiceProofs`, each other in this order |
| `MCInspect`, `MCInspectLive`, `MCCalmRuns`, `MCReport`, `MCCollection`, `MCRecoveryRuns` | instances for TLC | |

A definition named `X_Change` (for instance `Acquire_NoExclusion`) is a wrong
variant of `X`. No specification uses it; it is there so that one can put it in
the place of `X` and see which property notices.

### NotifyRules and Inspect

`pc[p]` is where process `p` is in `main`: `start` (before `lock.Acquire`),
`collect` (collection, checks, `notify.Load`, `Prepare`), `write`
(`output.Write`), `dispatch` (the decision and `Send`), `save` (`SaveState`),
`exit` (the deferred release). `lock` is the flock, `ctx[p]` the `PrepContext`
together with the state it was made from, `file` what `LoadState` finds, `mail`
the last mail the server accepted, `world` what the last collection found, `now`
the clock.

* An item is a `(Host, Field)` pair. Its count in `pending` is 0 when the map has
  no such key: the code never stores a zero.
* `Signature` is the set of normalised keys instead of its SHA-256; "" is the
  empty set. `SigKey` is `normalizeFieldForSignature`.
* `Gather` moves the clock and the platform by any amount, because nothing else
  of a run looks at either, so one variable each serves all processes.
* Collection always ends in `Inspect`. `HostCollect` shows when that is so.
* `forgot` and `degraded` are history: the last mail is not recorded in the
  file; some run went on without the lock. `trail` counts the runs whose state
  reached the disk: sightings in a row of each item and quiet runs in a row, both
  counted up to N.
* `ClockSetBack` puts the clock to any earlier time; what is on disk is then of the
  future, and `now - sentAt` negative.
* A fault is any of: clock set back, lock unavailable, state unreadable,
  notification skipped, report not written, mail refused, mail taken but reported
  as failed, state not saved, crash (before or after any step). `MaxFaults` bounds their number.

Properties: `NoLostUpdate`, `AlertConfirmed`, `RecoveryConfirmed`,
`MailRecorded`, `MailsAsPromised` (the specification `Notifier!Spec`, with
`sure` true when the last mail is recorded, no run went without the lock and no
run started cold), `AlertsTold` and `RecoveryTold`.

`AlertConfirmed` speaks of *recorded* runs. A run whose mail failed rolls its
counters back, so an item that was absent just in that run is still confirmed
by the runs around it; the design document is of two minds on this (spec.md of
`alert-persistence-confirmation`, lines 196-200 against 281-283), the code
consistently keeps the old state.

`AlertsTold` has the clause `HeldBack`: when the record of a *recovery* mail is
lost (crash between `Send` and `SaveState`), the file still says "alert", and the
same alert, coming back within the cooldown, is not mailed until it ends. It has the
clause `Expired` as well: it is promised on the hypothesis that runs come often
enough to count to N before the entry of the item is as old as the TTL. Where the
entry expires the count begins again, any number of times, and the alert may never
be told; that is the violation of `pending_ttl`. `RecoveryTold` is about
`send_recovery` switched on.

### Report

One run is `Inspect` (statuses of all rows, chosen from what the check of the field
may say, and the summary) and `Prepare`. Rows are `<<host, field>>` of hosts and
`<<entry, field>>` of the rest, where an entry is a component or one host of a module:
the field of a service names the module and not the host, so `AllChecks` has several
rows of one field. Keys are what `hostByField` makes of them: of all those rows
`''|field`. `Unshared` fields have one row. The model has no step for `output.Write`:
`MailMatchesReport` compares what is mailed with the report as `Prepare` leaves it.
`sighted` is history: consecutive runs in which the row itself warned. Every run
is saved and within the TTL here; what happens otherwise is `Inspect`'s subject.

### HostCollect

A call is `<<host, round>>`. `at` is the collecting goroutine (`dial`, `exec`,
`done`), `running` the command goroutines that have not ended, `chan` their
buffered channels. Output is the number of its pieces that arrived, the line of CPU
counters and then the sections (`Whole` if all of them); only output of less than the
first line gives "incomplete output", so that a host may end with no section and no
error. `MetricsAnswered` says what is left: metrics without an error are those
of the last answer. `stuck` hosts accept TCP and never complete the SSH handshake. The warning about unmatched
mounts, which also uses `Error`, is left out.

### Collection and its parts

`Collection` is `main` between `config.Load` and the summary. `stage` is the
collector main is in, `report` the sections so far (`<<>>` is nil, `<<x>>` a
section), `checks` the list `allChecks`. `Config` turns an environment into
`cfg`; `MCCollection` lists the environments of the run. Goroutines that share
something take steps of their own (services, Elasticsearch, dependency probes);
the other collectors are called by main alone, share nothing and cannot tell
steps apart, so one action takes their answers and stores their section.

What a server may answer is a set of records in the module of its collector
(`MySQLAnswers`, `BrokerAnswers`, ...), with one element `...Good`. `env.troubled`
names the parts that may give any of them; the others are in good health.
`answers` is history: the properties compare it with the rows.

* `Config`: `*_IP_COMMA` lists are sequences with `Blank` entries; text variables
  count only as empty or not. `Default` is a constant, so nothing rests on the
  default thresholds. Ports, credentials and SSH settings are passed on unread.
* `Probe`: `Classify` and its four siblings by kind of error instead of error
  type and text; `Summarize` counts as `checker.Summarize` does.
* `ServiceCollect`: `at[<<m, i>>]` is the goroutine of the i-th host of module m:
  `call`, `answered`, `locked`, `done`. The append to `results[m]` is a read
  (`Lock`) and a write (`Store`) with `mu` in between. Output is a sequence of
  section texts, whole, cut short or with its last section torn: nothing is left of
  its text, or `Part`, which stands for any text the code does not know by name.
  Sub-modules of the same kind are one; pids and worker counts are left out.
* `Gather`: each host is put on the board of its module once, in one step.
* `ESCollect`: `reach[i]` is what node i said to the first call; `Elect` is the
  loop after `wg.Wait`; health and node list share one deadline, so that the node
  list may be missing after any health.
* `DepProbes`: `process[item]` is the goroutine and process of `runWithTimeout`:
  `none`, `forked`, `started`, `failed`, `ended`. The timer may go off before the
  process exists: `cmd.Process` is nil then and `Kill` panics (phase `panicked`).
  A goroutine that was given up still ends (`LateEnd`).
* `Databases`, `Broker`, `Replication`: what is made of each combination of
  answers and errors, in the order of the calls, and which error is dropped. The
  JSON with which RabbitMQ rejects a login is an empty list with the mark `rejected`,
  which no rule reads. A lag of NULL is `Null` in an answer and 0 in the row.
* `HostRules`: output as the number of sections that arrived and the one reading
  that is off.
* `RecoveryRuns`: `Replication` gives the rows, `NotifyRules` decides; every run
  succeeds and every mail arrives.

`Inspect` and `Report` start from the rows and do not repeat any of this; the
rows they take are arbitrary, so they hold for those of `Collection` too.

## Runs

| Run | Instance | Shows |
|---|---|---|
| `inspect_runs` | 2 processes, 2 alerts, N = 2, 1 fault, clock 0..2, TTL 2, cooldown 2 | all safety properties under overlap |
| `inspect_n3` | 1 process, 2 queues of one vhost, N = 3, 2 faults, clock 0..3 | counters beyond two, two failures in a row, signature collapse |
| `inspect_live` | 2 processes, 1 alert, N = 2, 1 fault, TTL 1, cooldown 1, a clock that never stops, fairness | `AlertsTold`, `RecoveryTold` |
| `report_runs` | 2 hosts sharing a field, a field of one host, 2 hosts of a module, a queue, N = 2 | mail, flat list and summary agree; views agree, and warnings are confirmed, on unshared fields |
| `host_collect` | 3 hosts, 2 sections, fairness | samples paired, metrics answered, results settle, collection and goroutines end |
| `collection` | a whole platform in good health, two that are refused, 26 small ones, of which 25 have one part in trouble, fairness | the verdicts of every collector and rule, the refinement of `Gather`, settled verdicts, collection ends |
| `calm_runs` | 1 process, 2 alerts, no fault | **violates** `OneMailPerCooldown` |
| `pending_ttl` | 1 process, 2 alerts, no fault | **violates** `PendingAdvances` |
| `report_confirmed` | as `report_runs` | **violates** `Confirmed` |
| `host_handshake` | 2 hosts, one silent | **violates** `OthersCollected` |
| `rejected_login` | one broker, listed and a dependency of bkmonitorv3, both in trouble | **violates** `RejectedLoginTold` |
| `recovery` | 2 MySQL slaves, 4 answers, N = 2, 8 runs | **violates** `RecoveryMeansHealthy` |

What `collection` checks:

* `EveryHostOnce`: a host named in several lists, or twice, is asked once;
* `NobodyMissing`, `ServicesGathered`: the appends of the goroutines lose nothing;
* `OkMeansAnswered`: what "ok" rests on, for services and dependencies, output that
  broke off included. Under `http_alive` the code takes any text but "unreachable",
  a torn one too, and of RabbitMQ any word: the property says so and counts them;
* `FailureTold`: where asking failed outright, a row says so, MySQL nodes and slaves
  excepted, where the code is silent;
* `LeaderIsFirst`: the Elasticsearch node asked for health does not depend on the
  order of answers;
* `CutHostWarned`: a host that was not fully read never looks healthy;
* `SentinelVerdict`, `BrokerVerdict`, `ReplicationVerdict`: the rows say exactly
  what the answers mean. For the broker that is what was listed: nothing, and no
  alarm, when the login was rejected. Of a MySQL slave it is the row of the statement
  that decides. Rows of replication name a host, and a host may be in a list twice
  and answer differently each time, so `ReplicationVerdict` is about all the answers
  under one name;
* `HealthyIsQuiet`: a platform in good health raises nothing, if the thresholds are
  `Roomy`: usages and backlogs are alarms from the threshold on, so theirs must be above
  zero; the rest are alarms above it, so zero (the default of unassigned shards
  and of exited containers) will do. `config.Load` takes any number;
* `DepsIffRoles`, `DepsSettle`, `CollectionEnds`: dependencies are probed when a
  role is deployed, verdicts stand, and the run ends.

Bounds. Two processes are the least that overlap, and the lock admits one at a
time, so a third adds only busy exits. N = 2 is the default and N = 3 the least
value where counting on differs from starting. Cooldown and TTL matter only
through comparisons with differences of the clock; a clock that can reach each
of them once, and stand still, yields both outcomes of each comparison. One
fault with two processes and two with one process cover a fault in each step and
a second fault while the first is being recovered from. `MaxStreak` cuts the
streak at N, which is reached only when every recovery mail fails. Processes and
items are symmetric in `inspect_runs`, which checks no liveness.

In `collection` one part is in trouble at a time:
collectors share nothing but main's order, so a failure in one can meet a failure
in another only in the list of rows, where they add up. Lists have at most two
hosts (a module's goroutines need two to race, a leader and a second node are
the least that can be elected among) and thresholds are 1, with readings from
below to above them (the healthy platform has the two zeros of the defaults); a server's tables have at most two rows, and two vhosts are
one in the blacklist and one outside. The run has 161642 distinct states. It ends
in `done`, `exit` or `panicked`, and waits for ever for a host that never answers
over SSH, so deadlock is not an error there.

In `inspect_live` a clock that stops at its bound would be a hypothesis: a pending
entry could expire only as often as the bound has room for. `Slide` of
`MCInspectLive` lets time go on for ever instead. When no process holds a time of
its own, the instants 0 to `MaxTime` move by one and recorded times with them; a time
that falls out of the window stays at its start. It is then at least `Old`, the larger of
TTL and cooldown, before the present, and every comparison the code makes with
it comes out the same as with the true one. `SlideAssumption` leaves the clock room
to pass `Old` once more within the window. With TTL and cooldown 1 and `MaxTime` 3
(the least but one) entries expire and cooldowns end without limit; without `Expired`
the property `AlertsTold` fails in this run, as it should.

Fairness. `Fairness` of `Inspect` is weak fairness of each process's ordinary
steps: cron keeps starting runs, and a process that is not killed goes on. No
fairness is given to faults, to the clock or to the platform. `FairSpec` of
`HostCollect` is weak fairness of each call (a dial ends, a deadline passes), of
the end of a command whose connection was closed, and of main; a remote command
owes no answer. A `stuck` host's dial is never enabled to end. `FairSpec` of
`Collection` is weak fairness of main and its goroutines, including the timers
that end every call to a component, and of the tools of dependencies in good
health; a host owes no answer, so that `CollectionEnds` starts from where the
last host has answered.

## Where code and documents disagree

1. `calm_runs`. A promoted key leaves `pending` and is confirmed anew, so with
   N = 2 a constant alert is in `Filtered` every other run. Two alerts out of
   phase give a new signature in every run and a mail in every run, although
   the design promises one mail per cooldown window.
2. `pending_ttl`. The TTL counts from the first sighting. Runs 24 h / (N - 1) or
   more apart never confirm anything.
3. `report_confirmed`. The host of a flat row is guessed from its field; the last
   host of the report wins, and a service row has none. Flaps on different hosts, or
   on different hosts of one module, confirm each other.
4. `host_handshake`. The SSH dial is outside the deadline. One silent host blocks
   the run, which keeps the lock, so that every later run leaves as "busy" with
   exit code 0.

5. `recovery`. A slave that cannot be read has no row, so its warning disappears
   and counts as recovered. Two such runs mail that all checks are back to normal.
6. `rejected_login`. The probe of bkmonitorv3's RabbitMQ takes any AMQP answer for
   "ok", and `rmqAPI` takes the JSON of a 401 for an empty list. A wrong password
   shows in no row, where the design documents want a failed dependency and a
   protocol error.

Seen while modelling and not the subject of a run:

* The second round of host collection drops the SSH error. Output of less than one
  line is "incomplete output", which does not say why; output that broke off after its
  first line has no error at all, and sections are missing, or all of them.
* `demotePending` demotes the rows of a host by that host's own key and those of
  `AllChecks` by the last host that emits the field. On a field that two hosts emit a
  warning can stay on the host page and be a notice in the flat list, in spite of the
  comment at `notify/notify.go` 179-181 and `README.md` line 213 of the repository.
* A torn `unreachable` under `http_alive` reads "ok" (`service.go` 155-163).
* `README.md` line 186 says the state is written only after a successful mail; a
  suppressed run writes the counters.
* `CheckHost` never looks at `Error`: an unreachable host is OK in CPU, memory and
  load, and is noticed by the texts that did not arrive.
* A skipped sub-module has a status row "Unknown" (`rules.go` 120-126), where the
  comment in `service.go` (129-130) and `service-check-overrides/spec.md` (33, 59)
  want none.
* The backlog of a queue counts from the threshold on (`rabbitmq.go` 163), its row
  says "> N msgs" (`checker/rabbitmq.go` 77).
* Elasticsearch that rejects the login with a JSON body is taken for a cluster
  without nodes: no error, no row.
* A node of MySQL that cannot be reached has no rule at all; one whose `SHOW`
  statements both fail is called "master".
* Sentinels that disagree on the master are not told: the first that names one is
  believed.
* Service rows carry no host, so equal rows of two hosts are one key.
* `bkmonitorv3-collection/spec.md` line 67 expects seven dependency results; the
  code gives six.
* A curl killed with its context, and a broker's own time limit, are classed
  "unknown" rather than "timeout".
* `runWithTimeout` may call `Kill` on a process that was never started.

## Proofs

All theorems are about every set of processes, items, hosts, modules and
environments, every N, TTL and cooldown, every list and every bound, from the
named assumptions `RulesAssumption`, `InspectAssumption`, `CollectAssumption`,
`ReportAssumption`, `ConfigAssumption`, `EnvironmentAssumption` and
`VHostAssumption` only. They say that constants have their types, that N is at
least 1, that "nobody" is no process and no host, that the fields of hosts and of
the rest differ, that a report has finitely many rows, that a broker has a virtual
host, and of an environment that its lists are finite, that a number is unset,
malformed or an integer, and that the address a sentinel gives when it knows no
master (`NoOne`, the empty one) is in no list, blanks having been dropped.

The prover has no induction over data, so recursive library operators say nothing
by themselves. `ListProofs` gets what is needed from the well-foundedness of `<`:
if a statement about numbers fails, it fails at a least one (`EveryNumber`). From
this follow the existence of the functions that `FlattenSeq` and the folds are
defined by, and then what they return: a flattened list has the elements of its
blocks and no other (`Flattened`), a fold over a finite set keeps what each
step keeps (`FoldInduction`, `JoinInduction`), removing repeats from a list gives
each element once (`Distinct`), and a row is in a flattened list as often as in the
blocks together, so that if one block alone has it, it is there as often as in that
block (`JoinHits`, `BlockHits`). Sets of the same number of elements are shown so by
a one-to-one map (`Matched`).

* `InspectProofs`, one decision: what it guarantees, by cases over the rules
  (`FiringNeedsSightings`, `PendingBelowN`, `RecoveryNeedsStreak`,
  `AlertNeedsNews`).
* `InspectProofs`, runs: `TypeCorrect`, by one step per action. `LockedInv` adds
  `ContextInv` (what `pc` says of `ctx`), `LockInv` (who is inside holds the
  lock) and `NoLostUpdate`, which is inductive only with them: the save of
  another process must be excluded. `GateInv` adds that the state on disk is
  `Honest`: no count exceeds the recorded sightings, no streak the recorded
  quiet runs. With `NoLostUpdate` the state a run holds is honest too, and
  `FiringNeedsSightings` and `RecoveryNeedsStreak` turn that into
  `AlertsAreConfirmed` and `RecoveriesAreConfirmed`.
* `InspectProofs`, the mailbox: `OwedInv` says that between `Send` and `Save` the
  last mail is the one about to be recorded; `MailRecorded` is inductive with it.
  `MailboxRefined` shows each step of `Inspect` to be a step of `Notifier` or a
  stutter: a delivery is an allowed `Alert` or `Recovery` by `MailRecorded`,
  anything else changes at most what the system is sure of.
* `ReportProofs`: `ReportInv` relates pending counts to sightings of the row
  itself; the last host that emits a field exists by well-founded induction on
  the positions of a finite list. On a field that one host alone emits the guess
  is right, and where a service or component has one row of a field the key is the
  row's own: this gives `ViewsAgreeUnshared` and `WarnsAreConfirmed`.
  `MailTellsTheReport` needs no such restriction. `ReportTypes` shows that the
  summary puts each row into one bucket.
* `HostCollectProofs`: `TypeOK` step by step (`CollectTypes`); `RoundInv` (rounds
  do not overlap, whoever is called again left a sample) gives
  `SamplesArePaired`. `AnswerInv` (a call whose command runs has no answer yet) and
  `ToldInv` (whoever was measured without an error has the sections of the answer in
  the channel of its second call, whoever has an error has none, whoever was skipped
  has an error) give `MetricsAreAnswers`; with `SkippedInv` (a
  host whose first call failed is not called again) no call can return for such a
  host or after the end, which is `ResultsStand`.
* `ServiceProofs`: at most one goroutine is between `Lock` and `Unlock`, and its
  copy is the list as it still is; so `Store` appends exactly one host to the
  board, and each step is a step of `Gather` or a stutter
  (`ServicesAreGathered`). An invariant that ties the goroutines that are done to
  the entries on the board gives `ServicesComplete`; `Genuine` adds that every
  entry is what some goroutine of that module made of its reply. `TallyAlways` makes
  that one to one: at every moment the entries of a module are matched with its
  goroutines that are done, each with its own. `Store` appends to the list it has
  read and extends the matching by one; no other step changes either side.
* `CollectionProofs`: the same within `Collection`, whose actions are those of
  `ServiceCollect` or leave its variables alone, and what each collector left
  behind. `Loaded` says what `config.Load` made of the environment, blanks and
  repeats included, and that nothing changes it. `Collected` ties the section of
  each collector that main calls alone to the answers given to it. `DepTold` and
  `EsTold` do so for the two collectors with goroutines: a verdict is the grade of
  what the process said, or of its silence; the nodes of the Elasticsearch section
  are those that answered. `DependenciesProbed` needs that `cfg` never changes and
  that results are empty until the probes begin. `VerdictsStand`: each step of
  `DepProbes` appends at most one verdict. `LeaderFound`: the leader is a least
  element of the nodes that are up, and no node changes once all have answered.
  `DepEarned` says that a dependency whose verdict is "ok" was asked and gave an
  answer that earns it; a late answer (`LateEnd`) cannot undo that, because whoever
  was judged "ok" has answered already.
  `DepsCalm`, `EsCalm` and `AnswersCalm` say that in good health all answers are
  the good ones.
* `RowProofs`: for each rule, which rows it makes of its section, as a predicate
  on a single row (`HostRows`, `ESRows`, `BrokerRows`, ...). `RowsInv` says that
  the rows in `checks` are, at every stage, exactly those of the sections checked
  so far. `Facts` bundles it with the invariants of `CollectionProofs`. `OkHits`
  counts: from the check of the services on, a health row of a module is "ok" as
  often as an entry of that module has the health that gives it (`ModuleHits`);
  names within a module differ (`ModuleRegistry`), rows of other modules and rules have
  other fields, and the components' rows, added later, have none of these.
* `VerdictProofs`: what a finished report says, from `RowsInv` at the end
  (`AtTheEnd`) and from which rule a row with a given key can come from (`Whose`).
  `HostsOnce`, `CutHostsWarned`, `FailuresTold` (one lemma per part that can
  fail), `OksAreAnswered`, `SentinelsJudged`, `BrokerJudged`, `ReplicationJudged`; `CollectionTypes`.
  `HealthyQuiet` goes through every rule once more with good answers only; for the
  services it needs `ServicesCalm` and `Genuine`, for the rest `AnswersCalm`,
  `EsCalm` and `DepsCalm`. `OksAreAnswered` is a count as well: rows and entries
  agree by `OkHits`, entries and hosts by `TallyAlways` (`EntriesCounted`), and an
  entry has that health only if its section came and has a text that counts
  (`OkIsAnswered`, `TextTaken`). On dependencies it follows from
  `DepEarned`.

What failed proofs showed of the model, and what became of it. A check of
Elasticsearch by `curl` could start on a platform without nodes, where the code
returns first (the guard of `NoCurl`). Two `CASE`s had arms that overlap, so that
their value was left open. `ReplicationVerdict` was stated per position of a list,
and is false for a host named twice. The conjunct of `Collection!TypeOK` about
dependencies said nothing. `HealthyIsQuiet` had no hypothesis on the thresholds, and is
false when one is so low that idling reaches it. None of these showed in the environments of the run.

Only model-checked: `AlertsTold`, `RecoveryTold` and the two properties
`CollectionEnds` and `GoroutinesEnd` of ending; fairness and `ENABLED` are beyond the
prover. Every invariant and every action property of a passing run is a theorem. What
a run shows violated has no theorem, but `ViewsAgreeUnshared` and
`WarnsAreConfirmed` say on which rows the report is right.

## Not modelled

Rendering and mail formatting: no control. The wire protocols of the components:
a server's answer is a record of what the collectors read from it. Fields that no
rule reads, pids, worker counts, the arithmetic of CPU and memory usage, credentials,
ports, and the discovery of the SSH key. Reading the notification configuration:
its outcome is a choice of `Inspect`.

## Plan

1. Done: `NotifyRules`, `Inspect`, `Notifier`, `CalmRuns`, `Report`, `HostCollect`
   and their theorems.
2. Done: the collectors and rules of a whole run (`Config` to `Collection`), their
   composition with the decision over several runs (`RecoveryRuns`), the theorems
   on services, dependencies, the Elasticsearch leader and the report.
3. Done: the theorems on the rows of `Collection`: every host once, failures told,
   the verdicts on sentinels, broker and replication, good health is quiet, types.
4. Done: `OkMeansAnswered`, by the matching of entries and goroutines and by
   counting the rows of a flattened list.
5. Left: `HostCollect` in the place of `CollectAllHosts` in `Collection`; the two
   files of `output.Write` and the defaults of `notify/config.go`.
