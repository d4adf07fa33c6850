------------------------------- MODULE Report -------------------------------
(***************************************************************************)
(* The inspection report across runs: how checks become alert items         *)
(* (notify/alerts.go), which items pass the persistence gate, and how the   *)
(* report is rewritten so that it agrees with the mail (demotePending in    *)
(* notify/notify.go).  CheckResult carries no host, so both sides guess it  *)
(* from the field; this is about what the guess does.  Every run saves its  *)
(* state, within the pending TTL.                                           *)
(***************************************************************************)
EXTENDS Integers, Sequences, FiniteSets

CONSTANTS
    HostSeq,      \* order of report.Hosts
    HostFields,   \* fields CheckHost may emit for each host
    OtherFields,  \* fields of each service entry (a host of a module) or component
    FieldStatus,  \* what the check of a field may say; "absent": the row is not emitted
    NoHost,       \* the empty Host of an item that is not host-scoped
    ConsecutiveRuns

Hosts == {HostSeq[n] : n \in 1 .. Len(HostSeq)}
HostRows == {r \in Hosts \X (UNION {HostFields[h] : h \in Hosts}) : r[2] \in HostFields[r[1]]}
\* The checks of services and components: AllChecks has a row per entry, and the field
\* does not say of which host of the module (CheckService).
Entries == DOMAIN OtherFields
OtherRows ==
    {r \in Entries \X (UNION {OtherFields[e] : e \in Entries}) : r[2] \in OtherFields[r[1]]}
Rows == HostRows \cup OtherRows
Keys == (Hosts \cup {NoHost}) \X {r[2] : r \in Rows}

ASSUME ReportAssumption ==
    /\ HostSeq \in Seq(Hosts)
    /\ NoHost \notin Hosts
    /\ \A h \in Hosts, e \in Entries : HostFields[h] \cap OtherFields[e] = {}
    /\ IsFiniteSet(Rows)
    /\ ConsecutiveRuns \in Nat \ {0}

Rules == INSTANCE NotifyRules WITH
    Items <- Keys, SigKeys <- Keys, SigKey <- [k \in Keys |-> k],
    PendingTTL <- 1, Cooldown <- 0, SendRecovery <- TRUE

VARIABLES
    hosts,     \* report.Hosts[].Checks: status of each row, "absent" if not emitted
    all,       \* report.AllChecks
    summary,   \* report.Summary
    pending,   \* State.Pending
    fired,     \* items of the mail: PrepContext.Filtered
    phase,     \* "checked" (main.go up to Summarize), "prepared" (after Prepare)
    sighted    \* history: consecutive runs in which each row itself warned

vars == <<hosts, all, summary, pending, fired, phase, sighted>>

HostStatus == {"absent", "ok", "warn", "notice"}
Status == HostStatus \cup {"unknown"}

Count(checks, s) == Cardinality({r \in Rows : checks[r] = s})

Summarize_WarnTwice(checks) ==
    [ok |-> Count(checks, "ok"), warn |-> Count(checks, "warn"),
     unknown |-> Count(checks, "unknown"),
     total |-> Count(checks, "ok") + 2 * Count(checks, "warn") + Count(checks, "unknown")]

\* Summarize and recomputeSummary: notices are in no bucket.
Summarize(checks) ==
    [ok |-> Count(checks, "ok"), warn |-> Count(checks, "warn"),
     unknown |-> Count(checks, "unknown"),
     total |-> Count(checks, "ok") + Count(checks, "warn") + Count(checks, "unknown")]

\* hostByField: the last host of the report that emits the field.
hostByField(view, f) ==
    LET emits == {n \in 1 .. Len(HostSeq) :
                    <<HostSeq[n], f>> \in HostRows /\ view[<<HostSeq[n], f>>] # "absent"}
    IN  IF emits = {} THEN NoHost
        ELSE HostSeq[CHOOSE n \in emits : \A m \in emits : m <= n]

Key(view, r) == <<hostByField(view, r[2]), r[2]>>

\* The key a row would have if its host were known.
OwnKey(r) == IF r \in HostRows THEN r ELSE <<NoHost, r[2]>>

ExtractAlerts(view, checks) == {Key(view, r) : r \in {x \in Rows : checks[x] = "warn"}}

Demoted_Never(s, hit) == s

Demoted(s, hit) == IF s = "warn" /\ hit THEN "notice" ELSE s

DemoteHosts_Skipped(view, keys) == view

\* demotePending, per-host rows: each host's own key decides.
DemoteHosts(view, keys) == [r \in HostRows |-> Demoted(view[r], r \in keys)]

DemoteAll_OwnKey(view, checks, keys) == [r \in Rows |-> Demoted(checks[r], OwnKey(r) \in keys)]

\* demotePending, flat list: the guessed key decides.
DemoteAll(view, checks, keys) == [r \in Rows |-> Demoted(checks[r], Key(view, r) \in keys)]

-----------------------------------------------------------------------------

Init ==
    /\ hosts = [r \in HostRows |-> "absent"]
    /\ all = [r \in Rows |-> "absent"]
    /\ summary = Summarize(all)
    /\ pending = [k \in Keys |-> Rules!NotPending]
    /\ fired = {}
    /\ phase = "prepared"
    /\ sighted = [r \in Rows |-> 0]

\* A new run: host checks, then service and component checks, then the summary.
\* A host that was not reached emits no disk row but the others, an entry that is not
\* deployed no row at all.
Inspect ==
    /\ phase = "prepared" /\ phase' = "checked"
    /\ hosts' \in [HostRows -> HostStatus \ {"notice"}]
    /\ \A r \in HostRows : hosts'[r] \in FieldStatus[r[2]]
    /\ \E other \in [OtherRows -> Status] :
         /\ \A r \in OtherRows : other[r] \in FieldStatus[r[2]]
         /\ all' = [r \in Rows |-> IF r \in HostRows THEN hosts'[r] ELSE other[r]]
    /\ summary' = Summarize(all')
    /\ sighted' = [r \in Rows |->
                     IF all'[r] # "warn" THEN 0
                     ELSE IF sighted[r] < ConsecutiveRuns THEN sighted[r] + 1
                     ELSE ConsecutiveRuns]
    /\ UNCHANGED <<pending, fired>>

\* Prepare, and the save that ends the run.  raw \ firing is PendingKeys.
Prepare ==
    LET raw    == ExtractAlerts(hosts, all)
        firing == Rules!Filtered(raw, pending, 0)
        view   == DemoteHosts(hosts, raw \ firing)
    IN  /\ phase = "checked" /\ phase' = "prepared"
        /\ fired' = firing
        /\ pending' = Rules!NextPending(raw, pending, 0)
        /\ hosts' = view
        /\ all' = DemoteAll(view, all, raw \ firing)
        /\ summary' = IF raw = firing THEN summary ELSE Summarize(all')
        /\ UNCHANGED sighted

Next == Inspect \/ Prepare

Spec == Init /\ [][Next]_vars

-----------------------------------------------------------------------------
(* Properties *)

TypeOK ==
    /\ hosts \in [HostRows -> HostStatus]
    /\ all \in [Rows -> Status]
    /\ summary \in [{"ok", "warn", "unknown", "total"} -> 0 .. Cardinality(Rows)]
    /\ pending \in [Keys -> Rules!PendingItem]
    /\ fired \in SUBSET Keys
    /\ phase \in {"checked", "prepared"}
    /\ sighted \in [Rows -> 0 .. ConsecutiveRuns]

\* At most one row has the field: one host emits it, or one entry alone.
Unshared(f) == \A x, y \in Rows : x[2] = f /\ y[2] = f => x = y

\* What AllChecks still shows as Warn is what the mail lists, and Summary counts
\* it: report, subject and body tell the same story (main.go calls Prepare
\* before rendering for this).
MailMatchesReport ==
    phase = "prepared" =>
        /\ ExtractAlerts(hosts, all) = fired
        /\ summary = Summarize(all)

\* The host page and the flat list agree on every field only one host emits.
UnsharedViewsAgree ==
    \A r \in HostRows : Unshared(r[2]) => hosts[r] = all[r]

\* A row of such a field, be it of a host or of a component, is reported as Warn only
\* after it warned in N runs in a row.  Not so the hosts of a module: their rows have
\* the key ''|field between them and confirm each other.
UnsharedConfirmed ==
    phase = "prepared" =>
        \A r \in Rows : all[r] = "warn" /\ Unshared(r[2]) => sighted[r] = ConsecutiveRuns

\* The same without the proviso: "only the same (Host, Field) that alerts in N
\* consecutive inspections is taken as valid" (README).
Confirmed ==
    phase = "prepared" => \A r \in Rows : all[r] = "warn" => sighted[r] = ConsecutiveRuns
=============================================================================
