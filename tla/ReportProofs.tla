---------------------------- MODULE ReportProofs ----------------------------
(***************************************************************************)
(* Proofs about Report for every list of hosts, every set of fields and     *)
(* every N.                                                                 *)
(***************************************************************************)
EXTENDS Report, FiniteSetTheorems, WellFoundedInduction, TLAPS

\* Least and greatest elements, from the well-foundedness of < on Nat.
LEMMA LeastExists ==
    ASSUME NEW T \in SUBSET Nat, T # {}
    PROVE  \E n \in T : \A m \in T : n <= m
  <1>1. IsWellFoundedOn(OpToRel(<, Nat), Nat)
    BY NatLessThanWellFounded, Zenon
  <1>2. \E n \in T : \A m \in T : ~ (<<m, n>> \in OpToRel(<, Nat))
    BY <1>1, WFMin, Zenon
  <1>3. PICK n \in T : \A m \in T : ~ (<<m, n>> \in OpToRel(<, Nat))
    BY <1>2, Zenon
  <1>4. \A m \in T : ~ (m < n)
    BY <1>3, Zenon DEF OpToRel
  <1>5. QED
    BY <1>4

LEMMA GreatestExists ==
    ASSUME NEW top \in Nat, NEW T \in SUBSET (1 .. top), T # {}
    PROVE  \E n \in T : \A m \in T : m <= n
  <1> DEFINE Mirror == {k \in 0 .. top : top - k \in T}
  <1>1. Mirror \in SUBSET Nat
    OBVIOUS
  <1>2. Mirror # {}
    <2>1. PICK n \in T : TRUE
      OBVIOUS
    <2>2. top - n \in 0 .. top /\ top - (top - n) = n
      OBVIOUS
    <2>3. QED
      BY <2>1, <2>2
  <1>3. PICK k \in Mirror : \A j \in Mirror : k <= j
    <2> HIDE DEF Mirror
    <2> QED
      BY <1>1, <1>2, LeastExists
  <1>4. ASSUME NEW m \in T PROVE m <= top - k
    <2>1. top - m \in 0 .. top /\ top - (top - m) = m
      OBVIOUS
    <2>2. top - m \in Mirror
      BY <2>1
    <2>3. k <= top - m
      BY <1>3, <2>2
    <2>4. QED
      BY <2>3
  <1>5. QED
    BY <1>3, <1>4

-----------------------------------------------------------------------------
(* Rows and the host their field is taken to be of *)

Emits(view, f) ==
    {n \in 1 .. Len(HostSeq) :
        <<HostSeq[n], f>> \in HostRows /\ view[<<HostSeq[n], f>>] # "absent"}

LEMMA HostByField ==
    ASSUME NEW view, NEW f
    PROVE  IF Emits(view, f) = {} THEN hostByField(view, f) = NoHost
           ELSE \E n \in Emits(view, f) : hostByField(view, f) = HostSeq[n]
  <1>1. CASE Emits(view, f) = {}
    BY <1>1 DEF Emits, hostByField
  <1>2. CASE Emits(view, f) # {}
    <2> DEFINE E == Emits(view, f)
               last == CHOOSE n \in E : \A m \in E : m <= n
    <2>1. Len(HostSeq) \in Nat /\ E \in SUBSET (1 .. Len(HostSeq))
      BY ReportAssumption DEF Emits
    <2>2. hostByField(view, f) = HostSeq[last]
      BY <1>2 DEF Emits, hostByField
    <2> HIDE DEF E
    <2>3. last \in E
      BY <1>2, <2>1, GreatestExists DEF E
    <2>4. QED
      BY <1>2, <2>2, <2>3 DEF E
  <1>3. QED
    BY <1>1, <1>2

LEMMA RowParts ==
    ASSUME NEW r \in Rows
    PROVE  /\ r = <<r[1], r[2]>>
           /\ r \in HostRows => r[1] \in Hosts /\ r[2] \in HostFields[r[1]]
           /\ r \notin HostRows => r[1] \in Entries /\ r[2] \in OtherFields[r[1]]
           /\ r[2] \in {x[2] : x \in Rows}
           /\ OwnKey(r) \in Keys /\ OwnKey(r)[2] = r[2]
  <1>1. CASE r \in HostRows
    BY <1>1 DEF Rows, HostRows, OwnKey, Keys
  <1>2. CASE r \in OtherRows /\ r \notin HostRows
    BY <1>2 DEF Rows, OtherRows, OwnKey, Keys
  <1>3. QED
    BY <1>1, <1>2 DEF Rows

LEMMA HostRowIntro ==
    ASSUME NEW h \in Hosts, NEW f, <<h, f>> \in HostRows
    PROVE  f \in HostFields[h]
  BY DEF HostRows

LEMMA KeyInKeys ==
    ASSUME NEW view, NEW r \in Rows
    PROVE  Key(view, r) \in Keys
  <1>1. hostByField(view, r[2]) \in Hosts \cup {NoHost}
    BY HostByField DEF Emits, Hosts
  <1>2. QED
    BY <1>1, RowParts DEF Key, Keys

\* The guess is right of a field that one row alone has.
LEMMA RightGuess ==
    ASSUME NEW view, NEW r \in Rows, Unshared(r[2]),
           r \in HostRows => view[r] # "absent"
    PROVE  Key(view, r) = OwnKey(r)
  <1>1. CASE r \in HostRows
    <2>1. r = <<r[1], r[2]>> /\ r[1] \in Hosts /\ r[2] \in HostFields[r[1]]
      BY <1>1, RowParts
    <2>2. PICK k \in 1 .. Len(HostSeq) : HostSeq[k] = r[1]
      BY <2>1 DEF Hosts
    <2>3. k \in Emits(view, r[2])
      BY <1>1, <2>1, <2>2 DEF Emits
    <2>4. PICK n \in Emits(view, r[2]) : hostByField(view, r[2]) = HostSeq[n]
      BY <2>3, HostByField
    <2>5. HostSeq[n] \in Hosts /\ <<HostSeq[n], r[2]>> \in HostRows
      BY DEF Emits, Hosts
    <2>6. <<HostSeq[n], r[2]>> \in Rows /\ <<HostSeq[n], r[2]>>[2] = r[2]
      BY <2>5 DEF Rows
    <2>7. <<HostSeq[n], r[2]>> = r
      BY <2>6 DEF Unshared
    <2>8. HostSeq[n] = r[1]
      BY <2>1, <2>7
    <2>9. QED
      BY <1>1, <2>1, <2>4, <2>8 DEF Key, OwnKey
  <1>2. CASE r \notin HostRows
    <2>1. r[1] \in Entries /\ r[2] \in OtherFields[r[1]]
      BY <1>2, RowParts
    <2>2. ASSUME NEW n \in Emits(view, r[2]) PROVE FALSE
      <3>1. HostSeq[n] \in Hosts /\ <<HostSeq[n], r[2]>> \in HostRows
        BY <2>2 DEF Emits, Hosts
      <3>2. r[2] \in HostFields[HostSeq[n]]
        BY <3>1, HostRowIntro
      <3>3. QED
        BY <2>1, <3>1, <3>2, ReportAssumption
    <2>3. hostByField(view, r[2]) = NoHost
      BY <2>2, HostByField
    <2>4. QED
      BY <1>2, <2>3 DEF Key, OwnKey
  <1>3. QED
    BY <1>1, <1>2

\* An unshared row is the only one its key can stand for.
LEMMA KeyIsRow ==
    ASSUME NEW view, NEW r \in Rows, Unshared(r[2]), NEW x \in Rows, Key(view, x) = OwnKey(r)
    PROVE  x = r
  <1>1. Key(view, x)[2] = x[2]
    BY DEF Key
  <1>2. x[2] = r[2]
    BY <1>1, RowParts
  <1>3. QED
    BY <1>2 DEF Unshared

\* Demotion takes no row away, so the guesses stay the same.
LEMMA DemotionKeepsKeys ==
    ASSUME NEW view \in [HostRows -> HostStatus], NEW keys, NEW r
    PROVE  Key(DemoteHosts(view, keys), r) = Key(view, r)
  <1> DEFINE demoted == DemoteHosts(view, keys)
             Last(emits) == IF emits = {} THEN NoHost
                            ELSE HostSeq[CHOOSE n \in emits : \A m \in emits : m <= n]
  <1>1. \A x \in HostRows : demoted[x] = "absent" <=> view[x] = "absent"
    BY DEF DemoteHosts, Demoted
  <1> HIDE DEF demoted
  <1>2. Emits(demoted, r[2]) = Emits(view, r[2])
    BY <1>1 DEF Emits
  <1>3. /\ hostByField(demoted, r[2]) = Last(Emits(demoted, r[2]))
        /\ hostByField(view, r[2]) = Last(Emits(view, r[2]))
    BY DEF hostByField, Emits
  <1>4. hostByField(demoted, r[2]) = hostByField(view, r[2])
    BY <1>2, <1>3
  <1>5. QED
    BY <1>4 DEF Key, demoted

-----------------------------------------------------------------------------
(* The gate *)

\* FiringNeedsSightings and PendingBelowN of InspectProofs, in the terms of Report.
LEMMA Gate ==
    ASSUME NEW before \in [Keys -> Rules!PendingItem], NEW raw \in SUBSET Keys
    PROVE  /\ Rules!Filtered(raw, before, 0) \subseteq raw
           /\ Rules!NextPending(raw, before, 0) \in [Keys -> Rules!PendingItem]
           /\ \A k \in Rules!Filtered(raw, before, 0) : before[k].count + 1 >= ConsecutiveRuns
           /\ \A k \in Keys :
                LET next == Rules!NextPending(raw, before, 0)[k].count
                IN  /\ next < ConsecutiveRuns
                    /\ next <= before[k].count + 1
                    /\ k \notin raw => next = 0
  <1>1. Rules!NotPending \in Rules!PendingItem /\ Rules!NotPending.count = 0
    BY DEF Rules!NotPending, Rules!PendingItem
  <1>2. ASSUME NEW k \in Keys
        PROVE  /\ Rules!Accrued(k, before, 0) \in Rules!PendingItem
               /\ Rules!Accrued(k, before, 0).count <= before[k].count + 1
    BY DEF Rules!Accrued, Rules!PendingItem
  <1>3. \A k \in Keys : before[k].count \in Nat /\ Rules!Accrued(k, before, 0).count \in Nat
    BY <1>2 DEF Rules!PendingItem
  <1>4. Rules!NextPending(raw, before, 0) \in [Keys -> Rules!PendingItem]
    BY <1>1, <1>2 DEF Rules!NextPending
  <1>5. ASSUME NEW k \in Rules!Filtered(raw, before, 0)
        PROVE  k \in raw /\ before[k].count + 1 >= ConsecutiveRuns
    BY <1>2, <1>3, ReportAssumption DEF Rules!Filtered
  <1>6. ASSUME NEW k \in Keys
        PROVE  LET next == Rules!NextPending(raw, before, 0)[k].count
               IN  /\ next < ConsecutiveRuns
                   /\ next <= before[k].count + 1
                   /\ k \notin raw => next = 0
    <2>1. CASE k \in raw \ Rules!Filtered(raw, before, 0)
      <3>1. Rules!NextPending(raw, before, 0)[k] = Rules!Accrued(k, before, 0)
        BY <2>1 DEF Rules!NextPending
      <3>2. ~ (Rules!Accrued(k, before, 0).count >= ConsecutiveRuns)
        BY <2>1 DEF Rules!Filtered
      <3>3. QED
        BY <1>2, <1>3, <2>1, <3>1, <3>2, ReportAssumption
    <2>2. CASE k \notin raw \ Rules!Filtered(raw, before, 0)
      <3>1. Rules!NextPending(raw, before, 0)[k].count = 0
        BY <1>1, <2>2 DEF Rules!NextPending
      <3>2. QED
        BY <1>3, <3>1, ReportAssumption
    <2>3. QED
      BY <2>1, <2>2
  <1>7. QED
    BY <1>4, <1>5, <1>6

-----------------------------------------------------------------------------
(* The invariant *)

RowTypes ==
    /\ hosts \in [HostRows -> HostStatus]
    /\ all \in [Rows -> Status]
    /\ pending \in [Keys -> Rules!PendingItem]
    /\ sighted \in [Rows -> 0 .. ConsecutiveRuns]
    /\ phase \in {"checked", "prepared"}

\* Counts on disk stay below N, and no unshared row is counted oftener than it warned.
Counted ==
    /\ \A k \in Keys : pending[k].count < ConsecutiveRuns
    /\ \A r \in Rows : Unshared(r[2]) =>
        /\ phase = "prepared" => pending[OwnKey(r)].count <= sighted[r]
        /\ phase = "checked" /\ all[r] = "warn" => pending[OwnKey(r)].count + 1 <= sighted[r]

\* Before Prepare the host page is the flat list, and the summary is of it.
Fresh ==
    phase = "checked" => /\ \A r \in HostRows : hosts[r] = all[r]
                         /\ summary = Summarize(all)

ReportInv ==
    RowTypes /\ Counted /\ Fresh /\ MailMatchesReport /\ UnsharedViewsAgree /\ UnsharedConfirmed

LEMMA InvInit == Init => ReportInv
  <1> SUFFICES ASSUME Init PROVE ReportInv
    OBVIOUS
  <1>1. Rules!NotPending \in Rules!PendingItem /\ Rules!NotPending.count = 0
    BY DEF Rules!NotPending, Rules!PendingItem
  <1>2. RowTypes
    BY <1>1, ReportAssumption DEF Init, RowTypes, HostStatus, Status
  <1>3. \A r \in Rows : /\ OwnKey(r) \in Keys /\ pending[OwnKey(r)].count = 0
                        /\ all[r] = "absent" /\ sighted[r] = 0
    BY <1>1, RowParts DEF Init
  <1>4. Counted
    BY <1>1, <1>3, ReportAssumption DEF Init, Counted
  <1>5. MailMatchesReport
    BY <1>3 DEF Init, MailMatchesReport, ExtractAlerts
  <1>6. UnsharedViewsAgree
    BY DEF Init, UnsharedViewsAgree, Rows
  <1>7. UnsharedConfirmed
    BY <1>3 DEF UnsharedConfirmed
  <1>8. QED
    BY <1>2, <1>4, <1>5, <1>6, <1>7 DEF Init, Fresh, ReportInv

LEMMA InspectKeeps == ReportInv /\ Inspect => ReportInv'
  <1> SUFFICES ASSUME ReportInv, Inspect PROVE ReportInv'
    OBVIOUS
  <1>1. /\ phase = "prepared" /\ phase' = "checked" /\ pending' = pending
        /\ hosts' \in [HostRows -> HostStatus \ {"notice"}]
        /\ summary' = Summarize(all')
    BY DEF Inspect
  <1>2. /\ all' \in [Rows -> Status]
        /\ \A r \in HostRows : all'[r] = hosts'[r]
    <2>1. PICK other \in [OtherRows -> Status] :
            all' = [r \in Rows |-> IF r \in HostRows THEN hosts'[r] ELSE other[r]]
      BY DEF Inspect
    <2>2. \A r \in Rows : r \notin HostRows => r \in OtherRows
      BY DEF Rows
    <2>3. QED
      BY <1>1, <2>1, <2>2 DEF Status, HostStatus, Rows
  <1>3. ASSUME NEW r \in Rows
        PROVE  /\ sighted'[r] \in 0 .. ConsecutiveRuns
               /\ all'[r] = "warn" => \/ sighted'[r] = sighted[r] + 1
                                      \/ sighted'[r] = ConsecutiveRuns
    BY ReportAssumption DEF Inspect, ReportInv, RowTypes
  <1>4. RowTypes'
    <2>1. sighted' \in [Rows -> 0 .. ConsecutiveRuns]
      BY <1>3 DEF Inspect
    <2>2. QED
      BY <1>1, <1>2, <2>1 DEF ReportInv, RowTypes, HostStatus
  <1>5. Counted'
    <2> SUFFICES ASSUME NEW r \in Rows, Unshared(r[2]), all'[r] = "warn"
                 PROVE  pending[OwnKey(r)].count + 1 <= sighted'[r]
      BY <1>1 DEF ReportInv, Counted
    <2>1. OwnKey(r) \in Keys /\ pending[OwnKey(r)].count \in Nat
      BY RowParts DEF ReportInv, RowTypes, Rules!PendingItem
    <2>2. pending[OwnKey(r)].count <= sighted[r] /\ pending[OwnKey(r)].count < ConsecutiveRuns
      BY <1>1, <2>1 DEF ReportInv, RowTypes, Counted
    <2>3. sighted[r] \in Nat
      BY ReportAssumption DEF ReportInv, RowTypes
    <2>4. QED
      BY <1>3, <2>1, <2>2, <2>3, ReportAssumption
  <1>6. QED
    BY <1>1, <1>2, <1>4, <1>5
       DEF ReportInv, Fresh, MailMatchesReport, UnsharedViewsAgree, UnsharedConfirmed

LEMMA PrepareKeeps == ReportInv /\ Prepare => ReportInv'
  <1> SUFFICES ASSUME ReportInv, Prepare PROVE ReportInv'
    OBVIOUS
  <1> DEFINE raw    == ExtractAlerts(hosts, all)
             firing == Rules!Filtered(raw, pending, 0)
             held   == raw \ firing
             view   == DemoteHosts(hosts, held)
  <1>1. /\ phase = "checked" /\ phase' = "prepared" /\ fired' = firing
        /\ pending' = Rules!NextPending(raw, pending, 0)
        /\ hosts' = view /\ all' = DemoteAll(view, all, held)
        /\ summary' = (IF raw = firing THEN summary ELSE Summarize(all'))
        /\ sighted' = sighted
    BY DEF Prepare
  <1>2. raw \in SUBSET Keys
    BY KeyInKeys DEF ExtractAlerts
  <1>3. \A r \in Rows : all[r] = "warn" => Key(hosts, r) \in raw
    BY DEF ExtractAlerts
  <1>4. \A k \in raw : \E x \in Rows : all[x] = "warn" /\ Key(hosts, x) = k
    BY DEF ExtractAlerts
  <1>5. /\ firing \subseteq raw
        /\ \A k \in firing : pending[k].count + 1 >= ConsecutiveRuns
        /\ pending' \in [Keys -> Rules!PendingItem]
        /\ \A k \in Keys : /\ pending'[k].count < ConsecutiveRuns
                           /\ pending'[k].count <= pending[k].count + 1
                           /\ k \notin raw => pending'[k].count = 0
    BY <1>1, <1>2, Gate DEF ReportInv, RowTypes
  <1>6. \A r \in Rows : Key(view, r) = Key(hosts, r)
    BY DemotionKeepsKeys DEF ReportInv, RowTypes
  <1> HIDE DEF raw, firing
  <1>7. /\ all' = [r \in Rows |-> Demoted(all[r], Key(hosts, r) \in held)]
        /\ hosts' = [r \in HostRows |-> Demoted(hosts[r], r \in held)]
    BY <1>1, <1>6 DEF DemoteAll, DemoteHosts
  <1> HIDE DEF held, view
  <1>8. \A r \in Rows : all'[r] = "warn" <=> all[r] = "warn" /\ Key(hosts, r) \in firing
    BY <1>3, <1>7 DEF Demoted, held
  <1>9. RowTypes'
    BY <1>1, <1>5, <1>7 DEF ReportInv, RowTypes, Demoted, HostStatus, Status
  <1>10. MailMatchesReport'
    <2>1. ExtractAlerts(view, all') = firing
      <3>1. ExtractAlerts(view, all') = {Key(hosts, r) : r \in {x \in Rows : all'[x] = "warn"}}
        BY <1>6 DEF ExtractAlerts
      <3>2. QED
        BY <1>4, <1>5, <1>8, <3>1
    <2>2. raw = firing => all' = all
      <3> SUFFICES ASSUME raw = firing PROVE all' = all
        OBVIOUS
      <3>1. held = {}
        BY DEF held
      <3>2. QED
        BY <1>7, <3>1 DEF ReportInv, RowTypes, Demoted
    <2>3. summary' = Summarize(all')
      BY <1>1, <2>2 DEF ReportInv, Fresh
    <2>4. QED
      BY <1>1, <2>1, <2>3 DEF MailMatchesReport
  <1>11. ASSUME NEW r \in Rows, Unshared(r[2]), all[r] = "warn" PROVE Key(hosts, r) = OwnKey(r)
    BY <1>1, <1>11, RightGuess DEF ReportInv, Fresh
  <1>12. UnsharedViewsAgree'
    <2> SUFFICES ASSUME NEW r \in HostRows, Unshared(r[2]) PROVE hosts'[r] = all'[r]
      BY DEF UnsharedViewsAgree
    <2>1. r \in Rows /\ hosts[r] = all[r] /\ OwnKey(r) = r
      BY <1>1 DEF ReportInv, Fresh, Rows, OwnKey
    <2>2. QED
      BY <1>7, <1>11, <2>1 DEF Demoted
  <1>13. ASSUME NEW r \in Rows, Unshared(r[2])
         PROVE  /\ all[r] = "warn" => pending[OwnKey(r)].count + 1 <= sighted[r]
                /\ OwnKey(r) \in Keys /\ pending[OwnKey(r)].count \in Nat
                /\ sighted[r] \in 0 .. ConsecutiveRuns
    BY <1>1, <1>13, RowParts DEF ReportInv, Counted, RowTypes, Rules!PendingItem
  <1>14. UnsharedConfirmed'
    <2> SUFFICES ASSUME NEW r \in Rows, all'[r] = "warn", Unshared(r[2])
                 PROVE  sighted[r] = ConsecutiveRuns
      BY <1>1 DEF UnsharedConfirmed
    <2>1. all[r] = "warn" /\ OwnKey(r) \in firing
      BY <1>8, <1>11
    <2>2. QED
      BY <1>5, <1>13, <2>1, ReportAssumption
  <1>15. Counted'
    <2>1. ASSUME NEW r \in Rows, Unshared(r[2]) PROVE pending'[OwnKey(r)].count <= sighted[r]
      <3>1. CASE OwnKey(r) \in raw
        <4>1. PICK x \in Rows : all[x] = "warn" /\ Key(hosts, x) = OwnKey(r)
          BY <1>4, <3>1
        <4>2. all[r] = "warn"
          BY <2>1, <4>1, KeyIsRow
        <4>3. pending'[OwnKey(r)].count \in Nat
          BY <1>5, <1>13, <2>1 DEF Rules!PendingItem
        <4>4. QED
          BY <1>5, <1>13, <2>1, <4>2, <4>3, ReportAssumption
      <3>2. CASE OwnKey(r) \notin raw
        BY <1>5, <1>13, <2>1, <3>2, ReportAssumption
      <3>3. QED
        BY <3>1, <3>2
    <2>2. \A r \in Rows : OwnKey(r) \in Keys /\ pending'[OwnKey(r)].count \in Nat
      BY <1>5, RowParts DEF Rules!PendingItem
    <2>3. QED
      BY <1>1, <1>5, <2>1, <2>2 DEF Counted
  <1>16. QED
    BY <1>1, <1>9, <1>10, <1>12, <1>14, <1>15 DEF ReportInv, Fresh

THEOREM ReportCorrect == Spec => []ReportInv
  <1>1. ReportInv /\ [Next]_vars => ReportInv'
    <2> SUFFICES ASSUME ReportInv, [Next]_vars PROVE ReportInv'
      OBVIOUS
    <2>1. CASE UNCHANGED vars
      BY <2>1 DEF vars, ReportInv, RowTypes, Counted, Fresh, MailMatchesReport,
                  UnsharedViewsAgree, UnsharedConfirmed
    <2>2. QED
      BY <2>1, InspectKeeps, PrepareKeeps DEF Next
  <1>2. QED
    BY <1>1, InvInit, PTL DEF Spec

-----------------------------------------------------------------------------

\* However many hosts share their fields, what AllChecks shows as Warn after
\* demotePending is what the mail lists, and the summary counts it.
THEOREM MailTellsTheReport == Spec => []MailMatchesReport
  BY ReportCorrect, PTL DEF ReportInv

\* Where one row alone has a field, guessing the host from it does no harm: the host
\* page and the flat list of the report agree after demotePending.
THEOREM ViewsAgreeUnshared == Spec => []UnsharedViewsAgree
  BY ReportCorrect, PTL DEF ReportInv

\* Such a row, of a host or of a component, is shown as Warn only when it warned N runs
\* in a row, for every N, however rows come and go in between.  Rows that share their
\* field (hosts with the same check, the hosts of a module) are not meant: they
\* confirm each other.
THEOREM WarnsAreConfirmed == Spec => []UnsharedConfirmed
  BY ReportCorrect, PTL DEF ReportInv

-----------------------------------------------------------------------------
(* Types *)

\* No row is in two buckets of the summary.
LEMMA Buckets ==
    ASSUME NEW checks
    PROVE  Summarize(checks) \in [{"ok", "warn", "unknown", "total"} -> 0 .. Cardinality(Rows)]
  <1> DEFINE In(s) == {r \in Rows : checks[r] = s}
             n == Cardinality(Rows)
             ok == In("ok")
             warn == In("warn")
             unknown == In("unknown")
  <1>1. /\ ok \in SUBSET Rows /\ warn \in SUBSET Rows /\ unknown \in SUBSET Rows
        /\ ok \cap warn = {} /\ (ok \cup warn) \cap unknown = {}
    OBVIOUS
  <1>2. Summarize(checks) = [ok |-> Cardinality(ok), warn |-> Cardinality(warn),
                             unknown |-> Cardinality(unknown),
                             total |-> Cardinality(ok) + Cardinality(warn) + Cardinality(unknown)]
    BY DEF Summarize, Count
  <1> HIDE DEF ok, warn, unknown
  <1>3. ASSUME NEW S \in SUBSET Rows
        PROVE  IsFiniteSet(S) /\ Cardinality(S) \in Nat /\ n \in Nat /\ Cardinality(S) <= n
    BY FS_CardinalityType, FS_Subset, ReportAssumption
  <1>4. Cardinality(ok \cup warn) = Cardinality(ok) + Cardinality(warn)
    <2>1. Cardinality(ok \cup warn) = Cardinality(ok) + Cardinality(warn) - Cardinality(ok \cap warn)
      BY <1>1, <1>3, FS_Union
    <2>2. Cardinality(ok \cap warn) = 0
      BY <1>1, FS_EmptySet
    <2>3. QED
      BY <1>1, <1>3, <2>1, <2>2
  <1>5. Cardinality((ok \cup warn) \cup unknown)
            = Cardinality(ok) + Cardinality(warn) + Cardinality(unknown)
    <2>1. Cardinality((ok \cup warn) \cup unknown)
            = Cardinality(ok \cup warn) + Cardinality(unknown)
              - Cardinality((ok \cup warn) \cap unknown)
      <3>1. IsFiniteSet(ok \cup warn) /\ IsFiniteSet(unknown)
        BY <1>1, <1>3
      <3>2. QED
        BY <3>1, FS_Union
    <2>2. Cardinality((ok \cup warn) \cap unknown) = 0
      BY <1>1, FS_EmptySet
    <2>3. QED
      BY <1>1, <1>3, <1>4, <2>1, <2>2
  <1>6. /\ Cardinality(ok) \in 0 .. n /\ Cardinality(warn) \in 0 .. n
        /\ Cardinality(unknown) \in 0 .. n
        /\ Cardinality(ok) + Cardinality(warn) + Cardinality(unknown) \in 0 .. n
    <2>1. Cardinality((ok \cup warn) \cup unknown) <= n
      BY <1>1, <1>3
    <2>2. QED
      BY <1>1, <1>3, <1>5, <2>1
  <1> HIDE DEF n
  <1>7. QED
    BY <1>2, <1>6 DEF n

SummaryTypes ==
    /\ summary \in [{"ok", "warn", "unknown", "total"} -> 0 .. Cardinality(Rows)]
    /\ fired \in SUBSET Keys

\* The summary stays within the rows of the report, no row counted twice, and what is
\* mailed is among what the report can show, through Prepare's rewriting.
THEOREM ReportTypes == Spec => []TypeOK
  <1>1. Init => SummaryTypes
    BY Buckets DEF Init, SummaryTypes
  <1>2. ReportInv /\ SummaryTypes /\ [Next]_vars => SummaryTypes'
    <2> SUFFICES ASSUME ReportInv, SummaryTypes, [Next]_vars PROVE SummaryTypes'
      OBVIOUS
    <2>1. CASE Inspect
      BY <2>1, Buckets DEF Inspect, SummaryTypes
    <2>2. CASE Prepare
      <3> DEFINE raw    == ExtractAlerts(hosts, all)
                 firing == Rules!Filtered(raw, pending, 0)
      <3>1. raw \in SUBSET Keys
        BY KeyInKeys DEF ExtractAlerts
      <3>2. firing \subseteq raw
        BY <3>1, Gate DEF ReportInv, RowTypes
      <3>3. fired' = firing /\ (summary' = summary \/ summary' = Summarize(all'))
        BY <2>2 DEF Prepare
      <3> HIDE DEF raw, firing
      <3>4. QED
        BY <3>1, <3>2, <3>3, Buckets DEF SummaryTypes
    <2>3. CASE UNCHANGED vars
      BY <2>3 DEF vars, SummaryTypes
    <2>4. QED
      BY <2>1, <2>2, <2>3 DEF Next
  <1>3. ReportInv /\ SummaryTypes => TypeOK
    BY DEF ReportInv, RowTypes, SummaryTypes, TypeOK
  <1>4. QED
    BY <1>1, <1>2, <1>3, ReportCorrect, PTL DEF Spec
=============================================================================
