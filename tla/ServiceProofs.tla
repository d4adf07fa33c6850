---------------------------- MODULE ServiceProofs ----------------------------
(***************************************************************************)
(* Proofs about ServiceCollect for every set of modules and hosts: the      *)
(* mutex lets one goroutine in at a time, so what a goroutine appends to is *)
(* still what the map holds, and the collection does what Gather says.      *)
(***************************************************************************)
EXTENDS ServiceCollect, TLAPS

\* Every reply, and every entry that can be made of one.
AllReplies == {NoReply} \cup UNION {Replies(j[1]) : j \in Jobs}
Entries == {collectServiceOnHost(j[1], HostOf(j), r) : j \in Jobs, r \in AllReplies}

AtTypes == {"call", "answered", "locked", "done"}

Types ==
    /\ phase \in {"idle", "running", "done"}
    /\ phase = "idle" => at = <<>> /\ mu = {}
    /\ phase # "idle" => /\ at \in [Jobs -> AtTypes]
                         /\ reply \in [Jobs -> AllReplies]
                         /\ copy \in [Jobs -> Seq(Entries)]
    /\ mu \in SUBSET Jobs
    /\ results \in [DOMAIN moduleHosts -> Seq(Entries)]

\* Those inside are those between Lock and Unlock, and they are one at most.
Exclusive ==
    /\ phase # "idle" => \A j \in Jobs : j \in mu <=> at[j] = "locked"
    /\ \A j, k \in mu : j = k

\* What the goroutine inside read is still there.
Fresh == \A j \in mu : copy[j] = results[j[1]]

\* Who is done left the entry that says what it was answered, and all are done when
\* the collection is over.
Entry(j) == collectServiceOnHost(j[1], HostOf(j), reply[j])

Kept ==
    /\ phase # "idle" => \A j \in Jobs : at[j] = "done" =>
            \E k \in DOMAIN results[j[1]] : results[j[1]][k] = Entry(j)
    /\ phase = "done" => \A j \in Jobs : at[j] = "done"

IInv == Types /\ Exclusive /\ Fresh /\ Kept

-----------------------------------------------------------------------------

LEMMA JobParts ==
    ASSUME NEW j \in Jobs
    PROVE  /\ j[1] \in DOMAIN moduleHosts
           /\ j[2] \in DOMAIN moduleHosts[j[1]]
           /\ j = <<j[1], j[2]>>
  BY DEF Jobs

LEMMA EntryHost ==
    ASSUME NEW m, NEW h, NEW r
    PROVE  collectServiceOnHost(m, h, r).HostIP = h
  BY DEF collectServiceOnHost

LEMMA AppendLast ==
    ASSUME NEW S, NEW s \in Seq(S), NEW e \in S
    PROVE  /\ Append(s, e) \in Seq(S)
           /\ DOMAIN s \subseteq DOMAIN Append(s, e)
           /\ \A k \in DOMAIN s : Append(s, e)[k] = s[k]
           /\ Len(s) + 1 \in DOMAIN Append(s, e)
           /\ Append(s, e)[Len(s) + 1] = e
  OBVIOUS

\* Taking the hosts of the entries goes with Append.
LEMMA HostsOfAppend ==
    ASSUME NEW S, NEW s \in Seq(S), NEW e \in S
    PROVE  [k \in DOMAIN Append(s, e) |-> Append(s, e)[k].HostIP]
           = Append([k \in DOMAIN s |-> s[k].HostIP], e.HostIP)
  <1> DEFINE a == Append(s, e)
             hosts == [k \in DOMAIN s |-> s[k].HostIP]
             all == [k \in DOMAIN a |-> a[k].HostIP]
             H == {s[k].HostIP : k \in DOMAIN s} \cup {e.HostIP}
  <1>1. DOMAIN s = 1 .. Len(s) /\ DOMAIN a = 1 .. Len(s) + 1 /\ Len(s) \in Nat
    OBVIOUS
  <1>2. hosts \in Seq(H) /\ Len(hosts) = Len(s)
    BY <1>1
  <1>3. DOMAIN Append(hosts, e.HostIP) = 1 .. Len(s) + 1
    BY <1>2
  <1>4. ASSUME NEW k \in 1 .. Len(s) + 1
        PROVE  all[k] = Append(hosts, e.HostIP)[k]
    <2>1. CASE k \in 1 .. Len(s)
      BY <2>1, <1>1, <1>2
    <2>2. CASE k = Len(s) + 1
      BY <2>2, <1>1, <1>2
    <2>3. QED
      BY <2>1, <2>2, <1>1
  <1>5. Append(hosts, e.HostIP) = [k \in 1 .. Len(s) + 1 |-> Append(hosts, e.HostIP)[k]]
    BY <1>2, <1>3
  <1>6. QED
    BY <1>1, <1>4, <1>5

-----------------------------------------------------------------------------
(* The invariant *)

LEMMA InvInit == Init => IInv
  <1> SUFFICES ASSUME Init PROVE IInv
    OBVIOUS
  <1>1. results \in [DOMAIN moduleHosts -> Seq(Entries)]
    BY DEF Init
  <1>2. QED
    BY <1>1 DEF Init, IInv, Types, Exclusive, Fresh, Kept

LEMMA SameJobs ==
    ASSUME UNCHANGED moduleHosts
    PROVE  /\ Jobs' = Jobs /\ AllReplies' = AllReplies /\ Entries' = Entries
           /\ (DOMAIN moduleHosts)' = DOMAIN moduleHosts
           /\ \A j \in Jobs : HostOf(j)' = HostOf(j)
  BY DEF Jobs, AllReplies, Entries, HostOf

\* The entry of a goroutine whose reply stays.
LEMMA SameEntry ==
    ASSUME UNCHANGED moduleHosts, NEW j \in Jobs, HostOf(j)' = HostOf(j), reply'[j] = reply[j]
    PROVE  Entry(j)' = Entry(j)
  <1>1. ASSUME NEW m, NEW h, NEW r
        PROVE  collectServiceOnHost(m, h, r)' = collectServiceOnHost(m, h, r)
    OBVIOUS
  <1>2. QED
    BY <1>1 DEF Entry

LEMMA BeginInv == IInv /\ Begin => IInv'
  <1> SUFFICES ASSUME IInv, Begin PROVE IInv'
    OBVIOUS
  <1>1. /\ Jobs' = Jobs /\ AllReplies' = AllReplies /\ Entries' = Entries
        /\ (DOMAIN moduleHosts)' = DOMAIN moduleHosts
    BY SameJobs DEF Begin
  <1>2. reply' \in [Jobs -> AllReplies] /\ copy' \in [Jobs -> Seq(Entries)]
    BY DEF Begin, AllReplies
  <1>3. Types'
    BY <1>1, <1>2 DEF IInv, Types, Begin, AtTypes
  <1>4. Exclusive' /\ Fresh' /\ Kept'
    BY <1>1 DEF IInv, Types, Exclusive, Fresh, Kept, Begin
  <1>5. QED
    BY <1>3, <1>4 DEF IInv

LEMMA AnswerInv ==
    ASSUME IInv, NEW j \in DOMAIN at, NEW r \in Replies(j[1]), Answer(j, r)
    PROVE  IInv'
  <1>1. /\ Jobs' = Jobs /\ AllReplies' = AllReplies /\ Entries' = Entries
        /\ (DOMAIN moduleHosts)' = DOMAIN moduleHosts
        /\ \A i \in Jobs : HostOf(i)' = HostOf(i)
    BY SameJobs DEF Answer
  <1>2. phase = "running" /\ phase' = "running" /\ j \in Jobs
    BY DEF Answer, IInv, Types
  <1>3. r \in AllReplies
    BY <1>2 DEF AllReplies
  <1>4. /\ at' \in [Jobs -> AtTypes] /\ at'[j] = "answered"
        /\ \A i \in Jobs : i # j => at'[i] = at[i]
    BY <1>2 DEF Answer, IInv, Types, AtTypes
  <1>5. reply' \in [Jobs -> AllReplies]
    BY <1>2, <1>3 DEF Answer, IInv, Types
  <1>6. Types'
    BY <1>1, <1>2, <1>4, <1>5 DEF IInv, Types, Answer
  <1>7. Exclusive'
    BY <1>1, <1>2, <1>4 DEF IInv, Exclusive, Types, Answer
  <1>8. Fresh'
    BY <1>1, <1>2, <1>4 DEF IInv, Fresh, Answer
  <1>9. Kept'
    <2>1. \A i \in Jobs : i # j => Entry(i)' = Entry(i)
      <3>1. \A i \in Jobs : i # j => reply'[i] = reply[i]
        BY <1>2 DEF Answer, IInv, Types
      <3>2. QED
        BY <1>1, <3>1, SameEntry DEF Answer
    <2>2. QED
      BY <1>1, <1>2, <1>4, <2>1 DEF IInv, Kept, Answer
  <1>10. QED
    BY <1>6, <1>7, <1>8, <1>9 DEF IInv

LEMMA LockInv ==
    ASSUME IInv, NEW j \in DOMAIN at, Lock(j)
    PROVE  IInv'
  <1>1. /\ Jobs' = Jobs /\ AllReplies' = AllReplies /\ Entries' = Entries
        /\ (DOMAIN moduleHosts)' = DOMAIN moduleHosts
        /\ \A i \in Jobs : HostOf(i)' = HostOf(i)
    BY SameJobs DEF Lock
  <1>2. phase # "idle" /\ phase' = phase /\ j \in Jobs
    BY DEF Lock, IInv, Types
  <1>3. j[1] \in DOMAIN moduleHosts
    BY <1>2, JobParts
  <1>4. /\ at' \in [Jobs -> AtTypes] /\ at'[j] = "locked"
        /\ \A i \in Jobs : i # j => at'[i] = at[i]
    BY <1>2 DEF Lock, IInv, Types, AtTypes
  <1>5. copy' \in [Jobs -> Seq(Entries)] /\ copy'[j] = results[j[1]]
    BY <1>2, <1>3 DEF Lock, IInv, Types
  <1>6. Types'
    BY <1>1, <1>2, <1>4, <1>5 DEF IInv, Types, Lock
  <1>7. Exclusive'
    BY <1>1, <1>2, <1>4 DEF IInv, Exclusive, Lock
  <1>8. Fresh'
    BY <1>5 DEF Fresh, Lock
  <1>9. Kept'
    <2>1. \A i \in Jobs : Entry(i)' = Entry(i)
      BY <1>1, SameEntry DEF Lock
    <2>2. QED
      BY <1>1, <1>2, <1>4, <2>1 DEF IInv, Kept, Lock
  <1>10. QED
    BY <1>6, <1>7, <1>8, <1>9 DEF IInv

\* The append puts one entry behind those that were there.
LEMMA StoreResults ==
    ASSUME IInv, NEW j \in DOMAIN at, Store(j)
    PROVE  LET e == collectServiceOnHost(j[1], HostOf(j), reply[j])
           IN  /\ phase # "idle" /\ j \in Jobs /\ j[1] \in DOMAIN moduleHosts
               /\ e \in Entries
               /\ results[j[1]] \in Seq(Entries)
               /\ results' = [results EXCEPT ![j[1]] = Append(results[j[1]], e)]
  <1>1. phase # "idle" /\ j \in Jobs
    BY DEF Store, IInv, Types
  <1>2. j[1] \in DOMAIN moduleHosts
    BY <1>1, JobParts
  <1>3. reply[j] \in AllReplies
    BY <1>1 DEF IInv, Types
  <1>4. j \in mu
    BY <1>1 DEF Store, IInv, Exclusive
  <1>5. copy[j] = results[j[1]]
    BY <1>4 DEF IInv, Fresh
  <1>6. QED
    BY <1>1, <1>2, <1>3, <1>5 DEF Store, Entries, IInv, Types

LEMMA StoreInv ==
    ASSUME IInv, NEW j \in DOMAIN at, Store(j)
    PROVE  IInv'
  <1> DEFINE e == collectServiceOnHost(j[1], HostOf(j), reply[j])
             m == j[1]
  <1>1. /\ Jobs' = Jobs /\ AllReplies' = AllReplies /\ Entries' = Entries
        /\ (DOMAIN moduleHosts)' = DOMAIN moduleHosts
        /\ \A i \in Jobs : HostOf(i)' = HostOf(i)
    BY SameJobs DEF Store
  <1>2. /\ phase # "idle" /\ phase' = phase /\ j \in Jobs /\ m \in DOMAIN moduleHosts
        /\ e \in Entries /\ results[m] \in Seq(Entries)
        /\ results' = [results EXCEPT ![m] = Append(results[m], e)]
    BY StoreResults DEF Store
  <1>3. e = Entry(j)
    BY DEF Entry
  <1> HIDE DEF e, m
  <1>4. results \in [DOMAIN moduleHosts -> Seq(Entries)]
    BY DEF IInv, Types
  <1>5. Append(results[m], e) \in Seq(Entries)
    BY <1>2, AppendLast
  <1>6. results' \in [DOMAIN moduleHosts -> Seq(Entries)]
    BY <1>2, <1>4, <1>5
  <1>7. \A n \in DOMAIN moduleHosts : \A k \in DOMAIN results[n] :
            k \in DOMAIN results'[n] /\ results'[n][k] = results[n][k]
    <2>1. TAKE n \in DOMAIN moduleHosts
    <2>2. CASE n = m
      BY <2>2, <1>2, <1>4, AppendLast
    <2>3. CASE n # m
      BY <2>3, <1>2, <1>4
    <2>4. QED
      BY <2>2, <2>3
  <1>8. \E k \in DOMAIN results'[m] : results'[m][k] = Entry(j)
    <2>1. results'[m] = Append(results[m], e)
      BY <1>2, <1>4
    <2>2. QED
      BY <2>1, <1>2, <1>3, AppendLast
  <1>9. /\ at' \in [Jobs -> AtTypes] /\ at'[j] = "done"
        /\ \A i \in Jobs : i # j => at'[i] = at[i]
    BY <1>2 DEF Store, IInv, Types, AtTypes
  <1>10. copy' \in [Jobs -> Seq(Entries)]
    BY <1>2 DEF Store, IInv, Types
  <1>11. mu' = {}
    BY <1>2 DEF Store, IInv, Exclusive
  <1>12. Types'
    BY <1>1, <1>2, <1>6, <1>9, <1>10, <1>11 DEF IInv, Types, Store
  <1>13. Exclusive' /\ Fresh'
    <2>1. j \in mu
      BY <1>2 DEF Store, IInv, Exclusive
    <2>2. \A i \in Jobs : at'[i] # "locked"
      BY <2>1, <1>2, <1>9 DEF IInv, Exclusive
    <2>3. QED
      BY <2>2, <1>1, <1>11 DEF Exclusive, Fresh
  <1>14. Kept'
    <2>1. ASSUME NEW i \in Jobs, at'[i] = "done"
          PROVE  \E k \in DOMAIN results'[i[1]] : results'[i[1]][k] = Entry(i)
      <3>1. CASE i = j
        BY <3>1, <1>8 DEF m
      <3>2. CASE i # j
        <4>1. i[1] \in DOMAIN moduleHosts
          BY JobParts
        <4>2. \E k \in DOMAIN results[i[1]] : results[i[1]][k] = Entry(i)
          BY <3>2, <2>1, <1>2, <1>9 DEF IInv, Kept
        <4>3. QED
          BY <4>1, <4>2, <1>7
      <3>3. QED
        BY <3>1, <3>2
    <2>2. phase' = "done" => \A i \in Jobs : at'[i] = "done"
      BY <1>2, <1>9 DEF IInv, Kept
    <2>3. \A i \in Jobs : Entry(i)' = Entry(i)
      BY <1>1, SameEntry DEF Store
    <2>4. QED
      BY <2>1, <2>2, <2>3, <1>1 DEF Kept
  <1>15. QED
    BY <1>12, <1>13, <1>14 DEF IInv

LEMMA JoinInv == IInv /\ Join => IInv'
  <1> SUFFICES ASSUME IInv, Join PROVE IInv'
    OBVIOUS
  <1>1. /\ Jobs' = Jobs /\ AllReplies' = AllReplies /\ Entries' = Entries
        /\ (DOMAIN moduleHosts)' = DOMAIN moduleHosts
        /\ \A i \in Jobs : HostOf(i)' = HostOf(i)
    BY SameJobs DEF Join
  <1>2. \A i \in Jobs : Entry(i)' = Entry(i)
    BY <1>1, SameEntry DEF Join
  <1>3. QED
    BY <1>1, <1>2 DEF IInv, Types, Exclusive, Fresh, Kept, Join

LEMMA StutterInv == IInv /\ UNCHANGED vars => IInv'
  <1> SUFFICES ASSUME IInv, UNCHANGED vars PROVE IInv'
    OBVIOUS
  <1>1. /\ Jobs' = Jobs /\ AllReplies' = AllReplies /\ Entries' = Entries
        /\ (DOMAIN moduleHosts)' = DOMAIN moduleHosts
        /\ \A i \in Jobs : HostOf(i)' = HostOf(i)
    BY SameJobs DEF vars
  <1>2. \A i \in Jobs : Entry(i)' = Entry(i)
    BY <1>1, SameEntry DEF vars
  <1>3. QED
    BY <1>1, <1>2 DEF IInv, Types, Exclusive, Fresh, Kept, vars

LEMMA InvNext == IInv /\ [Next]_vars => IInv'
  BY BeginInv, AnswerInv, LockInv, StoreInv, JoinInv, StutterInv DEF Next, Own

LEMMA Invariance == Spec => []IInv
  BY InvInit, InvNext, PTL DEF Spec

\* Each entry of the map was left by a goroutine of its module.
Genuine ==
    /\ phase = "idle" => \A m \in DOMAIN moduleHosts : results[m] = <<>>
    /\ \A m \in DOMAIN moduleHosts : \A k \in DOMAIN results[m] :
        \E j \in Jobs : j[1] = m /\ at[j] = "done" /\ results[m][k] = Entry(j)

LEMMA GenuineInit == Init => Genuine
  BY DEF Init, Genuine

\* A step that leaves the map alone, and the goroutines that are done.
LEMMA GenuineStays ==
    ASSUME IInv, Genuine, phase # "idle", phase' # "idle", UNCHANGED <<moduleHosts, results>>,
           \A i \in Jobs : at[i] = "done" => at'[i] = "done" /\ reply'[i] = reply[i]
    PROVE  Genuine'
  <1>1. /\ Jobs' = Jobs /\ \A i \in Jobs : HostOf(i)' = HostOf(i)
        /\ (DOMAIN moduleHosts)' = DOMAIN moduleHosts
    BY SameJobs
  <1>2. SUFFICES ASSUME NEW m \in DOMAIN moduleHosts, NEW k \in DOMAIN results[m]
                 PROVE  \E j \in Jobs : j[1] = m /\ at'[j] = "done" /\ results[m][k] = Entry(j)'
    BY <1>1 DEF Genuine
  <1>3. PICK j \in Jobs : j[1] = m /\ at[j] = "done" /\ results[m][k] = Entry(j)
    BY DEF Genuine
  <1>4. Entry(j)' = Entry(j)
    BY <1>1, <1>3, SameEntry
  <1>5. QED
    BY <1>3, <1>4

LEMMA GenuineStore ==
    ASSUME IInv, Genuine, NEW j \in DOMAIN at, Store(j)
    PROVE  Genuine'
  <1> DEFINE e == collectServiceOnHost(j[1], HostOf(j), reply[j])
  <1>1. /\ Jobs' = Jobs /\ \A i \in Jobs : HostOf(i)' = HostOf(i)
        /\ (DOMAIN moduleHosts)' = DOMAIN moduleHosts
    BY SameJobs DEF Store
  <1>2. /\ phase # "idle" /\ phase' = phase /\ j \in Jobs /\ j[1] \in DOMAIN moduleHosts
        /\ e \in Entries /\ results[j[1]] \in Seq(Entries)
        /\ results' = [results EXCEPT ![j[1]] = Append(results[j[1]], e)]
    BY StoreResults DEF Store
  <1>3. e = Entry(j)
    BY DEF Entry
  <1>4. /\ at' = [at EXCEPT ![j] = "done"] /\ reply' = reply /\ DOMAIN at = Jobs
        /\ DOMAIN results = DOMAIN moduleHosts
    BY <1>2 DEF Store, IInv, Types
  <1>5. \A i \in Jobs : Entry(i)' = Entry(i)
    BY <1>1, <1>4, SameEntry DEF Store
  <1> HIDE DEF e
  <1>6. SUFFICES ASSUME NEW m \in DOMAIN moduleHosts, NEW k \in DOMAIN results'[m]
                 PROVE  \E i \in Jobs : i[1] = m /\ at'[i] = "done" /\ results'[m][k] = Entry(i)
    BY <1>1, <1>2, <1>5 DEF Genuine
  <1>7. CASE m = j[1] /\ k = Len(results[m]) + 1
    <2>1. results'[m][k] = e
      BY <1>2, <1>4, <1>7, AppendLast
    <2>2. QED
      BY <1>2, <1>3, <1>4, <1>7, <2>1
  <1>8. CASE ~ (m = j[1] /\ k = Len(results[m]) + 1)
    <2>1. k \in DOMAIN results[m] /\ results'[m][k] = results[m][k]
      <3>1. CASE m = j[1]
        <4>1. results'[m] = Append(results[m], e)
          BY <1>2, <1>4, <3>1
        <4>2. DOMAIN results'[m] = 1 .. Len(results[m]) + 1
          BY <1>2, <4>1, <3>1
        <4>3. k \in DOMAIN results[m]
          BY <1>2, <1>8, <3>1, <4>2
        <4>4. QED
          BY <1>2, <3>1, <4>1, <4>3, AppendLast
      <3>2. CASE m # j[1]
        BY <1>2, <1>4, <3>2
      <3>3. QED
        BY <3>1, <3>2
    <2>2. PICK i \in Jobs : i[1] = m /\ at[i] = "done" /\ results[m][k] = Entry(i)
      BY <2>1 DEF Genuine
    <2>3. at'[i] = "done"
      BY <1>4, <2>2
    <2>4. QED
      BY <2>1, <2>2, <2>3
  <1>9. QED
    BY <1>7, <1>8

LEMMA GenuineNext == IInv /\ Genuine /\ [Next]_vars => Genuine'
  <1> SUFFICES ASSUME IInv, Genuine, [Next]_vars PROVE Genuine'
    OBVIOUS
  <1>1. CASE Begin
    <2>1. (DOMAIN moduleHosts)' = DOMAIN moduleHosts
      BY <1>1 DEF Begin
    <2>2. \A m \in DOMAIN moduleHosts : results'[m] = <<>>
      BY <1>1 DEF Begin, Genuine
    <2>3. QED
      BY <2>1, <2>2 DEF Genuine
  <1>2. ASSUME NEW j \in DOMAIN at, NEW r \in Replies(j[1]), Answer(j, r) PROVE Genuine'
    <2>1. DOMAIN at = Jobs /\ DOMAIN reply = Jobs
      BY <1>2 DEF Answer, IInv, Types
    <2>2. \A i \in Jobs : at[i] = "done" => at'[i] = "done" /\ reply'[i] = reply[i]
      BY <1>2, <2>1 DEF Answer
    <2>3. QED
      BY <1>2, <2>2, GenuineStays DEF Answer
  <1>3. ASSUME NEW j \in DOMAIN at, Lock(j) PROVE Genuine'
    <2>1. phase # "idle" /\ DOMAIN at = Jobs
      BY <1>3 DEF Lock, IInv, Types
    <2>2. \A i \in Jobs : at[i] = "done" => at'[i] = "done" /\ reply'[i] = reply[i]
      BY <1>3, <2>1 DEF Lock
    <2>3. QED
      BY <1>3, <2>1, <2>2, GenuineStays DEF Lock
  <1>4. ASSUME NEW j \in DOMAIN at, Store(j) PROVE Genuine'
    BY <1>4, GenuineStore
  <1>5. CASE Join
    BY <1>5, GenuineStays DEF Join
  <1>6. CASE UNCHANGED vars
    <2>1. CASE phase = "idle"
      <3>1. (DOMAIN moduleHosts)' = DOMAIN moduleHosts
        BY <1>6 DEF vars
      <3>2. \A m \in DOMAIN moduleHosts : results'[m] = <<>>
        BY <1>6, <2>1 DEF vars, Genuine
      <3>3. QED
        BY <3>1, <3>2 DEF Genuine
    <2>2. CASE phase # "idle"
      BY <1>6, <2>2, GenuineStays DEF vars
    <2>3. QED
      BY <2>1, <2>2
  <1>7. QED
    BY <1>1, <1>2, <1>3, <1>4, <1>5, <1>6 DEF Next, Own

LEMMA GenuineAlways == Spec => []Genuine
  BY GenuineInit, GenuineNext, Invariance, PTL DEF Spec

-----------------------------------------------------------------------------
(* One entry for each goroutine *)

\* The entries of a module, matched one to one with its goroutines that are done.
Tallied(b, m) ==
    /\ b \in [DOMAIN results[m] -> Jobs]
    /\ \A k, l \in DOMAIN results[m] : b[k] = b[l] => k = l
    /\ \A k \in DOMAIN results[m] :
        b[k][1] = m /\ at[b[k]] = "done" /\ results[m][k] = Entry(b[k])
    /\ \A j \in Jobs : j[1] = m /\ at[j] = "done" => \E k \in DOMAIN results[m] : b[k] = j

Matching(m) == \E b : Tallied(b, m)

\* And what a goroutine was answered is an answer.
Tally ==
    phase # "idle" =>
        /\ \A m \in DOMAIN moduleHosts : Matching(m)
        /\ \A j \in Jobs : at[j] # "call" => reply[j] \in Replies(j[1])

LEMMA TallyBegin ==
    ASSUME IInv, Genuine, Begin
    PROVE  Tally'
  <1>1. /\ (DOMAIN moduleHosts)' = DOMAIN moduleHosts /\ Jobs' = Jobs
        /\ at' = [j \in Jobs |-> "call"]
        /\ \A m \in DOMAIN moduleHosts : results'[m] = <<>>
    BY SameJobs DEF Begin, Genuine
  <1>2. ASSUME NEW m \in DOMAIN moduleHosts PROVE Matching(m)'
    <2> DEFINE b == [k \in {} |-> 0]
    <2>1. DOMAIN results'[m] = {}
      BY <1>1
    <2>2. Tallied(b, m)'
      BY <1>1, <2>1 DEF Tallied
    <2> HIDE DEF b
    <2>3. QED
      BY <2>2, Zenon DEF Matching
  <1>3. \A j \in Jobs : at'[j] = "call"
    BY <1>1
  <1>4. QED
    BY <1>1, <1>2, <1>3 DEF Tally

\* A step that leaves the map alone, and the goroutines that are done.
LEMMA TallyStays ==
    ASSUME IInv, Tally, phase # "idle", UNCHANGED <<moduleHosts, results>>,
           \A i \in Jobs : /\ at[i] = "done" <=> at'[i] = "done"
                           /\ at[i] = "done" => reply'[i] = reply[i]
                           /\ at'[i] # "call" => reply'[i] \in Replies(i[1])
    PROVE  Tally'
  <1>1. /\ Jobs' = Jobs /\ (DOMAIN moduleHosts)' = DOMAIN moduleHosts
        /\ \A i \in Jobs : HostOf(i)' = HostOf(i)
    BY SameJobs
  <1>2. \A i \in Jobs : at[i] = "done" => Entry(i)' = Entry(i)
    BY <1>1, SameEntry
  <1>3. ASSUME NEW m \in DOMAIN moduleHosts PROVE Matching(m)'
    <2>1. PICK b : Tallied(b, m)
      BY DEF Tally, Matching
    <2>2. Tallied(b, m)'
      BY <1>1, <1>2, <2>1 DEF Tallied
    <2>3. QED
      BY <2>2, Zenon DEF Matching
  <1>4. QED
    BY <1>1, <1>3 DEF Tally

LEMMA TallyStore ==
    ASSUME IInv, Tally, NEW j \in DOMAIN at, Store(j)
    PROVE  Tally'
  <1> DEFINE e == collectServiceOnHost(j[1], HostOf(j), reply[j])
  <1>1. /\ Jobs' = Jobs /\ \A i \in Jobs : HostOf(i)' = HostOf(i)
        /\ (DOMAIN moduleHosts)' = DOMAIN moduleHosts
    BY SameJobs DEF Store
  <1>2. /\ phase # "idle" /\ phase' = phase /\ j \in Jobs /\ j[1] \in DOMAIN moduleHosts
        /\ e \in Entries /\ results[j[1]] \in Seq(Entries)
        /\ results' = [results EXCEPT ![j[1]] = Append(results[j[1]], e)]
    BY StoreResults DEF Store
  <1>3. e = Entry(j)
    BY DEF Entry
  <1>4. /\ at' = [at EXCEPT ![j] = "done"] /\ at[j] = "locked" /\ reply' = reply
        /\ DOMAIN at = Jobs /\ DOMAIN results = DOMAIN moduleHosts
    BY <1>2 DEF Store, IInv, Types
  <1>5. \A i \in Jobs : Entry(i)' = Entry(i)
    BY <1>1, <1>4, SameEntry DEF Store
  <1> HIDE DEF e
  <1>6. ASSUME NEW m \in DOMAIN moduleHosts PROVE Matching(m)'
    <2>1. PICK b : Tallied(b, m)
      BY <1>2 DEF Tally, Matching
    <2>2. CASE m # j[1]
      <3>1. results'[m] = results[m]
        BY <1>2, <1>4, <2>2
      <3>2. \A i \in Jobs : i[1] = m => at'[i] = at[i]
        BY <1>4, <2>2
      <3>3. Tallied(b, m)'
        BY <1>1, <1>5, <2>1, <3>1, <3>2 DEF Tallied
      <3>4. QED
        BY <3>3, Zenon DEF Matching
    <2>3. CASE m = j[1]
      <3> DEFINE n == Len(results[m])
                 extended == [k \in 1 .. n + 1 |-> IF k = n + 1 THEN j ELSE b[k]]
      <3>1. /\ n \in Nat /\ DOMAIN results[m] = 1 .. n
            /\ results'[m] = Append(results[m], e)
        BY <1>2, <1>4, <2>3
      <3>2. /\ DOMAIN results'[m] = 1 .. n + 1
            /\ \A k \in 1 .. n : results'[m][k] = results[m][k]
            /\ results'[m][n + 1] = e
        BY <1>2, <2>3, <3>1
      <3> HIDE DEF n
      <3>3. /\ b \in [1 .. n -> Jobs]
            /\ \A k, l \in 1 .. n : b[k] = b[l] => k = l
            /\ \A k \in 1 .. n : b[k][1] = m /\ at[b[k]] = "done" /\ results[m][k] = Entry(b[k])
            /\ \A i \in Jobs : i[1] = m /\ at[i] = "done" => \E k \in 1 .. n : b[k] = i
        BY <2>1, <3>1 DEF Tallied
      <3>4. PICK c :
              /\ c \in [1 .. n + 1 -> Jobs] /\ c[n + 1] = j
              /\ \A k \in 1 .. n : c[k] = b[k] /\ b[k] # j
              /\ \A k \in 1 .. n + 1 : k = n + 1 \/ k \in 1 .. n
        <4>1. /\ extended \in [1 .. n + 1 -> Jobs] /\ extended[n + 1] = j
              /\ \A k \in 1 .. n : extended[k] = b[k] /\ b[k] # j
              /\ \A k \in 1 .. n + 1 : k = n + 1 \/ k \in 1 .. n
          BY <1>2, <1>4, <3>1, <3>3
        <4> HIDE DEF extended
        <4>2. QED
          BY <4>1
      <3>5. \A k, l \in 1 .. n + 1 : c[k] = c[l] => k = l
        BY <3>1, <3>3, <3>4
      <3>6. \A i \in Jobs : at'[i] = IF i = j THEN "done" ELSE at[i]
        BY <1>4
      <3>7. ASSUME NEW k \in 1 .. n + 1
            PROVE  c[k][1] = m /\ at'[c[k]] = "done" /\ results'[m][k] = Entry(c[k])
        <4>1. CASE k = n + 1
          BY <4>1, <1>2, <1>3, <2>3, <3>2, <3>4, <3>6
        <4>2. CASE k \in 1 .. n
          BY <4>2, <3>2, <3>3, <3>4, <3>6
        <4>3. QED
          BY <4>1, <4>2, <3>4
      <3>8. ASSUME NEW i \in Jobs, i[1] = m, at'[i] = "done"
            PROVE  \E k \in 1 .. n + 1 : c[k] = i
        <4>1. CASE i = j
          BY <4>1, <3>1, <3>4
        <4>2. CASE i # j
          <5>1. PICK k \in 1 .. n : b[k] = i
            BY <4>2, <3>3, <3>6, <3>8
          <5>2. k \in 1 .. n + 1 /\ c[k] = i
            BY <3>1, <3>4, <5>1
          <5>3. QED
            BY <5>2
        <4>3. QED
          BY <4>1, <4>2
      <3>9. Tallied(c, m)'
        BY <1>1, <1>5, <3>2, <3>4, <3>5, <3>7, <3>8 DEF Tallied
      <3>10. QED
        BY <3>9, Zenon DEF Matching
    <2>4. QED
      BY <2>2, <2>3
  <1>7. \A i \in Jobs : at'[i] # "call" => reply'[i] \in Replies(i[1])
    BY <1>2, <1>4 DEF Tally
  <1>8. QED
    BY <1>1, <1>6, <1>7 DEF Tally

LEMMA TallyNext == IInv /\ Genuine /\ Tally /\ [Next]_vars => Tally'
  <1> SUFFICES ASSUME IInv, Genuine, Tally, [Next]_vars PROVE Tally'
    OBVIOUS
  <1>1. CASE Begin
    BY <1>1, TallyBegin
  <1>2. ASSUME NEW j \in DOMAIN at, NEW r \in Replies(j[1]), Answer(j, r) PROVE Tally'
    <2>1. DOMAIN at = Jobs /\ DOMAIN reply = Jobs /\ phase # "idle"
      BY <1>2 DEF Answer, IInv, Types
    <2>2. \A i \in Jobs : /\ at[i] = "done" <=> at'[i] = "done"
                          /\ at[i] = "done" => reply'[i] = reply[i]
                          /\ at'[i] # "call" => reply'[i] \in Replies(i[1])
      BY <1>2, <2>1 DEF Answer, Tally
    <2>3. QED
      BY <1>2, <2>1, <2>2, TallyStays DEF Answer
  <1>3. ASSUME NEW j \in DOMAIN at, Lock(j) PROVE Tally'
    <2>1. phase # "idle" /\ DOMAIN at = Jobs
      BY <1>3 DEF Lock, IInv, Types
    <2>2. \A i \in Jobs : /\ at[i] = "done" <=> at'[i] = "done"
                          /\ at[i] = "done" => reply'[i] = reply[i]
                          /\ at'[i] # "call" => reply'[i] \in Replies(i[1])
      BY <1>3, <2>1 DEF Lock, Tally
    <2>3. QED
      BY <1>3, <2>1, <2>2, TallyStays DEF Lock
  <1>4. ASSUME NEW j \in DOMAIN at, Store(j) PROVE Tally'
    BY <1>4, TallyStore
  <1>5. CASE Join
    BY <1>5, TallyStays DEF Join, Tally
  <1>6. CASE UNCHANGED vars
    <2>1. CASE phase = "idle"
      BY <1>6, <2>1 DEF vars, Tally
    <2>2. CASE phase # "idle"
      BY <1>6, <2>2, TallyStays DEF vars, Tally
    <2>3. QED
      BY <2>1, <2>2
  <1>7. QED
    BY <1>1, <1>2, <1>3, <1>4, <1>5, <1>6 DEF Next, Own

\* CollectAllServices (service.go): under each module, whatever order the goroutines
\* take the mutex in, there is one entry for each of its hosts that is done, made of
\* what that host answered; none is lost, none is there twice, none is of another host.
THEOREM TallyAlways == Spec => []Tally
  <1>1. Init => Tally
    BY DEF Init, Tally
  <1>2. QED
    BY <1>1, TallyNext, GenuineAlways, Invariance, PTL DEF Spec

-----------------------------------------------------------------------------
(* The results *)

\* The variables keep their types: phases of main and goroutines, a mutex held by
\* goroutines, one slot of the map for each module.
THEOREM ServiceTypes == Spec => []TypeOK
  <1>1. IInv => TypeOK
    BY DEF IInv, Types, TypeOK, AtTypes
  <1>2. QED
    BY <1>1, Invariance, PTL

\* When CollectAllServices returns, every host of every module has its entry.
THEOREM ServicesComplete == Spec => []NobodyMissing
  <1>1. \A j \in Jobs : Entry(j).HostIP = HostOf(j)
    BY EntryHost DEF Entry
  <1>2. IInv => NobodyMissing
    BY <1>1 DEF IInv, Kept, NobodyMissing
  <1>3. QED
    BY <1>2, Invariance, PTL

LEMMA GatherInit == Init => Gathering!Init
  <1> SUFFICES ASSUME Init PROVE Gathering!Init
    OBVIOUS
  <1>1. {j \in DOMAIN at : at[j] # "done"} = {}
    BY DEF Init
  <1>2. [m \in DOMAIN results |-> [k \in DOMAIN results[m] |-> results[m][k].HostIP]]
        = [m \in DOMAIN moduleHosts |-> <<>>]
    BY DEF Init
  <1>3. QED
    BY <1>1, <1>2 DEF Init, Gathering!Init

\* Of the steps, only Store and the first and last of main show in Gather.
LEMMA GatherStep == IInv /\ [Next]_vars => [Gathering!Next]_Gathering!vars
  <1> DEFINE pending == {j \in DOMAIN at : at[j] # "done"}
             board == [m \in DOMAIN results |->
                          [k \in DOMAIN results[m] |-> results[m][k].HostIP]]
  <1> SUFFICES ASSUME IInv, [Next]_vars PROVE [Gathering!Next]_Gathering!vars
    OBVIOUS
  <1>1. CASE Begin
    <2>1. pending = {} /\ pending' = Jobs
      BY <1>1 DEF Begin, IInv, Types
    <2>2. board' = board
      BY <1>1 DEF Begin
    <2>3. Gathering!Open
      BY <1>1, <2>1, <2>2 DEF Begin, Gathering!Open, Gathering!Places, Jobs
    <2>4. QED
      BY <2>3 DEF Gathering!Next
  <1>2. ASSUME NEW j \in DOMAIN at, NEW r \in Replies(j[1]), Answer(j, r)
        PROVE  UNCHANGED Gathering!vars
    <2>1. pending' = pending
      BY <1>2 DEF Answer
    <2>2. board' = board
      BY <1>2 DEF Answer
    <2>3. QED
      BY <1>2, <2>1, <2>2 DEF Answer, Gathering!vars
  <1>3. ASSUME NEW j \in DOMAIN at, Lock(j)
        PROVE  UNCHANGED Gathering!vars
    <2>1. pending' = pending
      BY <1>3 DEF Lock
    <2>2. board' = board
      BY <1>3 DEF Lock
    <2>3. QED
      BY <1>3, <2>1, <2>2 DEF Lock, Gathering!vars
  <1>4. ASSUME NEW j \in DOMAIN at, Store(j)
        PROVE  Gathering!Next
    <2> DEFINE e == collectServiceOnHost(j[1], HostOf(j), reply[j])
               m == j[1]
    <2>1. /\ phase # "idle" /\ j \in Jobs /\ m \in DOMAIN moduleHosts
          /\ e \in Entries /\ results[m] \in Seq(Entries)
          /\ results' = [results EXCEPT ![m] = Append(results[m], e)]
      BY <1>4, StoreResults
    <2>2. e.HostIP = moduleHosts[m][j[2]]
      BY EntryHost DEF HostOf
    <2>3. results \in [DOMAIN moduleHosts -> Seq(Entries)] /\ at \in [Jobs -> AtTypes]
      BY <2>1 DEF IInv, Types
    <2> HIDE DEF e, m
    <2>4. j \in pending /\ pending' = pending \ {j}
      BY <1>4, <2>1, <2>3 DEF Store
    <2>5. board' = [board EXCEPT ![m] = Append(@, e.HostIP)]
      <3> DEFINE Hosts(s) == [k \in DOMAIN s |-> s[k].HostIP]
      <3>1. Hosts(Append(results[m], e)) = Append(Hosts(results[m]), e.HostIP)
        BY <2>1, HostsOfAppend
      <3>2. results' = [n \in DOMAIN results |->
                            IF n = m THEN Append(results[m], e) ELSE results[n]]
        BY <2>1, <2>3
      <3> HIDE DEF Hosts
      <3>3. [n \in DOMAIN results' |-> Hosts(results'[n])]
            = [[n \in DOMAIN results |-> Hosts(results[n])]
                EXCEPT ![m] = Append(@, e.HostIP)]
        BY <3>1, <3>2
      <3>4. QED
        BY <3>3 DEF Hosts
    <2>6. phase = "running"
      BY <1>4, <2>1, <2>3 DEF Store, IInv, Types, Kept
    <2>7. j = <<m, j[2]>>
      BY <2>1, JobParts DEF m
    <2>8. Gathering!Deliver(m, j[2])
      BY <1>4, <2>2, <2>4, <2>5, <2>6, <2>7 DEF Store, Gathering!Deliver
    <2>9. QED
      BY <2>4, <2>8 DEF Gathering!Next, m
  <1>5. CASE Join
    <2>1. pending = {} /\ pending' = pending
      BY <1>5 DEF Join, IInv, Types
    <2>2. board' = board
      BY <1>5 DEF Join
    <2>3. Gathering!Close
      BY <1>5, <2>1, <2>2 DEF Join, Gathering!Close
    <2>4. QED
      BY <2>3 DEF Gathering!Next
  <1>6. CASE UNCHANGED vars
    <2>1. pending' = pending /\ board' = board
      BY <1>6 DEF vars
    <2>2. QED
      BY <1>6, <2>1 DEF vars, Gathering!vars
  <1>7. QED
    BY <1>1, <1>2, <1>3, <1>4, <1>5, <1>6 DEF Next, Own

\* The goroutines do what Gather says: each answer is put on the board of its module
\* once, in one step, before the collection ends.
THEOREM ServicesAreGathered == Spec => Gathering!Spec
  BY GatherInit, GatherStep, Invariance, PTL DEF Spec, Gathering!Spec
=============================================================================
