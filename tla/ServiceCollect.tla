--------------------------- MODULE ServiceCollect ---------------------------
(***************************************************************************)
(* CollectAllServices (collector/service.go): one goroutine per module and  *)
(* host runs one command over SSH, reads the sections of its output, and    *)
(* appends what it found to the module's slice in a map under a mutex.      *)
(* The rules of checker/rules.go for the result come last.                  *)
(*                                                                          *)
(* Sub-modules of a kind are treated alike, so a module has one of each.    *)
(* Worker counts, pids and start times, which no rule looks at, are left    *)
(* out.  A definition X_Change is a deliberately wrong variant of X.        *)
(***************************************************************************)
EXTENDS Integers, SequencesExt

CHECKS == INSTANCE Probe

VARIABLES
    moduleHosts,  \* Config.GetModuleHosts(); does not change
    phase,        \* main: "idle", "running", "done"
    at,           \* each goroutine: "call", "answered", "locked", "done"
    reply,        \* what client.Run returned to it
    mu,           \* the goroutines inside the mutex
    copy,         \* the slice a goroutine appends to, as it read it
    results       \* the shared map

vars == <<moduleHosts, phase, at, reply, mu, copy, results>>

Jobs == UNION {{m} \X DOMAIN moduleHosts[m] : m \in DOMAIN moduleHosts}
HostOf(j) == moduleHosts[j[1]][j[2]]

-----------------------------------------------------------------------------
(* The registry and the output of the command *)

Sub(name, kind, skipped) == [name |-> name, HealthzType |-> kind, skipped |-> skipped]

\* job-analysis is the one sub-module with both checks skipped.
ModuleRegistry(m) ==
    CASE m \in {"paas", "iam", "usermgr"} -> <<Sub("web", "http_status", FALSE)>>
      [] m = "cmdb" -> <<Sub("cmdb", "json_ok", FALSE)>>
      [] m = "job"  -> <<Sub("job-analysis", "json_up", TRUE), Sub("job", "json_up", FALSE)>>
      [] m \in {"gse", "appo", "appt"} -> <<Sub("agent", "none", FALSE)>>
      [] OTHER -> <<Sub("server", "http_alive", FALSE)>>

\* The sections the command prints, in order.
Sections(m) ==
    FlattenSeq([i \in DOMAIN ModuleRegistry(m) |->
        IF ModuleRegistry(m)[i].skipped THEN <<>> ELSE <<<<"SVC", i>>, <<"HZ", i>>>>])
    \o IF m \in {"appo", "appt"} THEN <<<<"DOCKER", 0>>>> ELSE <<>>

\* What a section may say: the unit's state; the probe's answer, as expected, another
\* or "unreachable"; no container, one that is up, or so many that exited.
Texts(m, s) ==
    CASE s[1] = "SVC" -> {"active", "failed"}
      [] s[1] = "DOCKER" -> {"none", "up", "one", "two"}
      [] s[1] = "HZ" -> IF ModuleRegistry(m)[s[2]].HealthzType = "none" THEN {"N/A"}
                        ELSE {"good", "other", "unreachable"}

\* Of a torn section nothing is left, or something that may read like anything but a
\* word of the above: a part of its text, or the text and a part of the next header.
Nothing == ""
Part == "part"
Torn == {Nothing, Part}

FullOutputs(m) ==
    {o \in [DOMAIN Sections(m) -> UNION {Texts(m, s) : s \in ToSet(Sections(m))}] :
        \A k \in DOMAIN o : o[k] \in Texts(m, Sections(m)[k])}
CutOutputs(m) == UNION {{SubSeq(o, 1, k) : k \in 0 .. Len(o) - 1} : o \in FullOutputs(m)}

\* The full output, or a prefix of it whose last section may be torn.
TornOutputs(m) == UNION {{Append(o, t) : t \in Torn} : o \in CutOutputs(m)}
Outputs(m) == FullOutputs(m) \cup CutOutputs(m) \cup TornOutputs(m)

\* silent: an error and no output.  An error with output is the output.
Silence == [silent |-> TRUE, out |-> <<>>]
Replies(m) == {Silence} \cup {[silent |-> FALSE, out |-> o] : o \in Outputs(m)}
Whole(m, r) == Len(r.out) = Len(Sections(m)) /\ Last(r.out) \notin Torn
NoReply == [silent |-> FALSE, out |-> <<"none yet">>]

-----------------------------------------------------------------------------
(* collectServiceOnHost *)

Absent == "absent"

Section(m, r, s) ==
    LET here == {k \in DOMAIN r.out : Sections(m)[k] = s}
    IN  IF here = {} THEN Absent ELSE r.out[CHOOSE k \in here : TRUE]

\* No section: no status.  A section without ActiveState: "unknown".
Status(skipped, text) ==
    IF skipped \/ text = Absent THEN "" ELSE IF text = Nothing THEN "unknown" ELSE text

HealthzAPI_Lenient(sub, text) ==
    IF sub.skipped THEN "N/A" ELSE IF text = Nothing THEN "ok" ELSE "fail"

\* http_alive takes any text but "unreachable", as if it were a code, a part of one (or
\* of "unreachable") included; the json kinds fail on everything but the expected body;
\* http_status passes on what it got, nothing included.
HealthzAPI(sub, text) ==
    IF sub.skipped THEN "N/A"
    ELSE IF text = Absent THEN ""
    ELSE CASE sub.HealthzType = "none" -> "N/A"
           [] sub.HealthzType = "http_alive" ->
                IF text \in {"unreachable", Nothing} THEN "unreachable" ELSE "ok"
           [] sub.HealthzType = "http_status" -> IF text = "good" THEN "ok" ELSE text
           [] sub.HealthzType \in {"json_ok", "json_up"} ->
                IF text = "good" THEN "ok" ELSE IF text = "unreachable" THEN text ELSE "fail"

Up(text) == IF text = "up" THEN 1 ELSE 0
Exited(text) == CASE text = "one" -> 1 [] text = "two" -> 2 [] OTHER -> 0

collectServiceOnHost(m, host, r) ==
    [HostIP |-> host, Module |-> m,
     Error |-> IF r.silent THEN "ssh" ELSE "",
     Services |->
        IF r.silent THEN <<>>
        ELSE [i \in DOMAIN ModuleRegistry(m) |->
                LET sub == ModuleRegistry(m)[i]
                IN  [Module |-> sub.name,
                     Status |-> Status(sub.skipped, Section(m, r, <<"SVC", i>>)),
                     HealthzAPI |-> HealthzAPI(sub, Section(m, r, <<"HZ", i>>))]],
     ContainersUp |-> Up(Section(m, r, <<"DOCKER", 0>>)),
     ContainersExited |-> Exited(Section(m, r, <<"DOCKER", 0>>))]

-----------------------------------------------------------------------------
(* CollectAllServices *)

Init ==
    /\ phase = "idle"
    /\ at = <<>> /\ reply = <<>> /\ mu = {} /\ copy = <<>>
    /\ results = [m \in DOMAIN moduleHosts |-> <<>>]

\* One goroutine per module and position in its list.
Begin ==
    /\ phase = "idle" /\ phase' = "running"
    /\ at' = [j \in Jobs |-> "call"]
    /\ reply' = [j \in Jobs |-> NoReply]
    /\ copy' = [j \in Jobs |-> <<>>]
    /\ UNCHANGED <<moduleHosts, mu, results>>

\* client.Run returned: the command's output, or nothing.
Answer(j, r) ==
    /\ phase = "running"
    /\ at[j] = "call"
    /\ at' = [at EXCEPT ![j] = "answered"]
    /\ reply' = [reply EXCEPT ![j] = r]
    /\ UNCHANGED <<moduleHosts, phase, mu, copy, results>>

Lock_Free(j) ==
    /\ at[j] = "answered"
    /\ at' = [at EXCEPT ![j] = "locked"]
    /\ mu' = mu \cup {j}
    /\ copy' = [copy EXCEPT ![j] = results[j[1]]]
    /\ UNCHANGED <<moduleHosts, phase, reply, results>>

\* mu.Lock, and the read of results[module].
Lock(j) ==
    /\ at[j] = "answered"
    /\ mu = {}
    /\ at' = [at EXCEPT ![j] = "locked"]
    /\ mu' = {j}
    /\ copy' = [copy EXCEPT ![j] = results[j[1]]]
    /\ UNCHANGED <<moduleHosts, phase, reply, results>>

Store_KeepsLock(j) ==
    /\ at[j] = "locked"
    /\ at' = [at EXCEPT ![j] = "done"]
    /\ results' = [results EXCEPT ![j[1]] =
                      Append(copy[j], collectServiceOnHost(j[1], HostOf(j), reply[j]))]
    /\ copy' = [copy EXCEPT ![j] = <<>>]
    /\ UNCHANGED <<moduleHosts, phase, reply, mu>>

\* results[module] = append(...), mu.Unlock, wg.Done.
Store(j) ==
    /\ at[j] = "locked"
    /\ at' = [at EXCEPT ![j] = "done"]
    /\ results' = [results EXCEPT ![j[1]] =
                      Append(copy[j], collectServiceOnHost(j[1], HostOf(j), reply[j]))]
    /\ mu' = mu \ {j}
    /\ copy' = [copy EXCEPT ![j] = <<>>]
    /\ UNCHANGED <<moduleHosts, phase, reply>>

Join_Early ==
    /\ phase = "running" /\ phase' = "done"
    /\ \A j \in Jobs : at[j] # "call"
    /\ UNCHANGED <<moduleHosts, at, reply, mu, copy, results>>

\* wg.Wait and return.
Join ==
    /\ phase = "running" /\ phase' = "done"
    /\ \A j \in Jobs : at[j] = "done"
    /\ UNCHANGED <<moduleHosts, at, reply, mu, copy, results>>

Own == Begin \/ Join \/ \E j \in DOMAIN at : Lock(j) \/ Store(j)

Next == Own \/ \E j \in DOMAIN at : \E r \in Replies(j[1]) : Answer(j, r)

Spec == Init /\ [][Next]_vars

-----------------------------------------------------------------------------
(* checker/rules.go *)

\* The fields carry no host: two hosts of a module share theirs.
CheckService(m, sm) ==
    <<CHECKS!CheckResult(<<"service", m, sm.Module, "status">>,
        CASE sm.Status = "" -> "unknown" [] sm.Status = "active" -> "ok" [] OTHER -> "warn")>>
    \o IF sm.HealthzAPI \in {"", "N/A"} THEN <<>>
       ELSE CHECKS!OkOrWarn(sm.HealthzAPI = "ok", <<"service", m, sm.Module, "healthz">>)

CheckServiceContainers(s, t) ==
    CHECKS!RowIf((s.ContainersUp # 0 \/ s.ContainersExited # 0) /\ s.ContainersExited > t,
                 <<"service", s.Module, "docker", "exited">>, "notice")

CheckServiceCollectError(s) ==
    CHECKS!RowIf(s.Error # "", <<"service", s.Module, "collect_error">>, "notice")

\* Of one ServiceStatus, as main goes through them.
ServiceRows(s, t) ==
    LET OfSub(sm) == CheckService(s.Module, sm)
    IN  CheckServiceCollectError(s) \o CHECKS!RowsOfEach(s.Services, OfSub)
        \o CheckServiceContainers(s, t)

-----------------------------------------------------------------------------
(* Properties *)

TypeOK ==
    /\ phase \in {"idle", "running", "done"}
    /\ phase # "idle" =>
        /\ at \in [Jobs -> {"call", "answered", "locked", "done"}]
        /\ DOMAIN reply = Jobs /\ DOMAIN copy = Jobs
    /\ mu \in SUBSET Jobs
    /\ DOMAIN results = DOMAIN moduleHosts

\* Every host of every module has an entry under its module once all is done.
NobodyMissing ==
    phase = "done" =>
        \A j \in Jobs : \E k \in DOMAIN results[j[1]] : results[j[1]][k].HostIP = HostOf(j)

\* The goroutines take the place of the one-step deliveries of Gather: no answer of
\* a host is lost or put in twice although the append is a read and a write.
Gathering == INSTANCE Gather WITH
    pending <- {j \in DOMAIN at : at[j] # "done"},
    board <- [m \in DOMAIN results |-> [k \in DOMAIN results[m] |-> results[m][k].HostIP]]
=============================================================================
