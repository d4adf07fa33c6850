-------------------------- MODULE CollectionProofs --------------------------
(***************************************************************************)
(* Proofs about Collection for every set of environments.  The services are *)
(* collected by ServiceCollect whatever main does around it, so what is     *)
(* proved there holds here; the dependencies are probed when a role of      *)
(* bkmonitorv3 is deployed, and their verdicts stand.                       *)
(***************************************************************************)
EXTENDS Collection, ListProofs

SvcProofs == INSTANCE ServiceProofs
    WITH moduleHosts <- GetModuleHosts(cfg), phase <- svcPhase

-----------------------------------------------------------------------------
(* What the configuration is *)

LEMMA Parsed ==
    ASSUME NEW list, List(list)
    PROVE  List(parseIPList(list)) /\ ToSet(parseIPList(list)) = ToSet(list) \ {Blank}
  <1> DEFINE blocks == [i \in DOMAIN list |-> IF list[i] = Blank THEN <<>> ELSE <<list[i]>>]
  <1>1. ASSUME NEW i \in DOMAIN list
        PROVE  List(blocks[i]) /\ ToSet(blocks[i]) = {list[i]} \ {Blank}
    BY NoRows, OneRow
  <1>2. blocks = [i \in DOMAIN list |-> blocks[i]]
    OBVIOUS
  <1>3. parseIPList(list) = FlattenSeq(blocks)
    BY DEF parseIPList
  <1> HIDE DEF blocks
  <1>4. /\ List(FlattenSeq(blocks))
        /\ \A r : r \in ToSet(FlattenSeq(blocks))
                  <=> \E i \in DOMAIN list : r \in ToSet(blocks[i])
    BY <1>1, <1>2, Blocks
  <1>5. ASSUME NEW r
        PROVE  r \in ToSet(FlattenSeq(blocks)) <=> r \in ToSet(list) /\ r # Blank
    <2>1. r \in ToSet(list) <=> \E i \in DOMAIN list : r = list[i]
      BY DEF ToSet
    <2>2. r \in ToSet(FlattenSeq(blocks)) <=> \E i \in DOMAIN list : r = list[i] /\ r # Blank
      BY <1>1, <1>4
    <2>3. QED
      BY <2>1, <2>2
  <1>6. QED
    BY <1>3, <1>4, <1>5

LEMMA HostListsAre ==
    List(HostLists) /\ \A i \in DOMAIN HostLists : HostLists[i] \in ToSet(HostLists)
  <1>1. DOMAIN HostLists = 1 .. 20
    BY DEF HostLists
  <1>2. HostLists = [i \in 1 .. 20 |-> HostLists[i]]
    BY DEF HostLists
  <1>3. List(HostLists)
    BY <1>1, <1>2, Tabulated
  <1>4. QED
    BY <1>3, Positions

\* The lists the components go by.
LEMMA NamedLists ==
    ReplicationLists \cup {"es7", "redis", "sentinel", "mongodb", "rabbitmq"} \subseteq Lists
  <1>1. ToSet(HostLists) = {HostLists[i] : i \in 1 .. 20}
    BY DEF HostLists, ToSet
  <1>2. /\ HostLists[15] = "es7" /\ HostLists[16] = "rabbitmq" /\ HostLists[18] = "mongodb"
        /\ HostLists[19] = "redis" /\ HostLists[20] = "sentinel"
    BY DEF HostLists
  <1>3. QED
    BY <1>1, <1>2 DEF Lists

\* The hosts of all lists, each once.
LEMMA AllHostsOnce ==
    ASSUME NEW hosts, \A l \in ToSet(HostLists) : List(hosts[l])
    PROVE  /\ List(buildAllHosts(hosts))
           /\ ToSet(buildAllHosts(hosts)) = UNION {ToSet(hosts[l]) : l \in ToSet(HostLists)}
           /\ Len(buildAllHosts(hosts)) = Cardinality(ToSet(buildAllHosts(hosts)))
  <1> DEFINE blocks == [i \in DOMAIN HostLists |-> hosts[HostLists[i]]]
             named == FlattenSeq(blocks)
  <1>1. blocks = [i \in DOMAIN HostLists |-> blocks[i]]
    OBVIOUS
  <1>2. \A i \in DOMAIN HostLists : List(blocks[i]) /\ blocks[i] = hosts[HostLists[i]]
    BY HostListsAre
  <1>3. buildAllHosts(hosts) =
            FoldLeft(LAMBDA s, e : IF Contains(s, e) THEN s ELSE Append(s, e), <<>>, named)
    BY Zenon DEF buildAllHosts
  <1> HIDE DEF blocks
  <1>4. /\ List(named)
        /\ \A r : r \in ToSet(named) <=> \E i \in DOMAIN HostLists : r \in ToSet(blocks[i])
    BY <1>1, <1>2, HostListsAre, Blocks
  <1>5. ToSet(named) = UNION {ToSet(hosts[l]) : l \in ToSet(HostLists)}
    <2>1. ToSet(HostLists) = {HostLists[i] : i \in DOMAIN HostLists}
      BY DEF ToSet
    <2>2. QED
      BY <1>2, <1>4, <2>1
  <1> HIDE DEF named
  <1>6. QED
    BY <1>3, <1>4, <1>5, Distinct

\* The configuration is what is loaded from the environment; a number that does not
\* parse ends the program.
Loaded ==
    /\ env \in Environments /\ cfg = Load(env)
    /\ stage \notin {"load", "exit"} => ~ LoadFails(env)

LEMMA LoadedLists ==
    ASSUME Loaded
    PROVE  \A l \in Lists : List(cfg.hosts[l])
                            /\ ToSet(cfg.hosts[l]) = ToSet(env.lists[l]) \ {Blank}
  <1> SUFFICES ASSUME NEW l \in Lists
               PROVE  List(cfg.hosts[l]) /\ ToSet(cfg.hosts[l]) = ToSet(env.lists[l]) \ {Blank}
    OBVIOUS
  <1>1. cfg.hosts[l] = parseIPList(env.lists[l])
    BY DEF Loaded, Load
  <1>2. List(env.lists[l])
    BY EnvironmentAssumption DEF Loaded, List
  <1>3. QED
    BY <1>1, <1>2, Parsed

LEMMA LoadedHosts ==
    ASSUME Loaded
    PROVE  /\ List(cfg.AllHosts)
           /\ ToSet(cfg.AllHosts)
              = (UNION {ToSet(env.lists[l]) : l \in ToSet(HostLists)}) \ {Blank}
           /\ Len(cfg.AllHosts) = Cardinality(ToSet(cfg.AllHosts))
  <1>1. \A l \in ToSet(HostLists) :
            List(cfg.hosts[l]) /\ ToSet(cfg.hosts[l]) = ToSet(env.lists[l]) \ {Blank}
    BY LoadedLists DEF Lists
  <1>2. cfg.AllHosts = buildAllHosts(cfg.hosts)
    BY DEF Loaded, Load
  <1>3. UNION {ToSet(cfg.hosts[l]) : l \in ToSet(HostLists)}
        = (UNION {ToSet(env.lists[l]) : l \in ToSet(HostLists)}) \ {Blank}
    BY <1>1
  <1>4. QED
    BY <1>1, <1>2, <1>3, AllHostsOnce

LEMMA LoadedNumbers ==
    ASSUME Loaded, stage \notin {"load", "exit"}
    PROVE  \A n \in Numbers : cfg.Thresholds[n] \in Int
  <1> SUFFICES ASSUME NEW n \in Numbers PROVE cfg.Thresholds[n] \in Int
    OBVIOUS
  <1>1. cfg.Thresholds[n] = IF env.numbers[n] = Unset THEN Default[n] ELSE env.numbers[n]
    BY DEF Loaded, Load, parseNumber
  <1>2. env.numbers[n] # Malformed
    BY DEF Loaded, LoadFails
  <1>3. env.numbers[n] \in {Unset, Malformed} \/ env.numbers[n] \in Int
    BY EnvironmentAssumption DEF Loaded
  <1>4. Default[n] \in Int
    BY ConfigAssumption
  <1>5. QED
    BY <1>1, <1>2, <1>3, <1>4

LEMMA ConfigStays == [Next]_vars => UNCHANGED config
  BY DEF Next, Work, Start, CollectAllHosts, CheckServices, EndES, Connections, CollectMySQL,
         CollectRedisStandalone, CollectRedisSentinel, CollectMongo, CollectRabbitMQ,
         CollectReplication, CheckComponents, Collect, Gather, HostAnswers, InServices,
         ProbeES, InES, ProbeDeps, ToolAnswers, LateEnd, InDeps, vars

LEMMA LoadedInit == Init => Loaded
  BY DEF Init, Loaded

\* Main goes beyond Load only by Start, which looks at the numbers.
LEMMA LoadedNext == Loaded /\ [Next]_vars => Loaded'
  <1> SUFFICES ASSUME Loaded, [Next]_vars PROVE Loaded'
    OBVIOUS
  <1>1. UNCHANGED <<env, cfg>>
    BY ConfigStays DEF config
  <1>2. LoadFails(env)' = LoadFails(env)
    BY <1>1
  <1>3. CASE Start
    BY <1>1, <1>2, <1>3 DEF Start, Loaded
  <1>4. CASE ~ Start
    <2>1. stage' \in {"load", "exit"} \/ stage \notin {"load", "exit"}
      BY <1>4 DEF Next, Work, CollectAllHosts, CheckServices, EndES, Connections, CollectMySQL,
         CollectRedisStandalone, CollectRedisSentinel, CollectMongo, CollectRabbitMQ,
         CollectReplication, CheckComponents, Collect, Gather, HostAnswers, InServices,
         ProbeES, InES, ProbeDeps, ToolAnswers, LateEnd, InDeps, vars
    <2>2. QED
      BY <1>1, <1>2, <2>1 DEF Loaded
  <1>5. QED
    BY <1>3, <1>4

LEMMA LoadedAlways == Spec => []Loaded
  BY LoadedInit, LoadedNext, PTL DEF Spec

-----------------------------------------------------------------------------
(* The services *)

LEMMA RepliesOfServices == \A m : ServiceReplies(m) \subseteq Svc!Replies(m)
  BY DEF ServiceReplies, Pick

LEMMA OthersLeaveServices ==
    ASSUME \/ Start \/ CollectAllHosts \/ CheckServices \/ EndES \/ Connections
           \/ CheckComponents \/ ProbeES \/ ProbeDeps \/ ToolAnswers \/ LateEnd
           \/ UNCHANGED vars
    PROVE  UNCHANGED services
  BY DEF Start, CollectAllHosts, CheckServices, EndES, Connections, CollectMySQL,
         CollectRedisStandalone, CollectRedisSentinel, CollectMongo, CollectRabbitMQ,
         CollectReplication, CheckComponents, Collect, ProbeES, InES, ProbeDeps, ToolAnswers,
         LateEnd, InDeps, vars

\* ServiceCollect is instantiated twice, in Collection as Svc and with its proofs as
\* SvcProofs; these lemmas say that both mean the same.
LEMMA SameFlattenSeq == \A s : Svc!FlattenSeq(s) = SvcProofs!FlattenSeq(s)
  BY DEF Svc!FlattenSeq, SvcProofs!FlattenSeq

LEMMA SameRegistry == \A m : Svc!ModuleRegistry(m) = SvcProofs!ModuleRegistry(m)
  BY DEF Svc!ModuleRegistry, SvcProofs!ModuleRegistry, Svc!Sub, SvcProofs!Sub

LEMMA SameSections == \A m : Svc!Sections(m) = SvcProofs!Sections(m)
  <1>1. TAKE m
  <1>2. Svc!ModuleRegistry(m) = SvcProofs!ModuleRegistry(m)
    BY SameRegistry
  <1>3. QED
    BY <1>2, SameFlattenSeq, Zenon DEF Svc!Sections, SvcProofs!Sections

LEMMA SameOutputs == \A m : Svc!Outputs(m) = SvcProofs!Outputs(m)
  <1>1. TAKE m
  <1>2. Svc!Sections(m) = SvcProofs!Sections(m)
    BY SameSections
  <1>3. \A s : Svc!Texts(m, s) = SvcProofs!Texts(m, s)
    BY SameRegistry DEF Svc!Texts, SvcProofs!Texts
  <1>4. {Svc!Texts(m, s) : s \in Svc!ToSet(Svc!Sections(m))}
        = {SvcProofs!Texts(m, s) : s \in SvcProofs!ToSet(SvcProofs!Sections(m))}
    BY <1>2, <1>3 DEF Svc!ToSet, SvcProofs!ToSet
  <1>5. Svc!FullOutputs(m) = SvcProofs!FullOutputs(m)
    BY <1>2, <1>3, <1>4 DEF Svc!FullOutputs, SvcProofs!FullOutputs
  <1>6. Svc!CutOutputs(m) = SvcProofs!CutOutputs(m)
    BY <1>5, Zenon DEF Svc!CutOutputs, SvcProofs!CutOutputs
  <1>7. Svc!Torn = SvcProofs!Torn
    <2>1. Svc!Nothing = SvcProofs!Nothing /\ Svc!Part = SvcProofs!Part
      BY Zenon DEF Svc!Nothing, SvcProofs!Nothing, Svc!Part, SvcProofs!Part
    <2>2. QED
      BY <2>1, Zenon DEF Svc!Torn, SvcProofs!Torn
  <1>8. Svc!TornOutputs(m) = SvcProofs!TornOutputs(m)
    BY <1>6, <1>7 DEF Svc!TornOutputs, SvcProofs!TornOutputs
  <1>9. QED
    BY <1>5, <1>6, <1>8, Zenon DEF Svc!Outputs, SvcProofs!Outputs

LEMMA SameReplies == \A m : Svc!Replies(m) = SvcProofs!Replies(m)
  BY SameOutputs, Zenon DEF Svc!Replies, SvcProofs!Replies, Svc!Silence, SvcProofs!Silence

LEMMA SameReading ==
    /\ \A m, r, s : Svc!Section(m, r, s) = SvcProofs!Section(m, r, s)
    /\ \A skipped, text : Svc!Status(skipped, text) = SvcProofs!Status(skipped, text)
    /\ \A sub, text : Svc!HealthzAPI(sub, text) = SvcProofs!HealthzAPI(sub, text)
    /\ \A text : /\ Svc!Up(text) = SvcProofs!Up(text)
                 /\ Svc!Exited(text) = SvcProofs!Exited(text)
  <1>1. ASSUME NEW m, NEW r, NEW s
        PROVE  Svc!Section(m, r, s) = SvcProofs!Section(m, r, s)
    <2>1. Svc!Sections(m) = SvcProofs!Sections(m)
      BY SameSections
    <2>2. QED
      BY <2>1 DEF Svc!Section, SvcProofs!Section, Svc!Absent, SvcProofs!Absent
  <1>2. \A skipped, text : Svc!Status(skipped, text) = SvcProofs!Status(skipped, text)
    BY DEF Svc!Status, SvcProofs!Status, Svc!Absent, SvcProofs!Absent,
           Svc!Nothing, SvcProofs!Nothing
  <1>3. \A sub, text : Svc!HealthzAPI(sub, text) = SvcProofs!HealthzAPI(sub, text)
    BY DEF Svc!HealthzAPI, SvcProofs!HealthzAPI, Svc!Absent, SvcProofs!Absent,
           Svc!Nothing, SvcProofs!Nothing
  <1>4. \A text : /\ Svc!Up(text) = SvcProofs!Up(text)
                  /\ Svc!Exited(text) = SvcProofs!Exited(text)
    BY DEF Svc!Up, SvcProofs!Up, Svc!Exited, SvcProofs!Exited
  <1>5. QED
    BY <1>1, <1>2, <1>3, <1>4

LEMMA SameEntry ==
    \A m, h, r : Svc!collectServiceOnHost(m, h, r) = SvcProofs!collectServiceOnHost(m, h, r)
  <1>1. TAKE m, h, r
  <1>2. Svc!ModuleRegistry(m) = SvcProofs!ModuleRegistry(m)
    BY SameRegistry
  <1>3. QED
    BY <1>2, SameReading DEF Svc!collectServiceOnHost, SvcProofs!collectServiceOnHost

LEMMA SameOwn == Svc!Own => SvcProofs!Own
  BY SameEntry, Zenon
     DEF Svc!Own, SvcProofs!Own, Svc!Begin, SvcProofs!Begin, Svc!Lock, SvcProofs!Lock,
         Svc!Store, SvcProofs!Store, Svc!Join, SvcProofs!Join, Svc!Jobs, SvcProofs!Jobs,
         Svc!HostOf, SvcProofs!HostOf, Svc!NoReply, SvcProofs!NoReply

LEMMA ServiceSteps == [Next]_vars => [SvcProofs!Next]_SvcProofs!vars
  <1> SUFFICES ASSUME [Next]_vars PROVE [SvcProofs!Next]_SvcProofs!vars
    OBVIOUS
  <1>1. CASE Gather
    BY <1>1, SameOwn DEF Gather, SvcProofs!Next
  <1>2. CASE HostAnswers
    <2>1. PICK j \in DOMAIN at : \E r \in ServiceReplies(j[1]) : Svc!Answer(j, r)
      BY <1>2 DEF HostAnswers
    <2>2. PICK r \in ServiceReplies(j[1]) : Svc!Answer(j, r)
      BY <2>1
    <2>3. r \in SvcProofs!Replies(j[1])
      BY <2>2, RepliesOfServices, SameReplies
    <2>4. SvcProofs!Answer(j, r)
      BY <2>2 DEF Svc!Answer, SvcProofs!Answer
    <2>5. QED
      BY <2>3, <2>4 DEF SvcProofs!Next
  <1>3. CASE UNCHANGED services
    <2>1. UNCHANGED GetModuleHosts(cfg)
      BY ConfigStays DEF config
    <2>2. QED
      BY <1>3, <2>1 DEF services, SvcProofs!vars
  <1>4. QED
    BY <1>1, <1>2, <1>3, OthersLeaveServices DEF Next, Work

LEMMA CollectsServices == Spec => SvcProofs!Spec
  <1>1. Init => SvcProofs!Init
    BY DEF Init, Svc!Init, SvcProofs!Init
  <1>2. QED
    BY <1>1, ServiceSteps, PTL DEF Spec, SvcProofs!Spec

\* The services of a whole collection are gathered as Gather says: main, the other
\* collectors and the rules do not come in between.
THEOREM CollectionGathers == Spec => ServicesGathered
  <1>1. SvcProofs!Gathering!Init => Svc!Gathering!Init
    BY DEF SvcProofs!Gathering!Init, Svc!Gathering!Init
  <1>2. [SvcProofs!Gathering!Next]_SvcProofs!Gathering!vars
        => [Svc!Gathering!Next]_Svc!Gathering!vars
    BY Zenon DEF SvcProofs!Gathering!Next, Svc!Gathering!Next, SvcProofs!Gathering!Open,
       Svc!Gathering!Open, SvcProofs!Gathering!Close, Svc!Gathering!Close,
       SvcProofs!Gathering!Deliver, Svc!Gathering!Deliver, SvcProofs!Gathering!Places,
       Svc!Gathering!Places, SvcProofs!Gathering!vars, Svc!Gathering!vars
  <1>3. QED
    BY <1>1, <1>2, CollectsServices, SvcProofs!ServicesAreGathered, PTL
       DEF ServicesGathered, Svc!Gathering!Spec, SvcProofs!Gathering!Spec

\* No host of a module is missing once its collection is over.
THEOREM CollectionComplete == Spec => []NobodyMissing
  <1>1. SvcProofs!NobodyMissing => NobodyMissing
    BY DEF NobodyMissing, SvcProofs!NobodyMissing, Svc!NobodyMissing, Svc!Jobs, SvcProofs!Jobs,
           Svc!HostOf, SvcProofs!HostOf
  <1>2. QED
    BY <1>1, CollectsServices, SvcProofs!ServicesComplete, PTL

-----------------------------------------------------------------------------
(* The dependencies *)

Verdicts == {[Item |-> Dep!Items[n], Status |-> s] :
                n \in Nat, s \in {"ok", "skip", "fail", "unreachable"}}

\* Verdicts are there only for a platform that has the roles, and all is over for one
\* that has them only when there are some.
DepInv ==
    /\ dependencies \in Seq(Verdicts)
    /\ depPhase = "idle" => dependencies = <<>>
    /\ depPhase \in {"next", "select"} => Dep!Collects(cfg.hosts)
    /\ depPhase = "done" => (dependencies # <<>> <=> Dep!Collects(cfg.hosts))
    /\ stage = "done" => depPhase = "done"

LEMMA Grades ==
    \A item, answer : Dep!Grade(item, answer) \in {"ok", "skip", "fail", "unreachable"}
  BY DEF Dep!Grade

LEMMA Recorded ==
    ASSUME dependencies \in Seq(Verdicts), NEW s \in {"ok", "skip", "fail", "unreachable"},
           Dep!Record(s)
    PROVE  /\ dependencies' \in Seq(Verdicts) /\ dependencies' # <<>>
           /\ Dep!IsPrefix(dependencies, dependencies')
  <1> DEFINE v == [Item |-> Dep!Items[Len(dependencies) + 1], Status |-> s]
  <1>1. v \in Verdicts
    BY DEF Verdicts
  <1>2. dependencies' = Append(dependencies, v)
    BY DEF Dep!Record, Dep!Item
  <1> HIDE DEF v
  <1>3. QED
    BY <1>1, <1>2 DEF Dep!IsPrefix

LEMMA OthersLeaveDeps ==
    ASSUME \/ Start \/ CollectAllHosts \/ CheckServices \/ EndES \/ Connections
           \/ CheckComponents \/ Gather \/ ProbeES \/ HostAnswers \/ UNCHANGED vars
    PROVE  UNCHANGED deps
  BY DEF Start, CollectAllHosts, CheckServices, EndES, Connections, CollectMySQL,
         CollectRedisStandalone, CollectRedisSentinel, CollectMongo, CollectRabbitMQ,
         CollectReplication, CheckComponents, Collect, Gather, ProbeES, InES, HostAnswers,
         InServices, vars

\* What each step does to the verdicts and to the phase.
LEMMA DepStep ==
    ASSUME DepInv, [Next]_vars
    PROVE  \/ UNCHANGED <<depPhase, dependencies>>
           \/ UNCHANGED <<dependencies, stage>> /\ Dep!Begin
           \/ UNCHANGED <<dependencies, stage>> /\ depPhase = "next" /\ depPhase' = "select"
           \/ UNCHANGED <<dependencies, stage>> /\ stage = "deps" /\ depPhase' = "panicked"
           \/ /\ \E s \in {"ok", "skip", "fail", "unreachable"} : Dep!Record(s)
              /\ depPhase \in {"next", "select"} /\ depPhase' \in {"next", "done"}
              /\ stage = "deps" /\ stage' = "deps"
  <1>1. CASE ProbeDeps
    <2>1. stage = "deps" /\ stage' = "deps"
      BY <1>1 DEF ProbeDeps, InDeps
    <2>2. CASE Dep!Begin \/ Dep!Launch \/ Dep!TimeoutBeforeStart
      BY <2>1, <2>2 DEF Dep!Begin, Dep!Launch, Dep!TimeoutBeforeStart
    <2>3. CASE Dep!Skip \/ Dep!NoTool \/ (\E a \in DepAnswers : Dep!Connect(a))
               \/ Dep!Receive \/ Dep!Timeout
      BY <2>1, <2>3, Grades
         DEF Dep!Skip, Dep!NoTool, Dep!Connect, Dep!Receive, Dep!Timeout, Dep!GoOn
    <2>4. QED
      BY <1>1, <2>2, <2>3 DEF ProbeDeps, Dep!Main, Dep!Lag
  <1>2. CASE ToolAnswers \/ LateEnd
    BY <1>2 DEF ToolAnswers, Dep!Tool, Dep!Started, Dep!StartFailed, Dep!Ended,
                LateEnd, Dep!LateEnd
  <1>3. CASE UNCHANGED deps
    BY <1>3 DEF deps
  <1>4. QED
    BY <1>1, <1>2, <1>3, OthersLeaveDeps DEF Next, Work

\* Main is done only by its last step, after the probes.
LEMMA LastStep == [Next]_vars /\ stage' = "done" => stage = "done" \/ CheckComponents
  BY DEF Next, Work, Start, CollectAllHosts, CheckServices, EndES, Connections, CollectMySQL,
         CollectRedisStandalone, CollectRedisSentinel, CollectMongo, CollectRabbitMQ,
         CollectReplication, Collect, Gather, HostAnswers, InServices,
         ProbeES, InES, ProbeDeps, ToolAnswers, LateEnd, InDeps, vars

LEMMA DepInit == Init => DepInv
  BY DEF Init, Dep!Init, DepInv

LEMMA DepNext == DepInv /\ [Next]_vars => DepInv'
  <1> SUFFICES ASSUME DepInv, [Next]_vars PROVE DepInv'
    OBVIOUS
  <1>1. cfg' = cfg
    BY ConfigStays DEF config
  <1>2. Verdicts' = Verdicts /\ Dep!Collects(cfg.hosts)' = Dep!Collects(cfg.hosts)
    BY <1>1 DEF Verdicts, Dep!Collects, Dep!Items
  <1>3. CASE UNCHANGED <<depPhase, dependencies>>
    <2>1. stage' = "done" => depPhase' = "done"
      BY <1>3, LastStep DEF DepInv, CheckComponents
    <2>2. QED
      BY <1>2, <1>3, <2>1 DEF DepInv
  <1>4. CASE UNCHANGED <<dependencies, stage>> /\ Dep!Begin
    BY <1>2, <1>4 DEF DepInv, Dep!Begin
  <1>5. CASE UNCHANGED <<dependencies, stage>> /\ depPhase = "next" /\ depPhase' = "select"
    BY <1>2, <1>5 DEF DepInv
  <1>6. CASE UNCHANGED <<dependencies, stage>> /\ stage = "deps" /\ depPhase' = "panicked"
    BY <1>2, <1>6 DEF DepInv
  <1>7. CASE /\ \E s \in {"ok", "skip", "fail", "unreachable"} : Dep!Record(s)
             /\ depPhase \in {"next", "select"} /\ depPhase' \in {"next", "done"}
             /\ stage = "deps" /\ stage' = "deps"
    <2>1. dependencies' \in Seq(Verdicts) /\ dependencies' # <<>>
      BY <1>7, Recorded DEF DepInv
    <2>2. QED
      BY <1>2, <1>7, <2>1 DEF DepInv
  <1>8. QED
    BY <1>3, <1>4, <1>5, <1>6, <1>7, DepStep

LEMMA DepAlways == Spec => []DepInv
  BY DepInit, DepNext, PTL DEF Spec

\* config.go and bkmonitor_dep.go ask whether bkmonitorv3 is deployed in different
\* words, and mean the same.
LEMMA RolesDeployed ==
    Dep!Collects(cfg.hosts) <=> \E m \in MonitorRoles : GetModuleHosts(cfg)[m] # <<>>
  BY DEF Dep!Collects, GetModuleHosts, Modules, MonitorRoles

\* The dependencies are probed exactly when a role of bkmonitorv3 has a host.
THEOREM DependenciesProbed == Spec => []DepsIffRoles
  <1>1. DepInv => DepsIffRoles
    BY RolesDeployed DEF DepInv, DepsIffRoles, Judged
  <1>2. QED
    BY <1>1, DepAlways, PTL

\* The verdict on a dependency is given once and stands, whatever its command still
\* says after the timer.
THEOREM VerdictsStand == Spec => DepsSettle
  <1>1. DepInv /\ [Next]_vars => [Dep!IsPrefix(dependencies, dependencies')]_Dep!vars
    <2> SUFFICES ASSUME DepInv, [Next]_vars
                 PROVE  Dep!IsPrefix(dependencies, dependencies')
      OBVIOUS
    <2>1. CASE UNCHANGED dependencies
      BY <2>1 DEF DepInv, Dep!IsPrefix
    <2>2. CASE \E s \in {"ok", "skip", "fail", "unreachable"} : Dep!Record(s)
      BY <2>2, Recorded DEF DepInv
    <2>3. QED
      BY <2>1, <2>2, DepStep
  <1>2. QED
    BY <1>1, DepAlways, PTL DEF Spec, DepsSettle, Dep!DepsSettle

LEMMA ItemsAre ==
    /\ Len(Dep!Items) = 6 /\ DOMAIN Dep!Items = 1 .. 6
    /\ Dep!ToSet(Dep!Items) = {Dep!Items[k] : k \in 1 .. 6}
    /\ \A j, k \in 1 .. 6 : Dep!Items[j] = Dep!Items[k] => j = k
  <1>1. Len(Dep!Items) = 6 /\ DOMAIN Dep!Items = 1 .. 6
    BY DEF Dep!Items
  <1>2. Dep!ToSet(Dep!Items) = {Dep!Items[k] : k \in 1 .. 6}
    BY <1>1, Zenon DEF Dep!ToSet
  <1>3. \A j, k \in 1 .. 6 : Dep!Items[j] = Dep!Items[k] => j = k
    BY DEF Dep!Items
  <1>4. QED
    BY <1>1, <1>2, <1>3

\* The verdicts are on the first items, in their order; the commands of the others have
\* not begun, but for the one main waits for.  A command that is still running when its
\* verdict is given, or that failed, has a bad one.
Bad == {"fail", "unreachable"}
Named == {Dep!Items[k] : k \in 1 .. 6}
Running == {"forked", "started"}

DepTold ==
    /\ Len(dependencies) <= 6
    /\ depPhase \in {"next", "select"} => Len(dependencies) < 6
    /\ DOMAIN process = Named /\ DOMAIN chan = Named
    /\ \A k \in 1 .. Len(dependencies) :
        /\ dependencies[k].Item = Dep!Items[k]
        /\ process[Dep!Items[k]] = "started" \/ chan[Dep!Items[k]] = "error"
            => dependencies[k].Status \in Bad
    /\ \A k \in Len(dependencies) + 1 .. 6 :
        depPhase \in {"idle", "next"} \/ k # Len(dependencies) + 1 =>
            process[Dep!Items[k]] = "none" /\ chan[Dep!Items[k]] = Dep!NoAnswer
    /\ \A i \in Named : process[i] \in Running => chan[i] = Dep!NoAnswer

LEMMA ErrorIsBad == \A item : Dep!Grade(item, "error") \in Bad
  BY DEF Dep!Grade, Bad

LEMMA NoAnswerIs == Dep!NoAnswer \notin Dep!Answers
  BY Zenon DEF Dep!NoAnswer, Dep!Answers

LEMMA DepToldInit == Init => DepTold
  <1> SUFFICES ASSUME Init PROVE DepTold
    OBVIOUS
  <1>1. /\ dependencies = <<>> /\ depPhase = "idle"
        /\ process = [i \in Dep!ToSet(Dep!Items) |-> "none"]
        /\ chan = [i \in Dep!ToSet(Dep!Items) |-> Dep!NoAnswer]
    BY DEF Init, Dep!Init
  <1>2. /\ process = [i \in Named |-> "none"] /\ chan = [i \in Named |-> Dep!NoAnswer]
        /\ \A k \in 1 .. 6 : Dep!Items[k] \in Named
    BY <1>1, ItemsAre DEF Named
  <1> HIDE DEF Named
  <1>3. Len(dependencies) = 0
    BY <1>1
  <1>4. \A i \in Named : process[i] = "none" /\ chan[i] = Dep!NoAnswer
    BY <1>2
  <1>5. \A k \in 1 .. Len(dependencies) : FALSE
    BY <1>3
  <1>6. QED
    BY <1>1, <1>2, <1>3, <1>4, <1>5 DEF DepTold, Running

\* A verdict fits what is known of the command it is given on.
LEMMA DepToldRecord ==
    ASSUME dependencies \in Seq(Verdicts), DepTold, depPhase \in {"next", "select"},
           NEW item, item = Dep!Items[Len(dependencies) + 1],
           NEW s \in {"ok", "skip", "fail", "unreachable"},
           dependencies' = Append(dependencies, [Item |-> item, Status |-> s]),
           depPhase' = IF Len(dependencies) + 1 = 6 THEN "done" ELSE "next",
           process' = process, DOMAIN chan' = DOMAIN chan,
           \A i \in Named : i # item => chan'[i] = chan[i],
           process[item] = "started" \/ chan'[item] = "error" => s \in Bad,
           process[item] \in Running => chan'[item] = Dep!NoAnswer
    PROVE  DepTold'
  <1> DEFINE n == Len(dependencies)
             d == [Item |-> item, Status |-> s]
  <1>1. n \in Nat /\ n < 6
    BY DEF DepTold
  <1>2. d \in Verdicts
    <2>1. n + 1 \in Nat
      BY <1>1
    <2> HIDE DEF n
    <2>2. QED
      BY <2>1 DEF Verdicts, n
  <1>3. dependencies' = Append(dependencies, d)
    OBVIOUS
  <1>4. d.Item = Dep!Items[n + 1] /\ d.Status = s /\ item = Dep!Items[n + 1]
    OBVIOUS
  <1> HIDE DEF d
  <1> HIDE DEF n
  <1>5. /\ Len(dependencies') = n + 1
        /\ dependencies'[n + 1] = d
        /\ \A k \in 1 .. n : dependencies'[k] = dependencies[k]
    BY <1>1, <1>2, <1>3, AppendProperties DEF n
  <1>6. depPhase' \in {"next", "done"} /\ (depPhase' = "next" => n + 1 < 6)
    BY <1>1 DEF n
  <1>7. \A k \in 1 .. 6 : Dep!Items[k] \in Named
    BY DEF Named
  <1>8. \A k \in 1 .. 6 : k # n + 1 => chan'[Dep!Items[k]] = chan[Dep!Items[k]]
    <2>1. \A k \in 1 .. 6 : k # n + 1 => Dep!Items[k] # Dep!Items[n + 1]
      BY <1>1, ItemsAre
    <2>2. QED
      BY <1>4, <1>7, <2>1
  <1>9. Named' = Named
    BY DEF Named, Dep!Items
  <1>10. \A k \in 1 .. n + 1 :
            /\ dependencies'[k].Item = Dep!Items[k]
            /\ process'[Dep!Items[k]] = "started" \/ chan'[Dep!Items[k]] = "error"
                => dependencies'[k].Status \in Bad
    <2> SUFFICES ASSUME NEW k \in 1 .. n + 1
                 PROVE  /\ dependencies'[k].Item = Dep!Items[k]
                        /\ process'[Dep!Items[k]] = "started" \/ chan'[Dep!Items[k]] = "error"
                            => dependencies'[k].Status \in Bad
      OBVIOUS
    <2>1. CASE k = n + 1
      BY <1>4, <1>5, <2>1
    <2>2. CASE k # n + 1
      <3>1. k \in 1 .. n /\ k \in 1 .. 6
        BY <1>1, <2>2
      <3>2. QED
        BY <1>5, <1>8, <2>2, <3>1 DEF DepTold, n
    <2>3. QED
      BY <2>1, <2>2
  <1>11. ASSUME NEW k \in n + 2 .. 6
         PROVE  process'[Dep!Items[k]] = "none" /\ chan'[Dep!Items[k]] = Dep!NoAnswer
    <2>1. k \in n + 1 .. 6 /\ k # n + 1 /\ k \in 1 .. 6
      BY <1>1
    <2>2. QED
      BY <1>8, <2>1 DEF DepTold, n
  <1>12. \A i \in Named : process'[i] \in Running => chan'[i] = Dep!NoAnswer
    BY DEF DepTold
  <1>13. Len(dependencies') + 1 .. 6 = n + 2 .. 6
    BY <1>1, <1>5
  <1>14. /\ Len(dependencies') <= 6
         /\ depPhase' \in {"next", "select"} => Len(dependencies') < 6
    BY <1>1, <1>5, <1>6
  <1>15. DOMAIN process' = Named /\ DOMAIN chan' = Named
    BY DEF DepTold
  <1> HIDE DEF Named
  <1>16. QED
    BY <1>5, <1>9, <1>10, <1>11, <1>12, <1>13, <1>14, <1>15 DEF DepTold, Running, Bad

\* Giving a verdict, however it comes about.
LEMMA DepToldVerdict ==
    ASSUME DepInv, DepTold, depPhase \in {"next", "select"}, NEW item, item = Dep!Item,
           NEW s \in {"ok", "skip", "fail", "unreachable"}, Dep!Record(s), Dep!GoOn,
           process' = process, DOMAIN chan' = DOMAIN chan,
           \A i \in Named : i # item => chan'[i] = chan[i],
           process[item] = "started" \/ chan'[item] = "error" => s \in Bad,
           process[item] \in Running => chan'[item] = Dep!NoAnswer
    PROVE  DepTold'
  <1>1. dependencies \in Seq(Verdicts)
    BY DEF DepInv
  <1>2. item = Dep!Items[Len(dependencies) + 1]
    BY DEF Dep!Item
  <1>3. dependencies' = Append(dependencies, [Item |-> item, Status |-> s])
    BY DEF Dep!Record
  <1>4. depPhase' = IF Len(dependencies) + 1 = 6 THEN "done" ELSE "next"
    BY ItemsAre DEF Dep!GoOn
  <1>5. QED
    BY <1>1, <1>2, <1>3, <1>4, DepToldRecord, Zenon

LEMMA ItemIs ==
    ASSUME DepInv, DepTold, depPhase \in {"next", "select"}
    PROVE  /\ Dep!Item \in Named
           /\ depPhase = "next" => process[Dep!Item] = "none" /\ chan[Dep!Item] = Dep!NoAnswer
  <1> DEFINE n == Len(dependencies)
  <1>1. n \in Nat /\ n < 6
    BY DEF DepInv, DepTold
  <1>2. n + 1 \in 1 .. 6 /\ n + 1 \in n + 1 .. 6
    BY <1>1
  <1>3. Dep!Item = Dep!Items[n + 1] /\ Dep!Item \in Named
    BY <1>2 DEF Dep!Item, Named
  <1>4. QED
    BY <1>2, <1>3 DEF DepTold

\* Steps of the commands, while none is judged.
LEMMA DepToldTool ==
    ASSUME DepInv, DepTold, depPhase \in {"next", "select"}, depPhase' \in {"select", "panicked"},
           UNCHANGED dependencies, NEW item, item = Dep!Item,
           DOMAIN process' = DOMAIN process, DOMAIN chan' = DOMAIN chan,
           \A i \in Named : i # item => process'[i] = process[i] /\ chan'[i] = chan[i],
           process'[item] \in Running => chan'[item] = Dep!NoAnswer
    PROVE  DepTold'
  <1> DEFINE n == Len(dependencies)
  <1>1. n \in Nat /\ n < 6
    BY DEF DepInv, DepTold
  <1>2. item = Dep!Items[n + 1]
    BY DEF Dep!Item
  <1>3. \A k \in 1 .. 6 : k # n + 1 => Dep!Items[k] \in Named /\ Dep!Items[k] # item
    <2>1. n + 1 \in 1 .. 6
      BY <1>1
    <2>2. QED
      BY <1>2, <2>1, ItemsAre DEF Named
  <1>4. (\A k \in 1 .. n : k \in 1 .. 6 /\ k # n + 1)
        /\ (\A k \in n + 1 .. 6 : k # n + 1 => k \in 1 .. 6)
    BY <1>1
  <1>5. Named' = Named /\ Len(dependencies') = n
    BY DEF Named, Dep!Items
  <1>6. ASSUME NEW k \in 1 .. n
        PROVE  /\ dependencies'[k].Item = Dep!Items[k]
               /\ process'[Dep!Items[k]] = "started" \/ chan'[Dep!Items[k]] = "error"
                    => dependencies'[k].Status \in Bad
    BY <1>3, <1>4 DEF DepTold
  <1>7. ASSUME NEW k \in n + 1 .. 6, k # n + 1
        PROVE  process'[Dep!Items[k]] = "none" /\ chan'[Dep!Items[k]] = Dep!NoAnswer
    BY <1>3, <1>4, <1>7 DEF DepTold
  <1>8. \A i \in Named : process'[i] \in Running => chan'[i] = Dep!NoAnswer
    BY DEF DepTold
  <1>9. DOMAIN process' = Named /\ DOMAIN chan' = Named
    BY DEF DepTold
  <1> HIDE DEF n, Named
  <1>10. n <= 6 /\ n < 6
    BY <1>1
  <1>11. QED
    BY <1>5, <1>6, <1>7, <1>8, <1>9, <1>10 DEF DepTold, Running, Bad, n

LEMMA DepToldLate ==
    ASSUME DepInv, DepTold, NEW i, Dep!LateEnd(i)
    PROVE  DepTold'
  <1>1. PICK k \in 1 .. Len(dependencies) : i = dependencies[k].Item
    BY DEF DepInv, Dep!LateEnd, Dep!Judged
  <1>2. i = Dep!Items[k] /\ Len(dependencies) \in Nat /\ Len(dependencies) <= 6 /\ k \in 1 .. 6
    BY <1>1 DEF DepInv, DepTold
  <1>3. i \in Named /\ Named' = Named
    BY <1>2 DEF Named, Dep!Items
  <1>4. /\ process[i] = "started"
        /\ process' = [process EXCEPT ![i] = "ended"] /\ chan' = [chan EXCEPT ![i] = "error"]
        /\ UNCHANGED <<dependencies, depPhase>>
    BY DEF Dep!LateEnd, Dep!Ended
  <1>5. /\ DOMAIN process' = Named /\ DOMAIN chan' = Named
        /\ process'[i] = "ended" /\ chan'[i] = "error"
        /\ \A m \in Named : m # i => process'[m] = process[m] /\ chan'[m] = chan[m]
    BY <1>3, <1>4 DEF DepTold
  <1>6. \A m \in 1 .. 6 : Dep!Items[m] \in Named /\ (m # k => Dep!Items[m] # i)
    BY <1>2, ItemsAre DEF Named
  <1>7. dependencies[k].Status \in Bad
    BY <1>1, <1>2, <1>4 DEF DepTold
  <1>8. ASSUME NEW m \in 1 .. Len(dependencies)
        PROVE  /\ dependencies'[m].Item = Dep!Items[m]
               /\ process'[Dep!Items[m]] = "started" \/ chan'[Dep!Items[m]] = "error"
                    => dependencies'[m].Status \in Bad
    <2>1. m \in 1 .. 6
      BY <1>2
    <2>2. QED
      BY <1>4, <1>5, <1>6, <1>7, <2>1 DEF DepTold
  <1>9. ASSUME NEW m \in Len(dependencies) + 1 .. 6
        PROVE  process'[Dep!Items[m]] = process[Dep!Items[m]]
               /\ chan'[Dep!Items[m]] = chan[Dep!Items[m]]
    <2>1. m \in 1 .. 6 /\ m # k
      BY <1>1, <1>2
    <2>2. QED
      BY <1>5, <1>6, <2>1
  <1>10. \A m \in Named : process'[m] \in Running => chan'[m] = Dep!NoAnswer
    BY <1>5 DEF DepTold, Running
  <1> HIDE DEF Named
  <1>11. QED
    BY <1>3, <1>4, <1>5, <1>8, <1>9, <1>10 DEF DepTold, Running, Bad

LEMMA DepToldMain ==
    ASSUME DepInv, DepTold, ProbeDeps
    PROVE  DepTold'
  <1>1. CASE Dep!Begin
    BY <1>1 DEF DepTold, DepInv, Dep!Begin, Named, Running, Bad
  <1>2. CASE Dep!Skip
    BY <1>2, DepToldVerdict, ItemIs, NoAnswerIs DEF Dep!Skip, Dep!Answers, Bad, Running
  <1>3. CASE Dep!NoTool
    BY <1>3, DepToldVerdict, ItemIs, NoAnswerIs DEF Dep!NoTool, Dep!Answers, Bad, Running
  <1>4. ASSUME NEW a, Dep!Connect(a) PROVE DepTold'
    <2> DEFINE item == Dep!Item
               s == Dep!Grade(item, a)
    <2>1. /\ depPhase = "next" /\ Dep!Record(s) /\ Dep!GoOn /\ process' = process
          /\ chan' = [chan EXCEPT ![item] = a]
      BY <1>4 DEF Dep!Connect
    <2>2. s \in {"ok", "skip", "fail", "unreachable"} /\ (a = "error" => s \in Bad)
      BY Grades, ErrorIsBad
    <2>3. item \in Named /\ process[item] = "none" /\ DOMAIN chan = Named
      BY <2>1, ItemIs DEF DepTold
    <2> HIDE DEF s, item
    <2>4. /\ DOMAIN chan' = DOMAIN chan /\ chan'[item] = a
          /\ \A i \in Named : i # item => chan'[i] = chan[i]
      BY <2>1, <2>3
    <2>5. /\ process[item] = "started" \/ chan'[item] = "error" => s \in Bad
          /\ process[item] \notin Running
      BY <2>2, <2>3, <2>4 DEF Running
    <2>6. item = Dep!Item
      BY DEF item
    <2>7. QED
      BY <2>1, <2>2, <2>4, <2>5, <2>6, DepToldVerdict
  <1>5. CASE Dep!Launch
    BY <1>5, DepToldTool, ItemIs DEF Dep!Launch
  <1>6. CASE Dep!Receive
    <2> DEFINE item == Dep!Item
               s == Dep!Grade(item, chan[item])
    <2>1. /\ depPhase = "select" /\ Dep!Record(s) /\ Dep!GoOn
          /\ process' = process /\ chan' = chan /\ chan[item] # Dep!NoAnswer
      BY <1>6 DEF Dep!Receive
    <2>2. s \in {"ok", "skip", "fail", "unreachable"} /\ (chan[item] = "error" => s \in Bad)
      BY Grades, ErrorIsBad
    <2>3. process[item] \notin Running
      BY <2>1, ItemIs DEF DepTold
    <2> HIDE DEF s
    <2>4. QED
      BY <2>1, <2>2, <2>3, DepToldVerdict DEF Running
  <1>7. CASE Dep!Timeout
    <2> DEFINE item == Dep!Item
               s == Dep!Grade(item, "error")
    <2>1. /\ depPhase = "select" /\ Dep!Record(s) /\ Dep!GoOn
          /\ process' = process /\ chan' = chan
      BY <1>7 DEF Dep!Timeout
    <2>2. s \in {"ok", "skip", "fail", "unreachable"} /\ s \in Bad
      BY ErrorIsBad DEF Bad
    <2>3. process[item] \in Running => chan[item] = Dep!NoAnswer
      BY <2>1, ItemIs DEF DepTold
    <2> HIDE DEF s
    <2>4. QED
      BY <2>1, <2>2, <2>3, DepToldVerdict
  <1>8. CASE Dep!TimeoutBeforeStart
    <2>1. /\ depPhase = "select" /\ depPhase' = "panicked"
          /\ UNCHANGED <<dependencies, process, chan>>
      BY <1>8 DEF Dep!TimeoutBeforeStart
    <2>2. process[Dep!Item] \in Running => chan[Dep!Item] = Dep!NoAnswer
      BY <2>1, ItemIs DEF DepTold
    <2>3. QED
      BY <2>1, <2>2, DepToldTool
  <1>9. QED
    BY <1>1, <1>2, <1>3, <1>4, <1>5, <1>6, <1>7, <1>8 DEF ProbeDeps, Dep!Main, Dep!Lag

LEMMA DepToldNext == DepInv /\ DepTold /\ [Next]_vars => DepTold'
  <1> SUFFICES ASSUME DepInv, DepTold, [Next]_vars PROVE DepTold'
    OBVIOUS
  <1>1. CASE ProbeDeps
    BY <1>1, DepToldMain
  <1>2. CASE ToolAnswers
    <2> DEFINE item == Dep!Item
    <2>1. depPhase = "select" /\ DOMAIN process = Named /\ DOMAIN chan = Named /\ item \in Named
      BY <1>2, ItemIs DEF ToolAnswers, Dep!Tool, DepTold
    <2>2. CASE Dep!Started(item)
      <3>1. /\ process[item] = "forked" /\ process' = [process EXCEPT ![item] = "started"]
            /\ UNCHANGED <<depPhase, dependencies, chan>>
        BY <2>2 DEF Dep!Started
      <3>2. chan[item] = Dep!NoAnswer
        BY <2>1, <3>1 DEF DepTold, Running
      <3> HIDE DEF item
      <3>3. /\ DOMAIN process' = DOMAIN process
            /\ \A i \in Named : i # item => process'[i] = process[i]
        BY <2>1, <3>1
      <3>4. item = Dep!Item
        BY DEF item
      <3>5. QED
        BY <2>1, <3>1, <3>2, <3>3, <3>4, DepToldTool
    <2>3. ASSUME NEW to \in {"failed", "ended"}, NEW a,
                 process' = [process EXCEPT ![item] = to], chan' = [chan EXCEPT ![item] = a],
                 UNCHANGED <<depPhase, dependencies>>
          PROVE  DepTold'
      <3>1. item = Dep!Item
        OBVIOUS
      <3> HIDE DEF item
      <3>2. /\ DOMAIN process' = DOMAIN process /\ DOMAIN chan' = DOMAIN chan
            /\ \A i \in Named : i # item => process'[i] = process[i] /\ chan'[i] = chan[i]
            /\ process'[item] \notin Running
        BY <2>1, <2>3 DEF Running
      <3>3. QED
        BY <2>1, <2>3, <3>1, <3>2, DepToldTool
    <2>4. QED
      BY <1>2, <2>2, <2>3 DEF ToolAnswers, Dep!Tool, Dep!StartFailed, Dep!Ended
  <1>3. CASE LateEnd
    BY <1>3, DepToldLate DEF LateEnd
  <1>4. CASE UNCHANGED deps
    BY <1>4 DEF deps, DepTold, Named, Running, Bad
  <1>5. QED
    BY <1>1, <1>2, <1>3, <1>4, OthersLeaveDeps DEF Next, Work

LEMMA DepToldAlways == Spec => []DepTold
  BY DepToldInit, DepToldNext, DepAlways, PTL DEF Spec

\* A verdict that is "ok" was earned by an answer.
Earned(item, answer) == answer \in Dep!Answers /\ Dep!Grade(item, answer) = "ok"

DepEarned ==
    /\ \A i \in Named : chan[i] \in Dep!Answers \cup {Dep!NoAnswer}
    /\ \A k \in 1 .. Len(dependencies) :
        dependencies[k].Status = "ok" => Earned(Dep!Items[k], chan[Dep!Items[k]])

LEMMA BadIsNotOk == "ok" \notin Bad
  BY DEF Bad

LEMMA EarnedVerdict ==
    ASSUME DepInv, DepTold, DepEarned, depPhase \in {"next", "select"},
           NEW item, item = Dep!Item, NEW s \in {"ok", "skip", "fail", "unreachable"},
           Dep!Record(s), \A i \in Named : i # item => chan'[i] = chan[i],
           chan'[item] \in Dep!Answers \cup {Dep!NoAnswer}, s = "ok" => Earned(item, chan'[item])
    PROVE  DepEarned'
  <1> DEFINE n == Len(dependencies)
             d == [Item |-> item, Status |-> s]
  <1>1. n \in Nat /\ n < 6 /\ dependencies \in Seq(Verdicts)
    BY DEF DepInv, DepTold
  <1>2. item = Dep!Items[n + 1] /\ dependencies' = Append(dependencies, d) /\ d.Status = s
    BY DEF Dep!Record, Dep!Item
  <1>3. d \in Verdicts
    <2>1. n + 1 \in Nat
      BY <1>1
    <2> HIDE DEF n
    <2>2. QED
      BY <1>2, <2>1 DEF Verdicts
  <1> HIDE DEF d
  <1>4. /\ Len(dependencies') = n + 1 /\ dependencies'[n + 1] = d
        /\ \A k \in 1 .. n : dependencies'[k] = dependencies[k]
    BY <1>1, <1>2, <1>3, AppendProperties
  <1>5. /\ \A k \in 1 .. 6 : Dep!Items[k] \in Named
        /\ \A k \in 1 .. 6 : k # n + 1 => Dep!Items[k] # item
    <2>1. n + 1 \in 1 .. 6
      BY <1>1
    <2> HIDE DEF n
    <2>2. QED
      BY <1>2, <2>1, ItemsAre DEF Named
  <1> HIDE DEF n
  <1>6. ASSUME NEW k \in 1 .. n + 1, dependencies'[k].Status = "ok"
        PROVE  Earned(Dep!Items[k], chan'[Dep!Items[k]])
    <2>1. CASE k = n + 1
      BY <1>2, <1>4, <1>6, <2>1
    <2>2. CASE k # n + 1
      <3>1. k \in 1 .. n /\ k \in 1 .. 6
        BY <1>1, <2>2
      <3>2. chan'[Dep!Items[k]] = chan[Dep!Items[k]]
        BY <1>5, <2>2, <3>1
      <3>3. dependencies[k].Status = "ok"
        BY <1>4, <1>6, <3>1
      <3>4. QED
        BY <3>1, <3>2, <3>3 DEF DepEarned, n
    <2>3. QED
      BY <2>1, <2>2
  <1>7. \A i \in Named : chan'[i] \in Dep!Answers \cup {Dep!NoAnswer}
    BY DEF DepEarned
  <1>8. Named' = Named
    BY DEF Named, Dep!Items
  <1>9. QED
    BY <1>4, <1>6, <1>7, <1>8 DEF DepEarned

LEMMA EarnedStays ==
    ASSUME DepInv, DepTold, DepEarned, UNCHANGED dependencies, NEW item,
           \A i \in Named : i # item => chan'[i] = chan[i],
           chan'[item] \in Dep!Answers \cup {Dep!NoAnswer},
           \A k \in 1 .. Len(dependencies) : Dep!Items[k] = item => dependencies[k].Status # "ok"
    PROVE  DepEarned'
  <1>1. \A k \in 1 .. Len(dependencies) : k \in 1 .. 6
    BY DEF DepInv, DepTold
  <1>2. \A k \in 1 .. Len(dependencies) : Dep!Items[k] \in Named
    BY <1>1 DEF Named
  <1>3. Named' = Named
    BY DEF Named, Dep!Items
  <1>4. \A i \in Named : chan'[i] \in Dep!Answers \cup {Dep!NoAnswer}
    BY DEF DepEarned
  <1>5. ASSUME NEW k \in 1 .. Len(dependencies), dependencies[k].Status = "ok"
        PROVE  Earned(Dep!Items[k], chan'[Dep!Items[k]])
    <2>1. chan'[Dep!Items[k]] = chan[Dep!Items[k]]
      BY <1>2, <1>5
    <2>2. QED
      BY <1>5, <2>1 DEF DepEarned
  <1>6. QED
    BY <1>3, <1>4, <1>5 DEF DepEarned

LEMMA AnswersAre == DepAnswers \subseteq Dep!Answers /\ "error" \in Dep!Answers
  BY DEF DepAnswers, Pick, Dep!Answers

\* While main waits for an item, none of the verdicts is on it.
LEMMA NotYetJudged ==
    ASSUME DepInv, DepTold, depPhase \in {"next", "select"}
    PROVE  \A k \in 1 .. Len(dependencies) : Dep!Items[k] # Dep!Item
  <1> DEFINE n == Len(dependencies)
  <1>1. n \in Nat /\ n < 6
    BY DEF DepInv, DepTold
  <1>2. n + 1 \in 1 .. 6 /\ \A k \in 1 .. n : k \in 1 .. 6 /\ k # n + 1
    BY <1>1
  <1>3. Dep!Item = Dep!Items[n + 1]
    BY DEF Dep!Item
  <1> HIDE DEF n
  <1>4. \A k \in 1 .. n : Dep!Items[k] # Dep!Item
    BY <1>2, <1>3, ItemsAre
  <1>5. QED
    BY <1>4 DEF n

LEMMA EarnedMain ==
    ASSUME DepInv, DepTold, DepEarned, ProbeDeps
    PROVE  DepEarned'
  <1> DEFINE item == Dep!Item
  <1>1. depPhase \in {"next", "select"} =>
            /\ item \in Named /\ DOMAIN chan = Named
            /\ chan[item] \in Dep!Answers \cup {Dep!NoAnswer}
    BY ItemIs DEF DepTold, DepEarned
  <1>2. CASE UNCHANGED <<dependencies, chan>>
    BY <1>2 DEF DepEarned, Named
  <1>3. CASE Dep!Skip \/ Dep!NoTool \/ Dep!Timeout
    <2>1. PICK s \in {"skip"} \cup Bad : Dep!Record(s)
      BY <1>3, ErrorIsBad DEF Dep!Skip, Dep!NoTool, Dep!Timeout, Bad
    <2>2. depPhase \in {"next", "select"} /\ chan' = chan
      BY <1>3 DEF Dep!Skip, Dep!NoTool, Dep!Timeout
    <2>3. s \in {"ok", "skip", "fail", "unreachable"} /\ s # "ok"
      BY DEF Bad
    <2> HIDE DEF item
    <2>4. item = Dep!Item
      BY DEF item
    <2>5. QED
      BY <1>1, <2>1, <2>2, <2>3, <2>4, EarnedVerdict
  <1>4. ASSUME NEW a \in DepAnswers, Dep!Connect(a) PROVE DepEarned'
    <2>1. /\ depPhase = "next" /\ Dep!Record(Dep!Grade(item, a))
          /\ chan' = [chan EXCEPT ![item] = a]
      BY <1>4 DEF Dep!Connect
    <2>2. a \in Dep!Answers /\ Dep!Grade(item, a) \in {"ok", "skip", "fail", "unreachable"}
      BY AnswersAre, Grades
    <2>3. item = Dep!Item
      OBVIOUS
    <2> HIDE DEF item
    <2>4. chan'[item] = a /\ \A i \in Named : i # item => chan'[i] = chan[i]
      BY <1>1, <2>1
    <2>5. QED
      BY <2>1, <2>2, <2>3, <2>4, EarnedVerdict DEF Earned
  <1>5. CASE Dep!Receive
    <2>1. /\ depPhase = "select" /\ Dep!Record(Dep!Grade(item, chan[item]))
          /\ chan' = chan /\ chan[item] # Dep!NoAnswer
      BY <1>5 DEF Dep!Receive
    <2>2. Dep!Grade(item, chan[item]) \in {"ok", "skip", "fail", "unreachable"}
      BY Grades
    <2>3. item = Dep!Item
      OBVIOUS
    <2> HIDE DEF item
    <2>4. chan'[item] \in Dep!Answers
      BY <1>1, <2>1
    <2>5. QED
      BY <2>1, <2>2, <2>3, <2>4, EarnedVerdict DEF Earned
  <1>6. QED
    BY <1>2, <1>3, <1>4, <1>5 DEF ProbeDeps, Dep!Main, Dep!Lag, Dep!Begin, Dep!Launch,
       Dep!TimeoutBeforeStart

LEMMA EarnedNext == DepInv /\ DepTold /\ DepEarned /\ [Next]_vars => DepEarned'
  <1> SUFFICES ASSUME DepInv, DepTold, DepEarned, [Next]_vars PROVE DepEarned'
    OBVIOUS
  <1>1. CASE ProbeDeps
    BY <1>1, EarnedMain
  <1>2. CASE ToolAnswers
    <2> DEFINE item == Dep!Item
    <2>1. /\ depPhase = "select" /\ dependencies' = dependencies
          /\ \/ chan' = chan
             \/ \E a \in Dep!Answers : chan' = [chan EXCEPT ![item] = a]
      BY <1>2, AnswersAre
         DEF ToolAnswers, Dep!Tool, Dep!Started, Dep!StartFailed, Dep!Ended
    <2>2. \A k \in 1 .. Len(dependencies) : Dep!Items[k] # item
      BY <2>1, NotYetJudged
    <2>3. item \in Named /\ DOMAIN chan = Named
      BY <2>1, ItemIs DEF DepTold
    <2> HIDE DEF item
    <2>4. /\ \A i \in Named : i # item => chan'[i] = chan[i]
          /\ chan'[item] \in Dep!Answers \cup {Dep!NoAnswer}
      BY <2>1, <2>3 DEF DepEarned
    <2>5. QED
      BY <2>1, <2>2, <2>4, EarnedStays
  <1>3. CASE LateEnd
    <2>1. PICK i \in DOMAIN process : Dep!LateEnd(i)
      BY <1>3 DEF LateEnd
    <2>2. /\ i \in Named /\ DOMAIN chan = Named /\ process[i] = "started"
          /\ dependencies' = dependencies /\ chan' = [chan EXCEPT ![i] = "error"]
      BY <2>1 DEF Dep!LateEnd, Dep!Ended, DepTold
    <2>3. \A k \in 1 .. Len(dependencies) : Dep!Items[k] = i => dependencies[k].Status # "ok"
      BY <2>2, BadIsNotOk DEF DepTold
    <2>4. /\ \A j \in Named : j # i => chan'[j] = chan[j]
          /\ chan'[i] \in Dep!Answers \cup {Dep!NoAnswer}
      BY <2>2, AnswersAre
    <2>5. QED
      BY <2>2, <2>3, <2>4, EarnedStays
  <1>4. CASE UNCHANGED deps
    BY <1>4 DEF deps, DepEarned, Named
  <1>5. QED
    BY <1>1, <1>2, <1>3, <1>4, OthersLeaveDeps DEF Next, Work

LEMMA EarnedAlways == Spec => []DepEarned
  <1>1. Init => DepEarned
    <2> SUFFICES ASSUME Init PROVE DepEarned
      OBVIOUS
    <2>1. dependencies = <<>> /\ chan = [i \in Dep!ToSet(Dep!Items) |-> Dep!NoAnswer]
      BY DEF Init, Dep!Init
    <2>2. chan = [i \in Named |-> Dep!NoAnswer]
      BY <2>1, ItemsAre DEF Named
    <2>3. Len(dependencies) = 0
      BY <2>1
    <2> HIDE DEF Named
    <2>4. QED
      BY <2>2, <2>3 DEF DepEarned
  <1>2. QED
    BY <1>1, EarnedNext, DepAlways, DepToldAlways, PTL DEF Spec

-----------------------------------------------------------------------------
(* Elasticsearch *)

AfterES == {"mysql", "redis", "sentinel", "mongo", "rabbitmq", "replication", "deps", "done"}

\* All that is known of the nodes is known before one is chosen, and nothing of it
\* changes afterwards.
EsInv ==
    /\ \E n \in Nat : DOMAIN cfg.hosts["es7"] = 1 .. n
    /\ \E n \in Nat : DOMAIN reach = 1 .. n
    /\ "leader" \in DOMAIN cluster
    /\ \A i \in DOMAIN reach : reach[i] \in {"pending", "ok", "unreachable"}
    /\ esPhase \in {"idle", "probing", "health", "nodes", "done"}
    /\ esPhase = "idle" => reach = <<>>
    /\ esPhase \in {"idle", "probing"} => cluster.leader = 0
    /\ esPhase = "probing" => DOMAIN reach = DOMAIN cfg.hosts["es7"]
    /\ esPhase \in {"health", "nodes", "done"} => \A i \in DOMAIN reach : reach[i] # "pending"
    /\ cluster.leader # 0 =>
        /\ cluster.leader \in DOMAIN reach /\ reach[cluster.leader] = "ok"
        /\ \A i \in 1 .. cluster.leader - 1 : reach[i] = "unreachable"
    /\ stage \in AfterES => esPhase = "done"

\* The least element of a set of positions.
LEMMA FirstExists ==
    ASSUME NEW T \in SUBSET Nat, T # {}
    PROVE  Es!CHECKS!Min(T) \in T /\ \A m \in T : Es!CHECKS!Min(T) <= m
  BY NoLeast DEF Es!CHECKS!Min

LEMMA EsInit == Init => EsInv
  <1> SUFFICES ASSUME Init PROVE EsInv
    OBVIOUS
  <1>1. List(cfg.hosts["es7"])
    BY LoadedInit, LoadedLists, NamedLists
  <1>2. DOMAIN cfg.hosts["es7"] = 1 .. Len(cfg.hosts["es7"]) /\ Len(cfg.hosts["es7"]) \in Nat
    BY <1>1, Positions
  <1>3. /\ esPhase = "idle" /\ reach = <<>> /\ stage = "load"
        /\ cluster.leader = 0 /\ "leader" \in DOMAIN cluster
    BY DEF Init, Es!Init, Es!NoCluster
  <1>4. DOMAIN reach = 1 .. 0
    BY <1>3
  <1>5. QED
    BY <1>2, <1>3, <1>4 DEF EsInv, AfterES

LEMMA EsElect ==
    ASSUME EsInv, Es!Elect, UNCHANGED <<cfg, stage>>, stage = "es"
    PROVE  EsInv'
  <1> DEFINE up == {i \in DOMAIN cfg.hosts["es7"] : reach[i] = "ok"}
             first == Es!CHECKS!Min(up)
  <1>1. /\ esPhase = "probing" /\ reach' = reach
        /\ \A i \in DOMAIN reach : reach[i] # "pending"
        /\ cluster.leader = 0
    BY DEF Es!Elect, EsInv
  <1>2. up \in SUBSET Nat
    BY DEF EsInv
  <1>3. CASE up = {}
    <2>1. /\ esPhase' = "done" /\ cluster'.leader = 0 /\ "leader" \in DOMAIN cluster'
      BY <1>1, <1>3 DEF Es!Elect, EsInv
    <2>2. QED
      BY <1>1, <2>1 DEF EsInv, AfterES
  <1>4. CASE up # {}
    <2>1. /\ esPhase' = "health" /\ cluster' = [cluster EXCEPT !.leader = first]
      BY <1>4 DEF Es!Elect
    <2>2. first \in up /\ \A m \in up : first <= m
      BY <1>2, <1>4, FirstExists
    <2> HIDE DEF first
    <2>3. cluster'.leader = first /\ "leader" \in DOMAIN cluster'
      BY <2>1 DEF EsInv
    <2>4. DOMAIN reach = DOMAIN cfg.hosts["es7"]
      BY <1>1 DEF EsInv
    <2>5. first \in DOMAIN reach /\ reach[first] = "ok"
      BY <2>2, <2>4
    <2>6. ASSUME NEW i \in 1 .. first - 1 PROVE reach[i] = "unreachable"
      <3>1. i \in DOMAIN reach
        BY <2>5 DEF EsInv
      <3>2. i \notin up
        BY <1>2, <2>2
      <3>3. QED
        BY <1>1, <2>4, <3>1, <3>2 DEF EsInv
    <2>7. QED
      BY <1>1, <2>1, <2>3, <2>5, <2>6 DEF EsInv, AfterES
  <1>5. QED
    BY <1>3, <1>4

LEMMA EsNext == EsInv /\ [Next]_vars => EsInv'
  <1> SUFFICES ASSUME EsInv, [Next]_vars PROVE EsInv'
    OBVIOUS
  <1>1. cfg' = cfg
    BY ConfigStays DEF config
  <1>2. CASE ProbeES
    <2>1. stage = "es" /\ stage' = stage
      BY <1>2 DEF ProbeES, InES
    <2>2. CASE Es!NoCurl
      BY <1>1, <2>1, <2>2 DEF Es!NoCurl, Es!NoCluster, EsInv, AfterES
    <2>3. CASE Es!Begin
      <3>1. /\ reach' = [i \in DOMAIN cfg.hosts["es7"] |-> "pending"]
            /\ cluster' = cluster /\ cluster.leader = 0
            /\ esPhase' = IF cfg.hosts["es7"] = <<>> THEN "done" ELSE "probing"
        BY <2>3 DEF Es!Begin, EsInv
      <3>2. cfg.hosts["es7"] = <<>> => DOMAIN reach' = {}
        BY <3>1
      <3>3. QED
        BY <1>1, <2>1, <3>1, <3>2 DEF EsInv, AfterES
    <2>4. CASE Es!Elect
      BY <1>1, <2>1, <2>4, EsElect
    <2>5. ASSUME NEW i \in DOMAIN reach, NEW err, Es!Reached(i, err) PROVE EsInv'
      <3>1. /\ esPhase = "probing" /\ esPhase' = esPhase /\ cluster' = cluster
            /\ DOMAIN reach' = DOMAIN reach
            /\ \A j \in DOMAIN reach : reach'[j] \in {reach[j], "ok", "unreachable"}
        BY <2>5 DEF Es!Reached
      <3>2. QED
        BY <1>1, <2>1, <3>1 DEF EsInv, AfterES
    <2>6. ASSUME NEW n, Es!GetNodes(n) PROVE EsInv'
      BY <1>1, <2>1, <2>6 DEF Es!GetNodes, EsInv, AfterES
    <2>7. ASSUME NEW h, Es!GetHealth(h) PROVE EsInv'
      <3>1. /\ esPhase = "health" /\ esPhase' \in {"nodes", "done"} /\ reach' = reach
            /\ cluster'.leader = cluster.leader /\ "leader" \in DOMAIN cluster'
        BY <2>7 DEF Es!GetHealth, EsInv
      <3>2. QED
        BY <1>1, <2>1, <3>1 DEF EsInv, AfterES
    <2>8. QED
      BY <1>2, <2>2, <2>3, <2>4, <2>5, <2>6, <2>7 DEF ProbeES
  <1>3. ASSUME \/ Start \/ CollectAllHosts \/ CheckServices \/ EndES \/ Connections
               \/ CheckComponents \/ Gather \/ ProbeDeps \/ HostAnswers \/ ToolAnswers
               \/ LateEnd \/ UNCHANGED vars
        PROVE  UNCHANGED es /\ (stage' \in AfterES => stage \in AfterES \/ esPhase = "done")
    BY <1>3 DEF Start, CollectAllHosts, CheckServices, EndES, Connections, CollectMySQL,
         CollectRedisStandalone, CollectRedisSentinel, CollectMongo, CollectRabbitMQ,
         CollectReplication, CheckComponents, Collect, Gather, HostAnswers, InServices,
         ProbeDeps, ToolAnswers, LateEnd, InDeps, AfterES, vars
  <1>4. CASE UNCHANGED es /\ (stage' \in AfterES => stage \in AfterES \/ esPhase = "done")
    BY <1>1, <1>4 DEF es, EsInv
  <1>5. QED
    BY <1>2, <1>3, <1>4 DEF Next, Work

\* However many nodes there are and in whatever order they answer, the node that is
\* asked for the cluster's health is the first that is up, chosen when all are known.
THEOREM LeaderFound == Spec => []LeaderIsFirst
  <1>1. EsInv => LeaderIsFirst
    BY DEF EsInv, AfterES, LeaderIsFirst, Judged
  <1>2. QED
    BY <1>1, EsInit, EsNext, PTL DEF Spec

\* Nothing but the probes of Elasticsearch touches what is known of it.
LEMMA OthersLeaveES ==
    ASSUME [Next]_vars, ~ ProbeES
    PROVE  UNCHANGED es /\ ("es" \in DOMAIN answers => answers'["es"] = answers["es"])
  <1>1. CASE Connections \/ CollectAllHosts
    <2>1. PICK s \in Sections : /\ UNCHANGED es
                                /\ \E a : answers' = [answers EXCEPT ![s] = a]
      BY <1>1, Zenon DEF Connections, CollectMySQL, CollectRedisStandalone, CollectRedisSentinel,
         CollectMongo, CollectRabbitMQ, CollectReplication, CollectAllHosts, Collect, Sections
    <2>2. s # "es"
      BY DEF Sections
    <2>3. QED
      BY <2>1, <2>2
  <1>2. ASSUME \/ Start \/ CheckServices \/ EndES \/ CheckComponents \/ Gather \/ ProbeDeps
               \/ HostAnswers \/ ToolAnswers \/ LateEnd \/ UNCHANGED vars
        PROVE  UNCHANGED <<es, answers>>
    BY <1>2 DEF Start, CheckServices, EndES, CheckComponents, Gather, HostAnswers, InServices,
         ProbeDeps, ToolAnswers, LateEnd, InDeps, vars
  <1>3. QED
    BY <1>1, <1>2 DEF Next, Work

\* What went wrong with Elasticsearch is on record: no health without an answer, no
\* error but of a list that has nodes.
EsTold ==
    /\ "es" \in DOMAIN answers
    /\ List(reach) /\ DOMAIN reach \subseteq DOMAIN cfg.hosts["es7"]
    /\ List(cluster.Nodes) /\ {"Error", "Nodes"} \subseteq DOMAIN cluster
    /\ esPhase \notin {"idle", "done"} \/ cluster.Error # "" => cfg.hosts["es7"] # <<>>
    /\ esPhase \in {"idle", "probing", "health"} => answers["es"] = <<>>
    /\ \A h \in ToSet(answers["es"]) : h.err # "" => cluster.Error # ""

LEMMA EsToldInit == Init => EsTold
  <1> SUFFICES ASSUME Init PROVE EsTold
    OBVIOUS
  <1>1. answers = [s \in Sections \cup {"es"} |-> <<>>]
    BY DEF Init
  <1>2. /\ reach = <<>> /\ cluster.Error = "" /\ cluster.Nodes = <<>> /\ esPhase = "idle"
        /\ {"Error", "Nodes"} \subseteq DOMAIN cluster
    BY DEF Init, Es!Init, Es!NoCluster
  <1>3. "es" \in DOMAIN answers /\ answers["es"] = <<>> /\ DOMAIN <<>> = {}
    BY <1>1
  <1>4. QED
    BY <1>2, <1>3, NoRows DEF EsTold

LEMMA EsToldProbe ==
    ASSUME Loaded, EsInv, EsTold, ProbeES
    PROVE  EsTold'
  <1> DEFINE ips == cfg.hosts["es7"]
  <1>1. cfg' = cfg /\ List(ips)
    BY LoadedLists, NamedLists DEF ProbeES, InES, config
  <1>2. CASE Es!NoCurl /\ answers' = answers
    <2>1. /\ cluster'.Nodes = <<>> /\ {"Error", "Nodes"} \subseteq DOMAIN cluster'
          /\ reach' = reach /\ ips # <<>> /\ esPhase = "idle" /\ esPhase' = "done"
      BY <1>2 DEF Es!NoCurl, Es!NoCluster
    <2>2. ToSet(<<>>) = {} /\ List(<<>>)
      BY NoRows
    <2>3. QED
      BY <1>1, <1>2, <2>1, <2>2 DEF EsTold
  <1>3. CASE Es!Begin /\ answers' = answers
    <2>1. /\ reach' = [i \in DOMAIN ips |-> "pending"] /\ cluster' = cluster
          /\ esPhase = "idle" /\ (esPhase' # "done" => ips # <<>>)
      BY <1>3 DEF Es!Begin
    <2>2. List(reach') /\ DOMAIN reach' = DOMAIN ips
      BY <1>1, <2>1, Mapped
    <2>3. QED
      BY <1>1, <1>3, <2>1, <2>2 DEF EsTold
  <1>4. CASE Es!Elect /\ answers' = answers
    <2>1. /\ reach' = reach /\ esPhase = "probing" /\ esPhase' \in {"done", "health"}
          /\ cluster'.Nodes = cluster.Nodes /\ DOMAIN cluster' = DOMAIN cluster
      BY <1>4 DEF Es!Elect, EsTold
    <2>2. ips # <<>> /\ answers["es"] = <<>> /\ ToSet(<<>>) = {}
      BY <2>1, NoRows DEF EsTold
    <2>3. QED
      BY <1>1, <1>4, <2>1, <2>2 DEF EsTold
  <1>5. ASSUME NEW i \in DOMAIN reach, NEW err, Es!Reached(i, err), answers' = answers
        PROVE  EsTold'
    <2>1. /\ reach' = [j \in DOMAIN reach |-> reach'[j]] /\ DOMAIN reach' = DOMAIN reach
          /\ cluster' = cluster /\ esPhase = "probing" /\ esPhase' = "probing"
      BY <1>5 DEF Es!Reached
    <2>2. List(reach')
      BY <2>1, Mapped DEF EsTold
    <2>3. QED
      BY <1>1, <1>5, <2>1, <2>2 DEF EsTold
  <1>6. ASSUME NEW n, List(n), Es!GetNodes(n), answers' = answers
        PROVE  EsTold'
    <2>1. /\ cluster'.Nodes = n /\ cluster'.Error = cluster.Error
          /\ DOMAIN cluster' = DOMAIN cluster
          /\ reach' = reach /\ esPhase = "nodes" /\ esPhase' = "done"
      BY <1>6 DEF Es!GetNodes, EsTold
    <2>2. QED
      BY <1>1, <1>6, <2>1 DEF EsTold
  <1>7. ASSUME NEW h, Es!GetHealth(h), answers' = [answers EXCEPT !["es"] = <<h>>]
        PROVE  EsTold'
    <2>1. /\ cluster'.Nodes = cluster.Nodes /\ {"Error", "Nodes"} \subseteq DOMAIN cluster'
          /\ h.err # "" => cluster'.Error # ""
          /\ reach' = reach /\ esPhase = "health" /\ esPhase' \in {"done", "nodes"}
      BY <1>7 DEF Es!GetHealth, EsTold, Es!NoError, Es!CHECKS!NoError
    <2>2. /\ answers'["es"] = <<h>> /\ "es" \in DOMAIN answers' /\ ToSet(<<h>>) = {h}
          /\ ips # <<>>
      BY <1>7, <2>1, OneRow DEF EsTold
    <2>3. QED
      BY <1>1, <2>1, <2>2 DEF EsTold
  <1>8. ASSUME NEW n \in Pick("es", Es!Nodes, {Es!GoodNodes}) PROVE List(n)
    BY NoRows, OneRow DEF Pick, Es!Nodes, Es!GoodNodes
  <1>9. QED
    BY <1>2, <1>3, <1>4, <1>5, <1>6, <1>7, <1>8 DEF ProbeES

LEMMA EsToldNext == Loaded /\ EsInv /\ EsTold /\ [Next]_vars => EsTold'
  <1> SUFFICES ASSUME Loaded, EsInv, EsTold, [Next]_vars PROVE EsTold'
    OBVIOUS
  <1>1. CASE ProbeES
    BY <1>1, EsToldProbe
  <1>2. CASE ~ ProbeES
    <2>1. UNCHANGED <<es, cfg>> /\ answers'["es"] = answers["es"]
      BY <1>2, OthersLeaveES, ConfigStays DEF EsTold, config
    <2>2. "es" \in DOMAIN answers'
      <3>1. DOMAIN answers' = DOMAIN answers
        BY <1>2 DEF Next, Work, Start, CollectAllHosts, CheckServices, EndES, Connections,
         CollectMySQL, CollectRedisStandalone, CollectRedisSentinel, CollectMongo,
         CollectRabbitMQ, CollectReplication, CheckComponents, Collect, Gather, HostAnswers,
         InServices, ProbeDeps, ToolAnswers, LateEnd, InDeps, vars
      <3>2. QED
        BY <3>1 DEF EsTold
    <2>3. QED
      BY <2>1, <2>2 DEF EsTold, es
  <1>3. QED
    BY <1>1, <1>2

LEMMA EsToldAlways == Spec => [](EsInv /\ EsTold)
  BY EsInit, EsNext, EsToldInit, EsToldNext, LoadedAlways, PTL DEF Spec

-----------------------------------------------------------------------------
(* The one-step collectors *)

\* The stages after each section.
PastReplication == {"deps", "done"}
PastBroker == PastReplication \cup {"replication"}
PastMongo == PastBroker \cup {"rabbitmq"}
PastSentinel == PastMongo \cup {"mongo"}
PastRedis == PastSentinel \cup {"sentinel"}
PastMySQL == PastRedis \cup {"redis"}
PastServices == PastMySQL \cup {"mysql", "es"}
PastHosts == PastServices \cup {"services"}

HostsCollected ==
    /\ answers["hosts"] \in [DOMAIN cfg.AllHosts -> HOST!HostAnswers]
    /\ report["hosts"] = [i \in DOMAIN cfg.AllHosts |->
                            HOST!parseHostOutput(cfg.AllHosts[i], answers["hosts"][i], cfg)]

RedisCollected ==
    /\ answers["redis"] \in [DOMAIN cfg.hosts["redis"] -> DB!RedisAnswers]
    /\ report["redis"] = Unless("redis",
            DB!CollectRedisStandalone(cfg.hosts["redis"], answers["redis"]))

Known == ToSet(cfg.AllHosts) \cup ToSet(cfg.hosts["redis_master"])

SentinelCollected ==
    /\ answers["sentinel"] \in DB!SentinelAnswers(cfg.hosts["sentinel"], Known)
    /\ report["sentinel"] = Unless("sentinel",
            DB!RedisSentinelSection(cfg.hosts["sentinel"], answers["sentinel"],
                                    cfg.hosts["redis_master"]))

MongoCollected ==
    /\ answers["mongo"] \in DB!MongoAnswers
    /\ report["mongo"] = Unless("mongodb", DB!CollectMongo(answers["mongo"]))

BrokerCollected ==
    /\ answers["rabbitmq"] \in MQ!BrokerAnswers(VHosts)
    /\ report["rabbitmq"] = Unless("rabbitmq", MQ!CollectRabbitMQ(answers["rabbitmq"], cfg))

ReplicationAnswered(a) ==
    /\ DOMAIN a = ReplicationLists
    /\ a["mysql_master"] \in [DOMAIN cfg.hosts["mysql_master"] -> REP!MasterAnswers]
    /\ a["mysql_slave"] \in [DOMAIN cfg.hosts["mysql_slave"] -> REP!SlaveAnswers]
    /\ a["redis_master"] \in [DOMAIN cfg.hosts["redis_master"] -> REP!RedisReplAnswers]
    /\ a["redis_slave"] \in [DOMAIN cfg.hosts["redis_slave"] -> REP!RedisReplAnswers]

ReplicationCollected ==
    /\ ReplicationAnswered(answers["replication"])
    /\ report["replication"] =
        IF \A l \in ReplicationLists : cfg.hosts[l] = <<>> THEN <<>>
        ELSE <<REP!CollectReplication(cfg, answers["replication"])>>

\* Beyond its collector, a section of the report is what the collector makes of the
\* answers, which are kept.
Collected ==
    /\ DOMAIN answers = Sections \cup {"es"} /\ DOMAIN report = Sections
    /\ stage \in {"load", "exit"} => report = [s \in Sections |-> <<>>]
    /\ stage \in PastHosts => HostsCollected
    /\ stage \in PastRedis => RedisCollected
    /\ stage \in PastSentinel => SentinelCollected
    /\ stage \in PastMongo => MongoCollected
    /\ stage \in PastBroker => BrokerCollected
    /\ stage \in PastReplication => ReplicationCollected

\* A section and its answers change in its own step only.
LEMMA Untouched ==
    ASSUME Collected, [Next]_vars
    PROVE  /\ DOMAIN answers' = Sections \cup {"es"} /\ DOMAIN report' = Sections
           /\ \A s \in Sections : stage # s => answers'[s] = answers[s] /\ report'[s] = report[s]
  <1>1. ASSUME NEW s \in Sections, NEW a, NEW v, stage = s,
               answers' = [answers EXCEPT ![s] = a], report' = [report EXCEPT ![s] = v]
        PROVE  /\ DOMAIN answers' = Sections \cup {"es"} /\ DOMAIN report' = Sections
               /\ \A t \in Sections : stage # t =>
                    answers'[t] = answers[t] /\ report'[t] = report[t]
    BY <1>1 DEF Collected
  <1>2. CASE Connections \/ CollectAllHosts
    <2>1. PICK s \in Sections : /\ stage = s
                                /\ \E a, v : /\ answers' = [answers EXCEPT ![s] = a]
                                             /\ report' = [report EXCEPT ![s] = v]
      BY <1>2, Zenon DEF Connections, CollectMySQL, CollectRedisStandalone, CollectRedisSentinel,
         CollectMongo, CollectRabbitMQ, CollectReplication, CollectAllHosts, Collect, Sections
    <2>2. QED
      BY <1>1, <2>1
  <1>3. CASE ProbeES
    <2>1. report' = report /\ (answers' = answers \/ \E h : answers' = [answers EXCEPT !["es"] = <<h>>])
      BY <1>3 DEF ProbeES, InES
    <2>2. "es" \notin Sections
      BY DEF Sections
    <2>3. QED
      BY <2>1, <2>2 DEF Collected
  <1>4. ASSUME \/ Start \/ CheckServices \/ EndES \/ CheckComponents \/ Gather \/ ProbeDeps
               \/ HostAnswers \/ ToolAnswers \/ LateEnd \/ UNCHANGED vars
        PROVE  UNCHANGED <<answers, report>>
    BY <1>4 DEF Start, CheckServices, EndES, CheckComponents, Gather, HostAnswers, InServices,
         ProbeDeps, ToolAnswers, LateEnd, InDeps, vars
  <1>5. CASE UNCHANGED <<answers, report>>
    BY <1>5 DEF Collected
  <1>6. QED
    BY <1>2, <1>3, <1>4, <1>5 DEF Next, Work

\* Main passes each section by its step.
LEMMA Passing ==
    ASSUME [Next]_vars
    PROVE  /\ stage' \in PastHosts => stage \in PastHosts \/ CollectAllHosts
           /\ stage' \in PastServices => stage \in PastServices \/ CheckServices
           /\ stage' \in PastRedis => stage \in PastRedis \/ CollectRedisStandalone
           /\ stage' \in PastSentinel => stage \in PastSentinel \/ CollectRedisSentinel
           /\ stage' \in PastMongo => stage \in PastMongo \/ CollectMongo
           /\ stage' \in PastBroker => stage \in PastBroker \/ CollectRabbitMQ
           /\ stage' \in PastReplication => stage \in PastReplication \/ CollectReplication
           /\ stage' \in {"load", "exit"} =>
                stage \in {"load", "exit"} /\ UNCHANGED report
  BY DEF Next, Work, Start, CollectAllHosts, CheckServices, EndES, Connections, CollectMySQL,
         CollectRedisStandalone, CollectRedisSentinel, CollectMongo, CollectRabbitMQ,
         CollectReplication, CheckComponents, Collect, Gather, HostAnswers, InServices,
         ProbeES, InES, ProbeDeps, ToolAnswers, LateEnd, InDeps, vars,
         PastHosts, PastServices, PastMySQL, PastRedis, PastSentinel, PastMongo, PastBroker,
         PastReplication

\* What healthy components answer is among what may be answered.
LEMMA GoodAnswers ==
    /\ HOST!HostGood \in HOST!HostAnswers
    /\ DB!RedisGood \in DB!RedisAnswers
    /\ DB!MongoGood \in DB!MongoAnswers
    /\ MQ!BrokerGood(VHosts) \in MQ!BrokerAnswers(VHosts)
    /\ REP!MasterGood \in REP!MasterAnswers
    /\ REP!SlaveGood \in REP!SlaveAnswers
    /\ \A role \in {"master", "slave"} : REP!RedisReplGood(role) \in REP!RedisReplAnswers
  <1>1. HOST!HostGood \in HOST!HostAnswers
    <2>1. Len(HOST!HostSections) = 9
      BY DEF HOST!HostSections
    <2>2. QED
      BY <2>1 DEF HOST!HostGood, HOST!HostAnswers, HOST!Readings
  <1>2. DB!RedisGood \in DB!RedisAnswers
    BY DEF DB!RedisGood, DB!RedisAnswers, DB!NoError, DB!Levels
  <1>3. DB!MongoGood \in DB!MongoAnswers
    BY DEF DB!MongoGood, DB!MongoAnswers
  <1>4. MQ!BrokerGood(VHosts) \in MQ!BrokerAnswers(VHosts)
    <2> DEFINE node == [mem_alarm |-> FALSE, disk_free_alarm |-> FALSE, partitions |-> FALSE]
               vhost == CHOOSE v \in VHosts : TRUE
               queue == [vhost |-> vhost, usual |-> TRUE, messages |-> 0, consumers |-> 1]
    <2>1. vhost \in VHosts
      BY VHostAssumption
    <2> HIDE DEF vhost
    <2>2. queue \in MQ!QueueViews(VHosts) /\ node \in MQ!NodeViews
      BY <2>1 DEF MQ!QueueViews, MQ!NodeViews
    <2>3. ASSUME NEW S, NEW e \in S
         PROVE [err |-> MQ!NoError, list |-> <<e>>, rejected |-> FALSE] \in MQ!Api(S)
      BY DEF MQ!Api
    <2>4. MQ!BrokerGood(VHosts)
            = [nodes |-> [err |-> MQ!NoError, list |-> <<node>>, rejected |-> FALSE],
               conns |-> [err |-> MQ!NoError, list |-> <<"running">>, rejected |-> FALSE],
               queues |-> [err |-> MQ!NoError, list |-> <<queue>>, rejected |-> FALSE]]
      BY DEF MQ!BrokerGood, vhost
    <2> HIDE DEF node, queue
    <2> DEFINE conns == {"running", "blocked", ""}
    <2>5. "running" \in conns
      BY Zenon
    <2>6. MQ!BrokerAnswers(VHosts)
            = [nodes : MQ!Api(MQ!NodeViews), conns : MQ!Api(conns),
               queues : MQ!Api(MQ!QueueViews(VHosts))]
      BY Zenon DEF MQ!BrokerAnswers
    <2> HIDE DEF conns
    <2>7. QED
      BY <2>2, <2>3, <2>4, <2>5, <2>6
  <1>5. REP!MasterGood \in REP!MasterAnswers
    BY DEF REP!MasterGood, REP!MasterAnswers
  <1>6. REP!SlaveGood \in REP!SlaveAnswers
    <2>1. REP!Healthy \in REP!StatusRow
      BY DEF REP!Healthy, REP!StatusRow, REP!Seconds
    <2>2. [err |-> REP!NoError, rows |-> <<REP!Healthy>>] \in REP!Statement(REP!StatusRow)
      BY <2>1 DEF REP!Statement
    <2>3. QED
      BY <2>2 DEF REP!SlaveGood, REP!SlaveAnswers
  <1>7. \A role \in {"master", "slave"} : REP!RedisReplGood(role) \in REP!RedisReplAnswers
    BY DEF REP!RedisReplGood, REP!RedisReplAnswers, REP!Seconds
  <1>8. QED
    BY <1>1, <1>2, <1>3, <1>4, <1>5, <1>6, <1>7

LEMMA CollectedInit == Init => Collected
  BY DEF Init, Collected, PastHosts, PastServices, PastMySQL, PastRedis, PastSentinel,
         PastMongo, PastBroker, PastReplication

\* Healthy sentinels name a declared master, or a host if none is declared.
LEMMA SentinelAnswered ==
    ASSUME NEW a \in SentinelAnswers
    PROVE  a \in DB!SentinelAnswers(cfg.hosts["sentinel"], Known)
  <1> DEFINE list == cfg.hosts["sentinel"]
             hosts == ToSet(cfg.AllHosts)
             masters == ToSet(cfg.hosts["redis_master"])
             good == IF masters = {} THEN hosts ELSE masters
  <1>1. hosts \subseteq Known /\ good \subseteq Known
    BY DEF Known
  <1>2. ASSUME a \in DB!SentinelGood(list, good)
        PROVE  a \in DB!SentinelAnswers(list, Known)
    <2>1. /\ a = [pong |-> a.pong, master |-> a.master, alive |-> a.alive]
          /\ a.pong = [i \in DOMAIN list |-> DB!NoError] /\ a.alive = TRUE
          /\ \E h \in good : a.master = [i \in DOMAIN list |-> h]
      BY <1>2 DEF DB!SentinelGood
    <2>2. a.master \in [DOMAIN list -> Known \cup {DB!NoOne}]
      BY <1>1, <2>1
    <2>3. a.pong \in [DOMAIN list -> {DB!NoError, "deadline", "denied", "unexpected"}]
      BY <2>1
    <2>4. QED
      BY <2>1, <2>2, <2>3 DEF DB!SentinelAnswers
  <1>3. ASSUME a \in DB!SentinelAnswers(list, hosts)
        PROVE  a \in DB!SentinelAnswers(list, Known)
    BY <1>1, <1>3 DEF DB!SentinelAnswers
  <1>4. QED
    BY <1>2, <1>3 DEF SentinelAnswers, Pick

LEMMA RedisAnswered ==
    ASSUME NEW a \in ReplicationAnswers
    PROVE  ReplicationAnswered(a)
  <1> DEFINE Masters == Pick("mysql_master", REP!MasterAnswers, {REP!MasterGood})
             Slaves == Pick("mysql_slave", REP!SlaveAnswers, {REP!SlaveGood})
             RedisMasters == Pick("redis_master", REP!RedisReplAnswers, {REP!RedisReplGood("master")})
             RedisSlaves == Pick("redis_slave", REP!RedisReplAnswers, {REP!RedisReplGood("slave")})
  <1>1. /\ Masters \subseteq REP!MasterAnswers /\ Slaves \subseteq REP!SlaveAnswers
        /\ RedisMasters \subseteq REP!RedisReplAnswers /\ RedisSlaves \subseteq REP!RedisReplAnswers
    BY GoodAnswers DEF Pick
  <1>2. a \in [mysql_master : [DOMAIN cfg.hosts["mysql_master"] -> Masters],
               mysql_slave : [DOMAIN cfg.hosts["mysql_slave"] -> Slaves],
               redis_master : [DOMAIN cfg.hosts["redis_master"] -> RedisMasters],
               redis_slave : [DOMAIN cfg.hosts["redis_slave"] -> RedisSlaves]]
    BY DEF ReplicationAnswers, Each
  <1> HIDE DEF Masters, Slaves, RedisMasters, RedisSlaves
  <1>3. /\ DOMAIN a = {"mysql_master", "mysql_slave", "redis_master", "redis_slave"}
        /\ a["mysql_master"] \in [DOMAIN cfg.hosts["mysql_master"] -> Masters]
        /\ a["mysql_slave"] \in [DOMAIN cfg.hosts["mysql_slave"] -> Slaves]
        /\ a["redis_master"] \in [DOMAIN cfg.hosts["redis_master"] -> RedisMasters]
        /\ a["redis_slave"] \in [DOMAIN cfg.hosts["redis_slave"] -> RedisSlaves]
    BY <1>2
  <1>4. QED
    BY <1>1, <1>3 DEF ReplicationAnswered, ReplicationLists

LEMMA CollectedNext == Loaded /\ Collected /\ [Next]_vars => Collected'
  <1> SUFFICES ASSUME Loaded, Collected, [Next]_vars PROVE Collected'
    OBVIOUS
  <1>1. cfg' = cfg
    BY ConfigStays DEF config
  <1>2. /\ DOMAIN answers' = Sections \cup {"es"} /\ DOMAIN report' = Sections
        /\ \A s \in Sections : stage # s => answers'[s] = answers[s] /\ report'[s] = report[s]
    BY Untouched
  <1>3. \A s \in Sections : s \in DOMAIN answers /\ s \in DOMAIN report
    BY DEF Collected
  <1>4. {"hosts", "redis", "sentinel", "mongo", "rabbitmq", "replication"} \subseteq Sections
    BY DEF Sections
  <1>5. stage' \in {"load", "exit"} => report' = [s \in Sections |-> <<>>]
    BY Passing DEF Collected
  <1>6. stage' \in PastHosts => HostsCollected'
    <2>1. ASSUME stage \in PastHosts PROVE HostsCollected'
      <3>1. stage # "hosts"
        BY <2>1 DEF PastHosts, PastServices, PastMySQL, PastRedis, PastSentinel, PastMongo,
                    PastBroker, PastReplication
      <3>2. QED
        BY <1>1, <1>2, <1>4, <2>1, <3>1 DEF HostsCollected, Collected
    <2>2. ASSUME CollectAllHosts PROVE HostsCollected'
      <3>1. PICK a \in [DOMAIN cfg.AllHosts -> Pick("hosts", HOST!HostAnswers, {HOST!HostGood})] :
                /\ answers' = [answers EXCEPT !["hosts"] = a]
                /\ report' = [report EXCEPT !["hosts"] = [i \in DOMAIN cfg.AllHosts |->
                                HOST!parseHostOutput(cfg.AllHosts[i], a[i], cfg)]]
        BY <2>2 DEF CollectAllHosts, Collect
      <3>2. a \in [DOMAIN cfg.AllHosts -> HOST!HostAnswers]
        BY GoodAnswers DEF Pick
      <3>3. answers'["hosts"] = a /\ report'["hosts"] = [i \in DOMAIN cfg.AllHosts |->
                                HOST!parseHostOutput(cfg.AllHosts[i], a[i], cfg)]
        BY <1>3, <1>4, <3>1
      <3>4. QED
        BY <1>1, <3>2, <3>3 DEF HostsCollected
    <2>3. QED
      BY <2>1, <2>2, Passing
  <1>7. stage' \in PastRedis => RedisCollected'
    <2>1. ASSUME stage \in PastRedis PROVE RedisCollected'
      <3>1. stage # "redis"
        BY <2>1 DEF PastRedis, PastSentinel, PastMongo, PastBroker, PastReplication
      <3>2. QED
        BY <1>1, <1>2, <1>4, <2>1, <3>1 DEF RedisCollected, Collected, Unless
    <2>2. ASSUME CollectRedisStandalone PROVE RedisCollected'
      <3>1. PICK a \in Each("redis", Pick("redis", DB!RedisAnswers, {DB!RedisGood})) :
                /\ answers' = [answers EXCEPT !["redis"] = a]
                /\ report' = [report EXCEPT !["redis"] = Unless("redis",
                                DB!CollectRedisStandalone(cfg.hosts["redis"], a))]
        BY <2>2 DEF CollectRedisStandalone, Collect
      <3>2. a \in [DOMAIN cfg.hosts["redis"] -> DB!RedisAnswers]
        BY GoodAnswers DEF Pick, Each
      <3>3. answers'["redis"] = a /\ report'["redis"] = Unless("redis",
                                DB!CollectRedisStandalone(cfg.hosts["redis"], a))
        BY <1>3, <1>4, <3>1
      <3>4. QED
        BY <1>1, <3>2, <3>3 DEF RedisCollected, Unless
    <2>3. QED
      BY <2>1, <2>2, Passing
  <1>8. stage' \in PastSentinel => SentinelCollected'
    <2>1. ASSUME stage \in PastSentinel PROVE SentinelCollected'
      <3>1. stage # "sentinel"
        BY <2>1 DEF PastSentinel, PastMongo, PastBroker, PastReplication
      <3>2. QED
        BY <1>1, <1>2, <1>4, <2>1, <3>1 DEF SentinelCollected, Collected, Unless, Known
    <2>2. ASSUME CollectRedisSentinel PROVE SentinelCollected'
      <3>1. PICK a \in SentinelAnswers :
                /\ answers' = [answers EXCEPT !["sentinel"] = a]
                /\ report' = [report EXCEPT !["sentinel"] = Unless("sentinel",
                        DB!RedisSentinelSection(cfg.hosts["sentinel"], a, cfg.hosts["redis_master"]))]
        BY <2>2 DEF CollectRedisSentinel, Collect
      <3>2. a \in DB!SentinelAnswers(cfg.hosts["sentinel"], Known)
        BY SentinelAnswered
      <3>3. answers'["sentinel"] = a /\ report'["sentinel"] = Unless("sentinel",
                        DB!RedisSentinelSection(cfg.hosts["sentinel"], a, cfg.hosts["redis_master"]))
        BY <1>3, <1>4, <3>1
      <3>4. QED
        BY <1>1, <3>2, <3>3 DEF SentinelCollected, Unless, Known
    <2>3. QED
      BY <2>1, <2>2, Passing
  <1>9. stage' \in PastMongo => MongoCollected'
    <2>1. ASSUME stage \in PastMongo PROVE MongoCollected'
      <3>1. stage # "mongo"
        BY <2>1 DEF PastMongo, PastBroker, PastReplication
      <3>2. QED
        BY <1>1, <1>2, <1>4, <2>1, <3>1 DEF MongoCollected, Collected, Unless
    <2>2. ASSUME CollectMongo PROVE MongoCollected'
      <3>1. PICK a \in Pick("mongo", DB!MongoAnswers, {DB!MongoGood}) :
                /\ answers' = [answers EXCEPT !["mongo"] = a]
                /\ report' = [report EXCEPT !["mongo"] = Unless("mongodb", DB!CollectMongo(a))]
        BY <2>2 DEF CollectMongo, Collect
      <3>2. a \in DB!MongoAnswers
        BY GoodAnswers DEF Pick
      <3>3. answers'["mongo"] = a /\ report'["mongo"] = Unless("mongodb", DB!CollectMongo(a))
        BY <1>3, <1>4, <3>1
      <3>4. QED
        BY <1>1, <3>2, <3>3 DEF MongoCollected, Unless
    <2>3. QED
      BY <2>1, <2>2, Passing
  <1>10. stage' \in PastBroker => BrokerCollected'
    <2>1. ASSUME stage \in PastBroker PROVE BrokerCollected'
      <3>1. stage # "rabbitmq"
        BY <2>1 DEF PastBroker, PastReplication
      <3>2. QED
        BY <1>1, <1>2, <1>4, <2>1, <3>1 DEF BrokerCollected, Collected, Unless
    <2>2. ASSUME CollectRabbitMQ PROVE BrokerCollected'
      <3>1. PICK a \in Pick("rabbitmq", MQ!BrokerAnswers(VHosts), {MQ!BrokerGood(VHosts)}) :
                /\ answers' = [answers EXCEPT !["rabbitmq"] = a]
                /\ report' = [report EXCEPT !["rabbitmq"] =
                                Unless("rabbitmq", MQ!CollectRabbitMQ(a, cfg))]
        BY <2>2 DEF CollectRabbitMQ, Collect
      <3>2. a \in MQ!BrokerAnswers(VHosts)
        BY GoodAnswers DEF Pick
      <3>3. /\ answers'["rabbitmq"] = a
            /\ report'["rabbitmq"] = Unless("rabbitmq", MQ!CollectRabbitMQ(a, cfg))
        BY <1>3, <1>4, <3>1
      <3>4. QED
        BY <1>1, <3>2, <3>3 DEF BrokerCollected, Unless
    <2>3. QED
      BY <2>1, <2>2, Passing
  <1>11. stage' \in PastReplication => ReplicationCollected'
    <2> DEFINE Section(a) == IF \A l \in ReplicationLists : cfg.hosts[l] = <<>> THEN <<>>
                             ELSE <<REP!CollectReplication(cfg, a)>>
    <2>1. ASSUME stage \in PastReplication PROVE ReplicationCollected'
      <3>1. stage # "replication"
        BY <2>1 DEF PastReplication
      <3>2. /\ ReplicationAnswered(answers["replication"])
            /\ report["replication"] = Section(answers["replication"])
        BY <2>1 DEF ReplicationCollected, Collected
      <3>3. /\ answers'["replication"] = answers["replication"]
            /\ report'["replication"] = report["replication"]
        BY <1>2, <1>4, <3>1
      <3>4. QED
        BY <1>1, <3>2, <3>3 DEF ReplicationCollected, ReplicationAnswered
    <2>2. ASSUME CollectReplication PROVE ReplicationCollected'
      <3>1. PICK a \in ReplicationAnswers :
                /\ answers' = [answers EXCEPT !["replication"] = a]
                /\ report' = [report EXCEPT !["replication"] = Section(a)]
        BY <2>2 DEF CollectReplication, Collect
      <3>2. ReplicationAnswered(a)
        BY RedisAnswered
      <3>3. answers'["replication"] = a /\ report'["replication"] = Section(a)
        BY <1>3, <1>4, <3>1
      <3>4. QED
        BY <1>1, <3>2, <3>3 DEF ReplicationCollected, ReplicationAnswered
    <2>3. QED
      BY <2>1, <2>2, Passing
  <1>12. QED
    BY <1>2, <1>5, <1>6, <1>7, <1>8, <1>9, <1>10, <1>11
       DEF Collected, PastHosts, PastServices, PastMySQL, PastRedis, PastSentinel, PastMongo,
           PastBroker, PastReplication

LEMMA CollectedAlways == Spec => []Collected
  BY CollectedInit, CollectedNext, LoadedAlways, PTL DEF Spec

-----------------------------------------------------------------------------
(* Dependencies in good health *)

\* With no part in trouble, the dependencies say what is expected: no command is given
\* up, and so none ends late.
DepsCalm ==
    env.troubled = {} =>
        /\ \A k \in DOMAIN dependencies : dependencies[k].Status \in {"ok", "skip"}
        /\ \A i \in Named : chan[i] \in {Dep!NoAnswer, "expected"}

LEMMA ExpectedIsOk == \A item : Dep!Grade(item, "expected") = "ok"
  BY DEF Dep!Grade

LEMMA CalmVerdict ==
    ASSUME dependencies \in Seq(Verdicts),
           \A k \in DOMAIN dependencies : dependencies[k].Status \in {"ok", "skip"},
           NEW s \in {"ok", "skip"}, Dep!Record(s)
    PROVE  \A k \in DOMAIN dependencies' : dependencies'[k].Status \in {"ok", "skip"}
  <1> DEFINE d == [Item |-> Dep!Item, Status |-> s]
             n == Len(dependencies)
  <1>1. dependencies' = Append(dependencies, d) /\ d.Status = s
    BY DEF Dep!Record
  <1> HIDE DEF d
  <1>2. /\ n \in Nat /\ DOMAIN dependencies = 1 .. n /\ DOMAIN dependencies' = 1 .. n + 1
        /\ dependencies'[n + 1] = d /\ \A k \in 1 .. n : dependencies'[k] = dependencies[k]
    BY <1>1
  <1>3. QED
    BY <1>1, <1>2

LEMMA DepsCalmNext == DepInv /\ DepTold /\ DepsCalm /\ [Next]_vars => DepsCalm'
  <1> SUFFICES ASSUME DepInv, DepTold, DepsCalm, [Next]_vars PROVE DepsCalm'
    OBVIOUS
  <1>1. env' = env /\ Named' = Named
    BY ConfigStays DEF config, Named, Dep!Items
  <1> DEFINE Fine(s) == \A k \in DOMAIN s : s[k].Status \in {"ok", "skip"}
             Calm(c) == \A i \in Named : c[i] \in {Dep!NoAnswer, "expected"}
  <1>2. SUFFICES ASSUME env.troubled = {} PROVE Fine(dependencies') /\ Calm(chan')
    BY <1>1 DEF DepsCalm
  <1>3. /\ Fine(dependencies) /\ Calm(chan) /\ DepAnswers = {"expected"}
        /\ dependencies \in Seq(Verdicts) /\ DOMAIN chan = Named
    BY <1>2 DEF DepsCalm, DepAnswers, Pick, Troubled, DepInv, DepTold
  <1>4. ASSUME NEW i, chan' = [chan EXCEPT ![i] = "expected"] PROVE Calm(chan')
    BY <1>3, <1>4
  <1>5. ASSUME NEW s \in {"ok", "skip"}, Dep!Record(s) PROVE Fine(dependencies')
    BY <1>3, <1>5, CalmVerdict
  <1>6. CASE ProbeDeps
    <2>1. Dep!Main({"expected"})
      BY <1>2, <1>3, <1>6 DEF ProbeDeps, Troubled
    <2>2. CASE Dep!Begin \/ Dep!Launch
      BY <1>3, <2>2 DEF Dep!Begin, Dep!Launch
    <2>3. CASE Dep!Skip
      <3>1. Dep!Record("skip") /\ chan' = chan
        BY <2>3 DEF Dep!Skip
      <3>2. QED
        BY <1>3, <1>5, <3>1
    <2>4. CASE Dep!Receive
      <3>1. /\ Dep!Record(Dep!Grade(Dep!Item, chan[Dep!Item])) /\ chan' = chan
            /\ chan[Dep!Item] # Dep!NoAnswer /\ depPhase = "select"
        BY <2>4 DEF Dep!Receive
      <3>2. chan[Dep!Item] = "expected"
        BY <1>3, <3>1, ItemIs
      <3>3. Dep!Record("ok")
        BY <3>1, <3>2, ExpectedIsOk
      <3>4. QED
        BY <1>3, <1>5, <3>1, <3>3
    <2>5. CASE Dep!Connect("expected")
      <3>1. /\ Dep!Record(Dep!Grade(Dep!Item, "expected"))
            /\ chan' = [chan EXCEPT ![Dep!Item] = "expected"]
        BY <2>5 DEF Dep!Connect
      <3>2. Dep!Record("ok")
        BY <3>1, ExpectedIsOk
      <3>3. QED
        BY <1>4, <1>5, <3>1, <3>2
    <2>6. QED
      BY <2>1, <2>2, <2>3, <2>4, <2>5 DEF Dep!Main
  <1>7. CASE ToolAnswers
    <2>1. Dep!Tool({"expected"})
      BY <1>3, <1>7 DEF ToolAnswers
    <2>2. Dep!Started(Dep!Item) \/ Dep!Ended(Dep!Item, "expected")
      BY <2>1 DEF Dep!Tool
    <2>3. QED
      BY <1>3, <1>4, <2>2 DEF Dep!Started, Dep!Ended
  <1>8. CASE LateEnd
    <2>1. PICK i : i \in Dep!Judged /\ process[i] = "started"
      BY <1>8 DEF LateEnd, Dep!LateEnd, Dep!Ended
    <2>2. PICK k \in DOMAIN dependencies : dependencies[k].Item = i
      BY <2>1 DEF Dep!Judged
    <2>3. k \in 1 .. Len(dependencies)
      BY <1>3, <2>2
    <2>4. dependencies[k].Status \in Bad
      BY <2>1, <2>2, <2>3 DEF DepTold
    <2>5. QED
      BY <1>3, <2>2, <2>4 DEF Bad
  <1>9. CASE UNCHANGED deps
    BY <1>3, <1>9 DEF deps
  <1>10. QED
    BY <1>6, <1>7, <1>8, <1>9, OthersLeaveDeps DEF Next, Work

LEMMA DepsCalmAlways == Spec => []DepsCalm
  <1>1. Init => DepsCalm
    <2> SUFFICES ASSUME Init PROVE DepsCalm
      OBVIOUS
    <2>1. dependencies = <<>> /\ chan = [i \in Dep!ToSet(Dep!Items) |-> Dep!NoAnswer]
      BY DEF Init, Dep!Init
    <2>2. Named = Dep!ToSet(Dep!Items)
      BY ItemsAre DEF Named
    <2>3. QED
      BY <2>1, <2>2 DEF DepsCalm
  <1>2. QED
    BY <1>1, DepsCalmNext, DepAlways, DepToldAlways, PTL DEF Spec

-----------------------------------------------------------------------------
(* Elasticsearch in good health *)

\* With no part in trouble, every node of Elasticsearch answers, its health is green and
\* nothing waits; the node elected is one that answered.
EsCalm ==
    env.troubled = {} =>
        /\ \A i \in DOMAIN reach : reach[i] \in {"pending", "ok"}
        /\ cluster.Error = "" /\ cluster.Status \in {"", "green"}
        /\ cluster.UnassignedShards = 0 /\ cluster.PendingTasks = 0
        /\ \A i \in DOMAIN cluster.Nodes :
            cluster.Nodes[i].HeapPercent = 0 /\ cluster.Nodes[i].RAMPercent = 0
        /\ {"Error", "Status", "UnassignedShards", "PendingTasks", "Nodes"} \subseteq DOMAIN cluster

LEMMA EsCalmProbe ==
    ASSUME Loaded, EsInv, EsTold, EsCalm, ProbeES, env' = env, env.troubled = {}
    PROVE  EsCalm'
  <1> DEFINE ips == cfg.hosts["es7"]
  <1>1. /\ \A i \in DOMAIN reach : reach[i] \in {"pending", "ok"}
        /\ cluster.Error = "" /\ cluster.Status \in {"", "green"}
        /\ cluster.UnassignedShards = 0 /\ cluster.PendingTasks = 0
        /\ \A i \in DOMAIN cluster.Nodes :
            cluster.Nodes[i].HeapPercent = 0 /\ cluster.Nodes[i].RAMPercent = 0
        /\ {"Error", "Status", "UnassignedShards", "PendingTasks", "Nodes"} \subseteq DOMAIN cluster
    BY DEF EsCalm
  <1>2. \/ Es!Begin \/ Es!Elect \/ (\E i \in DOMAIN reach : Es!Reached(i, ""))
        \/ Es!GetNodes(Es!GoodNodes) \/ Es!GetHealth(Es!GoodHealth)
    BY Zenon DEF ProbeES, Pick, Troubled
  <1>3. CASE Es!Begin
    <2>1. reach' = [i \in DOMAIN ips |-> "pending"] /\ cluster' = cluster
      BY <1>3 DEF Es!Begin
    <2>2. QED
      BY <1>1, <2>1 DEF EsCalm
  <1>4. CASE Es!Elect
    <2> DEFINE up == {i \in DOMAIN ips : reach[i] = "ok"}
    <2>1. esPhase = "probing" /\ reach' = reach /\ \A i \in DOMAIN ips : reach[i] # "pending"
      BY <1>4 DEF Es!Elect
    <2>2. DOMAIN reach = DOMAIN ips /\ ips # <<>> /\ List(ips)
      BY <2>1, LoadedLists, NamedLists DEF EsInv, EsTold
    <2>3. 1 \in DOMAIN ips
      BY <2>2, NoElement, Positions
    <2>4. 1 \in up
      BY <1>1, <2>1, <2>2, <2>3
    <2>5. cluster' = [cluster EXCEPT !.leader = Es!CHECKS!Min(up)]
      BY <1>4, <2>4 DEF Es!Elect
    <2> HIDE DEF up
    <2>6. QED
      BY <1>1, <2>1, <2>5 DEF EsCalm
  <1>5. ASSUME NEW i \in DOMAIN reach, Es!Reached(i, "") PROVE EsCalm'
    <2>1. reach' = [reach EXCEPT ![i] = "ok"] /\ cluster' = cluster
      BY <1>5 DEF Es!Reached, Es!NoError, Es!CHECKS!NoError
    <2>2. QED
      BY <1>1, <2>1 DEF EsCalm
  <1>6. CASE Es!GetNodes(Es!GoodNodes)
    <2>1. reach' = reach /\ cluster' = [cluster EXCEPT !.Nodes = Es!GoodNodes]
      BY <1>6 DEF Es!GetNodes
    <2>2. \A i \in DOMAIN Es!GoodNodes :
            Es!GoodNodes[i].HeapPercent = 0 /\ Es!GoodNodes[i].RAMPercent = 0
      BY DEF Es!GoodNodes
    <2>3. QED
      BY <1>1, <2>1, <2>2 DEF EsCalm
  <1>7. CASE Es!GetHealth(Es!GoodHealth)
    <2>1. /\ reach' = reach
          /\ cluster' = [cluster EXCEPT !.Status = "green", !.UnassignedShards = 0,
                                        !.PendingTasks = 0]
      BY <1>7 DEF Es!GetHealth, Es!GoodHealth
    <2>2. QED
      BY <1>1, <2>1 DEF EsCalm
  <1>8. QED
    BY <1>2, <1>3, <1>4, <1>5, <1>6, <1>7

LEMMA EsCalmNext == Loaded /\ EsInv /\ EsTold /\ EsCalm /\ [Next]_vars => EsCalm'
  <1> SUFFICES ASSUME Loaded, EsInv, EsTold, EsCalm, [Next]_vars PROVE EsCalm'
    OBVIOUS
  <1>1. env' = env
    BY ConfigStays DEF config
  <1>2. CASE env.troubled # {}
    BY <1>1, <1>2 DEF EsCalm
  <1>3. CASE env.troubled = {} /\ ProbeES
    BY <1>1, <1>3, EsCalmProbe
  <1>4. CASE ~ ProbeES
    <2>1. UNCHANGED es
      BY <1>4, OthersLeaveES
    <2>2. QED
      BY <1>1, <2>1 DEF es, EsCalm
  <1>5. QED
    BY <1>2, <1>3, <1>4

LEMMA EsCalmAlways == Spec => []EsCalm
  <1>1. Init => EsCalm
    <2> SUFFICES ASSUME Init PROVE EsCalm
      OBVIOUS
    <2>1. reach = <<>> /\ cluster = Es!NoCluster
      BY DEF Init, Es!Init
    <2>2. /\ cluster.Error = "" /\ cluster.Status = "" /\ cluster.UnassignedShards = 0
          /\ cluster.PendingTasks = 0 /\ cluster.Nodes = <<>>
          /\ {"Error", "Status", "UnassignedShards", "PendingTasks", "Nodes"}
                \subseteq DOMAIN cluster
      BY <2>1 DEF Es!NoCluster
    <2>3. DOMAIN <<>> = {}
      OBVIOUS
    <2>4. QED
      BY <2>1, <2>2, <2>3 DEF EsCalm
  <1>2. QED
    BY <1>1, EsCalmNext, LoadedAlways, EsToldAlways, PTL DEF Spec

-----------------------------------------------------------------------------
(* The sections of one step, in good health *)

AllAre(a, good) == \A i \in DOMAIN a : a[i] = good

\* Healthy sentinels agree on a master.
Agreed(a, list, hosts) ==
    /\ \A i \in DOMAIN list : a.pong[i] = "" 
    /\ \E h \in hosts : \A i \in DOMAIN list : a.master[i] = h
    /\ a.alive

MasterHosts == LET masters == ToSet(cfg.hosts["redis_master"])
               IN  IF masters = {} THEN ToSet(cfg.AllHosts) ELSE masters

WellReplicated(a) ==
    /\ AllAre(a["mysql_master"], REP!MasterGood) /\ AllAre(a["mysql_slave"], REP!SlaveGood)
    /\ AllAre(a["redis_master"], REP!RedisReplGood("master"))
    /\ AllAre(a["redis_slave"], REP!RedisReplGood("slave"))

\* With no part in trouble, what the collectors of one step were answered is good.
AnswersCalm ==
    env.troubled = {} =>
        /\ stage \in PastHosts => AllAre(answers["hosts"], HOST!HostGood)
        /\ stage \in PastRedis => AllAre(answers["redis"], DB!RedisGood)
        /\ stage \in PastSentinel =>
            Agreed(answers["sentinel"], cfg.hosts["sentinel"], MasterHosts)
        /\ stage \in PastMongo => answers["mongo"] = DB!MongoGood
        /\ stage \in PastBroker => answers["rabbitmq"] = MQ!BrokerGood(VHosts)
        /\ stage \in PastReplication => WellReplicated(answers["replication"])

LEMMA Calmly == ASSUME env.troubled = {}, NEW what, NEW all, NEW good PROVE Pick(what, all, good) = good
  BY DEF Pick, Troubled

LEMMA GoodOfEach ==
    ASSUME NEW D, NEW good, NEW a \in [D -> {good}]
    PROVE  AllAre(a, good)
  BY DEF AllAre

LEMMA AnswersCalmNext ==
    Loaded /\ Collected /\ AnswersCalm /\ [Next]_vars => AnswersCalm'
  <1> SUFFICES ASSUME Loaded, Collected, AnswersCalm, [Next]_vars PROVE AnswersCalm'
    OBVIOUS
  <1>1. env' = env /\ cfg' = cfg /\ MasterHosts' = MasterHosts
    BY ConfigStays DEF config, MasterHosts
  <1> SUFFICES ASSUME env.troubled = {} PROVE AnswersCalm'
    BY <1>1 DEF AnswersCalm
  <1>2. \A s \in Sections : stage # s => answers'[s] = answers[s]
    BY Untouched
  <1>3. ASSUME NEW s \in Sections, NEW a, answers' = [answers EXCEPT ![s] = a]
        PROVE  answers'[s] = a
    BY <1>3 DEF Collected
  <1>4. {"hosts", "redis", "sentinel", "mongo", "rabbitmq", "replication"} \subseteq Sections
    BY DEF Sections
  <1>5. /\ stage \in PastHosts => stage # "hosts"
        /\ stage \in PastRedis => stage # "redis"
        /\ stage \in PastSentinel => stage # "sentinel"
        /\ stage \in PastMongo => stage # "mongo"
        /\ stage \in PastBroker => stage # "rabbitmq"
        /\ stage \in PastReplication => stage # "replication"
    BY DEF PastHosts, PastServices, PastMySQL, PastRedis, PastSentinel, PastMongo, PastBroker,
           PastReplication
  <1>6. stage' \in PastHosts => AllAre(answers'["hosts"], HOST!HostGood)
    <2>1. ASSUME CollectAllHosts PROVE AllAre(answers'["hosts"], HOST!HostGood)
      <3>1. PICK a \in [DOMAIN cfg.AllHosts -> {HOST!HostGood}] :
                answers' = [answers EXCEPT !["hosts"] = a]
        BY <2>1, Calmly, Zenon DEF CollectAllHosts, Collect
      <3>2. QED
        BY <1>3, <1>4, <3>1, GoodOfEach
    <2>2. ASSUME stage \in PastHosts PROVE AllAre(answers'["hosts"], HOST!HostGood)
      BY <1>2, <1>4, <1>5, <2>2 DEF AnswersCalm
    <2>3. QED
      BY <2>1, <2>2, Passing
  <1>7. stage' \in PastRedis => AllAre(answers'["redis"], DB!RedisGood)
    <2>1. ASSUME CollectRedisStandalone PROVE AllAre(answers'["redis"], DB!RedisGood)
      <3>1. PICK a \in [DOMAIN cfg.hosts["redis"] -> {DB!RedisGood}] :
                answers' = [answers EXCEPT !["redis"] = a]
        BY <2>1, Calmly, Zenon DEF CollectRedisStandalone, Collect, Each
      <3>2. QED
        BY <1>3, <1>4, <3>1, GoodOfEach
    <2>2. ASSUME stage \in PastRedis PROVE AllAre(answers'["redis"], DB!RedisGood)
      BY <1>2, <1>4, <1>5, <2>2 DEF AnswersCalm
    <2>3. QED
      BY <2>1, <2>2, Passing
  <1>8. stage' \in PastSentinel =>
            Agreed(answers'["sentinel"], cfg.hosts["sentinel"], MasterHosts)
    <2> DEFINE list == cfg.hosts["sentinel"]
    <2>1. ASSUME CollectRedisSentinel PROVE Agreed(answers'["sentinel"], list, MasterHosts)
      <3>1. SentinelAnswers = DB!SentinelGood(list, MasterHosts)
        BY Calmly DEF SentinelAnswers, MasterHosts
      <3>2. PICK a \in SentinelAnswers : answers' = [answers EXCEPT !["sentinel"] = a]
        BY <2>1, Zenon DEF CollectRedisSentinel, Collect
      <3>3. /\ a.pong = [i \in DOMAIN list |-> ""] /\ a.alive = TRUE
            /\ \E h \in MasterHosts : a.master = [i \in DOMAIN list |-> h]
        BY <3>1, <3>2 DEF DB!SentinelGood, DB!NoError
      <3>4. Agreed(a, list, MasterHosts)
        BY <3>3 DEF Agreed
      <3>5. QED
        BY <1>3, <1>4, <3>2, <3>4
    <2>2. ASSUME stage \in PastSentinel PROVE Agreed(answers'["sentinel"], list, MasterHosts)
      BY <1>2, <1>4, <1>5, <2>2 DEF AnswersCalm
    <2>3. QED
      BY <2>1, <2>2, Passing
  <1>9. stage' \in PastMongo => answers'["mongo"] = DB!MongoGood
    <2>1. ASSUME CollectMongo PROVE answers'["mongo"] = DB!MongoGood
      <3>1. PICK a \in Pick("mongo", DB!MongoAnswers, {DB!MongoGood}) :
                answers' = [answers EXCEPT !["mongo"] = a]
        BY <2>1, Zenon DEF CollectMongo, Collect
      <3>2. a = DB!MongoGood
        BY Calmly
      <3>3. QED
        BY <1>3, <1>4, <3>1, <3>2
    <2>2. QED
      BY <1>2, <1>4, <1>5, <2>1, Passing DEF AnswersCalm
  <1>10. stage' \in PastBroker => answers'["rabbitmq"] = MQ!BrokerGood(VHosts)
    <2>1. ASSUME CollectRabbitMQ PROVE answers'["rabbitmq"] = MQ!BrokerGood(VHosts)
      <3>1. PICK a \in Pick("rabbitmq", MQ!BrokerAnswers(VHosts), {MQ!BrokerGood(VHosts)}) :
                answers' = [answers EXCEPT !["rabbitmq"] = a]
        BY <2>1, Zenon DEF CollectRabbitMQ, Collect
      <3>2. a = MQ!BrokerGood(VHosts)
        BY Calmly
      <3>3. QED
        BY <1>3, <1>4, <3>1, <3>2
    <2>2. QED
      BY <1>2, <1>4, <1>5, <2>1, Passing DEF AnswersCalm
  <1>11. stage' \in PastReplication => WellReplicated(answers'["replication"])
    <2>1. ASSUME CollectReplication PROVE WellReplicated(answers'["replication"])
      <3>1. PICK a \in ReplicationAnswers : answers' = [answers EXCEPT !["replication"] = a]
        BY <2>1, Zenon DEF CollectReplication, Collect
      <3> DEFINE Masters == Pick("mysql_master", REP!MasterAnswers, {REP!MasterGood})
                 Slaves == Pick("mysql_slave", REP!SlaveAnswers, {REP!SlaveGood})
                 RedisMasters ==
                    Pick("redis_master", REP!RedisReplAnswers, {REP!RedisReplGood("master")})
                 RedisSlaves ==
                    Pick("redis_slave", REP!RedisReplAnswers, {REP!RedisReplGood("slave")})
      <3>2. a \in [mysql_master : [DOMAIN cfg.hosts["mysql_master"] -> Masters],
                   mysql_slave : [DOMAIN cfg.hosts["mysql_slave"] -> Slaves],
                   redis_master : [DOMAIN cfg.hosts["redis_master"] -> RedisMasters],
                   redis_slave : [DOMAIN cfg.hosts["redis_slave"] -> RedisSlaves]]
        BY <3>1 DEF ReplicationAnswers, Each
      <3>3. /\ Masters = {REP!MasterGood} /\ Slaves = {REP!SlaveGood}
            /\ RedisMasters = {REP!RedisReplGood("master")}
            /\ RedisSlaves = {REP!RedisReplGood("slave")}
        BY Calmly
      <3> HIDE DEF Masters, Slaves, RedisMasters, RedisSlaves
      <3>4. /\ a["mysql_master"] \in [DOMAIN cfg.hosts["mysql_master"] -> {REP!MasterGood}]
            /\ a["mysql_slave"] \in [DOMAIN cfg.hosts["mysql_slave"] -> {REP!SlaveGood}]
            /\ a["redis_master"]
                \in [DOMAIN cfg.hosts["redis_master"] -> {REP!RedisReplGood("master")}]
            /\ a["redis_slave"]
                \in [DOMAIN cfg.hosts["redis_slave"] -> {REP!RedisReplGood("slave")}]
        BY <3>2, <3>3
      <3>5. WellReplicated(a)
        BY <3>4, GoodOfEach, Zenon DEF WellReplicated
      <3>6. QED
        BY <1>3, <1>4, <3>1, <3>5
    <2>2. ASSUME stage \in PastReplication PROVE WellReplicated(answers'["replication"])
      BY <1>2, <1>4, <1>5, <2>2 DEF AnswersCalm
    <2>3. QED
      BY <2>1, <2>2, Passing
  <1>12. QED
    BY <1>1, <1>6, <1>7, <1>8, <1>9, <1>10, <1>11
       DEF AnswersCalm, PastHosts, PastServices, PastMySQL, PastRedis, PastSentinel, PastMongo,
           PastBroker, PastReplication

LEMMA AnswersCalmAlways == Spec => []AnswersCalm
  <1>1. Init => AnswersCalm
    BY DEF Init, AnswersCalm, PastHosts, PastServices, PastMySQL, PastRedis, PastSentinel,
           PastMongo, PastBroker, PastReplication
  <1>2. QED
    BY <1>1, AnswersCalmNext, LoadedAlways, CollectedAlways, PTL DEF Spec

=============================================================================
