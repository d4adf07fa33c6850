----------------------------- MODULE Collection -----------------------------
(***************************************************************************)
(* One collection: main.go from config.Load to the summary.  Main collects  *)
(* hosts, services and components one after the other; hosts and services   *)
(* are judged as soon as they are there, the components at the end.         *)
(*                                                                          *)
(* Goroutines are steps of their own in the services, in Elasticsearch and  *)
(* in the dependency probes.  The other collectors share nothing, and take  *)
(* one step each: HostCollect models how hosts are reached, Databases,      *)
(* Broker, Replication and HostRules what is made of the answers.           *)
(* Inspect goes on from the rows.                                           *)
(* A definition X_Change is a deliberately wrong variant of X.              *)
(***************************************************************************)
EXTENDS Config, FiniteSets

CONSTANTS
    Environments,  \* environments the program is started in
    VHosts         \* virtual hosts of the broker

VARIABLES
    env,           \* the environment; env.troubled: what may answer badly
    cfg,           \* config.Config; does not change
    stage,         \* where main is
    answers,       \* what the collectors of one step were answered
    report,        \* their sections of the report; <<>> is nil
    checks,        \* allChecks
    svcPhase, at, reply, mu, copy, results,         \* ServiceCollect
    esPhase, reach, cluster,                        \* ESCollect
    depPhase, dependencies, process, chan           \* DepProbes

config == <<env, cfg>>
services == <<svcPhase, at, reply, mu, copy, results>>
es == <<esPhase, reach, cluster>>
deps == <<depPhase, dependencies, process, chan>>
vars == <<config, stage, answers, report, checks, services, es, deps>>

Svc == INSTANCE ServiceCollect WITH moduleHosts <- GetModuleHosts(cfg), phase <- svcPhase
Es  == INSTANCE ESCollect WITH ips <- cfg.hosts["es7"], phase <- esPhase
Dep == INSTANCE DepProbes WITH hosts <- cfg.hosts, deps <- cfg.deps, phase <- depPhase,
                               results <- dependencies
CHECKS == INSTANCE Probe
HOST == INSTANCE HostRules
DB == INSTANCE Databases
MQ == INSTANCE Broker
REP == INSTANCE Replication

\* strings.Split gives lists, of which an empty address is a blank entry; what strconv
\* accepts is a number.
ASSUME EnvironmentAssumption ==
    \A e \in Environments :
        /\ \A l \in Lists : /\ e.lists[l] \in Seq(ToSet(e.lists[l]))
                            /\ DB!NoOne \notin ToSet(e.lists[l])
        /\ \A n \in Numbers : e.numbers[n] \in {Unset, Malformed} \/ e.numbers[n] \in Int

\* A broker has a virtual host.
ASSUME VHostAssumption == VHosts # {}

\* The collectors of one step, in the order they are called.
Sections == {"hosts", "mysql", "redis", "sentinel", "mongo", "rabbitmq", "replication"}

-----------------------------------------------------------------------------
(* What may be answered *)

Troubled(what) == what \in env.troubled
Pick(what, all, good) == IF Troubled(what) THEN all ELSE good

\* An answer of each entry of a list.
Each(list, set) == [DOMAIN cfg.hosts[list] -> set]

SentinelAnswers ==
    LET list == cfg.hosts["sentinel"]
        hosts == ToSet(cfg.AllHosts)
        masters == ToSet(cfg.hosts["redis_master"])
    IN  Pick("sentinel", DB!SentinelAnswers(list, hosts),
             DB!SentinelGood(list, IF masters = {} THEN hosts ELSE masters))

ReplicationAnswers ==
    LET Redis(list, role) ==
            Each(list, Pick(list, REP!RedisReplAnswers, {REP!RedisReplGood(role)}))
    IN  [mysql_master : Each("mysql_master",
                            Pick("mysql_master", REP!MasterAnswers, {REP!MasterGood})),
         mysql_slave : Each("mysql_slave",
                            Pick("mysql_slave", REP!SlaveAnswers, {REP!SlaveGood})),
         redis_master : Redis("redis_master", "master"),
         redis_slave : Redis("redis_slave", "slave")]

GoodReply(m, r) ==
    Svc!Whole(m, r) /\ ToSet(r.out) \subseteq {"active", "good", "N/A", "none", "up"}
ServiceReplies(m) ==
    Pick("services", Svc!Replies(m), {r \in Svc!Replies(m) : ~ r.silent /\ GoodReply(m, r)})

-----------------------------------------------------------------------------
(* Main *)

Init ==
    /\ env \in Environments
    /\ cfg = Load(env)
    /\ stage = "load"
    /\ answers = [s \in Sections \cup {"es"} |-> <<>>]
    /\ report = [s \in Sections |-> <<>>]
    /\ checks = <<>>
    /\ Svc!Init /\ Es!Init /\ Dep!Init

\* Load, Validate.
Start ==
    /\ stage = "load"
    /\ stage' = IF LoadFails(env) \/ ~ Validate(cfg) THEN "exit" ELSE "hosts"
    /\ UNCHANGED <<config, answers, report, checks, services, es, deps>>

\* The one-step collector of a section was answered a; value is nil or its section.
Collect(section, next, a, value) ==
    /\ stage = section /\ stage' = next
    /\ answers' = [answers EXCEPT ![section] = a]
    /\ report' = [report EXCEPT ![section] = value]
    /\ UNCHANGED <<config, services, es, deps>>

\* CollectAllHosts, and CheckHost for each host.
CollectAllHosts ==
    \E a \in [DOMAIN cfg.AllHosts -> Pick("hosts", HOST!HostAnswers, {HOST!HostGood})] :
        LET metrics == [i \in DOMAIN cfg.AllHosts |->
                            HOST!parseHostOutput(cfg.AllHosts[i], a[i], cfg)]
            Rows(h) == HOST!CheckHost(h, cfg.Thresholds)
        IN  /\ Collect("hosts", "services", a, metrics)
            /\ checks' = CHECKS!RowsOfEach(metrics, Rows)

\* The modules of the map, in any order: here in one that does not change.
CheckServices ==
    /\ stage = "services" /\ stage' = "es"
    /\ svcPhase = "done"
    /\ LET Rows(s) == Svc!ServiceRows(s, cfg.Thresholds["docker_exited"])
           OfModule(m, rows) == rows \o CHECKS!RowsOfEach(results[m], Rows)
       IN  checks' = CHECKS!FoldSet(OfModule, checks, DOMAIN results)
    /\ UNCHANGED <<config, answers, report, services, es, deps>>

\* ctx goes on to the next collector.
EndES ==
    /\ stage = "es" /\ stage' = "mysql"
    /\ esPhase = "done"
    /\ UNCHANGED <<config, answers, report, checks, services, es, deps>>

\* Nil when the list is empty.
Unless(list, section) == IF cfg.hosts[list] = <<>> THEN <<>> ELSE <<section>>

CollectMySQL ==
    \E a \in Each("mysql", Pick("mysql", DB!MySQLAnswers, {DB!MySQLGood})) :
        Collect("mysql", "redis", a,
                Unless("mysql", DB!CollectMySQL(cfg.hosts["mysql"], a)))

CollectRedisStandalone ==
    \E a \in Each("redis", Pick("redis", DB!RedisAnswers, {DB!RedisGood})) :
        Collect("redis", "sentinel", a,
                Unless("redis", DB!CollectRedisStandalone(cfg.hosts["redis"], a)))

\* With CrossCheckSentinelMaster.
CollectRedisSentinel ==
    \E a \in SentinelAnswers :
        Collect("sentinel", "mongo", a, Unless("sentinel",
            DB!RedisSentinelSection(cfg.hosts["sentinel"], a, cfg.hosts["redis_master"])))

CollectMongo ==
    \E a \in Pick("mongo", DB!MongoAnswers, {DB!MongoGood}) :
        Collect("mongo", "rabbitmq", a, Unless("mongodb", DB!CollectMongo(a)))

CollectRabbitMQ ==
    \E a \in Pick("rabbitmq", MQ!BrokerAnswers(VHosts), {MQ!BrokerGood(VHosts)}) :
        Collect("rabbitmq", "replication", a, Unless("rabbitmq", MQ!CollectRabbitMQ(a, cfg)))

CollectReplication ==
    \E a \in ReplicationAnswers :
        Collect("replication", "deps", a,
                IF \A l \in ReplicationLists : cfg.hosts[l] = <<>> THEN <<>>
                ELSE <<REP!CollectReplication(cfg, a)>>)

Connections ==
    /\ CollectMySQL \/ CollectRedisStandalone \/ CollectRedisSentinel
       \/ CollectMongo \/ CollectRabbitMQ \/ CollectReplication
    /\ UNCHANGED checks

\* The rules for the components and, with the last rows, the summary.
CheckComponents ==
    /\ stage = "deps" /\ stage' = "done"
    /\ depPhase = "done"
    /\ LET Redis(nodes) == DB!CheckRedis(nodes, cfg.Thresholds)
       IN  checks' = checks
            \o (IF cfg.hosts["es7"] = <<>> THEN <<>>
                ELSE Es!CheckES(cluster, cfg.hosts["es7"], cfg.Thresholds))
            \o CHECKS!RowsOfEach(report["redis"], Redis)
            \o CHECKS!RowsOfEach(report["sentinel"], DB!CheckRedisSentinel)
            \o CHECKS!RowsOfEach(report["mongo"], DB!CheckMongo)
            \o CHECKS!RowsOfEach(report["rabbitmq"], MQ!CheckRabbitMQ)
            \o Dep!CheckBKDeps(dependencies)
            \o CHECKS!RowsOfEach(report["replication"], REP!CheckReplication)
    /\ UNCHANGED <<config, answers, report, services, es, deps>>

Ended == stage \in {"exit", "done"} \/ depPhase = "panicked"

-----------------------------------------------------------------------------
(* The goroutines, the tools and the servers *)

InServices == stage = "services" /\ UNCHANGED <<config, stage, answers, report, checks, es, deps>>
InES       == stage = "es" /\ UNCHANGED <<config, stage, report, checks, services, deps>>
InDeps     == UNCHANGED <<config, stage, answers, report, checks, services, es>>

Gather == InServices /\ Svc!Own

HostAnswers ==
    /\ InServices
    /\ \E j \in DOMAIN at : \E r \in ServiceReplies(j[1]) : Svc!Answer(j, r)

ProbeES ==
    /\ InES
    /\ \/ /\ UNCHANGED answers
          /\ \/ Es!Begin \/ Es!Elect
             \/ Troubled("es") /\ Es!NoCurl
             \/ \E i \in DOMAIN reach : \E err \in Pick("es", Es!CurlErrors, {}) \cup {""} :
                    Es!Reached(i, err)
             \/ \E n \in Pick("es", Es!Nodes, {Es!GoodNodes}) : Es!GetNodes(n)
       \/ \E h \in Pick("es", Es!Health, {Es!GoodHealth}) :
            Es!GetHealth(h) /\ answers' = [answers EXCEPT !["es"] = <<h>>]

DepAnswers == Pick("deps", Dep!Answers, {"expected"})

ProbeDeps ==
    /\ InDeps /\ stage = "deps"
    /\ \/ Dep!Main(DepAnswers)
       \/ Troubled("deps") /\ Dep!Lag

ToolAnswers == InDeps /\ Dep!Tool(DepAnswers)

\* A goroutine of a probe that was given up, whatever main does by now.
LateEnd ==
    /\ InDeps
    /\ ~ Ended
    /\ \E i \in DOMAIN process : Dep!LateEnd(i)

-----------------------------------------------------------------------------

Work ==
    \/ Start \/ CollectAllHosts \/ CheckServices \/ EndES \/ Connections \/ CheckComponents
    \/ Gather \/ ProbeES \/ ProbeDeps

Next == Work \/ HostAnswers \/ ToolAnswers \/ LateEnd

Spec == Init /\ [][Next]_vars

\* Main and the goroutines go on; databases, the broker and Elasticsearch are called
\* with deadlines, and so are the tools: a timer ends what they do not.  A tool of a
\* dependency in good health answers.  A host's answer over SSH may never come.
FairSpec == Spec /\ WF_vars(Work) /\ WF_vars(~ Troubled("deps") /\ ToolAnswers)

-----------------------------------------------------------------------------
(* Properties *)

Alarms == {"warn", "notice"}
RoleOf == [redis_master |-> "master", redis_slave |-> "slave"]
Judged == stage = "done"

\* The rows with one of the statuses whose field begins like this.
Rows(prefix, statuses) ==
    {r \in ToSet(checks) : r.status \in statuses /\ IsPrefix(prefix, r.field)}
Count(field, status) ==
    Cardinality({k \in DOMAIN checks : checks[k].field = field /\ checks[k].status = status})

TypeOK ==
    /\ stage \in Sections \cup {"load", "exit", "services", "es", "deps", "done"}
    /\ Svc!TypeOK
    /\ \A r \in ToSet(checks) : r.status \in {"ok", "warn", "notice", "unknown"}
    /\ \A s \in Sections : stage \in {"load", "exit"} => report[s] = <<>>
    /\ Len(dependencies) <= Len(Dep!Items)
    /\ \A k \in DOMAIN dependencies : dependencies[k].Item = Dep!Items[k]

\* buildAllHosts (config.go): a host named in several lists, or twice in one, is asked
\* once; one named anywhere but in a replication list is asked.
EveryHostOnce ==
    LET named == (UNION {ToSet(env.lists[l]) : l \in ToSet(HostLists)}) \ {Blank}
    IN  stage \notin {"load", "exit", "hosts"} =>
            /\ {h.IP : h \in ToSet(report["hosts"])} = named
            /\ Len(report["hosts"]) = Cardinality(named)

\* CollectAllServices (service.go): when it returns, every host of every module has
\* its entry under the module.
NobodyMissing == Svc!NobodyMissing

\* The goroutines of CollectAllServices, between Lock and Unlock one by one, do what
\* Gather says in single steps.
ServicesGathered == Svc!Gathering!Spec

\* What the verdict "ok" rests on.  The health row of a service is "ok" as often as a
\* host of its module sent the whole answer that is expected.  Where no answer is
\* expected (http_alive) it is as often as one sent anything but a whole "unreachable":
\* a part of an answer then counts, which may be a part of that word.  A dependency is
\* "ok" only if it said what is expected; but ZooKeeper if it took the connection, and
\* RabbitMQ if it said a word, be it to reject the login (see RejectedLoginTold).
OkMeansAnswered ==
    Judged =>
        /\ \A m \in DOMAIN results : \A i \in DOMAIN Svc!ModuleRegistry(m) :
            LET sub == Svc!ModuleRegistry(m)[i]
                alive == {"good"} \cup IF sub.HealthzType = "http_alive" THEN {"other", Svc!Part} ELSE {}
            IN  Count(<<"service", m, sub.name, "healthz">>, "ok")
                = Cardinality({j \in DOMAIN reply : j[1] = m /\ ~ sub.skipped
                                /\ \E k \in DOMAIN reply[j].out :
                                    /\ Svc!Sections(m)[k] = <<"HZ", i>>
                                    /\ reply[j].out[k] \in alive})
        /\ \A r \in Rows(<<"bkdeps">>, {"ok"}) :
            \/ chan[r.field[2]] = "expected"
            \/ r.field[2] = "rabbitmq" /\ chan[r.field[2]] \in {"rejected", "other"}
            \/ r.field[2] = "zookeeper" /\ chan[r.field[2]] \in {"rejected", "nothing", "other"}

\* Where asking failed outright, a row says so: a host of a service, a node of
\* Elasticsearch or its health, a Redis node, the replica set, the broker, a master of
\* MySQL, a node of Redis replication, a dependency.  MySQL nodes and slaves are not
\* among them: there the code is silent.
FailureTold ==
    Judged =>
        /\ \A j \in DOMAIN reply : reply[j].silent => Rows(<<"service", j[1]>>, Alarms) # {}
        /\ (cluster.Error # "" \/ \E i \in DOMAIN reach : reach[i] = "unreachable"
            \/ \E h \in ToSet(answers["es"]) : h.err # "")
                => Rows(<<"es">>, Alarms) # {}
        /\ \A i \in DOMAIN answers["redis"] : answers["redis"][i].err # "" =>
                Rows(<<"redis", cfg.hosts["redis"][i]>>, Alarms) # {}
        /\ (report["mongo"] # <<>> /\ answers["mongo"].err # "") => Rows(<<"mongo">>, Alarms) # {}
        /\ (report["rabbitmq"] # <<>> /\ (answers["rabbitmq"].nodes.err # ""
                                          \/ answers["rabbitmq"].queues.err # ""))
                => Rows(<<"rabbitmq">>, Alarms) # {}
        /\ \A l \in ReplicationLists \ {"mysql_slave"} :
            \A i \in DOMAIN cfg.hosts[l] : answers["replication"][l][i].err # "" =>
                \E c \in {"redis", "mysql_master"} : Rows(<<c, cfg.hosts[l][i]>>, {"warn"}) # {}
        /\ \A i \in Dep!Judged : chan[i] = "error" => Rows(<<"bkdeps", i>>, Alarms) # {}

\* CollectES (es.go): whatever order the nodes answer in, the cluster is asked for its
\* health through the first node of the list that is up, and only when all are known.
LeaderIsFirst ==
    /\ cluster.leader # 0 => /\ reach[cluster.leader] = "ok"
                             /\ \A i \in 1 .. cluster.leader - 1 : reach[i] = "unreachable"
    /\ Judged => \A i \in DOMAIN reach : reach[i] # "pending"

\* A host that could not be asked, or whose output broke off before its last rule,
\* never looks healthy (CheckHost does not read HostMetrics.Error).
CutHostWarned ==
    stage \notin {"load", "exit", "hosts"} =>
        \A i \in DOMAIN answers["hosts"] :
            answers["hosts"][i].got < Len(HOST!HostSections) - 1 =>
                Rows(<<"host", cfg.AllHosts[i]>>, {"warn"}) # {}

\* The sentinels raise nothing exactly when all of them answer and the master the
\* first of those that know one names is alive and, if masters are declared, declared.
SentinelVerdict ==
    (Judged /\ report["sentinel"] # <<>>) =>
        LET a == answers["sentinel"]
            masters == ToSet(cfg.hosts["redis_master"])
            naming == {i \in DOMAIN a.master : a.master[i] # DB!NoOne}
        IN  Rows(<<"redis_sentinel">>, Alarms) = {} <=>
                /\ \A i \in DOMAIN a.pong : a.pong[i] = ""
                /\ naming # {} /\ a.alive
                /\ masters # {} => a.master[CHECKS!Min(naming)] \in masters

\* The broker raises nothing exactly when the calls for nodes and queues came back as
\* JSON, no node or connection that was listed is in trouble, and no usual queue that
\* was is at the threshold or, outside the blacklist, left without a consumer.  Nothing
\* need have been listed: the JSON may be that of a rejected login (RejectedLoginTold).
BrokerVerdict ==
    (Judged /\ report["rabbitmq"] # <<>>) =>
        LET a == answers["rabbitmq"]
        IN  Rows(<<"rabbitmq">>, Alarms) = {} <=>
                /\ a.nodes.err = "" /\ a.queues.err = ""
                /\ \A n \in ToSet(a.nodes.list) : ~ (n.mem_alarm \/ n.disk_free_alarm \/ n.partitions)
                /\ "blocked" \notin ToSet(a.conns.list)
                /\ \A q \in ToSet(a.queues.list) :
                    q.usual => /\ q.messages < cfg.Thresholds["backlog"]
                               /\ q.consumers = 0 /\ q.messages > 0 => q.vhost \in cfg.vhosts

\* A host's slave is called "ok" exactly if it replicates, in time, by the row of SHOW
\* SLAVE STATUS or, where there is none, of SHOW REPLICA STATUS; its master exactly if
\* it takes writes, its link exactly if it is up and in time, its role exactly if it
\* is the declared one.  A host that is named twice gets a row of each kind for each
\* time, and one of them suffices.
ReplicationVerdict ==
    (Judged /\ report["replication"] # <<>>) =>
        LET a == answers["replication"]
            Ok(field) == Rows(field, {"ok"}) # {}
            InTime(row) == row.IO /\ row.SQL /\ REP!SecondsBehind(row) <= cfg.Thresholds["mysql_lag"]
            Row(s) == IF s.slave.rows # <<>> THEN s.slave.rows ELSE s.replica.rows
            Named(l, h) == {i \in DOMAIN cfg.hosts[l] : cfg.hosts[l][i] = h}
        IN  \A h \in UNION {ToSet(cfg.hosts[l]) : l \in ReplicationLists} :
            /\ Ok(<<"mysql_slave", h>>) <=>
                \E i \in Named("mysql_slave", h) :
                    \E row \in ToSet(Row(a.mysql_slave[i])) : InTime(row)
            /\ Ok(<<"mysql_master", h>>) <=>
                \E i \in Named("mysql_master", h) :
                    a.mysql_master[i].err = "" /\ ~ a.mysql_master[i].read_only
            /\ Ok(<<"redis", h, "link">>) <=>
                \E l \in DOMAIN RoleOf : \E i \in Named(l, h) :
                    /\ a[l][i].err = "" /\ a[l][i].role = "slave"
                    /\ a[l][i].up /\ a[l][i].io <= cfg.Thresholds["redis_io"]
            /\ Ok(<<"redis", h, "role">>) <=>
                \E l \in DOMAIN RoleOf : \E i \in Named(l, h) :
                    a[l][i].err = "" /\ a[l][i].role = RoleOf[l]

\* A broker that rejects the login, that of the calls for nodes and queues as well as
\* the one bkmonitorv3 is given (which its probe never tries), is not in order: some row
\* says so (openspec: bkmonitorv3-collection and collector-probe-framework, spec.md).
RejectedLoginTold ==
    LET a == answers["rabbitmq"]
    IN  (/\ Judged /\ report["rabbitmq"] # <<>>
         /\ a.nodes.rejected /\ a.queues.rejected /\ chan["rabbitmq"] = "rejected")
            => Rows(<<"rabbitmq">>, Alarms) \cup Rows(<<"bkdeps", "rabbitmq">>, Alarms) # {}

\* Thresholds that idling does not reach: usages and backlogs alarm from the threshold
\* on, the other readings above it.
Roomy ==
    /\ \A n \in {"cpu", "disk", "inode", "mem", "backlog"} : cfg.Thresholds[n] > 0
    /\ \A n \in {"mysql_lag", "redis_io", "es_heap", "es_ram", "es_unassigned", "celery",
                 "monitor", "docker_exited"} : cfg.Thresholds[n] >= 0

\* A platform in good health, blanks and repeated hosts in its lists or not, raises
\* neither a warning nor a notice, unless a threshold is so low that idling reaches it.
HealthyIsQuiet ==
    (Judged /\ env.troubled = {} /\ Roomy) =>
        /\ \A r \in ToSet(checks) : r.status \notin Alarms
        /\ CHECKS!Summarize(checks).Warn = 0

\* bkmonitor's dependencies are probed exactly when one of its roles is deployed, as
\* GetModuleHosts has it, with its fallback.
DepsIffRoles ==
    Judged => (dependencies # <<>> <=> \E m \in MonitorRoles : GetModuleHosts(cfg)[m] # <<>>)

\* runWithTimeout: what a command says after its timer went off reaches nobody.
DepsSettle == Dep!DepsSettle

\* Once the last host has answered for its services, collection ends, however the
\* components answer or do not.
CollectionEnds ==
    (svcPhase = "running" /\ \A j \in DOMAIN at : at[j] # "call") ~> Ended
=============================================================================
