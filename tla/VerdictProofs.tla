---------------------------- MODULE VerdictProofs ----------------------------
(***************************************************************************)
(* What the rows of a finished report say, for every set of environments    *)
(* and whatever is answered: which hosts are there, which failures are told *)
(* of, what the verdicts on the sentinels, the broker and replication rest  *)
(* on, and that good health is quiet.                                       *)
(***************************************************************************)
EXTENDS RowProofs

-----------------------------------------------------------------------------
(* The hosts *)

LEMMA HostsKnown ==
    ASSUME Facts, RowsInv, StageInv, stage \notin {"load", "exit", "hosts"}
    PROVE  /\ stage \in PastHosts /\ HostsCollected
           /\ List(cfg.AllHosts)
           /\ DOMAIN answers["hosts"] = DOMAIN cfg.AllHosts
           /\ report["hosts"] = [i \in DOMAIN cfg.AllHosts |-> report["hosts"][i]]
           /\ \A i \in DOMAIN cfg.AllHosts :
                /\ answers["hosts"][i] \in HOST!HostAnswers
                /\ report["hosts"][i]
                    = HOST!parseHostOutput(cfg.AllHosts[i], answers["hosts"][i], cfg)
                /\ report["hosts"][i].IP = cfg.AllHosts[i]
                /\ \A r : HostRow(report["hosts"][i], cfg.Thresholds, r) => r \in ToSet(checks)
  <1>1. stage \in PastHosts /\ HostsCollected
    BY DEF StageInv, Facts, Collected
  <1>2. List(cfg.AllHosts)
    BY LoadedHosts DEF Facts
  <1>3. /\ DOMAIN answers["hosts"] = DOMAIN cfg.AllHosts
        /\ report["hosts"] = [i \in DOMAIN cfg.AllHosts |-> report["hosts"][i]]
        /\ \A i \in DOMAIN cfg.AllHosts :
            /\ answers["hosts"][i] \in HOST!HostAnswers
            /\ report["hosts"][i] = HOST!parseHostOutput(cfg.AllHosts[i], answers["hosts"][i], cfg)
    BY <1>1 DEF HostsCollected
  <1>4. \A i \in DOMAIN cfg.AllHosts : report["hosts"][i].IP = cfg.AllHosts[i]
    BY <1>3, MetricsAre
  <1>5. DOMAIN report["hosts"] = DOMAIN cfg.AllHosts
    BY <1>3
  <1>6. \A i \in DOMAIN cfg.AllHosts : \A r :
            HostRow(report["hosts"][i], cfg.Thresholds, r) => r \in ToSet(checks)
    BY <1>1, <1>5 DEF RowsInv, Explained, FromHosts
  <1>7. QED
    BY <1>1, <1>2, <1>3, <1>4, <1>6

\* However the lists overlap and whatever blanks and repeats they have, the report has
\* each host of buildAllHosts' lists once, and no other.
THEOREM HostsOnce == Spec => []EveryHostOnce
  <1>1. Facts /\ RowsInv /\ StageInv => EveryHostOnce
    <2> DEFINE named == (UNION {ToSet(env.lists[l]) : l \in ToSet(HostLists)}) \ {Blank}
               list == report["hosts"]
    <2> SUFFICES ASSUME Facts, RowsInv, StageInv, stage \notin {"load", "exit", "hosts"}
                 PROVE  {h.IP : h \in ToSet(list)} = named /\ Len(list) = Cardinality(named)
      BY DEF EveryHostOnce
    <2>1. /\ List(cfg.AllHosts) /\ ToSet(cfg.AllHosts) = named
          /\ Len(cfg.AllHosts) = Cardinality(named)
      BY LoadedHosts DEF Facts
    <2>2. /\ list = [i \in DOMAIN cfg.AllHosts |-> list[i]]
          /\ \A i \in DOMAIN cfg.AllHosts : list[i].IP = cfg.AllHosts[i]
      BY HostsKnown
    <2> HIDE DEF list, named
    <2>3. DOMAIN list = DOMAIN cfg.AllHosts
      BY <2>2
    <2>4. Len(list) = Len(cfg.AllHosts)
      BY <2>1, <2>2, <2>3, Mapped
    <2>5. {h.IP : h \in ToSet(list)} = ToSet(cfg.AllHosts)
      BY <2>2, <2>3 DEF ToSet
    <2>6. QED
      BY <2>1, <2>4, <2>5
  <1>2. QED
    BY <1>1, AllKnown, PTL

\* Output that ends before firewalld's section leaves the field empty, which is not
\* what checkServiceState expects.
LEMMA CutOutput ==
    ASSUME NEW ip, NEW a \in HOST!HostAnswers, a.got < Len(HOST!HostSections) - 1
    PROVE  HOST!parseHostOutput(ip, a, cfg).Firewalld = ""
  <1>1. a.got \in Int
    <2>1. a.got = 0 \/ a.got \in 0 .. Len(HOST!HostSections)
      BY DEF HOST!HostAnswers
    <2>2. Len(HOST!HostSections) = 9
      BY DEF HOST!HostSections
    <2>3. QED
      BY <2>1, <2>2
  <1>2. a.got < 8
    BY DEF HOST!HostSections
  <1>3. \A k \in 1 .. 7 : HOST!HostSections[k] # "FIREWALLD"
    BY DEF HOST!HostSections
  <1>4. ~ \E k \in 1 .. a.got : HOST!HostSections[k] = "FIREWALLD"
    BY <1>1, <1>2, <1>3
  <1>5. QED
    BY <1>4, Zenon DEF HOST!parseHostOutput

\* A host that could not be asked, or whose output was cut, has a warning, although
\* CheckHost does not look at its error.
THEOREM CutHostsWarned == Spec => []CutHostWarned
  <1>1. Facts /\ RowsInv /\ StageInv => CutHostWarned
    <2> SUFFICES ASSUME Facts, RowsInv, StageInv, stage \notin {"load", "exit", "hosts"},
                        NEW i \in DOMAIN answers["hosts"],
                        answers["hosts"][i].got < Len(HOST!HostSections) - 1
                 PROVE  Rows(<<"host", cfg.AllHosts[i]>>, {"warn"}) # {}
      BY DEF CutHostWarned
    <2> DEFINE h == report["hosts"][i]
               r == Row("host", h.IP, "firewalld", Graded(h.Firewalld \in {"inactive", "N/A"}))
    <2>1. /\ i \in DOMAIN cfg.AllHosts /\ answers["hosts"][i] \in HOST!HostAnswers
          /\ h = HOST!parseHostOutput(cfg.AllHosts[i], answers["hosts"][i], cfg)
          /\ h.IP = cfg.AllHosts[i]
          /\ \A x : HostRow(h, cfg.Thresholds, x) => x \in ToSet(checks)
      BY HostsKnown
    <2>2. h.Firewalld = ""
      BY <2>1, CutOutput
    <2>3. HostRow(h, cfg.Thresholds, r)
      BY Zenon DEF HostRow
    <2>4. r = Row("host", cfg.AllHosts[i], "firewalld", "warn")
      BY <2>1, <2>2 DEF Graded
    <2> HIDE DEF h, r
    <2>5. Row("host", cfg.AllHosts[i], "firewalld", "warn") \in ToSet(checks)
      BY <2>1, <2>3, <2>4
    <2>6. QED
      BY <2>5, Told
  <1>2. QED
    BY <1>1, AllKnown, PTL

-----------------------------------------------------------------------------
(* Failures *)

\* Main is done.
LEMMA AtTheEnd ==
    ASSUME Facts, RowsInv, StageInv, stage = "done"
    PROVE  /\ svcPhase = "done" /\ depPhase = "done"
           /\ RedisCollected /\ SentinelCollected /\ MongoCollected /\ BrokerCollected
           /\ ReplicationCollected
           /\ \A n \in Numbers : cfg.Thresholds[n] \in Int
           /\ \A r : FromServices(r) \/ FromComponents(r) => r \in ToSet(checks)
           /\ \A r : r \in ToSet(checks) <=> FromHosts(r) \/ FromServices(r) \/ FromComponents(r)
  <1>1. /\ "done" \in PastHosts /\ "done" \in PastServices /\ "done" \in PastRedis
        /\ "done" \in PastSentinel /\ "done" \in PastMongo /\ "done" \in PastBroker
        /\ "done" \in PastReplication
    BY DEF PastHosts, PastServices, PastMySQL, PastRedis, PastSentinel, PastMongo, PastBroker,
           PastReplication
  <1>2. \A n \in Numbers : cfg.Thresholds[n] \in Int
    BY LoadedNumbers DEF Facts
  <1>3. svcPhase = "done" /\ depPhase = "done"
    BY <1>1 DEF StageInv, Facts, DepInv
  <1>4. /\ RedisCollected /\ SentinelCollected /\ MongoCollected /\ BrokerCollected
        /\ ReplicationCollected
    BY <1>1 DEF Facts, Collected
  <1>5. \A r : r \in ToSet(checks) <=> FromHosts(r) \/ FromServices(r) \/ FromComponents(r)
    BY <1>1, Zenon DEF RowsInv, Explained
  <1>6. QED
    BY <1>2, <1>3, <1>4, <1>5

LEMMA SilentTold ==
    ASSUME Facts, RowsInv, StageInv, stage = "done", NEW j \in DOMAIN reply, reply[j].silent
    PROVE  Rows(<<"service", j[1]>>, Alarms) # {}
  <1>1. /\ svcPhase = "done" /\ SvcProofs!IInv
        /\ \A r : FromServices(r) => r \in ToSet(checks)
    BY AtTheEnd DEF Facts
  <1>2. /\ j \in SvcProofs!Jobs /\ DOMAIN results = DOMAIN GetModuleHosts(cfg)
        /\ \E k \in DOMAIN results[j[1]] : results[j[1]][k] = SvcProofs!Entry(j)
    BY <1>1 DEF SvcProofs!IInv, SvcProofs!Types, SvcProofs!Kept
  <1>3. j[1] \in DOMAIN results
    BY <1>2, SvcProofs!JobParts
  <1>4. PICK k \in DOMAIN results[j[1]] : results[j[1]][k] = SvcProofs!Entry(j)
    BY <1>2
  <1> DEFINE e == results[j[1]][k]
             r == Row("service", e.Module, "collect_error", "notice")
  <1>5. e.Error = "ssh" /\ e.Module = j[1]
    BY <1>4 DEF SvcProofs!Entry, SvcProofs!collectServiceOnHost
  <1>6. ServiceRow(e, cfg.Thresholds["docker_exited"], r)
    BY <1>5 DEF ServiceRow
  <1>7. FromServices(r)
    BY <1>3, <1>6, Zenon DEF FromServices
  <1>8. r \in ToSet(checks) /\ r = Row("service", j[1], "collect_error", "notice")
    BY <1>1, <1>5, <1>7
  <1> HIDE DEF e, r
  <1>9. "notice" \in Alarms
    BY DEF Alarms
  <1>10. QED
    BY <1>8, <1>9, Told

LEMMA Somewhere == ASSUME NEW list, NEW i \in DOMAIN list PROVE list # <<>>
  <1>1. DOMAIN <<>> = {}
    OBVIOUS
  <1>2. QED
    BY <1>1

LEMMA ClusterTold ==
    ASSUME Facts, RowsInv, StageInv, stage = "done",
           \/ cluster.Error # ""
           \/ \E i \in DOMAIN reach : reach[i] = "unreachable"
           \/ \E h \in ToSet(answers["es"]) : h.err # ""
    PROVE  Rows(<<"es">>, Alarms) # {}
  <1> DEFINE ips == cfg.hosts["es7"]
  <1>1. EsTold /\ \A r : FromComponents(r) => r \in ToSet(checks)
    BY AtTheEnd DEF Facts
  <1>2. "warn" \in Alarms
    BY DEF Alarms
  <1>3. CASE cluster.Error # ""
    <2> DEFINE r == Row("es", "cluster", "cluster_error", "warn")
    <2>1. ips # <<>> /\ ESRow(cluster, ips, cfg.Thresholds, r)
      BY <1>1, <1>3 DEF EsTold, ESRow
    <2>2. r \in ToSet(checks)
      BY <1>1, <2>1 DEF FromComponents
    <2>3. QED
      BY <1>2, <2>2, Told
  <1>4. CASE cluster.Error = ""
    <2>1. PICK i \in DOMAIN reach : reach[i] = "unreachable"
      BY <1>1, <1>4 DEF EsTold
    <2> DEFINE r == Row("es", ips[i], "reachability", "warn")
    <2>2. ESRow(cluster, ips, cfg.Thresholds, r)
      BY <1>4, <2>1 DEF ESRow
    <2>3. i \in DOMAIN ips
      BY <1>1, <2>1 DEF EsTold
    <2>6. ips # <<>>
      BY <2>3, Somewhere
    <2>4. r \in ToSet(checks)
      BY <1>1, <2>2, <2>6 DEF FromComponents
    <2>5. QED
      BY <1>2, <2>4, Told
  <1>5. QED
    BY <1>3, <1>4

\* A section that is not nil is what was collected.
LEMMA SectionIs ==
    ASSUME NEW list, NEW v, NEW section, section = Unless(list, v), section # <<>>
    PROVE  cfg.hosts[list] # <<>> /\ 1 \in DOMAIN section /\ section[1] = v
  BY DEF Unless

LEMMA RedisTold ==
    ASSUME Facts, RowsInv, StageInv, stage = "done",
           NEW i \in DOMAIN answers["redis"], answers["redis"][i].err # ""
    PROVE  Rows(<<"redis", cfg.hosts["redis"][i]>>, Alarms) # {}
  <1> DEFINE list == cfg.hosts["redis"]
             nodes == DB!CollectRedisStandalone(list, answers["redis"])
             r == Row("redis", list[i], "error", "warn")
  <1>1. RedisCollected /\ \A x : FromComponents(x) => x \in ToSet(checks)
    BY AtTheEnd
  <1>2. i \in DOMAIN list
    BY <1>1 DEF RedisCollected
  <1>10. list # <<>>
    BY <1>2, Somewhere
  <1>3. report["redis"] = Unless("redis", nodes) /\ Unless("redis", nodes) # <<>>
    BY <1>1, <1>10 DEF RedisCollected, Unless
  <1>4. i \in DOMAIN nodes /\ nodes[i].IP = list[i] /\ nodes[i].Error = answers["redis"][i].err
    BY <1>2 DEF DB!CollectRedisStandalone, DB!EachNode, DB!RedisNode
  <1> HIDE DEF nodes
  <1>5. RedisRow(nodes[i], cfg.Thresholds, r)
    BY <1>4 DEF RedisRow
  <1>6. \E k \in DOMAIN report["redis"] : \E n \in DOMAIN report["redis"][k] :
            RedisRow(report["redis"][k][n], cfg.Thresholds, r)
    <2> DEFINE section == report["redis"]
    <2>1. section = Unless("redis", nodes) /\ section # <<>>
      BY <1>3
    <2> HIDE DEF section, r
    <2>2. 1 \in DOMAIN section /\ section[1] = nodes
      BY <2>1, SectionIs
    <2>3. QED
      BY <1>4, <1>5, <2>2, Zenon DEF section
  <1> HIDE DEF r
  <1>7. r \in ToSet(checks)
    BY <1>1, <1>6, Zenon DEF FromComponents
  <1>8. "warn" \in Alarms
    BY DEF Alarms
  <1>9. QED
    BY <1>7, <1>8, Told DEF r

LEMMA MongoTold ==
    ASSUME Facts, RowsInv, StageInv, stage = "done", report["mongo"] # <<>>,
           answers["mongo"].err # ""
    PROVE  Rows(<<"mongo">>, Alarms) # {}
  <1> DEFINE c == DB!CollectMongo(answers["mongo"])
             r == Row("mongo", "cluster", "error", "warn")
  <1>1. MongoCollected /\ \A x : FromComponents(x) => x \in ToSet(checks)
    BY AtTheEnd
  <1>2. report["mongo"] = Unless("mongodb", c)
    BY <1>1 DEF MongoCollected
  <1>3. c.Error # ""
    BY DEF DB!CollectMongo
  <1> HIDE DEF c
  <1> DEFINE section == report["mongo"]
  <1>9. section = Unless("mongodb", c) /\ section # <<>>
    BY <1>2
  <1> HIDE DEF section
  <1>4. 1 \in DOMAIN report["mongo"] /\ report["mongo"][1] = c
    BY <1>9, SectionIs DEF section
  <1>5. MongoRow(c, r)
    BY <1>3 DEF MongoRow
  <1> HIDE DEF r
  <1>6. r \in ToSet(checks)
    BY <1>1, <1>4, <1>5, Zenon DEF FromComponents
  <1>7. "warn" \in Alarms
    BY DEF Alarms
  <1>8. QED
    BY <1>6, <1>7, Told DEF r

LEMMA BrokerTold ==
    ASSUME Facts, RowsInv, StageInv, stage = "done", report["rabbitmq"] # <<>>,
           answers["rabbitmq"].nodes.err # "" \/ answers["rabbitmq"].queues.err # ""
    PROVE  Rows(<<"rabbitmq">>, Alarms) # {}
  <1> DEFINE a == answers["rabbitmq"]
             q == MQ!CollectRabbitMQ(a, cfg)
             r == Row("rabbitmq", "cluster", "error", "warn")
             u == Row("rabbitmq", "cluster", "queues_error", "warn")
  <1>1. BrokerCollected /\ \A x : FromComponents(x) => x \in ToSet(checks)
    BY AtTheEnd
  <1>2. report["rabbitmq"] = Unless("rabbitmq", q) /\ a \in MQ!BrokerAnswers(VHosts)
    BY <1>1 DEF BrokerCollected
  <1> HIDE DEF q, a
  <1>3. q.Error = a.nodes.err /\ q.QueuesError = IF a.nodes.err = "" THEN a.queues.err ELSE ""
    BY <1>2, BrokerSection DEF q
  <1>4. q.Error # "" \/ q.QueuesError # ""
    BY <1>3 DEF a
  <1> DEFINE section == report["rabbitmq"]
  <1>10. section = Unless("rabbitmq", q) /\ section # <<>>
    BY <1>2
  <1> HIDE DEF section
  <1>5. 1 \in DOMAIN report["rabbitmq"] /\ report["rabbitmq"][1] = q
    BY <1>10, SectionIs DEF section
  <1>6. BrokerRow(q, r) \/ BrokerRow(q, u)
    BY <1>4, Zenon DEF BrokerRow
  <1> HIDE DEF r, u
  <1>7. r \in ToSet(checks) \/ u \in ToSet(checks)
    BY <1>1, <1>5, <1>6, Zenon DEF FromComponents
  <1>8. "warn" \in Alarms
    BY DEF Alarms
  <1>9. QED
    BY <1>7, <1>8, Told DEF r, u

LEMMA DependencyTold ==
    ASSUME Facts, RowsInv, StageInv, stage = "done", NEW i \in Dep!Judged, chan[i] = "error"
    PROVE  Rows(<<"bkdeps", i>>, Alarms) # {}
  <1> DEFINE r == Row("bkdeps", i, "status", "notice")
  <1>1. DepInv /\ DepTold /\ \A x : FromComponents(x) => x \in ToSet(checks)
    BY AtTheEnd DEF Facts
  <1>2. PICK k \in DOMAIN dependencies : i = dependencies[k].Item
    BY DEF Dep!Judged
  <1>3. k \in 1 .. Len(dependencies)
    BY <1>1 DEF DepInv
  <1>4. dependencies[k].Status \in Bad
    BY <1>1, <1>2, <1>3 DEF DepTold
  <1>5. DependencyRow(dependencies[k], r)
    BY <1>2, <1>4 DEF DependencyRow, Bad
  <1> HIDE DEF r
  <1>6. r \in ToSet(checks)
    BY <1>1, <1>5, Zenon DEF FromComponents
  <1>7. "notice" \in Alarms
    BY DEF Alarms
  <1>8. QED
    BY <1>6, <1>7, Told DEF r

-----------------------------------------------------------------------------
(* Replication *)

LEMMA OneEntry == ASSUME NEW v PROVE <<v>> # <<>> /\ DOMAIN <<v>> = {1} /\ <<v>>[1] = v
  OBVIOUS

ReplicationOf(l, i) ==
    REP!collectRedisReplication(cfg.hosts[l][i], answers["replication"][l][i], RoleOf[l],
                                cfg.Thresholds["redis_io"])

LEMMA RolesAre ==
    /\ DOMAIN RoleOf = {"redis_master", "redis_slave"}
    /\ RoleOf["redis_master"] = "master" /\ RoleOf["redis_slave"] = "slave"
  BY DEF RoleOf

\* What the section for replication is made of.
ReplicationMade(rep) ==
    /\ 1 \in DOMAIN report["replication"] /\ report["replication"][1] = rep
    /\ \A i \in DOMAIN report["replication"] : report["replication"][i] = rep
    /\ DOMAIN rep.MySQLMasters = DOMAIN cfg.hosts["mysql_master"]
    /\ \A i \in DOMAIN cfg.hosts["mysql_master"] : rep.MySQLMasters[i]
         = REP!collectMySQLMaster(cfg.hosts["mysql_master"][i],
                                  answers["replication"]["mysql_master"][i])
    /\ DOMAIN rep.MySQLSlaves = DOMAIN cfg.hosts["mysql_slave"]
    /\ \A i \in DOMAIN cfg.hosts["mysql_slave"] : rep.MySQLSlaves[i]
         = REP!collectMySQLSlave(cfg.hosts["mysql_slave"][i],
                                 answers["replication"]["mysql_slave"][i],
                                 cfg.Thresholds["mysql_lag"])
    /\ \A n : (\E k \in DOMAIN rep.RedisNodes : rep.RedisNodes[k] = n)
              <=> \E l \in DOMAIN RoleOf : \E i \in DOMAIN cfg.hosts[l] :
                     n = ReplicationOf(l, i)

LEMMA ReplicationSection ==
    ASSUME Facts, RowsInv, StageInv, stage = "done", report["replication"] # <<>>,
           NEW rep, rep = REP!CollectReplication(cfg, answers["replication"])
    PROVE  ReplicationMade(rep)
  <1> DEFINE a == answers["replication"]
             ms == [i \in DOMAIN cfg.hosts["redis_master"] |->
                       REP!collectRedisReplication(cfg.hosts["redis_master"][i],
                            a["redis_master"][i], "master", cfg.Thresholds["redis_io"])]
             ss == [i \in DOMAIN cfg.hosts["redis_slave"] |->
                       REP!collectRedisReplication(cfg.hosts["redis_slave"][i],
                            a["redis_slave"][i], "slave", cfg.Thresholds["redis_io"])]
             section == report["replication"]
  <1>1. section = <<rep>>
    BY AtTheEnd DEF ReplicationCollected
  <1>2. rep.RedisNodes = ms \o ss
    BY DEF REP!CollectReplication
  <1>3. /\ DOMAIN ms = DOMAIN cfg.hosts["redis_master"]
        /\ \A i \in DOMAIN ms : ms[i] = ReplicationOf("redis_master", i)
        /\ DOMAIN ss = DOMAIN cfg.hosts["redis_slave"]
        /\ \A i \in DOMAIN ss : ss[i] = ReplicationOf("redis_slave", i)
    BY RolesAre DEF ReplicationOf
  <1>4. List(ms) /\ List(ss)
    BY LoadedLists, NamedLists, Mapped DEF ReplicationLists, Facts
  <1>5. /\ DOMAIN rep.MySQLMasters = DOMAIN cfg.hosts["mysql_master"]
        /\ \A i \in DOMAIN cfg.hosts["mysql_master"] : rep.MySQLMasters[i]
                = REP!collectMySQLMaster(cfg.hosts["mysql_master"][i], a["mysql_master"][i])
    BY DEF REP!CollectReplication
  <1>6. /\ DOMAIN rep.MySQLSlaves = DOMAIN cfg.hosts["mysql_slave"]
        /\ \A i \in DOMAIN cfg.hosts["mysql_slave"] : rep.MySQLSlaves[i]
                = REP!collectMySQLSlave(cfg.hosts["mysql_slave"][i], a["mysql_slave"][i],
                                        cfg.Thresholds["mysql_lag"])
    BY DEF REP!CollectReplication
  <1> HIDE DEF ms, ss, section
  <1>7. 1 \in DOMAIN section /\ \A i \in DOMAIN section : section[i] = rep
    BY <1>1, OneEntry
  <1>8. \A n : (\E k \in DOMAIN rep.RedisNodes : rep.RedisNodes[k] = n)
               <=> \E l \in DOMAIN RoleOf : \E i \in DOMAIN cfg.hosts[l] : n = ReplicationOf(l, i)
    <2>1. ToSet(rep.RedisNodes) = ToSet(ms) \cup ToSet(ss)
      BY <1>2, <1>4, Joined
    <2>2. \A n : /\ n \in ToSet(rep.RedisNodes) <=> \E k \in DOMAIN rep.RedisNodes : rep.RedisNodes[k] = n
                 /\ n \in ToSet(ms) <=> \E i \in DOMAIN ms : ms[i] = n
                 /\ n \in ToSet(ss) <=> \E i \in DOMAIN ss : ss[i] = n
      BY Zenon DEF ToSet
    <2>3. \A n : /\ n \in ToSet(ms) <=> \E i \in DOMAIN cfg.hosts["redis_master"] :
                                            n = ReplicationOf("redis_master", i)
                 /\ n \in ToSet(ss) <=> \E i \in DOMAIN cfg.hosts["redis_slave"] :
                                            n = ReplicationOf("redis_slave", i)
      BY <1>3, <2>2
    <2>4. \A n : (\E l \in DOMAIN RoleOf : \E i \in DOMAIN cfg.hosts[l] : n = ReplicationOf(l, i))
                 <=> \/ \E i \in DOMAIN cfg.hosts["redis_master"] :
                            n = ReplicationOf("redis_master", i)
                     \/ \E i \in DOMAIN cfg.hosts["redis_slave"] :
                            n = ReplicationOf("redis_slave", i)
      BY RolesAre, Zenon
    <2>5. \A n : n \in ToSet(rep.RedisNodes) <=> n \in ToSet(ms) \/ n \in ToSet(ss)
      BY <2>1
    <2>6. ASSUME NEW n
          PROVE  (\E k \in DOMAIN rep.RedisNodes : rep.RedisNodes[k] = n)
                 <=> \E l \in DOMAIN RoleOf : \E i \in DOMAIN cfg.hosts[l] : n = ReplicationOf(l, i)
      <3> DEFINE Here == \E k \in DOMAIN rep.RedisNodes : rep.RedisNodes[k] = n
                 There == \E l \in DOMAIN RoleOf : \E i \in DOMAIN cfg.hosts[l] :
                                n = ReplicationOf(l, i)
      <3>1. Here <=> n \in ToSet(rep.RedisNodes)
        BY <2>2
      <3>2. There <=> \/ \E i \in DOMAIN cfg.hosts["redis_master"] :
                            n = ReplicationOf("redis_master", i)
                      \/ \E i \in DOMAIN cfg.hosts["redis_slave"] :
                            n = ReplicationOf("redis_slave", i)
        BY <2>4, Zenon
      <3> HIDE DEF Here, There
      <3>3. Here <=> There
        BY <2>3, <2>5, <3>1, <3>2
      <3>4. QED
        BY <3>3 DEF Here, There
    <2>7. QED
      BY <2>6
  <1>9. QED
    BY <1>5, <1>6, <1>7, <1>8, Zenon DEF section, ReplicationMade

LEMMA ReplicationTold ==
    ASSUME Facts, RowsInv, StageInv, stage = "done",
           NEW l \in ReplicationLists \ {"mysql_slave"}, NEW i \in DOMAIN cfg.hosts[l],
           answers["replication"][l][i].err # ""
    PROVE  \E c \in {"redis", "mysql_master"} : Rows(<<c, cfg.hosts[l][i]>>, {"warn"}) # {}
  <1> DEFINE rep == REP!CollectReplication(cfg, answers["replication"])
             h == cfg.hosts[l][i]
             err == answers["replication"][l][i].err
  <1>1. report["replication"] # <<>>
    <2>1. cfg.hosts[l] # <<>>
      BY Somewhere
    <2>2. report["replication"] = <<rep>>
      BY <2>1, AtTheEnd DEF ReplicationCollected
    <2>3. QED
      BY <2>2, OneEntry
  <1>2. /\ 1 \in DOMAIN report["replication"] /\ report["replication"][1] = rep
        /\ DOMAIN rep.MySQLMasters = DOMAIN cfg.hosts["mysql_master"]
        /\ \A k \in DOMAIN cfg.hosts["mysql_master"] : rep.MySQLMasters[k]
                = REP!collectMySQLMaster(cfg.hosts["mysql_master"][k],
                                         answers["replication"]["mysql_master"][k])
        /\ \A n : (\E k \in DOMAIN rep.RedisNodes : rep.RedisNodes[k] = n)
                     <=> \E m \in DOMAIN RoleOf : \E k \in DOMAIN cfg.hosts[m] :
                            n = ReplicationOf(m, k)
    <2>1. ReplicationMade(rep)
      BY <1>1, ReplicationSection
    <2>2. QED
      BY <2>1, Zenon DEF ReplicationMade
  <1> HIDE DEF rep
  <1>3. \A r : ReplicationRow(rep, r) => r \in ToSet(checks)
    BY <1>2, AtTheEnd, Zenon DEF FromComponents
  <1>4. CASE l = "mysql_master"
    <2> DEFINE r == Row("mysql_master", h, "read_only", "warn")
    <2> DEFINE a == answers["replication"]["mysql_master"][i]
    <2>6. rep.MySQLMasters[i] = REP!collectMySQLMaster(h, a) /\ a.err # ""
      BY <1>2, <1>4
    <2> HIDE DEF a
    <2>9. REP!collectMySQLMaster(h, a).IP = h /\ REP!collectMySQLMaster(h, a).Status = "warn"
      BY <2>6 DEF REP!collectMySQLMaster, REP!NoError
    <2>1. rep.MySQLMasters[i].IP = h /\ rep.MySQLMasters[i].Status = "warn"
      BY <2>6, <2>9
    <2>2. Graded(rep.MySQLMasters[i].Status = "ok") = "warn"
      BY <2>1 DEF Graded
    <2>3. i \in DOMAIN rep.MySQLMasters
      BY <1>2, <1>4
    <2>4. ReplicationRow(rep, r)
      BY <2>1, <2>2, <2>3 DEF ReplicationRow
    <2> HIDE DEF r
    <2>5. r \in ToSet(checks)
      BY <1>3, <2>4
    <2>7. Rows(<<"mysql_master", h>>, {"warn"}) # {}
      BY <2>5, Told DEF r
    <2>8. QED
      BY <2>7
  <1>5. CASE l \in DOMAIN RoleOf
    <2> DEFINE n == ReplicationOf(l, i)
               r == Row("redis", h, "role", "warn")
    <2>1. PICK k \in DOMAIN rep.RedisNodes : rep.RedisNodes[k] = n
      BY <1>2, <1>5
    <2>2. n.IP = h /\ n.RoleConsistencyStatus = "N/A"
      BY DEF ReplicationOf, REP!collectRedisReplication, REP!NoError
    <2>3. Graded(n.RoleConsistencyStatus = "ok") = "warn"
      BY <2>2 DEF Graded
    <2> HIDE DEF n
    <2>4. ReplicationRow(rep, r)
      BY <2>1, <2>2, <2>3 DEF ReplicationRow
    <2> HIDE DEF r
    <2>5. r \in ToSet(checks)
      BY <1>3, <2>4
    <2>6. Rows(<<"redis", h>>, {"warn"}) # {}
      BY <2>5, Told DEF r
    <2>7. QED
      BY <2>6
  <1>6. QED
    BY <1>4, <1>5, RolesAre DEF ReplicationLists

\* Whoever could not be asked at all, host of a service or node of a component, a row
\* that is a warning or a notice says so; MySQL nodes and slaves are not spoken of.
THEOREM FailuresTold == Spec => []FailureTold
  <1>1. Facts /\ RowsInv /\ StageInv => FailureTold
    <2> SUFFICES ASSUME Facts, RowsInv, StageInv, stage = "done" PROVE FailureTold
      BY DEF FailureTold, Judged
    <2>1. \A j \in DOMAIN reply : reply[j].silent => Rows(<<"service", j[1]>>, Alarms) # {}
      BY SilentTold
    <2>2. (cluster.Error # "" \/ \E i \in DOMAIN reach : reach[i] = "unreachable"
            \/ \E h \in ToSet(answers["es"]) : h.err # "")
                => Rows(<<"es">>, Alarms) # {}
      BY ClusterTold
    <2>3. \A i \in DOMAIN answers["redis"] : answers["redis"][i].err # "" =>
                Rows(<<"redis", cfg.hosts["redis"][i]>>, Alarms) # {}
      BY RedisTold
    <2>4. (report["mongo"] # <<>> /\ answers["mongo"].err # "") => Rows(<<"mongo">>, Alarms) # {}
      BY MongoTold
    <2>5. (report["rabbitmq"] # <<>> /\ (answers["rabbitmq"].nodes.err # ""
                                         \/ answers["rabbitmq"].queues.err # ""))
                => Rows(<<"rabbitmq">>, Alarms) # {}
      BY BrokerTold
    <2>6. \A l \in ReplicationLists \ {"mysql_slave"} :
            \A i \in DOMAIN cfg.hosts[l] : answers["replication"][l][i].err # "" =>
                \E c \in {"redis", "mysql_master"} : Rows(<<c, cfg.hosts[l][i]>>, {"warn"}) # {}
      BY ReplicationTold
    <2>7. \A i \in Dep!Judged : chan[i] = "error" => Rows(<<"bkdeps", i>>, Alarms) # {}
      BY DependencyTold
    <2>8. QED
      BY <2>1, <2>2, <2>3, <2>4, <2>5, <2>6, <2>7, Zenon DEF FailureTold
  <1>2. QED
    BY <1>1, AllKnown, PTL

-----------------------------------------------------------------------------
(* Which rule a row is from *)

LEMMA Whose ==
    ASSUME Facts, RowsInv, StageInv, stage = "done", NEW r \in ToSet(checks)
    PROVE  \E d :
            /\ About(r, d)
            /\ d = "redis_sentinel" =>
                \E i \in DOMAIN report["sentinel"] : SentinelRow(report["sentinel"][i], r)
            /\ d = "rabbitmq" =>
                \E i \in DOMAIN report["rabbitmq"] : BrokerRow(report["rabbitmq"][i], r)
            /\ d \in {"mysql_master", "mysql_slave"} =>
                \E i \in DOMAIN report["replication"] : ReplicationRow(report["replication"][i], r)
            /\ d = "redis" => \/ r.status \in {"warn", "notice"}
                              \/ \E i \in DOMAIN report["replication"] :
                                    ReplicationRow(report["replication"][i], r)
            /\ d = "bkdeps" => \E i \in DOMAIN dependencies : DependencyRow(dependencies[i], r)
  <1>1. FromHosts(r) \/ FromServices(r) \/ FromComponents(r)
    BY AtTheEnd
  <1>2. CASE FromHosts(r)
    BY <1>2, HostAbout DEF FromHosts
  <1>3. CASE FromServices(r)
    <2>1. \E s, t : ServiceRow(s, t, r)
      BY <1>3, Zenon DEF FromServices
    <2>2. About(r, "service")
      BY <2>1, ServiceAbout
    <2>3. QED
      BY <2>2
  <1>4. CASE \E c, nodes, t : ESRow(c, nodes, t, r)
    BY <1>4, ESAbout
  <1>5. CASE \E n, t : RedisRow(n, t, r)
    BY <1>5, RedisAbout
  <1>6. CASE \E i \in DOMAIN report["sentinel"] : SentinelRow(report["sentinel"][i], r)
    BY <1>6, SentinelAbout
  <1>7. CASE \E c : MongoRow(c, r)
    BY <1>7, MongoAbout
  <1>8. CASE \E i \in DOMAIN report["rabbitmq"] : BrokerRow(report["rabbitmq"][i], r)
    BY <1>8, BrokerAbout
  <1>9. CASE \E i \in DOMAIN dependencies : DependencyRow(dependencies[i], r)
    BY <1>9, DependencyAbout
  <1>10. CASE \E i \in DOMAIN report["replication"] : ReplicationRow(report["replication"][i], r)
    <2>1. \E c \in {"mysql_master", "mysql_slave", "redis"} : About(r, c)
      BY <1>10, ReplicationAbout
    <2>2. QED
      BY <1>10, <2>1
  <1>11. FromComponents(r) =>
            \/ \E c, nodes, t : ESRow(c, nodes, t, r)
            \/ \E n, t : RedisRow(n, t, r)
            \/ \E i \in DOMAIN report["sentinel"] : SentinelRow(report["sentinel"][i], r)
            \/ \E c : MongoRow(c, r)
            \/ \E i \in DOMAIN report["rabbitmq"] : BrokerRow(report["rabbitmq"][i], r)
            \/ \E i \in DOMAIN dependencies : DependencyRow(dependencies[i], r)
            \/ \E i \in DOMAIN report["replication"] : ReplicationRow(report["replication"][i], r)
    BY Zenon DEF FromComponents
  <1>12. QED
    BY <1>1, <1>2, <1>3, <1>4, <1>5, <1>6, <1>7, <1>8, <1>9, <1>10, <1>11

-----------------------------------------------------------------------------
(* The sentinels *)

\* The sentinels that answer, and those of them that name a master.
Answering(list, a) == {i \in DOMAIN list : a.pong[i] = ""}
Believed(list, a) == {i \in Answering(list, a) : a.master[i] # DB!NoOne}

\* The section of the report main makes of their answers.
SectionFor(s, list, a, masters) == s = DB!RedisSentinelSection(list, a, masters)

SectionSays(s, list, a, masters) ==
    LET reachable == Answering(list, a)
        naming == Believed(list, a)
    IN  /\ s.Error = "" <=> reachable # {}
        /\ s.MasterReachable <=> naming # {} /\ a.alive
        /\ naming # {} => (s.MasterEnvMatch # "warn" <=>
                masters = <<>> \/ a.master[CHECKS!Min(naming)] \in ToSet(masters))
        /\ s.Status = "ok" <=> /\ naming # {} /\ a.alive
                               /\ ~ (Cardinality(reachable) < Len(list))
        /\ DOMAIN s.Sentinels = DOMAIN list
        /\ \A i \in DOMAIN list : s.Sentinels[i].Reachable <=> a.pong[i] = ""

LEMMA SentinelSection ==
    ASSUME NEW list, NEW a, NEW masters, List(masters), NEW s, SectionFor(s, list, a, masters)
    PROVE  SectionSays(s, list, a, masters)
  <1> DEFINE reachable == Answering(list, a)
             naming == Believed(list, a)
  <1>15. reachable = Answering(list, a) /\ naming = Believed(list, a)
    OBVIOUS
  <1> HIDE DEF reachable, naming
  <1> DEFINE c == DB!CollectRedisSentinel(list, a)
             sentinels == [i \in DOMAIN list |-> DB!pingSentinel(list[i], a.pong[i])]
  <1>1. \A i \in DOMAIN list : sentinels[i].Reachable <=> a.pong[i] = ""
    BY DEF DB!pingSentinel, DB!NoError
  <1>2. /\ reachable = {i \in DOMAIN list : sentinels[i].Reachable}
        /\ naming = {i \in reachable : a.master[i] # DB!NoOne}
    BY <1>1, <1>15 DEF Answering, Believed
  <1> DEFINE alive == naming # {} /\ a.alive
             found == IF naming = {} THEN DB!NoOne ELSE a.master[CHECKS!Min(naming)]
             master == IF naming = {} THEN DB!NoOne ELSE a.master[DB!Min(naming)]
             state == DB!SentinelStatus(DB!Cardinality(reachable), DB!Len(list), alive)
             error == IF reachable = {} THEN "no-sentinel-reachable" ELSE ""
             class == IF reachable = {} THEN "network" ELSE ""
  <1>3. c = [Sentinels |-> sentinels, Error |-> error, ErrorClass |-> class,
             DiscoveredMaster |-> master, MasterReachable |-> alive, MasterEnvMatch |-> "",
             Status |-> state]
    BY <1>2, Zenon DEF DB!CollectRedisSentinel
  <1>4. DB!Cardinality(reachable) = Cardinality(reachable)
    BY DEF DB!Cardinality, Cardinality
  <1>5. DB!Min(naming) = CHECKS!Min(naming)
    BY DEF DB!Min, CHECKS!Min
  <1>6. \A x : DB!Contains(masters, x) <=> x \in ToSet(masters)
    BY Positions DEF DB!Contains, ToSet
  <1>7. master = found
    BY <1>5
  <1>8. state = DB!SentinelStatus(Cardinality(reachable), Len(list), alive)
    BY <1>4
  <1>14. s = [c EXCEPT !.MasterEnvMatch = DB!CrossCheckSentinelMaster(c.DiscoveredMaster, masters)]
    BY DEF DB!RedisSentinelSection, SectionFor
  <1> HIDE DEF c, sentinels, alive, found, master, state, error, class
  <1>9. /\ s.Sentinels = sentinels /\ s.Error = error /\ s.MasterReachable = alive
        /\ s.Status = state
        /\ s.MasterEnvMatch = DB!CrossCheckSentinelMaster(found, masters)
    BY <1>3, <1>7, <1>14
  <1>10. s.Error = "" <=> reachable # {}
    BY <1>9 DEF error
  <1>11. s.MasterEnvMatch # "warn" <=> masters = <<>> \/ found \in ToSet(masters)
    BY <1>6, <1>9 DEF DB!CrossCheckSentinelMaster
  <1>12. s.Status = "ok" <=> alive /\ ~ (Cardinality(reachable) < Len(list))
    BY <1>8, <1>9 DEF DB!SentinelStatus
  <1>13. /\ s.Error = "" <=> reachable # {}
         /\ s.MasterReachable <=> naming # {} /\ a.alive
         /\ naming # {} => (s.MasterEnvMatch # "warn" <=>
                masters = <<>> \/ a.master[CHECKS!Min(naming)] \in ToSet(masters))
         /\ s.Status = "ok" <=> /\ naming # {} /\ a.alive
                                /\ ~ (Cardinality(reachable) < Len(list))
         /\ DOMAIN s.Sentinels = DOMAIN list
         /\ \A i \in DOMAIN list : s.Sentinels[i].Reachable <=> a.pong[i] = ""
    BY <1>1, <1>9, <1>10, <1>11, <1>12 DEF alive, found, sentinels
  <1>16. QED
    BY <1>13, Zenon DEF SectionSays, reachable, naming

\* When no row of the sentinels is an alarm.
LEMMA SentinelQuiet ==
    ASSUME Facts, RowsInv, StageInv, stage = "done", report["sentinel"] # <<>>,
           NEW s, s = DB!RedisSentinelSection(cfg.hosts["sentinel"], answers["sentinel"],
                                              cfg.hosts["redis_master"])
    PROVE  Rows(<<"redis_sentinel">>, Alarms) = {} <=> ~ \E r : SentinelRow(s, r)
  <1> DEFINE section == report["sentinel"]
  <1>1. section = Unless("sentinel", s) /\ section # <<>>
    BY AtTheEnd DEF SentinelCollected
  <1>2. \A i \in DOMAIN Unless("sentinel", s) : Unless("sentinel", s)[i] = s
    BY SectionOrNil
  <1> HIDE DEF section
  <1>3. 1 \in DOMAIN section /\ \A i \in DOMAIN section : section[i] = s
    BY <1>1, <1>2, SectionIs
  <1>4. "warn" \in Alarms
    BY DEF Alarms
  <1>5. ASSUME NEW r, SentinelRow(s, r)
        PROVE  Rows(<<"redis_sentinel">>, Alarms) # {}
    <2>1. r \in ToSet(checks)
      BY <1>3, <1>5, AtTheEnd, Zenon DEF FromComponents, section
    <2>2. About(r, "redis_sentinel") /\ r.status = "warn"
      BY <1>5, SentinelAbout
    <2>3. IsPrefix(<<"redis_sentinel">>, r.field)
      BY <2>2, AboutPrefix
    <2>4. QED
      BY <1>4, <2>1, <2>2, <2>3 DEF Rows
  <1>6. ASSUME NEW r \in Rows(<<"redis_sentinel">>, Alarms)
        PROVE  SentinelRow(s, r)
    <2>1. r \in ToSet(checks) /\ IsPrefix(<<"redis_sentinel">>, r.field)
      BY DEF Rows
    <2>2. PICK d : /\ About(r, d)
                   /\ d = "redis_sentinel" => \E i \in DOMAIN section : SentinelRow(section[i], r)
      BY <2>1, Whose, Zenon DEF section
    <2>3. d = "redis_sentinel"
      BY <2>1, <2>2, AboutPrefix
    <2>4. QED
      BY <1>3, <2>2, <2>3
  <1>7. QED
    BY <1>5, <1>6

\* The verdict on the sentinels, for any number of them, whatever they answer and
\* whoever they name: it is the status, the master's and each sentinel's row together
\* that leave nothing out.
THEOREM SentinelsJudged == Spec => []SentinelVerdict
  <1>1. Facts /\ RowsInv /\ StageInv => SentinelVerdict
    <2> DEFINE list == cfg.hosts["sentinel"]
               a == answers["sentinel"]
               declared == cfg.hosts["redis_master"]
               naming == {i \in DOMAIN a.master : a.master[i] # DB!NoOne}
               reachable == Answering(list, a)
               believed == Believed(list, a)
               s == DB!RedisSentinelSection(list, a, declared)
               n == Len(list)
    <2> SUFFICES ASSUME Facts, RowsInv, StageInv, stage = "done", report["sentinel"] # <<>>
                 PROVE  Rows(<<"redis_sentinel">>, Alarms) = {} <=>
                            /\ \A i \in DOMAIN a.pong : a.pong[i] = ""
                            /\ naming # {} /\ a.alive
                            /\ ToSet(declared) # {} =>
                                a.master[CHECKS!Min(naming)] \in ToSet(declared)
      BY DEF SentinelVerdict, Judged
    <2>1. List(list) /\ List(declared)
      BY LoadedLists, NamedLists DEF Facts, ReplicationLists
    <2>2. a \in DB!SentinelAnswers(list, Known)
      BY AtTheEnd DEF SentinelCollected
    <2>3. DOMAIN a.pong = DOMAIN list /\ DOMAIN a.master = DOMAIN list
      BY <2>2 DEF DB!SentinelAnswers
    <2>4. Rows(<<"redis_sentinel">>, Alarms) = {} <=> ~ \E r : SentinelRow(s, r)
      BY SentinelQuiet
    <2>12. /\ reachable = {i \in DOMAIN list : a.pong[i] = ""}
           /\ believed = {i \in reachable : a.master[i] # DB!NoOne}
           /\ reachable = Answering(list, a) /\ believed = Believed(list, a)
           /\ n = Len(list)
           /\ SectionFor(s, list, a, declared)
      BY DEF Answering, Believed, SectionFor
    <2>13. naming = {i \in DOMAIN a.master : a.master[i] # DB!NoOne}
      OBVIOUS
    <2> HIDE DEF s, list, a, declared, n, reachable, believed, naming
    <2>14. /\ reachable = Answering(list, a) /\ believed = Believed(list, a)
           /\ SectionFor(s, list, a, declared)
      BY <2>12
    <2>5. /\ s.Error = "" <=> reachable # {}
          /\ s.MasterReachable <=> believed # {} /\ a.alive
          /\ believed # {} => (s.MasterEnvMatch # "warn" <=>
                declared = <<>> \/ a.master[CHECKS!Min(believed)] \in ToSet(declared))
          /\ s.Status = "ok" <=> /\ believed # {} /\ a.alive
                                 /\ ~ (Cardinality(reachable) < Len(list))
          /\ DOMAIN s.Sentinels = DOMAIN list
          /\ \A i \in DOMAIN list : s.Sentinels[i].Reachable <=> a.pong[i] = ""
      <3>1. SectionSays(s, list, a, declared)
        BY <2>1, <2>14, SentinelSection
      <3>2. QED
        BY <2>14, <3>1 DEF SectionSays
    <2>6. (~ \E r : SentinelRow(s, r)) <=>
            /\ s.Error = "" /\ s.MasterReachable /\ s.MasterEnvMatch # "warn" /\ s.Status = "ok"
            /\ \A i \in DOMAIN s.Sentinels : s.Sentinels[i].Reachable
      BY Zenon DEF SentinelRow
    <2>7. declared = <<>> <=> ToSet(declared) = {}
      BY <2>1, NoElement
    <2>8. n \in Nat /\ DOMAIN list = 1 .. n
      BY <2>1, <2>12, Positions
    <2>9. CASE \A i \in DOMAIN list : a.pong[i] = ""
      <3>1. reachable = 1 .. n /\ believed = naming
        BY <2>3, <2>8, <2>9, <2>12, <2>13
      <3>2. Cardinality(reachable) = n
        <4>1. Cardinality(1 .. n) = n
          BY <2>8, FS_Interval
        <4>2. QED
          BY <3>1, <4>1
      <3>3. naming # {} => reachable # {}
        BY <2>12, <3>1
      <3>4. \A i \in DOMAIN s.Sentinels : s.Sentinels[i].Reachable
        BY <2>5, <2>9
      <3>10. ~ (Cardinality(reachable) < Len(list))
        <4>1. Len(list) = n
          BY <2>12
        <4>2. QED
          BY <2>8, <3>2, <4>1
      <3>11. \A i \in DOMAIN a.pong : a.pong[i] = ""
        BY <2>3, <2>9
      <3>5. (\A i \in DOMAIN a.pong : a.pong[i] = "") /\ ~ (Cardinality(reachable) < Len(list))
        BY <3>10, <3>11
      <3>6. naming # {} => (s.MasterEnvMatch # "warn" <=>
                ToSet(declared) = {} \/ a.master[CHECKS!Min(naming)] \in ToSet(declared))
        BY <2>5, <2>7, <3>1
      <3>7. s.Error = "" <=> reachable # {}
        BY <2>5
      <3>8. /\ s.MasterReachable <=> naming # {} /\ a.alive
            /\ s.Status = "ok" <=> naming # {} /\ a.alive
        BY <2>5, <3>1, <3>5
      <3>9. QED
        BY <2>4, <2>6, <3>3, <3>4, <3>5, <3>6, <3>7, <3>8
    <2>10. CASE ~ \A i \in DOMAIN list : a.pong[i] = ""
      BY <2>3, <2>4, <2>5, <2>6, <2>10
    <2>11. QED
      BY <2>9, <2>10
  <1>2. QED
    BY <1>1, AllKnown, PTL

-----------------------------------------------------------------------------
(* The broker *)

LEMMA BrokerQuiet ==
    ASSUME Facts, RowsInv, StageInv, stage = "done", report["rabbitmq"] # <<>>,
           NEW q, q = MQ!CollectRabbitMQ(answers["rabbitmq"], cfg)
    PROVE  Rows(<<"rabbitmq">>, Alarms) = {} <=> ~ \E r : BrokerRow(q, r)
  <1> DEFINE section == report["rabbitmq"]
  <1>1. section = Unless("rabbitmq", q) /\ section # <<>>
    BY AtTheEnd DEF BrokerCollected
  <1>2. \A i \in DOMAIN Unless("rabbitmq", q) : Unless("rabbitmq", q)[i] = q
    BY SectionOrNil
  <1> HIDE DEF section
  <1>3. 1 \in DOMAIN section /\ \A i \in DOMAIN section : section[i] = q
    BY <1>1, <1>2, SectionIs
  <1>4. "warn" \in Alarms
    BY DEF Alarms
  <1>5. ASSUME NEW r, BrokerRow(q, r)
        PROVE  Rows(<<"rabbitmq">>, Alarms) # {}
    <2>1. r \in ToSet(checks)
      BY <1>3, <1>5, AtTheEnd, Zenon DEF FromComponents, section
    <2>2. About(r, "rabbitmq") /\ r.status = "warn"
      BY <1>5, BrokerAbout
    <2>3. IsPrefix(<<"rabbitmq">>, r.field)
      BY <2>2, AboutPrefix
    <2>4. QED
      BY <1>4, <2>1, <2>2, <2>3 DEF Rows
  <1>6. ASSUME NEW r \in Rows(<<"rabbitmq">>, Alarms)
        PROVE  BrokerRow(q, r)
    <2>1. r \in ToSet(checks) /\ IsPrefix(<<"rabbitmq">>, r.field)
      BY DEF Rows
    <2>2. PICK d : /\ About(r, d)
                   /\ d = "rabbitmq" => \E i \in DOMAIN section : BrokerRow(section[i], r)
      BY <2>1, Whose, Zenon DEF section
    <2>3. d = "rabbitmq"
      BY <2>1, <2>2, AboutPrefix
    <2>4. QED
      BY <1>3, <2>2, <2>3
  <1>7. QED
    BY <1>5, <1>6

\* The verdict on the broker, for every threshold and blacklist: whatever call fails,
\* the rows leave out nothing of what was listed, which is nothing at all when the
\* login is rejected, and add nothing.
THEOREM BrokerJudged == Spec => []BrokerVerdict
  <1>1. Facts /\ RowsInv /\ StageInv => BrokerVerdict
    <2> DEFINE a == answers["rabbitmq"]
               q == MQ!CollectRabbitMQ(a, cfg)
               backlog == cfg.Thresholds["backlog"]
               nodes == ToSet(a.nodes.list)
               conns == ToSet(a.conns.list)
               queues == ToSet(a.queues.list)
    <2> SUFFICES ASSUME Facts, RowsInv, StageInv, stage = "done", report["rabbitmq"] # <<>>
                 PROVE  Rows(<<"rabbitmq">>, Alarms) = {} <=>
                    /\ a.nodes.err = "" /\ a.queues.err = ""
                    /\ \A m \in nodes : ~ (m.mem_alarm \/ m.disk_free_alarm \/ m.partitions)
                    /\ "blocked" \notin conns
                    /\ \A u \in queues : u.usual =>
                        /\ u.messages < backlog
                        /\ u.consumers = 0 /\ u.messages > 0 => u.vhost \in cfg.vhosts
      BY DEF BrokerVerdict, Judged
    <2>1. a \in MQ!BrokerAnswers(VHosts)
      BY AtTheEnd DEF BrokerCollected
    <2>2. backlog \in Int
      BY AtTheEnd DEF Numbers
    <2>3. Rows(<<"rabbitmq">>, Alarms) = {} <=> ~ \E r : BrokerRow(q, r)
      BY BrokerQuiet
    <2> HIDE DEF a, q
    <2>4. /\ q.Error = a.nodes.err
          /\ q.QueuesError = IF a.nodes.err = "" THEN a.queues.err ELSE ""
          /\ q.ClusterPartition <=> \E m \in nodes : m.partitions
          /\ q.AbnormalConnections > 0
               <=> a.nodes.err = "" /\ \E s \in conns : s \notin {"running", ""}
          /\ List(q.NodeAlarms)
          /\ ToSet(q.NodeAlarms) = {m \in nodes : m.mem_alarm \/ m.disk_free_alarm}
          /\ List(q.ExceedingQueues)
          /\ ToSet(q.ExceedingQueues)
                = {e \in queues : a.nodes.err = "" /\ e.usual /\ MQ!Exceeding(e, backlog)}
          /\ List(q.NoConsumerQueues)
          /\ ToSet(q.NoConsumerQueues)
                = {e \in queues : a.nodes.err = "" /\ e.usual /\ MQ!Unconsumed(e, cfg.vhosts)}
      BY <2>1, BrokerSection DEF q
    <2>5. conns \subseteq {"running", "blocked", ""}
      <3>1. a.conns.list = <<>> \/ \E s \in {"running", "blocked", ""} : a.conns.list = <<s>>
        BY <2>1 DEF MQ!BrokerAnswers, MQ!Api
      <3>2. QED
        BY <3>1, NoRows, OneRow
    <2>6. \A u \in queues : u.messages \in Int
      <3>1. a.queues.list = <<>> \/ \E u \in MQ!QueueViews(VHosts) : a.queues.list = <<u>>
        BY <2>1 DEF MQ!BrokerAnswers, MQ!Api
      <3>2. \A u \in MQ!QueueViews(VHosts) : u.messages \in Int
        BY DEF MQ!QueueViews
      <3>3. QED
        BY <3>1, <3>2, NoRows, OneRow
    <2>7. (~ \E r : BrokerRow(q, r)) <=>
            /\ q.Error = "" /\ q.QueuesError = "" /\ ~ q.ClusterPartition
            /\ ~ (q.AbnormalConnections > 0)
            /\ \A i \in DOMAIN q.NodeAlarms :
                ~ q.NodeAlarms[i].mem_alarm /\ ~ q.NodeAlarms[i].disk_free_alarm
            /\ DOMAIN q.ExceedingQueues = {} /\ DOMAIN q.NoConsumerQueues = {}
      BY Zenon DEF BrokerRow
    <2>8. /\ DOMAIN q.ExceedingQueues = {} <=> ToSet(q.ExceedingQueues) = {}
          /\ DOMAIN q.NoConsumerQueues = {} <=> ToSet(q.NoConsumerQueues) = {}
      BY DEF ToSet
    <2>9. (\A i \in DOMAIN q.NodeAlarms :
                ~ q.NodeAlarms[i].mem_alarm /\ ~ q.NodeAlarms[i].disk_free_alarm)
          <=> \A m \in nodes : ~ (m.mem_alarm \/ m.disk_free_alarm)
      <3>1. (\A i \in DOMAIN q.NodeAlarms :
                ~ q.NodeAlarms[i].mem_alarm /\ ~ q.NodeAlarms[i].disk_free_alarm)
            <=> \A m \in ToSet(q.NodeAlarms) : ~ m.mem_alarm /\ ~ m.disk_free_alarm
        BY Zenon DEF ToSet
      <3>2. QED
        BY <2>4, <3>1
    <2> HIDE DEF nodes, conns, queues, backlog
    <2>10. CASE a.nodes.err = ""
      <3>1. ToSet(q.ExceedingQueues) = {} <=> \A u \in queues : u.usual => u.messages < backlog
        <4>1. ToSet(q.ExceedingQueues) = {} <=>
                ~ \E u \in queues : u.usual /\ MQ!Exceeding(u, backlog)
          BY <2>4, <2>10
        <4>2. \A u \in queues : MQ!Exceeding(u, backlog) <=> ~ (u.messages < backlog)
          BY <2>2, <2>6 DEF MQ!Exceeding
        <4>3. QED
          BY <4>1, <4>2
      <3>2. ToSet(q.NoConsumerQueues) = {} <=> \A u \in queues : u.usual =>
                (u.consumers = 0 /\ u.messages > 0 => u.vhost \in cfg.vhosts)
        BY <2>4, <2>10 DEF MQ!Unconsumed
      <3>3. (q.AbnormalConnections > 0) <=> "blocked" \in conns
        BY <2>4, <2>5, <2>10
      <3>4. QED
        BY <2>3, <2>4, <2>7, <2>8, <2>9, <2>10, <3>1, <3>2, <3>3
    <2>11. CASE a.nodes.err # ""
      BY <2>3, <2>4, <2>7, <2>11
    <2>12. QED
      BY <2>10, <2>11
  <1>2. QED
    BY <1>1, AllKnown, PTL

-----------------------------------------------------------------------------
(* Verdicts on replication *)

\* An "ok" of replication.
OkRow(rep, r, c, h) ==
    ReplicationRow(rep, r) /\ About(r, c) /\ r.field[2] = h /\ r.status = "ok"

AnyOk(rep, c, h) == \E r : OkRow(rep, r, c, h)
AnyOkOf(rep, x, h) == \E r : OkRow(rep, r, "redis", h) /\ r.field[3] = x

LEMMA OkRows ==
    ASSUME Facts, RowsInv, StageInv, stage = "done", report["replication"] # <<>>,
           NEW rep, rep = REP!CollectReplication(cfg, answers["replication"]), NEW h
    PROVE  /\ Rows(<<"mysql_master", h>>, {"ok"}) # {} <=> AnyOk(rep, "mysql_master", h)
           /\ Rows(<<"mysql_slave", h>>, {"ok"}) # {} <=> AnyOk(rep, "mysql_slave", h)
           /\ Rows(<<"redis", h, "role">>, {"ok"}) # {} <=> AnyOkOf(rep, "role", h)
           /\ Rows(<<"redis", h, "link">>, {"ok"}) # {} <=> AnyOkOf(rep, "link", h)
  <1> DEFINE section == report["replication"]
  <1>1. 1 \in DOMAIN section /\ \A i \in DOMAIN section : section[i] = rep
    <2>1. ReplicationMade(rep)
      BY ReplicationSection
    <2>2. QED
      BY <2>1, Zenon DEF ReplicationMade
  <1> HIDE DEF section
  <1>2. \A r : ReplicationRow(rep, r) => r \in ToSet(checks)
    BY <1>1, AtTheEnd, Zenon DEF FromComponents, section
  <1>3. ASSUME NEW r \in ToSet(checks), r.status = "ok", NEW c, About(r, c),
               c \in {"mysql_master", "mysql_slave", "redis"}
        PROVE  ReplicationRow(rep, r)
    <2>1. PICK d :
            /\ About(r, d)
            /\ d \in {"mysql_master", "mysql_slave"} =>
                \E i \in DOMAIN section : ReplicationRow(section[i], r)
            /\ d = "redis" => \/ r.status \in {"warn", "notice"}
                              \/ \E i \in DOMAIN section : ReplicationRow(section[i], r)
      BY Whose, Zenon DEF section
    <2>2. d = c
      BY <1>3, <2>1 DEF About
    <2>3. \E i \in DOMAIN section : ReplicationRow(section[i], r)
      BY <1>3, <2>1, <2>2
    <2>4. QED
      BY <1>1, <2>3
  <1>4. \A r \in ToSet(checks) : \E d : About(r, d)
    BY Whose, Zenon
  <1>5. ASSUME NEW c \in {"mysql_master", "mysql_slave"}
        PROVE  Rows(<<c, h>>, {"ok"}) # {} <=> AnyOk(rep, c, h)
    <2>1. ASSUME NEW r, OkRow(rep, r, c, h)
          PROVE  r \in Rows(<<c, h>>, {"ok"})
      <3>1. r \in ToSet(checks) /\ About(r, c) /\ r.field[2] = h /\ r.status = "ok"
        BY <1>2, <2>1 DEF OkRow
      <3>2. IsPrefix(<<c, h>>, r.field)
        BY <3>1, AboutPrefix
      <3>3. QED
        BY <3>1, <3>2 DEF Rows
    <2>2. ASSUME NEW r \in Rows(<<c, h>>, {"ok"})
          PROVE  OkRow(rep, r, c, h)
      <3>1. r \in ToSet(checks) /\ r.status = "ok" /\ IsPrefix(<<c, h>>, r.field)
        BY DEF Rows
      <3>2. PICK d : About(r, d)
        BY <1>4, <3>1
      <3>3. d = c /\ r.field[2] = h
        BY <3>1, <3>2, AboutPrefix
      <3>4. ReplicationRow(rep, r)
        BY <1>3, <3>1, <3>2, <3>3
      <3>5. QED
        BY <3>1, <3>2, <3>3, <3>4 DEF OkRow
    <2>3. QED
      BY <2>1, <2>2 DEF AnyOk
  <1>6. ASSUME NEW x
        PROVE  Rows(<<"redis", h, x>>, {"ok"}) # {} <=> AnyOkOf(rep, x, h)
    <2>1. ASSUME NEW r, OkRow(rep, r, "redis", h) /\ r.field[3] = x
          PROVE  r \in Rows(<<"redis", h, x>>, {"ok"})
      <3>1. /\ r \in ToSet(checks) /\ About(r, "redis") /\ r.field[2] = h /\ r.status = "ok"
            /\ r.field[3] = x
        BY <1>2, <2>1 DEF OkRow
      <3>2. IsPrefix(<<"redis", h, x>>, r.field)
        <4> DEFINE c == "redis"
        <4>1. About(r, c)
          BY <3>1
        <4> HIDE DEF c
        <4>2. IsPrefix(<<c, h, x>>, r.field) <=> c = c /\ r.field[2] = h /\ r.field[3] = x
          BY <4>1, AboutPrefix
        <4>3. IsPrefix(<<c, h, x>>, r.field)
          BY <3>1, <4>2
        <4>4. QED
          BY <4>3 DEF c
      <3>3. QED
        BY <3>1, <3>2 DEF Rows
    <2>2. ASSUME NEW r \in Rows(<<"redis", h, x>>, {"ok"})
          PROVE  OkRow(rep, r, "redis", h) /\ r.field[3] = x
      <3>1. r \in ToSet(checks) /\ r.status = "ok" /\ IsPrefix(<<"redis", h, x>>, r.field)
        BY DEF Rows
      <3>2. PICK d : About(r, d)
        BY <1>4, <3>1
      <3>3. d = "redis" /\ r.field[2] = h /\ r.field[3] = x
        BY <3>1, <3>2, AboutPrefix
      <3>4. ReplicationRow(rep, r)
        BY <1>3, <3>1, <3>2, <3>3
      <3>5. QED
        BY <3>1, <3>2, <3>3, <3>4 DEF OkRow
    <2>3. QED
      BY <2>1, <2>2 DEF AnyOkOf
  <1>7. QED
    BY <1>5, <1>6

\* Which of them there are.
SaysOk(nodes, field, h) == \E i \in DOMAIN nodes : nodes[i].IP = h /\ nodes[i][field] = "ok"

LEMMA OkRowsAre ==
    ASSUME NEW rep, NEW h
    PROVE  /\ AnyOk(rep, "mysql_master", h) <=> SaysOk(rep.MySQLMasters, "Status", h)
           /\ AnyOk(rep, "mysql_slave", h) <=> SaysOk(rep.MySQLSlaves, "Status", h)
           /\ AnyOkOf(rep, "role", h) <=> SaysOk(rep.RedisNodes, "RoleConsistencyStatus", h)
           /\ AnyOkOf(rep, "link", h) <=> SaysOk(rep.RedisNodes, "LinkStatus", h)
  <1> DEFINE Master(i, r) == r = Row("mysql_master", rep.MySQLMasters[i].IP, "read_only",
                                     Graded(rep.MySQLMasters[i].Status = "ok"))
             Slave(i, r) == r = Row("mysql_slave", rep.MySQLSlaves[i].IP, "replication",
                                    Graded(rep.MySQLSlaves[i].Status = "ok"))
             Role(i, r) == r = Row("redis", rep.RedisNodes[i].IP, "role",
                                   Graded(rep.RedisNodes[i].RoleConsistencyStatus = "ok"))
             Link(i, r) == r = Row("redis", rep.RedisNodes[i].IP, "link",
                                   Graded(rep.RedisNodes[i].LinkStatus = "ok"))
  <1>1. \A r : ReplicationRow(rep, r) <=>
            \/ \E i \in DOMAIN rep.MySQLMasters : Master(i, r)
            \/ \E i \in DOMAIN rep.MySQLSlaves : rep.MySQLSlaves[i].Status # "" /\ Slave(i, r)
            \/ \E i \in DOMAIN rep.RedisNodes :
                Role(i, r) \/ (rep.RedisNodes[i].LinkStatus # "N/A" /\ Link(i, r))
    BY Zenon DEF ReplicationRow
  <1>2. \A ok : Graded(ok) = "ok" <=> ok
    BY DEF Graded
  <1>31. ASSUME NEW i, NEW r, Master(i, r)
        PROVE  /\ About(r, "mysql_master") /\ r.field[2] = rep.MySQLMasters[i].IP /\ r.field[3] = "read_only"
               /\ r.status = "ok" <=> rep.MySQLMasters[i].Status = "ok"
    <2> DEFINE g == Graded(rep.MySQLMasters[i].Status = "ok")
    <2>1. g = "ok" <=> rep.MySQLMasters[i].Status = "ok"
      BY <1>2, Zenon
    <2>2. r = Row("mysql_master", rep.MySQLMasters[i].IP, "read_only", g)
      BY <1>31
    <2> HIDE DEF g, Master
    <2>3. QED
      BY <2>1, <2>2, RowIs
  <1>32. ASSUME NEW i, NEW r, Slave(i, r)
        PROVE  /\ About(r, "mysql_slave") /\ r.field[2] = rep.MySQLSlaves[i].IP /\ r.field[3] = "replication"
               /\ r.status = "ok" <=> rep.MySQLSlaves[i].Status = "ok"
    <2> DEFINE g == Graded(rep.MySQLSlaves[i].Status = "ok")
    <2>1. g = "ok" <=> rep.MySQLSlaves[i].Status = "ok"
      BY <1>2, Zenon
    <2>2. r = Row("mysql_slave", rep.MySQLSlaves[i].IP, "replication", g)
      BY <1>32
    <2> HIDE DEF g, Slave
    <2>3. QED
      BY <2>1, <2>2, RowIs
  <1>33. ASSUME NEW i, NEW r, Role(i, r)
        PROVE  /\ About(r, "redis") /\ r.field[2] = rep.RedisNodes[i].IP /\ r.field[3] = "role"
               /\ r.status = "ok" <=> rep.RedisNodes[i].RoleConsistencyStatus = "ok"
    <2> DEFINE g == Graded(rep.RedisNodes[i].RoleConsistencyStatus = "ok")
    <2>1. g = "ok" <=> rep.RedisNodes[i].RoleConsistencyStatus = "ok"
      BY <1>2, Zenon
    <2>2. r = Row("redis", rep.RedisNodes[i].IP, "role", g)
      BY <1>33
    <2> HIDE DEF g, Role
    <2>3. QED
      BY <2>1, <2>2, RowIs
  <1>34. ASSUME NEW i, NEW r, Link(i, r)
        PROVE  /\ About(r, "redis") /\ r.field[2] = rep.RedisNodes[i].IP /\ r.field[3] = "link"
               /\ r.status = "ok" <=> rep.RedisNodes[i].LinkStatus = "ok"
    <2> DEFINE g == Graded(rep.RedisNodes[i].LinkStatus = "ok")
    <2>1. g = "ok" <=> rep.RedisNodes[i].LinkStatus = "ok"
      BY <1>2, Zenon
    <2>2. r = Row("redis", rep.RedisNodes[i].IP, "link", g)
      BY <1>34
    <2> HIDE DEF g, Link
    <2>3. QED
      BY <2>1, <2>2, RowIs
  <1>4. \A i : /\ \E r : Master(i, r)
               /\ \E r : Slave(i, r)
               /\ \E r : Role(i, r)
               /\ \E r : Link(i, r)
    OBVIOUS
  <1>5. \A r : /\ ~ (About(r, "redis") /\ About(r, "mysql_master"))
               /\ ~ (About(r, "redis") /\ About(r, "mysql_slave"))
               /\ ~ (About(r, "mysql_master") /\ About(r, "mysql_slave"))
    BY DEF About
  <1> HIDE DEF Master, Slave, Role, Link
  <1>6. (\E r : OkRow(rep, r, "mysql_master", h)) <=> \E i \in DOMAIN rep.MySQLMasters :
                rep.MySQLMasters[i].IP = h /\ rep.MySQLMasters[i].Status = "ok"
    <2>1. ASSUME NEW r, OkRow(rep, r, "mysql_master", h)
          PROVE  \E i \in DOMAIN rep.MySQLMasters : rep.MySQLMasters[i].IP = h /\ rep.MySQLMasters[i].Status = "ok"
      <3>1. /\ ReplicationRow(rep, r) /\ About(r, "mysql_master") /\ r.field[2] = h /\ r.status = "ok"
        BY <2>1 DEF OkRow
      <3>2. PICK i \in DOMAIN rep.MySQLMasters : Master(i, r)
        BY <1>1, <1>31, <1>32, <1>33, <1>34, <1>5, <3>1
      <3>3. QED
        BY <1>31, <3>1, <3>2
    <2>2. ASSUME NEW i \in DOMAIN rep.MySQLMasters, rep.MySQLMasters[i].IP = h,
                 rep.MySQLMasters[i].Status = "ok"
          PROVE  \E r : OkRow(rep, r, "mysql_master", h)
      <3>1. PICK r : Master(i, r)
        BY <1>4
      <3>2. ReplicationRow(rep, r)
        BY <1>1, <2>2, <3>1
      <3>3. OkRow(rep, r, "mysql_master", h)
        BY <1>31, <1>32, <1>33, <1>34, <2>2, <3>1, <3>2 DEF OkRow
      <3>4. QED
        BY <3>3
    <2>3. QED
      BY <2>1, <2>2
  <1>7. (\E r : OkRow(rep, r, "mysql_slave", h)) <=> \E i \in DOMAIN rep.MySQLSlaves :
                rep.MySQLSlaves[i].IP = h /\ rep.MySQLSlaves[i].Status = "ok"
    <2>1. ASSUME NEW r, OkRow(rep, r, "mysql_slave", h)
          PROVE  \E i \in DOMAIN rep.MySQLSlaves : rep.MySQLSlaves[i].IP = h /\ rep.MySQLSlaves[i].Status = "ok"
      <3>1. /\ ReplicationRow(rep, r) /\ About(r, "mysql_slave") /\ r.field[2] = h /\ r.status = "ok"
        BY <2>1 DEF OkRow
      <3>2. PICK i \in DOMAIN rep.MySQLSlaves : Slave(i, r)
        BY <1>1, <1>31, <1>32, <1>33, <1>34, <1>5, <3>1
      <3>3. QED
        BY <1>32, <3>1, <3>2
    <2>2. ASSUME NEW i \in DOMAIN rep.MySQLSlaves, rep.MySQLSlaves[i].IP = h,
                 rep.MySQLSlaves[i].Status = "ok"
          PROVE  \E r : OkRow(rep, r, "mysql_slave", h)
      <3>1. PICK r : Slave(i, r)
        BY <1>4
      <3>2. ReplicationRow(rep, r)
        BY <1>1, <2>2, <3>1
      <3>3. OkRow(rep, r, "mysql_slave", h)
        BY <1>31, <1>32, <1>33, <1>34, <2>2, <3>1, <3>2 DEF OkRow
      <3>4. QED
        BY <3>3
    <2>3. QED
      BY <2>1, <2>2
  <1>8. (\E r : OkRow(rep, r, "redis", h) /\ r.field[3] = "role")
            <=> \E i \in DOMAIN rep.RedisNodes :
                rep.RedisNodes[i].IP = h /\ rep.RedisNodes[i].RoleConsistencyStatus = "ok"
    <2>1. ASSUME NEW r, OkRow(rep, r, "redis", h) /\ r.field[3] = "role"
          PROVE  \E i \in DOMAIN rep.RedisNodes : rep.RedisNodes[i].IP = h /\ rep.RedisNodes[i].RoleConsistencyStatus = "ok"
      <3>1. /\ ReplicationRow(rep, r) /\ About(r, "redis") /\ r.field[2] = h /\ r.status = "ok"
            /\ r.field[3] = "role"
        BY <2>1 DEF OkRow
      <3>2. PICK i \in DOMAIN rep.RedisNodes : Role(i, r)
        BY <1>1, <1>31, <1>32, <1>33, <1>34, <1>5, <3>1
      <3>3. QED
        BY <1>33, <3>1, <3>2
    <2>2. ASSUME NEW i \in DOMAIN rep.RedisNodes, rep.RedisNodes[i].IP = h,
                 rep.RedisNodes[i].RoleConsistencyStatus = "ok"
          PROVE  \E r : OkRow(rep, r, "redis", h) /\ r.field[3] = "role"
      <3>1. PICK r : Role(i, r)
        BY <1>4
      <3>2. ReplicationRow(rep, r)
        BY <1>1, <2>2, <3>1
      <3>3. OkRow(rep, r, "redis", h) /\ r.field[3] = "role"
        BY <1>31, <1>32, <1>33, <1>34, <2>2, <3>1, <3>2 DEF OkRow
      <3>4. QED
        BY <3>3
    <2>3. QED
      BY <2>1, <2>2
  <1>9. (\E r : OkRow(rep, r, "redis", h) /\ r.field[3] = "link")
            <=> \E i \in DOMAIN rep.RedisNodes :
                rep.RedisNodes[i].IP = h /\ rep.RedisNodes[i].LinkStatus = "ok"
    <2>1. ASSUME NEW r, OkRow(rep, r, "redis", h) /\ r.field[3] = "link"
          PROVE  \E i \in DOMAIN rep.RedisNodes : rep.RedisNodes[i].IP = h /\ rep.RedisNodes[i].LinkStatus = "ok"
      <3>1. /\ ReplicationRow(rep, r) /\ About(r, "redis") /\ r.field[2] = h /\ r.status = "ok"
            /\ r.field[3] = "link"
        BY <2>1 DEF OkRow
      <3>2. PICK i \in DOMAIN rep.RedisNodes : Link(i, r)
        BY <1>1, <1>31, <1>32, <1>33, <1>34, <1>5, <3>1
      <3>3. QED
        BY <1>34, <3>1, <3>2
    <2>2. ASSUME NEW i \in DOMAIN rep.RedisNodes, rep.RedisNodes[i].IP = h,
                 rep.RedisNodes[i].LinkStatus = "ok"
          PROVE  \E r : OkRow(rep, r, "redis", h) /\ r.field[3] = "link"
      <3>1. PICK r : Link(i, r)
        BY <1>4
      <3>2. ReplicationRow(rep, r)
        BY <1>1, <2>2, <3>1
      <3>3. OkRow(rep, r, "redis", h) /\ r.field[3] = "link"
        BY <1>31, <1>32, <1>33, <1>34, <2>2, <3>1, <3>2 DEF OkRow
      <3>4. QED
        BY <3>3
    <2>3. QED
      BY <2>1, <2>2
  <1>10. QED
    BY <1>6, <1>7, <1>8, <1>9, Zenon DEF AnyOk, AnyOkOf, SaysOk

\* What the collectors of replication say "ok" of.
LEMMA MasterOk ==
    ASSUME NEW ip, NEW a
    PROVE  /\ REP!collectMySQLMaster(ip, a).IP = ip
           /\ REP!collectMySQLMaster(ip, a).Status = "ok" <=> a.err = "" /\ ~ a.read_only
  BY DEF REP!collectMySQLMaster, REP!NoError

RedisSays(n, ip, a, declared, t) ==
    /\ n.IP = ip
    /\ n.RoleConsistencyStatus = "ok" <=> a.err = "" /\ a.role = declared
    /\ n.LinkStatus = "ok" <=> a.err = "" /\ a.role = "slave" /\ a.up /\ a.io <= t

LEMMA RedisOk ==
    ASSUME NEW ip, NEW a \in REP!RedisReplAnswers, NEW declared, NEW t \in Int
    PROVE  RedisSays(REP!collectRedisReplication(ip, a, declared, t), ip, a, declared, t)
  <1> DEFINE n == REP!collectRedisReplication(ip, a, declared, t)
  <1>1. n.IP = ip
    BY DEF REP!collectRedisReplication
  <1>2. n.RoleConsistencyStatus = "ok" <=> a.err = "" /\ a.role = declared
    <2>1. n.RoleConsistencyStatus = IF a.err # "" THEN "N/A"
                                    ELSE IF a.role = declared THEN "ok" ELSE "warn"
      BY DEF REP!collectRedisReplication, REP!NoError
    <2> HIDE DEF n
    <2>2. QED
      BY <2>1
  <1>3. a.io \in Int /\ a.up \in BOOLEAN
    BY DEF REP!RedisReplAnswers, REP!Seconds
  <1>4. n.LinkStatus = IF ~ (a.err = "" /\ a.role = "slave") THEN "N/A"
                       ELSE IF ~ a.up THEN "critical"
                       ELSE IF a.io > t THEN "warn" ELSE "ok"
    BY DEF REP!collectRedisReplication, REP!NoError
  <1> HIDE DEF n
  <1>5. n.LinkStatus = "ok" <=> a.err = "" /\ a.role = "slave" /\ a.up /\ a.io <= t
    <2>1. a.io > t <=> ~ (a.io <= t)
      BY <1>3
    <2>2. QED
      BY <1>4, <2>1, Zenon
  <1>6. QED
    BY <1>1, <1>2, <1>5 DEF n, RedisSays

\* The row that decides is that of SHOW SLAVE STATUS or, if it gave none, of the other.
LEMMA SlaveOk ==
    ASSUME NEW ip, NEW a \in REP!SlaveAnswers, NEW t \in Int,
           NEW deciding, deciding = IF a.slave.rows # <<>> THEN a.slave.rows ELSE a.replica.rows
    PROVE  REP!collectMySQLSlave(ip, a, t).Status = "ok"
           <=> \E row \in ToSet(deciding) : row.IO /\ row.SQL /\ REP!SecondsBehind(row) <= t
  <1> DEFINE s == REP!StatusOfSlave(a)
  <1>1. /\ a.slave.rows = <<>> \/ \E r \in REP!StatusRow : a.slave.rows = <<r>>
        /\ a.replica.rows = <<>> \/ \E r \in REP!StatusRow : a.replica.rows = <<r>>
    BY DEF REP!SlaveAnswers, REP!Statement
  <1>2. s.rows = deciding /\ (s.err = "" \/ s.rows = <<>>)
    BY DEF REP!StatusOfSlave, REP!SlaveAnswers, REP!Statement, REP!NoError
  <1>3. REP!collectMySQLSlave(ip, a, t).Status
            = IF s.err # "" THEN ""
              ELSE IF s.rows = <<>> THEN "not-configured-as-slave"
              ELSE REP!SlaveGrade(s.rows[1], t)
    BY DEF REP!collectMySQLSlave, REP!NoError
  <1> HIDE DEF s
  <1>4. CASE s.rows = <<>>
    <2>1. ToSet(deciding) = {}
      BY <1>2, <1>4, NoRows
    <2>2. REP!collectMySQLSlave(ip, a, t).Status # "ok"
      BY <1>3, <1>4, Zenon
    <2>3. QED
      BY <2>1, <2>2
  <1>5. CASE s.rows # <<>>
    <2>1. PICK r \in REP!StatusRow : s.rows = <<r>>
      BY <1>1, <1>2, <1>5
    <2>2. s.rows[1] = r /\ ToSet(deciding) = {r}
      <3>1. <<r>>[1] = r /\ ToSet(<<r>>) = {r}
        BY OneRow
      <3>2. QED
        BY <1>2, <2>1, <3>1, Zenon
    <2>3. REP!SecondsBehind(r) \in Int
      BY DEF REP!SecondsBehind, REP!StatusRow, REP!Seconds, REP!Null
    <2>4. REP!collectMySQLSlave(ip, a, t).Status = REP!SlaveGrade(r, t)
      BY <1>2, <1>3, <1>5, <2>2
    <2>5. REP!SlaveGrade(r, t) = "ok" <=> r.IO /\ r.SQL /\ REP!SecondsBehind(r) <= t
      BY <2>3 DEF REP!SlaveGrade
    <2>6. QED
      BY <2>2, <2>4, <2>5
  <1>6. QED
    BY <1>4, <1>5

\* The verdict on replication, host by host, for every threshold and however often a
\* host is named: an "ok" is exactly what the host says, of a slave in the row of the
\* statement that decides.
THEOREM ReplicationJudged == Spec => []ReplicationVerdict
  <1>1. Facts /\ RowsInv /\ StageInv => ReplicationVerdict
    <2> DEFINE a == answers["replication"]
               lag == cfg.Thresholds["mysql_lag"]
               io == cfg.Thresholds["redis_io"]
               rep == REP!CollectReplication(cfg, answers["replication"])
               Ok(field) == Rows(field, {"ok"}) # {}
               InTime(row) == row.IO /\ row.SQL /\ REP!SecondsBehind(row) <= lag
               Deciding(s) == IF s.slave.rows # <<>> THEN s.slave.rows ELSE s.replica.rows
               Places(l, h) == {i \in DOMAIN cfg.hosts[l] : cfg.hosts[l][i] = h}
               SlaveSide(h) == \E i \in Places("mysql_slave", h) :
                    \E row \in ToSet(Deciding(a.mysql_slave[i])) : InTime(row)
               MasterSide(h) == \E i \in Places("mysql_master", h) :
                    a.mysql_master[i].err = "" /\ ~ a.mysql_master[i].read_only
               LinkSide(h) == \E l \in DOMAIN RoleOf : \E i \in Places(l, h) :
                    /\ a[l][i].err = "" /\ a[l][i].role = "slave"
                    /\ a[l][i].up /\ a[l][i].io <= io
               RoleSide(h) == \E l \in DOMAIN RoleOf : \E i \in Places(l, h) :
                    a[l][i].err = "" /\ a[l][i].role = RoleOf[l]
               Says(h) ==
                    /\ Ok(<<"mysql_slave", h>>) <=> SlaveSide(h)
                    /\ Ok(<<"mysql_master", h>>) <=> MasterSide(h)
                    /\ Ok(<<"redis", h, "link">>) <=> LinkSide(h)
                    /\ Ok(<<"redis", h, "role">>) <=> RoleSide(h)
               Hosts == UNION {ToSet(cfg.hosts[l]) : l \in ReplicationLists}
    <2>0. ReplicationVerdict <=> (Judged /\ report["replication"] # <<>> => \A h \in Hosts : Says(h))
      BY DEF ReplicationVerdict
    <2> SUFFICES ASSUME Facts, RowsInv, StageInv, stage = "done", report["replication"] # <<>>,
                        NEW h
                 PROVE  Says(h)
      <3> HIDE DEF Says, Hosts
      <3>1. QED
        BY <2>0 DEF Judged
    <2>1. /\ Ok(<<"mysql_master", h>>) <=> SaysOk(rep.MySQLMasters, "Status", h)
          /\ Ok(<<"mysql_slave", h>>) <=> SaysOk(rep.MySQLSlaves, "Status", h)
          /\ Ok(<<"redis", h, "role">>) <=> SaysOk(rep.RedisNodes, "RoleConsistencyStatus", h)
          /\ Ok(<<"redis", h, "link">>) <=> SaysOk(rep.RedisNodes, "LinkStatus", h)
      BY OkRows, OkRowsAre
    <2>2. /\ DOMAIN rep.MySQLMasters = DOMAIN cfg.hosts["mysql_master"]
          /\ \A i \in DOMAIN cfg.hosts["mysql_master"] : rep.MySQLMasters[i]
                = REP!collectMySQLMaster(cfg.hosts["mysql_master"][i], a["mysql_master"][i])
          /\ DOMAIN rep.MySQLSlaves = DOMAIN cfg.hosts["mysql_slave"]
          /\ \A i \in DOMAIN cfg.hosts["mysql_slave"] : rep.MySQLSlaves[i]
                = REP!collectMySQLSlave(cfg.hosts["mysql_slave"][i], a["mysql_slave"][i], lag)
          /\ \A n : (\E k \in DOMAIN rep.RedisNodes : rep.RedisNodes[k] = n)
                     <=> \E l \in DOMAIN RoleOf : \E i \in DOMAIN cfg.hosts[l] :
                            n = ReplicationOf(l, i)
      <3>1. ReplicationMade(rep)
        BY ReplicationSection
      <3>2. QED
        BY <3>1, Zenon DEF ReplicationMade
    <2>3. /\ lag \in Int /\ io \in Int
          /\ ReplicationAnswered(a)
      BY AtTheEnd DEF Numbers, ReplicationCollected
    <2> HIDE DEF Ok, rep, lag, io
    <2>4. Ok(<<"mysql_slave", h>>) <=> SlaveSide(h)
      <3>1. \A i \in DOMAIN cfg.hosts["mysql_slave"] :
                /\ rep.MySQLSlaves[i].IP = cfg.hosts["mysql_slave"][i]
                /\ rep.MySQLSlaves[i].Status = "ok"
                    <=> \E row \in ToSet(Deciding(a["mysql_slave"][i])) : InTime(row)
        <4> SUFFICES ASSUME NEW i \in DOMAIN cfg.hosts["mysql_slave"]
                     PROVE  /\ rep.MySQLSlaves[i].IP = cfg.hosts["mysql_slave"][i]
                            /\ rep.MySQLSlaves[i].Status = "ok" <=>
                                \E row \in ToSet(Deciding(a["mysql_slave"][i])) : InTime(row)
          OBVIOUS
        <4> DEFINE b == a["mysql_slave"][i]
                   ip == cfg.hosts["mysql_slave"][i]
        <4>1. rep.MySQLSlaves[i] = REP!collectMySQLSlave(ip, b, lag) /\ b \in REP!SlaveAnswers
          BY <2>2, <2>3 DEF ReplicationAnswered
        <4> HIDE DEF b, ip
        <4>2. REP!collectMySQLSlave(ip, b, lag).IP = ip
          BY DEF REP!collectMySQLSlave
        <4>3. REP!collectMySQLSlave(ip, b, lag).Status = "ok"
                <=> \E row \in ToSet(Deciding(b)) : InTime(row)
          BY <2>3, <4>1, SlaveOk
        <4>4. QED
          BY <4>1, <4>2, <4>3, Zenon DEF b, ip
      <3>2. Ok(<<"mysql_slave", h>>) <=> \E i \in DOMAIN cfg.hosts["mysql_slave"] :
                rep.MySQLSlaves[i].IP = h /\ rep.MySQLSlaves[i].Status = "ok"
        BY <2>1, <2>2, Zenon DEF SaysOk
      <3>3. QED
        BY <3>1, <3>2
    <2>5. Ok(<<"mysql_master", h>>) <=> MasterSide(h)
      <3>1. \A i \in DOMAIN cfg.hosts["mysql_master"] :
                /\ rep.MySQLMasters[i].IP = cfg.hosts["mysql_master"][i]
                /\ rep.MySQLMasters[i].Status = "ok"
                    <=> a["mysql_master"][i].err = "" /\ ~ a["mysql_master"][i].read_only
        <4> SUFFICES ASSUME NEW i \in DOMAIN cfg.hosts["mysql_master"]
                     PROVE  /\ rep.MySQLMasters[i].IP = cfg.hosts["mysql_master"][i]
                            /\ rep.MySQLMasters[i].Status = "ok" <=>
                                a["mysql_master"][i].err = "" /\ ~ a["mysql_master"][i].read_only
          OBVIOUS
        <4> DEFINE b == a["mysql_master"][i]
                   ip == cfg.hosts["mysql_master"][i]
        <4>1. rep.MySQLMasters[i] = REP!collectMySQLMaster(ip, b)
          BY <2>2
        <4> HIDE DEF b, ip
        <4>2. /\ REP!collectMySQLMaster(ip, b).IP = ip
              /\ REP!collectMySQLMaster(ip, b).Status = "ok" <=> b.err = "" /\ ~ b.read_only
          BY MasterOk
        <4>3. QED
          BY <4>1, <4>2, Zenon DEF b, ip
      <3>2. Ok(<<"mysql_master", h>>) <=> \E i \in DOMAIN cfg.hosts["mysql_master"] :
                rep.MySQLMasters[i].IP = h /\ rep.MySQLMasters[i].Status = "ok"
        BY <2>1, <2>2, Zenon DEF SaysOk
      <3>3. QED
        BY <3>1, <3>2
    <2>6. ASSUME NEW l \in DOMAIN RoleOf, NEW i \in DOMAIN cfg.hosts[l]
          PROVE  RedisSays(ReplicationOf(l, i), cfg.hosts[l][i], a[l][i], RoleOf[l], io)
      <3> DEFINE b == a[l][i]
                 d == RoleOf[l]
                 ip == cfg.hosts[l][i]
      <3>1. b \in REP!RedisReplAnswers
        BY <2>3, RolesAre DEF ReplicationAnswered
      <3>2. ReplicationOf(l, i) = REP!collectRedisReplication(ip, b, d, io)
        BY DEF ReplicationOf, io
      <3> HIDE DEF b, d, ip
      <3>3. RedisSays(ReplicationOf(l, i), ip, b, d, io)
        BY <2>3, <3>1, <3>2, RedisOk
      <3>4. QED
        BY <3>3 DEF b, d, ip
    <2>7. Ok(<<"redis", h, "role">>) <=> RoleSide(h)
      <3>1. Ok(<<"redis", h, "role">>) <=> \E k \in DOMAIN rep.RedisNodes :
                rep.RedisNodes[k].IP = h /\ rep.RedisNodes[k].RoleConsistencyStatus = "ok"
        BY <2>1, Zenon DEF SaysOk
      <3>2. ASSUME NEW k \in DOMAIN rep.RedisNodes,
                   rep.RedisNodes[k].IP = h /\ rep.RedisNodes[k].RoleConsistencyStatus = "ok"
            PROVE  RoleSide(h)
        <4>4. PICK l \in DOMAIN RoleOf :
                \E i \in DOMAIN cfg.hosts[l] : rep.RedisNodes[k] = ReplicationOf(l, i)
          BY <2>2, <3>2, Zenon
        <4>1. PICK i \in DOMAIN cfg.hosts[l] : rep.RedisNodes[k] = ReplicationOf(l, i)
          BY <4>4
        <4>2. cfg.hosts[l][i] = h /\ a[l][i].err = "" /\ a[l][i].role = RoleOf[l]
          <5>1. RedisSays(ReplicationOf(l, i), cfg.hosts[l][i], a[l][i], RoleOf[l], io)
            BY <2>6
          <5>2. QED
            BY <3>2, <4>1, <5>1, Zenon DEF RedisSays
        <4>3. QED
          BY <4>2
      <3>3. ASSUME NEW l \in DOMAIN RoleOf, NEW i \in Places(l, h),
                   a[l][i].err = "" /\ a[l][i].role = RoleOf[l]
            PROVE  \E k \in DOMAIN rep.RedisNodes :
                    rep.RedisNodes[k].IP = h /\ rep.RedisNodes[k].RoleConsistencyStatus = "ok"
        <4>1. PICK k \in DOMAIN rep.RedisNodes : rep.RedisNodes[k] = ReplicationOf(l, i)
          BY <2>2, <3>3, Zenon
        <4>2. QED
          <5>1. RedisSays(ReplicationOf(l, i), cfg.hosts[l][i], a[l][i], RoleOf[l], io)
            BY <2>6
          <5>2. QED
            BY <3>3, <4>1, <5>1, Zenon DEF RedisSays
      <3>4. QED
        BY <3>1, <3>2, <3>3
    <2>8. Ok(<<"redis", h, "link">>) <=> LinkSide(h)
      <3>1. Ok(<<"redis", h, "link">>) <=> \E k \in DOMAIN rep.RedisNodes :
                rep.RedisNodes[k].IP = h /\ rep.RedisNodes[k].LinkStatus = "ok"
        BY <2>1, Zenon DEF SaysOk
      <3>2. ASSUME NEW k \in DOMAIN rep.RedisNodes,
                   rep.RedisNodes[k].IP = h /\ rep.RedisNodes[k].LinkStatus = "ok"
            PROVE  LinkSide(h)
        <4>4. PICK l \in DOMAIN RoleOf :
                \E i \in DOMAIN cfg.hosts[l] : rep.RedisNodes[k] = ReplicationOf(l, i)
          BY <2>2, <3>2, Zenon
        <4>1. PICK i \in DOMAIN cfg.hosts[l] : rep.RedisNodes[k] = ReplicationOf(l, i)
          BY <4>4
        <4>2. /\ cfg.hosts[l][i] = h
              /\ a[l][i].err = "" /\ a[l][i].role = "slave" /\ a[l][i].up /\ a[l][i].io <= io
          <5>1. RedisSays(ReplicationOf(l, i), cfg.hosts[l][i], a[l][i], RoleOf[l], io)
            BY <2>6
          <5>2. QED
            BY <3>2, <4>1, <5>1, Zenon DEF RedisSays
        <4>3. QED
          BY <4>2
      <3>3. ASSUME NEW l \in DOMAIN RoleOf, NEW i \in Places(l, h),
                   a[l][i].err = "" /\ a[l][i].role = "slave" /\ a[l][i].up /\ a[l][i].io <= io
            PROVE  \E k \in DOMAIN rep.RedisNodes :
                    rep.RedisNodes[k].IP = h /\ rep.RedisNodes[k].LinkStatus = "ok"
        <4>1. PICK k \in DOMAIN rep.RedisNodes : rep.RedisNodes[k] = ReplicationOf(l, i)
          BY <2>2, <3>3, Zenon
        <4>2. QED
          <5>1. RedisSays(ReplicationOf(l, i), cfg.hosts[l][i], a[l][i], RoleOf[l], io)
            BY <2>6
          <5>2. QED
            BY <3>3, <4>1, <5>1, Zenon DEF RedisSays
      <3>4. QED
        BY <3>1, <3>2, <3>3
    <2>9. QED
      BY <2>4, <2>5, <2>7, <2>8
  <1>2. QED
    BY <1>1, AllKnown, PTL

-----------------------------------------------------------------------------
(* Types *)

\* No rule gives another status.
LEMMA StatusIs ==
    ASSUME RowsInv, NEW r \in ToSet(checks)
    PROVE  r.status \in {"ok", "warn", "notice", "unknown"}
  <1>1. FromHosts(r) \/ FromServices(r) \/ FromComponents(r)
    BY DEF RowsInv, Explained
  <1>2. CASE FromHosts(r)
    BY <1>2, HostAbout DEF FromHosts
  <1>3. CASE FromServices(r)
    <2>1. \E s, t : ServiceRow(s, t, r)
      BY <1>3, Zenon DEF FromServices
    <2>2. QED
      BY <2>1, ServiceAbout
  <1>4. CASE FromComponents(r)
    <2>1. \/ \E c, nodes, t : ESRow(c, nodes, t, r)
          \/ \E n, t : RedisRow(n, t, r)
          \/ \E s : SentinelRow(s, r)
          \/ \E c : MongoRow(c, r)
          \/ \E q : BrokerRow(q, r)
          \/ \E d : DependencyRow(d, r)
          \/ \E rep : ReplicationRow(rep, r)
      BY <1>4, Zenon DEF FromComponents
    <2>2. QED
      BY <2>1, ESAbout, RedisAbout, SentinelAbout, MongoAbout, BrokerAbout, DependencyAbout,
         ReplicationAbout
  <1>5. QED
    BY <1>1, <1>2, <1>3, <1>4

LEMMA SameTypes == SvcProofs!TypeOK => Svc!TypeOK
  BY DEF SvcProofs!TypeOK, Svc!TypeOK, SvcProofs!Jobs, Svc!Jobs

\* The report is empty until collection begins, its rows have the statuses that Summarize
\* knows, and verdicts on dependencies are on the items in their order.
THEOREM CollectionTypes == Spec => []TypeOK
  <1>1. Facts /\ RowsInv /\ StageInv /\ SvcProofs!TypeOK => TypeOK
    <2> SUFFICES ASSUME Facts, RowsInv, StageInv, SvcProofs!TypeOK PROVE TypeOK
      OBVIOUS
    <2>1. stage \in Sections \cup {"load", "exit", "services", "es", "deps", "done"}
      BY DEF StageInv, Sections, PastHosts, PastServices, PastMySQL, PastRedis, PastSentinel,
             PastMongo, PastBroker, PastReplication
    <2>2. Svc!TypeOK
      BY SameTypes
    <2>3. \A r \in ToSet(checks) : r.status \in {"ok", "warn", "notice", "unknown"}
      BY StatusIs
    <2>4. \A s \in Sections : stage \in {"load", "exit"} => report[s] = <<>>
      BY DEF Facts, Collected
    <2>5. Len(dependencies) <= Len(Dep!Items)
      <3>1. Len(Dep!Items) = 6
        BY DEF Dep!Items
      <3>2. QED
        BY <3>1 DEF Facts, DepTold
    <2>6. \A k \in DOMAIN dependencies : dependencies[k].Item = Dep!Items[k]
      <3>1. dependencies \in Seq(Verdicts)
        BY DEF Facts, DepInv
      <3>2. DOMAIN dependencies = 1 .. Len(dependencies)
        BY <3>1
      <3>3. QED
        BY <3>2 DEF Facts, DepTold
    <2>7. QED
      BY <2>1, <2>2, <2>3, <2>4, <2>5, <2>6 DEF TypeOK
  <1>2. Spec => []SvcProofs!TypeOK
    BY CollectsServices, SvcProofs!ServiceTypes, PTL
  <1>3. QED
    BY <1>1, <1>2, AllKnown, PTL

-----------------------------------------------------------------------------
(* Services in good health *)

LEMMA RegistryIs ==
    ASSUME NEW m
    PROVE  /\ List(Svc!ModuleRegistry(m))
           /\ \A i \in DOMAIN Svc!ModuleRegistry(m) : Svc!ModuleRegistry(m)[i].HealthzType
                \in {"none", "http_alive", "http_status", "json_ok", "json_up"}
  <1> DEFINE reg == Svc!ModuleRegistry(m)
             Kinds == {"none", "http_alive", "http_status", "json_ok", "json_up"}
             a == Svc!Sub("web", "http_status", FALSE)
             b == Svc!Sub("cmdb", "json_ok", FALSE)
             c == Svc!Sub("job-analysis", "json_up", TRUE)
             d == Svc!Sub("job", "json_up", FALSE)
             e == Svc!Sub("agent", "none", FALSE)
             f == Svc!Sub("server", "http_alive", FALSE)
  <1>1. reg = <<a>> \/ reg = <<b>> \/ reg = <<c, d>> \/ reg = <<e>> \/ reg = <<f>>
    BY Zenon DEF Svc!ModuleRegistry
  <1>2. \A x \in {a, b, c, d, e, f} : x.HealthzType \in Kinds
    BY DEF Svc!Sub
  <1> HIDE DEF reg, Kinds, a, b, c, d, e, f
  <1>3. /\ DOMAIN <<c, d>> = {1, 2} /\ <<c, d>>[1] = c /\ <<c, d>>[2] = d
        /\ <<c, d>> \in Seq({c, d})
    OBVIOUS
  <1>4. List(reg)
    BY <1>1, <1>3, OneRow, ListOf
  <1>5. \A i \in DOMAIN reg : reg[i] \in {a, b, c, d, e, f}
    BY <1>1, <1>3, OneEntry
  <1>6. QED
    BY <1>2, <1>4, <1>5 DEF reg, Kinds

LEMMA SectionsAre == ASSUME NEW m PROVE List(Svc!Sections(m))
  <1> DEFINE subs == Svc!ModuleRegistry(m)
             blocks == [i \in DOMAIN subs |->
                            IF subs[i].skipped THEN <<>> ELSE <<<<"SVC", i>>, <<"HZ", i>>>>]
             tail == IF m \in {"appo", "appt"} THEN <<<<"DOCKER", 0>>>> ELSE <<>>
  <1>1. List(subs)
    BY RegistryIs
  <1>2. ASSUME NEW i \in DOMAIN subs PROVE List(blocks[i])
    <2>1. List(<<>>) /\ <<<<"SVC", i>>, <<"HZ", i>>>> \in Seq({<<"SVC", i>>, <<"HZ", i>>})
      BY NoRows
    <2>2. QED
      BY <2>1, ListOf
  <1>3. List(tail)
    BY NoRows, OneRow
  <1>4. blocks = [i \in DOMAIN subs |-> blocks[i]]
    OBVIOUS
  <1>5. Svc!Sections(m) = FlattenSeq(blocks) \o tail
    BY DEF Svc!Sections, Svc!FlattenSeq, FlattenSeq
  <1> HIDE DEF blocks, tail, subs
  <1>6. List(FlattenSeq(blocks))
    BY <1>1, <1>2, <1>4, Blocks
  <1>7. QED
    BY <1>3, <1>5, <1>6, Joined

\* Only output that is complete and not torn is whole.
LEMMA WholeOutput ==
    ASSUME NEW m, NEW r \in Svc!Replies(m), ~ r.silent, Svc!Whole(m, r)
    PROVE  r.out \in Svc!FullOutputs(m)
  <1> DEFINE o == r.out
             n == Len(Svc!Sections(m))
  <1>1. n \in Nat /\ DOMAIN Svc!Sections(m) = 1 .. n
    BY SectionsAre, Positions
  <1>2. o \in Svc!Outputs(m)
    BY DEF Svc!Replies, Svc!Silence
  <1>3. Len(o) = n /\ o[Len(o)] \notin Svc!Torn
    BY DEF Svc!Whole, Svc!Last
  <1> HIDE DEF o, n
  <1>4. ASSUME NEW c \in Svc!CutOutputs(m)
        PROVE  /\ \E T : c \in Seq(T)
               /\ Len(c) \in Nat /\ Len(c) < n
    <2>1. PICK f \in Svc!FullOutputs(m) : \E k \in 0 .. Len(f) - 1 : c = SubSeq(f, 1, k)
      BY Zenon DEF Svc!CutOutputs
    <2>2. PICK k \in 0 .. Len(f) - 1 : c = SubSeq(f, 1, k)
      BY <2>1
    <2>3. f = [i \in 1 .. n |-> f[i]] /\ DOMAIN f = 1 .. n
      BY <1>1 DEF Svc!FullOutputs
    <2>4. List(f) /\ Len(f) = n
      BY <1>1, <2>3, Tabulated
    <2>5. f \in Seq(ToSet(f))
      BY <2>4 DEF List
    <2>6. c \in Seq(ToSet(f)) /\ Len(c) = k
      BY <1>1, <2>2, <2>4, <2>5
    <2>7. QED
      BY <1>1, <2>4, <2>6
  <1>5. o \notin Svc!CutOutputs(m)
    BY <1>1, <1>3, <1>4
  <1>6. ASSUME NEW c \in Svc!CutOutputs(m), NEW t \in Svc!Torn PROVE o # Append(c, t)
    <2>1. PICK T : c \in Seq(T)
      BY <1>4
    <2>2. c \in Seq(T \cup {t})
      BY <2>1, SeqMonotonic
    <2>3. Append(c, t)[Len(Append(c, t))] = t
      BY <2>2
    <2>4. QED
      BY <1>3, <2>3
  <1>7. o \notin Svc!TornOutputs(m)
    BY <1>6, Zenon DEF Svc!TornOutputs
  <1>8. QED
    BY <1>2, <1>5, <1>7, Zenon DEF Svc!Outputs, o

\* What the sections of a healthy host say.
Well == {"active", "good", "N/A", "none", "up"}

\* A section that is looked up is not there, or says one of the texts of its kind.
LEMMA SectionOf ==
    ASSUME NEW m, NEW r, r.out \in Svc!FullOutputs(m), ToSet(r.out) \subseteq Well, NEW s
    PROVE  Svc!Section(m, r, s) \in {Svc!Absent} \cup (Svc!Texts(m, s) \cap Well)
  <1> DEFINE here == {k \in DOMAIN r.out : Svc!Sections(m)[k] = s}
  <1>1. CASE here = {}
    BY <1>1 DEF Svc!Section
  <1>2. CASE here # {}
    <2>1. PICK k \in here : Svc!Section(m, r, s) = r.out[k]
      BY <1>2, Zenon DEF Svc!Section
    <2>2. r.out[k] \in Svc!Texts(m, s)
      BY <2>1 DEF Svc!FullOutputs
    <2>3. r.out[k] \in Well
      BY <2>1 DEF ToSet
    <2>4. QED
      BY <2>1, <2>2, <2>3
  <1>3. QED
    BY <1>1, <1>2

\* An entry that gives no row but "ok" and "unknown".
Idle(e) ==
    /\ e.Error = "" /\ e.ContainersExited = 0
    /\ \A i \in DOMAIN e.Services : /\ e.Services[i].Status \in {"", "active"}
                                   /\ e.Services[i].HealthzAPI \in {"", "N/A", "ok"}

Healthy(m, r) == r \in Svc!Replies(m) /\ ~ r.silent /\ GoodReply(m, r)

LEMMA IdleEntry ==
    ASSUME NEW m, NEW h, NEW r, Healthy(m, r)
    PROVE  Idle(Svc!collectServiceOnHost(m, h, r))
  <1> DEFINE e == Svc!collectServiceOnHost(m, h, r)
             reg == Svc!ModuleRegistry(m)
             text(s) == Svc!Section(m, r, s)
  <1>1. r.out \in Svc!FullOutputs(m) /\ ToSet(r.out) \subseteq Well
    BY WholeOutput DEF Healthy, GoodReply, Well
  <1>2. ASSUME NEW i \in DOMAIN reg
        PROVE  /\ Svc!Status(reg[i].skipped, text(<<"SVC", i>>)) \in {"", "active"}
               /\ Svc!HealthzAPI(reg[i], text(<<"HZ", i>>)) \in {"", "N/A", "ok"}
    <2>1. text(<<"SVC", i>>) \in {Svc!Absent, "active"}
      <3>1. Svc!Texts(m, <<"SVC", i>>) = {"active", "failed"}
        BY DEF Svc!Texts
      <3>2. QED
        BY <1>1, <3>1, SectionOf DEF Well
    <2>2. text(<<"HZ", i>>)
            \in {Svc!Absent} \cup IF reg[i].HealthzType = "none" THEN {"N/A"} ELSE {"good"}
      <3>1. Svc!Texts(m, <<"HZ", i>>) = IF reg[i].HealthzType = "none" THEN {"N/A"}
                                        ELSE {"good", "other", "unreachable"}
        BY DEF Svc!Texts
      <3>2. QED
        BY <1>1, <3>1, SectionOf DEF Well
    <2>3. reg[i].HealthzType \in {"none", "http_alive", "http_status", "json_ok", "json_up"}
      BY RegistryIs
    <2> HIDE DEF text, reg
    <2>4. Svc!Status(reg[i].skipped, text(<<"SVC", i>>)) \in {"", "active"}
      BY <2>1 DEF Svc!Status, Svc!Absent, Svc!Nothing
    <2>5. Svc!HealthzAPI(reg[i], text(<<"HZ", i>>)) \in {"", "N/A", "ok"}
      BY <2>2, <2>3 DEF Svc!HealthzAPI, Svc!Absent, Svc!Nothing
    <2>6. QED
      BY <2>4, <2>5
  <1>3. Svc!Exited(text(<<"DOCKER", 0>>)) = 0
    <2>1. Svc!Texts(m, <<"DOCKER", 0>>) = {"none", "up", "one", "two"}
      BY DEF Svc!Texts
    <2>2. text(<<"DOCKER", 0>>) \in {Svc!Absent, "none", "up"}
      BY <1>1, <2>1, SectionOf DEF Well
    <2>3. QED
      BY <2>2 DEF Svc!Exited, Svc!Absent
  <1>4. ~ r.silent
    BY DEF Healthy
  <1>5. e.Error = "" /\ e.ContainersExited = Svc!Exited(text(<<"DOCKER", 0>>))
    BY <1>4 DEF Svc!collectServiceOnHost
  <1>6. /\ DOMAIN e.Services = DOMAIN reg
        /\ \A i \in DOMAIN reg :
            /\ e.Services[i].Status = Svc!Status(reg[i].skipped, text(<<"SVC", i>>))
            /\ e.Services[i].HealthzAPI = Svc!HealthzAPI(reg[i], text(<<"HZ", i>>))
    BY <1>4 DEF Svc!collectServiceOnHost
  <1> HIDE DEF e, reg, text
  <1>7. QED
    BY <1>2, <1>3, <1>5, <1>6 DEF Idle, e

\* With no part in trouble, every host that has answered is in good health.
ServicesCalm ==
    env.troubled = {} =>
        \A j \in DOMAIN reply : at[j] # "call" => Healthy(j[1], reply[j])

LEMMA ServicesCalmNext == SvcProofs!IInv /\ ServicesCalm /\ [Next]_vars => ServicesCalm'
  <1> SUFFICES ASSUME SvcProofs!IInv, ServicesCalm, [Next]_vars PROVE ServicesCalm'
    OBVIOUS
  <1>5. env' = env
    BY ConfigStays DEF config
  <1>6. SUFFICES ASSUME env.troubled = {}
                 PROVE  \A j \in DOMAIN reply' : at'[j] # "call" => Healthy(j[1], reply'[j])
    BY <1>5 DEF ServicesCalm, Healthy, GoodReply
  <1>1. CASE HostAnswers
    <2>1. PICK j \in DOMAIN at : \E r \in ServiceReplies(j[1]) : Svc!Answer(j, r)
      BY <1>1 DEF HostAnswers
    <2>2. PICK r \in ServiceReplies(j[1]) : Svc!Answer(j, r)
      BY <2>1
    <2>3. Healthy(j[1], r)
      BY <1>6, <2>2 DEF ServiceReplies, Pick, Troubled, Healthy
    <2>4. /\ at' = [at EXCEPT ![j] = "answered"] /\ reply' = [reply EXCEPT ![j] = r]
          /\ DOMAIN at = DOMAIN reply
      BY <2>2 DEF Svc!Answer, SvcProofs!IInv, SvcProofs!Types
    <2>5. QED
      BY <1>6, <2>3, <2>4 DEF ServicesCalm
  <1>2. CASE Gather
    <2>1. CASE Svc!Begin
      BY <2>1 DEF Svc!Begin
    <2>2. CASE Svc!Join
      BY <1>6, <2>2 DEF Svc!Join, ServicesCalm
    <2>3. ASSUME NEW j \in DOMAIN at, Svc!Lock(j) \/ Svc!Store(j)
          PROVE  \A i \in DOMAIN reply' : at'[i] # "call" => Healthy(i[1], reply'[i])
      <3>1. /\ at[j] # "call" /\ reply' = reply
            /\ \A i \in DOMAIN at : i # j => at'[i] = at[i]
        BY <2>3 DEF Svc!Lock, Svc!Store
      <3>2. DOMAIN at = DOMAIN reply
        BY <2>3 DEF Svc!Lock, Svc!Store, SvcProofs!IInv, SvcProofs!Types
      <3>3. QED
        BY <1>6, <3>1, <3>2 DEF ServicesCalm
    <2>4. QED
      BY <1>2, <2>1, <2>2, <2>3 DEF Gather, Svc!Own
  <1>3. CASE UNCHANGED services
    BY <1>3, <1>6 DEF services, ServicesCalm
  <1>4. QED
    BY <1>1, <1>2, <1>3, OthersLeaveServices DEF Next, Work

LEMMA ServicesCalmAlways == Spec => []ServicesCalm
  <1>1. Init => ServicesCalm
    BY DEF Init, Svc!Init, ServicesCalm
  <1>2. QED
    BY <1>1, ServicesCalmNext, ServicesAlways, PTL DEF Spec

-----------------------------------------------------------------------------
(* What is made of good health *)

\* A row that is no alarm.
Quiet(r) == r.status \notin Alarms

LEMMA AtRest == ASSUME NEW t \in Int, t >= 0 PROVE ~ (0 > t)
  OBVIOUS

LEMMA GradedQuiet == ASSUME NEW c, NEW w, NEW x, NEW ok, ok PROVE Quiet(Row(c, w, x, Graded(ok)))
  BY RowIs DEF Quiet, Graded, Alarms

LEMMA HostGoodIs ==
    ASSUME NEW ip, cfg.Thresholds["max_open_files"] \in Int,
           NEW h, h = HOST!parseHostOutput(ip, HOST!HostGood, cfg)
    PROVE  /\ h.CPUUsage = 0 /\ h.MemUsage = 0
           /\ \A i \in DOMAIN h.DiskUsage : h.DiskUsage[i] = 0
           /\ \A i \in DOMAIN h.InodeUsage : h.InodeUsage[i] = 0
           /\ h.MaxOpenFiles = cfg.Thresholds["max_open_files"]
           /\ h.SELinux = "Disabled" /\ h.Firewalld = "inactive" /\ h.Chronyd = "active"
           /\ h.LoadAvg = <<0, 0, 0>> /\ h.Core = 1
  <1> DEFINE a == HOST!HostGood
             t == cfg.Thresholds
             got(section) == \E k \in 1 .. a.got : HOST!HostSections[k] = section
             all == HOST!parseDiskUsage(a.mounts, cfg.paths, cfg.nfs)
  <1>1. a.got = 9 /\ a.odd = "none"
    BY DEF HOST!HostGood, HOST!HostSections
  <1>2. \A s \in {"LOADAVG", "FREE", "DF", "DFI", "ULIMIT", "CHRONYD", "SELINUX", "FIREWALLD",
                  "CPUCOUNT"} : got(s)
    <2>1. \A s \in {"LOADAVG", "FREE", "DF", "DFI", "ULIMIT", "CHRONYD", "SELINUX", "FIREWALLD",
                    "CPUCOUNT"} : \E k \in 1 .. 9 : HOST!HostSections[k] = s
      BY DEF HOST!HostSections
    <2>2. QED
      BY <1>1, <2>1
  <1> HIDE DEF got
  <1>3. /\ h.CPUUsage = (IF a.odd = "cpu" THEN t["cpu"] ELSE 0)
        /\ h.MemUsage = (IF got("FREE") /\ a.odd = "mem" THEN t["mem"] ELSE 0)
        /\ h.DiskUsage = (IF ~ got("DF") THEN <<>>
                          ELSE [i \in DOMAIN all |-> IF a.odd = "disk" THEN t["disk"] ELSE 0])
        /\ h.InodeUsage = (IF ~ got("DFI") THEN <<>>
                           ELSE [i \in DOMAIN all |-> IF a.odd = "inode" THEN t["inode"] ELSE 0])
        /\ h.MaxOpenFiles = (IF ~ got("ULIMIT") THEN 0
                             ELSE t["max_open_files"] - (IF a.odd = "files" THEN 1 ELSE 0))
    BY Zenon DEF HOST!parseHostOutput, got
  <1>4. /\ h.SELinux = (IF ~ got("SELINUX") THEN ""
                        ELSE IF a.odd = "selinux" THEN "Enforcing" ELSE "Disabled")
        /\ h.Firewalld = (IF ~ got("FIREWALLD") THEN ""
                          ELSE IF a.odd = "firewalld" THEN "active" ELSE "inactive")
        /\ h.Chronyd = (IF ~ got("CHRONYD") THEN ""
                        ELSE IF a.odd = "chronyd" THEN "inactive" ELSE "active")
        /\ h.LoadAvg = (IF ~ got("LOADAVG") THEN <<0, 0, 0>>
                        ELSE CASE a.odd = "load" -> <<4, 3, 2>>
                               [] a.odd = "load-within-cores" -> <<3, 2, 1>>
                               [] OTHER -> <<0, 0, 0>>)
        /\ h.Core = (IF got("CPUCOUNT") THEN 1 ELSE 0)
    BY Zenon DEF HOST!parseHostOutput, got
  <1> HIDE DEF a, all
  <1>5. h.DiskUsage = [i \in DOMAIN all |-> 0] /\ h.InodeUsage = [i \in DOMAIN all |-> 0]
    BY <1>1, <1>2, <1>3
  <1>6. h.MaxOpenFiles = t["max_open_files"] /\ h.CPUUsage = 0 /\ h.MemUsage = 0
    BY <1>1, <1>2, <1>3
  <1>7. /\ h.SELinux = "Disabled" /\ h.Firewalld = "inactive" /\ h.Chronyd = "active"
        /\ h.LoadAvg = <<0, 0, 0>> /\ h.Core = 1
    BY <1>1, <1>2, <1>4
  <1>8. QED
    BY <1>5, <1>6, <1>7

LEMMA HostQuiet ==
    ASSUME NEW ip, \A n \in Numbers : cfg.Thresholds[n] \in Int, Roomy,
           NEW h, h = HOST!parseHostOutput(ip, HOST!HostGood, cfg),
           NEW r, HostRow(h, cfg.Thresholds, r)
    PROVE  Quiet(r)
  <1> DEFINE t == cfg.Thresholds
  <1>1. /\ t["cpu"] > 0 /\ t["mem"] > 0 /\ t["disk"] > 0 /\ t["inode"] > 0
        /\ {t["cpu"], t["mem"], t["disk"], t["inode"], t["max_open_files"]} \subseteq Int
    BY DEF Numbers, Roomy
  <1>2. /\ h.CPUUsage = 0 /\ h.MemUsage = 0
        /\ \A i \in DOMAIN h.DiskUsage : h.DiskUsage[i] = 0
        /\ \A i \in DOMAIN h.InodeUsage : h.InodeUsage[i] = 0
        /\ h.MaxOpenFiles = t["max_open_files"]
        /\ h.SELinux = "Disabled" /\ h.Firewalld = "inactive" /\ h.Chronyd = "active"
        /\ h.LoadAvg = <<0, 0, 0>> /\ h.Core = 1
    BY <1>1, HostGoodIs
  <1> HIDE DEF t
  <1>3. /\ h.CPUUsage < t["cpu"] /\ h.MemUsage < t["mem"]
        /\ \A i \in DOMAIN h.DiskUsage : h.DiskUsage[i] < t["disk"]
        /\ \A i \in DOMAIN h.InodeUsage : h.InodeUsage[i] < t["inode"]
        /\ h.MaxOpenFiles >= t["max_open_files"]
    BY <1>1, <1>2
  <1>4. /\ h.SELinux \in {"Disabled", "N/A"} /\ h.Firewalld \in {"inactive", "N/A"}
        /\ h.Chronyd \in {"active", "N/A"}
    BY <1>2
  <1>5. ~ (h.LoadAvg[1] > h.LoadAvg[2] /\ h.LoadAvg[2] > h.LoadAvg[3] /\ h.LoadAvg[3] > h.Core)
    BY <1>2
  <1>6. QED
    BY <1>3, <1>4, <1>5, GradedQuiet, Zenon DEF HostRow, t

LEMMA ServiceQuiet ==
    ASSUME NEW e, Idle(e), NEW t \in Int, t >= 0, NEW r, ServiceRow(e, t, r)
    PROVE  Quiet(r)
  <1>1. e.Error = "" /\ ~ (e.ContainersExited > t)
    BY AtRest, Zenon DEF Idle
  <1>2. ASSUME NEW i \in DOMAIN e.Services,
               r = Row4("service", e.Module, e.Services[i].Module, "status",
                        IF e.Services[i].Status = "" THEN "unknown"
                        ELSE Graded(e.Services[i].Status = "active"))
        PROVE  Quiet(r)
    <2>1. e.Services[i].Status \in {"", "active"}
      BY DEF Idle
    <2>2. r.status = IF e.Services[i].Status = "" THEN "unknown"
                     ELSE Graded(e.Services[i].Status = "active")
      BY <1>2 DEF Row4, CHECKS!CheckResult
    <2>3. QED
      BY <2>1, <2>2 DEF Quiet, Graded, Alarms
  <1>3. ASSUME NEW i \in DOMAIN e.Services, e.Services[i].HealthzAPI \notin {"", "N/A"},
               r = Row4("service", e.Module, e.Services[i].Module, "healthz",
                        Graded(e.Services[i].HealthzAPI = "ok"))
        PROVE  Quiet(r)
    <2>1. e.Services[i].HealthzAPI = "ok"
      BY <1>3 DEF Idle
    <2>2. r.status = Graded(e.Services[i].HealthzAPI = "ok")
      BY <1>3 DEF Row4, CHECKS!CheckResult
    <2>3. QED
      BY <2>1, <2>2 DEF Quiet, Graded, Alarms
  <1>4. QED
    BY <1>1, <1>2, <1>3, Zenon DEF ServiceRow

LEMMA ClusterQuiet ==
    ASSUME Facts, EsCalm, env.troubled = {}, NEW nodes,
           \A n \in Numbers : cfg.Thresholds[n] \in Int, Roomy, NEW r
    PROVE  ~ ESRow(cluster, nodes, cfg.Thresholds, r)
  <1> DEFINE t == cfg.Thresholds
  <1>1. /\ t["es_unassigned"] >= 0 /\ t["es_heap"] >= 0 /\ t["es_ram"] >= 0
        /\ {t["es_unassigned"], t["es_heap"], t["es_ram"]} \subseteq Int
    BY DEF Numbers, Roomy
  <1>2. /\ \A i \in DOMAIN reach : reach[i] # "unreachable"
        /\ cluster.Error = "" /\ cluster.Status \in {"", "green"}
        /\ cluster.UnassignedShards = 0 /\ cluster.PendingTasks = 0
        /\ \A i \in DOMAIN cluster.Nodes :
            cluster.Nodes[i].HeapPercent = 0 /\ cluster.Nodes[i].RAMPercent = 0
    BY DEF EsCalm
  <1> HIDE DEF t
  <1>3. /\ ~ (cluster.UnassignedShards > t["es_unassigned"]) /\ ~ (cluster.PendingTasks > 0)
        /\ \A i \in DOMAIN cluster.Nodes : /\ ~ (cluster.Nodes[i].HeapPercent > t["es_heap"])
                                           /\ ~ (cluster.Nodes[i].RAMPercent > t["es_ram"])
    <2>1. ~ (0 > 0) /\ \A n \in {"es_unassigned", "es_heap", "es_ram"} : ~ (0 > t[n])
      BY <1>1, AtRest
    <2>2. QED
      BY <1>2, <2>1, Zenon
  <1>4. QED
    BY <1>2, <1>3, Zenon DEF ESRow, t

LEMMA RedisNodeQuiet ==
    ASSUME NEW ip, \A n \in Numbers : cfg.Thresholds[n] \in Int, Roomy,
           NEW n, n = DB!RedisNode(ip, DB!RedisGood), NEW r
    PROVE  ~ RedisRow(n, cfg.Thresholds, r)
  <1>1. n.Error = "" /\ n.CeleryQueue = 0 /\ n.MonitorQueue = 0
    BY DEF DB!RedisNode, DB!RedisGood, DB!Lost, DB!NoError
  <1> DEFINE t == cfg.Thresholds
  <1>2. t["celery"] >= 0 /\ t["monitor"] >= 0 /\ t["celery"] \in Int /\ t["monitor"] \in Int
    BY DEF Numbers, Roomy
  <1> HIDE DEF t
  <1>3. ~ (n.CeleryQueue > t["celery"]) /\ ~ (n.MonitorQueue > t["monitor"])
    BY <1>1, <1>2, AtRest, Zenon
  <1>4. QED
    BY <1>1, <1>3, Zenon DEF RedisRow, t

LEMMA MongoQuiet == ASSUME NEW r PROVE ~ MongoRow(DB!CollectMongo(DB!MongoGood), r)
  <1> DEFINE c == DB!CollectMongo(DB!MongoGood)
  <1>1. c.Error = "" /\ c.Members = <<1, 1>>
    BY DEF DB!CollectMongo, DB!MongoGood, DB!NoError
  <1> HIDE DEF c
  <1>2. \A i \in DOMAIN c.Members : c.Members[i] = 1
    <2>1. \A i \in DOMAIN <<1, 1>> : <<1, 1>>[i] = 1
      OBVIOUS
    <2>2. QED
      BY <1>1, <2>1, Zenon
  <1>3. QED
    BY <1>1, <1>2 DEF MongoRow, c

LEMMA DependencyQuiet ==
    ASSUME NEW d, d.Status \in {"ok", "skip"}, NEW r, DependencyRow(d, r)
    PROVE  Quiet(r)
  BY RowIs DEF DependencyRow, Quiet, Alarms

LEMMA MasterQuiet ==
    ASSUME NEW ip, NEW a, a = REP!MasterGood
    PROVE  REP!collectMySQLMaster(ip, a).Status = "ok"
  <1>1. a.err = "" /\ a.read_only = FALSE
    BY DEF REP!MasterGood, REP!NoError
  <1>2. REP!collectMySQLMaster(ip, a).Status
            = IF a.err = REP!NoError /\ ~ a.read_only THEN "ok" ELSE "warn"
    BY DEF REP!collectMySQLMaster
  <1>3. QED
    BY <1>1, <1>2, Zenon DEF REP!NoError

LEMMA SlaveQuiet ==
    ASSUME NEW ip, NEW a, a = REP!SlaveGood, NEW t \in Int, t >= 0
    PROVE  REP!collectMySQLSlave(ip, a, t).Status = "ok"
  <1> DEFINE row == [err |-> "", rows |-> <<REP!Healthy>>]
             s == REP!StatusOfSlave(a)
  <1>1. s = row
    <2>1. a.slave = row /\ row.rows # <<>>
      BY DEF REP!SlaveGood, REP!NoError
    <2>2. QED
      BY <2>1, Zenon DEF REP!StatusOfSlave
  <1>2. s.err = "" /\ s.rows = <<REP!Healthy>>
    <2> HIDE DEF s
    <2>1. QED
      BY <1>1
  <1>3. REP!collectMySQLSlave(ip, a, t).Status
            = IF s.err # "" THEN ""
              ELSE IF s.rows = <<>> THEN "not-configured-as-slave"
              ELSE REP!SlaveGrade(s.rows[1], t)
    BY DEF REP!collectMySQLSlave, REP!NoError
  <1> HIDE DEF s, row
  <1>4. s.rows # <<>> /\ s.rows[1] = REP!Healthy
    BY <1>2, OneEntry, Zenon
  <1>5. REP!SlaveGrade(REP!Healthy, t) = "ok"
    <2>1. REP!Healthy.IO = TRUE /\ REP!Healthy.SQL = TRUE /\ REP!Healthy.lag = 0
      BY DEF REP!Healthy
    <2>2. REP!SecondsBehind(REP!Healthy) = 0
      BY <2>1 DEF REP!SecondsBehind
    <2>3. ~ (REP!SecondsBehind(REP!Healthy) > t)
      BY <2>2, AtRest, Zenon
    <2>4. QED
      BY <2>1, <2>3, Zenon DEF REP!SlaveGrade
  <1>6. QED
    BY <1>2, <1>3, <1>4, <1>5

LEMMA RedisReplQuiet ==
    ASSUME NEW ip, NEW role \in {"master", "slave"}, NEW a, a = REP!RedisReplGood(role),
           NEW t \in Int, t >= 0, NEW n, n = REP!collectRedisReplication(ip, a, role, t)
    PROVE  n.RoleConsistencyStatus = "ok" /\ n.LinkStatus \in {"N/A", "ok"}
  <1>1. a.err = "" /\ a.role = role /\ a.up = TRUE /\ a.io = 0
    BY DEF REP!RedisReplGood, REP!NoError
  <1>2. ~ (a.io > t)
    BY <1>1, AtRest, Zenon
  <1>3. n.RoleConsistencyStatus = IF a.err # "" THEN "N/A"
                                  ELSE IF a.role = role THEN "ok" ELSE "warn"
    BY DEF REP!collectRedisReplication, REP!NoError
  <1>4. n.LinkStatus = IF ~ (a.err = "" /\ a.role = "slave") THEN "N/A"
                       ELSE IF ~ a.up THEN "critical"
                       ELSE IF a.io > t THEN "warn" ELSE "ok"
    BY DEF REP!collectRedisReplication, REP!NoError
  <1>5. n.RoleConsistencyStatus = "ok"
    BY <1>1, <1>3, Zenon
  <1>6. n.LinkStatus \in {"N/A", "ok"}
    BY <1>1, <1>2, <1>4
  <1>7. QED
    BY <1>5, <1>6

LEMMA ReplicationQuiet ==
    ASSUME Facts, RowsInv, StageInv, stage = "done", WellReplicated(answers["replication"]),
           \A n \in Numbers : cfg.Thresholds[n] \in Int, Roomy,
           NEW i \in DOMAIN report["replication"],
           NEW r, ReplicationRow(report["replication"][i], r)
    PROVE  Quiet(r)
  <1> DEFINE a == answers["replication"]
             rep == REP!CollectReplication(cfg, a)
             lag == cfg.Thresholds["mysql_lag"]
             io == cfg.Thresholds["redis_io"]
  <1>1. report["replication"] # <<>>
    BY Somewhere
  <1>2. /\ report["replication"][i] = rep
        /\ DOMAIN rep.MySQLMasters = DOMAIN cfg.hosts["mysql_master"]
        /\ \A k \in DOMAIN cfg.hosts["mysql_master"] : rep.MySQLMasters[k]
                = REP!collectMySQLMaster(cfg.hosts["mysql_master"][k], a["mysql_master"][k])
        /\ DOMAIN rep.MySQLSlaves = DOMAIN cfg.hosts["mysql_slave"]
        /\ \A k \in DOMAIN cfg.hosts["mysql_slave"] : rep.MySQLSlaves[k]
                = REP!collectMySQLSlave(cfg.hosts["mysql_slave"][k], a["mysql_slave"][k], lag)
        /\ \A n : (\E k \in DOMAIN rep.RedisNodes : rep.RedisNodes[k] = n)
                  <=> \E l \in DOMAIN RoleOf : \E k \in DOMAIN cfg.hosts[l] : n = ReplicationOf(l, k)
    <2>1. ReplicationMade(rep)
      BY <1>1, ReplicationSection
    <2>2. QED
      BY <2>1, Zenon DEF ReplicationMade
  <1>3. lag \in Int /\ lag >= 0 /\ io \in Int /\ io >= 0
    BY DEF Numbers, Roomy
  <1>4. /\ DOMAIN a["mysql_master"] = DOMAIN cfg.hosts["mysql_master"]
        /\ DOMAIN a["mysql_slave"] = DOMAIN cfg.hosts["mysql_slave"]
        /\ DOMAIN a["redis_master"] = DOMAIN cfg.hosts["redis_master"]
        /\ DOMAIN a["redis_slave"] = DOMAIN cfg.hosts["redis_slave"]
    BY AtTheEnd DEF ReplicationCollected, ReplicationAnswered
  <1>5. /\ AllAre(a["mysql_master"], REP!MasterGood) /\ AllAre(a["mysql_slave"], REP!SlaveGood)
        /\ AllAre(a["redis_master"], REP!RedisReplGood("master"))
        /\ AllAre(a["redis_slave"], REP!RedisReplGood("slave"))
    BY DEF WellReplicated
  <1>6. ASSUME NEW l \in DOMAIN RoleOf, NEW k \in DOMAIN cfg.hosts[l]
        PROVE  /\ ReplicationOf(l, k).RoleConsistencyStatus = "ok"
               /\ ReplicationOf(l, k).LinkStatus \in {"N/A", "ok"}
    <2>1. /\ a[l][k] = REP!RedisReplGood(RoleOf[l]) /\ RoleOf[l] \in {"master", "slave"}
      BY <1>4, <1>5, RolesAre DEF AllAre
    <2>2. ReplicationOf(l, k)
            = REP!collectRedisReplication(cfg.hosts[l][k], a[l][k], RoleOf[l], io)
      BY DEF ReplicationOf
    <2> HIDE DEF io, a
    <2>3. QED
      BY <1>3, <2>1, <2>2, RedisReplQuiet, Zenon
  <1> HIDE DEF rep, lag, io, a
  <1>7. ASSUME NEW k \in DOMAIN rep.MySQLMasters PROVE rep.MySQLMasters[k].Status = "ok"
    <2>1. a["mysql_master"][k] = REP!MasterGood
      BY <1>2, <1>4, <1>5 DEF AllAre
    <2>2. QED
      BY <1>2, <2>1, MasterQuiet
  <1>8. ASSUME NEW k \in DOMAIN rep.MySQLSlaves PROVE rep.MySQLSlaves[k].Status = "ok"
    <2>1. a["mysql_slave"][k] = REP!SlaveGood
      BY <1>2, <1>4, <1>5 DEF AllAre
    <2>2. QED
      BY <1>2, <1>3, <2>1, SlaveQuiet
  <1>9. ASSUME NEW k \in DOMAIN rep.RedisNodes
        PROVE  /\ rep.RedisNodes[k].RoleConsistencyStatus = "ok"
               /\ rep.RedisNodes[k].LinkStatus = "N/A" \/ rep.RedisNodes[k].LinkStatus = "ok"
    <2>1. \E l \in DOMAIN RoleOf : \E m \in DOMAIN cfg.hosts[l] :
            rep.RedisNodes[k] = ReplicationOf(l, m)
      BY <1>2
    <2>2. QED
      BY <1>6, <2>1
  <1>10. ReplicationRow(rep, r)
    BY <1>2
  <1>11. ASSUME NEW c, NEW w, NEW x, NEW v, v = "ok", r = Row(c, w, x, Graded(v = "ok"))
         PROVE  Quiet(r)
    <2>1. Graded(v = "ok") = "ok"
      BY <1>11 DEF Graded
    <2>2. r.status = "ok"
      BY <1>11, <2>1, RowIs
    <2>3. QED
      BY <2>2 DEF Quiet, Alarms
  <1>12. CASE \E k \in DOMAIN rep.MySQLMasters :
                r = Row("mysql_master", rep.MySQLMasters[k].IP, "read_only",
                        Graded(rep.MySQLMasters[k].Status = "ok"))
    BY <1>7, <1>11, <1>12
  <1>13. CASE \E k \in DOMAIN rep.MySQLSlaves :
                r = Row("mysql_slave", rep.MySQLSlaves[k].IP, "replication",
                        Graded(rep.MySQLSlaves[k].Status = "ok"))
    BY <1>8, <1>11, <1>13
  <1>14. CASE \E k \in DOMAIN rep.RedisNodes :
                r = Row("redis", rep.RedisNodes[k].IP, "role",
                        Graded(rep.RedisNodes[k].RoleConsistencyStatus = "ok"))
    BY <1>9, <1>11, <1>14
  <1>15. CASE \E k \in DOMAIN rep.RedisNodes :
                /\ rep.RedisNodes[k].LinkStatus # "N/A"
                /\ r = Row("redis", rep.RedisNodes[k].IP, "link",
                           Graded(rep.RedisNodes[k].LinkStatus = "ok"))
    BY <1>9, <1>11, <1>15
  <1>16. QED
    BY <1>10, <1>12, <1>13, <1>14, <1>15, Zenon DEF ReplicationRow

LEMMA BrokerCalm ==
    ASSUME Facts, RowsInv, StageInv, BrokerVerdict, stage = "done",
           answers["rabbitmq"] = MQ!BrokerGood(VHosts), Roomy,
           NEW i \in DOMAIN report["rabbitmq"], NEW r
    PROVE  ~ BrokerRow(report["rabbitmq"][i], r)
  <1> DEFINE a == answers["rabbitmq"]
             q == MQ!CollectRabbitMQ(a, cfg)
             section == report["rabbitmq"]
             queue == [vhost |-> CHOOSE v \in VHosts : TRUE, usual |-> TRUE,
                       messages |-> 0, consumers |-> 1]
  <1>1. section # <<>>
    BY Somewhere
  <1>2. /\ a.nodes.err = "" /\ a.queues.err = "" /\ a.conns.list = <<"running">>
        /\ a.nodes.list = <<[mem_alarm |-> FALSE, disk_free_alarm |-> FALSE,
                             partitions |-> FALSE]>>
        /\ a.queues.list = <<queue>>
    <2>1. a = MQ!BrokerGood(VHosts)
      OBVIOUS
    <2> HIDE DEF a
    <2>2. QED
      BY <2>1 DEF MQ!BrokerGood, MQ!NoError
  <1>3. /\ ToSet(a.conns.list) = {"running"} /\ ToSet(a.queues.list) = {queue}
        /\ ToSet(a.nodes.list) = {[mem_alarm |-> FALSE, disk_free_alarm |-> FALSE,
                                   partitions |-> FALSE]}
    BY <1>2, OneRow
  <1>4. Rows(<<"rabbitmq">>, Alarms) = {}
    <2>1. BrokerVerdict /\ Judged /\ section # <<>>
      BY <1>1 DEF Judged
    <2>2. \A m \in ToSet(a.nodes.list) : ~ (m.mem_alarm \/ m.disk_free_alarm \/ m.partitions)
      BY <1>3
    <2>3. "blocked" \notin ToSet(a.conns.list)
      BY <1>3
    <2>4. \A u \in ToSet(a.queues.list) :
            u.usual => /\ u.messages < cfg.Thresholds["backlog"]
                       /\ u.consumers = 0 /\ u.messages > 0 => u.vhost \in cfg.vhosts
      BY <1>3 DEF Roomy
    <2>5. QED
      BY <1>2, <2>1, <2>2, <2>3, <2>4, Zenon DEF BrokerVerdict
  <1>5. ~ \E x : BrokerRow(q, x)
    BY <1>1, <1>4, BrokerQuiet
  <1>6. section = Unless("rabbitmq", q)
    BY AtTheEnd DEF BrokerCollected
  <1> HIDE DEF q, a
  <1>7. section = <<q>>
    BY <1>1, <1>6 DEF Unless
  <1>8. section[i] = q
    BY <1>7, OneEntry, Zenon
  <1>9. QED
    BY <1>5, <1>8

LEMMA MastersKnown == ASSUME Loaded PROVE DB!NoOne \notin MasterHosts
  <1>1. env \in Environments /\ \A l \in Lists : DB!NoOne \notin ToSet(env.lists[l])
    BY EnvironmentAssumption DEF Loaded
  <1>2. /\ ToSet(cfg.hosts["redis_master"]) \subseteq ToSet(env.lists["redis_master"])
        /\ ToSet(cfg.AllHosts) \subseteq UNION {ToSet(env.lists[l]) : l \in ToSet(HostLists)}
        /\ "redis_master" \in Lists /\ ToSet(HostLists) \subseteq Lists
    BY LoadedLists, LoadedHosts, NamedLists DEF Lists, ReplicationLists
  <1>3. QED
    BY <1>1, <1>2 DEF MasterHosts

LEMMA LeastOf ==
    ASSUME NEW T \in SUBSET Nat, T # {}
    PROVE  CHECKS!Min(T) \in T
  BY NoLeast DEF CHECKS!Min

LEMMA SentinelCalm ==
    ASSUME Facts, RowsInv, StageInv, SentinelVerdict, stage = "done",
           Agreed(answers["sentinel"], cfg.hosts["sentinel"], MasterHosts),
           NEW i \in DOMAIN report["sentinel"], NEW r
    PROVE  ~ SentinelRow(report["sentinel"][i], r)
  <1> DEFINE a == answers["sentinel"]
             list == cfg.hosts["sentinel"]
             masters == ToSet(cfg.hosts["redis_master"])
             naming == {k \in DOMAIN a.master : a.master[k] # DB!NoOne}
             s == DB!RedisSentinelSection(list, a, cfg.hosts["redis_master"])
             section == report["sentinel"]
  <1>1. section # <<>>
    BY Somewhere
  <1>2. section = Unless("sentinel", s) /\ a \in DB!SentinelAnswers(list, Known)
    BY AtTheEnd DEF SentinelCollected
  <1>3. DOMAIN a.pong = DOMAIN list /\ DOMAIN a.master = DOMAIN list
    BY <1>2 DEF DB!SentinelAnswers
  <1>4. List(list)
    BY LoadedLists, NamedLists DEF Facts
  <1>5. PICK h \in MasterHosts : \A k \in DOMAIN list : a.master[k] = h
    BY DEF Agreed
  <1>6. (\A k \in DOMAIN list : a.pong[k] = "") /\ a.alive
    BY DEF Agreed
  <1>7. h # DB!NoOne
    BY <1>5, MastersKnown DEF Facts
  <1> HIDE DEF s
  <1>8. section = <<s>> /\ list # <<>>
    BY <1>1, <1>2 DEF Unless
  <1>9. 1 \in DOMAIN list /\ DOMAIN list \subseteq Nat
    BY <1>4, <1>8, NoElement, Positions
  <1>10. naming = DOMAIN list
    BY <1>3, <1>5, <1>7
  <1> HIDE DEF naming
  <1>11. naming # {} /\ CHECKS!Min(naming) \in DOMAIN list
    BY <1>9, <1>10, LeastOf
  <1>12. masters # {} => a.master[CHECKS!Min(naming)] \in masters
    BY <1>5, <1>11 DEF MasterHosts
  <1>13. Rows(<<"redis_sentinel">>, Alarms) = {}
    BY <1>1, <1>3, <1>6, <1>11, <1>12 DEF SentinelVerdict, Judged, naming
  <1>14. ~ \E x : SentinelRow(s, x)
    BY <1>1, <1>13, SentinelQuiet DEF s
  <1>15. section[i] = s
    BY <1>8, OneEntry, Zenon
  <1>16. QED
    BY <1>14, <1>15

\* All that is known of a platform in good health.
Calm == ServicesCalm /\ EsCalm /\ AnswersCalm /\ DepsCalm /\ SvcProofs!Genuine

LEMMA EntriesIdle ==
    ASSUME Facts, StageInv, Calm, stage = "done", env.troubled = {},
           NEW m \in DOMAIN results, NEW k \in DOMAIN results[m]
    PROVE  Idle(results[m][k])
  <1>1. svcPhase = "done" /\ SvcProofs!IInv
    BY DEF StageInv, Facts, PastServices, PastMySQL, PastRedis, PastSentinel, PastMongo,
           PastBroker, PastReplication
  <1>2. DOMAIN results = DOMAIN GetModuleHosts(cfg) /\ DOMAIN reply = SvcProofs!Jobs
    BY <1>1 DEF SvcProofs!IInv, SvcProofs!Types
  <1>3. PICK j \in SvcProofs!Jobs :
            j[1] = m /\ at[j] = "done" /\ results[m][k] = SvcProofs!Entry(j)
    BY <1>2 DEF Calm, SvcProofs!Genuine
  <1>4. Healthy(m, reply[j])
    BY <1>2, <1>3 DEF Calm, ServicesCalm
  <1>5. SvcProofs!Entry(j) = Svc!collectServiceOnHost(m, SvcProofs!HostOf(j), reply[j])
    BY <1>3, SameEntry DEF SvcProofs!Entry
  <1>6. QED
    BY <1>3, <1>4, <1>5, IdleEntry

LEMMA ComponentsQuiet ==
    ASSUME Facts, RowsInv, StageInv, Calm, SentinelVerdict, BrokerVerdict, stage = "done",
           env.troubled = {},
           \A n \in Numbers : cfg.Thresholds[n] \in Int, Roomy,
           NEW r, FromComponents(r)
    PROVE  Quiet(r)
  <1>1. /\ AllAre(answers["redis"], DB!RedisGood)
        /\ Agreed(answers["sentinel"], cfg.hosts["sentinel"], MasterHosts)
        /\ answers["mongo"] = DB!MongoGood /\ answers["rabbitmq"] = MQ!BrokerGood(VHosts)
        /\ WellReplicated(answers["replication"])
    BY DEF Calm, AnswersCalm, PastRedis, PastSentinel, PastMongo, PastBroker, PastReplication
  <1>2. ~ ESRow(cluster, cfg.hosts["es7"], cfg.Thresholds, r)
    BY ClusterQuiet DEF Calm
  <1>3. ASSUME NEW i \in DOMAIN report["redis"], NEW k \in DOMAIN report["redis"][i]
        PROVE  ~ RedisRow(report["redis"][i][k], cfg.Thresholds, r)
    <2> DEFINE list == cfg.hosts["redis"]
               a == answers["redis"]
               nodes == DB!CollectRedisStandalone(list, a)
               section == report["redis"]
    <2>1. section = Unless("redis", nodes) /\ DOMAIN a = DOMAIN list
      BY AtTheEnd DEF RedisCollected
    <2>2. /\ DOMAIN nodes = DOMAIN list
          /\ \A x \in DOMAIN list : nodes[x] = DB!RedisNode(list[x], a[x])
      BY DEF DB!CollectRedisStandalone, DB!EachNode
    <2> HIDE DEF nodes, a
    <2>3. section = <<nodes>>
      <3>1. section # <<>>
        BY Somewhere
      <3>2. QED
        BY <2>1, <3>1 DEF Unless
    <2>4. section[i] = nodes
      BY <2>3, OneEntry, Zenon
    <2>5. k \in DOMAIN list /\ nodes[k] = DB!RedisNode(list[k], DB!RedisGood)
      BY <1>1, <2>1, <2>2, <2>4 DEF AllAre, a
    <2>6. QED
      BY <2>4, <2>5, RedisNodeQuiet
  <1>4. \A i \in DOMAIN report["sentinel"] : ~ SentinelRow(report["sentinel"][i], r)
    BY <1>1, SentinelCalm
  <1>5. ASSUME NEW i \in DOMAIN report["mongo"]
        PROVE  ~ MongoRow(report["mongo"][i], r)
    <2> DEFINE c == DB!CollectMongo(DB!MongoGood)
               section == report["mongo"]
    <2>1. section = Unless("mongodb", c)
      BY <1>1, AtTheEnd DEF MongoCollected
    <2>2. ~ MongoRow(c, r)
      BY MongoQuiet
    <2> HIDE DEF c
    <2>3. section = <<c>>
      <3>1. section # <<>>
        BY Somewhere
      <3>2. QED
        BY <2>1, <3>1 DEF Unless
    <2>4. section[i] = c
      BY <2>3, OneEntry, Zenon
    <2>5. QED
      BY <2>2, <2>4
  <1>6. \A i \in DOMAIN report["rabbitmq"] : ~ BrokerRow(report["rabbitmq"][i], r)
    BY <1>1, BrokerCalm
  <1>7. \A i \in DOMAIN dependencies : DependencyRow(dependencies[i], r) => Quiet(r)
    BY DependencyQuiet DEF Calm, DepsCalm
  <1>8. \A i \in DOMAIN report["replication"] :
            ReplicationRow(report["replication"][i], r) => Quiet(r)
    BY <1>1, ReplicationQuiet
  <1>9. QED
    BY <1>2, <1>3, <1>4, <1>5, <1>6, <1>7, <1>8, Zenon DEF FromComponents

LEMMA NoWarnings ==
    ASSUME List(checks), \A r \in ToSet(checks) : r.status \notin Alarms
    PROVE  CHECKS!Summarize(checks).Warn = 0
  <1> DEFINE keep == {r \in ToSet(checks) : r.status = "warn"}
             blocks == [i \in DOMAIN checks |->
                            IF checks[i].status = "warn" THEN <<checks[i]>> ELSE <<>>]
  <1>1. CHECKS!Summarize(checks).Warn = Len(FlattenSeq(blocks))
    BY SameFlatten DEF CHECKS!Summarize, CHECKS!Keep
  <1>2. keep = {}
    BY DEF Alarms
  <1>3. \A i \in DOMAIN checks : checks[i] \in ToSet(checks)
    BY Positions
  <1>4. blocks = [i \in DOMAIN checks |-> IF checks[i] \in keep THEN <<checks[i]>> ELSE <<>>]
    BY <1>3
  <1> HIDE DEF blocks, keep
  <1>5. List(FlattenSeq(blocks)) /\ ToSet(FlattenSeq(blocks)) = ToSet(checks) \cap keep
    BY <1>4, Filtered
  <1>6. FlattenSeq(blocks) = <<>>
    BY <1>2, <1>5, NoElement
  <1>7. QED
    BY <1>1, <1>6

\* Whatever the lists of the environment are, with their blanks and repeats, and in
\* whatever order hosts, nodes and commands answer: a platform in good health raises no
\* alarm, if no threshold is so low that idling reaches it.
THEOREM HealthyQuiet == Spec => []HealthyIsQuiet
  <1>1. Facts /\ RowsInv /\ StageInv /\ Calm /\ SentinelVerdict /\ BrokerVerdict => HealthyIsQuiet
    <2> SUFFICES ASSUME Facts, RowsInv, StageInv, Calm, SentinelVerdict, BrokerVerdict,
                        stage = "done", env.troubled = {},
                        Roomy
                 PROVE  /\ \A r \in ToSet(checks) : r.status \notin Alarms
                        /\ CHECKS!Summarize(checks).Warn = 0
      BY DEF HealthyIsQuiet, Judged
    <2>1. /\ \A n \in Numbers : cfg.Thresholds[n] \in Int
          /\ \A r : r \in ToSet(checks) <=> FromHosts(r) \/ FromServices(r) \/ FromComponents(r)
      BY AtTheEnd
    <2>2. ASSUME NEW r, FromHosts(r) PROVE Quiet(r)
      <3>1. PICK i \in DOMAIN report["hosts"] : HostRow(report["hosts"][i], cfg.Thresholds, r)
        BY <2>2 DEF FromHosts
      <3>2. /\ i \in DOMAIN cfg.AllHosts /\ DOMAIN answers["hosts"] = DOMAIN cfg.AllHosts
            /\ report["hosts"][i]
                = HOST!parseHostOutput(cfg.AllHosts[i], answers["hosts"][i], cfg)
        BY HostsKnown
      <3>3. answers["hosts"][i] = HOST!HostGood
        BY <3>2 DEF Calm, AnswersCalm, AllAre, PastHosts, PastServices, PastMySQL, PastRedis,
                    PastSentinel, PastMongo, PastBroker, PastReplication
      <3>4. QED
        BY <2>1, <3>1, <3>2, <3>3, HostQuiet
    <2>3. ASSUME NEW r, FromServices(r) PROVE Quiet(r)
      <3>1. PICK m \in DOMAIN results : \E k \in DOMAIN results[m] :
                ServiceRow(results[m][k], cfg.Thresholds["docker_exited"], r)
        BY <2>3 DEF FromServices
      <3>2. PICK k \in DOMAIN results[m] :
                ServiceRow(results[m][k], cfg.Thresholds["docker_exited"], r)
        BY <3>1
      <3>3. Idle(results[m][k])
        BY EntriesIdle
      <3>4. cfg.Thresholds["docker_exited"] \in Int /\ cfg.Thresholds["docker_exited"] >= 0
        BY <2>1 DEF Numbers, Roomy
      <3>5. QED
        BY <3>2, <3>3, <3>4, ServiceQuiet
    <2>4. \A r \in ToSet(checks) : r.status \notin Alarms
      BY <2>1, <2>2, <2>3, ComponentsQuiet DEF Quiet
    <2>5. List(checks)
      BY DEF RowsInv
    <2>6. QED
      BY <2>4, <2>5, NoWarnings
  <1>2. Spec => []Calm
    <2>1. ServicesCalm /\ EsCalm /\ AnswersCalm /\ DepsCalm /\ SvcProofs!Genuine => Calm
      BY DEF Calm
    <2>2. QED
      BY <2>1, ServicesCalmAlways, EsCalmAlways, AnswersCalmAlways, DepsCalmAlways,
         GenuineEntries, PTL
  <1>3. QED
    BY <1>1, <1>2, AllKnown, SentinelsJudged, BrokerJudged, PTL

-----------------------------------------------------------------------------
(* Health that was answered *)

\* No two sections of a module's output are the same.
LEMMA SectionsDistinct ==
    ASSUME NEW m, NEW k \in DOMAIN Svc!Sections(m), NEW l \in DOMAIN Svc!Sections(m),
           Svc!Sections(m)[k] = Svc!Sections(m)[l]
    PROVE  k = l
  <1> DEFINE reg == Svc!ModuleRegistry(m)
             blocks == [i \in DOMAIN reg |->
                            IF reg[i].skipped THEN <<>> ELSE <<<<"SVC", i>>, <<"HZ", i>>>>]
             tail == IF m \in {"appo", "appt"} THEN <<<<"DOCKER", 0>>>> ELSE <<>>
             Pair(i) == <<<<"SVC", i>>, <<"HZ", i>>>>
  <1>1. \/ DOMAIN reg = {1} /\ Len(reg) = 1 /\ ~ reg[1].skipped
        \/ DOMAIN reg = {1, 2} /\ Len(reg) = 2 /\ reg[1].skipped /\ ~ reg[2].skipped
    BY DEF Svc!ModuleRegistry, Svc!Sub
  <1>2. Svc!Sections(m) = FlattenSeq(blocks) \o tail
    BY DEF Svc!Sections, Svc!FlattenSeq, FlattenSeq
  <1>3. List(reg)
    BY RegistryIs
  <1>4. tail = <<<<"DOCKER", 0>>>> \/ tail = <<>>
    OBVIOUS
  <1> HIDE DEF reg, tail
  <1>5. List(blocks) /\ Len(blocks) = Len(reg)
    BY <1>3, Mapped
  <1>6. \E i : FlattenSeq(blocks) = Pair(i)
    <2>1. CASE Len(reg) = 1
      <3>1. blocks[1] = Pair(1)
        BY <1>1, <2>1
      <3> HIDE DEF blocks, Pair
      <3>2. FlattenSeq(blocks) = blocks[1]
        BY <1>5, <2>1, FlattenFew
      <3>3. QED
        BY <3>1, <3>2
    <2>2. CASE Len(reg) = 2
      <3>1. blocks[1] = <<>> /\ blocks[2] = Pair(2)
        BY <1>1, <2>2
      <3>2. <<>> \o Pair(2) = Pair(2)
        OBVIOUS
      <3> HIDE DEF blocks, Pair
      <3>3. FlattenSeq(blocks) = blocks[1] \o blocks[2]
        BY <1>5, <2>2, FlattenFew
      <3>4. QED
        BY <3>1, <3>2, <3>3
    <2>3. QED
      BY <1>1, <2>1, <2>2
  <1> HIDE DEF blocks
  <1>7. PICK i : FlattenSeq(blocks) = Pair(i)
    BY <1>6
  <1>8. \/ Svc!Sections(m) = <<<<"SVC", i>>, <<"HZ", i>>>>
        \/ Svc!Sections(m) = <<<<"SVC", i>>, <<"HZ", i>>, <<"DOCKER", 0>>>>
    <2>1. Svc!Sections(m) = Pair(i) \o tail
      BY <1>2, <1>7
    <2>2. /\ Pair(i) \o <<>> = <<<<"SVC", i>>, <<"HZ", i>>>>
          /\ Pair(i) \o <<<<"DOCKER", 0>>>>
                = <<<<"SVC", i>>, <<"HZ", i>>, <<"DOCKER", 0>>>>
      BY PairJoined
    <2> HIDE DEF Pair
    <2>3. QED
      BY <1>4, <2>1, <2>2
  <1>9. /\ <<"SVC", i>> # <<"HZ", i>> /\ <<"SVC", i>> # <<"DOCKER", 0>>
        /\ <<"HZ", i>> # <<"DOCKER", 0>>
    OBVIOUS
  <1>10. QED
    BY <1>8, <1>9

\* What is left of the output stands where the full output has it; the last section
\* of it may be torn.
LEMMA OutputIs ==
    ASSUME NEW m, NEW r \in Svc!Replies(m), ~ r.silent, NEW k \in DOMAIN r.out
    PROVE  /\ k \in DOMAIN Svc!Sections(m)
           /\ r.out[k] \in Svc!Texts(m, Svc!Sections(m)[k]) \cup Svc!Torn
  <1> DEFINE o == r.out
             n == Len(Svc!Sections(m))
             Fits(s) == \A i \in DOMAIN s : /\ i \in 1 .. n
                                            /\ s[i] \in Svc!Texts(m, Svc!Sections(m)[i])
                                                        \cup Svc!Torn
  <1>1. n \in Nat /\ DOMAIN Svc!Sections(m) = 1 .. n
    BY SectionsAre, Positions
  <1>2. o \in Svc!Outputs(m)
    BY DEF Svc!Replies, Svc!Silence
  <1>3. \A f \in Svc!FullOutputs(m) : Fits(f) /\ DOMAIN f = 1 .. n /\ f = [i \in 1 .. n |-> f[i]]
    BY <1>1 DEF Svc!FullOutputs
  <1> HIDE DEF o, n
  <1>4. ASSUME NEW c \in Svc!CutOutputs(m)
        PROVE  Fits(c) /\ List(c) /\ Len(c) < n
    <2>1. PICK f \in Svc!FullOutputs(m) : \E l \in 0 .. Len(f) - 1 : c = SubSeq(f, 1, l)
      BY Zenon DEF Svc!CutOutputs
    <2>2. PICK l \in 0 .. Len(f) - 1 : c = SubSeq(f, 1, l)
      BY <2>1
    <2>3. List(f) /\ Len(f) = n /\ Fits(f) /\ DOMAIN f = 1 .. n
      BY <1>1, <1>3, Tabulated
    <2>4. f \in Seq(ToSet(f))
      BY <2>3 DEF List
    <2> HIDE DEF Fits
    <2>5. /\ c \in Seq(ToSet(f)) /\ Len(c) = l /\ DOMAIN c = 1 .. l
          /\ \A i \in 1 .. l : c[i] = f[i] /\ i \in 1 .. n
      BY <1>1, <2>2, <2>3, <2>4
    <2>6. Fits(c)
      <3>1. DOMAIN f = 1 .. n /\ Fits(f)
        BY <2>3
      <3>2. \A i \in DOMAIN c : i \in DOMAIN f /\ i \in 1 .. n /\ c[i] = f[i]
        BY <2>3, <2>5
      <3>3. QED
        BY <3>1, <3>2 DEF Fits
    <2>7. List(c)
      BY <2>5, ListOf
    <2>8. Len(c) < n
      BY <1>1, <2>2, <2>3, <2>5
    <2>9. QED
      BY <2>6, <2>7, <2>8
  <1>5. ASSUME NEW c \in Svc!CutOutputs(m), NEW t \in Svc!Torn PROVE Fits(Append(c, t))
    <2>1. Fits(c) /\ List(c) /\ Len(c) < n /\ Len(c) \in Nat
      BY <1>4, Positions
    <2>2. c \in Seq(ToSet(c) \cup {t}) /\ DOMAIN c = 1 .. Len(c)
      BY <2>1, SeqMonotonic, Positions DEF List
    <2> HIDE DEF Fits
    <2>3. /\ DOMAIN Append(c, t) = 1 .. Len(c) + 1
          /\ Append(c, t)[Len(c) + 1] = t
          /\ \A i \in 1 .. Len(c) : Append(c, t)[i] = c[i]
      BY <2>1, <2>2, AppendProperties
    <2>4. ASSUME NEW i \in 1 .. Len(c) + 1
          PROVE  /\ i \in 1 .. n
                 /\ Append(c, t)[i] \in Svc!Texts(m, Svc!Sections(m)[i]) \cup Svc!Torn
      <3>1. CASE i \in 1 .. Len(c)
        BY <3>1, <2>1, <2>2, <2>3 DEF Fits
      <3>2. CASE i = Len(c) + 1
        BY <3>2, <1>1, <2>1, <2>3
      <3>3. QED
        BY <2>1, <3>1, <3>2
    <2>5. QED
      BY <2>3, <2>4 DEF Fits
  <1> HIDE DEF Fits
  <1>6. Fits(o)
    <2>1. CASE o \in Svc!TornOutputs(m)
      <3>1. PICK c \in Svc!CutOutputs(m) : \E t \in Svc!Torn : o = Append(c, t)
        BY <2>1, Zenon DEF Svc!TornOutputs
      <3>2. QED
        BY <3>1, <1>5
    <2>2. CASE o \in Svc!FullOutputs(m) \cup Svc!CutOutputs(m)
      BY <2>2, <1>3, <1>4
    <2>3. QED
      BY <1>2, <2>1, <2>2, Zenon DEF Svc!Outputs
  <1>7. QED
    BY <1>1, <1>6 DEF Fits, o

\* What a host answered, by what OkMeansAnswered counts.
AnswersFor(m, i, r) ==
    LET sub == Svc!ModuleRegistry(m)[i]
        alive == {"good"} \cup IF sub.HealthzType = "http_alive" THEN {"other", Svc!Part} ELSE {}
    IN  /\ ~ sub.skipped
        /\ \E k \in DOMAIN r.out : Svc!Sections(m)[k] = <<"HZ", i>> /\ r.out[k] \in alive

\* A text is taken for health only if it is an answer.
LEMMA TextTaken ==
    ASSUME NEW m, NEW i \in DOMAIN Svc!ModuleRegistry(m),
           NEW sub, sub = Svc!ModuleRegistry(m)[i], ~ sub.skipped,
           NEW text \in Svc!Texts(m, <<"HZ", i>>) \cup Svc!Torn
    PROVE  Svc!HealthzAPI(sub, text) = "ok"
           <=> text \in {"good"} \cup IF sub.HealthzType = "http_alive" THEN {"other", Svc!Part} ELSE {}
  <1>1. sub.HealthzType \in {"none", "http_alive", "http_status", "json_ok", "json_up"}
    BY RegistryIs
  <1>2. Svc!Texts(m, <<"HZ", i>>) = IF sub.HealthzType = "none" THEN {"N/A"}
                                    ELSE {"good", "other", "unreachable"}
    BY DEF Svc!Texts
  <1>3. /\ Svc!Torn = {Svc!Nothing, Svc!Part}
        /\ Svc!Nothing = "" /\ Svc!Part = "part" /\ Svc!Absent = "absent"
    BY DEF Svc!Torn, Svc!Nothing, Svc!Part, Svc!Absent
  <1>4. QED
    BY <1>1, <1>2, <1>3 DEF Svc!HealthzAPI

\* Nor is a section that is not there.
LEMMA NothingTaken ==
    ASSUME NEW sub
    PROVE  Svc!HealthzAPI(sub, Svc!Absent) # "ok"
  BY DEF Svc!HealthzAPI

\* The entry of a host says "ok" of a sub-module exactly if the host answered for it.
LEMMA OkIsAnswered ==
    ASSUME NEW m, NEW h, NEW r \in Svc!Replies(m), NEW i \in DOMAIN Svc!ModuleRegistry(m)
    PROVE  GaveOk(Svc!collectServiceOnHost(m, h, r), Svc!ModuleRegistry(m)[i].name)
           <=> AnswersFor(m, i, r)
  <1> DEFINE e == Svc!collectServiceOnHost(m, h, r)
             reg == Svc!ModuleRegistry(m)
             sub == reg[i]
             section == Svc!Section(m, r, <<"HZ", i>>)
             here == {k \in DOMAIN r.out : Svc!Sections(m)[k] = <<"HZ", i>>}
  <1>1. CASE r.silent
    <2>1. e.Services = <<>>
      BY <1>1 DEF Svc!collectServiceOnHost
    <2>2. DOMAIN r.out = {}
      <3>1. r = Svc!Silence
        BY <1>1 DEF Svc!Replies
      <3>2. QED
        BY <3>1 DEF Svc!Silence
    <2>3. QED
      BY <2>1, <2>2 DEF GaveOk, AnswersFor
  <1>2. CASE ~ r.silent
    <2>1. /\ DOMAIN e.Services = DOMAIN reg
          /\ \A l \in DOMAIN reg :
                /\ e.Services[l].Module = reg[l].name
                /\ e.Services[l].HealthzAPI
                    = Svc!HealthzAPI(reg[l], Svc!Section(m, r, <<"HZ", l>>))
      BY <1>2 DEF Svc!collectServiceOnHost
    <2>2. \A k, l \in DOMAIN reg : reg[k].name = reg[l].name => k = l
      BY DEF Svc!ModuleRegistry, Svc!Sub
    <2>3. GaveOk(e, sub.name) <=> Svc!HealthzAPI(sub, section) = "ok"
      <3> HIDE DEF e, reg
      <3>1. GaveOk(e, sub.name)
            <=> \E l \in DOMAIN reg : reg[l].name = sub.name /\ e.Services[l].HealthzAPI = "ok"
        BY <2>1 DEF GaveOk
      <3>2. i \in DOMAIN reg
        BY DEF reg
      <3>3. QED
        BY <2>1, <2>2, <3>1, <3>2
    <2>4. ASSUME NEW k \in here, NEW l \in here PROVE k = l
      BY <1>2, <2>4, OutputIs, SectionsDistinct
    <2>5. ASSUME NEW k \in here
          PROVE  r.out[k] \in Svc!Texts(m, <<"HZ", i>>) \cup Svc!Torn
      BY <1>2, <2>5, OutputIs
    <2>6. CASE sub.skipped
      <3>1. Svc!HealthzAPI(sub, section) = "N/A"
        BY <2>6 DEF Svc!HealthzAPI
      <3>2. ~ AnswersFor(m, i, r)
        BY <2>6 DEF AnswersFor
      <3>3. QED
        BY <2>3, <3>1, <3>2
    <2>7. CASE ~ sub.skipped
      <3> DEFINE alive == {"good"} \cup IF sub.HealthzType = "http_alive" THEN {"other", Svc!Part} ELSE {}
      <3>1. AnswersFor(m, i, r) <=> \E k \in here : r.out[k] \in alive
        BY <2>7 DEF AnswersFor
      <3>2. CASE here = {}
        <4>1. section = Svc!Absent
          BY <3>2 DEF Svc!Section
        <4>2. Svc!HealthzAPI(sub, Svc!Absent) # "ok"
          BY <2>7, NothingTaken
        <4>3. QED
          BY <2>3, <3>1, <3>2, <4>1, <4>2
      <3>3. CASE here # {}
        <4>1. PICK k \in here : section = r.out[k]
          BY <3>3, Zenon DEF Svc!Section
        <4>2. section \in Svc!Texts(m, <<"HZ", i>>) \cup Svc!Torn
          BY <2>5, <4>1
        <4>3. Svc!HealthzAPI(sub, section) = "ok" <=> section \in alive
          BY <2>7, <4>2, TextTaken
        <4>4. \A l \in here : l = k
          BY <2>4, <4>1
        <4> HIDE DEF alive, here, section
        <4>5. QED
          BY <2>3, <3>1, <4>1, <4>3, <4>4
      <3>4. QED
        BY <3>2, <3>3
    <2>8. QED
      BY <2>6, <2>7
  <1>3. QED
    BY <1>1, <1>2

LEMMA TallyInServices == Spec => []SvcProofs!Tally
  BY CollectsServices, SvcProofs!TallyAlways, PTL

\* As often as a module's hosts answered for a sub-module, its entries say "ok".
LEMMA EntriesCounted ==
    ASSUME Facts, SvcProofs!Tally, svcPhase = "done",
           NEW m \in DOMAIN results, NEW i \in DOMAIN Svc!ModuleRegistry(m)
    PROVE  Cardinality({j \in DOMAIN reply : j[1] = m /\ AnswersFor(m, i, reply[j])})
           = Cardinality({k \in DOMAIN results[m] :
                            GaveOk(results[m][k], Svc!ModuleRegistry(m)[i].name)})
  <1> DEFINE x == Svc!ModuleRegistry(m)[i].name
             X == {k \in DOMAIN results[m] : GaveOk(results[m][k], x)}
             Y == {j \in DOMAIN reply : j[1] = m /\ AnswersFor(m, i, reply[j])}
  <1>1. /\ m \in DOMAIN GetModuleHosts(cfg) /\ DOMAIN reply = SvcProofs!Jobs
        /\ \A j \in SvcProofs!Jobs : at[j] = "done"
    BY DEF Facts, SvcProofs!IInv, SvcProofs!Types, SvcProofs!Kept
  <1>2. PICK b : SvcProofs!Tallied(b, m)
    BY <1>1 DEF SvcProofs!Tally, SvcProofs!Matching
  <1>3. /\ b \in [DOMAIN results[m] -> SvcProofs!Jobs]
        /\ \A k, l \in DOMAIN results[m] : b[k] = b[l] => k = l
        /\ \A k \in DOMAIN results[m] : b[k][1] = m /\ results[m][k] = SvcProofs!Entry(b[k])
        /\ \A j \in SvcProofs!Jobs : j[1] = m => \E k \in DOMAIN results[m] : b[k] = j
    BY <1>1, <1>2 DEF SvcProofs!Tallied
  <1>4. ASSUME NEW k \in DOMAIN results[m]
        PROVE  GaveOk(results[m][k], x) <=> AnswersFor(m, i, reply[b[k]])
    <2> DEFINE j == b[k]
    <2>1. j \in SvcProofs!Jobs /\ j[1] = m /\ results[m][k] = SvcProofs!Entry(j)
      BY <1>3
    <2> HIDE DEF j
    <2>2. reply[j] \in Svc!Replies(m)
      <3>1. at[j] # "call"
        BY <1>1, <2>1
      <3>2. reply[j] \in SvcProofs!Replies(j[1])
        BY <2>1, <3>1 DEF SvcProofs!Tally
      <3>3. QED
        BY <2>1, <3>2, SameReplies
    <2>3. PICK h : results[m][k] = Svc!collectServiceOnHost(m, h, reply[j])
      BY <2>1, SameEntry DEF SvcProofs!Entry
    <2>4. GaveOk(results[m][k], x) <=> AnswersFor(m, i, reply[j])
      BY <2>2, <2>3, OkIsAnswered
    <2>5. QED
      BY <2>4 DEF j
  <1>5. IsFiniteSet(X)
    <2>1. List(results[m])
      BY ResultsAre DEF Facts
    <2>2. DOMAIN results[m] = 1 .. Len(results[m]) /\ Len(results[m]) \in Nat
      BY <2>1, Positions
    <2>3. X \in SUBSET (1 .. Len(results[m])) /\ IsFiniteSet(1 .. Len(results[m]))
      BY <2>2, FS_Interval
    <2>4. QED
      BY <2>3, FS_Subset
  <1> DEFINE c == [k \in X |-> b[k]]
  <1>6. ASSUME NEW k \in X PROVE c[k] = b[k] /\ c[k] \in Y /\ k \in DOMAIN results[m]
    BY <1>1, <1>3, <1>4
  <1>7. \A y \in Y : \E k \in X : b[k] = y
    BY <1>1, <1>3, <1>4
  <1>8. c = [k \in X |-> c[k]]
    OBVIOUS
  <1> HIDE DEF c, X, Y
  <1>9. c \in [X -> Y]
    BY <1>6, <1>8
  <1>10. /\ \A k, l \in X : c[k] = c[l] => k = l
         /\ \A y \in Y : \E k \in X : c[k] = y
    BY <1>3, <1>6, <1>7
  <1>11. Cardinality(Y) = Cardinality(X)
    BY <1>5, <1>9, <1>10, Matched
  <1>12. QED
    BY <1>11 DEF X, Y, x

\* The row of a dependency is the verdict on the item it names.
LEMMA OkDependency ==
    ASSUME Facts, RowsInv, StageInv, DepEarned, stage = "done",
           NEW r \in Rows(<<"bkdeps">>, {"ok"})
    PROVE  Earned(r.field[2], chan[r.field[2]])
  <1>1. r \in ToSet(checks) /\ r.status = "ok" /\ IsPrefix(<<"bkdeps">>, r.field)
    BY DEF Rows
  <1>2. PICK d : /\ About(r, d)
                 /\ d = "bkdeps" => \E i \in DOMAIN dependencies : DependencyRow(dependencies[i], r)
    BY <1>1, Whose, Zenon
  <1>3. d = "bkdeps"
    BY <1>1, <1>2, AboutPrefix
  <1>4. PICK i \in DOMAIN dependencies : DependencyRow(dependencies[i], r)
    BY <1>2, <1>3
  <1>5. i \in 1 .. Len(dependencies)
    BY DEF Facts, DepInv
  <1>6. r.field[2] = dependencies[i].Item
    BY <1>4, DependencyAbout
  <1>7. dependencies[i].Status = "ok"
    <2>1. Row("bkdeps", dependencies[i].Item, "status", "notice").status = "notice"
      BY RowIs
    <2>2. QED
      BY <1>1, <1>4, <2>1, Zenon DEF DependencyRow
  <1>8. dependencies[i].Item = Dep!Items[i]
    BY <1>5 DEF Facts, DepTold
  <1>9. QED
    BY <1>5, <1>6, <1>7, <1>8 DEF DepEarned

\* What an answer must be to be graded "ok".
LEMMA EarnedAnswer ==
    ASSUME NEW item, NEW answer, Earned(item, answer)
    PROVE  \/ answer = "expected"
           \/ item = "rabbitmq" /\ answer \in {"rejected", "other"}
           \/ item = "zookeeper" /\ answer \in {"rejected", "nothing", "other"}
  BY DEF Earned, Dep!Answers, Dep!Grade

\* No health row of a service is "ok" but for a text that the code takes for health, and
\* none that has one is missing, whatever order the hosts answer in and wherever their
\* output breaks off (under http_alive a torn text is such a text); no dependency is
\* "ok" on an answer that CollectBKDeps does not accept from it.
THEOREM OksAreAnswered == Spec => []OkMeansAnswered
  <1>1. Facts /\ RowsInv /\ StageInv /\ OkHits /\ SvcProofs!Tally /\ DepEarned => OkMeansAnswered
    <2> SUFFICES ASSUME Facts, RowsInv, StageInv, OkHits, SvcProofs!Tally, DepEarned,
                        stage = "done"
                 PROVE  OkMeansAnswered
      BY DEF OkMeansAnswered, Judged
    <2>1. ASSUME NEW m \in DOMAIN results, NEW i \in DOMAIN Svc!ModuleRegistry(m)
          PROVE  LET sub == Svc!ModuleRegistry(m)[i]
                     alive == {"good"} \cup IF sub.HealthzType = "http_alive" THEN {"other", Svc!Part} ELSE {}
                 IN  Count(<<"service", m, sub.name, "healthz">>, "ok")
                     = Cardinality({j \in DOMAIN reply : j[1] = m /\ ~ sub.skipped
                                     /\ \E k \in DOMAIN reply[j].out :
                                         /\ Svc!Sections(m)[k] = <<"HZ", i>>
                                         /\ reply[j].out[k] \in alive})
      <3> DEFINE x == Svc!ModuleRegistry(m)[i].name
      <3>1. "done" \in PastServices /\ svcPhase = "done"
        BY AtTheEnd DEF PastServices, PastMySQL, PastRedis, PastSentinel, PastMongo, PastBroker,
                        PastReplication
      <3>2. HitCount(checks, HealthField(m, x), "ok")
            = Cardinality({k \in DOMAIN results[m] : GaveOk(results[m][k], x)})
        BY <3>1 DEF OkHits
      <3>3. Cardinality({j \in DOMAIN reply : j[1] = m /\ AnswersFor(m, i, reply[j])})
            = Cardinality({k \in DOMAIN results[m] : GaveOk(results[m][k], x)})
        BY <3>1, EntriesCounted
      <3>4. Count(<<"service", m, x, "healthz">>, "ok") = HitCount(checks, HealthField(m, x), "ok")
        BY DEF Count, HitCount, Hits, HealthField
      <3>5. Count(<<"service", m, x, "healthz">>, "ok")
            = Cardinality({j \in DOMAIN reply : j[1] = m /\ AnswersFor(m, i, reply[j])})
        BY <3>2, <3>3, <3>4
      <3>6. QED
        BY <3>5 DEF AnswersFor
    <2>2. ASSUME NEW r \in Rows(<<"bkdeps">>, {"ok"})
          PROVE  \/ chan[r.field[2]] = "expected"
                 \/ r.field[2] = "rabbitmq" /\ chan[r.field[2]] \in {"rejected", "other"}
                 \/ r.field[2] = "zookeeper" /\ chan[r.field[2]] \in {"rejected", "nothing", "other"}
      BY OkDependency, EarnedAnswer
    <2>3. QED
      BY <2>1, <2>2 DEF OkMeansAnswered
  <1>2. QED
    BY <1>1, AllKnown, OkHitsAlways, TallyInServices, EarnedAlways, PTL

=============================================================================
