------------------------------ MODULE RowProofs ------------------------------
(***************************************************************************)
(* Which rows each rule of Collection gives, row by row, and that the rows  *)
(* of the report are these and no others, at every step (RowsInv).          *)
(***************************************************************************)
EXTENDS CollectionProofs

\* The modules of the rules are instantiated one by one; what they take from the
\* library is the same.
LEMMA SameFlatten ==
    /\ \A s : CHECKS!FlattenSeq(s) = FlattenSeq(s)
    /\ \A s : HOST!FlattenSeq(s) = FlattenSeq(s)
    /\ \A s : DB!FlattenSeq(s) = FlattenSeq(s)
    /\ \A s : MQ!FlattenSeq(s) = FlattenSeq(s)
    /\ \A s : REP!FlattenSeq(s) = FlattenSeq(s)
    /\ \A s : Svc!CHECKS!FlattenSeq(s) = FlattenSeq(s)
    /\ \A s : Es!CHECKS!FlattenSeq(s) = FlattenSeq(s)
    /\ \A s : Es!FlattenSeq(s) = FlattenSeq(s)
    /\ \A s : Dep!CHECKS!FlattenSeq(s) = FlattenSeq(s)
  BY DEF FlattenSeq, CHECKS!FlattenSeq, HOST!FlattenSeq, DB!FlattenSeq, MQ!FlattenSeq,
         REP!FlattenSeq, Svc!CHECKS!FlattenSeq, Es!CHECKS!FlattenSeq, Es!FlattenSeq,
         Dep!CHECKS!FlattenSeq

\* A row about a component.
About(r, c) == List(r.field) /\ Len(r.field) > 2 /\ r.field[1] = c

-----------------------------------------------------------------------------
(* Which rows each rule gives *)

Row(component, whom, what, status) == CHECKS!CheckResult(<<component, whom, what>>, status)

\* r is a row for a node, by checker/redis.go.
RedisRow(n, t, r) ==
    \/ n.Error # "" /\ r = Row("redis", n.IP, "error", "warn")
    \/ n.CeleryQueue > t["celery"] /\ r = Row("redis", n.IP, "celery_queue", "notice")
    \/ n.MonitorQueue > t["monitor"] /\ r = Row("redis", n.IP, "monitor_queue", "notice")

LEMMA RedisRows ==
    ASSUME NEW nodes, List(nodes), NEW t
    PROVE  /\ List(DB!CheckRedis(nodes, t))
           /\ \A r : r \in ToSet(DB!CheckRedis(nodes, t))
                     <=> \E i \in DOMAIN nodes : RedisRow(nodes[i], t, r)
  <1> DEFINE a(n) == DB!RowIf(n.Error # "", <<"redis", n.IP, "error">>, "warn")
             b(n) == DB!RowIf(n.CeleryQueue > t["celery"],
                              <<"redis", n.IP, "celery_queue">>, "notice")
             c(n) == DB!RowIf(n.MonitorQueue > t["monitor"],
                              <<"redis", n.IP, "monitor_queue">>, "notice")
             blocks == [i \in DOMAIN nodes |-> a(nodes[i]) \o b(nodes[i]) \o c(nodes[i])]
  <1>1. DB!CheckRedis(nodes, t) = FlattenSeq(blocks)
    BY SameFlatten DEF DB!CheckRedis, DB!RowsOfEach
  <1>2. ASSUME NEW i \in DOMAIN nodes
        PROVE  List(blocks[i]) /\ \A r : r \in ToSet(blocks[i]) <=> RedisRow(nodes[i], t, r)
    <2> DEFINE n == nodes[i]
    <2> HIDE DEF n
    <2>1. List(a(n)) /\ \A r : r \in ToSet(a(n)) <=>
                n.Error # "" /\ r = Row("redis", n.IP, "error", "warn")
      BY NoRows, OneRow DEF DB!RowIf, DB!CheckResult, CHECKS!CheckResult, Row
    <2>2. List(b(n)) /\ \A r : r \in ToSet(b(n)) <=>
                n.CeleryQueue > t["celery"] /\ r = Row("redis", n.IP, "celery_queue", "notice")
      BY NoRows, OneRow DEF DB!RowIf, DB!CheckResult, CHECKS!CheckResult, Row
    <2>3. List(c(n)) /\ \A r : r \in ToSet(c(n)) <=>
                n.MonitorQueue > t["monitor"] /\ r = Row("redis", n.IP, "monitor_queue", "notice")
      BY NoRows, OneRow DEF DB!RowIf, DB!CheckResult, CHECKS!CheckResult, Row
    <2>4. blocks[i] = a(n) \o b(n) \o c(n)
      BY DEF n
    <2> HIDE DEF a, b, c, blocks
    <2>5. List(a(n)) /\ List(b(n)) /\ List(c(n))
      BY <2>1, <2>2, <2>3
    <2>6. /\ List(blocks[i])
          /\ \A r : r \in ToSet(blocks[i])
                    <=> r \in ToSet(a(n)) \/ r \in ToSet(b(n)) \/ r \in ToSet(c(n))
      BY <2>4, <2>5, Joined3
    <2>7. QED
      BY <2>1, <2>2, <2>3, <2>6, Zenon DEF n, RedisRow
  <1>3. blocks = [i \in DOMAIN nodes |-> blocks[i]]
    OBVIOUS
  <1> HIDE DEF blocks
  <1>4. /\ List(FlattenSeq(blocks))
        /\ \A r : r \in ToSet(FlattenSeq(blocks))
                  <=> \E i \in DOMAIN nodes : r \in ToSet(blocks[i])
    BY <1>2, <1>3, Blocks
  <1>5. QED
    BY <1>1, <1>2, <1>4

\* The same for the sentinels together.
SentinelRow(s, r) ==
    \/ s.Error # "" /\ r = Row("redis_sentinel", "cluster", "error", "warn")
    \/ ~ s.MasterReachable /\ r = Row("redis_sentinel", "cluster", "master_reachable", "warn")
    \/ s.MasterEnvMatch = "warn" /\ r = Row("redis_sentinel", "cluster", "master_env_match", "warn")
    \/ s.Status # "ok" /\ r = Row("redis_sentinel", "cluster", "status", "warn")
    \/ \E i \in DOMAIN s.Sentinels :
        ~ s.Sentinels[i].Reachable
        /\ r = Row("redis_sentinel", s.Sentinels[i].IP, "reachable", "warn")

LEMMA SentinelRows ==
    ASSUME NEW s, List(s.Sentinels)
    PROVE  /\ List(DB!CheckRedisSentinel(s))
           /\ \A r : r \in ToSet(DB!CheckRedisSentinel(s)) <=> SentinelRow(s, r)
  <1> DEFINE OfCluster(what) == <<"redis_sentinel", "cluster", what>>
             a == DB!RowIf(s.Error # "", OfCluster("error"), "warn")
             b == DB!RowIf(~ s.MasterReachable, OfCluster("master_reachable"), "warn")
             c == DB!RowIf(s.MasterEnvMatch = "warn", OfCluster("master_env_match"), "warn")
             d == DB!RowIf(s.Status # "ok", OfCluster("status"), "warn")
             list == s.Sentinels
             Told(i) == DB!RowIf(~ list[i].Reachable,
                                 <<"redis_sentinel", list[i].IP, "reachable">>, "warn")
             blocks == [i \in DOMAIN list |-> Told(i)]
             e == FlattenSeq(blocks)
  <1>1. DB!CheckRedisSentinel(s) = a \o b \o c \o d \o e
    BY SameFlatten DEF DB!CheckRedisSentinel, DB!RowsOfEach
  <1>2. List(a) /\ \A r : r \in ToSet(a) <=>
            s.Error # "" /\ r = Row("redis_sentinel", "cluster", "error", "warn")
    BY NoRows, OneRow DEF DB!RowIf, DB!CheckResult, CHECKS!CheckResult, Row
  <1>3. List(b) /\ \A r : r \in ToSet(b) <=>
            ~ s.MasterReachable /\ r = Row("redis_sentinel", "cluster", "master_reachable", "warn")
    BY NoRows, OneRow DEF DB!RowIf, DB!CheckResult, CHECKS!CheckResult, Row
  <1>4. List(c) /\ \A r : r \in ToSet(c) <=>
            s.MasterEnvMatch = "warn"
            /\ r = Row("redis_sentinel", "cluster", "master_env_match", "warn")
    BY NoRows, OneRow DEF DB!RowIf, DB!CheckResult, CHECKS!CheckResult, Row
  <1>5. List(d) /\ \A r : r \in ToSet(d) <=>
            s.Status # "ok" /\ r = Row("redis_sentinel", "cluster", "status", "warn")
    BY NoRows, OneRow DEF DB!RowIf, DB!CheckResult, CHECKS!CheckResult, Row
  <1>6. ASSUME NEW i \in DOMAIN list
        PROVE  List(blocks[i]) /\ \A r : r \in ToSet(blocks[i]) <=>
                    ~ list[i].Reachable
                    /\ r = Row("redis_sentinel", list[i].IP, "reachable", "warn")
    BY NoRows, OneRow DEF DB!RowIf, DB!CheckResult, CHECKS!CheckResult, Row
  <1>7. blocks = [i \in DOMAIN list |-> blocks[i]]
    OBVIOUS
  <1> HIDE DEF a, b, c, d, blocks
  <1>8. List(e) /\ \A r : r \in ToSet(e) <=> \E i \in DOMAIN list : r \in ToSet(blocks[i])
    BY <1>6, <1>7, Blocks
  <1> HIDE DEF e, list
  <1>9. List(a) /\ List(b) /\ List(c) /\ List(d) /\ List(e)
    BY <1>2, <1>3, <1>4, <1>5, <1>8
  <1>10. /\ List(a \o b \o c)
         /\ \A r : r \in ToSet(a \o b \o c) <=> r \in ToSet(a) \/ r \in ToSet(b) \/ r \in ToSet(c)
    BY <1>9, Joined3
  <1>11. /\ List(a \o b \o c \o d \o e)
         /\ \A r : r \in ToSet(a \o b \o c \o d \o e)
                   <=> r \in ToSet(a \o b \o c) \/ r \in ToSet(d) \/ r \in ToSet(e)
    BY <1>9, <1>10, Joined3
  <1>12. \A r : r \in ToSet(e) <=> \E i \in DOMAIN list :
            ~ list[i].Reachable /\ r = Row("redis_sentinel", list[i].IP, "reachable", "warn")
    BY <1>6, <1>8
  <1>13. QED
    BY <1>1, <1>2, <1>3, <1>4, <1>5, <1>10, <1>11, <1>12, Zenon DEF SentinelRow, list

\* The same for a replica set, by checker/mongo.go.
MongoRow(c, r) ==
    \/ c.Error # "" /\ r = Row("mongo", "cluster", "error", "warn")
    \/ c.Error = "" /\ r = Row("mongo", "member", "health", "notice")
       /\ \E i \in DOMAIN c.Members : c.Members[i] # 1

LEMMA MongoRows ==
    ASSUME NEW c, List(c.Members)
    PROVE  /\ List(DB!CheckMongo(c))
           /\ \A r : r \in ToSet(DB!CheckMongo(c)) <=> MongoRow(c, r)
  <1>1. CASE c.Error # ""
    BY <1>1, OneRow DEF DB!CheckMongo, MongoRow, DB!CheckResult, CHECKS!CheckResult, Row
  <1>2. CASE c.Error = ""
    <2> DEFINE list == c.Members
               blocks == [i \in DOMAIN list |->
                            DB!RowIf(list[i] # 1, <<"mongo", "member", "health">>, "notice")]
    <2>1. DB!CheckMongo(c) = FlattenSeq(blocks)
      BY <1>2, SameFlatten DEF DB!CheckMongo, DB!RowsOfEach
    <2>2. ASSUME NEW i \in DOMAIN list
          PROVE  List(blocks[i]) /\ \A r : r \in ToSet(blocks[i]) <=>
                    list[i] # 1 /\ r = Row("mongo", "member", "health", "notice")
      BY NoRows, OneRow DEF DB!RowIf, DB!CheckResult, CHECKS!CheckResult, Row
    <2>3. blocks = [i \in DOMAIN list |-> blocks[i]]
      OBVIOUS
    <2> HIDE DEF blocks
    <2>4. /\ List(FlattenSeq(blocks))
          /\ \A r : r \in ToSet(FlattenSeq(blocks))
                    <=> \E i \in DOMAIN list : r \in ToSet(blocks[i])
      BY <2>2, <2>3, Blocks
    <2>5. QED
      BY <1>2, <2>1, <2>2, <2>4 DEF MongoRow
  <1>3. QED
    BY <1>1, <1>2

\* The same for a broker, by checker/rabbitmq.go.
BrokerRow(q, r) ==
    \/ q.Error # "" /\ r = Row("rabbitmq", "cluster", "error", "warn")
    \/ q.QueuesError # "" /\ r = Row("rabbitmq", "cluster", "queues_error", "warn")
    \/ q.ClusterPartition /\ r = Row("rabbitmq", "cluster", "cluster_partition", "warn")
    \/ q.AbnormalConnections > 0 /\ r = Row("rabbitmq", "cluster", "abnormal_connections", "warn")
    \/ \E i \in DOMAIN q.NodeAlarms :
        \/ q.NodeAlarms[i].mem_alarm /\ r = Row("rabbitmq", "node", "mem_alarm", "warn")
        \/ q.NodeAlarms[i].disk_free_alarm
           /\ r = Row("rabbitmq", "node", "disk_free_alarm", "warn")
    \/ \E i \in DOMAIN q.ExceedingQueues :
        r = Row("rabbitmq", q.ExceedingQueues[i].vhost, "backlog", "warn")
    \/ \E i \in DOMAIN q.NoConsumerQueues :
        r = Row("rabbitmq", q.NoConsumerQueues[i].vhost, "no_consumer", "warn")

LEMMA BrokerRows ==
    ASSUME NEW q, List(q.NodeAlarms), List(q.ExceedingQueues), List(q.NoConsumerQueues)
    PROVE  /\ List(MQ!CheckRabbitMQ(q))
           /\ \A r : r \in ToSet(MQ!CheckRabbitMQ(q)) <=> BrokerRow(q, r)
  <1> DEFINE OfCluster(what) == <<"rabbitmq", "cluster", what>>
             a == MQ!RowIf(q.Error # "", OfCluster("error"), "warn")
             b == MQ!RowIf(q.QueuesError # "", OfCluster("queues_error"), "warn")
             c == MQ!RowIf(q.ClusterPartition, OfCluster("cluster_partition"), "warn")
             d == MQ!RowIf(q.AbnormalConnections > 0, OfCluster("abnormal_connections"), "warn")
             mem(n) == MQ!RowIf(n.mem_alarm, <<"rabbitmq", "node", "mem_alarm">>, "warn")
             disk(n) == MQ!RowIf(n.disk_free_alarm, <<"rabbitmq", "node", "disk_free_alarm">>, "warn")
             nodes == q.NodeAlarms
             high == q.ExceedingQueues
             lone == q.NoConsumerQueues
             ofNodes == [i \in DOMAIN nodes |-> mem(nodes[i]) \o disk(nodes[i])]
             ofHigh == [i \in DOMAIN high |->
                            <<MQ!CheckResult(<<"rabbitmq", high[i].vhost, "backlog">>, "warn")>>]
             ofLone == [i \in DOMAIN lone |->
                            <<MQ!CheckResult(<<"rabbitmq", lone[i].vhost, "no_consumer">>, "warn")>>]
             e == FlattenSeq(ofNodes)
             f == FlattenSeq(ofHigh)
             g == FlattenSeq(ofLone)
  <1>1. MQ!CheckRabbitMQ(q) = a \o b \o c \o d \o e \o f \o g
    BY SameFlatten DEF MQ!CheckRabbitMQ, MQ!RowsOfEach
  <1>2. List(a) /\ \A r : r \in ToSet(a) <=>
            q.Error # "" /\ r = Row("rabbitmq", "cluster", "error", "warn")
    BY NoRows, OneRow DEF MQ!RowIf, MQ!CheckResult, CHECKS!CheckResult, Row
  <1>3. List(b) /\ \A r : r \in ToSet(b) <=>
            q.QueuesError # "" /\ r = Row("rabbitmq", "cluster", "queues_error", "warn")
    BY NoRows, OneRow DEF MQ!RowIf, MQ!CheckResult, CHECKS!CheckResult, Row
  <1>4. List(c) /\ \A r : r \in ToSet(c) <=>
            q.ClusterPartition /\ r = Row("rabbitmq", "cluster", "cluster_partition", "warn")
    BY NoRows, OneRow DEF MQ!RowIf, MQ!CheckResult, CHECKS!CheckResult, Row
  <1>5. List(d) /\ \A r : r \in ToSet(d) <=>
            q.AbnormalConnections > 0
            /\ r = Row("rabbitmq", "cluster", "abnormal_connections", "warn")
    BY NoRows, OneRow DEF MQ!RowIf, MQ!CheckResult, CHECKS!CheckResult, Row
  <1>6. ASSUME NEW i \in DOMAIN nodes
        PROVE  /\ List(ofNodes[i])
               /\ \A r : r \in ToSet(ofNodes[i]) <=>
                    \/ nodes[i].mem_alarm /\ r = Row("rabbitmq", "node", "mem_alarm", "warn")
                    \/ nodes[i].disk_free_alarm
                       /\ r = Row("rabbitmq", "node", "disk_free_alarm", "warn")
    <2> DEFINE n == nodes[i]
    <2> HIDE DEF n
    <2>1. List(mem(n)) /\ \A r : r \in ToSet(mem(n)) <=>
            n.mem_alarm /\ r = Row("rabbitmq", "node", "mem_alarm", "warn")
      BY NoRows, OneRow DEF MQ!RowIf, MQ!CheckResult, CHECKS!CheckResult, Row
    <2>2. List(disk(n)) /\ \A r : r \in ToSet(disk(n)) <=>
            n.disk_free_alarm /\ r = Row("rabbitmq", "node", "disk_free_alarm", "warn")
      BY NoRows, OneRow DEF MQ!RowIf, MQ!CheckResult, CHECKS!CheckResult, Row
    <2>3. ofNodes[i] = mem(n) \o disk(n)
      BY DEF n
    <2> HIDE DEF mem, disk, ofNodes
    <2>4. /\ List(ofNodes[i])
          /\ ToSet(ofNodes[i]) = ToSet(mem(n)) \cup ToSet(disk(n))
      <3>1. List(mem(n)) /\ List(disk(n))
        BY <2>1, <2>2
      <3>2. QED
        BY <3>1, <2>3, Joined
    <2>5. \A r : r \in ToSet(ofNodes[i]) <=> r \in ToSet(mem(n)) \/ r \in ToSet(disk(n))
      BY <2>4
    <2>6. QED
      BY <2>1, <2>2, <2>4, <2>5, Zenon DEF n
  <1>7. ASSUME NEW i \in DOMAIN high
        PROVE  /\ List(ofHigh[i])
               /\ \A r : r \in ToSet(ofHigh[i])
                         <=> r = Row("rabbitmq", high[i].vhost, "backlog", "warn")
    BY OneRow DEF MQ!CheckResult, CHECKS!CheckResult, Row
  <1>8. ASSUME NEW i \in DOMAIN lone
        PROVE  /\ List(ofLone[i])
               /\ \A r : r \in ToSet(ofLone[i])
                         <=> r = Row("rabbitmq", lone[i].vhost, "no_consumer", "warn")
    BY OneRow DEF MQ!CheckResult, CHECKS!CheckResult, Row
  <1>9. /\ ofNodes = [i \in DOMAIN nodes |-> ofNodes[i]]
        /\ ofHigh = [i \in DOMAIN high |-> ofHigh[i]]
        /\ ofLone = [i \in DOMAIN lone |-> ofLone[i]]
    OBVIOUS
  <1> HIDE DEF a, b, c, d, ofNodes, ofHigh, ofLone
  <1>10. List(e) /\ \A r : r \in ToSet(e) <=> \E i \in DOMAIN nodes : r \in ToSet(ofNodes[i])
    BY <1>6, <1>9, Blocks
  <1>11. List(f) /\ \A r : r \in ToSet(f) <=> \E i \in DOMAIN high : r \in ToSet(ofHigh[i])
    BY <1>7, <1>9, Blocks
  <1>12. List(g) /\ \A r : r \in ToSet(g) <=> \E i \in DOMAIN lone : r \in ToSet(ofLone[i])
    BY <1>8, <1>9, Blocks
  <1> HIDE DEF e, f, g, nodes, high, lone
  <1>13. List(a) /\ List(b) /\ List(c) /\ List(d) /\ List(e) /\ List(f) /\ List(g)
    BY <1>2, <1>3, <1>4, <1>5, <1>10, <1>11, <1>12
  <1>14. /\ List(a \o b \o c)
         /\ \A r : r \in ToSet(a \o b \o c) <=> r \in ToSet(a) \/ r \in ToSet(b) \/ r \in ToSet(c)
    BY <1>13, Joined3
  <1>15. /\ List(a \o b \o c \o d \o e)
         /\ \A r : r \in ToSet(a \o b \o c \o d \o e)
                   <=> r \in ToSet(a \o b \o c) \/ r \in ToSet(d) \/ r \in ToSet(e)
    BY <1>13, <1>14, Joined3
  <1>16. /\ List(a \o b \o c \o d \o e \o f \o g)
         /\ \A r : r \in ToSet(a \o b \o c \o d \o e \o f \o g)
                   <=> r \in ToSet(a \o b \o c \o d \o e) \/ r \in ToSet(f) \/ r \in ToSet(g)
    BY <1>13, <1>15, Joined3
  <1>17. \A r : r \in ToSet(e) <=> \E i \in DOMAIN nodes :
                    \/ nodes[i].mem_alarm /\ r = Row("rabbitmq", "node", "mem_alarm", "warn")
                    \/ nodes[i].disk_free_alarm
                       /\ r = Row("rabbitmq", "node", "disk_free_alarm", "warn")
    BY <1>6, <1>10
  <1>18. \A r : r \in ToSet(f) <=> \E i \in DOMAIN high :
                    r = Row("rabbitmq", high[i].vhost, "backlog", "warn")
    BY <1>7, <1>11
  <1>19. \A r : r \in ToSet(g) <=> \E i \in DOMAIN lone :
                    r = Row("rabbitmq", lone[i].vhost, "no_consumer", "warn")
    BY <1>8, <1>12
  <1>20. List(MQ!CheckRabbitMQ(q))
    BY <1>1, <1>16
  <1>21. ASSUME NEW r PROVE r \in ToSet(MQ!CheckRabbitMQ(q)) <=> BrokerRow(q, r)
    <2>1. r \in ToSet(MQ!CheckRabbitMQ(q)) <=>
            \/ r \in ToSet(a) \/ r \in ToSet(b) \/ r \in ToSet(c) \/ r \in ToSet(d)
            \/ r \in ToSet(e) \/ r \in ToSet(f) \/ r \in ToSet(g)
      BY <1>1, <1>14, <1>15, <1>16
    <2>2. QED
      BY <2>1, <1>2, <1>3, <1>4, <1>5, <1>17, <1>18, <1>19, Zenon
         DEF BrokerRow, nodes, high, lone
  <1>22. QED
    BY <1>20, <1>21

\* The same for Elasticsearch, by checker/es.go.
ESRow(c, nodes, t, r) ==
    \/ c.Error # "" /\ r = Row("es", "cluster", "cluster_error", "warn")
    \/ c.Error = "" /\ \/ /\ c.Status \notin {"", "green"}
                          /\ r = Row("es", "cluster", "cluster_status", "notice")
                       \/ /\ c.UnassignedShards > t["es_unassigned"]
                          /\ r = Row("es", "cluster", "unassigned_shards", "notice")
                       \/ /\ c.PendingTasks > 0
                          /\ r = Row("es", "cluster", "pending_tasks", "notice")
                       \/ \E i \in DOMAIN c.Nodes :
                            \/ /\ c.Nodes[i].HeapPercent > t["es_heap"]
                               /\ r = Row("es", "node", "heap", "notice")
                            \/ /\ c.Nodes[i].RAMPercent > t["es_ram"]
                               /\ r = Row("es", "node", "ram", "notice")
                       \/ \E i \in DOMAIN reach : /\ reach[i] = "unreachable"
                                                  /\ r = Row("es", nodes[i], "reachability", "warn")

LEMMA ESRows ==
    ASSUME NEW c, List(c.Nodes), List(reach), NEW nodes, NEW t
    PROVE  /\ List(Es!CheckES(c, nodes, t))
           /\ \A r : r \in ToSet(Es!CheckES(c, nodes, t)) <=> ESRow(c, nodes, t, r)
  <1>1. CASE c.Error # ""
    <2>1. Es!CheckES(c, nodes, t) = <<Row("es", "cluster", "cluster_error", "warn")>>
      BY <1>1 DEF Es!CheckES, Es!CHECKS!CheckResult, CHECKS!CheckResult, Row
    <2>2. QED
      BY <1>1, <2>1, OneRow DEF ESRow
  <1>2. CASE c.Error = ""
    <2> DEFINE a == Es!CHECKS!RowIf(c.Status \notin {"", "green"},
                                    <<"es", "cluster", "cluster_status">>, "notice")
               b == Es!CHECKS!RowIf(c.UnassignedShards > t["es_unassigned"],
                                    <<"es", "cluster", "unassigned_shards">>, "notice")
               d == Es!CHECKS!RowIf(c.PendingTasks > 0,
                                    <<"es", "cluster", "pending_tasks">>, "notice")
               heap(n) == Es!CHECKS!RowIf(n.HeapPercent > t["es_heap"],
                                          <<"es", "node", "heap">>, "notice")
               ram(n) == Es!CHECKS!RowIf(n.RAMPercent > t["es_ram"],
                                         <<"es", "node", "ram">>, "notice")
               list == c.Nodes
               ofNodes == [i \in DOMAIN list |-> heap(list[i]) \o ram(list[i])]
               ofReach == [i \in DOMAIN reach |->
                            Es!CHECKS!RowIf(reach[i] = "unreachable",
                                            <<"es", nodes[i], "reachability">>, "warn")]
               e == FlattenSeq(ofNodes)
               f == FlattenSeq(ofReach)
    <2>1. Es!CheckES(c, nodes, t) = a \o b \o d \o e \o f
      BY <1>2, SameFlatten DEF Es!CheckES, Es!CHECKS!RowsOfEach, Es!NodeRows
    <2>2. List(a) /\ \A r : r \in ToSet(a) <=>
            c.Status \notin {"", "green"} /\ r = Row("es", "cluster", "cluster_status", "notice")
      BY NoRows, OneRow
         DEF Es!CHECKS!RowIf, Es!CHECKS!CheckResult, CHECKS!CheckResult, Row
    <2>3. List(b) /\ \A r : r \in ToSet(b) <=>
            c.UnassignedShards > t["es_unassigned"]
            /\ r = Row("es", "cluster", "unassigned_shards", "notice")
      BY NoRows, OneRow
         DEF Es!CHECKS!RowIf, Es!CHECKS!CheckResult, CHECKS!CheckResult, Row
    <2>4. List(d) /\ \A r : r \in ToSet(d) <=>
            c.PendingTasks > 0 /\ r = Row("es", "cluster", "pending_tasks", "notice")
      BY NoRows, OneRow
         DEF Es!CHECKS!RowIf, Es!CHECKS!CheckResult, CHECKS!CheckResult, Row
    <2>5. ASSUME NEW i \in DOMAIN list
          PROVE  /\ List(ofNodes[i])
                 /\ \A r : r \in ToSet(ofNodes[i]) <=>
                      \/ list[i].HeapPercent > t["es_heap"] /\ r = Row("es", "node", "heap", "notice")
                      \/ list[i].RAMPercent > t["es_ram"] /\ r = Row("es", "node", "ram", "notice")
      <3> DEFINE n == list[i]
      <3> HIDE DEF n
      <3>1. List(heap(n)) /\ \A r : r \in ToSet(heap(n)) <=>
              n.HeapPercent > t["es_heap"] /\ r = Row("es", "node", "heap", "notice")
        BY NoRows, OneRow
           DEF Es!CHECKS!RowIf, Es!CHECKS!CheckResult, CHECKS!CheckResult, Row
      <3>2. List(ram(n)) /\ \A r : r \in ToSet(ram(n)) <=>
              n.RAMPercent > t["es_ram"] /\ r = Row("es", "node", "ram", "notice")
        BY NoRows, OneRow
           DEF Es!CHECKS!RowIf, Es!CHECKS!CheckResult, CHECKS!CheckResult, Row
      <3>3. ofNodes[i] = heap(n) \o ram(n)
        BY DEF n
      <3> HIDE DEF heap, ram, ofNodes
      <3>4. List(ofNodes[i]) /\ ToSet(ofNodes[i]) = ToSet(heap(n)) \cup ToSet(ram(n))
        <4>1. List(heap(n)) /\ List(ram(n))
          BY <3>1, <3>2
        <4>2. QED
          BY <4>1, <3>3, Joined
      <3>5. \A r : r \in ToSet(ofNodes[i]) <=> r \in ToSet(heap(n)) \/ r \in ToSet(ram(n))
        BY <3>4
      <3>6. QED
        BY <3>1, <3>2, <3>4, <3>5, Zenon DEF n
    <2>6. ASSUME NEW i \in DOMAIN reach
          PROVE  List(ofReach[i]) /\ \A r : r \in ToSet(ofReach[i]) <=>
                    reach[i] = "unreachable" /\ r = Row("es", nodes[i], "reachability", "warn")
      BY NoRows, OneRow
         DEF Es!CHECKS!RowIf, Es!CHECKS!CheckResult, CHECKS!CheckResult, Row
    <2>7. /\ ofNodes = [i \in DOMAIN list |-> ofNodes[i]]
          /\ ofReach = [i \in DOMAIN reach |-> ofReach[i]]
      OBVIOUS
    <2> HIDE DEF a, b, d, ofNodes, ofReach
    <2>8. List(e) /\ \A r : r \in ToSet(e) <=> \E i \in DOMAIN list : r \in ToSet(ofNodes[i])
      BY <2>5, <2>7, Blocks
    <2>9. List(f) /\ \A r : r \in ToSet(f) <=> \E i \in DOMAIN reach : r \in ToSet(ofReach[i])
      BY <2>6, <2>7, Blocks
    <2> HIDE DEF e, f, list
    <2>10. List(a) /\ List(b) /\ List(d) /\ List(e) /\ List(f)
      BY <2>2, <2>3, <2>4, <2>8, <2>9
    <2>11. /\ List(a \o b \o d)
           /\ \A r : r \in ToSet(a \o b \o d) <=> r \in ToSet(a) \/ r \in ToSet(b) \/ r \in ToSet(d)
      BY <2>10, Joined3
    <2>12. /\ List(a \o b \o d \o e \o f)
           /\ \A r : r \in ToSet(a \o b \o d \o e \o f)
                     <=> r \in ToSet(a \o b \o d) \/ r \in ToSet(e) \/ r \in ToSet(f)
      BY <2>10, <2>11, Joined3
    <2>13. \A r : r \in ToSet(e) <=> \E i \in DOMAIN list :
                \/ list[i].HeapPercent > t["es_heap"] /\ r = Row("es", "node", "heap", "notice")
                \/ list[i].RAMPercent > t["es_ram"] /\ r = Row("es", "node", "ram", "notice")
      BY <2>5, <2>8
    <2>14. \A r : r \in ToSet(f) <=> \E i \in DOMAIN reach :
                reach[i] = "unreachable" /\ r = Row("es", nodes[i], "reachability", "warn")
      BY <2>6, <2>9
    <2>15. ASSUME NEW r PROVE r \in ToSet(Es!CheckES(c, nodes, t)) <=> ESRow(c, nodes, t, r)
      <3>1. r \in ToSet(Es!CheckES(c, nodes, t)) <=>
              \/ r \in ToSet(a) \/ r \in ToSet(b) \/ r \in ToSet(d)
              \/ r \in ToSet(e) \/ r \in ToSet(f)
        BY <2>1, <2>11, <2>12
      <3>2. QED
        BY <1>2, <3>1, <2>2, <2>3, <2>4, <2>13, <2>14, Zenon DEF ESRow, list
    <2>16. QED
      BY <2>1, <2>12, <2>15
  <1>3. QED
    BY <1>1, <1>2

\* The same for the dependencies of bkmonitorv3, by checker/bkdeps.go.
DependencyRow(d, r) ==
    \/ d.Status = "ok" /\ r = Row("bkdeps", d.Item, "status", "ok")
    \/ d.Status \notin {"ok", "skip"} /\ r = Row("bkdeps", d.Item, "status", "notice")

LEMMA DependencyRows ==
    ASSUME NEW list, List(list)
    PROVE  /\ List(Dep!CheckBKDeps(list))
           /\ \A r : r \in ToSet(Dep!CheckBKDeps(list))
                     <=> \E i \in DOMAIN list : DependencyRow(list[i], r)
  <1> DEFINE blocks == [i \in DOMAIN list |-> Dep!DepRow(list[i])]
  <1>1. Dep!CheckBKDeps(list) = FlattenSeq(blocks)
    BY SameFlatten DEF Dep!CheckBKDeps, Dep!CHECKS!RowsOfEach
  <1>2. ASSUME NEW i \in DOMAIN list
        PROVE  List(blocks[i]) /\ \A r : r \in ToSet(blocks[i]) <=> DependencyRow(list[i], r)
    <2> DEFINE d == list[i]
    <2>1. blocks[i] = Dep!DepRow(d)
      OBVIOUS
    <2> HIDE DEF d, blocks
    <2>2. CASE d.Status = "ok"
      <3>1. blocks[i] = <<Row("bkdeps", d.Item, "status", "ok")>>
        BY <2>1, <2>2 DEF Dep!DepRow, Dep!CHECKS!CheckResult, CHECKS!CheckResult, Row
      <3>2. QED
        BY <3>1, <2>2, OneRow DEF DependencyRow, d
    <2>3. CASE d.Status = "skip"
      <3>1. blocks[i] = <<>>
        BY <2>1, <2>3 DEF Dep!DepRow
      <3>2. QED
        BY <3>1, <2>3, NoRows DEF DependencyRow, d
    <2>4. CASE d.Status \notin {"ok", "skip"}
      <3>1. blocks[i] = <<Row("bkdeps", d.Item, "status", "notice")>>
        BY <2>1, <2>4 DEF Dep!DepRow, Dep!CHECKS!CheckResult, CHECKS!CheckResult, Row
      <3>2. QED
        BY <3>1, <2>4, OneRow DEF DependencyRow, d
    <2>5. QED
      BY <2>2, <2>3, <2>4
  <1>3. blocks = [i \in DOMAIN list |-> blocks[i]]
    OBVIOUS
  <1> HIDE DEF blocks
  <1>4. /\ List(FlattenSeq(blocks))
        /\ \A r : r \in ToSet(FlattenSeq(blocks))
                  <=> \E i \in DOMAIN list : r \in ToSet(blocks[i])
    BY <1>2, <1>3, Blocks
  <1>5. QED
    BY <1>1, <1>2, <1>4

Graded(ok) == IF ok THEN "ok" ELSE "warn"

\* The same for replication, by checker/rules.go.
ReplicationRow(rep, r) ==
    \/ \E i \in DOMAIN rep.MySQLMasters :
        r = Row("mysql_master", rep.MySQLMasters[i].IP, "read_only",
                Graded(rep.MySQLMasters[i].Status = "ok"))
    \/ \E i \in DOMAIN rep.MySQLSlaves :
        /\ rep.MySQLSlaves[i].Status # ""
        /\ r = Row("mysql_slave", rep.MySQLSlaves[i].IP, "replication",
                   Graded(rep.MySQLSlaves[i].Status = "ok"))
    \/ \E i \in DOMAIN rep.RedisNodes :
        \/ r = Row("redis", rep.RedisNodes[i].IP, "role",
                   Graded(rep.RedisNodes[i].RoleConsistencyStatus = "ok"))
        \/ /\ rep.RedisNodes[i].LinkStatus # "N/A"
           /\ r = Row("redis", rep.RedisNodes[i].IP, "link",
                      Graded(rep.RedisNodes[i].LinkStatus = "ok"))

LEMMA ReplicationRows ==
    ASSUME NEW rep, List(rep.MySQLMasters), List(rep.MySQLSlaves), List(rep.RedisNodes)
    PROVE  /\ List(REP!CheckReplication(rep))
           /\ \A r : r \in ToSet(REP!CheckReplication(rep)) <=> ReplicationRow(rep, r)
  <1> DEFINE ms == rep.MySQLMasters
             ss == rep.MySQLSlaves
             ns == rep.RedisNodes
             role(n) == REP!OkOrWarn(n.RoleConsistencyStatus = "ok", <<"redis", n.IP, "role">>)
             link(n) == IF n.LinkStatus = "N/A" THEN <<>>
                        ELSE REP!OkOrWarn(n.LinkStatus = "ok", <<"redis", n.IP, "link">>)
             a == [i \in DOMAIN ms |->
                    REP!OkOrWarn(ms[i].Status = "ok", <<"mysql_master", ms[i].IP, "read_only">>)]
             b == [i \in DOMAIN ss |-> REP!SlaveRows(ss[i])]
             c == [i \in DOMAIN ns |-> role(ns[i]) \o link(ns[i])]
  <1>1. REP!CheckReplication(rep) = FlattenSeq(a) \o FlattenSeq(b) \o FlattenSeq(c)
    BY SameFlatten DEF REP!CheckReplication, REP!RowsOfEach
  <1>2. ASSUME NEW i \in DOMAIN ms
        PROVE  List(a[i]) /\ \A r : r \in ToSet(a[i])
                 <=> r = Row("mysql_master", ms[i].IP, "read_only", Graded(ms[i].Status = "ok"))
    BY OneRow DEF REP!OkOrWarn, REP!CheckResult, CHECKS!CheckResult, Row, Graded
  <1>3. ASSUME NEW i \in DOMAIN ss
        PROVE  List(b[i]) /\ \A r : r \in ToSet(b[i])
                 <=> /\ ss[i].Status # ""
                     /\ r = Row("mysql_slave", ss[i].IP, "replication", Graded(ss[i].Status = "ok"))
    BY NoRows, OneRow DEF REP!SlaveRows, REP!OkOrWarn, REP!CheckResult, CHECKS!CheckResult,
       Row, Graded
  <1>4. ASSUME NEW i \in DOMAIN ns
        PROVE  List(c[i]) /\ \A r : r \in ToSet(c[i])
                 <=> \/ r = Row("redis", ns[i].IP, "role",
                                Graded(ns[i].RoleConsistencyStatus = "ok"))
                     \/ /\ ns[i].LinkStatus # "N/A"
                        /\ r = Row("redis", ns[i].IP, "link", Graded(ns[i].LinkStatus = "ok"))
    <2> DEFINE n == ns[i]
    <2> HIDE DEF n
    <2>1. List(role(n)) /\ \A r : r \in ToSet(role(n))
            <=> r = Row("redis", n.IP, "role", Graded(n.RoleConsistencyStatus = "ok"))
      BY OneRow DEF REP!OkOrWarn, REP!CheckResult, CHECKS!CheckResult, Row, Graded
    <2>2. List(link(n)) /\ \A r : r \in ToSet(link(n))
            <=> n.LinkStatus # "N/A" /\ r = Row("redis", n.IP, "link", Graded(n.LinkStatus = "ok"))
      BY NoRows, OneRow DEF REP!OkOrWarn, REP!CheckResult, CHECKS!CheckResult, Row, Graded
    <2>3. c[i] = role(n) \o link(n)
      BY DEF n
    <2> HIDE DEF role, link, c
    <2>4. List(role(n)) /\ List(link(n))
      BY <2>1, <2>2
    <2>5. List(c[i]) /\ ToSet(c[i]) = ToSet(role(n)) \cup ToSet(link(n))
      BY <2>3, <2>4, Joined
    <2>6. \A r : r \in ToSet(c[i]) <=> r \in ToSet(role(n)) \/ r \in ToSet(link(n))
      BY <2>5
    <2>7. QED
      BY <2>1, <2>2, <2>5, <2>6, Zenon DEF n
  <1>5. /\ a = [i \in DOMAIN ms |-> a[i]] /\ b = [i \in DOMAIN ss |-> b[i]]
        /\ c = [i \in DOMAIN ns |-> c[i]]
    OBVIOUS
  <1> HIDE DEF a, b, c
  <1>6. /\ List(FlattenSeq(a))
        /\ \A r : r \in ToSet(FlattenSeq(a)) <=> \E i \in DOMAIN ms : r \in ToSet(a[i])
    BY <1>2, <1>5, Blocks
  <1>7. /\ List(FlattenSeq(b))
        /\ \A r : r \in ToSet(FlattenSeq(b)) <=> \E i \in DOMAIN ss : r \in ToSet(b[i])
    BY <1>3, <1>5, Blocks
  <1>8. /\ List(FlattenSeq(c))
        /\ \A r : r \in ToSet(FlattenSeq(c)) <=> \E i \in DOMAIN ns : r \in ToSet(c[i])
    BY <1>4, <1>5, Blocks
  <1> DEFINE fa == FlattenSeq(a)
             fb == FlattenSeq(b)
             fc == FlattenSeq(c)
  <1>9. List(fa) /\ List(fb) /\ List(fc)
    BY <1>6, <1>7, <1>8
  <1>10. \A r : r \in ToSet(fa) <=> \E i \in DOMAIN ms :
                r = Row("mysql_master", ms[i].IP, "read_only", Graded(ms[i].Status = "ok"))
    BY <1>2, <1>6
  <1>11. \A r : r \in ToSet(fb) <=> \E i \in DOMAIN ss :
                /\ ss[i].Status # ""
                /\ r = Row("mysql_slave", ss[i].IP, "replication", Graded(ss[i].Status = "ok"))
    BY <1>3, <1>7
  <1>12. \A r : r \in ToSet(fc) <=> \E i \in DOMAIN ns :
                \/ r = Row("redis", ns[i].IP, "role", Graded(ns[i].RoleConsistencyStatus = "ok"))
                \/ /\ ns[i].LinkStatus # "N/A"
                   /\ r = Row("redis", ns[i].IP, "link", Graded(ns[i].LinkStatus = "ok"))
    BY <1>4, <1>8
  <1>13. REP!CheckReplication(rep) = fa \o fb \o fc
    BY <1>1
  <1> HIDE DEF fa, fb, fc, ms, ss, ns
  <1>14. /\ List(fa \o fb \o fc)
         /\ \A r : r \in ToSet(fa \o fb \o fc) <=> r \in ToSet(fa) \/ r \in ToSet(fb) \/ r \in ToSet(fc)
    BY <1>9, Joined3
  <1>15. ASSUME NEW r
         PROVE  r \in ToSet(REP!CheckReplication(rep)) <=> ReplicationRow(rep, r)
    BY <1>10, <1>11, <1>12, <1>13, <1>14, Zenon DEF ReplicationRow, ms, ss, ns
  <1>16. QED
    BY <1>13, <1>14, <1>15

\* The same for a host, by checker/rules.go.
HostRow(h, t, r) ==
    \/ r = Row("host", h.IP, "cpu", Graded(h.CPUUsage < t["cpu"]))
    \/ r = Row("host", h.IP, "mem", Graded(h.MemUsage < t["mem"]))
    \/ \E i \in DOMAIN h.DiskUsage : r = Row("host", h.IP, "disk", Graded(h.DiskUsage[i] < t["disk"]))
    \/ \E i \in DOMAIN h.InodeUsage :
        r = Row("host", h.IP, "inode", Graded(h.InodeUsage[i] < t["inode"]))
    \/ r = Row("host", h.IP, "max_open_files", Graded(h.MaxOpenFiles >= t["max_open_files"]))
    \/ r = Row("host", h.IP, "selinux", Graded(h.SELinux \in {"Disabled", "N/A"}))
    \/ r = Row("host", h.IP, "firewalld", Graded(h.Firewalld \in {"inactive", "N/A"}))
    \/ r = Row("host", h.IP, "chronyd", Graded(h.Chronyd \in {"active", "N/A"}))
    \/ r = Row("host", h.IP, "load_average",
               Graded(~ (h.LoadAvg[1] > h.LoadAvg[2] /\ h.LoadAvg[2] > h.LoadAvg[3]
                         /\ h.LoadAvg[3] > h.Core)))

LEMMA HostRows ==
    ASSUME NEW h, List(h.DiskUsage), List(h.InodeUsage), NEW t
    PROVE  /\ List(HOST!CheckHost(h, t))
           /\ \A r : r \in ToSet(HOST!CheckHost(h, t)) <=> HostRow(h, t, r)
  <1> DEFINE Rule(ok, what) == HOST!OkOrWarn(ok, <<"host", h.IP, what>>)
             disks == h.DiskUsage
             inodes == h.InodeUsage
             ofDisks == [i \in DOMAIN disks |-> Rule(disks[i] < t["disk"], "disk")]
             ofInodes == [i \in DOMAIN inodes |-> Rule(inodes[i] < t["inode"], "inode")]
             fine == ~ (h.LoadAvg[1] > h.LoadAvg[2] /\ h.LoadAvg[2] > h.LoadAvg[3]
                        /\ h.LoadAvg[3] > h.Core)
             a == Rule(h.CPUUsage < t["cpu"], "cpu")
             b == Rule(h.MemUsage < t["mem"], "mem")
             c == FlattenSeq(ofDisks)
             d == FlattenSeq(ofInodes)
             e == Rule(h.MaxOpenFiles >= t["max_open_files"], "max_open_files")
             f == Rule(HOST!Expected(h.SELinux, "Disabled"), "selinux")
             g == Rule(HOST!Expected(h.Firewalld, "inactive"), "firewalld")
             k == Rule(HOST!Expected(h.Chronyd, "active"), "chronyd")
             l == Rule(fine, "load_average")
  <1>1. HOST!CheckHost(h, t) = a \o b \o c \o d \o e \o f \o g \o k \o l
    BY SameFlatten DEF HOST!CheckHost, HOST!RowsOfEach
  <1>2. List(a) /\ \A r : r \in ToSet(a)
            <=> r = Row("host", h.IP, "cpu", Graded(h.CPUUsage < t["cpu"]))
    BY OneRow DEF HOST!OkOrWarn, HOST!CheckResult, CHECKS!CheckResult, Row, Graded
  <1>3. List(b) /\ \A r : r \in ToSet(b)
            <=> r = Row("host", h.IP, "mem", Graded(h.MemUsage < t["mem"]))
    BY OneRow DEF HOST!OkOrWarn, HOST!CheckResult, CHECKS!CheckResult, Row, Graded
  <1>4. ASSUME NEW i \in DOMAIN disks
        PROVE  List(ofDisks[i]) /\ \A r : r \in ToSet(ofDisks[i])
                    <=> r = Row("host", h.IP, "disk", Graded(disks[i] < t["disk"]))
    BY OneRow DEF HOST!OkOrWarn, HOST!CheckResult, CHECKS!CheckResult, Row, Graded
  <1>5. ASSUME NEW i \in DOMAIN inodes
        PROVE  List(ofInodes[i]) /\ \A r : r \in ToSet(ofInodes[i])
                    <=> r = Row("host", h.IP, "inode", Graded(inodes[i] < t["inode"]))
    BY OneRow DEF HOST!OkOrWarn, HOST!CheckResult, CHECKS!CheckResult, Row, Graded
  <1>6. List(e) /\ \A r : r \in ToSet(e) <=> r = Row("host", h.IP, "max_open_files",
                                        Graded(h.MaxOpenFiles >= t["max_open_files"]))
    BY OneRow DEF HOST!OkOrWarn, HOST!CheckResult, CHECKS!CheckResult, Row, Graded
  <1>7. List(f) /\ \A r : r \in ToSet(f)
            <=> r = Row("host", h.IP, "selinux", Graded(h.SELinux \in {"Disabled", "N/A"}))
    BY OneRow
       DEF HOST!Expected, HOST!OkOrWarn, HOST!CheckResult, CHECKS!CheckResult, Row, Graded
  <1>8. List(g) /\ \A r : r \in ToSet(g)
            <=> r = Row("host", h.IP, "firewalld", Graded(h.Firewalld \in {"inactive", "N/A"}))
    BY OneRow
       DEF HOST!Expected, HOST!OkOrWarn, HOST!CheckResult, CHECKS!CheckResult, Row, Graded
  <1>9. List(k) /\ \A r : r \in ToSet(k)
            <=> r = Row("host", h.IP, "chronyd", Graded(h.Chronyd \in {"active", "N/A"}))
    BY OneRow
       DEF HOST!Expected, HOST!OkOrWarn, HOST!CheckResult, CHECKS!CheckResult, Row, Graded
  <1> HIDE DEF fine
  <1>10. List(l) /\ \A r : r \in ToSet(l)
            <=> r = Row("host", h.IP, "load_average", Graded(fine))
    BY OneRow DEF HOST!OkOrWarn, HOST!CheckResult, CHECKS!CheckResult, Row, Graded
  <1>11. /\ ofDisks = [i \in DOMAIN disks |-> ofDisks[i]]
         /\ ofInodes = [i \in DOMAIN inodes |-> ofInodes[i]]
    OBVIOUS
  <1> HIDE DEF ofDisks, ofInodes, a, b, e, f, g, k, l, Rule
  <1>12. List(c) /\ \A r : r \in ToSet(c) <=> \E i \in DOMAIN disks : r \in ToSet(ofDisks[i])
    BY <1>4, <1>11, Blocks
  <1>13. List(d) /\ \A r : r \in ToSet(d) <=> \E i \in DOMAIN inodes : r \in ToSet(ofInodes[i])
    BY <1>5, <1>11, Blocks
  <1>14. \A r : r \in ToSet(c) <=> \E i \in DOMAIN disks :
                r = Row("host", h.IP, "disk", Graded(disks[i] < t["disk"]))
    BY <1>4, <1>12, Zenon
  <1>15. \A r : r \in ToSet(d) <=> \E i \in DOMAIN inodes :
                r = Row("host", h.IP, "inode", Graded(inodes[i] < t["inode"]))
    BY <1>5, <1>13, Zenon
  <1> HIDE DEF c, d, disks, inodes
  <1>16. /\ List(a) /\ List(b) /\ List(c) /\ List(d) /\ List(e) /\ List(f) /\ List(g)
         /\ List(k) /\ List(l)
    BY <1>2, <1>3, <1>6, <1>7, <1>8, <1>9, <1>10, <1>12, <1>13
  <1> DEFINE s == a \o b \o c
             u == s \o d \o e
             v == u \o f \o g
  <1>17. List(s) /\ \A r : r \in ToSet(s) <=> r \in ToSet(a) \/ r \in ToSet(b) \/ r \in ToSet(c)
    BY <1>16, Joined3
  <1> HIDE DEF s
  <1>18. List(u) /\ \A r : r \in ToSet(u) <=> r \in ToSet(s) \/ r \in ToSet(d) \/ r \in ToSet(e)
    BY <1>16, <1>17, Joined3
  <1> HIDE DEF u
  <1>19. List(v) /\ \A r : r \in ToSet(v) <=> r \in ToSet(u) \/ r \in ToSet(f) \/ r \in ToSet(g)
    BY <1>16, <1>18, Joined3
  <1> HIDE DEF v
  <1>20. /\ List(v \o k \o l)
         /\ \A r : r \in ToSet(v \o k \o l) <=> r \in ToSet(v) \/ r \in ToSet(k) \/ r \in ToSet(l)
    BY <1>16, <1>19, Joined3
  <1>21. HOST!CheckHost(h, t) = v \o k \o l
    BY <1>1 DEF s, u, v
  <1>22. ASSUME NEW r PROVE r \in ToSet(HOST!CheckHost(h, t)) <=> HostRow(h, t, r)
    <2>1. r \in ToSet(HOST!CheckHost(h, t)) <=>
            \/ r \in ToSet(a) \/ r \in ToSet(b) \/ r \in ToSet(c) \/ r \in ToSet(d)
            \/ r \in ToSet(e) \/ r \in ToSet(f) \/ r \in ToSet(g)
            \/ r \in ToSet(k) \/ r \in ToSet(l)
      BY <1>17, <1>18, <1>19, <1>20, <1>21
    <2>2. QED
      BY <2>1, <1>2, <1>3, <1>6, <1>7, <1>8, <1>9, <1>10, <1>14, <1>15, Zenon
         DEF HostRow, fine, disks, inodes
  <1>23. QED
    BY <1>20, <1>21, <1>22

Row4(component, whom, sub, what, status) == CHECKS!CheckResult(<<component, whom, sub, what>>, status)

\* The same for one host of a module, by checker/rules.go.
ServiceRow(s, t, r) ==
    \/ s.Error # "" /\ r = Row("service", s.Module, "collect_error", "notice")
    \/ \E i \in DOMAIN s.Services :
        \/ r = Row4("service", s.Module, s.Services[i].Module, "status",
                    IF s.Services[i].Status = "" THEN "unknown"
                    ELSE Graded(s.Services[i].Status = "active"))
        \/ /\ s.Services[i].HealthzAPI \notin {"", "N/A"}
           /\ r = Row4("service", s.Module, s.Services[i].Module, "healthz",
                       Graded(s.Services[i].HealthzAPI = "ok"))
    \/ /\ s.ContainersUp # 0 \/ s.ContainersExited # 0
       /\ s.ContainersExited > t
       /\ r = Row4("service", s.Module, "docker", "exited", "notice")

LEMMA ServiceRowsOfHost ==
    ASSUME NEW s, List(s.Services), NEW t
    PROVE  /\ List(Svc!ServiceRows(s, t))
           /\ \A r : r \in ToSet(Svc!ServiceRows(s, t)) <=> ServiceRow(s, t, r)
  <1> DEFINE subs == s.Services
             status(n) == <<Row4("service", s.Module, n.Module, "status",
                                 IF n.Status = "" THEN "unknown"
                                 ELSE Graded(n.Status = "active"))>>
             healthz(n) == IF n.HealthzAPI \in {"", "N/A"} THEN <<>>
                           ELSE <<Row4("service", s.Module, n.Module, "healthz",
                                       Graded(n.HealthzAPI = "ok"))>>
             blocks == [i \in DOMAIN subs |-> Svc!CheckService(s.Module, subs[i])]
             a == Svc!CheckServiceCollectError(s)
             b == FlattenSeq(blocks)
             c == Svc!CheckServiceContainers(s, t)
  <1>1. Svc!ServiceRows(s, t) = a \o b \o c
    BY SameFlatten DEF Svc!ServiceRows, Svc!CHECKS!RowsOfEach
  <1>2. List(a) /\ \A r : r \in ToSet(a)
            <=> s.Error # "" /\ r = Row("service", s.Module, "collect_error", "notice")
    BY NoRows, OneRow DEF Svc!CheckServiceCollectError, Svc!CHECKS!RowIf,
       Svc!CHECKS!CheckResult, CHECKS!CheckResult, Row
  <1>3. List(c) /\ \A r : r \in ToSet(c)
            <=> /\ s.ContainersUp # 0 \/ s.ContainersExited # 0
                /\ s.ContainersExited > t
                /\ r = Row4("service", s.Module, "docker", "exited", "notice")
    BY NoRows, OneRow DEF Svc!CheckServiceContainers, Svc!CHECKS!RowIf,
       Svc!CHECKS!CheckResult, CHECKS!CheckResult, Row4
  <1>4. ASSUME NEW i \in DOMAIN subs
        PROVE  List(blocks[i]) /\ \A r : r \in ToSet(blocks[i])
                 <=> \/ r = Row4("service", s.Module, subs[i].Module, "status",
                                 IF subs[i].Status = "" THEN "unknown"
                                 ELSE Graded(subs[i].Status = "active"))
                     \/ /\ subs[i].HealthzAPI \notin {"", "N/A"}
                        /\ r = Row4("service", s.Module, subs[i].Module, "healthz",
                                    Graded(subs[i].HealthzAPI = "ok"))
    <2> DEFINE n == subs[i]
    <2>1. blocks[i] = Svc!CheckService(s.Module, n)
      OBVIOUS
    <2> HIDE DEF n, blocks
    <2>2. Svc!CheckService(s.Module, n) = status(n) \o healthz(n)
      BY DEF Svc!CheckService, Svc!CHECKS!OkOrWarn, Svc!CHECKS!CheckResult,
             CHECKS!CheckResult, Row4, Graded
    <2>3. List(status(n)) /\ \A r : r \in ToSet(status(n))
            <=> r = Row4("service", s.Module, n.Module, "status",
                         IF n.Status = "" THEN "unknown" ELSE Graded(n.Status = "active"))
      <3> DEFINE row == Row4("service", s.Module, n.Module, "status",
                             IF n.Status = "" THEN "unknown" ELSE Graded(n.Status = "active"))
      <3>1. status(n) = <<row>>
        OBVIOUS
      <3>2. List(<<row>>) /\ ToSet(<<row>>) = {row}
        BY OneRow
      <3> HIDE DEF row, status
      <3>3. List(status(n)) /\ \A r : r \in ToSet(status(n)) <=> r = row
        BY <3>1, <3>2
      <3>4. QED
        BY <3>3, Zenon DEF row
    <2>4. List(healthz(n)) /\ \A r : r \in ToSet(healthz(n))
            <=> /\ n.HealthzAPI \notin {"", "N/A"}
                /\ r = Row4("service", s.Module, n.Module, "healthz", Graded(n.HealthzAPI = "ok"))
      BY NoRows, OneRow
    <2> HIDE DEF status, healthz
    <2>5. List(status(n)) /\ List(healthz(n))
      BY <2>3, <2>4
    <2>6. List(blocks[i]) /\ ToSet(blocks[i]) = ToSet(status(n)) \cup ToSet(healthz(n))
      BY <2>1, <2>2, <2>5, Joined
    <2>7. \A r : r \in ToSet(blocks[i]) <=> r \in ToSet(status(n)) \/ r \in ToSet(healthz(n))
      BY <2>6
    <2>8. QED
      BY <2>3, <2>4, <2>6, <2>7, Zenon DEF n
  <1>5. blocks = [i \in DOMAIN subs |-> blocks[i]]
    OBVIOUS
  <1> HIDE DEF a, c, blocks
  <1>6. List(b) /\ \A r : r \in ToSet(b) <=> \E i \in DOMAIN subs : r \in ToSet(blocks[i])
    BY <1>4, <1>5, Blocks
  <1> HIDE DEF b, subs
  <1>7. List(a) /\ List(b) /\ List(c)
    BY <1>2, <1>3, <1>6
  <1>8. /\ List(a \o b \o c)
        /\ \A r : r \in ToSet(a \o b \o c) <=> r \in ToSet(a) \/ r \in ToSet(b) \/ r \in ToSet(c)
    BY <1>7, Joined3
  <1>9. ASSUME NEW r PROVE r \in ToSet(Svc!ServiceRows(s, t)) <=> ServiceRow(s, t, r)
    BY <1>1, <1>2, <1>3, <1>4, <1>6, <1>8, Zenon DEF ServiceRow, subs
  <1>10. QED
    BY <1>1, <1>8, <1>9

-----------------------------------------------------------------------------
(* The lists in the report *)

\* Keep, of each of the modules that use it.
LEMMA HostKept ==
    ASSUME NEW list, List(list), NEW paths, NEW nfs
    PROVE  List(HOST!parseDiskUsage(list, paths, nfs))
  <1> DEFINE Test(fs) == fs # "pseudo" /\ IF paths # {} THEN fs \in paths
                                          ELSE HOST!shouldCollectFs(fs, nfs)
             keep == {fs \in ToSet(list) : Test(fs)}
             blocks == [i \in DOMAIN list |-> IF list[i] \in keep THEN <<list[i]>> ELSE <<>>]
  <1>1. \A i \in DOMAIN list : list[i] \in keep <=> Test(list[i])
    BY Positions
  <1>2. HOST!parseDiskUsage(list, paths, nfs)
        = HOST!FlattenSeq([i \in DOMAIN list |-> IF Test(list[i]) THEN <<list[i]>> ELSE <<>>])
    BY DEF HOST!parseDiskUsage, HOST!Keep
  <1> HIDE DEF Test, keep
  <1>3. HOST!parseDiskUsage(list, paths, nfs) = FlattenSeq(blocks)
    BY <1>1, <1>2, SameFlatten
  <1>4. blocks = [i \in DOMAIN list |-> IF list[i] \in keep THEN <<list[i]>> ELSE <<>>]
    OBVIOUS
  <1> HIDE DEF blocks
  <1>5. QED
    BY <1>3, <1>4, Filtered

LEMMA MetricsAre ==
    ASSUME NEW ip, NEW a \in HOST!HostAnswers
    PROVE  LET h == HOST!parseHostOutput(ip, a, cfg)
           IN  h.IP = ip /\ List(h.DiskUsage) /\ List(h.InodeUsage)
  <1> DEFINE h == HOST!parseHostOutput(ip, a, cfg)
             kept == HOST!parseDiskUsage(a.mounts, cfg.paths, cfg.nfs)
  <1>1. List(a.mounts)
    <2>1. a.mounts \in {<<"real">>, <<"pseudo", "nfs">>, <<"unlisted", "real", "nfs">>}
      BY DEF HOST!HostAnswers
    <2>2. QED
      BY <2>1 DEF List, ToSet
  <1>2. List(kept)
    BY <1>1, HostKept
  <1>3. h.IP = ip
    BY DEF HOST!parseHostOutput
  <1>4. \/ h.DiskUsage = <<>>
        \/ h.DiskUsage = [i \in DOMAIN kept |-> IF a.odd = "disk" THEN cfg.Thresholds["disk"] ELSE 0]
    BY DEF HOST!parseHostOutput
  <1>5. \/ h.InodeUsage = <<>>
        \/ h.InodeUsage = [i \in DOMAIN kept |-> IF a.odd = "inode" THEN cfg.Thresholds["inode"] ELSE 0]
    BY DEF HOST!parseHostOutput
  <1> HIDE DEF h, kept
  <1>6. List(h.DiskUsage)
    BY <1>2, <1>4, NoRows, Mapped
  <1>7. List(h.InodeUsage)
    BY <1>2, <1>5, NoRows, Mapped
  <1>8. QED
    BY <1>3, <1>6, <1>7 DEF h

LEMMA EntriesAre ==
    ASSUME NEW e \in SvcProofs!Entries
    PROVE  List(e.Services)
  <1>1. PICK m, h, r : e = Svc!collectServiceOnHost(m, h, r)
    BY SameEntry DEF SvcProofs!Entries
  <1>2. List(Svc!ModuleRegistry(m))
    <2>1. \/ \E x : Svc!ModuleRegistry(m) = <<x>>
          \/ \E x, y : Svc!ModuleRegistry(m) = <<x, y>>
      BY Zenon DEF Svc!ModuleRegistry
    <2>2. \A x, y : List(<<x, y>>)
      BY DEF List, ToSet
    <2>3. QED
      BY <2>1, <2>2, OneRow
  <1>3. e.Services = <<>>
        \/ e.Services = [i \in DOMAIN Svc!ModuleRegistry(m) |-> e.Services[i]]
    BY <1>1 DEF Svc!collectServiceOnHost
  <1>4. QED
    BY <1>2, <1>3, NoRows, Mapped

LEMMA MembersAre ==
    ASSUME NEW a \in DB!MongoAnswers
    PROVE  List(DB!CollectMongo(a).Members)
  <1>1. a.members = <<>> \/ a.members \in [1 .. 2 -> {0, 1}]
    BY DEF DB!MongoAnswers
  <1>2. List(a.members)
    BY <1>1, NoRows, Tabulated
  <1>3. QED
    BY <1>2 DEF DB!CollectMongo

LEMMA ReplicasAre ==
    ASSUME Loaded, NEW a
    PROVE  LET rep == REP!CollectReplication(cfg, a)
           IN  List(rep.MySQLMasters) /\ List(rep.MySQLSlaves) /\ List(rep.RedisNodes)
  <1> DEFINE rep == REP!CollectReplication(cfg, a)
             ms == [i \in DOMAIN cfg.hosts["redis_master"] |->
                       REP!collectRedisReplication(cfg.hosts["redis_master"][i],
                            a["redis_master"][i], "master", cfg.Thresholds["redis_io"])]
             ss == [i \in DOMAIN cfg.hosts["redis_slave"] |->
                       REP!collectRedisReplication(cfg.hosts["redis_slave"][i],
                            a["redis_slave"][i], "slave", cfg.Thresholds["redis_io"])]
  <1>1. \A l \in ReplicationLists : List(cfg.hosts[l])
    BY LoadedLists, NamedLists
  <1>2. {"mysql_master", "mysql_slave", "redis_master", "redis_slave"} = ReplicationLists
    BY DEF ReplicationLists
  <1>3. rep.RedisNodes = ms \o ss
    BY DEF REP!CollectReplication
  <1>4. List(ms) /\ List(ss)
    BY <1>1, <1>2, Mapped
  <1>5. List(rep.RedisNodes)
    BY <1>3, <1>4, Joined
  <1>6. rep.MySQLMasters = [i \in DOMAIN cfg.hosts["mysql_master"] |-> rep.MySQLMasters[i]]
    BY DEF REP!CollectReplication
  <1>7. rep.MySQLSlaves = [i \in DOMAIN cfg.hosts["mysql_slave"] |-> rep.MySQLSlaves[i]]
    BY DEF REP!CollectReplication
  <1> HIDE DEF rep
  <1>8. List(rep.MySQLMasters) /\ List(rep.MySQLSlaves)
    BY <1>1, <1>2, <1>6, <1>7, Mapped
  <1>9. QED
    BY <1>5, <1>8 DEF rep

LEMMA BrokerKept ==
    ASSUME NEW list, List(list), NEW keep, NEW kept,
           kept = MQ!FlattenSeq([i \in DOMAIN list |->
                        IF list[i] \in keep THEN <<list[i]>> ELSE <<>>])
    PROVE  List(kept) /\ ToSet(kept) = ToSet(list) \cap keep
  <1> DEFINE blocks == [i \in DOMAIN list |-> IF list[i] \in keep THEN <<list[i]>> ELSE <<>>]
  <1>1. kept = FlattenSeq(blocks)
    BY SameFlatten
  <1>2. blocks = [i \in DOMAIN list |-> IF list[i] \in keep THEN <<list[i]>> ELSE <<>>]
    OBVIOUS
  <1> HIDE DEF blocks
  <1>3. List(FlattenSeq(blocks)) /\ ToSet(FlattenSeq(blocks)) = ToSet(list) \cap keep
    BY ONLY List(list), <1>2, Filtered
  <1>4. QED
    BY <1>1, <1>3

\* What the broker's section is made of.
LEMMA BrokerSection ==
    ASSUME NEW a \in MQ!BrokerAnswers(VHosts), NEW q, q = MQ!CollectRabbitMQ(a, cfg)
    PROVE  LET asked == a.nodes.err = ""
               backlog == cfg.Thresholds["backlog"]
           IN  /\ q.Error = a.nodes.err
               /\ q.QueuesError = IF asked THEN a.queues.err ELSE ""
               /\ q.ClusterPartition <=> \E n \in ToSet(a.nodes.list) : n.partitions
               /\ q.AbnormalConnections > 0
                    <=> asked /\ \E s \in ToSet(a.conns.list) : s \notin {"running", ""}
               /\ List(q.NodeAlarms)
               /\ ToSet(q.NodeAlarms)
                    = {n \in ToSet(a.nodes.list) : n.mem_alarm \/ n.disk_free_alarm}
               /\ List(q.ExceedingQueues)
               /\ ToSet(q.ExceedingQueues) = {e \in ToSet(a.queues.list) :
                                                asked /\ e.usual /\ MQ!Exceeding(e, backlog)}
               /\ List(q.NoConsumerQueues)
               /\ ToSet(q.NoConsumerQueues) = {e \in ToSet(a.queues.list) :
                                                asked /\ e.usual /\ MQ!Unconsumed(e, cfg.vhosts)}
  <1> DEFINE asked == a.nodes.err = ""
             backlog == cfg.Thresholds["backlog"]
             nodes == a.nodes.list
             conns == IF asked THEN a.conns.list ELSE <<>>
             all == IF asked THEN a.queues.list ELSE <<>>
             usual == MQ!FlattenSeq([i \in DOMAIN all |->
                                        IF all[i].usual THEN <<all[i]>> ELSE <<>>])
  <1>1. List(a.nodes.list) /\ List(a.conns.list) /\ List(a.queues.list)
    <2>1. ASSUME NEW S, NEW c \in MQ!Api(S) PROVE List(c.list)
      <3>1. c.list = <<>> \/ \E e : c.list = <<e>>
        BY DEF MQ!Api
      <3>2. CASE c.list = <<>>
        BY <3>2, NoRows
      <3>3. CASE \E e : c.list = <<e>>
        <4>1. PICK e : c.list = <<e>>
          BY <3>3
        <4> DEFINE one == <<e>>
        <4>2. List(one) /\ c.list = one
          BY <4>1, OneRow
        <4> HIDE DEF one
        <4>3. QED
          BY <4>2
      <3>4. QED
        BY <3>1, <3>2, <3>3
    <2>2. a.nodes \in MQ!Api(MQ!NodeViews) /\ a.conns \in MQ!Api({"running", "blocked", ""})
          /\ a.queues \in MQ!Api(MQ!QueueViews(VHosts))
      BY DEF MQ!BrokerAnswers
    <2>3. QED
      BY <2>1, <2>2
  <1>2. /\ q.Error = a.nodes.err
        /\ q.QueuesError = IF asked THEN a.queues.err ELSE ""
        /\ q.ClusterPartition = \E n \in MQ!ToSet(nodes) : n.partitions
        /\ q.AbnormalConnections = Len(MQ!FlattenSeq([i \in DOMAIN conns |->
                IF conns[i] \notin {"running", ""} THEN <<conns[i]>> ELSE <<>>]))
        /\ q.NodeAlarms = MQ!FlattenSeq([i \in DOMAIN nodes |->
                IF nodes[i].mem_alarm \/ nodes[i].disk_free_alarm THEN <<nodes[i]>> ELSE <<>>])
        /\ q.ExceedingQueues = MQ!FlattenSeq([i \in DOMAIN usual |->
                IF MQ!Exceeding(usual[i], backlog) THEN <<usual[i]>> ELSE <<>>])
        /\ q.NoConsumerQueues = MQ!FlattenSeq([i \in DOMAIN usual |->
                IF MQ!Unconsumed(usual[i], cfg.vhosts) THEN <<usual[i]>> ELSE <<>>])
    BY DEF MQ!CollectRabbitMQ, MQ!Keep, MQ!NoError
  <1>3. List(conns) /\ List(all) /\ List(nodes)
        /\ ToSet(all) = {e \in ToSet(a.queues.list) : asked}
        /\ ToSet(conns) = {s \in ToSet(a.conns.list) : asked}
    BY <1>1, NoRows
  <1>4. MQ!ToSet(nodes) = ToSet(nodes)
    BY DEF MQ!ToSet, ToSet
  <1> HIDE DEF conns, all, nodes, asked
  <1>5. List(usual) /\ ToSet(usual) = {e \in ToSet(all) : e.usual}
    <2> DEFINE keep == {e \in ToSet(all) : e.usual}
    <2>1. \A i \in DOMAIN all : all[i] \in keep <=> all[i].usual
      BY <1>3, Positions
    <2> HIDE DEF keep
    <2>2. usual = MQ!FlattenSeq([i \in DOMAIN all |->
                        IF all[i] \in keep THEN <<all[i]>> ELSE <<>>])
      BY <2>1
    <2> HIDE DEF usual
    <2>3. List(usual) /\ ToSet(usual) = ToSet(all) \cap keep
      BY <1>3, <2>2, BrokerKept
    <2>4. QED
      BY <2>3 DEF keep
  <1> HIDE DEF usual
  <1>6. q.AbnormalConnections > 0 <=> \E s \in ToSet(conns) : s \notin {"running", ""}
    <2> DEFINE keep == {s \in ToSet(conns) : s \notin {"running", ""}}
               kept == MQ!FlattenSeq([i \in DOMAIN conns |->
                            IF conns[i] \in keep THEN <<conns[i]>> ELSE <<>>])
    <2>1. \A i \in DOMAIN conns : conns[i] \in keep <=> conns[i] \notin {"running", ""}
      BY <1>3, Positions
    <2> HIDE DEF keep
    <2>2. q.AbnormalConnections = Len(kept)
      BY <1>2, <2>1
    <2>3. List(kept) /\ ToSet(kept) = ToSet(conns) \cap keep
      BY <1>3, BrokerKept
    <2> HIDE DEF kept
    <2>4. q.AbnormalConnections > 0 <=> ToSet(conns) \cap keep # {}
      BY <2>2, <2>3, NoElement
    <2>5. QED
      BY <2>4 DEF keep
  <1>7. List(q.NodeAlarms)
        /\ ToSet(q.NodeAlarms) = {n \in ToSet(nodes) : n.mem_alarm \/ n.disk_free_alarm}
    <2> DEFINE keep == {n \in ToSet(nodes) : n.mem_alarm \/ n.disk_free_alarm}
    <2>1. \A i \in DOMAIN nodes :
            nodes[i] \in keep <=> nodes[i].mem_alarm \/ nodes[i].disk_free_alarm
      BY <1>3, Positions
    <2> HIDE DEF keep
    <2>2. q.NodeAlarms = MQ!FlattenSeq([i \in DOMAIN nodes |->
                            IF nodes[i] \in keep THEN <<nodes[i]>> ELSE <<>>])
      BY <1>2, <2>1
    <2>3. List(q.NodeAlarms) /\ ToSet(q.NodeAlarms) = ToSet(nodes) \cap keep
      BY <1>3, <2>2, BrokerKept
    <2>4. QED
      BY <2>3 DEF keep
  <1>8. List(q.ExceedingQueues)
        /\ ToSet(q.ExceedingQueues) = {e \in ToSet(all) : e.usual /\ MQ!Exceeding(e, backlog)}
    <2> DEFINE keep == {e \in ToSet(usual) : MQ!Exceeding(e, backlog)}
    <2>1. \A i \in DOMAIN usual : usual[i] \in keep <=> MQ!Exceeding(usual[i], backlog)
      BY <1>5, Positions
    <2> HIDE DEF keep
    <2>2. q.ExceedingQueues = MQ!FlattenSeq([i \in DOMAIN usual |->
                IF usual[i] \in keep THEN <<usual[i]>> ELSE <<>>])
      BY <1>2, <2>1
    <2>3. List(q.ExceedingQueues) /\ ToSet(q.ExceedingQueues) = ToSet(usual) \cap keep
      BY <1>5, <2>2, BrokerKept
    <2>4. QED
      BY <1>5, <2>3 DEF keep
  <1>9. List(q.NoConsumerQueues)
        /\ ToSet(q.NoConsumerQueues) = {e \in ToSet(all) : e.usual /\ MQ!Unconsumed(e, cfg.vhosts)}
    <2> DEFINE keep == {e \in ToSet(usual) : MQ!Unconsumed(e, cfg.vhosts)}
    <2>1. \A i \in DOMAIN usual : usual[i] \in keep <=> MQ!Unconsumed(usual[i], cfg.vhosts)
      BY <1>5, Positions
    <2> HIDE DEF keep
    <2>2. q.NoConsumerQueues = MQ!FlattenSeq([i \in DOMAIN usual |->
                IF usual[i] \in keep THEN <<usual[i]>> ELSE <<>>])
      BY <1>2, <2>1
    <2>3. List(q.NoConsumerQueues) /\ ToSet(q.NoConsumerQueues) = ToSet(usual) \cap keep
      BY <1>5, <2>2, BrokerKept
    <2>4. QED
      BY <1>5, <2>3 DEF keep
  <1>10. QED
    BY <1>2, <1>3, <1>4, <1>6, <1>7, <1>8, <1>9 DEF nodes, asked

\* The rows of each step, explained by what was collected.
FromHosts(r) ==
    \E i \in DOMAIN report["hosts"] : HostRow(report["hosts"][i], cfg.Thresholds, r)

FromServices(r) ==
    \E m \in DOMAIN results : \E k \in DOMAIN results[m] :
        ServiceRow(results[m][k], cfg.Thresholds["docker_exited"], r)

FromComponents(r) ==
    \/ cfg.hosts["es7"] # <<>> /\ ESRow(cluster, cfg.hosts["es7"], cfg.Thresholds, r)
    \/ \E i \in DOMAIN report["redis"] : \E k \in DOMAIN report["redis"][i] :
        RedisRow(report["redis"][i][k], cfg.Thresholds, r)
    \/ \E i \in DOMAIN report["sentinel"] : SentinelRow(report["sentinel"][i], r)
    \/ \E i \in DOMAIN report["mongo"] : MongoRow(report["mongo"][i], r)
    \/ \E i \in DOMAIN report["rabbitmq"] : BrokerRow(report["rabbitmq"][i], r)
    \/ \E i \in DOMAIN dependencies : DependencyRow(dependencies[i], r)
    \/ \E i \in DOMAIN report["replication"] : ReplicationRow(report["replication"][i], r)

Explained(r) ==
    \/ stage \in PastHosts /\ FromHosts(r)
    \/ stage \in PastServices /\ FromServices(r)
    \/ stage = "done" /\ FromComponents(r)

\* The rows are those that the collected explain, and no others.
RowsInv == List(checks) /\ \A r : r \in ToSet(checks) <=> Explained(r)

\* All that is known of the rest.
Facts == Loaded /\ Collected /\ EsInv /\ EsTold /\ DepInv /\ DepTold /\ SvcProofs!IInv

LEMMA ServicesAlways == Spec => []SvcProofs!IInv
  BY CollectsServices, SvcProofs!Invariance, PTL

LEMMA FactsAlways == Spec => []Facts
  <1>1. Loaded /\ Collected /\ EsInv /\ EsTold /\ DepInv /\ DepTold /\ SvcProofs!IInv => Facts
    BY DEF Facts
  <1>2. QED
    BY <1>1, LoadedAlways, CollectedAlways, EsToldAlways, DepAlways, DepToldAlways,
       ServicesAlways, PTL

-----------------------------------------------------------------------------
(* The steps that add rows *)

LEMMA HostsChecked ==
    ASSUME NEW metrics, List(metrics), NEW t,
           \A i \in DOMAIN metrics : List(metrics[i].DiskUsage) /\ List(metrics[i].InodeUsage),
           NEW rows, rows = FlattenSeq([i \in DOMAIN metrics |-> HOST!CheckHost(metrics[i], t)])
    PROVE  /\ List(rows)
           /\ \A r : r \in ToSet(rows) <=> \E i \in DOMAIN metrics : HostRow(metrics[i], t, r)
  <1> DEFINE blocks == [i \in DOMAIN metrics |-> HOST!CheckHost(metrics[i], t)]
  <1>1. ASSUME NEW i \in DOMAIN metrics
        PROVE  List(blocks[i]) /\ \A r : r \in ToSet(blocks[i]) <=> HostRow(metrics[i], t, r)
    BY HostRows
  <1>2. blocks = [i \in DOMAIN metrics |-> blocks[i]] /\ rows = FlattenSeq(blocks)
    OBVIOUS
  <1> HIDE DEF blocks
  <1>3. /\ List(rows)
        /\ \A r : r \in ToSet(rows) <=> \E i \in DOMAIN metrics : r \in ToSet(blocks[i])
    BY <1>1, <1>2, Blocks
  <1>4. QED
    BY <1>1, <1>3, Zenon

LEMMA EntriesChecked ==
    ASSUME NEW entries, List(entries), \A k \in DOMAIN entries : List(entries[k].Services),
           NEW t, NEW rows,
           rows = FlattenSeq([k \in DOMAIN entries |-> Svc!ServiceRows(entries[k], t)])
    PROVE  /\ List(rows)
           /\ \A r : r \in ToSet(rows) <=> \E k \in DOMAIN entries : ServiceRow(entries[k], t, r)
  <1> DEFINE blocks == [k \in DOMAIN entries |-> Svc!ServiceRows(entries[k], t)]
  <1>1. ASSUME NEW k \in DOMAIN entries
        PROVE  List(blocks[k]) /\ \A r : r \in ToSet(blocks[k]) <=> ServiceRow(entries[k], t, r)
    BY ServiceRowsOfHost
  <1>2. blocks = [k \in DOMAIN entries |-> blocks[k]] /\ rows = FlattenSeq(blocks)
    OBVIOUS
  <1> HIDE DEF blocks
  <1>3. /\ List(rows)
        /\ \A r : r \in ToSet(rows) <=> \E k \in DOMAIN entries : r \in ToSet(blocks[k])
    BY <1>1, <1>2, Blocks
  <1>4. QED
    BY <1>1, <1>3, Zenon

\* The rows of the entries of a module.
RowsOf(m) == FlattenSeq([k \in DOMAIN results[m] |->
                            Svc!ServiceRows(results[m][k], cfg.Thresholds["docker_exited"])])

\* The blocks of a set's elements, each once, in some order behind a first.
InSomeOrder(rows, S, base, block) ==
    \E pick, f : Picks(pick, S) /\ JoinsWith(f, S, pick, base, block) /\ rows = f[S]

\* The modules are gone through in some order, each once.
LEMMA ServicesJoined ==
    ASSUME List(checks), IsFiniteSet(DOMAIN results), CheckServices,
           \A m \in DOMAIN results : List(RowsOf(m))
    PROVE  InSomeOrder(checks', DOMAIN results, checks, [m \in DOMAIN results |-> RowsOf(m)])
  <1> DEFINE t == cfg.Thresholds["docker_exited"]
             S == DOMAIN results
             block == [m \in S |-> RowsOf(m)]
             pick == [s \in SUBSET S |-> CHOOSE m \in s : TRUE]
             RowsFrom(e) == Svc!ServiceRows(e, t)
             Body(g, s) == IF s = {} THEN checks
                           ELSE LET m == CHOOSE x \in s : TRUE
                                IN  g[s \ {m}] \o CHECKS!RowsOfEach(results[m], RowsFrom)
             f == CHOOSE g : g = [s \in SUBSET S |-> Body(g, s)]
  <1>1. \A m \in S : List(block[m])
    OBVIOUS
  <1>2. Picks(pick, S)
    BY DEF Picks
  <1>3. checks' = f[S]
    BY Zenon DEF CheckServices, CHECKS!FoldSet, CHECKS!MapThenFoldSet
  <1>4. ASSUME NEW g, NEW s \in SUBSET S
        PROVE  Body(g, s) = IF s = {} THEN checks ELSE g[s \ {pick[s]}] \o block[pick[s]]
    <2>1. CASE s = {}
      BY <2>1
    <2>2. CASE s # {}
      <3> DEFINE m == CHOOSE x \in s : TRUE
      <3>1. pick[s] = m /\ m \in S
        BY <2>2
      <3>2. CHECKS!RowsOfEach(results[m], RowsFrom) = block[m]
        <4> DEFINE rowsOf == [k \in DOMAIN results[m] |-> Svc!ServiceRows(results[m][k], t)]
        <4>1. CHECKS!RowsOfEach(results[m], RowsFrom) = CHECKS!FlattenSeq(rowsOf)
          BY Zenon DEF CHECKS!RowsOfEach
        <4>2. block[m] = FlattenSeq(rowsOf)
          BY <3>1 DEF RowsOf
        <4> HIDE DEF rowsOf, block
        <4>3. QED
          BY <4>1, <4>2, SameFlatten
      <3> HIDE DEF block, pick
      <3>3. Body(g, s) = g[s \ {m}] \o CHECKS!RowsOfEach(results[m], RowsFrom)
        BY <2>2
      <3> HIDE DEF Body, m
      <3>4. QED
        BY <2>2, <3>1, <3>2, <3>3
    <2>3. QED
      BY <2>1, <2>2
  <1> HIDE DEF pick, Body
  <1>5. \E g : g = [s \in SUBSET S |-> Body(g, s)]
    <2> HIDE DEF block
    <2>1. PICK g : g = [s \in SUBSET S |-> g[s]] /\ JoinsWith(g, S, pick, checks, block)
      <3>1. IsFiniteSet(S)
        OBVIOUS
      <3> HIDE DEF S
      <3>2. QED
        BY ONLY <1>1, <1>2, <3>1, List(checks), JoinExists
    <2>2. g = [s \in SUBSET S |-> Body(g, s)]
      BY <1>4, <2>1 DEF JoinsWith
    <2>3. QED
      BY <2>2, Zenon
  <1>6. f = [s \in SUBSET S |-> Body(f, s)]
    BY <1>5, Zenon
  <1> HIDE DEF f
  <1>7. JoinsWith(f, S, pick, checks, block)
    <2> HIDE DEF block
    <2>1. QED
      BY <1>4, <1>6 DEF JoinsWith
  <1>8. QED
    BY <1>2, <1>3, <1>7, Zenon DEF InSomeOrder

\* Each row of an entry is there, and no other is added.
LEMMA ServicesChecked ==
    ASSUME List(checks), IsFiniteSet(DOMAIN results), CheckServices,
           \A m \in DOMAIN results : /\ List(results[m])
                                     /\ \A k \in DOMAIN results[m] : List(results[m][k].Services)
    PROVE  /\ List(checks')
           /\ \A r : r \in ToSet(checks') <=> r \in ToSet(checks) \/ FromServices(r)
  <1> DEFINE t == cfg.Thresholds["docker_exited"]
             S == DOMAIN results
             block == [m \in S |-> RowsOf(m)]
  <1>1. ASSUME NEW m \in S
        PROVE  /\ List(RowsOf(m))
               /\ \A r : r \in ToSet(RowsOf(m))
                         <=> \E k \in DOMAIN results[m] : ServiceRow(results[m][k], t, r)
    BY EntriesChecked DEF RowsOf
  <1>2. PICK pick, f : Picks(pick, S) /\ JoinsWith(f, S, pick, checks, block) /\ checks' = f[S]
    BY <1>1, ServicesJoined, Zenon DEF InSomeOrder
  <1>3. \A m \in S : block[m] = RowsOf(m)
    OBVIOUS
  <1> HIDE DEF block
  <1>4. /\ List(f[S])
        /\ \A r : r \in ToSet(f[S]) <=> r \in ToSet(checks) \/ \E m \in S : r \in ToSet(block[m])
    <2>1. IsFiniteSet(S) /\ \A m \in S : List(block[m])
      BY <1>1, <1>3
    <2> HIDE DEF S
    <2>2. QED
      BY ONLY <1>2, <2>1, List(checks), JoinInduction
  <1>5. QED
    BY <1>1, <1>2, <1>3, <1>4, Zenon DEF FromServices

LEMMA SentinelsAre ==
    ASSUME NEW list, List(list), NEW a, NEW masters
    PROVE  List(DB!RedisSentinelSection(list, a, masters).Sentinels)
  <1> DEFINE s == DB!RedisSentinelSection(list, a, masters)
  <1>1. s.Sentinels = [i \in DOMAIN list |-> DB!pingSentinel(list[i], a.pong[i])]
    BY DEF DB!RedisSentinelSection, DB!CollectRedisSentinel
  <1> HIDE DEF s
  <1>2. List(s.Sentinels)
    BY <1>1, Mapped
  <1>3. QED
    BY <1>2 DEF s

LEMMA NodesAre ==
    ASSUME NEW list, List(list), NEW a
    PROVE  List(DB!CollectRedisStandalone(list, a))
  <1> DEFINE nodes == [i \in DOMAIN list |-> DB!RedisNode(list[i], a[i])]
  <1>1. DB!CollectRedisStandalone(list, a) = nodes
    BY DEF DB!CollectRedisStandalone, DB!EachNode
  <1>2. List(nodes)
    BY Mapped
  <1>3. QED
    BY <1>1, <1>2

\* Nil, or one section.
LEMMA SectionOrNil ==
    ASSUME NEW list, NEW v
    PROVE  /\ List(Unless(list, v))
           /\ \A i \in DOMAIN Unless(list, v) : Unless(list, v)[i] = v
  BY NoRows, OneRow DEF Unless

\* The sections of the report are made of lists.
LEMMA SectionLists ==
    ASSUME Facts, stage \in PastReplication
    PROVE  /\ List(report["redis"]) /\ \A i \in DOMAIN report["redis"] : List(report["redis"][i])
           /\ List(report["sentinel"])
           /\ \A i \in DOMAIN report["sentinel"] : List(report["sentinel"][i].Sentinels)
           /\ List(report["mongo"])
           /\ \A i \in DOMAIN report["mongo"] : List(report["mongo"][i].Members)
           /\ List(report["rabbitmq"])
           /\ \A i \in DOMAIN report["rabbitmq"] :
                LET q == report["rabbitmq"][i]
                IN  List(q.NodeAlarms) /\ List(q.ExceedingQueues) /\ List(q.NoConsumerQueues)
           /\ List(report["replication"])
           /\ \A i \in DOMAIN report["replication"] :
                LET p == report["replication"][i]
                IN  List(p.MySQLMasters) /\ List(p.MySQLSlaves) /\ List(p.RedisNodes)
           /\ List(dependencies)
  <1>1. /\ RedisCollected /\ SentinelCollected /\ MongoCollected /\ BrokerCollected
        /\ ReplicationCollected
    BY DEF Facts, Collected, PastRedis, PastSentinel, PastMongo, PastBroker
  <1>2. List(cfg.hosts["redis"]) /\ List(cfg.hosts["sentinel"])
    BY LoadedLists, NamedLists DEF Facts
  <1>3. List(report["redis"]) /\ \A i \in DOMAIN report["redis"] : List(report["redis"][i])
    <2> DEFINE v == DB!CollectRedisStandalone(cfg.hosts["redis"], answers["redis"])
    <2>1. report["redis"] = Unless("redis", v)
      BY <1>1 DEF RedisCollected
    <2>2. List(v)
      BY <1>2, NodesAre
    <2> HIDE DEF v
    <2>3. QED
      BY <2>1, <2>2, SectionOrNil
  <1>4. List(report["sentinel"])
        /\ \A i \in DOMAIN report["sentinel"] : List(report["sentinel"][i].Sentinels)
    <2> DEFINE v == DB!RedisSentinelSection(cfg.hosts["sentinel"], answers["sentinel"],
                                            cfg.hosts["redis_master"])
    <2>1. report["sentinel"] = Unless("sentinel", v)
      BY <1>1 DEF SentinelCollected
    <2>2. List(v.Sentinels)
      BY <1>2, SentinelsAre
    <2> HIDE DEF v
    <2>3. QED
      BY <2>1, <2>2, SectionOrNil
  <1>5. List(report["mongo"])
        /\ \A i \in DOMAIN report["mongo"] : List(report["mongo"][i].Members)
    <2> DEFINE v == DB!CollectMongo(answers["mongo"])
    <2>1. report["mongo"] = Unless("mongodb", v)
      BY <1>1 DEF MongoCollected
    <2>2. List(v.Members)
      BY <1>1, MembersAre DEF MongoCollected
    <2> HIDE DEF v
    <2>3. QED
      BY <2>1, <2>2, SectionOrNil
  <1>6. List(report["rabbitmq"])
        /\ \A i \in DOMAIN report["rabbitmq"] :
                LET q == report["rabbitmq"][i]
                IN  List(q.NodeAlarms) /\ List(q.ExceedingQueues) /\ List(q.NoConsumerQueues)
    <2> DEFINE v == MQ!CollectRabbitMQ(answers["rabbitmq"], cfg)
    <2>1. report["rabbitmq"] = Unless("rabbitmq", v)
      BY <1>1 DEF BrokerCollected
    <2>2. List(v.NodeAlarms) /\ List(v.ExceedingQueues) /\ List(v.NoConsumerQueues)
      BY <1>1, BrokerSection DEF BrokerCollected
    <2> HIDE DEF v
    <2>3. QED
      BY <2>1, <2>2, SectionOrNil
  <1>7. List(report["replication"])
        /\ \A i \in DOMAIN report["replication"] :
                LET p == report["replication"][i]
                IN  List(p.MySQLMasters) /\ List(p.MySQLSlaves) /\ List(p.RedisNodes)
    <2> DEFINE v == REP!CollectReplication(cfg, answers["replication"])
    <2>1. report["replication"] = <<>> \/ report["replication"] = <<v>>
      BY <1>1 DEF ReplicationCollected
    <2>2. List(v.MySQLMasters) /\ List(v.MySQLSlaves) /\ List(v.RedisNodes)
      BY ReplicasAre DEF Facts
    <2> DEFINE one == <<v>>
    <2>3. List(one) /\ \A i \in DOMAIN one : one[i] = v
      BY OneRow
    <2> HIDE DEF v, one
    <2>4. report["replication"] = <<>> \/ report["replication"] = one
      BY <2>1 DEF one
    <2>5. QED
      BY <2>2, <2>3, <2>4, NoRows
  <1>8. List(dependencies)
    BY ListOf DEF Facts, DepInv
  <1>9. QED
    BY <1>3, <1>4, <1>5, <1>6, <1>7, <1>8

LEMMA RedisChecked ==
    ASSUME NEW list, List(list), \A i \in DOMAIN list : List(list[i]), NEW t,
           NEW rows, rows = FlattenSeq([i \in DOMAIN list |-> DB!CheckRedis(list[i], t)])
    PROVE  /\ List(rows)
           /\ \A r : r \in ToSet(rows) <=> \E i \in DOMAIN list : \E k \in DOMAIN list[i] : RedisRow(list[i][k], t, r)
  <1> DEFINE blocks == [i \in DOMAIN list |-> DB!CheckRedis(list[i], t)]
  <1>1. ASSUME NEW i \in DOMAIN list
        PROVE  List(blocks[i]) /\ \A r : r \in ToSet(blocks[i]) <=> \E k \in DOMAIN list[i] : RedisRow(list[i][k], t, r)
    BY RedisRows
  <1>2. blocks = [i \in DOMAIN list |-> blocks[i]] /\ rows = FlattenSeq(blocks)
    OBVIOUS
  <1> HIDE DEF blocks
  <1>3. /\ List(rows)
        /\ \A r : r \in ToSet(rows) <=> \E i \in DOMAIN list : r \in ToSet(blocks[i])
    BY <1>1, <1>2, Blocks
  <1>4. QED
    BY <1>1, <1>3, Zenon

LEMMA SentinelChecked ==
    ASSUME NEW list, List(list), \A i \in DOMAIN list : List(list[i].Sentinels),
           NEW rows, rows = FlattenSeq([i \in DOMAIN list |-> DB!CheckRedisSentinel(list[i])])
    PROVE  /\ List(rows)
           /\ \A r : r \in ToSet(rows) <=> \E i \in DOMAIN list : SentinelRow(list[i], r)
  <1> DEFINE blocks == [i \in DOMAIN list |-> DB!CheckRedisSentinel(list[i])]
  <1>1. ASSUME NEW i \in DOMAIN list
        PROVE  List(blocks[i]) /\ \A r : r \in ToSet(blocks[i]) <=> SentinelRow(list[i], r)
    BY SentinelRows
  <1>2. blocks = [i \in DOMAIN list |-> blocks[i]] /\ rows = FlattenSeq(blocks)
    OBVIOUS
  <1> HIDE DEF blocks
  <1>3. /\ List(rows)
        /\ \A r : r \in ToSet(rows) <=> \E i \in DOMAIN list : r \in ToSet(blocks[i])
    BY <1>1, <1>2, Blocks
  <1>4. QED
    BY <1>1, <1>3, Zenon

LEMMA MongoChecked ==
    ASSUME NEW list, List(list), \A i \in DOMAIN list : List(list[i].Members),
           NEW rows, rows = FlattenSeq([i \in DOMAIN list |-> DB!CheckMongo(list[i])])
    PROVE  /\ List(rows)
           /\ \A r : r \in ToSet(rows) <=> \E i \in DOMAIN list : MongoRow(list[i], r)
  <1> DEFINE blocks == [i \in DOMAIN list |-> DB!CheckMongo(list[i])]
  <1>1. ASSUME NEW i \in DOMAIN list
        PROVE  List(blocks[i]) /\ \A r : r \in ToSet(blocks[i]) <=> MongoRow(list[i], r)
    BY MongoRows
  <1>2. blocks = [i \in DOMAIN list |-> blocks[i]] /\ rows = FlattenSeq(blocks)
    OBVIOUS
  <1> HIDE DEF blocks
  <1>3. /\ List(rows)
        /\ \A r : r \in ToSet(rows) <=> \E i \in DOMAIN list : r \in ToSet(blocks[i])
    BY <1>1, <1>2, Blocks
  <1>4. QED
    BY <1>1, <1>3, Zenon

LEMMA BrokerChecked ==
    ASSUME NEW list, List(list),
           \A i \in DOMAIN list : /\ List(list[i].NodeAlarms) /\ List(list[i].ExceedingQueues)
                                  /\ List(list[i].NoConsumerQueues),
           NEW rows, rows = FlattenSeq([i \in DOMAIN list |-> MQ!CheckRabbitMQ(list[i])])
    PROVE  /\ List(rows)
           /\ \A r : r \in ToSet(rows) <=> \E i \in DOMAIN list : BrokerRow(list[i], r)
  <1> DEFINE blocks == [i \in DOMAIN list |-> MQ!CheckRabbitMQ(list[i])]
  <1>1. ASSUME NEW i \in DOMAIN list
        PROVE  List(blocks[i]) /\ \A r : r \in ToSet(blocks[i]) <=> BrokerRow(list[i], r)
    BY BrokerRows
  <1>2. blocks = [i \in DOMAIN list |-> blocks[i]] /\ rows = FlattenSeq(blocks)
    OBVIOUS
  <1> HIDE DEF blocks
  <1>3. /\ List(rows)
        /\ \A r : r \in ToSet(rows) <=> \E i \in DOMAIN list : r \in ToSet(blocks[i])
    BY <1>1, <1>2, Blocks
  <1>4. QED
    BY <1>1, <1>3, Zenon

LEMMA ReplicationChecked ==
    ASSUME NEW list, List(list),
           \A i \in DOMAIN list : /\ List(list[i].MySQLMasters) /\ List(list[i].MySQLSlaves)
                                  /\ List(list[i].RedisNodes),
           NEW rows, rows = FlattenSeq([i \in DOMAIN list |-> REP!CheckReplication(list[i])])
    PROVE  /\ List(rows)
           /\ \A r : r \in ToSet(rows) <=> \E i \in DOMAIN list : ReplicationRow(list[i], r)
  <1> DEFINE blocks == [i \in DOMAIN list |-> REP!CheckReplication(list[i])]
  <1>1. ASSUME NEW i \in DOMAIN list
        PROVE  List(blocks[i]) /\ \A r : r \in ToSet(blocks[i]) <=> ReplicationRow(list[i], r)
    BY ReplicationRows
  <1>2. blocks = [i \in DOMAIN list |-> blocks[i]] /\ rows = FlattenSeq(blocks)
    OBVIOUS
  <1> HIDE DEF blocks
  <1>3. /\ List(rows)
        /\ \A r : r \in ToSet(rows) <=> \E i \in DOMAIN list : r \in ToSet(blocks[i])
    BY <1>1, <1>2, Blocks
  <1>4. QED
    BY <1>1, <1>3, Zenon

LEMMA ESChecked ==
    ASSUME Facts, NEW rows,
           rows = IF cfg.hosts["es7"] = <<>> THEN <<>>
                  ELSE Es!CheckES(cluster, cfg.hosts["es7"], cfg.Thresholds)
    PROVE  /\ List(rows)
           /\ \A r : r \in ToSet(rows)
                     <=> cfg.hosts["es7"] # <<>> /\ ESRow(cluster, cfg.hosts["es7"], cfg.Thresholds, r)
  <1>1. List(cluster.Nodes) /\ List(reach)
    BY DEF Facts, EsTold
  <1>2. CASE cfg.hosts["es7"] = <<>>
    BY <1>2, NoRows
  <1>3. CASE cfg.hosts["es7"] # <<>>
    BY <1>1, <1>3, ESRows
  <1>4. QED
    BY <1>2, <1>3

LEMMA ComponentsChecked ==
    ASSUME Facts, List(checks), CheckComponents
    PROVE  /\ List(checks')
           /\ \A r : r \in ToSet(checks') <=> r \in ToSet(checks) \/ FromComponents(r)
           /\ \A field, status :
                (\A r : FromComponents(r) => ~ (r.field = field /\ r.status = status)) =>
                    HitCount(checks', field, status) = HitCount(checks, field, status)
  <1> DEFINE t == cfg.Thresholds
             redis == report["redis"]
             sentinel == report["sentinel"]
             mongo == report["mongo"]
             rabbitmq == report["rabbitmq"]
             replication == report["replication"]
             a == IF cfg.hosts["es7"] = <<>> THEN <<>> ELSE Es!CheckES(cluster, cfg.hosts["es7"], t)
             b == FlattenSeq([i \in DOMAIN redis |-> DB!CheckRedis(redis[i], t)])
             c == FlattenSeq([i \in DOMAIN sentinel |-> DB!CheckRedisSentinel(sentinel[i])])
             d == FlattenSeq([i \in DOMAIN mongo |-> DB!CheckMongo(mongo[i])])
             e == FlattenSeq([i \in DOMAIN rabbitmq |-> MQ!CheckRabbitMQ(rabbitmq[i])])
             f == Dep!CheckBKDeps(dependencies)
             g == FlattenSeq([i \in DOMAIN replication |-> REP!CheckReplication(replication[i])])
  <1>1. stage \in PastReplication
    BY DEF CheckComponents, PastReplication
  <1>2. checks' = checks \o a \o b \o c \o d \o e \o f \o g
    BY SameFlatten DEF CheckComponents, CHECKS!RowsOfEach
  <1>3. List(a) /\ \A r : r \in ToSet(a)
            <=> cfg.hosts["es7"] # <<>> /\ ESRow(cluster, cfg.hosts["es7"], t, r)
    BY ESChecked
  <1>4. List(b) /\ \A r : r \in ToSet(b) <=> \E i \in DOMAIN redis :
                            \E k \in DOMAIN redis[i] : RedisRow(redis[i][k], t, r)
    <2>1. List(redis) /\ \A i \in DOMAIN redis : List(redis[i])
      BY <1>1, SectionLists
    <2> HIDE DEF redis
    <2>2. QED
      BY <2>1, RedisChecked
  <1>5. List(c) /\ \A r : r \in ToSet(c) <=> \E i \in DOMAIN sentinel : SentinelRow(sentinel[i], r)
    <2>1. List(sentinel) /\ \A i \in DOMAIN sentinel : List(sentinel[i].Sentinels)
      BY <1>1, SectionLists
    <2> HIDE DEF sentinel
    <2>2. QED
      BY <2>1, SentinelChecked
  <1>6. List(d) /\ \A r : r \in ToSet(d) <=> \E i \in DOMAIN mongo : MongoRow(mongo[i], r)
    <2>1. List(mongo) /\ \A i \in DOMAIN mongo : List(mongo[i].Members)
      BY <1>1, SectionLists
    <2> HIDE DEF mongo
    <2>2. QED
      BY <2>1, MongoChecked
  <1>7. List(e) /\ \A r : r \in ToSet(e) <=> \E i \in DOMAIN rabbitmq : BrokerRow(rabbitmq[i], r)
    <2>1. List(rabbitmq) /\ \A i \in DOMAIN rabbitmq :
            /\ List(rabbitmq[i].NodeAlarms) /\ List(rabbitmq[i].ExceedingQueues)
            /\ List(rabbitmq[i].NoConsumerQueues)
      BY <1>1, SectionLists
    <2> HIDE DEF rabbitmq
    <2>2. QED
      BY <2>1, BrokerChecked
  <1>8. List(f) /\ \A r : r \in ToSet(f)
                    <=> \E i \in DOMAIN dependencies : DependencyRow(dependencies[i], r)
    BY <1>1, SectionLists, DependencyRows
  <1>9. List(g) /\ \A r : r \in ToSet(g)
                    <=> \E i \in DOMAIN replication : ReplicationRow(replication[i], r)
    <2>1. List(replication) /\ \A i \in DOMAIN replication :
            /\ List(replication[i].MySQLMasters) /\ List(replication[i].MySQLSlaves)
            /\ List(replication[i].RedisNodes)
      BY <1>1, SectionLists
    <2> HIDE DEF replication
    <2>2. QED
      BY <2>1, ReplicationChecked
  <1> HIDE DEF a, b, c, d, e, f, g
  <1>10. /\ List(a) /\ List(b) /\ List(c) /\ List(d) /\ List(e) /\ List(f) /\ List(g)
    BY <1>3, <1>4, <1>5, <1>6, <1>7, <1>8, <1>9
  <1> DEFINE s == checks \o a \o b
             u == s \o c \o d
             v == u \o e \o f
  <1>11. List(s) /\ \A r : r \in ToSet(s) <=> r \in ToSet(checks) \/ r \in ToSet(a) \/ r \in ToSet(b)
    BY <1>10, Joined3
  <1> HIDE DEF s
  <1>12. List(u) /\ \A r : r \in ToSet(u) <=> r \in ToSet(s) \/ r \in ToSet(c) \/ r \in ToSet(d)
    BY <1>10, <1>11, Joined3
  <1> HIDE DEF u
  <1>13. List(v) /\ \A r : r \in ToSet(v) <=> r \in ToSet(u) \/ r \in ToSet(e) \/ r \in ToSet(f)
    BY <1>10, <1>12, Joined3
  <1> HIDE DEF v
  <1>14. List(v \o g) /\ ToSet(v \o g) = ToSet(v) \cup ToSet(g)
    BY <1>10, <1>13, Joined
  <1>15. checks' = v \o g
    BY <1>2 DEF s, u, v
  <1>16. ASSUME NEW r PROVE r \in ToSet(checks') <=> r \in ToSet(checks) \/ FromComponents(r)
    <2>1. r \in ToSet(checks') <=>
            \/ r \in ToSet(checks) \/ r \in ToSet(a) \/ r \in ToSet(b) \/ r \in ToSet(c)
            \/ r \in ToSet(d) \/ r \in ToSet(e) \/ r \in ToSet(f) \/ r \in ToSet(g)
      BY <1>11, <1>12, <1>13, <1>14, <1>15
    <2>2. QED
      BY <2>1, <1>3, <1>4, <1>5, <1>6, <1>7, <1>8, <1>9, Zenon
         DEF FromComponents, t, redis, sentinel, mongo, rabbitmq, replication
  <1>17. ASSUME NEW field, NEW status,
                \A r : FromComponents(r) => ~ (r.field = field /\ r.status = status)
         PROVE  HitCount(checks', field, status) = HitCount(checks, field, status)
    <2>1. ASSUME NEW r, \/ r \in ToSet(a) \/ r \in ToSet(b) \/ r \in ToSet(c) \/ r \in ToSet(d)
                        \/ r \in ToSet(e) \/ r \in ToSet(f) \/ r \in ToSet(g)
          PROVE  ~ (r.field = field /\ r.status = status)
      <3>1. FromComponents(r)
        BY <2>1, <1>3, <1>4, <1>5, <1>6, <1>7, <1>8, <1>9, Zenon
           DEF FromComponents, t, redis, sentinel, mongo, rabbitmq, replication
      <3>2. QED
        BY <1>17, <3>1
    <2>2. HitCount(s, field, status) = HitCount(checks, field, status)
      BY <1>10, <2>1, HitsBehind DEF s
    <2>3. HitCount(u, field, status) = HitCount(s, field, status)
      BY <1>10, <1>11, <2>1, HitsBehind DEF u
    <2>4. HitCount(v, field, status) = HitCount(u, field, status)
      BY <1>10, <1>12, <2>1, HitsBehind DEF v
    <2>5. HitCount(v \o g, field, status) = HitCount(v, field, status) + HitCount(g, field, status)
      BY <1>10, <1>13, HitsJoined
    <2>6. HitCount(g, field, status) = 0 /\ HitCount(v, field, status) \in Nat
      BY <1>10, <1>13, <2>1, NoHits, HitsFinite
    <2>7. QED
      BY <1>15, <2>2, <2>3, <2>4, <2>5, <2>6
  <1>18. QED
    BY <1>14, <1>15, <1>16, <1>17

\* Rows are added by three steps, and what they are made of stays.
LEMMA ChecksStay ==
    ASSUME [Next]_vars, ~ CollectAllHosts, ~ CheckServices, ~ CheckComponents
    PROVE  checks' = checks
  BY DEF Next, Work, Start, EndES, Connections, Gather, HostAnswers, InServices,
         ProbeES, InES, ProbeDeps, ToolAnswers, LateEnd, InDeps, vars

LEMMA Onward ==
    ASSUME [Next]_vars
    PROVE  /\ stage \in PastHosts => stage' \in PastHosts
           /\ stage \in PastServices => stage' \in PastServices /\ results' = results
  BY DEF Next, Work, Start, CollectAllHosts, CheckServices, EndES, Connections, CollectMySQL,
         CollectRedisStandalone, CollectRedisSentinel, CollectMongo, CollectRabbitMQ,
         CollectReplication, CheckComponents, Collect, Gather, HostAnswers, InServices,
         ProbeES, InES, ProbeDeps, ToolAnswers, LateEnd, InDeps, vars, services,
         PastHosts, PastServices, PastMySQL, PastRedis, PastSentinel, PastMongo, PastBroker,
         PastReplication

LEMMA NothingAfter ==
    ASSUME DepInv, [Next]_vars, stage = "done"
    PROVE  UNCHANGED vars
  <1>1. depPhase = "done"
    BY DEF DepInv
  <1>2. ~ Dep!Tool(DepAnswers)
    BY <1>1 DEF Dep!Tool
  <1>3. QED
    BY <1>2 DEF Next, Work, Start, CollectAllHosts, CheckServices, EndES, Connections,
         CollectMySQL, CollectRedisStandalone, CollectRedisSentinel, CollectMongo,
         CollectRabbitMQ, CollectReplication, CheckComponents, Collect, Gather, HostAnswers,
         InServices, ProbeES, InES, ProbeDeps, ToolAnswers, LateEnd, Ended

LEMMA Stages ==
    /\ PastServices \subseteq PastHosts /\ PastReplication \subseteq PastServices
    /\ "done" \in PastReplication /\ "services" \in PastHosts /\ "services" \notin PastServices
    /\ "hosts" \notin PastHosts /\ "es" \in PastServices /\ "load" \notin PastHosts
    /\ "exit" \notin PastHosts
  BY DEF PastHosts, PastServices, PastMySQL, PastRedis, PastSentinel, PastMongo, PastBroker,
         PastReplication

LEMMA RowsInit == Init => RowsInv
  <1> SUFFICES ASSUME Init PROVE RowsInv
    OBVIOUS
  <1>1. checks = <<>> /\ stage = "load"
    BY DEF Init
  <1>2. QED
    BY <1>1, NoRows, Stages DEF RowsInv, Explained

\* The rows of the hosts.
LEMMA RowsOfHosts ==
    ASSUME Facts, Collected', CollectAllHosts, cfg' = cfg
    PROVE  RowsInv'
  <1> DEFINE metrics == report'["hosts"]
             t == cfg.Thresholds
  <1>1. stage' = "services"
    BY DEF CollectAllHosts, Collect
  <1>2. HostsCollected'
    BY <1>1, Stages DEF Collected
  <1>3. checks' = FlattenSeq([i \in DOMAIN metrics |-> HOST!CheckHost(metrics[i], t)])
    <2>1. PICK a : /\ report' = [report EXCEPT !["hosts"] = [i \in DOMAIN cfg.AllHosts |->
                                    HOST!parseHostOutput(cfg.AllHosts[i], a[i], cfg)]]
                   /\ checks' = CHECKS!FlattenSeq([k \in DOMAIN [i \in DOMAIN cfg.AllHosts |->
                                    HOST!parseHostOutput(cfg.AllHosts[i], a[i], cfg)] |->
                                HOST!CheckHost([i \in DOMAIN cfg.AllHosts |->
                                    HOST!parseHostOutput(cfg.AllHosts[i], a[i], cfg)][k], t)])
      BY Zenon DEF CollectAllHosts, Collect, CHECKS!RowsOfEach
    <2>2. metrics = [i \in DOMAIN cfg.AllHosts |->
                        HOST!parseHostOutput(cfg.AllHosts[i], a[i], cfg)]
      <3>1. "hosts" \in DOMAIN report
        BY DEF Facts, Collected, Sections
      <3>2. QED
        BY <2>1, <3>1
    <2>3. QED
      BY <2>1, <2>2, SameFlatten, Zenon
  <1>4. /\ List(metrics)
        /\ \A i \in DOMAIN metrics : List(metrics[i].DiskUsage) /\ List(metrics[i].InodeUsage)
    <2>1. /\ answers'["hosts"] \in [DOMAIN cfg.AllHosts -> HOST!HostAnswers]
          /\ metrics = [i \in DOMAIN cfg.AllHosts |->
                    HOST!parseHostOutput(cfg.AllHosts[i], answers'["hosts"][i], cfg)]
      BY <1>2 DEF HostsCollected
    <2>2. List(cfg.AllHosts)
      BY LoadedHosts DEF Facts
    <2> HIDE DEF metrics
    <2>3. List(metrics)
      BY <2>1, <2>2, Mapped
    <2>4. ASSUME NEW i \in DOMAIN metrics
          PROVE  List(metrics[i].DiskUsage) /\ List(metrics[i].InodeUsage)
      <3>1. /\ metrics[i] = HOST!parseHostOutput(cfg.AllHosts[i], answers'["hosts"][i], cfg)
            /\ answers'["hosts"][i] \in HOST!HostAnswers
        BY <2>1
      <3>2. QED
        BY <3>1, MetricsAre
    <2>5. QED
      BY <2>3, <2>4
  <1> HIDE DEF metrics
  <1>5. /\ List(checks')
        /\ \A r : r \in ToSet(checks') <=> \E i \in DOMAIN metrics : HostRow(metrics[i], t, r)
    BY <1>3, <1>4, HostsChecked
  <1>6. \A r : Explained(r)' <=> \E i \in DOMAIN metrics : HostRow(metrics[i], t, r)
    BY <1>1, Stages DEF Explained, FromHosts, metrics, HostRow
  <1>7. QED
    BY <1>5, <1>6 DEF RowsInv

\* Those of the services.
LEMMA FiniteModules == IsFiniteSet(Modules)
  <1>1. \A a, b, c : IsFiniteSet({a, b, c})
    <2> TAKE a, b, c
    <2>1. IsFiniteSet({a}) /\ IsFiniteSet({b}) /\ IsFiniteSet({c})
      BY FS_Singleton
    <2>2. IsFiniteSet({a} \cup {b} \cup {c})
      BY <2>1, FS_Union
    <2>3. {a, b, c} = {a} \cup {b} \cup {c}
      OBVIOUS
    <2>4. QED
      BY <2>2, <2>3
  <1> DEFINE s == {"paas", "cmdb", "job"}
             t == {"gse", "appo", "appt"}
             u == {"iam", "usermgr", "nodeman"}
             v == {"bkmonitorv3-monitor", "bkmonitorv3-influxdb-proxy", "bkmonitorv3-transfer"}
             w == {"bkmonitorv3-unify-query"}
  <1>2. Modules = s \cup t \cup u \cup v \cup w
    BY DEF Modules, PlainModules, MonitorRoles
  <1>3. IsFiniteSet(s) /\ IsFiniteSet(t) /\ IsFiniteSet(u) /\ IsFiniteSet(v) /\ IsFiniteSet(w)
    BY <1>1, FS_Singleton
  <1> HIDE DEF s, t, u, v, w
  <1>4. QED
    BY <1>2, <1>3, FS_Union

LEMMA ResultsAre ==
    ASSUME SvcProofs!IInv
    PROVE  /\ IsFiniteSet(DOMAIN results)
           /\ \A m \in DOMAIN results :
                List(results[m]) /\ \A k \in DOMAIN results[m] : List(results[m][k].Services)
  <1>1. DOMAIN GetModuleHosts(cfg) = Modules
    BY DEF GetModuleHosts
  <1>2. results \in [Modules -> Seq(SvcProofs!Entries)]
    BY <1>1 DEF SvcProofs!IInv, SvcProofs!Types
  <1>4. IsFiniteSet(Modules)
    BY FiniteModules
  <1>5. ASSUME NEW m \in DOMAIN results
        PROVE  List(results[m]) /\ \A k \in DOMAIN results[m] : List(results[m][k].Services)
    <2>1. results[m] \in Seq(SvcProofs!Entries)
      BY <1>2
    <2>2. QED
      BY <2>1, EntriesAre, ListOf
  <1>6. QED
    BY <1>2, <1>4, <1>5

LEMMA RowsOfServices ==
    ASSUME Facts, RowsInv, CheckServices, cfg' = cfg
    PROVE  RowsInv'
  <1> DEFINE t == cfg.Thresholds["docker_exited"]
  <1>1. /\ stage = "services" /\ stage' = "es"
        /\ report' = report /\ results' = results
    BY DEF CheckServices, services
  <1>2. /\ List(checks')
        /\ \A r : r \in ToSet(checks') <=> r \in ToSet(checks) \/ FromServices(r)
    BY ResultsAre, ServicesChecked DEF Facts, RowsInv
  <1>3. \A r : r \in ToSet(checks) <=> FromHosts(r)
    BY <1>1, Stages DEF RowsInv, Explained
  <1>4. \A r : FromHosts(r)' = FromHosts(r) /\ FromServices(r)' = FromServices(r)
    BY <1>1 DEF FromHosts, FromServices, HostRow, ServiceRow
  <1>5. \A r : Explained(r)' <=> FromHosts(r) \/ FromServices(r)
    BY <1>1, <1>4, Stages DEF Explained
  <1>6. QED
    BY <1>2, <1>3, <1>5 DEF RowsInv

\* Those of the components.
LEMMA RowsOfComponents ==
    ASSUME Facts, RowsInv, CheckComponents, cfg' = cfg
    PROVE  RowsInv'
  <1>1. /\ stage = "deps" /\ stage' = "done"
        /\ report' = report /\ results' = results /\ cluster' = cluster /\ reach' = reach
        /\ dependencies' = dependencies
    BY DEF CheckComponents, services, es, deps
  <1>2. /\ List(checks')
        /\ \A r : r \in ToSet(checks') <=> r \in ToSet(checks) \/ FromComponents(r)
    BY ComponentsChecked DEF RowsInv
  <1>3. \A r : r \in ToSet(checks) <=> FromHosts(r) \/ FromServices(r)
    BY <1>1, Stages DEF RowsInv, Explained, PastReplication
  <1>4. \A r : FromHosts(r)' = FromHosts(r) /\ FromServices(r)' = FromServices(r)
               /\ FromComponents(r)' = FromComponents(r)
    BY <1>1 DEF FromHosts, FromServices, FromComponents, HostRow, ServiceRow, ESRow
  <1>5. \A r : Explained(r)' <=> FromHosts(r) \/ FromServices(r) \/ FromComponents(r)
    BY <1>1, <1>4, Stages DEF Explained
  <1>6. QED
    BY <1>2, <1>3, <1>5 DEF RowsInv

\* The other steps leave them, and what explains them, alone.
LEMMA RowsStay ==
    ASSUME Facts, RowsInv, [Next]_vars,
           ~ CollectAllHosts, ~ CheckServices, ~ CheckComponents, cfg' = cfg
    PROVE  RowsInv'
  <1>1. checks' = checks
    BY ChecksStay
  <1>2. ASSUME NEW r
        PROVE  stage' \in PastHosts /\ FromHosts(r)' <=> stage \in PastHosts /\ FromHosts(r)
    <2>1. stage' \in PastHosts <=> stage \in PastHosts
      BY Passing, Onward
    <2>2. stage \in PastHosts => report'["hosts"] = report["hosts"]
      BY Untouched, Stages DEF Facts, Sections
    <2>3. QED
      BY <2>1, <2>2 DEF FromHosts, HostRow
  <1>3. ASSUME NEW r
        PROVE  stage' \in PastServices /\ FromServices(r)'
                <=> stage \in PastServices /\ FromServices(r)
    <2>1. stage' \in PastServices <=> stage \in PastServices
      BY Passing, Onward
    <2>2. stage \in PastServices => results' = results
      BY Onward
    <2>3. stage \in PastServices => FromServices(r)' = FromServices(r)
      BY <2>2 DEF FromServices, ServiceRow
    <2>4. QED
      BY <2>1, <2>3
  <1>4. ASSUME NEW r
        PROVE  stage' = "done" /\ FromComponents(r)' <=> stage = "done" /\ FromComponents(r)
    <2>1. stage' = "done" => stage = "done"
      BY LastStep
    <2>2. stage = "done" => UNCHANGED vars
      BY NothingAfter DEF Facts
    <2>3. UNCHANGED vars => UNCHANGED <<stage, report, cluster, reach, dependencies>>
      BY DEF vars, es, deps
    <2>4. stage = "done" => FromComponents(r)' = FromComponents(r)
      <3>1. stage = "done" => UNCHANGED <<report, cluster, reach, dependencies>>
        BY <2>2, <2>3
      <3>2. QED
        BY <3>1 DEF FromComponents, ESRow
    <2>5. QED
      BY <2>1, <2>2, <2>3, <2>4
  <1>5. \A r : Explained(r)' <=> Explained(r)
    BY <1>2, <1>3, <1>4, Zenon DEF Explained
  <1>6. QED
    BY <1>1, <1>5 DEF RowsInv

LEMMA RowsNext == Facts /\ RowsInv /\ [Next]_vars => RowsInv'
  <1> SUFFICES ASSUME Facts, RowsInv, [Next]_vars PROVE RowsInv'
    OBVIOUS
  <1>1. cfg' = cfg
    BY ConfigStays DEF config
  <1>2. Collected'
    BY CollectedNext DEF Facts
  <1>3. QED
    BY <1>1, <1>2, RowsOfHosts, RowsOfServices, RowsOfComponents, RowsStay

LEMMA RowsAlways == Spec => []RowsInv
  BY RowsInit, RowsNext, FactsAlways, PTL DEF Spec

-----------------------------------------------------------------------------
(* Where main is *)

StageInv ==
    /\ stage \in {"load", "exit", "hosts"} \cup PastHosts
    /\ stage \in PastServices => svcPhase = "done"

LEMMA StageAlways == Spec => []StageInv
  <1>1. Init => StageInv
    BY Stages DEF Init, StageInv, PastServices, PastMySQL, PastRedis, PastSentinel,
         PastMongo, PastBroker, PastReplication
  <1>2. StageInv /\ [Next]_vars => StageInv'
    BY DEF StageInv, Next, Work, Start, CollectAllHosts, CheckServices, EndES, Connections,
         CollectMySQL, CollectRedisStandalone, CollectRedisSentinel, CollectMongo,
         CollectRabbitMQ, CollectReplication, CheckComponents, Collect, Gather, HostAnswers,
         InServices, ProbeES, InES, ProbeDeps, ToolAnswers, LateEnd, InDeps, vars, services,
         PastHosts, PastServices, PastMySQL, PastRedis, PastSentinel, PastMongo, PastBroker,
         PastReplication
  <1>3. QED
    BY <1>1, <1>2, PTL DEF Spec

LEMMA AllKnown == Spec => [](Facts /\ RowsInv /\ StageInv)
  BY FactsAlways, RowsAlways, StageAlways, PTL

-----------------------------------------------------------------------------
(* Rows and their fields *)

LEMMA RowIs ==
    ASSUME NEW c, NEW w, NEW x, NEW s
    PROVE  /\ Row(c, w, x, s).status = s
           /\ About(Row(c, w, x, s), c)
           /\ Row(c, w, x, s).field[2] = w /\ Row(c, w, x, s).field[3] = x
  <1>1. Row(c, w, x, s).field = <<c, w, x>> /\ Row(c, w, x, s).status = s
    BY DEF Row, CHECKS!CheckResult
  <1>2. List(<<c, w, x>>) /\ Len(<<c, w, x>>) = 3 /\ <<c, w, x>>[1] = c /\ <<c, w, x>>[2] = w
        /\ <<c, w, x>>[3] = x
    BY Field3
  <1>3. QED
    BY <1>1, <1>2 DEF About

LEMMA Row4Is ==
    ASSUME NEW c, NEW w, NEW x, NEW y, NEW s
    PROVE  /\ Row4(c, w, x, y, s).status = s
           /\ About(Row4(c, w, x, y, s), c)
           /\ Row4(c, w, x, y, s).field[2] = w
  <1>1. Row4(c, w, x, y, s).field = <<c, w, x, y>> /\ Row4(c, w, x, y, s).status = s
    BY DEF Row4, CHECKS!CheckResult
  <1>2. List(<<c, w, x, y>>) /\ Len(<<c, w, x, y>>) = 4 /\ <<c, w, x, y>>[1] = c
        /\ <<c, w, x, y>>[2] = w
    BY Field4
  <1>3. QED
    BY <1>1, <1>2 DEF About

LEMMA AboutPrefix ==
    ASSUME NEW r, NEW d, About(r, d), NEW c, NEW w, NEW x
    PROVE  /\ IsPrefix(<<c>>, r.field) <=> d = c
           /\ IsPrefix(<<c, w>>, r.field) <=> d = c /\ r.field[2] = w
           /\ IsPrefix(<<c, w, x>>, r.field) <=> d = c /\ r.field[2] = w /\ r.field[3] = x
  <1>1. List(r.field) /\ Len(r.field) > 2 /\ r.field[1] = d
    BY DEF About
  <1> DEFINE f == r.field
  <1> HIDE DEF f
  <1>2. List(f) /\ Len(f) > 2 /\ f[1] = d
    BY <1>1 DEF f
  <1>3. /\ IsPrefix(<<c>>, f) <=> f[1] = c
        /\ IsPrefix(<<c, w>>, f) <=> f[1] = c /\ f[2] = w
        /\ IsPrefix(<<c, w, x>>, f) <=> f[1] = c /\ f[2] = w /\ f[3] = x
    BY <1>2, Beginning
  <1>4. QED
    BY <1>2, <1>3 DEF f

\* A row that is there.
LEMMA Told ==
    ASSUME NEW c, NEW w, NEW x, NEW s, NEW S, s \in S,
           Row(c, w, x, s) \in ToSet(checks)
    PROVE  /\ Rows(<<c>>, S) # {}
           /\ Rows(<<c, w>>, S) # {}
           /\ Rows(<<c, w, x>>, S) # {}
  <1> DEFINE r == Row(c, w, x, s)
  <1>1. /\ IsPrefix(<<c>>, r.field) /\ IsPrefix(<<c, w>>, r.field)
        /\ IsPrefix(<<c, w, x>>, r.field) /\ r.status = s
    BY RowIs, AboutPrefix
  <1>2. r \in ToSet(checks)
    OBVIOUS
  <1> HIDE DEF r
  <1>3. QED
    BY <1>1, <1>2 DEF Rows

-----------------------------------------------------------------------------
(* Each rule has fields of its own *)

LEMMA GradedIs == \A ok : Graded(ok) \in {"ok", "warn"}
  BY DEF Graded

LEMMA HostAbout ==
    ASSUME NEW h, NEW t, NEW r, HostRow(h, t, r)
    PROVE  About(r, "host") /\ r.status \in {"ok", "warn"} /\ r.field[2] = h.IP
  <1>1. \E x, ok : r = Row("host", h.IP, x, Graded(ok))
    BY Zenon DEF HostRow
  <1>2. QED
    BY <1>1, RowIs, GradedIs

LEMMA ServiceAbout ==
    ASSUME NEW s, NEW t, NEW r, ServiceRow(s, t, r)
    PROVE  /\ About(r, "service") /\ r.status \in {"ok", "warn", "notice", "unknown"}
           /\ r.field[2] = s.Module
  <1> DEFINE state(i) == IF s.Services[i].Status = "" THEN "unknown"
                         ELSE Graded(s.Services[i].Status = "active")
             works(i) == Graded(s.Services[i].HealthzAPI = "ok")
  <1>1. \A i : state(i) \in {"ok", "warn", "unknown"} /\ works(i) \in {"ok", "warn"}
    BY GradedIs
  <1>2. \/ r = Row("service", s.Module, "collect_error", "notice")
        \/ r = Row4("service", s.Module, "docker", "exited", "notice")
        \/ \E i : \/ r = Row4("service", s.Module, s.Services[i].Module, "status", state(i))
                 \/ r = Row4("service", s.Module, s.Services[i].Module, "healthz", works(i))
    BY Zenon DEF ServiceRow
  <1> HIDE DEF state, works
  <1>3. QED
    BY <1>1, <1>2, RowIs, Row4Is

LEMMA ESAbout ==
    ASSUME NEW c, NEW nodes, NEW t, NEW r, ESRow(c, nodes, t, r)
    PROVE  About(r, "es") /\ r.status \in {"warn", "notice"}
  <1>1. \E w, x : r = Row("es", w, x, "warn") \/ r = Row("es", w, x, "notice")
    BY Zenon DEF ESRow
  <1>2. QED
    BY <1>1, RowIs

LEMMA RedisAbout ==
    ASSUME NEW n, NEW t, NEW r, RedisRow(n, t, r)
    PROVE  /\ About(r, "redis") /\ r.status \in {"warn", "notice"}
           /\ r.field[3] \in {"error", "celery_queue", "monitor_queue"}
  <1>1. \/ r = Row("redis", n.IP, "error", "warn")
        \/ r = Row("redis", n.IP, "celery_queue", "notice")
        \/ r = Row("redis", n.IP, "monitor_queue", "notice")
    BY Zenon DEF RedisRow
  <1>2. QED
    BY <1>1, RowIs

LEMMA SentinelAbout ==
    ASSUME NEW s, NEW r, SentinelRow(s, r)
    PROVE  About(r, "redis_sentinel") /\ r.status = "warn"
  <1>1. \E w, x : r = Row("redis_sentinel", w, x, "warn")
    BY Zenon DEF SentinelRow
  <1>2. QED
    BY <1>1, RowIs

LEMMA MongoAbout ==
    ASSUME NEW c, NEW r, MongoRow(c, r)
    PROVE  About(r, "mongo") /\ r.status \in {"warn", "notice"}
  <1>1. \E w, x : r = Row("mongo", w, x, "warn") \/ r = Row("mongo", w, x, "notice")
    BY Zenon DEF MongoRow
  <1>2. QED
    BY <1>1, RowIs

LEMMA BrokerAbout ==
    ASSUME NEW q, NEW r, BrokerRow(q, r)
    PROVE  About(r, "rabbitmq") /\ r.status = "warn"
  <1>1. \E w, x : r = Row("rabbitmq", w, x, "warn")
    BY Zenon DEF BrokerRow
  <1>2. QED
    BY <1>1, RowIs

LEMMA DependencyAbout ==
    ASSUME NEW d, NEW r, DependencyRow(d, r)
    PROVE  About(r, "bkdeps") /\ r.status \in {"ok", "notice"} /\ r.field[2] = d.Item
  <1>1. \/ r = Row("bkdeps", d.Item, "status", "ok")
        \/ r = Row("bkdeps", d.Item, "status", "notice")
    BY Zenon DEF DependencyRow
  <1>2. QED
    BY <1>1, RowIs

LEMMA ReplicationAbout ==
    ASSUME NEW rep, NEW r, ReplicationRow(rep, r)
    PROVE  /\ \E c \in {"mysql_master", "mysql_slave", "redis"} : About(r, c)
           /\ r.status \in {"ok", "warn"}
  <1>1. CASE \E i \in DOMAIN rep.MySQLMasters :
                r = Row("mysql_master", rep.MySQLMasters[i].IP, "read_only",
                        Graded(rep.MySQLMasters[i].Status = "ok"))
    BY <1>1, RowIs DEF Graded
  <1>2. CASE \E i \in DOMAIN rep.MySQLSlaves :
                r = Row("mysql_slave", rep.MySQLSlaves[i].IP, "replication",
                        Graded(rep.MySQLSlaves[i].Status = "ok"))
    BY <1>2, RowIs DEF Graded
  <1>3. CASE \E i \in DOMAIN rep.RedisNodes :
                \/ r = Row("redis", rep.RedisNodes[i].IP, "role",
                           Graded(rep.RedisNodes[i].RoleConsistencyStatus = "ok"))
                \/ r = Row("redis", rep.RedisNodes[i].IP, "link",
                           Graded(rep.RedisNodes[i].LinkStatus = "ok"))
    BY <1>3, RowIs DEF Graded
  <1>4. QED
    BY <1>1, <1>2, <1>3 DEF ReplicationRow

-----------------------------------------------------------------------------
(* How often a health row of a service is "ok" *)

HealthField(m, x) == <<"service", m, x, "healthz">>

\* In the entry of a host, the sub-module was found well.
GaveOk(e, x) ==
    \E i \in DOMAIN e.Services : e.Services[i].Module = x /\ e.Services[i].HealthzAPI = "ok"

OneOfEach(e) ==
    \A i, j \in DOMAIN e.Services : e.Services[i].Module = e.Services[j].Module => i = j

LEMMA SubHits ==
    ASSUME NEW n, NEW sm, NEW m, NEW x
    PROVE  /\ List(Svc!CheckService(n, sm))
           /\ HitCount(Svc!CheckService(n, sm), HealthField(m, x), "ok")
              = IF n = m /\ sm.Module = x /\ sm.HealthzAPI = "ok" THEN 1 ELSE 0
  <1> DEFINE field == HealthField(m, x)
             state == Row4("service", n, sm.Module, "status",
                           IF sm.Status = "" THEN "unknown" ELSE Graded(sm.Status = "active"))
             works == Row4("service", n, sm.Module, "healthz", Graded(sm.HealthzAPI = "ok"))
             health == IF sm.HealthzAPI \in {"", "N/A"} THEN <<>> ELSE <<works>>
  <1>1. Svc!CheckService(n, sm) = <<state>> \o health
    BY DEF Svc!CheckService, Svc!CHECKS!OkOrWarn, Svc!CHECKS!CheckResult,
           CHECKS!CheckResult, Row4, Graded
  <1>2. state.field = <<"service", n, sm.Module, "status">>
    BY DEF Row4, CHECKS!CheckResult
  <1>3. works.field = <<"service", n, sm.Module, "healthz">>
        /\ works.status = Graded(sm.HealthzAPI = "ok")
    BY DEF Row4, CHECKS!CheckResult
  <1>4. field = <<"service", m, x, "healthz">>
    BY DEF HealthField
  <1> HIDE DEF state, works, field
  <1>5. state.field # field
    BY <1>2, <1>4, Field4
  <1>6. works.field = field <=> n = m /\ sm.Module = x
    BY <1>3, <1>4, Field4
  <1>7. works.status = "ok" <=> sm.HealthzAPI = "ok"
    BY <1>3 DEF Graded
  <1>8. List(<<state>>) /\ HitCount(<<state>>, field, "ok") = 0
    BY <1>5, OneRow, OneHit
  <1>9. /\ List(health)
        /\ HitCount(health, field, "ok")
           = IF n = m /\ sm.Module = x /\ sm.HealthzAPI = "ok" THEN 1 ELSE 0
    <2>1. CASE sm.HealthzAPI \in {"", "N/A"}
      <3>1. health = <<>> /\ sm.HealthzAPI # "ok"
        BY <2>1
      <3>2. HitCount(<<>>, field, "ok") = 0
        BY NoRows, NoHits
      <3>3. QED
        BY <3>1, <3>2, NoRows
    <2>2. CASE sm.HealthzAPI \notin {"", "N/A"}
      <3>1. health = <<works>>
        BY <2>2
      <3>2. HitCount(<<works>>, field, "ok")
            = IF works.field = field /\ works.status = "ok" THEN 1 ELSE 0
        BY OneHit
      <3>3. QED
        BY <3>1, <3>2, <1>6, <1>7, OneRow
    <2>3. QED
      BY <2>1, <2>2
  <1> HIDE DEF health
  <1>10. List(<<state>> \o health)
    BY <1>8, <1>9, Joined
  <1>11. HitCount(<<state>> \o health, field, "ok")
         = HitCount(<<state>>, field, "ok") + HitCount(health, field, "ok")
    BY <1>8, <1>9, HitsJoined
  <1>12. QED
    BY <1>1, <1>8, <1>9, <1>10, <1>11 DEF field

\* One entry has the row once or not at all.
LEMMA EntryHits ==
    ASSUME NEW e, List(e.Services), OneOfEach(e), NEW t, NEW m, NEW x
    PROVE  /\ List(Svc!ServiceRows(e, t))
           /\ HitCount(Svc!ServiceRows(e, t), HealthField(m, x), "ok")
              = IF e.Module = m /\ GaveOk(e, x) THEN 1 ELSE 0
  <1> DEFINE field == HealthField(m, x)
             subs == e.Services
             blocks == [i \in DOMAIN subs |-> Svc!CheckService(e.Module, subs[i])]
             good == {i \in DOMAIN subs : e.Module = m /\ subs[i].Module = x
                                          /\ subs[i].HealthzAPI = "ok"}
             a == Svc!CheckServiceCollectError(e)
             b == FlattenSeq(blocks)
             c == Svc!CheckServiceContainers(e, t)
  <1>1. Svc!ServiceRows(e, t) = a \o b \o c
    BY SameFlatten DEF Svc!ServiceRows, Svc!CHECKS!RowsOfEach
  <1>2. List(a) /\ \A r \in ToSet(a) : r = Row("service", e.Module, "collect_error", "notice")
    BY NoRows, OneRow DEF Svc!CheckServiceCollectError, Svc!CHECKS!RowIf,
       Svc!CHECKS!CheckResult, CHECKS!CheckResult, Row
  <1>3. List(c) /\ \A r \in ToSet(c) : r = Row4("service", e.Module, "docker", "exited", "notice")
    BY NoRows, OneRow DEF Svc!CheckServiceContainers, Svc!CHECKS!RowIf,
       Svc!CHECKS!CheckResult, CHECKS!CheckResult, Row4
  <1>4. /\ \A r \in ToSet(a) : ~ (r.field = field /\ r.status = "ok")
        /\ \A r \in ToSet(c) : ~ (r.field = field /\ r.status = "ok")
    BY <1>2, <1>3, RowIs, Row4Is
  <1>5. \A i \in DOMAIN subs :
            /\ List(blocks[i])
            /\ HitCount(blocks[i], field, "ok") = IF i \in good THEN 1 ELSE 0
    BY SubHits
  <1>6. blocks = [i \in DOMAIN subs |-> blocks[i]] /\ List(subs)
    OBVIOUS
  <1>7. \A i, j \in good : i = j
    BY DEF OneOfEach
  <1>8. good # {} <=> e.Module = m /\ GaveOk(e, x)
    BY DEF GaveOk
  <1>9. {i \in DOMAIN subs : i \in good} = good
    OBVIOUS
  <1>10. Cardinality(good) = IF e.Module = m /\ GaveOk(e, x) THEN 1 ELSE 0
    <2> HIDE DEF good
    <2>1. good = {} \/ \E i : good = {i}
      BY <1>7
    <2>2. QED
      BY <2>1, <1>8, FS_EmptySet, FS_Singleton
  <1> HIDE DEF blocks, good, subs, field, a, c
  <1>11. List(b)
    BY <1>5, <1>6, Blocks
  <1>12. HitCount(b, field, "ok") = Cardinality({i \in DOMAIN subs : i \in good})
    BY <1>5, <1>6, BlockHits
  <1> HIDE DEF b
  <1>13. HitCount(a, field, "ok") = 0 /\ HitCount(c, field, "ok") = 0
    BY <1>2, <1>3, <1>4, NoHits
  <1>14. List(a \o b) /\ List(a \o b \o c)
    BY <1>2, <1>3, <1>11, Joined
  <1>15. HitCount(a \o b, field, "ok") = HitCount(a, field, "ok") + HitCount(b, field, "ok")
    BY <1>2, <1>11, HitsJoined
  <1>16. HitCount(a \o b \o c, field, "ok")
         = HitCount(a \o b, field, "ok") + HitCount(c, field, "ok")
    BY <1>3, <1>14, HitsJoined
  <1>17. HitCount(b, field, "ok") = IF e.Module = m /\ GaveOk(e, x) THEN 1 ELSE 0
    BY <1>9, <1>10, <1>12
  <1>18. QED
    BY <1>1, <1>13, <1>14, <1>15, <1>16, <1>17 DEF field

\* The registry names a sub-module once.
LEMMA EntriesDistinct ==
    ASSUME NEW e \in SvcProofs!Entries
    PROVE  OneOfEach(e)
  <1>1. PICK m, h, r : e = Svc!collectServiceOnHost(m, h, r)
    BY SameEntry DEF SvcProofs!Entries
  <1> DEFINE reg == Svc!ModuleRegistry(m)
  <1>2. \A i, j \in DOMAIN reg : reg[i].name = reg[j].name => i = j
    BY DEF Svc!ModuleRegistry, Svc!Sub
  <1> HIDE DEF reg
  <1>3. \/ e.Services = <<>>
        \/ /\ DOMAIN e.Services = DOMAIN reg
           /\ \A i \in DOMAIN reg : e.Services[i].Module = reg[i].name
    BY <1>1 DEF Svc!collectServiceOnHost, reg
  <1>4. QED
    BY <1>2, <1>3 DEF OneOfEach

\* The entries of a module carry its name.
LEMMA ModuleHits ==
    ASSUME SvcProofs!IInv, SvcProofs!Genuine, NEW n \in DOMAIN results, NEW m, NEW x
    PROVE  /\ List(RowsOf(n))
           /\ HitCount(RowsOf(n), HealthField(m, x), "ok")
              = IF n = m THEN Cardinality({k \in DOMAIN results[n] : GaveOk(results[n][k], x)})
                ELSE 0
  <1> DEFINE entries == results[n]
             t == cfg.Thresholds["docker_exited"]
             blocks == [k \in DOMAIN entries |-> Svc!ServiceRows(entries[k], t)]
             one == {k \in DOMAIN entries : n = m /\ GaveOk(entries[k], x)}
  <1>1. List(entries) /\ \A k \in DOMAIN entries : List(entries[k].Services)
    BY ResultsAre
  <1>2. DOMAIN GetModuleHosts(cfg) = Modules /\ results \in [Modules -> Seq(SvcProofs!Entries)]
    BY DEF GetModuleHosts, SvcProofs!IInv, SvcProofs!Types
  <1>3. \A k \in DOMAIN entries : entries[k] \in SvcProofs!Entries
    BY <1>2
  <1>4. ASSUME NEW k \in DOMAIN entries PROVE entries[k].Module = n
    <2>1. PICK j : j[1] = n /\ entries[k] = SvcProofs!Entry(j)
      BY <1>2 DEF SvcProofs!Genuine
    <2>2. \A a, h, r : SvcProofs!collectServiceOnHost(a, h, r).Module = a
      BY DEF SvcProofs!collectServiceOnHost
    <2> HIDE DEF entries
    <2>3. QED
      BY <2>1, <2>2 DEF SvcProofs!Entry
  <1>5. ASSUME NEW k \in DOMAIN entries
        PROVE  /\ List(blocks[k])
               /\ HitCount(blocks[k], HealthField(m, x), "ok") = IF k \in one THEN 1 ELSE 0
    <2>1. blocks[k] = Svc!ServiceRows(entries[k], t)
      OBVIOUS
    <2> HIDE DEF blocks
    <2>2. OneOfEach(entries[k])
      BY <1>3, EntriesDistinct
    <2>3. QED
      BY <1>1, <1>4, <2>1, <2>2, EntryHits
  <1>6. blocks = [k \in DOMAIN entries |-> blocks[k]] /\ RowsOf(n) = FlattenSeq(blocks)
    BY DEF RowsOf
  <1> DEFINE field == HealthField(m, x)
  <1> HIDE DEF blocks, one, entries
  <1>7. List(FlattenSeq(blocks))
    BY <1>1, <1>5, <1>6, Blocks
  <1>8. HitCount(FlattenSeq(blocks), field, "ok") = Cardinality({k \in DOMAIN entries : k \in one})
    <2>1. \A k \in DOMAIN entries :
            List(blocks[k]) /\ HitCount(blocks[k], field, "ok") = IF k \in one THEN 1 ELSE 0
      BY <1>5
    <2>2. List(entries) /\ blocks = [k \in DOMAIN entries |-> blocks[k]]
      BY <1>1, <1>6
    <2> HIDE DEF field
    <2>3. HitCount(FlattenSeq(blocks), field, "ok")
          = Cardinality({k \in DOMAIN entries : k \in one})
      BY ONLY <2>1, <2>2, BlockHits
    <2>4. QED
      BY <2>3
  <1>9. CASE n = m
    <2>1. {k \in DOMAIN entries : k \in one} = {k \in DOMAIN entries : GaveOk(entries[k], x)}
      BY <1>9 DEF one
    <2>2. QED
      BY <1>6, <1>7, <1>8, <1>9, <2>1 DEF entries
  <1>10. CASE n # m
    <2>1. {k \in DOMAIN entries : k \in one} = {}
      BY <1>10 DEF one
    <2>2. QED
      BY <1>6, <1>7, <1>8, <1>10, <2>1, FS_EmptySet
  <1>11. QED
    BY <1>9, <1>10

\* A health row is "ok" once for each entry that says so, and no more.
OkHits ==
    stage \in PastServices =>
        \A m \in DOMAIN results : \A x :
            HitCount(checks, HealthField(m, x), "ok")
            = Cardinality({k \in DOMAIN results[m] : GaveOk(results[m][k], x)})

LEMMA OksOfServices ==
    ASSUME Facts, RowsInv, SvcProofs!Genuine, CheckServices
    PROVE  OkHits'
  <1> DEFINE S == DOMAIN results
             block == [m \in S |-> RowsOf(m)]
  <1>1. stage = "services" /\ results' = results
    BY DEF CheckServices, services
  <1>2. SvcProofs!IInv /\ IsFiniteSet(S) /\ List(checks)
    BY ResultsAre DEF Facts, RowsInv
  <1>3. \A m \in S : List(RowsOf(m))
    BY <1>2, ModuleHits
  <1>4. PICK pick, f : Picks(pick, S) /\ JoinsWith(f, S, pick, checks, block) /\ checks' = f[S]
    BY <1>2, <1>3, ServicesJoined, Zenon DEF InSomeOrder
  <1>5. ASSUME NEW m \in S, NEW x
        PROVE  HitCount(checks', HealthField(m, x), "ok")
               = Cardinality({k \in DOMAIN results[m] : GaveOk(results[m][k], x)})
    <2> DEFINE field == HealthField(m, x)
    <2>1. ASSUME NEW r \in ToSet(checks) PROVE ~ (r.field = field /\ r.status = "ok")
      <3>1. FromHosts(r)
        BY <1>1, Stages DEF RowsInv, Explained
      <3>2. About(r, "host")
        BY <3>1, HostAbout DEF FromHosts
      <3>3. field[1] = "service"
        BY Field4 DEF HealthField
      <3>4. QED
        BY <3>2, <3>3 DEF About
    <2>2. HitCount(checks, field, "ok") = 0
      BY <1>2, <2>1, NoHits
    <2>3. \A n \in S : block[n] = RowsOf(n)
      OBVIOUS
    <2> HIDE DEF block, field
    <2>4. \A n \in S : List(block[n])
      BY <1>3, <2>3
    <2>5. /\ \A n \in S : n # m => HitCount(block[n], field, "ok") = 0
          /\ HitCount(block[m], field, "ok")
             = Cardinality({k \in DOMAIN results[m] : GaveOk(results[m][k], x)})
      <3>1. HitCount(RowsOf(m), field, "ok")
            = Cardinality({k \in DOMAIN results[m] : GaveOk(results[m][k], x)})
        BY <1>2, ModuleHits DEF field
      <3>2. ASSUME NEW n \in S, n # m PROVE HitCount(RowsOf(n), field, "ok") = 0
        BY <1>2, <3>2, ModuleHits DEF field
      <3>3. QED
        BY <2>3, <3>1, <3>2
    <2> HIDE DEF S
    <2>6. HitCount(f[S], field, "ok") = HitCount(block[m], field, "ok")
      BY ONLY <1>2, <1>4, <2>2, <2>4, <2>5, m \in S, JoinHits
    <2>7. QED
      BY <1>4, <2>5, <2>6 DEF field
  <1>6. QED
    BY <1>1, <1>5 DEF OkHits

LEMMA OksOfComponents ==
    ASSUME Facts, RowsInv, OkHits, CheckComponents
    PROVE  OkHits'
  <1>1. stage \in PastServices /\ results' = results
    BY DEF CheckComponents, services, PastServices, PastMySQL, PastRedis, PastSentinel, PastMongo,
           PastBroker, PastReplication
  <1>2. ASSUME NEW m, NEW x
        PROVE  HitCount(checks', HealthField(m, x), "ok") = HitCount(checks, HealthField(m, x), "ok")
    <2>1. HealthField(m, x)[1] = "service"
      BY Field4 DEF HealthField
    <2>2. ASSUME NEW r, FromComponents(r) PROVE r.field[1] # "service"
      <3>1. \E c : About(r, c) /\ c # "service"
        BY <2>2, ESAbout, RedisAbout, SentinelAbout, MongoAbout, BrokerAbout, DependencyAbout,
           ReplicationAbout DEF FromComponents
      <3>2. QED
        BY <3>1 DEF About
    <2>3. QED
      BY <2>1, <2>2, ComponentsChecked DEF RowsInv
  <1>3. QED
    BY <1>1, <1>2 DEF OkHits

LEMMA OkHitsNext ==
    Facts /\ RowsInv /\ SvcProofs!Genuine /\ OkHits /\ [Next]_vars => OkHits'
  <1> SUFFICES ASSUME Facts, RowsInv, SvcProofs!Genuine, OkHits, [Next]_vars PROVE OkHits'
    OBVIOUS
  <1>1. CASE CheckServices
    BY <1>1, OksOfServices
  <1>2. CASE CheckComponents
    BY <1>2, OksOfComponents
  <1>3. CASE ~ CheckServices /\ ~ CheckComponents
    <2> SUFFICES ASSUME stage' \in PastServices
                 PROVE  \A m \in DOMAIN results' : \A x :
                            HitCount(checks', HealthField(m, x), "ok")
                            = Cardinality({k \in DOMAIN results'[m] : GaveOk(results'[m][k], x)})
      BY DEF OkHits, GaveOk
    <2>1. stage \in PastServices /\ results' = results
      BY <1>3, Passing, Onward
    <2>2. ~ CollectAllHosts
      BY <2>1, Stages DEF CollectAllHosts, Collect
    <2>3. checks' = checks
      BY <1>3, <2>2, ChecksStay
    <2>4. QED
      BY <2>1, <2>3 DEF OkHits
  <1>4. QED
    BY <1>1, <1>2, <1>3

LEMMA GenuineEntries == Spec => []SvcProofs!Genuine
  BY CollectsServices, SvcProofs!GenuineAlways, PTL

LEMMA OkHitsAlways == Spec => []OkHits
  <1>1. Init => OkHits
    BY Stages DEF Init, OkHits
  <1>2. QED
    BY <1>1, OkHitsNext, FactsAlways, RowsAlways, GenuineEntries, PTL DEF Spec

=============================================================================
