------------------------------ MODULE Databases ------------------------------
(***************************************************************************)
(* The collectors that ask node by node through native drivers and their    *)
(* rules: collector/mysql.go, redis.go, mongo.go; checker/redis.go,         *)
(* mongo.go.  Each goes through its list in order; a node's answer is       *)
(* everything the collector can learn from its calls.  Versions, sizes and  *)
(* counters no rule looks at are left out.                                  *)
(* A definition X_Change is a deliberately wrong variant of X.              *)
(***************************************************************************)
EXTENDS Probe

Levels == 0 .. 2
Lost == -1           \* the answer to a call whose failure is not told
NoOne == "nobody"    \* an empty address

EachNode(list, answers, Collect(_, _)) ==
    [i \in DOMAIN list |-> Collect(list[i], answers[i])]

-----------------------------------------------------------------------------
(* MySQL *)

\* err: of the ping, or of the query for the variables.  slave, replica: what SHOW
\* SLAVE STATUS and SHOW REPLICA STATUS give.
MySQLAnswers == [err : Errors \cup {NoError}, slave : {"row", "empty", "error"},
                 replica : {"row", "empty", "error"}]
MySQLGood == [err |-> NoError, slave |-> "empty", replica |-> "empty"]

\* A node that shows no row is a master, even when it would not answer.
MySQLNode(ip, a) ==
    [IP |-> ip,
     Error |-> a.err, ErrorClass |-> classifyMySQL(a.err),
     Role |-> IF a.err # NoError THEN ""
              ELSE IF "row" \in {a.slave, a.replica} THEN "slave" ELSE "master"]

CollectMySQL(list, answers) == EachNode(list, answers, MySQLNode)

-----------------------------------------------------------------------------
(* Redis nodes *)

RedisAnswers == [err : Errors \cup {NoError}, celery : Levels \cup {Lost},
                 monitor : Levels \cup {Lost}]
RedisGood == [err |-> NoError, celery |-> 0, monitor |-> 0]

\* INFO decides; a failing LLEN leaves its length 0.
RedisNode(ip, a) ==
    LET Length(answer) == IF a.err # NoError \/ answer = Lost THEN 0 ELSE answer
    IN  [IP |-> ip, Error |-> a.err, ErrorClass |-> classifyRedis(a.err),
         CeleryQueue |-> Length(a.celery), MonitorQueue |-> Length(a.monitor)]

CollectRedisStandalone(list, answers) == EachNode(list, answers, RedisNode)

CheckRedis(nodes, thresholds) ==
    LET Rows(n) ==
            RowIf(n.Error # "", <<"redis", n.IP, "error">>, "warn")
            \o RowIf(n.CeleryQueue > thresholds["celery"],
                     <<"redis", n.IP, "celery_queue">>, "notice")
            \o RowIf(n.MonitorQueue > thresholds["monitor"],
                     <<"redis", n.IP, "monitor_queue">>, "notice")
    IN  RowsOfEach(nodes, Rows)

-----------------------------------------------------------------------------
(* Redis sentinels *)

\* pong: whether each sentinel answers PING as it should; master: the master each of
\* them names when asked later; alive: whether that master answers.
SentinelAnswers(list, hosts) ==
    [pong : [DOMAIN list -> {NoError, "deadline", "denied", "unexpected"}],
     master : [DOMAIN list -> hosts \cup {NoOne}],
     alive : BOOLEAN]
SentinelGood(list, hosts) ==
    [pong : {[i \in DOMAIN list |-> NoError]},
     master : {[i \in DOMAIN list |-> h] : h \in hosts},
     alive : {TRUE}]

pingSentinel(ip, pong) ==
    [IP |-> ip, Reachable |-> pong = NoError,
     ErrorClass |-> IF pong = "unexpected" THEN "protocol" ELSE classifyRedis(pong)]

SentinelStatus_NeverAll(reachable, total, alive) ==
    IF ~ alive THEN "critical" ELSE IF reachable <= total THEN "warn" ELSE "ok"

SentinelStatus(reachable, total, alive) ==
    IF ~ alive THEN "critical" ELSE IF reachable < total THEN "warn" ELSE "ok"

\* The first reachable sentinel that names a master is believed.
CollectRedisSentinel(list, a) ==
    LET sentinels == [i \in DOMAIN list |-> pingSentinel(list[i], a.pong[i])]
        reachable == {i \in DOMAIN list : sentinels[i].Reachable}
        naming    == {i \in reachable : a.master[i] # NoOne}
        alive     == naming # {} /\ a.alive
    IN  [Sentinels |-> sentinels,
         Error |-> IF reachable = {} THEN "no-sentinel-reachable" ELSE "",
         ErrorClass |-> IF reachable = {} THEN "network" ELSE "",
         DiscoveredMaster |-> IF naming = {} THEN NoOne ELSE a.master[Min(naming)],
         MasterReachable |-> alive, MasterEnvMatch |-> "",
         Status |-> SentinelStatus(Cardinality(reachable), Len(list), alive)]

CrossCheckSentinelMaster_Trusting(discovered, masters) == "N/A"

\* MasterEnvMatch: the master found against BK_REDIS_MASTER_IP_COMMA.
CrossCheckSentinelMaster(discovered, masters) ==
    IF masters = <<>> THEN "N/A"
    ELSE IF Contains(masters, discovered) THEN "ok" ELSE "warn"

\* What main puts in the report: the collected status, cross-checked.
RedisSentinelSection(list, a, masters) ==
    LET s == CollectRedisSentinel(list, a)
    IN  [s EXCEPT !.MasterEnvMatch = CrossCheckSentinelMaster(s.DiscoveredMaster, masters)]

CheckRedisSentinel(s) ==
    LET Rows(node) == RowIf(~ node.Reachable, <<"redis_sentinel", node.IP, "reachable">>, "warn")
        OfCluster(what) == <<"redis_sentinel", "cluster", what>>
    IN  RowIf(s.Error # "", OfCluster("error"), "warn")
        \o RowIf(~ s.MasterReachable, OfCluster("master_reachable"), "warn")
        \o RowIf(s.MasterEnvMatch = "warn", OfCluster("master_env_match"), "warn")
        \o RowIf(s.Status # "ok", OfCluster("status"), "warn")
        \o RowsOfEach(s.Sentinels, Rows)

-----------------------------------------------------------------------------
(* MongoDB, one call to the replica set *)

MongoAnswers == [err : {NoError}, members : [1 .. 2 -> {0, 1}]]
                \cup [err : Errors, members : {<<>>}]
MongoGood == [err |-> NoError, members |-> <<1, 1>>]

CollectMongo(a) ==
    [Error |-> a.err, ErrorClass |-> classifyMongo(a.err), Members |-> a.members]

CheckMongo(c) ==
    LET Rows(health) == RowIf(health # 1, <<"mongo", "member", "health">>, "notice")
    IN  IF c.Error # "" THEN <<CheckResult(<<"mongo", "cluster", "error">>, "warn")>>
        ELSE RowsOfEach(c.Members, Rows)
=============================================================================
