----------------------------- MODULE Replication -----------------------------
(***************************************************************************)
(* Replication of MySQL and Redis: collector/replication.go, and            *)
(* CheckReplication of checker/rules.go.                                    *)
(* A definition X_Change is a deliberately wrong variant of X.              *)
(***************************************************************************)
EXTENDS Probe

Seconds == 0 .. 2
Null == -1

\* A statement fails, or gives no row, or one.
StatusRow == [IO : BOOLEAN, SQL : BOOLEAN, lag : Seconds \cup {Null}]
Statement(rows) ==
    [err : Errors, rows : {<<>>}] \cup [err : {NoError}, rows : {<<>>} \cup {<<r>> : r \in rows}]
Healthy == [IO |-> TRUE, SQL |-> TRUE, lag |-> 0]

\* The answers of a node of each list, and those of a healthy one.
MasterAnswers == [err : Errors \cup {NoError}, read_only : BOOLEAN]
MasterGood == [err |-> NoError, read_only |-> FALSE]
SlaveAnswers == [slave : Statement(StatusRow), replica : Statement(StatusRow)]
SlaveGood == LET row == [err |-> NoError, rows |-> <<Healthy>>]
             IN  [slave |-> row, replica |-> row]
RedisReplAnswers == [err : Errors \cup {NoError}, role : {"master", "slave", "sentinel"},
                     up : BOOLEAN, io : Seconds]
RedisReplGood(role) == [err |-> NoError, role |-> role, up |-> TRUE, io |-> 0]

-----------------------------------------------------------------------------

collectMySQLMaster(ip, a) ==
    [IP |-> ip, Error |-> a.err, ErrorClass |-> classifyMySQL(a.err),
     Status |-> IF a.err = NoError /\ ~ a.read_only THEN "ok" ELSE "warn"]

\* SHOW REPLICA STATUS is asked when the other gave no row, for whatever reason; what
\* it gives then decides.
StatusOfSlave(a) == IF a.slave.rows # <<>> THEN a.slave ELSE a.replica

\* A lag of NULL counts as none.
SecondsBehind(row) == IF row.lag = Null THEN 0 ELSE row.lag

SlaveGrade_LagAtThreshold(row, threshold) ==
    IF ~ (row.IO /\ row.SQL) THEN "critical"
    ELSE IF SecondsBehind(row) > threshold + 1 THEN "warn" ELSE "ok"

SlaveGrade(row, threshold) ==
    IF ~ (row.IO /\ row.SQL) THEN "critical"
    ELSE IF SecondsBehind(row) > threshold THEN "warn" ELSE "ok"

\* Status "" stands for Replication = nil.
collectMySQLSlave(ip, a, threshold) ==
    LET s == StatusOfSlave(a)
    IN  [IP |-> ip, Error |-> s.err, ErrorClass |-> classifyMySQL(s.err),
         Status |-> IF s.err # NoError THEN ""
                    ELSE IF s.rows = <<>> THEN "not-configured-as-slave"
                    ELSE SlaveGrade(s.rows[1], threshold)]

collectRedisReplication(ip, a, declared, threshold) ==
    LET slave == a.err = NoError /\ a.role = "slave"
    IN  [IP |-> ip, Error |-> a.err, ErrorClass |-> classifyRedis(a.err),
         Role |-> IF a.err = NoError THEN a.role ELSE "",
         RoleConsistencyStatus |-> IF a.err # NoError THEN "N/A"
                                   ELSE IF a.role = declared THEN "ok" ELSE "warn",
         LinkStatus |-> IF ~ slave THEN "N/A"
                        ELSE IF ~ a.up THEN "critical"
                        ELSE IF a.io > threshold THEN "warn" ELSE "ok"]

\* answers: of each of the four lists, an answer for each of its nodes.
CollectReplication(cfg, answers) ==
    LET Each(list, Collect(_, _)) ==
            [i \in DOMAIN cfg.hosts[list] |-> Collect(cfg.hosts[list][i], answers[list][i])]
        Slave(ip, a) == collectMySQLSlave(ip, a, cfg.Thresholds["mysql_lag"])
        RedisMaster(ip, a) == collectRedisReplication(ip, a, "master", cfg.Thresholds["redis_io"])
        RedisSlave(ip, a) == collectRedisReplication(ip, a, "slave", cfg.Thresholds["redis_io"])
    IN  [MySQLMasters |-> Each("mysql_master", collectMySQLMaster),
         MySQLSlaves |-> Each("mysql_slave", Slave),
         RedisNodes |-> Each("redis_master", RedisMaster) \o Each("redis_slave", RedisSlave)]

\* A slave without Replication yields no row.
SlaveRows(s) ==
    IF s.Status = "" THEN <<>> ELSE OkOrWarn(s.Status = "ok", <<"mysql_slave", s.IP, "replication">>)

CheckReplication(rep) ==
    LET Master(m) == OkOrWarn(m.Status = "ok", <<"mysql_master", m.IP, "read_only">>)
        Redis(n) == OkOrWarn(n.RoleConsistencyStatus = "ok", <<"redis", n.IP, "role">>)
                    \o IF n.LinkStatus = "N/A" THEN <<>>
                       ELSE OkOrWarn(n.LinkStatus = "ok", <<"redis", n.IP, "link">>)
    IN  RowsOfEach(rep.MySQLMasters, Master) \o RowsOfEach(rep.MySQLSlaves, SlaveRows)
        \o RowsOfEach(rep.RedisNodes, Redis)
=============================================================================
