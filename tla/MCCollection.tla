---------------------------- MODULE MCCollection ----------------------------
(* Environments of Collection for TLC. *)
EXTENDS Collection, TLC

CONSTANTS h1, h2, h3, v1, v2

\* Each number is 1 when it is not set.
Ones == [n \in Numbers |-> 1]

\* An environment that sets these lists, with everything else left out.
Setting(lists, troubled) ==
    [lists    |-> lists @@ [l \in Lists |-> <<>>],
     numbers  |-> [n \in Numbers |-> Unset],
     named    |-> {},
     vhosts   |-> Unset,
     paths    |-> {},
     nfs      |-> FALSE,
     troubled |-> troubled]

Monitored(named, troubled) ==
    [Setting("bkmonitorv3" :> <<h1>>, troubled) EXCEPT !.named = named]
Redis     == {"BK_MONITOR_REDIS_HOST", "BK_MONITOR_REDIS_PORT"}
MySQL     == {"BK_PAAS_MYSQL_USER"}
RabbitMQ  == {"BK_MONITOR_RABBITMQ_HOST", "BK_MONITOR_RABBITMQ_PORT", "BK_MONITOR_RABBITMQ_USERNAME"}
ZooKeeper == {"BK_GSE_ZK_HOST", "BK_GSE_ZK_PORT"}
ES7       == {"BK_MONITOR_ES7_HOST", "BK_MONITOR_ES7_REST_PORT"}
InfluxDB  == {"BK_INFLUXDB_IP0", "BK_MONITOR_INFLUXDB_PORT"}

\* A platform in good health, with blank entries and repeated hosts in its lists.
Platform ==
    [Setting(
        "gse" :> <<h1, Blank, h2>> @@ "bkmonitorv3" :> <<h1>>
        @@ "bkmonitorv3-monitor" :> <<h2, Blank>> @@ "es7" :> <<h1, h2>> @@ "mysql" :> <<h2, h3>>
        @@ "mysql_master" :> <<h2>> @@ "mysql_slave" :> <<h3>> @@ "redis" :> <<h1, h1>>
        @@ "redis_master" :> <<h1>> @@ "redis_slave" :> <<h2>> @@ "sentinel" :> <<h1, h2>>
        @@ "mongodb" :> <<h3>> @@ "rabbitmq" :> <<h1, Blank>>, {})
     EXCEPT !.named = Redis \cup MySQL \cup RabbitMQ \cup ZooKeeper \cup ES7 \cup InfluxDB,
            !.vhosts = {v2, Blank}, !.numbers["es_unassigned"] = 0,
            !.numbers["docker_exited"] = 0]

\* Platforms the program refuses.
Refused == {
    Setting("mysql_master" :> <<h1>> @@ "redis_slave" :> <<h2>>, {}),
    [Platform EXCEPT !.numbers["backlog"] = Malformed]}

\* One part in trouble at a time.
Hosts == {
    Setting("es7" :> <<h1>>, {"hosts"}),
    [Setting("paas" :> <<h1>>, {"hosts"}) EXCEPT !.nfs = TRUE],
    [Setting("iam" :> <<h1>>, {"hosts"}) EXCEPT !.paths = {"nfs"}]}
OfServices ==
    {Setting("gse" :> <<h1, h1>> @@ "nodeman" :> <<h2>>, {"services"})}
    \cup {Setting(m :> <<h1>>, {"services"}) : m \in {"job", "appo", "paas", "cmdb"}}
OfComponents == {
    Setting("es7" :> <<h1, h2>>, {"es"}),
    Setting("paas" :> <<h1>>, {"es"}),
    Setting("mysql" :> <<h1>>, {"mysql"}),
    Setting("redis" :> <<h2>>, {"redis"}),
    Setting("sentinel" :> <<h1, h2>> @@ "redis_master" :> <<h1>>, {"sentinel"}),
    Setting("sentinel" :> <<h1, h2>>, {"sentinel"}),
    Setting("mongodb" :> <<h1>>, {"mongo"}),
    Setting("rabbitmq" :> <<h1>>, {"rabbitmq"})}
OfReplication ==
    {Setting(l :> <<h1>> @@ "mysql" :> <<h3>>, {l}) : l \in ReplicationLists}
    \cup {Setting("redis_master" :> <<h1>> @@ "redis_slave" :> <<h2>> @@ "redis" :> <<h1, h2>>,
                  {"redis_slave"}),
          Setting("redis_master" :> <<h1>> @@ "redis_slave" :> <<h1>> @@ "redis" :> <<h2>>,
                  {"redis_slave"}),
          Setting("mysql_master" :> <<h1, h1>> @@ "mysql" :> <<h2>>, {"mysql_master"})}
OfDependencies == {
    [Setting("bkmonitorv3-transfer" :> <<h1>>, {}) EXCEPT !.named = Redis],
    Monitored(Redis \cup MySQL \cup ZooKeeper, {"deps"}),
    Monitored(RabbitMQ \cup ES7 \cup InfluxDB, {"deps"})}

\* One broker, listed and a dependency of bkmonitorv3.
BrokerTwice ==
    {[Setting("bkmonitorv3" :> <<h1>> @@ "rabbitmq" :> <<h1>>, {"rabbitmq", "deps"})
      EXCEPT !.named = RabbitMQ]}

MCEnvironments ==
    {Platform} \cup Refused \cup Hosts \cup OfServices \cup OfComponents
    \cup OfReplication \cup OfDependencies
=============================================================================
