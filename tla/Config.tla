------------------------------- MODULE Config -------------------------------
(***************************************************************************)
(* config/config.go: what Load makes of the environment, and the module and *)
(* host lists the collectors go by.                                         *)
(*                                                                          *)
(* env.lists holds the *_IP_COMMA variables, split at their commas;         *)
(* env.numbers the numeric variables; env.named the names of the other text *)
(* variables that are not empty; env.vhosts the vhost blacklist; env.paths  *)
(* CHECK_MOUNT_PATH; env.nfs INSPECT_DISK_INCLUDE_NFS.                      *)
(* A definition X_Change is a deliberately wrong variant of X.              *)
(***************************************************************************)
EXTENDS Integers, SequencesExt

CONSTANTS
    Blank,          \* an entry that is empty once trimmed
    Unset,          \* a variable that is not set (of a number: or empty)
    Malformed,      \* a text strconv does not accept
    Default,        \* value of each number that is not set
    DefaultVHosts   \* built-in vhost blacklist

PlainModules == {"paas", "cmdb", "job", "gse", "appo", "appt", "iam", "usermgr", "nodeman"}
MonitorRoles == {"bkmonitorv3-monitor", "bkmonitorv3-influxdb-proxy",
                 "bkmonitorv3-transfer", "bkmonitorv3-unify-query"}
Modules == PlainModules \cup MonitorRoles

\* The lists buildAllHosts goes through, in its order; the replication lists are
\* not among them.
HostLists == <<
    "paas", "cmdb", "job", "gse", "appo", "appt", "iam", "usermgr", "nodeman",
    "bkmonitorv3", "bkmonitorv3-monitor", "bkmonitorv3-influxdb-proxy",
    "bkmonitorv3-transfer", "bkmonitorv3-unify-query",
    "es7", "rabbitmq", "mysql", "mongodb", "redis", "sentinel">>
ReplicationLists == {"mysql_master", "mysql_slave", "redis_master", "redis_slave"}
Lists == ToSet(HostLists) \cup ReplicationLists

Numbers == {"cpu", "disk", "inode", "mem", "max_open_files", "mysql_lag", "redis_io",
            "backlog", "es_heap", "es_ram", "es_unassigned", "celery", "monitor",
            "docker_exited", "ssh_port", "rabbitmq_timeout"}

ASSUME ConfigAssumption == Default \in [Numbers -> Int]

-----------------------------------------------------------------------------
(* Reading one variable *)

\* The entries of a list that are not empty, in order, repeats included.
parseIPList(list) ==
    FlattenSeq([i \in DOMAIN list |-> IF list[i] = Blank THEN <<>> ELSE <<list[i]>>])

\* parseFloatEnv and parseIntEnv, when they succeed.
parseNumber(text, def) == IF text = Unset THEN def ELSE text

\* Once set, even to nothing, the variable replaces the built-in blacklist.
parseVHostBlacklist(vhosts) ==
    IF vhosts = Unset THEN DefaultVHosts ELSE vhosts \ {Blank}

\* The first of the variables that says something, by name; "" when none does.
firstNonEmpty(vars, named) ==
    SelectSeq(Append(vars, ""), LAMBDA v : v \in named \cup {""})[1]

\* The fields each dependency probe needs.  Each field of mysql falls back by
\* itself, so host and user may come from different groups of variables.
BKMonitorV3DepConfig(named) ==
    LET Var(v) == firstNonEmpty(<<v>>, named)
    IN  [redis     |-> <<Var("BK_MONITOR_REDIS_HOST"), Var("BK_MONITOR_REDIS_PORT")>>,
         mysql     |-> <<firstNonEmpty(<<"BK_MONITOR_MYSQL_HOST", "BK_PAAS_MYSQL_HOST",
                             "mysql.service.consul">>, named \cup {"mysql.service.consul"}),
                         firstNonEmpty(<<"BK_MONITOR_MYSQL_PORT", "BK_PAAS_MYSQL_PORT",
                             "3306">>, named \cup {"3306"}),
                         firstNonEmpty(<<"BK_MONITOR_MYSQL_USER", "BK_PAAS_MYSQL_USER">>, named)>>,
         rabbitmq  |-> <<Var("BK_MONITOR_RABBITMQ_HOST"), Var("BK_MONITOR_RABBITMQ_PORT"),
                         Var("BK_MONITOR_RABBITMQ_USERNAME")>>,
         zookeeper |-> <<Var("BK_GSE_ZK_HOST"), Var("BK_GSE_ZK_PORT")>>,
         es7       |-> <<Var("BK_MONITOR_ES7_HOST"), Var("BK_MONITOR_ES7_REST_PORT")>>,
         influxdb  |-> <<Var("BK_INFLUXDB_IP0"), Var("BK_MONITOR_INFLUXDB_PORT")>>]

-----------------------------------------------------------------------------
(* The lists *)

buildAllHosts_Repeats(hosts) == FlattenSeq([i \in DOMAIN HostLists |-> hosts[HostLists[i]]])

\* Every host once, in the order of its first mention.
buildAllHosts(hosts) ==
    FoldLeft(LAMBDA seen, ip : IF Contains(seen, ip) THEN seen ELSE Append(seen, ip), <<>>,
             FlattenSeq([i \in DOMAIN HostLists |-> hosts[HostLists[i]]]))

\* The hosts of each module.  A bkmonitorv3 role without a list of its own runs on
\* the hosts of bkmonitorv3.
GetModuleHosts(cfg) ==
    [m \in Modules |-> IF m \in MonitorRoles /\ cfg.hosts[m] = <<>>
                       THEN cfg.hosts["bkmonitorv3"] ELSE cfg.hosts[m]]

-----------------------------------------------------------------------------

\* A number that does not parse ends Load, and the program.
LoadFails(env) == \E n \in Numbers : env.numbers[n] = Malformed

Load(env) ==
    LET hosts == [l \in Lists |-> parseIPList(env.lists[l])]
    IN  [hosts      |-> hosts,
         AllHosts   |-> buildAllHosts(hosts),
         Thresholds |-> [n \in Numbers |-> parseNumber(env.numbers[n], Default[n])],
         vhosts     |-> parseVHostBlacklist(env.vhosts),
         deps       |-> BKMonitorV3DepConfig(env.named),
         paths      |-> env.paths,
         nfs        |-> env.nfs]

\* Validate: a platform of replication lists only is rejected as well.
Validate(cfg) == cfg.AllHosts # <<>>
=============================================================================
