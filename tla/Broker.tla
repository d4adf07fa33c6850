------------------------------- MODULE Broker --------------------------------
(***************************************************************************)
(* RabbitMQ through its management API: collector/rabbitmq.go and           *)
(* checker/rabbitmq.go.  Calls of curl, one after the other, to the first   *)
(* host of the list.  The totals no rule looks at (the call for channels,   *)
(* the sums per vhost, uptime) are left out.                                *)
(* A definition X_Change is a deliberately wrong variant of X.              *)
(***************************************************************************)
EXTENDS Probe

\* rmqAPI: a call fails (of curl, or the body is not JSON), or gives a list.  The body
\* that rejects a login is JSON, of which the code sees an empty list and no error.
\* Without curl the first call fails, as one that was killed.
Api(entries) ==
    [err : CurlErrors \cup {"not-JSON"}, list : {<<>>}, rejected : {FALSE}]
    \cup [err : {NoError}, list : {<<>>}, rejected : {TRUE}]
    \cup [err : {NoError}, list : {<<>>} \cup {<<e>> : e \in entries}, rejected : {FALSE}]

NodeViews == [mem_alarm : BOOLEAN, disk_free_alarm : BOOLEAN, partitions : BOOLEAN]
\* usual is false of the queues of bk_usermgr and of those named celeryev.
QueueViews(vhosts) ==
    [vhost : vhosts, usual : BOOLEAN, messages : 0 .. 2, consumers : 0 .. 1]

BrokerAnswers(vhosts) ==
    [nodes : Api(NodeViews), conns : Api({"running", "blocked", ""}),
     queues : Api(QueueViews(vhosts))]
\* With a queue that is empty and consumed.
BrokerGood(vhosts) ==
    LET Listing(entry) == [err |-> NoError, list |-> <<entry>>, rejected |-> FALSE]
    IN  [nodes |-> Listing([mem_alarm |-> FALSE, disk_free_alarm |-> FALSE, partitions |-> FALSE]),
         conns |-> Listing("running"),
         queues |-> Listing([vhost |-> CHOOSE v \in vhosts : TRUE, usual |-> TRUE,
                             messages |-> 0, consumers |-> 1])]

\* rmqAPI wraps the error of curl in a new one, so only its text is left to tell the
\* class; the text of curl's own timeout is not among those Classify knows.
rmqErrClass(err) ==
    CASE err = NoError -> "" [] err = "refused" -> "network" [] OTHER -> "unknown"

Exceeding_Above(q, backlog) == q.messages > backlog

Exceeding(q, backlog) == q.messages >= backlog

Unconsumed(q, blacklist) == q.consumers = 0 /\ q.messages > 0 /\ q.vhost \notin blacklist

\* Without the nodes nothing else is asked.  Connections that cannot be had are
\* passed over, queues leave an error.
CollectRabbitMQ(a, cfg) ==
    LET asked == a.nodes.err = NoError
        List(call) == IF asked THEN call.list ELSE <<>>
        Usual(q) == q.usual
        queues == Keep(List(a.queues), Usual)
    IN  [Error |-> a.nodes.err, ErrorClass |-> rmqErrClass(a.nodes.err),
         QueuesError |-> IF asked THEN a.queues.err ELSE "",
         NodeAlarms |-> Keep(a.nodes.list, LAMBDA n : n.mem_alarm \/ n.disk_free_alarm),
         ClusterPartition |-> \E n \in ToSet(a.nodes.list) : n.partitions,
         AbnormalConnections |->
            Len(Keep(List(a.conns), LAMBDA state : state \notin {"running", ""})),
         ExceedingQueues |->
            Keep(queues, LAMBDA q : Exceeding(q, cfg.Thresholds["backlog"])),
         NoConsumerQueues |-> Keep(queues, LAMBDA q : Unconsumed(q, cfg.vhosts))]

CheckRabbitMQ(r) ==
    LET OfCluster(what) == <<"rabbitmq", "cluster", what>>
        Alarms(n) == RowIf(n.mem_alarm, <<"rabbitmq", "node", "mem_alarm">>, "warn")
                     \o RowIf(n.disk_free_alarm, <<"rabbitmq", "node", "disk_free_alarm">>, "warn")
        Backlog(q) == <<CheckResult(<<"rabbitmq", q.vhost, "backlog">>, "warn")>>
        NoConsumer(q) == <<CheckResult(<<"rabbitmq", q.vhost, "no_consumer">>, "warn")>>
    IN  RowIf(r.Error # "", OfCluster("error"), "warn")
        \o RowIf(r.QueuesError # "", OfCluster("queues_error"), "warn")
        \o RowIf(r.ClusterPartition, OfCluster("cluster_partition"), "warn")
        \o RowIf(r.AbnormalConnections > 0, OfCluster("abnormal_connections"), "warn")
        \o RowsOfEach(r.NodeAlarms, Alarms)
        \o RowsOfEach(r.ExceedingQueues, Backlog)
        \o RowsOfEach(r.NoConsumerQueues, NoConsumer)
=============================================================================
