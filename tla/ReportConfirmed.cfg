\* The same instance, asked for Confirmed of every row.
SPECIFICATION Spec
CONSTANTS
    h1 = h1
    h2 = h2
    cpu = cpu
    disk = disk
    broker = broker
    svc = svc
    queue = queue
    NoHost = NoHost
    HostSeq <- TwoHosts
    HostFields <- TwoHostFields
    FieldStatus <- Says
    OtherFields <- ModuleAndQueue
    ConsecutiveRuns = 2
INVARIANT Confirmed
