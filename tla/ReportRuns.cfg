\* Reports of two hosts that share a field, N = 2.
SPECIFICATION Spec
CONSTANTS
    h1 = h1
    h2 = h2
    cpu = cpu
    disk = disk
    broker = broker
    svc = svc
    queue = queue
    NoHost = NoHost
    HostSeq <- TwoHosts
    HostFields <- TwoHostFields
    FieldStatus <- Says
    OtherFields <- ModuleAndQueue
    ConsecutiveRuns = 2
INVARIANTS TypeOK MailMatchesReport UnsharedViewsAgree UnsharedConfirmed
