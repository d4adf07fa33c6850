\* Two overlapping runs, two alerts, N = 2, one fault.
SPECIFICATION Spec
CONSTANTS
    queue1 = queue1
    queue2 = queue2
    NoProc = NoProc
    Procs = {p1, p2}
    Items = {cpu, disk}
    SigKeys = {cpu, disk}
    SigKey <- PlainSigKey
    ConsecutiveRuns = 2
    PendingTTL = 2
    Cooldown = 2
    SendRecovery = TRUE
    MaxTime = 2
    MaxFaults = 1
    MaxStreak = 2
SYMMETRY Symmetric
INVARIANTS TypeOK NoLostUpdate MailRecorded
PROPERTIES AlertConfirmed RecoveryConfirmed MailsAsPromised
