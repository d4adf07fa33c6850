\* One run at a time, N = 3, two faults: the gates that count to three.
SPECIFICATION Spec
CONSTANTS
    queue1 = queue1
    queue2 = queue2
    NoProc = NoProc
    Procs = {p1}
    Items = {queue1, queue2}
    SigKeys = {queue1}
    SigKey <- VhostSigKey
    ConsecutiveRuns = 3
    PendingTTL = 2
    Cooldown = 2
    SendRecovery = TRUE
    MaxTime = 3
    MaxFaults = 2
    MaxStreak = 3
INVARIANT MailRecorded
PROPERTIES AlertConfirmed RecoveryConfirmed MailsAsPromised
