\* Runs as far apart as the pending TTL, no fault.
SPECIFICATION Spec
CONSTANTS
    queue1 = queue1
    queue2 = queue2
    NoProc = NoProc
    Procs = {p1}
    Items = {cpu, disk}
    SigKeys = {cpu, disk}
    SigKey <- PlainSigKey
    ConsecutiveRuns = 2
    PendingTTL = 2
    Cooldown = 5
    SendRecovery = TRUE
    MaxTime = 4
    MaxFaults = 0
    MaxStreak = 2
PROPERTY PendingAdvances
