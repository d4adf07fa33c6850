\* Constant warnings, no fault, all within one cooldown.
SPECIFICATION CalmSpec
CONSTANTS
    NoProc = NoProc
    Procs = {p1}
    Items = {cpu, disk}
    SigKeys = {cpu, disk}
    SigKey <- PlainSigKey
    ConsecutiveRuns = 2
    PendingTTL = 9
    Cooldown = 5
    SendRecovery = TRUE
    MaxTime = 4
    MaxFaults = 0
    MaxStreak = 2
PROPERTY OneMailPerCooldown
