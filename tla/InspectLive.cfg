\* Two processes, one alert, one fault, a clock without an end, under Fairness.
SPECIFICATION EndlessSpec
CONSTANTS
    queue1 = queue1
    queue2 = queue2
    NoProc = NoProc
    Procs = {p1, p2}
    Items = {queue1}
    SigKeys = {queue1}
    SigKey <- VhostSigKey
    ConsecutiveRuns = 2
    PendingTTL = 1
    Cooldown = 1
    SendRecovery = TRUE
    MaxTime = 3
    MaxFaults = 1
    MaxStreak = 2
PROPERTIES AlertsTold RecoveryTold
