\* Two slaves over eight runs.
SPECIFICATION Spec
CONSTANTS
    h1 = h1
    h2 = h2
    Items = {h1, h2}
    SigKeys = {h1, h2}
    SigKey <- PlainSigKey
    ConsecutiveRuns = 2
    PendingTTL = 9
    Cooldown = 3
    SendRecovery = TRUE
    Slaves <- TwoSlaves
    Lag = 1
    Answers <- SlaveAnswers
    MaxTime = 8
PROPERTY RecoveryMeansHealthy
