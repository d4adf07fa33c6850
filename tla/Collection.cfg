\* Whole platforms in good health, and small ones with one part in trouble.
SPECIFICATION FairSpec
CONSTANTS
    Blank = Blank
    Unset = Unset
    Malformed = Malformed
    h1 = h1
    h2 = h2
    h3 = h3
    v1 = v1
    v2 = v2
    Default <- Ones
    DefaultVHosts = {v1}
    VHosts = {v1, v2}
    Environments <- MCEnvironments
INVARIANTS
    TypeOK EveryHostOnce NobodyMissing OkMeansAnswered FailureTold LeaderIsFirst
    CutHostWarned SentinelVerdict BrokerVerdict ReplicationVerdict HealthyIsQuiet DepsIffRoles
CHECK_DEADLOCK FALSE
PROPERTIES ServicesGathered DepsSettle CollectionEnds
