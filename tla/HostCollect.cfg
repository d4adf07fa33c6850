\* Three hosts, commands that may hang, break or answer late.
SPECIFICATION FairSpec
CONSTANTS
    Hosts = {h1, h2, h3}
    Sections = 2
    HandshakeMayHang = FALSE
INVARIANTS TypeOK SampledBefore 
PROPERTIES ResultsSettle CollectionEnds GoroutinesEnd
CHECK_DEADLOCK FALSE
