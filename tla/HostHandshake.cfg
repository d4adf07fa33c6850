\* The same, with hosts that may accept the connection and stay silent.
SPECIFICATION FairSpec
CONSTANTS
    Hosts = {h1, h2}
    Sections = 1
    HandshakeMayHang = TRUE
PROPERTY OthersCollected
CHECK_DEADLOCK FALSE
