\* A broker whose management API and whose AMQP port may reject the login.
SPECIFICATION Spec
CONSTANTS
    Blank = Blank
    Unset = Unset
    Malformed = Malformed
    h1 = h1
    h2 = h2
    h3 = h3
    v1 = v1
    v2 = v2
    Default <- Ones
    DefaultVHosts = {v1}
    VHosts = {v1, v2}
    Environments <- BrokerTwice
INVARIANT RejectedLoginTold
CHECK_DEADLOCK FALSE
