SPECIFICATION FairSpec
CONSTANTS
    Topics = {"t1", "t2"}
    Callers = {"c1", "c2"}
    RoutingKeys = {"k1"}
    Hash <- MCHash
    MaxParts = 3
    Setups <- PassSetups
INVARIANT OneLogEach
INVARIANT CountFixed
INVARIANT KeyedTogether
INVARIANT Reachable
PROPERTY CallsReturn
CHECK_DEADLOCK FALSE
