SPECIFICATION ClusterSpec
CONSTANTS
    n1 = n1
    n2 = n2
    n3 = n3
    Nodes <- ThreeNodes
    Keys = {"a"}
    Parts = 1
    Setups <- QuietSetup
    MaxLog = 4
    MaxRestarts = 1
    Clients <- TwoClients
    Callers <- TwoCallers
    Plans <- PassPlans
    MaxAttempts = 3
    MaxTerms = 2
INVARIANTS
    KeyedStoredOnce
    ResultStored
    Converges
    BarrierHonest
    NoAdvanceMissed
PROPERTY CallsReturn
CHECK_DEADLOCK FALSE
