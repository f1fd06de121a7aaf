SPECIFICATION Spec
CONSTANTS
    n1 = n1
    n2 = n2
    Nodes <- TwoNodes
    Keys = {"a", "b", "c"}
    Parts = 2
    Setups <- AckSetups
    MaxLog = 5
    MaxRestarts = 2
INVARIANT ReplicasAgree
CHECK_DEADLOCK FALSE
