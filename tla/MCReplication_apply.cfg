SPECIFICATION Spec
CONSTANTS
    n1 = n1
    n2 = n2
    Nodes <- TwoNodes
    Keys = {"a", "b", "c"}
    Parts = 2
    Setups <- PassSetups
    MaxLog = 5
    MaxRestarts = 2
SYMMETRY NodeSymmetry
INVARIANTS
    AppliedOnce
    NothingSkipped
    MsgIDsAgree
CHECK_DEADLOCK FALSE
