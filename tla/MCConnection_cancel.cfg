SPECIFICATION Spec
CONSTANTS
    c1 = c1
    c2 = c2
    Callers <- TwoCallers
    Setups <- CancelSetups
    SockCap = 1
    MaxReqs = 3
    RespCap = 1
    SendCap = 1
    Window = 3
    DeliveryCap = 1
INVARIANT ResponsesAlwaysMatch
CHECK_DEADLOCK FALSE
