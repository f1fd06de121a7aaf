SPECIFICATION Spec
CONSTANTS
    w1 = w1
    w2 = w2
    Writers <- TwoWriters
    SegmentBytes = 1
    Setups <- ReuseSetups
    MaxAppends = 3
    MaxSegments = 2
    MaxStops = 2
INVARIANT MsgIDMonotonic
CHECK_DEADLOCK FALSE
