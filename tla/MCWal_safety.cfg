SPECIFICATION Spec
CONSTANTS
    w1 = w1
    w2 = w2
    Writers <- TwoWriters
    SegmentBytes = 2
    Setups <- AllSetups
    MaxAppends = 5
    MaxSegments = 3
    MaxStops = 3
SYMMETRY WriterSymmetry
INVARIANT TypeOK
INVARIANT CommittedDurable
INVARIANT AckedScannable
INVARIANT OpenSucceeds
INVARIANT MsgIDsNotReused
INVARIANT MsgIDsDense
PROPERTY Implements
CHECK_DEADLOCK FALSE
