SPECIFICATION ReaderFairSpec
CONSTANTS
    w1 = w1
    w2 = w2
    Writers <- TwoWriters
    SegmentBytes = 1
    Setups <- TailSetups
    MaxAppends = 3
    MaxSegments = 2
    MaxStops = 1
INVARIANT InOrder
INVARIANT ReadsDurable
INVARIANT AckedSurvives
PROPERTY TailsToEnd
PROPERTY AppendsReturn
CHECK_DEADLOCK FALSE
