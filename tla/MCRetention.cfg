SPECIFICATION RetentionSpec
CONSTANTS
    SegmentBytes = 2
    Sizes = {1, 2}
    Delays = {0, 2}
    Policies <- AllPolicies
    TimeWidth = 4
    Epoch = 2
    MaxClock = 4
    MaxAppends = 4
PROPERTIES
    DelayedKept
    DropsJustified
    BudgetMet
CHECK_DEADLOCK FALSE
