SPECIFICATION Spec
CONSTANTS
    s1 = s1
    s2 = s2
    Sessions <- TwoSessions
    Setups <- SafetySetups
    MaxMsgs = 3
    MaxSubs = 3
    MaxCrashes = 1
INVARIANT TypeOK
INVARIANT WindowBound
INVARIANT NothingSkipped
INVARIANT NoLostWakeup
INVARIANT ResumePoint
INVARIANT OffsetsPersisted
PROPERTY DiskMonotonic
CHECK_DEADLOCK FALSE
