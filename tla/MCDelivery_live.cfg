SPECIFICATION FairSpec
CONSTANTS
    s1 = s1
    s2 = s2
    Sessions <- TwoSessions
    Setups <- LiveSetups
    MaxMsgs = 2
    MaxSubs = 2
    MaxCrashes = 0
PROPERTY AllConsumed
CHECK_DEADLOCK FALSE
