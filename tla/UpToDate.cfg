SPECIFICATION Spec
CONSTANTS
    c1 = c1
    c2 = c2
    Calls <- MCCalls
    Keys <- MCKeys
    MaxConcurrentLimboResolutions = 1
    MaxChanges = 3
    MaxUnread = 0
    MaxFaults = 0
INVARIANT FromServerIsUpToDate
SYMMETRY MCSymmetry
CHECK_DEADLOCK FALSE
