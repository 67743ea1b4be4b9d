SPECIFICATION Spec
CONSTANTS
    c1 = c1
    c2 = c2
    Calls <- MCCalls
    Keys <- MCKeys
    MaxConcurrentLimboResolutions = 1
    MaxChanges = 3
    MaxUnread = 1
    MaxFaults = 2
INVARIANTS
    TypeOK
    SyncedIsTheBackend
    LimboIsPursued
    TargetsAreThose
    OutstandingAreToCome
    TrackerIsSound
    QuietMeansAnswered
SYMMETRY MCSymmetry
CHECK_DEADLOCK FALSE
