\* Two phones, one lost reply.
CONSTANTS
    Devices = {a, b}
    Keys = {1, 2}
    Prices = {p1, p2}
    Dates = {t}
    Completions = {c}
    Owners = {}
    NoField = NoField
    PriceError = PriceError
    EmptyDate = EmptyDate
    NoDoc = NoDoc
    NoCompletion = NoCompletion
    kMaxPendingWrites = 2
    MaxWrites = 3
    MaxQueries = 0
    MaxFaults = 1
    FaultKinds = {"offline", "lostReply", "refusal", "queryError", "death"}
SPECIFICATION MarketSpec
SYMMETRY Symmetry
CHECK_DEADLOCK FALSE
PROPERTIES
    DeletedStaysDeleted
