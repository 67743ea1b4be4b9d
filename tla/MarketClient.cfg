\* Two phones, one document name, any two writing handlers, two faults.
CONSTANTS
    Devices = {a, b}
    Keys = {1}
    Prices = {p1, p2}
    Dates = {t}
    Completions = {c}
    Owners = {o}
    NoField = NoField
    PriceError = PriceError
    EmptyDate = EmptyDate
    NoDoc = NoDoc
    NoCompletion = NoCompletion
    kMaxPendingWrites = 2
    MaxWrites = 2
    MaxQueries = 1
    MaxFaults = 2
    FaultKinds = {"offline", "lostReply", "refusal", "queryError"}
SPECIFICATION MarketSpec
SYMMETRY Symmetry
CHECK_DEADLOCK FALSE
INVARIANTS
    MarketTypeOK
    DocsHaveHistory
    CreationsAreFresh
    AnswersHaveHistory
PROPERTIES
    HistoriesOnlyGrow
    UpdatesDoNotResurrect
