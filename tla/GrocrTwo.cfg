\* One phone and another client of the collection, one lost reply,
\* and a price that is no number.
CONSTANTS
    Devices = {a, b}
    Phones = {a}
    Keys = {1, 2}
    Prices = {p1, p2}
    Numeric = {p1}
    Dates = {t}
    LongDates = {t}
    Owners <- MCOwners
    Completions <- MCCompletions
    NoField = NoField
    PriceError = PriceError
    EmptyDate = EmptyDate
    NoDoc = NoDoc
    NoCompletion = NoCompletion
    NoDetail = NoDetail
    kMaxPendingWrites = 2
    MaxWrites = 2
    MaxQueries = 0
    MaxFaults = 1
    FaultKinds = {"lostReply"}
    MaxViews = 1
    MaxPopups = 1
    MaxUploads = 1
    MaxUploadFaults = 0
SPECIFICATION Spec
CHECK_DEADLOCK FALSE
INVARIANTS
    RowsAligned
PROPERTIES
    MarketContract
