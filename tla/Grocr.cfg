\* One phone, two documents, two writing handlers, one fault of any kind.
CONSTANTS
    Devices = {a}
    Phones = {a}
    Keys = {1, 2}
    Prices = {p1, p2}
    Numeric = {p1, p2}
    Dates = {t}
    LongDates = {t}
    Owners <- MCOwners
    Completions <- MCCompletions
    NoField = NoField
    PriceError = PriceError
    EmptyDate = EmptyDate
    NoDoc = NoDoc
    NoCompletion = NoCompletion
    NoDetail = NoDetail
    kMaxPendingWrites = 2
    MaxWrites = 2
    MaxQueries = 0
    MaxFaults = 1
    FaultKinds = {"offline", "lostReply", "refusal", "queryError", "death"}
    MaxViews = 2
    MaxPopups = 1
    MaxUploads = 2
    MaxUploadFaults = 1
SPECIFICATION Spec
SYMMETRY Symmetry
CHECK_DEADLOCK FALSE
INVARIANTS
    TypeOK
    RowsAligned
    ReadsItsWrites
PROPERTIES
    MarketContract
