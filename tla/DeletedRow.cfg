\* One phone that deletes two rows.
CONSTANTS
    Devices = {a}
    Phones = {a}
    Keys = {1, 2}
    Prices = {p1, p2}
    Numeric = {p1, p2}
    Dates = {t}
    LongDates = {t}
    Owners <- MCOwners
    Completions <- MCCompletions
    NoField = NoField
    PriceError = PriceError
    EmptyDate = EmptyDate
    NoDoc = NoDoc
    NoCompletion = NoCompletion
    NoDetail = NoDetail
    kMaxPendingWrites = 2
    MaxWrites = 2
    MaxQueries = 0
    MaxFaults = 0
    FaultKinds = {}
    MaxViews = 1
    MaxPopups = 1
    MaxUploads = 1
    MaxUploadFaults = 0
SPECIFICATION Spec
CHECK_DEADLOCK FALSE
INVARIANTS
    DeletedRowExists
