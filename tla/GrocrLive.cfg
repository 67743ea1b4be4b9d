\* One phone, one document; connections, replies and permissions are lost.
CONSTANTS
    Devices = {a}
    Phones = {a}
    Keys = {1}
    Prices = {p1}
    Numeric = {p1}
    Dates = {t}
    LongDates = {t}
    Owners <- MCOwners
    Completions <- MCCompletions
    NoField = NoField
    PriceError = PriceError
    EmptyDate = EmptyDate
    NoDoc = NoDoc
    NoCompletion = NoCompletion
    NoDetail = NoDetail
    kMaxPendingWrites = 2
    MaxWrites = 2
    MaxQueries = 0
    MaxFaults = 2
    FaultKinds = {"offline", "lostReply", "refusal", "death"}
    MaxViews = 2
    MaxPopups = 1
    MaxUploads = 1
    MaxUploadFaults = 0
SPECIFICATION FairSpec
CHECK_DEADLOCK FALSE
PROPERTIES
    LoadingEnds
    PopupCloses
    QueuesDrain
