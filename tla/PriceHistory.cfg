\* Two phones, up to three entries beyond the first.
CONSTANTS
    Writers = {w1, w2}
    Prices = {p1, p2, p3}
    Dates = {t1, t2, t3}
    MaxEntries = 4
    NoField = NoField
    PriceError = PriceError
    EmptyDate = EmptyDate
SPECIFICATION Spec
SYMMETRY Symmetry
CHECK_DEADLOCK FALSE
INVARIANTS
    TypeOK
    DrawingInBounds
    EntriesKept
    ChartIsTheEntries
