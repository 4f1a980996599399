\* The behaviour ends when the calls are used up.
CONSTANTS
    Id = {alpha, beta}
    Date = {monday, tuesday}
    Process = {p1, p2, p3}
    Nothing = Nothing
    CallCap = 5
SPECIFICATION Spec
SYMMETRY Interchangeable
INVARIANTS
    TypeOK
    FinishedWorkKept
    PointerNamesAPackage
    FinishedStaysOnlyIfSlotTaken
PROPERTIES
    ArchiveIsFinal
    OnlyCreatorDiscards
CHECK_DEADLOCK FALSE
