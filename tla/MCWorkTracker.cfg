\* Two routed sessions, a plan of up to two units, two attempts each.
CONSTANTS
    UnitId = {u1, u2}
    Fingerprint = {f1, f2}
    None = None
    MaxAttempts = 3
    Session = {s1, s2}
    AttemptCap = 2
    LedgerCap = 4
    RecordCap = 2
    RevisionCap = 2
    BatchCap = 2
SYMMETRY Symmetry
SPECIFICATION Spec
INVARIANTS
    TypeOK
    TrackerReadable
    OnlyCurrentUnitActive
    LedgerAccountsForAttempts
    RouterOffersLegalWork
PROPERTIES
    HandoffIsFinal
    PointerLeavesOnlyResolvedWork
