\* work start for any unit, without asking the router which is current.
\* Commands stop at the bounds, so the run may end.
CONSTANTS
    UnitId = {u1, u2}
    Fingerprint = {f1, f2}
    None = None
    MaxAttempts = 3
    Session = {s1, s2}
    AttemptCap = 2
    LedgerCap = 4
    RecordCap = 2
    RevisionCap = 2
    BatchCap = 2
SYMMETRY Symmetry
SPECIFICATION UnroutedSpec
INVARIANT TrackerReadable
CHECK_DEADLOCK FALSE
