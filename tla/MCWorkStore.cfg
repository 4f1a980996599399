\* The behaviour ends when the calls are used up.
\* Two processes race for one package; each may die and each file operation fail.
CONSTANTS
    u1 = u1
    u2 = u2
    UnitId <- MCUnitId
    Fingerprint = {f1}
    None = None
    Nothing = Nothing
    MaxAttempts = 2
    Plan <- MCPlan
    Process = {p1, p2}
    MishapCap = 1
    CallCap = 3
SPECIFICATION Spec
INVARIANTS
    TypeOK
    EvidenceNeverAhead
PROPERTIES
    RaisesUnchanged
    ImplementsCommands
    EveryCommandEnds
CHECK_DEADLOCK FALSE
