\* A session follows checkpoint-diagnose and reads the router again.
CONSTANTS
    UnitId = {u1, u2}
    Fingerprint = {f1, f2}
    None = None
    MaxAttempts = 2
    Session = {s1, s2}
    AttemptCap = 2
    LedgerCap = 4
    RecordCap = 2
    RevisionCap = 2
    BatchCap = 2
SYMMETRY Symmetry
SPECIFICATION Spec
INVARIANT DiagnosisLeadsOn
