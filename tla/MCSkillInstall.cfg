\* The behaviour ends when both commands have ended.
CONSTANTS
    Dir = {d1, d2, d3}
    Command = {c1, c2}
    Skills = 2
    RootCap = 2
    Others = Others
    Nothing = Nothing
SPECIFICATION Spec
SYMMETRY Interchangeable
INVARIANTS
    TypeOK
    FailureLeavesNothing
    SuccessStands
    NoDanglingLink
PROPERTIES
    OnlyOwnRemoved
CHECK_DEADLOCK FALSE
