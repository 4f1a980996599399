\* One package. The behaviour ends when calls and edits are used up.
CONSTANTS
    Session = {s1, s2}
    LastId = 1
    Config = {plain, renamed}
    Rule = {r1, r2}
    Begin = Begin
    End = End
    None = None
    CallCap = 3
    EditCap = 3
    LineCap = 8
SPECIFICATION Spec
SYMMETRY Interchangeable
INVARIANTS
    TypeOK
    LiveProgressStaysOut
    UserRulesKept
    ManagedBlockSettles
CHECK_DEADLOCK FALSE
