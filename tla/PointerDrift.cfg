\* Two processes create packages on an empty project.
CONSTANTS
    Id = {alpha, beta}
    Date = {monday}
    Process = {p1, p2}
    Nothing = Nothing
    CallCap = 2
SPECIFICATION Spec
INVARIANTS
    PointerAndPromptAgree
CHECK_DEADLOCK FALSE
