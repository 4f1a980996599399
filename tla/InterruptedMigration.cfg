\* One process migrates the package and is interrupted.
CONSTANTS
    Process = {p1}
    Nothing = Nothing
    CallCap = 1
    TreeCap = 3
SPECIFICATION Spec
SYMMETRY Alike
INVARIANT FailureChangesNothing
CHECK_DEADLOCK FALSE
