\* The behaviour ends when the calls or the directories are used up.
CONSTANTS
    Process = {p1, p2}
    Nothing = Nothing
    CallCap = 3
    TreeCap = 6
SPECIFICATION Spec
SYMMETRY Alike
INVARIANTS
    TypeOK
    SomeCopySurvives
    MigratedHasBackup
    MigratedOnce
    PackageIsThere
    EntriesSurviveMigration
CHECK_DEADLOCK FALSE
