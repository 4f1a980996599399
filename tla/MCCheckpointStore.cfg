\* Two processes, four commands, entries of one or two out of two units.
\* The behaviour ends when the calls are used up.
CONSTANTS
    Process = {p1, p2}
    Nothing = Nothing
    MishapCap = 1
    MaxLiveChars = 2
    EntrySize = {1, 3}
    CallCap = 4
SYMMETRY Symmetry
SPECIFICATION Spec
INVARIANTS
    TypeOK
    NothingLost
    LiveWithinBudget
    RecencyKept
PROPERTY PinnedStayLive
CHECK_DEADLOCK FALSE
