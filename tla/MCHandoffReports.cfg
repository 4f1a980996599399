\* The behaviour ends when all reports are filed and resolved.
CONSTANTS
    Session = {s1, s2, s3}
    Title = {t1, t2}
    ReportCap = 3
    NoReport = NoReport
SPECIFICATION Spec
SYMMETRY Interchangeable
INVARIANTS
    ReportsSurvive
CHECK_DEADLOCK FALSE
