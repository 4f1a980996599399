----------------------------- MODULE HandoffReports -----------------------------
(***************************************************************************)
(* The reports under .agent-checkpoint/handoff (handoff.py): a session     *)
(* files one under the first free name of its title, every handoff lists   *)
(* those that are open, and a session that has acted on one removes it by  *)
(* its name. No lock is taken.                                             *)
(***************************************************************************)
EXTENDS Naturals

CONSTANTS
    Session,    \* sessions that run commands on the project
    Title,      \* work id, unit id and title of a report, as one
    ReportCap,  \* bound: reports filed, and suffixes of a name
    NoReport    \* no file of that name

ASSUME ReportsAssumption == ReportCap \in Nat /\ NoReport \notin Nat

VARIABLES
    reports,    \* per name, the number of the report in the file
    filing,     \* per session, the report it is writing
    known,      \* per session, per name, the report it found there
    filed,      \* reports whose filing has ended well
    count,      \* reports so far
    resolved,   \* reports removed by a session that had read them
    misnamed,   \* reports removed by a session that had read another one
    overlapped  \* reports another session was about to overwrite as they were filed

vars == <<reports, filing, known, filed, count, resolved, misnamed, overlapped>>
ghosts == <<resolved, misnamed, overlapped>>

Report == 1 .. ReportCap
Name == Title \X (0 .. ReportCap)
Empty == [name \in Name |-> NoReport]
NotFiling == [step |-> "none", name |-> <<NoReport, 0>>, report |-> 0]

TypeOK ==
    /\ reports \in [Name -> Report \cup {NoReport}]
    /\ filing \in [Session ->
          [step : {"look", "write"}, name : Name, report : Report] \cup {NotFiling}]
    /\ known \in [Session -> [Name -> Report \cup {NoReport}]]
    /\ count \in 0 .. ReportCap
    /\ filed \cup resolved \cup misnamed \cup overlapped \subseteq Report

Init ==
    /\ reports = Empty
    /\ filing = [s \in Session |-> NotFiling]
    /\ known = [s \in Session |-> Empty]
    /\ filed = {} /\ resolved = {} /\ misnamed = {} /\ overlapped = {}
    /\ count = 0

----------------------------------------------------------------------------
(* write_handoff_report.                                                   *)

BeginFiling(s, title) ==
    /\ filing[s] = NotFiling
    /\ count < ReportCap
    /\ count' = count + 1
    /\ filing' = [filing EXCEPT ![s] =
                     [step |-> "look", name |-> <<title, 0>>, report |-> count + 1]]
    /\ UNCHANGED <<reports, known, filed, ghosts>>

\* The suffix is the number of the title's open reports.
LookForCount(s) ==
    LET title == filing[s].name[1]
        open == {k \in 0 .. ReportCap : reports[title, k] # NoReport}
        suffix == CHOOSE n \in 0 .. ReportCap + 1 : \E f \in [open -> 1 .. n] : {f[k] : k \in open} = 1 .. n
    IN
    /\ filing[s].step = "look"
    /\ filing' = [filing EXCEPT ![s].step = "write", ![s].name = <<title, suffix>>]
    /\ UNCHANGED <<reports, known, filed, count, ghosts>>

\* target_path.exists(), one suffix after the other.
LookForName(s) ==
    LET name == filing[s].name IN
    /\ filing[s].step = "look"
    /\ \/ /\ reports[name] = NoReport
          /\ filing' = [filing EXCEPT ![s].step = "write"]
       \/ /\ reports[name] # NoReport
          /\ name[2] < ReportCap
          /\ filing' = [filing EXCEPT ![s].name = <<name[1], name[2] + 1>>]
    /\ UNCHANGED <<reports, known, filed, count, ghosts>>

\* storage._atomic_write replaces whatever has the name by now.
WriteReport(s) ==
    /\ filing[s].step = "write"
    /\ reports' = [reports EXCEPT ![filing[s].name] = filing[s].report]
    /\ filed' = filed \cup {filing[s].report}
    /\ overlapped' = IF \E t \in Session \ {s} :
                           filing[t].step = "write" /\ filing[t].name = filing[s].name
                     THEN overlapped \cup {filing[s].report}
                     ELSE overlapped
    /\ filing' = [filing EXCEPT ![s] = NotFiling]
    /\ UNCHANGED <<known, count, resolved, misnamed>>

\* An OSError of the write, or a kill: nothing is filed.
FilingFails(s) ==
    /\ filing[s] # NotFiling
    /\ filing' = [filing EXCEPT ![s] = NotFiling]
    /\ UNCHANGED <<reports, known, filed, count, ghosts>>

----------------------------------------------------------------------------

\* list_open_handoff_reports; the session reads the files it finds.
ListReports(s) ==
    /\ known' = [known EXCEPT ![s] = reports]
    /\ UNCHANGED <<reports, filing, filed, count, ghosts>>

\* A removal that takes every report of the title.
ResolveTitle(s, name) ==
    /\ known[s][name] # NoReport /\ reports[name] # NoReport
    /\ reports' = [n \in Name |-> IF n[1] = name[1] THEN NoReport ELSE reports[n]]
    /\ resolved' = resolved \cup ({known[s][name]} \cap {reports[name]})
    /\ misnamed' = misnamed \cup ({reports[name]} \ {known[s][name]})
    /\ known' = [known EXCEPT ![s][name] = NoReport]
    /\ UNCHANGED <<filing, filed, count, overlapped>>

\* resolve_handoff_report: by bare name, whatever has that name by now.
ResolveReport(s, name) ==
    /\ known[s][name] # NoReport
    /\ reports[name] # NoReport
    /\ reports' = [reports EXCEPT ![name] = NoReport]
    /\ resolved' = resolved \cup ({known[s][name]} \cap {reports[name]})
    /\ misnamed' = misnamed \cup ({reports[name]} \ {known[s][name]})
    /\ known' = [known EXCEPT ![s][name] = NoReport]
    /\ UNCHANGED <<filing, filed, count, overlapped>>

ReportStep(s) ==
    \/ \E title \in Title : BeginFiling(s, title)
    \/ LookForName(s) \/ WriteReport(s) \/ FilingFails(s)
    \/ ListReports(s)
    \/ \E name \in Name : ResolveReport(s, name)

Next == \E s \in Session : ReportStep(s)

Spec == Init /\ [][Next]_vars

----------------------------------------------------------------------------
OnDisk == {reports[name] : name \in Name}

\* A filed report is there until a session that has read it resolves it, however
\* many clashing titles are filed and resolved in any order. Two races are
\* excepted: another session was writing under the same name, and a session
\* resolves by name a report that took the name of the one it had read.
ReportsSurvive == filed \ (resolved \cup misnamed \cup overlapped) \subseteq OnDisk

=============================================================================
