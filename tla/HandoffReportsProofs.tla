--------------------------- MODULE HandoffReportsProofs ---------------------------
(***************************************************************************)
(* A filed report is never lost, for every number of sessions, titles and  *)
(* reports. The invariant adds what the free name was worth: a session     *)
(* about to write finds the name still free, or the report under it is one *)
(* that was written while this session already held the name.              *)
(***************************************************************************)
EXTENDS HandoffReports, TLAPS

\* The name a session has found free is free, or was taken since.
FreeOrTakenSince ==
    \A s \in Session :
       filing[s].step = "write" =>
          reports[filing[s].name] \in overlapped \cup {NoReport}

\* A filed report is in a file, unless one of the named steps removed it.
Kept ==
    \A r \in filed \ (resolved \cup misnamed \cup overlapped) :
       \E name \in Name : reports[name] = r

IInv == TypeOK /\ FreeOrTakenSince /\ Kept

\* A name under a session's hands is a name.
LEMMA FilingType ==
    ASSUME TypeOK, NEW s \in Session, filing[s] # NotFiling
    PROVE  /\ filing[s].step \in {"look", "write"}
           /\ filing[s].name \in Name
           /\ filing[s].report \in Report
           /\ filing[s] = [step |-> filing[s].step, name |-> filing[s].name,
                           report |-> filing[s].report]
  BY DEF TypeOK, NotFiling

\* A session that looks for a name, or writes, is filing.
LEMMA StepsOfFiling ==
    ASSUME NEW s \in Session, filing[s].step \in {"look", "write"}
    PROVE  filing[s] # NotFiling
  BY DEF NotFiling

LEMMA InitHolds == Init => IInv
  <1> SUFFICES ASSUME Init PROVE IInv
    OBVIOUS
  <1>1. TypeOK
    BY ReportsAssumption DEF Init, TypeOK, Empty, NotFiling
  <1>2. FreeOrTakenSince
    BY DEF Init, FreeOrTakenSince, NotFiling
  <1>3. Kept
    BY DEF Init, Kept
  <1> QED
    BY <1>1, <1>2, <1>3 DEF IInv

LEMMA BeginHolds ==
    ASSUME IInv, NEW s \in Session, NEW title \in Title, BeginFiling(s, title)
    PROVE  IInv'
  <1> USE DEF BeginFiling, ghosts
  <1>1. TypeOK'
    <2>1. count + 1 \in Report /\ count' \in 0 .. ReportCap
      BY ReportsAssumption DEF IInv, TypeOK, Report
    <2>2. <<title, 0>> \in Name
      BY ReportsAssumption DEF Name
    <2> QED
      BY <2>1, <2>2 DEF IInv, TypeOK
  <1>2. FreeOrTakenSince'
    BY DEF IInv, FreeOrTakenSince, TypeOK
  <1>3. Kept'
    BY DEF IInv, Kept
  <1> QED
    BY <1>1, <1>2, <1>3 DEF IInv

LEMMA LookHolds ==
    ASSUME IInv, NEW s \in Session, LookForName(s)
    PROVE  IInv'
  <1> DEFINE name == filing[s].name
             old == [step |-> filing[s].step, name |-> name, report |-> filing[s].report]
  <1>1. filing[s] = old /\ name \in Name /\ filing[s].report \in Report
    BY FilingType, StepsOfFiling DEF IInv, LookForName
  <1>2. UNCHANGED <<reports, known, filed, count, resolved, misnamed, overlapped>>
    BY DEF LookForName, ghosts
  <1>3. CASE reports[name] = NoReport /\ filing' = [filing EXCEPT ![s].step = "write"]
    <2>a. [filing[s] EXCEPT !.step = "write"]
             = [step |-> "write", name |-> name, report |-> filing[s].report]
      BY <1>1
    <2>b. filing' = [filing EXCEPT ![s] = [filing[s] EXCEPT !.step = "write"]]
      BY <1>3
    <2>1. filing' = [filing EXCEPT ![s] = [step |-> "write", name |-> name,
                                           report |-> filing[s].report]]
      BY <2>a, <2>b
    <2>2. TypeOK'
      BY <1>1, <1>2, <2>1 DEF IInv, TypeOK
    <2>3. FreeOrTakenSince'
      BY <1>2, <1>3, <2>1 DEF IInv, TypeOK, FreeOrTakenSince
    <2> QED
      BY <1>2, <2>2, <2>3 DEF IInv, Kept
  <1>4. CASE /\ name[2] < ReportCap
             /\ filing' = [filing EXCEPT ![s].name = <<name[1], name[2] + 1>>]
    <2>1. filing[s].step = "look"
      BY DEF LookForName
    <2>a. [filing[s] EXCEPT !.name = <<name[1], name[2] + 1>>]
             = [step |-> "look", name |-> <<name[1], name[2] + 1>>, report |-> filing[s].report]
      BY <1>1, <2>1
    <2>b. filing' = [filing EXCEPT ![s] = [filing[s] EXCEPT !.name = <<name[1], name[2] + 1>>]]
      BY <1>4
    <2>2. filing' = [filing EXCEPT ![s] = [step |-> "look", name |-> <<name[1], name[2] + 1>>,
                                           report |-> filing[s].report]]
      BY <2>a, <2>b
    <2>3. <<name[1], name[2] + 1>> \in Name
      BY <1>1, <1>4, ReportsAssumption DEF Name
    <2>4. TypeOK'
      BY <1>1, <1>2, <2>2, <2>3 DEF IInv, TypeOK
    <2>5. FreeOrTakenSince'
      BY <1>2, <2>2 DEF IInv, TypeOK, FreeOrTakenSince
    <2> QED
      BY <1>2, <2>4, <2>5 DEF IInv, Kept
  <1> QED
    BY <1>3, <1>4 DEF LookForName

LEMMA WriteHolds ==
    ASSUME IInv, NEW s \in Session, WriteReport(s)
    PROVE  IInv'
  <1> DEFINE name == filing[s].name
             report == filing[s].report
  <1>1. name \in Name /\ report \in Report
    BY FilingType, StepsOfFiling DEF IInv, WriteReport
  <1>2. /\ reports' = [reports EXCEPT ![name] = report]
        /\ filed' = filed \cup {report}
        /\ filing' = [filing EXCEPT ![s] = NotFiling]
        /\ UNCHANGED <<known, count, resolved, misnamed>>
    BY DEF WriteReport
  <1>3. overlapped \subseteq overlapped' /\ overlapped' \subseteq overlapped \cup {report}
    BY DEF WriteReport
  <1>4. TypeOK'
    BY <1>1, <1>2, <1>3 DEF IInv, TypeOK
  <1>5. FreeOrTakenSince'
    <2> SUFFICES ASSUME NEW t \in Session, filing'[t].step = "write"
                 PROVE  reports'[filing'[t].name] \in overlapped' \cup {NoReport}
      BY DEF FreeOrTakenSince
    <2>1. t # s /\ filing'[t] = filing[t]
      BY <1>2 DEF IInv, TypeOK, NotFiling
    <2>2. filing[t].name \in Name
      BY <2>1, FilingType, StepsOfFiling DEF IInv
    <2>3. CASE filing[t].name = name
      <3>1. report \in overlapped'
        BY <2>1, <2>3 DEF WriteReport
      <3> QED
        BY <1>1, <1>2, <2>1, <2>3, <3>1 DEF IInv, TypeOK
    <2>4. CASE filing[t].name # name
      <3>1. reports[filing[t].name] \in overlapped \cup {NoReport}
        BY <2>1 DEF IInv, FreeOrTakenSince
      <3> QED
        BY <1>2, <1>3, <2>1, <2>2, <2>4, <3>1 DEF IInv, TypeOK
    <2> QED
      BY <2>3, <2>4
  <1>6. Kept'
    <2> SUFFICES ASSUME NEW r \in filed' \ (resolved' \cup misnamed' \cup overlapped')
                 PROVE  \E n \in Name : reports'[n] = r
      BY DEF Kept
    <2>1. CASE r = report
      BY <1>1, <1>2, <2>1 DEF IInv, TypeOK
    <2>2. CASE r # report
      <3>1. r \in filed \ (resolved \cup misnamed \cup overlapped)
        BY <1>2, <1>3, <2>2
      <3>2. PICK n \in Name : reports[n] = r
        BY <3>1 DEF IInv, Kept
      <3>3. reports[name] \in overlapped \cup {NoReport}
        BY DEF IInv, FreeOrTakenSince, WriteReport
      <3>4. r # NoReport
        BY <3>1, ReportsAssumption DEF IInv, TypeOK, Report
      <3>5. n # name
        BY <3>1, <3>2, <3>3, <3>4
      <3> QED
        BY <1>2, <3>2, <3>5 DEF IInv, TypeOK
    <2> QED
      BY <2>1, <2>2
  <1> QED
    BY <1>4, <1>5, <1>6 DEF IInv

LEMMA FailHolds ==
    ASSUME IInv, NEW s \in Session, FilingFails(s)
    PROVE  IInv'
  <1> USE DEF FilingFails, ghosts
  <1>1. TypeOK'
    BY DEF IInv, TypeOK
  <1>2. FreeOrTakenSince'
    BY DEF IInv, TypeOK, FreeOrTakenSince, NotFiling
  <1>3. Kept'
    BY DEF IInv, Kept
  <1> QED
    BY <1>1, <1>2, <1>3 DEF IInv

LEMMA ListHolds ==
    ASSUME IInv, NEW s \in Session, ListReports(s)
    PROVE  IInv'
  BY DEF IInv, TypeOK, FreeOrTakenSince, Kept, ListReports, ghosts

LEMMA ResolveHolds ==
    ASSUME IInv, NEW s \in Session, NEW name \in Name, ResolveReport(s, name)
    PROVE  IInv'
  <1>1. /\ reports' = [reports EXCEPT ![name] = NoReport]
        /\ resolved' \cup misnamed' = resolved \cup misnamed \cup {reports[name]}
        /\ resolved' \subseteq resolved \cup {reports[name]}
        /\ misnamed' \subseteq misnamed \cup {reports[name]}
        /\ known' = [known EXCEPT ![s][name] = NoReport]
        /\ UNCHANGED <<filing, filed, count, overlapped>>
    BY DEF ResolveReport
  <1>2. reports[name] \in Report
    BY DEF ResolveReport, IInv, TypeOK
  <1>3. TypeOK'
    <2>1. known' = [known EXCEPT ![s] = [known[s] EXCEPT ![name] = NoReport]]
      BY <1>1
    <2>2. known[s] \in [Name -> Report \cup {NoReport}]
      BY DEF IInv, TypeOK
    <2>3. [known[s] EXCEPT ![name] = NoReport] \in [Name -> Report \cup {NoReport}]
      BY <2>2
    <2>4. known' \in [Session -> [Name -> Report \cup {NoReport}]]
      BY <2>1, <2>3 DEF IInv, TypeOK
    <2> QED
      BY <1>1, <1>2, <2>4 DEF IInv, TypeOK
  <1>4. FreeOrTakenSince'
    <2> SUFFICES ASSUME NEW t \in Session, filing[t].step = "write"
                 PROVE  reports'[filing[t].name] \in overlapped \cup {NoReport}
      BY <1>1 DEF FreeOrTakenSince
    <2>1. filing[t].name \in Name
      BY FilingType, StepsOfFiling DEF IInv
    <2> QED
      BY <1>1, <2>1 DEF IInv, TypeOK, FreeOrTakenSince
  <1>5. Kept'
    <2> SUFFICES ASSUME NEW r \in filed \ (resolved' \cup misnamed' \cup overlapped)
                 PROVE  \E n \in Name : reports'[n] = r
      BY <1>1 DEF Kept
    <2>1. r # reports[name] /\ r \in filed \ (resolved \cup misnamed \cup overlapped)
      BY <1>1
    <2>2. PICK n \in Name : reports[n] = r
      BY <2>1 DEF IInv, Kept
    <2> QED
      BY <1>1, <2>1, <2>2 DEF IInv, TypeOK
  <1> QED
    BY <1>3, <1>4, <1>5 DEF IInv

LEMMA StepHolds == IInv /\ [Next]_vars => IInv'
  <1> SUFFICES ASSUME IInv, [Next]_vars PROVE IInv'
    OBVIOUS
  <1>1. CASE Next
    <2>1. PICK s \in Session : ReportStep(s)
      BY <1>1 DEF Next
    <2> QED
      BY <2>1, BeginHolds, LookHolds, WriteHolds, FailHolds, ListHolds, ResolveHolds
         DEF ReportStep
  <1>2. CASE UNCHANGED vars
    BY <1>2 DEF vars, IInv, TypeOK, FreeOrTakenSince, Kept
  <1> QED
    BY <1>1, <1>2

\* The strengthened invariant holds of every behaviour of the reports.
THEOREM Invariant == Spec => []IInv
  BY InitHolds, StepHolds, PTL DEF Spec

\* Names, numbers and steps keep to their sets (handoff.py).
THEOREM TypeCorrect == Spec => []TypeOK
  <1>1. IInv => TypeOK
    BY DEF IInv
  <1> QED
    BY <1>1, Invariant, PTL

\* write_handoff_report never overwrites, and resolve_handoff_report removes one
\* report only: a filed report survives every step but the two named races.
THEOREM NoReportIsLost == Spec => []ReportsSurvive
  <1>1. IInv => ReportsSurvive
    BY DEF IInv, Kept, ReportsSurvive, OnDisk
  <1> QED
    BY <1>1, Invariant, PTL
=============================================================================
