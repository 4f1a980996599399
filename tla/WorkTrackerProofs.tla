-------------------------- MODULE WorkTrackerProofs --------------------------
(***************************************************************************)
(* Proofs about WorkTracker for every plan, every number of sessions and   *)
(* every bound.  The inductive invariant says what a stale report can      *)
(* still be used for: the unit it names is either the current one or       *)
(* already passed or superseded, and then no command on it is legal.       *)
(***************************************************************************)
EXTENDS WorkTracker, FiniteSetTheorems, WellFoundedInduction, SequenceTheorems, TLAPS

\* The unit a session's report names is the current one or is resolved.
ReportsNameCurrentOrResolved ==
    \A s \in Session : view[s].unit # None =>
        \E i \in DOMAIN tracker.units :
            /\ tracker.units[i].id = view[s].unit
            /\ \/ view[s].unit = tracker.current_unit
               \/ tracker.units[i].state \in Resolved

\* A unit that ran has a first attempt, so a diagnosis names a real one.
ActiveUnitsStarted ==
    \A i \in DOMAIN tracker.units :
        tracker.units[i].state \in Active => tracker.units[i].attempt > 0

IInv ==
    /\ TypeOK
    /\ UniqueIds(tracker)
    /\ CurrentUnitPlanned(tracker)
    /\ AttemptsPlanned(tracker)
    /\ OnlyCurrentUnitActive
    /\ ActiveUnitsStarted
    /\ ReportsNameCurrentOrResolved

----------------------------------------------------------------------------
(* What one event of a command does to a state block.                     *)

\* A non-empty set of naturals has a least element.
LEMMA LeastElement ==
    ASSUME NEW S \in SUBSET Nat, S # {}
    PROVE  \E i \in S : \A j \in S : i <= j
<1> DEFINE Less == {p \in Nat \X Nat : p[1] < p[2]}
<1>1. IsWellFoundedOn(Less, Nat)
  BY NatLessThanWellFounded DEF OpToRel
<1>2. \A a, b \in Nat : a < b => <<a, b>> \in Less
  OBVIOUS
<1> HIDE DEF Less
<1>3. PICK i \in S : \A j \in S : <<j, i>> \notin Less
  BY <1>1, WFMin, Zenon
<1>4. \A j \in S : ~ (j < i)
  BY <1>2, <1>3
<1>. QED
  BY <1>4

\* _next_unit answers an unresolved unit of the plan while there is one.
LEMMA NextUnitIsUnresolved ==
    ASSUME NEW units \in Seq(Unit), NEW current, UnresolvedAt(units) # {}
    PROVE  \E i \in UnresolvedAt(units) : NextUnit(units, current) = units[i].id
<1>1. UnresolvedAt(units) \in SUBSET Nat
  BY DEF UnresolvedAt
<1>2. \E i \in UnresolvedAt(units) : \A j \in UnresolvedAt(units) : i <= j
  BY <1>1, LeastElement
<1>. QED
  BY <1>2 DEF NextUnit

\* JSON null is not the id of a planned unit.
LEMMA NoneIsNoUnit ==
    ASSUME NEW st, \A i \in DOMAIN st.units : st.units[i] \in Unit
    PROVE  None \notin UnitIds(st)
<1>1. \A i \in DOMAIN st.units : st.units[i].id \in UnitId
  BY DEF Unit
<1>. QED
  BY <1>1, WorkStateAssumption DEF UnitIds

\* The transition table stays within the unit states.
LEMMA TargetType ==
    ASSUME NEW state \in UnitStates, NEW event
    PROVE  Target(state, event) \in UnitStates \cup {"illegal"}
BY DEF Target, UnitStates

\* What one legal event does to a block with unique ids.
LEMMA ApplyEventEffect ==
    ASSUME NEW st \in StateBlock, NEW u, NEW event \in Events, NEW revision,
           UniqueIds(st), CurrentUnitPlanned(st), Accepts(st, u, event, revision)
    PROVE  LET new == ApplyEvent(st, u, event)
           IN  /\ new \in StateBlock
               /\ DOMAIN new.units = DOMAIN st.units
               /\ \A i \in DOMAIN st.units :
                     /\ new.units[i].id = st.units[i].id
                     /\ st.units[i].id # u => new.units[i] = st.units[i]
                     /\ st.units[i].id = u =>
                           /\ Target(st.units[i].state, event) # "illegal"
                           /\ new.units[i].state = Target(st.units[i].state, event)
                           /\ new.units[i].attempt = IF event = "start"
                                                     THEN st.units[i].attempt + 1
                                                     ELSE st.units[i].attempt
               /\ new.current_unit = IF event = "pass"
                                     THEN NextUnit(new.units, st.current_unit)
                                     ELSE st.current_unit
               /\ new.attempts = st.attempts
               /\ new.brief_confirmed = st.brief_confirmed
<1> DEFINE new == ApplyEvent(st, u, event)
           units == [i \in DOMAIN st.units |->
                        IF st.units[i].id = u THEN Moved(st.units[i], event)
                                              ELSE st.units[i]]
<1>1. new = [st EXCEPT !.units = units,
                       !.current_unit = IF event = "pass" THEN NextUnit(units, st.current_unit)
                                        ELSE st.current_unit]
  BY DEF ApplyEvent, StateBlock
<1>2. \A i \in DOMAIN st.units : st.units[i].id = u => Target(st.units[i].state, event) # "illegal"
  BY DEF Accepts, UniqueIds
<1>3. \A i \in DOMAIN st.units : st.units[i] \in Unit
  BY DEF StateBlock
<1>4. ASSUME NEW i \in DOMAIN st.units, st.units[i].id = u
      PROVE  Moved(st.units[i], event) \in Unit
  <2>1. Target(st.units[i].state, event) \in UnitStates
    BY <1>2, <1>3, <1>4, TargetType DEF Unit
  <2>2. st.units[i] \in Unit /\ st.units[i].attempt + 1 \in Nat
    BY <1>3 DEF Unit
  <2>. QED
    BY <2>1, <2>2 DEF Moved, Unit
<1>5. units \in Seq(Unit) /\ Len(units) = Len(st.units)
  <2>1. st.units \in Seq(Unit)
    BY DEF StateBlock
  <2>2. units \in [1..Len(st.units) -> Unit]
    BY <1>3, <1>4, <2>1
  <2>. QED
    BY <2>1, <2>2
<1>6. NextUnit(units, st.current_unit) \in UnitId \cup {None}
  <2>1. CASE UnresolvedAt(units) = {}
    BY <2>1 DEF NextUnit, StateBlock
  <2>2. CASE UnresolvedAt(units) # {}
    <3>1. PICK i \in UnresolvedAt(units) : NextUnit(units, st.current_unit) = units[i].id
      BY <2>2, <1>5, NextUnitIsUnresolved
    <3>2. units[i] \in Unit
      BY <1>5, <3>1 DEF UnresolvedAt
    <3>. QED
      BY <3>1, <3>2 DEF Unit
  <2>. QED
    BY <2>1, <2>2
<1>7. new \in StateBlock /\ new.units = units
  BY <1>1, <1>5, <1>6 DEF StateBlock
<1>8. \A i \in DOMAIN st.units :
         st.units[i].id = u => /\ units[i].id = st.units[i].id
                               /\ units[i].state = Target(st.units[i].state, event)
                               /\ units[i].attempt = IF event = "start"
                                                     THEN st.units[i].attempt + 1
                                                     ELSE st.units[i].attempt
  BY <1>3 DEF Moved, Unit
<1>. QED
  BY <1>1, <1>2, <1>5, <1>7, <1>8 DEF StateBlock

----------------------------------------------------------------------------
(* One lemma per kind of step.                                             *)

LEMMA InitIInv == Init => IInv
BY WorkStateAssumption DEF Init, IInv, InitialState, TypeOK, StateBlock, UniqueIds, CurrentUnitPlanned,
   AttemptsPlanned, OnlyCurrentUnitActive, ActiveUnitsStarted, ReportsNameCurrentOrResolved, NoView, View

\* A legal event on a unit that is current or resolved: a resolved unit has no
\* legal event, so the unit is the current one.
LEMMA ClaimIsOnCurrent ==
    ASSUME UniqueIds(tracker), NEW u, NEW event, NEW revision,
           Accepts(tracker, u, event, revision),
           NEW i \in DOMAIN tracker.units, tracker.units[i].id = u,
           u = tracker.current_unit \/ tracker.units[i].state \in Resolved
    PROVE  u = tracker.current_unit
BY DEF Accepts, UniqueIds, Target, Resolved

\* A command a session gets accepted is on the current unit, and moves that
\* unit alone, whatever report it worked from.
LEMMA ClaimEffect ==
    ASSUME IInv, NEW s \in Session, NEW event \in Events, SessionClaims(s, event)
    PROVE  LET u == view[s].unit
           IN
            /\ u = tracker.current_unit
            /\ \E c \in DOMAIN tracker.units : tracker.units[c].id = u
            /\ tracker' \in StateBlock
            /\ DOMAIN tracker'.units = DOMAIN tracker.units
            /\ \A i \in DOMAIN tracker.units :
                  /\ tracker'.units[i].id = tracker.units[i].id
                  /\ tracker.units[i].id # u => tracker'.units[i] = tracker.units[i]
                  /\ tracker.units[i].id = u =>
                        /\ Target(tracker.units[i].state, event) # "illegal"
                        /\ tracker'.units[i].state = Target(tracker.units[i].state, event)
                        /\ tracker'.units[i].attempt = IF event = "start"
                                                       THEN tracker.units[i].attempt + 1
                                                       ELSE tracker.units[i].attempt
            /\ tracker'.current_unit = IF event = "pass"
                                       THEN NextUnit(tracker'.units, tracker.current_unit)
                                       ELSE tracker.current_unit
            /\ tracker'.attempts = tracker.attempts
<1> DEFINE u == view[s].unit
           revision == view[s].plan_revision
<1>1. /\ tracker \in StateBlock /\ UniqueIds(tracker) /\ CurrentUnitPlanned(tracker)
  BY DEF IInv, TypeOK
<1>2. /\ Accepts(tracker, u, event, revision)
      /\ tracker' = ApplyEvent(tracker, u, event)
      /\ u # None
  BY DEF SessionClaims, Claim
<1>3. PICK c \in DOMAIN tracker.units :
         /\ tracker.units[c].id = u
         /\ u = tracker.current_unit \/ tracker.units[c].state \in Resolved
  BY <1>2 DEF IInv, ReportsNameCurrentOrResolved
<1>4. u = tracker.current_unit
  BY <1>1, <1>2, <1>3, ClaimIsOnCurrent
<1>. QED
  BY <1>1, <1>2, <1>3, <1>4, ApplyEventEffect

\* A command of a session keeps the plan well formed and the reports apt.
LEMMA ClaimKeepsIInv ==
    ASSUME IInv, NEW s \in Session, NEW event \in Events, SessionClaims(s, event)
    PROVE  IInv'
<1> DEFINE u == view[s].unit
           revision == view[s].plan_revision
<1>1. /\ tracker \in StateBlock /\ UniqueIds(tracker) /\ CurrentUnitPlanned(tracker)
      /\ AttemptsPlanned(tracker) /\ view \in [Session -> View]
      /\ ledger \in [UnitId -> Seq(Evidence)]
  BY DEF IInv, TypeOK
<1>2. /\ Accepts(tracker, u, event, revision)
      /\ tracker' = ApplyEvent(tracker, u, event)
      /\ view' = [view EXCEPT ![s] = NoView]
      /\ u # None
      /\ ledger' = IF event = "start" THEN ledger
                   ELSE [ledger EXCEPT ![u] =
                           Append(ledger[u], [event |-> event, attempt |-> view[s].attempt])]
  BY DEF SessionClaims, Claim, Recorded
<1>3. PICK c \in DOMAIN tracker.units : tracker.units[c].id = u
  BY ClaimEffect
<1>4. u = tracker.current_unit
  BY ClaimEffect
<1>5. /\ tracker' \in StateBlock
      /\ DOMAIN tracker'.units = DOMAIN tracker.units
      /\ \A i \in DOMAIN tracker.units :
            /\ tracker'.units[i].id = tracker.units[i].id
            /\ tracker.units[i].id # u => tracker'.units[i] = tracker.units[i]
            /\ tracker.units[i].id = u =>
                  /\ Target(tracker.units[i].state, event) # "illegal"
                  /\ tracker'.units[i].state = Target(tracker.units[i].state, event)
                  /\ tracker'.units[i].attempt = IF event = "start"
                                                 THEN tracker.units[i].attempt + 1
                                                 ELSE tracker.units[i].attempt
      /\ tracker'.current_unit = IF event = "pass"
                                 THEN NextUnit(tracker'.units, tracker.current_unit)
                                 ELSE tracker.current_unit
      /\ tracker'.attempts = tracker.attempts
  BY ClaimEffect
<1>6. /\ tracker'.units \in Seq(Unit) /\ tracker.units \in Seq(Unit)
      /\ \A i \in DOMAIN tracker.units : tracker.units[i] \in Unit
  BY <1>1, <1>5 DEF StateBlock
<1>7. TypeOK'
  <2>1. view' \in [Session -> View]
    BY <1>1, <1>2 DEF NoView, View
  <2>2. view[s].attempt \in Nat /\ u \in UnitId
    BY <1>1, <1>2 DEF View
  <2>3. [event |-> event, attempt |-> view[s].attempt] \in Evidence
    BY <2>2 DEF Evidence
  <2>4. ledger' \in [UnitId -> Seq(Evidence)]
    BY <1>1, <1>2, <2>2, <2>3
  <2>. QED
    BY <1>5, <2>1, <2>4 DEF TypeOK
<1>8. UniqueIds(tracker)'
  BY <1>1, <1>5 DEF UniqueIds
<1>9. UnitIds(tracker') = UnitIds(tracker)
  BY <1>5 DEF UnitIds
<1>10. tracker'.current_unit = tracker.current_unit
       \/ \E i \in DOMAIN tracker.units : tracker'.current_unit = tracker'.units[i].id
  <2>1. CASE event = "pass" /\ UnresolvedAt(tracker'.units) # {}
    BY <1>5, <1>6, <2>1, NextUnitIsUnresolved DEF UnresolvedAt
  <2>2. CASE event = "pass" /\ UnresolvedAt(tracker'.units) = {}
    BY <1>5, <2>2 DEF NextUnit
  <2>3. CASE event # "pass"
    BY <1>5, <2>3
  <2>. QED
    BY <2>1, <2>2, <2>3
<1>11. CurrentUnitPlanned(tracker)'
  <2>1. tracker'.current_unit \in UnitIds(tracker)
    BY <1>3, <1>4, <1>5, <1>10 DEF UnitIds
  <2>2. None \notin UnitIds(tracker)
    BY <1>6, NoneIsNoUnit
  <2>. QED
    BY <1>9, <2>1, <2>2 DEF CurrentUnitPlanned
<1>12. AttemptsPlanned(tracker)'
  BY <1>1, <1>5, <1>9 DEF AttemptsPlanned
<1>13. event = "pass" => tracker'.units[c].state = "passed"
  BY <1>3, <1>5 DEF Target
<1>14. OnlyCurrentUnitActive'
  BY <1>3, <1>4, <1>5, <1>13, <1>1 DEF OnlyCurrentUnitActive, IInv, Active, UniqueIds
<1>15. ActiveUnitsStarted'
  <2> SUFFICES ASSUME NEW i \in DOMAIN tracker.units, tracker'.units[i].state \in Active
               PROVE  tracker'.units[i].attempt > 0
    BY <1>5 DEF ActiveUnitsStarted
  <2>1. tracker.units[i].attempt \in Nat
    BY <1>6 DEF Unit
  <2>2. tracker.units[i].state \in Active => tracker.units[i].attempt > 0
    BY DEF IInv, ActiveUnitsStarted
  <2>3. CASE tracker.units[i].id = u
    BY <1>5, <2>1, <2>2, <2>3 DEF Target, Active
  <2>4. CASE tracker.units[i].id # u
    BY <1>5, <2>2, <2>4
  <2>. QED
    BY <2>3, <2>4
<1>16. ReportsNameCurrentOrResolved'
  <2> SUFFICES ASSUME NEW t \in Session, view'[t].unit # None
               PROVE  \E i \in DOMAIN tracker'.units :
                         /\ tracker'.units[i].id = view'[t].unit
                         /\ \/ view'[t].unit = tracker'.current_unit
                            \/ tracker'.units[i].state \in Resolved
    BY DEF ReportsNameCurrentOrResolved
  <2>1. t # s /\ view'[t] = view[t]
    BY <1>1, <1>2 DEF NoView
  <2>2. PICK i \in DOMAIN tracker.units :
           /\ tracker.units[i].id = view[t].unit
           /\ view[t].unit = tracker.current_unit \/ tracker.units[i].state \in Resolved
    BY <2>1 DEF IInv, ReportsNameCurrentOrResolved
  <2>3. CASE tracker.units[i].id = u
    <3>1. i = c
      BY <1>1, <1>3, <2>3 DEF UniqueIds
    <3>2. CASE event = "pass"
      BY <1>5, <1>13, <2>1, <2>2, <3>1, <3>2 DEF Resolved
    <3>3. CASE event # "pass"
      BY <1>4, <1>5, <2>1, <2>2, <2>3, <3>3
    <3>. QED
      BY <3>2, <3>3
  <2>4. CASE tracker.units[i].id # u
    BY <1>4, <1>5, <2>1, <2>2, <2>4
  <2>. QED
    BY <2>3, <2>4
<1>. QED
  BY <1>7, <1>8, <1>11, <1>12, <1>14, <1>15, <1>16 DEF IInv

\* The router answers a skill whatever unit it looks at.
LEMMA NextSkillType ==
    ASSUME NEW st \in StateBlock
    PROVE  NextSkill(st) \in Skills
<1> DEFINE found(i) == i \in DOMAIN st.units /\ st.units[i].id = st.current_unit
<1>1. ASSUME NEW unit, unit.state \in UnitStates
      PROVE  SkillFor(st, unit) \in Skills
  BY <1>1 DEF SkillFor, UnitStates, Resolved, Skills
<1>2. ASSUME st.current_unit \in UnitIds(st)
      PROVE  st.units[CHOOSE i \in DOMAIN st.units : st.units[i].id = st.current_unit].state
                \in UnitStates
  <2>1. \E i \in DOMAIN st.units : st.units[i].id = st.current_unit
    BY <1>2 DEF UnitIds
  <2>2. \A i \in DOMAIN st.units : st.units[i] \in Unit
    BY DEF StateBlock
  <2>. QED
    BY <2>1, <2>2 DEF Unit
<1>. QED
  BY <1>1, <1>2 DEF NextSkill, Skills

\* The report is a view, and names the current unit.
LEMMA ReportType ==
    ASSUME NEW st \in StateBlock
    PROVE  Report(st) \in View /\ Report(st).unit = st.current_unit
<1> DEFINE c == CHOOSE i \in DOMAIN st.units : st.units[i].id = st.current_unit
           attempt == IF st.current_unit \in UnitIds(st) THEN st.units[c].attempt ELSE 0
<1>1. attempt \in Nat
  <2>1. st.current_unit \in UnitIds(st) => c \in DOMAIN st.units
    BY DEF UnitIds
  <2>2. \A i \in DOMAIN st.units : st.units[i] \in Unit
    BY DEF StateBlock
  <2>. QED
    BY <2>1, <2>2 DEF Unit
<1>2. AllowedEvents(st) \in SUBSET Events
  BY DEF AllowedEvents
<1>3. /\ st.current_unit \in UnitId \cup {None}
      /\ st.plan_revision \in Nat
  BY DEF StateBlock
<1>4. Report(st) = [unit |-> st.current_unit, attempt |-> attempt,
                    plan_revision |-> st.plan_revision,
                    skill |-> NextSkill(st), events |-> AllowedEvents(st)]
  BY DEF Report
<1> HIDE DEF attempt
<1>. QED
  BY <1>1, <1>2, <1>3, <1>4, NextSkillType DEF View

LEMMA StatusKeepsIInv ==
    ASSUME IInv, NEW s \in Session, Status(s)
    PROVE  IInv'
<1>1. /\ tracker \in StateBlock /\ view \in [Session -> View]
      /\ CurrentUnitPlanned(tracker)
  BY DEF IInv, TypeOK
<1>2. /\ view' = [view EXCEPT ![s] = Report(tracker)]
      /\ tracker' = tracker /\ ledger' = ledger
  BY DEF Status
<1>3. Report(tracker) \in View /\ Report(tracker).unit = tracker.current_unit
  BY <1>1, ReportType
<1>4. TypeOK'
  BY <1>1, <1>2, <1>3 DEF IInv, TypeOK
<1>5. ReportsNameCurrentOrResolved'
  <2> SUFFICES ASSUME NEW t \in Session, view'[t].unit # None
               PROVE  \E i \in DOMAIN tracker.units :
                         /\ tracker.units[i].id = view'[t].unit
                         /\ \/ view'[t].unit = tracker.current_unit
                            \/ tracker.units[i].state \in Resolved
    BY <1>2 DEF ReportsNameCurrentOrResolved
  <2>1. CASE t = s
    <3>1. view'[t].unit = tracker.current_unit
      BY <1>1, <1>2, <1>3, <2>1
    <3>. QED
      BY <1>1, <3>1 DEF CurrentUnitPlanned, UnitIds
  <2>2. CASE t # s
    BY <1>1, <1>2, <2>2 DEF IInv, ReportsNameCurrentOrResolved
  <2>. QED
    BY <2>1, <2>2
<1>. QED
  BY <1>2, <1>4, <1>5 DEF IInv, UniqueIds, CurrentUnitPlanned, UnitIds, AttemptsPlanned,
     OnlyCurrentUnitActive, ActiveUnitsStarted

\* Dropping a report, or changing a field of the block other than the units,
\* the pointer and the attempts, keeps the invariant.
LEMMA SamePlanKeepsIInv ==
    ASSUME IInv, tracker' \in StateBlock, ledger' \in [UnitId -> Seq(Evidence)],
           tracker'.units = tracker.units,
           tracker'.current_unit = tracker.current_unit,
           tracker'.attempts = tracker.attempts,
           \/ view' = view
           \/ \E s \in Session : view' = [view EXCEPT ![s] = NoView]
    PROVE  IInv'
<1>1. view \in [Session -> View]
  BY DEF IInv, TypeOK
<1>2. /\ view' \in [Session -> View]
      /\ \A t \in Session : view'[t] = view[t] \/ view'[t].unit = None
  <2>1. NoView \in View /\ NoView.unit = None
    BY DEF NoView, View
  <2>2. CASE view' = view
    BY <1>1, <2>2
  <2>3. ASSUME NEW s \in Session, view' = [view EXCEPT ![s] = NoView]
        PROVE  /\ view' \in [Session -> View]
               /\ \A t \in Session : view'[t] = view[t] \/ view'[t].unit = None
    BY <1>1, <2>1, <2>3
  <2>. QED
    BY <2>2, <2>3
<1>3. TypeOK'
  BY <1>2 DEF IInv, TypeOK
<1>4. ReportsNameCurrentOrResolved'
  BY <1>2 DEF IInv, ReportsNameCurrentOrResolved
<1>. QED
  BY <1>3, <1>4 DEF IInv, UniqueIds, CurrentUnitPlanned, UnitIds, AttemptsPlanned,
     OnlyCurrentUnitActive, ActiveUnitsStarted

LEMMA RefusedKeepsIInv ==
    ASSUME IInv, NEW s \in Session, Refused(s)
    PROVE  IInv'
<1>1. tracker' = tracker /\ ledger' = ledger /\ view' = [view EXCEPT ![s] = NoView]
  BY DEF Refused
<1>2. tracker' \in StateBlock /\ ledger' \in [UnitId -> Seq(Evidence)]
  BY <1>1 DEF IInv, TypeOK
<1>. QED
  BY <1>1, <1>2, SamePlanKeepsIInv

LEMMA DiagnoseKeepsIInv ==
    ASSUME IInv, NEW s \in Session, Diagnose(s)
    PROVE  IInv'
<1> DEFINE u == view[s].unit
           entry == [event |-> "diagnosis", attempt |-> view[s].attempt]
<1>1. /\ tracker' = tracker /\ view' = [view EXCEPT ![s] = NoView]
      /\ ledger' = [ledger EXCEPT ![u] = Append(ledger[u], entry)]
  BY DEF Diagnose
<1>2. /\ tracker' \in StateBlock /\ ledger \in [UnitId -> Seq(Evidence)]
      /\ view[s] \in View
  BY <1>1 DEF IInv, TypeOK
<1>3. entry \in Evidence
  BY <1>2 DEF Evidence, View
<1> HIDE DEF entry
<1>4. ledger' \in [UnitId -> Seq(Evidence)]
  <2> SUFFICES ASSUME NEW w \in UnitId
               PROVE  ledger'[w] \in Seq(Evidence)
    BY <1>1, <1>2
  <2>1. ledger[w] \in Seq(Evidence)
    BY <1>2
  <2>2. Append(ledger[w], entry) \in Seq(Evidence)
    BY <1>3, <2>1
  <2>. QED
    BY <1>1, <1>2, <2>1, <2>2
<1>. QED
  BY <1>1, <1>2, <1>4, SamePlanKeepsIInv

LEMMA ReviseKeepsIInv ==
    ASSUME IInv, NEW s \in Session, ReviseAsPlanner(s)
    PROVE  IInv'
<1>1. tracker \in StateBlock
  BY DEF IInv, TypeOK
<1>2. /\ tracker' = [tracker EXCEPT !.plan_revision = tracker.plan_revision + 1]
      /\ ledger' = ledger /\ view' = [view EXCEPT ![s] = NoView]
  BY DEF ReviseAsPlanner, Revise, Revisable
<1>3. tracker.plan_revision + 1 \in Nat \ {0}
  BY <1>1 DEF StateBlock
<1>4. /\ tracker' \in StateBlock
      /\ tracker'.units = tracker.units
      /\ tracker'.current_unit = tracker.current_unit
      /\ tracker'.attempts = tracker.attempts
  BY <1>1, <1>2, <1>3 DEF StateBlock
<1>5. ledger' \in [UnitId -> Seq(Evidence)]
  BY <1>2 DEF IInv, TypeOK
<1>. QED
  BY <1>2, <1>4, <1>5, SamePlanKeepsIInv

LEMMA ConfirmBriefKeepsIInv ==
    ASSUME IInv, ConfirmBrief
    PROVE  IInv'
<1>1. tracker \in StateBlock
  BY DEF IInv, TypeOK
<1>2. /\ tracker' = [tracker EXCEPT !.brief_confirmed = TRUE]
      /\ ledger' = ledger /\ view' = view
  BY DEF ConfirmBrief
<1>3. /\ tracker' \in StateBlock
      /\ tracker'.units = tracker.units
      /\ tracker'.current_unit = tracker.current_unit
      /\ tracker'.attempts = tracker.attempts
  BY <1>1, <1>2 DEF StateBlock
<1>4. ledger' \in [UnitId -> Seq(Evidence)]
  BY <1>2 DEF IInv, TypeOK
<1>. QED
  BY <1>2, <1>3, <1>4, SamePlanKeepsIInv

\* Past its first four rows the router looks at the current unit alone.
LEMMA RouterLooksAtCurrent ==
    ASSUME NEW st \in StateBlock, UniqueIds(st),
           NEW i \in DOMAIN st.units, st.units[i].id = st.current_unit
    PROVE  NextSkill(st) = "checkpoint-plan" => st.units[i].state \in Resolved
<1> DEFINE c == CHOOSE j \in DOMAIN st.units : st.units[j].id = st.current_unit
<1>1. c = i
  BY DEF UniqueIds
<1>2. st.units[i].state \in UnitStates
  <2>1. st.units[i] \in Unit
    BY DEF StateBlock
  <2>. QED
    BY <2>1 DEF Unit
<1>3. st.current_unit \in UnitIds(st) /\ st.units # <<>>
  <2>1. st.units \in Seq(Unit)
    BY DEF StateBlock
  <2>. QED
    BY <2>1 DEF UnitIds
<1>4. NextSkill(st) \in {"checkpoint-brainstorm", "checkpoint-handoff", SkillFor(st, st.units[i])}
  BY <1>1, <1>3 DEF NextSkill
<1>5. SkillFor(st, st.units[i]) = "checkpoint-plan" => st.units[i].state \in Resolved
  BY <1>2 DEF SkillFor, UnitStates, Resolved
<1>. QED
  BY <1>4, <1>5

LEMMA RecordKeepsIInv ==
    ASSUME IInv, RecordAttempt
    PROVE  IInv'
<1>1. /\ tracker \in StateBlock /\ UniqueIds(tracker) /\ AttemptsPlanned(tracker)
      /\ OnlyCurrentUnitActive /\ ActiveUnitsStarted
  BY DEF IInv, TypeOK
<1>2. PICK fingerprint \in Fingerprint \cup {None}, i \in DOMAIN tracker.units :
         /\ tracker.units[i].id = tracker.current_unit
         /\ tracker.units[i].state = "failed"
         /\ tracker' = [tracker EXCEPT !.attempts =
               Append(tracker.attempts,
                      [unit |-> tracker.units[i].id, n |-> tracker.units[i].attempt,
                       fingerprint |-> fingerprint])]
  BY DEF RecordAttempt
<1> DEFINE record == [unit |-> tracker.units[i].id, n |-> tracker.units[i].attempt,
                      fingerprint |-> fingerprint]
<1>3. record \in Attempt
  <2>1. tracker.units[i].attempt > 0
    BY <1>1, <1>2 DEF ActiveUnitsStarted, Active
  <2>2. tracker.units[i] \in Unit
    BY <1>1 DEF StateBlock
  <2>. QED
    BY <2>1, <2>2 DEF Unit, Attempt
<1> HIDE DEF record
<1>4. tracker' = [tracker EXCEPT !.attempts = Append(tracker.attempts, record)]
  BY <1>2 DEF record
<1>5. tracker.attempts \in Seq(Attempt)
  BY <1>1 DEF StateBlock
<1>6. /\ tracker' \in StateBlock
      /\ tracker'.units = tracker.units
      /\ tracker'.current_unit = tracker.current_unit
      /\ tracker'.attempts = Append(tracker.attempts, record)
  <2> DEFINE recorded == Append(tracker.attempts, record)
  <2>1. recorded \in Seq(Attempt)
    BY <1>3, <1>5
  <2>2. tracker' = [tracker EXCEPT !.attempts = recorded]
    BY <1>4
  <2> HIDE DEF recorded
  <2>3. tracker' \in StateBlock /\ tracker'.units = tracker.units
        /\ tracker'.current_unit = tracker.current_unit /\ tracker'.attempts = recorded
    BY <1>1, <2>1, <2>2 DEF StateBlock
  <2>. QED
    BY <2>3 DEF recorded
<1>7. AttemptsPlanned(tracker)'
  <2> SUFFICES ASSUME NEW k \in DOMAIN tracker'.attempts
               PROVE  tracker'.attempts[k].unit \in UnitIds(tracker)
    BY <1>6 DEF AttemptsPlanned, UnitIds
  <2>1. CASE k \in DOMAIN tracker.attempts
    BY <1>1, <1>3, <1>5, <1>6, <2>1 DEF AttemptsPlanned
  <2>2. CASE k \notin DOMAIN tracker.attempts
    <3>1. tracker'.attempts[k] = record
      BY <1>3, <1>5, <1>6, <2>2
    <3>. QED
      BY <3>1 DEF record, UnitIds
  <2>. QED
    BY <2>1, <2>2
<1>8. ledger' = ledger /\ view' = view
  BY DEF RecordAttempt
<1>9. TypeOK'
  BY <1>6, <1>8 DEF IInv, TypeOK
<1>. QED
  BY <1>6, <1>7, <1>8, <1>9 DEF IInv, UniqueIds, CurrentUnitPlanned, UnitIds,
     OnlyCurrentUnitActive, ActiveUnitsStarted, ReportsNameCurrentOrResolved

\* A plan edit appends units nobody has started and moves the pointer, which
\* the router allows only when no unit is active.
LEMMA PlanUnitsKeepsIInv ==
    ASSUME IInv, PlanUnits
    PROVE  IInv'
<1>1. /\ tracker \in StateBlock /\ UniqueIds(tracker) /\ CurrentUnitPlanned(tracker)
      /\ AttemptsPlanned(tracker) /\ OnlyCurrentUnitActive
  BY DEF IInv, TypeOK
<1>2. PICK batch \in NewUnits : \E i \in UnresolvedAt(tracker.units \o batch) :
         tracker' = [tracker EXCEPT !.units = tracker.units \o batch,
                                    !.current_unit = (tracker.units \o batch)[i].id]
  BY DEF PlanUnits
<1> DEFINE units == tracker.units \o batch
           n     == Len(tracker.units)
<1>3. PICK p \in UnresolvedAt(units) :
         tracker' = [tracker EXCEPT !.units = units, !.current_unit = units[p].id]
  BY <1>2
<1>4. /\ batch \in Seq(Unit)
      /\ \A k \in DOMAIN batch : /\ batch[k].id \notin UnitIds(tracker)
                                 /\ batch[k].state \in {"pending", "ready"}
      /\ \A k, l \in DOMAIN batch : batch[k].id = batch[l].id => k = l
  <2>1. PICK m \in 0..BatchCap :
           batch \in [1..m -> [id : UnitId \ UnitIds(tracker), kind : UnitKinds,
                               state : {"pending", "ready"}, attempt : {0}]]
    BY DEF NewUnits
  <2>2. m \in Nat
    BY <2>1, BoundsAssumption
  <2>3. \A k \in 1..m : /\ batch[k] \in Unit
                        /\ batch[k].id \notin UnitIds(tracker)
                        /\ batch[k].state \in {"pending", "ready"}
    BY <2>1 DEF Unit, UnitStates
  <2>4. batch \in [1..m -> Unit]
    BY <2>1, <2>3
  <2>. QED
    BY <2>2, <2>3, <2>4 DEF NewUnits
<1>5. tracker.units \in Seq(Unit)
  BY <1>1 DEF StateBlock
<1>6. /\ units \in Seq(Unit)
      /\ Len(units) = n + Len(batch)
      /\ \A k \in 1..n : units[k] = tracker.units[k]
      /\ \A k \in n+1 .. n+Len(batch) : units[k] = batch[k - n]
  BY <1>4, <1>5
<1>7. \A k \in 1..n : tracker.units[k].state \notin Active
  <2> SUFFICES ASSUME NEW k \in 1..n, tracker.units[k].state \in Active PROVE FALSE
    OBVIOUS
  <2>1. k \in DOMAIN tracker.units /\ tracker.units[k].id = tracker.current_unit
    BY <1>1, <1>5 DEF OnlyCurrentUnitActive
  <2>2. tracker.units[k].state \in Resolved
    BY <1>1, <2>1, RouterLooksAtCurrent DEF PlanUnits
  <2>. QED
    BY <2>2 DEF Resolved, Active
<1>8. p \in DOMAIN units /\ units[p] \in Unit
  BY <1>6 DEF UnresolvedAt
<1> HIDE DEF units
<1>9. /\ tracker' \in StateBlock
      /\ tracker'.units = units
      /\ tracker'.current_unit = units[p].id
      /\ tracker'.attempts = tracker.attempts
  BY <1>1, <1>3, <1>6, <1>8 DEF StateBlock, Unit
<1>10. \A k \in 1..n : tracker.units[k].id \in UnitIds(tracker)
  BY <1>5 DEF UnitIds
<1>11. UniqueIds(tracker)'
  <2> SUFFICES ASSUME NEW k \in DOMAIN units, NEW l \in DOMAIN units,
                      units[k].id = units[l].id
               PROVE  k = l
    BY <1>9 DEF UniqueIds
  <2>1. CASE k \in 1..n /\ l \in 1..n
    BY <1>1, <1>5, <1>6, <2>1 DEF UniqueIds
  <2>2. CASE k \in 1..n /\ l \in n+1 .. n+Len(batch)
    <3>1. l - n \in DOMAIN batch
      BY <1>4, <1>5, <2>2
    <3>. QED
      BY <1>4, <1>6, <1>10, <2>2, <3>1
  <2>3. CASE k \in n+1 .. n+Len(batch) /\ l \in 1..n
    <3>1. k - n \in DOMAIN batch
      BY <1>4, <1>5, <2>3
    <3>. QED
      BY <1>4, <1>6, <1>10, <2>3, <3>1
  <2>4. CASE k \in n+1 .. n+Len(batch) /\ l \in n+1 .. n+Len(batch)
    <3>1. k - n \in DOMAIN batch /\ l - n \in DOMAIN batch
      BY <1>4, <1>5, <2>4
    <3>2. k - n = l - n
      BY <1>4, <1>6, <2>4, <3>1
    <3>. QED
      BY <1>5, <2>4, <3>2
  <2>. QED
    BY <1>4, <1>5, <1>6, <2>1, <2>2, <2>3, <2>4
<1>12. \A i \in DOMAIN tracker.units : i \in DOMAIN units /\ units[i] = tracker.units[i]
  <2>1. DOMAIN tracker.units = 1..n /\ DOMAIN units = 1..n+Len(batch)
        /\ n \in Nat /\ Len(batch) \in Nat
    BY <1>4, <1>5, <1>6
  <2>2. \A i \in 1..n : i \in 1..n+Len(batch)
    BY <2>1
  <2>. QED
    BY <1>6, <2>1, <2>2
<1>13. UnitIds(tracker) \subseteq UnitIds(tracker')
  BY <1>9, <1>12 DEF UnitIds
<1>14. CurrentUnitPlanned(tracker)'
  <2>1. units[p].id \in UnitId
    BY <1>8 DEF Unit
  <2>2. units[p].id # None
    BY <2>1, WorkStateAssumption
  <2>. QED
    BY <1>8, <1>9, <2>2 DEF CurrentUnitPlanned, UnitIds
<1>15. AttemptsPlanned(tracker)'
  BY <1>1, <1>9, <1>13 DEF AttemptsPlanned
<1>16. \A k \in DOMAIN units : units[k].state \notin Active
  <2> SUFFICES ASSUME NEW k \in DOMAIN units PROVE units[k].state \notin Active
    OBVIOUS
  <2>1. CASE k \in 1..n
    BY <1>6, <1>7, <2>1
  <2>2. CASE k \in n+1 .. n+Len(batch)
    <3>1. k - n \in DOMAIN batch
      BY <1>4, <1>5, <2>2
    <3>. QED
      BY <1>4, <1>6, <2>2, <3>1 DEF Active
  <2>. QED
    BY <1>4, <1>5, <1>6, <2>1, <2>2
<1>17. OnlyCurrentUnitActive' /\ ActiveUnitsStarted'
  BY <1>9, <1>16 DEF OnlyCurrentUnitActive, ActiveUnitsStarted
<1>18. ledger' = ledger /\ view' = view
  BY DEF PlanUnits
<1>19. TypeOK'
  BY <1>9, <1>18 DEF IInv, TypeOK
<1>20. ReportsNameCurrentOrResolved'
  <2> SUFFICES ASSUME NEW s \in Session, view[s].unit # None
               PROVE  \E i \in DOMAIN units : /\ units[i].id = view[s].unit
                                              /\ units[i].state \in Resolved
    BY <1>9, <1>18 DEF ReportsNameCurrentOrResolved
  <2>1. PICK i \in DOMAIN tracker.units :
           /\ tracker.units[i].id = view[s].unit
           /\ view[s].unit = tracker.current_unit \/ tracker.units[i].state \in Resolved
    BY DEF IInv, ReportsNameCurrentOrResolved
  <2>2. tracker.units[i].state \in Resolved
    BY <1>1, <2>1, RouterLooksAtCurrent DEF PlanUnits
  <2>. QED
    BY <1>12, <2>1, <2>2
<1>. QED
  BY <1>11, <1>14, <1>15, <1>17, <1>19, <1>20 DEF IInv

----------------------------------------------------------------------------
(* The theorems.                                                           *)

LEMMA StepKeepsIInv == IInv /\ [Next]_vars => IInv'
<1> SUFFICES ASSUME IInv, [Next]_vars PROVE IInv'
  OBVIOUS
<1>1. ASSUME NEW s \in Session, SessionStep(s) PROVE IInv'
  <2>1. CASE Status(s)
    BY <2>1, StatusKeepsIInv
  <2>2. CASE Start(s)
    BY <2>2, ClaimKeepsIInv DEF Start, Events
  <2>3. ASSUME NEW outcome \in {"pass", "fail"}, Finish(s, outcome) PROVE IInv'
    BY <2>3, ClaimKeepsIInv DEF Finish, Events
  <2>4. ASSUME NEW event \in Events, Recover(s, event) PROVE IInv'
    BY <2>4, ClaimKeepsIInv DEF Recover
  <2>5. CASE ReviseAsPlanner(s)
    BY <2>5, ReviseKeepsIInv
  <2>6. CASE Diagnose(s)
    BY <2>6, DiagnoseKeepsIInv
  <2>7. CASE Refused(s)
    BY <2>7, RefusedKeepsIInv
  <2>. QED
    BY <1>1, <2>1, <2>2, <2>3, <2>4, <2>5, <2>6, <2>7 DEF SessionStep
<1>2. CASE UNCHANGED vars
  BY <1>2 DEF vars, IInv, TypeOK, UniqueIds, CurrentUnitPlanned, UnitIds, AttemptsPlanned,
     OnlyCurrentUnitActive, ActiveUnitsStarted, ReportsNameCurrentOrResolved
<1>. QED
  BY <1>1, <1>2, ConfirmBriefKeepsIInv, PlanUnitsKeepsIInv, RecordKeepsIInv DEF Next

\* Except for a command and a plan edit, no step touches the units or the pointer.
LEMMA OtherStepsKeepPlan ==
    ASSUME IInv,
           \/ \E s \in Session : Status(s) \/ ReviseAsPlanner(s) \/ Diagnose(s) \/ Refused(s)
           \/ ConfirmBrief
           \/ RecordAttempt
           \/ UNCHANGED vars
    PROVE  tracker'.units = tracker.units /\ tracker'.current_unit = tracker.current_unit
<1>1. tracker \in StateBlock
  BY DEF IInv, TypeOK
<1>2. CASE UNCHANGED vars \/ \E s \in Session : Status(s) \/ Diagnose(s) \/ Refused(s)
  BY <1>2 DEF vars, Status, Diagnose, Refused
<1>3. CASE \E s \in Session : ReviseAsPlanner(s)
  BY <1>1, <1>3 DEF ReviseAsPlanner, Revise, StateBlock
<1>4. CASE ConfirmBrief
  BY <1>1, <1>4 DEF ConfirmBrief, StateBlock
<1>5. CASE RecordAttempt
  <2>1. \E recorded : tracker' = [tracker EXCEPT !.attempts = recorded]
    BY <1>5 DEF RecordAttempt
  <2>. QED
    BY <1>1, <2>1 DEF StateBlock
<1>. QED
  BY <1>2, <1>3, <1>4, <1>5

\* A plan edit keeps every unit the plan has, and is made only when the current
\* one is resolved.
LEMMA PlanUnitsEffect ==
    ASSUME IInv, PlanUnits, NEW i \in DOMAIN tracker.units
    PROVE  /\ tracker'.units[i] = tracker.units[i]
           /\ tracker.units[i].id = tracker.current_unit => tracker.units[i].state \in Resolved
<1>1. /\ tracker \in StateBlock /\ UniqueIds(tracker)
  BY DEF IInv, TypeOK
<1>2. PICK batch \in NewUnits : tracker'.units = tracker.units \o batch
  BY <1>1 DEF PlanUnits, StateBlock
<1>3. PICK m \in 0..BatchCap :
         batch \in [1..m -> [id : UnitId \ UnitIds(tracker), kind : UnitKinds,
                             state : {"pending", "ready"}, attempt : {0}]]
  BY DEF NewUnits
<1>4. batch \in Seq(Unit)
  <2>1. m \in Nat
    BY BoundsAssumption
  <2>2. \A k \in 1..m : batch[k] \in Unit
    BY <1>3 DEF Unit, UnitStates
  <2>3. batch \in [1..m -> Unit]
    BY <1>3, <2>2
  <2>. QED
    BY <2>1, <2>3
<1>5. tracker.units \in Seq(Unit)
  BY <1>1 DEF StateBlock
<1>6. tracker'.units[i] = tracker.units[i]
  BY <1>2, <1>4, <1>5
<1>7. tracker.units[i].id = tracker.current_unit => tracker.units[i].state \in Resolved
  BY <1>1, RouterLooksAtCurrent DEF PlanUnits
<1>. QED
  BY <1>6, <1>7

\* The steps that could move a unit or the pointer: a command or a plan edit.
LEMMA StepCases ==
    ASSUME [Next]_vars
    PROVE  \/ \E s \in Session, event \in Events : SessionClaims(s, event)
           \/ PlanUnits
           \/ \E s \in Session : Status(s) \/ ReviseAsPlanner(s) \/ Diagnose(s) \/ Refused(s)
           \/ ConfirmBrief
           \/ RecordAttempt
           \/ UNCHANGED vars
<1>1. ASSUME NEW s \in Session, SessionStep(s)
      PROVE  \/ \E event \in Events : SessionClaims(s, event)
             \/ Status(s) \/ ReviseAsPlanner(s) \/ Diagnose(s) \/ Refused(s)
  BY <1>1 DEF SessionStep, Start, Finish, Recover, Events
<1>. QED
  BY <1>1 DEF Next

LEMMA InductiveInvariant == Spec => []IInv
BY InitIInv, StepKeepsIInv, PTL DEF Spec

\* A block with one active unit has at most one running, so it parses.
LEMMA IInvParses == IInv => Parses(tracker)
BY DEF IInv, Parses, AtMostOneRunning, UniqueIds, OnlyCurrentUnitActive, Active

\* Every block, ledger and report a run can reach has its type.
THEOREM TypeCorrect == Spec => []TypeOK
<1>1. IInv => TypeOK
  BY DEF IInv
<1>. QED
  BY <1>1, InductiveInvariant, PTL

\* However many sessions act on however stale reports, the file parses.
THEOREM AlwaysReadable == Spec => []TrackerReadable
<1>1. IInv => TrackerReadable
  BY IInvParses DEF TrackerReadable
<1>. QED
  BY <1>1, InductiveInvariant, PTL

\* No open attempt is ever left behind the pointer.
THEOREM ActiveIsCurrent == Spec => []OnlyCurrentUnitActive
<1>1. IInv => OnlyCurrentUnitActive
  BY DEF IInv
<1>. QED
  BY <1>1, InductiveInvariant, PTL

\* The pointer leaves a unit only once it is passed or superseded: the claim
\* that moves it has just passed the unit it names, and a planner's edit is
\* reached only from a resolved one.
THEOREM PointerLeavesOnlyResolved == Spec => PointerLeavesOnlyResolvedWork
<1>1. ASSUME IInv, [Next]_vars, NEW i \in DOMAIN tracker.units,
             tracker.units[i].id = tracker.current_unit,
             tracker'.current_unit # tracker.current_unit
      PROVE  tracker'.units[i].state \in Resolved
  <2>1. ASSUME NEW s \in Session, NEW event \in Events, SessionClaims(s, event)
        PROVE  tracker'.units[i].state \in Resolved
    <3>1. /\ event = "pass"
          /\ Target(tracker.units[i].state, event) # "illegal"
          /\ tracker'.units[i].state = Target(tracker.units[i].state, event)
      BY <1>1, <2>1, ClaimEffect
    <3>. QED
      BY <3>1 DEF Target, Resolved
  <2>2. CASE PlanUnits
    BY <1>1, <2>2, PlanUnitsEffect
  <2>. QED
    BY <1>1, <2>1, <2>2, StepCases, OtherStepsKeepPlan
<1>2. IInv /\ [Next]_vars => [\A i \in DOMAIN tracker.units :
          /\ tracker.units[i].id = tracker.current_unit
          /\ tracker'.current_unit # tracker.current_unit
          => tracker'.units[i].state \in Resolved]_vars
  BY <1>1
<1>. QED
  BY <1>2, InductiveInvariant, PTL DEF Spec, PointerLeavesOnlyResolvedWork

\* A finished package stays finished: a resolved unit has no legal event, so no
\* stale report starts one, and the router no longer sends anybody to plan.
THEOREM FinishedStaysFinished == Spec => HandoffIsFinal
<1>1. ASSUME IInv, [Next]_vars, IsComplete(tracker)
      PROVE  tracker'.units = tracker.units
  <2>1. ASSUME NEW s \in Session, NEW event \in Events, SessionClaims(s, event)
        PROVE  FALSE
    BY <1>1, <2>1 DEF SessionClaims, Claim, Accepts, IsComplete, Resolved, Target
  <2>2. ~PlanUnits
    <3>1. tracker.units # <<>>
      BY <1>1 DEF IsComplete
    <3>2. NextSkill(tracker) \in {"checkpoint-brainstorm", "checkpoint-handoff"}
      BY <1>1, <3>1 DEF NextSkill
    <3>. QED
      BY <3>2 DEF PlanUnits
  <2>. QED
    BY <1>1, <2>1, <2>2, StepCases, OtherStepsKeepPlan
<1>2. IInv /\ [Next]_vars => [IsComplete(tracker) => tracker'.units = tracker.units]_vars
  BY <1>1
<1>. QED
  BY <1>2, InductiveInvariant, PTL DEF Spec, HandoffIsFinal

----------------------------------------------------------------------------
(* What EVIDENCE.md says of the attempts.                                  *)

Outcomes(entries) == {k \in DOMAIN entries : entries[k].event \in {"pass", "fail"}}

\* The k-th outcome names at most attempt k.
Ranked(entries) ==
    \A k \in Outcomes(entries) :
        entries[k].attempt <= Cardinality({j \in Outcomes(entries) : j <= k})

Counted(unit, entries) ==
    unit.attempt = Cardinality(Outcomes(entries)) + (IF unit.state = "running" THEN 1 ELSE 0)

\* A unit no plan has named has no evidence.
UnplannedUnheard == \A u \in UnitId \ UnitIds(tracker) : ledger[u] = <<>>

\* No report names an attempt its unit has not had.
ReportsNotAhead ==
    \A s \in Session, i \in DOMAIN tracker.units :
        tracker.units[i].id = view[s].unit => view[s].attempt <= tracker.units[i].attempt

AccountInv ==
    /\ \A i \in DOMAIN tracker.units : Counted(tracker.units[i], ledger[tracker.units[i].id])
    /\ \A u \in UnitId : Ranked(ledger[u])
    /\ UnplannedUnheard
    /\ ReportsNotAhead

\* One entry more is one outcome more, if it records one, and then its attempt
\* is compared with their number.
LEMMA OutcomesOfAppend ==
    ASSUME NEW entries \in Seq(Evidence), NEW entry \in Evidence
    PROVE  LET after == Append(entries, entry)
           IN  /\ Cardinality(Outcomes(entries)) \in Nat
               /\ Cardinality(Outcomes(after)) =
                     Cardinality(Outcomes(entries)) + (IF entry.event \in {"pass", "fail"} THEN 1 ELSE 0)
               /\ /\ Ranked(entries)
                  /\ entry.event \in {"pass", "fail"}
                        => entry.attempt <= Cardinality(Outcomes(entries)) + 1
                  => Ranked(after)
<1> DEFINE n == Len(entries) + 1
           after == Append(entries, entry)
<1>1. n \in Nat /\ n \notin Outcomes(entries) /\ Outcomes(entries) \subseteq 1..Len(entries)
  BY DEF Outcomes
<1>2. IsFiniteSet(Outcomes(entries)) /\ Cardinality(Outcomes(entries)) \in Nat
  <2>1. IsFiniteSet(1..Len(entries))
    <3>1. 1 \in Int /\ Len(entries) \in Int
      OBVIOUS
    <3>. QED
      BY <3>1, FS_Interval
  <2>. QED
    BY <1>1, <2>1, FS_Subset, FS_CardinalityType
<1>3. /\ DOMAIN after = DOMAIN entries \cup {n} /\ after[n] = entry
      /\ \A k \in DOMAIN entries : after[k] = entries[k]
  OBVIOUS
<1>4. \A k \in Outcomes(entries) : k \in Nat /\ k < n
  <2>1. Len(entries) \in Nat
    OBVIOUS
  <2>. QED
    BY <1>1, <2>1
<1> HIDE DEF after, n
<1>5. CASE entry.event \in {"pass", "fail"}
  <2>1. Outcomes(after) = Outcomes(entries) \cup {n}
    BY <1>3, <1>5 DEF Outcomes
  <2>2. Cardinality(Outcomes(after)) = Cardinality(Outcomes(entries)) + 1
    BY <1>1, <1>2, <2>1, FS_AddElement
  <2>3. ASSUME Ranked(entries), entry.attempt <= Cardinality(Outcomes(entries)) + 1,
               NEW k \in Outcomes(after)
        PROVE  after[k].attempt <= Cardinality({j \in Outcomes(after) : j <= k})
    <3>1. CASE k = n
      <4>1. {j \in Outcomes(after) : j <= n} = Outcomes(after)
        BY <1>1, <1>4, <2>1
      <4>. QED
        BY <1>3, <2>2, <2>3, <3>1, <4>1
    <3>2. CASE k \in Outcomes(entries)
      <4>1. {j \in Outcomes(after) : j <= k} = {j \in Outcomes(entries) : j <= k}
        BY <1>1, <1>4, <2>1, <3>2
      <4>2. after[k] = entries[k]
        BY <1>3, <3>2 DEF Outcomes
      <4>. QED
        BY <2>3, <3>2, <4>1, <4>2 DEF Ranked
    <3>. QED
      BY <2>1, <3>1, <3>2
  <2>. QED
    BY <1>2, <1>5, <2>2, <2>3 DEF after, Ranked
<1>6. CASE entry.event \notin {"pass", "fail"}
  <2>1. Outcomes(after) = Outcomes(entries)
    BY <1>3, <1>6 DEF Outcomes
  <2>2. \A k \in Outcomes(entries) : after[k] = entries[k]
    BY <1>3 DEF Outcomes
  <2>3. Ranked(entries) => Ranked(after)
    BY <2>1, <2>2 DEF Ranked
  <2>. QED
    BY <1>2, <1>6, <2>1, <2>3 DEF after
<1>. QED
  BY <1>5, <1>6

\* Every unit of an edited plan is an old one, or new and never started.
LEMMA PlanUnitsAddFresh ==
    ASSUME IInv, PlanUnits
    PROVE  /\ ledger' = ledger /\ UnitIds(tracker) \subseteq UnitIds(tracker')
           /\ \A i \in DOMAIN tracker'.units :
                 \/ i \in DOMAIN tracker.units /\ tracker'.units[i] = tracker.units[i]
                 \/ /\ tracker'.units[i].id \in UnitId \ UnitIds(tracker)
                    /\ tracker'.units[i].attempt = 0 /\ tracker'.units[i].state # "running"
<1>1. tracker \in StateBlock /\ tracker.units \in Seq(Unit)
  BY DEF IInv, TypeOK, StateBlock
<1>2. PICK batch \in NewUnits : tracker'.units = tracker.units \o batch /\ ledger' = ledger
  BY <1>1 DEF PlanUnits, StateBlock
<1>3. PICK m \in 0..BatchCap :
         batch \in [1..m -> [id : UnitId \ UnitIds(tracker), kind : UnitKinds,
                             state : {"pending", "ready"}, attempt : {0}]]
  BY DEF NewUnits
<1>4. m \in Nat
  BY BoundsAssumption
<1>5. \A k \in 1..m : /\ batch[k] \in Unit /\ batch[k].id \in UnitId \ UnitIds(tracker)
                      /\ batch[k].attempt = 0 /\ batch[k].state # "running"
  BY <1>3 DEF Unit, UnitStates
<1>6. batch \in Seq(Unit) /\ Len(batch) = m
  BY <1>3, <1>4, <1>5
<1> DEFINE n == Len(tracker.units)
<1>7. ASSUME NEW i \in DOMAIN tracker'.units
      PROVE  \/ i \in DOMAIN tracker.units /\ tracker'.units[i] = tracker.units[i]
             \/ \E k \in 1..m : tracker'.units[i] = batch[k]
  <2>1. i \in 1 .. n + m /\ n \in Nat
    BY <1>1, <1>2, <1>6
  <2>2. CASE i \in 1 .. n
    BY <1>1, <1>2, <1>6, <2>2
  <2>3. CASE i \in n + 1 .. n + m
    <3>1. i - n \in 1..m /\ tracker'.units[i] = batch[i - n]
      BY <1>1, <1>2, <1>4, <1>6, <2>1, <2>3
    <3>. QED
      BY <3>1
  <2>. QED
    BY <1>4, <2>1, <2>2, <2>3
<1>8. UnitIds(tracker) \subseteq UnitIds(tracker')
  <2>1. \A i \in DOMAIN tracker.units :
           i \in DOMAIN tracker'.units /\ tracker'.units[i] = tracker.units[i]
    <3>1. \A i \in 1 .. n : i \in 1 .. n + m
      BY <1>1, <1>4
    <3>. QED
      BY <1>1, <1>2, <1>6, <3>1
  <2>. QED
    BY <2>1 DEF UnitIds
<1>. QED
  BY <1>2, <1>5, <1>7, <1>8

LEMMA InitAccountInv == Init => AccountInv
<1> SUFFICES ASSUME Init PROVE AccountInv
  OBVIOUS
<1>1. \A u \in UnitId : ledger[u] = <<>>
  BY DEF Init
<1>2. Ranked(<<>>)
  BY DEF Ranked, Outcomes
<1>. QED
  BY <1>1, <1>2 DEF Init, AccountInv, UnplannedUnheard, ReportsNotAhead, InitialState, UnitIds

\* A command writes the block and the evidence of one unit together, and its
\* report is no later than the attempt it ends.
LEMMA ClaimKeepsAccountInv ==
    ASSUME IInv, AccountInv, NEW s \in Session, NEW event \in Events, SessionClaims(s, event)
    PROVE  AccountInv'
<1> DEFINE u == view[s].unit
           entry == [event |-> event, attempt |-> view[s].attempt]
<1>1. /\ tracker \in StateBlock /\ ledger \in [UnitId -> Seq(Evidence)] /\ view[s] \in View
      /\ view \in [Session -> View] /\ view' = [view EXCEPT ![s] = NoView]
  BY DEF IInv, TypeOK, SessionClaims
<1>2. u \in UnitId /\ entry \in Evidence /\ entry.event = event /\ entry.attempt = view[s].attempt
  <2>1. u \in UnitId \cup {None} /\ u # None
    BY <1>1 DEF View, SessionClaims
  <2>2. view[s].attempt \in Nat
    BY <1>1 DEF View
  <2>. QED
    BY <2>1, <2>2 DEF Evidence
<1>3. ledger' = IF event = "start" THEN ledger
                ELSE [ledger EXCEPT ![u] = Append(ledger[u], entry)]
  BY <1>1, <1>2 DEF SessionClaims, Claim, Recorded
<1>4. /\ DOMAIN tracker'.units = DOMAIN tracker.units
      /\ \A i \in DOMAIN tracker.units :
            /\ tracker'.units[i].id = tracker.units[i].id
            /\ tracker.units[i].id # u => tracker'.units[i] = tracker.units[i]
            /\ tracker.units[i].id = u =>
                  /\ Target(tracker.units[i].state, event) # "illegal"
                  /\ tracker'.units[i].state = Target(tracker.units[i].state, event)
                  /\ tracker'.units[i].attempt = IF event = "start"
                                                 THEN tracker.units[i].attempt + 1
                                                 ELSE tracker.units[i].attempt
      /\ \E c \in DOMAIN tracker.units : tracker.units[c].id = u
  BY ClaimEffect
<1>5. \A i \in DOMAIN tracker.units : tracker.units[i].id = u =>
         view[s].attempt <= tracker.units[i].attempt
  BY DEF AccountInv, ReportsNotAhead
<1> HIDE DEF u, entry
<1>6. /\ Cardinality(Outcomes(ledger[u])) \in Nat
      /\ Cardinality(Outcomes(Append(ledger[u], entry))) =
            Cardinality(Outcomes(ledger[u])) + (IF event \in {"pass", "fail"} THEN 1 ELSE 0)
      /\ /\ Ranked(ledger[u])
         /\ event \in {"pass", "fail"} => view[s].attempt <= Cardinality(Outcomes(ledger[u])) + 1
         => Ranked(Append(ledger[u], entry))
  BY <1>1, <1>2, OutcomesOfAppend
<1>7. UnitIds(tracker)' = UnitIds(tracker) /\ u \in UnitIds(tracker)
  BY <1>4 DEF UnitIds
<1>8. UnplannedUnheard'
  BY <1>1, <1>2, <1>3, <1>7 DEF AccountInv, UnplannedUnheard
<1>9. \A i \in DOMAIN tracker.units : tracker.units[i] \in Unit
  BY <1>1 DEF StateBlock
<1>10. ASSUME NEW i \in DOMAIN tracker.units
       PROVE  Counted(tracker'.units[i], ledger'[tracker'.units[i].id])
  <2>1. Counted(tracker.units[i], ledger[tracker.units[i].id])
    BY DEF AccountInv
  <2>2. CASE tracker.units[i].id # u
    BY <1>1, <1>2, <1>3, <1>4, <1>9, <2>1, <2>2 DEF Unit
  <2>3. CASE tracker.units[i].id = u
    <3>1. /\ tracker'.units[i].id = u
          /\ Target(tracker.units[i].state, event) # "illegal"
          /\ tracker'.units[i].state = Target(tracker.units[i].state, event)
          /\ tracker'.units[i].attempt = IF event = "start"
                                         THEN tracker.units[i].attempt + 1
                                         ELSE tracker.units[i].attempt
      BY <1>4, <2>3
    <3>2. tracker.units[i].state = "running" <=> event \in {"pass", "fail"}
      BY <3>1 DEF Target
    <3>3. tracker'.units[i].state = "running" <=> event = "start"
      BY <3>1 DEF Target
    <3>4. CASE event = "start"
      BY <1>3, <1>6, <2>1, <2>3, <3>1, <3>2, <3>3, <3>4 DEF Counted
    <3>5. CASE event # "start"
      <4>1. ledger'[u] = Append(ledger[u], entry)
        BY <1>1, <1>2, <1>3, <3>5
      <4>. QED
        BY <1>6, <2>1, <2>3, <3>1, <3>2, <3>3, <3>5, <4>1 DEF Counted
    <3>. QED
      BY <3>4, <3>5
  <2>. QED
    BY <2>2, <2>3
<1>11. ASSUME NEW w \in UnitId PROVE Ranked(ledger'[w])
  <2>1. Ranked(ledger[w]) /\ Ranked(ledger[u])
    BY <1>2 DEF AccountInv
  <2>2. CASE event = "start" \/ w # u
    BY <1>1, <1>2, <1>3, <2>1, <2>2
  <2>3. CASE event # "start" /\ w = u
    <3>1. PICK c \in DOMAIN tracker.units : tracker.units[c].id = u
      BY <1>4
    <3>2. event \in {"pass", "fail"} => tracker.units[c].state = "running"
      BY <1>4, <3>1 DEF Target
    <3>3. Counted(tracker.units[c], ledger[u])
      BY <3>1 DEF AccountInv
    <3>4. event \in {"pass", "fail"} => view[s].attempt <= Cardinality(Outcomes(ledger[u])) + 1
      BY <1>5, <3>1, <3>2, <3>3 DEF Counted
    <3>5. ledger'[w] = Append(ledger[u], entry)
      BY <1>1, <1>2, <1>3, <2>3
    <3>. QED
      BY <1>6, <2>1, <3>4, <3>5
  <2>. QED
    BY <2>2, <2>3
<1>12. ReportsNotAhead'
  <2> SUFFICES ASSUME NEW t \in Session, NEW i \in DOMAIN tracker.units,
                      tracker.units[i].id = view'[t].unit
               PROVE  view'[t].attempt <= tracker'.units[i].attempt
    BY <1>4 DEF ReportsNotAhead
  <2>1. view'[t] = view[t] \/ view'[t] = NoView
    BY <1>1
  <2>2. tracker.units[i].attempt \in Nat /\ view[t].attempt \in Nat
    BY <1>1, <1>9 DEF Unit, View
  <2>3. tracker.units[i].attempt <= tracker'.units[i].attempt /\ tracker'.units[i].attempt \in Nat
    BY <1>4, <2>2
  <2>4. CASE view'[t] = NoView
    BY <2>3, <2>4 DEF NoView
  <2>5. CASE view'[t] = view[t]
    <3>1. view[t].attempt <= tracker.units[i].attempt
      BY <2>5 DEF AccountInv, ReportsNotAhead
    <3>. QED
      BY <2>2, <2>3, <2>5, <3>1
  <2>. QED
    BY <2>1, <2>4, <2>5
<1>. QED
  BY <1>4, <1>8, <1>10, <1>11, <1>12 DEF AccountInv

\* New units have no attempt and, having had no place in the plan, no evidence
\* and no report.
LEMMA PlanKeepsAccountInv ==
    ASSUME IInv, AccountInv, PlanUnits
    PROVE  AccountInv'
<1>1. UnplannedUnheard'
  BY PlanUnitsAddFresh DEF AccountInv, UnplannedUnheard
<1>2. ASSUME NEW i \in DOMAIN tracker'.units
      PROVE  Counted(tracker'.units[i], ledger'[tracker'.units[i].id])
  <2>1. CASE i \in DOMAIN tracker.units /\ tracker'.units[i] = tracker.units[i]
    BY <2>1, PlanUnitsAddFresh DEF AccountInv
  <2>2. CASE /\ tracker'.units[i].id \in UnitId \ UnitIds(tracker)
             /\ tracker'.units[i].attempt = 0 /\ tracker'.units[i].state # "running"
    <3>1. ledger'[tracker'.units[i].id] = <<>>
      BY <2>2, PlanUnitsAddFresh DEF AccountInv, UnplannedUnheard
    <3>2. Outcomes(<<>>) = {}
      BY DEF Outcomes
    <3>3. Cardinality(Outcomes(ledger'[tracker'.units[i].id])) = 0
      BY <3>1, <3>2, FS_EmptySet
    <3>. QED
      BY <2>2, <3>3 DEF Counted
  <2>. QED
    BY <2>1, <2>2, PlanUnitsAddFresh
<1>3. ReportsNotAhead'
  <2> SUFFICES ASSUME NEW s \in Session, NEW i \in DOMAIN tracker'.units,
                      tracker'.units[i].id = view[s].unit
               PROVE  view[s].attempt <= tracker'.units[i].attempt
    BY DEF PlanUnits, ReportsNotAhead
  <2>1. CASE i \in DOMAIN tracker.units /\ tracker'.units[i] = tracker.units[i]
    BY <2>1 DEF AccountInv, ReportsNotAhead
  <2>2. CASE tracker'.units[i].id \in UnitId \ UnitIds(tracker)
    <3>1. view[s].unit # None
      BY <2>2, WorkStateAssumption
    <3>. QED
      BY <2>2, <3>1 DEF IInv, ReportsNameCurrentOrResolved, UnitIds
  <2>. QED
    BY <2>1, <2>2, PlanUnitsAddFresh
<1>4. \A u \in UnitId : Ranked(ledger'[u])
  BY PlanUnitsAddFresh DEF AccountInv
<1>. QED
  BY <1>1, <1>2, <1>3, <1>4 DEF AccountInv

\* A diagnosis is no outcome.
LEMMA DiagnoseKeepsAccountInv ==
    ASSUME IInv, AccountInv, NEW s \in Session, Diagnose(s)
    PROVE  AccountInv'
<1> DEFINE u == view[s].unit
           entry == [event |-> "diagnosis", attempt |-> view[s].attempt]
<1>1. /\ tracker' = tracker /\ view' = [view EXCEPT ![s] = NoView]
      /\ ledger' = [ledger EXCEPT ![u] = Append(ledger[u], entry)]
  BY DEF Diagnose
<1>2. /\ tracker \in StateBlock /\ ledger \in [UnitId -> Seq(Evidence)]
      /\ view \in [Session -> View] /\ view[s] \in View
  BY DEF IInv, TypeOK
<1>3. entry \in Evidence /\ entry.event = "diagnosis"
  BY <1>2 DEF Evidence, View
<1> HIDE DEF entry
<1>4. ASSUME NEW w \in UnitId
      PROVE  /\ Cardinality(Outcomes(ledger'[w])) = Cardinality(Outcomes(ledger[w]))
             /\ Ranked(ledger'[w])
  <2>1. Ranked(ledger[w])
    BY DEF AccountInv
  <2>2. CASE w = u
    <3>1. ledger'[w] = Append(ledger[w], entry) /\ ledger[w] \in Seq(Evidence)
      BY <1>1, <1>2, <2>2
    <3>. QED
      BY <1>3, <2>1, <3>1, OutcomesOfAppend
  <2>3. CASE w # u
    BY <1>1, <1>2, <2>1, <2>3
  <2>. QED
    BY <2>2, <2>3
<1>5. \A i \in DOMAIN tracker.units : tracker.units[i] \in Unit
  BY <1>2 DEF StateBlock
<1>6. \A i \in DOMAIN tracker.units : Counted(tracker.units[i], ledger'[tracker.units[i].id])
  BY <1>4, <1>5 DEF AccountInv, Counted, Unit
<1>7. ReportsNotAhead'
  <2>1. \A t \in Session : view'[t] = view[t] \/ view'[t] = NoView
    BY <1>1, <1>2
  <2>. QED
    BY <1>1, <1>5, <2>1 DEF AccountInv, ReportsNotAhead, NoView, Unit
<1>8. UnplannedUnheard'
  <2>1. u \in UnitId => u \in UnitIds(tracker)
    BY WorkStateAssumption DEF IInv, ReportsNameCurrentOrResolved, UnitIds
  <2>. QED
    BY <1>1, <1>2, <2>1 DEF AccountInv, UnplannedUnheard
<1>. QED
  BY <1>1, <1>4, <1>6, <1>7, <1>8 DEF AccountInv

\* Reading the block makes the report no later than the block.
LEMMA StatusKeepsAccountInv ==
    ASSUME IInv, AccountInv, NEW s \in Session, Status(s)
    PROVE  AccountInv'
<1>1. /\ tracker' = tracker /\ ledger' = ledger
      /\ view' = [view EXCEPT ![s] = Report(tracker)] /\ view \in [Session -> View]
  BY DEF Status, IInv, TypeOK
<1>2. tracker \in StateBlock /\ UniqueIds(tracker)
  BY DEF IInv, TypeOK
<1>3. ASSUME NEW i \in DOMAIN tracker.units, tracker.units[i].id = Report(tracker).unit
      PROVE  Report(tracker).attempt <= tracker.units[i].attempt
  <2>1. tracker.units[i].id = tracker.current_unit /\ tracker.current_unit \in UnitIds(tracker)
    BY <1>3 DEF Report, UnitIds
  <2>2. (CHOOSE j \in DOMAIN tracker.units : tracker.units[j].id = tracker.current_unit) = i
    BY <1>2, <2>1 DEF UniqueIds
  <2>3. Report(tracker).attempt = tracker.units[i].attempt
    BY <2>1, <2>2 DEF Report
  <2>4. tracker.units[i].attempt \in Nat
    <3>1. tracker.units[i] \in Unit
      BY <1>2 DEF StateBlock
    <3>. QED
      BY <3>1 DEF Unit
  <2>. QED
    BY <2>3, <2>4
<1>4. ReportsNotAhead'
  <2>1. \A t \in Session : view'[t] = IF t = s THEN Report(tracker) ELSE view[t]
    BY <1>1
  <2>. QED
    BY <1>1, <1>3, <2>1 DEF AccountInv, ReportsNotAhead
<1>. QED
  BY <1>1, <1>4 DEF AccountInv, UnplannedUnheard

LEMMA StepKeepsAccountInv == IInv /\ AccountInv /\ [Next]_vars => AccountInv'
<1> SUFFICES ASSUME IInv, AccountInv, [Next]_vars PROVE AccountInv'
  OBVIOUS
<1>1. ASSUME \/ \E s \in Session : ReviseAsPlanner(s) \/ Refused(s)
             \/ ConfirmBrief
             \/ RecordAttempt
             \/ UNCHANGED vars
      PROVE  AccountInv'
  <2>1. tracker'.units = tracker.units
    BY <1>1, OtherStepsKeepPlan
  <2>2. ledger' = ledger
    BY <1>1 DEF ReviseAsPlanner, Revise, Refused, ConfirmBrief, RecordAttempt, vars
  <2>3. \A t \in Session : view'[t] = view[t] \/ view'[t] = NoView
    <3>1. view \in [Session -> View]
      BY DEF IInv, TypeOK
    <3>2. view' = view \/ \E s \in Session : view' = [view EXCEPT ![s] = NoView]
      BY <1>1 DEF ReviseAsPlanner, Refused, ConfirmBrief, RecordAttempt, vars
    <3>. QED
      BY <3>1, <3>2
  <2>4. \A i \in DOMAIN tracker.units : tracker.units[i] \in Unit
    BY DEF IInv, TypeOK, StateBlock
  <2>5. ReportsNotAhead'
    BY <2>1, <2>3, <2>4 DEF AccountInv, ReportsNotAhead, NoView, Unit
  <2>. QED
    BY <2>1, <2>2, <2>5 DEF AccountInv, UnplannedUnheard, UnitIds
<1>. QED
  BY <1>1, StepCases, ClaimKeepsAccountInv, PlanKeepsAccountInv, DiagnoseKeepsAccountInv,
     StatusKeepsAccountInv

\* CURRENT.md and EVIDENCE.md agree on how often each unit was tried: `start`
\* counts an attempt, every outcome is recorded with the state it ends, and none
\* names an attempt later than the one it ends.
THEOREM EvidenceAccountsForAttempts == Spec => []LedgerAccountsForAttempts
<1>1. IInv /\ AccountInv => LedgerAccountsForAttempts
  <2> SUFFICES ASSUME IInv, AccountInv, NEW i \in DOMAIN tracker.units
               PROVE  LET unit == tracker.units[i]
                          outcomes == Outcomes(ledger[unit.id])
                      IN  /\ unit.attempt = Cardinality(outcomes)
                                + (IF unit.state = "running" THEN 1 ELSE 0)
                          /\ \A k \in outcomes :
                                ledger[unit.id][k].attempt <= Cardinality({j \in outcomes : j <= k})
    BY DEF LedgerAccountsForAttempts, Outcomes
  <2>1. tracker.units[i].id \in UnitId
    <3>1. tracker.units[i] \in Unit
      BY DEF IInv, TypeOK, StateBlock
    <3>. QED
      BY <3>1 DEF Unit
  <2>. QED
    BY <2>1 DEF AccountInv, Counted, Ranked
<1>. QED
  BY <1>1, InitAccountInv, StepKeepsAccountInv, InductiveInvariant, PTL DEF Spec

----------------------------------------------------------------------------
(* What the router offers is legal.                                        *)

\* next_skill where the pointer names a planned unit.
LEMMA RouterAnswers ==
    ASSUME NEW st \in StateBlock, UniqueIds(st),
           NEW i \in DOMAIN st.units, st.units[i].id = st.current_unit
    PROVE  NextSkill(st) = IF ~st.brief_confirmed THEN "checkpoint-brainstorm"
                           ELSE IF IsComplete(st) THEN "checkpoint-handoff"
                           ELSE SkillFor(st, st.units[i])
<1> DEFINE c == CHOOSE j \in DOMAIN st.units : st.units[j].id = st.current_unit
<1>1. c = i
  BY DEF UniqueIds
<1>2. st.current_unit \in UnitIds(st) /\ st.units # <<>>
  <2>1. st.units \in Seq(Unit)
    BY DEF StateBlock
  <2>. QED
    BY <2>1 DEF UnitIds
<1>. QED
  BY <1>1, <1>2 DEF NextSkill

\* The first record of an attempt is the one that is found.
LEMMA DiagnosisFound ==
    ASSUME tracker \in StateBlock, NEW unit \in Unit, NEW fingerprint \in Fingerprint,
           ~HasRecord(unit.id, unit.attempt),
           NEW st, st.attempts = Append(tracker.attempts,
                      [unit |-> unit.id, n |-> unit.attempt, fingerprint |-> fingerprint])
    PROVE  Diagnosis(st, unit.id, unit.attempt) # None
<1> DEFINE found == {k \in DOMAIN st.attempts :
                      st.attempts[k].unit = unit.id /\ st.attempts[k].n = unit.attempt}
           record == [unit |-> unit.id, n |-> unit.attempt, fingerprint |-> fingerprint]
           n == Len(tracker.attempts) + 1
<1>1. tracker.attempts \in Seq(Attempt) /\ n \in Nat
  BY DEF StateBlock
<1>2. None \notin Fingerprint
  BY WorkStateAssumption
<1>3. /\ DOMAIN st.attempts = DOMAIN tracker.attempts \cup {n} /\ st.attempts[n] = record
      /\ \A k \in DOMAIN tracker.attempts : st.attempts[k] = tracker.attempts[k]
  BY <1>1
<1>4. record.unit = unit.id /\ record.n = unit.attempt /\ record.fingerprint = fingerprint
  OBVIOUS
<1> HIDE DEF record, n
<1>5. found = {n}
  BY <1>3, <1>4 DEF HasRecord
<1>6. Diagnosis(st, unit.id, unit.attempt) = st.attempts[n].fingerprint
  <2>1. (CHOOSE k \in found : \A l \in found : k <= l) = n
    BY <1>1, <1>5 DEF n
  <2>. QED
    BY <1>5, <2>1 DEF Diagnosis
<1>. QED
  BY <1>2, <1>3, <1>4, <1>6

LEMMA LegalWork ==
    ASSUME IInv
    PROVE  RouterOffersLegalWork
<1> DEFINE v == Report(tracker)
<1>1. /\ tracker \in StateBlock /\ UniqueIds(tracker) /\ tracker.units \in Seq(Unit)
  BY DEF IInv, TypeOK, StateBlock
<1>2. /\ v.unit = tracker.current_unit /\ v.plan_revision = tracker.plan_revision
      /\ v.skill = NextSkill(tracker) /\ v.events = AllowedEvents(tracker)
  BY DEF Report
<1>3. CASE tracker.current_unit \notin UnitIds(tracker)
  <2>1. tracker.units = <<>>
    BY <1>3 DEF IInv, CurrentUnitPlanned
  <2>2. NextSkill(tracker) \in {"checkpoint-brainstorm", "checkpoint-plan"}
    BY <2>1 DEF NextSkill
  <2>. QED
    BY <1>2, <2>1, <2>2 DEF RouterOffersLegalWork
<1>4. CASE tracker.current_unit \in UnitIds(tracker)
  <2>1. PICK i \in DOMAIN tracker.units : tracker.units[i].id = tracker.current_unit
    BY <1>4 DEF UnitIds
  <2> DEFINE unit == tracker.units[i]
  <2>2. unit \in Unit /\ unit.state \in UnitStates
    <3>1. tracker.units[i] \in Unit
      BY <1>1, <2>1
    <3>. QED
      BY <3>1 DEF Unit
  <2>3. NextSkill(tracker) \in {"checkpoint-brainstorm", "checkpoint-handoff", SkillFor(tracker, unit)}
    BY <1>1, <2>1, RouterAnswers
  <2>4. \A event : Target(unit.state, event) # "illegal" =>
                      Accepts(tracker, v.unit, event, v.plan_revision)
    BY <1>2, <2>1 DEF Accepts
  <2>5. v.skill = "checkpoint-claim" =>
           EventsOf(v) = {"start"} /\ Target(unit.state, "start") # "illegal"
    BY <1>2, <2>2, <2>3 DEF SkillFor, EventsOf, Target, UnitStates, Resolved
  <2>6. v.skill \in {"checkpoint-execute", "checkpoint-verify-gate"} =>
           /\ EventsOf(v) = {"pass", "fail"}
           /\ Target(unit.state, "pass") # "illegal" /\ Target(unit.state, "fail") # "illegal"
    BY <1>2, <2>2, <2>3 DEF SkillFor, EventsOf, Target, UnitStates, Resolved
  <2>7. v.skill = "checkpoint-recover" =>
           /\ EventsOf(v) = AllowedEvents(tracker) /\ AllowedEvents(tracker) # {}
           /\ \A event \in AllowedEvents(tracker) : Target(unit.state, event) # "illegal"
    <3> SUFFICES ASSUME v.skill = "checkpoint-recover"
                 PROVE  /\ EventsOf(v) = AllowedEvents(tracker) /\ AllowedEvents(tracker) # {}
                        /\ \A event \in AllowedEvents(tracker) : Target(unit.state, event) # "illegal"
      OBVIOUS
    <3>1. EventsOf(v) = AllowedEvents(tracker)
      BY <1>2 DEF EventsOf
    <3>2. unit.state \in {"failed", "blocked"}
      BY <1>2, <2>2, <2>3 DEF SkillFor, UnitStates, Resolved
    <3>3. \/ Target(unit.state, "replan") # "illegal"
          \/ Target(unit.state, "unblock") # "illegal"
      BY <3>2 DEF Target
    <3>4. "replan" \in AllowedEvents(tracker) \/ "unblock" \in AllowedEvents(tracker)
      BY <2>1, <3>3 DEF AllowedEvents, Events
    <3>5. \A event \in AllowedEvents(tracker) : Target(unit.state, event) # "illegal"
      BY <1>1, <2>1 DEF AllowedEvents, UniqueIds
    <3>. QED
      BY <3>1, <3>4, <3>5
  <2>8. v.skill = "checkpoint-plan" =>
           \A j \in DOMAIN tracker.units : tracker.units[j].state # "running"
    <3>1. v.skill = "checkpoint-plan" => unit.state \in Resolved
      BY <1>1, <1>2, <2>1, RouterLooksAtCurrent
    <3>2. \A j \in DOMAIN tracker.units : tracker.units[j].state = "running" => j = i
      BY <1>1, <2>1 DEF IInv, OnlyCurrentUnitActive, Active, UniqueIds
    <3>. QED
      BY <3>1, <3>2 DEF Resolved
  <2>9. ASSUME v.skill = "checkpoint-diagnose", ~HasRecord(v.unit, v.attempt),
               NEW fingerprint \in Fingerprint
        PROVE  NextSkill([tracker EXCEPT !.attempts =
                  Append(tracker.attempts, [unit |-> v.unit, n |-> v.attempt,
                                            fingerprint |-> fingerprint])]) = "checkpoint-recover"
    <3> DEFINE record == [unit |-> unit.id, n |-> unit.attempt, fingerprint |-> fingerprint]
               recorded == Append(tracker.attempts, record)
               st == [tracker EXCEPT !.attempts = recorded]
    <3>1. v.attempt = unit.attempt
      <4>1. (CHOOSE j \in DOMAIN tracker.units : tracker.units[j].id = tracker.current_unit) = i
        BY <1>1, <2>1 DEF UniqueIds
      <4>. QED
        BY <1>4, <4>1 DEF Report
    <3>2. /\ NextSkill(tracker) = SkillFor(tracker, unit) /\ tracker.brief_confirmed
          /\ ~IsComplete(tracker)
      <4>1. NextSkill(tracker) = IF ~tracker.brief_confirmed THEN "checkpoint-brainstorm"
                                 ELSE IF IsComplete(tracker) THEN "checkpoint-handoff"
                                 ELSE SkillFor(tracker, unit)
        BY <1>1, <2>1, RouterAnswers
      <4>2. NextSkill(tracker) = "checkpoint-diagnose"
        BY <1>2, <2>9
      <4>. QED
        BY <4>1, <4>2
    <3>3. unit.state = "failed"
      BY <1>2, <2>2, <2>9, <3>2 DEF SkillFor, UnitStates, Resolved
    <3>4. record \in Attempt
      <4>1. unit.attempt > 0
        BY <3>3 DEF IInv, ActiveUnitsStarted, Active
      <4>. QED
        BY <2>2, <4>1 DEF Unit, Attempt
    <3>5. recorded \in Seq(Attempt)
      <4>1. tracker.attempts \in Seq(Attempt)
        BY <1>1 DEF StateBlock
      <4> HIDE DEF record
      <4>. QED
        BY <3>4, <4>1
    <3> HIDE DEF recorded
    <3>6. /\ st \in StateBlock /\ st.units = tracker.units /\ st.current_unit = tracker.current_unit
          /\ st.brief_confirmed = tracker.brief_confirmed /\ st.attempts = recorded
      BY <1>1, <3>5 DEF StateBlock
    <3> HIDE DEF st
    <3>7. UniqueIds(st) /\ ~IsComplete(st)
      BY <1>1, <3>2, <3>6 DEF UniqueIds, IsComplete
    <3>8. Diagnosis(st, unit.id, unit.attempt) # None
      BY <1>1, <1>2, <2>1, <2>2, <2>9, <3>1, <3>6, DiagnosisFound DEF recorded
    <3>9. NextSkill(st) = SkillFor(st, unit)
      BY <2>1, <3>2, <3>6, <3>7, RouterAnswers
    <3>10. NextSkill(st) = "checkpoint-recover"
      BY <3>3, <3>8, <3>9 DEF SkillFor, Resolved
    <3>. QED
      BY <1>2, <2>1, <3>1, <3>10 DEF st, recorded
  <2>10. v.skill = "checkpoint-recover" =>
            {"replan", "supersede", "block"} \subseteq v.events \/ v.events = {"unblock"}
    <3>1. ASSUME v.skill = "checkpoint-recover"
          PROVE  unit.state \in {"failed", "blocked"}
      BY <1>2, <2>2, <2>3, <3>1 DEF SkillFor, UnitStates, Resolved
    <3>2. unit.state = "failed" => {"replan", "supersede", "block"} \subseteq AllowedEvents(tracker)
      BY <2>1 DEF AllowedEvents, Events, Target
    <3>3. unit.state = "blocked" => AllowedEvents(tracker) = {"unblock"}
      <4> SUFFICES ASSUME unit.state = "blocked" PROVE AllowedEvents(tracker) = {"unblock"}
        OBVIOUS
      <4>1. \A event \in Events : Target(unit.state, event) # "illegal" <=> event = "unblock"
        BY DEF Events, Target
      <4>2. \A j \in DOMAIN tracker.units : tracker.units[j].id = tracker.current_unit => j = i
        BY <1>1, <2>1 DEF UniqueIds
      <4>. QED
        BY <2>1, <4>1, <4>2 DEF AllowedEvents, Events
    <3>. QED
      BY <1>2, <3>1, <3>2, <3>3
  <2> HIDE DEF v, unit
  <2>11. v.skill \in {"checkpoint-claim", "checkpoint-execute", "checkpoint-verify-gate",
                      "checkpoint-recover"}
            => /\ EventsOf(v) # {}
               /\ \A event \in EventsOf(v) : Accepts(tracker, v.unit, event, v.plan_revision)
    BY <2>4, <2>5, <2>6, <2>7
  <2>. QED
    BY <2>8, <2>9, <2>10, <2>11 DEF v, RouterOffersLegalWork
<1>. QED
  BY <1>3, <1>4

\* A report acted on at once is never refused: next_skill, allowed_events and
\* apply_event agree, a failed unit keeps what a refused retry leaves, and a
\* cause recorded first for its attempt leads on to recovery.
THEOREM RouterAgreesWithCommands == Spec => []RouterOffersLegalWork
<1>1. IInv => RouterOffersLegalWork
  BY LegalWork
<1>. QED
  BY <1>1, InductiveInvariant, PTL

=============================================================================
