----------------------------- MODULE WorkTracker -----------------------------
(***************************************************************************)
(* One work package under several agent sessions.  A session runs          *)
(* `work status`, follows the skill the report names and runs the one      *)
(* command that skill documents; between the two, other sessions act, so   *)
(* every command works from a report that may be stale.  The brief and the *)
(* plan are written by a session into CURRENT.md itself, a diagnosis into  *)
(* EVIDENCE.md; no command of the program writes them.                     *)
(*                                                                         *)
(* A command is one step here, as WorkCommands defines it: the lock and    *)
(* the file replacements behind it are the subject of WorkStore.           *)
(***************************************************************************)
EXTENDS WorkCommands, FiniteSets

CONSTANTS
    Session,        \* agent sessions working on the package
    AttemptCap,     \* bound: starts per unit
    LedgerCap,      \* bound: evidence entries per unit
    RecordCap,      \* bound: records in the block's `attempts`
    RevisionCap,    \* bound: plan_revision
    BatchCap        \* bound: units added to the plan in one edit

ASSUME BoundsAssumption ==
    {AttemptCap, LedgerCap, RecordCap, RevisionCap, BatchCap} \subseteq Nat

VARIABLE
    view   \* per session, the last `work status` report it still acts on

vars == <<tracker, ledger, view>>

Skills ==
    {"checkpoint-brainstorm", "checkpoint-plan", "checkpoint-handoff",
     "checkpoint-diagnose", "checkpoint-recover", "checkpoint-claim",
     "checkpoint-verify-gate", "checkpoint-execute"}

View == [unit : UnitId \cup {None}, attempt : Nat, plan_revision : Nat,
         skill : Skills \cup {"none"}, events : SUBSET Events]

NoView == [unit |-> None, attempt |-> 0, plan_revision |-> 0,
           skill |-> "none", events |-> {}]

\* EVIDENCE.md holds what the commands record, and diagnoses.
Evidence == [event : Events \cup {"diagnosis"}, attempt : Nat]

\* The one invariant about shapes: the block, the evidence and the reports.
TypeOK ==
    /\ tracker \in StateBlock
    /\ ledger \in [UnitId -> Seq(Evidence)]
    /\ view \in [Session -> View]

Init ==
    /\ tracker = InitialState
    /\ ledger = [u \in UnitId |-> <<>>]
    /\ view = [s \in Session |-> NoView]

----------------------------------------------------------------------------
(* The report.                                                             *)

\* build_work_status: everything in it is derived from the block just read.
Report(st) ==
    [unit          |-> st.current_unit,
     attempt       |-> IF st.current_unit \in UnitIds(st)
                       THEN st.units[CHOOSE i \in DOMAIN st.units :
                                        st.units[i].id = st.current_unit].attempt
                       ELSE 0,
     plan_revision |-> st.plan_revision,
     skill         |-> NextSkill(st),
     events        |-> AllowedEvents(st)]

\* A block that does not parse is reported as "no active work package".
Status(s) ==
    /\ Parses(tracker)
    /\ view' = [view EXCEPT ![s] = Report(tracker)]
    /\ UNCHANGED <<tracker, ledger>>

----------------------------------------------------------------------------
\* The bounds: how far starts, evidence and revisions are followed.
InBounds(u, event) ==
    IF event = "start"
    THEN \A i \in DOMAIN tracker.units :
            tracker.units[i].id = u => tracker.units[i].attempt < AttemptCap
    ELSE Len(ledger[u]) < LedgerCap

----------------------------------------------------------------------------
(* What a session does with its report: the command its skill documents,   *)
(* for the unit and the revision the report names.  A command ends the     *)
(* session's use of the report ("checkpoint and stop").                    *)

SessionClaims(s, event) ==
    /\ view[s].unit # None
    /\ InBounds(view[s].unit, event)
    /\ Claim(view[s].unit, event, view[s].plan_revision, view[s].attempt)
    /\ view' = [view EXCEPT ![s] = NoView]

\* checkpoint-claim.
Start(s) ==
    /\ view[s].skill = "checkpoint-claim"
    /\ SessionClaims(s, "start")

\* checkpoint-evidence, after checkpoint-execute or checkpoint-verify-gate.
Finish(s, outcome) ==
    /\ view[s].skill \in {"checkpoint-execute", "checkpoint-verify-gate"}
    /\ SessionClaims(s, outcome)

\* checkpoint-recover: one of the events the report allows.
Recover(s, event) ==
    /\ view[s].skill = "checkpoint-recover"
    /\ event \in view[s].events
    /\ SessionClaims(s, event)

\* checkpoint-plan, when the plan changes after a failed unit.
ReviseAsPlanner(s) ==
    /\ view[s].skill = "checkpoint-plan"
    /\ view[s].plan_revision < RevisionCap
    /\ Revise(view[s].plan_revision + 1)
    /\ view' = [view EXCEPT ![s] = NoView]

\* The events the skill named in report v may ask `work` for.
EventsOf(v) ==
    CASE v.skill = "checkpoint-claim" -> {"start"}
      [] v.skill \in {"checkpoint-execute", "checkpoint-verify-gate"} -> {"pass", "fail"}
      [] v.skill = "checkpoint-recover" -> v.events
      [] OTHER -> {}

\* checkpoint-diagnose: "Record the fingerprint in the evidence document."  No
\* command reads it there, so which fingerprint it is makes no difference.
Diagnose(s) ==
    /\ view[s].skill = "checkpoint-diagnose"
    /\ Len(ledger[view[s].unit]) < LedgerCap
    /\ ledger' = [ledger EXCEPT ![view[s].unit] =
                     Append(@, [event |-> "diagnosis", attempt |-> view[s].attempt])]
    /\ view' = [view EXCEPT ![s] = NoView]
    /\ UNCHANGED tracker

\* The command is refused: nothing changes and the session reads status again.
Refused(s) ==
    /\ \E event \in EventsOf(view[s]) :
          ~Accepts(tracker, view[s].unit, event, view[s].plan_revision)
    /\ view' = [view EXCEPT ![s] = NoView]
    /\ UNCHANGED <<tracker, ledger>>

----------------------------------------------------------------------------
(* Edits a session makes to CURRENT.md by hand, on the content it opens.   *)

\* checkpoint-brainstorm.
ConfirmBrief ==
    /\ Parses(tracker)
    /\ NextSkill(tracker) = "checkpoint-brainstorm"
    /\ tracker' = [tracker EXCEPT !.brief_confirmed = TRUE]
    /\ UNCHANGED <<ledger, view>>

\* Up to BatchCap new units with ids the plan does not use yet.
NewUnits ==
    {batch \in UNION {[1..n -> [id : UnitId \ UnitIds(tracker), kind : UnitKinds,
                                state : {"pending", "ready"}, attempt : {0}]] : n \in 0..BatchCap} :
        \A i, j \in DOMAIN batch : batch[i].id = batch[j].id => i = j}

\* checkpoint-plan: add units and point at one that is still to do.
PlanUnits ==
    /\ Parses(tracker)
    /\ NextSkill(tracker) = "checkpoint-plan"
    /\ \E batch \in NewUnits :
          LET units == tracker.units \o batch
          IN  \E i \in UnresolvedAt(units) :
                 tracker' = [tracker EXCEPT !.units = units, !.current_unit = units[i].id]
    /\ UNCHANGED <<ledger, view>>

\* The router reads diagnoses from the block's `attempts`, which no command and
\* no skill writes.  Somebody who wants one seen records the failed attempt
\* there by hand, with its cause or before the cause is known.
RecordAttempt ==
    /\ Parses(tracker)
    /\ Len(tracker.attempts) < RecordCap
    /\ \E fingerprint \in Fingerprint \cup {None}, i \in DOMAIN tracker.units :
          /\ tracker.units[i].id = tracker.current_unit
          /\ tracker.units[i].state = "failed"
          /\ tracker' = [tracker EXCEPT !.attempts =
                Append(@, [unit |-> tracker.units[i].id, n |-> tracker.units[i].attempt,
                           fingerprint |-> fingerprint])]
    /\ UNCHANGED <<ledger, view>>

----------------------------------------------------------------------------
SessionStep(s) ==
    \/ Status(s)
    \/ Start(s)
    \/ \E outcome \in {"pass", "fail"} : Finish(s, outcome)
    \/ \E event \in Events : Recover(s, event)
    \/ ReviseAsPlanner(s)
    \/ Diagnose(s)
    \/ Refused(s)

Next ==
    \/ \E s \in Session : SessionStep(s)
    \/ ConfirmBrief
    \/ PlanUnits
    \/ RecordAttempt

Spec == Init /\ [][Next]_vars

\* The commands without the router: `work start|pass|fail|recover --unit U`
\* for whichever unit the caller names.
AnyCommand ==
    /\ \E u \in UnitId, event \in Events :
          /\ InBounds(u, event)
          /\ Claim(u, event, tracker.plan_revision, 0)
    /\ UNCHANGED view

UnroutedSpec == Init /\ [][AnyCommand \/ ConfirmBrief \/ PlanUnits \/ RecordAttempt]_vars

----------------------------------------------------------------------------
(* Properties.                                                             *)

Active == {"running", "failed", "blocked"}

HasRecord(u, n) ==
    \E k \in DOMAIN tracker.attempts :
        tracker.attempts[k].unit = u /\ tracker.attempts[k].n = n

\* Whatever the sessions do, and however stale their reports are, CURRENT.md
\* stays a block the parser accepts: no transition, plan edit or record
\* leaves the package unreadable (apply_event never re-runs _build's checks).
TrackerReadable == Parses(tracker)

\* A unit that runs, failed or is blocked is the one the tracker points at, so
\* the router can never leave an open attempt behind ("FAIL does not advance",
\* _next_unit).
OnlyCurrentUnitActive ==
    \A i \in DOMAIN tracker.units :
        tracker.units[i].state \in Active => tracker.units[i].id = tracker.current_unit

\* CURRENT.md and EVIDENCE.md agree: a unit's attempt counter is the number of
\* outcomes recorded for it, plus the attempt under way (claim writes both), and
\* the k-th outcome never names an attempt after the k-th, as a report cannot
\* run ahead of the block.  It may name an earlier one: claim does not compare.
LedgerAccountsForAttempts ==
    \A i \in DOMAIN tracker.units :
        LET unit == tracker.units[i]
            outcomes == {k \in DOMAIN ledger[unit.id] :
                            ledger[unit.id][k].event \in {"pass", "fail"}}
        IN  /\ unit.attempt = Cardinality(outcomes) + (IF unit.state = "running" THEN 1 ELSE 0)
            /\ \A k \in outcomes :
                  ledger[unit.id][k].attempt <= Cardinality({j \in outcomes : j <= k})

\* A report acted on at once is never refused: each command the next skill may
\* run is legal, there is one, a planner may revise, a failed unit keeps the
\* events a refused retry leaves (chain-v1.md), and a cause recorded in the
\* block leads on to recovery unless the attempt already had a record there.
RouterOffersLegalWork ==
    LET v == Report(tracker)
        recorded(fingerprint) ==
            [tracker EXCEPT !.attempts =
                Append(@, [unit |-> v.unit, n |-> v.attempt, fingerprint |-> fingerprint])]
    IN  /\ v.skill \in {"checkpoint-claim", "checkpoint-execute", "checkpoint-verify-gate",
                         "checkpoint-recover"}
              => /\ EventsOf(v) # {}
                 /\ \A event \in EventsOf(v) : Accepts(tracker, v.unit, event, v.plan_revision)
        /\ v.skill = "checkpoint-recover"
              => {"replan", "supersede", "block"} \subseteq v.events \/ v.events = {"unblock"}
        /\ v.skill = "checkpoint-plan"
              => \A i \in DOMAIN tracker.units : tracker.units[i].state # "running"
        /\ v.skill = "checkpoint-diagnose" /\ ~HasRecord(v.unit, v.attempt)
              => \A fingerprint \in Fingerprint :
                    NextSkill(recorded(fingerprint)) = "checkpoint-recover"

\* Finished work stays finished: once every unit is resolved and one passed, no
\* stale session and no plan edit starts, adds or reopens a unit (row 4 of
\* next_skill comes before the rows that send a session back to planning).
HandoffIsFinal ==
    [][IsComplete(tracker) => tracker'.units = tracker.units]_vars

\* The pointer leaves a unit only when that unit is passed or superseded, so
\* no failed, blocked or running unit is ever dropped from sight.
PointerLeavesOnlyResolvedWork ==
    [][\A i \in DOMAIN tracker.units :
          /\ tracker.units[i].id = tracker.current_unit
          /\ tracker'.current_unit # tracker.current_unit
          => tracker'.units[i].state \in Resolved]_vars

----------------------------------------------------------------------------
(* What the skills say and the router does not do: the subject of a run    *)
(* that finds it violated.                                                 *)

\* A current unit that failed is routed on to recovery once its attempt has a
\* diagnosis in the evidence document, where checkpoint-diagnose puts it.
DiagnosisLeadsOn ==
    \A i \in DOMAIN tracker.units :
        LET unit == tracker.units[i]
        IN  /\ unit.id = tracker.current_unit /\ unit.state = "failed"
            /\ \E k \in DOMAIN ledger[unit.id] :
                  ledger[unit.id][k] = [event |-> "diagnosis", attempt |-> unit.attempt]
            => NextSkill(tracker) = "checkpoint-recover"

=============================================================================
