------------------------------ MODULE WorkState ------------------------------
(***************************************************************************)
(* The state block of CURRENT.md as data: what a block holds, which blocks *)
(* the parser accepts, and what one event does to a block                  *)
(* (agent_checkpoint/work_state.py).                                       *)
(*                                                                         *)
(* Left out because no decision of the program reads them: schema_version, *)
(* work_id and work_type (fixed when the package is created), a unit's     *)
(* group, an attempt's result and evidence_ref, and the prose that         *)
(* render_state rewrites around the block.                                 *)
(***************************************************************************)
EXTENDS Naturals, Sequences

CONSTANTS
    UnitId,        \* the ids a plan may give to its units
    Fingerprint,   \* root-cause fingerprints a diagnosis may record
    MaxAttempts,   \* max_attempts of the package
    None           \* JSON null / Python None

ASSUME WorkStateAssumption ==
    /\ None \notin UnitId \cup Fingerprint \cup Nat
    /\ MaxAttempts \in Nat \ {0}

UnitStates ==
    {"pending", "ready", "running", "passed", "failed", "blocked", "superseded"}
UnitKinds == {"step", "gate"}
Resolved == {"passed", "superseded"}

Unit == [id : UnitId, kind : UnitKinds, state : UnitStates, attempt : Nat]
Attempt == [unit : UnitId, n : Nat \ {0}, fingerprint : Fingerprint \cup {None}]

StateBlock ==
    [plan_revision    : Nat \ {0},
     brief_confirmed  : BOOLEAN,
     current_unit     : UnitId \cup {None},
     attempt_override : (Nat \ {0}) \cup {None},
     units            : Seq(Unit),
     attempts         : Seq(Attempt)]

InitialState ==
    [plan_revision    |-> 1,
     brief_confirmed  |-> FALSE,
     current_unit     |-> None,
     attempt_override |-> None,
     units            |-> <<>>,
     attempts         |-> <<>>]

UnitIds(st) == {st.units[i].id : i \in DOMAIN st.units}

----------------------------------------------------------------------------
(* What parse_state accepts beyond the types: the checks of _build.        *)

UniqueIds(st) ==
    \A i, j \in DOMAIN st.units : st.units[i].id = st.units[j].id => i = j

AtMostOneRunning(st) ==
    \A i, j \in DOMAIN st.units :
        st.units[i].state = "running" /\ st.units[j].state = "running" => i = j

CurrentUnitPlanned(st) ==
    IF st.current_unit = None THEN st.units = <<>>
                              ELSE st.current_unit \in UnitIds(st)

AttemptsPlanned(st) ==
    \A k \in DOMAIN st.attempts : st.attempts[k].unit \in UnitIds(st)

Parses(st) ==
    /\ UniqueIds(st)
    /\ AtMostOneRunning(st)
    /\ CurrentUnitPlanned(st)
    /\ AttemptsPlanned(st)

IsComplete(st) ==
    /\ \A i \in DOMAIN st.units : st.units[i].state \in Resolved
    /\ \E i \in DOMAIN st.units : st.units[i].state = "passed"

----------------------------------------------------------------------------
(* One event.                                                              *)

Events == {"start", "pass", "fail", "retry", "replan", "supersede", "block", "unblock"}

\* TRANSITIONS.get((state, event)); a pair the table lacks is "illegal".
Target(state, event) ==
    CASE state \in {"ready", "pending"} /\ event = "start"       -> "running"
      [] state = "running" /\ event = "pass"                     -> "passed"
      [] state = "running" /\ event = "fail"                     -> "failed"
      [] state = "failed" /\ event = "retry"                     -> "ready"
      [] state = "failed" /\ event \in {"replan", "supersede"}   -> "superseded"
      [] state = "failed" /\ event = "block"                     -> "blocked"
      [] state = "blocked" /\ event = "unblock"                  -> "ready"
      [] OTHER                                                   -> "illegal"

UnresolvedAt(units) == {i \in DOMAIN units : units[i].state \notin Resolved}

\* The pointer is cleared once no unit is left to do.
NextUnitClearsAtTheEnd(units, current) ==
    IF UnresolvedAt(units) = {}
    THEN None
    ELSE units[CHOOSE i \in UnresolvedAt(units) :
                   \A j \in UnresolvedAt(units) : i <= j].id

\* _next_unit: the first unit in plan order that is not resolved.
NextUnit(units, current) ==
    IF UnresolvedAt(units) = {}
    THEN current
    ELSE units[CHOOSE i \in UnresolvedAt(units) :
                   \A j \in UnresolvedAt(units) : i <= j].id

\* The transition table is not consulted.
AcceptsAnyEvent(st, u, event, revision) ==
    revision = st.plan_revision /\ u \in UnitIds(st)

\* What apply_event refuses: a stale revision, an unknown unit, an illegal pair.
Accepts(st, u, event, revision) ==
    /\ revision = st.plan_revision
    /\ \E i \in DOMAIN st.units :
          st.units[i].id = u /\ Target(st.units[i].state, event) # "illegal"

Moved(unit, event) ==
    [unit EXCEPT !.state = Target(unit.state, event),
                 !.attempt = IF event = "start" THEN @ + 1 ELSE @]

\* The pointer advances on every outcome, not only on a pass.
ApplyEventAdvancesOnFail(st, u, event) ==
    LET units == [i \in DOMAIN st.units |->
                     IF st.units[i].id = u THEN Moved(st.units[i], event) ELSE st.units[i]]
        open  == {i \in DOMAIN units : units[i].state \in {"pending", "ready"}}
    IN  [st EXCEPT !.units = units,
                   !.current_unit = IF event \in {"pass", "fail"} /\ open # {}
                                    THEN units[CHOOSE i \in open : TRUE].id ELSE @]

\* The attempt is counted when it ends instead of when it starts, retries too.
ApplyEventCountsRetries(st, u, event) ==
    LET units == [i \in DOMAIN st.units |->
                     IF st.units[i].id # u THEN st.units[i]
                     ELSE [Moved(st.units[i], event) EXCEPT
                              !.attempt = IF event = "retry" THEN @ + 1 ELSE @]]
    IN  [st EXCEPT !.units = units,
                   !.current_unit = IF event = "pass" THEN NextUnit(units, @) ELSE @]

ApplyEvent(st, u, event) ==
    LET units == [i \in DOMAIN st.units |->
                     IF st.units[i].id = u THEN Moved(st.units[i], event) ELSE st.units[i]]
    IN  [st EXCEPT !.units = units,
                   !.current_unit = IF event = "pass" THEN NextUnit(units, @) ELSE @]

=============================================================================
