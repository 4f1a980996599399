------------------------------ MODULE WorkChain ------------------------------
(***************************************************************************)
(* The router (agent_checkpoint/work_chain.py): which skill acts next and  *)
(* which events the report offers, both computed from the state block on   *)
(* every read and stored nowhere.                                          *)
(***************************************************************************)
EXTENDS WorkState

\* The recorded attempts of unit u, oldest first.
AttemptsOf(st, u) == SelectSeq(st.attempts, LAMBDA a : a.unit = u)

AttemptLimit(st) ==
    IF st.attempt_override = None THEN MaxAttempts ELSE st.attempt_override

\* retry_permitted: not when a retry would repeat a failure unchanged.
RetryPermitted(st, u) ==
    LET mine == AttemptsOf(st, u)
        n    == Len(mine)
    IN  \/ n = 0
        \/ /\ n < AttemptLimit(st)
           /\ mine[n].fingerprint # None
           /\ n >= 2 => mine[n - 1].fingerprint # mine[n].fingerprint

\* _diagnosis: the fingerprint of the first record of attempt n of unit u.
Diagnosis(st, u, n) ==
    LET found == {k \in DOMAIN st.attempts : st.attempts[k].unit = u /\ st.attempts[k].n = n}
    IN  IF found = {} THEN None
        ELSE st.attempts[CHOOSE k \in found : \A l \in found : k <= l].fingerprint

\* allowed_events: the legal events of the current unit, less a refused retry.
AllowedEvents(st) ==
    {e \in Events :
        /\ \E i \in DOMAIN st.units :
              st.units[i].id = st.current_unit /\ Target(st.units[i].state, e) # "illegal"
        /\ e = "retry" => RetryPermitted(st, st.current_unit)}

SkillFor(st, unit) ==
    CASE unit.state \in Resolved             -> "checkpoint-plan"
      [] unit.state = "blocked"              -> "checkpoint-recover"
      [] unit.state = "failed"               ->
            IF Diagnosis(st, unit.id, unit.attempt) = None
            THEN "checkpoint-diagnose" ELSE "checkpoint-recover"
      [] unit.state \in {"pending", "ready"} -> "checkpoint-claim"
      [] unit.state = "running"              ->
            IF unit.kind = "gate" THEN "checkpoint-verify-gate" ELSE "checkpoint-execute"

\* A router without row 4: finished work is sent back to planning.
NextSkillForgetsHandoff(st) ==
    IF ~st.brief_confirmed THEN "checkpoint-brainstorm"
    ELSE IF st.current_unit \notin UnitIds(st) THEN "checkpoint-plan"
    ELSE LET i == CHOOSE i \in DOMAIN st.units : st.units[i].id = st.current_unit
         IN  SkillFor(st, st.units[i])

\* A router that sends a blocked unit back to be claimed.
NextSkillClaimsBlocked(st) ==
    IF ~st.brief_confirmed THEN "checkpoint-brainstorm"
    ELSE IF st.current_unit \notin UnitIds(st) THEN "checkpoint-plan"
    ELSE IF IsComplete(st) THEN "checkpoint-handoff"
    ELSE LET i == CHOOSE i \in DOMAIN st.units : st.units[i].id = st.current_unit
         IN  IF st.units[i].state = "blocked" THEN "checkpoint-claim"
             ELSE SkillFor(st, st.units[i])

\* next_skill on a block that exists: the first row of chain-v1 that matches.
NextSkill(st) ==
    IF ~st.brief_confirmed THEN "checkpoint-brainstorm"
    ELSE IF st.units = <<>> THEN "checkpoint-plan"
    ELSE IF IsComplete(st) THEN "checkpoint-handoff"
    ELSE IF st.current_unit \notin UnitIds(st) THEN "checkpoint-plan"
    ELSE LET i == CHOOSE i \in DOMAIN st.units : st.units[i].id = st.current_unit
         IN  SkillFor(st, st.units[i])

=============================================================================
