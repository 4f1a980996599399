----------------------------- MODULE WorkCommands -----------------------------
(***************************************************************************)
(* What the two locked commands on a package promise their callers         *)
(* (agent_checkpoint/work_store.py), as single steps on the two documents. *)
(* WorkTracker drives these commands through the router; WorkStore shows   *)
(* that the lock and the file replacements of the code implement them.     *)
(***************************************************************************)
EXTENDS WorkChain

VARIABLES
    tracker,   \* the state block in CURRENT.md
    ledger     \* EVIDENCE.md: per unit, what each recorded event says of itself

Entry == [event : Events, attempt : Nat]

\* `work start` passes empty evidence text, every other event one entry, in
\* which the caller wrote the attempt number itself.
Recorded(entries, u, event, attempt) ==
    IF event = "start" THEN entries
    ELSE [entries EXCEPT ![u] = Append(@, [event |-> event, attempt |-> attempt])]

\* work_store.claim.
Claim(u, event, revision, attempt) ==
    /\ Parses(tracker)
    /\ Accepts(tracker, u, event, revision)
    /\ tracker' = ApplyEvent(tracker, u, event)
    /\ ledger' = Recorded(ledger, u, event, attempt)

\* What revise_plan refuses: a running unit, any revision but the next.
Revisable(st, revision) ==
    /\ \A i \in DOMAIN st.units : st.units[i].state # "running"
    /\ revision = st.plan_revision + 1

\* work_store.revise_plan.
Revise(revision) ==
    /\ Parses(tracker)
    /\ Revisable(tracker, revision)
    /\ tracker' = [tracker EXCEPT !.plan_revision = revision]
    /\ UNCHANGED ledger

\* A claim whose process was stopped between the two documents, or could not
\* restore the first: the block has moved, its evidence is missing.
ClaimTorn(u, event, revision) ==
    /\ Parses(tracker)
    /\ Accepts(tracker, u, event, revision)
    /\ tracker' = ApplyEvent(tracker, u, event)
    /\ UNCHANGED ledger

CommandStep(attempts) ==
    \/ \E u \in UnitId, event \in Events, attempt \in attempts :
          Claim(u, event, tracker.plan_revision, attempt)
    \/ Revise(tracker.plan_revision + 1)

TornStep ==
    \E u \in UnitId, event \in Events : ClaimTorn(u, event, tracker.plan_revision)

=============================================================================
