------------------------------- MODULE WorkStore -------------------------------
(***************************************************************************)
(* claim and revise_plan (agent_checkpoint/work_store.py) as the processes *)
(* that run them: wait for the package's lock, read, decide, replace       *)
(* CURRENT.md, then EVIDENCE.md.  The caller chose unit, event and         *)
(* revision from what it read before it asked for the lock.                *)
(***************************************************************************)
EXTENDS PairWrite, WorkChain

CONSTANTS
    Plan,      \* the units the package starts with
    CallCap    \* bound: commands called in one behaviour

\* What a command was asked for: the unit, its event, the revision and the
\* attempt number its caller read.
Request == [unit : UnitId \cup {None}, event : Events \cup {"revise"},
            revision : Nat, attempt : Nat]

\* A unit runs only once it was started, which counted its first attempt.
ASSUME CommandsAssumption ==
    /\ Plan \in Seq(Unit) \ {<<>>}
    /\ \A i \in DOMAIN Plan : Plan[i].state = "running" => Plan[i].attempt > 0
    /\ CallCap \in Nat
    /\ Nothing \notin StateBlock \cup Request

VARIABLES
    request,   \* per process, what its command asks for
    calls      \* commands called so far

vars == <<lock, files, op, litter, mishaps, request, calls>>

Current == files["first"]       \* the state block of CURRENT.md
Evidence == files["second"]     \* EVIDENCE.md

Planned == [InitialState EXCEPT !.brief_confirmed = TRUE, !.units = Plan,
                                !.current_unit = Plan[1].id]

Init ==
    /\ InitStorage(Planned, [u \in UnitId |-> <<>>])
    /\ request = [p \in Process |-> Nothing]
    /\ calls = 0

----------------------------------------------------------------------------
(* What a claim says of the two documents.                                 *)

\* A refinement mapping: until EVIDENCE.md is replaced too, a reader of the
\* promise still sees the block that is kept as the backup.
Writers == {p \in Process : op[p].step \in {"swap", "rollback"} /\ HalfSwapped(p)}

Promised ==
    IF Writers = {} THEN Current ELSE op[CHOOSE p \in Writers : TRUE].saved

Commands == INSTANCE WorkCommands WITH tracker <- Promised, ledger <- Evidence

----------------------------------------------------------------------------
(* The commands.                                                           *)

\* `work start|pass|fail|recover --unit U`, `work revise`: the revision comes
\* from the caller, who read the block at this moment.
Call(p) ==
    /\ calls < CallCap /\ calls' = calls + 1
    /\ Open(p)
    /\ \/ \E i \in DOMAIN Current.units, event \in Events :
             /\ Target(Current.units[i].state, event) # "illegal"
             /\ request' = [request EXCEPT ![p] =
                   [unit |-> Current.units[i].id, event |-> event,
                    revision |-> Current.plan_revision,
                    attempt |-> Current.units[i].attempt]]
       \/ request' = [request EXCEPT ![p] =
             [unit |-> None, event |-> "revise", revision |-> Current.plan_revision + 1,
              attempt |-> 0]]

\* Both documents are read again under the lock; the decision is apply_event's.
Decide(p) ==
    LET r == request[p]
    IN  /\ Acquired(p)
        /\ r.event # "revise"
        /\ IF Parses(Current) /\ Accepts(Current, r.unit, r.event, r.revision)
           THEN Submit(p, [first  |-> ApplyEvent(Current, r.unit, r.event),
                           second |-> Commands!Recorded(Evidence, r.unit, r.event, r.attempt)])
           ELSE Refuse(p)
        /\ UNCHANGED <<request, calls>>

DecideRevision(p) ==
    LET r == request[p]
    IN  /\ Acquired(p)
        /\ r.event = "revise"
        /\ IF Parses(Current) /\ Commands!Revisable(Current, r.revision)
           THEN Submit(p, [first |-> [Current EXCEPT !.plan_revision = r.revision]])
           ELSE Refuse(p)
        /\ UNCHANGED <<request, calls>>

\* A process forgets its request when its command ends.
Settle ==
    /\ UNCHANGED calls
    /\ request' = [p \in Process |-> IF op'[p].step = "idle" THEN Nothing ELSE request[p]]

ProcessStep(p) ==
    \/ Decide(p)
    \/ DecideRevision(p)
    \/ (LockStep(p) \/ WriteStep(p)) /\ Settle

Next == \E p \in Process : Call(p) \/ ProcessStep(p) \/ (Killed(p) /\ Settle)

\* A process that runs a command keeps running; nothing makes it die, and no
\* caller has to come.
Spec == Init /\ [][Next]_vars /\ \A p \in Process : WF_vars(ProcessStep(p))

----------------------------------------------------------------------------
(* Properties.                                                             *)

TypeOK ==
    /\ StorageTypeOK
    /\ Current \in StateBlock
    /\ Evidence \in [UnitId -> Seq(Commands!Entry)]
    /\ request \in [Process -> Request \cup {Nothing}]
    /\ calls \in 0..CallCap

\* Wherever a process is killed and whatever fails, EVIDENCE.md never records
\* an outcome CURRENT.md does not know: the block is replaced first and is
\* restored only while the evidence is still the old one (_atomic_write_pair).
EvidenceNeverAhead ==
    \A i \in DOMAIN Current.units :
        LET unit == Current.units[i]
            outcomes == {k \in DOMAIN Evidence[unit.id] :
                            Evidence[unit.id][k].event \in {"pass", "fail"}}
        IN  Cardinality(outcomes) + (IF unit.state = "running" THEN 1 ELSE 0) <= unit.attempt

\* Processes whose command has not ended.
Asking == {p \in Process : request[p] # Nothing}

\* The two replacements, the rollback and the races for the lock amount to the
\* single steps of WorkCommands; a claim is torn only after a process was
\* killed between the replacements or could not undo the first.  The attempt
\* number in the evidence is one a caller read when it called.
ImplementsCommands ==
    [][\/ Commands!CommandStep({request[p].attempt : p \in Asking})
       \/ /\ mishaps' \cap {"crash", "interrupt", "rollback"} # {}
          /\ Commands!TornStep]_<<Promised, Evidence>>

\* Every command ends and leaves the lock to others: refused, failed, timed
\* out or killed, no process keeps the package locked.
EveryCommandEnds ==
    \A p \in Process : []<>(op[p].step = "idle" /\ lock # p)

\* claim's docstring, "or raise unchanged": a command that reports an error
\* leaves CURRENT.md as it was, wherever in staging, replacing and undoing the
\* error came from. Three cases are excepted, which the code does not undo: a
\* failing rollback, Ctrl-C between the replacements, and an unlink of the
\* finally clause that fails after both documents have been replaced.
RaisesUnchanged ==
    [][\A p \in Process :
          /\ op[p].saved # Nothing
          /\ op'[p].step = "release" /\ op'[p].outcome = "error"
          /\ mishaps' \cap {"rollback", "interrupt", "unlink"} = {}
          => files'["first"] = op[p].saved]_vars

=============================================================================
