--------------------------- MODULE WorkStoreProofs ---------------------------
(***************************************************************************)
(* Proofs about WorkStore for every plan, every number of processes and    *)
(* every bound.  The inductive invariant follows one command through the   *)
(* replacement of the pair: what it decided under the lock still fits the  *)
(* two documents until they are replaced, because a process that is not    *)
(* between Acquire and Release changes nothing.                            *)
(***************************************************************************)
EXTENDS WorkStore, FiniteSetTheorems, WellFoundedInduction, SequenceTheorems, TLAPS

Ledger == [UnitId -> Seq(Commands!Entry)]

Replacement == {<<>>} \cup [first : StateBlock] \cup [first : StateBlock, second : Ledger]

Operation == [step : Steps, outcome : Outcomes, new : Replacement,
              staged : SUBSET Temporary, saved : StateBlock \cup {Nothing}]

StateTypeOK ==
    /\ lock \in Process \cup {Nothing}
    /\ files \in [first : StateBlock, second : Ledger]
    /\ op \in [Process -> Operation]
    /\ litter \in SUBSET Temporary
    /\ mishaps \in SUBSET Mishap
    /\ request \in [Process -> Request \cup {Nothing}]
    /\ calls \in 0..CallCap

\* flock: who holds the lock is exactly who is between Acquire and Release.
HoldsLock(p) == op[p].step \notin {"idle", "wait"}

LockInv == \A p \in Process : HoldsLock(p) <=> lock = p

\* The first document has been replaced and the backup holds the one before.
Halfway(p) ==
    /\ IsPair(p)
    /\ op[p].staged = {"second", "backup"}
    /\ op[p].saved # Nothing
    /\ Current = op[p].new["first"]

\* Where a command has got to, and what that says of its temporaries and of
\* its backup.
Progress(p) ==
    LET o == op[p]
    IN  /\ o.step = "idle" <=> request[p] = Nothing
        /\ o.step \in {"idle", "wait", "locked"} => o = [Idle EXCEPT !.step = o.step]
        /\ o.step = "stage" =>
              /\ o.saved = Nothing
              /\ o.staged = {} \/ (IsPair(p) /\ o.staged = {"first"})
        /\ o.step = "backup" => o.saved = Nothing /\ IsPair(p) /\ o.staged = File
        /\ o.step = "swap" =>
              \/ ~ IsPair(p) /\ o.staged = {"first"} /\ o.saved = Nothing
              \/ IsPair(p) /\ o.staged = Temporary /\ o.saved = Current
              \/ Halfway(p)
        /\ o.step = "rollback" => Halfway(p)

\* Once a command is cleaning up after an error, its backup is what is there.
Restored(p) ==
    /\ op[p].step \in {"clean", "release"}
    /\ op[p].outcome = "error"
    /\ op[p].saved # Nothing
    /\ mishaps \cap {"rollback", "interrupt", "unlink"} = {}
    => Current = op[p].saved

\* The block a reader of the promise sees while p replaces the documents.
Before(p) ==
    IF op[p].step \in {"swap", "rollback"} /\ HalfSwapped(p) THEN op[p].saved ELSE Current

\* What p is about to write is what its request makes of that block and of
\* the evidence as it still is.
Decided(p) ==
    LET r == request[p]
    IN  op[p].step \in {"stage", "backup", "swap", "rollback"} =>
        /\ Parses(Before(p))
        /\ \/ /\ r.event \in Events
              /\ Accepts(Before(p), r.unit, r.event, r.revision)
              /\ op[p].new = [first  |-> ApplyEvent(Before(p), r.unit, r.event),
                              second |-> Commands!Recorded(Evidence, r.unit, r.event, r.attempt)]
           \/ /\ r.event = "revise"
              /\ Commands!Revisable(Before(p), r.revision)
              /\ op[p].new = [first |-> [Before(p) EXCEPT !.plan_revision = r.revision]]

\* EvidenceNeverAhead of any block and any evidence.
OutcomesOf(ledger, u) == {k \in DOMAIN ledger[u] : ledger[u][k].event \in {"pass", "fail"}}

NotAhead(st, ledger) ==
    \A i \in DOMAIN st.units :
        Cardinality(OutcomesOf(ledger, st.units[i].id))
            + (IF st.units[i].state = "running" THEN 1 ELSE 0) <= st.units[i].attempt

\* Both the block that is there and the one a rollback would bring back.
EvidenceInv ==
    /\ NotAhead(Current, Evidence)
    /\ \A p \in Process : NotAhead(Before(p), Evidence)

IInv ==
    /\ StateTypeOK
    /\ LockInv
    /\ \A p \in Process : Progress(p) /\ Restored(p) /\ Decided(p)
    /\ EvidenceInv

----------------------------------------------------------------------------
(* Claims and the evidence they leave.                                     *)

\* _next_unit answers a unit of the plan, or leaves the pointer.
LEMMA NextUnitType ==
    ASSUME NEW units \in Seq(Unit), NEW current \in UnitId \cup {None}
    PROVE  NextUnit(units, current) \in UnitId \cup {None}
<1> SUFFICES ASSUME UnresolvedAt(units) # {}
             PROVE  NextUnit(units, current) \in UnitId \cup {None}
  BY DEF NextUnit
<1> DEFINE Less == {p \in Nat \X Nat : p[1] < p[2]}
<1>1. IsWellFoundedOn(Less, Nat)
  BY NatLessThanWellFounded DEF OpToRel
<1>2. \A a, b \in Nat : a < b => <<a, b>> \in Less
  OBVIOUS
<1> HIDE DEF Less
<1>3. UnresolvedAt(units) \in SUBSET Nat
  BY DEF UnresolvedAt
<1>4. PICK i \in UnresolvedAt(units) : \A j \in UnresolvedAt(units) : <<j, i>> \notin Less
  BY <1>1, <1>3, WFMin, Zenon
<1>5. \A j \in UnresolvedAt(units) : i <= j
  <2>1. \A j \in UnresolvedAt(units) : ~ (j < i)
    <3> HIDE DEF UnresolvedAt
    <3>. QED
      BY <1>2, <1>3, <1>4
  <2>. QED
    BY <1>3, <2>1
<1>6. PICK first \in UnresolvedAt(units) : NextUnit(units, current) = units[first].id
  BY <1>5 DEF NextUnit
<1>7. units[first] \in Unit
  BY <1>6 DEF UnresolvedAt
<1>. QED
  BY <1>6, <1>7 DEF Unit

\* What one accepted event does to a block: it moves the unit it is about alone.
LEMMA ApplyEventEffect ==
    ASSUME NEW st \in StateBlock, NEW u, NEW event \in Events, NEW revision,
           UniqueIds(st), CurrentUnitPlanned(st), Accepts(st, u, event, revision)
    PROVE  LET new == ApplyEvent(st, u, event)
           IN  /\ new \in StateBlock
               /\ DOMAIN new.units = DOMAIN st.units
               /\ \A i \in DOMAIN st.units :
                     /\ new.units[i].id = st.units[i].id
                     /\ st.units[i].id # u => new.units[i] = st.units[i]
                     /\ st.units[i].id = u =>
                           /\ Target(st.units[i].state, event) # "illegal"
                           /\ new.units[i].state = Target(st.units[i].state, event)
                           /\ new.units[i].attempt = IF event = "start"
                                                     THEN st.units[i].attempt + 1
                                                     ELSE st.units[i].attempt
<1> DEFINE new == ApplyEvent(st, u, event)
           units == [i \in DOMAIN st.units |->
                        IF st.units[i].id = u THEN Moved(st.units[i], event)
                                              ELSE st.units[i]]
<1>1. new = [st EXCEPT !.units = units,
                       !.current_unit = IF event = "pass" THEN NextUnit(units, st.current_unit)
                                        ELSE st.current_unit]
  BY DEF ApplyEvent, StateBlock
<1>2. \A i \in DOMAIN st.units : st.units[i].id = u => Target(st.units[i].state, event) # "illegal"
  BY DEF Accepts, UniqueIds
<1>3. \A i \in DOMAIN st.units : st.units[i] \in Unit
  BY DEF StateBlock
<1>4. ASSUME NEW i \in DOMAIN st.units, st.units[i].id = u
      PROVE  Moved(st.units[i], event) \in Unit
  <2>1. Target(st.units[i].state, event) \in UnitStates
    BY <1>2, <1>3, <1>4 DEF Unit, Target, UnitStates
  <2>2. st.units[i] \in Unit /\ st.units[i].attempt + 1 \in Nat
    BY <1>3 DEF Unit
  <2>. QED
    BY <2>1, <2>2 DEF Moved, Unit
<1>5. units \in Seq(Unit) /\ Len(units) = Len(st.units)
  <2>1. st.units \in Seq(Unit)
    BY DEF StateBlock
  <2>2. units \in [1..Len(st.units) -> Unit]
    BY <1>3, <1>4, <2>1
  <2>. QED
    BY <2>1, <2>2
<1>6. NextUnit(units, st.current_unit) \in UnitId \cup {None}
  BY <1>5, NextUnitType DEF StateBlock
<1>7. new \in StateBlock /\ new.units = units
  BY <1>1, <1>5, <1>6 DEF StateBlock
<1>8. \A i \in DOMAIN st.units :
         st.units[i].id = u => /\ units[i].id = st.units[i].id
                               /\ units[i].state = Target(st.units[i].state, event)
                               /\ units[i].attempt = IF event = "start"
                                                     THEN st.units[i].attempt + 1
                                                     ELSE st.units[i].attempt
  BY <1>3 DEF Moved, Unit
<1>. QED
  BY <1>1, <1>2, <1>5, <1>7, <1>8 DEF StateBlock

\* What an accepted request makes of well-typed documents is well typed.
LEMMA ClaimType ==
    ASSUME NEW st \in StateBlock, NEW ledger \in Ledger, NEW r \in Request,
           r.event \in Events, Parses(st), Accepts(st, r.unit, r.event, r.revision)
    PROVE  /\ r.unit \in UnitId
           /\ ApplyEvent(st, r.unit, r.event) \in StateBlock
           /\ Commands!Recorded(ledger, r.unit, r.event, r.attempt) \in Ledger
<1>1. PICK i \in DOMAIN st.units : st.units[i].id = r.unit
  BY DEF Accepts
<1>2. r.unit \in UnitId
  <2>1. st.units[i] \in Unit
    BY DEF StateBlock
  <2>. QED
    BY <1>1, <2>1 DEF Unit
<1>3. ApplyEvent(st, r.unit, r.event) \in StateBlock
  BY ApplyEventEffect DEF Parses
<1>4. [event |-> r.event, attempt |-> r.attempt] \in Commands!Entry
  BY DEF Commands!Entry, Commands!Events, Events, Request
<1>5. Commands!Recorded(ledger, r.unit, r.event, r.attempt) \in Ledger
  BY <1>2, <1>4 DEF Commands!Recorded, Ledger
<1>. QED
  BY <1>2, <1>3, <1>5

\* One command records at most one outcome, of the unit it is about.
LEMMA RecordedOutcomes ==
    ASSUME NEW ledger \in Ledger, NEW u \in UnitId, NEW event \in Events,
           NEW attempt \in Nat, NEW v \in UnitId
    PROVE  LET new == Commands!Recorded(ledger, u, event, attempt)
               before == Cardinality(OutcomesOf(ledger, v))
               after == Cardinality(OutcomesOf(new, v))
           IN  /\ before \in Nat /\ after \in Nat
               /\ after <= before + 1
               /\ v # u \/ event \notin {"pass", "fail"} => after = before
<1> DEFINE new == Commands!Recorded(ledger, u, event, attempt)
           entry == [event |-> event, attempt |-> attempt]
           old == ledger[v]
<1>1. old \in Seq(Commands!Entry) /\ entry \in Commands!Entry
  BY DEF Ledger, Commands!Entry, Commands!Events, Events
<1>2. IsFiniteSet(OutcomesOf(ledger, v)) /\ Cardinality(OutcomesOf(ledger, v)) \in Nat
  <2>1. OutcomesOf(ledger, v) \subseteq 1..Len(old) /\ Len(old) \in Nat
    BY <1>1 DEF OutcomesOf
  <2>2. IsFiniteSet(1..Len(old))
    BY <2>1, FS_Interval
  <2>. QED
    BY <2>1, <2>2, FS_Subset, FS_CardinalityType
<1>3. CASE v # u \/ event = "start"
  <2>1. new[v] = old
    BY <1>3 DEF Commands!Recorded, Ledger
  <2>2. OutcomesOf(new, v) = OutcomesOf(ledger, v)
    BY <2>1 DEF OutcomesOf
  <2>. QED
    BY <1>2, <2>2
<1>4. CASE v = u /\ event # "start"
  <2>1. new[v] = Append(old, entry)
    BY <1>4 DEF Commands!Recorded, Ledger
  <2>2. /\ DOMAIN new[v] = DOMAIN old \cup {Len(old) + 1}
        /\ \A k \in DOMAIN old : new[v][k] = old[k]
        /\ new[v][Len(old) + 1] = entry
        /\ Len(old) + 1 \notin DOMAIN old
    BY <1>1, <2>1
  <2>3. CASE event \in {"pass", "fail"}
    <3>1. OutcomesOf(new, v) = OutcomesOf(ledger, v) \cup {Len(old) + 1}
      BY <2>2, <2>3 DEF OutcomesOf
    <3>2. Len(old) + 1 \notin OutcomesOf(ledger, v)
      BY <2>2 DEF OutcomesOf
    <3>3. Cardinality(OutcomesOf(new, v)) = Cardinality(OutcomesOf(ledger, v)) + 1
      BY <1>2, <3>1, <3>2, FS_AddElement
    <3>. QED
      BY <1>2, <1>4, <2>3, <3>3
  <2>4. CASE event \notin {"pass", "fail"}
    <3>1. OutcomesOf(new, v) = OutcomesOf(ledger, v)
      BY <2>2, <2>4 DEF OutcomesOf
    <3>. QED
      BY <1>2, <3>1
  <2>. QED
    BY <2>3, <2>4
<1>. QED
  BY <1>3, <1>4

\* A claim counts an attempt before it runs and stops running before its
\* outcome is recorded: neither document alone gets ahead.
LEMMA ClaimKeepsNotAhead ==
    ASSUME NEW st \in StateBlock, NEW ledger \in Ledger, NEW r \in Request,
           r.event \in Events, Parses(st), Accepts(st, r.unit, r.event, r.revision),
           NotAhead(st, ledger)
    PROVE  LET new == ApplyEvent(st, r.unit, r.event)
           IN  /\ NotAhead(new, ledger)
               /\ NotAhead(new, Commands!Recorded(ledger, r.unit, r.event, r.attempt))
<1> DEFINE new == ApplyEvent(st, r.unit, r.event)
           recorded == Commands!Recorded(ledger, r.unit, r.event, r.attempt)
<1>1. r.unit \in UnitId /\ r.attempt \in Nat
  BY ClaimType DEF Request
<1>2. ASSUME NEW i \in DOMAIN new.units
      PROVE  LET u == new.units[i]
                 busy == IF u.state = "running" THEN 1 ELSE 0
             IN  /\ Cardinality(OutcomesOf(ledger, u.id)) + busy <= u.attempt
                 /\ Cardinality(OutcomesOf(recorded, u.id)) + busy <= u.attempt
  <2>1. /\ i \in DOMAIN st.units
        /\ new.units[i].id = st.units[i].id
        /\ st.units[i].id # r.unit => new.units[i] = st.units[i]
        /\ st.units[i].id = r.unit =>
              /\ Target(st.units[i].state, r.event) # "illegal"
              /\ new.units[i].state = Target(st.units[i].state, r.event)
              /\ new.units[i].attempt = IF r.event = "start" THEN st.units[i].attempt + 1
                                                             ELSE st.units[i].attempt
    BY <1>2, ApplyEventEffect DEF Parses
  <2>2. st.units[i] \in Unit
    BY <2>1 DEF StateBlock
  <2>3. st.units[i].id \in UnitId /\ st.units[i].attempt \in Nat
    BY <2>2 DEF Unit
  <2>4. Cardinality(OutcomesOf(ledger, st.units[i].id))
            + (IF st.units[i].state = "running" THEN 1 ELSE 0) <= st.units[i].attempt
    BY <2>1 DEF NotAhead
  <2>5. LET before == Cardinality(OutcomesOf(ledger, st.units[i].id))
            after == Cardinality(OutcomesOf(recorded, st.units[i].id))
        IN  /\ before \in Nat /\ after \in Nat
            /\ after <= before + 1
            /\ st.units[i].id # r.unit \/ r.event \notin {"pass", "fail"} => after = before
    BY <1>1, <2>3, RecordedOutcomes
  <2>6. CASE st.units[i].id # r.unit
    BY <2>1, <2>3, <2>4, <2>5, <2>6
  <2>7. CASE st.units[i].id = r.unit
    <3>1. /\ r.event \in {"pass", "fail"} => /\ st.units[i].state = "running"
                                              /\ new.units[i].state # "running"
          /\ r.event # "start" => new.units[i].state # "running"
      BY <2>1, <2>7 DEF Target
    <3>. QED
      BY <2>1, <2>3, <2>4, <2>5, <2>7, <3>1
  <2>. QED
    BY <2>6, <2>7
<1>. QED
  BY <1>2 DEF NotAhead

\* A revision changes no unit.
LEMMA RevisionKeepsNotAhead ==
    ASSUME NEW st \in StateBlock, NEW ledger, NEW r \in Request, NotAhead(st, ledger)
    PROVE  NotAhead([st EXCEPT !.plan_revision = r.revision], ledger)
BY DEF NotAhead, StateBlock

----------------------------------------------------------------------------
(* One lemma per kind of step.                                             *)

LEMMA InitIInv == Init => IInv
<1> SUFFICES ASSUME Init PROVE IInv
  OBVIOUS
<1>1. Planned \in StateBlock /\ Planned.units = Plan
  <2>1. Plan \in Seq(Unit) /\ Plan # <<>>
    BY CommandsAssumption
  <2>2. Plan[1] \in Unit
    BY <2>1
  <2>3. Plan[1].id \in UnitId
    BY <2>2 DEF Unit
  <2>4. InitialState \in StateBlock
    BY DEF InitialState, StateBlock
  <2>. QED
    BY <2>1, <2>3, <2>4 DEF Planned, StateBlock
<1>2. Evidence \in Ledger /\ \A u \in UnitId : Evidence[u] = <<>>
  BY DEF Init, InitStorage, Evidence, Ledger
<1>3. Current = Planned /\ files \in [first : StateBlock, second : Ledger]
  BY <1>1, <1>2 DEF Init, InitStorage, Current, Evidence
<1>4. Idle \in Operation
  BY DEF Idle, Operation, Replacement, Steps, Outcomes
<1>5. StateTypeOK
  BY <1>3, <1>4, CommandsAssumption DEF Init, InitStorage, StateTypeOK
<1>6. LockInv
  BY ProcessAssumption DEF Init, InitStorage, LockInv, HoldsLock, Idle
<1>7. \A p \in Process : Progress(p) /\ Restored(p) /\ Decided(p) /\ Before(p) = Current
  BY DEF Init, InitStorage, Progress, Restored, Decided, Before, Idle
<1>8. NotAhead(Current, Evidence)
  <2>1. ASSUME NEW i \in DOMAIN Plan
        PROVE  Cardinality(OutcomesOf(Evidence, Plan[i].id))
                   + (IF Plan[i].state = "running" THEN 1 ELSE 0) <= Plan[i].attempt
    <3>1. Plan[i] \in Unit
      BY CommandsAssumption
    <3>2. Plan[i].id \in UnitId /\ Plan[i].attempt \in Nat
      BY <3>1 DEF Unit
    <3>3. OutcomesOf(Evidence, Plan[i].id) = {}
      BY <1>2, <3>2 DEF OutcomesOf
    <3>4. Cardinality(OutcomesOf(Evidence, Plan[i].id)) = 0
      BY <3>3, FS_EmptySet
    <3>. QED
      BY <3>2, <3>4, CommandsAssumption
  <2>. QED
    BY <1>1, <1>3, <2>1 DEF NotAhead
<1>. QED
  BY <1>5, <1>6, <1>7, <1>8 DEF IInv, EvidenceInv

\* A process that waits, or is idle, has nothing to lose when another one
\* moves; one that holds the lock sees the documents stand still.
LEMMA Frame ==
    ASSUME IInv, StateTypeOK', NEW p \in Process,
           \A q \in Process \ {p} : op'[q] = op[q] /\ request'[q] = request[q],
           files' = files \/ lock = p,
           mishaps \subseteq mishaps',
           HoldsLock(p)' => lock' = p /\ lock \in {p, Nothing},
           ~ HoldsLock(p)' => lock' = IF lock = p THEN Nothing ELSE lock,
           Progress(p)', Restored(p)', Decided(p)',
           NotAhead(Current, Evidence)', NotAhead(Before(p), Evidence)'
    PROVE  IInv'
<1>1. LockInv'
  BY ProcessAssumption DEF IInv, StateTypeOK, LockInv, HoldsLock
<1>2. ASSUME NEW q \in Process, q # p
      PROVE  Progress(q)' /\ Restored(q)' /\ Decided(q)' /\ NotAhead(Before(q), Evidence)'
  <2>1. op'[q] = op[q] /\ request'[q] = request[q]
    BY <1>2
  <2>2. CASE files' = files
    <3>1. /\ Before(q)' = Before(q) /\ Decided(q)'
          /\ NotAhead(Before(q), Evidence)'
      BY <2>1, <2>2 DEF IInv, Before, HalfSwapped, IsPair, Decided, EvidenceInv, Current, Evidence
    <3>2. Progress(q)'
      BY <2>1, <2>2 DEF IInv, Progress, Halfway, IsPair, Current
    <3>3. Restored(q)'
      BY <2>1, <2>2 DEF IInv, Restored, Current
    <3>. QED
      BY <3>1, <3>2, <3>3
  <2>3. CASE lock = p
    <3>1. op[q].step \in {"idle", "wait"}
      BY <1>2, <2>3 DEF IInv, LockInv, HoldsLock
    <3>2. Progress(q)' /\ Restored(q)' /\ Decided(q)' /\ Before(q)' = Current'
      BY <2>1, <3>1 DEF IInv, Progress, Restored, Decided, Before
    <3>. QED
      BY <3>2
  <2>. QED
    BY <2>2, <2>3
<1>. QED
  BY <1>1, <1>2 DEF IInv, EvidenceInv

LEMMA SettleKeepsRequests ==
    ASSUME IInv, Settle, NEW q \in Process, op'[q] = op[q]
    PROVE  request'[q] = request[q]
BY DEF IInv, Settle, Progress

LEMMA CallKeepsIInv ==
    ASSUME IInv, NEW p \in Process, Call(p)
    PROVE  IInv'
<1>1. /\ op[p].step = "idle"
      /\ op' = [op EXCEPT ![p] = [Idle EXCEPT !.step = "wait"]]
      /\ UNCHANGED <<lock, files, litter, mishaps>>
      /\ calls' \in 0..CallCap
  BY CommandsAssumption DEF Call, Open, IInv, StateTypeOK
<1>2. [Idle EXCEPT !.step = "wait"] \in Operation
  BY DEF Idle, Operation, Replacement, Steps, Outcomes
<1>3. \E r \in Request : request' = [request EXCEPT ![p] = r]
  <2>1. Current \in StateBlock
    BY DEF IInv, StateTypeOK, Current
  <2>2. Current.plan_revision \in Nat /\ Current.plan_revision + 1 \in Nat
    BY <2>1 DEF StateBlock
  <2>3. CASE \E i \in DOMAIN Current.units, event \in Events :
                request' = [request EXCEPT ![p] =
                   [unit |-> Current.units[i].id, event |-> event,
                    revision |-> Current.plan_revision,
                    attempt |-> Current.units[i].attempt]]
    <3>1. PICK i \in DOMAIN Current.units, event \in Events :
             request' = [request EXCEPT ![p] =
                [unit |-> Current.units[i].id, event |-> event,
                 revision |-> Current.plan_revision,
                 attempt |-> Current.units[i].attempt]]
      BY <2>3
    <3>2. Current.units[i] \in Unit
      BY <2>1 DEF StateBlock
    <3>. QED
      BY <2>2, <3>1, <3>2 DEF Unit, Request
  <2>4. CASE request' = [request EXCEPT ![p] =
             [unit |-> None, event |-> "revise", revision |-> Current.plan_revision + 1,
              attempt |-> 0]]
    BY <2>2, <2>4 DEF Request
  <2>. QED
    BY <2>3, <2>4 DEF Call
<1>4. StateTypeOK'
  BY <1>1, <1>2, <1>3 DEF IInv, StateTypeOK
<1>5. op'[p] = [Idle EXCEPT !.step = "wait"] /\ request'[p] # Nothing
  BY <1>1, <1>3, CommandsAssumption DEF IInv, StateTypeOK
<1>6. Progress(p)' /\ Restored(p)' /\ Decided(p)' /\ Before(p)' = Current' /\ ~ HoldsLock(p)'
  BY <1>5 DEF Progress, Restored, Decided, Before, HoldsLock, Idle
<1>7. ~ HoldsLock(p) /\ lock # p
  BY <1>1 DEF IInv, LockInv, HoldsLock
<1>8. NotAhead(Current, Evidence)'
  BY <1>1 DEF IInv, EvidenceInv, Current, Evidence
<1>9. \A q \in Process \ {p} : op'[q] = op[q] /\ request'[q] = request[q]
  BY <1>1, <1>3 DEF IInv, StateTypeOK
<1>. QED
  BY <1>1, <1>4, <1>6, <1>7, <1>8, <1>9, Frame

\* A command that ends: it gave up, it released the lock, or it was killed.
LEMMA EndKeepsIInv ==
    ASSUME IInv, NEW p \in Process, Settle,
           op' = [op EXCEPT ![p] = Idle], UNCHANGED files,
           lock' = IF lock = p THEN Nothing ELSE lock,
           litter' \in SUBSET Temporary, mishaps' \in SUBSET Mishap, mishaps \subseteq mishaps'
    PROVE  IInv'
<1>1. Idle \in Operation /\ Idle.step = "idle"
  BY DEF Idle, Operation, Replacement, Steps, Outcomes
<1>2. /\ op'[p] = Idle /\ request'[p] = Nothing /\ calls' = calls
      /\ op' \in [Process -> Operation]
      /\ request' \in [Process -> Request \cup {Nothing}]
      /\ \A q \in Process \ {p} : op'[q] = op[q]
  BY <1>1 DEF IInv, StateTypeOK, Settle
<1>3. StateTypeOK'
  BY <1>2 DEF IInv, StateTypeOK
<1>4. /\ Progress(p)' /\ Restored(p)' /\ Decided(p)' /\ Before(p)' = Current'
      /\ ~ HoldsLock(p)'
  BY <1>1, <1>2 DEF Progress, Restored, Decided, Before, HoldsLock, Idle
<1>5. NotAhead(Current, Evidence)'
  BY DEF IInv, EvidenceInv, Current, Evidence
<1>6. \A q \in Process \ {p} : request'[q] = request[q]
  BY <1>2, SettleKeepsRequests
<1>. QED
  BY <1>2, <1>3, <1>4, <1>5, <1>6, Frame

\* A command that has only its finally clauses and its lock left: it was
\* refused, it failed, was interrupted, or has removed its temporaries.
LEMMA CleanupKeepsIInv ==
    ASSUME IInv, NEW p \in Process, NEW o \in Operation, HoldsLock(p),
           request' = request, calls' = calls,
           op' = [op EXCEPT ![p] = o], o.step \in {"clean", "release"},
           UNCHANGED <<lock, files>>,
           litter' \in SUBSET Temporary, mishaps' \in SUBSET Mishap, mishaps \subseteq mishaps',
           Restored(p)'
    PROVE  IInv'
<1>1. /\ op'[p] = o /\ \A q \in Process \ {p} : op'[q] = op[q]
      /\ op' \in [Process -> Operation]
  BY DEF IInv, StateTypeOK
<1>2. StateTypeOK'
  BY <1>1 DEF IInv, StateTypeOK
<1>3. request'[p] # Nothing
  BY DEF HoldsLock, IInv, Progress
<1>4. /\ Progress(p)' /\ Decided(p)' /\ Before(p)' = Current' /\ HoldsLock(p)'
  BY <1>1, <1>3 DEF Progress, Decided, Before, HoldsLock
<1>5. NotAhead(Current, Evidence)' /\ lock' = p /\ lock = p
  BY DEF IInv, LockInv, EvidenceInv, Current, Evidence
<1>. QED
  BY <1>1, <1>2, <1>3, <1>4, <1>5, Frame

\* While p holds the lock, Settle forgets no request.
LEMMA SettleKeepsAll ==
    ASSUME IInv, Settle, NEW p \in Process, op' = [op EXCEPT ![p] = op'[p]],
           HoldsLock(p), op'[p].step # "idle"
    PROVE  request' = request
<1>1. \A q \in Process \ {p} : op'[q] = op[q]
  BY DEF IInv, StateTypeOK
<1>2. \A q \in Process : request'[q] = request[q]
  BY <1>1, SettleKeepsRequests DEF Settle
<1>. QED
  BY <1>2 DEF IInv, StateTypeOK, Settle

LEMMA LockStepKeepsIInv ==
    ASSUME IInv, NEW p \in Process, LockStep(p), Settle
    PROVE  IInv'
<1>1. CASE Acquire(p)
  <2> DEFINE o == [op[p] EXCEPT !.step = "locked"]
  <2>1. op[p] \in Operation /\ op[p] = [Idle EXCEPT !.step = "wait"] /\ request[p] # Nothing
    BY <1>1 DEF Acquire, IInv, StateTypeOK, Progress
  <2>2. o \in Operation /\ o = [Idle EXCEPT !.step = "locked"]
    BY <2>1 DEF Operation, Steps, Idle
  <2>3. /\ op' = [op EXCEPT ![p] = o] /\ op'[p] = o
        /\ op' \in [Process -> Operation]
        /\ \A q \in Process \ {p} : op'[q] = op[q]
    BY <1>1, <2>2 DEF Acquire, IInv, StateTypeOK
  <2>4. \A q \in Process : request'[q] = request[q]
    BY <2>1, <2>2, <2>3, SettleKeepsRequests DEF Settle, Idle
  <2>5. request' = request
    BY <2>4 DEF IInv, StateTypeOK, Settle
  <2>6. StateTypeOK'
    BY <1>1, <2>3, <2>5 DEF Acquire, Settle, IInv, StateTypeOK
  <2>7. Progress(p)' /\ Restored(p)' /\ Decided(p)' /\ Before(p)' = Current' /\ HoldsLock(p)'
    BY <2>1, <2>2, <2>3, <2>5 DEF Progress, Restored, Decided, Before, HoldsLock, Idle
  <2>8. NotAhead(Current, Evidence)'
    BY <1>1 DEF Acquire, IInv, EvidenceInv, Current, Evidence
  <2>. QED
    BY <1>1, <2>3, <2>5, <2>6, <2>7, <2>8, Frame DEF Acquire
<1>2. CASE GiveUp(p)
  <2>1. lock # p
    BY <1>2 DEF GiveUp, IInv, LockInv, HoldsLock
  <2>. QED
    BY <1>2, <2>1, EndKeepsIInv DEF GiveUp, IInv, StateTypeOK
<1>3. CASE Release(p)
  <2>1. lock = p
    BY <1>3 DEF Release, IInv, LockInv, HoldsLock
  <2>. QED
    BY <1>3, <2>1, EndKeepsIInv DEF Release, IInv, StateTypeOK
<1>. QED
  BY <1>1, <1>2, <1>3 DEF LockStep

LEMMA CrashKeepsIInv ==
    ASSUME IInv, NEW p \in Process, Crash(p), Settle
    PROVE  IInv'
<1>1. op[p] \in Operation
  BY DEF IInv, StateTypeOK
<1>2. litter' \in SUBSET Temporary /\ mishaps' \in SUBSET Mishap /\ mishaps \subseteq mishaps'
  BY <1>1 DEF Crash, Happens, IInv, StateTypeOK, Operation, Mishap
<1>. QED
  BY <1>2, EndKeepsIInv DEF Crash

\* A refusal, a failure before anything is replaced, an interrupt.
LEMMA RefuseKeepsIInv ==
    ASSUME IInv, NEW p \in Process, Acquired(p), Refuse(p), UNCHANGED <<request, calls>>
    PROVE  IInv'
<1> DEFINE o == [op[p] EXCEPT !.step = "release", !.outcome = "refused"]
<1>1. op[p] \in Operation /\ HoldsLock(p)
  BY DEF Acquired, HoldsLock, IInv, StateTypeOK
<1>2. o \in Operation /\ o.step = "release" /\ o.outcome = "refused"
  BY <1>1 DEF Operation, Steps, Outcomes
<1>3. op' = [op EXCEPT ![p] = o] /\ op'[p] = o
  BY <1>2 DEF Refuse, IInv, StateTypeOK
<1>4. Restored(p)'
  BY <1>2, <1>3 DEF Restored
<1>. QED
  BY <1>1, <1>2, <1>3, <1>4, CleanupKeepsIInv DEF Refuse, IInv, StateTypeOK

LEMMA StageFailsKeepsIInv ==
    ASSUME IInv, NEW p \in Process, StageFails(p), Settle
    PROVE  IInv'
<1> DEFINE o == [op[p] EXCEPT !.step = "clean", !.outcome = "error"]
<1>1. op[p] \in Operation /\ HoldsLock(p) /\ op[p].saved = Nothing
  BY DEF StageFails, HoldsLock, IInv, StateTypeOK, Progress
<1>2. o \in Operation /\ o.step = "clean" /\ o.saved = Nothing
  BY <1>1 DEF Operation, Steps, Outcomes
<1>3. op' = [op EXCEPT ![p] = o] /\ op'[p] = o
  BY <1>2 DEF StageFails, IInv, StateTypeOK
<1>4. Restored(p)'
  BY <1>2, <1>3 DEF Restored
<1>5. request' = request
  BY <1>1, <1>2, <1>3, SettleKeepsAll
<1>. QED
  BY <1>1, <1>2, <1>3, <1>4, <1>5, CleanupKeepsIInv DEF StageFails, Settle, IInv, StateTypeOK

LEMMA LookFailsKeepsIInv ==
    ASSUME IInv, NEW p \in Process, LookFails(p), Settle
    PROVE  IInv'
<1> DEFINE o == [op[p] EXCEPT !.staged = {}, !.step = "release", !.outcome = "error"]
<1>1. op[p] \in Operation /\ HoldsLock(p) /\ op[p].saved = Nothing
  BY DEF LookFails, HoldsLock, IInv, StateTypeOK, Progress
<1>2. o \in Operation /\ o.step = "release" /\ o.saved = Nothing
  BY <1>1 DEF Operation, Steps, Outcomes
<1>3. op' = [op EXCEPT ![p] = o] /\ op'[p] = o
  BY <1>2 DEF LookFails, IInv, StateTypeOK
<1>4. Restored(p)'
  BY <1>2, <1>3 DEF Restored
<1>5. request' = request
  BY <1>1, <1>2, <1>3, SettleKeepsAll
<1>6. litter' \in SUBSET Temporary /\ mishaps' \in SUBSET Mishap /\ mishaps \subseteq mishaps'
  BY DEF LookFails, Happens, IInv, StateTypeOK, Mishap, Temporary, File
<1>. QED
  BY <1>1, <1>2, <1>3, <1>4, <1>5, <1>6, CleanupKeepsIInv DEF LookFails, Settle

\* Ctrl-C and a failing rollback are among the mishaps Restored excepts.
LEMMA GivesUpRestoring ==
    ASSUME IInv, NEW p \in Process, RollbackFails(p) \/ Interrupt(p), Settle
    PROVE  IInv'
<1> DEFINE o == [op[p] EXCEPT !.step = "clean", !.outcome = op'[p].outcome]
<1>1. op[p] \in Operation /\ HoldsLock(p)
  BY DEF RollbackFails, Interrupt, HoldsLock, IInv, StateTypeOK
<1>2. /\ op' = [op EXCEPT ![p] = o] /\ op'[p] = o
      /\ o \in Operation /\ o.step = "clean"
  <2>1. CASE RollbackFails(p)
    BY <1>1, <2>1 DEF RollbackFails, IInv, StateTypeOK, Operation, Steps, Outcomes
  <2>2. CASE Interrupt(p)
    BY <1>1, <2>2 DEF Interrupt, IInv, StateTypeOK, Operation, Steps, Outcomes
  <2>. QED
    BY <2>1, <2>2
<1>3. mishaps' \cap {"rollback", "interrupt", "unlink"} # {}
  BY DEF RollbackFails, Interrupt, Happens
<1>4. Restored(p)'
  BY <1>3 DEF Restored
<1>5. request' = request
  BY <1>1, <1>2, SettleKeepsAll
<1>6. litter' \in SUBSET Temporary /\ mishaps' \in SUBSET Mishap /\ mishaps \subseteq mishaps'
  BY DEF RollbackFails, Interrupt, Happens, IInv, StateTypeOK, Mishap
<1>7. UNCHANGED <<lock, files>> /\ calls' = calls
  BY DEF RollbackFails, Interrupt, Settle
<1>. QED
  BY <1>1, <1>2, <1>4, <1>5, <1>6, <1>7, CleanupKeepsIInv

LEMMA CleanKeepsIInv ==
    ASSUME IInv, NEW p \in Process, Clean(p) \/ CleanFails(p), Settle
    PROVE  IInv'
<1> DEFINE o == [op[p] EXCEPT !.staged = {}, !.step = "release", !.outcome = op'[p].outcome]
<1>1. op[p] \in Operation /\ HoldsLock(p) /\ op[p].step = "clean" /\ Restored(p)
  BY DEF Clean, CleanFails, HoldsLock, IInv, StateTypeOK
<1>2. /\ op' = [op EXCEPT ![p] = o] /\ op'[p] = o
      /\ o \in Operation /\ o.step = "release" /\ o.saved = op[p].saved
  BY <1>1 DEF Clean, CleanFails, IInv, StateTypeOK, Operation, Steps, Outcomes
<1>3. Restored(p)'
  <2>1. CASE Clean(p)
    <3>1. op'[p].outcome = op[p].outcome
      BY <1>1, <2>1 DEF Clean, IInv, StateTypeOK, Operation
    <3>. QED
      BY <1>1, <1>2, <2>1, <3>1 DEF Clean, Restored, Current
  <2>2. CASE CleanFails(p)
    <3>1. "unlink" \in mishaps'
      BY <2>2 DEF CleanFails, Happens
    <3>. QED
      BY <3>1 DEF Restored
  <2>. QED
    BY <2>1, <2>2
<1>4. request' = request
  BY <1>1, <1>2, SettleKeepsAll
<1>5. litter' \in SUBSET Temporary /\ mishaps' \in SUBSET Mishap /\ mishaps \subseteq mishaps'
  <2>1. op[p].staged \in SUBSET Temporary
    BY <1>1 DEF Operation
  <2>. QED
    BY <2>1 DEF Clean, CleanFails, Happens, IInv, StateTypeOK, Mishap
<1>6. UNCHANGED <<lock, files>> /\ calls' = calls
  BY DEF Clean, CleanFails, Settle
<1>. QED
  BY <1>1, <1>2, <1>3, <1>4, <1>5, <1>6, CleanupKeepsIInv

\* A step of the command that holds the lock.
LEMMA WorkKeepsIInv ==
    ASSUME IInv, NEW p \in Process, NEW o \in Operation, HoldsLock(p),
           op' = [op EXCEPT ![p] = o], o.step \notin {"idle", "wait"},
           UNCHANGED <<request, calls, lock, litter, mishaps>>,
           files' \in [first : StateBlock, second : Ledger],
           Progress(p)', Restored(p)', Decided(p)',
           NotAhead(Current, Evidence)', NotAhead(Before(p), Evidence)'
    PROVE  IInv'
<1>1. op' \in [Process -> Operation] /\ op'[p] = o /\ \A q \in Process \ {p} : op'[q] = op[q]
  BY DEF IInv, StateTypeOK
<1>2. StateTypeOK'
  BY <1>1 DEF IInv, StateTypeOK
<1>3. HoldsLock(p)' /\ lock = p /\ lock' = p
  BY <1>1 DEF HoldsLock, IInv, LockInv
<1>. QED
  BY <1>1, <1>2, <1>3, Frame

\* claim and revise_plan: what is decided is decided on the documents that
\* are there now, and nobody else can replace them.
LEMMA DecideKeepsIInv ==
    ASSUME IInv, NEW p \in Process, Decide(p) \/ DecideRevision(p)
    PROVE  IInv'
<1> DEFINE r == request[p]
           claim == [first  |-> ApplyEvent(Current, r.unit, r.event),
                     second |-> Commands!Recorded(Evidence, r.unit, r.event, r.attempt)]
           revision == [first |-> [Current EXCEPT !.plan_revision = r.revision]]
<1>1. /\ op[p] \in Operation /\ op[p].step = "locked" /\ HoldsLock(p)
      /\ op[p] = [Idle EXCEPT !.step = "locked"]
      /\ r \in Request
      /\ Current \in StateBlock /\ Evidence \in Ledger
      /\ NotAhead(Current, Evidence)
  BY DEF Decide, DecideRevision, Acquired, HoldsLock, IInv, StateTypeOK, Progress,
         EvidenceInv, Current, Evidence
<1>2. ASSUME NEW new \in Replacement, Submit(p, new), UNCHANGED <<request, calls>>,
             Parses(Current),
             \/ r.event \in Events /\ Accepts(Current, r.unit, r.event, r.revision)
                /\ new = claim
             \/ r.event = "revise" /\ Commands!Revisable(Current, r.revision)
                /\ new = revision
      PROVE  IInv'
  <2> DEFINE o == [op[p] EXCEPT !.step = "stage", !.new = new]
  <2>1. /\ o \in Operation /\ o.step = "stage" /\ o.new = new
        /\ o.staged = {} /\ o.saved = Nothing
    BY <1>1 DEF Operation, Steps, Idle
  <2>2. op' = [op EXCEPT ![p] = o] /\ op'[p] = o
    BY <1>2, <2>1 DEF Submit, IInv, StateTypeOK
  <2>3. Current' = Current /\ Evidence' = Evidence /\ Before(p)' = Current
    BY <1>2, <2>1, <2>2 DEF Submit, Current, Evidence, Before
  <2>4. Progress(p)' /\ Restored(p)'
    BY <1>1, <1>2, <2>1, <2>2 DEF Progress, Restored, IInv
  <2>5. Decided(p)'
    BY <1>2, <2>1, <2>2, <2>3 DEF Decided
  <2>6. NotAhead(Current, Evidence)' /\ NotAhead(Before(p), Evidence)'
    BY <1>1, <2>3
  <2>. QED
    BY <1>1, <1>2, <2>1, <2>2, <2>4, <2>5, <2>6, WorkKeepsIInv DEF Submit, IInv, StateTypeOK
<1>3. CASE Decide(p)
  <2>1. CASE Refuse(p)
    BY <1>3, <2>1, RefuseKeepsIInv DEF Decide
  <2>2. CASE ~ Refuse(p)
    <3>1. /\ r.event \in Events
          /\ Parses(Current) /\ Accepts(Current, r.unit, r.event, r.revision)
          /\ Submit(p, claim) /\ UNCHANGED <<request, calls>>
      BY <1>1, <1>3, <2>2 DEF Decide, Request
    <3>2. claim \in Replacement
      BY <1>1, <3>1, ClaimType DEF Replacement
    <3>. QED
      BY <1>2, <3>1, <3>2
  <2>. QED
    BY <2>1, <2>2
<1>4. CASE DecideRevision(p)
  <2>1. CASE Refuse(p)
    BY <1>4, <2>1, RefuseKeepsIInv DEF DecideRevision
  <2>2. CASE ~ Refuse(p)
    <3>1. /\ r.event = "revise"
          /\ Parses(Current) /\ Commands!Revisable(Current, r.revision)
          /\ Submit(p, revision) /\ UNCHANGED <<request, calls>>
      BY <1>1, <1>4, <2>2 DEF DecideRevision
    <3>2. r.revision \in Nat \ {0}
      BY <1>1, <3>1 DEF Commands!Revisable, StateBlock
    <3>3. revision \in Replacement
      BY <1>1, <3>2 DEF Replacement, StateBlock
    <3>. QED
      BY <1>2, <3>1, <3>3
  <2>. QED
    BY <2>1, <2>2
<1>. QED
  BY <1>3, <1>4

LEMMA StageKeepsIInv ==
    ASSUME IInv, NEW p \in Process, Stage(p), Settle
    PROVE  IInv'
<1> DEFINE f == InOrder(DOMAIN op[p].new \ op[p].staged)
           o == op'[p]
<1>1. /\ op[p] \in Operation /\ op[p].step = "stage" /\ HoldsLock(p)
      /\ Progress(p) /\ Decided(p) /\ Before(p) = Current
  BY DEF Stage, HoldsLock, IInv, StateTypeOK, Before
<1>2. IsPair(p) \/ DOMAIN op[p].new = {"first"}
  BY <1>1 DEF Decided, IsPair, File
<1>3. /\ o \in Operation /\ op' = [op EXCEPT ![p] = o]
      /\ o.new = op[p].new /\ o.saved = op[p].saved
      /\ \/ o.step = "stage" /\ IsPair(p) /\ o.staged = {"first"}
         \/ o.step = "backup" /\ IsPair(p) /\ o.staged = File
         \/ o.step = "swap" /\ ~ IsPair(p) /\ o.staged = {"first"}
  <2>1. CASE IsPair(p) /\ op[p].staged = {}
    <3>1. DOMAIN op[p].new \ op[p].staged = File /\ f = "first" /\ File # {f}
      BY <2>1 DEF IsPair, InOrder, File
    <3>. QED
      BY <1>1, <2>1, <3>1 DEF Stage, IInv, StateTypeOK, Operation, Steps, Temporary, File
  <2>2. CASE IsPair(p) /\ op[p].staged = {"first"}
    <3>1. DOMAIN op[p].new \ op[p].staged = {"second"} /\ f = "second"
      BY <2>2 DEF IsPair, InOrder, File
    <3>. QED
      BY <1>1, <2>2, <3>1 DEF Stage, IInv, StateTypeOK, Operation, Steps, Temporary, File
  <2>3. CASE ~ IsPair(p)
    <3>1. op[p].staged = {} /\ DOMAIN op[p].new \ op[p].staged = {"first"} /\ f = "first"
      BY <1>1, <1>2, <2>3 DEF InOrder, Progress
    <3>. QED
      BY <1>1, <2>3, <3>1 DEF Stage, IInv, StateTypeOK, Operation, Steps, Temporary, File
  <2>. QED
    BY <1>1, <2>1, <2>2, <2>3 DEF Progress
<1>4. request' = request
  BY <1>1, <1>3, SettleKeepsAll
<1>5. IsPair(p)' = IsPair(p) /\ Current' = Current /\ Evidence' = Evidence
  BY <1>3 DEF Stage, IsPair, Current, Evidence
<1>6. Before(p)' = Current
  BY <1>3, <1>5 DEF Before, HalfSwapped, File
<1>7. Progress(p)' /\ Restored(p)'
  BY <1>1, <1>3, <1>4, <1>5 DEF Progress, Restored, File
<1>8. Decided(p)'
  BY <1>1, <1>3, <1>4, <1>5, <1>6 DEF Decided
<1>9. NotAhead(Current, Evidence)' /\ NotAhead(Before(p), Evidence)'
  BY <1>5, <1>6 DEF IInv, EvidenceInv
<1>. QED
  BY <1>1, <1>3, <1>4, <1>7, <1>8, <1>9, WorkKeepsIInv DEF Stage, Settle, IInv, StateTypeOK

LEMMA BackupKeepsIInv ==
    ASSUME IInv, NEW p \in Process, Backup(p), Settle
    PROVE  IInv'
<1> DEFINE o == op'[p]
<1>1. /\ op[p] \in Operation /\ op[p].step = "backup" /\ HoldsLock(p)
      /\ Progress(p) /\ Decided(p) /\ Before(p) = Current
      /\ op[p].staged = File /\ IsPair(p)
  BY DEF Backup, HoldsLock, IInv, StateTypeOK, Before, Progress
<1>2. Current \in StateBlock /\ Current # Nothing
  BY CommandsAssumption DEF IInv, StateTypeOK, Current
<1>3. /\ o \in Operation /\ op' = [op EXCEPT ![p] = o]
      /\ o.new = op[p].new /\ o.saved = Current
      /\ o.step = "swap" /\ o.staged = Temporary
  BY <1>1, <1>2 DEF Backup, IInv, StateTypeOK, Operation, Steps, Temporary, File, Current
<1>4. request' = request
  BY <1>1, <1>3, SettleKeepsAll
<1>5. IsPair(p)' /\ Current' = Current /\ Evidence' = Evidence
  BY <1>1, <1>3 DEF Backup, IsPair, Current, Evidence
<1>6. Before(p)' = Current
  BY <1>3, <1>5 DEF Before, HalfSwapped, Temporary, File
<1>7. Progress(p)' /\ Restored(p)'
  BY <1>1, <1>3, <1>4, <1>5 DEF Progress, Restored
<1>8. Decided(p)'
  BY <1>1, <1>3, <1>4, <1>5, <1>6 DEF Decided
<1>9. NotAhead(Current, Evidence)' /\ NotAhead(Before(p), Evidence)'
  BY <1>5, <1>6 DEF IInv, EvidenceInv
<1>. QED
  BY <1>1, <1>3, <1>4, <1>7, <1>8, <1>9, WorkKeepsIInv DEF Backup, Settle, IInv, StateTypeOK

\* What the invariant says of a command between the two replacements, and of
\* one that has replaced nothing yet.
LEMMA SwapCases ==
    ASSUME IInv, NEW p \in Process, op[p].step \in {"swap", "rollback"}
    PROVE  /\ op[p] \in Operation /\ HoldsLock(p) /\ request[p] \in Request
           /\ Current \in StateBlock /\ Evidence \in Ledger
           /\ NotAhead(Current, Evidence)
           /\ \/ /\ ~ IsPair(p) /\ op[p].step = "swap" /\ op[p].staged = {"first"}
                 /\ op[p].saved = Nothing /\ Before(p) = Current /\ ~ HalfSwapped(p)
                 /\ op[p].new = [first |-> [Current EXCEPT !.plan_revision = request[p].revision]]
              \/ /\ IsPair(p) /\ op[p].step = "swap" /\ op[p].staged = Temporary
                 /\ op[p].saved = Current /\ Before(p) = Current /\ ~ HalfSwapped(p)
              \/ /\ Halfway(p) /\ HalfSwapped(p)
                 /\ Before(p) = op[p].saved /\ op[p].saved \in StateBlock
                 /\ NotAhead(op[p].saved, Evidence)
           /\ Parses(Before(p))
           /\ IsPair(p) =>
                /\ request[p].event \in Events
                /\ Accepts(Before(p), request[p].unit, request[p].event, request[p].revision)
                /\ op[p].new = [first  |-> ApplyEvent(Before(p), request[p].unit, request[p].event),
                                second |-> Commands!Recorded(Evidence, request[p].unit,
                                               request[p].event, request[p].attempt)]
           /\ ~ IsPair(p) => Commands!Revisable(Current, request[p].revision)
<1>1. /\ op[p] \in Operation /\ HoldsLock(p) /\ request[p] \in Request
      /\ Current \in StateBlock /\ Evidence \in Ledger
      /\ NotAhead(Current, Evidence) /\ NotAhead(Before(p), Evidence)
      /\ Progress(p) /\ Decided(p)
  BY DEF IInv, StateTypeOK, HoldsLock, EvidenceInv, Current, Evidence, Progress
<1>2. IsPair(p) => /\ request[p].event \in Events
                   /\ Accepts(Before(p), request[p].unit, request[p].event, request[p].revision)
                   /\ op[p].new = [first  |-> ApplyEvent(Before(p), request[p].unit, request[p].event),
                                   second |-> Commands!Recorded(Evidence, request[p].unit,
                                                  request[p].event, request[p].attempt)]
  BY <1>1 DEF Decided, IsPair, File
<1>3. ~ IsPair(p) =>
         /\ Commands!Revisable(Before(p), request[p].revision)
         /\ op[p].new = [first |-> [Before(p) EXCEPT !.plan_revision = request[p].revision]]
  BY <1>1 DEF Decided, IsPair, File
<1>4. Parses(Before(p))
  BY <1>1 DEF Decided
<1>5. CASE Halfway(p)
  <2>1. HalfSwapped(p) /\ IsPair(p)
    BY <1>5 DEF Halfway, HalfSwapped, File
  <2>2. Before(p) = op[p].saved /\ op[p].saved \in StateBlock
    BY <1>1, <1>5, <2>1 DEF Before, Halfway, Operation
  <2>. QED
    BY <1>1, <1>2, <1>4, <1>5, <2>1, <2>2
<1>6. CASE op[p].step = "swap" /\ ~ IsPair(p) /\ op[p].staged = {"first"} /\ op[p].saved = Nothing
  BY <1>1, <1>3, <1>4, <1>6 DEF Before, HalfSwapped
<1>7. CASE op[p].step = "swap" /\ IsPair(p) /\ op[p].staged = Temporary /\ op[p].saved = Current
  <2>1. ~ HalfSwapped(p)
    BY <1>7 DEF HalfSwapped, Temporary, File
  <2>. QED
    BY <1>1, <1>2, <1>4, <1>7, <2>1 DEF Before
<1>. QED
  BY <1>1, <1>5, <1>6, <1>7 DEF Progress

\* _replace_at: the block is replaced first, then the evidence.
LEMMA SwapKeepsIInv ==
    ASSUME IInv, NEW p \in Process, Swap(p), Settle
    PROVE  IInv'
<1> DEFINE o == op'[p]
           r == request[p]
<1>1. /\ op[p].step = "swap" /\ op[p] \in Operation /\ HoldsLock(p) /\ r \in Request
      /\ Current \in StateBlock /\ Evidence \in Ledger /\ NotAhead(Current, Evidence)
      /\ Parses(Before(p))
      /\ files \in [first : StateBlock, second : Ledger]
  BY SwapCases DEF Swap, IInv, StateTypeOK
<1>2. UNCHANGED <<calls, lock, litter, mishaps>>
  BY DEF Swap, Settle
<1>3. CASE ~ IsPair(p)
  <2> DEFINE new == [Current EXCEPT !.plan_revision = r.revision]
  <2>1. /\ op[p].staged = {"first"} /\ op[p].new = [first |-> new]
        /\ Commands!Revisable(Current, r.revision)
    BY <1>1, <1>3, SwapCases DEF Halfway
  <2>2. op[p].staged \cap File = {"first"} /\ InOrder({"first"}) = "first"
    BY <2>1 DEF File, InOrder
  <2>3. /\ o \in Operation /\ op' = [op EXCEPT ![p] = o]
        /\ o.step = "clean" /\ o.outcome = "done"
        /\ files' = [files EXCEPT !["first"] = new]
    <3>1. /\ op' = [op EXCEPT ![p].staged = @ \ {"first"}, ![p].step = "clean",
                              ![p].outcome = "done"]
          /\ files' = [files EXCEPT !["first"] = op[p].new["first"]]
      BY <2>2 DEF Swap
    <3>. QED
      BY <1>1, <2>1, <3>1 DEF IInv, StateTypeOK, Operation, Steps, Outcomes
  <2>4. new \in StateBlock
    <3>1. r.revision \in Nat \ {0}
      BY <1>1, <2>1 DEF Commands!Revisable, StateBlock
    <3>. QED
      BY <1>1, <3>1 DEF StateBlock
  <2>5. files' \in [first : StateBlock, second : Ledger] /\ Current' = new /\ Evidence' = Evidence
    BY <1>1, <2>3, <2>4 DEF Current, Evidence
  <2>6. request' = request
    BY <1>1, <2>3, SettleKeepsAll
  <2>7. /\ Progress(p)' /\ Restored(p)' /\ Decided(p)' /\ Before(p)' = Current'
    BY <1>1, <2>3, <2>6 DEF Progress, Restored, Decided, Before, IInv
  <2>8. NotAhead(Current, Evidence)'
    BY <1>1, <2>5, RevisionKeepsNotAhead
  <2>. QED
    BY <1>1, <1>2, <2>3, <2>5, <2>6, <2>7, <2>8, WorkKeepsIInv
<1>4. CASE IsPair(p) /\ op[p].staged = Temporary
  <2> DEFINE new == ApplyEvent(Current, r.unit, r.event)
             recorded == Commands!Recorded(Evidence, r.unit, r.event, r.attempt)
  <2>1. /\ op[p].saved = Current /\ Before(p) = Current /\ r.event \in Events
        /\ Accepts(Current, r.unit, r.event, r.revision)
        /\ op[p].new = [first |-> new, second |-> recorded]
    <3>1. ~ Halfway(p)
      BY <1>4 DEF Halfway, Temporary, File
    <3>. QED
      BY <1>1, <1>4, <3>1, SwapCases
  <2>2. /\ op[p].staged \cap File = File /\ InOrder(File) = "first" /\ File # {"first"}
        /\ op[p].staged \ {"first"} = {"second", "backup"}
    BY <1>4 DEF File, Temporary, InOrder
  <2>3. /\ o \in Operation /\ op' = [op EXCEPT ![p] = o]
        /\ o.step = "swap" /\ o.staged = {"second", "backup"}
        /\ o.saved = Current /\ o.new = op[p].new
        /\ files' = [files EXCEPT !["first"] = new]
    <3>1. /\ op' = [op EXCEPT ![p].staged = @ \ {"first"}]
          /\ files' = [files EXCEPT !["first"] = op[p].new["first"]]
      BY <2>2 DEF Swap
    <3>. QED
      BY <1>1, <2>1, <2>2, <3>1 DEF IInv, StateTypeOK, Operation
  <2>4. new \in StateBlock /\ NotAhead(new, Evidence)
    BY <1>1, <2>1, ClaimType, ClaimKeepsNotAhead
  <2>5. files' \in [first : StateBlock, second : Ledger] /\ Current' = new /\ Evidence' = Evidence
    BY <1>1, <2>3, <2>4 DEF Current, Evidence
  <2>6. request' = request
    BY <1>1, <2>3, SettleKeepsAll
  <2>7. IsPair(p)' /\ HalfSwapped(p)' /\ Before(p)' = Current
    BY <1>4, <2>3 DEF IsPair, HalfSwapped, Before, File
  <2>8. Progress(p)' /\ Restored(p)'
    <3>1. Current # Nothing
      BY <1>1, CommandsAssumption
    <3>2. Halfway(p)'
      BY <2>1, <2>3, <2>5, <2>7, <3>1 DEF Halfway
    <3>3. request[p] # Nothing
      BY <1>1 DEF IInv, Progress
    <3>. QED
      BY <2>3, <2>6, <3>2, <3>3 DEF Progress, Restored
  <2>9. Decided(p)'
    BY <1>1, <2>1, <2>3, <2>5, <2>6, <2>7 DEF Decided
  <2>. QED
    BY <1>1, <1>2, <2>3, <2>4, <2>5, <2>6, <2>7, <2>8, <2>9, WorkKeepsIInv
<1>5. CASE Halfway(p)
  <2> DEFINE st == op[p].saved
             new == ApplyEvent(st, r.unit, r.event)
             recorded == Commands!Recorded(Evidence, r.unit, r.event, r.attempt)
  <2>1. /\ IsPair(p) /\ st \in StateBlock /\ NotAhead(st, Evidence) /\ Parses(st)
        /\ r.event \in Events
        /\ Accepts(st, r.unit, r.event, r.revision)
        /\ op[p].new = [first |-> new, second |-> recorded]
        /\ Current = new /\ op[p].staged = {"second", "backup"}
    <3>1. IsPair(p) /\ op[p].staged # Temporary /\ op[p].staged = {"second", "backup"}
          /\ Current = op[p].new["first"]
      BY <1>5 DEF Halfway, Temporary, File
    <3>2. /\ st \in StateBlock /\ NotAhead(st, Evidence) /\ Parses(st)
          /\ r.event \in Events /\ Accepts(st, r.unit, r.event, r.revision)
          /\ op[p].new = [first |-> new, second |-> recorded]
      <4>1. Before(p) = st /\ st \in StateBlock /\ NotAhead(st, Evidence)
        BY <1>1, <3>1, SwapCases
      <4>. QED
        BY <1>1, <3>1, <4>1, SwapCases
    <3>. QED
      BY <3>1, <3>2
  <2>2. op[p].staged \cap File = {"second"} /\ InOrder({"second"}) = "second"
    BY <2>1 DEF File, InOrder
  <2>3. /\ o \in Operation /\ op' = [op EXCEPT ![p] = o]
        /\ o.step = "clean" /\ o.outcome = "done"
        /\ files' = [files EXCEPT !["second"] = recorded]
    <3>1. /\ op' = [op EXCEPT ![p].staged = @ \ {"second"}, ![p].step = "clean",
                              ![p].outcome = "done"]
          /\ files' = [files EXCEPT !["second"] = op[p].new["second"]]
      BY <2>2 DEF Swap
    <3>. QED
      BY <1>1, <2>1, <3>1 DEF IInv, StateTypeOK, Operation, Steps, Outcomes
  <2>4. recorded \in Ledger /\ NotAhead(new, recorded)
    BY <1>1, <2>1, ClaimType, ClaimKeepsNotAhead
  <2>5. files' \in [first : StateBlock, second : Ledger] /\ Current' = new /\ Evidence' = recorded
    BY <1>1, <2>1, <2>3, <2>4 DEF Current, Evidence
  <2>6. request' = request
    BY <1>1, <2>3, SettleKeepsAll
  <2>7. Progress(p)' /\ Restored(p)' /\ Decided(p)' /\ Before(p)' = Current'
    BY <1>1, <2>3, <2>6 DEF Progress, Restored, Decided, Before, IInv
  <2>. QED
    BY <1>1, <1>2, <2>3, <2>4, <2>5, <2>6, <2>7, WorkKeepsIInv
<1>. QED
  BY <1>1, <1>3, <1>4, <1>5, SwapCases

\* A failing replacement is undone when the block had been replaced.
LEMMA SwapFailsKeepsIInv ==
    ASSUME IInv, NEW p \in Process, SwapFails(p), Settle
    PROVE  IInv'
<1> DEFINE o == op'[p]
<1>1. /\ op[p].step = "swap" /\ op[p] \in Operation /\ HoldsLock(p) /\ Progress(p) /\ Decided(p)
      /\ request[p] # Nothing
  BY SwapCases DEF SwapFails, IInv, Progress
<1>2. UNCHANGED <<calls, lock, files, litter, mishaps>>
  BY DEF SwapFails, Settle
<1>3. CASE HalfSwapped(p)
  <2>1. /\ o \in Operation /\ op' = [op EXCEPT ![p] = o]
        /\ o.step = "rollback" /\ o.new = op[p].new
        /\ o.staged = op[p].staged /\ o.saved = op[p].saved
    BY <1>1, <1>3 DEF SwapFails, IInv, StateTypeOK, Operation, Steps, Outcomes
  <2>2. Halfway(p) /\ Before(p) = op[p].saved /\ NotAhead(Before(p), Evidence)
    BY <1>1, <1>3, SwapCases
  <2>3. request' = request
    BY <1>1, <2>1, SettleKeepsAll
  <2>4. Current' = Current /\ Evidence' = Evidence
    BY <1>2 DEF Current, Evidence
  <2>5. Halfway(p)' /\ HalfSwapped(p)' /\ Before(p)' = Before(p)
    BY <1>3, <2>1, <2>2, <2>4 DEF Halfway, HalfSwapped, IsPair, Before
  <2>6. Progress(p)' /\ Restored(p)'
    BY <1>1, <2>1, <2>3, <2>5 DEF Progress, Restored
  <2>7. Decided(p)'
    BY <1>1, <2>1, <2>3, <2>4, <2>5 DEF Decided
  <2>8. NotAhead(Current, Evidence)' /\ NotAhead(Before(p), Evidence)'
    BY <2>2, <2>4, <2>5 DEF IInv, EvidenceInv
  <2>. QED
    BY <1>1, <1>2, <2>1, <2>3, <2>6, <2>7, <2>8, WorkKeepsIInv DEF IInv, StateTypeOK
<1>4. CASE ~ HalfSwapped(p)
  <2>1. /\ o \in Operation /\ op' = [op EXCEPT ![p] = o]
        /\ o.step = "clean" /\ o.saved = op[p].saved
    BY <1>1, <1>4 DEF SwapFails, IInv, StateTypeOK, Operation, Steps, Outcomes
  <2>2. op[p].saved \in {Nothing, Current}
    BY <1>1, <1>4, SwapCases
  <2>3. request' = request
    BY <1>1, <2>1, SettleKeepsAll
  <2>4. Restored(p)'
    BY <1>2, <2>1, <2>2 DEF Restored, Current
  <2>. QED
    BY <1>1, <1>2, <2>1, <2>3, <2>4, CleanupKeepsIInv DEF IInv, StateTypeOK
<1>. QED
  BY <1>3, <1>4

\* The backup brings back the block the evidence still belongs to.
LEMMA RollbackKeepsIInv ==
    ASSUME IInv, NEW p \in Process, Rollback(p), Settle
    PROVE  IInv'
<1> DEFINE o == op'[p]
<1>1. /\ op[p].step = "rollback" /\ op[p] \in Operation /\ HoldsLock(p) /\ request[p] # Nothing
      /\ Evidence \in Ledger /\ files \in [first : StateBlock, second : Ledger]
      /\ op[p].saved \in StateBlock /\ NotAhead(op[p].saved, Evidence)
  BY SwapCases DEF Rollback, IInv, StateTypeOK, Progress
<1>2. UNCHANGED <<calls, lock, litter, mishaps>>
  BY DEF Rollback, Settle
<1>3. /\ o \in Operation /\ op' = [op EXCEPT ![p] = o]
      /\ o.step = "clean" /\ o.saved = op[p].saved
      /\ files' = [files EXCEPT !["first"] = op[p].saved]
  BY <1>1 DEF Rollback, IInv, StateTypeOK, Operation, Steps
<1>4. request' = request
  BY <1>1, <1>3, SettleKeepsAll
<1>5. /\ files' \in [first : StateBlock, second : Ledger]
      /\ Current' = op[p].saved /\ Evidence' = Evidence
  BY <1>1, <1>3 DEF Current, Evidence
<1>6. Progress(p)' /\ Restored(p)' /\ Decided(p)' /\ Before(p)' = Current'
  BY <1>1, <1>3, <1>4, <1>5 DEF Progress, Restored, Decided, Before
<1>. QED
  BY <1>1, <1>2, <1>3, <1>4, <1>5, <1>6, WorkKeepsIInv

LEMMA StepKeepsIInv == IInv /\ [Next]_vars => IInv'
<1> SUFFICES ASSUME IInv, [Next]_vars PROVE IInv'
  OBVIOUS
<1>1. CASE UNCHANGED vars
  BY <1>1 DEF vars, IInv, StateTypeOK, LockInv, HoldsLock, Progress, Halfway, Restored, Decided,
              Before, HalfSwapped, IsPair, EvidenceInv, Current, Evidence
<1>2. ASSUME NEW p \in Process, Call(p) \/ ProcessStep(p) \/ (Killed(p) /\ Settle)
      PROVE  IInv'
  <2>1. CASE Call(p)
    BY <2>1, CallKeepsIInv
  <2>2. CASE Decide(p) \/ DecideRevision(p)
    BY <2>2, DecideKeepsIInv
  <2>3. CASE LockStep(p) /\ Settle
    BY <2>3, LockStepKeepsIInv
  <2>4. CASE WriteStep(p) /\ Settle
    BY <2>4, StageKeepsIInv, StageFailsKeepsIInv, LookFailsKeepsIInv, BackupKeepsIInv,
       SwapKeepsIInv, SwapFailsKeepsIInv, RollbackKeepsIInv, GivesUpRestoring, CleanKeepsIInv
       DEF WriteStep
  <2>5. CASE Killed(p) /\ Settle
    BY <2>5, CrashKeepsIInv, GivesUpRestoring DEF Killed
  <2>. QED
    BY <1>2, <2>1, <2>2, <2>3, <2>4, <2>5 DEF ProcessStep
<1>. QED
  BY <1>1, <1>2 DEF Next

LEMMA InductiveInvariant == Spec => []IInv
BY InitIInv, StepKeepsIInv, PTL DEF Spec

----------------------------------------------------------------------------
(* What the runs check, for every plan and every number of processes.      *)

\* The two documents and what every process holds keep their types, whatever
\* interleaving, failure or kill the processes meet.
THEOREM TypeCorrect == Spec => []TypeOK
<1>1. IInv => TypeOK
  <2> SUFFICES ASSUME IInv PROVE TypeOK
    OBVIOUS
  <2>1. DOMAIN files = File
    BY DEF IInv, StateTypeOK, File
  <2>2. ASSUME NEW p \in Process
        PROVE  /\ op[p].step \in Steps
               /\ op[p].outcome \in Outcomes
               /\ DOMAIN op[p].new \subseteq File
               /\ op[p].staged \subseteq Temporary
    <3>1. op[p] \in Operation
      BY DEF IInv, StateTypeOK
    <3>2. op[p].new \in Replacement
      BY <3>1 DEF Operation
    <3>3. DOMAIN op[p].new \subseteq File
      BY <3>2 DEF Replacement, File
    <3>. QED
      BY <3>1, <3>3 DEF Operation
  <2>. QED
    BY <2>1, <2>2 DEF IInv, StateTypeOK, TypeOK, StorageTypeOK, Current, Evidence, Ledger
<1>. QED
  BY <1>1, InductiveInvariant, PTL

\* EVIDENCE.md never records an outcome CURRENT.md does not know, wherever a
\* process is killed and whatever replacement fails (_atomic_write_pair).
THEOREM EvidenceStaysBehind == Spec => []EvidenceNeverAhead
<1>1. IInv => EvidenceNeverAhead
  BY DEF IInv, EvidenceInv, NotAhead, OutcomesOf, EvidenceNeverAhead
<1>. QED
  BY <1>1, InductiveInvariant, PTL

\* A command that reports an error leaves CURRENT.md as it was when it made
\* its backup: "or raise unchanged" (claim), but for the three named cases.
THEOREM RaisesAreClean == Spec => RaisesUnchanged
<1> DEFINE RaisedUnchanged == \A p \in Process :
                        /\ op[p].saved # Nothing
                        /\ op'[p].step = "release" /\ op'[p].outcome = "error"
                        /\ mishaps' \cap {"rollback", "interrupt", "unlink"} = {}
                        => files'["first"] = op[p].saved
<1>1. ASSUME IInv, IInv', [Next]_vars PROVE [RaisedUnchanged]_vars
  <2> SUFFICES ASSUME Next, NEW q \in Process, op[q].saved # Nothing,
                      op'[q].step = "release", op'[q].outcome = "error",
                      mishaps' \cap {"rollback", "interrupt", "unlink"} = {}
               PROVE  files'["first"] = op[q].saved
    BY <1>1
  <2>1. op \in [Process -> Operation]
    BY <1>1 DEF IInv, StateTypeOK
  <2>2. PICK p \in Process : Call(p) \/ ProcessStep(p) \/ Killed(p)
    BY DEF Next
  <2>3. op'[q].saved = op[q].saved
    <3>1. CASE Call(p) \/ LockStep(p) \/ Killed(p)
      BY <2>1, <3>1 DEF Call, Open, LockStep, Acquire, GiveUp, Release, Killed, Crash, Interrupt,
                        Idle, Operation
    <3>2. CASE Decide(p) \/ DecideRevision(p)
      BY <2>1, <3>2 DEF Decide, DecideRevision, Submit, Refuse, Operation
    <3>3. CASE Stage(p) \/ StageFails(p) \/ LookFails(p) \/ Backup(p)
      BY <2>1, <3>3 DEF Stage, StageFails, LookFails, Backup, Operation
    <3>4. CASE Swap(p)
      BY <2>1, <3>4 DEF Swap, Operation
    <3>5. CASE SwapFails(p) \/ Rollback(p) \/ RollbackFails(p) \/ Clean(p) \/ CleanFails(p)
      BY <2>1, <3>5 DEF SwapFails, Rollback, RollbackFails, Clean, CleanFails, Operation
    <3>. QED
      BY <2>2, <3>1, <3>2, <3>3, <3>4, <3>5 DEF ProcessStep, WriteStep
  <2>4. Restored(q)'
    BY <1>1 DEF IInv
  <2>. QED
    BY <2>3, <2>4 DEF Restored, Current
<1>. QED
  BY <1>1, InductiveInvariant, PTL DEF RaisesUnchanged, Spec

----------------------------------------------------------------------------
(* The refinement: every step is a step of WorkCommands or a stutter.      *)

\* WorkCommands reads the operators of WorkChain for itself.
LEMMA SameOperators ==
    ASSUME NEW st, NEW u, NEW event, NEW revision
    PROVE  /\ Commands!Parses(st) <=> Parses(st)
           /\ Commands!Accepts(st, u, event, revision) <=> Accepts(st, u, event, revision)
           /\ Commands!ApplyEvent(st, u, event) = ApplyEvent(st, u, event)
           /\ Commands!Events = Events
<1>1. Commands!Parses(st) <=> Parses(st)
  BY DEF Commands!Parses, Commands!UniqueIds, Commands!AtMostOneRunning,
         Commands!CurrentUnitPlanned, Commands!AttemptsPlanned, Commands!UnitIds,
         Parses, UniqueIds, AtMostOneRunning, CurrentUnitPlanned, AttemptsPlanned, UnitIds
<1>2. \A state : Commands!Target(state, event) = Target(state, event)
  BY DEF Commands!Target, Target
<1>3. Commands!Accepts(st, u, event, revision) <=> Accepts(st, u, event, revision)
  BY <1>2 DEF Commands!Accepts, Accepts
<1>4. \A unit : Commands!Moved(unit, event) = Moved(unit, event)
  BY <1>2 DEF Commands!Moved, Moved
<1>5. \A units, current : Commands!NextUnit(units, current) = NextUnit(units, current)
  BY DEF Commands!NextUnit, NextUnit, Commands!UnresolvedAt, UnresolvedAt,
         Commands!Resolved, Resolved
<1>6. Commands!ApplyEvent(st, u, event) = ApplyEvent(st, u, event)
  BY <1>4, <1>5 DEF Commands!ApplyEvent, ApplyEvent
<1>. QED
  BY <1>1, <1>3, <1>6 DEF Commands!Events, Events

\* The promise is what the process that holds the lock would go back to.
PromisedIsBefore == Promised = IF lock = Nothing THEN Current ELSE Before(lock)

LEMMA PromisedMeaning == IInv => PromisedIsBefore
<1> SUFFICES ASSUME IInv PROVE Promised = IF lock = Nothing THEN Current ELSE Before(lock)
  BY DEF PromisedIsBefore
<1>1. Writers \subseteq {lock} /\ lock \in Process \cup {Nothing}
  BY DEF Writers, IInv, StateTypeOK, LockInv, HoldsLock
<1>2. CASE Writers = {}
  BY <1>1, <1>2 DEF Promised, Before, Writers
<1>3. CASE Writers # {}
  <2>1. Writers = {lock} /\ lock \in Process /\ lock # Nothing
    BY <1>1, <1>3, ProcessAssumption DEF Writers
  <2>2. (CHOOSE p \in Writers : TRUE) = lock
    BY <2>1
  <2>. QED
    BY <2>1, <2>2 DEF Promised, Before, Writers
<1>. QED
  BY <1>2, <1>3

\* What ImplementsCommands allows a step that changes what is promised: a command,
\* or a torn claim after one of its mishaps.
Mapped == Commands!CommandStep({request[p].attempt : p \in Asking})
          \/ (mishaps' \cap {"crash", "interrupt", "rollback"} # {} /\ Commands!TornStep)

\* A process that dies, is interrupted or cannot roll back leaves the block as
\* it is: that is the promise, or the block of a claim whose evidence is missing.
LEMMA LeavingIsTorn ==
    ASSUME IInv, NEW p \in Process, lock = p, UNCHANGED files, Promised' = Current,
           op[p].step \in {"swap", "rollback"} => 
              mishaps' \cap {"crash", "interrupt", "rollback"} # {}
    PROVE  Mapped \/ UNCHANGED <<Promised, Evidence>>
<1>1. Promised = Before(p) /\ Evidence' = Evidence
  BY PromisedMeaning, ProcessAssumption DEF PromisedIsBefore, Evidence
<1>2. CASE Before(p) = Current
  BY <1>1, <1>2
<1>3. CASE Before(p) # Current
  <2> DEFINE r == request[p]
  <2>1. op[p].step \in {"swap", "rollback"} /\ Halfway(p)
    BY <1>3, SwapCases DEF Before
  <2>2. /\ r.event \in Events /\ Parses(Before(p)) /\ r \in Request /\ Before(p) \in StateBlock
        /\ Accepts(Before(p), r.unit, r.event, r.revision)
        /\ Current = ApplyEvent(Before(p), r.unit, r.event)
    <3>1. /\ IsPair(p) /\ op[p].staged = {"second", "backup"}
          /\ Current = op[p].new["first"]
      BY <2>1 DEF Halfway
    <3>2. Before(p) = op[p].saved /\ op[p].saved \in StateBlock
      BY <1>3, <2>1, <3>1, SwapCases
    <3>3. /\ r.event \in Events /\ Parses(Before(p)) /\ r \in Request
          /\ Accepts(Before(p), r.unit, r.event, r.revision)
          /\ op[p].new = [first  |-> ApplyEvent(Before(p), r.unit, r.event),
                          second |-> Commands!Recorded(Evidence, r.unit, r.event, r.attempt)]
      BY <2>1, <3>1, SwapCases
    <3>. QED
      BY <3>1, <3>2, <3>3
  <2>3. r.unit \in UnitId /\ r.revision = Before(p).plan_revision
    <3>1. PICK i \in DOMAIN Before(p).units : Before(p).units[i].id = r.unit
      BY <2>2 DEF Accepts
    <3>2. Before(p).units[i] \in Unit
      BY <2>2 DEF StateBlock
    <3>. QED
      BY <2>2, <3>1, <3>2 DEF Accepts, Unit
  <2>4. Commands!ClaimTorn(r.unit, r.event, Promised.plan_revision)
    BY <1>1, <2>2, <2>3, SameOperators DEF Commands!ClaimTorn
  <2>5. Commands!TornStep
    BY <2>2, <2>3, <2>4, SameOperators DEF Commands!TornStep
  <2>. QED
    BY <2>1, <2>5 DEF Mapped
<1>. QED
  BY <1>2, <1>3

\* The second replacement is the claim, the only one of a revision the revision.
LEMMA SwapIsCommand ==
    ASSUME IInv, NEW p \in Process, Swap(p), UNCHANGED request,
           Promised' = Before(p)', lock = p
    PROVE  Mapped \/ UNCHANGED <<Promised, Evidence>>
<1> DEFINE r == request[p]
<1>1. /\ Promised = Before(p) /\ op[p].step = "swap" /\ op[p] \in Operation
      /\ op \in [Process -> Operation]
      /\ files \in [first : StateBlock, second : Ledger]
      /\ r \in Request /\ r # Nothing /\ Parses(Before(p)) /\ Current \in StateBlock
  BY PromisedMeaning, ProcessAssumption, CommandsAssumption, SwapCases
     DEF PromisedIsBefore, Swap, IInv, StateTypeOK
<1>2. CASE ~ IsPair(p)
  <2> DEFINE new == [Current EXCEPT !.plan_revision = r.revision]
  <2>1. /\ op[p].staged = {"first"} /\ op[p].new = [first |-> new] /\ Before(p) = Current
        /\ Commands!Revisable(Current, r.revision)
    BY <1>1, <1>2, SwapCases DEF Halfway
  <2>2. op[p].staged \cap File = {"first"} /\ InOrder({"first"}) = "first"
    BY <2>1 DEF File, InOrder
  <2>3. /\ op' = [op EXCEPT ![p].staged = @ \ {"first"}, ![p].step = "clean",
                            ![p].outcome = "done"]
        /\ files' = [files EXCEPT !["first"] = op[p].new["first"]]
    BY <2>2 DEF Swap
  <2>4. op'[p].step = "clean"
    BY <1>1, <2>3 DEF Operation
  <2>5. Promised' = new /\ Evidence' = Evidence
    BY <1>1, <2>1, <2>3, <2>4 DEF Before, Current, Evidence
  <2>6. r.revision = Promised.plan_revision + 1
    BY <1>1, <2>1 DEF Commands!Revisable
  <2>7. Commands!Revise(Promised.plan_revision + 1)
    BY <1>1, <2>1, <2>5, <2>6, SameOperators DEF Commands!Revise
  <2>. QED
    BY <2>7 DEF Mapped, Commands!CommandStep
<1>3. CASE IsPair(p) /\ ~ Halfway(p)
  <2>1. op[p].staged = Temporary /\ Before(p) = Current
    BY <1>1, <1>3, SwapCases
  <2>2. /\ op[p].staged \cap File = File /\ InOrder(File) = "first" /\ File # {"first"}
        /\ op[p].staged \ {"first"} = {"second", "backup"}
    BY <2>1 DEF File, Temporary, InOrder
  <2>3. /\ op' = [op EXCEPT ![p].staged = @ \ {"first"}]
        /\ files' = [files EXCEPT !["first"] = op[p].new["first"]]
    BY <2>2 DEF Swap
  <2>4. /\ op'[p].step = "swap" /\ op'[p].new = op[p].new
        /\ op'[p].staged = {"second", "backup"} /\ op'[p].saved = op[p].saved
    BY <1>1, <2>2, <2>3 DEF Operation
  <2>5. Before(p)' = op[p].saved
    BY <1>3, <2>4 DEF Before, HalfSwapped, IsPair, File
  <2>6. op[p].saved = Current
    BY <1>1, <1>3, SwapCases
  <2>. QED
    BY <1>1, <2>1, <2>3, <2>5, <2>6 DEF Evidence
<1>4. CASE Halfway(p)
  <2> DEFINE st == op[p].saved
             new == ApplyEvent(st, r.unit, r.event)
             recorded == Commands!Recorded(Evidence, r.unit, r.event, r.attempt)
  <2>1. IsPair(p) /\ op[p].staged # Temporary /\ op[p].staged = {"second", "backup"}
        /\ Current = op[p].new["first"] /\ st # Nothing
    BY <1>4 DEF Halfway, Temporary, File
  <2>2. Before(p) = st /\ st \in StateBlock
    BY <1>1, <2>1, SwapCases
  <2>3. /\ Parses(st) /\ r.event \in Events /\ Accepts(st, r.unit, r.event, r.revision)
        /\ op[p].new = [first |-> new, second |-> recorded]
    BY <1>1, <2>1, <2>2, SwapCases
  <2>4. op[p].staged \cap File = {"second"} /\ InOrder({"second"}) = "second"
    BY <2>1 DEF File, InOrder
  <2>5. /\ op' = [op EXCEPT ![p].staged = @ \ {"second"}, ![p].step = "clean",
                            ![p].outcome = "done"]
        /\ files' = [files EXCEPT !["second"] = op[p].new["second"]]
    BY <2>4 DEF Swap
  <2>6. op'[p].step = "clean"
    BY <1>1, <2>5 DEF Operation
  <2>7. Promised' = new /\ Evidence' = recorded
    BY <1>1, <2>1, <2>3, <2>5, <2>6 DEF Before, Current, Evidence
  <2>8. r.unit \in UnitId /\ r.revision = Promised.plan_revision
    <3>1. PICK i \in DOMAIN st.units : st.units[i].id = r.unit
      BY <2>3 DEF Accepts
    <3>2. st.units[i] \in Unit
      BY <2>2 DEF StateBlock
    <3>. QED
      BY <1>1, <2>2, <2>3, <3>1, <3>2 DEF Accepts, Unit
  <2>9. Commands!Claim(r.unit, r.event, Promised.plan_revision, r.attempt)
    BY <1>1, <2>2, <2>3, <2>7, <2>8, SameOperators DEF Commands!Claim
  <2>10. r.attempt \in {request[q].attempt : q \in Asking}
    BY <1>1 DEF Asking
  <2>. QED
    BY <2>3, <2>8, <2>9, <2>10, SameOperators DEF Mapped, Commands!CommandStep
<1>. QED
  BY <1>2, <1>3, <1>4

\* One command's step, as a step of the promise.
LEMMA StepIsCommand ==
    ASSUME IInv, IInv', Next
    PROVE  Mapped \/ UNCHANGED <<Promised, Evidence>>
<1>1. PICK p \in Process : Call(p) \/ ProcessStep(p) \/ (Killed(p) /\ Settle)
  BY DEF Next
<1>2. /\ op \in [Process -> Operation] /\ lock \in Process \cup {Nothing}
      /\ lock' \in Process \cup {Nothing}
  BY DEF IInv, StateTypeOK
<1>3. /\ Promised = IF lock = Nothing THEN Current ELSE Before(lock)
      /\ Promised' = IF lock' = Nothing THEN Current' ELSE Before(lock)'
  <2>1. PromisedIsBefore /\ PromisedIsBefore'
    BY PromisedMeaning, PTL
  <2>. QED
    BY <2>1 DEF PromisedIsBefore
<1>4. CASE Call(p) \/ GiveUp(p) \/ (Crash(p) /\ lock # p)
  <2>1. UNCHANGED <<lock, files>> /\ \A q \in Process \ {p} : op'[q] = op[q]
    BY <1>2, <1>4 DEF Call, Open, GiveUp, Crash
  <2>2. lock # p
    BY <1>4 DEF Call, Open, GiveUp, IInv, LockInv, HoldsLock
  <2>. QED
    BY <1>2, <1>3, <2>1, <2>2 DEF Before, HalfSwapped, IsPair, Current, Evidence
<1>5. CASE Acquire(p)
  <2>1. op'[p].step = "locked" /\ lock = Nothing /\ lock' = p /\ files' = files
    BY <1>2, <1>5 DEF Acquire, Operation
  <2>. QED
    BY <1>3, <2>1, ProcessAssumption DEF Before, Current, Evidence
<1>6. CASE Release(p)
  <2>1. op[p].step = "release" /\ lock = p /\ lock' = Nothing /\ files' = files
    BY <1>6 DEF Release, IInv, LockInv, HoldsLock
  <2>. QED
    BY <1>3, <2>1, ProcessAssumption DEF Before, Current, Evidence
<1>7. CASE Crash(p) /\ lock = p
  <2>1. lock' = Nothing /\ files' = files /\ "crash" \in mishaps'
    BY <1>7 DEF Crash, Happens
  <2>2. Promised' = Current
    BY <1>3, <2>1 DEF Current
  <2>. QED
    BY <1>7, <2>1, <2>2, LeavingIsTorn
<1>8. CASE /\ lock = p
           /\ \/ Interrupt(p) \/ RollbackFails(p) \/ StageFails(p) \/ LookFails(p)
              \/ Clean(p) \/ CleanFails(p) \/ (Acquired(p) /\ Refuse(p))
  <2>1. /\ lock' = p /\ files' = files /\ op'[p].step \in {"clean", "release"}
    BY <1>2, <1>8 DEF Interrupt, RollbackFails, StageFails, LookFails, Clean, CleanFails, Refuse,
                      Operation
  <2>2. Promised' = Current
    BY <1>3, <2>1, ProcessAssumption DEF Before, Current
  <2>3. op[p].step \in {"swap", "rollback"} =>
           mishaps' \cap {"crash", "interrupt", "rollback"} # {}
    BY <1>8 DEF Interrupt, RollbackFails, StageFails, LookFails, Clean, CleanFails, Acquired,
                Happens
  <2>. QED
    BY <1>8, <2>1, <2>2, <2>3, LeavingIsTorn
<1>9. CASE lock = p /\ (Stage(p) \/ Backup(p) \/ \E new : Acquired(p) /\ Submit(p, new))
  <2>1. lock' = p /\ files' = files /\ op[p].step \in {"locked", "stage", "backup"}
    BY <1>9 DEF Stage, Backup, Submit, Acquired
  <2>2. Before(p) = Current
    BY <2>1 DEF Before
  <2>3. Before(p)' = Current'
    <3>1. HoldsLock(p)' /\ Progress(p)'
      BY <2>1 DEF IInv, LockInv
    <3>2. CASE op'[p].step \in {"swap", "rollback"}
      <4>1. "first" \in op'[p].staged \/ ~ IsPair(p)'
        <5>1. CASE Stage(p)
          BY <1>2, <3>2, <5>1 DEF Stage, Operation, IsPair
        <5>2. CASE Backup(p)
          <6>1. op[p].staged = File
            BY <5>2 DEF Backup, IInv, Progress
          <6>. QED
            BY <1>2, <5>2, <6>1 DEF Backup, Operation, File
        <5>3. CASE \E new : Acquired(p) /\ Submit(p, new)
          BY <1>2, <3>2, <5>3 DEF Submit, Operation
        <5>. QED
          BY <1>9, <5>1, <5>2, <5>3
      <4>. QED
        BY <4>1 DEF Before, HalfSwapped, File
    <3>3. CASE op'[p].step \notin {"swap", "rollback"}
      BY <3>3 DEF Before
    <3>. QED
      BY <3>2, <3>3
  <2>. QED
    BY <1>3, <1>9, <2>1, <2>2, <2>3, ProcessAssumption DEF Current, Evidence
<1>10. CASE lock = p /\ Swap(p) /\ Settle
  <2>1. lock' = p /\ op[p].step = "swap" /\ op'[p].step \in {"swap", "clean"}
        /\ op' = [op EXCEPT ![p] = op'[p]]
    BY <1>2, <1>10 DEF Swap, Operation
  <2>2. request' = request
    BY <1>10, <2>1, SettleKeepsAll DEF HoldsLock
  <2>3. Promised' = Before(p)'
    BY <1>3, <2>1, ProcessAssumption
  <2>. QED
    BY <1>10, <2>2, <2>3, SwapIsCommand
<1>11. CASE lock = p /\ SwapFails(p)
  <2>1. /\ lock' = p /\ files' = files /\ op[p].step = "swap"
        /\ op'[p].step = IF HalfSwapped(p) THEN "rollback" ELSE "clean"
        /\ op'[p].staged = op[p].staged /\ op'[p].saved = op[p].saved /\ op'[p].new = op[p].new
    BY <1>2, <1>11 DEF SwapFails, Operation
  <2>2. Before(p)' = Before(p)
    BY <2>1 DEF Before, HalfSwapped, IsPair, Current
  <2>. QED
    BY <1>3, <1>11, <2>1, <2>2, ProcessAssumption DEF Evidence
<1>12. CASE lock = p /\ Rollback(p)
  <2>1. /\ lock' = p /\ files' = [files EXCEPT !["first"] = op[p].saved]
        /\ op'[p].step = "clean" /\ op[p].step = "rollback"
    BY <1>2, <1>12 DEF Rollback, Operation
  <2>2. Before(p) = op[p].saved
    BY <2>1, SwapCases
  <2>3. Current' = op[p].saved /\ Evidence' = Evidence /\ Before(p)' = Current'
    BY <2>1 DEF Current, Evidence, Before, IInv, StateTypeOK
  <2>. QED
    BY <1>3, <1>12, <2>1, <2>2, <2>3, ProcessAssumption
<1>13. CASE Killed(p)
  <2>1. Interrupt(p) => lock = p
    BY DEF Interrupt, IInv, LockInv, HoldsLock
  <2>. QED
    BY <1>4, <1>7, <1>8, <1>13, <2>1 DEF Killed
<1>14. CASE WriteStep(p) /\ Settle
  <2>1. lock = p
    BY <1>14 DEF WriteStep, Stage, StageFails, LookFails, Backup, Swap, SwapFails, Rollback,
                 RollbackFails, Clean, CleanFails, IInv, LockInv, HoldsLock
  <2>. QED
    BY <1>8, <1>9, <1>10, <1>11, <1>12, <1>14, <2>1 DEF WriteStep
<1>15. CASE Decide(p) \/ DecideRevision(p)
  <2>1. lock = p /\ Acquired(p)
    BY <1>15 DEF Decide, DecideRevision, Acquired, IInv, LockInv, HoldsLock
  <2>2. Refuse(p) \/ \E new : Submit(p, new)
    BY <1>15 DEF Decide, DecideRevision
  <2>. QED
    BY <1>8, <1>9, <2>1, <2>2
<1>. QED
  BY <1>1, <1>4, <1>5, <1>6, <1>13, <1>14, <1>15 DEF ProcessStep, LockStep

\* The lock, the two replacements, the rollback and the retries of a real
\* command amount to the single steps WorkCommands promises its callers; only
\* a kill, Ctrl-C or a failing rollback tears a claim in two.
THEOREM CommandsImplemented == Spec => ImplementsCommands
<1>1. ASSUME IInv, IInv', [Next]_vars PROVE [Mapped]_<<Promised, Evidence>>
  <2>1. CASE Next
    BY <1>1, <2>1, StepIsCommand
  <2>2. CASE UNCHANGED vars
    BY <2>2 DEF vars, Promised, Writers, HalfSwapped, IsPair, Current, Evidence
  <2>. QED
    BY <1>1, <2>1, <2>2
<1>. QED
  BY <1>1, InductiveInvariant, PTL DEF ImplementsCommands, Mapped, Spec

=============================================================================
