---------------------------- MODULE CheckpointStore ----------------------------
(***************************************************************************)
(* PROGRESS.md and its archive (CheckpointStore in                         *)
(* agent_checkpoint/storage.py): every write prepends an entry and moves   *)
(* the oldest ordinary entries that no longer fit the live budget to the   *)
(* archive, which is replaced before PROGRESS.md is. A host that is about  *)
(* to compact a conversation runs a hook (hooks/pre_compact.py), which     *)
(* writes a placeholder when it finds no PROGRESS.md.                      *)
(*                                                                         *)
(* An entry is its age, its pin and its length; the secret, diff and       *)
(* section checks refuse a body before the lock and are left out.          *)
(***************************************************************************)
EXTENDS PairWrite, SequencesExt, Places

CONSTANTS
    MaxLiveChars,   \* the live budget, in the unit of EntrySize
    EntrySize,      \* the lengths an entry may have
    CallCap         \* bound: commands called in one behaviour

\* The mark of a missing document is no document.
ASSUME BudgetAssumption ==
    /\ MaxLiveChars \in Nat
    /\ EntrySize \subseteq Nat \ {0}
    /\ CallCap \in Nat
    /\ Nothing \notin Seq([n : Nat, pinned : BOOLEAN, size : Nat])

VARIABLES
    request,    \* per process, the command it runs
    clock,      \* entries created so far: their ages
    calls,      \* commands called so far
    reported,   \* entries whose write returned to its caller
    hook        \* processes that are a compaction hook and found no checkpoint

vars == <<lock, files, op, litter, mishaps, request, clock, calls, reported, hook>>

Entry == [n : Nat, pinned : BOOLEAN, size : EntrySize]
Rotation == [n |-> 0, pinned |-> FALSE, size |-> 0]

\* A missing document is read as one without entries.
Document(f) == IF files[f] = Nothing THEN <<>> ELSE files[f]
Archive == Document("first")
Progress == Document("second")

Init ==
    /\ InitStorage(Nothing, Nothing)
    /\ request = [p \in Process |-> Nothing]
    /\ clock = 0
    /\ calls = 0
    /\ reported = {}
    /\ hook = {}

----------------------------------------------------------------------------
(* _partition_for_live_budget.                                             *)

Fits(entries) == FoldSeq(LAMBDA e, sum : e.size + sum, 0, entries) <= MaxLiveChars

Ordinary(entries) == {i \in DOMAIN entries : ~entries[i].pinned}

\* What the search tries to retain when it has come to an ordinary entry: the
\* pinned ones and everything newer.
Candidate(entries, place) == {i \in DOMAIN entries : entries[i].pinned \/ i <= place}

\* The first ordinary entry that does not fit goes, and all that are older.
Evicted(entries) ==
    {i \in Ordinary(entries) :
        \E j \in Ordinary(entries) : j <= i /\ ~Fits(At(entries, Candidate(entries, j)))}

\* Pins are only labels: the newest entries stay, whatever they are.
PartitionIgnoresPins(entries) ==
    LET k == CHOOSE k \in 0..Len(entries) :
                 /\ Fits(SubSeq(entries, 1, k))
                 /\ k < Len(entries) => ~Fits(SubSeq(entries, 1, k + 1))
    IN  [retained |-> SubSeq(entries, 1, k), evicted |-> SubSeq(entries, k + 1, Len(entries))]

\* The newest ordinary entry always stays.
PartitionKeepsNewest(entries) ==
    LET newest  == {i \in Ordinary(entries) : \A j \in Ordinary(entries) : i <= j}
        evicted == Evicted(entries) \ newest
    IN  IF Fits(entries)
        THEN [retained |-> entries, evicted |-> <<>>]
        ELSE [retained |-> At(entries, DOMAIN entries \ evicted), evicted |-> At(entries, evicted)]

\* An entry that does not fit is skipped and smaller, older ones are tried.
PartitionSkipsLarge(entries) ==
    LET Try(kept, i) == IF Fits(At(entries, kept \cup {i})) THEN kept \cup {i} ELSE kept
        retained == FoldLeft(Try, DOMAIN entries \ Ordinary(entries), [i \in DOMAIN entries |-> i])
    IN  [retained |-> At(entries, retained), evicted |-> At(entries, DOMAIN entries \ retained)]

Partition(entries) ==
    IF Fits(entries)
    THEN [retained |-> entries, evicted |-> <<>>]
    ELSE [retained |-> At(entries, DOMAIN entries \ Evicted(entries)),
          evicted  |-> At(entries, Evicted(entries))]

----------------------------------------------------------------------------
(* The commands.                                                           *)

\* `write` with a body of some length, or `rotate`.
Call(p) ==
    /\ calls < CallCap /\ calls' = calls + 1
    /\ p \notin hook
    /\ Open(p)
    /\ \/ \E pinned \in BOOLEAN, size \in EntrySize :
             request' = [request EXCEPT ![p] = [n |-> 0, pinned |-> pinned, size |-> size]]
       \/ request' = [request EXCEPT ![p] = Rotation]
    /\ UNCHANGED <<clock, reported, hook>>

\* build_status: the file, with or without entries.
CheckpointExists == files["second"] # Nothing

\* The hook asks `status`, without the lock; if there is a checkpoint it ends.
PreCompact(p) ==
    /\ op[p].step = "idle" /\ p \notin hook
    /\ calls < CallCap /\ calls' = calls + 1
    /\ ~CheckpointExists
    /\ hook' = hook \cup {p}
    /\ UNCHANGED <<storage, request, clock, reported>>

\* _write_initial_checkpoint: `write`, a command of its own.
Bootstrap(p) ==
    /\ p \in hook
    /\ Open(p)
    /\ \E size \in EntrySize :
          request' = [request EXCEPT ![p] = [n |-> 0, pinned |-> FALSE, size |-> size]]
    /\ UNCHANGED <<clock, calls, reported, hook>>

\* _persist_rotated: the pair only when something is evicted.
Persist(p, entries) ==
    LET parts == Partition(entries)
    IN  IF parts.evicted = <<>>
        THEN Submit(p, [second |-> parts.retained])
        ELSE Submit(p, [first |-> Archive \o parts.evicted, second |-> parts.retained])

\* The entry takes its time under the lock.
WriteEntry(p) ==
    LET entry == [request[p] EXCEPT !.n = clock + 1]
    IN  /\ Acquired(p)
        /\ request[p] # Rotation
        /\ clock' = clock + 1
        /\ request' = [request EXCEPT ![p] = entry]
        /\ Persist(p, <<entry>> \o Progress)
        /\ UNCHANGED <<calls, reported, hook>>

Rotate(p) ==
    /\ Acquired(p)
    /\ request[p] = Rotation
    /\ Persist(p, Progress)
    /\ UNCHANGED <<request, clock, calls, reported, hook>>

\* The caller sees the write succeed once the lock is released.
Return(p) ==
    reported' = IF op[p].step = "release" /\ op[p].outcome = "done" /\ request[p] # Rotation
                THEN reported \cup {request[p]} ELSE reported

Settle(p) ==
    /\ UNCHANGED <<clock, calls>>
    /\ request' = IF op'[p].step = "idle" THEN [request EXCEPT ![p] = Nothing] ELSE request
    /\ hook' = IF op'[p].step = "idle" THEN hook \ {p} ELSE hook

ProcessStep(p) ==
    \/ WriteEntry(p)
    \/ Rotate(p)
    \/ (LockStep(p) \/ WriteStep(p)) /\ Settle(p) /\ Return(p)

Next ==
    \E p \in Process :
        \/ Call(p) \/ PreCompact(p) \/ Bootstrap(p)
        \/ ProcessStep(p)
        \/ Killed(p) /\ Settle(p) /\ UNCHANGED reported

Spec == Init /\ [][Next]_vars

----------------------------------------------------------------------------
(* Properties.                                                             *)

Live == ToSet(Progress)
Archived == ToSet(Archive)

\* Only ordinary entries are ever archived; both documents hold entries.
TypeOK ==
    /\ StorageTypeOK
    /\ Progress \in Seq(Entry)
    /\ Archive \in Seq([n : Nat, pinned : {FALSE}, size : EntrySize])
    /\ reported \subseteq Entry
    /\ hook \subseteq Process

\* A write that returned is never lost: wherever a process dies or a file
\* operation fails, the entry is in PROGRESS.md or in the archive (the archive
\* is replaced first).
NothingLost == reported \subseteq Live \cup Archived

\* A pinned entry never leaves PROGRESS.md, however full it is.
PinnedStayLive ==
    [][\A e \in Live : e.pinned => e \in ToSet(Document("second")')]_vars

\* PROGRESS.md is within its budget, unless the pinned entries alone exceed it.
LiveWithinBudget == Fits(Progress) \/ Ordinary(Progress) = {}

Undisturbed == mishaps \cap {"crash", "interrupt", "rollback"} = {} /\ ~MidCommit

\* Eviction is by age: what is live is newer than what was archived, so a
\* reader who takes PROGRESS.md for the recent history misses nothing recent,
\* and failed replacements that are rolled back leave no second copy for the
\* next rotation to archive again.
RecencyKept ==
    Undisturbed =>
        /\ IsInjective(Archive)
        /\ \A i \in Ordinary(Progress), j \in DOMAIN Archive : Progress[i].n > Archive[j].n

==============================================================================
