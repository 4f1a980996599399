---------------------------- MODULE MigrationProofs ----------------------------
(***************************************************************************)
(* Proofs about Migration for every number of processes, commands and      *)
(* directories.  Until a migration has succeeded, or died with its backup  *)
(* made, the first directory is the package and no other is ever swapped   *)
(* in; from then on a legacy backup stays that nobody will remove.  The    *)
(* lock orders what happens in one directory, as long as nobody is granted *)
(* the lock of a directory that was swapped away.                          *)
(***************************************************************************)
EXTENDS Migration, FiniteSetTheorems, TLAPS

\* Which steps belong to which command.
Paths == \A p \in Process :
    /\ op[p].command = "none" <=> op[p].step = "idle"
    /\ op[p].command = "write" =>
          op[p].step \in {"open", "wait", "locked", "land", "release"} /\ op[p].entry # 0
    /\ op[p].command = "migrate" => op[p].step # "land"
    /\ op[p].command = "rollback" =>
          /\ op[p].step \notin {"open", "wait", "locked", "backup", "land"}
          /\ op[p].tree = Nothing
    /\ op[p].step \in {"open", "wait", "locked", "backup", "stage"} => op[p].staged = Nothing
    /\ op[p].step \in {"open", "wait", "locked", "backup"} => op[p].backup = Nothing

Locked(p) == op[p].command \in {"migrate", "write"} /\ op[p].step \notin {"open", "wait"}

\* A process holds the lock of its own directory only.
Locks ==
    /\ \A p \in Process : op[p].step = "wait" \/ Locked(p) => op[p].tree \in Made
    /\ \A p \in Process : Locked(p) => holder[op[p].tree] = p
    /\ \A p \in Process, t \in Made : holder[t] = p => Locked(p) /\ op[p].tree = t

Swapping(p) == op[p].step \in {"swap", "putback"}

\* The hidden directories a command will still move or remove.
Copy(p) == IF op[p].step \in {"displace", "swap", "putback", "undo"} THEN {op[p].staged} \ {Nothing} ELSE {}
Original(p) == IF op[p].step \in {"swap", "putback", "sweep"} THEN {op[p].displaced} ELSE {}
Pending(p) == Copy(p) \cup Original(p)

Apart ==
    /\ package \notin backups \cup hidden /\ backups \cap hidden = {}
    /\ \A p \in Process :
          /\ op[p].step \in {"displace", "swap", "putback"} => op[p].staged # Nothing
          /\ op[p].step \in {"swap", "putback", "sweep"} => op[p].displaced # Nothing
          /\ Pending(p) \subseteq hidden
          /\ Copy(p) \cap Original(p) = {}
          /\ \A q \in Process \ {p} : Pending(p) \cap Pending(q) = {}

\* A migration that may still remove its backup.
Undoable(p) ==
    /\ op[p].command = "migrate"
    /\ op[p].step \in {"stage", "displace", "swap", "putback", "sweep", "undo"}

\* Two migrations have two backups, and no rollback reads them.
OwnBackup == \A p \in Process :
    /\ Undoable(p) =>
          /\ op[p].step # "undo" => op[p].backup # Nothing
          /\ op[p].backup # Nothing =>
                /\ op[p].backup \in backups
                /\ \A q \in Process \ {p} : Undoable(q) => op[q].backup # op[p].backup
    /\ op[p].command = "rollback" /\ op[p].step = "stage" =>
          /\ op[p].backup \in backups /\ content[op[p].backup].layout # "none"
          /\ \A q \in Process : Undoable(q) => op[q].backup # op[p].backup

\* A legacy backup that nobody will remove.
Protected ==
    \E b \in backups :
       /\ content[b].layout = "legacy"
       /\ \A p \in Process : Undoable(p) => op[p].backup # b

\* A backup that is not whole, or that its migration may still remove.
Owned(b) == content[b].layout = "none" \/ \E p \in Process : Undoable(p) /\ op[p].backup = b

Migrating(p) == Undoable(p) \/ (op[p].command = "migrate" /\ op[p].step = "backup")

\* Before there is such a backup, the first directory is the only package ...
FirstOnly ==
    /\ 1 \in Made /\ content[1].layout = "legacy"
    /\ package = 1 \/ 1 \in hidden
    /\ package \notin {1, Nothing} => content[package].layout = "none"
    /\ \A p \in Process :
          /\ op[p].command # "rollback" /\ op[p].step # "sweep"
          /\ Migrating(p) => op[p].tree = 1
          /\ op[p].step \in {"backup", "stage", "displace"} => package = 1
          /\ Swapping(p) => op[p].displaced = 1
          /\ op[p].step = "displace" \/ Swapping(p) => content[op[p].staged].layout = "final"
          /\ op[p].staged # 1
          /\ Undoable(p) /\ op[p].backup # Nothing => content[op[p].backup].layout = "legacy"
          /\ op[p].tree \notin {1, Nothing} => package \notin {1, Nothing}
    /\ \A b \in backups : Owned(b)

\* ... or the package has been swapped and stays, whatever becomes of its backup.
Done ==
    /\ package # Nothing /\ content[package].layout = "final"
    /\ \A p \in Process :
          /\ op[p].command # "rollback"
          /\ op[p].step \notin {"backup", "stage", "displace", "swap", "putback"}
          /\ Undoable(p) /\ op[p].backup # Nothing => content[op[p].backup].layout = "legacy"
    /\ \A b \in backups : Owned(b)
    /\ "interrupt" \notin mishaps => \E p \in Process : op[p].command = "migrate" /\ op[p].step = "sweep"

\* Whoever works under a lock works on the package, unless the lock is stale.
UnderLock == "stale lock" \notin mishaps =>
    /\ \A p \in Process :
          /\ Locked(p) /\ op[p].step \in {"locked", "backup", "stage", "displace", "land"} =>
                op[p].tree = package
          /\ op[p].command = "migrate" /\ op[p].step \in {"backup", "stage", "displace"} =>
                content[package].layout = "legacy"
    /\ \A b \in backups : content[b].layout # "final"

\* No kill, no interrupt and no stranger between the renames: then what is or
\* will be the package is whole.
Calm == mishaps \cap {"crash", "interrupt", "intrusion"} = {}

AllAccounted == Calm =>
    /\ package # Nothing => content[package].layout # "none"
    /\ \A p \in Process :
          /\ op[p].step = "displace" \/ Swapping(p) => content[op[p].staged].layout # "none"
          /\ Swapping(p) => content[op[p].displaced].layout # "none"
          /\ Swapping(p) => package = Nothing /\ \A q \in Process : Swapping(q) => q = p
    /\ package = Nothing => \E p \in Process : Swapping(p)
    /\ "leftover" \notin mishaps => \A t \in hidden : \E p \in Process : t \in Pending(p)

\* What was reported is in whatever is, or will be, the package.
EntriesKept == mishaps \subseteq {"leftover"} =>
    /\ package # Nothing => said \subseteq content[package].entries
    /\ \A p \in Process :
          /\ Swapping(p) => said \subseteq content[op[p].displaced].entries
          /\ op[p].command = "migrate" /\ op[p].step \in {"displace", "swap"} =>
                said \subseteq content[op[p].staged].entries
          /\ op[p].step = "land" => said \subseteq op[p].seen

IInv ==
    /\ TypeOK
    /\ Paths
    /\ Locks
    /\ Apart
    /\ OwnBackup
    /\ Protected \/ FirstOnly \/ Done
    /\ UnderLock
    /\ AllAccounted
    /\ EntriesKept

HoldersShow ==
    \A p \in Process : op[p].command # "rollback" =>
       (op[p].step \notin {"idle", "open", "wait"} <=> \E t \in Made : holder[t] = p)

HoldersFollow == op \in [Process -> Operation] /\ Paths /\ Locks => HoldersShow

----------------------------------------------------------------------------
(* What the actions do to the table of commands and to the directories.    *)

LEMMA OpType ==
    ASSUME TypeOK, NEW p \in Process
    PROVE  /\ op \in [Process -> Operation] /\ op[p] \in Operation
           /\ op[p].command \in Commands /\ op[p].step \in Steps
           /\ op[p].tree \in Made \cup {Nothing} /\ op[p].backup \in Made \cup {Nothing}
           /\ op[p].staged \in Made \cup {Nothing} /\ op[p].displaced \in Made \cup {Nothing}
           /\ op[p].entry \in 0 .. CallCap /\ op[p].seen \in SUBSET (1 .. CallCap)
BY DEF TypeOK, Operation

LEMMA DiskType ==
    ASSUME TypeOK
    PROVE  /\ Made \subseteq Tree /\ Nothing \notin Made
           /\ \A t \in Made : content[t] \in Content /\ content[t].layout \in Layout
           /\ \A t \in Made : content[t].entries \in SUBSET (1 .. CallCap)
           /\ package \in Made \cup {Nothing} /\ backups \subseteq Made /\ hidden \subseteq Made
BY MigrationAssumption DEF TypeOK, Tree, Content

LEMMA MadeInterval ==
    ASSUME TypeOK
    PROVE  Made \subseteq Tree /\ Made = 1 .. Cardinality(Made) /\ Cardinality(Made) \in Nat
<1>1. IsFiniteSet(Tree)
  BY MigrationAssumption, FS_Interval DEF Tree
<1>. QED
  BY <1>1, FS_Subset, FS_CardinalityType DEF TypeOK

\* Holding a lock shows in the command: that part of TypeOK follows from Locks.
LEMMA HoldersFollowNow == HoldersFollow
BY DEF HoldersFollow, HoldersShow, Paths, Locks, Locked, Operation, Commands

LEMMA HoldersFollowNext == HoldersFollow'
BY HoldersFollowNow, PTL

\* Only the command of p has changed.
LEMMA GoEffect ==
    ASSUME TypeOK, NEW p \in Process, NEW step \in Steps, Goes(p, step)
    PROVE  /\ op' \in [Process -> Operation]
           /\ \A q \in Process \ {p} : op'[q] = op[q]
           /\ op'[p].step = step /\ op'[p].command = op[p].command /\ op'[p].tree = op[p].tree
           /\ op'[p].backup = op[p].backup /\ op'[p].staged = op[p].staged
           /\ op'[p].displaced = op[p].displaced /\ op'[p].entry = op[p].entry
           /\ op'[p].seen = op[p].seen
<1>1. op \in [Process -> Operation] /\ op[p] \in Operation
  BY DEF TypeOK
<1>2. [op[p] EXCEPT !.step = step] \in Operation
  BY <1>1 DEF Operation
<1>3. op' = [op EXCEPT ![p] = [op[p] EXCEPT !.step = step]]
  BY <1>1 DEF Goes
<1>. QED
  BY <1>1, <1>2, <1>3 DEF Operation

LEMMA FailEffect ==
    ASSUME TypeOK, NEW p \in Process, Fails(p)
    PROVE  /\ op' \in [Process -> Operation]
           /\ \A q \in Process \ {p} : op'[q] = op[q]
           /\ op'[p].step = "undo" /\ op'[p].command = op[p].command /\ op'[p].tree = op[p].tree
           /\ op'[p].backup = op[p].backup /\ op'[p].staged = op[p].staged
           /\ op'[p].displaced = op[p].displaced /\ op'[p].entry = op[p].entry
           /\ op'[p].seen = op[p].seen
<1>1. op \in [Process -> Operation] /\ op[p] \in Operation
  BY DEF TypeOK
<1>2. [op[p] EXCEPT !.step = "undo", !.failed = TRUE] \in Operation
  BY <1>1 DEF Operation, Steps
<1>3. op' = [op EXCEPT ![p] = [op[p] EXCEPT !.step = "undo", !.failed = TRUE]]
  BY <1>1 DEF Fails
<1>. QED
  BY <1>1, <1>2, <1>3 DEF Operation

LEMMA EndEffect ==
    ASSUME TypeOK, NEW p \in Process, op' = [op EXCEPT ![p] = Idle]
    PROVE  /\ op' \in [Process -> Operation]
           /\ \A q \in Process \ {p} : op'[q] = op[q]
           /\ op'[p].step = "idle" /\ op'[p].command = "none" /\ op'[p].tree = Nothing
           /\ op'[p].backup = Nothing /\ op'[p].staged = Nothing
           /\ op'[p].displaced = Nothing /\ op'[p].entry = 0
           /\ op'[p].seen = {}
<1>1. op \in [Process -> Operation]
  BY DEF TypeOK
<1>2. Idle \in Operation
  BY MigrationAssumption DEF Operation, Idle, Commands, Steps
<1>. QED
  BY <1>1, <1>2 DEF Idle

\* A new directory has a number of its own.
LEMMA MakeEffect ==
    ASSUME TypeOK, NEW what \in Content, Makes(what)
    PROVE  /\ Fresh \in Tree /\ Fresh \notin Made /\ Fresh # Nothing
           /\ Made' = Made \cup {Fresh} /\ Made' \subseteq Tree
           /\ Made' = 1 .. Cardinality(Made') /\ DOMAIN holder' = Made'
           /\ content'[Fresh] = what /\ holder'[Fresh] = Nothing
           /\ \A t \in Made : content'[t] = content[t] /\ holder'[t] = holder[t]
           /\ \A t \in Made' : content'[t] \in Content /\ holder'[t] \in Process \cup {Nothing}
<1>1. /\ Made = 1 .. Cardinality(Made) /\ Cardinality(Made) \in Nat /\ Made \subseteq Tree
  BY MadeInterval
<1>2. Fresh \in Tree /\ Fresh \notin Made /\ Made \cup {Fresh} = 1 .. Fresh
  BY <1>1 DEF Makes, Fresh
<1>3. Made' = Made \cup {Fresh} /\ DOMAIN holder' = Made'
  BY DEF Makes, Made
<1>4. Cardinality(Made') = Fresh
  <2>1. Fresh \in Int /\ Fresh >= 1
    BY <1>1 DEF Fresh
  <2>2. Cardinality(1 .. Fresh) = Fresh
    BY <2>1, FS_Interval
  <2>. QED
    BY <1>2, <1>3, <2>2
<1>. QED
  BY <1>1, <1>2, <1>3, <1>4, MigrationAssumption DEF Makes, TypeOK, Tree

\* What has not gone wrong after a step had not gone wrong before it.
LEMMA FlagsStay ==
    ASSUME mishaps \subseteq mishaps'
    PROVE  /\ Calm' => Calm
           /\ "stale lock" \notin mishaps' => "stale lock" \notin mishaps
           /\ "leftover" \notin mishaps' => "leftover" \notin mishaps
           /\ "interrupt" \notin mishaps' => "interrupt" \notin mishaps
           /\ mishaps' \subseteq {"leftover"} => mishaps \subseteq {"leftover"}
BY DEF Calm

LEMMA OnlyLeftover ==
    ASSUME mishaps \subseteq {"leftover"}
    PROVE  Calm /\ "stale lock" \notin mishaps
BY DEF Calm

\* A step of a command that does not migrate yet leaves a done migration done.
LEMMA DoneStays ==
    ASSUME TypeOK, Done, package' = package, backups' = backups,
           \A t \in Made : content'[t].layout = content[t].layout,
           "interrupt" \notin mishaps' => "interrupt" \notin mishaps,
           \A q \in Process :
              /\ op'[q].command = op[q].command /\ op'[q].backup = op[q].backup
              /\ op'[q].step = op[q].step
                 \/ {op[q].step, op'[q].step} \subseteq {"open", "wait", "locked", "land", "release"}
    PROVE  Done'
<1>1. package \in Made /\ backups \subseteq Made
  BY DiskType DEF Done
<1>2. \A q \in Process : Undoable(q)' <=> Undoable(q)
  BY DEF Undoable
<1>3. \A q \in Process : Undoable(q) /\ op[q].backup # Nothing => op[q].backup \in Made
  BY OpType
<1>4. package' # Nothing /\ content'[package'].layout = "final"
  BY <1>1 DEF Done
<1>5. \A b \in backups' : Owned(b)'
  <2>1. ASSUME NEW b \in backups PROVE Owned(b)'
    <3>1. Owned(b) /\ content'[b].layout = content[b].layout
      BY <1>1 DEF Done
    <3>. QED
      BY <3>1, <1>2 DEF Owned
  <2>. QED
    BY <2>1
<1>6. "interrupt" \notin mishaps' => \E q \in Process : op'[q].command = "migrate" /\ op'[q].step = "sweep"
  BY DEF Done
<1>7. \A q \in Process :
        /\ op'[q].command # "rollback"
        /\ op'[q].step \notin {"backup", "stage", "displace", "swap", "putback"}
  BY DEF Done
<1>8. \A q \in Process : Undoable(q)' /\ op'[q].backup # Nothing => content'[op'[q].backup].layout = "legacy"
  BY <1>2, <1>3 DEF Done
<1>. QED
  BY <1>4, <1>5, <1>6, <1>7, <1>8 DEF Done

LEMMA InitIInv == Init => IInv
<1> SUFFICES ASSUME Init PROVE IInv
  OBVIOUS
<1>1. /\ Made = {1} /\ content[1] = Untouched /\ DOMAIN holder = {1} /\ holder[1] = Nothing
      /\ Untouched \in Content /\ Untouched.layout = "legacy" /\ Untouched.entries = {}
  BY DEF Init, Made, Untouched, Content, Layout
<1>2. Made = 1 .. Cardinality(Made) /\ Made \subseteq Tree
  BY <1>1, FS_Singleton, MigrationAssumption DEF Tree
<1>3. /\ Idle \in Operation /\ Idle.step = "idle" /\ Idle.command = "none" /\ Idle.tree = Nothing
      /\ Idle.backup = Nothing /\ Idle.staged = Nothing /\ Idle.displaced = Nothing
  BY MigrationAssumption DEF Operation, Idle, Commands, Steps
<1>4. op \in [Process -> Operation] /\ \A p \in Process : op[p] = Idle
  BY <1>3 DEF Init
<1> HIDE DEF Idle
<1>5. TypeOK
  BY <1>1, <1>2, <1>3, <1>4, MigrationAssumption DEF Init, TypeOK
<1>6. Paths /\ Locks
  BY <1>1, <1>3, <1>4, MigrationAssumption DEF Init, Paths, Locks, Locked
<1>7. Apart /\ OwnBackup /\ FirstOnly
  BY <1>1, <1>3, <1>4, MigrationAssumption DEF Init, Apart, OwnBackup, FirstOnly, Migrating,
     Undoable, Swapping, Pending, Copy, Original
<1>8. UnderLock /\ AllAccounted /\ EntriesKept
  BY <1>1, <1>3, <1>4, MigrationAssumption DEF Init, UnderLock, AllAccounted, Calm, EntriesKept,
     Locked, Swapping, Pending
<1>. QED
  BY <1>5, <1>6, <1>7, <1>8 DEF IInv

\* The package is looked at again under the lock.
LEMMA ClassifyKeepsIInv ==
    ASSUME IInv, NEW p \in Process, Classify(p)
    PROVE  IInv'
<1>1. /\ op' \in [Process -> Operation] /\ \A q \in Process \ {p} : op'[q] = op[q]
      /\ op[p].command = "migrate" /\ op[p].step = "locked"
      /\ \/ op'[p].step = "release"
         \/ op'[p].step = "backup" /\ IsUntouched(package)
      /\ op'[p].entry = op[p].entry
      /\ op'[p].command = op[p].command /\ op'[p].tree = op[p].tree
      /\ op'[p].backup = op[p].backup /\ op'[p].staged = op[p].staged
      /\ op'[p].displaced = op[p].displaced
      /\ UNCHANGED <<content, package, backups, hidden, holder, calls, said, mishaps>>
  <2>1. "backup" \in Steps /\ "release" \in Steps
    BY DEF Steps
  <2>. QED
    BY <2>1, GoEffect DEF IInv, Classify, disk, history
<1>2. \A q \in Process : Copy(q)' = Copy(q) /\ Original(q)' = Original(q) /\ Pending(q)' = Pending(q)
  BY <1>1 DEF IInv, Paths, Pending, Copy, Original
<1>3. Paths'
  BY <1>1, OpType DEF IInv, Paths
<1>4. Locks'
  BY <1>1, DiskType DEF IInv, Paths, Locks, Locked, Made
<1>5. TypeOK'
  <2>1. HoldersShow'
    BY <1>1, <1>3, <1>4, HoldersFollowNext DEF HoldersFollow
  <2>2. \A q \in Process : {op'[q].tree, op'[q].backup, op'[q].staged, op'[q].displaced} \subseteq Made' \cup {Nothing}
    BY <1>1, OpType, DiskType DEF IInv, Made
  <2>. QED
    BY <1>1, <2>1, <2>2 DEF IInv, TypeOK, Made, HoldersShow
<1>6. Apart'
  BY <1>1, <1>2, OpType DEF IInv, Paths, Apart
<1>7. OwnBackup'
  BY <1>1, OpType DEF IInv, Paths, OwnBackup, Undoable
<1>8. Protected' \/ FirstOnly' \/ Done'
  <2>1. CASE Protected
    BY <1>1, <2>1, OpType, DiskType DEF IInv, Paths, Protected, Undoable
  <2>2. CASE FirstOnly
    BY <1>1, <2>2, OpType, DiskType DEF IInv, Paths, FirstOnly, Migrating, Undoable, Swapping, Owned, Made, IsUntouched, Locks, Locked
  <2>3. CASE Done
    BY <1>1, <2>3, OpType, DiskType DEF IInv, Paths, Done, Owned, Undoable, Made, IsUntouched
  <2>. QED
    BY <2>1, <2>2, <2>3 DEF IInv
<1>9. UnderLock'
  BY <1>1 DEF IInv, UnderLock, Locked, IsUntouched
<1>10. AllAccounted'
  BY <1>1, <1>2, OpType DEF IInv, Paths, AllAccounted, Calm, Swapping, Made
<1>11. EntriesKept'
  BY <1>1 DEF IInv, EntriesKept, Swapping
<1>. QED
  BY <1>3, <1>4, <1>5, <1>6, <1>7, <1>8, <1>9, <1>10, <1>11 DEF IInv

\* A copy or the first rename fails.
LEMMA CopyFailsKeepsIInv ==
    ASSUME IInv, NEW p \in Process, CopyFails(p)
    PROVE  IInv'
<1>1. /\ op' \in [Process -> Operation] /\ \A q \in Process \ {p} : op'[q] = op[q]
      /\ op[p].step \in {"backup", "stage", "displace"} /\ op'[p].step = "undo"
      /\ op'[p].entry = op[p].entry
      /\ op'[p].command = op[p].command /\ op'[p].tree = op[p].tree
      /\ op'[p].backup = op[p].backup /\ op'[p].staged = op[p].staged
      /\ op'[p].displaced = op[p].displaced
      /\ UNCHANGED <<content, package, backups, hidden, holder, calls, said, mishaps>>
  BY FailEffect DEF IInv, CopyFails, disk, history
<1>2. \A q \in Process : Copy(q)' = Copy(q) /\ Original(q)' = Original(q) /\ Pending(q)' = Pending(q)
  BY <1>1 DEF IInv, Paths, Pending, Copy, Original
<1>3. Paths'
  BY <1>1, OpType DEF IInv, Paths
<1>4. Locks'
  BY <1>1, DiskType DEF IInv, Paths, Locks, Locked, Made
<1>5. TypeOK'
  <2>1. HoldersShow'
    BY <1>1, <1>3, <1>4, HoldersFollowNext DEF HoldersFollow
  <2>2. \A q \in Process : {op'[q].tree, op'[q].backup, op'[q].staged, op'[q].displaced} \subseteq Made' \cup {Nothing}
    BY <1>1, OpType, DiskType DEF IInv, Made
  <2>. QED
    BY <1>1, <2>1, <2>2 DEF IInv, TypeOK, Made, HoldersShow
<1>6. Apart'
  BY <1>1, <1>2, OpType DEF IInv, Paths, Apart
<1>7. OwnBackup'
  BY <1>1, OpType, DiskType DEF IInv, Paths, OwnBackup, Undoable
<1>8. Protected' \/ FirstOnly' \/ Done'
  <2>1. CASE Protected
    BY <1>1, <2>1, OpType, DiskType DEF IInv, Paths, Protected, Undoable
  <2>2. CASE FirstOnly
    BY <1>1, <2>2, OpType, DiskType DEF IInv, Paths, FirstOnly, Migrating, Undoable, Swapping, Owned, Made
  <2>3. CASE Done
    BY <1>1, <2>3, OpType, DiskType DEF IInv, Paths, Done, Owned, Undoable, Made
  <2>. QED
    BY <2>1, <2>2, <2>3 DEF IInv
<1>9. UnderLock'
  BY <1>1 DEF IInv, UnderLock, Locked
<1>10. AllAccounted'
  BY <1>1, <1>2, OpType DEF IInv, Paths, AllAccounted, Calm, Swapping, Made
<1>11. EntriesKept'
  BY <1>1 DEF IInv, EntriesKept, Swapping
<1>. QED
  BY <1>3, <1>4, <1>5, <1>6, <1>7, <1>8, <1>9, <1>10, <1>11 DEF IInv

\* The second rename fails.
LEMMA SwapFailsKeepsIInv ==
    ASSUME IInv, NEW p \in Process, SwapFails(p)
    PROVE  IInv'
<1>1. /\ op' \in [Process -> Operation] /\ \A q \in Process \ {p} : op'[q] = op[q]
      /\ op[p].step = "swap" /\ op'[p].step = "putback"
      /\ op'[p].entry = op[p].entry
      /\ op'[p].command = op[p].command /\ op'[p].tree = op[p].tree
      /\ op'[p].backup = op[p].backup /\ op'[p].staged = op[p].staged
      /\ op'[p].displaced = op[p].displaced
      /\ UNCHANGED <<content, package, backups, hidden, holder, calls, said, mishaps>>
  <2>1. "putback" \in Steps
    BY DEF Steps
  <2>. QED
    BY <2>1, GoEffect DEF IInv, SwapFails, disk, history
<1>2. \A q \in Process : Copy(q)' = Copy(q) /\ Original(q)' = Original(q) /\ Pending(q)' = Pending(q)
  BY <1>1 DEF IInv, Paths, Pending, Copy, Original
<1>3. Paths'
  BY <1>1, OpType DEF IInv, Paths
<1>4. Locks'
  BY <1>1, DiskType DEF IInv, Paths, Locks, Locked, Made
<1>5. TypeOK'
  <2>1. HoldersShow'
    BY <1>1, <1>3, <1>4, HoldersFollowNext DEF HoldersFollow
  <2>2. \A q \in Process : {op'[q].tree, op'[q].backup, op'[q].staged, op'[q].displaced} \subseteq Made' \cup {Nothing}
    BY <1>1, OpType, DiskType DEF IInv, Made
  <2>. QED
    BY <1>1, <2>1, <2>2 DEF IInv, TypeOK, Made, HoldersShow
<1>6. Apart'
  BY <1>1, <1>2, OpType DEF IInv, Paths, Apart
<1>7. OwnBackup'
  BY <1>1, OpType DEF IInv, Paths, OwnBackup, Undoable
<1>8. Protected' \/ FirstOnly' \/ Done'
  <2>1. CASE Protected
    BY <1>1, <2>1, OpType, DiskType DEF IInv, Paths, Protected, Undoable
  <2>2. CASE FirstOnly
    BY <1>1, <2>2, OpType, DiskType DEF IInv, Paths, FirstOnly, Migrating, Undoable, Swapping, Owned, Made
  <2>3. CASE Done
    BY <1>1, <2>3, OpType, DiskType DEF IInv, Paths, Done, Owned, Undoable, Made
  <2>. QED
    BY <2>1, <2>2, <2>3 DEF IInv
<1>9. UnderLock'
  BY <1>1 DEF IInv, UnderLock, Locked
<1>10. AllAccounted'
  BY <1>1, <1>2, OpType DEF IInv, Paths, AllAccounted, Calm, Swapping, Made
<1>11. EntriesKept'
  BY <1>1 DEF IInv, EntriesKept, Swapping
<1>. QED
  BY <1>3, <1>4, <1>5, <1>6, <1>7, <1>8, <1>9, <1>10, <1>11 DEF IInv

\* The lock stays with another command.
LEMMA GiveUpKeepsIInv ==
    ASSUME IInv, NEW p \in Process, GiveUp(p)
    PROVE  IInv'
<1>1. /\ op' \in [Process -> Operation] /\ \A q \in Process \ {p} : op'[q] = op[q]
      /\ op[p].step = "wait" /\ op'[p].step = "idle" /\ op'[p].command = "none"
      /\ op'[p].tree = Nothing /\ op'[p].backup = Nothing /\ op'[p].staged = Nothing
      /\ op'[p].displaced = Nothing
      /\ UNCHANGED <<content, package, backups, hidden, holder, calls, said, mishaps>>
  BY EndEffect DEF IInv, GiveUp, disk, history
<1>2. \A q \in Process : Copy(q)' = Copy(q) /\ Original(q)' = Original(q) /\ Pending(q)' = Pending(q)
  BY <1>1 DEF IInv, Paths, Pending, Copy, Original
<1>3. Paths'
  BY <1>1, OpType DEF IInv, Paths
<1>4. Locks'
  BY <1>1, DiskType DEF IInv, Paths, Locks, Locked, Made
<1>5. TypeOK'
  <2>1. HoldersShow'
    BY <1>1, <1>3, <1>4, HoldersFollowNext DEF HoldersFollow
  <2>2. \A q \in Process : {op'[q].tree, op'[q].backup, op'[q].staged, op'[q].displaced} \subseteq Made' \cup {Nothing}
    BY <1>1, OpType, DiskType DEF IInv, Made
  <2>. QED
    BY <1>1, <2>1, <2>2 DEF IInv, TypeOK, Made, HoldersShow
<1>6. Apart'
  BY <1>1, <1>2, OpType DEF IInv, Paths, Apart
<1>7. OwnBackup'
  BY <1>1, OpType DEF IInv, Paths, OwnBackup, Undoable
<1>8. Protected' \/ FirstOnly' \/ Done'
  <2>1. CASE Protected
    BY <1>1, <2>1, OpType, DiskType DEF IInv, Paths, Protected, Undoable
  <2>2. CASE FirstOnly
    BY <1>1, <2>2, OpType, DiskType DEF IInv, Paths, FirstOnly, Migrating, Undoable, Swapping, Owned, Made
  <2>3. CASE Done
    BY <1>1, <2>3, OpType, DiskType DEF IInv, Paths, Done, Owned, Undoable, Made
  <2>. QED
    BY <2>1, <2>2, <2>3 DEF IInv
<1>9. UnderLock'
  BY <1>1 DEF IInv, UnderLock, Locked
<1>10. AllAccounted'
  BY <1>1, <1>2, OpType DEF IInv, Paths, AllAccounted, Calm, Swapping, Made
<1>11. EntriesKept'
  BY <1>1 DEF IInv, EntriesKept, Swapping
<1>. QED
  BY <1>3, <1>4, <1>5, <1>6, <1>7, <1>8, <1>9, <1>10, <1>11 DEF IInv

\* A write reads the package under the lock.
LEMMA ReadsKeepsIInv ==
    ASSUME IInv, NEW p \in Process, Reads(p)
    PROVE  IInv'
<1>1. /\ op' \in [Process -> Operation] /\ \A q \in Process \ {p} : op'[q] = op[q]
      /\ op[p].command = "write" /\ op[p].step = "locked"
      /\ op'[p].step = "land" /\ op'[p].seen = Entries
      /\ op'[p].entry = op[p].entry
      /\ op'[p].command = op[p].command /\ op'[p].tree = op[p].tree
      /\ op'[p].backup = op[p].backup /\ op'[p].staged = op[p].staged
      /\ op'[p].displaced = op[p].displaced
      /\ UNCHANGED <<content, package, backups, hidden, holder, calls, said, mishaps>>
  <2>1. op \in [Process -> Operation] /\ op[p] \in Operation
    BY DEF IInv, TypeOK
  <2>2. Entries \in SUBSET (1 .. CallCap)
    BY DiskType DEF IInv, Entries
  <2>3. [op[p] EXCEPT !.step = "land", !.seen = Entries] \in Operation
    BY <2>1, <2>2 DEF Operation, Steps
  <2>4. op' = [op EXCEPT ![p] = [op[p] EXCEPT !.step = "land", !.seen = Entries]]
    BY <2>1 DEF Reads
  <2>. QED
    BY <2>1, <2>3, <2>4 DEF Operation, Reads, disk, history
<1>2. \A q \in Process : Copy(q)' = Copy(q) /\ Original(q)' = Original(q) /\ Pending(q)' = Pending(q)
  BY <1>1 DEF IInv, Paths, Pending, Copy, Original
<1>3. Paths'
  BY <1>1, OpType DEF IInv, Paths
<1>4. Locks'
  BY <1>1, DiskType DEF IInv, Paths, Locks, Locked, Made
<1>5. TypeOK'
  <2>1. HoldersShow'
    BY <1>1, <1>3, <1>4, HoldersFollowNext DEF HoldersFollow
  <2>2. \A q \in Process : {op'[q].tree, op'[q].backup, op'[q].staged, op'[q].displaced} \subseteq Made' \cup {Nothing}
    BY <1>1, OpType, DiskType DEF IInv, Made
  <2>. QED
    BY <1>1, <2>1, <2>2 DEF IInv, TypeOK, Made, HoldersShow
<1>6. Apart'
  BY <1>1, <1>2, OpType DEF IInv, Paths, Apart
<1>7. OwnBackup'
  BY <1>1, OpType DEF IInv, Paths, OwnBackup, Undoable
<1>8. Protected' \/ FirstOnly' \/ Done'
  <2>1. CASE Protected
    BY <1>1, <2>1, OpType, DiskType DEF IInv, Paths, Protected, Undoable
  <2>2. CASE FirstOnly
    BY <1>1, <2>2, OpType, DiskType DEF IInv, Paths, FirstOnly, Migrating, Undoable, Swapping, Owned, Made
  <2>3. CASE Done
    BY <1>1, <2>3, OpType, DiskType DEF IInv, Paths, Done, Owned, Undoable, Made
  <2>. QED
    BY <2>1, <2>2, <2>3 DEF IInv
<1>9. UnderLock'
  BY <1>1 DEF IInv, UnderLock, Locked
<1>10. AllAccounted'
  BY <1>1, <1>2, OpType DEF IInv, Paths, AllAccounted, Calm, Swapping, Made
<1>11. EntriesKept'
  <2>1. SUFFICES ASSUME mishaps \subseteq {"leftover"} PROVE EntriesKept'
    BY <1>1 DEF EntriesKept
  <2>2. "stale lock" \notin mishaps
    BY <2>1, OnlyLeftover
  <2>3. op[p].tree = package /\ package # Nothing
    <3>1. Locked(p) /\ op[p].step = "locked"
      BY <1>1 DEF Locked
    <3>2. op[p].tree \in Made
      BY <3>1 DEF IInv, Locks
    <3>3. op[p].tree = package
      BY <2>2, <3>1 DEF IInv, UnderLock
    <3>. QED
      BY <3>2, <3>3, DiskType DEF IInv
  <2>4. said \subseteq Entries
    BY <2>1, <2>3 DEF IInv, EntriesKept, Entries
  <2>. QED
    BY <1>1, <2>1, <2>4 DEF IInv, EntriesKept, Swapping
<1>. QED
  BY <1>3, <1>4, <1>5, <1>6, <1>7, <1>8, <1>9, <1>10, <1>11 DEF IInv

LEMMA BeginEffect ==
    ASSUME TypeOK, NEW p \in Process, NEW o \in Operation, Begins(p, o)
    PROVE  /\ op' \in [Process -> Operation] /\ \A q \in Process \ {p} : op'[q] = op[q]
           /\ op[p].step = "idle" /\ op'[p] = o
           /\ calls + 1 \in 1 .. CallCap /\ calls' \in 0 .. CallCap
           /\ UNCHANGED <<said, mishaps>>
<1>1. op \in [Process -> Operation] /\ op' = [op EXCEPT ![p] = o] /\ op[p].step = "idle"
  BY DEF TypeOK, Begins
<1>2. calls \in 0 .. CallCap /\ calls < CallCap /\ calls' = calls + 1
  BY DEF TypeOK, Begins
<1>3. CallCap \in Nat
  BY MigrationAssumption
<1>4. calls + 1 \in 1 .. CallCap
  BY <1>2, <1>3
<1>5. UNCHANGED <<said, mishaps>>
  BY DEF Begins
<1>. QED
  BY <1>1, <1>2, <1>3, <1>4, <1>5

\* A legacy package is found.
LEMMA MigrateKeepsIInv ==
    ASSUME IInv, NEW p \in Process, Migrate(p)
    PROVE  IInv'
<1>1. /\ op' \in [Process -> Operation] /\ \A q \in Process \ {p} : op'[q] = op[q]
      /\ op[p].step = "idle" /\ op'[p].command = "migrate" /\ op'[p].step = "open"
      /\ op'[p].tree = Nothing /\ op'[p].staged = Nothing /\ op'[p].displaced = Nothing
      /\ op'[p].backup = Nothing
      /\ calls' \in 0 .. CallCap
      /\ UNCHANGED <<content, package, backups, hidden, holder, said, mishaps>>
  <2> DEFINE o == [Idle EXCEPT !.command = "migrate", !.step = "open"]
  <2>1. Begins(p, o) /\ UNCHANGED <<content, package, backups, hidden, holder>>
    BY DiskType DEF IInv, Migrate, disk
  <2>2. /\ o \in Operation /\ o.command = "migrate" /\ o.step = "open"
        /\ o.tree = Nothing /\ o.staged = Nothing /\ o.displaced = Nothing
        /\ o.backup = Nothing
    <3>1. 0 \in 0 .. CallCap /\ calls + 1 \in 0 .. CallCap /\ calls + 1 # 0
      <4>1. calls \in 0 .. CallCap /\ calls < CallCap
        BY <2>1 DEF Begins, IInv, TypeOK
      <4>2. CallCap \in Nat
        BY MigrationAssumption
      <4>. QED
        BY <4>1, <4>2
    <3>. QED
      BY <2>1, <3>1 DEF Operation, Idle, Commands, Steps
  <2> HIDE DEF o
  <2>. QED
    BY <2>1, <2>2, BeginEffect DEF IInv
<1>2. \A q \in Process : Copy(q)' = Copy(q) /\ Original(q)' = Original(q) /\ Pending(q)' = Pending(q)
  BY <1>1 DEF IInv, Paths, Pending, Copy, Original
<1>3. Paths'
  BY <1>1, OpType DEF IInv, Paths
<1>4. Locks'
  BY <1>1, DiskType DEF IInv, Paths, Locks, Locked, Made
<1>5. TypeOK'
  <2>1. HoldersShow'
    BY <1>1, <1>3, <1>4, HoldersFollowNext DEF HoldersFollow
  <2>2. \A q \in Process : {op'[q].tree, op'[q].backup, op'[q].staged, op'[q].displaced} \subseteq Made' \cup {Nothing}
    BY <1>1, OpType, DiskType DEF IInv, Made
  <2>. QED
    BY <1>1, <2>1, <2>2 DEF IInv, TypeOK, Made, HoldersShow
<1>6. Apart'
  BY <1>1, <1>2, OpType DEF IInv, Paths, Apart
<1>7. OwnBackup'
  BY <1>1, OpType DEF IInv, Paths, OwnBackup, Undoable
<1>8. Protected' \/ FirstOnly' \/ Done'
  <2>1. CASE Protected
    BY <1>1, <2>1, OpType, DiskType DEF IInv, Paths, Protected, Undoable
  <2>2. CASE FirstOnly
    BY <1>1, <2>2, OpType, DiskType DEF IInv, Paths, FirstOnly, Migrating, Undoable, Swapping, Owned, Made
  <2>3. CASE Done
    BY <1>1, <2>3, OpType, DiskType DEF IInv, Paths, Done, Owned, Undoable, Made
  <2>. QED
    BY <2>1, <2>2, <2>3 DEF IInv
<1>9. UnderLock'
  BY <1>1 DEF IInv, UnderLock, Locked
<1>10. AllAccounted'
  BY <1>1, <1>2, OpType DEF IInv, Paths, AllAccounted, Calm, Swapping, Made
<1>11. EntriesKept'
  BY <1>1 DEF IInv, EntriesKept, Swapping
<1>. QED
  BY <1>3, <1>4, <1>5, <1>6, <1>7, <1>8, <1>9, <1>10, <1>11 DEF IInv

\* A write that has found the package.
LEMMA WriteKeepsIInv ==
    ASSUME IInv, NEW p \in Process, Write(p)
    PROVE  IInv'
<1>1. /\ op' \in [Process -> Operation] /\ \A q \in Process \ {p} : op'[q] = op[q]
      /\ op[p].step = "idle" /\ op'[p].command = "write" /\ op'[p].step = "open"
      /\ op'[p].tree = Nothing /\ op'[p].staged = Nothing /\ op'[p].displaced = Nothing
      /\ op'[p].backup = Nothing /\ op'[p].entry # 0
      /\ calls' \in 0 .. CallCap
      /\ UNCHANGED <<content, package, backups, hidden, holder, said, mishaps>>
  <2> DEFINE o == [Idle EXCEPT !.command = "write", !.step = "open", !.entry = calls + 1]
  <2>1. Begins(p, o) /\ UNCHANGED <<content, package, backups, hidden, holder>>
    BY DiskType DEF IInv, Write, disk
  <2>2. /\ o \in Operation /\ o.command = "write" /\ o.step = "open"
        /\ o.tree = Nothing /\ o.staged = Nothing /\ o.displaced = Nothing
        /\ o.backup = Nothing /\ o.entry # 0
    <3>1. 0 \in 0 .. CallCap /\ calls + 1 \in 0 .. CallCap /\ calls + 1 # 0
      <4>1. calls \in 0 .. CallCap /\ calls < CallCap
        BY <2>1 DEF Begins, IInv, TypeOK
      <4>2. CallCap \in Nat
        BY MigrationAssumption
      <4>. QED
        BY <4>1, <4>2
    <3>. QED
      BY <2>1, <3>1 DEF Operation, Idle, Commands, Steps
  <2> HIDE DEF o
  <2>. QED
    BY <2>1, <2>2, BeginEffect DEF IInv
<1>2. \A q \in Process : Copy(q)' = Copy(q) /\ Original(q)' = Original(q) /\ Pending(q)' = Pending(q)
  BY <1>1 DEF IInv, Paths, Pending, Copy, Original
<1>3. Paths'
  BY <1>1, OpType DEF IInv, Paths
<1>4. Locks'
  BY <1>1, DiskType DEF IInv, Paths, Locks, Locked, Made
<1>5. TypeOK'
  <2>1. HoldersShow'
    BY <1>1, <1>3, <1>4, HoldersFollowNext DEF HoldersFollow
  <2>2. \A q \in Process : {op'[q].tree, op'[q].backup, op'[q].staged, op'[q].displaced} \subseteq Made' \cup {Nothing}
    BY <1>1, OpType, DiskType DEF IInv, Made
  <2>. QED
    BY <1>1, <2>1, <2>2 DEF IInv, TypeOK, Made, HoldersShow
<1>6. Apart'
  BY <1>1, <1>2, OpType DEF IInv, Paths, Apart
<1>7. OwnBackup'
  BY <1>1, OpType DEF IInv, Paths, OwnBackup, Undoable
<1>8. Protected' \/ FirstOnly' \/ Done'
  <2>1. CASE Protected
    BY <1>1, <2>1, OpType, DiskType DEF IInv, Paths, Protected, Undoable
  <2>2. CASE FirstOnly
    BY <1>1, <2>2, OpType, DiskType DEF IInv, Paths, FirstOnly, Migrating, Undoable, Swapping, Owned, Made
  <2>3. CASE Done
    BY <1>1, <2>3, OpType, DiskType DEF IInv, Paths, Done, Owned, Undoable, Made
  <2>. QED
    BY <2>1, <2>2, <2>3 DEF IInv
<1>9. UnderLock'
  BY <1>1 DEF IInv, UnderLock, Locked
<1>10. AllAccounted'
  BY <1>1, <1>2, OpType DEF IInv, Paths, AllAccounted, Calm, Swapping, Made
<1>11. EntriesKept'
  BY <1>1 DEF IInv, EntriesKept, Swapping
<1>. QED
  BY <1>3, <1>4, <1>5, <1>6, <1>7, <1>8, <1>9, <1>10, <1>11 DEF IInv

\* A rollback from a backup that no running command has made.
LEMMA RollbackKeepsIInv ==
    ASSUME IInv, NEW p \in Process, NEW b \in backups, Rollback(p, b)
    PROVE  IInv'
<1>1. /\ op' \in [Process -> Operation] /\ \A q \in Process \ {p} : op'[q] = op[q]
      /\ op[p].step = "idle" /\ op'[p].command = "rollback" /\ op'[p].step = "stage"
      /\ op'[p].tree = Nothing /\ op'[p].staged = Nothing /\ op'[p].displaced = Nothing
      /\ op'[p].backup = b /\ \A q \in Process : op[q].command = "migrate" => op[q].backup # b
      /\ calls' \in 0 .. CallCap /\ b \in backups /\ content[b].layout # "none"
      /\ UNCHANGED <<content, package, backups, hidden, holder, said, mishaps>>
  <2> DEFINE o == [Idle EXCEPT !.command = "rollback", !.step = "stage", !.backup = b]
  <2>1. Begins(p, o) /\ UNCHANGED <<content, package, backups, hidden, holder>> /\ b \in Tree
        /\ content[b].layout # "none"
        /\ \A q \in Process : op[q].command = "migrate" => op[q].backup # b
    BY DiskType DEF IInv, Rollback, disk
  <2>2. /\ o \in Operation /\ o.command = "rollback" /\ o.step = "stage"
        /\ o.tree = Nothing /\ o.staged = Nothing /\ o.displaced = Nothing
        /\ o.backup = b /\ \A q \in Process : op[q].command = "migrate" => op[q].backup # b
    <3>1. 0 \in 0 .. CallCap /\ calls + 1 \in 0 .. CallCap /\ calls + 1 # 0
      <4>1. calls \in 0 .. CallCap /\ calls < CallCap
        BY <2>1 DEF Begins, IInv, TypeOK
      <4>2. CallCap \in Nat
        BY MigrationAssumption
      <4>. QED
        BY <4>1, <4>2
    <3>. QED
      BY <2>1, <3>1 DEF Operation, Idle, Commands, Steps
  <2> HIDE DEF o
  <2>. QED
    BY <2>1, <2>2, BeginEffect DEF IInv
<1>2. \A q \in Process : Copy(q)' = Copy(q) /\ Original(q)' = Original(q) /\ Pending(q)' = Pending(q)
  BY <1>1 DEF IInv, Paths, Pending, Copy, Original
<1>3. Paths'
  BY <1>1, OpType DEF IInv, Paths
<1>4. Locks'
  BY <1>1, DiskType DEF IInv, Paths, Locks, Locked, Made
<1>5. TypeOK'
  <2>1. HoldersShow'
    BY <1>1, <1>3, <1>4, HoldersFollowNext DEF HoldersFollow
  <2>2. \A q \in Process : {op'[q].tree, op'[q].backup, op'[q].staged, op'[q].displaced} \subseteq Made' \cup {Nothing}
    BY <1>1, OpType, DiskType DEF IInv, Made
  <2>. QED
    BY <1>1, <2>1, <2>2 DEF IInv, TypeOK, Made, HoldersShow
<1>6. Apart'
  BY <1>1, <1>2, OpType DEF IInv, Paths, Apart
<1>7. OwnBackup'
  BY <1>1, OpType DEF IInv, Paths, OwnBackup, Undoable
<1>8. Protected' \/ FirstOnly' \/ Done'
  <2>1. CASE Protected
    BY <1>1, <2>1, OpType, DiskType DEF IInv, Paths, Protected, Undoable
  <2>2. ~Owned(b)
    BY <1>1 DEF Owned, Undoable
  <2>3. ~FirstOnly /\ ~Done
    BY <1>1, <2>2 DEF FirstOnly, Done
  <2>. QED
    BY <2>1, <2>3 DEF IInv
<1>9. UnderLock'
  BY <1>1 DEF IInv, UnderLock, Locked
<1>10. AllAccounted'
  BY <1>1, <1>2, OpType DEF IInv, Paths, AllAccounted, Calm, Swapping, Made
<1>11. EntriesKept'
  BY <1>1 DEF IInv, EntriesKept, Swapping
<1>. QED
  BY <1>3, <1>4, <1>5, <1>6, <1>7, <1>8, <1>9, <1>10, <1>11 DEF IInv

\* The lock is that of the package, or stale.
LEMMA AcquireKeepsIInv ==
    ASSUME IInv, NEW p \in Process, Acquire(p)
    PROVE  IInv'
<1>0. /\ Calm' => Calm
      /\ "stale lock" \notin mishaps' => "stale lock" \notin mishaps
      /\ "leftover" \notin mishaps' => "leftover" \notin mishaps
      /\ "interrupt" \notin mishaps' => "interrupt" \notin mishaps
      /\ mishaps' \subseteq {"leftover"} => mishaps \subseteq {"leftover"}
  BY FlagsStay DEF Acquire
<1>1. /\ op' \in [Process -> Operation] /\ \A q \in Process \ {p} : op'[q] = op[q]
      /\ op[p].step = "wait" /\ op'[p].step = "locked"
      /\ op[p].tree \in Made /\ holder[op[p].tree] = Nothing /\ holder'[op[p].tree] = p
      /\ DOMAIN holder' = Made /\ \A t \in Made \ {op[p].tree} : holder'[t] = holder[t]
      /\ op'[p].entry = op[p].entry
      /\ op'[p].command = op[p].command /\ op'[p].tree = op[p].tree
      /\ op'[p].backup = op[p].backup /\ op'[p].staged = op[p].staged
      /\ op'[p].displaced = op[p].displaced
      /\ UNCHANGED <<content, package, backups, hidden, calls, said>>
  <2>1. "locked" \in Steps /\ Goes(p, "locked") /\ op[p].step = "wait"
    BY DEF Steps, Acquire
  <2>2. op[p].tree \in Made /\ Made = DOMAIN holder
    BY <2>1 DEF IInv, Locks, TypeOK
  <2>3. /\ holder[op[p].tree] = Nothing /\ holder' = [holder EXCEPT ![op[p].tree] = p]
        /\ UNCHANGED <<content, package, backups, hidden, calls, said>>
    BY DEF Acquire
  <2>. QED
    BY <2>1, <2>2, <2>3, GoEffect DEF IInv
<1>2. \A q \in Process : Copy(q)' = Copy(q) /\ Original(q)' = Original(q) /\ Pending(q)' = Pending(q)
  BY <1>1 DEF IInv, Paths, Pending, Copy, Original
<1>3. Paths'
  BY <1>1, OpType DEF IInv, Paths
<1>4. Locks'
  <2>1. Locked(p)' /\ Made' = Made /\ p # Nothing
    BY <1>1, OpType, MigrationAssumption DEF IInv, Paths, Locked, Commands, Made
  <2>2. \A q \in Process \ {p} : Locked(q)' <=> Locked(q)
    BY <1>1 DEF Locked
  <2>3. ~Locked(p)
    BY <1>1 DEF Locked
  <2>4. \A q \in Process : holder[op[p].tree] # q
    BY <1>1, MigrationAssumption
  <2>. QED
    BY <1>1, <2>1, <2>2, <2>3, <2>4 DEF IInv, Locks
<1>5. TypeOK'
  <2>1. HoldersShow'
    BY <1>1, <1>3, <1>4, HoldersFollowNext DEF HoldersFollow
  <2>2. \A q \in Process : {op'[q].tree, op'[q].backup, op'[q].staged, op'[q].displaced} \subseteq Made' \cup {Nothing}
    BY <1>1, OpType, DiskType DEF IInv, Made
  <2>3. mishaps' \subseteq Mishap
    BY DEF Acquire, IInv, TypeOK, Mishap
  <2>4. \A t \in Made : holder'[t] \in Process \cup {Nothing}
    <3>1. \A t \in Made : holder[t] \in Process \cup {Nothing}
      BY DEF IInv, TypeOK
    <3>. QED
      BY <1>1, <3>1
  <2>. QED
    BY <1>1, <2>1, <2>2, <2>3, <2>4 DEF IInv, TypeOK, Made, HoldersShow
<1>6. Apart'
  BY <1>1, <1>2, OpType DEF IInv, Paths, Apart
<1>7. OwnBackup'
  BY <1>1, OpType DEF IInv, Paths, OwnBackup, Undoable
<1>8. Protected' \/ FirstOnly' \/ Done'
  <2>1. CASE Protected
    BY <1>1, <2>1, OpType, DiskType DEF IInv, Paths, Protected, Undoable
  <2>2. CASE FirstOnly
    BY <1>1, <2>2, OpType, DiskType DEF IInv, Paths, FirstOnly, Migrating, Undoable, Swapping, Owned, Made
  <2>3. CASE Done
    <3>1. \A q \in Process :
            /\ op'[q].command = op[q].command /\ op'[q].backup = op[q].backup
            /\ op'[q].step = op[q].step
               \/ {op[q].step, op'[q].step} \subseteq {"open", "wait", "locked", "land", "release"}
      BY <1>1
    <3>. QED
      BY <1>0, <1>1, <2>3, <3>1, DoneStays DEF IInv
  <2>. QED
    BY <2>1, <2>2, <2>3 DEF IInv
<1>9. UnderLock'
  <2>1. CASE op[p].tree = package /\ "stale lock" \notin mishaps'
    <3>1. "stale lock" \notin mishaps
      BY <1>0, <2>1
    <3>2. ASSUME NEW q \in Process, Locked(q)',
                 op'[q].step \in {"locked", "backup", "stage", "displace", "land"}
          PROVE  op'[q].tree = package'
      <4>1. CASE q = p
        BY <1>1, <2>1, <4>1
      <4>2. CASE q # p
        <5>1. op'[q] = op[q] /\ Locked(q) /\ package' = package
          BY <1>1, <3>2, <4>2 DEF Locked
        <5>. QED
          BY <3>1, <3>2, <5>1 DEF IInv, UnderLock
      <4>. QED
        BY <4>1, <4>2
    <3>3. ASSUME NEW q \in Process, op'[q].command = "migrate",
                 op'[q].step \in {"backup", "stage", "displace"}
          PROVE  content'[package'].layout = "legacy"
      <4>1. op'[q] = op[q] /\ package' = package /\ content' = content
        BY <1>1, <3>3
      <4>. QED
        BY <3>1, <3>3, <4>1 DEF IInv, UnderLock
    <3>4. \A b \in backups' : content'[b].layout # "final"
      BY <1>1, <3>1 DEF IInv, UnderLock
    <3>. QED
      BY <3>2, <3>3, <3>4 DEF UnderLock
  <2>2. CASE op[p].tree # package
    <3>1. "stale lock" \in mishaps'
      BY <2>2 DEF Acquire
    <3>. QED
      BY <3>1 DEF UnderLock
  <2>. QED
    BY <2>1, <2>2 DEF UnderLock
<1>10. AllAccounted'
  <2>1. SUFFICES ASSUME Calm' PROVE AllAccounted'
    BY DEF AllAccounted
  <2>2. Calm /\ ("leftover" \notin mishaps' => "leftover" \notin mishaps)
    BY <1>0, <2>1
  <2>3. \A q \in Process :
          /\ Swapping(q)' <=> Swapping(q)
          /\ op'[q].step = "displace" <=> op[q].step = "displace"
          /\ op'[q].staged = op[q].staged /\ op'[q].displaced = op[q].displaced
          /\ Pending(q)' = Pending(q)
    BY <1>1, <1>2 DEF Swapping
  <2>4. UNCHANGED <<content, package, hidden>>
    BY <1>1
  <2>. QED
    BY <2>2, <2>3, <2>4 DEF IInv, AllAccounted
<1>11. EntriesKept'
  BY <1>0, <1>1 DEF IInv, EntriesKept, Swapping
<1>. QED
  BY <1>3, <1>4, <1>5, <1>6, <1>7, <1>8, <1>9, <1>10, <1>11 DEF IInv

\* The command gives its lock back.
LEMMA ReleaseKeepsIInv ==
    ASSUME IInv, NEW p \in Process, Release(p)
    PROVE  IInv'
<1>1. /\ op' \in [Process -> Operation] /\ \A q \in Process \ {p} : op'[q] = op[q]
      /\ op[p].step = "release" /\ op'[p].step = "idle" /\ op'[p].command = "none"
      /\ op'[p].tree = Nothing /\ op'[p].backup = Nothing /\ op'[p].staged = Nothing
      /\ op'[p].displaced = Nothing
      /\ DOMAIN holder' = Made /\ \A t \in Made : holder'[t] = (IF holder[t] = p THEN Nothing ELSE holder[t])
      /\ UNCHANGED <<content, package, backups, hidden, calls, said, mishaps>>
  <2>1. op' = [op EXCEPT ![p] = Idle] /\ op[p].step = "release"
        /\ UNCHANGED <<content, package, backups, hidden, calls, said, mishaps>>
    BY DEF Release, history
  <2>2. DOMAIN holder = Made
    BY DEF IInv, TypeOK
  <2>3. \A t \in Made : holder[t] = p => op[p].tree = t /\ Locked(p)
    BY DEF IInv, Locks
  <2>4. op[p].tree # Nothing => op[p].tree \in Made /\ holder[op[p].tree] = p
    BY <2>1, OpType DEF IInv, Paths, Locks, Locked, Commands
  <2>5. DOMAIN holder' = Made /\ \A t \in Made : holder'[t] = (IF holder[t] = p THEN Nothing ELSE holder[t])
    BY <2>2, <2>3, <2>4, DiskType DEF IInv, Release
  <2>. QED
    BY <2>1, <2>5, EndEffect DEF IInv
<1>2. \A q \in Process : Copy(q)' = Copy(q) /\ Original(q)' = Original(q) /\ Pending(q)' = Pending(q)
  BY <1>1 DEF IInv, Paths, Pending, Copy, Original
<1>3. Paths'
  BY <1>1, OpType DEF IInv, Paths
<1>4. Locks'
  <2>1. \A q \in Process \ {p} : Locked(q)' <=> Locked(q)
    BY <1>1 DEF Locked
  <2>2. ~Locked(p)'
    BY <1>1 DEF Locked
  <2>3. op'[p].step # "wait"
    BY <1>1
  <2>4. Made' = Made
    BY <1>1 DEF Made
  <2>5. ASSUME NEW q \in Process, NEW t \in Made, holder'[t] = q
        PROVE  q # p /\ holder[t] = q
    <3>1. q # Nothing
      BY MigrationAssumption
    <3>. QED
      BY <1>1, <2>5, <3>1
  <2>. QED
    BY <1>1, <2>1, <2>2, <2>3, <2>4, <2>5 DEF IInv, Locks
<1>5. TypeOK'
  <2>1. HoldersShow'
    BY <1>1, <1>3, <1>4, HoldersFollowNext DEF HoldersFollow
  <2>2. \A q \in Process : {op'[q].tree, op'[q].backup, op'[q].staged, op'[q].displaced} \subseteq Made' \cup {Nothing}
    BY <1>1, OpType, DiskType DEF IInv, Made
  <2>. QED
    BY <1>1, <2>1, <2>2 DEF IInv, TypeOK, Made, HoldersShow
<1>6. Apart'
  BY <1>1, <1>2, OpType DEF IInv, Paths, Apart
<1>7. OwnBackup'
  BY <1>1, OpType DEF IInv, Paths, OwnBackup, Undoable
<1>8. Protected' \/ FirstOnly' \/ Done'
  <2>1. CASE Protected
    BY <1>1, <2>1, OpType, DiskType DEF IInv, Paths, Protected, Undoable
  <2>2. CASE FirstOnly
    BY <1>1, <2>2, OpType, DiskType DEF IInv, Paths, FirstOnly, Migrating, Undoable, Swapping, Owned, Made
  <2>3. CASE Done
    BY <1>1, <2>3, OpType, DiskType DEF IInv, Paths, Done, Owned, Undoable, Made
  <2>. QED
    BY <2>1, <2>2, <2>3 DEF IInv
<1>9. UnderLock'
  BY <1>1 DEF IInv, UnderLock, Locked
<1>10. AllAccounted'
  BY <1>1, <1>2, OpType DEF IInv, Paths, AllAccounted, Calm, Swapping, Made
<1>11. EntriesKept'
  BY <1>1 DEF IInv, EntriesKept, Swapping
<1>. QED
  BY <1>3, <1>4, <1>5, <1>6, <1>7, <1>8, <1>9, <1>10, <1>11 DEF IInv

----------------------------------------------------------------------------
(* The steps that change directories.                                      *)

\* Changing the text of the package changes no layout.
LEMMA EditKeepsIInv ==
    ASSUME IInv, Edit
    PROVE  IInv'
<1>1. /\ package \in Made /\ Made' = Made
      /\ \A t \in Made : /\ content'[t] \in Content
                         /\ content'[t].layout = content[t].layout
                         /\ content'[t].entries = content[t].entries
      /\ UNCHANGED <<package, backups, hidden, holder, op, calls, said, mishaps>>
  <2>1. /\ package \in Made /\ content[package] \in Content
        /\ content' = [content EXCEPT ![package].edited = TRUE]
        /\ UNCHANGED <<package, backups, hidden, holder, op, calls, said, mishaps>>
    BY DiskType DEF IInv, Edit, history
  <2>2. Made' = Made /\ \A t \in Made \ {package} : content'[t] = content[t]
    BY <2>1 DEF Made
  <2>3. content'[package] = [content[package] EXCEPT !.edited = TRUE]
    BY <2>1 DEF Made
  <2>4. /\ content'[package] \in Content
        /\ content'[package].layout = content[package].layout
        /\ content'[package].entries = content[package].entries
    BY <2>1, <2>3 DEF Content
  <2>. QED
    BY <2>1, <2>2, <2>4 DEF IInv, TypeOK
<1>2. TypeOK'
  BY <1>1 DEF IInv, TypeOK
<1>3. Paths' /\ Locks' /\ Apart' /\ OwnBackup'
  BY <1>1, DiskType DEF IInv, Paths, Locks, Locked, Apart, Pending, Copy, Original, OwnBackup, Undoable
<1>4. Protected' \/ FirstOnly' \/ Done'
  <2>1. CASE Protected
    BY <1>1, <2>1, DiskType DEF IInv, Protected, Undoable
  <2>2. CASE FirstOnly
    BY <1>1, <2>2, OpType, DiskType DEF IInv, Apart, FirstOnly, Migrating, Undoable, Swapping, Owned
  <2>3. CASE Done
    BY <1>1, <2>3, OpType, DiskType DEF IInv, Done, Owned, Undoable
  <2>. QED
    BY <2>1, <2>2, <2>3 DEF IInv
<1>5. UnderLock'
  BY <1>1, OpType, DiskType DEF IInv, UnderLock, Locked
<1>6. AllAccounted'
  BY <1>1, OpType DEF IInv, Apart, AllAccounted, Calm, Swapping, Pending, Copy, Original
<1>7. EntriesKept'
  BY <1>1, OpType DEF IInv, Apart, EntriesKept, Swapping
<1>. QED
  BY <1>2, <1>3, <1>4, <1>5, <1>6, <1>7 DEF IInv

\* The path is opened, and made when nothing is there.
LEMMA OpenKeepsIInv ==
    ASSUME IInv, NEW p \in Process, Open(p)
    PROVE  IInv'
<1>1. /\ Made \subseteq Made' /\ Made' \subseteq Tree
      /\ Made' = 1 .. Cardinality(Made') /\ DOMAIN holder' = Made'
      /\ \A t \in Made' : content'[t] \in Content /\ holder'[t] \in Process \cup {Nothing}
      /\ \A t \in Made : content'[t] = content[t] /\ holder'[t] = holder[t]
      /\ \A t \in Made' : t \notin Made =>
            t = package' /\ content'[t].layout = "none" /\ holder'[t] = Nothing
      /\ package' \in Made' /\ package' # Nothing
      /\ package # Nothing => package' = package /\ Made' = Made
      /\ package = Nothing => package' \notin Made
      /\ UNCHANGED <<backups, hidden, calls, said>>
  <2>1. CASE package # Nothing
    BY <2>1, DiskType DEF Open, IInv, TypeOK, Made
  <2>2. CASE package = Nothing
    <3> DEFINE what == [layout |-> "none", edited |-> FALSE, entries |-> {}]
    <3>1. what \in Content /\ what.layout = "none"
      BY DEF Content, Layout
    <3>2. Makes(what) /\ package' = Fresh /\ UNCHANGED <<backups, hidden, calls, said>>
      BY <2>2 DEF Open
    <3> HIDE DEF what
    <3>. QED
      BY <2>2, <3>1, <3>2, MakeEffect DEF IInv
  <2>. QED
    BY <2>1, <2>2
<1>2. /\ mishaps' \subseteq Mishap
      /\ mishaps \subseteq mishaps'
      /\ package = Nothing => "intrusion" \in mishaps'
      /\ "stale lock" \in mishaps' => "stale lock" \in mishaps
  <2>1. CASE package # Nothing
    BY <2>1 DEF Open, IInv, TypeOK, Mishap
  <2>2. CASE package = Nothing
    <3>1. mishaps' = mishaps \cup {"intrusion"} /\ mishaps \subseteq Mishap
      BY <2>2 DEF Open, IInv, TypeOK, Mishap
    <3>. QED
      BY <2>2, <3>1 DEF Mishap
  <2>. QED
    BY <2>1, <2>2
<1>0. /\ Calm' => Calm
      /\ "stale lock" \notin mishaps' => "stale lock" \notin mishaps
      /\ "leftover" \notin mishaps' => "leftover" \notin mishaps
      /\ "interrupt" \notin mishaps' => "interrupt" \notin mishaps
      /\ mishaps' \subseteq {"leftover"} => mishaps \subseteq {"leftover"}
  BY <1>2, FlagsStay
<1>3. /\ op' \in [Process -> Operation] /\ \A q \in Process \ {p} : op'[q] = op[q]
      /\ op[p].step = "open" /\ op'[p].step = "wait"
      /\ op'[p].command = op[p].command /\ op'[p].tree = package'
      /\ op'[p].backup = op[p].backup /\ op'[p].staged = op[p].staged
      /\ op'[p].displaced = op[p].displaced /\ op'[p].entry = op[p].entry
  <2>1. op \in [Process -> Operation] /\ op[p] \in Operation
    BY DEF IInv, TypeOK
  <2>2. [op[p] EXCEPT !.step = "wait", !.tree = package'] \in Operation
    BY <1>1, <2>1 DEF Operation, Steps
  <2>3. op[p].step = "open" /\ op' = [op EXCEPT ![p] = [op[p] EXCEPT !.step = "wait", !.tree = package']]
    BY <2>1 DEF Open
  <2>. QED
    BY <2>1, <2>2, <2>3 DEF Operation
<1>4. \A q \in Process : Copy(q)' = Copy(q) /\ Original(q)' = Original(q) /\ Pending(q)' = Pending(q)
  BY <1>3 DEF Pending, Copy, Original
<1>5. Paths'
  BY <1>3, OpType DEF IInv, Paths
<1>6. Locks'
  <2>1. ~Locked(p)' /\ ~Locked(p) /\ \A q \in Process \ {p} : Locked(q)' <=> Locked(q)
    BY <1>3 DEF Locked
  <2>2. \A q \in Process : Nothing # q
    BY MigrationAssumption
  <2>. QED
    BY <1>1, <1>3, <2>1, <2>2 DEF IInv, Locks
<1>7. TypeOK'
  <2>1. HoldersShow'
    BY <1>3, <1>5, <1>6, HoldersFollowNext DEF HoldersFollow
  <2>2. \A q \in Process : {op'[q].tree, op'[q].backup, op'[q].staged, op'[q].displaced} \subseteq Made' \cup {Nothing}
    BY <1>1, <1>3, OpType DEF IInv
  <2>3. /\ package' \in Made' \cup {Nothing} /\ backups' \subseteq Made' /\ hidden' \subseteq Made'
        /\ calls' \in 0 .. CallCap /\ said' \subseteq 1 .. CallCap
    BY <1>1 DEF IInv, TypeOK
  <2>. QED
    BY <1>1, <1>2, <1>3, <2>1, <2>2, <2>3 DEF TypeOK, HoldersShow
<1>8. Apart'
  BY <1>1, <1>3, <1>4, DiskType DEF IInv, Apart
<1>9. OwnBackup'
  BY <1>1, <1>3, OpType, DiskType DEF IInv, OwnBackup, Undoable
<1>10. Protected' \/ FirstOnly' \/ Done'
  <2>1. CASE Protected
    BY <1>1, <1>3, <2>1, DiskType DEF IInv, Protected, Undoable
  <2>2. CASE FirstOnly
    BY <1>1, <1>3, <2>2, OpType, DiskType DEF IInv, Apart, FirstOnly, Migrating, Undoable, Swapping, Owned
  <2>3. CASE Done
    <3>1. package' = package /\ backups' = backups /\ \A t \in Made : content'[t].layout = content[t].layout
      BY <1>1, <2>3 DEF Done
    <3>2. \A q \in Process :
            /\ op'[q].command = op[q].command /\ op'[q].backup = op[q].backup
            /\ op'[q].step = op[q].step
               \/ {op[q].step, op'[q].step} \subseteq {"open", "wait", "locked", "land", "release"}
      BY <1>3
    <3>. QED
      BY <1>0, <2>3, <3>1, <3>2, DoneStays DEF IInv
  <2>. QED
    BY <2>1, <2>2, <2>3 DEF IInv
<1>11. UnderLock'
  <2> SUFFICES ASSUME "stale lock" \notin mishaps' PROVE UnderLock'
    BY DEF UnderLock
  <2>1. "stale lock" \notin mishaps
    BY <1>2
  <2>2. \A q \in Process : Locked(q)' => Locked(q) /\ op[q].tree \in Made /\ op'[q].tree = op[q].tree
    BY <1>1, <1>3 DEF IInv, Locks, Locked
  <2>3. ASSUME NEW q \in Process, Locked(q)',
               op'[q].step \in {"locked", "backup", "stage", "displace", "land"}
        PROVE  /\ op'[q].tree = package' /\ package' = package /\ package \in Made
               /\ op[q].step = op'[q].step /\ op[q].command = op'[q].command
    BY <1>1, <1>3, <2>1, <2>2, <2>3, DiskType DEF IInv, UnderLock
  <2>4. \A b \in backups' : content'[b].layout # "final"
    <3>1. \A b \in backups : b \in Made /\ content[b].layout # "final"
      BY <2>1, DiskType DEF IInv, UnderLock
    <3>. QED
      BY <1>1, <3>1
  <2>5. \A q \in Process :
          op'[q].command = "migrate" /\ op'[q].step \in {"backup", "stage", "displace"} =>
             Locked(q)' /\ op[q].step = op'[q].step /\ op[q].command = op'[q].command
    BY <1>1, <1>3 DEF Locked
  <2>6. \A q \in Process :
          op'[q].command = "migrate" /\ op'[q].step \in {"backup", "stage", "displace"} =>
             content'[package'].layout = "legacy"
    BY <1>1, <1>3, <2>1, <2>3, <2>5 DEF IInv, UnderLock
  <2>. QED
    BY <2>3, <2>4, <2>6 DEF UnderLock
<1>12. AllAccounted'
  <2> SUFFICES ASSUME Calm' PROVE AllAccounted'
    BY DEF AllAccounted
  <2>1. Calm /\ package # Nothing
    BY <1>2 DEF Calm
  <2>2. package' = package /\ Made' = Made /\ hidden' = hidden
        /\ \A t \in Made : content'[t].layout = content[t].layout
    BY <1>1, <2>1
  <2>3. \A q \in Process : (Swapping(q)' <=> Swapping(q)) /\ Pending(q)' = Pending(q)
    BY <1>3, <1>4 DEF Swapping
  <2>4. "leftover" \notin mishaps' => "leftover" \notin mishaps
    BY <1>2
  <2>5. \A q \in Process :
          /\ op'[q].step = "displace" <=> op[q].step = "displace"
          /\ op'[q].staged = op[q].staged /\ op'[q].displaced = op[q].displaced
          /\ op[q].step = "displace" \/ Swapping(q) => op[q].staged \in Made
          /\ Swapping(q) => op[q].displaced \in Made
    BY <1>3, OpType DEF IInv, Apart, Swapping
  <2>6. package \in Made
    BY <2>1, DiskType DEF IInv
  <2>. QED
    BY <2>1, <2>2, <2>3, <2>4, <2>5, <2>6 DEF IInv, AllAccounted
<1>13. EntriesKept'
  <2>1. SUFFICES ASSUME mishaps' \subseteq {"leftover"} PROVE EntriesKept'
    BY DEF EntriesKept
  <2>2. package # Nothing
    BY <1>2, <2>1
  <2>3. mishaps \subseteq {"leftover"}
    BY <1>0, <2>1
  <2>. QED
    BY <1>1, <1>3, <2>2, <2>3, OpType, DiskType DEF IInv, Apart, EntriesKept, Swapping
<1>. QED
  BY <1>5, <1>6, <1>7, <1>8, <1>9, <1>10, <1>11, <1>12, <1>13 DEF IInv

\* A write lands at the path, and makes it when nothing is there.
LEMMA LandsKeepsIInv ==
    ASSUME IInv, NEW p \in Process, Lands(p)
    PROVE  IInv'
<1> DEFINE entries == op[p].seen \cup {op[p].entry}
<1>1. /\ op[p].step = "land" /\ op[p].command = "write" /\ Locked(p)
      /\ op[p].entry \in 1 .. CallCap /\ op[p].seen \in SUBSET (1 .. CallCap)
  <2>1. op[p].step = "land" /\ op[p].command = "write" /\ op[p].entry # 0
    BY OpType DEF Lands, IInv, Paths, Commands
  <2>2. op[p].entry \in 0 .. CallCap /\ op[p].seen \in SUBSET (1 .. CallCap) /\ CallCap \in Nat
    BY OpType, MigrationAssumption DEF IInv
  <2>. QED
    BY <2>1, <2>2 DEF Locked
<1>2. entries \in SUBSET (1 .. CallCap) /\ op[p].seen \subseteq entries /\ op[p].entry \in entries
  BY <1>1
<1>3. /\ said' = said \cup {op[p].entry} /\ said' \subseteq 1 .. CallCap
      /\ UNCHANGED <<backups, hidden, calls>>
  BY <1>1 DEF Lands, IInv, TypeOK
<1>4. /\ op' \in [Process -> Operation] /\ \A q \in Process \ {p} : op'[q] = op[q]
      /\ op'[p].step = "release"
      /\ op'[p].command = op[p].command /\ op'[p].tree = op[p].tree
      /\ op'[p].backup = op[p].backup /\ op'[p].staged = op[p].staged
      /\ op'[p].displaced = op[p].displaced /\ op'[p].entry = op[p].entry
  <2>1. "release" \in Steps /\ Goes(p, "release")
    BY DEF Steps, Lands
  <2>. QED
    BY <2>1, GoEffect DEF IInv
<1>5. /\ Made \subseteq Made' /\ Made' \subseteq Tree
      /\ Made' = 1 .. Cardinality(Made') /\ DOMAIN holder' = Made'
      /\ \A t \in Made' : content'[t] \in Content /\ holder'[t] \in Process \cup {Nothing}
      /\ \A t \in Made : content'[t].layout = content[t].layout /\ holder'[t] = holder[t]
      /\ \A t \in Made : t # package => content'[t] = content[t]
      /\ \A t \in Made' : t \notin Made =>
            t = package' /\ content'[t].layout = "none" /\ holder'[t] = Nothing
      /\ package' \in Made' /\ package' # Nothing
      /\ package # Nothing => package' = package /\ Made' = Made /\ content'[package].entries = entries
      /\ package = Nothing => package' \notin Made
  <2>1. CASE package # Nothing
    <3>1. /\ content' = [content EXCEPT ![package].entries = entries]
          /\ package \in Made /\ content[package] \in Content
          /\ UNCHANGED <<package, holder>>
      BY <2>1, DiskType DEF Lands, IInv
    <3>2. Made' = Made /\ \A t \in Made \ {package} : content'[t] = content[t]
      BY <3>1 DEF Made
    <3>3. content'[package] = [content[package] EXCEPT !.entries = entries]
      BY <3>1 DEF Made
    <3>4. /\ content'[package] \in Content
          /\ content'[package].layout = content[package].layout
          /\ content'[package].entries = entries
      BY <1>2, <3>1, <3>3 DEF Content
    <3>. QED
      BY <2>1, <3>1, <3>2, <3>4 DEF IInv, TypeOK
  <2>2. CASE package = Nothing
    <3> DEFINE what == [layout |-> "none", edited |-> FALSE, entries |-> entries]
    <3>1. what \in Content /\ what.layout = "none"
      BY <1>2 DEF Content, Layout
    <3>2. Makes(what) /\ package' = Fresh
      BY <2>2 DEF Lands
    <3> HIDE DEF what
    <3>. QED
      BY <2>2, <3>1, <3>2, MakeEffect, DiskType DEF IInv
  <2>. QED
    BY <2>1, <2>2
<1>6. /\ mishaps' \subseteq Mishap
      /\ mishaps \subseteq mishaps'
      /\ package = Nothing => "intrusion" \in mishaps'
      /\ "stale lock" \in mishaps' => "stale lock" \in mishaps
  <2>1. CASE package # Nothing
    BY <2>1 DEF Lands, IInv, TypeOK, Mishap
  <2>2. CASE package = Nothing
    <3>1. mishaps' = mishaps \cup {"intrusion"} /\ mishaps \subseteq Mishap
      BY <2>2 DEF Lands, IInv, TypeOK, Mishap
    <3>. QED
      BY <2>2, <3>1 DEF Mishap
  <2>. QED
    BY <2>1, <2>2
<1> HIDE DEF entries
<1>0. /\ Calm' => Calm
      /\ "stale lock" \notin mishaps' => "stale lock" \notin mishaps
      /\ "leftover" \notin mishaps' => "leftover" \notin mishaps
      /\ "interrupt" \notin mishaps' => "interrupt" \notin mishaps
      /\ mishaps' \subseteq {"leftover"} => mishaps \subseteq {"leftover"}
  BY <1>6, FlagsStay
<1>7. \A q \in Process : Copy(q)' = Copy(q) /\ Original(q)' = Original(q) /\ Pending(q)' = Pending(q)
  BY <1>1, <1>4 DEF Pending, Copy, Original
<1>8. Paths'
  BY <1>1, <1>4, OpType DEF IInv, Paths
<1>9. Locks'
  <2>1. \A q \in Process : Locked(q)' <=> Locked(q)
    BY <1>1, <1>4 DEF Locked
  <2>2. \A q \in Process : Nothing # q
    BY MigrationAssumption
  <2>. QED
    BY <1>1, <1>4, <1>5, <2>1, <2>2 DEF IInv, Locks
<1>10. TypeOK'
  <2>1. HoldersShow'
    BY <1>4, <1>8, <1>9, HoldersFollowNext DEF HoldersFollow
  <2>2. \A q \in Process : {op'[q].tree, op'[q].backup, op'[q].staged, op'[q].displaced} \subseteq Made' \cup {Nothing}
    BY <1>4, <1>5, OpType DEF IInv
  <2>. QED
    BY <1>3, <1>4, <1>5, <1>6, <2>1, <2>2 DEF IInv, TypeOK, HoldersShow
<1>11. Apart'
  BY <1>1, <1>3, <1>4, <1>5, <1>7, DiskType DEF IInv, Apart
<1>12. OwnBackup'
  BY <1>1, <1>3, <1>4, <1>5, OpType, DiskType DEF IInv, OwnBackup, Undoable
<1>13. Protected' \/ FirstOnly' \/ Done'
  <2>1. CASE Protected
    BY <1>1, <1>3, <1>4, <1>5, <2>1, DiskType DEF IInv, Protected, Undoable
  <2>2. CASE FirstOnly
    BY <1>1, <1>3, <1>4, <1>5, <2>2, OpType, DiskType
    DEF IInv, Apart, FirstOnly, Migrating, Undoable, Swapping, Owned
  <2>3. CASE Done
    <3>1. package' = package /\ backups' = backups /\ \A t \in Made : content'[t].layout = content[t].layout
      BY <1>3, <1>5, <2>3 DEF Done
    <3>2. \A q \in Process :
            /\ op'[q].command = op[q].command /\ op'[q].backup = op[q].backup
            /\ op'[q].step = op[q].step
               \/ {op[q].step, op'[q].step} \subseteq {"open", "wait", "locked", "land", "release"}
      BY <1>1, <1>4
    <3>. QED
      BY <1>0, <2>3, <3>1, <3>2, DoneStays DEF IInv
  <2>. QED
    BY <2>1, <2>2, <2>3 DEF IInv
<1>14. UnderLock'
  <2> SUFFICES ASSUME "stale lock" \notin mishaps' PROVE UnderLock'
    BY DEF UnderLock
  <2>1. "stale lock" \notin mishaps
    BY <1>6
  <2>2. \A q \in Process : Locked(q)' => Locked(q) /\ op[q].tree \in Made /\ op'[q].tree = op[q].tree
    BY <1>1, <1>3, <1>4, <1>5 DEF IInv, Locks, Locked
  <2>3. ASSUME NEW q \in Process, Locked(q)',
               op'[q].step \in {"locked", "backup", "stage", "displace", "land"}
        PROVE  /\ op'[q].tree = package' /\ package' = package /\ package \in Made
               /\ op[q].step = op'[q].step /\ op[q].command = op'[q].command
    BY <1>1, <1>3, <1>4, <1>5, <2>1, <2>2, <2>3, DiskType DEF IInv, UnderLock
  <2>4. \A b \in backups' : content'[b].layout # "final"
    <3>1. \A b \in backups : b \in Made /\ content[b].layout # "final"
      BY <2>1, DiskType DEF IInv, UnderLock
    <3>. QED
      BY <1>3, <1>5, <3>1
  <2>5. \A q \in Process :
          op'[q].command = "migrate" /\ op'[q].step \in {"backup", "stage", "displace"} =>
             Locked(q)' /\ op[q].step = op'[q].step /\ op[q].command = op'[q].command
    BY <1>1, <1>3, <1>4, <1>5 DEF Locked
  <2>6. \A q \in Process :
          op'[q].command = "migrate" /\ op'[q].step \in {"backup", "stage", "displace"} =>
             content'[package'].layout = "legacy"
    BY <1>1, <1>3, <1>4, <1>5, <2>1, <2>3, <2>5 DEF IInv, UnderLock
  <2>. QED
    BY <2>3, <2>4, <2>6 DEF UnderLock
<1>15. AllAccounted'
  <2> SUFFICES ASSUME Calm' PROVE AllAccounted'
    BY DEF AllAccounted
  <2>1. Calm /\ package # Nothing
    BY <1>6 DEF Calm
  <2>2. package' = package /\ Made' = Made /\ hidden' = hidden
        /\ \A t \in Made : content'[t].layout = content[t].layout
    BY <1>3, <1>5, <2>1
  <2>3. \A q \in Process : (Swapping(q)' <=> Swapping(q)) /\ Pending(q)' = Pending(q)
    BY <1>1, <1>4, <1>7 DEF Swapping
  <2>4. "leftover" \notin mishaps' => "leftover" \notin mishaps
    BY <1>6
  <2>5. \A q \in Process :
          /\ op'[q].step = "displace" <=> op[q].step = "displace"
          /\ op'[q].staged = op[q].staged /\ op'[q].displaced = op[q].displaced
          /\ op[q].step = "displace" \/ Swapping(q) => op[q].staged \in Made
          /\ Swapping(q) => op[q].displaced \in Made
    BY <1>1, <1>4, OpType DEF IInv, Apart, Swapping
  <2>6. package \in Made
    BY <2>1, DiskType DEF IInv
  <2>. QED
    BY <2>1, <2>2, <2>3, <2>4, <2>5, <2>6 DEF IInv, AllAccounted
<1>16. EntriesKept'
  <2> SUFFICES ASSUME mishaps' \subseteq {"leftover"} PROVE EntriesKept'
    BY DEF EntriesKept
  <2>1. mishaps \subseteq {"leftover"} /\ package # Nothing
    BY <1>6
  <2>0. Calm /\ "stale lock" \notin mishaps
    BY <2>1, OnlyLeftover
  <2>2. op[p].tree = package /\ holder[package] = p /\ package \in Made
    <3>1. op[p].tree = package
      BY <1>1, <2>0 DEF IInv, UnderLock
    <3>. QED
      BY <1>1, <3>1 DEF IInv, Locks
  <2>3. said' \subseteq entries
    BY <1>1, <1>2, <1>3, <2>1 DEF IInv, EntriesKept, entries
  <2>4. \A q \in Process : ~Swapping(q)
    BY <2>0, <2>1 DEF IInv, AllAccounted
  <2>5. \A q \in Process :
          op[q].command = "migrate" => op[q].step # "displace"
    <3>1. ASSUME NEW q \in Process, op[q].command = "migrate", op[q].step = "displace" PROVE FALSE
      <4>1. Locked(q)
        BY <3>1 DEF Locked
      <4>2. op[q].tree = package
        BY <2>0, <3>1, <4>1 DEF IInv, UnderLock
      <4>3. holder[package] = q
        BY <4>1, <4>2 DEF IInv, Locks
      <4>. QED
        BY <1>1, <2>2, <3>1, <4>3
    <3>. QED
      BY <3>1
  <2>6. \A q \in Process : q # p => op[q].step # "land"
    <3>1. ASSUME NEW q \in Process, op[q].step = "land" PROVE q = p
      <4>1. Locked(q)
        BY <3>1, OpType DEF Locked, IInv, Paths, Commands
      <4>2. op[q].tree = package
        BY <2>0, <3>1, <4>1 DEF IInv, UnderLock
      <4>. QED
        BY <2>2, <4>1, <4>2 DEF IInv, Locks
    <3>. QED
      BY <3>1
  <2>. QED
    BY <1>1, <1>4, <1>5, <2>1, <2>3, <2>4, <2>5, <2>6 DEF EntriesKept, Swapping
<1>. QED
  BY <1>8, <1>9, <1>10, <1>11, <1>12, <1>13, <1>14, <1>15, <1>16 DEF IInv

\* The backup is a copy of the package as it is by then.
LEMMA BackupKeepsIInv ==
    ASSUME IInv, NEW p \in Process, Backup(p)
    PROVE  IInv'
<1> DEFINE what == content[package]
           new == Fresh
<1>1. /\ op[p].step = "backup" /\ op[p].command = "migrate" /\ package \in Made
      /\ Makes(what) /\ what \in Content
      /\ what.layout = content[package].layout
      /\ backups' = backups \cup {new}
      /\ UNCHANGED <<package, hidden, calls, said, mishaps>>
  BY OpType, DiskType DEF Backup, history, IInv, Paths, Commands
<1>2. /\ new \in Tree /\ new \notin Made /\ new # Nothing
      /\ Made' = Made \cup {new} /\ Made' \subseteq Tree
      /\ Made' = 1 .. Cardinality(Made') /\ DOMAIN holder' = Made'
      /\ content'[new] = what /\ holder'[new] = Nothing
      /\ \A t \in Made : content'[t] = content[t] /\ holder'[t] = holder[t]
      /\ \A t \in Made' : content'[t] \in Content /\ holder'[t] \in Process \cup {Nothing}
  <2> HIDE DEF what
  <2>. QED
    BY <1>1, MakeEffect DEF IInv
<1>3. /\ op' \in [Process -> Operation] /\ \A q \in Process \ {p} : op'[q] = op[q]
      /\ op'[p].command = op[p].command /\ op'[p].tree = op[p].tree
      /\ op'[p].displaced = op[p].displaced /\ op'[p].entry = op[p].entry
      /\ op'[p].staged = op[p].staged /\ op'[p].step = "stage" /\ op'[p].backup = new
  <2>1. op \in [Process -> Operation] /\ op[p] \in Operation
    BY DEF IInv, TypeOK
  <2>2. [op[p] EXCEPT !.step = "stage", !.backup = new] \in Operation
    BY <1>2, <2>1 DEF Operation, Steps
  <2>3. op' = [op EXCEPT ![p] = [op[p] EXCEPT !.step = "stage", !.backup = new]]
    BY <1>1, <2>1 DEF Backup
  <2>. QED
    BY <2>1, <2>2, <2>3 DEF Operation
<1> HIDE DEF new, what
<1>4. /\ package \in Made \cup {Nothing} /\ Nothing \notin Made /\ backups \subseteq Made /\ hidden \subseteq Made
      /\ \A q \in Process : {op[q].tree, op[q].backup, op[q].staged, op[q].displaced} \subseteq Made \cup {Nothing}
      /\ \A q \in Process : op[q].tree # new /\ op[q].backup # new /\ op[q].staged # new /\ op[q].displaced # new
  BY <1>2, DiskType, OpType DEF IInv
<1>5. \A q \in Process : Copy(q)' = Copy(q) /\ Original(q)' = Original(q) /\ Pending(q)' = Pending(q)
  BY <1>1, <1>2, <1>3, <1>4 DEF IInv, Paths, Pending, Copy, Original
<1>6. Paths'
  BY <1>1, <1>2, <1>3, OpType DEF IInv, Paths
<1>7. Locks'
  <2>1. \A q \in Process : Locked(q)' <=> Locked(q)
    BY <1>1, <1>3 DEF Locked
  <2>2. \A q \in Process : Nothing # q
    BY MigrationAssumption
  <2>. QED
    BY <1>1, <1>2, <1>3, <1>4, <2>1, <2>2 DEF IInv, Locks
<1>8. TypeOK'
  <2>1. HoldersShow'
    BY <1>3, <1>6, <1>7, HoldersFollowNext DEF HoldersFollow
  <2>2. \A q \in Process : {op'[q].tree, op'[q].backup, op'[q].staged, op'[q].displaced} \subseteq Made' \cup {Nothing}
    BY <1>2, <1>3, OpType DEF IInv
  <2>3. /\ package' \in Made' \cup {Nothing} /\ backups' \subseteq Made' /\ hidden' \subseteq Made'
    BY <1>1, <1>2, <1>4
  <2>4. /\ calls' \in 0 .. CallCap /\ said' \subseteq 1 .. CallCap
        /\ mishaps' \subseteq Mishap
    BY <1>1 DEF IInv, TypeOK
  <2>. QED
    BY <1>2, <1>3, <2>1, <2>2, <2>3, <2>4 DEF TypeOK, HoldersShow
<1>9. Apart'
  BY <1>1, <1>2, <1>3, <1>4, <1>5 DEF IInv, Apart
<1>10. OwnBackup'
  BY <1>1, <1>2, <1>3, <1>4 DEF IInv, OwnBackup, Undoable
<1>11. Protected' \/ FirstOnly' \/ Done'
  <2>1. CASE Protected
    BY <1>1, <1>2, <1>3, <1>4, <2>1 DEF IInv, Protected, Undoable
  <2>2. CASE FirstOnly
    <3>1. 1 \in Made /\ 1 # new /\ content'[1].layout = "legacy" /\ package = 1
      BY <1>1, <1>2, <2>2 DEF FirstOnly
    <3>2. content'[new].layout = "legacy"
      BY <1>1, <1>2, <2>2, <3>1 DEF FirstOnly
    <3>3. \A b \in backups' : Owned(b)'
      BY <1>1, <1>2, <1>3, <1>4, <2>2 DEF FirstOnly, Owned, Undoable
    <3>4. ASSUME NEW q \in Process, Undoable(q)', op'[q].backup # Nothing
          PROVE  content'[op'[q].backup].layout = "legacy"
      BY <1>1, <1>2, <1>3, <1>4, <2>2, <3>2, <3>4 DEF FirstOnly, Undoable
    <3>5. \A q \in Process :
          /\ op'[q].command # "rollback" /\ op'[q].step # "sweep"
          /\ Migrating(q)' => op'[q].tree = 1
          /\ Swapping(q)' => op'[q].displaced = 1
          /\ op'[q].step = "displace" \/ Swapping(q)' => content'[op'[q].staged].layout = "final"
          /\ op'[q].staged # 1
          /\ op'[q].tree \notin {1, Nothing} => package' \notin {1, Nothing}
      BY <1>1, <1>2, <1>3, <1>4, <2>2 DEF IInv, Apart, FirstOnly, Migrating, Undoable, Swapping
    <3>. QED
      BY <1>1, <1>2, <3>1, <3>3, <3>4, <3>5 DEF FirstOnly
  <2>3. ~Done
    BY <1>1 DEF Done
  <2>. QED
    BY <2>1, <2>2, <2>3 DEF IInv
<1>12. UnderLock'
  <2> SUFFICES ASSUME "stale lock" \notin mishaps PROVE UnderLock'
    BY <1>1 DEF UnderLock
  <2>1. \A b \in backups : content'[b].layout # "final"
    BY <1>2, <1>4 DEF IInv, UnderLock
  <2>2. ASSUME NEW q \in Process, Locked(q)',
               op'[q].step \in {"locked", "backup", "stage", "displace", "land"}
        PROVE  /\ Locked(q) /\ op[q].step \in {"locked", "backup", "stage", "displace", "land"}
               /\ op[q].tree = package /\ op'[q].tree = package'
    BY <1>1, <1>3, <2>2 DEF IInv, UnderLock, Locked
  <2>3. ASSUME NEW q \in Process, op'[q].command = "migrate",
               op'[q].step \in {"backup", "stage", "displace"}
        PROVE  content[package].layout = "legacy" /\ package \in Made
    <3>1. /\ op[q].command = "migrate" /\ op[q].step \in {"backup", "stage", "displace"}
          /\ Locked(q)
      BY <1>1, <1>3, <2>3 DEF Locked
    <3>2. content[package].layout = "legacy" /\ op[q].tree = package
      BY <3>1 DEF IInv, UnderLock
    <3>. QED
      BY <3>1, <3>2 DEF IInv, Locks
  <2>4. content'[new].layout # "final"
    <3>1. content[package].layout = "legacy"
      BY <1>1 DEF IInv, UnderLock
    <3>. QED
      BY <1>1, <1>2, <3>1
  <2>. QED
    BY <1>1, <1>2, <2>1, <2>2, <2>3, <2>4 DEF UnderLock
<1>13. AllAccounted'
  BY <1>1, <1>2, <1>3, <1>4, <1>5 DEF IInv, Apart, AllAccounted, Calm, Swapping
<1>14. EntriesKept'
  <2>1. package # Nothing => content'[package] = content[package]
    BY <1>2, <1>4
  <2>2. \A q \in Process : Swapping(q) =>
           op[q].displaced \in Made /\ content'[op[q].displaced] = content[op[q].displaced]
    BY <1>2, <1>4 DEF IInv, Apart, Swapping
  <2>3. \A q \in Process : op[q].step \in {"displace", "swap"} =>
           op[q].staged \in Made /\ content'[op[q].staged] = content[op[q].staged]
    BY <1>2, <1>4 DEF IInv, Apart
  <2>. QED
    BY <1>1, <1>2, <1>3, <2>1, <2>2, <2>3 DEF IInv, EntriesKept, Swapping
<1>. QED
  BY <1>6, <1>7, <1>8, <1>9, <1>10, <1>11, <1>12, <1>13, <1>14 DEF IInv

\* The copy that will be swapped in: the final layout, or what the backup holds.
LEMMA StageKeepsIInv ==
    ASSUME IInv, NEW p \in Process, Stage(p)
    PROVE  IInv'
<1> DEFINE what == IF op[p].command = "rollback" THEN content[op[p].backup]
                   ELSE [content[package] EXCEPT !.layout = "final", !.edited = FALSE]
           new == Fresh
<1>1. /\ op[p].step = "stage" /\ op[p].command \in {"migrate", "rollback"}
      /\ op[p].command = "rollback" =>
            op[p].backup \in backups /\ what.layout = content[op[p].backup].layout
      /\ op[p].command = "migrate" =>
            package \in Made /\ what.layout = "final" /\ what.entries = content[package].entries
      /\ Makes(what) /\ what \in Content
      /\ hidden' = hidden \cup {new}
      /\ UNCHANGED <<package, backups, calls, said, mishaps>>
  <2>1. /\ op[p].step = "stage" /\ op[p].command \in {"migrate", "rollback"}
        /\ op[p].command = "rollback" => op[p].backup \in backups
        /\ op[p].command # "rollback" => package # Nothing
        /\ hidden' = hidden \cup {new} /\ Makes(what)
        /\ UNCHANGED <<package, backups, calls, said, mishaps>>
    BY OpType DEF Stage, history, IInv, Paths, Commands
  <2>2. CASE op[p].command = "rollback"
    BY <2>1, <2>2, DiskType DEF IInv
  <2>3. CASE op[p].command = "migrate"
    <3>1. content[package] \in Content /\ package \in Made
      BY <2>1, <2>3, DiskType DEF IInv
    <3>2. /\ what = [content[package] EXCEPT !.layout = "final", !.edited = FALSE]
          /\ what \in Content /\ what.layout = "final" /\ what.entries = content[package].entries
      BY <2>3, <3>1 DEF Content, Layout
    <3>. QED
      BY <2>1, <2>3, <3>1, <3>2
  <2>. QED
    BY <2>1, <2>2, <2>3
<1>2. /\ new \in Tree /\ new \notin Made /\ new # Nothing
      /\ Made' = Made \cup {new} /\ Made' \subseteq Tree
      /\ Made' = 1 .. Cardinality(Made') /\ DOMAIN holder' = Made'
      /\ content'[new] = what /\ holder'[new] = Nothing
      /\ \A t \in Made : content'[t] = content[t] /\ holder'[t] = holder[t]
      /\ \A t \in Made' : content'[t] \in Content /\ holder'[t] \in Process \cup {Nothing}
  <2> HIDE DEF what
  <2>. QED
    BY <1>1, MakeEffect DEF IInv
<1>3. /\ op' \in [Process -> Operation] /\ \A q \in Process \ {p} : op'[q] = op[q]
      /\ op'[p].command = op[p].command /\ op'[p].tree = op[p].tree
      /\ op'[p].displaced = op[p].displaced /\ op'[p].entry = op[p].entry
      /\ op'[p].backup = op[p].backup /\ op'[p].step = "displace" /\ op'[p].staged = new
  <2>1. op \in [Process -> Operation] /\ op[p] \in Operation
    BY DEF IInv, TypeOK
  <2>2. [op[p] EXCEPT !.step = "displace", !.staged = new] \in Operation
    BY <1>2, <2>1 DEF Operation, Steps
  <2>3. op' = [op EXCEPT ![p] = [op[p] EXCEPT !.step = "displace", !.staged = new]]
    BY <1>1, <2>1 DEF Stage
  <2>. QED
    BY <2>1, <2>2, <2>3 DEF Operation
<1> HIDE DEF new, what
<1>4. /\ package \in Made \cup {Nothing} /\ Nothing \notin Made /\ backups \subseteq Made /\ hidden \subseteq Made
      /\ \A q \in Process : {op[q].tree, op[q].backup, op[q].staged, op[q].displaced} \subseteq Made \cup {Nothing}
      /\ \A q \in Process : op[q].tree # new /\ op[q].backup # new /\ op[q].staged # new /\ op[q].displaced # new
  BY <1>2, DiskType, OpType DEF IInv
<1>5. /\ \A q \in Process \ {p} : Copy(q)' = Copy(q) /\ Original(q)' = Original(q) /\ Pending(q)' = Pending(q)
      /\ Copy(p)' = {new} /\ Original(p)' = {} /\ Pending(p)' = {new} /\ Pending(p) = {}
  <2>1. \A q \in Process \ {p} : Copy(q)' = Copy(q) /\ Original(q)' = Original(q) /\ Pending(q)' = Pending(q)
    BY <1>3 DEF Pending, Copy, Original
  <2>2. Copy(p)' = {new}
    BY <1>2, <1>3 DEF Copy
  <2>3. Original(p)' = {}
    BY <1>3 DEF Original
  <2>4. Pending(p) = {}
    BY <1>1 DEF Pending, Copy, Original
  <2>5. Pending(p)' = {new}
    BY <2>2, <2>3 DEF Pending
  <2>. QED
    BY <2>1, <2>2, <2>3, <2>4, <2>5
<1>6. Paths'
  BY <1>1, <1>2, <1>3, OpType DEF IInv, Paths
<1>7. Locks'
  <2>1. \A q \in Process : Locked(q)' <=> Locked(q)
    BY <1>1, <1>3 DEF Locked
  <2>2. \A q \in Process : Nothing # q
    BY MigrationAssumption
  <2>. QED
    BY <1>1, <1>2, <1>3, <1>4, <2>1, <2>2 DEF IInv, Locks
<1>8. TypeOK'
  <2>1. HoldersShow'
    BY <1>3, <1>6, <1>7, HoldersFollowNext DEF HoldersFollow
  <2>2. \A q \in Process : {op'[q].tree, op'[q].backup, op'[q].staged, op'[q].displaced} \subseteq Made' \cup {Nothing}
    BY <1>2, <1>3, OpType DEF IInv
  <2>3. /\ package' \in Made' \cup {Nothing} /\ backups' \subseteq Made' /\ hidden' \subseteq Made'
    BY <1>1, <1>2, <1>4
  <2>4. /\ calls' \in 0 .. CallCap /\ said' \subseteq 1 .. CallCap
        /\ mishaps' \subseteq Mishap
    BY <1>1 DEF IInv, TypeOK
  <2>. QED
    BY <1>2, <1>3, <2>1, <2>2, <2>3, <2>4 DEF TypeOK, HoldersShow
<1>9. Apart'
  BY <1>1, <1>2, <1>3, <1>4, <1>5 DEF IInv, Apart
<1>10. OwnBackup'
  BY <1>1, <1>2, <1>3, <1>4 DEF IInv, OwnBackup, Undoable
<1>11. Protected' \/ FirstOnly' \/ Done'
  <2>1. CASE Protected
    BY <1>1, <1>2, <1>3, <1>4, <2>1 DEF IInv, Protected, Undoable
  <2>2. CASE FirstOnly
    <3>1. 1 \in Made /\ 1 # new /\ content'[1].layout = "legacy" /\ package = 1
      BY <1>1, <1>2, <2>2 DEF FirstOnly
    <3>2. op[p].command = "migrate"
      BY <1>1, <2>2 DEF FirstOnly
    <3>3. \A b \in backups' : Owned(b)'
      BY <1>1, <1>2, <1>3, <1>4, <2>2 DEF FirstOnly, Owned, Undoable
    <3>4. ASSUME NEW q \in Process, Undoable(q)', op'[q].backup # Nothing
          PROVE  content'[op'[q].backup].layout = "legacy"
      <4>1. Undoable(q) /\ op[q].backup = op'[q].backup /\ op[q].backup \in Made
        BY <1>1, <1>3, <1>4, <3>2, <3>4 DEF Undoable
      <4>. QED
        BY <1>2, <2>2, <3>4, <4>1 DEF FirstOnly
    <3>5. \A q \in Process :
          /\ op'[q].command # "rollback" /\ op'[q].step # "sweep"
          /\ Migrating(q)' => op'[q].tree = 1
          /\ Swapping(q)' => op'[q].displaced = 1
          /\ op'[q].step = "displace" \/ Swapping(q)' => content'[op'[q].staged].layout = "final"
          /\ op'[q].staged # 1
          /\ op'[q].tree \notin {1, Nothing} => package' \notin {1, Nothing}
      BY <1>1, <1>2, <1>3, <1>4, <2>2, <3>1, <3>2 DEF IInv, Apart, FirstOnly, Migrating, Undoable, Swapping
    <3>. QED
      BY <1>1, <1>2, <3>1, <3>3, <3>4, <3>5 DEF FirstOnly
  <2>3. ~Done
    BY <1>1 DEF Done
  <2>. QED
    BY <2>1, <2>2, <2>3 DEF IInv
<1>12. UnderLock'
  <2> SUFFICES ASSUME "stale lock" \notin mishaps PROVE UnderLock'
    BY <1>1 DEF UnderLock
  <2>1. \A b \in backups : content'[b].layout # "final"
    BY <1>2, <1>4 DEF IInv, UnderLock
  <2>2. ASSUME NEW q \in Process, Locked(q)',
               op'[q].step \in {"locked", "backup", "stage", "displace", "land"}
        PROVE  /\ Locked(q) /\ op[q].step \in {"locked", "backup", "stage", "displace", "land"}
               /\ op[q].tree = package /\ op'[q].tree = package'
    BY <1>1, <1>3, <2>2 DEF IInv, UnderLock, Locked
  <2>3. ASSUME NEW q \in Process, op'[q].command = "migrate",
               op'[q].step \in {"backup", "stage", "displace"}
        PROVE  content[package].layout = "legacy" /\ package \in Made
    <3>1. /\ op[q].command = "migrate" /\ op[q].step \in {"backup", "stage", "displace"}
          /\ Locked(q)
      BY <1>1, <1>3, <2>3 DEF Locked
    <3>2. content[package].layout = "legacy" /\ op[q].tree = package
      BY <3>1 DEF IInv, UnderLock
    <3>. QED
      BY <3>1, <3>2 DEF IInv, Locks
  <2>. QED
    BY <1>1, <1>2, <2>1, <2>2, <2>3 DEF UnderLock
<1>13. AllAccounted'
  <2> SUFFICES ASSUME Calm PROVE AllAccounted'
    BY <1>1 DEF AllAccounted, Calm
  <2>1. content'[new].layout # "none"
    BY <1>1, <1>2, <1>4 DEF IInv, OwnBackup
  <2>2. "leftover" \notin mishaps => \A t \in hidden' : \E q \in Process : t \in Pending(q)'
    BY <1>1, <1>5 DEF IInv, AllAccounted
  <2>3. \A q \in Process : Swapping(q)' <=> Swapping(q)
    BY <1>1, <1>3 DEF Swapping
  <2>. QED
    BY <1>1, <1>2, <1>3, <1>4, <2>1, <2>2, <2>3 DEF IInv, Apart, AllAccounted, Swapping
<1>14. EntriesKept'
  <2>1. package # Nothing => content'[package] = content[package]
    BY <1>2, <1>4
  <2>2. \A q \in Process : Swapping(q) =>
           op[q].displaced \in Made /\ content'[op[q].displaced] = content[op[q].displaced]
    BY <1>2, <1>4 DEF IInv, Apart, Swapping
  <2>3. \A q \in Process : op[q].step \in {"displace", "swap"} =>
           op[q].staged \in Made /\ content'[op[q].staged] = content[op[q].staged]
    BY <1>2, <1>4 DEF IInv, Apart
  <2> SUFFICES ASSUME mishaps \subseteq {"leftover"} PROVE EntriesKept'
    BY <1>1 DEF EntriesKept
  <2>4. op'[p].command = "migrate" => said \subseteq content'[new].entries
    BY <1>1, <1>2, <1>3, <1>4 DEF IInv, EntriesKept
  <2>5. ASSUME NEW q \in Process \ {p}
        PROVE  /\ Swapping(q)' => said' \subseteq content'[op'[q].displaced].entries
               /\ op'[q].command = "migrate" /\ op'[q].step \in {"displace", "swap"} =>
                     said' \subseteq content'[op'[q].staged].entries
               /\ op'[q].step = "land" => said' \subseteq op'[q].seen
    BY <1>1, <1>3, <2>2, <2>3 DEF IInv, EntriesKept, Swapping
  <2>6. package' # Nothing => said' \subseteq content'[package'].entries
    BY <1>1, <2>1 DEF IInv, EntriesKept
  <2>7. ~Swapping(p)' /\ op'[p].step = "displace" /\ op'[p].staged = new
    BY <1>3 DEF Swapping
  <2>. QED
    BY <1>1, <2>4, <2>5, <2>6, <2>7 DEF EntriesKept
<1>. QED
  BY <1>6, <1>7, <1>8, <1>9, <1>10, <1>11, <1>12, <1>13, <1>14 DEF IInv

\* The package goes into hiding; the copy is not there yet.
LEMMA DisplaceKeepsIInv ==
    ASSUME IInv, NEW p \in Process, Displace(p)
    PROVE  IInv'
<1>0. /\ mishaps \subseteq mishaps' /\ mishaps' \subseteq Mishap
      /\ mishaps' \subseteq mishaps \cup {"stale lock"}
  <2>1. mishaps \subseteq Mishap
    BY DEF IInv, TypeOK
  <2>2. CASE holder[package] \in {p, Nothing}
    BY <2>1, <2>2 DEF Displace
  <2>3. CASE holder[package] \notin {p, Nothing}
    <3>1. mishaps' = mishaps \cup {"stale lock"}
      BY <2>3 DEF Displace
    <3>. QED
      BY <2>1, <3>1 DEF Mishap
  <2>. QED
    BY <2>2, <2>3
<1>1. /\ op' \in [Process -> Operation] /\ \A q \in Process \ {p} : op'[q] = op[q]
      /\ op'[p].command = op[p].command /\ op'[p].tree = op[p].tree
      /\ op'[p].backup = op[p].backup /\ op'[p].staged = op[p].staged /\ op'[p].entry = op[p].entry
      /\ op[p].step = "displace" /\ op'[p].step = "swap" /\ op'[p].displaced = package
      /\ package \in Made /\ package # Nothing /\ package' = Nothing
      /\ hidden' = hidden \cup {package}
      /\ UNCHANGED <<content, backups, holder, calls, said>>
  <2>1. op \in [Process -> Operation] /\ op[p] \in Operation /\ package \in Tree \cup {Nothing}
    BY DiskType DEF IInv, TypeOK
  <2>2. [op[p] EXCEPT !.step = "swap", !.displaced = package] \in Operation
    BY <2>1 DEF Operation, Steps
  <2>3. op' = [op EXCEPT ![p] = [op[p] EXCEPT !.step = "swap", !.displaced = package]]
    BY <2>1 DEF Displace
  <2>4. /\ op[p].step = "displace" /\ package \in Made /\ package # Nothing /\ package' = Nothing
        /\ hidden' = hidden \cup {package}
        /\ UNCHANGED <<content, backups, holder, calls, said>>
    BY DiskType DEF Displace, IInv
  <2>. QED
    BY <2>1, <2>2, <2>3, <2>4 DEF Operation
<1>2. /\ \A q \in Process \ {p} : Copy(q)' = Copy(q) /\ Original(q)' = Original(q) /\ Pending(q)' = Pending(q)
      /\ Copy(p)' = Copy(p) /\ Original(p)' = {package} /\ Pending(p)' = Pending(p) \cup {package}
      /\ Original(p) = {}
  <2>1. \A q \in Process \ {p} : Copy(q)' = Copy(q) /\ Original(q)' = Original(q) /\ Pending(q)' = Pending(q)
    BY <1>1 DEF Pending, Copy, Original
  <2>2. Copy(p)' = Copy(p)
    BY <1>1 DEF Copy
  <2>3. Original(p)' = {package} /\ Original(p) = {}
    BY <1>1 DEF Original
  <2>4. Pending(p)' = Pending(p) \cup {package}
    BY <2>2, <2>3 DEF Pending
  <2>. QED
    BY <2>1, <2>2, <2>3, <2>4
<1>3. /\ package \in Made \cup {Nothing} /\ Nothing \notin Made /\ Made' = Made
      /\ backups \subseteq Made /\ hidden \subseteq Made
      /\ \A q \in Process : {op[q].tree, op[q].backup, op[q].staged, op[q].displaced} \subseteq Made \cup {Nothing}
  BY <1>1, DiskType, OpType DEF IInv, Made
<1>4. Paths'
  BY <1>1, OpType DEF IInv, Paths
<1>5. Locks'
  <2>1. \A q \in Process : Locked(q)' <=> Locked(q)
    BY <1>1 DEF Locked
  <2>. QED
    BY <1>1, <1>3, <2>1 DEF IInv, Locks
<1>6. TypeOK'
  <2>1. HoldersShow'
    BY <1>1, <1>4, <1>5, HoldersFollowNext DEF HoldersFollow
  <2>2. \A q \in Process : {op'[q].tree, op'[q].backup, op'[q].staged, op'[q].displaced} \subseteq Made' \cup {Nothing}
    BY <1>1, <1>3
  <2>3. /\ package' \in Made' \cup {Nothing} /\ backups' \subseteq Made' /\ hidden' \subseteq Made'
    BY <1>1, <1>3 DEF IInv, Apart
  <2>4. /\ calls' \in 0 .. CallCap /\ said' \subseteq 1 .. CallCap
        /\ mishaps' \subseteq Mishap
    BY <1>0, <1>1 DEF IInv, TypeOK
  <2>. QED
    BY <1>1, <1>3, <2>1, <2>2, <2>3, <2>4 DEF IInv, TypeOK, HoldersShow
<1>7. Apart'
  <2>1. package \notin hidden \cup backups
    BY DEF IInv, Apart
  <2>2. ASSUME NEW q \in Process
        PROVE  /\ op'[q].step \in {"displace", "swap", "putback"} => op'[q].staged # Nothing
               /\ op'[q].step \in {"swap", "putback", "sweep"} => op'[q].displaced # Nothing
               /\ Pending(q)' \subseteq hidden' /\ Copy(q)' \cap Original(q)' = {}
    <3>1. Pending(q) \subseteq hidden /\ Copy(q) \subseteq hidden
      BY DEF IInv, Apart, Pending
    <3>. QED
      BY <1>1, <1>2, <2>1, <3>1 DEF IInv, Apart
  <2>3. \A q \in Process : \A r \in Process \ {q} : Pending(q)' \cap Pending(r)' = {}
    BY <1>2, <2>1 DEF IInv, Apart
  <2>4. package' \notin backups' \cup hidden' /\ backups' \cap hidden' = {}
    BY <1>1, <1>3, <2>1 DEF IInv, Apart
  <2>. QED
    BY <2>2, <2>3, <2>4 DEF Apart
<1>8. OwnBackup'
  BY <1>1, <1>3 DEF IInv, OwnBackup, Undoable
<1>9. Protected' \/ FirstOnly' \/ Done'
  <2>1. CASE Protected
    BY <1>1, <1>3, <2>1 DEF IInv, Protected, Undoable
  <2>2. CASE FirstOnly
    <3>1. package = 1 /\ op[p].command = "migrate" /\ holder[1] = p
      <4>1. op[p].command = "migrate"
        BY <1>1, <2>2, OpType DEF FirstOnly, IInv, Paths, Commands
      <4>2. Locked(p) /\ Migrating(p)
        BY <1>1, <4>1 DEF Locked, Migrating, Undoable
      <4>3. op[p].tree = 1
        BY <2>2, <4>2 DEF FirstOnly
      <4>. QED
        BY <1>1, <2>2, <4>1, <4>2, <4>3 DEF FirstOnly, IInv, Locks
    <3>2. ASSUME NEW q \in Process, q # p PROVE op[q].step \notin {"backup", "stage", "displace"}
      <4>1. SUFFICES ASSUME op[q].step \in {"backup", "stage", "displace"} PROVE FALSE
        OBVIOUS
      <4>2. op[q].command = "migrate"
        BY <2>2, <4>1, OpType DEF FirstOnly, IInv, Paths, Commands
      <4>3. Locked(q) /\ Migrating(q)
        BY <4>1, <4>2 DEF Locked, Migrating, Undoable
      <4>4. op[q].tree = 1
        BY <2>2, <4>3 DEF FirstOnly
      <4>. QED
        BY <3>1, <3>2, <4>3, <4>4 DEF IInv, Locks
    <3>3. 1 \in Made /\ content'[1].layout = "legacy" /\ 1 \in hidden'
      BY <1>1, <2>2, <3>1 DEF FirstOnly
    <3>4. \A q \in Process :
            /\ op'[q].command # "rollback" /\ op'[q].step # "sweep"
            /\ Migrating(q)' => op'[q].tree = 1
            /\ op'[q].step \notin {"backup", "stage", "displace"}
            /\ Swapping(q)' => op'[q].displaced = 1 /\ content'[op'[q].staged].layout = "final"
            /\ op'[q].staged # 1
            /\ op'[q].tree \in {1, Nothing}
      BY <1>1, <2>2, <3>1, <3>2 DEF FirstOnly, Migrating, Undoable, Swapping, Owned
    <3>5. \A q \in Process :
            Undoable(q)' /\ op'[q].backup # Nothing => content'[op'[q].backup].layout = "legacy"
      BY <1>1, <2>2, <3>1 DEF FirstOnly, Undoable
    <3>6. \A b \in backups' : Owned(b)'
      BY <1>1, <2>2, <3>1 DEF FirstOnly, Owned, Undoable
    <3>. QED
      BY <1>1, <1>3, <3>3, <3>4, <3>5, <3>6 DEF FirstOnly
  <2>3. ~Done
    BY <1>1 DEF Done
  <2>. QED
    BY <2>1, <2>2, <2>3 DEF IInv
<1>10. UnderLock'
  <2> SUFFICES ASSUME "stale lock" \notin mishaps' PROVE UnderLock'
    BY DEF UnderLock
  <2>1. "stale lock" \notin mishaps
    BY <1>0
  <2>2. holder[package] \in {p, Nothing}
    <3>1. holder[package] \notin {p, Nothing} => mishaps' = mishaps \cup {"stale lock"}
      BY DEF Displace
    <3>. QED
      BY <3>1
  <2>3. ASSUME NEW q \in Process, Locked(q)',
               op'[q].step \in {"locked", "backup", "stage", "displace", "land"}
        PROVE  FALSE
    <3>1. q # p /\ op'[q] = op[q] /\ Locked(q)
      BY <1>1, <2>3 DEF Locked
    <3>2. op[q].tree = package
      BY <2>1, <2>3, <3>1 DEF IInv, UnderLock
    <3>3. holder[package] = q
      BY <3>1, <3>2 DEF IInv, Locks
    <3>4. q # Nothing
      BY MigrationAssumption
    <3>. QED
      BY <2>2, <3>1, <3>3, <3>4
  <2>4. \A q \in Process :
          op'[q].command = "migrate" /\ op'[q].step \in {"backup", "stage", "displace"} => Locked(q)'
    BY DEF Locked
  <2>5. \A b \in backups' : content'[b].layout # "final"
    BY <1>1, <2>1 DEF IInv, UnderLock
  <2>. QED
    BY <2>3, <2>4, <2>5 DEF UnderLock
<1>11. AllAccounted'
  <2> SUFFICES ASSUME Calm' PROVE AllAccounted'
    BY DEF AllAccounted
  <2>1. Calm
    BY <1>0 DEF Calm
  <2>2. \A q \in Process : Swapping(q)' <=> q = p
    BY <1>1, <2>1 DEF IInv, AllAccounted, Swapping
  <2>3. "leftover" \notin mishaps' => \A t \in hidden' : \E q \in Process : t \in Pending(q)'
    <3>1. "leftover" \notin mishaps' => "leftover" \notin mishaps
      BY <1>0
    <3>. QED
      BY <1>1, <1>2, <2>1, <3>1 DEF IInv, AllAccounted
  <2>. QED
    BY <1>1, <1>3, <2>1, <2>2, <2>3 DEF IInv, AllAccounted, Swapping
<1>12. EntriesKept'
  <2> SUFFICES ASSUME mishaps' \subseteq {"leftover"} PROVE EntriesKept'
    BY DEF EntriesKept
  <2>1. mishaps \subseteq {"leftover"}
    BY <1>0
  <2>. QED
    BY <1>1, <2>1 DEF IInv, EntriesKept, Swapping
<1>. QED
  BY <1>4, <1>5, <1>6, <1>7, <1>8, <1>9, <1>10, <1>11, <1>12 DEF IInv

\* The copy becomes the package.
LEMMA SwapKeepsIInv ==
    ASSUME IInv, NEW p \in Process, Swap(p)
    PROVE  IInv'
<1>1. /\ op' \in [Process -> Operation] /\ \A q \in Process \ {p} : op'[q] = op[q]
      /\ op'[p].command = op[p].command /\ op'[p].tree = op[p].tree
      /\ op'[p].backup = op[p].backup /\ op'[p].staged = op[p].staged /\ op'[p].entry = op[p].entry
      /\ op'[p].displaced = op[p].displaced
      /\ op[p].step = "swap" /\ op'[p].step = "sweep" /\ op[p].command \in {"migrate", "rollback"}
      /\ package = Nothing /\ package' = op[p].staged /\ hidden' = hidden \ {op[p].staged}
      /\ op[p].staged # Nothing
      /\ said' \subseteq said
      /\ UNCHANGED <<content, backups, holder, calls, mishaps>>
  <2>1. Goes(p, "sweep") /\ "sweep" \in Steps
    BY DEF Swap, Steps
  <2>2. op[p].command \in {"migrate", "rollback"}
    BY OpType DEF Swap, IInv, Paths, Commands
  <2>3. op[p].staged # Nothing
    BY DEF Swap, IInv, Apart
  <2>. QED
    BY <2>1, <2>2, <2>3, GoEffect DEF Swap, IInv
<1>2. /\ \A q \in Process \ {p} : Copy(q)' = Copy(q) /\ Original(q)' = Original(q) /\ Pending(q)' = Pending(q)
      /\ Copy(p) = {op[p].staged} /\ Copy(p)' = {}
      /\ Original(p)' = Original(p) /\ Pending(p)' = Original(p)
  <2>1. \A q \in Process \ {p} : Copy(q)' = Copy(q) /\ Original(q)' = Original(q) /\ Pending(q)' = Pending(q)
    BY <1>1 DEF Pending, Copy, Original
  <2>2. Copy(p) = {op[p].staged} /\ Copy(p)' = {}
    BY <1>1 DEF Copy
  <2>3. Original(p)' = Original(p)
    BY <1>1 DEF Original
  <2>4. Pending(p)' = Original(p)
    BY <2>2, <2>3 DEF Pending
  <2>. QED
    BY <2>1, <2>2, <2>3, <2>4
<1>3. /\ package \in Made \cup {Nothing} /\ Nothing \notin Made /\ Made' = Made
      /\ backups \subseteq Made /\ hidden \subseteq Made
      /\ \A q \in Process : {op[q].tree, op[q].backup, op[q].staged, op[q].displaced} \subseteq Made \cup {Nothing}
  BY <1>1, DiskType, OpType DEF IInv, Made
<1>4. Paths'
  BY <1>1, OpType DEF IInv, Paths
<1>5. Locks'
  <2>1. \A q \in Process : Locked(q)' <=> Locked(q)
    BY <1>1 DEF Locked
  <2>. QED
    BY <1>1, <1>3, <2>1 DEF IInv, Locks
<1>6. TypeOK'
  <2>1. HoldersShow'
    BY <1>1, <1>4, <1>5, HoldersFollowNext DEF HoldersFollow
  <2>2. \A q \in Process : {op'[q].tree, op'[q].backup, op'[q].staged, op'[q].displaced} \subseteq Made' \cup {Nothing}
    BY <1>1, <1>3
  <2>3. /\ package' \in Made' \cup {Nothing} /\ backups' \subseteq Made' /\ hidden' \subseteq Made'
    BY <1>1, <1>3 DEF IInv, Apart
  <2>4. /\ calls' \in 0 .. CallCap /\ said' \subseteq 1 .. CallCap
        /\ mishaps' \subseteq Mishap
    BY <1>1 DEF IInv, TypeOK
  <2>. QED
    BY <1>1, <1>3, <2>1, <2>2, <2>3, <2>4 DEF IInv, TypeOK, HoldersShow
<1>7. Apart'
  <2>1. op[p].staged \in hidden /\ op[p].staged \notin backups /\ op[p].staged \in Pending(p)
    BY <1>2 DEF IInv, Apart, Pending
  <2>2. ASSUME NEW q \in Process
        PROVE  /\ op'[q].step \in {"displace", "swap", "putback"} => op'[q].staged # Nothing
               /\ op'[q].step \in {"swap", "putback", "sweep"} => op'[q].displaced # Nothing
    BY <1>1 DEF IInv, Apart
  <2>3. ASSUME NEW q \in Process
        PROVE  Pending(q)' \subseteq hidden' /\ Copy(q)' \cap Original(q)' = {}
    <3>1. CASE q = p
      BY <1>1, <1>2, <3>1 DEF IInv, Apart, Pending
    <3>2. CASE q # p
      BY <1>1, <1>2, <2>1, <3>2 DEF IInv, Apart
    <3>. QED
      BY <3>1, <3>2
  <2>4. \A q \in Process : \A r \in Process \ {q} : Pending(q)' \cap Pending(r)' = {}
    <3>1. \A q \in Process : Pending(q)' \subseteq Pending(q)
      BY <1>2 DEF Pending
    <3>. QED
      BY <3>1 DEF IInv, Apart
  <2>5. package' \notin backups' \cup hidden' /\ backups' \cap hidden' = {}
    BY <1>1, <2>1 DEF IInv, Apart
  <2>. QED
    BY <2>2, <2>3, <2>4, <2>5 DEF Apart
<1>8. OwnBackup'
  BY <1>1, <1>3 DEF IInv, OwnBackup, Undoable
<1>9. Protected' \/ FirstOnly' \/ Done'
  <2>1. CASE Protected
    BY <1>1, <1>3, <2>1 DEF IInv, Protected, Undoable
  <2>2. CASE FirstOnly
    <3>1. Undoable(p) /\ Undoable(p)' /\ Migrating(p) /\ Locked(p) /\ op[p].command = "migrate"
      BY <1>1, <2>2 DEF FirstOnly, Undoable, Migrating, Locked
    <3>2. content[op[p].staged].layout = "final"
      BY <1>1, <2>2 DEF FirstOnly, Swapping
    <3>3. ASSUME NEW q \in Process, q # p
          PROVE  ~Undoable(q) /\ op[q].step \notin {"backup", "stage", "displace", "swap", "putback"}
      <4>1. SUFFICES ASSUME Migrating(q) PROVE FALSE
        BY <2>2, OpType DEF FirstOnly, IInv, Paths, Commands, Migrating, Undoable
      <4>2. op[q].tree = 1 /\ op[p].tree = 1 /\ Locked(q)
        BY <2>2, <3>1, <4>1 DEF FirstOnly, Migrating, Undoable, Locked
      <4>. QED
        BY <3>1, <3>3, <4>2 DEF IInv, Locks
    <3>4. \A b \in backups' : Owned(b)'
      BY <1>1, <2>2, <3>1, <3>3 DEF FirstOnly, Owned
    <3>5. ASSUME NEW q \in Process
          PROVE  /\ op'[q].command # "rollback"
                 /\ op'[q].step \notin {"backup", "stage", "displace", "swap", "putback"}
                 /\ Undoable(q)' /\ op'[q].backup # Nothing => content'[op'[q].backup].layout = "legacy"
      BY <1>1, <2>2, <3>1, <3>3 DEF FirstOnly, Undoable
    <3>. QED
      BY <1>1, <1>3, <3>1, <3>2, <3>4, <3>5 DEF Done
  <2>3. ~Done
    BY <1>1 DEF Done
  <2>. QED
    BY <2>1, <2>2, <2>3 DEF IInv
<1>10. UnderLock'
  <2> SUFFICES ASSUME "stale lock" \notin mishaps PROVE UnderLock'
    BY <1>1 DEF UnderLock
  <2>1. ASSUME NEW q \in Process, Locked(q),
               op[q].step \in {"locked", "backup", "stage", "displace", "land"}
        PROVE  FALSE
    BY <1>1, <1>3, <2>1 DEF IInv, UnderLock, Locks
  <2>2. \A q \in Process : Locked(q)' => op'[q].step \notin {"locked", "backup", "stage", "displace", "land"}
    BY <1>1, <2>1 DEF Locked
  <2>3. \A q \in Process :
          op'[q].command = "migrate" /\ op'[q].step \in {"backup", "stage", "displace"} => Locked(q)'
    BY DEF Locked
  <2>4. \A b \in backups' : content'[b].layout # "final"
    BY <1>1 DEF IInv, UnderLock
  <2>. QED
    BY <2>2, <2>3, <2>4 DEF UnderLock
<1>11. AllAccounted'
  <2> SUFFICES ASSUME Calm PROVE AllAccounted'
    BY <1>1 DEF AllAccounted, Calm
  <2>1. \A q \in Process : ~Swapping(q)'
    BY <1>1 DEF IInv, AllAccounted, Swapping
  <2>2. "leftover" \notin mishaps => \A t \in hidden' : \E q \in Process : t \in Pending(q)'
    <3>1. Pending(p) = {op[p].staged} \cup Pending(p)'
      BY <1>2 DEF Pending
    <3>. QED
      BY <1>1, <1>2, <3>1 DEF IInv, AllAccounted
  <2>3. package' # Nothing /\ content'[package'].layout # "none"
    BY <1>1 DEF IInv, AllAccounted, Swapping
  <2>4. \A q \in Process : op'[q].step = "displace" => content'[op'[q].staged].layout # "none"
    BY <1>1 DEF IInv, AllAccounted
  <2>. QED
    BY <1>1, <2>1, <2>2, <2>3, <2>4 DEF AllAccounted
<1>12. EntriesKept'
  <2> SUFFICES ASSUME mishaps \subseteq {"leftover"} PROVE EntriesKept'
    BY <1>1 DEF EntriesKept
  <2>1. \A q \in Process : ~Swapping(q)'
    BY <1>1 DEF IInv, AllAccounted, Calm, Swapping
  <2>2. said' \subseteq content[op[p].staged].entries
    <3>1. CASE op[p].command = "rollback"
      BY <3>1 DEF Swap
    <3>2. CASE op[p].command = "migrate"
      BY <1>1, <3>2 DEF IInv, EntriesKept
    <3>. QED
      BY <1>1, <3>1, <3>2
  <2>3. ASSUME NEW q \in Process
        PROVE  /\ op'[q].command = "migrate" /\ op'[q].step \in {"displace", "swap"} =>
                     said' \subseteq content'[op'[q].staged].entries
               /\ op'[q].step = "land" => said' \subseteq op'[q].seen
    BY <1>1 DEF IInv, EntriesKept
  <2>. QED
    BY <1>1, <2>1, <2>2, <2>3 DEF EntriesKept
<1>. QED
  BY <1>4, <1>5, <1>6, <1>7, <1>8, <1>9, <1>10, <1>11, <1>12 DEF IInv

\* The package returns to its path, if that is free.
LEMMA PutBackKeepsIInv ==
    ASSUME IInv, NEW p \in Process, PutBack(p)
    PROVE  IInv'
<1>1. /\ op' \in [Process -> Operation] /\ \A q \in Process \ {p} : op'[q] = op[q]
      /\ op'[p].command = op[p].command /\ op'[p].tree = op[p].tree
      /\ op'[p].backup = op[p].backup /\ op'[p].staged = op[p].staged /\ op'[p].entry = op[p].entry
      /\ op'[p].displaced = op[p].displaced
      /\ op'[p].step = "undo"
      /\ op[p].step = "putback" /\ op[p].command \in {"migrate", "rollback"} /\ op[p].displaced # Nothing
      /\ package = Nothing => package' = op[p].displaced /\ hidden' = hidden \ {op[p].displaced}
      /\ package # Nothing => package' = package /\ hidden' = hidden
      /\ UNCHANGED <<content, backups, holder, calls, said, mishaps>>
  <2>1. Fails(p)
    BY DEF PutBack
  <2>. QED
    BY <2>1, FailEffect, DiskType, OpType DEF PutBack, history, IInv, Paths, Commands, Apart
<1>2. /\ \A q \in Process \ {p} : Copy(q)' = Copy(q) /\ Original(q)' = Original(q) /\ Pending(q)' = Pending(q)
      /\ Original(p) = {op[p].displaced} /\ Original(p)' = {}
      /\ Copy(p)' = Copy(p) /\ Pending(p)' = Copy(p)
  <2>1. \A q \in Process \ {p} : Copy(q)' = Copy(q) /\ Original(q)' = Original(q) /\ Pending(q)' = Pending(q)
    BY <1>1 DEF Pending, Copy, Original
  <2>2. Original(p) = {op[p].displaced} /\ Original(p)' = {}
    BY <1>1 DEF Original
  <2>3. Copy(p)' = Copy(p)
    BY <1>1 DEF Copy
  <2>4. Pending(p)' = Copy(p)
    BY <2>2, <2>3 DEF Pending
  <2>. QED
    BY <2>1, <2>2, <2>3, <2>4
<1>3. /\ package \in Made \cup {Nothing} /\ Nothing \notin Made /\ Made' = Made
      /\ backups \subseteq Made /\ hidden \subseteq Made
      /\ \A q \in Process : {op[q].tree, op[q].backup, op[q].staged, op[q].displaced} \subseteq Made \cup {Nothing}
  BY <1>1, DiskType, OpType DEF IInv, Made
<1>4. Paths'
  BY <1>1, OpType DEF IInv, Paths
<1>5. Locks'
  <2>1. \A q \in Process : Locked(q)' <=> Locked(q)
    BY <1>1 DEF Locked
  <2>. QED
    BY <1>1, <1>3, <2>1 DEF IInv, Locks
<1>6. TypeOK'
  <2>1. HoldersShow'
    BY <1>1, <1>4, <1>5, HoldersFollowNext DEF HoldersFollow
  <2>2. \A q \in Process : {op'[q].tree, op'[q].backup, op'[q].staged, op'[q].displaced} \subseteq Made' \cup {Nothing}
    BY <1>1, <1>3
  <2>3. /\ package' \in Made' \cup {Nothing} /\ backups' \subseteq Made' /\ hidden' \subseteq Made'
    BY <1>1, <1>3 DEF IInv, Apart
  <2>4. /\ calls' \in 0 .. CallCap /\ said' \subseteq 1 .. CallCap
        /\ mishaps' \subseteq Mishap
    BY <1>1 DEF IInv, TypeOK
  <2>. QED
    BY <1>1, <1>3, <2>1, <2>2, <2>3, <2>4 DEF IInv, TypeOK, HoldersShow
<1>7. Apart'
  <2>1. op[p].displaced \in hidden /\ op[p].displaced \notin backups /\ op[p].displaced \in Pending(p)
    BY <1>2 DEF IInv, Apart, Pending
  <2>2. ASSUME NEW q \in Process
        PROVE  /\ op'[q].step \in {"displace", "swap", "putback"} => op'[q].staged # Nothing
               /\ op'[q].step \in {"swap", "putback", "sweep"} => op'[q].displaced # Nothing
    BY <1>1 DEF IInv, Apart
  <2>3. hidden \ {op[p].displaced} \subseteq hidden'
    BY <1>1
  <2>4. ASSUME NEW q \in Process
        PROVE  Pending(q)' \subseteq hidden' /\ Copy(q)' \cap Original(q)' = {}
    <3>1. CASE q = p
      BY <1>2, <2>3, <3>1 DEF IInv, Apart, Pending
    <3>2. CASE q # p
      BY <1>2, <2>1, <2>3, <3>2 DEF IInv, Apart
    <3>. QED
      BY <3>1, <3>2
  <2>5. \A q \in Process : \A r \in Process \ {q} : Pending(q)' \cap Pending(r)' = {}
    <3>1. \A q \in Process : Pending(q)' \subseteq Pending(q)
      BY <1>2 DEF Pending
    <3>. QED
      BY <3>1 DEF IInv, Apart
  <2>6. package' \notin backups' \cup hidden' /\ backups' \cap hidden' = {}
    BY <1>1, <2>1 DEF IInv, Apart
  <2>. QED
    BY <2>2, <2>4, <2>5, <2>6 DEF Apart
<1>8. OwnBackup'
  BY <1>1, <1>3 DEF IInv, OwnBackup, Undoable
<1>9. Protected' \/ FirstOnly' \/ Done'
  <2>1. CASE Protected
    BY <1>1, <1>3, <2>1 DEF IInv, Protected, Undoable
  <2>2. CASE FirstOnly
    <3>1. op[p].displaced = 1
      BY <1>1, <2>2 DEF FirstOnly, Swapping, Owned
    <3>2. /\ 1 \in Made' /\ content'[1].layout = "legacy"
          /\ package' = 1 \/ 1 \in hidden'
          /\ package' \notin {1, Nothing} => content'[package'].layout = "none"
      BY <1>1, <1>3, <2>2, <3>1 DEF FirstOnly
    <3>3. \A q \in Process :
            /\ op'[q].command # "rollback" /\ op'[q].step # "sweep"
            /\ Migrating(q)' => op'[q].tree = 1
            /\ op'[q].step \in {"backup", "stage", "displace"} => package' = 1
            /\ Swapping(q)' => op'[q].displaced = 1
            /\ op'[q].step = "displace" \/ Swapping(q)' => content'[op'[q].staged].layout = "final"
            /\ op'[q].staged # 1
            /\ op'[q].tree \notin {1, Nothing} => package' \notin {1, Nothing}
      BY <1>1, <2>2, <3>1 DEF FirstOnly, Migrating, Undoable, Swapping, Owned
    <3>4. \A q \in Process :
            Undoable(q)' /\ op'[q].backup # Nothing => content'[op'[q].backup].layout = "legacy"
      BY <1>1, <2>2 DEF FirstOnly, Undoable
    <3>5. \A b \in backups' : Owned(b)'
      BY <1>1, <2>2 DEF FirstOnly, Owned, Undoable
    <3>. QED
      BY <3>2, <3>3, <3>4, <3>5 DEF FirstOnly
  <2>3. ~Done
    BY <1>1 DEF Done
  <2>. QED
    BY <2>1, <2>2, <2>3 DEF IInv
<1>10. UnderLock'
  <2> SUFFICES ASSUME "stale lock" \notin mishaps PROVE UnderLock'
    BY <1>1 DEF UnderLock
  <2>1. CASE package # Nothing
    <3>1. package' = package
      BY <1>1, <2>1
    <3>. QED
      BY <1>1, <3>1 DEF IInv, UnderLock, Locked
  <2>2. CASE package = Nothing
    <3>1. ASSUME NEW q \in Process, Locked(q),
                 op[q].step \in {"locked", "backup", "stage", "displace", "land"}
          PROVE  FALSE
      <4>1. op[q].tree \in Made
        BY <3>1 DEF IInv, Locks
      <4>2. op[q].tree = package
        BY <3>1 DEF IInv, UnderLock
      <4>. QED
        BY <1>3, <2>2, <4>1, <4>2
    <3>2. \A q \in Process : Locked(q)' => op'[q].step \notin {"locked", "backup", "stage", "displace", "land"}
      BY <1>1, <3>1 DEF Locked
    <3>3. \A q \in Process :
            op'[q].command = "migrate" /\ op'[q].step \in {"backup", "stage", "displace"} => Locked(q)'
      BY DEF Locked
    <3>4. \A b \in backups' : content'[b].layout # "final"
      BY <1>1 DEF IInv, UnderLock
    <3>. QED
      BY <3>2, <3>3, <3>4 DEF UnderLock
  <2>. QED
    BY <2>1, <2>2
<1>11. AllAccounted'
  <2> SUFFICES ASSUME Calm PROVE AllAccounted'
    BY <1>1 DEF AllAccounted, Calm
  <2>1. \A q \in Process : ~Swapping(q)'
    BY <1>1 DEF IInv, AllAccounted, Swapping
  <2>2. package = Nothing
    BY <1>1 DEF IInv, AllAccounted, Swapping
  <2>3. "leftover" \notin mishaps => \A t \in hidden' : \E q \in Process : t \in Pending(q)'
    <3>1. Pending(p) = {op[p].displaced} \cup Pending(p)'
      BY <1>2 DEF Pending
    <3>. QED
      BY <1>1, <1>2, <2>2, <3>1 DEF IInv, AllAccounted
  <2>4. package' # Nothing /\ content'[package'].layout # "none"
    BY <1>1, <2>2 DEF IInv, AllAccounted, Swapping
  <2>5. \A q \in Process : op'[q].step = "displace" => content'[op'[q].staged].layout # "none"
    BY <1>1 DEF IInv, AllAccounted
  <2>. QED
    BY <1>1, <2>1, <2>3, <2>4, <2>5 DEF AllAccounted
<1>12. EntriesKept'
  <2> SUFFICES ASSUME mishaps \subseteq {"leftover"} PROVE EntriesKept'
    BY <1>1 DEF EntriesKept
  <2>1. \A q \in Process : ~Swapping(q)'
    BY <1>1 DEF IInv, AllAccounted, Calm, Swapping
  <2>2. package' = op[p].displaced /\ said \subseteq content[op[p].displaced].entries
    BY <1>1 DEF IInv, AllAccounted, Calm, EntriesKept, Swapping
  <2>3. ASSUME NEW q \in Process
        PROVE  /\ op'[q].command = "migrate" /\ op'[q].step \in {"displace", "swap"} =>
                     said' \subseteq content'[op'[q].staged].entries
               /\ op'[q].step = "land" => said' \subseteq op'[q].seen
    BY <1>1 DEF IInv, EntriesKept
  <2>. QED
    BY <1>1, <2>1, <2>2, <2>3 DEF EntriesKept
<1>. QED
  BY <1>4, <1>5, <1>6, <1>7, <1>8, <1>9, <1>10, <1>11, <1>12 DEF IInv

\* The package stays under its .staging- name.
LEMMA StaysDisplacedKeepsIInv ==
    ASSUME IInv, NEW p \in Process, StaysDisplaced(p)
    PROVE  IInv'
<1>1. /\ op' \in [Process -> Operation] /\ \A q \in Process \ {p} : op'[q] = op[q]
      /\ op[p].step \in {"swap", "putback"} /\ op'[p].step = "undo"
      /\ op'[p].entry = op[p].entry
      /\ op'[p].command = op[p].command /\ op'[p].tree = op[p].tree
      /\ op'[p].backup = op[p].backup /\ op'[p].staged = op[p].staged
      /\ op'[p].displaced = op[p].displaced
      /\ UNCHANGED <<content, package, backups, hidden, holder, calls, said>>
      /\ mishaps' = mishaps \cup {"interrupt"}
  BY FailEffect DEF IInv, StaysDisplaced, disk
<1>2. /\ \A q \in Process \ {p} : Pending(q)' = Pending(q) /\ Copy(q)' = Copy(q) /\ Original(q)' = Original(q)
      /\ Original(p)' = {} /\ Pending(p)' = Copy(p)
  BY <1>1 DEF Pending, Copy, Original
<1>3. Paths'
  BY <1>1, OpType DEF IInv, Paths
<1>4. Locks'
  BY <1>1, DiskType DEF IInv, Paths, Locks, Locked, Made
<1>5. TypeOK'
  <2>1. HoldersShow'
    BY <1>1, <1>3, <1>4, HoldersFollowNext DEF HoldersFollow
  <2>2. \A q \in Process : {op'[q].tree, op'[q].backup, op'[q].staged, op'[q].displaced} \subseteq Made' \cup {Nothing}
    BY <1>1, OpType, DiskType DEF IInv, Made
  <2>3. mishaps' \subseteq Mishap
    BY <1>1 DEF IInv, TypeOK, Mishap
  <2>. QED
    BY <1>1, <2>1, <2>2, <2>3 DEF IInv, TypeOK, Made, HoldersShow
<1>6. Apart'
  <2>1. \A q \in Process : Pending(q)' \subseteq Pending(q)
    BY <1>2 DEF Pending
  <2>. QED
    BY <1>1, <1>2, <2>1 DEF IInv, Apart
<1>7. OwnBackup'
  BY <1>1, OpType DEF IInv, Paths, OwnBackup, Undoable
<1>8. Protected' \/ FirstOnly' \/ Done'
  <2>1. CASE Protected
    BY <1>1, <2>1, OpType, DiskType DEF IInv, Paths, Protected, Undoable
  <2>2. CASE FirstOnly
    BY <1>1, <2>2, OpType, DiskType DEF IInv, Paths, FirstOnly, Migrating, Undoable, Swapping, Owned, Made
  <2>3. ~Done
    BY <1>1 DEF Done
  <2>. QED
    BY <2>1, <2>2, <2>3 DEF IInv
<1>9. UnderLock'
  BY <1>1 DEF IInv, UnderLock, Locked
<1>10. AllAccounted' /\ EntriesKept'
  BY <1>1 DEF AllAccounted, Calm, EntriesKept
<1>. QED
  BY <1>3, <1>4, <1>5, <1>6, <1>7, <1>8, <1>9, <1>10 DEF IInv

\* What the clean-ups of p may take away, whole or in part: the directories it
\* made or displaced, and the backup of a migration that has failed.
Own(p) == IF op[p].command = "migrate" THEN {op[p].backup} \ {Nothing} ELSE {}

Clears(p) ==
    /\ op' \in [Process -> Operation] /\ \A q \in Process \ {p} : op'[q] = op[q]
    /\ op[p].step \in {"sweep", "undo"} /\ op[p].command \in {"migrate", "rollback"}
    /\ op'[p].command = op[p].command /\ op'[p].tree = op[p].tree
    /\ op'[p].backup = op[p].backup /\ op'[p].displaced = op[p].displaced
    /\ op'[p].entry = op[p].entry /\ op'[p].staged \in {op[p].staged, Nothing}
    /\ \/ op'[p].step = "release"
       \/ op'[p].step = "undo" /\ op[p].step = "sweep" /\ op'[p].staged = Nothing /\ "interrupt" \in mishaps'
    /\ Made' = Made /\ \A t \in Made : content'[t] \in Content /\ content'[t].entries = content[t].entries
    /\ \A t \in Made : content'[t].layout \in {content[t].layout, "none"}
    /\ \A t \in Made : t \notin Pending(p) \cup Own(p) => content'[t] = content[t]
    /\ hidden' \subseteq hidden /\ hidden \ Pending(p) \subseteq hidden'
    /\ backups' \subseteq backups /\ backups \ Own(p) \subseteq backups'
    /\ op[p].step = "sweep" => backups' = backups /\ \A t \in backups : content'[t] = content[t]
    /\ mishaps \subseteq mishaps' /\ mishaps' \subseteq mishaps \cup {"interrupt", "leftover"}
    /\ "interrupt" \in mishaps' \/ "leftover" \in mishaps' \/ hidden' = hidden \ Pending(p)
    /\ UNCHANGED <<package, holder, calls, said>>

LEMMA ClearsKeepsIInv ==
    ASSUME IInv, NEW p \in Process, Clears(p)
    PROVE  IInv'
<1>1. /\ \A q \in Process \ {p} : Copy(q)' = Copy(q) /\ Original(q)' = Original(q) /\ Pending(q)' = Pending(q)
      /\ Copy(p)' = {} /\ Original(p)' = {} /\ Pending(p)' = {}
  BY DEF Clears, Pending, Copy, Original
<1>2. /\ package \in Made \cup {Nothing} /\ Nothing \notin Made
      /\ backups \subseteq Made /\ hidden \subseteq Made
      /\ \A q \in Process : {op[q].tree, op[q].backup, op[q].staged, op[q].displaced} \subseteq Made \cup {Nothing}
  BY DiskType, OpType DEF IInv
<1>3. /\ Pending(p) \subseteq hidden
      /\ package \notin backups \cup hidden /\ backups \cap hidden = {}
      /\ \A q \in Process \ {p} : Pending(q) \cap Pending(p) = {} /\ Pending(q) \subseteq hidden
  BY DEF IInv, Apart
<1>4. Own(p) \subseteq backups /\ (op[p].command = "migrate" => Undoable(p))
  BY DEF IInv, OwnBackup, Own, Undoable, Clears
<1>5. \A q \in Process \ {p} : /\ Undoable(q) => op[q].backup \notin Own(p)
                               /\ op[q].command = "rollback" /\ op[q].step = "stage" => op[q].backup \notin Own(p)
  BY <1>4 DEF IInv, OwnBackup, Own
<1>6. \A t \in Made : t = package \/ (\E q \in Process \ {p} : t \in Pending(q)) => content'[t] = content[t]
  BY <1>3, <1>4 DEF Clears
<1>7. Paths'
  BY OpType DEF IInv, Paths, Clears
<1>8. Locks'
  <2>1. \A q \in Process : Locked(q)' <=> Locked(q)
    BY DEF Locked, Clears
  <2>. QED
    BY <2>1 DEF IInv, Locks, Clears
<1>9. TypeOK'
  <2>1. HoldersShow'
    BY <1>7, <1>8, HoldersFollowNext DEF HoldersFollow, Clears
  <2>2. \A q \in Process : {op'[q].tree, op'[q].backup, op'[q].staged, op'[q].displaced} \subseteq Made' \cup {Nothing}
    BY <1>2 DEF Clears
  <2>3. /\ package' \in Made' \cup {Nothing} /\ backups' \subseteq Made' /\ hidden' \subseteq Made'
    BY <1>2 DEF Clears
  <2>4. calls' \in 0 .. CallCap /\ said' \subseteq 1 .. CallCap /\ mishaps' \subseteq Mishap
    BY DEF IInv, TypeOK, Clears, Mishap
  <2>5. /\ Made' = 1 .. Cardinality(Made') /\ Made' \subseteq Tree /\ DOMAIN holder' = Made'
        /\ \A t \in Made' : content'[t] \in Content /\ holder'[t] \in Process \cup {Nothing}
    BY DEF IInv, TypeOK, Clears
  <2>. QED
    BY <2>1, <2>2, <2>3, <2>4, <2>5 DEF TypeOK, HoldersShow, Clears
<1>10. Apart'
  <2>1. ASSUME NEW q \in Process
        PROVE  /\ op'[q].step \in {"displace", "swap", "putback"} => op'[q].staged # Nothing
               /\ op'[q].step \in {"swap", "putback", "sweep"} => op'[q].displaced # Nothing
    BY DEF IInv, Apart, Clears
  <2>2. \A q \in Process : Pending(q)' \subseteq hidden' /\ Copy(q)' \cap Original(q)' = {}
    BY <1>1, <1>3 DEF IInv, Apart, Clears
  <2>3. \A q \in Process : \A r \in Process \ {q} : Pending(q)' \cap Pending(r)' = {}
    BY <1>1 DEF IInv, Apart
  <2>4. package' \notin backups' \cup hidden' /\ backups' \cap hidden' = {}
    BY <1>3 DEF Clears
  <2>. QED
    BY <2>1, <2>2, <2>3, <2>4 DEF Apart
<1>11. OwnBackup'
  <2>1. ASSUME NEW q \in Process, Undoable(q)' PROVE Undoable(q) /\ op'[q].backup = op[q].backup
    BY <2>1 DEF Undoable, Clears
  <2>2. ASSUME NEW q \in Process, Undoable(q)', op'[q].backup # Nothing PROVE op'[q].backup \in backups'
    <3>1. Undoable(q) /\ op'[q].backup = op[q].backup /\ op[q].backup \in backups
      BY <2>1, <2>2 DEF IInv, OwnBackup
    <3>2. CASE q = p
      BY <2>2, <3>1, <3>2 DEF Clears, Undoable
    <3>3. CASE q # p
      BY <1>5, <3>1, <3>3 DEF Clears
    <3>. QED
      BY <3>2, <3>3
  <2>3. ASSUME NEW q \in Process, Undoable(q)', op'[q].step # "undo" PROVE op'[q].backup # Nothing
    BY <2>1, <2>3 DEF IInv, OwnBackup, Clears, Undoable
  <2>4. ASSUME NEW q \in Process, op'[q].command = "rollback", op'[q].step = "stage"
        PROVE  op'[q].backup \in backups' /\ content'[op'[q].backup].layout # "none"
    <3>1. q # p /\ op'[q] = op[q] /\ op[q].backup \in backups /\ content[op[q].backup].layout # "none"
      BY <2>4 DEF IInv, OwnBackup, Clears
    <3>2. op[q].backup \notin Own(p) /\ op[q].backup \notin Pending(p) /\ op[q].backup \in Made
      BY <1>2, <1>3, <1>5, <2>4, <3>1 DEF Own
    <3>. QED
      BY <3>1, <3>2 DEF Clears
  <2>. QED
    BY <2>1, <2>2, <2>3, <2>4 DEF IInv, OwnBackup, Clears
<1>12. Protected' \/ FirstOnly' \/ Done'
  <2>1. CASE Protected
    <3>1. PICK b \in backups : content[b].layout = "legacy" /\ \A q \in Process : Undoable(q) => op[q].backup # b
      BY <2>1 DEF Protected
    <3>2. b \notin Own(p) /\ b \notin Pending(p) /\ b \in Made
      BY <1>2, <1>3, <1>4, <3>1 DEF Own
    <3>3. \A q \in Process : Undoable(q)' => Undoable(q) /\ op'[q].backup = op[q].backup
      BY DEF Undoable, Clears
    <3>. QED
      BY <3>1, <3>2, <3>3 DEF Protected, Clears
  <2>2. CASE \E b \in Own(p) \cap backups' : content'[b].layout = "legacy" /\ op'[p].step = "release"
    <3>1. PICK b \in Own(p) \cap backups' : content'[b].layout = "legacy"
      BY <2>2
    <3>2. \A q \in Process \ {p} : Undoable(q)' => Undoable(q) /\ op'[q].backup = op[q].backup
      BY DEF Undoable, Clears
    <3>3. ~Undoable(p)'
      BY <2>2 DEF Undoable
    <3>. QED
      BY <1>5, <3>1, <3>2, <3>3 DEF Protected
  <2>3. ASSUME NEW b \in backups', Owned(b), op'[p].step = "undo" \/ b \notin Own(p) \/ content'[b].layout = "none"
        PROVE  Owned(b)'
    <3>1. content'[b].layout = content[b].layout \/ content'[b].layout = "none"
      BY <1>2 DEF Clears
    <3>2. ASSUME NEW q \in Process, Undoable(q), op[q].backup = b, content'[b].layout # "none" PROVE Undoable(q)'
      BY <1>2, <2>3, <3>2 DEF Undoable, Own, Clears
    <3>. QED
      BY <2>3, <3>1, <3>2 DEF Owned, Clears
  <2>4. CASE FirstOnly /\ ~(\E b \in Own(p) \cap backups' : content'[b].layout = "legacy" /\ op'[p].step = "release")
    <3>1. op[p].step = "undo" /\ op'[p].step = "release" /\ op[p].command = "migrate" /\ Pending(p) \subseteq {op[p].staged}
      BY <2>4 DEF FirstOnly, Clears, Pending, Copy, Original
    <3>2. 1 \in Made' /\ content'[1] = content[1] /\ (package' = 1 \/ 1 \in hidden')
      BY <1>3, <1>4, <2>4, <3>1 DEF FirstOnly, Clears
    <3>3. package' \notin {1, Nothing} => content'[package'].layout = "none"
      BY <1>2, <1>6, <2>4 DEF FirstOnly, Clears
    <3>4. \A b \in backups' : Owned(b)'
      <4>1. ASSUME NEW b \in backups', b \in Own(p) PROVE content'[b].layout = "none"
        BY <1>2, <1>4, <2>4, <3>1, <4>1 DEF FirstOnly, Clears, Own
      <4>. QED
        BY <2>3, <2>4, <4>1 DEF FirstOnly, Clears
    <3>5. \A q \in Process :
            /\ op'[q].command # "rollback" /\ op'[q].step # "sweep"
            /\ Migrating(q)' => op'[q].tree = 1
            /\ op'[q].step \in {"backup", "stage", "displace"} => package' = 1
            /\ Swapping(q)' => op'[q].displaced = 1
            /\ op'[q].staged # 1
            /\ op'[q].tree \notin {1, Nothing} => package' \notin {1, Nothing}
      BY <1>2, <2>4, <3>1, <3>2 DEF FirstOnly, Migrating, Undoable, Swapping, Clears
    <3>6. ASSUME NEW q \in Process, op'[q].step = "displace" \/ Swapping(q)'
          PROVE  content'[op'[q].staged].layout = "final"
      <4>1. q # p /\ op'[q] = op[q] /\ op[q].staged \in Pending(q) /\ op[q].staged \in Made
        BY <1>2, <3>1, <3>6 DEF Clears, Swapping, Pending, Copy, IInv, Apart
      <4>2. content[op[q].staged].layout = "final"
        BY <2>4, <3>6, <4>1 DEF FirstOnly, Swapping
      <4>. QED
        BY <1>6, <4>1, <4>2
    <3>7. ASSUME NEW q \in Process, Undoable(q)', op'[q].backup # Nothing
          PROVE  content'[op'[q].backup].layout = "legacy"
      <4>1. q # p /\ op'[q] = op[q] /\ Undoable(q) /\ op[q].backup \in backups
        BY <3>1, <3>7 DEF Clears, Undoable, IInv, OwnBackup
      <4>2. op[q].backup \notin Own(p) \cup Pending(p) /\ content[op[q].backup].layout = "legacy"
        BY <1>3, <1>5, <2>4, <3>7, <4>1 DEF FirstOnly, Own
      <4>. QED
        BY <1>2, <4>1, <4>2 DEF Clears
    <3>. QED
      BY <2>4, <3>2, <3>3, <3>4, <3>5, <3>6, <3>7 DEF FirstOnly
  <2>5. CASE Done /\ ~(\E b \in Own(p) \cap backups' : content'[b].layout = "legacy" /\ op'[p].step = "release")
    <3>1. package' # Nothing /\ content'[package'].layout = "final"
      BY <1>2, <1>6, <2>5 DEF Done, Clears
    <3>2. op[p].command = "migrate" /\ Undoable(p)
      BY <1>4, <2>5 DEF Done, Clears
    <3>3. op[p].step = "sweep" => op'[p].step = "undo" /\ "interrupt" \in mishaps'
      <4>1. SUFFICES ASSUME op[p].step = "sweep", op'[p].step = "release" PROVE FALSE
        BY DEF Clears
      <4>2. op[p].backup \in backups /\ op[p].backup # Nothing /\ content[op[p].backup].layout = "legacy"
        BY <1>2, <2>5, <3>2, <4>1 DEF Done, IInv, OwnBackup
      <4>. QED
        BY <2>5, <3>2, <4>1, <4>2 DEF Own, Clears
    <3>4. ASSUME NEW q \in Process, Undoable(q)', op'[q].backup # Nothing
          PROVE  content'[op'[q].backup].layout = "legacy"
      <4>1. Undoable(q) /\ op'[q].backup = op[q].backup /\ op[q].backup \in backups
        BY <3>4 DEF Clears, Undoable, IInv, OwnBackup
      <4>2. content[op[q].backup].layout = "legacy"
        BY <2>5, <3>4, <4>1 DEF Done
      <4>3. q = p => op[p].step = "sweep"
        BY <3>4 DEF Undoable, Clears
      <4>4. op[q].backup \in Made /\ op[q].backup \notin Pending(p)
        BY <1>2, <1>3, <4>1
      <4>5. q # p => op[q].backup \notin Own(p)
        BY <1>5, <4>1
      <4>6. op[p].step = "sweep" => content'[op[q].backup] = content[op[q].backup]
        BY <4>1 DEF Clears
      <4>. QED
        BY <4>1, <4>2, <4>3, <4>4, <4>5, <4>6 DEF Clears
    <3>5. \A q \in Process :
            /\ op'[q].command # "rollback"
            /\ op'[q].step \notin {"backup", "stage", "displace", "swap", "putback"}
      BY <2>5 DEF Done, Clears
    <3>6. \A b \in backups' : Owned(b)'
      <4>1. ASSUME NEW b \in backups', b \in Own(p), op'[p].step = "release" PROVE content'[b].layout = "none"
        BY <1>2, <1>4, <2>5, <3>2, <4>1 DEF Done, Clears, Own
      <4>. QED
        BY <2>3, <2>5, <4>1 DEF Done, Clears
    <3>7. "interrupt" \notin mishaps' => \E q \in Process : op'[q].command = "migrate" /\ op'[q].step = "sweep"
      BY <2>5, <3>3 DEF Done, Clears
    <3>. QED
      BY <3>1, <3>4, <3>5, <3>6, <3>7 DEF Done
  <2>. QED
    BY <2>1, <2>2, <2>4, <2>5 DEF IInv
<1>13. UnderLock'
  <2> SUFFICES ASSUME "stale lock" \notin mishaps' PROVE UnderLock'
    BY DEF UnderLock
  <2>1. "stale lock" \notin mishaps
    BY FlagsStay DEF Clears
  <2>2. \A b \in backups' : content'[b].layout # "final"
    <3>1. \A b \in backups : b \in Made /\ content[b].layout # "final"
      BY <1>2, <2>1 DEF IInv, UnderLock
    <3>. QED
      BY <3>1 DEF Clears
  <2>3. ASSUME NEW q \in Process, Locked(q)', op'[q].step \in {"locked", "backup", "stage", "displace", "land"}
        PROVE  op'[q].tree = package'
    <3>1. q # p /\ op'[q] = op[q] /\ Locked(q)
      BY <2>3 DEF Clears, Locked
    <3>. QED
      BY <2>1, <2>3, <3>1 DEF IInv, UnderLock, Clears
  <2>4. ASSUME NEW q \in Process, op'[q].command = "migrate", op'[q].step \in {"backup", "stage", "displace"}
        PROVE  content'[package'].layout = "legacy"
    <3>1. op'[q] = op[q] /\ Locked(q)
      BY <2>4 DEF Clears, Locked
    <3>2. content[package].layout = "legacy" /\ op[q].tree = package /\ op[q].tree \in Made
      BY <2>1, <2>4, <3>1 DEF IInv, UnderLock, Locks
    <3>. QED
      BY <1>6, <3>2 DEF Clears
  <2>. QED
    BY <2>2, <2>3, <2>4 DEF UnderLock
<1>14. AllAccounted'
  <2> SUFFICES ASSUME Calm' PROVE AllAccounted'
    BY DEF AllAccounted
  <2>1. Calm /\ "interrupt" \notin mishaps'
    BY DEF Calm, Clears
  <2>2. ASSUME NEW q \in Process, op'[q].step = "displace" \/ Swapping(q)'
        PROVE  /\ q # p /\ op'[q] = op[q]
               /\ op[q].staged \in Made /\ content'[op[q].staged] = content[op[q].staged]
               /\ Swapping(q) => op[q].displaced \in Made /\ content'[op[q].displaced] = content[op[q].displaced]
    <3>1. q # p /\ op'[q] = op[q]
      BY <2>2 DEF Clears, Swapping
    <3>2. op[q].staged \in Pending(q) /\ op[q].staged \in Made
      BY <1>2, <2>2, <3>1 DEF IInv, Apart, Swapping, Pending, Copy
    <3>3. Swapping(q) => op[q].displaced \in Pending(q) /\ op[q].displaced \in Made
      BY <1>2 DEF IInv, Apart, Swapping, Pending, Original
    <3>. QED
      BY <1>6, <3>1, <3>2, <3>3
  <2>3. \A q \in Process : Swapping(q)' <=> Swapping(q)
    BY DEF Swapping, Clears
  <2>4. package' # Nothing => content'[package'].layout # "none"
    BY <1>2, <1>6, <2>1 DEF IInv, AllAccounted, Clears
  <2>5. "leftover" \notin mishaps' => \A t \in hidden' : \E q \in Process : t \in Pending(q)'
    BY <1>1, <2>1 DEF IInv, AllAccounted, Clears
  <2>. QED
    BY <2>1, <2>2, <2>3, <2>4, <2>5 DEF IInv, AllAccounted, Swapping, Clears
<1>15. EntriesKept'
  <2> SUFFICES ASSUME mishaps' \subseteq {"leftover"} PROVE EntriesKept'
    BY DEF EntriesKept
  <2>1. mishaps \subseteq {"leftover"}
    BY DEF Clears
  <2>2. \A q \in Process : op'[q].step \in {"displace", "swap", "putback", "land"} => op'[q] = op[q]
    BY DEF Clears
  <2>3. \A q \in Process : /\ Swapping(q) => op[q].displaced \in Made
                           /\ op[q].step \in {"displace", "swap"} => op[q].staged \in Made
    BY <1>2 DEF IInv, Apart, Swapping
  <2>4. /\ \A t \in Made : content'[t].entries = content[t].entries
        /\ package' = package /\ said' = said
    BY DEF Clears
  <2>. QED
    BY <1>2, <2>1, <2>2, <2>3, <2>4 DEF IInv, EntriesKept, Swapping
<1>. QED
  BY <1>7, <1>8, <1>9, <1>10, <1>11, <1>12, <1>13, <1>14, <1>15 DEF IInv

\* A directory that is removed in part keeps its number.
LEMMA LeavesEffect ==
    ASSUME TypeOK, NEW t \in Made, Leaves(t)
    PROVE  /\ Made' = Made /\ content'[t].layout \in {content[t].layout, "none"}
           /\ \A u \in Made : content'[u] \in Content /\ content'[u].entries = content[u].entries
           /\ \A u \in Made \ {t} : content'[u] = content[u]
<1>1. PICK layout \in {content[t].layout, "none"} : content' = [content EXCEPT ![t].layout = layout]
  BY DEF Leaves
<1>2. content[t] \in Content /\ layout \in Layout
  BY <1>1, DiskType DEF Layout
<1>3. Made' = Made /\ \A u \in Made \ {t} : content'[u] = content[u]
  BY <1>1 DEF Made
<1>4. content'[t] = [content[t] EXCEPT !.layout = layout]
  BY <1>1 DEF Made
<1>5. content'[t] \in Content /\ content'[t].entries = content[t].entries /\ content'[t].layout = layout
  BY <1>2, <1>4 DEF Content
<1>. QED
  BY <1>1, <1>3, <1>5, DiskType

\* The replaced directory goes.
LEMMA SweepKeepsIInv ==
    ASSUME IInv, NEW p \in Process, Sweep(p)
    PROVE  IInv'
<1>1. Goes(p, "release") /\ "release" \in Steps /\ op[p].step = "sweep"
  BY DEF Sweep, Steps
<1>2. op[p].command \in {"migrate", "rollback"}
  BY <1>1, OpType DEF IInv, Paths, Commands
<1>3. hidden' = hidden \ Pending(p)
  BY <1>1 DEF Sweep, Pending, Copy, Original
<1>4. UNCHANGED <<content, package, backups, holder, calls, said, mishaps>>
  BY DEF Sweep, history
<1>5. Made' = Made
  BY <1>4 DEF Made
<1>6. Clears(p)
  BY <1>1, <1>2, <1>3, <1>4, <1>5, GoEffect, DiskType DEF IInv, Clears
<1>. QED
  BY <1>6, ClearsKeepsIInv

\* The replaced directory stays, or a part of it.
LEMMA SweepFailsKeepsIInv ==
    ASSUME IInv, NEW p \in Process, SweepFails(p)
    PROVE  IInv'
<1>1. Goes(p, "release") /\ "release" \in Steps /\ op[p].step = "sweep"
  BY DEF SweepFails, Steps
<1>2. op[p].command \in {"migrate", "rollback"}
  BY <1>1, OpType DEF IInv, Paths, Commands
<1>3. Pending(p) = {op[p].displaced} /\ op[p].displaced \in hidden /\ op[p].displaced \in Made
  BY <1>1, DiskType DEF IInv, Apart, Pending, Copy, Original
<1>4. /\ Leaves(op[p].displaced) /\ mishaps' = mishaps \cup {"leftover"}
      /\ UNCHANGED <<package, backups, hidden, holder, calls, said>>
  BY DEF SweepFails
<1>5. Clears(p)
  BY <1>1, <1>2, <1>3, <1>4, GoEffect, LeavesEffect, DiskType DEF IInv, Apart, Clears
<1>. QED
  BY <1>5, ClearsKeepsIInv

\* Ctrl-C after the swap: the migration is undone all but for the package.
LEMMA SweepInterruptedKeepsIInv ==
    ASSUME IInv, NEW p \in Process, SweepInterrupted(p)
    PROVE  IInv'
<1>1. /\ op' \in [Process -> Operation] /\ \A q \in Process \ {p} : op'[q] = op[q]
      /\ op[p].step = "sweep" /\ op'[p].step = "undo" /\ op'[p].staged = Nothing
      /\ op'[p].command = op[p].command /\ op'[p].tree = op[p].tree
      /\ op'[p].backup = op[p].backup /\ op'[p].displaced = op[p].displaced /\ op'[p].entry = op[p].entry
  <2>1. op \in [Process -> Operation] /\ op[p] \in Operation
    BY DEF IInv, TypeOK
  <2>2. [op[p] EXCEPT !.step = "undo", !.failed = TRUE, !.staged = Nothing] \in Operation
    BY <2>1 DEF Operation, Steps
  <2>3. op[p].step = "sweep"
        /\ op' = [op EXCEPT ![p] = [op[p] EXCEPT !.step = "undo", !.failed = TRUE, !.staged = Nothing]]
    BY <2>1 DEF SweepInterrupted
  <2>. QED
    BY <2>1, <2>2, <2>3 DEF Operation
<1>2. op[p].command \in {"migrate", "rollback"}
  BY <1>1, OpType DEF IInv, Paths, Commands
<1>3. Pending(p) = {op[p].displaced} /\ op[p].displaced \in hidden /\ op[p].displaced \in Made
  BY <1>1, DiskType DEF IInv, Apart, Pending, Copy, Original
<1>4. mishaps' = mishaps \cup {"interrupt"} /\ UNCHANGED <<package, backups, holder, calls, said>>
  BY DEF SweepInterrupted
<1>5. CASE Leaves(op[p].displaced) /\ UNCHANGED hidden
  <2>1. Clears(p)
    BY <1>1, <1>2, <1>3, <1>4, <1>5, LeavesEffect, DiskType DEF IInv, Apart, Clears
  <2>. QED
    BY <2>1, ClearsKeepsIInv
<1>6. CASE hidden' = hidden \ {op[p].displaced} /\ UNCHANGED content
  <2>1. Made' = Made
    BY <1>6 DEF Made
  <2>2. Clears(p)
    BY <1>1, <1>2, <1>3, <1>4, <1>6, <2>1, DiskType DEF IInv, Clears
  <2>. QED
    BY <2>2, ClearsKeepsIInv
<1>. QED
  BY <1>5, <1>6 DEF SweepInterrupted

\* The copy goes, and the backup a migration made.
LEMMA UndoKeepsIInv ==
    ASSUME IInv, NEW p \in Process, Undo(p)
    PROVE  IInv'
<1>1. Goes(p, "release") /\ "release" \in Steps /\ op[p].step = "undo"
  BY DEF Undo, Steps
<1>2. op[p].command \in {"migrate", "rollback"}
  BY <1>1, OpType DEF IInv, Paths, Commands
<1>3. hidden' = hidden \ Pending(p) /\ backups' = backups \ Own(p)
  BY <1>1, DiskType DEF IInv, Undo, Pending, Copy, Original, Own
<1>4. UNCHANGED <<content, package, holder, calls, said, mishaps>>
  BY DEF Undo, history
<1>5. Made' = Made
  BY <1>4 DEF Made
<1>6. Clears(p)
  BY <1>1, <1>2, <1>3, <1>4, <1>5, GoEffect, DiskType DEF IInv, Clears
<1>. QED
  BY <1>6, ClearsKeepsIInv

\* One of the two is not, or not wholly, removed.
LEMMA UndoFailsKeepsIInv ==
    ASSUME IInv, NEW p \in Process, UndoFails(p)
    PROVE  IInv'
<1>1. Goes(p, "release") /\ "release" \in Steps /\ op[p].step = "undo"
  BY DEF UndoFails, Steps
<1>2. op[p].command \in {"migrate", "rollback"}
  BY <1>1, OpType DEF IInv, Paths, Commands
<1>3. Pending(p) = {op[p].staged} \ {Nothing} /\ Pending(p) \subseteq hidden
  BY <1>1 DEF IInv, Apart, Pending, Copy, Original
<1>4. PICK t \in Own(p) \cup Pending(p) :
         Leaves(t) /\ hidden' = (IF t = op[p].staged THEN hidden ELSE hidden \ {op[p].staged})
  BY <1>3 DEF UndoFails, Own
<1>5. Own(p) \subseteq backups
  BY <1>1 DEF IInv, OwnBackup, Own, Undoable
<1>6. t \in Made /\ hidden' \subseteq hidden /\ hidden \ Pending(p) \subseteq hidden'
  BY <1>3, <1>4, <1>5, DiskType DEF IInv
<1>7. mishaps' = mishaps \cup {"leftover"} /\ UNCHANGED <<package, backups, holder, calls, said>>
  BY DEF UndoFails
<1>8. Clears(p)
  BY <1>1, <1>2, <1>4, <1>6, <1>7, GoEffect, LeavesEffect DEF IInv, Clears
<1>. QED
  BY <1>8, ClearsKeepsIInv

\* A killed process lets go of its lock and leaves its directories behind.
LEMMA CrashKeepsIInv ==
    ASSUME IInv, NEW p \in Process, Crash(p)
    PROVE  IInv'
<1>1. /\ op' \in [Process -> Operation] /\ \A q \in Process \ {p} : op'[q] = op[q]
      /\ op'[p].step = "idle" /\ op'[p].command = "none"
      /\ op'[p].tree = Nothing /\ op'[p].backup = Nothing /\ op'[p].staged = Nothing
      /\ op'[p].displaced = Nothing
      /\ DOMAIN holder' = Made /\ \A t \in Made : holder'[t] = (IF holder[t] = p THEN Nothing ELSE holder[t])
      /\ UNCHANGED <<content, package, backups, hidden, calls, said>>
  BY EndEffect DEF IInv, Crash
<1>2. mishaps' = mishaps \cup {"crash"}
  BY DEF Crash
<1>3. /\ \A q \in Process \ {p} : Copy(q)' = Copy(q) /\ Original(q)' = Original(q) /\ Pending(q)' = Pending(q)
      /\ Copy(p)' = {} /\ Original(p)' = {} /\ Pending(p)' = {}
  BY <1>1 DEF Pending, Copy, Original
<1>4. Paths'
  BY <1>1, OpType DEF IInv, Paths
<1>5. Locks'
  <2>1. \A q \in Process \ {p} : Locked(q)' <=> Locked(q)
    BY <1>1 DEF Locked
  <2>2. ~Locked(p)' /\ op'[p].step # "wait" /\ Made' = Made
    BY <1>1 DEF Locked, Made
  <2>3. ASSUME NEW q \in Process, NEW t \in Made, holder'[t] = q
        PROVE  q # p /\ holder[t] = q
    <3>1. q # Nothing
      BY MigrationAssumption
    <3>. QED
      BY <1>1, <2>3, <3>1
  <2>. QED
    BY <1>1, <2>1, <2>2, <2>3 DEF IInv, Locks
<1>6. TypeOK'
  <2>1. HoldersShow'
    BY <1>1, <1>4, <1>5, HoldersFollowNext DEF HoldersFollow
  <2>2. \A q \in Process : {op'[q].tree, op'[q].backup, op'[q].staged, op'[q].displaced} \subseteq Made' \cup {Nothing}
    BY <1>1, OpType, DiskType DEF IInv, Made
  <2>3. mishaps' \subseteq Mishap
    BY <1>2 DEF IInv, TypeOK, Mishap
  <2>4. \A t \in Made : holder'[t] \in Process \cup {Nothing}
    <3>1. \A t \in Made : holder[t] \in Process \cup {Nothing}
      BY DEF IInv, TypeOK
    <3>. QED
      BY <1>1, <3>1
  <2>. QED
    BY <1>1, <2>1, <2>2, <2>3, <2>4 DEF IInv, TypeOK, Made, HoldersShow
<1>7. Apart'
  BY <1>1, <1>3 DEF IInv, Apart
<1>8. OwnBackup'
  BY <1>1 DEF IInv, OwnBackup, Undoable
<1>9. Protected' \/ FirstOnly' \/ Done'
  <2>1. CASE Protected
    BY <1>1, <2>1 DEF Protected, Undoable
  <2>2. CASE FirstOnly /\ Undoable(p) /\ op[p].backup # Nothing
    <3>1. /\ op[p].backup \in backups /\ content[op[p].backup].layout = "legacy"
          /\ \A q \in Process \ {p} : Undoable(q) => op[q].backup # op[p].backup
      BY <2>2 DEF FirstOnly, IInv, OwnBackup
    <3>. QED
      BY <1>1, <3>1 DEF Protected, Undoable
  <2>3. CASE FirstOnly /\ ~(Undoable(p) /\ op[p].backup # Nothing)
    <3>1. \A b \in backups' : Owned(b)'
      <4>1. ASSUME NEW b \in backups PROVE content[b].layout = "none" \/ \E q \in Process \ {p} : Undoable(q) /\ op[q].backup = b
        <5>1. b # Nothing
          BY DiskType DEF IInv
        <5>. QED
          BY <2>3, <5>1 DEF FirstOnly, Owned
      <4>. QED
        BY <1>1, <4>1 DEF Owned, Undoable
    <3>2. /\ 1 \in Made' /\ content'[1].layout = "legacy"
          /\ package' = 1 \/ 1 \in hidden'
          /\ package' \notin {1, Nothing} => content'[package'].layout = "none"
      BY <1>1, <2>3 DEF FirstOnly, Made
    <3>3. Nothing # 1
      BY <2>3, DiskType DEF IInv, FirstOnly
    <3>4. \A q \in Process :
            /\ op'[q].command # "rollback" /\ op'[q].step # "sweep"
            /\ Migrating(q)' => op'[q].tree = 1
            /\ op'[q].step \in {"backup", "stage", "displace"} => package' = 1
            /\ Swapping(q)' => op'[q].displaced = 1
            /\ op'[q].step = "displace" \/ Swapping(q)' => content'[op'[q].staged].layout = "final"
            /\ op'[q].staged # 1
            /\ op'[q].tree \notin {1, Nothing} => package' \notin {1, Nothing}
      BY <1>1, <2>3, <3>3 DEF FirstOnly, Migrating, Undoable, Swapping, Owned
    <3>5. \A q \in Process :
            Undoable(q)' /\ op'[q].backup # Nothing => content'[op'[q].backup].layout = "legacy"
      BY <1>1, <2>3 DEF FirstOnly, Undoable
    <3>. QED
      BY <3>1, <3>2, <3>4, <3>5 DEF FirstOnly
  <2>4. CASE Done /\ Undoable(p) /\ op[p].backup # Nothing
    <3>1. /\ op[p].backup \in backups /\ content[op[p].backup].layout = "legacy"
          /\ \A q \in Process \ {p} : Undoable(q) => op[q].backup # op[p].backup
      BY <2>4 DEF Done, IInv, OwnBackup
    <3>. QED
      BY <1>1, <3>1 DEF Protected, Undoable
  <2>5. CASE Done /\ ~(Undoable(p) /\ op[p].backup # Nothing)
    <3>1. \A b \in backups' : Owned(b)'
      <4>1. ASSUME NEW b \in backups PROVE content[b].layout = "none" \/ \E q \in Process \ {p} : Undoable(q) /\ op[q].backup = b
        <5>1. b # Nothing
          BY DiskType DEF IInv
        <5>. QED
          BY <2>5, <5>1 DEF Done, Owned
      <4>. QED
        BY <1>1, <4>1 DEF Owned, Undoable
    <3>2. op[p].command = "migrate" => op[p].step # "sweep"
      BY <2>5 DEF IInv, OwnBackup, Undoable
    <3>3. "interrupt" \notin mishaps' => \E q \in Process : op'[q].command = "migrate" /\ op'[q].step = "sweep"
      BY <1>1, <1>2, <2>5, <3>2 DEF Done
    <3>4. \A q \in Process :
            /\ op'[q].command # "rollback"
            /\ op'[q].step \notin {"backup", "stage", "displace", "swap", "putback"}
            /\ Undoable(q)' /\ op'[q].backup # Nothing => content'[op'[q].backup].layout = "legacy"
      BY <1>1, <2>5 DEF Done, Undoable
    <3>. QED
      BY <1>1, <2>5, <3>1, <3>3, <3>4 DEF Done
  <2>. QED
    BY <2>1, <2>2, <2>3, <2>4, <2>5 DEF IInv
<1>10. UnderLock'
  <2> SUFFICES ASSUME "stale lock" \notin mishaps' PROVE UnderLock'
    BY DEF UnderLock
  <2>1. "stale lock" \notin mishaps
    BY <1>2
  <2>. QED
    BY <1>1, <2>1 DEF IInv, UnderLock, Locked
<1>11. AllAccounted' /\ EntriesKept'
  BY <1>2 DEF AllAccounted, Calm, EntriesKept
<1>. QED
  BY <1>4, <1>5, <1>6, <1>7, <1>8, <1>9, <1>10, <1>11 DEF IInv

LEMMA StutterKeepsIInv == IInv /\ UNCHANGED vars => IInv'
<1> SUFFICES ASSUME IInv, UNCHANGED vars PROVE IInv'
  OBVIOUS
<1>1. /\ content' = content /\ package' = package /\ backups' = backups /\ hidden' = hidden
      /\ holder' = holder /\ op' = op /\ calls' = calls /\ said' = said /\ mishaps' = mishaps
  BY DEF vars
<1>2. TypeOK'
  BY <1>1 DEF IInv, TypeOK, Made
<1>3. Paths' /\ Locks' /\ OwnBackup'
  BY <1>1 DEF IInv, Paths, Locks, Locked, Made, OwnBackup, Undoable
<1>4. Apart'
  BY <1>1 DEF IInv, Apart, Pending, Copy, Original
<1>5. Protected' \/ FirstOnly' \/ Done'
  BY <1>1 DEF IInv, Protected, FirstOnly, Done, Undoable, Migrating, Swapping, Owned, Made
<1>6. UnderLock' /\ EntriesKept'
  BY <1>1 DEF IInv, UnderLock, Locked, EntriesKept, Swapping
<1>7. AllAccounted'
  BY <1>1 DEF IInv, AllAccounted, Calm, Swapping, Pending, Copy, Original, Made
<1>. QED
  BY <1>2, <1>3, <1>4, <1>5, <1>6, <1>7 DEF IInv

LEMMA StepKeepsIInv == IInv /\ [Next]_vars => IInv'
<1> SUFFICES ASSUME IInv, [Next]_vars PROVE IInv'
  OBVIOUS
<1>1. CASE Edit
  BY <1>1, EditKeepsIInv
<1>2. ASSUME NEW p \in Process, Calls(p) PROVE IInv'
  BY <1>2, MigrateKeepsIInv, WriteKeepsIInv, RollbackKeepsIInv DEF Calls
<1>3. ASSUME NEW p \in Process, Works(p) PROVE IInv'
  BY <1>3, OpenKeepsIInv, AcquireKeepsIInv, GiveUpKeepsIInv, ReleaseKeepsIInv, ReadsKeepsIInv,
     LandsKeepsIInv, ClassifyKeepsIInv, BackupKeepsIInv, StageKeepsIInv, CopyFailsKeepsIInv,
     DisplaceKeepsIInv, SwapKeepsIInv, SwapFailsKeepsIInv, PutBackKeepsIInv, SweepKeepsIInv,
     SweepFailsKeepsIInv, SweepInterruptedKeepsIInv, StaysDisplacedKeepsIInv, UndoKeepsIInv,
     UndoFailsKeepsIInv, CrashKeepsIInv DEF Works
<1>. QED
  BY <1>1, <1>2, <1>3, StutterKeepsIInv DEF Next

LEMMA InductiveInvariant == Spec => []IInv
BY InitIInv, StepKeepsIInv, PTL DEF Spec

----------------------------------------------------------------------------
(* What follows for the runs' properties.                                  *)

\* State types; a process that is past the wait of its command shows as the
\* holder of one directory's lock and an idle one holds none.
THEOREM TypeCorrect == Spec => []TypeOK
<1>1. IInv => TypeOK
  BY DEF IInv
<1>. QED
  BY <1>1, InductiveInvariant, PTL

\* Whatever fails, dies, is interrupted or intrudes during _replace_directory,
\* the clean-ups or rollback_migration, some directory on disk is a whole package.
THEOREM CopySurvives == Spec => []SomeCopySurvives
<1>1. IInv => SomeCopySurvives
  <2> SUFFICES ASSUME IInv PROVE \E t \in OnDisk : content[t].layout # "none"
    BY DEF SomeCopySurvives
  <2>1. CASE Protected
    BY <2>1 DEF Protected, OnDisk
  <2>2. CASE FirstOnly
    <3>1. 1 # Nothing
      BY <2>2, DiskType DEF IInv, FirstOnly
    <3>. QED
      BY <2>2, <3>1 DEF FirstOnly, OnDisk
  <2>3. CASE Done
    BY <2>3 DEF Done, OnDisk
  <2>. QED
    BY <2>1, <2>2, <2>3 DEF IInv
<1>. QED
  BY <1>1, InductiveInvariant, PTL

\* While a migrated package is at the path its legacy form is kept as a backup,
\* unless Ctrl-C has entered the except clause of a command that had swapped.
THEOREM BackupStays == Spec => []MigratedHasBackup
<1>1. IInv => MigratedHasBackup
  <2> SUFFICES ASSUME IInv, "interrupt" \notin mishaps, package # Nothing,
                      content[package].layout = "final"
               PROVE  \E b \in backups : content[b].layout = "legacy"
    BY DEF MigratedHasBackup
  <2>1. ~FirstOnly
    BY DEF FirstOnly
  <2>2. CASE Done
    <3>1. PICK p \in Process : op[p].command = "migrate" /\ op[p].step = "sweep"
      BY <2>2 DEF Done
    <3>. QED
      BY <2>2, <3>1 DEF Done, IInv, OwnBackup, Undoable
  <2>. QED
    BY <2>1, <2>2 DEF IInv, Protected
<1>. QED
  BY <1>1, InductiveInvariant, PTL

\* A second migration that waited for the lock finds the package migrated and
\* does nothing, unless it was granted the lock of a displaced directory.
THEOREM SecondMigrationBacksOff == Spec => []MigratedOnce
<1>1. IInv => MigratedOnce
  BY DEF IInv, UnderLock, MigratedOnce
<1>. QED
  BY <1>1, InductiveInvariant, PTL

\* Between commands the package is at its path and whole, unless a process was
\* killed, an interrupt or a second error kept it from being put back, or the
\* path was opened between the two renames; and no .staging- directory is left,
\* unless the removal of a directory failed.
THEOREM PackageReturns == Spec => []PackageIsThere
<1>1. IInv => PackageIsThere
  <2> SUFFICES ASSUME IInv, Quiet, Calm
               PROVE  /\ package # Nothing /\ content[package].layout # "none"
                      /\ "leftover" \notin mishaps => hidden = {}
    BY DEF PackageIsThere, Calm
  <2>1. \A p \in Process : ~Swapping(p) /\ Pending(p) = {}
    BY DEF Quiet, Swapping, Pending, Copy, Original
  <2>. QED
    BY <2>1 DEF IInv, AllAccounted
<1>. QED
  BY <1>1, InductiveInvariant, PTL

\* Between commands every entry that `write` reported, and no rollback has
\* undone, is in the package, unless a command was killed, interrupted, opened
\* the path between the renames, or got the lock of a directory swapped away.
THEOREM EntriesStay == Spec => []EntriesSurviveMigration
<1>1. IInv => EntriesSurviveMigration
  <2> SUFFICES ASSUME IInv, Quiet, mishaps \subseteq {"leftover"} PROVE said \subseteq Entries
    BY DEF EntriesSurviveMigration
  <2>1. \A p \in Process : ~Swapping(p)
    BY DEF Quiet, Swapping
  <2>2. package # Nothing
    BY <2>1 DEF IInv, AllAccounted, Calm
  <2>. QED
    BY <2>2 DEF IInv, EntriesKept, Entries
<1>. QED
  BY <1>1, InductiveInvariant, PTL

=============================================================================
