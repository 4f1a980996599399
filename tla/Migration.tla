-------------------------------- MODULE Migration --------------------------------
(***************************************************************************)
(* One legacy package while `work migrate --apply`, rollback_migration,    *)
(* `write` and edits by hand meet on it (work_migration.py).               *)
(*                                                                         *)
(* Migration backs the package up, builds the final layout beside it, and  *)
(* swaps directories in two renames. The lock file lives in the directory  *)
(* that is swapped: a lock belongs to a directory, not to the path, so a   *)
(* directory has a number. Leaving the work root aside, a directory is the *)
(* package, a backup, or hidden under a .staging- name.                    *)
(*                                                                         *)
(* Left out: the categories of packages that are refused for what they     *)
(* contain (links, foreign files), which no other command changes.         *)
(***************************************************************************)
EXTENDS FiniteSets, Naturals

CONSTANTS
    Process,    \* processes that run commands on the package
    Nothing,    \* no directory, no holder
    CallCap,    \* bound: commands in one behaviour
    TreeCap     \* bound: directories ever made

ASSUME MigrationAssumption ==
    Nothing \notin Process \cup (1 .. TreeCap) /\ CallCap \in Nat /\ TreeCap \in Nat \ {0}

VARIABLES
    content,    \* per directory made so far, what it holds
    package,    \* the directory at work/<id>
    backups,    \* directories named .migration-backup-*
    hidden,     \* directories named .staging-*
    holder,     \* per directory, the process that has its lock
    op,         \* per process, how far its command is
    calls,      \* commands so far
    said,       \* entries reported as written and not rolled back
    mishaps     \* what went wrong beyond an error that was undone

vars == <<content, package, backups, hidden, holder, op, calls, said, mishaps>>

Tree == 1 .. TreeCap
Layout == {"legacy", "final", "none"}
Content == [layout : Layout, edited : BOOLEAN, entries : SUBSET (1 .. CallCap)]
Commands == {"none", "migrate", "rollback", "write"}
Steps == {"idle", "open", "wait", "locked", "backup", "stage", "displace", "swap",
          "putback", "sweep", "undo", "land", "release"}

Idle == [command |-> "none", step |-> "idle", tree |-> Nothing, backup |-> Nothing,
         staged |-> Nothing, displaced |-> Nothing, entry |-> 0, seen |-> {}, failed |-> FALSE]

Mishap == {"crash", "interrupt", "intrusion", "leftover", "stale lock"}

Made == DOMAIN content

Operation ==
    [command : Commands, step : Steps, tree : Tree \cup {Nothing}, backup : Tree \cup {Nothing},
     staged : Tree \cup {Nothing}, displaced : Tree \cup {Nothing}, entry : 0 .. CallCap,
     seen : SUBSET (1 .. CallCap), failed : BOOLEAN]

TypeOK ==
    /\ Made = 1 .. Cardinality(Made) /\ Made \subseteq Tree
    /\ \A t \in Made : content[t] \in Content /\ holder[t] \in Process \cup {Nothing}
    /\ DOMAIN holder = Made
    /\ package \in Made \cup {Nothing}
    /\ backups \subseteq Made /\ hidden \subseteq Made
    /\ op \in [Process -> Operation]
    /\ \A p \in Process :
          /\ {op[p].tree, op[p].backup, op[p].staged, op[p].displaced} \subseteq Made \cup {Nothing}
          /\ op[p].command # "rollback" =>
                (op[p].step \notin {"idle", "open", "wait"} <=> \E t \in Made : holder[t] = p)
    /\ calls \in 0 .. CallCap
    /\ said \subseteq 1 .. CallCap
    /\ mishaps \subseteq Mishap

Untouched == [layout |-> "legacy", edited |-> FALSE, entries |-> {}]

Init ==
    /\ content = <<Untouched>>
    /\ package = 1
    /\ backups = {} /\ hidden = {}
    /\ holder = <<Nothing>>
    /\ op = [p \in Process |-> Idle]
    /\ calls = 0
    /\ said = {}
    /\ mishaps = {}

Fresh == Cardinality(Made) + 1

\* A new directory takes the next number; nobody has its lock.
Makes(what) ==
    /\ Fresh \in Tree
    /\ content' = [t \in Made \cup {Fresh} |-> IF t = Fresh THEN what ELSE content[t]]
    /\ holder' = [t \in Made \cup {Fresh} |-> IF t = Fresh THEN Nothing ELSE holder[t]]

disk == <<content, package, backups, hidden, holder>>
history == <<calls, said, mishaps>>

IsUntouched(t) == t # Nothing /\ content[t].layout = "legacy" /\ ~content[t].edited

Begins(p, command) ==
    /\ op[p].step = "idle" /\ calls < CallCap
    /\ calls' = calls + 1
    /\ op' = [op EXCEPT ![p] = command]
    /\ UNCHANGED <<said, mishaps>>

Goes(p, step) == op' = [op EXCEPT ![p].step = step]

----------------------------------------------------------------------------
(* The callers.                                                            *)

\* discover_legacy_packages and the first classify.
Migrate(p) ==
    /\ IsUntouched(package)
    /\ Begins(p, [Idle EXCEPT !.command = "migrate", !.step = "open"])
    /\ UNCHANGED disk

\* rollback_migration, from a whole backup that an ended migration has reported
\* or left. It takes no lock.
Rollback(p, b) ==
    /\ b \in backups /\ content[b].layout # "none"
    /\ \A q \in Process : op[q].command = "migrate" => op[q].backup # b
    /\ Begins(p, [Idle EXCEPT !.command = "rollback", !.step = "stage", !.backup = b])
    /\ UNCHANGED disk

\* `write`: the active package is a directory.
Write(p) ==
    /\ package # Nothing
    /\ Begins(p, [Idle EXCEPT !.command = "write", !.step = "open", !.entry = calls + 1])
    /\ UNCHANGED disk

\* A session confirms the brief or plans units in CURRENT.md.
Edit ==
    /\ package # Nothing /\ content[package].layout # "none"
    /\ ~content[package].edited
    /\ content' = [content EXCEPT ![package].edited = TRUE]
    /\ UNCHANGED <<package, backups, hidden, holder, op, history>>

----------------------------------------------------------------------------
(* The lock of whatever directory is at the path now.                      *)

\* _open_safe_parent(create=True): a path without a directory gets one.
Open(p) ==
    /\ op[p].step = "open"
    /\ IF package # Nothing
       THEN UNCHANGED <<content, package, holder, mishaps>>
       ELSE /\ Makes([layout |-> "none", edited |-> FALSE, entries |-> {}])
            /\ package' = Fresh
            /\ mishaps' = mishaps \cup {"intrusion"}
    /\ op' = [op EXCEPT ![p].step = "wait", ![p].tree = package']
    /\ UNCHANGED <<backups, hidden, calls, said>>

\* The command goes on when the deadline has passed.
AcquireAnyway(p) ==
    /\ op[p].step = "wait"
    /\ holder' = [holder EXCEPT ![op[p].tree] = p]
    /\ mishaps' = mishaps \cup (IF op[p].tree = package THEN {} ELSE {"stale lock"})
    /\ Goes(p, "locked")
    /\ UNCHANGED <<content, package, backups, hidden, calls, said>>

\* The lock may be that of a directory that is no longer the package.
Acquire(p) ==
    /\ op[p].step = "wait" /\ holder[op[p].tree] = Nothing
    /\ holder' = [holder EXCEPT ![op[p].tree] = p]
    /\ mishaps' = mishaps \cup (IF op[p].tree = package THEN {} ELSE {"stale lock"})
    /\ Goes(p, "locked")
    /\ UNCHANGED <<content, package, backups, hidden, calls, said>>

GiveUp(p) ==
    /\ op[p].step = "wait" /\ holder[op[p].tree] # Nothing
    /\ op' = [op EXCEPT ![p] = Idle]
    /\ UNCHANGED <<disk, history>>

Release(p) ==
    /\ op[p].step = "release"
    /\ holder' = IF op[p].tree = Nothing THEN holder ELSE [holder EXCEPT ![op[p].tree] = Nothing]
    /\ op' = [op EXCEPT ![p] = Idle]
    /\ UNCHANGED <<content, package, backups, hidden, history>>

----------------------------------------------------------------------------
(* `write` under the lock: the path is read, then written.                 *)

Entries == IF package = Nothing THEN {} ELSE content[package].entries

Reads(p) ==
    /\ op[p].command = "write" /\ op[p].step = "locked"
    /\ op' = [op EXCEPT ![p].step = "land", ![p].seen = Entries]
    /\ UNCHANGED <<disk, history>>

Lands(p) ==
    LET entries == op[p].seen \cup {op[p].entry} IN
    /\ op[p].step = "land"
    /\ IF package # Nothing
       THEN /\ content' = [content EXCEPT ![package].entries = entries]
            /\ UNCHANGED <<package, holder, mishaps>>
       ELSE /\ Makes([layout |-> "none", edited |-> FALSE, entries |-> entries])
            /\ package' = Fresh
            /\ mishaps' = mishaps \cup {"intrusion"}
    /\ said' = said \cup {op[p].entry}
    /\ Goes(p, "release")
    /\ UNCHANGED <<backups, hidden, calls>>

----------------------------------------------------------------------------
(* _migrate_locked and rollback_migration.                                 *)

\* The package that was waited for is migrated without a second look.
ClassifyOnce(p) ==
    /\ op[p].command = "migrate" /\ op[p].step = "locked"
    /\ Goes(p, "backup")
    /\ UNCHANGED <<disk, history>>

\* The package is classified again under the lock.
Classify(p) ==
    /\ op[p].command = "migrate" /\ op[p].step = "locked"
    /\ Goes(p, IF IsUntouched(package) THEN "backup" ELSE "release")
    /\ UNCHANGED <<disk, history>>

Fails(p) == op' = [op EXCEPT ![p].step = "undo", ![p].failed = TRUE]

Backup(p) ==
    /\ op[p].step = "backup" /\ package # Nothing
    /\ Makes(content[package])
    /\ backups' = backups \cup {Fresh}
    /\ op' = [op EXCEPT ![p].step = "stage", ![p].backup = Fresh]
    /\ UNCHANGED <<package, hidden, history>>

\* The final layout rendered afresh, as for a new package.
StageFresh(p) ==
    /\ op[p].step = "stage"
    /\ IF op[p].command = "rollback" THEN op[p].backup \in backups ELSE package # Nothing
    /\ Makes(IF op[p].command = "rollback" THEN content[op[p].backup]
             ELSE [layout |-> "final", edited |-> FALSE, entries |-> {}])
    /\ hidden' = hidden \cup {Fresh}
    /\ op' = [op EXCEPT ![p].step = "displace", ![p].staged = Fresh]
    /\ UNCHANGED <<package, backups, history>>

\* A copy of the package in its final layout, whose CURRENT.md is written anew,
\* or of the backup as it is.
Stage(p) ==
    /\ op[p].step = "stage"
    /\ IF op[p].command = "rollback" THEN op[p].backup \in backups ELSE package # Nothing
    /\ Makes(IF op[p].command = "rollback" THEN content[op[p].backup]
             ELSE [content[package] EXCEPT !.layout = "final", !.edited = FALSE])
    /\ hidden' = hidden \cup {Fresh}
    /\ op' = [op EXCEPT ![p].step = "displace", ![p].staged = Fresh]
    /\ UNCHANGED <<package, backups, history>>

\* A copy or the first rename fails: nothing has moved yet.
CopyFails(p) ==
    /\ op[p].step \in {"backup", "stage", "displace"}
    /\ Fails(p)
    /\ UNCHANGED <<disk, history>>

\* _replace_directory: the old directory goes first ...
Displace(p) ==
    /\ op[p].step = "displace" /\ package # Nothing
    /\ hidden' = hidden \cup {package}
    /\ package' = Nothing
    /\ mishaps' = mishaps \cup (IF holder[package] \in {p, Nothing} THEN {} ELSE {"stale lock"})
    /\ op' = [op EXCEPT ![p].step = "swap", ![p].displaced = package]
    /\ UNCHANGED <<content, backups, holder, calls, said>>

\* ... and the new one takes its place, unless the place is taken by then.
Swap(p) ==
    /\ op[p].step = "swap" /\ package = Nothing
    /\ package' = op[p].staged
    /\ hidden' = hidden \ {op[p].staged}
    /\ said' = IF op[p].command = "rollback"
               THEN said \cap content[op[p].staged].entries
               ELSE said
    /\ Goes(p, "sweep")
    /\ UNCHANGED <<content, backups, holder, calls, mishaps>>

SwapFails(p) ==
    /\ op[p].step = "swap"
    /\ Goes(p, "putback")
    /\ UNCHANGED <<disk, history>>

\* A failing swap that goes straight to the cleanup.
NoPutBack(p) ==
    /\ op[p].step = "putback"
    /\ Fails(p)
    /\ UNCHANGED <<disk, history>>

PutBack(p) ==
    /\ op[p].step = "putback"
    /\ IF package = Nothing
       THEN /\ package' = op[p].displaced
            /\ hidden' = hidden \ {op[p].displaced}
       ELSE UNCHANGED <<package, hidden>>
    /\ Fails(p)
    /\ UNCHANGED <<content, backups, holder, history>>

\* Ctrl-C after the first rename and before the try block that would put the
\* old directory back; or the putting back fails itself, or is interrupted.
StaysDisplaced(p) ==
    /\ op[p].step \in {"swap", "putback"}
    /\ Fails(p)
    /\ mishaps' = mishaps \cup {"interrupt"}
    /\ UNCHANGED <<disk, calls, said>>

\* The backup goes on success too.
SweepBackup(p) ==
    /\ op[p].step = "sweep"
    /\ hidden' = hidden \ {op[p].displaced}
    /\ backups' = backups \ {op[p].backup}
    /\ Goes(p, "release")
    /\ UNCHANGED <<content, package, holder, history>>

\* rmtree of the displaced directory.
Sweep(p) ==
    /\ op[p].step = "sweep"
    /\ hidden' = hidden \ {op[p].displaced}
    /\ Goes(p, "release")
    /\ UNCHANGED <<content, package, backups, holder, history>>

\* What an rmtree that stops halfway leaves: the directory, whole or in part.
Leaves(t) ==
    \E layout \in {content[t].layout, "none"} : content' = [content EXCEPT ![t].layout = layout]

\* Its errors are ignored: the command succeeds with the directory still there.
SweepFails(p) ==
    /\ op[p].step = "sweep"
    /\ Leaves(op[p].displaced)
    /\ mishaps' = mishaps \cup {"leftover"}
    /\ Goes(p, "release")
    /\ UNCHANGED <<package, backups, hidden, holder, calls, said>>

\* Ctrl-C in it, or just after it, enters the except clause although the new
\* directory has its place; what was staged is not there any more.
SweepInterrupted(p) ==
    /\ op[p].step = "sweep"
    /\ \/ hidden' = hidden \ {op[p].displaced} /\ UNCHANGED content
       \/ Leaves(op[p].displaced) /\ UNCHANGED hidden
    /\ mishaps' = mishaps \cup {"interrupt"}
    /\ op' = [op EXCEPT ![p].step = "undo", ![p].failed = TRUE, ![p].staged = Nothing]
    /\ UNCHANGED <<package, backups, holder, calls, said>>

\* Every directory this command has put under a .staging- name goes.
UndoSweepsAll(p) ==
    /\ op[p].step = "undo"
    /\ hidden' = hidden \ {op[p].staged, op[p].displaced}
    /\ backups' = IF op[p].command = "migrate" THEN backups \ {op[p].backup} ELSE backups
    /\ Goes(p, "release")
    /\ UNCHANGED <<content, package, holder, history>>

\* The except clauses: the staged copy goes, and the backup a migration made.
Undo(p) ==
    /\ op[p].step = "undo"
    /\ hidden' = hidden \ {op[p].staged}
    /\ backups' = IF op[p].command = "migrate" THEN backups \ {op[p].backup} ELSE backups
    /\ Goes(p, "release")
    /\ UNCHANGED <<content, package, holder, history>>

\* An rmtree of theirs fails; the staged copy is the first of the two.
UndoFails(p) ==
    LET own == IF op[p].command = "migrate" THEN {op[p].backup} ELSE {} IN
    /\ op[p].step = "undo"
    /\ \E t \in (own \cup {op[p].staged}) \ {Nothing} :
          /\ Leaves(t)
          /\ hidden' = IF t = op[p].staged THEN hidden ELSE hidden \ {op[p].staged}
    /\ mishaps' = mishaps \cup {"leftover"}
    /\ Goes(p, "release")
    /\ UNCHANGED <<package, backups, holder, calls, said>>

Crash(p) ==
    /\ op[p].step # "idle"
    /\ holder' = [t \in Made |-> IF holder[t] = p THEN Nothing ELSE holder[t]]
    /\ op' = [op EXCEPT ![p] = Idle]
    /\ mishaps' = mishaps \cup {"crash"}
    /\ UNCHANGED <<content, package, backups, hidden, calls, said>>

----------------------------------------------------------------------------

Calls(p) == Migrate(p) \/ Write(p) \/ \E b \in backups : Rollback(p, b)

Works(p) ==
    \/ Open(p) \/ Acquire(p) \/ GiveUp(p) \/ Release(p)
    \/ Reads(p) \/ Lands(p)
    \/ Classify(p) \/ Backup(p) \/ Stage(p) \/ CopyFails(p)
    \/ Displace(p) \/ Swap(p) \/ SwapFails(p) \/ PutBack(p) \/ StaysDisplaced(p)
    \/ Sweep(p) \/ SweepFails(p) \/ SweepInterrupted(p) \/ Undo(p) \/ UndoFails(p)
    \/ Crash(p)

Next == Edit \/ \E p \in Process : Calls(p) \/ Works(p)

Spec == Init /\ [][Next]_vars

----------------------------------------------------------------------------
Quiet == \A p \in Process : op[p].step = "idle"

OnDisk == backups \cup hidden \cup ({package} \ {Nothing})

\* Whatever fails, dies, is interrupted or intrudes, some directory on disk is a
\* whole package.
SomeCopySurvives == \E t \in OnDisk : content[t].layout # "none"

\* A migrated package can be rolled back: its legacy form is kept as a backup
\* from before the swap on, through races, failures and kills, unless Ctrl-C
\* stopped a command after the swap.
MigratedHasBackup ==
    "interrupt" \notin mishaps /\ package # Nothing /\ content[package].layout = "final"
       => \E b \in backups : content[b].layout = "legacy"

\* Migration is applied once: waiting for the lock while another process
\* migrates never migrates, or backs up, a migrated package again, unless the
\* locked directory was swapped away by then (which a rollback does unasked).
MigratedOnce ==
    "stale lock" \notin mishaps => \A b \in backups : content[b].layout # "final"

\* After every command, successful or failed, the package is whole and at its
\* path, unless a process was killed, Ctrl-C or a second error kept it from
\* being put back, or another command opened the path between the two renames;
\* and nothing half made is left, unless a removal failed.
PackageIsThere ==
    Quiet /\ mishaps \cap {"crash", "interrupt", "intrusion"} = {} =>
       /\ package # Nothing /\ content[package].layout # "none"
       /\ "leftover" \notin mishaps => hidden = {}

\* A reported entry is in the package after any number of migrations, and is
\* undone by a rollback only, unless a command was killed, interrupted, opened
\* the path between the renames, or got the lock of a directory swapped away.
EntriesSurviveMigration ==
    Quiet /\ mishaps \subseteq {"leftover"} => said \subseteq Entries

\* apply_migration "leaves the failing package's on-disk state exactly as it was
\* before the attempt": when the command has failed, the legacy package is at
\* its path.
FailureChangesNothing ==
    \A p \in Process :
       op[p].command = "migrate" /\ op[p].failed /\ op[p].step = "release"
          => package # Nothing /\ content[package].layout = "legacy"

=============================================================================
