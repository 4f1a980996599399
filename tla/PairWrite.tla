------------------------------- MODULE PairWrite -------------------------------
(***************************************************************************)
(* How a command holds the lock of a directory and replaces its documents  *)
(* (agent_checkpoint/storage.py): one file, or a pair of files of which    *)
(* the second is replaced last and whose first is restored when that fails.*)
(* Every process may die, and every file operation may fail, at each step. *)
(*                                                                         *)
(* What a command reads and decides under the lock belongs to its client   *)
(* (WorkStore, CheckpointStore): Acquired(p) is where the client's step    *)
(* starts, Submit and Refuse are how it ends.                              *)
(*                                                                         *)
(* Left out: the temporary names (unique per call), the symlink checks on  *)
(* path components, and power loss (the code syncs files, not directories).*)
(***************************************************************************)
EXTENDS FiniteSets, Naturals, Sequences

CONSTANTS
    Process,    \* processes that run commands on the directory
    Nothing,    \* no lock holder; no file; no backup
    MishapCap   \* bound: kinds of mishap in one behaviour, each any number of times

ASSUME ProcessAssumption == Nothing \notin Process /\ MishapCap \in Nat

VARIABLES
    lock,       \* the process whose flock is granted
    files,      \* the two documents
    op,         \* per process, how far its command is
    litter,     \* kinds of temporary files nobody will remove any more
    mishaps     \* what has gone wrong so far beyond a reported error

storage == <<lock, files, op, litter, mishaps>>

File == {"first", "second"}
Temporary == File \cup {"backup"}
Mishap == {"crash", "interrupt", "rollback", "unlink", "stat"}
Steps == {"idle", "wait", "locked", "stage", "backup", "swap", "rollback", "clean", "release"}
Outcomes == {"none", "done", "refused", "error"}

\* `new` is what will replace each file, `staged` the temporaries on disk.
Idle == [step |-> "idle", outcome |-> "none", new |-> <<>>, staged |-> {}, saved |-> Nothing]

InitStorage(first, second) ==
    /\ lock = Nothing
    /\ files = [first |-> first, second |-> second]
    /\ op = [p \in Process |-> Idle]
    /\ litter = {}
    /\ mishaps = {}

StorageTypeOK ==
    /\ lock \in Process \cup {Nothing}
    /\ DOMAIN files = File
    /\ \A p \in Process :
          /\ op[p].step \in Steps
          /\ op[p].outcome \in Outcomes
          /\ DOMAIN op[p].new \subseteq File
          /\ op[p].staged \subseteq Temporary
    /\ litter \subseteq Temporary
    /\ mishaps \subseteq Mishap

Happens(mishap) ==
    /\ Cardinality(mishaps \cup {mishap}) <= MishapCap
    /\ mishaps' = mishaps \cup {mishap}

----------------------------------------------------------------------------
(* The lock.                                                               *)

Open(p) ==
    /\ op[p].step = "idle"
    /\ op' = [op EXCEPT ![p] = [Idle EXCEPT !.step = "wait"]]
    /\ UNCHANGED <<lock, files, litter, mishaps>>

\* _acquire_lock: one successful try.
Acquire(p) ==
    /\ op[p].step = "wait"
    /\ lock = Nothing
    /\ lock' = p
    /\ op' = [op EXCEPT ![p].step = "locked"]
    /\ UNCHANGED <<files, litter, mishaps>>

\* _acquire_lock: the deadline is compared only after a try that failed.
GiveUp(p) ==
    /\ op[p].step = "wait"
    /\ lock # Nothing
    /\ op' = [op EXCEPT ![p] = Idle]
    /\ UNCHANGED <<lock, files, litter, mishaps>>

\* _release_lock, on every way out of the locked block.
Release(p) ==
    /\ op[p].step = "release"
    /\ lock' = Nothing
    /\ op' = [op EXCEPT ![p] = Idle]
    /\ UNCHANGED <<files, litter, mishaps>>

----------------------------------------------------------------------------
(* The client's step under the lock.                                       *)

Acquired(p) == op[p].step = "locked"

\* A refusal that returns without releasing the lock.
RefuseKeepsLock(p) ==
    /\ op' = [op EXCEPT ![p] = Idle]
    /\ UNCHANGED <<lock, files, litter, mishaps>>

Refuse(p) ==
    /\ op' = [op EXCEPT ![p].step = "release", ![p].outcome = "refused"]
    /\ UNCHANGED <<lock, files, litter, mishaps>>

\* _atomic_write for one file, _atomic_write_pair for two.
Submit(p, new) ==
    /\ op' = [op EXCEPT ![p].step = "stage", ![p].new = new]
    /\ UNCHANGED <<lock, files, litter, mishaps>>

----------------------------------------------------------------------------
(* The replacement.                                                        *)

IsPair(p) == DOMAIN op[p].new = File

\* The pair in the other order: the second document first.
InOrderSwapped(todo) == IF "second" \in todo THEN "second" ELSE "first"

\* Staging and replacing both take the first document first.
InOrder(todo) == IF "first" \in todo THEN "first" ELSE "second"

\* _stage_text_at.
Stage(p) ==
    LET todo == DOMAIN op[p].new \ op[p].staged
        f    == InOrder(todo)
    IN  /\ op[p].step = "stage"
        /\ op' = [op EXCEPT ![p].staged = @ \cup {f},
                            ![p].step = IF todo # {f} THEN "stage"
                                        ELSE IF IsPair(p) THEN "backup" ELSE "swap"]
        /\ UNCHANGED <<lock, files, litter, mishaps>>

\* The bytes of the first document are kept when there is one.
Backup(p) ==
    /\ op[p].step = "backup"
    /\ op' = [op EXCEPT ![p].step = "swap",
                        ![p].saved = files["first"],
                        ![p].staged = IF files["first"] = Nothing THEN @ ELSE @ \cup {"backup"}]
    /\ UNCHANGED <<lock, files, litter, mishaps>>

\* An OSError while nothing is replaced yet.
StageFails(p) ==
    /\ op[p].step \in {"stage", "backup"}
    /\ op' = [op EXCEPT ![p].step = "clean", ![p].outcome = "error"]
    /\ UNCHANGED <<lock, files, litter, mishaps>>

\* Looking for the first document fails after its new text is staged, before
\* the try block whose finally clause would remove that temporary.
LookFails(p) ==
    /\ op[p].step = "stage"
    /\ IsPair(p) /\ op[p].staged = {"first"}
    /\ op' = [op EXCEPT ![p].staged = {}, ![p].step = "release", ![p].outcome = "error"]
    /\ litter' = litter \cup {"first"}
    /\ Happens("stat")
    /\ UNCHANGED <<lock, files>>

\* _replace_at of the next staged document.
Swap(p) ==
    LET todo == op[p].staged \cap File
        f    == InOrder(todo)
    IN  /\ op[p].step = "swap"
        /\ files' = [files EXCEPT ![f] = op[p].new[f]]
        /\ op' = IF todo = {f}
                 THEN [op EXCEPT ![p].staged = @ \ {f}, ![p].step = "clean", ![p].outcome = "done"]
                 ELSE [op EXCEPT ![p].staged = @ \ {f}]
        /\ UNCHANGED <<lock, litter, mishaps>>

\* The first document has been replaced, the second not yet.
HalfSwapped(p) == IsPair(p) /\ op[p].staged \cap File = {"second"}

\* A failing replacement is reported without undoing the one before it.
SwapFailsWithoutRollback(p) ==
    /\ op[p].step = "swap"
    /\ op' = [op EXCEPT ![p].step = "clean", ![p].outcome = "error"]
    /\ UNCHANGED <<lock, files, litter, mishaps>>

SwapFails(p) ==
    /\ op[p].step = "swap"
    /\ op' = [op EXCEPT ![p].step = IF HalfSwapped(p) THEN "rollback" ELSE "clean",
                        ![p].outcome = "error"]
    /\ UNCHANGED <<lock, files, litter, mishaps>>

\* The backup replaces the first document, or the new file is removed.
Rollback(p) ==
    /\ op[p].step = "rollback"
    /\ files' = [files EXCEPT !["first"] = op[p].saved]
    /\ op' = [op EXCEPT ![p].staged = @ \ {"backup"}, ![p].step = "clean"]
    /\ UNCHANGED <<lock, litter, mishaps>>

\* "Checkpoint rollback failed".
RollbackFails(p) ==
    /\ op[p].step = "rollback"
    /\ op' = [op EXCEPT ![p].step = "clean"]
    /\ Happens("rollback")
    /\ UNCHANGED <<lock, files, litter>>

\* KeyboardInterrupt: the finally clauses run, but the rollback, which only an
\* OSError reaches, does not.
Interrupt(p) ==
    /\ op[p].step \in {"stage", "backup", "swap", "rollback"}
    /\ op' = [op EXCEPT ![p].step = "clean", ![p].outcome = "error"]
    /\ Happens("interrupt")
    /\ UNCHANGED <<lock, files, litter>>

\* The finally clause: unlink what is still staged.
Clean(p) ==
    /\ op[p].step = "clean"
    /\ op' = [op EXCEPT ![p].staged = {}, ![p].step = "release"]
    /\ UNCHANGED <<lock, files, litter, mishaps>>

\* An unlink fails: that temporary and the later ones stay, and the call
\* raises whatever it has done so far.
CleanFails(p) ==
    /\ op[p].step = "clean"
    /\ \E kept \in SUBSET op[p].staged :
          /\ kept # {}
          /\ "backup" \in op[p].staged => "backup" \in kept
          /\ {"first", "second"} \subseteq op[p].staged /\ "first" \in kept => "second" \in kept
          /\ litter' = litter \cup kept
    /\ op' = [op EXCEPT ![p].staged = {}, ![p].step = "release", ![p].outcome = "error"]
    /\ Happens("unlink")
    /\ UNCHANGED <<lock, files>>

----------------------------------------------------------------------------
\* A process dies anywhere in its command; the system drops its flock.
Crash(p) ==
    /\ op[p].step # "idle"
    /\ lock' = IF lock = p THEN Nothing ELSE lock
    /\ litter' = litter \cup op[p].staged
    /\ op' = [op EXCEPT ![p] = Idle]
    /\ Happens("crash")
    /\ UNCHANGED files

\* What a process does by itself once it has decided to write.
WriteStep(p) ==
    \/ Stage(p) \/ StageFails(p) \/ LookFails(p)
    \/ Backup(p)
    \/ Swap(p) \/ SwapFails(p)
    \/ Rollback(p) \/ RollbackFails(p)
    \/ Clean(p) \/ CleanFails(p)

Killed(p) == Crash(p) \/ Interrupt(p)

LockStep(p) == Acquire(p) \/ GiveUp(p) \/ Release(p)

\* Some process is between its two replacements, or is about to undo one.
MidCommit == \E p \in Process : op[p].step \in {"swap", "rollback"} /\ HalfSwapped(p)

=============================================================================
