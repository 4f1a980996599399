-------------------------------- MODULE Packages --------------------------------
(***************************************************************************)
(* The directories under .agent-checkpoint/work, the archive beside them,  *)
(* and the two root files that name the active package (workflows.py,      *)
(* config.py, cli.py): a package is created, pointed to, finished, moved   *)
(* to the archive, or discarded when its creation fails. None of this      *)
(* holds a lock; commands on one project interleave at every file          *)
(* operation, may fail, and may be killed.                                 *)
(*                                                                         *)
(* A directory is known by the number of the command that placed it, a     *)
(* tracker (CURRENT.md) by the number of the package it was written for.   *)
(* What happens inside a tracker is WorkTracker's; here it is open or      *)
(* complete.                                                               *)
(***************************************************************************)
EXTENDS FiniteSets, Naturals

CONSTANTS
    Id,         \* work ids
    Date,       \* dates a package can be archived on
    Process,    \* processes that run commands on the project
    Nothing,    \* no directory, no tracker, no id
    CallCap     \* bound: commands in one behaviour

VARIABLES
    work,       \* per id, the directory of that name
    archive,    \* per id and date, the directory moved there
    active,     \* the id in the pointer file
    prompt,     \* the id in the root CONTINUE_PROMPT.md
    op,         \* per process, how far its command is
    calls,      \* commands so far
    finished,   \* packages whose last unit is resolved
    unarchived, \* those of them whose move to the archive was not tried, or failed
    disturbed   \* a process was killed, or a root file could not be removed

vars == <<work, archive, active, prompt, op, calls, finished, unarchived, disturbed>>

Call == 0 .. CallCap
Tracker == [of : Call, complete : BOOLEAN]
\* `late`: it holds text written after it had been moved to the archive.
Directory == [number : Call, tracker : Tracker \cup {Nothing}, late : BOOLEAN]

ASSUME PackagesAssumption ==
    /\ Nothing \notin Id \cup Date \cup Tracker \cup Directory
    /\ CallCap \in Nat

Steps == {"idle", "place", "point", "prompt", "entry", "discard", "look", "unpoint",
          "unprompt", "remove", "archive", "move", "write", "revise"}

\* `next` is the step after the root files are cleared, `date` the archive's,
\* `seen` the tracker a revision has read.
Idle == [step |-> "idle", id |-> Nothing, number |-> 0, next |-> "idle",
         date |-> Nothing, seen |-> Nothing]

TypeOK ==
    /\ work \in [Id -> Directory \cup {Nothing}]
    /\ archive \in [Id \X Date -> Directory \cup {Nothing}]
    /\ active \in Id \cup {Nothing}
    /\ prompt \in Id \cup {Nothing}
    /\ op \in [Process -> [step : Steps, id : Id \cup {Nothing}, number : Call,
                           next : {"idle", "remove"}, date : Date \cup {Nothing},
                           seen : Tracker \cup {Nothing}]]
    /\ \A p \in Process :
          /\ op[p].id = Nothing <=> op[p].step = "idle"
          /\ op[p].step = "revise" <=> op[p].seen # Nothing
          /\ op[p].next = "remove" => op[p].step \in {"look", "unpoint", "unprompt", "remove"}
          /\ op[p].step = "move" => op[p].date # Nothing
    /\ calls \in Call
    /\ finished \subseteq Call
    /\ unarchived \subseteq Call
    /\ disturbed \in BOOLEAN

Init ==
    /\ work = [id \in Id |-> Nothing]
    /\ archive = [slot \in Id \X Date |-> Nothing]
    /\ active = Nothing
    /\ prompt = Nothing
    /\ op = [p \in Process |-> Idle]
    /\ calls = 0
    /\ finished = {}
    /\ unarchived = {}
    /\ disturbed = FALSE

directories == <<work, archive>>
root == <<active, prompt>>
history == <<calls, finished, unarchived, disturbed>>

HasTracker(id) == work[id] # Nothing /\ work[id].tracker # Nothing

Begins(p, command) ==
    /\ op[p].step = "idle"
    /\ calls < CallCap
    /\ calls' = calls + 1
    /\ op' = [op EXCEPT ![p] = command]

Goes(p, step) == op' = [op EXCEPT ![p].step = step]
Ends(p) == op' = [op EXCEPT ![p] = Idle]
Proceeds(p) == IF op[p].next = "idle" THEN Ends(p) ELSE Goes(p, op[p].next)

----------------------------------------------------------------------------
(* `workflow`: place the directory, then pointer, prompt and first entry.  *)

\* initialize_workflow: the check that the id is free.
Create(p, id) ==
    /\ work[id] = Nothing
    /\ Begins(p, [Idle EXCEPT !.step = "place", !.id = id, !.number = calls + 1])
    /\ UNCHANGED <<directories, root, finished, unarchived, disturbed>>

New(number) == [number |-> number, tracker |-> [of |-> number, complete |-> FALSE], late |-> FALSE]

\* initialize_workflow called inside the try block whose handler discards.
PlaceInsideTry(p) ==
    LET id == op[p].id IN
    /\ op[p].step = "place"
    /\ IF work[id] = Nothing
       THEN /\ work' = [work EXCEPT ![id] = New(op[p].number)]
            /\ Goes(p, "point")
       ELSE /\ Goes(p, "discard")
            /\ UNCHANGED work
    /\ UNCHANGED <<archive, root, history>>

\* os.replace of the staged copy: a directory that is not empty refuses it.
Place(p) ==
    LET id == op[p].id IN
    /\ op[p].step = "place"
    /\ IF work[id] = Nothing
       THEN /\ work' = [work EXCEPT ![id] = New(op[p].number)]
            /\ Goes(p, "point")
       ELSE /\ Ends(p)
            /\ UNCHANGED work
    /\ UNCHANGED <<archive, root, history>>

\* write_active_work_id.
Point(p) ==
    /\ op[p].step = "point"
    /\ active' = op[p].id
    /\ Goes(p, "prompt")
    /\ UNCHANGED <<directories, prompt, history>>

\* write_root_continue_prompt.
Prompt(p) ==
    /\ op[p].step = "prompt"
    /\ prompt' = op[p].id
    /\ Goes(p, "entry")
    /\ UNCHANGED <<directories, active, history>>

\* A write below work/<id> creates the directory when it is not there.
Holding(id, tracker) ==
    IF work[id] = Nothing
    THEN [number |-> 0, tracker |-> tracker, late |-> FALSE] ELSE work[id]

\* CheckpointStore.write, for `workflow` and for `write`.
Entry(p) ==
    /\ op[p].step \in {"entry", "write"}
    /\ work' = [work EXCEPT ![op[p].id] = Holding(op[p].id, Nothing)]
    /\ Ends(p)
    /\ UNCHANGED <<archive, root, history>>

\* Any exception once the directory is placed; before that, nothing is kept.
CreationFails(p) ==
    /\ op[p].step \in {"place", "point", "prompt", "entry"}
    /\ IF op[p].step = "place" THEN Ends(p) ELSE Goes(p, "discard")
    /\ UNCHANGED <<directories, root, history>>

----------------------------------------------------------------------------
(* discard_workflow, and what it shares with the archive.                  *)

Discard(p) ==
    /\ op[p].step = "discard"
    /\ IF work[op[p].id] = Nothing
       THEN Ends(p)
       ELSE op' = [op EXCEPT ![p].step = "look", ![p].next = "remove"]
    /\ UNCHANGED <<directories, root, history>>

\* _discard_active_pointer_if_matching: the pointer is read once ...
Look(p) ==
    /\ op[p].step = "look"
    /\ IF active = op[p].id THEN Goes(p, "unpoint") ELSE Proceeds(p)
    /\ UNCHANGED <<directories, root, history>>

\* ... and then both files go, whatever they name by then.
Unpoint(p) ==
    /\ op[p].step = "unpoint"
    /\ active' = Nothing
    /\ Goes(p, "unprompt")
    /\ UNCHANGED <<directories, prompt, history>>

Unprompt(p) ==
    /\ op[p].step = "unprompt"
    /\ prompt' = Nothing
    /\ Proceeds(p)
    /\ UNCHANGED <<directories, active, history>>

UnlinkFails(p) ==
    /\ op[p].step \in {"unpoint", "unprompt"}
    /\ Ends(p)
    /\ disturbed' = TRUE
    /\ UNCHANGED <<directories, root, calls, finished, unarchived>>

Remove(p) ==
    /\ op[p].step = "remove"
    /\ work' = [work EXCEPT ![op[p].id] = Nothing]
    /\ Ends(p)
    /\ UNCHANGED <<archive, root, history>>

\* rmtree stops partway: what is left may have its tracker or not.
RemoveFails(p) ==
    LET id == op[p].id IN
    /\ op[p].step = "remove" /\ work[id] # Nothing
    /\ \E left \in {work[id].tracker, Nothing} :
          work' = [work EXCEPT ![id].tracker = left]
    /\ Ends(p)
    /\ UNCHANGED <<archive, root, history>>

----------------------------------------------------------------------------
(* The last unit and the archive.                                          *)

\* A package takes longer to finish than a command takes to run: whatever was
\* started on its id before it was placed, its creation included, has ended.
NothingOlderRuns(id) ==
    \A q \in Process : op[q].id = id => op[q].step = "write" /\ op[q].number = work[id].number

\* The tracker is complete once its last unit is resolved.
Completes(id) ==
    /\ HasTracker(id) /\ ~work[id].tracker.complete
    /\ NothingOlderRuns(id)
    /\ finished' = finished \cup {work[id].tracker.of}

\* The archive is tried after every pass.
FinishEveryUnit(p, id) ==
    /\ Completes(id)
    /\ Begins(p, [Idle EXCEPT !.step = "archive", !.id = id, !.number = work[id].number])
    /\ UNCHANGED <<directories, root, unarchived, disturbed>>

\* `work pass` of the last unit; the tracker's lock is free for it.
Finish(p, id) ==
    /\ Completes(id)
    /\ work' = [work EXCEPT ![id].tracker.complete = TRUE]
    /\ Begins(p, [Idle EXCEPT !.step = "archive", !.id = id, !.number = work[id].number])
    /\ UNCHANGED <<archive, root, unarchived, disturbed>>

\* The archive is tried by `pass` only: `work recover` with a supersede or a
\* replan that resolves the last unit never comes to it, nor does a `pass` that
\* raises after both documents are replaced.
FinishInPlace(p, id) ==
    /\ Completes(id)
    /\ op[p].step = "idle" /\ calls < CallCap
    /\ calls' = calls + 1
    /\ work' = [work EXCEPT ![id].tracker.complete = TRUE]
    /\ unarchived' = unarchived \cup {work[id].tracker.of}
    /\ UNCHANGED <<archive, root, op, disturbed>>

\* A move that replaces what it finds in the archive.
CheckNoSlot(p, date) ==
    /\ op[p].step = "archive"
    /\ archive' = [archive EXCEPT ![<<op[p].id, date>>] = work[op[p].id]]
    /\ work' = [work EXCEPT ![op[p].id] = Nothing]
    /\ Goes(p, "look")
    /\ UNCHANGED <<root, history>>

\* Only the package the pointer names is archived.
CheckSlotOfActive(p, date) ==
    /\ op[p].step = "archive"
    /\ IF work[op[p].id] = Nothing \/ archive[<<op[p].id, date>>] # Nothing \/ active # op[p].id
       THEN Ends(p)
       ELSE op' = [op EXCEPT ![p].step = "move", ![p].date = date]
    /\ UNCHANGED <<directories, root, history>>

\* archive_completed_package refuses a date that is taken; nobody tries again.
CheckSlot(p, date) ==
    /\ op[p].step = "archive"
    /\ IF work[op[p].id] = Nothing \/ archive[<<op[p].id, date>>] # Nothing
       THEN Ends(p)
       ELSE op' = [op EXCEPT ![p].step = "move", ![p].date = date]
    /\ UNCHANGED <<directories, root, history>>

\* The root files are left to the next command.
MoveLeavesRoot(p) ==
    LET id == op[p].id IN
    /\ op[p].step = "move"
    /\ work[id] # Nothing /\ archive[<<id, op[p].date>>] = Nothing
    /\ archive' = [archive EXCEPT ![<<id, op[p].date>>] = work[id]]
    /\ work' = [work EXCEPT ![id] = Nothing]
    /\ Ends(p)
    /\ UNCHANGED <<root, history>>

\* os.rename.
Move(p) ==
    LET id == op[p].id IN
    /\ op[p].step = "move"
    /\ work[id] # Nothing /\ archive[<<id, op[p].date>>] = Nothing
    /\ archive' = [archive EXCEPT ![<<id, op[p].date>>] = work[id]]
    /\ work' = [work EXCEPT ![id] = Nothing]
    /\ Goes(p, "look")
    /\ UNCHANGED <<root, history>>

\* An OSError of the rename is reported; the pass stands and nobody tries again.
MoveFails(p) ==
    /\ op[p].step = "move" /\ HasTracker(op[p].id)
    /\ Ends(p)
    /\ unarchived' = unarchived \cup {work[op[p].id].tracker.of}
    /\ UNCHANGED <<directories, root, calls, finished, disturbed>>

----------------------------------------------------------------------------
(* Commands that find a package by name and write into it later.           *)

\* `write`: resolve_active_config.
Resolve(p) ==
    /\ active # Nothing /\ work[active] # Nothing
    /\ Begins(p, [Idle EXCEPT !.step = "write", !.id = active, !.number = work[active].number])
    /\ UNCHANGED <<directories, root, finished, unarchived, disturbed>>

\* Any directory of that name is taken for a package.
ReadAnything(p, id) ==
    /\ work[id] # Nothing
    /\ \A q \in Process : op[q].step = "revise" => op[q].number # work[id].number
    /\ Begins(p, [Idle EXCEPT !.step = "revise", !.id = id, !.number = work[id].number,
                              !.seen = work[id].tracker])
    /\ UNCHANGED <<directories, root, finished, unarchived, disturbed>>

\* `work revise`: the tracker is read under its lock. A complete one is not
\* refused.
Read(p, id) ==
    /\ HasTracker(id)
    /\ \A q \in Process : op[q].step = "revise" => op[q].number # work[id].number
    /\ Begins(p, [Idle EXCEPT !.step = "revise", !.id = id, !.number = work[id].number,
                              !.seen = work[id].tracker])
    /\ UNCHANGED <<directories, root, finished, unarchived, disturbed>>

\* The tracker is written back by its name, wherever the lock file is by now.
Revise(p) ==
    /\ op[p].step = "revise"
    /\ work' = [work EXCEPT ![op[p].id] =
                   [Holding(op[p].id, op[p].seen) EXCEPT !.tracker = op[p].seen]]
    /\ Ends(p)
    /\ UNCHANGED <<archive, root, history>>

\* The directory went away after the command had opened it: what it writes lands
\* in the moved one, whose tracker is the one it read there, or nowhere.
LandsElsewhere(p) ==
    LET id == op[p].id IN
    /\ op[p].step \in {"entry", "write", "revise"}
    /\ ~(work[id] # Nothing /\ work[id].number = op[p].number)
    /\ \/ \E date \in Date :
             /\ archive[<<id, date>>] # Nothing
             /\ archive[<<id, date>>].number = op[p].number
             /\ archive' = [archive EXCEPT ![<<id, date>>].late = TRUE]
       \/ UNCHANGED archive
    /\ Ends(p)
    /\ UNCHANGED <<work, root, history>>

----------------------------------------------------------------------------

Crash(p) ==
    /\ op[p].step # "idle"
    /\ Ends(p)
    /\ disturbed' = TRUE
    /\ UNCHANGED <<directories, root, calls, finished, unarchived>>

Calls(p) ==
    \/ \E id \in Id : Create(p, id) \/ Finish(p, id) \/ FinishInPlace(p, id) \/ Read(p, id)
    \/ Resolve(p)

Works(p) ==
    \/ Place(p) \/ Point(p) \/ Prompt(p) \/ Entry(p) \/ CreationFails(p)
    \/ Discard(p) \/ Look(p) \/ Unpoint(p) \/ Unprompt(p) \/ UnlinkFails(p)
    \/ Remove(p) \/ RemoveFails(p)
    \/ \E date \in Date : CheckSlot(p, date)
    \/ Move(p) \/ MoveFails(p)
    \/ Revise(p) \/ LandsElsewhere(p)
    \/ Crash(p)

Next == \E p \in Process : Calls(p) \/ Works(p)

Spec == Init /\ [][Next]_vars

----------------------------------------------------------------------------
Quiet == \A p \in Process : op[p].step = "idle"

Trackers(places) == {places[x].tracker : x \in {y \in DOMAIN places : places[y] # Nothing}} \ {Nothing}

Kept == {t.of : t \in Trackers(work) \cup Trackers(archive)}

\* Finished work is never lost: through every race, failure and kill, the
\* tracker of a finished package is in work/ or in the archive.
FinishedWorkKept == finished \subseteq Kept

\* An archived directory is final: it came with a complete tracker, and it is
\* never removed or replaced, nor its tracker, by a later package of the same id
\* and date. Only a command that had opened the package before the move may
\* still put text into it.
ArchiveIsFinal ==
    [][\A slot \in DOMAIN archive :
          IF archive[slot] # Nothing
          THEN archive'[slot] \in {archive[slot], [archive[slot] EXCEPT !.late = TRUE]}
          ELSE archive'[slot] # Nothing => archive'[slot].tracker.complete]_vars

\* Only the command that placed a directory may discard it, though two commands
\* may both have found the id free.
OnlyCreatorDiscards ==
    [][\A p \in Process :
          op[p].step = "remove" /\ op'[p].step = "idle"
             => \A id \in Id : work'[id] # work[id] => work[id].number = op[p].number]_vars

\* When no command runs and none was killed, the pointer never names a package
\* that is gone, although it is written and cleared apart from the directory.
PointerNamesAPackage ==
    Quiet /\ ~disturbed /\ active # Nothing => work[active] # Nothing

\* A finished package whose move was tried stays in work/, or comes back there
\* by a late revision, only with a place in the archive taken: nothing tries the
\* move a second time. Those whose move was never tried, or failed, stay as well.
FinishedStaysOnlyIfSlotTaken ==
    Quiet /\ ~disturbed =>
       \A id \in Id :
          HasTracker(id) /\ work[id].tracker.complete /\ work[id].tracker.of \notin unarchived
             => \E date \in Date : archive[<<id, date>>] # Nothing

\* "kept in sync ... so the two can never observably drift apart": when no
\* command runs and none was killed, pointer and root prompt name one package.
PointerAndPromptAgree == Quiet /\ ~disturbed => active = prompt

=============================================================================
