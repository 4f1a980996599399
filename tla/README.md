# agent-checkpoint in TLA+

A verification project for `agent-checkpoint` (Python, `src/agent_checkpoint`):
TLA+ modules that model the program's own logic, TLC runs that check them on
small instances, and TLAPS proofs for every value of the constants.

`agent-checkpoint` keeps the progress of coding agents in files. Each command is
a short-lived process; several agent sessions may run commands on one project at
the same time. There is no server and no memory between commands: all state is
in files, guarded by one `flock` per directory, and every decision is computed
again from the file that was just read.

## 1. Inventory

| Component | State it keeps | Operations | Talks to |
|---|---|---|---|
| Work state (`work_state.py`) | the state block of `CURRENT.md`: plan revision, brief flag, units, pointer `current_unit`, recorded attempts | `parse_state`, `apply_event`, `_next_unit`, `is_complete` | read by the router, changed by the commands |
| Router (`work_chain.py`, `diagnostics.build_work_status`) | none | `next_skill`, `allowed_events`, `retry_permitted` | a session reads the report and runs the command its skill names |
| Work commands (`work_store.py`) | `CURRENT.md`, `EVIDENCE.md`, the package's lock file | `claim` (start, pass, fail, recovery events), `revise_plan` | storage |
| Atomic storage (`storage.py`) | lock, temporaries, backup | acquire with deadline, stage, back up, replace one or two files, roll back, clean up | the file system |
| Checkpoint store (`storage.CheckpointStore`) | `PROGRESS.md` and its archive | `write`, `rotate` | storage |
| Work packages (`workflows.py`, `config.py`, `work_renderer.py`) | package directories, the `active` pointer, the root `CONTINUE_PROMPT.md` | create, discard, archive, point | command line |
| Migration (`work_migration.py`) | legacy packages, backups | discover, classify, apply, roll back | the package's lock, directory swaps |
| Handoff reports (`handoff.py`) | report files under `.agent-checkpoint/handoff` | write, list, resolve | read by every handoff |
| Ignore rules (`config.ensure_gitignore`) | one managed block in `.gitignore` | read, replace or add the block | git, which reads the rules |
| Auto-commit (`git_commit.py`, `cli._auto_commit_on_handoff`) | index and commits | choose a package, stage the tree, commit | git |
| Evidence validation (`work_evidence.py`, `secrets.py`) | none | `validate_evidence` | before `claim` |
| Skill installation (`skill_install.py`) | skill directories and links | check, copy and swap in, link, undo | file system |
| Host hooks (`hooks/`) | none | look and write a placeholder before compaction; print | `status`, `write` |
| Command line (`cli.py`) | none | dispatch, package choice, archive on completion, auto-commit | all of the above |

What is hard about it, and what makes it correct:

* **Stale reports.** A session decides from a report and acts later. Between the
  two, other sessions act. The tracker must stay readable, its pointer must stay
  on the open unit, and a finished package must stay finished.
* **Two documents, two replacements.** A transition and its evidence are in two
  files. They must change together under races, failing file operations, Ctrl-C
  and killed processes, or the difference must be on the harmless side.
* **Rotation.** No checkpoint may be lost between `PROGRESS.md` and the archive;
  pins stay; the live file stays within its budget; what is live is what is new.
* **Locks.** Every command ends and leaves the lock to others.
* **Several directories and files that name each other** (packages, pointer,
  prompt, migration backups): created, archived and swapped without one lock.
* **Undoing what others may have touched.** An installation of twelve skills and
  their links fails in the middle, is interrupted or killed, while another one
  works on the same directories. What it made must go, nothing else may.
* **Looking, then acting.** A report's name, the text of `.gitignore`, the absence
  of a checkpoint and the package a commit is named after are all read first and
  used later, without a lock.

`PROJECT.json` lists each hazard at its source line, with the properties that
watch it or the reason none does yet.

## 2. Modules

```
WorkState      state block, parser checks, one event          work_state.py
  WorkChain    router                                         work_chain.py
    WorkCommands   claim and revise as single steps           work_store.py (promise)
      WorkTracker      sessions, reports, hand edits          cli.py, diagnostics.py, skills/
        WorkTrackerProofs
PairWrite      lock, staged replacement, rollback, crash      storage.py
  WorkStore        claim and revise as processes              work_store.py (code)
                   Commands == INSTANCE WorkCommands
    WorkStoreProofs
  CheckpointStore  write, rotate, archive, compaction hook    storage.py, hooks/
    CheckpointStoreProofs
Packages       directories, pointer, prompt, archive          workflows.py, config.py, cli.py
  PackagesProofs
Migration      one package being migrated or rolled back      work_migration.py
  MigrationProofs
SkillInstall   copies, links and their undoing                skill_install.py
  SkillInstallProofs
Places         filtering a list by place                      storage.py, config.py
  Gitignore    lines, markers, the managed block              config.py
    Handoff    init, workflow, write, last pass, auto-commit  cli.py, git_commit.py
      HandoffProofs
HandoffReports filing, listing, resolving                     handoff.py
  HandoffReportsProofs
```

Each `MC` module instantiates the module of its name for TLC.

* **WorkState** has no variables. `Target` is the transition table, `ApplyEvent`
  is `apply_event`, `NextUnit` is `_next_unit`, `Parses` is what `_build` accepts
  beyond the shape of the JSON. A block is a record with the fields that some
  decision reads.
* **WorkChain** is the router as operators on a block: `NextSkill` is row by row
  `next_skill`, `AllowedEvents` and `RetryPermitted` are the functions of those
  names.
* **WorkCommands** says what the two locked commands promise: `Claim` changes
  block and evidence in one step, `Revise` only the block. `ClaimTorn` is the
  exception: the block without its evidence.
* **WorkTracker** has `tracker` (the block), `ledger` (per unit, the entries of
  `EVIDENCE.md`) and `view` (the report each session still acts on). `Status`
  takes a report; `Start`, `Finish`, `Recover` and `ReviseAsPlanner` run the
  command that the report's skill documents, with the unit and revision of that
  report; `Refused` is a command that fails and makes the session read again.
  `ConfirmBrief` and `PlanUnits` are edits of `CURRENT.md` that the skills ask a
  session to make; no code writes these fields, so they are modelled from what the
  parser and the router accept. A session edits by hand only when the file it opens
  routes to that skill. `Diagnose` does what `checkpoint-diagnose` says: it records
  the diagnosis in `EVIDENCE.md`, where no command looks for it. The router reads
  the block's `attempts`, which neither a command nor a skill writes; `RecordAttempt`
  is somebody who writes them by hand, with a cause or without one. `UnroutedSpec`
  drops the router: commands for any unit the caller names.
* **PairWrite** has one process record per command: the step it is at, the texts
  to write, the temporaries on disk, the backup. `files` are the two documents
  in replacement order. One action per file-system step, a failing variant of
  each, `Interrupt` (Ctrl-C, which skips the rollback) and `Crash` (the process
  dies, the system drops its lock, its temporaries stay). `mishaps` remembers what
  went wrong beyond a reported error; it only appears in properties and bounds.
* **WorkStore** extends it: `Call` fixes what the caller wants from what it reads
  before the lock, `Decide` and `DecideRevision` read again under the lock.
* **CheckpointStore** extends it with `Partition` (`_partition_for_live_budget`):
  entries are an age, a pin and a length, and `Evicted` are the places of those
  that leave. `Places` takes from a list what stands at given places. `PreCompact` and `Bootstrap` are the two
  commands of `hooks/pre_compact.py`: a look without the lock, then a `write`; `hook`
  are the processes between the two.
* **Packages** looks at directories from outside: `work` and `archive` are the
  directories per id (and date), `active` and `prompt` the two root files, `op` a
  process's command between two file operations. `Create` .. `Entry` are the
  `workflow` command, `Discard`, `Look`, `Unpoint`, `Unprompt`, `Remove` its
  undoing (which may leave part of the directory, `RemoveFails`), `Finish` .. `Move`
  the last pass and the archive, which shares `Look`, `Unpoint` and `Unprompt`. Only a
  `pass` comes to the archive: `FinishInPlace` is completion by `work recover`, or by a
  pass that raises after both documents are replaced, and `MoveFails` a move that is
  reported and not tried again; `unarchived` has the packages of both. `Resolve`/`Entry`
  and `Read`/`Revise` stand for the commands that find a package by name and write into
  it later: `Holding` is the directory that such a write makes when it finds none, and
  with `LandsElsewhere` the text ends up in the directory that has moved to the archive
  (`late`) or nowhere. Only a tracker's being
  open or complete matters here; what happens in it is WorkTracker's.
* **Migration** looks at one package. Directories are numbered, because the lock
  file moves with its directory: `package`, `backups` and `hidden` say under
  which kind of name each one is, `holder` who has its lock. `Backup`, `Stage`,
  `Displace`, `Swap`, `PutBack`, `Sweep`, `Undo` are the steps of
  `_migrate_locked` and `_replace_directory`; a rollback takes the same steps
  without the lock. `Stage` writes `CURRENT.md` anew, so that what was edited in it
  since the package was classified is lost. `Open` makes the directory when the path
  has none. What goes wrong while something else is being undone has actions of its
  own: `StaysDisplaced` (Ctrl-C between the first rename and the `try`, or a second
  error while putting back), `SweepFails` (the `rmtree` that ignores its errors),
  `SweepInterrupted` (Ctrl-C there enters the `except` clause after a swap that
  succeeded) and `UndoFails`. `mishaps` remembers which of them happened.
* **SkillInstall** has `at`, what each directory holds under each skill's name, and
  per command its position in the loops and its two lists, `installed_skills` and
  `created_links`. `CheckSkill` and `CheckLink` are the refusals, `Copy` the
  replacement by the staged copy, `MakeLink` the symlink, `ListSkill` and
  `ListLink` the appends, each a step of its own because Ctrl-C may come before
  it. `Fails` and `Interrupt` enter the handler: `Unlink`, `Remove` (which may
  leave part of a tree) and `RemoveDirectory`. `Dies` is a kill anywhere.
* **Gitignore** has no variables: a `.gitignore` is a sequence of lines, `WellMarked`
  is what `_managed_block_spans` accepts, `UserPlaces` where the lines outside the
  blocks stand, `Ensured` what `ensure_gitignore` makes of a text.
* **Handoff** puts it to work: `ReadIgnore` and `WriteIgnore` are the two ends of
  `ensure_gitignore`, `Place`, `StageEntry`, `WriteEntry`, `PassLast` and `Archive` move
  progress files about (the text stands in a temporary file first, which is renamed in
  whatever directory it is in by then, removed by `EntryFails`, or left by a kill),
  `Choose`, `Add` and `Commit` are the auto-commit. `Ignores` assumes that the user has
  no rule that un-ignores (`!`), since git lets the last matching line decide. The user adds
  rules, merges two versions, loses a marker, and renames the progress files.
  `rules` are the user's, and `exposed` those of them that the program may drop:
  added while a command held an older text, or found inside the block.
* **HandoffReports** has the report in each file, and per session what it is filing
  and what it has read. `LookForName` is the search for a free name, `WriteReport`
  the replacement that follows, `ResolveReport` the removal by name.

## 3. Runs

| Run | Result | What it shows |
|---|---|---|
| `tracker` | holds | two routed sessions, stale reports allowed: seven properties below |
| `unrouted_start` | violated | two legal `work start` leave a block that no command can read again |
| `diagnosis_unseen` | violated | a diagnosis recorded where the skill says leads back to the diagnosis |
| `work_store` | holds | the code's file steps implement `WorkCommands`, with every failure |
| `checkpoint_store` | holds | no reported entry is lost, pins stay, budget and recency hold |
| `packages` | holds | no finished work is lost, the archive is final, the pointer is not stale |
| `pointer_drift` | violated | two `workflow` commands leave pointer and prompt on different packages |
| `migration` | holds | package, backup and reported entries survive migration and rollback |
| `interrupted_migration` | violated | Ctrl-C in the swap leaves no package at its path |
| `skill_install` | holds | failed installations leave nothing, reported ones stay, no link dangles |
| `handoff_reports` | holds | no filed report is lost but in two named races |
| `handoff` | holds | no live progress file is committed, no user's rule is lost |

**tracker.** `TrackerReadable`: no command, plan edit or record produces a
block the parser refuses (at most one unit running, unique ids, a planned
pointer), although `apply_event` never repeats those checks.
`OnlyCurrentUnitActive`: a running, failed or blocked unit is the one the pointer
names. `LedgerAccountsForAttempts`: attempt counter = outcomes recorded + the
attempt under way, and the k-th outcome names no attempt after the k-th; it may name
an earlier one, since `claim` does not compare. `RouterOffersLegalWork`: a report acted
on at once is never refused, and a cause recorded in the block leads on unless the
attempt had a record there before. `HandoffIsFinal` and
`PointerLeavesOnlyResolvedWork` are action properties. `diagnosis_unseen`: a session
starts a unit, fails it, follows `checkpoint-diagnose` to the letter, and the next
report sends it to `checkpoint-diagnose`.

**work_store.** `ImplementsCommands` is the refinement: with `Promised` (the
block, or its backup while a pair is half replaced) for `tracker`, every step is
a step of `WorkCommands` or changes nothing, and a torn claim needs a killed
process or a failed rollback. `EvidenceNeverAhead` holds through every failure:
evidence never claims an outcome the block lacks. `RaisesUnchanged`: a command that reports an error leaves
`CURRENT.md` as it was, but for a failing rollback, Ctrl-C between the two
replacements, and an unlink that fails after both. `EveryCommandEnds`: liveness.

**checkpoint_store.** `NothingLost`, `PinnedStayLive` and `LiveWithinBudget` hold
through every failure. `RecencyKept` (what is live is newer than what is archived,
and nothing is archived twice) holds unless a process was killed between the two
replacements or a rollback failed: then the evicted entries are in both documents
and the next rotation archives them again.

**packages.** `FinishedWorkKept` and `ArchiveIsFinal` hold through races, failures
and kills: the check before the archive move can be overtaken, but a rename onto
a directory that is not empty fails. What is archived came complete and is neither
removed nor replaced; a command that had opened the directory before the move may still
add text to it. `OnlyCreatorDiscards`: of two creations of
one id the loser leaves the winner's package alone. `PointerNamesAPackage` and
`FinishedStaysOnlyIfSlotTaken` speak of quiet moments without a kill or a failed
removal of a root file; the second excepts the packages in `unarchived`, which nothing
archives. `pointer_drift` needs neither: two creations interleave between pointer
and prompt.

**migration.** `SomeCopySurvives` holds whatever happens. `MigratedHasBackup` holds
through failures and kills but not through Ctrl-C: in the `rmtree` after a successful
swap it enters the `except` clause, which removes the backup of a package that is
migrated by then. `PackageIsThere` excepts kills; `interrupt`, when the package has
stayed displaced; and `intrusion`: a command that opens the path between the two renames
and so makes a directory there. Then the swap and its undoing both fail, the backup is
removed, and the package is in a `.staging-displaced-*` directory which no command
reads. That nothing hidden stays behind also needs that no removal failed (`leftover`).
`MigratedOnce` and `EntriesSurviveMigration` except a `stale lock`, that of a directory
that was swapped away: two commands then hold "the" lock of one package.
`interrupted_migration` shows the shortest of these: Ctrl-C right after the first
rename, and the failed command leaves no package where there was one, although
`apply_migration` says that a failure leaves things "exactly as it was before".

**skill_install.** `FailureLeavesNothing`: "leaving the destination either complete
or empty", unless a removal failed or Ctrl-C came before a list had what was made.
`SuccessStands`, `NoDanglingLink` (kills included) and `OnlyOwnRemoved` are about
two commands on one directory: the destination of one may be a link root of the
other, and a name that was free when it was checked may be taken when it is used.

**handoff_reports.** `ReportsSurvive` names the two races that remain: two sessions
find the same name free, and a session resolves by name a report that has taken
the name of the one it read.

**handoff.** `LiveProgressStaysOut`: the rules are in place before the first
progress file, even when another session stages the tree in between, unless the
file names were changed. `UserRulesKept`: a rule is lost only if it was added while
a command held an older text, or stood inside the block when a command read it. `ManagedBlockSettles`: whatever merges and lost markers left,
a text that is accepted ends with one block, the user's lines as they were, and a
second call changes nothing.

**Seen while modelling, not kept as runs.**

* A retry that `chain-v1.md` refuses is accepted from an outdated report, and the
  evidence of attempt 1 closes attempt 2: nothing compares them under the lock.
* An attempt recorded without a cause and then with one is still sent to
  `checkpoint-diagnose`: `_diagnosis` returns the first record, `retry_permitted` goes
  by the latest (`HasRecord`).
* An entry written between the compaction hook's look and its write ends up below a
  placeholder which says that there is none (`PreCompact`, `Bootstrap`).
* A revision that read the tracker before the archive move writes it by name
  afterwards, so that one tracker is in `work/` and in the archive.
* An archive move or a discard that has read the pointer removes both root files,
  whatever a creation has made them name by then (`Look`, `Unpoint`), though
  `workflows.py` clears them "if they still name" its package; and `archive` is a legal
  work id.
* One long entry is archived at once and leaves `PROGRESS.md` without any (`Evicted`
  takes every ordinary entry), so that `resume` has nothing to show.
* Two sessions that file reports under one title find the same name free, and the
  second replaces the report of the first (`overlapped`), though `handoff.py:41` says
  that a report is never silently overwritten.
* The auto-commit names the first package there is, which is as a rule not complete
  (a complete one has gone to the archive), though its message says so; it stages
  archived progress files, which the pattern `.agent-checkpoint/work/*/PROGRESS.md`
  does not reach, and the temporaries beside live ones.
* A merge that keeps both sides and two lost markers after it can leave a user's rule
  between the markers that remain; `ensure_gitignore` then replaces it with the block,
  as it must, and `exposed` says so.

Every property of a passing run has a mutant in `PROJECT.json`: a change of one
mapped definition, defined beside it in the module, that makes TLC report that
property.

### Bounds

* `tracker`: two sessions (one to be overtaken, one to overtake), two units (one
  to finish, one to advance to), two fingerprints, two attempts and four evidence
  entries per unit, two records in the block (a cause and the same cause again: the
  retry that is refused), two plan revisions. `MaxAttempts` is the code's default, 3: a
  third record, which it would refuse, is beyond the bound, and refuses the same event
  as the repeated cause does. Larger plans add more units of the same kind; the proofs
  cover every size. `diagnosis_unseen` has `MaxAttempts` 2 and stops at once.
* `work_store`: two processes, three commands, a plan whose first unit runs (so
  that two outcomes race at once and a second start makes the block unreadable),
  one kind of mishap per behaviour, any number of times. With two kinds the
  state space only multiplies by histories.
* `checkpoint_store`: two processes, four commands, lengths 1 (fits twice) and 3
  (never fits) with a budget of 2: every branch of the partition is taken. The hook's look and its write count as one command.
* `packages`: three processes (a creation, an archive move and a late writer at
  once), two ids, two dates, five commands: an id can be finished, created again
  and finished again on the same date. The violations need fewer.
* `migration`: two processes, three commands, six directories: a migration, a rollback
  and a second migration, or one of them with a writer in between.
* `skill_install`: two commands, each once (a third adds another disturber of the
  same kind), two skills (one listed while the next fails), up to two link roots,
  three directories: a destination, a link root and one that is both.
* `handoff_reports`: three sessions, two titles, three reports: two that race for a
  name and one whose name is taken over.
* `handoff`: two sessions, one package, three commands, three edits of `.gitignore` (a
  merge and two lost markers) and one of the configuration, and a `.gitignore` that
  begins with one user's rule. A creation, a last pass or a write, and a handoff by
  another session fit into one behaviour. A second package is covered by the rules of
  the first (the patterns name no package), so that the first is the one to watch.

Where a run uses up its commands the configuration turns the deadlock check off:
the system is a set of commands and may stop. `tracker` keeps the check.

### Fairness

`WorkStore` assumes weak fairness of each process's own steps: the operating
system runs a process that can run, a file operation returns (possibly with an
error), and a try for the lock either succeeds or, after the deadline, gives up.
Nothing is assumed about callers (`Call`) or about deaths (`Killed`).

The other modules state no fairness: their properties are safety. The assumptions
on callers are in guards, and named there. In `Handoff` auto-commit is on, a
package is finished only after its creation has ended (`PassLast`), and the user
does not edit inside the managed block but for a lost marker. `HandoffReports` has
the library function that files a report; the skills also let a session write one
by hand. `NothingOlderRuns` (Packages): a
package takes longer to finish, with its brief, plan and evidence, than a command
takes to run, so what was started on its id before it was placed has ended,
its creation included. `Rollback` (Migration) uses a backup of a migration that
has ended, since its path is in the report.

## 4. Proofs

TLC checks small instances; the theorems hold for every value of the constants
that satisfies the named assumptions. Every invariant and every action property of
a passing run is a theorem, and so is the refinement. None of the invariants that
matter is inductive as it stands; in each module `IInv` is the strengthening (TLC
has checked each one), one lemma per action shows that the action keeps it, and
the theorems follow from it or, for action properties, by cases on the step.

**WorkTrackerProofs**: `TypeCorrect`, `AlwaysReadable` (`TrackerReadable`),
`ActiveIsCurrent` (`OnlyCurrentUnitActive`), `EvidenceAccountsForAttempts`
(`LedgerAccountsForAttempts`), `RouterAgreesWithCommands` (`RouterOffersLegalWork`),
`PointerLeavesOnlyResolved`, `FinishedStaysFinished` (`HandoffIsFinal`).
A session may hold a report that names a unit, and starting that unit while another
is active would break readability. `IInv` adds what a stale report can still be
used for: `ReportsNameCurrentOrResolved` (its unit is the current one, or passed or
superseded, and a resolved unit has no legal event), with `UniqueIds`,
`CurrentUnitPlanned`, `AttemptsPlanned` and `ActiveUnitsStarted`.
`ApplyEventEffect` and `NextUnitIsUnresolved` say once what an event does.
`AccountInv` adds for the evidence that a unit nobody planned has none
(`UnplannedUnheard`), that no report names an attempt later than the block's
(`ReportsNotAhead`), and that each outcome names an attempt no later than its rank
among the outcomes (`Ranked`).

**WorkStoreProofs**: `TypeCorrect`, `EvidenceStaysBehind` (`EvidenceNeverAhead`),
`RaisesAreClean` (`RaisesUnchanged`) and `CommandsImplemented`
(`ImplementsCommands`). `IInv` follows one command through the replacement of the
pair. `LockInv` says that the holder of the lock is the one between acquiring and
releasing; `Progress(p)` what the position says of temporaries and backup;
`Decided(p)` that what `p` is about to write is what its request makes of the block
it found, `Before(p)`, and of the evidence as it still is; `Restored(p)` that a
command cleaning up after an error has its backup in place; `EvidenceInv` that the
evidence is behind the block and behind the one that a rollback would bring back.
The refinement is proved step by step: `PromisedMeaning` (what the promise's reader
sees is `Before` of the holder), `SwapIsCommand` (the last replacement is a `Claim`
or a `Revise`), `LeavingIsTorn` (a holder that leaves between the two replacements
is a `ClaimTorn`), `StepIsCommand` for the rest, which changes nothing.

**CheckpointStoreProofs**: `TypeCorrect`, `ReportedIsKept` (`NothingLost`),
`BudgetHolds` (`LiveWithinBudget`), `EvictionIsByAge` (`RecencyKept`),
`PinsHold` (`PinnedStayLive`).
First the partition, as an algorithm: `AtEffect` (what stands at some places, in
order and each once), `EvictedIsOldest`, `RetainedFits`, `PartitionEffect` (nothing
is dropped, pins stay, what stays fits, what leaves is older). Then the command that
carries it out: `Decided(p)` says of the two texts it is about to write what
`PartitionEffect` says of a partition; `Documents` holds of the documents as they
are and of the archive as a rollback would leave it (`Standing`).

**PackagesProofs**: `TypeCorrect`, `FinishedStaysKept` (`FinishedWorkKept`),
`PointerSound` (`PointerNamesAPackage`), `FinishedIsTried`
(`FinishedStaysOnlyIfSlotTaken`), `ArchivedStays` (`ArchiveIsFinal`),
`CreatorDiscards` (`OnlyCreatorDiscards`). There is no lock to reason from. `IInv`
says what a command may rely on between two of its file operations: the directory a
creation has placed is there and is its own (`CreatorsOwn`, `OwnNumbers`), one
command archives an id and its tracker is complete (`ArchiversAlone`), finished work
is archived or stands where no running command can take it away (`FinishedSettled`),
and in quiet times a stale pointer has somebody who will clear it
(`PointerFollowed`, `Unpointed`) and a complete tracker that is not in `unarchived`
somebody who has tried to archive it (`CompleteTried`).

**MigrationProofs**: `TypeCorrect`, `CopySurvives` (`SomeCopySurvives`),
`BackupStays` (`MigratedHasBackup`), `SecondMigrationBacksOff` (`MigratedOnce`),
`PackageReturns` (`PackageIsThere`), `EntriesStay` (`EntriesSurviveMigration`). The
argument has three cases: `FirstOnly` (no migration has succeeded, or died with its
backup made: the first directory is the package or hidden, and only commands that will
put it back hide it), `Done` (the package has been swapped and no other command is at
work on it, while the one that did it may still remove its own backup after Ctrl-C) and
`Protected` (there is a legacy backup that nobody will remove). `Locks`, `Apart` and
`OwnBackup` say whose each directory is; `UnderLock`, `AllAccounted` and `EntriesKept`
are what holds without a stale lock; without a kill, an interrupt and an intrusion; and
without any mishap but a directory left over.

**HandoffProofs**: `TypeCorrect`, `RulesSurvive` (`UserRulesKept`),
`ProgressIsNotCommitted` (`LiveProgressStaysOut`), `BlockIsStable`
(`ManagedBlockSettles`). The last is about the text alone: `OneBlock` shows of any
well-marked text that the result is well marked with one block, that the user's
lines are the same in the same order, and `BlockSettles` that a second call finds
nothing to do; `AtIsUnique` and `AtOfTwoParts` are what it needs of sequences.
`RulesHeld` says which rules the text that a command holds must have; `Covered`
that, while the file names are as they were, there is a rule for them before there
is a progress file, its temporary included, or somebody about to make one
(`LiveAround`).

**SkillInstallProofs**: `TypeCorrect`, `FailureIsClean`, `SuccessIsStable`,
`LinksAreSound`, `OwnOnly`: all five properties of the run. Whether an undoing may
take something away depends on what the lists say, and whether the lists are right
on where the loops are. `IInv` adds `Progress` (what the position says about the
lists), `Listed` (what is in a list is there and is the command's own), `Owned` (what
is its own is in a list, or about to be, unless it slipped) and `LinksLead` (a link
leads to the copy of the command that made it). `TakesOwn` gives the action property.

**HandoffReportsProofs**: `NoReportIsLost`. `ReportsSurvive` alone does not say why
the file a session is about to replace is not a report: `FreeOrTakenSince` does (a
name found free is free, or was taken by a report that is counted as overlapped), and
`Kept` says the same of every report filed.

### Assumptions

All say that a marker is none of the things it is used beside, or that a bound is a
number; each is stated, by name, where its constants are declared.
`WorkStateAssumption` (`None` is no id, fingerprint or number; at least one attempt
is allowed), `BoundsAssumption`, `ProcessAssumption` (`Nothing` is no process),
`CommandsAssumption` (the plan is a non-empty list of units in which one that runs has
an attempt; `Nothing` is no block and no request), `BudgetAssumption` (lengths are
positive; `Nothing` is no document), `PackagesAssumption`, `MigrationAssumption`,
`SkillInstallAssumption` (at least one skill), `GitignoreAssumption` (markers,
patterns and user's rules are different lines), `HandoffAssumption`,
`ReportsAssumption`. In the code a unit runs only after a
`start` that has counted its first attempt, a checkpoint is never the empty string,
and `skills/` is not empty; `WorkStore` begins when a session has planned: before
that only a revision is accepted, and it writes one file.

### Form

Where the code filters a list, the modules say which places stay and take what
stands there (`Places.At`): what `SelectSeq` returns is defined by recursion, and what
it does to every list would be an induction that takes a predicate as its parameter,
which the provers cannot instantiate. Counting the places up to one of them needs
only the cardinality theorems. `At` has its lemmas in both modules that use it.

Only model-checked: `EveryCommandEnds`, which is liveness under fairness and out of
the prover's reach; and the four runs that show a violation.

## 5. Not modelled

* Text: rendering and parsing of Markdown and JSON, secret and diff patterns,
  section checks of evidence and checkpoints, report formatting.
* Path safety (symlink and traversal checks) and Windows locking.
* Power loss: the code syncs files but not directories; crashes here are of
  processes.
* `install_skill`, the form for one skill, which only tests call; the host roots
  that `--agent` and `--global` stand for.
* The reports of the read-only commands (`resume`, `doctor`, `validate`, `dry-run`),
  the hooks that only print (`session_start`, `pre_compress`), and the choice by
  `--id` among several packages. `.gitignore` newline styles.
* Git beyond its index and its ignore rules: branches, hooks and signing appear as
  a commit that fails. Rules that un-ignore (`!`) are left out of `.gitignore`; the
  temporaries of a progress file are in the model and in its commits, but no property
  speaks of them, since no document promises anything about them.
* `skills/`, templates, release tools and sample runners, beyond what a skill
  makes a session do to `CURRENT.md`.

## 6. Plan

1. Done: the tracker, its commands, their storage, rotation and the compaction
   hook; packages and migration; skill installation; handoff reports, ignore rules
   and auto-commit.
2. Done: every safety property of every run is proved, the refinement included.
3. `Packages`: the choice among candidates (migration backups count as packages,
   `diagnostics.py`). `Handoff`: the reports themselves, which `git add -A` stages
   although `skills/checkpoint-handoff/SKILL.md` calls them untracked.
4. An abstract specification of rotation (one list of entries, some of them live)
   with `CheckpointStore` as its implementation, and one of a package's life (open,
   finished, archived) for `Packages`.
5. Evidence rules (`work_evidence.py`) and the rendered tracker, as far as a
   decision depends on them.
