--------------------------------- MODULE Handoff ---------------------------------
(***************************************************************************)
(* What the end-of-session handoff puts into Git (cli.py, git_commit.py),  *)
(* together with the commands that decide it: `init` and `workflow` write  *)
(* the ignore rules, `workflow` and `write` put progress files below a     *)
(* package, the last pass moves the package to the archive, and `handoff`  *)
(* stages and commits the work tree under the name of a package. The user  *)
(* edits .gitignore and the configuration between and during commands.     *)
(*                                                                         *)
(* Auto-commit is on. A package is known by its id, ids being numbers in   *)
(* the order of their names; its progress file and its progress archive    *)
(* are one file, named by the configuration it was written under. Their    *)
(* text stands in a temporary file beside them before it replaces them. A  *)
(* package is finished only after its creation has ended.                  *)
(***************************************************************************)
EXTENDS Gitignore, FiniteSets

CONSTANTS
    Session,    \* sessions that run commands on the project
    LastId,     \* work ids are 1 .. LastId
    None,       \* no package
    CallCap,    \* bound: commands in one behaviour
    EditCap,    \* bound: edits of .gitignore by the user
    LineCap     \* bound: lines of .gitignore the user lets it grow to

ASSUME HandoffAssumption ==
    /\ {LastId, CallCap, EditCap, LineCap} \subseteq Nat
    /\ None \notin Nat

VARIABLES
    gitignore,  \* the lines of .gitignore
    config,     \* the names .agent-checkpoint.toml gives
    active,     \* the id in the pointer file
    package,    \* per id, the tracker of work/<id>
    progress,   \* the progress files on disk, temporary ones included
    index,      \* those of them in the Git index
    commits,    \* the progress files in each commit made
    op,         \* per session, how far its command is
    calls,      \* commands so far
    edits,      \* edits of .gitignore so far
    rules,      \* the user's rules
    exposed,    \* rules added while a command held an older text, or found in the block
    reconfigured

vars == <<gitignore, config, active, package, progress, index, commits, op,
          calls, edits, rules, exposed, reconfigured>>
tree == <<active, package, progress>>
repository == <<index, commits>>
user == <<config, edits, rules, exposed, reconfigured>>

Id == 1 .. LastId
\* A temporary file is a stray one once the command that made it is dead.
File == [name : {"progress", "temporary", "stray"}, place : {"work", "archive"},
         id : Id, config : Config]
Idle == [step |-> "idle", id |-> None, config |-> None, text |-> <<>>]

TypeOK ==
    /\ gitignore \in Seq(Line)
    /\ config \in Config
    /\ active \in Id \cup {None}
    /\ package \in [Id -> {"none", "open", "complete"}]
    /\ progress \cup index \subseteq File
    /\ commits \subseteq SUBSET File
    /\ \A s \in Session :
          /\ op[s].step \in {"idle", "ignore", "place", "entry", "first", "write", "replace",
                             "archive", "add", "commit"}
          /\ op[s].id \in Id \/ (op[s].id = None /\ op[s].step \in {"idle", "ignore"})
          /\ op[s].config \in Config \/ (op[s].config = None /\ op[s].step = "idle")
          /\ op[s].text \in Seq(Line)
    /\ calls \in 0 .. CallCap /\ edits \in 0 .. EditCap
    /\ rules \cup exposed \subseteq Rule
    /\ reconfigured \in BOOLEAN

Init ==
    /\ config \in Config
    /\ op = [s \in Session |-> Idle]
    /\ gitignore \in {<<rule>> : rule \in Rule}
    /\ rules = Lines(gitignore) /\ exposed = {}
    /\ active = None /\ package = [id \in Id |-> "none"] /\ progress = {}
    /\ index = {} /\ commits = {}
    /\ calls = 0 /\ edits = 0 /\ reconfigured = FALSE

Begins(s, step, id, text) ==
    /\ op[s].step = "idle"
    /\ calls < CallCap
    /\ calls' = calls + 1
    /\ op' = [op EXCEPT ![s] = [step |-> step, id |-> id, config |-> config, text |-> text]]

Goes(s, step) == op' = [op EXCEPT ![s].step = step, ![s].text = <<>>]
Ends(s) == op' = [op EXCEPT ![s] = Idle]

\* `init` carrying on as `workflow` does.
AfterIgnorePlaces(s) == Goes(s, "place")

\* The step after the ignore rules: `init` has no package to place.
AfterIgnore(s) == IF op[s].id = None THEN Ends(s) ELSE Goes(s, "place")

Live(id) == {f \in progress : f.place = "work" /\ f.id = id}
Exists(id) == package[id] # "none" \/ Live(id) # {}

\* The temporary file of a command that is about to replace the progress file.
Staged(s) ==
    {f \in progress : /\ op[s].step \in {"first", "replace"} /\ f.name = "temporary"
                      /\ f.id = op[s].id /\ f.config = op[s].config}

----------------------------------------------------------------------------
(* `init` (no id) and `workflow`.                                          *)

\* The block belongs to the program: a rule that lost markers have put into it
\* is the program's to drop from here on.
FindsBlock ==
    /\ WellMarked(gitignore)
    /\ exposed' = exposed \cup ((rules \cap Lines(gitignore)) \ Lines(UserLines(gitignore)))

\* A workflow that places its package before it sees to the ignore rules.
ReadIgnoreLate(s, id) ==
    /\ FindsBlock
    /\ IF id = None THEN Begins(s, "ignore", id, gitignore)
                    ELSE Begins(s, "place", id, <<>>)
    /\ UNCHANGED <<gitignore, tree, repository, config, edits, rules, reconfigured>>

\* ensure_gitignore, up to the text it has read; malformed markers refuse.
ReadIgnore(s, id) ==
    /\ FindsBlock
    /\ Begins(s, "ignore", id, gitignore)
    /\ UNCHANGED <<gitignore, tree, repository, config, edits, rules, reconfigured>>

\* ensure_gitignore: the file is replaced by what was made of that text.
WriteIgnore(s) ==
    /\ op[s].step = "ignore"
    /\ gitignore' = IF Ensured(op[s].text, op[s].config) = op[s].text
                    THEN gitignore ELSE Ensured(op[s].text, op[s].config)
    /\ AfterIgnore(s)
    /\ UNCHANGED <<tree, repository, calls, user>>

\* initialize_workflow, then pointer and prompt; an id in use is refused.
Place(s) ==
    LET id == op[s].id IN
    /\ op[s].step = "place"
    /\ ~Exists(id)
    /\ package' = [package EXCEPT ![id] = "open"]
    /\ active' = id
    /\ Goes(s, "entry")
    /\ UNCHANGED <<gitignore, progress, repository, calls, user>>

\* CheckpointStore.write, for `workflow` and for `write`, under the lock of the
\* package: the text goes to a file with a name of its own ...
StageEntry(s) ==
    LET id == op[s].id IN
    /\ op[s].step \in {"entry", "write"}
    /\ \A f \in Live(id) : f.name # "temporary"
    /\ progress' = progress \cup {[name |-> "temporary", place |-> "work",
                                   id |-> id, config |-> op[s].config]}
    /\ Goes(s, IF op[s].step = "entry" THEN "first" ELSE "replace")
    /\ UNCHANGED <<gitignore, active, package, repository, calls, user>>

\* ... which then takes the name of the progress file, in the directory it is in
\* by then.
WriteEntry(s) ==
    /\ \E f \in Staged(s) : progress' = (progress \ {f}) \cup {[f EXCEPT !.name = "progress"]}
    /\ Ends(s)
    /\ UNCHANGED <<gitignore, active, package, repository, calls, user>>

\* A replacement that fails removes what it staged.
EntryFails(s) ==
    /\ op[s].step = "replace"
    /\ progress' = progress \ Staged(s)
    /\ Ends(s)
    /\ UNCHANGED <<gitignore, active, package, repository, calls, user>>

\* discard_workflow after a failed first entry.
CreationFails(s) ==
    LET id == op[s].id IN
    /\ op[s].step \in {"entry", "first"}
    /\ package' = [package EXCEPT ![id] = "none"]
    /\ progress' = progress \ Live(id)
    /\ active' = IF active = id THEN None ELSE active
    /\ Ends(s)
    /\ UNCHANGED <<gitignore, repository, calls, user>>

\* Any other command that fails, or is killed, leaves what it has done.
CommandFails(s) ==
    /\ op[s].step # "idle"
    /\ progress' = (progress \ Staged(s)) \cup {[f EXCEPT !.name = "stray"] : f \in Staged(s)}
    /\ Ends(s)
    /\ UNCHANGED <<gitignore, active, package, repository, calls, user>>

\* `write`: resolve_active_config refuses without a pointer.
BeginWrite(s) ==
    /\ active # None
    /\ Begins(s, "write", active, <<>>)
    /\ UNCHANGED <<gitignore, tree, repository, user>>

----------------------------------------------------------------------------
(* The last `work pass`, which archives.                                   *)

PassLast(s, id) ==
    /\ package[id] = "open"
    /\ \A t \in Session : op[t].step \in {"entry", "first"} => op[t].id # id
    /\ Begins(s, "archive", id, <<>>)
    /\ package' = [package EXCEPT ![id] = "complete"]
    /\ UNCHANGED <<gitignore, active, progress, repository, user>>

\* archive_completed_package: the whole directory moves, and the pointer goes.
Archive(s) ==
    LET id == op[s].id IN
    /\ op[s].step = "archive"
    /\ package[id] = "complete"
    /\ package' = [package EXCEPT ![id] = "none"]
    /\ progress' = (progress \ Live(id)) \cup {[f EXCEPT !.place = "archive"] : f \in Live(id)}
    /\ active' = IF active = id THEN None ELSE active
    /\ Ends(s)
    /\ UNCHANGED <<gitignore, repository, calls, user>>

----------------------------------------------------------------------------
(* `handoff`: the report is printed, then the tree is committed.           *)

Candidates == {id \in Id : package[id] # "none"}

\* build_work_status: the first of the packages, complete or not, is the one the
\* commit is named after; without any there is no commit.
Choose(s) ==
    LET id == CHOOSE i \in Candidates : \A j \in Candidates : i <= j IN
    /\ Candidates # {}
    /\ Begins(s, "add", id, <<>>)
    /\ UNCHANGED <<gitignore, tree, repository, user>>

\* What git makes of the rules: the pattern is anchored at work/*/ and ends in the
\* name of a progress file.
Ignored(f) == f.place = "work" /\ f.name = "progress" /\ Ignores(gitignore, f.config)

\* `git status`, `git add -A`: a tracked file is staged whatever the rules say.
Add(s) ==
    /\ op[s].step = "add"
    /\ index' = {f \in progress : f \in index \/ ~Ignored(f)}
    /\ Goes(s, "commit")
    /\ UNCHANGED <<gitignore, tree, commits, calls, user>>

\* `git commit`: the index as it is by now. A clean tree, a failing git and a
\* failing hook end the handoff well without it (CommandFails).
Commit(s) ==
    /\ op[s].step = "commit"
    /\ commits' = commits \cup {index}
    /\ Ends(s)
    /\ UNCHANGED <<gitignore, tree, index, calls, user>>

----------------------------------------------------------------------------
(* The user.                                                               *)

Edits(text) ==
    /\ edits < EditCap
    /\ edits' = edits + 1
    /\ Len(text) <= LineCap
    /\ gitignore' = text
    /\ UNCHANGED <<config, tree, repository, op, calls, reconfigured>>

Brings(rule) ==
    /\ rule \notin rules
    /\ rules' = rules \cup {rule}
    /\ exposed' = IF \E s \in Session : op[s].step = "ignore"
                    THEN exposed \cup {rule} ELSE exposed

\* A rule of the user's, before or after what is there.
AddRule(rule) ==
    /\ Edits(<<rule>> \o gitignore) \/ Edits(Append(gitignore, rule))
    /\ Brings(rule)

\* A merge that keeps both sides: a rule of the other side and its block.
KeepBothSides(rule, c) ==
    /\ Marked(gitignore)
    /\ Edits(gitignore \o <<rule>> \o Block(c))
    /\ Brings(rule)

\* A merge that loses a marker.
CutMarker(i) ==
    /\ gitignore[i] \in {Begin, End}
    /\ Edits(SubSeq(gitignore, 1, i - 1) \o SubSeq(gitignore, i + 1, Len(gitignore)))
    /\ UNCHANGED <<rules, exposed>>

\* Other file names in .agent-checkpoint.toml, once.
Reconfigure(c) ==
    /\ ~reconfigured /\ c # config
    /\ config' = c
    /\ reconfigured' = TRUE
    /\ UNCHANGED <<gitignore, tree, repository, op, calls, edits, rules, exposed>>

Command(s) ==
    \/ \E id \in Id \cup {None} : ReadIgnore(s, id)
    \/ WriteIgnore(s) \/ Place(s) \/ StageEntry(s) \/ WriteEntry(s) \/ EntryFails(s)
    \/ CreationFails(s) \/ CommandFails(s)
    \/ BeginWrite(s)
    \/ \E id \in Id : PassLast(s, id)
    \/ Archive(s)
    \/ Choose(s) \/ Add(s) \/ Commit(s)

Next ==
    \/ \E s \in Session : Command(s)
    \/ \E rule \in Rule : AddRule(rule) \/ \E c \in Config : KeepBothSides(rule, c)
    \/ \E c \in Config : Reconfigure(c)
    \/ \E i \in DOMAIN gitignore : CutMarker(i)

Spec == Init /\ [][Next]_vars

----------------------------------------------------------------------------

\* README, "ignoring every work package's PROGRESS.md": a commit of a handoff
\* carries a live progress file only if the file names were changed, so that no
\* rule need cover them before the next `init` or `workflow`.
LiveProgressStaysOut ==
    \A c \in commits :
       (\E f \in c : f.place = "work" /\ f.name = "progress") => reconfigured

\* "Without replacing its existing rules": a rule of the user's is lost only if
\* it was added between the reading and the writing of a command, or stood in
\* the block, between markers, when a command read it.
UserRulesKept == rules \ exposed \subseteq Lines(gitignore)

\* ensure_gitignore leaves one block, the user's lines as they were, and nothing
\* to do for a second call, whatever state edits and merges left the file in.
ManagedBlockSettles == \A c \in Config : EnsuresOneBlock(gitignore, c)

=================================================================================
