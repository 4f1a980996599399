------------------------------ MODULE SkillInstall ------------------------------
(***************************************************************************)
(* `skill-install` (skill_install.py, install_skill_suite): every skill is *)
(* copied into a destination and then linked from each link root; whatever *)
(* goes wrong, what was made is removed again. Commands take no lock: any  *)
(* number may work on the same directories, destination of one and link    *)
(* root of another included, and each may fail, be interrupted or be       *)
(* killed at every file operation.                                         *)
(*                                                                         *)
(* `at` is what the directories hold under the skills' names. Each command *)
(* runs once; `command` is how far it is and what its two lists,           *)
(* installed_skills and created_links, hold.                               *)
(***************************************************************************)
EXTENDS Naturals

CONSTANTS
    Dir,        \* directories named by the commands
    Command,    \* the commands, each run once
    Skills,     \* how many skills there are, in the order of SKILL_NAMES
    RootCap,    \* bound: link roots of one command
    Others,     \* whoever made what is there before any command
    Nothing     \* no entry, no directory

ASSUME SkillInstallAssumption ==
    /\ Skills \in Nat \ {0} /\ RootCap \in Nat
    /\ Nothing \notin Dir /\ Others \notin Command

VARIABLES at, command

vars == <<at, command>>

Skill == 1 .. Skills
Place == Dir \X Skill

\* A skill's files, an emptied directory about to be removed, what a failed
\* removal leaves, or a link to the directory `to`.
Kinds == {"copy", "shell", "remains", "link"}
Entry == [kind : Kinds, by : Command \cup {Others}, to : Dir \cup {Nothing}]
NoEntry == [kind |-> "none", by |-> Others, to |-> Nothing]

CopyBy(c) == [kind |-> "copy", by |-> c, to |-> Nothing]
LinkBy(c, d) == [kind |-> "link", by |-> c, to |-> d]

Roots == UNION {[1 .. n -> Dir] : n \in 0 .. RootCap}

Steps == {"new", "check", "checklink", "copy", "list", "link", "listlink",
          "unlink", "remove", "rmdir", "installed", "refused", "failed", "dead"}

\* `skill` and `nth` are the loops' positions; `slipped` says that something was
\* made and the command interrupted before the list had it.
Record(step, d, roots, slipped) ==
    [step |-> step, destination |-> d, roots |-> roots, skill |-> 1, nth |-> 1,
     skills |-> {}, links |-> {}, slipped |-> slipped]

TypeOK ==
    /\ at \in [Place -> Entry \cup {NoEntry}]
    /\ command \in [Command ->
          [step : Steps, destination : Dir \cup {Nothing}, roots : Roots,
           skill : Skill, nth : Nat,
           skills : SUBSET Skill, links : SUBSET Place, slipped : BOOLEAN]]
    /\ \A c \in Command :
          LET o == command[c] IN
          /\ o.step \notin {"new", "refused", "failed", "dead"} => o.destination \in Dir
          /\ o.step \in {"checklink", "link", "listlink"} => o.nth \in DOMAIN o.roots
          /\ o.links # {} => o.step \in {"link", "listlink", "unlink", "installed"}

Init ==
    /\ \E there \in SUBSET Place :
          at = [x \in Place |-> IF x \in there THEN CopyBy(Others) ELSE NoEntry]
    /\ command = [c \in Command |-> Record("new", Nothing, <<>>, FALSE)]

Target(c) == <<command[c].destination, command[c].skill>>
Link(c) == <<command[c].roots[command[c].nth], command[c].skill>>
Last(c) == command[c].skill = Skills
LastRoot(c) == command[c].nth + 1 \notin DOMAIN command[c].roots
NoRoots(c) == 1 \notin DOMAIN command[c].roots

Becomes(c, new) == command' = [command EXCEPT ![c] = new]
Goes(c, step) == Becomes(c, [command[c] EXCEPT !.step = step])

\* What a process remembers goes with it.
Ends(c, outcome) ==
    Becomes(c, Record(outcome, Nothing, <<>>, command[c].slipped))

----------------------------------------------------------------------------
(* The checks of all targets.                                              *)

Begin(c, d, roots) ==
    /\ command[c].step = "new"
    /\ Becomes(c, Record("check", d, roots, FALSE))
    /\ UNCHANGED at

\* _reject_existing(destination_root / name).
CheckSkill(c) ==
    /\ command[c].step = "check"
    /\ IF at[Target(c)] # NoEntry THEN Ends(c, "refused")
       ELSE IF ~Last(c) THEN Becomes(c, [command[c] EXCEPT !.skill = @ + 1])
       ELSE Becomes(c, [command[c] EXCEPT !.skill = 1,
                           !.step = IF NoRoots(c) THEN "copy" ELSE "checklink"])
    /\ UNCHANGED at

\* _reject_existing(lr / name): for each name, each root.
CheckLink(c) ==
    /\ command[c].step = "checklink"
    /\ IF at[Link(c)] # NoEntry THEN Ends(c, "refused")
       ELSE IF ~LastRoot(c) THEN Becomes(c, [command[c] EXCEPT !.nth = @ + 1])
       ELSE IF ~Last(c) THEN Becomes(c, [command[c] EXCEPT !.nth = 1, !.skill = @ + 1])
       ELSE Becomes(c, [command[c] EXCEPT !.nth = 1, !.skill = 1, !.step = "copy"])
    /\ UNCHANGED at

----------------------------------------------------------------------------
(* Copies, then links.                                                     *)

\* A replacement that takes the place of whatever is there.
GivesWayAlways(entry) == entry \in Entry \cup {NoEntry}

\* os.replace of a directory is refused by one that is not empty, and by a link.
GivesWay(entry) == entry = NoEntry \/ entry.kind = "shell"

\* The name is taken into the list before the directory has it.
CopyListsFirst(c) ==
    /\ command[c].step = "copy"
    /\ IF GivesWay(at[Target(c)])
       THEN /\ at' = [at EXCEPT ![Target(c)] = CopyBy(c)]
            /\ Goes(c, "list")
       ELSE /\ Becomes(c, [command[c] EXCEPT !.step = "unlink", !.skills = @ \cup {command[c].skill}])
            /\ UNCHANGED at

\* A staged copy that is replaced into the destination, or refused there.
Copy(c) ==
    /\ command[c].step = "copy"
    /\ IF GivesWay(at[Target(c)])
       THEN /\ at' = [at EXCEPT ![Target(c)] = CopyBy(c)]
            /\ Goes(c, "list")
       ELSE /\ Goes(c, "unlink")
            /\ UNCHANGED at

\* The loop over the links starts where the loop over the copies ended.
ListSkillKeepsIndex(c) ==
    /\ command[c].step = "list"
    /\ Becomes(c, [command[c] EXCEPT
          !.skills = @ \cup {command[c].skill},
          !.skill = @ + 1,
          !.step = IF ~Last(c) THEN "copy"
                   ELSE IF NoRoots(c) THEN "installed" ELSE "link"])
    /\ UNCHANGED at

\* installed_skills.append, after the staged directory is swept.
ListSkill(c) ==
    /\ command[c].step = "list"
    /\ Becomes(c, [command[c] EXCEPT
          !.skills = @ \cup {command[c].skill},
          !.skill = IF Last(c) THEN 1 ELSE @ + 1,
          !.step = IF ~Last(c) THEN "copy"
                   ELSE IF NoRoots(c) THEN "installed" ELSE "link"])
    /\ UNCHANGED at

\* os.symlink.
MakeLink(c) ==
    /\ command[c].step = "link"
    /\ IF at[Link(c)] = NoEntry
       THEN /\ at' = [at EXCEPT ![Link(c)] = LinkBy(c, command[c].destination)]
            /\ Goes(c, "listlink")
       ELSE /\ Goes(c, "unlink")
            /\ UNCHANGED at

\* created_links.append.
ListLink(c) ==
    /\ command[c].step = "listlink"
    /\ Becomes(c, [command[c] EXCEPT
          !.links = @ \cup {Link(c)},
          !.skill = IF Last(c) THEN 1 ELSE @ + 1,
          !.nth = IF Last(c) /\ ~LastRoot(c) THEN @ + 1 ELSE @,
          !.step = IF Last(c) /\ LastRoot(c) THEN "installed" ELSE "link"])
    /\ UNCHANGED at

\* A handler that knows the copies only.
FailsLeavesLinks(c) ==
    /\ command[c].step \in {"copy", "link"}
    /\ Becomes(c, [command[c] EXCEPT !.step = "remove", !.links = {}])
    /\ UNCHANGED at

\* A missing source, a full disk, a directory that may not be written.
Fails(c) ==
    /\ command[c].step \in {"copy", "link"}
    /\ Goes(c, "unlink")
    /\ UNCHANGED at

\* A handler of Exception, which Ctrl-C is not.
InterruptUncaught(c) ==
    /\ command[c].step \in {"copy", "list", "link", "listlink"}
    /\ Ends(c, "failed")
    /\ UNCHANGED at

\* Ctrl-C, which the handler catches as well.
Interrupt(c) ==
    /\ command[c].step \in {"copy", "list", "link", "listlink"}
    /\ Becomes(c, [command[c] EXCEPT !.step = "unlink",
                      !.slipped = command[c].step \in {"list", "listlink"}])
    /\ UNCHANGED at

----------------------------------------------------------------------------
(* The handler: links first, then copies. Within one list the order does   *)
(* not show.                                                               *)

Unlink(c) ==
    /\ command[c].step = "unlink"
    /\ IF command[c].links = {}
       THEN /\ Goes(c, "remove")
            /\ UNCHANGED at
       ELSE \E x \in command[c].links :
              /\ at' = IF at[x].kind = "link" THEN [at EXCEPT ![x] = NoEntry] ELSE at
              /\ Becomes(c, [command[c] EXCEPT !.links = @ \ {x}])

IsDirectory(entry) == entry.kind \in {"copy", "shell", "remains"}

\* rmtree takes the files, or some of them, and then the directory; it reports
\* nothing.
Remove(c) ==
    /\ command[c].step = "remove"
    /\ IF command[c].skills = {}
       THEN /\ Ends(c, "failed")
            /\ UNCHANGED at
       ELSE \E s \in command[c].skills, left \in {"shell", "remains"} :
              LET x == <<command[c].destination, s>> IN
              /\ at' = IF IsDirectory(at[x]) THEN [at EXCEPT ![x].kind = left] ELSE at
              /\ Becomes(c, [command[c] EXCEPT !.skills = @ \ {s}, !.skill = s,
                                !.step = "rmdir"])

\* Another copy may have taken the place of the emptied directory.
RemoveDirectory(c) ==
    /\ command[c].step = "rmdir"
    /\ at' = IF at[Target(c)].kind = "shell" THEN [at EXCEPT ![Target(c)] = NoEntry] ELSE at
    /\ Goes(c, "remove")

\* An unlink that fails, or a second Ctrl-C, ends the handler as a kill ends
\* the command.
Dies(c) ==
    /\ command[c].step \notin {"new", "installed", "refused", "failed", "dead"}
    /\ Ends(c, "dead")
    /\ UNCHANGED at

----------------------------------------------------------------------------

Works(c) ==
    \/ CheckSkill(c) \/ CheckLink(c)
    \/ Copy(c) \/ ListSkill(c) \/ MakeLink(c) \/ ListLink(c)
    \/ Fails(c) \/ Interrupt(c)
    \/ Unlink(c) \/ Remove(c) \/ RemoveDirectory(c)
    \/ Dies(c)

Next ==
    \E c \in Command :
       \/ \E d \in Dir, roots \in Roots : Begin(c, d, roots)
       \/ Works(c)

Spec == Init /\ [][Next]_vars

----------------------------------------------------------------------------
Range(s) == {s[i] : i \in DOMAIN s}

\* Everything a command is asked to make.
Wanted(c) ==
    LET o == command[c] IN
    [x \in ({o.destination} \X Skill) \cup (Range(o.roots) \X Skill) |->
        IF x[1] = o.destination THEN CopyBy(c) ELSE LinkBy(c, o.destination)]

\* "leaving the destination either complete or empty": a command that reports
\* failure has left none of its copies and links behind, unless a removal failed
\* or it was interrupted before a list had what it made.
FailureLeavesNothing ==
    \A c \in Command :
       command[c].step = "failed" /\ ~command[c].slipped
          => \A x \in Place : at[x].by = c => at[x].kind = "remains"

\* What a command reports as installed is all there, and stays: no other
\* command's checks, copies, links or undoing ever take from it.
SuccessStands ==
    \A c \in Command :
       command[c].step = "installed" =>
          \A x \in DOMAIN Wanted(c) : at[x] = Wanted(c)[x]

\* No link points to a skill that is missing, emptied or half removed, not even
\* after a kill, unless its command was interrupted before the list had the link.
NoDanglingLink ==
    \A x \in Place :
       at[x].kind = "link" /\ ~command[at[x].by].slipped
          => at[<<at[x].to, x[2]>>].kind = "copy"

\* A command changes or removes only what it made itself; it may take a place
\* only when that is free or being freed. What was there before stays.
OnlyOwnRemoved ==
    [][\A x \in Place :
          at'[x] # at[x] /\ at[x] # NoEntry =>
             \/ at[x].by # Others /\ command[at[x].by].step \in {"unlink", "remove", "rmdir"}
             \/ at[x].kind = "shell"]_vars
=============================================================================
