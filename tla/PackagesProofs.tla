---------------------------- MODULE PackagesProofs ----------------------------
(***************************************************************************)
(* Proofs about Packages for every number of ids, dates, processes and     *)
(* commands.  No lock orders the commands; what orders them is that        *)
(* os.replace and os.rename take a free place only, and that a package is  *)
(* finished after whatever created it has ended.  The inductive invariant  *)
(* says what each command may rely on between two of its file operations.  *)
(***************************************************************************)
EXTENDS Packages, TLAPS

\* A `workflow` command from its check that the id is free to its end.
Creating(p) ==
    \/ op[p].step \in {"place", "point", "prompt", "entry", "discard", "remove"}
    \/ op[p].next = "remove"

HasPlaced(p) == Creating(p) /\ op[p].step # "place"

Archiving(p) == op[p].step \in {"archive", "move"}

\* A creation is known by its own number.
OwnNumbers ==
    \A p \in Process : Creating(p) =>
        /\ op[p].number <= calls
        /\ \A q \in Process : Creating(q) /\ op[q].number = op[p].number => q = p

\* The directory a creation has placed stays while the creation runs.
CreatorsOwn ==
    \A p \in Process : HasPlaced(p) =>
        work[op[p].id] # Nothing /\ work[op[p].id].number = op[p].number

\* Nobody that runs on the id can still take its tracker away.
Settled(id) ==
    /\ HasTracker(id)
    /\ \A p \in Process : op[p].id = id =>
          /\ op[p].step \in {"archive", "move", "write", "revise"}
          /\ op[p].step = "revise" => op[p].seen = work[id].tracker

ArchiversAlone ==
    \A p \in Process : Archiving(p) =>
        /\ Settled(op[p].id)
        /\ work[op[p].id].tracker.complete
        /\ \A q \in Process : Archiving(q) /\ op[q].id = op[p].id => q = p

Archived(n) == \E slot \in Id \X Date :
    archive[slot] # Nothing /\ archive[slot].tracker # Nothing /\ archive[slot].tracker.of = n

\* Finished work is in the archive, or where nobody can lose it.
FinishedSettled ==
    \A n \in finished :
        Archived(n) \/ \E id \in Id : Settled(id) /\ work[id].tracker.of = n

\* A discard that has passed the pointer leaves none behind.
Unpointed ==
    \A p \in Process :
        op[p].step = "remove" \/ (op[p].step = "unprompt" /\ op[p].next = "remove")
            => active # op[p].id

\* A pointer to a package that is gone is about to be cleared.
PointerFollowed ==
    ~disturbed /\ active # Nothing /\ work[active] = Nothing =>
        \E p \in Process : \/ op[p].step = "look" /\ op[p].next = "idle" /\ op[p].id = active
                           \/ op[p].step = "unpoint"

\* A place in the archive of the id is taken, or the move is going on.
Tried(id) ==
    \/ \E date \in Date : archive[<<id, date>>] # Nothing
    \/ \E p \in Process : Archiving(p) /\ op[p].id = id

CompleteTried ==
    ~disturbed =>
        /\ \A id \in Id :
              HasTracker(id) /\ work[id].tracker.complete /\ work[id].tracker.of \notin unarchived
                 => Tried(id)
        /\ \A p \in Process :
              op[p].step = "revise" /\ op[p].seen.complete /\ op[p].seen.of \notin unarchived
                 => Tried(op[p].id)

IInv ==
    /\ TypeOK
    /\ OwnNumbers
    /\ CreatorsOwn
    /\ ArchiversAlone
    /\ FinishedSettled
    /\ Unpointed
    /\ PointerFollowed
    /\ CompleteTried

----------------------------------------------------------------------------

Operation ==
    [step : Steps, id : Id \cup {Nothing}, number : Call, next : {"idle", "remove"},
     date : Date \cup {Nothing}, seen : Tracker \cup {Nothing}]

LEMMA InitIInv == Init => IInv
<1> SUFFICES ASSUME Init PROVE IInv
  OBVIOUS
<1>1. TypeOK
  <2>1. 0 \in Call
    BY PackagesAssumption DEF Call
  <2>2. Idle \in Operation /\ Idle.step = "idle" /\ Idle.id = Nothing /\ Idle.seen = Nothing
        /\ Idle.next = "idle"
    BY <2>1 DEF Idle, Operation, Steps
  <2>3. op \in [Process -> Operation] /\ \A p \in Process : op[p] = Idle
    BY <2>2 DEF Init
  <2>. QED
    BY <2>1, <2>2, <2>3 DEF Init, TypeOK, Operation
<1>2. \A p \in Process : op[p] = Idle
  BY DEF Init
<1>. QED
  BY <1>1, <1>2 DEF Init, IInv, OwnNumbers, CreatorsOwn, ArchiversAlone, FinishedSettled, Unpointed,
     PointerFollowed, CompleteTried, Creating, HasPlaced, Archiving, Idle, HasTracker

\* What a command may rely on is kept by another one's step that moves no
\* directory, finishes nothing and only ends, or goes on with what it was at.
LEMMA WorkStays ==
    ASSUME IInv, TypeOK', NEW p \in Process,
           UNCHANGED <<work, finished, calls>>,
           \A n : Archived(n) => Archived(n)',
           \A q \in Process \ {p} : op'[q] = op[q],
           op'[p].step # "idle" => op'[p].id = op[p].id /\ op'[p].number = op[p].number,
           Creating(p)' => HasPlaced(p) /\ HasPlaced(p)',
           Archiving(p)' => Archiving(p),
           op'[p].step # "revise",
           op[p].step \in {"archive", "move", "write", "revise"} =>
              op'[p].step \in {"idle", "archive", "move", "write"}
    PROVE  OwnNumbers' /\ CreatorsOwn' /\ ArchiversAlone' /\ FinishedSettled'
<1>1. /\ work' = work
      /\ \A q \in Process : op[q].id = Nothing <=> op[q].step = "idle"
      /\ \A q \in Process : op'[q].id = Nothing <=> op'[q].step = "idle"
  BY DEF IInv, TypeOK
<1>2. OwnNumbers'
  <2>1. ASSUME NEW q \in Process, Creating(q)' PROVE Creating(q) /\ op'[q].number = op[q].number
    BY <1>1, <2>1 DEF Creating, HasPlaced, TypeOK
  <2>. QED
    BY <1>1, <2>1 DEF IInv, OwnNumbers
<1>3. CreatorsOwn'
  BY <1>1 DEF IInv, CreatorsOwn, Creating, HasPlaced, TypeOK
<1>4. ASSUME NEW id \in Id, Settled(id) PROVE Settled(id)'
  <2>1. HasTracker(id)'
    BY <1>1, <1>4 DEF Settled, HasTracker
  <2>2. ASSUME NEW q \in Process, op'[q].id = id
        PROVE  /\ op'[q].step \in {"archive", "move", "write", "revise"}
               /\ op'[q].step = "revise" => op'[q].seen = work'[id].tracker
    <3>1. CASE q # p
      BY <1>1, <1>4, <2>2, <3>1 DEF Settled
    <3>2. CASE q = p
      <4>1. op'[p].step # "idle"
        BY <1>1, <2>2, <3>2, PackagesAssumption
      <4>2. op[p].id = id
        BY <2>2, <3>2, <4>1
      <4>. QED
        BY <1>4, <3>2, <4>1, <4>2 DEF Settled
    <3>. QED
      BY <3>1, <3>2
  <2>. QED
    BY <2>1, <2>2 DEF Settled
<1>5. ArchiversAlone'
  <2>1. ASSUME NEW q \in Process, Archiving(q)'
        PROVE  /\ Archiving(q) /\ op'[q].id = op[q].id /\ op[q].id \in Id
    BY <1>1, <2>1 DEF Archiving, IInv, TypeOK
  <2>2. ASSUME NEW q \in Process, Archiving(q)'
        PROVE  /\ Settled(op[q].id) /\ work[op[q].id].tracker.complete
               /\ \A r \in Process : Archiving(r)' /\ op'[r].id = op'[q].id => r = q
    BY <2>1, <2>2 DEF IInv, ArchiversAlone
  <2>. QED
    BY <1>1, <1>4, <2>1, <2>2 DEF ArchiversAlone, Settled
<1>6. FinishedSettled'
  <2>1. ASSUME NEW n \in finished'
        PROVE  Archived(n)' \/ \E id \in Id : Settled(id)' /\ work'[id].tracker.of = n
    BY <1>1, <1>4 DEF IInv, FinishedSettled
  <2>. QED
    BY <2>1 DEF FinishedSettled
<1>. QED
  BY <1>2, <1>3, <1>5, <1>6

\* The same for a step that leaves the archive as it is.
LEMMA DirectoriesStay ==
    ASSUME IInv, TypeOK', NEW p \in Process,
           UNCHANGED <<directories, finished, calls>>,
           \A q \in Process \ {p} : op'[q] = op[q],
           op'[p].step # "idle" => op'[p].id = op[p].id /\ op'[p].number = op[p].number,
           Creating(p)' => HasPlaced(p) /\ HasPlaced(p)',
           Archiving(p)' => Archiving(p),
           op'[p].step # "revise",
           op[p].step \in {"archive", "move", "write", "revise"} =>
              op'[p].step \in {"idle", "archive", "move", "write"}
    PROVE  OwnNumbers' /\ CreatorsOwn' /\ ArchiversAlone' /\ FinishedSettled'
<1>1. UNCHANGED <<work, archive, finished, calls>>
  BY DEF directories
<1>2. \A n : Archived(n) => Archived(n)'
  BY <1>1 DEF Archived
<1>. QED
  BY <1>1, <1>2, WorkStays

\* The pointer still leads somewhere, or to a package about to be forgotten.
LEMMA PointerStays ==
    ASSUME IInv, NEW p \in Process, work' = work, active' = active, disturbed' = disturbed,
           \A q \in Process \ {p} : op'[q] = op[q],
           op[p].step = "look" => active # op[p].id \/ op'[p].step = "unpoint" \/ op[p].next = "remove",
           op[p].step # "unpoint"
    PROVE  PointerFollowed'
BY DEF IInv, PointerFollowed

\* Every complete tracker stays tried unless an archive attempt ends undone.
LEMMA TriedStays ==
    ASSUME IInv, NEW p \in Process, work' = work,
           \A slot \in Id \X Date : archive[slot] # Nothing => archive'[slot] # Nothing,
           disturbed' = disturbed, unarchived' = unarchived,
           \A q \in Process \ {p} : op'[q] = op[q],
           op'[p].step # "revise",
           Archiving(p) => (Archiving(p)' /\ op'[p].id = op[p].id)
                           \/ \E date \in Date : archive[<<op[p].id, date>>] # Nothing
    PROVE  CompleteTried'
<1>1. \A q \in Process : op[q].step = "revise" => op[q].id \in Id
  BY DEF IInv, TypeOK
<1>2. ASSUME NEW id \in Id, Tried(id) PROVE Tried(id)'
  BY <1>2 DEF Tried, Archiving
<1>. QED
  BY <1>1, <1>2 DEF IInv, CompleteTried, HasTracker, TypeOK

\* Pointing to the package just placed.
LEMMA PointKeepsIInv == ASSUME IInv, NEW p \in Process, Point(p) PROVE IInv'
<1>1. /\ op \in [Process -> Operation] /\ op[p].step = "point" /\ op[p].next = "idle"
      /\ op' = [op EXCEPT ![p].step = "prompt"]
      /\ active' = op[p].id /\ op[p].id \in Id
      /\ UNCHANGED <<work, archive, prompt, calls, finished, unarchived, disturbed>>
  BY DEF Point, Goes, directories, history, IInv, TypeOK, Operation
<1>2. /\ op' \in [Process -> Operation]
      /\ \A q \in Process \ {p} : op'[q] = op[q]
      /\ op'[p] = [op[p] EXCEPT !.step = "prompt"]
  BY <1>1 DEF Operation, Steps
<1>3. TypeOK'
  BY <1>1, <1>2 DEF IInv, TypeOK, Operation
<1>4. OwnNumbers' /\ CreatorsOwn' /\ ArchiversAlone' /\ FinishedSettled'
  BY <1>1, <1>2, <1>3, DirectoriesStay DEF Operation, Creating, HasPlaced, Archiving, directories
<1>5. work[op[p].id] # Nothing /\ HasPlaced(p)
  BY <1>1 DEF IInv, CreatorsOwn, HasPlaced, Creating
<1>6. PointerFollowed'
  BY <1>1, <1>5 DEF PointerFollowed
<1>7. Unpointed'
  <2>1. ASSUME NEW q \in Process, q # p, Creating(q), op[q].step # "place"
        PROVE  op[q].id # op[p].id
    BY <1>1, <1>5, <2>1 DEF IInv, OwnNumbers, CreatorsOwn, HasPlaced
  <2>. QED
    BY <1>1, <1>2, <2>1 DEF Unpointed, Creating, Operation
<1>8. CompleteTried'
  BY <1>1, <1>2, TriedStays DEF Archiving, Operation
<1>. QED
  BY <1>3, <1>4, <1>6, <1>7, <1>8 DEF IInv

\* A step that touches neither a directory nor the pointer.
LEMMA PromptKeepsIInv == ASSUME IInv, NEW p \in Process, Prompt(p) PROVE IInv'
<1>1. /\ op \in [Process -> Operation] /\ op[p].step = "prompt" /\ op[p].next = "idle"
      /\ op' = [op EXCEPT ![p].step = "entry"]
      /\ prompt' = op[p].id /\ op[p].id \in Id
      /\ UNCHANGED <<work, archive, active, calls, finished, unarchived, disturbed>>
  BY DEF Prompt, Goes, directories, history, IInv, TypeOK, Operation
<1>2. /\ op' \in [Process -> Operation]
      /\ \A q \in Process \ {p} : op'[q] = op[q]
      /\ op'[p] = [op[p] EXCEPT !.step = "entry"]
  BY <1>1 DEF Operation, Steps
<1>3. TypeOK'
  BY <1>1, <1>2 DEF IInv, TypeOK, Operation
<1>4. OwnNumbers' /\ CreatorsOwn' /\ ArchiversAlone' /\ FinishedSettled'
  BY <1>1, <1>2, <1>3, DirectoriesStay DEF Operation, Creating, HasPlaced, Archiving, directories
<1>5. PointerFollowed'
  BY <1>1, <1>2, PointerStays DEF Operation
<1>6. Unpointed'
  BY <1>1, <1>2 DEF IInv, Unpointed, Operation
<1>7. CompleteTried'
  BY <1>1, <1>2, TriedStays DEF Archiving, Operation
<1>. QED
  BY <1>3, <1>4, <1>5, <1>6, <1>7 DEF IInv

\* What ending a command, or going on with it, does to the table of commands.
LEMMA EndEffect ==
    ASSUME IInv, NEW p \in Process, Ends(p)
    PROVE  /\ op' \in [Process -> Operation] /\ op'[p] = Idle
           /\ \A q \in Process \ {p} : op'[q] = op[q]
           /\ op'[p].step = "idle" /\ op'[p].id = Nothing /\ op'[p].next = "idle"
           /\ op'[p].seen = Nothing
<1>1. Idle \in Operation
  BY PackagesAssumption DEF Idle, Operation, Steps, Call
<1>2. op \in [Process -> Operation]
  BY DEF IInv, TypeOK, Operation
<1>. QED
  BY <1>1, <1>2 DEF Ends, Idle

LEMMA GoEffect ==
    ASSUME IInv, NEW p \in Process, NEW step \in Steps, Goes(p, step)
    PROVE  /\ op' \in [Process -> Operation] /\ op'[p] = [op[p] EXCEPT !.step = step]
           /\ \A q \in Process \ {p} : op'[q] = op[q]
           /\ op'[p].step = step /\ op'[p].id = op[p].id /\ op'[p].next = op[p].next
           /\ op'[p].seen = op[p].seen /\ op'[p].number = op[p].number
           /\ op'[p].date = op[p].date
<1>1. op \in [Process -> Operation]
  BY DEF IInv, TypeOK, Operation
<1>. QED
  BY <1>1 DEF Goes, Operation

\* What the table of commands says of one command.
LEMMA OpType ==
    ASSUME IInv, NEW p \in Process
    PROVE  /\ op[p] \in Operation
           /\ op[p].step \in Steps /\ op[p].id \in Id \cup {Nothing} /\ op[p].number \in Call
           /\ op[p].next \in {"idle", "remove"} /\ op[p].date \in Date \cup {Nothing}
           /\ op[p].seen \in Tracker \cup {Nothing}
           /\ op[p].id = Nothing <=> op[p].step = "idle"
           /\ op[p].step = "revise" <=> op[p].seen # Nothing
           /\ op[p].next = "remove" => op[p].step \in {"look", "unpoint", "unprompt", "remove"}
           /\ op[p].step = "move" => op[p].date # Nothing
<1>1. op \in [Process -> Operation]
  BY DEF IInv, TypeOK, Operation
<1>. QED
  BY <1>1 DEF IInv, TypeOK, Operation

\* A command that stops where it is: it was killed or a root file stays.
LEMMA AbandonedKeepsIInv ==
    ASSUME IInv, NEW p \in Process, Crash(p) \/ UnlinkFails(p)
    PROVE  IInv'
<1>1. /\ Ends(p) /\ disturbed' = TRUE
      /\ UNCHANGED <<directories, root, calls, finished, unarchived>>
  BY DEF Crash, UnlinkFails
<1>2. TypeOK'
  BY <1>1, EndEffect DEF IInv, TypeOK, directories, root, Operation
<1>3. OwnNumbers' /\ CreatorsOwn' /\ ArchiversAlone' /\ FinishedSettled'
  BY <1>1, <1>2, EndEffect, DirectoriesStay DEF Creating, Archiving
<1>4. Unpointed'
  BY <1>1, EndEffect DEF IInv, Unpointed, root
<1>5. PointerFollowed' /\ CompleteTried'
  BY <1>1 DEF PointerFollowed, CompleteTried
<1>. QED
  BY <1>2, <1>3, <1>4, <1>5 DEF IInv

\* A move that fails: the package stays, counted as not archived.
LEMMA MoveFailsKeepsIInv ==
    ASSUME IInv, NEW p \in Process, MoveFails(p)
    PROVE  IInv'
<1> DEFINE id == op[p].id
           n == work[id].tracker.of
<1>1. /\ op[p].step = "move" /\ Ends(p) /\ id \in Id
      /\ unarchived' = unarchived \cup {n}
      /\ UNCHANGED <<work, archive, active, prompt, calls, finished, disturbed>>
  BY OpType DEF MoveFails, directories, root
<1>2. Settled(id)
  BY <1>1 DEF IInv, ArchiversAlone, Archiving
<1>3. n \in Call
  BY <1>1, <1>2 DEF Settled, HasTracker, IInv, TypeOK, Directory, Tracker
<1>4. TypeOK'
  BY <1>1, <1>3, EndEffect DEF IInv, TypeOK, Operation
<1>5. OwnNumbers' /\ CreatorsOwn' /\ ArchiversAlone' /\ FinishedSettled'
  BY <1>1, <1>4, EndEffect, DirectoriesStay DEF Creating, Archiving, directories
<1>6. Unpointed'
  BY <1>1, EndEffect DEF IInv, Unpointed
<1>7. PointerFollowed'
  BY <1>1, EndEffect, PointerStays
<1>8. CompleteTried'
  <2>1. ASSUME NEW j \in Id \ {id}, Tried(j) PROVE Tried(j)'
    BY <1>1, <2>1, EndEffect DEF Tried, Archiving
  <2>2. \A q \in Process : op[q].step = "revise" /\ op[q].id = id => op[q].seen.of = n
    BY <1>2 DEF Settled
  <2>3. \A q \in Process : op'[q].step = "revise" => q # p /\ op'[q] = op[q] /\ op[q].id \in Id
    BY <1>1, EndEffect, OpType
  <2>. QED
    BY <1>1, <2>1, <2>2, <2>3 DEF IInv, CompleteTried, HasTracker
<1>. QED
  BY <1>4, <1>5, <1>6, <1>7, <1>8 DEF IInv

\* Late text changes what an archived directory holds, not whose it is.
LEMMA LandsElsewhereEffect ==
    ASSUME IInv, NEW p \in Process, LandsElsewhere(p)
    PROVE  /\ archive' \in [Id \X Date -> Directory \cup {Nothing}]
           /\ \A slot \in Id \X Date :
                 \/ archive'[slot] = archive[slot]
                 \/ /\ archive[slot] # Nothing
                    /\ archive'[slot] = [archive[slot] EXCEPT !.late = TRUE]
                    /\ archive'[slot] # Nothing /\ archive'[slot].tracker = archive[slot].tracker
<1>1. archive \in [Id \X Date -> Directory \cup {Nothing}] /\ op[p].id \in Id
  BY OpType DEF LandsElsewhere, IInv, TypeOK
<1>2. CASE archive' = archive
  BY <1>1, <1>2
<1>3. ASSUME NEW date \in Date, archive[<<op[p].id, date>>] # Nothing,
             archive' = [archive EXCEPT ![<<op[p].id, date>>].late = TRUE]
      PROVE  /\ archive' \in [Id \X Date -> Directory \cup {Nothing}]
             /\ \A slot \in Id \X Date :
                   \/ archive'[slot] = archive[slot]
                   \/ /\ archive[slot] # Nothing
                      /\ archive'[slot] = [archive[slot] EXCEPT !.late = TRUE]
                      /\ archive'[slot] # Nothing /\ archive'[slot].tracker = archive[slot].tracker
  <2> DEFINE s == <<op[p].id, date>>
  <2>1. s \in Id \X Date /\ archive[s] \in Directory
    BY <1>1, <1>3
  <2>2. LET d == [archive[s] EXCEPT !.late = TRUE]
        IN  d \in Directory /\ d # Nothing /\ d.tracker = archive[s].tracker
    BY <2>1, PackagesAssumption DEF Directory
  <2>3. archive' = [archive EXCEPT ![s] = [archive[s] EXCEPT !.late = TRUE]]
    BY <1>3
  <2> HIDE DEF s
  <2>. QED
    BY <1>1, <1>3, <2>1, <2>2, <2>3 DEF s
<1>. QED
  BY <1>2, <1>3 DEF LandsElsewhere

\* A write whose directory went away.
LEMMA LandsElsewhereKeepsIInv ==
    ASSUME IInv, NEW p \in Process, LandsElsewhere(p)
    PROVE  IInv'
<1>1. /\ Ends(p) /\ op[p].step \in {"entry", "write", "revise"}
      /\ UNCHANGED <<work, active, prompt, calls, finished, unarchived, disturbed>>
  BY DEF LandsElsewhere, root, history
<1>2. /\ archive' \in [Id \X Date -> Directory \cup {Nothing}]
      /\ \A slot \in Id \X Date : archive[slot] # Nothing =>
            archive'[slot] # Nothing /\ archive'[slot].tracker = archive[slot].tracker
  BY LandsElsewhereEffect
<1>3. TypeOK'
  BY <1>1, <1>2, EndEffect DEF IInv, TypeOK, Operation
<1>4. \A n : Archived(n) => Archived(n)'
  BY <1>2 DEF Archived
<1>5. OwnNumbers' /\ CreatorsOwn' /\ ArchiversAlone' /\ FinishedSettled'
  BY <1>1, <1>3, <1>4, EndEffect, WorkStays DEF Creating, Archiving
<1>6. Unpointed'
  BY <1>1, EndEffect DEF IInv, Unpointed
<1>7. PointerFollowed'
  BY <1>1, EndEffect, PointerStays
<1>8. CompleteTried'
  BY <1>1, <1>2, EndEffect, TriedStays DEF Archiving
<1>. QED
  BY <1>3, <1>5, <1>6, <1>7, <1>8 DEF IInv

\* A creation that fails discards what it has placed, and nothing before that.
LEMMA CreationFailsKeepsIInv ==
    ASSUME IInv, NEW p \in Process, CreationFails(p)
    PROVE  IInv'
<1>1. /\ op[p].step \in {"place", "point", "prompt", "entry"}
      /\ UNCHANGED <<work, archive, active, prompt, calls, finished, unarchived, disturbed>>
      /\ (op[p].step = "place" /\ Ends(p)) \/ (op[p].step # "place" /\ Goes(p, "discard"))
  BY DEF CreationFails, directories, root, history
<1>2. "discard" \in Steps /\ op[p].next = "idle"
  BY <1>1, OpType DEF Steps
<1>3. /\ op' \in [Process -> Operation] /\ \A q \in Process \ {p} : op'[q] = op[q]
      /\ op'[p].next = "idle" /\ op'[p].seen = Nothing
      /\ \/ op[p].step = "place" /\ op'[p].step = "idle" /\ op'[p].id = Nothing
         \/ /\ op[p].step # "place" /\ op'[p].step = "discard"
            /\ op'[p].id = op[p].id /\ op'[p].number = op[p].number
  <2>1. CASE op[p].step = "place" /\ Ends(p)
    BY <2>1, EndEffect
  <2>2. CASE op[p].step # "place" /\ Goes(p, "discard")
    BY <1>1, <1>2, <2>2, GoEffect, OpType
  <2>. QED
    BY <1>1, <2>1, <2>2
<1>4. TypeOK'
  BY <1>1, <1>2, <1>3, OpType DEF IInv, TypeOK, Operation
<1>5. OwnNumbers' /\ CreatorsOwn' /\ ArchiversAlone' /\ FinishedSettled'
  BY <1>1, <1>2, <1>3, <1>4, DirectoriesStay DEF Creating, HasPlaced, Archiving, directories
<1>6. Unpointed'
  BY <1>1, <1>3 DEF IInv, Unpointed
<1>7. PointerFollowed'
  BY <1>1, <1>3, PointerStays
<1>8. CompleteTried'
  BY <1>1, <1>3, TriedStays DEF Archiving
<1>. QED
  BY <1>4, <1>5, <1>6, <1>7, <1>8 DEF IInv

\* discard_workflow starts: the directory it would remove is its own.
LEMMA DiscardKeepsIInv ==
    ASSUME IInv, NEW p \in Process, Discard(p)
    PROVE  IInv'
<1>1. /\ op[p].step = "discard" /\ op[p].next = "idle" /\ HasPlaced(p)
      /\ UNCHANGED <<work, archive, active, prompt, calls, finished, unarchived, disturbed>>
      /\ work[op[p].id] # Nothing
  BY OpType DEF Discard, directories, root, history, IInv, CreatorsOwn, HasPlaced, Creating
<1>2. /\ op' \in [Process -> Operation]
      /\ \A q \in Process \ {p} : op'[q] = op[q]
      /\ op'[p].step = "look" /\ op'[p].next = "remove" /\ op'[p].id = op[p].id
      /\ op'[p].number = op[p].number /\ op'[p].seen = op[p].seen
  <2>1. op \in [Process -> Operation]
    BY DEF IInv, TypeOK, Operation
  <2>2. op' = [op EXCEPT ![p].step = "look", ![p].next = "remove"]
    BY <1>1 DEF Discard
  <2>. QED
    BY <2>1, <2>2 DEF Operation, Steps
<1>3. TypeOK'
  BY <1>1, <1>2, OpType DEF IInv, TypeOK, Operation
<1>4. OwnNumbers' /\ CreatorsOwn' /\ ArchiversAlone' /\ FinishedSettled'
  BY <1>1, <1>2, <1>3, DirectoriesStay DEF Creating, HasPlaced, Archiving, directories
<1>5. Unpointed'
  BY <1>1, <1>2 DEF IInv, Unpointed
<1>6. PointerFollowed'
  BY <1>1, <1>2, PointerStays
<1>7. CompleteTried'
  BY <1>1, <1>2, TriedStays DEF Archiving
<1>. QED
  BY <1>3, <1>4, <1>5, <1>6, <1>7 DEF IInv

\* The pointer is read once; an archive whose package it names clears it.
LEMMA LookKeepsIInv ==
    ASSUME IInv, NEW p \in Process, Look(p)
    PROVE  IInv'
<1>1. /\ op[p].step = "look"
      /\ UNCHANGED <<work, archive, active, prompt, calls, finished, unarchived, disturbed>>
      /\ IF active = op[p].id THEN Goes(p, "unpoint") ELSE Proceeds(p)
  BY DEF Look, directories, root, history
<1>2. /\ op' \in [Process -> Operation] /\ \A q \in Process \ {p} : op'[q] = op[q]
      /\ op'[p].seen = Nothing
      /\ \/ /\ active = op[p].id /\ op'[p].step = "unpoint" /\ op'[p].next = op[p].next
            /\ op'[p].id = op[p].id /\ op'[p].number = op[p].number
         \/ /\ active # op[p].id /\ op[p].next = "idle" /\ op'[p].next = "idle"
            /\ op'[p].step = "idle" /\ op'[p].id = Nothing
         \/ /\ active # op[p].id /\ op[p].next = "remove" /\ op'[p].next = "remove"
            /\ op'[p].step = "remove" /\ op'[p].id = op[p].id /\ op'[p].number = op[p].number
  <2>1. CASE active = op[p].id
    <3>1. Goes(p, "unpoint") /\ "unpoint" \in Steps
      BY <1>1, <2>1 DEF Steps
    <3>. QED
      BY <1>1, <2>1, <3>1, GoEffect, OpType
  <2>2. CASE active # op[p].id /\ op[p].next = "idle"
    <3>1. Ends(p)
      BY <1>1, <2>2 DEF Proceeds
    <3>. QED
      BY <2>2, <3>1, EndEffect
  <2>3. CASE active # op[p].id /\ op[p].next = "remove"
    <3>1. Goes(p, "remove") /\ "remove" \in Steps
      BY <1>1, <2>3 DEF Proceeds, Steps
    <3>. QED
      BY <1>1, <2>3, <3>1, GoEffect, OpType
  <2>. QED
    BY <2>1, <2>2, <2>3, OpType
<1>3. TypeOK'
  BY <1>1, <1>2, OpType DEF IInv, TypeOK, Operation
<1>4. OwnNumbers' /\ CreatorsOwn' /\ ArchiversAlone' /\ FinishedSettled'
  BY <1>1, <1>2, <1>3, DirectoriesStay DEF Creating, HasPlaced, Archiving, directories
<1>5. Unpointed'
  BY <1>1, <1>2 DEF IInv, Unpointed
<1>6. PointerFollowed'
  BY <1>1, <1>2, PointerStays
<1>7. CompleteTried'
  BY <1>1, <1>2, TriedStays DEF Archiving
<1>. QED
  BY <1>3, <1>4, <1>5, <1>6, <1>7 DEF IInv

LEMMA UnpointKeepsIInv ==
    ASSUME IInv, NEW p \in Process, Unpoint(p)
    PROVE  IInv'
<1>1. /\ op[p].step = "unpoint" /\ Goes(p, "unprompt") /\ "unprompt" \in Steps
      /\ active' = Nothing
      /\ UNCHANGED <<work, archive, prompt, calls, finished, unarchived, disturbed>>
  BY DEF Unpoint, directories, history, Steps
<1>2. /\ op' \in [Process -> Operation] /\ \A q \in Process \ {p} : op'[q] = op[q]
      /\ op'[p].seen = op[p].seen /\ op'[p].step = "unprompt" /\ op'[p].next = op[p].next
      /\ op'[p].id = op[p].id /\ op'[p].number = op[p].number
  BY <1>1, GoEffect
<1>3. TypeOK'
  BY <1>1, <1>2, OpType DEF IInv, TypeOK, Operation
<1>4. OwnNumbers' /\ CreatorsOwn' /\ ArchiversAlone' /\ FinishedSettled'
  BY <1>1, <1>2, <1>3, DirectoriesStay DEF Creating, HasPlaced, Archiving, directories
<1>5. Unpointed'
  BY <1>1, <1>2, <1>3, PackagesAssumption DEF Unpointed, TypeOK
<1>6. PointerFollowed'
  BY <1>1 DEF PointerFollowed
<1>7. CompleteTried'
  BY <1>1, <1>2, TriedStays DEF Archiving
<1>. QED
  BY <1>3, <1>4, <1>5, <1>6, <1>7 DEF IInv

LEMMA UnpromptKeepsIInv ==
    ASSUME IInv, NEW p \in Process, Unprompt(p)
    PROVE  IInv'
<1>1. /\ op[p].step = "unprompt" /\ prompt' = Nothing /\ Proceeds(p)
      /\ UNCHANGED <<work, archive, active, calls, finished, unarchived, disturbed>>
  BY DEF Unprompt, directories, history
<1>2. /\ op' \in [Process -> Operation] /\ \A q \in Process \ {p} : op'[q] = op[q]
      /\ op'[p].seen = Nothing
      /\ \/ /\ op[p].next = "idle" /\ op'[p].next = "idle"
            /\ op'[p].step = "idle" /\ op'[p].id = Nothing
         \/ /\ op[p].next = "remove" /\ op'[p].next = "remove"
            /\ op'[p].step = "remove" /\ op'[p].id = op[p].id /\ op'[p].number = op[p].number
  <2>1. CASE op[p].next = "idle"
    <3>1. Ends(p)
      BY <1>1, <2>1 DEF Proceeds
    <3>. QED
      BY <2>1, <3>1, EndEffect
  <2>2. CASE op[p].next = "remove"
    <3>1. Goes(p, "remove") /\ "remove" \in Steps
      BY <1>1, <2>2 DEF Proceeds, Steps
    <3>. QED
      BY <1>1, <2>2, <3>1, GoEffect, OpType
  <2>. QED
    BY <2>1, <2>2, OpType
<1>3. TypeOK'
  BY <1>1, <1>2, OpType DEF IInv, TypeOK, Operation
<1>4. OwnNumbers' /\ CreatorsOwn' /\ ArchiversAlone' /\ FinishedSettled'
  BY <1>1, <1>2, <1>3, DirectoriesStay DEF Creating, HasPlaced, Archiving, directories
<1>5. Unpointed'
  BY <1>1, <1>2 DEF IInv, Unpointed
<1>6. PointerFollowed'
  BY <1>1, <1>2, PointerStays
<1>7. CompleteTried'
  BY <1>1, <1>2, TriedStays DEF Archiving
<1>. QED
  BY <1>3, <1>4, <1>5, <1>6, <1>7 DEF IInv

\* archive_completed_package stops at a date that is taken, or goes on to move.
LEMMA CheckSlotKeepsIInv ==
    ASSUME IInv, NEW p \in Process, NEW date \in Date, CheckSlot(p, date)
    PROVE  IInv'
<1>1. /\ op[p].step = "archive" /\ Archiving(p)
      /\ UNCHANGED <<work, archive, active, prompt, calls, finished, unarchived, disturbed>>
      /\ work[op[p].id] # Nothing
  BY DEF CheckSlot, directories, root, history, IInv, ArchiversAlone, Archiving, Settled, HasTracker
<1>2. /\ op' \in [Process -> Operation] /\ \A q \in Process \ {p} : op'[q] = op[q]
      /\ op'[p].seen = Nothing /\ op'[p].next = "idle"
      /\ \/ /\ op'[p].step = "idle" /\ op'[p].id = Nothing
            /\ \E d \in Date : archive[<<op[p].id, d>>] # Nothing
         \/ /\ op'[p].step = "move" /\ op'[p].id = op[p].id /\ op'[p].number = op[p].number
            /\ op'[p].date # Nothing
  <2>1. CASE archive[<<op[p].id, date>>] # Nothing
    <3>1. Ends(p)
      BY <2>1 DEF CheckSlot
    <3>. QED
      BY <2>1, <3>1, EndEffect
  <2>2. CASE archive[<<op[p].id, date>>] = Nothing
    <3>1. op' = [op EXCEPT ![p].step = "move", ![p].date = date]
      BY <1>1, <2>2 DEF CheckSlot
    <3>2. op \in [Process -> Operation]
      BY DEF IInv, TypeOK, Operation
    <3>3. op[p].seen = Nothing /\ op[p].next = "idle"
      BY <1>1, OpType
    <3>4. [op[p] EXCEPT !.step = "move", !.date = date] \in Operation
      BY <3>2 DEF Operation, Steps
    <3>5. /\ op' \in [Process -> Operation] /\ \A q \in Process \ {p} : op'[q] = op[q]
          /\ op'[p] = [op[p] EXCEPT !.step = "move", !.date = date]
      BY <3>1, <3>2, <3>4
    <3>6. /\ op'[p].step = "move" /\ op'[p].id = op[p].id /\ op'[p].number = op[p].number
          /\ op'[p].seen = op[p].seen /\ op'[p].next = op[p].next
          /\ op'[p].date # Nothing
      BY <3>2, <3>5, PackagesAssumption DEF Operation
    <3>. QED
      BY <3>3, <3>5, <3>6
  <2>. QED
    BY <2>1, <2>2
<1>3. TypeOK'
  BY <1>1, <1>2, OpType DEF IInv, TypeOK, Operation
<1>4. OwnNumbers' /\ CreatorsOwn' /\ ArchiversAlone' /\ FinishedSettled'
  BY <1>1, <1>2, <1>3, DirectoriesStay DEF Creating, HasPlaced, Archiving, directories
<1>5. Unpointed'
  BY <1>1, <1>2 DEF IInv, Unpointed
<1>6. PointerFollowed'
  BY <1>1, <1>2, PointerStays
<1>7. CompleteTried'
  BY <1>1, <1>2, TriedStays DEF Archiving
<1>. QED
  BY <1>3, <1>4, <1>5, <1>6, <1>7 DEF IInv

LEMMA BeginEffect ==
    ASSUME IInv, NEW p \in Process, NEW o \in Operation, Begins(p, o)
    PROVE  /\ op' \in [Process -> Operation] /\ op'[p] = o
           /\ \A q \in Process \ {p} : op'[q] = op[q]
           /\ op[p].step = "idle" /\ op[p].next = "idle" /\ op[p].id = Nothing
           /\ calls \in Nat /\ calls' = calls + 1 /\ calls' \in Call /\ calls + 1 \in Call
<1>1. op \in [Process -> Operation] /\ calls \in Nat
  BY PackagesAssumption DEF IInv, TypeOK, Operation, Call
<1>2. op[p].step = "idle" /\ calls' = calls + 1 /\ calls < CallCap
  BY DEF Begins
<1>3. op[p].next = "idle" /\ op[p].id = Nothing
  BY <1>2, OpType
<1>. QED
  BY <1>1, <1>2, <1>3, PackagesAssumption DEF Begins, Call

\* The check that the id is free: nothing is placed yet.
LEMMA CreateKeepsIInv ==
    ASSUME IInv, NEW p \in Process, NEW id \in Id, Create(p, id)
    PROVE  IInv'
<1> DEFINE o == [Idle EXCEPT !.step = "place", !.id = id, !.number = calls + 1]
<1>1. /\ Begins(p, o) /\ work[id] = Nothing
      /\ UNCHANGED <<work, archive, active, prompt, finished, unarchived, disturbed>>
  BY DEF Create, directories, root
<1>2. calls + 1 \in Call /\ op[p].step = "idle"
  BY <1>1, PackagesAssumption DEF Begins, IInv, TypeOK, Call
<1>3. /\ o \in Operation /\ o.step = "place" /\ o.id = id /\ o.number = calls + 1
      /\ o.next = "idle" /\ o.seen = Nothing
  BY <1>2 DEF Idle, Operation, Steps
<1> HIDE DEF o
<1>4. /\ op' \in [Process -> Operation] /\ op'[p] = o
      /\ \A q \in Process \ {p} : op'[q] = op[q]
      /\ op[p].next = "idle" /\ op[p].id = Nothing
      /\ calls \in Nat /\ calls' = calls + 1 /\ calls' \in Call
  BY <1>1, <1>3, BeginEffect
<1>5. TypeOK'
  BY <1>1, <1>3, <1>4, PackagesAssumption DEF IInv, TypeOK, Operation
<1>6. OwnNumbers'
  <2>1. \A q \in Process : op[q].number \in Nat
    BY OpType DEF Call
  <2>. QED
    BY <1>2, <1>3, <1>4, <2>1 DEF IInv, OwnNumbers, Creating
<1>7. CreatorsOwn'
  BY <1>1, <1>3, <1>4 DEF IInv, CreatorsOwn, HasPlaced, Creating
<1>8. \A j \in Id : Settled(j) => Settled(j)'
  BY <1>1, <1>3, <1>4 DEF Settled, HasTracker
<1>9. ArchiversAlone'
  BY <1>1, <1>3, <1>4, <1>8, OpType DEF IInv, ArchiversAlone, Archiving
<1>10. FinishedSettled'
  BY <1>1, <1>8 DEF IInv, FinishedSettled, Archived
<1>11. Unpointed' /\ PointerFollowed'
  BY <1>1, <1>2, <1>3, <1>4 DEF IInv, Unpointed, PointerFollowed
<1>12. CompleteTried'
  <2>1. \A j : Tried(j) => Tried(j)'
    BY <1>1, <1>2, <1>4 DEF Tried, Archiving
  <2>. QED
    BY <1>1, <1>3, <1>4, <2>1 DEF IInv, CompleteTried, HasTracker
<1>. QED
  BY <1>5, <1>6, <1>7, <1>9, <1>10, <1>11, <1>12 DEF IInv

\* A command that finds a package and will write into it.
LEMMA FoundKeepsIInv ==
    ASSUME IInv, NEW p \in Process, Resolve(p) \/ \E id \in Id : Read(p, id)
    PROVE  IInv'
<1>1. PICK id \in Id, o \in Operation :
         /\ Begins(p, o) /\ work[id] # Nothing
         /\ o.id = id /\ o.next = "idle"
         /\ \/ o.step = "write" /\ o.seen = Nothing
            \/ /\ o.step = "revise" /\ o.seen = work[id].tracker /\ HasTracker(id)
               /\ o.seen # Nothing
  <2>1. \A id \in Id : work[id] # Nothing => work[id] \in Directory
    BY DEF IInv, TypeOK
  <2>2. CASE Resolve(p)
    <3> DEFINE o == [Idle EXCEPT !.step = "write", !.id = active, !.number = work[active].number]
    <3>1. Begins(p, o) /\ active \in Id /\ work[active] # Nothing
      BY <2>2 DEF Resolve, IInv, TypeOK
    <3>2. work[active].number \in Call
      BY <2>1, <3>1 DEF Directory
    <3>3. o \in Operation /\ o.step = "write" /\ o.id = active /\ o.next = "idle"
          /\ o.seen = Nothing
      BY <3>1, <3>2 DEF Operation, Idle, Steps
    <3>. QED
      BY <3>1, <3>3
  <2>3. ASSUME NEW id \in Id, Read(p, id)
        PROVE  \E o \in Operation :
                  /\ Begins(p, o) /\ work[id] # Nothing
                  /\ o.id = id /\ o.next = "idle"
                  /\ o.step = "revise" /\ o.seen = work[id].tracker /\ HasTracker(id)
                  /\ o.seen # Nothing
    <3> DEFINE o == [Idle EXCEPT !.step = "revise", !.id = id, !.number = work[id].number,
                                 !.seen = work[id].tracker]
    <3>1. Begins(p, o) /\ work[id] # Nothing /\ work[id].tracker # Nothing /\ HasTracker(id)
      BY <2>3 DEF Read, HasTracker
    <3>2. work[id].number \in Call /\ work[id].tracker \in Tracker
      BY <2>1, <3>1 DEF Directory
    <3>3. o \in Operation /\ o.step = "revise" /\ o.id = id /\ o.next = "idle"
          /\ o.seen = work[id].tracker
      BY <3>1, <3>2 DEF Operation, Idle, Steps
    <3>. QED
      BY <3>1, <3>3
  <2>. QED
    BY <2>2, <2>3
<1>2. UNCHANGED <<work, archive, active, prompt, finished, unarchived, disturbed>>
  BY DEF Resolve, Read, directories, root
<1>3. /\ op' \in [Process -> Operation] /\ op'[p] = o
      /\ \A q \in Process \ {p} : op'[q] = op[q]
      /\ op[p].step = "idle" /\ op[p].next = "idle" /\ op[p].id = Nothing
      /\ calls \in Nat /\ calls' = calls + 1 /\ calls' \in Call
  BY <1>1, BeginEffect
<1>4. TypeOK'
  BY <1>1, <1>2, <1>3, PackagesAssumption DEF IInv, TypeOK, Operation
<1>5. OwnNumbers'
  <2>1. \A q \in Process : op[q].number \in Nat
    BY OpType DEF Call
  <2>. QED
    BY <1>1, <1>3, <2>1 DEF IInv, OwnNumbers, Creating
<1>6. CreatorsOwn'
  BY <1>1, <1>2, <1>3 DEF IInv, CreatorsOwn, HasPlaced, Creating
<1>7. \A j \in Id : Settled(j) => Settled(j)'
  BY <1>1, <1>2, <1>3 DEF Settled, HasTracker
<1>8. ArchiversAlone'
  BY <1>1, <1>2, <1>3, <1>7, OpType DEF IInv, ArchiversAlone, Archiving
<1>9. FinishedSettled'
  BY <1>2, <1>7 DEF IInv, FinishedSettled, Archived
<1>10. Unpointed' /\ PointerFollowed'
  BY <1>1, <1>2, <1>3 DEF IInv, Unpointed, PointerFollowed
<1>11. CompleteTried'
  <2>1. \A j : Tried(j) => Tried(j)'
    BY <1>2, <1>3 DEF Tried, Archiving
  <2>. QED
    BY <1>1, <1>2, <1>3, <2>1 DEF IInv, CompleteTried, HasTracker
<1>. QED
  BY <1>4, <1>5, <1>6, <1>8, <1>9, <1>10, <1>11 DEF IInv

\* The last unit: whatever else runs on the id can no longer take the tracker.
LEMMA FinishKeepsIInv ==
    ASSUME IInv, NEW p \in Process, NEW id \in Id, Finish(p, id) \/ FinishInPlace(p, id)
    PROVE  IInv'
<1> DEFINE o == [Idle EXCEPT !.step = "archive", !.id = id, !.number = work[id].number]
           n == work[id].tracker.of
<1>1. /\ work[id] # Nothing /\ work[id].tracker # Nothing /\ HasTracker(id)
      /\ NothingOlderRuns(id)
      /\ work' = [work EXCEPT ![id].tracker.complete = TRUE]
      /\ finished' = finished \cup {n}
      /\ UNCHANGED <<archive, active, prompt, disturbed>>
  BY DEF Finish, FinishInPlace, Completes, HasTracker, root
<1>2. work[id] \in Directory /\ work[id].number \in Call /\ work[id].tracker \in Tracker
  BY <1>1 DEF IInv, TypeOK, Directory
<1>3. /\ o \in Operation /\ o.step = "archive" /\ o.id = id
      /\ o.next = "idle" /\ o.seen = Nothing
  BY <1>2 DEF Idle, Operation, Steps
<1> HIDE DEF o
<1>4. /\ op' \in [Process -> Operation]
      /\ \A q \in Process \ {p} : op'[q] = op[q]
      /\ op[p].step = "idle" /\ op[p].next = "idle" /\ op[p].id = Nothing
      /\ calls \in Nat /\ calls' = calls + 1 /\ calls' \in Call
      /\ op'[p].next = "idle" /\ op'[p].seen = Nothing
      /\ \/ op'[p].step = "archive" /\ op'[p].id = id /\ unarchived' = unarchived
         \/ /\ op'[p].step = "idle" /\ op'[p].id = Nothing
            /\ unarchived' = unarchived \cup {n}
  <2>1. CASE Finish(p, id)
    <3>1. Begins(p, o) /\ unarchived' = unarchived
      BY <2>1 DEF Finish, o
    <3>. QED
      BY <1>3, <3>1, BeginEffect
  <2>2. CASE FinishInPlace(p, id)
    <3>1. /\ op' = op /\ op[p].step = "idle" /\ calls' = calls + 1 /\ calls < CallCap
          /\ unarchived' = unarchived \cup {n}
      BY <2>2 DEF FinishInPlace
    <3>2. op[p].next = "idle" /\ op[p].id = Nothing /\ op[p].seen = Nothing
      BY <3>1, OpType
    <3>3. op \in [Process -> Operation] /\ calls \in Nat
      BY DEF IInv, TypeOK, Operation, Call
    <3>. QED
      BY <3>1, <3>2, <3>3, PackagesAssumption DEF Call
  <2>. QED
    BY <2>1, <2>2
<1>5. /\ work' \in [Id -> Directory \cup {Nothing}]
      /\ \A j \in Id \ {id} : work'[j] = work[j]
      /\ \A j \in Id : work'[j] = Nothing <=> work[j] = Nothing
      /\ work'[id].number = work[id].number
      /\ work'[id].tracker \in Tracker /\ work'[id].tracker # Nothing
      /\ work'[id].tracker.of = n /\ work'[id].tracker.complete
  <2>1. [work[id].tracker EXCEPT !.complete = TRUE] \in Tracker
    BY <1>2 DEF Tracker
  <2>2. [work[id] EXCEPT !.tracker.complete = TRUE] \in Directory
    BY <1>2, <2>1 DEF Directory
  <2>3. work \in [Id -> Directory \cup {Nothing}]
    BY DEF IInv, TypeOK
  <2>4. /\ work' \in [Id -> Directory \cup {Nothing}]
        /\ \A j \in Id \ {id} : work'[j] = work[j]
        /\ work'[id] = [work[id] EXCEPT !.tracker.complete = TRUE]
    BY <1>1, <2>2, <2>3
  <2>5. work'[id].tracker = [work[id].tracker EXCEPT !.complete = TRUE]
        /\ work'[id].number = work[id].number
    BY <1>2, <2>4 DEF Directory
  <2>6. work'[id].tracker.of = n /\ work'[id].tracker.complete
    BY <1>2, <2>5 DEF Tracker
  <2>. QED
    BY <1>1, <2>1, <2>2, <2>4, <2>5, <2>6, PackagesAssumption
<1>6. \A q \in Process : op[q].id = id => op[q].step = "write"
  BY <1>1 DEF NothingOlderRuns
<1>7. TypeOK'
  <2>1. n \in Call
    BY <1>2 DEF Tracker
  <2>2. \A q \in Process :
          /\ op'[q].id = Nothing <=> op'[q].step = "idle"
          /\ op'[q].step = "revise" <=> op'[q].seen # Nothing
          /\ op'[q].next = "remove" => op'[q].step \in {"look", "unpoint", "unprompt", "remove"}
          /\ op'[q].step = "move" => op'[q].date # Nothing
    BY <1>4, OpType, PackagesAssumption
  <2>. QED
    BY <1>1, <1>4, <1>5, <2>1, <2>2 DEF IInv, TypeOK, Operation
<1>8. OwnNumbers'
  <2>1. \A q \in Process : op[q].number \in Nat
    BY OpType DEF Call
  <2>. QED
    BY <1>4, <2>1 DEF IInv, OwnNumbers, Creating
<1>9. CreatorsOwn'
  <2>1. ASSUME NEW q \in Process, HasPlaced(q)'
        PROVE  q # p /\ HasPlaced(q) /\ op'[q].id = op[q].id /\ op'[q].number = op[q].number
               /\ op[q].id \in Id
    BY <1>4, <2>1, OpType DEF HasPlaced, Creating
  <2>. QED
    BY <1>5, <2>1 DEF IInv, CreatorsOwn
<1>10. Settled(id)' /\ \A j \in Id \ {id} : Settled(j) => Settled(j)'
  <2>1. Settled(id)'
    <3>1. \A q \in Process : op'[q].id = id => op'[q].step \in {"archive", "write"}
      BY <1>4, <1>6, PackagesAssumption
    <3>2. HasTracker(id)'
      BY <1>1, <1>5 DEF HasTracker
    <3>. QED
      BY <3>1, <3>2 DEF Settled
  <2>2. ASSUME NEW j \in Id \ {id}, Settled(j) PROVE Settled(j)'
    BY <1>4, <1>5, <2>2, PackagesAssumption DEF Settled, HasTracker
  <2>. QED
    BY <2>1, <2>2
<1>11. ArchiversAlone'
  <2>1. ASSUME NEW q \in Process, q # p, Archiving(q)'
        PROVE  Archiving(q) /\ op'[q].id = op[q].id /\ op[q].id \in Id \ {id}
    BY <1>4, <1>6, <2>1, OpType DEF Archiving
  <2>2. Archiving(p)' => op'[p].id = id
    BY <1>4 DEF Archiving
  <2>. QED
    BY <1>4, <1>5, <1>10, <2>1, <2>2 DEF IInv, ArchiversAlone
<1>12. FinishedSettled'
  <2>1. \A m : Archived(m) => Archived(m)'
    BY <1>1 DEF Archived
  <2>. QED
    BY <1>1, <1>5, <1>10, <2>1 DEF IInv, FinishedSettled
<1>13. Unpointed' /\ PointerFollowed'
  <2>1. active \in Id \cup {Nothing}
    BY DEF IInv, TypeOK
  <2>. QED
    BY <1>1, <1>4, <1>5, <2>1 DEF IInv, Unpointed, PointerFollowed
<1>14. CompleteTried'
  <2>1. \A j : Tried(j) => Tried(j)'
    BY <1>1, <1>4 DEF Tried, Archiving
  <2>2. n \notin unarchived' => Tried(id)'
    BY <1>4 DEF Tried, Archiving
  <2>3. unarchived \subseteq unarchived'
    BY <1>4
  <2>. QED
    BY <1>1, <1>4, <1>5, <2>1, <2>2, <2>3 DEF IInv, CompleteTried, HasTracker
<1>. QED
  BY <1>7, <1>8, <1>9, <1>11, <1>12, <1>13, <1>14 DEF IInv

\* os.replace: the directory is the creation's own, or nothing is placed.
LEMMA PlaceKeepsIInv ==
    ASSUME IInv, NEW p \in Process, Place(p)
    PROVE  IInv'
<1> DEFINE id == op[p].id
<1>1. /\ op[p].step = "place" /\ op[p].next = "idle" /\ id \in Id /\ op[p].seen = Nothing
      /\ UNCHANGED <<archive, active, prompt, calls, finished, unarchived, disturbed>>
  BY OpType DEF Place, root, history
<1>2. CASE work[id] # Nothing
  <2>1. Ends(p) /\ work' = work
    BY <1>2 DEF Place
  <2>2. TypeOK'
    BY <1>1, <2>1, EndEffect DEF IInv, TypeOK, Operation
  <2>3. OwnNumbers' /\ CreatorsOwn' /\ ArchiversAlone' /\ FinishedSettled'
    BY <1>1, <2>1, <2>2, EndEffect, DirectoriesStay DEF Creating, Archiving, directories
  <2>4. Unpointed'
    BY <1>1, <2>1, EndEffect DEF IInv, Unpointed
  <2>5. PointerFollowed'
    BY <1>1, <2>1, EndEffect, PointerStays
  <2>6. CompleteTried'
    BY <1>1, <2>1, EndEffect, TriedStays DEF Archiving
  <2>. QED
    BY <2>2, <2>3, <2>4, <2>5, <2>6 DEF IInv
<1>3. CASE work[id] = Nothing
  <2>1. /\ Goes(p, "point") /\ "point" \in Steps
        /\ work' = [work EXCEPT ![id] = New(op[p].number)]
    BY <1>3 DEF Place, Steps
  <2>2. /\ op' \in [Process -> Operation] /\ \A q \in Process \ {p} : op'[q] = op[q]
        /\ op'[p].seen = Nothing /\ op'[p].step = "point" /\ op'[p].next = "idle"
        /\ op'[p].id = id /\ op'[p].number = op[p].number
    BY <1>1, <2>1, GoEffect
  <2>3. /\ work' \in [Id -> Directory \cup {Nothing}]
        /\ \A j \in Id \ {id} : work'[j] = work[j]
        /\ work'[id] # Nothing /\ work'[id].number = op[p].number
        /\ ~ work'[id].tracker.complete
    <3>1. op[p].number \in Call
      BY OpType
    <3>2. /\ New(op[p].number) \in Directory /\ New(op[p].number).number = op[p].number
          /\ ~ New(op[p].number).tracker.complete
      BY <3>1 DEF New, Directory, Tracker
    <3>3. work \in [Id -> Directory \cup {Nothing}]
      BY DEF IInv, TypeOK
    <3>4. /\ work' \in [Id -> Directory \cup {Nothing}]
          /\ \A j \in Id \ {id} : work'[j] = work[j]
          /\ work'[id] = New(op[p].number)
      BY <1>1, <2>1, <3>2, <3>3
    <3>. QED
      BY <3>2, <3>4, PackagesAssumption
  <2>4. TypeOK'
    BY <1>1, <2>2, <2>3, OpType, PackagesAssumption DEF IInv, TypeOK, Operation
  <2>5. OwnNumbers'
    BY <1>1, <2>2 DEF IInv, OwnNumbers, Creating
  <2>6. CreatorsOwn'
    <3>1. ASSUME NEW q \in Process, q # p, HasPlaced(q)'
          PROVE  HasPlaced(q) /\ op'[q] = op[q] /\ op[q].id \in Id \ {id}
      BY <1>3, <2>2, <3>1, OpType DEF HasPlaced, Creating, IInv, CreatorsOwn
    <3>. QED
      BY <2>2, <2>3, <3>1 DEF IInv, CreatorsOwn
  <2>7. ASSUME NEW j \in Id, Settled(j) PROVE j # id /\ Settled(j)'
    <3>1. j # id
      BY <1>3, <2>7 DEF Settled, HasTracker
    <3>. QED
      BY <2>2, <2>3, <2>7, <3>1 DEF Settled, HasTracker
  <2>8. ArchiversAlone'
    <3>1. ASSUME NEW q \in Process, Archiving(q)'
          PROVE  q # p /\ Archiving(q) /\ op'[q] = op[q] /\ op[q].id \in Id
      BY <2>2, <3>1, OpType DEF Archiving
    <3>. QED
      BY <2>2, <2>3, <2>7, <3>1 DEF IInv, ArchiversAlone
  <2>9. FinishedSettled'
    <3>1. \A m : Archived(m) => Archived(m)'
      BY <1>1 DEF Archived
    <3>. QED
      BY <1>1, <2>3, <2>7, <3>1 DEF IInv, FinishedSettled
  <2>10. Unpointed'
    BY <1>1, <2>2 DEF IInv, Unpointed
  <2>11. PointerFollowed'
    <3>1. active \in Id \cup {Nothing}
      BY DEF IInv, TypeOK
    <3>. QED
      BY <1>1, <2>2, <2>3, <3>1 DEF IInv, PointerFollowed
  <2>12. CompleteTried'
    <3>1. \A j : Tried(j) => Tried(j)'
      BY <1>1, <2>2 DEF Tried, Archiving
    <3>. QED
      BY <1>1, <2>2, <2>3, <3>1 DEF IInv, CompleteTried, HasTracker
  <2>. QED
    BY <2>4, <2>5, <2>6, <2>8, <2>9, <2>10, <2>11, <2>12 DEF IInv
<1>. QED
  BY <1>2, <1>3

\* A write below work/<id>, an entry or a tracker: what the write puts there.
LEMMA WrittenKeepsIInv ==
    ASSUME IInv, NEW p \in Process, NEW id \in Id, NEW d \in Directory,
           id = op[p].id, op[p].step \in {"entry", "write", "revise"}, Ends(p),
           work' = [work EXCEPT ![id] = d],
           UNCHANGED <<archive, active, prompt, calls, finished, unarchived, disturbed>>,
           work[id] # Nothing => d.number = work[id].number,
           Settled(id) => d.tracker = work[id].tracker,
           d.tracker # Nothing /\ d.tracker.complete =>
              \/ work[id] # Nothing /\ d.tracker = work[id].tracker
              \/ op[p].step = "revise" /\ d.tracker = op[p].seen
    PROVE  IInv'
<1>1. /\ op' \in [Process -> Operation] /\ op'[p] = Idle
      /\ \A q \in Process \ {p} : op'[q] = op[q]
      /\ op'[p].step = "idle" /\ op'[p].id = Nothing /\ op'[p].next = "idle"
      /\ op'[p].seen = Nothing
  BY EndEffect
<1>2. /\ work' \in [Id -> Directory \cup {Nothing}] /\ work'[id] = d /\ d # Nothing
      /\ \A j \in Id \ {id} : work'[j] = work[j]
  BY PackagesAssumption DEF IInv, TypeOK
<1>3. TypeOK'
  BY <1>1, <1>2 DEF IInv, TypeOK, Operation
<1>4. OwnNumbers'
  BY <1>1 DEF IInv, OwnNumbers, Creating
<1>5. CreatorsOwn'
  <2>1. ASSUME NEW q \in Process, HasPlaced(q)'
        PROVE  q # p /\ HasPlaced(q) /\ op'[q] = op[q] /\ op[q].id \in Id
    BY <1>1, <2>1, OpType DEF HasPlaced, Creating
  <2>. QED
    BY <1>2, <2>1 DEF IInv, CreatorsOwn
<1>6. ASSUME NEW j \in Id, Settled(j) PROVE Settled(j)' /\ work'[j].tracker = work[j].tracker
  <2>1. work'[j] # Nothing /\ work'[j].tracker = work[j].tracker
    BY <1>2, <1>6 DEF Settled, HasTracker
  <2>2. HasTracker(j)'
    BY <1>6, <2>1 DEF Settled, HasTracker
  <2>3. \A q \in Process : op'[q].id = j => q # p /\ op'[q] = op[q]
    BY <1>1, PackagesAssumption
  <2>. QED
    BY <1>6, <2>1, <2>2, <2>3 DEF Settled
<1>7. ArchiversAlone'
  <2>1. ASSUME NEW q \in Process, Archiving(q)'
        PROVE  q # p /\ Archiving(q) /\ op'[q] = op[q] /\ op[q].id \in Id
    BY <1>1, <2>1, OpType DEF Archiving
  <2>. QED
    BY <1>1, <1>6, <2>1 DEF IInv, ArchiversAlone
<1>8. FinishedSettled'
  <2>1. \A m : Archived(m) => Archived(m)'
    BY DEF Archived
  <2>. QED
    BY <1>6, <2>1 DEF IInv, FinishedSettled
<1>9. Unpointed'
  BY <1>1 DEF IInv, Unpointed
<1>10. PointerFollowed'
  <2>1. active \in Id \cup {Nothing}
    BY DEF IInv, TypeOK
  <2>. QED
    BY <1>1, <1>2, <2>1 DEF IInv, PointerFollowed
<1>11. CompleteTried'
  <2>1. \A j : Tried(j) => Tried(j)'
    BY <1>1 DEF Tried, Archiving
  <2>2. ASSUME ~ disturbed, HasTracker(id)', work'[id].tracker.complete,
               work'[id].tracker.of \notin unarchived
        PROVE  Tried(id)
    BY <1>2, <2>2 DEF IInv, CompleteTried, HasTracker
  <2>. QED
    BY <1>1, <1>2, <2>1, <2>2 DEF IInv, CompleteTried, HasTracker
<1>. QED
  BY <1>3, <1>4, <1>5, <1>7, <1>8, <1>9, <1>10, <1>11 DEF IInv

LEMMA EntryKeepsIInv ==
    ASSUME IInv, NEW p \in Process, Entry(p)
    PROVE  IInv'
<1> DEFINE id == op[p].id
           d == Holding(id, Nothing)
<1>1. /\ op[p].step \in {"entry", "write"} /\ id \in Id /\ Ends(p)
      /\ work' = [work EXCEPT ![id] = d]
      /\ UNCHANGED <<archive, active, prompt, calls, finished, unarchived, disturbed>>
  BY OpType DEF Entry, root, history
<1>2. /\ d \in Directory
      /\ work[id] # Nothing => d = work[id]
      /\ work[id] = Nothing => d.tracker = Nothing
  <2>1. 0 \in Call
    BY PackagesAssumption DEF Call
  <2>. QED
    BY <1>1, <2>1 DEF Holding, Directory, IInv, TypeOK
<1>3. Settled(id) => d.tracker = work[id].tracker
  BY <1>2 DEF Settled, HasTracker
<1>4. /\ work[id] # Nothing => d.number = work[id].number
      /\ d.tracker # Nothing /\ d.tracker.complete =>
            work[id] # Nothing /\ d.tracker = work[id].tracker
  BY <1>2
<1> HIDE DEF d
<1>. QED
  BY <1>1, <1>2, <1>3, <1>4, WrittenKeepsIInv

LEMMA ReviseKeepsIInv ==
    ASSUME IInv, NEW p \in Process, Revise(p)
    PROVE  IInv'
<1> DEFINE id == op[p].id
           d == [Holding(id, op[p].seen) EXCEPT !.tracker = op[p].seen]
<1>1. /\ op[p].step = "revise" /\ id \in Id /\ Ends(p) /\ op[p].seen \in Tracker
      /\ work' = [work EXCEPT ![id] = d]
      /\ UNCHANGED <<archive, active, prompt, calls, finished, unarchived, disturbed>>
  BY OpType DEF Revise, root, history
<1>2. /\ d \in Directory /\ d.tracker = op[p].seen
      /\ work[id] # Nothing => d.number = work[id].number
  <2>1. 0 \in Call
    BY PackagesAssumption DEF Call
  <2>2. /\ Holding(id, op[p].seen) \in Directory
        /\ work[id] # Nothing => Holding(id, op[p].seen) = work[id]
    BY <1>1, <2>1 DEF Holding, Directory, IInv, TypeOK
  <2>. QED
    BY <1>1, <2>2 DEF Directory
<1>3. Settled(id) => d.tracker = work[id].tracker
  BY <1>1, <1>2 DEF Settled
<1>4. d.tracker # Nothing /\ d.tracker.complete => op[p].step = "revise" /\ d.tracker = op[p].seen
  BY <1>1, <1>2
<1> HIDE DEF d
<1>. QED
  BY <1>1, <1>2, <1>3, <1>4, WrittenKeepsIInv

\* discard_workflow removes the directory the creation has placed, or a part of
\* it; nothing takes the place of what is left.
LEMMA RemoveEffect ==
    ASSUME IInv, NEW p \in Process, Remove(p) \/ RemoveFails(p)
    PROVE  LET id == op[p].id
           IN  /\ id \in Id /\ HasPlaced(p) /\ Ends(p)
               /\ work[id] # Nothing /\ work[id].number = op[p].number
               /\ active # id
               /\ work' \in [Id -> Directory \cup {Nothing}]
               /\ (work'[id] # Nothing /\ work'[id].tracker # Nothing =>
                      HasTracker(id) /\ work'[id].tracker = work[id].tracker)
               /\ \A j \in Id \ {id} : work'[j] = work[j]
               /\ UNCHANGED <<archive, active, prompt, calls, finished, unarchived, disturbed>>
<1> DEFINE id == op[p].id
<1>1. op[p].step = "remove" /\ id \in Id /\ Ends(p)
  BY OpType DEF Remove, RemoveFails
<1>2. /\ HasPlaced(p) /\ active # id
      /\ work[id] # Nothing /\ work[id].number = op[p].number
  BY <1>1 DEF HasPlaced, Creating, IInv, Unpointed, CreatorsOwn
<1>3. UNCHANGED <<archive, active, prompt, calls, finished, unarchived, disturbed>>
  BY DEF Remove, RemoveFails, root, history
<1>4. work \in [Id -> Directory \cup {Nothing}]
  BY DEF IInv, TypeOK
<1>5. CASE Remove(p)
  BY <1>1, <1>2, <1>3, <1>4, <1>5 DEF Remove, HasTracker
<1>6. CASE RemoveFails(p)
  <2>1. PICK left \in {work[id].tracker, Nothing} : work' = [work EXCEPT ![id].tracker = left]
    BY <1>6 DEF RemoveFails
  <2>2. work[id] \in Directory
    BY <1>1, <1>2, <1>4
  <2>3. LET d == [work[id] EXCEPT !.tracker = left]
        IN  d \in Directory /\ d.tracker = left
    BY <2>1, <2>2 DEF Directory
  <2>4. work' = [work EXCEPT ![id] = [work[id] EXCEPT !.tracker = left]]
    BY <2>1
  <2> HIDE DEF id
  <2>5. /\ work' \in [Id -> Directory \cup {Nothing}] /\ work'[id].tracker = left
        /\ \A j \in Id \ {id} : work'[j] = work[j]
    BY <1>1, <1>4, <2>3, <2>4 DEF id
  <2>. QED
    BY <1>1, <1>2, <1>3, <2>1, <2>5 DEF HasTracker, id
<1>. QED
  BY <1>5, <1>6

LEMMA RemoveKeepsIInv ==
    ASSUME IInv, NEW p \in Process, Remove(p) \/ RemoveFails(p)
    PROVE  IInv'
<1> DEFINE id == op[p].id
<1>1. /\ id \in Id /\ HasPlaced(p) /\ Ends(p) /\ op[p].step = "remove"
      /\ work[id] # Nothing /\ work[id].number = op[p].number
      /\ active # id
      /\ work' \in [Id -> Directory \cup {Nothing}]
      /\ (work'[id] # Nothing /\ work'[id].tracker # Nothing =>
             HasTracker(id) /\ work'[id].tracker = work[id].tracker)
      /\ \A j \in Id \ {id} : work'[j] = work[j]
      /\ UNCHANGED <<archive, active, prompt, calls, finished, unarchived, disturbed>>
  BY RemoveEffect DEF Remove, RemoveFails
<1>2. /\ op' \in [Process -> Operation] /\ op'[p] = Idle
      /\ \A q \in Process \ {p} : op'[q] = op[q]
      /\ op'[p].step = "idle" /\ op'[p].id = Nothing /\ op'[p].next = "idle"
      /\ op'[p].seen = Nothing
  BY <1>1, EndEffect
<1>3. TypeOK'
  BY <1>1, <1>2 DEF IInv, TypeOK, Operation
<1>4. OwnNumbers'
  BY <1>1, <1>2 DEF IInv, OwnNumbers, Creating
<1>5. CreatorsOwn'
  <2>1. ASSUME NEW q \in Process, HasPlaced(q)'
        PROVE  q # p /\ HasPlaced(q) /\ op'[q] = op[q] /\ op[q].id \in Id
    BY <1>2, <2>1, OpType DEF HasPlaced, Creating
  <2>2. ASSUME NEW q \in Process, q # p, HasPlaced(q) PROVE op[q].id # id
    BY <1>1, <2>2 DEF IInv, OwnNumbers, CreatorsOwn, HasPlaced
  <2>. QED
    BY <1>1, <2>1, <2>2 DEF IInv, CreatorsOwn
<1>6. ASSUME NEW j \in Id, Settled(j) PROVE j # id /\ Settled(j)'
  <2>1. op[p].step \notin {"archive", "move", "write", "revise"}
    BY <1>1, OpType DEF HasPlaced, Creating
  <2>2. j # id
    BY <1>6, <2>1 DEF Settled
  <2>3. \A q \in Process : op'[q].id = j => q # p /\ op'[q] = op[q]
    BY <1>2, PackagesAssumption
  <2>. QED
    BY <1>1, <1>6, <2>2, <2>3 DEF Settled, HasTracker
<1>7. ArchiversAlone'
  <2>1. ASSUME NEW q \in Process, Archiving(q)'
        PROVE  q # p /\ Archiving(q) /\ op'[q] = op[q] /\ op[q].id \in Id
    BY <1>2, <2>1, OpType DEF Archiving
  <2>. QED
    BY <1>1, <1>2, <1>6, <2>1 DEF IInv, ArchiversAlone
<1>8. FinishedSettled'
  <2>1. \A m : Archived(m) => Archived(m)'
    BY <1>1 DEF Archived
  <2>. QED
    BY <1>1, <1>6, <2>1 DEF IInv, FinishedSettled
<1>9. Unpointed'
  BY <1>1, <1>2 DEF IInv, Unpointed
<1>10. PointerFollowed'
  <2>1. active \in Id \cup {Nothing}
    BY DEF IInv, TypeOK
  <2>. QED
    BY <1>1, <1>2, <2>1 DEF IInv, PointerFollowed
<1>11. CompleteTried'
  <2>1. \A j : Tried(j) => Tried(j)'
    BY <1>1, <1>2 DEF Tried, Archiving
  <2>. QED
    BY <1>1, <1>2, <2>1 DEF IInv, CompleteTried, HasTracker
<1>. QED
  BY <1>3, <1>4, <1>5, <1>7, <1>8, <1>9, <1>10, <1>11 DEF IInv

\* os.rename: the package's tracker is complete and leaves work/ with it.
LEMMA MoveEffect ==
    ASSUME IInv, NEW p \in Process, Move(p)
    PROVE  LET id == op[p].id
               slot == <<id, op[p].date>>
           IN  /\ id \in Id /\ slot \in Id \X Date /\ op[p].date \in Date
               /\ op[p].step = "move" /\ op[p].next = "idle"
               /\ Settled(id) /\ work[id].tracker.complete
               /\ archive[slot] = Nothing
               /\ archive' \in [Id \X Date -> Directory \cup {Nothing}]
               /\ archive'[slot] = work[id]
               /\ \A s \in (Id \X Date) \ {slot} : archive'[s] = archive[s]
               /\ work' \in [Id -> Directory \cup {Nothing}] /\ work'[id] = Nothing
               /\ \A j \in Id \ {id} : work'[j] = work[j]
               /\ UNCHANGED <<active, prompt, calls, finished, unarchived, disturbed>>
<1> DEFINE id == op[p].id
           slot == <<id, op[p].date>>
<1>1. /\ op[p].step = "move" /\ op[p].next = "idle" /\ id \in Id
      /\ work[id] # Nothing /\ archive[slot] = Nothing
      /\ archive' = [archive EXCEPT ![slot] = work[id]]
      /\ work' = [work EXCEPT ![id] = Nothing]
      /\ UNCHANGED <<active, prompt, calls, finished, unarchived, disturbed>>
  BY OpType DEF Move, root, history
<1>2. Settled(id) /\ work[id].tracker.complete
  BY <1>1 DEF IInv, ArchiversAlone, Archiving
<1>3. op[p].date \in Date
  BY <1>1, OpType
<1>. QED
  BY <1>1, <1>2, <1>3 DEF IInv, TypeOK

LEMMA MoveKeepsIInv ==
    ASSUME IInv, NEW p \in Process, Move(p)
    PROVE  IInv'
<1> DEFINE id == op[p].id
           slot == <<id, op[p].date>>
<1>1. /\ id \in Id /\ slot \in Id \X Date /\ op[p].date \in Date
      /\ op[p].step = "move" /\ op[p].next = "idle"
      /\ Settled(id) /\ work[id].tracker.complete
      /\ archive[slot] = Nothing
      /\ archive' \in [Id \X Date -> Directory \cup {Nothing}]
      /\ archive'[slot] = work[id]
      /\ \A s \in (Id \X Date) \ {slot} : archive'[s] = archive[s]
      /\ work' \in [Id -> Directory \cup {Nothing}] /\ work'[id] = Nothing
      /\ \A j \in Id \ {id} : work'[j] = work[j]
      /\ UNCHANGED <<active, prompt, calls, finished, unarchived, disturbed>>
  BY MoveEffect
<1>2. /\ op' \in [Process -> Operation] /\ \A q \in Process \ {p} : op'[q] = op[q]
      /\ op'[p].step = "look" /\ op'[p].id = id /\ op'[p].next = "idle"
      /\ op'[p].seen = Nothing
  <2>1. Goes(p, "look") /\ "look" \in Steps
    BY DEF Move, Steps
  <2>2. op[p].seen = Nothing
    BY <1>1, OpType
  <2>. QED
    BY <1>1, <2>1, <2>2, GoEffect
<1>3. /\ work[id] # Nothing /\ work[id].tracker # Nothing
      /\ \A q \in Process : op[q].id = id => op[q].step \in {"archive", "move", "write", "revise"}
      /\ \A q \in Process : Archiving(q) /\ op[q].id = id => q = p
  BY <1>1 DEF Settled, HasTracker, IInv, ArchiversAlone, Archiving
<1> HIDE DEF id, slot
<1>4. TypeOK'
  <2>1. \A q \in Process :
          /\ op'[q].id = Nothing <=> op'[q].step = "idle"
          /\ op'[q].step = "revise" <=> op'[q].seen # Nothing
          /\ op'[q].next = "remove" => op'[q].step \in {"look", "unpoint", "unprompt", "remove"}
          /\ op'[q].step = "move" => op'[q].date # Nothing
    BY <1>1, <1>2, OpType, PackagesAssumption
  <2>. QED
    BY <1>1, <1>2, <2>1 DEF IInv, TypeOK, Operation
<1>5. OwnNumbers'
  <2>1. ASSUME NEW q \in Process, Creating(q)' PROVE q # p /\ Creating(q) /\ op'[q] = op[q]
    BY <1>2, <2>1 DEF Creating
  <2>. QED
    BY <1>1, <2>1 DEF IInv, OwnNumbers
<1>6. CreatorsOwn'
  <2>1. ASSUME NEW q \in Process, HasPlaced(q)'
        PROVE  q # p /\ HasPlaced(q) /\ op'[q] = op[q] /\ op[q].id \in Id
    BY <1>2, <2>1, OpType DEF HasPlaced, Creating
  <2>2. ASSUME NEW q \in Process, HasPlaced(q) PROVE op[q].id # id
    BY <1>3, <2>2, OpType DEF HasPlaced, Creating
  <2>. QED
    BY <1>1, <2>1, <2>2 DEF IInv, CreatorsOwn
<1>7. ASSUME NEW j \in Id \ {id}, Settled(j) PROVE Settled(j)'
  BY <1>1, <1>2, <1>7 DEF Settled, HasTracker
<1>8. ArchiversAlone'
  <2>1. ASSUME NEW q \in Process, Archiving(q)'
        PROVE  q # p /\ Archiving(q) /\ op'[q] = op[q] /\ op[q].id \in Id \ {id}
    BY <1>2, <1>3, <2>1, OpType DEF Archiving
  <2>. QED
    BY <1>1, <1>7, <2>1 DEF IInv, ArchiversAlone
<1>9. FinishedSettled'
  <2>1. ASSUME NEW n, Archived(n) PROVE Archived(n)'
    BY <1>1, <2>1 DEF Archived
  <2>2. ASSUME NEW n, n = work[id].tracker.of PROVE Archived(n)'
    BY <1>1, <1>3, <2>2 DEF Archived
  <2>3. ASSUME NEW n \in finished
        PROVE  Archived(n)' \/ \E j \in Id : Settled(j)' /\ work'[j].tracker.of = n
    <3>1. CASE Archived(n)
      BY <2>1, <3>1
    <3>2. CASE \E j \in Id : Settled(j) /\ work[j].tracker.of = n
      <4>1. PICK j \in Id : Settled(j) /\ work[j].tracker.of = n
        BY <3>2
      <4>2. CASE j = id
        BY <2>2, <4>1, <4>2
      <4>3. CASE j # id
        BY <1>1, <1>7, <4>1, <4>3
      <4>. QED
        BY <4>2, <4>3
    <3>. QED
      BY <3>1, <3>2 DEF IInv, FinishedSettled
  <2>. QED
    BY <1>1, <2>3 DEF FinishedSettled
<1>10. Unpointed'
  BY <1>1, <1>2 DEF IInv, Unpointed
<1>11. PointerFollowed'
  <2>1. active \in Id \cup {Nothing}
    BY DEF IInv, TypeOK
  <2>2. ASSUME ~disturbed, active # Nothing, active # id, work'[active] = Nothing
        PROVE  \E q \in Process : \/ op'[q].step = "look" /\ op'[q].next = "idle" /\ op'[q].id = active
                                  \/ op'[q].step = "unpoint"
    BY <1>1, <1>2, <2>1, <2>2 DEF IInv, PointerFollowed
  <2>. QED
    BY <1>1, <1>2, <2>2 DEF PointerFollowed
<1>12. CompleteTried'
  <2>1. ASSUME NEW j \in Id, j = id PROVE Tried(j)'
    BY <1>1, <1>3, <2>1 DEF Tried, slot
  <2>2. ASSUME NEW j \in Id, Tried(j) PROVE Tried(j)'
    <3>1. CASE j = id
      BY <2>1, <3>1
    <3>2. ASSUME j # id, NEW date \in Date, archive[<<j, date>>] # Nothing
          PROVE  archive'[<<j, date>>] # Nothing
      BY <1>1, <3>2 DEF slot
    <3>3. ASSUME j # id, NEW q \in Process, Archiving(q), op[q].id = j
          PROVE  Archiving(q)' /\ op'[q].id = j
      BY <1>2, <3>3 DEF Archiving, id
    <3>. QED
      BY <2>2, <3>1, <3>2, <3>3 DEF Tried
  <2>3. \A q \in Process : op[q].step = "revise" => op[q].id \in Id
    BY OpType
  <2>. QED
    BY <1>1, <1>2, <2>2, <2>3 DEF IInv, CompleteTried, HasTracker
<1>. QED
  BY <1>4, <1>5, <1>6, <1>8, <1>9, <1>10, <1>11, <1>12 DEF IInv

----------------------------------------------------------------------------

LEMMA StepKeepsIInv == IInv /\ [Next]_vars => IInv'
<1> SUFFICES ASSUME IInv, [Next]_vars PROVE IInv'
  OBVIOUS
<1>1. ASSUME NEW p \in Process, Calls(p) PROVE IInv'
  <2>1. ASSUME NEW id \in Id, Create(p, id) \/ Finish(p, id) \/ FinishInPlace(p, id)
        PROVE  IInv'
    BY <2>1, CreateKeepsIInv, FinishKeepsIInv
  <2>. QED
    BY <1>1, <2>1, FoundKeepsIInv DEF Calls
<1>2. ASSUME NEW p \in Process, Works(p) PROVE IInv'
  <2>1. ASSUME NEW date \in Date, CheckSlot(p, date) PROVE IInv'
    BY <2>1, CheckSlotKeepsIInv
  <2>2. ASSUME \/ Place(p) \/ Point(p) \/ Prompt(p) \/ Entry(p) \/ CreationFails(p)
        PROVE  IInv'
    BY <2>2, PlaceKeepsIInv, PointKeepsIInv, PromptKeepsIInv, EntryKeepsIInv,
       CreationFailsKeepsIInv
  <2>3. ASSUME \/ Discard(p) \/ Look(p) \/ Unpoint(p) \/ Unprompt(p)
               \/ Remove(p) \/ RemoveFails(p)
        PROVE  IInv'
    BY <2>3, DiscardKeepsIInv, LookKeepsIInv, UnpointKeepsIInv, UnpromptKeepsIInv,
       RemoveKeepsIInv
  <2>4. ASSUME Move(p) \/ Revise(p) \/ LandsElsewhere(p) PROVE IInv'
    BY <2>4, MoveKeepsIInv, ReviseKeepsIInv, LandsElsewhereKeepsIInv
  <2>5. ASSUME Crash(p) \/ UnlinkFails(p) \/ MoveFails(p) PROVE IInv'
    BY <2>5, AbandonedKeepsIInv, MoveFailsKeepsIInv
  <2>. QED
    BY <1>2, <2>1, <2>2, <2>3, <2>4, <2>5 DEF Works
<1>3. CASE UNCHANGED vars
  <2>1. TypeOK' /\ OwnNumbers' /\ CreatorsOwn' /\ Unpointed' /\ PointerFollowed'
    BY <1>3 DEF vars, IInv, TypeOK, OwnNumbers, CreatorsOwn, Unpointed, PointerFollowed,
       Creating, HasPlaced
  <2>2. ArchiversAlone' /\ CompleteTried'
    BY <1>3 DEF vars, IInv, ArchiversAlone, CompleteTried, Archiving, Settled, HasTracker, Tried
  <2>3. FinishedSettled'
    BY <1>3 DEF vars, IInv, FinishedSettled, Settled, HasTracker, Archived
  <2>. QED
    BY <2>1, <2>2, <2>3 DEF IInv
<1>. QED
  BY <1>1, <1>2, <1>3 DEF Next

LEMMA InductiveInvariant == Spec => []IInv
BY InitIInv, StepKeepsIInv, PTL DEF Spec

----------------------------------------------------------------------------

\* The variables keep their shapes, and no command is half of two.
THEOREM TypeCorrect == Spec => []TypeOK
<1>1. IInv => TypeOK
  BY DEF IInv
<1>. QED
  BY <1>1, InductiveInvariant, PTL

\* The tracker of a finished package is in work/ or in the archive, through
\* every race, failure and kill.
THEOREM FinishedStaysKept == Spec => []FinishedWorkKept
<1>1. ASSUME IInv PROVE FinishedWorkKept
  <2>1. work \in [Id -> Directory \cup {Nothing}] /\ archive \in [Id \X Date -> Directory \cup {Nothing}]
    BY <1>1 DEF IInv, TypeOK
  <2>2. ASSUME NEW n \in finished PROVE n \in Kept
    <3>1. CASE Archived(n)
      <4>1. PICK slot \in Id \X Date :
              archive[slot] # Nothing /\ archive[slot].tracker # Nothing /\ archive[slot].tracker.of = n
        BY <3>1 DEF Archived
      <4>2. archive[slot].tracker \in Trackers(archive)
        BY <2>1, <4>1 DEF Trackers
      <4>. QED
        BY <4>1, <4>2 DEF Kept
    <3>2. CASE \E id \in Id : Settled(id) /\ work[id].tracker.of = n
      <4>1. PICK id \in Id : HasTracker(id) /\ work[id].tracker.of = n
        BY <3>2 DEF Settled
      <4>2. work[id].tracker \in Trackers(work)
        BY <2>1, <4>1 DEF Trackers, HasTracker
      <4>. QED
        BY <4>1, <4>2 DEF Kept
    <3>. QED
      BY <1>1, <3>1, <3>2 DEF IInv, FinishedSettled
  <2>. QED
    BY <2>2 DEF FinishedWorkKept
<1>. QED
  BY <1>1, InductiveInvariant, PTL

\* At rest, and if nothing was killed, the pointer names a package that is there.
THEOREM PointerSound == Spec => []PointerNamesAPackage
<1>1. IInv => PointerNamesAPackage
  BY DEF IInv, PointerFollowed, PointerNamesAPackage, Quiet
<1>. QED
  BY <1>1, InductiveInvariant, PTL

\* At rest, a finished package whose move was tried and did not fail is in work/
\* only if a place in the archive is taken.
THEOREM FinishedIsTried == Spec => []FinishedStaysOnlyIfSlotTaken
<1>1. IInv => FinishedStaysOnlyIfSlotTaken
  BY DEF IInv, CompleteTried, FinishedStaysOnlyIfSlotTaken, Quiet, Tried, Archiving
<1>. QED
  BY <1>1, InductiveInvariant, PTL

\* An archived directory is never removed or replaced, nor its tracker, and only
\* finished packages get there; what lands in it late is text of its own.
THEOREM ArchivedStays == Spec => ArchiveIsFinal
<1> DEFINE A == \A slot \in DOMAIN archive :
                   IF archive[slot] # Nothing
                   THEN archive'[slot] \in {archive[slot], [archive[slot] EXCEPT !.late = TRUE]}
                   ELSE archive'[slot] # Nothing => archive'[slot].tracker.complete
<1>1. ASSUME IInv, [Next]_vars PROVE [A]_vars
  <2>1. archive \in [Id \X Date -> Directory \cup {Nothing}]
    BY <1>1 DEF IInv, TypeOK
  <2>2. ASSUME NEW p \in Process, Move(p) PROVE A
    <3> DEFINE slot == <<op[p].id, op[p].date>>
    <3>1. /\ work[op[p].id].tracker.complete
          /\ archive[slot] = Nothing /\ archive'[slot] = work[op[p].id]
          /\ \A s \in (Id \X Date) \ {slot} : archive'[s] = archive[s]
      BY <1>1, <2>2, MoveEffect
    <3> HIDE DEF slot
    <3>. QED
      BY <2>1, <3>1
  <2>3. ASSUME NEW p \in Process, LandsElsewhere(p) PROVE A
    <3>1. \A slot \in Id \X Date :
             \/ archive'[slot] = archive[slot]
             \/ /\ archive[slot] # Nothing
                /\ archive'[slot] = [archive[slot] EXCEPT !.late = TRUE]
      BY <1>1, <2>3, LandsElsewhereEffect
    <3>. QED
      BY <2>1, <3>1
  <2>4. ASSUME archive' = archive PROVE A
    BY <2>4
  <2>5. ASSUME NEW p \in Process, Calls(p) PROVE archive' = archive
    BY <2>5 DEF Calls, Create, Finish, FinishInPlace, Read, Resolve, directories
  <2>6. ASSUME NEW p \in Process, Works(p), ~Move(p), ~LandsElsewhere(p)
        PROVE  archive' = archive
    BY <2>6 DEF Works, Place, Point, Prompt, Entry, CreationFails, Discard, Look, Unpoint,
       Unprompt, UnlinkFails, Remove, RemoveFails, CheckSlot, MoveFails, Revise, Crash,
       directories
  <2>. QED
    BY <1>1, <2>2, <2>3, <2>4, <2>5, <2>6 DEF Next
<1>. QED
  BY <1>1, InductiveInvariant, PTL DEF Spec, ArchiveIsFinal

\* A discard removes the directory its own command placed, and no other.
THEOREM CreatorDiscards == Spec => OnlyCreatorDiscards
<1> DEFINE D == \A p \in Process :
                   op[p].step = "remove" /\ op'[p].step = "idle"
                      => \A id \in Id : work'[id] # work[id] => work[id].number = op[p].number
<1>1. ASSUME IInv, [Next]_vars PROVE [D]_vars
  <2> SUFFICES ASSUME NEW p \in Process, op[p].step = "remove", op'[p].step = "idle",
                      NEW id \in Id, work'[id] # work[id], Next
               PROVE  work[id].number = op[p].number
    BY <1>1
  <2>1. op \in [Process -> Operation]
    BY <1>1 DEF IInv, TypeOK, Operation
  <2>2. ASSUME NEW q \in Process, Calls(q) PROVE q # p /\ op'[p] = op[p]
    BY <2>1, <2>2 DEF Calls, Create, Finish, FinishInPlace, Read, Resolve, Begins
  <2>3. ASSUME NEW q \in Process, q # p, Works(q) PROVE op'[p] = op[p]
    BY <2>1, <2>3 DEF Works, Place, Point, Prompt, Entry, CreationFails, Discard, Look, Unpoint,
       Unprompt, UnlinkFails, Remove, RemoveFails, CheckSlot, Move, MoveFails, Revise, LandsElsewhere, Crash,
       Goes, Ends, Proceeds
  <2>4. ASSUME Works(p) PROVE Remove(p) \/ RemoveFails(p) \/ work' = work
    BY <2>4 DEF Works, Place, Point, Prompt, Entry, CreationFails, Discard, Look, Unpoint,
       Unprompt, UnlinkFails, CheckSlot, Move, MoveFails, Revise, LandsElsewhere, Crash,
       directories
  <2>5. Remove(p) \/ RemoveFails(p)
    BY <2>2, <2>3, <2>4 DEF Next
  <2>. QED
    BY <1>1, <2>5, RemoveEffect
<1>. QED
  BY <1>1, InductiveInvariant, PTL DEF Spec, OnlyCreatorDiscards

=============================================================================
