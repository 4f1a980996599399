--------------------------- MODULE SkillInstallProofs ---------------------------
(* What SkillInstall promises, proved for every number of commands, skills *)
(* and directories.                                                        *)
EXTENDS SkillInstall, TLAPS

Ended == {"new", "refused", "failed", "dead"}

\* Where a command's own work is, while it remembers it.
Progress(c) ==
    LET o == command[c] IN
    /\ o.step \in {"check", "copy", "list"} => o.nth = 1
    /\ o.step \in {"copy", "list"} =>
          \A s \in Skill : s < o.skill => s \in o.skills
    /\ o.step \in {"link", "listlink", "installed"} => o.skills = Skill
    /\ o.step \in {"link", "listlink"} =>
          \A n \in DOMAIN o.roots, s \in Skill :
             n < o.nth \/ (n = o.nth /\ s < o.skill) => <<o.roots[n], s>> \in o.links
    /\ o.step = "installed" =>
          \A n \in DOMAIN o.roots, s \in Skill : <<o.roots[n], s>> \in o.links
    /\ o.skills # {} \/ o.links # {} => o.step \notin Ended \cup {"check", "checklink"}
    /\ o.slipped => o.step \in {"unlink", "remove", "rmdir", "failed", "dead"}

\* What a command has in its lists, or is about to put there, is there and is
\* its own.
Listed(c) ==
    LET o == command[c] IN
    /\ \A s \in o.skills : at[<<o.destination, s>>] = CopyBy(c)
    /\ \A x \in o.links : at[x] = LinkBy(c, o.destination)
    /\ o.step = "list" => at[Target(c)] = CopyBy(c)
    /\ o.step = "listlink" => at[Link(c)] = LinkBy(c, o.destination)

\* What is its own is in its lists, or about to be.
Owned(c) ==
    LET o == command[c] IN
    o.step # "dead" /\ ~o.slipped =>
       \A x \in Place : at[x].by = c =>
          \/ at[x].kind = "copy" /\ x[1] = o.destination
             /\ (x[2] \in o.skills \/ (o.step = "list" /\ x[2] = o.skill))
          \/ at[x].kind = "link" /\ (x \in o.links \/ (o.step = "listlink" /\ x = Link(c)))
          \/ at[x].kind = "shell" /\ o.step = "rmdir" /\ x = Target(c)
          \/ at[x].kind = "remains"

\* A link leads to a copy of the command that made the link.
LinksLead ==
    \A x \in Place :
       at[x].kind = "link" =>
          /\ at[x].by \in Command /\ at[x].to \in Dir
          /\ ~command[at[x].by].slipped => at[<<at[x].to, x[2]>>] = CopyBy(at[x].by)

IInv ==
    /\ TypeOK
    /\ \A c \in Command : Progress(c) /\ Listed(c) /\ Owned(c)
    /\ LinksLead

----------------------------------------------------------------------------

LEMMA RootIsDir ==
    ASSUME NEW roots \in Roots, NEW n \in DOMAIN roots
    PROVE  roots[n] \in Dir /\ n \in Nat
  BY DEF Roots

\* Every place a command remembers is a place.
LEMMA PlacesOf ==
    ASSUME TypeOK, NEW c \in Command, Progress(c)
    PROVE  /\ command[c].step \notin Ended => command[c].destination \in Dir /\ Target(c) \in Place
           /\ \A s \in command[c].skills : <<command[c].destination, s>> \in Place
           /\ command[c].step \in {"checklink", "link", "listlink"} => Link(c) \in Place
           /\ \A x \in command[c].links : x \in Place
  <1>1. command[c].step \notin Ended => command[c].destination \in Dir
    BY DEF TypeOK, Ended
  <1>2. command[c].step \in {"checklink", "link", "listlink"} =>
           command[c].roots[command[c].nth] \in Dir
    BY RootIsDir DEF TypeOK
  <1>3. command[c].skill \in Skill /\ command[c].skills \in SUBSET Skill
          /\ command[c].links \in SUBSET Place
    BY DEF TypeOK
  <1> QED
    BY <1>1, <1>2, <1>3 DEF Place, Target, Link, Progress

Good(c) == Progress(c) /\ Listed(c) /\ Owned(c)

\* A command keeps what it knows when others touch neither its record nor its
\* copies and links.
LEMMA Frame ==
    ASSUME TypeOK, NEW d \in Command, Good(d),
           command'[d] = command[d],
           \A x \in Place : at'[x] # at[x] =>
              at[x].kind \notin {"copy", "link"} \/ at[x].by # d,
           \A x \in Place : at'[x] # at[x] => at'[x].by # d
    PROVE  Good(d)'
  <1> DEFINE o == command[d]
  <1>1. Progress(d)'
    BY DEF Progress, Good
  <1>2. \A x \in Place : at[x] = CopyBy(d) \/ at[x] = LinkBy(d, o.destination) => at'[x] = at[x]
    BY DEF CopyBy, LinkBy
  <1>3. Listed(d)'
    BY <1>2, PlacesOf DEF Listed, Good, Target, Link, Ended
  <1>4. Owned(d)'
    BY DEF Owned, Good, Target, Link
  <1> QED
    BY <1>1, <1>3, <1>4 DEF Good

\* Links keep leading to copies while no copy of a command with links goes.
LEMMA LinksKept ==
    ASSUME TypeOK, LinksLead,
           \A c \in Command : command[c].slipped => command'[c].slipped,
           \A x \in Place : at'[x] # at[x] =>
              /\ at'[x].kind # "link"
              /\ \A y \in Place : at[y].kind = "link" /\ at[y].by = at[x].by
                                   /\ ~command[at[y].by].slipped => at[x].kind # "copy"
    PROVE  LinksLead'
  <1> SUFFICES ASSUME NEW x \in Place, at'[x].kind = "link"
               PROVE  /\ at'[x].by \in Command /\ at'[x].to \in Dir
                      /\ ~command'[at'[x].by].slipped =>
                            at'[<<at'[x].to, x[2]>>] = CopyBy(at'[x].by)
    BY DEF LinksLead
  <1>1. at'[x] = at[x]
    OBVIOUS
  <1>2. at[x].by \in Command /\ at[x].to \in Dir
    BY <1>1 DEF LinksLead
  <1>3. ASSUME ~command'[at'[x].by].slipped
        PROVE  at'[<<at[x].to, x[2]>>] = CopyBy(at[x].by)
    <2> DEFINE y == <<at[x].to, x[2]>>
    <2>1. y \in Place
      BY <1>2 DEF Place
    <2>2. ~command[at[x].by].slipped
      BY <1>1, <1>2, <1>3 DEF TypeOK
    <2>3. at[y] = CopyBy(at[x].by)
      BY <1>1, <2>2 DEF LinksLead
    <2>4. at[y].kind = "copy" /\ at[y].by = at[x].by
      BY <2>3 DEF CopyBy
    <2>5. at'[y] = at[y]
      BY <1>1, <2>1, <2>2, <2>4
    <2> QED
      BY <2>3, <2>5
  <1> QED
    BY <1>1, <1>2, <1>3

LEMMA RootsEnd ==
    ASSUME NEW roots \in Roots, NEW n \in Nat
    PROVE  /\ 1 \notin DOMAIN roots => DOMAIN roots = {}
           /\ n \in DOMAIN roots /\ n + 1 \notin DOMAIN roots =>
                 \A m \in DOMAIN roots : m \in Nat /\ m <= n
           /\ 1 \in DOMAIN roots \/ DOMAIN roots = {}
  <1>1. PICK k \in Nat : DOMAIN roots = 1 .. k
    BY DEF Roots
  <1> QED
    BY <1>1

CommandType ==
    [step : Steps, destination : Dir \cup {Nothing}, roots : Roots, skill : Skill,
     nth : Nat, skills : SUBSET Skill, links : SUBSET Place, slipped : BOOLEAN]

\* What TypeOK asks of one record.
WellFormed(o) ==
    /\ o \in CommandType
    /\ o.step \notin Ended => o.destination \in Dir
    /\ o.step \in {"checklink", "link", "listlink"} => o.nth \in DOMAIN o.roots
    /\ o.links # {} => o.step \in {"link", "listlink", "unlink", "installed"}

LEMMA RecordsWellFormed ==
    ASSUME TypeOK, NEW c \in Command
    PROVE  WellFormed(command[c])
  BY DEF TypeOK, WellFormed, CommandType, Ended

\* A step of one command keeps the invariant when its record stays well formed,
\* it still knows what is its own, and it takes nothing from another command.
LEMMA CommandStep ==
    ASSUME IInv, NEW c \in Command, NEW new,
           Becomes(c, new), WellFormed(new), Good(c)',
           at' \in [Place -> Entry \cup {NoEntry}],
           \A x \in Place : at'[x] # at[x] =>
              /\ at[x].kind \notin {"copy", "link"} \/ at[x].by = c
              /\ at'[x].by \in {c, Others},
           LinksLead'
    PROVE  IInv'
  <1>1. /\ command'[c] = new
        /\ \A d \in Command \ {c} : command'[d] = command[d]
        /\ command' \in [Command -> CommandType]
    BY DEF IInv, TypeOK, Becomes, WellFormed, CommandType
  <1>2. TypeOK'
    BY <1>1 DEF IInv, TypeOK, CommandType, WellFormed, Place, Entry, Ended
  <1>3. ASSUME NEW d \in Command \ {c}
        PROVE  Good(d)'
    <2>1. \A x \in Place : at'[x] # at[x] => at'[x].by # d
      BY SkillInstallAssumption
    <2> QED
      BY <1>1, <2>1, Frame DEF IInv, Good
  <1> QED
    BY <1>2, <1>3 DEF IInv, Good

\* A step that changes nothing but its command's record.
LEMMA RecordOnly ==
    ASSUME IInv, NEW c \in Command, NEW new,
           Becomes(c, new), WellFormed(new), UNCHANGED at,
           command[c].slipped => new.slipped,
           Good(c)'
    PROVE  IInv'
  <1>1. command'[c] = new /\ \A d \in Command \ {c} : command'[d] = command[d]
    BY DEF IInv, TypeOK, Becomes
  <1>2. LinksLead'
    BY <1>1, LinksKept DEF IInv
  <1>3. at \in [Place -> Entry \cup {NoEntry}]
    BY DEF IInv, TypeOK
  <1> QED
    BY <1>2, <1>3, CommandStep

LEMMA NoRootsIsRoots == <<>> \in Roots
  <1>1. <<>> \in [1 .. 0 -> Dir]
    OBVIOUS
  <1> QED
    BY <1>1, SkillInstallAssumption DEF Roots

LEMMA BeginStep ==
    ASSUME IInv, NEW c \in Command, NEW d \in Dir, NEW roots \in Roots, Begin(c, d, roots)
    PROVE  IInv'
  <1> DEFINE new == Record("check", d, roots, FALSE)
  <1>1. command'[c] = new /\ command[c].step = "new" /\ at' = at
    BY DEF Begin, IInv, TypeOK, Becomes
  <1>2. command[c].skills = {} /\ command[c].links = {} /\ ~command[c].slipped
    BY <1>1 DEF IInv, Progress, Ended, TypeOK
  <1>3. Good(c)'
    BY <1>1, <1>2 DEF IInv, Good, Progress, Listed, Owned, Record, Ended
  <1>4. WellFormed(new)
    BY SkillInstallAssumption DEF Record, Steps, Skill, WellFormed, CommandType, Ended
  <1> QED
    BY <1>1, <1>2, <1>3, <1>4, RecordOnly DEF Begin, Record

LEMMA EndsStep ==
    ASSUME IInv, NEW c \in Command, NEW outcome \in {"refused", "failed", "dead"},
           Ends(c, outcome), UNCHANGED at,
           outcome # "dead" /\ ~command[c].slipped =>
              \A x \in Place : at[x].by = c => at[x].kind = "remains",
           outcome = "refused" => ~command[c].slipped
    PROVE  IInv'
  <1> DEFINE new == Record(outcome, Nothing, <<>>, command[c].slipped)
  <1>1. command'[c] = new /\ at' = at /\ Becomes(c, new)
    BY DEF Ends, IInv, TypeOK, Becomes
  <1>2. Good(c)'
    BY <1>1 DEF Good, Progress, Listed, Owned, Ended, Record
  <1>3. WellFormed(new)
    BY NoRootsIsRoots, SkillInstallAssumption DEF Record, IInv, TypeOK, Steps, Skill, WellFormed, CommandType, Ended
  <1> QED
    BY <1>1, <1>2, <1>3, RecordOnly DEF Record

LEMMA CheckStep ==
    ASSUME IInv, NEW c \in Command, CheckSkill(c) \/ CheckLink(c)
    PROVE  IInv'
  <1> DEFINE o == command[c]
  <1>1. /\ WellFormed(o) /\ o.step \in {"check", "checklink"}
        /\ o.skills = {} /\ o.links = {} /\ ~o.slipped /\ at' = at
        /\ \A x \in Place : at[x].by = c => at[x].kind = "remains"
    BY RecordsWellFormed DEF IInv, CheckSkill, CheckLink, Progress, Owned
  <1>2. CASE Ends(c, "refused")
    BY <1>1, <1>2, EndsStep
  <1>3. ASSUME NEW new, Becomes(c, new), WellFormed(new), new.skills = {}, new.links = {},
               new.step \in {"check", "checklink", "copy"}, ~new.slipped,
               new.step = "copy" => new.skill = 1,
               new.step # "checklink" => new.nth = 1
        PROVE  IInv'
    <2>1. command'[c] = new
      BY <1>3 DEF IInv, TypeOK, Becomes
    <2>2. Good(c)'
      BY <1>1, <1>3, <2>1 DEF Good, Progress, Listed, Owned, Ended, Skill
    <2> QED
      BY <1>1, <1>3, <2>2, RecordOnly
  <1>4. /\ o.skill \in Skill /\ o.nth \in Nat /\ o.roots \in Roots /\ 1 \in Skill
        /\ ~Last(c) => o.skill + 1 \in Skill
        /\ ~LastRoot(c) => o.nth + 1 \in DOMAIN o.roots
        /\ ~NoRoots(c) => 1 \in DOMAIN o.roots
        /\ o.step = "checklink" => 1 \in DOMAIN o.roots
        /\ o.step = "check" => o.nth = 1
        /\ Ended \cap {"check", "checklink", "copy"} = {}
    BY <1>1, RootsEnd, SkillInstallAssumption
       DEF IInv, Progress, WellFormed, CommandType, Skill, Last, LastRoot, NoRoots, Ended
  <1>5. CASE CheckSkill(c) /\ ~Ends(c, "refused")
    <2>1. CASE ~Last(c) /\ Becomes(c, [o EXCEPT !.skill = @ + 1])
      <3> DEFINE new == [o EXCEPT !.skill = @ + 1]
      <3>1. WellFormed(new) /\ new.step = "check" /\ new.nth = 1 /\ new.skills = {}
              /\ new.links = {} /\ ~new.slipped
        BY <1>1, <1>4, <1>5, <2>1 DEF WellFormed, CommandType, CheckSkill
      <3> QED
        BY <1>3, <2>1, <3>1
    <2>2. CASE \E step \in {"copy", "checklink"} :
                  /\ step = "checklink" => ~NoRoots(c)
                  /\ Becomes(c, [o EXCEPT !.skill = 1, !.step = step])
      <3> PICK step \in {"copy", "checklink"} :
                  /\ step = "checklink" => ~NoRoots(c)
                  /\ Becomes(c, [o EXCEPT !.skill = 1, !.step = step])
        BY <2>2
      <3> DEFINE new == [o EXCEPT !.skill = 1, !.step = step]
      <3>1. new.step = step /\ new.nth = 1 /\ new.skill = 1 /\ new.skills = {}
              /\ new.links = {} /\ ~new.slipped
        BY <1>1, <1>4, <1>5 DEF WellFormed, CommandType, CheckSkill
      <3>2. WellFormed(new)
        BY <1>1, <1>4, <1>5 DEF WellFormed, CommandType, CheckSkill, Steps
      <3> QED
        BY <1>3, <3>1, <3>2
    <2> QED
      BY <1>5, <2>1, <2>2 DEF CheckSkill
  <1>6. CASE CheckLink(c) /\ ~Ends(c, "refused")
    <2>1. CASE ~LastRoot(c) /\ Becomes(c, [o EXCEPT !.nth = @ + 1])
      <3> DEFINE new == [o EXCEPT !.nth = @ + 1]
      <3>1. WellFormed(new) /\ new.step = "checklink" /\ new.skills = {} /\ new.links = {}
              /\ ~new.slipped
        BY <1>1, <1>4, <1>6, <2>1 DEF WellFormed, CommandType, CheckLink
      <3> QED
        BY <1>3, <2>1, <3>1
    <2>2. CASE ~Last(c) /\ Becomes(c, [o EXCEPT !.nth = 1, !.skill = @ + 1])
      <3> DEFINE new == [o EXCEPT !.nth = 1, !.skill = @ + 1]
      <3>1. WellFormed(new) /\ new.step = "checklink" /\ new.skills = {} /\ new.links = {}
              /\ ~new.slipped
        BY <1>1, <1>4, <1>6, <2>2 DEF WellFormed, CommandType, CheckLink
      <3> QED
        BY <1>3, <2>2, <3>1
    <2>3. CASE Becomes(c, [o EXCEPT !.nth = 1, !.skill = 1, !.step = "copy"])
      <3> DEFINE new == [o EXCEPT !.nth = 1, !.skill = 1, !.step = "copy"]
      <3>1. WellFormed(new) /\ new.step = "copy" /\ new.nth = 1 /\ new.skill = 1
              /\ new.skills = {} /\ new.links = {} /\ ~new.slipped
        BY <1>1, <1>4, <1>6 DEF WellFormed, CommandType, CheckLink, Steps
      <3> QED
        BY <1>3, <2>3, <3>1
    <2> QED
      BY <1>6, <2>1, <2>2, <2>3 DEF CheckLink
  <1> QED
    BY <1>2, <1>5, <1>6

LEMMA ListSkillStep ==
    ASSUME IInv, NEW c \in Command, ListSkill(c)
    PROVE  IInv'
  <1> DEFINE o == command[c]
             step == IF ~Last(c) THEN "copy" ELSE IF NoRoots(c) THEN "installed" ELSE "link"
             skill == IF Last(c) THEN 1 ELSE o.skill + 1
             skills == o.skills \cup {o.skill}
             new == [o EXCEPT !.skills = skills, !.skill = skill, !.step = step]
  <1>1. WellFormed(o) /\ o.step = "list" /\ at' = at /\ ~o.slipped /\ o.links = {}
          /\ o.nth = 1 /\ o.destination \in Dir
    BY RecordsWellFormed DEF IInv, ListSkill, Progress, WellFormed, Ended
  <1>2. /\ o.skill \in Skill /\ o.roots \in Roots /\ 1 \in Skill /\ Skill \subseteq Nat
        /\ ~Last(c) => o.skill + 1 \in Skill
        /\ ~NoRoots(c) => 1 \in DOMAIN o.roots
        /\ NoRoots(c) => DOMAIN o.roots = {}
        /\ skills \subseteq Skill /\ \A s \in Skill : s <= o.skill => s \in skills
        /\ Last(c) => skills = Skill
    BY <1>1, RootsEnd, SkillInstallAssumption
       DEF IInv, Progress, WellFormed, CommandType, Skill, Last, NoRoots
  <1>3. command'[c] = new /\ Becomes(c, new)
    BY DEF ListSkill, IInv, TypeOK, Becomes
  <1>4. /\ new.step = step /\ new.skill = skill /\ new.skills = skills /\ new.links = {}
        /\ new.nth = 1 /\ ~new.slipped /\ new.destination = o.destination
        /\ new.roots = o.roots /\ new \in CommandType
    BY <1>1, <1>2 DEF WellFormed, CommandType, Steps
  <1>5. step \in {"copy", "installed", "link"} /\ skill \in Skill
    BY <1>2
  <1>6. WellFormed(new)
    BY <1>1, <1>2, <1>4, <1>5 DEF WellFormed
  <1>7. Progress(c)'
    <2>1. \A s \in Skill : step = "copy" /\ s < skill => s \in skills
      <3>1. CASE Last(c)
        BY <1>2, <3>1
      <3>2. CASE ~Last(c)
        <4>1. skill = o.skill + 1
          BY <3>2
        <4>2. \A s \in Skill : s < o.skill + 1 => s <= o.skill
          BY <1>2, SkillInstallAssumption DEF Skill
        <4> HIDE DEF skill, skills
        <4> QED
          BY <1>2, <4>1, <4>2
      <3> QED
        BY <3>1, <3>2
    <2>2. step \in {"link", "installed"} => skills = Skill
      BY <1>2
    <2>3. step = "link" => \A s \in Skill : ~(s < skill)
      BY <1>2 DEF Skill
    <2>4. step = "installed" => DOMAIN o.roots = {}
      BY <1>2
    <2>5. step = "link" => \A n \in DOMAIN o.roots : ~(n < 1)
      BY <1>1, RootsEnd DEF WellFormed, CommandType, Roots
    <2> HIDE DEF step, skill, skills, new
    <2> QED
      BY <1>1, <1>3, <1>4, <1>5, <2>1, <2>2, <2>3, <2>4, <2>5 DEF Progress, Ended
  <1>8. Listed(c)'
    <2>1. at[<<o.destination, o.skill>>] = CopyBy(c)
      BY <1>1 DEF IInv, Listed, Target
    <2>2. \A s \in skills : at[<<o.destination, s>>] = CopyBy(c)
      BY <2>1 DEF IInv, Listed
    <2> HIDE DEF step, skill, skills, new
    <2> QED
      BY <1>1, <1>3, <1>4, <1>5, <2>2 DEF Listed
  <1>9. Owned(c)'
    <2>1. \A x \in Place : at[x].by = c =>
             \/ at[x].kind = "copy" /\ x[1] = o.destination /\ x[2] \in skills
             \/ at[x].kind = "remains"
      BY <1>1 DEF IInv, Owned
    <2> HIDE DEF step, skill, skills, new
    <2> QED
      BY <1>1, <1>3, <1>4, <1>5, <2>1 DEF Owned
  <1> HIDE DEF step, skill, skills, new
  <1> QED
    BY <1>1, <1>3, <1>6, <1>7, <1>8, <1>9, RecordOnly DEF Good

LEMMA ListLinkStep ==
    ASSUME IInv, NEW c \in Command, ListLink(c)
    PROVE  IInv'
  <1> DEFINE o == command[c]
             step == IF Last(c) /\ LastRoot(c) THEN "installed" ELSE "link"
             skill == IF Last(c) THEN 1 ELSE o.skill + 1
             nth == IF Last(c) /\ ~LastRoot(c) THEN o.nth + 1 ELSE o.nth
             links == o.links \cup {Link(c)}
             new == [o EXCEPT !.links = links, !.skill = skill, !.nth = nth, !.step = step]
  <1>1. WellFormed(o) /\ o.step = "listlink" /\ at' = at /\ ~o.slipped
          /\ o.skills = Skill /\ o.destination \in Dir /\ Link(c) \in Place
    BY RecordsWellFormed, PlacesOf DEF IInv, ListLink, Progress, WellFormed, Ended
  <1>2. /\ o.skill \in Skill /\ o.roots \in Roots /\ 1 \in Skill /\ Skill \subseteq Nat
        /\ o.nth \in DOMAIN o.roots /\ o.nth \in Nat /\ DOMAIN o.roots \subseteq Nat
        /\ ~Last(c) => o.skill + 1 \in Skill
        /\ ~LastRoot(c) => o.nth + 1 \in DOMAIN o.roots
        /\ LastRoot(c) => \A n \in DOMAIN o.roots : n <= o.nth
        /\ Last(c) => \A s \in Skill : s <= o.skill
        /\ links \subseteq Place
    BY <1>1, RootsEnd, RootIsDir, SkillInstallAssumption
       DEF WellFormed, CommandType, Skill, Last, LastRoot
  <1>3. command'[c] = new /\ Becomes(c, new)
    BY DEF ListLink, IInv, TypeOK, Becomes
  <1>4. nth \in DOMAIN o.roots /\ nth \in Nat /\ step \in {"installed", "link"} /\ skill \in Skill
    BY <1>2
  <1>5. /\ new.step = step /\ new.skill = skill /\ new.skills = Skill /\ new.links = links
        /\ new.nth = nth /\ ~new.slipped /\ new.destination = o.destination
        /\ new.roots = o.roots /\ new \in CommandType
    BY <1>1, <1>2, <1>4 DEF WellFormed, CommandType, Steps
  <1>6. WellFormed(new)
    BY <1>1, <1>4, <1>5 DEF WellFormed, Ended
  <1>7. Progress(c)'
    <2>1. \A n \in DOMAIN o.roots, s \in Skill :
             n < o.nth \/ (n = o.nth /\ s <= o.skill) => <<o.roots[n], s>> \in links
      <3>1. \A n \in DOMAIN o.roots, s \in Skill :
               n < o.nth \/ (n = o.nth /\ s < o.skill) => <<o.roots[n], s>> \in o.links
        BY <1>1 DEF IInv, Progress
      <3>2. <<o.roots[o.nth], o.skill>> \in links
        BY DEF Link
      <3>3. \A s \in Skill : s <= o.skill => s < o.skill \/ s = o.skill
        BY <1>2, SkillInstallAssumption DEF Skill
      <3> HIDE DEF links
      <3>4. o.links \subseteq links
        BY DEF links
      <3> QED
        BY <3>1, <3>2, <3>3, <3>4
    <2>2. step = "link" =>
             \A n \in DOMAIN o.roots, s \in Skill :
                n < nth \/ (n = nth /\ s < skill) => n < o.nth \/ (n = o.nth /\ s <= o.skill)
      <3>1. CASE Last(c)
        <4>1. CASE ~LastRoot(c)
          <5>1. skill = 1 /\ nth = o.nth + 1
            BY <3>1, <4>1
          <5>2. \A s \in Skill : ~(s < 1) /\ s <= o.skill
            BY <1>2, <3>1 DEF Skill
          <5>3. \A n \in DOMAIN o.roots : n < o.nth + 1 => n < o.nth \/ n = o.nth
            BY <1>2
          <5> HIDE DEF skill, nth, step
          <5> QED
            BY <5>1, <5>2, <5>3
        <4> QED
          BY <3>1, <4>1
      <3>2. CASE ~Last(c)
        <4>1. skill = o.skill + 1 /\ nth = o.nth
          BY <3>2
        <4>2. \A s \in Skill : s < o.skill + 1 => s <= o.skill
          BY <1>2, SkillInstallAssumption DEF Skill
        <4> HIDE DEF skill, nth, step
        <4> QED
          BY <4>1, <4>2
      <3> QED
        BY <3>1, <3>2
    <2>3. step = "installed" =>
             \A n \in DOMAIN o.roots, s \in Skill : n < o.nth \/ (n = o.nth /\ s <= o.skill)
      BY <1>2
    <2> HIDE DEF step, skill, nth, links, new
    <2> QED
      BY <1>1, <1>3, <1>4, <1>5, <2>1, <2>2, <2>3 DEF Progress, Ended
  <1>8. Listed(c)'
    <2>1. at[Link(c)] = LinkBy(c, o.destination)
      BY <1>1 DEF IInv, Listed
    <2>2. \A x \in links : at[x] = LinkBy(c, o.destination)
      BY <2>1 DEF IInv, Listed
    <2>3. \A s \in Skill : at[<<o.destination, s>>] = CopyBy(c)
      BY <1>1 DEF IInv, Listed
    <2> HIDE DEF step, skill, nth, links, new
    <2> QED
      BY <1>1, <1>3, <1>4, <1>5, <2>2, <2>3 DEF Listed
  <1>9. Owned(c)'
    <2>1. \A x \in Place : at[x].by = c =>
             \/ at[x].kind = "copy" /\ x[1] = o.destination /\ x[2] \in Skill
             \/ at[x].kind = "link" /\ x \in links
             \/ at[x].kind = "remains"
      BY <1>1 DEF IInv, Owned
    <2> HIDE DEF step, skill, nth, links, new
    <2> QED
      BY <1>1, <1>3, <1>4, <1>5, <2>1 DEF Owned
  <1> HIDE DEF step, skill, nth, links, new
  <1> QED
    BY <1>1, <1>3, <1>6, <1>7, <1>8, <1>9, RecordOnly DEF Good

\* A command that turns to its handler, its lists as they are.
LEMMA HandlerBegins ==
    ASSUME IInv, NEW c \in Command, UNCHANGED at,
           command[c].step \in {"copy", "list", "link", "listlink"},
           NEW new \in CommandType, Becomes(c, new),
           new.step = "unlink", new.skills = command[c].skills, new.links = command[c].links,
           new.destination = command[c].destination,
           command[c].step \in {"list", "listlink"} => new.slipped
    PROVE  IInv'
  <1> DEFINE o == command[c]
  <1>1. WellFormed(o) /\ ~o.slipped /\ o.destination \in Dir
    BY RecordsWellFormed DEF IInv, Progress, WellFormed, Ended
  <1>2. command'[c] = new
    BY DEF IInv, TypeOK, Becomes
  <1>3. WellFormed(new)
    BY <1>1 DEF WellFormed
  <1>4. Progress(c)'
    BY <1>1, <1>2 DEF Progress, Ended
  <1>5. Listed(c)'
    BY <1>1, <1>2 DEF Listed, IInv
  <1>6. Owned(c)'
    BY <1>1, <1>2 DEF Owned, IInv
  <1> QED
    BY <1>1, <1>3, <1>4, <1>5, <1>6, RecordOnly DEF Good

LEMMA UnlinkNext ==
    ASSUME IInv, NEW c \in Command, UNCHANGED at,
           command[c].step \in {"copy", "link"}, Goes(c, "unlink")
    PROVE  IInv'
  <1> DEFINE new == [command[c] EXCEPT !.step = "unlink"]
  <1>1. command[c] \in CommandType
    BY RecordsWellFormed DEF IInv, WellFormed
  <1>2. /\ new.step = "unlink" /\ new.skills = command[c].skills
        /\ new.links = command[c].links /\ new.destination = command[c].destination
        /\ new \in CommandType
    BY <1>1 DEF CommandType, Steps
  <1>3. Becomes(c, new)
    BY DEF Goes
  <1> HIDE DEF new
  <1> QED
    BY <1>2, <1>3, HandlerBegins

LEMMA InterruptStep ==
    ASSUME IInv, NEW c \in Command, Interrupt(c)
    PROVE  IInv'
  <1> DEFINE slipped == command[c].step \in {"list", "listlink"}
             new == [command[c] EXCEPT !.step = "unlink", !.slipped = slipped]
  <1>1. command[c] \in CommandType /\ slipped \in BOOLEAN
    BY RecordsWellFormed DEF IInv, WellFormed
  <1> HIDE DEF slipped
  <1>2. /\ new.step = "unlink" /\ new.skills = command[c].skills
        /\ new.links = command[c].links /\ new.destination = command[c].destination
        /\ new.slipped = slipped /\ new \in CommandType
    BY <1>1 DEF CommandType, Steps
  <1>3. Becomes(c, new) /\ at' = at /\ command[c].step \in {"copy", "list", "link", "listlink"}
    BY DEF Interrupt, slipped
  <1>4. command[c].step \in {"list", "listlink"} => new.slipped
    BY <1>2 DEF slipped
  <1> HIDE DEF new
  <1> QED
    BY <1>2, <1>3, <1>4, HandlerBegins

LEMMA FailsStep ==
    ASSUME IInv, NEW c \in Command, Fails(c)
    PROVE  IInv'
  BY UnlinkNext DEF Fails

LEMMA CopyStep ==
    ASSUME IInv, NEW c \in Command, Copy(c)
    PROVE  IInv'
  <1> DEFINE o == command[c]
             x0 == Target(c)
             new == [o EXCEPT !.step = "list"]
  <1>1. WellFormed(o) /\ o.step = "copy" /\ ~o.slipped /\ o.destination \in Dir /\ x0 \in Place
    BY RecordsWellFormed, PlacesOf DEF IInv, Copy, Progress, WellFormed, Ended
  <1>2. CASE ~GivesWay(at[x0])
    BY <1>1, <1>2, UnlinkNext DEF Copy
  <1>3. CASE GivesWay(at[x0])
    <2>1. Becomes(c, new) /\ command'[c] = new /\ at' = [at EXCEPT ![x0] = CopyBy(c)]
      BY <1>3 DEF Copy, Goes, Becomes, IInv, TypeOK
    <2>2. /\ new.step = "list" /\ new.skills = o.skills /\ new.links = o.links
          /\ new.skill = o.skill /\ new.nth = o.nth /\ new.roots = o.roots
          /\ new.destination = o.destination /\ ~new.slipped /\ new \in CommandType
      BY <1>1 DEF WellFormed, CommandType, Steps
    <2>3. WellFormed(new)
      BY <1>1, <2>2 DEF WellFormed
    <2>4. at[x0].kind \notin {"copy", "link"}
      BY <1>3 DEF GivesWay, NoEntry
    <2>5. CopyBy(c) \in Entry /\ CopyBy(c).kind = "copy" /\ CopyBy(c).by = c
      BY DEF CopyBy, Entry, Kinds
    <2>6. at'[x0] = CopyBy(c) /\ \A x \in Place : x # x0 => at'[x] = at[x]
      BY <1>1, <2>1 DEF IInv, TypeOK
    <2>7. at' \in [Place -> Entry \cup {NoEntry}]
      BY <2>1, <2>5 DEF IInv, TypeOK
    <2> HIDE DEF new
    <2>8. Progress(c)'
      BY <1>1, <2>1, <2>2 DEF IInv, Progress, Ended
    <2>9. Listed(c)'
      <3>1. \A x \in Place : at[x] = CopyBy(c) \/ at[x] = LinkBy(c, o.destination) => at'[x] = at[x]
        BY <2>4, <2>6 DEF CopyBy, LinkBy
      <3>2. x0 = Target(c)'
        BY <2>1, <2>2 DEF Target
      <3> QED
        BY <1>1, <2>1, <2>2, <2>6, <3>1, <3>2, PlacesOf DEF IInv, Listed
    <2>10. Owned(c)'
      <3>1. x0 = <<o.destination, o.skill>>
        BY DEF Target
      <3> QED
        BY <1>1, <2>1, <2>2, <2>5, <2>6, <3>1 DEF IInv, Owned
    <2>11. LinksLead'
      <3>1. \A d \in Command : command[d].slipped => command'[d].slipped
        BY <1>1, <2>1 DEF Becomes, IInv, TypeOK
      <3> QED
        BY <2>4, <2>5, <2>6, <3>1, LinksKept DEF IInv
    <2> QED
      BY <2>1, <2>3, <2>4, <2>5, <2>6, <2>7, <2>8, <2>9, <2>10, <2>11, CommandStep DEF Good
  <1> QED
    BY <1>2, <1>3

LEMMA DiesStep ==
    ASSUME IInv, NEW c \in Command, Dies(c)
    PROVE  IInv'
  BY EndsStep DEF Dies

LEMMA MakeLinkStep ==
    ASSUME IInv, NEW c \in Command, MakeLink(c)
    PROVE  IInv'
  <1> DEFINE o == command[c]
             x0 == Link(c)
             made == LinkBy(c, o.destination)
             new == [o EXCEPT !.step = "listlink"]
  <1>1. WellFormed(o) /\ o.step = "link" /\ ~o.slipped /\ o.destination \in Dir /\ x0 \in Place
          /\ o.skills = Skill /\ o.skill \in Skill
    BY RecordsWellFormed, PlacesOf DEF IInv, MakeLink, Progress, WellFormed, CommandType, Ended
  <1>2. CASE at[x0] # NoEntry
    BY <1>1, <1>2, UnlinkNext DEF MakeLink
  <1>3. CASE at[x0] = NoEntry
    <2>1. Becomes(c, new) /\ command'[c] = new /\ at' = [at EXCEPT ![x0] = made]
      BY <1>3 DEF MakeLink, Goes, Becomes, IInv, TypeOK
    <2>2. /\ new.step = "listlink" /\ new.skills = o.skills /\ new.links = o.links
          /\ new.skill = o.skill /\ new.nth = o.nth /\ new.roots = o.roots
          /\ new.destination = o.destination /\ ~new.slipped /\ new \in CommandType
      BY <1>1 DEF WellFormed, CommandType, Steps
    <2>3. WellFormed(new)
      BY <1>1, <2>2 DEF WellFormed
    <2>4. at[x0].kind \notin {"copy", "link"}
      BY <1>3 DEF NoEntry
    <2>5. made \in Entry /\ made.kind = "link" /\ made.by = c /\ made.to = o.destination
      BY <1>1 DEF LinkBy, Entry, Kinds
    <2> HIDE DEF made
    <2>6. at'[x0] = made /\ \A x \in Place : x # x0 => at'[x] = at[x]
      BY <1>1, <2>1 DEF IInv, TypeOK
    <2>7. at' \in [Place -> Entry \cup {NoEntry}]
      BY <2>1, <2>5 DEF IInv, TypeOK
    <2> HIDE DEF new
    <2>8. Progress(c)'
      BY <1>1, <2>1, <2>2 DEF IInv, Progress, Ended
    <2>9. Listed(c)'
      <3>1. \A x \in Place : at[x] = CopyBy(c) \/ at[x] = LinkBy(c, o.destination) => at'[x] = at[x]
        BY <2>4, <2>6 DEF CopyBy, LinkBy
      <3>2. x0 = Link(c)'
        BY <2>1, <2>2 DEF Link
      <3>3. made = LinkBy(c, o.destination)
        BY DEF made
      <3> QED
        BY <1>1, <2>1, <2>2, <2>6, <3>1, <3>2, <3>3, PlacesOf DEF IInv, Listed
    <2>10. Owned(c)'
      <3>1. x0 = Link(c)'
        BY <2>1, <2>2 DEF Link
      <3> QED
        BY <1>1, <2>1, <2>2, <2>5, <2>6, <3>1 DEF IInv, Owned
    <2>11. LinksLead'
      <3>1. \A d \in Command : command'[d].slipped <=> command[d].slipped
        BY <1>1, <2>1, <2>2 DEF Becomes, IInv, TypeOK
      <3>2. \A d \in Command, y \in Place : at[y] = CopyBy(d) => at'[y] = at[y]
        BY <2>4, <2>6 DEF CopyBy
      <3>3. ASSUME NEW x \in Place, at'[x].kind = "link"
            PROVE  /\ at'[x].by \in Command /\ at'[x].to \in Dir
                   /\ ~command'[at'[x].by].slipped => at'[<<at'[x].to, x[2]>>] = CopyBy(at'[x].by)
        <4>1. CASE x = x0
          <5>1. <<o.destination, x0[2]>> \in Place /\ x0[2] \in o.skills
            BY <1>1 DEF Place, Link
          <5>2. at[<<o.destination, x0[2]>>] = CopyBy(c)
            BY <5>1 DEF IInv, Listed
          <5> QED
            BY <1>1, <2>5, <2>6, <3>2, <4>1, <5>1, <5>2
        <4>2. CASE x # x0
          <5>1. at'[x] = at[x]
            BY <2>6, <4>2
          <5>2. /\ at[x].by \in Command /\ at[x].to \in Dir
                /\ ~command[at[x].by].slipped => at[<<at[x].to, x[2]>>] = CopyBy(at[x].by)
            BY <3>3, <5>1 DEF IInv, LinksLead
          <5>3. <<at[x].to, x[2]>> \in Place
            BY <5>2 DEF Place
          <5> QED
            BY <3>1, <3>2, <5>1, <5>2, <5>3
        <4> QED
          BY <4>1, <4>2
      <3> QED
        BY <3>3 DEF LinksLead
    <2> QED
      BY <2>1, <2>3, <2>4, <2>5, <2>6, <2>7, <2>8, <2>9, <2>10, <2>11, CommandStep DEF Good
  <1> QED
    BY <1>2, <1>3

\* A step of the handler takes at most one thing, its own, from the place x0.
LEMMA HandlerTakes ==
    ASSUME IInv, NEW c \in Command, NEW x0 \in Place, NEW left \in Entry \cup {NoEntry},
           NEW new, Becomes(c, new), WellFormed(new), Good(c)',
           at' = [at EXCEPT ![x0] = left], left.by \in {c, Others},
           left.kind \notin {"copy", "link"},
           at[x0].kind \notin {"copy", "link"} \/ at[x0].by = c,
           at[x0].kind = "copy" => command[c].links = {} /\ command[c].step = "remove",
           command[c].slipped => new.slipped
    PROVE  IInv'
  <1>1. command'[c] = new /\ \A d \in Command \ {c} : command'[d] = command[d]
    BY DEF IInv, TypeOK, Becomes
  <1>2. at'[x0] = left /\ \A x \in Place : x # x0 => at'[x] = at[x]
    BY DEF IInv, TypeOK
  <1>3. at' \in [Place -> Entry \cup {NoEntry}]
    BY DEF IInv, TypeOK
  <1>4. ASSUME NEW y \in Place, at[y].kind = "link", at[x0].kind = "copy", at[y].by = at[x0].by,
               ~command[at[y].by].slipped
        PROVE  FALSE
    BY <1>4 DEF IInv, Owned
  <1>5. LinksLead'
    BY <1>1, <1>2, <1>4, LinksKept DEF IInv
  <1> QED
    BY <1>2, <1>3, <1>5, CommandStep

LEMMA UnlinkStep ==
    ASSUME IInv, NEW c \in Command, Unlink(c)
    PROVE  IInv'
  <1> DEFINE o == command[c]
  <1>1. WellFormed(o) /\ o.step = "unlink" /\ o.destination \in Dir
    BY RecordsWellFormed DEF IInv, Unlink, WellFormed, Ended
  <1>2. CASE o.links = {}
    <2> DEFINE new == [o EXCEPT !.step = "remove"]
    <2>1. Becomes(c, new) /\ command'[c] = new /\ at' = at
      BY <1>2 DEF Unlink, Goes, Becomes, IInv, TypeOK
    <2>2. /\ new.step = "remove" /\ new.skills = o.skills /\ new.links = {}
          /\ new.destination = o.destination /\ new.slipped = o.slipped /\ new \in CommandType
      BY <1>1, <1>2 DEF WellFormed, CommandType, Steps
    <2>3. WellFormed(new)
      BY <1>1, <2>2 DEF WellFormed
    <2> HIDE DEF new
    <2>4. Progress(c)'
      BY <1>1, <2>1, <2>2 DEF Progress, Ended
    <2>5. Listed(c)'
      BY <1>1, <2>1, <2>2 DEF Listed, IInv
    <2>6. Owned(c)'
      BY <1>1, <1>2, <2>1, <2>2 DEF Owned, IInv
    <2> QED
      BY <2>1, <2>2, <2>3, <2>4, <2>5, <2>6, RecordOnly DEF Good
  <1>3. ASSUME NEW x0 \in o.links,
               at' = IF at[x0].kind = "link" THEN [at EXCEPT ![x0] = NoEntry] ELSE at,
               Becomes(c, [o EXCEPT !.links = @ \ {x0}])
        PROVE  IInv'
    <2> DEFINE links == o.links \ {x0}
               new == [o EXCEPT !.links = links]
    <2>1. Becomes(c, new) /\ command'[c] = new
      BY <1>3 DEF Becomes, IInv, TypeOK
    <2>2. at[x0].kind = "link" /\ at[x0].by = c /\ x0 \in Place
      <3>1. at[x0] = LinkBy(c, o.destination)
        BY DEF IInv, Listed
      <3>2. x0 \in Place
        BY <1>1 DEF WellFormed, CommandType
      <3> QED
        BY <3>1, <3>2 DEF LinkBy
    <2>3. at' = [at EXCEPT ![x0] = NoEntry]
      BY <1>3, <2>2
    <2>4. /\ new.step = "unlink" /\ new.skills = o.skills /\ new.links = links
          /\ new.destination = o.destination /\ new.slipped = o.slipped /\ new \in CommandType
      BY <1>1 DEF WellFormed, CommandType, Steps
    <2>5. WellFormed(new)
      BY <1>1, <2>4 DEF WellFormed
    <2> HIDE DEF new
    <2>6. at'[x0] = NoEntry /\ \A x \in Place : x # x0 => at'[x] = at[x]
      BY <2>2, <2>3 DEF IInv, TypeOK
    <2>7. Progress(c)'
      BY <1>1, <2>1, <2>4 DEF IInv, Progress, Ended
    <2>8. Listed(c)'
      <3>1. \A x \in Place : at[x] = CopyBy(c) => at'[x] = at[x]
        BY <2>2, <2>6 DEF CopyBy
      <3>2. \A x \in links : x \in Place /\ at'[x] = at[x]
        BY <1>1, <2>6 DEF WellFormed, CommandType
      <3> QED
        BY <1>1, <2>1, <2>4, <3>1, <3>2, PlacesOf DEF IInv, Listed
    <2>9. Owned(c)'
      <3>1. NoEntry.by # c
        BY SkillInstallAssumption DEF NoEntry
      <3> QED
        BY <1>1, <2>1, <2>4, <2>6, <3>1 DEF IInv, Owned
    <2> QED
      BY <2>1, <2>2, <2>3, <2>4, <2>5, <2>7, <2>8, <2>9, HandlerTakes DEF Good, NoEntry
  <1> QED
    BY <1>2, <1>3 DEF Unlink

LEMMA RemoveStep ==
    ASSUME IInv, NEW c \in Command, Remove(c)
    PROVE  IInv'
  <1> DEFINE o == command[c]
  <1>1. WellFormed(o) /\ o.step = "remove" /\ o.destination \in Dir /\ o.links = {}
    BY RecordsWellFormed DEF IInv, Remove, WellFormed, Ended
  <1>2. CASE o.skills = {}
    <2>1. ~o.slipped => \A x \in Place : at[x].by = c => at[x].kind = "remains"
      BY <1>1, <1>2 DEF IInv, Owned
    <2> QED
      BY <1>2, <2>1, EndsStep DEF Remove
  <1>3. ASSUME NEW s \in o.skills, NEW left \in {"shell", "remains"},
               LET x == <<o.destination, s>> IN
               /\ at' = IF IsDirectory(at[x]) THEN [at EXCEPT ![x].kind = left] ELSE at
               /\ Becomes(c, [o EXCEPT !.skills = @ \ {s}, !.skill = s, !.step = "rmdir"])
        PROVE  IInv'
    <2> DEFINE x0 == <<o.destination, s>>
               rest == [at[x0] EXCEPT !.kind = left]
               skills == o.skills \ {s}
               new == [o EXCEPT !.skills = skills, !.skill = s, !.step = "rmdir"]
    <2>1. Becomes(c, new) /\ command'[c] = new
      BY <1>3 DEF Becomes, IInv, TypeOK
    <2>2. at[x0] = CopyBy(c) /\ x0 \in Place /\ s \in Skill
      BY <1>1, PlacesOf DEF IInv, Listed, WellFormed, CommandType
    <2>3. at' = [at EXCEPT ![x0] = rest]
      BY <1>3, <2>2 DEF CopyBy, IsDirectory
    <2>4. rest \in Entry /\ rest.kind = left /\ rest.by = c
      BY <2>2 DEF CopyBy, Entry, Kinds
    <2>5. /\ new.step = "rmdir" /\ new.skills = skills /\ new.links = {} /\ new.skill = s
          /\ new.destination = o.destination /\ new.slipped = o.slipped /\ new \in CommandType
      BY <1>1, <2>2 DEF WellFormed, CommandType, Steps
    <2>6. WellFormed(new)
      BY <1>1, <2>5 DEF WellFormed
    <2> HIDE DEF new, rest
    <2>7. at'[x0] = rest /\ \A x \in Place : x # x0 => at'[x] = at[x]
      BY <2>2, <2>3 DEF IInv, TypeOK
    <2>8. Progress(c)'
      BY <1>1, <2>1, <2>5 DEF IInv, Progress, Ended
    <2>9. Listed(c)'
      <3>1. \A t \in skills : <<o.destination, t>> \in Place /\ <<o.destination, t>> # x0
        BY <1>1, PlacesOf DEF IInv
      <3>2. \A t \in skills : at'[<<o.destination, t>>] = CopyBy(c)
        BY <2>7, <3>1 DEF IInv, Listed
      <3> QED
        BY <1>1, <2>1, <2>5, <3>2 DEF Listed
    <2>10. Owned(c)'
      <3>1. x0 = Target(c)'
        BY <2>1, <2>5 DEF Target
      <3>2. \A x \in Place : x # x0 /\ x[1] = o.destination => x[2] # s
        BY DEF Place
      <3> QED
        BY <1>1, <2>1, <2>4, <2>5, <2>7, <3>1, <3>2 DEF IInv, Owned
    <2>11. at[x0].by = c
      BY <2>2 DEF CopyBy
    <2> QED
      BY <1>1, <2>1, <2>2, <2>3, <2>4, <2>5, <2>6, <2>8, <2>9, <2>10, <2>11, HandlerTakes DEF Good
  <1> QED
    BY <1>2, <1>3 DEF Remove

LEMMA RemoveDirectoryStep ==
    ASSUME IInv, NEW c \in Command, RemoveDirectory(c)
    PROVE  IInv'
  <1> DEFINE o == command[c]
             x0 == Target(c)
             left == IF at[x0].kind = "shell" THEN NoEntry ELSE at[x0]
             new == [o EXCEPT !.step = "remove"]
  <1>1. WellFormed(o) /\ o.step = "rmdir" /\ o.destination \in Dir /\ o.links = {} /\ x0 \in Place
    BY RecordsWellFormed, PlacesOf DEF IInv, RemoveDirectory, WellFormed, Ended
  <1>2. Becomes(c, new) /\ command'[c] = new
    BY DEF RemoveDirectory, Goes, Becomes, IInv, TypeOK
  <1>3. /\ new.step = "remove" /\ new.skills = o.skills /\ new.links = {}
        /\ new.destination = o.destination /\ new.slipped = o.slipped /\ new \in CommandType
    BY <1>1 DEF WellFormed, CommandType, Steps
  <1>4. WellFormed(new)
    BY <1>1, <1>3 DEF WellFormed
  <1> HIDE DEF new
  <1>5. CASE at[x0].kind = "shell"
    <2>1. at' = [at EXCEPT ![x0] = NoEntry]
      BY <1>5 DEF RemoveDirectory
    <2>2. at'[x0] = NoEntry /\ \A x \in Place : x # x0 => at'[x] = at[x]
      BY <1>1, <2>1 DEF IInv, TypeOK
    <2>3. Progress(c)'
      BY <1>1, <1>2, <1>3 DEF IInv, Progress, Ended
    <2>4. Listed(c)'
      <3>1. \A x \in Place : at[x] = CopyBy(c) => at'[x] = at[x]
        BY <1>5, <2>2 DEF CopyBy
      <3> QED
        BY <1>1, <1>2, <1>3, <3>1, PlacesOf DEF IInv, Listed
    <2>5. Owned(c)'
      <3>1. NoEntry.by # c
        BY SkillInstallAssumption DEF NoEntry
      <3> QED
        BY <1>1, <1>2, <1>3, <2>2, <3>1 DEF IInv, Owned
    <2> QED
      BY <1>1, <1>2, <1>3, <1>4, <1>5, <2>1, <2>3, <2>4, <2>5, HandlerTakes DEF Good, NoEntry
  <1>6. CASE at[x0].kind # "shell"
    <2>1. at' = at
      BY <1>6 DEF RemoveDirectory
    <2>2. Progress(c)'
      BY <1>1, <1>2, <1>3 DEF IInv, Progress, Ended
    <2>3. Listed(c)'
      BY <1>1, <1>2, <1>3, <2>1 DEF IInv, Listed
    <2>4. Owned(c)'
      BY <1>1, <1>2, <1>3, <1>6, <2>1 DEF IInv, Owned
    <2> QED
      BY <1>2, <1>3, <1>4, <2>1, <2>2, <2>3, <2>4, RecordOnly DEF Good
  <1> QED
    BY <1>5, <1>6

----------------------------------------------------------------------------

LEMMA InitHolds == Init => IInv
  <1> SUFFICES ASSUME Init PROVE IInv
    OBVIOUS
  <1> DEFINE new == Record("new", Nothing, <<>>, FALSE)
  <1>1. WellFormed(new) /\ new.skills = {} /\ new.links = {} /\ new.step = "new" /\ ~new.slipped
    BY NoRootsIsRoots, SkillInstallAssumption DEF WellFormed, CommandType, Record, Steps, Skill, Ended
  <1>2. \A c \in Command : command[c] = new
    BY DEF Init
  <1>3. \A x \in Place : at[x] \in {CopyBy(Others), NoEntry}
    BY DEF Init
  <1>4. CopyBy(Others) \in Entry /\ CopyBy(Others).by = Others /\ CopyBy(Others).kind = "copy"
          /\ NoEntry.by = Others /\ NoEntry.kind = "none"
    BY DEF CopyBy, Entry, Kinds, NoEntry
  <1>5. TypeOK
    <2>1. at \in [Place -> Entry \cup {NoEntry}]
      BY <1>4 DEF Init
    <2>2. command \in [Command -> CommandType]
      BY <1>1 DEF Init, WellFormed
    <2> HIDE DEF new
    <2> QED
      BY <1>1, <1>2, <2>1, <2>2 DEF TypeOK, CommandType, WellFormed, Ended
  <1> HIDE DEF new
  <1>6. \A c \in Command : Progress(c) /\ Listed(c) /\ Owned(c)
    BY <1>1, <1>2, <1>3, <1>4, SkillInstallAssumption DEF Progress, Listed, Owned, Ended
  <1>7. LinksLead
    BY <1>3, <1>4 DEF LinksLead
  <1> QED
    BY <1>5, <1>6, <1>7 DEF IInv

LEMMA NextHolds == IInv /\ [Next]_vars => IInv'
  <1> SUFFICES ASSUME IInv, [Next]_vars PROVE IInv'
    OBVIOUS
  <1>1. CASE UNCHANGED vars
    BY <1>1 DEF vars, IInv, TypeOK, Progress, Listed, Owned, LinksLead, Target, Link
  <1>2. ASSUME NEW c \in Command, NEW d \in Dir, NEW roots \in Roots, Begin(c, d, roots)
        PROVE  IInv'
    BY <1>2, BeginStep
  <1>3. ASSUME NEW c \in Command, Works(c)
        PROVE  IInv'
    BY <1>3, CheckStep, CopyStep, ListSkillStep, MakeLinkStep, ListLinkStep, FailsStep,
       InterruptStep, UnlinkStep, RemoveStep, RemoveDirectoryStep, DiesStep DEF Works
  <1> QED
    BY <1>1, <1>2, <1>3 DEF Next

\* The strengthened invariant holds of every behaviour of the installations.
THEOREM Invariant == Spec => []IInv
  BY InitHolds, NextHolds, PTL DEF Spec

\* Every record and every entry has its type, for any number of commands.
THEOREM TypeCorrect == Spec => []TypeOK
  <1>1. IInv => TypeOK
    BY DEF IInv
  <1> QED
    BY <1>1, Invariant, PTL

\* A command that reports failure leaves none of its copies and links behind.
THEOREM FailureIsClean == Spec => []FailureLeavesNothing
  <1>1. IInv => FailureLeavesNothing
    BY DEF IInv, FailureLeavesNothing, Owned, Progress, Ended
  <1> QED
    BY <1>1, Invariant, PTL

\* What a command reports as installed stays, whatever the others do.
THEOREM SuccessIsStable == Spec => []SuccessStands
  <1>1. IInv => SuccessStands
    <2> SUFFICES ASSUME IInv, NEW c \in Command, command[c].step = "installed",
                        NEW x \in DOMAIN Wanted(c)
                 PROVE  at[x] = Wanted(c)[x]
      BY DEF SuccessStands
    <2> DEFINE o == command[c]
    <2>1. \A s \in Skill : at[<<o.destination, s>>] = CopyBy(c)
      BY DEF IInv, Progress, Listed
    <2>2. \A n \in DOMAIN o.roots, s \in Skill : at[<<o.roots[n], s>>] = LinkBy(c, o.destination)
      BY DEF IInv, Progress, Listed
    <2>3. CASE x[1] = o.destination
      <3>1. x = <<o.destination, x[2]>> /\ x[2] \in Skill
        BY <2>3 DEF Wanted
      <3> QED
        BY <2>1, <2>3, <3>1 DEF Wanted
    <2>4. CASE x[1] # o.destination
      <3>1. PICK n \in DOMAIN o.roots, s \in Skill : x = <<o.roots[n], s>>
        BY <2>4 DEF Wanted, Range
      <3> QED
        BY <2>2, <2>4, <3>1 DEF Wanted
    <2> QED
      BY <2>3, <2>4
  <1> QED
    BY <1>1, Invariant, PTL

\* No link dangles, even after kills, but for the one that Ctrl-C kept from the
\* list.
THEOREM LinksAreSound == Spec => []NoDanglingLink
  <1>1. IInv => NoDanglingLink
    <2> SUFFICES ASSUME IInv, NEW x \in Place, at[x].kind = "link", ~command[at[x].by].slipped
                 PROVE  at[<<at[x].to, x[2]>>].kind = "copy"
      BY DEF NoDanglingLink
    <2>1. at[<<at[x].to, x[2]>>] = CopyBy(at[x].by)
      BY DEF IInv, LinksLead
    <2> QED
      BY <2>1 DEF CopyBy
  <1> QED
    BY <1>1, Invariant, PTL

LEMMA TakesOwn ==
    ASSUME IInv, NEW c \in Command, Works(c), NEW x \in Place, at'[x] # at[x], at[x] # NoEntry
    PROVE  \/ at[x].by # Others /\ command[at[x].by].step \in {"unlink", "remove", "rmdir"}
           \/ at[x].kind = "shell"
  <1>1. Progress(c) /\ Listed(c) /\ TypeOK /\ c # Others
    BY SkillInstallAssumption DEF IInv
  <1>2. CASE Copy(c)
    BY <1>1, <1>2 DEF Copy, GivesWay, TypeOK
  <1>3. CASE MakeLink(c)
    BY <1>1, <1>3 DEF MakeLink, TypeOK
  <1>4. CASE Unlink(c)
    <2>1. PICK y \in command[c].links : \A z \in Place : z # y => at'[z] = at[z]
      BY <1>1, <1>4 DEF Unlink, TypeOK
    <2> QED
      BY <1>1, <1>4, <2>1 DEF Listed, LinkBy, Unlink
  <1>5. CASE Remove(c)
    <2>1. PICK s \in command[c].skills :
             \A z \in Place : z # <<command[c].destination, s>> => at'[z] = at[z]
      BY <1>1, <1>5 DEF Remove, TypeOK
    <2>2. at[<<command[c].destination, s>>] = CopyBy(c) /\ command[c].step = "remove"
      BY <1>1, <1>5 DEF Listed, Remove
    <2>3. x = <<command[c].destination, s>>
      BY <2>1
    <2>4. at[x].by = c
      BY <2>2, <2>3 DEF CopyBy
    <2> QED
      BY <1>1, <2>2, <2>4
  <1>6. CASE RemoveDirectory(c)
    BY <1>1, <1>6 DEF RemoveDirectory, TypeOK
  <1> QED
    BY <1>2, <1>3, <1>4, <1>5, <1>6
       DEF Works, CheckSkill, CheckLink, ListSkill, ListLink, Fails, Interrupt, Dies

\* No command ever takes what another one made, or what was there before.
THEOREM OwnOnly == Spec => OnlyOwnRemoved
  <1>1. IInv /\ [Next]_vars =>
           [\A x \in Place :
              at'[x] # at[x] /\ at[x] # NoEntry =>
                 \/ at[x].by # Others /\ command[at[x].by].step \in {"unlink", "remove", "rmdir"}
                 \/ at[x].kind = "shell"]_vars
    BY TakesOwn DEF Next, Begin, vars
  <1> QED
    BY <1>1, Invariant, PTL DEF Spec, OnlyOwnRemoved
=============================================================================
