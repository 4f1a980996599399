------------------------- MODULE CheckpointStoreProofs -------------------------
(***************************************************************************)
(* Proofs about CheckpointStore for every budget, every length of entries, *)
(* every number of processes and every bound.  First what a partition of   *)
(* the entries does, then how a command that holds the lock carries it     *)
(* into the two documents, whatever fails on the way.                      *)
(***************************************************************************)
EXTENDS CheckpointStore, FiniteSetTheorems, SequenceTheorems, TLAPS

\* Entries as the archive holds them.
Aged == [n : Nat, pinned : {FALSE}, size : EntrySize]

Replacement == {<<>>} \cup [second : Seq(Entry)] \cup [first : Seq(Aged), second : Seq(Entry)]

Operation == [step : Steps, outcome : Outcomes, new : Replacement,
              staged : SUBSET Temporary, saved : Seq(Aged) \cup {Nothing}]

StateTypeOK ==
    /\ lock \in Process \cup {Nothing}
    /\ files \in [first : Seq(Aged) \cup {Nothing}, second : Seq(Entry) \cup {Nothing}]
    /\ op \in [Process -> Operation]
    /\ litter \in SUBSET Temporary
    /\ mishaps \in SUBSET Mishap
    /\ request \in [Process -> Entry \cup {Rotation, Nothing}]
    /\ clock \in Nat
    /\ calls \in Nat
    /\ reported \in SUBSET Entry
    /\ hook \subseteq Process

\* flock: who holds the lock is exactly who is between Acquire and Release.
HoldsLock(p) == op[p].step \notin {"idle", "wait"}

LockInv == \A p \in Process : HoldsLock(p) <=> lock = p

\* A document as it is read.
Text(file) == IF file = Nothing THEN <<>> ELSE file

\* The archive was replaced and can still be restored.
Halfway(p) == IsPair(p) /\ op[p].staged \cap File = {"second"} /\ files["first"] = op[p].new["first"]

\* Where a command has got to, and what that says of its temporaries.
Position(p) ==
    LET o == op[p]
    IN  /\ o.step # "idle" => request[p] \in Entry \cup {Rotation}
        /\ o.step \in {"idle", "wait", "locked"} => o = [Idle EXCEPT !.step = o.step]
        /\ o.step \in {"stage", "backup", "swap", "rollback"} => "second" \in DOMAIN o.new
        /\ o.step = "stage" => o.staged = {} \/ (IsPair(p) /\ o.staged = {"first"})
        /\ o.step = "backup" => IsPair(p) /\ o.staged = File
        /\ o.step = "swap" =>
              \/ ~ IsPair(p) /\ o.staged = {"second"}
              \/ IsPair(p) /\ o.staged \cap File = File /\ o.saved = files["first"]
              \/ Halfway(p)
        /\ o.step = "rollback" => Halfway(p)

\* The archive that stands if the command of p fails from here on, and the one
\* that does whoever holds the lock.
Before(p) ==
    IF op[p].step \in {"swap", "rollback"} /\ HalfSwapped(p) THEN op[p].saved ELSE files["first"]

Standing == Text(IF lock = Nothing THEN files["first"] ELSE Before(lock))

\* The newer an entry, the earlier it stands.
Falling(entries) == \A i, j \in DOMAIN entries : i < j => entries[i].n > entries[j].n

AgesUpTo(entries, now) == \A i \in DOMAIN entries : entries[i].n <= now

WithinBudget(entries) == Fits(entries) \/ Ordinary(entries) = {}

\* RecencyKept of any two documents.
Recent(archive, entries) ==
    /\ IsInjective(archive)
    /\ \A i \in Ordinary(entries), j \in DOMAIN archive : entries[i].n > archive[j].n

\* What p is about to write loses no entry of the documents that stand, moves no
\* pinned entry, holds the entry it was called for and is in order.
Decided(p) ==
    op[p].step \in {"stage", "backup", "swap", "rollback"} =>
        LET old     == Text(Before(p))
            entries == op[p].new["second"]
            archive == IF IsPair(p) THEN op[p].new["first"] ELSE old
        IN  /\ ToSet(old) \subseteq ToSet(archive)
            /\ Live \subseteq ToSet(entries) \cup ToSet(archive)
            /\ \A e \in Live : e.pinned => e \in ToSet(entries)
            /\ request[p] # Rotation => request[p] \in ToSet(entries) \cup ToSet(archive)
            /\ WithinBudget(entries)
            /\ Falling(entries) /\ AgesUpTo(entries, clock) /\ AgesUpTo(archive, clock)
            /\ Recent(old, Progress) => Recent(archive, entries)

\* A command that succeeded has written its entry, and there is a PROGRESS.md.
Written(p) ==
    op[p].outcome = "done" =>
        /\ op[p].step \in {"clean", "release"}
        /\ files["second"] # Nothing
        /\ request[p] # Rotation => request[p] \in Live \cup Archived

\* Both documents as they are, and as a rollback would leave them.
Documents ==
    /\ reported \subseteq Live \cup Archived
    /\ reported \subseteq Live \cup ToSet(Standing)
    /\ files["second"] = Nothing => reported = {}
    /\ WithinBudget(Progress)
    /\ Falling(Progress) /\ AgesUpTo(Progress, clock)
    /\ AgesUpTo(Archive, clock) /\ AgesUpTo(Standing, clock)
    /\ mishaps \cap {"crash", "interrupt", "rollback"} = {} => Recent(Standing, Progress)

IInv ==
    /\ StateTypeOK
    /\ LockInv
    /\ \A p \in Process : Position(p) /\ Decided(p) /\ Written(p)
    /\ Documents

----------------------------------------------------------------------------
(* The entries at some places.                                             *)

\* The number of places up to one of them counts them through, without a gap.
LEMMA Ranks ==
    ASSUME NEW places \in SUBSET Nat, IsFiniteSet(places)
    PROVE  LET Rank(i) == Cardinality({j \in places : j <= i})
               n == Cardinality(places)
           IN  /\ n \in Nat
               /\ \A i \in places : Rank(i) \in 1..n
               /\ \A i, j \in places : i < j => Rank(i) < Rank(j)
               /\ \A k \in 1..n : \E i \in places : Rank(i) = k
<1> DEFINE UpTo(i) == {j \in places : j <= i}
           Rank(i) == Cardinality(UpTo(i))
           n == Cardinality(places)
           f == [i \in places |-> Rank(i)]
<1>1. n \in Nat
  BY FS_CardinalityType
<1>2. ASSUME NEW i \in places
      PROVE  IsFiniteSet(UpTo(i)) /\ Rank(i) \in Nat /\ Rank(i) <= n /\ Rank(i) # 0
  <2>1. UpTo(i) \in SUBSET places /\ i \in UpTo(i)
    OBVIOUS
  <2>2. IsFiniteSet(UpTo(i)) /\ Rank(i) <= n
    BY <2>1, FS_Subset
  <2>3. Rank(i) \in Nat
    BY <2>2, FS_CardinalityType
  <2>4. Rank(i) # 0
    BY <2>1, <2>2, FS_EmptySet
  <2>. QED
    BY <2>2, <2>3, <2>4
<1>3. ASSUME NEW i \in places, NEW j \in places, i < j
      PROVE  Rank(i) < Rank(j)
  <2>1. UpTo(i) \in SUBSET UpTo(j) /\ j \in UpTo(j) /\ j \notin UpTo(i)
    <3>1. \A k \in places : k <= i => k <= j
      BY <1>3
    <3>2. j <= j /\ ~ (j <= i)
      BY <1>3
    <3>. QED
      BY <3>1, <3>2
  <2>2. Rank(i) <= Rank(j) /\ Rank(i) # Rank(j)
    BY <1>2, <2>1, FS_Subset
  <2>. QED
    BY <1>2, <2>2
<1> HIDE DEF UpTo, Rank
<1>4. f \in Injection(places, 1..n)
  <2>1. \A i, j \in places : f[i] = f[j] => i = j
    BY <1>2, <1>3
  <2>2. f \in [places -> 1..n]
    BY <1>1, <1>2
  <2>. QED
    BY <2>1, <2>2 DEF Injection, IsInjective
<1>5. IsFiniteSet(1..n) /\ Cardinality(1..n) = n
  BY <1>1, FS_Interval
<1>6. f \in Surjection(places, 1..n)
  BY <1>4, <1>5, FS_Injection
<1>7. \A k \in 1..n : \E i \in places : Rank(i) = k
  BY <1>6 DEF Surjection
<1>. QED
  BY <1>1, <1>2, <1>3, <1>7 DEF UpTo, Rank

\* The places of a document are a finite set of numbers.
LEMMA PlacesAreFinite ==
    ASSUME NEW S, NEW entries \in Seq(S), NEW places \in SUBSET (DOMAIN entries)
    PROVE  places \in SUBSET Nat /\ IsFiniteSet(places)
<1>1. DOMAIN entries = 1..Len(entries) /\ Len(entries) \in Nat
  OBVIOUS
<1>2. IsFiniteSet(1..Len(entries))
  BY <1>1, FS_Interval
<1>3. places \in SUBSET (1..Len(entries))
  BY <1>1
<1>4. IsFiniteSet(places)
  BY <1>2, <1>3, FS_Subset
<1>. QED
  BY <1>1, <1>3, <1>4

\* At answers the entries at the places, all of them and in document order.
LEMMA AtEffect ==
    ASSUME NEW S, NEW entries \in Seq(S), NEW places \in SUBSET (DOMAIN entries)
    PROVE  LET s == At(entries, places)
           IN  /\ s \in Seq(S)
               /\ \E place \in [DOMAIN s -> places] :
                     /\ \A k \in DOMAIN s : s[k] = entries[place[k]]
                     /\ \A k, l \in DOMAIN s : k < l => place[k] < place[l]
                     /\ \A i \in places : \E k \in DOMAIN s : place[k] = i
<1> DEFINE Rank(i) == Cardinality({j \in places : j <= i})
           n == Cardinality(places)
           place == [k \in 1..n |-> CHOOSE i \in places : Rank(i) = k]
           s == At(entries, places)
<1>1. places \in SUBSET Nat /\ IsFiniteSet(places)
  BY PlacesAreFinite
<1>2. /\ n \in Nat
      /\ \A i \in places : Rank(i) \in 1..n
      /\ \A i, j \in places : i < j => Rank(i) < Rank(j)
      /\ \A k \in 1..n : \E i \in places : Rank(i) = k
  BY <1>1, Ranks
<1>3. s = [k \in 1..n |-> entries[place[k]]]
  BY DEF At
<1> HIDE DEF Rank, n, s
<1>4. \A k \in 1..n : place[k] \in places /\ Rank(place[k]) = k
  BY <1>2
<1> HIDE DEF place
<1>5. DOMAIN s = 1..n /\ \A k \in 1..n : s[k] = entries[place[k]]
  BY <1>3
<1>6. s \in Seq(S)
  <2>1. \A k \in 1..n : s[k] \in S
    BY <1>4, <1>5
  <2>. QED
    BY <1>2, <1>3, <2>1
<1>7. place \in [DOMAIN s -> places]
  BY <1>4, <1>5 DEF place
<1>8. ASSUME NEW k \in 1..n, NEW l \in 1..n, k < l
      PROVE  place[k] < place[l]
  <2>1. place[k] \in Nat /\ place[l] \in Nat
    BY <1>1, <1>4
  <2>2. ~ (place[l] < place[k])
    BY <1>2, <1>4, <1>8
  <2>3. place[l] # place[k]
    BY <1>4, <1>8
  <2>. QED
    BY <2>1, <2>2, <2>3
<1>9. ASSUME NEW i \in places
      PROVE  \E k \in 1..n : place[k] = i
  <2>1. Rank(i) \in 1..n /\ place[Rank(i)] \in places /\ Rank(place[Rank(i)]) = Rank(i)
    BY <1>2, <1>4
  <2>2. place[Rank(i)] = i
    BY <1>1, <1>2, <2>1
  <2>. QED
    BY <2>1, <2>2
<1>10. \E choice \in [DOMAIN s -> places] :
         /\ \A k \in DOMAIN s : s[k] = entries[choice[k]]
         /\ \A k, l \in DOMAIN s : k < l => choice[k] < choice[l]
         /\ \A i \in places : \E k \in DOMAIN s : choice[k] = i
  <2>1. /\ \A k \in DOMAIN s : s[k] = entries[place[k]]
        /\ \A k, l \in DOMAIN s : k < l => place[k] < place[l]
        /\ \A i \in places : \E k \in DOMAIN s : place[k] = i
    BY <1>5, <1>8, <1>9
  <2>. QED
    BY <1>7, <2>1, Zenon
<1>. QED
  BY <1>6, <1>10 DEF s

\* A non-empty set of places has a last one.
LEMMA Greatest ==
    ASSUME NEW places \in SUBSET Nat, IsFiniteSet(places), places # {}
    PROVE  \E m \in places : \A i \in places : i <= m
<1> DEFINE Rank(i) == Cardinality({j \in places : j <= i})
           n == Cardinality(places)
<1>1. /\ n \in Nat
      /\ \A i \in places : Rank(i) \in 1..n
      /\ \A i, j \in places : i < j => Rank(i) < Rank(j)
      /\ \A k \in 1..n : \E i \in places : Rank(i) = k
  BY Ranks
<1> HIDE DEF Rank, n
<1>2. n \in 1..n
  <2>1. PICK i \in places : TRUE
    OBVIOUS
  <2>2. Rank(i) \in 1..n
    BY <1>1
  <2>. QED
    BY <1>1, <2>2
<1>3. PICK m \in places : Rank(m) = n
  BY <1>1, <1>2
<1>4. ASSUME NEW i \in places PROVE i <= m
  <2>1. Rank(i) <= n /\ Rank(i) \in Nat
    BY <1>1
  <2>2. ~ (m < i)
    BY <1>1, <1>3, <2>1
  <2>. QED
    BY <2>2
<1>. QED
  BY <1>3, <1>4

\* At answers exactly those entries.
LEMMA AtMembers ==
    ASSUME NEW S, NEW entries \in Seq(S), NEW places \in SUBSET (DOMAIN entries)
    PROVE  ToSet(At(entries, places)) = {entries[i] : i \in places}
<1>1. PICK place \in [DOMAIN At(entries, places) -> places] :
         /\ \A k \in DOMAIN At(entries, places) : At(entries, places)[k] = entries[place[k]]
         /\ \A i \in places : \E k \in DOMAIN At(entries, places) : place[k] = i
  BY AtEffect
<1>. QED
  BY <1>1 DEF ToSet

----------------------------------------------------------------------------
(* The partition.                                                          *)

\* What is evicted is ordinary, and everything ordinary that stays is newer.
LEMMA EvictedIsOldest ==
    ASSUME NEW entries \in Seq(Entry)
    PROVE  /\ Evicted(entries) \in SUBSET (DOMAIN entries)
           /\ \A i \in Evicted(entries) : ~ entries[i].pinned
           /\ \A i \in Evicted(entries), j \in Ordinary(entries) \ Evicted(entries) : j < i
<1>1. DOMAIN entries \in SUBSET Nat
  OBVIOUS
<1>2. ASSUME NEW i \in Evicted(entries), NEW j \in Ordinary(entries), ~ (j < i)
      PROVE  j \in Evicted(entries)
  <2>1. PICK k \in Ordinary(entries) : k <= i /\ ~ Fits(At(entries, Candidate(entries, k)))
    BY DEF Evicted
  <2>2. i \in Nat /\ j \in Nat /\ k \in Nat
    BY <1>1 DEF Evicted, Ordinary
  <2>3. k <= j
    BY <1>2, <2>1, <2>2
  <2>. QED
    BY <2>1, <2>3 DEF Evicted
<1>. QED
  BY <1>2 DEF Evicted, Ordinary

\* The entries that stay fit, unless none of them is ordinary.
LEMMA RetainedFits ==
    ASSUME NEW entries \in Seq(Entry)
    PROVE  WithinBudget(At(entries, DOMAIN entries \ Evicted(entries)))
<1> DEFINE stays == DOMAIN entries \ Evicted(entries)
           ordinary == Ordinary(entries) \ Evicted(entries)
<1>1. stays \in SUBSET (DOMAIN entries) /\ ordinary \in SUBSET (DOMAIN entries)
  BY DEF Ordinary
<1>2. CASE ordinary = {}
  <2>1. \A i \in stays : entries[i].pinned
    BY <1>2 DEF Ordinary
  <2> HIDE DEF stays
  <2>2. PICK place \in [DOMAIN At(entries, stays) -> stays] :
           \A k \in DOMAIN At(entries, stays) : At(entries, stays)[k] = entries[place[k]]
    BY <1>1, AtEffect
  <2>3. Ordinary(At(entries, stays)) = {}
    BY <2>1, <2>2 DEF Ordinary
  <2>. QED
    BY <2>3 DEF WithinBudget, stays
<1>3. CASE ordinary # {}
  <2>1. PICK m \in ordinary : \A i \in ordinary : i <= m
    BY <1>1, <1>3, PlacesAreFinite, Greatest
  <2>2. m \in Ordinary(entries) /\ m \in Nat
    BY <1>1 DEF Ordinary
  <2>3. Fits(At(entries, Candidate(entries, m)))
    BY <2>2 DEF Evicted
  <2>4. stays = Candidate(entries, m)
    <3>1. ASSUME NEW i \in stays PROVE i \in Candidate(entries, m)
      BY <2>1 DEF Ordinary, Candidate
    <3>2. ASSUME NEW i \in Candidate(entries, m) PROVE i \in stays
      <4>1. CASE entries[i].pinned
        BY <4>1, EvictedIsOldest DEF Candidate
      <4>2. CASE ~ entries[i].pinned /\ i \in Evicted(entries)
        <5>1. m < i
          BY <4>2, EvictedIsOldest
        <5>2. i <= m /\ i \in Nat
          BY <4>2 DEF Candidate
        <5>. QED
          BY <2>2, <5>1, <5>2
      <4>. QED
        BY <4>1, <4>2 DEF Candidate
    <3>. QED
      BY <3>1, <3>2
  <2>. QED
    BY <2>3, <2>4 DEF WithinBudget
<1>. QED
  BY <1>2, <1>3

\* What a partition does to entries: none is lost, no pinned one is moved, what
\* stays is within the budget and, of entries in order, newer than what goes.
LEMMA PartitionEffect ==
    ASSUME NEW entries \in Seq(Entry)
    PROVE  LET stays == Partition(entries).retained
               goes  == Partition(entries).evicted
           IN  /\ stays \in Seq(Entry) /\ goes \in Seq(Aged)
               /\ ToSet(entries) = ToSet(stays) \cup ToSet(goes)
               /\ \A e \in ToSet(entries) : e.pinned => e \in ToSet(stays)
               /\ WithinBudget(stays)
               /\ Falling(entries) =>
                     /\ Falling(stays) /\ IsInjective(goes)
                     /\ \A i \in Ordinary(stays), j \in DOMAIN goes : stays[i].n > goes[j].n
<1> DEFINE gone == Evicted(entries)
           kept == DOMAIN entries \ Evicted(entries)
           stays == Partition(entries).retained
           goes == Partition(entries).evicted
<1>1. CASE Fits(entries)
  <2>1. stays = entries /\ goes = <<>>
    BY <1>1 DEF Partition
  <2>. QED
    BY <1>1, <2>1 DEF WithinBudget, ToSet, IsInjective
<1>2. CASE ~ Fits(entries)
  <2>1. stays = At(entries, kept) /\ goes = At(entries, gone)
    BY <1>2 DEF Partition
  <2>2. kept \in SUBSET (DOMAIN entries) /\ gone \in SUBSET (DOMAIN entries)
    BY EvictedIsOldest
  <2>3. stays \in Seq(Entry) /\ goes \in Seq(Entry)
    BY <2>1, <2>2, AtEffect
  <2> HIDE DEF kept, gone
  <2>4. PICK keeps \in [DOMAIN At(entries, kept) -> kept] :
           /\ \A k \in DOMAIN At(entries, kept) : At(entries, kept)[k] = entries[keeps[k]]
           /\ \A k, l \in DOMAIN At(entries, kept) : k < l => keeps[k] < keeps[l]
    BY <2>2, AtEffect
  <2>5. PICK drops \in [DOMAIN At(entries, gone) -> gone] :
           /\ \A k \in DOMAIN At(entries, gone) : At(entries, gone)[k] = entries[drops[k]]
           /\ \A k, l \in DOMAIN At(entries, gone) : k < l => drops[k] < drops[l]
    BY <2>2, AtEffect
  <2>6. ToSet(stays) = {entries[i] : i \in kept} /\ ToSet(goes) = {entries[i] : i \in gone}
    BY <2>1, <2>2, AtMembers
  <2> HIDE DEF stays, goes
  <2>7. /\ keeps \in [DOMAIN stays -> kept]
        /\ \A k \in DOMAIN stays : stays[k] = entries[keeps[k]]
        /\ \A k, l \in DOMAIN stays : k < l => keeps[k] < keeps[l]
        /\ drops \in [DOMAIN goes -> gone]
        /\ \A k \in DOMAIN goes : goes[k] = entries[drops[k]]
        /\ \A k, l \in DOMAIN goes : k < l => drops[k] < drops[l]
    BY <2>1, <2>4, <2>5
  <2>8. goes \in Seq(Aged)
    <3>1. \A k \in DOMAIN goes : ~ goes[k].pinned
      BY <2>7, EvictedIsOldest DEF gone
    <3>2. \A k \in DOMAIN goes : goes[k] \in Aged
      <4>1. \A k \in DOMAIN goes : goes[k] \in Entry
        BY <2>3
      <4>. QED
        BY <3>1, <4>1 DEF Entry, Aged
    <3>. QED
      BY <2>3, <3>2
  <2>9. ToSet(entries) = ToSet(stays) \cup ToSet(goes)
    BY <2>2, <2>6 DEF ToSet, kept, gone
  <2>10. \A e \in ToSet(entries) : e.pinned => e \in ToSet(stays)
    BY <2>6, EvictedIsOldest DEF ToSet, kept
  <2>11. WithinBudget(stays)
    BY <2>1, RetainedFits DEF stays, kept
  <2>12. ASSUME Falling(entries)
         PROVE  /\ Falling(stays) /\ IsInjective(goes)
                /\ \A i \in Ordinary(stays), j \in DOMAIN goes : stays[i].n > goes[j].n
    <3>1. \A i, j \in DOMAIN entries : i < j => entries[i].n > entries[j].n
      BY <2>12 DEF Falling
    <3>2. Falling(stays)
      BY <2>2, <2>7, <3>1 DEF Falling
    <3>3. ASSUME NEW k \in DOMAIN goes, NEW l \in DOMAIN goes, k < l
          PROVE  goes[k] # goes[l]
      <4>1. goes[k].n > goes[l].n
        BY <2>2, <2>7, <3>1, <3>3
      <4>2. goes[k] \in Entry
        BY <2>3
      <4>. QED
        BY <4>1, <4>2 DEF Entry
    <3>4. IsInjective(goes)
      <4>1. \A k, l \in DOMAIN goes : k < l \/ l < k \/ k = l
        BY <2>3
      <4>. QED
        BY <3>3, <4>1 DEF IsInjective
    <3>5. ASSUME NEW i \in Ordinary(stays), NEW j \in DOMAIN goes
          PROVE  stays[i].n > goes[j].n
      <4>1. i \in DOMAIN stays /\ ~ entries[keeps[i]].pinned
        BY <2>7 DEF Ordinary
      <4>2. keeps[i] \in Ordinary(entries) \ Evicted(entries)
        BY <2>7, <4>1 DEF Ordinary, kept
      <4>3. keeps[i] < drops[j]
        BY <2>7, <4>2, EvictedIsOldest DEF gone
      <4>4. entries[keeps[i]].n > entries[drops[j]].n
        BY <2>2, <2>7, <3>1, <4>1, <4>3
      <4>. QED
        BY <2>7, <4>1, <4>4
    <3>. QED
      BY <3>2, <3>4, <3>5
  <2>. QED
    BY <2>3, <2>8, <2>9, <2>10, <2>11, <2>12 DEF stays, goes
<1>. QED
  BY <1>1, <1>2

\* Putting one document after another.
LEMMA Concatenation ==
    ASSUME NEW S, NEW a \in Seq(S), NEW b \in Seq(S)
    PROVE  /\ a \o b \in Seq(S)
           /\ ToSet(a \o b) = ToSet(a) \cup ToSet(b)
           /\ IsInjective(a) /\ IsInjective(b) /\ (\A i \in DOMAIN a, j \in DOMAIN b : a[i] # b[j])
                 => IsInjective(a \o b)
           /\ b = <<>> => a \o b = a
<1> DEFINE c == a \o b
           m == Len(a)
           n == Len(b)
<1>1. /\ c \in Seq(S)
      /\ DOMAIN c = 1..(m + n) /\ m \in Nat /\ n \in Nat
      /\ DOMAIN a = 1..m /\ DOMAIN b = 1..n
      /\ \A i \in 1..m : c[i] = a[i]
      /\ \A j \in 1..n : c[m + j] = b[j]
  OBVIOUS
<1>2. \A i \in 1..(m + n) : i \in 1..m \/ (i - m \in 1..n /\ m + (i - m) = i)
  BY <1>1
<1> HIDE DEF c, m, n
<1>3. ToSet(c) = ToSet(a) \cup ToSet(b)
  <2>1. ASSUME NEW i \in DOMAIN c PROVE c[i] \in ToSet(a) \cup ToSet(b)
    <3>1. CASE i \in 1..m
      BY <1>1, <3>1 DEF ToSet
    <3>2. CASE i - m \in 1..n /\ m + (i - m) = i
      <4>1. c[i] = b[i - m]
        BY <1>1, <3>2
      <4>. QED
        BY <1>1, <3>2, <4>1 DEF ToSet
    <3>. QED
      BY <1>1, <1>2, <3>1, <3>2
  <2>2. ASSUME NEW i \in DOMAIN a PROVE a[i] \in ToSet(c)
    <3>1. i \in DOMAIN c /\ c[i] = a[i]
      BY <1>1
    <3>. QED
      BY <3>1 DEF ToSet
  <2>3. ASSUME NEW j \in DOMAIN b PROVE b[j] \in ToSet(c)
    <3>1. m + j \in DOMAIN c /\ c[m + j] = b[j]
      BY <1>1
    <3>. QED
      BY <3>1 DEF ToSet
  <2>. QED
    BY <2>1, <2>2, <2>3 DEF ToSet
<1>4. ASSUME IsInjective(a), IsInjective(b), \A i \in DOMAIN a, j \in DOMAIN b : a[i] # b[j],
             NEW i \in DOMAIN c, NEW k \in DOMAIN c, c[i] = c[k]
      PROVE  i = k
  <2>1. CASE i \in 1..m /\ k \in 1..m
    BY <1>1, <1>4, <2>1 DEF IsInjective
  <2>2. CASE i \in 1..m /\ k - m \in 1..n /\ m + (k - m) = k
    <3>1. c[i] = a[i] /\ c[k] = b[k - m]
      BY <1>1, <2>2
    <3>. QED
      BY <1>1, <1>4, <2>2, <3>1
  <2>3. CASE k \in 1..m /\ i - m \in 1..n /\ m + (i - m) = i
    <3>1. c[k] = a[k] /\ c[i] = b[i - m]
      BY <1>1, <2>3
    <3>. QED
      BY <1>1, <1>4, <2>3, <3>1
  <2>4. CASE k - m \in 1..n /\ m + (k - m) = k /\ i - m \in 1..n /\ m + (i - m) = i
    <3>1. c[k] = b[k - m] /\ c[i] = b[i - m]
      BY <1>1, <2>4
    <3>2. i - m = k - m
      BY <1>1, <1>4, <2>4, <3>1 DEF IsInjective
    <3>. QED
      BY <1>1, <2>4, <3>2
  <2>. QED
    BY <1>1, <1>2, <2>1, <2>2, <2>3, <2>4
<1>5. b = <<>> => c = a
  BY DEF c
<1>. QED
  BY <1>1, <1>3, <1>4, <1>5 DEF IsInjective, c

\* What a command is about to put into the archive.
Filed(archive, entries) ==
    IF Partition(entries).evicted = <<>> THEN archive ELSE archive \o Partition(entries).evicted

\* What persisting entries beside an archive comes to.
LEMMA PersistEffect ==
    ASSUME NEW archive \in Seq(Aged), NEW entries \in Seq(Entry), NEW now \in Nat,
           Falling(entries), AgesUpTo(entries, now), AgesUpTo(archive, now)
    PROVE  LET stays == Partition(entries).retained
               filed == Filed(archive, entries)
           IN  /\ stays \in Seq(Entry) /\ filed \in Seq(Aged)
               /\ ToSet(archive) \subseteq ToSet(filed)
               /\ ToSet(entries) \subseteq ToSet(stays) \cup ToSet(filed)
               /\ \A e \in ToSet(entries) : e.pinned => e \in ToSet(stays)
               /\ WithinBudget(stays)
               /\ Falling(stays) /\ AgesUpTo(stays, now) /\ AgesUpTo(filed, now)
               /\ Recent(archive, entries) => Recent(filed, stays)
<1> DEFINE stays == Partition(entries).retained
           goes == Partition(entries).evicted
           filed == archive \o goes
<1>1. /\ stays \in Seq(Entry) /\ goes \in Seq(Aged)
      /\ ToSet(entries) = ToSet(stays) \cup ToSet(goes)
      /\ \A e \in ToSet(entries) : e.pinned => e \in ToSet(stays)
      /\ WithinBudget(stays)
      /\ Falling(stays) /\ IsInjective(goes)
      /\ \A i \in Ordinary(stays), j \in DOMAIN goes : stays[i].n > goes[j].n
  BY PartitionEffect
<1>2. Filed(archive, entries) = filed
  BY <1>1, Concatenation DEF Filed
<1> HIDE DEF stays, goes
<1>3. /\ filed \in Seq(Aged) /\ ToSet(filed) = ToSet(archive) \cup ToSet(goes)
      /\ IsInjective(archive) /\ (\A i \in DOMAIN archive, j \in DOMAIN goes : archive[i] # goes[j])
            => IsInjective(filed)
  BY <1>1, Concatenation
<1> HIDE DEF filed
<1>4. \A e \in ToSet(stays) \cup ToSet(goes) : e.n <= now /\ e \in Entry
  <2>1. \A e \in ToSet(entries) : e.n <= now /\ e \in Entry
    BY DEF AgesUpTo, ToSet
  <2>. QED
    BY <1>1, <2>1
<1>5. AgesUpTo(stays, now)
  BY <1>4 DEF AgesUpTo, ToSet
<1>6. AgesUpTo(filed, now)
  <2>1. \A e \in ToSet(archive) : e.n <= now
    BY DEF AgesUpTo, ToSet
  <2>2. \A e \in ToSet(filed) : e.n <= now
    BY <1>3, <1>4, <2>1
  <2>. QED
    BY <2>2 DEF AgesUpTo, ToSet
<1>7. ASSUME Recent(archive, entries) PROVE Recent(filed, stays)
  <2>1. \A e \in ToSet(entries), j \in DOMAIN archive : ~ e.pinned => e.n > archive[j].n
    BY <1>7 DEF Recent, Ordinary, ToSet
  <2>2. ASSUME NEW i \in DOMAIN archive, NEW j \in DOMAIN goes PROVE archive[i] # goes[j]
    <3>1. goes[j] \in ToSet(entries) /\ ~ goes[j].pinned /\ goes[j] \in Entry
      <4>1. goes[j] \in Aged /\ goes[j] \in ToSet(goes)
        BY <1>1 DEF ToSet
      <4>. QED
        BY <1>1, <1>4, <4>1 DEF Aged
    <3>2. goes[j].n > archive[i].n /\ goes[j].n \in Nat
      BY <2>1, <3>1 DEF Entry
    <3>. QED
      BY <3>2
  <2>3. IsInjective(filed)
    BY <1>3, <1>7, <2>2 DEF Recent
  <2>4. ASSUME NEW i \in Ordinary(stays) PROVE \A e \in ToSet(filed) : stays[i].n > e.n
    <3>1. stays[i] \in ToSet(entries) /\ ~ stays[i].pinned
      BY <1>1 DEF Ordinary, ToSet
    <3>2. \A e \in ToSet(archive) : stays[i].n > e.n
      BY <2>1, <3>1 DEF ToSet
    <3>3. \A e \in ToSet(goes) : stays[i].n > e.n
      BY <1>1 DEF ToSet
    <3>. QED
      BY <1>3, <3>2, <3>3
  <2>. QED
    BY <2>3, <2>4 DEF Recent, ToSet
<1>. QED
  BY <1>1, <1>2, <1>3, <1>5, <1>6, <1>7 DEF stays, filed

\* A new entry on top of what there is.
LEMMA PrependEffect ==
    ASSUME NEW archive \in Seq(Aged), NEW entries \in Seq(Entry), NEW now \in Nat,
           Falling(entries), AgesUpTo(entries, now), AgesUpTo(archive, now),
           NEW entry \in Entry, entry.n = now + 1
    PROVE  LET more == <<entry>> \o entries
           IN  /\ more \in Seq(Entry)
               /\ ToSet(more) = ToSet(entries) \cup {entry}
               /\ Falling(more) /\ AgesUpTo(more, now + 1) /\ AgesUpTo(archive, now + 1)
               /\ Recent(archive, entries) => Recent(archive, more)
<1> DEFINE more == <<entry>> \o entries
           n == Len(entries)
<1>1. /\ more \in Seq(Entry)
      /\ n \in Nat /\ DOMAIN entries = 1..n /\ DOMAIN more = 1..(n + 1)
      /\ more[1] = entry
      /\ \A i \in 1..n : more[i + 1] = entries[i]
  OBVIOUS
<1>2. \A i \in 1..(n + 1) : i = 1 \/ (i - 1 \in 1..n /\ (i - 1) + 1 = i)
  BY <1>1
<1> HIDE DEF more, n
<1>3. \A i \in 1..(n + 1) : i = 1 \/ (i - 1 \in 1..n /\ more[i] = entries[i - 1])
  BY <1>1, <1>2
<1>4. \A i \in DOMAIN entries : entries[i].n <= now /\ entries[i].n \in Nat
  <2>1. \A i \in DOMAIN entries : entries[i] \in Entry
    OBVIOUS
  <2>. QED
    BY <2>1 DEF AgesUpTo, Entry
<1>5. ToSet(more) = ToSet(entries) \cup {entry}
  <2>1. ASSUME NEW i \in DOMAIN more PROVE more[i] \in ToSet(entries) \cup {entry}
    BY <1>1, <1>3 DEF ToSet
  <2>2. entry \in ToSet(more)
    BY <1>1 DEF ToSet
  <2>3. ASSUME NEW i \in DOMAIN entries PROVE entries[i] \in ToSet(more)
    <3>1. i + 1 \in DOMAIN more /\ more[i + 1] = entries[i]
      BY <1>1
    <3>. QED
      BY <3>1 DEF ToSet
  <2>. QED
    BY <2>1, <2>2, <2>3 DEF ToSet
<1>6. ASSUME NEW i \in DOMAIN more, NEW j \in DOMAIN more, i < j
      PROVE  more[i].n > more[j].n
  <2>1. j - 1 \in 1..n /\ more[j] = entries[j - 1]
    BY <1>1, <1>3, <1>6
  <2>2. CASE i = 1
    BY <1>1, <1>4, <2>1, <2>2
  <2>3. CASE i - 1 \in 1..n /\ more[i] = entries[i - 1]
    <3>1. i - 1 < j - 1
      BY <1>1, <1>6
    <3>. QED
      BY <1>1, <2>1, <2>3, <3>1 DEF Falling
  <2>. QED
    BY <1>1, <1>3, <2>2, <2>3
<1>7. AgesUpTo(more, now + 1) /\ AgesUpTo(archive, now + 1)
  <2>1. ASSUME NEW i \in DOMAIN archive PROVE archive[i].n <= now + 1
    <3>1. archive[i] \in Aged /\ archive[i].n <= now
      BY DEF AgesUpTo
    <3>2. archive[i].n \in Nat
      BY <3>1 DEF Aged
    <3>. QED
      BY <3>1, <3>2
  <2>2. ASSUME NEW i \in DOMAIN more PROVE more[i].n <= now + 1
    <3>1. CASE i = 1
      BY <1>1, <3>1
    <3>2. CASE i - 1 \in DOMAIN entries /\ more[i] = entries[i - 1]
      <4>1. more[i].n <= now /\ more[i].n \in Nat
        BY <1>4, <3>2
      <4>. QED
        BY <4>1
    <3>. QED
      BY <1>1, <1>3, <3>1, <3>2
  <2>. QED
    BY <2>1, <2>2 DEF AgesUpTo
<1>8. ASSUME Recent(archive, entries) PROVE Recent(archive, more)
  <2>1. \A j \in DOMAIN archive : archive[j].n \in Nat /\ archive[j].n <= now
    <3>1. \A j \in DOMAIN archive : archive[j] \in Aged
      OBVIOUS
    <3>. QED
      BY <3>1 DEF AgesUpTo, Aged
  <2>2. ASSUME NEW i \in Ordinary(more), NEW j \in DOMAIN archive
        PROVE  more[i].n > archive[j].n
    <3>1. CASE i = 1
      BY <1>1, <2>1, <3>1
    <3>2. CASE i - 1 \in 1..n /\ more[i] = entries[i - 1]
      <4>1. i - 1 \in Ordinary(entries)
        BY <1>1, <3>2 DEF Ordinary
      <4>. QED
        BY <1>8, <3>2, <4>1 DEF Recent
    <3>. QED
      BY <1>1, <1>3, <3>1, <3>2 DEF Ordinary
  <2>. QED
    BY <1>8, <2>2 DEF Recent
<1>. QED
  BY <1>1, <1>5, <1>6, <1>7, <1>8 DEF more, Falling

----------------------------------------------------------------------------
(* The invariant, step by step.                                            *)

\* Entries are not the mark of a missing document.
LEMMA TextOfEntries ==
    ASSUME NEW S, S \in {Entry, Aged}, NEW entries \in Seq(S)
    PROVE  entries # Nothing /\ Text(entries) = entries
<1> DEFINE Whole == [n : Nat, pinned : BOOLEAN, size : Nat]
<1>1. EntrySize \subseteq Nat /\ Nothing \notin Seq(Whole)
  BY BudgetAssumption
<1>2. Entry \subseteq Whole /\ Aged \subseteq Whole
  BY <1>1 DEF Entry, Aged
<1> HIDE DEF Whole
<1>3. \A i \in DOMAIN entries : entries[i] \in Whole
  BY <1>2
<1>4. entries \in Seq(Whole)
  BY <1>3
<1>. QED
  BY <1>1, <1>4 DEF Text

\* The documents as they are read have their types.
LEMMA TextTypes ==
    ASSUME StateTypeOK
    PROVE  /\ Progress \in Seq(Entry) /\ Archive \in Seq(Aged)
           /\ Progress = Text(files["second"]) /\ Archive = Text(files["first"])
           /\ \A file \in Seq(Aged) \cup {Nothing} : Text(file) \in Seq(Aged)
BY DEF StateTypeOK, Progress, Archive, Document, Text

\* An empty PROGRESS.md is one document, an empty archive another.
LEMMA EmptyTexts ==
           /\ <<>> \in Seq(Entry) /\ <<>> \in Seq(Aged) /\ ToSet(<<>>) = {}
           /\ WithinBudget(<<>>) /\ Falling(<<>>) /\ \A now : AgesUpTo(<<>>, now)
           /\ Recent(<<>>, <<>>)
<1>1. DOMAIN <<>> = {}
  OBVIOUS
<1>. QED
  BY <1>1 DEF ToSet, WithinBudget, Ordinary, Falling, AgesUpTo, Recent, IsInjective

LEMMA InitIInv == Init => IInv
<1> SUFFICES ASSUME Init PROVE IInv
  OBVIOUS
<1>1. Idle \in Operation
  BY DEF Idle, Operation, Replacement, Steps, Outcomes
<1>2. /\ lock = Nothing /\ op = [p \in Process |-> Idle]
      /\ files = [first |-> Nothing, second |-> Nothing]
      /\ Progress = <<>> /\ Archive = <<>> /\ Standing = <<>>
  BY DEF Init, InitStorage, Progress, Archive, Document, Standing, Text
<1>3. StateTypeOK
  BY <1>1, <1>2 DEF Init, InitStorage, StateTypeOK
<1>4. LockInv
  BY <1>2, ProcessAssumption DEF LockInv, HoldsLock, Idle
<1>5. \A p \in Process : Position(p) /\ Decided(p) /\ Written(p)
  BY <1>2 DEF Position, Decided, Written, Idle
<1>6. Documents
  BY <1>2, EmptyTexts DEF Init, Documents, Live, Archived
<1>. QED
  BY <1>3, <1>4, <1>5, <1>6 DEF IInv

LEMMA StandingOfHolder ==
    ASSUME IInv, NEW p \in Process, HoldsLock(p)
    PROVE  lock = p /\ Standing = Text(Before(p))
BY ProcessAssumption DEF IInv, LockInv, Standing

\* A process that waits, or is idle, has nothing to lose when another one
\* moves; one that holds the lock sees the documents stand still.
LEMMA Frame ==
    ASSUME IInv, StateTypeOK', NEW p \in Process,
           \A q \in Process \ {p} : op'[q] = op[q] /\ request'[q] = request[q],
           UNCHANGED <<files, clock>> \/ lock = p,
           HoldsLock(p)' => lock' = p /\ lock \in {p, Nothing},
           ~ HoldsLock(p)' => lock' = IF lock = p THEN Nothing ELSE lock,
           Position(p)', Decided(p)', Written(p)', Documents'
    PROVE  IInv'
<1>1. LockInv'
  BY ProcessAssumption DEF IInv, StateTypeOK, LockInv, HoldsLock
<1>2. ASSUME NEW q \in Process, q # p
      PROVE  Position(q)' /\ Decided(q)' /\ Written(q)'
  <2>1. op'[q] = op[q] /\ request'[q] = request[q] /\ Position(q) /\ Decided(q) /\ Written(q)
    BY <1>2 DEF IInv
  <2>2. CASE UNCHANGED <<files, clock>>
    <3>1. Before(q)' = Before(q) /\ Live' = Live /\ Archived' = Archived /\ Progress' = Progress
      BY <2>1, <2>2 DEF Before, HalfSwapped, IsPair, Live, Archived, Progress, Archive, Document
    <3>2. Position(q)'
      BY <2>1, <2>2 DEF Position, Halfway, IsPair
    <3>3. Decided(q)'
      BY <2>1, <2>2, <3>1 DEF Decided, IsPair
    <3>4. Written(q)'
      BY <2>1, <2>2, <3>1 DEF Written
    <3>. QED
      BY <3>2, <3>3, <3>4
  <2>3. CASE lock = p
    <3>1. op[q].step \in {"idle", "wait"}
      BY <1>2, <2>3 DEF IInv, LockInv, HoldsLock
    <3>2. op[q].outcome = "none"
      BY <2>1, <3>1 DEF Position, Idle
    <3>. QED
      BY <2>1, <3>1, <3>2 DEF Position, Decided, Written
  <2>. QED
    BY <2>2, <2>3
<1>. QED
  BY <1>1, <1>2 DEF IInv

\* Documents nobody touches: what is reported meanwhile must be in them, and an
\* archive that was about to be restored may stay if a mishap prevents it.
LEMMA DocumentsStand ==
    ASSUME IInv, UNCHANGED <<files, clock>>, mishaps \subseteq mishaps',
           \/ Standing' = Standing
           \/ Standing' = Archive /\ mishaps' \cap {"crash", "interrupt", "rollback"} # {},
           reported' \subseteq reported \cup Live \cup (Archived \cap ToSet(Standing')),
           files["second"] = Nothing => reported' = reported
    PROVE  Documents'
<1>1. Live' = Live /\ Archived' = Archived /\ Progress' = Progress /\ Archive' = Archive
  BY DEF Live, Archived, Progress, Archive, Document
<1>2. ToSet(Archive) = Archived
  BY DEF Archived
<1>3. Documents
  BY DEF IInv
<1>4. reported' \subseteq Live \cup Archived /\ reported' \subseteq Live \cup ToSet(Standing')
  BY <1>2, <1>3 DEF Documents
<1>5. files'["second"] = Nothing => reported' = {}
  BY <1>3 DEF Documents
<1>6. AgesUpTo(Archive, clock)' /\ AgesUpTo(Progress, clock)'
  BY <1>1, <1>3 DEF Documents
<1>7. AgesUpTo(Standing, clock)'
  BY <1>3 DEF Documents
<1>8. mishaps' \cap {"crash", "interrupt", "rollback"} = {} => Recent(Standing, Progress)'
  <2> SUFFICES ASSUME mishaps' \cap {"crash", "interrupt", "rollback"} = {}
               PROVE  Recent(Standing', Progress')
    OBVIOUS
  <2>1. mishaps \cap {"crash", "interrupt", "rollback"} = {}
    OBVIOUS
  <2>2. Recent(Standing, Progress)
    BY <1>3, <2>1 DEF Documents
  <2>. QED
    BY <1>1, <2>2
<1>9. WithinBudget(Progress)' /\ Falling(Progress)'
  BY <1>1, <1>3 DEF Documents
<1>. QED
  BY <1>1, <1>4, <1>5, <1>6, <1>7, <1>8, <1>9 DEF Documents

\* A command that starts waiting, or a hook that has looked.
LEMMA WaitKeepsIInv ==
    ASSUME IInv, NEW p \in Process, Call(p) \/ Bootstrap(p) \/ PreCompact(p)
    PROVE  IInv'
<1>1. /\ op[p].step = "idle" /\ UNCHANGED <<lock, files, litter, mishaps, clock, reported>>
      /\ calls' \in Nat
  BY DEF Call, Bootstrap, PreCompact, Open, IInv, StateTypeOK, storage
<1>2. ~ HoldsLock(p) /\ lock # p
  BY <1>1 DEF IInv, LockInv, HoldsLock
<1>3. /\ op' \in [Process -> Operation] /\ \A q \in Process \ {p} : op'[q] = op[q]
      /\ op'[p] \in {Idle, [Idle EXCEPT !.step = "wait"]}
  <2>1. Idle \in Operation /\ [Idle EXCEPT !.step = "wait"] \in Operation
    BY DEF Idle, Operation, Replacement, Steps, Outcomes
  <2>2. op[p] = Idle
    BY <1>1 DEF IInv, Position, Idle
  <2>. QED
    BY <2>1, <2>2 DEF Call, Bootstrap, PreCompact, Open, IInv, StateTypeOK, storage
<1>4. /\ request' \in [Process -> Entry \cup {Rotation, Nothing}]
      /\ \A q \in Process \ {p} : request'[q] = request[q]
      /\ op'[p].step = "wait" => request'[p] \in Entry \cup {Rotation}
  <2>1. CASE PreCompact(p)
    <3>1. op'[p].step # "wait" /\ request' = request
      BY <1>1, <2>1 DEF PreCompact, storage
    <3>. QED
      BY <3>1 DEF IInv, StateTypeOK
  <2>2. CASE Call(p) \/ Bootstrap(p)
    <3>1. \E r \in Entry \cup {Rotation} : request' = [request EXCEPT ![p] = r]
      BY <2>2 DEF Call, Bootstrap, Entry
    <3>. QED
      BY <3>1 DEF IInv, StateTypeOK
  <2>. QED
    BY <2>1, <2>2
<1>5. hook' \subseteq Process
  BY DEF Call, Bootstrap, PreCompact, IInv, StateTypeOK
<1>6. StateTypeOK'
  BY <1>1, <1>3, <1>4, <1>5 DEF IInv, StateTypeOK
<1>7. Position(p)' /\ Decided(p)' /\ Written(p)' /\ ~ HoldsLock(p)'
  BY <1>3, <1>4 DEF Position, Decided, Written, HoldsLock, Idle
<1>8. Standing' = Standing
  <2>1. lock # Nothing => lock \in Process \ {p}
    BY <1>2 DEF IInv, StateTypeOK
  <2>2. lock # Nothing => Before(lock)' = Before(lock)
    BY <1>1, <1>3, <2>1 DEF Before, HalfSwapped, IsPair
  <2>. QED
    BY <1>1, <2>2 DEF Standing
<1>9. Documents'
  BY <1>1, <1>8, DocumentsStand
<1>. QED
  BY <1>1, <1>2, <1>3, <1>4, <1>6, <1>7, <1>9, Frame

\* A command that ends: it gave up, released the lock, or was killed.
LEMMA EndKeepsIInv ==
    ASSUME IInv, NEW p \in Process, Settle(p),
           op' = [op EXCEPT ![p] = Idle], UNCHANGED files,
           lock' = IF lock = p THEN Nothing ELSE lock,
           litter' \in SUBSET Temporary, mishaps' \in SUBSET Mishap, mishaps \subseteq mishaps',
           op[p].step \in {"swap", "rollback"} => "crash" \in mishaps',
           reported' = reported \/ Return(p)
    PROVE  IInv'
<1>1. Idle \in Operation /\ Idle.step = "idle" /\ Idle.outcome = "none"
  BY DEF Idle, Operation, Replacement, Steps, Outcomes
<1>2. /\ op'[p] = Idle /\ op' \in [Process -> Operation]
      /\ \A q \in Process \ {p} : op'[q] = op[q]
  BY <1>1 DEF IInv, StateTypeOK
<1>3. /\ request' \in [Process -> Entry \cup {Rotation, Nothing}]
      /\ \A q \in Process \ {p} : request'[q] = request[q]
      /\ hook' \subseteq Process
      /\ UNCHANGED <<clock, calls>>
  BY <1>1, <1>2 DEF Settle, IInv, StateTypeOK
<1>4. \/ reported' = reported
      \/ /\ op[p].step = "release" /\ op[p].outcome = "done" /\ request[p] # Rotation
         /\ reported' = reported \cup {request[p]}
  BY DEF Return
<1>5. reported' = reported \/ (/\ op[p].step = "release" /\ request[p] \in Live \cup Archived
                               /\ request[p] \in Entry /\ files["second"] # Nothing
                               /\ reported' = reported \cup {request[p]})
  <2>1. Written(p) /\ Position(p)
    BY DEF IInv
  <2>. QED
    BY <1>4, <2>1 DEF Written, Position
<1>6. StateTypeOK'
  <2>1. reported' \in SUBSET Entry
    BY <1>5 DEF IInv, StateTypeOK
  <2>. QED
    BY <1>2, <1>3, <2>1 DEF IInv, StateTypeOK
<1>7. Position(p)' /\ Decided(p)' /\ Written(p)' /\ ~ HoldsLock(p)'
  BY <1>1, <1>2 DEF Position, Decided, Written, HoldsLock, Idle
<1>8. \/ Standing' = Standing /\ (op[p].step = "release" => Standing' = Archive)
      \/ /\ Standing' = Archive /\ "crash" \in mishaps'
  <2>1. Archive = Text(files["first"])
    BY DEF Archive, Document, Text
  <2>2. CASE lock = p
    <3>1. Standing' = Archive
      BY <2>1, <2>2 DEF Standing
    <3>2. Standing = Text(Before(p))
      BY <2>2, ProcessAssumption DEF Standing
    <3>. QED
      BY <2>1, <3>1, <3>2 DEF Before
  <2>3. CASE lock # p
    <3>1. lock # Nothing => lock \in Process \ {p}
      BY <2>3 DEF IInv, StateTypeOK
    <3>2. lock # Nothing => Before(lock)' = Before(lock)
      BY <1>2, <3>1 DEF Before, HalfSwapped, IsPair
    <3>3. op[p].step # "release"
      BY <2>3 DEF IInv, LockInv, HoldsLock
    <3>. QED
      BY <2>3, <3>2, <3>3 DEF Standing
  <2>. QED
    BY <2>2, <2>3
<1>9. Documents'
  <2>1. reported' \subseteq reported \cup Live \cup (Archived \cap ToSet(Standing'))
    BY <1>5, <1>8 DEF Archived
  <2>. QED
    BY <1>3, <1>5, <1>8, <2>1, DocumentsStand
<1>. QED
  BY <1>2, <1>3, <1>6, <1>7, <1>9, Frame

LEMMA AcquireKeepsIInv ==
    ASSUME IInv, NEW p \in Process, Acquire(p), Settle(p), Return(p)
    PROVE  IInv'
<1> DEFINE o == [op[p] EXCEPT !.step = "locked"]
<1>1. /\ op[p] \in Operation /\ op[p] = [Idle EXCEPT !.step = "wait"]
      /\ request[p] \in Entry \cup {Rotation}
      /\ lock = Nothing /\ lock' = p /\ UNCHANGED <<files, litter, mishaps>>
  BY DEF Acquire, IInv, StateTypeOK, Position
<1>2. o \in Operation /\ o = [Idle EXCEPT !.step = "locked"]
  BY <1>1 DEF Operation, Steps, Idle
<1>3. /\ op' = [op EXCEPT ![p] = o] /\ op'[p] = o /\ op' \in [Process -> Operation]
      /\ \A q \in Process \ {p} : op'[q] = op[q]
  BY <1>2 DEF Acquire, IInv, StateTypeOK
<1>4. UNCHANGED <<request, hook, clock, calls, reported>>
  BY <1>1, <1>2, <1>3 DEF Settle, Return, Idle
<1>5. StateTypeOK'
  BY <1>1, <1>3, <1>4 DEF IInv, StateTypeOK
<1>6. Position(p)' /\ Decided(p)' /\ Written(p)' /\ HoldsLock(p)'
  BY <1>1, <1>2, <1>3, <1>4 DEF Position, Decided, Written, HoldsLock, Idle
<1>7. Standing' = Standing
  BY <1>1, <1>2, <1>3, ProcessAssumption DEF Standing, Before, Idle
<1>8. Documents'
  BY <1>1, <1>4, <1>7, DocumentsStand
<1>. QED
  BY <1>1, <1>3, <1>4, <1>5, <1>6, <1>8, Frame

LEMMA LockStepKeepsIInv ==
    ASSUME IInv, NEW p \in Process, LockStep(p), Settle(p), Return(p)
    PROVE  IInv'
<1>1. CASE Acquire(p)
  BY <1>1, AcquireKeepsIInv
<1>2. CASE GiveUp(p)
  <2>1. lock # p /\ op[p].step = "wait"
    BY <1>2 DEF GiveUp, IInv, LockInv, HoldsLock
  <2>. QED
    BY <1>2, <2>1, EndKeepsIInv DEF GiveUp, IInv, StateTypeOK
<1>3. CASE Release(p)
  <2>1. lock = p /\ op[p].step = "release"
    BY <1>3 DEF Release, IInv, LockInv, HoldsLock
  <2>. QED
    BY <1>3, <2>1, EndKeepsIInv DEF Release, IInv, StateTypeOK
<1>. QED
  BY <1>1, <1>2, <1>3 DEF LockStep

LEMMA CrashKeepsIInv ==
    ASSUME IInv, NEW p \in Process, Crash(p), Settle(p), UNCHANGED reported
    PROVE  IInv'
<1>1. op[p] \in Operation
  BY DEF IInv, StateTypeOK
<1>2. litter' \in SUBSET Temporary /\ mishaps' \in SUBSET Mishap /\ mishaps \subseteq mishaps'
      /\ "crash" \in mishaps'
  BY <1>1 DEF Crash, Happens, IInv, StateTypeOK, Operation, Mishap
<1>. QED
  BY <1>2, EndKeepsIInv DEF Crash

\* Settle ends nothing while the command goes on, and Return reports nothing.
LEMMA SettleKeepsAll ==
    ASSUME IInv, NEW p \in Process, Settle(p), Return(p) \/ UNCHANGED reported,
           op'[p].step # "idle", op[p].step # "release"
    PROVE  UNCHANGED <<request, hook, clock, calls, reported>>
BY DEF Settle, Return

\* A step of the command that holds the lock.
LEMMA WorkKeepsIInv ==
    ASSUME IInv, NEW p \in Process, NEW o \in Operation, HoldsLock(p),
           op' = [op EXCEPT ![p] = o], o.step \notin {"idle", "wait"},
           UNCHANGED <<lock, request, hook, calls, reported, clock>>,
           litter' \in SUBSET Temporary, mishaps' \in SUBSET Mishap,
           files' \in [first : Seq(Aged) \cup {Nothing}, second : Seq(Entry) \cup {Nothing}],
           Position(p)', Decided(p)', Written(p)', Documents'
    PROVE  IInv'
<1>1. op' \in [Process -> Operation] /\ op'[p] = o /\ \A q \in Process \ {p} : op'[q] = op[q]
  BY DEF IInv, StateTypeOK
<1>2. StateTypeOK'
  BY <1>1 DEF IInv, StateTypeOK
<1>3. HoldsLock(p)' /\ lock = p /\ lock' = p
  BY <1>1, StandingOfHolder DEF HoldsLock
<1>. QED
  BY <1>1, <1>2, <1>3, Frame

\* A step that touches no document and leaves what is decided as it is: the
\* next temporary, the backup, or the way into a rollback.
LEMMA PrepareKeepsIInv ==
    ASSUME IInv, NEW p \in Process, NEW o \in Operation, HoldsLock(p),
           op[p].step \in {"stage", "backup", "swap"},
           op' = [op EXCEPT ![p] = o], o.step \in {"stage", "backup", "swap", "rollback"},
           o.new = op[p].new, o.outcome # "done",
           UNCHANGED <<lock, files, litter, mishaps, request, hook, clock, calls, reported>>,
           Position(p)', Before(p)' = Before(p)
    PROVE  IInv'
<1>1. op'[p] = o /\ Decided(p) /\ lock = p
  BY StandingOfHolder DEF IInv, StateTypeOK
<1>2. Live' = Live /\ Progress' = Progress
  BY DEF Live, Progress, Document
<1>3. Decided(p)'
  BY <1>1, <1>2 DEF Decided, IsPair
<1>4. Written(p)'
  BY <1>1 DEF Written
<1>5. Standing' = Standing
  BY <1>1, ProcessAssumption DEF Standing
<1>6. Documents'
  BY <1>5, DocumentsStand
<1>. QED
  BY <1>3, <1>4, <1>6, WorkKeepsIInv DEF IInv, StateTypeOK

\* A command that has only its finally clauses and its lock left.
LEMMA CleanupKeepsIInv ==
    ASSUME IInv, NEW p \in Process, NEW o \in Operation, HoldsLock(p),
           op' = [op EXCEPT ![p] = o], o.step \in {"clean", "release"},
           UNCHANGED <<lock, files, request, hook, clock, calls, reported>>,
           litter' \in SUBSET Temporary, mishaps' \in SUBSET Mishap, mishaps \subseteq mishaps',
           \/ Before(p) = files["first"]
           \/ mishaps' \cap {"crash", "interrupt", "rollback"} # {},
           Written(p)'
    PROVE  IInv'
<1>1. op'[p] = o /\ request[p] \in Entry \cup {Rotation} /\ lock = p
  BY StandingOfHolder DEF IInv, StateTypeOK, Position, HoldsLock
<1>2. Position(p)' /\ Decided(p)'
  BY <1>1 DEF Position, Decided
<1>3. Standing = Text(Before(p)) /\ Standing' = Archive
  BY <1>1, ProcessAssumption, StandingOfHolder DEF Standing, Before, Archive, Document, Text
<1>4. Standing' = Standing \/ mishaps' \cap {"crash", "interrupt", "rollback"} # {}
  BY <1>3 DEF Archive, Document, Text
<1>5. Documents'
  BY <1>3, <1>4, DocumentsStand
<1>. QED
  BY <1>2, <1>5, WorkKeepsIInv DEF IInv, StateTypeOK

\* An OSError before anything is replaced, or Ctrl-C anywhere.
LEMMA FailureKeepsIInv ==
    ASSUME IInv, NEW p \in Process, Settle(p), Return(p) \/ UNCHANGED reported,
           StageFails(p) \/ LookFails(p) \/ RollbackFails(p) \/ Interrupt(p)
    PROVE  IInv'
<1> DEFINE o == op'[p]
<1>1. op[p] \in Operation /\ HoldsLock(p) /\ op[p].step \in {"stage", "backup", "swap", "rollback"}
      /\ op[p].outcome # "done"
  BY DEF StageFails, LookFails, RollbackFails, Interrupt, HoldsLock, IInv, StateTypeOK, Written
<1>2. /\ o \in Operation /\ op' = [op EXCEPT ![p] = o]
      /\ o.step \in {"clean", "release"} /\ o.outcome # "done"
  BY <1>1 DEF StageFails, LookFails, RollbackFails, Interrupt, IInv, StateTypeOK, Operation,
              Steps, Outcomes
<1>3. litter' \in SUBSET Temporary /\ mishaps' \in SUBSET Mishap /\ mishaps \subseteq mishaps'
  BY DEF StageFails, LookFails, RollbackFails, Interrupt, Happens, IInv, StateTypeOK, Mishap,
         Temporary, File
<1>4. \/ Before(p) = files["first"]
      \/ mishaps' \cap {"crash", "interrupt", "rollback"} # {}
  BY DEF StageFails, LookFails, RollbackFails, Interrupt, Happens, Before
<1>5. UNCHANGED <<request, hook, clock, calls, reported>>
  BY <1>1, <1>2, SettleKeepsAll
<1>6. UNCHANGED <<lock, files>>
  BY DEF StageFails, LookFails, RollbackFails, Interrupt
<1>7. Written(p)'
  BY <1>2 DEF Written
<1>. QED
  BY <1>1, <1>2, <1>3, <1>4, <1>5, <1>6, <1>7, CleanupKeepsIInv

LEMMA CleanKeepsIInv ==
    ASSUME IInv, NEW p \in Process, Clean(p) \/ CleanFails(p), Settle(p), Return(p)
    PROVE  IInv'
<1> DEFINE o == op'[p]
<1>1. op[p] \in Operation /\ HoldsLock(p) /\ op[p].step = "clean" /\ Written(p)
  BY DEF Clean, CleanFails, HoldsLock, IInv, StateTypeOK
<1>2. /\ o \in Operation /\ op' = [op EXCEPT ![p] = o]
      /\ o.step = "release" /\ o.outcome \in {op[p].outcome, "error"}
  BY <1>1 DEF Clean, CleanFails, IInv, StateTypeOK, Operation, Steps, Outcomes
<1>3. litter' \in SUBSET Temporary /\ mishaps' \in SUBSET Mishap /\ mishaps \subseteq mishaps'
  <2>1. op[p].staged \in SUBSET Temporary
    BY <1>1 DEF Operation
  <2>. QED
    BY <2>1 DEF Clean, CleanFails, Happens, IInv, StateTypeOK, Mishap
<1>4. UNCHANGED <<request, hook, clock, calls, reported>>
  BY <1>1, <1>2, SettleKeepsAll
<1>5. UNCHANGED <<lock, files>>
  BY DEF Clean, CleanFails
<1>6. Written(p)'
  BY <1>1, <1>2, <1>4, <1>5 DEF Written, Live, Archived, Progress, Archive, Document
<1>7. Before(p) = files["first"]
  BY <1>1 DEF Before
<1>. QED
  BY <1>1, <1>2, <1>3, <1>4, <1>5, <1>6, <1>7, CleanupKeepsIInv

\* The command decides, on the documents that are there, what will replace them.
LEMMA PersistKeepsIInv ==
    ASSUME IInv, NEW p \in Process, Acquired(p), NEW entries \in Seq(Entry), Persist(p, entries),
           NEW r \in Entry \cup {Rotation}, request' = [request EXCEPT ![p] = r],
           clock' \in Nat, UNCHANGED <<calls, reported, hook>>,
           Live \subseteq ToSet(entries), r # Rotation => r \in ToSet(entries),
           Falling(entries), AgesUpTo(entries, clock'),
           AgesUpTo(Archive, clock'), AgesUpTo(Progress, clock'),
           Recent(Archive, Progress) => Recent(Archive, entries)
    PROVE  IInv'
<1> DEFINE stays == Partition(entries).retained
           goes == Partition(entries).evicted
           filed == Filed(Archive, entries)
           new == IF goes = <<>> THEN [second |-> stays] ELSE [first |-> filed, second |-> stays]
           o == [op[p] EXCEPT !.step = "stage", !.new = new]
<1>1. /\ op[p] \in Operation /\ op[p] = [Idle EXCEPT !.step = "locked"] /\ HoldsLock(p)
      /\ Archive \in Seq(Aged) /\ Progress \in Seq(Entry)
      /\ lock = p /\ Standing = Archive /\ Before(p) = files["first"]
  <2>1. op[p].step = "locked" /\ HoldsLock(p)
    BY DEF Acquired, HoldsLock
  <2>2. op[p] \in Operation /\ op[p] = [Idle EXCEPT !.step = "locked"]
    BY <2>1 DEF IInv, StateTypeOK, Position
  <2>3. Before(p) = files["first"]
    BY <2>1 DEF Before
  <2>. QED
    BY <2>1, <2>2, <2>3, TextTypes, StandingOfHolder DEF IInv
<1>2. /\ stays \in Seq(Entry) /\ filed \in Seq(Aged)
      /\ ToSet(Archive) \subseteq ToSet(filed)
      /\ ToSet(entries) \subseteq ToSet(stays) \cup ToSet(filed)
      /\ \A e \in ToSet(entries) : e.pinned => e \in ToSet(stays)
      /\ WithinBudget(stays)
      /\ Falling(stays) /\ AgesUpTo(stays, clock') /\ AgesUpTo(filed, clock')
      /\ Recent(Archive, entries) => Recent(filed, stays)
  BY <1>1, PersistEffect
<1>3. goes = <<>> => filed = Archive
  BY DEF Filed
<1>4. Submit(p, new)
  BY DEF Persist, Filed
<1> HIDE DEF stays, goes, filed
<1>5. /\ new \in Replacement /\ "second" \in DOMAIN new /\ new["second"] = stays
      /\ DOMAIN new = File => new["first"] = filed
      /\ DOMAIN new # File => filed = Archive
  <2>1. CASE goes = <<>>
    BY <1>2, <1>3, <2>1 DEF Replacement, File
  <2>2. CASE goes # <<>>
    BY <1>2, <2>2 DEF Replacement, File
  <2>. QED
    BY <2>1, <2>2
<1> HIDE DEF new
<1>6. /\ o \in Operation /\ o.step = "stage" /\ o.new = new
      /\ o.staged = {} /\ o.outcome = "none"
  BY <1>1, <1>5 DEF Operation, Steps, Idle
<1>7. /\ op' = [op EXCEPT ![p] = o] /\ op'[p] = o /\ op' \in [Process -> Operation]
      /\ UNCHANGED <<lock, files, litter, mishaps>>
      /\ \A q \in Process \ {p} : op'[q] = op[q] /\ request'[q] = request[q]
      /\ request'[p] = r /\ request' \in [Process -> Entry \cup {Rotation, Nothing}]
  BY <1>4, <1>6 DEF Submit, IInv, StateTypeOK
<1> HIDE DEF o
<1>8. StateTypeOK'
  BY <1>7 DEF IInv, StateTypeOK
<1>9. /\ Before(p)' = files["first"] /\ Live' = Live /\ Archived' = Archived
      /\ Progress' = Progress /\ Archive' = Archive
      /\ Standing' = Archive
  <2>1. Before(p)' = files["first"]
    BY <1>6, <1>7 DEF Before
  <2>2. Live' = Live /\ Archived' = Archived /\ Progress' = Progress /\ Archive' = Archive
    BY <1>7 DEF Live, Archived, Progress, Archive, Document
  <2>3. Standing' = Text(files["first"])
    BY <1>1, <1>7, <2>1, ProcessAssumption DEF Standing
  <2>. QED
    BY <2>1, <2>2, <2>3, TextTypes DEF IInv
<1>10. Position(p)' /\ Written(p)' /\ HoldsLock(p)'
  BY <1>5, <1>6, <1>7 DEF Position, Written, HoldsLock
<1>11. Decided(p)'
  <2>1. Text(Before(p)') = Archive
    BY <1>9, TextTypes DEF IInv
  <2>2. (IsPair(p)' => op'[p].new["first"] = filed) /\ (~ IsPair(p)' => filed = Archive)
    BY <1>5, <1>6, <1>7 DEF IsPair
  <2>3. op'[p].new["second"] = stays
    BY <1>5, <1>6, <1>7
  <2>4. \A e \in Live' : e.pinned => e \in ToSet(stays)
    BY <1>2, <1>9
  <2>5. request'[p] # Rotation => request'[p] \in ToSet(stays) \cup ToSet(filed)
    BY <1>2, <1>7
  <2>. QED
    BY <1>2, <1>9, <2>1, <2>2, <2>3, <2>4, <2>5 DEF Decided
<1>12. Documents'
  <2>1. Documents
    BY DEF IInv
  <2>2. files'["second"] = Nothing => reported' = {}
    BY <1>7, <2>1 DEF Documents
  <2>3. mishaps' \cap {"crash", "interrupt", "rollback"} = {} => Recent(Standing', Progress')
    <3>1. mishaps \cap {"crash", "interrupt", "rollback"} = {} => Recent(Archive, Progress)
      BY <1>1, <2>1 DEF Documents
    <3>. QED
      BY <1>7, <1>9, <3>1
  <2>4. reported' \subseteq Live' \cup Archived' /\ reported' \subseteq Live' \cup ToSet(Standing')
    BY <1>1, <1>9, <2>1 DEF Documents
  <2>5. WithinBudget(Progress') /\ Falling(Progress')
    BY <1>9, <2>1 DEF Documents
  <2>. QED
    BY <1>9, <2>2, <2>3, <2>4, <2>5 DEF Documents
<1>. QED
  BY <1>1, <1>7, <1>8, <1>10, <1>11, <1>12, Frame

LEMMA WriteEntryKeepsIInv ==
    ASSUME IInv, NEW p \in Process, WriteEntry(p)
    PROVE  IInv'
<1> DEFINE entry == [request[p] EXCEPT !.n = clock + 1]
           entries == <<entry>> \o Progress
<1>1. /\ Acquired(p) /\ request[p] \in Entry /\ clock \in Nat
      /\ Archive \in Seq(Aged) /\ Progress \in Seq(Entry)
  <2>1. request[p] \in Entry \cup {Rotation} /\ request[p] # Rotation
    BY DEF WriteEntry, Acquired, IInv, Position
  <2>. QED
    BY <2>1, TextTypes DEF WriteEntry, IInv, StateTypeOK
<1>2. entry \in Entry /\ entry.n = clock + 1
  <2>1. clock + 1 \in Nat /\ request[p] \in Entry
    BY <1>1
  <2>. QED
    BY <2>1 DEF Entry
<1>3. Falling(Progress) /\ AgesUpTo(Progress, clock) /\ AgesUpTo(Archive, clock)
  BY DEF IInv, Documents
<1> HIDE DEF entry
<1>4. /\ entries \in Seq(Entry)
      /\ ToSet(entries) = ToSet(Progress) \cup {entry}
      /\ Falling(entries) /\ AgesUpTo(entries, clock + 1) /\ AgesUpTo(Archive, clock + 1)
      /\ Recent(Archive, Progress) => Recent(Archive, entries)
  BY <1>1, <1>2, <1>3, PrependEffect
<1>5. /\ clock' = clock + 1 /\ clock' \in Nat /\ request' = [request EXCEPT ![p] = entry]
      /\ UNCHANGED <<calls, reported, hook>> /\ Persist(p, entries)
  BY <1>1 DEF WriteEntry, entry
<1>6. AgesUpTo(Progress, clock')
  <2>1. ASSUME NEW i \in DOMAIN Progress PROVE Progress[i].n <= clock + 1
    <3>1. Progress[i] \in Entry /\ Progress[i].n <= clock
      BY <1>1, <1>3 DEF AgesUpTo
    <3>2. Progress[i].n \in Nat
      BY <3>1 DEF Entry
    <3>. QED
      BY <1>1, <3>1, <3>2
  <2>. QED
    BY <1>5, <2>1 DEF AgesUpTo
<1> HIDE DEF entries
<1>7. Live \subseteq ToSet(entries) /\ entry \in ToSet(entries)
  BY <1>4 DEF Live
<1>. QED
  BY <1>1, <1>2, <1>4, <1>5, <1>6, <1>7, PersistKeepsIInv

LEMMA RotateKeepsIInv ==
    ASSUME IInv, NEW p \in Process, Rotate(p)
    PROVE  IInv'
<1>1. /\ Acquired(p) /\ request' = [request EXCEPT ![p] = Rotation]
      /\ clock' \in Nat /\ UNCHANGED <<clock, calls, reported, hook>>
      /\ Persist(p, Progress) /\ Progress \in Seq(Entry)
  BY TextTypes DEF Rotate, IInv, StateTypeOK
<1>2. /\ Falling(Progress) /\ AgesUpTo(Progress, clock') /\ AgesUpTo(Archive, clock')
  BY <1>1 DEF IInv, Documents
<1>. QED
  BY <1>1, <1>2, PersistKeepsIInv DEF Live

----------------------------------------------------------------------------
(* The replacement.                                                        *)

LEMMA StageKeepsIInv ==
    ASSUME IInv, NEW p \in Process, Stage(p), Settle(p), Return(p)
    PROVE  IInv'
<1> DEFINE o == op'[p]
           todo == DOMAIN op[p].new \ op[p].staged
<1>1. /\ op[p] \in Operation /\ HoldsLock(p) /\ op[p].step = "stage"
      /\ "second" \in DOMAIN op[p].new /\ op[p].outcome # "done"
      /\ op[p].staged = {} \/ (IsPair(p) /\ op[p].staged = {"first"})
      /\ request[p] \in Entry \cup {Rotation}
  BY DEF Stage, HoldsLock, IInv, StateTypeOK, Position, Written
<1>2. DOMAIN op[p].new \in {{"second"}, File}
  <2>1. op[p].new \in Replacement
    BY <1>1 DEF Operation
  <2>. QED
    BY <1>1, <2>1 DEF Replacement, File
<1>3. /\ o \in Operation /\ op' = [op EXCEPT ![p] = o]
      /\ o.new = op[p].new /\ o.outcome = op[p].outcome
      /\ \/ o.step = "stage" /\ IsPair(p) /\ o.staged = {"first"}
         \/ o.step = "backup" /\ IsPair(p) /\ o.staged = File
         \/ o.step = "swap" /\ ~ IsPair(p) /\ o.staged = {"second"}
  <2>1. /\ op' = [op EXCEPT ![p].staged = @ \cup {InOrder(todo)},
                            ![p].step = IF todo # {InOrder(todo)} THEN "stage"
                                        ELSE IF IsPair(p) THEN "backup" ELSE "swap"]
    BY DEF Stage
  <2>2. \/ IsPair(p) /\ op[p].staged = {} /\ todo = File /\ InOrder(todo) = "first"
        \/ IsPair(p) /\ op[p].staged = {"first"} /\ todo = {"second"} /\ InOrder(todo) = "second"
        \/ ~ IsPair(p) /\ op[p].staged = {} /\ todo = {"second"} /\ InOrder(todo) = "second"
    BY <1>1, <1>2 DEF IsPair, File, InOrder
  <2> HIDE DEF todo
  <2>. QED
    BY <1>1, <2>1, <2>2 DEF IInv, StateTypeOK, Operation, Steps, File, Temporary
<1>4. UNCHANGED <<request, hook, clock, calls, reported>>
  BY <1>1, <1>3, SettleKeepsAll
<1>5. UNCHANGED <<lock, files, litter, mishaps>>
  BY DEF Stage
<1>6. Position(p)'
  BY <1>1, <1>3, <1>4 DEF Position, IsPair
<1>7. Before(p)' = Before(p)
  <2>1. Before(p) = files["first"]
    BY <1>1 DEF Before
  <2>2. o.step \in {"swap", "rollback"} => o.staged \cap File = {"second"} /\ ~ IsPair(p)'
    BY <1>3 DEF IsPair, File
  <2>. QED
    BY <1>5, <2>1, <2>2 DEF Before, HalfSwapped
<1>. QED
  BY <1>1, <1>3, <1>4, <1>5, <1>6, <1>7, PrepareKeepsIInv

LEMMA BackupKeepsIInv ==
    ASSUME IInv, NEW p \in Process, Backup(p), Settle(p), Return(p)
    PROVE  IInv'
<1> DEFINE o == op'[p]
<1>1. /\ op[p] \in Operation /\ HoldsLock(p) /\ op[p].step = "backup"
      /\ "second" \in DOMAIN op[p].new /\ op[p].outcome # "done"
      /\ IsPair(p) /\ op[p].staged = File
      /\ request[p] \in Entry \cup {Rotation}
      /\ files["first"] \in Seq(Aged) \cup {Nothing}
  BY DEF Backup, HoldsLock, IInv, StateTypeOK, Position, Written
<1>2. /\ o \in Operation /\ op' = [op EXCEPT ![p] = o]
      /\ o.new = op[p].new /\ o.outcome = op[p].outcome
      /\ o.step = "swap" /\ o.staged \cap File = File /\ o.saved = files["first"]
  BY <1>1 DEF Backup, IInv, StateTypeOK, Operation, Steps, File, Temporary
<1>3. UNCHANGED <<request, hook, clock, calls, reported>>
  BY <1>1, <1>2, SettleKeepsAll
<1>4. UNCHANGED <<lock, files, litter, mishaps>>
  BY DEF Backup
<1>5. Position(p)'
  BY <1>1, <1>2, <1>3, <1>4 DEF Position, IsPair
<1>6. Before(p)' = Before(p)
  <2>1. ~ HalfSwapped(p)'
    BY <1>2 DEF HalfSwapped, File
  <2>. QED
    BY <1>1, <1>4, <2>1 DEF Before
<1>. QED
  BY <1>1, <1>2, <1>3, <1>4, <1>5, <1>6, PrepareKeepsIInv

LEMMA SwapFailsKeepsIInv ==
    ASSUME IInv, NEW p \in Process, SwapFails(p), Settle(p), Return(p)
    PROVE  IInv'
<1> DEFINE o == op'[p]
<1>1. /\ op[p] \in Operation /\ HoldsLock(p) /\ op[p].step = "swap" /\ Position(p)
  BY DEF SwapFails, HoldsLock, IInv, StateTypeOK
<1>2. /\ o \in Operation /\ op' = [op EXCEPT ![p] = o]
      /\ o.new = op[p].new /\ o.outcome = "error"
      /\ o.staged = op[p].staged /\ o.saved = op[p].saved
      /\ o.step = IF HalfSwapped(p) THEN "rollback" ELSE "clean"
  BY <1>1 DEF SwapFails, IInv, StateTypeOK, Operation, Steps, Outcomes
<1>3. UNCHANGED <<request, hook, clock, calls, reported>>
  BY <1>1, <1>2, SettleKeepsAll
<1>4. UNCHANGED <<lock, files, litter, mishaps>>
  BY DEF SwapFails
<1>5. CASE HalfSwapped(p)
  <2>1. Halfway(p)
    BY <1>1, <1>5 DEF Position, HalfSwapped, Halfway, File
  <2>2. Halfway(p)' /\ HalfSwapped(p)'
    BY <1>2, <1>4, <1>5, <2>1 DEF Halfway, HalfSwapped, IsPair
  <2>3. Position(p)' /\ Before(p)' = Before(p)
    BY <1>1, <1>2, <1>3, <1>4, <1>5, <2>2 DEF Position, Before
  <2>. QED
    BY <1>1, <1>2, <1>3, <1>4, <1>5, <2>3, PrepareKeepsIInv
<1>6. CASE ~ HalfSwapped(p)
  <2>1. Before(p) = files["first"] /\ Written(p)'
    BY <1>2, <1>6 DEF Before, Written
  <2>. QED
    BY <1>1, <1>2, <1>3, <1>4, <1>6, <2>1, CleanupKeepsIInv DEF IInv, StateTypeOK
<1>. QED
  BY <1>5, <1>6

\* What the replacements take from the decision and from the documents.
LEMMA Replacing ==
    ASSUME IInv, NEW p \in Process, op[p].step \in {"swap", "rollback"}
    PROVE  LET old     == Text(Before(p))
               entries == op[p].new["second"]
               archive == IF IsPair(p) THEN op[p].new["first"] ELSE old
           IN  /\ op[p] \in Operation /\ HoldsLock(p) /\ Standing = old
               /\ request[p] \in Entry \cup {Rotation}
               /\ old \in Seq(Aged) /\ Text(old) = old
               /\ Before(p) \in Seq(Aged) \cup {Nothing}
               /\ entries \in Seq(Entry) /\ Text(entries) = entries /\ entries # Nothing
               /\ archive \in Seq(Aged) /\ Text(archive) = archive
               /\ ToSet(old) \subseteq ToSet(archive)
               /\ Live \subseteq ToSet(entries) \cup ToSet(archive)
               /\ \A e \in Live : e.pinned => e \in ToSet(entries)
               /\ request[p] # Rotation => request[p] \in ToSet(entries) \cup ToSet(archive)
               /\ WithinBudget(entries)
               /\ Falling(entries) /\ AgesUpTo(entries, clock) /\ AgesUpTo(archive, clock)
               /\ mishaps \cap {"crash", "interrupt", "rollback"} = {} => Recent(archive, entries)
<1> DEFINE old == Text(Before(p))
           entries == op[p].new["second"]
           archive == IF IsPair(p) THEN op[p].new["first"] ELSE old
<1>1. /\ op[p] \in Operation /\ HoldsLock(p) /\ Decided(p) /\ Position(p) /\ Documents
      /\ files["first"] \in Seq(Aged) \cup {Nothing}
      /\ request[p] \in Entry \cup {Rotation}
  BY DEF IInv, StateTypeOK, HoldsLock, Position
<1>2. Standing = old
  BY <1>1, StandingOfHolder
<1>3. Before(p) \in Seq(Aged) \cup {Nothing}
  BY <1>1 DEF Before, Operation
<1>4. old \in Seq(Aged)
  BY <1>3, TextTypes DEF IInv
<1>5. entries \in Seq(Entry) /\ (IsPair(p) => op[p].new["first"] \in Seq(Aged))
  <2>1. op[p].new \in Replacement /\ "second" \in DOMAIN op[p].new
    BY <1>1 DEF Operation, Position
  <2>. QED
    BY <2>1 DEF Replacement, IsPair, File
<1>6. archive \in Seq(Aged)
  BY <1>4, <1>5
<1>7. /\ ToSet(old) \subseteq ToSet(archive)
      /\ Live \subseteq ToSet(entries) \cup ToSet(archive)
      /\ \A e \in Live : e.pinned => e \in ToSet(entries)
      /\ request[p] # Rotation => request[p] \in ToSet(entries) \cup ToSet(archive)
      /\ WithinBudget(entries)
      /\ Falling(entries) /\ AgesUpTo(entries, clock) /\ AgesUpTo(archive, clock)
      /\ Recent(old, Progress) => Recent(archive, entries)
  BY <1>1 DEF Decided
<1>8. mishaps \cap {"crash", "interrupt", "rollback"} = {} => Recent(archive, entries)
  <2>1. mishaps \cap {"crash", "interrupt", "rollback"} = {} => Recent(old, Progress)
    BY <1>1, <1>2 DEF Documents
  <2>. QED
    BY <1>7, <2>1
<1> HIDE DEF old, entries, archive
<1>9. Text(old) = old /\ Text(entries) = entries /\ entries # Nothing /\ Text(archive) = archive
  BY <1>4, <1>5, <1>6, TextOfEntries
<1>. QED
  BY <1>1, <1>2, <1>3, <1>4, <1>5, <1>6, <1>7, <1>8, <1>9 DEF old, entries, archive

\* The second document is replaced, last or alone: the command is done.
LEMMA LastSwapKeepsIInv ==
    ASSUME IInv, NEW p \in Process, Swap(p), Settle(p), Return(p),
           (~ IsPair(p) /\ op[p].staged = {"second"}) \/ Halfway(p)
    PROVE  IInv'
<1> DEFINE o == op'[p]
           old     == Text(Before(p))
           entries == op[p].new["second"]
           archive == IF IsPair(p) THEN op[p].new["first"] ELSE old
<1>1. op[p].step = "swap"
  BY DEF Swap
<1>2. /\ op[p] \in Operation /\ HoldsLock(p) /\ Standing = old
      /\ request[p] \in Entry \cup {Rotation}
      /\ old \in Seq(Aged)
      /\ entries \in Seq(Entry) /\ Text(entries) = entries /\ entries # Nothing
      /\ archive \in Seq(Aged) /\ Text(archive) = archive
      /\ ToSet(old) \subseteq ToSet(archive)
      /\ Live \subseteq ToSet(entries) \cup ToSet(archive)
      /\ request[p] # Rotation => request[p] \in ToSet(entries) \cup ToSet(archive)
      /\ WithinBudget(entries)
      /\ Falling(entries) /\ AgesUpTo(entries, clock) /\ AgesUpTo(archive, clock)
      /\ mishaps \cap {"crash", "interrupt", "rollback"} = {} => Recent(archive, entries)
  BY <1>1, Replacing
<1>3. Archive = archive
  <2>1. CASE Halfway(p)
    BY <1>2, <2>1, TextTypes DEF Halfway, IInv
  <2>2. CASE ~ IsPair(p)
    <3>1. Before(p) = files["first"]
      BY <2>2 DEF Before, HalfSwapped
    <3>. QED
      BY <2>2, <3>1, TextTypes DEF IInv
  <2>. QED
    BY <2>1, <2>2
<1>4. op[p].staged \cap File = {"second"} /\ InOrder({"second"}) = "second"
  BY DEF Halfway, File, InOrder
<1>5. /\ op' = [op EXCEPT ![p].staged = @ \ {"second"}, ![p].step = "clean", ![p].outcome = "done"]
      /\ files' = [files EXCEPT !["second"] = entries]
      /\ UNCHANGED <<lock, litter, mishaps>>
  BY <1>4 DEF Swap
<1>6. /\ o \in Operation /\ op' = [op EXCEPT ![p] = o] /\ o.step = "clean" /\ o.outcome = "done"
  BY <1>2, <1>5 DEF IInv, StateTypeOK, Operation, Steps, Outcomes
<1>7. UNCHANGED <<request, hook, clock, calls, reported>>
  BY <1>1, <1>6, SettleKeepsAll
<1> HIDE DEF entries, archive, old
<1>8. /\ files' \in [first : Seq(Aged) \cup {Nothing}, second : Seq(Entry) \cup {Nothing}]
      /\ files'["second"] = entries /\ files'["first"] = files["first"]
  BY <1>2, <1>5 DEF IInv, StateTypeOK
<1>9. Progress' = entries /\ Archive' = archive /\ Live' = ToSet(entries) /\ Archived' = ToSet(archive)
  BY <1>2, <1>3, <1>8 DEF Progress, Archive, Document, Live, Archived
<1>10. Standing' = archive
  <2>1. lock' = p
    BY <1>2, <1>5, StandingOfHolder
  <2>2. Before(p)' = files["first"]
    BY <1>6, <1>8 DEF Before
  <2>3. Archive = Text(files["first"])
    BY TextTypes DEF IInv
  <2>. QED
    BY <1>3, <2>1, <2>2, <2>3, ProcessAssumption DEF Standing
<1>11. Position(p)' /\ Decided(p)'
  BY <1>2, <1>6, <1>7 DEF Position, Decided
<1>12. Written(p)'
  BY <1>2, <1>6, <1>7, <1>8, <1>9 DEF Written
<1>13. Documents'
  <2>1. reported \subseteq Live \cup ToSet(old)
    BY <1>2 DEF IInv, Documents
  <2>2. reported' \subseteq Live' \cup Archived' /\ reported' \subseteq Live' \cup ToSet(Standing')
    BY <1>2, <1>7, <1>9, <1>10, <2>1
  <2>3. mishaps' \cap {"crash", "interrupt", "rollback"} = {} => Recent(Standing', Progress')
    BY <1>2, <1>5, <1>9, <1>10
  <2>4. files'["second"] # Nothing
    BY <1>2, <1>8
  <2>5. AgesUpTo(Progress, clock)' /\ AgesUpTo(Archive, clock)' /\ AgesUpTo(Standing, clock)'
    BY <1>2, <1>7, <1>9, <1>10
  <2>. QED
    BY <1>2, <1>9, <2>2, <2>3, <2>4, <2>5 DEF Documents
<1>. QED
  BY <1>2, <1>5, <1>6, <1>7, <1>8, <1>11, <1>12, <1>13, WorkKeepsIInv DEF IInv, StateTypeOK

\* The archive is replaced first, and the backup is what it was.
LEMMA FirstSwapKeepsIInv ==
    ASSUME IInv, NEW p \in Process, Swap(p), Settle(p), Return(p),
           IsPair(p), op[p].staged \cap File = File, op[p].saved = files["first"]
    PROVE  IInv'
<1> DEFINE o == op'[p]
           old     == Text(Before(p))
           entries == op[p].new["second"]
           archive == op[p].new["first"]
<1>1. op[p].step = "swap" /\ op[p].outcome # "done"
  BY DEF Swap, IInv, Written
<1>2. /\ op[p] \in Operation /\ HoldsLock(p) /\ Standing = old
      /\ request[p] \in Entry \cup {Rotation}
      /\ archive \in Seq(Aged) /\ Text(archive) = archive
      /\ ToSet(old) \subseteq ToSet(archive)
      /\ AgesUpTo(archive, clock)
  BY <1>1, Replacing
<1>3. InOrder(File) = "first" /\ File # {"first"}
  BY DEF File, InOrder
<1>4. /\ op' = [op EXCEPT ![p].staged = @ \ {"first"}]
      /\ files' = [files EXCEPT !["first"] = archive]
      /\ UNCHANGED <<lock, litter, mishaps>>
  BY <1>3 DEF Swap
<1>5. /\ o \in Operation /\ op' = [op EXCEPT ![p] = o] /\ o.step = "swap"
      /\ o.new = op[p].new /\ o.saved = files["first"] /\ o.outcome = op[p].outcome
      /\ o.staged \cap File = {"second"}
  BY <1>1, <1>2, <1>4 DEF IInv, StateTypeOK, Operation, File
<1>6. UNCHANGED <<request, hook, clock, calls, reported>>
  BY <1>1, <1>5, SettleKeepsAll
<1>7. /\ files' \in [first : Seq(Aged) \cup {Nothing}, second : Seq(Entry) \cup {Nothing}]
      /\ files'["second"] = files["second"] /\ files'["first"] = archive
  BY <1>2, <1>4 DEF IInv, StateTypeOK
<1>8. Halfway(p)' /\ HalfSwapped(p)' /\ IsPair(p)'
  BY <1>5, <1>7 DEF Halfway, HalfSwapped, IsPair
<1>9. Before(p) = files["first"] /\ Before(p)' = files["first"]
  <2>1. ~ HalfSwapped(p)
    BY DEF HalfSwapped, File
  <2>. QED
    BY <1>5, <1>8, <2>1 DEF Before
<1>10. Progress' = Progress /\ Live' = Live /\ Archive' = archive
  BY <1>2, <1>7 DEF Progress, Archive, Live, Document, Text
<1>11. Standing' = old
  <2>1. lock' = p
    BY <1>2, <1>4, StandingOfHolder
  <2>. QED
    BY <1>9, <2>1, ProcessAssumption DEF Standing
<1>12. Position(p)'
  <2>1. Position(p)
    BY DEF IInv
  <2>. QED
    BY <1>1, <1>2, <1>5, <1>6, <1>8, <2>1 DEF Position
<1>13. Decided(p)'
  <2>1. Decided(p)
    BY DEF IInv
  <2>. QED
    BY <1>1, <1>5, <1>6, <1>8, <1>9, <1>10, <2>1 DEF Decided
<1>14. Written(p)'
  BY <1>1, <1>5 DEF Written
<1>15. Documents'
  <2>1. Documents
    BY DEF IInv
  <2>2. reported' \subseteq Live' \cup ToSet(Standing')
    BY <1>2, <1>6, <1>10, <1>11, <2>1 DEF Documents
  <2>3. reported' \subseteq Live' \cup Archived'
    BY <1>2, <1>10, <1>11, <2>2 DEF Archived
  <2>4. mishaps' \cap {"crash", "interrupt", "rollback"} = {} => Recent(Standing', Progress')
    BY <1>2, <1>4, <1>10, <1>11, <2>1 DEF Documents
  <2>5. AgesUpTo(Progress, clock)' /\ AgesUpTo(Archive, clock)' /\ AgesUpTo(Standing, clock)'
    BY <1>2, <1>6, <1>10, <1>11, <2>1 DEF Documents
  <2>. QED
    BY <1>6, <1>7, <1>10, <2>1, <2>2, <2>3, <2>4, <2>5 DEF Documents
<1>. QED
  BY <1>2, <1>4, <1>5, <1>6, <1>7, <1>12, <1>13, <1>14, <1>15, WorkKeepsIInv DEF IInv, StateTypeOK

LEMMA SwapKeepsIInv ==
    ASSUME IInv, NEW p \in Process, Swap(p), Settle(p), Return(p)
    PROVE  IInv'
<1>1. \/ ~ IsPair(p) /\ op[p].staged = {"second"}
      \/ IsPair(p) /\ op[p].staged \cap File = File /\ op[p].saved = files["first"]
      \/ Halfway(p)
  BY DEF Swap, IInv, Position
<1>. QED
  BY <1>1, LastSwapKeepsIInv, FirstSwapKeepsIInv

\* The archive that stands comes back.
LEMMA RollbackKeepsIInv ==
    ASSUME IInv, NEW p \in Process, Rollback(p), Settle(p), Return(p)
    PROVE  IInv'
<1> DEFINE o == op'[p]
           old == Text(op[p].saved)
<1>1. op[p].step = "rollback" /\ op[p].outcome # "done"
  BY DEF Rollback, IInv, Written
<1>2. HalfSwapped(p) /\ Before(p) = op[p].saved
  BY <1>1 DEF IInv, Position, Halfway, HalfSwapped, Before
<1>3. /\ op[p] \in Operation /\ HoldsLock(p) /\ Standing = old
      /\ request[p] \in Entry \cup {Rotation}
      /\ op[p].saved \in Seq(Aged) \cup {Nothing}
  BY <1>1, <1>2, Replacing
<1>4. /\ op' = [op EXCEPT ![p].staged = @ \ {"backup"}, ![p].step = "clean"]
      /\ files' = [files EXCEPT !["first"] = op[p].saved]
      /\ UNCHANGED <<lock, litter, mishaps>>
  BY DEF Rollback
<1>5. /\ o \in Operation /\ op' = [op EXCEPT ![p] = o] /\ o.step = "clean"
      /\ o.outcome = op[p].outcome
  BY <1>3, <1>4 DEF IInv, StateTypeOK, Operation, Steps
<1>6. UNCHANGED <<request, hook, clock, calls, reported>>
  BY <1>1, <1>5, SettleKeepsAll
<1>7. /\ files' \in [first : Seq(Aged) \cup {Nothing}, second : Seq(Entry) \cup {Nothing}]
      /\ files'["second"] = files["second"] /\ files'["first"] = op[p].saved
  BY <1>3, <1>4 DEF IInv, StateTypeOK
<1>8. Progress' = Progress /\ Live' = Live /\ Archive' = old
  BY <1>7 DEF Progress, Archive, Live, Document, Text
<1>9. Standing' = old
  <2>1. lock' = p
    BY <1>3, <1>4, StandingOfHolder
  <2>2. Before(p)' = op[p].saved
    BY <1>5, <1>7 DEF Before
  <2>. QED
    BY <2>1, <2>2, ProcessAssumption DEF Standing
<1>10. Position(p)' /\ Decided(p)' /\ Written(p)'
  BY <1>1, <1>3, <1>5, <1>6 DEF Position, Decided, Written
<1>11. Documents'
  <2>1. Documents
    BY DEF IInv
  <2>2. reported' \subseteq Live' \cup ToSet(Standing') /\ reported' \subseteq Live' \cup Archived'
    BY <1>3, <1>6, <1>8, <1>9, <2>1 DEF Documents, Archived
  <2>3. mishaps' \cap {"crash", "interrupt", "rollback"} = {} => Recent(Standing', Progress')
    BY <1>3, <1>4, <1>8, <1>9, <2>1 DEF Documents
  <2>4. AgesUpTo(Progress, clock)' /\ AgesUpTo(Archive, clock)' /\ AgesUpTo(Standing, clock)'
    BY <1>3, <1>6, <1>8, <1>9, <2>1 DEF Documents
  <2>. QED
    BY <1>6, <1>7, <1>8, <2>1, <2>2, <2>3, <2>4 DEF Documents
<1>. QED
  BY <1>3, <1>4, <1>5, <1>6, <1>7, <1>10, <1>11, WorkKeepsIInv DEF IInv, StateTypeOK

LEMMA StepKeepsIInv == IInv /\ [Next]_vars => IInv'
<1> SUFFICES ASSUME IInv, [Next]_vars PROVE IInv'
  OBVIOUS
<1>1. CASE UNCHANGED vars
  <2>1. Progress' = Progress /\ Archive' = Archive /\ Live' = Live /\ Archived' = Archived
    BY <1>1 DEF vars, Progress, Archive, Live, Archived, Document
  <2>2. \A p \in Process : Before(p)' = Before(p) /\ Halfway(p)' = Halfway(p) /\ IsPair(p)' = IsPair(p)
    BY <1>1 DEF vars, Before, Halfway, HalfSwapped, IsPair
  <2>3. Standing' = Standing
    BY <1>1, <2>2 DEF vars, Standing, IInv, StateTypeOK
  <2>4. \A p \in Process : Position(p)' /\ Decided(p)' /\ Written(p)'
    BY <1>1, <2>1, <2>2 DEF vars, IInv, Position, Decided, Written
  <2>5. Documents'
    BY <1>1, <2>1, <2>3 DEF vars, IInv, Documents
  <2>6. StateTypeOK' /\ LockInv'
    BY <1>1 DEF vars, IInv, StateTypeOK, LockInv, HoldsLock
  <2>. QED
    BY <2>4, <2>5, <2>6 DEF IInv
<1>2. ASSUME NEW p \in Process, WriteStep(p), Settle(p), Return(p)
      PROVE  IInv'
  BY <1>2, StageKeepsIInv, FailureKeepsIInv, BackupKeepsIInv, SwapKeepsIInv, SwapFailsKeepsIInv,
     RollbackKeepsIInv, CleanKeepsIInv DEF WriteStep
<1>3. ASSUME NEW p \in Process, Killed(p), Settle(p), UNCHANGED reported
      PROVE  IInv'
  BY <1>3, CrashKeepsIInv, FailureKeepsIInv DEF Killed
<1>4. ASSUME NEW p \in Process,
             \/ Call(p) \/ PreCompact(p) \/ Bootstrap(p)
             \/ ProcessStep(p)
             \/ Killed(p) /\ Settle(p) /\ UNCHANGED reported
      PROVE  IInv'
  BY <1>2, <1>3, <1>4, WaitKeepsIInv, WriteEntryKeepsIInv, RotateKeepsIInv, LockStepKeepsIInv
     DEF ProcessStep
<1>. QED
  BY <1>1, <1>4 DEF Next

LEMMA InductiveInvariant == Spec => []IInv
BY InitIInv, StepKeepsIInv, PTL DEF Spec

----------------------------------------------------------------------------
(* What the runs check, for every budget and every number of processes.    *)

\* Both documents hold entries, only ordinary ones are ever archived, and what
\* the processes hold keeps its type, whatever fails.
THEOREM TypeCorrect == Spec => []TypeOK
<1>1. IInv => TypeOK
  <2> SUFFICES ASSUME IInv PROVE TypeOK
    OBVIOUS
  <2>1. ASSUME NEW p \in Process
        PROVE  /\ op[p].step \in Steps
               /\ op[p].outcome \in Outcomes
               /\ DOMAIN op[p].new \subseteq File
               /\ op[p].staged \subseteq Temporary
    <3>1. op[p] \in Operation
      BY DEF IInv, StateTypeOK
    <3>2. op[p].new \in Replacement
      BY <3>1 DEF Operation
    <3>3. DOMAIN op[p].new \subseteq File
      BY <3>2 DEF Replacement, File
    <3>. QED
      BY <3>1, <3>3 DEF Operation
  <2>2. StorageTypeOK
    BY <2>1 DEF IInv, StateTypeOK, StorageTypeOK, File
  <2>3. Progress \in Seq(Entry) /\ Archive \in Seq([n : Nat, pinned : {FALSE}, size : EntrySize])
    BY TextTypes DEF IInv, Aged
  <2>. QED
    BY <2>2, <2>3 DEF IInv, StateTypeOK, TypeOK
<1>. QED
  BY <1>1, InductiveInvariant, PTL

\* A write that returned is in PROGRESS.md or in the archive, wherever processes
\* die and whatever fails (_atomic_write_pair, archive first).
THEOREM ReportedIsKept == Spec => []NothingLost
<1>1. IInv => NothingLost
  BY DEF IInv, Documents, NothingLost
<1>. QED
  BY <1>1, InductiveInvariant, PTL

\* PROGRESS.md is within its budget, or nothing but pinned entries is in it
\* (_partition_for_live_budget).
THEOREM BudgetHolds == Spec => []LiveWithinBudget
<1>1. IInv => LiveWithinBudget
  BY DEF IInv, Documents, WithinBudget, LiveWithinBudget
<1>. QED
  BY <1>1, InductiveInvariant, PTL

\* Unless a process died or could not undo what it had done, and when none is
\* between its replacements: what is live and ordinary is newer than all that is
\* archived, and nothing is archived twice.
THEOREM EvictionIsByAge == Spec => []RecencyKept
<1>1. IInv => RecencyKept
  <2> SUFFICES ASSUME IInv, mishaps \cap {"crash", "interrupt", "rollback"} = {}, ~ MidCommit
               PROVE  Recent(Archive, Progress)
    BY DEF RecencyKept, Undisturbed, Recent
  <2>1. Recent(Standing, Progress)
    BY DEF IInv, Documents
  <2>2. Standing = Text(files["first"])
    BY DEF Standing, Before, MidCommit, IInv, StateTypeOK
  <2>. QED
    BY <2>1, <2>2, TextTypes DEF IInv
<1>. QED
  BY <1>1, InductiveInvariant, PTL

\* PROGRESS.md changes only where a command replaces it by what it has decided.
LEMMA ProgressChanges ==
    ASSUME IInv, [Next]_vars
    PROVE  \/ files'["second"] = files["second"]
           \/ \E p \in Process : op[p].step = "swap" /\ files'["second"] = op[p].new["second"]
<1>1. CASE UNCHANGED vars
  BY <1>1 DEF vars
<1>2. ASSUME NEW p \in Process, Swap(p)
      PROVE  files'["second"] \in {files["second"], op[p].new["second"]}
  BY <1>2 DEF Swap, IInv, StateTypeOK
<1>3. ASSUME NEW p \in Process, Rollback(p)
      PROVE  files'["second"] = files["second"]
  BY <1>3 DEF Rollback, IInv, StateTypeOK
<1>4. ASSUME NEW p \in Process,
             \/ Call(p) \/ PreCompact(p) \/ Bootstrap(p) \/ WriteEntry(p) \/ Rotate(p)
             \/ LockStep(p) \/ Killed(p)
             \/ Stage(p) \/ StageFails(p) \/ LookFails(p) \/ Backup(p) \/ SwapFails(p)
             \/ RollbackFails(p) \/ Clean(p) \/ CleanFails(p)
      PROVE  files' = files
  BY <1>4 DEF Call, PreCompact, Bootstrap, Open, storage, WriteEntry, Rotate, Persist, Submit,
              LockStep, Acquire, GiveUp, Release, Killed, Crash, Interrupt, Stage, StageFails,
              LookFails, Backup, SwapFails, RollbackFails, Clean, CleanFails
<1>5. CASE Next
  <2>1. PICK p \in Process :
           \/ Call(p) \/ PreCompact(p) \/ Bootstrap(p)
           \/ ProcessStep(p)
           \/ Killed(p) /\ Settle(p) /\ UNCHANGED reported
    BY <1>5 DEF Next
  <2>2. CASE Swap(p)
    BY <1>2, <2>2 DEF Swap
  <2>3. CASE ~ Swap(p)
    BY <1>3, <1>4, <2>1, <2>3 DEF ProcessStep, WriteStep
  <2>. QED
    BY <2>2, <2>3
<1>. QED
  BY <1>1, <1>5

\* A pinned entry never leaves PROGRESS.md (_partition_for_live_budget retains
\* it whatever its length).
THEOREM PinsHold == Spec => PinnedStayLive
<1> DEFINE PinnedStay == \A e \in Live : e.pinned => e \in ToSet(Document("second")')
<1>1. ASSUME IInv, [Next]_vars PROVE [PinnedStay]_vars
  <2>1. CASE files'["second"] = files["second"]
    <3>1. Document("second")' = Progress
      BY <2>1 DEF Document, Progress
    <3>. QED
      BY <3>1 DEF Live
  <2>2. ASSUME NEW p \in Process, op[p].step = "swap", files'["second"] = op[p].new["second"]
        PROVE  PinnedStay
    <3>1. /\ op[p].new["second"] # Nothing
          /\ \A e \in Live : e.pinned => e \in ToSet(op[p].new["second"])
      BY <1>1, <2>2, Replacing
    <3>2. Document("second")' = op[p].new["second"]
      BY <2>2, <3>1 DEF Document
    <3>. QED
      BY <3>1, <3>2
  <2>. QED
    BY <1>1, <2>1, <2>2, ProgressChanges
<1>. QED
  BY <1>1, InductiveInvariant, PTL DEF PinnedStayLive, Spec

================================================================================
