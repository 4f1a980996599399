------------------------------ MODULE HandoffProofs ------------------------------
(***************************************************************************)
(* Proofs about Gitignore and Handoff for any texts, sessions, packages    *)
(* and bounds.  First what ensure_gitignore makes of a text, then which    *)
(* rules are in force when a progress file is on disk.                     *)
(***************************************************************************)
EXTENDS Handoff, FiniteSetTheorems, SequenceTheorems, TLAPS

\* The steps of a command.
Steps == {"idle", "ignore", "place", "entry", "first", "write", "replace", "archive", "add", "commit"}

Operation == [step : Steps, id : Id \cup {None}, config : Config \cup {None},
              text : Seq(Line)]

StateTypeOK ==
    /\ gitignore \in Seq(Line)
    /\ config \in Config
    /\ active \in Id \cup {None}
    /\ package \in [Id -> {"none", "open", "complete"}]
    /\ progress \in SUBSET File /\ index \in SUBSET File
    /\ commits \in SUBSET (SUBSET File)
    /\ op \in [Session -> Operation]
    /\ \A s \in Session :
          /\ op[s].id \in Id \/ (op[s].id = None /\ op[s].step \in {"idle", "ignore"})
          /\ op[s].config \in Config \/ (op[s].config = None /\ op[s].step = "idle")
    /\ calls \in 0 .. CallCap /\ edits \in 0 .. EditCap
    /\ rules \in SUBSET Rule /\ exposed \in SUBSET Rule
    /\ reconfigured \in BOOLEAN

\* A command that is about to write has read a text with every rule it may not drop.
RulesHeld ==
    \A s \in Session :
        op[s].step = "ignore" =>
            WellMarked(op[s].text) /\ rules \ exposed \subseteq Lines(UserLines(op[s].text))

\* While the file names are as they were, whatever a command does it does under
\* these names, and a progress file on disk, or about to be, is covered by a rule.
LiveAround ==
    \/ active # None
    \/ \E f \in progress : f.place = "work"
    \/ \E s \in Session : op[s].step \in {"place", "entry", "first", "write", "replace"}

Covered ==
    /\ \A s \in Session : op[s].step # "idle" => op[s].config = config
    /\ \A s \in Session :
          op[s].step = "ignore" /\ config \in Lines(op[s].text) => config \in Lines(gitignore)
    /\ LiveAround => config \in Lines(gitignore)
    /\ \A f \in progress : f.config = config
    /\ \A f \in index : f.place = "work" => f.name # "progress"

IInv ==
    /\ StateTypeOK
    /\ UserRulesKept
    /\ RulesHeld
    /\ ~ reconfigured => Covered
    /\ LiveProgressStaysOut

----------------------------------------------------------------------------
(* The lines at some places.                                               *)

\* The number of places up to one of them counts them through, without a gap.
LEMMA Ranks ==
    ASSUME NEW places \in SUBSET Nat, IsFiniteSet(places)
    PROVE  LET Rank(i) == Cardinality({j \in places : j <= i})
               n == Cardinality(places)
           IN  /\ n \in Nat
               /\ \A i \in places : Rank(i) \in 1..n
               /\ \A i, j \in places : i < j => Rank(i) < Rank(j)
               /\ \A k \in 1..n : \E i \in places : Rank(i) = k
<1> DEFINE UpTo(i) == {j \in places : j <= i}
           Rank(i) == Cardinality(UpTo(i))
           n == Cardinality(places)
           f == [i \in places |-> Rank(i)]
<1>1. n \in Nat
  BY FS_CardinalityType
<1>2. ASSUME NEW i \in places
      PROVE  IsFiniteSet(UpTo(i)) /\ Rank(i) \in Nat /\ Rank(i) <= n /\ Rank(i) # 0
  <2>1. UpTo(i) \in SUBSET places /\ i \in UpTo(i)
    OBVIOUS
  <2>2. IsFiniteSet(UpTo(i)) /\ Rank(i) <= n
    BY <2>1, FS_Subset
  <2>3. Rank(i) \in Nat
    BY <2>2, FS_CardinalityType
  <2>4. Rank(i) # 0
    BY <2>1, <2>2, FS_EmptySet
  <2>. QED
    BY <2>2, <2>3, <2>4
<1>3. ASSUME NEW i \in places, NEW j \in places, i < j
      PROVE  Rank(i) < Rank(j)
  <2>1. UpTo(i) \in SUBSET UpTo(j) /\ j \in UpTo(j) /\ j \notin UpTo(i)
    <3>1. \A k \in places : k <= i => k <= j
      BY <1>3
    <3>2. j <= j /\ ~ (j <= i)
      BY <1>3
    <3>. QED
      BY <3>1, <3>2
  <2>2. Rank(i) <= Rank(j) /\ Rank(i) # Rank(j)
    BY <1>2, <2>1, FS_Subset
  <2>. QED
    BY <1>2, <2>2
<1> HIDE DEF UpTo, Rank
<1>4. f \in Injection(places, 1..n)
  <2>1. \A i, j \in places : f[i] = f[j] => i = j
    BY <1>2, <1>3
  <2>2. f \in [places -> 1..n]
    BY <1>1, <1>2
  <2>. QED
    BY <2>1, <2>2 DEF Injection, IsInjective
<1>5. IsFiniteSet(1..n) /\ Cardinality(1..n) = n
  BY <1>1, FS_Interval
<1>6. f \in Surjection(places, 1..n)
  BY <1>4, <1>5, FS_Injection
<1>7. \A k \in 1..n : \E i \in places : Rank(i) = k
  BY <1>6 DEF Surjection
<1>. QED
  BY <1>1, <1>2, <1>3, <1>7 DEF UpTo, Rank

\* The places of a text are a finite set of numbers.
LEMMA PlacesAreFinite ==
    ASSUME NEW S, NEW text \in Seq(S), NEW places \in SUBSET (DOMAIN text)
    PROVE  places \in SUBSET Nat /\ IsFiniteSet(places)
<1>1. DOMAIN text = 1..Len(text) /\ Len(text) \in Nat
  OBVIOUS
<1>2. IsFiniteSet(1..Len(text))
  BY <1>1, FS_Interval
<1>3. places \in SUBSET (1..Len(text))
  BY <1>1
<1>4. IsFiniteSet(places)
  BY <1>2, <1>3, FS_Subset
<1>. QED
  BY <1>1, <1>3, <1>4

\* A way to count places through, in order.
Counts(place, n, places) ==
    /\ n \in Nat
    /\ place \in [1..n -> places]
    /\ \A k, l \in 1..n : k < l => place[k] < place[l]
    /\ \A i \in places : \E k \in 1..n : place[k] = i

\* At answers the lines at the places, all of them and in order.
LEMMA AtEffect ==
    ASSUME NEW S, NEW text \in Seq(S), NEW places \in SUBSET (DOMAIN text)
    PROVE  /\ At(text, places) \in Seq(S)
           /\ \E place : /\ Counts(place, Len(At(text, places)), places)
                         /\ \A k \in 1..Len(At(text, places)) :
                               At(text, places)[k] = text[place[k]]
<1> DEFINE Rank(i) == Cardinality({j \in places : j <= i})
           n == Cardinality(places)
           place == [k \in 1..n |-> CHOOSE i \in places : Rank(i) = k]
           s == At(text, places)
<1>1. places \in SUBSET Nat /\ IsFiniteSet(places)
  BY PlacesAreFinite
<1>2. /\ n \in Nat
      /\ \A i \in places : Rank(i) \in 1..n
      /\ \A i, j \in places : i < j => Rank(i) < Rank(j)
      /\ \A k \in 1..n : \E i \in places : Rank(i) = k
  BY <1>1, Ranks
<1>3. s = [k \in 1..n |-> text[place[k]]]
  BY DEF At
<1> HIDE DEF Rank, n, s
<1>4. \A k \in 1..n : place[k] \in places /\ Rank(place[k]) = k
  BY <1>2
<1>5. place \in [1..n -> places]
  BY <1>4
<1> HIDE DEF place
<1>6. \A k \in 1..n : text[place[k]] \in S
  BY <1>4
<1>7. s \in Seq(S) /\ Len(s) = n /\ \A k \in 1..n : s[k] = text[place[k]]
  BY <1>2, <1>3, <1>6
<1>8. ASSUME NEW k \in 1..n, NEW l \in 1..n, k < l
      PROVE  place[k] < place[l]
  <2>1. place[k] \in Nat /\ place[l] \in Nat
    BY <1>1, <1>4
  <2>2. ~ (place[l] < place[k])
    BY <1>2, <1>4, <1>8
  <2>3. place[l] # place[k]
    BY <1>4, <1>8
  <2>. QED
    BY <2>1, <2>2, <2>3
<1>9. ASSUME NEW i \in places
      PROVE  \E k \in 1..n : place[k] = i
  <2>1. Rank(i) \in 1..n /\ place[Rank(i)] \in places /\ Rank(place[Rank(i)]) = Rank(i)
    BY <1>2, <1>4
  <2>2. place[Rank(i)] = i
    BY <1>1, <1>2, <2>1
  <2>. QED
    BY <2>1, <2>2
<1>10. Counts(place, n, places)
  BY <1>2, <1>5, <1>8, <1>9 DEF Counts
<1>. QED
  BY <1>7, <1>10 DEF s

\* Whatever counts the places through says what At answers.
LEMMA AtIsUnique ==
    ASSUME NEW S, NEW text \in Seq(S), NEW places \in SUBSET (DOMAIN text),
           NEW n, NEW place, Counts(place, n, places)
    PROVE  At(text, places) = [k \in 1..n |-> text[place[k]]]
<1> DEFINE Rank(i) == Cardinality({j \in places : j <= i})
<1>1. places \in SUBSET Nat /\ IsFiniteSet(places)
  BY PlacesAreFinite
<1>2. \A i, j \in places : i < j => Rank(i) < Rank(j)
  BY <1>1, Ranks
<1>3. /\ n \in Nat
      /\ \A k \in 1..n : place[k] \in places /\ place[k] \in Nat
      /\ \A k, l \in 1..n : k < l => place[k] < place[l]
      /\ \A i \in places : \E k \in 1..n : place[k] = i
  BY <1>1 DEF Counts
<1>4. ASSUME NEW m \in 1..n
      PROVE  Rank(place[m]) = m
  <2> DEFINE UpTo == {j \in places : j <= place[m]}
             f == [k \in 1..m |-> place[k]]
  <2>1. f \in [1..m -> UpTo]
    <3>1. ASSUME NEW k \in 1..m PROVE place[k] \in UpTo
      <4>1. k \in 1..n /\ (k < m \/ k = m)
        BY <1>3
      <4>2. place[k] <= place[m]
        BY <1>3, <4>1
      <4>. QED
        BY <1>3, <4>1, <4>2
    <3>. QED
      BY <3>1
  <2>2. \A k, l \in 1..m : f[k] = f[l] => k = l
    BY <1>3
  <2>3. ASSUME NEW j \in UpTo PROVE \E k \in 1..m : f[k] = j
    <3>1. PICK k \in 1..n : place[k] = j
      BY <1>3
    <3>2. ~ (m < k)
      BY <1>3, <3>1
    <3>. QED
      BY <1>3, <3>1, <3>2
  <2>4. f \in Bijection(1..m, UpTo)
    BY <2>1, <2>2, <2>3 DEF Bijection, Injection, Surjection, IsInjective
  <2>5. IsFiniteSet(1..m) /\ Cardinality(1..m) = m
    BY <1>3, FS_Interval
  <2>. QED
    BY <2>4, <2>5, FS_Bijection DEF ExistsBijection
<1>5. Cardinality(places) = n
  <2>1. place \in [1..n -> places]
    BY DEF Counts
  <2>2. place \in Bijection(1..n, places)
    BY <1>3, <2>1 DEF Bijection, Injection, Surjection, IsInjective
  <2>3. IsFiniteSet(1..n) /\ Cardinality(1..n) = n
    BY <1>3, FS_Interval
  <2>. QED
    BY <2>2, <2>3, FS_Bijection DEF ExistsBijection
<1> HIDE DEF Rank
<1>6. ASSUME NEW k \in 1..n
      PROVE  (CHOOSE i \in places : Rank(i) = k) = place[k]
  <2>1. place[k] \in places /\ Rank(place[k]) = k
    BY <1>3, <1>4
  <2>2. ASSUME NEW i \in places, Rank(i) = k PROVE i = place[k]
    BY <1>1, <1>2, <2>1, <2>2
  <2>. QED
    BY <2>1, <2>2
<1>7. At(text, places) = [k \in 1..n |-> text[CHOOSE i \in places : Rank(i) = k]]
  BY <1>5 DEF At, Rank
<1>. QED
  BY <1>6, <1>7

\* The lines at places of two parts, the one before the other.
LEMMA AtOfTwoParts ==
    ASSUME NEW S, NEW text \in Seq(S), NEW P \in SUBSET (DOMAIN text),
           NEW Q \in SUBSET (DOMAIN text), \A i \in P, j \in Q : i < j
    PROVE  At(text, P \cup Q) = At(text, P) \o At(text, Q)
<1> DEFINE a == At(text, P)
           b == At(text, Q)
           m == Len(a)
           n == Len(a) + Len(b)
<1>1. a \in Seq(S) /\ b \in Seq(S)
  BY AtEffect
<1>2. PICK f : Counts(f, m, P) /\ \A k \in 1..m : a[k] = text[f[k]]
  BY AtEffect
<1>3. PICK g : Counts(g, Len(b), Q) /\ \A k \in 1..Len(b) : b[k] = text[g[k]]
  BY AtEffect
<1> HIDE DEF a, b
<1> DEFINE place == [k \in 1..n |-> IF k <= m THEN f[k] ELSE g[k - m]]
<1>4. /\ m \in Nat /\ Len(b) \in Nat /\ n \in Nat
      /\ \A k \in 1..n : IF k <= m THEN k \in 1..m ELSE k - m \in 1..Len(b)
      /\ \A k \in 1..Len(b) : k + m \in 1..n /\ ~ (k + m <= m) /\ (k + m) - m = k
  BY <1>1
<1>5. /\ \A k \in 1..m : f[k] \in P /\ f[k] \in Nat
      /\ \A k, l \in 1..m : k < l => f[k] < f[l]
      /\ \A i \in P : \E k \in 1..m : f[k] = i
      /\ \A k \in 1..Len(b) : g[k] \in Q /\ g[k] \in Nat
      /\ \A k, l \in 1..Len(b) : k < l => g[k] < g[l]
      /\ \A i \in Q : \E k \in 1..Len(b) : g[k] = i
  <2>1. P \in SUBSET Nat /\ Q \in SUBSET Nat
    BY PlacesAreFinite
  <2>. QED
    BY <1>2, <1>3, <2>1 DEF Counts
<1> HIDE DEF m, n
<1>6. place \in [1..n -> P \cup Q]
  BY <1>4, <1>5
<1>7. ASSUME NEW k \in 1..n, NEW l \in 1..n, k < l
      PROVE  place[k] < place[l]
  <2>1. CASE l <= m
    BY <1>4, <1>5, <1>7, <2>1
  <2>2. CASE k <= m /\ ~ (l <= m)
    <3>1. f[k] \in P /\ g[l - m] \in Q
      BY <1>4, <1>5, <2>2
    <3>. QED
      BY <2>2, <3>1
  <2>3. CASE ~ (k <= m)
    <3>1. ~ (l <= m) /\ k - m < l - m
      BY <1>4, <1>7, <2>3
    <3>. QED
      BY <1>4, <1>5, <2>3, <3>1
  <2>. QED
    BY <2>1, <2>2, <2>3
<1>8. ASSUME NEW i \in P \cup Q
      PROVE  \E k \in 1..n : place[k] = i
  <2>1. CASE i \in P
    <3>1. PICK k \in 1..m : f[k] = i
      BY <1>5, <2>1
    <3>2. k \in 1..n /\ k <= m
      BY <1>4 DEF n, m
    <3>. QED
      BY <3>1, <3>2
  <2>2. CASE i \in Q
    <3>1. PICK k \in 1..Len(b) : g[k] = i
      BY <1>5, <2>2
    <3>. QED
      BY <1>4, <3>1
  <2>. QED
    BY <2>1, <2>2
<1>9. Counts(place, n, P \cup Q)
  BY <1>4, <1>6, <1>7, <1>8 DEF Counts
<1>10. At(text, P \cup Q) = [k \in 1..n |-> text[place[k]]]
  <2>1. P \cup Q \in SUBSET (DOMAIN text)
    OBVIOUS
  <2> HIDE DEF place
  <2>. QED
    BY <1>9, <2>1, AtIsUnique
<1>11. \A k \in 1..n : text[place[k]] = IF k <= m THEN a[k] ELSE b[k - m]
  BY <1>2, <1>3, <1>4
<1>12. /\ a \o b \in Seq(S) /\ Len(a \o b) = n
       /\ \A k \in 1..n : (a \o b)[k] = IF k <= m THEN a[k] ELSE b[k - m]
  BY <1>1, ConcatProperties DEF m, n
<1>13. At(text, P \cup Q) \in Seq(S) /\ Len(At(text, P \cup Q)) = n
  <2>1. P \cup Q \in SUBSET (DOMAIN text)
    OBVIOUS
  <2>2. At(text, P \cup Q) \in Seq(S)
    BY <2>1, AtEffect
  <2>. QED
    BY <1>4, <1>10, <2>2
<1>14. \A k \in 1..n : At(text, P \cup Q)[k] = (a \o b)[k]
  BY <1>10, <1>11, <1>12
<1>. QED
  BY <1>12, <1>13, <1>14, SeqEqual DEF a, b

\* The lines at all places are the text.
LEMMA AtOfAll ==
    ASSUME NEW S, NEW text \in Seq(S)
    PROVE  At(text, DOMAIN text) = text
<1> DEFINE place == [k \in 1..Len(text) |-> k]
<1>1. DOMAIN text = 1..Len(text) /\ Len(text) \in Nat
  OBVIOUS
<1>2. Counts(place, Len(text), DOMAIN text)
  BY <1>1 DEF Counts
<1>3. At(text, DOMAIN text) = [k \in 1..Len(text) |-> text[place[k]]]
  BY <1>2, AtIsUnique
<1>4. text = [k \in 1..Len(text) |-> text[k]]
  OBVIOUS
<1>. QED
  BY <1>3, <1>4

----------------------------------------------------------------------------
(* ensure_gitignore.                                                       *)

\* Lines that are no markers.
Plain == Line \ {Begin, End}

\* The user's lines are no markers.
LEMMA UserLinesArePlain ==
    ASSUME NEW text \in Seq(Line), NEW places \in SUBSET UserPlaces(text)
    PROVE  At(text, places) \in Seq(Plain)
<1> DEFINE s == At(text, places)
<1>1. places \in SUBSET (DOMAIN text)
  BY DEF UserPlaces
<1>2. s \in Seq(Line)
  BY <1>1, AtEffect
<1>3. PICK place : Counts(place, Len(s), places) /\ \A k \in 1..Len(s) : s[k] = text[place[k]]
  BY <1>1, AtEffect
<1>4. \A k \in 1..Len(s) : text[place[k]] \in Plain
  <2>1. ASSUME NEW k \in 1..Len(s) PROVE text[place[k]] \in Plain
    <3>1. place[k] \in places
      BY <1>3 DEF Counts
    <3>2. place[k] \in DOMAIN text /\ text[place[k]] \notin {Begin, End}
      BY <3>1 DEF UserPlaces, InBlock
    <3>. QED
      BY <3>2 DEF Plain
  <2>. QED
    BY <2>1
<1> HIDE DEF s
<1>. QED
  BY <1>2, <1>3, <1>4 DEF s

\* The first marker is there and opens a block.
LEMMA FirstMarkerOpens ==
    ASSUME NEW text \in Seq(Line), Marked(text)
    PROVE  FirstMarker(text) \in DOMAIN text /\ text[FirstMarker(text)] = Begin
<1> DEFINE begins == {i \in DOMAIN text : text[i] = Begin}
           Rank(i) == Cardinality({j \in begins : j <= i})
           n == Cardinality(begins)
<1>1. begins \in SUBSET Nat /\ IsFiniteSet(begins)
  BY PlacesAreFinite
<1>2. /\ n \in Nat
      /\ \A i \in begins : Rank(i) \in 1..n
      /\ \A i, j \in begins : i < j => Rank(i) < Rank(j)
      /\ \A k \in 1..n : \E i \in begins : Rank(i) = k
  BY <1>1, Ranks
<1> HIDE DEF Rank, n
<1>3. 1 \in 1..n
  <2>1. PICK i \in begins : TRUE
    BY DEF Marked, Lines
  <2>2. Rank(i) \in 1..n
    BY <1>2
  <2>. QED
    BY <1>2, <2>2
<1>4. PICK i \in begins : Rank(i) = 1
  BY <1>2, <1>3
<1>5. ASSUME NEW j \in 1..i - 1
      PROVE  text[j] # Begin
  <2>1. SUFFICES ASSUME text[j] = Begin PROVE FALSE
    OBVIOUS
  <2>2. j \in begins /\ j < i
    BY <2>1
  <2>3. Rank(j) < 1 /\ Rank(j) \in 1..n
    BY <1>2, <1>4, <2>2
  <2>. QED
    BY <1>2, <2>3
<1>6. \E x \in DOMAIN text : text[x] = Begin /\ \A j \in 1..x - 1 : text[j] # Begin
  BY <1>4, <1>5
<1>. QED
  BY <1>6 DEF FirstMarker

\* The block takes no line of the user's when it is replaced where it first was.
LEMMA UserLinesAround ==
    ASSUME NEW text \in Seq(Line), Marked(text)
    PROVE  /\ Above(text) \in Seq(Plain) /\ Below(text) \in Seq(Plain)
           /\ UserLines(text) = Above(text) \o Below(text)
<1> DEFINE f == FirstMarker(text)
           P == {i \in UserPlaces(text) : i < f}
           Q == {i \in UserPlaces(text) : i > f}
<1>1. f \in DOMAIN text /\ text[f] = Begin
  BY FirstMarkerOpens
<1> HIDE DEF f
<1>2. P \cup Q = UserPlaces(text)
  <2>1. f \notin UserPlaces(text)
    BY <1>1 DEF UserPlaces, InBlock
  <2>2. \A i \in UserPlaces(text) : i \in Nat
    BY DEF UserPlaces
  <2>. QED
    BY <1>1, <2>1, <2>2
<1>3. /\ P \in SUBSET UserPlaces(text) /\ Q \in SUBSET UserPlaces(text)
      /\ P \in SUBSET (DOMAIN text) /\ Q \in SUBSET (DOMAIN text)
  BY DEF UserPlaces
<1>4. \A i \in P, j \in Q : i < j
  BY <1>1 DEF UserPlaces
<1>5. Above(text) = At(text, P) /\ Below(text) = At(text, Q)
  BY DEF Above, Below, f
<1>6. At(text, P) \in Seq(Plain) /\ At(text, Q) \in Seq(Plain)
  BY <1>3, UserLinesArePlain
<1> HIDE DEF P, Q
<1>7. At(text, P \cup Q) = At(text, P) \o At(text, Q)
  BY <1>3, <1>4, AtOfTwoParts
<1>. QED
  BY <1>2, <1>5, <1>6, <1>7 DEF UserLines

\* A text with one block among the user's lines.
LEMMA OneBlock ==
    ASSUME NEW a \in Seq(Plain), NEW b \in Seq(Plain), NEW c \in Config
    PROVE  LET text == a \o Block(c) \o b
           IN  /\ text \in Seq(Line) /\ WellMarked(text) /\ Marked(text)
               /\ UserLines(text) = a \o b
               /\ Above(text) = a /\ Below(text) = b
               /\ Len(text) = Len(a) + Len(b) + 3
               /\ Ignores(text, c)
<1> DEFINE text == a \o Block(c) \o b
           m == Len(a)
           n == Len(b)
<1>1. /\ m \in Nat /\ n \in Nat
      /\ \A k \in 1..m : a[k] \in Plain
      /\ \A k \in 1..n : b[k] \in Plain
  OBVIOUS
<1>2. Block(c) \in Seq(Line) /\ a \in Seq(Line) /\ b \in Seq(Line)
  <2>1. Block(c) = <<Begin, c, End>> /\ {Begin, c, End} \subseteq Line
    BY DEF Block, Line
  <2>2. Plain \subseteq Line
    BY DEF Plain
  <2>. QED
    BY <2>1, <2>2
<1>3. /\ text \in Seq(Line) /\ Len(text) = m + n + 3
      /\ \A k \in 1..m : text[k] = a[k]
      /\ text[m + 1] = Begin /\ text[m + 2] = c /\ text[m + 3] = End
      /\ \A k \in 1..n : text[k + (m + 3)] = b[k]
  <2> DEFINE front == a \o Block(c)
  <2>1. Len(Block(c)) = 3 /\ Block(c)[1] = Begin /\ Block(c)[2] = c /\ Block(c)[3] = End
    BY DEF Block
  <2>2. /\ front \in Seq(Line) /\ Len(front) = m + 3
        /\ \A i \in 1..m + 3 : front[i] = IF i <= m THEN a[i] ELSE Block(c)[i - m]
    <3>1. /\ a \o Block(c) \in Seq(Line)
          /\ Len(a \o Block(c)) = Len(a) + Len(Block(c))
          /\ \A i \in 1..Len(a) + Len(Block(c)) :
                (a \o Block(c))[i] = IF i <= Len(a) THEN a[i] ELSE Block(c)[i - Len(a)]
      BY <1>2, ConcatProperties, Zenon
    <3>. QED
      BY <2>1, <3>1
  <2> HIDE DEF front
  <2>3. /\ front \o b \in Seq(Line) /\ Len(front \o b) = m + 3 + n
        /\ \A i \in 1..(m + 3) + n :
              (front \o b)[i] = IF i <= m + 3 THEN front[i] ELSE b[i - (m + 3)]
    <3>1. /\ front \o b \in Seq(Line)
          /\ Len(front \o b) = Len(front) + Len(b)
          /\ \A i \in 1..Len(front) + Len(b) :
                (front \o b)[i] = IF i <= Len(front) THEN front[i] ELSE b[i - Len(front)]
      BY <1>2, <2>2, ConcatProperties, Zenon
    <3>. QED
      BY <2>2, <3>1
  <2>4. text = front \o b
    BY DEF front
  <2> HIDE DEF text, m, n
  <2>5. \A k \in 1..m : text[k] = a[k]
    BY <1>1, <2>2, <2>3, <2>4
  <2>6. text[m + 1] = front[m + 1] /\ text[m + 2] = front[m + 2] /\ text[m + 3] = front[m + 3]
    BY <1>1, <2>3, <2>4
  <2>7. front[m + 1] = Begin /\ front[m + 2] = c /\ front[m + 3] = End
    <3>1. /\ front[m + 1] = Block(c)[(m + 1) - m] /\ front[m + 2] = Block(c)[(m + 2) - m]
          /\ front[m + 3] = Block(c)[(m + 3) - m]
      BY <1>1, <2>2
    <3>2. (m + 1) - m = 1 /\ (m + 2) - m = 2 /\ (m + 3) - m = 3
      BY <1>1
    <3>. QED
      BY <2>1, <3>1, <3>2
  <2>8. ASSUME NEW k \in 1..n PROVE text[k + (m + 3)] = b[k]
    <3>1. /\ k + (m + 3) \in 1..(m + 3) + n /\ ~ (k + (m + 3) <= m + 3)
          /\ (k + (m + 3)) - (m + 3) = k
      BY <1>1
    <3>. QED
      BY <2>3, <2>4, <3>1
  <2>. QED
    <3>1. text \in Seq(Line) /\ Len(text) = m + n + 3
      BY <1>1, <2>3, <2>4
    <3>. QED
      BY <2>5, <2>6, <2>7, <2>8, <3>1
<1> HIDE DEF text, m, n
<1>4. DOMAIN text = 1..m + n + 3
  BY <1>1, <1>3
<1>5. c \in Plain /\ Begin # End
  BY GitignoreAssumption DEF Plain, Line
<1>6. ASSUME NEW i \in 1..m + n + 3
      PROVE  (text[i] = Begin <=> i = m + 1) /\ (text[i] = End <=> i = m + 3)
  <2>1. CASE i \in 1..m
    <3>1. text[i] \in Plain
      BY <1>1, <1>3, <2>1
    <3>. QED
      BY <1>1, <2>1, <3>1 DEF Plain
  <2>2. CASE i = m + 1
    BY <1>1, <1>3, <1>5, <2>2
  <2>3. CASE i = m + 2
    BY <1>1, <1>3, <1>5, <2>3 DEF Plain
  <2>4. CASE i = m + 3
    BY <1>1, <1>3, <1>5, <2>4
  <2>5. CASE i > m + 3
    <3>1. i - (m + 3) \in 1..n /\ (i - (m + 3)) + (m + 3) = i
      BY <1>1, <2>5
    <3>2. text[i] \in Plain
      BY <1>1, <1>3, <3>1
    <3>. QED
      BY <1>1, <2>5, <3>2 DEF Plain
  <2>. QED
    BY <1>1, <2>1, <2>2, <2>3, <2>4, <2>5
<1>7. ASSUME NEW i \in 1..m + n + 4
      PROVE  Opened(text, i) <=> i \in {m + 2, m + 3}
  <2>1. ASSUME i \in {m + 2, m + 3} PROVE Opened(text, i)
    <3>1. m + 1 \in DOMAIN text /\ m + 1 < i /\ text[m + 1] = Begin
      BY <1>1, <1>3, <1>4, <2>1
    <3>2. \A k \in (m + 1) + 1 .. i - 1 : k \in 1..m + n + 3 /\ k # m + 1 /\ k # m + 3
      BY <1>1, <2>1
    <3>3. \A k \in (m + 1) + 1 .. i - 1 : text[k] \notin {Begin, End}
      BY <1>6, <3>2
    <3>. QED
      BY <3>1, <3>3 DEF Opened
  <2>2. ASSUME Opened(text, i) PROVE i \in {m + 2, m + 3}
    <3>1. PICK j \in DOMAIN text :
             j < i /\ text[j] = Begin /\ \A k \in j + 1 .. i - 1 : text[k] \notin {Begin, End}
      BY <2>2 DEF Opened
    <3>2. j = m + 1
      BY <1>4, <1>6, <3>1
    <3>3. m + 3 \notin j + 1 .. i - 1
      BY <1>3, <3>1
    <3>. QED
      BY <1>1, <3>1, <3>2, <3>3
  <2>. QED
    BY <2>1, <2>2
<1>8. WellMarked(text)
  <2>1. \A i \in DOMAIN text : (text[i] = Begin => ~ Opened(text, i)) /\ (text[i] = End => Opened(text, i))
    BY <1>1, <1>4, <1>6, <1>7
  <2>2. ~ Opened(text, Len(text) + 1)
    <3>1. Len(text) + 1 \in 1..m + n + 4 /\ Len(text) + 1 \notin {m + 2, m + 3}
      BY <1>1, <1>3
    <3>. QED
      BY <1>7, <3>1
  <2>. QED
    BY <2>1, <2>2 DEF WellMarked
<1>9. Marked(text) /\ Ignores(text, c)
  <2>1. m + 1 \in DOMAIN text /\ m + 2 \in DOMAIN text
    BY <1>1, <1>4
  <2>. QED
    BY <1>3, <2>1 DEF Marked, Ignores, Lines
<1> DEFINE P == 1..m
           Q == m + 4 .. m + n + 3
<1>10. FirstMarker(text) = m + 1
  BY <1>4, <1>6, <1>9, FirstMarkerOpens, <1>3
<1>11. UserPlaces(text) = P \cup Q
  <2>1. ASSUME NEW i \in DOMAIN text PROVE InBlock(text, i) <=> i \in {m + 1, m + 2, m + 3}
    <3>1. i \in 1..m + n + 3 /\ i \in 1..m + n + 4
      BY <1>1, <1>4
    <3>. QED
      BY <1>6, <1>7, <3>1 DEF InBlock
  <2>2. \A i \in 1..m + n + 3 : i \notin {m + 1, m + 2, m + 3} <=> i \in P \cup Q
    BY <1>1
  <2>3. P \cup Q \subseteq 1..m + n + 3
    BY <1>1
  <2>. QED
    BY <1>4, <2>1, <2>2, <2>3 DEF UserPlaces
<1>12. /\ {i \in UserPlaces(text) : i < FirstMarker(text)} = P
       /\ {i \in UserPlaces(text) : i > FirstMarker(text)} = Q
  BY <1>1, <1>10, <1>11
<1>13. P \in SUBSET (DOMAIN text) /\ Q \in SUBSET (DOMAIN text)
  BY <1>1, <1>4
<1>14. At(text, P) = a
  <2> DEFINE place == [k \in 1..m |-> k]
  <2>1. Counts(place, m, P)
    BY <1>1 DEF Counts
  <2>2. At(text, P) = [k \in 1..m |-> text[place[k]]]
    <3> HIDE DEF place, P
    <3>. QED
      BY <1>3, <1>13, <2>1, AtIsUnique
  <2>3. a = [k \in 1..m |-> a[k]]
    BY DEF m
  <2>. QED
    BY <1>3, <2>2, <2>3
<1>15. At(text, Q) = b
  <2> DEFINE place == [k \in 1..n |-> k + (m + 3)]
  <2>1. Counts(place, n, Q)
    <3>1. ASSUME NEW i \in Q PROVE i - (m + 3) \in 1..n /\ place[i - (m + 3)] = i
      BY <1>1
    <3>2. place \in [1..n -> Q]
      BY <1>1
    <3>3. \A k, l \in 1..n : k < l => place[k] < place[l]
      BY <1>1
    <3>. QED
      BY <1>1, <3>1, <3>2, <3>3 DEF Counts
  <2>2. At(text, Q) = [k \in 1..n |-> text[place[k]]]
    <3> HIDE DEF place, Q
    <3>. QED
      BY <1>3, <1>13, <2>1, AtIsUnique
  <2>3. b = [k \in 1..n |-> b[k]]
    BY DEF n
  <2>. QED
    BY <1>3, <2>2, <2>3
<1>16. At(text, P \cup Q) = At(text, P) \o At(text, Q)
  <2>1. \A i \in P, j \in Q : i < j
    BY <1>1
  <2> HIDE DEF P, Q
  <2>. QED
    BY <1>3, <1>13, <2>1, AtOfTwoParts
<1>17. Above(text) = a /\ Below(text) = b /\ UserLines(text) = a \o b
  <2> HIDE DEF P, Q
  <2>. QED
    BY <1>11, <1>12, <1>14, <1>15, <1>16 DEF Above, Below, UserLines
<1>18. Len(text) = Len(a) + Len(b) + 3
  BY <1>3 DEF m, n
<1>. QED
  BY <1>3, <1>8, <1>9, <1>17, <1>18 DEF text

\* What ensure_gitignore makes of a text it accepts: the user's lines, with one
\* block among them.
LEMMA EnsuredText ==
    ASSUME NEW text \in Seq(Line), NEW c \in Config, WellMarked(text)
    PROVE  \E a, b \in Seq(Plain) :
               Ensured(text, c) = a \o Block(c) \o b /\ UserLines(text) = a \o b
<1>1. CASE Marked(text)
  BY <1>1, UserLinesAround DEF Ensured, Replaced
<1>2. CASE ~ Marked(text)
  <2>1. \A i \in DOMAIN text : text[i] # Begin /\ text[i] # End /\ ~ Opened(text, i)
    BY <1>2 DEF Marked, Lines, WellMarked, Opened
  <2>2. UserPlaces(text) = DOMAIN text
    BY <2>1 DEF UserPlaces, InBlock
  <2>3. UserLines(text) = text
    BY <2>2, AtOfAll DEF UserLines
  <2>4. text \in Seq(Plain)
    BY <2>2, <2>3, UserLinesArePlain DEF UserLines
  <2>5. Ensured(text, c) = text \o Block(c)
    BY <1>2 DEF Ensured
  <2>6. text \o Block(c) \in Seq(Line)
    BY GitignoreAssumption DEF Block, Line
  <2>7. (text \o Block(c)) \o <<>> = text \o Block(c) /\ text \o <<>> = text
    BY <2>6, ConcatEmptySeq
  <2>8. <<>> \in Seq(Plain)
    OBVIOUS
  <2>. QED
    BY <2>3, <2>4, <2>5, <2>7, <2>8
<1>. QED
  BY <1>1, <1>2

\* ensure_gitignore leaves one block and the user's lines, and settles.
LEMMA BlockSettles ==
    ASSUME NEW text \in Seq(Line), NEW c \in Config
    PROVE  EnsuresOneBlock(text, c)
<1> SUFFICES ASSUME WellMarked(text) PROVE EnsuresOneBlock(text, c)
  BY DEF EnsuresOneBlock
<1> DEFINE after == Ensured(text, c)
<1>1. PICK a \in Seq(Plain), b \in Seq(Plain) :
         after = a \o Block(c) \o b /\ UserLines(text) = a \o b
  BY EnsuredText
<1>2. /\ WellMarked(after) /\ Marked(after) /\ Ignores(after, c)
      /\ UserLines(after) = a \o b /\ Above(after) = a /\ Below(after) = b
      /\ Len(after) = Len(a) + Len(b) + 3
  BY <1>1, OneBlock
<1>3. Ensured(after, c) = after
  BY <1>1, <1>2 DEF Ensured, Replaced
<1>4. Len(a \o b) = Len(a) + Len(b) /\ Len(Block(c)) = 3
  BY DEF Block
<1> HIDE DEF after
<1>5. Len(after) = Len(UserLines(after)) + Len(Block(c))
  BY <1>2, <1>4
<1>. QED
  BY <1>1, <1>2, <1>3, <1>5 DEF EnsuresOneBlock, after

\* The lines of two texts, one after the other.
LEMMA LinesOfBoth ==
    ASSUME NEW a \in Seq(Line), NEW b \in Seq(Line)
    PROVE  a \o b \in Seq(Line) /\ Lines(a \o b) = Lines(a) \cup Lines(b)
<1> DEFINE ab == a \o b
           m == Len(a)
           n == Len(b)
<1>1. /\ ab \in Seq(Line)
      /\ DOMAIN ab = 1..(m + n) /\ m \in Nat /\ n \in Nat
      /\ DOMAIN a = 1..m /\ DOMAIN b = 1..n
      /\ \A i \in 1..m : ab[i] = a[i]
      /\ \A j \in 1..n : ab[m + j] = b[j]
  OBVIOUS
<1>2. \A i \in 1..(m + n) : i \in 1..m \/ (i - m \in 1..n /\ m + (i - m) = i)
  BY <1>1
<1> HIDE DEF ab, m, n
<1>3. ASSUME NEW i \in DOMAIN ab PROVE ab[i] \in Lines(a) \cup Lines(b)
  <2>1. CASE i \in 1..m
    BY <1>1, <2>1 DEF Lines
  <2>2. CASE i - m \in 1..n /\ m + (i - m) = i
    <3>1. ab[i] = b[i - m]
      BY <1>1, <2>2
    <3>. QED
      BY <1>1, <2>2, <3>1 DEF Lines
  <2>. QED
    BY <1>1, <1>2, <2>1, <2>2
<1>4. ASSUME NEW i \in DOMAIN a PROVE a[i] \in Lines(ab)
  <2>1. i \in DOMAIN ab /\ ab[i] = a[i]
    BY <1>1
  <2>. QED
    BY <2>1 DEF Lines
<1>5. ASSUME NEW j \in DOMAIN b PROVE b[j] \in Lines(ab)
  <2>1. m + j \in DOMAIN ab /\ ab[m + j] = b[j]
    BY <1>1
  <2>. QED
    BY <2>1 DEF Lines
<1>6. Lines(ab) = Lines(a) \cup Lines(b)
  BY <1>3, <1>4, <1>5 DEF Lines
<1>. QED
  BY <1>1, <1>6 DEF ab

\* What a command writes: the rules it has read outside the block, and its own.
LEMMA EnsuredLines ==
    ASSUME NEW text \in Seq(Line), NEW c \in Config, WellMarked(text)
    PROVE  /\ Ensured(text, c) \in Seq(Line)
           /\ Lines(UserLines(text)) \subseteq Lines(Ensured(text, c))
           /\ c \in Lines(Ensured(text, c))
<1>1. PICK a \in Seq(Plain), b \in Seq(Plain) :
         Ensured(text, c) = a \o Block(c) \o b /\ UserLines(text) = a \o b
  BY EnsuredText
<1>2. /\ a \o Block(c) \o b \in Seq(Line)
      /\ Ignores(a \o Block(c) \o b, c)
  BY OneBlock
<1>3. Block(c) \in Seq(Line) /\ a \in Seq(Line) /\ b \in Seq(Line)
  <2>1. Plain \subseteq Line /\ {Begin, c, End} \subseteq Line
    BY DEF Plain, Line
  <2>. QED
    BY <2>1 DEF Block
<1>4. /\ a \o Block(c) \in Seq(Line)
      /\ Lines(a \o Block(c)) = Lines(a) \cup Lines(Block(c))
  BY <1>3, LinesOfBoth
<1>5. Lines(a \o Block(c) \o b) = Lines(a \o Block(c)) \cup Lines(b)
  <2> DEFINE front == a \o Block(c)
  <2>1. front \in Seq(Line)
    BY <1>4
  <2> HIDE DEF front
  <2>2. Lines(front \o b) = Lines(front) \cup Lines(b)
    BY <1>3, <2>1, LinesOfBoth
  <2>. QED
    BY <2>2 DEF front
<1>6. Lines(a \o b) = Lines(a) \cup Lines(b)
  BY <1>3, LinesOfBoth
<1>. QED
  BY <1>1, <1>2, <1>4, <1>5, <1>6 DEF Ignores

\* A line that is no marker stays when a marker is cut.
LEMMA CutLines ==
    ASSUME NEW text \in Seq(Line), NEW i \in DOMAIN text
    PROVE  LET cut == SubSeq(text, 1, i - 1) \o SubSeq(text, i + 1, Len(text))
           IN  /\ cut \in Seq(Line)
               /\ Lines(text) \ {text[i]} \subseteq Lines(cut)
<1> DEFINE a == SubSeq(text, 1, i - 1)
           b == SubSeq(text, i + 1, Len(text))
           n == Len(text)
<1>1. n \in Nat /\ i \in 1..n /\ DOMAIN text = 1..n
  OBVIOUS
<1>2. /\ a \in Seq(Line) /\ Len(a) = i - 1
      /\ \A k \in 1..i - 1 : a[k] = text[k]
  BY <1>1
<1>3. /\ b \in Seq(Line) /\ Len(b) = n - i
      /\ \A k \in 1..n - i : b[k] = text[i + k]
  BY <1>1
<1> HIDE DEF a, b, n
<1>4. a \o b \in Seq(Line) /\ Lines(a \o b) = Lines(a) \cup Lines(b)
  BY <1>2, <1>3, LinesOfBoth
<1>5. ASSUME NEW k \in DOMAIN text, k # i
      PROVE  text[k] \in Lines(a) \cup Lines(b)
  <2>1. CASE k < i
    <3>1. k \in DOMAIN a /\ a[k] = text[k]
      BY <1>1, <1>2, <2>1
    <3>. QED
      BY <3>1 DEF Lines
  <2>2. CASE k > i
    <3>1. k - i \in 1..n - i /\ i + (k - i) = k
      BY <1>1, <2>2
    <3>2. k - i \in DOMAIN b /\ b[k - i] = text[k]
      BY <1>3, <3>1
    <3>. QED
      BY <3>2 DEF Lines
  <2>. QED
    BY <1>1, <1>5, <2>1, <2>2
<1>6. Lines(text) \ {text[i]} \subseteq Lines(a \o b)
  BY <1>4, <1>5 DEF Lines
<1>. QED
  BY <1>4, <1>6 DEF a, b

----------------------------------------------------------------------------
(* The steps of the commands.                                              *)

LEMMA InitIInv == Init => IInv
<1> SUFFICES ASSUME Init PROVE IInv
  OBVIOUS
<1>1. PICK rule \in Rule : gitignore = <<rule>>
  BY DEF Init
<1>2. gitignore \in Seq(Line) /\ Lines(gitignore) = {rule}
  BY <1>1 DEF Lines, Line
<1>3. \A s \in Session : op[s] = Idle
  BY DEF Init
<1>4. Idle \in Operation
  BY DEF Idle, Operation, Steps
<1>5. StateTypeOK
  <2>1. op \in [Session -> Operation]
    BY <1>4 DEF Init
  <2>2. \A s \in Session : op[s].id = None /\ op[s].step = "idle" /\ op[s].config = None
    BY <1>3 DEF Idle
  <2>3. package \in [Id -> {"none", "open", "complete"}]
    BY DEF Init
  <2>4. calls \in 0 .. CallCap /\ edits \in 0 .. EditCap
    BY HandoffAssumption DEF Init
  <2>5. rules \in SUBSET Rule /\ exposed \in SUBSET Rule
    BY <1>2 DEF Init
  <2>6. config \in Config /\ active = None /\ progress = {} /\ index = {} /\ commits = {}
        /\ reconfigured = FALSE
    BY DEF Init
  <2>. QED
    BY <1>2, <2>1, <2>2, <2>3, <2>4, <2>5, <2>6 DEF StateTypeOK
<1>6. UserRulesKept /\ RulesHeld /\ LiveProgressStaysOut
  BY <1>3 DEF Init, UserRulesKept, RulesHeld, LiveProgressStaysOut, Idle
<1>7. Covered
  BY <1>3 DEF Init, Covered, LiveAround, Idle
<1>. QED
  BY <1>5, <1>6, <1>7 DEF IInv

\* The types of the state give those of the specification.
LEMMA TypesHold == StateTypeOK => TypeOK
<1> SUFFICES ASSUME StateTypeOK PROVE TypeOK
  OBVIOUS
<1>1. ASSUME NEW s \in Session
      PROVE  /\ op[s].step \in Steps
             /\ op[s].text \in Seq(Line)
  BY DEF StateTypeOK, Operation
<1>2. \A s \in Session :
          /\ op[s].step \in {"idle", "ignore", "place", "entry", "first", "write", "replace",
                             "archive", "add", "commit"}
          /\ op[s].id \in Id \/ (op[s].id = None /\ op[s].step \in {"idle", "ignore"})
          /\ op[s].config \in Config \/ (op[s].config = None /\ op[s].step = "idle")
          /\ op[s].text \in Seq(Line)
  BY <1>1 DEF StateTypeOK, Steps
<1>. QED
  BY <1>2 DEF StateTypeOK, TypeOK

\* A command that begins.
LEMMA BeginsEffect ==
    ASSUME StateTypeOK, NEW s \in Session, NEW step \in Steps, NEW id, NEW text \in Seq(Line),
           Begins(s, step, id, text),
           id \in Id \/ (id = None /\ step = "ignore")
    PROVE  /\ op' \in [Session -> Operation]
           /\ op'[s].step = step /\ op'[s].id = id /\ op'[s].config = config /\ op'[s].text = text
           /\ \A t \in Session : t # s => op'[t] = op[t]
           /\ \A t \in Session :
                 /\ op'[t].id \in Id \/ (op'[t].id = None /\ op'[t].step \in {"idle", "ignore"})
                 /\ op'[t].config \in Config \/ (op'[t].config = None /\ op'[t].step = "idle")
           /\ calls' \in 0 .. CallCap
<1> DEFINE o == [step |-> step, id |-> id, config |-> config, text |-> text]
<1>1. o \in Operation /\ op' = [op EXCEPT ![s] = o]
  BY DEF StateTypeOK, Begins, Operation
<1>2. o.step = step /\ o.id = id /\ o.config = config /\ o.text = text
  OBVIOUS
<1> HIDE DEF o
<1>3. op'[s] = o /\ op' \in [Session -> Operation] /\ \A t \in Session : t # s => op'[t] = op[t]
  BY <1>1 DEF StateTypeOK
<1>4. calls' \in 0 .. CallCap
  BY HandoffAssumption DEF StateTypeOK, Begins
<1>. QED
  BY <1>2, <1>3, <1>4 DEF StateTypeOK

\* A command that goes on.
LEMMA GoesEffect ==
    ASSUME StateTypeOK, NEW s \in Session, NEW step \in Steps, Goes(s, step),
           op[s].step # "idle", op[s].id # None
    PROVE  /\ op' \in [Session -> Operation]
           /\ op'[s].step = step /\ op'[s].config = op[s].config /\ op'[s].id = op[s].id
           /\ \A t \in Session : t # s => op'[t] = op[t]
           /\ \A t \in Session :
                 /\ op'[t].id \in Id \/ (op'[t].id = None /\ op'[t].step \in {"idle", "ignore"})
                 /\ op'[t].config \in Config \/ (op'[t].config = None /\ op'[t].step = "idle")
<1> DEFINE o == [op[s] EXCEPT !.step = step, !.text = <<>>]
<1>1. op[s] \in Operation
  BY DEF StateTypeOK
<1>2. /\ o \in Operation
      /\ o.step = step /\ o.id = op[s].id /\ o.config = op[s].config
  <2>1. <<>> \in Seq(Line)
    OBVIOUS
  <2>. QED
    BY <1>1, <2>1 DEF Operation
<1>3. op' = [op EXCEPT ![s] = o]
  BY DEF Goes, StateTypeOK
<1> HIDE DEF o
<1>4. op'[s] = o /\ op' \in [Session -> Operation] /\ \A t \in Session : t # s => op'[t] = op[t]
  BY <1>2, <1>3 DEF StateTypeOK
<1>. QED
  BY <1>2, <1>4 DEF StateTypeOK

\* A command that ends.
LEMMA EndsEffect ==
    ASSUME StateTypeOK, NEW s \in Session, Ends(s)
    PROVE  /\ op' \in [Session -> Operation]
           /\ op'[s].step = "idle"
           /\ \A t \in Session : t # s => op'[t] = op[t]
           /\ \A t \in Session :
                 /\ op'[t].id \in Id \/ (op'[t].id = None /\ op'[t].step \in {"idle", "ignore"})
                 /\ op'[t].config \in Config \/ (op'[t].config = None /\ op'[t].step = "idle")
<1>1. Idle \in Operation /\ Idle.step = "idle" /\ Idle.id = None /\ Idle.config = None
  BY DEF Idle, Operation, Steps
<1>2. op'[s] = Idle /\ op' \in [Session -> Operation] /\ \A t \in Session : t # s => op'[t] = op[t]
  BY <1>1 DEF StateTypeOK, Ends
<1>. QED
  BY <1>1, <1>2 DEF StateTypeOK

\* Commands that neither read nor write .gitignore leave the rules as they were.
LEMMA RulesFrame ==
    ASSUME UserRulesKept, RulesHeld, UNCHANGED <<gitignore, rules, exposed>>,
           NEW s \in Session, op'[s].step # "ignore", \A t \in Session : t # s => op'[t] = op[t]
    PROVE  UserRulesKept' /\ RulesHeld'
<1>1. UserRulesKept'
  BY DEF UserRulesKept
<1>2. ASSUME NEW t \in Session, op'[t].step = "ignore"
      PROVE  WellMarked(op'[t].text) /\ rules' \ exposed' \subseteq Lines(UserLines(op'[t].text))
  <2>1. op'[t] = op[t]
    BY <1>2
  <2>. QED
    BY <1>2, <2>1 DEF RulesHeld
<1>. QED
  BY <1>1, <1>2 DEF RulesHeld

\* ensure_gitignore, reading.
LEMMA ReadIgnoreKeepsIInv ==
    ASSUME IInv, NEW s \in Session, NEW id \in Id \cup {None}, ReadIgnore(s, id)
    PROVE  IInv'
<1> USE DEF IInv
<1>1. /\ op' \in [Session -> Operation]
      /\ op'[s].step = "ignore" /\ op'[s].id = id /\ op'[s].config = config /\ op'[s].text = gitignore
      /\ \A t \in Session : t # s => op'[t] = op[t]
      /\ \A t \in Session :
            /\ op'[t].id \in Id \/ (op'[t].id = None /\ op'[t].step \in {"idle", "ignore"})
            /\ op'[t].config \in Config \/ (op'[t].config = None /\ op'[t].step = "idle")
      /\ calls' \in 0 .. CallCap
  <2>1. /\ Begins(s, "ignore", id, gitignore) /\ "ignore" \in Steps
        /\ gitignore \in Seq(Line)
    BY DEF ReadIgnore, Steps, StateTypeOK
  <2>. QED
    BY <2>1, BeginsEffect
<1>2. /\ WellMarked(gitignore)
      /\ exposed' = exposed \cup ((rules \cap Lines(gitignore)) \ Lines(UserLines(gitignore)))
      /\ UNCHANGED <<gitignore, active, package, progress, index, commits, config, edits, rules, reconfigured>>
  BY DEF ReadIgnore, FindsBlock, tree, repository
<1>3. StateTypeOK'
  BY <1>1, <1>2 DEF StateTypeOK
<1>4. UserRulesKept'
  BY <1>2 DEF UserRulesKept
<1>5. ASSUME NEW t \in Session, op'[t].step = "ignore"
      PROVE  WellMarked(op'[t].text) /\ rules' \ exposed' \subseteq Lines(UserLines(op'[t].text))
  <2>1. CASE t = s
    BY <1>1, <1>2, <2>1 DEF UserRulesKept
  <2>2. CASE t # s
    BY <1>1, <1>2, <1>5, <2>2 DEF RulesHeld
  <2>. QED
    BY <2>1, <2>2
<1>6. RulesHeld'
  BY <1>5 DEF RulesHeld
<1>7. ~ reconfigured' => Covered'
  <2>1. SUFFICES ASSUME ~ reconfigured PROVE Covered'
    BY <1>2
  <2>2. LiveAround' => LiveAround
    BY <1>1, <1>2 DEF LiveAround
  <2>. QED
    BY <1>1, <1>2, <2>1, <2>2 DEF Covered
<1>8. LiveProgressStaysOut'
  BY <1>2 DEF LiveProgressStaysOut
<1>. QED
  BY <1>3, <1>4, <1>6, <1>7, <1>8

\* ensure_gitignore, writing.
LEMMA WriteIgnoreKeepsIInv ==
    ASSUME IInv, NEW s \in Session, WriteIgnore(s)
    PROVE  IInv'
<1> USE DEF IInv
<1> DEFINE text == op[s].text
           c == op[s].config
           new == Ensured(text, c)
<1>1. /\ op[s].step = "ignore" /\ text \in Seq(Line) /\ c \in Config
      /\ WellMarked(text) /\ rules \ exposed \subseteq Lines(UserLines(text))
  BY DEF WriteIgnore, StateTypeOK, Operation, RulesHeld
<1>2. /\ new \in Seq(Line) /\ c \in Lines(new)
      /\ Lines(UserLines(text)) \subseteq Lines(new)
  BY <1>1, EnsuredLines
<1>3. /\ gitignore' = IF new = text THEN gitignore ELSE new
      /\ UNCHANGED <<active, package, progress, index, commits, calls, config, edits, rules,
                     exposed, reconfigured>>
  BY DEF WriteIgnore, tree, repository, user
<1> HIDE DEF new
<1>4. /\ op' \in [Session -> Operation]
      /\ op'[s].step \in {"idle", "place"}
      /\ op'[s].step = "place" => op'[s].config = c
      /\ \A t \in Session : t # s => op'[t] = op[t]
      /\ \A t \in Session :
            /\ op'[t].id \in Id \/ (op'[t].id = None /\ op'[t].step \in {"idle", "ignore"})
            /\ op'[t].config \in Config \/ (op'[t].config = None /\ op'[t].step = "idle")
  <2>1. CASE op[s].id = None
    BY <2>1, EndsEffect DEF WriteIgnore, AfterIgnore
  <2>2. CASE op[s].id # None
    <3>1. Goes(s, "place") /\ "place" \in Steps
      BY <2>2 DEF WriteIgnore, AfterIgnore, Steps
    <3>. QED
      BY <1>1, <2>2, <3>1, GoesEffect
  <2>. QED
    BY <2>1, <2>2
<1>5. StateTypeOK'
  BY <1>2, <1>3, <1>4 DEF StateTypeOK
<1>6. UserRulesKept'
  BY <1>1, <1>2, <1>3 DEF UserRulesKept
<1>7. RulesHeld'
  <2>1. \A t \in Session : op'[t].step = "ignore" => op'[t] = op[t]
    BY <1>4
  <2>. QED
    BY <1>3, <2>1 DEF RulesHeld
<1>8. ~ reconfigured' => Covered'
  <2>1. SUFFICES ASSUME ~ reconfigured PROVE Covered'
    BY <1>3
  <2>2. c = config
    BY <1>1, <2>1 DEF Covered
  <2>3. config \in Lines(gitignore')
    BY <1>1, <1>2, <1>3, <2>1, <2>2 DEF Covered
  <2>4. \A t \in Session : op'[t].step # "idle" => op'[t].config = config
    BY <1>4, <2>1, <2>2 DEF Covered
  <2>. QED
    BY <1>3, <2>1, <2>3, <2>4 DEF Covered
<1>9. LiveProgressStaysOut'
  BY <1>3 DEF LiveProgressStaysOut
<1>. QED
  BY <1>5, <1>6, <1>7, <1>8, <1>9

\* The commands that put a package and its progress file in place.
LEMMA PlaceKeepsIInv ==
    ASSUME IInv, NEW s \in Session, Place(s)
    PROVE  IInv'
<1> USE DEF IInv
<1>1. /\ op[s].step = "place" /\ op[s].id \in Id
      /\ package' = [package EXCEPT ![op[s].id] = "open"] /\ active' = op[s].id
      /\ UNCHANGED <<gitignore, progress, index, commits, calls, config, edits, rules, exposed,
                     reconfigured>>
  BY DEF Place, repository, user, StateTypeOK
<1>2. op[s].id # None
  BY <1>1, HandoffAssumption DEF Id
<1>3. /\ op' \in [Session -> Operation]
      /\ op'[s].step = "entry" /\ op'[s].config = op[s].config
      /\ \A t \in Session : t # s => op'[t] = op[t]
      /\ \A t \in Session :
            /\ op'[t].id \in Id \/ (op'[t].id = None /\ op'[t].step \in {"idle", "ignore"})
            /\ op'[t].config \in Config \/ (op'[t].config = None /\ op'[t].step = "idle")
  <2>1. Goes(s, "entry") /\ "entry" \in Steps
    BY DEF Place, Steps
  <2>. QED
    BY <1>1, <1>2, <2>1, GoesEffect
<1>4. StateTypeOK'
  BY <1>1, <1>3 DEF StateTypeOK
<1>5. UserRulesKept' /\ RulesHeld'
  BY <1>1, <1>3, RulesFrame
<1>6. ~ reconfigured' => Covered'
  <2>1. SUFFICES ASSUME ~ reconfigured PROVE Covered'
    BY <1>1
  <2>2. config \in Lines(gitignore)
    BY <1>1, <2>1 DEF Covered, LiveAround
  <2>. QED
    BY <1>1, <1>3, <2>1, <2>2 DEF Covered
<1>7. LiveProgressStaysOut'
  BY <1>1 DEF LiveProgressStaysOut
<1>. QED
  BY <1>4, <1>5, <1>6, <1>7

LEMMA StageEntryKeepsIInv ==
    ASSUME IInv, NEW s \in Session, StageEntry(s)
    PROVE  IInv'
<1> USE DEF IInv
<1> DEFINE new == [name |-> "temporary", place |-> "work", id |-> op[s].id, config |-> op[s].config]
           step == IF op[s].step = "entry" THEN "first" ELSE "replace"
<1>1. /\ op[s].step \in {"entry", "write"} /\ op[s].id \in Id /\ op[s].config \in Config
      /\ progress' = progress \cup {new}
      /\ Goes(s, step)
      /\ UNCHANGED <<gitignore, active, package, index, commits, calls, config, edits, rules,
                     exposed, reconfigured>>
  BY DEF StageEntry, repository, user, StateTypeOK
<1>2. new \in File /\ new.config = op[s].config
  BY <1>1 DEF File
<1> HIDE DEF new
<1>3. /\ op' \in [Session -> Operation]
      /\ op'[s].step \in {"first", "replace"} /\ op'[s].config = op[s].config
      /\ \A t \in Session : t # s => op'[t] = op[t]
      /\ \A t \in Session :
            /\ op'[t].id \in Id \/ (op'[t].id = None /\ op'[t].step \in {"idle", "ignore"})
            /\ op'[t].config \in Config \/ (op'[t].config = None /\ op'[t].step = "idle")
  <2>1. step \in {"first", "replace"} /\ step \in Steps
    BY DEF Steps
  <2>2. op[s].id # None
    BY <1>1, HandoffAssumption DEF Id
  <2> HIDE DEF step
  <2>. QED
    BY <1>1, <2>1, <2>2, GoesEffect
<1>4. StateTypeOK'
  BY <1>1, <1>2, <1>3 DEF StateTypeOK
<1>5. UserRulesKept' /\ RulesHeld'
  BY <1>1, <1>3, RulesFrame
<1>6. ~ reconfigured' => Covered'
  <2>1. SUFFICES ASSUME ~ reconfigured PROVE Covered'
    BY <1>1
  <2>2. config \in Lines(gitignore)
    BY <1>1, <2>1 DEF Covered, LiveAround
  <2>3. op[s].config = config
    BY <1>1, <2>1 DEF Covered
  <2>. QED
    BY <1>1, <1>2, <1>3, <2>1, <2>2, <2>3 DEF Covered
<1>7. LiveProgressStaysOut'
  BY <1>1 DEF LiveProgressStaysOut
<1>. QED
  BY <1>4, <1>5, <1>6, <1>7

\* A command that ends and takes progress files away, names them otherwise, or
\* moves them out of the place that the rules speak of.
LEMMA EndKeepsIInv ==
    ASSUME IInv, NEW s \in Session, Ends(s),
           UNCHANGED <<gitignore, calls, index, commits, config, edits, rules, exposed, reconfigured>>,
           package' \in [Id -> {"none", "open", "complete"}],
           active' \in {active, None},
           progress' \in SUBSET File,
           \A f \in progress' : \E g \in progress :
               f.config = g.config /\ (f.place = "work" => g.place = "work")
    PROVE  IInv'
<1> USE DEF IInv
<1>1. /\ op' \in [Session -> Operation]
      /\ op'[s].step = "idle"
      /\ \A t \in Session : t # s => op'[t] = op[t]
      /\ \A t \in Session :
            /\ op'[t].id \in Id \/ (op'[t].id = None /\ op'[t].step \in {"idle", "ignore"})
            /\ op'[t].config \in Config \/ (op'[t].config = None /\ op'[t].step = "idle")
  BY EndsEffect
<1>2. StateTypeOK'
  BY <1>1 DEF StateTypeOK
<1>3. UserRulesKept' /\ RulesHeld'
  BY <1>1, RulesFrame
<1>4. ~ reconfigured' => Covered'
  <2>1. SUFFICES ASSUME ~ reconfigured PROVE Covered'
    OBVIOUS
  <2>2. LiveAround' => LiveAround
    BY <1>1 DEF LiveAround
  <2>. QED
    BY <1>1, <2>1, <2>2 DEF Covered
<1>5. LiveProgressStaysOut'
  BY DEF LiveProgressStaysOut
<1>. QED
  BY <1>2, <1>3, <1>4, <1>5

LEMMA CreationFailsKeepsIInv ==
    ASSUME IInv, NEW s \in Session, CreationFails(s)
    PROVE  IInv'
<1>1. /\ package' \in [Id -> {"none", "open", "complete"}]
      /\ active' \in {active, None}
      /\ progress' \in SUBSET File
      /\ \A f \in progress' : f \in progress
  BY DEF CreationFails, IInv, StateTypeOK
<1>. QED
  BY <1>1, EndKeepsIInv DEF CreationFails, repository, user

\* A file of the same package under another name.
LEMMA RenamedFile ==
    ASSUME StateTypeOK, NEW f \in progress, NEW name \in {"progress", "temporary", "stray"}
    PROVE  /\ [f EXCEPT !.name = name] \in File
           /\ [f EXCEPT !.name = name].config = f.config
           /\ [f EXCEPT !.name = name].place = f.place
BY DEF StateTypeOK, File

LEMMA WriteEntryKeepsIInv ==
    ASSUME IInv, NEW s \in Session, WriteEntry(s)
    PROVE  IInv'
<1>1. PICK f \in Staged(s) : progress' = (progress \ {f}) \cup {[f EXCEPT !.name = "progress"]}
  BY DEF WriteEntry
<1>2. f \in progress
  BY DEF Staged
<1> DEFINE new == [f EXCEPT !.name = "progress"]
<1>3. new \in File /\ new.config = f.config /\ new.place = f.place
  BY <1>2, RenamedFile DEF IInv
<1>4. progress' = (progress \ {f}) \cup {new}
  BY <1>1
<1> HIDE DEF new
<1>5. /\ progress' \in SUBSET File
      /\ \A h \in progress' : \E g \in progress :
               h.config = g.config /\ (h.place = "work" => g.place = "work")
  BY <1>2, <1>3, <1>4 DEF IInv, StateTypeOK
<1>6. package' \in [Id -> {"none", "open", "complete"}] /\ active' \in {active, None}
  BY DEF WriteEntry, IInv, StateTypeOK
<1>. QED
  BY <1>5, <1>6, EndKeepsIInv DEF WriteEntry, repository, user

LEMMA EntryFailsKeepsIInv ==
    ASSUME IInv, NEW s \in Session, EntryFails(s)
    PROVE  IInv'
<1>1. /\ package' \in [Id -> {"none", "open", "complete"}]
      /\ active' \in {active, None}
      /\ progress' \in SUBSET File
      /\ \A f \in progress' : f \in progress
  BY DEF EntryFails, IInv, StateTypeOK
<1>. QED
  BY <1>1, EndKeepsIInv DEF EntryFails, repository, user

LEMMA CommandFailsKeepsIInv ==
    ASSUME IInv, NEW s \in Session, CommandFails(s)
    PROVE  IInv'
<1> DEFINE strays == {[f EXCEPT !.name = "stray"] : f \in Staged(s)}
<1>1. /\ package' \in [Id -> {"none", "open", "complete"}]
      /\ active' \in {active, None}
      /\ progress' = (progress \ Staged(s)) \cup strays
  BY DEF CommandFails, IInv, StateTypeOK
<1>2. ASSUME NEW f \in strays
      PROVE  f \in File /\ \E g \in progress : f.config = g.config /\ f.place = g.place
  <2>1. PICK g \in Staged(s) : f = [g EXCEPT !.name = "stray"]
    OBVIOUS
  <2>2. g \in progress
    BY DEF Staged
  <2>. QED
    BY <2>1, <2>2, RenamedFile DEF IInv
<1>3. /\ progress' \in SUBSET File
      /\ \A f \in progress' : \E g \in progress :
               f.config = g.config /\ (f.place = "work" => g.place = "work")
  <2> HIDE DEF strays
  <2>. QED
    BY <1>1, <1>2 DEF IInv, StateTypeOK
<1>. QED
  BY <1>1, <1>3, EndKeepsIInv DEF CommandFails, repository, user

\* An archived file is out of the reach of the rules, and no live one.
LEMMA ArchiveKeepsIInv ==
    ASSUME IInv, NEW s \in Session, Archive(s)
    PROVE  IInv'
<1> DEFINE id == op[s].id
           moved == {[f EXCEPT !.place = "archive"] : f \in Live(id)}
<1>1. /\ package' \in [Id -> {"none", "open", "complete"}]
      /\ active' \in {active, None}
      /\ progress' = (progress \ Live(id)) \cup moved
  BY DEF Archive, IInv, StateTypeOK
<1>2. ASSUME NEW f \in moved
      PROVE  f \in File /\ \E g \in progress : f.config = g.config /\ f.place = "archive"
  <2>1. PICK g \in Live(id) : f = [g EXCEPT !.place = "archive"]
    OBVIOUS
  <2>2. g \in progress /\ g \in File
    BY <2>1 DEF Live, IInv, StateTypeOK
  <2>. QED
    BY <2>1, <2>2 DEF File
<1>3. /\ progress' \in SUBSET File
      /\ \A f \in progress' : \E g \in progress :
               f.config = g.config /\ (f.place = "work" => g.place = "work")
  <2> HIDE DEF moved
  <2>. QED
    BY <1>1, <1>2 DEF IInv, StateTypeOK
<1>. QED
  BY <1>1, <1>3, EndKeepsIInv DEF Archive, repository, user

\* A command other than ensure_gitignore that begins.
LEMMA BeginKeepsIInv ==
    ASSUME IInv, NEW s \in Session, NEW step \in {"write", "archive", "add"}, NEW id \in Id,
           Begins(s, step, id, <<>>),
           step = "write" => active # None,
           package' \in [Id -> {"none", "open", "complete"}],
           UNCHANGED <<gitignore, active, progress, index, commits, config, edits, rules, exposed,
                       reconfigured>>
    PROVE  IInv'
<1> USE DEF IInv
<1>1. /\ op' \in [Session -> Operation]
      /\ op'[s].step = step /\ op'[s].config = config
      /\ \A t \in Session : t # s => op'[t] = op[t]
      /\ \A t \in Session :
            /\ op'[t].id \in Id \/ (op'[t].id = None /\ op'[t].step \in {"idle", "ignore"})
            /\ op'[t].config \in Config \/ (op'[t].config = None /\ op'[t].step = "idle")
      /\ calls' \in 0 .. CallCap
  <2>1. step \in Steps /\ <<>> \in Seq(Line)
    BY DEF Steps
  <2>2. PICK text \in Seq(Line) : Begins(s, step, id, text)
    BY <2>1
  <2>. QED
    BY <2>1, <2>2, BeginsEffect
<1>2. StateTypeOK'
  BY <1>1 DEF StateTypeOK
<1>3. UserRulesKept' /\ RulesHeld'
  BY <1>1, RulesFrame
<1>4. ~ reconfigured' => Covered'
  <2>1. SUFFICES ASSUME ~ reconfigured PROVE Covered'
    OBVIOUS
  <2>2. LiveAround' => LiveAround
    BY <1>1 DEF LiveAround
  <2>. QED
    BY <1>1, <2>1, <2>2 DEF Covered
<1>5. LiveProgressStaysOut'
  BY DEF LiveProgressStaysOut
<1>. QED
  BY <1>2, <1>3, <1>4, <1>5

LEMMA BeginWriteKeepsIInv ==
    ASSUME IInv, NEW s \in Session, BeginWrite(s)
    PROVE  IInv'
<1>1. active \in Id /\ active # None /\ package' \in [Id -> {"none", "open", "complete"}]
  BY DEF BeginWrite, tree, IInv, StateTypeOK
<1>2. Begins(s, "write", active, <<>>)
  BY DEF BeginWrite
<1>. QED
  BY <1>1, <1>2, BeginKeepsIInv DEF BeginWrite, tree, repository, user

LEMMA PassLastKeepsIInv ==
    ASSUME IInv, NEW s \in Session, NEW id \in Id, PassLast(s, id)
    PROVE  IInv'
<1>1. package' \in [Id -> {"none", "open", "complete"}]
  BY DEF PassLast, IInv, StateTypeOK
<1>2. Begins(s, "archive", id, <<>>)
  BY DEF PassLast
<1>. QED
  BY <1>1, <1>2, BeginKeepsIInv DEF PassLast, repository, user

\* The package of a commit is one of those that are there.
LEMMA ChooseKeepsIInv ==
    ASSUME IInv, NEW s \in Session, Choose(s)
    PROVE  IInv'
<1> DEFINE id == CHOOSE i \in Candidates : \A j \in Candidates : i <= j
           Rank(i) == Cardinality({j \in Candidates : j <= i})
           n == Cardinality(Candidates)
<1>1. Candidates \in SUBSET Nat /\ IsFiniteSet(Candidates) /\ Candidates # {}
  <2>1. Candidates \in SUBSET Id /\ Candidates # {}
    BY DEF Candidates, Choose
  <2>2. Id \in SUBSET Nat /\ IsFiniteSet(Id)
    <3>1. LastId \in Nat
      BY HandoffAssumption
    <3>2. IsFiniteSet(1..LastId)
      BY <3>1, FS_Interval
    <3>. QED
      BY <3>1, <3>2 DEF Id
  <2> HIDE DEF Candidates
  <2>3. IsFiniteSet(Candidates)
    BY <2>1, <2>2, FS_Subset
  <2>. QED
    BY <2>1, <2>2, <2>3
<1>2. /\ n \in Nat
      /\ \A i \in Candidates : Rank(i) \in 1..n
      /\ \A i, j \in Candidates : i < j => Rank(i) < Rank(j)
      /\ \A k \in 1..n : \E i \in Candidates : Rank(i) = k
  BY <1>1, Ranks
<1> HIDE DEF Rank, n
<1>3. PICK i \in Candidates : Rank(i) = 1
  <2>1. PICK j \in Candidates : TRUE
    BY <1>1
  <2>2. Rank(j) \in 1..n
    BY <1>2
  <2>3. 1 \in 1..n
    BY <1>2, <2>2
  <2>. QED
    BY <1>2, <2>3
<1>4. ASSUME NEW j \in Candidates
      PROVE  i <= j
  <2>1. Rank(j) \in 1..n
    BY <1>2
  <2>2. ~ (j < i)
    BY <1>2, <1>3, <2>1
  <2>. QED
    BY <1>1, <2>2
<1>5. id \in Id
  BY <1>3, <1>4 DEF Candidates
<1>6. /\ Begins(s, "add", id, <<>>)
      /\ UNCHANGED <<gitignore, active, package, progress, index, commits, config, edits, rules,
                     exposed, reconfigured>>
  BY DEF Choose, tree, repository, user
<1> HIDE DEF id
<1>7. package' \in [Id -> {"none", "open", "complete"}]
  BY <1>6 DEF IInv, StateTypeOK
<1>. QED
  BY <1>5, <1>6, <1>7, BeginKeepsIInv

\* What is staged is on disk and covered by no rule, unless it was staged before.
LEMMA AddKeepsIInv ==
    ASSUME IInv, NEW s \in Session, Add(s)
    PROVE  IInv'
<1> USE DEF IInv
<1>1. /\ op[s].step = "add" /\ op[s].id \in Id
      /\ index' = {f \in progress : f \in index \/ ~ Ignored(f)}
      /\ UNCHANGED <<gitignore, active, package, progress, commits, calls, config, edits, rules,
                     exposed, reconfigured>>
  BY DEF Add, tree, user, StateTypeOK
<1>2. op[s].id # None
  BY <1>1, HandoffAssumption DEF Id
<1>3. /\ op' \in [Session -> Operation]
      /\ op'[s].step = "commit" /\ op'[s].config = op[s].config
      /\ \A t \in Session : t # s => op'[t] = op[t]
      /\ \A t \in Session :
            /\ op'[t].id \in Id \/ (op'[t].id = None /\ op'[t].step \in {"idle", "ignore"})
            /\ op'[t].config \in Config \/ (op'[t].config = None /\ op'[t].step = "idle")
  <2>1. Goes(s, "commit") /\ "commit" \in Steps
    BY DEF Add, Steps
  <2>. QED
    BY <1>1, <1>2, <2>1, GoesEffect
<1>4. StateTypeOK'
  BY <1>1, <1>3 DEF StateTypeOK
<1>5. UserRulesKept' /\ RulesHeld'
  BY <1>1, <1>3, RulesFrame
<1>6. ~ reconfigured' => Covered'
  <2>1. SUFFICES ASSUME ~ reconfigured PROVE Covered'
    BY <1>1
  <2>2. LiveAround' => LiveAround
    BY <1>1, <1>3 DEF LiveAround
  <2>3. ASSUME NEW f \in index', f.place = "work", f.name = "progress" PROVE FALSE
    <3>1. f \in progress /\ (f \in index \/ ~ Ignored(f))
      BY <1>1
    <3>2. config \in Lines(gitignore) /\ f.config = config
      BY <2>1, <2>3, <3>1 DEF Covered, LiveAround
    <3>. QED
      BY <2>1, <2>3, <3>1, <3>2 DEF Covered, Ignored, Ignores
  <2>. QED
    BY <1>1, <1>3, <2>1, <2>2, <2>3 DEF Covered
<1>7. LiveProgressStaysOut'
  BY <1>1 DEF LiveProgressStaysOut
<1>. QED
  BY <1>4, <1>5, <1>6, <1>7

LEMMA CommitKeepsIInv ==
    ASSUME IInv, NEW s \in Session, Commit(s)
    PROVE  IInv'
<1> USE DEF IInv
<1>1. /\ op[s].step = "commit" /\ op[s].id \in Id
      /\ commits' = commits \cup {index}
      /\ Ends(s)
      /\ UNCHANGED <<gitignore, active, package, progress, index, calls, config, edits, rules,
                     exposed, reconfigured>>
  BY DEF Commit, tree, user, StateTypeOK, Operation
<1>2. /\ op' \in [Session -> Operation]
      /\ op'[s].step = "idle"
      /\ \A t \in Session : t # s => op'[t] = op[t]
      /\ \A t \in Session :
            /\ op'[t].id \in Id \/ (op'[t].id = None /\ op'[t].step \in {"idle", "ignore"})
            /\ op'[t].config \in Config \/ (op'[t].config = None /\ op'[t].step = "idle")
  BY <1>1, EndsEffect
<1>3. StateTypeOK'
  BY <1>1, <1>2 DEF StateTypeOK
<1>4. UserRulesKept' /\ RulesHeld'
  BY <1>1, <1>2, RulesFrame
<1>5. ~ reconfigured' => Covered'
  <2>1. SUFFICES ASSUME ~ reconfigured PROVE Covered'
    BY <1>1
  <2>2. LiveAround' => LiveAround
    BY <1>1, <1>2 DEF LiveAround
  <2>. QED
    BY <1>1, <1>2, <2>1, <2>2 DEF Covered
<1>6. LiveProgressStaysOut'
  <2>1. (\E f \in index : f.place = "work" /\ f.name = "progress") => reconfigured
    BY DEF Covered
  <2>. QED
    BY <1>1, <2>1 DEF LiveProgressStaysOut
<1>. QED
  BY <1>3, <1>4, <1>5, <1>6

----------------------------------------------------------------------------
(* The steps of the user.                                                  *)

\* An edit takes no pattern away, and a rule it adds is counted as exposed when a
\* command is about to write.
LEMMA EditKeepsIInv ==
    ASSUME IInv, NEW text \in Seq(Line), Edits(text), NEW added \in SUBSET Rule,
           (Lines(gitignore) \cap (Rule \cup Config)) \cup added \subseteq Lines(text),
           rules' = rules \cup added,
           exposed' = exposed \/ exposed' = exposed \cup added,
           (\E s \in Session : op[s].step = "ignore") => added \subseteq exposed'
    PROVE  IInv'
<1> USE DEF IInv
<1>1. /\ gitignore' = text /\ edits' = edits + 1 /\ edits < EditCap
      /\ UNCHANGED <<active, package, progress, index, commits, config, op, calls, reconfigured>>
  BY DEF Edits, tree, repository
<1>2. StateTypeOK'
  <2>1. edits' \in 0 .. EditCap
    BY <1>1, HandoffAssumption DEF StateTypeOK
  <2>2. rules' \in SUBSET Rule /\ exposed' \in SUBSET Rule
    BY DEF StateTypeOK
  <2>. QED
    BY <1>1, <2>1, <2>2 DEF StateTypeOK
<1>3. UserRulesKept'
  BY <1>1 DEF UserRulesKept, StateTypeOK
<1>4. RulesHeld'
  BY <1>1 DEF RulesHeld
<1>5. ~ reconfigured' => Covered'
  <2>1. SUFFICES ASSUME ~ reconfigured PROVE Covered'
    BY <1>1
  <2>2. LiveAround' => LiveAround
    BY <1>1 DEF LiveAround
  <2>3. config \in Lines(gitignore) => config \in Lines(text)
    BY DEF StateTypeOK
  <2>. QED
    BY <1>1, <2>1, <2>2, <2>3 DEF Covered
<1>6. LiveProgressStaysOut'
  BY <1>1 DEF LiveProgressStaysOut
<1>. QED
  BY <1>2, <1>3, <1>4, <1>5, <1>6

LEMMA AddRuleKeepsIInv ==
    ASSUME IInv, NEW rule \in Rule, AddRule(rule)
    PROVE  IInv'
<1>1. gitignore \in Seq(Line) /\ <<rule>> \in Seq(Line) /\ Lines(<<rule>>) = {rule}
  BY DEF IInv, StateTypeOK, Line, Lines
<1>2. /\ <<rule>> \o gitignore \in Seq(Line) /\ gitignore \o <<rule>> \in Seq(Line)
      /\ Lines(<<rule>> \o gitignore) = Lines(gitignore) \cup {rule}
      /\ Lines(gitignore \o <<rule>>) = Lines(gitignore) \cup {rule}
  <2>1. /\ <<rule>> \o gitignore \in Seq(Line)
        /\ Lines(<<rule>> \o gitignore) = Lines(<<rule>>) \cup Lines(gitignore)
    BY <1>1, LinesOfBoth
  <2>2. /\ gitignore \o <<rule>> \in Seq(Line)
        /\ Lines(gitignore \o <<rule>>) = Lines(gitignore) \cup Lines(<<rule>>)
    BY <1>1, LinesOfBoth
  <2>. QED
    BY <1>1, <2>1, <2>2
<1>3. Append(gitignore, rule) = gitignore \o <<rule>>
  BY <1>1
<1>4. PICK text \in Seq(Line) : Edits(text) /\ Lines(text) = Lines(gitignore) \cup {rule}
  BY <1>2, <1>3 DEF AddRule
<1>5. /\ rules' = rules \cup {rule}
      /\ exposed' = exposed \/ exposed' = exposed \cup {rule}
      /\ (\E s \in Session : op[s].step = "ignore") => {rule} \subseteq exposed'
  BY DEF AddRule, Brings
<1>6. {rule} \in SUBSET Rule /\ (Lines(gitignore) \cap (Rule \cup Config)) \cup {rule} \subseteq Lines(text)
  BY <1>4
<1>. QED
  BY <1>4, <1>5, <1>6, EditKeepsIInv

LEMMA KeepBothSidesKeepsIInv ==
    ASSUME IInv, NEW rule \in Rule, NEW c \in Config, KeepBothSides(rule, c)
    PROVE  IInv'
<1> DEFINE front == gitignore \o <<rule>>
           text == gitignore \o <<rule>> \o Block(c)
<1>1. /\ gitignore \in Seq(Line) /\ <<rule>> \in Seq(Line) /\ Lines(<<rule>>) = {rule}
      /\ Block(c) \in Seq(Line)
  BY DEF IInv, StateTypeOK, Line, Lines, Block
<1>2. front \in Seq(Line) /\ Lines(front) = Lines(gitignore) \cup {rule}
  BY <1>1, LinesOfBoth
<1> HIDE DEF front
<1>3. front \o Block(c) \in Seq(Line) /\ Lines(front \o Block(c)) = Lines(front) \cup Lines(Block(c))
  BY <1>1, <1>2, LinesOfBoth
<1>4. text = front \o Block(c)
  BY DEF front
<1>5. /\ Edits(text)
      /\ rules' = rules \cup {rule}
      /\ exposed' = exposed \/ exposed' = exposed \cup {rule}
      /\ (\E s \in Session : op[s].step = "ignore") => {rule} \subseteq exposed'
  BY DEF KeepBothSides, Brings
<1> HIDE DEF text
<1>6. /\ text \in Seq(Line) /\ {rule} \in SUBSET Rule
      /\ (Lines(gitignore) \cap (Rule \cup Config)) \cup {rule} \subseteq Lines(text)
  BY <1>2, <1>3, <1>4
<1>. QED
  BY <1>5, <1>6, EditKeepsIInv

LEMMA CutMarkerKeepsIInv ==
    ASSUME IInv, NEW i \in DOMAIN gitignore, CutMarker(i)
    PROVE  IInv'
<1> DEFINE text == SubSeq(gitignore, 1, i - 1) \o SubSeq(gitignore, i + 1, Len(gitignore))
<1>1. text \in Seq(Line) /\ Lines(gitignore) \ {gitignore[i]} \subseteq Lines(text)
  BY CutLines DEF IInv, StateTypeOK
<1>2. Edits(text) /\ rules' = rules /\ exposed' = exposed /\ gitignore[i] \in {Begin, End}
  BY DEF CutMarker
<1> HIDE DEF text
<1>3. (Lines(gitignore) \cap (Rule \cup Config)) \cup {} \subseteq Lines(text)
  BY <1>1, <1>2, GitignoreAssumption
<1>4. {} \in SUBSET Rule /\ rules' = rules \cup {}
  BY <1>2
<1>. QED
  BY <1>1, <1>2, <1>3, <1>4, EditKeepsIInv

LEMMA ReconfigureKeepsIInv ==
    ASSUME IInv, NEW c \in Config, Reconfigure(c)
    PROVE  IInv'
<1> USE DEF IInv, Reconfigure, tree, repository
<1>1. StateTypeOK'
  BY DEF StateTypeOK
<1>2. UserRulesKept' /\ RulesHeld'
  BY DEF UserRulesKept, RulesHeld
<1>3. reconfigured' /\ LiveProgressStaysOut'
  BY DEF LiveProgressStaysOut
<1>. QED
  BY <1>1, <1>2, <1>3

LEMMA StutterKeepsIInv ==
    ASSUME IInv, UNCHANGED vars
    PROVE  IInv'
BY DEF IInv, vars, StateTypeOK, UserRulesKept, RulesHeld, Covered, LiveAround, LiveProgressStaysOut

\* The inductive invariant.
LEMMA NextKeepsIInv == IInv /\ [Next]_vars => IInv'
<1> SUFFICES ASSUME IInv, [Next]_vars PROVE IInv'
  OBVIOUS
<1>1. ASSUME NEW s \in Session, Command(s) PROVE IInv'
  BY <1>1, ReadIgnoreKeepsIInv, WriteIgnoreKeepsIInv, PlaceKeepsIInv, StageEntryKeepsIInv,
     WriteEntryKeepsIInv, EntryFailsKeepsIInv, CreationFailsKeepsIInv, CommandFailsKeepsIInv, BeginWriteKeepsIInv, PassLastKeepsIInv,
     ArchiveKeepsIInv, ChooseKeepsIInv, AddKeepsIInv, CommitKeepsIInv DEF Command
<1>. QED
  BY <1>1, AddRuleKeepsIInv, KeepBothSidesKeepsIInv, CutMarkerKeepsIInv, ReconfigureKeepsIInv,
     StutterKeepsIInv DEF Next

LEMMA Invariance == Spec => []IInv
<1>. QED
  BY InitIInv, NextKeepsIInv, PTL DEF Spec

----------------------------------------------------------------------------

\* Texts, packages, files, commits and positions keep their types.
THEOREM TypeCorrect == Spec => []TypeOK
<1>1. IInv => TypeOK
  BY TypesHold DEF IInv
<1>. QED
  BY <1>1, Invariance, PTL

\* ensure_gitignore never drops a rule that it did not find in the block and that
\* was there when it read.
THEOREM RulesSurvive == Spec => []UserRulesKept
<1>1. IInv => UserRulesKept
  BY DEF IInv
<1>. QED
  BY <1>1, Invariance, PTL

\* No commit of a handoff carries a live progress file while the file names are
\* those that the rules were written for.
THEOREM ProgressIsNotCommitted == Spec => []LiveProgressStaysOut
<1>1. IInv => LiveProgressStaysOut
  BY DEF IInv
<1>. QED
  BY <1>1, Invariance, PTL

\* Whatever edits have left in .gitignore, ensure_gitignore leaves the user's lines
\* and one block, and a second call changes nothing.
THEOREM BlockIsStable == Spec => []ManagedBlockSettles
<1>1. IInv => ManagedBlockSettles
  BY BlockSettles DEF IInv, StateTypeOK, ManagedBlockSettles
<1>. QED
  BY <1>1, Invariance, PTL

================================================================================
