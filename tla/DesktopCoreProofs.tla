-------------------------- MODULE DesktopCoreProofs --------------------------
(* Theorems about DesktopCore, for any callers, directories, descriptors and  *)
(* platforms.                                                                 *)
EXTENDS DesktopCore, SequenceTheorems, TLAPS

(* Initialisation.                                                            *)

\* A caller has made the directories before the one it is at, and whoever is
\* past the last, or finds the cell set, is so because all are made.
LayoutInv ==
  /\ at \in [Callers -> 0..Directories + 1] /\ made \subseteq 1..Directories
  /\ orch \/ cell = "set" => made = 1..Directories
  /\ \A c \in Callers : at[c] # 0 => 1..at[c] - 1 \subseteq made

LEMMA LayoutStep == LayoutInv /\ [Next]_vars => LayoutInv'
<1> SUFFICES ASSUME LayoutInv, [Next]_vars PROVE LayoutInv'
  OBVIOUS
<1> USE DirectoriesAssumption DEF LayoutInv
<1>1. ASSUME NEW c \in Callers, InitBegin(c) PROVE LayoutInv'
  BY <1>1 DEF InitBegin
<1>2. ASSUME NEW c \in Callers, InitAgain(c) PROVE LayoutInv'
  BY <1>2 DEF InitAgain
<1>3. ASSUME NEW c \in Callers, MakeDir(c) PROVE LayoutInv'
  <2>1. at[c] \in 1..Directories /\ made' = made \cup {at[c]} /\ at' = [at EXCEPT ![c] = @ + 1]
        /\ orch' = orch /\ cell' = IF at[c] = Directories THEN "set" ELSE cell
    BY <1>3 DEF MakeDir, tunVars, logVars
  <2>2. at' \in [Callers -> 0..Directories + 1] /\ made' \subseteq 1..Directories
    <3>1. at[c] + 1 \in 0..Directories + 1
      BY <2>1
    <3> QED
      BY <2>1, <3>1
  <2>3. \A d \in Callers : at'[d] # 0 => 1..at'[d] - 1 \subseteq made'
    BY <2>1
  <2>4. cell' = "set" => made' = 1..Directories
    <3>1. CASE at[c] = Directories
      <4>1. 1..Directories - 1 \subseteq made
        BY <2>1, <3>1
      <4>2. 1..Directories \subseteq made \cup {at[c]}
        BY <3>1, <4>1
      <4> QED
        BY <2>1, <2>2, <4>2
    <3>2. CASE at[c] # Directories
      BY <2>1, <2>2, <3>2
    <3> QED
      BY <3>1, <3>2
  <2>5. orch' => made' = 1..Directories
    BY <2>1, <2>2
  <2> QED
    BY <2>2, <2>3, <2>4, <2>5
<1>4. ASSUME NEW c \in Callers, MakeDirFails(c) PROVE LayoutInv'
  BY <1>4 DEF MakeDirFails
<1>5. ASSUME NEW c \in Callers, SetOrch(c) PROVE LayoutInv'
  <2>1. 1..Directories \subseteq made
    BY <1>5 DEF SetOrch
  <2>2. made = 1..Directories
    BY <2>1
  <2>3. at' \in [Callers -> 0..Directories + 1]
    BY <1>5 DEF SetOrch
  <2>4. \A d \in Callers : at'[d] # 0 => 1..at'[d] - 1 \subseteq made
    BY <1>5 DEF SetOrch
  <2> QED
    BY <1>5, <2>2, <2>3, <2>4 DEF SetOrch
<1>6. CASE UNCHANGED initVars
  BY <1>6 DEF initVars
<1>7. CASE Next
  BY <1>1, <1>2, <1>3, <1>4, <1>5, <1>6, <1>7
  DEF Next, Open, Wintun, Start, StartFails, StartFailsLate, Stop, Return, Attach, AttachFails, StartWithFd, LeafEnds
<1> QED
  BY <1>6, <1>7 DEF vars

\* However many threads initialise at once and however often an attempt fails,
\* no orchestrator is handed out before its directories (ffi/mod.rs:36-53,
\* lib.rs:52-62).
THEOREM LayoutFirst == Spec => []LayoutBeforeUse
<1>1. Init => LayoutInv
  BY DirectoriesAssumption DEF Init, LayoutInv
<1>2. LayoutInv => LayoutBeforeUse
  BY DEF LayoutInv, LayoutBeforeUse
<1> QED
  BY <1>1, <1>2, LayoutStep, PTL DEF Spec

-----------------------------------------------------------------------------
(* Descriptors.                                                               *)

\* The owners of a descriptor that has the interface's name.
Named == {"start", "caller", "leaf", "lost"}

\* On Linux the name is one descriptor's; after a failure, one that is lost.
NameInv ==
  /\ platform = "linux" => \A e, f \in Fds : fd[e] \in Named /\ fd[f] \in Named => e = f
  /\ platform = "linux" /\ failed => \E f \in Fds : fd[f] = "lost"
  /\ fd \in [Fds -> Named \cup {"unused", "provision", "closed"}]

LEMMA NameStep == NameInv /\ [Next]_vars => NameInv'
<1> SUFFICES ASSUME NameInv, [Next]_vars PROVE NameInv'
  OBVIOUS
<1> USE DEF NameInv, Named
<1>1. CASE Open
  BY <1>1 DEF Open, Becomes
<1>2. ASSUME NEW f \in Fds, Attach(f) PROVE NameInv'
  BY <1>2 DEF Attach, Becomes, With, NameTaken
<1>3. ASSUME NEW f \in Fds, AttachFails(f) \/ LeafEnds(f) PROVE NameInv'
  BY <1>3 DEF AttachFails, LeafEnds, Becomes, With
<1>4. ASSUME NEW f \in Fds, StartWithFd(f) PROVE NameInv'
  BY <1>4 DEF StartWithFd, Becomes, With
<1>5. CASE Start \/ StartFailsLate
  BY <1>5 DEF Start, StartFailsLate, Return
<1>6. CASE StartFails
  BY <1>6 DEF StartFails, Return, Dropped, With
<1>7. CASE UNCHANGED <<platform, fd, failed>>
  BY <1>7
<1>8. CASE Next
  BY <1>1, <1>2, <1>3, <1>4, <1>5, <1>6, <1>7, <1>8
  DEF Next, InitBegin, InitAgain, MakeDir, MakeDirFails, SetOrch, Wintun, Stop, tunVars
<1> QED
  BY <1>7, <1>8 DEF vars, tunVars

\* A step that gives a leaf a descriptor had one to give, which has the name
\* that a lost one would keep.
LEMMA FinalStep ==
  NameInv /\ [Next]_vars /\ platform = "linux" /\ failed => With("leaf")' \subseteq With("leaf")
<1> SUFFICES ASSUME NameInv, [Next]_vars, platform = "linux", failed, NEW f \in Fds, fd'[f] = "leaf"
             PROVE  fd[f] = "leaf"
  BY DEF With
<1>1. fd[f] # "start"
  BY DEF NameInv, Named
<1> USE DEF NameInv, Named
<1>2. CASE Open
  BY <1>2 DEF Open, Becomes
<1>3. ASSUME NEW e \in Fds, Attach(e) \/ AttachFails(e) \/ LeafEnds(e) \/ StartWithFd(e)
      PROVE  fd[f] = "leaf"
  BY <1>3 DEF Attach, AttachFails, LeafEnds, StartWithFd, Becomes
<1>4. CASE Start \/ StartFails \/ StartFailsLate
  BY <1>1, <1>4 DEF Start, StartFails, StartFailsLate, Return
<1>5. CASE UNCHANGED fd
  BY <1>5
<1>6. CASE Next
  BY <1>2, <1>3, <1>4, <1>5, <1>6
  DEF Next, InitBegin, InitAgain, MakeDir, MakeDirFails, SetOrch, Wintun, Stop, tunVars
<1> QED
  BY <1>5, <1>6 DEF vars, tunVars

\* After one start() on Linux that fails with a descriptor, no leaf is given a
\* TUN in this process again (ffi/mod.rs:160-183, tun.rs:94-125).
THEOREM FailureFinal == Spec => FailureIsFinal
<1>1. Init => NameInv
  BY DEF Init, NameInv, Named
<1>2. NameInv /\ [Next]_vars => [platform = "linux" /\ failed => With("leaf")' \subseteq With("leaf")]_vars
  BY FinalStep
<1> QED
  BY <1>1, <1>2, NameStep, PTL DEF Spec, FailureIsFinal

-----------------------------------------------------------------------------
(* The log.                                                                   *)

\* What an entry of the ring may be: no less severe than it was logged.
Entry ==
  {e \in [n : Nat, own : Range(Levels) \cup {"none"}, level : Range(Levels)] :
     \A j \in 1..Len(Levels) : e.own = Levels[j] => \E h \in 1..j : e.level = Levels[h]}

\* The ring holds the last lines since clear(), numbered without a gap.
RingInv ==
  /\ writing \in [Writers -> Seq(Lines)] /\ seq \in Nat /\ fresh \in Nat
  /\ ring \in Seq(Entry)
  /\ Len(ring) = IF fresh < Capacity THEN fresh ELSE Capacity
  /\ \A i \in 1..Len(ring) : ring[i].n = (seq - Len(ring)) + i

LEMMA LevelFacts ==
  /\ Len(Levels) = 5 /\ DOMAIN Levels = 1..5 /\ Levels[3] = "INFO"
  /\ \A j \in 1..5 : Levels[j] # "none" /\ Levels[j] \in Range(Levels)
BY DEF Levels, Range

LEMMA LeastOfFive ==
  ASSUME NEW found \in SUBSET (1..5), found # {}
  PROVE  Min(found) \in found /\ \A j \in found : Min(found) <= j
<1>1. \E i \in found : \A j \in found : i <= j
  <2>1. CASE 1 \in found
    BY <2>1
  <2>2. CASE 1 \notin found /\ 2 \in found
    BY <2>2
  <2>3. CASE 1 \notin found /\ 2 \notin found /\ 3 \in found
    BY <2>3
  <2>4. CASE 1 \notin found /\ 2 \notin found /\ 3 \notin found /\ 4 \in found
    BY <2>4
  <2>5. CASE 1 \notin found /\ 2 \notin found /\ 3 \notin found /\ 4 \notin found
    <3>1. ASSUME NEW j \in found PROVE j = 5
      <4>1. j \in 1..5
        OBVIOUS
      <4> QED
        BY <2>5, <4>1
    <3>2. PICK k \in found : TRUE
      OBVIOUS
    <3> QED
      BY <3>1, <3>2
  <2> QED
    BY <2>1, <2>2, <2>3, <2>4, <2>5
<1> QED
  BY <1>1 DEF Min

\* The level that is guessed from the text is the line's own, or a worse one.
LEMMA SplitLevelWorse ==
  ASSUME NEW l \in Lines
  PROVE  /\ SplitLevel(l) \in Range(Levels)
         /\ \A j \in 1..Len(Levels) : l.own = Levels[j] => \E h \in 1..j : SplitLevel(l) = Levels[h]
<1> DEFINE found == {i \in 1..Len(Levels) : Levels[i] \in l.words}
<1>1. l \in Line
  BY LinesAssumption
<1>2. CASE found = {}
  <2>1. SplitLevel(l) = "INFO"
    BY <1>2 DEF SplitLevel
  <2>2. ASSUME NEW j \in 1..Len(Levels) PROVE l.own # Levels[j]
    BY <1>1, <1>2, LevelFacts DEF Line
  <2> QED
    BY <2>1, <2>2, LevelFacts
<1>3. CASE found # {}
  <2>1. SplitLevel(l) = Levels[Min(found)]
    BY <1>3 DEF SplitLevel
  <2>2. found \in SUBSET (1..5)
    BY LevelFacts
  <2>3. Min(found) \in found /\ \A j \in found : Min(found) <= j
    BY <1>3, <2>2, LeastOfFive
  <2>4. ASSUME NEW j \in 1..Len(Levels), l.own = Levels[j] PROVE j \in found
    BY <1>1, <2>4, LevelFacts DEF Line
  <2> HIDE DEF found
  <2>5. Min(found) \in 1..5 /\ Levels[Min(found)] \in Range(Levels)
    BY <2>2, <2>3, LevelFacts
  <2>6. ASSUME NEW j \in 1..Len(Levels), l.own = Levels[j] PROVE Min(found) \in 1..j
    BY <2>3, <2>4, <2>5, <2>6, LevelFacts
  <2> QED
    BY <2>1, <2>5, <2>6
<1> QED
  BY <1>2, <1>3

\* One more line: the oldest goes when the ring is full.
LEMMA PushedRing ==
  ASSUME RingInv, NEW l \in Lines
  PROVE  /\ Pushed(l) \in Seq(Entry)
         /\ Len(Pushed(l)) = IF fresh + 1 < Capacity THEN fresh + 1 ELSE Capacity
         /\ \A i \in 1..Len(Pushed(l)) : Pushed(l)[i].n = ((seq + 1) - Len(Pushed(l))) + i
<1> DEFINE e == [n |-> seq + 1, own |-> l.own, level |-> SplitLevel(l)]
           kept == IF Len(ring) >= Capacity THEN Tail(ring) ELSE ring
<1>1. e \in Entry /\ e.n = seq + 1
  <2>1. l \in Line /\ l.own \in Range(Levels) \cup {"none"} /\ seq + 1 \in Nat
    BY LinesAssumption DEF Line, RingInv
  <2> QED
    BY <2>1, SplitLevelWorse DEF Entry
<1>2. ring \in Seq(Entry) /\ Len(ring) \in Nat /\ seq \in Nat /\ fresh \in Nat /\ Capacity \in Nat \ {0}
  BY LenProperties, CapacityAssumption DEF RingInv
<1>3. /\ kept \in Seq(Entry)
      /\ Len(kept) + 1 = IF fresh + 1 < Capacity THEN fresh + 1 ELSE Capacity
      /\ \A i \in 1..Len(kept) : kept[i].n = (seq - Len(kept)) + i
  <2>1. CASE Len(ring) >= Capacity
    <3>1. ring # <<>> /\ Len(ring) = Capacity /\ fresh >= Capacity
      BY <1>2, <2>1 DEF RingInv
    <3>2. /\ Tail(ring) \in Seq(Entry) /\ Len(Tail(ring)) = Len(ring) - 1
          /\ \A i \in 1..Len(Tail(ring)) : Tail(ring)[i] = ring[i + 1]
      BY <1>2, <3>1, HeadTailProperties
    <3>3. ASSUME NEW i \in 1..Len(Tail(ring)) PROVE Tail(ring)[i].n = (seq - Len(Tail(ring))) + i
      <4>1. i + 1 \in 1..Len(ring)
        BY <1>2, <3>2
      <4>2. ring[i + 1].n = (seq - Len(ring)) + (i + 1)
        BY <4>1 DEF RingInv
      <4> QED
        BY <1>2, <3>2, <4>2
    <3> QED
      BY <1>2, <2>1, <3>1, <3>2, <3>3
  <2>2. CASE ~(Len(ring) >= Capacity)
    <3>1. Len(ring) = fresh /\ fresh < Capacity
      BY <1>2, <2>2 DEF RingInv
    <3>2. kept = ring
      BY <2>2
    <3>3. \A i \in 1..Len(ring) : ring[i].n = (seq - Len(ring)) + i
      BY DEF RingInv
    <3> HIDE DEF kept
    <3> QED
      BY <1>2, <3>1, <3>2, <3>3
  <2> QED
    BY <2>1, <2>2
<1>4. Pushed(l) = Append(kept, e)
  BY DEF Pushed
<1> HIDE DEF e, kept
<1>5. /\ Pushed(l) \in Seq(Entry) /\ Len(Pushed(l)) = Len(kept) + 1 /\ Len(kept) \in Nat
      /\ \A i \in 1..Len(kept) : Pushed(l)[i] = kept[i]
      /\ Pushed(l)[Len(kept) + 1] = e
  BY <1>1, <1>3, <1>4, AppendProperties, LenProperties
<1>6. ASSUME NEW i \in 1..Len(Pushed(l))
      PROVE  Pushed(l)[i].n = ((seq + 1) - Len(Pushed(l))) + i
  <2>1. CASE i = Len(kept) + 1
    BY <1>1, <1>2, <1>5, <2>1
  <2>2. CASE i \in 1..Len(kept)
    BY <1>2, <1>3, <1>5, <2>2
  <2> QED
    BY <1>5, <1>6, <2>1, <2>2
<1> QED
  BY <1>3, <1>5, <1>6

LEMMA RingStep == RingInv /\ [Next]_vars => RingInv'
<1> SUFFICES ASSUME RingInv, [Next]_vars PROVE RingInv'
  OBVIOUS
<1>1. CASE LogsClear
  BY <1>1, CapacityAssumption, EmptySeq DEF LogsClear, RingInv
<1>2. ASSUME NEW w \in Writers, LogEvent(w) PROVE RingInv'
  <2>1. PICK event \in SeqOf(Lines, 2) \ {<<>>} : writing' = [writing EXCEPT ![w] = event]
    BY <1>2 DEF LogEvent
  <2>2. event \in Seq(Lines)
    <3>1. PICK m \in 0..2 : event \in [1..m -> Lines]
      BY <2>1 DEF SeqOf
    <3> QED
      BY <3>1, IsASeq
  <2> QED
    BY <1>2, <2>1, <2>2 DEF LogEvent, RingInv
<1>3. ASSUME NEW w \in Writers, WriteLine(w) PROVE RingInv'
  <2>1. writing[w] \in Seq(Lines) /\ writing[w] # <<>>
    BY <1>3 DEF WriteLine, RingInv
  <2>2. Head(writing[w]) \in Lines /\ Tail(writing[w]) \in Seq(Lines)
    BY <2>1, HeadTailProperties
  <2>3. writing' \in [Writers -> Seq(Lines)]
    BY <1>3, <2>2 DEF WriteLine, RingInv
  <2>4. CASE Head(writing[w]).blank
    BY <1>3, <2>3, <2>4 DEF WriteLine, RingInv
  <2>5. CASE ~Head(writing[w]).blank
    <3>1. ring' = Pushed(Head(writing[w])) /\ seq' = seq + 1 /\ fresh' = fresh + 1
      BY <1>3, <2>5 DEF WriteLine
    <3> QED
      <4> DEFINE new == Pushed(Head(writing[w]))
      <4>1. /\ new \in Seq(Entry)
            /\ Len(new) = IF fresh + 1 < Capacity THEN fresh + 1 ELSE Capacity
            /\ \A i \in 1..Len(new) : new[i].n = ((seq + 1) - Len(new)) + i
        BY <2>2, PushedRing
      <4>2. seq + 1 \in Nat /\ fresh + 1 \in Nat
        BY DEF RingInv
      <4>3. ring' = new
        BY <3>1
      <4> HIDE DEF new
      <4> QED
        BY <2>3, <3>1, <4>1, <4>2, <4>3 DEF RingInv
  <2> QED
    BY <2>4, <2>5
<1>4. CASE UNCHANGED <<ring, seq, writing, fresh>>
  BY <1>4 DEF RingInv
<1>5. CASE Next
  BY <1>1, <1>2, <1>3, <1>4, <1>5
  DEF Next, LogNext, InitBegin, InitAgain, MakeDir, MakeDirFails, SetOrch, Open, Wintun, Start,
      StartFails, StartFailsLate, Stop, Return, Attach, AttachFails, StartWithFd, LeafEnds, logVars
<1> QED
  BY <1>4, <1>5 DEF vars, logVars

LEMMA ShownLines ==
  ASSUME RingInv, NEW limit \in 0..Capacity + 1
  PROVE  LET shown == Logs(limit)
             asked == IF limit = 0 THEN 1 ELSE limit
         IN  /\ Len(shown) = CHOOSE k \in {asked, fresh, Capacity} :
                               \A m \in {asked, fresh, Capacity} : k <= m
             /\ \A i \in 1..Len(shown) :
                  /\ shown[i].n = seq + 1 - i
                  /\ \A j \in 1..Len(Levels) :
                       shown[i].own = Levels[j] => \E h \in 1..j : shown[i].level = Levels[h]
<1> DEFINE asked == IF limit = 0 THEN 1 ELSE limit
           count == IF asked < Len(ring) THEN asked ELSE Len(ring)
           back == Reverse(ring)
<1>1. /\ ring \in Seq(Entry) /\ Len(ring) \in Nat /\ seq \in Nat /\ fresh \in Nat
      /\ Capacity \in Nat \ {0} /\ asked \in Nat \ {0}
  BY LenProperties, CapacityAssumption DEF RingInv
<1>2. back \in Seq(Entry) /\ Len(back) = Len(ring)
      /\ \A i \in 1..Len(ring) : back[i] = ring[(Len(ring) - i) + 1]
  <2>1. \A i \in 1..Len(ring) : ring[(Len(ring) - i) + 1] \in Entry
    BY <1>1, ElementOfSeq
  <2>2. back = [i \in 1..Len(ring) |-> ring[(Len(ring) - i) + 1]]
    BY DEF Reverse
  <2>3. back \in [1..Len(ring) -> Entry]
    BY <2>1, <2>2
  <2> QED
    BY <1>1, <2>2, <2>3, IsASeq, LenProperties
<1>3. Logs(limit) = SubSeq(back, 1, count)
  BY <1>1 DEF Logs
<1>4. count \in 0..Len(ring)
  BY <1>1
<1> HIDE DEF back
<1>5. /\ Len(Logs(limit)) = count
      /\ \A i \in 1..count : Logs(limit)[i] = ring[(Len(ring) - i) + 1]
  <2>1. \A i \in 1..count : back[i] \in Entry
    BY <1>1, <1>2, <1>4, ElementOfSeq
  <2>2. /\ Len(SubSeq(back, 1, count)) = count
        /\ \A i \in 1..count : SubSeq(back, 1, count)[i] = back[i]
    BY <1>2, <1>4, <2>1, SubSeqProperties
  <2> QED
    BY <1>2, <1>3, <1>4, <2>2
<1>6. ASSUME NEW i \in 1..count
      PROVE  /\ Logs(limit)[i].n = seq + 1 - i
             /\ \A j \in 1..Len(Levels) : Logs(limit)[i].own = Levels[j] =>
                  \E h \in 1..j : Logs(limit)[i].level = Levels[h]
  <2>1. (Len(ring) - i) + 1 \in 1..Len(ring)
    BY <1>1, <1>4
  <2>2. ring[(Len(ring) - i) + 1] \in Entry
    BY <1>1, <2>1, ElementOfSeq
  <2>3. ring[(Len(ring) - i) + 1].n = (seq - Len(ring)) + ((Len(ring) - i) + 1)
    BY <2>1 DEF RingInv
  <2> QED
    BY <1>1, <1>4, <1>5, <2>2, <2>3, SMTT(30) DEF Entry
<1>7. count = CHOOSE k \in {asked, fresh, Capacity} : \A m \in {asked, fresh, Capacity} : k <= m
  <2>1. count \in {asked, fresh, Capacity} /\ \A m \in {asked, fresh, Capacity} : count <= m
    <3>1. Len(ring) = IF fresh < Capacity THEN fresh ELSE Capacity
      BY DEF RingInv
    <3> HIDE DEF asked
    <3> QED
      BY <1>1, <3>1
  <2>2. \A k \in {asked, fresh, Capacity} :
          (\A m \in {asked, fresh, Capacity} : k <= m) => k = count
    <3> HIDE DEF asked, count
    <3>1. \A m \in {asked, fresh, Capacity} : m \in Nat
      BY <1>1
    <3> QED
      BY <2>1, <3>1
  <2> HIDE DEF asked, count
  <2> QED
    BY <2>1, <2>2
<1>8. \A i \in 1..Len(Logs(limit)) :
        /\ Logs(limit)[i].n = seq + 1 - i
        /\ \A j \in 1..Len(Levels) : Logs(limit)[i].own = Levels[j] =>
             \E h \in 1..j : Logs(limit)[i].level = Levels[h]
  BY <1>5, <1>6
<1>9. Len(Logs(limit)) = CHOOSE k \in {asked, fresh, Capacity} :
                           \A m \in {asked, fresh, Capacity} : k <= m
  BY <1>5, <1>7
<1> QED
  BY <1>8, <1>9

\* Whatever threads write and clear between the lines of each other's events,
\* the Logs tab is shown the newest lines without a gap, none as milder than it
\* was logged (logging.rs:19-94).
THEOREM NewestShown == Spec => []LogsAreNewest
<1>1. Init => RingInv
  BY CapacityAssumption, EmptySeq DEF Init, LogInit, RingInv
<1>2. RingInv => LogsAreNewest
  BY ShownLines DEF LogsAreNewest
<1> QED
  BY <1>1, <1>2, RingStep, PTL DEF Spec
=============================================================================
