------------------------------- MODULE LogRing -------------------------------
(* The in-memory log (logging.rs): the ring that every thread's tracing       *)
(* events are written to, line by line, and that the Logs tab reads and       *)
(* clears.  The ring is locked for one line at a time, so the lines of two    *)
(* events mix, and a clear() may fall between two lines of one.               *)
EXTENDS Naturals, Sequences, FiniteSets, SequencesExt

CONSTANTS
  Capacity,  \* RING_CAPACITY
  Writers,   \* the threads that log
  Lines,     \* the lines they log, see Line
  MaxLines   \* bound on the lines written

ASSUME CapacityAssumption == Capacity \in Nat \ {0} /\ MaxLines \in Nat

\* In the order in which split_level looks for them.
Levels == <<"ERROR", "WARN", "INFO", "DEBUG", "TRACE">>

\* A line: the level it was written with, or "none" if it continues an event,
\* and all the level names somewhere in its text.
Line == {l \in [own : Range(Levels) \cup {"none"}, words : SUBSET Range(Levels), blank : BOOLEAN] :
           (l.own # "none" => l.own \in l.words) /\ (l.blank => l.words = {})}

ASSUME LinesAssumption == Lines \subseteq Line

VARIABLES
  installed,  \* the global subscriber is this one
  ring,       \* RING.buf
  seq,        \* RING.seq
  writing,    \* what a writer has still to push of its event
  fresh       \* history: lines pushed since the last clear()

logVars == <<installed, ring, seq, writing, fresh>>

LogInit ==
  /\ installed = FALSE /\ ring = <<>> /\ seq = 0 /\ fresh = 0
  /\ writing = [w \in Writers |-> <<>>]

-----------------------------------------------------------------------------
\* split_level: the first name of the list that occurs anywhere in the line.
SplitLevel(l) ==
  LET found == {i \in 1..Len(Levels) : Levels[i] \in l.words}
  IN  IF found = {} THEN "INFO" ELSE Levels[Min(found)]

\* logging::install: the second time nothing happens.
Install == installed' = TRUE

\* A thread logs an event of one line or two; without a subscriber it is lost.
LogEvent(w) ==
  /\ installed /\ writing[w] = <<>> /\ seq < MaxLines
  /\ \E event \in SeqOf(Lines, 2) \ {<<>>} : writing' = [writing EXCEPT ![w] = event]
  /\ UNCHANGED <<installed, ring, seq, fresh>>

\* Mutant of Pushed: the oldest line goes when the ring is over-full, not full.
PushedLate(l) ==
  Append(IF Len(ring) > Capacity THEN Tail(ring) ELSE ring,
         [n |-> seq + 1, own |-> l.own, level |-> SplitLevel(l)])
Pushed(l) ==
  Append(IF Len(ring) >= Capacity THEN Tail(ring) ELSE ring,
         [n |-> seq + 1, own |-> l.own, level |-> SplitLevel(l)])

\* RingWriter::write, one line.
WriteLine(w) ==
  /\ writing[w] # <<>> /\ writing' = [writing EXCEPT ![w] = Tail(@)]
  /\ IF Head(writing[w]).blank
     THEN UNCHANGED <<ring, seq, fresh>>
     ELSE ring' = Pushed(Head(writing[w])) /\ seq' = seq + 1 /\ fresh' = fresh + 1
  /\ UNCHANGED installed

\* vpn21_logs_clear.
LogsClear == ring' = <<>> /\ fresh' = 0 /\ UNCHANGED <<installed, seq, writing>>

\* What vpn21_logs answers: newest first, one line at least.
Logs(limit) ==
  LET most == IF limit < 1 THEN 1 ELSE limit
  IN  SubSeq(Reverse(ring), 1, IF most < Len(ring) THEN most ELSE Len(ring))

LogNext == LogsClear \/ \E w \in Writers : LogEvent(w) \/ WriteLine(w)

-----------------------------------------------------------------------------
LogTypeOK ==
  /\ installed \in BOOLEAN /\ seq \in Nat /\ fresh \in 0..seq
  /\ ring \in Seq([n : 1..seq, own : Range(Levels) \cup {"none"}, level : Range(Levels)])
  /\ writing \in [Writers -> Seq(Lines)]

\* Whatever writes and clears fall between two lines, the Logs tab is shown the
\* newest lines since the last clear, as many as it asked for and the ring can
\* hold, newest first and none twice, and none as less severe than it was logged
\* (it may be shown as more severe, when its text names a worse level).
LogsAreNewest ==
  \A limit \in 0..Capacity + 1 :
    LET shown == Logs(limit)
        asked == IF limit = 0 THEN 1 ELSE limit
    IN  /\ Len(shown) = CHOOSE k \in {asked, fresh, Capacity} : \A m \in {asked, fresh, Capacity} : k <= m
        /\ \A i \in 1..Len(shown) :
             /\ shown[i].n = seq + 1 - i
             /\ \A j \in 1..Len(Levels) :
                  shown[i].own = Levels[j] => \E h \in 1..j : shown[i].level = Levels[h]
=============================================================================
