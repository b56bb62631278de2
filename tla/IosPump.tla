------------------------------- MODULE IosPump -------------------------------
(* The process-global packet pump of the iOS build (ios_pump.rs) and the C    *)
(* functions around it (ffi/mod.rs:280-380).  Swift pushes the packets it has *)
(* read and drains those the core wants written; the core pushes the latter;  *)
(* start and stop come from the thread that starts and stops the tunnel.      *)
(* Every method of IosPump is one action, since it holds the one mutex, but   *)
(* the C function that drains releases it between taking a batch and putting  *)
(* back what did not fit, and anything may happen in between.                 *)
EXTENDS Integers, Sequences, FiniteSets, SequencesExt

CONSTANTS
  MaxQueueLen,  \* MAX_QUEUE_LEN
  MaxBatch,     \* the max_packets Swift drains with
  Cap,          \* the size of the buffer Swift drains into
  U16Max,       \* the longest packet the framing can describe
  Sizes,        \* the packet sizes in play
  MaxReads,     \* bound on the packets Swift offers
  MaxPushes,    \* bound on the packets the core offers
  MaxStarts     \* bound on start() calls

ASSUME QueueAssumption == MaxQueueLen \in Nat /\ MaxBatch \in Nat
ASSUME SizeAssumption == Cap \in Nat /\ U16Max \in Nat /\ Sizes \subseteq Nat
ASSUME BoundAssumption == MaxReads \in Nat /\ MaxPushes \in Nat /\ MaxStarts \in Nat

VARIABLES
  running,   \* PumpInner.running
  inbound,   \* the length of PumpInner.inbound, of which nothing reads a packet
  outbound,  \* PumpInner.outbound
  rx, tx, droppedIn, droppedOut,     \* PumpInner's counters
  draining,  \* a vpn21_ios_pump_drain_outbound call is between its two locks
  batch,     \* what that call has taken
  ret,       \* packets in the buffer at the last return of that function, or -1
  starts,    \* history: start() calls so far
  delivered, \* history: the packets Swift has been given
  discarded  \* history: accepted packets cleared by start() or stop()

vars == <<running, inbound, outbound, rx, tx, droppedIn, droppedOut, draining,
          batch, ret, starts, delivered, discarded>>

\* A packet: its rank among those push_outbound accepted, its size, and the
\* start() that precedes it.
Packets == [n : Nat \ {0}, size : Sizes, start : Nat]

TypeOK ==
  /\ running \in BOOLEAN /\ draining \in BOOLEAN
  /\ outbound \in Seq(Packets) /\ batch \in Seq(Packets) /\ delivered \in Seq(Packets)
  /\ inbound \in Nat /\ rx \in Nat /\ tx \in Nat
  /\ droppedIn \in Nat /\ droppedOut \in Nat /\ starts \in Nat /\ discarded \in Nat
  /\ ret \in Nat \cup {-1}
  /\ ~draining => batch = <<>>

Init ==
  /\ running = FALSE /\ draining = FALSE
  /\ outbound = <<>> /\ batch = <<>> /\ delivered = <<>>
  /\ inbound = 0 /\ rx = 0 /\ tx = 0 /\ droppedIn = 0 /\ droppedOut = 0
  /\ starts = 0 /\ discarded = 0
  /\ ret = 0

-----------------------------------------------------------------------------
\* Both start() and stop() clear the queues; a batch in a drain call's hands
\* is out of their reach.
Clear ==
  /\ inbound' = 0
  /\ outbound' = <<>>
  /\ discarded' = discarded + Len(outbound)
  /\ UNCHANGED <<rx, tx, droppedIn, droppedOut, draining, batch, ret, delivered>>

Start ==
  /\ starts < MaxStarts
  /\ running' = TRUE
  /\ starts' = starts + 1
  /\ Clear

Stop ==
  /\ running' = FALSE
  /\ UNCHANGED starts
  /\ Clear

\* Swift offers a packet it has read.
PushInbound ==
  /\ rx + droppedIn < MaxReads
  /\ running
  /\ IF inbound >= MaxQueueLen
     THEN droppedIn' = droppedIn + 1 /\ UNCHANGED <<rx, inbound>>
     ELSE rx' = rx + 1 /\ inbound' = inbound + 1 /\ UNCHANGED droppedIn
  /\ UNCHANGED <<running, outbound, tx, droppedOut, draining, batch, ret, starts, delivered, discarded>>

\* Mutant of PushOutbound: the length is compared with > instead of >=.
PushOutboundOffByOne ==
  /\ tx + droppedOut < MaxPushes
  /\ running
  /\ IF Len(outbound) > MaxQueueLen
     THEN droppedOut' = droppedOut + 1 /\ UNCHANGED <<tx, outbound>>
     ELSE /\ tx' = tx + 1
          /\ \E z \in Sizes :
               outbound' = Append(outbound, [n |-> tx + 1, size |-> z, start |-> starts])
          /\ UNCHANGED droppedOut
  /\ UNCHANGED <<running, inbound, rx, droppedIn, draining, batch, ret, starts, delivered, discarded>>

\* The core offers a packet for the TUN.
PushOutbound ==
  /\ tx + droppedOut < MaxPushes
  /\ running
  /\ IF Len(outbound) >= MaxQueueLen
     THEN droppedOut' = droppedOut + 1 /\ UNCHANGED <<tx, outbound>>
     ELSE /\ tx' = tx + 1
          /\ \E z \in Sizes :
               outbound' = Append(outbound, [n |-> tx + 1, size |-> z, start |-> starts])
          /\ UNCHANGED droppedOut
  /\ UNCHANGED <<running, inbound, rx, droppedIn, draining, batch, ret, starts, delivered, discarded>>

\* vpn21_ios_pump_drain_outbound without a buffer.
DrainRefused ==
  /\ ~draining
  /\ ret' = -1
  /\ UNCHANGED <<running, inbound, outbound, rx, tx, droppedIn, droppedOut, draining,
                 batch, starts, delivered, discarded>>

\* vpn21_ios_pump_drain_outbound: drain_outbound(max_packets).
DrainTake ==
  /\ ~draining
  /\ draining' = TRUE
  /\ LET n == IF Len(outbound) < MaxBatch THEN Len(outbound) ELSE MaxBatch
     IN  /\ batch' = SubSeq(outbound, 1, n)
         /\ outbound' = SubSeq(outbound, n + 1, Len(outbound))
  /\ UNCHANGED <<running, inbound, rx, tx, droppedIn, droppedOut, ret, starts, delivered, discarded>>

\* Bytes the first k packets take in the buffer, with their length fields.
Framed(s, k) == FoldLeft(LAMBDA bytes, p : bytes + 2 + p.size, 0, SubSeq(s, 1, k))

\* The framing loop stops at the first packet that does not fit.
Framable(s, k) == Framed(s, k) <= Cap /\ \A i \in 1..k : s[i].size <= U16Max
Fitting(s) == Cardinality({k \in 1..Len(s) : \A j \in 1..k : Framable(s, j)})

\* The call gives Swift `framed` and leaves `queue` as the outbound queue.
HandOver(framed, queue) ==
  /\ draining
  /\ draining' = FALSE
  /\ delivered' = delivered \o framed
  /\ outbound' = queue
  /\ ret' = Fitting(batch)
  /\ batch' = <<>>
  /\ UNCHANGED <<running, inbound, rx, tx, droppedIn, droppedOut, starts, discarded>>

Written == SubSeq(batch, 1, Fitting(batch))
Unwritten == SubSeq(batch, Fitting(batch) + 1, Len(batch))

\* Mutants of DrainFinish: the spilled packets are queued at the back; are
\* pushed to the front without rev(); are dropped; are all written but the one
\* that does not fit; stay in the caller's hands.
DrainFinishAtBack == HandOver(Written, outbound \o Unwritten)
DrainFinishReversed == HandOver(Written, Reverse(Unwritten) \o outbound)
DrainFinishDrops == HandOver(Written, outbound)
DrainFinishSkips ==
  HandOver(Written \o SubSeq(batch, Fitting(batch) + 2, Len(batch)), outbound)
DrainFinishKeeps ==
  /\ draining
  /\ draining' = FALSE
  /\ delivered' = delivered \o Written
  /\ outbound' = Unwritten \o outbound
  /\ ret' = Fitting(batch)
  /\ UNCHANGED <<batch, running, inbound, rx, tx, droppedIn, droppedOut, starts, discarded>>

\* vpn21_ios_pump_drain_outbound: the batch is framed, what does not fit is put
\* back in front (restore_outbound_front, whatever `running` and the length of
\* the queue are by now), the count is returned.
DrainFinish == HandOver(Written, Unwritten \o outbound)

Next ==
  \/ Start \/ Stop \/ PushInbound \/ PushOutbound
  \/ DrainRefused \/ DrainTake \/ DrainFinish

Spec == Init /\ [][Next]_vars

-----------------------------------------------------------------------------
InFlight == batch \o outbound

\* Packets reach Swift in the order the core pushed them, none twice, whatever
\* stops, starts and pushes fall between the two locks of a drain.
InOrder ==
  LET all == delivered \o InFlight
  IN  \A i, j \in 1..Len(all) : i < j => all[i].n < all[j].n

\* A packet that was accepted is delivered, waiting or cleared: none is lost.
NoneLost == tx = Len(delivered) + Len(InFlight) + discarded

\* The real bound on memory: putting a batch back may exceed MAX_QUEUE_LEN, but
\* only by that batch, however often it happens.
BoundedMemory ==
  /\ inbound <= MaxQueueLen
  /\ Len(batch) <= MaxBatch
  /\ Len(outbound) <= MaxQueueLen + MaxBatch
  /\ draining => Len(outbound) <= MaxQueueLen

\* A packet too long for the framing, or for the buffer, is never skipped: until
\* start() or stop() clears the queue nothing behind it is delivered either.
OversizeBlocks ==
  [][InFlight # <<>> /\ ~Framable(InFlight, 1) => delivered' = delivered]_vars

\* Outbound traffic is a FIFO channel: see PacketChannel.
Channel == INSTANCE PacketChannel WITH queue <- InFlight
ImplementsChannel == Channel!Spec
=============================================================================
