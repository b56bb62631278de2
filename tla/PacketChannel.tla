---------------------------- MODULE PacketChannel ----------------------------
(* What the pump promises for the packets the core sends to the TUN: a FIFO   *)
(* channel.  Packets are handed over in the order they were accepted, each at *)
(* most once; some of the latest may be dropped, never one from the middle.   *)
EXTENDS Naturals, Sequences

CONSTANT Packets
VARIABLES queue, delivered

Init == queue = <<>> /\ delivered = <<>>

Accept ==
  /\ queue' # <<>>
  /\ LET p == queue'[Len(queue')]
     IN  p \in Packets /\ queue' = Append(queue, p)
  /\ UNCHANGED delivered

Deliver(k) ==
  /\ delivered' = delivered \o SubSeq(queue, 1, k)
  /\ queue' = SubSeq(queue, k + 1, Len(queue))

DropFrom(k) ==
  /\ queue' = SubSeq(queue, 1, k)
  /\ UNCHANGED delivered

Next ==
  \/ Accept
  \/ \E k \in 0..Len(queue) : Deliver(k) \/ DropFrom(k)

Spec == Init /\ [][Next]_<<queue, delivered>>
=============================================================================
