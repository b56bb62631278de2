--------------------------- MODULE IosTunnelProofs ---------------------------
(* Theorems about the two halves of the iOS tunnel: the pump in the core      *)
(* (IosPump), for queues, batches, buffers and packets of any size, and the   *)
(* bridge in Swift (IosBridge), for any number of starts.                     *)
EXTENDS IosPump, IosBridge, SequenceTheorems, FiniteSetTheorems, TLAPS

-----------------------------------------------------------------------------
(* The pump.                                                                  *)

\* The framing loop writes a number of the batch's packets.
LEMMA FittingBound ==
  ASSUME NEW s \in Seq(Packets)
  PROVE  Fitting(s) \in 0..Len(s)
<1> DEFINE T == {k \in 1..Len(s) : \A j \in 1..k : Framable(s, j)}
<1>1. Len(s) \in Nat
  BY LenProperties
<1>2. IsFiniteSet(1..Len(s)) /\ Cardinality(1..Len(s)) = Len(s)
  BY <1>1, FS_Interval, SMTT(30)
<1>3. T \in SUBSET (1..Len(s))
  OBVIOUS
<1> HIDE DEF T
<1>4. IsFiniteSet(T) /\ Cardinality(T) <= Len(s)
  BY <1>2, <1>3, FS_Subset
<1>5. Cardinality(T) \in Nat
  BY <1>4, FS_CardinalityType
<1> QED
  BY <1>1, <1>4, <1>5 DEF T, Fitting

\* It writes none when the first one cannot be framed.
LEMMA NothingFits ==
  ASSUME NEW s \in Seq(Packets), ~Framable(s, 1)
  PROVE  Fitting(s) = 0
<1>1. {k \in 1..Len(s) : \A j \in 1..k : Framable(s, j)} = {}
  OBVIOUS
<1> QED
  BY <1>1, FS_EmptySet DEF Fitting

\* ConcatAssociative, quantified.
LEMMA Associative ==
  ASSUME NEW S
  PROVE  \A x, y, z \in Seq(S) : (x \o y) \o z = x \o (y \o z)
<1> TAKE x, y, z \in Seq(S)
<1> QED
  BY ConcatAssociative

\* Splitting a sequence gives two sequences, and together they are the whole.
LEMMA Split ==
  ASSUME NEW S, NEW s \in Seq(S), NEW k \in 0..Len(s)
  PROVE  /\ SubSeq(s, 1, k) \in Seq(S) /\ Len(SubSeq(s, 1, k)) = k
         /\ SubSeq(s, k + 1, Len(s)) \in Seq(S)
         /\ Len(SubSeq(s, k + 1, Len(s))) = Len(s) - k
         /\ SubSeq(s, 1, k) \o SubSeq(s, k + 1, Len(s)) = s
<1>1. Len(s) \in Nat /\ \A i \in 1..Len(s) : s[i] \in S
  BY LenProperties, ElementOfSeq
<1>2. SubSeq(s, 1, k) \in Seq(S) /\ Len(SubSeq(s, 1, k)) = k
  BY <1>1, SubSeqProperties
<1>3. SubSeq(s, k + 1, Len(s)) \in Seq(S) /\ Len(SubSeq(s, k + 1, Len(s))) = Len(s) - k
  BY <1>1, SubSeqProperties
<1>4. SubSeq(s, 1, Len(s)) = s
  BY SubSeqFull
<1>a. 1 \in 1..Len(s) + 1 /\ k \in 1 - 1..Len(s) /\ Len(s) \in k..Len(s)
  BY <1>1
<1>5. SubSeq(s, 1, k) \o SubSeq(s, k + 1, Len(s)) = SubSeq(s, 1, Len(s))
  BY <1>a, ConcatAdjacentSubSeq
<1> QED
  BY <1>2, <1>3, <1>4, <1>5

\* The batch a drain takes.
Taken == IF Len(outbound) < MaxBatch THEN Len(outbound) ELSE MaxBatch

\* TypeOK and the sizes of the queues, step by step.
IInv == TypeOK /\ BoundedMemory /\ NoneLost

\* The pump starts empty.
LEMMA InitInv == Init => IInv
<1> USE QueueAssumption
<1>1. Len(<<>>) = 0 /\ <<>> \in Seq(Packets) /\ <<>> \o <<>> = <<>>
  BY EmptySeq, ConcatEmptySeq
<1>2. Init => TypeOK
  <2> SUFFICES ASSUME Init PROVE TypeOK
    OBVIOUS
  <2>1. running \in BOOLEAN /\ draining \in BOOLEAN /\ batch = <<>>
    BY DEF Init
  <2>2. outbound \in Seq(Packets) /\ batch \in Seq(Packets) /\ delivered \in Seq(Packets)
    BY <1>1 DEF Init
  <2> QED
    BY <2>1, <2>2 DEF Init, TypeOK
<1>3. Init => BoundedMemory
  BY <1>1 DEF Init, BoundedMemory
<1>4. Init => NoneLost
  BY <1>1 DEF Init, NoneLost, InFlight
<1> QED
  BY <1>2, <1>3, <1>4 DEF IInv

\* No method of the pump, and neither half of a drain, breaks it.
LEMMA StepInv == IInv /\ [Next]_vars => IInv'
<1> SUFFICES ASSUME IInv, [Next]_vars PROVE IInv'
  OBVIOUS
<1> USE QueueAssumption, SizeAssumption DEF IInv, TypeOK
<1>0. /\ Len(batch) \in Nat /\ Len(outbound) \in Nat /\ Len(delivered) \in Nat
      /\ Len(InFlight) = Len(batch) + Len(outbound)
  BY LenProperties, ConcatProperties DEF InFlight
<1>e. Len(<<>>) = 0 /\ <<>> \in Seq(Packets)
  BY EmptySeq
<1>1. CASE Start \/ Stop
  <2>1. outbound' = <<>> /\ inbound' = 0 /\ discarded' = discarded + Len(outbound)
        /\ UNCHANGED <<rx, tx, droppedIn, droppedOut, draining, batch, ret, delivered>>
    BY <1>1 DEF Start, Stop, Clear
  <2>a. running' \in BOOLEAN
    BY <1>1 DEF Start, Stop
  <2>b. starts' \in Nat
    BY <1>1 DEF Start, Stop
  <2>2. Len(InFlight') = Len(batch)
    BY <2>1, <1>e, ConcatProperties, ConcatEmptySeq DEF InFlight
  <2>3. TypeOK'
    BY <1>0, <1>e, <2>1, <2>a, <2>b
  <2>4. BoundedMemory' /\ NoneLost'
    BY <1>0, <1>e, <2>1, <2>2 DEF BoundedMemory, NoneLost
  <2> QED
    BY <2>3, <2>4
<1>2. CASE PushInbound
  BY <1>0, <1>2, SMTT(30) DEF PushInbound, BoundedMemory, NoneLost, InFlight
<1>3. CASE PushOutbound
  <2>1. CASE UNCHANGED <<tx, outbound>>
    BY <1>0, <1>3, <2>1 DEF PushOutbound, BoundedMemory, NoneLost, InFlight
  <2>2. CASE tx' = tx + 1
    <3>1. PICK z \in Sizes : outbound' = Append(outbound, [n |-> tx + 1, size |-> z, start |-> starts])
      BY <1>3, <2>2 DEF PushOutbound
    <3>2. [n |-> tx + 1, size |-> z, start |-> starts] \in Packets
      BY DEF Packets
    <3>3. outbound' \in Seq(Packets) /\ Len(outbound') = Len(outbound) + 1
      BY <3>1, <3>2, AppendProperties
    <3>4. Len(outbound) < MaxQueueLen /\ batch' = batch
          /\ UNCHANGED <<running, inbound, rx, droppedIn, droppedOut, draining, ret, starts, delivered, discarded>>
      BY <1>0, <1>3, <2>2 DEF PushOutbound
    <3>5. Len(InFlight') = Len(batch) + Len(outbound')
      BY <3>3, <3>4, ConcatProperties DEF InFlight
    <3> QED
      BY <1>0, <2>2, <3>3, <3>4, <3>5, SMTT(30) DEF BoundedMemory, NoneLost
  <2> QED
    BY <1>3, <2>1, <2>2 DEF PushOutbound
<1>4. CASE DrainRefused
  BY <1>0, <1>4 DEF DrainRefused, BoundedMemory, NoneLost, InFlight
<1>5. CASE DrainTake
  <2>1. Taken \in 0..Len(outbound) /\ Taken <= MaxBatch /\ Len(outbound) - Taken <= MaxQueueLen
    BY <1>0 DEF Taken, BoundedMemory
  <2>2. batch' = SubSeq(outbound, 1, Taken) /\ outbound' = SubSeq(outbound, Taken + 1, Len(outbound))
        /\ batch = <<>> /\ draining'
        /\ UNCHANGED <<running, inbound, rx, tx, droppedIn, droppedOut, ret, starts, delivered, discarded>>
    BY <1>5 DEF DrainTake, Taken
  <2>3. batch' \in Seq(Packets) /\ Len(batch') = Taken
        /\ outbound' \in Seq(Packets) /\ Len(outbound') = Len(outbound) - Taken
    BY <2>1, <2>2, Split
  <2>4. Len(InFlight') = Len(batch') + Len(outbound')
    BY <2>3, ConcatProperties DEF InFlight
  <2>5. TypeOK'
    BY <2>1, <2>2, <2>3
  <2>6. BoundedMemory'
    BY <1>0, <2>1, <2>2, <2>3 DEF BoundedMemory
  <2>7. NoneLost'
    <3>1. Len(InFlight') = Len(InFlight)
      BY <1>0, <1>e, <2>1, <2>2, <2>3, <2>4
    <3>2. tx' = tx /\ delivered' = delivered /\ discarded' = discarded
      BY <2>2
    <3> QED
      BY <3>1, <3>2 DEF NoneLost
  <2> QED
    BY <2>5, <2>6, <2>7
<1>6. CASE DrainFinish
  <2>1. Fitting(batch) \in 0..Len(batch)
    BY FittingBound
  <2>2. /\ Written \in Seq(Packets) /\ Len(Written) = Fitting(batch)
        /\ Unwritten \in Seq(Packets) /\ Len(Unwritten) = Len(batch) - Fitting(batch)
    <3>1. batch \in Seq(Packets)
      OBVIOUS
    <3> HIDE QueueAssumption, SizeAssumption DEF IInv, TypeOK
    <3> QED
      BY <2>1, <3>1, Split DEF Written, Unwritten
  <2>3. /\ delivered' = delivered \o Written /\ outbound' = Unwritten \o outbound
        /\ batch' = <<>> /\ draining /\ ~draining' /\ ret' = Fitting(batch)
        /\ UNCHANGED <<running, inbound, rx, tx, droppedIn, droppedOut, starts, discarded>>
        /\ draining' \in BOOLEAN
    BY <1>6 DEF DrainFinish, HandOver
  <2>4. delivered' \in Seq(Packets) /\ Len(delivered') = Len(delivered) + Fitting(batch)
    <3>1. delivered \in Seq(Packets)
      OBVIOUS
    <3> QED
      BY <2>2, <2>3, <3>1, ConcatProperties
  <2>5. outbound' \in Seq(Packets) /\ Len(outbound') = Len(batch) - Fitting(batch) + Len(outbound)
    <3>1. outbound \in Seq(Packets)
      OBVIOUS
    <3> HIDE QueueAssumption, SizeAssumption DEF IInv, TypeOK
    <3>2. Unwritten \o outbound \in Seq(Packets)
          /\ Len(Unwritten \o outbound) = Len(Unwritten) + Len(outbound)
      BY <2>2, <3>1, ConcatProperties
    <3> QED
      BY <2>2, <2>3, <3>2
  <2>6. Len(InFlight') = Len(outbound')
    BY <2>3, <2>5, ConcatEmptySeq DEF InFlight
  <2> HIDE DEF TypeOK
  <2>7. TypeOK'
    BY <1>e, <2>1, <1>0, <2>3, <2>4, <2>5 DEF TypeOK
  <2>8. BoundedMemory'
    BY <1>0, <1>e, <2>1, <2>3, <2>5 DEF BoundedMemory
  <2>9. NoneLost'
    <3>1. Len(delivered') + Len(InFlight') = Len(delivered) + Len(InFlight)
      BY <1>0, <2>1, <2>4, <2>5, <2>6
    <3>2. tx' = tx /\ discarded' = discarded
      BY <2>3
    <3>3. Len(delivered') \in Nat /\ Len(InFlight') \in Nat /\ discarded \in Nat
      BY <1>0, <2>1, <2>4, <2>5, <2>6 DEF TypeOK
    <3> HIDE DEF InFlight
    <3> QED
      BY <1>0, <3>1, <3>2, <3>3 DEF NoneLost
  <2> QED
    BY <2>7, <2>8, <2>9
<1>7. CASE UNCHANGED vars
  BY <1>7 DEF vars, BoundedMemory, NoneLost, InFlight
<1> QED
  BY <1>1, <1>2, <1>3, <1>4, <1>5, <1>6, <1>7 DEF Next

\* The inductive invariant holds always.
THEOREM PumpInvariance == Spec => []IInv
BY InitInv, StepInv, PTL DEF Spec

\* The queue, its counters and the drain's batch keep their types.
THEOREM PumpTypeCorrect == Spec => []TypeOK
BY PumpInvariance, PTL DEF IInv

\* Putting a batch back exceeds MAX_QUEUE_LEN by that batch at most, however
\* often drains, pushes, stops and starts overlap.
THEOREM PumpBounded == Spec => []BoundedMemory
BY PumpInvariance, PTL DEF IInv

\* Every accepted packet is delivered, waiting or was cleared.
THEOREM PumpLosesNone == Spec => []NoneLost
BY PumpInvariance, PTL DEF IInv

\* Cutting a concatenation inside its first part.
LEMMA CutConcat ==
  ASSUME NEW S, NEW s \in Seq(S), NEW t \in Seq(S), NEW k \in 0..Len(s)
  PROVE  /\ SubSeq(s \o t, 1, k) = SubSeq(s, 1, k)
         /\ SubSeq(s \o t, k + 1, Len(s \o t)) = SubSeq(s, k + 1, Len(s)) \o t
<1>1. /\ Len(s) \in Nat /\ Len(t) \in Nat /\ s \o t \in Seq(S)
      /\ Len(s \o t) = Len(s) + Len(t)
  BY LenProperties, ConcatProperties
<1>2. k \in 0..Len(s \o t)
  BY <1>1
<1>3. /\ SubSeq(s, 1, k) \in Seq(S) /\ SubSeq(s, k + 1, Len(s)) \in Seq(S)
      /\ SubSeq(s, 1, k) \o SubSeq(s, k + 1, Len(s)) = s
  BY Split
<1>4. /\ SubSeq(s \o t, 1, k) \in Seq(S) /\ SubSeq(s \o t, k + 1, Len(s \o t)) \in Seq(S)
      /\ SubSeq(s \o t, 1, k) \o SubSeq(s \o t, k + 1, Len(s \o t)) = s \o t
  BY <1>1, <1>2, Split
<1>5. SubSeq(s \o t, 1, k) = SubSeq(s, 1, k)
  <2>1. CASE k = 0
    BY <2>1, SubSeqEmpty
  <2>2. CASE k # 0
    <3>1. 1 \in 1..Len(s) /\ k \in 1..Len(s)
      BY <1>1, <2>2
    <3> QED
      BY <3>1, SubSeqOfConcat1
  <2> QED
    BY <2>1, <2>2
<1>6. SubSeq(s, k + 1, Len(s)) \o t \in Seq(S)
  BY <1>3, ConcatProperties
<1>7. SubSeq(s, 1, k) \o (SubSeq(s, k + 1, Len(s)) \o t) = s \o t
  <2> DEFINE a == SubSeq(s, 1, k)
             b == SubSeq(s, k + 1, Len(s))
  <2>1. a \in Seq(S) /\ b \in Seq(S) /\ a \o b = s
    BY <1>3
  <2> HIDE DEF a, b
  <2>2. \A x, y, z \in Seq(S) : (x \o y) \o z = x \o (y \o z)
    BY ConcatAssociative, SMTT(60)
  <2>3. (a \o b) \o t = a \o (b \o t)
    BY <2>1, <2>2, ZenonT(60)
  <2>4. a \o (b \o t) = s \o t
    BY <2>1, <2>3, Zenon
  <2> QED
    BY <2>4 DEF a, b
<1>8. SubSeq(s, 1, k) \o (SubSeq(s, k + 1, Len(s)) \o t)
        = SubSeq(s, 1, k) \o SubSeq(s \o t, k + 1, Len(s \o t))
  BY <1>4, <1>5, <1>7
<1>9. SubSeq(s, k + 1, Len(s)) \o t = SubSeq(s \o t, k + 1, Len(s \o t))
  <2> DEFINE a == SubSeq(s, 1, k)
             u == SubSeq(s, k + 1, Len(s)) \o t
             v == SubSeq(s \o t, k + 1, Len(s \o t))
  <2>1. a \in Seq(S) /\ u \in Seq(S) /\ v \in Seq(S) /\ a \o u = a \o v
    BY <1>3, <1>4, <1>6, <1>8
  <2> HIDE DEF a, u, v
  <2>2. u = v
    BY <2>1, ConcatSimplifications, Zenon
  <2> QED
    BY <2>2 DEF u, v
<1> QED
  BY <1>5, <1>9

\* Nothing behind an oversized packet is delivered before a start() or stop().
THEOREM OversizeBlocksAll == Spec => OversizeBlocks
<1>1. TypeOK /\ [Next]_vars => [InFlight # <<>> /\ ~Framable(InFlight, 1) => delivered' = delivered]_vars
  <2> SUFFICES ASSUME TypeOK, DrainFinish, InFlight # <<>>, ~Framable(InFlight, 1)
               PROVE  delivered' = delivered
    BY DEF Next, vars, Start, Stop, Clear, PushInbound, PushOutbound, DrainRefused, DrainTake
  <2>0. batch \in Seq(Packets) /\ outbound \in Seq(Packets) /\ delivered \in Seq(Packets)
        /\ Len(batch) \in Nat
    BY LenProperties DEF TypeOK
  <2>1. Fitting(batch) = 0
    <3>0. Fitting(batch) \in 0..Len(batch)
      BY <2>0, FittingBound
    <3>1. CASE Len(batch) = 0
      BY <3>0, <3>1
    <3>2. CASE Len(batch) # 0
      <4>1. SubSeq(InFlight, 1, 1) = SubSeq(batch, 1, 1)
        BY <2>0, <3>2, CutConcat DEF InFlight
      <4>2. InFlight[1] = batch[1]
        BY <2>0, <3>2, ConcatProperties, LenProperties DEF InFlight
      <4>a. Framed(InFlight, 1) = Framed(batch, 1)
        BY <4>1, Zenon DEF Framed
      <4>3. ~Framable(batch, 1)
        BY <4>a, <4>2 DEF Framable
      <4> QED
        BY <2>0, <4>3, NothingFits
    <3> QED
      BY <3>1, <3>2
  <2>2. Written = <<>>
    BY <2>1, SubSeqEmpty DEF Written
  <2> QED
    BY <2>0, <2>2, ConcatEmptySeq DEF DrainFinish, HandOver
<1> QED
  BY PumpInvariance, <1>1, PTL DEF Spec, IInv, OversizeBlocks

\* Outbound traffic implements a FIFO channel.
THEOREM FifoChannel == Spec => ImplementsChannel
<1>1. Init => Channel!Init
  BY EmptySeq, ConcatEmptySeq DEF Init, Channel!Init, InFlight
<1>2. TypeOK /\ [Next]_vars => [Channel!Next]_<<InFlight, delivered>>
  <2> SUFFICES ASSUME TypeOK, [Next]_vars
               PROVE  Channel!Next \/ UNCHANGED <<InFlight, delivered>>
    OBVIOUS
  <2>0. /\ batch \in Seq(Packets) /\ outbound \in Seq(Packets) /\ delivered \in Seq(Packets)
        /\ Len(batch) \in Nat /\ Len(outbound) \in Nat
        /\ InFlight \in Seq(Packets) /\ Len(InFlight) = Len(batch) + Len(outbound)
    BY LenProperties, ConcatProperties DEF TypeOK, InFlight
  <2>1. CASE Start \/ Stop
    <3>1. batch' = batch /\ outbound' = <<>> /\ delivered' = delivered
      BY <2>1 DEF Start, Stop, Clear
    <3>2. Len(batch) \in 0..Len(batch) /\ Len(batch) \in 0..Len(InFlight)
      BY <2>0
    <3>3. SubSeq(InFlight, 1, Len(batch)) = batch
      BY <2>0, <3>2, CutConcat, SubSeqFull DEF InFlight
    <3>4. InFlight' = SubSeq(InFlight, 1, Len(batch))
      BY <2>0, <3>1, <3>3, ConcatEmptySeq DEF InFlight
    <3> QED
      BY <3>1, <3>2, <3>4 DEF Channel!Next, Channel!DropFrom
  <2>2. CASE PushOutbound /\ tx' = tx + 1
    <3>1. PICK z \in Sizes : outbound' = Append(outbound, [n |-> tx + 1, size |-> z, start |-> starts])
      <4>1. tx' # tx
        BY <2>2 DEF TypeOK
      <4> QED
        BY <2>2, <4>1 DEF PushOutbound
    <3> DEFINE p == [n |-> tx + 1, size |-> z, start |-> starts]
    <3>2. p \in Packets /\ batch' = batch /\ delivered' = delivered
      BY <2>2 DEF PushOutbound, Packets, TypeOK
    <3> HIDE DEF p
    <3>3. <<p>> \in Seq(Packets) /\ Append(outbound, p) = outbound \o <<p>>
          /\ Append(InFlight, p) = InFlight \o <<p>>
      BY <2>0, <3>2, AppendIsConcat
    <3>4. InFlight' = Append(InFlight, p)
      <4>1. InFlight' = batch \o (outbound \o <<p>>)
        BY <3>1, <3>2, <3>3 DEF InFlight, p
      <4>2. (batch \o outbound) \o <<p>> = batch \o (outbound \o <<p>>)
        <5>1. \A u, v, w \in Seq(Packets) : (u \o v) \o w = u \o (v \o w)
          BY Associative, SMTT(60)
        <5>2. batch \in Seq(Packets) /\ outbound \in Seq(Packets) /\ <<p>> \in Seq(Packets)
          BY <2>0, <3>3
        <5> QED
          BY <5>1, <5>2, ZenonT(30)
      <4> QED
        BY <3>3, <4>1, <4>2 DEF InFlight
    <3>5. InFlight' # <<>> /\ InFlight'[Len(InFlight')] = p
      <4>1. InFlight \in Seq(Packets)
        BY <2>0, ConcatProperties DEF InFlight
      <4> HIDE DEF InFlight
      <4>2. /\ Append(InFlight, p) # <<>>
            /\ Append(InFlight, p)[Len(Append(InFlight, p))] = p
        BY <3>2, <4>1, AppendProperties
      <4> QED
        BY <3>4, <4>2
    <3> QED
      BY <3>2, <3>4, <3>5 DEF Channel!Next, Channel!Accept
  <2>3. CASE DrainTake
    <3> DEFINE k == Taken
    <3>1. Taken \in 0..Len(outbound)
      BY <2>0, QueueAssumption DEF Taken
    <3>2. batch' = SubSeq(outbound, 1, Taken) /\ outbound' = SubSeq(outbound, Taken + 1, Len(outbound))
          /\ batch = <<>> /\ delivered' = delivered
      BY <2>3 DEF DrainTake, Taken, TypeOK
    <3>3. InFlight' = outbound /\ InFlight = outbound
      BY <2>0, <3>1, <3>2, Split, ConcatEmptySeq DEF InFlight
    <3> QED
      BY <3>2, <3>3
  <2>4. CASE DrainFinish
    <3>1. Fitting(batch) \in 0..Len(batch)
      BY <2>0, FittingBound
    <3>2. delivered' = delivered \o SubSeq(InFlight, 1, Fitting(batch))
      BY <2>0, <2>4, <3>1, CutConcat DEF DrainFinish, HandOver, Written, InFlight
    <3>3. Unwritten \o outbound \in Seq(Packets)
      BY <2>0, <3>1, Split, ConcatProperties DEF Unwritten
    <3>4. InFlight' = Unwritten \o outbound
      BY <2>4, <3>3, ConcatEmptySeq DEF DrainFinish, HandOver, InFlight
    <3>5. InFlight' = SubSeq(InFlight, Fitting(batch) + 1, Len(InFlight))
      BY <2>0, <3>1, <3>4, CutConcat DEF Unwritten, InFlight
    <3>6. Fitting(batch) \in 0..Len(InFlight)
      BY <2>0, <3>1
    <3> QED
      BY <3>2, <3>5, <3>6 DEF Channel!Next, Channel!Deliver
  <2>5. CASE PushInbound \/ DrainRefused \/ UNCHANGED vars \/ (PushOutbound /\ tx' # tx + 1)
    BY <2>5 DEF PushInbound, DrainRefused, vars, PushOutbound, InFlight
  <2> QED
    BY <2>1, <2>2, <2>3, <2>4, <2>5 DEF Next
<1> QED
  BY PumpInvariance, <1>1, <1>2, PTL DEF Spec, IInv, ImplementsChannel, Channel!Spec

\* Every packet the pump still knows of, in the order Swift gets them.
All == delivered \o InFlight

\* What a step does to them: they stay, the latest are cleared, or a packet the
\* core has just pushed comes last.
LEMMA AllMoves ==
  ASSUME TypeOK, [Next]_vars
  PROVE  /\ All \in Seq(Packets) /\ tx \in Nat
         /\ \/ All' = All /\ tx' = tx
            \/ \E k \in 0..Len(All) : All' = SubSeq(All, 1, k) /\ tx' = tx
            \/ \E p \in Packets : p.n = tx + 1 /\ All' = Append(All, p) /\ tx' = tx + 1
<1>0. /\ batch \in Seq(Packets) /\ outbound \in Seq(Packets) /\ delivered \in Seq(Packets)
      /\ Len(batch) \in Nat /\ Len(outbound) \in Nat /\ Len(delivered) \in Nat /\ tx \in Nat
  BY LenProperties DEF TypeOK
<1>1. InFlight \in Seq(Packets) /\ All \in Seq(Packets)
  BY <1>0, ConcatProperties DEF InFlight, All
<1>a. \A x, y, z \in Seq(Packets) : (x \o y) \o z = x \o (y \o z)
  BY ConcatAssociative
<1>2. CASE Start \/ Stop
  <2>1. batch' = batch /\ outbound' = <<>> /\ delivered' = delivered /\ tx' = tx
    BY <1>2 DEF Start, Stop, Clear
  <2>2. All' = delivered \o batch
    BY <1>0, <2>1, ConcatEmptySeq DEF All, InFlight
  <2> DEFINE d == delivered \o batch
  <2>3. d \in Seq(Packets) /\ Len(d) \in Nat /\ All = d \o outbound
    <3>1. d \in Seq(Packets)
      BY <1>0, ConcatProperties
    <3>2. (delivered \o batch) \o outbound = delivered \o (batch \o outbound)
      BY <1>0, <1>a, Zenon
    <3> QED
      BY <3>1, <3>2, LenProperties DEF All, InFlight
  <2> HIDE DEF d
  <2>4. Len(d) \in 0..Len(d) /\ Len(All) = Len(d) + Len(outbound)
    BY <1>0, <2>3, ConcatProperties
  <2>5. SubSeq(All, 1, Len(d)) = d
    BY <1>0, <2>3, <2>4, CutConcat, SubSeqFull
  <2>6. Len(d) \in 0..Len(All)
    BY <1>0, <2>3, <2>4
  <2> QED
    BY <1>0, <1>1, <2>1, <2>2, <2>5, <2>6 DEF d
<1>3. CASE PushOutbound
  <2>1. CASE UNCHANGED <<tx, outbound>>
    BY <1>0, <1>1, <1>3, <2>1 DEF PushOutbound, All, InFlight
  <2>2. CASE tx' = tx + 1
    <3>0. tx' # tx
      BY <1>0, <2>2
    <3>1. PICK z \in Sizes : outbound' = Append(outbound, [n |-> tx + 1, size |-> z, start |-> starts])
      BY <1>3, <3>0 DEF PushOutbound
    <3> DEFINE p == [n |-> tx + 1, size |-> z, start |-> starts]
    <3>2. p \in Packets /\ p.n = tx + 1 /\ batch' = batch /\ delivered' = delivered
      BY <1>0, <1>3 DEF PushOutbound, Packets, TypeOK
    <3>3. outbound' = Append(outbound, p)
      BY <3>1
    <3> HIDE DEF p
    <3>4. /\ <<p>> \in Seq(Packets) /\ Append(outbound, p) = outbound \o <<p>>
          /\ Append(All, p) = All \o <<p>>
      BY <1>0, <1>1, <3>2, AppendIsConcat
    <3>5. All' = delivered \o (batch \o (outbound \o <<p>>))
      BY <3>2, <3>3, <3>4 DEF All, InFlight
    <3>6. batch \o (outbound \o <<p>>) = InFlight \o <<p>>
      BY <1>0, <1>a, <3>4, Zenon DEF InFlight
    <3>7. delivered \o (InFlight \o <<p>>) = All \o <<p>>
      BY <1>0, <1>1, <1>a, <3>4, Zenon DEF All
    <3>8. All' = Append(All, p)
      BY <3>4, <3>5, <3>6, <3>7, Zenon
    <3> QED
      BY <1>0, <1>1, <2>2, <3>2, <3>8
  <2> QED
    BY <1>3, <2>1, <2>2 DEF PushOutbound
<1>4. CASE DrainTake
  <2>1. Taken \in 0..Len(outbound)
    BY <1>0, QueueAssumption DEF Taken
  <2>2. /\ batch' = SubSeq(outbound, 1, Taken) /\ batch = <<>>
        /\ outbound' = SubSeq(outbound, Taken + 1, Len(outbound))
        /\ delivered' = delivered /\ tx' = tx
    BY <1>4 DEF DrainTake, Taken, TypeOK
  <2>3. batch' \o outbound' = outbound
    BY <1>0, <2>1, <2>2, Split
  <2>4. InFlight' = InFlight
    BY <1>0, <2>2, <2>3, ConcatEmptySeq DEF InFlight
  <2> QED
    BY <1>0, <1>1, <2>2, <2>4 DEF All
<1>5. CASE DrainFinish
  <2>1. Fitting(batch) \in 0..Len(batch)
    BY <1>0, FittingBound
  <2>2. /\ Written \in Seq(Packets) /\ Unwritten \in Seq(Packets)
        /\ Written \o Unwritten = batch
    BY <1>0, <2>1, Split DEF Written, Unwritten
  <2>3. /\ batch' = <<>> /\ outbound' = Unwritten \o outbound
        /\ delivered' = delivered \o Written /\ tx' = tx
    BY <1>5 DEF DrainFinish, HandOver
  <2>4. Unwritten \o outbound \in Seq(Packets)
    BY <1>0, <2>2, ConcatProperties
  <2>5. InFlight' = Unwritten \o outbound
    BY <2>3, <2>4, ConcatEmptySeq DEF InFlight
  <2>6. (delivered \o Written) \o (Unwritten \o outbound)
          = delivered \o (Written \o (Unwritten \o outbound))
    BY <1>0, <1>a, <2>2, <2>4, ZenonT(30)
  <2>7. Written \o (Unwritten \o outbound) = batch \o outbound
    <3>a. Written \in Seq(Packets) /\ Unwritten \in Seq(Packets) /\ outbound \in Seq(Packets)
      BY <1>0, <2>2
    <3>1. (Written \o Unwritten) \o outbound = Written \o (Unwritten \o outbound)
      BY <3>a, <1>a, Zenon
    <3> QED
      BY <2>2, <3>1, Zenon
  <2>8. All' = All
    BY <2>3, <2>5, <2>6, <2>7 DEF All, InFlight
  <2> QED
    BY <1>0, <1>1, <2>3, <2>8
<1>6. CASE PushInbound \/ DrainRefused \/ UNCHANGED vars
  BY <1>0, <1>1, <1>6 DEF PushInbound, DrainRefused, vars, All, InFlight
<1> QED
  BY <1>2, <1>3, <1>4, <1>5, <1>6 DEF Next

\* Ranks rise along the packets and stay below the rank of the next one: the
\* second half is what keeps the first when a packet is pushed.
OrderInv == InOrder /\ \A i \in 1..Len(All) : All[i].n <= tx

\* A step keeps the ranks in order.
LEMMA OrderStep == TypeOK /\ OrderInv /\ [Next]_vars => OrderInv'
<1> SUFFICES ASSUME TypeOK, OrderInv, [Next]_vars PROVE OrderInv'
  OBVIOUS
<1>0. /\ All \in Seq(Packets) /\ tx \in Nat
      /\ \/ All' = All /\ tx' = tx
         \/ \E k \in 0..Len(All) : All' = SubSeq(All, 1, k) /\ tx' = tx
         \/ \E p \in Packets : p.n = tx + 1 /\ All' = Append(All, p) /\ tx' = tx + 1
  BY AllMoves
<1>1. /\ Len(All) \in Nat /\ \A i \in 1..Len(All) : All[i].n \in Nat
  <2>1. \A i \in 1..Len(All) : All[i] \in Packets
    BY <1>0, ElementOfSeq
  <2> QED
    BY <1>0, <2>1, LenProperties DEF Packets
<1>2. /\ \A i, j \in 1..Len(All) : i < j => All[i].n < All[j].n
      /\ \A i \in 1..Len(All) : All[i].n <= tx
  BY DEF OrderInv, InOrder, All
<1> SUFFICES /\ \A i, j \in 1..Len(All') : i < j => (All')[i].n < (All')[j].n
             /\ \A i \in 1..Len(All') : (All')[i].n <= tx'
  BY DEF OrderInv, InOrder, All
<1>3. CASE All' = All /\ tx' = tx
  BY <1>2, <1>3
<1>4. CASE \E k \in 0..Len(All) : All' = SubSeq(All, 1, k) /\ tx' = tx
  <2>1. PICK k \in 0..Len(All) : All' = SubSeq(All, 1, k) /\ tx' = tx
    BY <1>4
  <2>2. \A i \in 1..Len(All) : All[i] \in Packets
    BY <1>0, ElementOfSeq
  <2>3. Len(SubSeq(All, 1, k)) = k /\ \A i \in 1..k : SubSeq(All, 1, k)[i] = All[i]
    BY <1>1, <2>2, SubSeqProperties
  <2>4. 1..k \subseteq 1..Len(All)
    BY <1>1
  <2> QED
    BY <1>2, <2>1, <2>3, <2>4
<1>5. CASE \E p \in Packets : p.n = tx + 1 /\ All' = Append(All, p) /\ tx' = tx + 1
  <2>1. PICK p \in Packets : p.n = tx + 1 /\ All' = Append(All, p) /\ tx' = tx + 1
    BY <1>5
  <2>2. /\ Len(Append(All, p)) = Len(All) + 1
        /\ \A i \in 1..Len(All) : Append(All, p)[i] = All[i]
        /\ Append(All, p)[Len(All) + 1] = p
    BY <1>0, AppendProperties
  <2>3. \A i \in 1..Len(All) + 1 : i \in 1..Len(All) \/ i = Len(All) + 1
    BY <1>1
  <2>4. \A i \in 1..Len(All') : (All')[i].n <= tx'
    BY <1>0, <1>1, <1>2, <2>1, <2>2, <2>3
  <2>5. ASSUME NEW i \in 1..Len(All'), NEW j \in 1..Len(All'), i < j
        PROVE  (All')[i].n < (All')[j].n
    <3>1. i \in 1..Len(All)
      BY <1>1, <2>1, <2>2, <2>5
    <3>2. (All')[i].n = All[i].n /\ All[i].n <= tx /\ All[i].n \in Nat
      BY <1>1, <1>2, <2>1, <2>2, <3>1
    <3>3. CASE j \in 1..Len(All)
      BY <1>2, <2>1, <2>2, <2>5, <3>1, <3>3
    <3>4. CASE j = Len(All) + 1
      BY <1>0, <2>1, <2>2, <3>2, <3>4
    <3> QED
      BY <2>1, <2>2, <2>3, <3>3, <3>4
  <2> QED
    BY <2>4, <2>5
<1> QED
  BY <1>0, <1>3, <1>4, <1>5

\* Swift gets the core's packets in order, none twice, however a drain that is
\* between its two locks overlaps pushes, stops and starts.
THEOREM PumpInOrder == Spec => []InOrder
<1>1. Init => OrderInv
  <2> SUFFICES ASSUME Init PROVE OrderInv
    OBVIOUS
  <2>1. All = <<>>
    BY EmptySeq, ConcatEmptySeq DEF Init, All, InFlight
  <2>2. 1..Len(All) = {}
    BY <2>1, EmptySeq
  <2> QED
    BY <2>2 DEF OrderInv, InOrder, All
<1>2. OrderInv => InOrder
  BY DEF OrderInv
<1> QED
  BY PumpTypeCorrect, OrderStep, <1>1, <1>2, PTL DEF Spec

-----------------------------------------------------------------------------
(* The bridge.                                                                *)

\* A stop() holds the bridge, with the pump stopped, until it has returned.
StopHolds ==
  /\ stopping # "none" => bridgeRunning
  /\ pump <=> bridgeRunning /\ stopping = "none"

\* Only a start() that is not interrupted ends with a reader: its flow is set
\* from SetFlow on, and whoever clears it clears bridgeRunning with it.
ReaderHeld ==
  /\ bridgeRunning /\ starting = "arm" => flow
  /\ bridgeRunning /\ starting = "none" => flow /\ reads # {}

\* A stop() that has overtaken no start() leaves nothing.
StopLeavesNothing ==
  ~overtaken =>
    /\ stopping # "none" => starting = "none"
    /\ stopping = "flow" => ~core
    /\ ~bridgeRunning => starting = "none" /\ ~flow /\ ~core

BridgeInv == StopHolds /\ ReaderHeld /\ StopLeavesNothing

LEMMA BridgeStep == BridgeInv /\ [BridgeNext]_bridgeVars => BridgeInv'
<1> SUFFICES ASSUME BridgeInv, [BridgeNext]_bridgeVars PROVE BridgeInv'
  OBVIOUS
<1> USE DEF BridgeInv, StopHolds, ReaderHeld, StopLeavesNothing
<1>1. CASE StartBegin
  BY <1>1 DEF StartBegin
<1>2. CASE CoreStarts
  BY <1>2 DEF CoreStarts
<1>3. CASE SetFlow
  BY <1>3 DEF SetFlow
<1>4. CASE ArmLoop
  BY <1>4 DEF ArmLoop
<1>5. CASE StopBegin
  BY <1>5 DEF StopBegin
<1>6. CASE CoreStops
  BY <1>6 DEF CoreStops
<1>7. CASE StopEnd
  BY <1>7 DEF StopEnd
<1>8. CASE \E s \in 1..MaxTunnels : ReadDone(s)
  BY <1>8 DEF ReadDone
<1>9. CASE UNCHANGED bridgeVars
  BY <1>9 DEF bridgeVars
<1> QED
  BY <1>1, <1>2, <1>3, <1>4, <1>5, <1>6, <1>7, <1>8, <1>9 DEF BridgeNext

\* The bridge is whole or gone between calls, however often the tunnel is
\* started and however late the callbacks of earlier starts come
\* (Vpn21Bridge.swift:11-97).
THEOREM TunnelWholeOrGone == BridgeSpec => []WholeOrGone
<1>1. BridgeInit => BridgeInv
  BY DEF BridgeInit, BridgeInv, StopHolds, ReaderHeld, StopLeavesNothing
<1>2. BridgeInv => WholeOrGone
  BY DEF BridgeInv, StopHolds, ReaderHeld, StopLeavesNothing, WholeOrGone
<1> QED
  BY <1>1, <1>2, BridgeStep, PTL DEF BridgeSpec
=============================================================================
