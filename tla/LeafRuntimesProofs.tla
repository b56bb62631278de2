------------------------- MODULE LeafRuntimesProofs -------------------------
(* Theorems about LeafRuntimes, for any number of ids and of sessions.        *)
EXTENDS LeafRuntimes, Integers, SequenceTheorems, TLAPS

\* A runtime is spawned once, by the session that is the current one then.
OrderInv ==
  /\ phase \in {"idle", "arti", "dns", "up", "drain"} /\ cur \in 0..MaxSessions
  /\ phase # "idle" => cur # 0
  /\ order \in Seq(Runtimes)
  /\ \A i \in DOMAIN order : order[i][1] <= cur
  /\ phase = "arti" => <<cur, "leaf1">> \notin Spawned
  /\ \A i, j \in DOMAIN order : order[i] = order[j] => i = j

\* Leaf's table knows a runtime under its own id.
TableInv ==
  \A i \in 0..IdCount - 1 :
    \/ table[i] = <<>>
    \/ \E r \in Spawned : table[i] = <<r>> /\ Id(r) = i

\* The drain is the current session's, whose token is cancelled.
DrainInv == phase = "drain" => cur \in cancelled

IInv == OrderInv /\ table \in [0..IdCount - 1 -> Seq(Runtimes)] /\ TableInv /\ DrainInv /\ OwnRuntimeOnly

-----------------------------------------------------------------------------
(* Ids.                                                                       *)

LEMMA DivMod ==
  ASSUME NEW n \in Nat \ {0}, NEW i \in Nat
  PROVE  i \div n \in Nat /\ i % n \in 0..n - 1 /\ i = n * (i \div n) + (i % n)
OBVIOUS

LEMMA Positive ==
  ASSUME NEW n \in Nat \ {0}, NEW d \in Int, n * d > 0
  PROVE  n * d >= n
OBVIOUS

\* Two numbers with the same remainder are a full turn apart.
LEMMA FullTurn ==
  ASSUME NEW n \in Nat \ {0}, NEW i \in Nat, NEW j \in Nat, i % n = j % n, i < j
  PROVE  j >= i + n
<1> DEFINE a == i \div n
           b == j \div n
<1>1. a \in Nat /\ b \in Nat /\ i = n * a + (i % n) /\ j = n * b + (j % n) /\ i % n \in 0..n - 1
  BY DivMod
<1> HIDE DEF a, b
<1>2. n * b - n * a = n * (b - a)
  BY <1>1
<1>3. n * (b - a) = j - i
  BY <1>1, <1>2
<1>4. n * (b - a) >= n
  BY <1>1, <1>3, Positive
<1> QED
  BY <1>3, <1>4

LEMMA PlaceOf ==
  ASSUME OrderInv, NEW r \in Spawned
  PROVE  /\ Place(r) \in DOMAIN order /\ order[Place(r)] = r
         /\ \A i \in DOMAIN order : order[i] = r => i = Place(r)
         /\ Place(r) \in Nat /\ Id(r) = Place(r) % IdCount /\ Id(r) \in 0..IdCount - 1
<1>1. \E i \in DOMAIN order : order[i] = r
  BY DEF Spawned, ToSet
<1>2. Place(r) \in DOMAIN order /\ order[Place(r)] = r
  BY <1>1 DEF Place
<1>3. Place(r) \in Nat
  BY <1>2, LenProperties DEF OrderInv
<1>4. Id(r) = Place(r) % IdCount
  BY DEF Id, IdAt
<1>5. Id(r) \in 0..IdCount - 1
  BY <1>3, <1>4, DivMod, IdAssumption
<1> QED
  BY <1>2, <1>3, <1>4, <1>5 DEF OrderInv

\* Runtimes that share an id were spawned a full turn of the counter apart.
LEMMA SameId ==
  ASSUME OrderInv, NEW q \in Spawned, NEW r \in Spawned, q # r, Id(q) = Id(r)
  PROVE  ATurnApart(q, r)
<1>1. /\ Place(q) \in DOMAIN order /\ Place(r) \in DOMAIN order
      /\ order[Place(q)] = q /\ order[Place(r)] = r
      /\ Place(q) \in Nat /\ Place(r) \in Nat
      /\ Place(q) % IdCount = Place(r) % IdCount
  BY PlaceOf
<1>2. Place(q) # Place(r)
  BY <1>1
<1>3. CASE Place(q) < Place(r)
  BY <1>1, <1>3, FullTurn, IdAssumption DEF ATurnApart
<1>4. CASE Place(r) < Place(q)
  BY <1>1, <1>4, FullTurn, IdAssumption DEF ATurnApart
<1> QED
  BY <1>1, <1>2, <1>3, <1>4

-----------------------------------------------------------------------------
(* A spawn.                                                                   *)

LEMMA SpawnOrder ==
  ASSUME IInv, NEW r \in Runtimes, r \notin Spawned, order' = Append(order, r),
         cur' \in 1..MaxSessions, cur <= cur', r[1] <= cur',
         phase' \in {"arti", "dns"}, phase' = "arti" => r # <<cur', "leaf1">> /\ cur < cur',
         UNCHANGED <<table, told, cancelled>>
  PROVE  IInv'
<1>1. order \in Seq(Runtimes)
  BY DEF IInv, OrderInv
<1>2. /\ order' \in Seq(Runtimes) /\ Len(order) \in Nat
      /\ DOMAIN order = 1..Len(order) /\ DOMAIN order' = 1..(Len(order) + 1)
      /\ \A i \in 1..Len(order) : order'[i] = order[i]
      /\ order'[Len(order) + 1] = r
  BY <1>1, AppendProperties, LenProperties
<1>3. Spawned' = Spawned \cup {r}
  BY <1>2 DEF Spawned, ToSet
<1>4. \A i \in DOMAIN order : order[i] \in Spawned /\ order[i][1] <= cur
  BY DEF Spawned, ToSet, IInv, OrderInv
<1>5. \A i \in DOMAIN order : order[i][1] \in Nat /\ order[i][1] <= cur'
  <2>1. \A i \in DOMAIN order : order[i] \in Runtimes
    BY <1>1, <1>2, ElementOfSeq
  <2>2. \A x \in Runtimes : x[1] \in Nat
    BY SessionsAssumption DEF Runtimes
  <2> QED
    BY <1>4, <2>1, <2>2 DEF IInv, OrderInv
<1>6. OrderInv'
  <2>1. \A i \in DOMAIN order' : order'[i][1] <= cur'
    BY <1>2, <1>5
  <2>2. ASSUME phase' = "arti" PROVE <<cur', "leaf1">> \notin Spawned'
    <3>1. <<cur', "leaf1">> \notin Spawned
      <4>1. ASSUME NEW i \in DOMAIN order PROVE order[i] # <<cur', "leaf1">>
        <5>1. order[i][1] # cur'
          BY <1>4, <1>5, <2>2 DEF IInv, OrderInv
        <5> QED
          BY <5>1
      <4> QED
        BY <4>1 DEF Spawned, ToSet
    <3> QED
      BY <1>3, <2>2, <3>1
  <2>3. \A i, j \in DOMAIN order' : order'[i] = order'[j] => i = j
    BY <1>2, <1>4 DEF IInv, OrderInv
  <2> QED
    BY <1>2, <2>1, <2>2, <2>3 DEF OrderInv
<1>7. ASSUME NEW q \in Spawned PROVE Id(q)' = Id(q)
  <2>1. Place(q) \in DOMAIN order /\ order[Place(q)] = q
    BY PlaceOf DEF IInv
  <2>2. Place(q) \in DOMAIN order' /\ order'[Place(q)] = q
    BY <1>2, <2>1
  <2>3. Place(q)' = Place(q)
    <3>1. \A i \in DOMAIN order' : order'[i] = q => i = Place(q)
      BY <1>6, <2>2 DEF OrderInv
    <3>2. Place(q)' = CHOOSE i \in DOMAIN order' : order'[i] = q
      BY DEF Place
    <3> QED
      BY <2>2, <3>1, <3>2
  <2> QED
    BY <2>3 DEF Id
<1>8. TableInv'
  BY <1>3, <1>7 DEF IInv, TableInv
<1>9. OwnRuntimeOnly'
  <2> SUFFICES ASSUME NEW x \in told, x[1] \notin cancelled
               PROVE  \E q \in Spawned' : q[1] \in cancelled /\ ATurnApart(q, x)'
    BY DEF OwnRuntimeOnly
  <2>1. PICK q \in Spawned : q[1] \in cancelled /\ ATurnApart(q, x)
    BY DEF IInv, OwnRuntimeOnly
  <2>2. ATurnApart(q, x)'
    <3>1. PICK i, j \in DOMAIN order : {order[i], order[j]} = {q, x} /\ j >= i + IdCount
      BY <2>1 DEF ATurnApart
    <3>2. i \in DOMAIN order' /\ j \in DOMAIN order' /\ order'[i] = order[i] /\ order'[j] = order[j]
      BY <1>2, <3>1
    <3>3. {order'[i], order'[j]} = {q, x}
      BY <3>1, <3>2
    <3> QED
      BY <3>1, <3>2, <3>3 DEF ATurnApart
  <2> QED
    BY <1>3, <2>1, <2>2
<1> QED
  BY <1>6, <1>8, <1>9 DEF IInv, DrainInv

-----------------------------------------------------------------------------
(* The other steps.                                                           *)

LEMMA OrderSame ==
  ASSUME UNCHANGED order
  PROVE  /\ Spawned' = Spawned
         /\ \A r : Id(r)' = Id(r)
         /\ \A q, r : ATurnApart(q, r)' <=> ATurnApart(q, r)
BY DEF Spawned, Id, Place, ATurnApart

\* leaf::shutdown reaches the runtime it was called for, or one with its id.
LEMMA ShutdownStep ==
  ASSUME IInv, NEW r \in Spawned, NEW call, Shutdown(r, call), r[1] \in cancelled
  PROVE  IInv'
<1>1. UNCHANGED <<phase, cur, order, cancelled, table>> /\ told' = told \cup ToSet(table[Id(r)])
  BY DEF Shutdown
<1>2. Id(r) \in 0..IdCount - 1
  BY PlaceOf DEF IInv
<1>3. ASSUME NEW x \in ToSet(table[Id(r)])
      PROVE  x[1] \in cancelled \/ \E q \in Spawned : q[1] \in cancelled /\ ATurnApart(q, x)
  <2>1. table[Id(r)] # <<>>
    BY <1>3 DEF ToSet
  <2>2. PICK s \in Spawned : table[Id(r)] = <<s>> /\ Id(s) = Id(r)
    BY <1>2, <2>1 DEF IInv, TableInv
  <2>3. x = s
    BY <1>3, <2>2 DEF ToSet
  <2>4. CASE s = r
    BY <2>3, <2>4
  <2>5. CASE s # r
    BY <2>2, <2>3, <2>5, SameId DEF IInv
  <2> QED
    BY <2>4, <2>5
<1>4. \A x \in told' : x[1] \in cancelled \/ \E q \in Spawned : q[1] \in cancelled /\ ATurnApart(q, x)
  BY <1>1, <1>3 DEF IInv, OwnRuntimeOnly
<1>5. OwnRuntimeOnly'
  BY <1>1, <1>4, OrderSame DEF OwnRuntimeOnly
<1>6. OrderInv' /\ TableInv' /\ DrainInv'
  BY <1>1, OrderSame DEF IInv, OrderInv, TableInv, DrainInv
<1> QED
  BY <1>1, <1>5, <1>6 DEF IInv

LEMMA Step == IInv /\ [Next]_vars => IInv'
<1> SUFFICES ASSUME IInv, [Next]_vars PROVE IInv'
  OBVIOUS
<1>0. phase \in {"idle", "arti", "dns", "up", "drain"} /\ cur \in 0..MaxSessions /\ cur \in Nat
  BY SessionsAssumption DEF IInv, OrderInv
<1>1. CASE StartLeaf2
  <2> DEFINE r == <<cur + 1, "leaf2">>
  <2>1. /\ r \in Runtimes /\ r[1] = cur' /\ cur' = cur + 1 /\ cur' \in 1..MaxSessions /\ phase' = "arti"
        /\ order' = Append(order, r) /\ UNCHANGED <<table, told, cancelled>>
    BY <1>0, <1>1, SessionsAssumption DEF StartLeaf2, Spawn, Runtimes, Leaves
  <2>2. r \notin Spawned
    <3>1. ASSUME NEW i \in DOMAIN order PROVE order[i][1] # cur + 1
      BY <1>0 DEF IInv, OrderInv
    <3> QED
      BY <3>1 DEF Spawned, ToSet
  <2>3. r # <<cur', "leaf1">> /\ cur < cur' /\ cur <= cur' /\ r[1] <= cur'
    BY <1>0, <2>1
  <2> HIDE DEF r
  <2> QED
    BY <2>1, <2>2, <2>3, SpawnOrder
<1>2. CASE StartLeaf1
  <2> DEFINE r == <<cur, "leaf1">>
  <2>1. /\ r[1] <= cur' /\ cur <= cur' /\ cur' \in 1..MaxSessions /\ phase' = "dns"
        /\ order' = Append(order, r) /\ UNCHANGED <<table, told, cancelled>>
    BY <1>0, <1>2, SessionsAssumption DEF StartLeaf1, Spawn, IInv, OrderInv
  <2>2. r \notin Spawned
    BY <1>2 DEF StartLeaf1, IInv, OrderInv
  <2>3. r \in Runtimes
    BY <1>0, <1>2 DEF StartLeaf1, IInv, OrderInv, Runtimes, Leaves
  <2> HIDE DEF r
  <2> QED
    BY <2>1, <2>2, <2>3, SpawnOrder
<1>3. CASE Connected \/ StartFails \/ StopReturns
  <2>1. UNCHANGED <<cur, order, table, cancelled, told>> /\ phase' \in {"up", "idle"}
    BY <1>3 DEF Connected, StartFails, StopReturns
  <2>2. phase # "idle"
    BY <1>3 DEF Connected, StartFails, StopReturns
  <2>3. OrderInv'
    BY <2>1, <2>2, OrderSame DEF IInv, OrderInv
  <2>4. TableInv' /\ DrainInv' /\ OwnRuntimeOnly'
    BY <2>1, OrderSame DEF IInv, TableInv, DrainInv, OwnRuntimeOnly
  <2> QED
    BY <2>1, <2>3, <2>4 DEF IInv
<1>4. CASE Stop
  <2>1. /\ UNCHANGED <<cur, order, table, told>> /\ phase = "up" /\ phase' = "drain"
        /\ cancelled' = cancelled \cup {cur}
    BY <1>4 DEF Stop
  <2>2. OwnRuntimeOnly'
    BY <2>1, OrderSame DEF IInv, OwnRuntimeOnly
  <2>3. OrderInv'
    BY <2>1, OrderSame DEF IInv, OrderInv
  <2>4. TableInv' /\ DrainInv'
    BY <2>1, OrderSame DEF IInv, TableInv, DrainInv
  <2> QED
    BY <2>1, <2>2, <2>3, <2>4 DEF IInv
<1>5. ASSUME NEW r \in Spawned, Watcher(r) PROVE IInv'
  BY <1>5, ShutdownStep DEF Watcher
<1>6. ASSUME NEW r \in Spawned, Drain(r) PROVE IInv'
  BY <1>6, ShutdownStep DEF Drain, IInv, DrainInv
<1>7. ASSUME NEW r \in Spawned, Register(r) PROVE IInv'
  <2>1. UNCHANGED <<phase, cur, order, cancelled, told>> /\ table' = [table EXCEPT ![Id(r)] = <<r>>]
    BY <1>7 DEF Register
  <2>2. r \in Runtimes /\ <<r>> \in Seq(Runtimes)
    BY LenProperties, ElementOfSeq DEF Spawned, ToSet, IInv, OrderInv
  <2>3. Id(r) \in 0..IdCount - 1
    BY PlaceOf DEF IInv
  <2>4. table' \in [0..IdCount - 1 -> Seq(Runtimes)] /\ TableInv'
    BY <2>1, <2>2, <2>3, OrderSame DEF IInv, TableInv
  <2> QED
    BY <2>1, <2>4, OrderSame DEF IInv, OrderInv, DrainInv, OwnRuntimeOnly
<1>8. ASSUME NEW r \in Spawned, End(r) PROVE IInv'
  <2>1. /\ UNCHANGED <<phase, cur, order, cancelled, told>>
        /\ table' = table \/ table' = [table EXCEPT ![Id(r)] = <<>>]
    BY <1>8 DEF End
  <2>2. <<>> \in Seq(Runtimes)
    BY EmptySeq
  <2>3. table' \in [0..IdCount - 1 -> Seq(Runtimes)] /\ TableInv'
    BY <2>1, <2>2, OrderSame DEF IInv, TableInv
  <2> QED
    BY <2>1, <2>3, OrderSame DEF IInv, OrderInv, DrainInv, OwnRuntimeOnly
<1>9. CASE UNCHANGED vars
  BY <1>9, OrderSame DEF vars, IInv, OrderInv, TableInv, DrainInv, OwnRuntimeOnly
<1> QED
  BY <1>1, <1>2, <1>3, <1>4, <1>5, <1>6, <1>7, <1>8, <1>9 DEF Next, Ends, Fails

\* No stop() shuts another session's runtime down, as long as the ids have not
\* gone round between the two (leaf_impl.rs:317-358).
THEOREM OnlyItsOwn == Spec => []OwnRuntimeOnly
<1>1. Init => IInv
  <2> SUFFICES ASSUME Init PROVE IInv
    OBVIOUS
  <2>1. Spawned = {} /\ DOMAIN order = {} /\ order \in Seq(Runtimes)
    BY EmptySeq DEF Init, Spawned, ToSet
  <2>2. OrderInv
    BY <2>1, SessionsAssumption DEF Init, OrderInv
  <2>3. TableInv /\ DrainInv /\ OwnRuntimeOnly
    BY DEF Init, TableInv, DrainInv, OwnRuntimeOnly
  <2>4. table \in [0..IdCount - 1 -> Seq(Runtimes)]
    BY EmptySeq DEF Init
  <2> QED
    BY <2>2, <2>3, <2>4 DEF IInv
<1>2. IInv => OwnRuntimeOnly
  BY DEF IInv
<1> QED
  BY <1>1, <1>2, Step, PTL DEF Spec
=============================================================================
