-------------------------- MODULE ProfilePathProofs --------------------------
(* Theorems about ProfilePath: for any blobs and any number of restarts.      *)
EXTENDS ProfilePath, SequenceTheorems, FiniteSetTheorems, TLAPS

\* What the store holds: profiles, and calls that wait for the preferences.
Saved == [id : Nat, data : {FromJson(b)[1] : b \in UNION ToSet(Blobs)}]
Calls == [op : {"load", "save"}, id : Nat]

Loaded == ~\E i \in DOMAIN pending : pending[i].op = "load"
Stored == IF disk = <<>> THEN {} ELSE Ids(disk[1])

StoreTypes ==
  /\ profiles \in Seq(Saved) /\ pending \in Seq(Calls)
  /\ disk = <<>> \/ \E list \in Seq(Saved) : disk = <<list>>
  /\ Len(imports) \in Nat /\ imports \in Seq(UNION ToSet(Blobs))

\* The load of a start is the first call to get the preferences.
LoadFirst == \A i \in DOMAIN pending : i # 1 => pending[i].op = "save"

\* A profile that was kept is stored, and in memory once that has been loaded.
KeptOnDisk == kept \ early \subseteq Stored
KeptInMemory == Loaded => kept \ early \subseteq Ids(profiles)

KeptInv == StoreTypes /\ LoadFirst /\ KeptOnDisk /\ KeptInMemory

\* Adding a profile.
LEMMA IdsAppend ==
  ASSUME NEW list \in Seq(Saved), NEW p \in Saved
  PROVE  /\ Append(list, p) \in Seq(Saved) /\ Ids(Append(list, p)) = Ids(list) \cup {p.id}
         /\ ToSet(Append(list, p)) \subseteq ToSet(list) \cup {p}
<1> DEFINE q == Append(list, p)
           n == Len(list)
<1>1. /\ q \in Seq(Saved) /\ Len(q) = n + 1 /\ n \in Nat
      /\ \A i \in 1..n : q[i] = list[i]
      /\ q[n + 1] = p
  <2>1. /\ q \in Seq(Saved) /\ Len(q) = Len(list) + 1
        /\ \A i \in 1..Len(list) : q[i] = list[i]
        /\ q[Len(list) + 1] = p
    BY AppendProperties
  <2> QED
    BY <2>1
<1>2. DOMAIN list = 1..n /\ DOMAIN q = 1..(n + 1)
  <2>1. DOMAIN q = 1..Len(q)
    BY <1>1, LenProperties
  <2> QED
    BY <1>1, <2>1, LenProperties
<1> HIDE DEF q, n
<1>3. DOMAIN q = DOMAIN list \cup {n + 1}
  BY <1>1, <1>2
<1>4. Ids(q) = Ids(list) \cup {p.id}
  <2>1. ASSUME NEW x \in Ids(q) PROVE x \in Ids(list) \cup {p.id}
    BY <1>1, <1>2, <1>3, <2>1 DEF Ids
  <2>2. ASSUME NEW x \in Ids(list) PROVE x \in Ids(q)
    BY <1>1, <1>2, <1>3, <2>2 DEF Ids
  <2>3. p.id \in Ids(q)
    BY <1>1, <1>2, <1>3 DEF Ids
  <2> QED
    BY <2>1, <2>2, <2>3
<1>5. ToSet(q) \subseteq ToSet(list) \cup {p}
  BY <1>1, <1>2, <1>3 DEF ToSet
<1> QED
  BY <1>1, <1>4, <1>5 DEF q

\* Removing one element of a sequence.
LEMMA RemoveOne ==
  ASSUME NEW S, NEW s \in Seq(S), NEW k \in 1..Len(s)
  PROVE  /\ RemoveAt(s, k) \in Seq(S) /\ Len(RemoveAt(s, k)) = Len(s) - 1
         /\ \A i \in 1..Len(s) : i < k => RemoveAt(s, k)[i] = s[i]
         /\ \A i \in 1..Len(s) : i > k => RemoveAt(s, k)[i - 1] = s[i]
<1> DEFINE n == Len(s)
           a == SubSeq(s, 1, k - 1)
           b == SubSeq(s, k + 1, n)
<1>1. n \in Nat /\ k \in Nat /\ 1 <= k /\ k <= n
  BY LenProperties
<1>2. \A i \in 1..n : s[i] \in S
  BY ElementOfSeq
<1>3. a \in Seq(S) /\ Len(a) = k - 1 /\ \A i \in 1..(k - 1) : a[i] = s[i]
  <2>1. \A i \in 1..(k - 1) : s[i] \in S
    BY <1>1, <1>2
  <2>2. k - 1 \in Nat /\ 1 <= (k - 1) + 1
    BY <1>1
  <2>3. /\ SubSeq(s, 1, k - 1) \in Seq(S)
        /\ Len(SubSeq(s, 1, k - 1)) = IF 1 <= k - 1 THEN (k - 1) - 1 + 1 ELSE 0
        /\ \A i \in 1..((k - 1) - 1 + 1) : SubSeq(s, 1, k - 1)[i] = s[1 + i - 1]
    BY <2>1, <2>2, SubSeqProperties
  <2> QED
    BY <1>1, <2>3
<1>4. b \in Seq(S) /\ Len(b) = n - k /\ \A i \in 1..(n - k) : b[i] = s[k + i]
  <2>1. \A i \in (k + 1)..n : s[i] \in S
    BY <1>1, <1>2
  <2>3. /\ SubSeq(s, k + 1, n) \in Seq(S)
        /\ Len(SubSeq(s, k + 1, n)) = IF k + 1 <= n THEN n - (k + 1) + 1 ELSE 0
        /\ \A i \in 1..(n - (k + 1) + 1) : SubSeq(s, k + 1, n)[i] = s[(k + 1) + i - 1]
    BY <1>1, <2>1, SubSeqProperties
  <2> QED
    BY <1>1, <2>3
<1>5. RemoveAt(s, k) = a \o b
  BY DEF RemoveAt
<1> HIDE DEF a, b, n
<1>6. /\ a \o b \in Seq(S) /\ Len(a \o b) = Len(a) + Len(b)
      /\ \A i \in 1..Len(a \o b) : (a \o b)[i] = IF i <= Len(a) THEN a[i] ELSE b[i - Len(a)]
  <2>1. a \in Seq(S) /\ b \in Seq(S)
    BY <1>3, <1>4
  <2>2. /\ a \o b \in Seq(S) /\ Len(a \o b) = Len(a) + Len(b)
        /\ \A i \in 1..Len(a) + Len(b) : (a \o b)[i] = IF i <= Len(a) THEN a[i] ELSE b[i - Len(a)]
    BY <2>1, ConcatProperties
  <2> QED
    BY <2>2
<1>7. Len(a \o b) = n - 1
  BY <1>1, <1>3, <1>4, <1>6
<1>8. ASSUME NEW i \in 1..n, i < k PROVE (a \o b)[i] = s[i]
  BY <1>1, <1>3, <1>4, <1>6, <1>7, <1>8
<1>9. ASSUME NEW i \in 1..n, i > k PROVE (a \o b)[i - 1] = s[i]
  <2>1. i - 1 \in 1..(n - 1) /\ ~(i - 1 <= k - 1) /\ (i - 1) - (k - 1) = i - k /\ i - k \in 1..(n - k) /\ k + (i - k) = i
    BY <1>1, <1>9
  <2> QED
    BY <1>3, <1>4, <1>6, <1>7, <2>1, SMTT(30)
<1> QED
  BY <1>5, <1>6, <1>7, <1>8, <1>9 DEF n

\* The profile that is removed, and only that one, may be gone.
LEMMA IdsWithout ==
  ASSUME profiles \in Seq(Saved), NEW id \in Ids(profiles)
  PROVE  Without(id) \in Seq(Saved) /\ Ids(profiles) \ {id} \subseteq Ids(Without(id))
<1> DEFINE k == CHOOSE i \in DOMAIN profiles : profiles[i].id = id
           q == RemoveAt(profiles, k)
           n == Len(profiles)
<1>1. k \in DOMAIN profiles /\ profiles[k].id = id
  BY DEF Ids
<1>2. n \in Nat /\ DOMAIN profiles = 1..n
  BY LenProperties
<1> HIDE DEF k
<1>3. /\ q \in Seq(Saved) /\ Len(q) = n - 1
      /\ \A i \in 1..n : i < k => q[i] = profiles[i]
      /\ \A i \in 1..n : i > k => q[i - 1] = profiles[i]
  BY <1>1, <1>2, RemoveOne
<1>4. Without(id) = q
  BY DEF Without, k
<1>5. DOMAIN q = 1..(n - 1)
  BY <1>3, LenProperties
<1> HIDE DEF q, n
<1>6. ASSUME NEW x \in Ids(profiles), x # id PROVE x \in Ids(q)
  <2>1. PICK i \in 1..n : profiles[i].id = x
    BY <1>2 DEF Ids
  <2>2. i # k
    BY <1>1, <1>6, <2>1
  <2>3. CASE i < k
    <3>1. i \in DOMAIN q /\ q[i] = profiles[i]
      BY <1>1, <1>2, <1>3, <1>5, <2>3
    <3> QED
      BY <2>1, <3>1 DEF Ids
  <2>4. CASE i > k
    <3>1. i - 1 \in DOMAIN q /\ q[i - 1] = profiles[i]
      BY <1>1, <1>2, <1>3, <1>5, <2>4
    <3> QED
      BY <2>1, <3>1 DEF Ids
  <2> QED
    BY <1>1, <1>2, <2>2, <2>3, <2>4
<1> QED
  BY <1>3, <1>4, <1>6

\* What _load() finds, and puts in place of the list.
LEMMA LoadedList ==
  ASSUME StoreTypes
  PROVE  OrElse(disk, profiles) \in Seq(Saved) /\ Stored \subseteq Ids(OrElse(disk, profiles))
<1>1. CASE disk = <<>>
  BY <1>1 DEF OrElse, Stored, StoreTypes
<1>2. CASE disk # <<>>
  <2>1. PICK list \in Seq(Saved) : disk = <<list>>
    BY <1>2 DEF StoreTypes
  <2>2. disk[1] = list
    BY <2>1
  <2> QED
    BY <1>2, <2>2 DEF OrElse, Stored
<1> QED
  BY <1>1, <1>2

\* One more call to save waits behind the others.
LEMMA SavingQueued ==
  ASSUME pending \in Seq(Calls), LoadFirst, NEW id \in Nat, Saving(id)
  PROVE  (pending \in Seq(Calls))' /\ LoadFirst' /\ (Loaded' <=> Loaded)
<1> DEFINE e == [op |-> "save", id |-> id]
           q == Append(pending, e)
           n == Len(pending)
<1>1. e \in Calls /\ e.op = "save"
  BY DEF Calls
<1>2. n \in Nat /\ DOMAIN pending = 1..n
  BY LenProperties
<1> HIDE DEF e
<1>3. /\ q \in Seq(Calls) /\ Len(q) = Len(pending) + 1
      /\ \A i \in 1..Len(pending) : q[i] = pending[i]
      /\ q[Len(pending) + 1] = e
  BY <1>1, AppendProperties
<1>4. DOMAIN q = 1..(n + 1)
  BY <1>3, LenProperties
<1>5. pending' = q
  BY DEF Saving, e
<1> HIDE DEF q, n
<1>6. \A i \in DOMAIN q : (i \in DOMAIN pending /\ q[i] = pending[i]) \/ q[i].op = "save"
  BY <1>1, <1>2, <1>3, <1>4 DEF n
<1>7. \A i \in DOMAIN pending : i \in DOMAIN q /\ q[i] = pending[i]
  BY <1>2, <1>3, <1>4 DEF n
<1> QED
  BY <1>3, <1>5, <1>6, <1>7 DEF LoadFirst, Loaded

\* A call gets the preferences: the others wait, and none of them is a load.
LEMMA CallServed ==
  ASSUME pending \in Seq(Calls), pending # <<>>, LoadFirst
  PROVE  /\ Head(pending) = pending[1] /\ Head(pending).id \in Nat
         /\ Tail(pending) \in Seq(Calls)
         /\ \A i \in DOMAIN Tail(pending) : Tail(pending)[i].op = "save"
         /\ Loaded <=> Head(pending).op # "load"
<1> DEFINE n == Len(pending)
           t == Tail(pending)
<1>1. n \in Nat /\ n # 0 /\ DOMAIN pending = 1..n
  BY LenProperties, EmptySeq
<1>2. Head(pending) \in Calls /\ t \in Seq(Calls) /\ Len(t) = n - 1 /\ \A i \in 1..Len(t) : t[i] = pending[i + 1]
  BY HeadTailProperties
<1>3. Head(pending) = pending[1]
  BY HeadTailProperties
<1>4. DOMAIN t = 1..(n - 1)
  BY <1>2, LenProperties
<1> HIDE DEF n, t
<1>5. \A i \in DOMAIN t : i + 1 \in DOMAIN pending /\ i + 1 # 1 /\ t[i] = pending[i + 1]
  BY <1>1, <1>2, <1>4
<1>6. Loaded <=> pending[1].op # "load"
  <2>1. 1 \in DOMAIN pending
    BY <1>1
  <2> QED
    BY <2>1 DEF LoadFirst, Loaded
<1> QED
  BY <1>2, <1>3, <1>5, <1>6 DEF LoadFirst, Calls, t

LEMMA KeptStep == KeptInv /\ [Next]_vars => KeptInv'
<1> SUFFICES ASSUME KeptInv, [Next]_vars PROVE KeptInv'
  OBVIOUS
<1> USE DEF KeptInv
<1> DEFINE Same == UNCHANGED <<disk, kept, early>>
           Quiet == UNCHANGED <<disk, profiles, pending, imports, kept, early>>
<1>1. ASSUME Quiet PROVE KeptInv'
  BY <1>1 DEF StoreTypes, LoadFirst, KeptOnDisk, KeptInMemory, Loaded, Stored, Ids
<1>2. ASSUME NEW b \in UNION ToSet(Blobs), Import(b) PROVE KeptInv'
  <2>1. imports' = Append(imports, b) /\ UNCHANGED <<disk, kept>>
    BY <1>2 DEF Import
  <2>2. (Len(imports) \in Nat /\ imports \in Seq(UNION ToSet(Blobs)))'
    <3>1. Append(imports, b) \in Seq(UNION ToSet(Blobs)) /\ Len(Append(imports, b)) = Len(imports) + 1
      BY AppendProperties DEF StoreTypes
    <3> QED
      BY <2>1, <3>1 DEF StoreTypes
  <2>3. (disk = <<>> \/ \E list \in Seq(Saved) : disk = <<list>>)' /\ Stored' = Stored
    BY <2>1 DEF StoreTypes, Stored, Ids
  <2>4. CASE FromJson(b) = <<>>
    <3>1. UNCHANGED <<profiles, pending, early>>
      BY <1>2, <2>4 DEF Import
    <3> QED
      BY <2>1, <2>2, <2>3, <3>1 DEF StoreTypes, LoadFirst, KeptOnDisk, KeptInMemory, Loaded, Ids
  <2>5. CASE FromJson(b) # <<>>
    <3> DEFINE id == Len(imports) + 1
               p == [id |-> id, data |-> FromJson(b)[1]]
    <3>1. profiles' = Append(profiles, p) /\ Saving(id) /\ early \subseteq early'
      BY <1>2, <2>5 DEF Import, Added
    <3>2. id \in Nat
      BY DEF StoreTypes
    <3>3. p \in Saved /\ p.id = id
      BY <3>2 DEF Saved
    <3> HIDE DEF p, id
    <3>4. Append(profiles, p) \in Seq(Saved) /\ Ids(Append(profiles, p)) = Ids(profiles) \cup {p.id}
      BY <3>3, IdsAppend DEF StoreTypes
    <3>5. (pending \in Seq(Calls))' /\ LoadFirst' /\ (Loaded' <=> Loaded)
      BY <3>1, <3>2, SavingQueued DEF StoreTypes
    <3>6. Ids(profiles)' = Ids(profiles) \cup {p.id}
      BY <3>1, <3>4 DEF Ids
    <3>7. StoreTypes'
      BY <2>2, <2>3, <3>1, <3>4, <3>5 DEF StoreTypes
    <3>8. KeptOnDisk' /\ KeptInMemory'
      BY <2>1, <2>3, <3>1, <3>5, <3>6 DEF KeptOnDisk, KeptInMemory
    <3> QED
      BY <3>5, <3>7, <3>8
  <2> QED
    BY <2>4, <2>5
<1>3. ASSUME NEW id \in Ids(profiles), RemoveProfile(id) PROVE KeptInv'
  <2>1. /\ profiles' = Without(id) /\ kept' = kept \ {id} /\ Saving(0)
        /\ UNCHANGED <<disk, imports, early>>
    BY <1>3 DEF RemoveProfile
  <2>2. Without(id) \in Seq(Saved) /\ Ids(profiles) \ {id} \subseteq Ids(Without(id))
    BY IdsWithout DEF StoreTypes
  <2>3. (pending \in Seq(Calls))' /\ LoadFirst' /\ (Loaded' <=> Loaded)
    BY <2>1, SavingQueued DEF StoreTypes
  <2>4. Ids(profiles) \ {id} \subseteq Ids(profiles)' /\ Stored' = Stored
    BY <2>1, <2>2 DEF Ids, Stored
  <2>5. StoreTypes'
    BY <2>1, <2>2, <2>3 DEF StoreTypes
  <2>6. KeptOnDisk' /\ KeptInMemory'
    BY <2>1, <2>3, <2>4 DEF KeptOnDisk, KeptInMemory
  <2> QED
    BY <2>3, <2>5, <2>6
<1>4. ASSUME Load PROVE KeptInv'
  <2>1. /\ pending # <<>> /\ pending' = Tail(pending) /\ profiles' = OrElse(disk, profiles)
        /\ UNCHANGED <<disk, imports, kept, early>>
    BY <1>4 DEF Load
  <2>2. Tail(pending) \in Seq(Calls) /\ \A i \in DOMAIN Tail(pending) : Tail(pending)[i].op = "save"
    BY <2>1, CallServed DEF StoreTypes
  <2>3. OrElse(disk, profiles) \in Seq(Saved) /\ Stored \subseteq Ids(OrElse(disk, profiles))
    BY LoadedList
  <2>4. Stored \subseteq Ids(profiles)' /\ Stored' = Stored
    BY <2>1, <2>3 DEF Ids, Stored
  <2>5. StoreTypes' /\ LoadFirst'
    BY <2>1, <2>2, <2>3 DEF StoreTypes, LoadFirst
  <2>6. KeptOnDisk' /\ KeptInMemory'
    BY <2>1, <2>4 DEF KeptOnDisk, KeptInMemory
  <2> QED
    BY <2>5, <2>6
<1>5. ASSUME Save PROVE KeptInv'
  <2> DEFINE id == Head(pending).id
  <2>1. /\ pending # <<>> /\ Head(pending).op = "save" /\ pending' = Tail(pending)
        /\ disk' = <<profiles>> /\ kept' = kept \cup ({id} \cap Ids(profiles))
        /\ UNCHANGED <<profiles, imports, early>>
    BY <1>5 DEF Save
  <2>2. /\ Tail(pending) \in Seq(Calls) /\ \A i \in DOMAIN Tail(pending) : Tail(pending)[i].op = "save"
        /\ Loaded
    BY <2>1, CallServed DEF StoreTypes
  <2> HIDE DEF id
  <2>3. Ids(profiles)' = Ids(profiles) /\ Stored' = Ids(profiles)
    <3>1. disk' # <<>> /\ disk'[1] = profiles
      BY <2>1
    <3> QED
      BY <2>1, <3>1 DEF Ids, Stored
  <2>4. StoreTypes' /\ LoadFirst'
    BY <2>1, <2>2 DEF StoreTypes, LoadFirst
  <2>5. kept' \ early' \subseteq Ids(profiles)
    BY <2>1, <2>2 DEF KeptInMemory
  <2>6. KeptOnDisk' /\ KeptInMemory'
    BY <2>3, <2>5 DEF KeptOnDisk, KeptInMemory
  <2> QED
    BY <2>4, <2>6
<1>6. ASSUME Restart PROVE KeptInv'
  <2>1. /\ profiles' = <<>> /\ pending' = << [op |-> "load", id |-> 0] >>
        /\ UNCHANGED <<disk, imports, kept, early>>
    BY <1>6 DEF Restart
  <2>2. (pending \in Seq(Calls))' /\ LoadFirst' /\ ~Loaded'
    BY <2>1 DEF Calls, LoadFirst, Loaded
  <2>3. StoreTypes'
    BY <2>1, <2>2 DEF StoreTypes
  <2>4. KeptOnDisk' /\ KeptInMemory'
    BY <2>1, <2>2 DEF KeptOnDisk, KeptInMemory, Stored, Ids
  <2> QED
    BY <2>2, <2>3, <2>4
<1>7. ASSUME NEW id, Select(id) PROVE Quiet
  BY <1>7 DEF Select
<1>8. ASSUME NEW c, PickCountry(c) PROVE Quiet
  BY <1>8 DEF PickCountry
<1>9. ASSUME NEW pl, NEW fd, NEW m, Connect(pl, fd, m) PROVE Quiet
  BY <1>9 DEF Connect
<1>10. ASSUME UNCHANGED vars PROVE Quiet
  BY <1>10 DEF vars
<1> HIDE DEF Quiet
<1>11. CASE Store
  BY <1>1, <1>2, <1>3, <1>4, <1>5, <1>6, <1>7, <1>8, <1>11 DEF Store
<1> QED
  BY <1>1, <1>9, <1>10, <1>11 DEF Next

\* The start: nothing is stored, and the load waits.
LEMMA KeptInit == Init => KeptInv
<1> SUFFICES ASSUME Init PROVE KeptInv
  OBVIOUS
<1>1. /\ disk = <<>> /\ profiles = <<>> /\ pending = << [op |-> "load", id |-> 0] >>
      /\ imports = <<>> /\ kept = {} /\ early = {}
  BY DEF Init
<1>2. pending \in Seq(Calls) /\ LoadFirst
  BY <1>1 DEF Calls, LoadFirst
<1>3. StoreTypes
  <2>1. profiles \in Seq(Saved) /\ imports \in Seq(UNION ToSet(Blobs)) /\ Len(imports) = 0
    BY <1>1, EmptySeq
  <2> QED
    BY <1>1, <1>2, <2>1 DEF StoreTypes
<1> QED
  BY <1>1, <1>2, <1>3 DEF KeptInv, KeptOnDisk, KeptInMemory

\* A profile whose import has returned is not lost before it is removed:
\* whatever is saved, loaded and restarted in between, it is on disk when
\* nothing waits to be saved and in memory once the load has ended.  Only one
\* imported while the load was pending may be overwritten by it
\* (config_state.dart:36-83).
THEOREM NothingKeptIsLost == Spec => []LostOnlyIfEarly
<1>1. KeptInv => LostOnlyIfEarly
  BY DEF KeptInv, KeptOnDisk, KeptInMemory, Loaded, Stored, LostOnlyIfEarly
<1> QED
  BY <1>1, KeptInit, KeptStep, PTL DEF Spec

\* No two profiles of a list have one id.
Single(list) == \A i, j \in DOMAIN list : list[i].id = list[j].id => i = j
Imported(list) == Single(list) /\ Ids(list) \subseteq DOMAIN imports

SingleInv ==
  /\ TypeOK
  /\ Imported(profiles)
  /\ disk # <<>> => Imported(disk[1])

\* An id is as new as its blob.
LEMMA SingleAppend ==
  ASSUME NEW list \in Seq(Saved), NEW p \in Saved, Single(list), p.id \notin Ids(list)
  PROVE  Single(Append(list, p))
<1> DEFINE q == Append(list, p)
           n == Len(list)
<1>1. /\ q \in Seq(Saved) /\ Len(q) = Len(list) + 1
      /\ \A i \in 1..Len(list) : q[i] = list[i]
      /\ q[Len(list) + 1] = p
  BY AppendProperties
<1>2. n \in Nat /\ DOMAIN list = 1..n /\ DOMAIN q = 1..(n + 1)
  BY <1>1, LenProperties
<1> HIDE DEF q
<1>3. \A i \in DOMAIN q : (i \in DOMAIN list /\ q[i] = list[i]) \/ (i = n + 1 /\ q[i] = p)
  BY <1>1, <1>2
<1> HIDE DEF n
<1>4. \A i \in DOMAIN list : list[i].id # p.id
  BY DEF Ids
<1>5. Single(q)
  BY <1>3, <1>4 DEF Single
<1> QED
  BY <1>5 DEF q

\* A removal makes no twins, and nothing new.
LEMMA SingleWithout ==
  ASSUME profiles \in Seq(Saved), NEW id \in Ids(profiles), Single(profiles)
  PROVE  /\ Single(Without(id)) /\ Ids(Without(id)) \subseteq Ids(profiles)
         /\ ToSet(Without(id)) \subseteq ToSet(profiles)
<1> DEFINE k == CHOOSE i \in DOMAIN profiles : profiles[i].id = id
           q == RemoveAt(profiles, k)
           n == Len(profiles)
<1>1. k \in DOMAIN profiles
  BY DEF Ids
<1>2. n \in Nat /\ DOMAIN profiles = 1..n
  BY LenProperties
<1> HIDE DEF k
<1>3. /\ q \in Seq(Saved) /\ Len(q) = n - 1
      /\ \A i \in 1..n : i < k => q[i] = profiles[i]
      /\ \A i \in 1..n : i > k => q[i - 1] = profiles[i]
  BY <1>1, <1>2, RemoveOne
<1>4. Without(id) = q
  BY DEF Without, k
<1>5. DOMAIN q = 1..(n - 1)
  BY <1>3, LenProperties
<1> DEFINE From(i) == IF i < k THEN i ELSE i + 1
<1> HIDE DEF q, n
<1>6. ASSUME NEW i \in DOMAIN q PROVE From(i) \in DOMAIN profiles /\ q[i] = profiles[From(i)]
  <2>1. CASE i < k
    BY <1>1, <1>2, <1>3, <1>5, <1>6, <2>1
  <2>2. CASE ~(i < k)
    <3>1. i + 1 \in 1..n /\ i + 1 > k /\ (i + 1) - 1 = i
      BY <1>1, <1>2, <1>5, <1>6, <2>2
    <3>2. q[(i + 1) - 1] = profiles[i + 1]
      BY <1>3, <3>1
    <3> QED
      BY <1>2, <2>2, <3>1, <3>2
  <2> QED
    BY <2>1, <2>2
<1>7. ASSUME NEW i \in DOMAIN q, NEW j \in DOMAIN q, From(i) = From(j) PROVE i = j
  BY <1>1, <1>2, <1>5, <1>7
<1> HIDE DEF From
<1>8. Single(q)
  BY <1>6, <1>7 DEF Single
<1>9. Ids(q) \subseteq Ids(profiles) /\ ToSet(q) \subseteq ToSet(profiles)
  BY <1>6 DEF Ids, ToSet
<1> QED
  BY <1>4, <1>8, <1>9

LEMMA SingleInit == Init => SingleInv
<1> SUFFICES ASSUME Init PROVE SingleInv
  OBVIOUS
<1>1. /\ disk = <<>> /\ profiles = <<>> /\ selected = <<>> /\ country = ""
      /\ imports = <<>> /\ restarts = 0 /\ kept = {} /\ early = {}
  BY DEF Init
<1>2. DOMAIN profiles = {} /\ DOMAIN selected = {} /\ Len(imports) = 0 /\ imports \in Seq(UNION ToSet(Blobs))
  <2>1. DOMAIN <<>> = {}
    OBVIOUS
  <2>2. Len(imports) = 0 /\ imports \in Seq(UNION ToSet(Blobs))
    BY <1>1, EmptySeq
  <2> QED
    BY <1>1, <2>1, <2>2
<1>3. Ids(profiles) = {} /\ ToSet(selected) = {} /\ Imported(profiles)
  BY <1>2 DEF Ids, ToSet, Imported, Single
<1>4. TypeOK
  <2>1. restarts \in 0..MaxRestarts
    <3>1. MaxRestarts \in Nat /\ restarts = 0
      BY <1>1, ImportAssumption
    <3> QED
      BY <3>1
  <2>2. country \in Countries
    BY <1>1, CountryAssumption
  <2> QED
    BY <1>1, <1>2, <1>3, <2>1, <2>2 DEF TypeOK
<1> QED
  BY <1>1, <1>3, <1>4 DEF SingleInv

LEMMA SingleStep == KeptInv /\ SingleInv /\ [Next]_vars => SingleInv'
<1> SUFFICES ASSUME KeptInv, SingleInv, [Next]_vars PROVE SingleInv'
  OBVIOUS
<1> USE DEF SingleInv
<1> DEFINE Lists == UNCHANGED <<disk, profiles, imports>>
           Rest == UNCHANGED <<selected, country, restarts, early>>
<1>1. /\ profiles \in Seq(Saved) /\ imports \in Seq(UNION ToSet(Blobs)) /\ Len(imports) \in Nat
      /\ disk = <<>> \/ \E list \in Seq(Saved) : disk = <<list>>
      /\ DOMAIN imports = 1..Len(imports)
  BY LenProperties DEF KeptInv, StoreTypes
<1>2. ASSUME imports' = imports, Imported(profiles'), disk' # <<>> => Imported(disk'[1]),
             restarts' \in 0..MaxRestarts, country' \in Countries,
             (kept \cup early \cup ToSet(selected))' \subseteq DOMAIN imports
      PROVE  SingleInv'
  <2>1. Imported(profiles)' /\ (disk # <<>> => Imported(disk[1]))'
    BY <1>2 DEF Imported, Single, Ids
  <2>2. \A i \in DOMAIN profiles' : profiles'[i].id \in Ids(profiles)'
    BY DEF Ids
  <2>3. Ids(profiles)' \subseteq DOMAIN imports'
    BY <2>1 DEF Imported
  <2>4. imports' \in Seq(UNION ToSet(Blobs))
    BY <1>1, <1>2
  <2>5. TypeOK'
    BY <1>2, <2>2, <2>3, <2>4 DEF TypeOK
  <2> QED
    BY <2>1, <2>5
<1>3. /\ restarts \in 0..MaxRestarts /\ country \in Countries
      /\ (Ids(profiles) \cup kept \cup early \cup ToSet(selected)) \subseteq DOMAIN imports
  BY DEF TypeOK
<1>4. ASSUME Lists, kept' = kept, early' = early, restarts' = restarts,
             country' \in Countries, ToSet(selected') \subseteq DOMAIN imports
      PROVE  SingleInv'
  BY <1>2, <1>3, <1>4 DEF ToSet
<1>5. ASSUME NEW b \in UNION ToSet(Blobs), Import(b) PROVE SingleInv'
  <2> DEFINE id == Len(imports) + 1
             p == [id |-> id, data |-> FromJson(b)[1]]
             D == DOMAIN imports
  <2>1. imports' = Append(imports, b) /\ UNCHANGED <<disk, selected, country, restarts, kept>>
    BY <1>5 DEF Import
  <2>2. imports' \in Seq(UNION ToSet(Blobs)) /\ DOMAIN imports' = D \cup {id} /\ id \notin D
    <3>1. Append(imports, b) \in Seq(UNION ToSet(Blobs)) /\ Len(Append(imports, b)) = Len(imports) + 1
      BY <1>1, AppendProperties
    <3>2. DOMAIN imports' = 1..(Len(imports) + 1)
      BY <2>1, <3>1, LenProperties
    <3> QED
      BY <1>1, <2>1, <3>1, <3>2
  <2>3. id \in Nat
    BY <1>1
  <2> HIDE DEF id, D
  <2>4. /\ Single(profiles') /\ Ids(profiles') \subseteq D \cup {id} /\ early' \subseteq D \cup {id}
    <3>1. CASE FromJson(b) = <<>>
      <4>1. UNCHANGED <<profiles, early>>
        BY <1>5, <3>1 DEF Import
      <4> QED
        BY <1>3, <4>1 DEF Imported, D
    <3>2. CASE FromJson(b) # <<>>
      <4>1. profiles' = Append(profiles, p) /\ early' \subseteq early \cup {id}
        BY <1>5, <3>2 DEF Import, Added, id
      <4>2. p \in Saved /\ p.id = id
        BY <2>3 DEF Saved
      <4> HIDE DEF p
      <4>3. Ids(Append(profiles, p)) = Ids(profiles) \cup {p.id}
        BY <1>1, <4>2, IdsAppend
      <4>4. Single(profiles) /\ p.id \notin Ids(profiles)
        BY <1>3, <2>2, <4>2 DEF Imported, D
      <4>5. Single(Append(profiles, p))
        BY <1>1, <4>2, <4>4, SingleAppend
      <4> QED
        BY <1>3, <4>1, <4>2, <4>3, <4>5 DEF D
    <3> QED
      BY <3>1, <3>2
  <2>5. Imported(profiles)' /\ (disk # <<>> => Imported(disk[1]))'
    BY <2>1, <2>2, <2>4 DEF Imported, Single, Ids, D
  <2>6. \A i \in DOMAIN profiles' : profiles'[i].id \in Ids(profiles)'
    BY DEF Ids
  <2>7. (Ids(profiles) \cup kept \cup early \cup ToSet(selected))' \subseteq DOMAIN imports'
    <3>1. Ids(profiles)' = Ids(profiles') /\ ToSet(selected)' = ToSet(selected)
      BY <2>1 DEF Ids, ToSet
    <3> QED
      BY <1>3, <2>1, <2>2, <2>4, <3>1 DEF D
  <2>8. TypeOK'
    BY <1>3, <2>1, <2>2, <2>6, <2>7 DEF TypeOK
  <2> QED
    BY <2>5, <2>8
<1>6. ASSUME NEW id \in Ids(profiles), RemoveProfile(id) PROVE SingleInv'
  <2>1. /\ profiles' = Without(id) /\ kept' = kept \ {id}
        /\ UNCHANGED <<disk, imports>> /\ Rest
    BY <1>6 DEF RemoveProfile
  <2>2. Imported(profiles')
    BY <1>1, <2>1, SingleWithout DEF Imported
  <2> QED
    BY <1>2, <1>3, <2>1, <2>2
<1>7. ASSUME Load PROVE SingleInv'
  <2>1. profiles' = OrElse(disk, profiles) /\ UNCHANGED <<disk, imports, kept>> /\ Rest
    BY <1>7 DEF Load
  <2>2. Imported(profiles')
    BY <2>1 DEF OrElse
  <2> QED
    BY <1>2, <1>3, <2>1, <2>2
<1>8. ASSUME Save PROVE SingleInv'
  <2>1. /\ disk' = <<profiles>> /\ kept' \subseteq kept \cup Ids(profiles)
        /\ UNCHANGED <<profiles, imports>> /\ Rest
    BY <1>8 DEF Save
  <2>2. disk'[1] = profiles
    BY <2>1
  <2> QED
    BY <1>2, <1>3, <2>1, <2>2
<1>9. ASSUME Restart PROVE SingleInv'
  <2>1. /\ restarts < MaxRestarts /\ restarts' = restarts + 1
        /\ profiles' = <<>> /\ selected' = <<>> /\ country' = ""
        /\ UNCHANGED <<disk, imports, kept, early>>
    BY <1>9 DEF Restart
  <2>2. restarts' \in 0..MaxRestarts
    <3>1. MaxRestarts \in Nat /\ restarts < MaxRestarts /\ restarts' = restarts + 1 /\ restarts \in 0..MaxRestarts
      BY <1>3, <2>1, ImportAssumption
    <3> QED
      BY <3>1
  <2>3. Imported(profiles') /\ ToSet(selected') = {}
    <3>1. DOMAIN <<>> = {}
      OBVIOUS
    <3>2. DOMAIN profiles' = {} /\ DOMAIN selected' = {}
      BY <2>1, <3>1
    <3> QED
      BY <3>2 DEF Imported, Single, Ids, ToSet
  <2> QED
    BY <1>2, <1>3, <2>1, <2>2, <2>3, CountryAssumption
<1>10. ASSUME NEW id \in Ids(profiles), Select(id) PROVE SingleInv'
  <2>1. selected' = <<id>> /\ Lists /\ UNCHANGED <<kept, early, restarts, country>>
    BY <1>10 DEF Select
  <2>2. ToSet(selected') = {id}
    BY <2>1 DEF ToSet
  <2> QED
    BY <1>3, <1>4, <2>1, <2>2
<1>11. ASSUME NEW c \in Countries, PickCountry(c) PROVE SingleInv'
  BY <1>3, <1>4, <1>11 DEF PickCountry
<1>12. ASSUME NEW pl, NEW fd, NEW m, Connect(pl, fd, m) PROVE SingleInv'
  BY <1>3, <1>4, <1>12 DEF Connect
<1>13. ASSUME UNCHANGED vars PROVE SingleInv'
  BY <1>3, <1>4, <1>13 DEF vars
<1>14. CASE Store
  BY <1>5, <1>6, <1>7, <1>8, <1>9, <1>10, <1>11, <1>14 DEF Store
<1> QED
  BY <1>12, <1>13, <1>14 DEF Next

\* An id is one profile, in memory and on disk, across removals, loads and
\* restarts: remove() (config_state.dart:80-83), which filters the list, takes
\* out one profile, and what is kept, selected or early was imported.
THEOREM IdIsOneProfile == Spec => [](TypeOK /\ Single(profiles) /\ (disk # <<>> => Single(disk[1])))
<1>1. SingleInv => TypeOK /\ Single(profiles) /\ (disk # <<>> => Single(disk[1]))
  BY DEF SingleInv, Imported
<1> QED
  BY <1>1, KeptInit, KeptStep, SingleInit, SingleStep, PTL DEF Spec

\* What leaf #1 is told of packets, on any platform and for any fd.
LEMMA SourceStarted ==
  ASSUME NEW id, NEW c, NEW pl \in Platforms, NEW fd \in Int, NEW m, NEW p, NEW dll,
         NEW up, up = [id |-> id, country |-> c, platform |-> pl, fd |-> fd, mask |-> m,
                    run |-> StartWith(p, pl, fd, m, dll)]
  PROVE  OneSource(up)
<1> DEFINE run == up.run
           tun == run.leaf1.tun
           Is(k) == CASE k = "fd" -> tun # <<>> /\ tun[1].fd = <<up.fd>> /\ up.fd >= 0
                      [] k = "auto" -> tun # <<>> /\ tun[1].auto
                      [] k = "pump" -> tun = <<>> /\ up.platform = "ios"
           Sources == {k \in {"fd", "auto", "pump"} : Is(k)}
<1>1. run = StartWith(p, pl, fd, m, dll) /\ up.fd = fd /\ up.platform = pl
  OBVIOUS
<1>2. run.leaf2.tun = <<>>
  BY <1>1 DEF StartWith, BuildConfig, NoTun
<1>3. /\ fd >= 0 => tun # <<>> /\ tun[1].fd = <<fd>> /\ tun[1].auto = FALSE
      /\ fd < 0 /\ pl \in SelfProvisioning => tun # <<>> /\ tun[1].fd = <<>> /\ tun[1].auto = TRUE
      /\ fd < 0 /\ pl \notin SelfProvisioning => tun = <<>>
  <2>1. tun = BuildConfig("leaf1", TunOf(pl, fd, m, dll), [protocol |-> "socks", upstream |-> "arti"]).tun
    BY <1>1 DEF StartWith
  <2> DEFINE t == TunOf(pl, fd, m, dll)
             given == [fd |-> t.fd, auto |-> FALSE, netmask |-> MaskToNetmask(t.mask), wintun |-> <<>>]
             made == [fd |-> <<>>, auto |-> TRUE, netmask |-> MaskToNetmask(t.mask), wintun |-> t.wintun]
  <2>4. tun = IF t.fd # <<>> THEN <<given>> ELSE IF t.auto THEN <<made>> ELSE <<>>
    BY <2>1 DEF BuildConfig
  <2>5. /\ fd >= 0 => t.fd = <<fd>> /\ t.fd # <<>>
        /\ fd < 0 => t.fd = <<>> /\ (t.auto <=> pl \in SelfProvisioning)
    <3>1. t.fd = (IF fd >= 0 THEN <<fd>> ELSE <<>>) /\ t.auto = (fd < 0 /\ pl \in SelfProvisioning)
      BY DEF TunOf
    <3>2. fd < 0 <=> ~(fd >= 0)
      OBVIOUS
    <3>3. <<fd>> # <<>>
      OBVIOUS
    <3> HIDE DEF t
    <3> QED
      BY <3>1, <3>2, <3>3, Zenon
  <2>6. given.fd = t.fd /\ given.auto = FALSE /\ made.fd = <<>> /\ made.auto = TRUE
    OBVIOUS
  <2> HIDE DEF t, given, made, tun
  <2>7. <<given>> # <<>> /\ <<made>> # <<>> /\ <<given>>[1] = given /\ <<made>>[1] = made
    OBVIOUS
  <2>2. CASE fd >= 0
    BY <2>2, <2>4, <2>5, <2>6, <2>7
  <2>3. CASE fd < 0
    BY <2>3, <2>4, <2>5, <2>6, <2>7
  <2> QED
    BY <2>2, <2>3
<1>4. run.out = "up" => fd >= 0 \/ pl \in EmbeddedTun \cup SelfProvisioning
  BY <1>1 DEF StartWith, AdoptTun
<1> HIDE DEF run, tun
<1>5. /\ Is("fd") <=> tun # <<>> /\ tun[1].fd = <<fd>> /\ fd >= 0
      /\ Is("auto") <=> tun # <<>> /\ tun[1].auto
      /\ Is("pump") <=> tun = <<>> /\ pl = "ios"
  BY <1>1
<1> HIDE DEF Is
<1>6. ASSUME run.out = "up" PROVE \E k : Sources = {k}
  <2>1. CASE fd >= 0
    <3>1. Is("fd") /\ ~Is("auto") /\ ~Is("pump")
      BY <1>3, <1>5, <2>1
    <3>2. Sources = {"fd"}
      BY <3>1
    <3> QED
      BY <3>2
  <2>2. CASE fd < 0 /\ pl \in SelfProvisioning
    <3>1. ~Is("fd") /\ Is("auto") /\ ~Is("pump")
      BY <1>3, <1>5, <2>2
    <3>2. Sources = {"auto"}
      BY <3>1
    <3> QED
      BY <3>2
  <2>3. CASE fd < 0 /\ pl \notin SelfProvisioning
    <3>1. ~Is("fd") /\ ~Is("auto") /\ Is("pump")
      BY <1>3, <1>4, <1>5, <1>6, <2>3 DEF EmbeddedTun
    <3>2. Sources = {"pump"}
      BY <3>1
    <3> QED
      BY <3>2
  <2> QED
    BY <2>1, <2>2, <2>3, SMTT(30)
<1>7. run.out = "up" => Cardinality(Sources) = 1
  BY <1>6, FS_Singleton
<1> QED
  BY <1>2, <1>7 DEF OneSource, run, tun, Is

\* A power of two counts the subsets of a set.
LEMMA Subsets ==
  ASSUME NEW S, IsFiniteSet(S), NEW n, Cardinality(S) = n
  PROVE  IsFiniteSet(SUBSET S) /\ Cardinality(SUBSET S) = 2^n
BY FS_SUBSET

\* It is a positive number,
LEMMA PowType ==
  ASSUME NEW n \in Nat
  PROVE  2^n \in Nat /\ 2^n # 0
<1>1. IsFiniteSet(1..n) /\ Cardinality(1..n) = n
  BY FS_Interval
<1>2. IsFiniteSet(SUBSET (1..n)) /\ Cardinality(SUBSET (1..n)) = 2^n
  BY <1>1, Subsets
<1>3. Cardinality(SUBSET (1..n)) \in Nat
  BY <1>2, FS_CardinalityType
<1>4. SUBSET (1..n) # {}
  OBVIOUS
<1>5. Cardinality(SUBSET (1..n)) # 0
  BY <1>2, <1>4, FS_EmptySet
<1> QED
  BY <1>2, <1>3, <1>5

\* one for the empty set,
LEMMA PowZero == 2^0 = 1
<1>1. IsFiniteSet({}) /\ Cardinality({}) = 0
  BY FS_EmptySet
<1>2. Cardinality(SUBSET {}) = 2^0
  BY <1>1, Subsets
<1>3. SUBSET {} = {{}}
  OBVIOUS
<1> QED
  BY <1>2, <1>3, FS_Singleton

\* and turns sums into products, since a subset of a disjoint union is a pair.
LEMMA PowSum ==
  ASSUME NEW p \in Nat, NEW q \in Nat
  PROVE  2^(p + q) = 2^p * 2^q
<1> DEFINE S == 1..p
           T == p + 1..p + q
           U == 1..p + q
           f == [x \in (SUBSET S) \X (SUBSET T) |-> x[1] \cup x[2]]
<1>1. /\ IsFiniteSet(S) /\ Cardinality(S) = p
      /\ IsFiniteSet(T) /\ Cardinality(T) = q
      /\ IsFiniteSet(U) /\ Cardinality(U) = p + q
  <2>1. IsFiniteSet(T) /\ Cardinality(T) = IF p + 1 > p + q THEN 0 ELSE (p + q) - (p + 1) + 1
    <3>1. p + 1 \in Int /\ p + q \in Int
      OBVIOUS
    <3> QED
      BY <3>1, FS_Interval
  <2>2. IsFiniteSet(U) /\ Cardinality(U) = IF 1 > p + q THEN 0 ELSE (p + q) - 1 + 1
    BY FS_Interval
  <2>3. IsFiniteSet(S) /\ Cardinality(S) = IF 1 > p THEN 0 ELSE p - 1 + 1
    BY FS_Interval
  <2> QED
    BY <2>1, <2>2, <2>3
<1>2. S \cap T = {} /\ S \cup T = U
  OBVIOUS
<1>3. /\ IsFiniteSet(SUBSET S) /\ Cardinality(SUBSET S) = 2^p
      /\ IsFiniteSet(SUBSET T) /\ Cardinality(SUBSET T) = 2^q
      /\ Cardinality(SUBSET U) = 2^(p + q)
  <2> HIDE DEF S, T, U
  <2> QED
    BY <1>1, Subsets
<1> HIDE DEF S, T, U
<1>4. f \in Bijection((SUBSET S) \X (SUBSET T), SUBSET U)
  <2>1. f \in [(SUBSET S) \X (SUBSET T) -> SUBSET U]
    BY <1>2
  <2>2. ASSUME NEW x \in (SUBSET S) \X (SUBSET T), NEW y \in (SUBSET S) \X (SUBSET T), f[x] = f[y]
        PROVE  x = y
    <3>1. x[1] = f[x] \cap S /\ x[2] = f[x] \cap T
      BY <1>2
    <3>2. y[1] = f[y] \cap S /\ y[2] = f[y] \cap T
      BY <1>2
    <3> QED
      BY <2>2, <3>1, <3>2
  <2>3. ASSUME NEW A \in SUBSET U PROVE \E x \in (SUBSET S) \X (SUBSET T) : f[x] = A
    <3>1. <<A \cap S, A \cap T>> \in (SUBSET S) \X (SUBSET T)
      OBVIOUS
    <3>2. f[<<A \cap S, A \cap T>>] = A
      BY <1>2, <3>1
    <3> QED
      BY <3>1, <3>2
  <2> HIDE DEF f
  <2>4. f \in Injection((SUBSET S) \X (SUBSET T), SUBSET U)
    BY <2>1, <2>2 DEF Injection, IsInjective
  <2>5. f \in Surjection((SUBSET S) \X (SUBSET T), SUBSET U)
    BY <2>1, <2>3 DEF Surjection
  <2> QED
    BY <2>4, <2>5 DEF Bijection
<1>5. IsFiniteSet((SUBSET S) \X (SUBSET T)) /\ Cardinality((SUBSET S) \X (SUBSET T)) = 2^p * 2^q
  BY <1>3, FS_Product
<1>6. ExistsBijection((SUBSET S) \X (SUBSET T), SUBSET U)
  BY <1>4 DEF ExistsBijection
<1>7. Cardinality(SUBSET U) = Cardinality((SUBSET S) \X (SUBSET T))
  BY <1>5, <1>6, FS_Bijection
<1> QED
  BY <1>3, <1>5, <1>7

\* All ones, shifted and cut: the ones above and the zeros below.
LEMMA Shifted ==
  ASSUME NEW P \in Nat, NEW Q \in Nat, P # 0, Q # 0
  PROVE  LET mask == ((P * Q - 1) * Q) % (P * Q)
         IN  mask \div Q = P - 1 /\ mask % Q = 0 /\ mask < P * Q
<1> DEFINE m == (P - 1) * Q
           N == P * Q
<1>1. N \in Nat /\ N > 0 /\ m \in Nat /\ m < N
  OBVIOUS
<1>2. (P * Q - 1) * Q = m + (Q - 1) * N
  OBVIOUS
<1>3. (m + (Q - 1) * N) % N = m
  <2> HIDE DEF m, N
  <2> QED
    BY <1>1
<1>4. m \div Q = P - 1 /\ m % Q = 0
  OBVIOUS
<1> QED
  BY <1>1, <1>2, <1>3, <1>4

\* For every prefix and width: mask_to_netmask() is that many ones, capped at
\* the width, and zeros below (leaf_impl.rs:167-175).
THEOREM NetmaskOfPrefix ==
  ASSUME NEW b \in Nat
  PROVE  LET prefix == IF b < Width THEN b ELSE Width
         IN  /\ MaskToNetmask(b) \div 2^(Width - prefix) = 2^prefix - 1
             /\ MaskToNetmask(b) % 2^(Width - prefix) = 0
             /\ MaskToNetmask(b) < 2^Width
<1> DEFINE bits == IF b < Width THEN b ELSE Width
           P == 2^bits
           Q == 2^(Width - bits)
           N == 2^Width
<1>1. Width \in Nat
  BY LengthAssumption
<1>2. bits \in Nat /\ Width - bits \in Nat /\ bits + (Width - bits) = Width
  BY <1>1
<1>3. MaskToNetmask(b) = IF bits = 0 THEN 0 ELSE ((N - 1) * Q) % N
  BY DEF MaskToNetmask
<1> HIDE DEF bits
<1>4. P \in Nat /\ P # 0 /\ Q \in Nat /\ Q # 0
  BY <1>2, PowType
<1>5. N = P * Q
  <2>1. 2^(bits + (Width - bits)) = 2^bits * 2^(Width - bits)
    BY <1>2, PowSum
  <2> QED
    BY <1>2, <2>1
<1>6. bits = 0 => P = 1
  BY PowZero
<1> DEFINE mask == ((N - 1) * Q) % N
<1> HIDE DEF P, Q, N
<1>7. mask \div Q = P - 1 /\ mask % Q = 0 /\ mask < N
  BY <1>4, <1>5, Shifted
<1>8. 0 \div Q = 0 /\ 0 % Q = 0 /\ 0 < Q
  BY <1>4
<1>9. /\ MaskToNetmask(b) \div Q = P - 1
      /\ MaskToNetmask(b) % Q = 0
      /\ MaskToNetmask(b) < N
  <2> HIDE DEF mask
  <2>1. CASE bits = 0
    BY <1>3, <1>4, <1>5, <1>6, <1>8, <2>1
  <2>2. CASE bits # 0
    BY <1>3, <1>7, <2>2 DEF mask
  <2> QED
    BY <2>1, <2>2
<1> QED
  BY <1>9 DEF P, Q, N, bits

\* The netmask that leaf #1 is told, for any mask of the caller.
LEMMA PrefixStarted ==
  ASSUME NEW id, NEW c, NEW pl \in Platforms, NEW fd \in Int, NEW m \in Nat, NEW p, NEW dll,
         NEW up, up = [id |-> id, country |-> c, platform |-> pl, fd |-> fd, mask |-> m,
                    run |-> StartWith(p, pl, fd, m, dll)]
  PROVE  PrefixKept(up)
<1> DEFINE tun == up.run.leaf1.tun
           t == TunOf(pl, fd, m, dll)
           b == m % (Max8 + 1)
           given == [fd |-> t.fd, auto |-> FALSE, netmask |-> MaskToNetmask(t.mask), wintun |-> <<>>]
           made == [fd |-> <<>>, auto |-> TRUE, netmask |-> MaskToNetmask(t.mask), wintun |-> t.wintun]
<1>1. up.run = StartWith(p, pl, fd, m, dll) /\ up.mask = m
  OBVIOUS
<1>2. tun = BuildConfig("leaf1", t, [protocol |-> "socks", upstream |-> "arti"]).tun
  BY <1>1 DEF StartWith
<1>3. tun = IF t.fd # <<>> THEN <<given>> ELSE IF t.auto THEN <<made>> ELSE <<>>
  BY <1>2 DEF BuildConfig
<1>4. t.mask = b
  BY DEF TunOf
<1>5. given.netmask = MaskToNetmask(b) /\ made.netmask = MaskToNetmask(b)
  BY <1>4
<1>6. b \in Nat
  <2>1. Max8 \in Nat
    BY LengthAssumption
  <2> QED
    BY <2>1
<1> HIDE DEF t, given, made, tun
<1>7. <<given>>[1] = given /\ <<made>>[1] = made
  OBVIOUS
<1>8. tun # <<>> => tun[1].netmask = MaskToNetmask(b)
  BY <1>3, <1>5, <1>7, Zenon
<1> HIDE DEF b
<1> DEFINE prefix == IF b < Width THEN b ELSE Width
<1>9. /\ MaskToNetmask(b) \div 2^(Width - prefix) = 2^prefix - 1
      /\ MaskToNetmask(b) % 2^(Width - prefix) = 0
      /\ MaskToNetmask(b) < 2^Width
  BY <1>6, NetmaskOfPrefix
<1>10. PrefixKept(up) <=>
         (tun # <<>> => /\ tun[1].netmask \div 2^(Width - prefix) = 2^prefix - 1
                        /\ tun[1].netmask % 2^(Width - prefix) = 0
                        /\ tun[1].netmask < 2^Width)
  BY <1>1 DEF PrefixKept, tun, b
<1> HIDE DEF prefix
<1> QED
  BY <1>8, <1>9, <1>10

\* Whatever the platform, the fd, the mask and the profile, a start() that
\* succeeds leaves leaf #1 with exactly one source of packets and leaf #2 with
\* none, and the netmask leaf #1 is told has as many ones as the prefix that
\* was given, capped at the width of an address (orchestrator.rs:99-163,
\* leaf_impl.rs:42-98, 167-175).
THEOREM OnePacketSource == Spec => []OneTun
<1>1. Init => OneTun
  <2>1. Init => session = NoSession
    BY DEF Init
  <2>2. NoSession.id = 0
    BY DEF NoSession
  <2> QED
    BY <2>1, <2>2 DEF OneTun
<1>2. OneTun /\ [Next]_vars => OneTun'
  <2>1. ASSUME session' = NoSession PROVE OneTun'
    BY <2>1 DEF NoSession, OneTun
  <2>2. ASSUME NEW pl \in Platforms, NEW fd \in Fds, NEW m \in Masks, Connect(pl, fd, m) PROVE OneTun'
    <3> DEFINE p == [Active.data EXCEPT !.exitCountry = country]
               id == Active.id
    <3>1. session' = [id |-> id, country |-> country, platform |-> pl, fd |-> fd, mask |-> m,
                      run |-> StartWith(p, pl, fd, m, <<"wintun.dll">>)]
      BY <2>2 DEF Connect
    <3>2. fd \in Int /\ m \in Nat
      BY CallerAssumption
    <3> HIDE DEF p, id
    <3>3. OneSource(session')
      BY <3>1, <3>2, SourceStarted
    <3>4. PrefixKept(session')
      BY <3>1, <3>2, PrefixStarted
    <3> QED
      BY <3>3, <3>4 DEF OneTun
  <2>3. ASSUME OneTun, UNCHANGED vars PROVE OneTun'
    BY <2>3 DEF vars, OneTun
  <2> QED
    BY <2>1, <2>2, <2>3 DEF Next
<1> QED
  BY <1>1, <1>2, PTL DEF Spec

-----------------------------------------------------------------------------
(* What the parser makes of a text (config/mod.rs:147-184).                   *)

\* A set of numbers has a least one.
LEMMA LeastPlace ==
  ASSUME NEW S \in SUBSET Nat, S # {}
  PROVE  Min(S) \in S /\ \A y \in S : Min(S) <= y
<1>1. PICK x \in S : \A y \in S : <<y, x>> \notin OpToRel(<, Nat)
  BY NatLessThanWellFounded, WFMin
<1>2. \A y \in S : x <= y
  <2> TAKE y \in S
  <2>1. <<y, x>> \in Nat \X Nat /\ <<y, x>>[1] = y /\ <<y, x>>[2] = x
    OBVIOUS
  <2>2. ~(y < x)
    BY <1>1, <2>1 DEF OpToRel
  <2> QED
    BY <2>2
<1> QED
  BY <1>2 DEF Min

\* A set of numbers up to n has a greatest one.
LEMMA GreatestPlace ==
  ASSUME NEW n \in Nat, NEW S \in SUBSET (0..n), S # {}
  PROVE  Max(S) \in S /\ \A y \in S : Max(S) >= y
<1> DEFINE T == {n - y : y \in S}
<1>1. T \in SUBSET Nat /\ T # {}
  <2>1. \A y \in S : n - y \in Nat /\ n - y \in T
    OBVIOUS
  <2> QED
    BY <2>1
<1>2. Min(T) \in T /\ \A y \in T : Min(T) <= y
  BY <1>1, LeastPlace
<1>3. PICK x \in S : Min(T) = n - x
  BY <1>2
<1>4. \A y \in S : x >= y
  <2> TAKE y \in S
  <2>1. n - y \in T
    OBVIOUS
  <2>2. n - x <= n - y
    BY <1>2, <1>3, <2>1
  <2> QED
    BY <2>2
<1> QED
  BY <1>4 DEF Max

\* How many of the places are up to this one.
UpTo(places, i) == {j \in places : j <= i}
RankOf(places, i) == Cardinality(UpTo(places, i))

\* It grows from place to place.
LEMMA RankSteps ==
  ASSUME NEW n \in Nat, NEW P \in SUBSET (1..n), NEW i \in P, NEW j \in P, i < j
  PROVE  RankOf(P, i) < RankOf(P, j)
<1>1. IsFiniteSet(1..n)
  BY FS_Interval
<1>2. IsFiniteSet(P)
  BY <1>1, FS_Subset
<1>3. UpTo(P, i) \in SUBSET UpTo(P, j) /\ UpTo(P, j) \in SUBSET P
  <2>1. \A k \in P : k <= i => k <= j
    OBVIOUS
  <2> QED
    BY <2>1 DEF UpTo
<1>4. j \in UpTo(P, j) /\ j \notin UpTo(P, i)
  BY DEF UpTo
<1>5. IsFiniteSet(UpTo(P, j))
  BY <1>2, <1>3, FS_Subset
<1>6. /\ IsFiniteSet(UpTo(P, i))
      /\ Cardinality(UpTo(P, i)) <= Cardinality(UpTo(P, j))
      /\ Cardinality(UpTo(P, j)) = Cardinality(UpTo(P, i)) => UpTo(P, j) = UpTo(P, i)
  BY <1>3, <1>5, FS_Subset
<1>7. Cardinality(UpTo(P, j)) \in Nat /\ Cardinality(UpTo(P, i)) \in Nat
  BY <1>5, <1>6, FS_CardinalityType
<1> QED
  BY <1>4, <1>6, <1>7 DEF RankOf

\* The ranks are the numbers from 1 on, each of one place.
LEMMA RankIsPlace ==
  ASSUME NEW n \in Nat, NEW P \in SUBSET (1..n)
  PROVE  /\ IsFiniteSet(P) /\ Cardinality(P) \in Nat
         /\ \A i \in P : RankOf(P, i) \in 1..Cardinality(P)
         /\ \A i, j \in P : RankOf(P, i) = RankOf(P, j) => i = j
         /\ \A k \in 1..Cardinality(P) : \E i \in P : RankOf(P, i) = k
<1>1. IsFiniteSet(P)
  <2>1. IsFiniteSet(1..n)
    BY FS_Interval
  <2> QED
    BY <2>1, FS_Subset
<1>2. Cardinality(P) \in Nat
  BY <1>1, FS_CardinalityType
<1>3. ASSUME NEW i \in P PROVE RankOf(P, i) \in 1..Cardinality(P)
  <2>1. UpTo(P, i) \in SUBSET P /\ i \in UpTo(P, i)
    BY DEF UpTo
  <2>2. IsFiniteSet(UpTo(P, i)) /\ Cardinality(UpTo(P, i)) <= Cardinality(P)
    BY <1>1, <2>1, FS_Subset
  <2>3. Cardinality(UpTo(P, i)) \in Nat
    BY <2>2, FS_CardinalityType
  <2>4. Cardinality(UpTo(P, i)) # 0
    BY <2>1, <2>2, FS_EmptySet
  <2> QED
    BY <1>2, <2>2, <2>3, <2>4 DEF RankOf
<1>4. ASSUME NEW i \in P, NEW j \in P, RankOf(P, i) = RankOf(P, j) PROVE i = j
  <2>1. i < j => RankOf(P, i) < RankOf(P, j)
    BY RankSteps
  <2>2. j < i => RankOf(P, j) < RankOf(P, i)
    BY RankSteps
  <2>3. i \in Nat /\ j \in Nat
    OBVIOUS
  <2>4. RankOf(P, i) \in Nat
    BY <1>2, <1>3
  <2> QED
    BY <1>4, <2>1, <2>2, <2>3, <2>4
<1> DEFINE C == Cardinality(P)
           f == [i \in P |-> RankOf(P, i)]
<1>5. f \in Injection(P, 1..C)
  BY <1>3, <1>4 DEF Injection, IsInjective
<1>6. IsFiniteSet(1..C) /\ Cardinality(1..C) = C
  BY <1>2, FS_Interval
<1> HIDE DEF C
<1>7. f \in Surjection(P, 1..C)
  BY <1>5, <1>6, FS_Injection DEF C
<1>8. \A k \in 1..C : \E i \in P : RankOf(P, i) = k
  BY <1>7 DEF Surjection
<1> QED
  BY <1>1, <1>2, <1>3, <1>4, <1>8 DEF C

\* A filter keeps what is at the given places, in their order.
LEMMA FilteredPlaces ==
  ASSUME NEW s, NEW n \in Nat, NEW P \in SUBSET (1..n)
  PROVE  /\ Cardinality(P) \in Nat
         /\ DOMAIN Filtered(s, P) = 1..Cardinality(P)
         /\ Len(Filtered(s, P)) = Cardinality(P)
         /\ \A i \in P : /\ RankOf(P, i) \in 1..Cardinality(P)
                         /\ Filtered(s, P)[RankOf(P, i)] = s[i]
         /\ \A k \in 1..Cardinality(P) : \E i \in P : Filtered(s, P)[k] = s[i]
         /\ ToSet(Filtered(s, P)) = {s[i] : i \in P}
<1> DEFINE C == Cardinality(P)
           Place(k) == CHOOSE i \in P : RankOf(P, i) = k
           t == [k \in 1..C |-> s[Place(k)]]
<1>1. Filtered(s, P) = t
  BY DEF Filtered, RankOf, UpTo
<1>2. /\ C \in Nat
      /\ \A i \in P : RankOf(P, i) \in 1..C
      /\ \A i, j \in P : RankOf(P, i) = RankOf(P, j) => i = j
      /\ \A k \in 1..C : \E i \in P : RankOf(P, i) = k
  BY RankIsPlace
<1> HIDE DEF C
<1>3. ASSUME NEW i \in P PROVE Place(RankOf(P, i)) = i
  <2>1. Place(RankOf(P, i)) \in P /\ RankOf(P, Place(RankOf(P, i))) = RankOf(P, i)
    OBVIOUS
  <2> HIDE DEF Place
  <2> QED
    BY <1>2, <2>1
<1>4. ASSUME NEW k \in 1..C PROVE Place(k) \in P
  BY <1>2
<1>5. DOMAIN t = 1..C /\ Len(t) = C
  BY <1>2
<1> HIDE DEF Place
<1>6. \A i \in P : t[RankOf(P, i)] = s[i]
  BY <1>2, <1>3
<1>7. \A k \in 1..C : \E i \in P : t[k] = s[i]
  BY <1>4
<1>8. ToSet(t) = {s[i] : i \in P}
  <2> HIDE DEF t
  <2>1. \A x \in ToSet(t) : x \in {s[i] : i \in P}
    BY <1>5, <1>7 DEF ToSet
  <2>2. ASSUME NEW i \in P PROVE s[i] \in ToSet(t)
    BY <1>2, <1>5, <1>6 DEF ToSet
  <2> QED
    BY <2>1, <2>2
<1> HIDE DEF t
<1> QED
  BY <1>1, <1>2, <1>5, <1>6, <1>7, <1>8 DEF C

\* What is in one piece stays as it is.
LEMMA FilteredPiece ==
  ASSUME NEW s, NEW a \in Nat, NEW m \in Nat
  PROVE  Filtered(s, a + 1..a + m) = [k \in 1..m |-> s[a + k]]
<1> DEFINE P == a + 1..a + m
           t == Filtered(s, P)
<1>1. a + m \in Nat /\ P \in SUBSET (1..a + m)
  OBVIOUS
<1>2. Cardinality(P) = m
  <2>1. a + 1 \in Int /\ a + m \in Int
    OBVIOUS
  <2>2. Cardinality(P) = IF a + 1 > a + m THEN 0 ELSE (a + m) - (a + 1) + 1
    BY <2>1, FS_Interval
  <2> QED
    BY <2>2
<1>3. ASSUME NEW k \in 1..m PROVE RankOf(P, a + k) = k
  <2>1. UpTo(P, a + k) = a + 1..a + k
    BY DEF UpTo
  <2>2. a + 1 \in Int /\ a + k \in Int
    OBVIOUS
  <2>3. Cardinality(a + 1..a + k) = IF a + 1 > a + k THEN 0 ELSE (a + k) - (a + 1) + 1
    BY <2>2, FS_Interval
  <2> QED
    BY <2>1, <2>3 DEF RankOf
<1>4. /\ DOMAIN t = 1..Cardinality(P)
      /\ \A i \in P : t[RankOf(P, i)] = s[i]
  BY <1>1, FilteredPlaces, ZenonT(40)
<1>5. ASSUME NEW k \in 1..m PROVE t[k] = s[a + k]
  <2>1. a + k \in P
    OBVIOUS
  <2> QED
    BY <1>3, <1>4, <2>1
<1>6. \E D : t = [k \in D |-> t[k]]
  BY DEF Filtered
<1> QED
  BY <1>2, <1>4, <1>5, <1>6

\* D are the places P of u, a part of s.
SamePlaces(u, P, s, D) ==
  \E n \in Nat, m \in Nat :
    P \in SUBSET (1..n) /\ D = {m + k : k \in P} /\ \A k \in P : u[k] = s[m + k]

\* To filter a part of a text is to filter the text at the same places.
LEMMA FilteredShift ==
  ASSUME NEW s, NEW u, NEW P, NEW D, SamePlaces(u, P, s, D)
  PROVE  Filtered(u, P) = Filtered(s, D)
<1>0. PICK n \in Nat, m \in Nat :
        P \in SUBSET (1..n) /\ D = {m + k : k \in P} /\ \A k \in P : u[k] = s[m + k]
  BY DEF SamePlaces
<1> USE <1>0
<1> DEFINE N == m + n
<1>1. N \in Nat /\ D \in SUBSET (1..N)
  OBVIOUS
<1>2. ASSUME NEW Q \in SUBSET P PROVE Cardinality({m + k : k \in Q}) = Cardinality(Q)
  <2> DEFINE E == {m + k : k \in Q}
             g == [k \in Q |-> m + k]
  <2>1. g \in [Q -> E] /\ \A k \in Q : g[k] = m + k
    OBVIOUS
  <2> HIDE DEF g
  <2>2. \A k, l \in Q : g[k] = g[l] => k = l
    BY <2>1
  <2>3. \A e \in E : \E k \in Q : g[k] = e
    BY <2>1
  <2>4. g \in Bijection(Q, E)
    BY <2>1, <2>2, <2>3 DEF Bijection, Injection, Surjection, IsInjective
  <2>5. ExistsBijection(Q, E)
    BY <2>4 DEF ExistsBijection
  <2>6. IsFiniteSet(Q)
    <3>1. IsFiniteSet(1..n) /\ Q \subseteq 1..n
      BY FS_Interval
    <3> QED
      BY <3>1, FS_Subset
  <2> QED
    BY <2>5, <2>6, FS_Bijection
<1>3. Cardinality(D) = Cardinality(P)
  BY <1>2
<1>4. ASSUME NEW k \in P PROVE RankOf(D, m + k) = RankOf(P, k)
  <2>1. UpTo(D, m + k) = {m + j : j \in UpTo(P, k)}
    BY DEF UpTo
  <2>2. UpTo(P, k) \in SUBSET P
    BY DEF UpTo
  <2> QED
    BY <1>2, <2>1, <2>2 DEF RankOf
<1> DEFINE t == Filtered(u, P)
           r == Filtered(s, D)
           C == Cardinality(P)
<1>5. /\ DOMAIN t = 1..C
      /\ \A k \in P : t[RankOf(P, k)] = u[k]
  BY FilteredPlaces
<1>6. /\ DOMAIN r = 1..C
      /\ \A k \in D : r[RankOf(D, k)] = s[k]
  <2> HIDE DEF N
  <2> QED
    BY <1>1, <1>3, FilteredPlaces
<1>7. \A i \in 1..C : \E k \in P : RankOf(P, k) = i
  BY RankIsPlace
<1>8. ASSUME NEW i \in 1..C PROVE t[i] = r[i]
  <2>1. PICK k \in P : RankOf(P, k) = i
    BY <1>7
  <2>2. t[i] = u[k] /\ r[i] = s[m + k]
    <3>1. m + k \in D
      OBVIOUS
    <3> HIDE DEF t, r
    <3> QED
      BY <1>4, <1>5, <1>6, <2>1, <3>1
  <2> QED
    BY <2>2
<1>9. t = [i \in DOMAIN t |-> t[i]] /\ r = [i \in DOMAIN r |-> r[i]]
  BY DEF Filtered
<1> HIDE DEF t, r
<1>10. t = r
  BY <1>5, <1>6, <1>8, <1>9
<1> QED
  BY <1>10 DEF t, r

\* A part of a text, cut out.
LEMMA CutOut ==
  ASSUME NEW S, NEW s \in Seq(S), NEW a \in 0..Len(s), NEW b \in a..Len(s)
  PROVE  /\ SubSeq(s, a + 1, b) \in Seq(S) /\ Len(SubSeq(s, a + 1, b)) = b - a
         /\ \A k \in 1..b - a : SubSeq(s, a + 1, b)[k] = s[a + k]
<1> DEFINE n == Len(s)
           t == SubSeq(s, a + 1, b)
<1>1. n \in Nat /\ \A i \in 1..n : s[i] \in S
  BY LenProperties, ElementOfSeq
<1>2. \A i \in a + 1..b : s[i] \in S
  BY <1>1
<1>3. a + 1 \in Int /\ b \in Int
  OBVIOUS
<1>4. /\ t \in Seq(S)
      /\ Len(t) = IF a + 1 <= b THEN b - (a + 1) + 1 ELSE 0
      /\ \A i \in 1..b - (a + 1) + 1 : t[i] = s[(a + 1) + i - 1]
  BY <1>2, <1>3, SubSeqProperties
<1> HIDE DEF t, n
<1>5. \A k \in 1..b - a : k \in 1..b - (a + 1) + 1 /\ (a + 1) + k - 1 = a + k
  BY <1>1 DEF n
<1>6. Len(t) = b - a
  BY <1>1, <1>4 DEF n
<1>7. ASSUME NEW k \in 1..b - a PROVE t[k] = s[a + k]
  BY <1>4, <1>5
<1> QED
  BY <1>4, <1>6, <1>7 DEF t

\* What t is of s: the part after a and up to b.
Part(t, s, a, b) ==
  /\ t \in Seq(ToSet(s)) /\ Len(t) = b - a
  /\ \A k \in 1..b - a : t[k] = s[a + k]

\* Nothing is the part between a place and itself.
LEMMA EmptyPart ==
  ASSUME NEW s, NEW a \in Nat
  PROVE  Part(<<>>, s, a, a)
BY EmptySeq DEF Part

\* trim_start_matches() leaves the part after the characters that are trimmed.
LEMMA TrimmedStart ==
  ASSUME NEW s, s \in Seq(ToSet(s)), NEW c
  PROVE  \E a \in 0..Len(s) :
           /\ Part(TrimStart(s, c), s, a, Len(s))
           /\ \A k \in 1..a : s[k] = c
           /\ a < Len(s) => s[a + 1] # c
<1> DEFINE n == Len(s)
           Q == Besides(s, c)
<1>1. n \in Nat /\ DOMAIN s = 1..n
  BY LenProperties
<1>2. Q = {i \in 1..n : s[i] # c}
  BY <1>1 DEF Besides
<1> HIDE DEF n, Q
<1>3. CASE Q = {}
  <2>1. TrimStart(s, c) = <<>>
    BY <1>3 DEF TrimStart, Q
  <2>2. \A k \in 1..n : s[k] = c
    BY <1>2, <1>3
  <2>3. Part(<<>>, s, n, n)
    BY <1>1, EmptyPart
  <2> QED
    BY <1>1, <2>1, <2>2, <2>3 DEF n
<1>4. CASE Q # {}
  <2> DEFINE m == Min(Q)
             a == m - 1
  <2>1. Q \in SUBSET Nat
    BY <1>1, <1>2
  <2>2. m \in Q /\ \A y \in Q : m <= y
    BY <1>4, <2>1, LeastPlace
  <2> HIDE DEF m
  <2>3. a \in 0..n /\ n \in a..n /\ a + 1 = m /\ a < n /\ s[a + 1] # c
    BY <1>1, <1>2, <2>2
  <2>4. \A k \in 1..a : s[k] = c
    BY <1>1, <1>2, <2>2, <2>3
  <2>5. TrimStart(s, c) = SubSeq(s, a + 1, n)
    BY <1>4, <2>3 DEF TrimStart, Q, n, m
  <2> HIDE DEF a
  <2>6. Part(SubSeq(s, a + 1, n), s, a, n)
    BY <2>3, CutOut DEF Part, n
  <2> QED
    BY <2>3, <2>4, <2>5, <2>6 DEF n
<1> QED
  BY <1>3, <1>4

\* trim() leaves the part between the outermost places that are not blank.
LEMMA TrimmedBoth ==
  ASSUME NEW s, s \in Seq(ToSet(s))
  PROVE  \E a \in 0..Len(s) : \E b \in a..Len(s) :
           /\ Part(Trim(s), s, a, b)
           /\ \A k \in 1..a : s[k] = Blank
           /\ \A k \in b + 1..Len(s) : s[k] = Blank
           /\ a < b => s[a + 1] # Blank /\ s[b] # Blank
<1> DEFINE n == Len(s)
           Q == Besides(s, Blank)
<1>1. n \in Nat /\ DOMAIN s = 1..n
  BY LenProperties
<1>2. Q = {i \in 1..n : s[i] # Blank}
  BY <1>1 DEF Besides
<1> HIDE DEF n, Q
<1>3. CASE Q = {}
  <2>1. Trim(s) = <<>>
    BY <1>3 DEF Trim, Q
  <2>2. \A k \in 1..n : s[k] = Blank
    BY <1>2, <1>3
  <2>3. Part(<<>>, s, n, n)
    BY <1>1, EmptyPart
  <2>4. n \in 0..n /\ n \in n..n /\ n + 1..n = {} /\ ~(n < n)
    BY <1>1
  <2> QED
    BY <2>1, <2>2, <2>3, <2>4 DEF n
<1>4. CASE Q # {}
  <2> DEFINE m == Min(Q)
             b == Max(Q)
             a == m - 1
  <2>1. Q \in SUBSET Nat /\ Q \in SUBSET (0..n)
    BY <1>1, <1>2
  <2>2. m \in Q /\ \A y \in Q : m <= y
    BY <1>4, <2>1, LeastPlace
  <2>3. b \in Q /\ \A y \in Q : b >= y
    BY <1>1, <1>4, <2>1, GreatestPlace
  <2> HIDE DEF m, b
  <2>4. a \in 0..n /\ b \in a..n /\ a + 1 = m /\ s[a + 1] # Blank /\ s[b] # Blank
    BY <1>1, <1>2, <2>2, <2>3
  <2>5. \A k \in 1..a : s[k] = Blank
    BY <1>1, <1>2, <2>2, <2>4
  <2>6. \A k \in b + 1..n : s[k] = Blank
    BY <1>1, <1>2, <2>3, <2>4
  <2>7. Trim(s) = SubSeq(s, a + 1, b)
    BY <1>4, <2>4 DEF Trim, Q, m, b
  <2> HIDE DEF a
  <2>8. Part(SubSeq(s, a + 1, b), s, a, b)
    BY <2>4, CutOut DEF Part, n
  <2> QED
    BY <2>4, <2>5, <2>6, <2>7, <2>8 DEF n
<1> QED
  BY <1>3, <1>4

\* What normalize_rsa_fingerprint() filters: the text without the blanks
\* around it and the dollars before it.
LEMMA RsaBody ==
  ASSUME NEW s, s \in Seq(ToSet(s))
  PROVE  \E a \in 0..Len(s) : \E m \in a..Len(s) : \E b \in m..Len(s) :
           /\ Part(TrimStart(Trim(s), "$"), s, m, b)
           /\ \A k \in 1..a : s[k] = Blank
           /\ \A k \in a + 1..m : s[k] = "$"
           /\ m < b => s[m + 1] # "$"
           /\ \A k \in b + 1..Len(s) : s[k] = Blank
           /\ a < b => s[a + 1] # Blank /\ s[b] # Blank
<1> DEFINE n == Len(s)
           t == Trim(s)
           u == TrimStart(t, "$")
<1>1. n \in Nat
  BY LenProperties
<1>0. PICK a \in 0..n : \E b \in a..n :
           /\ Part(t, s, a, b)
           /\ \A k \in 1..a : s[k] = Blank
           /\ \A k \in b + 1..n : s[k] = Blank
           /\ a < b => s[a + 1] # Blank /\ s[b] # Blank
  BY TrimmedBoth
<1>2. PICK b \in a..n :
           /\ Part(t, s, a, b)
           /\ \A k \in 1..a : s[k] = Blank
           /\ \A k \in b + 1..n : s[k] = Blank
           /\ a < b => s[a + 1] # Blank /\ s[b] # Blank
  BY <1>0
<1>3. Len(t) = b - a /\ \A k \in 1..b - a : t[k] = s[a + k]
  BY <1>2 DEF Part
<1>4. t \in Seq(ToSet(t)) /\ ToSet(t) \subseteq ToSet(s)
  <2>1. t \in Seq(ToSet(s))
    BY <1>2 DEF Part
  <2> HIDE DEF t
  <2>2. t \in [1..Len(t) -> ToSet(s)] /\ Len(t) \in Nat
    BY <2>1, LenProperties
  <2>3. t \in [1..Len(t) -> ToSet(t)] /\ ToSet(t) \subseteq ToSet(s)
    BY <2>2 DEF ToSet
  <2>4. t \in Seq(ToSet(t))
    BY <2>2, <2>3, SeqDef
  <2> QED
    BY <2>3, <2>4
<1> HIDE DEF n, t
<1>5. PICK d \in 0..Len(t) :
           /\ Part(u, t, d, Len(t))
           /\ \A k \in 1..d : t[k] = "$"
           /\ d < Len(t) => t[d + 1] # "$"
  BY <1>4, TrimmedStart
<1> DEFINE m == a + d
<1> HIDE DEF u
<1>6. /\ m \in a..n /\ b \in m..n /\ b - m = Len(t) - d
      /\ \A k \in 1..b - m : d + k \in 1..b - a /\ a + (d + k) = m + k
  BY <1>1, <1>2, <1>3, <1>5
<1>7. Part(u, s, m, b)
  <2>1. u \in Seq(ToSet(t)) /\ Len(u) = b - m /\ \A k \in 1..b - m : u[k] = t[d + k]
    BY <1>5, <1>6 DEF Part
  <2>2. u \in Seq(ToSet(s))
    BY <1>4, <2>1, SeqMonotonic
  <2>3. ASSUME NEW k \in 1..b - m PROVE u[k] = s[m + k]
    BY <1>3, <1>6, <2>1
  <2> QED
    BY <2>1, <2>2, <2>3 DEF Part
<1>8. ASSUME NEW k \in a + 1..m PROVE s[k] = "$"
  <2>1. k - a \in 1..d /\ k - a \in 1..b - a /\ a + (k - a) = k
    BY <1>1, <1>2, <1>3, <1>5
  <2> QED
    BY <1>3, <1>5, <2>1
<1>9. m < b => s[m + 1] # "$"
  <2> HAVE m < b
  <2>1. d < Len(t) /\ d + 1 \in 1..b - a /\ a + (d + 1) = m + 1
    BY <1>1, <1>2, <1>3, <1>5
  <2> QED
    BY <1>3, <1>5, <2>1
<1> HIDE DEF m
<1> QED
  BY <1>2, <1>6, <1>7, <1>8, <1>9 DEF n, t, u

\* From a place on, a text holds digits and blanks only.
Clean(s, j) == \A k \in j + 1..Len(s) : s[k] \in Hex \cup {Blank}
Digits(s, j) == {k \in j + 1..Len(s) : s[k] \in Hex}

\* Blanks, then dollars, then the rest: no other text has that shape twice.
LEMMA SameStart ==
  ASSUME NEW s, s \in Seq(ToSet(s)),
         NEW a \in 0..Len(s), NEW m \in a..Len(s), NEW b \in m..Len(s),
         \A k \in 1..a : s[k] = Blank,
         \A k \in a + 1..m : s[k] = "$",
         m < b => s[m + 1] # "$",
         \A k \in b + 1..Len(s) : s[k] = Blank,
         a < b => s[a + 1] # Blank /\ s[b] # Blank,
         NEW i \in 0..Len(s), NEW j \in i..Len(s),
         \A k \in 1..i : s[k] = Blank,
         \A k \in i + 1..j : s[k] = "$",
         Clean(s, j)
  PROVE  Clean(s, m) /\ Digits(s, m) = Digits(s, j)
<1> DEFINE n == Len(s)
<1>1. n \in Nat
  BY LenProperties
<1>2. Blank \notin Hex /\ "$" \notin Hex /\ "$" # Blank
  BY CharAssumption DEF Blank
<1> HIDE DEF n
<1> USE DEF Clean, Digits
<1>3. CASE a = b
  <2>1. \A k \in 1..n : s[k] = Blank
    BY <1>1, <1>3 DEF n
  <2>2. \A l \in 0..n : Clean(s, l) /\ Digits(s, l) = {}
    BY <1>1, <1>2, <2>1 DEF n
  <2>3. m \in 0..n /\ j \in 0..n
    BY <1>1 DEF n
  <2> QED
    BY <2>2, <2>3
<1>4. CASE a < b /\ i < j
  <2>1. i + 1 \in i + 1..j /\ j \in i + 1..j
    BY <1>1, <1>4 DEF n
  <2>2. s[i + 1] = "$" /\ s[j] = "$"
    BY <2>1
  <2>3. a = i
    <3>1. i < a => i + 1 \in 1..a
      BY <1>1 DEF n
    <3>2. ~(i < a)
      BY <1>2, <2>2, <3>1
    <3>3. a < i => a + 1 \in 1..i
      BY <1>1 DEF n
    <3>4. ~(a < i)
      BY <1>4, <3>3
    <3> QED
      BY <1>1, <3>2, <3>4 DEF n
  <2>4. j <= b
    <3>1. j > b => j \in b + 1..Len(s)
      BY <1>1 DEF n
    <3> QED
      BY <1>1, <1>2, <2>2, <3>1 DEF n
  <2>5. j <= m
    <3>1. j > m => m < b /\ m + 1 \in i + 1..j
      BY <1>1, <2>3, <2>4 DEF n
    <3> QED
      BY <1>1, <3>1 DEF n
  <2>6. ~(j < m)
    <3>1. j < m => m \in a + 1..m /\ m \in j + 1..Len(s)
      BY <1>1, <2>3 DEF n
    <3> QED
      BY <1>2, <3>1
  <2>7. m = j
    BY <1>1, <2>5, <2>6 DEF n
  <2> QED
    BY <2>7
<1>5. CASE a < b /\ i = j
  <2>1. i <= a
    <3>1. a < i => a + 1 \in 1..i
      BY <1>1 DEF n
    <3> QED
      BY <1>1, <1>5, <3>1 DEF n
  <2>2. m = a
    <3>1. a < m => a + 1 \in a + 1..m /\ a + 1 \in j + 1..Len(s)
      BY <1>1, <1>5, <2>1 DEF n
    <3>2. ~(a < m)
      BY <1>2, <3>1
    <3> QED
      BY <1>1, <3>2 DEF n
  <2>3. Clean(s, m)
    BY <1>1, <1>5, <2>1, <2>2 DEF n
  <2>4. ASSUME NEW k \in j + 1..Len(s), s[k] \in Hex PROVE k \in m + 1..Len(s)
    <3>1. k <= a => k \in 1..a
      BY <1>1, <1>5 DEF n
    <3> QED
      BY <1>1, <1>2, <1>5, <2>2, <2>4, <3>1 DEF n
  <2>5. \A k \in m + 1..Len(s) : k \in j + 1..Len(s)
    BY <1>1, <1>5, <2>1, <2>2 DEF n
  <2> QED
    BY <2>3, <2>4, <2>5
<1>6. a = b \/ a < b
  BY <1>1 DEF n
<1>7. i = j \/ i < j
  BY <1>1 DEF n
<1> QED
  BY <1>3, <1>4, <1>5, <1>6, <1>7

\* For every text: normalize_rsa_fingerprint() takes exactly blanks, dollars and
\* then RsaLen digits with blanks anywhere, and returns those digits in their
\* order and in upper case (config/mod.rs:147-164).
THEOREM RsaRead ==
  ASSUME NEW s, s \in Seq(ToSet(s))
  PROVE  /\ NormalizeRsa(s) # <<>> <=> IsRsa(s)
         /\ NormalizeRsa(s) # <<>> => NormalizeRsa(s)[1] = RsaOf(s)
<1> DEFINE n == Len(s)
           u == TrimStart(Trim(s), "$")
           P == Besides(u, Blank)
           t == Filtered(u, P)
           out == [i \in DOMAIN t |-> UpperOf[t[i]]]
<1>1. n \in Nat
  BY LenProperties
<1>2. PICK a \in 0..n : \E m \in a..n : \E b \in m..n :
           /\ Part(u, s, m, b)
           /\ \A k \in 1..a : s[k] = Blank
           /\ \A k \in a + 1..m : s[k] = "$"
           /\ m < b => s[m + 1] # "$"
           /\ \A k \in b + 1..n : s[k] = Blank
           /\ a < b => s[a + 1] # Blank /\ s[b] # Blank
  BY RsaBody
<1>3. PICK m \in a..n : \E b \in m..n :
           /\ Part(u, s, m, b)
           /\ \A k \in 1..a : s[k] = Blank
           /\ \A k \in a + 1..m : s[k] = "$"
           /\ m < b => s[m + 1] # "$"
           /\ \A k \in b + 1..n : s[k] = Blank
           /\ a < b => s[a + 1] # Blank /\ s[b] # Blank
  BY <1>2
<1>4. PICK b \in m..n :
           /\ Part(u, s, m, b)
           /\ \A k \in 1..a : s[k] = Blank
           /\ \A k \in a + 1..m : s[k] = "$"
           /\ m < b => s[m + 1] # "$"
           /\ \A k \in b + 1..n : s[k] = Blank
           /\ a < b => s[a + 1] # Blank /\ s[b] # Blank
  BY <1>3
<1> HIDE DEF u
<1>5. b - m \in Nat /\ DOMAIN u = 1..b - m /\ \A k \in 1..b - m : u[k] = s[m + k]
  <2>1. u \in Seq(ToSet(s)) /\ Len(u) = b - m
    BY <1>4 DEF Part
  <2> QED
    BY <1>4, <2>1, LenProperties DEF Part
<1>6. P \in SUBSET (1..b - m) /\ P = {k \in 1..b - m : s[m + k] # Blank}
  BY <1>5 DEF Besides
<1>7. Len(t) = Cardinality(P) /\ ToSet(t) = {u[k] : k \in P} /\ DOMAIN t = 1..Cardinality(P) /\ Cardinality(P) \in Nat
  BY <1>5, <1>6, FilteredPlaces, ZenonT(40)
<1>8. NormalizeRsa(s) = IF Len(t) = RsaLen /\ ToSet(t) \subseteq Hex THEN <<out>> ELSE <<>>
  BY DEF NormalizeRsa, u
<1> HIDE DEF P, t, n
<1>9. Blank \notin Hex
  BY CharAssumption
<1>10. ToSet(t) \subseteq Hex <=> Clean(s, m)
  <2>1. ASSUME ToSet(t) \subseteq Hex, NEW k \in m + 1..n PROVE s[k] \in Hex \cup {Blank}
    <3>1. CASE k <= b
      <4>1. k - m \in 1..b - m /\ m + (k - m) = k
        BY <1>1, <3>1 
      <4> QED
        BY <1>5, <1>6, <1>7, <2>1, <4>1
    <3>2. CASE k > b
      <4>1. k \in b + 1..n
        BY <1>1, <3>2
      <4> QED
        BY <1>4, <4>1
    <3> QED
      BY <1>1, <3>1, <3>2
  <2>2. ASSUME Clean(s, m), NEW k \in P PROVE u[k] \in Hex
    <3>1. k \in 1..b - m /\ s[m + k] # Blank
      BY <1>6
    <3>2. m + k \in m + 1..n
      BY <1>1, <3>1
    <3> QED
      BY <1>5, <2>2, <3>1, <3>2 DEF Clean, n
  <2> QED
    BY <1>7, <2>1, <2>2 DEF Clean, n
<1>11. ASSUME Clean(s, m) PROVE Cardinality(P) = Cardinality(Digits(s, m))
  <2> DEFINE g == [k \in P |-> m + k]
             D == Digits(s, m)
  <2>1. ASSUME NEW k \in P PROVE m + k \in D
    <3>1. k \in 1..b - m /\ s[m + k] # Blank
      BY <1>6
    <3>2. m + k \in m + 1..n
      BY <1>1, <3>1
    <3> QED
      BY <1>11, <3>1, <3>2 DEF Clean, Digits, n
  <2>2. ASSUME NEW k \in D PROVE k - m \in P /\ m + (k - m) = k
    <3>1. k \in m + 1..n /\ s[k] \in Hex
      BY DEF Digits, n
    <3>2. k <= b
      <4>1. k > b => k \in b + 1..n
        BY <1>1, <3>1
      <4> QED
        BY <1>1, <1>4, <1>9, <3>1, <4>1
    <3>3. k - m \in 1..b - m /\ m + (k - m) = k
      BY <1>1, <3>1, <3>2
    <3> QED
      BY <1>6, <1>9, <3>1, <3>3
  <2>3. g \in [P -> D] /\ \A k \in P : g[k] = m + k
    BY <2>1
  <2> HIDE DEF D
  <2>4. \A k, l \in P : g[k] = g[l] => k = l
    BY <1>1, <1>6, <2>3
  <2>5. \A k \in D : \E l \in P : g[l] = k
    BY <2>2, <2>3
  <2> HIDE DEF g
  <2>6. g \in Bijection(P, D)
    BY <2>3, <2>4, <2>5 DEF Bijection, Injection, Surjection, IsInjective
  <2>7. ExistsBijection(P, D)
    BY <2>6 DEF ExistsBijection
  <2>8. IsFiniteSet(P)
    BY <1>5, <1>6, RankIsPlace
  <2> QED
    BY <2>7, <2>8, FS_Bijection DEF D
<1>12. NormalizeRsa(s) # <<>> <=> Len(t) = RsaLen /\ ToSet(t) \subseteq Hex
  <2>1. <<out>> # <<>>
    OBVIOUS
  <2> HIDE DEF out
  <2> QED
    BY <1>8, <2>1, Zenon
<1>13. ASSUME NormalizeRsa(s) # <<>> PROVE IsRsa(s)
  <2>1. Clean(s, m) /\ Cardinality(Digits(s, m)) = RsaLen
    BY <1>7, <1>10, <1>11, <1>12, <1>13
  <2>2. m \in a..Len(s) /\ a \in 0..Len(s)
    BY DEF n
  <2>3. /\ \A k \in 1..a : s[k] = Blank
        /\ \A k \in a + 1..m : s[k] = "$"
        /\ \A k \in m + 1..Len(s) : s[k] \in Hex \cup {Blank}
        /\ Cardinality({k \in m + 1..Len(s) : s[k] \in Hex}) = RsaLen
    BY <1>4, <2>1 DEF Clean, Digits
  <2> QED
    BY <2>2, <2>3 DEF IsRsa
<1>14. ASSUME IsRsa(s) PROVE NormalizeRsa(s) # <<>>
  <2>1. PICK i \in 0..Len(s) : \E j \in i..Len(s) :
          /\ \A k \in 1..i : s[k] = Blank
          /\ \A k \in i + 1..j : s[k] = "$"
          /\ Clean(s, j) /\ Cardinality(Digits(s, j)) = RsaLen
    BY <1>14 DEF IsRsa, Clean, Digits
  <2>2. PICK j \in i..Len(s) :
          /\ \A k \in 1..i : s[k] = Blank
          /\ \A k \in i + 1..j : s[k] = "$"
          /\ Clean(s, j) /\ Cardinality(Digits(s, j)) = RsaLen
    BY <2>1
  <2>3. a \in 0..Len(s) /\ m \in a..Len(s) /\ b \in m..Len(s)
    BY DEF n
  <2>4. Clean(s, m) /\ Digits(s, m) = Digits(s, j)
    <3>1. \A k \in b + 1..Len(s) : s[k] = Blank
      BY <1>4 DEF n
    <3> QED
      BY <1>4, <2>2, <2>3, <3>1, SameStart
  <2> QED
    BY <1>7, <1>10, <1>11, <1>12, <2>2, <2>4
<1>15. ASSUME NormalizeRsa(s) # <<>> PROVE NormalizeRsa(s)[1] = RsaOf(s)
  <2> DEFINE D == {k \in DOMAIN s : s[k] \in Hex}
             d == Filtered(s, D)
  <2>1. NormalizeRsa(s) = <<out>> /\ ToSet(t) \subseteq Hex
    BY <1>8, <1>15
  <2>2. <<out>>[1] = out
    OBVIOUS
  <2>3. D = {m + k : k \in P}
    <3>1. DOMAIN s = 1..n
      BY LenProperties DEF n
    <3>2. ASSUME NEW k \in 1..n, s[k] \in Hex PROVE k - m \in P /\ m + (k - m) = k
      <4>1. "$" \notin Hex
        BY CharAssumption
      <4>2. k <= a => k \in 1..a
        OBVIOUS
      <4>3. k > a /\ k <= m => k \in a + 1..m
        BY <1>1
      <4>4. k > b => k \in b + 1..n
        BY <1>1
      <4>5. m < k /\ k <= b
        BY <1>1, <1>4, <1>9, <3>2, <4>1, <4>2, <4>3, <4>4
      <4>6. k - m \in 1..b - m /\ m + (k - m) = k
        BY <1>1, <4>5
      <4> QED
        BY <1>6, <1>9, <3>2, <4>6
    <3>3. ASSUME NEW k \in P PROVE m + k \in 1..n /\ s[m + k] \in Hex
      <4>1. k \in 1..b - m
        BY <1>6
      <4>2. u[k] \in Hex
        BY <1>7, <2>1
      <4> QED
        BY <1>1, <1>5, <4>1, <4>2
    <3>4. ASSUME NEW k \in D PROVE k \in {m + l : l \in P}
      BY <3>1, <3>2
    <3>5. {m + l : l \in P} \subseteq D
      BY <3>1, <3>3
    <3> QED
      BY <3>4, <3>5
  <2>4. t = d
    <3>1. /\ b - m \in Nat /\ m \in Nat /\ P \in SUBSET (1..b - m)
          /\ \A k \in P : u[k] = s[m + k]
      BY <1>1, <1>5, <1>6
    <3>2. Filtered(u, P) = d
      <4>1. SamePlaces(u, P, s, D)
        BY <2>3, <3>1 DEF SamePlaces
      <4> HIDE DEF P, D, u
      <4> QED
        BY <4>1, FilteredShift
    <3> QED
      BY <3>2 DEF t
  <2>5. RsaOf(s) = [i \in DOMAIN d |-> UpperOf[d[i]]]
    BY DEF RsaOf
  <2> HIDE DEF d
  <2> QED
    BY <2>1, <2>2, <2>4, <2>5
<1> QED
  BY <1>13, <1>14, <1>15

\* One piece of base64, a prefix perhaps, and blanks: a text has that shape
\* around the first and the last place that is not blank.
LEMMA SamePiece ==
  ASSUME NEW s, s \in Seq(ToSet(s)),
         NEW a \in 0..Len(s), NEW b \in a..Len(s),
         \A k \in 1..a : s[k] = Blank,
         \A k \in b + 1..Len(s) : s[k] = Blank,
         a < b => s[a + 1] # Blank /\ s[b] # Blank,
         NEW i \in 0..Len(s), NEW e \in Nat, i + e <= Len(s),
         \A k \in 1..Len(s) : k \in i + 1..i + e <=> s[k] # Blank,
         e # 0
  PROVE  a = i /\ b = i + e
<1> DEFINE n == Len(s)
<1>1. n \in Nat
  BY LenProperties
<1> HIDE DEF n
<1>2. s[i + 1] # Blank /\ s[i + e] # Blank
  <2>1. i + 1 \in 1..n /\ i + e \in 1..n /\ i + 1 \in i + 1..i + e /\ i + e \in i + 1..i + e
    BY <1>1 DEF n
  <2> QED
    BY <2>1 DEF n
<1>3. a <= i
  <2>1. i < a => i + 1 \in 1..a
    BY <1>1 DEF n
  <2>2. ~(i < a)
    BY <1>2, <2>1
  <2> QED
    BY <1>1, <2>2 DEF n
<1>4. b >= i + e
  <2>1. b < i + e => i + e \in b + 1..Len(s)
    BY <1>1 DEF n
  <2>2. ~(b < i + e)
    BY <1>2, <2>1
  <2> QED
    BY <1>1, <2>2 DEF n
<1>5. a < b /\ a + 1 \in 1..Len(s) /\ b \in 1..Len(s)
  BY <1>1, <1>3, <1>4 DEF n
<1>6. a + 1 \in i + 1..i + e /\ b \in i + 1..i + e
  BY <1>5
<1> QED
  BY <1>1, <1>3, <1>4, <1>6 DEF n

\* For every text: normalize_ed25519_fingerprint() takes exactly EdLen base64
\* characters in one piece, with a prefix perhaps and blanks around, and
\* returns those (config/mod.rs:166-184).
THEOREM EdRead ==
  ASSUME NEW s, s \in Seq(ToSet(s))
  PROVE  /\ NormalizeEd(s) # <<>> <=> IsEd(s)
         /\ NormalizeEd(s) # <<>> =>
              NormalizeEd(s)[1] = EdOf(s)
<1> DEFINE n == Len(s)
           t == Trim(s)
           d == IF t # <<>> /\ t[1] = "ed25519:" THEN 1 ELSE 0
           body == IF t # <<>> /\ t[1] = "ed25519:" THEN Tail(t) ELSE t
           Prefix == "ed25519:"
<1>1. n \in Nat /\ DOMAIN s = 1..n
  BY LenProperties
<1>2. PICK a \in 0..n : \E b \in a..n :
           /\ Part(t, s, a, b)
           /\ \A k \in 1..a : s[k] = Blank
           /\ \A k \in b + 1..n : s[k] = Blank
           /\ a < b => s[a + 1] # Blank /\ s[b] # Blank
  BY TrimmedBoth
<1>3. PICK b \in a..n :
           /\ Part(t, s, a, b)
           /\ \A k \in 1..a : s[k] = Blank
           /\ \A k \in b + 1..n : s[k] = Blank
           /\ a < b => s[a + 1] # Blank /\ s[b] # Blank
  BY <1>2
<1>4. /\ NormalizeEd(s) = IF Len(body) = EdLen /\ ToSet(body) \subseteq Base64 THEN <<body>> ELSE <<>>
      /\ EdLen \in Nat /\ Blank \notin Base64 /\ Prefix \notin Base64 /\ Blank # Prefix
  BY LengthAssumption, CharAssumption DEF NormalizeEd, Blank
<1> HIDE DEF t, n, Prefix
<1>5. t \in Seq(ToSet(s)) /\ Len(t) = b - a /\ \A k \in 1..b - a : t[k] = s[a + k]
  BY <1>3 DEF Part
<1>6. t # <<>> <=> a < b
  <2>1. t = <<>> => Len(t) = 0
    BY EmptySeq
  <2>2. t # <<>> => Len(t) \in Nat \ {0}
    BY <1>5, EmptySeq
  <2> QED
    BY <1>1, <1>5, <2>1, <2>2
<1>7. a < b => t[1] = s[a + 1]
  BY <1>1, <1>5
<1>8. d = IF a < b /\ s[a + 1] = Prefix THEN 1 ELSE 0
  BY <1>6, <1>7 DEF Prefix
<1>9. body \in Seq(ToSet(s)) /\ Len(body) = b - (a + d) /\ \A k \in 1..b - (a + d) : body[k] = s[(a + d) + k]
  <2>1. CASE t # <<>> /\ t[1] = "ed25519:"
    <3>1. body = Tail(t) /\ d = 1
      BY <2>1
    <3>2. Tail(t) \in Seq(ToSet(s)) /\ Len(Tail(t)) = Len(t) - 1 /\ \A k \in 1..Len(Tail(t)) : Tail(t)[k] = t[k + 1]
      BY <1>5, <2>1, HeadTailProperties
    <3>3. \A k \in 1..b - (a + 1) : k \in 1..Len(Tail(t)) /\ k + 1 \in 1..b - a /\ a + (k + 1) = (a + 1) + k
      BY <1>1, <1>5, <3>2
    <3>4. Len(Tail(t)) = b - (a + 1)
      BY <1>1, <1>5, <3>2
    <3>5. ASSUME NEW k \in 1..b - (a + 1) PROVE Tail(t)[k] = s[(a + 1) + k]
      BY <1>5, <3>2, <3>3
    <3> HIDE DEF body, d
    <3> QED
      BY <3>1, <3>2, <3>4, <3>5
  <2>2. CASE ~(t # <<>> /\ t[1] = "ed25519:")
    <3>1. body = t /\ d = 0
      BY <2>2
    <3>2. a + 0 = a
      BY <1>1
    <3> HIDE DEF body, d
    <3> QED
      BY <1>5, <3>1, <3>2
  <2> QED
    BY <2>1, <2>2
<1>10. d \in {0, 1}
  OBVIOUS
<1> HIDE DEF d, body
<1> DEFINE i0 == a + d
<1>11. i0 \in Nat /\ i0 <= b /\ b \in Nat /\ b <= n /\ b - i0 \in Nat /\ Len(body) = b - i0
  BY <1>1, <1>8, <1>9
<1>12. DOMAIN body = 1..b - i0
  BY <1>9, <1>11, LenProperties
<1>13. ToSet(body) \subseteq Base64 <=> \A k \in i0 + 1..b : s[k] \in Base64
  <2>1. ASSUME ToSet(body) \subseteq Base64, NEW k \in i0 + 1..b PROVE s[k] \in Base64
    <3>1. k - i0 \in 1..b - i0 /\ i0 + (k - i0) = k
      BY <1>11
    <3> QED
      BY <1>9, <1>12, <2>1, <3>1 DEF ToSet
  <2>2. ASSUME \A k \in i0 + 1..b : s[k] \in Base64, NEW k \in 1..b - i0 PROVE body[k] \in Base64
    <3>1. i0 + k \in i0 + 1..b
      BY <1>11
    <3> QED
      BY <1>9, <2>2, <3>1
  <2> QED
    BY <1>12, <2>1, <2>2 DEF ToSet
<1>14. NormalizeEd(s) # <<>> <=> b - i0 = EdLen /\ \A k \in i0 + 1..b : s[k] \in Base64
  <2>1. <<body>> # <<>>
    OBVIOUS
  <2> QED
    BY <1>4, <1>11, <1>13, <2>1, Zenon
<1> HIDE DEF i0
\* Where the blanks and the prefix are.
<1>15. \A k \in 1..n : k \in i0 + 1..b \/ s[k] = Blank \/ (d = 1 /\ k = a + 1 /\ s[k] = Prefix)
  <2> TAKE k \in 1..n
  <2>1. k <= a => k \in 1..a
    BY <1>1
  <2>2. k > b => k \in b + 1..n
    BY <1>1
  <2>3. k > a /\ k <= b => k \in i0 + 1..b \/ (d = 1 /\ k = a + 1)
    BY <1>1, <1>10 DEF i0
  <2>4. d = 1 => s[a + 1] = Prefix
    BY <1>8
  <2>5. k <= a \/ k > b \/ (k > a /\ k <= b)
    BY <1>1
  <2> QED
    BY <1>3, <2>1, <2>2, <2>3, <2>4, <2>5
<1>16. ASSUME NormalizeEd(s) # <<>>
       PROVE  {k \in DOMAIN s : s[k] \in Base64} = i0 + 1..i0 + EdLen /\ i0 + EdLen = b
  <2>1. b - i0 = EdLen /\ \A k \in i0 + 1..b : s[k] \in Base64
    BY <1>14, <1>16
  <2>2. i0 + EdLen = b
    BY <1>4, <1>11, <2>1
  <2>3. \A k \in i0 + 1..b : k \in 1..n
    BY <1>1, <1>11
  <2> QED
    BY <1>1, <1>4, <1>15, <2>1, <2>2, <2>3
<1>17. ASSUME NormalizeEd(s) # <<>> PROVE IsEd(s)
  <2>1. b = a + d + EdLen
    BY <1>4, <1>10, <1>11, <1>16, <1>17 DEF i0
  <2>2. a + d + EdLen <= Len(s)
    BY <1>11, <2>1 DEF n
  <2>3. ASSUME NEW k \in 1..Len(s) PROVE k \in a + d + 1..a + d + EdLen <=> s[k] \in Base64
    BY <1>1, <1>16, <1>17 DEF n, i0
  <2>4. ASSUME NEW k \in 1..Len(s) \ (a + d + 1..a + d + EdLen)
        PROVE  s[k] = IF d = 1 /\ k = a + 1 THEN "ed25519:" ELSE Blank
    <3>1. k \in 1..n /\ k \notin i0 + 1..b
      BY <1>16, <1>17, <2>1, <2>4 DEF n, i0
    <3>2. d = 1 => s[a + 1] = Prefix
      BY <1>8
    <3> QED
      BY <1>15, <3>1, <3>2 DEF Prefix
  <2> QED
    BY <1>1, <1>10, <2>2, <2>3, <2>4 DEF IsEd, n
<1>18. ASSUME IsEd(s) PROVE NormalizeEd(s) # <<>>
  <2>1. PICK i \in 0..n : \E m \in {0, 1} :
          /\ i + m + EdLen <= n
          /\ \A k \in 1..n : k \in i + m + 1..i + m + EdLen <=> s[k] \in Base64
          /\ \A k \in 1..n \ (i + m + 1..i + m + EdLen) : s[k] = IF m = 1 /\ k = i + 1 THEN Prefix ELSE Blank
    BY <1>18 DEF IsEd, n, Prefix
  <2>2. PICK m \in {0, 1} :
          /\ i + m + EdLen <= n
          /\ \A k \in 1..n : k \in i + m + 1..i + m + EdLen <=> s[k] \in Base64
          /\ \A k \in 1..n \ (i + m + 1..i + m + EdLen) : s[k] = IF m = 1 /\ k = i + 1 THEN Prefix ELSE Blank
    BY <2>1
  <2> DEFINE e == m + EdLen
  <2>3. e \in Nat /\ i + e <= n
    BY <1>1, <1>4, <2>2
  <2>4. ASSUME NEW k \in 1..n PROVE k \in i + 1..i + e <=> s[k] # Blank
    <3>1. CASE k \in i + m + 1..i + m + EdLen
      BY <1>1, <1>4, <2>2, <3>1
    <3>2. CASE k \notin i + m + 1..i + m + EdLen
      <4>1. s[k] = IF m = 1 /\ k = i + 1 THEN Prefix ELSE Blank
        BY <2>2, <3>2
      <4>2. k \in i + 1..i + e <=> m = 1 /\ k = i + 1
        BY <1>1, <1>4, <3>2
      <4> QED
        BY <1>4, <4>1, <4>2
    <3> QED
      BY <3>1, <3>2
  <2>5. CASE e = 0
    <3>1. \A k \in 1..n : s[k] = Blank
      BY <1>1, <2>4, <2>5
    <3>2. ~(a < b)
      BY <1>1, <1>3, <3>1
    <3>3. b = a /\ d = 0 /\ EdLen = 0
      BY <1>1, <1>4, <1>8, <2>5, <3>2
    <3> QED
      BY <1>1, <1>11, <1>14, <3>3 DEF i0
  <2>6. CASE e # 0
    <3>1. a = i /\ b = i + e
      <4>1. i \in 0..Len(s) /\ i + e <= Len(s) /\ \A k \in 1..Len(s) : k \in i + 1..i + e <=> s[k] # Blank
        BY <2>3, <2>4 DEF n
      <4>2. a \in 0..Len(s) /\ b \in a..Len(s) /\ \A k \in b + 1..Len(s) : s[k] = Blank
        BY <1>3 DEF n
      <4> HIDE DEF e
      <4> QED
        BY <1>3, <2>3, <2>6, <4>1, <4>2, SamePiece
    <3>2. d = m
      <4>1. a + 1 \in 1..n /\ a < b
        BY <1>1, <1>4, <2>3, <2>6, <3>1
      <4>2. CASE m = 1
        BY <1>1, <1>4, <1>8, <2>2, <3>1, <4>1, <4>2
      <4>3. CASE m = 0
        <5>1. a + 1 \in i + m + 1..i + m + EdLen
          BY <1>1, <1>4, <2>6, <3>1, <4>3
        <5>2. s[a + 1] \in Base64
          BY <2>2, <4>1, <5>1
        <5> QED
          BY <1>4, <1>8, <4>3, <5>2
      <4> QED
        BY <4>2, <4>3
    <3>3. i0 = i + m /\ b = i + m + EdLen
      BY <1>1, <1>4, <3>1, <3>2 DEF i0
    <3>4. \A k \in i0 + 1..b : s[k] \in Base64
      <4> TAKE k \in i0 + 1..b
      <4>1. k \in 1..n /\ k \in i + m + 1..i + m + EdLen
        BY <1>1, <1>11, <3>3
      <4> QED
        BY <2>2, <4>1
    <3> QED
      BY <1>1, <1>4, <1>11, <1>14, <3>3, <3>4
  <2> QED
    BY <2>5, <2>6
<1>19. ASSUME NormalizeEd(s) # <<>>
       PROVE  NormalizeEd(s)[1] = EdOf(s)
  <2>1. NormalizeEd(s) = <<body>> /\ Len(body) = EdLen
    BY <1>4, <1>19
  <2>2. NormalizeEd(s)[1] = body
    BY <2>1
  <2>3. Filtered(s, i0 + 1..i0 + EdLen) = [k \in 1..EdLen |-> s[i0 + k]]
    BY <1>4, <1>11, FilteredPiece
  <2>4. body = [k \in 1..EdLen |-> s[i0 + k]]
    <3>1. b - i0 = EdLen
      BY <1>14, <1>19
    <3>2. body \in [1..Len(body) -> ToSet(s)]
      BY <1>9, LenProperties
    <3>3. \A k \in 1..EdLen : body[k] = s[i0 + k]
      BY <1>9, <3>1 DEF i0
    <3> QED
      BY <2>1, <3>2, <3>3
  <2>5. EdOf(s) = Filtered(s, i0 + 1..i0 + EdLen)
    BY <1>16, <1>19 DEF EdOf
  <2> QED
    BY <2>2, <2>3, <2>4, <2>5
<1> QED
  BY <1>17, <1>18, <1>19

-----------------------------------------------------------------------------
(* What the parser makes of a blob (config/mod.rs:76-139, 186-286).           *)

\* find(): the outbound that is read is the one that is meant.
LEMMA FirstIsMeant ==
  ASSUME NEW raw, raw.outbounds \in Seq(ToSet(raw.outbounds))
  PROVE  LET pts == {i \in DOMAIN raw.outbounds : IsPt(raw.outbounds[i])}
         IN  /\ pts # {} <=> \E o \in ToSet(raw.outbounds) : o.protocol = <<"vless">> /\ o.tag # <<"direct">>
             /\ pts # {} => Meant(raw) = raw.outbounds[Min(pts)] /\ Meant(raw) \in ToSet(raw.outbounds)
<1> DEFINE outs == raw.outbounds
           n == Len(outs)
           pts == {i \in DOMAIN outs : IsPt(outs[i])}
           First(o) == \E i \in DOMAIN outs :
                         /\ outs[i] = o /\ o.protocol = <<"vless">> /\ o.tag # <<"direct">>
                         /\ \A j \in 1..i - 1 : outs[j].protocol # <<"vless">> \/ outs[j].tag = <<"direct">>
<1>1. n \in Nat /\ DOMAIN outs = 1..n
  BY LenProperties
<1>2. pts # {} <=> \E o \in ToSet(outs) : o.protocol = <<"vless">> /\ o.tag # <<"direct">>
  BY DEF IsPt, ToSet
<1>3. Meant(raw) = CHOOSE o \in ToSet(outs) : First(o)
  BY DEF Meant
<1>4. ASSUME pts # {} PROVE Meant(raw) = outs[Min(pts)] /\ Meant(raw) \in ToSet(outs)
  <2> DEFINE m == Min(pts)
  <2>1. pts \in SUBSET Nat
    BY <1>1
  <2>2. m \in pts /\ \A y \in pts : m <= y
    BY <1>4, <2>1, LeastPlace
  <2> HIDE DEF m
  <2>3. m \in 1..n /\ outs[m] \in ToSet(outs)
    BY <1>1, <2>2 DEF ToSet
  <2>4. First(outs[m])
    <3>1. outs[m].protocol = <<"vless">> /\ outs[m].tag # <<"direct">>
      BY <2>2 DEF IsPt
    <3>2. ASSUME NEW j \in 1..m - 1 PROVE ~(outs[j].protocol = <<"vless">> /\ outs[j].tag # <<"direct">>)
      <4>1. j \in 1..n /\ ~(m <= j)
        BY <1>1, <2>3
      <4>2. j \notin pts
        BY <2>2, <4>1
      <4> QED
        BY <1>1, <4>1, <4>2 DEF IsPt
    <3> QED
      BY <1>1, <2>3, <3>1, <3>2
  <2>5. ASSUME NEW o \in ToSet(outs), First(o) PROVE o = outs[m]
    <3>1. PICK i \in 1..n :
            /\ outs[i] = o /\ o.protocol = <<"vless">> /\ o.tag # <<"direct">>
            /\ \A j \in 1..i - 1 : outs[j].protocol # <<"vless">> \/ outs[j].tag = <<"direct">>
      BY <1>1, <2>5
    <3>2. i \in pts
      BY <1>1, <3>1 DEF IsPt
    <3>3. ~(m < i)
      <4>1. m < i => m \in 1..i - 1
        BY <1>1, <2>3
      <4>2. outs[m].protocol = <<"vless">> /\ outs[m].tag # <<"direct">>
        BY <2>2 DEF IsPt
      <4> QED
        BY <3>1, <4>1, <4>2
    <3>4. m <= i
      BY <2>2, <3>2
    <3>5. m = i
      BY <1>1, <2>3, <3>3, <3>4
    <3> QED
      BY <3>1, <3>5
  <2> HIDE DEF First
  <2> QED
    BY <1>3, <2>3, <2>4, <2>5 DEF m
<1> QED
  BY <1>2, <1>4

\* parse_vless(): what it needs, and what it reads.
Complete(o) ==
  /\ o.vnext # <<>>
  /\ o.security = <<"reality">> => o.reality # <<>>
  /\ LET v == o.vnext[1]
     IN  /\ v.address # <<>> /\ v.port # <<>>
         /\ v.users # <<>> /\ v.users[1].id # <<>>

\* An optional value that is not the default was given.
LEMMA Given ==
  ASSUME NEW opt, Optional(opt), NEW default, NEW x, x # default
  PROVE  OrElse(opt, default) = x <=> opt = <<x>>
<1>1. CASE opt = <<>>
  <2>1. <<>> # <<x>>
    OBVIOUS
  <2> QED
    BY <1>1, <2>1 DEF OrElse
<1>2. CASE opt # <<>>
  <2>1. opt = <<opt[1]>> /\ OrElse(opt, default) = opt[1]
    BY <1>2 DEF Optional, OrElse
  <2>2. \A y : <<y>> = <<x>> <=> y = x
    OBVIOUS
  <2> QED
    BY <2>1, <2>2
<1> QED
  BY <1>1, <1>2

\* parse_vless() fails only for what is missing, and loses none of the rest but
\* the bits of a port above 16.
LEMMA VlessRead ==
  ASSUME NEW o, Optional(o.security), Optional(o.network)
  PROVE  /\ ParseVless(o) # <<>> <=> Complete(o)
         /\ ParseVless(o) # <<>> =>
              LET pt == ParseVless(o)[1]
                  v == o.vnext[1]
              IN  /\ pt.address = v.address[1] /\ pt.userId = v.users[1].id[1]
                  /\ pt.port = v.port[1] % (Max16 + 1)
                  /\ pt.security = "reality" <=> o.security = <<"reality">>
                  /\ pt.security = "tls" <=> o.security = <<"tls">>
                  /\ pt.network = "grpc" <=> o.network = <<"grpc">>
                  /\ pt.serviceName = OrElse(o.serviceName, "")
                  /\ pt.reality = IF pt.security = "reality"
                                  THEN << [f \in RealityFields |-> OrElse(o.reality[1][f], "")] >>
                                  ELSE <<>>
<1> DEFINE v == o.vnext[1]
           user == v.users[1]
           security == OrElse(o.security, "none")
           network == OrElse(o.network, "tcp")
           reality == IF security = "reality"
                      THEN << [f \in RealityFields |-> OrElse(o.reality[1][f], "")] >>
                      ELSE <<>>
           Fails == \/ o.vnext = <<>> \/ v.address = <<>> \/ v.port = <<>>
                    \/ v.users = <<>> \/ user.id = <<>>
                    \/ security = "reality" /\ o.reality = <<>>
           rec == [address |-> v.address[1],
                   port |-> v.port[1] % (Max16 + 1),
                   userId |-> user.id[1],
                   flow |-> OrElse(user.flow, ""),
                   network |-> network,
                   serviceName |-> OrElse(o.serviceName, ""),
                   multiMode |-> OrElse(o.mode, FALSE),
                   security |-> security,
                   reality |-> reality]
<1>1. ParseVless(o) = IF Fails THEN <<>> ELSE <<rec>>
  BY DEF ParseVless
<1>2. /\ security = "reality" <=> o.security = <<"reality">>
      /\ security = "tls" <=> o.security = <<"tls">>
      /\ network = "grpc" <=> o.network = <<"grpc">>
  BY Given
<1>3. /\ rec.address = v.address[1] /\ rec.userId = user.id[1]
      /\ rec.port = v.port[1] % (Max16 + 1) /\ rec.security = security /\ rec.network = network
      /\ rec.serviceName = OrElse(o.serviceName, "") /\ rec.reality = reality
  OBVIOUS
<1>4. <<rec>> # <<>> /\ <<rec>>[1] = rec
  OBVIOUS
<1> HIDE DEF rec
<1>5. Fails <=> ~Complete(o)
  BY <1>2 DEF Complete
<1> HIDE DEF Fails
<1>6. ParseVless(o) # <<>> <=> Complete(o)
  BY <1>1, <1>4, <1>5
<1>7. ParseVless(o) # <<>> => ParseVless(o)[1] = rec
  BY <1>1, <1>4
<1> HIDE DEF security, network
<1> QED
  BY <1>2, <1>3, <1>6, <1>7

\* What a blob that is taken becomes.
DataOf(raw) == FromJson(raw)[1]
ReadAs(raw, data) ==
  /\ ParseVless(Meant(raw)) = <<data.pt>>
  /\ NormalizeRsa(raw.rsa[1]) = <<data.rsa>> /\ NormalizeEd(raw.ed[1]) = <<data.ed>>
  /\ data.doh = raw.doh[1] /\ data.dohIp = raw.dohIp
  /\ DOMAIN data = {"rsa", "ed", "doh", "dohIp", "pt", "exitCountry"}

\* What is normalised is a text.
LEMMA TextRead ==
  ASSUME NEW raw \in UNION ToSet(Blobs)
  PROVE  /\ raw.rsa # <<>> => raw.rsa[1] \in Seq(ToSet(raw.rsa[1]))
         /\ raw.ed # <<>> => raw.ed[1] \in Seq(ToSet(raw.ed[1]))
<1>1. /\ Optional(raw.rsa) /\ Optional(raw.ed)
      /\ \A text \in ToSet(raw.rsa) \cup ToSet(raw.ed) : text \in Seq(ToSet(text))
  BY BlobAssumption
<1>2. ASSUME NEW opt, Optional(opt), opt # <<>> PROVE opt[1] \in ToSet(opt)
  <2>1. opt = <<opt[1]>>
    BY <1>2 DEF Optional
  <2>2. \A x : DOMAIN <<x>> = {1}
    OBVIOUS
  <2>3. DOMAIN opt = {1}
    BY <2>1, <2>2
  <2> QED
    BY <2>3 DEF ToSet
<1>3. raw.rsa # <<>> => raw.rsa[1] \in ToSet(raw.rsa)
  BY <1>1, <1>2
<1>4. raw.ed # <<>> => raw.ed[1] \in ToSet(raw.ed)
  BY <1>1, <1>2
<1> QED
  BY <1>1, <1>3, <1>4

\* For every blob: from_json() takes exactly those with everything a session
\* needs, and the outbound it reads is the first VLESS one that is not tagged
\* "direct" (config/mod.rs:76-139, 186-286).
THEOREM BlobRead ==
  ASSUME NEW raw \in UNION ToSet(Blobs)
  PROVE  /\ FromJson(raw) # <<>> <=> Usable(raw)
         /\ FromJson(raw) # <<>> => /\ ReadAs(raw, DataOf(raw)) /\ Meant(raw) \in ToSet(raw.outbounds)
                                    /\ Complete(Meant(raw))
<1> DEFINE outs == raw.outbounds
           pts == {i \in DOMAIN outs : IsPt(outs[i])}
           rsa == IF raw.rsa = <<>> THEN <<>> ELSE NormalizeRsa(raw.rsa[1])
           ed == IF raw.ed = <<>> THEN <<>> ELSE NormalizeEd(raw.ed[1])
           pt == IF pts = {} THEN <<>> ELSE ParseVless(outs[Min(pts)])
           Names == raw.doh # <<>> /\ raw.doh[1].parses /\ (raw.dohIp = <<>> \/ raw.dohIp[1].parses)
           data == [rsa |-> rsa[1], ed |-> ed[1], doh |-> raw.doh[1], dohIp |-> raw.dohIp,
                    pt |-> pt[1], exitCountry |-> ""]
           Taken == rsa # <<>> /\ ed # <<>> /\ pt # <<>> /\ Names
<1>1. FromJson(raw) = IF Taken THEN <<data>> ELSE <<>>
  <2>1. FromJson(raw) = IF \/ rsa = <<>> \/ ed = <<>> \/ pt = <<>>
                           \/ raw.doh = <<>> \/ ~raw.doh[1].parses
                           \/ raw.dohIp # <<>> /\ ~raw.dohIp[1].parses
                        THEN <<>> ELSE <<data>>
    BY DEF FromJson
  <2> HIDE DEF data, rsa, ed, pt
  <2> QED
    BY <2>1, Zenon
<1>2. <<data>> # <<>> /\ <<data>>[1] = data
  OBVIOUS
<1>3. /\ data.rsa = rsa[1] /\ data.ed = ed[1] /\ data.pt = pt[1]
      /\ data.doh = raw.doh[1] /\ data.dohIp = raw.dohIp
      /\ DOMAIN data = {"rsa", "ed", "doh", "dohIp", "pt", "exitCountry"}
  OBVIOUS
<1> HIDE DEF data
<1>4. /\ raw.outbounds \in Seq(ToSet(raw.outbounds))
      /\ \A o \in ToSet(raw.outbounds) : Optional(o.security) /\ Optional(o.network)
  BY BlobAssumption
<1>5. /\ pts # {} <=> \E o \in ToSet(outs) : o.protocol = <<"vless">> /\ o.tag # <<"direct">>
      /\ pts # {} => Meant(raw) = outs[Min(pts)] /\ Meant(raw) \in ToSet(outs)
  BY <1>4, FirstIsMeant
<1> HIDE DEF pts
<1>6. pts # {} => (ParseVless(Meant(raw)) # <<>> <=> Complete(Meant(raw)))
  <2> HAVE pts # {}
  <2>1. Optional(Meant(raw).security) /\ Optional(Meant(raw).network)
    BY <1>4, <1>5
  <2> QED
    BY <2>1, VlessRead
<1>7. pt # <<>> <=> pts # {} /\ Complete(Meant(raw))
  <2>1. pts # {} => pt = ParseVless(Meant(raw))
    BY <1>5
  <2>2. pts = {} => pt = <<>>
    OBVIOUS
  <2> HIDE DEF pt
  <2> QED
    BY <1>6, <2>1, <2>2
<1>8. rsa # <<>> <=> raw.rsa # <<>> /\ IsRsa(raw.rsa[1])
  <2>1. raw.rsa # <<>> => (NormalizeRsa(raw.rsa[1]) # <<>> <=> IsRsa(raw.rsa[1]))
    BY TextRead, RsaRead
  <2> QED
    BY <2>1
<1>9. ed # <<>> <=> raw.ed # <<>> /\ IsEd(raw.ed[1])
  <2>1. raw.ed # <<>> => (NormalizeEd(raw.ed[1]) # <<>> <=> IsEd(raw.ed[1]))
    BY TextRead, EdRead
  <2> QED
    BY <2>1
<1>10. Usable(raw) <=>
         /\ raw.rsa # <<>> /\ IsRsa(raw.rsa[1])
         /\ raw.ed # <<>> /\ IsEd(raw.ed[1])
         /\ Names
         /\ \E o \in ToSet(raw.outbounds) : o.protocol = <<"vless">> /\ o.tag # <<"direct">>
         /\ Complete(Meant(raw))
  BY DEF Usable, Complete
<1>11. Taken <=> Usable(raw)
  <2> HIDE DEF rsa, ed, pt, Names
  <2> QED
    BY <1>5, <1>7, <1>8, <1>9, <1>10
<1>12. FromJson(raw) # <<>> <=> Taken
  <2> HIDE DEF Taken
  <2> QED
    BY <1>1, <1>2
<1>13. ASSUME FromJson(raw) # <<>>
       PROVE  ReadAs(raw, DataOf(raw)) /\ Meant(raw) \in ToSet(raw.outbounds) /\ Complete(Meant(raw))
  <2>1. Taken /\ DataOf(raw) = data
    BY <1>1, <1>2, <1>12, <1>13 DEF DataOf
  <2>2. /\ rsa = NormalizeRsa(raw.rsa[1]) /\ rsa # <<>>
        /\ ed = NormalizeEd(raw.ed[1]) /\ ed # <<>>
        /\ pts # {} /\ pt = ParseVless(Meant(raw)) /\ pt # <<>>
    BY <1>5, <2>1
  <2>3. NormalizeRsa(raw.rsa[1]) = <<rsa[1]>>
    <3>1. \E x : NormalizeRsa(raw.rsa[1]) \in {<<>>, <<x>>}
      BY DEF NormalizeRsa
    <3>2. PICK x : NormalizeRsa(raw.rsa[1]) \in {<<>>, <<x>>}
      BY <3>1
    <3> HIDE DEF rsa
    <3>3. rsa = <<x>>
      BY <2>2, <3>2
    <3>4. rsa[1] = x
      BY <3>3
    <3> QED
      BY <2>2, <3>3, <3>4
  <2>4. NormalizeEd(raw.ed[1]) = <<ed[1]>>
    <3>1. \E x : NormalizeEd(raw.ed[1]) \in {<<>>, <<x>>}
      BY DEF NormalizeEd
    <3>2. PICK x : NormalizeEd(raw.ed[1]) \in {<<>>, <<x>>}
      BY <3>1
    <3> HIDE DEF ed
    <3>3. ed = <<x>>
      BY <2>2, <3>2
    <3>4. ed[1] = x
      BY <3>3
    <3> QED
      BY <2>2, <3>3, <3>4
  <2>5. ParseVless(Meant(raw)) = <<pt[1]>>
    <3>1. \E x : ParseVless(Meant(raw)) \in {<<>>, <<x>>}
      BY DEF ParseVless
    <3>2. PICK x : ParseVless(Meant(raw)) \in {<<>>, <<x>>}
      BY <3>1
    <3> HIDE DEF pt
    <3>3. pt = <<x>>
      BY <2>2, <3>2
    <3>4. pt[1] = x
      BY <3>3
    <3> QED
      BY <2>2, <3>3, <3>4
  <2>6. Complete(Meant(raw)) /\ Meant(raw) \in ToSet(raw.outbounds)
    BY <1>5, <1>7, <2>2
  <2> HIDE DEF rsa, ed, pt
  <2>7. ReadAs(raw, data)
    BY <1>3, <2>3, <2>4, <2>5 DEF ReadAs
  <2> QED
    BY <2>1, <2>6, <2>7
<1> HIDE DEF Taken
<1> QED
  BY <1>11, <1>12, <1>13

-----------------------------------------------------------------------------
(* What a session runs, from the blob to its hops.                            *)

\* start() from what the core made of a blob, with any country, platform, fd
\* and mask.
LEMMA RunRead ==
  ASSUME NEW raw \in UNION ToSet(Blobs), FromJson(raw) # <<>>,
         NEW id, NEW c, NEW pl, NEW fd, NEW m, NEW dll,
         NEW up, up = [id |-> id, country |-> c, platform |-> pl, fd |-> fd, mask |-> m,
                    run |-> StartWith([DataOf(raw) EXCEPT !.exitCountry = c], pl, fd, m, dll)]
  PROVE  RunsAsMeant(raw, up) /\ StartsIff(raw, up)
<1> DEFINE data == DataOf(raw)
           p == [data EXCEPT !.exitCountry = c]
           o == Meant(raw)
           v == o.vnext[1]
           run == up.run
           out == run.leaf2.outbound
           pt == data.pt
<1>1. ReadAs(raw, data) /\ o \in ToSet(raw.outbounds) /\ Complete(o)
  BY BlobRead
<1>2. run = StartWith(p, pl, fd, m, dll) /\ up.country = c
  OBVIOUS
<1> HIDE DEF data
<1>3. p.rsa = data.rsa /\ p.ed = data.ed /\ p.pt = pt /\ p.doh = raw.doh[1] /\ p.dohIp = raw.dohIp /\ p.exitCountry = c
  BY <1>1 DEF ReadAs
<1> HIDE DEF p
<1>4. /\ run.leaf2.outbound = BuildVlessOutbound(pt)
      /\ run.bridge = [address |-> pt.address, port |-> pt.port, ids |-> <<data.rsa, data.ed>>, exit |-> c]
      /\ run.leaf1.outbound = [protocol |-> "socks", upstream |-> "arti"]
      /\ run.client = BuildClient(p, pl) /\ run.leaf1.listen = "leaf1"
      /\ run.out = (IF ~Pick(pt.network, pt.security = "reality") THEN "provider"
                    ELSE IF ~Parses(Bridge(p)) THEN "bridge"
                    ELSE IF BuildClient(p, pl) = <<>> THEN "dns"
                    ELSE IF ~AdoptTun(pl, fd) THEN "tun"
                    ELSE "up")
  BY <1>2, <1>3 DEF StartWith, BuildConfig, Bridge
<1>5. /\ Optional(o.security) /\ Optional(o.network)
      /\ Optional(v.port) /\ ToSet(v.port) \subseteq Nat
  BY <1>1, BlobAssumption DEF Complete
<1>6. /\ ParseVless(o) = <<pt>>
      /\ NormalizeRsa(raw.rsa[1]) = <<data.rsa>> /\ NormalizeEd(raw.ed[1]) = <<data.ed>>
  BY <1>1 DEF ReadAs
<1> HIDE DEF pt, o, run
<1>7. /\ ParseVless(o) # <<>> /\ ParseVless(o)[1] = pt
      /\ NormalizeRsa(raw.rsa[1]) # <<>> /\ NormalizeRsa(raw.rsa[1])[1] = data.rsa
      /\ NormalizeEd(raw.ed[1]) # <<>> /\ NormalizeEd(raw.ed[1])[1] = data.ed
  BY <1>6
<1>8. /\ pt.address = v.address[1] /\ pt.userId = v.users[1].id[1]
      /\ pt.port = v.port[1] % (Max16 + 1)
      /\ pt.security = "reality" <=> o.security = <<"reality">>
      /\ pt.security = "tls" <=> o.security = <<"tls">>
      /\ pt.network = "grpc" <=> o.network = <<"grpc">>
      /\ pt.serviceName = OrElse(o.serviceName, "")
      /\ pt.reality = IF pt.security = "reality"
                      THEN << [f \in RealityFields |-> OrElse(o.reality[1][f], "")] >>
                      ELSE <<>>
  BY <1>5, <1>7, VlessRead
<1>9. raw.rsa # <<>> /\ raw.ed # <<>>
  BY BlobRead DEF Usable
<1>10. data.rsa = RsaOf(raw.rsa[1])
  BY <1>7, <1>9, TextRead, RsaRead
<1>11. data.ed = EdOf(raw.ed[1])
  BY <1>7, <1>9, TextRead, EdRead
<1>13. /\ out.address = pt.address /\ out.port = pt.port /\ out.uuid = pt.userId
       /\ out.security = Security(pt)
       /\ out.grpc = IF pt.network = "grpc" THEN << [serviceName |-> pt.serviceName, multiMode |-> pt.multiMode] >> ELSE <<>>
       /\ out.reality = IF pt.security = "reality" THEN pt.reality ELSE <<>>
  BY <1>4 DEF BuildVlessOutbound
<1> HIDE DEF out, v
<1>14. ASSUME pt.security = "reality"
       PROVE  pt.reality # <<>> /\ \A f \in RealityFields : pt.reality[1][f] = OrElse(o.reality[1][f], "")
  <2> DEFINE r == [f \in RealityFields |-> OrElse(o.reality[1][f], "")]
  <2>1. pt.reality = <<r>>
    BY <1>8, <1>14
  <2>2. <<r>> # <<>> /\ <<r>>[1] = r
    OBVIOUS
  <2>3. \A f \in RealityFields : r[f] = OrElse(o.reality[1][f], "")
    OBVIOUS
  <2> HIDE DEF r
  <2> QED
    BY <2>1, <2>2, <2>3
<1>15. /\ out.security = "reality" <=> pt.security = "reality"
       /\ out.security = IF o.security \in {<<"reality">>, <<"tls">>} THEN o.security[1] ELSE "none"
  <2>1. /\ pt.security = "reality" => out.security = "reality"
        /\ pt.security = "tls" => out.security = "tls"
        /\ pt.security \notin {"reality", "tls"} => out.security = "none"
    BY <1>13, <1>14 DEF Security
  <2>2. <<"reality">>[1] = "reality" /\ <<"tls">>[1] = "tls"
    OBVIOUS
  <2>3. CASE o.security = <<"reality">>
    BY <1>8, <2>1, <2>2, <2>3
  <2>4. CASE o.security = <<"tls">>
    BY <1>8, <2>1, <2>2, <2>4
  <2>5. CASE o.security \notin {<<"reality">>, <<"tls">>}
    BY <1>8, <2>1, <2>5
  <2> QED
    BY <2>3, <2>4, <2>5
<1>16. /\ out.reality # <<>> <=> pt.security = "reality"
       /\ out.reality # <<>> => \A f \in RealityFields : out.reality[1][f] = OrElse(o.reality[1][f], "")
  BY <1>13, <1>14
<1>17. out.reality # <<>> =>
         \A f \in RealityFields : o.reality[1][f] # <<>> => out.reality[1][f] = o.reality[1][f][1]
  BY <1>16 DEF OrElse
<1>18. /\ out.grpc # <<>> <=> pt.network = "grpc"
       /\ out.grpc # <<>> => out.grpc[1].serviceName = pt.serviceName
  <2> DEFINE g == [serviceName |-> pt.serviceName, multiMode |-> pt.multiMode]
  <2>1. <<g>> # <<>> /\ <<g>>[1] = g /\ g.serviceName = pt.serviceName
    OBVIOUS
  <2>2. out.grpc = IF pt.network = "grpc" THEN <<g>> ELSE <<>>
    BY <1>13
  <2> HIDE DEF g
  <2> QED
    BY <2>1, <2>2
<1>19. out.grpc # <<>> /\ o.serviceName # <<>> => out.grpc[1].serviceName = o.serviceName[1]
  BY <1>8, <1>18 DEF OrElse
<1>20. /\ run.bridge.address = pt.address /\ run.bridge.port = pt.port /\ run.bridge.exit = c
       /\ run.bridge.ids[1] = data.rsa /\ run.bridge.ids[2] = data.ed
  BY <1>4
<1>21. BuildClient(p, pl) # <<>> <=> Askable(raw, pl)
  BY <1>3 DEF BuildClient, AsUrl, Askable
<1>22. run.client # <<>> => AsksAsMeant(raw, run)
  <2> DEFINE pinned == [pin |-> << <<raw.doh[1].host[1], raw.dohIp[1]>> >>, proxy |-> <<>>]
             proxied == [pin |-> <<>>, proxy |-> <<AsUrl("leaf1")>>]
  <2>1. /\ pinned.pin # <<>> /\ pinned.proxy = <<>> /\ pinned.pin = << <<raw.doh[1].host[1], raw.dohIp[1]>> >>
        /\ proxied.pin = <<>> /\ proxied.proxy[1] = AsUrl("leaf1")
    OBVIOUS
  <2>2. AsUrl("leaf1").of = "leaf1" /\ AsUrl("leaf1").scheme # "socks5h"
    BY DEF AsUrl
  <2>3. ASSUME run.client # <<>> PROVE run.client[1] = IF raw.dohIp # <<>> THEN pinned ELSE proxied
    <3>1. run.client = IF raw.dohIp # <<>> THEN <<pinned>> ELSE <<proxied>>
      BY <1>3, <1>4, <2>3 DEF BuildClient
    <3> HIDE DEF pinned, proxied
    <3> QED
      BY <3>1
  <2> HIDE DEF pinned, proxied
  <2>4. ASSUME run.client # <<>>, raw.dohIp # <<>> PROVE AsksAsMeant(raw, run)
    BY <2>1, <2>3, <2>4 DEF AsksAsMeant, Resolver
  <2>5. ASSUME run.client # <<>>, raw.dohIp = <<>> PROVE AsksAsMeant(raw, run)
    BY <1>4, <2>1, <2>2, <2>3, <2>5 DEF AsksAsMeant, Resolver
  <2> QED
    BY <2>4, <2>5
<1>23. RunsAsMeant(raw, up)
  <2>1. /\ out.address = v.address[1] /\ out.uuid = v.users[1].id[1]
        /\ out.port = v.port[1] % (Max16 + 1)
    BY <1>8, <1>13
  <2>2. out.reality # <<>> <=> out.security = "reality"
    BY <1>15, <1>16
  <2>3. o.network = <<"grpc">> <=> out.grpc # <<>>
    BY <1>8, <1>18
  <2>4. /\ run.leaf1.outbound = [protocol |-> "socks", upstream |-> "arti"]
        /\ <<run.bridge.address, run.bridge.port>> = <<out.address, out.port>>
        /\ run.bridge.exit = up.country
    BY <1>2, <1>4, <1>13, <1>20
  <2>5. run.bridge.ids = <<RsaOf(raw.rsa[1]), EdOf(raw.ed[1])>>
    BY <1>4, <1>10, <1>11
  <2> QED
    BY <1>15, <1>17, <1>19, <1>22, <2>1, <2>2, <2>3, <2>4, <2>5 DEF RunsAsMeant, o, v, run, out
<1>24. StartsIff(raw, up)
  <2> DEFINE given == up.fd >= 0 \/ up.platform \in {"ios", "macos", "windows"}
             readable == Readable(raw)
             askable == Askable(raw, pl)
  <2>1. Pick(pt.network, pt.security = "reality")
    BY DEF Pick, Capabilities
  <2>2. Parses(Bridge(p)) <=> readable
    <3>1. /\ Bridge(p).address = pt.address
          /\ Bridge(p).ids[1] = data.rsa /\ Bridge(p).ids[2] = data.ed
      BY <1>3 DEF Bridge
    <3>2. pt.address = Meant(raw).vnext[1].address[1]
      BY <1>8 DEF o, v
    <3> QED
      BY <1>10, <1>11, <3>1, <3>2 DEF Parses, Readable
  <2>3. AdoptTun(pl, fd) <=> given
    BY DEF AdoptTun, EmbeddedTun, SelfProvisioning
  <2>4. up.platform = pl
    OBVIOUS
  <2>5. StartsIff(raw, up) <=>
          /\ run.out = "up" <=> readable /\ askable /\ given
          /\ run.out = "bridge" <=> ~readable
          /\ run.out = "dns" <=> readable /\ ~askable
          /\ run.out = "tun" <=> readable /\ askable /\ ~given
    BY <2>4 DEF StartsIff, run
  <2> HIDE DEF given, readable
  <2>6. run.out = (IF ~readable THEN "bridge" ELSE IF ~askable THEN "dns" ELSE IF ~given THEN "tun" ELSE "up")
    BY <1>4, <1>21, <2>1, <2>2, <2>3, Zenon
  <2> HIDE DEF askable
  <2> QED
    BY <2>5, <2>6
<1> QED
  BY <1>23, <1>24

\* Every profile of a list is what the core made of its blob.
FromBlobs(list, imps) ==
  \A p \in ToSet(list) :
    p.id \in DOMAIN imps /\ FromJson(imps[p.id]) # <<>> /\ p.data = DataOf(imps[p.id])

\* What is in memory, on disk and kept comes from a blob the core took, and a
\* session runs what its blob says.
BlobInv ==
  /\ FromBlobs(profiles, imports)
  /\ disk # <<>> => FromBlobs(disk[1], imports)
  /\ \A id \in kept : id \in DOMAIN imports /\ FromJson(imports[id]) # <<>>
  /\ session.id # 0 =>
       /\ session.id \in DOMAIN imports
       /\ RunsAsMeant(imports[session.id], session) /\ StartsIff(imports[session.id], session)

\* The blobs of earlier imports stay what they were.
LEMMA BlobAdded ==
  ASSUME NEW S, NEW imps \in Seq(S), NEW b \in S
  PROVE  LET more == Append(imps, b)
         IN  /\ DOMAIN more = DOMAIN imps \cup {Len(imps) + 1} /\ more[Len(imps) + 1] = b
             /\ \A id \in DOMAIN imps : more[id] = imps[id]
             /\ \A list : FromBlobs(list, imps) => FromBlobs(list, more)
<1> DEFINE more == Append(imps, b)
           n == Len(imps)
<1>1. /\ more \in Seq(S) /\ Len(more) = Len(imps) + 1
      /\ \A i \in 1..Len(imps) : more[i] = imps[i]
      /\ more[Len(imps) + 1] = b
  BY AppendProperties
<1>2. n \in Nat /\ DOMAIN imps = 1..n /\ DOMAIN more = 1..(n + 1)
  BY <1>1, LenProperties
<1> HIDE DEF more, n
<1>3. DOMAIN more = DOMAIN imps \cup {n + 1}
  BY <1>2
<1>4. \A id \in DOMAIN imps : more[id] = imps[id]
  BY <1>1, <1>2 DEF n
<1>5. ASSUME NEW list, FromBlobs(list, imps) PROVE FromBlobs(list, more)
  BY <1>3, <1>4, <1>5 DEF FromBlobs
<1> QED
  BY <1>1, <1>3, <1>4, <1>5 DEF more, n

\* The profile that connect() takes is one of the list.
LEMMA ActiveFromBlob ==
  ASSUME profiles \in Seq(Saved), Found # {}
  PROVE  Active \in ToSet(profiles)
<1>1. Found \subseteq DOMAIN profiles
  BY DEF Found
<1>2. DOMAIN profiles \subseteq Nat
  BY LenProperties
<1>3. Min(Found) \in Found
  BY <1>1, <1>2, LeastPlace
<1> QED
  BY <1>1, <1>3 DEF Active, ToSet

LEMMA BlobInit == Init => BlobInv
<1> SUFFICES ASSUME Init PROVE BlobInv
  OBVIOUS
<1>1. disk = <<>> /\ profiles = <<>> /\ kept = {} /\ session = NoSession
  BY DEF Init
<1>2. DOMAIN profiles = {}
  <2>1. DOMAIN <<>> = {}
    OBVIOUS
  <2> QED
    BY <1>1, <2>1
<1>3. session.id = 0
  BY <1>1 DEF NoSession
<1> QED
  BY <1>1, <1>2, <1>3 DEF BlobInv, FromBlobs, ToSet

LEMMA BlobStep == KeptInv /\ SingleInv /\ BlobInv /\ [Next]_vars => BlobInv'
<1> SUFFICES ASSUME KeptInv, SingleInv, BlobInv, [Next]_vars PROVE BlobInv'
  OBVIOUS
<1> DEFINE Kept(list, places, ids, imps) ==
             /\ FromBlobs(list, imps)
             /\ places # <<>> => FromBlobs(places[1], imps)
             /\ \A id \in ids : id \in DOMAIN imps /\ FromJson(imps[id]) # <<>>
           StoreInv == Kept(profiles, disk, kept, imports)
           Rest == UNCHANGED <<disk, imports>> /\ kept' \subseteq kept
<1>1. /\ profiles \in Seq(Saved) /\ Len(imports) \in Nat /\ imports \in Seq(UNION ToSet(Blobs))
      /\ disk = <<>> \/ \E list \in Seq(Saved) : disk = <<list>>
  BY DEF KeptInv, StoreTypes
<1>2. /\ FromBlobs(profiles, imports)
      /\ disk # <<>> => FromBlobs(disk[1], imports)
      /\ \A id \in kept : id \in DOMAIN imports /\ FromJson(imports[id]) # <<>>
  BY DEF BlobInv
<1>3. ASSUME Rest, FromBlobs(profiles', imports) PROVE StoreInv'
  BY <1>2, <1>3
<1>4. ASSUME NEW b \in UNION ToSet(Blobs), Import(b) PROVE StoreInv'
  <2> DEFINE id == Len(imports) + 1
             p == [id |-> id, data |-> FromJson(b)[1]]
  <2>1. /\ imports' = Append(imports, b) /\ UNCHANGED <<disk, kept>>
        /\ profiles' = IF FromJson(b) = <<>> THEN profiles ELSE Append(profiles, p)
    BY <1>4 DEF Import, Added
  <2>2. p.id = id /\ p.data = FromJson(b)[1]
    OBVIOUS
  <2>3. FromJson(b) # <<>> => p \in Saved
    BY <1>1 DEF Saved
  <2> HIDE DEF p
  <2>4. /\ DOMAIN imports' = DOMAIN imports \cup {id} /\ imports'[id] = b
        /\ \A i \in DOMAIN imports : imports'[i] = imports[i]
        /\ \A list : FromBlobs(list, imports) => FromBlobs(list, imports')
    <3> DEFINE more == Append(imports, b)
    <3>1. /\ DOMAIN more = DOMAIN imports \cup {Len(imports) + 1} /\ more[Len(imports) + 1] = b
          /\ \A i \in DOMAIN imports : more[i] = imports[i]
          /\ \A list : FromBlobs(list, imports) => FromBlobs(list, more)
      BY <1>1, BlobAdded
    <3> HIDE DEF more
    <3>2. imports' = more
      BY <2>1 DEF more
    <3> QED
      BY <3>1, <3>2
  <2>5. FromBlobs(profiles', imports')
    <3>1. CASE FromJson(b) = <<>>
      BY <1>2, <2>1, <2>4, <3>1
    <3>2. CASE FromJson(b) # <<>>
      <4>1. ToSet(profiles') \subseteq ToSet(profiles) \cup {p}
        BY <1>1, <2>1, <2>3, <3>2, IdsAppend
      <4>2. p.id \in DOMAIN imports' /\ FromJson(imports'[p.id]) # <<>> /\ p.data = DataOf(imports'[p.id])
        BY <2>2, <2>4, <3>2 DEF DataOf
      <4>3. FromBlobs(profiles, imports')
        BY <1>2, <2>4
      <4> QED
        BY <4>1, <4>2, <4>3 DEF FromBlobs
    <3> QED
      BY <3>1, <3>2
  <2> QED
    BY <1>2, <2>1, <2>4, <2>5
<1>5. ASSUME NEW id \in Ids(profiles), RemoveProfile(id) PROVE StoreInv'
  <2>1. profiles' = Without(id) /\ Rest
    BY <1>5 DEF RemoveProfile
  <2>2. ToSet(profiles') \subseteq ToSet(profiles)
    <3>1. Single(profiles)
      BY DEF SingleInv, Imported
    <3> QED
      BY <1>1, <2>1, <3>1, SingleWithout
  <2>3. FromBlobs(profiles', imports)
    BY <1>2, <2>2 DEF FromBlobs
  <2> QED
    BY <1>3, <2>1, <2>3
<1>6. ASSUME Load PROVE StoreInv'
  <2>1. profiles' = OrElse(disk, profiles) /\ Rest
    BY <1>6 DEF Load
  <2>2. FromBlobs(profiles', imports)
    BY <1>2, <2>1 DEF OrElse
  <2> QED
    BY <1>3, <2>1, <2>2
<1>7. ASSUME Save PROVE StoreInv'
  <2>1. /\ disk' = <<profiles>> /\ kept' \subseteq kept \cup Ids(profiles)
        /\ UNCHANGED <<profiles, imports>>
    BY <1>7 DEF Save
  <2>2. disk'[1] = profiles
    BY <2>1
  <2>3. \A id \in Ids(profiles) : id \in DOMAIN imports /\ FromJson(imports[id]) # <<>>
    BY <1>2 DEF Ids, FromBlobs, ToSet
  <2> QED
    BY <1>2, <2>1, <2>2, <2>3
<1>8. ASSUME Restart PROVE StoreInv'
  <2>1. profiles' = <<>> /\ Rest
    BY <1>8 DEF Restart
  <2>2. DOMAIN profiles' = {}
    <3>1. DOMAIN <<>> = {}
      OBVIOUS
    <3> QED
      BY <2>1, <3>1
  <2>3. FromBlobs(profiles', imports)
    BY <2>2 DEF FromBlobs, ToSet
  <2> QED
    BY <1>3, <2>1, <2>3
<1>9. ASSUME NEW id, Select(id) PROVE StoreInv'
  BY <1>2, <1>9 DEF Select
<1>10. ASSUME NEW c, PickCountry(c) PROVE StoreInv'
  BY <1>2, <1>10 DEF PickCountry
<1>11. ASSUME UNCHANGED vars PROVE BlobInv'
  BY <1>11 DEF vars, BlobInv
<1>12. ASSUME NEW pl \in Platforms, NEW fd \in Fds, NEW m \in Masks, Connect(pl, fd, m) PROVE BlobInv'
  <2> DEFINE raw == imports[Active.id]
             up == [id |-> Active.id, country |-> country, platform |-> pl, fd |-> fd, mask |-> m,
                    run |-> StartWith([Active.data EXCEPT !.exitCountry = country],
                                      pl, fd, m, <<"wintun.dll">>)]
  <2>1. Found # {} /\ session' = up /\ UNCHANGED <<disk, profiles, imports, kept>>
    BY <1>12 DEF Connect
  <2>2. Active.id \in DOMAIN imports /\ FromJson(raw) # <<>> /\ Active.data = DataOf(raw)
    BY <1>1, <1>2, <2>1, ActiveFromBlob DEF FromBlobs
  <2>3. raw \in UNION ToSet(Blobs)
    BY <1>1, <2>2
  <2>4. up.id = Active.id
    OBVIOUS
  <2>5. up = [id |-> Active.id, country |-> country, platform |-> pl, fd |-> fd, mask |-> m,
              run |-> StartWith([DataOf(raw) EXCEPT !.exitCountry = country],
                                pl, fd, m, <<"wintun.dll">>)]
    BY <2>2
  <2> HIDE DEF raw, up
  <2>6. RunsAsMeant(raw, up) /\ StartsIff(raw, up)
    BY <2>2, <2>3, <2>5, RunRead
  <2> QED
    BY <1>2, <2>1, <2>2, <2>4, <2>6 DEF BlobInv, raw
<1>13. ASSUME StoreInv', session' = NoSession PROVE BlobInv'
  BY <1>13 DEF BlobInv, NoSession
<1> HIDE DEF StoreInv
<1>14. ASSUME Store, session' = NoSession PROVE BlobInv'
  BY <1>4, <1>5, <1>6, <1>7, <1>8, <1>9, <1>10, <1>13, <1>14 DEF Store
<1> QED
  BY <1>11, <1>12, <1>14 DEF Next

\* Whatever was imported, removed, saved, loaded and restarted before, a session
\* is run from the blob the user has imported as the active profile.  Each hop
\* is the one the blob names, REALITY and TLS are kept, the bridge is known by
\* both fingerprints and the exit by the country chosen last; the port is what
\* 16 bits hold of the blob's, any other security is none, and the DoH host is
\* asked at its pinned address without a proxy, or else through leaf #1 at the
\* address the system finds for it (config/mod.rs:79-286,
\* config_state.dart:36-111, orchestrator.rs:99-163, leaf_impl.rs:42-165,
\* dns/mod.rs:74-98, secure_store.rs:111-118).
THEOREM SessionsRunAsMeant == Spec => []StartedAsMeant
<1>1. BlobInv => StartedAsMeant
  BY DEF BlobInv, StartedAsMeant
<1> QED
  BY <1>1, KeptInit, KeptStep, SingleInit, SingleStep, BlobInit, BlobStep, PTL DEF Spec

\* For every blob, the core takes it exactly if it has all the parser asks for,
\* and only such blobs become profiles.  That does not make them startable: a
\* start is refused, for the first of these reasons and for no other that its
\* arguments decide, exactly if arti cannot parse the address or a fingerprint,
\* if the DoH host is pinned and missing, if it is not pinned and the HTTP client
\* was built without SOCKS proxies, or if there is no TUN
\* (config/mod.rs:79-286, orchestrator.rs:99-163, arti_pipeline.rs:81-97,
\* dns/mod.rs:74-98, Cargo.toml:29).
THEOREM TakenIffUsable == Spec => []AcceptedIffUsable
<1>1. ASSUME KeptInv, BlobInv PROVE AcceptedIffUsable
  <2>1. \A id \in DOMAIN imports : imports[id] \in UNION ToSet(Blobs)
    BY <1>1 DEF KeptInv, StoreTypes
  <2>2. \A id \in DOMAIN imports : Usable(imports[id]) <=> FromJson(imports[id]) # <<>>
    BY <2>1, BlobRead
  <2>3. \A id \in kept \cup Ids(profiles) : FromJson(imports[id]) # <<>>
    BY <1>1 DEF BlobInv, FromBlobs, Ids, ToSet
  <2>4. session.id # 0 => StartsIff(imports[session.id], session)
    BY <1>1 DEF BlobInv
  <2> QED
    BY <2>2, <2>3, <2>4 DEF AcceptedIffUsable
<1> QED
  BY <1>1, KeptInit, KeptStep, SingleInit, SingleStep, BlobInit, BlobStep, PTL DEF Spec
=============================================================================
