---------------------------- MODULE DnsPathProofs ----------------------------
(* Theorems about DnsPath, for any ports, sessions and queries.               *)
EXTENDS DnsPath, SequenceTheorems, TLAPS

\* The ways a query of session s may be on: still at the listener, with leaf
\* #1, or past arti; and with a pinned address, at the listener or at the server.
Ways(s) == {<<>>, << <<s, "leaf1">> >>, << <<s, "leaf1">>, <<s, "arti">> >>}
PinnedWays(s) == {<<>>, <<Server(s)>>}

Going(c, t) ==
  \/ c = "proxied" /\ t.via \in Ways(t.session)
  \/ c = "pinned" /\ ~t.looked /\ t.via \in PinnedWays(t.session)

\* What the start of a listener may change: nothing of a query in flight.
ClientTypes ==
  /\ loop \in [Sessions -> {"none", "runs", "ended"}]
  /\ client \in [Sessions -> {"none", "pinned", "proxied"}]
  /\ \A s \in Sessions : loop[s] # "none" => client[s] # "none"

OfASession == \A t \in tasks : t.session \in Sessions

\* The inductive invariant: QueryConfined leaves the values of `via` open, and
\* the next endpoint is computed from them.
OnItsWay == \A t \in tasks : Going(client[t.session], t)

IInv == ClientTypes /\ OfASession /\ OnItsWay

\* Credentials tell every endpoint from every other, so whatever part has got
\* hold of the port, only the one the endpoint was made for takes a connection.
LEMMA OnlyTheOwner ==
  ASSUME NEW x \in Parts
  PROVE  Taking(x) \subseteq {x}
BY DEF Taking, Secret

\* What the solver needs to be told of sequences of one and of two.
LEMMA OneLong ==
  ASSUME NEW S, NEW a \in S
  PROVE  <<a>> \in Seq(S) /\ Len(<<a>>) = 1
<1>1. <<a>> \in Seq(S)
  OBVIOUS
<1>2. Len(<<a>>) = 1
  OBVIOUS
<1> QED
  BY <1>1, <1>2

LEMMA TwoLongEqual ==
  ASSUME NEW S, NEW p \in Seq(S), NEW q \in Seq(S), Len(p) = 2, Len(q) = 2, p[1] = q[1], p[2] = q[2]
  PROVE  p = q
<1>1. \A i \in 1..Len(p) : p[i] = q[i]
  OBVIOUS
<1> QED
  BY <1>1, SeqEqual

LEMMA AppendSecond ==
  ASSUME NEW S, NEW s \in Seq(S), Len(s) = 1, NEW b \in S
  PROVE  Append(s, b) = <<s[1], b>>
<1>1. s[1] \in S
  BY ElementOfSeq
<1>2. <<s[1], b>> \in Seq(S)
  BY <1>1
<1>3. Len(<<s[1], b>>) = 2
  OBVIOUS
<1>4. <<s[1], b>>[1] = s[1] /\ <<s[1], b>>[2] = b
  OBVIOUS
<1>5. Append(s, b) \in Seq(S)
  OBVIOUS
<1>6. Len(Append(s, b)) = 2
  OBVIOUS
<1>7. Append(s, b)[1] = s[1]
  OBVIOUS
<1>8. Append(s, b)[2] = b
  <2>1. Append(s, b)[Len(s) + 1] = b
    BY AppendProperties
  <2>2. Len(s) + 1 = 2
    OBVIOUS
  <2> QED
    BY <2>1, <2>2, Zenon
<1> QED
  BY <1>2, <1>3, <1>4, <1>5, <1>6, <1>7, <1>8, TwoLongEqual

\* A hop leads from the listener to leaf #1, and from there to arti.
LEMMA HopStays ==
  ASSUME NEW t \in tasks, t.session \in Sessions, t.via \in Ways(t.session), Len(t.via) < 2, Next2(t) \in Parts,
         NEW y \in Taking(Next2(t))
  PROVE  Append(t.via, y) \in Ways(t.session)
<1>1. y = Next2(t)
  BY OnlyTheOwner
<1>2. CASE t.via = <<>>
  BY <1>1, <1>2 DEF Next2, Ways
<1>3. CASE t.via = << <<t.session, "leaf1">> >>
  <2>1. y = <<t.session, "arti">>
    BY <1>1, <1>3 DEF Next2
  <2>2. t.via \in Seq(Parts) /\ Len(t.via) = 1 /\ y \in Parts
    <3>1. <<t.session, "leaf1">> \in Parts
      BY DEF Parts
    <3> QED
      BY <3>1, <1>1, <1>3, OneLong
  <2>3. Append(t.via, y) = <<t.via[1], y>>
    BY <2>2, AppendSecond
  <2>4. t.via[1] = <<t.session, "leaf1">>
    BY <1>3
  <2> QED
    BY <2>1, <2>3, <2>4 DEF Ways
<1> QED
  BY <1>2, <1>3 DEF Ways

\* A query that has taken a step is still on a way of its session.
LEMMA StillGoing ==
  ASSUME OfASession, OnItsWay, NEW t \in tasks, NEW u, u.session = t.session,
         Going(client[t.session], u), Becomes(t, u)
  PROVE  OfASession' /\ OnItsWay'
<1>1. tasks' = (tasks \ {t}) \cup {u} /\ client' = client
  BY DEF Becomes, dns
<1> QED
  BY <1>1 DEF OfASession, OnItsWay

LEMMA WayStep ==
  IInv /\ [Next]_vars => IInv'
<1> SUFFICES ASSUME ClientTypes, OfASession, OnItsWay, [Next]_vars
             PROVE  IInv'
  BY DEF IInv
<1>1. CASE UNCHANGED <<dns, tasks>>
  BY <1>1 DEF dns, ClientTypes, OfASession, OnItsWay, IInv
<1>2. ASSUME StartDns PROVE IInv'
  <2>1. PICK c \in Clients : client' = [client EXCEPT ![cur] = c]
    BY <1>2 DEF StartDns
  <2>2. c \in {"pinned", "proxied"} /\ loop' = [loop EXCEPT ![cur] = "runs"]
    BY <1>2, <2>1 DEF StartDns, Clients
  <2>3. ClientTypes'
    BY <2>1, <2>2 DEF ClientTypes
  <2>4. tasks = {} /\ tasks' = tasks
    BY <1>2 DEF StartDns, Holds, OfASession, queries
  <2> QED
    BY <2>3, <2>4 DEF OfASession, OnItsWay, IInv
<1>3. ASSUME NEW s \in Sessions, LoopEnds(s) PROVE IInv'
  <2>1. UNCHANGED <<client, tasks>> /\ loop' = [loop EXCEPT ![s] = "ended"] /\ loop[s] = "runs"
    BY <1>3 DEF LoopEnds, queries
  <2> QED
    BY <2>1 DEF ClientTypes, OfASession, OnItsWay, IInv
<1>4. ASSUME NEW s \in Sessions, Receive(s) PROVE IInv'
  <2> DEFINE u == [n |-> asked', session |-> s, looked |-> FALSE, via |-> <<>>]
  <2>1. UNCHANGED dns /\ tasks' = tasks \cup {u} /\ loop[s] = "runs"
    BY <1>4 DEF Receive
  <2>2. u.session = s /\ u.looked = FALSE /\ u.via = <<>>
    OBVIOUS
  <2>3. client[s] \in {"pinned", "proxied"}
    BY <2>1 DEF ClientTypes
  <2> HIDE DEF u
  <2>4. Going(client[s], u)
    BY <2>2, <2>3 DEF Going, Ways, PinnedWays
  <2>5. ClientTypes' /\ client' = client
    BY <2>1 DEF dns, ClientTypes
  <2> QED
    BY <2>1, <2>2, <2>4, <2>5 DEF OfASession, OnItsWay, IInv
<1>5. ASSUME NEW t \in tasks, Direct(t) \/ LookUp(t) \/ Hop(t) PROVE IInv'
  <2>1. t.session \in Sessions /\ Going(client[t.session], t)
    BY DEF OfASession, OnItsWay
  <2>2. ASSUME Direct(t) PROVE OfASession' /\ OnItsWay'
    <3> DEFINE u == [t EXCEPT !.via = <<Server(t.session)>>]
    <3>1. client[t.session] = "pinned" /\ Becomes(t, u)
      BY <2>2 DEF Direct
    <3>2. u.session = t.session /\ u.looked = t.looked
      OBVIOUS
    <3>3. u.via \in PinnedWays(t.session)
      <4>1. DOMAIN t = DOMAIN u
        OBVIOUS
      <4> QED
        BY <2>1 DEF Going, PinnedWays
    <3> HIDE DEF u
    <3>4. Going(client[t.session], u)
      BY <2>1, <3>1, <3>2, <3>3 DEF Going
    <3> QED
      BY <3>1, <3>2, <3>4, StillGoing
  <2>3. ASSUME LookUp(t) PROVE OfASession' /\ OnItsWay'
    <3> DEFINE u == [t EXCEPT !.looked = TRUE]
    <3>1. client[t.session] = "proxied" /\ Becomes(t, u)
      BY <2>3 DEF LookUp
    <3>2. u.session = t.session /\ u.via = t.via
      OBVIOUS
    <3> HIDE DEF u
    <3>3. Going(client[t.session], u)
      BY <2>1, <3>1, <3>2 DEF Going
    <3> QED
      BY <3>1, <3>2, <3>3, StillGoing
  <2>4. ASSUME Hop(t) PROVE OfASession' /\ OnItsWay'
    <3>1. client[t.session] = "proxied" /\ Len(t.via) < 2 /\ t.via \in Ways(t.session)
      BY <2>1, <2>4 DEF Hop, Going
    <3>2. Next2(t) \in Parts
      <4>1. CASE t.via = <<>>
        BY <2>1, <4>1 DEF Next2, Parts
      <4>2. CASE t.via = << <<t.session, "leaf1">> >>
        BY <2>1, <4>2 DEF Next2, Parts
      <4> QED
        BY <3>1, <4>1, <4>2 DEF Ways
    <3>3. PICK y \in Taking(Next2(t)) : Becomes(t, [t EXCEPT !.via = Append(@, y)])
      BY <2>4 DEF Hop
    <3> DEFINE u == [t EXCEPT !.via = Append(@, y)]
    <3>4. Append(t.via, y) \in Ways(t.session)
      BY <2>1, <3>1, <3>2, HopStays
    <3>5. u.session = t.session /\ u.via \in {t.via, Append(t.via, y)}
      OBVIOUS
    <3>6. Becomes(t, u)
      BY <3>3
    <3> HIDE DEF u
    <3>7. Going(client[t.session], u)
      BY <3>1, <3>4, <3>5 DEF Going
    <3> QED
      BY <3>5, <3>6, <3>7, StillGoing
  <2>5. ClientTypes'
    <3>1. UNCHANGED dns
      BY <1>5 DEF Direct, LookUp, Hop, Becomes
    <3> QED
      BY <3>1 DEF dns, ClientTypes
  <2> QED
    BY <1>5, <2>2, <2>3, <2>4, <2>5 DEF IInv
<1>6. ASSUME NEW t \in tasks, Reply(t) \/ Fail(t) PROVE IInv'
  <2>1. tasks' \subseteq tasks /\ UNCHANGED dns
    BY <1>6 DEF Reply, Fail
  <2> QED
    BY <2>1 DEF dns, ClientTypes, OfASession, OnItsWay, IInv
<1>7. CASE Next
  BY <1>1, <1>2, <1>3, <1>4, <1>5, <1>6, <1>7
  DEF Next, StartLeaf2, StartArti, StartLeaf1, StartFails, Stop, Bind, EndPart, queries
<1> QED
  BY <1>1, <1>7 DEF vars, dns

\* On however few ports and after however many sessions, a query keeps to the
\* way of its own session's profile: without a pinned address it passes that
\* session's leaf #1 and arti and nothing else, and only then the system is
\* asked for the DoH host; with one it passes neither and goes to that address
\* (dns/mod.rs:43-163, secure_store.rs:72-118).
THEOREM QueriesConfined == Spec => []QueryConfined
<1>1. Init => IInv
  BY DEF Init, ClientTypes, OfASession, OnItsWay, IInv
<1>2. IInv => QueryConfined
  <2> SUFFICES ASSUME IInv, NEW t \in tasks
               PROVE  LET s == t.session
                      IN  \/ client[s] = "proxied" /\ IsPrefix(t.via, << <<s, "leaf1">>, <<s, "arti">> >>)
                          \/ client[s] = "pinned" /\ ~t.looked /\ IsPrefix(t.via, <<Server(s)>>)
    BY DEF QueryConfined
  <2>1. Going(client[t.session], t)
    BY DEF IInv, OnItsWay
  <2> DEFINE a == <<t.session, "leaf1">>
             b == <<t.session, "arti">>
             c == Server(t.session)
  <2>2. /\ IsPrefix(<<>>, <<a, b>>) /\ IsPrefix(<<a>>, <<a, b>>) /\ IsPrefix(<<a, b>>, <<a, b>>)
        /\ IsPrefix(<<>>, <<c>>) /\ IsPrefix(<<c>>, <<c>>)
    <3> HIDE DEF a, b, c
    <3> QED
      BY DEF IsPrefix
  <2> QED
    BY <2>1, <2>2 DEF Going, Ways, PinnedWays
<1> QED
  BY <1>1, <1>2, WayStep, PTL DEF Spec
=============================================================================
