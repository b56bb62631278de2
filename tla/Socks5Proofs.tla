---------------------------- MODULE Socks5Proofs ----------------------------
(* Theorems about Socks5: for any credentials, any clients and any payload.   *)
EXTENDS Socks5, SequenceTheorems, TLAPS

-----------------------------------------------------------------------------
(* Types.                                                                     *)

Replies == Seq(Nat \X Nat)
Reasons == {"none", "err", "eof", "io", "refused", "cancelled", "done"}
Phases == Handshake \cup {"dial", "pump", "ended"}

\* One reply is a sequence of replies.
LEMMA OneReply ==
  ASSUME NEW a \in Nat, NEW b \in Nat
  PROVE  << <<a, b>> >> \in Replies
<1>1. <<a, b>> \in Nat \X Nat
  OBVIOUS
<1> QED
  BY <1>1 DEF Replies

\* A piece of a byte sequence, by its bytes.
LEMMA Piece ==
  ASSUME NEW s \in Bytes, NEW m \in Nat \ {0}, NEW n \in Nat, m <= n + 1, n <= Len(s)
  PROVE  /\ SubSeq(s, m, n) \in Bytes
         /\ Len(SubSeq(s, m, n)) = n - m + 1
         /\ \A i \in 1..(n - m + 1) : SubSeq(s, m, n)[i] = s[m + i - 1]
<1>1. \A i \in m..n : s[i] \in Nat
  BY ElementOfSeq DEF Bytes
<1> QED
  BY <1>1, SubSeqProperties DEF Bytes

\* Two byte sequences are the same when their bytes are.
LEMMA SameBytes ==
  ASSUME NEW s \in Bytes, NEW t \in Bytes, Len(s) = Len(t), \A i \in 1..Len(s) : s[i] = t[i]
  PROVE  s = t
BY SeqEqual DEF Bytes

\* The bytes of two sequences put together.
LEMMA Joined2 ==
  ASSUME NEW s \in Bytes, NEW t \in Bytes
  PROVE  /\ s \o t \in Bytes
         /\ Len(s \o t) = Len(s) + Len(t)
         /\ \A i \in 1..Len(s) : (s \o t)[i] = s[i]
         /\ \A i \in 1..Len(t) : (s \o t)[Len(s) + i] = t[i]
<1>1. Len(s) \in Nat /\ Len(t) \in Nat
  BY DEF Bytes
<1> QED
  BY <1>1, ConcatProperties DEF Bytes

\* A prefix and the rest.
LEMMA Halves ==
  ASSUME NEW s \in Bytes, NEW n \in 0..Len(s)
  PROVE  s = SubSeq(s, 1, n) \o SubSeq(s, n + 1, Len(s))
<1> DEFINE a == SubSeq(s, 1, n)
           b == SubSeq(s, n + 1, Len(s))
<1>1. Len(s) \in Nat /\ n \in Nat /\ n <= Len(s) /\ Len(s) - n \in Nat
  BY DEF Bytes
<1>2. a \in Bytes /\ Len(a) = n /\ \A i \in 1..n : a[i] = s[i]
  BY <1>1, Piece
<1>3. b \in Bytes /\ Len(b) = Len(s) - n /\ \A i \in 1..(Len(s) - n) : b[i] = s[n + i]
  BY <1>1, Piece
<1> HIDE DEF a, b
<1>4. a \o b \in Bytes /\ Len(a \o b) = Len(s)
  <2>1. a \o b \in Bytes /\ Len(a \o b) = Len(a) + Len(b)
    BY <1>2, <1>3, Joined2
  <2>2. Len(a) + Len(b) = Len(s)
    BY <1>1, <1>2, <1>3
  <2> QED
    BY <2>1, <2>2
<1>5. \A i \in 1..Len(s) : s[i] = (a \o b)[i]
  <2> TAKE i \in 1..Len(s)
  <2>1. CASE i <= n
    BY <1>1, <1>2, <1>3, <2>1, Joined2
  <2>2. CASE i > n
    <3>1. i - n \in 1..Len(b) /\ i = Len(a) + (i - n)
      BY <1>1, <1>2, <1>3, <2>2
    <3>2. (a \o b)[Len(a) + (i - n)] = b[i - n]
      BY <1>2, <1>3, <3>1, Joined2
    <3>3. b[i - n] = s[i]
      BY <1>1, <1>3, <3>1
    <3> QED
      BY <3>1, <3>2, <3>3
  <2>3. i <= n \/ i > n
    BY <1>1
  <2> QED
    BY <2>1, <2>2, <2>3, Zenon
<1> QED
  BY <1>1, <1>4, <1>5, SameBytes DEF a, b

\* What handle() reads next and what it leaves: Split at `Need`, nothing is lost.
LEMMA Split ==
  ASSUME TypeOK
  PROVE  /\ Need \in Nat
         /\ Taken \in Bytes /\ Rest \in Bytes
         /\ c2s = Taken \o Rest
         /\ Ready => Len(Taken) = Need /\ \A i \in 1..Need : Taken[i] = c2s[i]
<1>1. CredLen \in Nat
  BY DEF CredLen, TypeOK, Bytes
<1>2. Need \in Nat
  BY <1>1 DEF Need, TypeOK, Bytes
<1>0. c2s \in Bytes /\ Len(c2s) \in Nat
  BY DEF TypeOK, Bytes
<1>3. CASE Ready
  <2>1. Taken = SubSeq(c2s, 1, Need) /\ Rest = SubSeq(c2s, Need + 1, Len(c2s)) /\ Need <= Len(c2s)
    BY <1>3, <1>2 DEF Taken, Rest, Ready
  <2> DEFINE n == Need
  <2>2. n \in Nat /\ n <= Len(c2s)
    BY <1>2, <2>1
  <2> HIDE DEF n
  <2>3. /\ SubSeq(c2s, 1, n) \in Bytes /\ Len(SubSeq(c2s, 1, n)) = n
        /\ \A i \in 1..n : SubSeq(c2s, 1, n)[i] = c2s[i]
    BY <1>0, <2>2, Piece
  <2>4. SubSeq(c2s, n + 1, Len(c2s)) \in Bytes
    BY <1>0, <2>2, Piece
  <2>5. c2s = SubSeq(c2s, 1, n) \o SubSeq(c2s, n + 1, Len(c2s))
    BY <1>0, <2>2, Halves, n \in 0..Len(c2s)
  <2> QED
    BY <1>2, <2>1, <2>3, <2>4, <2>5 DEF n
<1>4. CASE ~Ready
  <2>1. Taken = c2s /\ Rest = <<>>
    BY <1>4 DEF Taken, Rest
  <2> QED
    BY <1>0, <1>2, <1>4, <2>1 DEF Bytes
<1> QED
  BY <1>3, <1>4

\* A byte handle() has waited for.
LEMMA TakenByte ==
  ASSUME TypeOK, Ready, NEW i \in 1..Need
  PROVE  Taken[i] \in Nat /\ Taken[i] = c2s[i]
<1>1. i \in 1..Len(Taken) /\ Taken \in Seq(Nat)
  BY Split DEF Bytes
<1> QED
  BY <1>1, Split, ElementOfSeq

\* A pair of bytes is a byte sequence.
LEMMA PairIsBytes ==
  ASSUME NEW p \in Nat \X Nat
  PROVE  p \in Bytes /\ Len(p) = 2 /\ p[1] \in Nat /\ p[2] \in Nat
<1> PICK a \in Nat, b \in Nat : p = <<a, b>>
  OBVIOUS
<1>1. <<a, b>> \in Bytes /\ Len(<<a, b>>) = 2 /\ <<a, b>>[1] = a /\ <<a, b>>[2] = b
  BY DEF Bytes
<1> QED
  BY <1>1

\* A few bytes are a byte sequence.
LEMMA FewBytes ==
  ASSUME NEW a \in Nat, NEW b \in Nat, NEW c \in Nat, NEW d \in Nat
  PROVE  /\ <<a>> \in Bytes /\ Len(<<a>>) = 1 /\ <<a>>[1] = a
         /\ <<a, b, c, d>> \in Bytes /\ Len(<<a, b, c, d>>) = 4
         /\ <<a, b, c, d>>[1] = a /\ <<a, b, c, d>>[2] = b /\ <<a, b, c, d>>[3] = c
         /\ <<a, b, c, d>>[4] = d
<1>1. <<a>> \in Bytes /\ Len(<<a>>) = 1 /\ <<a>>[1] = a
  BY DEF Bytes
<1>2. <<a, b, c, d>> \in Bytes
  BY DEF Bytes
<1>3. /\ Len(<<a, b, c, d>>) = 4
      /\ <<a, b, c, d>>[1] = a /\ <<a, b, c, d>>[2] = b /\ <<a, b, c, d>>[3] = c
      /\ <<a, b, c, d>>[4] = d
  OBVIOUS
<1> QED
  BY <1>1, <1>2, <1>3

\* A length byte and what it counts.
LEMMA SizedBytes ==
  ASSUME NEW s \in Bytes
  PROVE  /\ AsU8(Len(s)) \in 0..MaxLen
         /\ Sized(s) \in Bytes /\ Len(Sized(s)) = 1 + Len(s)
         /\ Sized(s)[1] = AsU8(Len(s))
         /\ \A i \in 1..Len(s) : Sized(s)[1 + i] = s[i]
<1>1. AsU8(Len(s)) \in 0..MaxLen
  BY BoundsAssumption DEF AsU8, Bytes
<1> DEFINE n == AsU8(Len(s))
<1>2. n \in Nat
  BY <1>1, BoundsAssumption
<1> HIDE DEF n
<1>3. <<n>> \in Bytes /\ Len(<<n>>) = 1 /\ <<n>>[1] = n
  BY <1>2, FewBytes
<1>4. /\ <<n>> \o s \in Bytes /\ Len(<<n>> \o s) = 1 + Len(s)
      /\ (<<n>> \o s)[1] = n
      /\ \A i \in 1..Len(s) : (<<n>> \o s)[1 + i] = s[i]
  BY <1>3, Joined2
<1> QED
  BY <1>1, <1>4 DEF Sized, n

\* The client's three messages are byte sequences.
LEMMA MessagesTyped ==
  ASSUME conf \in Clients
  PROVE  Greeting \in Bytes /\ Auth \in Bytes /\ Request \in Bytes
<1>1. conf \in ClientShape
  BY ClientsAssumption
<1>2. /\ conf.vers[1] \in Nat /\ conf.vers[2] \in Nat /\ conf.vers[3] \in Nat
      /\ conf.methods \in Bytes /\ conf.user \in Bytes /\ conf.pass \in Bytes
      /\ conf.cmd \in Nat /\ conf.atyp \in Nat /\ conf.host \in Bytes /\ conf.port \in Nat \X Nat
  BY <1>1 DEF ClientShape
<1> DEFINE addr == IF conf.atyp = 3 THEN Sized(conf.host) ELSE conf.host
           head == <<conf.vers[3], conf.cmd, 0, conf.atyp>>
<1>3. addr \in Bytes
  BY <1>2, SizedBytes
<1>4. head \in Bytes /\ <<conf.vers[1]>> \in Bytes /\ <<conf.vers[2]>> \in Bytes
  BY <1>2, FewBytes
<1>5. conf.port \in Bytes
  BY <1>2, PairIsBytes
<1> HIDE DEF addr, head
<1>6. Greeting \in Bytes
  BY <1>2, <1>4, SizedBytes, Joined2 DEF Greeting
<1>7. Auth \in Bytes
  BY <1>2, <1>4, SizedBytes, Joined2 DEF Auth
<1>8. (head \o addr) \o conf.port \in Bytes
  BY <1>3, <1>4, <1>5, Joined2
<1> QED
  BY <1>6, <1>7, <1>8 DEF Request, addr, head

\* A message of the client is appended, if at all, to what it sent before.
LEMMA SendTyped ==
  ASSUME TypeOK, NEW at, NEW msg \in Bytes, NEW next \in {"selected", "verdict", "reply"},
         Send(at, msg, next)
  PROVE  TypeOK'
<1>1. c2s' \in Bytes
  BY Joined2 DEF Send, TypeOK
<1> QED
  BY <1>1 DEF Send, TypeOK, server, payload

\* A piece of the messages written and not yet heard.
LEMMA RepliesCut ==
  ASSUME NEW s \in Replies, NEW k \in 0..Len(s)
  PROVE  SubSeq(s, 1, k) \in Replies /\ Len(SubSeq(s, 1, k)) = k
         /\ \A i \in 1..k : SubSeq(s, 1, k)[i] = s[i]
<1>0. Len(s) \in Nat /\ k \in Nat /\ k <= Len(s)
  BY DEF Replies
<1>1. \A i \in 1..k : s[i] \in Nat \X Nat
  BY <1>0, ElementOfSeq DEF Replies
<1> QED
  BY <1>0, <1>1, SubSeqProperties DEF Replies

\* handle() has returned: types.
LEMMA EndTyped ==
  ASSUME TypeOK, NEW msgs \in Replies, NEW r \in Reasons, End(msgs, r)
  PROVE  TypeOK'
<1>1. s2c \in Replies /\ wrote \in Replies
  BY DEF TypeOK, Replies
<1>2. s2c \o msgs \in Replies /\ wrote \o msgs \in Replies /\ Len(s2c \o msgs) \in Nat
  BY <1>1 DEF Replies
<1>3. s2c' \in Replies
  <2> DEFINE out == s2c \o msgs
  <2>1. \E k \in (IF Rest = <<>> THEN {Len(out)} ELSE 0..Len(out)) : s2c' = SubSeq(out, 1, k)
    BY DEF End
  <2>2. Len(out) \in 0..Len(out)
    BY <1>2
  <2> HIDE DEF out
  <2>3. PICK k \in 0..Len(out) : s2c' = SubSeq(out, 1, k)
    BY <2>1, <2>2
  <2> USE <2>3 DEF out
  <2> QED
    BY <1>2, RepliesCut
<1>4. seen' \in Bytes /\ c2s' \in Bytes
  BY Split, Joined2 DEF End, TypeOK, Bytes
<1> QED
  BY <1>2, <1>3, <1>4 DEF End, TypeOK, client, payload, Replies, Reasons

\* handle() goes on: types.
LEMMA AdvanceTyped ==
  ASSUME TypeOK, NEW phase \in Phases, NEW l \in Nat, NEW msgs \in Replies,
         Advance(phase, l, msgs)
  PROVE  TypeOK'
<1>1. CASE End(<<>>, "io")
  <2>1. <<>> \in Replies /\ "io" \in Reasons
    BY DEF Replies, Reasons
  <2> QED
    BY <1>1, <2>1, EndTyped
<1>2. CASE ~End(<<>>, "io")
  <2>0. s2c' = s2c \o msgs /\ wrote' = wrote \o msgs
    BY <1>2 DEF Advance
  <2>1. s2c' \in Replies /\ wrote' \in Replies
    BY <2>0 DEF TypeOK, Replies
  <2>2. seen' \in Bytes /\ c2s' \in Bytes
    BY <1>2, Split, Joined2 DEF Advance, TypeOK
  <2> QED
    BY <1>2, <2>1, <2>2 DEF Advance, TypeOK, client, payload, Replies, Phases
<1> QED
  BY <1>1, <1>2
\* The messages handle() writes.
LEMMA WrittenTyped ==
  /\ <<>> \in Replies
  /\ << <<5, 2>> >> \in Replies /\ << <<5, 255>> >> \in Replies
  /\ << <<1, 0>> >> \in Replies /\ << <<1, 1>> >> \in Replies
  /\ << <<5, 7>> >> \in Replies /\ << <<5, 8>> >> \in Replies
  /\ \A n \in Nat : Code(n) \in Replies
<1>1. <<>> \in Replies
  BY DEF Replies
<1> QED
  BY <1>1, OneReply DEF Code

\* A step of handle() reads, and then goes on to a phase or ends.
LEMMA TypeServer ==
  ASSUME TypeOK, Reads \/ TorConnects \/ TorRefuses \/ CancelDial \/ PumpDone \/ CancelPump
  PROVE  TypeOK'
<1> USE WrittenTyped DEF Reasons, Phases, Handshake
<1>0. Need \in Nat /\ Taken \in Bytes /\ Rest \in Bytes /\ (Ready => Len(Taken) = Need)
  BY Split
<1>1. CASE ReadHdr
  <2>1. Taken[2] \in Nat
    <3>1. Need = 2 /\ Ready
      BY <1>1 DEF ReadHdr, At, Need
    <3> QED
      BY <3>1, TakenByte
  <2> QED
    BY <1>1, <2>1, EndTyped, AdvanceTyped DEF ReadHdr
<1>2. CASE SelectMethod
  BY <1>2, EndTyped, AdvanceTyped DEF SelectMethod
<1>3. CASE ReadAuthVersion
  BY <1>3, EndTyped, AdvanceTyped DEF ReadAuthVersion
<1>4. CASE CheckCreds
  BY <1>4, EndTyped, AdvanceTyped DEF CheckCreds
<1>5. CASE ReadRequest
  <2>1. Taken[4] \in Nat
    <3>1. Need = 4 /\ Ready
      BY <1>5 DEF ReadRequest, At, Need
    <3> QED
      BY <3>1, TakenByte
  <2> QED
    BY <1>5, <2>1, EndTyped, AdvanceTyped DEF ReadRequest
<1>6. CASE ReadAddress
  <2>1. CASE End(<<>>, "err")
    BY <2>1, EndTyped
  <2>2. CASE ~End(<<>>, "err")
    <3>1. seen' \in Bytes
      <4>1. seen' = seen \o Taken /\ seen \in Bytes
        BY <1>6, <2>2 DEF ReadAddress, TypeOK
      <4> QED
        BY <4>1, <1>0, Joined2
    <3> QED
      BY <1>0, <1>6, <2>2, <3>1 DEF ReadAddress, TypeOK, client, payload
  <2> QED
    BY <2>1, <2>2
<1>7. CASE ReadPort
  <2>1. seen' \in Bytes
    BY <1>0, <1>7, Joined2 DEF ReadPort, TypeOK
  <2> QED
    BY <1>0, <1>7, <2>1 DEF ReadPort, TypeOK, client, payload
<1>8. CASE ReadEof
  BY <1>8, EndTyped DEF ReadEof
<1>9. CASE TorConnects
  BY <1>9, AdvanceTyped DEF TorConnects
<1>10. CASE TorRefuses
  BY <1>10, EndTyped DEF TorRefuses
<1>11. CASE CancelDial
  BY <1>11, EndTyped DEF CancelDial
<1>12. CASE PumpDone
  BY <1>12, EndTyped DEF PumpDone
<1>13. CASE CancelPump
  BY <1>13, EndTyped DEF CancelPump
<1> QED
  BY <1>1, <1>2, <1>3, <1>4, <1>5, <1>6, <1>7, <1>8, <1>9, <1>10, <1>11, <1>12, <1>13 DEF Reads

\* A step of the client.
LEMMA TypeClient ==
  ASSUME TypeOK, Client \/ Vanish
  PROVE  TypeOK'
<1> USE DEF TypeOK, server, payload
<1>1. ASSUME s2c # <<>> PROVE Tail(s2c) \in Replies
  BY <1>1, HeadTailProperties DEF Replies
<1>2. Greeting \in Bytes /\ Auth \in Bytes /\ Request \in Bytes
  BY MessagesTyped
<1>3. CASE Greet
  BY <1>2, <1>3, SendTyped DEF Greet
<1>4. CASE Authenticate
  BY <1>2, <1>4, SendTyped DEF Authenticate
<1>5. CASE Ask
  BY <1>2, <1>5, SendTyped DEF Ask
<1>6. CASE TooLong
  BY <1>6 DEF TooLong, Return
<1>7. CASE Selected
  BY <1>1, <1>7 DEF Selected, Hear, Return, Replies
<1>8. CASE Verdict
  BY <1>1, <1>8 DEF Verdict, Hear, Return, Replies
<1>9. CASE Reply
  BY <1>1, <1>9 DEF Reply, Return, Replies
<1>10. CASE Vanish
  <2> PICK k \in 0..Len(c2s) : c2s' = SubSeq(c2s, 1, k)
    BY <1>10 DEF Vanish
  <2>0. Len(c2s) \in Nat /\ c2s \in Bytes /\ k \in Nat /\ k <= Len(c2s)
    BY DEF Bytes
  <2>1. 1 \in Nat \ {0} /\ 1 <= k + 1
    BY <2>0
  <2>2. SubSeq(c2s, 1, k) \in Bytes
    BY <2>0, <2>1, Piece
  <2>3. c2s' \in Bytes
    BY <2>2
  <2> QED
    BY <1>10, <2>3 DEF Vanish
<1> QED
  BY <1>3, <1>4, <1>5, <1>6, <1>7, <1>8, <1>9, <1>10 DEF Client

Flow == [sent : 0..MaxUnits, closed : BOOLEAN, copied : 0..MaxUnits, done : BOOLEAN]

\* What Emit and Copy do to the direction they are about, and to the other.
LEMMA FlowSet ==
  ASSUME TypeOK, NEW d \in Dirs
  PROVE  /\ flow \in [Dirs -> Flow]
         /\ LET f == [flow EXCEPT ![d].sent = @ + 1] IN
            flow[d].sent < MaxUnits =>
              /\ f \in [Dirs -> Flow]
              /\ f[d].closed = flow[d].closed /\ f[d].done = flow[d].done
              /\ \A e \in Dirs : e # d => f[e] = flow[e]
         /\ LET f == [flow EXCEPT ![d].closed = TRUE] IN
              /\ f \in [Dirs -> Flow]
              /\ f[d].closed /\ f[d].done = flow[d].done
              /\ f[d].copied = flow[d].copied /\ f[d].sent = flow[d].sent
              /\ \A e \in Dirs : e # d => f[e] = flow[e]
         /\ LET f == [flow EXCEPT ![d].copied = @ + 1] IN
            flow[d].copied < flow[d].sent =>
              /\ f \in [Dirs -> Flow]
              /\ f[d].closed = flow[d].closed /\ f[d].done = flow[d].done
              /\ \A e \in Dirs : e # d => f[e] = flow[e]
         /\ LET f == [flow EXCEPT ![d].done = TRUE] IN
              /\ f \in [Dirs -> Flow]
              /\ f[d].closed = flow[d].closed /\ f[d].done
              /\ f[d].copied = flow[d].copied /\ f[d].sent = flow[d].sent
              /\ \A e \in Dirs : e # d => f[e] = flow[e]
<1>1. flow \in [Dirs -> Flow]
  BY DEF TypeOK, Flow
<1>2. flow[d] \in Flow
  BY <1>1
<1>3. \A r \in Flow :
        /\ [flow EXCEPT ![d] = r] \in [Dirs -> Flow]
        /\ [flow EXCEPT ![d] = r][d] = r
        /\ \A e \in Dirs : e # d => [flow EXCEPT ![d] = r][e] = flow[e]
  BY <1>1
<1>4. /\ flow[d].sent \in 0..MaxUnits /\ flow[d].copied \in 0..MaxUnits
      /\ flow[d].closed \in BOOLEAN /\ flow[d].done \in BOOLEAN
  BY <1>2 DEF Flow
<1>5. flow[d].sent < MaxUnits => [flow[d] EXCEPT !.sent = flow[d].sent + 1] \in Flow
  BY <1>2, <1>4, BoundsAssumption DEF Flow
<1>6. [flow[d] EXCEPT !.closed = TRUE] \in Flow /\ [flow[d] EXCEPT !.done = TRUE] \in Flow
  BY <1>2 DEF Flow
<1>7. flow[d].copied < flow[d].sent => [flow[d] EXCEPT !.copied = flow[d].copied + 1] \in Flow
  BY <1>2, <1>4, BoundsAssumption DEF Flow
<1>8. /\ [flow[d] EXCEPT !.sent = flow[d].sent + 1].closed = flow[d].closed
      /\ [flow[d] EXCEPT !.sent = flow[d].sent + 1].done = flow[d].done
      /\ [flow[d] EXCEPT !.copied = flow[d].copied + 1].closed = flow[d].closed
      /\ [flow[d] EXCEPT !.copied = flow[d].copied + 1].done = flow[d].done
  BY <1>2 DEF Flow
<1>9. /\ [flow[d] EXCEPT !.closed = TRUE].closed = TRUE
      /\ [flow[d] EXCEPT !.closed = TRUE].done = flow[d].done
      /\ [flow[d] EXCEPT !.closed = TRUE].sent = flow[d].sent
      /\ [flow[d] EXCEPT !.closed = TRUE].copied = flow[d].copied
      /\ [flow[d] EXCEPT !.done = TRUE].done = TRUE
      /\ [flow[d] EXCEPT !.done = TRUE].closed = flow[d].closed
      /\ [flow[d] EXCEPT !.done = TRUE].sent = flow[d].sent
      /\ [flow[d] EXCEPT !.done = TRUE].copied = flow[d].copied
  BY <1>2 DEF Flow
<1> QED
  BY <1>1, <1>3, <1>5, <1>6, <1>7, <1>8, <1>9

\* A step of the payload or of the session.
LEMMA TypePayload ==
  ASSUME TypeOK, Cancel \/ TorLost \/ \E d \in Dirs : Emit(d) \/ Copy(d)
  PROVE  TypeOK'
<1>1. CASE Cancel \/ TorLost
  BY <1>1 DEF Cancel, TorLost, TypeOK, client, server, payload
<1>2. CASE \E d \in Dirs : Emit(d) \/ Copy(d)
  <2> PICK d \in Dirs : Emit(d) \/ Copy(d)
    BY <1>2
  <2>0. /\ flow[d].sent < MaxUnits => [flow EXCEPT ![d].sent = @ + 1] \in [Dirs -> Flow]
        /\ [flow EXCEPT ![d].closed = TRUE] \in [Dirs -> Flow]
        /\ flow[d].copied < flow[d].sent => [flow EXCEPT ![d].copied = @ + 1] \in [Dirs -> Flow]
        /\ [flow EXCEPT ![d].done = TRUE] \in [Dirs -> Flow]
    BY FlowSet
  <2>1. flow' \in [Dirs -> Flow]
    <3>1. CASE Emit(d)
      BY <3>1, <2>0 DEF Emit
    <3>2. CASE Copy(d)
      BY <3>2, <2>0 DEF Copy
    <3> QED
      BY <3>1, <3>2
  <2> QED
    BY <2>1 DEF Emit, Copy, Flow, TypeOK, client, server
<1> QED
  BY <1>1, <1>2

\* Every step keeps the types.
LEMMA TypeStep == TypeOK /\ [Next]_vars => TypeOK'
<1> SUFFICES ASSUME TypeOK, [Next]_vars PROVE TypeOK'
  OBVIOUS
<1>1. CASE UNCHANGED vars
  BY <1>1 DEF vars, TypeOK, client, server, payload
<1> QED
  BY <1>1, TypeServer, TypeClient, TypePayload DEF Next

\* The types hold at first.
LEMMA TypeInit == Init => TypeOK
<1> SUFFICES ASSUME Init PROVE TypeOK
  OBVIOUS
<1>1. <<>> \in Bytes /\ <<>> \in Seq(Nat \X Nat)
  BY DEF Bytes
<1>2. 0 \in 0..MaxUnits
  BY BoundsAssumption
<1> QED
  BY <1>1, <1>2 DEF Init, TypeOK, Handshake

\* Every variable keeps its type, whatever the clients send.
THEOREM TypeCorrect == Spec => []TypeOK
BY TypeInit, TypeStep, PTL DEF Spec

-----------------------------------------------------------------------------
(* The payload.                                                               *)

\* What NothingCut needs of the steps before the last: a direction is done only
\* when its source has ended and all of it was copied, unless the stream it
\* would go to is lost or closed; nothing is sent in a direction that is closed.
FlowInv ==
  /\ why = "done" => sp = "ended" /\ Joined
  /\ \A d \in Dirs : flow[d].done /\ ~lost /\ cp # "gone" =>
       flow[d].closed /\ flow[d].copied = flow[d].sent

\* Every step keeps it.
LEMMA FlowStep == TypeOK /\ FlowInv /\ [Next]_vars => FlowInv'
<1> SUFFICES ASSUME TypeOK, FlowInv, [Next]_vars PROVE FlowInv'
  OBVIOUS
<1>1. CASE Client \/ Vanish
  <2>1. UNCHANGED <<sp, why, flow, lost>> /\ (cp = "gone" => cp' = "gone")
    BY <1>1 DEF Client, TooLong, Greet, Selected, Authenticate, Verdict, Ask, Reply, Send, Hear, Return,
                Vanish, server, payload
  <2> QED
    BY <2>1 DEF FlowInv, Joined
<1>2. CASE Reads \/ TorConnects \/ TorRefuses \/ CancelDial \/ CancelPump
  <2>1. UNCHANGED <<cp, flow, lost>> /\ sp # "ended" /\ why' \in {why, "err", "eof", "io", "refused", "cancelled"}
    BY <1>2 DEF Reads, ReadHdr, SelectMethod, ReadAuthVersion, CheckCreds, ReadRequest, ReadAddress, ReadPort,
                ReadEof, TorConnects, TorRefuses, CancelDial, CancelPump, At, Advance, End, client, payload,
                Handshake
  <2> QED
    BY <2>1 DEF FlowInv, Joined
<1>3. CASE PumpDone
  BY <1>3 DEF PumpDone, End, FlowInv, Joined, client, payload
<1>4. CASE Cancel \/ TorLost
  BY <1>4 DEF Cancel, TorLost, FlowInv, Joined, client, server, payload
<1>5. CASE \E d \in Dirs : Emit(d)
  <2> PICK d \in Dirs : Emit(d)
    BY <1>5
  <2>1. UNCHANGED <<cp, sp, why, lost>> /\ sp = "pump" /\ ~flow[d].closed
    BY DEF Emit, client, server
  <2>2. flow'[d].done = flow[d].done /\ \A e \in Dirs : e # d => flow'[e] = flow[e]
    BY FlowSet DEF Emit
  <2> QED
    BY <2>1, <2>2 DEF FlowInv
<1>6. CASE \E d \in Dirs : Copy(d)
  <2> PICK d \in Dirs : Copy(d)
    BY <1>6
  <2>1. UNCHANGED <<cp, sp, why, lost>> /\ sp = "pump" /\ ~flow[d].done
    BY DEF Copy, client, server
  <2>2. \A e \in Dirs : e # d => flow'[e] = flow[e]
    BY FlowSet, ZenonT(40) DEF Copy
  <2>3. flow'[d].done /\ ~lost /\ cp # "gone" => flow'[d].closed /\ flow'[d].copied = flow'[d].sent
    BY <2>1, FlowSet DEF Copy, Ended
  <2> QED
    BY <2>1, <2>2, <2>3 DEF FlowInv
<1>7. CASE UNCHANGED vars
  BY <1>7 DEF vars, client, server, payload, FlowInv, Joined
<1> QED
  BY <1>1, <1>2, <1>3, <1>4, <1>5, <1>6, <1>7 DEF Next

\* A connection that ends by itself has carried everything, in both directions
\* (arti_pipeline.rs:355-369).
THEOREM CarriedWhole == Spec => []NothingCut
<1>1. Init => FlowInv
  BY DEF Init, FlowInv, Dirs
<1>2. FlowInv => NothingCut
  BY DEF FlowInv, NothingCut, Joined
<1> QED
  BY TypeCorrect, FlowStep, <1>1, <1>2, PTL DEF Spec
-----------------------------------------------------------------------------
(* handle() and socks5_proto::server_handshake.                               *)

\* Where ServerHandshake finds things in the bytes b.
NMethods(b) == b[2]
VerAt(b) == NMethods(b) + 3
ULen(b) == b[VerAt(b) + 1]
PLen(b) == b[VerAt(b) + ULen(b) + 2]
ReqAt(b) == VerAt(b) + ULen(b) + PLen(b) + 3
AType(b) == b[ReqAt(b) + 3]
HostFrom(b) == IF AType(b) = 3 THEN ReqAt(b) + 5 ELSE ReqAt(b) + 4
HostTo(b) == CASE AType(b) = 1 -> ReqAt(b) + 7
               [] AType(b) = 4 -> ReqAt(b) + 19
               [] OTHER -> ReqAt(b) + 4 + b[ReqAt(b) + 4]
HostIn(b) == SubSeq(b, HostFrom(b), HostTo(b))
PortIn(b) == SubSeq(b, HostTo(b) + 1, HostTo(b) + 2)
Offered(b) == Contains(SubSeq(b, 3, NMethods(b) + 2), 2)
Known(b) == /\ SubSeq(b, VerAt(b) + 2, VerAt(b) + ULen(b) + 1) = Creds[1]
            /\ SubSeq(b, VerAt(b) + ULen(b) + 3, VerAt(b) + ULen(b) + PLen(b) + 2) = Creds[2]

\* How far the bytes b are a good handshake.
Got1(b) == Len(b) >= 2 /\ b[1] = 5 /\ NMethods(b) \in Nat
Got2(b) == Got1(b) /\ Len(b) >= NMethods(b) + 2 /\ Offered(b)
Got3(b) == Got2(b) /\ Len(b) >= VerAt(b) /\ b[VerAt(b)] = 1
Got4(b) == /\ Got3(b) /\ ULen(b) \in Nat /\ PLen(b) \in Nat
           /\ Len(b) >= ReqAt(b) - 1 /\ Known(b)
Got5(b) == /\ Got4(b) /\ Len(b) >= ReqAt(b) + 3
           /\ b[ReqAt(b)] = 5 /\ b[ReqAt(b) + 1] = 1 /\ AType(b) \in {1, 3, 4}
Got6(b) == /\ Got5(b) /\ HostTo(b) \in Nat /\ HostTo(b) >= ReqAt(b) + 4 /\ Len(b) >= HostTo(b)
           /\ AType(b) = 3 => Utf8(HostIn(b))

Out(o, w, t) == [out |-> o, wrote |-> w, target |-> t]
Chosen == << <<5, 2>> >>
Admitted == Append(Chosen, <<1, 0>>)

\* What ServerHandshake answers, by how far the bytes are good.
LEMMA Outcomes ==
  ASSUME NEW b \in Bytes
  PROVE  /\ Len(b) < 2 => ServerHandshake(b) = Out("wait", <<>>, <<>>)
         /\ Len(b) >= 2 /\ b[1] # 5 => ServerHandshake(b) = Out("err", <<>>, <<>>)
         /\ Got1(b) /\ Len(b) < NMethods(b) + 2 => ServerHandshake(b) = Out("wait", <<>>, <<>>)
         /\ Got1(b) /\ Len(b) >= NMethods(b) + 2 /\ ~Offered(b) =>
              ServerHandshake(b) = Out("err", << <<5, 255>> >>, <<>>)
         /\ Got2(b) /\ Len(b) < VerAt(b) => ServerHandshake(b) = Out("wait", Chosen, <<>>)
         /\ Got2(b) /\ Len(b) >= VerAt(b) /\ b[VerAt(b)] # 1 =>
              ServerHandshake(b) = Out("err", Chosen, <<>>)
         /\ Got3(b) /\ Len(b) = VerAt(b) => ServerHandshake(b) = Out("wait", Chosen, <<>>)
         /\ Got3(b) /\ ULen(b) \in Nat /\ PLen(b) \in Nat /\ Len(b) >= ReqAt(b) - 1 /\ ~Known(b) =>
              ServerHandshake(b) = Out("err", Append(Chosen, <<1, 1>>), <<>>)
         /\ Got4(b) /\ Len(b) < ReqAt(b) + 3 => ServerHandshake(b) = Out("wait", Admitted, <<>>)
         /\ Got4(b) /\ Len(b) >= ReqAt(b) + 3 /\ b[ReqAt(b)] # 5 =>
              ServerHandshake(b) = Out("err", Admitted, <<>>)
         /\ Got4(b) /\ Len(b) >= ReqAt(b) + 3 /\ b[ReqAt(b)] = 5 /\ b[ReqAt(b) + 1] # 1 =>
              ServerHandshake(b) = Out("err", Append(Admitted, <<5, 7>>), <<>>)
         /\ Got4(b) /\ Len(b) >= ReqAt(b) + 3 /\ b[ReqAt(b)] = 5 /\ b[ReqAt(b) + 1] = 1 /\ AType(b) \notin {1, 3, 4} =>
              ServerHandshake(b) = Out("err", Append(Admitted, <<5, 8>>), <<>>)
         /\ Got5(b) /\ Len(b) = ReqAt(b) + 3 => ServerHandshake(b) = Out("wait", Admitted, <<>>)
         /\ Got5(b) /\ HostTo(b) >= ReqAt(b) + 4 /\ HostTo(b) \in Nat /\ Len(b) >= HostTo(b) /\ AType(b) = 3 /\ ~Utf8(HostIn(b)) =>
              ServerHandshake(b) = Out("err", Admitted, <<>>)
         /\ Got6(b) /\ Len(b) < HostTo(b) + 2 => ServerHandshake(b) = Out("wait", Admitted, <<>>)
         /\ Got6(b) /\ Len(b) >= HostTo(b) + 2 =>
              ServerHandshake(b) = Out("ok", Admitted, <<AType(b), HostIn(b), PortIn(b)>>)
<1> DEFINE
  Asked ==
    IF Len(b) < ReqAt(b) + 3 THEN Out("wait", Admitted, <<>>)
    ELSE IF b[ReqAt(b)] # 5 THEN Out("err", Admitted, <<>>)
    ELSE IF b[ReqAt(b) + 1] # 1 THEN Out("err", Append(Admitted, <<5, 7>>), <<>>)
    ELSE IF AType(b) \notin {1, 3, 4} THEN Out("err", Append(Admitted, <<5, 8>>), <<>>)
    ELSE IF Len(b) < ReqAt(b) + 4 \/ Len(b) < HostTo(b) THEN Out("wait", Admitted, <<>>)
    ELSE IF AType(b) = 3 /\ ~Utf8(HostIn(b)) THEN Out("err", Admitted, <<>>)
    ELSE IF Len(b) < HostTo(b) + 2 THEN Out("wait", Admitted, <<>>)
    ELSE Out("ok", Admitted, <<AType(b), HostIn(b), PortIn(b)>>)
  Read ==
    IF Len(b) < 2 THEN Out("wait", <<>>, <<>>)
    ELSE IF b[1] # 5 THEN Out("err", <<>>, <<>>)
    ELSE IF Len(b) < NMethods(b) + 2 THEN Out("wait", <<>>, <<>>)
    ELSE IF ~Offered(b) THEN Out("err", << <<5, 255>> >>, <<>>)
    ELSE IF Len(b) < VerAt(b) THEN Out("wait", Chosen, <<>>)
    ELSE IF b[VerAt(b)] # 1 THEN Out("err", Chosen, <<>>)
    ELSE IF Len(b) < VerAt(b) + 1 \/ Len(b) < VerAt(b) + ULen(b) + 2 \/ Len(b) < ReqAt(b) - 1
    THEN Out("wait", Chosen, <<>>)
    ELSE IF ~Known(b) THEN Out("err", Append(Chosen, <<1, 1>>), <<>>)
    ELSE Asked
<1>1. ServerHandshake(b) = Read
  BY DEF ServerHandshake, NMethods, VerAt, ULen, PLen, ReqAt, AType, HostFrom, HostTo, HostIn, PortIn, Offered,
         Known, Out, Chosen, Admitted
<1>2. Len(b) \in Nat
  BY DEF Bytes
<1> HIDE DEF Asked
<1>20. Got4(b) => Read = Asked
  BY <1>2 DEF Got1, Got2, Got3, Got4, VerAt, ReqAt
<1>21. Got3(b) /\ ULen(b) \in Nat /\ PLen(b) \in Nat /\ Len(b) >= ReqAt(b) - 1 /\ ~Known(b) =>
        Read = Out("err", Append(Chosen, <<1, 1>>), <<>>)
  BY <1>2, SMTT(30) DEF Got1, Got2, Got3, VerAt, ReqAt
<1>22. Got4(b) => ReqAt(b) \in Nat
  BY DEF Got1, Got2, Got3, Got4, VerAt, ReqAt
<1> HIDE DEF Read
<1>3. Len(b) < 2 =>
        ServerHandshake(b) = Out("wait", <<>>, <<>>)
  BY <1>1, <1>2 DEF Got1, Got2, Got3, VerAt, Read
<1>4. Len(b) >= 2 /\ b[1] # 5 =>
        ServerHandshake(b) = Out("err", <<>>, <<>>)
  BY <1>1, <1>2 DEF Got1, Got2, Got3, VerAt, Read
<1>5. Got1(b) /\ Len(b) < NMethods(b) + 2 =>
        ServerHandshake(b) = Out("wait", <<>>, <<>>)
  BY <1>1, <1>2 DEF Got1, Got2, Got3, VerAt, Read
<1>6. Got1(b) /\ Len(b) >= NMethods(b) + 2 /\ ~Offered(b) =>
        ServerHandshake(b) = Out("err", << <<5, 255>> >>, <<>>)
  BY <1>1, <1>2 DEF Got1, Got2, Got3, VerAt, Read
<1>7. Got2(b) /\ Len(b) < VerAt(b) =>
        ServerHandshake(b) = Out("wait", Chosen, <<>>)
  BY <1>1, <1>2 DEF Got1, Got2, Got3, VerAt, Read
<1>8. Got2(b) /\ Len(b) >= VerAt(b) /\ b[VerAt(b)] # 1 =>
        ServerHandshake(b) = Out("err", Chosen, <<>>)
  BY <1>1, <1>2 DEF Got1, Got2, Got3, VerAt, Read
<1>9. Got3(b) /\ Len(b) = VerAt(b) =>
        ServerHandshake(b) = Out("wait", Chosen, <<>>)
  BY <1>1, <1>2 DEF Got1, Got2, Got3, VerAt, Read
<1>10. Got3(b) /\ ULen(b) \in Nat /\ PLen(b) \in Nat /\ Len(b) >= ReqAt(b) - 1 /\ ~Known(b) =>
        ServerHandshake(b) = Out("err", Append(Chosen, <<1, 1>>), <<>>)
  BY <1>1, <1>21
<1>11. Got4(b) /\ Len(b) < ReqAt(b) + 3 =>
        ServerHandshake(b) = Out("wait", Admitted, <<>>)
  BY <1>1, <1>2, <1>20, <1>22 DEF Got5, Got6, Asked
<1>12. Got4(b) /\ Len(b) >= ReqAt(b) + 3 /\ b[ReqAt(b)] # 5 =>
        ServerHandshake(b) = Out("err", Admitted, <<>>)
  BY <1>1, <1>2, <1>20, <1>22 DEF Got5, Got6, Asked
<1>13. Got4(b) /\ Len(b) >= ReqAt(b) + 3 /\ b[ReqAt(b)] = 5 /\ b[ReqAt(b) + 1] # 1 =>
        ServerHandshake(b) = Out("err", Append(Admitted, <<5, 7>>), <<>>)
  BY <1>1, <1>2, <1>20, <1>22 DEF Got5, Got6, Asked
<1>14. Got4(b) /\ Len(b) >= ReqAt(b) + 3 /\ b[ReqAt(b)] = 5 /\ b[ReqAt(b) + 1] = 1 /\ AType(b) \notin {1, 3, 4} =>
        ServerHandshake(b) = Out("err", Append(Admitted, <<5, 8>>), <<>>)
  BY <1>1, <1>2, <1>20, <1>22 DEF Got5, Got6, Asked
<1>15. Got5(b) /\ Len(b) = ReqAt(b) + 3 =>
        ServerHandshake(b) = Out("wait", Admitted, <<>>)
  BY <1>1, <1>2, <1>20, <1>22 DEF Got5, Got6, Asked
<1>16. Got5(b) /\ HostTo(b) >= ReqAt(b) + 4 /\ HostTo(b) \in Nat /\ Len(b) >= HostTo(b) /\ AType(b) = 3 /\ ~Utf8(HostIn(b)) =>
        ServerHandshake(b) = Out("err", Admitted, <<>>)
  BY <1>1, <1>2, <1>20, <1>22 DEF Got5, Got6, Asked
<1>17. Got6(b) /\ Len(b) < HostTo(b) + 2 =>
        ServerHandshake(b) = Out("wait", Admitted, <<>>)
  BY <1>1, <1>2, <1>20, <1>22 DEF Got5, Got6, Asked
<1>18. Got6(b) /\ Len(b) >= HostTo(b) + 2 =>
        ServerHandshake(b) = Out("ok", Admitted, <<AType(b), HostIn(b), PortIn(b)>>)
  BY <1>1, <1>2, <1>20, <1>22 DEF Got5, Got6, Asked
<1> QED
  BY <1>3, <1>4, <1>5, <1>6, <1>7, <1>8, <1>9, <1>10, <1>11, <1>12, <1>13, <1>14, <1>15, <1>16, <1>17, <1>18
\* A piece of what was read before.
LEMMA OldPiece ==
  ASSUME NEW s \in Bytes, NEW t \in Bytes, NEW m \in Nat \ {0}, NEW n \in Nat, m <= n + 1, n <= Len(s)
  PROVE  SubSeq(s \o t, m, n) = SubSeq(s, m, n)
<1>1. Len(s) \in Nat /\ Len(t) \in Nat
  BY DEF Bytes
<1>2. s \o t \in Bytes /\ Len(s \o t) = Len(s) + Len(t) /\ \A i \in 1..Len(s) : (s \o t)[i] = s[i]
  BY Joined2
<1> DEFINE st == s \o t
<1> HIDE DEF st
<1>3. st \in Bytes /\ n <= Len(st) /\ \A i \in 1..Len(s) : st[i] = s[i]
  BY <1>1, <1>2 DEF st
<1>4. /\ SubSeq(st, m, n) \in Bytes /\ Len(SubSeq(st, m, n)) = n - m + 1
      /\ \A i \in 1..(n - m + 1) : SubSeq(st, m, n)[i] = st[m + i - 1]
  BY <1>3, Piece
<1>5. /\ SubSeq(s, m, n) \in Bytes /\ Len(SubSeq(s, m, n)) = n - m + 1
      /\ \A i \in 1..(n - m + 1) : SubSeq(s, m, n)[i] = s[m + i - 1]
  BY Piece
<1>6. \A i \in 1..(n - m + 1) : SubSeq(st, m, n)[i] = SubSeq(s, m, n)[i]
  BY <1>1, <1>3, <1>4, <1>5
<1>7. SubSeq(st, m, n) = SubSeq(s, m, n)
  BY <1>4, <1>5, <1>6, SameBytes
<1> QED
  BY <1>7 DEF st

\* A piece of what was just read.
LEMMA NewPiece ==
  ASSUME NEW s \in Bytes, NEW t \in Bytes, NEW m \in Nat \ {0}, NEW n \in Nat, m <= n + 1, n <= Len(t)
  PROVE  SubSeq(s \o t, Len(s) + m, Len(s) + n) = SubSeq(t, m, n)
<1>1. Len(s) \in Nat /\ Len(t) \in Nat
  BY DEF Bytes
<1>2. s \o t \in Bytes /\ Len(s \o t) = Len(s) + Len(t) /\ \A i \in 1..Len(t) : (s \o t)[Len(s) + i] = t[i]
  BY Joined2
<1> DEFINE st == s \o t
           a == Len(s) + m
           z == Len(s) + n
<1>3. /\ st \in Bytes /\ z <= Len(st) /\ \A i \in 1..Len(t) : st[Len(s) + i] = t[i]
      /\ a \in Nat \ {0} /\ z \in Nat /\ a <= z + 1 /\ z - a + 1 = n - m + 1
      /\ \A i \in 1..(n - m + 1) : a + i - 1 = Len(s) + (m + i - 1) /\ m + i - 1 \in 1..Len(t)
  BY <1>1, <1>2
<1> HIDE DEF st, a, z
<1>4. /\ SubSeq(st, a, z) \in Bytes /\ Len(SubSeq(st, a, z)) = z - a + 1
      /\ \A i \in 1..(z - a + 1) : SubSeq(st, a, z)[i] = st[a + i - 1]
  BY <1>3, Piece
<1>5. /\ SubSeq(t, m, n) \in Bytes /\ Len(SubSeq(t, m, n)) = n - m + 1
      /\ \A i \in 1..(n - m + 1) : SubSeq(t, m, n)[i] = t[m + i - 1]
  BY Piece
<1>6. \A i \in 1..(n - m + 1) : SubSeq(st, a, z)[i] = SubSeq(t, m, n)[i]
  <2> TAKE i \in 1..(n - m + 1)
  <2>1. SubSeq(st, a, z)[i] = st[a + i - 1]
    BY <1>3, <1>4
  <2>2. st[a + i - 1] = t[m + i - 1]
    BY <1>3
  <2> QED
    BY <2>1, <2>2, <1>5
<1>7. SubSeq(st, a, z) = SubSeq(t, m, n)
  BY <1>3, <1>4, <1>5, <1>6, SameBytes
<1> QED
  BY <1>7 DEF st, a, z

\* Any byte of a sequence.
LEMMA AnyByte ==
  ASSUME NEW s \in Bytes, NEW i \in 1..Len(s)
  PROVE  s[i] \in Nat
BY ElementOfSeq DEF Bytes

\* What the bytes so far say does not change when more are read.
LEMMA Kept ==
  ASSUME NEW b \in Bytes, NEW t \in Bytes, NEW c, c = b \o t
  PROVE  /\ Got1(b) => Got1(c) /\ NMethods(c) = NMethods(b)
         /\ Got2(b) => Got2(c)
         /\ Got3(b) => Got3(c)
         /\ Got4(b) => Got4(c) /\ ULen(c) = ULen(b) /\ PLen(c) = PLen(b) /\ ReqAt(c) = ReqAt(b)
         /\ Got5(b) => Got5(c) /\ AType(c) = AType(b)
         /\ Got6(b) => Got6(c) /\ HostTo(c) = HostTo(b) /\ HostIn(c) = HostIn(b)
<1>1. Len(b) \in Nat /\ Len(t) \in Nat
  BY DEF Bytes
<1>2. c \in Bytes /\ Len(c) = Len(b) + Len(t) /\ \A i \in 1..Len(b) : c[i] = b[i]
  BY Joined2
<1>3. \A m \in Nat \ {0}, n \in Nat : m <= n + 1 /\ n <= Len(b) => SubSeq(c, m, n) = SubSeq(b, m, n)
  BY OldPiece
<1>4. Got1(b) => Got1(c) /\ NMethods(c) = NMethods(b)
  BY <1>1, <1>2 DEF Got1, NMethods
<1>5. Got2(b) => Got2(c)
  <2> SUFFICES ASSUME Got2(b) PROVE Got2(c)
    OBVIOUS
  <2>1. SubSeq(c, 3, NMethods(b) + 2) = SubSeq(b, 3, NMethods(b) + 2)
    BY <1>3 DEF Got2, Got1
  <2>2. Got1(c) /\ NMethods(c) = NMethods(b) /\ NMethods(b) \in Nat
    BY <1>4 DEF Got2, Got1
  <2>3. Offered(c)
    BY <2>1, <2>2 DEF Got2, Offered
  <2>4. Len(c) >= NMethods(c) + 2
    BY <1>1, <1>2, <2>2 DEF Got2
  <2> QED
    BY <2>2, <2>3, <2>4 DEF Got2
<1>6. Got3(b) => Got3(c) /\ VerAt(c) = VerAt(b) /\ VerAt(b) \in Nat \ {0}
  BY <1>1, <1>2, <1>4, <1>5 DEF Got3, Got2, Got1, VerAt
<1>7. Got4(b) => Got4(c) /\ ULen(c) = ULen(b) /\ PLen(c) = PLen(b) /\ ReqAt(c) = ReqAt(b) /\ ReqAt(b) \in Nat \ {0}
  <2> SUFFICES ASSUME Got4(b)
               PROVE  Got4(c) /\ ULen(c) = ULen(b) /\ PLen(c) = PLen(b) /\ ReqAt(c) = ReqAt(b) /\ ReqAt(b) \in Nat \ {0}
    OBVIOUS
  <2> DEFINE v == VerAt(b)
             u == ULen(b)
             p == PLen(b)
  <2>1. v \in Nat \ {0} /\ VerAt(c) = v /\ u \in Nat /\ p \in Nat /\ ReqAt(b) = v + u + p + 3
        /\ Len(b) >= v + u + p + 2
    BY <1>6 DEF Got4, ReqAt
  <2> HIDE DEF v, u, p
  <2>2. c[v + 1] = b[v + 1] /\ c[v + u + 2] = b[v + u + 2]
    BY <1>1, <1>2, <2>1
  <2>3. ULen(c) = u
    BY <2>1, <2>2 DEF ULen, v, u
  <2>4. PLen(c) = p
    BY <2>1, <2>2, <2>3 DEF PLen, v, u, p
  <2>5. ReqAt(c) = ReqAt(b)
    BY <2>1, <2>3, <2>4 DEF ReqAt
  <2>6. SubSeq(c, v + 2, v + u + 1) = SubSeq(b, v + 2, v + u + 1)
    <3> v + 2 \in Nat \ {0} /\ v + u + 1 \in Nat /\ v + 2 <= v + u + 1 + 1 /\ v + u + 1 <= Len(b)
      BY <1>1, <2>1
    <3> QED
      BY <1>3
  <2>7. SubSeq(c, v + u + 3, v + u + p + 2) = SubSeq(b, v + u + 3, v + u + p + 2)
    <3> v + u + 3 \in Nat \ {0} /\ v + u + p + 2 \in Nat /\ v + u + 3 <= v + u + p + 2 + 1 /\ v + u + p + 2 <= Len(b)
      BY <1>1, <2>1
    <3> QED
      BY <1>3
  <2>8. Known(c)
    BY <2>1, <2>3, <2>4, <2>6, <2>7 DEF Known, Got4, v, u, p
  <2>9. Len(c) >= ReqAt(c) - 1
    BY <1>1, <1>2, <2>1, <2>5
  <2> QED
    BY <1>6, <2>1, <2>3, <2>4, <2>5, <2>8, <2>9 DEF Got4, u, p
<1>8. Got5(b) => Got5(c) /\ AType(c) = AType(b)
  BY <1>1, <1>2, <1>7 DEF Got5, AType
<1>9. Got6(b) => Got6(c) /\ HostTo(c) = HostTo(b) /\ HostIn(c) = HostIn(b)
  <2> SUFFICES ASSUME Got6(b) PROVE Got6(c) /\ HostTo(c) = HostTo(b) /\ HostIn(c) = HostIn(b)
    OBVIOUS
  <2>1. Got5(b) /\ Got5(c) /\ AType(c) = AType(b) /\ ReqAt(c) = ReqAt(b) /\ ReqAt(b) \in Nat \ {0}
    BY <1>7, <1>8 DEF Got6, Got5
  <2>2. HostTo(b) \in Nat /\ HostTo(b) >= ReqAt(b) + 4 /\ HostTo(b) <= Len(b)
    BY <1>1 DEF Got6
  <2>3. c[ReqAt(b) + 4] = b[ReqAt(b) + 4]
    BY <1>1, <1>2, <2>1, <2>2
  <2>4. HostTo(c) = HostTo(b) /\ HostFrom(c) = HostFrom(b)
    BY <2>1, <2>3 DEF HostTo, HostFrom
  <2>5. HostFrom(b) \in Nat \ {0} /\ HostFrom(b) <= HostTo(b) + 1
    BY <2>1, <2>2 DEF HostFrom
  <2>6. HostIn(c) = HostIn(b)
    BY <1>3, <2>2, <2>4, <2>5 DEF HostIn
  <2> QED
    BY <1>1, <1>2, <2>1, <2>2, <2>4, <2>6 DEF Got6
<1> QED
  BY <1>4, <1>5, <1>6, <1>7, <1>8, <1>9
\* What handle() knows at each of its reads: how far the bytes it has read are a
\* good handshake, that it has read not one byte more, and what it has written.
ParseInv ==
  /\ sp = "hdr" => seen = <<>> /\ wrote = <<>>
  /\ sp = "methods" => Got1(seen) /\ Len(seen) = 2 /\ local = NMethods(seen) /\ wrote = <<>>
  /\ sp = "av" => Got2(seen) /\ Len(seen) = NMethods(seen) + 2 /\ wrote = Chosen
  /\ sp = "cred" => Got3(seen) /\ Len(seen) = VerAt(seen) /\ wrote = Chosen
  /\ sp = "req" => Got4(seen) /\ Len(seen) = ReqAt(seen) - 1 /\ wrote = Admitted
  /\ sp = "addr" => Got5(seen) /\ Len(seen) = ReqAt(seen) + 3 /\ local = AType(seen) /\ wrote = Admitted
  /\ sp = "port" => /\ Got6(seen) /\ Len(seen) = HostTo(seen) /\ wrote = Admitted
                    /\ target = <<AType(seen), HostIn(seen)>>
  /\ sp \in {"dial", "pump"} => /\ Got6(seen) /\ Len(seen) = HostTo(seen) + 2
                                /\ target = <<AType(seen), HostIn(seen), PortIn(seen)>>
                                /\ wrote = (IF sp = "dial" THEN Admitted ELSE Admitted \o Code(0))
  /\ why = "none" <=> sp # "ended"
  /\ why = "err" => \E t : ServerHandshake(seen) = Out("err", wrote, t)

\* It is what CopiesAgree says.
LEMMA ParseAgrees == TypeOK /\ ParseInv => CopiesAgree
<1> SUFFICES ASSUME TypeOK, ParseInv PROVE CopiesAgree
  OBVIOUS
<1>0. seen \in Bytes /\ Len(seen) \in Nat
  BY DEF TypeOK, Bytes
<1>1. ASSUME sp \in Handshake, Need > 0 PROVE ServerHandshake(seen) = Out("wait", wrote, <<>>)
  <2> DEFINE h == ServerHandshake(seen)
  <2>0. /\ Len(seen) < 2 => h = Out("wait", <<>>, <<>>)
        /\ Got1(seen) /\ Len(seen) < NMethods(seen) + 2 => h = Out("wait", <<>>, <<>>)
        /\ Got2(seen) /\ Len(seen) < VerAt(seen) => h = Out("wait", Chosen, <<>>)
        /\ Got3(seen) /\ Len(seen) = VerAt(seen) => h = Out("wait", Chosen, <<>>)
        /\ Got4(seen) /\ Len(seen) < ReqAt(seen) + 3 => h = Out("wait", Admitted, <<>>)
        /\ Got5(seen) /\ Len(seen) = ReqAt(seen) + 3 => h = Out("wait", Admitted, <<>>)
        /\ Got6(seen) /\ Len(seen) < HostTo(seen) + 2 => h = Out("wait", Admitted, <<>>)
    BY <1>0, Outcomes
  <2> HIDE DEF h
  <2>1. CASE sp = "hdr"
    <3>1. Len(seen) = 0 /\ wrote = <<>>
      BY <2>1 DEF ParseInv
    <3> QED
      BY <2>0, <3>1 DEF h
  <2>2. CASE sp = "methods"
    <3>1. Got1(seen) /\ Len(seen) = 2 /\ wrote = <<>>
      BY <2>2 DEF ParseInv
    <3>2. Need = local
      BY <2>2 DEF Need
    <3>3. Len(seen) < NMethods(seen) + 2
      BY <1>0, <1>1, <2>2, <3>1, <3>2 DEF Got1, ParseInv
    <3> QED
      BY <2>0, <3>1, <3>3 DEF h
  <2>3. CASE sp = "av" \/ sp = "cred"
    <3>1. \/ Got2(seen) /\ Len(seen) < VerAt(seen)
          \/ Got3(seen) /\ Len(seen) = VerAt(seen)
      BY <1>0, <2>3 DEF ParseInv, VerAt, Got1, Got2
    <3>2. wrote = Chosen
      BY <2>3 DEF ParseInv
    <3> QED
      BY <2>0, <3>1, <3>2 DEF h
  <2>4. CASE sp = "req"
    <3>1. Got4(seen) /\ Len(seen) = ReqAt(seen) - 1 /\ wrote = Admitted
      BY <2>4 DEF ParseInv
    <3>2. ReqAt(seen) \in Nat
      BY <3>1 DEF Got1, Got2, Got3, Got4, ReqAt, VerAt
    <3> QED
      BY <2>0, <3>1, <3>2 DEF h
  <2>5. CASE sp = "addr"
    BY <2>0, <2>5 DEF ParseInv, h
  <2>6. CASE sp = "port"
    <3>1. Got6(seen) /\ Len(seen) = HostTo(seen) /\ HostTo(seen) \in Nat /\ wrote = Admitted
      BY <2>6 DEF ParseInv, Got6
    <3> QED
      BY <2>0, <3>1 DEF h
  <2> QED
    BY <1>1, <2>1, <2>2, <2>3, <2>4, <2>5, <2>6 DEF Handshake, h
<1>2. ASSUME sp \in {"dial", "pump"}
      PROVE  ServerHandshake(seen) = Out("ok", Admitted, target) /\ IsPrefix(Admitted, wrote)
  <2>1. Got6(seen) /\ Len(seen) = HostTo(seen) + 2 /\ HostTo(seen) \in Nat
    BY <1>2 DEF ParseInv, Got6
  <2>2. ServerHandshake(seen) = Out("ok", Admitted, target)
    BY <1>0, <1>2, <2>1, Outcomes DEF ParseInv
  <2>3. Admitted \in Replies /\ Code(0) \in Replies
    <3>1. <<1, 0>> \in Nat \X Nat /\ Chosen \in Seq(Nat \X Nat)
      BY WrittenTyped DEF Replies, Chosen
    <3> QED
      BY <3>1, WrittenTyped, AppendProperties DEF Admitted, Replies
  <2>4. IsPrefix(Admitted, Admitted) /\ IsPrefix(Admitted, Admitted \o Code(0))
    <3> DEFINE a == Admitted
               z == Code(0)
    <3>1. a \in Seq(Nat \X Nat) /\ z \in Seq(Nat \X Nat)
      BY <2>3 DEF Replies
    <3> HIDE DEF a, z
    <3>2. Len(a) \in Nat /\ Len(a \o z) \in Nat /\ Len(a) <= Len(a \o z)
      BY <3>1, ConcatProperties
    <3>3. SubSeq(a \o z, 1, Len(a)) = a
      BY <3>1
    <3>4. SubSeq(a, 1, Len(a)) = a
      BY <3>1, SubSeqFull
    <3>5. IsPrefix(a, a) /\ IsPrefix(a, a \o z)
      BY <3>2, <3>3, <3>4 DEF IsPrefix
    <3> QED
      BY <3>5 DEF a, z
  <2> QED
    BY <1>2, <2>2, <2>4 DEF ParseInv
<1>3. ASSUME why = "err" PROVE ServerHandshake(seen).out = "err" /\ ServerHandshake(seen).wrote = wrote
  BY <1>3 DEF ParseInv, Out
<1> QED
  BY <1>1, <1>2, <1>3 DEF CopiesAgree, Out
\* What a completed read adds to the bytes read.
LEMMA ReadFacts ==
  ASSUME TypeOK, Ready, NEW c, c = seen \o Taken
  PROVE  /\ seen \in Bytes /\ Len(seen) \in Nat /\ Need \in Nat
         /\ Taken \in Bytes /\ Len(Taken) = Need
         /\ c \in Bytes /\ Len(c) = Len(seen) + Need
         /\ \A i \in 1..Need : c[Len(seen) + i] = Taken[i] /\ Taken[i] \in Nat
<1>1. seen \in Bytes /\ Len(seen) \in Nat
  BY DEF TypeOK, Bytes
<1>2. Taken \in Bytes /\ Len(Taken) = Need /\ Need \in Nat
  BY Split
<1>3. c \in Bytes /\ Len(c) = Len(seen) + Len(Taken) /\ \A i \in 1..Len(Taken) : c[Len(seen) + i] = Taken[i]
  BY <1>1, <1>2, Joined2
<1> QED
  BY <1>1, <1>2, <1>3, TakenByte

\* The bytes read after the version and the number of methods.
LEMMA HdrRead ==
  ASSUME TypeOK, ParseInv, At("hdr"), NEW c, c = seen \o Taken
  PROVE  /\ Taken[1] = 5 => Got1(c) /\ Len(c) = 2 /\ NMethods(c) = Taken[2]
         /\ Taken[1] # 5 => ServerHandshake(c) = Out("err", <<>>, <<>>)
<1>1. seen = <<>> /\ Need = 2 /\ Ready
  BY DEF At, Need, ParseInv
<1>2. c \in Bytes /\ Len(c) = 2 /\ c[1] = Taken[1] /\ c[2] = Taken[2] /\ Taken[2] \in Nat
  <2>1. Len(seen) = 0
    BY <1>1
  <2> QED
    BY <1>1, <2>1, ReadFacts
<1>3. Len(c) >= 2 /\ c[1] # 5 => ServerHandshake(c) = Out("err", <<>>, <<>>)
  BY <1>2, Outcomes
<1> QED
  BY <1>2, <1>3 DEF Got1, NMethods

\* After the methods.
LEMMA MethodsRead ==
  ASSUME TypeOK, ParseInv, At("methods"), NEW c, c = seen \o Taken
  PROVE  /\ Contains(Taken, 2) => Got2(c) /\ Len(c) = NMethods(c) + 2
         /\ ~Contains(Taken, 2) => ServerHandshake(c) = Out("err", << <<5, 255>> >>, <<>>)
<1>1. Got1(seen) /\ Len(seen) = 2 /\ local = NMethods(seen) /\ Need = local /\ Ready
  BY DEF At, Need, ParseInv
<1> DEFINE n == NMethods(seen)
<1>2. n \in Nat /\ Need = n
  BY <1>1 DEF Got1
<1>3. c \in Bytes /\ Len(c) = 2 + n /\ seen \in Bytes /\ Taken \in Bytes /\ Len(Taken) = n
  BY <1>1, <1>2, ReadFacts
<1>4. Got1(c) /\ NMethods(c) = n
  BY <1>1, <1>3, Kept
<1> HIDE DEF n
<1>5. SubSeq(c, 3, n + 2) = Taken
  <2>1. 1 <= n + 1 /\ n <= Len(Taken) /\ Len(seen) + 1 = 3 /\ Len(seen) + n = n + 2 /\ 1 \in Nat \ {0}
    BY <1>1, <1>2, <1>3
  <2>2. SubSeq(seen \o Taken, Len(seen) + 1, Len(seen) + n) = SubSeq(Taken, 1, n)
    BY <1>2, <1>3, <2>1, NewPiece
  <2>3. SubSeq(Taken, 1, Len(Taken)) = Taken
    BY <1>3, SubSeqFull DEF Bytes
  <2> QED
    BY <1>3, <2>1, <2>2, <2>3
<1>6. Offered(c) <=> Contains(Taken, 2)
  BY <1>4, <1>5 DEF Offered
<1>7. Len(c) = NMethods(c) + 2 /\ Len(c) >= NMethods(c) + 2
  BY <1>2, <1>3, <1>4
<1>8. Got1(c) /\ Len(c) >= NMethods(c) + 2 /\ ~Offered(c) =>
        ServerHandshake(c) = Out("err", << <<5, 255>> >>, <<>>)
  BY <1>3, Outcomes
<1> QED
  BY <1>4, <1>6, <1>7, <1>8 DEF Got2

\* After the version of the subnegotiation.
LEMMA AuthVersionRead ==
  ASSUME TypeOK, ParseInv, At("av"), NEW c, c = seen \o Taken
  PROVE  /\ Taken[1] = 1 => Got3(c) /\ Len(c) = VerAt(c)
         /\ Taken[1] # 1 => ServerHandshake(c) = Out("err", Chosen, <<>>)
<1>1. Got2(seen) /\ Len(seen) = NMethods(seen) + 2 /\ Need = 1 /\ Ready
  BY DEF At, Need, ParseInv
<1>2. c \in Bytes /\ Len(c) = Len(seen) + 1 /\ seen \in Bytes /\ Taken \in Bytes /\ c[Len(seen) + 1] = Taken[1]
  <2>1. 1 \in 1..Need
    BY <1>1
  <2> QED
    BY <1>1, <2>1, ReadFacts
<1>3. Got2(c) /\ NMethods(c) = NMethods(seen) /\ NMethods(seen) \in Nat
  BY <1>1, <1>2, Kept DEF Got2, Got1
<1>4. VerAt(c) = Len(seen) + 1 /\ Len(c) = VerAt(c) /\ Len(c) >= VerAt(c)
  BY <1>1, <1>2, <1>3 DEF VerAt
<1>5. Got2(c) /\ Len(c) >= VerAt(c) /\ c[VerAt(c)] # 1 => ServerHandshake(c) = Out("err", Chosen, <<>>)
  BY <1>2, Outcomes
<1> QED
  BY <1>2, <1>3, <1>4, <1>5 DEF Got3

\* After the user and the password.
LEMMA CredRead ==
  ASSUME TypeOK, ParseInv, At("cred"), NEW c, c = seen \o Taken
  PROVE  /\ GivenUser = Creds[1] /\ GivenPass = Creds[2] => Got4(c) /\ Len(c) = ReqAt(c) - 1
         /\ ~(GivenUser = Creds[1] /\ GivenPass = Creds[2]) =>
              ServerHandshake(c) = Out("err", Append(Chosen, <<1, 1>>), <<>>)
<1>1. Got3(seen) /\ Len(seen) = VerAt(seen) /\ Need = CredLen /\ Ready
  BY DEF At, Need, ParseInv
<1> DEFINE v == Len(seen)
           u == Taken[1]
           p == Taken[u + 2]
<1>2. c2s \in Bytes /\ Len(c2s) \in Nat /\ v \in Nat
  BY DEF TypeOK, Bytes
<1>3. c2s # <<>> /\ c2s[1] \in Nat /\ c2s[c2s[1] + 2] \in Nat
      /\ Need = c2s[1] + 2 + c2s[c2s[1] + 2] /\ Need <= Len(c2s)
  <2>1. Need <= Len(c2s)
    BY <1>1, <1>2, Split DEF Ready
  <2>2. ~(c2s = <<>> \/ Len(c2s) < c2s[1] + 2)
    BY <1>1, <1>2, <2>1 DEF CredLen
  <2>3. Need = c2s[1] + 2 + c2s[c2s[1] + 2]
    BY <1>1, <2>2 DEF CredLen
  <2>4. 1 \in 1..Len(c2s)
    BY <1>2, <2>2, EmptySeq DEF Bytes
  <2>5. c2s[1] \in Nat
    BY <1>2, <2>4, AnyByte
  <2>6. c2s[1] + 2 \in 1..Len(c2s)
    BY <1>2, <2>2, <2>5
  <2>7. c2s[c2s[1] + 2] \in Nat
    BY <1>2, <2>6, AnyByte
  <2> QED
    BY <2>1, <2>2, <2>3, <2>5, <2>7
<1>4. u = c2s[1] /\ p = c2s[u + 2] /\ u \in Nat /\ p \in Nat /\ Need = u + 2 + p
  <2>1. 1 \in 1..Need
    BY <1>3
  <2>2. Taken[1] = c2s[1]
    BY <1>1, <2>1, TakenByte
  <2>3. c2s[1] + 2 \in 1..Need
    BY <1>3
  <2>4. Taken[c2s[1] + 2] = c2s[c2s[1] + 2]
    BY <1>1, <2>3, TakenByte
  <2> QED
    BY <1>3, <2>2, <2>4
<1>5. /\ c \in Bytes /\ Len(c) = v + Need /\ seen \in Bytes /\ Taken \in Bytes /\ Len(Taken) = Need
      /\ \A i \in 1..Need : c[v + i] = Taken[i]
  BY <1>1, ReadFacts
<1>6. Got3(c) /\ VerAt(c) = v
  BY <1>1, <1>5, Kept DEF Got3, Got2, VerAt
<1> HIDE DEF v, u, p
<1>7. ULen(c) = u
  <2>1. 1 \in 1..Need
    BY <1>4
  <2>2. c[v + 1] = Taken[1]
    BY <1>5, <2>1
  <2> QED
    BY <1>6, <2>2 DEF ULen, u
<1>8. PLen(c) = p
  <2>1. u + 2 \in 1..Need
    BY <1>4
  <2>2. c[v + (u + 2)] = Taken[u + 2]
    BY <1>5, <2>1
  <2>3. v + (u + 2) = v + u + 2
    BY <1>2, <1>4 DEF v
  <2> QED
    BY <1>6, <1>7, <2>2, <2>3 DEF PLen, p
<1>9. Len(c) = ReqAt(c) - 1 /\ Len(c) >= ReqAt(c) - 1
  <2>1. ReqAt(c) = v + u + p + 3
    BY <1>6, <1>7, <1>8 DEF ReqAt
  <2>2. Len(c) = v + (u + 2 + p)
    BY <1>4, <1>5
  <2> QED
    <3>1. u \in Nat /\ p \in Nat /\ v \in Nat
      BY <1>2, <1>4
    <3> QED
      BY <2>1, <2>2, <3>1
<1>10. SubSeq(c, v + 2, v + u + 1) = GivenUser
  <2>1. 2 \in Nat \ {0} /\ u + 1 \in Nat /\ 2 <= u + 1 + 1 /\ u + 1 <= Len(Taken) /\ v + u + 1 = v + (u + 1)
    <3>1. Len(Taken) = u + 2 + p /\ Need = u + 2 + p
      BY <1>4, <1>5
    <3>2. u \in Nat /\ p \in Nat /\ v \in Nat
      BY <1>2, <1>4
    <3> QED
      BY <3>1, <3>2
  <2>2. SubSeq(seen \o Taken, Len(seen) + 2, Len(seen) + (u + 1)) = SubSeq(Taken, 2, u + 1)
    BY <1>5, <2>1, NewPiece
  <2> QED
    BY <2>1, <2>2 DEF GivenUser, u, v
<1>11. SubSeq(c, v + u + 3, v + u + p + 2) = GivenPass
  <2>1. u + 3 \in Nat \ {0} /\ Need \in Nat /\ u + 3 <= Need + 1 /\ Need <= Len(Taken)
        /\ v + u + 3 = v + (u + 3) /\ v + u + p + 2 = v + Need
    <3>1. Len(Taken) = u + 2 + p /\ Need = u + 2 + p
      BY <1>4, <1>5
    <3>2. u \in Nat /\ p \in Nat /\ v \in Nat
      BY <1>2, <1>4
    <3> QED
      BY <3>1, <3>2
  <2>2. SubSeq(seen \o Taken, Len(seen) + (u + 3), Len(seen) + Need) = SubSeq(Taken, u + 3, Need)
    BY <1>5, <2>1, NewPiece
  <2> QED
    BY <1>5, <2>1, <2>2 DEF GivenPass, u, v
<1>12. Known(c) <=> GivenUser = Creds[1] /\ GivenPass = Creds[2]
  BY <1>6, <1>7, <1>8, <1>10, <1>11 DEF Known
<1>13. Got3(c) /\ ULen(c) \in Nat /\ PLen(c) \in Nat /\ Len(c) >= ReqAt(c) - 1 /\ ~Known(c) =>
         ServerHandshake(c) = Out("err", Append(Chosen, <<1, 1>>), <<>>)
  BY <1>5, Outcomes
<1> QED
  BY <1>4, <1>6, <1>7, <1>8, <1>9, <1>12, <1>13 DEF Got4
\* After the head of the request.
LEMMA RequestRead ==
  ASSUME TypeOK, ParseInv, At("req"), NEW c, c = seen \o Taken
  PROVE  /\ Taken[1] = 5 /\ Taken[2] = 1 /\ Taken[4] \in {1, 3, 4} =>
              Got5(c) /\ Len(c) = ReqAt(c) + 3 /\ AType(c) = Taken[4]
         /\ Taken[1] # 5 => ServerHandshake(c) = Out("err", Admitted, <<>>)
         /\ Taken[1] = 5 /\ Taken[2] # 1 => ServerHandshake(c) = Out("err", Append(Admitted, <<5, 7>>), <<>>)
         /\ Taken[1] = 5 /\ Taken[2] = 1 /\ Taken[4] \notin {1, 3, 4} =>
              ServerHandshake(c) = Out("err", Append(Admitted, <<5, 8>>), <<>>)
<1>1. Got4(seen) /\ Len(seen) = ReqAt(seen) - 1 /\ Need = 4 /\ Ready
  BY DEF At, Need, ParseInv
<1>2. /\ c \in Bytes /\ Len(c) = Len(seen) + 4 /\ seen \in Bytes /\ Taken \in Bytes /\ Len(seen) \in Nat
      /\ \A i \in 1..4 : c[Len(seen) + i] = Taken[i]
  BY <1>1, ReadFacts
<1>3. Got4(c) /\ ReqAt(c) = ReqAt(seen) /\ ReqAt(seen) \in Nat
  <2>1. ReqAt(seen) \in Nat
    BY <1>1 DEF Got1, Got2, Got3, Got4, ReqAt, VerAt
  <2> QED
    BY <1>1, <1>2, <2>1, Kept
<1> DEFINE q == ReqAt(c)
<1>4. q \in Nat /\ Len(seen) + 1 = q /\ Len(seen) + 2 = q + 1 /\ Len(seen) + 4 = q + 3
  <2>1. q \in Nat /\ Len(seen) = q - 1
    BY <1>1, <1>3
  <2> HIDE DEF q
  <2> QED
    BY <2>1
<1> HIDE DEF q
<1>5. c[q] = Taken[1] /\ c[q + 1] = Taken[2] /\ c[q + 3] = Taken[4]
  <2>1. 1 \in 1..4 /\ 2 \in 1..4 /\ 4 \in 1..4
    OBVIOUS
  <2>2. c[Len(seen) + 1] = Taken[1] /\ c[Len(seen) + 2] = Taken[2] /\ c[Len(seen) + 4] = Taken[4]
    BY <1>2, <2>1
  <2> QED
    BY <1>4, <2>2
<1>6. c[ReqAt(c)] = Taken[1] /\ c[ReqAt(c) + 1] = Taken[2] /\ AType(c) = Taken[4]
      /\ Len(c) = ReqAt(c) + 3 /\ Len(c) >= ReqAt(c) + 3
  BY <1>2, <1>4, <1>5 DEF q, AType
<1>7. /\ Got4(c) /\ Len(c) >= ReqAt(c) + 3 /\ c[ReqAt(c)] # 5 =>
           ServerHandshake(c) = Out("err", Admitted, <<>>)
      /\ Got4(c) /\ Len(c) >= ReqAt(c) + 3 /\ c[ReqAt(c)] = 5 /\ c[ReqAt(c) + 1] # 1 =>
           ServerHandshake(c) = Out("err", Append(Admitted, <<5, 7>>), <<>>)
      /\ Got4(c) /\ Len(c) >= ReqAt(c) + 3 /\ c[ReqAt(c)] = 5 /\ c[ReqAt(c) + 1] = 1 /\ AType(c) \notin {1, 3, 4} =>
           ServerHandshake(c) = Out("err", Append(Admitted, <<5, 8>>), <<>>)
  BY <1>2, Outcomes
<1> QED
  BY <1>3, <1>6, <1>7 DEF Got5

\* After the address.
LEMMA AddressRead ==
  ASSUME TypeOK, ParseInv, At("addr"), NEW c, c = seen \o Taken
  PROVE  /\ local = AType(c)
         /\ ~(local = 3 /\ ~Utf8(Host(local, Taken))) =>
              Got6(c) /\ Len(c) = HostTo(c) /\ Host(local, Taken) = HostIn(c)
         /\ local = 3 /\ ~Utf8(Host(local, Taken)) => ServerHandshake(c) = Out("err", Admitted, <<>>)
<1>1. Got5(seen) /\ Len(seen) = ReqAt(seen) + 3 /\ local = AType(seen) /\ sp = "addr" /\ Ready
  BY DEF At, ParseInv
<1>2. /\ c \in Bytes /\ Len(c) = Len(seen) + Need /\ seen \in Bytes /\ Taken \in Bytes /\ Len(seen) \in Nat
      /\ Len(Taken) = Need /\ Need \in Nat
      /\ \A i \in 1..Need : c[Len(seen) + i] = Taken[i] /\ Taken[i] \in Nat
  BY <1>1, ReadFacts
<1>3. Got5(c) /\ AType(c) = local /\ ReqAt(c) = ReqAt(seen) /\ ReqAt(seen) \in Nat /\ local \in {1, 3, 4}
  <2>1. Got4(seen) /\ local \in {1, 3, 4}
    BY <1>1 DEF Got5
  <2>2. ReqAt(seen) \in Nat
    BY <2>1 DEF Got1, Got2, Got3, Got4, ReqAt, VerAt
  <2>3. ReqAt(c) = ReqAt(seen)
    BY <1>2, <2>1, Kept
  <2>4. Got5(c) /\ AType(c) = AType(seen)
    BY <1>1, <1>2, Kept
  <2> QED
    BY <1>1, <2>1, <2>2, <2>3, <2>4
<1> DEFINE q == ReqAt(c)
<1>4. q \in Nat /\ Len(seen) = q + 3
  BY <1>1, <1>3
<1> HIDE DEF q
<1>5. CASE local # 3
  <2>1. HostFrom(c) = q + 4 /\ HostTo(c) = q + 3 + Need /\ Need \in {4, 16}
    BY <1>1, <1>3, <1>4, <1>5 DEF HostFrom, HostTo, Need, q
  <2>2. HostTo(c) \in Nat /\ HostTo(c) >= q + 4 /\ Len(c) = HostTo(c) /\ Len(c) >= HostTo(c)
    BY <1>2, <1>4, <2>1
  <2>3. HostIn(c) = Taken
    <3>1. 1 \in Nat \ {0} /\ 1 <= Need + 1 /\ Need <= Len(Taken) /\ q + 4 = Len(seen) + 1
          /\ q + 3 + Need = Len(seen) + Need
      BY <1>2, <1>4
    <3>2. SubSeq(seen \o Taken, Len(seen) + 1, Len(seen) + Need) = SubSeq(Taken, 1, Need)
      BY <1>2, <3>1, NewPiece
    <3>3. SubSeq(Taken, 1, Need) = Taken
      BY <1>2, SubSeqFull DEF Bytes
    <3> QED
      BY <2>1, <3>1, <3>2, <3>3 DEF HostIn
  <2> QED
    BY <1>3, <1>5, <2>2, <2>3 DEF Got6, Host, q
<1>6. CASE local = 3
  <2>1. c2s # <<>> /\ Need = 1 + c2s[1] /\ c2s[1] \in Nat
    <3>0. c2s \in Bytes /\ Len(c2s) \in Nat
      BY DEF TypeOK, Bytes
    <3>1. Need = IF c2s = <<>> THEN 1 ELSE 1 + c2s[1]
      BY <1>1, <1>6 DEF Need
    <3>2. c2s # <<>>
      BY <1>1, <3>0, <3>1 DEF Ready
    <3>3. 1 \in 1..Len(c2s)
      BY <3>0, <3>2, EmptySeq DEF Bytes
    <3> QED
      BY <3>0, <3>1, <3>2, <3>3, AnyByte
  <2> DEFINE n == Taken[1]
  <2>2. n = c2s[1] /\ n \in Nat /\ Need = 1 + n
    <3>1. 1 \in 1..Need
      BY <2>1
    <3> QED
      BY <1>1, <2>1, <3>1, TakenByte
  <2>3. c[Len(seen) + 1] = n
    <3>1. 1 \in 1..Need
      BY <2>1
    <3> QED
      BY <1>2, <3>1
  <2> HIDE DEF n
  <2>4. HostFrom(c) = q + 5 /\ HostTo(c) = q + 4 + n
    <3>1. Len(seen) + 1 = q + 4
      BY <1>4
    <3> QED
      <4>1. AType(c) = 3 /\ c[ReqAt(c) + 4] = n
        BY <1>3, <1>6, <2>3, <3>1 DEF q
      <4> QED
        BY <4>1 DEF HostFrom, HostTo, q
  <2>5. HostTo(c) \in Nat /\ HostTo(c) >= q + 4 /\ Len(c) = HostTo(c) /\ Len(c) >= HostTo(c)
    <3>1. Len(c) = (q + 3) + (1 + n)
      BY <1>2, <1>4, <2>2
    <3>2. n \in Nat /\ q \in Nat
      BY <1>4, <2>2
    <3> QED
      BY <2>4, <3>1, <3>2
  <2>6. HostIn(c) = Tail(Taken)
    <3>1. 2 \in Nat \ {0} /\ 2 <= Need + 1 /\ Need <= Len(Taken) /\ q + 5 = Len(seen) + 2
          /\ q + 4 + n = Len(seen) + Need
      <4>1. n \in Nat /\ q \in Nat /\ Need = 1 + n /\ Len(seen) = q + 3
        BY <1>4, <2>2
      <4>2. Need <= Len(Taken)
        BY <1>2
      <4> QED
        BY <4>1, <4>2
    <3>2. SubSeq(seen \o Taken, Len(seen) + 2, Len(seen) + Need) = SubSeq(Taken, 2, Need)
      BY <1>2, <3>1, NewPiece
    <3>3. Taken # <<>>
      BY <1>2, <2>2
    <3>4. SubSeq(Taken, 2, Need) = Tail(Taken)
      BY <1>2, <3>3, TailIsSubSeq DEF Bytes
    <3> QED
      BY <2>4, <3>1, <3>2, <3>4 DEF HostIn
  <2>7. Host(local, Taken) = HostIn(c)
    BY <1>6, <2>6 DEF Host
  <2>8. Got5(c) /\ HostTo(c) >= ReqAt(c) + 4 /\ HostTo(c) \in Nat /\ Len(c) >= HostTo(c) /\ AType(c) = 3 /\ ~Utf8(HostIn(c)) =>
          ServerHandshake(c) = Out("err", Admitted, <<>>)
    BY <1>2, Outcomes
  <2> QED
    BY <1>3, <1>6, <2>5, <2>7, <2>8 DEF Got6, q
<1> QED
  BY <1>5, <1>6

\* One more element makes a triple of a pair.
LEMMA ThreeOfTwo ==
  ASSUME NEW a, NEW b, NEW c
  PROVE  Append(<<a, b>>, c) = <<a, b, c>>
<1> DEFINE S == {a, b, c}
           two == <<a, b>>
           three == <<a, b, c>>
<1>1. two \in Seq(S) /\ Len(two) = 2 /\ two[1] = a /\ two[2] = b
  OBVIOUS
<1>2. three \in Seq(S)
  OBVIOUS
<1>3. Len(three) = 3 /\ three[1] = a /\ three[2] = b /\ three[3] = c
  OBVIOUS
<1>4. c \in S
  OBVIOUS
<1> HIDE DEF two, three, S
<1>5. /\ Append(two, c) \in Seq(S) /\ Len(Append(two, c)) = 3
      /\ \A i \in 1..2 : Append(two, c)[i] = two[i]
      /\ Append(two, c)[3] = c
  <2>1. /\ Append(two, c) \in Seq(S) /\ Len(Append(two, c)) = Len(two) + 1
        /\ \A i \in 1..Len(two) : Append(two, c)[i] = two[i]
        /\ Append(two, c)[Len(two) + 1] = c
    <3>1. two \in Seq(S) /\ c \in S
      BY <1>1, <1>4
    <3> QED
      BY <3>1, AppendProperties
  <2>2. Len(two) = 2 /\ Len(two) + 1 = 3
    BY <1>1
  <2> QED
    BY <2>1, <2>2
<1>6. \A i \in 1..3 : Append(two, c)[i] = three[i]
  BY <1>1, <1>3, <1>5
<1>7. Append(two, c) = three
  BY <1>2, <1>3, <1>5, <1>6, SeqEqual
<1> QED
  BY <1>7 DEF two, three

\* After the port.
LEMMA PortRead ==
  ASSUME TypeOK, ParseInv, At("port"), NEW c, c = seen \o Taken
  PROVE  Got6(c) /\ Len(c) = HostTo(c) + 2 /\ Append(target, Taken) = <<AType(c), HostIn(c), PortIn(c)>>
<1>1. Got6(seen) /\ Len(seen) = HostTo(seen) /\ Need = 2 /\ Ready /\ target = <<AType(seen), HostIn(seen)>>
  BY DEF At, Need, ParseInv
<1>2. /\ c \in Bytes /\ Len(c) = Len(seen) + 2 /\ seen \in Bytes /\ Taken \in Bytes /\ Len(seen) \in Nat
      /\ Len(Taken) = 2
  BY <1>1, ReadFacts
<1>3. Got6(c) /\ HostTo(c) = HostTo(seen) /\ HostIn(c) = HostIn(seen) /\ AType(c) = AType(seen)
  BY <1>1, <1>2, Kept DEF Got6
<1>4. PortIn(c) = Taken
  <2>1. SubSeq(seen \o Taken, Len(seen) + 1, Len(seen) + 2) = SubSeq(Taken, 1, 2)
    BY <1>2, NewPiece
  <2>2. SubSeq(Taken, 1, 2) = Taken
    BY <1>2, SubSeqFull DEF Bytes
  <2> QED
    BY <1>1, <1>3, <2>1, <2>2 DEF PortIn
<1>5. Append(<<AType(c), HostIn(c)>>, Taken) = <<AType(c), HostIn(c), Taken>>
  BY ThreeOfTwo
<1> QED
  BY <1>1, <1>2, <1>3, <1>4, <1>5
\* handle() ended for a reason other than the handshake.
LEMMA EndsOther ==
  ASSUME NEW msgs, NEW r \in Reasons \ {"none", "err"}, End(msgs, r)
  PROVE  ParseInv'
BY DEF End, ParseInv, Reasons

\* handle() refused the handshake: so does server_handshake, with the same answer.
LEMMA EndsErr ==
  ASSUME NEW msgs, End(msgs, "err"),
         ServerHandshake(seen \o Taken) = Out("err", wrote \o msgs, <<>>)
  PROVE  ParseInv'
<1>1. sp' = "ended" /\ why' = "err" /\ seen' = seen \o Taken /\ wrote' = wrote \o msgs
  BY DEF End
<1>2. ServerHandshake(seen') = Out("err", wrote', <<>>)
  BY <1>1
<1>3. (\E t : ServerHandshake(seen) = Out("err", wrote, t))'
  BY <1>2 DEF ServerHandshake, Out
<1> QED
  BY <1>1, <1>3 DEF ParseInv

\* What Advance does, unless the client is gone.
LEMMA Advances ==
  ASSUME NEW phase, NEW l, NEW msgs, Advance(phase, l, msgs)
  PROVE  \/ ParseInv'
         \/ /\ sp' = phase /\ local' = l /\ seen' = seen \o Taken /\ wrote' = wrote \o msgs
            /\ UNCHANGED <<target, why>>
BY EndsOther DEF Advance, Reasons

\* What handle() has written, by its parts.
LEMMA WrittenBy ==
  /\ <<>> \o <<>> = <<>>
  /\ <<>> \o Chosen = Chosen /\ <<>> \o << <<5, 255>> >> = << <<5, 255>> >>
  /\ Chosen \o <<>> = Chosen /\ Admitted \o <<>> = Admitted
  /\ Chosen \o << <<1, 0>> >> = Admitted
  /\ Chosen \o << <<1, 1>> >> = Append(Chosen, <<1, 1>>)
  /\ Admitted \o << <<5, 7>> >> = Append(Admitted, <<5, 7>>)
  /\ Admitted \o << <<5, 8>> >> = Append(Admitted, <<5, 8>>)
<1> DEFINE S == Nat \X Nat
<1>1. <<5, 2>> \in S /\ <<1, 0>> \in S /\ <<1, 1>> \in S /\ <<5, 7>> \in S /\ <<5, 8>> \in S
  OBVIOUS
<1>2. Chosen \in Seq(S) /\ << <<5, 255>> >> \in Seq(S) /\ <<>> \in Seq(S)
  BY WrittenTyped DEF Replies, Chosen
<1> HIDE DEF S
<1>3. \A s \in Seq(S), e \in S : Append(s, e) = s \o <<e>> /\ Append(s, e) \in Seq(S)
  BY AppendIsConcat, AppendProperties
<1>4. \A s \in Seq(S) : s \o <<>> = s /\ <<>> \o s = s
  BY ConcatEmptySeq
<1>5. Admitted \in Seq(S)
  BY <1>1, <1>2, <1>3 DEF Admitted
<1> QED
  BY <1>1, <1>2, <1>3, <1>4, <1>5 DEF Admitted

\* Every step of handle() keeps to what server_handshake says of the bytes read.
LEMMA ParseStep == TypeOK /\ ParseInv /\ [Next]_vars => ParseInv'
<1> SUFFICES ASSUME TypeOK, ParseInv, [Next]_vars PROVE ParseInv'
  OBVIOUS
<1> DEFINE c == seen \o Taken
<1>1. CASE ReadHdr
  <2>1. wrote = <<>> /\ sp = "hdr" /\ why = "none" /\ At("hdr")
    BY <1>1 DEF ReadHdr, At, ParseInv
  <2>2. CASE Taken[1] = 5
    <3>1. Advance("methods", Taken[2], <<>>)
      BY <1>1, <2>2 DEF ReadHdr
    <3>2. Got1(c) /\ Len(c) = 2 /\ NMethods(c) = Taken[2]
      BY <2>1, <2>2, HdrRead
    <3> HIDE DEF c
    <3>3. CASE sp' = "methods" /\ local' = Taken[2] /\ seen' = c /\ wrote' = wrote \o <<>> /\ UNCHANGED <<target, why>>
      BY <2>1, <3>2, <3>3, WrittenBy DEF ParseInv
    <3> QED
      BY <3>1, <3>3, Advances DEF c
  <2>3. CASE Taken[1] # 5
    <3>1. End(<<>>, "err")
      BY <1>1, <2>3 DEF ReadHdr
    <3>2. ServerHandshake(c) = Out("err", wrote \o <<>>, <<>>)
      BY <2>1, <2>3, HdrRead, WrittenBy
    <3> QED
      BY <3>1, <3>2, EndsErr
  <2> QED
    BY <2>2, <2>3
<1>2. CASE SelectMethod
  <2>1. wrote = <<>> /\ sp = "methods" /\ why = "none" /\ At("methods")
    BY <1>2 DEF SelectMethod, At, ParseInv
  <2>2. CASE Contains(Taken, 2)
    <3>1. Advance("av", 0, << <<5, 2>> >>)
      BY <1>2, <2>2 DEF SelectMethod
    <3>2. Got2(c) /\ Len(c) = NMethods(c) + 2
      BY <2>1, <2>2, MethodsRead
    <3> HIDE DEF c
    <3>3. CASE sp' = "av" /\ local' = 0 /\ seen' = c /\ wrote' = wrote \o << <<5, 2>> >> /\ UNCHANGED <<target, why>>
      <4>1. wrote' = Chosen
        BY <2>1, <3>3, WrittenBy DEF Chosen
      <4> QED
        BY <2>1, <3>2, <3>3, <4>1 DEF ParseInv
    <3> QED
      BY <3>1, <3>3, Advances DEF c
  <2>3. CASE ~Contains(Taken, 2)
    <3>1. End(<< <<5, 255>> >>, "err")
      BY <1>2, <2>3 DEF SelectMethod
    <3>2. ServerHandshake(c) = Out("err", wrote \o << <<5, 255>> >>, <<>>)
      BY <2>1, <2>3, MethodsRead, WrittenBy
    <3> QED
      BY <3>1, <3>2, EndsErr
  <2> QED
    BY <2>2, <2>3
<1>3. CASE ReadAuthVersion
  <2>1. wrote = Chosen /\ sp = "av" /\ why = "none" /\ At("av")
    BY <1>3 DEF ReadAuthVersion, At, ParseInv
  <2>2. CASE Taken[1] = 1
    <3>1. Advance("cred", 0, <<>>)
      BY <1>3, <2>2 DEF ReadAuthVersion
    <3>2. Got3(c) /\ Len(c) = VerAt(c)
      BY <2>1, <2>2, AuthVersionRead
    <3> HIDE DEF c
    <3>3. CASE sp' = "cred" /\ local' = 0 /\ seen' = c /\ wrote' = wrote \o <<>> /\ UNCHANGED <<target, why>>
      BY <2>1, <3>2, <3>3, WrittenBy DEF ParseInv
    <3> QED
      BY <3>1, <3>3, Advances DEF c
  <2>3. CASE Taken[1] # 1
    <3>1. End(<<>>, "err")
      BY <1>3, <2>3 DEF ReadAuthVersion
    <3>2. ServerHandshake(c) = Out("err", wrote \o <<>>, <<>>)
      BY <2>1, <2>3, AuthVersionRead, WrittenBy
    <3> QED
      BY <3>1, <3>2, EndsErr
  <2> QED
    BY <2>2, <2>3
<1>4. CASE CheckCreds
  <2>1. wrote = Chosen /\ sp = "cred" /\ why = "none" /\ At("cred")
    BY <1>4 DEF CheckCreds, At, ParseInv
  <2>2. CASE GivenUser = Creds[1] /\ GivenPass = Creds[2]
    <3>1. Advance("req", 0, << <<1, 0>> >>)
      BY <1>4, <2>2 DEF CheckCreds
    <3>2. Got4(c) /\ Len(c) = ReqAt(c) - 1
      BY <2>1, <2>2, CredRead
    <3> HIDE DEF c
    <3>3. CASE sp' = "req" /\ local' = 0 /\ seen' = c /\ wrote' = wrote \o << <<1, 0>> >> /\ UNCHANGED <<target, why>>
      BY <2>1, <3>2, <3>3, WrittenBy DEF ParseInv
    <3> QED
      BY <3>1, <3>3, Advances DEF c
  <2>3. CASE ~(GivenUser = Creds[1] /\ GivenPass = Creds[2])
    <3>1. End(<< <<1, 1>> >>, "err")
      BY <1>4, <2>3 DEF CheckCreds
    <3>2. ServerHandshake(c) = Out("err", wrote \o << <<1, 1>> >>, <<>>)
      BY <2>1, <2>3, CredRead, WrittenBy
    <3> QED
      BY <3>1, <3>2, EndsErr
  <2> QED
    BY <2>2, <2>3
<1>5. CASE ReadRequest
  <2>1. wrote = Admitted /\ sp = "req" /\ why = "none" /\ At("req")
    BY <1>5 DEF ReadRequest, At, ParseInv
  <2>2. CASE Taken[1] = 5 /\ Taken[2] = 1 /\ Taken[4] \in {1, 3, 4}
    <3>1. Advance("addr", Taken[4], <<>>)
      BY <1>5, <2>2 DEF ReadRequest
    <3>2. Got5(c) /\ Len(c) = ReqAt(c) + 3 /\ AType(c) = Taken[4]
      BY <2>1, <2>2, RequestRead
    <3> HIDE DEF c
    <3>3. CASE sp' = "addr" /\ local' = Taken[4] /\ seen' = c /\ wrote' = wrote \o <<>> /\ UNCHANGED <<target, why>>
      BY <2>1, <3>2, <3>3, WrittenBy DEF ParseInv
    <3> QED
      BY <3>1, <3>3, Advances DEF c
  <2>3. CASE Taken[1] # 5
    <3>1. End(<<>>, "err")
      BY <1>5, <2>3 DEF ReadRequest
    <3>2. ServerHandshake(c) = Out("err", wrote \o <<>>, <<>>)
      BY <2>1, <2>3, RequestRead, WrittenBy
    <3> QED
      BY <3>1, <3>2, EndsErr
  <2>4. CASE Taken[1] = 5 /\ Taken[2] # 1
    <3>1. End(<< <<5, 7>> >>, "err")
      BY <1>5, <2>4 DEF ReadRequest
    <3>2. ServerHandshake(c) = Out("err", wrote \o << <<5, 7>> >>, <<>>)
      BY <2>1, <2>4, RequestRead, WrittenBy
    <3> QED
      BY <3>1, <3>2, EndsErr
  <2>5. CASE Taken[1] = 5 /\ Taken[2] = 1 /\ Taken[4] \notin {1, 3, 4}
    <3>1. End(<< <<5, 8>> >>, "err")
      BY <1>5, <2>5 DEF ReadRequest
    <3>2. ServerHandshake(c) = Out("err", wrote \o << <<5, 8>> >>, <<>>)
      BY <2>1, <2>5, RequestRead, WrittenBy
    <3> QED
      BY <3>1, <3>2, EndsErr
  <2> QED
    BY <2>2, <2>3, <2>4, <2>5
<1>6. CASE ReadAddress
  <2>1. wrote = Admitted /\ sp = "addr" /\ why = "none" /\ At("addr")
    BY <1>6 DEF ReadAddress, At, ParseInv
  <2>2. CASE ~(local = 3 /\ ~Utf8(Host(local, Taken)))
    <3>1. sp' = "port" /\ target' = <<local, Host(local, Taken)>> /\ seen' = c /\ UNCHANGED <<wrote, why>>
      BY <1>6, <2>2 DEF ReadAddress
    <3>2. Got6(c) /\ Len(c) = HostTo(c) /\ local = AType(c) /\ Host(local, Taken) = HostIn(c)
      BY <2>1, <2>2, AddressRead
    <3> HIDE DEF c
    <3> QED
      BY <2>1, <3>1, <3>2 DEF ParseInv
  <2>3. CASE local = 3 /\ ~Utf8(Host(local, Taken))
    <3>1. End(<<>>, "err")
      BY <1>6, <2>3 DEF ReadAddress
    <3>2. ServerHandshake(c) = Out("err", wrote \o <<>>, <<>>)
      BY <2>1, <2>3, AddressRead, WrittenBy
    <3> QED
      BY <3>1, <3>2, EndsErr
  <2> QED
    BY <2>2, <2>3
<1>7. CASE ReadPort
  <2>1. wrote = Admitted /\ sp = "port" /\ why = "none" /\ At("port")
    BY <1>7 DEF ReadPort, At, ParseInv
  <2>2. sp' = "dial" /\ target' = Append(target, Taken) /\ seen' = c /\ UNCHANGED <<wrote, why>>
    BY <1>7 DEF ReadPort
  <2>3. Got6(c) /\ Len(c) = HostTo(c) + 2 /\ Append(target, Taken) = <<AType(c), HostIn(c), PortIn(c)>>
    BY <2>1, PortRead
  <2> HIDE DEF c
  <2> QED
    BY <2>1, <2>2, <2>3 DEF ParseInv
<1>8. CASE TorConnects
  <2>1. At("dial") /\ Advance("pump", 0, Code(0)) /\ sp = "dial" /\ why = "none" /\ Need = 0
    BY <1>8 DEF TorConnects, At, Need, ParseInv
  <2>2. c = seen
    <3>1. Taken \in Bytes /\ Len(Taken) = 0 /\ seen \in Bytes
      BY <2>1, Split DEF At, TypeOK
    <3>2. Taken = <<>>
      BY <3>1, EmptySeq DEF Bytes
    <3> QED
      BY <3>1, <3>2, ConcatEmptySeq DEF Bytes
  <2> HIDE DEF c
  <2>3. CASE sp' = "pump" /\ local' = 0 /\ seen' = c /\ wrote' = wrote \o Code(0) /\ UNCHANGED <<target, why>>
    BY <2>1, <2>2, <2>3 DEF ParseInv
  <2> QED
    BY <2>1, <2>3, Advances DEF c
<1>9. CASE ReadEof \/ TorRefuses \/ CancelDial \/ PumpDone \/ CancelPump
  BY <1>9, EndsOther DEF ReadEof, TorRefuses, CancelDial, PumpDone, CancelPump, Reasons
<1>10. CASE UNCHANGED <<sp, local, seen, wrote, target, why>>
  <2>1. (\E t : ServerHandshake(seen) = Out("err", wrote, t))' <=> \E t : ServerHandshake(seen) = Out("err", wrote, t)
    BY <1>10 DEF ServerHandshake, Out
  <2> QED
    BY <1>10, <2>1, SMTT(30) DEF ParseInv, Got1, Got2, Got3, Got4, Got5, Got6
<1>11. CASE Client \/ Vanish \/ Cancel \/ TorLost \/ (\E d \in Dirs : Emit(d) \/ Copy(d)) \/ UNCHANGED vars
  <2>1. UNCHANGED <<sp, local, seen, wrote, target, why>>
    BY <1>11 DEF Client, TooLong, Greet, Selected, Authenticate, Verdict, Ask, Reply, Send, Hear, Return,
                 Vanish, Cancel, TorLost, Emit, Copy, vars, server, payload
  <2> QED
    BY <2>1, <1>10
<1> QED
  BY <1>1, <1>2, <1>3, <1>4, <1>5, <1>6, <1>7, <1>8, <1>9, <1>11 DEF Next, Reads

\* handle() and the handshake that the unit tests run are the same protocol, for
\* every client, whatever bytes it sends and however they arrive
\* (arti_pipeline.rs:227-318 and 395-475).
THEOREM SameProtocol == Spec => []CopiesAgree
<1>1. Init => ParseInv
  BY DEF Init, ParseInv
<1> QED
  BY TypeCorrect, ParseStep, ParseAgrees, <1>1, PTL DEF Spec

-----------------------------------------------------------------------------
(* What the client meant and what handle() understood.                        *)

\* The lengths the client sends are those of what it sends.  A client_connect
\* that sends anything is of this kind: it has checked (lemma SpokeIsFramed).
Framed ==
  /\ Len(conf.methods) <= MaxLen
  /\ Len(conf.user) <= MaxLen /\ Len(conf.pass) <= MaxLen /\ Len(conf.host) <= MaxLen
  /\ conf.atyp = 1 => Len(conf.host) = 4
  /\ conf.atyp = 4 => Len(conf.host) = 16

Addr == IF conf.atyp = 3 THEN Sized(conf.host) ELSE conf.host
AddrLen == IF conf.atyp = 3 THEN 1 + Len(conf.host) ELSE Len(conf.host)

\* All the client sends, and how much of it has been sent.
Stream == (Greeting \o Auth) \o Request
Sent == IF cp = "greet" THEN 0
        ELSE IF cp \in {"selected", "auth"} THEN Len(Greeting)
        ELSE IF cp \in {"verdict", "request"} THEN Len(Greeting \o Auth)
        ELSE Len(Stream)

\* The client's record, by its fields.
LEMMA ClientTyped ==
  ASSUME conf \in Clients
  PROVE  /\ conf.vers[1] \in Nat /\ conf.vers[2] \in Nat /\ conf.vers[3] \in Nat
         /\ conf.methods \in Bytes /\ conf.user \in Bytes /\ conf.pass \in Bytes
         /\ conf.cmd \in Nat /\ conf.atyp \in Nat /\ conf.host \in Bytes /\ conf.port \in Nat \X Nat
         /\ conf.port = <<conf.port[1], conf.port[2]>> /\ conf.port \in Bytes /\ Len(conf.port) = 2
         /\ Len(conf.methods) \in Nat /\ Len(conf.user) \in Nat /\ Len(conf.pass) \in Nat /\ Len(conf.host) \in Nat
<1>1. conf \in ClientShape
  BY ClientsAssumption
<1>2. conf.vers \in Nat \X Nat \X Nat /\ conf.port \in Nat \X Nat
  BY <1>1 DEF ClientShape
<1>3. conf.methods \in Bytes /\ conf.user \in Bytes /\ conf.pass \in Bytes /\ conf.host \in Bytes
      /\ conf.cmd \in Nat /\ conf.atyp \in Nat
  BY <1>1 DEF ClientShape
<1>4. conf.port \in Bytes /\ Len(conf.port) = 2
  BY <1>2, PairIsBytes
<1>5. Len(conf.methods) \in Nat /\ Len(conf.user) \in Nat /\ Len(conf.pass) \in Nat /\ Len(conf.host) \in Nat
  BY <1>3 DEF Bytes
<1> QED
  BY <1>2, <1>3, <1>4, <1>5

\* A length that fits is sent as it is.
LEMMA FramedLength ==
  ASSUME NEW n \in Nat, n <= MaxLen
  PROVE  AsU8(n) = n
BY BoundsAssumption DEF AsU8

\* The bytes of the greeting.
LEMMA GreetingBytes ==
  ASSUME conf \in Clients, Len(conf.methods) <= MaxLen
  PROVE  Greeting \in Bytes /\ Len(Greeting) = Len(conf.methods) + 2 /\ Greeting[2] = Len(conf.methods)
<1> DEFINE m == Len(conf.methods)
           z == Sized(conf.methods)
           v == <<conf.vers[1]>>
<1>1. m \in Nat /\ AsU8(m) = m
  BY ClientTyped, FramedLength
<1>2. z \in Bytes /\ Len(z) = 1 + m /\ z[1] = AsU8(m)
  BY ClientTyped, SizedBytes
<1>3. v \in Bytes /\ Len(v) = 1
  BY ClientTyped, FewBytes
<1> HIDE DEF m, z, v
<1>4. v \o z \in Bytes /\ Len(v \o z) = 2 + m /\ (v \o z)[1 + 1] = z[1]
  <2>1. /\ v \o z \in Bytes /\ Len(v \o z) = Len(v) + Len(z)
        /\ \A i \in 1..Len(z) : (v \o z)[Len(v) + i] = z[i]
    BY <1>2, <1>3, Joined2
  <2>2. 1 \in 1..Len(z)
    BY <1>1, <1>2
  <2> QED
    BY <1>1, <1>2, <1>3, <2>1, <2>2
<1> QED
  BY <1>1, <1>2, <1>4 DEF Greeting, m, z, v

\* The bytes of the subnegotiation.
LEMMA AuthBytes ==
  ASSUME conf \in Clients, Len(conf.user) <= MaxLen, Len(conf.pass) <= MaxLen
  PROVE  LET u == Len(conf.user)
             p == Len(conf.pass)
         IN  /\ Auth \in Bytes /\ Len(Auth) = u + p + 3
             /\ Auth[2] = u /\ \A i \in 1..u : Auth[2 + i] = conf.user[i]
             /\ Auth[u + 3] = p /\ \A i \in 1..p : Auth[u + 3 + i] = conf.pass[i]
<1> DEFINE u == Len(conf.user)
           p == Len(conf.pass)
           zu == Sized(conf.user)
           zp == Sized(conf.pass)
           v == <<conf.vers[2]>>
           vu == v \o zu
<1>1. u \in Nat /\ AsU8(u) = u /\ p \in Nat /\ AsU8(p) = p
  BY ClientTyped, FramedLength
<1>2. zu \in Bytes /\ Len(zu) = 1 + u /\ zu[1] = AsU8(u) /\ \A i \in 1..u : zu[1 + i] = conf.user[i]
  BY ClientTyped, SizedBytes
<1>3. zp \in Bytes /\ Len(zp) = 1 + p /\ zp[1] = AsU8(p) /\ \A i \in 1..p : zp[1 + i] = conf.pass[i]
  BY ClientTyped, SizedBytes
<1>4. v \in Bytes /\ Len(v) = 1
  BY ClientTyped, FewBytes
<1>5. /\ vu \in Bytes /\ Len(vu) = Len(v) + Len(zu)
      /\ \A i \in 1..Len(zu) : vu[Len(v) + i] = zu[i]
  BY <1>2, <1>4, Joined2
<1>6. Auth = vu \o zp
  BY DEF Auth
<1> HIDE DEF u, p, zu, zp, v, vu
<1>7. /\ Auth \in Bytes /\ Len(Auth) = Len(vu) + Len(zp)
      /\ \A i \in 1..Len(vu) : Auth[i] = vu[i]
      /\ \A i \in 1..Len(zp) : Auth[Len(vu) + i] = zp[i]
  BY <1>3, <1>5, <1>6, Joined2
<1>8. Len(vu) = u + 2 /\ Len(Auth) = u + p + 3
  BY <1>1, <1>2, <1>3, <1>4, <1>5, <1>7
<1>9. \A i \in 1..(1 + u) : Auth[1 + i] = zu[i]
  BY <1>1, <1>2, <1>4, <1>5, <1>7, <1>8
<1>10. \A i \in 1..(1 + p) : Auth[u + 2 + i] = zp[i]
  BY <1>3, <1>7, <1>8
<1>11. Auth[2] = u /\ \A i \in 1..u : Auth[2 + i] = conf.user[i]
  <2>1. Auth[1 + 1] = zu[1]
    BY <1>1, <1>9, 1 \in 1..(1 + u)
  <2>2. ASSUME NEW i \in 1..u PROVE Auth[1 + (1 + i)] = zu[1 + i] /\ 1 + (1 + i) = 2 + i
    BY <1>1, <1>9
  <2> QED
    BY <1>1, <1>2, <2>1, <2>2
<1>12. Auth[u + 3] = p /\ \A i \in 1..p : Auth[u + 3 + i] = conf.pass[i]
  <2>1. Auth[u + 2 + 1] = zp[1] /\ u + 2 + 1 = u + 3
    BY <1>1, <1>10, 1 \in 1..(1 + p)
  <2>2. ASSUME NEW i \in 1..p PROVE Auth[u + 2 + (1 + i)] = zp[1 + i] /\ u + 2 + (1 + i) = u + 3 + i
    BY <1>1, <1>10
  <2> QED
    BY <1>1, <1>3, <2>1, <2>2
<1> QED
  BY <1>7, <1>8, <1>11, <1>12 DEF u, p

\* The bytes of the request.
LEMMA RequestBytes ==
  ASSUME conf \in Clients, Len(conf.host) <= MaxLen
  PROVE  /\ Request \in Bytes /\ AddrLen \in Nat /\ Len(Request) = AddrLen + 6
         /\ Request[2] = conf.cmd /\ Request[4] = conf.atyp
         /\ conf.atyp = 3 => Request[5] = Len(conf.host) /\ \A i \in 1..Len(conf.host) : Request[5 + i] = conf.host[i]
         /\ conf.atyp # 3 => \A i \in 1..Len(conf.host) : Request[4 + i] = conf.host[i]
         /\ \A i \in 1..2 : Request[AddrLen + 4 + i] = conf.port[i]
<1> DEFINE h == Len(conf.host)
           k == AddrLen
           a == Addr
           port == conf.port
           head == <<conf.vers[3], conf.cmd, 0, conf.atyp>>
           ha == head \o a
<1>1. h \in Nat /\ AsU8(h) = h /\ conf.host \in Bytes /\ port \in Bytes /\ Len(port) = 2
  BY ClientTyped, FramedLength
<1>2. /\ a \in Bytes /\ k \in Nat /\ Len(a) = k
      /\ conf.atyp = 3 => k = 1 + h /\ a[1] = h /\ \A i \in 1..h : a[1 + i] = conf.host[i]
      /\ conf.atyp # 3 => k = h /\ \A i \in 1..h : a[i] = conf.host[i]
  <2>1. CASE conf.atyp = 3
    <3>1. a = Sized(conf.host) /\ k = 1 + h
      BY <2>1 DEF Addr, AddrLen
    <3>2. /\ Sized(conf.host) \in Bytes /\ Len(Sized(conf.host)) = 1 + h /\ Sized(conf.host)[1] = AsU8(h)
          /\ \A i \in 1..h : Sized(conf.host)[1 + i] = conf.host[i]
      BY <1>1, SizedBytes
    <3> HIDE DEF a, k, h
    <3> QED
      BY <1>1, <2>1, <3>1, <3>2
  <2>2. CASE conf.atyp # 3
    BY <1>1, <2>2 DEF Addr, AddrLen
  <2> QED
    BY <2>1, <2>2
<1>3. head \in Bytes /\ Len(head) = 4 /\ head[2] = conf.cmd /\ head[4] = conf.atyp
  BY ClientTyped, FewBytes
<1>4. Request = ha \o port
  BY DEF Request, Addr
<1> HIDE DEF h, k, a, head, port
<1>5. /\ ha \in Bytes /\ Len(ha) = Len(head) + Len(a)
      /\ \A i \in 1..Len(head) : ha[i] = head[i]
      /\ \A i \in 1..Len(a) : ha[Len(head) + i] = a[i]
  BY <1>2, <1>3, Joined2
<1> HIDE DEF ha
<1>6. /\ Request \in Bytes /\ Len(Request) = Len(ha) + Len(port)
      /\ \A i \in 1..Len(ha) : Request[i] = ha[i]
      /\ \A i \in 1..Len(port) : Request[Len(ha) + i] = port[i]
  BY <1>1, <1>4, <1>5, Joined2
<1>7. Len(ha) = k + 4 /\ Len(Request) = k + 6
  BY <1>1, <1>2, <1>3, <1>5, <1>6
<1>8. \A i \in 1..4 : Request[i] = head[i]
  BY <1>2, <1>3, <1>5, <1>6, <1>7
<1>9. \A i \in 1..k : Request[4 + i] = a[i]
  BY <1>2, <1>3, <1>5, <1>6, <1>7
<1>10. Request[2] = conf.cmd /\ Request[4] = conf.atyp
  BY <1>3, <1>8
<1>11. ASSUME conf.atyp = 3 PROVE Request[5] = h /\ \A i \in 1..h : Request[5 + i] = conf.host[i]
  <2>1. k = 1 + h /\ a[1] = h /\ \A i \in 1..h : a[1 + i] = conf.host[i]
    BY <1>2, <1>11
  <2>2. Request[4 + 1] = a[1]
    BY <1>1, <1>9, <2>1
  <2>3. ASSUME NEW i \in 1..h PROVE Request[4 + (1 + i)] = a[1 + i] /\ 4 + (1 + i) = 5 + i
    BY <1>1, <1>9, <2>1
  <2> QED
    BY <2>1, <2>2, <2>3
<1>12. ASSUME conf.atyp # 3 PROVE \A i \in 1..h : Request[4 + i] = conf.host[i]
  BY <1>2, <1>9, <1>12
<1>13. \A i \in 1..2 : Request[k + 4 + i] = port[i]
  BY <1>1, <1>6, <1>7
<1> QED
  BY <1>2, <1>6, <1>7, <1>10, <1>11, <1>12, <1>13 DEF h, k, port

\* Where the stream's fields are: ReqAt of it is the q below.
LEMMA StreamBytes ==
  ASSUME conf \in Clients, Framed
  PROVE  LET m == Len(conf.methods)
             u == Len(conf.user)
             p == Len(conf.pass)
             h == Len(conf.host)
             q == m + u + p + 6
         IN  /\ Stream \in Bytes /\ Len(Stream) = q + AddrLen + 5
             /\ Len(Greeting) = m + 2 /\ Len(Greeting \o Auth) = q - 1
             /\ Stream[2] = m
             /\ Stream[m + 4] = u /\ \A i \in 1..u : Stream[m + 4 + i] = conf.user[i]
             /\ Stream[m + u + 5] = p /\ \A i \in 1..p : Stream[m + u + 5 + i] = conf.pass[i]
             /\ Stream[q + 1] = conf.cmd /\ Stream[q + 3] = conf.atyp
             /\ conf.atyp = 3 => Stream[q + 4] = h /\ \A i \in 1..h : Stream[q + 4 + i] = conf.host[i]
             /\ conf.atyp # 3 => \A i \in 1..h : Stream[q + 3 + i] = conf.host[i]
             /\ \A i \in 1..2 : Stream[q + AddrLen + 3 + i] = conf.port[i]
<1> DEFINE m == Len(conf.methods)
           u == Len(conf.user)
           p == Len(conf.pass)
           h == Len(conf.host)
           q == m + u + p + 6
           k == AddrLen
           G == Greeting
           A == Auth
           R == Request
           GA == G \o A
           S == Stream
<1>1. m \in Nat /\ u \in Nat /\ p \in Nat /\ h \in Nat
  BY ClientTyped
<1>2. G \in Bytes /\ Len(G) = m + 2 /\ G[2] = m
  BY GreetingBytes DEF Framed
<1>3. /\ A \in Bytes /\ Len(A) = u + p + 3
      /\ A[2] = u /\ \A i \in 1..u : A[2 + i] = conf.user[i]
      /\ A[u + 3] = p /\ \A i \in 1..p : A[u + 3 + i] = conf.pass[i]
  BY AuthBytes DEF Framed
<1>4. /\ R \in Bytes /\ k \in Nat /\ Len(R) = k + 6
      /\ R[2] = conf.cmd /\ R[4] = conf.atyp
      /\ conf.atyp = 3 => R[5] = h /\ \A i \in 1..h : R[5 + i] = conf.host[i]
      /\ conf.atyp # 3 => \A i \in 1..h : R[4 + i] = conf.host[i]
      /\ \A i \in 1..2 : R[k + 4 + i] = conf.port[i]
  BY RequestBytes DEF Framed
<1>5. k = IF conf.atyp = 3 THEN 1 + h ELSE h
  BY DEF AddrLen
<1>6. S = GA \o R
  BY DEF Stream
<1> HIDE DEF m, u, p, h, q, k, G, A, R, GA, S
<1>7. /\ GA \in Bytes /\ Len(GA) = Len(G) + Len(A)
      /\ \A i \in 1..Len(G) : GA[i] = G[i]
      /\ \A i \in 1..Len(A) : GA[Len(G) + i] = A[i]
  BY <1>2, <1>3, Joined2 DEF GA
<1>8. /\ S \in Bytes /\ Len(S) = Len(GA) + Len(R)
      /\ \A i \in 1..Len(GA) : S[i] = GA[i]
      /\ \A i \in 1..Len(R) : S[Len(GA) + i] = R[i]
  BY <1>4, <1>6, <1>7, Joined2
<1>9. q \in Nat /\ q = m + u + p + 6 /\ Len(GA) = q - 1 /\ Len(S) = q + k + 5
  BY <1>1, <1>2, <1>3, <1>4, <1>7, <1>8 DEF q
<1>10. S[2] = m
  BY <1>1, <1>2, <1>7, <1>8, <1>9
<1>11. \A i \in 1..(u + p + 3) : S[m + 2 + i] = A[i]
  <2> TAKE i \in 1..(u + p + 3)
  <2>1. GA[m + 2 + i] = A[i]
    BY <1>2, <1>3, <1>7
  <2>2. m + 2 + i \in 1..Len(GA)
    BY <1>1, <1>9
  <2> QED
    BY <2>1, <2>2, <1>8
<1>12. \A i \in 1..(k + 6) : S[q - 1 + i] = R[i]
  BY <1>4, <1>8, <1>9
<1>13. S[m + 4] = u /\ \A i \in 1..u : S[m + 4 + i] = conf.user[i]
  <2>1. S[m + 2 + 2] = A[2] /\ m + 2 + 2 = m + 4
    BY <1>1, <1>11
  <2>2. ASSUME NEW i \in 1..u PROVE S[m + 2 + (2 + i)] = A[2 + i] /\ m + 2 + (2 + i) = m + 4 + i
    BY <1>1, <1>11
  <2> QED
    BY <1>3, <2>1, <2>2
<1>14. S[m + u + 5] = p /\ \A i \in 1..p : S[m + u + 5 + i] = conf.pass[i]
  <2>1. S[m + 2 + (u + 3)] = A[u + 3] /\ m + 2 + (u + 3) = m + u + 5
    BY <1>1, <1>11
  <2>2. ASSUME NEW i \in 1..p PROVE S[m + 2 + (u + 3 + i)] = A[u + 3 + i] /\ m + 2 + (u + 3 + i) = m + u + 5 + i
    BY <1>1, <1>11
  <2> QED
    BY <1>3, <2>1, <2>2
<1>15. S[q + 1] = conf.cmd /\ S[q + 3] = conf.atyp
  <2>1. S[q - 1 + 2] = R[2] /\ S[q - 1 + 4] = R[4] /\ q - 1 + 2 = q + 1 /\ q - 1 + 4 = q + 3
    BY <1>4, <1>9, <1>12, SMTT(30)
  <2> QED
    BY <1>4, <2>1
<1>16. ASSUME conf.atyp = 3 PROVE S[q + 4] = h /\ \A i \in 1..h : S[q + 4 + i] = conf.host[i]
  <2>1. k = 1 + h
    BY <1>5, <1>16
  <2>2. S[q - 1 + 5] = R[5] /\ q - 1 + 5 = q + 4
    BY <1>1, <1>9, <1>12, <2>1
  <2>3. ASSUME NEW i \in 1..h PROVE S[q - 1 + (5 + i)] = R[5 + i] /\ q - 1 + (5 + i) = q + 4 + i
    BY <1>1, <1>9, <1>12, <2>1
  <2> QED
    BY <1>4, <1>16, <2>2, <2>3
<1>17. ASSUME conf.atyp # 3 PROVE \A i \in 1..h : S[q + 3 + i] = conf.host[i]
  <2>1. k = h
    BY <1>5, <1>17
  <2>2. ASSUME NEW i \in 1..h PROVE S[q - 1 + (4 + i)] = R[4 + i] /\ q - 1 + (4 + i) = q + 3 + i
    BY <1>1, <1>9, <1>12, <2>1
  <2> QED
    BY <1>4, <1>17, <2>2
<1>18. \A i \in 1..2 : S[q + k + 3 + i] = conf.port[i]
  <2> TAKE i \in 1..2
  <2>0. k \in Nat /\ q \in Nat
    BY <1>4, <1>9
  <2>1. S[q - 1 + (k + 4 + i)] = R[k + 4 + i] /\ q - 1 + (k + 4 + i) = q + k + 3 + i
    BY <1>12, <2>0
  <2> QED
    BY <1>4, <2>1
<1> QED
  BY <1>2, <1>8, <1>9, <1>10, <1>13, <1>14, <1>15, <1>16, <1>17, <1>18 DEF m, u, p, h, q, k, G, A, R, GA, S

\* The stream is the three messages, one after the other.
LEMMA StreamParts ==
  ASSUME conf \in Clients
  PROVE  /\ Stream \in Bytes /\ Len(Greeting) \in Nat /\ Len(Auth) \in Nat /\ Len(Request) \in Nat
         /\ Len(Greeting \o Auth) = Len(Greeting) + Len(Auth)
         /\ Len(Stream) = Len(Greeting \o Auth) + Len(Request)
         /\ \A i \in 1..Len(Greeting) : Stream[i] = Greeting[i]
         /\ \A i \in 1..Len(Auth) : Stream[Len(Greeting) + i] = Auth[i]
         /\ \A i \in 1..Len(Request) : Stream[Len(Greeting \o Auth) + i] = Request[i]
<1> DEFINE G == Greeting
           A == Auth
           R == Request
           GA == G \o A
           S == Stream
<1>1. G \in Bytes /\ A \in Bytes /\ R \in Bytes
  BY MessagesTyped
<1>2. S = GA \o R
  BY DEF Stream
<1> HIDE DEF G, A, R, GA, S
<1>3. Len(G) \in Nat /\ Len(A) \in Nat /\ Len(R) \in Nat
  BY <1>1 DEF Bytes
<1>4. /\ GA \in Bytes /\ Len(GA) = Len(G) + Len(A)
      /\ \A i \in 1..Len(G) : GA[i] = G[i]
      /\ \A i \in 1..Len(A) : GA[Len(G) + i] = A[i]
  BY <1>1, Joined2 DEF GA
<1>5. /\ S \in Bytes /\ Len(S) = Len(GA) + Len(R)
      /\ \A i \in 1..Len(GA) : S[i] = GA[i]
      /\ \A i \in 1..Len(R) : S[Len(GA) + i] = R[i]
  BY <1>1, <1>2, <1>4, Joined2
<1>6. \A i \in 1..Len(G) : S[i] = G[i]
  BY <1>3, <1>4, <1>5
<1>7. \A i \in 1..Len(A) : S[Len(G) + i] = A[i]
  <2> TAKE i \in 1..Len(A)
  <2>1. Len(G) + i \in 1..Len(GA)
    BY <1>3, <1>4
  <2> QED
    BY <1>4, <1>5, <2>1
<1> QED
  BY <1>3, <1>4, <1>5, <1>6, <1>7 DEF G, A, R, GA, S

\* What handle() has read and what it may read: as far as it goes, the stream,
\* and all that was sent unless the client is gone.
SoFar == seen \o c2s
Agreeing(b) == Len(b) <= Len(Stream) /\ \A i \in 1..Len(b) : b[i] = Stream[i]
StreamInv ==
  /\ sp # "ended" => Agreeing(SoFar) /\ (Len(SoFar) > 0 => Fits)
  /\ sp # "ended" /\ cp # "gone" => Len(SoFar) = Sent
  /\ cp \notin {"greet", "gone"} => Fits

\* Nothing of the client's plan changes.
LEMMA SamePlan ==
  ASSUME conf' = conf
  PROVE  /\ Stream' = Stream /\ Greeting' = Greeting /\ (Greeting \o Auth)' = Greeting \o Auth /\ (Fits' <=> Fits)
         /\ cp' = cp => Sent' = Sent
<1>1. Greeting' = Greeting /\ Auth' = Auth /\ Request' = Request
  BY DEF Greeting, Auth, Request, Sized, AsU8
<1>2. Fits' <=> Fits
  BY DEF Fits, Oversize
<1> QED
  BY <1>1, <1>2 DEF Stream, Sent

\* Three sequences of bytes, grouped either way.
LEMMA Regrouped ==
  ASSUME NEW s \in Bytes, NEW t \in Bytes, NEW u \in Bytes
  PROVE  (s \o t) \o u = s \o (t \o u)
BY ConcatAssociative DEF Bytes

\* handle() moves the border between what it has read and what it has not.
LEMMA BorderMoves ==
  ASSUME TypeOK, seen' = seen \o Taken, c2s' = Rest
  PROVE  SoFar' = SoFar
<1>1. seen \in Bytes /\ Taken \in Bytes /\ Rest \in Bytes /\ c2s = Taken \o Rest
  BY Split DEF TypeOK
<1> QED
  BY <1>1, Regrouped DEF SoFar

\* A step of handle() ends it or keeps the stream.
LEMMA HandleKeeps ==
  ASSUME TypeOK,
         Reads \/ TorConnects \/ TorRefuses \/ CancelDial \/ PumpDone \/ CancelPump
  PROVE  UNCHANGED client /\ (sp' = "ended" \/ (sp # "ended" /\ SoFar' = SoFar))
<1>1. ASSUME NEW msgs, NEW r, End(msgs, r)
      PROVE  UNCHANGED client /\ sp' = "ended"
  BY <1>1 DEF End
<1>2. ASSUME NEW phase, NEW l, NEW msgs, Advance(phase, l, msgs)
      PROVE  UNCHANGED client /\ (sp' = "ended" \/ SoFar' = SoFar)
  <2>1. UNCHANGED client /\ (sp' = "ended" \/ (seen' = seen \o Taken /\ c2s' = Rest))
    BY <1>1, <1>2 DEF Advance
  <2> QED
    BY <2>1, BorderMoves
<1>3. CASE ReadHdr
  BY <1>1, <1>2, <1>3 DEF ReadHdr, At
<1>4. CASE SelectMethod
  BY <1>1, <1>2, <1>4 DEF SelectMethod, At
<1>5. CASE ReadAuthVersion
  BY <1>1, <1>2, <1>5 DEF ReadAuthVersion, At
<1>6. CASE CheckCreds
  BY <1>1, <1>2, <1>6 DEF CheckCreds, At
<1>7. CASE ReadRequest
  BY <1>1, <1>2, <1>7 DEF ReadRequest, At
<1>8. CASE ReadAddress
  BY <1>1, <1>8, BorderMoves DEF ReadAddress, At
<1>9. CASE ReadPort
  BY <1>9, BorderMoves DEF ReadPort, At
<1>10. CASE TorConnects
  BY <1>2, <1>10 DEF TorConnects, At
<1>11. CASE ReadEof \/ TorRefuses \/ CancelDial \/ PumpDone \/ CancelPump
  BY <1>1, <1>11 DEF ReadEof, TorRefuses, CancelDial, PumpDone, CancelPump
<1> QED
  BY <1>3, <1>4, <1>5, <1>6, <1>7, <1>8, <1>9, <1>10, <1>11 DEF Reads

\* The client sends the message that comes next.
LEMMA SendsNext ==
  ASSUME TypeOK, StreamInv, NEW at, NEW msg \in Bytes, NEW next, Send(at, msg, next), Fits,
         at # "gone", next \notin {"greet", "gone"},
         Sent + Len(msg) <= Len(Stream), Sent' = Sent + Len(msg), Sent \in Nat,
         \A i \in 1..Len(msg) : Stream[Sent + i] = msg[i]
  PROVE  StreamInv'
<1>1. cp = at /\ conf' = conf /\ sp' = sp /\ seen' = seen /\ cp' = next
  BY DEF Send, server
<1>2. Stream' = Stream /\ (Fits' <=> Fits)
  BY <1>1, SamePlan
<1>3. CASE sp = "ended"
  BY <1>1, <1>2, <1>3 DEF StreamInv
<1>4. CASE sp # "ended"
  <2>1. c2s' = c2s \o msg
    BY <1>4 DEF Send
  <2>2. seen \in Bytes /\ c2s \in Bytes
    BY DEF TypeOK
  <2>3. SoFar' = SoFar \o msg
    <3>1. (seen \o c2s) \o msg = seen \o (c2s \o msg)
      BY <2>2, Regrouped
    <3> QED
      BY <1>1, <2>1, <3>1 DEF SoFar
  <2>4. SoFar \in Bytes
    BY <2>2, Joined2 DEF SoFar
  <2>5. Len(SoFar) = Sent /\ Agreeing(SoFar)
    BY <1>1, <1>4 DEF StreamInv
  <2> DEFINE s == SoFar
             n == Sent
             S == Stream
             t == s \o msg
  <2> HIDE DEF s, n, S, t
  <2>6. /\ Len(t) = Len(s) + Len(msg)
        /\ \A i \in 1..Len(s) : t[i] = s[i]
        /\ \A i \in 1..Len(msg) : t[Len(s) + i] = msg[i]
    BY <2>4, Joined2 DEF s, t
  <2>7. Len(s) = n /\ n \in Nat /\ \A i \in 1..n : s[i] = S[i]
    BY <2>5 DEF Agreeing, s, n, S
  <2>8. Len(msg) \in Nat /\ n + Len(msg) <= Len(S) /\ \A i \in 1..Len(msg) : S[n + i] = msg[i]
    BY DEF Bytes, n, S
  <2>9. Len(t) = n + Len(msg)
    BY <2>6, <2>7
  <2>10. \A i \in 1..Len(t) : t[i] = S[i]
    <3> TAKE i \in 1..Len(t)
    <3>1. CASE i <= n
      BY <2>6, <2>7, <2>8, <2>9, <3>1
    <3>2. CASE i > n
      <4>1. i - n \in 1..Len(msg) /\ n + (i - n) = i
        BY <2>7, <2>8, <2>9, <3>2
      <4>2. t[n + (i - n)] = msg[i - n] /\ S[n + (i - n)] = msg[i - n]
        BY <2>6, <2>7, <2>8, <4>1
      <4> QED
        BY <4>1, <4>2
    <3>3. i <= n \/ i > n
      BY <2>7
    <3> QED
      BY <3>1, <3>2, <3>3, Zenon
  <2>11. SoFar' = t /\ Stream' = S /\ Sent' = Len(t)
    BY <1>2, <2>3, <2>9 DEF s, t, S, n
  <2>12. Agreeing(SoFar)' /\ (Len(SoFar) = Sent)'
    BY <2>8, <2>9, <2>10, <2>11 DEF Agreeing
  <2> QED
    BY <1>1, <1>2, <2>12 DEF StreamInv
<1> QED
  BY <1>3, <1>4

LEMMA StreamStep == TypeOK /\ StreamInv /\ [Next]_vars => StreamInv'
<1> SUFFICES ASSUME TypeOK, StreamInv, [Next]_vars PROVE StreamInv'
  OBVIOUS
<1>0. conf \in Clients
  BY DEF TypeOK
<1>1. CASE Reads \/ TorConnects \/ TorRefuses \/ CancelDial \/ PumpDone \/ CancelPump
  <2>1. conf' = conf /\ cp' = cp /\ (sp' = "ended" \/ (sp # "ended" /\ SoFar' = SoFar))
    BY <1>1, HandleKeeps DEF client
  <2> QED
    BY <2>1, SamePlan DEF StreamInv, Agreeing
<1>2. CASE Greet
  <2>1. cp = "greet" /\ cp' = "selected" /\ conf' = conf /\ Send("greet", Greeting, "selected") /\ Fits
    BY <1>2 DEF Greet, Send
  <2>2. Sent = 0 /\ Sent' = Len(Greeting)
    BY <2>1, SamePlan DEF Sent
  <2> QED
    BY <1>0, <2>1, <2>2, StreamParts, MessagesTyped, SendsNext
<1>3. CASE Authenticate
  <2>1. cp = "auth" /\ cp' = "verdict" /\ conf' = conf /\ Send("auth", Auth, "verdict") /\ Fits
    BY <1>3 DEF Authenticate, Send, StreamInv
  <2>2. Sent = Len(Greeting) /\ Sent' = Len(Greeting \o Auth)
    BY <2>1, SamePlan DEF Sent
  <2> QED
    BY <1>0, <2>1, <2>2, StreamParts, MessagesTyped, SendsNext
<1>4. CASE Ask
  <2>1. cp = "request" /\ cp' = "reply" /\ conf' = conf /\ Send("request", Request, "reply") /\ Fits
    BY <1>4 DEF Ask, Send, StreamInv
  <2>2. Sent = Len(Greeting \o Auth) /\ Sent' = Len(Stream)
    BY <2>1, SamePlan DEF Sent
  <2> QED
    BY <1>0, <2>1, <2>2, StreamParts, MessagesTyped, SendsNext
<1>5. CASE TooLong \/ Selected \/ Verdict \/ Reply
  <2>1. conf' = conf /\ sp' = sp /\ SoFar' = SoFar
    BY <1>5 DEF TooLong, Selected, Verdict, Reply, Hear, Return, server, SoFar
  <2>2. \/ cp' = "gone"
        \/ cp = "selected" /\ cp' = "auth"
        \/ cp = "verdict" /\ cp' = "request"
        \/ cp = "reply" /\ cp' = "open"
    BY <1>5 DEF TooLong, Selected, Verdict, Reply, Hear, Return
  <2>3. cp' # "gone" => Sent' = Sent
    BY <2>1, <2>2, SamePlan DEF Sent
  <2> QED
    BY <2>1, <2>2, <2>3, SamePlan DEF StreamInv, Agreeing
<1>6. CASE Vanish
  <2>1. conf' = conf /\ sp' = sp /\ seen' = seen /\ cp' = "gone"
    BY <1>6 DEF Vanish, server
  <2>2. PICK k \in 0..Len(c2s) : c2s' = SubSeq(c2s, 1, k)
    BY <1>6 DEF Vanish
  <2>3. seen \in Bytes /\ c2s \in Bytes /\ Len(seen) \in Nat /\ Len(c2s) \in Nat /\ k \in Nat /\ k <= Len(c2s)
    BY DEF TypeOK, Bytes
  <2> DEFINE cut == SubSeq(c2s, 1, k)
  <2>4. cut \in Bytes /\ Len(cut) = k /\ \A i \in 1..k : cut[i] = c2s[i]
    BY <2>3, Piece
  <2> HIDE DEF cut
  <2>5. /\ Len(seen \o cut) = Len(seen) + k
        /\ \A i \in 1..Len(seen) : (seen \o cut)[i] = seen[i]
        /\ \A i \in 1..k : (seen \o cut)[Len(seen) + i] = cut[i]
    BY <2>3, <2>4, Joined2
  <2>6. /\ Len(SoFar) = Len(seen) + Len(c2s)
        /\ \A i \in 1..Len(seen) : SoFar[i] = seen[i]
        /\ \A i \in 1..Len(c2s) : SoFar[Len(seen) + i] = c2s[i]
    BY <2>3, Joined2 DEF SoFar
  <2>7. SoFar' = seen \o cut
    BY <2>1, <2>2 DEF SoFar, cut
  <2>8. \A i \in 1..Len(seen \o cut) : (seen \o cut)[i] = SoFar[i]
    <3> TAKE i \in 1..Len(seen \o cut)
    <3>1. CASE i <= Len(seen)
      BY <2>3, <2>5, <2>6, <3>1
    <3>2. CASE i > Len(seen)
      <4>1. i - Len(seen) \in 1..k /\ Len(seen) + (i - Len(seen)) = i /\ i - Len(seen) \in 1..Len(c2s)
        BY <2>3, <2>5, <3>2
      <4> QED
        BY <2>4, <2>5, <2>6, <4>1
    <3>3. i <= Len(seen) \/ i > Len(seen)
      BY <2>3
    <3> QED
      BY <3>1, <3>2, <3>3, Zenon
  <2>9. Len(SoFar') <= Len(SoFar) /\ Len(SoFar') \in Nat /\ Len(SoFar) \in Nat
    BY <2>3, <2>5, <2>6, <2>7
  <2>10. Len(Stream) \in Nat
    BY <1>0, StreamParts DEF Bytes
  <2>11. sp # "ended" => Agreeing(SoFar)'
    <3> HAVE sp # "ended"
    <3>1. Agreeing(SoFar)
      BY DEF StreamInv
    <3>2. Stream' = Stream
      BY <2>1, SamePlan
    <3> QED
      BY <2>7, <2>8, <2>9, <2>10, <3>1, <3>2 DEF Agreeing
  <2> QED
    BY <2>1, <2>9, <2>11, SamePlan DEF StreamInv
<1>7. CASE Cancel \/ TorLost \/ (\E d \in Dirs : Emit(d) \/ Copy(d)) \/ UNCHANGED vars
  <2>1. conf' = conf /\ cp' = cp /\ sp' = sp /\ SoFar' = SoFar
    BY <1>7 DEF Cancel, TorLost, Emit, Copy, vars, client, server, SoFar
  <2> QED
    BY <2>1, SamePlan DEF StreamInv, Agreeing
<1> QED
  BY <1>1, <1>2, <1>3, <1>4, <1>5, <1>6, <1>7 DEF Next, Client

LEMMA StreamStart == Init => StreamInv
<1> SUFFICES ASSUME Init PROVE StreamInv
  OBVIOUS
<1>1. SoFar = <<>> /\ cp = "greet"
  BY ConcatEmptySeq DEF Init, SoFar
<1>2. Len(SoFar) = 0 /\ Len(Stream) \in Nat
  <2>1. conf \in Clients
    BY DEF Init
  <2> QED
    BY <1>1, <2>1, StreamParts DEF Bytes
<1> QED
  BY <1>1, <1>2 DEF StreamInv, Agreeing, Sent

\* A client whose lengths are true: any that is framed, and client_connect.
Honest == conf.kind = "client_connect" \/ Framed

\* client_connect has checked its lengths before it sends.
LEMMA SpokeIsFramed ==
  ASSUME conf \in Clients, Honest, Fits
  PROVE  Framed
<1>1. CASE conf.kind = "client_connect"
  <2>1. conf.methods = <<2>> /\ conf.atyp = 3
    BY <1>1, ClientConnectAssumption
  <2>2. Len(conf.methods) <= MaxLen
    <3>1. Len(<<2>>) = 1
      OBVIOUS
    <3> QED
      BY <2>1, <3>1, BoundsAssumption
  <2>3. Len(conf.user) <= MaxLen /\ Len(conf.pass) <= MaxLen /\ Len(conf.host) <= MaxLen
    <3>1. \A s \in {conf.user, conf.pass, conf.host} : ~(Len(s) > MaxLen)
      BY <1>1 DEF Fits, Oversize
    <3> QED
      BY <3>1, ClientTyped, BoundsAssumption
  <2> QED
    BY <2>1, <2>2, <2>3 DEF Framed
<1> QED
  BY <1>1 DEF Honest

\* What has been read is the beginning of the stream.
LEMMA ReadIsStream ==
  ASSUME TypeOK, StreamInv, sp # "ended"
  PROVE  /\ Len(seen) \in Nat /\ Len(seen) <= Len(SoFar) /\ Len(SoFar) \in Nat
         /\ Len(SoFar) <= Len(Stream)
         /\ \A i \in 1..Len(seen) : seen[i] = Stream[i]
<1>1. seen \in Bytes /\ c2s \in Bytes /\ Len(seen) \in Nat /\ Len(c2s) \in Nat
  BY DEF TypeOK, Bytes
<1>2. Len(SoFar) = Len(seen) + Len(c2s) /\ \A i \in 1..Len(seen) : SoFar[i] = seen[i]
  BY <1>1, Joined2 DEF SoFar
<1>3. Len(SoFar) <= Len(Stream) /\ \A i \in 1..Len(SoFar) : SoFar[i] = Stream[i]
  BY DEF StreamInv, Agreeing
<1> QED
  BY <1>1, <1>2, <1>3

\* After good credentials the two sides agree where the request begins.
LEMMA RequestFound ==
  ASSUME TypeOK, StreamInv, sp # "ended", Framed, Got4(seen)
  PROVE  /\ VerAt(seen) = Len(conf.methods) + 3
         /\ ULen(seen) = Len(conf.user) /\ PLen(seen) = Len(conf.pass)
         /\ ReqAt(seen) = Len(conf.methods) + Len(conf.user) + Len(conf.pass) + 6
<1> DEFINE m == Len(conf.methods)
           u == Len(conf.user)
           p == Len(conf.pass)
           n == Len(seen)
           S == Stream
<1>0. conf \in Clients /\ seen \in Bytes
  BY DEF TypeOK
<1>1. m \in Nat /\ u \in Nat /\ p \in Nat
  BY <1>0, ClientTyped
<1>2. S[2] = m /\ S[m + 4] = u /\ S[m + u + 5] = p
  BY <1>0, StreamBytes
<1>3. n \in Nat /\ \A i \in 1..n : seen[i] = S[i]
  BY ReadIsStream
<1>4. n >= VerAt(seen) /\ n >= ReqAt(seen) - 1 /\ ULen(seen) \in Nat /\ PLen(seen) \in Nat /\ n >= 2
  BY DEF Got1, Got2, Got3, Got4
<1> HIDE DEF m, u, p, n, S
<1>5. NMethods(seen) = m /\ VerAt(seen) = m + 3
  <2>1. seen[2] = m
    BY <1>2, <1>3, <1>4
  <2> QED
    BY <2>1 DEF NMethods, VerAt
<1>6. ULen(seen) = u
  <2>1. ReqAt(seen) = VerAt(seen) + ULen(seen) + PLen(seen) + 3
    BY DEF ReqAt
  <2>2. m + 4 \in 1..n
    BY <1>1, <1>3, <1>4, <1>5, <2>1
  <2>3. VerAt(seen) + 1 = m + 4
    BY <1>1, <1>5
  <2> QED
    BY <1>2, <1>3, <2>2, <2>3 DEF ULen
<1>7. PLen(seen) = p
  <2>1. ReqAt(seen) = VerAt(seen) + ULen(seen) + PLen(seen) + 3
    BY DEF ReqAt
  <2>2. m + u + 5 \in 1..n
    BY <1>1, <1>3, <1>4, <1>5, <1>6, <2>1
  <2>3. VerAt(seen) + ULen(seen) + 2 = m + u + 5
    BY <1>1, <1>5, <1>6
  <2> QED
    BY <1>2, <1>3, <2>2, <2>3 DEF PLen
<1>8. ReqAt(seen) = m + u + p + 6
  BY <1>1, <1>5, <1>6, <1>7 DEF ReqAt
<1> QED
  BY <1>5, <1>6, <1>7, <1>8 DEF m, u, p

\* After a good handshake the two sides agree where each field is, and what it says.
LEMMA Understood ==
  ASSUME TypeOK, StreamInv, sp # "ended", Framed, Got6(seen)
  PROVE  /\ ReqAt(seen) = Len(conf.methods) + Len(conf.user) + Len(conf.pass) + 6
         /\ HostTo(seen) = ReqAt(seen) + AddrLen + 3
         /\ AType(seen) = conf.atyp /\ conf.cmd = 1
         /\ HostIn(seen) = conf.host
         /\ <<conf.user, conf.pass>> = Creds
<1> DEFINE m == Len(conf.methods)
           u == Len(conf.user)
           p == Len(conf.pass)
           h == Len(conf.host)
           q == m + u + p + 6
           n == Len(seen)
           S == Stream
<1>0. conf \in Clients /\ seen \in Bytes
  BY DEF TypeOK
<1>1. m \in Nat /\ u \in Nat /\ p \in Nat /\ h \in Nat /\ q \in Nat
  <2>1. m \in Nat /\ u \in Nat /\ p \in Nat /\ h \in Nat
    BY <1>0, ClientTyped
  <2> HIDE DEF m, u, p, h
  <2> QED
    BY <2>1
<1>2. /\ S[2] = m
      /\ S[m + 4] = u /\ \A i \in 1..u : S[m + 4 + i] = conf.user[i]
      /\ S[m + u + 5] = p /\ \A i \in 1..p : S[m + u + 5 + i] = conf.pass[i]
      /\ S[q + 1] = conf.cmd /\ S[q + 3] = conf.atyp
      /\ conf.atyp = 3 => S[q + 4] = h /\ \A i \in 1..h : S[q + 4 + i] = conf.host[i]
      /\ conf.atyp # 3 => \A i \in 1..h : S[q + 3 + i] = conf.host[i]
  BY <1>0, StreamBytes
<1>3. n \in Nat /\ \A i \in 1..n : seen[i] = S[i]
  BY ReadIsStream
<1>4. /\ n >= ReqAt(seen) + 3 /\ seen[ReqAt(seen) + 1] = 1 /\ AType(seen) \in {1, 3, 4}
      /\ HostTo(seen) \in Nat /\ HostTo(seen) >= ReqAt(seen) + 4 /\ n >= HostTo(seen)
      /\ n >= VerAt(seen) /\ n >= ReqAt(seen) - 1 /\ ULen(seen) \in Nat /\ PLen(seen) \in Nat
      /\ n >= 2 /\ Known(seen)
  BY DEF Got1, Got2, Got3, Got4, Got5, Got6
<1>5. conf.user \in Bytes /\ conf.pass \in Bytes /\ conf.host \in Bytes /\ conf.atyp \in Nat
  BY <1>0, ClientTyped
<1>6. AddrLen = (IF conf.atyp = 3 THEN 1 + h ELSE h) /\ (conf.atyp = 1 => h = 4) /\ (conf.atyp = 4 => h = 16)
  BY DEF AddrLen, Framed
<1> HIDE DEF m, u, p, h, q, n, S
<1>7. VerAt(seen) = m + 3 /\ ULen(seen) = u /\ PLen(seen) = p /\ ReqAt(seen) = q
  BY RequestFound DEF Got5, Got6, m, u, p, q
<1>8. AType(seen) = conf.atyp /\ conf.cmd = 1
  <2>1. q + 1 \in 1..n /\ q + 3 \in 1..n
    BY <1>1, <1>3, <1>4, <1>7
  <2>2. seen[q + 1] = S[q + 1] /\ seen[q + 3] = S[q + 3]
    BY <1>3, <2>1
  <2> QED
    BY <1>2, <1>4, <1>7, <2>2 DEF AType
<1>9. HostTo(seen) = q + AddrLen + 3 /\ HostIn(seen) = conf.host
  <2>1. CASE conf.atyp = 3
    <3>1. AddrLen = 1 + h /\ S[q + 4] = h /\ \A i \in 1..h : S[q + 4 + i] = conf.host[i]
      BY <1>2, <1>6, <2>1
    <3>2. seen[q + 4] = h
      BY <1>1, <1>3, <1>4, <1>7, <3>1
    <3>3. HostFrom(seen) = q + 5 /\ HostTo(seen) = q + 4 + h
      BY <1>7, <1>8, <2>1, <3>2 DEF HostFrom, HostTo
    <3>4. /\ q + 5 \in Nat \ {0} /\ q + 4 + h \in Nat /\ q + 5 <= (q + 4 + h) + 1 /\ q + 4 + h <= n
          /\ (q + 4 + h) - (q + 5) + 1 = h /\ \A i \in 1..h : q + 5 + i - 1 = q + 4 + i /\ q + 4 + i \in 1..n
      BY <1>1, <1>3, <1>4, <3>3
    <3> DEFINE x == SubSeq(seen, q + 5, q + 4 + h)
    <3>5. /\ x \in Bytes /\ Len(x) = (q + 4 + h) - (q + 5) + 1
          /\ \A i \in 1..((q + 4 + h) - (q + 5) + 1) : x[i] = seen[q + 5 + i - 1]
      BY <1>0, <3>4, Piece DEF n
    <3>6. HostIn(seen) = x
      BY <3>3 DEF HostIn
    <3> HIDE DEF x
    <3>7. Len(x) = h /\ \A i \in 1..h : x[i] = conf.host[i]
      BY <1>3, <3>1, <3>4, <3>5
    <3>8. x = conf.host
      BY <1>5, <3>5, <3>7, SameBytes DEF h
    <3> QED
      BY <1>1, <3>1, <3>3, <3>6, <3>8
  <2>2. CASE conf.atyp # 3
    <3>1. AddrLen = h /\ \A i \in 1..h : S[q + 3 + i] = conf.host[i]
      BY <1>2, <1>6, <2>2
    <3>3. HostFrom(seen) = q + 4 /\ HostTo(seen) = q + 3 + h
      BY <1>1, <1>4, <1>6, <1>7, <1>8, <2>2 DEF HostFrom, HostTo
    <3>4. /\ q + 4 \in Nat \ {0} /\ q + 3 + h \in Nat /\ q + 4 <= (q + 3 + h) + 1 /\ q + 3 + h <= n
          /\ (q + 3 + h) - (q + 4) + 1 = h /\ \A i \in 1..h : q + 4 + i - 1 = q + 3 + i /\ q + 3 + i \in 1..n
      BY <1>1, <1>3, <1>4, <3>3
    <3> DEFINE x == SubSeq(seen, q + 4, q + 3 + h)
    <3>5. /\ x \in Bytes /\ Len(x) = (q + 3 + h) - (q + 4) + 1
          /\ \A i \in 1..((q + 3 + h) - (q + 4) + 1) : x[i] = seen[q + 4 + i - 1]
      BY <1>0, <3>4, Piece DEF n
    <3>6. HostIn(seen) = x
      BY <3>3 DEF HostIn
    <3> HIDE DEF x
    <3>7. Len(x) = h /\ \A i \in 1..h : x[i] = conf.host[i]
      BY <1>3, <3>1, <3>4, <3>5
    <3>8. x = conf.host
      BY <1>5, <3>5, <3>7, SameBytes DEF h
    <3> QED
      BY <1>1, <3>1, <3>3, <3>6, <3>8
  <2> QED
    BY <2>1, <2>2
<1>10. conf.user = Creds[1]
  <2>1. /\ m + 5 \in Nat \ {0} /\ m + 4 + u \in Nat /\ m + 5 <= (m + 4 + u) + 1 /\ m + 4 + u <= n
        /\ (m + 4 + u) - (m + 5) + 1 = u /\ \A i \in 1..u : m + 5 + i - 1 = m + 4 + i /\ m + 4 + i \in 1..n
    BY <1>1, <1>3, <1>4, <1>7 DEF q
  <2> DEFINE x == SubSeq(seen, m + 5, m + 4 + u)
  <2>2. /\ x \in Bytes /\ Len(x) = (m + 4 + u) - (m + 5) + 1
        /\ \A i \in 1..((m + 4 + u) - (m + 5) + 1) : x[i] = seen[m + 5 + i - 1]
    BY <1>0, <2>1, Piece DEF n
  <2>3. Creds[1] = x
    <3>1. VerAt(seen) + 2 = m + 5 /\ VerAt(seen) + ULen(seen) + 1 = m + 4 + u
      BY <1>1, <1>7
    <3>2. SubSeq(seen, VerAt(seen) + 2, VerAt(seen) + ULen(seen) + 1) = Creds[1]
      BY <1>4 DEF Known
    <3> QED
      BY <3>1, <3>2
  <2> HIDE DEF x
  <2>4. Len(x) = u /\ \A i \in 1..u : x[i] = conf.user[i]
    <3>1. \A i \in 1..u : S[m + 4 + i] = conf.user[i]
      BY <1>2
    <3> QED
      BY <1>3, <2>1, <2>2, <3>1
  <2>5. x = conf.user
    BY <1>5, <2>2, <2>4, SameBytes DEF u
  <2> QED
    BY <2>3, <2>5
<1>11. conf.pass = Creds[2]
  <2>1. /\ m + u + 6 \in Nat \ {0} /\ m + u + 5 + p \in Nat /\ m + u + 6 <= (m + u + 5 + p) + 1
        /\ m + u + 5 + p <= n /\ (m + u + 5 + p) - (m + u + 6) + 1 = p
        /\ \A i \in 1..p : m + u + 6 + i - 1 = m + u + 5 + i /\ m + u + 5 + i \in 1..n
    BY <1>1, <1>3, <1>4, <1>7 DEF q
  <2> DEFINE x == SubSeq(seen, m + u + 6, m + u + 5 + p)
  <2>2. /\ x \in Bytes /\ Len(x) = (m + u + 5 + p) - (m + u + 6) + 1
        /\ \A i \in 1..((m + u + 5 + p) - (m + u + 6) + 1) : x[i] = seen[m + u + 6 + i - 1]
    BY <1>0, <2>1, Piece DEF n
  <2>3. Creds[2] = x
    <3>1. VerAt(seen) + ULen(seen) + 3 = m + u + 6 /\ VerAt(seen) + ULen(seen) + PLen(seen) + 2 = m + u + 5 + p
      BY <1>1, <1>7
    <3>2. SubSeq(seen, VerAt(seen) + ULen(seen) + 3, VerAt(seen) + ULen(seen) + PLen(seen) + 2) = Creds[2]
      BY <1>4 DEF Known
    <3> QED
      BY <3>1, <3>2
  <2> HIDE DEF x
  <2>4. Len(x) = p /\ \A i \in 1..p : x[i] = conf.pass[i]
    <3>1. \A i \in 1..p : S[m + u + 5 + i] = conf.pass[i]
      BY <1>2
    <3>2. ASSUME NEW i \in 1..p PROVE x[i] = conf.pass[i]
      <4>1. x[i] = seen[m + u + 6 + i - 1] /\ m + u + 6 + i - 1 = m + u + 5 + i /\ m + u + 5 + i \in 1..n
        BY <2>1, <2>2
      <4>2. seen[m + u + 5 + i] = S[m + u + 5 + i]
        BY <1>3, <4>1
      <4> QED
        BY <3>1, <4>1, <4>2
    <3> QED
      BY <2>1, <2>2, <3>2
  <2>5. x = conf.pass
    BY <1>5, <2>2, <2>4, SameBytes DEF p
  <2> QED
    BY <2>3, <2>5
<1>12. <<conf.user, conf.pass>> = Creds
  BY <1>10, <1>11, CredsAssumption
<1> QED
  BY <1>7, <1>8, <1>9, <1>12 DEF q, m, u, p

LEMMA AgreementHolds == TypeOK /\ ParseInv /\ StreamInv => (Honest => Agreement)
<1> SUFFICES ASSUME TypeOK, ParseInv, StreamInv, Honest, sp \in {"dial", "pump"}
             PROVE  /\ <<conf.user, conf.pass>> = Creds
                    /\ conf.cmd = 1
                    /\ target = <<conf.atyp, conf.host, conf.port>>
  BY DEF Agreement
<1>0. conf \in Clients /\ seen \in Bytes /\ sp # "ended"
  BY DEF TypeOK
<1>1. Got6(seen) /\ Len(seen) = HostTo(seen) + 2 /\ target = <<AType(seen), HostIn(seen), PortIn(seen)>>
  BY DEF ParseInv
<1>2. Framed
  <2>1. Len(SoFar) > 0
    BY <1>0, <1>1, ReadIsStream DEF Got6
  <2>2. Fits
    BY <1>0, <2>1 DEF StreamInv
  <2> QED
    BY <1>0, <2>2, SpokeIsFramed
<1> DEFINE q == ReqAt(seen)
           S == Stream
           t == HostTo(seen)
           k == AddrLen
<1>3. q = Len(conf.methods) + Len(conf.user) + Len(conf.pass) + 6 /\ t = q + k + 3
  BY <1>0, <1>1, <1>2, Understood
<1>4. AType(seen) = conf.atyp /\ conf.cmd = 1 /\ HostIn(seen) = conf.host /\ <<conf.user, conf.pass>> = Creds
  BY <1>0, <1>1, <1>2, Understood
<1>5. \A i \in 1..2 : S[q + k + 3 + i] = conf.port[i]
  BY <1>0, <1>2, <1>3, StreamBytes
<1>6. t \in Nat /\ Len(seen) = t + 2
  BY <1>1 DEF Got6
<1>7. \A i \in 1..Len(seen) : seen[i] = S[i]
  BY <1>0, ReadIsStream
<1>8. conf.port \in Bytes /\ Len(conf.port) = 2
  BY <1>0, ClientTyped
<1>9. q \in Nat /\ k \in Nat
  <2> DEFINE m == Len(conf.methods)
             u == Len(conf.user)
             p == Len(conf.pass)
             h == Len(conf.host)
  <2>1. m \in Nat /\ u \in Nat /\ p \in Nat /\ h \in Nat
    BY <1>0, ClientTyped
  <2>2. q = m + u + p + 6
    BY <1>3
  <2>3. k = IF conf.atyp = 3 THEN 1 + h ELSE h
    BY DEF AddrLen
  <2> HIDE DEF m, u, p, h, q, k
  <2> QED
    BY <2>1, <2>2, <2>3
<1> HIDE DEF q, S, t, k
<1>10. \A i \in 1..2 : seen[t + i] = conf.port[i]
  <2> TAKE i \in 1..2
  <2>1. t + i \in 1..Len(seen)
    BY <1>6
  <2>2. t + i = q + k + 3 + i
    BY <1>3, <1>9
  <2> QED
    BY <1>5, <1>7, <2>1, <2>2
<1>11. PortIn(seen) = conf.port
  <2> DEFINE x == SubSeq(seen, t + 1, t + 2)
  <2>1. x \in Bytes /\ Len(x) = (t + 2) - (t + 1) + 1 /\ \A i \in 1..((t + 2) - (t + 1) + 1) : x[i] = seen[t + 1 + i - 1]
    BY <1>0, <1>6, Piece
  <2>2. PortIn(seen) = x
    BY DEF PortIn, t
  <2> HIDE DEF x
  <2>3. Len(x) = 2 /\ \A i \in 1..2 : x[i] = conf.port[i]
    BY <1>6, <1>10, <2>1
  <2> QED
    BY <1>8, <2>1, <2>2, <2>3, SameBytes
<1> QED
  BY <1>1, <1>4, <1>11

\* Tor is asked to connect only for a client that knows both credentials and said
\* CONNECT, and to the target it named.  A peer of another program is held to no
\* more than that its length bytes are true; client_connect is held to nothing,
\* since it checks (arti_pipeline.rs:227-318 and 496-560).
THEOREM TargetAgreed == Spec => [](Honest => Agreement)
<1>1. Init => ParseInv
  BY DEF Init, ParseInv
<1> QED
  BY TypeCorrect, ParseStep, StreamStart, StreamStep, AgreementHolds, <1>1, PTL DEF Spec

-----------------------------------------------------------------------------
(* The answer of client_connect.                                              *)

\* What is not read yet is the part of the stream that comes next.
LEMMA UnreadBytes ==
  ASSUME TypeOK, StreamInv, sp # "ended"
  PROVE  /\ Len(seen) \in Nat /\ Len(c2s) \in Nat /\ Len(SoFar) = Len(seen) + Len(c2s)
         /\ \A i \in 1..Len(c2s) : c2s[i] = Stream[Len(seen) + i]
<1>1. seen \in Bytes /\ c2s \in Bytes /\ Len(seen) \in Nat /\ Len(c2s) \in Nat
  BY DEF TypeOK, Bytes
<1>2. Len(SoFar) = Len(seen) + Len(c2s) /\ \A i \in 1..Len(c2s) : SoFar[Len(seen) + i] = c2s[i]
  BY <1>1, Joined2 DEF SoFar
<1>3. Len(SoFar) <= Len(Stream) /\ \A i \in 1..Len(SoFar) : SoFar[i] = Stream[i]
  BY DEF StreamInv, Agreeing
<1>4. ASSUME NEW i \in 1..Len(c2s) PROVE c2s[i] = Stream[Len(seen) + i]
  <2>1. Len(seen) + i \in 1..Len(SoFar)
    BY <1>1, <1>2
  <2>2. SoFar[Len(seen) + i] = c2s[i]
    BY <1>2
  <2> QED
    BY <1>3, <2>1, <2>2
<1> QED
  BY <1>1, <1>2, <1>4

\* A byte handle() has just read is the client's.
LEMMA ReadByte ==
  ASSUME TypeOK, StreamInv, sp # "ended", Ready, NEW i \in 1..Need
  PROVE  Taken[i] = Stream[Len(seen) + i]
<1>1. Taken[i] = c2s[i]
  BY TakenByte
<1>2. i \in 1..Len(c2s)
  BY Split, UnreadBytes DEF Ready
<1> QED
  BY <1>1, <1>2, UnreadBytes

\* What a client_connect says, byte by byte.
LEMMA ConnectBytes ==
  ASSUME conf \in Clients, conf.kind = "client_connect"
  PROVE  /\ Len(Greeting) = 3 /\ Stream[1] = 5 /\ Stream[2] = 1 /\ Stream[3] = 2 /\ Stream[4] = 1
         /\ Len(Auth) >= 3 /\ Len(Request) >= 4
         /\ LET n == Len(Greeting \o Auth) IN
            Stream[n + 1] = 5 /\ Stream[n + 2] = 1 /\ Stream[n + 4] = 3
<1> DEFINE G == Greeting
           A == Auth
           R == Request
           n == Len(G \o A)
           S == Stream
           ms == conf.methods
<1>1. conf.vers = <<5, 1, 5>> /\ ms = <<2>> /\ conf.cmd = 1 /\ conf.atyp = 3
  BY ClientConnectAssumption
<1>0. conf.vers[1] = 5 /\ conf.vers[2] = 1 /\ conf.vers[3] = 5
  BY <1>1
<1>2. ms \in Bytes /\ Len(ms) = 1 /\ ms[1] = 2
  BY <1>1, ClientTyped
<1>3. Len(G) = 3 /\ G[1] = 5 /\ G[2] = 1 /\ G[3] = 2
  <2> DEFINE z == Sized(ms)
             v == <<conf.vers[1]>>
  <2>1. z \in Bytes /\ Len(z) = 2 /\ z[1] = 1 /\ z[2] = 2
    <3>1. AsU8(Len(ms)) = 1
      BY <1>2, FramedLength, BoundsAssumption
    <3>2. z \in Bytes /\ Len(z) = 1 + Len(ms) /\ z[1] = AsU8(Len(ms)) /\ \A i \in 1..Len(ms) : z[1 + i] = ms[i]
      BY <1>2, SizedBytes
    <3>3. z[1 + 1] = ms[1]
      BY <1>2, <3>2
    <3> QED
      BY <1>2, <3>1, <3>2, <3>3
  <2>2. v \in Bytes /\ Len(v) = 1 /\ v[1] = 5
    <3>1. v = <<5>> /\ 5 \in Nat
      BY <1>0
    <3> HIDE DEF v
    <3> QED
      BY <3>1, FewBytes
  <2>3. G = v \o z
    BY DEF Greeting
  <2> HIDE DEF v, z, G
  <2>4. /\ Len(G) = Len(v) + Len(z)
        /\ \A i \in 1..Len(v) : G[i] = v[i]
        /\ \A i \in 1..Len(z) : G[Len(v) + i] = z[i]
    BY <2>1, <2>2, <2>3, Joined2
  <2>5. G[1 + 1] = z[1] /\ G[1 + 2] = z[2] /\ G[1] = v[1]
    BY <2>1, <2>2, <2>4
  <2> QED
    BY <2>1, <2>2, <2>4, <2>5
<1>4. Len(A) >= 3 /\ A[1] = 1
  <2> DEFINE zu == Sized(conf.user)
             zp == Sized(conf.pass)
             v == <<conf.vers[2]>>
             vu == v \o zu
  <2>1. zu \in Bytes /\ Len(zu) = 1 + Len(conf.user) /\ zp \in Bytes /\ Len(zp) = 1 + Len(conf.pass)
        /\ Len(conf.user) \in Nat /\ Len(conf.pass) \in Nat
    BY ClientTyped, SizedBytes
  <2>2. v \in Bytes /\ Len(v) = 1 /\ v[1] = 1
    <3>1. v = <<1>> /\ 1 \in Nat
      BY <1>0
    <3> HIDE DEF v
    <3> QED
      BY <3>1, FewBytes
  <2>3. A = vu \o zp
    BY DEF Auth
  <2> HIDE DEF v, zu, zp, A
  <2>4. vu \in Bytes /\ Len(vu) = Len(v) + Len(zu) /\ \A i \in 1..Len(v) : vu[i] = v[i]
    BY <2>1, <2>2, Joined2
  <2> HIDE DEF vu
  <2>5. Len(A) = Len(vu) + Len(zp) /\ \A i \in 1..Len(vu) : A[i] = vu[i]
    BY <2>1, <2>3, <2>4, Joined2
  <2>6. Len(vu) \in Nat /\ Len(vu) >= 2
    BY <2>1, <2>2, <2>4
  <2>7. Len(A) >= 3
    BY <2>1, <2>5, <2>6
  <2>8. A[1] = v[1]
    BY <2>2, <2>4, <2>5, <2>6
  <2> QED
    BY <2>2, <2>7, <2>8
<1>5. Len(R) >= 4 /\ R[1] = 5 /\ R[2] = 1 /\ R[4] = 3
  <2> DEFINE head == <<conf.vers[3], conf.cmd, 0, conf.atyp>>
             a == Sized(conf.host)
             ha == head \o a
             port == conf.port
  <2>1. head \in Bytes /\ Len(head) = 4 /\ head[1] = 5 /\ head[2] = 1 /\ head[4] = 3
    <3>1. head = <<5, 1, 0, 3>> /\ 5 \in Nat /\ 1 \in Nat /\ 0 \in Nat /\ 3 \in Nat
      BY <1>0, <1>1
    <3> HIDE DEF head
    <3> QED
      BY <3>1, FewBytes
  <2>2. a \in Bytes /\ Len(a) \in Nat /\ port \in Bytes /\ Len(port) = 2
    <3>1. conf.host \in Bytes /\ Len(conf.host) \in Nat /\ port \in Bytes /\ Len(port) = 2
      BY ClientTyped
    <3> QED
      BY <3>1, SizedBytes, SMTT(30)
  <2>3. R = ha \o port
    BY <1>1 DEF Request
  <2> HIDE DEF head, a, port, R
  <2>4. ha \in Bytes /\ Len(ha) = Len(head) + Len(a) /\ \A i \in 1..Len(head) : ha[i] = head[i]
    BY <2>1, <2>2, Joined2
  <2> HIDE DEF ha
  <2>5. Len(R) = Len(ha) + Len(port) /\ \A i \in 1..Len(ha) : R[i] = ha[i]
    BY <2>2, <2>3, <2>4, Joined2
  <2> QED
    BY <2>1, <2>2, <2>4, <2>5
<1>6. /\ Len(G) \in Nat /\ Len(A) \in Nat /\ Len(R) \in Nat /\ n = Len(G) + Len(A)
      /\ \A i \in 1..Len(G) : S[i] = G[i]
      /\ \A i \in 1..Len(A) : S[Len(G) + i] = A[i]
      /\ \A i \in 1..Len(R) : S[n + i] = R[i]
  BY StreamParts
<1> HIDE DEF G, A, R, n, S
<1>7. S[1] = 5 /\ S[2] = 1 /\ S[3] = 2
  BY <1>3, <1>6
<1>8. S[4] = 1
  <2>1. S[3 + 1] = A[1]
    BY <1>3, <1>4, <1>6
  <2> QED
    BY <1>4, <2>1
<1>9. S[n + 1] = 5 /\ S[n + 2] = 1 /\ S[n + 4] = 3
  <2>1. S[n + 1] = R[1] /\ S[n + 2] = R[2] /\ S[n + 4] = R[4]
    <3>1. 1 \in 1..Len(R) /\ 2 \in 1..Len(R) /\ 4 \in 1..Len(R)
      BY <1>5, <1>6
    <3> QED
      BY <1>6, <3>1
  <2> QED
    BY <1>5, <2>1
<1> QED
  BY <1>3, <1>4, <1>5, <1>7, <1>8, <1>9 DEF G, A, R, n, S

\* Nothing is left once as much as was sent has been read.
LEMMA NothingLeft ==
  ASSUME TypeOK, Need = Len(c2s)
  PROVE  Rest = <<>>
<1>1. c2s \in Bytes /\ Len(c2s) \in Nat
  BY DEF TypeOK, Bytes
<1>2. Rest = SubSeq(c2s, Len(c2s) + 1, Len(c2s))
  BY <1>1 DEF Rest, Ready
<1> DEFINE n == Len(c2s)
<1> HIDE DEF n
<1>3. n \in Nat /\ n + 1 \in Nat \ {0} /\ n + 1 <= n + 1 /\ n <= n
  BY <1>1 DEF n
<1>4. SubSeq(c2s, n + 1, n) \in Bytes /\ Len(SubSeq(c2s, n + 1, n)) = n - (n + 1) + 1
  BY <1>1, <1>3, Piece DEF n
<1>5. Len(SubSeq(c2s, n + 1, n)) = 0
  BY <1>3, <1>4
<1> QED
  BY <1>2, <1>4, <1>5, EmptySeq DEF Bytes, n

\* An answer is not lost when nothing was left unread, nor is a silence broken.
LEMMA EndsHeard ==
  ASSUME TypeOK, NEW msgs \in Replies, NEW r, End(msgs, r)
  PROVE  /\ Rest = <<>> => s2c' = s2c \o msgs
         /\ s2c = <<>> /\ msgs = <<>> => s2c' = <<>>
<1> DEFINE out == s2c \o msgs
<1>1. s2c \in Replies
  BY DEF TypeOK, Replies
<1>2. out \in Replies /\ Len(out) \in Nat
  BY <1>1 DEF Replies
<1>3. \E k \in (IF Rest = <<>> THEN {Len(out)} ELSE 0..Len(out)) : s2c' = SubSeq(out, 1, k)
  BY DEF End
<1>4. s2c = <<>> /\ msgs = <<>> => out = <<>>
  BY <1>1, ConcatEmptySeq DEF Replies
<1> HIDE DEF out
<1>5. ASSUME Rest = <<>> PROVE s2c' = out
  <2>1. s2c' = SubSeq(out, 1, Len(out))
    BY <1>3, <1>5
  <2> QED
    BY <1>2, <2>1, SubSeqFull DEF Replies
<1>6. ASSUME out = <<>> PROVE s2c' = <<>>
  <2>1. Len(out) = 0
    BY <1>6
  <2>2. s2c' = SubSeq(out, 1, 0)
    <3>1. PICK k \in (IF Rest = <<>> THEN {Len(out)} ELSE 0..Len(out)) : s2c' = SubSeq(out, 1, k)
      BY <1>3
    <3>2. k = 0
      BY <2>1, <3>1
    <3> QED
      BY <3>1, <3>2
  <2>3. SubSeq(out, 1, 0) = out
    BY <1>2, <2>1, SubSeqFull DEF Replies
  <2> QED
    BY <1>6, <2>2, <2>3
<1> QED
  BY <1>4, <1>5, <1>6 DEF out

\* While it dials and pumps, handle() has read all the client has sent.
LEMMA AllRead ==
  ASSUME TypeOK, ParseInv, StreamInv, Framed, sp \in {"dial", "pump"}
  PROVE  Need = Len(c2s)
<1>1. Got6(seen) /\ Len(seen) = HostTo(seen) + 2 /\ sp # "ended"
  BY DEF ParseInv
<1> DEFINE q == Len(conf.methods) + Len(conf.user) + Len(conf.pass) + 6
           k == AddrLen
<1>2. HostTo(seen) = q + k + 3
  BY <1>1, Understood
<1>3. Len(Stream) = q + k + 5
  BY StreamBytes DEF TypeOK
<1>4. q \in Nat /\ k \in Nat
  <2> DEFINE m == Len(conf.methods)
             u == Len(conf.user)
             p == Len(conf.pass)
  <2>1. conf \in Clients
    BY DEF TypeOK
  <2>2. m \in Nat /\ u \in Nat /\ p \in Nat
    BY <2>1, ClientTyped
  <2>3. k \in Nat
    BY <2>1, RequestBytes DEF Framed
  <2>4. q = m + u + p + 6
    OBVIOUS
  <2> HIDE DEF m, u, p, q, k
  <2> QED
    BY <2>2, <2>3, <2>4
<1> HIDE DEF q, k
<1>5. Len(seen) = Len(Stream)
  BY <1>1, <1>2, <1>3, <1>4
<1>6. Len(SoFar) = Len(seen) + Len(c2s) /\ Len(c2s) \in Nat /\ Len(seen) \in Nat
  BY <1>1, UnreadBytes
<1>7. Len(SoFar) <= Len(Stream)
  BY <1>1, ReadIsStream
<1> QED
  BY <1>5, <1>6, <1>7 DEF Need, Handshake

\* The answer client_connect waits for is on its way, has been written, or will
\* be: where handle() is for each point of the call.
LockInv ==
  /\ heard = "eof" => cp = "gone"
  /\ conf.kind = "client_connect" =>
       /\ heard = "eof" => sp = "ended" /\ why \in {"err", "refused"} /\ wrote = Admitted
       /\ cp = "greet" => sp = "hdr" /\ s2c = <<>>
       /\ cp = "selected" => \/ sp \in {"hdr", "methods"} /\ s2c = <<>>
                             \/ sp = "av" /\ s2c = Chosen
       /\ cp = "auth" => sp = "av" /\ s2c = <<>>
       /\ cp = "verdict" => \/ sp \in {"av", "cred"} /\ s2c = <<>>
                            \/ sp = "req" /\ s2c = << <<1, 0>> >>
                            \/ sp = "ended" /\ s2c = << <<1, 1>> >>
       /\ cp = "request" => sp = "req" /\ s2c = <<>>
       /\ cp = "reply" => \/ sp \in {"req", "addr", "port", "dial"} /\ s2c = <<>>
                          \/ sp \in {"pump", "ended"} /\ s2c # <<>>
                          \/ sp = "ended" /\ why \in {"err", "refused"} /\ wrote = Admitted

\* The credentials are read to their last byte, good or not.
LEMMA CredsWhole ==
  ASSUME TypeOK, ParseInv, StreamInv, Framed, sp = "cred", cp = "verdict"
  PROVE  Need = Len(c2s)
<1> DEFINE m == Len(conf.methods)
           u == Len(conf.user)
           p == Len(conf.pass)
           n == Len(seen)
           S == Stream
<1>0. conf \in Clients
  BY DEF TypeOK
<1>1. m \in Nat /\ u \in Nat /\ p \in Nat
  BY <1>0, ClientTyped
<1>2. S[2] = m /\ S[m + 4] = u /\ S[m + u + 5] = p
  BY <1>0, StreamBytes
<1>3. Len(Greeting \o Auth) = m + u + p + 5
  <2> DEFINE q == m + u + p + 6
             ga == Len(Greeting \o Auth)
  <2>1. ga = q - 1
    BY <1>0, StreamBytes
  <2>2. q = m + u + p + 6
    OBVIOUS
  <2> HIDE DEF m, u, p, q, ga
  <2>3. ga = m + u + p + 5
    BY <1>1, <2>1, <2>2
  <2> QED
    BY <2>3 DEF ga
<1>4. n \in Nat /\ \A i \in 1..n : seen[i] = S[i]
  BY ReadIsStream
<1>5. n = VerAt(seen) /\ n >= 2
  BY DEF ParseInv, Got1, Got2, Got3
<1>6. /\ Len(c2s) \in Nat /\ Len(SoFar) = n + Len(c2s)
      /\ \A i \in 1..Len(c2s) : c2s[i] = S[n + i]
  BY UnreadBytes
<1>7. Len(SoFar) = Len(Greeting \o Auth)
  BY DEF StreamInv, Sent
<1> HIDE DEF m, u, p, n, S
<1>8. n = m + 3
  <2>1. seen[2] = m
    BY <1>2, <1>4, <1>5
  <2> QED
    BY <1>5, <2>1 DEF VerAt, NMethods
<1>9. Len(c2s) = u + p + 2
  BY <1>1, <1>3, <1>6, <1>7, <1>8
<1>10. c2s[1] = u
  <2>1. 1 \in 1..Len(c2s) /\ n + 1 = m + 4
    BY <1>1, <1>8, <1>9
  <2> QED
    BY <1>2, <1>6, <2>1
<1>11. c2s[u + 2] = p
  <2>1. u + 2 \in 1..Len(c2s) /\ n + (u + 2) = m + u + 5
    BY <1>1, <1>8, <1>9
  <2> QED
    BY <1>2, <1>6, <2>1
<1>12. c2s # <<>> /\ Len(c2s) >= u + 2
  <2>1. Len(c2s) >= u + 2 /\ Len(c2s) # 0
    BY <1>1, <1>9
  <2>2. Len(<<>>) = 0
    OBVIOUS
  <2> QED
    BY <2>1, <2>2
<1>13. CredLen = u + 2 + p
  BY <1>1, <1>9, <1>10, <1>11, <1>12 DEF CredLen
<1> QED
  BY <1>1, <1>9, <1>13 DEF Need

\* A message written to a client that still listens is on its way.
LEMMA AdvancesHeard ==
  ASSUME NEW phase, NEW l, NEW msgs, Advance(phase, l, msgs), msgs = <<>> \/ cp # "gone"
  PROVE  sp' = phase /\ s2c' = s2c \o msgs /\ UNCHANGED client
BY DEF Advance

\* handle() keeps in step with client_connect.
LEMMA LockHandle ==
  ASSUME TypeOK, ParseInv, StreamInv, LockInv, conf.kind = "client_connect",
         cp \notin {"gone", "open"},
         Reads \/ TorConnects \/ TorRefuses \/ CancelDial \/ PumpDone \/ CancelPump
  PROVE  LockInv'
<1> USE WrittenTyped
<1>0. UNCHANGED client /\ conf \in Clients /\ heard # "eof"
  BY HandleKeeps DEF TypeOK, LockInv
<1>1. cp # "greet" => Framed
  BY <1>0, SpokeIsFramed DEF StreamInv, Honest
<1>2. s2c \in Replies /\ wrote \in Replies
  BY DEF TypeOK, Replies
<1>3. \A s \in Replies : <<>> \o s = s /\ s \o <<>> = s
  BY ConcatEmptySeq DEF Replies
<1>4. /\ Len(Greeting) = 3 /\ Stream[1] = 5 /\ Stream[2] = 1 /\ Stream[3] = 2 /\ Stream[4] = 1
      /\ Len(Auth) >= 3 /\ Len(Request) >= 4
  BY <1>0, ConnectBytes
<1>5. CASE ReadHdr
  <2>1. sp = "hdr" /\ Ready /\ Need = 2 /\ Len(seen) = 0
    BY <1>5 DEF ReadHdr, At, Need, ParseInv
  <2>2. cp = "selected" /\ s2c = <<>>
    <3>1. cp # "greet"
      <4>1. cp = "greet" => Len(SoFar) = 0
        BY <2>1 DEF StreamInv, Sent
      <4> QED
        BY <2>1, <4>1, UnreadBytes DEF Ready
    <3> QED
      BY <2>1, <3>1 DEF LockInv, TypeOK
  <2>3. Taken[1] = 5
    <3>1. Taken[1] = Stream[Len(seen) + 1]
      BY <2>1, ReadByte
    <3> QED
      BY <1>4, <2>1, <3>1
  <2>4. Advance("methods", Taken[2], <<>>)
    BY <1>5, <2>3 DEF ReadHdr
  <2>5. sp' = "methods" /\ s2c' = <<>>
    BY <1>2, <1>3, <2>2, <2>4, AdvancesHeard
  <2> QED
    BY <1>0, <2>2, <2>5 DEF LockInv, client
<1>6. CASE SelectMethod
  <2>1. sp = "methods" /\ Ready /\ Need = local /\ Len(seen) = 2 /\ local = NMethods(seen)
    BY <1>6 DEF SelectMethod, At, Need, ParseInv
  <2>2. cp = "selected" /\ s2c = <<>>
    BY <2>1 DEF LockInv, TypeOK
  <2>3. local = 1
    <3>1. seen[2] = Stream[2]
      BY <2>1, ReadIsStream
    <3> QED
      BY <1>4, <2>1, <3>1 DEF NMethods
  <2>4. Taken[1] = 2 /\ Len(Taken) = 1
    <3>1. Taken[1] = Stream[Len(seen) + 1]
      BY <2>1, <2>3, ReadByte
    <3>2. Len(Taken) = 1
      BY <2>1, <2>3, Split
    <3> QED
      BY <1>4, <2>1, <3>1, <3>2
  <2>5. Contains(Taken, 2)
    BY <2>4 DEF Contains
  <2>6. Advance("av", 0, << <<5, 2>> >>)
    BY <1>6, <2>5 DEF SelectMethod
  <2>7. sp' = "av" /\ s2c' = Chosen
    BY <1>3, <2>2, <2>6, AdvancesHeard DEF Chosen
  <2> QED
    BY <1>0, <2>2, <2>7 DEF LockInv, client
<1>7. CASE ReadAuthVersion
  <2>1. sp = "av" /\ Ready /\ Need = 1 /\ Len(seen) = NMethods(seen) + 2 /\ Len(seen) >= 2
    BY <1>7 DEF ReadAuthVersion, At, Need, ParseInv, Got1, Got2
  <2>2. Len(seen) = 3
    <3>1. seen[2] = Stream[2]
      BY <2>1, ReadIsStream
    <3> QED
      BY <1>4, <2>1, <3>1 DEF NMethods
  <2>3. cp = "verdict" /\ s2c = <<>>
    <3>1. cp \notin {"selected", "auth"}
      <4>1. cp \in {"selected", "auth"} => Len(SoFar) = 3
        BY <1>4, <2>1 DEF StreamInv, Sent
      <4>2. Len(c2s) >= 1 /\ Len(c2s) \in Nat
        BY <2>1, UnreadBytes DEF Ready
      <4>3. Len(SoFar) = 3 + Len(c2s)
        BY <2>1, <2>2, UnreadBytes
      <4> QED
        BY <4>1, <4>2, <4>3
    <3> QED
      BY <2>1, <3>1 DEF LockInv, TypeOK
  <2>4. Taken[1] = 1
    <3>1. Taken[1] = Stream[Len(seen) + 1]
      BY <2>1, ReadByte
    <3> QED
      BY <1>4, <2>2, <3>1
  <2>5. Advance("cred", 0, <<>>)
    BY <1>7, <2>4 DEF ReadAuthVersion
  <2>6. sp' = "cred" /\ s2c' = <<>>
    BY <1>2, <1>3, <2>3, <2>5, AdvancesHeard
  <2> QED
    BY <1>0, <2>3, <2>6 DEF LockInv, client
<1>8. CASE CheckCreds
  <2>1. sp = "cred" /\ Ready
    BY <1>8 DEF CheckCreds, At
  <2>2. cp = "verdict" /\ s2c = <<>>
    BY <2>1 DEF LockInv, TypeOK
  <2>3. Rest = <<>>
    BY <1>1, <2>1, <2>2, CredsWhole, NothingLeft
  <2>4. CASE Advance("req", 0, << <<1, 0>> >>)
    <3>1. sp' = "req" /\ s2c' = << <<1, 0>> >>
      BY <1>3, <2>2, <2>4, AdvancesHeard
    <3> QED
      BY <1>0, <2>2, <3>1 DEF LockInv, client
  <2>5. CASE End(<< <<1, 1>> >>, "err")
    <3>1. sp' = "ended" /\ s2c' = << <<1, 1>> >>
      <4>1. s2c' = s2c \o << <<1, 1>> >>
        BY <2>3, <2>5, EndsHeard
      <4> QED
        BY <1>3, <2>2, <2>5, <4>1 DEF End
    <3> QED
      BY <1>0, <2>2, <3>1 DEF LockInv, client
  <2> QED
    BY <1>8, <2>4, <2>5 DEF CheckCreds
<1>9. CASE ReadRequest
  <2> DEFINE n == Len(Greeting \o Auth)
  <2>1. sp = "req" /\ Ready /\ Need = 4 /\ Got4(seen) /\ Len(seen) = ReqAt(seen) - 1
    BY <1>9 DEF ReadRequest, At, Need, ParseInv
  <2>2. cp # "greet"
    BY <2>1 DEF LockInv
  <2>3. Len(seen) = n
    BY <1>0, <1>1, <2>1, <2>2, RequestFound, StreamBytes
  <2>4. cp = "reply" /\ s2c = <<>>
    <3>1. cp \notin {"verdict", "request"}
      <4>1. cp \in {"verdict", "request"} => Len(SoFar) = n
        BY <2>1 DEF StreamInv, Sent
      <4> QED
        BY <2>1, <2>3, <4>1, UnreadBytes DEF Ready
    <3> QED
      BY <2>1, <3>1 DEF LockInv, TypeOK
  <2>5. Stream[n + 1] = 5 /\ Stream[n + 2] = 1 /\ Stream[n + 4] = 3
    BY <1>0, ConnectBytes
  <2>6. Taken[1] = 5 /\ Taken[2] = 1 /\ Taken[4] = 3
    <3>1. \A i \in 1..4 : Taken[i] = Stream[Len(seen) + i]
      BY <2>1, ReadByte
    <3> QED
      BY <2>3, <2>5, <3>1
  <2>7. Advance("addr", Taken[4], <<>>)
    BY <1>9, <2>6 DEF ReadRequest
  <2>8. sp' = "addr" /\ s2c' = <<>>
    BY <1>2, <1>3, <2>4, <2>7, AdvancesHeard
  <2> QED
    BY <1>0, <2>4, <2>8 DEF LockInv, client
<1>10. CASE ReadAddress
  <2>1. sp = "addr" /\ wrote = Admitted
    BY <1>10 DEF ReadAddress, At, ParseInv
  <2>2. cp = "reply" /\ s2c = <<>>
    BY <2>1 DEF LockInv, TypeOK
  <2>3. CASE End(<<>>, "err")
    <3>1. sp' = "ended" /\ why' = "err" /\ wrote' = Admitted
      BY <1>2, <1>3, <2>1, <2>3 DEF End
    <3> QED
      BY <1>0, <2>2, <3>1 DEF LockInv, client
  <2>4. CASE sp' = "port" /\ s2c' = s2c
    BY <1>0, <2>2, <2>4 DEF LockInv, client
  <2> QED
    BY <1>10, <2>3, <2>4 DEF ReadAddress
<1>11. CASE ReadPort
  <2>1. sp = "port" /\ sp' = "dial" /\ s2c' = s2c
    BY <1>11 DEF ReadPort, At
  <2>2. cp = "reply" /\ s2c = <<>>
    BY <2>1 DEF LockInv, TypeOK
  <2> QED
    BY <1>0, <2>1, <2>2 DEF LockInv, client
<1>12. CASE TorConnects
  <2>1. sp = "dial" /\ Advance("pump", 0, Code(0))
    BY <1>12 DEF TorConnects, At
  <2>2. cp = "reply" /\ s2c = <<>>
    BY <2>1 DEF LockInv, TypeOK
  <2>3. sp' = "pump" /\ s2c' = Code(0)
    BY <1>3, <2>1, <2>2, AdvancesHeard
  <2> QED
    BY <1>0, <2>2, <2>3 DEF LockInv, client, Code
<1>13. CASE TorRefuses \/ CancelDial
  <2>1. sp = "dial" /\ wrote = Admitted
    BY <1>13 DEF TorRefuses, CancelDial, At, ParseInv
  <2>2. cp = "reply" /\ s2c = <<>>
    BY <2>1 DEF LockInv, TypeOK
  <2>3. Rest = <<>>
    BY <1>1, <2>1, <2>2, AllRead, NothingLeft
  <2>4. CASE TorRefuses
    <3>1. PICK msgs \in {<<>>, Code(5)} : End(msgs, "refused")
      BY <2>4 DEF TorRefuses
    <3>2. sp' = "ended" /\ why' = "refused" /\ wrote' = Admitted \o msgs /\ s2c' = msgs
      <4>1. msgs \in Replies
        OBVIOUS
      <4>2. s2c' = s2c \o msgs
        BY <2>3, <3>1, <4>1, EndsHeard
      <4> QED
        BY <1>3, <2>1, <2>2, <3>1, <4>1, <4>2 DEF End
    <3>3. CASE msgs = <<>>
      <4>1. wrote' = Admitted
        BY <1>2, <1>3, <2>1, <3>2, <3>3
      <4> QED
        BY <1>0, <2>2, <3>2, <4>1 DEF LockInv, client
    <3>4. CASE msgs = Code(5)
      <4>1. s2c' # <<>>
        BY <3>2, <3>4 DEF Code
      <4> QED
        BY <1>0, <2>2, <3>2, <4>1 DEF LockInv, client
    <3> QED
      BY <3>1, <3>3, <3>4
  <2>5. CASE CancelDial
    <3>1. End(Code(1), "cancelled")
      BY <2>5 DEF CancelDial
    <3>2. sp' = "ended" /\ s2c' = Code(1)
      BY <1>3, <2>2, <2>3, <3>1, EndsHeard DEF End
    <3> QED
      BY <1>0, <2>2, <3>2 DEF LockInv, client, Code
  <2> QED
    BY <1>13, <2>4, <2>5
<1>14. CASE PumpDone \/ CancelPump
  <2>1. sp = "pump"
    BY <1>14 DEF PumpDone, CancelPump
  <2>2. cp = "reply" /\ s2c # <<>>
    BY <2>1 DEF LockInv, TypeOK
  <2>3. Rest = <<>>
    BY <1>1, <2>1, <2>2, AllRead, NothingLeft
  <2>4. \E r : End(<<>>, r)
    BY <1>14 DEF PumpDone, CancelPump
  <2>5. sp' = "ended" /\ s2c' = s2c
    BY <1>2, <1>3, <2>3, <2>4, EndsHeard DEF End
  <2> QED
    BY <1>0, <2>2, <2>5 DEF LockInv, client
<1>15. CASE ReadEof
  BY <1>15 DEF ReadEof
<1> QED
  BY <1>5, <1>6, <1>7, <1>8, <1>9, <1>10, <1>11, <1>12, <1>13, <1>14, <1>15 DEF Reads

\* client_connect hears an answer, or the end of the stream.
LEMMA LockHear ==
  ASSUME TypeOK, LockInv, Client \/ Vanish
  PROVE  LockInv'
<1> USE DEF server
<1>0. conf' = conf /\ cp # "gone" /\ heard # "eof" /\ sp' = sp /\ why' = why /\ wrote' = wrote
  <2>1. cp # "gone"
    BY DEF Client, TooLong, Greet, Selected, Authenticate, Verdict, Ask, Reply, Send, Hear, Vanish
  <2>2. conf' = conf /\ sp' = sp /\ why' = why /\ wrote' = wrote
    BY DEF Client, TooLong, Greet, Selected, Authenticate, Verdict, Ask, Reply, Send, Hear, Return, Vanish
  <2> QED
    BY <2>1, <2>2 DEF LockInv
<1>1. CASE Vanish
  BY <1>0, <1>1 DEF Vanish, LockInv
<1>2. CASE TooLong
  BY <1>0, <1>2 DEF TooLong, Return, LockInv
<1>3. CASE Greet \/ Authenticate \/ Ask
  <2>1. heard' = heard /\ s2c' = s2c
    BY <1>3 DEF Greet, Authenticate, Ask, Send
  <2>2. CASE Greet
    BY <1>0, <2>1, <2>2 DEF Greet, Send, LockInv
  <2>3. CASE Authenticate
    BY <1>0, <2>1, <2>3 DEF Authenticate, Send, LockInv
  <2>4. CASE Ask
    BY <1>0, <2>1, <2>4 DEF Ask, Send, LockInv
  <2> QED
    BY <1>3, <2>2, <2>3, <2>4
<1>4. CASE Selected
  <2>1. cp = "selected" /\ Hear("selected", <<5, 2>>, "auth")
    BY <1>4 DEF Selected, Hear
  <2>2. heard' = "eof" => cp' = "gone"
    BY <1>0, <2>1 DEF Hear, Return
  <2>3. CASE conf.kind # "client_connect"
    BY <1>0, <2>2, <2>3 DEF LockInv
  <2>4. CASE conf.kind = "client_connect"
    <3>1. s2c # <<>> /\ sp = "av" /\ s2c = Chosen
      BY <2>1, <2>4 DEF LockInv, Hear
    <3>2. Head(Chosen) = <<5, 2>> /\ Tail(Chosen) = <<>>
      BY DEF Chosen
    <3>3. s2c' = <<>> /\ cp' = "auth" /\ heard' = heard
      BY <2>1, <3>1, <3>2 DEF Hear
    <3> QED
      BY <1>0, <3>1, <3>3 DEF LockInv
  <2> QED
    BY <2>3, <2>4
<1>5. CASE Verdict
  <2>1. cp = "verdict" /\ Hear("verdict", <<1, 0>>, "request")
    BY <1>5 DEF Verdict, Hear
  <2>2. heard' = "eof" => cp' = "gone"
    BY <1>0, <2>1 DEF Hear, Return
  <2>3. CASE conf.kind # "client_connect"
    BY <1>0, <2>2, <2>3 DEF LockInv
  <2>4. CASE conf.kind = "client_connect" /\ sp = "req"
    <3>1. s2c # <<>> /\ s2c = << <<1, 0>> >>
      BY <2>1, <2>4 DEF LockInv, Hear
    <3>2. Head(<< <<1, 0>> >>) = <<1, 0>> /\ Tail(<< <<1, 0>> >>) = <<>>
      OBVIOUS
    <3>3. s2c' = <<>> /\ cp' = "request" /\ heard' = heard
      BY <2>1, <3>1, <3>2 DEF Hear
    <3> QED
      BY <1>0, <2>4, <3>3 DEF LockInv
  <2>5. CASE conf.kind = "client_connect" /\ sp # "req"
    <3>1. s2c # <<>> /\ s2c = << <<1, 1>> >>
      BY <2>1, <2>5 DEF LockInv, Hear
    <3>2. Head(<< <<1, 1>> >>) = <<1, 1>> /\ <<1, 1>> # <<1, 0>>
      OBVIOUS
    <3>3. cp' = "gone" /\ heard' = "err"
      BY <2>1, <3>1, <3>2 DEF Hear, Return
    <3> QED
      BY <1>0, <3>3 DEF LockInv
  <2> QED
    BY <2>3, <2>4, <2>5
<1>6. CASE Reply
  <2>1. cp = "reply" /\ cp' \in {"open", "gone"} /\ (heard' = "eof" => cp' = "gone" /\ s2c = <<>> /\ sp = "ended")
    BY <1>0, <1>6 DEF Reply, Return
  <2>2. conf.kind = "client_connect" /\ heard' = "eof" => why \in {"err", "refused"} /\ wrote = Admitted
    BY <2>1 DEF LockInv
  <2> QED
    BY <1>0, <2>1, <2>2 DEF LockInv
<1> QED
  BY <1>1, <1>2, <1>3, <1>4, <1>5, <1>6 DEF Client

\* One more element makes a pair of a singleton.
LEMMA TwoOfOne ==
  ASSUME NEW a, NEW b
  PROVE  Append(<<a>>, b) = <<a, b>>
<1> DEFINE S == {a, b}
           one == <<a>>
           two == <<a, b>>
<1>1. one \in Seq(S) /\ Len(one) = 1 /\ one[1] = a /\ b \in S
  OBVIOUS
<1>2. two \in Seq(S) /\ Len(two) = 2 /\ two[1] = a /\ two[2] = b
  OBVIOUS
<1> HIDE DEF one, two, S
<1>3. /\ Append(one, b) \in Seq(S) /\ Len(Append(one, b)) = Len(one) + 1
      /\ \A i \in 1..Len(one) : Append(one, b)[i] = one[i]
      /\ Append(one, b)[Len(one) + 1] = b
  <2>1. one \in Seq(S) /\ b \in S
    BY <1>1
  <2> QED
    BY <2>1, AppendProperties
<1>4. Len(Append(one, b)) = 2 /\ \A i \in 1..2 : Append(one, b)[i] = two[i]
  BY <1>1, <1>2, <1>3
<1>5. Append(one, b) = two
  BY <1>2, <1>3, <1>4, SeqEqual
<1> QED
  BY <1>5 DEF one, two

LEMMA LockStep == TypeOK /\ ParseInv /\ StreamInv /\ LockInv /\ [Next]_vars => LockInv'
<1> SUFFICES ASSUME TypeOK, ParseInv, StreamInv, LockInv, [Next]_vars PROVE LockInv'
  OBVIOUS
<1>1. CASE Reads \/ TorConnects \/ TorRefuses \/ CancelDial \/ PumpDone \/ CancelPump
  <2>1. CASE conf.kind = "client_connect" /\ cp \notin {"gone", "open"}
    BY <1>1, <2>1, LockHandle
  <2>2. CASE ~(conf.kind = "client_connect" /\ cp \notin {"gone", "open"})
    <3>1. sp # "ended"
      BY <1>1 DEF Reads, ReadHdr, SelectMethod, ReadAuthVersion, CheckCreds, ReadRequest, ReadAddress, ReadPort,
                  ReadEof, TorConnects, TorRefuses, CancelDial, PumpDone, CancelPump, At, Handshake
    <3>2. UNCHANGED client
      BY <1>1, HandleKeeps
    <3> QED
      BY <2>2, <3>1, <3>2 DEF LockInv, client
  <2> QED
    BY <2>1, <2>2
<1>2. CASE Client \/ Vanish
  BY <1>2, LockHear
<1>3. CASE Cancel \/ TorLost \/ (\E d \in Dirs : Emit(d) \/ Copy(d)) \/ UNCHANGED vars
  <2>1. UNCHANGED <<client, server, s2c>>
    BY <1>3 DEF Cancel, TorLost, Emit, Copy, vars
  <2> QED
    BY <2>1 DEF LockInv, client, server
<1> QED
  BY <1>1, <1>2, <1>3 DEF Next

\* A client_connect hears its answer: the stream ends without one only when
\* handle() gave none, on an address it cannot use or a dial that failed
\* (arti_pipeline.rs:227-353 and 496-560).
THEOREM AnswerHeard == Spec => []VerdictHeard
<1>1. Init => ParseInv
  BY DEF Init, ParseInv
<1>2. Init => LockInv
  BY DEF Init, LockInv
<1>3. LockInv => VerdictHeard
  <2> SUFFICES ASSUME LockInv, conf.kind = "client_connect", heard = "eof"
               PROVE  why \in {"err", "refused"} /\ wrote = << <<5, 2>>, <<1, 0>> >>
    BY DEF VerdictHeard
  <2>1. Append(<< <<5, 2>> >>, <<1, 0>>) = << <<5, 2>>, <<1, 0>> >>
    BY TwoOfOne
  <2> QED
    BY <2>1 DEF LockInv, Admitted, Chosen
<1> QED
  BY TypeCorrect, ParseStep, StreamStart, StreamStep, LockStep, <1>1, <1>2, <1>3, PTL DEF Spec
=============================================================================
