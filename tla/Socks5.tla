------------------------------- MODULE Socks5 -------------------------------
(* One connection of arti's SOCKS5 inbound (arti_pipeline.rs): handle(), the  *)
(* client at the other end of the TCP stream, and the Tor stream it is joined *)
(* to.  The client is socks5_proto::client_connect or a peer that asks for    *)
(* something else; both send the next message once the last one is answered,  *)
(* and may vanish in the middle of one.                                       *)
(*                                                                            *)
(* Bytes are numbers, and lengths are bytes of the stream, so that a wrong    *)
(* length makes the server read later bytes as something they are not.        *)
EXTENDS Naturals, Sequences, SequencesExt

CONSTANTS
  Clients,  \* what a client may want: the records of ClientShape
  Creds,    \* the inbound's credentials: <<user, pass>>
  MaxLen,   \* the largest length a byte holds (255 in the code)
  MaxUnits  \* bound: units of payload in each direction

Bytes == Seq(Nat)

\* kind "client_connect" is the client of socks5_proto, "peer" any other;
\* vers are the version bytes of its three messages.
ClientShape == [kind : {"client_connect", "peer"}, vers : Nat \X Nat \X Nat, methods : Bytes,
                user : Bytes, pass : Bytes, cmd : Nat, atyp : Nat, host : Bytes, port : Nat \X Nat]

ASSUME ClientsAssumption == Clients \subseteq ClientShape
\* The client of socks5_proto offers one method, and asks for a domain name.
ASSUME ClientConnectAssumption ==
  \A c \in Clients : c.kind = "client_connect" =>
    c.vers = <<5, 1, 5>> /\ c.methods = <<2>> /\ c.cmd = 1 /\ c.atyp = 3
ASSUME CredsAssumption == Creds \in Bytes \X Bytes
ASSUME BoundsAssumption == MaxLen \in Nat \ {0} /\ MaxUnits \in Nat

VARIABLES
  conf,      \* the client
  cp,        \* where it is; "gone" once its socket is closed
  heard,     \* what client_connect returned: its reply code is 0, is not 0, or none came
  c2s, s2c,  \* sent and not read: bytes to the server, its messages to the client
  sp,        \* what handle() reads next, or "dial", "pump", "ended"
  local,     \* its local variable: nmethods, then atyp
  seen,      \* history: the bytes it has read
  wrote,     \* history: the messages it has written
  target,    \* <<atyp, host, port>>, or <<>>
  why,       \* history: how handle() ended
  cancelled, \* the session's token
  flow,      \* payload: sent, copied and ended, up (to Tor) and down
  lost       \* the Tor stream has failed

client == <<conf, cp, heard>>
server == <<sp, local, seen, wrote, target, why>>
payload == <<flow, lost>>
vars == <<client, c2s, s2c, server, cancelled, payload>>

Handshake == {"hdr", "methods", "av", "cred", "req", "addr", "port"}
Dirs == {"up", "down"}

Init ==
  /\ conf \in Clients
  /\ cp = "greet" /\ heard = "none"
  /\ c2s = <<>> /\ s2c = <<>>
  /\ sp = "hdr" /\ local = 0 /\ seen = <<>> /\ wrote = <<>> /\ target = <<>> /\ why = "none"
  /\ cancelled = FALSE
  /\ flow = [d \in Dirs |-> [sent |-> 0, closed |-> FALSE, copied |-> 0, done |-> FALSE]]
  /\ lost = FALSE

-----------------------------------------------------------------------------
(* The client.                                                                *)

\* `len() as u8`
AsU8(n) == n % (MaxLen + 1)
Sized(s) == <<AsU8(Len(s))>> \o s

Greeting == <<conf.vers[1]>> \o Sized(conf.methods)
Auth == <<conf.vers[2]>> \o Sized(conf.user) \o Sized(conf.pass)
Request == <<conf.vers[3], conf.cmd, 0, conf.atyp>>
           \o (IF conf.atyp = 3 THEN Sized(conf.host) ELSE conf.host) \o conf.port

\* client_connect refuses what its length bytes cannot hold.
Oversize == \E s \in {conf.user, conf.pass, conf.host} : Len(s) > MaxLen

\* Mutant of Fits: the lengths are not checked.
FitsUnchecked == TRUE
Fits == conf.kind = "client_connect" => ~Oversize

Send(at, msg, next) ==
  /\ cp = at
  /\ c2s' = IF sp = "ended" THEN c2s ELSE c2s \o msg
  /\ cp' = next
  /\ UNCHANGED <<conf, heard, s2c, server, cancelled, payload>>

\* The call returns, and its caller drops the stream unless it may use it.
Return(r) ==
  /\ heard' = r
  /\ cp' = IF r = "ok" THEN "open" ELSE "gone"
  /\ UNCHANGED <<conf, c2s, server, cancelled, payload>>

\* An answer, or the end of the stream where one was expected.
Hear(at, expected, next) ==
  /\ cp = at
  /\ \/ /\ s2c # <<>>
        /\ s2c' = Tail(s2c)
        /\ IF Head(s2c) = expected
           THEN cp' = next /\ UNCHANGED <<conf, heard, c2s, server, cancelled, payload>>
           ELSE Return("err")
     \/ s2c = <<>> /\ sp = "ended" /\ Return("eof") /\ UNCHANGED s2c

TooLong == cp = "greet" /\ ~Fits /\ Return("err") /\ UNCHANGED s2c
Greet == Fits /\ Send("greet", Greeting, "selected")
Selected == Hear("selected", <<5, 2>>, "auth")
Authenticate == Send("auth", Auth, "verdict")
Verdict == Hear("verdict", <<1, 0>>, "request")
Ask == Send("request", Request, "reply")

\* client_connect returns the code, whatever it is.
Reply ==
  /\ cp = "reply"
  /\ \/ s2c # <<>> /\ s2c' = Tail(s2c) /\ Return(IF Head(s2c)[2] = 0 THEN "ok" ELSE "refused")
     \/ s2c = <<>> /\ sp = "ended" /\ Return("eof") /\ UNCHANGED s2c

\* The client's process ends: the last message may have been sent in part.
Vanish ==
  /\ cp # "gone"
  /\ cp' = "gone"
  /\ \E k \in 0..Len(c2s) : c2s' = SubSeq(c2s, 1, k)
  /\ UNCHANGED <<conf, heard, s2c, server, cancelled, payload>>

Client == TooLong \/ Greet \/ Selected \/ Authenticate \/ Verdict \/ Ask \/ Reply

-----------------------------------------------------------------------------
(* handle(): the handshake.                                                   *)

\* Mutant of CredLen: the user alone is read before the answer.
CredLenUser == IF c2s = <<>> THEN 1 ELSE c2s[1] + 1

\* A length and the user, a length and the password.
CredLen ==
  IF c2s = <<>> \/ Len(c2s) < c2s[1] + 2 THEN Len(c2s) + 1 ELSE c2s[1] + 2 + c2s[c2s[1] + 2]

\* What the next read_exact, or the next few without a decision between them,
\* take from the stream.
Need ==
  CASE sp = "hdr" -> 2
    [] sp = "methods" -> local
    [] sp = "av" -> 1
    [] sp = "cred" -> CredLen
    [] sp = "req" -> 4
    [] sp = "addr" -> CASE local = 1 -> 4
                        [] local = 4 -> 16
                        [] OTHER -> IF c2s = <<>> THEN 1 ELSE 1 + c2s[1]
    [] sp = "port" -> 2
    [] OTHER -> 0

Ready == Len(c2s) >= Need
Taken == IF Ready THEN SubSeq(c2s, 1, Need) ELSE c2s
Rest == IF Ready THEN SubSeq(c2s, Need + 1, Len(c2s)) ELSE <<>>
At(phase) == sp = phase /\ Ready

\* handle() returns, having written msgs, and the stream is dropped.  Bytes
\* not read make the kernel reset the connection, and what the client has not
\* read by then it may never read.
End(msgs, r) ==
  /\ sp' = "ended" /\ why' = r
  /\ seen' = seen \o Taken
  /\ wrote' = wrote \o msgs
  /\ c2s' = <<>>
  /\ \E k \in (IF Rest = <<>> THEN {Len(s2c \o msgs)} ELSE 0..Len(s2c \o msgs)) :
       s2c' = SubSeq(s2c \o msgs, 1, k)
  /\ UNCHANGED <<client, local, target, cancelled, payload>>

\* It goes on to `phase`; a write to a client that is gone may fail.
Advance(phase, l, msgs) ==
  \/ /\ sp' = phase /\ local' = l
     /\ seen' = seen \o Taken
     /\ wrote' = wrote \o msgs
     /\ c2s' = Rest
     /\ s2c' = s2c \o msgs
     /\ UNCHANGED <<client, target, why, cancelled, payload>>
  \/ msgs # <<>> /\ cp = "gone" /\ End(<<>>, "io")

ReadHdr ==
  /\ At("hdr")
  /\ IF Taken[1] = 5 THEN Advance("methods", Taken[2], <<>>) ELSE End(<<>>, "err")

SelectMethod ==
  /\ At("methods")
  /\ IF Contains(Taken, 2) THEN Advance("av", 0, << <<5, 2>> >>) ELSE End(<< <<5, 255>> >>, "err")

ReadAuthVersion ==
  /\ At("av")
  /\ IF Taken[1] = 1 THEN Advance("cred", 0, <<>>) ELSE End(<<>>, "err")

GivenUser == SubSeq(Taken, 2, Taken[1] + 1)
GivenPass == SubSeq(Taken, Taken[1] + 3, Len(Taken))

CheckCreds ==
  /\ At("cred")
  /\ IF GivenUser = Creds[1] /\ GivenPass = Creds[2]
     THEN Advance("req", 0, << <<1, 0>> >>)
     ELSE End(<< <<1, 1>> >>, "err")

\* Mutant of ReadRequest: the command is not looked at.
ReadRequestAnyCommand ==
  /\ At("req")
  /\ IF Taken[1] # 5 THEN End(<<>>, "err")
     ELSE IF Taken[4] \notin {1, 3, 4} THEN End(<< <<5, 8>> >>, "err")
     ELSE Advance("addr", Taken[4], <<>>)
ReadRequest ==
  /\ At("req")
  /\ IF Taken[1] # 5 THEN End(<<>>, "err")
     ELSE IF Taken[2] # 1 THEN End(<< <<5, 7>> >>, "err")
     ELSE IF Taken[4] \notin {1, 3, 4} THEN End(<< <<5, 8>> >>, "err")
     ELSE Advance("addr", Taken[4], <<>>)

Utf8(s) == \A i \in DOMAIN s : s[i] < 128
Host(atyp, bytes) == IF atyp = 3 THEN Tail(bytes) ELSE bytes

ReadAddress ==
  /\ At("addr")
  /\ IF local = 3 /\ ~Utf8(Host(local, Taken)) THEN End(<<>>, "err")
     ELSE /\ sp' = "port" /\ target' = <<local, Host(local, Taken)>>
          /\ seen' = seen \o Taken /\ c2s' = Rest
          /\ UNCHANGED <<client, s2c, local, wrote, why, cancelled, payload>>

ReadPort ==
  /\ At("port")
  /\ sp' = "dial" /\ target' = Append(target, Taken)
  /\ seen' = seen \o Taken /\ c2s' = Rest
  /\ UNCHANGED <<client, s2c, local, wrote, why, cancelled, payload>>

\* read_exact meets the end of the stream.
ReadEof == sp \in Handshake /\ ~Ready /\ cp = "gone" /\ End(<<>>, "eof")

-----------------------------------------------------------------------------
(* handle(): connecting and copying.                                          *)

Code(n) == << <<5, n>> >>

TorConnects == At("dial") /\ Advance("pump", 0, Code(0))
TorRefuses == At("dial") /\ \E msgs \in {<<>>, Code(5)} : End(msgs, "refused")

\* Mutant of CancelDial: the dial does not watch the token.
CancelDialIgnored == FALSE /\ UNCHANGED vars
CancelDial == At("dial") /\ cancelled /\ End(Code(1), "cancelled")

\* One direction of the payload: its source sends a unit or ends; a copy moves
\* one, and is done at the end of the stream or when the other end is lost.
Emit(d) ==
  /\ sp = "pump" /\ (d = "up" => cp = "open")
  /\ ~flow[d].closed
  /\ \/ flow[d].sent < MaxUnits /\ flow' = [flow EXCEPT ![d].sent = @ + 1]
     \/ flow' = [flow EXCEPT ![d].closed = TRUE]
  /\ UNCHANGED <<client, c2s, s2c, server, cancelled, lost>>

\* A closed socket is the end of the client's stream, and refuses data.
Ended(d) == flow[d].closed \/ (d = "up" /\ cp = "gone")

Copy(d) ==
  /\ sp = "pump" /\ ~flow[d].done
  /\ \/ flow[d].copied < flow[d].sent /\ flow' = [flow EXCEPT ![d].copied = @ + 1]
     \/ flow[d].copied = flow[d].sent /\ Ended(d) /\ flow' = [flow EXCEPT ![d].done = TRUE]
     \/ (lost \/ (d = "down" /\ cp = "gone")) /\ flow' = [flow EXCEPT ![d].done = TRUE]
  /\ UNCHANGED <<client, c2s, s2c, server, cancelled, lost>>

TorLost ==
  /\ sp = "pump" /\ ~lost /\ lost' = TRUE
  /\ UNCHANGED <<client, c2s, s2c, server, cancelled, flow>>

\* Mutant of Joined: the first direction that is done ends the other.
JoinedFirst == \E d \in Dirs : flow[d].done
Joined == \A d \in Dirs : flow[d].done

PumpDone == sp = "pump" /\ Joined /\ End(<<>>, "done")
CancelPump == sp = "pump" /\ cancelled /\ End(<<>>, "cancelled")

Cancel ==
  /\ ~cancelled /\ cancelled' = TRUE
  /\ UNCHANGED <<client, c2s, s2c, server, payload>>

Reads == ReadHdr \/ SelectMethod \/ ReadAuthVersion \/ CheckCreds \/ ReadRequest
         \/ ReadAddress \/ ReadPort \/ ReadEof
Copies == \E d \in Dirs : Copy(d)

Next ==
  \/ Client \/ Vanish \/ Cancel
  \/ Reads \/ TorConnects \/ TorRefuses \/ CancelDial
  \/ \E d \in Dirs : Emit(d) \/ Copy(d)
  \/ TorLost \/ PumpDone \/ CancelPump

\* The tasks of handle() and of client_connect are polled when they are ready,
\* and a token that is cancelled wakes them.  Nothing is assumed of Tor, of a
\* peer, or of what either sends.
Fairness ==
  /\ WF_vars(Reads) /\ WF_vars(CancelDial) /\ WF_vars(CancelPump) /\ WF_vars(PumpDone)
  /\ WF_vars(Copies)
  /\ WF_vars(conf.kind = "client_connect" /\ Client)

Spec == Init /\ [][Next]_vars /\ Fairness

-----------------------------------------------------------------------------
(* socks5_proto::server_handshake, the copy of the handshake that the unit    *)
(* tests run, as a function of the bytes read so far: what it has returned    *)
(* ("wait" while it needs more), what it has written, and the target.         *)
ServerHandshake(b) ==
  LET Outcome(o, w, t) == [out |-> o, wrote |-> w, target |-> t]
      n == b[2]                    \* the methods are b[3 .. n + 2]
      v == n + 3                   \* b[v] is the version of the subnegotiation
      u == b[v + 1]
      p == b[v + u + 2]
      q == v + u + p + 3           \* b[q .. q + 3] is the request
      ok == /\ SubSeq(b, v + 2, v + u + 1) = Creds[1]
            /\ SubSeq(b, v + u + 3, v + u + p + 2) = Creds[2]
      atyp == b[q + 3]
      first == IF atyp = 3 THEN q + 5 ELSE q + 4
      last == CASE atyp = 1 -> q + 7 [] atyp = 4 -> q + 19 [] OTHER -> q + 4 + b[q + 4]
      host == SubSeq(b, first, last)
      sel == << <<5, 2>> >>
      in == Append(sel, <<1, 0>>)
  IN IF Len(b) < 2 THEN Outcome("wait", <<>>, <<>>)
     ELSE IF b[1] # 5 THEN Outcome("err", <<>>, <<>>)
     ELSE IF Len(b) < n + 2 THEN Outcome("wait", <<>>, <<>>)
     ELSE IF ~Contains(SubSeq(b, 3, n + 2), 2) THEN Outcome("err", << <<5, 255>> >>, <<>>)
     ELSE IF Len(b) < v THEN Outcome("wait", sel, <<>>)
     ELSE IF b[v] # 1 THEN Outcome("err", sel, <<>>)
     ELSE IF Len(b) < v + 1 \/ Len(b) < v + u + 2 \/ Len(b) < q - 1 THEN Outcome("wait", sel, <<>>)
     ELSE IF ~ok THEN Outcome("err", Append(sel, <<1, 1>>), <<>>)
     ELSE IF Len(b) < q + 3 THEN Outcome("wait", in, <<>>)
     ELSE IF b[q] # 5 THEN Outcome("err", in, <<>>)
     ELSE IF b[q + 1] # 1 THEN Outcome("err", Append(in, <<5, 7>>), <<>>)
     ELSE IF atyp \notin {1, 3, 4} THEN Outcome("err", Append(in, <<5, 8>>), <<>>)
     ELSE IF Len(b) < q + 4 \/ Len(b) < last THEN Outcome("wait", in, <<>>)
     ELSE IF atyp = 3 /\ ~Utf8(host) THEN Outcome("err", in, <<>>)
     ELSE IF Len(b) < last + 2 THEN Outcome("wait", in, <<>>)
     ELSE Outcome("ok", in, <<atyp, host, SubSeq(b, last + 1, last + 2)>>)

-----------------------------------------------------------------------------

TypeOK ==
  /\ conf \in Clients
  /\ cp \in {"greet", "selected", "auth", "verdict", "request", "reply", "open", "gone"}
  /\ heard \in {"none", "ok", "refused", "err", "eof"}
  /\ c2s \in Bytes /\ seen \in Bytes
  /\ s2c \in Seq(Nat \X Nat) /\ wrote \in Seq(Nat \X Nat)
  /\ sp \in Handshake \cup {"dial", "pump", "ended"}
  /\ local \in Nat
  /\ why \in {"none", "err", "eof", "io", "refused", "cancelled", "done"}
  /\ cancelled \in BOOLEAN /\ lost \in BOOLEAN
  /\ flow \in [Dirs -> [sent : 0..MaxUnits, closed : BOOLEAN, copied : 0..MaxUnits, done : BOOLEAN]]

\* Tor is asked to connect only for a client that knows both credentials and
\* said CONNECT, and to the very target the client named: no length, whatever
\* the client was given, makes the two sides disagree about where a message
\* ends.
Agreement ==
  sp \in {"dial", "pump"} =>
    /\ <<conf.user, conf.pass>> = Creds
    /\ conf.cmd = 1
    /\ target = <<conf.atyp, conf.host, conf.port>>

\* handle() and socks5_proto::server_handshake, of which only the second is
\* tested, are the same protocol: after the same bytes they have written the
\* same messages and agree whether more is needed, the handshake has failed, or
\* it is over and with which target.  (A read of no bytes, that of a greeting
\* without methods, waits for nothing.)
CopiesAgree ==
  LET h == ServerHandshake(seen) IN
  /\ sp \in Handshake /\ Need > 0 => h.out = "wait" /\ h.wrote = wrote
  /\ sp \in {"dial", "pump"} => h.out = "ok" /\ h.target = target /\ IsPrefix(h.wrote, wrote)
  /\ why = "err" => h.out = "err" /\ h.wrote = wrote

\* A client_connect whose stream ends without an answer was given none: handle()
\* ended after the credentials on an address it cannot use.  An answer that is
\* the last thing written is not lost to a reset, since whatever ends handle()
\* has read all such a client had sent.
VerdictHeard ==
  conf.kind = "client_connect" /\ heard = "eof" =>
    why \in {"err", "refused"} /\ wrote = << <<5, 2>>, <<1, 0>> >>

\* A connection that ends by itself has carried everything: an end of one
\* direction does not cut the other short.
NothingCut ==
  why = "done" /\ cp = "open" /\ ~lost => \A d \in Dirs : flow[d].closed /\ flow[d].copied = flow[d].sent

\* A cancelled session lets go of a connection once its client speaks or hangs
\* up.  The handshake does not watch the token: it ends since client_connect
\* goes on with it, and the dial that follows watches.
CancelEnds == cancelled /\ conf.kind = "client_connect" ~> sp = "ended"
=============================================================================
