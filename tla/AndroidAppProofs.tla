-------------------------- MODULE AndroidAppProofs --------------------------
(* Theorems about AndroidApp, for any number of taps and revocations.         *)
EXTENDS AndroidApp, FiniteSetTheorems, SequenceTheorems, TLAPS

-----------------------------------------------------------------------------
(* The inductive invariants, each on top of the ones before it.               *)

\* TypeOK without the bounds on the counts.
Types ==
  /\ up \in BOOLEAN /\ phase \in {"free", "bootstrap", "connect", "stop"}
  /\ connects \in 0..MaxConnects
  /\ channel \in Seq(Messages) /\ inbox \in Seq(Intents)
  /\ answer \in [Calls -> {"none", "ok", "error"}]
  /\ dialogs \in Nat
  /\ startResult \in Calls \cup {None} /\ pendingProfile \in Calls \cup {None}
  /\ alive \in BOOLEAN /\ stopped \in BOOLEAN
  /\ pending \in BOOLEAN /\ latest \in {"none", "ok", "error"}
  /\ pfd \in Nat /\ session \in Nat /\ established \in Nat /\ open \in SUBSET Nat
  /\ main \in {"free", "starting", "shutdown", "destroy"}
  /\ started \in Seq(Calls \cup {None})
  /\ attempt \in Calls \cup {None}

\* The service the next message goes to is there already.
Here == alive /\ main # "destroy"

\* A service is made exactly where there is none, and at most one is being
\* destroyed: whatever stopSelf() and startService() do in which order.
NoDestroy(box) == \A i \in DOMAIN box : box[i].kind # "destroy"

InboxOk(box, here, stop) ==
  /\ \A i \in DOMAIN box :
       box[i].kind = "create" <=> IF i = 1 THEN ~here ELSE box[i - 1].kind = "destroy"
  /\ \A i, j \in DOMAIN box : box[i].kind = "destroy" /\ box[j].kind = "destroy" => i = j
  /\ ~NoDestroy(box) => here /\ ~stop
  /\ stop => here

InboxInv == InboxOk(inbox, Here, stopped)

\* What runs belongs to the service that is there.
ServiceInv ==
  /\ pfd # None \/ up \/ session # None \/ main # "free" => alive
  /\ main = "starting" => pfd # None
  /\ up <=> session # None /\ phase # "stop"
  /\ phase \in {"bootstrap", "connect"} => main = "starting"
  /\ phase = "stop" => main \in {"shutdown", "destroy"}
  /\ pfd # None => pfd \in open

\* The slot that holds the reply is empty, or holds the reply to a call that is
\* not answered; so are the calls that are still to be handled, and to be made.
AnswerInv ==
  /\ startResult # None => startResult <= connects /\ answer[startResult] = "none"
  /\ \A i \in DOMAIN channel : channel[i].kind = "startVpn" =>
       /\ channel[i].profile \in 1..connects
       /\ channel[i].profile # startResult
       /\ answer[channel[i].profile] = "none"
  /\ \A i, j \in DOMAIN channel :
       /\ channel[i].kind = "startVpn" /\ channel[j].kind = "startVpn"
       /\ channel[i].profile = channel[j].profile
       => i = j
  /\ \A c \in Calls : c > connects => answer[c] = "none"

\* The last of the messages s of either kind is a `stop`.
StopLast(s, stop, start) ==
  \E i \in DOMAIN s : /\ s[i].kind = stop
                      /\ \A j \in DOMAIN s : j > i => s[j].kind # start

NoStart(s, start) == \A i \in DOMAIN s : s[i].kind # start

\* The stop is in the inbox, or being done, or done.
Delivered ==
  \/ StopLast(inbox, "STOP", "START")
  \/ /\ NoStart(inbox, "START")
     /\ \/ main \in {"shutdown", "destroy"}
        \/ main = "free" /\ session = None

\* A stop that was tapped last is on the channel, in the inbox or being done,
\* with no start behind it.
WishInv ==
  /\ ~asked => dialogs = 0
  /\ wish = "disconnect" /\ ~asked =>
       \/ StopLast(channel, "stopVpn", "startVpn")
       \/ NoStart(channel, "startVpn") /\ Delivered

-----------------------------------------------------------------------------
(* Sequences, taken from the front and extended at the end.                   *)

LEMMA TailAt ==
  ASSUME NEW S, NEW s \in Seq(S), s # <<>>
  PROVE  /\ Tail(s) \in Seq(S) /\ Len(Tail(s)) = Len(s) - 1 /\ Len(s) \in Nat \ {0}
         /\ Head(s) = s[1] /\ Head(s) \in S /\ DOMAIN s = 1..Len(s)
         /\ DOMAIN Tail(s) = 1..(Len(s) - 1)
         /\ \A i \in DOMAIN Tail(s) : i + 1 \in DOMAIN s /\ Tail(s)[i] = s[i + 1]
<1>1. Len(s) \in Nat \ {0}
  BY EmptySeq
<1>2. Head(s) \in S /\ Tail(s) \in Seq(S) /\ Len(Tail(s)) = Len(s) - 1
  BY HeadTailProperties
<1>3. DOMAIN s = 1..Len(s) /\ DOMAIN Tail(s) = 1..(Len(s) - 1) /\ Head(s) = s[1]
  BY <1>2, LenProperties
<1>4. \A i \in 1..(Len(s) - 1) : Tail(s)[i] = s[i + 1]
  BY <1>2
<1> QED
  BY <1>1, <1>2, <1>3, <1>4

LEMMA AppendAt ==
  ASSUME NEW S, NEW s \in Seq(S), NEW e \in S
  PROVE  /\ Append(s, e) \in Seq(S) /\ Len(Append(s, e)) = Len(s) + 1 /\ Len(s) \in Nat
         /\ DOMAIN s = 1..Len(s) /\ DOMAIN Append(s, e) = 1..(Len(s) + 1)
         /\ \A i \in 1..Len(s) : Append(s, e)[i] = s[i]
         /\ Append(s, e)[Len(s) + 1] = e
BY AppendProperties, LenProperties

LEMMA TailStop ==
  ASSUME NEW S, NEW s \in Seq(S), s # <<>>, NEW a, NEW b, a # b
  PROVE  /\ StopLast(s, a, b) =>
              \/ StopLast(Tail(s), a, b)
              \/ Head(s).kind = a /\ NoStart(Tail(s), b)
         /\ NoStart(s, b) => NoStart(Tail(s), b)
<1>1. ASSUME StopLast(s, a, b)
      PROVE  \/ StopLast(Tail(s), a, b)
             \/ Head(s).kind = a /\ NoStart(Tail(s), b)
  <2>1. PICK i \in DOMAIN s : s[i].kind = a /\ \A j \in DOMAIN s : j > i => s[j].kind # b
    BY <1>1 DEF StopLast
  <2>2. CASE i = 1
    BY <2>1, <2>2, TailAt DEF NoStart
  <2>3. CASE i # 1
    <3>1. i - 1 \in DOMAIN Tail(s) /\ Tail(s)[i - 1].kind = a
      BY <2>1, <2>3, TailAt
    <3>2. \A j \in DOMAIN Tail(s) : j > i - 1 => Tail(s)[j].kind # b
      BY <2>1, TailAt
    <3>3. \E k \in DOMAIN Tail(s) :
            Tail(s)[k].kind = a /\ \A j \in DOMAIN Tail(s) : j > k => Tail(s)[j].kind # b
      BY <3>1, <3>2
    <3> QED
      BY <3>3 DEF StopLast
  <2> QED
    BY <2>2, <2>3
<1>2. ASSUME NoStart(s, b) PROVE NoStart(Tail(s), b)
  BY <1>2, TailAt DEF NoStart
<1> QED
  BY <1>1, <1>2

LEMMA AppendStop ==
  ASSUME NEW S, NEW s \in Seq(S), NEW e \in S, NEW a, NEW b, a # b
  PROVE  /\ e.kind = a => StopLast(Append(s, e), a, b)
         /\ e.kind # b => /\ StopLast(s, a, b) => StopLast(Append(s, e), a, b)
                          /\ NoStart(s, b) => NoStart(Append(s, e), b)
<1>1. ASSUME e.kind = a PROVE StopLast(Append(s, e), a, b)
  <2>1. Len(s) + 1 \in DOMAIN Append(s, e) /\ Append(s, e)[Len(s) + 1].kind = a
    BY <1>1, AppendAt
  <2>2. \A j \in DOMAIN Append(s, e) : j > Len(s) + 1 => Append(s, e)[j].kind # b
    BY AppendAt
  <2> QED
    BY <2>1, <2>2 DEF StopLast
<1>2. ASSUME e.kind # b, StopLast(s, a, b) PROVE StopLast(Append(s, e), a, b)
  <2>1. PICK i \in DOMAIN s : s[i].kind = a /\ \A j \in DOMAIN s : j > i => s[j].kind # b
    BY <1>2 DEF StopLast
  <2>2. i \in DOMAIN Append(s, e) /\ Append(s, e)[i].kind = a
    BY <2>1, AppendAt
  <2>3. ASSUME NEW j \in DOMAIN Append(s, e), j > i PROVE Append(s, e)[j].kind # b
    <3>1. CASE j = Len(s) + 1
      BY <1>2, <3>1, AppendAt
    <3>2. CASE j \in DOMAIN s
      BY <2>1, <2>3, <3>2, AppendAt
    <3> QED
      BY <3>1, <3>2, AppendAt
  <2> QED
    BY <2>2, <2>3 DEF StopLast
<1>3. ASSUME e.kind # b, NoStart(s, b) PROVE NoStart(Append(s, e), b)
  <2> SUFFICES ASSUME NEW j \in DOMAIN Append(s, e) PROVE Append(s, e)[j].kind # b
    BY DEF NoStart
  <2>1. CASE j = Len(s) + 1
    BY <1>3, <2>1, AppendAt
  <2>2. CASE j \in DOMAIN s
    BY <1>3, <2>2, AppendAt DEF NoStart
  <2> QED
    BY <2>1, <2>2, AppendAt
<1> QED
  BY <1>1, <1>2, <1>3

-----------------------------------------------------------------------------
(* A callback and an outcome on the bus.                                      *)

LEMMA PushKeepsBus ==
  ASSUME NEW r, BusExclusive, pending \in BOOLEAN, PushResult(r)
  PROVE  BusExclusive'
BY DEF PushResult, BusExclusive

LEMMA LaunchKeepsBus ==
  ASSUME NEW c, NEW p, BusExclusive, LaunchService(c, p)
  PROVE  BusExclusive'
BY DEF LaunchService, BusExclusive

LEMMA BusStep == BusExclusive /\ [Next]_vars => BusExclusive'
<1> SUFFICES ASSUME BusExclusive, [Next]_vars PROVE BusExclusive'
  OBVIOUS
<1> USE DEF BusExclusive, busVars
<1>1. CASE TapConnect \/ TapDisconnect \/ PollStatus \/ AnswerArrives \/ OnStopVpn
           \/ DialogDenied \/ OnCreate \/ OnStop \/ OnDestroy
  BY <1>1 DEF TapConnect, TapDisconnect, PollStatus, AnswerArrives, OnStopVpn, DialogDenied,
       OnCreate, OnStop, OnDestroy
<1>2. CASE CoreProgress \/ NativeStop \/ Release \/ BringDown \/ Revoke \/ CollectGarbage
           \/ UNCHANGED vars
  BY <1>2 DEF CoreProgress, NativeStop, Release, BringDown, Revoke, CollectGarbage, vars
<1>3. CASE OnStartVpn
  BY <1>3, LaunchKeepsBus DEF OnStartVpn
<1>4. CASE DialogAllowed
  BY <1>4, LaunchKeepsBus DEF DialogAllowed
<1>5. CASE OnStart
  BY <1>5 DEF OnStart, PushResult
<1>6. CASE StartOk
  BY <1>6 DEF StartOk, PushResult
<1>7. CASE StartError
  BY <1>7 DEF StartError, PushResult
<1> QED
  BY <1>1, <1>2, <1>3, <1>4, <1>5, <1>6, <1>7 DEF Next

\* The result bus keeps a callback or an outcome, never both, whatever order
\* launchService() and the service's results come in
\* (MainActivity.kt:80-103, Vpn21VpnService.kt:160-183).
THEOREM OneOnTheBus == Spec => []BusExclusive
<1>1. Init => BusExclusive
  BY DEF Init, BusExclusive
<1> QED
  BY <1>1, BusStep, PTL DEF Spec

-----------------------------------------------------------------------------
(* Types.                                                                     *)

LEMMA SendIntentTypes ==
  ASSUME inbox \in Seq(Intents), NEW k \in {"START", "STOP"}, NEW p \in Calls \cup {None},
         SendIntent(k, p)
  PROVE  inbox' \in Seq(Intents) /\ inbox' # <<>> /\ alive' = alive /\ stopped' = FALSE
<1>1. [kind |-> "create", profile |-> None] \in Intents /\ [kind |-> k, profile |-> p] \in Intents
  BY DEF Intents
<1>2. Append(inbox, [kind |-> "create", profile |-> None]) \in Seq(Intents)
  BY <1>1, AppendProperties
<1> QED
  BY <1>1, <1>2, AppendProperties DEF SendIntent

LEMMA ReplyTypes ==
  ASSUME answer \in [Calls -> {"none", "ok", "error"}],
         NEW c \in Calls \cup {None}, NEW r \in {"ok", "error"}, Reply(c, r)
  PROVE  /\ answer' \in [Calls -> {"none", "ok", "error"}]
         /\ answer' = IF c = None THEN answer ELSE [answer EXCEPT ![c] = r]
BY DEF Reply, answerVars

LEMMA PushResultTypes ==
  ASSUME Types, NEW r \in {"ok", "error"}, PushResult(r)
  PROVE  /\ answer' \in [Calls -> {"none", "ok", "error"}]
         /\ pending' \in BOOLEAN /\ latest' \in {"none", "ok", "error"}
         /\ startResult' \in Calls \cup {None}
<1>1. CASE pending
  BY <1>1, ReplyTypes DEF PushResult, Types
<1>2. CASE ~pending
  BY <1>2 DEF PushResult, Types, answerVars
<1> QED
  BY <1>1, <1>2

LEMMA LaunchServiceTypes ==
  ASSUME Types, NEW c \in Calls \cup {None}, NEW p \in Calls \cup {None}, LaunchService(c, p)
  PROVE  /\ inbox' \in Seq(Intents) /\ inbox' # <<>> /\ alive' = alive /\ stopped' = FALSE
         /\ answer' \in [Calls -> {"none", "ok", "error"}]
         /\ pending' \in BOOLEAN /\ latest' \in {"none", "ok", "error"}
         /\ startResult' \in Calls \cup {None}
<1>1. inbox' \in Seq(Intents) /\ inbox' # <<>> /\ alive' = alive /\ stopped' = FALSE
  BY SendIntentTypes DEF LaunchService, Types
<1>2. CASE latest # "none"
  <2>1. latest \in {"ok", "error"}
    BY <1>2 DEF Types
  <2> QED
    BY <1>1, <1>2, <2>1, ReplyTypes DEF LaunchService, Types
<1>3. CASE latest = "none"
  BY <1>1, <1>3 DEF LaunchService, Types, answerVars
<1> QED
  BY <1>2, <1>3

LEMMA TypesInit == Init => Types
<1> SUFFICES ASSUME Init PROVE Types
  OBVIOUS
<1>1. answer \in [Calls -> {"none", "ok", "error"}] /\ connects \in 0..MaxConnects
  BY TapAssumption DEF Init
<1>2. channel \in Seq(Messages) /\ inbox \in Seq(Intents) /\ started \in Seq(Calls \cup {None})
  BY EmptySeq DEF Init
<1> QED
  BY <1>1, <1>2 DEF Init, Core!Init, Types, None

LEMMA TypesStep == Types /\ [Next]_vars => Types'
<1> SUFFICES ASSUME Types, [Next]_vars PROVE Types'
  OBVIOUS
<1> USE DEF uiVars, activityVars, answerVars, busVars, fdVars, serviceVars, coreVars, mainVars
<1>1. CASE TapConnect
  <2>1. connects + 1 \in 1..MaxConnects
    BY <1>1, TapAssumption DEF TapConnect, Types
  <2>2. [kind |-> "startVpn", profile |-> connects + 1] \in Messages
    BY <2>1 DEF Messages, Calls
  <2>3. channel' \in Seq(Messages)
    BY <1>1, <2>2, AppendProperties DEF TapConnect, Post, Types
  <2> QED
    BY <1>1, <2>1, <2>3 DEF TapConnect, Types
<1>2. CASE TapDisconnect
  <2>1. [kind |-> "stopVpn", profile |-> None] \in Messages
    BY DEF Messages
  <2>2. channel' \in Seq(Messages)
    BY <1>2, <2>1, AppendProperties DEF TapDisconnect, Post, Types
  <2> QED
    BY <1>2, <2>2 DEF TapDisconnect, Types
<1>3. CASE PollStatus
  BY <1>3 DEF PollStatus, Types
<1>4. CASE AnswerArrives
  BY <1>4 DEF AnswerArrives, Types
<1>5. CASE UNCHANGED vars
  BY <1>5 DEF vars, Types
<1>6. CASE OnStartVpn
  <2>1. channel' \in Seq(Messages) /\ Head(channel) \in Messages
    BY <1>6, TailAt DEF OnStartVpn, Types
  <2>2. Head(channel).profile \in Calls \cup {None}
    BY <2>1 DEF Messages
  <2>3. CASE granted
    BY <1>6, <2>1, <2>2, <2>3, LaunchServiceTypes DEF OnStartVpn, Types
  <2>4. CASE ~granted
    BY <1>6, <2>1, <2>2, <2>4 DEF OnStartVpn, Types
  <2> QED
    BY <2>3, <2>4
<1>7. CASE OnStopVpn
  <2>1. channel' \in Seq(Messages)
    BY <1>7, TailAt DEF OnStopVpn, Types
  <2>2. inbox' \in Seq(Intents) /\ alive' = alive /\ stopped' = FALSE
    BY <1>7, SendIntentTypes DEF OnStopVpn, Types
  <2> QED
    BY <1>7, <2>1, <2>2 DEF OnStopVpn, Types
<1>8. CASE DialogAllowed
  <2>1. startResult \in Calls \cup {None} /\ pendingProfile \in Calls \cup {None}
    BY DEF Types
  <2>2. LaunchService(startResult, pendingProfile)
    BY <1>8 DEF DialogAllowed
  <2>3. /\ inbox' \in Seq(Intents) /\ alive' = alive /\ stopped' = FALSE
        /\ answer' \in [Calls -> {"none", "ok", "error"}]
        /\ pending' \in BOOLEAN /\ latest' \in {"none", "ok", "error"}
        /\ startResult' \in Calls \cup {None}
    BY <2>1, <2>2, LaunchServiceTypes
  <2>4. /\ dialogs' \in Nat
        /\ UNCHANGED <<connects, channel, pendingProfile, pfd, open, established, main, attempt,
                       started, session, up, phase>>
    BY <1>8 DEF DialogAllowed, Types
  <2> QED
    BY <2>3, <2>4 DEF Types
<1>9. CASE DialogDenied
  BY <1>9, ReplyTypes DEF DialogDenied, Types
<1>10. CASE OnCreate
  BY <1>10, TailAt DEF OnCreate, Handle, Types
<1>11. CASE OnStop
  BY <1>11, TailAt DEF OnStop, Handle, Types
<1>12. CASE OnDestroy
  BY <1>12, TailAt DEF OnDestroy, Handle, Types
<1>13. CASE OnStart
  <2>1. inbox' \in Seq(Intents) /\ Head(inbox).profile \in Calls \cup {None}
    <3>1. inbox \in Seq(Intents) /\ inbox # <<>> /\ inbox' = Tail(inbox)
      BY <1>13 DEF OnStart, Handle, Types
    <3>2. inbox' \in Seq(Intents) /\ Head(inbox) \in Intents
      BY <3>1, TailAt
    <3> QED
      BY <3>2 DEF Intents
  <2>2. CASE granted
    <3>1. established' \in Nat /\ pfd' \in Nat /\ open' \in SUBSET Nat
      <4>1. /\ established' = established + 1
            /\ pfd' = established' /\ open' = open \cup {established'}
        BY <1>13, <2>2 DEF OnStart
      <4> QED
        BY <4>1 DEF Types
    <3> QED
      BY <1>13, <2>1, <2>2, <3>1 DEF OnStart, Types
  <2>3. CASE ~granted
    <3>1. stopped' \in BOOLEAN
      BY <1>13, <2>3 DEF OnStart, StopSelf
    <3>2. /\ answer' \in [Calls -> {"none", "ok", "error"}]
          /\ pending' \in BOOLEAN /\ latest' \in {"none", "ok", "error"}
          /\ startResult' \in Calls \cup {None}
      BY <1>13, <2>3, PushResultTypes DEF OnStart
    <3>3. /\ pfd' = 0
          /\ UNCHANGED <<connects, channel, dialogs, pendingProfile, alive, open, established, main,
                         attempt, started, session, up, phase>>
      BY <1>13, <2>3 DEF OnStart, None
    <3> QED
      BY <2>1, <3>1, <3>2, <3>3 DEF Types
  <2> QED
    BY <2>2, <2>3
<1>14. CASE CoreProgress
  BY <1>14 DEF CoreProgress, Core!Begin, Core!Tunnel, Types
<1>15. CASE StartOk
  <2>1. started' \in Seq(Calls \cup {None})
    BY <1>15, AppendProperties DEF StartOk, Types
  <2> QED
    BY <1>15, <2>1, PushResultTypes DEF StartOk, Core!Succeed, Types
<1>16. CASE StartError
  BY <1>16, PushResultTypes DEF StartError, Core!Fail, Types
<1>17. CASE NativeStop
  <2>1. CASE Core!Disconnect /\ UNCHANGED session
    BY <1>17, <2>1 DEF NativeStop, Core!Disconnect, Types
  <2>2. CASE Core!Finish /\ session' = None
    BY <1>17, <2>2 DEF NativeStop, Core!Finish, Types, None
  <2> QED
    BY <1>17, <2>1, <2>2 DEF NativeStop
<1>18. CASE Release
  BY <1>18 DEF Release, StopSelf, Types, None
<1>19. CASE BringDown
  <2>1. [kind |-> "destroy", profile |-> None] \in Intents
    BY DEF Intents
  <2> QED
    BY <1>19, <2>1, AppendProperties, ZenonT(40) DEF BringDown, Types
<1>20. CASE Revoke
  <2>1. stopped' \in BOOLEAN
    BY <1>20 DEF Revoke, StopSelf, Types
  <2> QED
    BY <1>20, <2>1 DEF Revoke, Types
<1>21. CASE CollectGarbage
  BY <1>21 DEF CollectGarbage, Types
<1> QED
  BY <1>1, <1>2, <1>3, <1>4, <1>5, <1>6, <1>7, <1>8, <1>9, <1>10, <1>11, <1>12, <1>13,
     <1>14, <1>15, <1>16, <1>17, <1>18, <1>19, <1>20, <1>21 DEF Next

-----------------------------------------------------------------------------
(* The inbox and the life of the service.                                     *)

\* Existing says what it means: the next message finds a service.
LEMMA ExistingMeans ==
  ASSUME Types, InboxInv, main # "destroy"
  PROVE  ~Existing <=> IF inbox = <<>> THEN ~Here ELSE inbox[Len(inbox)].kind = "destroy"
<1>1. DOMAIN inbox = 1..Len(inbox) /\ Len(inbox) \in Nat /\ (inbox = <<>> <=> Len(inbox) = 0)
  BY EmptySeq, LenProperties DEF Types
<1>2. CASE inbox = <<>>
  BY <1>1, <1>2 DEF Existing, Here
<1>3. CASE inbox # <<>> /\ inbox[Len(inbox)].kind = "destroy"
  <2>1. Len(inbox) \in DOMAIN inbox
    BY <1>1, <1>3
  <2>2. ASSUME NEW i \in DOMAIN inbox, inbox[i].kind = "create" PROVE i < Len(inbox)
    BY <1>1, <1>3, <2>2
  <2> QED
    BY <1>1, <1>3, <2>1, <2>2 DEF Existing
<1>4. CASE inbox # <<>> /\ inbox[Len(inbox)].kind # "destroy"
  <2>1. CASE NoDestroy(inbox) /\ Here
    BY <2>1, <1>1, <1>4 DEF Existing, NoDestroy, Here
  <2>2. CASE NoDestroy(inbox) /\ ~Here
    <3>1. inbox[1].kind = "create" /\ 1 \in DOMAIN inbox
      BY <1>1, <1>4, <2>2 DEF InboxInv, InboxOk
    <3>2. \A j \in DOMAIN inbox : j > 1 => inbox[j].kind # "destroy"
      BY <2>2 DEF NoDestroy
    <3> QED
      BY <1>4, <3>1, <3>2 DEF Existing
  <2>3. CASE ~NoDestroy(inbox)
    <3>1. PICK d \in DOMAIN inbox : inbox[d].kind = "destroy"
      BY <2>3 DEF NoDestroy
    <3>2. d + 1 \in DOMAIN inbox
      BY <1>1, <1>4, <3>1
    <3>3. inbox[d + 1].kind = "create"
      <4>1. inbox[d + 1].kind = "create"
              <=> IF d + 1 = 1 THEN ~Here ELSE inbox[(d + 1) - 1].kind = "destroy"
        BY <3>2 DEF InboxInv, InboxOk
      <4>2. (d + 1) - 1 = d /\ d + 1 # 1
        BY <1>1
      <4> QED
        BY <3>1, <4>1, <4>2
    <3>4. \A j \in DOMAIN inbox : j > d + 1 => inbox[j].kind # "destroy"
      BY <1>1, <3>1 DEF InboxInv, InboxOk
    <3> QED
      BY <1>4, <3>2, <3>3, <3>4 DEF Existing
  <2> QED
    BY <2>1, <2>2, <2>3
<1> QED
  BY <1>2, <1>3, <1>4

\* One more message, behind the others.
LEMMA AppendInbox ==
  ASSUME NEW box \in Seq(Intents), NEW e \in Intents,
         NEW here \in BOOLEAN, NEW stop \in BOOLEAN, NEW stopThen \in BOOLEAN,
         InboxOk(box, here, stop), stopThen => stop,
         e.kind = "create" <=> IF box = <<>> THEN ~here ELSE box[Len(box)].kind = "destroy",
         e.kind = "destroy" => NoDestroy(box) /\ here /\ ~stopThen
  PROVE  InboxOk(Append(box, e), here, stopThen)
<1> DEFINE longer == Append(box, e)
<1>1. /\ Len(box) \in Nat /\ DOMAIN box = 1..Len(box)
      /\ DOMAIN longer = 1..(Len(box) + 1)
      /\ \A i \in 1..Len(box) : longer[i] = box[i]
      /\ longer[Len(box) + 1] = e
      /\ box = <<>> <=> Len(box) = 0
  BY AppendAt, EmptySeq
<1> HIDE DEF longer
<1>2. ASSUME NEW i \in DOMAIN longer
      PROVE  longer[i].kind = "create" <=> IF i = 1 THEN ~here ELSE longer[i - 1].kind = "destroy"
  <2>1. CASE i \in DOMAIN box
    BY <1>1, <2>1 DEF InboxOk
  <2>2. CASE i = Len(box) + 1 /\ box = <<>>
    BY <1>1, <2>2
  <2>3. CASE i = Len(box) + 1 /\ box # <<>>
    <3>1. i - 1 = Len(box) /\ i # 1 /\ Len(box) \in 1..Len(box)
      BY <1>1, <2>3
    <3>2. longer[i] = e /\ longer[i - 1] = box[Len(box)]
      BY <1>1, <2>3, <3>1
    <3> QED
      BY <2>3, <3>1, <3>2
  <2> QED
    BY <1>1, <1>2, <2>1, <2>2, <2>3
<1>3. ASSUME NEW i \in DOMAIN longer, NEW j \in DOMAIN longer,
             longer[i].kind = "destroy", longer[j].kind = "destroy"
      PROVE  i = j
  <2>1. CASE i \in DOMAIN box /\ j \in DOMAIN box
    BY <1>1, <1>3, <2>1 DEF InboxOk
  <2>2. CASE i = Len(box) + 1 \/ j = Len(box) + 1
    BY <1>1, <1>3, <2>2 DEF NoDestroy
  <2> QED
    BY <1>1, <2>1, <2>2
<1>4. ASSUME ~NoDestroy(longer) PROVE here /\ ~stopThen
  <2>1. PICK i \in DOMAIN longer : longer[i].kind = "destroy"
    BY <1>4 DEF NoDestroy
  <2>2. CASE i \in DOMAIN box
    BY <1>1, <2>1, <2>2 DEF InboxOk, NoDestroy
  <2>3. CASE i = Len(box) + 1
    BY <1>1, <2>1, <2>3
  <2> QED
    BY <1>1, <2>2, <2>3
<1>5. stopThen => here
  BY DEF InboxOk
<1> QED
  BY <1>2, <1>3, <1>4, <1>5 DEF InboxOk, longer

LEMMA SendInbox ==
  ASSUME Types, InboxInv, main = "free", UNCHANGED main,
         NEW k \in {"START", "STOP"}, NEW p \in Calls \cup {None}, SendIntent(k, p)
  PROVE  InboxInv'
<1> DEFINE made == [kind |-> "create", profile |-> None]
           sent == [kind |-> k, profile |-> p]
<1>1. inbox \in Seq(Intents) /\ made \in Intents /\ sent \in Intents
  BY DEF Types, Intents
<1>2. Here \in BOOLEAN /\ stopped \in BOOLEAN /\ Here' = Here /\ stopped' = FALSE
  BY DEF Types, Here, SendIntent
<1>3. ~Existing <=> IF inbox = <<>> THEN ~Here ELSE inbox[Len(inbox)].kind = "destroy"
  BY ExistingMeans
<1>4. made.kind = "create" /\ sent.kind # "create" /\ sent.kind # "destroy"
  OBVIOUS
<1> HIDE DEF made, sent
<1>5. CASE Existing
  <2>1. InboxOk(Append(inbox, sent), Here, FALSE)
    BY <1>1, <1>2, <1>3, <1>4, <1>5, AppendInbox DEF InboxInv
  <2>2. inbox' = Append(inbox, sent)
    BY <1>5 DEF SendIntent, sent
  <2> QED
    BY <1>2, <2>1, <2>2 DEF InboxInv
<1>6. CASE ~Existing
  <2> DEFINE box == Append(inbox, made)
  <2>1. box \in Seq(Intents) /\ box # <<>> /\ box[Len(box)] = made
    BY <1>1, AppendProperties
  <2>2. InboxOk(box, Here, FALSE)
    BY <1>1, <1>2, <1>3, <1>4, <1>6, AppendInbox DEF InboxInv
  <2>3. inbox' = Append(box, sent)
    BY <1>6 DEF SendIntent, sent, made
  <2> HIDE DEF box
  <2>4. sent.kind = "create" <=> IF box = <<>> THEN ~Here ELSE box[Len(box)].kind = "destroy"
    BY <1>4, <2>1
  <2>5. InboxOk(Append(box, sent), Here, FALSE)
    BY <1>1, <1>2, <1>4, <2>1, <2>2, <2>4, AppendInbox
  <2> QED
    BY <1>2, <2>3, <2>5 DEF InboxInv
<1> QED
  BY <1>5, <1>6

\* What the message at the front says of the service, and what is left without it.
LEMMA HandleInbox ==
  ASSUME Types, InboxInv, NEW k, Handle(k)
  PROVE  /\ k \in {"START", "STOP", "destroy"} => Here
         /\ k = "create" => ~Here
         /\ k = "destroy" => ~stopped /\ NoDestroy(Tail(inbox))
         /\ NoDestroy(inbox) => NoDestroy(Tail(inbox))
         /\ k # "destroy" /\ NoDestroy(Tail(inbox)) => NoDestroy(inbox)
         /\ \A here \in BOOLEAN, stop \in BOOLEAN :
              /\ here <=> k # "destroy"
              /\ ~NoDestroy(Tail(inbox)) => here /\ ~stop
              /\ stop => here
              => InboxOk(Tail(inbox), here, stop)
<1> DEFINE box == Tail(inbox)
<1>1. /\ Len(inbox) \in Nat \ {0} /\ inbox[1].kind = k
      /\ DOMAIN inbox = 1..Len(inbox) /\ DOMAIN box = 1..(Len(inbox) - 1)
      /\ \A i \in DOMAIN box : i + 1 \in DOMAIN inbox /\ box[i] = inbox[i + 1]
      /\ 1 \in DOMAIN inbox
  BY TailAt DEF Types, Handle
<1>2. k = "create" <=> ~Here
  BY <1>1 DEF InboxInv, InboxOk
<1>3. k = "destroy" => Here /\ ~stopped
  BY <1>1 DEF InboxInv, InboxOk, NoDestroy
<1> HIDE DEF box
<1>4. k = "destroy" => NoDestroy(box)
  <2> SUFFICES ASSUME k = "destroy", NEW i \in DOMAIN box PROVE box[i].kind # "destroy"
    BY DEF NoDestroy
  <2>1. i + 1 \in DOMAIN inbox /\ i + 1 # 1 /\ box[i] = inbox[i + 1]
    BY <1>1
  <2> QED
    BY <1>1, <2>1 DEF InboxInv, InboxOk
<1>5. NoDestroy(inbox) => NoDestroy(box)
  BY <1>1 DEF NoDestroy
<1>6. ASSUME k # "destroy", NoDestroy(box) PROVE NoDestroy(inbox)
  <2> SUFFICES ASSUME NEW i \in DOMAIN inbox PROVE inbox[i].kind # "destroy"
    BY DEF NoDestroy
  <2>1. CASE i = 1
    BY <1>1, <1>6, <2>1
  <2>2. CASE i # 1
    <3>1. i - 1 \in DOMAIN box /\ (i - 1) + 1 = i
      BY <1>1, <2>2
    <3> QED
      BY <1>1, <1>6, <3>1 DEF NoDestroy
  <2> QED
    BY <2>1, <2>2
<1>7. ASSUME NEW i \in DOMAIN box
      PROVE  box[i].kind = "create"
             <=> IF i = 1 THEN k = "destroy" ELSE box[i - 1].kind = "destroy"
  <2>1. /\ i + 1 \in DOMAIN inbox /\ i + 1 # 1 /\ (i + 1) - 1 = i /\ box[i] = inbox[i + 1]
        /\ i # 1 => i - 1 \in DOMAIN box /\ (i - 1) + 1 = i
    BY <1>1
  <2>2. inbox[i + 1].kind = "create"
        <=> IF i + 1 = 1 THEN ~Here ELSE inbox[(i + 1) - 1].kind = "destroy"
    BY <2>1 DEF InboxInv, InboxOk
  <2>3. inbox[i + 1].kind = "create" <=> inbox[i].kind = "destroy"
    BY <2>1, <2>2
  <2>4. i # 1 => box[i - 1] = inbox[i]
    BY <1>1, <2>1
  <2> QED
    BY <1>1, <2>1, <2>3, <2>4
<1>8. ASSUME NEW i \in DOMAIN box, NEW j \in DOMAIN box,
             box[i].kind = "destroy", box[j].kind = "destroy"
      PROVE  i = j
  <2>1. /\ i + 1 \in DOMAIN inbox /\ box[i] = inbox[i + 1]
        /\ j + 1 \in DOMAIN inbox /\ box[j] = inbox[j + 1]
        /\ i \in Nat /\ j \in Nat
    BY <1>1
  <2>2. i + 1 = j + 1
    BY <1>8, <2>1 DEF InboxInv, InboxOk
  <2> QED
    BY <2>1, <2>2
<1>9. ASSUME NEW here \in BOOLEAN, NEW stop \in BOOLEAN,
             here <=> k # "destroy", ~NoDestroy(box) => here /\ ~stop, stop => here
      PROVE  InboxOk(box, here, stop)
  BY <1>7, <1>8, <1>9 DEF InboxOk
<1> QED
  BY <1>2, <1>3, <1>4, <1>5, <1>6, <1>9 DEF box

LEMMA HandleIntent ==
  ASSUME Types, InboxInv, main # "destroy", main' # "destroy", UNCHANGED alive,
         NEW k \in {"START", "STOP"}, Handle(k), UNCHANGED stopped \/ StopSelf
  PROVE  InboxInv'
<1>1. inbox' = Tail(inbox) /\ Here' = Here /\ Here
  BY HandleInbox DEF Handle, Here
<1>2. stopped' \in BOOLEAN /\ (~NoDestroy(Tail(inbox)) => ~stopped')
  <2>1. stopped' \in BOOLEAN
    BY DEF StopSelf, Types
  <2>2. ASSUME ~NoDestroy(Tail(inbox)) PROVE ~stopped'
    <3>1. ~NoDestroy(inbox)
      BY <2>2, HandleInbox
    <3>2. ~stopped
      BY <3>1 DEF InboxInv, InboxOk
    <3> QED
      BY <3>1, <3>2 DEF StopSelf, NoDestroy
  <2> QED
    BY <2>1, <2>2
<1>3. InboxOk(Tail(inbox), TRUE, stopped')
  BY <1>2, HandleInbox
<1> QED
  BY <1>1, <1>3 DEF InboxInv, InboxOk, Here

LEMMA InboxSame ==
  ASSUME Types, InboxInv, UNCHANGED inbox, Here' = Here, UNCHANGED stopped
  PROVE  InboxInv'
BY DEF InboxInv, InboxOk

LEMMA InboxStop ==
  ASSUME Types, InboxInv, UNCHANGED inbox, Here, Here', StopSelf
  PROVE  InboxInv'
<1>1. ~NoDestroy(inbox) => ~stopped'
  BY DEF StopSelf, NoDestroy, InboxInv, InboxOk
<1> QED
  BY <1>1 DEF InboxInv, InboxOk

LEMMA InboxStep == Types /\ InboxInv /\ ServiceInv /\ [Next]_vars => InboxInv'
<1> SUFFICES ASSUME Types, InboxInv, ServiceInv, [Next]_vars PROVE InboxInv'
  OBVIOUS
<1> USE DEF serviceVars, mainVars
<1>1. CASE \/ TapConnect \/ TapDisconnect \/ PollStatus \/ AnswerArrives \/ DialogDenied
           \/ CollectGarbage \/ UNCHANGED vars
  <2>1. UNCHANGED <<inbox, alive, stopped, main>>
    BY <1>1 DEF TapConnect, TapDisconnect, PollStatus, AnswerArrives, DialogDenied,
         CollectGarbage, vars
  <2> QED
    BY <2>1, InboxSame DEF Here
<1>2. CASE CoreProgress \/ StartOk \/ StartError \/ NativeStop
  <2>1. /\ UNCHANGED <<inbox, alive, stopped>>
        /\ \/ main' = main
           \/ main = "starting" /\ main' \in {"free", "shutdown"}
    BY <1>2 DEF CoreProgress, StartOk, StartError, NativeStop
  <2> QED
    BY <2>1, InboxSame DEF Here
<1>3. CASE OnStartVpn
  <2>1. Head(channel).profile \in Calls \cup {None} /\ UNCHANGED main /\ main = "free"
    <3>1. Head(channel) \in Messages
      BY <1>3, TailAt DEF OnStartVpn, Types
    <3> QED
      BY <1>3, <3>1 DEF OnStartVpn, Messages
  <2>2. CASE granted
    BY <1>3, <2>1, <2>2, SendInbox DEF OnStartVpn, LaunchService
  <2>3. CASE ~granted
    BY <1>3, <2>1, <2>3, InboxSame DEF OnStartVpn, Here
  <2> QED
    BY <2>2, <2>3
<1>4. CASE OnStopVpn
  BY <1>4, SendInbox DEF OnStopVpn
<1>5. CASE DialogAllowed
  <2>1. pendingProfile \in Calls \cup {None}
    BY DEF Types
  <2> QED
    BY <1>5, <2>1, SendInbox DEF DialogAllowed, LaunchService
<1>6. CASE OnCreate
  <2>1. /\ Handle("create") /\ inbox' = Tail(inbox) /\ alive' = TRUE
        /\ UNCHANGED <<stopped, main>> /\ main = "free"
    BY <1>6 DEF OnCreate, Handle
  <2>2. ~Here /\ ~stopped /\ Here'
    BY <2>1, HandleInbox DEF Here, InboxInv, InboxOk
  <2>3. InboxOk(Tail(inbox), TRUE, FALSE)
    BY <2>1, HandleInbox
  <2> QED
    BY <2>1, <2>2, <2>3 DEF InboxInv, InboxOk
<1>7. CASE OnStart
  <2>1. main # "destroy" /\ main' # "destroy" /\ Handle("START") /\ UNCHANGED alive
    BY <1>7 DEF OnStart, Handle
  <2>2. UNCHANGED stopped \/ StopSelf
    BY <1>7 DEF OnStart
  <2> QED
    BY <2>1, <2>2, HandleIntent
<1>8. CASE OnStop
  BY <1>8, HandleIntent DEF OnStop, Handle
<1>9. CASE OnDestroy
  <2>1. /\ Handle("destroy") /\ inbox' = Tail(inbox)
        /\ UNCHANGED stopped /\ main' = "destroy"
    BY <1>9 DEF OnDestroy, Handle
  <2>2. ~stopped /\ ~Here' /\ NoDestroy(Tail(inbox))
    BY <2>1, HandleInbox DEF Here
  <2>3. InboxOk(Tail(inbox), FALSE, FALSE)
    BY <2>1, <2>2, HandleInbox
  <2> QED
    BY <2>1, <2>2, <2>3 DEF InboxInv, InboxOk
<1>10. CASE Release
  <2>1. CASE main = "shutdown"
    <3>1. Here /\ Here' /\ StopSelf /\ UNCHANGED inbox
      BY <1>10, <2>1 DEF Release, Here, ServiceInv
    <3> QED
      BY <3>1, InboxStop
  <2>2. CASE main = "destroy"
    BY <1>10, <2>2, InboxSame DEF Release, Here
  <2> QED
    BY <1>10, <2>1, <2>2 DEF Release
<1>11. CASE BringDown
  <2> DEFINE e == [kind |-> "destroy", profile |-> None]
  <2>1. /\ e \in Intents /\ inbox' = Append(inbox, e) /\ stopped /\ stopped' = FALSE /\ Here' = Here
    BY <1>11 DEF BringDown, Intents, Here
  <2>2. Here /\ NoDestroy(inbox)
    BY <2>1 DEF InboxInv, InboxOk
  <2>3. inbox # <<>> => inbox[Len(inbox)].kind # "destroy"
    BY <2>2, LenProperties, EmptySeq DEF NoDestroy, Types
  <2>4. e.kind = "destroy"
    OBVIOUS
  <2> HIDE DEF e
  <2>5. InboxOk(Append(inbox, e), Here, FALSE)
    BY <2>1, <2>2, <2>3, <2>4, AppendInbox DEF InboxInv, Types, Here
  <2> QED
    BY <2>1, <2>5 DEF InboxInv
<1>12. CASE Revoke
  <2>1. /\ UNCHANGED <<inbox, alive, main>>
        /\ \/ UNCHANGED stopped
           \/ alive /\ StopSelf
    BY <1>12 DEF Revoke, ServiceInv
  <2>2. CASE Here
    BY <2>1, <2>2, InboxSame, InboxStop DEF Here
  <2>3. CASE ~Here
    <3>1. UNCHANGED stopped
      BY <2>1, <2>3 DEF Here, StopSelf, InboxInv, InboxOk, Types
    <3> QED
      BY <2>1, <3>1, InboxSame DEF Here
  <2> QED
    BY <2>2, <2>3
<1> QED
  BY <1>1, <1>2, <1>3, <1>4, <1>5, <1>6, <1>7, <1>8, <1>9, <1>10, <1>11, <1>12 DEF Next

LEMMA ServiceStep == Types /\ InboxInv /\ ServiceInv /\ [Next]_vars => ServiceInv'
<1> SUFFICES ASSUME Types, InboxInv, ServiceInv, [Next]_vars PROVE ServiceInv'
  OBVIOUS
<1> USE DEF serviceVars, mainVars, fdVars, coreVars
<1>1. CASE \/ TapConnect \/ TapDisconnect \/ PollStatus \/ AnswerArrives \/ DialogDenied
           \/ OnStartVpn \/ OnStopVpn \/ DialogAllowed \/ BringDown \/ Revoke \/ UNCHANGED vars
  <2>1. UNCHANGED <<alive, pfd, open, main, session, up, phase>>
    BY <1>1 DEF TapConnect, TapDisconnect, PollStatus, AnswerArrives, DialogDenied, OnStartVpn,
         OnStopVpn, DialogAllowed, BringDown, Revoke, LaunchService, SendIntent, vars
  <2> QED
    BY <2>1 DEF ServiceInv
<1>2. CASE OnCreate
  BY <1>2 DEF OnCreate, ServiceInv
<1>3. CASE OnStart
  <2>1. Here /\ main = "free"
    BY <1>3, HandleInbox DEF OnStart, Handle
  <2>2. CASE granted
    <3>1. /\ established' = established + 1 /\ pfd' = established' /\ open' = open \cup {established'}
          /\ main' = "starting" /\ UNCHANGED <<alive, session, up, phase>>
      BY <1>3, <2>2 DEF OnStart
    <3>2. pfd' # None /\ pfd' \in open'
      BY <3>1 DEF Types, None
    <3> QED
      BY <2>1, <3>1, <3>2 DEF ServiceInv, Here
  <2>3. CASE ~granted
    BY <1>3, <2>1, <2>3 DEF OnStart, ServiceInv, Here
  <2> QED
    BY <2>2, <2>3
<1>4. CASE OnStop
  <2>1. Here /\ main = "free"
    BY <1>4, HandleInbox DEF OnStop, Handle
  <2> QED
    BY <1>4, <2>1 DEF OnStop, ServiceInv, Here
<1>5. CASE OnDestroy
  <2>1. Here /\ main = "free"
    BY <1>5, HandleInbox DEF OnDestroy, Handle
  <2> QED
    BY <1>5, <2>1 DEF OnDestroy, ServiceInv, Here
<1>6. CASE CoreProgress
  BY <1>6 DEF CoreProgress, Core!Begin, Core!Tunnel, ServiceInv
<1>7. CASE StartOk
  BY <1>7 DEF StartOk, Core!Succeed, ServiceInv
<1>8. CASE StartError
  BY <1>8 DEF StartError, Core!Fail, ServiceInv
<1>9. CASE NativeStop
  <2>1. CASE Core!Disconnect /\ UNCHANGED session
    BY <1>9, <2>1 DEF NativeStop, Core!Disconnect, ServiceInv
  <2>2. CASE Core!Finish /\ session' = None
    BY <1>9, <2>2 DEF NativeStop, Core!Finish, ServiceInv
  <2> QED
    BY <1>9, <2>1, <2>2 DEF NativeStop
<1>10. CASE Release
  BY <1>10 DEF Release, ServiceInv
<1>11. CASE CollectGarbage
  BY <1>11 DEF CollectGarbage, ServiceInv
<1> QED
  BY <1>1, <1>2, <1>3, <1>4, <1>5, <1>6, <1>7, <1>8, <1>9, <1>10, <1>11 DEF Next

-----------------------------------------------------------------------------
(* The answers to startVpn.                                                   *)

\* A startVpn call on the channel is not the one the slot holds, and is open.
LEMMA ChannelCalls ==
  ASSUME Types, AnswerInv, NEW i \in DOMAIN channel, channel[i].kind = "startVpn"
  PROVE  /\ channel[i].profile \in Calls /\ channel[i].profile <= connects
         /\ channel[i].profile # startResult
         /\ answer[channel[i].profile] = "none"
BY TapAssumption DEF AnswerInv, Types, Calls

\* Call c is answered, or its reply goes into the slot, and no message on the
\* channel is call c.
LEMMA SlotStep ==
  ASSUME Types, AnswerInv, NEW c \in Calls \cup {None}, NEW r, UNCHANGED connects,
         c # None => c <= connects /\ answer[c] = "none",
         \/ startResult' = None /\ Reply(c, r)
         \/ startResult' = c /\ UNCHANGED answer,
         \A i \in DOMAIN channel' : channel'[i].kind = "startVpn" =>
           /\ channel'[i].profile # c
           /\ \E j \in DOMAIN channel : channel[j].kind = "startVpn"
                                        /\ channel[j].profile = channel'[i].profile,
         \A i, j \in DOMAIN channel' :
           /\ channel'[i].kind = "startVpn" /\ channel'[j].kind = "startVpn"
           /\ channel'[i].profile = channel'[j].profile
           => i = j
  PROVE  AnswerInv'
<1>1. startResult' # None => startResult' <= connects' /\ answer'[startResult'] = "none"
  OBVIOUS
<1>2. ASSUME NEW x \in Calls, x # c PROVE answer'[x] = answer[x]
  BY <1>2 DEF Reply, answerVars, Types
<1>3. ASSUME NEW i \in DOMAIN channel', channel'[i].kind = "startVpn"
      PROVE  /\ channel'[i].profile \in 1..connects'
             /\ channel'[i].profile # startResult'
             /\ answer'[channel'[i].profile] = "none"
  <2>1. /\ channel'[i].profile # c
        /\ channel'[i].profile \in Calls /\ channel'[i].profile <= connects
        /\ answer[channel'[i].profile] = "none"
    BY <1>3, ChannelCalls
  <2> QED
    BY <1>2, <2>1, TapAssumption DEF Calls, None, Types
<1>4. ASSUME NEW x \in Calls, x > connects' PROVE answer'[x] = "none"
  <2>1. x # c
    BY <1>4, TapAssumption DEF Types, Calls, None
  <2> QED
    BY <1>2, <1>4, <2>1 DEF AnswerInv
<1> QED
  BY <1>1, <1>3, <1>4 DEF AnswerInv

LEMMA SlotReply ==
  ASSUME Types, AnswerInv, NEW r, Reply(startResult, r), startResult' = None,
         UNCHANGED <<channel, connects>>
  PROVE  AnswerInv'
<1>1. startResult \in Calls \cup {None}
  BY DEF Types
<1>2. startResult # None => startResult <= connects /\ answer[startResult] = "none"
  BY DEF AnswerInv
<1>3. \A i \in DOMAIN channel' : channel'[i].kind = "startVpn" =>
        /\ channel'[i].profile # startResult
        /\ \E j \in DOMAIN channel : channel[j].kind = "startVpn"
                                     /\ channel[j].profile = channel'[i].profile
  BY DEF AnswerInv
<1>4. \A i, j \in DOMAIN channel' :
        /\ channel'[i].kind = "startVpn" /\ channel'[j].kind = "startVpn"
        /\ channel'[i].profile = channel'[j].profile
        => i = j
  BY DEF AnswerInv
<1> QED
  BY <1>1, <1>2, <1>3, <1>4, SlotStep

LEMMA PushAnswer ==
  ASSUME Types, AnswerInv, NEW r, PushResult(r), UNCHANGED <<channel, connects>>
  PROVE  AnswerInv'
<1>1. CASE pending
  BY <1>1, SlotReply DEF PushResult
<1>2. CASE ~pending
  BY <1>2 DEF PushResult, answerVars, AnswerInv
<1> QED
  BY <1>1, <1>2

LEMMA AnswerSame ==
  ASSUME Types, AnswerInv, UNCHANGED <<channel, connects, answer, startResult>>
  PROVE  AnswerInv'
BY DEF AnswerInv

LEMMA HeadCall ==
  ASSUME Types, AnswerInv, OnStartVpn
  PROVE  /\ Head(channel).profile \in Calls /\ Head(channel).profile <= connects
         /\ answer[Head(channel).profile] = "none"
<1>1. 1 \in DOMAIN channel /\ Head(channel) = channel[1] /\ channel[1].kind = "startVpn"
  BY TailAt DEF OnStartVpn, Types
<1> QED
  BY <1>1, ChannelCalls

LEMMA AnswerStep == Types /\ AnswerInv /\ [Next]_vars => AnswerInv'
<1> SUFFICES ASSUME Types, AnswerInv, [Next]_vars PROVE AnswerInv'
  OBVIOUS
<1> USE DEF answerVars, activityVars, busVars, uiVars
<1>1. CASE \/ PollStatus \/ AnswerArrives \/ OnCreate \/ OnStop \/ OnDestroy \/ CoreProgress
           \/ NativeStop \/ Release \/ BringDown \/ Revoke \/ CollectGarbage \/ UNCHANGED vars
  <2>1. UNCHANGED <<channel, connects, answer, startResult>>
    BY <1>1 DEF PollStatus, AnswerArrives, OnCreate, OnStop, OnDestroy, CoreProgress, NativeStop,
         Release, BringDown, Revoke, CollectGarbage, vars
  <2> QED
    BY <2>1, AnswerSame
<1>2. CASE TapConnect
  <2> DEFINE call == [kind |-> "startVpn", profile |-> connects + 1]
  <2>1. /\ connects' = connects + 1 /\ connects' \in Calls /\ connects \in Nat
        /\ channel' = Append(channel, call) /\ UNCHANGED <<answer, startResult>>
    BY <1>2, TapAssumption DEF TapConnect, Post, Types, Calls
  <2>2. call \in Messages /\ call.kind = "startVpn" /\ call.profile = connects + 1
    BY <2>1 DEF Messages
  <2> HIDE DEF call
  <2>3. /\ Len(channel) \in Nat /\ DOMAIN channel = 1..Len(channel)
        /\ DOMAIN channel' = 1..(Len(channel) + 1)
        /\ \A i \in 1..Len(channel) : channel'[i] = channel[i]
        /\ channel'[Len(channel) + 1] = call
    BY <2>1, <2>2, AppendAt DEF Types
  <2>4. startResult' # None => startResult' <= connects' /\ answer'[startResult'] = "none"
    BY <2>1, TapAssumption DEF AnswerInv, Types, Calls, None
  <2>5. answer[connects + 1] = "none" /\ startResult # connects + 1
    BY <2>1, TapAssumption DEF AnswerInv, Types, Calls, None
  <2>6. ASSUME NEW i \in DOMAIN channel', channel'[i].kind = "startVpn"
        PROVE  /\ channel'[i].profile \in 1..connects'
               /\ channel'[i].profile # startResult'
               /\ answer'[channel'[i].profile] = "none"
    <3>1. CASE i = Len(channel) + 1
      BY <2>1, <2>2, <2>3, <2>5, <3>1
    <3>2. CASE i \in DOMAIN channel
      BY <2>1, <2>3, <2>6, <3>2 DEF AnswerInv
    <3> QED
      BY <2>3, <2>6, <3>1, <3>2
  <2>7. ASSUME NEW i \in DOMAIN channel', NEW j \in DOMAIN channel',
               channel'[i].kind = "startVpn", channel'[j].kind = "startVpn",
               channel'[i].profile = channel'[j].profile
        PROVE  i = j
    <3>1. CASE i \in DOMAIN channel /\ j \in DOMAIN channel
      BY <2>3, <2>7, <3>1 DEF AnswerInv
    <3>2. \A k \in DOMAIN channel : channel[k].kind = "startVpn" => channel[k].profile # connects + 1
      BY <2>1 DEF AnswerInv
    <3> QED
      BY <2>2, <2>3, <2>7, <3>1, <3>2
  <2>8. \A c \in Calls : c > connects' => answer'[c] = "none"
    BY <2>1 DEF AnswerInv, Calls
  <2> QED
    BY <2>4, <2>6, <2>7, <2>8 DEF AnswerInv
<1>3. CASE TapDisconnect
  <2> DEFINE call == [kind |-> "stopVpn", profile |-> None]
  <2>1. channel' = Append(channel, call) /\ UNCHANGED <<connects, answer, startResult>>
    BY <1>3 DEF TapDisconnect, Post
  <2>2. call \in Messages /\ call.kind # "startVpn"
    BY DEF Messages
  <2> HIDE DEF call
  <2>3. /\ Len(channel) \in Nat /\ DOMAIN channel = 1..Len(channel)
        /\ DOMAIN channel' = 1..(Len(channel) + 1)
        /\ \A i \in 1..Len(channel) : channel'[i] = channel[i]
        /\ channel'[Len(channel) + 1] = call
    BY <2>1, <2>2, AppendAt DEF Types
  <2>4. \A i \in DOMAIN channel' : channel'[i].kind = "startVpn" =>
          i \in DOMAIN channel /\ channel'[i] = channel[i]
    BY <2>2, <2>3
  <2> QED
    BY <2>1, <2>4 DEF AnswerInv
<1>4. CASE OnStartVpn
  <2> DEFINE c == Head(channel).profile
  <2>1. /\ c \in Calls /\ c <= connects /\ answer[c] = "none" /\ c # None
    BY <1>4, HeadCall DEF Calls, None
  <2>2. /\ 1 \in DOMAIN channel /\ channel[1].kind = "startVpn" /\ channel[1].profile = c
        /\ \A i \in DOMAIN channel' :
             i + 1 \in DOMAIN channel /\ channel'[i] = channel[i + 1] /\ i \in Nat /\ i + 1 # 1
    BY <1>4, TailAt DEF OnStartVpn, Types
  <2>3. \A i \in DOMAIN channel' : channel'[i].kind = "startVpn" =>
          /\ channel'[i].profile # c
          /\ \E j \in DOMAIN channel : channel[j].kind = "startVpn"
                                       /\ channel[j].profile = channel'[i].profile
    BY <2>2 DEF AnswerInv
  <2>4. ASSUME NEW i \in DOMAIN channel', NEW j \in DOMAIN channel',
               channel'[i].kind = "startVpn", channel'[j].kind = "startVpn",
               channel'[i].profile = channel'[j].profile
        PROVE  i = j
    <3>1. i + 1 = j + 1
      BY <2>2, <2>4 DEF AnswerInv
    <3> QED
      BY <2>2, <3>1
  <2>5. \/ startResult' = None /\ Reply(c, latest)
        \/ startResult' = c /\ UNCHANGED answer
    BY <1>4 DEF OnStartVpn, LaunchService
  <2>6. UNCHANGED connects
    BY <1>4 DEF OnStartVpn
  <2> HIDE DEF c
  <2> QED
    BY <2>1, <2>3, <2>4, <2>5, <2>6, SlotStep
<1>5. CASE OnStopVpn
  <2>1. /\ UNCHANGED <<connects, answer, startResult>>
        /\ \A i \in DOMAIN channel' :
             i + 1 \in DOMAIN channel /\ channel'[i] = channel[i + 1] /\ i \in Nat
    BY <1>5, TailAt DEF OnStopVpn, Types
  <2>2. ASSUME NEW i \in DOMAIN channel', NEW j \in DOMAIN channel',
               channel'[i].kind = "startVpn", channel'[j].kind = "startVpn",
               channel'[i].profile = channel'[j].profile
        PROVE  i = j
    <3>1. i + 1 = j + 1
      BY <2>1, <2>2 DEF AnswerInv
    <3> QED
      BY <2>1, <3>1
  <2>3. \A i \in DOMAIN channel' : channel'[i].kind = "startVpn" =>
          /\ channel'[i].profile \in 1..connects
          /\ channel'[i].profile # startResult
          /\ answer[channel'[i].profile] = "none"
    BY <2>1 DEF AnswerInv
  <2> QED
    BY <2>1, <2>2, <2>3 DEF AnswerInv
<1>6. CASE DialogAllowed
  <2>1. /\ UNCHANGED <<channel, connects>>
        /\ \/ startResult' = None /\ Reply(startResult, latest)
           \/ startResult' = startResult /\ UNCHANGED answer
    BY <1>6 DEF DialogAllowed, LaunchService
  <2> QED
    BY <2>1, SlotReply, AnswerSame
<1>7. CASE DialogDenied
  BY <1>7, SlotReply DEF DialogDenied
<1>8. CASE OnStart
  <2>1. UNCHANGED <<channel, connects>>
    BY <1>8 DEF OnStart
  <2>2. PushResult("error") \/ UNCHANGED <<answer, startResult>>
    BY <1>8 DEF OnStart
  <2> QED
    BY <2>1, <2>2, PushAnswer, AnswerSame
<1>9. CASE StartOk
  BY <1>9, PushAnswer DEF StartOk
<1>10. CASE StartError
  BY <1>10, PushAnswer DEF StartError
<1> QED
  BY <1>1, <1>2, <1>3, <1>4, <1>5, <1>6, <1>7, <1>8, <1>9, <1>10 DEF Next

LEMMA ReplyOnce ==
  ASSUME Types, NEW c, NEW r, c # None => answer[c] = "none",
         Reply(c, r) \/ UNCHANGED answer
  PROVE  \A x \in Calls : answer[x] # "none" => answer'[x] = answer[x]
BY DEF Reply, answerVars, Types

AnswersKept == \A c \in Calls : answer[c] # "none" => answer'[c] = answer[c]

LEMMA AnswersKeptStep == Types /\ AnswerInv /\ [Next]_vars => AnswersKept
<1> SUFFICES ASSUME Types, AnswerInv, [Next]_vars PROVE AnswersKept
  OBVIOUS
<1> USE DEF answerVars, activityVars
<1>1. CASE \/ TapConnect \/ TapDisconnect \/ PollStatus \/ AnswerArrives \/ OnStopVpn
           \/ OnCreate \/ OnStop \/ OnDestroy \/ CoreProgress \/ NativeStop \/ Release
           \/ BringDown \/ Revoke \/ CollectGarbage \/ UNCHANGED vars
  <2>1. UNCHANGED answer
    BY <1>1 DEF TapConnect, TapDisconnect, PollStatus, AnswerArrives, OnStopVpn, OnCreate, OnStop,
         OnDestroy, CoreProgress, NativeStop, Release, BringDown, Revoke, CollectGarbage, vars
  <2> QED
    BY <2>1 DEF AnswersKept
<1>2. startResult # None => answer[startResult] = "none"
  BY DEF AnswerInv
<1>3. CASE OnStartVpn
  <2>1. \/ Reply(Head(channel).profile, latest)
        \/ UNCHANGED answer
    BY <1>3 DEF OnStartVpn, LaunchService
  <2> QED
    BY <1>3, <2>1, HeadCall, ReplyOnce DEF AnswersKept
<1>4. CASE DialogAllowed
  <2>1. \/ Reply(startResult, latest)
        \/ UNCHANGED answer
    BY <1>4 DEF DialogAllowed, LaunchService
  <2> QED
    BY <1>2, <2>1, ReplyOnce DEF AnswersKept
<1>5. CASE DialogDenied
  BY <1>2, <1>5, ReplyOnce DEF DialogDenied, AnswersKept
<1>6. CASE OnStart \/ StartOk \/ StartError
  <2>1. \/ Reply(startResult, "ok")
        \/ Reply(startResult, "error")
        \/ UNCHANGED answer
    BY <1>6 DEF OnStart, StartOk, StartError, PushResult
  <2> QED
    BY <1>2, <2>1, ReplyOnce DEF AnswersKept
<1> QED
  BY <1>1, <1>3, <1>4, <1>5, <1>6 DEF Next

\* Every call replies to a startVpn that has no answer yet, although they share
\* one field (MainActivity.kt:49-103, Vpn21VpnService.kt:160-183).
THEOREM NeverAnsweredTwice == Spec => AnsweredOnce
<1>1. Init => Types /\ AnswerInv
  <2> SUFFICES ASSUME Init PROVE AnswerInv
    BY TypesInit
  <2> QED
    BY DEF Init, AnswerInv
<1>2. Types /\ AnswerInv /\ [Next]_vars => Types' /\ AnswerInv'
  BY TypesStep, AnswerStep
<1>3. Types /\ AnswerInv /\ [Next]_vars => [\A c \in Calls : answer[c] # "none" => answer'[c] = answer[c]]_vars
  BY AnswersKeptStep DEF AnswersKept
<1> QED
  BY <1>1, <1>2, <1>3, PTL DEF Spec, AnsweredOnce

-----------------------------------------------------------------------------
(* "ok" is earned.                                                            *)

Oks == {c \in Calls : answer[c] = "ok"}
Waiting == IF latest = "ok" THEN 1 ELSE 0

LEMMA OksFinite == IsFiniteSet(Oks) /\ Cardinality(Oks) \in Nat
<1>1. IsFiniteSet(Calls)
  BY FS_Interval, TapAssumption DEF Calls
<1>2. Oks \subseteq Calls
  BY DEF Oks
<1> QED
  BY <1>1, <1>2, FS_Subset, FS_CardinalityType

\* A reply adds its call to the ones told "ok", or takes it away.
LEMMA ReplyCounts ==
  ASSUME Types, NEW c \in Calls \cup {None}, NEW r \in {"ok", "error"}, Reply(c, r)
  PROVE  /\ Cardinality(Oks') \in Nat
         /\ Cardinality(Oks') <= Cardinality(Oks) + (IF r = "ok" THEN 1 ELSE 0)
<1>1. answer' = IF c = None THEN answer ELSE [answer EXCEPT ![c] = r]
  BY ReplyTypes DEF Types
<1>2. IsFiniteSet(Oks) /\ Cardinality(Oks) \in Nat
  BY OksFinite
<1>3. CASE c = None
  <2>1. Oks' = Oks
    BY <1>1, <1>3 DEF Oks
  <2> QED
    BY <1>2, <2>1
<1>4. CASE c # None /\ r = "ok"
  <2>1. Oks' = Oks \cup {c}
    BY <1>1, <1>4 DEF Oks, Types
  <2>2. Cardinality(Oks') = IF c \in Oks THEN Cardinality(Oks) ELSE Cardinality(Oks) + 1
    BY <1>2, <2>1, FS_AddElement
  <2> QED
    BY <1>2, <1>4, <2>2
<1>5. CASE c # None /\ r = "error"
  <2>1. Oks' = Oks \ {c}
    BY <1>1, <1>5 DEF Oks, Types
  <2>2. Cardinality(Oks') = IF c \in Oks THEN Cardinality(Oks) - 1 ELSE Cardinality(Oks)
    BY <1>2, <2>1, FS_RemoveElement
  <2>3. c \in Oks => Cardinality(Oks) # 0
    BY <1>2, FS_EmptySet
  <2> QED
    BY <1>2, <1>5, <2>2, <2>3
<1> QED
  BY <1>3, <1>4, <1>5

LEMMA PushCounts ==
  ASSUME Types, NEW r \in {"ok", "error"}, PushResult(r)
  PROVE  /\ Cardinality(Oks') \in Nat
         /\ Cardinality(Oks') + Waiting'
            <= Cardinality(Oks) + Waiting + (IF r = "ok" THEN 1 ELSE 0)
<1>1. CASE pending
  <2>1. Reply(startResult, r) /\ latest' = latest /\ startResult \in Calls \cup {None}
    BY <1>1 DEF PushResult, Types
  <2> QED
    BY <2>1, ReplyCounts, OksFinite DEF Waiting
<1>2. CASE ~pending
  <2>1. Oks' = Oks /\ latest' = r
    BY <1>2 DEF PushResult, answerVars, Oks
  <2> QED
    BY <2>1, OksFinite DEF Waiting
<1> QED
  BY <1>1, <1>2

LEMMA LaunchCounts ==
  ASSUME Types, NEW c \in Calls \cup {None}, NEW p, LaunchService(c, p)
  PROVE  /\ Cardinality(Oks') \in Nat
         /\ Cardinality(Oks') + Waiting' <= Cardinality(Oks) + Waiting
<1>1. CASE latest # "none"
  <2>1. latest \in {"ok", "error"} /\ Reply(c, latest) /\ latest' = "none"
    BY <1>1 DEF LaunchService, Types
  <2> QED
    BY <2>1, ReplyCounts, OksFinite DEF Waiting
<1>2. CASE latest = "none"
  <2>1. Oks' = Oks /\ latest' = latest
    BY <1>2 DEF LaunchService, answerVars, Oks
  <2> QED
    BY <2>1, OksFinite DEF Waiting
<1> QED
  BY <1>1, <1>2

LEMMA OkStep == Types /\ OkNeverInvented /\ [Next]_vars => OkNeverInvented'
<1> SUFFICES ASSUME Types, OkNeverInvented, [Next]_vars PROVE OkNeverInvented'
  OBVIOUS
<1> USE DEF answerVars, busVars, mainVars
<1>1. Cardinality(Oks) + Waiting <= Len(started) /\ Cardinality(Oks) \in Nat /\ Len(started) \in Nat
  BY OksFinite, LenProperties DEF OkNeverInvented, Oks, Waiting, Types
<1> SUFFICES Cardinality(Oks') + Waiting' <= Len(started')
  BY DEF OkNeverInvented, Oks, Waiting
<1>2. CASE \/ TapConnect \/ TapDisconnect \/ PollStatus \/ AnswerArrives \/ OnStopVpn
           \/ OnCreate \/ OnStop \/ OnDestroy \/ CoreProgress \/ NativeStop \/ Release
           \/ BringDown \/ Revoke \/ CollectGarbage \/ UNCHANGED vars
  <2>1. UNCHANGED <<answer, latest, started>>
    BY <1>2 DEF TapConnect, TapDisconnect, PollStatus, AnswerArrives, OnStopVpn, OnCreate, OnStop,
         OnDestroy, CoreProgress, NativeStop, Release, BringDown, Revoke, CollectGarbage, vars
  <2> QED
    BY <1>1, <2>1 DEF Oks, Waiting
<1>3. CASE OnStartVpn
  <2>1. Head(channel) \in Messages /\ UNCHANGED started
    BY <1>3, TailAt DEF OnStartVpn, Types
  <2>2. CASE granted
    <3>1. Head(channel).profile \in Calls \cup {None}
      BY <2>1 DEF Messages
    <3>2. LaunchService(Head(channel).profile, Head(channel).profile)
      BY <1>3, <2>2 DEF OnStartVpn
    <3> QED
      <4>1. /\ Cardinality(Oks') \in Nat
            /\ Cardinality(Oks') + Waiting' <= Cardinality(Oks) + Waiting
        BY <3>1, <3>2, LaunchCounts
      <4> QED
        BY <1>1, <2>1, <4>1 DEF Waiting
  <2>3. CASE ~granted
    BY <1>1, <1>3, <2>3 DEF OnStartVpn, Oks, Waiting
  <2> QED
    BY <2>2, <2>3
<1>4. CASE DialogAllowed
  <2>1. startResult \in Calls \cup {None} /\ LaunchService(startResult, pendingProfile) /\ UNCHANGED started
    BY <1>4 DEF DialogAllowed, Types
  <2> QED
    BY <1>1, <2>1, LaunchCounts DEF Waiting
<1>5. CASE DialogDenied
  <2>1. startResult \in Calls \cup {None} /\ Reply(startResult, "error") /\ UNCHANGED <<latest, started>>
    BY <1>5 DEF DialogDenied, Types
  <2> QED
    BY <1>1, <2>1, ReplyCounts DEF Waiting
<1>6. CASE OnStart
  <2>1. UNCHANGED started
    BY <1>6 DEF OnStart
  <2>2. CASE granted
    BY <1>1, <1>6, <2>1, <2>2 DEF OnStart, Oks, Waiting
  <2>3. CASE ~granted
    <3>1. PushResult("error")
      BY <1>6, <2>3 DEF OnStart
    <3> QED
      BY <1>1, <2>1, <3>1, PushCounts DEF Waiting
  <2> QED
    BY <2>2, <2>3
<1>7. CASE StartOk
  <2>1. PushResult("ok") /\ Len(started') = Len(started) + 1
    BY <1>7, AppendProperties DEF StartOk, Types
  <2> QED
    BY <1>1, <2>1, PushCounts DEF Waiting
<1>8. CASE StartError
  <2>1. PushResult("error") /\ UNCHANGED started
    BY <1>8 DEF StartError
  <2> QED
    BY <1>1, <2>1, PushCounts DEF Waiting
<1> QED
  BY <1>2, <1>3, <1>4, <1>5, <1>6, <1>7, <1>8 DEF Next

\* Dart is told "ok" at most once per start that succeeded, through callbacks
\* that come late and outcomes left on the bus (Vpn21VpnService.kt:160-183).
THEOREM OkIsEarned == Spec => []OkNeverInvented
<1>1. Init => Types /\ OkNeverInvented
  <2> SUFFICES ASSUME Init PROVE OkNeverInvented
    BY TypesInit
  <2>1. Oks = {} /\ Waiting = 0 /\ Len(started) = 0
    BY DEF Init, Oks, Waiting
  <2> QED
    BY <2>1, FS_EmptySet DEF OkNeverInvented, Oks, Waiting
<1>2. Types /\ OkNeverInvented /\ [Next]_vars => Types' /\ OkNeverInvented'
  BY TypesStep, OkStep
<1> QED
  BY <1>1, <1>2, PTL DEF Spec

-----------------------------------------------------------------------------
(* The service and what it holds.                                             *)

LEMMA HeldStep == Types /\ InboxInv /\ ServiceInv /\ SessionHeld /\ [Next]_vars => SessionHeld'
<1> SUFFICES ASSUME Types, InboxInv, ServiceInv, SessionHeld, [Next]_vars PROVE SessionHeld'
  OBVIOUS
<1> USE DEF serviceVars, mainVars, fdVars, coreVars
<1>1. CASE \/ TapConnect \/ TapDisconnect \/ PollStatus \/ AnswerArrives \/ DialogDenied
           \/ CollectGarbage \/ UNCHANGED vars
  <2>1. UNCHANGED <<inbox, stopped, main, session, pfd>>
    BY <1>1 DEF TapConnect, TapDisconnect, PollStatus, AnswerArrives, DialogDenied,
         CollectGarbage, vars
  <2> QED
    BY <2>1 DEF SessionHeld
<1>2. CASE OnStop \/ OnDestroy \/ CoreProgress \/ StartError \/ NativeStop
  <2>1. main' # "free"
    BY <1>2 DEF OnStop, OnDestroy, CoreProgress, StartError, NativeStop
  <2> QED
    BY <2>1 DEF SessionHeld
<1>3. CASE OnStartVpn
  <2>1. CASE granted
    <3>1. Head(channel) \in Messages
      BY <1>3, TailAt DEF OnStartVpn, Types
    <3>2. inbox' # <<>>
      BY <1>3, <2>1, <3>1, LaunchServiceTypes DEF OnStartVpn, Messages
    <3> QED
      BY <3>2 DEF SessionHeld
  <2>2. CASE ~granted
    BY <1>3, <2>2 DEF OnStartVpn, SessionHeld
  <2> QED
    BY <2>1, <2>2
<1>4. CASE OnStopVpn
  <2>1. inbox' # <<>>
    BY <1>4, SendIntentTypes DEF OnStopVpn, Types
  <2> QED
    BY <2>1 DEF SessionHeld
<1>5. CASE DialogAllowed
  <2>1. startResult \in Calls \cup {None} /\ pendingProfile \in Calls \cup {None}
    BY DEF Types
  <2>2. inbox' # <<>>
    BY <1>5, <2>1, LaunchServiceTypes DEF DialogAllowed
  <2> QED
    BY <2>2 DEF SessionHeld
<1>6. CASE OnCreate
  <2>1. ~alive /\ UNCHANGED <<session, pfd>>
    BY <1>6, HandleInbox DEF OnCreate, Handle, Here
  <2> QED
    BY <2>1 DEF SessionHeld, ServiceInv
<1>7. CASE OnStart
  <2>1. CASE granted
    BY <1>7, <2>1 DEF OnStart, SessionHeld
  <2>2. CASE ~granted
    <3>1. Handle("START") /\ inbox' = Tail(inbox) /\ StopSelf /\ main # "destroy"
      BY <1>7, <2>2 DEF OnStart, Handle
    <3>2. CASE NoDestroy(inbox)
      BY <3>1, <3>2 DEF StopSelf, NoDestroy, SessionHeld
    <3>3. CASE ~NoDestroy(inbox)
      <4>1. ~NoDestroy(Tail(inbox))
        BY <3>1, <3>3, HandleInbox
      <4>2. Tail(inbox) # <<>>
        BY <4>1 DEF NoDestroy
      <4> QED
        BY <3>1, <4>2 DEF SessionHeld
    <3> QED
      BY <3>2, <3>3
  <2> QED
    BY <2>1, <2>2
<1>8. CASE StartOk
  BY <1>8 DEF StartOk, SessionHeld
<1>9. CASE Release
  BY <1>9 DEF Release, SessionHeld, ServiceInv
<1>10. CASE BringDown
  <2>1. [kind |-> "destroy", profile |-> None] \in Intents
    BY DEF Intents
  <2>2. inbox' # <<>>
    BY <1>10, <2>1, AppendProperties DEF BringDown, Types
  <2> QED
    BY <2>2 DEF SessionHeld
<1>11. CASE Revoke
  <2>1. UNCHANGED <<inbox, main, session, pfd>> /\ (stopped => stopped')
    BY <1>11 DEF Revoke, StopSelf
  <2> QED
    BY <2>1 DEF SessionHeld
<1> QED
  BY <1>1, <1>2, <1>3, <1>4, <1>5, <1>6, <1>7, <1>8, <1>9, <1>10, <1>11 DEF Next

IInv == Types /\ InboxInv /\ ServiceInv /\ SessionHeld

LEMMA InductiveInit == Init => IInv
<1> SUFFICES ASSUME Init PROVE InboxInv /\ ServiceInv /\ SessionHeld
  BY TypesInit DEF IInv
<1>1. InboxInv
  BY DEF Init, InboxInv, InboxOk, NoDestroy
<1>2. ServiceInv /\ SessionHeld
  BY DEF Init, Core!Init, ServiceInv, SessionHeld
<1> QED
  BY <1>1, <1>2

LEMMA InductiveStep == IInv /\ [Next]_vars => IInv'
BY TypesStep, InboxStep, ServiceStep, HeldStep DEF IInv

LEMMA Inductive == Spec => []IInv
BY InductiveInit, InductiveStep, PTL DEF Spec

\* The descriptor the core runs on may be closed under it, but by one step only:
\* the finalizer, after a second START made the service drop it
\* (Vpn21VpnService.kt:76-77), while that or another message is being handled or
\* waits.  Neither shutdown() nor onDestroy() closes it, as both stop the core
\* first (Vpn21VpnService.kt:106-112 and 137-142), and a start gets an open one.
THEOREM DescriptorOutlives == Spec => PfdOutlivesSession
<1> DEFINE A == session' # None /\ session' \notin open' =>
                  \/ session' = session /\ session \notin open
                  \/ /\ session # pfd /\ (main # "free" \/ stopped \/ inbox # <<>>)
                     /\ UNCHANGED <<pfd, established, uiVars, channel, activityVars, answerVars,
                                    serviceVars, busVars, mainVars, coreVars>>
<1>1. ASSUME IInv, Next PROVE A
  <2> SUFFICES ASSUME session' # None, session' \notin open',
                      ~(session' = session /\ session \notin open)
               PROVE  /\ session # pfd /\ (main # "free" \/ stopped \/ inbox # <<>>)
                      /\ UNCHANGED <<pfd, established, uiVars, channel, activityVars, answerVars,
                                     serviceVars, busVars, mainVars, coreVars>>
    OBVIOUS
  <2>1. CASE UNCHANGED <<session, open>>
    BY <2>1
  <2>2. CASE OnStart
    BY <2>2 DEF OnStart, coreVars
  <2>3. CASE StartOk
    BY <1>1, <2>3 DEF StartOk, fdVars, IInv, ServiceInv
  <2>4. CASE NativeStop
    BY <2>4 DEF NativeStop, fdVars
  <2>5. CASE Release
    BY <1>1, <2>5 DEF Release, coreVars, IInv, ServiceInv
  <2>6. CASE CollectGarbage
    <3>1. /\ UNCHANGED <<pfd, established, uiVars, channel, activityVars, answerVars,
                        serviceVars, busVars, mainVars, coreVars>>
          /\ session' = session
          /\ \E fd \in open \ {pfd} : open' = open \ {fd}
      BY <2>6 DEF CollectGarbage, coreVars
    <3>2. session # pfd
      BY <3>1
    <3> QED
      BY <1>1, <3>1, <3>2 DEF IInv, SessionHeld
  <2> QED
    BY <1>1, <2>1, <2>2, <2>3, <2>4, <2>5, <2>6
    DEF Next, TapConnect, TapDisconnect, PollStatus, AnswerArrives, OnStartVpn, OnStopVpn,
        DialogAllowed, DialogDenied, OnCreate, OnStop, OnDestroy, CoreProgress, StartError,
        BringDown, Revoke, fdVars, coreVars
<1>2. IInv /\ [Next]_vars => [A]_vars
  BY <1>1
<1> QED
  BY <1>2, Inductive, PTL DEF Spec, PfdOutlivesSession

\* The service is destroyed with nothing left, whatever intents, stopSelf() and
\* a revocation came in which order
\* (Vpn21VpnService.kt:36-48 and 137-142).
THEOREM NothingWithoutService == Spec => []NoServiceNoSession
<1>1. IInv => NoServiceNoSession
  BY DEF IInv, ServiceInv, NoServiceNoSession
<1> QED
  BY <1>1, Inductive, PTL

\* Between messages, the session is the one on the descriptor the service
\* holds, unless a message that changes it is on its way
\* (Vpn21VpnService.kt:50-112).
THEOREM HeldSession == Spec => []SessionHeld
<1>1. IInv => SessionHeld
  BY DEF IInv
<1> QED
  BY <1>1, Inductive, PTL

-----------------------------------------------------------------------------
(* The last wish.                                                             *)

\* What becomes of the inbox when an intent is sent.
LEMMA SendStop ==
  ASSUME Types, NEW k \in {"START", "STOP"}, NEW p \in Calls \cup {None}, SendIntent(k, p)
  PROVE  /\ k = "STOP" => StopLast(inbox', "STOP", "START")
<1> DEFINE made == [kind |-> "create", profile |-> None]
           sent == [kind |-> k, profile |-> p]
           box == IF Existing THEN inbox ELSE Append(inbox, made)
<1>1. inbox \in Seq(Intents) /\ made \in Intents /\ sent \in Intents /\ sent.kind = k
  BY DEF Types, Intents
<1>2. box \in Seq(Intents) /\ inbox' = Append(box, sent)
  BY <1>1, AppendProperties DEF SendIntent
<1> HIDE DEF box, sent
<1> QED
  BY <1>1, <1>2, AppendStop

LEMMA DeliveredStep ==
  ASSUME Types, InboxInv, ServiceInv, Delivered, Next, ~OnStartVpn, ~DialogAllowed
  PROVE  Delivered'
<1> USE DEF serviceVars, mainVars, coreVars
<1>1. CASE \/ TapConnect \/ TapDisconnect \/ PollStatus \/ AnswerArrives \/ DialogDenied
           \/ CollectGarbage \/ Revoke
  <2>1. UNCHANGED <<inbox, main, session>>
    BY <1>1 DEF TapConnect, TapDisconnect, PollStatus, AnswerArrives, DialogDenied,
         CollectGarbage, Revoke
  <2> QED
    BY <2>1 DEF Delivered
<1>2. CASE OnStopVpn
  BY <1>2, SendStop DEF OnStopVpn, Delivered
<1>3. ASSUME NEW k, Handle(k)
      PROVE  /\ inbox \in Seq(Intents) /\ inbox # <<>> /\ inbox' = Tail(inbox) /\ Head(inbox).kind = k
             /\ main = "free"
             /\ StopLast(inbox, "STOP", "START") =>
                  \/ StopLast(inbox', "STOP", "START")
                  \/ k = "STOP" /\ NoStart(inbox', "START")
             /\ NoStart(inbox, "START") => NoStart(inbox', "START") /\ k # "START"
  <2>1. inbox \in Seq(Intents) /\ inbox # <<>> /\ inbox' = Tail(inbox) /\ Head(inbox).kind = k
    BY <1>3 DEF Handle, Types
  <2>2. NoStart(inbox, "START") => k # "START"
    BY <2>1, TailAt DEF NoStart
  <2> QED
    BY <1>3, <2>1, <2>2, TailStop DEF Handle
<1>4. CASE OnCreate
  BY <1>4, <1>3 DEF OnCreate, Delivered
<1>5. CASE OnStart
  BY <1>5, <1>3 DEF OnStart, Delivered
<1>6. CASE OnStop
  BY <1>6, <1>3 DEF OnStop, Delivered
<1>7. CASE OnDestroy
  BY <1>7, <1>3 DEF OnDestroy, Delivered
<1>8. CASE CoreProgress
  BY <1>8 DEF CoreProgress, Delivered
<1>9. CASE StartOk
  BY <1>9 DEF StartOk, Delivered
<1>10. CASE StartError
  BY <1>10 DEF StartError, Delivered
<1>11. CASE NativeStop
  BY <1>11 DEF NativeStop, Delivered
<1>12. CASE Release
  <2>1. session = None /\ UNCHANGED <<inbox, session>> /\ main' = "free"
    BY <1>12 DEF Release, ServiceInv
  <2> QED
    BY <2>1 DEF Delivered
<1>13. CASE BringDown
  <2> DEFINE e == [kind |-> "destroy", profile |-> None]
  <2>1. e \in Intents /\ e.kind # "START" /\ inbox \in Seq(Intents) /\ inbox' = Append(inbox, e)
        /\ UNCHANGED <<main, session>>
    BY <1>13 DEF BringDown, Intents, Types
  <2> HIDE DEF e
  <2>2. /\ StopLast(inbox, "STOP", "START") => StopLast(inbox', "STOP", "START")
        /\ NoStart(inbox, "START") => NoStart(inbox', "START")
    BY <2>1, AppendStop
  <2> QED
    BY <2>1, <2>2 DEF Delivered
<1> QED
  BY <1>1, <1>2, <1>4, <1>5, <1>6, <1>7, <1>8, <1>9, <1>10, <1>11, <1>12, <1>13 DEF Next

LEMMA WishStep == IInv /\ WishInv /\ [Next]_vars => WishInv'
<1> SUFFICES ASSUME IInv, WishInv, [Next]_vars PROVE WishInv'
  OBVIOUS
<1> USE DEF activityVars, uiVars
<1>0. Types /\ InboxInv /\ ServiceInv
  BY DEF IInv
<1>1. ~asked' => dialogs' = 0
  <2>1. CASE Next /\ ~OnStartVpn /\ ~DialogAllowed /\ ~DialogDenied
    <3>1. UNCHANGED <<asked, dialogs>>
      BY <2>1 DEF Next, TapConnect, TapDisconnect, PollStatus, AnswerArrives, OnStopVpn, OnCreate,
           OnStart, OnStop, OnDestroy, CoreProgress, StartOk, StartError, NativeStop, Release,
           BringDown, Revoke, CollectGarbage
    <3> QED
      BY <3>1 DEF WishInv
  <2>2. CASE OnStartVpn
    BY <2>2 DEF OnStartVpn, WishInv
  <2>3. CASE DialogAllowed
    BY <1>0, <2>3 DEF DialogAllowed, WishInv, Types
  <2>4. CASE DialogDenied
    BY <1>0, <2>4 DEF DialogDenied, WishInv, Types
  <2>5. CASE UNCHANGED vars
    BY <2>5 DEF vars, WishInv
  <2> QED
    BY <2>1, <2>2, <2>3, <2>4, <2>5
<1> SUFFICES ASSUME wish' = "disconnect", ~asked'
             PROVE  \/ StopLast(channel', "stopVpn", "startVpn")
                    \/ NoStart(channel', "startVpn") /\ Delivered'
  BY <1>1 DEF WishInv, Delivered
<1>2. CASE TapConnect
  BY <1>2 DEF TapConnect
<1>3. CASE TapDisconnect
  <2> DEFINE e == [kind |-> "stopVpn", profile |-> None]
  <2>1. e \in Messages /\ e.kind = "stopVpn" /\ channel \in Seq(Messages) /\ channel' = Append(channel, e)
    BY <1>0, <1>3 DEF TapDisconnect, Post, Messages, Types
  <2> HIDE DEF e
  <2> QED
    BY <2>1, AppendStop
<1>4. CASE ~TapConnect /\ ~TapDisconnect
  <2>1. wish = "disconnect" /\ ~asked
    BY <1>4 DEF Next, PollStatus, AnswerArrives, OnStartVpn, OnStopVpn, DialogAllowed,
         DialogDenied, OnCreate, OnStart, OnStop, OnDestroy, CoreProgress, StartOk, StartError,
         NativeStop, Release, BringDown, Revoke, CollectGarbage, vars
  <2>2. \/ StopLast(channel, "stopVpn", "startVpn")
        \/ NoStart(channel, "startVpn") /\ Delivered
    BY <2>1 DEF WishInv, Delivered
  <2>3. ~DialogAllowed
    BY <2>1 DEF WishInv, DialogAllowed
  <2>4. CASE OnStartVpn
    <3>1. /\ channel \in Seq(Messages) /\ channel # <<>> /\ channel' = Tail(channel)
          /\ Head(channel).kind = "startVpn"
      BY <1>0, <2>4 DEF OnStartVpn, Types
    <3>2. ~NoStart(channel, "startVpn")
      BY <3>1, TailAt DEF NoStart
    <3> QED
      BY <2>2, <3>1, <3>2, TailStop
  <2>5. CASE OnStopVpn
    <3>1. /\ channel \in Seq(Messages) /\ channel # <<>> /\ channel' = Tail(channel)
          /\ SendIntent("STOP", None)
      BY <1>0, <2>5 DEF OnStopVpn, Types
    <3>2. Delivered'
      BY <1>0, <3>1, SendStop DEF Delivered
    <3> QED
      BY <2>2, <3>1, <3>2, TailStop
  <2>6. CASE Next /\ ~OnStartVpn /\ ~OnStopVpn
    <3>1. UNCHANGED channel
      BY <1>4, <2>3, <2>6 DEF Next, PollStatus, AnswerArrives,
           DialogDenied, OnCreate, OnStart, OnStop, OnDestroy, CoreProgress, StartOk, StartError,
           NativeStop, Release, BringDown, Revoke, CollectGarbage
    <3>2. Delivered => Delivered'
      BY <1>0, <2>3, <2>6, DeliveredStep
    <3> QED
      BY <2>2, <3>1, <3>2
  <2>7. CASE UNCHANGED vars
    BY <2>2, <2>7 DEF vars, Delivered, serviceVars, mainVars, coreVars
  <2> QED
    BY <2>4, <2>5, <2>6, <2>7
<1> QED
  BY <1>2, <1>3, <1>4

\* A last tap on Cancel or Disconnect stops the VPN, unless a permission dialog
\* was up (MainActivity.kt:49-103, Vpn21VpnService.kt:36-48 and 106-112).
THEOREM LastWishIsDone == Spec => []LastWishWins
<1>1. Init => WishInv
  BY DEF Init, WishInv
<1>2. WishInv => LastWishWins
  <2>1. ASSUME channel = <<>> PROVE ~StopLast(channel, "stopVpn", "startVpn")
    BY <2>1 DEF StopLast
  <2>2. ASSUME inbox = <<>> PROVE ~StopLast(inbox, "STOP", "START")
    BY <2>2 DEF StopLast
  <2> QED
    BY <2>1, <2>2 DEF WishInv, Delivered, LastWishWins
<1> QED
  BY <1>1, <1>2, Inductive, WishStep, PTL DEF Spec

=============================================================================
