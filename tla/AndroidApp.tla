----------------------------- MODULE AndroidApp -----------------------------
(* The Android app: the Dart side (VpnController), MainActivity.kt,           *)
(* Vpn21VpnService.kt and the core behind JNI (LoneCaller: every native start *)
(* and stop is made on the main thread).                                      *)
(*                                                                            *)
(* The main thread handles one message at a time: a channel call from Dart,   *)
(* the answer of the permission dialog, or a message of the system to the     *)
(* service.  It is blocked while a native call runs; Dart polls on meanwhile. *)
(* Left out: the death of the process, and a MainActivity that is recreated.  *)
EXTENDS Naturals, Sequences, FiniteSets, VpnController

CONSTANTS
  MaxConnects,     \* bound on taps on Connect, and so on startVpn calls
  MaxDisconnects,  \* bound on taps on Cancel or Disconnect
  MaxRevokes       \* bound on revocations by the system

ASSUME TapAssumption ==
  MaxConnects \in Nat \ {0} /\ MaxDisconnects \in Nat /\ MaxRevokes \in Nat

Calls == 1..MaxConnects  \* startVpn calls, their profiles, and TUN descriptors
None == 0

VARIABLES
  connects, disconnects, revokes,  \* taps and revocations so far
  wish,          \* history: the last tap
  channel,       \* messages of the method channel on their way from Dart
  answer,        \* what each startVpn call was answered
  thrown,        \* error answers on their way to Dart
  dialogs,       \* permission dialogs on the screen
  granted,       \* VpnService.prepare() returns null
  asked,         \* history: a dialog was ever shown
  startResult, pendingProfile,  \* MainActivity's fields
  inbox,         \* messages of the system to the service
  alive,         \* a service object exists
  stopped,       \* the service called stopSelf() and was not started since
  pfd,           \* Vpn21VpnService.pfd
  open,          \* descriptors that are open
  established,   \* descriptors ever handed out by establish()
  pending,       \* the bus: a callback waits
  latest,        \* the bus: latestOk, unless null
  main,          \* what the main thread is in the middle of
  attempt,       \* the profile it is starting
  started,       \* history: profiles the core was started with, in order
  session,       \* the descriptor the core's session runs on
  status, up, phase  \* the core: see LoneCaller

Core == INSTANCE LoneCaller

uiVars == <<stage, connects, disconnects, wish>>
activityVars == <<dialogs, granted, asked, startResult, pendingProfile>>
answerVars == <<answer, thrown>>
busVars == <<pending, latest>>
fdVars == <<pfd, open, established>>
serviceVars == <<inbox, alive, stopped>>
coreVars == <<session, status, up, phase>>
mainVars == <<main, attempt, started>>
vars == <<uiVars, revokes, channel, answerVars, activityVars, serviceVars, fdVars,
          busVars, mainVars, coreVars>>

Messages == [kind : {"startVpn", "stopVpn"}, profile : Calls \cup {None}]
Intents == [kind : {"create", "START", "STOP", "destroy"}, profile : Calls \cup {None}]

TypeOK ==
  /\ stage \in Stages /\ status \in Stages /\ up \in BOOLEAN
  /\ phase \in {"free", "bootstrap", "connect", "stop"}
  /\ connects \in 0..MaxConnects /\ disconnects \in 0..MaxDisconnects
  /\ revokes \in 0..MaxRevokes
  /\ wish \in {"none", "connect", "disconnect"}
  /\ channel \in Seq(Messages) /\ inbox \in Seq(Intents)
  /\ answer \in [Calls -> {"none", "ok", "error"}] /\ thrown \subseteq Calls
  /\ dialogs \in 0..MaxConnects /\ granted \in BOOLEAN /\ asked \in BOOLEAN
  /\ startResult \in Calls \cup {None} /\ pendingProfile \in Calls \cup {None}
  /\ alive \in BOOLEAN /\ stopped \in BOOLEAN /\ pending \in BOOLEAN /\ latest \in {"none", "ok", "error"}
  /\ pfd \in Calls \cup {None} /\ session \in Calls \cup {None}
  /\ established \in 0..MaxConnects /\ open \subseteq 1..established
  /\ main \in {"free", "starting", "shutdown", "destroy"}
  /\ attempt \in Calls \cup {None} /\ started \in Seq(Calls)

Init ==
  /\ stage = "Idle" /\ Core!Init
  /\ connects = 0 /\ disconnects = 0 /\ revokes = 0 /\ wish = "none"
  /\ channel = <<>> /\ inbox = <<>>
  /\ answer = [c \in Calls |-> "none"] /\ thrown = {}
  /\ dialogs = 0 /\ granted \in BOOLEAN /\ asked = FALSE
  /\ startResult = None /\ pendingProfile = None
  /\ alive = FALSE /\ stopped = FALSE /\ pfd = None /\ open = {} /\ established = 0
  /\ pending = FALSE /\ latest = "none"
  /\ main = "free" /\ attempt = None /\ started = <<>> /\ session = None

-----------------------------------------------------------------------------
(* Dart.  A tap is dispatched by the main thread, and reaches the page only    *)
(* when no dialog covers it.                                                  *)

Tappable == main = "free" /\ dialogs = 0

Post(kind, profile) == channel' = Append(channel, [kind |-> kind, profile |-> profile])

TapConnect ==
  /\ Tappable /\ connects < MaxConnects
  /\ Connect
  /\ connects' = connects + 1
  /\ wish' = "connect"
  /\ Post("startVpn", connects + 1)
  /\ UNCHANGED <<disconnects, revokes, answerVars, activityVars, serviceVars, fdVars, busVars, mainVars, coreVars>>

TapDisconnect ==
  /\ Tappable /\ disconnects < MaxDisconnects
  /\ Disconnect
  /\ disconnects' = disconnects + 1
  /\ wish' = "disconnect"
  /\ Post("stopVpn", None)
  /\ UNCHANGED <<connects, revokes, answerVars, activityVars, serviceVars, fdVars, busVars, mainVars, coreVars>>

\* Mutant of PollStatus: the poll waits for the stop to be over.
PollStatusWaits ==
  /\ stage # "Disconnecting"
  /\ Poll(status)
  /\ UNCHANGED <<connects, disconnects, wish, revokes, channel, answerVars, activityVars, serviceVars, fdVars, busVars, mainVars, coreVars>>

PollStatus ==
  /\ Poll(status)
  /\ UNCHANGED <<connects, disconnects, wish, revokes, channel, answerVars, activityVars, serviceVars, fdVars, busVars, mainVars, coreVars>>

\* An error answer arrives: invokeMethod throws.
AnswerArrives ==
  \E c \in thrown :
    /\ thrown' = thrown \ {c}
    /\ ConnectThrows
    /\ UNCHANGED <<connects, disconnects, wish, revokes, channel, answer, activityVars, serviceVars, fdVars, busVars, mainVars, coreVars>>

-----------------------------------------------------------------------------
(* MainActivity, on the main thread.                                          *)

\* The system will have a service once the inbox is handled: the one there is,
\* or one that is made, and is not destroyed after that.
Existing ==
  LET NoneDestroyed(from) == \A j \in DOMAIN inbox : j > from => inbox[j].kind # "destroy"
  IN  \/ alive /\ NoneDestroyed(0)
      \/ \E i \in DOMAIN inbox : inbox[i].kind = "create" /\ NoneDestroyed(i)

\* startService(): the system makes a service first if there is none, and keeps
\* one it has not destroyed yet.
SendIntent(kind, profile) ==
  /\ stopped' = FALSE /\ UNCHANGED alive
  /\ inbox' = Append(IF Existing THEN inbox ELSE Append(inbox, [kind |-> "create", profile |-> None]),
                     [kind |-> kind, profile |-> profile])

\* Call c, if it is one, is answered r.
Reply(c, r) ==
  IF c = None
  THEN UNCHANGED answerVars
  ELSE /\ answer' = [answer EXCEPT ![c] = r]
       /\ thrown' = IF r = "error" THEN thrown \cup {c} ELSE thrown

\* Mutant of LaunchService: no return after an outcome found on the bus.
LaunchServiceRegisters(result, profile) ==
  /\ SendIntent("START", profile)
  /\ pending' = TRUE
  /\ IF latest # "none"
     THEN Reply(result, latest) /\ startResult' = None
     ELSE startResult' = result /\ UNCHANGED answerVars
  /\ UNCHANGED latest

\* launchService(): the intent, then waitForStart, whose callback answers
\* `result`; it is called at once with the outcome left on the bus, if any.
LaunchService(result, profile) ==
  /\ SendIntent("START", profile)
  /\ IF latest # "none"
     THEN /\ Reply(result, latest)
          /\ startResult' = None
          /\ latest' = "none"
          /\ UNCHANGED pending
     ELSE /\ pending' = TRUE
          /\ startResult' = result
          /\ UNCHANGED <<latest, answerVars>>

OnStartVpn ==
  /\ main = "free" /\ channel # <<>> /\ Head(channel).kind = "startVpn"
  /\ channel' = Tail(channel)
  /\ pendingProfile' = Head(channel).profile
  /\ IF granted
     THEN /\ LaunchService(Head(channel).profile, Head(channel).profile)
          /\ UNCHANGED <<dialogs, asked>>
     ELSE /\ startResult' = Head(channel).profile
          /\ dialogs' = dialogs + 1
          /\ asked' = TRUE
          /\ UNCHANGED <<serviceVars, busVars, answerVars>>
  /\ UNCHANGED <<uiVars, revokes, granted, fdVars, mainVars, coreVars>>

\* The STOP intent is sent, and Dart is answered at once.
OnStopVpn ==
  /\ main = "free" /\ channel # <<>> /\ Head(channel).kind = "stopVpn"
  /\ channel' = Tail(channel)
  /\ SendIntent("STOP", None)
  /\ UNCHANGED <<uiVars, revokes, answerVars, activityVars, fdVars, busVars, mainVars, coreVars>>

\* onActivityResult of the permission dialog.
DialogAllowed ==
  /\ main = "free" /\ dialogs > 0
  /\ dialogs' = dialogs - 1
  /\ granted' = TRUE
  /\ LaunchService(startResult, pendingProfile)
  /\ UNCHANGED <<uiVars, revokes, channel, asked, pendingProfile, fdVars, mainVars, coreVars>>

DialogDenied ==
  /\ main = "free" /\ dialogs > 0 /\ ~granted
  /\ dialogs' = dialogs - 1
  /\ Reply(startResult, "error")
  /\ startResult' = None
  /\ UNCHANGED <<uiVars, revokes, channel, granted, asked, pendingProfile, serviceVars, fdVars, busVars, mainVars, coreVars>>

-----------------------------------------------------------------------------
(* Vpn21VpnService, on the main thread.                                       *)

\* Mutant of PushResult: a callback that leaves startResult set.
PushResultKeeps(r) ==
  IF pending
  THEN Reply(startResult, r) /\ pending' = FALSE /\ UNCHANGED <<latest, startResult>>
  ELSE latest' = r /\ UNCHANGED <<pending, startResult, answerVars>>

\* Mutant of PushResult: the outcome is stored even when it was delivered.
PushResultStores(r) ==
  /\ latest' = r
  /\ IF pending
     THEN Reply(startResult, r) /\ startResult' = None /\ pending' = FALSE
     ELSE UNCHANGED <<pending, startResult, answerVars>>

\* The callback that waits, if any, answers the call startResult holds by now.
PushResult(r) ==
  IF pending
  THEN Reply(startResult, r) /\ startResult' = None /\ pending' = FALSE /\ UNCHANGED latest
  ELSE latest' = r /\ UNCHANGED <<pending, startResult, answerVars>>

\* stopSelf(): of no effect once the system is destroying this instance.
StopSelf ==
  stopped' = \/ stopped
             \/ main # "destroy" /\ \A i \in DOMAIN inbox : inbox[i].kind # "destroy"

Handle(kind) ==
  /\ main = "free" /\ inbox # <<>> /\ Head(inbox).kind = kind
  /\ inbox' = Tail(inbox)

OnCreate ==
  /\ Handle("create")
  /\ alive' = TRUE
  /\ UNCHANGED <<uiVars, revokes, channel, answerVars, activityVars, stopped, fdVars, busVars, mainVars, coreVars>>

\* buildAndStart() up to nativeStartWithFd: establish() gives a descriptor, or
\* null without the permission.  Whatever pfd held before is dropped.
OnStart ==
  /\ Handle("START")
  /\ IF granted
     THEN /\ established' = established + 1
          /\ pfd' = established' /\ open' = open \cup {established'}
          /\ main' = "starting" /\ attempt' = Head(inbox).profile
          /\ UNCHANGED <<stopped, startResult, busVars, answerVars>>
     ELSE /\ pfd' = None
          /\ PushResult("error")
          /\ StopSelf
          /\ UNCHANGED <<established, open, main, attempt>>
  /\ UNCHANGED <<uiVars, revokes, channel, dialogs, granted, asked, pendingProfile, alive, started, coreVars>>

\* Mutant of OnStop: ACTION_STOP leaves the work to onDestroy().
OnStopSelf ==
  /\ Handle("STOP")
  /\ StopSelf
  /\ UNCHANGED <<uiVars, revokes, channel, answerVars, activityVars, alive, fdVars, busVars, mainVars, coreVars>>

OnStop ==
  /\ Handle("STOP")
  /\ main' = "shutdown"
  /\ UNCHANGED <<uiVars, revokes, channel, answerVars, activityVars, alive, stopped, fdVars, busVars, attempt, started, coreVars>>

OnDestroy ==
  /\ Handle("destroy")
  /\ main' = "destroy"
  /\ UNCHANGED <<uiVars, revokes, channel, answerVars, activityVars, alive, stopped, fdVars, busVars, attempt, started, coreVars>>

\* nativeStartWithFd is under way.
CoreProgress ==
  /\ main = "starting"
  /\ Core!Begin \/ Core!Tunnel
  /\ UNCHANGED <<uiVars, revokes, channel, answerVars, activityVars, serviceVars, fdVars, busVars, mainVars, session>>

\* It returns ok.
StartOk ==
  /\ main = "starting" /\ Core!Succeed
  /\ main' = "free" /\ started' = Append(started, attempt)
  /\ session' = pfd
  /\ PushResult("ok")
  /\ UNCHANGED <<uiVars, revokes, channel, dialogs, granted, asked, pendingProfile, serviceVars, fdVars, attempt>>

\* Mutant of StartError: no shutdown() after a start that failed.
StartErrorLeaves ==
  /\ main = "starting"
  /\ \/ phase = "free" /\ UNCHANGED <<status, up, phase>>
     \/ Core!Fail
  /\ main' = "free"
  /\ PushResult("error")
  /\ UNCHANGED <<uiVars, revokes, channel, dialogs, granted, asked, pendingProfile, serviceVars, fdVars, attempt, started, session>>

\* It returns an error: the profile does not parse, a session is installed, or
\* the start failed.
StartError ==
  /\ main = "starting"
  /\ \/ phase = "free" /\ UNCHANGED <<status, up, phase>>
     \/ Core!Fail
  /\ main' = "shutdown"
  /\ PushResult("error")
  /\ UNCHANGED <<uiVars, revokes, channel, dialogs, granted, asked, pendingProfile, serviceVars, fdVars, attempt, started, session>>

\* nativeStop() of shutdown() and onDestroy().
NativeStop ==
  /\ main \in {"shutdown", "destroy"}
  /\ \/ Core!Disconnect /\ UNCHANGED session
     \/ Core!Finish /\ session' = None
  /\ UNCHANGED <<uiVars, revokes, channel, answerVars, activityVars, serviceVars, fdVars, busVars, mainVars>>

\* Mutant of Release: the descriptor is closed before nativeStop().
ReleaseEarly ==
  /\ main \in {"shutdown", "destroy"} /\ phase = "free"
  /\ IF up THEN pfd \in open /\ open' = open \ {pfd} /\ UNCHANGED <<pfd, alive, stopped, main>>
     ELSE /\ open' = open \ {pfd} /\ pfd' = None /\ main' = "free"
          /\ IF main = "shutdown" THEN StopSelf /\ UNCHANGED alive ELSE alive' = FALSE /\ UNCHANGED stopped
  /\ UNCHANGED <<uiVars, revokes, channel, answerVars, activityVars, inbox, established, busVars, attempt, started, coreVars>>

\* Mutant of Release: onDestroy() does not stop the core.
ReleaseOnly ==
  /\ main \in {"shutdown", "destroy"} /\ phase = "free"
  /\ main = "shutdown" => ~up
  /\ open' = open \ {pfd} /\ pfd' = None /\ main' = "free"
  /\ IF main = "shutdown" THEN StopSelf /\ UNCHANGED alive ELSE alive' = FALSE /\ UNCHANGED stopped
  /\ UNCHANGED <<uiVars, revokes, channel, answerVars, activityVars, inbox, established, busVars, attempt, started, coreVars>>

\* The rest of them, when nativeStop() has returned or had nothing to stop.
Release ==
  /\ main \in {"shutdown", "destroy"} /\ phase = "free" /\ ~up
  /\ open' = open \ {pfd} /\ pfd' = None
  /\ main' = "free"
  /\ IF main = "shutdown" THEN StopSelf /\ UNCHANGED alive ELSE alive' = FALSE /\ UNCHANGED stopped
  /\ UNCHANGED <<uiVars, revokes, channel, answerVars, activityVars, inbox, established, busVars, attempt, started, coreVars>>

-----------------------------------------------------------------------------
(* The system.                                                                *)

\* A service that stopped itself is destroyed: at once, or only when the VPN
\* connection that binds it is gone.
BringDown ==
  /\ stopped /\ Existing
  /\ stopped' = FALSE
  /\ inbox' = Append(inbox, [kind |-> "destroy", profile |-> None])
  /\ UNCHANGED <<uiVars, revokes, channel, answerVars, activityVars, alive, fdVars, busVars, mainVars, coreVars>>

\* Another VPN takes over: the permission is gone, and the framework's
\* onRevoke(), which the service does not override, calls stopSelf().
Revoke ==
  /\ revokes < MaxRevokes /\ granted
  /\ revokes' = revokes + 1
  /\ granted' = FALSE
  /\ IF pfd # None THEN StopSelf ELSE UNCHANGED stopped
  /\ UNCHANGED <<uiVars, channel, answerVars, dialogs, asked, startResult, pendingProfile, inbox, alive, fdVars, busVars, mainVars, coreVars>>

\* The finalizer of a ParcelFileDescriptor nothing refers to closes it.
CollectGarbage ==
  /\ \E fd \in open \ {pfd} : open' = open \ {fd}
  /\ UNCHANGED <<uiVars, revokes, channel, answerVars, activityVars, serviceVars, pfd, established, busVars, mainVars, coreVars>>

Next ==
  \/ TapConnect \/ TapDisconnect \/ PollStatus \/ AnswerArrives
  \/ OnStartVpn \/ OnStopVpn \/ DialogAllowed \/ DialogDenied
  \/ OnCreate \/ OnStart \/ OnStop \/ OnDestroy
  \/ CoreProgress \/ StartOk \/ StartError \/ NativeStop \/ Release
  \/ BringDown \/ Revoke \/ CollectGarbage

\* The timer of Dart fires, and a native stop() returns within its budget (see
\* StopReturns of Orchestrator).  Nothing is assumed of the user, of the
\* dialog, of a native start or of the system.
Fairness == WF_vars(PollStatus) /\ WF_vars(NativeStop)

Spec == Init /\ [][Next]_vars /\ Fairness

-----------------------------------------------------------------------------

\* The descriptor a session runs on is open when the session begins, and one
\* step only closes it while the session lasts: the finalizer, after a later
\* START made the service let go of it.  shutdown() and onDestroy() stop the core
\* first.  So a session may be left running on a closed descriptor, but only while
\* the service handles a message, has one before it, or has stopped itself.
PfdOutlivesSession ==
  [][session' # None /\ session' \notin open' =>
       \/ session' = session /\ session \notin open
       \/ /\ session # pfd /\ (main # "free" \/ stopped \/ inbox # <<>>)
          /\ UNCHANGED <<pfd, established, uiVars, channel, activityVars, answerVars, serviceVars, busVars, mainVars, coreVars>>]_vars

\* Without a service there is no session and no TUN, whatever intents, a
\* revocation and stopSelf() did in which order.
NoServiceNoSession == ~alive => session = None /\ ~up /\ pfd = None

\* Between messages the session runs on the descriptor the service holds,
\* unless the service is about to be started, stopped or destroyed.
SessionHeld == main = "free" /\ session # pfd => stopped \/ inbox # <<>>

\* A callback and an outcome never wait for each other on the bus.
BusExclusive == ~(pending /\ latest # "none")

\* Replying twice to one method call throws: the slot that holds the reply is
\* shared by all calls, and still no call is answered twice.
AnsweredOnce == [][\A c \in Calls : answer[c] # "none" => answer'[c] = answer[c]]_vars

\* "ok" is told at most once per start that succeeded, the one on the bus
\* included.
OkNeverInvented ==
  Cardinality({c \in Calls : answer[c] = "ok"}) + (IF latest = "ok" THEN 1 ELSE 0)
    <= Len(started)

\* Once everything under way is done, a last tap on Cancel or Disconnect has
\* stopped the VPN, unless a permission dialog was up: the START it releases
\* may come after the STOP.
LastWishWins ==
  /\ wish = "disconnect" /\ ~asked
  /\ main = "free" /\ channel = <<>> /\ inbox = <<>>
  => session = None

\* docs/ARCHITECTURE.md:53-55: the UI never hangs on "Disconnecting", although
\* the app shows it on its own, before anything was stopped.
DisconnectingEnds == stage = "Disconnecting" ~> stage # "Disconnecting"

=============================================================================
