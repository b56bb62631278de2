---------------------------- MODULE Orchestrator ----------------------------
(* The session orchestrator of vpn21-core (orchestrator.rs): start() and      *)
(* stop(), called by FFI threads, and the tasks and threads they leave        *)
(* behind: two leaf runtimes with their cancellation watchers                 *)
(* (transport/leaf_impl.rs), arti's SOCKS inbound (arti_pipeline.rs), the DNS *)
(* listener (dns/mod.rs) and the drain task stop() spawns.                    *)
(*                                                                            *)
(* A session is one CancellationToken with everything started under it.  One  *)
(* action is the code between two points where other threads can be noticed:  *)
(* an .await, or the release of a lock whose contents others use.             *)
EXTENDS Naturals, FiniteSets

CONSTANTS
  Callers,     \* FFI threads, each blocked in at most one start() or stop()
  Sessions,    \* tokens that may ever be created: the bound on start attempts
  NoSession,   \* None
  FdVerdicts   \* what adopt_tun may answer on this platform and build

ASSUME NoSessionAssumption == NoSession \notin Sessions
ASSUME FdVerdictsAssumption == FdVerdicts \subseteq BOOLEAN /\ FdVerdicts # {}

VARIABLES
  status,      \* Orchestrator.status.state; detail and progress are left out
  running,     \* Orchestrator.running: the installed session, or NoSession
  pc,          \* where each caller is
  sess,        \* the session a caller owns as a local variable
  result,      \* what the caller's last call returned
  used,        \* sessions whose token exists
  cancelled,   \* sessions whose token is cancelled
  leaf,        \* per session: leaf #2 ("chain") and leaf #1 ("tun")
  arti,        \* per session: arti's SOCKS inbound
  dns,         \* per session: the UDP socket of the DNS listener
  drain        \* per session: the task that stops its subsystems

callVars == <<pc, sess, result>>
vars == <<status, running, pc, sess, result, used, cancelled, leaf, arti, dns, drain>>

Leaves == {"chain", "tun"}
States == {"Idle", "Bootstrapping", "Connecting", "Connected", "Disconnecting", "Error"}
Building == {"leaf2", "bootstrap", "leaf1", "dns", "install"}
Stopping == {"cancel", "wait"}
Owning == Building \cup Stopping
PCs == {"idle", "prepare", "announce"} \cup Owning

TypeOK ==
  /\ status \in States
  /\ running \in Sessions \cup {NoSession}
  /\ pc \in [Callers -> PCs]
  /\ sess \in [Callers -> Sessions \cup {NoSession}]
  /\ result \in [Callers -> {"none", "started", "stopped", "err"}]
  /\ used \subseteq Sessions
  /\ cancelled \subseteq Sessions
  /\ leaf \in [Sessions -> [Leaves -> {"off", "up", "asked", "gone"}]]
  /\ arti \in [Sessions -> {"off", "binding", "serving", "closed"}]
  /\ dns \in [Sessions -> {"off", "bound", "freed"}]
  /\ drain \in [Sessions -> {"none", "begin", "wait1", "wait2", "done", "aborted"}]

Init ==
  /\ status = "Idle"
  /\ running = NoSession
  /\ pc = [c \in Callers |-> "idle"]
  /\ sess = [c \in Callers |-> NoSession]
  /\ result = [c \in Callers |-> "none"]
  /\ used = {}
  /\ cancelled = {}
  /\ leaf = [s \in Sessions |-> [l \in Leaves |-> "off"]]
  /\ arti = [s \in Sessions |-> "off"]
  /\ dns = [s \in Sessions |-> "off"]
  /\ drain = [s \in Sessions |-> "none"]

-----------------------------------------------------------------------------
(* Steps of a call.                                                           *)

At(c, label) == pc[c] = label

\* The caller goes on to `label`; what it owns and what it last returned stay.
Goto(c, label) ==
  /\ pc' = [pc EXCEPT ![c] = label]
  /\ UNCHANGED <<sess, result>>

\* The call returns r.  The locals are dropped, which stops nothing: dropping
\* a CancellationToken, a TransportHandle or a JoinHandle has no effect on the
\* task or thread behind it.
Return(c, r) ==
  /\ pc' = [pc EXCEPT ![c] = "idle"]
  /\ sess' = [sess EXCEPT ![c] = NoSession]
  /\ result' = [result EXCEPT ![c] = r]

\* The address of the DNS listener, the same for every session of a platform,
\* is held by some session's socket.
DnsTaken == \E s \in Sessions : dns[s] = "bound"

\* Bound: a token is left for every call that is past the check.
TokensLeft ==
  Cardinality(used) + Cardinality({c \in Callers : At(c, "prepare")}) < Cardinality(Sessions)

\* Mutant of StartCheck: set(Bootstrapping) comes before the guard.
StartCheckAfterSet(c) ==
  /\ At(c, "idle")
  /\ TokensLeft
  /\ status' = "Bootstrapping"
  /\ IF running # NoSession THEN Return(c, "err") ELSE Goto(c, "prepare")
  /\ UNCHANGED <<running, used, cancelled, leaf, arti, dns, drain>>

\* start(): the guard on `running` is a lock held for this test only.
StartCheck(c) ==
  /\ At(c, "idle")
  /\ TokensLeft
  /\ IF running # NoSession
     THEN Return(c, "err")
     ELSE Goto(c, "prepare")
  /\ UNCHANGED <<status, running, used, cancelled, leaf, arti, dns, drain>>

\* start(): set(Bootstrapping, 5) and a token of its own.
StartPrepare(c) ==
  /\ At(c, "prepare")
  /\ status' = "Bootstrapping"
  /\ \E s \in Sessions \ used :
       /\ used' = used \cup {s}
       /\ sess' = [sess EXCEPT ![c] = s]
  /\ pc' = [pc EXCEPT ![c] = "leaf2"]
  /\ UNCHANGED <<result, running, cancelled, leaf, arti, dns, drain>>

\* Any `?` of start(): the error is returned, the status stays what it was,
\* the token is not cancelled, nothing that was started is stopped.
StartFails(c) == Return(c, "err")

\* start(), leaf #2: a port is picked (may fail), set(Bootstrapping, 15), the
\* leaf thread and its watcher are spawned (may fail), a port for arti is
\* picked (may fail), set(Bootstrapping, 35).
StartLeaf2(c) ==
  /\ At(c, "leaf2")
  /\ \/ StartFails(c) /\ UNCHANGED <<status, leaf>>
     \/ /\ StartFails(c)
        /\ status' = "Bootstrapping"
        /\ UNCHANGED leaf
     \/ /\ StartFails(c) \/ Goto(c, "bootstrap")
        /\ status' = "Bootstrapping"
        /\ leaf' = [leaf EXCEPT ![sess[c]] = [@ EXCEPT !["chain"] = "up"]]
  /\ UNCHANGED <<running, used, cancelled, arti, dns, drain>>

\* ArtiSession::start: the whole Tor bootstrap is awaited here.  An error, of
\* the configuration, of the bootstrap or of its cancelled() branch, fails the
\* start; otherwise the SOCKS inbound is spawned, and binds on its own time.
Bootstrap(c) ==
  /\ At(c, "bootstrap")
  /\ \/ StartFails(c) /\ UNCHANGED arti
     \/ /\ Goto(c, "leaf1")
        /\ arti' = [arti EXCEPT ![sess[c]] = "binding"]
  /\ UNCHANGED <<status, running, used, cancelled, leaf, dns, drain>>

\* Mutant of StartLeaf1: a failed spawn of the leaf thread is ignored.
StartLeaf1Unchecked(c) ==
  /\ At(c, "leaf1")
  /\ \/ StartFails(c) /\ UNCHANGED <<status, leaf>>
     \/ Goto(c, "dns") /\ status' = "Connecting" /\ UNCHANGED leaf
     \/ /\ Goto(c, "dns")
        /\ status' = "Connecting"
        /\ leaf' = [leaf EXCEPT ![sess[c]] = [@ EXCEPT !["tun"] = "up"]]
  /\ UNCHANGED <<running, used, cancelled, arti, dns, drain>>

\* start(), leaf #1: a port (may fail), set(Connecting, 60), the leaf thread
\* (may fail), set(Connecting, 80).
StartLeaf1(c) ==
  /\ At(c, "leaf1")
  /\ \/ StartFails(c) /\ UNCHANGED <<status, leaf>>
     \/ /\ StartFails(c)
        /\ status' = "Connecting"
        /\ UNCHANGED leaf
     \/ /\ Goto(c, "dns")
        /\ status' = "Connecting"
        /\ leaf' = [leaf EXCEPT ![sess[c]] = [@ EXCEPT !["tun"] = "up"]]
  /\ UNCHANGED <<running, used, cancelled, arti, dns, drain>>

\* Mutant of BindDns: the listener is bound with SO_REUSEADDR.
BindDnsShared(c) ==
  /\ At(c, "dns")
  /\ \/ StartFails(c) /\ UNCHANGED dns
     \/ Goto(c, "install") /\ dns' = [dns EXCEPT ![sess[c]] = "bound"]
  /\ UNCHANGED <<status, running, used, cancelled, leaf, arti, drain>>

\* DnsServer::start: bind fails when the address is taken, and may fail
\* otherwise; when build_client fails the socket just bound is dropped.
BindDns(c) ==
  /\ At(c, "dns")
  /\ \/ StartFails(c) /\ UNCHANGED dns
     \/ /\ ~DnsTaken
        /\ Goto(c, "install")
        /\ dns' = [dns EXCEPT ![sess[c]] = "bound"]
  /\ UNCHANGED <<status, running, used, cancelled, leaf, arti, drain>>

\* adopt_tun rejects the fd: by now the DNS listener is up.
AdoptFails(c) ==
  /\ At(c, "install")
  /\ FALSE \in FdVerdicts
  /\ StartFails(c)
  /\ UNCHANGED <<status, running, used, cancelled, leaf, arti, dns, drain>>

\* adopt_tun accepts, and `running` is assigned, whatever it held.
Install(c) ==
  /\ At(c, "install")
  /\ TRUE \in FdVerdicts
  /\ running' = sess[c]
  /\ sess' = [sess EXCEPT ![c] = NoSession]
  /\ pc' = [pc EXCEPT ![c] = "announce"]
  /\ UNCHANGED <<status, result, used, cancelled, leaf, arti, dns, drain>>

\* set(Connected, 100), after the lock on `running` was released.
Announce(c) ==
  /\ At(c, "announce")
  /\ status' = "Connected"
  /\ Return(c, "started")
  /\ UNCHANGED <<running, used, cancelled, leaf, arti, dns, drain>>

\* Mutant of StopTake: no return when there is nothing to take.
StopTakeUnchecked(c) ==
  /\ At(c, "idle")
  /\ running' = NoSession
  /\ sess' = [sess EXCEPT ![c] = running]
  /\ pc' = [pc EXCEPT ![c] = "cancel"]
  /\ UNCHANGED <<result, status, used, cancelled, leaf, arti, dns, drain>>

\* Mutant of StopTake: the session is read, not taken.
StopTakeReads(c) ==
  /\ At(c, "idle")
  /\ IF running = NoSession
     THEN Return(c, "stopped")
     ELSE /\ sess' = [sess EXCEPT ![c] = running]
          /\ pc' = [pc EXCEPT ![c] = "cancel"]
          /\ UNCHANGED result
  /\ UNCHANGED <<running, status, used, cancelled, leaf, arti, dns, drain>>

\* stop(): take() under the lock; with nothing installed it returns at once.
StopTake(c) ==
  /\ At(c, "idle")
  /\ IF running = NoSession
     THEN Return(c, "stopped") /\ UNCHANGED running
     ELSE /\ running' = NoSession
          /\ sess' = [sess EXCEPT ![c] = running]
          /\ pc' = [pc EXCEPT ![c] = "cancel"]
          /\ UNCHANGED result
  /\ UNCHANGED <<status, used, cancelled, leaf, arti, dns, drain>>

\* Mutant of StopCancel: one token for every start() under way.
StopCancelAll(c) ==
  /\ At(c, "cancel")
  /\ status' = "Disconnecting"
  /\ cancelled' = used
  /\ drain' = [drain EXCEPT ![sess[c]] = "begin"]
  /\ Goto(c, "wait")
  /\ UNCHANGED <<running, used, leaf, arti, dns>>

\* stop(): set(Disconnecting), cancel the token (the DNS server's stop()
\* cancels the same one), spawn the drain task.
StopCancel(c) ==
  /\ At(c, "cancel")
  /\ status' = "Disconnecting"
  /\ cancelled' = cancelled \cup {sess[c]}
  /\ drain' = [drain EXCEPT ![sess[c]] = "begin"]
  /\ Goto(c, "wait")
  /\ UNCHANGED <<running, used, leaf, arti, dns>>

\* stop(): the drain task answered in time; set(Idle).
StopDone(c) ==
  /\ At(c, "wait")
  /\ drain[sess[c]] = "done"
  /\ status' = "Idle"
  /\ Return(c, "stopped")
  /\ UNCHANGED <<running, used, cancelled, leaf, arti, dns, drain>>

\* Mutant of StopTimeout: rx.await without a timeout.
StopTimeoutNever(c) == StopDone(c)

\* Mutant of StopTimeout: a session that did not drain is put back.
StopTimeoutPutsBack(c) ==
  /\ At(c, "wait")
  /\ drain[sess[c]] # "done"
  /\ running' = sess[c]
  /\ status' = "Idle"
  /\ Return(c, "stopped")
  /\ UNCHANGED <<used, cancelled, leaf, arti, dns, drain>>

\* stop(): the 5 s are over; the drain task is aborted at its await; set(Idle).
StopTimeout(c) ==
  /\ At(c, "wait")
  /\ drain[sess[c]] # "done"
  /\ drain' = [drain EXCEPT ![sess[c]] = "aborted"]
  /\ status' = "Idle"
  /\ Return(c, "stopped")
  /\ UNCHANGED <<running, used, cancelled, leaf, arti, dns>>

-----------------------------------------------------------------------------
(* What goes on without the callers.                                          *)

\* leaf::shutdown(rt_id): asks a live runtime to end, does nothing to another.
Shutdown(s, l) ==
  leaf' = IF leaf[s][l] = "up"
          THEN [leaf EXCEPT ![s] = [@ EXCEPT ![l] = "asked"]]
          ELSE leaf

\* The drain task: leaf_tun.stop() asks leaf #1 and waits for its thread.
DrainTun(s) ==
  /\ drain[s] = "begin"
  /\ Shutdown(s, "tun")
  /\ drain' = [drain EXCEPT ![s] = "wait1"]
  /\ UNCHANGED <<status, running, pc, sess, result, used, cancelled, arti, dns>>

\* Leaf #1 is gone or its 5 s are over; arti.stop() cancels the token once
\* more; leaf_chain.stop() asks leaf #2 and waits for its thread.
DrainChain(s) ==
  /\ drain[s] = "wait1"
  /\ cancelled' = cancelled \cup {s}
  /\ Shutdown(s, "chain")
  /\ drain' = [drain EXCEPT ![s] = "wait2"]
  /\ UNCHANGED <<status, running, pc, sess, result, used, arti, dns>>

\* Leaf #2 is gone or its 5 s are over: the oneshot is sent.
DrainEnd(s) ==
  /\ drain[s] = "wait2"
  /\ drain' = [drain EXCEPT ![s] = "done"]
  /\ UNCHANGED <<status, running, pc, sess, result, used, cancelled, leaf, arti, dns>>

\* Mutant of Watcher: only leaf #1 gets a watcher.
WatcherTunOnly(s, l) ==
  /\ s \in cancelled
  /\ l = "tun" /\ leaf[s][l] = "up"
  /\ Shutdown(s, l)
  /\ UNCHANGED <<status, running, pc, sess, result, used, cancelled, arti, dns, drain>>

\* The task spawned next to each leaf thread: cancelled() -> leaf::shutdown.
Watcher(s, l) ==
  /\ s \in cancelled
  /\ leaf[s][l] = "up"
  /\ Shutdown(s, l)
  /\ UNCHANGED <<status, running, pc, sess, result, used, cancelled, arti, dns, drain>>

\* leaf::start returns on the leaf thread, asked to or on an error of its own.
LeafExit(s, l) ==
  /\ leaf[s][l] \in {"up", "asked"}
  /\ leaf' = [leaf EXCEPT ![s] = [@ EXCEPT ![l] = "gone"]]
  /\ UNCHANGED <<status, running, pc, sess, result, used, cancelled, arti, dns, drain>>

\* arti's SOCKS inbound binds its listener; a failure is only logged.
ArtiBind(s) ==
  /\ arti[s] = "binding"
  /\ \E outcome \in {"serving", "closed"} : arti' = [arti EXCEPT ![s] = outcome]
  /\ UNCHANGED <<status, running, pc, sess, result, used, cancelled, leaf, dns, drain>>

\* The accept loop ends on an accept error.
ArtiAcceptError(s) ==
  /\ arti[s] = "serving"
  /\ s \notin cancelled
  /\ arti' = [arti EXCEPT ![s] = "closed"]
  /\ UNCHANGED <<status, running, pc, sess, result, used, cancelled, leaf, dns, drain>>

\* The accept loop sees the token cancelled.
ArtiStop(s) ==
  /\ arti[s] = "serving"
  /\ s \in cancelled
  /\ arti' = [arti EXCEPT ![s] = "closed"]
  /\ UNCHANGED <<status, running, pc, sess, result, used, cancelled, leaf, dns, drain>>

\* Mutant of DnsRelease: serve_loop ends on a receive error.
DnsReleaseOnError(s) ==
  /\ dns[s] = "bound"
  /\ dns' = [dns EXCEPT ![s] = "freed"]
  /\ UNCHANGED <<status, running, pc, sess, result, used, cancelled, leaf, arti, drain>>

\* serve_loop has seen the token cancelled and the last forward() task, which
\* holds the same socket and is not cancelled, has ended (its HTTP client
\* gives up after 5 s): the address is free again.
DnsRelease(s) ==
  /\ dns[s] = "bound"
  /\ s \in cancelled
  /\ dns' = [dns EXCEPT ![s] = "freed"]
  /\ UNCHANGED <<status, running, pc, sess, result, used, cancelled, leaf, arti, drain>>

Call(c) ==
  \/ StartCheck(c) \/ StartPrepare(c) \/ StartLeaf2(c) \/ Bootstrap(c)
  \/ StartLeaf1(c) \/ BindDns(c) \/ AdoptFails(c) \/ Install(c) \/ Announce(c)
  \/ StopTake(c) \/ StopCancel(c) \/ StopDone(c) \/ StopTimeout(c)

Background(s) ==
  \/ DrainTun(s) \/ DrainChain(s) \/ DrainEnd(s)
  \/ \E l \in Leaves : Watcher(s, l) \/ LeafExit(s, l)
  \/ ArtiBind(s) \/ ArtiAcceptError(s) \/ ArtiStop(s) \/ DnsRelease(s)

Next == (\E c \in Callers : Call(c)) \/ (\E s \in Sessions : Background(s))

Spec == Init /\ [][Next]_vars

(* Fairness.  A polled task runs when it is ready (the multi-thread runtime of *)
(* ffi/runtime.rs), and tokio's timer ends stop()'s wait.  Nothing is assumed  *)
(* of the network (Bootstrap), of leaf (LeafExit), or of the users who call    *)
(* start and stop.                                                             *)
Fairness ==
  /\ \A c \in Callers :
       /\ WF_vars(StartPrepare(c)) /\ WF_vars(StartLeaf2(c)) /\ WF_vars(StartLeaf1(c))
       /\ WF_vars(BindDns(c)) /\ WF_vars(AdoptFails(c) \/ Install(c))
       /\ WF_vars(Announce(c)) /\ WF_vars(StopCancel(c))
       /\ WF_vars(StopDone(c) \/ StopTimeout(c))
  /\ \A s \in Sessions :
       /\ \A l \in Leaves : WF_vars(Watcher(s, l))
       /\ WF_vars(ArtiBind(s)) /\ WF_vars(ArtiStop(s)) /\ WF_vars(DnsRelease(s))

FairSpec == Spec /\ Fairness

-----------------------------------------------------------------------------
(* What the code gets right, however calls interleave.                        *)

Live(s) == \E c \in Callers : sess[c] = s /\ pc[c] \in Building
Taken(s) == \E c \in Callers : sess[c] = s /\ pc[c] \in Stopping
Abandoned(s) == s \in used \ cancelled /\ running # s /\ ~Live(s) /\ ~Taken(s)

\* A session is owned once: by the one start() that builds it, by `running`, or
\* by the one stop() that took it; and its token is cancelled only by that
\* stop(), never while it is being built or installed.  So no two stops drain
\* one session, and the cancelled() branch of arti's bootstrap never fires.
ExclusiveOwnership ==
  /\ \A c, d \in Callers : c # d /\ sess[c] = sess[d] => sess[c] = NoSession
  /\ \A c \in Callers :
       /\ (pc[c] \in Owning) <=> (sess[c] # NoSession)
       /\ sess[c] # NoSession => sess[c] \in used /\ sess[c] # running
       /\ pc[c] = "wait" <=> sess[c] \in cancelled
  /\ running # NoSession => running \in used \ cancelled
  /\ cancelled \subseteq used
  /\ \A s \in Sessions : drain[s] # "none" <=> s \in cancelled

\* start() tests `running` long before it assigns it, with no lock in between,
\* yet an assignment never overwrites an installed session: the DNS address,
\* held by one socket at a time and by every installed session, excludes it.
NoOverwrite ==
  \A c \in Callers : pc[c] = "install" => running = NoSession

\* A session that is or was installed had all of its parts started; while it
\* is installed its DNS listener is bound.  So stop() never meets a session
\* with a part missing, and a token cancelled is the token of a full pipeline.
InstalledIsComplete ==
  \A s \in Sessions :
    s = running \/ s \in cancelled \/ Taken(s) =>
      /\ \A l \in Leaves : leaf[s][l] # "off"
      /\ arti[s] # "off"
      /\ dns[s] \in (IF s \in cancelled THEN {"bound", "freed"} ELSE {"bound"})

\* Once a session's token is cancelled nothing of it is started any more, and
\* it is not installed again.
NoResurrection ==
  [][\A s \in cancelled :
       /\ s \in cancelled'
       /\ running' # s
       /\ \A l \in Leaves : leaf'[s][l] = "up" => leaf[s][l] = "up"
       /\ arti'[s] = "binding" => arti[s] = "binding"
       /\ dns'[s] = "bound" => dns[s] = "bound"]_vars

\* The price of a `?` after DnsServer::start: a session abandoned with its
\* listener bound keeps the address for good, and no start succeeds any more.
LeakBlocksStarts ==
  [][(\E s \in Sessions : Abandoned(s) /\ dns[s] = "bound") =>
       /\ running' = NoSession
       /\ \E s \in Sessions : Abandoned(s)' /\ dns'[s] = "bound"]_vars

\* Every stop() returns, whatever leaf and the drain task do.
StopReturns == \A c \in Callers : pc[c] \in Stopping ~> pc[c] = "idle"

\* Even when the drain task is aborted halfway, everything of a session whose
\* token is cancelled is told to stop: both leaf runtimes are asked, arti's
\* inbound closes and the DNS address is free again.
CancelledWindsDown ==
  \A s \in Sessions :
    s \in cancelled ~> /\ \A l \in Leaves : leaf[s][l] \in {"asked", "gone"}
                       /\ arti[s] = "closed"
                       /\ dns[s] = "freed"

-----------------------------------------------------------------------------
(* The per-session life cycle this module implements.                         *)
LifeOf(s) ==
  CASE s \notin used  -> "fresh"
    [] s = running    -> "installed"
    [] Live(s)        -> "building"
    [] Taken(s)       -> "stopping"
    [] OTHER          -> IF s \in cancelled THEN "ended" ELSE "abandoned"

Life == INSTANCE SessionLife WITH life <- [s \in Sessions |-> LifeOf(s)]

\* Every step is a step of some session's life cycle: see SessionLife.
ImplementsSessionLife == Life!Spec

\* What a single caller sees: its calls as LoneCaller has them.
Caller == CHOOSE c \in Callers : TRUE

Phase ==
  CASE pc[Caller] \in {"leaf2", "bootstrap", "leaf1"} -> "bootstrap"
    [] pc[Caller] \in {"dns", "install", "announce"}  -> "connect"
    [] pc[Caller] = "wait"                            -> "stop"
    [] OTHER                                          -> "free"

Lone == INSTANCE LoneCaller WITH
  up <- (running # NoSession \/ pc[Caller] = "cancel") /\ pc[Caller] # "announce",
  phase <- Phase

\* With one caller, start() and stop() are as LoneCaller promises.
ImplementsLoneCaller == Lone!Spec

-----------------------------------------------------------------------------
(* What the documentation says and the code does not do.                      *)

\* docs/ARCHITECTURE.md:109: "One orchestrator task owns the session state
\* machine": when no call is under way, Connected means a session is installed.
ConnectedMeansInstalled ==
  (\A c \in Callers : pc[c] = "idle") /\ status = "Connected" => running # NoSession
=============================================================================
