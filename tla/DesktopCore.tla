----------------------------- MODULE DesktopCore -----------------------------
(* The core as an app's process sees it through the C functions: one-time     *)
(* initialisation (lib.rs, secure_store.rs, ffi/mod.rs), by Dart and, on      *)
(* Android, by Kotlin as well; on a desktop the TUN descriptor from its       *)
(* provisioning (tun.rs) to the leaf that reads it, or to nobody; and the log *)
(* (LogRing), which any thread writes to and clears at any time.  Calls of    *)
(* start and stop block the app's one thread; their inner steps are those of  *)
(* Orchestrator.                                                              *)
EXTENDS LogRing

CONSTANTS
  Callers,      \* threads that initialise the core, each as often as it likes
  Directories,  \* how many directories ensure_layout makes
  MaxFds,       \* bound on the descriptors ever opened
  Platforms     \* the desktop systems considered

ASSUME DirectoriesAssumption == Directories \in Nat \ {0} /\ MaxFds \in Nat
ASSUME PlatformsAssumption == Platforms \subseteq {"linux", "macos", "windows"}

VARIABLES
  cell,       \* INIT: "unset", "running" or "set"
  at,         \* an initialising caller: 0 outside, the directory it makes next, or "done"
  made,       \* the directories that exist, with their permissions
  orch,       \* ORCH is set
  platform,
  fd,         \* a descriptor: "unused", "provision", "start", "caller", "leaf", "lost" or "closed"
  call,       \* the app's call: "none", "provision" (for start_desktop), "give", "start"
  session,    \* a session is installed
  failed      \* history: a start() has failed before leaf #1, with a descriptor

initVars == <<cell, at, made, orch>>
tunVars == <<platform, fd, call, session, failed>>
vars == <<logVars, initVars, tunVars>>

Fds == 1..MaxFds
With(owner) == {f \in Fds : fd[f] = owner}
Becomes(f, owner) == fd' = [fd EXCEPT ![f] = owner]

Init ==
  /\ LogInit
  /\ cell = "unset" /\ at = [c \in Callers |-> 0] /\ made = {} /\ orch = FALSE
  /\ platform \in Platforms /\ fd = [f \in Fds |-> "unused"]
  /\ call = "none" /\ session = FALSE /\ failed = FALSE

-----------------------------------------------------------------------------
(* Initialisation.                                                            *)

\* init(): one caller at a time runs the closure, the others wait for it.
InitBegin(c) ==
  /\ at[c] = 0 /\ cell = "unset" /\ cell' = "running"
  /\ at' = [at EXCEPT ![c] = 1]
  /\ Install
  /\ UNCHANGED <<ring, seq, writing, fresh, made, orch, tunVars>>

InitAgain(c) ==
  /\ at[c] = 0 /\ cell = "set" /\ at' = [at EXCEPT ![c] = Directories + 1]
  /\ UNCHANGED <<logVars, cell, made, orch, tunVars>>

\* ensure_layout: directories that exist are all right.
MakeDir(c) ==
  /\ at[c] \in 1..Directories /\ cell = "running"
  /\ made' = made \cup {at[c]} /\ at' = [at EXCEPT ![c] = @ + 1]
  /\ cell' = IF at[c] = Directories THEN "set" ELSE cell
  /\ UNCHANGED <<logVars, orch, tunVars>>

\* Mutant of MakeDirFails: a failed attempt counts as the one attempt.
MakeDirFailsForGood(c) ==
  /\ at[c] \in 1..Directories /\ cell = "running"
  /\ cell' = "set" /\ at' = [at EXCEPT ![c] = 0]
  /\ UNCHANGED <<logVars, made, orch, tunVars>>
\* The call returns -1; the cell stays unset, and what was made stays.
MakeDirFails(c) ==
  /\ at[c] \in 1..Directories /\ cell = "running"
  /\ cell' = "unset" /\ at' = [at EXCEPT ![c] = 0]
  /\ UNCHANGED <<logVars, made, orch, tunVars>>

\* ORCH.set: the second time nothing happens.  The call returns 0.
SetOrch(c) ==
  /\ at[c] = Directories + 1 /\ orch' = TRUE /\ at' = [at EXCEPT ![c] = 0]
  /\ UNCHANGED <<logVars, cell, made, tunVars>>

-----------------------------------------------------------------------------
(* Provisioning.                                                              *)

\* open(2) or socket(2), for start_desktop or for tun_provision.
Open ==
  /\ orch /\ call = "none" /\ platform # "windows"
  /\ \E f \in Fds :
       /\ fd[f] = "unused" /\ (\A e \in Fds : fd[e] = "unused" => f <= e)
       /\ Becomes(f, "provision")
  /\ call' \in {"provision", "give"}
  /\ UNCHANGED <<logVars, initVars, platform, session, failed>>

\* The kernel gives the name "vpn21" to one descriptor at a time; a utun gets
\* the next free unit.
NameTaken == platform = "linux" /\ \E f \in Fds : fd[f] \in {"start", "caller", "leaf", "lost"}

\* Mutant of Attach: what the ioctl returns is not looked at.
AttachUnchecked(f) ==
  /\ f \in With("provision")
  /\ Becomes(f, IF call = "give" THEN "caller" ELSE "start")
  /\ call' = IF call = "give" THEN "none" ELSE "start"
  /\ UNCHANGED <<logVars, initVars, platform, session, failed>>

\* TUNSETIFF, or CTLIOCGINFO and connect.
Attach(f) ==
  /\ f \in With("provision") /\ ~NameTaken
  /\ Becomes(f, IF call = "give" THEN "caller" ELSE "start")
  /\ call' = IF call = "give" THEN "none" ELSE "start"
  /\ UNCHANGED <<logVars, initVars, platform, session, failed>>

AttachFails(f) ==
  /\ f \in With("provision") /\ Becomes(f, "closed") /\ call' = "none"
  /\ UNCHANGED <<logVars, initVars, platform, session, failed>>

\* Windows: no descriptor, provided that wintun.dll can be loaded.
Wintun ==
  /\ orch /\ call = "none" /\ platform = "windows" /\ call' = "start"
  /\ UNCHANGED <<logVars, initVars, platform, fd, session, failed>>

\* vpn21_start_with_fd on what vpn21_tun_provision gave.
StartWithFd(f) ==
  /\ orch /\ call = "none" /\ f \in With("caller")
  /\ Becomes(f, "start") /\ call' = "start"
  /\ UNCHANGED <<logVars, initVars, platform, session, failed>>

-----------------------------------------------------------------------------
(* start() and stop().                                                        *)

\* A TunConfig is dropped with its i32, which closes nothing.
Dropped == "lost"

\* start() returns, and the descriptor it was given, if any, passes to `owner`.
Return(owner) ==
  /\ call = "start" /\ call' = "none"
  /\ fd' = [f \in Fds |-> IF fd[f] = "start" THEN owner ELSE fd[f]]
  /\ UNCHANGED <<logVars, initVars, platform>>

Start == ~session /\ Return("leaf") /\ session' = TRUE /\ UNCHANGED failed

\* A session runs already, or a part before leaf #1 fails.
StartFails == Return(Dropped) /\ failed' = (failed \/ With("start") # {}) /\ UNCHANGED session

\* The DNS listener fails: leaf #1 runs on, with a token nobody holds.
StartFailsLate == ~session /\ Return("leaf") /\ UNCHANGED <<session, failed>>

Stop ==
  /\ orch /\ call = "none" /\ session /\ session' = FALSE
  /\ UNCHANGED <<logVars, initVars, platform, fd, call, failed>>

\* A leaf ends, after stop() or for a reason of its own, and closes its TUN.
LeafEnds(f) ==
  /\ f \in With("leaf") /\ Becomes(f, "closed")
  /\ UNCHANGED <<logVars, initVars, platform, call, session, failed>>

Next ==
  \/ LogNext /\ UNCHANGED <<initVars, tunVars>>
  \/ \E c \in Callers : InitBegin(c) \/ InitAgain(c) \/ MakeDir(c) \/ MakeDirFails(c) \/ SetOrch(c)
  \/ Open \/ Wintun \/ Start \/ StartFails \/ StartFailsLate \/ Stop
  \/ \E f \in Fds : Attach(f) \/ AttachFails(f) \/ StartWithFd(f) \/ LeafEnds(f)

Spec == Init /\ [][Next]_vars

-----------------------------------------------------------------------------
TypeOK ==
  /\ LogTypeOK
  /\ cell \in {"unset", "running", "set"} /\ at \in [Callers -> 0..Directories + 1]
  /\ made \subseteq 1..Directories /\ orch \in BOOLEAN
  /\ platform \in Platforms /\ session \in BOOLEAN /\ failed \in BOOLEAN
  /\ fd \in [Fds -> {"unused", "provision", "start", "caller", "leaf", "lost", "closed"}]
  /\ call \in {"none", "provision", "give", "start"}

\* Two threads may initialise at once, and an attempt may fail half-way: an
\* orchestrator is never handed out before all its directories exist.
LayoutBeforeUse == orch => made = 1..Directories

\* On Linux one start() that fails between provisioning and leaf #1 is final: its
\* descriptor is nobody's and keeps the interface's name, so until the process
\* ends no leaf is given a TUN again.  On macOS the descriptor is lost as well,
\* and the next start gets another unit.
FailureIsFinal ==
  [][platform = "linux" /\ failed => With("leaf")' \subseteq With("leaf")]_vars
=============================================================================
