----------------------------- MODULE LoneCaller -----------------------------
(* What the orchestrator promises a caller that makes one call at a time, as  *)
(* the Android service does from its main thread.                             *)

VARIABLES
  status,  \* what status() answers
  up,      \* a session is installed
  phase    \* where the call under way is, "free" between calls

Init == status = "Idle" /\ up = FALSE /\ phase = "free"

\* start(): refused, without a trace, when a session is installed.
Begin ==
  /\ phase = "free" /\ ~up
  /\ phase' = "bootstrap" /\ status' = "Bootstrapping"
  /\ UNCHANGED up

Tunnel ==
  /\ phase = "bootstrap"
  /\ phase' = "connect" /\ status' = "Connecting"
  /\ UNCHANGED up

Succeed ==
  /\ phase = "connect"
  /\ phase' = "free" /\ status' = "Connected" /\ up' = TRUE

\* A start() that fails leaves the status where it was.
Fail ==
  /\ \/ phase = "bootstrap" /\ status' \in {"Bootstrapping", "Connecting"}
     \/ phase = "connect" /\ UNCHANGED status
  /\ phase' = "free"
  /\ UNCHANGED up

\* stop(): returns at once when nothing is installed.
Disconnect ==
  /\ phase = "free" /\ up
  /\ phase' = "stop" /\ status' = "Disconnecting" /\ up' = FALSE

Finish ==
  /\ phase = "stop"
  /\ phase' = "free" /\ status' = "Idle"
  /\ UNCHANGED up

Next == Begin \/ Tunnel \/ Succeed \/ Fail \/ Disconnect \/ Finish

Spec == Init /\ [][Next]_<<status, up, phase>>
=============================================================================
