------------------------------ MODULE IosBridge ------------------------------
(* The iOS tunnel extension (PacketTunnelProvider.swift, Vpn21Bridge.swift):  *)
(* start and stop of the tunnel, and the read loop between the system's       *)
(* packet flow and the pump (see IosPump for the pump itself).  start() is    *)
(* blocked in the core for the whole bootstrap, and stop() for the drain; the *)
(* callbacks of the flow, and a stop(), come meanwhile on threads of their    *)
(* own.  The system may start the tunnel again in the same process.  Names    *)
(* shared with IosPump have a prefix, so that a module may extend both.       *)
EXTENDS Naturals, FiniteSets

CONSTANTS
  MaxTunnels   \* bound on starts of the tunnel

ASSUME TunnelsAssumption == MaxTunnels \in Nat

VARIABLES
  bridgeRunning,  \* Vpn21Bridge.running
  flow,           \* PacketFlowHolder.shared.flow is set
  pump,           \* the pump is running
  core,           \* a session is installed in the core
  bridgeStarts,   \* starts of the tunnel so far: the current start
  starting,       \* where start() is: "none", "core", "flow" or "arm"
  stopping,       \* where stop() is: "none", "core" or "flow"
  reads,          \* the starts whose loop has a readPackets pending
  overtaken       \* history: the last stop() began before its start() had returned

bridgeVars == <<bridgeRunning, flow, pump, core, bridgeStarts, starting, stopping, reads, overtaken>>

BridgeInit ==
  /\ bridgeRunning = FALSE /\ flow = FALSE /\ pump = FALSE /\ core = FALSE
  /\ bridgeStarts = 0 /\ starting = "none" /\ stopping = "none"
  /\ reads = {} /\ overtaken = FALSE

-----------------------------------------------------------------------------
(* start().                                                                   *)

\* startTunnel, once the network settings are made; the app-support directory
\* may be missing.  The pump is primed before the core is started.
StartBegin ==
  /\ starting = "none" /\ stopping = "none" /\ ~bridgeRunning /\ bridgeStarts < MaxTunnels
  /\ bridgeRunning' = TRUE /\ bridgeStarts' = bridgeStarts + 1 /\ starting' = "core"
  /\ pump' = TRUE
  /\ UNCHANGED <<flow, core, stopping, reads, overtaken>>

\* vpn21_start_with_fd: whatever it answers is freed unread.  With a session
\* installed it fails.
CoreStarts ==
  /\ starting = "core" /\ starting' = "flow"
  /\ core' \in {core, TRUE}
  /\ UNCHANGED <<bridgeRunning, flow, pump, bridgeStarts, stopping, reads, overtaken>>

SetFlow ==
  /\ starting = "flow" /\ starting' = "arm" /\ flow' = TRUE
  /\ UNCHANGED <<bridgeRunning, pump, core, bridgeStarts, stopping, reads, overtaken>>

\* pumpReadLoop, the first time; the completion handler is told of no error.
ArmLoop ==
  /\ starting = "arm" /\ starting' = "none"
  /\ reads' = IF flow THEN reads \cup {bridgeStarts} ELSE reads
  /\ UNCHANGED <<bridgeRunning, flow, pump, core, bridgeStarts, stopping, overtaken>>

-----------------------------------------------------------------------------
(* stop().                                                                    *)

\* The system stops a tunnel that it has asked to start, and once.
StopBegin ==
  /\ stopping = "none" /\ bridgeRunning /\ stopping' = "core"
  /\ pump' = FALSE /\ overtaken' = (starting # "none")
  /\ UNCHANGED <<bridgeRunning, flow, core, bridgeStarts, starting, reads>>

\* vpn21_stop: without a session nothing happens.
CoreStops ==
  /\ stopping = "core" /\ stopping' = "flow" /\ core' = FALSE
  /\ UNCHANGED <<bridgeRunning, flow, pump, bridgeStarts, starting, reads, overtaken>>

StopEnd ==
  /\ stopping = "flow" /\ stopping' = "none"
  /\ flow' = FALSE /\ bridgeRunning' = FALSE
  /\ UNCHANGED <<pump, core, bridgeStarts, starting, reads, overtaken>>

-----------------------------------------------------------------------------
(* The read loop.                                                             *)

\* Mutant of ReadDone: the loop is armed by start() alone.
ReadDoneOnce(s) ==
  /\ s \in reads /\ reads' = reads \ {s}
  /\ UNCHANGED <<bridgeRunning, flow, pump, core, bridgeStarts, starting, stopping, overtaken>>
\* The device has sent packets: they are pushed, the pump is drained, and the
\* flow is read again unless it is nil by now.
ReadDone(s) ==
  /\ s \in reads /\ reads' = IF flow THEN reads ELSE reads \ {s}
  /\ UNCHANGED <<bridgeRunning, flow, pump, core, bridgeStarts, starting, stopping, overtaken>>

BridgeNext ==
  \/ StartBegin \/ CoreStarts \/ SetFlow \/ ArmLoop
  \/ StopBegin \/ CoreStops \/ StopEnd
  \/ \E s \in 1..MaxTunnels : ReadDone(s)

BridgeSpec == BridgeInit /\ [][BridgeNext]_bridgeVars

-----------------------------------------------------------------------------
BridgeTypeOK ==
  /\ {bridgeRunning, flow, pump, core, overtaken} \subseteq BOOLEAN /\ bridgeStarts \in 0..MaxTunnels
  /\ starting \in {"none", "core", "flow", "arm"} /\ stopping \in {"none", "core", "flow"}
  /\ reads \subseteq 1..bridgeStarts

\* Between calls the tunnel is whole or gone: one that runs has its pump, its
\* flow and a reader, whatever loops and sessions earlier starts have left, and
\* one that was stopped has no flow and no session; unless stop() came while its
\* start() was still in the core, which then sets the flow and connects, behind a
\* pump that refuses every packet, until the next stop().
WholeOrGone ==
  starting = "none" /\ stopping = "none" =>
    IF bridgeRunning THEN pump /\ flow /\ reads # {}
    ELSE overtaken \/ ~(pump \/ flow \/ core)
=============================================================================
