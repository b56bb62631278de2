---------------------------- MODULE LeafRuntimes ----------------------------
(* The leaf runtimes of the sessions: spawn_leaf_runtime (leaf_impl.rs), the  *)
(* thread and the task it leaves behind, and leaf's own table of runtimes,    *)
(* which knows them by a 16-bit id.  start() and stop() come one after the    *)
(* other; what they leave behind runs on.                                     *)
EXTENDS Naturals, Sequences, SequencesExt

CONSTANTS
  IdCount,      \* how many ids there are: 2^16
  MaxSessions   \* bound on start() calls

ASSUME IdAssumption == IdCount \in Nat \ {0}
ASSUME SessionsAssumption == MaxSessions \in Nat

VARIABLES
  phase,      \* where the current start() or stop() is
  cur,        \* start() calls so far: the current session
  order,      \* the runtimes in the order of their spawns
  st,         \* a runtime: "none", "spawned", "known" (leaf's table had it) or "ended"
  table,      \* leaf's table: <<r>> or <<>> for an id
  cancelled,  \* the sessions whose token is cancelled
  calls,      \* the leaf::shutdown calls still to come for a runtime
  told,       \* runtimes that were told to shut down
  late        \* history: runtimes that entered the table after the watcher's call

vars == <<phase, cur, order, st, table, cancelled, calls, told, late>>

Leaves == {"leaf2", "leaf1"}
Runtimes == (1..MaxSessions) \X Leaves
Spawned == ToSet(order)

Init ==
  /\ phase = "idle" /\ cur = 0 /\ order = <<>>
  /\ st = [r \in Runtimes |-> "none"] /\ table = [i \in 0..IdCount - 1 |-> <<>>]
  /\ cancelled = {} /\ calls = [r \in Runtimes |-> {}] /\ told = {} /\ late = {}

-----------------------------------------------------------------------------
(* start() and stop().                                                        *)

\* Mutant of IdAt: one id for both runtimes of a session.
IdAtOfSession(n) == ((n + 1) \div 2) % IdCount
\* NEXT_ID.fetch_add(1): the n-th runtime's id.  The counter starts at 1.
IdAt(n) == n % IdCount

Place(r) == CHOOSE i \in DOMAIN order : order[i] = r
Id(r) == IdAt(Place(r))

\* spawn_leaf_runtime: a thread, a task that waits for the token, a handle.
Spawn(r) ==
  /\ order' = Append(order, r)
  /\ st' = [st EXCEPT ![r] = "spawned"]
  /\ calls' = [calls EXCEPT ![r] = {"watch", "stop"}]
  /\ UNCHANGED <<table, cancelled, told, late>>

StartLeaf2 ==
  /\ phase = "idle" /\ cur < MaxSessions
  /\ cur' = cur + 1 /\ phase' = "arti" /\ Spawn(<<cur + 1, "leaf2">>)

StartLeaf1 == phase = "arti" /\ phase' = "dns" /\ UNCHANGED cur /\ Spawn(<<cur, "leaf1">>)

Connected == phase = "dns" /\ phase' = "up" /\ UNCHANGED <<cur, order, st, table, cancelled, calls, told, late>>

\* The handles of the current session are dropped, and with them their calls.
HandlesDropped == calls' = [r \in Runtimes |-> IF r[1] = cur THEN calls[r] \ {"stop"} ELSE calls[r]]

\* An early return of start(): its token is never cancelled.
StartFails ==
  /\ phase \in {"arti", "dns"} /\ phase' = "idle" /\ HandlesDropped
  /\ UNCHANGED <<cur, order, st, table, cancelled, told, late>>

Stop ==
  /\ phase = "up" /\ phase' = "drain" /\ cancelled' = cancelled \cup {cur}
  /\ UNCHANGED <<cur, order, st, table, calls, told, late>>

\* leaf::shutdown(id): whatever runtime the table has under the id, or none.
Shutdown(r, call) ==
  /\ call \in calls[r]
  /\ calls' = [calls EXCEPT ![r] = @ \ {call}]
  /\ told' = told \cup ToSet(table[Id(r)])
  /\ UNCHANGED <<phase, cur, order, st, table, cancelled, late>>

\* Mutant of Watcher: no task waits for the token.
WatcherMissing(r) == FALSE /\ UNCHANGED vars
Watcher(r) == r[1] \in cancelled /\ Shutdown(r, "watch")

\* The drain: leaf #1 has 5 s to end before it is leaf #2's turn.
Drain(r) ==
  /\ phase = "drain" /\ r[1] = cur
  /\ r[2] = "leaf2" => "stop" \notin calls[<<cur, "leaf1">>]
  /\ Shutdown(r, "stop")

\* The drain is over, or its own 5 s are and it is aborted.
StopReturns ==
  /\ phase = "drain" /\ phase' = "idle" /\ HandlesDropped
  /\ UNCHANGED <<cur, order, st, table, cancelled, told, late>>

-----------------------------------------------------------------------------
(* leaf::start on the thread.                                                 *)

Register(r) ==
  /\ st[r] = "spawned" /\ st' = [st EXCEPT ![r] = "known"]
  /\ table' = [table EXCEPT ![Id(r)] = <<r>>]
  /\ late' = IF "watch" \in calls[r] THEN late ELSE late \cup {r}
  /\ UNCHANGED <<phase, cur, order, cancelled, calls, told>>

\* It returns once it is told to, or by itself with an error, at any time.
End(r) ==
  /\ st' = [st EXCEPT ![r] = "ended"]
  /\ table' = IF st[r] = "known" THEN [table EXCEPT ![Id(r)] = <<>>] ELSE table
  /\ UNCHANGED <<phase, cur, order, cancelled, calls, told, late>>
Ends(r) == st[r] = "known" /\ r \in told /\ End(r)
Fails(r) == st[r] \in {"spawned", "known"} /\ End(r)

Next ==
  \/ StartLeaf2 \/ StartLeaf1 \/ Connected \/ StartFails \/ Stop \/ StopReturns
  \/ \E r \in Spawned : Watcher(r) \/ Drain(r) \/ Register(r) \/ Ends(r) \/ Fails(r)

\* Tasks and threads run, and a runtime that is told to shut down does; none of
\* this happens twice to one runtime.
Fairness ==
  /\ WF_vars(\E r \in Spawned : Watcher(r))
  /\ WF_vars(\E r \in Spawned : Register(r))
  /\ WF_vars(\E r \in Spawned : Ends(r))

Spec == Init /\ [][Next]_vars /\ Fairness

-----------------------------------------------------------------------------
TypeOK ==
  /\ phase \in {"idle", "arti", "dns", "up", "drain"} /\ cur \in 0..MaxSessions
  /\ order \in Seq(Runtimes)
  /\ st \in [Runtimes -> {"none", "spawned", "known", "ended"}]
  /\ table \in [0..IdCount - 1 -> {<<>>} \cup {<<r>> : r \in Runtimes}]
  /\ cancelled \subseteq 1..cur /\ calls \in [Runtimes -> SUBSET {"watch", "stop"}]
  /\ told \subseteq Runtimes /\ late \subseteq Runtimes

\* Two runtimes share an id only when a full turn of the counter lies between.
ATurnApart(q, r) ==
  \E i, j \in DOMAIN order : {order[i], order[j]} = {q, r} /\ j >= i + IdCount

\* A runtime is shut down only by the stop() of its own session, or by that of
\* one whose runtime was spawned a full turn of the ids away.
OwnRuntimeOnly ==
  \A r \in told : r[1] \in cancelled \/ \E q \in Spawned : q[1] \in cancelled /\ ATurnApart(q, r)

\* A session that was stopped leaves no runtime behind, but for one that had not
\* entered leaf's table when the watcher called, which the drain may be too late
\* for as well, and one whose id has been given away since.
StopEndsRuntimes ==
  \A r \in Runtimes :
    r[1] \in cancelled ~> st[r] = "ended" \/ r \in late \/ \E q \in Spawned : ATurnApart(q, r)
=============================================================================
