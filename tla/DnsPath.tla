------------------------------- MODULE DnsPath -------------------------------
(* The way of a DNS query through a session: the listener (dns/mod.rs), the   *)
(* SOCKS endpoints start() makes up (secure_store.rs) and the parts that bind *)
(* them.  A query is a task.  If the profile pins an address of the DoH       *)
(* server, the task connects to it; if not, it asks leaf #1, which dials arti.*)
(* A connection made is as far as this goes: which way the system routes what *)
(* the program connects to outside of it is not modelled.                     *)
(* Sessions come one after the other; what a session leaves behind runs on.   *)
(* Another program may have taken a port by the time it is bound.             *)
EXTENDS Naturals, Sequences, FiniteSets, SequencesExt

CONSTANTS
  Ports,        \* the loopback ports
  SocksBuilt,   \* the HTTP client library was built with SOCKS proxies
  MaxSessions,  \* bound on start() calls
  MaxQueries    \* bound on queries

ASSUME BoundsAssumption == MaxSessions \in Nat /\ MaxQueries \in Nat /\ SocksBuilt \in BOOLEAN

VARIABLES
  phase,      \* where the current start() is, or "idle", "up"
  cur,        \* start() calls so far: the current session
  port,       \* the port of a part's endpoint, <<>> before it is picked
  st,         \* a part: "none", "spawned", "open" or "gone" (its bind failed, or it ended)
  loop,       \* a session's serve_loop: "none", "runs" or "ended"
  client,     \* a session's HTTP client: "none", "pinned" or "proxied"
  cancelled,  \* the sessions whose token is cancelled
  asked,      \* queries received so far
  tasks       \* the queries in flight: n, the session, whether the system was
              \* asked for the DoH host, and what it has come to

vars == <<phase, cur, port, st, loop, client, cancelled, asked, tasks>>
dns == <<loop, client>>
starting == <<phase, cur, cancelled>>
queries == <<asked, tasks>>

Sessions == 1..MaxSessions
Parts == Sessions \X {"leaf2", "arti", "leaf1"}

Init ==
  /\ phase = "idle" /\ cur = 0
  /\ port = [x \in Parts |-> <<>>] /\ st = [x \in Parts |-> "none"]
  /\ loop = [s \in Sessions |-> "none"] /\ client = [s \in Sessions |-> "none"] /\ cancelled = {}
  /\ asked = 0 /\ tasks = {}

-----------------------------------------------------------------------------
(* Endpoints.                                                                 *)

\* As far as this program knows.
Free(p) == \A x \in Parts : st[x] = "open" => port[x] # <<p>>

\* Mutant of Secret: one pair of credentials for all parts of a session.
SecretOfSession(x) == <<x[1], "all">>
\* random_credential: every endpoint has its own.
Secret(x) == x

\* SocksEndpoint::new_loopback, and pick_free_port in it.
NewLoopback(x) == \E p \in Ports : Free(p) /\ port' = [port EXCEPT ![x] = <<p>>]

\* The open part that takes a connection to x's endpoint, with its credentials.
Taking(x) == {y \in Parts : st[y] = "open" /\ port[y] = port[x] /\ Secret(y) = Secret(x)}

Bind(x) ==
  /\ st[x] = "spawned"
  /\ \/ Free(port[x][1]) /\ st' = [st EXCEPT ![x] = "open"]
     \/ st' = [st EXCEPT ![x] = "gone"]
  /\ UNCHANGED <<starting, port, dns, queries>>

\* arti's listener ends some time after the cancel; a leaf may also fail.
EndPart(x) ==
  /\ st[x] = "open" /\ (x[2] = "arti" => x[1] \in cancelled)
  /\ st' = [st EXCEPT ![x] = "gone"]
  /\ UNCHANGED <<starting, port, dns, queries>>

-----------------------------------------------------------------------------
(* start() and stop().                                                        *)

StartLeaf2 ==
  /\ phase = "idle" /\ cur < MaxSessions
  /\ cur' = cur + 1 /\ phase' = "arti"
  /\ NewLoopback(<<cur', "leaf2">>) /\ st' = [st EXCEPT ![<<cur', "leaf2">>] = "spawned"]
  /\ UNCHANGED <<dns, cancelled, queries>>

\* The bootstrap, after which arti's inbound is spawned on its endpoint.
StartArti ==
  /\ phase = "arti" /\ phase' = "leaf1"
  /\ NewLoopback(<<cur, "arti">>) /\ st' = [st EXCEPT ![<<cur, "arti">>] = "spawned"]
  /\ UNCHANGED <<cur, cancelled, dns, queries>>

StartLeaf1 ==
  /\ phase = "leaf1" /\ phase' = "dns"
  /\ NewLoopback(<<cur, "leaf1">>) /\ st' = [st EXCEPT ![<<cur, "leaf1">>] = "spawned"]
  /\ UNCHANGED <<cur, cancelled, dns, queries>>

\* The one address of all sessions: the loop and every task share the socket.
Holds(s) == loop[s] = "runs" \/ \E t \in tasks : t.session = s

\* build_client: whether an address is pinned is up to the profile; without one
\* a SOCKS proxy is needed, which a build without them refuses (StartFails).
Clients == {c \in {"pinned", "proxied"} : c = "proxied" => SocksBuilt}

StartDns ==
  /\ phase = "dns" /\ ~(\E s \in Sessions : Holds(s))
  /\ loop' = [loop EXCEPT ![cur] = "runs"]
  /\ \E c \in Clients : client' = [client EXCEPT ![cur] = c]
  /\ phase' = "up"
  /\ UNCHANGED <<cur, cancelled, port, st, queries>>

\* An early return of start() cancels nothing; the DNS socket, if it was bound
\* before, is dropped.
StartFails ==
  /\ phase \in {"arti", "leaf1", "dns"} /\ phase' = "idle"
  /\ UNCHANGED <<cur, cancelled, port, st, dns, queries>>

Stop ==
  /\ phase = "up" /\ phase' = "idle" /\ cancelled' = cancelled \cup {cur}
  /\ UNCHANGED <<cur, port, st, dns, queries>>

-----------------------------------------------------------------------------
(* serve_loop and the tasks it spawns.                                        *)

LoopEnds(s) ==
  /\ loop[s] = "runs" /\ s \in cancelled /\ loop' = [loop EXCEPT ![s] = "ended"]
  /\ UNCHANGED <<starting, port, st, client, queries>>

\* recv_from: until the loop has seen the token.
Receive(s) ==
  /\ loop[s] = "runs" /\ asked < MaxQueries
  /\ asked' = asked + 1
  /\ tasks' = tasks \cup {[n |-> asked', session |-> s, looked |-> FALSE, via |-> <<>>]}
  /\ UNCHANGED <<starting, port, st, dns>>

Becomes(t, u) == tasks' = (tasks \ {t}) \cup {u} /\ UNCHANGED <<starting, port, st, dns, asked>>

\* The address the session's profile pins.
Server(s) == <<s, "server">>

\* A pinned client has no proxy.
Direct(t) ==
  /\ client[t.session] = "pinned" /\ t.via = <<>>
  /\ Becomes(t, [t EXCEPT !.via = <<Server(t.session)>>])

\* The proxy's URL says socks5: the client asks the system for the host's
\* address first, unless it is one or a connection is open.
LookUp(t) ==
  /\ client[t.session] = "proxied" /\ t.via = <<>>
  /\ Becomes(t, [t EXCEPT !.looked = TRUE])

\* The endpoint a proxied query dials next: its own session's leaf #1, of which
\* the client was given the URL, then the arti that leaf #1 was started with.
Next2(t) == IF t.via = <<>> THEN <<t.session, "leaf1">> ELSE <<t.via[1][1], "arti">>

Hop(t) ==
  /\ client[t.session] = "proxied" /\ Len(t.via) < 2
  /\ \E y \in Taking(Next2(t)) : Becomes(t, [t EXCEPT !.via = Append(@, y)])

\* The answer of the DoH server goes to the peer, or an error to nobody.
Reply(t) ==
  /\ Len(t.via) = IF client[t.session] = "pinned" THEN 1 ELSE 2
  /\ tasks' = tasks \ {t}
  /\ UNCHANGED <<starting, port, st, dns, asked>>

\* The dial is refused, the server answers with an error, the connection breaks,
\* or 5 s have passed: nothing is sent.
Fail(t) ==
  /\ tasks' = tasks \ {t}
  /\ UNCHANGED <<starting, port, st, dns, asked>>

Next ==
  \/ StartLeaf2 \/ StartArti \/ StartLeaf1 \/ StartDns \/ StartFails \/ Stop
  \/ \E x \in Parts : Bind(x) \/ EndPart(x)
  \/ \E s \in Sessions : LoopEnds(s) \/ Receive(s)
  \/ \E t \in tasks : Direct(t) \/ LookUp(t) \/ Hop(t) \/ Reply(t) \/ Fail(t)

Spec == Init /\ [][Next]_vars

-----------------------------------------------------------------------------
TypeOK ==
  /\ phase \in {"idle", "arti", "leaf1", "dns", "up"} /\ cur \in 0..MaxSessions
  /\ \A x \in Parts : ToSet(port[x]) \subseteq Ports
  /\ st \in [Parts -> {"none", "spawned", "open", "gone"}]
  /\ loop \in [Sessions -> {"none", "runs", "ended"}] /\ cancelled \subseteq Sessions
  /\ client \in [Sessions -> {"none", "pinned", "proxied"}]
  /\ asked \in 0..MaxQueries
  /\ \A t \in tasks : t.n \in 1..asked /\ t.session \in Sessions /\ t.looked \in BOOLEAN
                     /\ t.via \in Seq(Parts \cup {Server(s) : s \in Sessions})

\* A query keeps to the way its own session's profile asks for.  Without a
\* pinned address it passes leaf #1 and arti of the session that received it and
\* nothing else, although ports are picked before they are bound, two endpoints
\* of a session may get the same one, a later session may get a port that an
\* earlier one was given, and parts outlive their session: no part takes what is
\* meant for another.  Only then the system is asked for the DoH host.  With a
\* pinned address it passes neither leaf nor arti: the client has no proxy, and
\* connects to that address.
QueryConfined ==
  \A t \in tasks :
    LET s == t.session
    IN  \/ client[s] = "proxied" /\ IsPrefix(t.via, << <<s, "leaf1">>, <<s, "arti">> >>)
        \/ client[s] = "pinned" /\ ~t.looked /\ IsPrefix(t.via, <<Server(s)>>)

(* What a comment says and the code does not do. *)

\* secure_store.rs:70-71: "A race remains - we mitigate it by retrying if the
\* listener fails to bind."  The task that binds arti's listener gives up.
BindRetried == [][\A s \in Sessions : st[<<s, "arti">>] = "spawned" => st'[<<s, "arti">>] # "gone"]_vars
=============================================================================
