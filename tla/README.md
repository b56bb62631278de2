# vpn21 verification

TLA+ specifications of the vpn21 core (`src/rust/vpn21-core`) and of the
applications that drive it (`src/app`), model-checked with TLC on small
instances and, in every component that is modelled, proved with TLAPS for
every value of the constants, as far as the prover goes.

## 1. The system

vpn21 turns a device's traffic into a chain

    TUN -> leaf #1 -> SOCKS5 -> arti (Tor) -> SOCKS5 -> leaf #2 -> proxy server

and answers the device's DNS queries over HTTPS: if the profile pins an address
of the DoH server, by a connection of its own to that address, which takes no
proxy; if not, through the SOCKS inbound of leaf #1. A Rust library owns the
chain; a Flutter app shows its state; a thin layer per platform
(Kotlin, Swift, plain FFI on desktops) gives it a TUN.

| component | state | operations | what is hard | what makes it correct |
|---|---|---|---|---|
| session orchestrator (`orchestrator.rs`) | `status`, `running`, one `CancellationToken` per session | `start`, `stop`, `status` | `running` is tested in one critical section and assigned in another, minutes later; every `?` leaves things running; `stop` has a budget | a session has one owner, is installed once and complete, is never revived; `stop` returns |
| leaf adapter (`transport/leaf_impl.rs`) | a thread and a watcher per leaf runtime, a global id counter | spawn, `stop` | the watcher and the drain race; leaf may hang | a cancelled runtime is asked to end |
| arti pipeline (`arti_pipeline.rs`) | Tor client, SOCKS inbound | bootstrap, bind, accept, handshake | unbounded bootstrap; the inbound binds on its own time | the accept loop ends with the token |
| DNS listener (`dns/mod.rs`) | a UDP socket shared with the queries in flight, an HTTP client | bind, build the client, serve, forward | the socket outlives the loop; the address is a single resource; two kinds of client, one of which some builds refuse | the address is free again after a stop; a query keeps to the way its profile asks for |
| iOS packet pump (`ios_pump.rs`, `ffi/mod.rs`) | two bounded queues, counters | start, stop, push in, push out, drain | a drain is two critical sections with a copy between them | order, no loss, bounded memory |
| C ABI and runtime (`ffi/`) | three `OnceCell`s | init, start, stop, status, ... | callers on any thread | start and stop may overlap in any way |
| Android (`MainActivity.kt`, `Vpn21VpnService.kt`, JNI) | reply slot, result bus, `pfd` | startVpn, stopVpn, dialog, START, STOP, onDestroy, onRevoke | single slots shared by overlapping calls; a service the system creates and destroys | the service never closes a descriptor under its session; each call is answered at most once; no service, no session |
| iOS tunnel (`Vpn21Bridge.swift`, ...) | a read loop | start, stop, read callback | callbacks that arrive after stop | one loop, no packet stuck |
| desktop TUN (`tun.rs`, `tun_desktop.rs`) | a TUN device | provision, adopt | a start that fails after the TUN was made loses the descriptor | the loss is known: on Linux it is final for the process (`FailureIsFinal`) |
| Dart state (`vpn_state.dart`, `config_state.dart`, ...) | stage, profiles, log | connect, disconnect, poll, load, save | the poll replaces what was shown; loads race with edits | the stage follows the core; nothing the user entered is lost |
| profile parser (`config/mod.rs`) | none | parse | defaults, numbers that are truncated | a profile accepted is a profile meant |
| ports and credentials (`secure_store.rs`) | none | pick a port, make credentials, make directories | a port is picked by binding and closing, and bound again later | no part is taken for another |
| logging ring (`logging.rs`) | a ring of lines | write, tail, clear | writers on every thread, locked line by line | the newest lines, newest first |
| errors (`errors.rs`), build scripts | none | | | |

Calls go down (Dart -> method channel -> Kotlin/Swift -> C ABI or JNI -> core)
and only answers come up; there are no callbacks into Dart, which learns
everything by polling `vpn21_status` every 750 ms. Inside the core, tasks
share nothing but the token, the two mutexes of the orchestrator and sockets.

`PROJECT.json` lists the components with what is modelled of each, and the
hazards with the properties aimed at them.

## 2. The modules

| module | models | composed with |
|---|---|---|
| `Orchestrator` | `start()`/`stop()` on any number of caller threads, both leaf runtimes with their watchers, arti's inbound, the DNS listener, the drain task | the parts of a session are in the same module: they share its token |
| `SessionLife` | abstract: one session's life cycle, at most one installed | implemented by `Orchestrator` |
| `LoneCaller` | abstract: what one caller at a time sees of the orchestrator | implemented by `Orchestrator` with one caller; used by `AndroidApp` as its core |
| `IosPump` | the pump and the C function that drains it | |
| `PacketChannel` | abstract: a FIFO channel that may drop from its end | implemented by `IosPump` |
| `VpnController` | the stage the app shows, and the button it puts on the page | extended by `AndroidApp` |
| `AndroidApp` | Dart, the method channel, `MainActivity`, the service and the system around it | `VpnController`, `LoneCaller` |
| `LeafRuntimes` | the leaf runtimes of successive sessions, their 16-bit ids, leaf's table | |
| `Socks5` | one connection of arti's SOCKS inbound, with the client and the Tor stream at its ends | |
| `DnsPath` | a query's way to the DoH server, pinned or through leaf #1 and arti, and the ports and credentials that lead it there | |
| `Profile` | operators: the parser and everything `start()` derives from a profile | used by `ProfilePath` |
| `ProfilePath` | the profile store, the choices on the home page, `connect()` | `Profile` |
| `LogRing` | the in-memory log | extended by `DesktopCore` |
| `DesktopCore` | initialisation, the TUN descriptor of a desktop | `LogRing` |
| `IosBridge` | start, stop and read loop of the iOS tunnel | |
| `OrchestratorProofs`, `AndroidAppProofs`, `LeafRuntimesProofs`, `Socks5Proofs`, `DnsPathProofs`, `ProfilePathProofs`, `DesktopCoreProofs` | theorems and proofs | each extends its module |
| `IosTunnelProofs` | theorems and proofs of both halves of the iOS tunnel | extends `IosPump` and `IosBridge` |
| `MCOrchestrator`, `MCIosPump`, `MCSocks5`, `MCProfilePath`, `MCDnsPath`, `MCDesktopCore` | instances for TLC | |

Some definitions are named "Mutant of X": X as a plausible mistake would have
it. They are in no next-state relation; each stands before the definition it
varies and breaks the property `PROJECT.json` pairs it with.

### Orchestrator

`status` and `running` are the fields of `Orchestrator` (progress and detail
text are left out). A session is its token: `used` holds the tokens that exist,
`cancelled` those that are cancelled, and `leaf`, `arti`, `dns`, `drain` give
the state of what was started under each. `pc`, `sess` and `result` are a
caller's position, its local session and its last return value.

An action is the code between two points where another thread can notice
something: an `.await`, or the release of a lock whose contents others use.
`StartCheck` (89-92) and `Install` (162-171) are two actions, since the lock is
released in between; `Announce` is a third, since `set(Connected)` comes after
the lock. `StartLeaf2` and `StartLeaf1` each fold two calls of `set()` with the
spawn between them into one action: the two calls set the same state (only the
progress differs), so the intermediate point differs from the end by a leaf
runtime that is not up yet, which only steps of that very runtime could notice.
A `?` is a disjunct that returns "err" and undoes nothing, as dropping a token,
a `TransportHandle` or a `JoinHandle` undoes nothing. A `start()` that fails
inside an action leaves whatever that action had done by then.

`FdVerdicts` is what `adopt_tun` may answer, which depends on platform and
build. The 5 s budget is nondeterministic: `StopTimeout` may happen at any
moment before the drain has answered, and leaves the drain aborted where it is.

### IosPump

Every method of `IosPump` holds the one mutex and is one action. The C function
that drains takes a batch (`DrainTake`), copies what fits into Swift's buffer
without the lock, and puts the rest back (`DrainFinish`); pushes, `start()` and
`stop()` may come in between. Packets are records of a rank, a size and the
start they belong to; `Cap` and `U16Max` scale the buffer and the limit of the
two-byte length prefix down. Of the inbound queue only the length is kept: no
code in the repository pops it. One thread drains at a time, as the Swift read
loop does.

### AndroidApp

The main thread is `main`: "free", or in the middle of a native start, of
`shutdown()` or of `onDestroy()`; while it is not free no channel call, intent,
dialog answer or tap is handled. Dart runs beside it: its timer polls the core
and its futures complete. `channel` holds the method calls on their way from
Dart, `inbox` what the system has queued for the service (create, START, STOP,
destroy), `thrown` the error answers on their way back. `startResult` and
`pendingProfile` are the fields of `MainActivity`, `pending` and `latest` the
result bus, `pfd` the service's field; a START intent carries the profile it was
built with, and the callback answers whatever `startResult` holds when it runs.

The system is external and modelled by what the code meets: `startService`
makes a service if there is none; `stopSelf` destroys it at once or some time
later (the VPN connection binds it) unless it is started again before; a
revocation takes the permission away and, by the framework's default
`onRevoke`, stops the service; `establish()` gives null without the permission;
the finalizer closes a `ParcelFileDescriptor` that nothing refers to.

The core is `LoneCaller`, justified by the run `orch_caller`: all native starts
and stops are made on the main thread, one at a time.

### LeafRuntimes

`Orchestrator` knows a leaf runtime by its session. The code knows it by a
`u16` that wraps: `spawn_leaf_runtime` takes the next id, starts a thread that
enters leaf's own table under it (`Register`), and leaves two callers of
`leaf::shutdown(id)` behind, the watcher of the token and the handle's stop
function (`calls`). A shutdown reaches whatever the table has under the id at
that moment, or nothing. `order` is the order of the spawns, from which an id
follows; `IdCount` stands for 2^16, and with ids that wrap
after 3 the run meets what takes 65,535 runtimes in the program.

### Socks5

`handle()` in `arti_pipeline.rs` reads with `read_exact` and decides between
reads; an action takes one decision together with the reads that lead to it.
Bytes are numbers, lengths are themselves bytes of the stream (`MaxLen` stands
for 255), so a length that is wrong makes the server read later bytes as
something else. The client is `socks5_proto::client_connect` or any peer whose
greeting, credentials or request differ from it in some field; either may
vanish with its last message sent in part. Dropping a stream with unread bytes
resets the connection, after which the client may miss the end of what was
written to it (`End`). After the dial, payload is counted in units per
direction (`flow`), with a copy task for each that stops at its source's end.
`ServerHandshake` is the second copy of the handshake in the same file, as a
function of the bytes read: only it has unit tests, and `CopiesAgree` relates
it to the one the program runs, wherever that waits for a byte. (After a
greeting that announces no methods it does not: `read_exact` into an empty
buffer returns at once, and the other copy, a function of the same bytes, has
already refused.)

### DnsPath

`Orchestrator.DnsRelease` is one step; here the queries in flight are tasks,
and each hop is a connection to the port of an endpoint that was picked, by
binding and closing, before the part that is to serve it bound it. Other
programs and other sessions' parts may have taken the port by then. `Taking`
says which open part accepts a connection to an endpoint: it must listen on the
port and have the same credentials. Sessions come one after the other, and what
an earlier one left behind runs on.

`client` is what `build_client` made. A pinned client has no proxy: its task
connects to the pinned address (`Direct`) and passes neither leaf nor arti. A
proxied one dials leaf #1's endpoint (`Hop`), and since the proxy's URL is
`socks5://` (`secure_store.rs:111-118`) and not `socks5h://`, the HTTP client
asks the system for the host's address before that (`LookUp`). `Cargo.toml:29`
declares reqwest without its `socks` feature; `SocksBuilt` says whether the
build has it all the same, as features are unified over the whole program, and
without it a profile that pins nothing is refused at `StartDns`. The
model ends where the program's own connections and lookups do. How the
platform routes them (into the tunnel again, perhaps to this very listener, or
past it) is not modelled, so nothing here says that a query of either kind
reaches the network through Tor, or that a lookup does.

### Profile and ProfilePath

`Profile` has no state: `FromJson` is the parser, `StartWith` is all that
`start()` hands to its parts and what it refuses, per platform. A JSON value is
`<<v>>` or `<<>>`; fingerprints are sequences of characters, since their
normalisation trims and filters; other strings are model values. Trimming and
filtering are said by places: `Besides` are those of another character,
`Filtered` is what is at given places, in their order. `Max8`, `Max16` and
`Width` scale `u8`, `u16` and the 32 bits of an address down, and the two
lengths 40 and 43 are constants too. arti's parsers are external: `BridgeAddrs`
and `BridgeIds` are what they take. So is the HTTP client: `ProxySchemes` says,
per platform, which proxies it was built with, and `Resolver` who finds the
address of the DoH host. The bootstrap, the binds and whatever else may fail in
`start()` for reasons of its own is in `Orchestrator`.
`ProfilePath` adds what happens between the import and the start: `_load` and
`_save` of `ProfilesController` wait for the preferences in the order they were
called (`pending`), and work on `state` as it is when their turn comes.
`session` is what the last step has started. `StartedAsMeant` compares it with
the blob the user imported, through definitions (`IsRsa`, `IsEd`, `Meant`,
`Usable`) that do not use the parser's. `BlobAssumption` gives what is read of
a blob its JSON types.

### LogRing and DesktopCore

`RingWriter::write` locks the ring once per line, so `WriteLine` is an action
and lines of two events mix; `Logs` is what `vpn21_logs` answers. `DesktopCore`
extends it with `vpn21_init` (a `OnceCell` whose closure may fail and be run
again, by Dart or by the platform's code) and with the TUN descriptor: `fd` is
who owns it, from `Open` over the attaching of the interface, the provisioning
call or `start()`, to the leaf that reads it, to nobody (`Dropped`: a
`TunConfig` holds an `i32`, and dropping it closes nothing), or closed. Linux
gives the name `vpn21` to one descriptor at a time. `Return` is the end of a
`start()` whose inner steps are those of `Orchestrator`.

### IosBridge

`starting` and `stopping` are where the two calls are, each of which blocks in
the core; `reads` are the starts whose loop has a `readPackets` callback
pending. The callback pushes and drains (`IosPump`) and reads again unless the
flow is nil, which it may be, or be again, by the time it runs. The system is
external: it starts a tunnel that is not running and stops one that is, also
while `startTunnel` has not returned.

## 3. Runs

| run | instance | checks |
|---|---|---|
| `orch_calls` | 2 callers, 2 sessions, any fd verdict | safety of overlapping starts and stops; `ImplementsSessionLife` |
| `orch_caller` | 1 caller, 2 sessions, fairness | `StopReturns`, `CancelledWindsDown`, `ImplementsLoneCaller` |
| `pump_overlap` | queue 2, batch 2, buffer 7, sizes 1/4/6, 5 pushes, 2 starts | `InOrder`, `NoneLost`, `BoundedMemory`, `OversizeBlocks`, `ImplementsChannel` |
| `android_app` | 3 taps on Connect, 1 on Disconnect, 1 revocation, fairness | see below |
| `socks_session` | 652 clients, lengths up to 3, 2 units each way, fairness | `Agreement`, `CopiesAgree`, `VerdictHeard`, `NothingCut`, `CancelEnds` |
| `profile_path` | 46 blobs and a second import, 5 platforms (2 with SOCKS proxies), 2 masks, 1 restart | `StartedAsMeant`, `AcceptedIffUsable`, `OneTun`, `LostOnlyIfEarly` |
| `leaf_runtimes` | 2 sessions, ids that wrap after 3, fairness | `OwnRuntimeOnly`, `StopEndsRuntimes` |
| `dns_path` | 2 sessions, pinned or not, 2 ports, 1 query | `QueryConfined` |
| `desktop_core` | 2 callers, 2 directories, 2 descriptors, 3 systems; ring of 2, 2 writers, 3 lines | `LayoutBeforeUse`, `FailureIsFinal`, `LogsAreNewest` |
| `ios_tunnel` | 3 starts | `WholeOrGone` |
| `doc_one_owner` | 2 callers, 2 sessions | refutes `ConnectedMeansInstalled` |
| `doc_port_retry` | as `dns_path` | refutes `BindRetried` |

`orch_calls`: `ExclusiveOwnership` (a session is owned by one start, by
`running`, or by one stop, and cancelled only by that stop), `NoOverwrite`
(`running` is None whenever it is assigned, because the DNS address is held by
every installed session), `InstalledIsComplete`, `NoResurrection` (nothing of a
cancelled session is started any more) and `LeakBlocksStarts` (a session
abandoned with its listener bound makes every later start fail).

`android_app`: `PfdOutlivesSession` (the descriptor a session runs on is closed
by the finalizer only, after a second START made the service drop it, and only
while that or another message is being handled or waits: the run has such
states, in which the core does run on a closed descriptor),
`NoServiceNoSession`, `SessionHeld`
(between messages the session runs on the descriptor the service holds, or the
service is about to change), `BusExclusive`, `OkNeverInvented` and
`AnsweredOnce` about the result bus and the reply slot, `LastWishWins` (a last
tap on Cancel or Disconnect wins, unless a permission dialog was up) and
`DisconnectingEnds`.

`socks_session`: arti is asked to connect only for a client with both
credentials, and to the target it named, whatever lengths are involved
(`Agreement`); a `client_connect` that is answered hears the answer, reset or
not (`VerdictHeard`); the end of one direction does not cut the other short
(`NothingCut`); a cancelled session lets go of `client_connect` (`CancelEnds`),
which is not so of a silent peer, as the handshake watches no token.

`profile_path`: what is run is what the blob says (`StartedAsMeant`), exactly:
hops, fingerprints, exit country, REALITY or TLS whenever the blob asks for one
of them, and the DoH client. The property also states three things a reader of
a blob would not expect: of a port only what 16 bits hold is dialled, a
security other than REALITY and TLS is run as none, and an unpinned DoH host is
looked up by the system. The core accepts exactly the blobs that have all the
parser asks for, and a start from one is refused, as far as its arguments
decide, exactly for four reasons (`AcceptedIffUsable`): an address or
fingerprint arti cannot parse, a pinned DoH host without a name, an unpinned
one when the HTTP client has no SOCKS proxies, no TUN. All four come after the
import has succeeded, the third and fourth after the Tor bootstrap. A session
that is up has one source of packets (`OneTun`); and a profile is lost only if
it was imported before the store was loaded, which is a flaw of `_load`
(`LostOnlyIfEarly`).

`dns_path`: a query keeps to the way its own session's profile asks for
(`QueryConfined`): pinned, to that address with no proxy and no lookup; not
pinned, through leaf #1 and arti of its session and no other part, although
ports are shared, taken and reused.

`leaf_runtimes`: a runtime is told to shut down by its own session's stop or by
one whose runtime is a full turn of the ids away, and a stop leaves a runtime
behind only if the watcher's call came before the runtime was in leaf's table,
or if the id was given away; the properties name these exceptions exactly, and
without them they fail.

`desktop_core`: `FailureIsFinal` says of Linux that one `start()` that fails
between the provisioning and leaf #1 leaves a descriptor that keeps the
interface's name for as long as the process lives; on macOS the descriptor is
lost as well, and later starts get another unit, so there the property says
nothing. `ios_tunnel`: `WholeOrGone`
names its exception too, a stop that overtakes its start.

Bounds. Two callers are two starts, two stops, or one of each at once; a third
adds no new pair of steps, as every step reads and writes its caller's own
session and the shared `running`, `status` and DNS address. Two sessions let
one be installed, abandoned or winding down while the other is built; the
theorems cover more of both. `orch_calls` uses symmetry over callers and
sessions, which no operator tells apart, and checks no liveness. In the pump a
queue of two and a batch of two let a batch come back to a queue that is full,
and 5 pushes let packets be accepted before, during and after a drain; sizes 1,
4 and 6 are a packet of which several fit, one of which only one fits, and one
the framing cannot describe. In the app
three connects are the first call, one that overlaps it, and one that finds on
the bus the outcome the two have left there, each from a fresh or an existing
permission; the safety properties were also checked with a second disconnect
(2,835,845 states) and with two of everything (270,793 states). Counters in
guards (`MaxReads`, `MaxConnects`, ..., `TokensLeft`) are bounds of the model.

For the connection (78,985 states), lengths up to 3 let a field be one too
long, and two units let one be copied while another waits. For profiles
(400,728 states) each blob differs from a usable one in one field or in two
that belong together, as the fields are looked at one by one; the second import
and the restart are what the store's races need; one of the masks is a proper
prefix, the other wraps to 0, and the rest is left to `NetmaskOfPrefix`. Ids that wrap after 3 (169,391
states) with four runtimes make one pair share an id while the others do not.
Two ports for six endpoints (1,759,239 states, symmetric in the ports) make every
pair of endpoints share one. Two descriptors (1,554,388 states, of which most
are the log beside the rest) are one that is lost and one that comes later. A
third start of the iOS tunnel (361 states) finds a loop of the first pending
beside the second's.

Fairness. `Orchestrator`: every step of a call whose task is merely ready (the
multi-thread runtime polls it), the timer of `stop()`, the watchers, the
binding of arti's inbound, its end and the release of the DNS socket (queries
in flight end with the HTTP client's timeout). Nothing is assumed of the
bootstrap (the network), of a leaf runtime's end, or of users. `AndroidApp`:
Dart's timer fires and a native stop goes on; nothing is assumed of users, the
dialog, native starts or the system. `Socks5`: the tasks of `handle()` and of
`client_connect` are polled when they are ready and a cancelled token wakes
them; nothing is assumed of Tor, of another peer, or of what either sends.
`LeafRuntimes`: watchers run, threads enter the table, and a runtime that was
told to shut down does, which is leaf's promise.

Refuted. `doc_one_owner`: a stop between install and `set(Connected)` leaves
Connected with nothing installed, where `ARCHITECTURE.md:109` has one task own
the state machine. `doc_port_retry`: the task that is to bind arti's endpoint
gives up when the port was taken, where `secure_store.rs:70-71` says that the
race is mitigated by retrying.

Read from the code while modelling, without a run of their own:

- Nothing sets Error after a failed start (`orchestrator.rs:99-160`);
  `ARCHITECTURE.md:40-49` draws the transition.
- A stop after a failed start releases nothing; `Vpn21Native.kt:39` says it
  releases all sockets and threads.
- A batch put back may exceed the "hard cap" of `ios_pump.rs:24`
  (`BoundedMemory` states what holds), and is put back after a stop and a
  start, where the comment in `ios_pump.rs:219-221` expects an empty queue.
- A second connect on Android takes the reply slot of the first;
  `Vpn21VpnService.kt:154-155` describes a bus for one.
- `stopVpn` is answered before anything was stopped; `native.dart:179-181` says
  that the platform stops the service before returning.
- A second START drops the running session's descriptor, and the finalizer may
  close it under the core before that START is refused and the session stopped;
  `Vpn21VpnService.kt:85-87` says that it is kept for the service's lifetime.
- A DoH host that is not pinned is looked up by the system, as the proxy's URL
  is `socks5://`; `dns/mod.rs:14-16` says that it is resolved through the
  tunnel.
- A query of a profile with a pinned address uses no proxy
  (`dns/mod.rs:80-91`) and so none of the chain, unless the platform routes its
  connection into the tunnel; the repository's `README.md:41-43` says of all
  queries that they go through leaf #2.
- There is no rule set of domains that are resolved locally, which
  `ARCHITECTURE.md:100-101` describes.
- reqwest is declared without `socks` (`Cargo.toml:29`), so in a build with
  just the declared features no profile without a pinned address works, and
  `docs/sample_profile.json` is one: `Proxy::all` or `build()` refuses it, or
  every query fails, depending on the version of reqwest. The model has the
  refusal.
- A fingerprint in the URL-safe alphabet is accepted (`config/mod.rs:172`) and
  refused by every start (`arti_pipeline.rs:93-97`).
- An error of the DNS client comes after the socket was bound, arti was
  bootstrapped and both leaves were started, which run on
  (`orchestrator.rs:99-160`).
- A macOS provisioning that fails is an error of the call
  (`ffi/mod.rs:174-177`); `tun.rs:141-142` says that leaf's auto mode is used.
- An iOS read callback that is pending across a stop and a start goes on beside
  the new loop; `Vpn21Bridge.swift:42-43` says that the loop stops itself. Two
  drains may then overlap, which `IosPump` excludes (one thread drains).
- The selected profile is forgotten with the process;
  `config_state.dart:99` says that it is persisted.
- Nothing but tests pushes outbound packets or pops inbound ones, so the iOS
  datapath is not connected to a leaf yet; `tun_desktop.rs` and
  `secure_store::write_private` have no callers; the iOS app polls the core of
  its own process, not that of the extension.

## 4. Proofs

Each theorem holds for every value of the constants that satisfies the named
assumptions of its module. Those are typing assumptions (`BlobAssumption` of
`ProfilePath` gives the types of JSON values), and two of substance:
`ClientConnectAssumption` of `Socks5` says which fields `client_connect` is the
one to fill in (version, one method, command), and `CharAssumption` of
`Profile` that a blank is neither a digit nor base64, a dollar no digit, and
the prefix `ed25519:`, which is one character of the model, not base64.

`Orchestrator`, for any callers, sessions and verdicts of `adopt_tun`:

- `Invariance`: `IInv` is inductive. It is `TypeOK /\ ExclusiveOwnership /\
  DnsHeld /\ Parts`. `ExclusiveOwnership` alone is inductive with the types;
  `NoOverwrite` is not, since `Install` tests nothing: that `running` is None
  follows from the DNS address being bound by at most one session (`DnsHeld`)
  and by each session that is installed or about to be. `Parts` says which
  parts are started at each position of a start, which is what
  `InstalledIsComplete` needs.
- `TypeCorrect`, `OwnedOnce`, `NeverOverwritten`, `CompleteSessions`: the
  invariants of `orch_calls` from it; `CancelledForGood` and `LeakIsFatal`: its
  two action properties.
- `LifeRefinement`: every step of `Orchestrator` is a step or a stutter of
  `SessionLife`. A call's step moves the life of one session only
  (`OneMoves`), and a background step moves none (`LifeFrame`).
- `LoneRefinement`: with one caller, `Orchestrator` implements `LoneCaller`,
  which is what `AndroidApp` takes for its core. One caller is a hypothesis of
  the theorem and a fact of the app: the service's native calls are all made on
  the main thread. Two see more than `LoneCaller` has (`doc_one_owner`). The
  invariant needed besides `IInv` is `OneAtATime`: from its check to its
  installation a start finds `running` None, and the status is its own.

`AndroidApp`, for any number of connects, disconnects and revocations:

- `OneOnTheBus`: `BusExclusive` is inductive by itself.
- `NeverAnsweredTwice` from `AnswerInv`: a call that is still on the channel,
  or in `startResult`, has no answer yet, and no call is in two of those places.
  Why two overlapping calls cannot complete one of them twice is exactly that
  the second overwrites the slot of the first.
- `OkIsEarned`: `OkNeverInvented` is inductive with the types.
- `DescriptorOutlives`, `NothingWithoutService`, `HeldSession` from `IInv`. The
  first does not say that the core's descriptor is never closed: it says by
  which step alone and when, the dropped descriptor and its finalizer included.
  `SessionHeld` alone is not inductive: what the service does with its next
  message depends on whether a service is there, which depends on the messages
  before. `InboxInv` says that a create is where a service is missing, that at
  most one destroy waits, and that `stopSelf()` was not called twice for one
  service; `ServiceInv` ties the descriptor, the core's phase and the main
  thread together.
- `LastWishIsDone` from `WishInv`: after a disconnect without a dialog the last
  call on the channel is stopVpn, or no startVpn is left there and the same
  holds of the intents (`Delivered`), or the stop is running.

`Socks5`, for any credentials, lengths and clients of the stated shape:

- `TypeCorrect`.
- `CarriedWhole` (`NothingCut`): a copy that is done has copied all that was
  sent before its source closed, unless the stream was lost (`FlowInv`).
- `SameProtocol` (`CopiesAgree`): `ParseInv` says of each read of `handle()`
  what the bytes read so far (`seen`) must have been for it to get there, in the
  terms of `ServerHandshake`; at each point the two agree on what was written
  and decided. The proof found the exception about a greeting without methods;
  the instance has such clients since, and the property says so.
- `TargetAgreed` (`Agreement`), under `Honest`: the client is `client_connect`,
  with fields of any length, or a peer whose length bytes are true. Another
  program may lie in its lengths, and then what it "named" has no meaning; the
  peers of `socks_session` that do are rejected there. `StreamInv`: what was
  read followed by what is on its way is a prefix of the stream the client
  would send. Hence wherever `handle()` looks for a field, it finds that field
  (`RequestFound`, `Understood`).
- `AnswerHeard` (`VerdictHeard`): `LockInv` says where `handle()` may be for
  each point of the call, and what is on its way back. A reset may then meet
  `client_connect` only when it has sent all, `handle()` has read all
  (`NothingLeft`), and the end that is heard is one that `handle()` decided.

`LeafRuntimes`, for any number of ids, sessions and runtimes:

- `OnlyItsOwn` (`OwnRuntimeOnly`): leaf's table holds a runtime only under its
  own id (`TableInv`), a runtime is spawned once and by its session
  (`OrderInv`), and two runtimes with one id are a full turn apart
  (`FullTurn`, division with remainder).

`IosPump`, for any queue length, batch, buffer, sizes and bounds:

- `PumpInvariance`, with `PumpTypeCorrect`, `PumpBounded` (the outbound queue
  never exceeds `MaxQueueLen + MaxBatch`) and `PumpLosesNone`.
- `PumpInOrder`: delivered packets and those in flight are one sequence, of
  which pushes extend the end and clears cut from it (`AllMoves`).
- `OversizeBlocksAll`, and `FifoChannel`: the outbound side implements
  `PacketChannel`.

`IosBridge`, for any number of starts:

- `TunnelWholeOrGone`: a stop holds the bridge until it has returned, a start
  that is not interrupted ends with a reader, and a stop that has overtaken no
  start leaves nothing.

`DnsPath`, `DesktopCore` and `LogRing`:

- `QueriesConfined` (`QueryConfined`), for both kinds of client: the inductive
  invariant gives the values of a query's `via` for the client of its session,
  from which the next endpoint follows; `OnlyTheOwner` is the reason, since
  credentials tell every endpoint from every other.
- `LayoutFirst` and `FailureFinal`: directories are made in order, so being
  past the last means that all are there; on Linux the interface's name is one
  descriptor's, and after a failure a lost one's.
- `NewestShown` (`LogsAreNewest`): the ring holds the last lines written since
  it was cleared, as many as fit, numbered without a gap (`RingInv`); the answer
  reverses them, and no line is shown as milder than it was logged.

`ProfilePath`, for any blobs, fds, masks and restarts:

- `NothingKeptIsLost` (`LostOnlyIfEarly`): the property speaks of moments at
  which nothing waits; the invariant must speak of all. A profile that was kept
  is on disk at any time (`KeptOnDisk`), and in memory unless a load waits
  (`KeptInMemory`); a load can only be the first call that waits
  (`LoadFirst`), so that no save writes a list that was not loaded.
- `IdIsOneProfile`: an id is one profile at most, in memory and on disk. The
  model's `Without` takes out one element where `remove()` filters; this is why
  the two are the same.
- `OnePacketSource` (`OneTun`), for every platform, fd, mask and width. The
  netmask needs laws of powers of two, which the prover knows nothing of.
  `FS_SUBSET` says that 2^n counts the subsets of n things; a subset of a
  disjoint union is a pair of subsets, so sums become products (`PowSum`,
  `FS_Product`, `FS_Bijection`) without an induction, and `NetmaskOfPrefix` is
  division with remainder.
- `RsaRead` and `EdRead`: for every text, what the two `normalize_*` functions
  accept and return. A filter keeps places in their order, and the place of
  rank k is found because ranks are injective into as many numbers
  (`RankIsPlace`, `FS_Injection`); that takes the place of an induction over
  the text. A trim leaves what is between the least and the greatest place that
  is not blank (`LeastPlace`, from the well-foundedness of the naturals); no
  text has the shape `IsRsa` or `IsEd` describes in two ways (`SameStart`,
  `SamePiece`).
- `BlobRead`: `from_json` accepts a blob if and only if it is `Usable`, and
  reads the outbound that is `Meant`, the least place of a list being the one
  before which no other qualifies (`FirstIsMeant`).
- `SessionsRunAsMeant` (`StartedAsMeant`) and `TakenIffUsable`
  (`AcceptedIffUsable`) from `BlobInv`: each profile, in memory and on disk, is
  what the core made of the blob its id stands for, and only accepted blobs were
  kept. `StartedAsMeant` alone says nothing between two starts. `RunRead` says
  what `start()` makes of an accepted blob and when it is refused, for any
  country, platform, fd, mask and build of the HTTP client; that the bridge
  gets the fingerprints of the blob rests on `RsaRead` and `EdRead`; with `BlobInv` that holds of whatever profile is active, after any
  removals, saves, loads and restarts.

Only model-checked is liveness, which the prover does not support:
`StopReturns`, `CancelledWindsDown`, `DisconnectingEnds`, `CancelEnds` and
`StopEndsRuntimes`.

## 5. Not modelled

The model covers the components above, and every safety and action property the
passing runs check is a theorem. What could still be
stated: that two drains of the pump at once, which a stale iOS callback makes
possible, keep its bounds; and what two different directories given to
`vpn21_init` do.

Left out for good: the JSON syntax of the configuration generated for leaf and
of the profile, renaming a profile, fetching one over HTTP, a second and
different directory given to `vpn21_init`, the error type's wording, layout,
build scripts, the list of installed apps, how a platform routes what the
program connects to or looks up outside the tunnel, a proxy the environment
names (the HTTP client would use it for a pinned query), and what leaf, arti,
the HTTP client and the platforms do inside. In `AndroidApp`: a
`MainActivity` that is recreated while a call waits, a `startService` the
system refuses to an app in the background, and the death of the process.
