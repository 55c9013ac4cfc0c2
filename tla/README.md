# Verification of rtsp-go

TLA+ models of the RTSP server, client and proxy of this repository, model-checked
with TLC and, where marked, proved with TLAPS. Paths below are relative to `src/`.

The code is modelled as it is meant to build. As committed it does not compile
(`rtspProtocon/port_manager.go` locks `PortMux` where the field is `PortMutex`,
lines 216 and 281; `tcp_transport.go` lacks the imports of `strings` and
`strconv`); the models assume those slips corrected and nothing else.

## Inventory

| component | state | operations | interacts with |
|---|---|---|---|
| port manager (`rtspProtocon/port_manager.go`) | `UsedPorts`, `RTPRange`, `LastCleanup`, one mutex | AllocatePorts(WithRetry), ReleasePorts, ForceReleasePort, ResolvePortConflict, SetPortRange, PreAllocatePorts, the five-minute cleanup | called by every SETUP and TEARDOWN; probes the host's UDP ports |
| server (`server/server.go`) | `Running`, listener, streams, session registry, per connection: session, port allocation | Start, Stop, OPTIONS … TEARDOWN, AddStream, RemoveStream | one goroutine per connection; registry and port manager are shared |
| client (`client/client.go`) | `Connected`, `SDP`, `Session`, its state | Connect, Options … Teardown, Disconnect | one TCP connection to the server, one call at a time |
| Transport header (`rtspProtocon/protocol.go`) | the struct being filled | ParseTransport, String | SETUP of client and server |
| messages (`rtspProtocon/protocol.go`, the readers in `server.go`, `client.go`, `rtsp_io.go`) | the bytes on each connection | ParseMessage, String, reading lines and bodies | every connection |
| TCP transport (`rtspProtocon/tcp_transport.go`) | `NextChannel`, `Channels`, no lock | AllocateChannel, ReleaseChannel, GetTCPChannel, frame codec | meant for SETUP over TCP and the media loops of `server.go` and `client.go`, which are dead code (see `TCPRecognised` below) |
| RTP (`rtspProtocon/rtp.go`) | packet counters | encode, decode | frames of the TCP transport, the client's receivers |
| SDP (`rtspProtocon/sdp.go`) | none | format, parse | DESCRIBE |
| proxy (`proxy/proxy.go`, `rtsp_io.go`, `main.go`) | `Running`, listener, session map, per session: upstream connection, media proxy | Start, Stop, one handler per client, route changes | dials upstream servers, starts media proxies |
| media proxy (`proxy/media_proxy.go`) | `Running`, mode, a flag per stream | Start, Stop, SetTransportMode | started by PLAY through the proxy, stopped by Close |
| health checker (`proxy/health_checker.go`) | `Running`, failure counters | Start, Stop, the ticker loop, restartProxy | stops and starts the proxy |
| authentication (`proxy/auth_manager.go`) | users, ACL rules, statistics | users and rules, AuthenticateUser, CheckAccess | the proxy never calls it |
| logger (`proxy/logger.go`) | level, two files on disk and their descriptors, one mutex | Log, the LogX events with their audit entry, SetLevel, RotateLogs, CleanupOldLogs, Close | its callers; files outlive the process |
| configuration, examples | — | read once; demonstrations | — |

What is hard in each, and what makes it correct:

- **Port manager.** Attempts of several callers interleave between the sleeps of
  a retry loop, while reservations are dropped by stale releases, forced
  releases and a cleanup that empties the whole map. A pair that nobody dropped must stay
  exclusive; no port may be stranded; every request for ports must end.
- **Server.** The handlers cut their work at every lock: SETUP registers before
  it allocates, PLAY looks up before it updates, TEARDOWN removes before it
  releases. Sessions belong to a registry all connections share, allocations to
  a connection. A session that is gone must stay gone; an allocation has one
  holder; each request is answered.
- **Client with server.** Two copies of the session's state, calls that fail
  half way, connections that break, answers taken for those of other calls. As long as each
  call takes its own answer both sides must agree between calls, and no
  client may cost another its ports.
- **Transport header.** Ordered substring tests decide what a part means.
- **Proxy.** One handler per client with a connection of its own to a server,
  started and closed by different goroutines; Stop holds the session lock while
  it closes. Answers must match requests and come from the server of their path; every
  handler must end and leave nothing open.
- **Media proxy.** Start only spawns; forwarders raise their flag whenever they
  get to run. Forwarders must not multiply, and must end.
- **Health checker.** restartProxy calls a Start that blocks while the proxy runs, so
  the goroutine that watches becomes the accept loop; a checker that is stopped and
  started within an interval has two such goroutines. A proxy that is down must come
  up again, a checker that is on must have somebody watching, and no restart may leave a
  listener that Stop cannot reach.
- **Authentication.** Policy, rules and users change under callers that hold a read lock,
  a write lock or none. An answer must follow the rules in force and be counted
  once; a call must return.
- **Messages.** A reader takes what one Read returns for the whole body; what is left
  is read as the next message. Answers must stay in step with calls.
- **TCP transport and RTP.** Channel numbers are bytes that wrap, handed out without a
  lock, and travel through a printed and parsed header; frame sizes are 16 bits wide, RTP
  fields narrower than the Go types that hold them. Channels must be distinct, and what goes
  through the codecs must come out as it was.
- **Logger.** Events are two entries in two files, with rotations, cleanups, changes of
  level and the end of the process between them; writes whose errors are ignored; three
  operations log under the mutex that logging asks for. What was written must stay on disk,
  an event must be audited before it is logged; calls must return.

## Modules

| module | models | its proofs |
|---|---|---|
| `PortPool` | abstract: leases of port pairs, with no map, scan or lock | |
| `PortManager` | port manager; implements `PortPool` | `PortManagerProofs` |
| `RTSPServer` | server, with an INSTANCE of `PortManager` | `RTSPProofs` |
| `RTSPClient` | one client per connection, extends `RTSPServer` | `RTSPProofs` |
| `Transport` | Transport header | `InterleavedProofs` |
| `TCPTransport` | channel numbers, frame codec | |
| `RTPPacket` | RTP header and packet, encoded and decoded | |
| `Interleaved` | what a program gets from the package for media over RTSP: composes `Transport`, `TCPTransport`, `RTPPacket` | `InterleavedProofs` |
| `MessageStream` | answers as byte streams, through proxies in a row | `MessageStreamProofs` |
| `MediaProxy` | media proxy goroutines | `ProxyProofs` |
| `RTSPProxy` | proxy: accept loop, handlers, Stop | `ProxyProofs` |
| `HealthChecker` | the checker's goroutines, over the proxy's Start and Stop | `HealthCheckerProofs` |
| `AuthManager` | users, rules, policy and the lock around them | `AuthManagerProofs` |
| `Logger` | the logger's goroutines, its files, and restarts | `LoggerProofs` |
| `MC…` | constants and symmetry for TLC | |

Each module says at its head where it cuts the code into steps and what it leaves
out. An action is what a goroutine does from one lock, blocking call or shared
access to the next.

**PortManager.** `UsedPorts` maps ports to `true` only, so it is a set. `Attempt`
is one AllocatePorts under the mutex, cleanup and scan included; `busy` is what
other programs hold when the ports are probed, chosen anew at every attempt.
`RTCPRange` is validated and stored and no allocation reads it, so only
`RTPRange` is kept. `alloc` is the `*PortAllocation` in the caller's hands, kept
after its release, so that `ReleaseAgain` can happen. `ForceReleasePort` stands for
ResolvePortConflict too, which deletes the same entry. `PreAllocatePorts` takes
the mutex and then waits for it: the mutex is never free again. The history
variable `intact` records the allocations that neither cleanup nor
a stale or forced release has dropped; the properties are about those.

**RTSPServer.** The port manager's variables appear unchanged, through `PM ==
INSTANCE PortManager`; a session's identifier is the caller that asks for ports.
`current` is the session of a connection, `held` its `PortAllocation`, named by the
session it was made for; it survives TEARDOWN as in the code. `registry`
is the key set of `Sessions`; `state` outlives it, since handlers keep pointers.
Session identifiers come from a nanosecond clock and are taken to be distinct.
One request at a time per connection is general: pipelined ones only queue.
Bytes that do not parse end a connection as a disconnection does.
`main` adds its streams before Start (`DefaultStreams`).

**RTSPClient.** A call is the step that sends and the step in which it takes an answer for
its own. readResponse takes what one Read returns for the whole body of a DESCRIBE's answer
(`client/client.go:392`): what it leaves, a `rest` or one that starts with an empty `line`,
stands in `front` of the next answer, which is then garbled, or taken for the one after.
`late` are the answers that have been written and not yet read. So a call returns in one of
three ways: with the answer the server is writing (`Return`), with one to an earlier request
(`ReturnLate`), or on an empty line (`ReturnEmpty`). `tears` counts and bounds the Reads that
fell short; `heard` records, for each client, that all its calls about a session took their
own answers, and `AllHeard` that all clients' did. The bytes behind this are in
`MessageStream`. Disconnect is a TEARDOWN and then, whatever came of it, the closing of the
connection (`CLOSE`). parseURL hands
everything after the port's colon to Atoi, so only URLs without a path connect,
and such a URL names its host as the stream (`HostStream`). A client
connects once: reconnecting is a new connection with a new client.

**Transport.** A header is a sequence of parts (token, value); a step is one turn
of the loop of ParseTransport, which applies the first test found in the part,
value included: hence the value `Tricky`, which contains "unicast". `NeverTCP`
(proved, not run: `ParsedNeverTCP`) is why the interleaved branches are missing from `RTSPServer` and
`RTSPClient`: behind IsTCPTransport of a parsed header they are dead code, media loops
included. That the documentation says otherwise is what `TCPRecognised` shows.

**Interleaved**, with **TCPTransport** and **RTPPacket**, models what the package offers a
program that sends media over RTSP, chained as `tcp_examples.go` chains it: allocate a channel,
announce it in a header, parse the header, put packets into frames on the channels found
there and take them out again. The manager has no lock, so AllocateChannel is four steps, one
for each time it reads or writes `NextChannel`, and calls for different sessions interleave;
that two of them write one Go map at once, which may abort the program, is left out. In other
behaviours a header that was printed or received on its own is parsed. `Pass` is the codec
alone, with no connection: the program's reading and writing is its own. The channel is a byte
that wraps, the sum `4+length` is 16
bits wide. The first two bytes of an RTP packet are sets of bits, since their fields are
or'ed together. Payloads beyond 65535 bytes are left out.

**MessageStream.** `link` holds the bytes of each connection between client and server
that were written and not yet read, `arrived` how many of them a reader can see. A
header line is one unit; a body is divided where the readers tell the difference.
Client and server take what one Read returns (`ReadOnce`), the proxy reads on
(`ReadFull`). `RTSPClient` has what this does to a session, without the bytes. The other models
exchange whole messages: the requests they are about have no body, so a message ends at its
empty line however it is cut, and the proxy reads its bodies to the end.

**MediaProxy.** `launching`, `entering` and `looping` count goroutines by how far
they are; `Start` and `Stop` hold the mutex, Stop over its three steps
(`stopping`). An iteration of a forwarder that finds its flag up changes nothing
the model keeps.

**RTSPProxy.** `asked` and `pipe` are the two directions of the upstream
connection. `StopClose` closes one session at once: what the handler may do
between Close's three closes it may as well do before or after them. Route edits are atomic
here; in Go they race with the handlers' reads of the same map, which may abort
the program. The media proxy of a session is its Running flag. The mode it is
set to is left out: SetTransportMode("tcp") needs a TCP transport, which
`NeverTCP` excludes.

**HealthChecker.** `pc` says where each goroutine is: a runner walks through a
check into Stop and Start of the proxy and, since Start returns only after
the proxy is stopped, stays in `looping` until then. Goroutines that call Start name their
listeners: `open` are the ones that listen, `listener` the one in `p.Listener`. The
failure count is cut at the threshold, above which all values act alike. The
proxy's sessions are left out.

**AuthManager.** A critical section is one step; CheckAccess's last one never ends,
because it asks for the write lock inside its read lock, so after `Decide` there is
no step. Path, method and source address of a request are its `kind`; the
exchange sort is the code's, loop by loop. The proxy creates a manager
(`proxy/proxy.go:122`) and never asks it; callers here are what its API invites.
Likewise nothing in the repository starts the health checker the proxy creates.

**Logger.** A critical section is one step, except for the three that log under the mutex:
their goroutine goes to `stuck` and keeps it. `fd` says whether a descriptor is on the file
that has its name, on a removed one, or closed, through which nothing is written; each entry
is in the named file, a file
rotated at some second, a file without a name, or gone. A program may have switched auditing
off (`enableAudit`), which it decides when it starts the logger. `Restart` kills the process between
any two steps; the files stay. Event 0 is one that cannot be marshalled. `careful` is the
history variable `EntriesKept` needs: nobody has cleaned up, closed, failed to reopen or
rotated twice in one second. `gap` is what `EventsAudited` needs: the calls that had begun when
the logger last had no `audit.log` to write to.

## Runs

Bounds are named in the modules or given by the `.cfg`.

| run | instance | shows |
|---|---|---|
| `port_manager` | 2 callers, 4 ports, 2 attempts; ranges that overlap shifted by one, too short, invalid | what nobody dropped is exclusive (`IntactExclusive`); no port is stranded (`NoOrphanPort`); grants lie in the range in force; serving a caller costs no other caller its pair unless the cleanup runs; `PortPool` is implemented; every request for ports returns unless PreAllocatePorts has the lock |
| `port_manager_cleanup` | the same, careful callers | **violated**: `LiveExclusive`. The cleanup forgets pairs in use and they are handed out again |
| `server` | 1 connection that may break, of a client or of another peer, 1 session, 1 pair, 1 attempt, one short Read; Start, Stop and administration around them | `EveryCallReturns`: every request is answered or its connection ends; `StopEndsAcceptLoop` |
| `client_server` | 2 clients, 2 sessions, 1 pair, one short Read | `ViewsAgree`, `GrantedPortsKept`: what its own answers told a client is so, before the cleanup is due; `NoForeignRelease`: a client costs another its ports only after a misread answer; `TornDownStaysDown`: a session that was gone when a request named it is not acknowledged |
| `message_stream` | 4 calls, 0 to 2 proxies, every segmentation | `AnswersInStep`: each Read that ends right before a line's end costs one answer of alignment, nothing else does; `ShortReadCostsOneCall`; `CallsReturn` directly and through one proxy |
| `interleaved` | every struct with each field empty or set, every header of up to 3 parts; 2 sessions, 5 allocations that may overlap, channels of 8 values; 8 packets within and beyond their fields, sizes up to the largest | `RoundTrip`; `NearbyDistinct`: once calls do not overlap any more, channels are distinct; `PacketsAccepted`: racing calls or not, what is framed on announced channels comes out; `ReceivedAsSent`, `FramesRoundTrip` |
| `transport_tcp` | the same | **violated**: `TCPRecognised`. A header with the profile RTP/AVP/TCP becomes an RTP transport |
| `media_proxy` | 3 Starts | `OneForwarderPerStop`, `RunningIsServed`, `SettledStopClears`, `SettledStopEnds` |
| `proxy` | 1 client, 2 requests, 2 servers, routes edited at will | `AnswersMatch`, `IdleCloseIsFinal`, `HandlersEnd`, `RequestsAnswered` |
| `health_checker` | 2 runners, threshold 3, an operator who stops the proxy at will | `NoLeakedListener`, `SomebodyWatches`, `DownIsRestarted` |
| `auth_manager` | 2 goroutines, 2 calls, 1 user, up to 3 of 4 rules (equal priorities, one disabled) | `DecisionHolds`, `EveryRequestCounted`, `ChecksReturn`: calls return until the policy is other than the default and a CheckAccess has come to the rules |
| `logger` | 2 goroutines, 3 calls, 4 levels, 2 seconds, auditing or not, restarts anywhere | `EntriesKept`, `EventsAudited`, `LoggingReturns`: nothing but logging under the mutex locks the logger up |

Why the bounds are enough. Conflicts over ports are between two holders, and the
third party that matters, another program, is the choice of `busy`; four ports
give two disjoint pairs and, in the shifted range, one that meets both. The
port manager's safety does not rest on the bound: it is proved. In the server, a stale
operation needs one session that is gone and one that came after it, and two connections let
a request race a TEARDOWN of the other. One short Read puts every later answer out of step,
up to a second TEARDOWN; that further ones and further sessions change nothing is proved.
Whether a call returns is a matter of its own connection, its handler and whoever stops
or administers the server. Two allocations that overlap are enough to lose an advance of the
counter or to set it back. A channel counter of 8 values wraps within 5 allocations as one of 256
does within 129; a length field of 128 values has the four last ones whose sum with 4
overflows, as one of 65536 has, and room for the packets. A header of three parts is one
more than a test needs to shadow another. Answers out of step show at the call after the
one that read a part; four calls let a second slip follow a first, and two proxies
are the least that can wait for each other's bodies. In the logger an event and a
rotation between its two entries are two calls, what comes after them the third; two
rotations share a second or do not with two seconds; the four levels are those
at which something that is logged under the mutex is dropped or not. A forwarder left behind by an earlier round needs two rounds;
three let it meet a Stop of its own and one of the next. Two runners are
what a Stop and a Start of the checker within one interval give. The proxy's handlers
share only the session lock, which one client and Stop already contend for.
`CHECK_DEADLOCK FALSE` is set where a behaviour may end: sessions, requests and Starts
are bounded, a PreAllocatePorts caller blocks for ever, a stopped server does nothing.

### Fairness

- `PortManager!FairSpec`: a caller inside AllocatePortsWithRetry keeps
  running. Weak fairness of `Attempt` is enough: PortMutex is free between
  any two steps until a PreAllocatePorts has taken it for good.
- `RTSPClient!AdministeredSpec`: Start, Stop, the handlers and the client's calls are
  goroutines the runtime schedules; what the application and the administrator call is open.
- `MessageStream!FairSpec`: programs run and TCP delivers; the application need not call.
- `Logger!FairSpec`: goroutines run, and a mutex that is free goes to whoever waits. Nobody
  has to call anything; the process need not die.
- `MediaProxy!MediaFairSpec`: goroutines run; nobody has to call Start or Stop.
- `RTSPProxy!FairSpec`: goroutines run, and a server that was asked
  answers while its connection lasts (`UpstreamAnswers`). The code has no
  read timeout, so without this assumption `RequestsAnswered` does not hold.
- `AuthManager!FairSpec`: callers run; between two steps the lock is free unless a
  CheckAccess is inside its read lock, and one that is stays.
- `HealthChecker!FairSpec`: goroutines run and tickers tick. An accept loop whose
  flag is down leaves: its listener is closed, or about to be (`NoLeakedListener`), so
  its Accept returns. Nobody has to stop the proxy or stop or start the checker.

## Proofs

TLAPS proves these for every value of the constants that meets the named ASSUMEs,
which TLC evaluates in every run that uses the module. Type invariants are proved where a module is
proved about; they are not run.

- **PortManagerProofs** (`PortsAssumption`, `RangesAssumption`,
  `RetriesAssumption`, `NilAssumption`). `TypeCorrect`: types, which only
  hold together with the retry budget (`attempt` stays in its range because an
  asking caller has an attempt left). `PortsExclusive`: `IntactExclusive` is
  not inductive alone, since a new pair avoids old ones only because those are
  marked in `used`; `ReservationInv` adds `IntactReserved`, and the two are
  preserved because every step that takes ports out of `used` takes their holders
  out of `intact`. `NoPortStranded`, `GrantsStayInRange`,
  `NoTheftWithoutCleanup`: from the types and the effect of an attempt, stated once
  as lemma `GrantEffect`. `PoolImplemented`: the
  refinement; an attempt is Grant, Recycle or RecycleAndGrant, a release Drop.
- **RTSPProofs** (`ServerAssumption`, `PortManagerAssumption` and PortManager's; any number of
  connections, sessions, ports and streams; Stop, administration and every request included).
  `ServerTypeCorrect` needs, besides types, what each handler is at work on (`AtWork`): the
  session it will allocate for, update or release is one that exists.
  `ServerUsesPortManager` is a refinement that is proved and not run: a connection releases only what was
  granted (`HeldInv`), so each step of the server is one of the port manager's or leaves it
  alone. `ServerPortsExclusive` gives the server what the port manager promises: its
  invariants are reused through an INSTANCE of its proof module. `RemovalIsFinal`: a session
  that was issued and removed is never registered again (lemma `RegistryStep`), so a lookup
  that names it fails (`NamesTheDead`).
  For the clients (`SystemSpec`: no administration, the cleanup not yet due)
  `ClientsAgree`, `GrantsAreKept` and `NoForeignReleases` come from one
  invariant, `SystemInv`. `OwnInv`: what a connection may name, in a request, a response or
  its allocation, no other connection names. `CallInv`: a client with nothing left to read
  (`Waiting`) waits for the answer to the request the server has. `ViewInv`: what a client that
  has heard its own answers (`heard`) believes of its session holds at the server, unless a successful answer is on its way,
  and then what the answer will make it believe does; without this `ViewsAgree`, which compares
  the two sides between calls, is not inductive. Nothing is claimed of a client that has
  misread an answer, except that its TEARDOWN is the only way to somebody else's ports.

- **ProxyProofs**, about the proxy and, in its second part, the media proxy of a session.
  Of the proxy (`ProxyAssumption`; any number of clients, requests, paths, servers):
  `ProxyTypeCorrect`. `AnswersAlwaysMatch`: the upstream connection holds the one request
  or answer its handler awaits, and while nothing is awaited and it is up, nothing
  (`OneAwaited`, `Quiet`); a connection is dialled once (`Fresh`, `Dialling`). `ClosedForGood`: a session that was swept between two requests has
  none and gets none any more (`Swept`), because its handler had started before
  (`Started`).
  Of a media proxy (any number of rounds): `MediaTypeCorrect`, `OneForwarder`,
  `ServedWhileRunning`, `SettledStopIsFinal`. `MediaInv` adds that Starts and Stops
  alternate, that every forwarder comes from a Start, and that during a settled Stop the
  flags still up are those it has yet to reach (`SettledStop`).
- **LoggerProofs** (`LoggerAssumption`; any number of goroutines, calls and seconds).
  `NothingIsLost`: `EntriesKept` is not inductive; while all are careful both
  descriptors are on the named files, and entries are there or in a file
  rotated no later than the latest rotation, so a rotation in a later second overwrites
  nothing (`KeptInv`). `AuditComesFirst`: a call past its audit entry has one on
  disk, or began before the audit file was last lost (`AuditInv`); no step forgets an
  event (lemma `EntriesKeepEvents`), and whatever takes the audit file away opens a `gap`
  for the calls at work (lemma `GapStep`).
- **AuthManagerProofs** (`AuthAssumption`; any number of callers, users and rules).
  `RequestsAddUp`: the count is inductive with the types it needs (`CountInv`).
  `DecisionsHold` has two halves. Who decides is inside the read lock and stays there, so
  rules, users and policy do not change under an answer that is being counted
  (`DecisionInv`). And the two loops sort: an exchange keeps the rules and lets the one at i
  lead one more (`ExchangeEffect`), hence a turn of the outer loop (`PassEffect`), hence
  both loops (`SortedEffect`), hence the first rule that applies is one no applicable rule
  outranks (`DecisionIsBest`). The induction is on sets of indices (`Induction`, from the
  least element of a set of naturals), since the library's takes an operator; the same
  gives the loops a value at every turn (`LoopExists`).
- **InterleavedProofs** (`WidthAssumption`, `MediaAssumption`, `TransportAssumption`; headers of any
  length over any values, channel numbers and frame lengths of any width, any packets). `ParsedNeverTCP` and
  `ParsedOneCast`: the first test shadows the third (lemma `FirstTestShadows`). The rest is
  about `MediaSpec` and comes from `MediaInv`. `HeadersRoundTrip`: while a printed header
  is being parsed, what has been read and what is still to come make up what was printed
  (`HeaderOK`), whatever the loop has done so far. `ChannelsDistinct`: calls that race can set
  the counter anywhere, but always to an even number; from the moment they no longer overlap
  each allocation lies one pair after the one before (`ManagerOK`), so two channels
  meet only when they lie a whole turn apart. `PacketsAlwaysAccepted`: the channels of every
  allocation are an even one and an odd one (`Fit`), races included, and the header carries
  them. `PacketsReceivedAsSent` and `FramesAlwaysRoundTrip` rest on
  lemmas about the codec: a set of bits and the value of the byte determine each other, a
  packet within its fields is decoded to itself (`CodecExact`), whatever is decoded is encoded
  to the bytes it came in (`CodecStable`), a frame is returned or makes the parser panic
  (`FrameOutcome`).
- **HealthCheckerProofs** (`CheckerAssumption`; any number of runners, any threshold):
  `ListenersReachable`, `AlwaysWatched`. A listener cannot leak because the
  port is free when it is bound, so at most one is open (`OneOpen`), and because the
  time between Listen and the assignment of `p.Listener` belongs to a listener
  that Stop does not close (`BoundIsOpen`).

- **MessageStreamProofs** (`BoundsAssumption`: any number of calls and of proxies in a row, any
  segmentation). `AnswersStayInStep`, `ShortReadsCostOneCall` and `EachTearCostsOneAnswer`,
  which is sharper than both: a call takes the answer of exactly as many calls before as Reads
  have ended right before a line's end. `AnswersInStep` says nothing of the bytes that are still
  to come; `StreamInv` does. The client's link holds a `Stream`: each unit is followed by what
  may follow it, a length by its whole body, and only the first message may lack its beginning.
  Hence a line reads as empty only at the end of a header, or at the front when a Read tore it
  (`HeaderOfStream`), and each return takes exactly one of the two (`Taking`) and leaves
  a stream (`WhatIsLeft`). The headers that are left are those of the calls from `Awaited` to
  `Delivered`, in this order (`Covers`): `Awaited` counts the calls that returned, less one for
  each torn line that was read as a message. Behind a proxy a client has at most one message to
  read (`OneMessage`), so although one Read may ask for more than the two units a shortened
  body has, it never reaches into the next answer. Above the client's link at most one answer is on its
  way, whole or shortened (`Upstream`, `WhatIsRelayed`).

Only model-checked: all liveness, which is outside the prover's reach, and `LiveExclusive` and
`TCPRecognised`, which do not hold.

## Disagreements between the code and what is said of it

Two are kept as runs above and in `PROJECT.json`: the cleanup that forgets live reservations
(`rtspProtocon/port_manager.go:210`, against the comment at line 199), and RTP/AVP/TCP, which
is never recognised (`rtspProtocon/protocol.go:261`, against `README.md:31` and `342`,
`tcp_examples.go:171` and `client/client.go:619`). The models show others too, as behaviours
rather than as runs:

- Stop between Start's Listen and its `Running = true` is overwritten, and the accept
  loop then spins on a closed listener (`server/server.go:78`,
  `proxy/proxy.go:163`). `StopEndsAcceptLoop` therefore starts from a running loop.
- A forwarder of the media proxy that is scheduled after Stop raises its `Running` flag
  and loops for ever (`proxy/media_proxy.go:183`, against the comment at line 129);
  hence the settled Stops of `SettledStopClears` and `SettledStopEnds`.
- While a proxy the checker has restarted runs, that runner checks nothing and the
  failure count stays at three or more (`proxy/health_checker.go:247`): "Proxy
  restarted successfully" is logged when the proxy goes down. If such a runner is the only
  one, a proxy whose flag is up on a closed listener stays so; `DownIsRestarted`
  is about the flag.
- A second TEARDOWN on a connection releases its old allocation again
  (`server/server.go:387`); when another session has the pair by then, a third gets
  it too. A client of this repository sends one only after it has misread an answer
  (`NoForeignRelease`).
- Once the policy is not the default, a CheckAccess that comes to the rules never returns
  (`proxy/auth_manager.go:232`, `247`), and after it no other call that takes the lock does.
- A connection lost without TEARDOWN keeps its ports and its session
  (`server/server.go:149`); a proxied client that goes leaves its upstream
  connection and media proxy (`proxy/proxy.go:230`, against `proxy/README.md:222`).
- A handler accepted before the proxy's Stop may register afterwards, and one
  that is dialling or finishing a PLAY while it is closed opens or starts what Close
  meant to end; hence `IdleCloseIsFinal` speaks of sessions between two requests.
- Requests after the first go to the first one's server whatever their path
  (`proxy/proxy.go:286`, against `proxy/README.md:88`).
- A body that one Read returns in part leaves its rest to be read as the next message
  (`client/client.go:392`, `server/server.go:175`, against "发送请求并接收响应",
  `client/client.go:343`): the next call fails, and if the Read ended right before a
  line's end, every later answer is taken by the call after the one it belongs to.
- ParseMessage keeps the first line of a body (`rtspProtocon/protocol.go:227`): a described
  SDP is its version line. A proxy sends that on under the Content-Length of the whole, so
  a DESCRIBE behind two proxies never returns.
- RotateLogs, SetLevel and an AuditEvent that cannot marshal its event log under the mutex
  they hold (`proxy/logger.go:433`, `385`, `213`): unless the level drops the entry, the
  caller and everybody after it waits for ever. Two rotations in a second overwrite
  each other (`logger.go:407`), and CleanupOldLogs removes an old file that is
  open (`logger.go:454`); hence `careful`.
- The CC and the payload type of an RTP packet run into their neighbours when they are too
  large, a version loses its upper bits (`rtspProtocon/rtp.go:65`, `68`); hence `PacketsAccepted` is about well-formed packets. Frames
  whose size is among the last four 16 bits can hold make the parser panic
  (`tcp_transport.go:109`).
- AllocateChannel has no lock (`rtspProtocon/tcp_transport.go:49`): calls that race share a pair
  or set the counter back; hence `NearbyDistinct` counts from where they no longer overlap.
- After a rotation that cannot reopen `audit.log` (`proxy/logger.go:427`), or a cleanup that
  removes it, events are logged that no audit file has; hence `gap`.
- No client URL with a path connects (`client/client.go:431`), PreAllocatePorts never returns
  (`port_manager.go:111`), a released channel number is not reused
  (`tcp_transport.go:55`, against `tcp_examples.go:82`).

## Plan

Done, in this order: PortPool and PortManager with their proofs; RTSPServer;
RTSPClient over it; Transport with proofs; MediaProxy with proofs; RTSPProxy; TCPTransport;
HealthChecker with proofs; AuthManager; MessageStream; Logger with proofs; RTPPacket and
Interleaved; proofs of RTSPServer, RTSPProxy and AuthManager's count; proofs of
RTSPClient, of Interleaved with Transport and RTPPacket, and of AuthManager's decisions;
proofs of MessageStream.

Then RTSPClient's answers out of step and the allocations of TCPTransport step by step, with
the proofs of both again.

To do: proofs about the proxy's sessions together with the media proxies they start, whose
flags `RTSPProxy` and `MediaProxy` model apart.

Not modelled by choice: SDP formatting and parsing (text without state of its own), the
configuration file (read once), media payloads and statistics (counters nothing decides
on), the logger's fallback without statistics, the proxy's connection pool and
`PortAllocationHistory` (unused), the examples.
