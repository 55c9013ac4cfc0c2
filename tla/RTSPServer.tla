----------------------------- MODULE RTSPServer -----------------------------
(***************************************************************************)
(* server/server.go: the accept loop, one goroutine per connection, the    *)
(* registry of sessions they share and the PortManager behind them.  A     *)
(* handler is cut where it gives up a lock: SETUP registers its session,   *)
(* then asks for ports up to three times; PLAY and PAUSE look a session up *)
(* and update it afterwards; TEARDOWN removes the session, then releases.  *)
(* ParseTransport never yields a TCP transport (module Transport), so the  *)
(* interleaved branches of the handlers are not reached and not modelled.  *)
(***************************************************************************)
EXTENDS Integers, FiniteSets

CONSTANTS Conns,      \* connections the listener may accept
          StreamIds, DefaultStreams,  \* names of streams; those that main adds
                                      \* before Start, and the `test' of Start
          NoSession,  \* no Session header; the nil PortAllocation
          Sessions, MinPort, MaxPort, MaxRetries, InitialRange, NewRanges,
          NoAllocation, Free  \* see PortManager

VARIABLES used, range, due, mutex, phase, attempt, alloc, intact  \* PortManager
VARIABLES
  running,   \* s.Running
  listener,  \* "none", "open" or "closed"
  start,     \* where Start is: "idle", "listening", "accepting", "returned"
  stop,      \* where Stop is: "idle", "flagged", "returned"
  streams,   \* keys of s.Streams
  registry,  \* keys of s.Sessions
  state,     \* State of each *Session, which outlives its registry entry
  wire,      \* the TCP connection can still carry bytes
  pc,        \* where the goroutine of each connection is
  request,   \* the request being sent or handled
  response,  \* the response being written
  current,   \* client.Session.ID, and sessionID of the SETUP at work
  held       \* client.PortAllocation, named by the session it was made for

PM == INSTANCE PortManager

ports == <<used, range, due, mutex, phase, attempt, alloc, intact>>
loop == <<running, listener, start, stop>>
conn == <<wire, pc, request, response, current, held>>
vars == <<ports, loop, streams, registry, state, conn>>

ASSUME ServerAssumption ==
  NoSession \notin Sessions /\ DefaultStreams \subseteq StreamIds /\ StreamIds # {}

(* The assumptions of the port manager, about the server's constants.      *)
ASSUME PortManagerAssumption ==
  PM!PortsAssumption /\ PM!RangesAssumption /\ PM!RetriesAssumption /\ PM!NilAssumption

Methods == {"OPTIONS", "DESCRIBE", "SETUP", "PLAY", "PAUSE", "TEARDOWN", "OTHER"}
SessionStates == {"Init", "Ready", "Playing"}
Statuses == {200, 400, 404, 405, 503}

(* A request keeps what the handlers read: the Session header, whether     *)
(* there is a Transport header, the stream its URL names.  `dead' is a     *)
(* history field: the session it names was issued and is already gone.     *)
Requests == [method : Methods, session : Sessions \cup {NoSession},
             transport : BOOLEAN, stream : StreamIds, dead : BOOLEAN]
NoRequest == [method |-> "none"]
NoResponse == [status |-> 0, session |-> NoSession]

TypeOK ==
  /\ running \in BOOLEAN
  /\ listener \in {"none", "open", "closed"}
  /\ start \in {"idle", "listening", "accepting", "returned"}
  /\ stop \in {"idle", "flagged", "returned"}
  /\ streams \subseteq StreamIds
  /\ registry \subseteq Sessions
  /\ state \in [Sessions -> SessionStates]
  /\ wire \in [Conns -> {"none", "up", "down"}]
  /\ pc \in [Conns -> {"off", "reading", "allocating", "updating", "releasing",
                        "replying", "closed"}]
  /\ request \in [Conns -> Requests \cup {NoRequest}]
  /\ response \in [Conns -> [status : Statuses \cup {0},
                             session : Sessions \cup {NoSession}]]
  /\ current \in [Conns -> Sessions \cup {NoSession}]
  /\ held \in [Conns -> Sessions \cup {NoSession}]

Init ==
  /\ PM!Init
  /\ running = FALSE /\ listener = "none" /\ start = "idle" /\ stop = "idle"
  /\ streams = {} /\ registry = {}
  /\ state = [s \in Sessions |-> "Init"]
  /\ wire = [c \in Conns |-> "none"]
  /\ pc = [c \in Conns |-> "off"]
  /\ request = [c \in Conns |-> NoRequest]
  /\ response = [c \in Conns |-> NoResponse]
  /\ current = [c \in Conns |-> NoSession]
  /\ held = [c \in Conns |-> NoSession]

-----------------------------------------------------------------------------
(* Start and Stop; Running is read and written without a lock.             *)
Listen ==
  /\ start = "idle"
  /\ start' = "listening" /\ listener' = "open"
  /\ UNCHANGED <<running, stop, ports, streams, registry, state, conn>>

EnterLoop ==
  /\ start = "listening"
  /\ start' = "accepting" /\ running' = TRUE
  /\ streams' = streams \cup DefaultStreams
  /\ UNCHANGED <<listener, stop, ports, registry, state, conn>>

(* Mutant: the loop never tests Running. *)
LoopForEver == start' = "accepting"

(* The loop tests Running only after Accept has returned. *)
LoopAgain == start' = IF running THEN "accepting" ELSE "returned"

Accept(c) ==
  /\ start = "accepting" /\ listener = "open"
  /\ pc[c] = "off"
  /\ pc' = [pc EXCEPT ![c] = "reading"]
  /\ wire' = [wire EXCEPT ![c] = "up"]
  /\ LoopAgain
  /\ UNCHANGED <<running, listener, stop, ports, streams, registry, state,
                 request, response, current, held>>

AcceptFails ==
  /\ start = "accepting" /\ listener = "closed"
  /\ LoopAgain
  /\ UNCHANGED <<running, listener, stop, ports, streams, registry, state, conn>>

StopFlag ==
  /\ stop = "idle" /\ start # "idle"
  /\ stop' = "flagged" /\ running' = FALSE
  /\ UNCHANGED <<listener, start, ports, streams, registry, state, conn>>

StopClose ==
  /\ stop = "flagged"
  /\ stop' = "returned" /\ listener' = "closed"
  /\ UNCHANGED <<running, start, ports, streams, registry, state, conn>>

-----------------------------------------------------------------------------
(* The handlers of one connection. *)
Handling(c, method) == pc[c] = "reading" /\ request[c].method = method

Respond(c, status, session) ==
  /\ response' = [response EXCEPT ![c] = [status |-> status, session |-> session]]
  /\ pc' = [pc EXCEPT ![c] = "replying"]

Goto(c, label) == pc' = [pc EXCEPT ![c] = label] /\ UNCHANGED response

HandleOptions(c) ==
  /\ Handling(c, "OPTIONS")
  /\ Respond(c, 200, NoSession)
  /\ UNCHANGED <<ports, loop, streams, registry, state, wire, request, current, held>>

HandleDescribe(c) ==
  /\ Handling(c, "DESCRIBE")
  /\ Respond(c, IF request[c].stream \in streams THEN 200 ELSE 404, NoSession)
  /\ UNCHANGED <<ports, loop, streams, registry, state, wire, request, current, held>>

MethodNotAllowed(c) ==
  /\ Handling(c, "OTHER")
  /\ Respond(c, 405, NoSession)
  /\ UNCHANGED <<ports, loop, streams, registry, state, wire, request, current, held>>

SetupRejected(c) ==
  /\ Handling(c, "SETUP") /\ ~request[c].transport
  /\ Respond(c, 400, NoSession)
  /\ UNCHANGED <<ports, loop, streams, registry, state, wire, request, current, held>>

(* GenerateSessionID reads a clock that has moved since the last call.     *)
GenerateSessionID(id) == phase[id] = "idle"

(* A new session enters the registry before it has ports. *)
SetupRegister(c) ==
  /\ Handling(c, "SETUP") /\ request[c].transport
  /\ \E id \in Sessions :
       /\ GenerateSessionID(id) /\ PM!Ask(id)
       /\ registry' = registry \cup {id}
       /\ state' = [state EXCEPT ![id] = "Ready"]
       /\ current' = [current EXCEPT ![c] = id]
  /\ Goto(c, "allocating")
  /\ UNCHANGED <<loop, streams, wire, request, held>>

(* The connection keeps its latest allocation; mutant: its first.          *)
KeepFirstAllocation(c, id) ==
  /\ held' = [held EXCEPT ![c] = IF @ = NoSession THEN id ELSE @]
  /\ Respond(c, 200, id)
SetupGranted(c, id) ==
  /\ held' = [held EXCEPT ![c] = id]
  /\ Respond(c, 200, id)

(* After the last attempt SETUP fails; mutant: its error is dropped.       *)
DropError(c) == UNCHANGED <<held, pc, response>>
SetupRefused(c) == Respond(c, 503, NoSession) /\ UNCHANGED held

(* One attempt of AllocatePortsWithRetry; a refused session stays registered. *)
SetupAllocate(c) ==
  LET id == current[c] IN
  /\ pc[c] = "allocating"
  /\ PM!Attempt(id)
  /\ \/ phase'[id] = "live" /\ SetupGranted(c, id)
     \/ phase'[id] = "refused" /\ SetupRefused(c)
     \/ phase'[id] = "asking" /\ UNCHANGED <<held, pc, response>>
  /\ UNCHANGED <<loop, streams, registry, state, wire, request, current>>

(* Mutant: the registry is not consulted. *)
LookupUnchecked(c) ==
  LET id == request[c].session IN
  /\ Handling(c, "PLAY") \/ Handling(c, "PAUSE")
  /\ IF id = NoSession THEN Respond(c, 400, NoSession) ELSE Goto(c, "updating")
  /\ UNCHANGED <<ports, loop, streams, registry, state, wire, request, current, held>>

(* PLAY and PAUSE: the session is looked up under the read lock ...        *)
ControlLookup(c) ==
  LET id == request[c].session IN
  /\ Handling(c, "PLAY") \/ Handling(c, "PAUSE")
  /\ \/ id = NoSession /\ Respond(c, 400, NoSession)
     \/ id # NoSession /\ id \notin registry /\ Respond(c, 404, NoSession)
     \/ id \in registry /\ Goto(c, "updating")
  /\ UNCHANGED <<ports, loop, streams, registry, state, wire, request, current, held>>

(* Mutant: PAUSE leaves the session playing. *)
UpdateToPlaying(c) ==
  /\ pc[c] = "updating"
  /\ state' = [state EXCEPT ![request[c].session] = "Playing"]
  /\ Respond(c, 200, request[c].session)
  /\ UNCHANGED <<ports, loop, streams, registry, wire, request, current, held>>

(* ... and updated after it, even if it has left the registry meanwhile.   *)
ControlUpdate(c) ==
  LET id == request[c].session IN
  /\ pc[c] = "updating"
  /\ state' = [state EXCEPT ![id] =
                  IF request[c].method = "PLAY" THEN "Playing" ELSE "Ready"]
  /\ Respond(c, 200, id)
  /\ UNCHANGED <<ports, loop, streams, registry, wire, request, current, held>>

(* TEARDOWN removes the session its header names ...                       *)
TeardownRemove(c) ==
  LET id == request[c].session IN
  /\ Handling(c, "TEARDOWN")
  /\ registry' = registry \ {id}
  /\ \/ id = NoSession /\ Respond(c, 200, NoSession)
     \/ id # NoSession /\ Goto(c, "releasing")
  /\ UNCHANGED <<ports, loop, streams, state, wire, request, current, held>>

(* ... and releases the ports of the connection, keeping the pointer.      *)
TeardownRelease(c) ==
  /\ pc[c] = "releasing"
  /\ IF held[c] = NoSession THEN UNCHANGED ports ELSE PM!ReleasePorts(held[c])
  /\ Respond(c, 200, request[c].session)
  /\ UNCHANGED <<loop, streams, registry, state, wire, request, current, held>>

(* writeMessage, and the loop of handleClient goes back to reading.  A     *)
(* write to a connection that is going away may still succeed.             *)
Reply(c) ==
  /\ pc[c] = "replying"
  /\ pc' = [pc EXCEPT ![c] = "reading"]
  /\ request' = [request EXCEPT ![c] = NoRequest]
  /\ response' = [response EXCEPT ![c] = NoResponse]
  /\ UNCHANGED <<ports, loop, streams, registry, state, wire, current, held>>

(* A read or a write fails: the goroutine returns and cleans nothing up.   *)
Hangup(c) ==
  /\ wire[c] = "down" /\ pc[c] \in {"reading", "replying"}
  /\ pc' = [pc EXCEPT ![c] = "closed"]
  /\ request' = [request EXCEPT ![c] = NoRequest]
  /\ response' = [response EXCEPT ![c] = NoResponse]
  /\ UNCHANGED <<ports, loop, streams, registry, state, wire, current, held>>

Serve(c) ==
  \/ HandleOptions(c) \/ HandleDescribe(c) \/ MethodNotAllowed(c)
  \/ SetupRejected(c) \/ SetupRegister(c) \/ SetupAllocate(c)
  \/ ControlLookup(c) \/ ControlUpdate(c)
  \/ TeardownRemove(c) \/ TeardownRelease(c)
  \/ Reply(c) \/ Hangup(c)

-----------------------------------------------------------------------------
(* The peers.  One that pipelines requests only queues them, since a       *)
(* connection is served by one goroutine: one request at a time is general.*)
Send(c, r) ==
  /\ pc[c] = "reading" /\ wire[c] = "up" /\ request[c] = NoRequest
  /\ request' = [request EXCEPT ![c] = r]
  /\ UNCHANGED <<ports, loop, streams, registry, state, wire, pc, response, current,
                 held>>

Issued == {id \in Sessions : phase[id] # "idle"}

(* Bound: the SETUP requests of one behaviour do not outnumber Sessions.   *)
Pending == {c \in Conns : request[c].method = "SETUP" /\ pc[c] = "reading"}
SetupsLeft == Cardinality(Sessions \ Issued) > Cardinality(Pending)

Plain(method) == [method |-> method, session |-> NoSession, transport |-> FALSE,
                  stream |-> CHOOSE x \in StreamIds : TRUE, dead |-> FALSE]

Describe(x) == [Plain("DESCRIBE") EXCEPT !.stream = x]
Setup(hasTransport) == [Plain("SETUP") EXCEPT !.transport = hasTransport]
Control(method, id) ==
  [Plain(method) EXCEPT !.session = id, !.dead = id \in Issued \ registry]

(* Any request a peer may send, naming any session it may have heard of.   *)
AnyRequest ==
  {Plain("OPTIONS"), Plain("OTHER"), Setup(FALSE)}
    \cup {Describe(x) : x \in StreamIds}
    \cup (IF SetupsLeft THEN {Setup(TRUE)} ELSE {})
    \cup {Control(m, id) : m \in {"PLAY", "PAUSE", "TEARDOWN"},
                          id \in Issued \cup {NoSession}}

(* The peer goes away, or sends bytes that do not parse, which ends the    *)
(* connection just the same.                                               *)
Disconnect(c) ==
  /\ wire[c] = "up"
  /\ wire' = [wire EXCEPT ![c] = "down"]
  /\ UNCHANGED <<ports, loop, streams, registry, state, pc, request, response,
                 current, held>>

(* AddStream, RemoveStream, ForceReleasePort and SetPortRange, called by   *)
(* the program that embeds the server; five minutes passing.               *)
AddStream(x) ==
  /\ x \notin streams /\ streams' = streams \cup {x}
  /\ UNCHANGED <<ports, loop, registry, state, conn>>

RemoveStream(x) ==
  /\ x \in streams /\ streams' = streams \ {x}
  /\ UNCHANGED <<ports, loop, registry, state, conn>>

Administer ==
  /\ \/ \E port \in PM!Ports : PM!ForceReleasePort(port)
     \/ \E rtp, rtcp \in NewRanges : PM!SetPortRange(rtp, rtcp)
     \/ PM!CleanupFallsDue
  /\ UNCHANGED <<loop, streams, registry, state, conn>>

-----------------------------------------------------------------------------
Startup == Listen \/ EnterLoop \/ \E c \in Conns : Accept(c)
Shutdown == AcceptFails \/ StopFlag \/ StopClose

Traffic ==
  \E c \in Conns : Serve(c) \/ Disconnect(c) \/ \E r \in AnyRequest : Send(c, r)

Embedding ==
  \/ \E x \in StreamIds : AddStream(x) \/ RemoveStream(x)
  \/ Administer

Next == Startup \/ Shutdown \/ Traffic \/ Embedding

Spec == Init /\ [][Next]_vars

-----------------------------------------------------------------------------
(* The connections drive the port manager only through its operations, so   *)
(* what is proved of PortManager holds inside the server, whatever peers do.*)
UsesPortManager == PM!Spec

(* A session that had been torn down when a PLAY or PAUSE was sent is not   *)
(* acknowledged: removal is final, whichever connection asks.               *)
TornDownStaysDown ==
  \A c \in Conns :
    (pc[c] = "replying" /\ request[c].method \in {"PLAY", "PAUSE"} /\ request[c].dead)
      => response[c].status # 200

(* Stop ends the accept loop once that loop is running.                     *)
StopEndsAcceptLoop ==
  (start = "accepting" /\ ~running) ~> start = "returned"
=============================================================================
