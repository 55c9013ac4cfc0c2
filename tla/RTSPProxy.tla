------------------------------ MODULE RTSPProxy ------------------------------
(***************************************************************************)
(* proxy/proxy.go: the accept loop, one goroutine per client connection    *)
(* with its own connection to an upstream server, and Stop.  SessionsMux   *)
(* is held for single accesses to the map of sessions, and by Stop while   *)
(* it closes every session in it, so registering and removing wait for it. *)
(* The media proxy of a session (module MediaProxy) is its Running flag.   *)
(***************************************************************************)
EXTENDS Naturals, Sequences

CONSTANTS Clients,      \* connections the listener may accept
          Paths,        \* paths a request URL may have
          Servers,      \* upstream servers
          NoServer,     \* no route; the nil UpstreamConn
          Routes,       \* UpstreamServers when the proxy starts
          Default,      \* where Routes keeps DefaultServer
          MaxRequests   \* bound: requests a client sends

ASSUME ProxyAssumption ==
  /\ NoServer \notin Servers
  /\ Default \notin Paths
  /\ Routes \in [Paths \cup {Default} -> Servers \cup {NoServer}]
  /\ MaxRequests \in Nat \ {0}

VARIABLES
  running,   \* p.Running
  listener,  \* "none", "open" or "closed"
  start,     \* where Start is: "idle", "listening", "accepting", "returned"
  stop,      \* where Stop is: "idle", "flagged", "unlisted", "closing", "returned"
  toClose,   \* the sessions its loop has still to close
  swept,     \* history: the sessions Stop has closed
  routes,    \* Config.UpstreamServers
  sessions,  \* keys of p.Sessions
  pc,        \* where the goroutine of each connection is
  wire,      \* the client's connection
  sent,      \* requests sent on it, which number them
  request,   \* the request being handled
  response,  \* the response being written
  target,    \* upstreamURL of the request being handled
  upstream,  \* the server UpstreamConn was dialled to, NoServer for nil
  link,      \* that connection
  asked,     \* requests forwarded over it and not yet answered, oldest first
  pipe,      \* answers in it that nobody has read, oldest first
  playing    \* MediaProxy.Running

loop == <<running, listener, start, stop, toClose, swept>>
clientSide == <<wire, sent, request, response>>
serverSide == <<target, upstream, link, asked, pipe, playing>>
vars == <<loop, routes, sessions, pc, clientSide, serverSide>>

Methods == {"PLAY", "OTHER"}
Requests == [id : 1..MaxRequests, path : Paths, method : Methods]
NoRequest == [id |-> 0]
NoResponse == [status |-> 0, for |-> 0]
Wires == {"none", "up", "down"}

TypeOK ==
  /\ running \in BOOLEAN
  /\ listener \in {"none", "open", "closed"}
  /\ start \in {"idle", "listening", "accepting", "returned"}
  /\ stop \in {"idle", "flagged", "unlisted", "closing", "returned"}
  /\ toClose \subseteq Clients /\ swept \subseteq Clients
  /\ sessions \subseteq Clients
  /\ routes \in [Paths \cup {Default} -> Servers \cup {NoServer}]
  /\ pc \in [Clients -> {"off", "registering", "reading", "dialing", "forwarding",
                         "awaiting", "answered", "replying", "removing", "closed"}]
  /\ wire \in [Clients -> Wires] /\ link \in [Clients -> Wires]
  /\ sent \in [Clients -> 0..MaxRequests]
  /\ request \in [Clients -> Requests \cup {NoRequest}]
  /\ response \in [Clients -> [status : {0, 200, 500}, for : 0..MaxRequests]]
  /\ target \in [Clients -> Servers \cup {NoServer}]
  /\ upstream \in [Clients -> Servers \cup {NoServer}]
  /\ asked \in [Clients -> Seq(1..MaxRequests)]
  /\ pipe \in [Clients -> Seq(1..MaxRequests)]
  /\ playing \in [Clients -> BOOLEAN]

Init ==
  /\ running = FALSE /\ listener = "none" /\ start = "idle" /\ stop = "idle"
  /\ toClose = {} /\ swept = {} /\ sessions = {} /\ routes = Routes
  /\ pc = [c \in Clients |-> "off"]
  /\ wire = [c \in Clients |-> "none"] /\ link = [c \in Clients |-> "none"]
  /\ sent = [c \in Clients |-> 0]
  /\ request = [c \in Clients |-> NoRequest]
  /\ response = [c \in Clients |-> NoResponse]
  /\ target = [c \in Clients |-> NoServer]
  /\ upstream = [c \in Clients |-> NoServer]
  /\ asked = [c \in Clients |-> <<>>] /\ pipe = [c \in Clients |-> <<>>]
  /\ playing = [c \in Clients |-> FALSE]

-----------------------------------------------------------------------------
(* Start; its loop tests Running only after Accept has returned.           *)
Listen ==
  /\ start = "idle"
  /\ start' = "listening" /\ listener' = "open"
  /\ UNCHANGED <<running, stop, toClose, swept, routes, sessions, pc, clientSide, serverSide>>

EnterLoop ==
  /\ start = "listening"
  /\ start' = "accepting" /\ running' = TRUE
  /\ UNCHANGED <<listener, stop, toClose, swept, routes, sessions, pc, clientSide,
                 serverSide>>

LoopAgain == start' = IF running THEN "accepting" ELSE "returned"

Accept(c) ==
  /\ start = "accepting" /\ listener = "open" /\ pc[c] = "off"
  /\ pc' = [pc EXCEPT ![c] = "registering"]
  /\ wire' = [wire EXCEPT ![c] = "up"]
  /\ LoopAgain
  /\ UNCHANGED <<running, listener, stop, toClose, swept, routes, sessions, sent, request,
                 response, serverSide>>

AcceptFails ==
  /\ start = "accepting" /\ listener = "closed"
  /\ LoopAgain
  /\ UNCHANGED <<running, listener, stop, toClose, swept, routes, sessions, pc, clientSide,
                 serverSide>>

-----------------------------------------------------------------------------
(* Stop, called once.                                                      *)
MuxFree == stop # "closing"
SetStop(label) == stop' = label /\ UNCHANGED <<start, routes, sessions, pc>>

StopFlag ==
  /\ stop = "idle" /\ start # "idle"
  /\ SetStop("flagged") /\ running' = FALSE
  /\ UNCHANGED <<listener, toClose, swept, clientSide, serverSide>>

StopListener ==
  /\ stop = "flagged"
  /\ SetStop("unlisted") /\ listener' = "closed"
  /\ UNCHANGED <<running, toClose, swept, clientSide, serverSide>>

StopLock ==
  /\ stop = "unlisted"
  /\ SetStop("closing") /\ toClose' = sessions
  /\ UNCHANGED <<running, listener, swept, clientSide, serverSide>>

CutOff(w) == IF w = "up" THEN "down" ELSE w

(* Mutant: Close leaves the upstream connection open. *)
CloseClientSideOnly(c) ==
  /\ stop = "closing" /\ c \in toClose
  /\ toClose' = toClose \ {c}
  /\ swept' = IF request[c] = NoRequest THEN swept \cup {c} ELSE swept
  /\ wire' = [wire EXCEPT ![c] = CutOff(@)]
  /\ playing' = [playing EXCEPT ![c] = FALSE]
  /\ UNCHANGED <<running, listener, start, stop, routes, sessions, pc, sent, request,
                 response, target, upstream, link, asked, pipe>>

(* Close of one session.  Its handler cannot remove it meanwhile, and what *)
(* else the handler may do between the three closes it may as well do      *)
(* before them or after.                                                   *)
StopClose(c) ==
  /\ stop = "closing" /\ c \in toClose
  /\ toClose' = toClose \ {c}
  /\ swept' = IF request[c] = NoRequest THEN swept \cup {c} ELSE swept
  /\ wire' = [wire EXCEPT ![c] = CutOff(@)]
  /\ link' = [link EXCEPT ![c] = CutOff(@)]
  /\ playing' = [playing EXCEPT ![c] = FALSE]
  /\ UNCHANGED <<running, listener, start, stop, routes, sessions, pc, sent, request,
                 response, target, upstream, asked, pipe>>

(* Mutant: Stop returns without giving SessionsMux back. *)
KeepLock == FALSE /\ UNCHANGED vars

StopUnlock ==
  /\ stop = "closing" /\ toClose = {}
  /\ SetStop("returned")
  /\ UNCHANGED <<running, listener, toClose, swept, clientSide, serverSide>>

-----------------------------------------------------------------------------
(* handleClientConnection and the loop of handleRTSPSession.               *)
Goto(c, label) == pc' = [pc EXCEPT ![c] = label]

Register(c) ==
  /\ pc[c] = "registering" /\ MuxFree
  /\ sessions' = sessions \cup {c}
  /\ Goto(c, "reading")
  /\ UNCHANGED <<loop, routes, clientSide, serverSide>>

Respond(c, status, id) ==
  /\ response' = [response EXCEPT ![c] = [status |-> status, for |-> id]]
  /\ Goto(c, "replying")

(* Any error of processRequest becomes a 500 for the request at hand.      *)
Fail(c) == Respond(c, 500, request[c].id)

(* resolveUpstreamServer: the route of the path, or the default server.    *)
Resolve(path) == IF routes[path] # NoServer THEN routes[path] ELSE routes[Default]

(* The request is read and its server resolved; a session that has an      *)
(* upstream connection keeps it, whatever server that is.                  *)
Handle(c) ==
  LET server == Resolve(request[c].path) IN
  /\ pc[c] = "reading" /\ request[c] # NoRequest
  /\ \/ server = NoServer /\ Fail(c)
     \/ /\ server # NoServer
        /\ Goto(c, IF upstream[c] = NoServer THEN "dialing" ELSE "forwarding")
        /\ UNCHANGED response
  /\ target' = [target EXCEPT ![c] = server]
  /\ UNCHANGED <<loop, routes, sessions, wire, sent, request, upstream, link, asked, pipe,
                 playing>>

(* DialTimeout answers with a connection, or with an error.                *)
Dial(c) ==
  /\ pc[c] = "dialing"
  /\ upstream' = [upstream EXCEPT ![c] = target[c]]
  /\ link' = [link EXCEPT ![c] = "up"]
  /\ Goto(c, "forwarding")
  /\ UNCHANGED <<loop, routes, sessions, clientSide, target, asked, pipe, playing>>

DialFails(c) ==
  /\ pc[c] = "dialing"
  /\ Fail(c)
  /\ UNCHANGED <<loop, routes, sessions, wire, sent, request, serverSide>>

Forward(c) ==
  /\ pc[c] = "forwarding" /\ link[c] = "up"
  /\ asked' = [asked EXCEPT ![c] = Append(@, request[c].id)]
  /\ Goto(c, "awaiting")
  /\ UNCHANGED <<loop, routes, sessions, clientSide, target, upstream, link, pipe, playing>>

(* Mutants: the read gives up while the answer may still come; the request *)
(* is tried again on the connection that is down.                          *)
RetryOnBroken(c) ==
  /\ pc[c] \in {"forwarding", "awaiting"} /\ link[c] = "down"
  /\ Goto(c, "forwarding")
  /\ UNCHANGED <<loop, routes, sessions, clientSide, serverSide>>
ReadTimesOut(c) ==
  /\ pc[c] \in {"forwarding", "awaiting"}
  /\ Fail(c)
  /\ UNCHANGED <<loop, routes, sessions, wire, sent, request, serverSide>>

(* Writing to or reading from an upstream connection that is down fails,   *)
(* and the session keeps that connection.                                  *)
UpstreamFails(c) ==
  /\ pc[c] \in {"forwarding", "awaiting"} /\ link[c] = "down"
  /\ Fail(c)
  /\ UNCHANGED <<loop, routes, sessions, wire, sent, request, serverSide>>

ReadAnswer(c) ==
  /\ pc[c] = "awaiting" /\ pipe[c] # <<>>
  /\ pipe' = [pipe EXCEPT ![c] = Tail(@)]
  /\ response' = [response EXCEPT ![c] = [status |-> 200, for |-> Head(pipe[c])]]
  /\ Goto(c, "answered")
  /\ UNCHANGED <<loop, routes, sessions, wire, sent, request, target, upstream, link, asked,
                 playing>>

(* A PLAY starts the media proxy, if it does not run yet.                  *)
Finish(c) ==
  /\ pc[c] = "answered"
  /\ playing' = [playing EXCEPT ![c] = @ \/ request[c].method = "PLAY"]
  /\ Goto(c, "replying")
  /\ UNCHANGED <<loop, routes, sessions, clientSide, target, upstream, link, asked, pipe>>

Reply(c) ==
  /\ pc[c] = "replying"
  /\ request' = [request EXCEPT ![c] = NoRequest]
  /\ response' = [response EXCEPT ![c] = NoResponse]
  /\ Goto(c, "reading")
  /\ UNCHANGED <<loop, routes, sessions, wire, sent, serverSide>>

Hangup(c) ==
  /\ wire[c] = "down" /\ pc[c] \in {"reading", "replying"}
  /\ request' = [request EXCEPT ![c] = NoRequest]
  /\ response' = [response EXCEPT ![c] = NoResponse]
  /\ Goto(c, "removing")
  /\ UNCHANGED <<loop, routes, sessions, wire, sent, serverSide>>

(* The session leaves the map and the client's connection is closed; the   *)
(* upstream connection and the media proxy are left as they are.           *)
Remove(c) ==
  /\ pc[c] = "removing" /\ MuxFree
  /\ sessions' = sessions \ {c}
  /\ Goto(c, "closed")
  /\ UNCHANGED <<loop, routes, clientSide, serverSide>>

Serve(c) ==
  \/ Register(c) \/ Handle(c) \/ Dial(c) \/ DialFails(c) \/ Forward(c) \/ UpstreamFails(c)
  \/ ReadAnswer(c) \/ Finish(c) \/ Reply(c) \/ Hangup(c) \/ Remove(c)

-----------------------------------------------------------------------------
(* The client waits for the response to each request it sends.             *)
Send(c) ==
  /\ pc[c] = "reading" /\ wire[c] = "up" /\ request[c] = NoRequest
  /\ sent[c] < MaxRequests
  /\ sent' = [sent EXCEPT ![c] = @ + 1]
  /\ \E path \in Paths, method \in Methods :
       request' = [request EXCEPT ![c] =
                     [id |-> sent[c] + 1, path |-> path, method |-> method]]
  /\ UNCHANGED <<loop, routes, sessions, pc, wire, response, serverSide>>

(* The client goes away, or sends bytes that do not parse.                 *)
ClientLeaves(c) ==
  /\ wire[c] = "up"
  /\ wire' = [wire EXCEPT ![c] = "down"]
  /\ UNCHANGED <<loop, routes, sessions, pc, sent, request, response, serverSide>>

(* The upstream server answers in order; or its connection is lost, what   *)
(* it has sent remaining readable.                                         *)
UpstreamAnswers(c) ==
  /\ link[c] = "up" /\ asked[c] # <<>>
  /\ pipe' = [pipe EXCEPT ![c] = Append(@, Head(asked[c]))]
  /\ asked' = [asked EXCEPT ![c] = Tail(@)]
  /\ UNCHANGED <<loop, routes, sessions, pc, clientSide, target, upstream, link, playing>>

UpstreamLeaves(c) ==
  /\ link[c] = "up"
  /\ link' = [link EXCEPT ![c] = "down"]
  /\ UNCHANGED <<loop, routes, sessions, pc, clientSide, target, upstream, asked, pipe,
                 playing>>

(* AddUpstreamServer, RemoveUpstreamServer and SetDefaultUpstreamServer    *)
(* write the configuration the handlers read, without a lock.              *)
SetRoute(path, server) ==
  /\ routes' = [routes EXCEPT ![path] = server]
  /\ UNCHANGED <<loop, sessions, pc, clientSide, serverSide>>

-----------------------------------------------------------------------------
Lifecycle ==
  \/ Listen \/ EnterLoop \/ AcceptFails
  \/ StopFlag \/ StopListener \/ StopLock \/ StopUnlock
  \/ \E c \in Clients : Accept(c) \/ StopClose(c)

Traffic ==
  \E c \in Clients : \/ Serve(c) \/ Send(c) \/ ClientLeaves(c)
                     \/ UpstreamAnswers(c) \/ UpstreamLeaves(c)

Reconfigure ==
  \E path \in Paths \cup {Default}, server \in Servers \cup {NoServer} : SetRoute(path, server)

Next == Lifecycle \/ Traffic \/ Reconfigure
Spec == Init /\ [][Next]_vars

(* Goroutines are scheduled, and upstream servers answer what they are     *)
(* asked or are lost: no read of this code gives up by itself.             *)
FairSpec ==
  /\ Spec
  /\ WF_vars(EnterLoop) /\ WF_vars(StopListener) /\ WF_vars(StopLock) /\ WF_vars(StopUnlock)
  /\ \A c \in Clients :
       WF_vars(StopClose(c)) /\ WF_vars(Serve(c)) /\ WF_vars(UpstreamAnswers(c))

-----------------------------------------------------------------------------
(* The response written to a client answers the request it waits for: no    *)
(* answer is left over in the upstream connection from an earlier one.      *)
AnswersMatch ==
  \A c \in Clients :
    pc[c] = "replying" => response[c].for = request[c].id

(* A session whose client is gone leaves the map, and Stop, which waits for *)
(* the same lock, does not keep it there: every handler ends.               *)
HandlersEnd == \A c \in Clients : wire[c] = "down" ~> pc[c] = "closed"

(* Every request is answered or its connection ends.                        *)
RequestsAnswered == \A c \in Clients : request[c] # NoRequest ~> request[c] = NoRequest

(* A session that Stop closed between two of its requests keeps no upstream *)
(* connection and no media proxy: its handler sets up neither any more.     *)
IdleCloseIsFinal == \A c \in swept : link[c] # "up" /\ ~playing[c]
=============================================================================
