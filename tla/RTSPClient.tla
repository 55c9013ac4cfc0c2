----------------------------- MODULE RTSPClient -----------------------------
(***************************************************************************)
(* client/client.go talking to server/server.go: one RTSPClient per        *)
(* connection.  The client is synchronous (sendRequest writes, then blocks *)
(* in readResponse), so a call is two actions: the one that sends its      *)
(* request, and the one in which it takes an answer for its own.  That is  *)
(* whatever readResponse finds first: of the body of a DESCRIBE's answer   *)
(* it takes what one Read returns, and what it left comes before the next  *)
(* answer, or, if it ends in an empty line, instead of it (the bytes are   *)
(* in module MessageStream).  The calls may come in any order the checks   *)
(* at their head allow, of which StartSession (Connect, Options, Describe, *)
(* Setup, Play) is one.                                                    *)
(***************************************************************************)
EXTENDS RTSPServer, Sequences

CONSTANTS HostStream,  \* the stream that a ServerURL without a path names
          MaxTears     \* bound: Reads that leave a part of a body behind

ASSUME UrlAssumption == HostStream \in StreamIds
ASSUME TearsAssumption == MaxTears \in Nat

VARIABLES
  connected,     \* c.Connected
  sdp,           \* c.SDP is not nil
  session,       \* c.Session.ID, NoSession for nil
  sessionState,  \* c.Session.State
  call,          \* the call in progress, "none" between calls, "CLOSE" when
                 \* only the end of Disconnect is left
  late,          \* answers written and not yet read
  front,         \* what stands before them: the "rest" of a body, one that
                 \* starts with an empty "line", or nothing ("clean")
  tears,         \* history: Reads so far that left a part of a body
  heard          \* history: each call about a session took its own answer

stream == <<late, front, tears>>
client == <<connected, sdp, session, sessionState, call, stream, heard>>
allVars == <<vars, client>>

Quiet == {"OPTIONS", "DESCRIBE"}  \* they say nothing of a session
Calls == Quiet \cup {"SETUP", "PLAY", "PAUSE", "TEARDOWN", "DISCONNECT"}

(* What the calls look at in an answer: whether it is 200 OK, whether it    *)
(* announces a body, the session of one with a Transport header.           *)
Answers == [ok : BOOLEAN, body : BOOLEAN, session : Sessions \cup {NoSession}]
(* What ParseMessage makes of lines that do not start with an answer's.    *)
Garbled == [ok |-> FALSE, body |-> FALSE, session |-> NoSession]

ClientTypeOK ==
  /\ connected \in [Conns -> BOOLEAN]
  /\ sdp \in [Conns -> BOOLEAN]
  /\ session \in [Conns -> Sessions \cup {NoSession}]
  /\ sessionState \in [Conns -> SessionStates]
  /\ call \in [Conns -> Calls \cup {"none", "CLOSE"}]
  /\ late \in [Conns -> Seq(Answers)]
  /\ front \in [Conns -> {"clean", "rest", "line"}]
  /\ tears \in Nat
  /\ heard \in [Conns -> BOOLEAN]

ClientInit ==
  /\ Init
  /\ connected = [c \in Conns |-> FALSE]
  /\ sdp = [c \in Conns |-> FALSE]
  /\ session = [c \in Conns |-> NoSession]
  /\ sessionState = [c \in Conns |-> "Init"]
  /\ call = [c \in Conns |-> "none"]
  /\ late = [c \in Conns |-> <<>>]
  /\ front = [c \in Conns |-> "clean"]
  /\ tears = 0
  /\ heard = [c \in Conns |-> TRUE]

-----------------------------------------------------------------------------
(* parseURL hands all that follows the port's colon to Atoi, path included, *)
(* and leaves a path without a port in the host name: a client that          *)
(* connects has a URL without a path.                                       *)
Connect(c) ==
  /\ ~connected[c]
  /\ Accept(c)
  /\ connected' = [connected EXCEPT ![c] = TRUE]
  /\ UNCHANGED <<sdp, session, sessionState, call, stream, heard>>

(* Each call checks its own precondition, then sends its request.  One     *)
(* sent while the server is at work for this connection only queues.       *)
Begin(c, op, r) ==
  /\ connected[c] /\ call[c] = "none"
  /\ Send(c, r)
  /\ call' = [call EXCEPT ![c] = op]
  /\ UNCHANGED <<connected, sdp, session, sessionState, stream, heard>>

Options(c) == Begin(c, "OPTIONS", Plain("OPTIONS"))
(* A URL that connects has no path, and extractStreamName takes its host.  *)
DescribeStream(c) == Begin(c, "DESCRIBE", Describe(HostStream))
SetupStream(c) == sdp[c] /\ SetupsLeft /\ Begin(c, "SETUP", Setup(TRUE))
Play(c) == session[c] # NoSession /\ Begin(c, "PLAY", Control("PLAY", session[c]))
Pause(c) == session[c] # NoSession /\ Begin(c, "PAUSE", Control("PAUSE", session[c]))
Teardown(c) ==
  session[c] # NoSession /\ Begin(c, "TEARDOWN", Control("TEARDOWN", session[c]))

(* Disconnect tears a session down first, and closes the connection        *)
(* whatever came of it.                                                    *)
DisconnectTeardown(c) ==
  session[c] # NoSession /\ Begin(c, "DISCONNECT", Control("TEARDOWN", session[c]))

(* No call reads from a connection that is closed or known to be broken.   *)
Abandon(c) ==
  /\ late' = [late EXCEPT ![c] = <<>>]
  /\ front' = [front EXCEPT ![c] = "clean"]
  /\ UNCHANGED tears

DisconnectNow(c) ==
  /\ connected[c] /\ call[c] = "none"
  /\ session[c] = NoSession \/ wire[c] = "down"
  /\ connected' = [connected EXCEPT ![c] = FALSE]
  /\ IF wire[c] = "up" THEN Disconnect(c) ELSE UNCHANGED vars
  /\ Abandon(c)
  /\ UNCHANGED <<sdp, session, sessionState, call, heard>>

-----------------------------------------------------------------------------
(* What a call makes of the answer it takes: only SETUP looks for more     *)
(* than 200 OK, a Transport header, which answers to SETUP alone have.     *)
Accepted(c, a) == a.ok /\ (call[c] = "SETUP" => a.session # NoSession)

StateAfter(op, before) ==
  CASE op = "PLAY" -> "Playing"
    [] op \in {"SETUP", "PAUSE"} -> "Ready"
    [] op \in {"TEARDOWN", "DISCONNECT"} -> "Init"
    [] OTHER -> before

SessionAfter(op, before, a) ==
  CASE op = "SETUP" -> a.session
    [] op \in {"TEARDOWN", "DISCONNECT"} -> NoSession
    [] OTHER -> before

Absorb(c, a) ==
  IF Accepted(c, a)
  THEN /\ sdp' = [sdp EXCEPT ![c] = @ \/ call[c] = "DESCRIBE"]
       /\ session' = [session EXCEPT ![c] = SessionAfter(call[c], @, a)]
       /\ sessionState' = [sessionState EXCEPT ![c] = StateAfter(call[c], @)]
  ELSE UNCHANGED <<sdp, session, sessionState>>

(* The call is over; Disconnect still has to close the connection.         *)
Finish(c, own) ==
  /\ call' = [call EXCEPT ![c] = IF @ = "DISCONNECT" THEN "CLOSE" ELSE "none"]
  /\ heard' = [heard EXCEPT ![c] = @ /\ (own \/ call[c] \in Quiet)]
  /\ UNCHANGED connected

Answer(c) ==
  LET ok == response[c].status = 200
  IN [ok |-> ok, body |-> ok /\ request[c].method = "DESCRIBE",
      session |-> IF request[c].method = "SETUP" THEN response[c].session ELSE NoSession]

(* What one Read leaves in front of the next answer: of a body perhaps a   *)
(* part, which may start between \r and \n, or before them.                *)
Leaves(c, a, f) ==
  /\ f # "clean" => a.body /\ tears < MaxTears
  /\ front' = [front EXCEPT ![c] = f]
  /\ tears' = IF f = "clean" THEN tears ELSE tears + 1

(* readResponse up to the end of the answer a.                             *)
ReadAnswer(c, a) ==
  /\ Absorb(c, IF front[c] = "clean" THEN a ELSE Garbled)
  /\ \E f \in {"clean", "rest", "line"} : Leaves(c, a, f)

Calling(c) == call[c] \in Calls
Waiting(c) == Calling(c) /\ late[c] = <<>> /\ front[c] # "line"

(* The server writes its response and the client, waiting for it, reads it.*)
Return(c) ==
  /\ wire[c] = "up" /\ Waiting(c)
  /\ Reply(c)
  /\ ReadAnswer(c, Answer(c)) /\ Finish(c, front[c] = "clean")
  /\ UNCHANGED late

(* It reads the answer to an earlier request ...                           *)
ReturnLate(c) ==
  /\ Calling(c) /\ late[c] # <<>> /\ front[c] # "line"
  /\ ReadAnswer(c, Head(late[c])) /\ Finish(c, FALSE)
  /\ late' = [late EXCEPT ![c] = Tail(@)]
  /\ UNCHANGED vars

(* ... or an empty line, which is a message without a first line.          *)
ReturnEmpty(c) ==
  /\ Calling(c) /\ front[c] = "line"
  /\ Absorb(c, Garbled) /\ Finish(c, FALSE)
  /\ \E f \in {"clean", "rest"} : front' = [front EXCEPT ![c] = f]
  /\ UNCHANGED <<vars, late, tears>>

(* The server writes a response whose call has returned, or will take the  *)
(* one before.                                                             *)
ReplyLate(c) ==
  /\ wire[c] = "up" /\ connected[c] /\ ~Waiting(c)
  /\ Reply(c)
  /\ late' = [late EXCEPT ![c] = Append(@, Answer(c))]
  /\ UNCHANGED <<connected, sdp, session, sessionState, call, front, tears, heard>>

(* After its TEARDOWN, Disconnect closes the connection.                   *)
DisconnectClose(c) ==
  /\ call[c] = "CLOSE" /\ wire[c] = "up"
  /\ Disconnect(c)
  /\ connected' = [connected EXCEPT ![c] = FALSE]
  /\ call' = [call EXCEPT ![c] = "none"]
  /\ Abandon(c)
  /\ UNCHANGED <<sdp, session, sessionState, heard>>

(* The connection broke: the call returns an error and changes nothing.    *)
CallFails(c) ==
  /\ wire[c] = "down" /\ call[c] # "none"
  /\ connected' = [connected EXCEPT ![c] = @ /\ call[c] \notin {"DISCONNECT", "CLOSE"}]
  /\ call' = [call EXCEPT ![c] = "none"]
  /\ Abandon(c)
  /\ UNCHANGED <<vars, sdp, session, sessionState, heard>>

(* The server's side of the connection.                                    *)
ServerStep(c) ==
  /\ Serve(c)
  /\ ~(wire[c] = "up" /\ pc[c] = "replying")
  /\ UNCHANGED client

NetworkLoss(c) == Disconnect(c) /\ UNCHANGED client

ClientStep(c) ==
  \/ Options(c) \/ DescribeStream(c) \/ SetupStream(c)
  \/ Play(c) \/ Pause(c) \/ Teardown(c) \/ DisconnectTeardown(c) \/ DisconnectNow(c)

Progress(c) ==
  \/ Return(c) \/ ReturnLate(c) \/ ReturnEmpty(c) \/ ReplyLate(c)
  \/ DisconnectClose(c) \/ CallFails(c) \/ ServerStep(c)

StartServer == (Listen \/ EnterLoop) /\ UNCHANGED client

SystemNext ==
  \/ StartServer
  \/ \E c \in Conns : Connect(c) \/ ClientStep(c) \/ Progress(c)
  \/ \E c \in Conns : NetworkLoss(c)

SystemSpec == ClientInit /\ [][SystemNext]_allVars

(* A peer that is not this repository's client sends any request naming    *)
(* any session it may have heard of.                                       *)
Strangers(c) ==
  /\ ~connected[c]
  /\ Accept(c) \/ (\E r \in AnyRequest : Send(c, r)) \/ Reply(c)
  /\ UNCHANGED client

(* The same while the server is administered and stopped, with such peers.  *)
(* Both programs keep running; what the application calls is up to it.      *)
AdministeredNext ==
  \/ SystemNext
  \/ \E c \in Conns : Strangers(c)
  \/ Shutdown /\ UNCHANGED client
  \/ Embedding /\ UNCHANGED client

AdministeredSpec ==
  /\ ClientInit /\ [][AdministeredNext]_allVars
  /\ WF_allVars(EnterLoop /\ UNCHANGED client)
  /\ WF_allVars(AcceptFails /\ UNCHANGED client)
  /\ WF_allVars(StopClose /\ UNCHANGED client)
  /\ \A c \in Conns : WF_allVars(Progress(c))

-----------------------------------------------------------------------------
(* Between two calls, on a connection that never broke, a client that has a *)
(* session finds it registered and in the state it believes it to be in, as *)
(* long as every call about a session took its own answer.                  *)
ViewsAgree ==
  \A c \in Conns :
    (call[c] = "none" /\ wire[c] = "up" /\ session[c] # NoSession /\ heard[c])
      => session[c] \in registry /\ state[session[c]] = sessionState[c]

(* Between two calls, such a client has both ports it was granted, and they *)
(* are reserved for it alone: no other client's calls took them away, as    *)
(* long as all of them took their own answers too.                          *)
AllHeard == \A c \in Conns : heard[c]
GrantedPortsKept ==
  \A c \in Conns :
    (call[c] = "none" /\ wire[c] = "up" /\ session[c] # NoSession /\ AllHeard)
      => held[c] = session[c] /\ session[c] \in intact

(* A connection's reservation is dropped only while its own TEARDOWN is     *)
(* being handled, or by the TEARDOWN of a connection that has lost its own  *)
(* reservation: and for that some client must have missed an answer.        *)
NoForeignRelease ==
  [][\A c \in Conns :
       (held[c] \in intact /\ held'[c] \notin intact')
          => \/ request[c].method = "TEARDOWN"
             \/ ~AllHeard /\ \E d \in Conns : pc[d] = "releasing" /\ held[d] \notin intact]_allVars

(* Every call returns.                                                      *)
EveryCallReturns == \A c \in Conns : call[c] # "none" ~> call[c] = "none"
=============================================================================
