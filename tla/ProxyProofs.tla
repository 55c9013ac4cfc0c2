---------------------------- MODULE ProxyProofs ----------------------------
(***************************************************************************)
(* Safety of the proxy for any number of clients, paths, servers and       *)
(* requests, under any changes of the routes; and of the media proxy of    *)
(* one of its sessions, for any number of rounds of Start and Stop.        *)
(***************************************************************************)
EXTENDS RTSPProxy, MediaProxy, TLAPS

USE ProxyAssumption

(* A handler between reading a request and replying has that request.       *)
Busy(c) == pc[c] \in {"dialing", "forwarding", "awaiting", "answered", "replying"}
BusyInv == \A c \in Clients : Busy(c) => request[c] # NoRequest

Responses == [status : {0, 200, 500}, for : 0..MaxRequests]

(* Changing a function at a point keeps its type.                           *)
LEMMA UpdateStays ==
  ASSUME NEW S, NEW T, NEW f \in [S -> T], NEW x \in S, NEW y \in T
  PROVE  [f EXCEPT ![x] = y] \in [S -> T]
OBVIOUS

(* What a queue with one element holds.                                     *)
LEMMA OneElement ==
  ASSUME NEW x, NEW s, s = <<x>>
  PROVE  s # <<>> /\ Head(s) = x /\ Tail(s) = <<>>
OBVIOUS

(* A path leads to a server or to none.                                     *)
LEMMA ResolvedServer ==
  ASSUME TypeOK, NEW path \in Paths
  PROVE  Resolve(path) \in Servers \cup {NoServer}
BY DEF TypeOK, Resolve

(* Every step keeps the types.                                              *)
LEMMA TypeStep ==
  ASSUME TypeOK, BusyInv, [Next]_vars
  PROVE  TypeOK'
<1> USE DEF TypeOK, Goto, Respond, Fail
<1>1. CASE Listen
  BY <1>1 DEF Listen, clientSide, serverSide
<1>2. CASE EnterLoop
  BY <1>2 DEF EnterLoop, clientSide, serverSide
<1>3. CASE AcceptFails
  BY <1>3 DEF AcceptFails, LoopAgain, clientSide, serverSide
<1>4. CASE StopFlag
  BY <1>4 DEF StopFlag, SetStop, clientSide, serverSide
<1>5. CASE StopListener
  BY <1>5 DEF StopListener, SetStop, clientSide, serverSide
<1>6. CASE StopLock
  BY <1>6 DEF StopLock, SetStop, clientSide, serverSide
<1>7. CASE StopUnlock
  BY <1>7 DEF StopUnlock, SetStop, clientSide, serverSide
<1>8. ASSUME NEW c \in Clients, Accept(c) PROVE TypeOK'
  BY <1>8 DEF Accept, LoopAgain, Wires, serverSide
<1>9. ASSUME NEW c \in Clients, StopClose(c) PROVE TypeOK'
  BY <1>9 DEF StopClose, CutOff, Wires
<1>10. ASSUME NEW c \in Clients, Serve(c) PROVE TypeOK'
  <2>1. CASE Register(c)
    BY <2>1 DEF Register, loop, clientSide, serverSide
  <2>2. CASE Remove(c)
    BY <2>2 DEF Remove, loop, clientSide, serverSide
  <2>3. CASE Hangup(c)
    BY <2>3 DEF Hangup, NoResponse, loop, serverSide
  <2>4. CASE Reply(c)
    BY <2>4 DEF Reply, NoResponse, loop, serverSide
  <2>5. request[c].id \in 0..MaxRequests
    BY DEF Requests, NoRequest
  <2>6. CASE Handle(c)
    <3>1. request[c].path \in Paths
      BY <2>6 DEF Handle, Requests
    <3>2. Resolve(request[c].path) \in Servers \cup {NoServer}
      BY <3>1, ResolvedServer
    <3>3. target' \in [Clients -> Servers \cup {NoServer}]
      BY <2>6, <3>2 DEF Handle
    <3>4. PICK label \in {"dialing", "forwarding", "replying"} : pc' = [pc EXCEPT ![c] = label]
      BY <2>6 DEF Handle
    <3>5. [status |-> 500, for |-> request[c].id] \in Responses
      BY <2>5 DEF Responses
    <3>6. PICK r \in Responses : response' = response \/ response' = [response EXCEPT ![c] = r]
      BY <2>6, <3>5 DEF Handle
    <3>7. response \in [Clients -> Responses]
      BY DEF Responses
    <3>8. response' \in [Clients -> Responses]
      <4>1. r \in Responses /\ c \in Clients
        OBVIOUS
      <4>2. [response EXCEPT ![c] = r] \in [Clients -> Responses]
        BY <3>7, <4>1, UpdateStays
      <4> QED
        BY <3>6, <3>7, <4>2
    <3> QED
      BY <2>6, <3>3, <3>4, <3>8 DEF Handle, loop, Responses
  <2>7. CASE DialFails(c)
    BY <2>5, <2>7 DEF DialFails, loop, serverSide
  <2>8. CASE UpstreamFails(c)
    BY <2>5, <2>8 DEF UpstreamFails, loop, serverSide
  <2>9. CASE Dial(c)
    BY <2>9 DEF Dial, loop, clientSide, Wires
  <2>10. CASE Forward(c)
    <3>1. request[c].id \in 1..MaxRequests
      BY <2>10 DEF Forward, BusyInv, Busy, Requests
    <3> QED
      BY <2>10, <3>1 DEF Forward, loop, clientSide
  <2>11. CASE ReadAnswer(c)
    <3>1. /\ Head(pipe[c]) \in 1..MaxRequests
          /\ Tail(pipe[c]) \in Seq(1..MaxRequests)
      BY <2>11 DEF ReadAnswer
    <3> QED
      BY <2>11, <3>1 DEF ReadAnswer, loop
  <2>12. CASE Finish(c)
    BY <2>12 DEF Finish, loop, clientSide
  <2> QED
    BY <1>10, <2>1, <2>2, <2>3, <2>4, <2>6, <2>7, <2>8, <2>9, <2>10, <2>11, <2>12 DEF Serve
<1>11. ASSUME NEW c \in Clients, Send(c) PROVE TypeOK'
  BY <1>11 DEF Send, Requests, loop, serverSide
<1>12. ASSUME NEW c \in Clients, ClientLeaves(c) PROVE TypeOK'
  BY <1>12 DEF ClientLeaves, Wires, loop, serverSide
<1>13. ASSUME NEW c \in Clients, UpstreamLeaves(c) PROVE TypeOK'
  BY <1>13 DEF UpstreamLeaves, Wires, loop, clientSide
<1>14. ASSUME NEW c \in Clients, UpstreamAnswers(c) PROVE TypeOK'
  <2>1. /\ Head(asked[c]) \in 1..MaxRequests
        /\ Tail(asked[c]) \in Seq(1..MaxRequests)
    BY <1>14 DEF UpstreamAnswers
  <2> QED
    BY <1>14, <2>1 DEF UpstreamAnswers, loop, clientSide
<1>15. ASSUME NEW path \in Paths \cup {Default}, NEW server \in Servers \cup {NoServer},
              SetRoute(path, server)
       PROVE  TypeOK'
  BY <1>15 DEF SetRoute, loop, clientSide, serverSide
<1>16. CASE UNCHANGED vars
  BY <1>16 DEF vars, loop, clientSide, serverSide
<1> QED
  BY <1>1, <1>2, <1>3, <1>4, <1>5, <1>6, <1>7, <1>8, <1>9, <1>10, <1>11, <1>12, <1>13,
     <1>14, <1>15, <1>16
     DEF Next, Lifecycle, Traffic, Reconfigure

(* A handler at work has a request.                                         *)
LEMMA BusyStep ==
  ASSUME TypeOK, BusyInv, [Next]_vars
  PROVE  BusyInv'
<1> SUFFICES ASSUME NEW d \in Clients, Busy(d)' PROVE (request[d] # NoRequest)'
  BY DEF BusyInv
<1> USE DEF TypeOK, Goto, Busy, BusyInv
<1>1. ASSUME NEW c \in Clients, Serve(c) PROVE (request[d] # NoRequest)'
  <2>1. CASE Register(c) \/ Remove(c)
    BY <2>1 DEF Register, Remove, clientSide
  <2>2. CASE Hangup(c) \/ Reply(c)
    <3>1. c # d
      BY <2>2 DEF Hangup, Reply
    <3>2. pc'[d] = pc[d] /\ request'[d] = request[d]
      BY <2>2, <3>1 DEF Hangup, Reply
    <3> QED
      BY <3>2
  <2>3. CASE Handle(c)
    BY <2>3 DEF Handle, Fail, Respond
  <2>4. CASE DialFails(c) \/ UpstreamFails(c)
    BY <2>4 DEF DialFails, UpstreamFails, Fail, Respond
  <2>5. CASE Dial(c) \/ Forward(c) \/ ReadAnswer(c) \/ Finish(c)
    BY <2>5 DEF Dial, Forward, ReadAnswer, Finish, clientSide
  <2> QED
    BY <1>1, <2>1, <2>2, <2>3, <2>4, <2>5 DEF Serve
<1>2. ASSUME NEW c \in Clients, Send(c) PROVE (request[d] # NoRequest)'
  BY <1>2 DEF Send
<1>3. ASSUME NEW c \in Clients, Accept(c) PROVE (request[d] # NoRequest)'
  BY <1>3 DEF Accept
<1>4. ASSUME pc' = pc, request' = request PROVE (request[d] # NoRequest)'
  BY <1>4
<1> QED
  BY <1>1, <1>2, <1>3, <1>4
     DEF Next, Lifecycle, Traffic, Reconfigure, Listen, EnterLoop, AcceptFails, StopFlag,
         StopListener, StopLock, StopUnlock, SetStop, StopClose, ClientLeaves, UpstreamLeaves,
         UpstreamAnswers, SetRoute, vars, clientSide

(* Types and requests are right at the start.                               *)
LEMMA TypeInit == Init => TypeOK /\ BusyInv
<1> SUFFICES ASSUME Init PROVE TypeOK /\ BusyInv
  OBVIOUS
<1>1. NoResponse \in [status : {0, 200, 500}, for : 0..MaxRequests]
  BY DEF NoResponse
<1>2. <<>> \in Seq(1..MaxRequests)
  OBVIOUS
<1>3. BusyInv
  BY DEF Init, BusyInv, Busy
<1>4. /\ asked \in [Clients -> Seq(1..MaxRequests)] /\ pipe \in [Clients -> Seq(1..MaxRequests)]
  BY <1>2 DEF Init
<1>5. response \in [Clients -> [status : {0, 200, 500}, for : 0..MaxRequests]]
  BY <1>1 DEF Init
<1>6. request \in [Clients -> Requests \cup {NoRequest}] /\ playing \in [Clients -> BOOLEAN]
  BY DEF Init
<1>7. /\ sent \in [Clients -> 0..MaxRequests]
      /\ wire \in [Clients -> Wires] /\ link \in [Clients -> Wires]
  BY DEF Init, Wires
<1> QED
  BY <1>3, <1>4, <1>5, <1>6, <1>7 DEF Init, TypeOK

(* Every variable keeps its type.                                           *)
THEOREM ProxyTypeCorrect == Spec => [](TypeOK /\ BusyInv)
<1>1. TypeOK /\ BusyInv /\ [Next]_vars => TypeOK' /\ BusyInv'
  BY TypeStep, BusyStep
<1> QED
  BY <1>1, TypeInit, PTL DEF Spec

-----------------------------------------------------------------------------
(* The upstream connection is dialled once, and carries at most the one     *)
(* request whose answer the handler awaits: when nothing is awaited and it  *)
(* is up, nothing is in it.  A connection that is down may keep an answer,  *)
(* which nobody will read, since nothing can be forwarded any more.         *)
Fresh(c) == upstream[c] = NoServer => link[c] = "none"
Undialled(c) == link[c] = "none" => asked[c] = <<>> /\ pipe[c] = <<>>
Quiet(c) == link[c] = "up" /\ pc[c] # "awaiting" => asked[c] = <<>> /\ pipe[c] = <<>>
Dialling(c) == pc[c] = "dialing" => upstream[c] = NoServer /\ target[c] # NoServer
OneAwaited(c) ==
  pc[c] = "awaiting" => \/ asked[c] = <<request[c].id>> /\ pipe[c] = <<>>
                        \/ asked[c] = <<>> /\ pipe[c] = <<request[c].id>>
Matching(c) == pc[c] \in {"answered", "replying"} => response[c].for = request[c].id

AnswerInv(c) ==
  Fresh(c) /\ Undialled(c) /\ Quiet(c) /\ Dialling(c) /\ OneAwaited(c) /\ Matching(c)

(* Every step keeps the two directions of a connection in step.             *)
LEMMA AnswerStep ==
  ASSUME TypeOK, BusyInv, [Next]_vars, NEW d \in Clients, AnswerInv(d)
  PROVE  AnswerInv(d)'
<1> USE DEF TypeOK, AnswerInv, Goto, Respond, Fail
<1>f. ASSUME pc'[d] = pc[d], response'[d] = response[d], upstream'[d] = upstream[d],
             target'[d] = target[d], link'[d] = link[d], asked'[d] = asked[d], pipe'[d] = pipe[d],
             request'[d] = request[d]
      PROVE  AnswerInv(d)'
  BY <1>f DEF Fresh, Undialled, Quiet, Dialling, OneAwaited, Matching
<1>1. CASE Register(d) \/ Remove(d)
  BY <1>1 DEF Register, Remove, clientSide, serverSide, Fresh, Undialled, Quiet, Dialling, OneAwaited, Matching
<1>2. CASE Hangup(d) \/ Reply(d)
  BY <1>2 DEF Hangup, Reply, serverSide, Fresh, Undialled, Quiet, Dialling, OneAwaited, Matching
<1>3. CASE Handle(d)
  BY <1>3 DEF Handle, Fresh, Undialled, Quiet, Dialling, OneAwaited, Matching
<1>4. CASE DialFails(d)
  BY <1>4 DEF DialFails, serverSide, Fresh, Undialled, Quiet, Dialling, OneAwaited, Matching
<1>5. CASE UpstreamFails(d)
  BY <1>5 DEF UpstreamFails, serverSide, Fresh, Undialled, Quiet, Dialling, OneAwaited, Matching
<1>6. CASE Dial(d)
  BY <1>6 DEF Dial, clientSide, Fresh, Undialled, Quiet, Dialling, OneAwaited, Matching
<1>7. CASE Forward(d)
  BY <1>7 DEF Forward, clientSide, Fresh, Undialled, Quiet, Dialling, OneAwaited, Matching
<1>8. CASE ReadAnswer(d)
  <2>1. /\ asked[d] = <<>> /\ Head(pipe[d]) = request[d].id /\ Tail(pipe[d]) = <<>>
        /\ link[d] # "none" /\ upstream[d] # NoServer
    <3>1. asked[d] = <<>> /\ pipe[d] = <<request[d].id>>
      BY <1>8 DEF ReadAnswer, OneAwaited
    <3>2. link[d] # "none" /\ upstream[d] # NoServer
      BY <3>1, OneElement DEF Undialled, Fresh
    <3> QED
      BY <3>1, <3>2, OneElement
  <2>2. /\ UNCHANGED <<upstream, link, asked, request, target>> /\ pipe'[d] = <<>>
        /\ pc'[d] = "answered" /\ response'[d].for = request[d].id
    BY <1>8, <2>1 DEF ReadAnswer
  <2> QED
    BY <2>1, <2>2 DEF Fresh, Undialled, Quiet, Dialling, OneAwaited, Matching
<1>9. CASE Finish(d)
  BY <1>9 DEF Finish, clientSide, Fresh, Undialled, Quiet, Dialling, OneAwaited, Matching
<1>10. CASE UpstreamAnswers(d)
  <2>1. /\ pc[d] = "awaiting" /\ pipe[d] = <<>>
        /\ Head(asked[d]) = request[d].id /\ Tail(asked[d]) = <<>>
    <3>1. pc[d] = "awaiting"
      BY <1>10 DEF UpstreamAnswers, Quiet
    <3>2. asked[d] = <<request[d].id>> /\ pipe[d] = <<>>
      BY <1>10, <3>1 DEF UpstreamAnswers, OneAwaited
    <3> QED
      BY <3>1, <3>2, OneElement
  <2>2. Append(pipe[d], Head(asked[d])) = <<request[d].id>>
    BY <2>1
  <2>3. /\ UNCHANGED <<upstream, link, pc, request, target, response>>
        /\ asked'[d] = <<>> /\ pipe'[d] = <<request[d].id>>
    BY <1>10, <2>1, <2>2 DEF UpstreamAnswers, clientSide
  <2> QED
    BY <1>10, <2>1, <2>3
       DEF UpstreamAnswers, Fresh, Undialled, Quiet, Dialling, OneAwaited, Matching
<1>11. CASE UpstreamLeaves(d)
  BY <1>11 DEF UpstreamLeaves, clientSide, Fresh, Undialled, Quiet, Dialling, OneAwaited, Matching
<1>12. CASE StopClose(d)
  BY <1>12 DEF StopClose, CutOff, Wires, Fresh, Undialled, Quiet, Dialling, OneAwaited, Matching
<1>13. CASE Accept(d)
  BY <1>13 DEF Accept, serverSide, Fresh, Undialled, Quiet, Dialling, OneAwaited, Matching
<1>14. CASE Send(d)
  BY <1>14 DEF Send, serverSide, Fresh, Undialled, Quiet, Dialling, OneAwaited, Matching
<1>15. CASE ClientLeaves(d)
  BY <1>f, <1>15 DEF ClientLeaves, serverSide
<1>16. ASSUME NEW c \in Clients, c # d, Serve(c) PROVE AnswerInv(d)'
  <2>1. CASE Register(c) \/ Remove(c) \/ Hangup(c) \/ Reply(c)
    BY <1>f, <1>16, <2>1 DEF Register, Remove, Hangup, Reply, clientSide, serverSide
  <2>2. CASE Handle(c)
    BY <1>f, <1>16, <2>2 DEF Handle
  <2>3. CASE DialFails(c) \/ UpstreamFails(c)
    BY <1>f, <1>16, <2>3 DEF DialFails, UpstreamFails, serverSide
  <2>4. CASE Dial(c) \/ Forward(c) \/ ReadAnswer(c) \/ Finish(c)
    BY <1>f, <1>16, <2>4 DEF Dial, Forward, ReadAnswer, Finish, clientSide
  <2> QED
    BY <1>16, <2>1, <2>2, <2>3, <2>4 DEF Serve
<1>17. ASSUME NEW c \in Clients, c # d,
              \/ UpstreamAnswers(c) \/ UpstreamLeaves(c) \/ StopClose(c)
              \/ Accept(c) \/ Send(c) \/ ClientLeaves(c)
       PROVE  AnswerInv(d)'
  <2>1. CASE UpstreamAnswers(c) \/ UpstreamLeaves(c) \/ StopClose(c)
    BY <1>f, <1>17, <2>1 DEF UpstreamAnswers, UpstreamLeaves, StopClose, clientSide
  <2>2. CASE Accept(c) \/ Send(c) \/ ClientLeaves(c)
    BY <1>f, <1>17, <2>2 DEF Accept, Send, ClientLeaves, serverSide
  <2> QED
    BY <1>17, <2>1, <2>2
<1>18. CASE UNCHANGED <<pc, clientSide, serverSide>>
  BY <1>f, <1>18 DEF clientSide, serverSide
<1>19. \/ \E c \in Clients : \/ Serve(c) \/ UpstreamAnswers(c) \/ UpstreamLeaves(c)
                            \/ StopClose(c) \/ Accept(c) \/ Send(c) \/ ClientLeaves(c)
       \/ UNCHANGED <<pc, clientSide, serverSide>>
  BY DEF Next, Lifecycle, Traffic, Reconfigure, Listen, EnterLoop, AcceptFails, StopFlag,
     StopListener, StopLock, StopUnlock, SetStop, SetRoute, vars
<1> QED
  BY <1>1, <1>2, <1>3, <1>4, <1>5, <1>6, <1>7, <1>8, <1>9, <1>10, <1>11, <1>12, <1>13,
     <1>14, <1>15, <1>16, <1>17, <1>18, <1>19 DEF Serve

(* No connection has traffic at the start.                                  *)
LEMMA AnswerInit == Init => \A c \in Clients : AnswerInv(c)
BY DEF Init, AnswerInv, Fresh, Undialled, Quiet, Dialling, OneAwaited, Matching

(* Hence both directions always are in step.                                *)
LEMMA AnswerAlways == Spec => [](TypeOK /\ BusyInv /\ \A c \in Clients : AnswerInv(c))
<1>1. TypeOK /\ BusyInv /\ (\A c \in Clients : AnswerInv(c)) /\ [Next]_vars
        => (\A c \in Clients : AnswerInv(c))'
  BY AnswerStep
<1> QED
  BY <1>1, AnswerInit, ProxyTypeCorrect, PTL DEF Spec

(* The response written to a client answers its own request.                *)
THEOREM AnswersAlwaysMatch == Spec => []AnswersMatch
<1>1. (\A c \in Clients : AnswerInv(c)) => AnswersMatch
  BY DEF AnswersMatch, AnswerInv, Matching
<1> QED
  BY <1>1, AnswerAlways, PTL

-----------------------------------------------------------------------------
(* A session Stop closed between two requests has no request and, with its  *)
(* client cut off, gets none any more; its handler has started for good.    *)
Started(c) == c \in sessions \cup toClose \cup swept => pc[c] \notin {"off", "registering"}
Swept(c) == c \in swept => /\ request[c] = NoRequest /\ wire[c] # "up"
                           /\ link[c] # "up" /\ ~playing[c]
CloseInv(c) == Started(c) /\ Swept(c)

(* Every step keeps what a Close between two requests achieved.             *)
LEMMA CloseStep ==
  ASSUME TypeOK, BusyInv, [Next]_vars, NEW d \in Clients, CloseInv(d)
  PROVE  CloseInv(d)'
<1> USE DEF TypeOK, CloseInv, Started, Swept, Goto, Respond, Fail
<1>1. CASE Register(d) \/ Remove(d)
  BY <1>1 DEF Register, Remove, loop, clientSide, serverSide
<1>2. CASE Hangup(d) \/ Reply(d)
  BY <1>2 DEF Hangup, Reply, loop, serverSide
<1>3. CASE Handle(d)
  BY <1>3 DEF Handle, loop
<1>4. CASE DialFails(d) \/ UpstreamFails(d)
  BY <1>4 DEF DialFails, UpstreamFails, loop, serverSide
<1>5. ASSUME Dial(d) \/ Forward(d) \/ ReadAnswer(d) \/ Finish(d) PROVE CloseInv(d)'
  <2>1. request[d] # NoRequest
    BY <1>5 DEF Dial, Forward, ReadAnswer, Finish, BusyInv, Busy
  <2>2. d \notin swept /\ d \notin swept'
    BY <1>5, <2>1 DEF Dial, Forward, ReadAnswer, Finish, loop
  <2> QED
    BY <1>5, <2>2 DEF Dial, Forward, ReadAnswer, Finish, loop
<1>6. CASE UpstreamAnswers(d) \/ UpstreamLeaves(d)
  BY <1>6 DEF UpstreamAnswers, UpstreamLeaves, loop, clientSide
<1>7. CASE StopClose(d)
  BY <1>7 DEF StopClose, CutOff, Wires
<1>8. CASE Accept(d)
  BY <1>8 DEF Accept, serverSide
<1>9. CASE Send(d) \/ ClientLeaves(d)
  BY <1>9 DEF Send, ClientLeaves, loop, serverSide
<1>10. CASE StopLock
  BY <1>10 DEF StopLock, SetStop, clientSide, serverSide
<1>f. ASSUME d \in sessions' => d \in sessions, d \in toClose' => d \in toClose,
             d \in swept' => d \in swept, pc'[d] = pc[d], request'[d] = request[d],
             wire'[d] = wire[d], link'[d] = link[d], playing'[d] = playing[d]
      PROVE  CloseInv(d)'
  BY <1>f
<1>11. ASSUME NEW c \in Clients, c # d, Serve(c) PROVE CloseInv(d)'
  <2>1. CASE Register(c) \/ Remove(c) \/ Hangup(c) \/ Reply(c)
    BY <1>f, <1>11, <2>1 DEF Register, Remove, Hangup, Reply, loop, clientSide, serverSide
  <2>2. CASE Handle(c)
    BY <1>f, <1>11, <2>2 DEF Handle, loop
  <2>3. CASE DialFails(c) \/ UpstreamFails(c)
    BY <1>f, <1>11, <2>3 DEF DialFails, UpstreamFails, loop, serverSide
  <2>4. CASE Dial(c) \/ Forward(c) \/ ReadAnswer(c) \/ Finish(c)
    BY <1>f, <1>11, <2>4 DEF Dial, Forward, ReadAnswer, Finish, loop, clientSide
  <2> QED
    BY <1>11, <2>1, <2>2, <2>3, <2>4 DEF Serve
<1>12. ASSUME NEW c \in Clients, c # d,
              \/ UpstreamAnswers(c) \/ UpstreamLeaves(c) \/ StopClose(c)
              \/ Accept(c) \/ Send(c) \/ ClientLeaves(c)
       PROVE  CloseInv(d)'
  <2>1. CASE UpstreamAnswers(c) \/ UpstreamLeaves(c) \/ StopClose(c)
    BY <1>f, <1>12, <2>1 DEF UpstreamAnswers, UpstreamLeaves, StopClose, loop, clientSide
  <2>2. CASE Accept(c) \/ Send(c) \/ ClientLeaves(c)
    BY <1>f, <1>12, <2>2 DEF Accept, Send, ClientLeaves, loop, serverSide
  <2> QED
    BY <1>12, <2>1, <2>2
<1>13. CASE UNCHANGED <<sessions, toClose, swept, pc, clientSide, serverSide>>
  BY <1>f, <1>13 DEF clientSide, serverSide
<1>14. \/ \E c \in Clients : \/ Serve(c) \/ UpstreamAnswers(c) \/ UpstreamLeaves(c)
                            \/ StopClose(c) \/ Accept(c) \/ Send(c) \/ ClientLeaves(c)
       \/ StopLock
       \/ UNCHANGED <<sessions, toClose, swept, pc, clientSide, serverSide>>
  BY DEF Next, Lifecycle, Traffic, Reconfigure, Listen, EnterLoop, AcceptFails, StopFlag,
     StopListener, StopUnlock, SetStop, SetRoute, vars, loop
<1> QED
  BY <1>1, <1>2, <1>3, <1>4, <1>5, <1>6, <1>7, <1>8, <1>9, <1>10, <1>11, <1>12, <1>13, <1>14
     DEF Serve

(* A session that Stop closed between two requests keeps nothing open.      *)
THEOREM ClosedForGood == Spec => []IdleCloseIsFinal
<1>1. Init => \A c \in Clients : CloseInv(c)
  BY DEF Init, CloseInv, Started, Swept
<1>2. TypeOK /\ BusyInv /\ (\A c \in Clients : CloseInv(c)) /\ [Next]_vars
        => (\A c \in Clients : CloseInv(c))'
  BY CloseStep
<1>3. TypeOK /\ (\A c \in Clients : CloseInv(c)) => IdleCloseIsFinal
  BY DEF IdleCloseIsFinal, CloseInv, Swept, TypeOK
<1> QED
  BY <1>1, <1>2, <1>3, ProxyTypeCorrect, PTL DEF Spec
-----------------------------------------------------------------------------
(* The media proxy of one session.                                         *)

(* Starts and Stops alternate, and every forwarder comes from a Start.     *)
Alternate ==
  /\ starts = stops + (IF mediaRunning THEN 1 ELSE 0)
  /\ mediaRunning => stopping = "none"
FromStarts == \A k \in Streams : Pending(k) + looping[k] <= starts

(* The streams whose flag the Stop in progress is still going to lower.    *)
StillToLower(k) ==
  \/ stopping = "rtp"
  \/ stopping = "rtcp" /\ k \in {"rtcp", "tcp"}
  \/ stopping = "tcp" /\ k = "tcp"
SettledStop ==
  (settled /\ ~mediaRunning)
    => \A k \in Streams : Pending(k) = 0 /\ (flag[k] => StillToLower(k))

MediaInv == MediaTypeOK /\ Alternate /\ FromStarts /\ RunningIsServed /\ SettledStop

USE DEF Streams, Modes

(* Every stream belongs to a mode.                                          *)
LEMMA ModeOfStream == ASSUME NEW k \in Streams PROVE ModeOf(k) \in Modes
BY DEF ModeOf

(* The number of goroutines on their way is a number.                       *)
LEMMA PendingNat == ASSUME MediaTypeOK, NEW k \in Streams PROVE Pending(k) \in Nat
BY ModeOfStream DEF MediaTypeOK, Pending

(* The invariant holds at the start.                                        *)
LEMMA MediaInvInit == MediaInit => MediaInv
<1> SUFFICES ASSUME MediaInit PROVE MediaInv
  OBVIOUS
<1> USE DEF MediaInit
<1>1. MediaTypeOK
  BY DEF MediaTypeOK
<1>2. \A k \in Streams : Pending(k) = 0
  BY DEF Pending, ModeOf
<1>3. Alternate /\ FromStarts
  BY <1>2 DEF Alternate, FromStarts
<1>4. RunningIsServed /\ SettledStop
  BY <1>2 DEF RunningIsServed, SettledStop
<1> QED
  BY <1>1, <1>3, <1>4 DEF MediaInv

(* Every step keeps the types.                                              *)
LEMMA MediaTypeStep == MediaTypeOK /\ [MediaNext]_mediaVars => MediaTypeOK'
<1> SUFFICES ASSUME MediaTypeOK, [MediaNext]_mediaVars PROVE MediaTypeOK'
  OBVIOUS
<1> USE DEF MediaTypeOK
<1>1. CASE Start
  BY <1>1 DEF Start, Spawn
<1>2. CASE Stop
  <2>1. settled' \in BOOLEAN
    BY <1>2 DEF Stop
  <2>2. /\ mediaRunning' = FALSE /\ stopping' = "rtp" /\ stops' = stops + 1
        /\ transport' = transport /\ carried' = carried /\ flag' = flag
        /\ launching' = launching /\ entering' = entering /\ looping' = looping
        /\ starts' = starts
    BY <1>2 DEF Stop, goroutines
  <2>3. mediaRunning' \in BOOLEAN /\ stopping' \in Streams \cup {"none"}
    BY <2>2, Zenon
  <2>4. /\ transport' \in Modes /\ carried' \in Modes
        /\ flag' \in [Streams -> BOOLEAN] /\ launching' \in [Modes -> Nat]
        /\ entering' \in [Streams -> Nat] /\ looping' \in [Streams -> Nat]
    BY <2>2, Zenon
  <2>5. starts' \in Nat /\ stops' \in Nat
    BY <2>2
  <2> QED
    BY <2>1, <2>3, <2>4, <2>5, Zenon
<1>3. CASE StopStream
  BY <1>3 DEF StopStream, After, goroutines, history
<1>4. ASSUME NEW mode \in Modes, SetTransportMode(mode) PROVE MediaTypeOK'
  BY <1>4 DEF SetTransportMode, goroutines, history
<1>5. ASSUME NEW mode \in Modes, Launch(mode) PROVE MediaTypeOK'
  BY <1>5 DEF Launch, history
<1>6. ASSUME NEW k \in Streams, Enter(k) PROVE MediaTypeOK'
  BY <1>6 DEF Enter, history
<1>7. ASSUME NEW k \in Streams, Leave(k) PROVE MediaTypeOK'
  BY <1>7 DEF Leave, history
<1>8. CASE UNCHANGED mediaVars
  BY <1>8 DEF mediaVars, goroutines, history
<1> QED
  BY <1>1, <1>2, <1>3, <1>4, <1>5, <1>6, <1>7, <1>8 DEF MediaNext

(* Every step keeps the invariant ...                                       *)
LEMMA MediaInvStep == MediaInv /\ [MediaNext]_mediaVars => MediaInv'
<1> SUFFICES ASSUME MediaInv, [MediaNext]_mediaVars PROVE MediaInv'
  OBVIOUS
<1>0. MediaTypeOK /\ MediaTypeOK'
  BY MediaTypeStep DEF MediaInv
<1>p. \A k \in Streams : Pending(k) \in Nat
  BY <1>0, PendingNat
<1> USE DEF Alternate, FromStarts, RunningIsServed, SettledStop, Pending, ModeOf
<1>1. CASE Start
  BY <1>0, <1>p, <1>1 DEF MediaInv, MediaTypeOK, Start, Spawn, StillToLower
<1>2. CASE Stop
  BY <1>0, <1>p, <1>2 DEF MediaInv, MediaTypeOK, Stop, goroutines, StillToLower
<1>3. CASE StopStream
  <2>1. ~mediaRunning /\ ~mediaRunning'
    BY <1>3 DEF MediaInv, StopStream
  <2>2. \A k \in Streams : Pending(k)' = Pending(k)
    BY <1>3 DEF StopStream, goroutines
  <2>3. Alternate' /\ FromStarts' /\ RunningIsServed'
    BY <1>3, <2>1 DEF MediaInv, StopStream, goroutines, history
  <2>4. ASSUME NEW k \in Streams, flag'[k], StillToLower(k) PROVE StillToLower(k)'
    BY <1>0, <1>3, <2>4 DEF MediaTypeOK, StopStream, StillToLower, After
  <2>5. ASSUME NEW k \in Streams, flag'[k] PROVE flag[k]
    BY <1>0, <1>3, <2>5 DEF MediaTypeOK, StopStream
  <2> QED
    BY <1>0, <1>3, <2>1, <2>2, <2>3, <2>4, <2>5 DEF MediaInv, StopStream, history
<1>4. ASSUME NEW mode \in Modes, SetTransportMode(mode) PROVE MediaInv'
  BY <1>0, <1>4 DEF MediaInv, SetTransportMode, goroutines, history, StillToLower
<1>5. ASSUME NEW mode \in Modes, Launch(mode) PROVE MediaInv'
  <2>1. \A k \in Streams : Pending(k)' = Pending(k)
    BY <1>0, <1>5 DEF MediaTypeOK, Launch
  <2> QED
    BY <1>0, <1>5, <2>1 DEF MediaInv, Launch, history, StillToLower
<1>6. ASSUME NEW k \in Streams, Enter(k) PROVE MediaInv'
  <2>1. \A i \in Streams : Pending(i)' + looping'[i] = Pending(i) + looping[i]
    BY <1>0, <1>6 DEF MediaTypeOK, Enter
  <2>2. ~(settled /\ ~mediaRunning)
    BY <1>0, <1>6 DEF MediaInv, MediaTypeOK, Enter
  <2>3. RunningIsServed'
    BY <1>0, <1>6 DEF MediaInv, MediaTypeOK, Enter, history
  <2> QED
    BY <1>0, <1>6, <2>1, <2>2, <2>3 DEF MediaInv, Enter, history
<1>7. ASSUME NEW k \in Streams, Leave(k) PROVE MediaInv'
  BY <1>0, <1>p, <1>7 DEF MediaInv, MediaTypeOK, Leave, history, StillToLower
<1>8. CASE UNCHANGED mediaVars
  BY <1>0, <1>8 DEF MediaInv, mediaVars, goroutines, history, StillToLower
<1> QED
  BY <1>1, <1>2, <1>3, <1>4, <1>5, <1>6, <1>7, <1>8 DEF MediaNext

(* ... hence it always holds.                                               *)
LEMMA AlwaysMediaInv == MediaSpec => []MediaInv
BY MediaInvInit, MediaInvStep, PTL DEF MediaSpec

(* The variables keep their types in every round.                          *)
THEOREM MediaTypeCorrect == MediaSpec => []MediaTypeOK
<1>1. MediaInv => MediaTypeOK
  BY DEF MediaInv
<1> QED
  BY <1>1, AlwaysMediaInv, PTL

(* A stream has no more forwarders than Stops so far and one: startRTPProxy *)
(* never runs twice in one round, however often PLAY is repeated.           *)
THEOREM OneForwarder == MediaSpec => []OneForwarderPerStop
<1>1. MediaInv => OneForwarderPerStop
  BY PendingNat DEF MediaInv, MediaTypeOK, Alternate, FromStarts, OneForwarderPerStop
<1> QED
  BY <1>1, AlwaysMediaInv, PTL

(* A running proxy is served: no earlier Stop lowers a flag of this round   *)
(* for good.                                                                *)
THEOREM ServedWhileRunning == MediaSpec => []RunningIsServed
<1>1. MediaInv => RunningIsServed
  BY DEF MediaInv
<1> QED
  BY <1>1, AlwaysMediaInv, PTL

(* A Stop that met no unstarted goroutine leaves every flag lowered.        *)
THEOREM SettledStopIsFinal == MediaSpec => []SettledStopClears
<1>1. MediaInv => SettledStopClears
  BY DEF MediaInv, SettledStop, SettledStopClears, StillToLower
<1> QED
  BY <1>1, AlwaysMediaInv, PTL
=============================================================================
