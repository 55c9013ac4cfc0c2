---------------------------- MODULE RTSPProofs ----------------------------
(***************************************************************************)
(* Safety of the server for any number of connections, sessions, ports and *)
(* streams, whatever peers send and however the server is administered;    *)
(* and of this package's clients, whose calls run into each other there.   *)
(***************************************************************************)
EXTENDS RTSPClient, SequenceTheorems, TLAPS

USE ServerAssumption

Labels == {"off", "reading", "allocating", "updating", "releasing", "replying", "closed"}
Responses == [status : Statuses \cup {0}, session : Sessions \cup {NoSession}]

(* Changing a function at a point keeps its type.                           *)
LEMMA UpdateStays ==
  ASSUME NEW S, NEW T, NEW f \in [S -> T], NEW x \in S, NEW y \in T
  PROVE  [f EXCEPT ![x] = y] \in [S -> T]
OBVIOUS

(* What a handler is at work on.                                            *)
AtWork(c) ==
  /\ pc[c] = "allocating" => current[c] \in Sessions /\ request[c].method = "SETUP"
  /\ pc[c] = "updating" => /\ request[c] \in Requests /\ request[c].session \in Sessions
                           /\ request[c].method \in {"PLAY", "PAUSE"}
  /\ pc[c] = "releasing" => /\ request[c] \in Requests /\ request[c].session \in Sessions
                            /\ request[c].method = "TEARDOWN"
PhaseType == phase \in [Sessions -> PM!Phases]
ServerInv == TypeOK /\ PhaseType /\ \A c \in Conns : AtWork(c)

-----------------------------------------------------------------------------
(* The steps of the server that touch the port manager.                     *)
LEMMA PortSteps ==
  ASSUME ServerInv, [Next]_vars
  PROVE  \/ \E s \in Sessions : \/ phase[s] = "idle" /\ PM!Ask(s)
                               \/ PM!Attempt(s) \/ PM!ReleasePorts(s)
         \/ phase' = phase
<1> USE DEF ServerInv, TypeOK
<1>1. ASSUME NEW c \in Conns, SetupRegister(c)
      PROVE  \E s \in Sessions : phase[s] = "idle" /\ PM!Ask(s)
  BY <1>1 DEF SetupRegister, GenerateSessionID
<1>2. ASSUME NEW c \in Conns, SetupAllocate(c)
      PROVE  \E s \in Sessions : PM!Attempt(s)
  BY <1>2 DEF SetupAllocate, AtWork
<1>3. ASSUME NEW c \in Conns, TeardownRelease(c)
      PROVE  (\E s \in Sessions : PM!ReleasePorts(s)) \/ phase' = phase
  BY <1>3 DEF TeardownRelease, ports
<1>4. CASE Administer
  BY <1>4 DEF Administer, PM!ForceReleasePort, PM!SetPortRange, PM!CleanupFallsDue, PM!callers
<1>5. ASSUME NEW c \in Conns, Serve(c), ~SetupRegister(c), ~SetupAllocate(c), ~TeardownRelease(c)
      PROVE  phase' = phase
  BY <1>5 DEF Serve, HandleOptions, HandleDescribe, MethodNotAllowed, SetupRejected, ControlLookup,
     ControlUpdate, TeardownRemove, Reply, Hangup, ports
<1>6. ASSUME NEW c \in Conns, Disconnect(c) \/ Accept(c) PROVE phase' = phase
  BY <1>6 DEF Disconnect, Accept, ports
<1>7. ASSUME NEW c \in Conns, NEW r, Send(c, r) PROVE phase' = phase
  BY <1>7 DEF Send, ports
<1>8. ASSUME NEW x, AddStream(x) \/ RemoveStream(x) PROVE phase' = phase
  BY <1>8 DEF AddStream, RemoveStream, ports
<1>9. CASE Listen \/ EnterLoop \/ Shutdown \/ UNCHANGED vars
  BY <1>9 DEF Listen, EnterLoop, Shutdown, AcceptFails, StopFlag, StopClose, ports, vars
<1> QED
  BY <1>1, <1>2, <1>3, <1>4, <1>5, <1>6, <1>7, <1>8, <1>9
     DEF Next, Startup, Traffic, Embedding

(* A session that was issued stays so, and ports once granted are at most   *)
(* released.                                                                *)
LEMMA PhaseStep ==
  ASSUME ServerInv, [Next]_vars
  PROVE  /\ PhaseType'
         /\ \A s \in Sessions : phase[s] # "idle" => phase'[s] # "idle"
         /\ \A s \in Sessions :
              phase[s] \in {"live", "released"} => phase'[s] \in {"live", "released"}
<1> USE DEF ServerInv, PhaseType, PM!Phases
<1>1. ASSUME NEW s \in Sessions, NEW p \in PM!Phases \ {"idle"}, phase' = [phase EXCEPT ![s] = p],
             phase[s] \in {"live", "released"} => p \in {"live", "released"}
      PROVE  /\ PhaseType'
             /\ \A t \in Sessions : phase[t] # "idle" => phase'[t] # "idle"
             /\ \A t \in Sessions :
                  phase[t] \in {"live", "released"} => phase'[t] \in {"live", "released"}
  BY <1>1
<1>2. ASSUME NEW s \in Sessions, phase[s] = "idle", PM!Ask(s)
      PROVE  phase' = [phase EXCEPT ![s] = "asking"]
  BY <1>2 DEF PM!Ask
<1>3. ASSUME NEW s \in Sessions, PM!Attempt(s)
      PROVE  /\ phase[s] = "asking"
             /\ \E p \in {"live", "refused", "asking"} : phase' = [phase EXCEPT ![s] = p]
  BY <1>3 DEF PM!Attempt, PM!Granted, PM!Denied
<1>4. ASSUME NEW s \in Sessions, PM!ReleasePorts(s)
      PROVE  phase' = [phase EXCEPT ![s] = "released"]
  BY <1>4 DEF PM!ReleasePorts
<1>5. CASE phase' = phase
  BY <1>5
<1> QED
  BY <1>1, <1>2, <1>3, <1>4, <1>5, PortSteps

-----------------------------------------------------------------------------
(* Every step keeps the types.                                              *)
LEMMA TypeStep ==
  ASSUME ServerInv, [Next]_vars
  PROVE  TypeOK'
<1> USE DEF ServerInv, TypeOK
<1>r. ASSUME NEW c \in Conns, NEW status \in Statuses, NEW id \in Sessions \cup {NoSession},
             Respond(c, status, id)
      PROVE  pc' \in [Conns -> Labels] /\ response' \in [Conns -> Responses]
  <2>1. [status |-> status, session |-> id] \in Responses
    BY DEF Responses
  <2>2. response \in [Conns -> Responses] /\ pc \in [Conns -> Labels] /\ "replying" \in Labels
    BY DEF Responses, Labels
  <2>3. [response EXCEPT ![c] = [status |-> status, session |-> id]] \in [Conns -> Responses]
    BY <2>1, <2>2, UpdateStays
  <2>4. [pc EXCEPT ![c] = "replying"] \in [Conns -> Labels]
    BY <2>2, UpdateStays
  <2> QED
    BY <1>r, <2>3, <2>4 DEF Respond
<1>g. ASSUME NEW c \in Conns, NEW label \in Labels, Goto(c, label)
      PROVE  pc' \in [Conns -> Labels] /\ response' \in [Conns -> Responses]
  BY <1>g DEF Goto, Labels, Responses
<1>n. NoResponse \in Responses /\ Statuses = {200, 400, 404, 405, 503}
  BY DEF NoResponse, Responses, Statuses
<1>1. CASE Listen \/ EnterLoop
  BY <1>1 DEF Listen, EnterLoop, conn
<1>2. CASE Shutdown
  BY <1>2 DEF Shutdown, AcceptFails, StopFlag, StopClose, LoopAgain, conn
<1>3. ASSUME NEW c \in Conns, Accept(c) PROVE TypeOK'
  BY <1>3 DEF Accept, LoopAgain
<1>4. ASSUME NEW c \in Conns, HandleOptions(c) \/ MethodNotAllowed(c) \/ SetupRejected(c)
      PROVE  TypeOK'
  <2>1. pc' \in [Conns -> Labels] /\ response' \in [Conns -> Responses]
    BY <1>4, <1>r, <1>n DEF HandleOptions, MethodNotAllowed, SetupRejected
  <2> QED
    BY <1>4, <2>1 DEF HandleOptions, MethodNotAllowed, SetupRejected, loop, Labels, Responses
<1>5. ASSUME NEW c \in Conns, HandleDescribe(c) PROVE TypeOK'
  <2>1. pc' \in [Conns -> Labels] /\ response' \in [Conns -> Responses]
    BY <1>5, <1>r, <1>n DEF HandleDescribe
  <2> QED
    BY <1>5, <2>1 DEF HandleDescribe, loop, Labels, Responses
<1>6. ASSUME NEW c \in Conns, SetupRegister(c) PROVE TypeOK'
  <2>1. pc' \in [Conns -> Labels] /\ response' \in [Conns -> Responses]
    BY <1>6, <1>g DEF SetupRegister, Labels
  <2>2. PICK id \in Sessions : /\ registry' = registry \cup {id}
                              /\ state' = [state EXCEPT ![id] = "Ready"]
                              /\ current' = [current EXCEPT ![c] = id]
    BY <1>6 DEF SetupRegister
  <2>3. /\ registry' \subseteq Sessions
        /\ state' \in [Sessions -> SessionStates]
        /\ current' \in [Conns -> Sessions \cup {NoSession}]
    BY <2>2 DEF SessionStates
  <2> QED
    BY <1>6, <2>1, <2>3 DEF SetupRegister, loop, Labels, Responses
<1>7. ASSUME NEW c \in Conns, SetupAllocate(c) PROVE TypeOK'
  <2>1. current[c] \in Sessions
    BY <1>7 DEF SetupAllocate, AtWork
  <2>2. pc' \in [Conns -> Labels] /\ response' \in [Conns -> Responses]
    BY <1>7, <1>r, <1>n, <2>1
       DEF SetupAllocate, SetupGranted, SetupRefused, Labels, Responses
  <2>3. held' \in [Conns -> Sessions \cup {NoSession}]
    BY <1>7, <2>1 DEF SetupAllocate, SetupGranted, SetupRefused
  <2> QED
    BY <1>7, <2>2, <2>3 DEF SetupAllocate, loop, Labels, Responses
<1>8. ASSUME NEW c \in Conns, ControlLookup(c) PROVE TypeOK'
  <2>1. pc' \in [Conns -> Labels] /\ response' \in [Conns -> Responses]
    BY <1>8, <1>r, <1>g, <1>n DEF ControlLookup, Labels
  <2> QED
    BY <1>8, <2>1 DEF ControlLookup, loop, Labels, Responses
<1>9. ASSUME NEW c \in Conns, ControlUpdate(c) PROVE TypeOK'
  <2>1. request[c].session \in Sessions
    BY <1>9 DEF ControlUpdate, AtWork
  <2>2. pc' \in [Conns -> Labels] /\ response' \in [Conns -> Responses]
    BY <1>9, <1>r, <1>n, <2>1 DEF ControlUpdate
  <2>3. state' \in [Sessions -> SessionStates]
    BY <1>9, <2>1 DEF ControlUpdate, SessionStates
  <2> QED
    BY <1>9, <2>2, <2>3 DEF ControlUpdate, loop, Labels, Responses
<1>10. ASSUME NEW c \in Conns, TeardownRemove(c) PROVE TypeOK'
  <2>1. pc' \in [Conns -> Labels] /\ response' \in [Conns -> Responses]
    BY <1>10, <1>r, <1>g, <1>n DEF TeardownRemove, Labels
  <2> QED
    BY <1>10, <2>1 DEF TeardownRemove, loop, Labels, Responses
<1>11. ASSUME NEW c \in Conns, TeardownRelease(c) PROVE TypeOK'
  <2>1. request[c].session \in Sessions
    BY <1>11 DEF TeardownRelease, AtWork
  <2>2. pc' \in [Conns -> Labels] /\ response' \in [Conns -> Responses]
    BY <1>11, <1>r, <1>n, <2>1 DEF TeardownRelease
  <2> QED
    BY <1>11, <2>2 DEF TeardownRelease, loop, Labels, Responses
<1>12. ASSUME NEW c \in Conns, Reply(c) \/ Hangup(c) PROVE TypeOK'
  <2>1. pc' \in [Conns -> Labels]
    BY <1>12 DEF Reply, Hangup, Labels
  <2>2. response \in [Conns -> Responses]
    BY DEF Responses
  <2>3. response' \in [Conns -> Responses]
    BY <1>12, <1>n, <2>2, UpdateStays DEF Reply, Hangup
  <2>4. request' \in [Conns -> Requests \cup {NoRequest}]
    BY <1>12 DEF Reply, Hangup
  <2> QED
    BY <1>12, <2>1, <2>3, <2>4 DEF Reply, Hangup, loop, Labels, Responses
<1>13. ASSUME NEW c \in Conns, NEW r \in AnyRequest, Send(c, r) PROVE TypeOK'
  <2>1. (CHOOSE x \in StreamIds : TRUE) \in StreamIds
    OBVIOUS
  <2>2. \A m \in Methods : Plain(m) \in Requests
    BY <2>1 DEF Plain, Requests
  <2>3. r \in Requests
    <3>1. \A t \in BOOLEAN : Setup(t) \in Requests
      BY <2>2 DEF Setup, Requests, Methods
    <3>2. \A x \in StreamIds : Describe(x) \in Requests
      BY <2>2 DEF Describe, Requests, Methods
    <3>3. \A m \in Methods, id \in Sessions \cup {NoSession}, d \in BOOLEAN :
            [Plain(m) EXCEPT !.session = id, !.dead = d] \in Requests
      BY <2>1 DEF Plain, Requests
    <3>4. \A id : (id \in Issued \ registry) \in BOOLEAN
      OBVIOUS
    <3>5. \A m \in Methods, id \in Sessions \cup {NoSession} : Control(m, id) \in Requests
      BY <3>3, <3>4 DEF Control
    <3>6. /\ {"OPTIONS", "OTHER", "PLAY", "PAUSE", "TEARDOWN"} \subseteq Methods
          /\ Issued \subseteq Sessions
      BY DEF Methods, Issued
    <3> DEFINE plain == {Plain("OPTIONS"), Plain("OTHER"), Setup(FALSE)}
               more == IF SetupsLeft THEN {Setup(TRUE)} ELSE {}
               controls == {Control(m, id) : m \in {"PLAY", "PAUSE", "TEARDOWN"},
                                             id \in Issued \cup {NoSession}}
               describes == {Describe(x) : x \in StreamIds}
    <3>7. AnyRequest = plain \cup describes \cup more \cup controls
      BY DEF AnyRequest
    <3>8. CASE r \in plain
      BY <2>2, <3>1, <3>6, <3>8
    <3>9. CASE r \in describes
      BY <3>2, <3>9
    <3>10. CASE r \in more
      BY <3>1, <3>10
    <3>11. CASE r \in controls
      BY <3>5, <3>6, <3>11
    <3> HIDE DEF plain, describes, more, controls
    <3> QED
      BY <1>13, <3>7, <3>8, <3>9, <3>10, <3>11
  <2>4. request' \in [Conns -> Requests \cup {NoRequest}]
    BY <1>13, <2>3 DEF Send
  <2> QED
    BY <1>13, <2>4 DEF Send, loop
<1>14. ASSUME NEW c \in Conns, Disconnect(c) PROVE TypeOK'
  BY <1>14 DEF Disconnect, loop
<1>15. CASE Embedding
  BY <1>15 DEF Embedding, AddStream, RemoveStream, Administer, loop, conn
<1>16. CASE UNCHANGED vars
  BY <1>16 DEF vars, loop, conn
<1> QED
  BY <1>1, <1>2, <1>3, <1>4, <1>5, <1>6, <1>7, <1>8, <1>9, <1>10, <1>11, <1>12, <1>13, <1>14,
     <1>15, <1>16
     DEF Next, Startup, Traffic, Serve

(* Steps of one connection leave what another is at work on alone.          *)
LEMMA WorkStep ==
  ASSUME ServerInv, [Next]_vars, NEW d \in Conns
  PROVE  AtWork(d)'
<1> USE DEF ServerInv, TypeOK, AtWork
<1>f. ASSUME pc'[d] = pc[d], request'[d] = request[d], current'[d] = current[d]
      PROVE  AtWork(d)'
  BY <1>f
<1>1. ASSUME pc'[d] \notin {"allocating", "updating", "releasing"} PROVE AtWork(d)'
  BY <1>1
<1>2. ASSUME NEW c \in Conns, NEW label, pc' = [pc EXCEPT ![c] = label], UNCHANGED <<request, current>>,
             label \notin {"allocating", "updating", "releasing"}
      PROVE  AtWork(d)'
  BY <1>f, <1>1, <1>2
<1>3. ASSUME NEW c \in Conns,
             HandleOptions(c) \/ HandleDescribe(c) \/ MethodNotAllowed(c) \/ SetupRejected(c)
      PROVE  AtWork(d)'
  BY <1>2, <1>3 DEF HandleOptions, HandleDescribe, MethodNotAllowed, SetupRejected, Respond
<1>4. ASSUME NEW c \in Conns, SetupRegister(c) PROVE AtWork(d)'
  <2>1. PICK id \in Sessions : current' = [current EXCEPT ![c] = id]
    BY <1>4 DEF SetupRegister
  <2>2. pc' = [pc EXCEPT ![c] = "allocating"] /\ request' = request /\ request[c].method = "SETUP"
    BY <1>4 DEF SetupRegister, Goto, Handling
  <2> QED
    BY <2>1, <2>2
<1>5. ASSUME NEW c \in Conns, SetupAllocate(c) PROVE AtWork(d)'
  <2>1. \/ pc' = [pc EXCEPT ![c] = "replying"]
        \/ pc' = pc
    BY <1>5 DEF SetupAllocate, SetupGranted, SetupRefused, Respond
  <2>2. UNCHANGED <<request, current>>
    BY <1>5 DEF SetupAllocate
  <2> QED
    BY <1>f, <1>2, <2>1, <2>2
<1>6. ASSUME NEW c \in Conns, ControlLookup(c) PROVE AtWork(d)'
  <2>1. \/ pc' = [pc EXCEPT ![c] = "replying"]
        \/ /\ pc' = [pc EXCEPT ![c] = "updating"] /\ request[c].session \in Sessions
           /\ request[c] \in Requests /\ request[c].method \in {"PLAY", "PAUSE"}
    BY <1>6 DEF ControlLookup, Respond, Goto, Handling, NoRequest
  <2>2. UNCHANGED <<request, current>>
    BY <1>6 DEF ControlLookup
  <2> QED
    BY <1>2, <2>1, <2>2
<1>7. ASSUME NEW c \in Conns, TeardownRemove(c) PROVE AtWork(d)'
  <2>1. request[c] \in Requests /\ request[c].method = "TEARDOWN"
    BY <1>7 DEF TeardownRemove, Handling, NoRequest
  <2>2. request[c].session \in Sessions \cup {NoSession}
    BY <2>1 DEF Requests
  <2>3. \/ pc' = [pc EXCEPT ![c] = "replying"]
        \/ pc' = [pc EXCEPT ![c] = "releasing"] /\ request[c].session \in Sessions
    BY <1>7, <2>2 DEF TeardownRemove, Respond, Goto
  <2>4. UNCHANGED <<request, current>>
    BY <1>7 DEF TeardownRemove
  <2> QED
    BY <1>2, <2>1, <2>3, <2>4
<1>8. ASSUME NEW c \in Conns, ControlUpdate(c) \/ TeardownRelease(c) PROVE AtWork(d)'
  BY <1>2, <1>8 DEF ControlUpdate, TeardownRelease, Respond
<1>9. ASSUME NEW c \in Conns, Reply(c) \/ Hangup(c) PROVE AtWork(d)'
  <2>1. CASE c = d
    BY <1>1, <1>9, <2>1 DEF Reply, Hangup
  <2>2. CASE c # d
    BY <1>f, <1>9, <2>2 DEF Reply, Hangup
  <2> QED
    BY <2>1, <2>2
<1>10. ASSUME NEW c \in Conns, NEW r, Send(c, r) PROVE AtWork(d)'
  <2>1. CASE c = d
    BY <1>1, <1>10, <2>1 DEF Send
  <2>2. CASE c # d
    BY <1>f, <1>10, <2>2 DEF Send
  <2> QED
    BY <2>1, <2>2
<1>11. ASSUME NEW c \in Conns, Accept(c) PROVE AtWork(d)'
  BY <1>2, <1>11 DEF Accept
<1>12. ASSUME NEW c \in Conns, Disconnect(c) PROVE AtWork(d)'
  BY <1>f, <1>12 DEF Disconnect
<1>13. CASE Listen \/ EnterLoop \/ Shutdown \/ Embedding \/ UNCHANGED vars
  <2>1. UNCHANGED conn
    BY <1>13 DEF Listen, EnterLoop, Shutdown, AcceptFails, StopFlag, StopClose, Embedding,
       AddStream, RemoveStream, Administer, vars
  <2> QED
    BY <1>f, <2>1 DEF conn
<1> QED
  BY <1>3, <1>4, <1>5, <1>6, <1>7, <1>8, <1>9, <1>10, <1>11, <1>12, <1>13
     DEF Next, Startup, Traffic, Serve

(* The invariant holds at the start.                                        *)
LEMMA ServerInit == Init => ServerInv
<1> SUFFICES ASSUME Init PROVE ServerInv
  OBVIOUS
<1>1. PhaseType
  BY DEF Init, PM!Init, PhaseType, PM!Phases
<1>2. \A c \in Conns : AtWork(c)
  BY DEF Init, AtWork
<1>3. response \in [Conns -> [status : Statuses \cup {0}, session : Sessions \cup {NoSession}]]
  BY DEF Init, NoResponse
<1>4. request \in [Conns -> Requests \cup {NoRequest}]
  BY DEF Init
<1> QED
  BY <1>1, <1>2, <1>3, <1>4 DEF Init, ServerInv, TypeOK, SessionStates

(* Every step keeps the invariant.                                          *)
LEMMA ServerInvStep == ServerInv /\ [Next]_vars => ServerInv'
<1> SUFFICES ASSUME ServerInv, [Next]_vars PROVE ServerInv'
  OBVIOUS
<1>1. TypeOK'
  BY TypeStep
<1>2. PhaseType'
  BY PhaseStep
<1>3. ASSUME NEW d \in Conns PROVE AtWork(d)'
  BY WorkStep
<1> QED
  BY <1>1, <1>2, <1>3 DEF ServerInv

(* Every variable of the server keeps its type.                             *)
THEOREM ServerTypeCorrect == Spec => []ServerInv
BY ServerInit, ServerInvStep, PTL DEF Spec

-----------------------------------------------------------------------------
(* A connection releases allocations that were made, once or more: what it  *)
(* holds was granted to the session it is named by.                         *)
HeldInv == \A c \in Conns : held[c] # NoSession => phase[held[c]] \in {"live", "released"}

(* A connection comes to hold only what was granted.                        *)
LEMMA HeldStep ==
  ASSUME ServerInv, HeldInv, [Next]_vars
  PROVE  HeldInv'
<1> USE DEF ServerInv, TypeOK
<1>p. \A s \in Sessions : phase[s] \in {"live", "released"} => phase'[s] \in {"live", "released"}
  BY PhaseStep
<1>1. ASSUME UNCHANGED held PROVE HeldInv'
  BY <1>1, <1>p DEF HeldInv
<1>2. ASSUME NEW c \in Conns, SetupAllocate(c) PROVE HeldInv'
  <2>1. current[c] \in Sessions
    BY <1>2 DEF SetupAllocate, AtWork
  <2>2. \/ held' = [held EXCEPT ![c] = current[c]] /\ phase'[current[c]] = "live"
        \/ held' = held
    BY <1>2 DEF SetupAllocate, SetupGranted, SetupRefused
  <2> QED
    BY <1>1, <1>p, <2>1, <2>2 DEF HeldInv
<1>3. ASSUME NEW c \in Conns, Serve(c), ~SetupAllocate(c) PROVE UNCHANGED held
  BY <1>3 DEF Serve, HandleOptions, HandleDescribe, MethodNotAllowed, SetupRejected, SetupRegister,
     ControlLookup, ControlUpdate, TeardownRemove, TeardownRelease, Reply, Hangup
<1>4. (\E c \in Conns : SetupAllocate(c)) \/ UNCHANGED held
  BY <1>3 DEF Next, Startup, Shutdown, Traffic, Embedding, Listen, EnterLoop, Accept, AcceptFails,
     StopFlag, StopClose, Disconnect, Send, AddStream, RemoveStream, Administer, vars, conn
<1> QED
  BY <1>1, <1>2, <1>4

(* Each step of the server is one of the port manager's, or none.           *)
LEMMA PortManagerStep ==
  ASSUME ServerInv, HeldInv, [Next]_vars
  PROVE  [PM!Next]_(PM!vars)
<1> USE DEF ServerInv, TypeOK
<1>u. ASSUME UNCHANGED ports PROVE UNCHANGED PM!vars
  BY <1>u DEF ports, PM!vars
<1>1. ASSUME NEW c \in Conns, SetupRegister(c) PROVE PM!Next
  BY <1>1 DEF SetupRegister, PM!Next, PM!CarefulNext
<1>2. ASSUME NEW c \in Conns, SetupAllocate(c) PROVE PM!Next
  <2>1. current[c] \in Sessions /\ PM!Attempt(current[c])
    BY <1>2 DEF SetupAllocate, AtWork
  <2> QED
    BY <2>1 DEF PM!Next, PM!CarefulNext
<1>3. ASSUME NEW c \in Conns, TeardownRelease(c) PROVE PM!Next \/ UNCHANGED PM!vars
  <2>1. CASE held[c] = NoSession
    BY <1>3, <1>u, <2>1 DEF TeardownRelease
  <2>2. CASE held[c] # NoSession
    <3>1. held[c] \in Sessions /\ PM!ReleasePorts(held[c])
      BY <1>3, <2>2 DEF TeardownRelease
    <3>2. PM!Release(held[c]) \/ PM!ReleaseAgain(held[c])
      BY <2>2, <3>1 DEF HeldInv, PM!Release, PM!ReleaseAgain
    <3> QED
      BY <3>1, <3>2 DEF PM!Next, PM!CarefulNext
  <2> QED
    BY <2>1, <2>2
<1>4. CASE Administer
  BY <1>4 DEF Administer, PM!Next, PM!CarefulNext
<1>5. ASSUME NEW c \in Conns, Serve(c), ~SetupRegister(c), ~SetupAllocate(c), ~TeardownRelease(c)
      PROVE  UNCHANGED ports
  BY <1>5 DEF Serve, HandleOptions, HandleDescribe, MethodNotAllowed, SetupRejected, ControlLookup,
     ControlUpdate, TeardownRemove, Reply, Hangup
<1>6. \/ UNCHANGED ports \/ Administer
      \/ \E c \in Conns : SetupRegister(c) \/ SetupAllocate(c) \/ TeardownRelease(c)
  BY <1>5 DEF Next, Startup, Shutdown, Traffic, Embedding, Listen, EnterLoop, Accept, AcceptFails,
     StopFlag, StopClose, Disconnect, Send, AddStream, RemoveStream, vars
<1> QED
  BY <1>1, <1>2, <1>3, <1>4, <1>6, <1>u

(* Hence it always holds what was granted.                                  *)
LEMMA HeldAlways == Spec => [](ServerInv /\ HeldInv)
<1>1. Init => HeldInv
  BY DEF Init, HeldInv
<1>2. ServerInv /\ HeldInv /\ [Next]_vars => HeldInv'
  BY HeldStep
<1> QED
  BY <1>1, <1>2, ServerTypeCorrect, PTL DEF Spec

(* The connections drive the port manager only through its operations: what *)
(* is proved of PortManager holds inside the server.                        *)
THEOREM ServerUsesPortManager == Spec => UsesPortManager
<1>1. Init => PM!Init
  BY DEF Init
<1>2. ServerInv /\ HeldInv /\ [Next]_vars => [PM!Next]_(PM!vars)
  BY PortManagerStep
<1> QED
  BY <1>1, <1>2, HeldAlways, PTL DEF Spec, UsesPortManager, PM!Spec

-----------------------------------------------------------------------------
(* A request that named a dead session when it was sent still does, since   *)
(* only sessions that were never issued enter the registry: no lookup finds *)
(* it, no update follows.                                                   *)
NamesTheDead(c) ==
  /\ request[c] # NoRequest /\ request[c].dead => request[c].session \in Issued \ registry
  /\ pc[c] = "updating" => ~request[c].dead
  /\ (pc[c] = "replying" /\ request[c].method \in {"PLAY", "PAUSE"} /\ request[c].dead)
       => response[c].status # 200

(* A session that was issued and removed is never registered again.         *)
LEMMA RegistryStep ==
  ASSUME ServerInv, [Next]_vars
  PROVE  Issued \ registry \subseteq (Issued \ registry)'
<1> USE DEF ServerInv, TypeOK
<1>1. Issued \subseteq Issued'
  BY PhaseStep DEF Issued
<1>2. ASSUME NEW c \in Conns, SetupRegister(c)
      PROVE  \E id \in Sessions \ Issued : registry' = registry \cup {id}
  BY <1>2 DEF SetupRegister, GenerateSessionID, Issued
<1>3. ASSUME NEW c \in Conns, TeardownRemove(c) PROVE registry' \subseteq registry
  BY <1>3 DEF TeardownRemove
<1>4. ASSUME NEW c \in Conns, Serve(c), ~SetupRegister(c), ~TeardownRemove(c) PROVE registry' = registry
  BY <1>4 DEF Serve, HandleOptions, HandleDescribe, MethodNotAllowed, SetupRejected, SetupAllocate,
     ControlLookup, ControlUpdate, TeardownRelease, Reply, Hangup
<1>5. \/ registry' = registry
      \/ \E c \in Conns : SetupRegister(c) \/ TeardownRemove(c)
  BY <1>4 DEF Next, Startup, Shutdown, Traffic, Embedding, Listen, EnterLoop, Accept, AcceptFails,
     StopFlag, StopClose, Disconnect, Send, AddStream, RemoveStream, Administer, vars
<1> QED
  BY <1>1, <1>2, <1>3, <1>5

(* A request that names a removed session is never answered with 200.       *)
LEMMA DeadStep ==
  ASSUME ServerInv, [Next]_vars, NEW d \in Conns, NamesTheDead(d)
  PROVE  NamesTheDead(d)'
<1> USE DEF ServerInv, TypeOK
<1>r. Issued \ registry \subseteq (Issued \ registry)'
  BY RegistryStep
<1>f. ASSUME pc'[d] = pc[d], request'[d] = request[d], response'[d] = response[d]
      PROVE  NamesTheDead(d)'
  BY <1>f, <1>r DEF NamesTheDead
<1>n. ASSUME request'[d] = NoRequest, pc'[d] \notin {"updating", "replying"} PROVE NamesTheDead(d)'
  BY <1>n DEF NamesTheDead
<1>q. ASSUME pc'[d] \notin {"updating", "replying"}, request'[d] = request[d] PROVE NamesTheDead(d)'
  BY <1>q, <1>r DEF NamesTheDead
<1>s. ASSUME pc'[d] = "replying", request'[d] = request[d],
             \/ request[d].method \notin {"PLAY", "PAUSE"} \/ ~request[d].dead
             \/ response'[d].status # 200
      PROVE  NamesTheDead(d)'
  BY <1>s, <1>r DEF NamesTheDead
<1>1. ASSUME HandleOptions(d) \/ HandleDescribe(d) \/ MethodNotAllowed(d) \/ SetupRejected(d)
      PROVE  NamesTheDead(d)'
  BY <1>1, <1>s DEF HandleOptions, HandleDescribe, MethodNotAllowed, SetupRejected, Respond, Handling
<1>2. CASE SetupRegister(d)
  BY <1>2, <1>q DEF SetupRegister, Goto
<1>3. CASE SetupAllocate(d)
  <2>1. request' = request /\ request[d].method = "SETUP"
    BY <1>3 DEF SetupAllocate, AtWork
  <2>2. pc' = [pc EXCEPT ![d] = "replying"] \/ (pc' = pc /\ pc[d] = "allocating")
    BY <1>3 DEF SetupAllocate, SetupGranted, SetupRefused, Respond
  <2> QED
    BY <1>s, <1>q, <2>1, <2>2
<1>4. CASE ControlLookup(d)
  <2>1. request' = request /\ request[d] # NoRequest
    BY <1>4 DEF ControlLookup, Handling, NoRequest
  <2>2. CASE request[d].session \in registry
    <3>1. ~request[d].dead
      BY <2>1, <2>2 DEF NamesTheDead
    <3> QED
      BY <1>4, <1>r, <2>1, <3>1 DEF ControlLookup, NamesTheDead, Goto, Respond
  <2>3. CASE request[d].session \notin registry
    <3>1. pc'[d] = "replying" /\ response'[d].status # 200
      BY <1>4, <2>3 DEF ControlLookup, Respond
    <3> QED
      BY <1>s, <2>1, <3>1
  <2> QED
    BY <2>2, <2>3
<1>5. CASE ControlUpdate(d)
  <2>1. pc'[d] = "replying" /\ request' = request /\ ~request[d].dead
    BY <1>5 DEF ControlUpdate, Respond, NamesTheDead
  <2> QED
    BY <1>s, <2>1
<1>6. CASE TeardownRemove(d)
  <2>1. request' = request /\ request[d].method = "TEARDOWN" /\ pc'[d] \in {"replying", "releasing"}
    BY <1>6 DEF TeardownRemove, Handling, Respond, Goto
  <2> QED
    BY <1>s, <1>q, <2>1
<1>7. CASE TeardownRelease(d)
  <2>1. request' = request /\ request[d].method = "TEARDOWN" /\ pc'[d] = "replying"
    BY <1>7 DEF TeardownRelease, AtWork, Respond
  <2> QED
    BY <1>s, <2>1
<1>8. CASE Reply(d) \/ Hangup(d)
  BY <1>8, <1>n DEF Reply, Hangup
<1>9. ASSUME NEW r \in AnyRequest, Send(d, r) PROVE NamesTheDead(d)'
  <2>1. r.dead => r.session \in Issued \ registry
    <3>1. (CHOOSE x \in StreamIds : TRUE) \in StreamIds
      OBVIOUS
    <3> DEFINE plain == {Plain("OPTIONS"), Plain("OTHER"), Setup(FALSE)}
               more == IF SetupsLeft THEN {Setup(TRUE)} ELSE {}
               controls == {Control(m, id) : m \in {"PLAY", "PAUSE", "TEARDOWN"},
                                             id \in Issued \cup {NoSession}}
               describes == {Describe(x) : x \in StreamIds}
    <3>2. AnyRequest = plain \cup describes \cup more \cup controls
      BY DEF AnyRequest
    <3>3. CASE r \in plain \cup more
      <4>1. r \in {Plain("OPTIONS"), Plain("OTHER"), Setup(FALSE), Setup(TRUE)}
        BY <3>3
      <4>2. \A m : Plain(m).dead = FALSE
        BY DEF Plain
      <4>3. \A t : Setup(t).dead = FALSE
        BY DEF Plain, Setup
      <4>4. r.dead = FALSE
        BY <4>1, <4>2, <4>3
      <4> QED
        BY <4>4
    <3>4. CASE r \in describes
      BY <3>4 DEF Plain, Describe
    <3>5. CASE r \in controls
      <4>1. PICK m \in {"PLAY", "PAUSE", "TEARDOWN"}, id \in Issued \cup {NoSession} :
              r = Control(m, id)
        BY <3>5
      <4>2. \A dead : LET control == [Plain(m) EXCEPT !.session = id, !.dead = dead]
                      IN control.session = id /\ control.dead = dead
        BY DEF Plain
      <4>3. r.session = id /\ r.dead = (id \in Issued \ registry)
        BY <4>1, <4>2 DEF Control
      <4> QED
        BY <4>3
    <3> HIDE DEF plain, describes, more, controls
    <3> QED
      BY <3>2, <3>3, <3>4, <3>5
  <2>2. request'[d] = r /\ pc'[d] = "reading"
    BY <1>9 DEF Send
  <2> QED
    BY <1>r, <2>1, <2>2 DEF NamesTheDead
<1>10. CASE Accept(d)
  BY <1>10, <1>q DEF Accept
<1>11. ASSUME NEW c \in Conns, c # d,
              \/ Serve(c) \/ Accept(c) \/ \E r \in AnyRequest : Send(c, r)
       PROVE  pc'[d] = pc[d] /\ request'[d] = request[d] /\ response'[d] = response[d]
  BY <1>11 DEF Serve, HandleOptions, HandleDescribe, MethodNotAllowed, SetupRejected, SetupRegister,
     SetupAllocate, SetupGranted, SetupRefused, ControlLookup, ControlUpdate, TeardownRemove,
     TeardownRelease, Reply, Hangup, Accept, Send, Respond, Goto
<1>12. \/ \E c \in Conns : Serve(c) \/ Accept(c) \/ \E r \in AnyRequest : Send(c, r)
       \/ UNCHANGED <<pc, request, response>>
  BY DEF Next, Startup, Shutdown, Traffic, Embedding, Listen, EnterLoop, AcceptFails,
     StopFlag, StopClose, Disconnect, AddStream, RemoveStream, Administer, vars, conn
<1> QED
  BY <1>f, <1>1, <1>2, <1>3, <1>4, <1>5, <1>6, <1>7, <1>8, <1>9, <1>10, <1>11, <1>12 DEF Serve

(* No PLAY or PAUSE is acknowledged for a session that had been torn down   *)
(* when it was sent.                                                        *)
THEOREM RemovalIsFinal == Spec => []TornDownStaysDown
<1>1. Init => \A c \in Conns : NamesTheDead(c)
  BY DEF Init, NamesTheDead
<1>2. ServerInv /\ (\A c \in Conns : NamesTheDead(c)) /\ [Next]_vars => (\A c \in Conns : NamesTheDead(c))'
  BY DeadStep
<1>3. (\A c \in Conns : NamesTheDead(c)) => TornDownStaysDown
  BY DEF NamesTheDead, TornDownStaysDown
<1> QED
  BY <1>1, <1>2, <1>3, ServerTypeCorrect, PTL DEF Spec

-----------------------------------------------------------------------------
(* What is proved of the port manager, for the server's constants.          *)
PMP == INSTANCE PortManagerProofs

(* The server's constants meet the port manager's assumptions.              *)
LEMMA PortAssumptions ==
  PMP!PortsAssumption /\ PMP!RangesAssumption /\ PMP!RetriesAssumption /\ PMP!NilAssumption
BY PortManagerAssumption
   DEF PM!PortsAssumption, PM!RangesAssumption, PM!RetriesAssumption, PM!NilAssumption,
       PMP!PortsAssumption, PMP!RangesAssumption, PMP!RetriesAssumption, PMP!NilAssumption,
       PM!PortRanges, PMP!PortRanges, PM!ValidatePortRange, PMP!ValidatePortRange, PM!Ports,
       PMP!Ports, PM!Pairs, PMP!Pairs

(* PM and PMP are instances of one module: a step of one is a step of the   *)
(* other.                                                                   *)
LEMMA SamePortManager ==
  /\ PM!Init => PMP!Init
  /\ [PM!Next]_(PM!vars) => [PMP!Next]_(PMP!vars)
<1>1. PM!Init => PMP!Init
  BY DEF PM!Init, PMP!Init
<1>2. \A port : PM!ForceReleasePort(port) => PMP!ForceReleasePort(port)
  BY DEF PM!ForceReleasePort, PMP!ForceReleasePort, PM!callers, PMP!callers, PM!Untouched,
     PMP!Untouched, PM!PortsOf, PMP!PortsOf
<1>3. \A rtp, rtcp : PM!SetPortRange(rtp, rtcp) => PMP!SetPortRange(rtp, rtcp)
  BY DEF PM!SetPortRange, PMP!SetPortRange, PM!callers, PMP!callers, PM!ValidatePortRange,
     PMP!ValidatePortRange, PM!Ports, PMP!Ports
<1>4. PM!CleanupFallsDue => PMP!CleanupFallsDue
  BY DEF PM!CleanupFallsDue, PMP!CleanupFallsDue, PM!callers, PMP!callers
<1>5. ASSUME NEW s
      PROVE  /\ PM!Ask(s) => PMP!Ask(s)
             /\ PM!PreAllocatePorts(s) => PMP!PreAllocatePorts(s)
             /\ PM!Release(s) => PMP!Release(s)
             /\ PM!ReleaseAgain(s) => PMP!ReleaseAgain(s)
  BY DEF PM!Ask, PMP!Ask, PM!PreAllocatePorts, PMP!PreAllocatePorts, PM!Release, PMP!Release,
     PM!ReleaseAgain, PMP!ReleaseAgain, PM!ReleasePorts, PMP!ReleasePorts, PM!Untouched,
     PMP!Untouched, PM!PortsOf, PMP!PortsOf
<1>6. \A s : PM!Attempt(s) => PMP!Attempt(s)
  BY DEF PM!Attempt, PMP!Attempt, PM!Granted, PMP!Granted, PM!Denied, PMP!Denied,
     PM!AfterCleanup, PMP!AfterCleanup, PM!Candidates, PMP!Candidates, PM!IsPortAvailable,
     PMP!IsPortAvailable, PM!Marked, PMP!Marked
<1>7. UNCHANGED PM!vars => UNCHANGED PMP!vars
  BY DEF PM!vars, PMP!vars
<1>8. PM!Ports = PMP!Ports
  BY DEF PM!Ports, PMP!Ports
<1> QED
  BY <1>1, <1>2, <1>3, <1>4, <1>5, <1>6, <1>7, <1>8
     DEF PM!Next, PMP!Next, PM!CarefulNext, PMP!CarefulNext

(* No port is reserved when the server starts ...                           *)
LEMMA ReservedInit == Init => PMP!ReservationInv
BY PortAssumptions, SamePortManager, PMP!ReservationInit DEF Init

(* ... and no step of the server disturbs the reservations.                 *)
LEMMA ReservedStep ==
  ASSUME ServerInv, HeldInv, [Next]_vars, PMP!ReservationInv
  PROVE  PMP!ReservationInv'
BY PortAssumptions, SamePortManager, PortManagerStep, PMP!ReservationStep

(* Inside the server too, two sessions whose reservations nobody dropped    *)
(* never share a port, and their ports stay marked as used.                 *)
THEOREM ServerPortsExclusive == Spec => [](PM!IntactExclusive /\ PM!IntactReserved)
<1>1. ServerInv /\ HeldInv /\ PMP!ReservationInv /\ [Next]_vars => PMP!ReservationInv'
  BY ReservedStep
<1>2. PMP!ReservationInv => PM!IntactExclusive /\ PM!IntactReserved
  BY DEF PMP!ReservationInv, PMP!IntactExclusive, PMP!IntactReserved, PM!IntactExclusive,
     PM!IntactReserved, PM!PortsOf, PMP!PortsOf
<1> QED
  BY <1>1, <1>2, ReservedInit, HeldAlways, PTL DEF Spec

-----------------------------------------------------------------------------
(* The clients.  Every session belongs to one connection: Known(c) are the  *)
(* sessions that connection c may name in a request, an answer or release.  *)
Unread(c) == {late[c][i].session : i \in 1..Len(late[c])}
Known(c) ==
  ({session[c], held[c], current[c], response[c].session,
    IF request[c] = NoRequest THEN NoSession ELSE request[c].session} \cup Unread(c))
     \ {NoSession}

OwnInv ==
  /\ \A c \in Conns : Known(c) \subseteq Issued
  /\ \A c, d \in Conns : c # d => Known(c) \cap Known(d) = {}

(* How far the call in progress and the request being handled have come: a  *)
(* call for which no answer is late waits for that of its own request.      *)
MethodOf(op) == IF op = "DISCONNECT" THEN "TEARDOWN" ELSE op
Controls == {"PLAY", "PAUSE", "TEARDOWN"}
OfSession == Controls \cup {"SETUP"}
CallInv(c) ==
  /\ pc[c] = "off" => /\ call[c] = "none" /\ request[c] = NoRequest
                      /\ session[c] = NoSession
  /\ wire[c] = "up" =>
       /\ pc[c] \notin {"off", "closed"}
       /\ request[c] = NoRequest => ~Waiting(c) /\ pc[c] = "reading"
       /\ request[c] # NoRequest /\ Waiting(c) =>
            /\ request[c].method = MethodOf(call[c])
            /\ request[c].method \in Controls => request[c].session = session[c]

(* The session s of client c is as the client may rely on.                  *)
Keeps(c, s, st) ==
  /\ held[c] = s /\ (AllHeard => s \in intact)
  /\ s \in registry /\ state[s] = st

(* No call about a session is under way: the view is what it was.           *)
Calm(c) ==
  /\ request[c].method \notin OfSession
  /\ session[c] # NoSession => Keeps(c, session[c], sessionState[c])

(* The client has not yet read the answer that makes it change its view.    *)
Answered(c, method) ==
  pc[c] = "replying" /\ response[c].status = 200 /\ request[c].method = method
Awaits(c) ==
  /\ Answered(c, "SETUP") => Keeps(c, response[c].session, "Ready")
  /\ Answered(c, "PLAY") => Keeps(c, session[c], "Playing")
  /\ Answered(c, "PAUSE") => Keeps(c, session[c], "Ready")
  /\ (/\ session[c] # NoSession /\ pc[c] # "releasing"
      /\ \A m \in OfSession : ~Answered(c, m))
       => Keeps(c, session[c], sessionState[c])
Views(c) ==
  /\ call[c] \in Quiet \cup {"none"} => Calm(c)
  /\ Waiting(c) => Awaits(c)

ViewInv(c) ==
  /\ pc[c] = "allocating" => current[c] \in registry /\ state[current[c]] = "Ready"
  /\ (pc[c] \in {"reading", "releasing"} /\ request[c].method = "TEARDOWN" /\ AllHeard)
       => held[c] \in intact
  /\ wire[c] = "up" /\ heard[c] => Views(c)

(* The inductive invariant; its last part is that nobody let five minutes   *)
(* pass, the one thing that takes ports from their owners.                  *)
ServedInv == ServerInv /\ HeldInv /\ PMP!ReservationInv
SystemInv ==
  /\ ServedInv /\ due = FALSE /\ ClientTypeOK /\ OwnInv
  /\ \A c \in Conns : CallInv(c) /\ ViewInv(c)

StepOf(c) == Connect(c) \/ ClientStep(c) \/ Progress(c) \/ NetworkLoss(c)

(* What is private to a connection, and what the connections share.         *)
Private(c) ==
  <<wire[c], pc[c], request[c], response[c], current[c], held[c],
    connected[c], sdp[c], session[c], sessionState[c], call[c], late[c], front[c],
    heard[c]>>
Spared(s) ==
  /\ s \in registry' <=> s \in registry
  /\ state'[s] = state[s]
  /\ AllHeard /\ s \in intact => s \in intact'

-----------------------------------------------------------------------------
(* The requests of the clients are among those the server was proved for.   *)
LEMMA ClientRequests ==
  ASSUME SystemInv, NEW c \in Conns, NEW op, NEW r, Begin(c, op, r),
         \/ r = Plain("OPTIONS") \/ r = Describe(HostStream)
         \/ r = Setup(TRUE) /\ SetupsLeft
         \/ \E m \in Controls : r = Control(m, session[c])
  PROVE  /\ Traffic
         /\ UNCHANGED <<ports, registry, state, held, current, response, pc, wire>>
<1>1. session[c] \in Issued \cup {NoSession}
  BY DEF SystemInv, OwnInv, Known
<1>2. r \in AnyRequest
  <2> DEFINE plain == {Plain("OPTIONS"), Plain("OTHER"), Setup(FALSE)}
             more == IF SetupsLeft THEN {Setup(TRUE)} ELSE {}
             controls == {Control(m, id) : m \in {"PLAY", "PAUSE", "TEARDOWN"},
                                           id \in Issued \cup {NoSession}}
             describes == {Describe(x) : x \in StreamIds}
  <2>1. AnyRequest = plain \cup describes \cup more \cup controls
    BY DEF AnyRequest
  <2>2. r = Plain("OPTIONS") => r \in plain
    OBVIOUS
  <2>3. r = Describe(HostStream) => r \in describes
    BY UrlAssumption
  <2>4. r = Setup(TRUE) /\ SetupsLeft => r \in more
    OBVIOUS
  <2>5. (\E m \in Controls : r = Control(m, session[c])) => r \in controls
    BY <1>1 DEF Controls
  <2> HIDE DEF plain, describes, more, controls
  <2> QED
    BY <2>1, <2>2, <2>3, <2>4, <2>5
<1> QED
  BY <1>2 DEF Begin, Traffic, Send

(* A step of a connection is one of these, with what each leaves alone.     *)
LEMMA KindsOfStep ==
  ASSUME SystemInv, NEW c \in Conns, StepOf(c)
  PROVE  /\ Next \/ UNCHANGED vars
         /\ \/ /\ SetupRegister(c) \/ SetupAllocate(c) \/ ControlUpdate(c)
                    \/ TeardownRemove(c) \/ TeardownRelease(c)
               /\ UNCHANGED client
            \/ UNCHANGED <<ports, registry, state, held, current>>
<1>1. CASE Connect(c)
  BY <1>1 DEF Connect, Accept, Next, Startup
<1>2. CASE Options(c) \/ DescribeStream(c) \/ SetupStream(c)
  BY <1>2, ClientRequests DEF Options, DescribeStream, SetupStream, Next
<1>3. CASE Play(c) \/ Pause(c) \/ Teardown(c) \/ DisconnectTeardown(c)
  BY <1>3, ClientRequests DEF Play, Pause, Teardown, DisconnectTeardown, Controls, Next
<1>4. CASE DisconnectNow(c)
  BY <1>4 DEF DisconnectNow, Disconnect, Next, Traffic, vars, conn
<1>5. CASE Return(c) \/ ReplyLate(c)
  BY <1>5 DEF Return, ReplyLate, Reply, Next, Traffic, Serve
<1>6. CASE DisconnectClose(c)
  BY <1>6 DEF DisconnectClose, Disconnect, Next, Traffic
<1>7. CASE CallFails(c)
  BY <1>7 DEF CallFails, vars, conn
<1>8. CASE ServerStep(c)
  <2>1. Serve(c) /\ UNCHANGED client /\ Next
    BY <1>8 DEF ServerStep, Next, Traffic
  <2>2. CASE HandleOptions(c) \/ HandleDescribe(c) \/ MethodNotAllowed(c) \/ SetupRejected(c)
                \/ ControlLookup(c) \/ Reply(c) \/ Hangup(c)
    BY <2>1, <2>2 DEF HandleOptions, HandleDescribe, MethodNotAllowed, SetupRejected,
       ControlLookup, Reply, Hangup
  <2> QED
    BY <2>1, <2>2 DEF Serve
<1>9. CASE NetworkLoss(c)
  BY <1>9 DEF NetworkLoss, Disconnect, Next, Traffic
<1>10. CASE ReturnLate(c) \/ ReturnEmpty(c)
  BY <1>10 DEF ReturnLate, ReturnEmpty, vars, conn
<1> QED
  BY <1>1, <1>2, <1>3, <1>4, <1>5, <1>6, <1>7, <1>8, <1>9, <1>10 DEF StepOf, ClientStep, Progress

(* Each step of the clients and their server is one of the server.          *)
LEMMA SystemStepServes ==
  ASSUME SystemInv, [SystemNext]_allVars
  PROVE  [Next]_vars
<1>1. ASSUME NEW c \in Conns, StepOf(c) PROVE [Next]_vars
  BY <1>1, KindsOfStep
<1>2. CASE StartServer
  BY <1>2 DEF StartServer, Next, Startup
<1> QED
  BY <1>1, <1>2 DEF SystemNext, StepOf, allVars

-----------------------------------------------------------------------------
(* A step of one connection leaves the private state of the others alone.   *)
LEMMA OthersPrivate ==
  ASSUME SystemInv, NEW c \in Conns, StepOf(c), NEW d \in Conns, d # c
  PROVE  UNCHANGED Private(d)
<1> USE DEF SystemInv, ServedInv, ServerInv, TypeOK, ClientTypeOK, Private
<1>1. CASE Connect(c)
  BY <1>1 DEF Connect, Accept, stream
<1>2. CASE Options(c) \/ DescribeStream(c) \/ SetupStream(c)
             \/ Play(c) \/ Pause(c) \/ Teardown(c) \/ DisconnectTeardown(c)
  <2>1. PICK op, r : Begin(c, op, r)
    BY <1>2 DEF Options, DescribeStream, SetupStream, Play, Pause, Teardown, DisconnectTeardown
  <2> QED
    BY <2>1 DEF Begin, Send, stream
<1>3. CASE DisconnectNow(c) \/ DisconnectClose(c) \/ CallFails(c) \/ NetworkLoss(c)
  BY <1>3 DEF DisconnectNow, DisconnectClose, CallFails, NetworkLoss, Disconnect, Abandon, vars,
     conn, client, stream
<1>4. CASE Return(c) \/ ReplyLate(c) \/ ReturnLate(c) \/ ReturnEmpty(c)
  <2>1. ASSUME NEW a, Absorb(c, a)
        PROVE  UNCHANGED <<sdp[d], session[d], sessionState[d]>>
    BY <2>1 DEF Absorb
  <2>2. ASSUME NEW own, Finish(c, own)
        PROVE  UNCHANGED <<connected[d], call[d], heard[d]>>
    BY <2>2 DEF Finish
  <2>3. ASSUME NEW a, ReadAnswer(c, a)
        PROVE  UNCHANGED <<sdp[d], session[d], sessionState[d], front[d]>>
    BY <2>1, <2>3 DEF ReadAnswer, Leaves
  <2>4. UNCHANGED <<sdp[d], session[d], sessionState[d], front[d]>>
    <3>1. CASE Return(c) \/ ReturnLate(c)
      BY <2>3, <3>1 DEF Return, ReturnLate
    <3>2. CASE ReturnEmpty(c)
      <4>1. front'[d] = front[d]
        BY <3>2 DEF ReturnEmpty
      <4> QED
        BY <2>1, <3>2, <4>1 DEF ReturnEmpty
    <3>3. CASE ReplyLate(c)
      BY <3>3 DEF ReplyLate
    <3> QED
      BY <1>4, <3>1, <3>2, <3>3
  <2>5. UNCHANGED <<connected[d], call[d], heard[d]>>
    BY <1>4, <2>2 DEF Return, ReplyLate, ReturnLate, ReturnEmpty
  <2>6. late'[d] = late[d]
    BY <1>4 DEF Return, ReplyLate, ReturnLate, ReturnEmpty
  <2>7. UNCHANGED <<wire[d], pc[d], request[d], response[d], current[d], held[d]>>
    BY <1>4 DEF Return, ReplyLate, ReturnLate, ReturnEmpty, Reply, vars, conn
  <2> QED
    BY <2>4, <2>5, <2>6, <2>7
<1>5. CASE ServerStep(c)
  BY <1>5 DEF ServerStep, Serve, HandleOptions, HandleDescribe, MethodNotAllowed, SetupRejected,
     SetupRegister, SetupAllocate, SetupGranted, SetupRefused, ControlLookup, ControlUpdate,
     TeardownRemove, TeardownRelease, Reply, Hangup, Respond, Goto, client, stream
<1> QED
  BY <1>1, <1>2, <1>3, <1>4, <1>5 DEF StepOf, ClientStep, Progress

(* A client that missed an answer never makes up for it.                    *)
LEMMA HeardFalls ==
  ASSUME SystemInv, NEW c \in Conns, StepOf(c)
  PROVE  /\ heard'[c] => heard[c]
         /\ AllHeard' => AllHeard
<1> USE DEF SystemInv, ClientTypeOK
<1>1. heard'[c] => heard[c]
  <2>1. ASSUME NEW own, Finish(c, own) PROVE heard'[c] => heard[c]
    BY <2>1 DEF Finish
  <2>2. heard' = heard \/ \E own \in BOOLEAN : Finish(c, own)
    BY DEF StepOf, ClientStep, Progress, Connect, Options, DescribeStream, SetupStream, Play, Pause,
       Teardown, DisconnectTeardown, Begin, DisconnectNow, DisconnectClose, CallFails, NetworkLoss,
       ServerStep, Return, ReturnLate, ReturnEmpty, ReplyLate, client
  <2> QED
    BY <2>1, <2>2
<1>2. \A d \in Conns : heard'[d] => heard[d]
  BY <1>1, OthersPrivate DEF Private
<1> QED
  BY <1>1, <1>2 DEF AllHeard

(* Releasing an allocation that is intact takes no port of another one.     *)
LEMMA ReleaseSpares ==
  ASSUME PMP!ReservationInv, NEW h \in intact, PM!ReleasePorts(h), NEW s \in intact, s # h
  PROVE  s \in intact'
<1>1. PM!PortsOf(alloc[s]) \cap PM!PortsOf(alloc[h]) = {}
  BY DEF PMP!ReservationInv, PMP!IntactExclusive, PMP!PortsOf, PM!PortsOf
<1> QED
  BY <1>1 DEF PM!ReleasePorts, PM!Untouched

(* An attempt to allocate takes no port of another, unless a cleanup is due.*)
LEMMA AttemptSpares ==
  ASSUME due = FALSE, PhaseType, NEW id \in Sessions, PM!Attempt(id)
  PROVE  intact \subseteq intact' /\ (phase'[id] = "live" => id \in intact')
<1> PICK busy \in SUBSET (range.start..range.end) : PM!Granted(id, busy) \/ PM!Denied(id, busy)
  BY DEF PM!Attempt
<1>1. CASE PM!Granted(id, busy)
  BY <1>1 DEF PM!Granted, PM!AfterCleanup
<1>2. CASE PM!Denied(id, busy)
  BY <1>2 DEF PM!Denied, PM!AfterCleanup, PhaseType
<1> QED
  BY <1>1, <1>2

(* A step of one connection spares every session of the others.             *)
LEMMA OthersSpared ==
  ASSUME SystemInv, NEW c \in Conns, StepOf(c), NEW s \in Issued, s \notin Known(c)
  PROVE  Spared(s)
<1> USE DEF SystemInv, ServedInv, ServerInv, TypeOK, Spared
<1>s. s \in Sessions
  BY DEF Issued
<1>1. CASE SetupRegister(c)
  <2>1. PICK id \in Sessions : /\ phase[id] = "idle" /\ PM!Ask(id)
                              /\ registry' = registry \cup {id}
                              /\ state' = [state EXCEPT ![id] = "Ready"]
    BY <1>1 DEF SetupRegister, GenerateSessionID
  <2>2. s # id
    BY <2>1 DEF Issued
  <2>3. intact' = intact
    BY <2>1 DEF PM!Ask
  <2> QED
    BY <1>s, <2>1, <2>2, <2>3
<1>2. CASE SetupAllocate(c)
  BY <1>2, AttemptSpares DEF SetupAllocate, AtWork
<1>3. CASE ControlUpdate(c)
  <2>1. request[c] \in Requests /\ request[c].session \in Sessions
    BY <1>3 DEF ControlUpdate, AtWork
  <2>2. request[c] # NoRequest
    BY <1>3 DEF ControlUpdate, AtWork, NoRequest
  <2>3. s # request[c].session
    BY <1>s, <2>2 DEF Known
  <2> QED
    BY <1>3, <1>s, <2>1, <2>3 DEF ControlUpdate, ports
<1>4. CASE TeardownRemove(c)
  <2>1. request[c] # NoRequest
    BY <1>4 DEF TeardownRemove, Handling, NoRequest
  <2>2. s # request[c].session
    BY <1>s, <2>1 DEF Known
  <2> QED
    BY <1>4, <2>2 DEF TeardownRemove, ports
<1>5. CASE TeardownRelease(c)
  <2>1. CASE AllHeard
    <3>1. held[c] \in intact
      BY <1>5, <2>1 DEF TeardownRelease, AtWork, ViewInv
    <3>2. held[c] # NoSession /\ s # held[c]
      BY <1>s, <3>1 DEF Known, PMP!ReservationInv, PMP!TypeInv, PMP!TypeOK
    <3>3. s \in intact => s \in intact'
      BY <1>5, <3>1, <3>2, ReleaseSpares DEF TeardownRelease
    <3> QED
      BY <1>5, <3>3 DEF TeardownRelease
  <2>2. CASE ~AllHeard
    BY <1>5, <2>2 DEF TeardownRelease
  <2> QED
    BY <2>1, <2>2
<1>6. CASE UNCHANGED <<ports, registry, state, held, current>>
  BY <1>6 DEF ports
<1> QED
  BY <1>1, <1>2, <1>3, <1>4, <1>5, <1>6, KindsOfStep

(* So do all steps of the others for what a connection keeps.               *)
LEMMA OthersKeep ==
  ASSUME SystemInv, NEW c \in Conns, StepOf(c), NEW d \in Conns, d # c
  PROVE  /\ CallInv(d)' /\ ViewInv(d)'
         /\ AllHeard /\ held[d] \in intact => held'[d] \in intact'
<1>1. UNCHANGED Private(d)
  BY OthersPrivate
<1>2. \A s \in Known(d) : Spared(s)
  BY OthersSpared DEF SystemInv, OwnInv
<1>p. /\ wire'[d] = wire[d] /\ pc'[d] = pc[d] /\ request'[d] = request[d]
      /\ response'[d] = response[d] /\ current'[d] = current[d] /\ held'[d] = held[d]
      /\ session'[d] = session[d] /\ sessionState'[d] = sessionState[d] /\ call'[d] = call[d]
      /\ late'[d] = late[d] /\ front'[d] = front[d] /\ heard'[d] = heard[d]
      /\ Waiting(d)' <=> Waiting(d)
  BY <1>1 DEF Private, Waiting, Calling
<1>h. AllHeard' => AllHeard
  BY HeardFalls
<1>3. CallInv(d)'
  BY <1>p DEF SystemInv, CallInv
<1>4. \A s, st : Keeps(d, s, st) => Keeps(d, s, st)'
  <2> SUFFICES ASSUME NEW s, NEW st, Keeps(d, s, st) PROVE Keeps(d, s, st)'
    OBVIOUS
  <2>1. s \in Known(d)
    BY DEF Keeps, Known, SystemInv, ServedInv, ServerInv, TypeOK
  <2> QED
    BY <1>h, <1>p, <1>2, <2>1 DEF Keeps, Spared
<1>5. Views(d) => Views(d)'
  <2>1. \A m : Answered(d, m)' <=> Answered(d, m)
    BY <1>p DEF Answered
  <2> QED
    BY <1>p, <1>4, <2>1 DEF Views, Awaits, Calm
<1>6. AllHeard /\ held[d] \in intact => held'[d] \in intact'
  <2>1. held[d] \in intact => held[d] \in Known(d)
    BY DEF Known, SystemInv, ServedInv, PMP!ReservationInv, PMP!TypeInv, PMP!TypeOK
  <2> QED
    BY <1>p, <1>2, <2>1 DEF Spared
<1>7. pc[d] = "allocating" => current[d] \in Known(d)
  BY DEF Known, SystemInv, ServedInv, ServerInv, AtWork
<1>8. ViewInv(d)'
  BY <1>h, <1>p, <1>2, <1>5, <1>6, <1>7 DEF SystemInv, ViewInv, Spared
<1> QED
  BY <1>3, <1>6, <1>8

-----------------------------------------------------------------------------
(* The call that a client begins, and the request it sends for it.          *)
CallBegins(c) ==
  \/ Options(c) \/ DescribeStream(c) \/ SetupStream(c)
  \/ Play(c) \/ Pause(c) \/ Teardown(c) \/ DisconnectTeardown(c)

(* It names the session the client knows, if it is one about a session.     *)
LEMMA CallRequests ==
  ASSUME NEW c \in Conns, CallBegins(c)
  PROVE  \E op, r :
           /\ op \in Calls
           /\ Begin(c, op, r) /\ r # NoRequest /\ r.method = MethodOf(op)
           /\ r.method \in Controls => r.session = session[c] /\ session[c] # NoSession
           /\ r.method \notin Controls => r.session = NoSession
<1> USE DEF Calls, Quiet, Controls, MethodOf, NoRequest
<1>1. \A m : Plain(m).method = m /\ Plain(m).session = NoSession
  BY DEF Plain
<1>2. \A x : Describe(x).method = "DESCRIBE" /\ Describe(x).session = NoSession
  BY DEF Describe, Plain
<1>3. Setup(TRUE).method = "SETUP" /\ Setup(TRUE).session = NoSession
  BY DEF Setup, Plain
<1>4. ASSUME NEW m, NEW id PROVE Control(m, id).method = m /\ Control(m, id).session = id
  <2>1. \A d : LET control == [Plain(m) EXCEPT !.session = id, !.dead = d]
               IN  control.method = m /\ control.session = id
    BY DEF Plain
  <2> QED
    BY <2>1 DEF Control
<1>5. CASE Options(c)
  BY <1>1, <1>5 DEF Options
<1>6. CASE DescribeStream(c)
  BY <1>2, <1>6 DEF DescribeStream
<1>7. CASE SetupStream(c)
  <2>1. \E r : Begin(c, "SETUP", r) /\ r.method = "SETUP" /\ r.session = NoSession
    BY <1>3, <1>7, Zenon DEF SetupStream
  <2> QED
    BY <2>1
<1>8. CASE Play(c)
  BY <1>4, <1>8 DEF Play
<1>9. CASE Pause(c)
  BY <1>4, <1>9 DEF Pause
<1>10. CASE Teardown(c)
  BY <1>4, <1>10 DEF Teardown
<1>11. CASE DisconnectTeardown(c)
  BY <1>4, <1>11 DEF DisconnectTeardown
<1> QED
  BY <1>5, <1>6, <1>7, <1>8, <1>9, <1>10, <1>11 DEF CallBegins

(* What a queue of answers holds, when one is added or taken.               *)
LEMMA QueueOfAnswers ==
  ASSUME NEW q \in Seq(Answers), NEW a \in Answers
  PROVE  /\ Append(q, a) \in Seq(Answers) /\ Append(q, a) # <<>>
         /\ \A i \in 1..Len(Append(q, a)) :
              \/ i \in 1..Len(q) /\ Append(q, a)[i] = q[i]
              \/ Append(q, a)[i] = a
         /\ q # <<>> => /\ Tail(q) \in Seq(Answers)
                        /\ Head(q) = q[1] /\ 1 \in 1..Len(q) /\ Head(q) \in Answers
                        /\ \A i \in 1..Len(Tail(q)) :
                             i + 1 \in 1..Len(q) /\ Tail(q)[i] = q[i + 1]
<1>1. Append(q, a) \in Seq(Answers) /\ Len(Append(q, a)) = Len(q) + 1 /\ Len(q) \in Nat
  OBVIOUS
<1>2. Append(q, a) # <<>>
  BY <1>1
<1> QED
  BY <1>2

(* What the client takes is an answer that was late, or the server's.       *)
LEMMA AnswersTyped ==
  ASSUME SystemInv, NEW c \in Conns
  PROVE  Answer(c) \in Answers /\ Garbled \in Answers
BY DEF SystemInv, ServedInv, ServerInv, TypeOK, Answer, Garbled, Answers

(* Every variable of the clients keeps its type.                            *)
LEMMA ClientTypeStep ==
  ASSUME SystemInv, NEW c \in Conns, StepOf(c)
  PROVE  ClientTypeOK'
<1> USE DEF SystemInv, ClientTypeOK
<1>1. CASE Connect(c)
  BY <1>1 DEF Connect, stream
<1>2. CASE CallBegins(c)
  <2>1. PICK op, r : op \in Calls /\ Begin(c, op, r)
    BY <1>2, CallRequests
  <2> QED
    BY <2>1 DEF Begin, stream
<1>3. CASE DisconnectNow(c) \/ DisconnectClose(c) \/ CallFails(c)
  <2>1. /\ connected' \in [Conns -> BOOLEAN] /\ call' \in [Conns -> Calls \cup {"none", "CLOSE"}]
        /\ UNCHANGED <<sdp, session, sessionState, tears, heard>>
    BY <1>3 DEF DisconnectNow, DisconnectClose, CallFails, Abandon
  <2>2. late' = [late EXCEPT ![c] = <<>>] /\ front' = [front EXCEPT ![c] = "clean"]
    BY <1>3 DEF DisconnectNow, DisconnectClose, CallFails, Abandon
  <2>3. <<>> \in Seq(Answers)
    OBVIOUS
  <2>4. late' \in [Conns -> Seq(Answers)] /\ front' \in [Conns -> {"clean", "rest", "line"}]
    BY <2>2, <2>3
  <2> QED
    BY <2>1, <2>4
<1>4. ASSUME NEW a \in Answers, Absorb(c, a)
      PROVE  /\ sdp' \in [Conns -> BOOLEAN]
             /\ session' \in [Conns -> Sessions \cup {NoSession}]
             /\ sessionState' \in [Conns -> SessionStates]
  <2>1. sdp' \in [Conns -> BOOLEAN]
    <3>1. (sdp[c] \/ call[c] = "DESCRIBE") \in BOOLEAN
      OBVIOUS
    <3>2. CASE Accepted(c, a)
      <4>1. sdp' = [sdp EXCEPT ![c] = sdp[c] \/ call[c] = "DESCRIBE"]
        BY <1>4, <3>2, Zenon DEF Absorb
      <4>2. [sdp EXCEPT ![c] = sdp[c] \/ call[c] = "DESCRIBE"] \in [Conns -> BOOLEAN]
        BY <3>1, UpdateStays, Zenon
      <4> QED
        BY <4>1, <4>2, Zenon
    <3>3. CASE ~Accepted(c, a)
      BY <1>4, <3>3 DEF Absorb
    <3> QED
      BY <3>2, <3>3
  <2>2. SessionAfter(call[c], session[c], a) \in Sessions \cup {NoSession}
    BY DEF SessionAfter, Answers
  <2>3. StateAfter(call[c], sessionState[c]) \in SessionStates
    BY DEF StateAfter, SessionStates
  <2> QED
    BY <1>4, <2>1, <2>2, <2>3 DEF Absorb
<1>5. ASSUME NEW own \in BOOLEAN, Finish(c, own)
      PROVE  /\ connected' = connected /\ call' \in [Conns -> Calls \cup {"none", "CLOSE"}]
             /\ heard' \in [Conns -> BOOLEAN]
  <2>1. (heard[c] /\ (own \/ call[c] \in Quiet)) \in BOOLEAN
    OBVIOUS
  <2>2. heard' = [heard EXCEPT ![c] = heard[c] /\ (own \/ call[c] \in Quiet)]
    BY <1>5 DEF Finish
  <2>3. [heard EXCEPT ![c] = heard[c] /\ (own \/ call[c] \in Quiet)] \in [Conns -> BOOLEAN]
    BY <2>1, UpdateStays, Zenon
  <2>4. heard' \in [Conns -> BOOLEAN]
    BY <2>2, <2>3, Zenon
  <2> QED
    BY <1>5, <2>4 DEF Finish
<1>6. ASSUME NEW a \in Answers, ReadAnswer(c, a)
      PROVE  /\ sdp' \in [Conns -> BOOLEAN]
             /\ session' \in [Conns -> Sessions \cup {NoSession}]
             /\ sessionState' \in [Conns -> SessionStates]
             /\ front' \in [Conns -> {"clean", "rest", "line"}] /\ tears' \in Nat
  <2>1. \E taken \in Answers : Absorb(c, taken)
    BY <1>6, AnswersTyped DEF ReadAnswer
  <2>2. front' \in [Conns -> {"clean", "rest", "line"}] /\ tears' \in Nat
    BY <1>6 DEF ReadAnswer, Leaves
  <2> QED
    BY <1>4, <2>1, <2>2
<1>7. CASE Return(c)
  <2>1. ReadAnswer(c, Answer(c)) /\ Finish(c, front[c] = "clean") /\ late' = late
    BY <1>7 DEF Return
  <2>2. (front[c] = "clean") \in BOOLEAN
    OBVIOUS
  <2>3. /\ connected' = connected /\ call' \in [Conns -> Calls \cup {"none", "CLOSE"}]
        /\ heard' \in [Conns -> BOOLEAN]
    BY <1>5, <2>1, <2>2, Zenon
  <2> QED
    BY <1>6, <2>1, <2>3, AnswersTyped
<1>8. CASE ReturnLate(c)
  <2>1. late[c] \in Seq(Answers) /\ late[c] # <<>>
    BY <1>8 DEF ReturnLate
  <2>2. Head(late[c]) \in Answers /\ Tail(late[c]) \in Seq(Answers)
    BY <2>1, AnswersTyped, QueueOfAnswers
  <2>3. late' \in [Conns -> Seq(Answers)]
    BY <1>8, <2>2 DEF ReturnLate
  <2>4. ReadAnswer(c, Head(late[c])) /\ Finish(c, FALSE)
    BY <1>8 DEF ReturnLate
  <2> QED
    BY <1>5, <1>6, <2>2, <2>3, <2>4
<1>9. CASE ReturnEmpty(c)
  <2>1. Absorb(c, Garbled) /\ Finish(c, FALSE) /\ UNCHANGED <<late, tears>>
    BY <1>9 DEF ReturnEmpty
  <2>2. front' \in [Conns -> {"clean", "rest", "line"}]
    BY <1>9 DEF ReturnEmpty
  <2> QED
    BY <1>4, <1>5, <2>1, <2>2, AnswersTyped
<1>10. CASE ReplyLate(c)
  <2>1. Append(late[c], Answer(c)) \in Seq(Answers)
    BY AnswersTyped, QueueOfAnswers
  <2>2. late' \in [Conns -> Seq(Answers)]
    BY <1>10, <2>1 DEF ReplyLate
  <2> QED
    BY <1>10, <2>2 DEF ReplyLate
<1>11. CASE ServerStep(c) \/ NetworkLoss(c)
  BY <1>11 DEF ServerStep, NetworkLoss, client, stream
<1> QED
  BY <1>1, <1>2, <1>3, <1>7, <1>8, <1>9, <1>10, <1>11
     DEF StepOf, ClientStep, Progress, CallBegins

(* A connection comes to know a session only by its being issued to it.     *)
LEMMA KnownStep ==
  ASSUME SystemInv, NEW c \in Conns, StepOf(c)
  PROVE  Known(c)' \subseteq Known(c) \cup (Issued' \ Issued)
<1> USE DEF SystemInv, ServedInv, ServerInv, TypeOK, ClientTypeOK
<1>n. NoResponse.session = NoSession
  BY DEF NoResponse
<1>1. CASE Connect(c)
  BY <1>1 DEF Connect, Accept, Known, Unread, stream
<1>2. CASE CallBegins(c)
  <2>1. PICK op, r : op \in Calls /\ Begin(c, op, r) /\ r.session \in {NoSession, session[c]}
    BY <1>2, CallRequests
  <2>2. request'[c] = r /\ UNCHANGED <<session, held, current, response, late>>
    BY <2>1 DEF Begin, Send, stream
  <2> QED
    BY <2>1, <2>2 DEF Known, Unread
<1>3. CASE DisconnectNow(c) \/ DisconnectClose(c) \/ CallFails(c) \/ NetworkLoss(c)
  <2>1. UNCHANGED <<session, held, current, response, request>>
    BY <1>3 DEF DisconnectNow, DisconnectClose, CallFails, NetworkLoss, Disconnect, vars, conn,
       client
  <2>2. late'[c] = <<>> \/ late'[c] = late[c]
    BY <1>3 DEF DisconnectNow, DisconnectClose, CallFails, NetworkLoss, Abandon, client, stream
  <2>3. Unread(c)' \subseteq Unread(c)
    BY <2>2 DEF Unread
  <2> QED
    BY <2>1, <2>3 DEF Known
<1>a. ASSUME NEW a \in Answers, ReadAnswer(c, a) \/ Absorb(c, Garbled)
      PROVE  session'[c] \in {session[c], a.session, NoSession}
  BY <1>a DEF ReadAnswer, Absorb, SessionAfter, Garbled
<1>b. Answer(c).session \in {response[c].session, NoSession}
  BY DEF Answer
<1>c. ASSUME Reply(c)
      PROVE  /\ request'[c] = NoRequest /\ response'[c] = NoResponse
             /\ UNCHANGED <<held, current>>
  BY <1>c DEF Reply
<1>4. CASE Return(c)
  <2>1. session'[c] \in {session[c], response[c].session, NoSession}
    BY <1>4, <1>a, <1>b, AnswersTyped DEF Return
  <2>2. Unread(c)' = Unread(c)
    BY <1>4 DEF Return, Unread
  <2>3. Reply(c)
    BY <1>4 DEF Return
  <2> QED
    BY <1>c, <1>n, <2>1, <2>2, <2>3 DEF Known
<1>d. CASE ReturnLate(c)
  <2>1. late[c] \in Seq(Answers) /\ late[c] # <<>> /\ late'[c] = Tail(late[c])
    BY <1>d DEF ReturnLate
  <2>2. /\ Head(late[c]) \in Answers /\ Head(late[c]) = late[c][1] /\ 1 \in 1..Len(late[c])
        /\ \A i \in 1..Len(Tail(late[c])) :
             i + 1 \in 1..Len(late[c]) /\ Tail(late[c])[i] = late[c][i + 1]
    BY <2>1, AnswersTyped, QueueOfAnswers
  <2>3. Head(late[c]).session \in Unread(c) /\ Unread(c)' \subseteq Unread(c)
    BY <2>1, <2>2 DEF Unread
  <2>4. session'[c] \in {session[c], Head(late[c]).session, NoSession}
    BY <1>d, <1>a, <2>2 DEF ReturnLate
  <2>5. UNCHANGED <<held, current, request, response>>
    BY <1>d DEF ReturnLate, vars, conn
  <2> QED
    BY <2>3, <2>4, <2>5 DEF Known
<1>e. CASE ReturnEmpty(c)
  <2>1. session'[c] \in {session[c], NoSession} /\ late' = late
    BY <1>e DEF ReturnEmpty, Absorb, SessionAfter, Garbled, Accepted
  <2>2. UNCHANGED <<held, current, request, response>>
    BY <1>e DEF ReturnEmpty, vars, conn
  <2> QED
    BY <2>1, <2>2 DEF Known, Unread
<1>f. CASE ReplyLate(c)
  <2>1. late'[c] = Append(late[c], Answer(c)) /\ late[c] \in Seq(Answers) /\ session' = session
    BY <1>f DEF ReplyLate
  <2>2. \A i \in 1..Len(Append(late[c], Answer(c))) :
          \/ i \in 1..Len(late[c]) /\ Append(late[c], Answer(c))[i] = late[c][i]
          \/ Append(late[c], Answer(c))[i] = Answer(c)
    BY <2>1, AnswersTyped, QueueOfAnswers
  <2>3. Unread(c)' \subseteq Unread(c) \cup {response[c].session, NoSession}
    BY <1>b, <2>1, <2>2 DEF Unread
  <2>4. Reply(c)
    BY <1>f DEF ReplyLate
  <2> QED
    BY <1>c, <1>n, <2>1, <2>3, <2>4 DEF Known
<1>u. ASSUME UNCHANGED client PROVE Unread(c)' = Unread(c)
  BY <1>u DEF client, stream, Unread
<1>5. CASE SetupRegister(c) /\ UNCHANGED client
  <2>1. PICK id \in Sessions : phase[id] = "idle" /\ PM!Ask(id)
                              /\ current' = [current EXCEPT ![c] = id]
    BY <1>5 DEF SetupRegister, GenerateSessionID
  <2>2. id \in Issued' \ Issued
    BY <2>1 DEF Issued, PM!Ask, PhaseType
  <2>3. UNCHANGED <<session, held, response, request>>
    BY <1>5 DEF SetupRegister, Goto, client
  <2> QED
    BY <1>5, <1>u, <2>1, <2>2, <2>3 DEF Known
<1>6. CASE SetupAllocate(c) /\ UNCHANGED client
  <2>1. UNCHANGED <<session, current, request>>
    BY <1>6 DEF SetupAllocate, client
  <2>2. held'[c] \in {held[c], current[c]}
    BY <1>6 DEF SetupAllocate, SetupGranted, SetupRefused
  <2>3. response'[c].session \in {response[c].session, current[c], NoSession}
    BY <1>6 DEF SetupAllocate, SetupGranted, SetupRefused, Respond
  <2> QED
    BY <1>6, <1>u, <2>1, <2>2, <2>3 DEF Known
<1>7. ASSUME UNCHANGED <<session, current, request, held>>, UNCHANGED client,
             response'[c].session \in {response[c].session, NoSession}
                \/ (request[c] # NoRequest /\ response'[c].session = request[c].session)
      PROVE  Known(c)' \subseteq Known(c)
  BY <1>7, <1>u DEF Known
<1>8. CASE (HandleOptions(c) \/ HandleDescribe(c) \/ MethodNotAllowed(c) \/ SetupRejected(c)
             \/ ControlLookup(c)) /\ UNCHANGED client
  <2>1. response'[c].session \in {response[c].session, NoSession}
    BY <1>8 DEF HandleOptions, HandleDescribe, MethodNotAllowed, SetupRejected, ControlLookup,
       Respond, Goto
  <2> QED
    BY <1>7, <1>8, <2>1 DEF HandleOptions, HandleDescribe, MethodNotAllowed, SetupRejected,
       ControlLookup, client
<1>9. CASE (ControlUpdate(c) \/ TeardownRemove(c) \/ TeardownRelease(c)) /\ UNCHANGED client
  <2>1. request[c] # NoRequest
    BY <1>9 DEF ControlUpdate, TeardownRemove, TeardownRelease, Handling, AtWork, NoRequest
  <2>2. response'[c].session \in {response[c].session, NoSession, request[c].session}
    BY <1>9 DEF ControlUpdate, TeardownRemove, TeardownRelease, Respond, Goto
  <2> QED
    BY <1>7, <1>9, <2>1, <2>2 DEF ControlUpdate, TeardownRemove, TeardownRelease, client
<1>10. CASE (Reply(c) \/ Hangup(c)) /\ UNCHANGED client
  <2>1. request'[c] = NoRequest /\ response'[c] = NoResponse /\ UNCHANGED <<session, held, current>>
    BY <1>10 DEF Reply, Hangup, client
  <2> QED
    BY <1>10, <1>u, <1>n, <2>1 DEF Known
<1> QED
  BY <1>1, <1>2, <1>3, <1>4, <1>d, <1>e, <1>f, <1>5, <1>6, <1>7, <1>8, <1>9, <1>10
     DEF StepOf, ClientStep, Progress, ServerStep, Serve, CallBegins

(* Sessions stay with the connection they were issued to.                   *)
LEMMA OwnStep ==
  ASSUME SystemInv, NEW c \in Conns, StepOf(c)
  PROVE  OwnInv'
<1>1. Issued \subseteq Issued'
  BY KindsOfStep, PhaseStep DEF SystemInv, ServedInv, Issued, vars, ports
<1>2. Known(c)' \subseteq Known(c) \cup (Issued' \ Issued)
  BY KnownStep
<1>3. \A d \in Conns : d # c => Known(d)' = Known(d)
  BY OthersPrivate DEF Private, Known, Unread
<1>4. \A d \in Conns : Known(d)' \subseteq Issued'
  BY <1>1, <1>2, <1>3 DEF SystemInv, OwnInv
<1>5. \A d \in Conns : d # c => Known(d)' \cap Known(c)' = {}
  BY <1>2, <1>3 DEF SystemInv, OwnInv
<1>6. \A d, e \in Conns : d # e => Known(d)' \cap Known(e)' = {}
  BY <1>3, <1>5 DEF SystemInv, OwnInv
<1> QED
  BY <1>4, <1>6 DEF OwnInv

-----------------------------------------------------------------------------
(* A connection's call and its request go together, step by step.           *)
LEMMA CallStep ==
  ASSUME SystemInv, NEW c \in Conns, StepOf(c)
  PROVE  CallInv(c)'
<1> USE DEF SystemInv, ServedInv, ServerInv, TypeOK, ClientTypeOK
<1>i. CallInv(c)
  OBVIOUS
<1>1. CASE Connect(c)
  <2>1. UNCHANGED <<request, session, call>> /\ pc[c] = "off" /\ pc'[c] = "reading"
    BY <1>1 DEF Connect, Accept
  <2> QED
    BY <1>i, <2>1 DEF CallInv, Waiting, Calling, Calls, Quiet
<1>2. CASE CallBegins(c)
  <2>1. PICK op, r :
          /\ op \in Calls
          /\ Begin(c, op, r) /\ r # NoRequest /\ r.method = MethodOf(op)
          /\ r.method \in Controls => r.session = session[c]
    BY <1>2, CallRequests
  <2>2. /\ pc'[c] = "reading" /\ request'[c] = r /\ call'[c] = op /\ session' = session
    BY <2>1 DEF Begin, Send
  <2> QED
    BY <2>1, <2>2 DEF CallInv
<1>3. CASE DisconnectNow(c) \/ DisconnectClose(c) \/ NetworkLoss(c)
  <2>1. /\ UNCHANGED <<pc, request, session>> /\ wire'[c] # "up"
        /\ call'[c] \in {call[c], "none"}
    BY <1>3 DEF DisconnectNow, DisconnectClose, NetworkLoss, Disconnect, client, vars, conn
  <2> QED
    BY <1>i, <2>1 DEF CallInv
<1>4. CASE CallFails(c)
  BY <1>i, <1>4 DEF CallFails, vars, conn, CallInv
<1>5. CASE Return(c)
  <2>1. /\ pc'[c] = "reading" /\ request'[c] = NoRequest /\ call'[c] \in {"none", "CLOSE"}
    BY <1>5 DEF Return, Reply, Finish, Waiting, Calling, Calls, Quiet
  <2> QED
    BY <2>1 DEF CallInv, Waiting, Calling, Calls, Quiet
<1>6. CASE ReturnLate(c) \/ ReturnEmpty(c)
  <2>1. UNCHANGED <<pc, request, wire>> /\ call'[c] \in {"none", "CLOSE"} /\ call[c] \in Calls
    BY <1>6 DEF ReturnLate, ReturnEmpty, Finish, Calling, vars, conn
  <2>2. ~Waiting(c)' /\ call[c] # "none"
    BY <2>1 DEF Waiting, Calling, Calls, Quiet
  <2> QED
    BY <1>i, <2>1, <2>2 DEF CallInv
<1>7. CASE ReplyLate(c)
  <2>1. pc'[c] = "reading" /\ late'[c] = Append(late[c], Answer(c)) /\ late[c] \in Seq(Answers)
    BY <1>7 DEF ReplyLate, Reply
  <2>2. late'[c] # <<>>
    BY <2>1, AnswersTyped, QueueOfAnswers
  <2>3. ~Waiting(c)' /\ request'[c] = NoRequest
    BY <1>7, <2>2 DEF Waiting, ReplyLate, Reply
  <2> QED
    BY <2>1, <2>3 DEF CallInv
<1>8. CASE ServerStep(c) /\ ~Reply(c) /\ ~Hangup(c)
  <2>1. /\ UNCHANGED <<wire, request, session, call, late, front>>
        /\ pc'[c] \in {"allocating", "updating", "releasing", "replying"}
    BY <1>8 DEF ServerStep, Serve, HandleOptions, HandleDescribe, MethodNotAllowed, SetupRejected,
       SetupRegister, SetupAllocate, SetupGranted, SetupRefused, ControlLookup, ControlUpdate,
       TeardownRemove, TeardownRelease, Respond, Goto, client, stream
  <2>2. request[c] # NoRequest
    BY <1>8 DEF ServerStep, Serve, HandleOptions, HandleDescribe, MethodNotAllowed, SetupRejected,
       SetupRegister, SetupAllocate, ControlLookup, ControlUpdate, TeardownRemove, TeardownRelease,
       Handling, AtWork, NoRequest
  <2>3. Waiting(c)' <=> Waiting(c)
    BY <2>1 DEF Waiting, Calling
  <2> QED
    BY <1>i, <2>1, <2>2, <2>3 DEF CallInv
<1>9. CASE ServerStep(c) /\ (Reply(c) \/ Hangup(c))
  <2>1. wire'[c] # "up" /\ pc'[c] # "off"
    BY <1>9 DEF ServerStep, Reply, Hangup
  <2> QED
    BY <2>1 DEF CallInv
<1> QED
  BY <1>1, <1>2, <1>3, <1>4, <1>5, <1>6, <1>7, <1>8, <1>9
     DEF StepOf, ClientStep, Progress, CallBegins

(* A session that nothing touches is kept, and a calm view stays calm.      *)
LEMMA KeptStays ==
  ASSUME SystemInv, NEW c \in Conns, NEW s, NEW st, Keeps(c, s, st),
         UNCHANGED <<registry, state, held, intact>>, AllHeard' => AllHeard
  PROVE  Keeps(c, s, st)'
BY DEF Keeps

LEMMA CalmStays ==
  ASSUME SystemInv, NEW c \in Conns, Calm(c), request'[c].method \notin OfSession,
         UNCHANGED <<registry, state, held, intact, session, sessionState>>,
         AllHeard' => AllHeard
  PROVE  Calm(c)'
BY KeptStays DEF Calm

(* A request about a session is under way: no call but that one relies on   *)
(* anything, and only if it waits for its own answer.                       *)
LEMMA RequestsAwaited ==
  ASSUME SystemInv, NEW c \in Conns, request[c].method \in OfSession,
         UNCHANGED <<request, client, wire>>,
         wire[c] = "up" /\ Waiting(c) /\ Awaits(c) => Awaits(c)'
  PROVE  wire'[c] = "up" /\ heard'[c] => Views(c)'
<1> SUFFICES ASSUME wire[c] = "up", heard[c] PROVE Views(c)'
  BY DEF client
<1>1. Views(c) /\ ~Calm(c)
  BY DEF SystemInv, ViewInv, Calm
<1>2. (Waiting(c)' <=> Waiting(c)) /\ call' = call
  BY DEF client, stream, Waiting, Calling
<1> QED
  BY <1>1, <1>2 DEF Views

(* SETUP: the session is registered, then gets its ports or a refusal.      *)
LEMMA SetupView ==
  ASSUME SystemInv, NEW c \in Conns, SetupRegister(c) \/ SetupAllocate(c), UNCHANGED client
  PROVE  ViewInv(c)'
<1> USE DEF SystemInv, ServedInv, ServerInv, TypeOK
<1>m. request[c].method = "SETUP" /\ UNCHANGED <<request, wire, session, sessionState>>
  BY DEF SetupRegister, SetupAllocate, Handling, AtWork, client
<1>h. (AllHeard' <=> AllHeard) /\ heard' = heard /\ request[c].method \in OfSession
  BY <1>m DEF client, AllHeard, OfSession
<1>v. Awaits(c) /\ session[c] # NoSession /\ pc[c] \in {"reading", "allocating"}
        => Keeps(c, session[c], sessionState[c])
  BY DEF Awaits, Answered
<1>1. CASE SetupRegister(c)
  <2>1. PICK id \in Sessions : /\ phase[id] = "idle" /\ PM!Ask(id)
                              /\ registry' = registry \cup {id}
                              /\ state' = [state EXCEPT ![id] = "Ready"]
                              /\ current' = [current EXCEPT ![c] = id]
    BY <1>1 DEF SetupRegister, GenerateSessionID
  <2>2. pc[c] = "reading" /\ pc'[c] = "allocating" /\ held' = held /\ intact' = intact
    BY <1>1, <2>1 DEF SetupRegister, Handling, Goto, PM!Ask
  <2>3. session[c] # NoSession => session[c] # id
    BY <2>1 DEF OwnInv, Known, Issued
  <2>4. current'[c] \in registry' /\ state'[current'[c]] = "Ready"
    BY <2>1
  <2>5. Keeps(c, session[c], sessionState[c]) /\ session[c] # NoSession
           => Keeps(c, session[c], sessionState[c])'
    BY <1>h, <1>m, <2>1, <2>2, <2>3 DEF Keeps
  <2>6. Awaits(c) => Awaits(c)'
    BY <1>m, <1>v, <2>2, <2>5 DEF Awaits, Answered
  <2> QED
    BY <1>h, <1>m, <2>2, <2>4, <2>6, RequestsAwaited DEF ViewInv
<1>2. CASE SetupAllocate(c)
  <2>1. /\ pc[c] = "allocating" /\ current[c] \in Sessions /\ PM!Attempt(current[c])
        /\ UNCHANGED <<registry, state, current>>
    BY <1>2 DEF SetupAllocate, AtWork
  <2>2. /\ intact \subseteq intact'
        /\ phase'[current[c]] = "live" => current[c] \in intact'
    BY <2>1, AttemptSpares
  <2>3. CASE SetupGranted(c, current[c]) /\ phase'[current[c]] = "live"
    <3>1. /\ pc'[c] = "replying" /\ response'[c].session = current[c]
          /\ held'[c] = current[c]
      BY <2>3 DEF SetupGranted, Respond
    <3>2. Keeps(c, response[c].session, "Ready")'
      BY <2>1, <2>2, <2>3, <3>1 DEF Keeps, ViewInv
    <3>3. response'[c].status = 200
      BY <2>3 DEF SetupGranted, Respond
    <3>4. Awaits(c)'
      BY <1>m, <3>1, <3>2, <3>3 DEF Awaits, Answered, OfSession
    <3> QED
      BY <1>h, <1>m, <3>1, <3>4, RequestsAwaited DEF ViewInv
  <2>4. CASE SetupRefused(c) \/ UNCHANGED <<held, pc, response>>
    <3>1. /\ held' = held
          /\ \/ pc'[c] = "replying" /\ response'[c].status # 200
             \/ pc'[c] = "allocating"
      BY <2>1, <2>4 DEF SetupRefused, Respond
    <3>2. Keeps(c, session[c], sessionState[c]) => Keeps(c, session[c], sessionState[c])'
      BY <1>h, <1>m, <2>1, <2>2, <3>1 DEF Keeps
    <3>3. Awaits(c) => Awaits(c)'
      BY <1>m, <1>v, <2>1, <3>1, <3>2 DEF Awaits, Answered
    <3> QED
      BY <1>h, <1>m, <2>1, <3>1, <3>3, RequestsAwaited DEF ViewInv
  <2> QED
    BY <1>2, <2>3, <2>4 DEF SetupAllocate
<1> QED
  BY <1>1, <1>2

(* PLAY and PAUSE: a session the client keeps is found and updated.         *)
LEMMA ControlView ==
  ASSUME SystemInv, NEW c \in Conns, ControlLookup(c) \/ ControlUpdate(c), UNCHANGED client
  PROVE  ViewInv(c)'
<1> USE DEF SystemInv, ServedInv, ServerInv, TypeOK
<1>m. /\ request[c].method \in {"PLAY", "PAUSE"} /\ request[c] # NoRequest
      /\ UNCHANGED <<request, wire, session, sessionState, registry, held>>
  BY DEF ControlLookup, ControlUpdate, Handling, AtWork, client, NoRequest
<1>h. (AllHeard' <=> AllHeard) /\ heard' = heard /\ request[c].method \in OfSession
  BY <1>m DEF client, AllHeard, OfSession, Controls
<1>v. Awaits(c) /\ session[c] # NoSession => Keeps(c, session[c], sessionState[c])
  <2>1. pc[c] \in {"reading", "updating"}
    BY DEF ControlLookup, ControlUpdate, Handling
  <2> QED
    BY <2>1 DEF Awaits, Answered
<1>i. intact' = intact
  BY DEF ControlLookup, ControlUpdate, ports
<1>1. CASE ControlLookup(c)
  <2>1. \/ pc'[c] = "updating"
        \/ pc'[c] = "replying" /\ response'[c].status # 200
    BY <1>1 DEF ControlLookup, Respond, Goto
  <2>2. Keeps(c, session[c], sessionState[c]) => Keeps(c, session[c], sessionState[c])'
    BY <1>h, <1>m, <1>i, <1>1 DEF Keeps, ControlLookup
  <2>3. Awaits(c) => Awaits(c)'
    BY <1>m, <1>v, <2>1, <2>2 DEF Awaits, Answered
  <2> QED
    BY <1>h, <1>m, <2>1, <2>3, RequestsAwaited DEF ViewInv
<1>2. CASE ControlUpdate(c)
  <2>1. pc'[c] = "replying" /\ response'[c].status = 200 /\ request[c].session \in Sessions
    BY <1>2 DEF ControlUpdate, Respond, AtWork
  <2>2. wire[c] = "up" /\ Waiting(c) => request[c].session = session[c]
    BY <1>m DEF CallInv, Controls
  <2>3. state'[request[c].session] = IF request[c].method = "PLAY" THEN "Playing" ELSE "Ready"
    BY <1>2, <2>1 DEF ControlUpdate
  <2>4. Awaits(c) /\ wire[c] = "up" /\ Waiting(c)
          => Keeps(c, session[c], IF request[c].method = "PLAY" THEN "Playing" ELSE "Ready")'
    BY <1>h, <1>m, <1>i, <1>v, <2>1, <2>2, <2>3 DEF Keeps
  <2>5. Awaits(c) /\ wire[c] = "up" /\ Waiting(c) => Awaits(c)'
    BY <1>m, <2>1, <2>4 DEF Awaits, Answered, OfSession, Controls
  <2> QED
    BY <1>h, <1>m, <2>1, <2>5, RequestsAwaited DEF ViewInv
<1> QED
  BY <1>1, <1>2

(* TEARDOWN: what is released is the connection's own.                      *)
LEMMA TeardownView ==
  ASSUME SystemInv, NEW c \in Conns, TeardownRemove(c) \/ TeardownRelease(c), UNCHANGED client
  PROVE  ViewInv(c)'
<1> USE DEF SystemInv, ServedInv, ServerInv, TypeOK
<1>m. /\ request[c].method = "TEARDOWN" /\ request[c] # NoRequest
      /\ UNCHANGED <<request, wire, session, sessionState, held>>
  BY DEF TeardownRemove, TeardownRelease, Handling, AtWork, client, NoRequest
<1>h. (AllHeard' <=> AllHeard) /\ heard' = heard /\ request[c].method \in OfSession
  BY <1>m DEF client, AllHeard, OfSession, Controls
<1>1. CASE TeardownRemove(c)
  <2>1. pc[c] = "reading" /\ (AllHeard => held[c] \in intact')
    BY <1>m, <1>1 DEF TeardownRemove, Handling, ViewInv, ports
  <2>2. pc'[c] = "releasing" \/ (pc'[c] = "replying" /\ response'[c].status = 200)
    BY <1>1 DEF TeardownRemove, Respond, Goto
  <2>3. Awaits(c)'
    BY <1>m, <2>2 DEF Awaits, Answered, OfSession, Controls
  <2> QED
    BY <1>h, <1>m, <2>1, <2>2, <2>3, RequestsAwaited DEF ViewInv
<1>2. CASE TeardownRelease(c)
  <2>1. pc'[c] = "replying" /\ response'[c].status = 200
    BY <1>2 DEF TeardownRelease, Respond
  <2>2. Awaits(c)'
    BY <1>m, <2>1 DEF Awaits, Answered, OfSession, Controls
  <2> QED
    BY <1>h, <1>m, <2>1, <2>2, RequestsAwaited DEF ViewInv
<1> QED
  BY <1>1, <1>2

(* What a call makes of the answer to its own request.                      *)
LEMMA OwnAnswer ==
  ASSUME SystemInv, NEW c \in Conns, Return(c), heard[c], front[c] = "clean"
  PROVE  session'[c] # NoSession => Keeps(c, session'[c], sessionState'[c])
<1> USE DEF SystemInv, ServedInv, ServerInv, TypeOK, ClientTypeOK
<1>1. /\ wire[c] = "up" /\ Waiting(c) /\ call[c] \in Calls /\ pc[c] = "replying"
  BY DEF Return, Reply, Waiting, Calling
<1>2. request[c] # NoRequest /\ request[c].method = MethodOf(call[c]) /\ Awaits(c)
  BY <1>1 DEF CallInv, ViewInv, Views
<1>3. Absorb(c, Answer(c))
  BY DEF Return, ReadAnswer
<1>a. /\ Answer(c).ok <=> response[c].status = 200
      /\ call[c] = "SETUP" => Answer(c).session = response[c].session
  BY <1>2 DEF Answer, MethodOf
<1>4. CASE ~Accepted(c, Answer(c))
  <2>1. session' = session /\ sessionState' = sessionState
    BY <1>3, <1>4 DEF Absorb
  <2>2. CASE response[c].status # 200
    BY <1>1, <1>2, <2>1, <2>2 DEF Awaits, Answered
  <2>3. CASE response[c].status = 200
    <3>1. call[c] = "SETUP" /\ response[c].session = NoSession
      BY <1>4, <1>a, <2>3 DEF Accepted
    <3>2. Keeps(c, NoSession, "Ready")
      BY <1>1, <1>2, <2>3, <3>1 DEF Awaits, Answered, MethodOf
    <3> QED
      BY <3>2 DEF Keeps
  <2> QED
    BY <2>2, <2>3
<1>5. CASE Accepted(c, Answer(c))
  <2>1. /\ session'[c] = SessionAfter(call[c], session[c], Answer(c))
        /\ sessionState'[c] = StateAfter(call[c], sessionState[c])
        /\ response[c].status = 200
    BY <1>3, <1>5, <1>a DEF Absorb, Accepted
  <2>2. CASE call[c] = "SETUP"
    BY <1>1, <1>2, <1>a, <2>1, <2>2 DEF SessionAfter, StateAfter, MethodOf, Awaits, Answered
  <2>3. CASE call[c] = "PLAY"
    BY <1>1, <1>2, <2>1, <2>3 DEF SessionAfter, StateAfter, MethodOf, Awaits, Answered
  <2>4. CASE call[c] = "PAUSE"
    BY <1>1, <1>2, <2>1, <2>4 DEF SessionAfter, StateAfter, MethodOf, Awaits, Answered
  <2>5. CASE call[c] \in {"TEARDOWN", "DISCONNECT"}
    BY <2>1, <2>5 DEF SessionAfter
  <2>6. CASE call[c] \in {"OPTIONS", "DESCRIBE"}
    <3>1. session'[c] = session[c] /\ sessionState'[c] = sessionState[c]
      BY <2>1, <2>6 DEF SessionAfter, StateAfter
    <3>2. \A m \in OfSession : ~Answered(c, m)
      BY <1>2, <2>6 DEF MethodOf, Answered, OfSession, Controls
    <3> QED
      BY <1>1, <1>2, <3>1, <3>2 DEF Awaits
  <2> QED
    BY <1>1, <2>2, <2>3, <2>4, <2>5, <2>6 DEF Calls, Quiet
<1> QED
  BY <1>4, <1>5

(* A call returns: if it took its own answer, the client's view catches up, *)
(* and if it says nothing of a session the view stays; otherwise the client *)
(* has missed an answer.                                                    *)
LEMMA ReturnView ==
  ASSUME SystemInv, NEW c \in Conns, Return(c)
  PROVE  ViewInv(c)'
<1> USE DEF SystemInv, ServedInv, ServerInv, TypeOK, ClientTypeOK
<1>1. /\ wire[c] = "up" /\ Waiting(c) /\ pc[c] = "replying"
      /\ pc'[c] = "reading" /\ request'[c] = NoRequest
      /\ UNCHANGED <<registry, state, held, intact, current>>
      /\ call[c] \in Calls /\ call'[c] \in {"none", "CLOSE"}
  BY DEF Return, Reply, Finish, Waiting, Calling, ports
<1>2. AllHeard' => AllHeard
  BY HeardFalls DEF StepOf, Progress
<1>3. ~Waiting(c)' /\ NoRequest.method = "none" /\ NoRequest.method \notin OfSession
  BY <1>1 DEF Waiting, Calling, Calls, Quiet, NoRequest, OfSession, Controls
<1>4. ASSUME heard'[c] PROVE Calm(c)'
  <2>1. heard[c] /\ (front[c] = "clean" \/ call[c] \in Quiet)
    BY <1>4 DEF Return, Finish
  <2>2. CASE front[c] = "clean"
    <3>1. session'[c] # NoSession => Keeps(c, session'[c], sessionState'[c])
      BY <2>1, <2>2, OwnAnswer
    <3>2. \A s, st : Keeps(c, s, st) => Keeps(c, s, st)'
      BY <1>1, <1>2 DEF Keeps
    <3>3. session'[c] # NoSession => held'[c] = session'[c]
      BY <1>1, <3>1 DEF Keeps
    <3>4. session'[c] # NoSession =>
            /\ held'[c] = session'[c] /\ (AllHeard' => session'[c] \in intact')
            /\ session'[c] \in registry' /\ state'[session'[c]] = sessionState'[c]
      BY <1>1, <1>2, <3>1 DEF Keeps
    <3> QED
      BY <1>1, <1>3, <3>4 DEF Calm, Keeps
  <2>3. CASE front[c] # "clean" /\ call[c] \in Quiet
    <3>1. session' = session /\ sessionState' = sessionState
      BY <2>3 DEF Return, ReadAnswer, Absorb, Accepted, Garbled
    <3>2. Calm(c)
      BY <1>1, <2>1, <2>3 DEF ViewInv, Views
    <3> QED
      BY <1>1, <1>2, <1>3, <3>1, <3>2, CalmStays
  <2> QED
    BY <2>1, <2>2, <2>3
<1> QED
  BY <1>1, <1>3, <1>4 DEF ViewInv, Views

(* A call that returns on another answer, or an answer that is late, leaves *)
(* alone what the client relies on.                                         *)
LEMMA LateView ==
  ASSUME SystemInv, NEW c \in Conns, ReturnLate(c) \/ ReturnEmpty(c) \/ ReplyLate(c)
  PROVE  ViewInv(c)'
<1> USE DEF SystemInv, ServedInv, ServerInv, TypeOK, ClientTypeOK
<1>1. UNCHANGED <<wire, registry, state, held, intact, current>>
  BY DEF ReturnLate, ReturnEmpty, ReplyLate, Reply, vars, conn, ports
<1>2. AllHeard' => AllHeard
  BY HeardFalls DEF StepOf, Progress
<1>3. CASE ReturnLate(c) \/ ReturnEmpty(c)
  <2>1. /\ UNCHANGED <<pc, request>> /\ call[c] \in Calls /\ call'[c] \in {"none", "CLOSE"}
        /\ heard'[c] => heard[c] /\ call[c] \in Quiet
    BY <1>3 DEF ReturnLate, ReturnEmpty, Finish, Calling, vars, conn
  <2>2. ~Waiting(c)'
    BY <2>1 DEF Waiting, Calling, Calls, Quiet
  <2>3. ASSUME wire[c] = "up", heard'[c] PROVE Calm(c)'
    <3>1. Calm(c) /\ request'[c].method \notin OfSession
      BY <2>1, <2>3 DEF ViewInv, Views, Calm
    <3>2. ASSUME NEW a, Absorb(c, a) PROVE session'[c] = session[c] /\ sessionState'[c] = sessionState[c]
      BY <2>1, <2>3, <3>2 DEF Absorb, SessionAfter, StateAfter, Quiet
    <3>3. session'[c] = session[c] /\ sessionState'[c] = sessionState[c]
      BY <1>3, <3>2 DEF ReturnLate, ReturnEmpty, ReadAnswer
    <3> QED
      BY <1>1, <1>2, <3>1, <3>3 DEF Calm, Keeps
  <2> QED
    BY <1>1, <1>2, <2>1, <2>2, <2>3 DEF ViewInv, Views
<1>4. CASE ReplyLate(c)
  <2>1. /\ UNCHANGED <<session, sessionState, call, heard>> /\ pc'[c] = "reading"
        /\ request'[c] = NoRequest
    BY <1>4 DEF ReplyLate, Reply
  <2>2. ~Waiting(c)'
    <3>1. late'[c] = Append(late[c], Answer(c)) /\ late[c] \in Seq(Answers)
      BY <1>4 DEF ReplyLate
    <3>2. late'[c] # <<>>
      BY <3>1, AnswersTyped, QueueOfAnswers
    <3> QED
      BY <3>2 DEF Waiting
  <2>3. request'[c].method \notin OfSession /\ request'[c].method # "TEARDOWN"
    BY <2>1 DEF NoRequest, OfSession, Controls
  <2>4. Calm(c) => Calm(c)'
    BY <1>1, <1>2, <2>1, <2>3, CalmStays
  <2> QED
    BY <1>1, <2>1, <2>2, <2>3, <2>4 DEF ViewInv, Views
<1> QED
  BY <1>3, <1>4

(* What a client relies on survives each step of its own connection.        *)
LEMMA ViewStep ==
  ASSUME SystemInv, NEW c \in Conns, StepOf(c)
  PROVE  ViewInv(c)'
<1> USE DEF SystemInv, ServedInv, ServerInv, TypeOK, ClientTypeOK
<1>i. ViewInv(c) /\ CallInv(c)
  OBVIOUS
<1>h. AllHeard' => AllHeard
  BY HeardFalls
<1>1. CASE Connect(c)
  <2>1. /\ pc[c] = "off" /\ pc'[c] = "reading" /\ UNCHANGED <<request, session, call>>
        /\ request[c] = NoRequest /\ session[c] = NoSession /\ call[c] = "none"
    BY <1>1, <1>i DEF Connect, Accept, CallInv
  <2> QED
    BY <2>1 DEF ViewInv, Views, Calm, Waiting, Calling, Calls, Quiet, NoRequest, OfSession, Controls
<1>2. CASE CallBegins(c)
  <2>1. PICK op, r :
          /\ op \in Calls
          /\ Begin(c, op, r)
          /\ r.method = MethodOf(op)
          /\ r.method \in Controls => session[c] # NoSession
    BY <1>2, CallRequests
  <2>2. /\ pc[c] = "reading" /\ pc' = pc /\ request'[c] = r /\ wire[c] = "up"
        /\ call[c] = "none" /\ call'[c] = op
        /\ UNCHANGED <<wire, registry, state, held, intact, session, sessionState, heard>>
    BY <2>1 DEF Begin, Send, ports
  <2>3. heard[c] => Calm(c)
    BY <2>2 DEF ViewInv, Views
  <2>4. \A m : ~Answered(c, m)'
    BY <2>2 DEF Answered
  <2>5. Calm(c) => Awaits(c)'
    BY <1>h, <2>2, <2>4, KeptStays DEF Awaits, Calm, OfSession
  <2>6. Calm(c) /\ op \in Quiet => Calm(c)'
    <3>1. op \in Quiet => r.method \notin OfSession
      BY <2>1 DEF Quiet, MethodOf, OfSession, Controls
    <3> QED
      BY <1>h, <2>2, <3>1, CalmStays
  <2>7. r.method = "TEARDOWN" /\ AllHeard' => held[c] \in intact
    BY <1>h, <2>1, <2>3 DEF AllHeard, Calm, Keeps, Controls
  <2> QED
    BY <2>1, <2>2, <2>3, <2>5, <2>6, <2>7 DEF ViewInv, Views, Calls, Quiet
<1>3. CASE DisconnectNow(c) \/ DisconnectClose(c) \/ NetworkLoss(c) \/ CallFails(c)
  <2>1. /\ wire'[c] # "up"
        /\ UNCHANGED <<pc, current, request, held, intact, registry, state>>
    BY <1>3 DEF DisconnectNow, DisconnectClose, NetworkLoss, CallFails, Disconnect, vars, conn,
       ports
  <2> QED
    BY <1>h, <1>i, <2>1 DEF ViewInv
<1>4. CASE (HandleOptions(c) \/ HandleDescribe(c) \/ MethodNotAllowed(c) \/ SetupRejected(c))
             /\ UNCHANGED client
  <2>1. /\ pc[c] = "reading" /\ pc'[c] = "replying"
        /\ UNCHANGED <<wire, request, registry, state, held, intact, session, sessionState, call,
                       late, front, heard>>
    BY <1>4 DEF HandleOptions, HandleDescribe, MethodNotAllowed, SetupRejected, Handling, Respond,
       client, stream, ports
  <2>2. request[c].method \in {"OPTIONS", "DESCRIBE", "OTHER"} \/ response'[c].status # 200
    BY <1>4 DEF HandleOptions, HandleDescribe, MethodNotAllowed, SetupRejected, Handling, Respond
  <2>3. \A m \in OfSession : ~Answered(c, m) /\ ~Answered(c, m)'
    BY <2>1, <2>2 DEF Answered, OfSession, Controls
  <2>4. Awaits(c) => Awaits(c)'
    BY <1>h, <2>1, <2>3, KeptStays DEF Awaits, OfSession, Controls
  <2>5. Calm(c) => Calm(c)'
    BY <1>h, <2>1, CalmStays DEF Calm
  <2>6. Waiting(c)' <=> Waiting(c)
    BY <2>1 DEF Waiting, Calling
  <2> QED
    BY <2>1, <2>4, <2>5, <2>6 DEF ViewInv, Views
<1>5. CASE ServerStep(c) /\ (Reply(c) \/ Hangup(c))
  <2>1. wire'[c] # "up" /\ pc'[c] \in {"reading", "closed"} /\ request'[c] = NoRequest
    BY <1>5 DEF ServerStep, Reply, Hangup
  <2> QED
    BY <2>1 DEF ViewInv, NoRequest
<1> QED
  BY <1>1, <1>2, <1>3, <1>4, <1>5, SetupView, ControlView, TeardownView, ReturnView, LateView
     DEF StepOf, ClientStep, Progress, CallBegins, ServerStep, Serve

-----------------------------------------------------------------------------
(* The invariant holds before the server starts ...                         *)
LEMMA SystemInit == ClientInit => SystemInv
<1> SUFFICES ASSUME ClientInit PROVE SystemInv
  OBVIOUS
<1> USE DEF ClientInit
<1>1. ServedInv
  BY ServerInit, ReservedInit DEF ServedInv, HeldInv, Init
<1>2. due = FALSE
  BY DEF Init, PM!Init
<1>3. ClientTypeOK
  <2>1. <<>> \in Seq(Answers)
    OBVIOUS
  <2> QED
    BY <2>1 DEF ClientTypeOK, SessionStates
<1>4. \A c \in Conns : Known(c) = {}
  <2>1. \A c \in Conns : Unread(c) = {}
    BY DEF Unread
  <2> QED
    BY <2>1 DEF Known, Init, NoResponse
<1>5. OwnInv
  BY <1>4 DEF OwnInv
<1>6. \A c \in Conns : CallInv(c) /\ ViewInv(c)
  BY DEF CallInv, ViewInv, Init, NoRequest
<1> QED
  BY <1>1, <1>2, <1>3, <1>5, <1>6 DEF SystemInv

(* ... and after each step of a client, its connection or the network.      *)
LEMMA SystemInvStep == SystemInv /\ [SystemNext]_allVars => SystemInv'
<1> SUFFICES ASSUME SystemInv, [SystemNext]_allVars PROVE SystemInv'
  OBVIOUS
<1>1. ServedInv'
  BY SystemStepServes, ServerInvStep, HeldStep, ReservedStep DEF SystemInv, ServedInv
<1>2. ASSUME NEW c \in Conns, StepOf(c) PROVE SystemInv'
  <2>1. due' = FALSE
    <3>1. due' \in {due, FALSE}
      BY <1>2, KindsOfStep DEF SetupRegister, SetupAllocate, ControlUpdate, TeardownRemove,
         TeardownRelease, ports, PM!Ask, PM!Attempt, PM!ReleasePorts
    <3> QED
      BY <3>1 DEF SystemInv
  <2>2. ClientTypeOK' /\ OwnInv'
    BY <1>2, ClientTypeStep, OwnStep
  <2>3. \A d \in Conns : CallInv(d)' /\ ViewInv(d)'
    BY <1>2, OthersKeep, CallStep, ViewStep
  <2> QED
    BY <1>1, <2>1, <2>2, <2>3 DEF SystemInv
<1>3. CASE UNCHANGED <<ports, registry, state, conn, client>>
  <2>1. UNCHANGED <<due, intact, phase, registry, state, wire, pc, request, response, current,
                    held, connected, sdp, session, sessionState, call, late, front, tears, heard>>
    BY <1>3 DEF ports, conn, client, stream
  <2>2. ClientTypeOK'
    BY <2>1 DEF SystemInv, ClientTypeOK
  <2>3. \A c \in Conns : Known(c)' = Known(c)
    BY <2>1 DEF Known, Unread
  <2>4. OwnInv'
    BY <2>1, <2>3 DEF SystemInv, OwnInv, Issued
  <2>w. AllHeard' <=> AllHeard
    BY <2>1 DEF AllHeard
  <2>5. \A c \in Conns : CallInv(c)'
    BY <2>1 DEF SystemInv, CallInv, Waiting, Calling
  <2>6. \A c \in Conns : ViewInv(c)'
    BY <2>1, <2>w DEF SystemInv, ViewInv, Views, Calm, Awaits, Answered, Keeps, Waiting, Calling
  <2> QED
    BY <1>1, <2>1, <2>2, <2>4, <2>5, <2>6 DEF SystemInv
<1>4. CASE StartServer
  BY <1>3, <1>4 DEF StartServer, Listen, EnterLoop
<1> QED
  BY <1>2, <1>3, <1>4 DEF SystemNext, StepOf, allVars, vars

(* What holds of every client between two calls while its connection is up, *)
(* if it has heard its answers.                                             *)
LEMMA ClientKeeps == SystemInv => ViewsAgree /\ GrantedPortsKept
<1> SUFFICES ASSUME SystemInv, NEW c \in Conns, heard[c],
                    call[c] = "none", wire[c] = "up", session[c] # NoSession
             PROVE  Keeps(c, session[c], sessionState[c])
  BY DEF ViewsAgree, GrantedPortsKept, Keeps, AllHeard
<1> QED
  BY DEF SystemInv, ViewInv, Views, Calm

(* Between two calls a client whose connection never broke, and whose calls *)
(* about a session took their own answers, finds its session registered, in *)
(* the state it believes, whatever the others do and whatever they missed.  *)
THEOREM ClientsAgree == SystemSpec => []ViewsAgree
BY ClientKeeps, SystemInit, SystemInvStep, PTL DEF SystemSpec

(* The ports such a client was granted are still reserved for it, if the    *)
(* others took their own answers too.                                       *)
THEOREM GrantsAreKept == SystemSpec => []GrantedPortsKept
BY ClientKeeps, SystemInit, SystemInvStep, PTL DEF SystemSpec

(* A connection loses its ports only by its own TEARDOWN, or by that of a   *)
(* connection that lost its own, which takes a client that missed an answer.*)
THEOREM NoForeignReleases == SystemSpec => NoForeignRelease
<1> DEFINE Robbed == ~AllHeard /\ \E e \in Conns : pc[e] = "releasing" /\ held[e] \notin intact
<1>1. ASSUME SystemInv, [SystemNext]_allVars, NEW d \in Conns,
             held[d] \in intact, held'[d] \notin intact'
      PROVE  request[d].method = "TEARDOWN" \/ Robbed
  <2> USE DEF SystemInv, ServedInv, ServerInv, TypeOK
  <2>1. ASSUME NEW c \in Conns, StepOf(c), c # d PROVE Robbed
    <3>1. ~AllHeard /\ held'[d] = held[d] /\ held[d] \in intact /\ held[d] \notin intact'
      BY <1>1, <2>1, OthersKeep, OthersPrivate DEF Private
    <3>2. CASE TeardownRelease(c)
      <4>1. held[c] \in Sessions /\ PM!ReleasePorts(held[c])
        <5>1. CASE held[c] = NoSession
          BY <3>1, <3>2, <5>1 DEF TeardownRelease, ports
        <5>2. CASE held[c] # NoSession
          BY <1>1, <3>2, <5>2 DEF TeardownRelease
        <5> QED
          BY <5>1, <5>2
      <4>2. held[c] # held[d]
        <5>1. held[c] # NoSession
          BY <4>1
        <5>2. held[c] \in Known(c) /\ Known(c) \cap Known(d) = {}
          BY <1>1, <2>1, <5>1 DEF OwnInv, Known
        <5>3. held[c] = held[d] => held[c] \in Known(d)
          BY <5>1 DEF Known
        <5> QED
          BY <5>2, <5>3
      <4>3. held[c] \notin intact
        BY <1>1, <3>1, <4>1, <4>2, ReleaseSpares
      <4> QED
        BY <3>1, <3>2, <4>3 DEF TeardownRelease
    <3>3. CASE SetupRegister(c)
      BY <1>1, <3>1, <3>3 DEF SetupRegister, PM!Ask
    <3>4. CASE SetupAllocate(c)
      <4>1. current[c] \in Sessions /\ intact \subseteq intact'
        BY <1>1, <3>4, AttemptSpares DEF SetupAllocate, AtWork
      <4> QED
        BY <1>1, <3>1, <4>1
    <3>5. CASE ControlUpdate(c) \/ TeardownRemove(c) \/ UNCHANGED ports
      <4>1. intact' = intact
        BY <3>5 DEF ControlUpdate, TeardownRemove, ports
      <4> QED
        BY <3>1, <4>1
    <3> QED
      BY <1>1, <2>1, <3>2, <3>3, <3>4, <3>5, KindsOfStep
  <2>2. CASE StepOf(d)
    <3>1. CASE SetupRegister(d)
      <4>1. intact' = intact /\ held' = held
        BY <3>1 DEF SetupRegister, PM!Ask
      <4> QED
        BY <1>1, <4>1
    <3>2. CASE SetupAllocate(d)
      <4>1. /\ current[d] \in Sessions /\ intact \subseteq intact'
            /\ phase'[current[d]] = "live" => current[d] \in intact'
        BY <1>1, <3>2, AttemptSpares DEF SetupAllocate, AtWork
      <4>2. \/ held'[d] = current[d] /\ phase'[current[d]] = "live"
            \/ held' = held
        BY <1>1, <3>2, <4>1 DEF SetupAllocate, SetupGranted, SetupRefused
      <4> QED
        BY <1>1, <4>1, <4>2
    <3>3. CASE ControlUpdate(d)
      BY <1>1, <3>3 DEF ControlUpdate, ports
    <3>4. CASE TeardownRemove(d) \/ TeardownRelease(d)
      BY <1>1, <3>4 DEF TeardownRemove, TeardownRelease, Handling, AtWork
    <3>5. CASE UNCHANGED <<ports, registry, state, held, current>>
      BY <1>1, <3>5 DEF ports
    <3> QED
      BY <1>1, <2>2, <3>1, <3>2, <3>3, <3>4, <3>5, KindsOfStep
  <2>3. CASE StartServer \/ UNCHANGED allVars
    <3>1. held' = held /\ intact' = intact
      BY <2>3 DEF StartServer, Listen, EnterLoop, allVars, vars, conn, ports
    <3> QED
      BY <1>1, <3>1
  <2> QED
    BY <1>1, <2>1, <2>2, <2>3 DEF SystemNext, StepOf
<1>2. SystemInv /\ [SystemNext]_allVars
        => [\A c \in Conns :
              (held[c] \in intact /\ held'[c] \notin intact')
                 => \/ request[c].method = "TEARDOWN"
                    \/ ~AllHeard /\ \E d \in Conns : pc[d] = "releasing" /\ held[d] \notin intact]_allVars
  BY <1>1
<1> QED
  BY <1>2, SystemInit, SystemInvStep, PTL DEF SystemSpec, NoForeignRelease
=============================================================================
