----------------------------- MODULE LoggerProofs -----------------------------
(***************************************************************************)
(* Safety of the logger for any number of goroutines, calls and seconds.   *)
(***************************************************************************)
EXTENDS Logger, TLAPS

USE LoggerAssumption DEF Info, Error, Named, Unnamed, Gone, Rotated, Seconds, Files


(* The places an entry can be in are told apart.                            *)
LEMMA PlacesDistinct ==
  /\ Named # Unnamed /\ Named # Gone /\ Unnamed # Gone
  /\ \A n \in Nat : Rotated(n) \notin {Named, Unnamed, Gone}
  /\ \A m, n \in Nat : Rotated(m) = Rotated(n) => m = n
BY SMT

(* A rotation leaves an entry somewhere an entry can be.                    *)
LEMMA RenamedPlace ==
  ASSUME TypeOK, NEW e \in entries
  PROVE  Renamed(e) \in Places
BY DEF TypeOK, Entries, Renamed, Places, Timestamp

(* What each step does to the entries leaves them entries.                  *)
LEMMA EntriesStep ==
  ASSUME TypeOK, [Next]_vars
  PROVE  entries' \subseteq Entries
<1> USE DEF TypeOK
<1>1. ASSUME NEW g \in Callers, Locked(g) PROVE entries' \subseteq Entries
  <2>1. CASE WriteAudit(g) \/ WriteLog(g)
    <3>1. call[g].event \in Nat
      BY DEF Ops
    <3> QED
      BY <2>1, <3>1 DEF WriteAudit, WriteLog, Write, Entries, Places
  <2>2. CASE MarshalFails(g) \/ DoSetLevel(g)
    BY <2>2 DEF MarshalFails, DoSetLevel, disk
  <2>3. CASE DoRotate(g)
    <3>1. \A e \in entries : Renamed(e) \in Places
      BY RenamedPlace
    <3> QED
      BY <2>3, <3>1 DEF DoRotate, Entries
  <2>4. CASE DoClose(g)
    BY <2>4 DEF DoClose, Closes, Opened, Entries, Places
  <2> QED
    BY <1>1, <2>1, <2>2, <2>3, <2>4 DEF Locked
<1>2. ASSUME NEW g \in Callers, NEW f \in Files, NEW place, RemoveOld(g, f, place)
      PROVE  entries' \subseteq Entries
  BY <1>2 DEF RemoveOld, Entries, Places
<1>3. CASE Restart
  BY <1>3 DEF Restart, Opened, Entries, Places
<1>4. ASSUME NEW g \in Callers, Calls(g) \/ SkipAudit(g) \/ Filter(g) \/ EndCleanup(g)
      PROVE  entries' \subseteq Entries
  BY <1>4 DEF Calls, Log, SetLevel, RotateLogs, Close, CleanupOldLogs, LogEvent, Begin,
     SkipAudit, Filter, EndCleanup, disk
<1>5. CASE Tick \/ UNCHANGED vars
  BY <1>5 DEF Tick, vars, disk
<1> QED
  BY <1>1, <1>2, <1>3, <1>4, <1>5 DEF Next

(* Starting a call keeps the types.                                         *)
LEMMA BeginType ==
  ASSUME TypeOK, NEW g \in Callers, NEW v \in Levels, NEW event \in Nat,
         NEW label \in {"audit", "filter", "locking", "cleaning"},
         NEW op \in {"log", "event", "setlevel", "rotate", "close", "cleanup"},
         Begin(g, label, op, v, event)
  PROVE  TypeOK'
BY DEF Begin, Watch, TypeOK, Ops

(* Every step keeps the types.                                              *)
LEMMA TypeStep == TypeOK /\ [Next]_vars => TypeOK'
<1> SUFFICES ASSUME TypeOK, [Next]_vars PROVE TypeOK'
  OBVIOUS
<1>e. entries' \subseteq Entries
  BY EntriesStep
<1>n. Nothing \in Ops
  BY DEF Nothing, Ops
<1>1. ASSUME NEW g \in Callers, Calls(g) PROVE TypeOK'
  <2>1. ASSUME NEW v \in Levels, Log(g, v) \/ SetLevel(g, v) PROVE TypeOK'
    BY <2>1, BeginType DEF Log, SetLevel
  <2>2. CASE RotateLogs(g) \/ Close(g) \/ CleanupOldLogs(g)
    BY <2>2, BeginType DEF RotateLogs, Close, CleanupOldLogs
  <2>3. ASSUME NEW v \in {Info, Error}, LogEvent(g, v, calls + 1) PROVE TypeOK'
    <3>1. calls + 1 \in Nat
      BY DEF TypeOK
    <3> QED
      BY <2>3, <3>1, BeginType DEF LogEvent
  <2>4. CASE LogEvent(g, Info, 0)
    BY <2>4, BeginType DEF LogEvent
  <2> QED
    BY <1>1, <2>1, <2>2, <2>3, <2>4 DEF Calls
<1>2. ASSUME NEW g \in Callers, Locked(g) PROVE TypeOK'
  <2> USE DEF TypeOK, Return, Goto, Stick
  <2>1. CASE WriteAudit(g) \/ WriteLog(g)
    BY <1>e, <1>n, <2>1 DEF WriteAudit, WriteLog
  <2>2. CASE MarshalFails(g)
    BY <1>n, <2>2 DEF MarshalFails, disk
  <2>3. CASE DoSetLevel(g)
    <3>1. level' \in Levels
      BY <2>3 DEF DoSetLevel, Ops
    <3> QED
      BY <1>n, <2>3, <3>1 DEF DoSetLevel, disk
  <2>4. CASE DoRotate(g)
    <3>1. fd' \in [Files -> {"open", "orphan", "closed"}] /\ exists' \in [Files -> BOOLEAN]
      BY <2>4 DEF DoRotate
    <3>2. careful' \in BOOLEAN /\ gap' \in Nat
      BY <2>4 DEF DoRotate, Watch
    <3> QED
      BY <1>e, <1>n, <2>4, <3>1, <3>2 DEF DoRotate
  <2>5. CASE DoClose(g)
    BY <1>e, <1>n, <2>5 DEF DoClose, Closes, Watch
  <2> QED
    BY <1>2, <2>1, <2>2, <2>3, <2>4, <2>5 DEF Locked
<1>3. ASSUME NEW g \in Callers, SkipAudit(g) \/ Filter(g) \/ EndCleanup(g) PROVE TypeOK'
  BY <1>n, <1>3 DEF SkipAudit, Filter, EndCleanup, TypeOK, Return, Goto, disk
<1>4. ASSUME NEW g \in Callers, NEW f \in Files, NEW place, RemoveOld(g, f, place) PROVE TypeOK'
  BY <1>e, <1>4 DEF RemoveOld, Watch, TypeOK, Goto
<1>5. CASE Restart
  BY <1>e, <1>n, <1>5 DEF Restart, Watch, TypeOK
<1>6. CASE Tick \/ UNCHANGED vars
  BY <1>6 DEF Tick, TypeOK, vars, disk
<1> QED
  BY <1>1, <1>2, <1>3, <1>4, <1>5, <1>6 DEF Next

(* The types hold at the start.                                             *)
LEMMA TypeInit == Init => TypeOK
BY DEF Init, TypeOK, Nothing, Ops

(* Every variable keeps its type, for any callers and bounds.               *)
THEOREM LoggerTypeCorrect == Spec => []TypeOK
BY TypeInit, TypeStep, PTL DEF Spec

-----------------------------------------------------------------------------
(* As long as all were careful, the descriptors are on the named files and  *)
(* an entry is in one of those, or in a file rotated at some second no      *)
(* later than the latest rotation: a rotation in a later second renames to  *)
(* a name nothing is in.                                                    *)
Kept(e) ==
  \/ e.place = Named
  \/ rotated.ever /\ \E n \in Seconds : e.place = Rotated(n) /\ n <= rotated.at
KeptInv ==
  careful => /\ \A f \in Held : fd[f] = "open" /\ exists[f]
             /\ rotated.at <= clock
             /\ \A e \in entries : Kept(e)

(* Every step keeps the descriptors and files in order while all are careful. *)
LEMMA KeptStep ==
  ASSUME TypeOK, KeptInv, [Next]_vars
  PROVE  KeptInv'
<1> USE DEF KeptInv
<1>s. SUFFICES ASSUME careful'
               PROVE  /\ \A f \in Held' : fd'[f] = "open" /\ exists'[f]
                      /\ rotated'.at <= clock'
                      /\ \A e \in entries' : Kept(e)'
  OBVIOUS
<1>1. ASSUME NEW g \in Callers, WriteAudit(g) \/ WriteLog(g) PROVE KeptInv'
  <2>1. careful /\ UNCHANGED <<careful, enableAudit, fd, exists, clock, rotated>>
    BY <1>1, <1>s DEF WriteAudit, WriteLog
  <2>2. ASSUME NEW f \in Held, Write(f, call[g].event), NEW e \in entries'
        PROVE  e \in entries \/ e.place = Named
    <3>1. fd[f] = "open"
      BY <2>1
    <3> QED
      BY <2>2, <3>1 DEF Write
  <2>3. \A e \in entries' : e \in entries \/ e.place = Named
    BY <1>1, <2>2 DEF WriteAudit, TakesToAudit, WriteLog, Held
  <2> QED
    BY <2>1, <2>3 DEF Kept, Held
<1>2. ASSUME NEW g \in Callers, DoRotate(g) PROVE KeptInv'
  <2>1. /\ careful /\ rotated # rotated' /\ rotated' = [ever |-> TRUE, at |-> clock]
        /\ UNCHANGED clock
        /\ entries' = {[e EXCEPT !.place = Renamed(e)] : e \in entries}
    BY <1>2, <1>s DEF DoRotate
  <2>2. \A f \in Held' : fd'[f] = "open" /\ exists'[f]
    BY <1>2, <1>s DEF DoRotate, Held
  <2>3. rotated.ever => rotated.at < clock
    BY <2>1 DEF TypeOK
  <2>4. ASSUME NEW e \in entries
        PROVE  \/ Renamed(e) = Named
               \/ \E n \in Seconds : Renamed(e) = Rotated(n) /\ n <= clock
    <3>1. CASE e.place = Named
      BY <3>1 DEF Renamed, Timestamp, TypeOK
    <3>2. ASSUME rotated.ever, NEW n \in Seconds, e.place = Rotated(n), n <= rotated.at
          PROVE  Renamed(e) = Rotated(n) /\ n <= clock
      <4>1. n < clock /\ clock \in Nat
        BY <2>3, <3>2 DEF TypeOK
      <4>2. e.place # Rotated(clock) /\ e.place # Named /\ e.place # Unnamed
        BY <3>2, <4>1, PlacesDistinct
      <4> QED
        BY <3>2, <4>1, <4>2 DEF Renamed, Timestamp
    <3> QED
      BY <2>1, <3>1, <3>2 DEF Kept
  <2>5. ASSUME NEW e \in entries'
        PROVE  \/ e.place = Named
               \/ \E n \in Seconds : e.place = Rotated(n) /\ n <= clock
    <3>1. PICK d \in entries : e = [d EXCEPT !.place = Renamed(d)]
      BY <2>1
    <3>2. e.place = Renamed(d)
      BY <3>1 DEF TypeOK, Entries
    <3> QED
      BY <2>4, <3>2
  <2>6. rotated'.ever /\ rotated'.at = clock /\ clock' = clock /\ clock <= clock
    BY <2>1 DEF TypeOK
  <2> QED
    BY <2>2, <2>5, <2>6 DEF Kept
<1>3. ASSUME NEW g \in Callers, DoClose(g) PROVE FALSE
  BY <1>3, <1>s DEF DoClose, Closes
<1>4. ASSUME NEW g \in Callers, NEW f \in Files, NEW place, RemoveOld(g, f, place) PROVE FALSE
  BY <1>4, <1>s DEF RemoveOld
<1>5. CASE Restart
  <2>1. \A e \in entries : e.place # Unnamed
    BY <1>5, <1>s, PlacesDistinct DEF Restart, Kept
  <2>2. \A e \in entries : [e EXCEPT !.place = IF @ = Unnamed THEN Gone ELSE @] = e
    BY <2>1 DEF TypeOK, Entries
  <2>3. entries' = entries
    BY <1>5, <2>2 DEF Restart, Opened
  <2> QED
    BY <1>5, <1>s, <2>3 DEF Restart, Kept, Held
<1>6. CASE Tick
  BY <1>6, <1>s DEF Tick, Kept, Held, TypeOK
<1>7. CASE UNCHANGED <<enableAudit, fd, exists, clock, entries, rotated, careful>>
  BY <1>7, <1>s DEF Kept, Held
<1> QED
  BY <1>s, <1>1, <1>2, <1>3, <1>4, <1>5, <1>6, <1>7
     DEF Next, Locked, Calls, SkipAudit, Filter, EndCleanup, MarshalFails, DoSetLevel, vars, disk,
         Log, SetLevel, RotateLogs, Close, CleanupOldLogs, LogEvent, Begin

(* Nothing that was written is lost as long as nobody cleans up or closes,  *)
(* files can be reopened and rotations are a second apart.                  *)
THEOREM NothingIsLost == Spec => []EntriesKept
<1>1. ASSUME Init PROVE KeptInv
  <2>1. \A f \in Held : fd[f] = "open" /\ exists[f]
    BY <1>1 DEF Init, Held
  <2>2. rotated.at = 0 /\ clock = 0 /\ entries = {}
    BY <1>1 DEF Init
  <2> QED
    BY <2>1, <2>2 DEF KeptInv
<1>2. TypeOK /\ KeptInv /\ [Next]_vars => KeptInv'
  BY KeptStep
<1>3. TypeOK /\ KeptInv => EntriesKept
  BY PlacesDistinct DEF KeptInv, EntriesKept, Kept
<1> QED
  BY <1>1, <1>2, <1>3, LoggerTypeCorrect, PTL DEF Spec

-----------------------------------------------------------------------------
(* While the logger is without audit.log the gap reaches up to now; and    *)
(* whoever is past the audit entry of an event after it has written it.     *)
Audited(n) == \E a \in entries : a.file = "audit" /\ a.event = n
PastAudit(g) == pc[g] \in {"filter", "locking", "cleaning", "cleaned"} /\ call[g].event > gap
GapInv ==
  /\ gap <= calls
  /\ Auditing \/ gap = calls
  /\ \A g \in Callers : call[g].event <= calls
AuditInv ==
  /\ GapInv
  /\ EventsAudited
  /\ \A g \in Callers : PastAudit(g) => Audited(call[g].event)

(* The gap only grows, and covers every moment without audit.log.           *)
LEMMA GapStep ==
  ASSUME TypeOK, TypeOK', GapInv, [Next]_vars
  PROVE  GapInv' /\ gap <= gap'
<1> USE DEF GapInv, TypeOK
<1>o. \A g \in Callers : call[g] \in Ops /\ call'[g] \in Ops
  OBVIOUS
<1>1. ASSUME calls' = calls, Watch PROVE gap' <= calls' /\ (Auditing' \/ gap' = calls') /\ gap <= gap'
  BY <1>1 DEF Watch
<1>2. ASSUME calls' = calls, UNCHANGED <<enableAudit, fd, gap>>
      PROVE  gap' <= calls' /\ (Auditing' \/ gap' = calls') /\ gap <= gap'
  BY <1>2 DEF Auditing
<1>3. ASSUME calls' = calls, NEW g \in Callers, call' \in {call, [call EXCEPT ![g] = Nothing]}
      PROVE  \A h \in Callers : call'[h].event <= calls'
  BY <1>3 DEF Nothing
<1>4. ASSUME NEW g \in Callers, Calls(g) PROVE GapInv' /\ gap <= gap'
  <2>1. ASSUME NEW label, NEW op, NEW v, NEW n \in {0, calls + 1}, Begin(g, label, op, v, n)
        PROVE  GapInv' /\ gap <= gap'
    <3>1. gap' <= calls' /\ (Auditing' \/ gap' = calls') /\ gap <= gap'
      BY <2>1 DEF Begin, Watch
    <3>2. \A h \in Callers : call'[h].event <= calls'
      BY <1>o, <2>1 DEF Begin, Ops
    <3> QED
      BY <3>1, <3>2
  <2> QED
    BY <1>4, <2>1 DEF Calls, Log, SetLevel, RotateLogs, Close, CleanupOldLogs, LogEvent
<1>5. ASSUME NEW g \in Callers, Locked(g) PROVE GapInv' /\ gap <= gap'
  <2>1. CASE WriteAudit(g) \/ MarshalFails(g) \/ WriteLog(g) \/ DoSetLevel(g)
    BY <1>2, <1>3, <2>1
       DEF WriteAudit, MarshalFails, WriteLog, DoSetLevel, Goto, Return, Stick, disk
  <2>2. CASE DoRotate(g) \/ DoClose(g)
    BY <1>1, <1>3, <2>2 DEF DoRotate, DoClose, Closes, Goto, Return, Stick
  <2> QED
    BY <1>5, <2>1, <2>2 DEF Locked
<1>6. ASSUME NEW g \in Callers, SkipAudit(g) \/ Filter(g) \/ EndCleanup(g)
      PROVE  GapInv' /\ gap <= gap'
  BY <1>2, <1>3, <1>6 DEF SkipAudit, Filter, EndCleanup, Goto, Return, disk
<1>7. ASSUME NEW g \in Callers, NEW f \in Files, NEW place, RemoveOld(g, f, place)
      PROVE  GapInv' /\ gap <= gap'
  BY <1>1, <1>3, <1>7 DEF RemoveOld, Goto
<1>8. CASE Restart
  BY <1>1, <1>8 DEF Restart, Nothing
<1>9. CASE Tick \/ UNCHANGED vars
  BY <1>2, <1>9 DEF Tick, vars, disk
<1> QED
  BY <1>4, <1>5, <1>6, <1>7, <1>8, <1>9 DEF Next

(* Wherever a step moves entries, each keeps its file and its event, and    *)
(* an entry that is new was written by one of the two that write.           *)
Same(d, e) == d.file = e.file /\ d.event = e.event
Writes == \E g \in Callers : WriteAudit(g) \/ WriteLog(g)

(* A step forgets no event, and adds none unless it writes.                 *)
LEMMA EntriesKeepEvents ==
  ASSUME TypeOK, [Next]_vars
  PROVE  /\ \A e \in entries : \E d \in entries' : Same(d, e)
         /\ \A d \in entries' : (\E e \in entries : Same(d, e)) \/ Writes
<1> DEFINE Goal == /\ \A e \in entries : \E d \in entries' : Same(d, e)
                   /\ \A d \in entries' : (\E e \in entries : Same(d, e)) \/ Writes
<1>1. ASSUME entries' = Opened PROVE Goal
  <2>1. entries' = {[e EXCEPT !.place = IF @ = Unnamed THEN Gone ELSE @] : e \in entries}
    BY <1>1 DEF Opened
  <2>2. \A e \in entries : Same([e EXCEPT !.place = IF @ = Unnamed THEN Gone ELSE @], e)
    BY DEF Same, TypeOK, Entries
  <2> QED
    BY <2>1, <2>2
<1>2. ASSUME NEW g \in Callers, DoRotate(g) PROVE Goal
  <2>1. entries' = {[e EXCEPT !.place = Renamed(e)] : e \in entries}
    BY <1>2 DEF DoRotate
  <2>2. \A e \in entries : Same([e EXCEPT !.place = Renamed(e)], e)
    BY DEF Same, TypeOK, Entries
  <2> QED
    BY <2>1, <2>2
<1>3. ASSUME NEW g \in Callers, NEW f \in Files, NEW place, RemoveOld(g, f, place) PROVE Goal
  <2> DEFINE Moved(e) == [e EXCEPT !.place =
                            IF e.file # f \/ e.place # place THEN @
                            ELSE IF place = Named /\ fd[f] = "open" THEN Unnamed ELSE Gone]
  <2>1. entries' = {Moved(e) : e \in entries}
    BY <1>3 DEF RemoveOld
  <2>2. \A e \in entries : Same(Moved(e), e)
    BY DEF Same, TypeOK, Entries
  <2> QED
    BY <2>1, <2>2
<1>4. ASSUME NEW g \in Callers, WriteAudit(g) \/ WriteLog(g) PROVE Goal
  <2>1. entries \subseteq entries'
    BY <1>4 DEF WriteAudit, WriteLog, Write
  <2>2. \A e \in entries : \E d \in entries' : Same(d, e)
    BY <2>1 DEF Same
  <2>3. Writes
    BY <1>4 DEF Writes
  <2> QED
    BY <2>2, <2>3
<1>5. CASE UNCHANGED entries
  BY <1>5 DEF Same
<1>6. QED
  BY <1>1, <1>2, <1>3, <1>4, <1>5
     DEF Next, Locked, DoClose, Closes, Restart, Calls, SkipAudit, Filter, EndCleanup, MarshalFails, DoSetLevel,
         Tick, vars, disk, Log, SetLevel, RotateLogs, Close, CleanupOldLogs, LogEvent, Begin

(* A call that is past its audit entry has one in the audit file.           *)
LEMMA PastStep ==
  ASSUME TypeOK, TypeOK', AuditInv, [Next]_vars, NEW g \in Callers, PastAudit(g)'
  PROVE  Audited(call[g].event)' /\ call'[g] = call[g]
<1> USE DEF TypeOK
<1>a. \A n : Audited(n) => Audited(n)'
  BY EntriesKeepEvents DEF Audited, Same
<1>g. gap <= gap' /\ gap \in Nat /\ gap' \in Nat
  BY GapStep DEF AuditInv
<1>o. \A h \in Callers : call[h].event \in Nat /\ call'[h].event \in Nat
  BY DEF Ops
<1>s. ASSUME PastAudit(g), call'[g] = call[g] PROVE Audited(call[g].event)' /\ call'[g] = call[g]
  BY <1>a, <1>s DEF AuditInv
<1>1. ASSUME NEW h \in Callers, Calls(h) PROVE PastAudit(g) /\ call'[g] = call[g]
  <2>1. ASSUME NEW label, NEW op, NEW v, NEW n, Begin(h, label, op, v, n),
               n = 0 \/ label = "audit"
        PROVE  PastAudit(g) /\ call'[g] = call[g]
    <3>1. CASE g = h
      BY <1>g, <2>1, <3>1 DEF Begin, PastAudit
    <3>2. CASE g # h
      BY <1>g, <1>o, <2>1, <3>2 DEF Begin, PastAudit
    <3> QED
      BY <3>1, <3>2
  <2> QED
    BY <1>1, <2>1
       DEF Calls, Log, SetLevel, RotateLogs, Close, CleanupOldLogs, LogEvent
<1>2. ASSUME NEW h \in Callers, WriteAudit(h)
      PROVE  Audited(call[g].event)' /\ call'[g] = call[g]
  <2>1. call' = call /\ Write("audit", call[h].event) /\ UNCHANGED <<fd, gap>>
    BY <1>2 DEF WriteAudit, Goto
  <2>2. CASE g = h
    <3>1. fd["audit"] = "open"
      BY <1>g, <1>o, <2>1, <2>2 DEF PastAudit, AuditInv, GapInv, Auditing
    <3>2. [file |-> "audit", event |-> call[h].event, place |-> Named] \in entries'
      BY <2>1, <3>1 DEF Write
    <3> QED
      BY <2>1, <2>2, <3>2 DEF Audited
  <2>3. CASE g # h
    <3>1. PastAudit(g)
      BY <1>2, <2>1, <2>3 DEF WriteAudit, Goto, PastAudit
    <3> QED
      BY <1>s, <2>1, <3>1
  <2> QED
    BY <2>2, <2>3
<1>3. ASSUME NEW h \in Callers, NEW label,
             pc' = [pc EXCEPT ![h] = label],
             g = h => label \in {"idle", "stuck"} \/ (PastAudit(g) /\ call' = call),
             call' \in {call, [call EXCEPT ![h] = Nothing]}
      PROVE  PastAudit(g) /\ call'[g] = call[g]
  <2>1. CASE g = h
    BY <1>3, <2>1 DEF PastAudit
  <2>2. CASE g # h
    BY <1>3, <1>g, <1>o, <2>2 DEF PastAudit
  <2> QED
    BY <2>1, <2>2
<1>4. ASSUME NEW h \in Callers,
             MarshalFails(h) \/ WriteLog(h) \/ DoSetLevel(h) \/ DoRotate(h) \/ DoClose(h)
      PROVE  PastAudit(g) /\ call'[g] = call[g]
  <2>1. CASE MarshalFails(h)
    <3>1. CASE g = h
      BY <1>g, <2>1, <3>1 DEF MarshalFails, TakesToAudit, PastAudit, Goto, Stick
    <3>2. CASE g # h
      BY <1>g, <1>o, <2>1, <3>2 DEF MarshalFails, PastAudit, Goto, Stick
    <3> QED
      BY <3>1, <3>2
  <2>2. CASE WriteLog(h) \/ DoSetLevel(h) \/ DoRotate(h) \/ DoClose(h)
    BY <1>3, <2>2 DEF WriteLog, DoSetLevel, DoRotate, DoClose, Return, Stick, Goto
  <2> QED
    BY <1>4, <2>1, <2>2
<1>5. ASSUME NEW h \in Callers, Filter(h) \/ EndCleanup(h)
      PROVE  PastAudit(g) /\ call'[g] = call[g]
  <2>1. CASE g = h
    BY <1>5, <1>g, <1>o, <2>1 DEF Filter, EndCleanup, Return, Goto, PastAudit
  <2>2. CASE g # h
    BY <1>5, <1>g, <1>o, <2>2 DEF Filter, EndCleanup, Return, Goto, PastAudit
  <2> QED
    BY <2>1, <2>2
<1>6. ASSUME NEW h \in Callers, NEW f \in Files, NEW place, RemoveOld(h, f, place)
      PROVE  PastAudit(g) /\ call'[g] = call[g]
  BY <1>6, <1>g, <1>o DEF RemoveOld, Goto, PastAudit
<1>7. CASE Restart
  BY <1>7 DEF Restart, PastAudit
<1>8. CASE Tick \/ UNCHANGED vars
  <2>1. pc' = pc /\ call' = call /\ gap' = gap
    BY <1>8 DEF Tick, vars, disk
  <2>2. PastAudit(g)
    BY <2>1 DEF PastAudit
  <2> QED
    BY <1>s, <2>1, <2>2
<1>9. ASSUME NEW h \in Callers, SkipAudit(h)
      PROVE  PastAudit(g) /\ call'[g] = call[g]
  <2>1. call' = call /\ gap' = gap /\ gap = calls
    BY <1>9 DEF SkipAudit, Goto, disk, AuditInv, GapInv, Auditing
  <2>2. call[g].event <= gap
    BY <2>1 DEF AuditInv, GapInv
  <2> QED
    BY <1>o, <1>g, <2>1, <2>2 DEF PastAudit
<1> QED
  BY <1>s, <1>1, <1>2, <1>4, <1>5, <1>6, <1>7, <1>8, <1>9 DEF Next, Locked

(* Every step keeps the audit entry ahead of the log entry.                 *)
LEMMA AuditStep ==
  ASSUME TypeOK, TypeOK', AuditInv, [Next]_vars
  PROVE  AuditInv'
<1>1. \A g \in Callers : PastAudit(g)' => Audited(call[g].event)' /\ call'[g] = call[g]
  BY PastStep
<1>a. \A n : Audited(n) => Audited(n)'
  BY EntriesKeepEvents DEF Audited, Same
<1>g. GapInv' /\ gap <= gap' /\ gap \in Nat /\ gap' \in Nat
  BY GapStep DEF AuditInv, TypeOK
<1>2. ASSUME NEW d \in entries', d.file = "log", d.event > gap' PROVE Audited(d.event)'
  <2>0. d.event \in Nat /\ d.event > gap
    BY <1>2, <1>g DEF TypeOK, Entries
  <2>1. ASSUME NEW e \in entries, Same(d, e) PROVE Audited(d.event)'
    <3>1. Audited(e.event)
      BY <1>2, <2>0, <2>1 DEF AuditInv, EventsAudited, Audited, Same
    <3> QED
      BY <1>a, <2>1, <3>1 DEF Same
  <2>2. ASSUME NEW g \in Callers, WriteAudit(g) PROVE d \in entries
    BY <1>2, <2>2 DEF WriteAudit, Write
  <2>3. ASSUME NEW g \in Callers, WriteLog(g), d \notin entries PROVE Audited(d.event)'
    <3>1. d.event = call[g].event
      BY <2>3 DEF WriteLog, Write
    <3>2. PastAudit(g)
      BY <2>0, <2>3, <3>1 DEF WriteLog, Takes, PastAudit
    <3> QED
      BY <1>a, <3>1, <3>2 DEF AuditInv
  <2>4. d \in entries => Audited(d.event)'
    BY <2>1 DEF Same
  <2> QED
    BY <2>1, <2>2, <2>3, <2>4, EntriesKeepEvents DEF Writes
<1>3. EventsAudited'
  BY <1>2 DEF EventsAudited, Audited
<1> QED
  BY <1>1, <1>3, <1>g DEF AuditInv

(* Whatever was logged of an event had been written to audit.log, also     *)
(* when the process died between the two or others rotated, unless the      *)
(* logger was without that file at some moment since the event began.       *)
THEOREM AuditComesFirst == Spec => []EventsAudited
<1>1. Init => AuditInv
  BY DEF Init, AuditInv, GapInv, EventsAudited, PastAudit, Auditing, Held, Nothing
<1>2. TypeOK /\ TypeOK' /\ AuditInv /\ [Next]_vars => AuditInv'
  BY AuditStep
<1>3. AuditInv => EventsAudited
  BY DEF AuditInv
<1> QED
  BY <1>1, <1>2, <1>3, LoggerTypeCorrect, PTL DEF Spec
===============================================================================
