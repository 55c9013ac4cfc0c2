-------------------------------- MODULE Logger --------------------------------
(***************************************************************************)
(* proxy/logger.go: two files, a level and one RWMutex, used by any number *)
(* of goroutines, and a directory that outlives the process.  A critical   *)
(* section is one step: it writes, syncs and returns before anybody else   *)
(* can get in.  The exceptions are the three that call Log, which asks for *)
(* the mutex they hold, unless Log drops their entry before it does.  The  *)
(* filter of Log and the whole of CleanupOldLogs hold no lock.             *)
(* The statistics, which nothing decides on, and GetStats are left out; so *)
(* is a file that cannot be removed.  The age of a file is arbitrary.      *)
(***************************************************************************)
EXTENDS Naturals

CONSTANTS
  Callers,     \* goroutines
  Levels,      \* those that occur, numbered as in the code
  MaxCalls,    \* bound: calls in one behaviour
  MaxSeconds,  \* bound: seconds that pass
  Free         \* the mutex is held by nobody

Info == 1
Error == 3

ASSUME LoggerAssumption ==
  /\ Free \notin Callers
  /\ Levels \subseteq 0..4 /\ {Info, Error} \subseteq Levels
  /\ MaxCalls \in Nat /\ MaxSeconds \in Nat

Files == {"log", "audit"}  \* l.File, proxy.log; l.AuditFile, audit.log
Seconds == 0..MaxSeconds

VARIABLES
  level,    \* l.Level
  lock,     \* l.Mutex: who waits inside it for itself
  pc,       \* where each goroutine is
  call,     \* the call it is in
  enableAudit, \* l.EnableAudit; l.AuditFile is nil if and only if it is false
  fd,       \* each descriptor: on the file of that name, on a removed one, closed
            \* or not there
  exists,   \* there is a proxy.log, an audit.log
  clock,    \* the time, in the seconds that name rotated files
  entries,  \* what was written, and where it is now
  calls,    \* history: calls begun
  rotated,  \* history: whether there was a rotation, and the second of the latest
  careful,  \* history: no cleanup, Close or failed reopening so far, and no two
            \* rotations in one second
  gap       \* history: the calls begun when the logger last was without audit.log

disk == <<enableAudit, fd, exists, clock, entries, rotated, careful, gap>>
vars == <<level, lock, pc, call, calls, disk>>

(* An entry is in the file that has its name, in one rotated at a second,  *)
(* in a file without a name, or gone.                                      *)
Rotated(n) == <<"rotated", n>>
Places == {<<"named">>, <<"unnamed">>, <<"gone">>} \cup {Rotated(n) : n \in Seconds}
Named == <<"named">>
Unnamed == <<"unnamed">>
Gone == <<"gone">>

(* The LogX methods write an audit entry for an event, then a log entry;   *)
(* both have the event's number.  Only LogConfigChange and LogHealthCheck  *)
(* take details from their caller, which may be impossible to marshal:     *)
(* such an event has number 0, like what is not an event.                  *)
Entries == [file : Files, event : Nat, place : Places]
Ops ==
  [op : {"log", "event", "setlevel", "rotate", "close", "cleanup"},
   level : Levels, event : Nat]
Nothing == [op |-> "log", level |-> Info, event |-> 0]

TypeOK ==
  /\ level \in Levels
  /\ lock \in Callers \cup {Free}
  /\ pc \in [Callers -> {"idle", "audit", "filter", "locking", "cleaning", "cleaned", "stuck"}]
  /\ call \in [Callers -> Ops]
  /\ enableAudit \in BOOLEAN
  /\ fd \in [Files -> {"open", "orphan", "closed"}]
  /\ exists \in [Files -> BOOLEAN]
  /\ clock \in Seconds
  /\ entries \subseteq Entries
  /\ calls \in Nat
  /\ rotated \in [ever : BOOLEAN, at : Seconds]
  /\ careful \in BOOLEAN
  /\ gap \in Nat

-----------------------------------------------------------------------------
(* The files NewLogger opens, for appending, after creating what is        *)
(* missing: its caller decides whether it audits.                          *)
Held == IF enableAudit THEN Files ELSE {"log"}
Opened == {[e EXCEPT !.place = IF @ = Unnamed THEN Gone ELSE @] : e \in entries}

(* Whoever begins an event while this holds can have it in audit.log.      *)
Auditing == enableAudit /\ fd["audit"] = "open"
Watch == gap' = IF Auditing' THEN gap ELSE calls'

Init ==
  /\ level = Info /\ lock = Free /\ enableAudit \in BOOLEAN
  /\ pc = [g \in Callers |-> "idle"] /\ call = [g \in Callers |-> Nothing]
  /\ fd = [f \in Files |-> IF f \in Held THEN "open" ELSE "closed"]
  /\ exists = [f \in Files |-> f \in Held]
  /\ clock = 0 /\ entries = {} /\ calls = 0 /\ gap = 0
  /\ rotated = [ever |-> FALSE, at |-> 0] /\ careful = TRUE

(* The process is killed wherever it is, and started again.                *)
Restart ==
  /\ level' = Info /\ lock' = Free /\ enableAudit' \in BOOLEAN
  /\ pc' = [g \in Callers |-> "idle"] /\ call' = [g \in Callers |-> Nothing]
  /\ fd' = [f \in Files |-> IF f \in Held' THEN "open" ELSE "closed"]
  /\ exists' = [f \in Files |-> exists[f] \/ f \in Held']
  /\ entries' = Opened
  /\ UNCHANGED <<clock, calls, rotated, careful>>
  /\ Watch

Tick ==
  /\ clock < MaxSeconds /\ clock' = clock + 1
  /\ UNCHANGED <<level, lock, pc, call, calls, enableAudit, fd, exists, entries, rotated, careful, gap>>

-----------------------------------------------------------------------------
Goto(g, label) == pc' = [pc EXCEPT ![g] = label] /\ UNCHANGED call
Return(g) == pc' = [pc EXCEPT ![g] = "idle"] /\ call' = [call EXCEPT ![g] = Nothing]

(* WriteString and Sync, whose errors are ignored: through a closed        *)
(* descriptor nothing is written.                                          *)
Write(f, event) ==
  entries' = entries \cup
    {[file |-> f, event |-> event, place |-> IF d = "open" THEN Named ELSE Unnamed] :
       d \in {fd[f]} \ {"closed"}}

(* Log, from inside the mutex: dropped, or the goroutine waits for itself  *)
(* and everybody else for it.                                              *)
Dropped(v) == v < level'
Stick(g) == Goto(g, "stuck") /\ lock' = g

(* A call; the label names the point where its work starts.                *)
Begin(g, label, op, v, event) ==
  /\ pc[g] = "idle" /\ calls < MaxCalls
  /\ calls' = calls + 1
  /\ pc' = [pc EXCEPT ![g] = label]
  /\ call' = [call EXCEPT ![g] = [op |-> op, level |-> v, event |-> event]]
  /\ UNCHANGED <<level, lock, enableAudit, fd, exists, clock, entries, rotated, careful>>
  /\ Watch

Log(g, v) == Begin(g, "filter", "log", v, 0)
SetLevel(g, v) == Begin(g, "locking", "setlevel", v, 0)
RotateLogs(g) == Begin(g, "locking", "rotate", Info, 0)
Close(g) == Begin(g, "locking", "close", Info, 0)
CleanupOldLogs(g) == Begin(g, "cleaning", "cleanup", Info, 0)

(* An event: the audit entry comes first; mutant: it comes last, and the   *)
(* log entry is written where it should be.                                *)
LogFirst(g, v, event) == Begin(g, "filter", "event", v, event)
LogEvent(g, v, event) == Begin(g, "audit", "event", v, event)

-----------------------------------------------------------------------------
(* AuditEvent looks whether it is to audit before it asks for the mutex.   *)
SkipAudit(g) ==
  /\ pc[g] = "audit" /\ ~enableAudit
  /\ Goto(g, "filter")
  /\ UNCHANGED <<level, lock, calls, disk>>

TakesToAudit(g) == pc[g] = "audit" /\ enableAudit /\ lock = Free

WriteAudit(g) ==
  /\ TakesToAudit(g) /\ call[g].event # 0
  /\ Goto(g, "filter") /\ Write("audit", call[g].event)
  /\ UNCHANGED <<level, lock, calls, enableAudit, fd, exists, clock, rotated, careful, gap>>

MarshalFails(g) ==
  /\ TakesToAudit(g) /\ call[g].event = 0
  /\ UNCHANGED <<level, calls, disk>>
  /\ \/ Dropped(Error) /\ Goto(g, "filter") /\ UNCHANGED lock
     \/ ~Dropped(Error) /\ Stick(g)

(* Log compares the levels before it asks for the mutex.                   *)
Filter(g) ==
  /\ pc[g] = "filter"
  /\ UNCHANGED <<level, lock, calls, disk>>
  /\ \/ Dropped(call[g].level) /\ Return(g)
     \/ ~Dropped(call[g].level) /\ Goto(g, "locking")

Takes(g, ops) == pc[g] = "locking" /\ call[g].op \in ops /\ lock = Free

WriteLog(g) ==
  /\ Takes(g, {"log", "event", "cleanup"})
  /\ Return(g) /\ Write("log", call[g].event)
  /\ UNCHANGED <<level, lock, calls, enableAudit, fd, exists, clock, rotated, careful, gap>>

DoSetLevel(g) ==
  /\ Takes(g, {"setlevel"})
  /\ level' = call[g].level
  /\ UNCHANGED <<calls, disk>>
  /\ \/ Dropped(Info) /\ Return(g) /\ UNCHANGED lock
     \/ ~Dropped(Info) /\ Stick(g)

(* The name of a rotated file has the second in it; mutant: the minute.    *)
TimestampInMinutes == clock \div 2
Timestamp == clock

(* Rename replaces an earlier file of the same name, if there is anything  *)
(* to rename; closing the last descriptor frees a file without a name.     *)
Renamed(e) ==
  IF e.file \notin Held THEN e.place
  ELSE IF e.place = Named THEN Rotated(Timestamp)
  ELSE IF e.place = Unnamed \/ (e.place = Rotated(Timestamp) /\ exists[e.file]) THEN Gone
  ELSE e.place

DoRotate(g) ==
  /\ Takes(g, {"rotate"})
  /\ entries' = {[e EXCEPT !.place = Renamed(e)] : e \in entries}
  /\ rotated' = [ever |-> TRUE, at |-> clock]
  /\ UNCHANGED <<level, calls, enableAudit, clock>>
  /\ \E reopened \in {{}, {"log"}, Held} :
       /\ fd' = [f \in Files |-> IF f \in reopened THEN "open" ELSE "closed"]
       /\ exists' = [f \in Files |-> f \in reopened \/ (f \notin Held /\ exists[f])]
       /\ careful' = (careful /\ reopened = Held /\ rotated # rotated')
       /\ Watch
       /\ \/ (reopened # Held \/ Dropped(Info)) /\ Return(g) /\ UNCHANGED lock
          \/ reopened = Held /\ ~Dropped(Info) /\ Stick(g)

(* Mutant: Close reports what it does, as RotateLogs does.                 *)
Closes ==
  /\ fd' = [f \in Files |-> "closed"] /\ entries' = Opened /\ careful' = FALSE
  /\ UNCHANGED <<level, calls, enableAudit, exists, clock, rotated>>
  /\ Watch
CloseLogs(g) == Takes(g, {"close"}) /\ Stick(g) /\ Closes
DoClose(g) == Takes(g, {"close"}) /\ Return(g) /\ Closes /\ UNCHANGED lock

(* CleanupOldLogs removes a file, the current ones included, or is done.   *)
RemoveOld(g, f, place) ==
  /\ pc[g] \in {"cleaning", "cleaned"} /\ Goto(g, "cleaned")
  /\ IF place = Named THEN exists[f] ELSE rotated.ever
  /\ exists' = [exists EXCEPT ![f] = @ /\ place # Named]
  /\ fd' = [fd EXCEPT ![f] = IF place = Named /\ @ = "open" THEN "orphan" ELSE @]
  /\ entries' = {[e EXCEPT !.place =
                    IF e.file # f \/ e.place # place THEN @
                    ELSE IF place = Named /\ fd[f] = "open" THEN Unnamed ELSE Gone] : e \in entries}
  /\ careful' = FALSE
  /\ UNCHANGED <<level, lock, calls, enableAudit, clock, rotated>>
  /\ Watch

EndCleanup(g) ==
  /\ UNCHANGED <<level, lock, calls, disk>>
  /\ \/ pc[g] = "cleaning" /\ Return(g)
     \/ pc[g] = "cleaned" /\ Goto(g, "filter")

-----------------------------------------------------------------------------
Calls(g) ==
  \/ \E v \in Levels : Log(g, v) \/ SetLevel(g, v)
  \/ RotateLogs(g) \/ Close(g) \/ CleanupOldLogs(g)
  \/ \E v \in {Info, Error} : LogEvent(g, v, calls + 1)
  \/ LogEvent(g, Info, 0)

Locked(g) ==
  WriteAudit(g) \/ MarshalFails(g) \/ WriteLog(g) \/ DoSetLevel(g) \/ DoRotate(g) \/ DoClose(g)

Next ==
  \/ \E g \in Callers : Calls(g) \/ Locked(g) \/ SkipAudit(g) \/ Filter(g) \/ EndCleanup(g)
  \/ \E g \in Callers, f \in Files, place \in {Named} \cup {Rotated(n) : n \in Seconds} :
       RemoveOld(g, f, place)
  \/ Restart \/ Tick

Spec == Init /\ [][Next]_vars

(* The scheduler runs every goroutine, and a mutex that is free again goes *)
(* to whoever waits; a cleanup has finitely many files to look at.         *)
FairSpec ==
  /\ Spec
  /\ \A g \in Callers :
       /\ WF_vars(Locked(g)) /\ WF_vars(SkipAudit(g))
       /\ WF_vars(Filter(g)) /\ WF_vars(EndCleanup(g))

-----------------------------------------------------------------------------
(* What was written and synced stays in a file with a name, through calls  *)
(* of any goroutines, rotations, level changes and restarts, as long as    *)
(* nobody cleans up or closes, files can be reopened and rotations are a   *)
(* second apart.                                                           *)
EntriesKept == careful => \A e \in entries : e.place \notin {Unnamed, Gone}

(* Whatever was logged of an event was in the audit file before, also when *)
(* the process dies between the two or other goroutines rotate: as long as *)
(* the logger audits and its descriptor is on audit.log since the event    *)
(* began.  A Close, a rotation that could not reopen audit.log or a        *)
(* cleanup that removed it ends that until the file is opened again; what  *)
(* is audited meanwhile is lost, and logged all the same.                  *)
EventsAudited ==
  \A e \in entries : (e.file = "log" /\ e.event > gap)
    => \E a \in entries : a.file = "audit" /\ a.event = e.event

(* Logging under the mutex: a rotation or a change of level that Log does  *)
(* not drop, or an event that cannot be marshalled.                        *)
LogsUnderLock(g) ==
  \/ call[g].op = "rotate" /\ level <= Info
  \/ call[g].op = "setlevel" /\ call[g].level <= Info
  \/ call[g].op = "event" /\ call[g].event = 0 /\ enableAudit /\ level <= Error

(* Every call comes back unless somebody logs under the mutex: those three *)
(* lock up the logger, nothing else does.                                  *)
LoggingReturns ==
  \A g \in Callers : pc[g] # "idle" ~> (pc[g] = "idle" \/ \E h \in Callers : LogsUnderLock(h))
=============================================================================
