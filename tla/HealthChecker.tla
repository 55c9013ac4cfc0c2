---------------------------- MODULE HealthChecker ----------------------------
(***************************************************************************)
(* proxy/health_checker.go: the goroutine that Start spawns, which checks  *)
(* the proxy at every tick and restarts it after three failures in a row.  *)
(* Start of the proxy returns only when the proxy is stopped, so a runner  *)
(* that restarts it becomes its accept loop.  The proxy is what the runner *)
(* sees of it: Running, its listeners, and the calls of Start and Stop of  *)
(* the program around it.  What else a check looks at (the upstream        *)
(* servers, idle sessions) is only logged.                                 *)
(***************************************************************************)
EXTENDS Naturals

CONSTANTS Runners,    \* bound: one for each successful Start of the checker
          Main,       \* the goroutine that calls Start of the proxy
          Operator,   \* a goroutine that calls Stop of the proxy, any time
          NoListener, \* the nil p.Listener
          Replaced,   \* p.Listener, when its Start has been called again
          Threshold   \* 3 in handleProxyUnhealthy

ASSUME CheckerAssumption ==
  /\ Main \notin Runners /\ Operator \notin Runners \cup {Main}
  /\ {NoListener, Replaced} \cap (Runners \cup {Main}) = {}
  /\ Threshold \in Nat \ {0}

Starters == Runners \cup {Main}
Stoppers == Runners \cup {Operator}

VARIABLES
  on,        \* hc.Running
  failures,  \* Stats.ConsecutiveFailures; beyond Threshold all counts act alike
  running,   \* p.Running
  open,      \* the callers of the proxy's Start whose listener is open
  listener,  \* p.Listener, named by the caller of Start that made it
  pc         \* where each goroutine is

vars == <<on, failures, running, open, listener, pc>>
proxy == <<running, open, listener>>

StartLabels == {"binding", "bound", "entering", "looping"}
RunnerLabels ==
  StartLabels \cup {"none", "waiting", "leaving", "ended", "checking", "dialing", "passed",
                    "failed", "deciding", "stopping", "closing", "restarted"}

TypeOK ==
  /\ on \in BOOLEAN /\ running \in BOOLEAN
  /\ failures \in 0..Threshold
  /\ open \subseteq Starters
  /\ listener \in Starters \cup {NoListener, Replaced}
  /\ pc \in [Starters \cup {Operator} -> RunnerLabels \cup {"returned"}]
  /\ \A r \in Runners : pc[r] \in RunnerLabels
  /\ pc[Main] \in StartLabels \cup {"returned"}
  /\ pc[Operator] \in {"stopping", "closing"}

Init ==
  /\ on = FALSE /\ failures = 0
  /\ running = FALSE /\ open = {} /\ listener = NoListener
  /\ pc = [x \in Starters \cup {Operator} |->
             IF x = Main THEN "binding" ELSE IF x = Operator THEN "stopping" ELSE "none"]

At(x, label) == pc[x] = label
Goto(x, label) == pc' = [pc EXCEPT ![x] = label]

-----------------------------------------------------------------------------
(* Start and Stop of the proxy.  Listen fails while the port is in use.    *)
(* Mutant: the port is shared. *)
BindShared(x) ==
  /\ At(x, "binding")
  /\ open' = open \cup {x} /\ Goto(x, "bound")
  /\ listener' = IF listener = x THEN Replaced ELSE listener
  /\ UNCHANGED <<on, failures, running>>

Bind(x) ==
  /\ At(x, "binding") /\ open = {}
  /\ open' = {x} /\ Goto(x, "bound")
  /\ listener' = IF listener = x THEN Replaced ELSE listener
  /\ UNCHANGED <<on, failures, running>>

BindFails(x) ==
  /\ At(x, "binding") /\ open # {}
  /\ Goto(x, IF x = Main THEN "returned" ELSE "waiting")
  /\ UNCHANGED <<on, failures, proxy>>

Publish(x) ==
  /\ At(x, "bound") /\ listener' = x /\ Goto(x, "entering")
  /\ UNCHANGED <<on, failures, running, open>>

Enter(x) ==
  /\ At(x, "entering") /\ running' = TRUE /\ Goto(x, "looping")
  /\ UNCHANGED <<on, failures, open, listener>>

(* Where a goroutine goes on after its Start.                               *)
AfterStart(x) == IF x = Main THEN "returned" ELSE "restarted"

(* The loop sees Running lowered, after one more Accept that a connection  *)
(* or the closing of the listener ends.                                    *)
LeaveLoop(x) ==
  /\ At(x, "looping") /\ ~running
  /\ Goto(x, AfterStart(x))
  /\ UNCHANGED <<on, failures, proxy>>

StopFlag(x) ==
  /\ At(x, "stopping") /\ running' = FALSE /\ Goto(x, "closing")
  /\ UNCHANGED <<on, failures, open, listener>>

(* Mutant: a restart does not start the proxy again. *)
CloseWithoutStart(x) ==
  /\ At(x, "closing") /\ open' = open \ {listener}
  /\ Goto(x, IF x = Operator THEN "stopping" ELSE "waiting")
  /\ UNCHANGED <<on, failures, running, listener>>

(* Stop closes the listener published last; a runner then sleeps, and      *)
(* calls Start.                                                            *)
StopClose(x) ==
  /\ At(x, "closing") /\ open' = open \ {listener}
  /\ Goto(x, IF x = Operator THEN "stopping" ELSE "binding")
  /\ UNCHANGED <<on, failures, running, listener>>

-----------------------------------------------------------------------------
(* Start and Stop of the checker.                                          *)
(* Mutant: Start relies on a runner that is still about. *)
StartReusing ==
  /\ ~on /\ on' = TRUE
  /\ IF \E r \in Runners : pc[r] \notin {"none", "ended"}
       THEN UNCHANGED pc
       ELSE \E r \in Runners : At(r, "none") /\ Goto(r, "waiting")
  /\ UNCHANGED <<failures, proxy>>

StartChecker ==
  /\ ~on /\ on' = TRUE
  /\ \E r \in Runners : At(r, "none") /\ Goto(r, "waiting")
  /\ UNCHANGED <<failures, proxy>>

StopChecker == on /\ on' = FALSE /\ UNCHANGED <<failures, proxy, pc>>

(* The tick of a runner: it reads hc.Running under the lock, and acts on   *)
(* it after that.                                                          *)
Tick(r) ==
  /\ At(r, "waiting") /\ Goto(r, IF on THEN "checking" ELSE "leaving")
  /\ UNCHANGED <<on, failures, proxy>>

Leave(r) ==
  /\ At(r, "leaving") /\ Goto(r, "ended")
  /\ UNCHANGED <<on, failures, proxy>>

Check(r) ==
  /\ At(r, "checking") /\ Goto(r, IF running THEN "dialing" ELSE "failed")
  /\ UNCHANGED <<on, failures, proxy>>

(* The dial may fail even if the listener is open. *)
Dial(r) ==
  /\ At(r, "dialing")
  /\ \/ Goto(r, "failed")
     \/ open # {} /\ Goto(r, "passed")
  /\ UNCHANGED <<on, failures, proxy>>

Pass(r) ==
  /\ At(r, "passed") /\ failures' = 0 /\ Goto(r, "waiting")
  /\ UNCHANGED <<on, proxy>>

RecordFailure(r) ==
  /\ At(r, "failed") /\ Goto(r, "deciding")
  /\ failures' = IF failures = Threshold THEN Threshold ELSE failures + 1
  /\ UNCHANGED <<on, proxy>>

(* The count is read again without the lock. *)
Decide(r) ==
  /\ At(r, "deciding")
  /\ Goto(r, IF failures = Threshold THEN "stopping" ELSE "waiting")
  /\ UNCHANGED <<on, failures, proxy>>

Restarted(r) ==
  /\ At(r, "restarted") /\ failures' = 0 /\ Goto(r, "waiting")
  /\ UNCHANGED <<on, proxy>>

-----------------------------------------------------------------------------
StartStep(x) == Bind(x) \/ BindFails(x) \/ Publish(x) \/ Enter(x) \/ LeaveLoop(x)
StopStep(x) == StopFlag(x) \/ StopClose(x)
RunnerStep(r) ==
  \/ Tick(r) \/ Leave(r) \/ Check(r) \/ Dial(r) \/ Pass(r)
  \/ RecordFailure(r) \/ Decide(r) \/ Restarted(r)

Next ==
  \/ StartChecker \/ StopChecker
  \/ \E x \in Starters : StartStep(x)
  \/ \E x \in Stoppers : StopStep(x)
  \/ \E r \in Runners : RunnerStep(r)

Spec == Init /\ [][Next]_vars

(* Goroutines are scheduled and tickers tick; nobody has to call Start or  *)
(* Stop of the checker, or Stop of the proxy.                              *)
FairSpec ==
  /\ Spec
  /\ \A x \in Starters : WF_vars(StartStep(x))
  /\ \A x \in Stoppers : WF_vars(StopClose(x))
  /\ \A r \in Runners : WF_vars(RunnerStep(r)) /\ WF_vars(StopFlag(r))

-----------------------------------------------------------------------------
(* A listener that a Start has published is the one Stop closes, until it   *)
(* is closed: overlapping restarts never leave a listener open that no call *)
(* of Stop can reach any more.                                              *)
NoLeakedListener ==
  \A x \in open : ~At(x, "bound") => listener = x

(* A checker that is on has a runner that has not decided to leave, also    *)
(* after a Stop and a Start between two ticks.                              *)
SomebodyWatches ==
  on => \E r \in Runners : pc[r] \notin {"none", "leaving", "ended"}

(* A proxy whose Running flag is down, whoever took it down, is started     *)
(* again while the checker is on, however runners, restarts and other calls *)
(* overlap.  It is about the flag: one that is up on a closed listener,     *)
(* while the only runner is the accept loop on it, stays as it is.          *)
DownIsRestarted == (on /\ ~running) ~> (running \/ ~on)
=============================================================================
