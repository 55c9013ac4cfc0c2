-------------------------- MODULE HealthCheckerProofs --------------------------
(***************************************************************************)
(* Safety of the health checker for any number of runners and any          *)
(* threshold.                                                              *)
(***************************************************************************)
EXTENDS HealthChecker, TLAPS

(* Only one listener is open, since the port is free when it is bound; a    *)
(* Start that has bound it and not yet published it still has it, because   *)
(* Stop closes published listeners only.                                    *)
OneOpen == \A x, y \in open : x = y
BoundIsOpen == \A x \in Starters : At(x, "bound") => x \in open /\ listener # x

IInv == TypeOK /\ OneOpen /\ BoundIsOpen /\ NoLeakedListener /\ SomebodyWatches

USE CheckerAssumption DEF Starters, Stoppers, At, Goto, proxy

(* A goroutine that moves stays inside its own part of the program.         *)
LEMMA TypeStep == TypeOK /\ [Next]_vars => TypeOK'
<1> SUFFICES ASSUME TypeOK, [Next]_vars PROVE TypeOK'
  OBVIOUS
<1> USE DEF TypeOK, RunnerLabels, StartLabels
<1>1. CASE StartChecker
  BY <1>1 DEF StartChecker
<1>2. CASE StopChecker
  BY <1>2 DEF StopChecker
<1>3. ASSUME NEW x \in Starters, StartStep(x) PROVE TypeOK'
  <2>1. CASE Bind(x)
    BY <2>1 DEF Bind
  <2>2. CASE BindFails(x)
    BY <2>2 DEF BindFails
  <2>3. CASE Publish(x)
    BY <2>3 DEF Publish
  <2>4. CASE Enter(x)
    BY <2>4 DEF Enter
  <2>5. CASE LeaveLoop(x)
    BY <2>5 DEF LeaveLoop, AfterStart
  <2> QED
    BY <1>3, <2>1, <2>2, <2>3, <2>4, <2>5 DEF StartStep
<1>4. ASSUME NEW x \in Stoppers, StopStep(x) PROVE TypeOK'
  <2>1. CASE StopFlag(x)
    BY <2>1 DEF StopFlag
  <2>2. CASE StopClose(x)
    BY <2>2 DEF StopClose
  <2> QED
    BY <1>4, <2>1, <2>2 DEF StopStep
<1>5. ASSUME NEW r \in Runners, RunnerStep(r) PROVE TypeOK'
  <2>1. CASE Tick(r) \/ Leave(r) \/ Check(r)
    BY <2>1 DEF Tick, Leave, Check
  <2>2. CASE Dial(r) \/ Decide(r)
    BY <2>2 DEF Dial, Decide
  <2>3. CASE Pass(r) \/ Restarted(r)
    BY <2>3 DEF Pass, Restarted
  <2>4. CASE RecordFailure(r)
    <3>1. failures' \in 0..Threshold
      BY <2>4 DEF RecordFailure
    <3> QED
      BY <2>4, <3>1 DEF RecordFailure
  <2> QED
    BY <1>5, <2>1, <2>2, <2>3, <2>4 DEF RunnerStep
<1>6. CASE UNCHANGED vars
  BY <1>6 DEF vars
<1> QED
  BY <1>1, <1>2, <1>3, <1>4, <1>5, <1>6 DEF Next

(* Listeners change hands only in Bind, Publish and StopClose.              *)
ListenerInv == OneOpen /\ BoundIsOpen /\ NoLeakedListener

(* No step leaves a listener that Stop cannot reach.                        *)
LEMMA ListenerStep ==
  ASSUME TypeOK, TypeOK', ListenerInv, [Next]_vars
  PROVE  ListenerInv'
<1> USE DEF ListenerInv, OneOpen, BoundIsOpen, NoLeakedListener
<1>1. ASSUME NEW x \in Starters, Bind(x) PROVE ListenerInv'
  BY <1>1 DEF Bind, TypeOK
<1>2. ASSUME NEW x \in Starters, Publish(x) PROVE ListenerInv'
  BY <1>2 DEF Publish, TypeOK
<1>3. ASSUME NEW x \in Stoppers, StopClose(x) PROVE ListenerInv'
  BY <1>3 DEF StopClose, TypeOK
<1>4. ASSUME NEW x \in Starters \cup {Operator}, NEW l,
             pc' = [pc EXCEPT ![x] = l], pc[x] # "bound", l # "bound",
             UNCHANGED <<open, listener>>
      PROVE  ListenerInv'
  BY <1>4 DEF TypeOK
<1>5. ASSUME NEW x \in Starters, BindFails(x) \/ Enter(x) \/ LeaveLoop(x)
      PROVE  ListenerInv'
  BY <1>4, <1>5 DEF BindFails, Enter, LeaveLoop, AfterStart
<1>6. ASSUME NEW x \in Stoppers, StopFlag(x) PROVE ListenerInv'
  BY <1>4, <1>6 DEF StopFlag
<1>7. ASSUME NEW r \in Runners, RunnerStep(r) PROVE ListenerInv'
  BY <1>4, <1>7
     DEF RunnerStep, Tick, Leave, Check, Dial, Pass, RecordFailure, Decide, Restarted
<1>8. CASE StartChecker
  BY <1>4, <1>8 DEF StartChecker
<1>9. CASE StopChecker \/ UNCHANGED vars
  BY <1>9 DEF StopChecker, vars
<1> QED
  BY <1>1, <1>2, <1>3, <1>5, <1>6, <1>7, <1>8, <1>9 DEF Next, StartStep, StopStep

Watches(r) == pc[r] \notin {"none", "leaving", "ended"}

(* No step leaves a checker that is on without a runner.                    *)
LEMMA WatchStep ==
  ASSUME TypeOK, SomebodyWatches, [Next]_vars
  PROVE  SomebodyWatches'
<1> USE DEF SomebodyWatches
<1>1. CASE StartChecker
  <2>1. PICK r \in Runners : pc' = [pc EXCEPT ![r] = "waiting"]
    BY <1>1 DEF StartChecker
  <2>2. pc'[r] = "waiting"
    BY <2>1 DEF TypeOK
  <2> QED
    BY <2>2
<1>2. CASE StopChecker
  BY <1>2 DEF StopChecker
<1>3. ASSUME ~StartChecker, ~StopChecker, on' PROVE SomebodyWatches'
  <2>1. on
    BY <1>3 DEF Next, StartStep, StopStep, RunnerStep, Bind, BindFails, Publish, Enter, LeaveLoop,
       StopFlag, StopClose, Tick, Leave, Check, Dial, Pass, RecordFailure, Decide, Restarted, vars
  <2>2. PICK r \in Runners : Watches(r)
    BY <2>1 DEF Watches
  <2>3. ASSUME NEW x \in Starters \cup {Operator}, NEW l, pc' = [pc EXCEPT ![x] = l],
               l \notin {"none", "leaving", "ended"} \/ pc[x] = "leaving"
        PROVE  Watches(r)'
    BY <2>2, <2>3 DEF TypeOK, Watches
  <2>4. ASSUME NEW x \in Starters, StartStep(x) PROVE Watches(r)'
    BY <2>3, <2>4 DEF StartStep, Bind, BindFails, Publish, Enter, LeaveLoop, AfterStart
  <2>5. ASSUME NEW x \in Stoppers, StopStep(x) PROVE Watches(r)'
    BY <2>3, <2>5 DEF StopStep, StopFlag, StopClose
  <2>6. ASSUME NEW s \in Runners, RunnerStep(s) PROVE Watches(r)'
    BY <2>1, <2>3, <2>6
       DEF RunnerStep, Tick, Leave, Check, Dial, Pass, RecordFailure, Decide, Restarted
  <2>7. CASE UNCHANGED vars
    BY <2>2, <2>7 DEF vars, Watches
  <2> QED
    BY <1>3, <2>4, <2>5, <2>6, <2>7 DEF Next, Watches
<1> QED
  BY <1>1, <1>2, <1>3

(* The invariant holds at the start ...                                     *)
LEMMA IInvInit == Init => IInv
<1> SUFFICES ASSUME Init PROVE IInv
  OBVIOUS
<1>1. on = FALSE /\ running = FALSE /\ open = {}
  BY DEF Init
<1>2. pc[Main] = "binding" /\ pc[Operator] = "stopping"
  BY DEF Init
<1>3. \A r \in Runners : pc[r] = "none"
  BY DEF Init
<1>4. TypeOK
  <2>1. failures \in 0..Threshold
    BY DEF Init
  <2>2. pc \in [Starters \cup {Operator} -> RunnerLabels \cup {"returned"}]
    BY DEF Init, RunnerLabels, StartLabels
  <2>3. listener \in Starters \cup {NoListener, Replaced}
    BY DEF Init
  <2>4. on \in BOOLEAN /\ running \in BOOLEAN
    BY <1>1
  <2> QED
    BY <1>1, <1>2, <1>3, <2>1, <2>2, <2>3, <2>4 DEF TypeOK, RunnerLabels, StartLabels
<1>5. OneOpen /\ NoLeakedListener
  BY <1>1 DEF OneOpen, NoLeakedListener
<1>6. BoundIsOpen
  BY <1>2, <1>3, Zenon DEF Init, BoundIsOpen
<1>7. SomebodyWatches
  BY <1>1 DEF SomebodyWatches
<1> QED
  BY <1>4, <1>5, <1>6, <1>7 DEF IInv

(* ... hence always.                                                        *)
LEMMA AlwaysIInv == Spec => []IInv
<1>1. IInv /\ [Next]_vars => IInv'
  BY TypeStep, ListenerStep, WatchStep DEF IInv, ListenerInv
<1> QED
  BY <1>1, IInvInit, PTL DEF Spec

(* health_checker.go:237, proxy.go:146: overlapping restarts leave no       *)
(* listener open that Stop cannot reach.                                    *)
THEOREM ListenersReachable == Spec => []NoLeakedListener
<1>1. IInv => NoLeakedListener
  BY DEF IInv
<1> QED
  BY <1>1, AlwaysIInv, PTL

(* health_checker.go:59, 84: a checker that is on is never without a runner.*)
THEOREM AlwaysWatched == Spec => []SomebodyWatches
<1>1. IInv => SomebodyWatches
  BY DEF IInv
<1> QED
  BY <1>1, AlwaysIInv, PTL
=============================================================================
