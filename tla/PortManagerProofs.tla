-------------------------- MODULE PortManagerProofs --------------------------
(***************************************************************************)
(* Theorems about PortManager, for any set of callers, any port interval   *)
(* and any ranges.  The argument: a reservation nobody has dropped belongs *)
(* to a live caller and keeps both its ports in `used' (IntactReserved);   *)
(* a scan only takes ports outside `used', so what it hands out meets no   *)
(* such reservation (IntactExclusive follows step by step).                *)
(***************************************************************************)
EXTENDS PortManager, TLAPS

USE PortsAssumption, RangesAssumption, RetriesAssumption, NilAssumption

(* A pair the scan offers lies in the range and meets no reserved port. *)
LEMMA CandidateFits ==
  ASSUME ValidatePortRange(range), range \in PortRanges,
         NEW reserved, NEW busy, NEW p \in Candidates(reserved, busy)
  PROVE  /\ p \in Ports /\ p + 1 \in Ports
         /\ p >= range.start /\ p + 1 <= range.end
         /\ {p, p + 1} \cap reserved = {}
BY DEF Candidates, IsPortAvailable, ValidatePortRange, PortRanges, Ports

(* TypeOK needs the retry budget: without it `attempt' could leave its type. *)
TypeInv == TypeOK /\ RetryBudget

(* The types hold at the start.                                             *)
LEMMA TypeInit == Init => TypeInv
<1> SUFFICES ASSUME Init PROVE TypeInv
  OBVIOUS
<1>1. range \in PortRanges /\ ValidatePortRange(range)
  BY DEF Init
<1>2. attempt \in [Sessions -> 0..MaxRetries] /\ RetryBudget
  BY DEF Init, RetryBudget
<1>3. phase \in [Sessions -> Phases] /\ alloc \in [Sessions -> Pairs \cup {NoAllocation}]
  BY DEF Init, Phases
<1>4. used \subseteq Ports /\ due \in BOOLEAN /\ intact \subseteq Sessions
      /\ mutex \in Sessions \cup {Free}
  BY DEF Init
<1> QED
  BY <1>1, <1>2, <1>3, <1>4 DEF TypeInv, TypeOK

(* Every step keeps the types.                                              *)
LEMMA TypeStep == TypeInv /\ [Next]_vars => TypeInv'
<1> SUFFICES ASSUME TypeInv, [Next]_vars PROVE TypeInv'
  OBVIOUS
<1> USE DEF TypeInv, TypeOK, RetryBudget
<1>1. ASSUME NEW s \in Sessions, Ask(s) PROVE TypeInv'
  BY <1>1 DEF Ask, Phases
<1>2. ASSUME NEW s \in Sessions, Attempt(s) PROVE TypeInv'
  <2> PICK busy \in SUBSET (range.start..range.end) : Granted(s, busy) \/ Denied(s, busy)
    BY <1>2 DEF Attempt
  <2>1. CASE Granted(s, busy)
    <3> DEFINE kept == AfterCleanup(used)
    <3>1. PICK p \in Candidates(kept, busy) :
            /\ used' = kept \cup Marked(p)
            /\ alloc' = [alloc EXCEPT ![s] = [rtp |-> p, rtcp |-> p + 1]]
            /\ phase' = [phase EXCEPT ![s] = "live"]
            /\ intact' = AfterCleanup(intact) \cup {s}
            /\ UNCHANGED attempt
      BY <2>1 DEF Granted
    <3>2. p \in Ports /\ p + 1 \in Ports
      BY CandidateFits
    <3>3. [rtp |-> p, rtcp |-> p + 1] \in Pairs
      BY <3>2 DEF Pairs
    <3> QED
      BY <1>2, <3>1, <3>2, <3>3 DEF Attempt, AfterCleanup, Phases, Marked
  <2>2. CASE Denied(s, busy)
    <3>1. attempt[s] + 1 \in 0..MaxRetries
      BY <1>2 DEF Attempt
    <3>2. attempt' \in [Sessions -> 0..MaxRetries] /\ phase' \in [Sessions -> Phases]
      BY <2>2, <3>1 DEF Denied, Phases
    <3>3. RetryBudget'
      BY <2>2, <3>1, <3>2 DEF Denied
    <3> QED
      BY <1>2, <2>2, <3>2, <3>3 DEF Attempt, Denied, AfterCleanup
  <2> QED
    BY <2>1, <2>2
<1>3. ASSUME NEW s \in Sessions, ReleasePorts(s) PROVE TypeInv'
  BY <1>3 DEF ReleasePorts, Untouched, Phases
<1>4. ASSUME NEW rtp \in NewRanges, NEW rtcp \in NewRanges, SetPortRange(rtp, rtcp)
      PROVE  TypeInv'
  BY <1>4 DEF SetPortRange, callers, ValidatePortRange
<1>5. CASE CleanupFallsDue
  BY <1>5 DEF CleanupFallsDue, callers
<1>6. ASSUME NEW s \in Sessions, PreAllocatePorts(s) PROVE TypeInv'
  BY <1>6 DEF PreAllocatePorts, Phases
<1>7. ASSUME NEW port \in Ports, ForceReleasePort(port) PROVE TypeInv'
  BY <1>7 DEF ForceReleasePort, callers, Untouched
<1>8. CASE UNCHANGED vars
  BY <1>8 DEF vars
<1> QED
  BY <1>1, <1>2, <1>3, <1>4, <1>5, <1>6, <1>7, <1>8
  DEF Next, CarefulNext, Release, ReleaseAgain

(* Every caller's state stays in its type, and no call exceeds its retries. *)
THEOREM TypeCorrect == Spec => [](TypeOK /\ RetryBudget)
<1> QED
  BY TypeInit, TypeStep, PTL DEF Spec, TypeInv

-----------------------------------------------------------------------------
(* What a grant changes, in the terms the invariants use. *)
LEMMA GrantEffect ==
  ASSUME TypeInv, NEW s \in Sessions, NEW busy, Granted(s, busy)
  PROVE  /\ alloc'[s] \in Pairs
         /\ PortsOf(alloc'[s]) \cap AfterCleanup(used) = {}
         /\ used' = AfterCleanup(used) \cup PortsOf(alloc'[s])
         /\ \A t \in Sessions \ {s} : alloc'[t] = alloc[t] /\ phase'[t] = phase[t]
         /\ phase'[s] = "live"
         /\ intact' = AfterCleanup(intact) \cup {s}
<1> DEFINE kept == AfterCleanup(used)
<1>1. PICK p \in Candidates(kept, busy) :
        /\ used' = kept \cup Marked(p)
        /\ alloc' = [alloc EXCEPT ![s] = [rtp |-> p, rtcp |-> p + 1]]
        /\ phase' = [phase EXCEPT ![s] = "live"]
        /\ intact' = AfterCleanup(intact) \cup {s}
  BY DEF Granted
<1>2. p \in Ports /\ p + 1 \in Ports /\ {p, p + 1} \cap kept = {}
  BY CandidateFits DEF TypeInv, TypeOK
<1>3. alloc'[s] = [rtp |-> p, rtcp |-> p + 1] /\ alloc'[s] \in Pairs
  BY <1>1, <1>2 DEF TypeInv, TypeOK, Pairs
<1>4. PortsOf(alloc'[s]) = {p, p + 1}
  BY <1>3 DEF PortsOf
<1> QED
  BY <1>1, <1>2, <1>3, <1>4 DEF TypeInv, TypeOK, Marked

ReservationInv == TypeInv /\ IntactReserved /\ IntactExclusive

(* Nothing is reserved at the start ...                                     *)
LEMMA ReservationInit == Init => ReservationInv
BY TypeInit DEF Init, ReservationInv, IntactReserved, IntactExclusive

(* ... and every step keeps reservations and marks together.                *)
LEMMA ReservationStep == ReservationInv /\ [Next]_vars => ReservationInv'
<1> SUFFICES ASSUME ReservationInv, [Next]_vars
             PROVE  IntactReserved' /\ IntactExclusive'
  BY TypeStep DEF ReservationInv
<1> USE DEF ReservationInv, IntactReserved, IntactExclusive
<1>t. phase \in [Sessions -> Phases] /\ intact \subseteq Sessions
  BY DEF TypeInv, TypeOK
<1> DEFINE Kept == IntactReserved' /\ IntactExclusive'
<1>1. ASSUME NEW s \in Sessions, Ask(s) PROVE Kept
  BY <1>1, <1>t DEF Ask
<1>2. ASSUME NEW s \in Sessions, Attempt(s) PROVE Kept
  <2> PICK busy \in SUBSET (range.start..range.end) : Granted(s, busy) \/ Denied(s, busy)
    BY <1>2 DEF Attempt
  <2>0. s \notin intact
    BY <1>2 DEF Attempt
  <2>1. CASE Granted(s, busy)
    <3>1. AfterCleanup(intact) \subseteq intact
      BY DEF AfterCleanup
    <3>2. \A t \in AfterCleanup(intact) :
            /\ t \in Sessions \ {s} /\ phase[t] = "live"
            /\ PortsOf(alloc[t]) \subseteq AfterCleanup(used)
      BY <2>0, <3>1, <1>t DEF AfterCleanup
    <3>3. \A t \in AfterCleanup(intact) :
            /\ alloc'[t] = alloc[t] /\ phase'[t] = "live"
            /\ PortsOf(alloc'[t]) \subseteq used'
            /\ PortsOf(alloc'[t]) \cap PortsOf(alloc'[s]) = {}
      BY <2>1, <3>2, GrantEffect
    <3>4. IntactReserved'
      BY <2>1, <3>3, GrantEffect
    <3>5. IntactExclusive'
      BY <2>1, <3>1, <3>3, GrantEffect
    <3> QED
      BY <3>4, <3>5
  <2>2. CASE Denied(s, busy)
    BY <2>0, <2>2, <1>t DEF Denied, AfterCleanup
  <2> QED
    BY <2>1, <2>2
<1>3. ASSUME NEW s \in Sessions, ReleasePorts(s) PROVE Kept
  BY <1>3, <1>t DEF ReleasePorts, Untouched
<1>4. ASSUME NEW rtp \in NewRanges, NEW rtcp \in NewRanges, SetPortRange(rtp, rtcp)
      PROVE  Kept
  BY <1>4 DEF SetPortRange, callers
<1>5. CASE CleanupFallsDue
  BY <1>5 DEF CleanupFallsDue, callers
<1>6. ASSUME NEW s \in Sessions, PreAllocatePorts(s) PROVE Kept
  BY <1>6, <1>t DEF PreAllocatePorts
<1>7. ASSUME NEW port \in Ports, ForceReleasePort(port) PROVE Kept
  BY <1>7 DEF ForceReleasePort, callers, Untouched
<1>8. CASE UNCHANGED vars
  BY <1>8 DEF vars
<1> QED
  BY <1>1, <1>2, <1>3, <1>4, <1>5, <1>6, <1>7, <1>8
  DEF Next, CarefulNext, Release, ReleaseAgain

(* No port is relied on by two callers, under any mixture of releases,      *)
(* stale releases, forced releases, range changes, cleanups and retries.    *)
THEOREM PortsExclusive == Spec => [](IntactExclusive /\ IntactReserved)
<1>1. ReservationInv => IntactExclusive /\ IntactReserved
  BY DEF ReservationInv
<1> QED
  BY <1>1, ReservationInit, ReservationStep, PTL DEF Spec

-----------------------------------------------------------------------------
(* No step strands a port.                                                  *)
LEMMA NoOrphanStep == TypeInv /\ NoOrphanPort /\ [Next]_vars => NoOrphanPort'
<1> SUFFICES ASSUME TypeInv, NoOrphanPort, [Next]_vars,
                    NEW p \in used'
             PROVE  \E s \in Live' : p \in PortsOf(alloc'[s])
  BY DEF NoOrphanPort
<1>t. phase \in [Sessions -> Phases]
  BY DEF TypeInv, TypeOK
<1> DEFINE OwnersStay ==
      p \in used /\ \A t \in Live :
         p \in PortsOf(alloc[t]) => phase'[t] = "live" /\ alloc'[t] = alloc[t]
<1>s. ASSUME OwnersStay PROVE \E s \in Live' : p \in PortsOf(alloc'[s])
  BY <1>s DEF NoOrphanPort, Live
<1>1. ASSUME NEW s \in Sessions, Ask(s) PROVE OwnersStay
  BY <1>1, <1>t DEF Ask, Live
<1>2. ASSUME NEW s \in Sessions, Attempt(s)
      PROVE  \E t \in Live' : p \in PortsOf(alloc'[t])
  <2> PICK busy \in SUBSET (range.start..range.end) : Granted(s, busy) \/ Denied(s, busy)
    BY <1>2 DEF Attempt
  <2>1. CASE Granted(s, busy) /\ p \in PortsOf(alloc'[s])
    BY <2>1, GrantEffect DEF Live
  <2>2. CASE Granted(s, busy) /\ p \notin PortsOf(alloc'[s])
    <3>1. p \in used
      BY <2>2, GrantEffect DEF AfterCleanup
    <3>2. \A t \in Live : t # s
      BY <1>2 DEF Attempt, Live
    <3>3. OwnersStay
      BY <2>2, <3>1, <3>2, GrantEffect DEF Live
    <3> QED
      BY <3>3, <1>s
  <2>3. CASE Denied(s, busy)
    <3>1. OwnersStay
      BY <1>2, <2>3, <1>t DEF Attempt, Denied, AfterCleanup, Live
    <3> QED
      BY <3>1, <1>s
  <2> QED
    BY <2>1, <2>2, <2>3
<1>3. ASSUME NEW s \in Sessions, ReleasePorts(s) PROVE OwnersStay
  BY <1>3, <1>t DEF ReleasePorts, Live
<1>4. ASSUME NEW rtp \in NewRanges, NEW rtcp \in NewRanges, SetPortRange(rtp, rtcp)
      PROVE  OwnersStay
  BY <1>4 DEF SetPortRange, callers, Live
<1>5. CASE CleanupFallsDue
  <2>1. OwnersStay
    BY <1>5 DEF CleanupFallsDue, callers, Live
  <2> QED
    BY <2>1, <1>s
<1>6. ASSUME NEW s \in Sessions, PreAllocatePorts(s) PROVE OwnersStay
  BY <1>6, <1>t DEF PreAllocatePorts, Live
<1>7. ASSUME NEW port \in Ports, ForceReleasePort(port) PROVE OwnersStay
  BY <1>7 DEF ForceReleasePort, callers, Live
<1>8. CASE UNCHANGED vars
  <2>1. OwnersStay
    BY <1>8 DEF vars, Live
  <2> QED
    BY <2>1, <1>s
<1> QED
  BY <1>s, <1>1, <1>2, <1>3, <1>4, <1>5, <1>6, <1>7, <1>8
  DEF Next, CarefulNext, Release, ReleaseAgain

(* Every reserved port is one its caller still holds: the manager itself    *)
(* never strands a port, even when cleanup and stale releases interleave.   *)
THEOREM NoPortStranded == Spec => []NoOrphanPort
<1>1. Init => NoOrphanPort
  BY DEF Init, NoOrphanPort
<1> QED
  BY <1>1, TypeInit, TypeStep, NoOrphanStep, PTL DEF Spec

-----------------------------------------------------------------------------
(* Every step is a step of the abstract pool or leaves the leases alone.    *)
LEMMA PoolStep ==
  ReservationInv /\ [Next]_vars
     => [Pool!Next]_([s \in Sessions |-> IF s \in intact THEN alloc[s] ELSE NoAllocation])
<1> DEFINE leases == [s \in Sessions |-> IF s \in intact THEN alloc[s] ELSE NoAllocation]
<1> SUFFICES ASSUME ReservationInv, [Next]_vars
             PROVE  Pool!Next \/ leases' = leases
  OBVIOUS
<1>t. intact \subseteq Sessions /\ phase \in [Sessions -> Phases] /\ TypeInv
  BY DEF ReservationInv, TypeInv, TypeOK
<1>d. ASSUME alloc' = alloc, intact' \subseteq intact PROVE Pool!Next
  <2> PICK S \in SUBSET Sessions : S = intact \ intact'
    BY <1>t
  <2>1. Pool!Drop(S)
    BY <1>d, <1>t DEF Pool!Drop
  <2> QED
    BY <2>1 DEF Pool!Next
<1>1. ASSUME NEW s \in Sessions, Ask(s) PROVE leases' = leases
  BY <1>1 DEF Ask
<1>2. ASSUME NEW s \in Sessions, Attempt(s) PROVE Pool!Next \/ leases' = leases
  <2> PICK busy \in SUBSET (range.start..range.end) : Granted(s, busy) \/ Denied(s, busy)
    BY <1>2 DEF Attempt
  <2>1. CASE Granted(s, busy)
    <3>1. alloc'[s] \in Pairs /\ s \notin intact
      BY <1>2, <2>1, <1>t, GrantEffect DEF Attempt, ReservationInv, IntactReserved
    <3> PICK pair \in Pairs : pair = alloc'[s]
      BY <3>1
    <3>2. CASE due
      <4>1. \A t \in Sessions : t \in intact' <=> t = s
        BY <2>1, <3>2, <1>t, GrantEffect DEF AfterCleanup
      <4>2. leases' = [[t \in Sessions |-> NoAllocation] EXCEPT ![s] = pair]
        BY <4>1
      <4>3. Pool!RecycleAndGrant(s, pair)
        BY <4>2 DEF Pool!RecycleAndGrant, Pool!GrantAfter
      <4> QED
        BY <4>3 DEF Pool!Next
    <3>3. CASE ~due
      <4>1. intact' = intact \cup {s} /\ \A t \in Sessions \ {s} : alloc'[t] = alloc[t]
        BY <2>1, <3>3, <1>t, GrantEffect DEF AfterCleanup
      <4>2. leases' = [leases EXCEPT ![s] = pair]
        BY <4>1
      <4>3. \A t \in intact : PortsOf(alloc[t]) \cap PortsOf(alloc'[s]) = {}
        BY <2>1, <3>3, <1>t, GrantEffect DEF AfterCleanup, ReservationInv, IntactReserved
      <4>4. \A t \in Sessions : leases[t] # NoAllocation
              => Pool!PortsOf(leases[t]) \cap Pool!PortsOf(pair) = {}
        BY <4>3 DEF PortsOf, Pool!PortsOf
      <4>5. leases[s] = NoAllocation
        BY <3>1
      <4>6. Pool!Grant(s, pair)
        BY <4>2, <4>4, <4>5 DEF Pool!Grant, Pool!GrantAfter
      <4> QED
        BY <4>6 DEF Pool!Next
    <3> QED
      BY <3>2, <3>3
  <2>2. CASE Denied(s, busy)
    <3>1. alloc' = alloc /\ intact' \subseteq intact
      BY <2>2 DEF Denied, AfterCleanup
    <3> QED
      BY <3>1, <1>d
  <2> QED
    BY <2>1, <2>2
<1>3. ASSUME NEW s \in Sessions, ReleasePorts(s) PROVE Pool!Next
  BY <1>3, <1>d DEF ReleasePorts, Untouched
<1>4. ASSUME NEW rtp \in NewRanges, NEW rtcp \in NewRanges, SetPortRange(rtp, rtcp)
      PROVE  leases' = leases
  BY <1>4 DEF SetPortRange, callers
<1>5. CASE CleanupFallsDue
  BY <1>5 DEF CleanupFallsDue, callers
<1>6. ASSUME NEW s \in Sessions, PreAllocatePorts(s) PROVE leases' = leases
  BY <1>6 DEF PreAllocatePorts
<1>7. ASSUME NEW port \in Ports, ForceReleasePort(port) PROVE Pool!Next
  BY <1>7, <1>d DEF ForceReleasePort, callers, Untouched
<1>8. CASE UNCHANGED vars
  BY <1>8 DEF vars
<1> QED
  BY <1>1, <1>2, <1>3, <1>4, <1>5, <1>6, <1>7, <1>8
  DEF Next, CarefulNext, Release, ReleaseAgain

(* The manager implements the abstract pool of exclusive leases.            *)
THEOREM PoolImplemented == Spec => ImplementsPool
<1>1. Init => Pool!Init
  BY DEF Init, Pool!Init
<1> QED
  BY <1>1, ReservationInit, ReservationStep, PoolStep, PTL
  DEF Spec, ImplementsPool, Pool!Spec

-----------------------------------------------------------------------------
(* A pair that is granted lies in the range in force.                       *)
LEMMA GrantInRange ==
  ASSUME TypeInv, NEW s \in Sessions, NEW busy, Granted(s, busy)
  PROVE  PortsOf(alloc'[s]) \subseteq range.start..range.end
<1>1. PICK p \in Candidates(AfterCleanup(used), busy) :
        alloc' = [alloc EXCEPT ![s] = [rtp |-> p, rtcp |-> p + 1]]
  BY DEF Granted
<1>2. p \in Ports /\ p >= range.start /\ p + 1 <= range.end
  BY CandidateFits DEF TypeInv, TypeOK
<1>3. PortsOf(alloc'[s]) = {p, p + 1}
  BY <1>1 DEF TypeInv, TypeOK, PortsOf
<1> QED
  BY <1>2, <1>3 DEF TypeInv, TypeOK, PortRanges, Ports

(* The caller a step serves, if it serves one. *)
LEMMA OnlyAttemptServes ==
  ASSUME TypeInv, [Next]_vars, NEW s \in Sessions,
         phase[s] # phase'[s], phase'[s] \in {"live", "refused"}
  PROVE  Attempt(s)
<1>t. phase \in [Sessions -> Phases]
  BY DEF TypeInv, TypeOK
<1>1. ASSUME NEW t \in Sessions, Ask(t) PROVE FALSE
  BY <1>1, <1>t DEF Ask
<1>2. ASSUME NEW t \in Sessions, Attempt(t), t # s PROVE FALSE
  BY <1>2, <1>t DEF Attempt, Granted, Denied
<1>3. ASSUME NEW t \in Sessions, ReleasePorts(t) PROVE FALSE
  BY <1>3, <1>t DEF ReleasePorts
<1>4. ASSUME NEW rtp \in NewRanges, NEW rtcp \in NewRanges, SetPortRange(rtp, rtcp)
      PROVE  FALSE
  BY <1>4 DEF SetPortRange, callers
<1>5. CASE CleanupFallsDue
  BY <1>5 DEF CleanupFallsDue, callers
<1>6. ASSUME NEW t \in Sessions, PreAllocatePorts(t) PROVE FALSE
  BY <1>6, <1>t DEF PreAllocatePorts
<1>7. ASSUME NEW port \in Ports, ForceReleasePort(port) PROVE FALSE
  BY <1>7 DEF ForceReleasePort, callers
<1>8. CASE UNCHANGED vars
  BY <1>8 DEF vars
<1> QED
  BY <1>1, <1>2, <1>3, <1>4, <1>5, <1>6, <1>7, <1>8
  DEF Next, CarefulNext, Release, ReleaseAgain

(* Both ports handed out, the RTCP port too, lie in the range in force.     *)
THEOREM GrantsStayInRange == Spec => GrantedInRange
<1>1. ASSUME TypeInv, [Next]_vars, NEW s \in Sessions,
             phase[s] # "live", phase'[s] = "live"
      PROVE  PortsOf(alloc'[s]) \subseteq range.start..range.end
  <2>1. Attempt(s)
    BY <1>1, OnlyAttemptServes
  <2> PICK busy \in SUBSET (range.start..range.end) : Granted(s, busy) \/ Denied(s, busy)
    BY <2>1 DEF Attempt
  <2>2. Granted(s, busy)
    BY <1>1 DEF Denied, TypeInv, TypeOK
  <2> QED
    BY <1>1, <2>2, GrantInRange
<1>2. TypeInv /\ [Next]_vars
        => [\A s \in Sessions : (phase[s] # "live" /\ phase'[s] = "live")
               => PortsOf(alloc'[s]) \subseteq range.start..range.end]_vars
  BY <1>1
<1> QED
  BY <1>2, TypeInit, TypeStep, PTL DEF Spec, GrantedInRange

(* Serving one caller takes no reservation from another, except when the    *)
(* five-minute cleanup is due.                                              *)
THEOREM NoTheftWithoutCleanup == Spec => ServiceDisturbsNobody
<1>1. ASSUME TypeInv, [Next]_vars, NEW s \in Sessions,
             phase[s] = "asking", ~due, phase'[s] \in {"live", "refused"}
      PROVE  intact \subseteq intact'
  <2>1. Attempt(s)
    BY <1>1, OnlyAttemptServes
  <2> PICK busy \in SUBSET (range.start..range.end) : Granted(s, busy) \/ Denied(s, busy)
    BY <2>1 DEF Attempt
  <2> QED
    BY <1>1, GrantEffect DEF Denied, AfterCleanup
<1>2. TypeInv /\ [Next]_vars
        => [\A s \in Sessions : (phase[s] = "asking" /\ ~due) =>
              (phase'[s] \in {"live", "refused"} => intact \subseteq intact')]_vars
  BY <1>1
<1> QED
  BY <1>2, TypeInit, TypeStep, PTL DEF Spec, ServiceDisturbsNobody
=============================================================================
