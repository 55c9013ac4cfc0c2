----------------------------- MODULE PortManager -----------------------------
(***************************************************************************)
(* rtspProtocon/port_manager.go: the map of reserved UDP ports every RTSP  *)
(* session of the server draws from.  UsedPorts only ever maps a port to   *)
(* true, so it is the set `used'.  Every method holds PortMutex from its   *)
(* first to its last access of the maps, so each is one action; the sleep  *)
(* between two attempts of AllocatePortsWithRetry is outside the lock, so  *)
(* the attempts of several callers interleave.                             *)
(***************************************************************************)
EXTENDS Integers, FiniteSets

CONSTANTS Sessions,      \* session identifiers that ask for ports
          MinPort,       \* 1024 in ValidatePortRange
          MaxPort,       \* 65535 in ValidatePortRange
          MaxRetries,    \* 3 in handleSetup
          InitialRange,  \* 5000..6000 in NewDefaultPortManager
          NewRanges,     \* the arguments SetPortRange is called with
          NoAllocation,  \* the nil *PortAllocation
          Free           \* PortMutex held by nobody

Ports == MinPort..MaxPort
Pairs == [rtp : Ports, rtcp : Ports]
PortRanges == [start : Int, end : Int]

ValidatePortRange(r) ==
  /\ r.start \in Ports
  /\ r.end \in r.start..MaxPort

ASSUME PortsAssumption == MinPort \in Nat /\ MaxPort \in Nat
ASSUME RangesAssumption ==
  /\ InitialRange \in PortRanges /\ ValidatePortRange(InitialRange)
  /\ NewRanges \subseteq PortRanges
ASSUME RetriesAssumption == MaxRetries \in Nat \ {0}
ASSUME NilAssumption == NoAllocation \notin Pairs /\ Free \notin Sessions

VARIABLES
  used,     \* UsedPorts
  range,    \* RTPRange; RTCPRange is validated and stored but no allocation reads it
  due,      \* five minutes have passed since LastCleanup
  mutex,    \* who holds PortMutex beyond one action: only a PreAllocatePorts does
  phase,    \* where each caller is
  attempt,  \* failed attempts of its AllocatePortsWithRetry
  alloc,    \* the *PortAllocation it was handed last, kept after its release
  intact    \* history: the live allocations whose reservation nobody has dropped

vars == <<used, range, due, mutex, phase, attempt, alloc, intact>>
callers == <<phase, attempt, alloc>>

Phases == {"idle", "asking", "live", "released", "refused", "blocked"}

TypeOK ==
  /\ used \subseteq Ports
  /\ range \in PortRanges /\ ValidatePortRange(range)
  /\ due \in BOOLEAN
  /\ mutex \in Sessions \cup {Free}
  /\ phase \in [Sessions -> Phases]
  /\ attempt \in [Sessions -> 0..MaxRetries]
  /\ alloc \in [Sessions -> Pairs \cup {NoAllocation}]
  /\ intact \subseteq Sessions

Init ==
  /\ used = {}
  /\ range = InitialRange
  /\ due = FALSE
  /\ mutex = Free
  /\ phase = [s \in Sessions |-> "idle"]
  /\ attempt = [s \in Sessions |-> 0]
  /\ alloc = [s \in Sessions |-> NoAllocation]
  /\ intact = {}

-----------------------------------------------------------------------------
PortsOf(a) == {a.rtp, a.rtcp}
Live == {s \in Sessions : phase[s] = "live"}

(* Mutants: the map, or the end of the range, is not consulted. *)
AvailableDespiteMap(port, reserved, busy) ==
  port >= range.start /\ port <= range.end /\ port \notin busy
AvailableBeyondEnd(port, reserved, busy) ==
  port \notin reserved /\ port >= range.start /\ port \notin busy

(* isPortAvailable: not reserved, inside RTPRange, and the probe that      *)
(* binds it succeeds.  `busy' is what other programs hold at that moment.  *)
IsPortAvailable(port, reserved, busy) ==
  /\ port \notin reserved
  /\ port >= range.start /\ port <= range.end
  /\ port \notin busy

(* Mutant: only the RTP port is probed. *)
CandidatesByRtpPort(reserved, busy) ==
  {p \in range.start..(range.end - 1) :
     (p - range.start) % 2 = 0 /\ IsPortAvailable(p, reserved, busy)}

(* The even steps of the scan at which both ports of the pair are free. *)
Candidates(reserved, busy) ==
  {p \in range.start..range.end :
     /\ (p - range.start) % 2 = 0
     /\ IsPortAvailable(p, reserved, busy)
     /\ IsPortAvailable(p + 1, reserved, busy)}

(* Mutant: the clean-up does not wait for its five minutes. *)
CleanupEveryTime(reserved) == {}

(* cleanupExpiredPorts empties the map, expired or not, and with it ends   *)
(* every reservation.                                                      *)
AfterCleanup(reserved) == IF due THEN {} ELSE reserved

(* What AllocatePorts marks in UsedPorts.                                 *)
Marked(p) == {p, p + 1}

(* The reservations that survive when the ports in P leave UsedPorts. *)
Untouched(P) == {s \in intact : PortsOf(alloc[s]) \cap P = {}}

-----------------------------------------------------------------------------
(* A session calls AllocatePortsWithRetry. *)
Ask(s) ==
  /\ phase[s] \in {"idle", "released", "refused"}
  /\ phase' = [phase EXCEPT ![s] = "asking"]
  /\ attempt' = [attempt EXCEPT ![s] = 0]
  /\ UNCHANGED <<used, range, due, mutex, alloc, intact>>

(* AllocatePorts succeeds: clean up, take the first pair, mark both ports. *)
Granted(s, busy) ==
  LET kept == AfterCleanup(used)
      C == Candidates(kept, busy)
  IN \E p \in C :
       /\ \A q \in C : p <= q
       /\ used' = kept \cup Marked(p)
       /\ alloc' = [alloc EXCEPT ![s] = [rtp |-> p, rtcp |-> p + 1]]
       /\ phase' = [phase EXCEPT ![s] = "live"]
       /\ intact' = AfterCleanup(intact) \cup {s}
       /\ UNCHANGED attempt

(* Mutant: the retry loop does not count. *)
DeniedUncounted(s, busy) ==
  /\ Candidates(AfterCleanup(used), busy) = {}
  /\ used' = AfterCleanup(used) /\ intact' = AfterCleanup(intact)
  /\ UNCHANGED <<attempt, phase, alloc>>

(* AllocatePorts fails, having cleaned up all the same; after the last     *)
(* attempt the caller gets the error.                                      *)
Denied(s, busy) ==
  /\ Candidates(AfterCleanup(used), busy) = {}
  /\ used' = AfterCleanup(used)
  /\ intact' = AfterCleanup(intact)
  /\ attempt' = [attempt EXCEPT ![s] = @ + 1]
  /\ phase' = [phase EXCEPT ![s] =
                 IF attempt[s] + 1 = MaxRetries THEN "refused" ELSE "asking"]
  /\ UNCHANGED alloc

Attempt(s) ==
  /\ phase[s] = "asking" /\ mutex = Free
  /\ due' = FALSE
  /\ \E busy \in SUBSET (range.start..range.end) : Granted(s, busy) \/ Denied(s, busy)
  /\ UNCHANGED <<range, mutex>>

(* Mutant: the RTCP port is forgotten. *)
ReleaseRtpOnly(s) ==
  /\ mutex = Free
  /\ used' = used \ {alloc[s].rtp}
  /\ intact' = Untouched(PortsOf(alloc[s])) \ {s}
  /\ phase' = [phase EXCEPT ![s] = "released"]
  /\ UNCHANGED <<range, due, mutex, attempt, alloc>>

(* ReleasePorts deletes the two ports, whoever reserved them last. *)
ReleasePorts(s) ==
  /\ mutex = Free
  /\ used' = used \ PortsOf(alloc[s])
  /\ intact' = Untouched(PortsOf(alloc[s])) \ {s}
  /\ phase' = [phase EXCEPT ![s] = "released"]
  /\ UNCHANGED <<range, due, mutex, attempt, alloc>>

Release(s) == phase[s] = "live" /\ ReleasePorts(s)

(* The *PortAllocation outlives its release, and nothing stops a second one. *)
ReleaseAgain(s) == phase[s] = "released" /\ ReleasePorts(s)

(* ForceReleasePort and ResolvePortConflict: drop one port, owned or not. *)
ForceReleasePort(port) ==
  /\ mutex = Free
  /\ used' = used \ {port}
  /\ intact' = Untouched({port})
  /\ UNCHANGED <<range, due, mutex, callers>>

(* SetPortRange: both ranges are validated, then replaced; what is already *)
(* reserved is left as it is.                                              *)
SetPortRange(rtp, rtcp) ==
  /\ ValidatePortRange(rtp) /\ ValidatePortRange(rtcp)
  /\ mutex = Free
  /\ range' = rtp
  /\ UNCHANGED <<used, due, mutex, callers, intact>>

(* PreAllocatePorts(count >= 1) takes PortMutex and then calls             *)
(* AllocatePorts, which waits for PortMutex: the caller never moves again. *)
PreAllocatePorts(s) ==
  /\ phase[s] \in {"idle", "released", "refused"} /\ mutex = Free
  /\ mutex' = s
  /\ phase' = [phase EXCEPT ![s] = "blocked"]
  /\ UNCHANGED <<used, range, due, attempt, alloc, intact>>

(* time.Since(LastCleanup) reaches five minutes. *)
CleanupFallsDue ==
  /\ ~due /\ due' = TRUE
  /\ UNCHANGED <<used, range, mutex, callers, intact>>

-----------------------------------------------------------------------------
(* Callers that release what they hold once, and an unattended server. *)
CarefulNext ==
  \/ \E s \in Sessions : Ask(s) \/ Attempt(s) \/ Release(s)
  \/ \E rtp, rtcp \in NewRanges : SetPortRange(rtp, rtcp)
  \/ CleanupFallsDue

Next ==
  \/ CarefulNext
  \/ \E s \in Sessions : ReleaseAgain(s) \/ PreAllocatePorts(s)
  \/ \E port \in Ports : ForceReleasePort(port)

Spec == Init /\ [][Next]_vars

CarefulSpec == Init /\ [][CarefulNext]_vars

(* The goroutine of a caller keeps running between its attempts.  While     *)
(* nobody pre-allocates PortMutex is free after every step: weak is enough. *)
FairSpec == Spec /\ \A s \in Sessions : WF_vars(Attempt(s))

-----------------------------------------------------------------------------
(* No call of AllocatePortsWithRetry makes more than maxRetries attempts:   *)
(* one that is still asking has an attempt left.                            *)
RetryBudget == \A s \in Sessions : phase[s] = "asking" => attempt[s] < MaxRetries

(* Two allocations nobody has dropped never share a port, whatever mixture  *)
(* of stale releases, forced releases, range changes and cleanups ran.      *)
IntactExclusive ==
  \A s, t \in intact : s # t => PortsOf(alloc[s]) \cap PortsOf(alloc[t]) = {}

(* An allocation nobody has dropped is live and both its ports are marked,  *)
(* so that no later scan of AllocatePorts can hand them out.                *)
IntactReserved ==
  \A s \in intact : phase[s] = "live" /\ PortsOf(alloc[s]) \subseteq used

(* The manager itself loses no port: each reserved port belongs to an       *)
(* allocation its caller still holds.                                       *)
NoOrphanPort ==
  \A p \in used : \E s \in Live : p \in PortsOf(alloc[s])

(* AllocatePorts hands out ports of the range in force, the RTCP port       *)
(* included, where the range has an odd number of ports or overlaps another.*)
GrantedInRange ==
  [][\A s \in Sessions :
       (phase[s] # "live" /\ phase'[s] = "live")
          => PortsOf(alloc'[s]) \subseteq range.start..range.end]_vars

(* A step in which one caller is served takes no reservation from another,  *)
(* unless that step runs the five-minute cleanup.                           *)
ServiceDisturbsNobody ==
  [][\A s \in Sessions : (phase[s] = "asking" /\ ~due) => 
       (phase'[s] \in {"live", "refused"} => intact \subseteq intact')]_vars

(* Every call of AllocatePortsWithRetry returns with a pair or an error,    *)
(* however the others race, unless a PreAllocatePorts has kept the lock.    *)
AskAnswered ==
  \A s \in Sessions :
    phase[s] = "asking" ~> phase[s] \in {"live", "refused"} \/ mutex # Free

(* "清理过期端口" (clean up expired ports), port_manager.go:199: the cleanup   *)
(* touches no port in use, so allocations that are held stay disjoint.      *)
LiveExclusive ==
  \A s, t \in Live : s # t => PortsOf(alloc[s]) \cap PortsOf(alloc[t]) = {}

-----------------------------------------------------------------------------
(* The pairs callers may rely on implement the abstract pool. *)
Pool == INSTANCE PortPool
          WITH NoLease <- NoAllocation,
               leases <- [s \in Sessions |->
                            IF s \in intact THEN alloc[s] ELSE NoAllocation]
ImplementsPool == Pool!Spec
=============================================================================
