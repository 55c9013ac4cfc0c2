------------------------------ MODULE PortPool ------------------------------
(***************************************************************************)
(* What a pool of UDP port pairs promises its callers, with no mention of  *)
(* reservation maps, scans, retries or locks: a lease is exclusive from    *)
(* the step that grants it until the step that drops it, and a grant       *)
(* takes no other caller's lease unless it recycles the whole pool.        *)
(* PortManager is shown to implement this specification.                   *)
(***************************************************************************)
EXTENDS Naturals

CONSTANTS Sessions,  \* the callers, one per allocation
          Pairs,     \* the pairs that can be leased: [rtp, rtcp] records
          NoLease    \* what a caller without a lease has

VARIABLE leases      \* leases[s]: the pair s may rely on, or NoLease

PortsOf(pair) == {pair.rtp, pair.rtcp}

TypeOK == leases \in [Sessions -> Pairs \cup {NoLease}]

Init == leases = [s \in Sessions |-> NoLease]

(* s is given a pair that meets no lease that stays in force. *)
GrantAfter(kept, s, pair) ==
  /\ kept[s] = NoLease
  /\ \A t \in Sessions :
       kept[t] # NoLease => PortsOf(kept[t]) \cap PortsOf(pair) = {}
  /\ leases' = [kept EXCEPT ![s] = pair]

Grant(s, pair) == GrantAfter(leases, s, pair)

(* The pool forgets every lease, then grants one or none. *)
Recycle == leases' = [s \in Sessions |-> NoLease]
RecycleAndGrant(s, pair) == GrantAfter([t \in Sessions |-> NoLease], s, pair)

(* Some leases end: returned, or revoked by an operator. *)
Drop(S) == leases' = [s \in Sessions |-> IF s \in S THEN NoLease ELSE leases[s]]

Next ==
  \/ \E s \in Sessions, pair \in Pairs : Grant(s, pair) \/ RecycleAndGrant(s, pair)
  \/ Recycle
  \/ \E S \in SUBSET Sessions : Drop(S)

Spec == Init /\ [][Next]_leases

(* No port is promised to two callers. *)
Exclusive ==
  \A s, t \in Sessions :
    (s # t /\ leases[s] # NoLease /\ leases[t] # NoLease)
      => PortsOf(leases[s]) \cap PortsOf(leases[t]) = {}
=============================================================================
