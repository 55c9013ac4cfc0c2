----------------------------- MODULE MediaProxy -----------------------------
(***************************************************************************)
(* proxy/media_proxy.go: the forwarding goroutines of one proxied session. *)
(* Start only spawns: the goroutine it spawns spawns one forwarder per     *)
(* stream, and a forwarder raises the Running flag of its stream when it   *)
(* gets to run, which may be after a Stop has lowered it.  Start, Stop and *)
(* SetTransportMode hold Mutex throughout, Stop across its three steps.    *)
(* What the forwarders count in Stats is left out.  Names that RTSPProxy   *)
(* uses as well carry Media here: ProxyProofs extends both modules.        *)
(***************************************************************************)
EXTENDS Naturals

CONSTANT MaxStarts  \* bound: successful calls of Start in one behaviour

ASSUME StartsAssumption == MaxStarts \in Nat

Streams == {"rtp", "rtcp", "tcp"}
Modes == {"udp", "tcp"}
ModeOf(k) == IF k = "tcp" THEN "tcp" ELSE "udp"

VARIABLES
  transport,  \* UseTCPTransport, as the mode it selects
  mediaRunning,  \* msp.Running
  stopping,   \* the stream a Stop in progress lowers next, "none" if there is none
  flag,       \* Running of each stream proxy
  launching,  \* startUDPStreamProxy and startTCPStreamProxy goroutines spawned
  entering,   \* forwarders spawned that have not raised their flag
  looping,    \* forwarders in their loop
  starts, stops,  \* history: calls of Start and Stop that took effect
  carried,    \* history: the mode of the latest Start
  settled     \* history: the latest Stop found no goroutine still to run

history == <<starts, stops, carried, settled>>
goroutines == <<launching, entering, looping>>
mediaVars == <<transport, mediaRunning, stopping, flag, goroutines, history>>

MediaTypeOK ==
  /\ transport \in Modes /\ carried \in Modes
  /\ mediaRunning \in BOOLEAN /\ settled \in BOOLEAN
  /\ stopping \in Streams \cup {"none"}
  /\ flag \in [Streams -> BOOLEAN]
  /\ launching \in [Modes -> Nat]
  /\ entering \in [Streams -> Nat] /\ looping \in [Streams -> Nat]
  /\ starts \in Nat /\ stops \in Nat

MediaInit ==
  /\ transport = "udp" /\ mediaRunning = FALSE /\ stopping = "none"
  /\ flag = [k \in Streams |-> FALSE]
  /\ launching = [m \in Modes |-> 0]
  /\ entering = [k \in Streams |-> 0] /\ looping = [k \in Streams |-> 0]
  /\ starts = 0 /\ stops = 0 /\ carried = "udp" /\ settled = TRUE

(* Forwarders of stream k that a Start has set off and are yet to run.     *)
Pending(k) == launching[ModeOf(k)] + entering[k]

-----------------------------------------------------------------------------
(* startMediaProxy sets the mode before each Start, running or not.        *)
SetTransportMode(mode) ==
  /\ stopping = "none"
  /\ transport' = mode
  /\ UNCHANGED <<mediaRunning, stopping, flag, goroutines, history>>

Spawn ==
  /\ starts < MaxStarts /\ starts' = starts + 1
  /\ mediaRunning' = TRUE
  /\ launching' = [launching EXCEPT ![transport] = @ + 1]
  /\ carried' = transport
  /\ UNCHANGED <<transport, stopping, flag, entering, looping, stops, settled>>

(* Mutants: Start does not ask whether it runs; Stop does not hold Mutex.  *)
StartAlways == stopping = "none" /\ Spawn
StartDuringStop == ~mediaRunning /\ Spawn

(* A Start that finds the proxy running returns an error, changing nothing.*)
Start == ~mediaRunning /\ stopping = "none" /\ Spawn

Stop ==
  /\ mediaRunning /\ stopping = "none"
  /\ mediaRunning' = FALSE /\ stopping' = "rtp"
  /\ stops' = stops + 1
  /\ settled' = (\A k \in Streams : Pending(k) = 0)
  /\ UNCHANGED <<transport, flag, goroutines, starts, carried>>

(* The order in which Stop goes through the streams; mutant: it leaves TCP *)
(* out.                                                                    *)
TCPForgotten(k) == [rtp |-> "rtcp", rtcp |-> "none", tcp |-> "none"][k]
After(k) == [rtp |-> "rtcp", rtcp |-> "tcp", tcp |-> "none"][k]

(* Stop of one stream proxy. *)
StopStream ==
  /\ stopping # "none"
  /\ flag' = [flag EXCEPT ![stopping] = FALSE]
  /\ stopping' = After(stopping)
  /\ UNCHANGED <<transport, mediaRunning, goroutines, history>>

(* startUDPStreamProxy and startTCPStreamProxy. *)
Launch(mode) ==
  /\ launching[mode] > 0
  /\ launching' = [launching EXCEPT ![mode] = @ - 1]
  /\ entering' = [k \in Streams |-> IF ModeOf(k) = mode THEN entering[k] + 1
                                                        ELSE entering[k]]
  /\ UNCHANGED <<transport, mediaRunning, stopping, flag, looping, history>>

(* startRTPProxy, startRTCPProxy and startTCPProxy up to their loop.       *)
Enter(k) ==
  /\ entering[k] > 0
  /\ entering' = [entering EXCEPT ![k] = @ - 1]
  /\ looping' = [looping EXCEPT ![k] = @ + 1]
  /\ flag' = [flag EXCEPT ![k] = TRUE]
  /\ UNCHANGED <<transport, mediaRunning, stopping, launching, history>>

(* Mutant: the loop ends only when its connection does. *)
LeaveNever(k) == FALSE /\ UNCHANGED mediaVars

(* The loop finds its flag lowered; an iteration that does not changes nothing. *)
Leave(k) ==
  /\ looping[k] > 0 /\ ~flag[k]
  /\ looping' = [looping EXCEPT ![k] = @ - 1]
  /\ UNCHANGED <<transport, mediaRunning, stopping, flag, launching, entering, history>>

-----------------------------------------------------------------------------
MediaNext ==
  \/ Start \/ Stop \/ StopStream
  \/ \E mode \in Modes : SetTransportMode(mode) \/ Launch(mode)
  \/ \E k \in Streams : Enter(k) \/ Leave(k)

MediaSpec == MediaInit /\ [][MediaNext]_mediaVars

(* Goroutines are scheduled; nobody has to call Start or Stop.             *)
MediaFairSpec ==
  /\ MediaSpec
  /\ WF_mediaVars(StopStream)
  /\ \A mode \in Modes : WF_mediaVars(Launch(mode))
  /\ \A k \in Streams : WF_mediaVars(Enter(k)) /\ WF_mediaVars(Leave(k))

-----------------------------------------------------------------------------
(* However Start, Stop and changes of mode follow each other, a stream has  *)
(* at most one forwarder for each Stop so far and one more: without a Stop  *)
(* in between, repeated PLAY requests never forward a stream twice.         *)
OneForwarderPerStop == \A k \in Streams : Pending(k) + looping[k] <= stops + 1

(* While the proxy is running, each stream of the mode it was started in    *)
(* has its flag up or a forwarder on its way that will raise it: no Stop    *)
(* of an earlier round reaches into this one.                               *)
RunningIsServed ==
  mediaRunning => \A k \in Streams :
    ModeOf(k) = carried => flag[k] \/ Pending(k) > 0

(* A Stop that found every goroutine of the earlier Starts running leaves   *)
(* no flag up and nothing that could raise one.                             *)
SettledStopClears ==
  (settled /\ ~mediaRunning /\ stopping = "none")
    => \A k \in Streams : ~flag[k] /\ Pending(k) = 0

Forwarding == \E k \in Streams : looping[k] > 0

(* After such a Stop all forwarders end, unless the proxy is started again. *)
SettledStopEnds ==
  (settled /\ stops > 0 /\ ~mediaRunning) ~> (mediaRunning \/ ~Forwarding)
=============================================================================
