----------------------------- MODULE Interleaved -----------------------------
(***************************************************************************)
(* What package rtspProtocon offers a program that sends media over its    *)
(* RTSP connection: the Transport header, the channel numbers in it, and   *)
(* the RTP and RTCP frames on those channels, chained as tcp_examples.go   *)
(* chains them.  The branches of server.go and client.go that would use    *)
(* them stand behind IsTCPTransport of a parsed header, which NeverTCP     *)
(* shows is false: no SETUP gets there, and they are not modelled.         *)
(* In one behaviour a header that was printed or received on its own is    *)
(* parsed; in another, channels are allocated, announced and used.         *)
(***************************************************************************)
EXTENDS Transport

CONSTANTS
  Owners,     \* session identifiers
  Bytes,      \* 256: the values of a byte
  Lengths,    \* 65536: the values of a uint16
  MaxAllocs,  \* bound: calls of AllocateChannel
  Packets,    \* RTP packets a program may send
  Sizes       \* of the RTCP packets it may send, as a frame's header can name them

VARIABLES
  next, channels, step, seen, calls, made, settled,  \* the TCPTransportManager
  passed  \* history: what went through the codecs last, and what came out

manager == <<next, channels, step, seen, calls, made, settled>>
allVars == <<vars, manager, passed>>

TM == INSTANCE TCPTransport
RTP == INSTANCE RTPPacket

ASSUME WidthAssumption ==
  /\ Bytes \in Nat /\ Bytes > 0 /\ Bytes % 2 = 0
  /\ Lengths \in Nat /\ Lengths > 4
  /\ MaxAllocs \in Nat

ASSUME MediaAssumption ==
  /\ Empty \notin TM!Byte \X TM!Byte /\ Tricky \notin TM!Byte \X TM!Byte
  /\ Sizes \subseteq 0..(Lengths - 1)
  /\ Packets \subseteq RTP!RTPPackets
  /\ \A p \in Packets : RTP!Size(RTP!Marshal(p)) < Lengths

NoHeader == [kind |-> "none"]
Nothing == [kind |-> "none"]

MediaInit ==
  /\ TM!Init /\ passed = Nothing
  /\ Init \/ (origin = NoHeader /\ rest = <<>> /\ parsed = Default)

Parse == ParsePart /\ UNCHANGED <<manager, passed>>

-----------------------------------------------------------------------------
OwnHeader == origin.kind \in {"none", "announced"}

(* Any number of sessions allocate and release.                            *)
Manage(s) ==
  /\ OwnHeader /\ (TM!AllocateChannel(s) \/ TM!ReleaseChannel(s))
  /\ passed' = Nothing
  /\ UNCHANGED vars

(* The channels of a session are printed in a header, for the peer to      *)
(* parse.  The interleaved parameter is a pair.                            *)
Announce(s) ==
  /\ OwnHeader /\ rest = <<>> /\ s \in TM!Held
  /\ LET t == [Default EXCEPT !.type = "Interleaved", !.param["mode"] = "PLAY",
                 !.param["interleaved"] = <<channels[s].rtp, channels[s].rtcp>>]
     IN origin' = [kind |-> "announced", from |-> t] /\ rest' = String(t)
  /\ parsed' = Default /\ passed' = Nothing
  /\ UNCHANGED manager

(* GetTCPChannel, for both: what the parameter says, 0 and 1 without one.  *)
(* Mutant: the two are mixed up.                                           *)
MixedUp(t) == <<t.param["interleaved"][2], t.param["interleaved"][1]>>
GetTCPChannel(t) ==
  IF t.param["interleaved"] \in TM!Byte \X TM!Byte THEN t.param["interleaved"] ELSE <<0, 1>>

(* A frame is created on a channel of the parsed header, marshalled and    *)
(* parsed, and what it carries is taken out of it.                         *)
Refused == [kind |-> "refused"]
Pass(kind, sent, channel, size, got) ==
  /\ origin.kind = "announced" /\ rest = <<>>
  /\ passed' = [kind |-> kind, sent |-> sent, size |-> size, got |-> got,
                outcome |-> TM!Parse(TM!Frame(channel, size))]
  /\ UNCHANGED <<vars, manager>>

PassRTP(p) ==
  LET channel == GetTCPChannel(parsed)[1]  data == RTP!Marshal(p) IN
  Pass("rtp", p, channel, RTP!Size(data),
       IF TM!RTPChannel(channel) THEN RTP!ParseRTPPacket(data) ELSE Refused)

PassRTCP(size) ==
  LET channel == GetTCPChannel(parsed)[2] IN
  Pass("rtcp", size, channel, size, IF TM!RTCPChannel(channel) THEN size ELSE Refused)

-----------------------------------------------------------------------------
MediaNext ==
  \/ Parse
  \/ \E s \in Owners : Manage(s) \/ Announce(s)
  \/ \E p \in Packets : PassRTP(p)
  \/ \E size \in Sizes : PassRTCP(size)

MediaSpec == MediaInit /\ [][MediaNext]_allVars

-----------------------------------------------------------------------------
NearbyDistinct == TM!NearbyDistinct

(* The channels that the peer takes from a printed and parsed header are    *)
(* fit for RTP and RTCP, also when racing calls allocated them: what fits   *)
(* its fields comes out of a frame on them as it was, and is not refused.   *)
PacketsAccepted ==
  (passed # Nothing /\ (passed.kind = "rtp" => RTP!WellFormed(passed.sent)))
    => passed.got = passed.sent

(* Whatever packet reaches the receiver marshals into the bytes it came in, *)
(* also one whose fields were too large and ran into each other.            *)
ReceivedAsSent ==
  (passed.kind = "rtp" /\ passed.got \notin {RTP!TooShort, Refused})
    => RTP!Marshal(passed.got) = RTP!Marshal(passed.sent)

(* ParseTCPInterleavedFrame finds in a frame what Marshal put there if size *)
(* and header fit in 16 bits together; the last four sizes a header can     *)
(* name panic, and are not mistaken for shorter frames.                     *)
FramesRoundTrip ==
  passed # Nothing =>
    passed.outcome = IF passed.size + 4 < Lengths THEN TM!Outcome("data", passed.size)
                                                 ELSE TM!Outcome("panic", 0)
=============================================================================
