---------------------------- MODULE TCPTransport ----------------------------
(***************************************************************************)
(* rtspProtocon/tcp_transport.go: the channel numbers of interleaved       *)
(* sessions, and the frames sent on them.  A channel is a byte that wraps, *)
(* the length of a frame is 16 bits wide, and so is the sum `4+length' of  *)
(* ParseTCPInterleavedFrame.  The data of a frame are their size.          *)
(* The manager has no lock: calls of AllocateChannel for different         *)
(* sessions, each in a goroutine of its own, read and write NextChannel in *)
(* whatever order they like.  The Go runtime may abort the program when    *)
(* two of them write the map at once; that is left out.                    *)
(***************************************************************************)
EXTENDS Integers

CONSTANTS Owners,     \* session identifiers
          Bytes,      \* 256: the values of a byte
          Lengths,    \* 65536: the values of a uint16
          MaxAllocs   \* bound: calls of AllocateChannel

(* NewTCPInterleavedFrame and Marshal: the header says `length', `size'    *)
(* bytes of data follow it.                                                *)
Frame(channel, size) == [channel |-> channel, length |-> size % Lengths, size |-> size]

(* Mutant: the sum is compared without its header. *)
EndWithoutHeader(f) == f.length
EndOfData(f) == (4 + f.length) % Lengths

(* ParseTCPInterleavedFrame on the bytes of f: the size of the Data it     *)
(* returns, or what goes wrong.  The slice data[4:end] exists if end >= 4. *)
Outcome(kind, size) == [kind |-> kind, size |-> size]
Parse(f) ==
  IF 4 + f.size < EndOfData(f) THEN Outcome("incomplete", 0)
  ELSE IF EndOfData(f) < 4 THEN Outcome("panic", 0) ELSE Outcome("data", f.length)

(* ParseRTPFromInterleavedFrame, ParseRTCPFromInterleavedFrame.            *)
RTPChannel(n) == n % 2 = 0
RTCPChannel(n) == n % 2 = 1

VARIABLES
  next,      \* NextChannel
  channels,  \* Channels: the pair of each session in the map
  step,      \* where each session's AllocateChannel is
  seen,      \* what it last read of NextChannel
  calls,     \* history: calls of AllocateChannel begun so far
  made,      \* history: how many there were when the session's entry was made
  settled    \* history: how many when a call last began during another

Byte == 0..(Bytes - 1)
None == [rtp |-> Bytes, rtcp |-> Bytes]
Held == {s \in Owners : channels[s] # None}
Active == {s \in Owners : step[s] # "idle"}

Init ==
  /\ next = 0 /\ calls = 0 /\ settled = 0
  /\ channels = [s \in Owners |-> None]
  /\ step = [s \in Owners |-> "idle"] /\ seen = [s \in Owners |-> 0]
  /\ made = [s \in Owners |-> 0]

Goto(s, from, to) == step[s] = from /\ step' = [step EXCEPT ![s] = to]

(* AllocateChannel reads NextChannel for the RTP channel, and again for    *)
(* the RTCP channel, whereupon the pair is in the map, replacing an older  *)
(* one of the session; then `NextChannel += 2' reads and writes it.        *)
ReadRTP(s) ==
  /\ calls < MaxAllocs
  /\ Goto(s, "idle", "rtp") /\ seen' = [seen EXCEPT ![s] = next]
  /\ calls' = calls + 1
  /\ settled' = IF Active = {} THEN settled ELSE calls + 1
  /\ UNCHANGED <<next, channels, made>>

ReadRTCP(s) ==
  /\ Goto(s, "rtp", "mapped")
  /\ channels' = [channels EXCEPT ![s] = [rtp |-> seen[s], rtcp |-> (next + 1) % Bytes]]
  /\ made' = [made EXCEPT ![s] = calls]
  /\ UNCHANGED <<next, seen, calls, settled>>

LoadNext(s) ==
  /\ Goto(s, "mapped", "loaded") /\ seen' = [seen EXCEPT ![s] = next]
  /\ UNCHANGED <<next, channels, calls, made, settled>>

(* NextChannel moves by two and wraps; mutant: it moves past the RTP       *)
(* channel only.                                                           *)
AdvanceByOne(n) == (n + 1) % Bytes
Advance(n) == (n + 2) % Bytes

StoreNext(s) ==
  /\ Goto(s, "loaded", "idle") /\ next' = Advance(seen[s])
  /\ UNCHANGED <<channels, seen, calls, made, settled>>

AllocateChannel(s) == ReadRTP(s) \/ ReadRTCP(s) \/ LoadNext(s) \/ StoreNext(s)

ReleaseChannel(s) ==
  /\ step[s] = "idle"
  /\ channels' = [channels EXCEPT ![s] = None]
  /\ UNCHANGED <<next, step, seen, calls, made, settled>>

-----------------------------------------------------------------------------
(* Calls that race may hand out one channel twice and set NextChannel back. *)
(* It heals: sessions whose allocations all began after the last that began *)
(* during another, and lie fewer than 128 apart, have four different        *)
(* channels, across the wrap of the byte and whatever was released.         *)
NearbyDistinct ==
  \A s, t \in Held :
    (settled < made[s] /\ made[s] < made[t] /\ made[t] - made[s] < Bytes \div 2)
      => {channels[s].rtp, channels[s].rtcp} \cap {channels[t].rtp, channels[t].rtcp} = {}
=============================================================================
