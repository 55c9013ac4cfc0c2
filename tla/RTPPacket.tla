------------------------------ MODULE RTPPacket ------------------------------
(***************************************************************************)
(* rtspProtocon/rtp.go: RTP packets as bytes and back.  The first two      *)
(* bytes, whose fields are or'ed together at fixed places whatever their   *)
(* values, are the sets of their bits that are set; what follows the fixed *)
(* header, the CSRC list and the payload, is a sequence of 4-byte words.   *)
(* Sequence number, timestamp and SSRC, copied from place to place, are    *)
(* left out.                                                               *)
(***************************************************************************)
EXTENDS Integers, Sequences

(* A packet as the program builds it: every field is as wide as its Go     *)
(* type, so CC may differ from the length of the CSRC list and both from   *)
(* what four bits hold.                                                    *)
RTPPackets == [version : 0..255, padding : BOOLEAN, extension : BOOLEAN, cc : 0..255,
               marker : BOOLEAN, payloadType : 0..255, csrc : Seq(Nat), payload : Seq(Nat)]

Weights == <<1, 2, 4, 8, 16, 32, 64, 128>>
Bits(n) == {i \in 0..7 : (n \div Weights[i + 1]) % 2 = 1}
ValueOf(bits) ==
  LET Weight(i) == IF i \in bits THEN Weights[i + 1] ELSE 0
  IN  Weight(0) + Weight(1) + Weight(2) + Weight(3)
        + Weight(4) + Weight(5) + Weight(6) + Weight(7)
ShiftLeft(bits, k) == {i \in 0..7 : i - k \in bits}
Flag(set, i) == IF set THEN {i} ELSE {}

FirstByte(p) ==
  ShiftLeft(Bits(p.version), 6) \cup Flag(p.padding, 5)
    \cup Flag(p.extension, 4) \cup Bits(p.cc)

(* The CSRC list is cut or padded with zeros to CC words.                  *)
Marshal(p) ==
  [first  |-> FirstByte(p),
   second |-> Flag(p.marker, 7) \cup Bits(p.payloadType),
   words  |-> [i \in 1..p.cc |-> IF i <= Len(p.csrc) THEN p.csrc[i] ELSE 0] \o p.payload]

(* The size in bytes, which is what GetRTPPacketSize says of it.           *)
Size(data) == 12 + 4 * Len(data.words)

(* Mutant: the bit of the padding flag is looked at again.                 *)
PaddingAgain(first) == 5 \in first
Extension(first) == 4 \in first

CC(data) == ValueOf(data.first \cap 0..3)

(* ParseRTPHeader and ParseRTPPacket, on twelve bytes or more.             *)
TooShort == [version |-> -1]
ParseRTPPacket(data) ==
  IF Len(data.words) < CC(data) THEN TooShort
  ELSE [version     |-> ValueOf({i - 6 : i \in data.first \cap {6, 7}}),
        padding     |-> 5 \in data.first,
        extension   |-> Extension(data.first),
        cc          |-> CC(data),
        marker      |-> 7 \in data.second,
        payloadType |-> ValueOf(data.second \ {7}),
        csrc        |-> SubSeq(data.words, 1, CC(data)),
        payload     |-> SubSeq(data.words, CC(data) + 1, Len(data.words))]

(* Fields that fit, and a list as long as its count.                       *)
WellFormed(p) ==
  p.version < 4 /\ p.cc < 16 /\ p.payloadType < 128 /\ Len(p.csrc) = p.cc
=============================================================================
