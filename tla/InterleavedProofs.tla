-------------------------- MODULE InterleavedProofs --------------------------
(***************************************************************************)
(* The Transport header, for headers of any length and content; the codecs *)
(* of RTP packets and interleaved frames, for fields of any value; and the *)
(* channels of any number of sessions, allocated by calls that interleave  *)
(* in any way, for a channel number of any even number of values.          *)
(***************************************************************************)
EXTENDS Interleaved, SequenceTheorems, TLAPS

-----------------------------------------------------------------------------
(* A byte is determined by its bits.                                        *)
LEMMA BitMembers ==
  ASSUME NEW n \in 0..255
  PROVE  /\ RTP!Bits(n) \subseteq 0..7
         /\ 0 \in RTP!Bits(n) <=> n % 2 = 1
         /\ 1 \in RTP!Bits(n) <=> (n \div 2) % 2 = 1
         /\ 2 \in RTP!Bits(n) <=> (n \div 4) % 2 = 1
         /\ 3 \in RTP!Bits(n) <=> (n \div 8) % 2 = 1
         /\ 4 \in RTP!Bits(n) <=> (n \div 16) % 2 = 1
         /\ 5 \in RTP!Bits(n) <=> (n \div 32) % 2 = 1
         /\ 6 \in RTP!Bits(n) <=> (n \div 64) % 2 = 1
         /\ 7 \in RTP!Bits(n) <=> (n \div 128) % 2 = 1
<1> DEFINE Bit(i) == i \in RTP!Bits(n) <=> (n \div RTP!Weights[i + 1]) % 2 = 1
<1>1. \A i \in 0..7 : Bit(i)
  BY DEF RTP!Bits
<1>2. Bit(0) /\ Bit(1) /\ Bit(2) /\ Bit(3) /\ Bit(4) /\ Bit(5) /\ Bit(6) /\ Bit(7)
  BY <1>1
<1>3. n \div 1 = n /\ RTP!Bits(n) \subseteq 0..7
  BY DEF RTP!Bits
<1>4. /\ RTP!Weights[0 + 1] = 1 /\ RTP!Weights[1 + 1] = 2
      /\ RTP!Weights[2 + 1] = 4 /\ RTP!Weights[3 + 1] = 8
      /\ RTP!Weights[4 + 1] = 16 /\ RTP!Weights[5 + 1] = 32
      /\ RTP!Weights[6 + 1] = 64 /\ RTP!Weights[7 + 1] = 128
  BY DEF RTP!Weights
<1> QED
  BY <1>2, <1>3, <1>4

(* The i-th digit of the set S of bits.                                      *)
Digit(S, i) == IF i \in S THEN 1 ELSE 0

(* The value of a set of bits has them for digits.                          *)
LEMMA ValueDigits ==
  ASSUME NEW S, NEW n, n = RTP!ValueOf(S)
  PROVE  /\ n \in 0..255
         /\ n % 2 = Digit(S, 0) /\ (n \div 2) % 2 = Digit(S, 1)
         /\ (n \div 4) % 2 = Digit(S, 2) /\ (n \div 8) % 2 = Digit(S, 3)
         /\ (n \div 16) % 2 = Digit(S, 4) /\ (n \div 32) % 2 = Digit(S, 5)
         /\ (n \div 64) % 2 = Digit(S, 6) /\ (n \div 128) % 2 = Digit(S, 7)
<1>1. \A i : Digit(S, i) \in 0..1
  BY DEF Digit
<1>2. PICK b0 \in 0..1, b1 \in 0..1, b2 \in 0..1, b3 \in 0..1,
           b4 \in 0..1, b5 \in 0..1, b6 \in 0..1, b7 \in 0..1 :
        /\ Digit(S, 0) = b0 /\ Digit(S, 1) = b1 /\ Digit(S, 2) = b2 /\ Digit(S, 3) = b3
        /\ Digit(S, 4) = b4 /\ Digit(S, 5) = b5 /\ Digit(S, 6) = b6 /\ Digit(S, 7) = b7
  BY <1>1
<1>3. n = b0 + 2*b1 + 4*b2 + 8*b3 + 16*b4 + 32*b5 + 64*b6 + 128*b7
  BY <1>2, SMTT(60) DEF RTP!ValueOf, RTP!Weights, Digit
<1>4. /\ n \in 0..255
      /\ n % 2 = b0 /\ (n \div 2) % 2 = b1 /\ (n \div 4) % 2 = b2 /\ (n \div 8) % 2 = b3
      /\ (n \div 16) % 2 = b4 /\ (n \div 32) % 2 = b5 /\ (n \div 64) % 2 = b6
      /\ (n \div 128) % 2 = b7
  BY <1>3, SMTT(60)
<1> QED
  BY <1>2, <1>4

(* A set of bits is that of its value ...                                   *)
LEMMA BitsOfValue ==
  ASSUME NEW S \in SUBSET (0..7)
  PROVE  RTP!ValueOf(S) \in 0..255 /\ RTP!Bits(RTP!ValueOf(S)) = S
<1> DEFINE n == RTP!ValueOf(S)
<1>1. n \in 0..255
  BY ValueDigits
<1>2. /\ n % 2 = 1 <=> 0 \in S
      /\ (n \div 2) % 2 = 1 <=> 1 \in S
      /\ (n \div 4) % 2 = 1 <=> 2 \in S
      /\ (n \div 8) % 2 = 1 <=> 3 \in S
      /\ (n \div 16) % 2 = 1 <=> 4 \in S
      /\ (n \div 32) % 2 = 1 <=> 5 \in S
      /\ (n \div 64) % 2 = 1 <=> 6 \in S
      /\ (n \div 128) % 2 = 1 <=> 7 \in S
  BY ValueDigits DEF Digit
<1> HIDE DEF n
<1>3. \A i \in 0..7 : i \in RTP!Bits(n) <=> i \in S
  BY <1>1, <1>2, BitMembers
<1>4. RTP!Bits(n) \subseteq 0..7
  BY <1>1, BitMembers
<1>5. RTP!Bits(n) = S
  BY <1>3, <1>4
<1> QED
  BY <1>1, <1>5 DEF n

(* ... and a byte is the value of its bits.                                 *)
LEMMA ValueOfBits ==
  ASSUME NEW n \in 0..255
  PROVE  RTP!ValueOf(RTP!Bits(n)) = n
<1> DEFINE S == RTP!Bits(n)
<1>1. /\ 0 \in S <=> n % 2 = 1
      /\ 1 \in S <=> (n \div 2) % 2 = 1
      /\ 2 \in S <=> (n \div 4) % 2 = 1
      /\ 3 \in S <=> (n \div 8) % 2 = 1
      /\ 4 \in S <=> (n \div 16) % 2 = 1
      /\ 5 \in S <=> (n \div 32) % 2 = 1
      /\ 6 \in S <=> (n \div 64) % 2 = 1
      /\ 7 \in S <=> (n \div 128) % 2 = 1
  BY BitMembers
<1> HIDE DEF S
<1>2. RTP!ValueOf(S) = n
  BY <1>1, SMTT(60) DEF RTP!ValueOf, RTP!Weights
<1> QED
  BY <1>2 DEF S

(* A small number has no high bits.                                         *)
LEMMA SmallBits ==
  ASSUME NEW n \in 0..255
  PROVE  /\ n < 4 => RTP!Bits(n) \subseteq 0..1
         /\ n < 16 => RTP!Bits(n) \subseteq 0..3
         /\ n < 128 => RTP!Bits(n) \subseteq 0..6
<1> DEFINE S == RTP!Bits(n)
<1>1. S \subseteq 0..7 /\ (2 \in S <=> (n \div 4) % 2 = 1) /\ (3 \in S <=> (n \div 8) % 2 = 1)
  BY BitMembers
<1>2. (4 \in S <=> (n \div 16) % 2 = 1) /\ (5 \in S <=> (n \div 32) % 2 = 1)
      /\ (6 \in S <=> (n \div 64) % 2 = 1) /\ (7 \in S <=> (n \div 128) % 2 = 1)
  BY BitMembers
<1> HIDE DEF S
<1>3. n < 4 => n \div 4 = 0
  OBVIOUS
<1>4. n < 16 => n \div 16 = 0
  OBVIOUS
<1>5. n < 128 => n \div 128 = 0
  OBVIOUS
<1>6. (n < 4 => n \div 8 = 0) /\ (n < 16 => n \div 32 = 0 /\ n \div 64 = 0)
  OBVIOUS
<1>7. n < 4 => S \subseteq 0..1
  BY <1>1, <1>2, <1>3, <1>4, <1>5, <1>6
<1>8. n < 16 => S \subseteq 0..3
  BY <1>1, <1>2, <1>4, <1>5, <1>6
<1>9. n < 128 => S \subseteq 0..6
  BY <1>1, <1>2, <1>5
<1> QED
  BY <1>7, <1>8, <1>9 DEF S
-----------------------------------------------------------------------------
(* The words of a packet: its CSRC list, cut or padded, and its payload.    *)
List(p) == [i \in 1..p.cc |-> IF i <= Len(p.csrc) THEN p.csrc[i] ELSE 0]

(* Its words are the list and the payload, and the list is the CSRC list if *)
(* its length is CC.                                                        *)
LEMMA MarshalledWords ==
  ASSUME NEW p \in RTP!RTPPackets
  PROVE  /\ List(p) \in Seq(Nat) /\ Len(List(p)) = p.cc
         /\ RTP!Marshal(p).words = List(p) \o p.payload
         /\ RTP!Marshal(p).words \in Seq(Nat)
         /\ Len(p.csrc) = p.cc => List(p) = p.csrc
<1>1. /\ p.cc \in 0..255 /\ p.csrc \in Seq(Nat) /\ p.payload \in Seq(Nat)
  BY DEF RTP!RTPPackets
<1>2. p.cc \in Nat /\ Len(p.csrc) \in Nat
  <2>1. p.cc \in 0..255
    BY DEF RTP!RTPPackets
  <2>2. Len(p.csrc) \in Nat
    BY <1>1, LenProperties, Zenon
  <2>3. \A n \in 0..255 : n \in Nat
    OBVIOUS
  <2> QED
    BY <2>1, <2>2, <2>3, Zenon
<1>3. List(p) \in [1..p.cc -> Nat]
  <2> SUFFICES ASSUME NEW i \in 1..p.cc
               PROVE  (IF i <= Len(p.csrc) THEN p.csrc[i] ELSE 0) \in Nat
    BY DEF List
  <2>1. i <= Len(p.csrc) => p.csrc[i] \in Nat
    BY <1>1, <1>2, ElementOfSeq
  <2> QED
    BY <2>1
<1>4. List(p) \in Seq(Nat) /\ Len(List(p)) = p.cc
  BY <1>2, <1>3
<1>5. RTP!Marshal(p).words = List(p) \o p.payload
  BY DEF RTP!Marshal, List
<1>6. ASSUME Len(p.csrc) = p.cc PROVE List(p) = p.csrc
  <2>1. \A i \in 1..Len(List(p)) : List(p)[i] = p.csrc[i]
    BY <1>2, <1>4, <1>6 DEF List
  <2> QED
    BY <1>1, <1>4, <1>6, <2>1, SeqEqual
<1> QED
  BY <1>1, <1>4, <1>5, <1>6, ConcatProperties

(* A sequence comes apart where it was put together.                        *)
LEMMA Halves ==
  ASSUME NEW S, NEW s \in Seq(S), NEW t \in Seq(S)
  PROVE  /\ SubSeq(s \o t, 1, Len(s)) = s
         /\ SubSeq(s \o t, Len(s) + 1, Len(s \o t)) = t
<1> DEFINE w == s \o t
<1>1. /\ w \in Seq(S) /\ Len(w) = Len(s) + Len(t) /\ Len(s) \in Nat /\ Len(t) \in Nat
      /\ \A i \in 1..Len(s) + Len(t) : w[i] = IF i <= Len(s) THEN s[i] ELSE t[i - Len(s)]
  BY ConcatProperties
<1> HIDE DEF w
<1>2. \A i \in 1..Len(w) : w[i] \in S
  BY <1>1, ElementOfSeq
<1> DEFINE a == SubSeq(w, 1, Len(s))  b == SubSeq(w, Len(s) + 1, Len(w))
<1>3. /\ a \in Seq(S) /\ Len(a) = Len(s) /\ \A i \in 1..Len(s) : a[i] = w[i]
  <2>1. \A i \in 1..Len(s) : w[i] \in S
    BY <1>1, <1>2
  <2>2. /\ a \in Seq(S) /\ Len(a) = IF 1 <= Len(s) THEN Len(s) - 1 + 1 ELSE 0
        /\ \A i \in 1..Len(s) - 1 + 1 : a[i] = w[1 + i - 1]
    BY <1>1, <2>1, SubSeqProperties
  <2> HIDE DEF a
  <2> QED
    BY <1>1, <2>2
<1>4. /\ b \in Seq(S) /\ Len(b) = Len(t) /\ \A i \in 1..Len(t) : b[i] = w[Len(s) + i]
  <2>1. \A i \in Len(s) + 1..Len(w) : w[i] \in S
    BY <1>1, <1>2
  <2>2. /\ b \in Seq(S)
        /\ Len(b) = IF Len(s) + 1 <= Len(w) THEN Len(w) - (Len(s) + 1) + 1 ELSE 0
        /\ \A i \in 1..Len(w) - (Len(s) + 1) + 1 : b[i] = w[Len(s) + 1 + i - 1]
    BY <1>1, <2>1, SubSeqProperties
  <2> HIDE DEF b
  <2>3. Len(w) - (Len(s) + 1) + 1 = Len(t) /\ (Len(s) + 1 <= Len(w) <=> 1 <= Len(t))
    BY <1>1
  <2>4. \A i \in 1..Len(t) : b[i] = w[Len(s) + 1 + i - 1]
    BY <2>2, <2>3
  <2>5. \A i \in 1..Len(t) : Len(s) + 1 + i - 1 = Len(s) + i
    BY <1>1
  <2>6. Len(b) = Len(t)
    BY <1>1, <2>2, <2>3
  <2>7. \A i \in 1..Len(t) : b[i] = w[Len(s) + i]
    BY <2>4, <2>5
  <2> QED
    BY <2>2, <2>6, <2>7
<1> HIDE DEF a, b
<1>5. a = s
  <2>1. \A i \in 1..Len(a) : a[i] = s[i]
    BY <1>1, <1>3
  <2> QED
    BY <1>3, <2>1, SeqEqual
<1>6. b = t
  <2>1. ASSUME NEW i \in 1..Len(t) PROVE b[i] = t[i]
    <3>1. /\ Len(s) + i \in 1..Len(s) + Len(t) /\ ~(Len(s) + i <= Len(s))
          /\ Len(s) + i - Len(s) = i
      BY <1>1
    <3>2. w[Len(s) + i] = t[Len(s) + i - Len(s)]
      BY <1>1, <3>1
    <3> QED
      BY <1>4, <3>1, <3>2
  <2> QED
    BY <1>4, <2>1, SeqEqual
<1> QED
  BY <1>5, <1>6 DEF a, b, w

(* The bits of the version, where they came from.                           *)
High(first) == {i - 6 : i \in first \cap {6, 7}}

(* A packet whose fields fit is received as it was sent.                    *)
LEMMA CodecExact ==
  ASSUME NEW p \in RTP!RTPPackets, RTP!WellFormed(p)
  PROVE  RTP!ParseRTPPacket(RTP!Marshal(p)) = p
<1> DEFINE d == RTP!Marshal(p)
<1>1. /\ p.version \in 0..255 /\ p.version < 4 /\ p.cc \in 0..255 /\ p.cc < 16
      /\ p.payloadType \in 0..255 /\ p.payloadType < 128 /\ Len(p.csrc) = p.cc
      /\ p.padding \in BOOLEAN /\ p.extension \in BOOLEAN /\ p.marker \in BOOLEAN
      /\ p.csrc \in Seq(Nat) /\ p.payload \in Seq(Nat)
  BY DEF RTP!RTPPackets, RTP!WellFormed
<1>2. /\ RTP!Bits(p.version) \subseteq 0..1 /\ RTP!Bits(p.cc) \subseteq 0..3
      /\ RTP!Bits(p.payloadType) \subseteq 0..6
  BY <1>1, SmallBits
<1>3. /\ d.first = RTP!ShiftLeft(RTP!Bits(p.version), 6) \cup RTP!Flag(p.padding, 5)
                     \cup RTP!Flag(p.extension, 4) \cup RTP!Bits(p.cc)
      /\ d.second = RTP!Flag(p.marker, 7) \cup RTP!Bits(p.payloadType)
  BY DEF RTP!Marshal, RTP!FirstByte
<1>4. d.words = p.csrc \o p.payload
  BY <1>1, MarshalledWords
<1> HIDE DEF d
<1>5. /\ d.first \cap 0..3 = RTP!Bits(p.cc)
      /\ High(d.first) = RTP!Bits(p.version)
      /\ (5 \in d.first) = p.padding /\ (4 \in d.first) = p.extension
      /\ (7 \in d.second) = p.marker /\ d.second \ {7} = RTP!Bits(p.payloadType)
  <2> DEFINE V == RTP!Bits(p.version)  C == RTP!Bits(p.cc)  P == RTP!Bits(p.payloadType)
  <2> DEFINE first == d.first  second == d.second
  <2> DEFINE five == RTP!Flag(p.padding, 5)  four == RTP!Flag(p.extension, 4)
  <2> DEFINE seven == RTP!Flag(p.marker, 7)
  <2>1. /\ V \subseteq 0..1 /\ C \subseteq 0..3 /\ P \subseteq 0..6
        /\ first = RTP!ShiftLeft(V, 6) \cup five \cup four \cup C
        /\ second = seven \cup P
    BY <1>2, <1>3
  <2>2. /\ five \subseteq {5} /\ four \subseteq {4} /\ seven \subseteq {7}
        /\ (5 \in five) = p.padding /\ (4 \in four) = p.extension /\ (7 \in seven) = p.marker
    BY <1>1 DEF RTP!Flag
  <2> HIDE DEF V, C, P, first, second, five, four, seven
  <2>3. /\ RTP!ShiftLeft(V, 6) \subseteq {6, 7}
        /\ \A i \in {6, 7} : i \in RTP!ShiftLeft(V, 6) <=> i - 6 \in V
    BY <2>1 DEF RTP!ShiftLeft
  <2>4. first \cap 0..3 = C
    <3>1. \A i \in 0..3 : i # 4 /\ i # 5 /\ i \notin {6, 7}
      OBVIOUS
    <3>2. \A i \in 0..3 : i \in first <=> i \in C
      BY <2>1, <2>2, <2>3, <3>1, Zenon
    <3> QED
      BY <2>1, <3>2
  <2>5. \A i \in {6, 7} : i \in first <=> i - 6 \in V
    BY <2>1, <2>2, <2>3
  <2>6. High(first) = V
    <3>1. \A i \in first \cap {6, 7} : i - 6 \in V
      BY <2>5
    <3>2. \A j \in V : j + 6 \in first \cap {6, 7} /\ j = (j + 6) - 6
      BY <2>1, <2>5
    <3> QED
      BY <3>1, <3>2 DEF High
  <2>7. (5 \in first) = (5 \in five) /\ (4 \in first) = (4 \in four)
    BY <2>1, <2>2, <2>3
  <2>8. (7 \in second) = (7 \in seven) /\ second \ {7} = P
    <3>1. 7 \notin P
      BY <2>1
    <3>2. second = seven \cup P /\ seven \subseteq {7}
      BY <2>1, <2>2
    <3>3. second \ {7} = P
      BY <3>1, <3>2
    <3>4. (7 \in second) = (7 \in seven)
      BY <3>1, <3>2
    <3> QED
      BY <3>3, <3>4
  <2> QED
    BY <2>2, <2>4, <2>6, <2>7, <2>8, Zenon DEF V, C, P, first, second
<1>9. /\ RTP!CC(d) = p.cc /\ RTP!ValueOf(d.second \ {7}) = p.payloadType
      /\ RTP!ValueOf(High(d.first)) = p.version
  BY <1>1, <1>5, ValueOfBits DEF RTP!CC
<1>10. /\ SubSeq(d.words, 1, p.cc) = p.csrc
       /\ SubSeq(d.words, p.cc + 1, Len(d.words)) = p.payload
       /\ ~(Len(d.words) < p.cc)
  <2> DEFINE s == p.csrc  w == p.payload
  <2>1. s \in Seq(Nat) /\ w \in Seq(Nat) /\ Len(s) = p.cc /\ d.words = s \o w
    BY <1>1, <1>4
  <2> HIDE DEF s, w
  <2>2. Len(d.words) = Len(s) + Len(w) /\ Len(s) \in Nat /\ Len(w) \in Nat
    BY <2>1, ConcatProperties, LenProperties
  <2>3. SubSeq(d.words, 1, Len(s)) = s /\ SubSeq(d.words, Len(s) + 1, Len(d.words)) = w
    BY <2>1, Halves
  <2>4. ~(Len(d.words) < Len(s))
    BY <2>2
  <2> QED
    BY <2>1, <2>3, <2>4 DEF s, w
<1>11. RTP!ParseRTPPacket(d)
         = [version |-> p.version, padding |-> p.padding, extension |-> p.extension,
            cc |-> p.cc, marker |-> p.marker, payloadType |-> p.payloadType,
            csrc |-> p.csrc, payload |-> p.payload]
  BY <1>5, <1>9, <1>10, Zenon DEF RTP!ParseRTPPacket, RTP!Extension, High
<1>12. p = [version |-> p.version, padding |-> p.padding, extension |-> p.extension,
            cc |-> p.cc, marker |-> p.marker, payloadType |-> p.payloadType,
            csrc |-> p.csrc, payload |-> p.payload]
  BY DEF RTP!RTPPackets
<1> QED
  BY <1>11, <1>12 DEF d

(* The bytes of any packet are the bytes of what is received.               *)
LEMMA CodecStable ==
  ASSUME NEW p \in RTP!RTPPackets, RTP!ParseRTPPacket(RTP!Marshal(p)) # RTP!TooShort
  PROVE  RTP!Marshal(RTP!ParseRTPPacket(RTP!Marshal(p))) = RTP!Marshal(p)
<1> DEFINE d == RTP!Marshal(p)  q == RTP!ParseRTPPacket(d)
<1>1. /\ d.words \in Seq(Nat) /\ d.first \subseteq 0..7 /\ d.second \subseteq 0..7
      /\ d = [first |-> d.first, second |-> d.second, words |-> d.words]
  <2>1. /\ p.cc \in 0..255 /\ p.payloadType \in 0..255 /\ p.version \in 0..255
    BY DEF RTP!RTPPackets
  <2>2. RTP!Bits(p.cc) \subseteq 0..7 /\ RTP!Bits(p.payloadType) \subseteq 0..7
    BY <2>1, BitMembers
  <2>3. d.first \subseteq 0..7 /\ d.second \subseteq 0..7
    BY <2>2 DEF RTP!Marshal, RTP!FirstByte, RTP!ShiftLeft, RTP!Flag
  <2> QED
    BY <2>3, MarshalledWords DEF RTP!Marshal
<1> HIDE DEF d
<1> DEFINE cc == RTP!CC(d)
<1> DEFINE high == {i - 6 : i \in d.first \cap {6, 7}}
<1>2. ~(Len(d.words) < cc)
  BY DEF RTP!ParseRTPPacket, d
<1>3. /\ q.version = RTP!ValueOf(high) /\ q.padding = (5 \in d.first)
      /\ q.extension = (4 \in d.first) /\ q.cc = cc /\ q.marker = (7 \in d.second)
      /\ q.payloadType = RTP!ValueOf(d.second \ {7})
      /\ q.csrc = SubSeq(d.words, 1, cc)
      /\ q.payload = SubSeq(d.words, cc + 1, Len(d.words))
  BY <1>2 DEF RTP!ParseRTPPacket, RTP!Extension
<1>4. high \subseteq 0..1
  OBVIOUS
<1> HIDE DEF q
<1>5. /\ RTP!Bits(q.version) = high /\ RTP!Bits(q.payloadType) = d.second \ {7}
      /\ RTP!Bits(q.cc) = d.first \cap 0..3 /\ cc \in 0..255
  <2>1. high \in SUBSET (0..7) /\ d.second \ {7} \in SUBSET (0..7)
        /\ d.first \cap 0..3 \in SUBSET (0..7)
    BY <1>1, <1>4
  <2> HIDE DEF high
  <2>2. cc = RTP!ValueOf(d.first \cap 0..3)
    BY DEF RTP!CC
  <2> QED
    <3>1. /\ q.version = RTP!ValueOf(high) /\ q.payloadType = RTP!ValueOf(d.second \ {7})
          /\ q.cc = RTP!ValueOf(d.first \cap 0..3)
      BY <1>3, <2>2
    <3> HIDE DEF cc
    <3>2. RTP!Bits(q.version) = high
      BY <2>1, <3>1, BitsOfValue
    <3>3. RTP!Bits(q.payloadType) = d.second \ {7}
      BY <2>1, <3>1, BitsOfValue
    <3>4. RTP!Bits(q.cc) = d.first \cap 0..3 /\ cc \in 0..255
      BY <2>1, <2>2, <3>1, BitsOfValue
    <3> QED
      BY <3>2, <3>3, <3>4
<1>6. RTP!ShiftLeft(high, 6) = d.first \cap {6, 7}
  <2>1. \A i \in 0..7 : i - 6 \in high <=> i \in d.first \cap {6, 7}
    OBVIOUS
  <2> QED
    BY <2>1 DEF RTP!ShiftLeft
<1>7. RTP!FirstByte(q) = d.first
  <2>1. RTP!FirstByte(q) = (d.first \cap {6, 7}) \cup RTP!Flag(5 \in d.first, 5)
                             \cup RTP!Flag(4 \in d.first, 4) \cup (d.first \cap 0..3)
    BY <1>3, <1>5, <1>6 DEF RTP!FirstByte
  <2> QED
    BY <1>1, <2>1 DEF RTP!Flag
<1>8. RTP!Flag(q.marker, 7) \cup RTP!Bits(q.payloadType) = d.second
  BY <1>1, <1>3, <1>5 DEF RTP!Flag
<1>9. /\ List(q) = q.csrc /\ q.csrc \o q.payload = d.words
  <2>1. Len(d.words) \in Nat /\ cc \in 0..Len(d.words)
    <3> HIDE DEF cc
    <3>1. Len(d.words) \in Nat
      BY <1>1, LenProperties
    <3> QED
      BY <1>2, <1>5, <3>1
  <2>2. q.csrc \in Seq(Nat) /\ Len(q.csrc) = cc
    <3>1. \A i \in 1..cc : d.words[i] \in Nat
      BY <1>1, <2>1, ElementOfSeq
    <3>2. /\ SubSeq(d.words, 1, cc) \in Seq(Nat)
          /\ Len(SubSeq(d.words, 1, cc)) = IF 1 <= cc THEN cc - 1 + 1 ELSE 0
      BY <2>1, <3>1, SubSeqProperties
    <3> QED
      BY <1>3, <2>1, <3>2
  <2>3. List(q) = [i \in 1..cc |-> q.csrc[i]]
    BY <1>3, <2>1, <2>2 DEF List
  <2>4. q.csrc = [i \in 1..cc |-> q.csrc[i]]
    BY <2>2
  <2>5. q.csrc \o q.payload = SubSeq(d.words, 1, Len(d.words))
    <3> HIDE DEF cc
    <3>1. /\ cc \in 1 - 1..Len(d.words) /\ Len(d.words) \in cc..Len(d.words)
          /\ 1 \in 1..Len(d.words) + 1
      BY <2>1
    <3> QED
      BY <1>1, <1>3, <3>1, ConcatAdjacentSubSeq
  <2> QED
    BY <1>1, <2>3, <2>4, <2>5, SubSeqFull
<1>10. RTP!Marshal(q)
         = [first |-> RTP!FirstByte(q),
            second |-> RTP!Flag(q.marker, 7) \cup RTP!Bits(q.payloadType),
            words |-> List(q) \o q.payload]
  BY DEF RTP!Marshal, List
<1>11. RTP!Marshal(q) = d
  BY <1>1, <1>7, <1>8, <1>9, <1>10
<1> QED
  BY <1>11 DEF q, d
-----------------------------------------------------------------------------
(* What a parameter may hold once channels are announced: a value, nothing or*)
(* a pair of channels.                                                      *)
Pairs == TM!Byte \X TM!Byte
AnyValue == Values \cup {Empty, "PLAY"} \cup Pairs
AnyPart == [token : Params \cup Flags \cup Profiles, value : AnyValue]
Printable ==
  [type : Types, unicast : BOOLEAN, multicast : BOOLEAN, param : [Params -> AnyValue]]
Parsable ==
  [type : {"RTP"}, unicast : BOOLEAN, multicast : BOOLEAN, param : [Params -> AnyValue]]

(* The part a field of t is printed as, and all that t is printed as.       *)
PartOf(t, p) == [token |-> p, value |-> t.param[p]]
Bare(token) == [token |-> token, value |-> Empty]
PartsOf(t) ==
  {Bare(ProfileOf[t.type])}
    \cup {Bare(flag) : flag \in {f \in Flags : IF f = "unicast" THEN t.unicast
                                               ELSE ~t.unicast /\ t.multicast}}
    \cup {PartOf(t, p) : p \in {q \in Params : t.param[q] # Empty}}

Occurs(x, s) == \E i \in 1..Len(s) : s[i] = x

(* The parameters whose part is taken for nothing else.                     *)
Safe(t, p) ==
  ~Caught(PartOf(t, p)) /\ (p = "ttl" => t.param[p] \in Numbers \cup {Empty})

(* What is in q of a header printed from t of which r is still to come.     *)
Pending(t, r, q) ==
  /\ r \in Seq(PartsOf(t))
  /\ \A p \in Params :
       Safe(t, p) => \/ q.param[p] = t.param[p]
                     \/ q.param[p] = Empty /\ t.param[p] # Empty /\ Occurs(PartOf(t, p), r)
  /\ Survives(t) => \/ q.multicast = t.multicast
                    \/ t.multicast /\ Occurs(Bare("multicast"), r)

(* What occurs in a part of a sequence occurs in it.                        *)
LEMMA Joined ==
  ASSUME NEW S, NEW s \in Seq(S), NEW t \in Seq(S)
  PROVE  /\ s \o t \in Seq(S)
         /\ \A x : Occurs(x, s) \/ Occurs(x, t) => Occurs(x, s \o t)
<1> DEFINE w == s \o t
<1>1. /\ w \in Seq(S) /\ Len(w) = Len(s) + Len(t) /\ Len(s) \in Nat /\ Len(t) \in Nat
      /\ \A i \in 1..Len(s) + Len(t) : w[i] = IF i <= Len(s) THEN s[i] ELSE t[i - Len(s)]
  BY ConcatProperties
<1> HIDE DEF w
<1>2. ASSUME NEW x, NEW i \in 1..Len(s), s[i] = x PROVE Occurs(x, w)
  <2>1. i \in 1..Len(w) /\ w[i] = x
    BY <1>1, <1>2
  <2> QED
    BY <2>1 DEF Occurs
<1>3. ASSUME NEW x, NEW i \in 1..Len(t), t[i] = x PROVE Occurs(x, w)
  <2>1. /\ Len(s) + i \in 1..Len(s) + Len(t) /\ ~(Len(s) + i <= Len(s))
        /\ Len(s) + i - Len(s) = i
    BY <1>1
  <2>2. w[Len(s) + i] = t[Len(s) + i - Len(s)]
    BY <1>1, <2>1
  <2>3. w[Len(s) + i] = x /\ Len(s) + i \in 1..Len(w)
    BY <1>1, <1>3, <2>1, <2>2
  <2> QED
    BY <2>3 DEF Occurs
<1> QED
  BY <1>1, <1>2, <1>3 DEF Occurs, w

(* A sequence of one.                                                       *)
LEMMA Single ==
  ASSUME NEW S, NEW x \in S
  PROVE  <<x>> \in Seq(S) /\ Occurs(x, <<x>>)
<1>1. Len(<<x>>) = 1 /\ <<x>>[1] = x
  OBVIOUS
<1> QED
  BY <1>1 DEF Occurs

(* What occurs in a sequence is its head or occurs in its tail.             *)
LEMMA StillToCome ==
  ASSUME NEW S, NEW s \in Seq(S), s # <<>>, NEW x, Occurs(x, s), x # Head(s)
  PROVE  Occurs(x, Tail(s))
<1>1. PICK i \in 1..Len(s) : s[i] = x
  BY DEF Occurs
<1>2. Len(s) \in Nat /\ Head(s) = s[1]
  BY LenProperties
<1>3. /\ Len(Tail(s)) = Len(s) - 1 /\ \A j \in 1..Len(Tail(s)) : Tail(s)[j] = s[j + 1]
  BY HeadTailProperties
<1>4. i # 1
  BY <1>1, <1>2
<1>5. i - 1 \in 1..Len(Tail(s)) /\ (i - 1) + 1 = i
  BY <1>2, <1>3, <1>4
<1>6. Tail(s)[i - 1] = s[(i - 1) + 1]
  BY <1>3, <1>5
<1> QED
  BY <1>1, <1>5, <1>6 DEF Occurs

(* All that is printed are a struct's parts ...                             *)
LEMMA PartsTyped ==
  ASSUME NEW t \in Printable
  PROVE  PartsOf(t) \subseteq AnyPart
<1>1. ProfileOf[t.type] \in Profiles /\ Empty \in AnyValue
  BY DEF ProfileOf, Profiles, Printable, Types, AnyValue
<1>2. \A p \in Params : PartOf(t, p) \in AnyPart
  BY DEF Printable, PartOf, AnyPart
<1>3. \A token \in Params \cup Flags \cup Profiles : Bare(token) \in AnyPart
  BY <1>1 DEF Bare, AnyPart
<1> QED
  BY <1>1, <1>2, <1>3 DEF PartsOf

(* ... a parameter's among them if it is set ...                            *)
LEMMA PrintsParam ==
  ASSUME NEW t, NEW p \in Params
  PROVE  /\ Printed(t, p) \in Seq(PartsOf(t))
         /\ t.param[p] # Empty => Occurs(PartOf(t, p), Printed(t, p))
<1>1. CASE t.param[p] = Empty
  BY <1>1 DEF Printed
<1>2. CASE t.param[p] # Empty
  <2>1. PartOf(t, p) \in PartsOf(t) /\ Printed(t, p) = <<PartOf(t, p)>>
    BY <1>2 DEF PartsOf, Printed, PartOf
  <2> QED
    BY <2>1, Single
<1> QED
  BY <1>1, <1>2

(* ... and nothing that is set is left out.                                 *)
LEMMA PrintsAll ==
  ASSUME NEW t \in Printable
  PROVE  /\ String(t) \in Seq(PartsOf(t))
         /\ \A p \in Params : t.param[p] # Empty => Occurs(PartOf(t, p), String(t))
         /\ ~t.unicast /\ t.multicast => Occurs(Bare("multicast"), String(t))
<1> DEFINE S == PartsOf(t)
<1> DEFINE a == Printed(t, "client_port")  b == Printed(t, "server_port")
           c == Printed(t, "ssrc")  d == Printed(t, "mode")  e == Printed(t, "ttl")
           f == Printed(t, "destination")  g == Printed(t, "interleaved")
           h == FlagParts(t)  k == <<Bare(ProfileOf[t.type])>>
           In(p, s) == t.param[p] # Empty => Occurs(PartOf(t, p), s)
           Cast(s) == ~t.unicast /\ t.multicast => Occurs(Bare("multicast"), s)
<1>1. /\ a \in Seq(S) /\ b \in Seq(S) /\ c \in Seq(S) /\ d \in Seq(S) /\ e \in Seq(S)
      /\ f \in Seq(S) /\ g \in Seq(S)
      /\ In("client_port", a) /\ In("server_port", b) /\ In("ssrc", c) /\ In("mode", d)
      /\ In("ttl", e) /\ In("destination", f) /\ In("interleaved", g)
  BY PrintsParam DEF Params
<1>2. h \in Seq(S) /\ Cast(h)
  <2>1. CASE t.unicast
    <3>1. Bare("unicast") \in S /\ h = <<Bare("unicast")>>
      BY <2>1 DEF FlagParts, PartsOf, Bare, Flags
    <3> QED
      BY <2>1, <3>1, Single
  <2>2. CASE ~t.unicast /\ t.multicast
    <3>1. Bare("multicast") \in S /\ h = <<Bare("multicast")>>
      BY <2>2 DEF FlagParts, PartsOf, Bare, Flags
    <3> QED
      BY <3>1, Single
  <2>3. CASE ~t.unicast /\ ~t.multicast
    <3>1. h = <<>>
      BY <2>3 DEF FlagParts
    <3> QED
      BY <2>3, <3>1
  <2> QED
    BY <2>1, <2>2, <2>3
<1>3. k \in Seq(S)
  BY Single DEF PartsOf
<1> HIDE DEF S, a, b, c, d, e, f, g, h, k
<1>4. a \o b \in Seq(S) /\ In("client_port", a \o b) /\ In("server_port", a \o b)
  BY <1>1, Joined
<1> DEFINE ab == a \o b  abc == ab \o c  abcd == abc \o d  abcde == abcd \o e
           abcdef == abcde \o f  all == abcdef \o g
<1> HIDE DEF In
<1>5. \A p, s, r : s \in Seq(S) /\ r \in Seq(S) /\ (In(p, s) \/ In(p, r)) => In(p, s \o r)
  BY Joined DEF In
<1>6. \A s, r : s \in Seq(S) /\ r \in Seq(S) => s \o r \in Seq(S)
  BY Joined
<1>7. /\ ab \in Seq(S) /\ abc \in Seq(S) /\ abcd \in Seq(S) /\ abcde \in Seq(S)
      /\ abcdef \in Seq(S) /\ all \in Seq(S)
  BY <1>1, <1>6
<1> HIDE DEF all, abcdef, abcde, abcd, abc, ab
<1>8. \A p \in {"client_port", "server_port"} : In(p, ab)
  BY <1>1, <1>5 DEF ab
<1>9. \A p \in {"client_port", "server_port", "ssrc"} : In(p, abc)
  BY <1>1, <1>5, <1>7, <1>8 DEF abc
<1>10. \A p \in {"client_port", "server_port", "ssrc", "mode"} : In(p, abcd)
  BY <1>1, <1>5, <1>7, <1>9 DEF abcd
<1>11. \A p \in {"client_port", "server_port", "ssrc", "mode", "ttl"} : In(p, abcde)
  BY <1>1, <1>5, <1>7, <1>10 DEF abcde
<1>12. \A p \in {"client_port", "server_port", "ssrc", "mode", "ttl", "destination"} :
         In(p, abcdef)
  BY <1>1, <1>5, <1>7, <1>11 DEF abcdef
<1>13. \A p \in Params : In(p, all)
  BY <1>1, <1>5, <1>7, <1>12 DEF all, Params
<1>14. String(t) = (k \o h) \o all
  BY DEF String, ParamParts, k, h, all, abcdef, abcde, abcd, abc, ab, a, b, c, d, e, f, g, Bare
<1>15. k \o h \in Seq(S) /\ (k \o h) \o all \in Seq(S)
  BY <1>2, <1>3, <1>6, <1>7
<1>16. \A p \in Params : In(p, (k \o h) \o all)
  BY <1>5, <1>7, <1>13, <1>15
<1>17. Cast((k \o h) \o all)
  <2>1. Cast(k \o h)
    BY <1>2, <1>3, Joined
  <2> QED
    BY <1>7, <1>15, <2>1, Joined
<1> QED
  BY <1>14, <1>15, <1>16, <1>17 DEF S, In
-----------------------------------------------------------------------------
(* The Transport header.                                                    *)
Fields == {"type", "unicast", "multicast", "param"}

HeaderInv ==
  /\ parsed = [f \in Fields |-> parsed[f]]
  /\ parsed["type"] = "RTP"
  /\ parsed["unicast"] \in BOOLEAN /\ parsed["multicast"] \in BOOLEAN
  /\ parsed["unicast"] # parsed["multicast"]

(* The third test never decides.                                           *)
LEMMA FirstTestShadows ==
  ASSUME NEW part, FirstMatch(part, 3) PROVE FALSE
BY DEF FirstMatch, Contains, Tests

(* A transport that was just created is of type RTP and unicast ...         *)
LEMMA HeaderInit == Init => HeaderInv
<1> SUFFICES ASSUME Init PROVE HeaderInv
  OBVIOUS
<1>1. parsed = Default
  BY DEF Init
<1>2. DOMAIN parsed = Fields
  BY <1>1 DEF Default, Fields
<1>3. parsed["type"] = "RTP" /\ parsed["unicast"] = TRUE /\ parsed["multicast"] = FALSE
  BY <1>1 DEF Default
<1>4. parsed = [f \in Fields |-> parsed[f]]
  BY <1>1, <1>2 DEF Default
<1> QED
  BY <1>3, <1>4 DEF HeaderInv

(* ... and stays of type RTP, unicast or multicast.                         *)
LEMMA HeaderStep == HeaderInv /\ [Next]_vars => HeaderInv'
<1> SUFFICES ASSUME HeaderInv, [Next]_vars PROVE HeaderInv'
  OBVIOUS
<1> USE DEF HeaderInv, Fields
<1>1. ASSUME NEW i \in 1..Len(Tests), NEW part, FirstMatch(part, i), Apply(i, part)
      PROVE  HeaderInv'
  <2>1. i # 3
    BY <1>1, FirstTestShadows
  <2>2. Tests[i] # "RTP/AVP/TCP" /\ i \in 1..12
    BY <2>1 DEF Tests
  <2>3. CASE Tests[i] \in Profiles
    <3>1. parsed' = [parsed EXCEPT !.type = "RTP"]
      BY <1>1, <2>2, <2>3 DEF Apply, Profiles, Flags, Params
    <3> QED
      BY <3>1
  <2>4. CASE Tests[i] \in Flags
    <3>1. parsed' = [parsed EXCEPT !.unicast = Tests[i] = "unicast",
                                   !.multicast = Tests[i] = "multicast"]
      BY <1>1, <2>4 DEF Apply, SetFlag, Profiles, Flags, Params
    <3> QED
      BY <2>4, <3>1 DEF Flags
  <2>5. CASE Tests[i] \in Params
    <3>1. parsed' = [parsed EXCEPT !.param[Tests[i]] = part.value] \/ parsed' = parsed
      BY <1>1, <2>5 DEF Apply, SetParam, Profiles, Flags, Params
    <3> QED
      BY <3>1
  <2> QED
    BY <1>1, <2>3, <2>4, <2>5 DEF Apply
<1>2. CASE ParsePart
  BY <1>1, <1>2 DEF ParsePart
<1>3. CASE UNCHANGED vars
  BY <1>3 DEF vars
<1> QED
  BY <1>2, <1>3 DEF Next

(* IsTCPTransport is false of whatever ParseTransport returns, so the TCP   *)
(* branches of the server's and the client's SETUP are dead code.           *)
THEOREM ParsedNeverTCP == Spec => []NeverTCP
<1>1. HeaderInv => NeverTCP
  BY DEF HeaderInv, NeverTCP, IsTCPTransport
<1> QED
  BY <1>1, HeaderInit, HeaderStep, PTL DEF Spec

(* Every parsed transport is either unicast or multicast, never both.       *)
THEOREM ParsedOneCast == Spec => []OneCast
<1>1. HeaderInv => OneCast
  BY DEF HeaderInv, OneCast
<1> QED
  BY <1>1, HeaderInit, HeaderStep, PTL DEF Spec

(* Which test decides: a parameter's own unless a flag's test catches it,   *)
(* and a flag's only then.                                                  *)
LEMMA OwnTest ==
  ASSUME NEW x \in AnyPart, NEW i \in 1..Len(Tests), FirstMatch(x, i)
  PROVE  /\ Tests[i] \in Params => Tests[i] = x.token
         /\ x.token \in Params /\ ~Caught(x) => Tests[i] = x.token
         /\ x.token \in Flags /\ x.value = Empty => Tests[i] = x.token
         /\ Tests[i] \in Flags /\ ~Caught(x) /\ (x.token \in Params \/ x.value = Empty)
              => Tests[i] = x.token
         /\ Tests[i] # "RTP/AVP/TCP"
<1> USE TransportAssumption DEF Tests, Params, Flags
<1>1. Len(Tests) = 12
  OBVIOUS
<1>2. Contains(x, Tests[i]) /\ \A j \in 1..(i - 1) : ~Contains(x, Tests[j])
  BY DEF FirstMatch
<1>3. \A k \in 1..12 : x.token = Tests[k] => i <= k
  <2> SUFFICES ASSUME NEW k \in 1..12, x.token = Tests[k], ~(i <= k) PROVE FALSE
    BY <1>1
  <2>1. k \in 1..(i - 1) /\ Contains(x, Tests[k])
    BY <1>1 DEF Contains
  <2> QED
    BY <1>2, <2>1
<1>4. Tests[i] \in Params => Tests[i] = x.token
  BY <1>2 DEF Contains
<1>5. Tests[i] \in Flags => Tests[i] = x.token \/ (i = 8 /\ x.value = Tricky)
  BY <1>1, <1>2 DEF Contains
<1>6. Tests[i] \in Profiles => x.token \in Profiles
  BY <1>1, <1>2 DEF Contains, Profiles
<1>7. Tests[i] \in Params \cup Flags \cup Profiles
  BY <1>1 DEF Profiles
<1>8. ASSUME i = 8, x.value = Tricky, x.token \in Params PROVE Caught(x)
  <2>1. x.token \notin {"client_port", "server_port", "ssrc", "mode"}
    BY <1>3, <1>8
  <2> QED
    BY <1>8, <2>1 DEF Caught
<1>9. x.token \in Params \cup Flags => x.token \notin Profiles
  BY DEF Profiles
<1>10. Empty # Tricky
  OBVIOUS
<1>11. Tests[i] # "RTP/AVP/TCP"
  BY FirstTestShadows, <1>1
<1> HIDE DEF Tests, Params, Flags
<1> QED
  BY <1>4, <1>5, <1>6, <1>7, <1>8, <1>9, <1>10, <1>11, Zenon

(* A part that no test of a flag catches has a test.                        *)
LEMMA HasTest ==
  ASSUME NEW x \in AnyPart, x.token \in Params \cup Flags
  PROVE  ~NoMatch(x)
<1>1. \E i \in 1..12 : x.token = Tests[i]
  BY DEF Tests, Params, Flags
<1>2. Len(Tests) = 12
  BY DEF Tests
<1> QED
  BY <1>1, <1>2 DEF NoMatch, Contains

(* What a pass of the loop makes of a part.                                 *)
Parses(x) ==
  \/ \E i \in 1..Len(Tests) : FirstMatch(x, i) /\ Apply(i, x)
  \/ NoMatch(x) /\ UNCHANGED parsed

(* It leaves a transport of type RTP, unicast or multicast ...              *)
LEMMA PartTyped ==
  ASSUME parsed \in Parsable, parsed.unicast # parsed.multicast,
         NEW x \in AnyPart, Parses(x)
  PROVE  parsed' \in Parsable /\ parsed'.unicast # parsed'.multicast
<1>1. ASSUME NEW i \in 1..Len(Tests), FirstMatch(x, i), Apply(i, x)
      PROVE  parsed' \in Parsable /\ parsed'.unicast # parsed'.multicast
  <2>1. CASE Tests[i] \in Profiles
    <3>1. parsed' = [parsed EXCEPT !.type = "RTP"]
      BY <1>1, <2>1, OwnTest DEF Apply, Profiles, Flags, Params
    <3> QED
      BY <3>1 DEF Parsable
  <2>2. CASE Tests[i] \in Flags
    <3>1. parsed' = [parsed EXCEPT !.unicast = Tests[i] = "unicast",
                                   !.multicast = Tests[i] = "multicast"]
      BY <1>1, <2>2 DEF Apply, SetFlag, Profiles, Flags, Params
    <3>2. parsed' \in Parsable
      BY <3>1 DEF Parsable
    <3>3. parsed'.unicast = (Tests[i] = "unicast") /\ parsed'.multicast = (Tests[i] = "multicast")
      BY <3>1 DEF Parsable
    <3> QED
      BY <2>2, <3>2, <3>3 DEF Flags
  <2>3. CASE Tests[i] \in Params
    <3>1. parsed' = [parsed EXCEPT !.param[Tests[i]] = x.value] \/ parsed' = parsed
      BY <1>1, <2>3 DEF Apply, SetParam, Profiles, Flags, Params
    <3>2. x.value \in AnyValue
      BY DEF AnyPart
    <3> QED
      BY <2>3, <3>1, <3>2 DEF Parsable
  <2> QED
    BY <1>1, <2>1, <2>2, <2>3 DEF Apply
<1> QED
  BY <1>1 DEF Parses

(* It sets the part's own parameter or none ...                             *)
LEMMA PartSetsParam ==
  ASSUME parsed \in Parsable, NEW x \in AnyPart, Parses(x), NEW p \in Params
  PROVE  /\ parsed'.param[p] # parsed.param[p] => x.token = p /\ parsed'.param[p] = x.value
         /\ (x.token = p /\ ~Caught(x) /\ (p = "ttl" => x.value \in Numbers))
              => parsed'.param[p] = x.value
<1>1. ASSUME NoMatch(x), UNCHANGED parsed PROVE x.token # p /\ parsed' = parsed
  BY <1>1, HasTest
<1>2. ASSUME NEW i \in 1..Len(Tests), FirstMatch(x, i), Apply(i, x), Tests[i] \notin Params
      PROVE  /\ parsed'.param[p] = parsed.param[p]
             /\ x.token = p => Caught(x)
  <2>1. x.token = p => Caught(x)
    BY <1>2, OwnTest
  <2>2. \/ parsed' = [parsed EXCEPT !.type =
                           IF Tests[i] = "RTP/AVP/TCP" THEN "Interleaved" ELSE "RTP"]
        \/ parsed' = [parsed EXCEPT !.unicast = Tests[i] = "unicast",
                                    !.multicast = Tests[i] = "multicast"]
    BY <1>2, Zenon DEF Apply, SetFlag
  <2>3. parsed'.param[p] = parsed.param[p]
    BY <2>2 DEF Parsable
  <2> QED
    BY <2>1, <2>3
<1>3. ASSUME NEW i \in 1..Len(Tests), FirstMatch(x, i), Apply(i, x), Tests[i] \in Params
      PROVE  /\ parsed'.param[p] # parsed.param[p]
                  => x.token = p /\ parsed'.param[p] = x.value
             /\ x.token = p /\ (p = "ttl" => x.value \in Numbers)
                  => parsed'.param[p] = x.value
  <2>1. Tests[i] = x.token /\ x.token \in Params
    BY <1>3, OwnTest
  <2>2. parsed' = IF x.token = "ttl" /\ x.value \notin Numbers
                    THEN parsed ELSE [parsed EXCEPT !.param[x.token] = x.value]
    BY <1>3, <2>1 DEF Apply, SetParam, Profiles, Flags, Params
  <2> QED
    BY <2>1, <2>2 DEF Parsable
<1> QED
  BY <1>1, <1>2, <1>3 DEF Parses

(* ... and the flag it names or none, unless it is caught.                  *)
LEMMA PartSetsFlag ==
  ASSUME parsed \in Parsable, NEW x \in AnyPart, Parses(x),
         ~Caught(x), x.token \in Params \/ x.value = Empty
  PROVE  /\ x.token \in Flags => parsed'.multicast = (x.token = "multicast")
         /\ x.token \notin Flags => parsed'.multicast = parsed.multicast
<1>1. ASSUME NoMatch(x), UNCHANGED parsed PROVE x.token \notin Flags /\ parsed' = parsed
  BY <1>1, HasTest
<1>2. ASSUME NEW i \in 1..Len(Tests), FirstMatch(x, i), Apply(i, x), Tests[i] \notin Flags
      PROVE  x.token \notin Flags /\ parsed'.multicast = parsed.multicast
  <2>1. x.token \notin Flags
    <3>1. x.token \in Flags => x.value = Empty
      BY DEF Flags, Params
    <3> QED
      BY <1>2, <3>1, OwnTest
  <2>2. \/ \E t : parsed' = [parsed EXCEPT !.type = t]
        \/ parsed' = parsed
        \/ \E q, v : parsed' = [parsed EXCEPT !.param[q] = v]
    BY <1>2 DEF Apply, SetParam
  <2>3. parsed'.multicast = parsed.multicast
    BY <2>2 DEF Parsable
  <2> QED
    BY <2>1, <2>3
<1>3. ASSUME NEW i \in 1..Len(Tests), FirstMatch(x, i), Apply(i, x), Tests[i] \in Flags
      PROVE  x.token \in Flags /\ parsed'.multicast = (x.token = "multicast")
  <2>1. Tests[i] = x.token
    BY <1>3, OwnTest
  <2>2. parsed' = [parsed EXCEPT !.unicast = x.token = "unicast",
                                 !.multicast = x.token = "multicast"]
    BY <1>3, <2>1 DEF Apply, SetFlag, Profiles, Flags, Params
  <2> QED
    BY <1>3, <2>1, <2>2 DEF Parsable
<1> QED
  BY <1>1, <1>2, <1>3 DEF Parses
(* Nothing of a header that was just printed is lost yet ...                *)
LEMMA PendingStart ==
  ASSUME NEW t \in Printable
  PROVE  Pending(t, String(t), Default)
<1>1. \A p \in Params : Default.param[p] = Empty
  BY DEF Default
<1>2. Survives(t) => t.multicast = Default.multicast \/ (~t.unicast /\ t.multicast)
  BY DEF Survives, Default, Printable
<1> QED
  BY <1>1, <1>2, PrintsAll DEF Pending

(* ... nor is it when a part is parsed.                                     *)
LEMMA PendingStep ==
  ASSUME NEW t \in Printable, parsed \in Parsable, rest # <<>>, rest' = Tail(rest),
         Pending(t, rest, parsed), Parses(Head(rest))
  PROVE  Pending(t, rest', parsed')
<1> DEFINE x == Head(rest)
<1>1. rest \in Seq(PartsOf(t))
  BY DEF Pending
<1>2. x \in PartsOf(t) /\ rest' \in Seq(PartsOf(t)) /\ x \in AnyPart
  BY <1>1, HeadTailProperties, PartsTyped
<1>3. x.token \in Params => t.param[x.token] # Empty /\ x = PartOf(t, x.token)
  BY <1>2 DEF PartsOf, PartOf, Bare, Params, Flags, ProfileOf, Printable, Types
<1>4. \A y : y # x /\ Occurs(y, rest) => Occurs(y, rest')
  BY <1>1, StillToCome
<1> HIDE DEF x
<1>5. Parses(x)
  BY DEF x
<1>6. ASSUME NEW p \in Params, Safe(t, p)
      PROVE  \/ parsed'.param[p] = t.param[p]
             \/ /\ parsed'.param[p] = Empty /\ t.param[p] # Empty
                /\ Occurs(PartOf(t, p), rest')
  <2>1. \/ parsed.param[p] = t.param[p]
        \/ /\ parsed.param[p] = Empty /\ t.param[p] # Empty
           /\ Occurs(PartOf(t, p), rest)
    BY <1>6 DEF Pending
  <2>2. parsed'.param[p] = parsed.param[p] \/ parsed'.param[p] = t.param[p]
    <3>1. x.token = p => x.value = t.param[p]
      BY <1>3 DEF PartOf
    <3> QED
      BY <1>2, <1>5, <3>1, PartSetsParam
  <2>3. x = PartOf(t, p) /\ t.param[p] # Empty => parsed'.param[p] = t.param[p]
    <3> SUFFICES ASSUME x = PartOf(t, p), t.param[p] # Empty
                 PROVE  parsed'.param[p] = t.param[p]
      OBVIOUS
    <3>1. x.token = p /\ x.value = t.param[p]
      BY DEF PartOf
    <3>2. ~Caught(x) /\ (p = "ttl" => x.value \in Numbers)
      BY <1>6, <3>1 DEF Safe
    <3> QED
      BY <1>2, <1>5, <3>1, <3>2, PartSetsParam
  <2> QED
    BY <1>4, <2>1, <2>2, <2>3
<1>7. ASSUME Survives(t)
      PROVE  \/ parsed'.multicast = t.multicast
             \/ t.multicast /\ Occurs(Bare("multicast"), rest')
  <2>1. x.token \notin Params =>
          /\ x.value = Empty
          /\ x.token = "unicast" => x = Bare("unicast") /\ t.unicast
          /\ x.token = "multicast" => x = Bare("multicast") /\ ~t.unicast /\ t.multicast
    BY <1>2 DEF PartsOf, PartOf, Bare, Params, Flags, ProfileOf, Printable, Types
  <2>2. ~Caught(x) /\ (x.token \in Params \/ x.value = Empty)
    <3>1. CASE x.token \in Params
      BY <1>3, <1>7, <3>1 DEF Survives, PartOf
    <3>2. CASE x.token \notin Params
      BY <2>1, <3>2 DEF Caught, Params
    <3> QED
      BY <3>1, <3>2
  <2>3. /\ x.token \in Flags => parsed'.multicast = (x.token = "multicast")
        /\ x.token \notin Flags => parsed'.multicast = parsed.multicast
    BY <1>2, <1>5, <2>2, PartSetsFlag
  <2>4. \/ parsed.multicast = t.multicast
        \/ t.multicast /\ Occurs(Bare("multicast"), rest)
    BY <1>7 DEF Pending
  <2>5. CASE x.token \notin Flags
    <3>1. x # Bare("multicast")
      BY <2>5 DEF Bare, Flags
    <3> QED
      BY <1>4, <2>3, <2>4, <2>5, <3>1
  <2>6. CASE x.token = "multicast"
    BY <2>1, <2>3, <2>6 DEF Params, Flags, Printable
  <2>7. CASE x.token = "unicast"
    <3>1. t.unicast /\ t.multicast = FALSE
      BY <1>7, <2>1, <2>7 DEF Params, Survives, Printable
    <3>2. parsed'.multicast = FALSE
      BY <2>3, <2>7 DEF Flags
    <3> QED
      BY <3>1, <3>2
  <2> QED
    BY <2>5, <2>6, <2>7 DEF Flags
<1> QED
  BY <1>2, <1>6, <1>7 DEF Pending

-----------------------------------------------------------------------------
(* A pair of channels that is fit for RTP and RTCP.                         *)
Fit(pair) == pair \in Pairs /\ TM!RTPChannel(pair[1]) /\ TM!RTCPChannel(pair[2])

(* What holds of the header.                                                *)
HeaderOK ==
  /\ parsed \in Parsable /\ parsed.unicast # parsed.multicast
  /\ rest \in Seq(AnyPart)
  /\ origin.kind \in {"none", "printed", "received", "announced"}
  /\ origin.kind = "printed" => origin.from \in Origins /\ Pending(origin.from, rest, parsed)
  /\ origin.kind = "announced" =>
       /\ origin.from \in Printable /\ Pending(origin.from, rest, parsed)
       /\ Fit(origin.from.param["interleaved"])

(* Everything printed or sent by a peer is typed.                           *)
LEMMA HeaderTypes ==
  /\ Origins \subseteq Printable /\ Headers \subseteq Seq(AnyPart)
  /\ Default \in Parsable /\ Default.unicast # Default.multicast
<1> USE TransportAssumption
<1>1. Origins \subseteq Printable
  BY DEF Transports, Printable, AnyValue
<1>2. Parts \subseteq AnyPart
  BY DEF Parts, AnyPart, AnyValue
<1>3. \A h \in Headers : h \in Seq(Parts)
  OBVIOUS
<1>4. Headers \subseteq Seq(AnyPart)
  BY <1>2, <1>3, SeqMonotonic
<1>5. Default \in Parsable
  BY DEF Default, Parsable, AnyValue
<1> QED
  BY <1>1, <1>4, <1>5 DEF Default

(* So is what is printed of a struct.                                       *)
LEMMA StringTyped ==
  ASSUME NEW t \in Printable
  PROVE  String(t) \in Seq(AnyPart)
BY PrintsAll, PartsTyped, SeqMonotonic

(* It holds of a header that is about to be parsed ...                      *)
LEMMA HeaderOKInit == Init => HeaderOK
<1> SUFFICES ASSUME Init PROVE HeaderOK
  OBVIOUS
<1> USE HeaderTypes
<1>1. CASE \E t \in Origins : origin = [kind |-> "printed", from |-> t] /\ rest = String(t)
  <2>1. PICK t \in Origins : origin = [kind |-> "printed", from |-> t] /\ rest = String(t)
    BY <1>1
  <2>2. t \in Printable /\ parsed = Default
    BY DEF Init
  <2>3. Pending(t, rest, parsed) /\ rest \in Seq(AnyPart)
    BY <2>1, <2>2, PendingStart, StringTyped
  <2> QED
    BY <2>1, <2>2, <2>3 DEF HeaderOK
<1>2. CASE \E h \in Headers : origin = [kind |-> "received", from |-> h] /\ rest = h
  BY <1>2 DEF Init, HeaderOK
<1> QED
  BY <1>1, <1>2 DEF Init

(* ... and after each of its parts.                                         *)
LEMMA HeaderOKStep == HeaderOK /\ ParsePart => HeaderOK'
<1> SUFFICES ASSUME HeaderOK, ParsePart PROVE HeaderOK'
  OBVIOUS
<1> DEFINE x == Head(rest)
<1>1. rest # <<>> /\ rest' = Tail(rest) /\ origin' = origin /\ Parses(x)
  BY DEF ParsePart, Parses
<1>2. x \in AnyPart /\ rest' \in Seq(AnyPart)
  BY <1>1, HeadTailProperties DEF HeaderOK
<1>3. parsed' \in Parsable /\ parsed'.unicast # parsed'.multicast
  BY <1>1, <1>2, PartTyped DEF HeaderOK
<1>4. origin.kind \in {"printed", "announced"}
        => origin.from \in Printable /\ Pending(origin.from, rest', parsed')
  BY <1>1, HeaderTypes, PendingStep DEF HeaderOK
<1> QED
  BY <1>1, <1>2, <1>3, <1>4 DEF HeaderOK

(* A header of which nothing is to come says what was printed.              *)
LEMMA AllParsed ==
  ASSUME NEW t, Pending(t, <<>>, parsed)
  PROVE  /\ \A p \in Params : Safe(t, p) => parsed.param[p] = t.param[p]
         /\ Survives(t) => parsed.multicast = t.multicast
<1>1. \A x : ~Occurs(x, <<>>)
  BY DEF Occurs
<1> QED
  BY <1>1 DEF Pending

(* A struct that survives is parsed into itself.                            *)
LEMMA HeaderRoundTrip == HeaderOK => RoundTrip
<1> SUFFICES ASSUME HeaderOK, rest = <<>>, origin.kind = "printed", Survives(origin.from)
             PROVE  parsed = origin.from
  BY DEF RoundTrip
<1> DEFINE t == origin.from
<1>1. t \in Origins /\ Pending(t, <<>>, parsed)
  BY DEF HeaderOK
<1>2. /\ t \in Transports /\ t.param["ttl"] \in Numbers \cup {Empty}
  BY <1>1, TransportAssumption
<1>3. \A p \in Params : Safe(t, p)
  BY <1>2 DEF Survives, Safe, PartOf
<1>4. parsed.multicast = t.multicast /\ \A p \in Params : parsed.param[p] = t.param[p]
  BY <1>1, <1>3, AllParsed
<1> HIDE DEF t
<1>5. parsed.param = t.param
  BY <1>2, <1>4 DEF HeaderOK, Parsable, Transports
<1>6. parsed.type = t.type /\ t.unicast # t.multicast
  BY DEF HeaderOK, Parsable, Survives, t
<1>7. parsed.unicast = t.unicast
  BY <1>2, <1>4, <1>6 DEF HeaderOK, Parsable, Transports
<1>8. parsed = t
  BY <1>2, <1>4, <1>5, <1>6, <1>7 DEF HeaderOK, Parsable, Transports
<1> QED
  BY <1>8 DEF t
-----------------------------------------------------------------------------
(* A frame whose size and header fit in 16 bits carries its data; the last  *)
(* four sizes that a header can name do not.                                *)
LEMMA FrameOutcome ==
  ASSUME NEW channel, NEW size \in 0..(Lengths - 1)
  PROVE  TM!Parse(TM!Frame(channel, size))
           = IF size + 4 < Lengths THEN TM!Outcome("data", size) ELSE TM!Outcome("panic", 0)
<1> DEFINE f == TM!Frame(channel, size)
<1>1. Lengths \in Nat /\ Lengths > 4
  BY WidthAssumption
<1>2. f.length = size /\ f.size = size
  <2>1. size % Lengths = size
    BY <1>1
  <2> QED
    BY <2>1 DEF TM!Frame
<1> HIDE DEF f
<1>3. CASE size + 4 < Lengths
  <2>1. TM!EndOfData(f) = 4 + size
    BY <1>1, <1>2, <1>3 DEF TM!EndOfData
  <2> QED
    BY <1>2, <1>3, <2>1 DEF TM!Parse, f
<1>4. CASE ~(size + 4 < Lengths)
  <2>1. (4 + size) % Lengths = 4 + size - Lengths
    BY <1>1, <1>4
  <2>2. TM!EndOfData(f) = 4 + size - Lengths
    BY <1>2, <2>1 DEF TM!EndOfData
  <2> QED
    BY <1>1, <1>2, <1>4, <2>2 DEF TM!Parse, f
<1> QED
  BY <1>3, <1>4

(* The channel b follows a by d allocations.                                *)
Ahead(a, d, b) == \E q \in Nat : a + 2 * d = b + Bytes * q

(* The allocations that have moved NextChannel on, when none races.         *)
Done == IF TM!Active = {} THEN calls ELSE calls - 1

(* The entries made since calls last raced, in the order of their numbers,  *)
(* and NextChannel after them.                                              *)
Recent == {s \in TM!Held : settled < made[s]}
Ordered ==
  /\ \A s \in Recent :
       /\ channels[s].rtcp = channels[s].rtp + 1
       /\ Ahead(channels[s].rtp, Done + 1 - made[s], next)
  /\ \A s, t \in Recent :
       made[s] < made[t] => Ahead(channels[s].rtp, made[t] - made[s], channels[t].rtp)

(* While no call races, the only one there is has read NextChannel as it is.*)
Alone ==
  settled < calls =>
    \A s \in TM!Active :
      /\ TM!Active = {s}
      /\ step[s] \in {"rtp", "loaded"} => seen[s] = next

Even(n) == n \in TM!Byte /\ n % 2 = 0

ManagerType ==
  /\ calls \in Nat /\ settled \in Nat /\ settled <= calls
  /\ Even(next)
  /\ step \in [Owners -> {"idle", "rtp", "mapped", "loaded"}]
  /\ seen \in [Owners -> TM!Byte] /\ \A s \in Owners : Even(seen[s])
  /\ made \in [Owners -> Nat] /\ \A s \in Owners : made[s] <= calls
  /\ channels \in [Owners -> [rtp : 0..Bytes, rtcp : 0..Bytes]]
  /\ \A s \in TM!Held :
       Even(channels[s].rtp) /\ channels[s].rtcp \in TM!Byte /\ channels[s].rtcp % 2 = 1

ManagerOK == ManagerType /\ Alone /\ Ordered

(* It holds of the manager at the start ...                                 *)
LEMMA ManagerInit == TM!Init => ManagerOK
<1> SUFFICES ASSUME TM!Init PROVE ManagerOK
  OBVIOUS
<1>1. Bytes \in Nat /\ Bytes > 0
  BY WidthAssumption
<1>2. calls = 0 /\ next = 0 /\ TM!Held = {} /\ TM!Active = {}
  BY DEF TM!Init, TM!Held, TM!Active
<1>3. 0 \in TM!Byte /\ Even(0)
  BY <1>1 DEF TM!Byte, Even
<1> QED
  BY <1>1, <1>2, <1>3
     DEF ManagerOK, ManagerType, Alone, Ordered, Recent, TM!Init, TM!None

(* The two sums wrap where they should.                                     *)
LEMMA Wraps ==
  ASSUME NEW n, Even(n)
  PROVE  /\ (n + 1) % Bytes = n + 1 /\ n + 1 \in TM!Byte /\ (n + 1) % 2 = 1
         /\ Even(TM!Advance(n))
         /\ TM!Advance(n) = IF n + 2 = Bytes THEN 0 ELSE n + 2
<1> USE DEF TM!Byte, Even
<1>0. Bytes \in Nat /\ Bytes > 0 /\ Bytes % 2 = 0
  BY WidthAssumption
<1>1. n \in 0..(Bytes - 1) /\ n % 2 = 0 /\ n + 2 <= Bytes
  BY <1>0
<1>2. (n + 1) % Bytes = n + 1 /\ (n + 1) % 2 = 1
  BY <1>0, <1>1
<1>3. (n + 2) % Bytes = IF n + 2 = Bytes THEN 0 ELSE n + 2
  <2>1. CASE n + 2 < Bytes
    BY <1>0, <1>1, <2>1
  <2>2. CASE n + 2 = Bytes
    BY <1>0, <2>2
  <2> QED
    BY <1>0, <1>1, <2>1, <2>2
<1>4. (n + 2) % 2 = 0
  BY <1>1
<1> QED
  BY <1>0, <1>1, <1>2, <1>3, <1>4 DEF TM!Advance

(* One allocation more moves NextChannel one further.                       *)
LEMMA AheadAdvances ==
  ASSUME NEW a \in Nat, NEW d \in Int, NEW n, Even(n), Ahead(a, d, n)
  PROVE  Ahead(a, d + 1, TM!Advance(n))
<1>0. Bytes \in Nat /\ n \in Nat
  BY WidthAssumption DEF Even, TM!Byte
<1>1. PICK q \in Nat : a + 2 * d = n + Bytes * q
  BY DEF Ahead
<1>2. TM!Advance(n) = IF n + 2 = Bytes THEN 0 ELSE n + 2
  BY Wraps
<1>3. CASE n + 2 # Bytes
  <2>1. a + 2 * (d + 1) = (n + 2) + Bytes * q
    <3> DEFINE u == Bytes * q
    <3>1. u \in Nat /\ a + 2 * d = n + u
      BY <1>0, <1>1
    <3> HIDE DEF u
    <3>2. a + 2 * (d + 1) = (n + 2) + u
      BY <1>0, <3>1
    <3> QED
      BY <3>2 DEF u
  <2> QED
    BY <1>2, <1>3, <2>1 DEF Ahead
<1>4. CASE n + 2 = Bytes
  <2>1. Bytes * (q + 1) = Bytes * q + Bytes
    BY <1>0
  <2>2. a + 2 * (d + 1) = 0 + Bytes * (q + 1)
    <3> DEFINE u == Bytes * q
    <3>1. u \in Nat /\ a + 2 * d = n + u /\ Bytes * (q + 1) = u + Bytes
      BY <1>0, <1>1, <2>1
    <3> HIDE DEF u
    <3> QED
      BY <1>0, <1>4, <3>1
  <2>3. q + 1 \in Nat
    OBVIOUS
  <2> QED
    BY <1>2, <1>4, <2>2, <2>3 DEF Ahead
<1> QED
  BY <1>3, <1>4

(* A channel follows itself by none.                                        *)
LEMMA AheadOfItself ==
  ASSUME NEW n \in Nat
  PROVE  Ahead(n, 0, n)
<1>1. n + 2 * 0 = n + Bytes * 0 /\ 0 \in Nat
  BY WidthAssumption
<1> QED
  BY <1>1 DEF Ahead

(* A call begins: alone, or racing, after which nothing is recent.          *)
LEMMA ReadRTPKeeps ==
  ASSUME ManagerOK, NEW s \in Owners, TM!ReadRTP(s)
  PROVE  ManagerOK'
<1> USE DEF ManagerOK, ManagerType
<1>1. /\ step[s] = "idle" /\ step' = [step EXCEPT ![s] = "rtp"]
      /\ seen' = [seen EXCEPT ![s] = next] /\ calls' = calls + 1
      /\ settled' = IF TM!Active = {} THEN settled ELSE calls + 1
      /\ UNCHANGED <<next, channels, made>>
  BY DEF TM!ReadRTP, TM!Goto
<1>2. TM!Active' = TM!Active \cup {s} /\ TM!Held' = TM!Held /\ next \in TM!Byte
  BY <1>1 DEF TM!Active, TM!Held, Even
<1>3. ManagerType'
  BY <1>1, <1>2 DEF Even
<1>4. CASE TM!Active = {}
  <2>1. settled' = settled /\ TM!Active' = {s} /\ Done' = Done /\ Recent' = Recent
    BY <1>1, <1>2, <1>4 DEF Done, Recent
  <2>2. Alone'
    BY <1>1, <2>1 DEF Alone
  <2>3. Ordered'
    BY <1>1, <2>1 DEF Ordered, Recent
  <2> QED
    BY <1>3, <2>2, <2>3
<1>5. CASE TM!Active # {}
  <2>1. settled' = calls + 1 /\ \A t \in Owners : ~(calls + 1 < made'[t])
    BY <1>1, <1>5
  <2>2. Recent' = {}
    BY <2>1 DEF Recent, TM!Held
  <2>3. ~(settled' < calls')
    BY <1>1, <1>5
  <2>4. Ordered'
    BY <2>2 DEF Ordered
  <2>5. Alone'
    BY <2>3 DEF Alone
  <2> QED
    BY <1>3, <2>4, <2>5
<1> QED
  BY <1>4, <1>5

(* The pair is made: the next in order, if the call is alone.               *)
LEMMA ReadRTCPKeeps ==
  ASSUME ManagerOK, NEW s \in Owners, TM!ReadRTCP(s)
  PROVE  ManagerOK'
<1> USE DEF ManagerOK, ManagerType
<1>1. /\ step[s] = "rtp" /\ step' = [step EXCEPT ![s] = "mapped"]
      /\ channels' = [channels EXCEPT ![s] = [rtp |-> seen[s], rtcp |-> (next + 1) % Bytes]]
      /\ made' = [made EXCEPT ![s] = calls]
      /\ UNCHANGED <<next, seen, calls, settled>>
  BY DEF TM!ReadRTCP, TM!Goto
<1>2. /\ (next + 1) % Bytes = next + 1 /\ next + 1 \in TM!Byte /\ (next + 1) % 2 = 1
      /\ Even(seen[s]) /\ Even(next)
  BY Wraps
<1>3. /\ channels'[s] = [rtp |-> seen[s], rtcp |-> next + 1] /\ made'[s] = calls
      /\ \A t \in Owners \ {s} : channels'[t] = channels[t] /\ made'[t] = made[t]
      /\ Bytes \in Nat
  BY <1>1, <1>2, WidthAssumption
<1>4. /\ channels' \in [Owners -> [rtp : 0..Bytes, rtcp : 0..Bytes]]
  BY <1>1, <1>2, <1>3 DEF Even, TM!Byte
<1>5. TM!Held' = TM!Held \cup {s}
  BY <1>2, <1>3 DEF TM!Held, TM!None, Even, TM!Byte
<1>6. TM!Active' = TM!Active /\ s \in TM!Active
  BY <1>1 DEF TM!Active
<1>7. ManagerType'
  <2>1. ASSUME NEW t \in TM!Held'
        PROVE  Even(channels'[t].rtp) /\ channels'[t].rtcp \in TM!Byte /\ channels'[t].rtcp % 2 = 1
    BY <1>2, <1>3, <1>5, <2>1 DEF TM!Held
  <2> QED
    BY <1>1, <1>3, <1>4, <2>1 DEF Even
<1>8. Alone'
  BY <1>1, <1>6 DEF Alone
<1>9. CASE settled < calls
  <2>1. seen[s] = next /\ Done = calls - 1 /\ Done' = Done
    BY <1>1, <1>6, <1>9 DEF Alone, Done
  <2>2. Recent' = Recent \cup {s}
    BY <1>1, <1>3, <1>5, <1>9 DEF Recent, TM!Held
  <2>3. channels'[s].rtp = next /\ channels'[s].rtcp = next + 1 /\ next \in Nat
    BY <1>2, <1>3, <2>1 DEF Even, TM!Byte
  <2>4. ASSUME NEW t \in Recent, t # s
        PROVE  /\ channels'[t] = channels[t] /\ made'[t] = made[t] /\ made[t] \in Nat
               /\ Ahead(channels[t].rtp, calls - made[t], next)
    <3>1. t \in Owners
      BY DEF Recent, TM!Held
    <3>2. Done + 1 - made[t] = calls - made[t]
      BY <2>1, <3>1
    <3> QED
      BY <1>3, <2>4, <3>1, <3>2 DEF Ordered
  <2>5. ASSUME NEW t \in Recent'
        PROVE  /\ channels'[t].rtcp = channels'[t].rtp + 1
               /\ Ahead(channels'[t].rtp, Done' + 1 - made'[t], next')
    <3>1. CASE t = s
      <4>1. Done' + 1 - made'[t] = 0
        BY <1>3, <2>1, <3>1
      <4> QED
        BY <1>1, <2>3, <3>1, <4>1, AheadOfItself
    <3>2. CASE t # s
      BY <1>1, <2>1, <2>2, <2>4, <2>5, <3>2 DEF Ordered
    <3> QED
      BY <3>1, <3>2
  <2>6. ASSUME NEW t \in Recent', NEW u \in Recent', made'[t] < made'[u]
        PROVE  Ahead(channels'[t].rtp, made'[u] - made'[t], channels'[u].rtp)
    <3>1. made'[u] <= calls /\ made'[u] \in Nat /\ made'[t] \in Nat
      BY <1>1, <1>7 DEF Recent, TM!Held
    <3>2. t # s
      BY <1>3, <2>6, <3>1
    <3>3. CASE u = s
      BY <1>3, <2>2, <2>3, <2>4, <3>2, <3>3
    <3>4. CASE u # s
      BY <2>2, <2>4, <2>6, <3>2, <3>4 DEF Ordered
    <3> QED
      BY <3>3, <3>4
  <2>7. Ordered'
    BY <2>5, <2>6 DEF Ordered
  <2> QED
    BY <1>7, <1>8, <2>7
<1>10. CASE ~(settled < calls)
  <2>1. \A t \in Owners : ~(settled' < made'[t])
    BY <1>1, <1>7, <1>10
  <2>2. Recent' = {}
    BY <2>1 DEF Recent, TM!Held
  <2> QED
    BY <1>7, <1>8, <2>2 DEF Ordered
<1> QED
  BY <1>9, <1>10

(* NextChannel is read to be moved.                                         *)
LEMMA LoadNextKeeps ==
  ASSUME ManagerOK, NEW s \in Owners, TM!LoadNext(s)
  PROVE  ManagerOK'
<1> USE DEF ManagerOK, ManagerType
<1>1. /\ step[s] = "mapped" /\ step' = [step EXCEPT ![s] = "loaded"]
      /\ seen' = [seen EXCEPT ![s] = next]
      /\ UNCHANGED <<next, channels, calls, made, settled>>
  BY DEF TM!LoadNext, TM!Goto
<1>2. /\ TM!Active' = TM!Active /\ TM!Held' = TM!Held /\ next \in TM!Byte
  BY <1>1 DEF TM!Active, TM!Held, Even
<1>3. Done' = Done /\ Recent' = Recent
  BY <1>1, <1>2 DEF Done, Recent
<1>4. ManagerType'
  BY <1>1, <1>2 DEF Even
<1>5. Alone'
  BY <1>1, <1>2 DEF Alone
<1>6. Ordered'
  BY <1>1, <1>3 DEF Ordered
<1> QED
  BY <1>4, <1>5, <1>6

(* NextChannel is moved: by one allocation, if the call is alone.           *)
LEMMA StoreNextKeeps ==
  ASSUME ManagerOK, NEW s \in Owners, TM!StoreNext(s)
  PROVE  ManagerOK'
<1> USE DEF ManagerOK, ManagerType
<1>1. /\ step[s] = "loaded" /\ step' = [step EXCEPT ![s] = "idle"]
      /\ next' = TM!Advance(seen[s])
      /\ UNCHANGED <<channels, seen, calls, made, settled>>
  BY DEF TM!StoreNext, TM!Goto
<1>2. /\ TM!Active' = TM!Active \ {s} /\ s \in TM!Active /\ TM!Held' = TM!Held
      /\ Recent' = Recent
  BY <1>1 DEF TM!Active, TM!Held, Recent
<1>3. Even(next')
  BY <1>1, Wraps
<1>4. ManagerType'
  BY <1>1, <1>2, <1>3 DEF Even
<1>5. CASE settled < calls
  <2>1. seen[s] = next /\ TM!Active' = {} /\ Done = calls - 1 /\ Done' = calls
    BY <1>1, <1>2, <1>5 DEF Alone, Done
  <2>2. Alone'
    BY <2>1 DEF Alone
  <2>3. ASSUME NEW t \in Recent PROVE Ahead(channels[t].rtp, Done' + 1 - made[t], next')
    <3>1. t \in TM!Held /\ t \in Owners
      BY DEF Recent, TM!Held
    <3>2. /\ channels[t].rtp \in Nat /\ Done + 1 - made[t] \in Int
          /\ (Done + 1 - made[t]) + 1 = Done' + 1 - made[t]
      BY <2>1, <3>1 DEF Even, TM!Byte
    <3>3. Ahead(channels[t].rtp, Done + 1 - made[t], next)
      BY DEF Ordered
    <3>4. Ahead(channels[t].rtp, (Done + 1 - made[t]) + 1, TM!Advance(next))
      BY <3>2, <3>3, AheadAdvances
    <3> QED
      BY <1>1, <2>1, <3>2, <3>4
  <2>4. Ordered'
    BY <1>1, <1>2, <2>3 DEF Ordered
  <2> QED
    BY <1>4, <2>2, <2>4
<1>6. CASE ~(settled < calls)
  <2>1. \A t \in Owners : ~(settled' < made'[t])
    BY <1>1, <1>6
  <2>2. Recent' = {}
    BY <2>1 DEF Recent, TM!Held
  <2> QED
    BY <1>1, <1>4, <1>6, <2>2 DEF Ordered, Alone
<1> QED
  BY <1>5, <1>6

(* A release makes no entry.                                                *)
LEMMA ReleaseKeeps ==
  ASSUME ManagerOK, NEW s \in Owners, TM!ReleaseChannel(s)
  PROVE  ManagerOK'
<1> USE DEF ManagerOK, ManagerType
<1>1. /\ channels' = [channels EXCEPT ![s] = TM!None]
      /\ UNCHANGED <<next, step, seen, calls, made, settled>>
  BY DEF TM!ReleaseChannel
<1>2. channels' \in [Owners -> [rtp : 0..Bytes, rtcp : 0..Bytes]]
  BY <1>1, WidthAssumption DEF TM!None
<1>3. ASSUME NEW t \in TM!Held' PROVE t \in TM!Held /\ channels'[t] = channels[t]
  BY <1>1, <1>3 DEF TM!Held, TM!None
<1>4. TM!Active' = TM!Active /\ Done' = Done
  BY <1>1 DEF TM!Active, Done
<1>5. \A t \in Recent' : t \in Recent /\ channels'[t] = channels[t]
  BY <1>1, <1>3 DEF Recent
<1>6. ManagerType'
  BY <1>1, <1>2, <1>3 DEF Even
<1>7. Alone'
  BY <1>1, <1>4 DEF Alone
<1>8. Ordered'
  BY <1>1, <1>4, <1>5 DEF Ordered
<1> QED
  BY <1>6, <1>7, <1>8

(* No multiple of a width lies strictly between nothing and it.             *)
LEMMA NoMultiple ==
  ASSUME NEW L \in Nat, NEW q \in Int, 0 < L * q, L * q < L
  PROVE  FALSE
OBVIOUS

(* Two numbers less than half a byte apart are no multiple of it apart.     *)
LEMMA ManagerDistinct == ManagerOK => NearbyDistinct
<1> SUFFICES ASSUME ManagerOK, NEW s \in TM!Held, NEW t \in TM!Held, settled < made[s],
                    made[s] < made[t], made[t] - made[s] < Bytes \div 2
             PROVE  {channels[s].rtp, channels[s].rtcp} \cap {channels[t].rtp, channels[t].rtcp} = {}
  BY DEF NearbyDistinct, TM!NearbyDistinct
<1> DEFINE d == made[t] - made[s]  a == channels[s].rtp  b == channels[t].rtp
<1>1. s \in Recent /\ t \in Recent
  BY DEF ManagerOK, ManagerType, Recent, TM!Held
<1>2. /\ d \in Nat /\ a \in Nat /\ b \in Nat /\ Bytes \in Nat /\ a % 2 = 0 /\ b % 2 = 0
      /\ a < Bytes /\ b < Bytes /\ 0 < d /\ d < Bytes \div 2
      /\ channels[s].rtcp = a + 1 /\ channels[t].rtcp = b + 1 /\ Ahead(a, d, b)
  BY <1>1, WidthAssumption DEF ManagerOK, ManagerType, Ordered, Even, TM!Byte, TM!Held
<1> HIDE DEF d, a, b
<1>3. a # b
  <2> SUFFICES ASSUME a = b PROVE FALSE
    OBVIOUS
  <2>1. PICK q \in Nat : a + 2 * d = b + Bytes * q
    BY <1>2 DEF Ahead
  <2>2. 2 * d = Bytes * q
    <3> DEFINE u == Bytes * q
    <3>1. u \in Nat /\ a + 2 * d = b + u
      BY <1>2, <2>1
    <3> HIDE DEF u
    <3>2. 2 * d = u
      BY <1>2, <3>1
    <3> QED
      BY <3>2 DEF u
  <2>3. 0 < 2 * d /\ 2 * d < Bytes
    BY <1>2
  <2>4. 0 < Bytes * q /\ Bytes * q < Bytes /\ q \in Int
    BY <2>2, <2>3
  <2> QED
    BY <1>2, <2>4, NoMultiple
<1>4. a # b + 1 /\ b # a + 1
  BY <1>2
<1>5. channels[s].rtp = a /\ channels[t].rtp = b
  BY DEF a, b
<1> QED
  BY <1>2, <1>3, <1>4, <1>5

-----------------------------------------------------------------------------
(* What went through the codecs last.                                       *)
PassedOK ==
  passed # Nothing =>
    /\ passed.kind \in {"rtp", "rtcp"}
    /\ passed.kind = "rtp" =>
         /\ passed.sent \in Packets
         /\ passed.got = RTP!ParseRTPPacket(RTP!Marshal(passed.sent))
    /\ passed.kind = "rtcp" => passed.got = passed.sent
    /\ FramesRoundTrip

MediaInv == HeaderInv /\ HeaderOK /\ ManagerOK /\ PassedOK

(* A transport that was just created keeps the header's invariant.          *)
LEMMA FreshHeader == parsed = Default => HeaderInv
<1> SUFFICES ASSUME parsed = Default PROVE HeaderInv
  OBVIOUS
<1>2. DOMAIN parsed = Fields
  BY DEF Default, Fields
<1>3. parsed["type"] = "RTP" /\ parsed["unicast"] = TRUE /\ parsed["multicast"] = FALSE
  BY DEF Default
<1>4. parsed = [f \in Fields |-> parsed[f]]
  BY <1>2 DEF Default
<1> QED
  BY <1>3, <1>4 DEF HeaderInv

(* So does one that SETUP creates for the next session.                     *)
LEMMA RenewedHeader == parsed' = Default => HeaderInv'
<1> SUFFICES ASSUME parsed' = Default PROVE HeaderInv'
  OBVIOUS
<1>2. DOMAIN parsed' = Fields
  BY DEF Default, Fields
<1>3. /\ parsed'["type"] = "RTP" /\ parsed'["unicast"] = TRUE
      /\ parsed'["multicast"] = FALSE
  BY DEF Default
<1>4. parsed' = [f \in Fields |-> parsed'[f]]
  BY <1>2 DEF Default
<1> QED
  BY <1>3, <1>4 DEF HeaderInv

(* The invariant holds before anything was sent.                            *)
LEMMA MediaInvInit == MediaInit => MediaInv
<1> SUFFICES ASSUME MediaInit PROVE MediaInv
  OBVIOUS
<1>1. ManagerOK /\ PassedOK
  BY ManagerInit DEF MediaInit, PassedOK
<1>2. CASE Init
  BY <1>1, <1>2, HeaderInit, HeaderOKInit DEF MediaInv
<1>3. CASE origin = NoHeader /\ rest = <<>> /\ parsed = Default
  <2>1. HeaderOK
    BY <1>3, HeaderTypes DEF HeaderOK, NoHeader
  <2> QED
    BY <1>1, <1>3, <2>1, FreshHeader DEF MediaInv
<1> QED
  BY <1>2, <1>3 DEF MediaInit

(* Taking a part of a header.                                               *)
LEMMA ParseStep == MediaInv /\ Parse => MediaInv'
<1> SUFFICES ASSUME MediaInv, Parse PROVE MediaInv'
  OBVIOUS
<1>1. HeaderInv' /\ HeaderOK'
  BY HeaderStep, HeaderOKStep DEF MediaInv, Parse, Next
<1>2. UNCHANGED <<manager, passed>>
  BY DEF Parse
<1>3. ManagerOK' /\ PassedOK'
  BY <1>2 DEF MediaInv, ManagerOK, ManagerType, Alone, Ordered, Recent, Done, Even,
     PassedOK, FramesRoundTrip, manager, TM!Held, TM!Active
<1> QED
  BY <1>1, <1>3 DEF MediaInv

(* A step of the manager.                                                   *)
LEMMA ManageStep ==
  ASSUME MediaInv, NEW s \in Owners, Manage(s)
  PROVE  MediaInv'
<1>1. (TM!AllocateChannel(s) \/ TM!ReleaseChannel(s)) /\ passed' = Nothing /\ UNCHANGED vars
  BY DEF Manage
<1>2. ManagerOK'
  BY <1>1, ReadRTPKeeps, ReadRTCPKeeps, LoadNextKeeps, StoreNextKeeps, ReleaseKeeps
     DEF MediaInv, TM!AllocateChannel
<1>3. HeaderInv' /\ HeaderOK'
  BY <1>1 DEF MediaInv, HeaderInv, HeaderOK, vars
<1> QED
  BY <1>1, <1>2, <1>3 DEF MediaInv, PassedOK

(* A session's channels are printed, and fit for what they are for.         *)
LEMMA AnnounceStep ==
  ASSUME MediaInv, NEW s \in Owners, Announce(s)
  PROVE  MediaInv'
<1> DEFINE pair == <<channels[s].rtp, channels[s].rtcp>>
           t == [Default EXCEPT !.type = "Interleaved", !.param["mode"] = "PLAY",
                   !.param["interleaved"] = pair]
<1>1. /\ s \in TM!Held /\ passed' = Nothing /\ parsed' = Default /\ UNCHANGED manager
      /\ origin' = [kind |-> "announced", from |-> t] /\ rest' = String(t)
  BY DEF Announce
<1>2. Fit(pair)
  BY <1>1 DEF MediaInv, ManagerOK, ManagerType, Even, Fit, Pairs, TM!RTPChannel, TM!RTCPChannel
<1>3. pair \in Pairs
  BY <1>2 DEF Fit
<1> HIDE DEF pair
<1>4. t \in Printable /\ t.param["interleaved"] = pair
  BY <1>3 DEF Default, Printable, AnyValue, Types, Params
<1> HIDE DEF t
<1>5. HeaderOK'
  BY <1>1, <1>2, <1>4, HeaderTypes, PendingStart, StringTyped DEF HeaderOK
<1>6. ManagerOK'
  BY <1>1 DEF MediaInv, ManagerOK, ManagerType, Alone, Ordered, Recent, Done, Even,
     manager, TM!Held, TM!Active
<1> QED
  BY <1>1, <1>5, <1>6, RenewedHeader DEF MediaInv, PassedOK

(* The peer has the channels that were announced.                           *)
LEMMA ChannelsTaken ==
  ASSUME MediaInv, origin.kind = "announced", rest = <<>>
  PROVE  Fit(GetTCPChannel(parsed))
<1> DEFINE t == origin.from
<1>1. /\ Pending(t, <<>>, parsed) /\ Fit(t.param["interleaved"])
  BY DEF MediaInv, HeaderOK
<1>2. Safe(t, "interleaved")
  BY <1>1, MediaAssumption DEF Safe, Caught, PartOf, Fit, Pairs
<1>3. parsed.param["interleaved"] = t.param["interleaved"]
  BY <1>1, <1>2, AllParsed DEF Params
<1> QED
  BY <1>1, <1>3 DEF GetTCPChannel, Fit, Pairs

(* Something goes through the codecs.                                       *)
LEMMA PassStep ==
  ASSUME MediaInv, NEW kind \in {"rtp", "rtcp"}, NEW sent, NEW channel,
         NEW size \in 0..(Lengths - 1), NEW got, Pass(kind, sent, channel, size, got),
         kind = "rtp" => sent \in Packets /\ got = RTP!ParseRTPPacket(RTP!Marshal(sent)),
         kind = "rtcp" => got = sent
  PROVE  MediaInv'
<1>1. /\ passed' = [kind |-> kind, sent |-> sent, size |-> size, got |-> got,
                    outcome |-> TM!Parse(TM!Frame(channel, size))]
      /\ UNCHANGED <<vars, manager>>
  BY DEF Pass
<1>2. passed'.outcome = IF size + 4 < Lengths THEN TM!Outcome("data", size)
                                              ELSE TM!Outcome("panic", 0)
  BY <1>1, FrameOutcome
<1>3. PassedOK'
  <2>1. /\ passed'.kind = kind /\ passed'.sent = sent /\ passed'.size = size /\ passed'.got = got
    BY <1>1
  <2>2. FramesRoundTrip'
    BY <1>2, <2>1 DEF FramesRoundTrip
  <2> QED
    BY <2>1, <2>2 DEF PassedOK
<1>4. HeaderInv' /\ HeaderOK' /\ ManagerOK'
  BY <1>1 DEF MediaInv, HeaderInv, HeaderOK, ManagerOK, ManagerType, Alone, Ordered, Recent,
     Done, Even, vars, manager, TM!Held, TM!Active
<1> QED
  BY <1>3, <1>4 DEF MediaInv

(* A packet, in a frame on the RTP channel.                                 *)
LEMMA PassRTPStep ==
  ASSUME MediaInv, NEW p \in Packets, PassRTP(p)
  PROVE  MediaInv'
<1> DEFINE channel == GetTCPChannel(parsed)[1]  data == RTP!Marshal(p)  size == RTP!Size(data)
           got == IF TM!RTPChannel(channel) THEN RTP!ParseRTPPacket(data) ELSE Refused
<1>1. Pass("rtp", p, channel, size, got)
  BY DEF PassRTP
<1>2. TM!RTPChannel(channel)
  BY <1>1, ChannelsTaken DEF Pass, Fit
<1>3. size \in 0..(Lengths - 1)
  <2>1. p \in RTP!RTPPackets /\ size < Lengths
    BY MediaAssumption
  <2>2. Len(data.words) \in Nat
    BY <2>1, MarshalledWords, LenProperties
  <2> QED
    BY <2>1, <2>2, WidthAssumption DEF RTP!Size
<1>4. got = RTP!ParseRTPPacket(RTP!Marshal(p))
  BY <1>2
<1> HIDE DEF channel, data, size, got
<1> QED
  BY <1>1, <1>3, <1>4, PassStep

(* A report, in a frame on the RTCP channel.                                *)
LEMMA PassRTCPStep ==
  ASSUME MediaInv, NEW size \in Sizes, PassRTCP(size)
  PROVE  MediaInv'
<1> DEFINE channel == GetTCPChannel(parsed)[2]
           got == IF TM!RTCPChannel(channel) THEN size ELSE Refused
<1>1. Pass("rtcp", size, channel, size, got)
  BY DEF PassRTCP
<1>2. TM!RTCPChannel(channel)
  BY <1>1, ChannelsTaken DEF Pass, Fit
<1>3. size \in 0..(Lengths - 1) /\ got = size
  BY <1>2, MediaAssumption
<1> HIDE DEF channel, got
<1> QED
  BY <1>1, <1>3, PassStep

(* Every step keeps the invariant.                                          *)
LEMMA MediaInvStep == MediaInv /\ [MediaNext]_allVars => MediaInv'
<1> SUFFICES ASSUME MediaInv, [MediaNext]_allVars PROVE MediaInv'
  OBVIOUS
<1>1. CASE UNCHANGED allVars
  BY <1>1 DEF MediaInv, HeaderInv, HeaderOK, ManagerOK, ManagerType, Alone, Ordered, Recent,
     Done, Even, PassedOK, FramesRoundTrip, allVars, vars, manager, TM!Held, TM!Active
<1> QED
  BY <1>1, ParseStep, ManageStep, AnnounceStep, PassRTPStep, PassRTCPStep DEF MediaNext

-----------------------------------------------------------------------------
(* Whatever struct is printed whose parts no flag's test catches, of type   *)
(* RTP and unicast or multicast, is parsed into itself.                     *)
THEOREM HeadersRoundTrip == MediaSpec => []RoundTrip
<1>1. MediaInv => RoundTrip
  BY HeaderRoundTrip DEF MediaInv
<1> QED
  BY <1>1, MediaInvInit, MediaInvStep, PTL DEF MediaSpec

(* Once no calls race any more, allocations that lie fewer than half a byte *)
(* apart get four different channels, for any even number of values of a    *)
(* byte, any number of goroutines and any interleaving of their reads and   *)
(* writes of NextChannel, races before that included.                       *)
THEOREM ChannelsDistinct == MediaSpec => []NearbyDistinct
<1>1. MediaInv => NearbyDistinct
  BY ManagerDistinct DEF MediaInv
<1> QED
  BY <1>1, MediaInvInit, MediaInvStep, PTL DEF MediaSpec

(* What fits its fields comes out of a frame on an announced channel as it  *)
(* was: the channels are even and odd, in whatever way their calls raced.   *)
THEOREM PacketsAlwaysAccepted == MediaSpec => []PacketsAccepted
<1>1. MediaInv => PacketsAccepted
  <2> SUFFICES ASSUME MediaInv, passed # Nothing,
                      passed.kind = "rtp" => RTP!WellFormed(passed.sent)
               PROVE  passed.got = passed.sent
    BY DEF PacketsAccepted
  <2>1. CASE passed.kind = "rtp"
    <3>1. /\ passed.sent \in RTP!RTPPackets
          /\ passed.got = RTP!ParseRTPPacket(RTP!Marshal(passed.sent))
      BY <2>1, MediaAssumption DEF MediaInv, PassedOK
    <3> QED
      BY <2>1, <3>1, CodecExact
  <2>2. CASE passed.kind # "rtp"
    BY <2>2 DEF MediaInv, PassedOK
  <2> QED
    BY <2>1, <2>2
<1> QED
  BY <1>1, MediaInvInit, MediaInvStep, PTL DEF MediaSpec

(* A packet that is received at all has the bytes of the one that was sent, *)
(* whatever its fields were.                                                *)
THEOREM PacketsReceivedAsSent == MediaSpec => []ReceivedAsSent
<1>1. MediaInv => ReceivedAsSent
  <2> SUFFICES ASSUME MediaInv, passed.kind = "rtp", passed.got # RTP!TooShort
               PROVE  RTP!Marshal(passed.got) = RTP!Marshal(passed.sent)
    BY DEF ReceivedAsSent
  <2>0. passed # Nothing
    BY DEF Nothing
  <2>1. /\ passed.sent \in RTP!RTPPackets
        /\ passed.got = RTP!ParseRTPPacket(RTP!Marshal(passed.sent))
    BY <2>0, MediaAssumption DEF MediaInv, PassedOK
  <2> QED
    BY <2>1, CodecStable
<1> QED
  BY <1>1, MediaInvInit, MediaInvStep, PTL DEF MediaSpec

(* A frame carries its data or panics in its last four sizes, for any width *)
(* of its length.                                                           *)
THEOREM FramesAlwaysRoundTrip == MediaSpec => []FramesRoundTrip
<1>1. MediaInv => FramesRoundTrip
  BY DEF MediaInv, PassedOK, FramesRoundTrip
<1> QED
  BY <1>1, MediaInvInit, MediaInvStep, PTL DEF MediaSpec
=============================================================================
