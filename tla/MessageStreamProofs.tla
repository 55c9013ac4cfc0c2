------------------------- MODULE MessageStreamProofs -------------------------
(***************************************************************************)
(* Answers stay in step with calls, for any number of calls and proxies    *)
(* and however TCP cuts the bytes.  The client's link always holds a       *)
(* stream: messages one after the other, the first perhaps without its     *)
(* beginning.  Only three kinds of line end in one that reads as empty:    *)
(* a header, and what is left of a line that a Read tore at its front.  So *)
(* each return reads one header, or one torn line, and the headers that    *)
(* are left are those of the calls from Awaited on.                        *)
(***************************************************************************)
EXTENDS MessageStream, WellFoundedInduction, TLAPS

(* What is on a link is made of units of messages.                          *)
UnitKinds == {"status", "length", "blank", "text", "cr", "lf"}
Units == [kind : UnitKinds, call : Nat]

(* The body that reaches the client, and the one on link i.                 *)
Short == <<"text", "text">>
BodyOn(i) == IF i = hops + 1 THEN SDP ELSE Short

(* What comes after a unit, if anything does.                               *)
After(u, v) ==
  /\ u.kind = "status" => v.kind \in {"length", "blank"} /\ v.call = u.call
  /\ u.kind = "length" => v.kind = "blank" /\ v.call = u.call
  /\ u.kind = "blank" => v.kind \in {"text", "status"}
  /\ u.kind = "text" => v.kind \in {"text", "cr", "status"}
  /\ u.kind = "cr" => v.kind = "lf"
  /\ u.kind = "lf" => v.kind \in {"text", "status"}

(* s is what is left of messages with this body once some have been taken   *)
(* from the front.                                                          *)
Stream(s, body) ==
  /\ s \in Seq(Units)
  /\ s # <<>> => /\ s[1].kind \notin {"length", "blank"}
                 /\ s[Len(s)].kind \notin {"status", "length", "cr"}
  /\ \A i \in 1..Len(s) : i + 1 <= Len(s) => After(s[i], s[i + 1])
  /\ \A i \in 1..Len(s) : s[i].kind = "length" =>
       /\ i + 1 + Len(body) <= Len(s)
       /\ \A k \in 1..Len(body) : s[i + 1 + k].kind = body[k]
       /\ i + 2 + Len(body) <= Len(s) => s[i + 2 + Len(body)].kind = "status"
  /\ \A i \in 1..Len(s) : (i + 2 <= Len(s) /\ s[i].kind = "status" /\ s[i + 1].kind = "blank")
       => s[i + 2].kind = "status"

(* The messages of which the end of the header is in s are those of the     *)
(* calls first..last, in this order.                                        *)
Blanks(s) == {i \in 1..Len(s) : s[i].kind = "blank"}
Covers(s, first, last) ==
  /\ first <= last + 1
  /\ \A i \in Blanks(s) : s[i].call \in first..last
  /\ \A m \in first..last : \E i \in Blanks(s) : s[i].call = m
  /\ \A i, j \in Blanks(s) : i < j => s[i].call < s[j].call

(* A line that was torn is at the front: its end, which reads as empty.     *)
Torn == link[1] # <<>> /\ link[1][1].kind \in {"cr", "lf"}

(* Answers between the server and the client's connection.                  *)
OnTheWay == {i \in 2..(hops + 1) : link[i] # <<>>}
Delivered == IF OnTheWay = {} THEN answered ELSE answered - 1

(* The first call whose answer is yet to be read to the end of its header:  *)
(* each return has read one header or one torn line.                        *)
Returned == Len(asked) - (IF calling THEN 1 ELSE 0)
Awaited == Returned + (IF Torn THEN 1 ELSE 0) - tears + 1

StreamTypes ==
  /\ hops \in Nat /\ answered \in Nat /\ tears \in Nat
  /\ calling \in BOOLEAN /\ leftover \in BOOLEAN
  /\ asked \in Seq(Kinds)
  /\ DOMAIN link = 1..(hops + 1) /\ DOMAIN arrived = 1..(hops + 1)
  /\ \A i \in 1..(hops + 1) : arrived[i] \in 0..Len(link[i])
  /\ calling => asked # <<>>

Upstream ==
  /\ answered <= Len(asked)
  /\ \A i \in OnTheWay :
       answered > 0 /\ link[i] \in {Message(answered, <<>>), Message(answered, BodyOn(i))}
  /\ \A i, j \in OnTheWay : i = j

ClientSide ==
  /\ Stream(link[1], BodyOn(1))
  /\ hops > 0 => tears = 0 /\ \A i \in 1..Len(link[1]) : link[1][i].kind \notin {"cr", "lf"}
  /\ Covers(link[1], Awaited, Delivered)
  /\ Torn => tears > 0
  /\ (tears = 0 /\ link[1] # <<>> /\ link[1][1].kind = "text") => leftover

StreamInv == StreamTypes /\ Upstream /\ ClientSide /\ AnswersInStep

-----------------------------------------------------------------------------
(* Where the elements of two sequences in a row are.                        *)
LEMMA Concatenation ==
  ASSUME NEW S, NEW s \in Seq(S), NEW t \in Seq(S)
  PROVE  /\ s \o t \in Seq(S) /\ Len(s \o t) = Len(s) + Len(t)
         /\ \A i \in 1..Len(s) : (s \o t)[i] = s[i]
         /\ \A k \in 1..Len(t) : (s \o t)[Len(s) + k] = t[k]
         /\ \A i \in 1..Len(s) + Len(t) : i \in 1..Len(s) \/ i - Len(s) \in 1..Len(t)
<1>1. s \o t \in Seq(S) /\ Len(s \o t) = Len(s) + Len(t)
  OBVIOUS
<1>2. \A i \in 1..Len(s) : (s \o t)[i] = s[i]
  OBVIOUS
<1>3. ASSUME NEW k \in 1..Len(t) PROVE (s \o t)[Len(s) + k] = t[k]
  <2>1. /\ Len(s) + k \in 1..Len(s) + Len(t) /\ ~(Len(s) + k <= Len(s))
        /\ Len(s) + k - Len(s) = k
    OBVIOUS
  <2> QED
    BY <2>1
<1> QED
  BY <1>1, <1>2, <1>3

(* Where the elements of what is left of a sequence were.                   *)
LEMMA Remainder ==
  ASSUME NEW S, NEW s \in Seq(S), NEW p \in 0..Len(s)
  PROVE  /\ SubSeq(s, p + 1, Len(s)) \in Seq(S) /\ Len(SubSeq(s, p + 1, Len(s))) = Len(s) - p
         /\ \A i \in 1..Len(s) - p : SubSeq(s, p + 1, Len(s))[i] = s[p + i]
<1>1. Len(s) \in Nat /\ p \in Nat
  OBVIOUS
<1>2. SubSeq(s, p + 1, Len(s)) \in Seq(S)
  OBVIOUS
<1>3. Len(SubSeq(s, p + 1, Len(s))) = Len(s) - p
  OBVIOUS
<1>4. ASSUME NEW i \in 1..Len(s) - p PROVE SubSeq(s, p + 1, Len(s))[i] = s[p + i]
  <2>1. /\ i \in 1..Len(s) - (p + 1) + 1 /\ p + 1 + i - 1 = p + i
    BY <1>1
  <2> QED
    BY <1>1, <2>1
<1> QED
  BY <1>2, <1>3, <1>4

(* Messages.  The bodies a message can have, unit by unit.                  *)
LEMMA Bodies ==
  /\ Len(SDP) = 7 /\ SDP[1] = "text" /\ SDP[2] = "text" /\ SDP[3] = "cr" /\ SDP[4] = "lf"
  /\ SDP[5] = "text" /\ SDP[6] = "cr" /\ SDP[7] = "lf"
  /\ Len(Short) = 2 /\ Short[1] = "text" /\ Short[2] = "text"
  /\ SDP # <<>> /\ Short # <<>> /\ SDP # Short
  /\ SDP \in Seq(UnitKinds) /\ Short \in Seq(UnitKinds) /\ ContentLength = 7
BY DEF SDP, Short, UnitKinds, ContentLength

(* A message is its status, the end of its header, and in between the       *)
(* length if there is a body, which follows.                                *)
LEMMA MessageUnits ==
  ASSUME NEW call \in Nat, NEW body \in {<<>>, SDP, Short}
  PROVE  /\ Message(call, body) \in Seq(Units)
         /\ \A i \in 1..Len(Message(call, body)) : Message(call, body)[i].call = call
         /\ Message(call, body)[1].kind = "status"
         /\ body = <<>> => /\ Len(Message(call, body)) = 2
                           /\ Message(call, body)[2].kind = "blank"
         /\ body # <<>> => /\ Len(Message(call, body)) = 3 + Len(body)
                           /\ Message(call, body)[2].kind = "length"
                           /\ Message(call, body)[3].kind = "blank"
                           /\ \A k \in 1..Len(body) : Message(call, body)[3 + k].kind = body[k]
<1> DEFINE units == IF body = <<>> THEN <<"status", "blank">>
                                   ELSE <<"status", "length", "blank">> \o body
           m == Message(call, body)
<1>1. m = [i \in DOMAIN units |-> Unit(units[i], call)]
  BY DEF Message
<1>2. body \in Seq(UnitKinds) /\ Len(body) \in Nat
  <2>1. <<>> \in Seq(UnitKinds)
    OBVIOUS
  <2>2. body \in Seq(UnitKinds)
    BY <2>1, Bodies
  <2> QED
    BY <2>2
<1>3. /\ units \in Seq(UnitKinds) /\ units[1] = "status"
      /\ body = <<>> => Len(units) = 2 /\ units[2] = "blank"
      /\ body # <<>> => /\ Len(units) = 3 + Len(body) /\ units[2] = "length" /\ units[3] = "blank"
                        /\ \A k \in 1..Len(body) : units[3 + k] = body[k]
  <2>1. CASE body = <<>>
    <3>1. units = <<"status", "blank">>
      BY <2>1
    <3> HIDE DEF units
    <3> QED
      BY <2>1, <3>1 DEF UnitKinds
  <2>2. CASE body # <<>>
    <3> DEFINE h == <<"status", "length", "blank">>
    <3>1. units = h \o body
      BY <2>2
    <3>2. /\ h \in Seq(UnitKinds) /\ Len(h) = 3
          /\ h[1] = "status" /\ h[2] = "length" /\ h[3] = "blank"
      BY DEF UnitKinds
    <3> HIDE DEF units, h
    <3>3. /\ units \in Seq(UnitKinds) /\ Len(units) = 3 + Len(body)
          /\ \A i \in 1..3 : units[i] = h[i]
          /\ \A k \in 1..Len(body) : units[3 + k] = body[k]
      BY <1>2, <3>1, <3>2, Concatenation
    <3> QED
      BY <2>2, <3>2, <3>3
  <2> QED
    BY <2>1, <2>2
<1> HIDE DEF units
<1>4. \A i \in 1..Len(units) : Unit(units[i], call) \in Units
  BY <1>3 DEF Unit, Units
<1>5. /\ m \in Seq(Units) /\ Len(m) = Len(units)
      /\ \A i \in 1..Len(units) : m[i].kind = units[i] /\ m[i].call = call
  BY <1>1, <1>3, <1>4 DEF Unit
<1> HIDE DEF m
<1>6. Len(units) >= 2
  BY <1>2, <1>3
<1>7. body # <<>> => \A k \in 1..Len(body) : 3 + k \in 1..Len(units)
  BY <1>2, <1>3
<1> QED
  BY <1>2, <1>3, <1>5, <1>6, <1>7 DEF m

(* A message of its own is a stream.                                        *)
LEMMA MessageStream0 ==
  ASSUME NEW call \in Nat, NEW body \in {SDP, Short}, NEW b \in {<<>>, body}
  PROVE  Stream(Message(call, b), body)
<1> DEFINE m == Message(call, b)
<1>0. b \in {<<>>, SDP, Short}
  OBVIOUS
<1>1. /\ m \in Seq(Units) /\ \A i \in 1..Len(m) : m[i].call = call
      /\ m[1].kind = "status"
      /\ b = <<>> => Len(m) = 2 /\ m[2].kind = "blank"
      /\ b # <<>> => /\ Len(m) = 3 + Len(b) /\ m[2].kind = "length" /\ m[3].kind = "blank"
                     /\ \A k \in 1..Len(b) : m[3 + k].kind = b[k]
  BY <1>0, MessageUnits
<1> HIDE DEF m
<1>2. CASE b = <<>>
  <2>1. /\ Len(m) = 2 /\ m[1].kind = "status" /\ m[2].kind = "blank" /\ m[1].call = m[2].call
        /\ m # <<>>
    BY <1>1, <1>2
  <2>2. \A i \in 1..Len(m) : i = 1 \/ i = 2
    BY <2>1
  <2> QED
    BY <1>1, <2>1, <2>2, Bodies DEF Stream, After, m
<1>3. CASE b = SDP /\ body = SDP
  <2>1. /\ Len(m) = 10 /\ m[1].kind = "status" /\ m[2].kind = "length" /\ m[3].kind = "blank"
        /\ m[4].kind = "text" /\ m[5].kind = "text" /\ m[6].kind = "cr" /\ m[7].kind = "lf"
        /\ m[8].kind = "text" /\ m[9].kind = "cr" /\ m[10].kind = "lf" /\ m # <<>>
    BY <1>1, <1>3, Bodies
  <2>2. \A i \in 1..Len(m) : i \in {1, 2, 3, 4, 5, 6, 7, 8, 9, 10}
    BY <2>1
  <2>3. \A i \in 1..Len(m) : i + 1 <= Len(m) => After(m[i], m[i + 1])
    BY <1>1, <2>1, <2>2 DEF After
  <2>4. \A i \in 1..Len(m) : m[i].kind = "length" => i = 2
    BY <2>1, <2>2
  <2>5. \A i \in 1..Len(m) : m[i].kind = "status" => i = 1
    BY <2>1, <2>2
  <2> QED
    BY <1>1, <1>3, <2>1, <2>3, <2>4, <2>5, Bodies DEF Stream, m
<1>4. CASE b = Short /\ body = Short
  <2>1. /\ Len(m) = 5 /\ m[1].kind = "status" /\ m[2].kind = "length" /\ m[3].kind = "blank"
        /\ m[4].kind = "text" /\ m[5].kind = "text" /\ m # <<>>
    BY <1>1, <1>4, Bodies
  <2>2. \A i \in 1..Len(m) : i \in {1, 2, 3, 4, 5}
    BY <2>1
  <2>3. \A i \in 1..Len(m) : i + 1 <= Len(m) => After(m[i], m[i + 1])
    BY <1>1, <2>1, <2>2 DEF After
  <2>4. \A i \in 1..Len(m) : m[i].kind = "length" => i = 2
    BY <2>1, <2>2
  <2>5. \A i \in 1..Len(m) : m[i].kind = "status" => i = 1
    BY <2>1, <2>2
  <2> QED
    BY <1>1, <1>4, <2>1, <2>3, <2>4, <2>5, Bodies DEF Stream, m
<1> QED
  BY <1>2, <1>3, <1>4

(* A stream stays one when another that begins with a status is appended.   *)
LEMMA StreamAppend ==
  ASSUME NEW body \in {SDP, Short}, NEW s, Stream(s, body), NEW m, Stream(m, body),
         m # <<>>, m[1].kind = "status"
  PROVE  Stream(s \o m, body)
<1> DEFINE w == s \o m
           n == Len(s)
<1>1. s \in Seq(Units) /\ m \in Seq(Units) /\ n \in Nat /\ Len(m) \in Nat /\ Len(m) > 0
  BY DEF Stream
<1>2. /\ w \in Seq(Units) /\ Len(w) = n + Len(m)
      /\ \A i \in 1..n : w[i] = s[i]
      /\ \A k \in 1..Len(m) : w[n + k] = m[k]
      /\ \A i \in 1..Len(w) : i \in 1..n \/ i - n \in 1..Len(m)
  BY <1>1, Concatenation
<1>b. Len(body) \in Nat
  BY Bodies
<1> HIDE DEF w, n
<1>3. w # <<>> /\ w[1].kind \notin {"length", "blank"}
  <2>1. CASE n = 0
    BY <1>1, <1>2, <2>1
  <2>2. CASE n # 0
    <3>1. s # <<>> /\ 1 \in 1..n
      BY <1>1, <2>2 DEF n
    <3> QED
      BY <1>1, <1>2, <3>1 DEF Stream
  <2> QED
    BY <2>1, <2>2
<1>4. w[Len(w)].kind \notin {"status", "length", "cr"}
  <2>1. w[Len(w)] = m[Len(m)]
    BY <1>1, <1>2
  <2> QED
    BY <2>1 DEF Stream
<1>5. ASSUME NEW i \in 1..Len(w), i + 1 <= Len(w) PROVE After(w[i], w[i + 1])
  <2>1. CASE i + 1 <= n
    <3>1. i \in 1..n /\ i + 1 \in 1..n /\ n = Len(s)
      BY <1>1, <2>1 DEF n
    <3> QED
      BY <1>2, <3>1 DEF Stream
  <2>2. CASE i = n
    <3>1. /\ w[i] = s[n] /\ w[i + 1] = m[1] /\ s # <<>> /\ n = Len(s)
      BY <1>1, <1>2, <2>2 DEF n
    <3>2. s[n].kind \notin {"status", "length", "cr"} /\ s[n] \in Units
      BY <1>1, <2>2, <3>1 DEF Stream
    <3> QED
      BY <3>1, <3>2 DEF After, Units, UnitKinds
  <2>3. CASE i > n
    <3>1. /\ i - n \in 1..Len(m) /\ i - n + 1 \in 1..Len(m)
          /\ w[i] = m[i - n] /\ w[i + 1] = m[i - n + 1]
      <4>1. i - n \in 1..Len(m) /\ i - n + 1 \in 1..Len(m)
        BY <1>1, <1>2, <1>5, <2>3
      <4>2. n + (i - n) = i /\ n + (i - n + 1) = i + 1
        BY <1>1
      <4> QED
        BY <1>2, <4>1, <4>2
    <3> QED
      BY <3>1 DEF Stream
  <2> QED
    BY <1>1, <2>1, <2>2, <2>3
<1>6. ASSUME NEW i \in 1..Len(w), w[i].kind = "length"
      PROVE  /\ i + 1 + Len(body) <= Len(w)
             /\ \A k \in 1..Len(body) : w[i + 1 + k].kind = body[k]
             /\ i + 2 + Len(body) <= Len(w) => w[i + 2 + Len(body)].kind = "status"
  <2>1. CASE i <= n
    <3>1. /\ i \in 1..Len(s) /\ s[i].kind = "length" /\ n = Len(s)
      BY <1>1, <1>2, <1>6, <2>1 DEF n
    <3>2. /\ i + 1 + Len(body) <= n
          /\ \A k \in 1..Len(body) : s[i + 1 + k].kind = body[k]
          /\ i + 2 + Len(body) <= n => s[i + 2 + Len(body)].kind = "status"
      BY <3>1 DEF Stream
    <3>3. \A k \in 1..Len(body) : i + 1 + k \in 1..n
      BY <1>1, <1>b, <3>1, <3>2
    <3>4. /\ i + 2 + Len(body) <= n \/ i + 2 + Len(body) = n + 1
          /\ i + 2 + Len(body) <= n => i + 2 + Len(body) \in 1..n
          /\ i + 1 + Len(body) <= n + Len(m)
      <4>1. i \in Nat /\ i > 0 /\ i + 1 + Len(body) <= n
        BY <1>1, <3>1, <3>2
      <4> QED
        BY <1>1, <1>b, <4>1
    <3>5. w[n + 1] = m[1]
      BY <1>1, <1>2
    <3>6. \A k \in 1..Len(body) : w[i + 1 + k].kind = body[k]
      BY <1>2, <3>2, <3>3
    <3>7. w[i + 2 + Len(body)].kind = "status"
      <4>1. CASE i + 2 + Len(body) <= n
        BY <1>2, <3>2, <3>4, <4>1
      <4>2. CASE i + 2 + Len(body) = n + 1
        BY <3>5, <4>2
      <4> QED
        BY <3>4, <4>1, <4>2
    <3> QED
      BY <1>2, <3>4, <3>6, <3>7
  <2>2. CASE i > n
    <3> DEFINE j == i - n
    <3>1. j \in 1..Len(m) /\ i = n + j /\ m[j].kind = "length"
      BY <1>1, <1>2, <1>6, <2>2
    <3> HIDE DEF j
    <3>2. /\ j + 1 + Len(body) <= Len(m)
          /\ \A k \in 1..Len(body) : m[j + 1 + k].kind = body[k]
          /\ j + 2 + Len(body) <= Len(m) => m[j + 2 + Len(body)].kind = "status"
      BY <3>1 DEF Stream
    <3>3. ASSUME NEW k \in 1..Len(body) PROVE w[i + 1 + k].kind = body[k]
      <4>1. j + 1 + k \in 1..Len(m) /\ i + 1 + k = n + (j + 1 + k)
        BY <1>1, <1>b, <3>1, <3>2
      <4> QED
        BY <1>2, <3>2, <4>1
    <3>4. ASSUME i + 2 + Len(body) <= Len(w) PROVE w[i + 2 + Len(body)].kind = "status"
      <4>1. /\ j + 2 + Len(body) \in 1..Len(m)
            /\ i + 2 + Len(body) = n + (j + 2 + Len(body))
        BY <1>1, <1>2, <1>b, <3>1, <3>4
      <4> QED
        BY <1>2, <3>2, <4>1
    <3> QED
      BY <1>1, <1>2, <1>b, <3>1, <3>2, <3>3, <3>4
  <2> QED
    BY <1>1, <2>1, <2>2
<1>7. ASSUME NEW i \in 1..Len(w), i + 2 <= Len(w), w[i].kind = "status", w[i + 1].kind = "blank"
      PROVE  w[i + 2].kind = "status"
  <2>1. CASE i + 2 <= n
    <3>1. i \in 1..n /\ i + 1 \in 1..n /\ i + 2 \in 1..n /\ n = Len(s)
      BY <1>1, <2>1 DEF n
    <3> QED
      BY <1>2, <1>7, <3>1 DEF Stream
  <2>2. CASE i + 2 = n + 1
    <3>1. 1 \in 1..Len(m)
      BY <1>1
    <3>2. w[n + 1] = m[1]
      BY <1>2, <3>1
    <3> QED
      BY <2>2, <3>2
  <2>3. CASE i = n
    <3>1. w[i + 1] = m[1]
      BY <1>1, <1>2, <2>3
    <3> QED
      BY <1>7, <3>1
  <2>4. CASE i > n
    <3> DEFINE j == i - n
    <3>1. j \in 1..Len(m) /\ j + 1 \in 1..Len(m) /\ j + 2 \in 1..Len(m) /\ i = n + j
      BY <1>1, <1>2, <1>7, <2>4
    <3>2. i + 1 = n + (j + 1) /\ i + 2 = n + (j + 2)
      BY <1>1, <3>1
    <3> HIDE DEF j
    <3>3. w[i] = m[j] /\ w[i + 1] = m[j + 1] /\ w[i + 2] = m[j + 2] /\ j + 2 <= Len(m)
      BY <1>2, <3>1, <3>2
    <3> QED
      BY <1>7, <3>1, <3>3 DEF Stream
  <2> QED
    BY <1>1, <2>1, <2>2, <2>3, <2>4
<1> QED
  BY <1>2, <1>3, <1>4, <1>5, <1>6, <1>7 DEF Stream, w

(* What is left of a stream is one, unless it begins inside a header.       *)
LEMMA StreamRest ==
  ASSUME NEW body \in {SDP, Short}, NEW s, Stream(s, body), NEW p \in 0..Len(s),
         p < Len(s) => s[p + 1].kind \notin {"length", "blank"}
  PROVE  Stream(SubSeq(s, p + 1, Len(s)), body)
<1> DEFINE t == SubSeq(s, p + 1, Len(s))
<1>1. s \in Seq(Units) /\ Len(s) \in Nat /\ p \in Nat /\ p <= Len(s)
  BY DEF Stream
<1>2. /\ t \in Seq(Units) /\ Len(t) = Len(s) - p
      /\ \A i \in 1..Len(t) : t[i] = s[p + i]
  BY <1>1, Remainder
<1>b. Len(body) \in Nat
  BY Bodies
<1> HIDE DEF t
<1>3. \A i \in 1..Len(t) : p + i \in 1..Len(s)
  BY <1>1, <1>2
<1>4. t # <<>> => /\ t[1].kind \notin {"length", "blank"}
                  /\ t[Len(t)].kind \notin {"status", "length", "cr"}
  <2> SUFFICES ASSUME t # <<>>
               PROVE  /\ t[1].kind \notin {"length", "blank"}
                      /\ t[Len(t)].kind \notin {"status", "length", "cr"}
    OBVIOUS
  <2>1. Len(t) > 0 /\ p < Len(s) /\ s # <<>>
    BY <1>1, <1>2
  <2>2. t[1] = s[p + 1] /\ t[Len(t)] = s[Len(s)]
    <3>1. 1 \in 1..Len(t) /\ Len(t) \in 1..Len(t) /\ p + Len(t) = Len(s)
      BY <1>1, <1>2, <2>1
    <3> QED
      BY <1>2, <3>1
  <2> QED
    BY <2>1, <2>2 DEF Stream
<1>5. ASSUME NEW i \in 1..Len(t), i + 1 <= Len(t) PROVE After(t[i], t[i + 1])
  <2>1. /\ t[i] = s[p + i] /\ t[i + 1] = s[p + i + 1] /\ p + i \in 1..Len(s) /\ p + i + 1 <= Len(s)
    <3>1. i + 1 \in 1..Len(t) /\ p + (i + 1) = p + i + 1
      BY <1>1, <1>2, <1>5
    <3> QED
      BY <1>1, <1>2, <1>3, <1>5, <3>1
  <2> QED
    BY <2>1 DEF Stream
<1>6. ASSUME NEW i \in 1..Len(t), t[i].kind = "length"
      PROVE  /\ i + 1 + Len(body) <= Len(t)
             /\ \A k \in 1..Len(body) : t[i + 1 + k].kind = body[k]
             /\ i + 2 + Len(body) <= Len(t) => t[i + 2 + Len(body)].kind = "status"
  <2> DEFINE j == p + i
  <2>1. j \in 1..Len(s) /\ s[j].kind = "length" /\ j = p + i
    BY <1>2, <1>3, <1>6
  <2> HIDE DEF j
  <2>2. /\ j + 1 + Len(body) <= Len(s)
        /\ \A k \in 1..Len(body) : s[j + 1 + k].kind = body[k]
        /\ j + 2 + Len(body) <= Len(s) => s[j + 2 + Len(body)].kind = "status"
    BY <2>1 DEF Stream
  <2>3. ASSUME NEW k \in 1..Len(body) PROVE t[i + 1 + k].kind = body[k]
    <3>1. i + 1 + k \in 1..Len(t) /\ p + (i + 1 + k) = j + 1 + k
      BY <1>1, <1>2, <1>b, <2>1, <2>2
    <3> QED
      BY <1>2, <2>2, <3>1
  <2>4. ASSUME i + 2 + Len(body) <= Len(t) PROVE t[i + 2 + Len(body)].kind = "status"
    <3>1. /\ i + 2 + Len(body) \in 1..Len(t) /\ p + (i + 2 + Len(body)) = j + 2 + Len(body)
          /\ j + 2 + Len(body) <= Len(s)
      BY <1>1, <1>2, <1>b, <2>1, <2>4
    <3> QED
      BY <1>2, <2>2, <3>1
  <2> QED
    BY <1>1, <1>2, <1>b, <2>1, <2>2, <2>3, <2>4
<1>7. ASSUME NEW i \in 1..Len(t), i + 2 <= Len(t), t[i].kind = "status", t[i + 1].kind = "blank"
      PROVE  t[i + 2].kind = "status"
  <2> DEFINE j == p + i
  <2>1. /\ j \in 1..Len(s) /\ j + 2 <= Len(s)
        /\ t[i] = s[j] /\ t[i + 1] = s[j + 1] /\ t[i + 2] = s[j + 2]
    <3>1. /\ i + 1 \in 1..Len(t) /\ i + 2 \in 1..Len(t)
          /\ p + (i + 1) = j + 1 /\ p + (i + 2) = j + 2 /\ j + 2 <= Len(s)
      BY <1>1, <1>2, <1>7
    <3>2. t[i] = s[p + i] /\ t[i + 1] = s[p + (i + 1)] /\ t[i + 2] = s[p + (i + 2)]
      BY <1>2, <3>1
    <3>3. j \in 1..Len(s)
      BY <1>3
    <3> QED
      BY <3>1, <3>2, <3>3
  <2> HIDE DEF j
  <2> QED
    BY <1>7, <2>1 DEF Stream
<1> QED
  BY <1>2, <1>4, <1>5, <1>6, <1>7 DEF Stream, t

(* The answer to the next call is the last one on the way.                  *)
LEMMA CoversAppend ==
  ASSUME NEW s \in Seq(Units), NEW first \in Int, NEW last \in Nat, Covers(s, first, last),
         NEW body \in {<<>>, SDP, Short}
  PROVE  Covers(s \o Message(last + 1, body), first, last + 1)
<1> DEFINE m == Message(last + 1, body)
           w == s \o m
           n == Len(s)
<1>1. /\ m \in Seq(Units) /\ \A i \in 1..Len(m) : m[i].call = last + 1
      /\ Len(m) \in Nat /\ n \in Nat
      /\ \E i \in 1..Len(m) : m[i].kind = "blank"
  <2>0. last + 1 \in Nat
    OBVIOUS
  <2>1. /\ m \in Seq(Units) /\ \A i \in 1..Len(m) : m[i].call = last + 1
        /\ body = <<>> => Len(m) = 2 /\ m[2].kind = "blank"
        /\ body # <<>> => Len(m) = 3 + Len(body) /\ m[3].kind = "blank"
    BY <2>0, MessageUnits
  <2>2. Len(body) \in Nat
    BY Bodies
  <2> QED
    BY <2>1, <2>2
<1>k. \A i, j \in 1..Len(m) : m[i].kind = "blank" /\ m[j].kind = "blank" => i = j
  <2>0. last + 1 \in Nat
    OBVIOUS
  <2>1. /\ m[1].kind = "status"
        /\ body = <<>> => Len(m) = 2 /\ m[2].kind = "blank"
        /\ body # <<>> => /\ Len(m) = 3 + Len(body) /\ m[2].kind = "length" /\ m[3].kind = "blank"
                          /\ \A k \in 1..Len(body) : m[3 + k].kind = body[k]
    BY <2>0, MessageUnits
  <2>2. \A k \in 1..Len(body) : body[k] # "blank"
    <3>1. CASE body = SDP
      <4>1. \A k \in 1..7 : k \in {1, 2, 3, 4, 5, 6, 7}
        OBVIOUS
      <4> QED
        BY <3>1, <4>1, Bodies
    <3>2. CASE body = Short
      <4>1. \A k \in 1..2 : k \in {1, 2}
        OBVIOUS
      <4> QED
        BY <3>2, <4>1, Bodies
    <3>3. CASE body = <<>>
      BY <3>3
    <3> QED
      BY <3>1, <3>2, <3>3
  <2>3. Len(body) \in Nat
    BY Bodies
  <2>4. ASSUME NEW i \in 1..Len(m), body # <<>>, m[i].kind = "blank" PROVE i = 3
    <3>1. i > 3 => i - 3 \in 1..Len(body) /\ 3 + (i - 3) = i
      BY <2>1, <2>3, <2>4
    <3>2. ~(i > 3)
      BY <2>1, <2>2, <2>4, <3>1
    <3>3. i = 1 \/ i = 2 \/ i = 3
      BY <3>2
    <3> QED
      BY <2>1, <2>4, <3>3
  <2>5. ASSUME NEW i \in 1..Len(m), body = <<>>, m[i].kind = "blank" PROVE i = 2
    <3>1. i = 1 \/ i = 2
      BY <2>1, <2>5
    <3> QED
      BY <2>1, <2>5, <3>1
  <2> QED
    BY <2>4, <2>5
<1> HIDE DEF m
<1>2. /\ Len(w) = n + Len(m)
      /\ \A i \in 1..n : w[i] = s[i]
      /\ \A k \in 1..Len(m) : w[n + k] = m[k]
      /\ \A i \in 1..Len(w) : i \in 1..n \/ i - n \in 1..Len(m)
  BY <1>1, Concatenation
<1> HIDE DEF w
<1>3. ASSUME NEW i \in Blanks(w) PROVE \/ i \in Blanks(s) /\ w[i] = s[i] /\ i <= n
                                       \/ i > n /\ w[i].call = last + 1 /\ m[i - n].kind = "blank"
                                          /\ i - n \in 1..Len(m)
  <2>1. i \in 1..Len(w) /\ w[i].kind = "blank"
    BY DEF Blanks
  <2>2. CASE i \in 1..n
    BY <1>1, <1>2, <2>1, <2>2 DEF Blanks, n
  <2>3. CASE i - n \in 1..Len(m)
    <3>1. w[n + (i - n)] = m[i - n] /\ n + (i - n) = i
      BY <1>1, <1>2, <2>1, <2>3
    <3> QED
      BY <1>1, <2>1, <2>3, <3>1
  <2> QED
    BY <1>2, <2>1, <2>2, <2>3
<1>4. first <= last + 1 /\ \A i \in Blanks(s) : s[i].call \in first..last
  BY DEF Covers
<1>5. \A i \in Blanks(w) : w[i].call \in first..last + 1
  BY <1>3, <1>4
<1>6. ASSUME NEW k \in first..last + 1 PROVE \E i \in Blanks(w) : w[i].call = k
  <2>1. CASE k = last + 1
    <3>1. PICK i \in 1..Len(m) : m[i].kind = "blank"
      BY <1>1
    <3>2. n + i \in 1..Len(w) /\ w[n + i] = m[i] /\ m[i].call = last + 1
      BY <1>1, <1>2, <3>1
    <3>3. n + i \in Blanks(w)
      BY <3>1, <3>2 DEF Blanks
    <3> QED
      BY <2>1, <3>2, <3>3
  <2>2. CASE k # last + 1
    <3>1. k \in first..last
      BY <2>2
    <3>2. PICK i \in Blanks(s) : s[i].call = k
      BY <3>1 DEF Covers
    <3>3. i \in 1..n /\ s[i].kind = "blank"
      BY DEF Blanks, n
    <3>4. i \in Blanks(w) /\ w[i].call = k
      BY <1>1, <1>2, <3>2, <3>3 DEF Blanks
    <3> QED
      BY <3>4
  <2> QED
    BY <2>1, <2>2
<1>7. ASSUME NEW i \in Blanks(w), NEW j \in Blanks(w), i < j PROVE w[i].call < w[j].call
  <2>1. i \in Nat /\ j \in Nat
    BY <1>1, <1>2 DEF Blanks
  <2>2. CASE i <= n /\ j <= n
    <3>1. i \in Blanks(s) /\ j \in Blanks(s) /\ w[i] = s[i] /\ w[j] = s[j]
      BY <1>1, <1>3, <2>1, <2>2
    <3> QED
      BY <1>7, <3>1 DEF Covers
  <2>3. CASE i <= n /\ j > n
    <3>1. w[i].call \in first..last
      <4>1. i \in Blanks(s) /\ w[i] = s[i]
        BY <1>1, <1>3, <2>1, <2>3
      <4> QED
        BY <1>4, <4>1
    <3>2. w[j].call = last + 1
      <4>1. ~(j <= n)
        BY <1>1, <2>1, <2>3
      <4> QED
        BY <1>3, <4>1
    <3> QED
      BY <3>1, <3>2
  <2>4. CASE i > n
    <3>1. /\ i - n \in 1..Len(m) /\ m[i - n].kind = "blank"
          /\ j - n \in 1..Len(m) /\ m[j - n].kind = "blank"
      BY <1>1, <1>3, <1>7, <2>1, <2>4
    <3> QED
      BY <1>1, <1>7, <1>k, <2>1, <3>1
  <2> QED
    BY <1>1, <2>1, <2>2, <2>3, <2>4
<1>8. first <= last + 1 + 1
  BY <1>4
<1> QED
  BY <1>5, <1>6, <1>7, <1>8 DEF Covers, w, m

(* Reading up to the end of a header takes the first message that s covers. *)
LEMMA CoversRest ==
  ASSUME NEW s \in Seq(Units), NEW first \in Int, NEW last \in Nat, Covers(s, first, last),
         NEW p \in 0..Len(s)
  PROVE  /\ (\A i \in 1..p : s[i].kind # "blank") => Covers(SubSeq(s, p + 1, Len(s)), first, last)
         /\ \A q \in 1..p :
              (s[q].kind = "blank" /\ \A i \in 1..p : s[i].kind = "blank" => i = q)
                => /\ s[q].call = first
                   /\ Covers(SubSeq(s, p + 1, Len(s)), first + 1, last)
<1> DEFINE t == SubSeq(s, p + 1, Len(s))
<1>1. Len(s) \in Nat /\ p \in Nat /\ p <= Len(s)
  OBVIOUS
<1>2. /\ t \in Seq(Units) /\ Len(t) = Len(s) - p
      /\ \A i \in 1..Len(t) : t[i] = s[p + i]
  BY <1>1, Remainder
<1> HIDE DEF t
<1>3. \A i \in Blanks(t) : p + i \in Blanks(s) /\ t[i] = s[p + i] /\ i \in Nat /\ i > 0
  BY <1>1, <1>2 DEF Blanks
<1>4. \A j \in Blanks(s) : j > p => j - p \in Blanks(t) /\ t[j - p] = s[j]
  <2> SUFFICES ASSUME NEW j \in Blanks(s), j > p PROVE j - p \in Blanks(t) /\ t[j - p] = s[j]
    OBVIOUS
  <2>1. j \in 1..Len(s) /\ s[j].kind = "blank"
    BY DEF Blanks
  <2>2. j - p \in 1..Len(t) /\ p + (j - p) = j
    BY <1>1, <1>2, <2>1
  <2> QED
    BY <1>2, <2>1, <2>2 DEF Blanks
<1>5. ASSUME NEW i \in Blanks(t), NEW j \in Blanks(t), i < j PROVE t[i].call < t[j].call
  <2>1. /\ p + i \in Blanks(s) /\ p + j \in Blanks(s) /\ p + i < p + j
        /\ t[i] = s[p + i] /\ t[j] = s[p + j]
    BY <1>1, <1>3, <1>5
  <2> QED
    BY <2>1 DEF Covers
<1>6. ASSUME \A i \in 1..p : s[i].kind # "blank" PROVE Covers(t, first, last)
  <2>1. \A j \in Blanks(s) : j > p
    BY <1>1, <1>6 DEF Blanks
  <2> QED
    BY <1>3, <1>4, <1>5, <2>1 DEF Covers
<1>7. ASSUME NEW q \in 1..p, s[q].kind = "blank", \A i \in 1..p : s[i].kind = "blank" => i = q
      PROVE  s[q].call = first /\ Covers(t, first + 1, last)
  <2>1. q \in Blanks(s) /\ q \in Nat
    BY <1>1, <1>7 DEF Blanks
  <2>2. \A j \in Blanks(s) : j = q \/ j > p
    BY <1>1, <1>7 DEF Blanks
  <2>3. s[q].call \in first..last
    BY <2>1 DEF Covers
  <2>4. s[q].call = first
    <3>1. PICK j \in Blanks(s) : s[j].call = first
      BY <2>3 DEF Covers
    <3>2. j = q \/ q < j
      <4>1. j \in Nat /\ q \in Nat /\ q <= p
        BY <1>1 DEF Blanks
      <4> QED
        BY <1>1, <2>2, <4>1
    <3>3. q < j => s[q].call < s[j].call
      BY <2>1 DEF Covers
    <3> QED
      BY <2>3, <3>1, <3>2, <3>3
  <2>5. ASSUME NEW i \in Blanks(t) PROVE t[i].call \in first + 1..last
    <3>1. p + i \in Blanks(s) /\ q < p + i /\ t[i] = s[p + i]
      BY <1>1, <1>3
    <3>2. s[q].call < s[p + i].call /\ s[p + i].call \in first..last
      BY <2>1, <3>1 DEF Covers
    <3> QED
      BY <2>4, <3>1, <3>2
  <2>6. ASSUME NEW k \in first + 1..last PROVE \E i \in Blanks(t) : t[i].call = k
    <3>1. PICK j \in Blanks(s) : s[j].call = k
      BY DEF Covers
    <3>2. j > p
      BY <2>2, <2>4, <3>1
    <3> QED
      BY <1>4, <3>1, <3>2
  <2>7. first + 1 <= last + 1
    BY <2>3
  <2> QED
    BY <1>5, <2>4, <2>5, <2>6, <2>7 DEF Covers
<1> QED
  BY <1>6, <1>7 DEF t
-----------------------------------------------------------------------------
(* A nonempty set of natural numbers has a least element, which is Min.     *)
LEMMA LeastNumber ==
  ASSUME NEW T, T \subseteq Nat, T # {}
  PROVE  Min(T) \in T /\ \A y \in T : Min(T) <= y
<1>1. \E x \in T : \A y \in T : ~ (<<y, x>> \in OpToRel(<, Nat))
  BY NatLessThanWellFounded, WFMin
<1>2. \A x, y \in Nat : ~ (<<y, x>> \in OpToRel(<, Nat)) => x <= y
  BY DEF OpToRel
<1>3. \E x \in T : \A y \in T : x <= y
  BY <1>1, <1>2
<1> QED
  BY <1>3 DEF Min

(* Where a reader that sees the first part v of a stream s takes the header *)
(* to end: at the end of a line torn before, if s begins with one, and at   *)
(* the end of a header otherwise, the first one there is.                   *)
Header(s, v) ==
  /\ HeaderEnd(v) \in 1..Len(v)
  /\ \A i \in 1..HeaderEnd(v) : s[i].kind = "blank" => i = HeaderEnd(v)
  /\ s[1].kind \in {"cr", "lf"} => s[HeaderEnd(v)].kind = "lf" /\ ~SaysLength(v)
  /\ s[1].kind \notin {"cr", "lf"} =>
       /\ HeaderEnd(v) > 1 /\ s[HeaderEnd(v)].kind = "blank"
       /\ SaysLength(v) <=> s[HeaderEnd(v) - 1].kind = "length"

(* Only the end of a header and what is left of a torn line read as empty.  *)
LEMMA HeaderOfStream ==
  ASSUME NEW body \in {SDP, Short}, NEW s, Stream(s, body), NEW n \in 0..Len(s),
         EmptyLines(SubSeq(s, 1, n)) # {}
  PROVE  Header(s, SubSeq(s, 1, n))
<1> DEFINE v == SubSeq(s, 1, n)
           e == HeaderEnd(v)
<1>1. s \in Seq(Units) /\ Len(s) \in Nat /\ n \in Nat /\ n <= Len(s)
  BY DEF Stream
<1>2. v \in Seq(Units) /\ Len(v) = n /\ DOMAIN v = 1..n /\ \A i \in 1..n : v[i] = s[i]
  <2>1. v \in Seq(Units) /\ Len(v) = n
    BY <1>1
  <2>2. \A i \in 1..n : v[i] = s[i]
    BY <1>1
  <2> QED
    BY <2>1, <2>2
<1>3. /\ \A i \in 1..Len(s) : s[i] \in Units
      /\ \A i \in 1..Len(s) : i + 1 <= Len(s) => After(s[i], s[i + 1])
      /\ s # <<>> => /\ s[1].kind \notin {"length", "blank"}
                     /\ s[Len(s)].kind \notin {"status", "length", "cr"}
  BY <1>1 DEF Stream
<1>e. EmptyLines(v) # {}
  OBVIOUS
<1> HIDE DEF v
<1>4. \A j \in EmptyLines(v) : j \in 1..n /\ EmptyLineAt(v, j)
  BY <1>2 DEF EmptyLines
<1>5. ASSUME NEW j \in 1..n, j > 1
      PROVE  /\ j - 1 \in 1..n /\ j - 1 \in 1..Len(s) /\ j \in 1..Len(s)
             /\ v[j] = s[j] /\ v[j - 1] = s[j - 1] /\ s[j] \in Units /\ s[j - 1] \in Units
             /\ After(s[j - 1], s[j])
  <2>1. /\ j - 1 \in 1..n /\ j - 1 \in 1..Len(s) /\ j \in 1..Len(s)
        /\ j - 1 + 1 = j /\ j - 1 + 1 <= Len(s)
    BY <1>1, <1>5
  <2> QED
    BY <1>2, <1>3, <2>1
<1>6. ASSUME NEW j \in EmptyLines(v) PROVE v[j].kind \in {"lf", "blank"}
  <2>1. v[j].kind \in {"cr", "lf", "blank"}
    <3>1. j \in 1..j /\ \A m \in j..(j - 1) : ~EndsLine(v[m])
      BY <1>1, <1>4
    <3> QED
      BY <1>4, <3>1 DEF EmptyLineAt
  <2> QED
    BY <1>4, <2>1 DEF EmptyLineAt, EndsLine
<1>7. ASSUME NEW j \in EmptyLines(v), v[j].kind = "lf"
      PROVE  j = 1 \/ (j = 2 /\ s[1].kind = "cr")
  <2>1. SUFFICES ASSUME j # 1 PROVE j = 2 /\ s[1].kind = "cr"
    OBVIOUS
  <2>2. j \in 1..n /\ j > 1
    BY <1>1, <1>4, <2>1
  <2>3. s[j - 1].kind = "cr"
    <3>1. s[j].kind = "lf" /\ s[j - 1] \in Units /\ After(s[j - 1], s[j])
      BY <1>5, <1>7, <2>2
    <3> QED
      BY <3>1 DEF After, Units, UnitKinds
  <2>4. SUFFICES ASSUME j > 2 PROVE FALSE
    BY <1>1, <2>2, <2>3
  <2>5. s[j - 2].kind = "text"
    <3>1. j - 1 \in 1..n /\ j - 1 > 1 /\ (j - 1) - 1 = j - 2
      BY <1>1, <2>2, <2>4
    <3>2. s[j - 2] \in Units /\ After(s[j - 2], s[j - 1])
      BY <1>5, <3>1
    <3> QED
      BY <2>3, <3>2 DEF After, Units, UnitKinds
  <2>6. /\ j - 2 \in 1..j /\ j - 2 \in 1..n /\ j - 1 \in 1..n
        /\ \A m \in (j - 2)..(j - 1) : m = j - 2 \/ m = j - 1
    BY <1>1, <2>2, <2>4
  <2>7. v[j - 2].kind = "text" /\ v[j - 1].kind = "cr"
    BY <1>2, <2>3, <2>5, <2>6
  <2>8. \A m \in (j - 2)..(j - 1) : ~EndsLine(v[m])
    BY <2>6, <2>7 DEF EndsLine
  <2>9. v[j - 2].kind \in {"cr", "lf", "blank"}
    BY <1>4, <2>6, <2>8 DEF EmptyLineAt
  <2> QED
    BY <2>7, <2>9
<1>8. ASSUME NEW j \in 1..n, s[j].kind = "blank" PROVE j \in EmptyLines(v)
  <2>1. j > 1
    BY <1>1, <1>3, <1>8
  <2>2. s[j - 1].kind \in {"status", "length"}
    <3>1. s[j - 1] \in Units /\ After(s[j - 1], s[j])
      BY <1>5, <2>1
    <3> QED
      BY <1>8, <3>1 DEF After, Units, UnitKinds
  <2>3. EndsLine(v[j]) /\ EndsLine(v[j - 1]) /\ v[j].kind = "blank"
    BY <1>5, <1>8, <2>1, <2>2 DEF EndsLine
  <2>4. \A i \in 1..j : i = j \/ j - 1 \in i..(j - 1)
    BY <1>1, <2>1
  <2> QED
    BY <1>2, <2>3, <2>4 DEF EmptyLines, EmptyLineAt
<1>9. e \in EmptyLines(v) /\ \A j \in EmptyLines(v) : e <= j
  <2>1. EmptyLines(v) \subseteq Nat
    BY <1>1, <1>4
  <2> QED
    BY <1>e, <2>1, LeastNumber DEF HeaderEnd
<1> HIDE DEF e
<1>10. e \in 1..n /\ e \in Nat /\ e >= 1
  BY <1>1, <1>4, <1>9
<1>11. \A i \in 1..e : s[i].kind = "blank" => i = e
  BY <1>1, <1>8, <1>9, <1>10
<1>12. ASSUME s[1].kind \in {"cr", "lf"} PROVE s[e].kind = "lf" /\ ~SaysLength(v)
  <2>0. 1 \in 1..n /\ v[1] = s[1] /\ 1 \in 1..Len(s) /\ s # <<>>
    BY <1>1, <1>2, <1>10
  <2>1. CASE s[1].kind = "lf"
    <3>1. \A i \in 1..1 : i = 1
      OBVIOUS
    <3>2. 1 \in EmptyLines(v)
      BY <1>2, <2>0, <2>1, <3>1 DEF EmptyLines, EmptyLineAt, EndsLine
    <3>3. e = 1
      BY <1>9, <1>10, <3>2
    <3> QED
      BY <2>0, <2>1, <3>1, <3>3 DEF SaysLength, e
  <2>2. CASE s[1].kind = "cr"
    <3>1. e # 1
      BY <1>6, <1>9, <2>0, <2>2
    <3>2. 2 \in 1..n /\ 2 > 1 /\ 2 - 1 = 1
      BY <1>10, <3>1
    <3>3. v[2].kind = "lf" /\ s[2].kind = "lf"
      BY <1>5, <2>2, <3>2 DEF After
    <3>4. \A i \in 1..2 : i = 1 \/ i = 2
      OBVIOUS
    <3>5. 2 \in EmptyLines(v)
      BY <1>2, <2>0, <2>2, <3>2, <3>3, <3>4 DEF EmptyLines, EmptyLineAt, EndsLine
    <3>6. e = 2
      BY <1>9, <1>10, <3>1, <3>5
    <3> QED
      BY <2>0, <2>2, <3>3, <3>4, <3>6 DEF SaysLength, e
  <2> QED
    BY <1>12, <2>1, <2>2
<1>13. ASSUME s[1].kind \notin {"cr", "lf"}
       PROVE  /\ e > 1 /\ s[e].kind = "blank"
              /\ SaysLength(v) <=> s[e - 1].kind = "length"
  <2>1. v[e] = s[e] /\ s # <<>> /\ 1 \in 1..n /\ v[1] = s[1]
    BY <1>1, <1>2, <1>10
  <2>2. s[e].kind = "blank"
    <3>1. v[e].kind # "lf"
      BY <1>7, <1>9, <1>13, <2>1
    <3> QED
      BY <1>6, <1>9, <2>1, <3>1
  <2>3. e > 1
    BY <1>3, <1>10, <2>1, <2>2
  <2>4. ASSUME NEW i \in 1..e, v[i].kind = "length" PROVE i = e - 1
    <3>1. i \in 1..n /\ s[i].kind = "length" /\ i # e
      BY <1>1, <1>2, <1>10, <2>1, <2>2, <2>4
    <3>2. i + 1 \in 1..e /\ i + 1 \in 1..n /\ i + 1 > 1 /\ (i + 1) - 1 = i
      BY <1>10, <3>1
    <3>3. After(s[i], s[i + 1])
      BY <1>5, <3>2
    <3>4. s[i + 1].kind = "blank"
      BY <3>1, <3>3 DEF After
    <3>5. i + 1 = e
      BY <1>11, <3>2, <3>4
    <3> QED
      BY <1>10, <3>5
  <2>5. e - 1 \in 1..e /\ v[e - 1] = s[e - 1]
    <3>1. e - 1 \in 1..e /\ e \in 1..n /\ e > 1
      BY <1>10, <2>3
    <3> QED
      BY <1>5, <3>1
  <2>6. SaysLength(v) <=> s[e - 1].kind = "length"
    BY <2>4, <2>5 DEF SaysLength, e
  <2> QED
    BY <2>2, <2>3, <2>6
<1> QED
  BY <1>2, <1>10, <1>11, <1>12, <1>13 DEF Header, e, v
-----------------------------------------------------------------------------
(* The steps.  What the invariant says of the types the steps depend on.    *)
LEMMA Facts ==
  ASSUME StreamInv
  PROVE  /\ hops \in Nat /\ Len(asked) \in Nat /\ answered \in Nat /\ tears \in Nat
         /\ Returned \in Int /\ Awaited \in Int /\ Delivered \in Nat
         /\ \A i \in 1..(hops + 1) : BodyOn(i) \in {SDP, Short}
         /\ 1 \in 1..(hops + 1) /\ link[1] \in Seq(Units)
<1>1. hops \in Nat /\ Len(asked) \in Nat /\ answered \in Nat /\ tears \in Nat /\ calling \in BOOLEAN
  BY DEF StreamInv, StreamTypes
<1>2. Returned \in Int
  BY <1>1 DEF Returned
<1>3. Awaited \in Int
  BY <1>1, <1>2 DEF Awaited
<1>4. Delivered \in Nat
  BY <1>1 DEF Delivered, StreamInv, Upstream
<1> QED
  BY <1>1, <1>2, <1>3, <1>4 DEF BodyOn, StreamInv, ClientSide, Stream

(* A link that no step has used is empty, and nothing is awaited of it.     *)
LEMMA Initially == Init => StreamInv
<1> SUFFICES ASSUME Init PROVE StreamInv
  OBVIOUS
<1>1. /\ hops \in Nat /\ answered = 0 /\ tears = 0 /\ calling = FALSE /\ leftover = FALSE
      /\ asked = <<>> /\ Len(asked) = 0 /\ result.took = NoAnswer
      /\ DOMAIN link = 1..(hops + 1) /\ DOMAIN arrived = 1..(hops + 1)
      /\ \A i \in 1..(hops + 1) : link[i] = <<>> /\ arrived[i] = 0
  BY BoundsAssumption DEF Init
<1>2. link[1] = <<>> /\ Len(link[1]) = 0 /\ \A i \in 1..0 : FALSE
  BY <1>1
<1>3. StreamTypes
  <2>1. <<>> \in Seq(Kinds)
    OBVIOUS
  <2>2. \A i \in 1..(hops + 1) : arrived[i] \in 0..Len(link[i])
    BY <1>1, <1>2
  <2> QED
    BY <1>1, <2>1, <2>2 DEF StreamTypes
<1>4. OnTheWay = {}
  BY <1>1 DEF OnTheWay
<1>5. Upstream
  BY <1>1, <1>4 DEF Upstream
<1>6. ~Torn /\ Delivered = 0 /\ Awaited = 1
  <2>1. ~Torn
    BY <1>2 DEF Torn
  <2>2. Returned = 0
    BY <1>1 DEF Returned
  <2> QED
    BY <1>1, <1>4, <2>1, <2>2 DEF Delivered, Awaited
<1>7. Stream(link[1], BodyOn(1))
  <2>1. <<>> \in Seq(Units)
    OBVIOUS
  <2> QED
    BY <1>2, <2>1 DEF Stream
<1>8. Covers(link[1], Awaited, Delivered)
  <2>1. Blanks(link[1]) = {}
    BY <1>2 DEF Blanks
  <2>2. \A m \in 1..0 : FALSE
    OBVIOUS
  <2> QED
    BY <1>6, <2>1, <2>2 DEF Covers
<1>9. ClientSide
  BY <1>1, <1>2, <1>6, <1>7, <1>8 DEF ClientSide
<1> QED
  BY <1>1, <1>3, <1>5, <1>9 DEF StreamInv, AnswersInStep

(* The request a client writes is one it awaits an answer to.               *)
LEMMA CallKeeps ==
  ASSUME StreamInv, NEW kind \in Kinds, Call(kind)
  PROVE  StreamInv'
<1>1. /\ hops' = hops /\ link' = link /\ arrived' = arrived /\ answered' = answered
      /\ calling = FALSE /\ calling' = TRUE /\ asked' = Append(asked, kind)
      /\ result' = result /\ leftover' = leftover /\ tears' = tears
  BY DEF Call, history, StreamInv, StreamTypes
<1>2. asked' \in Seq(Kinds) /\ Len(asked') = Len(asked) + 1 /\ asked' # <<>> /\ Len(asked) \in Nat
  BY <1>1 DEF StreamInv, StreamTypes
<1>3. StreamTypes'
  BY <1>1, <1>2 DEF StreamInv, StreamTypes
<1>4. /\ OnTheWay' = OnTheWay /\ Delivered' = Delivered /\ (Torn <=> Torn')
      /\ BodyOn(1)' = BodyOn(1) /\ \A i \in OnTheWay : BodyOn(i)' = BodyOn(i)
  BY <1>1 DEF OnTheWay, Delivered, Torn, BodyOn
<1>5. Upstream'
  <2>1. answered' <= Len(asked')
    BY <1>1, <1>2, Facts DEF StreamInv, Upstream
  <2> QED
    BY <1>1, <1>4, <2>1 DEF StreamInv, Upstream
<1>6. Awaited' = Awaited
  <2>1. Returned' = Returned
    BY <1>1, <1>2 DEF Returned
  <2> QED
    BY <1>1, <1>4, <2>1 DEF Awaited
<1>7. ClientSide'
  BY <1>1, <1>4, <1>6 DEF StreamInv, ClientSide
<1>8. AnswersInStep'
  BY <1>1 DEF StreamInv, AnswersInStep
<1> QED
  BY <1>3, <1>5, <1>7, <1>8 DEF StreamInv

(* What arrives of a link, and how much of it at a time, changes nothing.   *)
LEMMA ArriveKeeps ==
  ASSUME StreamInv, NEW i \in 1..(hops + 1), Arrive(i)
  PROVE  StreamInv'
<1>1. /\ hops' = hops /\ link' = link /\ answered' = answered /\ calling' = calling
      /\ asked' = asked /\ result' = result /\ leftover' = leftover /\ tears' = tears
      /\ arrived' = [arrived EXCEPT ![i] = @ + 1] /\ arrived[i] < Len(link[i])
  BY DEF Arrive, history
<1>2. StreamTypes'
  <2>1. DOMAIN arrived' = 1..(hops + 1)
    BY <1>1 DEF StreamInv, StreamTypes
  <2>2. ASSUME NEW k \in 1..(hops + 1) PROVE arrived'[k] \in 0..Len(link[k])
    <3>1. arrived[k] \in 0..Len(link[k]) /\ DOMAIN arrived = 1..(hops + 1)
      BY DEF StreamInv, StreamTypes
    <3>2. arrived'[k] = IF k = i THEN arrived[k] + 1 ELSE arrived[k]
      BY <1>1, <3>1
    <3> QED
      BY <1>1, <3>1, <3>2
  <2> QED
    BY <1>1, <2>1, <2>2 DEF StreamInv, StreamTypes
<1>3. /\ OnTheWay' = OnTheWay /\ Delivered' = Delivered /\ (Torn <=> Torn')
      /\ Returned' = Returned
      /\ BodyOn(1)' = BodyOn(1) /\ \A k \in OnTheWay : BodyOn(k)' = BodyOn(k)
  BY <1>1 DEF OnTheWay, Delivered, Torn, BodyOn, Returned
<1>4. Awaited' = Awaited
  BY <1>1, <1>3 DEF Awaited
<1>5. Upstream' /\ ClientSide' /\ AnswersInStep'
  BY <1>1, <1>3, <1>4 DEF StreamInv, Upstream, ClientSide, AnswersInStep
<1> QED
  BY <1>2, <1>5 DEF StreamInv

(* The next answer comes to the client's link behind all that is there.     *)
LEMMA ClientAppend ==
  ASSUME StreamInv, NEW b \in {<<>>, BodyOn(1)},
         link'[1] = link[1] \o Message(Delivered + 1, b), Delivered' = Delivered + 1,
         UNCHANGED <<hops, asked, calling, history>>
  PROVE  ClientSide'
<1> DEFINE m == Message(Delivered + 1, b)
           s == link[1]
           w == link'[1]
<1>1. /\ hops' = hops /\ asked' = asked /\ calling' = calling /\ result' = result
      /\ leftover' = leftover /\ tears' = tears
  BY DEF history
<1>2. /\ Delivered \in Nat /\ Delivered + 1 \in Nat /\ Awaited \in Int /\ BodyOn(1) \in {SDP, Short}
      /\ s \in Seq(Units)
  BY Facts
<1>3. b \in {<<>>, SDP, Short}
  BY <1>2
<1>4. /\ m \in Seq(Units) /\ m[1].kind = "status"
      /\ b = <<>> => Len(m) = 2 /\ m[2].kind = "blank"
      /\ b # <<>> => /\ Len(m) = 3 + Len(b) /\ m[2].kind = "length" /\ m[3].kind = "blank"
                     /\ \A k \in 1..Len(b) : m[3 + k].kind = b[k]
  BY <1>2, <1>3, MessageUnits
<1>5. Stream(m, BodyOn(1))
  BY <1>2, MessageStream0
<1>6. Stream(s, BodyOn(1)) /\ Covers(s, Awaited, Delivered)
  BY DEF StreamInv, ClientSide
<1>7. m # <<>> /\ Len(m) > 0 /\ Len(m) \in Nat /\ 1 \in 1..Len(m)
  <2>1. Len(b) \in Nat
    BY <1>3, Bodies
  <2> QED
    BY <1>4, <2>1
<1>w. w = s \o m
  OBVIOUS
<1> HIDE DEF m
<1>8. Stream(w, BodyOn(1))
  BY <1>2, <1>4, <1>5, <1>6, <1>7, StreamAppend DEF m
<1>9. Covers(w, Awaited, Delivered + 1)
  BY <1>2, <1>3, <1>6, CoversAppend
<1> HIDE DEF w
<1>10. /\ Len(w) = Len(s) + Len(m)
       /\ \A i \in 1..Len(s) : w[i] = s[i]
       /\ \A k \in 1..Len(m) : w[Len(s) + k] = m[k]
       /\ \A i \in 1..Len(w) : i \in 1..Len(s) \/ i - Len(s) \in 1..Len(m)
  BY <1>2, <1>4, <1>w, Concatenation
<1>11. w # <<>> /\ IF s = <<>> THEN w[1].kind = "status" ELSE w[1] = s[1]
  <2>1. Len(s) \in Nat /\ Len(w) > 0
    BY <1>2, <1>7, <1>10
  <2>2. CASE s = <<>>
    <3>1. Len(s) = 0 /\ Len(s) + 1 = 1
      BY <2>2
    <3> QED
      BY <1>4, <1>7, <1>10, <2>1, <2>2, <3>1
  <2>3. CASE s # <<>>
    <3>1. 1 \in 1..Len(s)
      BY <1>2, <2>1, <2>3
    <3> QED
      BY <1>10, <2>1, <2>3, <3>1
  <2> QED
    BY <2>2, <2>3
<1>12. Torn' <=> Torn
  BY <1>11 DEF Torn, w
<1>13. Awaited' = Awaited /\ BodyOn(1)' = BodyOn(1)
  <2>1. Returned' = Returned
    BY <1>1 DEF Returned
  <2> QED
    BY <1>1, <1>12, <2>1 DEF Awaited, BodyOn
<1>14. ASSUME hops > 0, NEW i \in 1..Len(w) PROVE w[i].kind \notin {"cr", "lf"}
  <2>1. CASE i \in 1..Len(s)
    BY <1>10, <1>14, <2>1 DEF StreamInv, ClientSide
  <2>2. CASE i - Len(s) \in 1..Len(m)
    <3> DEFINE k == i - Len(s)
    <3>1. w[i] = m[k] /\ k \in 1..Len(m)
      <4>1. i \in Int /\ Len(s) \in Nat
        BY <1>2, <1>10, <1>7
      <4>2. Len(s) + k = i
        BY <4>1
      <4> QED
        BY <1>10, <2>2, <4>2
    <3> HIDE DEF k
    <3>2. b \in {<<>>, Short}
      <4>1. hops + 1 # 1
        BY <1>14, Facts
      <4> QED
        BY <4>1 DEF BodyOn
    <3>3. CASE b = <<>>
      <4>1. Len(m) = 2
        BY <1>4, <3>3
      <4>2. k = 1 \/ k = 2
        BY <3>1, <4>1
      <4> QED
        BY <1>4, <3>1, <3>3, <4>2
    <3>4. CASE b = Short
      <4>1. Len(m) = 5 /\ m[4].kind = "text" /\ m[5].kind = "text"
        BY <1>4, <3>4, Bodies
      <4>2. k \in {1, 2, 3, 4, 5}
        BY <3>1, <4>1
      <4> QED
        BY <1>4, <3>1, <3>4, <4>1, <4>2, Bodies
    <3> QED
      BY <3>2, <3>3, <3>4
  <2> QED
    BY <1>10, <2>1, <2>2
<1>15. (Torn' => tears' > 0) /\ (hops' > 0 => tears' = 0)
  BY <1>1, <1>12 DEF StreamInv, ClientSide
<1>16. (tears' = 0 /\ w # <<>> /\ w[1].kind = "text") => leftover'
  BY <1>1, <1>11 DEF StreamInv, ClientSide
<1> QED
  BY <1>1, <1>8, <1>9, <1>13, <1>14, <1>15, <1>16 DEF ClientSide, w
(* A step that leaves the client's link alone leaves its side alone.        *)
LEMMA ClientSame ==
  ASSUME StreamInv, link'[1] = link[1], Delivered' = Delivered,
         UNCHANGED <<hops, asked, calling, history>>
  PROVE  ClientSide'
<1>1. /\ hops' = hops /\ asked' = asked /\ calling' = calling
      /\ leftover' = leftover /\ tears' = tears
  BY DEF history
<1>2. (Torn <=> Torn') /\ Returned' = Returned /\ BodyOn(1)' = BodyOn(1)
  BY <1>1 DEF Torn, Returned, BodyOn
<1>3. Awaited' = Awaited
  BY <1>1, <1>2 DEF Awaited
<1> QED
  BY <1>1, <1>2, <1>3 DEF StreamInv, ClientSide

(* The server's answer starts its way, or is at the client's link at once.  *)
LEMMA AnswerKeeps ==
  ASSUME StreamInv, Answer
  PROVE  StreamInv'
<1> DEFINE b == IF asked[answered'] = "DESCRIBE" THEN SDP ELSE <<>>
           m == Message(answered + 1, b)
<1>1. /\ hops' = hops /\ arrived' = arrived /\ asked' = asked /\ calling' = calling
      /\ result' = result /\ leftover' = leftover /\ tears' = tears
      /\ answered' = answered + 1 /\ answered < Len(asked)
      /\ \A i \in 2..(hops + 1) : link[i] = <<>>
      /\ UNCHANGED <<hops, asked, calling, history>>
  BY DEF Answer, history
<1>2. link' = [link EXCEPT ![hops + 1] = @ \o m]
  BY <1>1 DEF Answer
<1>3. /\ hops \in Nat /\ answered \in Nat /\ answered + 1 \in Nat /\ Len(asked) \in Nat
      /\ b \in {<<>>, SDP} /\ DOMAIN link = 1..(hops + 1) /\ hops + 1 \in 1..(hops + 1)
      /\ link[1] \in Seq(Units)
  BY Facts DEF StreamInv, StreamTypes
<1>4. m \in Seq(Units) /\ m # <<>>
  <2>1. b \in {<<>>, SDP, Short}
    BY <1>3
  <2>2. m \in Seq(Units) /\ (b = <<>> => Len(m) = 2) /\ (b # <<>> => Len(m) = 3 + Len(b))
    BY <1>3, <2>1, MessageUnits
  <2>3. Len(b) \in Nat
    BY <1>3, Bodies
  <2> QED
    BY <2>2, <2>3
<1> HIDE DEF b
<1>5. OnTheWay = {} /\ Delivered = answered
  BY <1>1 DEF OnTheWay, Delivered
<1>6. link[hops + 1] \in Seq(Units)
  <2>1. <<>> \in Seq(Units)
    OBVIOUS
  <2>2. hops + 1 = 1 \/ hops + 1 \in 2..(hops + 1)
    BY <1>3
  <2>3. hops + 1 = 1 => link[hops + 1] \in Seq(Units)
    BY <1>3
  <2>4. hops + 1 \in 2..(hops + 1) => link[hops + 1] = <<>>
    BY <1>1
  <2> QED
    BY <2>1, <2>2, <2>3, <2>4
<1>m. m = Message(Delivered + 1, b)
  BY <1>5
<1> HIDE DEF m
<1>7. /\ DOMAIN link' = 1..(hops + 1)
      /\ \A i \in 1..(hops + 1) : link'[i] = IF i = hops + 1 THEN link[i] \o m ELSE link[i]
  BY <1>2, <1>3
<1>8. StreamTypes'
  <2>1. ASSUME NEW i \in 1..(hops + 1) PROVE arrived[i] \in 0..Len(link'[i])
    <3>1. arrived[i] \in 0..Len(link[i])
      BY DEF StreamInv, StreamTypes
    <3>2. CASE i = hops + 1
      <4>1. link'[i] = link[i] \o m /\ link[i] \in Seq(Units)
        BY <1>6, <1>7, <3>2
      <4>2. Len(link'[i]) = Len(link[i]) + Len(m) /\ Len(m) \in Nat /\ Len(link[i]) \in Nat
        BY <1>4, <4>1
      <4> QED
        BY <3>1, <4>2
    <3>3. CASE i # hops + 1
      BY <1>7, <3>1, <3>3
    <3> QED
      BY <3>2, <3>3
  <2> QED
    BY <1>1, <1>3, <1>7, <2>1 DEF StreamInv, StreamTypes
<1>9. AnswersInStep'
  BY <1>1 DEF StreamInv, AnswersInStep
<1>10. answered' <= Len(asked')
  BY <1>1, <1>3
<1>11. CASE hops = 0
  <2>1. OnTheWay' = {}
    BY <1>1, <1>11 DEF OnTheWay
  <2>2. Delivered' = Delivered + 1
    BY <1>1, <1>5, <2>1 DEF Delivered
  <2>3. b \in {<<>>, BodyOn(1)}
    BY <1>3, <1>11 DEF BodyOn
  <2>4. link'[1] = link[1] \o Message(Delivered + 1, b)
    <3>1. hops + 1 = 1 /\ 1 \in 1..(hops + 1)
      BY <1>11
    <3>2. link'[1] = link[1] \o m
      BY <1>7, <3>1
    <3> QED
      BY <1>m, <3>2
  <2>5. ClientSide'
    BY <1>1, <2>2, <2>3, <2>4, ClientAppend
  <2>6. Upstream'
    BY <1>10, <2>1 DEF Upstream
  <2> QED
    BY <1>8, <1>9, <2>5, <2>6 DEF StreamInv
<1>12. CASE hops > 0
  <2>1. hops + 1 \in 2..(hops + 1) /\ hops + 1 # 1 /\ 1 \in 1..(hops + 1)
    BY <1>3, <1>12
  <2>2. link'[hops + 1] = m /\ link'[1] = link[1]
    <3>1. <<>> \o m = m
      BY <1>4
    <3> QED
      BY <1>1, <1>3, <1>7, <2>1, <3>1
  <2>3. \A i \in 2..(hops + 1) : i # hops + 1 => link'[i] = <<>>
    BY <1>1, <1>3, <1>7
  <2>4. OnTheWay' = {hops + 1}
    BY <1>1, <1>4, <2>1, <2>2, <2>3 DEF OnTheWay
  <2>5. Delivered' = Delivered
    BY <1>1, <1>3, <1>5, <2>4 DEF Delivered
  <2>6. ClientSide'
    BY <1>1, <2>2, <2>5, ClientSame
  <2>7. m \in {Message(answered', <<>>), Message(answered', BodyOn(hops + 1)')}
    BY <1>1, <1>3, <1>5, <1>m DEF BodyOn
  <2>8. Upstream'
    BY <1>1, <1>3, <1>10, <2>2, <2>4, <2>7 DEF Upstream
  <2> QED
    BY <1>8, <1>9, <2>6, <2>8 DEF StreamInv
<1> QED
  BY <1>3, <1>11, <1>12

(* A number that is in a set, and below all others, is the least.           *)
LEMMA MinIs ==
  ASSUME NEW T, T \subseteq Nat, NEW x \in T, \A y \in T : x <= y
  PROVE  Min(T) = x
<1> DEFINE least == Min(T)
<1>1. least \in T /\ \A y \in T : least <= y
  BY DEF Min
<1> HIDE DEF least
<1>2. least <= x /\ x <= least /\ least \in Nat /\ x \in Nat
  BY <1>1
<1>3. least = x
  BY <1>2
<1> QED
  BY <1>3 DEF least

(* What ParseMessage leaves of the bodies that proxies read.                *)
LEMMA FirstLines == FirstLine(<<>>) = <<>> /\ FirstLine(SDP) = Short
<1>1. FirstLine(<<>>) = <<>>
  <2>1. {i \in DOMAIN <<>> : <<>>[i] = "cr"} \cup {Len(<<>>) + 1} = {1}
    OBVIOUS
  <2>2. Min({1}) = 1
    BY MinIs
  <2> QED
    BY <2>1, <2>2 DEF FirstLine
<1>2. FirstLine(SDP) = Short
  <2> DEFINE T == {i \in DOMAIN SDP : SDP[i] = "cr"} \cup {Len(SDP) + 1}
  <2>1. DOMAIN SDP = 1..7
    BY DEF SDP
  <2>2. \A i \in 1..7 : i \in {1, 2, 3, 4, 5, 6, 7}
    OBVIOUS
  <2>3. 3 \in T /\ T \subseteq Nat /\ \A y \in T : 3 <= y
    BY <2>1, <2>2, Bodies
  <2>4. Min(T) = 3
    BY <2>3, MinIs
  <2>5. FirstLine(SDP) = SubSeq(SDP, 1, Min(T) - 1)
    BY DEF FirstLine
  <2>6. FirstLine(SDP) = SubSeq(SDP, 1, 2)
    <3> HIDE DEF T
    <3>1. Min(T) - 1 = 2
      BY <2>4
    <3> QED
      BY <2>5, <3>1
  <2> QED
    BY <2>6 DEF SDP, Short
<1> QED
  BY <1>1, <1>2

(* The header of a message of its own.                                      *)
LEMMA HeaderOfMessage ==
  ASSUME NEW call \in Nat, NEW body \in {SDP, Short}, NEW b \in {<<>>, body},
         NEW n \in 0..Len(Message(call, b)), EmptyLines(SubSeq(Message(call, b), 1, n)) # {}
  PROVE  /\ HeaderEnd(SubSeq(Message(call, b), 1, n)) = IF b = <<>> THEN 2 ELSE 3
         /\ SaysLength(SubSeq(Message(call, b), 1, n)) <=> b # <<>>
         /\ n >= IF b = <<>> THEN 2 ELSE 3
<1> DEFINE m == Message(call, b)
           v == SubSeq(m, 1, n)
           e == HeaderEnd(v)
<1>1. Stream(m, body)
  BY MessageStream0
<1>2. b \in {<<>>, SDP, Short}
  OBVIOUS
<1>3. /\ m \in Seq(Units) /\ m[1].kind = "status"
      /\ b = <<>> => Len(m) = 2 /\ m[2].kind = "blank"
      /\ b # <<>> => Len(m) = 3 + Len(b) /\ m[2].kind = "length" /\ m[3].kind = "blank"
  BY <1>2, MessageUnits
<1>4. Header(m, v)
  BY <1>1, HeaderOfStream
<1>5. Len(v) = n /\ n \in Nat /\ n <= Len(m) /\ Len(m) \in Nat
  BY <1>3
<1> HIDE DEF m, v
<1>6. /\ e \in 1..n /\ e > 1 /\ m[e].kind = "blank"
      /\ \A i \in 1..e : m[i].kind = "blank" => i = e
      /\ SaysLength(v) <=> m[e - 1].kind = "length"
  BY <1>3, <1>4, <1>5 DEF Header
<1> HIDE DEF e
<1>7. CASE b = <<>>
  <2>1. e = 2
    BY <1>3, <1>5, <1>6, <1>7
  <2> QED
    BY <1>3, <1>6, <1>7, <2>1 DEF e, v, m
<1>8. CASE b # <<>>
  <2>1. e # 2
    BY <1>3, <1>6, <1>8
  <2>2. 3 \in 1..e
    BY <1>5, <1>6, <2>1
  <2>3. e = 3
    BY <1>3, <1>6, <1>8, <2>2
  <2> QED
    BY <1>3, <1>5, <1>6, <1>8, <2>3 DEF e, v, m
<1> QED
  BY <1>7, <1>8

(* The kinds of the units of a sequence, one by one.                        *)
KindsOf(s) == [j \in DOMAIN s |-> s[j].kind]

(* They are a sequence of as many kinds.                                    *)
LEMMA KindsOfUnits ==
  ASSUME NEW s \in Seq(Units)
  PROVE  /\ KindsOf(s) \in Seq(UnitKinds) /\ Len(KindsOf(s)) = Len(s)
         /\ \A j \in 1..Len(s) : KindsOf(s)[j] = s[j].kind
<1>1. DOMAIN s = 1..Len(s) /\ Len(s) \in Nat /\ \A j \in 1..Len(s) : s[j] \in Units
  OBVIOUS
<1>2. \A j \in 1..Len(s) : KindsOf(s)[j] = s[j].kind /\ s[j].kind \in UnitKinds
  BY <1>1 DEF KindsOf, Units
<1>3. KindsOf(s) \in [1..Len(s) -> UnitKinds]
  BY <1>1, <1>2 DEF KindsOf
<1>4. KindsOf(s) \in Seq(UnitKinds) /\ Len(KindsOf(s)) = Len(s)
  <2> DEFINE k == KindsOf(s)
             n == Len(s)
  <2>1. k \in [1..n -> UnitKinds] /\ n \in Nat
    BY <1>1, <1>3
  <2> HIDE DEF k, n
  <2>2. k \in Seq(UnitKinds) /\ Len(k) = n
    BY <2>1
  <2> QED
    BY <2>2 DEF k, n
<1> QED
  BY <1>2, <1>4

(* A proxy that sees the first a units of m takes its header and n units.   *)
ProxyReads(m, a, n) ==
  LET v == SubSeq(m, 1, a) IN
  /\ EmptyLines(v) # {}
  /\ n \in IF SaysLength(v) THEN ReadFull(Len(v) - HeaderEnd(v)) ELSE {0}
BodyRead(m, a, n) ==
  LET v == SubSeq(m, 1, a) IN SubSeq(v, HeaderEnd(v) + 1, HeaderEnd(v) + n)

(* Only a whole session description is as long as it says.                  *)
LEMMA LongEnough ==
  ASSUME NEW b, b = SDP \/ b = Short, NEW l \in Nat, l = 3 + Len(b),
         NEW a \in Nat, a <= l, 7 <= a - 3
  PROVE  b = SDP /\ l = 10 /\ a = 10
<1>1. Len(SDP) = 7 /\ Len(Short) = 2
  BY Bodies
<1>2. CASE b = SDP
  <2>1. Len(b) = 7
    BY <1>1, <1>2
  <2>2. l = 10
    BY <2>1
  <2> QED
    BY <1>2, <2>2
<1>3. CASE b = Short
  <2>1. Len(b) = 2
    BY <1>1, <1>3
  <2>2. l = 5
    BY <2>1
  <2> QED
    BY <2>2
<1> QED
  BY <1>2, <1>3

(* The last seven units of ten.                                             *)
LEMMA LastSeven ==
  ASSUME NEW v \in Seq(Units), Len(v) = 10
  PROVE  /\ SubSeq(v, 4, 10) \in Seq(Units) /\ Len(SubSeq(v, 4, 10)) = 7
         /\ \A j \in 1..7 : SubSeq(v, 4, 10)[j] = v[3 + j]
<1>1. 3 \in 0..Len(v) /\ 3 + 1 = 4 /\ Len(v) - 3 = 7
  OBVIOUS
<1>2. /\ SubSeq(v, 3 + 1, Len(v)) \in Seq(Units) /\ Len(SubSeq(v, 3 + 1, Len(v))) = Len(v) - 3
      /\ \A i \in 1..Len(v) - 3 : SubSeq(v, 3 + 1, Len(v))[i] = v[3 + i]
  BY <1>1, Remainder
<1> QED
  BY <1>1, <1>2

(* It takes a message whole and leaves the first line of its body.  It      *)
(* gets no further than the header when the body is shorter than it says.   *)
LEMMA WhatIsRelayed ==
  ASSUME NEW call \in Nat, NEW body \in {SDP, Short}, NEW b \in {<<>>, body},
         NEW a \in 0..Len(Message(call, b)), NEW n, ProxyReads(Message(call, b), a, n)
  PROVE  LET m == Message(call, b)
             v == SubSeq(m, 1, a)
         IN /\ v[1].call = call /\ a - HeaderEnd(v) - n = 0
            /\ SubSeq(m, HeaderEnd(v) + n + 1, Len(m)) = <<>>
            /\ FirstLine(KindsOf(BodyRead(m, a, n))) \in {<<>>, Short}
<1> DEFINE m == Message(call, b)
           v == SubSeq(m, 1, a)
           e == HeaderEnd(v)
           read == BodyRead(m, a, n)
<1>1. EmptyLines(v) # {} /\ n \in IF SaysLength(v) THEN ReadFull(Len(v) - e) ELSE {0}
  BY DEF ProxyReads
<1>2. b \in {<<>>, SDP, Short}
  OBVIOUS
<1>3. /\ m \in Seq(Units) /\ \A k \in 1..Len(m) : m[k].call = call
      /\ b = <<>> => Len(m) = 2
      /\ b # <<>> => /\ Len(m) = 3 + Len(b)
                     /\ \A k \in 1..Len(b) : m[3 + k].kind = b[k]
  BY <1>2, MessageUnits
<1>4. /\ e = IF b = <<>> THEN 2 ELSE 3
      /\ SaysLength(v) <=> b # <<>>
      /\ a >= IF b = <<>> THEN 2 ELSE 3
  BY <1>1, HeaderOfMessage
<1> HIDE DEF m
<1>5. a \in 0..Len(m) /\ a \in Nat /\ a <= Len(m) /\ Len(m) \in Nat
  BY <1>3 DEF m
<1>6. Len(v) = a /\ v \in Seq(Units) /\ \A k \in 1..a : v[k] = m[k]
  BY <1>3, <1>5
<1>7. v[1].call = call
  <2>1. 1 \in 1..a /\ 1 \in 1..Len(m)
    BY <1>4, <1>5
  <2> QED
    BY <1>3, <1>6, <2>1
<1>8. read = SubSeq(v, e + 1, e + n)
  BY DEF BodyRead
<1> HIDE DEF v, read
<1>9. SUFFICES /\ a - e - n = 0 /\ SubSeq(m, e + n + 1, Len(m)) = <<>>
               /\ FirstLine(KindsOf(read)) \in {<<>>, Short}
  BY <1>7 DEF m, v, read
<1> HIDE DEF e
<1>10. CASE b = <<>>
  <2>1. e = 2 /\ Len(m) = 2 /\ a >= 2
    BY <1>3, <1>4, <1>10
  <2>a. n = 0 /\ a = 2
    <3>1. n \in {0}
      BY <1>1, <1>4, <1>10
    <3>2. a = 2
      BY <1>5, <2>1
    <3> QED
      BY <3>1, <3>2
  <2>2. e + 1 = 3 /\ e + n = 2 /\ e + n + 1 = 3 /\ a - e - n = 0
    BY <2>1, <2>a
  <2>3. read \in Seq(Units) /\ Len(read) = 0
    BY <1>6, <1>8, <2>1, <2>a, <2>2
  <2>4. SubSeq(m, 3, 2) = <<>>
    BY <1>3
  <2>5. KindsOf(read) = <<>>
    <3> DEFINE k == KindsOf(read)
    <3>1. k \in Seq(UnitKinds) /\ Len(k) = 0
      BY <2>3, KindsOfUnits
    <3> HIDE DEF k
    <3>2. k = <<>>
      BY <3>1
    <3> QED
      BY <3>2 DEF k
  <2> QED
    BY <2>1, <2>2, <2>4, <2>5, FirstLines
<1>11. CASE b # <<>>
  <2>1. n = 7 /\ n <= a - 3 /\ e = 3
    BY <1>1, <1>4, <1>6, <1>11, Bodies DEF ReadFull
  <2>2. b = SDP /\ Len(m) = 10 /\ a = 10
    <3>1. Len(m) = 3 + Len(b) /\ (b = SDP \/ b = Short)
      BY <1>2, <1>3, <1>11
    <3>2. 7 <= a - 3
      BY <2>1
    <3> QED
      BY <1>5, <3>1, <3>2, LongEnough
  <2>3. e + 1 = 4 /\ e + n = 10 /\ e + n + 1 = 11 /\ a - e - n = 0
    BY <2>1, <2>2
  <2>4. SubSeq(m, 11, 10) = <<>>
    BY <1>3
  <2>5. read \in Seq(Units) /\ Len(read) = 7 /\ \A j \in 1..7 : read[j] = v[3 + j]
    <3>1. read = SubSeq(v, 4, 10) /\ Len(v) = 10
      BY <1>6, <1>8, <2>2, <2>3
    <3> QED
      BY <1>6, <3>1, LastSeven
  <2>6. \A j \in 1..7 : read[j].kind = SDP[j]
    <3>1. ASSUME NEW j \in 1..7 PROVE read[j].kind = SDP[j]
      <4>1. 3 + j \in 1..a /\ j \in 1..Len(b)
        BY <2>2, Bodies
      <4>2. read[j] = m[3 + j] /\ m[3 + j].kind = SDP[j]
        BY <1>3, <1>6, <1>11, <2>2, <2>5, <4>1
      <4> QED
        BY <4>2
    <3> QED
      BY <3>1
  <2>7. KindsOf(read) = SDP
    <3> DEFINE k == KindsOf(read)
    <3>1. k \in Seq(UnitKinds) /\ Len(k) = 7 /\ \A j \in 1..7 : k[j] = SDP[j]
      BY <2>5, <2>6, KindsOfUnits
    <3> HIDE DEF k
    <3>2. SDP \in Seq(UnitKinds) /\ Len(SDP) = 7
      BY Bodies
    <3>3. k = SDP
      BY <3>1, <3>2
    <3> QED
      BY <3>3 DEF k
  <2> QED
    BY <2>2, <2>3, <2>4, <2>7, FirstLines
<1> QED
  BY <1>10, <1>11

(* What a proxy does: it takes the message off the one link, whole, and     *)
(* puts one of the same call on the next, with what is left of the body.    *)
Relayed(i, b) ==
  /\ i + 1 \in OnTheWay
  /\ link' = [link EXCEPT ![i] = @ \o Message(answered, b), ![i + 1] = <<>>]
  /\ arrived' = [arrived EXCEPT ![i + 1] = 0]

(* Every relay is such a step.                                              *)
LEMMA RelayFact ==
  ASSUME StreamInv, NEW i \in 1..hops, Relay(i)
  PROVE  \E b \in {<<>>, Short} : Relayed(i, b)
<1> DEFINE m == link[i + 1]
           a == arrived[i + 1]
           v == SubSeq(m, 1, a)
           e == HeaderEnd(v)
           c(n) == FirstLine(KindsOf(BodyRead(m, a, n)))
<1>1. /\ hops \in Nat /\ answered \in Nat /\ i \in Nat /\ i >= 1
      /\ i + 1 \in 2..(hops + 1) /\ i + 1 \in 1..(hops + 1) /\ a \in 0..Len(m)
      /\ v = Visible(i + 1) /\ BodyOn(i + 1) \in {SDP, Short}
  BY Facts DEF StreamInv, StreamTypes, Visible
<1>2. PICK n : /\ ProxyReads(m, a, n)
               /\ link' = [link EXCEPT ![i] = @ \o Message(v[1].call, c(n)),
                                       ![i + 1] = SubSeq(@, e + n + 1, Len(@))]
               /\ arrived' = [arrived EXCEPT ![i + 1] = @ - e - n]
  BY <1>1 DEF Relay, ProxyReads, BodyRead, KindsOf
<1>3. m # <<>>
  <2>1. SUFFICES ASSUME m = <<>> PROVE FALSE
    OBVIOUS
  <2>2. a = 0
    BY <1>1, <2>1
  <2>3. DOMAIN v = {}
    BY <2>1, <2>2
  <2> QED
    BY <1>2, <2>3 DEF ProxyReads, EmptyLines
<1>4. i + 1 \in OnTheWay
  BY <1>1, <1>3 DEF OnTheWay
<1>5. PICK b \in {<<>>, BodyOn(i + 1)} : m = Message(answered, b)
  BY <1>4 DEF StreamInv, Upstream
<1>6. DOMAIN link = 1..(hops + 1) /\ DOMAIN arrived = 1..(hops + 1)
  BY DEF StreamInv, StreamTypes
<1> HIDE DEF m, a
<1>7. /\ v[1].call = answered /\ a - e - n = 0
      /\ SubSeq(m, e + n + 1, Len(m)) = <<>>
      /\ c(n) \in {<<>>, Short}
  BY <1>1, <1>2, <1>5, WhatIsRelayed
<1> HIDE DEF e, v, c
<1>8. link' = [link EXCEPT ![i] = @ \o Message(answered, c(n)), ![i + 1] = <<>>]
  <2>1. i # i + 1
    BY <1>1
  <2> QED
    BY <1>1, <1>2, <1>6, <1>7, <2>1 DEF m
<1>9. arrived' = [arrived EXCEPT ![i + 1] = 0]
  BY <1>2, <1>6, <1>7 DEF a
<1> QED
  BY <1>4, <1>7, <1>8, <1>9 DEF Relayed

(* An answer moves on by one link, the last time to the client's.           *)
LEMMA RelayKeeps ==
  ASSUME StreamInv, NEW i \in 1..hops, Relay(i)
  PROVE  StreamInv'
<1>1. /\ hops' = hops /\ asked' = asked /\ calling' = calling /\ answered' = answered
      /\ result' = result /\ leftover' = leftover /\ tears' = tears
      /\ UNCHANGED <<hops, asked, calling, history>>
  BY DEF Relay, history
<1>2. PICK b \in {<<>>, Short} : Relayed(i, b)
  BY RelayFact
<1> DEFINE m == Message(answered, b)
<1>3. /\ hops \in Nat /\ i \in Nat /\ i >= 1 /\ i <= hops
      /\ i \in 1..(hops + 1) /\ i + 1 \in 2..(hops + 1) /\ i + 1 \in 1..(hops + 1) /\ i # i + 1
      /\ answered \in Nat /\ link[1] \in Seq(Units)
      /\ DOMAIN link = 1..(hops + 1) /\ DOMAIN arrived = 1..(hops + 1)
  BY Facts DEF StreamInv, StreamTypes
<1>4. m \in Seq(Units) /\ m # <<>>
  <2>1. b \in {<<>>, SDP, Short}
    OBVIOUS
  <2>2. m \in Seq(Units) /\ (b = <<>> => Len(m) = 2) /\ (b # <<>> => Len(m) = 3 + Len(b))
    BY <1>3, <2>1, MessageUnits
  <2>3. Len(Short) = 2
    BY Bodies
  <2>4. CASE b = <<>>
    BY <2>2, <2>4
  <2>5. CASE b = Short
    <3>1. b # <<>> /\ Len(b) = 2
      BY <2>5, Bodies
    <3>2. Len(m) = 3 + Len(b)
      BY <2>2, <3>1
    <3>3. Len(m) = 5
      BY <3>1, <3>2
    <3> QED
      BY <2>2, <3>3
  <2> QED
    BY <2>4, <2>5
<1>5. OnTheWay = {i + 1} /\ answered > 0
  BY <1>2 DEF Relayed, StreamInv, Upstream
<1>6. Delivered = answered - 1 /\ Delivered + 1 = answered
  BY <1>3, <1>5 DEF Delivered
<1>m. m = Message(Delivered + 1, b)
  BY <1>6
<1>l. /\ link' = [link EXCEPT ![i] = @ \o m, ![i + 1] = <<>>]
      /\ arrived' = [arrived EXCEPT ![i + 1] = 0]
  BY <1>2 DEF Relayed
<1> HIDE DEF m
<1>7. /\ DOMAIN link' = 1..(hops + 1) /\ DOMAIN arrived' = 1..(hops + 1)
      /\ link'[i] = link[i] \o m /\ link'[i + 1] = <<>> /\ arrived'[i + 1] = 0
      /\ \A k \in 1..(hops + 1) : k # i /\ k # i + 1 => link'[k] = link[k]
      /\ \A k \in 1..(hops + 1) : k # i + 1 => arrived'[k] = arrived[k]
  BY <1>3, <1>l
<1>8. \A k \in 2..(hops + 1) : k \in 1..(hops + 1) /\ (k # i + 1 => link[k] = <<>>)
  BY <1>3, <1>5 DEF OnTheWay
<1>9. link[i] \in Seq(Units)
  <2>1. <<>> \in Seq(Units)
    OBVIOUS
  <2>2. i = 1 \/ i \in 2..(hops + 1)
    BY <1>3
  <2> QED
    BY <1>3, <1>8, <2>1, <2>2
<1>10. StreamTypes'
  <2>1. ASSUME NEW k \in 1..(hops + 1) PROVE arrived'[k] \in 0..Len(link'[k])
    <3>1. arrived[k] \in 0..Len(link[k])
      BY DEF StreamInv, StreamTypes
    <3>2. CASE k = i
      <4>1. link'[k] = link[k] \o m /\ link[k] \in Seq(Units) /\ arrived'[k] = arrived[k]
        BY <1>3, <1>7, <1>9, <3>2
      <4>2. Len(link'[k]) = Len(link[k]) + Len(m) /\ Len(m) \in Nat /\ Len(link[k]) \in Nat
        BY <1>4, <4>1
      <4> QED
        BY <3>1, <4>1, <4>2
    <3>3. CASE k = i + 1
      <4>1. link'[k] = <<>> /\ arrived'[k] = 0
        BY <1>7, <3>3
      <4> QED
        BY <4>1
    <3>4. CASE k # i /\ k # i + 1
      BY <1>7, <3>1, <3>4
    <3> QED
      BY <3>2, <3>3, <3>4
  <2> QED
    BY <1>1, <1>3, <1>7, <2>1 DEF StreamInv, StreamTypes
<1>11. AnswersInStep' /\ answered' <= Len(asked')
  BY <1>1 DEF StreamInv, AnswersInStep, Upstream
<1>12. CASE i = 1
  <2>1. OnTheWay' = {}
    BY <1>1, <1>7, <1>8, <1>12 DEF OnTheWay
  <2>2. Delivered' = Delivered + 1
    BY <1>1, <1>6, <2>1 DEF Delivered
  <2>3. b \in {<<>>, BodyOn(1)}
    <3>1. hops + 1 # 1
      BY <1>3, <1>12
    <3> QED
      BY <3>1 DEF BodyOn
  <2>4. link'[1] = link[1] \o Message(Delivered + 1, b)
    BY <1>7, <1>m, <1>12
  <2>5. ClientSide'
    BY <1>1, <2>2, <2>3, <2>4, ClientAppend
  <2>6. Upstream'
    BY <1>11, <2>1 DEF Upstream
  <2> QED
    BY <1>10, <1>11, <2>5, <2>6 DEF StreamInv
<1>13. CASE i # 1
  <2>1. i \in 2..(hops + 1) /\ 1 \in 1..(hops + 1) /\ 1 # i /\ 1 # i + 1 /\ i # hops + 1
    BY <1>3, <1>13
  <2>2. link'[i] = m
    <3>1. <<>> \o m = m /\ link[i] = <<>>
      BY <1>3, <1>4, <1>8, <2>1
    <3> QED
      BY <1>7, <3>1
  <2>3. OnTheWay' = {i}
    BY <1>1, <1>4, <1>7, <1>8, <2>1, <2>2 DEF OnTheWay
  <2>4. Delivered' = Delivered
    BY <1>1, <1>6, <2>3 DEF Delivered
  <2>5. ClientSide'
    BY <1>1, <1>7, <2>1, <2>4, ClientSame
  <2>6. m \in {Message(answered', <<>>), Message(answered', BodyOn(i)')}
    BY <1>1, <2>1 DEF BodyOn, m
  <2>7. Upstream'
    BY <1>1, <1>5, <1>11, <2>2, <2>3, <2>6 DEF Upstream
  <2> QED
    BY <1>10, <1>11, <2>5, <2>7 DEF StreamInv
<1> QED
  BY <1>12, <1>13

(* A client that sees the first a units of s takes a header and n units.    *)
ClientReads(s, a, n) ==
  LET v == SubSeq(s, 1, a) IN EmptyLines(v) # {} /\ n \in BodyTaken(v)

(* What it takes of a stream: the end of a torn line, or a header that ends *)
(* at e and some of the body, if there is one.                              *)
Taking(s, e, n, body) ==
  /\ e \in 1..Len(s) /\ n \in 0..7 /\ e + n <= Len(s)
  /\ \A i \in 1..e : s[i].kind = "blank" => i = e
  /\ s[1].kind \in {"cr", "lf"} => n = 0 /\ s[e].kind = "lf"
  /\ s[1].kind \notin {"cr", "lf"} =>
       /\ e > 1 /\ s[e].kind = "blank" /\ s[e - 1].kind \in {"status", "length"}
       /\ s[e - 1].kind = "length" =>
            /\ n > 0 /\ e + Len(body) <= Len(s)
            /\ \A k \in 1..Len(body) : s[e + k].kind = body[k]
            /\ e + Len(body) + 1 <= Len(s) => s[e + Len(body) + 1].kind = "status"
       /\ s[e - 1].kind = "status" =>
            n = 0 /\ (e + 1 <= Len(s) => s[e + 1].kind = "status")
       /\ s[1].kind = "status" => s[e].call = s[1].call

(* One Read returns some of what there is, and no more than the length says. *)
LEMMA OneRead ==
  ASSUME NEW there \in Nat, NEW n \in ReadOnce(there)
  PROVE  n \in 1..7 /\ n <= there
<1> DEFINE least == Min({there, ContentLength})
<1>1. ContentLength = 7
  BY Bodies
<1>2. n = least /\ n > 0
  BY DEF ReadOnce
<1>3. {there, ContentLength} \subseteq Nat /\ {there, ContentLength} # {}
  BY <1>1
<1>4. least \in {there, ContentLength} /\ \A y \in {there, ContentLength} : least <= y
  BY <1>3, LeastNumber
<1> HIDE DEF least
<1> QED
  BY <1>1, <1>2, <1>4

(* Whatever a client takes of a stream is of that form.                     *)
LEMMA TakingFromStream ==
  ASSUME NEW body \in {SDP, Short}, NEW s, Stream(s, body), NEW a \in 0..Len(s),
         NEW n, ClientReads(s, a, n)
  PROVE  Taking(s, HeaderEnd(SubSeq(s, 1, a)), n, body) /\ HeaderEnd(SubSeq(s, 1, a)) + n <= a
<1> DEFINE v == SubSeq(s, 1, a)
           e == HeaderEnd(v)
<1>1. s \in Seq(Units) /\ Len(s) \in Nat /\ a \in Nat /\ a <= Len(s) /\ Len(body) \in Nat
  BY Bodies DEF Stream
<1>2. EmptyLines(v) # {} /\ n \in BodyTaken(v)
  BY DEF ClientReads
<1>3. Header(s, v)
  BY <1>2, HeaderOfStream
<1>4. Len(v) = a
  BY <1>1
<1> HIDE DEF v
<1>5. /\ e \in 1..a /\ e \in 1..Len(s) /\ e \in Nat
      /\ \A i \in 1..e : s[i].kind = "blank" => i = e
  <2>1. e \in 1..a /\ \A i \in 1..e : s[i].kind = "blank" => i = e
    BY <1>3, <1>4 DEF Header
  <2> HIDE DEF e
  <2> QED
    BY <1>1, <2>1
<1>6. IF SaysLength(v) THEN n \in 1..7 /\ n <= a - e ELSE n = 0
  <2>1. a - e \in Nat
    BY <1>1, <1>5
  <2> QED
    BY <1>2, <1>4, <2>1, OneRead DEF BodyTaken
<1>7. n \in 0..7 /\ e + n <= Len(s) /\ e + n <= a
  BY <1>1, <1>5, <1>6
<1>8. s[1].kind \in {"cr", "lf"} => n = 0 /\ s[e].kind = "lf"
  BY <1>3, <1>6 DEF Header
<1>9. ASSUME s[1].kind \notin {"cr", "lf"}
      PROVE  /\ e > 1 /\ s[e].kind = "blank" /\ s[e - 1].kind \in {"status", "length"}
             /\ s[e - 1].kind = "length" =>
                  /\ n > 0 /\ e + Len(body) <= Len(s)
                  /\ \A k \in 1..Len(body) : s[e + k].kind = body[k]
                  /\ e + Len(body) + 1 <= Len(s) => s[e + Len(body) + 1].kind = "status"
             /\ s[e - 1].kind = "status" =>
                  n = 0 /\ (e + 1 <= Len(s) => s[e + 1].kind = "status")
             /\ s[1].kind = "status" => s[e].call = s[1].call
  <2>1. e > 1 /\ s[e].kind = "blank" /\ (SaysLength(v) <=> s[e - 1].kind = "length")
    BY <1>3, <1>9 DEF Header
  <2> HIDE DEF e
  <2> DEFINE d == e - 1
  <2>2. d \in 1..Len(s) /\ d + 1 = e /\ d + 1 <= Len(s) /\ d \in Nat /\ d < e
    BY <1>1, <1>5, <2>1
  <2> HIDE DEF d
  <2>3. s[d].kind \in {"status", "length"}
    <3>1. s[d] \in Units /\ After(s[d], s[e])
      BY <1>1, <2>2 DEF Stream
    <3> QED
      BY <2>1, <3>1 DEF After, Units, UnitKinds
  <2>4. ASSUME s[d].kind = "length"
        PROVE  /\ n > 0 /\ e + Len(body) <= Len(s)
               /\ \A k \in 1..Len(body) : s[e + k].kind = body[k]
               /\ e + Len(body) + 1 <= Len(s) => s[e + Len(body) + 1].kind = "status"
    <3>1. /\ d + 1 + Len(body) <= Len(s)
          /\ \A k \in 1..Len(body) : s[d + 1 + k].kind = body[k]
          /\ d + 2 + Len(body) <= Len(s) => s[d + 2 + Len(body)].kind = "status"
      BY <2>2, <2>4 DEF Stream
    <3>2. /\ d + 1 + Len(body) = e + Len(body) /\ d + 2 + Len(body) = e + Len(body) + 1
          /\ \A k \in 1..Len(body) : d + 1 + k = e + k
      BY <1>1, <2>2
    <3>3. n > 0
      BY <1>6, <2>1, <2>4 DEF d
    <3> QED
      BY <3>1, <3>2, <3>3
  <2>5. ASSUME s[d].kind = "status"
        PROVE  n = 0 /\ (e + 1 <= Len(s) => s[e + 1].kind = "status")
    <3>1. (d + 2 <= Len(s) /\ s[d + 1].kind = "blank") => s[d + 2].kind = "status"
      BY <2>2, <2>5 DEF Stream
    <3>2. d + 2 = e + 1
      BY <2>2
    <3>3. n = 0
      BY <1>6, <2>1, <2>5 DEF d
    <3> QED
      BY <2>1, <2>2, <3>1, <3>2, <3>3
  <2>6. ASSUME s[1].kind = "status" PROVE s[e].call = s[1].call
    <3>1. 1 \in 1..Len(s) /\ 1 + 1 <= Len(s) /\ 1 + 1 = 2 /\ 2 \in 1..e
      BY <1>1, <1>5, <2>1
    <3>2. s[2].kind \in {"length", "blank"} /\ s[2].call = s[1].call
      <4>1. After(s[1], s[2])
        BY <3>1 DEF Stream
      <4> QED
        BY <2>6, <4>1 DEF After
    <3>3. CASE s[2].kind = "blank"
      BY <1>5, <3>1, <3>2, <3>3
    <3>4. CASE s[2].kind = "length"
      <4>1. e # 2
        BY <2>1, <3>4
      <4>2. 2 \in 1..Len(s) /\ 2 + 1 <= Len(s) /\ 2 + 1 = 3 /\ 3 \in 1..e
        BY <1>5, <3>1, <4>1
      <4>3. After(s[2], s[3])
        BY <4>2 DEF Stream
      <4>4. s[3].kind = "blank" /\ s[3].call = s[2].call
        BY <3>4, <4>3 DEF After
      <4>5. e = 3
        BY <1>5, <4>2, <4>4
      <4> QED
        BY <3>2, <4>4, <4>5
    <3> QED
      BY <3>2, <3>3, <3>4
  <2> QED
    BY <2>1, <2>3, <2>4, <2>5, <2>6 DEF d
<1>10. Taking(s, e, n, body)
  <2> HIDE DEF e
  <2> QED
    BY <1>5, <1>7, <1>8, <1>9 DEF Taking
<1> QED
  BY <1>7, <1>10 DEF v

(* What a client leaves is a stream.  It begins with a line's end only when *)
(* the Read took a part of a body, and with the text of one only then or    *)
(* after a line torn before.                                                *)
Left(s, p, n, body) ==
  LET rest == SubSeq(s, p + 1, Len(s)) IN
  /\ Stream(rest, body)
  /\ rest # <<>> => rest[1] = s[p + 1]
  /\ (rest # <<>> /\ rest[1].kind \in {"cr", "lf"}) => n > 0 /\ n < 7
  /\ (rest # <<>> /\ rest[1].kind = "text" /\ s[1].kind \notin {"cr", "lf"}) => n > 0 /\ n < 7

(* Behind a proxy the client has at most one message to read.               *)
OneMessage(s) ==
  /\ \A i \in 1..Len(s) : s[i].kind \notin {"cr", "lf"}
  /\ \A i, j \in Blanks(s) : i = j

(* A header that begins in what was read ends there.                        *)
LEMMA WholeHeader ==
  ASSUME NEW body \in {SDP, Short}, NEW s, Stream(s, body), NEW i \in 1..Len(s),
         s[i].kind \in {"status", "length"}
  PROVE  \E j \in Blanks(s) : j > i
<1>1. /\ s \in Seq(Units) /\ Len(s) \in Nat /\ i \in Nat /\ s # <<>> /\ Len(body) \in Nat
      /\ s[Len(s)].kind \notin {"status", "length", "cr"}
      /\ \A k \in 1..Len(s) : k + 1 <= Len(s) => After(s[k], s[k + 1])
  BY Bodies DEF Stream
<1>2. \A k \in 1..Len(s) : s[k].kind \in {"status", "length"} =>
        k + 1 \in 1..Len(s) /\ k + 1 > k /\ After(s[k], s[k + 1])
  <2> SUFFICES ASSUME NEW k \in 1..Len(s), s[k].kind \in {"status", "length"}
               PROVE  k + 1 \in 1..Len(s) /\ k + 1 > k /\ After(s[k], s[k + 1])
    OBVIOUS
  <2>1. k # Len(s)
    BY <1>1
  <2>2. k + 1 <= Len(s) /\ k + 1 \in 1..Len(s) /\ k + 1 > k
    BY <1>1, <2>1
  <2> QED
    BY <1>1, <2>2
<1>3. \A k \in 1..Len(s) : s[k].kind = "length" => k + 1 \in Blanks(s) /\ k + 1 > k
  BY <1>2 DEF After, Blanks
<1>4. CASE s[i].kind = "length"
  BY <1>3, <1>4
<1>5. CASE s[i].kind = "status"
  <2>1. i + 1 \in 1..Len(s) /\ i + 1 > i /\ s[i + 1].kind \in {"length", "blank"}
    BY <1>2, <1>5 DEF After
  <2>2. CASE s[i + 1].kind = "blank"
    BY <2>1, <2>2 DEF Blanks
  <2>3. CASE s[i + 1].kind = "length"
    <3>1. i + 1 + 1 \in Blanks(s) /\ i + 1 + 1 > i
      BY <1>1, <1>3, <2>1, <2>3
    <3> QED
      BY <3>1
  <2> QED
    BY <2>1, <2>2, <2>3
<1> QED
  BY <1>4, <1>5

(* Whatever a client takes, one header or none, it leaves a stream.          *)
LEMMA WhatIsLeft ==
  ASSUME NEW body \in {SDP, Short}, NEW s, Stream(s, body), NEW e, NEW n, Taking(s, e, n, body),
         body = Short => OneMessage(s)
  PROVE  /\ \A i \in 1..(e + n) : s[i].kind = "blank" => i = e
         /\ Left(s, e + n, n, body)
<1> DEFINE p == e + n
           rest == SubSeq(s, p + 1, Len(s))
           torn == s[1].kind \in {"cr", "lf"}
<1>1. /\ s \in Seq(Units) /\ Len(s) \in Nat
      /\ e \in Nat /\ e >= 1 /\ e <= Len(s) /\ n \in Nat /\ n <= 7
      /\ p \in 0..Len(s) /\ p \in Nat
      /\ \A k \in 1..Len(s) : k + 1 <= Len(s) => After(s[k], s[k + 1])
  <2>1. e \in 1..Len(s) /\ n \in 0..7 /\ e + n <= Len(s)
    BY DEF Taking
  <2>2. s \in Seq(Units) /\ \A k \in 1..Len(s) : k + 1 <= Len(s) => After(s[k], s[k + 1])
    BY DEF Stream
  <2> QED
    BY <2>1, <2>2
<1>2. \A i \in 1..e : s[i].kind = "blank" => i = e
  BY DEF Taking
<1>3. SUFFICES /\ \A i \in 1..p : s[i].kind = "blank" => i = e
               /\ p < Len(s) => /\ s[p + 1].kind \notin {"length", "blank"}
                                /\ s[p + 1].kind \in {"cr", "lf"} => n > 0 /\ n < 7
                                /\ s[p + 1].kind = "text" /\ ~torn => n > 0 /\ n < 7
  <2>1. Stream(rest, body)
    BY <1>1, <1>3, StreamRest
  <2>2. rest # <<>> => p < Len(s) /\ rest[1] = s[p + 1]
    <3>1. Len(rest) = Len(s) - p /\ \A i \in 1..Len(s) - p : rest[i] = s[p + i]
      BY <1>1, Remainder
    <3>2. rest \in Seq(Units)
      BY <2>1 DEF Stream
    <3> HIDE DEF rest, p
    <3>3. ASSUME rest # <<>> PROVE Len(s) - p > 0
      BY <3>1, <3>2, <3>3
    <3>4. ASSUME rest # <<>> PROVE p < Len(s) /\ 1 \in 1..Len(s) - p
      BY <1>1, <3>3, <3>4
    <3> QED
      BY <3>1, <3>4
  <2> HIDE DEF rest
  <2>3. Left(s, p, n, body)
    BY <1>3, <2>1, <2>2 DEF Left, rest
  <2> QED
    BY <1>3, <2>3
<1> HIDE DEF rest
<1>4. CASE torn
  <2>1. n = 0 /\ s[e].kind = "lf" /\ p = e
    BY <1>1, <1>4 DEF Taking
  <2>2. p < Len(s) => s[p + 1].kind \in {"text", "status"}
    <3>1. p < Len(s) => p \in 1..Len(s) /\ p + 1 <= Len(s)
      BY <1>1, <2>1
    <3> QED
      BY <1>1, <2>1, <3>1 DEF After
  <2> QED
    BY <1>2, <1>4, <2>1, <2>2
<1>5. CASE ~torn /\ s[e - 1].kind = "status"
  <2>1. n = 0 /\ p = e /\ (e + 1 <= Len(s) => s[e + 1].kind = "status")
    BY <1>1, <1>5 DEF Taking
  <2> QED
    BY <1>1, <1>2, <2>1
<1>6. CASE ~torn /\ s[e - 1].kind = "length" /\ body = SDP
  <2>1. /\ n > 0 /\ e + 7 <= Len(s)
        /\ \A k \in 1..7 : s[e + k].kind = SDP[k]
        /\ e + 7 + 1 <= Len(s) => s[e + 7 + 1].kind = "status"
    BY <1>6, Bodies DEF Taking
  <2>2. \A k \in 1..7 : SDP[k] \in {"text", "cr", "lf"}
    <3>1. \A k \in 1..7 : k \in {1, 2, 3, 4, 5, 6, 7}
      OBVIOUS
    <3> QED
      BY <3>1, Bodies
  <2>3. ASSUME NEW i \in 1..p, s[i].kind = "blank" PROVE i = e
    <3>1. CASE i <= e
      BY <1>1, <1>2, <2>3, <3>1
    <3>2. CASE i > e
      <4>1. i - e \in 1..7 /\ e + (i - e) = i
        BY <1>1, <3>2
      <4>2. s[i].kind \in {"text", "cr", "lf"}
        BY <2>1, <2>2, <4>1
      <4> QED
        BY <2>3, <4>2
    <3> QED
      BY <1>1, <3>1, <3>2
  <2>4. CASE n = 7
    BY <1>1, <2>1, <2>3, <2>4
  <2>5. CASE n < 7
    <3>1. n + 1 \in 1..7 /\ e + (n + 1) = p + 1
      BY <1>1, <2>5
    <3>2. s[p + 1].kind \in {"text", "cr", "lf"}
      BY <2>1, <2>2, <3>1
    <3> QED
      BY <2>1, <2>3, <2>5, <3>2
  <2> QED
    BY <1>1, <2>4, <2>5
<1>7. CASE ~torn /\ s[e - 1].kind = "length" /\ body = Short
  <2>1. /\ n > 0 /\ s[e].kind = "blank" /\ e + 2 <= Len(s)
        /\ e + 2 + 1 <= Len(s) => s[e + 2 + 1].kind = "status"
    BY <1>7, Bodies DEF Taking
  <2>2. e \in Blanks(s) /\ \A i \in Blanks(s) : i = e
    <3>1. e \in Blanks(s)
      BY <1>1, <2>1 DEF Blanks
    <3> QED
      BY <1>7, <3>1 DEF OneMessage
  <2>3. \A i \in 1..p : s[i].kind = "blank" => i = e
    BY <1>1, <2>2 DEF Blanks
  <2>4. \A i \in 1..Len(s) : i > e => s[i].kind \notin {"status", "length", "blank"}
    <3>1. ASSUME NEW i \in 1..Len(s), i > e, s[i].kind \in {"status", "length"} PROVE FALSE
      <4>1. PICK j \in Blanks(s) : j > i
        BY <3>1, WholeHeader
      <4>2. j = e
        BY <2>2
      <4> QED
        BY <1>1, <3>1, <4>1, <4>2
    <3>2. ASSUME NEW i \in 1..Len(s), i > e, s[i].kind = "blank" PROVE FALSE
      BY <1>1, <2>2, <3>2 DEF Blanks
    <3> QED
      BY <3>1, <3>2
  <2>5. Len(s) = e + 2
    <3>1. SUFFICES ASSUME e + 2 + 1 <= Len(s) PROVE FALSE
      BY <1>1, <2>1
    <3>2. e + 2 + 1 \in 1..Len(s) /\ e + 2 + 1 > e
      BY <1>1, <3>1
    <3> QED
      BY <2>1, <2>4, <3>1, <3>2
  <2>6. n < 7
    BY <1>1, <2>5
  <2>7. p < Len(s) => p + 1 \in 1..Len(s) /\ p + 1 > e
    BY <1>1
  <2> QED
    BY <2>1, <2>3, <2>4, <2>6, <2>7
<1>8. ~torn => s[e - 1].kind \in {"status", "length"}
  BY DEF Taking
<1> QED
  BY <1>4, <1>5, <1>6, <1>7, <1>8

(* What a return does to the client's link when it takes a header that ends *)
(* at e and n units of a body.                                              *)
Rest(e, n) == SubSeq(link[1], e + n + 1, Len(link[1]))
Cut(e, n) == n > 0 /\ n < 7 /\ Rest(e, n) # <<>>
Reads(e, n) ==
  /\ Taking(link[1], e, n, BodyOn(1)) /\ e + n <= arrived[1]
  /\ link' = [link EXCEPT ![1] = Rest(e, n)]
  /\ arrived' = [arrived EXCEPT ![1] = @ - e - n]
  /\ leftover' = Cut(e, n)
  /\ tears' = IF Cut(e, n) /\ Rest(e, n)[1].kind \in {"cr", "lf"} THEN tears + 1 ELSE tears
  /\ result' = [call |-> Len(asked),
                took |-> IF link[1][1].kind = "status" THEN link[1][1].call ELSE NoAnswer]

(* Every return is such a step.                                             *)
LEMMA ReturnFact ==
  ASSUME StreamInv, Return
  PROVE  \E e, n : Reads(e, n)
<1> DEFINE s == link[1]
           a == arrived[1]
           v == SubSeq(s, 1, a)
           e == HeaderEnd(v)
<1>1. /\ a \in 0..Len(s) /\ v = Visible(1) /\ BodyOn(1) \in {SDP, Short} /\ s \in Seq(Units)
      /\ Stream(s, BodyOn(1)) /\ ContentLength = 7
  BY Facts, Bodies DEF StreamInv, StreamTypes, ClientSide, Visible
<1>2. PICK n : /\ ClientReads(s, a, n)
               /\ link' = [link EXCEPT ![1] = Rest(e, n)]
               /\ arrived' = [arrived EXCEPT ![1] = @ - e - n]
               /\ leftover' = Cut(e, n)
               /\ tears' = IF Cut(e, n) /\ Rest(e, n)[1].kind \in {"cr", "lf"}
                             THEN tears + 1 ELSE tears
  BY <1>1 DEF Return, ClientReads, Rest, Cut
<1>3. Taking(s, e, n, BodyOn(1)) /\ e + n <= a
  BY <1>1, <1>2, TakingFromStream
<1>4. v[1] = s[1]
  <2> HIDE DEF e, v
  <2>1. e \in 1..Len(s) /\ n \in 0..7
    BY <1>3 DEF Taking
  <2>2. a \in Nat /\ a <= Len(s) /\ a >= 1
    BY <1>1, <1>3, <2>1
  <2> QED
    BY <1>1, <2>2 DEF v
<1>5. result' = [call |-> Len(asked), took |-> IF s[1].kind = "status" THEN s[1].call ELSE NoAnswer]
  BY <1>1, <1>4 DEF Return, IsAnswer
<1> HIDE DEF e
<1>6. Reads(e, n)
  BY <1>2, <1>3, <1>5 DEF Reads
<1> QED
  BY <1>6

(* What a return takes is the answer the client awaits, as many calls back  *)
(* as lines were torn; it takes none only when the call before left a part. *)
LEMMA ReturnTakes ==
  ASSUME StreamInv, Return
  PROVE  /\ StreamInv'
         /\ result'.took # NoAnswer => result'.took = Len(asked) - tears
         /\ (result'.took = NoAnswer /\ tears = 0) => leftover
<1> DEFINE s == link[1]
<1>1. /\ hops' = hops /\ asked' = asked /\ answered' = answered
      /\ calling = TRUE /\ calling' = FALSE
  BY DEF Return, StreamInv, StreamTypes
<1>2. PICK e, n : Reads(e, n)
  BY ReturnFact
<1> DEFINE p == e + n
           rest == Rest(e, n)
<1>3. /\ hops \in Nat /\ Len(asked) \in Nat /\ Len(asked) > 0 /\ tears \in Nat
      /\ Awaited \in Int /\ Delivered \in Nat /\ BodyOn(1) \in {SDP, Short}
      /\ s \in Seq(Units) /\ Len(s) \in Nat
      /\ DOMAIN link = 1..(hops + 1) /\ DOMAIN arrived = 1..(hops + 1) /\ 1 \in 1..(hops + 1)
      /\ Stream(s, BodyOn(1)) /\ Covers(s, Awaited, Delivered)
  <2>1. asked \in Seq(Kinds) /\ asked # <<>>
    BY <1>1 DEF StreamInv, StreamTypes
  <2>2. Len(asked) > 0
    BY <2>1
  <2> QED
    BY <2>2, Facts DEF StreamInv, StreamTypes, ClientSide
<1>4. /\ e \in 1..Len(s) /\ n \in 0..7 /\ p \in 1..Len(s) /\ p \in 0..Len(s) /\ e \in 1..p
      /\ s # <<>> /\ p <= arrived[1] /\ p = e + n
  <2>1. e \in 1..Len(s) /\ n \in 0..7 /\ e + n <= Len(s) /\ e + n <= arrived[1]
    BY <1>2 DEF Reads, Taking
  <2> QED
    BY <1>3, <2>1
<1>t. Torn <=> s[1].kind \in {"cr", "lf"}
  BY <1>4 DEF Torn
<1>5. Awaited = IF Torn THEN Len(asked) - tears + 1 ELSE Len(asked) - tears
  BY <1>1, <1>3 DEF Awaited, Returned
<1>6. BodyOn(1) = Short => OneMessage(s)
  <2> SUFFICES ASSUME BodyOn(1) = Short PROVE OneMessage(s)
    OBVIOUS
  <2>1. hops > 0
    BY <1>3, Bodies DEF BodyOn
  <2>2. tears = 0 /\ \A i \in 1..Len(s) : s[i].kind \notin {"cr", "lf"}
    BY <2>1 DEF StreamInv, ClientSide
  <2>3. 1 \in 1..Len(s)
    BY <1>3, <1>4
  <2>4. Awaited = Len(asked)
    BY <1>3, <1>5, <1>t, <2>2, <2>3
  <2>5. Delivered <= Awaited
    <3>1. answered <= Len(asked) /\ answered \in Nat
      BY Facts DEF StreamInv, Upstream
    <3> QED
      BY <1>3, <2>4, <3>1 DEF Delivered
  <2>6. \A i \in Blanks(s) : s[i].call = Awaited /\ i \in Nat
    <3>1. \A i \in Blanks(s) : s[i].call \in Awaited..Delivered
      BY <1>3 DEF Covers
    <3> QED
      BY <1>3, <2>5, <3>1 DEF Blanks
  <2>7. \A i, j \in Blanks(s) : ~(i < j)
    BY <1>3, <2>6 DEF Covers
  <2>8. \A i, j \in Blanks(s) : i = j
    BY <2>6, <2>7
  <2> QED
    BY <2>2, <2>8 DEF OneMessage
<1> HIDE DEF s, p
<1>7. Taking(s, e, n, BodyOn(1))
  BY <1>2 DEF Reads, s
<1>8. /\ \A i \in 1..p : s[i].kind = "blank" => i = e
      /\ Left(s, p, n, BodyOn(1))
  BY <1>3, <1>6, <1>7, WhatIsLeft DEF p
<1>9. /\ rest \in Seq(Units) /\ Len(rest) = Len(s) - p
      /\ \A i \in 1..Len(s) - p : rest[i] = s[p + i]
      /\ rest = SubSeq(s, p + 1, Len(s))
  <2>1. rest = SubSeq(s, p + 1, Len(s))
    BY DEF Rest, s, p
  <2> QED
    BY <1>3, <1>4, <2>1, Remainder
<1>10. /\ Stream(rest, BodyOn(1))
       /\ (rest # <<>> /\ rest[1].kind \in {"cr", "lf"}) => n > 0 /\ n < 7
       /\ (rest # <<>> /\ rest[1].kind = "text" /\ ~Torn) => n > 0 /\ n < 7
  BY <1>8, <1>9, <1>t DEF Left
<1>11. /\ Torn => n = 0 /\ s[e].kind = "lf"
       /\ ~Torn => s[e].kind = "blank" /\ (s[1].kind = "status" => s[e].call = s[1].call)
  BY <1>7, <1>t DEF Taking
<1> HIDE DEF rest
<1>12. /\ link' = [link EXCEPT ![1] = rest]
       /\ arrived' = [arrived EXCEPT ![1] = @ - e - n]
       /\ leftover' = (n > 0 /\ n < 7 /\ rest # <<>>)
       /\ tears' = IF (n > 0 /\ n < 7 /\ rest # <<>>) /\ rest[1].kind \in {"cr", "lf"}
                     THEN tears + 1 ELSE tears
       /\ result' = [call |-> Len(asked),
                     took |-> IF s[1].kind = "status" THEN s[1].call ELSE NoAnswer]
  BY <1>2 DEF Reads, Cut, rest, s
<1>13. /\ DOMAIN link' = 1..(hops + 1) /\ DOMAIN arrived' = 1..(hops + 1)
       /\ link'[1] = rest /\ arrived'[1] = arrived[1] - e - n
       /\ \A i \in 1..(hops + 1) : i # 1 => link'[i] = link[i] /\ arrived'[i] = arrived[i]
  BY <1>3, <1>12
<1>14. Torn' <=> (rest # <<>> /\ rest[1].kind \in {"cr", "lf"})
  BY <1>13 DEF Torn
<1>15. tears' = IF Torn' THEN tears + 1 ELSE tears
  BY <1>10, <1>12, <1>14
<1>16. StreamTypes'
  <2>1. ASSUME NEW i \in 1..(hops + 1) PROVE arrived'[i] \in 0..Len(link'[i])
    <3>1. arrived[i] \in 0..Len(link[i])
      BY DEF StreamInv, StreamTypes
    <3>2. CASE i = 1
      <4>1. arrived[1] \in 0..Len(s)
        BY <3>1, <3>2 DEF s
      <4>2. arrived[1] - e - n \in 0..Len(s) - p
        BY <1>3, <1>4, <4>1
      <4> QED
        BY <1>9, <1>13, <3>2, <4>2
    <3>3. CASE i # 1
      BY <1>13, <3>1, <3>3
    <3> QED
      BY <3>2, <3>3
  <2>2. tears' \in Nat /\ leftover' \in BOOLEAN
    BY <1>3, <1>12, <1>15
  <2> QED
    BY <1>1, <1>13, <2>1, <2>2 DEF StreamInv, StreamTypes
<1>17. OnTheWay' = OnTheWay /\ Delivered' = Delivered /\ Upstream' /\ BodyOn(1)' = BodyOn(1)
  <2>1. \A i \in 2..(hops + 1) : i \in 1..(hops + 1) /\ i # 1 /\ link'[i] = link[i]
    BY <1>3, <1>13
  <2>2. OnTheWay' = OnTheWay
    BY <1>1, <2>1 DEF OnTheWay
  <2>3. \A i \in OnTheWay : link'[i] = link[i] /\ BodyOn(i)' = BodyOn(i)
    BY <1>1, <2>1 DEF OnTheWay, BodyOn
  <2> QED
    BY <1>1, <2>2, <2>3 DEF Delivered, Upstream, StreamInv, BodyOn
<1>18. Awaited' = Len(asked) - tears + 1
  <2>1. Returned' = Len(asked)
    BY <1>1, <1>3 DEF Returned
  <2>2. Awaited' = Len(asked) + (IF Torn' THEN 1 ELSE 0) - tears' + 1
    BY <2>1 DEF Awaited
  <2> QED
    BY <1>3, <1>15, <2>2
<1>19. /\ Covers(rest, Awaited', Delivered)
       /\ s[1].kind = "status" => s[1].call = Len(asked) - tears
  <2>1. CASE Torn
    <3>1. \A i \in 1..p : s[i].kind # "blank"
      BY <1>8, <1>11, <2>1
    <3>2. Covers(rest, Awaited, Delivered)
      BY <1>3, <1>4, <1>9, <3>1, CoversRest
    <3>3. Awaited' = Awaited
      BY <1>5, <1>18, <2>1
    <3> QED
      BY <1>t, <2>1, <3>2, <3>3
  <2>2. CASE ~Torn
    <3>1. s[e].call = Awaited /\ Covers(rest, Awaited + 1, Delivered)
      BY <1>3, <1>4, <1>8, <1>9, <1>11, <2>2, CoversRest
    <3>2. Awaited = Len(asked) - tears /\ Awaited' = Awaited + 1
      BY <1>3, <1>5, <1>18, <2>2
    <3> QED
      BY <1>11, <2>2, <3>1, <3>2
  <2> QED
    BY <2>1, <2>2
<1>20. ClientSide'
  <2>1. hops > 0 => tears' = 0 /\ \A i \in 1..Len(rest) : rest[i].kind \notin {"cr", "lf"}
    <3> SUFFICES ASSUME hops > 0
                 PROVE  tears' = 0 /\ \A i \in 1..Len(rest) : rest[i].kind \notin {"cr", "lf"}
      OBVIOUS
    <3>1. tears = 0 /\ \A i \in 1..Len(s) : s[i].kind \notin {"cr", "lf"}
      BY DEF StreamInv, ClientSide, s
    <3>2. \A i \in 1..Len(rest) : p + i \in 1..Len(s) /\ rest[i] = s[p + i]
      BY <1>3, <1>4, <1>9
    <3>3. \A i \in 1..Len(rest) : rest[i].kind \notin {"cr", "lf"}
      BY <3>1, <3>2
    <3>4. rest # <<>> => 1 \in 1..Len(rest)
      BY <1>9
    <3> QED
      BY <1>14, <1>15, <3>1, <3>3, <3>4
  <2>2. Torn' => tears' > 0
    BY <1>3, <1>15
  <2>3. (tears' = 0 /\ rest # <<>> /\ rest[1].kind = "text") => leftover'
    <3>1. tears' = 0 => tears = 0
      BY <1>3, <1>15
    <3>2. tears = 0 => ~Torn
      BY DEF StreamInv, ClientSide
    <3> QED
      BY <1>10, <1>12, <3>1, <3>2
  <2> QED
    BY <1>1, <1>10, <1>13, <1>17, <1>19, <2>1, <2>2, <2>3 DEF ClientSide
<1>21. /\ result'.call = Len(asked)
       /\ result'.took = IF s[1].kind = "status" THEN s[1].call ELSE NoAnswer
  BY <1>12
<1>22. result'.took # NoAnswer => result'.took = Len(asked) - tears
  BY <1>19, <1>21
<1>23. AnswersInStep'
  <2>1. tears' >= tears /\ tears' \in Nat
    BY <1>3, <1>15
  <2>2. ASSUME result'.took # NoAnswer
        PROVE  result'.took <= result'.call /\ result'.call - result'.took <= tears'
    BY <1>3, <1>21, <1>22, <2>1, <2>2
  <2> QED
    BY <2>2 DEF AnswersInStep
<1>24. (result'.took = NoAnswer /\ tears = 0) => leftover
  <2> SUFFICES ASSUME result'.took = NoAnswer, tears = 0 PROVE leftover
    OBVIOUS
  <2>1. ~Torn
    BY DEF StreamInv, ClientSide
  <2>2. s[1].kind # "status"
    BY <1>3, <1>19, <1>21 DEF NoAnswer
  <2>3. s[1] \in Units /\ s[1].kind \notin {"length", "blank"}
    <3>1. 1 \in 1..Len(s) /\ s # <<>>
      BY <1>3, <1>4 DEF s
    <3> QED
      BY <1>3, <3>1 DEF Stream
  <2>4. s[1].kind = "text" /\ s # <<>>
    BY <1>4, <1>t, <2>1, <2>2, <2>3 DEF Units, UnitKinds
  <2> QED
    BY <2>4 DEF StreamInv, ClientSide, s
<1> QED
  BY <1>16, <1>17, <1>20, <1>22, <1>23, <1>24 DEF StreamInv

-----------------------------------------------------------------------------
(* The invariant holds in every state.                                      *)
LEMMA StreamInvHolds == Spec => []StreamInv
<1>1. Init => StreamInv
  BY Initially
<1>2. StreamInv /\ [Next]_vars => StreamInv'
  <2> SUFFICES ASSUME StreamInv, [Next]_vars PROVE StreamInv'
    OBVIOUS
  <2>1. ASSUME NEW kind \in Kinds, Call(kind) PROVE StreamInv'
    BY <2>1, CallKeeps
  <2>2. CASE Answer
    BY <2>2, AnswerKeeps
  <2>3. CASE Return
    BY <2>3, ReturnTakes
  <2>4. ASSUME NEW i \in 1..(hops + 1), Arrive(i) PROVE StreamInv'
    BY <2>4, ArriveKeeps
  <2>5. ASSUME NEW i \in 1..hops, Relay(i) PROVE StreamInv'
    BY <2>5, RelayKeeps
  <2>6. CASE UNCHANGED vars
    BY <2>6 DEF vars, StreamInv, StreamTypes, Upstream, ClientSide, AnswersInStep, BodyOn, Torn,
                OnTheWay, Delivered, Returned, Awaited
  <2> QED
    BY <2>1, <2>2, <2>3, <2>4, <2>5, <2>6 DEF Next
<1> QED
  BY <1>1, <1>2, PTL DEF Spec

(* The answer that a call takes for its own is its own, however TCP cut the *)
(* bytes and through any number of proxies, but for one answer of alignment *)
(* for each Read that ended right before a line's end.                      *)
THEOREM AnswersStayInStep == Spec => []AnswersInStep
BY StreamInvHolds, PTL DEF StreamInv

(* Only a return changes the result.                                        *)
LEMMA OnlyReturns ==
  ASSUME [Next]_vars, result' # result
  PROVE  Return
BY DEF Next, vars, Call, Answer, Arrive, Relay, history

(* As long as no line was torn, a call without an answer follows a Read     *)
(* that left a part of a body, and the call after it has its answer again.  *)
THEOREM ShortReadsCostOneCall == Spec => ShortReadCostsOneCall
<1>1. StreamInv /\ [Next]_vars
        => [(result' # result /\ result'.took = NoAnswer /\ tears = 0) => leftover]_vars
  BY OnlyReturns, ReturnTakes
<1> QED
  BY <1>1, StreamInvHolds, PTL DEF Spec, ShortReadCostsOneCall

(* A call that takes an answer takes the one of as many calls before as     *)
(* Reads have ended right before a line's end: never fewer, never more.     *)
EachTearCostsOne ==
  [][(result' # result /\ result'.took # NoAnswer) => result'.took = Len(asked) - tears]_vars

(* The price of a Read that ends right before a line's end is exact: from   *)
(* then on each call takes the answer of the call before, and so on.        *)
THEOREM EachTearCostsOneAnswer == Spec => EachTearCostsOne
<1>1. StreamInv /\ [Next]_vars
        => [(result' # result /\ result'.took # NoAnswer) => result'.took = Len(asked) - tears]_vars
  BY OnlyReturns, ReturnTakes
<1> QED
  BY <1>1, StreamInvHolds, PTL DEF Spec, EachTearCostsOne

=============================================================================
