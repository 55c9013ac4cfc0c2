--------------------------- MODULE MessageStream ---------------------------
(***************************************************************************)
(* The bytes below whole messages: the answers a client reads from its     *)
(* connection, straight from the server or through proxies in a row.       *)
(* All readers read lines up to an empty one and hand what they collected  *)
(* to ParseMessage, but only the proxy's reads the whole body (ReadFull);  *)
(* client and server take what one Read returns.  ParseMessage keeps the   *)
(* first line of a body, which is what a proxy sends on, under the         *)
(* Content-Length of the whole.  Requests carry no body and arrive whole.  *)
(* A header line is one unit; a body is divided where readers tell the     *)
(* difference: inside a line, before and inside its end.                   *)
(***************************************************************************)
EXTENDS Naturals, Sequences, FiniteSetsExt

CONSTANTS
  MaxCalls,  \* bound: calls of the client
  MaxHops    \* bound: proxies between client and server

ASSUME BoundsAssumption == MaxCalls \in Nat /\ MaxHops \in Nat

Kinds == {"OPTIONS", "DESCRIBE"}

(* A session description: a first line of two units, and another line.     *)
SDP == <<"text", "text", "cr", "lf", "text", "cr", "lf">>

(* Content-Length; mutant: the last byte is not counted.                   *)
LengthToLastCR == Len(SDP) - 1
ContentLength == Len(SDP)

VARIABLES
  hops,      \* proxies between client and server
  link,      \* link[1] ends at the client, link[hops + 1] starts at the server
  arrived,   \* how many units of each link its reader can see
  asked,     \* kinds of the requests sent
  answered,  \* how many of them the server has answered
  calling,   \* the client is inside sendRequest
  result,    \* history: the latest call, and the answer it took for its own
  leftover,  \* history: the Read of the call before left a part of the body
  tears      \* history: Reads so far that left the end of a line

vars == <<hops, link, arrived, asked, answered, calling, result, leftover, tears>>
history == <<result, leftover, tears>>

Unit(kind, call) == [kind |-> kind, call |-> call]
NoAnswer == 0

Init ==
  /\ hops \in 0..MaxHops
  /\ link = [i \in 1..(hops + 1) |-> <<>>]
  /\ arrived = [i \in 1..(hops + 1) |-> 0]
  /\ asked = <<>> /\ answered = 0 /\ calling = FALSE
  /\ result = [call |-> 0, took |-> NoAnswer]
  /\ leftover = FALSE /\ tears = 0

-----------------------------------------------------------------------------
(* Message.String for the answer to one call.                              *)
Message(call, body) ==
  LET units == IF body = <<>> THEN <<"status", "blank">>
                              ELSE <<"status", "length", "blank">> \o body
  IN [i \in DOMAIN units |-> Unit(units[i], call)]

(* What a reader can see, cut into lines.                                  *)
Visible(i) == SubSeq(link[i], 1, arrived[i])
EndsLine(u) == u.kind \in {"status", "length", "blank", "lf"}

(* The line that ends at position j is empty once \r and \n are trimmed.   *)
EmptyLineAt(s, j) ==
  /\ EndsLine(s[j])
  /\ \A i \in 1..j : (\A m \in i..(j - 1) : ~EndsLine(s[m]))
                       => s[i].kind \in {"cr", "lf", "blank"}

EmptyLines(s) == {j \in DOMAIN s : EmptyLineAt(s, j)}
HeaderEnd(s) == Min(EmptyLines(s))
SaysLength(s) == \E i \in 1..HeaderEnd(s) : s[i].kind = "length"

(* ParseMessage: a message whose first line does not start with RTSP/ is   *)
(* a request or an error, neither of which answers anything; of the body   *)
(* the first line is kept.                                                 *)
IsAnswer(s) == s[1].kind = "status"
FirstLine(body) ==
  SubSeq(body, 1, Min({i \in DOMAIN body : body[i] = "cr"} \cup {Len(body) + 1}) - 1)

(* What one Read returns of a body: what there is, if there is anything.   *)
(* Mutant: the client insists on the whole body.                           *)
ReadWhole(there) == {n \in {ContentLength} : n <= there}
ReadOnce(there) == {n \in {Min({there, ContentLength})} : n > 0}

(* io.ReadFull, in the proxy.                                              *)
ReadFull(there) == {n \in {ContentLength} : n <= there}

(* The client reads a body when a header it read says so, whatever the     *)
(* first line was; mutant: it looks at the first line before.              *)
BodyOfAnswer(s) ==
  IF SaysLength(s) /\ IsAnswer(s) THEN ReadOnce(Len(s) - HeaderEnd(s)) ELSE {0}
BodyTaken(s) == IF SaysLength(s) THEN ReadOnce(Len(s) - HeaderEnd(s)) ELSE {0}

-----------------------------------------------------------------------------
(* sendRequest writes and flushes its request.                             *)
Call(kind) ==
  /\ ~calling /\ Len(asked) < MaxCalls
  /\ calling' = TRUE /\ asked' = Append(asked, kind)
  /\ UNCHANGED <<hops, link, arrived, answered, history>>

(* The server handles one request after the other; a proxy passes the next *)
(* one on when it has delivered the answer to the one before.              *)
Answer ==
  /\ answered < Len(asked)
  /\ \A i \in 2..(hops + 1) : link[i] = <<>>
  /\ answered' = answered + 1
  /\ link' = [link EXCEPT ![hops + 1] =
                @ \o Message(answered', IF asked[answered'] = "DESCRIBE" THEN SDP ELSE <<>>)]
  /\ UNCHANGED <<hops, arrived, asked, calling, history>>

(* TCP delivers bytes in order, in segments of any size.                   *)
Arrive(i) ==
  /\ arrived[i] < Len(link[i])
  /\ arrived' = [arrived EXCEPT ![i] = @ + 1]
  /\ UNCHANGED <<hops, link, asked, answered, calling, history>>

(* A proxy reads an answer and writes it to its client: status and headers *)
(* as they were, the body as ParseMessage left it.                         *)
Relay(i) ==
  LET s == Visible(i + 1) IN
  /\ EmptyLines(s) # {}
  /\ \E n \in IF SaysLength(s) THEN ReadFull(Len(s) - HeaderEnd(s)) ELSE {0} :
       LET body == SubSeq(s, HeaderEnd(s) + 1, HeaderEnd(s) + n)
       IN /\ link' = [link EXCEPT
                ![i] = @ \o Message(s[1].call, FirstLine([j \in DOMAIN body |-> body[j].kind])),
                ![i + 1] = SubSeq(@, HeaderEnd(s) + n + 1, Len(@))]
          /\ arrived' = [arrived EXCEPT ![i + 1] = @ - HeaderEnd(s) - n]
  /\ UNCHANGED <<hops, asked, answered, calling, history>>

(* readResponse, and with it the call: what it read is consumed whether or *)
(* not it is an answer.                                                    *)
Return ==
  LET s == Visible(1) IN
  /\ calling /\ EmptyLines(s) # {}
  /\ \E n \in BodyTaken(s) :
       LET rest == SubSeq(link[1], HeaderEnd(s) + n + 1, Len(link[1]))
           short == n > 0 /\ n < ContentLength /\ rest # <<>>
       IN /\ link' = [link EXCEPT ![1] = rest]
          /\ arrived' = [arrived EXCEPT ![1] = @ - HeaderEnd(s) - n]
          /\ leftover' = short
          /\ tears' = IF short /\ rest[1].kind \in {"cr", "lf"} THEN tears + 1 ELSE tears
  /\ result' = [call |-> Len(asked), took |-> IF IsAnswer(s) THEN s[1].call ELSE NoAnswer]
  /\ calling' = FALSE
  /\ UNCHANGED <<hops, asked, answered>>

-----------------------------------------------------------------------------
Next ==
  \/ \E kind \in Kinds : Call(kind)
  \/ Answer \/ Return
  \/ \E i \in 1..(hops + 1) : Arrive(i)
  \/ \E i \in 1..hops : Relay(i)

Spec == Init /\ [][Next]_vars

(* Programs run and TCP delivers; the application need not call.           *)
FairSpec ==
  /\ Spec /\ WF_vars(Answer) /\ WF_vars(Return)
  /\ WF_vars(\E i \in 1..(hops + 1) : Arrive(i))
  /\ WF_vars(\E i \in 1..hops : Relay(i))

-----------------------------------------------------------------------------
(* "发送请求并接收响应" (send the request and receive the response),           *)
(* client.go:343: the answer a call takes for its own is its own, however   *)
(* the bytes were cut, unless a Read once ended right before a line's end.  *)
(* Each such Read costs the client one answer of alignment, no more.        *)
AnswersInStep ==
  result.took # NoAnswer => result.took <= result.call /\ result.call - result.took <= tears

(* A body that was read in part costs the next call, and no other one.      *)
ShortReadCostsOneCall ==
  [][(result' # result /\ result'.took = NoAnswer /\ tears = 0) => leftover]_vars

(* Every call returns, directly and through a proxy.  (Behind two proxies a *)
(* DESCRIBE waits for ever: the second one waits for the body the first one *)
(* has shortened.)                                                          *)
CallsReturn == (hops <= 1 /\ calling) ~> ~calling
=============================================================================
