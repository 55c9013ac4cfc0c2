------------------------------ MODULE Transport ------------------------------
(***************************************************************************)
(* rtspProtocon/protocol.go: the Transport header.  A header is the        *)
(* sequence of its parts between semicolons; a part is a token and a value *)
(* (`client_port' and the text after its equals sign).  The loop of        *)
(* ParseTransport takes one part at a time and applies the first of its    *)
(* tests that finds its pattern anywhere in the part, value included.      *)
(***************************************************************************)
EXTENDS Naturals, Sequences

CONSTANTS
  Values,    \* what a parameter may be set to
  Numbers,   \* those that Atoi accepts
  Tricky,    \* one that contains the text "unicast"
  Empty,     \* the empty string
  Headers,   \* headers a peer may send
  Origins    \* Transport structs a program may print

Types == {"RTP", "UDP", "TCP", "Interleaved"}
Params == {"client_port", "server_port", "ssrc", "mode", "ttl", "destination", "interleaved"}
Flags == {"unicast", "multicast"}
Profiles == {"RTP/AVP", "RTP/AVPF", "RTP/AVP/TCP", "UDP", "TCP"}

Parts == [token : Params \cup Flags \cup Profiles, value : Values \cup {Empty}]
Transports == [type : Types, unicast : BOOLEAN, multicast : BOOLEAN,
               param : [Params -> Values \cup {Empty}]]

ASSUME TransportAssumption ==
  /\ Numbers \subseteq Values /\ Tricky \in Values \ Numbers /\ Empty \notin Values
  /\ Headers \subseteq Seq(Parts)
  /\ Origins \subseteq Transports
  /\ \A t \in Origins : t.param["ttl"] \in Numbers \cup {Empty}  \* TTL is an int

-----------------------------------------------------------------------------
(* Transport.String; a type prints its profile, an empty field nothing.    *)
ProfileOf == [t \in Types |-> CASE t = "RTP" -> "RTP/AVP"
                                [] t = "Interleaved" -> "RTP/AVP/TCP"
                                [] OTHER -> t]

FlagParts(t) ==
  CASE t.unicast -> <<[token |-> "unicast", value |-> Empty]>>
    [] ~t.unicast /\ t.multicast -> <<[token |-> "multicast", value |-> Empty]>>
    [] OTHER -> <<>>

(* A parameter is printed if it is set.                                    *)
Printed(t, p) ==
  IF t.param[p] = Empty THEN <<>> ELSE <<[token |-> p, value |-> t.param[p]]>>

(* Mutant: the SSRC is not printed.                                        *)
PartsWithoutSsrc(t) ==
  Printed(t, "client_port") \o Printed(t, "server_port") \o Printed(t, "mode")
    \o Printed(t, "ttl") \o Printed(t, "destination") \o Printed(t, "interleaved")
ParamParts(t) ==
  Printed(t, "client_port") \o Printed(t, "server_port") \o Printed(t, "ssrc")
    \o Printed(t, "mode") \o Printed(t, "ttl") \o Printed(t, "destination")
    \o Printed(t, "interleaved")

String(t) ==
  <<[token |-> ProfileOf[t.type], value |-> Empty]>> \o FlagParts(t) \o ParamParts(t)

-----------------------------------------------------------------------------
(* The tests of ParseTransport, in their order in the code.                *)
Tests == <<"RTP/AVP", "RTP/AVPF", "RTP/AVP/TCP", "client_port", "server_port", "ssrc",
           "mode", "unicast", "multicast", "ttl", "destination", "interleaved">>

(* strings.Contains(part, pattern), for the patterns of the tests. *)
Contains(part, pattern) ==
  \/ pattern = part.token
  \/ pattern = "RTP/AVP" /\ part.token \in {"RTP/AVPF", "RTP/AVP/TCP"}
  \/ pattern = "unicast" /\ part.value = Tricky

FirstMatch(part, i) ==
  /\ Contains(part, Tests[i])
  /\ \A j \in 1..(i - 1) : ~Contains(part, Tests[j])

NoMatch(part) == \A i \in 1..Len(Tests) : ~Contains(part, Tests[i])

VARIABLES
  origin,  \* history: the struct that was printed, or the header a peer sent
  rest,    \* parts still to be looked at
  parsed   \* the *Transport being filled in

vars == <<origin, rest, parsed>>

Default == [type |-> "RTP", unicast |-> TRUE, multicast |-> FALSE,
            param |-> [p \in Params |-> Empty]]

Init ==
  /\ \/ \E t \in Origins : origin = [kind |-> "printed", from |-> t] /\ rest = String(t)
     \/ \E h \in Headers : origin = [kind |-> "received", from |-> h] /\ rest = h
  /\ parsed = Default

(* The assignments of the flag branches.                                    *)
SetFlag(flag) ==
  parsed' = [parsed EXCEPT !.unicast = flag = "unicast", !.multicast = flag = "multicast"]

(* Those of the parameter branches.                                         *)
SetParam(p, value) ==
  parsed' = IF p = "ttl" /\ value \notin Numbers
              THEN parsed
              ELSE [parsed EXCEPT !.param[p] = value]

(* The body of the i-th branch. *)
Apply(i, part) ==
  \/ /\ Tests[i] \in Profiles
     /\ parsed' = [parsed EXCEPT !.type =
                     IF Tests[i] = "RTP/AVP/TCP" THEN "Interleaved" ELSE "RTP"]
  \/ Tests[i] \in Flags /\ SetFlag(Tests[i])
  \/ Tests[i] \in Params /\ SetParam(Tests[i], part.value)

ParsePart ==
  /\ rest # <<>>
  /\ rest' = Tail(rest)
  /\ \/ \E i \in 1..Len(Tests) : FirstMatch(Head(rest), i) /\ Apply(i, Head(rest))
     \/ NoMatch(Head(rest)) /\ UNCHANGED parsed
  /\ UNCHANGED origin

Next == ParsePart
Spec == Init /\ [][Next]_vars

-----------------------------------------------------------------------------
IsTCPTransport(t) == t.type \in {"Interleaved", "TCP"}

(* No header, printed by this code or sent by a peer, is ever parsed into a *)
(* TCP transport, because the test for RTP/AVP finds RTP/AVP/TCP first: the *)
(* branches of server.go:284 and client.go:195 that ask IsTCPTransport of a *)
(* parsed header take their UDP side, and what lies behind the other one is *)
(* dead code.                                                               *)
NeverTCP == ~IsTCPTransport(parsed)

(* README: "**TCP Interleaved传输模式支持**"; tcp_examples.go parses such a header as *)
(* "TCP Interleaved传输头".  A header whose profile is RTP/AVP/TCP, alone, is    *)
(* recognised as a TCP transport once it is parsed.                         *)
TCPRecognised ==
  (/\ rest = <<>> /\ origin.kind = "received" /\ origin.from # <<>>
   /\ Head(origin.from).token = "RTP/AVP/TCP"
   /\ \A i \in 2..Len(origin.from) : origin.from[i].token \notin Profiles)
     => IsTCPTransport(parsed)

(* Every header leaves a transport that is either unicast or multicast.     *)
OneCast == parsed.unicast # parsed.multicast

(* The parts a flag test catches before the test of their own parameter.    *)
Caught(part) == part.value = Tricky /\ part.token \in {"ttl", "destination", "interleaved"}

(* A transport of type RTP that is unicast or multicast, and no part of     *)
(* which a flag test catches, comes back from the wire as it was sent.      *)
Survives(t) ==
  /\ t.type = "RTP" /\ t.unicast # t.multicast
  /\ \A p \in Params : ~Caught([token |-> p, value |-> t.param[p]])

RoundTrip ==
  (rest = <<>> /\ origin.kind = "printed" /\ Survives(origin.from))
    => parsed = origin.from
=============================================================================
