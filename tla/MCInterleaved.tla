---------------------------- MODULE MCInterleaved ----------------------------
(* Every struct with each field empty or set, tricky where that matters,    *)
(* and every header of at most three parts over the tokens that interact;   *)
(* packets with each flag and fields within and beyond their bits, among    *)
(* them a CC that four bits cannot hold and lists shorter and longer than it.*)
EXTENDS Interleaved

CONSTANTS Plain, Number

MCOrigins ==
  {t \in [type : Types, unicast : BOOLEAN, multicast : BOOLEAN,
          param : [Params -> {Plain, Number, Tricky, Empty}]] :
     /\ t.param["ttl"] \in {Number, Empty}
     /\ t.param["client_port"] \in {Tricky, Empty}
     /\ t.param["destination"] \in {Plain, Tricky, Empty}
     /\ \A p \in {"server_port", "ssrc", "mode", "interleaved"} :
          t.param[p] \in {Plain, Empty}}

MCParts ==
  [token : {"RTP/AVP", "RTP/AVP/TCP", "TCP", "unicast", "multicast"}, value : {Empty}]
    \cup [token : {"mode", "destination"}, value : {Plain, Tricky, Empty}]
    \cup [token : {"ttl"}, value : {Plain, Number}]

MCHeaders == UNION {[1..n -> MCParts] : n \in 0..3}

Packet(version, flag, cc, csrc, payloadType) ==
  [version |-> version, padding |-> flag = "padding", extension |-> flag = "extension",
   cc |-> cc, marker |-> flag = "marker", payloadType |-> payloadType, csrc |-> csrc,
   payload |-> <<7>>]

MCPackets ==
  {Packet(2, flag, 0, <<>>, 96) : flag \in {"none", "padding", "extension", "marker"}}
    \cup {Packet(2, "none", 2, <<1, 2>>, 224), Packet(2, "none", 2, <<>>, 96),
          Packet(6, "none", 0, <<1>>, 0), Packet(2, "none", 17, <<1>>, 0)}
=============================================================================
