---------------------------- MODULE MCRTSPClient ----------------------------
(* Two clients that call in any order, a SETUP for each, and ports for one   *)
(* session; and one connection, of a client or of another peer, to a server  *)
(* that is administered. The program added the stream the URLs name.         *)
EXTENDS RTSPClient, TLC

MCOnePair == [start |-> 1, end |-> 2]
MCSymmetry == Permutations(Sessions) \cup Permutations(Conns)
=============================================================================
