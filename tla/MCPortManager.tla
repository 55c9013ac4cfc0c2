---------------------------- MODULE MCPortManager ----------------------------
(* Two callers and four ports: two pairs fit unless other programs hold some;*)
(* the second range is shifted by one so that its pairs straddle the pairs  *)
(* of the first, the third is too short for a pair and the last is invalid. *)
EXTENDS PortManager

MCInitialRange == [start |-> 1, end |-> 4]
MCNewRanges == {MCInitialRange, [start |-> 2, end |-> 4],
                [start |-> 3, end |-> 3], [start |-> 4, end |-> 2]}
=============================================================================
