---------------------------- MODULE MCTwentyFlush ----------------------------
(* A model-checking instance of TwentyFlush: three deliveries about one       *)
(* person, of one, two and no activities; two do not fit into one batch.   *)
EXTENDS TwentyFlush, TLC

CONSTANTS d1, d3, d4, p1

WhoOne == [d \in TwentyDeliveries |-> p1]
MilestonesUpToTwo == (d1 :> 1 @@ d3 :> 2 @@ d4 :> 0)
=============================================================================
