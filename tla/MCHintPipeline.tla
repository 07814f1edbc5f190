--------------------------- MODULE MCHintPipeline ---------------------------
(* Model values for HintPipeline: two games of version v1 in two batches. *)
EXTENDS HintPipeline, TLC

CONSTANTS g1, g2, b1, b2, v1, o1

MCVersionOf == g1 :> v1 @@ g2 :> v1
MCRecordsOf == b1 :> <<g1>> @@ b2 :> <<Other, g2>>
MCRequests == {b1, b2}
=============================================================================
