------------------------- MODULE MCMessageDelivery -------------------------
(* MessageDelivery for TLC: how many texts each device sends. *)
EXTENDS MessageDelivery, TLC

CONSTANTS a, b
MCTexts == a :> 2 @@ b :> 1
=============================================================================
