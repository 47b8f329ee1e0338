-------------------------------- MODULE MCSlots --------------------------------
(* Chains for the model checker: a fork and a skipped slot, a deep fork at *)
(* the edge of the window, and a straight chain with a skipped slot.       *)
EXTENDS SlotHealth, TLC

MCChains == {1 :> 0 @@ 2 :> 1 @@ 3 :> 1 @@ 5 :> 3,
             1 :> 0 @@ 2 :> 1 @@ 3 :> 2 @@ 4 :> 1 @@ 5 :> 3,
             1 :> 0 @@ 2 :> 1 @@ 4 :> 2 @@ 5 :> 4}

===============================================================================
