---------------------------- MODULE CommitmentPath ----------------------------
(***************************************************************************)
(* What the tracked submissions promise to whoever reads their lifecycles: *)
(* each starts submitted, every change is a legal transition, and a        *)
(* terminal stage is never left.  One slot status may move several at      *)
(* once.  The components that hold a table of submissions implement this.  *)
(***************************************************************************)
EXTENDS Commitment

CONSTANT Ids
VARIABLE stages         \* the lifecycle stage of every submission

Init == stages = [id \in Ids |-> "submitted"]

Next ==
    /\ stages' \in [Ids -> Stage]
    /\ \A id \in Ids : \/ stages'[id] = stages[id]
                       \/ CanTransitionTo(stages[id], stages'[id])

Spec == Init /\ [][Next]_stages

===============================================================================
