------------------------------ MODULE Commitment ------------------------------
(***************************************************************************)
(* The commitment vocabulary shared by every component: the stages of one  *)
(* submission's lifecycle, the statuses the slot stream reports, and the   *)
(* two relations between them.  Nothing here has state.                    *)
(***************************************************************************)
EXTENDS Naturals

CONSTANT NoSlot         \* no slot known (None)

Stage == {"submitted", "processed", "confirmed", "finalized",
          "failed", "expired", "dropped"}

IsTerminal(stage) == stage \in {"finalized", "failed", "expired", "dropped"}

(* Mutant of CanTransitionTo: a landing may fall back.                     *)
CanTransitionBack(from, to) ==
    \/ from = "submitted" /\ to \in Stage \ {"submitted"}
    \/ from = "processed" /\ to \in {"confirmed", "finalized", "failed"}
    \/ from = "confirmed" /\ to \in {"processed", "finalized", "failed"}

(* The legal next stages.  Forward skips are legal (the stream may never   *)
(* deliver the intermediate status); going back never is.                  *)
CanTransitionTo(from, to) ==
    \/ from = "submitted" /\ to \in Stage \ {"submitted"}
    \/ from = "processed" /\ to \in {"confirmed", "finalized", "failed"}
    \/ from = "confirmed" /\ to \in {"finalized", "failed"}

(* The bar for a landing seen on the stream, and the successful end.       *)
ReachedConfirmed(stage) == stage \in {"confirmed", "finalized"}
IsSuccess(stage)        == stage = "finalized"

(* The statuses of a slot and the rank by which an update is an advance.   *)
SlotStatus == {"first_shred_received", "created_bank", "completed",
               "processed", "confirmed", "finalized", "dead"}

Rank(status) ==
    CASE status = "first_shred_received" -> 0
      [] status = "created_bank"         -> 1
      [] status = "completed"            -> 2
      [] status = "processed"            -> 3
      [] status = "confirmed"            -> 4
      [] status = "finalized"            -> 5
      [] status = "dead"                 -> 6

(* The stage a slot status implies for a bundle that landed in the slot:   *)
(* the commitment statuses carry their own name, a dead slot is a failure, *)
(* and the three inter-slot statuses imply nothing.                        *)
ImpliesStage(status) == status \in {"processed", "confirmed", "finalized", "dead"}
SlotStatusToStage(status) == IF status = "dead" THEN "failed" ELSE status

===============================================================================
