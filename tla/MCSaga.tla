-------------------------------- MODULE MCSaga --------------------------------
(***************************************************************************)
(* Instances of the saga for TLC.  MCMaxAttempts and the slots are the     *)
(* bounds; every base has its own transactions.                            *)
(***************************************************************************)
EXTENDS Saga, TLC

CONSTANTS MCMaxAttempts, MCLastSlot

MCSlots == 1..MCLastSlot

(* One number more than the cap, so that an attempt past it would have an  *)
(* id; until then that id is an unrelated transaction on the stream.       *)
MCIds == Bases \X (1..(MCMaxAttempts + 1))
MCTxId == [b \in Bases |-> [n \in 1..(MCMaxAttempts + 1) |-> <<b, n>>]]

MCDeadlines == MCSlots \cup {NoSlot}

(* One class per way the policy treats a failure: window closed, retryable *)
(* on the same blockhash, not retryable.                                   *)
MCClasses == {"expired_blockhash", "fee_too_low", "instruction_error"}

MCSymmetry == Permutations(Bases)

===============================================================================
