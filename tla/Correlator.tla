------------------------------ MODULE Correlator ------------------------------
(***************************************************************************)
(* The landing correlator as operators on its table: a function from the   *)
(* id of a tracked bundle to its lifecycle stage and the slot it was seen  *)
(* in.  The components that own such a table (PendingBundles alone, Saga)  *)
(* apply these operators in their actions.                                 *)
(***************************************************************************)
EXTENDS Commitment

(* HashMap::insert: adds the key, or overwrites what it held.              *)
Insert(f, key, value) ==
    [k \in DOMAIN f \cup {key} |-> IF k = key THEN value ELSE f[k]]

NewBundle == [stage |-> "submitted", slot |-> NoSlot]

Track(table, id) == Insert(table, id, NewBundle)

(* Mutant of Advance: every requested change is made.                      *)
AdvanceUnchecked(bundle, to) == [bundle EXCEPT !.stage = to]

(* Requests for the current stage and illegal ones change nothing.         *)
Advance(bundle, to) ==
    IF CanTransitionTo(bundle.stage, to) THEN [bundle EXCEPT !.stage = to] ELSE bundle

(* Mutant of TxStatus: the bundle is not bound to the slot.                *)
TxStatusUnbound(bundle, slot, txFailed) ==
    Advance(bundle, IF txFailed THEN "failed" ELSE "processed")

(* A tracked signature was seen in a block of `slot`: processed, or failed.*)
(* Only a real advance to processed binds the bundle to the slot.          *)
TxStatus(bundle, slot, txFailed) ==
    LET to == IF txFailed THEN "failed" ELSE "processed"
    IN  IF to = "processed" /\ CanTransitionTo(bundle.stage, to)
        THEN [Advance(bundle, to) EXCEPT !.slot = slot]
        ELSE Advance(bundle, to)

OnTxStatus(table, id, slot, txFailed) ==
    [table EXCEPT ![id] = TxStatus(table[id], slot, txFailed)]

(* Mutant of OnSlotStatus: every open bundle follows any slot.             *)
OnSlotStatusUnbound(table, slot, status) ==
    [id \in DOMAIN table |->
        IF ImpliesStage(status) /\ ~IsTerminal(table[id].stage)
        THEN Advance(table[id], SlotStatusToStage(status))
        ELSE table[id]]

(* A slot changed status: every open bundle bound to that slot follows.    *)
OnSlotStatus(table, slot, status) ==
    [id \in DOMAIN table |->
        IF /\ ImpliesStage(status)
           /\ table[id].slot = slot
           /\ ~IsTerminal(table[id].stage)
        THEN Advance(table[id], SlotStatusToStage(status))
        ELSE table[id]]

===============================================================================
