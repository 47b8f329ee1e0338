------------------------------ MODULE SlotHealth ------------------------------
(***************************************************************************)
(* The telemetry engine's view of the slots: every update the ingestion    *)
(* task tracks reaches the engine loop, which counts its observation as    *)
(* produced or skipped slots.  The skip rate, the stability and the        *)
(* congestion score the agent is given are computed from these counts.     *)
(***************************************************************************)
EXTENDS SlotTracking

CONSTANT MaxCount   \* bound of the model: slots counted

VARIABLES
    produced,       \* NetworkHealthModel.slots_produced
    skips,          \* NetworkHealthModel.slots_skipped
    counted,        \* how often each slot was counted (history)
    died            \* slots reported dead (history)

vars == <<trackingVars, produced, skips, counted, died>>

Init ==
    /\ TrackingInit
    /\ produced = 0 /\ skips = 0
    /\ counted = [s \in Slots |-> 0]
    /\ died = {}

(* apply_slot_observation: the slots counted as produced and as skipped.   *)
ProducedOf(o) == IF o.kind = "progressed" THEN {o.slot} ELSE {}
SkipsOf(o) ==
    CASE o.kind = "progressed" -> o.skipped
      [] o.kind = "dead"       -> {o.slot}
      [] OTHER                 -> {}

ApplyObservation(o) ==
    /\ produced' = produced + Cardinality(ProducedOf(o))
    /\ skips' = skips + Cardinality(SkipsOf(o))
    /\ counted' = [s \in Slots |-> counted[s]
                     + (IF s \in ProducedOf(o) THEN 1 ELSE 0)
                     + (IF s \in SkipsOf(o) THEN 1 ELSE 0)]

(* The engine receives the message of a tracked update.                    *)
HandleSlot(slot, parent, status) ==
    /\ produced + skips < MaxCount
    /\ SlotUpdate(slot, parent, status)
    /\ ApplyObservation(obs')
    /\ died' = IF status = "dead" THEN died \cup {slot} ELSE died

Next ==
    \E slot \in Slots, status \in Statuses :
        \E parent \in {chain[s] : s \in DOMAIN chain} \cup {NoSlot} :
            HandleSlot(slot, parent, status)

Spec == Init /\ [][Next]_vars

-------------------------------------------------------------------------------
(* Properties.                                                             *)

(* A chain without forks: a block builds on the latest before it.          *)
Linear == \A s, t \in DOMAIN chain : s < t => s <= chain[t]

(* On such a chain, as long as no slot was reported dead, every slot is    *)
(* counted at most once, and as produced exactly when the chain has it:    *)
(* replays, losses and disorder do not disturb the skip rate.              *)
CountedOnceIfLinear ==
    (Linear /\ died = {}) =>
        /\ \A s \in Slots : counted[s] <= 1
        /\ produced = Cardinality({s \in DOMAIN chain : counted[s] = 1})

===============================================================================
