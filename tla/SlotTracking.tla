----------------------------- MODULE SlotTracking -----------------------------
(***************************************************************************)
(* The ingestion task's slot tracker at work: every slot update of the     *)
(* stream goes through it once and yields an observation.                  *)
(*                                                                         *)
(* The environment is a chain (each produced slot and its parent block)    *)
(* and a stream that reports its slots in any order, repeatedly (replays), *)
(* or not at all.                                                          *)
(***************************************************************************)
EXTENDS SlotTracker, FiniteSets

CONSTANTS
    Slots,          \* the slots of the model
    Chains,         \* the possible chains: functions from produced slots to parents
    Statuses        \* the statuses the stream reports

ASSUME TrackingAssumption ==
    /\ Slots \subseteq Nat \ {0}
    /\ Statuses \subseteq SlotStatus
    /\ \A c \in Chains :
          /\ DOMAIN c \subseteq Slots
          /\ \A s \in DOMAIN c : c[s] \in Nat /\ c[s] < s

VARIABLES
    chain,          \* the chain being reported
    tracker,        \* SlotTracker
    obs,            \* the last SlotObservation
    sighted         \* slots any update was seen of (history)

trackingVars == <<chain, tracker, obs, sighted>>

TrackingInit ==
    /\ chain \in Chains
    /\ tracker = NewTracker
    /\ obs = Obs("none", NoSlot, NoSlot, {})
    /\ sighted = {}

(* The window outlasts the stream: no slot is reported once it is Window   *)
(* slots old (4096 slots are some 27 minutes).                             *)
Timely(slot) == tracker.highest # NoSlot => slot + Window > tracker.highest

(* An update of a produced slot, with its parent or without (optional in   *)
(* the stream's message).                                                  *)
SlotUpdate(slot, parent, status) ==
    LET seen == Observe(tracker, slot, parent, status)
    IN  /\ slot \in DOMAIN chain /\ parent \in {chain[slot], NoSlot}
        /\ Timely(slot)
        /\ tracker' = seen.tracker
        /\ obs' = seen.obs
        /\ sighted' = sighted \cup {slot}
        /\ UNCHANGED chain

AnyUpdate ==
    \E slot \in Slots, status \in Statuses :
        \E parent \in {chain[s] : s \in DOMAIN chain} \cup {NoSlot} :
            SlotUpdate(slot, parent, status)

TrackingSpec == TrackingInit /\ [][AnyUpdate]_trackingVars

-------------------------------------------------------------------------------
(* Properties.                                                             *)

TrackingTypeOK ==
    /\ chain \in Chains
    /\ DOMAIN tracker.status \subseteq Slots
    /\ tracker \in [status : [DOMAIN tracker.status -> SlotStatus],
                    highest : Slots \cup {NoSlot}, start : Nat \cup {NoSlot},
                    checkpoint : Slots \cup {NoSlot}]
    /\ obs.kind \in {"none", "dead", "advanced", "redundant", "gap", "progressed"}
    /\ sighted \subseteq Slots

(* The tracker remembers exactly the slots it saw that are inside its      *)
(* window: no more (the map stays bounded), no fewer (nothing it saw there *)
(* is mistaken for missed).                                                *)
RemembersTheWindow ==
    DOMAIN tracker.status =
        {s \in sighted : s + Window > tracker.highest}

(* A slot is a first sighting (progressed or gap) once, however often and  *)
(* in whatever order its statuses are replayed: the engine never counts a  *)
(* replayed slot again.                                                    *)
FirstSightingOnce ==
    [][obs'.kind \in {"progressed", "gap"} => obs'.slot \notin sighted]_trackingVars

(* A gap never names a parent that was seen, except the one at the edge of *)
(* the window, which has been pruned but still counts as inside.           *)
GapIsRealInside ==
    [][(obs'.kind = "gap" /\ obs'.parent \in sighted)
          => obs'.parent + Window = tracker.highest]_trackingVars

(* A missed parent is always reported: a slot that merely progressed has a *)
(* parent that was seen, or is older than the history or the window.       *)
NoSilentGap ==
    [][(obs'.kind = "progressed" /\ obs'.parent # NoSlot /\ sighted # {})
          => \/ obs'.parent \in sighted
             \/ tracker.start # NoSlot /\ obs'.parent < tracker.start
             \/ obs'.parent + Window < tracker.highest]_trackingVars

(* The checkpoint is the newest completed slot: it has completed itself,   *)
(* and no remembered slot above it has, unless it died.  A replay from     *)
(* behind the checkpoint therefore covers every newer slot entirely.       *)
CheckpointIsNewestCompleted ==
    /\ tracker.checkpoint \in DOMAIN tracker.status
          => Rank(tracker.status[tracker.checkpoint]) >= Rank("completed")
    /\ \A s \in DOMAIN tracker.status :
          (tracker.checkpoint = NoSlot \/ s > tracker.checkpoint)
             => Rank(tracker.status[s]) < Rank("completed") \/ tracker.status[s] = "dead"

===============================================================================
