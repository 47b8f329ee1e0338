------------------------------ MODULE SlotTracker ------------------------------
(***************************************************************************)
(* The ingestion layer's slot tracker as operators on its state: it sorts  *)
(* every slot update into an observation, remembers the last Window slots, *)
(* and keeps the checkpoint a reconnection replays from.  The components   *)
(* that own a tracker apply Observe once per update.                       *)
(***************************************************************************)
EXTENDS Commitment

CONSTANT Window         \* how many recent slots are remembered

ASSUME WindowAssumption == Window \in Nat \ {0} /\ NoSlot \notin Nat

(* status: the statuses of the slots remembered; highest and checkpoint:   *)
(* the highest slot seen, at any status and at completed or beyond; start: *)
(* the lowest slot or parent of the first sighting.                        *)
NewTracker == [status |-> [s \in {} |-> "dead"],
               highest |-> NoSlot, start |-> NoSlot, checkpoint |-> NoSlot]

HigherOf(slot, seen) == IF seen = NoSlot \/ seen < slot THEN slot ELSE seen

(* record_status: a slot's status never goes down.                         *)
Recorded(known, slot, status) ==
    [s \in DOMAIN known \cup {slot} |->
        IF s = slot /\ (s \in DOMAIN known => Rank(status) > Rank(known[s]))
        THEN status ELSE known[s]]

(* Mutant of Retained: the window loses its oldest slot.                   *)
RetainedShort(slots, highest) == {s \in slots : s > 0 /\ s + Window > highest + 1}

(* prune: the slots newer than the cutoff, highest - Window and at least 0.*)
Retained(slots, highest) == {s \in slots : s > 0 /\ s + Window > highest}

(* record_status and note_slot, prune included.                            *)
Noted(t, slot, status) ==
    LET highest == HigherOf(slot, t.highest)
        known   == Recorded(t.status, slot, status)
    IN  [t EXCEPT !.highest = highest,
                  !.status  = [s \in Retained(DOMAIN known, highest) |-> known[s]]]

(* maybe_checkpoint, for a status other than dead.                         *)
Checkpointed(t, slot, status) ==
    IF Rank(status) >= Rank("completed")
    THEN [t EXCEPT !.checkpoint = HigherOf(slot, @)] ELSE t

(* Mutant of WithinWindow: there is no window.                             *)
WithinWindowAll(t, slot) == t.start # NoSlot => slot >= t.start

WithinWindow(t, slot) ==
    /\ t.start # NoSlot => slot >= t.start
    /\ t.highest # NoSlot => slot + Window >= t.highest

(* A first sighting establishes the start of the history.                  *)
Started(t, slot, parent) ==
    IF t.start # NoSlot THEN t
    ELSE [t EXCEPT !.start = IF parent # NoSlot /\ parent < slot THEN parent ELSE slot]

(* Mutant of MissesParent: only the direct predecessor is looked at.       *)
MissesParentNear(t, parent) ==
    /\ parent # NoSlot
    /\ WithinWindow(t, parent)
    /\ parent \notin DOMAIN t.status
    /\ t.highest # NoSlot /\ parent = t.highest + 1

MissesParent(t, parent) ==
    /\ parent # NoSlot
    /\ WithinWindow(t, parent)
    /\ parent \notin DOMAIN t.status
    /\ t.highest # NoSlot

(* Mutant of SkippedBetween: the slot itself is listed as skipped.         *)
SkippedBetweenInclusive(t, parent, slot) ==
    IF parent # NoSlot /\ WithinWindow(t, parent) THEN parent + 1 .. slot ELSE {}

(* The slots the leaders skipped between a block and its parent.           *)
SkippedBetween(t, parent, slot) ==
    IF parent # NoSlot /\ WithinWindow(t, parent) THEN parent + 1 .. slot - 1 ELSE {}

IsAdvance(t, slot, status) == slot \in DOMAIN t.status /\ Rank(status) > Rank(t.status[slot])

(* An observation: its kind, the slot, and for a gap the missed parent,    *)
(* for a progress the slots the leaders skipped.                           *)
Obs(kind, slot, parent, skipped) ==
    [kind |-> kind, slot |-> slot, parent |-> parent, skipped |-> skipped]

(* observe: the tracker after an update, and what it observed.             *)
Observe(t, slot, parent, status) ==
    LET s == Started(t, slot, parent)
    IN  CASE status = "dead" ->
                [tracker |-> Noted(t, slot, status), obs |-> Obs("dead", slot, NoSlot, {})]
          [] status # "dead" /\ IsAdvance(t, slot, status) ->
                [tracker |-> Checkpointed([t EXCEPT !.status = Recorded(t.status, slot, status)],
                                          slot, status),
                 obs     |-> Obs("advanced", slot, NoSlot, {})]
          [] status # "dead" /\ slot \in DOMAIN t.status /\ ~IsAdvance(t, slot, status) ->
                [tracker |-> t, obs |-> Obs("redundant", slot, NoSlot, {})]
          [] OTHER ->
                [tracker |-> Checkpointed(Noted(s, slot, status), slot, status),
                 obs     |-> IF MissesParent(s, parent)
                             THEN Obs("gap", slot, parent, {})
                             ELSE Obs("progressed", slot, parent,
                                      SkippedBetween(s, parent, slot))]

(* Mutant of ReplayFrom: one slot too late.                                *)
ReplayFromLate(t) == IF t.checkpoint = NoSlot THEN NoSlot ELSE t.checkpoint + 2

(* The slot a new subscription asks to be replayed from (run_once).        *)
ReplayFrom(t) == IF t.checkpoint = NoSlot THEN NoSlot ELSE t.checkpoint + 1

===============================================================================
