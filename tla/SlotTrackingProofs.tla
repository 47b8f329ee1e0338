-------------------------- MODULE SlotTrackingProofs --------------------------
(***************************************************************************)
(* The slot tracker's memory is exact, for every window, chain and stream: *)
(* it remembers what it saw inside the window, a slot is a first sighting  *)
(* once, and gaps and the checkpoint mean what they say.                   *)
(***************************************************************************)
EXTENDS SlotHealth, FiniteSetTheorems, TLAPS

(* The bookkeeping the memory rests on: the highest slot bounds the slots  *)
(* seen, and the checkpoint is one of them.                                *)
Bounded ==
    /\ tracker.highest = NoSlot <=> sighted = {}
    /\ tracker.highest # NoSlot => tracker.highest \in sighted
    /\ \A s \in sighted : tracker.highest # NoSlot /\ s <= tracker.highest
    /\ tracker.checkpoint # NoSlot => tracker.checkpoint \in sighted

Memory ==
    /\ TrackingTypeOK
    /\ Bounded
    /\ RemembersTheWindow

(* The ranks order the statuses, and dead is the last.                     *)
LEMMA RankOrder ==
    ASSUME NEW status \in SlotStatus
    PROVE  Rank(status) \in 0..6 /\ (Rank(status) = 6 <=> status = "dead")
  BY DEF SlotStatus, Rank

(* HigherOf is the maximum, where no slot is below every slot.             *)
LEMMA HigherOfIsMax ==
    ASSUME NEW slot \in Nat, NEW seen \in Nat \cup {NoSlot}
    PROVE  /\ HigherOf(slot, seen) \in {slot, seen} \ {NoSlot}
           /\ HigherOf(slot, seen) \in Nat
           /\ slot <= HigherOf(slot, seen)
           /\ seen # NoSlot => seen <= HigherOf(slot, seen)
  BY WindowAssumption DEF HigherOf

(* What recording a status does to the tracker's map.                      *)
LEMMA RecordedEffect ==
    ASSUME Memory, NEW slot \in Slots, NEW status \in SlotStatus
    PROVE  LET known == Recorded(tracker.status, slot, status)
           IN  /\ known \in [DOMAIN tracker.status \cup {slot} -> SlotStatus]
               /\ \A s \in DOMAIN tracker.status \ {slot} : known[s] = tracker.status[s]
               /\ known[slot] = IF slot \in DOMAIN tracker.status
                                     /\ Rank(status) <= Rank(tracker.status[slot])
                                THEN tracker.status[slot] ELSE status
  <1>1. tracker.status \in [DOMAIN tracker.status -> SlotStatus]
    BY DEF Memory, TrackingTypeOK
  <1>2. ASSUME slot \in DOMAIN tracker.status
        PROVE  Rank(status) > Rank(tracker.status[slot])
                  <=> ~(Rank(status) <= Rank(tracker.status[slot]))
    <2>1. tracker.status[slot] \in SlotStatus
      BY <1>1, <1>2
    <2> QED BY <2>1, RankOrder
  <1> QED BY <1>1, <1>2 DEF Recorded

(* record_status, note_slot and prune together make n of the tracker: the  *)
(* highest slot is the maximum, and the map keeps what is inside the       *)
(* window below it.                                                        *)
NotedWell(n, start, slot, status) ==
    LET h == HigherOf(slot, tracker.highest)
    IN  /\ n = [status |-> n.status, highest |-> h, start |-> start,
                checkpoint |-> tracker.checkpoint]
        /\ DOMAIN n.status = {s \in DOMAIN tracker.status \cup {slot} : s + Window > h}
        /\ n.status \in [DOMAIN n.status -> SlotStatus]
        /\ \A s \in DOMAIN n.status \ {slot} : n.status[s] = tracker.status[s]
        /\ slot \in DOMAIN n.status =>
              n.status[slot] = IF slot \in DOMAIN tracker.status
                                     /\ Rank(status) <= Rank(tracker.status[slot])
                               THEN tracker.status[slot] ELSE status

LEMMA NotedEffect ==
    ASSUME Memory, NEW slot \in Slots, NEW status \in SlotStatus,
           NEW start \in Nat \cup {NoSlot}
    PROVE  NotedWell(Noted([tracker EXCEPT !.start = start], slot, status), start, slot, status)
  <1> DEFINE t == [tracker EXCEPT !.start = start]
             n == Noted(t, slot, status)
             h == HigherOf(slot, tracker.highest)
             known == Recorded(tracker.status, slot, status)
  <1>1. tracker = [status |-> tracker.status, highest |-> tracker.highest,
                   start |-> tracker.start, checkpoint |-> tracker.checkpoint]
    BY DEF Memory, TrackingTypeOK
  <1>2. t = [status |-> tracker.status, highest |-> tracker.highest,
             start |-> start, checkpoint |-> tracker.checkpoint]
    BY <1>1
  <1>4. /\ known \in [DOMAIN tracker.status \cup {slot} -> SlotStatus]
        /\ \A s \in DOMAIN tracker.status \ {slot} : known[s] = tracker.status[s]
        /\ known[slot] = IF slot \in DOMAIN tracker.status
                              /\ Rank(status) <= Rank(tracker.status[slot])
                         THEN tracker.status[slot] ELSE status
    BY RecordedEffect
  <1> HIDE DEF t
  <1>5. n = [status |-> [s \in Retained(DOMAIN known, h) |-> known[s]], highest |-> h,
             start |-> start, checkpoint |-> tracker.checkpoint]
    <2>1. t.highest = tracker.highest /\ t.status = tracker.status
      BY <1>2
    <2>2. n = [t EXCEPT !.highest = h,
                        !.status = [s \in Retained(DOMAIN known, h) |-> known[s]]]
      BY <2>1 DEF Noted
    <2> QED BY <1>2, <2>2
  <1>6. Retained(DOMAIN known, h) = {s \in DOMAIN known : s + Window > h}
    BY <1>4, TrackingAssumption DEF Retained, Memory, TrackingTypeOK
  <1> HIDE DEF known
  <1>7. n.status = [s \in {u \in DOMAIN known : u + Window > h} |-> known[s]]
    BY <1>5, <1>6
  <1> QED BY <1>4, <1>5, <1>7 DEF t, NotedWell

(* A slot that is remembered is no higher than the highest, so noting it   *)
(* moves nothing.                                                          *)
LEMMA RememberedIsBelow ==
    ASSUME Memory, NEW slot \in DOMAIN tracker.status
    PROVE  /\ tracker.highest \in Nat /\ slot <= tracker.highest
           /\ HigherOf(slot, tracker.highest) = tracker.highest
  BY WindowAssumption, TrackingAssumption
     DEF Memory, TrackingTypeOK, Bounded, RemembersTheWindow, HigherOf

(* observe, in one of four ways: the branches with the tracker each leaves.*)
LEMMA ObserveBranches ==
    ASSUME Memory, NEW slot \in Slots, NEW parent \in Nat \cup {NoSlot},
           NEW status \in SlotStatus
    PROVE  LET seen == Observe(tracker, slot, parent, status)
               start == Started(tracker, slot, parent).start
           IN  \/ /\ status = "dead"
                  /\ seen.tracker = Noted(tracker, slot, status)
                  /\ seen.obs = Obs("dead", slot, NoSlot, {})
               \/ /\ status # "dead" /\ slot \in DOMAIN tracker.status
                  /\ Rank(status) > Rank(tracker.status[slot])
                  /\ seen.tracker =
                        Checkpointed([tracker EXCEPT
                            !.status = Recorded(tracker.status, slot, status)], slot, status)
                  /\ seen.obs = Obs("advanced", slot, NoSlot, {})
               \/ /\ status # "dead" /\ slot \in DOMAIN tracker.status
                  /\ ~(Rank(status) > Rank(tracker.status[slot]))
                  /\ seen.tracker = tracker
                  /\ seen.obs = Obs("redundant", slot, NoSlot, {})
               \/ /\ status # "dead" /\ slot \notin DOMAIN tracker.status
                  /\ start \in Nat
                  /\ seen.tracker =
                        Checkpointed(Noted([tracker EXCEPT !.start = start], slot, status),
                                     slot, status)
                  /\ seen.obs = IF MissesParent([tracker EXCEPT !.start = start], parent)
                                THEN Obs("gap", slot, parent, {})
                                ELSE Obs("progressed", slot, parent,
                                         SkippedBetween([tracker EXCEPT !.start = start],
                                                        parent, slot))
  <1> DEFINE seen == Observe(tracker, slot, parent, status)
             start == Started(tracker, slot, parent).start
  <1>1. /\ start \in Nat
        /\ Started(tracker, slot, parent) = [tracker EXCEPT !.start = start]
    BY TrackingAssumption DEF Started, Memory, TrackingTypeOK
  <1>2. CASE status = "dead"
    <2>1. seen = [tracker |-> Noted(tracker, slot, status),
                  obs |-> Obs("dead", slot, NoSlot, {})]
      BY <1>2 DEF Observe
    <2> QED BY <1>2, <2>1
  <1>3. CASE status # "dead" /\ IsAdvance(tracker, slot, status)
    <2>1. seen = [tracker |-> Checkpointed([tracker EXCEPT
                                  !.status = Recorded(tracker.status, slot, status)],
                                  slot, status),
                  obs     |-> Obs("advanced", slot, NoSlot, {})]
      BY <1>3 DEF Observe
    <2> QED BY <1>3, <2>1 DEF IsAdvance
  <1>4. CASE /\ status # "dead" /\ slot \in DOMAIN tracker.status
             /\ ~IsAdvance(tracker, slot, status)
    <2>1. seen = [tracker |-> tracker, obs |-> Obs("redundant", slot, NoSlot, {})]
      BY <1>4 DEF Observe
    <2> QED BY <1>4, <2>1 DEF IsAdvance
  <1>5. CASE status # "dead" /\ slot \notin DOMAIN tracker.status
    <2> DEFINE from == [tracker EXCEPT !.start = start]
    <2>1. ~IsAdvance(tracker, slot, status)
      BY <1>5 DEF IsAdvance
    <2>2. seen = [tracker |-> Checkpointed(Noted(Started(tracker, slot, parent), slot, status),
                                           slot, status),
                  obs     |-> IF MissesParent(Started(tracker, slot, parent), parent)
                              THEN Obs("gap", slot, parent, {})
                              ELSE Obs("progressed", slot, parent,
                                       SkippedBetween(Started(tracker, slot, parent),
                                                      parent, slot))]
      BY <1>5, <2>1 DEF Observe
    <2> HIDE DEF from, seen
    <2>3. Started(tracker, slot, parent) = from
      BY <1>1 DEF from
    <2>4. /\ seen.tracker = Checkpointed(Noted(from, slot, status), slot, status)
          /\ seen.obs = IF MissesParent(from, parent)
                        THEN Obs("gap", slot, parent, {})
                        ELSE Obs("progressed", slot, parent, SkippedBetween(from, parent, slot))
      BY <2>2, <2>3
    <2> QED BY <1>1, <1>5, <2>4 DEF from, seen
  <1> QED BY <1>2, <1>3, <1>4, <1>5

(* What an update leaves in the tracker, whichever branch it takes.        *)
Updated(slot, status) ==
    LET h == HigherOf(slot, tracker.highest)
    IN  /\ tracker' = [status |-> tracker'.status, highest |-> h,
                       start |-> tracker'.start, checkpoint |-> tracker'.checkpoint]
        /\ tracker'.start \in Nat \cup {NoSlot}
        /\ tracker'.status \in [DOMAIN tracker'.status -> SlotStatus]
        /\ DOMAIN tracker'.status = {s \in DOMAIN tracker.status \cup {slot} : s + Window > h}
        /\ \A s \in DOMAIN tracker'.status \ {slot} : tracker'.status[s] = tracker.status[s]
        /\ slot \in DOMAIN tracker'.status =>
              tracker'.status[slot] = IF slot \in DOMAIN tracker.status
                                            /\ Rank(status) <= Rank(tracker.status[slot])
                                     THEN tracker.status[slot] ELSE status
        /\ tracker'.checkpoint =
              IF /\ status # "dead" /\ Rank(status) >= 2
                 /\ ~(slot \in DOMAIN tracker.status /\ Rank(status) <= Rank(tracker.status[slot]))
              THEN HigherOf(slot, tracker.checkpoint) ELSE tracker.checkpoint

(* What it reports.                                                        *)
Reported(slot) ==
    /\ obs'.kind \in {"dead", "advanced", "redundant", "gap", "progressed"}
    /\ obs'.slot = slot
    /\ obs'.kind \in {"gap", "progressed"} => slot \notin DOMAIN tracker.status
    /\ obs'.kind = "gap" => \E start \in Nat :
          MissesParent([tracker EXCEPT !.start = start], obs'.parent)

LEMMA UpdateEffect ==
    ASSUME Memory, NEW slot \in Slots, NEW parent \in Nat \cup {NoSlot},
           NEW status \in SlotStatus, SlotUpdate(slot, parent, status)
    PROVE  Updated(slot, status) /\ Reported(slot)
  <1> DEFINE start == Started(tracker, slot, parent).start
             known == Recorded(tracker.status, slot, status)
             noted == Noted([tracker EXCEPT !.start = start], slot, status)
             higher == HigherOf(slot, tracker.highest)
  <1>3. \/ /\ status = "dead"
           /\ tracker' = Noted(tracker, slot, status)
           /\ obs' = Obs("dead", slot, NoSlot, {})
        \/ /\ status # "dead" /\ slot \in DOMAIN tracker.status
           /\ Rank(status) > Rank(tracker.status[slot])
           /\ tracker' = Checkpointed([tracker EXCEPT !.status = known], slot, status)
           /\ obs' = Obs("advanced", slot, NoSlot, {})
        \/ /\ status # "dead" /\ slot \in DOMAIN tracker.status
           /\ ~(Rank(status) > Rank(tracker.status[slot]))
           /\ tracker' = tracker
           /\ obs' = Obs("redundant", slot, NoSlot, {})
        \/ /\ status # "dead" /\ slot \notin DOMAIN tracker.status
           /\ start \in Nat
           /\ tracker' = Checkpointed(noted, slot, status)
           /\ obs' = IF MissesParent([tracker EXCEPT !.start = start], parent)
                     THEN Obs("gap", slot, parent, {})
                     ELSE Obs("progressed", slot, parent,
                              SkippedBetween([tracker EXCEPT !.start = start], parent, slot))
    <2> DEFINE seen == Observe(tracker, slot, parent, status)
    <2>1. /\ tracker' = seen.tracker
          /\ obs' = seen.obs
      BY DEF SlotUpdate
    <2>2. \/ /\ status = "dead"
             /\ seen.tracker = Noted(tracker, slot, status)
             /\ seen.obs = Obs("dead", slot, NoSlot, {})
          \/ /\ status # "dead" /\ slot \in DOMAIN tracker.status
             /\ Rank(status) > Rank(tracker.status[slot])
             /\ seen.tracker = Checkpointed([tracker EXCEPT !.status = known], slot, status)
             /\ seen.obs = Obs("advanced", slot, NoSlot, {})
          \/ /\ status # "dead" /\ slot \in DOMAIN tracker.status
             /\ ~(Rank(status) > Rank(tracker.status[slot]))
             /\ seen.tracker = tracker
             /\ seen.obs = Obs("redundant", slot, NoSlot, {})
          \/ /\ status # "dead" /\ slot \notin DOMAIN tracker.status
             /\ start \in Nat
             /\ seen.tracker = Checkpointed(noted, slot, status)
             /\ seen.obs = IF MissesParent([tracker EXCEPT !.start = start], parent)
                           THEN Obs("gap", slot, parent, {})
                           ELSE Obs("progressed", slot, parent,
                                    SkippedBetween([tracker EXCEPT !.start = start],
                                                   parent, slot))
      BY ObserveBranches, ZenonT(30)
    <2> HIDE DEF seen, start, known, noted
    <2> QED BY <2>1, <2>2, ZenonT(30)
  <1> USE RankOrder
  <1>1. tracker = [status |-> tracker.status, highest |-> tracker.highest,
                   start |-> tracker.start, checkpoint |-> tracker.checkpoint]
        /\ tracker.start \in Nat \cup {NoSlot}
    BY DEF Memory, TrackingTypeOK
  <1>2. Rank("completed") = 2
    BY DEF Rank
  <1>4. CASE /\ status = "dead"
             /\ tracker' = Noted(tracker, slot, status)
             /\ obs' = Obs("dead", slot, NoSlot, {})
    <2> DEFINE kept == tracker.start
               same == Noted([tracker EXCEPT !.start = kept], slot, status)
    <2>0. kept \in Nat \cup {NoSlot}
      BY <1>1
    <2>1. [tracker EXCEPT !.start = kept] = tracker
      BY <1>1
    <2> HIDE DEF kept
    <2>noted. NotedWell(same, kept, slot, status)
      BY <2>0, NotedEffect
    <2>2. /\ same = [status |-> same.status, highest |-> higher, start |-> kept,
                     checkpoint |-> tracker.checkpoint]
          /\ DOMAIN same.status = {s \in DOMAIN tracker.status \cup {slot} : s + Window > higher}
          /\ same.status \in [DOMAIN same.status -> SlotStatus]
          /\ \A s \in DOMAIN same.status \ {slot} : same.status[s] = tracker.status[s]
          /\ slot \in DOMAIN same.status =>
                same.status[slot] = IF slot \in DOMAIN tracker.status
                                          /\ Rank(status) <= Rank(tracker.status[slot])
                                   THEN tracker.status[slot] ELSE status
      BY <2>noted DEF NotedWell
    <2>3. tracker' = same
      BY <1>4, <2>1
    <2> HIDE DEF same
    <2>4. Updated(slot, status)
      BY <2>0, <1>4, <2>2, <2>3 DEF Updated
    <2>5. Reported(slot)
      BY <1>4 DEF Reported, Obs
    <2> QED BY <2>4, <2>5
  <1>5. CASE /\ status # "dead" /\ slot \in DOMAIN tracker.status
             /\ Rank(status) > Rank(tracker.status[slot])
             /\ tracker' = Checkpointed([tracker EXCEPT !.status = known], slot, status)
             /\ obs' = Obs("advanced", slot, NoSlot, {})
    <2>1. higher = tracker.highest
      BY <1>5, RememberedIsBelow
    <2>2. Rank(status) \in Nat /\ Rank(tracker.status[slot]) \in Nat
      BY <1>5 DEF Memory, TrackingTypeOK
    <2>3. tracker' = [status |-> known, highest |-> tracker.highest, start |-> tracker.start,
                      checkpoint |-> IF Rank(status) >= 2
                                     THEN HigherOf(slot, tracker.checkpoint)
                                     ELSE tracker.checkpoint]
      BY <1>1, <1>2, <1>5 DEF Checkpointed
    <2>4. /\ known \in [DOMAIN tracker.status \cup {slot} -> SlotStatus]
          /\ \A s \in DOMAIN tracker.status \ {slot} : known[s] = tracker.status[s]
          /\ known[slot] = IF slot \in DOMAIN tracker.status
                                /\ Rank(status) <= Rank(tracker.status[slot])
                           THEN tracker.status[slot] ELSE status
      BY RecordedEffect
    <2>5. DOMAIN known = {s \in DOMAIN tracker.status \cup {slot} : s + Window > tracker.highest}
      BY <1>5, <2>4 DEF Memory, RemembersTheWindow
    <2> HIDE DEF known
    <2>6. Updated(slot, status)
      BY <1>1, <1>5, <2>1, <2>2, <2>3, <2>4, <2>5 DEF Updated
    <2>7. Reported(slot)
      BY <1>5 DEF Reported, Obs
    <2> QED BY <2>6, <2>7
  <1>6. CASE /\ status # "dead" /\ slot \in DOMAIN tracker.status
             /\ ~(Rank(status) > Rank(tracker.status[slot]))
             /\ tracker' = tracker
             /\ obs' = Obs("redundant", slot, NoSlot, {})
    <2>1. higher = tracker.highest
      BY <1>6, RememberedIsBelow
    <2>2. Rank(status) \in Nat /\ Rank(tracker.status[slot]) \in Nat
      BY <1>6 DEF Memory, TrackingTypeOK
    <2>3. /\ DOMAIN tracker.status = {s \in DOMAIN tracker.status \cup {slot} :
                                      s + Window > tracker.highest}
          /\ tracker.status \in [DOMAIN tracker.status -> SlotStatus]
      BY <1>6 DEF Memory, RemembersTheWindow, TrackingTypeOK
    <2>4. Updated(slot, status)
      BY <1>1, <1>6, <2>1, <2>2, <2>3 DEF Updated
    <2>5. Reported(slot)
      BY <1>6 DEF Reported, Obs
    <2> QED BY <2>4, <2>5
  <1>7. CASE /\ status # "dead" /\ slot \notin DOMAIN tracker.status
             /\ start \in Nat
             /\ tracker' = Checkpointed(noted, slot, status)
             /\ obs' = IF MissesParent([tracker EXCEPT !.start = start], parent)
                       THEN Obs("gap", slot, parent, {})
                       ELSE Obs("progressed", slot, parent,
                                SkippedBetween([tracker EXCEPT !.start = start], parent, slot))
    <2> HIDE DEF start
    <2>0. start \in Nat \cup {NoSlot}
      BY <1>7
    <2>noted. NotedWell(noted, start, slot, status)
      BY <2>0, NotedEffect
    <2>1. /\ noted = [status |-> noted.status, highest |-> higher, start |-> start,
                      checkpoint |-> tracker.checkpoint]
          /\ DOMAIN noted.status = {s \in DOMAIN tracker.status \cup {slot} : s + Window > higher}
          /\ noted.status \in [DOMAIN noted.status -> SlotStatus]
          /\ \A s \in DOMAIN noted.status \ {slot} : noted.status[s] = tracker.status[s]
          /\ slot \in DOMAIN noted.status =>
                noted.status[slot] = IF slot \in DOMAIN tracker.status
                                           /\ Rank(status) <= Rank(tracker.status[slot])
                                    THEN tracker.status[slot] ELSE status
      BY <2>noted DEF NotedWell
    <2> HIDE DEF noted
    <2>2. tracker' = [status |-> noted.status, highest |-> higher, start |-> start,
                      checkpoint |-> IF Rank(status) >= 2
                                     THEN HigherOf(slot, tracker.checkpoint)
                                     ELSE tracker.checkpoint]
      BY <1>2, <1>7, <2>1 DEF Checkpointed
    <2>3. Updated(slot, status)
      BY <1>7, <2>1, <2>2 DEF Updated
    <2>4. Reported(slot)
      BY <1>7 DEF Reported, Obs
    <2> QED BY <2>3, <2>4
  <1> HIDE DEF start, known, noted, higher
  <1> QED BY <1>3, <1>4, <1>5, <1>6, <1>7

LEMMA TrackingInitMemory == TrackingInit => Memory /\ CheckpointIsNewestCompleted
  <1>1. [s \in {} |-> "dead"] \in [{} -> SlotStatus]
    BY DEF SlotStatus
  <1> QED BY <1>1, TrackingAssumption
       DEF TrackingInit, Memory, TrackingTypeOK, Bounded, RemembersTheWindow, NewTracker, Obs,
           CheckpointIsNewestCompleted

(* An update keeps the memory exact.  Its slot is inside the window (it is *)
(* timely), so it is remembered afterwards.                                *)
LEMMA UpdateKeepsMemory ==
    ASSUME Memory, NEW slot \in Slots, NEW parent \in Nat \cup {NoSlot},
           NEW status \in SlotStatus, SlotUpdate(slot, parent, status)
    PROVE  Memory'
  <1> USE WindowAssumption, TrackingAssumption
  <1> DEFINE h == HigherOf(slot, tracker.highest)
  <1>1. Updated(slot, status) /\ Reported(slot)
    BY UpdateEffect
  <1>2. /\ tracker.highest \in Slots \cup {NoSlot}
        /\ tracker.checkpoint \in Slots \cup {NoSlot}
        /\ DOMAIN tracker.status \subseteq Slots
        /\ sighted \subseteq Slots
        /\ chain \in Chains
    BY DEF Memory, TrackingTypeOK
  <1>3. /\ h \in Slots /\ slot <= h
        /\ h = slot \/ h = tracker.highest
        /\ tracker.highest # NoSlot => tracker.highest <= h
    BY <1>2 DEF HigherOf
  <1>4. /\ tracker'.highest = h
        /\ tracker'.checkpoint \in {tracker.checkpoint, slot}
        /\ DOMAIN tracker'.status = {s \in DOMAIN tracker.status \cup {slot} : s + Window > h}
    BY <1>1 DEF Updated, HigherOf
  <1>5. sighted' = sighted \cup {slot} /\ chain' = chain
    BY DEF SlotUpdate
  <1> HIDE DEF h
  <1>6. TrackingTypeOK'
    <2>1. tracker' \in [status : [DOMAIN tracker'.status -> SlotStatus],
                        highest : Slots \cup {NoSlot}, start : Nat \cup {NoSlot},
                        checkpoint : Slots \cup {NoSlot}]
      BY <1>1, <1>2, <1>3, <1>4 DEF Updated, h
    <2> QED BY <1>1, <1>2, <1>4, <1>5, <2>1 DEF TrackingTypeOK, Reported
  <1>7. Bounded'
    <2>1. \A s \in sighted : s \in Nat /\ tracker.highest \in Nat /\ s <= tracker.highest
      BY <1>2 DEF Memory, Bounded
    <2>2. \A s \in sighted' : h # NoSlot /\ s <= h
      BY <1>2, <1>3, <1>5, <2>1
    <2>3. h \in sighted' /\ (tracker'.checkpoint # NoSlot => tracker'.checkpoint \in sighted')
      BY <1>2, <1>3, <1>4, <1>5 DEF Memory, Bounded
    <2> QED BY <1>3, <1>4, <2>2, <2>3 DEF Bounded
  <1>8. RemembersTheWindow'
    <2>1. ASSUME NEW s \in sighted \cup {slot}, s + Window > h
          PROVE  s \in DOMAIN tracker.status \cup {slot}
      <3>1. CASE s # slot
        <4>1. /\ s \in sighted /\ s \in Nat
              /\ tracker.highest \in Nat /\ tracker.highest <= h /\ h \in Nat
          BY <1>2, <1>3, <3>1 DEF Memory, Bounded
        <4>2. s + Window > tracker.highest
          BY <2>1, <4>1
        <4> QED BY <4>1, <4>2 DEF Memory, RemembersTheWindow
      <3> QED BY <3>1
    <2>2. DOMAIN tracker.status \subseteq sighted
      BY DEF Memory, RemembersTheWindow
    <2>3. DOMAIN tracker'.status = {s \in sighted \cup {slot} : s + Window > h}
      BY <1>4, <2>1, <2>2
    <2> QED BY <1>4, <1>5, <2>3 DEF RemembersTheWindow
  <1> QED BY <1>6, <1>7, <1>8 DEF Memory

(* An update keeps the checkpoint at the newest completed slot: what it    *)
(* completes becomes the checkpoint unless a higher slot already is.       *)
LEMMA UpdateKeepsCheckpoint ==
    ASSUME Memory, CheckpointIsNewestCompleted, Memory',
           NEW slot \in Slots, NEW parent \in Nat \cup {NoSlot},
           NEW status \in SlotStatus, SlotUpdate(slot, parent, status)
    PROVE  CheckpointIsNewestCompleted'
  <1> USE WindowAssumption, TrackingAssumption
  <1> DEFINE cp == tracker.checkpoint
  <1>1. Updated(slot, status)
    BY UpdateEffect
  <1>2. Rank("completed") = 2
    BY DEF Rank
  <1>3. /\ cp \in Slots \cup {NoSlot}
        /\ tracker.status \in [DOMAIN tracker.status -> SlotStatus]
        /\ DOMAIN tracker.status \subseteq Slots
        /\ cp # NoSlot => cp \in sighted
    BY DEF Memory, TrackingTypeOK, Bounded
  <1>4. slot \in sighted => slot \in DOMAIN tracker.status
    BY DEF SlotUpdate, Timely, Memory, RemembersTheWindow, Bounded, TrackingTypeOK
  <1>5. Rank(status) \in Nat /\ \A s \in DOMAIN tracker.status : Rank(tracker.status[s]) \in Nat
    BY <1>3, RankOrder
  <1>6. CASE tracker'.checkpoint = cp /\ ~(/\ status # "dead" /\ Rank(status) >= 2
               /\ ~(slot \in DOMAIN tracker.status /\ Rank(status) <= Rank(tracker.status[slot])))
    <2>1. ASSUME cp \in DOMAIN tracker'.status
          PROVE  Rank(tracker'.status[cp]) >= 2
      <3>1. cp \in DOMAIN tracker.status
        BY <1>1, <1>3, <1>4, <2>1, NoSlot \notin Slots DEF Updated
      <3>2. Rank(tracker.status[cp]) >= 2
        BY <3>1, <1>2 DEF CheckpointIsNewestCompleted
      <3> QED BY <1>1, <1>5, <2>1, <3>1, <3>2 DEF Updated
    <2>2. ASSUME NEW s \in DOMAIN tracker'.status, cp = NoSlot \/ s > cp
          PROVE  Rank(tracker'.status[s]) < 2 \/ tracker'.status[s] = "dead"
      <3>1. s \in DOMAIN tracker.status
            => Rank(tracker.status[s]) < 2 \/ tracker.status[s] = "dead"
        BY <2>2, <1>2 DEF CheckpointIsNewestCompleted
      <3>2. CASE s # slot
        BY <1>1, <3>1, <3>2 DEF Updated
      <3>3. CASE s = slot
        BY <1>1, <1>5, <1>6, <2>2, <3>1, <3>3 DEF Updated
      <3> QED BY <3>2, <3>3
    <2> QED BY <1>2, <1>6, <2>1, <2>2 DEF CheckpointIsNewestCompleted
  <1>7. CASE /\ tracker'.checkpoint = HigherOf(slot, cp)
             /\ status # "dead" /\ Rank(status) >= 2
             /\ ~(slot \in DOMAIN tracker.status /\ Rank(status) <= Rank(tracker.status[slot]))
    <2> DEFINE next == HigherOf(slot, cp)
    <2>1. /\ next \in Nat /\ slot <= next /\ (next = slot \/ next = cp)
          /\ cp # NoSlot => cp <= next
      BY <1>3 DEF HigherOf
    <2> HIDE DEF next
    <2>2. ASSUME next \in DOMAIN tracker'.status
          PROVE  Rank(tracker'.status[next]) >= 2
      <3>1. CASE next = slot
        BY <1>1, <1>7, <2>2, <3>1 DEF Updated
      <3>2. CASE next # slot
        <4>1. next = cp /\ cp \in DOMAIN tracker.status
          BY <1>1, <2>1, <2>2, <3>2 DEF Updated
        <4>2. Rank(tracker.status[cp]) >= 2
          BY <4>1, <1>2 DEF CheckpointIsNewestCompleted
        <4> QED BY <1>1, <2>2, <3>2, <4>1, <4>2 DEF Updated
      <3> QED BY <3>1, <3>2
    <2>3. ASSUME NEW s \in DOMAIN tracker'.status, s > next
          PROVE  Rank(tracker'.status[s]) < 2 \/ tracker'.status[s] = "dead"
      <3>1. s \in DOMAIN tracker.status /\ s # slot
        <4>1. s # slot
          BY <2>1, <2>3
        <4> QED BY <4>1, <1>1 DEF Updated
      <3>2. s \in Nat /\ (cp = NoSlot \/ s > cp)
        BY <1>3, <2>1, <2>3, <3>1
      <3>3. Rank(tracker.status[s]) < 2 \/ tracker.status[s] = "dead"
        BY <1>2, <3>1, <3>2 DEF CheckpointIsNewestCompleted
      <3> QED BY <1>1, <3>1, <3>3 DEF Updated
    <2>4. tracker'.checkpoint = next /\ next # NoSlot
      BY <1>7, <2>1 DEF next
    <2> QED BY <1>2, <2>2, <2>3, <2>4 DEF CheckpointIsNewestCompleted
  <1> QED BY <1>1, <1>6, <1>7 DEF Updated

(* Every step of the specification is such an update.                      *)
LEMMA AnyUpdateIsUpdate ==
    ASSUME Memory, AnyUpdate
    PROVE  \E slot \in Slots, status \in SlotStatus, parent \in Nat \cup {NoSlot} :
              SlotUpdate(slot, parent, status)
  <1>1. PICK slot \in Slots, status \in Statuses,
             parent \in {chain[s] : s \in DOMAIN chain} \cup {NoSlot} :
                SlotUpdate(slot, parent, status)
    BY DEF AnyUpdate
  <1>2. parent \in Nat \cup {NoSlot}
    BY <1>1, TrackingAssumption DEF SlotUpdate, Memory, TrackingTypeOK
  <1>3. status \in SlotStatus
    BY TrackingAssumption
  <1> QED BY <1>1, <1>2, <1>3

(* The tracker's memory is exact in every state: typed, bounded by the     *)
(* window, and with nothing of what it saw in the window missing.          *)
THEOREM TrackerMemory == TrackingSpec => []Memory
  <1>1. TrackingInit => Memory
    BY TrackingInitMemory
  <1>2. Memory /\ [AnyUpdate]_trackingVars => Memory'
    <2> SUFFICES ASSUME Memory, [AnyUpdate]_trackingVars
                 PROVE  Memory'
      OBVIOUS
    <2>1. CASE AnyUpdate
      BY <2>1, AnyUpdateIsUpdate, UpdateKeepsMemory
    <2>2. CASE UNCHANGED trackingVars
      BY <2>2 DEF trackingVars, Memory, TrackingTypeOK, Bounded, RemembersTheWindow
    <2> QED BY <2>1, <2>2
  <1> QED BY <1>1, <1>2, PTL DEF TrackingSpec

THEOREM TrackerRemembersTheWindow == TrackingSpec => []RemembersTheWindow
  <1>1. Memory => RemembersTheWindow
    BY DEF Memory
  <1> QED BY <1>1, TrackerMemory, PTL

THEOREM TrackerTypeCorrect == TrackingSpec => []TrackingTypeOK
  <1>1. Memory => TrackingTypeOK
    BY DEF Memory
  <1> QED BY <1>1, TrackerMemory, PTL

(* A replayed slot is never a first sighting again.                        *)
THEOREM TrackerFirstSightingOnce == TrackingSpec => FirstSightingOnce
  <1> DEFINE Once == obs'.kind \in {"progressed", "gap"} => obs'.slot \notin sighted
  <1>1. Memory /\ [AnyUpdate]_trackingVars => [Once]_trackingVars
    <2> SUFFICES ASSUME Memory, AnyUpdate
                 PROVE  Once
      OBVIOUS
    <2>1. PICK slot \in Slots, status \in SlotStatus, parent \in Nat \cup {NoSlot} :
             SlotUpdate(slot, parent, status)
      BY AnyUpdateIsUpdate
    <2>2. Reported(slot)
      BY <2>1, UpdateEffect
    <2>3. slot \in sighted => slot \in DOMAIN tracker.status
      BY <2>1 DEF SlotUpdate, Timely, Memory, RemembersTheWindow, Bounded
    <2> QED BY <2>2, <2>3 DEF Reported
  <1> QED BY <1>1, TrackerMemory, PTL DEF TrackingSpec, FirstSightingOnce

(* A gap's parent was never seen, or lies exactly at the window's edge.    *)
THEOREM TrackerGapIsRealInside == TrackingSpec => GapIsRealInside
  <1> DEFINE Real == (obs'.kind = "gap" /\ obs'.parent \in sighted)
                        => obs'.parent + Window = tracker.highest
  <1>1. Memory /\ [AnyUpdate]_trackingVars => [Real]_trackingVars
    <2> SUFFICES ASSUME Memory, AnyUpdate, obs'.kind = "gap", obs'.parent \in sighted
                 PROVE  obs'.parent + Window = tracker.highest
      OBVIOUS
    <2>1. PICK slot \in Slots, status \in SlotStatus, parent \in Nat \cup {NoSlot} :
             SlotUpdate(slot, parent, status)
      BY AnyUpdateIsUpdate
    <2>2. PICK start \in Nat : MissesParent([tracker EXCEPT !.start = start], obs'.parent)
      BY <2>1, UpdateEffect DEF Reported
    <2> DEFINE from == [tracker EXCEPT !.start = start]
    <2>3. from.highest = tracker.highest /\ from.status = tracker.status
      BY DEF Memory, TrackingTypeOK
    <2> HIDE DEF from
    <2>4. MissesParent(from, obs'.parent)
      BY <2>2 DEF from
    <2>5. /\ obs'.parent + Window >= tracker.highest
          /\ obs'.parent \notin DOMAIN tracker.status
          /\ tracker.highest # NoSlot
      BY <2>3, <2>4 DEF MissesParent, WithinWindow
    <2>6. ~(obs'.parent + Window > tracker.highest)
      BY <2>5 DEF Memory, RemembersTheWindow
    <2>7. obs'.parent \in Nat /\ tracker.highest \in Nat /\ Window \in Nat
      BY <2>5, WindowAssumption, TrackingAssumption DEF Memory, TrackingTypeOK
    <2> QED BY <2>5, <2>6, <2>7
  <1> QED BY <1>1, TrackerMemory, PTL DEF TrackingSpec, GapIsRealInside

(* The checkpoint is the newest completed slot, so a replay from behind it *)
(* covers every newer slot.                                                *)
THEOREM TrackerCheckpoint == TrackingSpec => []CheckpointIsNewestCompleted
  <1> DEFINE Inv == Memory /\ CheckpointIsNewestCompleted
  <1>1. TrackingInit => Inv
    BY TrackingInitMemory
  <1>2. Inv /\ Memory' /\ [AnyUpdate]_trackingVars => CheckpointIsNewestCompleted'
    <2>1. CASE UNCHANGED trackingVars
      BY <2>1 DEF trackingVars, CheckpointIsNewestCompleted
    <2>2. CASE Memory /\ AnyUpdate
      BY <2>2, AnyUpdateIsUpdate, UpdateKeepsCheckpoint
    <2> QED BY <2>1, <2>2
  <1> QED BY <1>1, <1>2, TrackerMemory, PTL DEF TrackingSpec

-------------------------------------------------------------------------------
(* What progress means, and what is counted.                               *)

(* An observation is a progress only at a first sighting whose parent is   *)
(* not missed.                                                             *)
LEMMA ObservedAs ==
    ASSUME Memory, NEW slot \in Slots, NEW parent \in Nat \cup {NoSlot},
           NEW status \in SlotStatus, SlotUpdate(slot, parent, status)
    PROVE  LET from == [tracker EXCEPT !.start = Started(tracker, slot, parent).start]
           IN  \/ status = "dead" /\ obs' = Obs("dead", slot, NoSlot, {})
               \/ status # "dead" /\ obs'.kind \in {"advanced", "redundant", "gap"}
               \/ /\ status # "dead" /\ slot \notin DOMAIN tracker.status
                  /\ ~MissesParent(from, parent)
                  /\ obs'.kind = "progressed"
                  /\ obs' = Obs("progressed", slot, parent, SkippedBetween(from, parent, slot))
  <1> DEFINE seen == Observe(tracker, slot, parent, status)
             start == Started(tracker, slot, parent).start
             from == [tracker EXCEPT !.start = start]
  <1>1. obs' = seen.obs
    BY DEF SlotUpdate
  <1>2. \/ status = "dead" /\ seen.obs = Obs("dead", slot, NoSlot, {})
        \/ status # "dead" /\ seen.obs = Obs("advanced", slot, NoSlot, {})
        \/ status # "dead" /\ seen.obs = Obs("redundant", slot, NoSlot, {})
        \/ /\ status # "dead" /\ slot \notin DOMAIN tracker.status
           /\ seen.obs = IF MissesParent(from, parent)
                         THEN Obs("gap", slot, parent, {})
                         ELSE Obs("progressed", slot, parent, SkippedBetween(from, parent, slot))
    BY ObserveBranches, ZenonT(30)
  <1>3. \A kind, p, skipped : Obs(kind, slot, p, skipped).kind = kind
    BY DEF Obs
  <1> HIDE DEF seen, from
  <1>4. \/ status = "dead" /\ obs' = Obs("dead", slot, NoSlot, {})
        \/ status # "dead" /\ obs'.kind \in {"advanced", "redundant", "gap"}
        \/ /\ status # "dead" /\ slot \notin DOMAIN tracker.status
           /\ ~MissesParent(from, parent) /\ obs'.kind = "progressed"
           /\ obs' = Obs("progressed", slot, parent, SkippedBetween(from, parent, slot))
    BY <1>1, <1>2, <1>3
  <1> QED BY <1>4 DEF from

(* A first sighting is of a slot never sighted: what is in the window is   *)
(* remembered, and nothing is reported that is out of it.                  *)
LEMMA NotRememberedIsNew ==
    ASSUME Memory, NEW slot, NEW parent, NEW status, SlotUpdate(slot, parent, status),
           slot \notin DOMAIN tracker.status
    PROVE  slot \notin sighted
  BY DEF SlotUpdate, Timely, Memory, RemembersTheWindow, Bounded

(* A progress names no missed parent inside the window and the history.    *)
THEOREM TrackerNoSilentGap == TrackingSpec => NoSilentGap
  <1> DEFINE Told == (obs'.kind = "progressed" /\ obs'.parent # NoSlot /\ sighted # {})
                        => \/ obs'.parent \in sighted
                           \/ tracker.start # NoSlot /\ obs'.parent < tracker.start
                           \/ obs'.parent + Window < tracker.highest
  <1>1. Memory /\ [AnyUpdate]_trackingVars => [Told]_trackingVars
    <2> SUFFICES ASSUME Memory, AnyUpdate,
                        obs'.kind = "progressed", obs'.parent # NoSlot, sighted # {},
                        ~(tracker.start # NoSlot /\ obs'.parent < tracker.start),
                        ~(obs'.parent + Window < tracker.highest)
                 PROVE  obs'.parent \in sighted
      OBVIOUS
    <2>1. PICK slot \in Slots, status \in SlotStatus, parent \in Nat \cup {NoSlot} :
             SlotUpdate(slot, parent, status)
      BY AnyUpdateIsUpdate
    <2> DEFINE start == Started(tracker, slot, parent).start
               from == [tracker EXCEPT !.start = start]
    <2>2. ~MissesParent(from, parent) /\ obs'.parent = parent
      BY <2>1, ObservedAs DEF Obs
    <2>3. /\ from.highest = tracker.highest /\ from.status = tracker.status /\ from.start = start
          /\ tracker.highest # NoSlot
          /\ DOMAIN tracker.status \subseteq sighted
      BY DEF Memory, TrackingTypeOK, Bounded, RemembersTheWindow
    <2>4. parent \in Nat /\ parent = chain[slot] /\ parent < slot
      BY <2>1, <2>2, TrackingAssumption DEF SlotUpdate, Memory, TrackingTypeOK
    <2>5. start = IF tracker.start # NoSlot THEN tracker.start ELSE parent
      BY <2>4, WindowAssumption DEF Started, Memory, TrackingTypeOK
    <2> HIDE DEF from, start
    <2>6. ~WithinWindow(from, parent) => parent + Window < tracker.highest
      <3>1. tracker.highest \in Nat /\ tracker.start \in Nat \cup {NoSlot} /\ Window \in Nat
        BY <2>3, WindowAssumption, TrackingAssumption DEF Memory, TrackingTypeOK
      <3>2. ~(parent < start)
        BY <2>2, <2>4, <2>5, <3>1
      <3>3. start \in Nat
        BY <2>4, <2>5, <3>1
      <3> QED BY <2>3, <2>4, <3>1, <3>2, <3>3 DEF WithinWindow
    <2> QED BY <2>2, <2>3, <2>4, <2>6, WindowAssumption DEF MissesParent
  <1> QED BY <1>1, TrackerMemory, PTL DEF TrackingSpec, NoSilentGap

(* The engine behind the tracker changes nothing of it.                    *)
LEMMA HealthTracks == Spec => TrackingSpec
  <1>1. Init => TrackingInit
    BY DEF Init
  <1>2. [Next]_vars => [AnyUpdate]_trackingVars
    BY DEF Next, HandleSlot, AnyUpdate, vars
  <1> QED BY <1>1, <1>2, PTL DEF Spec, TrackingSpec

(* What is counted was sighted: a block itself, or for a skipped slot the  *)
(* one block around it.                                                    *)
Produced == {s \in DOMAIN chain : counted[s] = 1}
CountedInv ==
    /\ counted \in [Slots -> Nat]
    /\ (Linear /\ died = {}) =>
          /\ \A s \in Slots : counted[s] <= 1
          /\ \A s \in DOMAIN chain : counted[s] = 1 => s \in sighted
          /\ \A s \in Slots \ DOMAIN chain :
                counted[s] = 1 => \E t \in DOMAIN chain \cap sighted : chain[t] < s /\ s < t
          /\ IsFiniteSet(Produced)
          /\ produced = Cardinality(Produced)

(* A progress counts its own slot and the gap before it, and nothing of    *)
(* either was counted before.                                              *)
LEMMA ProgressCounts ==
    ASSUME Memory, CountedInv, Linear, died = {},
           NEW slot \in Slots, NEW parent \in Nat \cup {NoSlot}, NEW status \in SlotStatus,
           HandleSlot(slot, parent, status), obs'.kind = "progressed"
    PROVE  /\ slot \in DOMAIN chain /\ slot \notin sighted /\ counted[slot] = 0
           /\ \A s \in Slots : counted'[s] =
                IF s = slot THEN 1
                ELSE IF s \in SkipsOf(obs') THEN counted[s] + 1 ELSE counted[s]
           /\ \A s \in SkipsOf(obs') : s \in Nat /\ chain[slot] < s /\ s < slot
           /\ \A s \in SkipsOf(obs') \cap Slots : s \notin DOMAIN chain /\ counted[s] = 0
           /\ produced' = produced + 1
  <1> DEFINE from == [tracker EXCEPT !.start = Started(tracker, slot, parent).start]
  <1>1. SlotUpdate(slot, parent, status) /\ ApplyObservation(obs')
    BY DEF HandleSlot
  <1>2. /\ slot \notin DOMAIN tracker.status
        /\ obs' = Obs("progressed", slot, parent, SkippedBetween(from, parent, slot))
    BY <1>1, ObservedAs DEF Obs
  <1>3. slot \in DOMAIN chain /\ parent \in {chain[slot], NoSlot} /\ slot \notin sighted
    BY <1>1, <1>2, NotRememberedIsNew DEF SlotUpdate
  <1>4. /\ DOMAIN chain \subseteq Slots /\ Slots \subseteq Nat
        /\ \A s \in DOMAIN chain : chain[s] \in Nat /\ chain[s] < s
    BY TrackingAssumption DEF Memory, TrackingTypeOK
  <1>5. /\ \A s \in Slots : counted[s] \in Nat /\ counted[s] <= 1
        /\ counted[slot] = 0
    BY <1>3 DEF CountedInv
  <1>6. ProducedOf(obs') = {slot} /\ SkipsOf(obs') = SkippedBetween(from, parent, slot)
    BY <1>2 DEF ProducedOf, SkipsOf, Obs
  <1> HIDE DEF from
  <1>7. \A s \in SkipsOf(obs') : s \in Nat /\ chain[slot] < s /\ s < slot
    <2>1. CASE parent = NoSlot
      BY <1>6, <2>1 DEF SkippedBetween
    <2>2. CASE parent = chain[slot]
      BY <1>3, <1>4, <1>6, <2>2 DEF SkippedBetween
    <2> QED BY <1>3, <2>1, <2>2
  <1>8. ASSUME NEW s \in SkipsOf(obs'), s \in Slots
        PROVE  s \notin DOMAIN chain /\ counted[s] = 0
    <2>1. s \notin DOMAIN chain
      BY <1>3, <1>4, <1>7 DEF Linear
    <2>2. ASSUME NEW t \in DOMAIN chain, chain[t] < s, s < t PROVE t = slot
      BY <1>3, <1>4, <1>7, <2>2 DEF Linear
    <2> QED BY <1>3, <1>5, <1>8, <2>1, <2>2 DEF CountedInv
  <1>9. \A s \in Slots : counted'[s] =
           IF s = slot THEN 1
           ELSE IF s \in SkipsOf(obs') THEN counted[s] + 1 ELSE counted[s]
    <2> TAKE s \in Slots
    <2>1. counted'[s] = counted[s] + (IF s \in ProducedOf(obs') THEN 1 ELSE 0)
                                   + (IF s \in SkipsOf(obs') THEN 1 ELSE 0)
      BY <1>1 DEF ApplyObservation
    <2>2. s = slot => s \notin SkipsOf(obs')
      BY <1>7
    <2> QED BY <1>5, <1>6, <2>1, <2>2
  <1>10. produced' = produced + 1
    BY <1>1, <1>6, FS_Singleton DEF ApplyObservation
  <1> QED BY <1>3, <1>5, <1>7, <1>8, <1>9, <1>10

LEMMA CountedStep == Memory /\ CountedInv /\ [Next]_vars => CountedInv'
  <1> SUFFICES ASSUME Memory, CountedInv, [Next]_vars PROVE CountedInv'
    OBVIOUS
  <1>1. CASE UNCHANGED vars
    BY <1>1 DEF vars, trackingVars, CountedInv, Linear, Produced
  <1>2. ASSUME NEW slot \in Slots, NEW parent \in Nat \cup {NoSlot}, NEW status \in SlotStatus,
               HandleSlot(slot, parent, status)
        PROVE  CountedInv'
    <2>1. /\ SlotUpdate(slot, parent, status) /\ ApplyObservation(obs')
          /\ UNCHANGED chain /\ sighted' = sighted \cup {slot}
          /\ died' = IF status = "dead" THEN died \cup {slot} ELSE died
      BY <1>2 DEF HandleSlot, SlotUpdate
    <2>2. counted' \in [Slots -> Nat]
      BY <2>1 DEF ApplyObservation, CountedInv
    <2>3. CASE ~Linear \/ died' # {}
      BY <2>1, <2>2, <2>3 DEF CountedInv, Linear
    <2>4. CASE Linear /\ died' = {}
      <3>1. died = {} /\ status # "dead"
        BY <2>1, <2>4
      <3>2. /\ \A s \in Slots : counted[s] <= 1 /\ counted[s] \in Nat
            /\ \A s \in DOMAIN chain : counted[s] = 1 => s \in sighted
            /\ \A s \in Slots \ DOMAIN chain :
                  counted[s] = 1 => \E t \in DOMAIN chain \cap sighted : chain[t] < s /\ s < t
            /\ IsFiniteSet(Produced) /\ produced = Cardinality(Produced)
        BY <2>4, <3>1 DEF CountedInv
      <3>3. CASE obs'.kind # "progressed"
        <4>1. obs'.kind \in {"advanced", "redundant", "gap"}
          BY <2>1, <3>1, <3>3, ObservedAs
        <4>2. ProducedOf(obs') = {} /\ SkipsOf(obs') = {}
          BY <4>1 DEF ProducedOf, SkipsOf
        <4>3. /\ \A s \in Slots : counted'[s] = counted[s]
              /\ produced' = produced
          BY <2>1, <3>2, <4>2, FS_EmptySet, FS_CardinalityType DEF ApplyObservation
        <4>4. DOMAIN chain \subseteq Slots
          BY TrackingAssumption DEF Memory, TrackingTypeOK
        <4>5. Produced' = Produced
          BY <2>1, <4>3, <4>4 DEF Produced
        <4> QED BY <2>1, <2>2, <3>2, <4>3, <4>4, <4>5 DEF CountedInv
      <3>4. CASE obs'.kind = "progressed"
        <4>1. /\ slot \in DOMAIN chain /\ slot \notin sighted /\ counted[slot] = 0
              /\ \A s \in Slots : counted'[s] =
                    IF s = slot THEN 1
                    ELSE IF s \in SkipsOf(obs') THEN counted[s] + 1 ELSE counted[s]
              /\ \A s \in SkipsOf(obs') : s \in Nat /\ chain[slot] < s /\ s < slot
              /\ \A s \in SkipsOf(obs') \cap Slots : s \notin DOMAIN chain /\ counted[s] = 0
              /\ produced' = produced + 1
          BY <1>2, <2>4, <3>1, <3>4, ProgressCounts
        <4>2. DOMAIN chain \subseteq Slots
          BY TrackingAssumption DEF Memory, TrackingTypeOK
        <4>3. Produced' = Produced \cup {slot} /\ slot \notin Produced
          BY <2>1, <4>1, <4>2 DEF Produced
        <4>4. IsFiniteSet(Produced') /\ produced' = Cardinality(Produced')
          BY <3>2, <4>1, <4>3, FS_AddElement
        <4>5. \A s \in Slots : counted'[s] <= 1
          BY <3>2, <4>1
        <4>6. \A s \in DOMAIN chain : counted'[s] = 1 => s \in sighted'
          BY <2>1, <3>2, <4>1, <4>2
        <4>7. ASSUME NEW s \in Slots \ DOMAIN chain, counted'[s] = 1
              PROVE  \E t \in DOMAIN chain \cap sighted' : chain[t] < s /\ s < t
          <5>1. CASE s \in SkipsOf(obs')
            BY <2>1, <4>1, <5>1
          <5>2. CASE s \notin SkipsOf(obs')
            BY <2>1, <3>2, <4>1, <4>7, <5>2
          <5> QED BY <5>1, <5>2
        <4> QED BY <2>1, <2>2, <4>4, <4>5, <4>6, <4>7 DEF CountedInv
      <3> QED BY <3>3, <3>4
    <2> QED BY <2>3, <2>4
  <1>3. ASSUME Next PROVE \E slot \in Slots, parent \in Nat \cup {NoSlot}, status \in SlotStatus :
                             HandleSlot(slot, parent, status)
    <2>1. PICK slot \in Slots, status \in Statuses,
               parent \in {chain[s] : s \in DOMAIN chain} \cup {NoSlot} :
                  HandleSlot(slot, parent, status)
      BY <1>3 DEF Next
    <2>2. parent \in Nat \cup {NoSlot} /\ status \in SlotStatus
      BY <2>1, TrackingAssumption DEF HandleSlot, SlotUpdate, Memory, TrackingTypeOK
    <2> QED BY <2>1, <2>2
  <1> QED BY <1>1, <1>2, <1>3

(* On a chain without forks and without dead slots the engine counts every *)
(* slot once, however the stream repeats, loses and disorders its updates, *)
(* for any window, chain and number of slots (engine.rs:32-52).            *)
THEOREM SlotsCountedOnce == Spec => []CountedOnceIfLinear
  <1>1. Init => CountedInv
    <2> SUFFICES ASSUME Init PROVE CountedInv
      OBVIOUS
    <2>1. DOMAIN chain \subseteq Slots
      BY TrackingAssumption DEF Init, TrackingInit
    <2>2. Produced = {}
      BY <2>1 DEF Init, Produced
    <2> QED BY <2>1, <2>2, FS_EmptySet DEF Init, CountedInv
  <1>2. CountedInv => CountedOnceIfLinear
    BY DEF CountedInv, CountedOnceIfLinear, Produced
  <1> QED BY <1>1, <1>2, CountedStep, TrackerMemory, HealthTracks, PTL DEF Spec

===============================================================================
