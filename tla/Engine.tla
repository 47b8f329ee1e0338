------------------------------- MODULE Engine -------------------------------
(***************************************************************************)
(* The telemetry engine (crates/prometheon-core/src/engine.rs): one loop   *)
(* that takes messages from the bounded channel the stream's task fills,   *)
(* keeps the network health model, emits every slot to the sinks and, on   *)
(* two timers, exports health and counters to the /metrics endpoint and    *)
(* asks for the tip floor.  Each branch is awaited to its end before the   *)
(* loop looks at the channel again, while the stream's task goes on.       *)
(***************************************************************************)
EXTENDS Integers, Sequences

CONSTANTS Capacity,        \* ingest_channel_capacity, after spawn's max(1)
          SkipCounts,      \* how many slots a progression skips
          Floors,          \* tip floors the REST endpoint reports
          TipCeiling,      \* CongestionWeights.tip_ceiling_lamports
          MaxArrived, MaxReconnects, MaxTicks   \* bounds

ASSUME EngineAssumption ==
  /\ Capacity \in Nat \ {0} /\ SkipCounts \subseteq Nat
  /\ Floors \subseteq Nat /\ TipCeiling \in Nat \ {0}
  /\ MaxArrived \in Nat /\ MaxReconnects \in Nat /\ MaxTicks \in Nat

Progressions == [kind : {"progressed"}, skipped : SkipCounts]
Observations == Progressions \cup {[kind |-> "dead"], [kind |-> "other"]}
Notice == [kind |-> "notice"]      \* StreamConnected, StreamError
NoHealth == [score |-> "none"]

VARIABLES chan,                    \* the bounded channel
          arrived, dropped,        \* slot updates the task tracked; those it dropped (history, counter)
          reconnects,              \* IngestCounters.reconnects
          produced, skipped, floor,   \* NetworkHealthModel
          slots_total, events_total,  \* EngineCounters of the loop
          health, exported,        \* MetricsState: what a scrape reads
          at,                      \* where the loop is: the branch it awaits
          log,                     \* observations handled, in order (history)
          ticks

loopVars == <<produced, skipped, floor, slots_total, events_total, health, exported, at, log, ticks>>
streamVars == <<chan, arrived, dropped, reconnects>>
vars == <<streamVars, loopVars>>

Init ==
  /\ chan = <<>> /\ arrived = 0 /\ dropped = 0 /\ reconnects = 0
  /\ produced = 0 /\ skipped = 0 /\ floor = 0
  /\ slots_total = 0 /\ events_total = 0
  /\ health = NoHealth
  /\ exported = [slots |-> 0, events |-> 0, reconnects |-> 0]
  /\ at = "select" /\ log = <<>> /\ ticks = 0

-----------------------------------------------------------------------------
(***************************************************************************)
(* The stream's task                                                       *)
(***************************************************************************)

\* A tracked update: try_send, which at capacity drops it and counts it.
TrackedSlot(o) ==
  /\ arrived < MaxArrived
  /\ arrived' = arrived + 1
  /\ IF Len(chan) < Capacity
       THEN chan' = Append(chan, o) /\ UNCHANGED dropped
       ELSE dropped' = dropped + 1 /\ UNCHANGED chan
  /\ UNCHANGED reconnects
  /\ UNCHANGED loopVars

\* The stream fails: counted, and told to the loop if there is room.
StreamFails ==
  /\ reconnects < MaxReconnects
  /\ reconnects' = reconnects + 1
  /\ chan' = IF Len(chan) < Capacity THEN Append(chan, Notice) ELSE chan
  /\ UNCHANGED <<arrived, dropped>>
  /\ UNCHANGED loopVars

-----------------------------------------------------------------------------
(***************************************************************************)
(* The health model                                                        *)
(***************************************************************************)

\* apply_slot_observation and record_slot.
ProducedOf(o) == IF o.kind = "progressed" THEN 1 ELSE 0
SkippedOf(o) ==
  CASE o.kind = "progressed" -> o.skipped
    [] o.kind = "dead" -> 1
    [] OTHER -> 0

\* congestion_score in percent, as a fraction, with the default weights of skip rate and tip floor;
\* the engine records no latency, so the third term is zero.
congestion_score(p, s, f) ==
  LET total == IF p + s = 0 THEN 1 ELSE p + s
      tip == IF f < TipCeiling THEN f ELSE TipCeiling
  IN  <<40 * s * TipCeiling + 25 * tip * total, total * TipCeiling>>

\* slot_stability_score
slot_stability_score(p, s) == IF p + s = 0 THEN <<1, 1>> ELSE <<p, p + s>>

snapshot(p, s, f) ==
  [score |-> congestion_score(p, s, f), stability |-> slot_stability_score(p, s), floor |-> f]

-----------------------------------------------------------------------------
(***************************************************************************)
(* The loop                                                                *)
(***************************************************************************)

Emit == events_total' = events_total + 1

\* Mutant of HandleSlot: only first sightings count as slots.
HandleNewSlot ==
  /\ at = "select" /\ chan # <<>> /\ Head(chan) # Notice
  /\ LET o == Head(chan) IN
       /\ produced' = produced + ProducedOf(o)
       /\ skipped' = skipped + SkippedOf(o)
       /\ log' = Append(log, o)
       /\ slots_total' = IF o.kind = "progressed" THEN slots_total + 1 ELSE slots_total
  /\ Emit
  /\ chan' = Tail(chan)
  /\ at' = "emitting"
  /\ UNCHANGED <<arrived, dropped, reconnects, floor, health, exported, ticks>>

\* handle_message, a slot: the model and the counters, then the sinks.
HandleSlot ==
  /\ at = "select" /\ chan # <<>> /\ Head(chan) # Notice
  /\ LET o == Head(chan) IN
       /\ produced' = produced + ProducedOf(o)
       /\ skipped' = skipped + SkippedOf(o)
       /\ log' = Append(log, o)
  /\ slots_total' = slots_total + 1
  /\ Emit
  /\ chan' = Tail(chan)
  /\ at' = "emitting"
  /\ UNCHANGED <<arrived, dropped, reconnects, floor, health, exported, ticks>>

\* handle_message, a notice: logged only.
HandleNotice ==
  /\ at = "select" /\ chan # <<>> /\ Head(chan) = Notice
  /\ chan' = Tail(chan)
  /\ UNCHANGED <<arrived, dropped, reconnects>>
  /\ UNCHANGED loopVars

\* Mutant of Emitted: an event that no sink took is tried again.
EmittedAgain ==
  /\ at = "emitting"
  /\ UNCHANGED vars

\* Both sinks were tried; what failed there is logged and changes nothing here.
Emitted ==
  /\ at = "emitting"
  /\ at' = "select"
  /\ UNCHANGED streamVars
  /\ UNCHANGED <<produced, skipped, floor, slots_total, events_total, health, exported, log, ticks>>

\* The health timer: set_health, and the event is on its way to the sinks.
HealthTick ==
  /\ at = "select" /\ ticks < MaxTicks
  /\ ticks' = ticks + 1
  /\ health' = snapshot(produced, skipped, floor)
  /\ Emit
  /\ at' = "reporting"
  /\ UNCHANGED streamVars
  /\ UNCHANGED <<produced, skipped, floor, slots_total, exported, log>>

Exported == [slots |-> slots_total, events |-> events_total, reconnects |-> reconnects]

\* The sinks were tried: set_counters, under a second lock.
HealthReported ==
  /\ at = "reporting"
  /\ exported' = Exported
  /\ at' = "select"
  /\ UNCHANGED streamVars
  /\ UNCHANGED <<produced, skipped, floor, slots_total, events_total, health, log, ticks>>

\* The tip-floor timer: the loop waits for the request.
TipFloorTick ==
  /\ at = "select"
  /\ at' = "fetching"
  /\ UNCHANGED streamVars
  /\ UNCHANGED <<produced, skipped, floor, slots_total, events_total, health, exported, log, ticks>>

TipFloorFails ==
  /\ at = "fetching"
  /\ at' = "select"
  /\ UNCHANGED streamVars
  /\ UNCHANGED <<produced, skipped, floor, slots_total, events_total, health, exported, log, ticks>>

TipFloorFetched ==
  /\ at = "fetching"
  /\ \E f \in Floors : floor' = f
  /\ at' = "select"
  /\ UNCHANGED streamVars
  /\ UNCHANGED <<produced, skipped, slots_total, events_total, health, exported, log, ticks>>

TakeMessage == HandleSlot \/ HandleNotice

Next ==
  \/ \E o \in Observations : TrackedSlot(o)
  \/ StreamFails
  \/ TakeMessage \/ Emitted
  \/ HealthTick \/ HealthReported
  \/ TipFloorTick \/ TipFloorFails \/ TipFloorFetched

\* select! picks at random among the branches that are ready, so a full channel is looked at again
\* and again; the sinks and the request return, the request by its own timeout at the latest.
Fairness ==
  /\ SF_vars(TakeMessage)
  /\ WF_vars(Emitted)
  /\ WF_vars(HealthReported)
  /\ WF_vars(TipFloorFails \/ TipFloorFetched)

Spec == Init /\ [][Next]_vars /\ Fairness

-----------------------------------------------------------------------------
\* The sum of a sequence of numbers.
Total(seq) ==
  LET sum[i \in 0..Len(seq)] == IF i = 0 THEN 0 ELSE sum[i - 1] + seq[i] IN sum[Len(seq)]

\* How many slots the model counts as produced, and as skipped, in the first n observations.
ProducedIn(n) == Total([i \in 1..n |-> ProducedOf(log[i])])
SkippedIn(n) == Total([i \in 1..n |-> SkippedOf(log[i])])

\* What a scrape sees fits together: but for the moment between its two locks, health and slot
\* counter describe the same stretch of the stream, and the health is that of the observations
\* handled in it and of nothing else (engine.rs:151-163, metrics.rs:41-53).
ScrapesAgree ==
  health # NoHealth =>
    LET n == IF at = "reporting" THEN slots_total ELSE exported.slots
    IN  n <= Len(log) /\ health = snapshot(ProducedIn(n), SkippedIn(n), health.floor)

\* The loop comes back to a full channel, whatever keeps it: a failing sink, a tip-floor request
\* that is answered or fails, one timer after the other.
KeepsUp == (Len(chan) = Capacity) ~> (Len(chan) < Capacity)
=============================================================================
