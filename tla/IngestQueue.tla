----------------------------- MODULE IngestQueue -----------------------------
(***************************************************************************)
(* The bounded ingest queue (crates/prometheon-ingest/src/backpressure.rs):*)
(* it never blocks its producer, so at capacity it drops by its policy and *)
(* accounts for what it dropped.  Items are numbered in the order they are *)
(* offered, so an item's number says how fresh it is.                      *)
(***************************************************************************)
EXTENDS Integers, Sequences

CONSTANTS Requested,     \* capacities asked for, before the clamp
          MaxReceived    \* bound on the items offered

ASSUME QueueAssumption == Requested \subseteq Nat /\ MaxReceived \in Nat

Policies == {"DropNewest", "DropOldest"}

VARIABLES capacity, policy,          \* fixed by new()
          buf,                       \* the queued items
          received, dropped,         \* cumulative accounting
          high_water,                \* peak depth
          popped, last               \* what the workers took: how many, and the last of them

vars == <<capacity, policy, buf, received, dropped, high_water, popped, last>>

Clamped(n) == IF n < 1 THEN 1 ELSE n

Init ==
  /\ \E n \in Requested : capacity = Clamped(n)
  /\ policy \in Policies
  /\ buf = <<>>
  /\ received = 0 /\ dropped = 0 /\ high_water = 0
  /\ popped = 0 /\ last = 0

\* touch_high_water
Peak(depth) == IF depth > high_water THEN depth ELSE high_water

Admit ==
  /\ Len(buf) < capacity
  /\ buf' = Append(buf, received + 1)
  /\ high_water' = Peak(Len(buf) + 1)
  /\ UNCHANGED dropped

\* Mutant of DropNewest: room is made by evicting, as under the other policy.
DropNewestEvicts ==
  /\ Len(buf) >= capacity /\ policy = "DropNewest"
  /\ buf' = Append(Tail(buf), received + 1)
  /\ dropped' = dropped + 1
  /\ UNCHANGED high_water

DropNewest ==
  /\ Len(buf) >= capacity /\ policy = "DropNewest"
  /\ dropped' = dropped + 1
  /\ UNCHANGED <<buf, high_water>>

\* Mutant of DropOldest: the newcomer takes the place of the evicted.
DropOldestInPlace ==
  /\ Len(buf) >= capacity /\ policy = "DropOldest"
  /\ buf' = [buf EXCEPT ![1] = received + 1]
  /\ dropped' = dropped + 1
  /\ high_water' = Peak(Len(buf))

DropOldest ==
  /\ Len(buf) >= capacity /\ policy = "DropOldest"
  /\ buf' = Append(Tail(buf), received + 1)
  /\ dropped' = dropped + 1
  /\ high_water' = Peak(Len(buf))

\* push
Push ==
  /\ received < MaxReceived
  /\ received' = received + 1
  /\ Admit \/ DropNewest \/ DropOldest
  /\ UNCHANGED <<capacity, policy, popped, last>>

\* pop, when there is an item
Pop ==
  /\ buf # <<>>
  /\ last' = Head(buf)
  /\ buf' = Tail(buf)
  /\ popped' = popped + 1
  /\ UNCHANGED <<capacity, policy, received, dropped, high_water>>

Next == Push \/ Pop

Spec == Init /\ [][Next]_vars

-----------------------------------------------------------------------------
TypeOK ==
  /\ capacity \in Nat \ {0}
  /\ policy \in Policies
  /\ buf \in Seq(Nat)
  /\ \A i \in 1..Len(buf) : buf[i] <= received
  /\ received \in Nat /\ dropped \in 0..received
  /\ high_water \in 0..capacity
  /\ popped \in Nat /\ last \in 0..received

\* Nothing is lost unaccounted: every item ever offered was taken by a worker, is queued, or is
\* counted as dropped, whichever policy resolved the saturation (backpressure.rs:84-117, 144-154).
Accounted == received = popped + Len(buf) + dropped

\* Order survives saturation: the queue is in the order the items came, and everything in it is
\* newer than all a worker took (backpressure.rs:85-117).
InOrder ==
  /\ \A i, j \in 1..Len(buf) : i < j => buf[i] < buf[j]
  /\ \A i \in 1..Len(buf) : buf[i] > last

\* "The freshest data matters most": under DropOldest the queue is always the latest run of items,
\* without a hole, up to the very last one offered (backpressure.rs:26-28, 100-110).
Freshest ==
  policy = "DropOldest" => \A i \in 1..Len(buf) : buf[i] = received - Len(buf) + i

\* The peak is honest: it bounds the depth, stays in the capacity, and stands at the capacity as
\* soon as anything was dropped (backpressure.rs:156-160).
PeakIsHonest ==
  /\ Len(buf) <= high_water /\ high_water <= capacity
  /\ dropped > 0 => high_water = capacity

\* "preserving already-queued (older, in-order) items": under DropNewest an item once admitted
\* leaves the queue only through a worker (backpressure.rs:22-25, 96-99).
AdmittedSurvives ==
  [][policy = "DropNewest" =>
       \A i \in 1..Len(buf) :
         \/ \E j \in 1..Len(buf') : buf'[j] = buf[i]
         \/ last' = buf[i]]_vars
=============================================================================
