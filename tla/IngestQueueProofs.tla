-------------------------- MODULE IngestQueueProofs --------------------------
(***************************************************************************)
(* Proofs about the bounded ingest queue, for every set of capacities and  *)
(* every number of items.                                                  *)
(***************************************************************************)
EXTENDS IngestQueue, TLAPS

\* The inductive invariant: the accounting alone is not inductive for the peak, nor the order for
\* the freshness, so the parts are carried together with the types.
IInv == TypeOK /\ Accounted /\ InOrder /\ Freshest /\ PeakIsHonest

\* What a queue looks like after an item is put behind it.
LEMMA AppendFacts ==
  ASSUME NEW s \in Seq(Nat), NEW e \in Nat
  PROVE  /\ Append(s, e) \in Seq(Nat)
         /\ Len(Append(s, e)) = Len(s) + 1
         /\ Append(s, e)[Len(s) + 1] = e
         /\ \A i \in 1..Len(s) : Append(s, e)[i] = s[i]
  OBVIOUS

\* What a queue that is not empty looks like without its first item.
LEMMA TailFacts ==
  ASSUME NEW s \in Seq(Nat), s # <<>>
  PROVE  /\ Tail(s) \in Seq(Nat)
         /\ Len(s) \in Nat \ {0}
         /\ Len(Tail(s)) = Len(s) - 1
         /\ Head(s) = s[1]
         /\ \A i \in 1..Len(s) - 1 : Tail(s)[i] = s[i + 1]
  OBVIOUS

\* A new queue has a capacity of at least one and nothing in it.
LEMMA InitIInv == Init => IInv
<1> SUFFICES ASSUME Init PROVE IInv
  OBVIOUS
<1>1. capacity \in Nat \ {0}
  BY QueueAssumption DEF Init, Clamped
<1> QED
  BY <1>1 DEF Init, IInv, TypeOK, Accounted, InOrder, Freshest, PeakIsHonest

\* An admission keeps the invariant: the newcomer is newer than all there is.
LEMMA AdmitIInv == IInv /\ Push /\ Admit => IInv'
<1> SUFFICES ASSUME IInv, Push, Admit PROVE IInv'
  OBVIOUS
<1> USE DEF IInv, TypeOK
<1>1. received \in Nat /\ received + 1 \in Nat /\ buf \in Seq(Nat) /\ Len(buf) \in Nat
  OBVIOUS
<1>2. /\ buf' \in Seq(Nat)
      /\ Len(buf') = Len(buf) + 1
      /\ buf'[Len(buf) + 1] = received + 1
      /\ \A i \in 1..Len(buf) : buf'[i] = buf[i]
  BY <1>1, AppendFacts DEF Admit
<1>3. /\ \A i \in 1..Len(buf) : buf[i] \in Nat /\ buf[i] <= received
      /\ last \in Nat /\ last <= received /\ last' = last /\ received' = received + 1
      /\ policy' = policy /\ InOrder /\ Freshest
  BY <1>1 DEF Push
<1>4. TypeOK'
  BY SMTT(30), <1>1, <1>2 DEF Admit, Push, Peak
<1>5. Accounted'
  BY <1>1, <1>2 DEF Admit, Push, Accounted
<1>6. PeakIsHonest'
  BY <1>1, <1>2 DEF Admit, Push, Peak, PeakIsHonest
<1> HIDE DEF IInv, TypeOK
<1>7. InOrder'
  <2>1. ASSUME NEW i \in 1..Len(buf'), NEW j \in 1..Len(buf'), i < j PROVE buf'[i] < buf'[j]
    <3>1. i \in 1..Len(buf) /\ buf'[i] = buf[i]
      BY SMTT(30), <1>1, <1>2, <2>1
    <3>2. CASE j = Len(buf) + 1
      BY SMTT(30), <1>1, <1>2, <1>3, <3>1, <3>2
    <3>3. CASE j # Len(buf) + 1
      <4>1. j \in 1..Len(buf) /\ buf'[j] = buf[j]
        BY SMTT(30), <1>1, <1>2, <3>3
      <4> QED
        BY <1>3, <2>1, <3>1, <4>1 DEF InOrder
    <3> QED
      BY <3>2, <3>3
  <2>2. ASSUME NEW i \in 1..Len(buf') PROVE buf'[i] > last'
    <3>1. CASE i = Len(buf) + 1
      BY <1>1, <1>2, <1>3, <3>1
    <3>2. CASE i # Len(buf) + 1
      <4>1. i \in 1..Len(buf) /\ buf'[i] = buf[i]
        BY <1>1, <1>2, <3>2
      <4> QED
        BY <1>3, <4>1 DEF InOrder
    <3> QED
      BY <3>1, <3>2
  <2> QED
    BY <2>1, <2>2 DEF InOrder
<1>8. Freshest'
  <2> SUFFICES ASSUME policy = "DropOldest", NEW i \in 1..Len(buf')
               PROVE  buf'[i] = received' - Len(buf') + i
    BY <1>3 DEF Freshest
  <2>1. received' - Len(buf') = received - Len(buf)
    BY <1>1, <1>2, <1>3
  <2>2. CASE i = Len(buf) + 1
    BY <1>1, <1>2, <2>1, <2>2
  <2>3. CASE i # Len(buf) + 1
    <3>1. i \in 1..Len(buf) /\ buf'[i] = buf[i]
      BY <1>1, <1>2, <2>3
    <3> QED
      BY <1>3, <2>1, <3>1 DEF Freshest
  <2> QED
    BY <2>2, <2>3
<1> QED
  BY <1>4, <1>5, <1>6, <1>7, <1>8 DEF IInv

\* A refusal keeps it: only the accounting moves, and the queue stands at its capacity.
LEMMA DropNewestIInv == IInv /\ Push /\ DropNewest => IInv'
<1> SUFFICES ASSUME IInv, Push, DropNewest PROVE IInv'
  OBVIOUS
<1> USE DEF IInv, TypeOK, Push, DropNewest
<1>1. Len(buf) \in Nat
  OBVIOUS
<1>2. TypeOK' /\ InOrder'
  BY SMTT(30) DEF InOrder
<1>3. Accounted' /\ PeakIsHonest'
  BY <1>1 DEF Accounted, PeakIsHonest
<1>4. Freshest'
  BY DEF Freshest
<1> QED
  BY <1>2, <1>3, <1>4

\* An eviction keeps it: the queue moves one item up the stream as a whole.
LEMMA DropOldestIInv == IInv /\ Push /\ DropOldest => IInv'
<1> SUFFICES ASSUME IInv, Push, DropOldest PROVE IInv'
  OBVIOUS
<1> USE DEF IInv, TypeOK
<1>1. received \in Nat /\ received + 1 \in Nat /\ buf \in Seq(Nat) /\ buf # <<>>
  BY DEF DropOldest
<1>2. /\ Tail(buf) \in Seq(Nat)
      /\ Len(buf) \in Nat \ {0}
      /\ Len(Tail(buf)) = Len(buf) - 1
      /\ \A i \in 1..Len(buf) - 1 : Tail(buf)[i] = buf[i + 1]
  BY <1>1, TailFacts
<1>3. /\ buf' \in Seq(Nat)
      /\ Len(buf') = Len(buf)
      /\ buf'[Len(buf)] = received + 1
      /\ \A i \in 1..Len(buf) - 1 : buf'[i] = buf[i + 1]
  <2>1. buf' = Append(Tail(buf), received + 1)
    BY DEF DropOldest
  <2>2. /\ Append(Tail(buf), received + 1) \in Seq(Nat)
        /\ Len(Append(Tail(buf), received + 1)) = Len(Tail(buf)) + 1
        /\ Append(Tail(buf), received + 1)[Len(Tail(buf)) + 1] = received + 1
        /\ \A i \in 1..Len(Tail(buf)) : Append(Tail(buf), received + 1)[i] = Tail(buf)[i]
    BY <1>1, <1>2, AppendFacts
  <2> HIDE DEF IInv, TypeOK
  <2> QED
    BY <1>2, <2>1, <2>2
<1>4. /\ received' = received + 1 /\ dropped' = dropped + 1
      /\ high_water' = Peak(Len(buf)) /\ Len(buf) >= capacity
      /\ UNCHANGED <<capacity, policy, popped, last>>
  BY DEF DropOldest, Push
<1>5. /\ \A i \in 1..Len(buf) : buf[i] \in Nat /\ buf[i] <= received
      /\ last \in Nat /\ last <= received /\ dropped \in Nat /\ dropped <= received
      /\ capacity \in Nat \ {0} /\ policy \in Policies /\ popped \in Nat
      /\ high_water \in Nat
      /\ Accounted /\ InOrder /\ Freshest /\ PeakIsHonest
  BY <1>1
<1>len. Len(buf) \in Nat /\ Len(buf) >= 1 /\ Len(buf') = Len(buf)
  BY <1>2, <1>3
<1> HIDE DEF IInv, TypeOK
<1>6. TypeOK'
  <2>1. \A i \in 1..Len(buf') : buf'[i] <= received'
    <3> SUFFICES ASSUME NEW i \in 1..Len(buf') PROVE buf'[i] <= received'
      OBVIOUS
    <3>1. CASE i = Len(buf)
      BY <1>1, <1>3, <1>4, <3>1
    <3>2. CASE i # Len(buf)
      <4>1. i \in 1..Len(buf) - 1 /\ i + 1 \in 1..Len(buf)
        BY <1>len, <3>2
      <4> QED
        BY SMTT(30), <1>1, <1>3, <1>4, <1>5, <4>1
    <3> QED
      BY <3>1, <3>2
  <2>2. high_water' \in 0..capacity'
    BY <1>2, <1>4, <1>5 DEF Peak, PeakIsHonest
  <2> QED
    BY <1>1, <1>3, <1>4, <1>5, <2>1, <2>2 DEF TypeOK
<1>7. Accounted'
  BY <1>1, <1>2, <1>3, <1>4, <1>5 DEF Accounted
<1>8. InOrder'
  <2>1. ASSUME NEW i \in 1..Len(buf'), NEW j \in 1..Len(buf'), i < j PROVE buf'[i] < buf'[j]
    <3>1. i \in 1..Len(buf) - 1 /\ i + 1 \in 1..Len(buf) /\ buf'[i] = buf[i + 1]
      BY SMTT(30), <1>2, <1>3, <2>1
    <3>2. CASE j = Len(buf)
      BY SMTT(30), <1>1, <1>3, <1>5, <3>1, <3>2
    <3>3. CASE j # Len(buf)
      <4>1. j \in 1..Len(buf) - 1 /\ j + 1 \in 1..Len(buf) /\ i + 1 < j + 1
        BY <1>len, <2>1, <3>3
      <4> QED
        BY <1>3, <1>4, <1>5, <3>1, <4>1 DEF InOrder
    <3> QED
      BY <3>2, <3>3
  <2>2. ASSUME NEW i \in 1..Len(buf') PROVE buf'[i] > last'
    <3>1. last' = last /\ last \in Nat /\ last <= received
      BY <1>1, <1>4, <1>5
    <3>2. CASE i = Len(buf)
      BY <1>1, <1>3, <3>1, <3>2
    <3>3. CASE i # Len(buf)
      <4>1. i \in 1..Len(buf) - 1 /\ i + 1 \in 1..Len(buf)
        BY <1>len, <3>3
      <4> QED
        BY <1>3, <1>4, <1>5, <3>1, <4>1 DEF InOrder
    <3> QED
      BY <3>2, <3>3
  <2> QED
    BY <2>1, <2>2 DEF InOrder
<1>9. Freshest'
  <2> SUFFICES ASSUME policy = "DropOldest", NEW i \in 1..Len(buf')
               PROVE  buf'[i] = received' - Len(buf') + i
    BY <1>4 DEF Freshest
  <2>1. CASE i = Len(buf)
    BY <1>1, <1>2, <1>3, <1>4, <2>1
  <2>2. CASE i # Len(buf)
    <3>1. i \in 1..Len(buf) - 1 /\ i + 1 \in 1..Len(buf)
      BY <1>len, <2>2
    <3>2. buf[i + 1] = received - Len(buf) + (i + 1)
      BY <1>5, <3>1 DEF Freshest
    <3> QED
      BY <1>1, <1>2, <1>3, <1>4, <3>1, <3>2
  <2> QED
    BY <2>1, <2>2
<1>10. PeakIsHonest'
  <2>1. Len(buf) <= high_water /\ high_water <= capacity
    BY <1>5 DEF PeakIsHonest
  <2>2. high_water \in Nat /\ capacity \in Nat /\ high_water' = capacity /\ Len(buf) = capacity
    BY <1>len, <1>4, <1>5, <2>1 DEF Peak
  <2> QED
    BY <1>3, <1>4, <2>2 DEF PeakIsHonest
<1> QED
  BY <1>6, <1>7, <1>8, <1>9, <1>10 DEF IInv

\* A pop keeps it: the head is the oldest item, so what remains is newer than it.
LEMMA PopIInv == IInv /\ Pop => IInv'
<1> SUFFICES ASSUME IInv, Pop PROVE IInv'
  OBVIOUS
<1> USE DEF IInv, TypeOK, Pop
<1>1. /\ buf' \in Seq(Nat)
      /\ Len(buf) \in Nat \ {0}
      /\ Len(buf') = Len(buf) - 1
      /\ last' = buf[1]
      /\ \A i \in 1..Len(buf) - 1 : buf'[i] = buf[i + 1]
  BY TailFacts
<1>2. TypeOK'
  BY <1>1
<1>3. Accounted' /\ PeakIsHonest'
  BY <1>1 DEF Accounted, PeakIsHonest
<1>4. InOrder'
  BY <1>1 DEF InOrder
<1>5. Freshest'
  BY <1>1 DEF Freshest
<1> QED
  BY <1>2, <1>3, <1>4, <1>5

\* The invariant holds in every reachable state (backpressure.rs:84-117).
THEOREM Invariant == Spec => []IInv
<1>1. IInv /\ [Next]_vars => IInv'
  <2> SUFFICES ASSUME IInv, [Next]_vars PROVE IInv'
    OBVIOUS
  <2>1. CASE Push
    BY <2>1, AdmitIInv, DropNewestIInv, DropOldestIInv DEF Push
  <2>2. CASE Pop
    BY <2>2, PopIInv
  <2>3. CASE UNCHANGED vars
    BY <2>3 DEF vars, IInv, TypeOK, Accounted, InOrder, Freshest, PeakIsHonest
  <2> QED
    BY <2>1, <2>2, <2>3 DEF Next
<1> QED
  BY InitIInv, <1>1, PTL DEF Spec

\* Every item offered was taken, is queued or is counted as dropped (backpressure.rs:144-154).
THEOREM NothingLostUnaccounted == Spec => []Accounted
  BY Invariant, PTL DEF IInv

\* The queue is in stream order and newer than what was taken, through any number of evictions
\* (backpressure.rs:100-117).
THEOREM OrderSurvives == Spec => []InOrder
  BY Invariant, PTL DEF IInv

\* Under DropOldest the queue is always the latest run of items (backpressure.rs:26-28).
THEOREM FreshestKept == Spec => []Freshest
  BY Invariant, PTL DEF IInv

\* The peak bounds the depth, and a drop only ever happens at the capacity (backpressure.rs:156-160).
THEOREM PeakHonest == Spec => []PeakIsHonest
  BY Invariant, PTL DEF IInv

\* Under DropNewest an admitted item leaves only through a worker (backpressure.rs:96-99).
THEOREM AdmittedItemsSurvive == Spec => AdmittedSurvives
<1>1. IInv /\ [Next]_vars =>
        [policy = "DropNewest" =>
           \A i \in 1..Len(buf) : \/ \E j \in 1..Len(buf') : buf'[j] = buf[i]
                                  \/ last' = buf[i]]_vars
  <2> SUFFICES ASSUME IInv, Next, policy = "DropNewest", NEW i \in 1..Len(buf)
               PROVE  (\E j \in 1..Len(buf') : buf'[j] = buf[i]) \/ last' = buf[i]
    OBVIOUS
  <2>1. buf \in Seq(Nat) /\ Len(buf) \in Nat /\ received + 1 \in Nat
    BY DEF IInv, TypeOK
  <2>2. CASE Admit /\ Push
    <3>1. Len(buf') = Len(buf) + 1 /\ buf'[i] = buf[i]
      BY <2>1, <2>2, AppendFacts DEF Admit
    <3> QED
      BY <2>1, <3>1
  <2>3. CASE DropNewest
    BY <2>3 DEF DropNewest
  <2>4. CASE DropOldest
    BY <2>4 DEF DropOldest
  <2>5. CASE Pop
    <3>1. Len(buf') = Len(buf) - 1 /\ last' = buf[1]
          /\ \A k \in 1..Len(buf) - 1 : buf'[k] = buf[k + 1]
      BY <2>1, <2>5, TailFacts DEF Pop
    <3>2. CASE i = 1
      BY <3>1, <3>2
    <3>3. CASE i # 1
      <4>1. i - 1 \in 1..Len(buf) - 1 /\ (i - 1) + 1 = i
        BY <2>1, <3>3
      <4> QED
        BY <3>1, <4>1
    <3> QED
      BY <3>2, <3>3
  <2> QED
    BY <2>2, <2>3, <2>4, <2>5 DEF Next, Push
<1> QED
  BY Invariant, <1>1, PTL DEF Spec, AdmittedSurvives
=============================================================================
