---------------------------- MODULE EngineProofs ----------------------------
(***************************************************************************)
(* Proofs about the telemetry engine: what it exports fits together, for   *)
(* any capacity of its channel, any observations and any order in which    *)
(* messages, timers and answers reach the loop.                            *)
(***************************************************************************)
EXTENDS Engine, WellFoundedInduction, TLAPS

-----------------------------------------------------------------------------
\* Sums of sequences.

LEMMA Smallest ==
  ASSUME NEW S \in SUBSET Nat, S # {}
  PROVE  \E m \in S : \A k \in S : m <= k
<1>1. \A x, y \in Nat : <<x, y>> \in OpToRel(<, Nat) <=> x < y
  BY DEF OpToRel
<1>2. PICK m \in S : \A k \in S : ~(<<k, m>> \in OpToRel(<, Nat))
  BY NatLessThanWellFounded, WFMin
<1>3. \A k \in S : ~(k < m)
  BY <1>1, <1>2
<1> QED
  BY <1>3

\* f is the sequence of the partial sums of the first n numbers of s.
Sums(f, s, n) == f = [i \in 0..n |-> IF i = 0 THEN 0 ELSE f[i - 1] + s[i]]

\* There are such sums, and they depend on nothing but the numbers summed.
LEMMA SumsExist ==
  ASSUME NEW s, NEW n \in Nat
  PROVE  \E f : Sums(f, s, n)
<1> DEFINE Bad == {k \in Nat : ~\E f : Sums(f, s, k)}
<1> SUFFICES ASSUME Bad # {} PROVE FALSE
  OBVIOUS
<1>1. PICK m \in Bad : \A k \in Bad : m <= k
  BY Smallest
<1>2. m # 0
  <2> DEFINE f == [i \in 0..0 |-> 0]
  <2>1. Sums(f, s, 0)
    BY DEF Sums
  <2> QED
    BY <2>1
<1>3. m - 1 \in Nat /\ m - 1 \notin Bad
  BY <1>1, <1>2
<1>4. PICK f : Sums(f, s, m - 1)
  BY <1>3
<1> DEFINE g == [i \in 0..m |-> IF i = m THEN f[m - 1] + s[m] ELSE f[i]]
<1>5. Sums(g, s, m)
  <2>1. f = [i \in 0..(m - 1) |-> IF i = 0 THEN 0 ELSE f[i - 1] + s[i]]
    BY <1>4 DEF Sums
  <2>2. \A i \in 0..m : g[i] = IF i = 0 THEN 0 ELSE g[i - 1] + s[i]
    <3> SUFFICES ASSUME NEW i \in 0..m PROVE g[i] = IF i = 0 THEN 0 ELSE g[i - 1] + s[i]
      OBVIOUS
    <3>1. CASE i = m
      <4>1. m - 1 \in 0..m /\ m - 1 # m
        BY <1>3
      <4> QED
        BY <3>1, <4>1, <1>2
    <3>2. CASE i # m
      <4>1. i \in 0..(m - 1)
        BY <3>2, <1>3
      <4>2. g[i] = IF i = 0 THEN 0 ELSE f[i - 1] + s[i]
        BY <2>1, <3>2, <4>1
      <4>3. i # 0 => i - 1 \in 0..m /\ i - 1 # m
        BY <4>1, <1>3
      <4> QED
        BY <4>2, <4>3
    <3> QED
      BY <3>1, <3>2
  <2> QED
    BY <2>2 DEF Sums
<1> QED
  BY <1>1, <1>5

LEMMA SumsAgree ==
  ASSUME NEW s, NEW t, NEW n \in Nat, NEW m \in Nat, n <= m,
         \A i \in 1..n : s[i] = t[i],
         NEW f, Sums(f, s, n), NEW g, Sums(g, t, m)
  PROVE  \A i \in 0..n : f[i] = g[i]
<1> DEFINE Bad == {k \in 0..n : f[k] # g[k]}
<1> SUFFICES ASSUME Bad # {} PROVE FALSE
  OBVIOUS
<1>1. PICK k \in Bad : \A j \in Bad : k <= j
  <2>1. Bad \in SUBSET Nat
    OBVIOUS
  <2> HIDE DEF Bad
  <2> QED
    BY <2>1, Smallest
<1>2. /\ \A i \in 0..n : f[i] = IF i = 0 THEN 0 ELSE f[i - 1] + s[i]
      /\ \A i \in 0..m : g[i] = IF i = 0 THEN 0 ELSE g[i - 1] + t[i]
  BY DEF Sums
<1>3. k \in 0..n /\ k \in 0..m /\ f[k] # g[k]
  BY <1>1
<1>4. k # 0
  BY <1>2, <1>3
<1>5. k - 1 \in 0..n /\ k \in 1..n
  BY <1>3, <1>4
<1>6. f[k - 1] = g[k - 1]
  BY <1>1, <1>5
<1>7. f[k] = f[k - 1] + s[k] /\ g[k] = g[k - 1] + t[k] /\ s[k] = t[k]
  BY <1>2, <1>3, <1>4, <1>5
<1> QED
  BY <1>3, <1>6, <1>7

\* The sum of a sequence is the last of its partial sums.
LEMMA TotalIsLastSum ==
  ASSUME NEW s, Len(s) \in Nat, NEW f, Sums(f, s, Len(s))
  PROVE  Total(s) = f[Len(s)]
<1> DEFINE c == CHOOSE h : Sums(h, s, Len(s))
<1>1. Sums(c, s, Len(s))
  BY SumsExist
<1>2. Total(s) = c[Len(s)]
  BY DEF Total, Sums
<1> HIDE DEF c
<1>3. c[Len(s)] = f[Len(s)]
  BY <1>1, SumsAgree
<1> QED
  BY <1>2, <1>3

\* Nothing sums up to zero, and one more number is added to what there was.
LEMMA TotalOfNone == Total(<<>>) = 0
<1>1. Len(<<>>) = 0
  OBVIOUS
<1>2. PICK f : Sums(f, <<>>, 0)
  BY SumsExist
<1>3. f[0] = 0
  BY <1>2 DEF Sums
<1> QED
  BY <1>1, <1>2, <1>3, TotalIsLastSum

LEMMA TotalOfMore ==
  ASSUME NEW n \in Nat, NEW s, Len(s) = n + 1, NEW t, Len(t) = n,
         \A i \in 1..n : s[i] = t[i]
  PROVE  Total(s) = Total(t) + s[n + 1]
<1>1. PICK f : Sums(f, s, n + 1)
  BY SumsExist
<1>2. PICK g : Sums(g, t, n)
  BY SumsExist
<1>3. f[n] = g[n]
  BY SMTT(30), <1>1, <1>2, SumsAgree
<1>4. Total(s) = f[n + 1] /\ Total(t) = g[n]
  BY <1>1, <1>2, TotalIsLastSum
<1>5. f[n + 1] = f[n] + s[n + 1]
  BY <1>1 DEF Sums
<1> QED
  BY <1>3, <1>4, <1>5

-----------------------------------------------------------------------------
\* The invariant.

\* What the loop and the model hold is what was handled; and every exported count is of a stretch
\* of it.
HandledInv ==
  /\ chan \in Seq(Observations \cup {Notice})
  /\ log \in Seq(Observations)
  /\ slots_total = Len(log)
  /\ produced = ProducedIn(Len(log)) /\ skipped = SkippedIn(Len(log))
  /\ exported.slots \in 0..Len(log)
  /\ ScrapesAgree

\* What is counted of a stretch is not changed by what comes after it, and grows by the next.
LEMMA CountedStretch ==
  ASSUME NEW o, log \in Seq(Observations), log' = Append(log, o), o \in Observations
  PROVE  /\ Len(log') = Len(log) + 1 /\ log' \in Seq(Observations)
         /\ \A n \in 0..Len(log) :
               /\ Total([i \in 1..n |-> ProducedOf(log'[i])]) = ProducedIn(n)
               /\ Total([i \in 1..n |-> SkippedOf(log'[i])]) = SkippedIn(n)
         /\ Total([i \in 1..Len(log) + 1 |-> ProducedOf(log'[i])]) = ProducedIn(Len(log)) + ProducedOf(o)
         /\ Total([i \in 1..Len(log) + 1 |-> SkippedOf(log'[i])]) = SkippedIn(Len(log)) + SkippedOf(o)
<1> DEFINE n == Len(log)
<1>1. /\ n \in Nat /\ Len(log') = n + 1 /\ log'[n + 1] = o /\ log' \in Seq(Observations)
      /\ \A i \in 1..n : log'[i] = log[i]
  OBVIOUS
<1> HIDE DEF n
<1>2. ASSUME NEW k \in 0..n
      PROVE  /\ [i \in 1..k |-> ProducedOf(log'[i])] = [i \in 1..k |-> ProducedOf(log[i])]
             /\ [i \in 1..k |-> SkippedOf(log'[i])] = [i \in 1..k |-> SkippedOf(log[i])]
  BY <1>1
<1>3. \A k \in 0..n :
         /\ Total([i \in 1..k |-> ProducedOf(log'[i])]) = ProducedIn(k)
         /\ Total([i \in 1..k |-> SkippedOf(log'[i])]) = SkippedIn(k)
  BY <1>2 DEF ProducedIn, SkippedIn
<1>4. Total([i \in 1..n + 1 |-> ProducedOf(log'[i])]) = ProducedIn(n) + ProducedOf(o)
  <2> DEFINE s == [i \in 1..n + 1 |-> ProducedOf(log'[i])]
             t == [i \in 1..n |-> ProducedOf(log[i])]
  <2>1. Len(s) = n + 1 /\ Len(t) = n /\ s[n + 1] = ProducedOf(o) /\ \A i \in 1..n : s[i] = t[i]
    BY <1>1
  <2> HIDE DEF s, t
  <2>2. Total(s) = Total(t) + s[n + 1]
    BY <1>1, <2>1, TotalOfMore
  <2> QED
    BY <2>1, <2>2 DEF s, t, ProducedIn
<1>5. Total([i \in 1..n + 1 |-> SkippedOf(log'[i])]) = SkippedIn(n) + SkippedOf(o)
  <2> DEFINE s == [i \in 1..n + 1 |-> SkippedOf(log'[i])]
             t == [i \in 1..n |-> SkippedOf(log[i])]
  <2>1. Len(s) = n + 1 /\ Len(t) = n /\ s[n + 1] = SkippedOf(o) /\ \A i \in 1..n : s[i] = t[i]
    BY <1>1
  <2> HIDE DEF s, t
  <2>2. Total(s) = Total(t) + s[n + 1]
    BY <1>1, <2>1, TotalOfMore
  <2> QED
    BY <2>1, <2>2 DEF s, t, SkippedIn
<1> QED
  BY <1>1, <1>3, <1>4, <1>5 DEF n

LEMMA InitHandled == Init => HandledInv
<1> SUFFICES ASSUME Init PROVE HandledInv
  OBVIOUS
<1>1. chan = <<>> /\ log = <<>> /\ slots_total = 0 /\ exported.slots = 0 /\ health = NoHealth
      /\ produced = 0 /\ skipped = 0 /\ Len(log) = 0
  BY DEF Init
<1>2. ProducedIn(0) = 0 /\ SkippedIn(0) = 0
  <2>1. [i \in 1..0 |-> ProducedOf(log[i])] = <<>> /\ [i \in 1..0 |-> SkippedOf(log[i])] = <<>>
    OBVIOUS
  <2> QED
    BY <2>1, TotalOfNone DEF ProducedIn, SkippedIn
<1> QED
  BY <1>1, <1>2 DEF HandledInv, ScrapesAgree

\* A slot that is handled.
LEMMA SlotHandled ==
  ASSUME HandledInv, HandleSlot
  PROVE  HandledInv'
<1> DEFINE o == Head(chan)
<1>1. /\ at = "select" /\ at' = "emitting" /\ chan # <<>> /\ o # Notice
      /\ produced' = produced + ProducedOf(o) /\ skipped' = skipped + SkippedOf(o)
      /\ log' = Append(log, o) /\ slots_total' = slots_total + 1
      /\ chan' = Tail(chan)
      /\ health' = health /\ exported' = exported
  BY DEF HandleSlot
<1>2. /\ o \in Observations
      /\ chan' \in Seq(Observations \cup {Notice})
  BY <1>1 DEF HandledInv
<1> HIDE DEF o
<1>3. log \in Seq(Observations) /\ Len(log) \in Nat /\ exported.slots \in 0..Len(log)
  BY DEF HandledInv
<1>4. /\ Len(log') = Len(log) + 1 /\ log' \in Seq(Observations)
      /\ \A n \in 0..Len(log) : ProducedIn(n)' = ProducedIn(n) /\ SkippedIn(n)' = SkippedIn(n)
      /\ ProducedIn(Len(log))' = ProducedIn(Len(log)) + ProducedOf(o)
      /\ SkippedIn(Len(log))' = SkippedIn(Len(log)) + SkippedOf(o)
  BY <1>1, <1>2, <1>3, CountedStretch DEF ProducedIn, SkippedIn
<1>5. ScrapesAgree'
  <2> DEFINE n == exported.slots
  <2>1. n \in 0..Len(log) /\ n \in 0..Len(log')
    BY <1>3, <1>4
  <2>2. health # NoHealth => health = snapshot(ProducedIn(n), SkippedIn(n), health.floor)
    BY <1>1 DEF HandledInv, ScrapesAgree
  <2>3. ProducedIn(n)' = ProducedIn(n) /\ SkippedIn(n)' = SkippedIn(n)
    BY <1>1, <1>4, <2>1
  <2> QED
    BY <1>1, <1>3, <1>4, <2>1, <2>2, <2>3 DEF ScrapesAgree
<1> QED
  BY <1>1, <1>2, <1>3, <1>4, <1>5 DEF HandledInv

\* The loop's books are kept by a step that handles no slot and exports nothing.
LEMMA BooksKept ==
  ASSUME HandledInv, UNCHANGED <<log, slots_total, produced, skipped, exported, health>>,
         chan' \in Seq(Observations \cup {Notice}),
         (at = "reporting") <=> (at' = "reporting")
  PROVE  HandledInv'
<1>1. ScrapesAgree'
  BY DEF HandledInv, ScrapesAgree, ProducedIn, SkippedIn
<1>2. ProducedIn(Len(log))' = ProducedIn(Len(log)) /\ SkippedIn(Len(log))' = SkippedIn(Len(log))
  BY DEF ProducedIn, SkippedIn
<1> QED
  BY <1>1, <1>2 DEF HandledInv

LEMMA StepHandled ==
  ASSUME HandledInv, [Next]_vars
  PROVE  HandledInv'
<1>1. chan \in Seq(Observations \cup {Notice})
  BY DEF HandledInv
<1>2. ASSUME NEW o \in Observations, TrackedSlot(o) PROVE HandledInv'
  <2>1. chan' \in Seq(Observations \cup {Notice})
    BY <1>1, <1>2 DEF TrackedSlot
  <2> QED
    BY <1>2, <2>1, BooksKept DEF TrackedSlot, loopVars
<1>3. CASE StreamFails
  <2>1. chan' \in Seq(Observations \cup {Notice})
    BY <1>1, <1>3 DEF StreamFails
  <2> QED
    BY <1>3, <2>1, BooksKept DEF StreamFails, loopVars
<1>4. CASE HandleSlot
  BY <1>4, SlotHandled
<1>5. CASE HandleNotice
  <2>1. chan' \in Seq(Observations \cup {Notice})
    BY <1>1, <1>5 DEF HandleNotice
  <2> QED
    BY <1>5, <2>1, BooksKept DEF HandleNotice, loopVars
<1>6. CASE Emitted \/ TipFloorTick \/ TipFloorFails \/ TipFloorFetched \/ UNCHANGED vars
  <2>1. chan' = chan
    BY <1>6 DEF Emitted, TipFloorTick, TipFloorFails, TipFloorFetched, vars, streamVars
  <2>2. (at = "reporting") <=> (at' = "reporting")
    BY <1>6 DEF Emitted, TipFloorTick, TipFloorFails, TipFloorFetched, vars, loopVars
  <2>3. UNCHANGED <<log, slots_total, produced, skipped, exported, health>>
    BY <1>6 DEF Emitted, TipFloorTick, TipFloorFails, TipFloorFetched, vars, loopVars
  <2> QED
    BY <1>1, <2>1, <2>2, <2>3, BooksKept
<1>7. CASE HealthTick
  <2>1. /\ health' = snapshot(produced, skipped, floor) /\ at' = "reporting"
        /\ UNCHANGED <<chan, produced, skipped, slots_total, exported, log>>
    BY <1>7 DEF HealthTick, streamVars
  <2>2. health'.floor = floor
    BY <2>1 DEF snapshot
  <2>3. ScrapesAgree'
    BY <2>1, <2>2 DEF HandledInv, ScrapesAgree, ProducedIn, SkippedIn
  <2>4. ProducedIn(Len(log))' = ProducedIn(Len(log)) /\ SkippedIn(Len(log))' = SkippedIn(Len(log))
    BY <2>1 DEF ProducedIn, SkippedIn
  <2> QED
    BY <2>1, <2>3, <2>4 DEF HandledInv
<1>8. CASE HealthReported
  <2>1. /\ exported'.slots = slots_total /\ at = "reporting" /\ at' = "select"
        /\ UNCHANGED <<chan, produced, skipped, slots_total, health, log>>
    BY <1>8 DEF HealthReported, Exported, streamVars
  <2>2. ScrapesAgree'
    BY <2>1 DEF HandledInv, ScrapesAgree, ProducedIn, SkippedIn
  <2>3. ProducedIn(Len(log))' = ProducedIn(Len(log)) /\ SkippedIn(Len(log))' = SkippedIn(Len(log))
    BY <2>1 DEF ProducedIn, SkippedIn
  <2> QED
    BY <2>1, <2>2, <2>3 DEF HandledInv
<1> QED
  BY <1>2, <1>3, <1>4, <1>5, <1>6, <1>7, <1>8 DEF Next, TakeMessage

\* Whatever the stream's task does meanwhile and in whatever order the timers fire, what a scrape
\* reads is the health of the stretch of the stream that its slot counter counts.
THEOREM ScrapesAlwaysAgree == Spec => []ScrapesAgree
<1>1. HandledInv => ScrapesAgree
  BY DEF HandledInv
<1> QED
  BY <1>1, InitHandled, StepHandled, PTL DEF Spec

=============================================================================
