----------------------------- MODULE LandingProofs -----------------------------
(***************************************************************************)
(* Proofs about the way of a landing from the chain to the lifecycle, for  *)
(* any number of transactions, slots and outages, any capacity of the      *)
(* channel and any rising path of statuses.                                *)
(***************************************************************************)
EXTENDS Landing, FiniteSetTheorems, TLAPS

Statuses == {Path[i] : i \in 2..Len(Path)}
Updates == [kind : {"slot"}, slot : Slots, status : Statuses]
             \cup [kind : {"tx"}, slot : Slots, id : Ids]
Notices == [kind : {"connected"}, slot : Nat \cup {NoSlot}] \cup {StreamError}

-------------------------------------------------------------------------------
(* What is said is true.                                                   *)

(* The slot has come so far.                                               *)
Reached(slot, status) == chain[slot] # "none" /\ Rank(chain[slot]) >= Rank(status)

(* What an update says has happened on the chain.                          *)
Real(m) ==
    /\ m.kind = "slot" => Reached(m.slot, m.status)
    /\ m.kind = "tx" => m.slot = block[m.id] /\ Reached(m.slot, "confirmed")

WorldInv ==
    /\ chain \in [Slots -> Statuses \cup {"none"}]
    /\ block \in [Ids -> Slots \cup {NoSlot}]
    /\ failedTx \subseteq Ids
    /\ log \in Seq(Updates)
    /\ \A i \in 1..Len(log) : Real(log[i])

(* A tracker with a checkpoint that is a slot, or with none.                *)
IsTracker(t) ==
    t \in [status : {t.status}, highest : {t.highest}, start : {t.start},
           checkpoint : Nat \cup {NoSlot}]

StreamInv ==
    /\ IsTracker(tracker)
    /\ conn \in {"new", "down", "live", "replay"}
    /\ inflight \subseteq 1..Len(log)
    /\ ~Up => inflight = {}
    /\ channel \in Seq(Updates \cup Notices)
    /\ \A i \in 1..Len(channel) : channel[i].kind \in {"slot", "tx"} => Real(channel[i])

(* A lifecycle is bound to its transaction's block when it is processed,   *)
(* and to none before.                                                     *)
BundleInv(id) ==
    /\ pending[id].stage \in {"submitted", "processed", "confirmed", "finalized", "failed"}
    /\ pending[id].stage = "submitted" => pending[id].slot = NoSlot
    /\ pending[id].stage \in {"processed", "confirmed", "finalized"} =>
          /\ id \notin failedTx
          /\ block[id] \in Slots /\ pending[id].slot = block[id]
          /\ Reached(block[id], pending[id].stage)
    /\ pending[id].stage = "failed" => id \in failedTx

PendingInv ==
    /\ pending \in [Ids -> [stage : Stage, slot : Slots \cup {NoSlot}]]
    /\ \A id \in Ids : BundleInv(id)

RealInv == WorldInv /\ StreamInv /\ PendingInv

(* What the assumption says of the statuses on the path.                   *)
LEMMA StatusFacts ==
    ASSUME NEW status \in Statuses
    PROVE  /\ status \in SlotStatus \ {"dead"} /\ status # "none"
           /\ Rank(status) \in 0..5
  BY LandingAssumption DEF Statuses, SlotStatus, Rank

(* A slot that advances goes to a status above all it had, and to          *)
(* finalized only from confirmed.                                          *)
LEMMA HeightFacts ==
    ASSUME NEW slot \in Slots, chain[slot] \in Statuses \cup {"none"},
           Height(slot) < Len(Path)
    PROVE  LET next == Path[Height(slot) + 1] IN
             /\ next \in Statuses
             /\ chain[slot] # "none" => Rank(chain[slot]) < Rank(next)
             /\ next = "finalized" => Reached(slot, "confirmed")
<1> DEFINE h == Height(slot)
<1>1. Len(Path) \in Nat /\ DOMAIN Path = 1..Len(Path) /\ 1 \in DOMAIN Path
  BY LandingAssumption
<1>2. \E i \in DOMAIN Path : Path[i] = chain[slot]
  <2>1. CASE chain[slot] = "none"
    BY <1>1, <2>1, LandingAssumption
  <2>2. CASE chain[slot] \in Statuses
    BY <1>1, <2>2 DEF Statuses
  <2> QED
    BY <2>1, <2>2
<1>3. h \in 1..Len(Path) /\ Path[h] = chain[slot]
  BY <1>1, <1>2 DEF Height
<1>4. h + 1 \in 2..Len(Path)
  BY <1>1, <1>3
<1>5. Path[h + 1] \in Statuses
  BY <1>4 DEF Statuses
<1>6. chain[slot] # "none" => h \in 2..Len(Path) /\ Rank(chain[slot]) < Rank(Path[h + 1])
  BY <1>1, <1>3, <1>4, LandingAssumption
<1>7. ASSUME Path[h + 1] = "finalized" PROVE Reached(slot, "confirmed")
  <2>1. PICK c \in 2..Len(Path) : Path[c] = "confirmed"
    BY LandingAssumption
  <2>2. Rank("confirmed") = 4 /\ Rank("finalized") = 5
    BY DEF Rank
  <2>3. ~(h + 1 < c) /\ h + 1 # c
    BY <1>4, <1>7, <2>1, <2>2, LandingAssumption
  <2>4. c <= h /\ h \in 2..Len(Path)
    BY <1>1, <1>3, <2>3
  <2>5. Rank("confirmed") <= Rank(Path[h]) /\ Path[h] # "none"
    <3>1. CASE c = h
      BY <2>1, <2>2, <3>1
    <3>2. CASE c < h
      <4>1. Rank("confirmed") < Rank(Path[h])
        BY <2>1, <2>4, <3>2, LandingAssumption
      <4>2. Path[h] \in Statuses
        BY <2>4 DEF Statuses
      <4> QED
        BY <2>2, <4>1, <4>2, StatusFacts
    <3> QED
      BY <2>4, <3>1, <3>2, <1>3
  <2> QED
    BY <1>3, <2>2, <2>5 DEF Reached
<1> QED
  BY <1>5, <1>6, <1>7

(* A sequence put behind another one.                                      *)
LEMMA JoinFacts ==
    ASSUME NEW a \in Seq(Updates), NEW b \in Seq(Updates)
    PROVE  /\ a \o b \in Seq(Updates) /\ Len(a) \in Nat /\ Len(b) \in Nat
           /\ Len(a \o b) = Len(a) + Len(b)
           /\ \A i \in 1..Len(a) : (a \o b)[i] = a[i]
           /\ \A i \in 1..Len(b) : (a \o b)[Len(a) + i] = b[i]
           /\ \A i \in 1..Len(a \o b) : i \in 1..Len(a) \/ i - Len(a) \in 1..Len(b)
           /\ \A i \in 1..Len(b) : Len(a) + i \in 1..Len(a \o b)
           /\ \A i \in 1..Len(a) : i \in 1..Len(a \o b)
  OBVIOUS

(* What is reported of a slot with a status: the status once, and with     *)
(* confirmed every transaction of its block, and nothing else.             *)
LEMMA ReportFacts ==
    ASSUME block \in [Ids -> Slots \cup {NoSlot}],
           NEW slot \in Slots, NEW status \in Statuses, NEW updates \in Reports(slot, status)
    PROVE  /\ updates \in Seq(Updates) /\ Len(updates) \in Nat
           /\ \A k \in 1..Len(updates) :
                 \/ updates[k] = SlotMsg(slot, status)
                 \/ status = "confirmed" /\ \E id \in Ids : block[id] = slot /\ updates[k] = TxMsg(id)
           /\ \E k \in 1..Len(updates) : updates[k] = SlotMsg(slot, status)
           /\ status = "confirmed" =>
                 \A id \in Ids : block[id] = slot => \E k \in 1..Len(updates) : updates[k] = TxMsg(id)
<1> DEFINE own == <<SlotMsg(slot, status)>>
           S == Contents(slot)
<1>1. SlotMsg(slot, status) \in Updates
  BY DEF SlotMsg, Updates
<1>2. own \in Seq(Updates) /\ Len(own) = 1 /\ own[1] = SlotMsg(slot, status)
  BY <1>1
<1>3. \A m \in S : m \in Updates /\ \E id \in Ids : block[id] = slot /\ m = TxMsg(id)
  BY DEF Contents, TxMsg, Updates
<1>4. \A id \in Ids : block[id] = slot => TxMsg(id) \in S
  BY DEF Contents
<1>5. Cardinality(S) \in Nat
  <2>1. IsFiniteSet({i \in Ids : block[i] = slot})
    BY LandingAssumption, FS_Subset
  <2>2. [i \in {j \in Ids : block[j] = slot} |-> TxMsg(i)] \in Surjection({j \in Ids : block[j] = slot}, S)
    BY DEF Contents, Surjection
  <2>3. IsFiniteSet(S)
    BY <2>1, <2>2, FS_Surjection DEF ExistsSurjection
  <2> QED
    BY <2>3, FS_CardinalityType
<1>6. CASE updates = own /\ status # "confirmed"
  BY <1>2, <1>6
<1>7. ASSUME status = "confirmed", NEW txs \in Bijection(1..Cardinality(S), S)
      PROVE  /\ txs \in Seq(Updates) /\ \A k \in 1..Len(txs) : txs[k] \in S
             /\ \A m \in S : \E k \in 1..Len(txs) : txs[k] = m
  <2>1. txs \in [1..Cardinality(S) -> S] /\ \A m \in S : \E k \in 1..Cardinality(S) : txs[k] = m
    BY <1>7 DEF Bijection, Surjection, Injection, IsInjective
  <2>2. txs \in Seq(S) /\ Len(txs) = Cardinality(S)
    BY <1>5, <2>1
  <2>3. txs \in Seq(Updates)
    BY <1>3, <1>5, <2>1
  <2> QED
    BY <2>1, <2>2, <2>3
<1> HIDE DEF own, S
<1>8. ASSUME status = "confirmed", NEW txs \in Bijection(1..Cardinality(S), S),
             updates = own \o txs \/ updates = txs \o own
      PROVE  /\ updates \in Seq(Updates) /\ Len(updates) \in Nat
             /\ \A k \in 1..Len(updates) : updates[k] = SlotMsg(slot, status) \/ updates[k] \in S
             /\ \E k \in 1..Len(updates) : updates[k] = SlotMsg(slot, status)
             /\ \A m \in S : \E k \in 1..Len(updates) : updates[k] = m
  <2>1. /\ txs \in Seq(Updates) /\ \A k \in 1..Len(txs) : txs[k] \in S
        /\ \A m \in S : \E k \in 1..Len(txs) : txs[k] = m
    BY <1>7, <1>8
  <2>2. CASE updates = own \o txs
    <3>1. /\ own \o txs \in Seq(Updates) /\ Len(own) \in Nat /\ Len(txs) \in Nat
          /\ Len(own \o txs) = Len(own) + Len(txs)
          /\ \A i \in 1..Len(own) : (own \o txs)[i] = own[i]
          /\ \A i \in 1..Len(txs) : (own \o txs)[Len(own) + i] = txs[i]
          /\ \A i \in 1..Len(own \o txs) : i \in 1..Len(own) \/ i - Len(own) \in 1..Len(txs)
          /\ \A i \in 1..Len(txs) : Len(own) + i \in 1..Len(own \o txs)
          /\ \A i \in 1..Len(own) : i \in 1..Len(own \o txs)
      BY <1>2, <2>1, JoinFacts
    <3>2. \A k \in 1..Len(updates) : updates[k] = SlotMsg(slot, status) \/ updates[k] \in S
      <4> TAKE k \in 1..Len(updates)
      <4>1. CASE k \in 1..Len(own)
        BY <1>2, <2>2, <3>1, <4>1
      <4>2. CASE k - Len(own) \in 1..Len(txs)
        <5>1. updates[Len(own) + (k - Len(own))] = txs[k - Len(own)]
          BY <2>2, <3>1, <4>2
        <5>2. Len(own) + (k - Len(own)) = k
          BY <3>1
        <5> QED
          BY <2>1, <4>2, <5>1, <5>2
      <4> QED
        BY <2>2, <3>1, <4>1, <4>2
    <3> QED
      BY <1>2, <2>1, <2>2, <3>1, <3>2
  <2>3. CASE updates = txs \o own
    <3>1. /\ txs \o own \in Seq(Updates) /\ Len(own) \in Nat /\ Len(txs) \in Nat
          /\ Len(txs \o own) = Len(txs) + Len(own)
          /\ \A i \in 1..Len(txs) : (txs \o own)[i] = txs[i]
          /\ \A i \in 1..Len(own) : (txs \o own)[Len(txs) + i] = own[i]
          /\ \A i \in 1..Len(txs \o own) : i \in 1..Len(txs) \/ i - Len(txs) \in 1..Len(own)
          /\ \A i \in 1..Len(own) : Len(txs) + i \in 1..Len(txs \o own)
          /\ \A i \in 1..Len(txs) : i \in 1..Len(txs \o own)
      BY <1>2, <2>1, JoinFacts
    <3>2. \A k \in 1..Len(updates) : updates[k] = SlotMsg(slot, status) \/ updates[k] \in S
      <4> TAKE k \in 1..Len(updates)
      <4>1. CASE k \in 1..Len(txs)
        BY <2>1, <2>3, <3>1, <4>1
      <4>2. CASE k - Len(txs) \in 1..Len(own)
        <5>1. k - Len(txs) = 1 /\ updates[Len(txs) + 1] = own[1]
          BY <1>2, <2>3, <3>1, <4>2
        <5>2. Len(txs) + 1 = k
          BY <3>1, <5>1
        <5> QED
          BY <1>2, <5>1, <5>2
      <4> QED
        BY <2>3, <3>1, <4>1, <4>2
    <3>3. updates[Len(txs) + 1] = SlotMsg(slot, status) /\ Len(txs) + 1 \in 1..Len(updates)
      BY <1>2, <2>3, <3>1
    <3> QED
      BY <2>1, <2>3, <3>1, <3>2, <3>3
  <2> QED
    BY <1>8, <2>2, <2>3
<1>9. CASE status = "confirmed"
  <2>1. PICK txs \in Bijection(1..Cardinality(S), S) : updates = own \o txs \/ updates = txs \o own
    BY <1>9 DEF Reports, own, S
  <2> QED
    BY <1>3, <1>4, <1>8, <1>9, <2>1
<1>10. CASE status # "confirmed"
  BY <1>6, <1>10 DEF Reports, own
<1> QED
  BY <1>9, <1>10

(* A slot advances, and what is reported of it is put behind the log.      *)
LEMMA AdvanceFacts ==
    ASSUME WorldInv, NEW slot \in Slots, ChainAdvances(slot)
    PROVE  \E status \in Statuses :
             /\ chain' = [chain EXCEPT ![slot] = status]
             /\ chain[slot] # "none" => Rank(chain[slot]) < Rank(status)
             /\ status = "finalized" => Reached(slot, "confirmed")
             /\ log' \in Seq(Updates) /\ Len(log) \in Nat /\ Len(log') \in Nat
             /\ Len(log) <= Len(log')
             /\ \A i \in 1..Len(log) : log'[i] = log[i]
             /\ \A i \in Len(log) + 1..Len(log') :
                   \/ log'[i] = SlotMsg(slot, status)
                   \/ status = "confirmed" /\ \E id \in Ids : block[id] = slot /\ log'[i] = TxMsg(id)
             /\ \E i \in Len(log) + 1..Len(log') : log'[i] = SlotMsg(slot, status)
             /\ status = "confirmed" =>
                   \A id \in Ids : block[id] = slot =>
                      \E i \in Len(log) + 1..Len(log') : log'[i] = TxMsg(id)
             /\ DOMAIN log' \ DOMAIN log = Len(log) + 1..Len(log')
<1> DEFINE status == Path[Height(slot) + 1]
<1>1. chain[slot] \in Statuses \cup {"none"} /\ log \in Seq(Updates)
  BY DEF WorldInv
<1>2. /\ status \in Statuses
      /\ chain[slot] # "none" => Rank(chain[slot]) < Rank(status)
      /\ status = "finalized" => Reached(slot, "confirmed")
  BY <1>1, HeightFacts DEF ChainAdvances
<1>3. PICK updates \in Reports(slot, status) :
        chain' = [chain EXCEPT ![slot] = status] /\ log' = log \o updates
  BY DEF ChainAdvances
<1> HIDE DEF status
<1>4. /\ updates \in Seq(Updates) /\ Len(updates) \in Nat
      /\ \A k \in 1..Len(updates) :
            \/ updates[k] = SlotMsg(slot, status)
            \/ status = "confirmed" /\ \E id \in Ids : block[id] = slot /\ updates[k] = TxMsg(id)
      /\ \E k \in 1..Len(updates) : updates[k] = SlotMsg(slot, status)
      /\ status = "confirmed" =>
            \A id \in Ids : block[id] = slot => \E k \in 1..Len(updates) : updates[k] = TxMsg(id)
  BY <1>2, <1>3, ReportFacts DEF WorldInv
<1>5. /\ log' \in Seq(Updates) /\ Len(log) \in Nat /\ Len(log') = Len(log) + Len(updates)
      /\ \A i \in 1..Len(log) : log'[i] = log[i]
      /\ \A i \in 1..Len(updates) : log'[Len(log) + i] = updates[i]
  BY <1>1, <1>3, <1>4, JoinFacts
<1>6. \A i \in Len(log) + 1..Len(log') : i - Len(log) \in 1..Len(updates) /\ log'[i] = updates[i - Len(log)]
  <2> TAKE i \in Len(log) + 1..Len(log')
  <2>1. i - Len(log) \in 1..Len(updates) /\ Len(log) + (i - Len(log)) = i
    BY <1>4, <1>5
  <2> QED
    BY <1>5, <2>1
<1>7. \A k \in 1..Len(updates) : Len(log) + k \in Len(log) + 1..Len(log')
  BY <1>4, <1>5
<1>8. DOMAIN log' \ DOMAIN log = Len(log) + 1..Len(log')
  <2>1. DOMAIN log' = 1..Len(log') /\ DOMAIN log = 1..Len(log) /\ Len(log') \in Nat
    BY <1>1, <1>4, <1>5
  <2> QED
    BY <1>5, <2>1
<1>9. Len(log') \in Nat /\ Len(log) <= Len(log')
  BY <1>4, <1>5
<1>10. ASSUME NEW i \in Len(log) + 1..Len(log')
       PROVE  \/ log'[i] = SlotMsg(slot, status)
              \/ status = "confirmed" /\ \E id \in Ids : block[id] = slot /\ log'[i] = TxMsg(id)
  <2>1. PICK k \in 1..Len(updates) : log'[i] = updates[k]
    BY <1>6
  <2> QED
    BY <1>4, <2>1
<1>11. \E i \in Len(log) + 1..Len(log') : log'[i] = SlotMsg(slot, status)
  <2>1. PICK k \in 1..Len(updates) : updates[k] = SlotMsg(slot, status)
    BY <1>4
  <2> QED
    BY <1>5, <1>7, <2>1
<1>12. ASSUME status = "confirmed", NEW id \in Ids, block[id] = slot
       PROVE  \E i \in Len(log) + 1..Len(log') : log'[i] = TxMsg(id)
  <2>1. PICK k \in 1..Len(updates) : updates[k] = TxMsg(id)
    BY <1>4, <1>12
  <2> QED
    BY <1>5, <1>7, <2>1
<1> QED
  BY <1>2, <1>3, <1>5, <1>8, <1>9, <1>10, <1>11, <1>12

(* What has been reached stays reached.                                    *)
LEMMA ReachedStays ==
    ASSUME WorldInv, [Next]_vars, NEW s \in Slots, NEW status, Rank(status) \in 0..6,
           Reached(s, status)
    PROVE  Reached(s, status)'
<1>1. CASE UNCHANGED chain
  BY <1>1 DEF Reached
<1>2. ASSUME NEW slot \in Slots, ChainAdvances(slot) PROVE Reached(s, status)'
  <2>1. PICK to \in Statuses : /\ chain' = [chain EXCEPT ![slot] = to]
                               /\ chain[slot] # "none" => Rank(chain[slot]) < Rank(to)
    BY <1>2, AdvanceFacts
  <2>2. to # "none" /\ Rank(to) \in 0..5
    BY StatusFacts
  <2>3. chain[s] \in Statuses /\ Rank(chain[s]) \in 0..5
    BY StatusFacts DEF WorldInv, Reached
  <2>4. chain'[s] = IF s = slot THEN to ELSE chain[s]
    BY <2>1 DEF WorldInv
  <2> QED
    BY <2>1, <2>2, <2>3, <2>4 DEF Reached
<1> QED
  BY <1>1, <1>2 DEF Next, Chain, Connect, Errs, StreamEnds, Receive, Consume, Rest, server, vars

(* Updates speak of slots and transactions of the model.                   *)
LEMMA UpdateFacts ==
    ASSUME NEW m \in Updates
    PROVE  /\ m.slot \in Slots /\ m.kind \in {"slot", "tx"}
           /\ m.kind = "slot" => m.status \in Statuses
           /\ m.kind = "tx" => m.id \in Ids
  BY DEF Updates

LEMMA RankTypes ==
    /\ Rank("processed") = 3 /\ Rank("confirmed") = 4 /\ Rank("finalized") = 5
    /\ \A status \in Statuses : Rank(status) \in 0..6
<1>1. Rank("processed") = 3 /\ Rank("confirmed") = 4 /\ Rank("finalized") = 5
  BY DEF Rank
<1>2. ASSUME NEW status \in Statuses PROVE Rank(status) \in 0..6
  BY StatusFacts
<1> QED
  BY <1>1, <1>2

(* What was true when it was reported stays true.                          *)
LEMMA RealStays ==
    ASSUME WorldInv, [Next]_vars, NEW m \in Updates, Real(m)
    PROVE  Real(m)'
<1>1. UNCHANGED <<block, failedTx>>
  BY DEF Next, Chain, ChainAdvances, Connect, Errs, StreamEnds, Receive, Consume, Rest, server, vars
<1> QED
  BY <1>1, UpdateFacts, RankTypes, ReachedStays DEF Real

(* The log grows by true reports only.                                     *)
LEMMA WorldStep == WorldInv /\ [Next]_vars => WorldInv'
<1> SUFFICES ASSUME WorldInv, [Next]_vars PROVE WorldInv'
  OBVIOUS
<1>1. UNCHANGED <<block, failedTx>>
  BY DEF Next, Chain, ChainAdvances, Connect, Errs, StreamEnds, Receive, Consume, Rest, server, vars
<1>2. \A i \in 1..Len(log) : log[i] \in Updates /\ Real(log[i])
  BY DEF WorldInv
<1>3. ASSUME UNCHANGED <<chain, log>> PROVE WorldInv'
  BY <1>1, <1>3 DEF WorldInv, Real, Reached
<1>4. ASSUME NEW slot \in Slots, ChainAdvances(slot) PROVE WorldInv'
  <2>1. PICK status \in Statuses :
          /\ chain' = [chain EXCEPT ![slot] = status]
          /\ log' \in Seq(Updates) /\ Len(log) \in Nat /\ Len(log') \in Nat
          /\ \A i \in 1..Len(log) : log'[i] = log[i]
          /\ \A i \in Len(log) + 1..Len(log') :
                \/ log'[i] = SlotMsg(slot, status)
                \/ status = "confirmed" /\ \E id \in Ids : block[id] = slot /\ log'[i] = TxMsg(id)
    BY <1>4, AdvanceFacts
  <2>2. chain' \in [Slots -> Statuses \cup {"none"}] /\ chain'[slot] = status
    BY <2>1 DEF WorldInv
  <2>3. status # "none" /\ Rank(status) \in 0..5
    BY StatusFacts
  <2>4. ASSUME NEW i \in 1..Len(log') PROVE Real(log[i])'
    <3>1. CASE i \in 1..Len(log)
      <4>1. PICK m \in Updates : m = log[i] /\ Real(m)
        BY <1>2, <3>1
      <4>2. Real(m)' /\ log'[i] = m
        BY <2>1, <3>1, <4>1, RealStays
      <4> QED
        BY <4>2 DEF Real, Reached
    <3>2. CASE log'[i] = SlotMsg(slot, status)
      BY <2>2, <2>3, <3>2 DEF Real, Reached, SlotMsg
    <3>3. ASSUME status = "confirmed", NEW id \in Ids, block[id] = slot, log'[i] = TxMsg(id)
          PROVE  Real(log[i])'
      BY <1>1, <2>2, <2>3, <3>3 DEF Real, Reached, TxMsg
    <3> QED
      BY <2>1, <3>1, <3>2, <3>3
  <2> QED
    BY <1>1, <2>1, <2>2, <2>4 DEF WorldInv
<1> QED
  BY <1>3, <1>4 DEF Next, Chain, Connect, Errs, StreamEnds, Receive, Consume, Rest, server, vars

(* A checkpoint never goes back, whatever the tracker observes.            *)
LEMMA CheckpointRises ==
    ASSUME NEW t, IsTracker(t), NEW slot \in Nat, NEW parent, NEW status
    PROVE  LET n == Observe(t, slot, parent, status).tracker IN
             /\ IsTracker(n)
             /\ t.checkpoint # NoSlot => n.checkpoint # NoSlot /\ n.checkpoint >= t.checkpoint
<1> DEFINE Keeps(n) == IsTracker(n) /\ n.checkpoint = t.checkpoint
           Rises(n) == /\ IsTracker(n)
                       /\ t.checkpoint # NoSlot => n.checkpoint # NoSlot /\ n.checkpoint >= t.checkpoint
<1>1. Keeps(t)
  OBVIOUS
<1>2. ASSUME NEW u, Keeps(u) PROVE Keeps(Noted(u, slot, status))
  <2>1. PICK h, f : Noted(u, slot, status) = [u EXCEPT !.highest = h, !.status = f]
    BY DEF Noted
  <2> DEFINE v == [u EXCEPT !.highest = h, !.status = f]
  <2>2. v.checkpoint = u.checkpoint /\ v.highest = h /\ v.status = f /\ v.start = u.start
    BY <1>2 DEF IsTracker
  <2>3. v \in [status : {f}, highest : {h}, start : {u.start}, checkpoint : Nat \cup {NoSlot}]
    BY <1>2 DEF IsTracker
  <2> QED
    BY SMTT(30), <1>2, <2>1, <2>2, <2>3 DEF IsTracker
<1>3. Keeps(Started(t, slot, parent))
  BY DEF Started, IsTracker
<1>4. ASSUME NEW known PROVE Keeps([t EXCEPT !.status = known])
  BY DEF IsTracker
<1>5. ASSUME NEW u, Keeps(u) PROVE Rises(Checkpointed(u, slot, status))
  <2>1. HigherOf(slot, u.checkpoint) \in Nat
        /\ (u.checkpoint # NoSlot => HigherOf(slot, u.checkpoint) >= u.checkpoint)
    BY <1>5, WindowAssumption DEF HigherOf, IsTracker
  <2>2. CASE Rank(status) >= Rank("completed")
    <3>1. Checkpointed(u, slot, status) = [u EXCEPT !.checkpoint = HigherOf(slot, u.checkpoint)]
      BY <2>2 DEF Checkpointed
    <3> QED
      BY <1>5, <2>1, <3>1, WindowAssumption DEF IsTracker
  <2>3. CASE ~(Rank(status) >= Rank("completed"))
    BY <1>5, <2>3, WindowAssumption DEF Checkpointed, IsTracker
  <2> QED
    BY <2>2, <2>3
<1>6. ASSUME NEW u, Keeps(u) PROVE Rises(u)
  BY <1>6 DEF IsTracker
<1> DEFINE n == Observe(t, slot, parent, status).tracker
<1>7. \/ n = Noted(t, slot, status) \/ n = t
      \/ n = Checkpointed([t EXCEPT !.status = Recorded(t.status, slot, status)], slot, status)
      \/ n = Checkpointed(Noted(Started(t, slot, parent), slot, status), slot, status)
  <2>1. CASE status = "dead"
    BY <2>1 DEF Observe
  <2>2. CASE status # "dead" /\ IsAdvance(t, slot, status)
    BY <2>2 DEF Observe
  <2>3. CASE status # "dead" /\ slot \in DOMAIN t.status /\ ~IsAdvance(t, slot, status)
    BY <2>3 DEF Observe
  <2>4. CASE status # "dead" /\ slot \notin DOMAIN t.status
    BY <2>4 DEF Observe, IsAdvance
  <2> QED
    BY <2>1, <2>2, <2>3, <2>4
<1> HIDE DEF Keeps, Rises, n
<1>8. Rises(n)
  BY <1>1, <1>2, <1>3, <1>4, <1>5, <1>6, <1>7
<1> QED
  BY <1>8 DEF Rises, n

Messages == Updates \cup Notices

(* The channel after a message was put into it, or was lost.               *)
SentOrLost(next, ch, m) ==
    \/ next = ch /\ Len(ch) >= Capacity
    \/ /\ Len(ch) < Capacity
       /\ Len(next) = Len(ch) + 1
       /\ next[Len(ch) + 1] = m
       /\ \A i \in 1..Len(ch) : next[i] = ch[i]

LEMMA SendFacts ==
    ASSUME NEW ch \in Seq(Messages), NEW m \in Messages
    PROVE  /\ TrySend(ch, m) \in Seq(Messages) /\ Len(ch) \in Nat
           /\ SentOrLost(TrySend(ch, m), ch, m)
<1>1. Len(ch) \in Nat /\ Capacity \in Nat
  BY LandingAssumption
<1>2. /\ Append(ch, m) \in Seq(Messages) /\ Len(Append(ch, m)) = Len(ch) + 1
      /\ Append(ch, m)[Len(ch) + 1] = m
      /\ \A i \in 1..Len(ch) : Append(ch, m)[i] = ch[i]
  OBVIOUS
<1>3. CASE Len(ch) < Capacity
  BY <1>1, <1>2, <1>3 DEF TrySend, SentOrLost
<1>4. CASE ~(Len(ch) < Capacity)
  BY <1>1, <1>4 DEF TrySend, SentOrLost
<1> QED
  BY <1>3, <1>4

(* The channel without its first message.                                  *)
LEMMA TakeFacts ==
    ASSUME NEW ch \in Seq(Messages), ch # <<>>
    PROVE  /\ Tail(ch) \in Seq(Messages) /\ Len(ch) \in Nat \ {0} /\ Len(Tail(ch)) = Len(ch) - 1
           /\ Head(ch) = ch[1] /\ Head(ch) \in Messages
           /\ \A i \in 1..Len(ch) - 1 : Tail(ch)[i] = ch[i + 1]
  OBVIOUS

(* What is in the channel is true when what is put into it is.             *)
LEMMA SendReal ==
    ASSUME WorldInv, [Next]_vars, NEW m \in Messages,
           channel \in Seq(Messages),
           \A i \in 1..Len(channel) : channel[i].kind \in {"slot", "tx"} => Real(channel[i]),
           m.kind \in {"slot", "tx"} => Real(m),
           channel' = TrySend(channel, m)
    PROVE  /\ channel' \in Seq(Messages)
           /\ \A i \in 1..Len(channel') : channel'[i].kind \in {"slot", "tx"} => Real(channel[i])'
<1>1. /\ channel' \in Seq(Messages) /\ Len(channel) \in Nat
      /\ \/ channel' = channel
         \/ /\ Len(channel') = Len(channel) + 1
            /\ channel'[Len(channel) + 1] = m
            /\ \A i \in 1..Len(channel) : channel'[i] = channel[i]
  BY SendFacts DEF SentOrLost
<1>2. \A x \in Messages : x.kind \in {"slot", "tx"} => x \in Updates
  BY DEF Messages, Notices, StreamError
<1>3. \A i \in 1..Len(channel) : channel[i] \in Messages
  OBVIOUS
<1>4. ASSUME NEW i \in 1..Len(channel'), channel'[i].kind \in {"slot", "tx"}
      PROVE  Real(channel[i])'
  <2>1. PICK x \in Messages : x = channel'[i] /\ (x.kind \in {"slot", "tx"} => Real(x))
    <3>1. CASE channel' = channel
      BY <1>3, <3>1
    <3>2. CASE channel' # channel /\ i = Len(channel) + 1
      BY <1>1, <3>2
    <3>3. CASE channel' # channel /\ i \in 1..Len(channel)
      BY <1>1, <1>3, <3>3
    <3> QED
      BY <1>1, <3>1, <3>2, <3>3
  <2>2. Real(x)'
    BY <1>2, <1>4, <2>1, RealStays
  <2> QED
    BY <2>1, <2>2 DEF Real, Reached
<1> QED
  BY <1>1, <1>4

(* What the server sent is true when it is received, and what waits in the *)
(* channel is true whenever it is taken.                                   *)
LEMMA StreamStep == WorldInv /\ StreamInv /\ [Next]_vars => StreamInv'
<1> SUFFICES ASSUME WorldInv, StreamInv, [Next]_vars PROVE StreamInv'
  OBVIOUS
<1>1. /\ channel \in Seq(Messages)
      /\ \A i \in 1..Len(channel) : channel[i].kind \in {"slot", "tx"} => Real(channel[i])
  BY DEF StreamInv, Messages
<1>2. log \in Seq(Updates) /\ Len(log) \in Nat /\ DOMAIN log = 1..Len(log)
  BY DEF WorldInv
<1>3. ASSUME UNCHANGED channel
      PROVE  /\ channel' \in Seq(Messages)
             /\ \A i \in 1..Len(channel') : channel'[i].kind \in {"slot", "tx"} => Real(channel[i])'
  <2>1. \A i \in 1..Len(channel) : channel[i] \in Messages
    BY <1>1
  <2>2. ASSUME NEW i \in 1..Len(channel), channel[i].kind \in {"slot", "tx"}
        PROVE  Real(channel[i])'
    <3>1. PICK x \in Updates : x = channel[i]
      BY <2>1, <2>2 DEF Messages, Notices, StreamError
    <3>2. Real(x)'
      BY <1>1, <2>2, <3>1, RealStays
    <3> QED
      BY <1>3, <3>1, <3>2 DEF Real, Reached
  <2> QED
    BY <1>1, <1>3, <2>2
<1>4. ASSUME NEW slot \in Slots, ChainAdvances(slot) PROVE StreamInv'
  <2>1. /\ Len(log') \in Nat /\ Len(log) <= Len(log')
        /\ DOMAIN log' \ DOMAIN log = Len(log) + 1..Len(log')
    BY <1>4, AdvanceFacts
  <2>2. /\ inflight' = IF Up THEN inflight \cup (DOMAIN log' \ DOMAIN log) ELSE inflight
        /\ UNCHANGED <<conn, tracker, channel>>
    BY <1>4 DEF ChainAdvances, client
  <2>3. inflight' \subseteq 1..Len(log')
    BY <1>2, <2>1, <2>2 DEF StreamInv
  <2> QED
    BY <1>3, <2>2, <2>3 DEF StreamInv, Messages, Up
<1>5. CASE Connect
  <2> DEFINE from == ReplayFrom(tracker)
  <2>1. from \in Nat \cup {NoSlot}
    BY DEF StreamInv, IsTracker, ReplayFrom
  <2>2. Connected(from) \in Messages /\ Connected(from).kind = "connected"
    BY <2>1 DEF Messages, Notices, Connected
  <2>3. channel' = TrySend(channel, Connected(from))
    BY <1>5 DEF Connect
  <2> HIDE DEF from
  <2>4. /\ channel' \in Seq(Messages)
        /\ \A i \in 1..Len(channel') : channel'[i].kind \in {"slot", "tx"} => Real(channel[i])'
    BY <1>1, <2>2, <2>3, SendReal
  <2>5. /\ conn' \in {"live", "replay"} /\ inflight' \subseteq DOMAIN log /\ UNCHANGED <<log, tracker>>
    BY <1>5 DEF Connect, server
  <2> QED
    BY <1>2, <2>4, <2>5 DEF StreamInv, Messages, Up
<1>6. CASE Errs
  <2>1. StreamError \in Messages /\ StreamError.kind = "error"
    BY DEF Messages, Notices, StreamError
  <2>2. /\ channel' = TrySend(channel, StreamError)
        /\ conn' \in {"new", "down"} /\ inflight' = {} /\ UNCHANGED <<log, tracker>>
    BY <1>6 DEF Errs, Break, server
  <2>3. /\ channel' \in Seq(Messages)
        /\ \A i \in 1..Len(channel') : channel'[i].kind \in {"slot", "tx"} => Real(channel[i])'
    BY <1>1, <2>1, <2>2, SendReal
  <2> QED
    BY <2>2, <2>3 DEF StreamInv, Messages, Up
<1>7. CASE StreamEnds
  BY <1>3, <1>7 DEF StreamEnds, Break, server, client, StreamInv, Messages, Up
<1>8. CASE Receive
  <2>1. PICK n \in inflight :
          /\ tracker' = IF log[n].kind = "slot"
                        THEN Observe(tracker, log[n].slot, log[n].slot - 1, log[n].status).tracker
                        ELSE tracker
          /\ Forward(log[n]) /\ inflight' = inflight \ {n} /\ UNCHANGED <<log, conn>>
    BY <1>8 DEF Receive, server
  <2>2. n \in 1..Len(log) /\ log[n] \in Updates /\ Real(log[n]) /\ log[n].slot \in Nat
    BY <1>2, UpdateFacts DEF WorldInv, StreamInv, Slots
  <2>3. channel' = TrySend(channel, log[n])
    BY <2>1 DEF Forward
  <2>4. PICK m \in Updates : m = log[n]
    BY <2>2
  <2>5. /\ channel' \in Seq(Messages)
        /\ \A i \in 1..Len(channel') : channel'[i].kind \in {"slot", "tx"} => Real(channel[i])'
    BY <1>1, <2>2, <2>3, <2>4, SendReal DEF Messages
  <2>6. IsTracker(tracker')
    BY <2>1, <2>2, CheckpointRises DEF StreamInv
  <2> QED
    BY <2>1, <2>5, <2>6 DEF StreamInv, Messages, Up, IsTracker
<1>9. CASE Consume
  <2>1. channel # <<>> /\ channel' = Tail(channel) /\ UNCHANGED <<chain, block, log, conn, inflight, tracker>>
    BY <1>9 DEF Consume, server
  <2>2. /\ channel' \in Seq(Messages) /\ Len(channel) \in Nat /\ Len(channel') = Len(channel) - 1
        /\ \A i \in 1..Len(channel') : channel'[i] = channel[i + 1] /\ i + 1 \in 1..Len(channel)
    BY <1>1, <2>1, TakeFacts
  <2>3. \A i \in 1..Len(channel') : channel'[i].kind \in {"slot", "tx"} => Real(channel[i])'
    BY <1>1, <2>1, <2>2 DEF Real, Reached
  <2> QED
    BY <2>1, <2>2, <2>3 DEF StreamInv, Messages, Up
<1>10. CASE Rest \/ UNCHANGED vars
  BY <1>3, <1>10 DEF Rest, vars, StreamInv, Messages, Up
<1> QED
  BY <1>4, <1>5, <1>6, <1>7, <1>8, <1>9, <1>10 DEF Next, Chain

(* What a transaction report does to its lifecycle: it is bound to its     *)
(* block, or failed, the first time, and nothing afterwards.               *)
LEMMA TxEffect ==
    ASSUME PendingInv, NEW id \in Ids, NEW slot \in Slots
    PROVE  TxStatus(pending[id], slot, id \in failedTx) =
             IF pending[id].stage # "submitted" THEN pending[id]
             ELSE IF id \in failedTx THEN [pending[id] EXCEPT !.stage = "failed"]
             ELSE [[pending[id] EXCEPT !.stage = "processed"] EXCEPT !.slot = slot]
<1>1. BundleInv(id)
  BY DEF PendingInv
<1>2. CASE id \in failedTx
  <2>1. pending[id].stage \in {"submitted", "failed"}
    BY <1>1, <1>2 DEF BundleInv
  <2> QED
    BY <1>2, <2>1 DEF TxStatus, Advance, CanTransitionTo, Stage
<1>3. CASE id \notin failedTx
  <2>1. pending[id].stage \in {"submitted", "processed", "confirmed", "finalized"}
    BY <1>1, <1>3 DEF BundleInv
  <2> QED
    BY <1>3, <2>1 DEF TxStatus, Advance, CanTransitionTo, Stage
<1> QED
  BY <1>2, <1>3

Followed(bundle, slot, status) ==
    IF ImpliesStage(status) /\ bundle.slot = slot /\ ~IsTerminal(bundle.stage)
    THEN Advance(bundle, SlotStatusToStage(status)) ELSE bundle

(* What a slot report does to a lifecycle: it follows from processed on,   *)
(* and only in its own block.                                              *)
LEMMA SlotEffect ==
    ASSUME PendingInv, NEW id \in Ids, NEW slot \in Slots, NEW status \in Statuses
    PROVE  /\ \/ Followed(pending[id], slot, status) = pending[id]
              \/ /\ Followed(pending[id], slot, status) = [pending[id] EXCEPT !.stage = status]
                 /\ status \in {"confirmed", "finalized"}
                 /\ pending[id].stage \in {"processed", "confirmed"}
                 /\ pending[id].slot = slot /\ block[id] = slot
           /\ (status = "finalized" /\ block[id] = slot /\ pending[id].stage # "submitted")
                 => Followed(pending[id], slot, status).stage \in {"finalized", "failed"}
<1>1. BundleInv(id) /\ pending[id] \in [stage : Stage, slot : Slots \cup {NoSlot}]
  BY DEF PendingInv
<1>2. status # "dead" /\ slot # NoSlot
  BY StatusFacts, WindowAssumption DEF Slots
<1>3. CASE pending[id].stage \in {"submitted", "finalized", "failed"}
  BY <1>1, <1>2, <1>3 DEF BundleInv, Followed, IsTerminal
<1>4. CASE pending[id].stage \in {"processed", "confirmed"}
  <2>1. pending[id].slot = block[id]
    BY <1>1, <1>4 DEF BundleInv
  <2>2. CASE block[id] # slot \/ ~ImpliesStage(status)
    BY <2>1, <2>2 DEF Followed, ImpliesStage
  <2>3. CASE block[id] = slot /\ ImpliesStage(status)
    <3>1. Followed(pending[id], slot, status) = Advance(pending[id], status)
      BY <1>2, <1>4, <2>1, <2>3 DEF Followed, IsTerminal, SlotStatusToStage
    <3>2. status \in {"processed", "confirmed", "finalized"}
      BY <1>2, <2>3 DEF ImpliesStage
    <3>3. Advance(pending[id], status) = [pending[id] EXCEPT !.stage = status]
          \/ Advance(pending[id], status) = pending[id]
      BY DEF Advance
    <3>4. status = "finalized" =>
            Advance(pending[id], status) = [pending[id] EXCEPT !.stage = status]
      BY <1>4 DEF Advance, CanTransitionTo
    <3>5. status = "processed" => Advance(pending[id], status) = pending[id]
      BY <1>4 DEF Advance, CanTransitionTo
    <3>6. [pending[id] EXCEPT !.stage = status].stage = status
      BY <1>1
    <3> QED
      BY <1>4, <2>1, <2>3, <3>1, <3>2, <3>3, <3>4, <3>5, <3>6
  <2> QED
    BY <2>2, <2>3
<1> QED
  BY <1>1, <1>3, <1>4 DEF BundleInv

(* What the consumer does with the first message of the channel.           *)
LEMMA ConsumeFacts ==
    ASSUME RealInv, Consume
    PROVE  \E m \in Messages :
             /\ m = channel[1] /\ channel # <<>>
             /\ m.kind \in {"tx", "slot"} => m \in Updates /\ Real(m)
             /\ m.kind = "tx" =>
                   /\ pending' = [pending EXCEPT ![m.id] = TxStatus(pending[m.id], m.slot, m.id \in failedTx)]
                   /\ m.id \in Ids /\ m.slot \in Slots
             /\ m.kind = "slot" =>
                   /\ pending' = [id \in Ids |-> Followed(pending[id], m.slot, m.status)]
                   /\ m.slot \in Slots /\ m.status \in Statuses
             /\ m.kind \notin {"tx", "slot"} => pending' = pending
<1>1. channel \in Seq(Messages) /\ channel # <<>>
  BY DEF RealInv, StreamInv, Messages, Consume
<1>2. Head(channel) \in Messages /\ Head(channel) = channel[1] /\ Len(channel) \in Nat \ {0}
  BY <1>1, TakeFacts
<1>3. PICK m \in Messages : m = Head(channel)
  BY <1>2
<1>4. m.kind \in {"tx", "slot"} => m \in Updates
  BY DEF Messages, Notices, StreamError
<1>5. m.kind \in {"tx", "slot"} => Real(m)
  <2>1. 1 \in 1..Len(channel)
    BY <1>2
  <2>2. channel[1].kind \in {"slot", "tx"} => Real(channel[1])
    BY <2>1 DEF RealInv, StreamInv
  <2> QED
    BY <1>2, <1>3, <2>2
<1>6. pending' = CASE m.kind = "tx"   -> OnTxStatus(pending, m.id, m.slot, m.id \in failedTx)
                   [] m.kind = "slot" -> OnSlotStatus(pending, m.slot, m.status)
                   [] OTHER           -> pending
  BY <1>3 DEF Consume
<1>7. DOMAIN pending = Ids
  BY DEF RealInv, PendingInv
<1>8. m.kind = "slot" => pending' = [id \in Ids |-> Followed(pending[id], m.slot, m.status)]
  BY <1>6, <1>7 DEF OnSlotStatus, Followed
<1>9. m.kind = "tx" => pending' = [pending EXCEPT ![m.id] = TxStatus(pending[m.id], m.slot, m.id \in failedTx)]
  BY <1>6 DEF OnTxStatus
<1>10. m.kind \notin {"tx", "slot"} => pending' = pending
  BY <1>6
<1> QED
  BY <1>1, <1>2, <1>3, <1>4, <1>5, <1>8, <1>9, <1>10, UpdateFacts

(* A lifecycle never says more than the chain.                             *)
LEMMA PendingStep == RealInv /\ [Next]_vars => PendingInv'
<1> SUFFICES ASSUME RealInv, [Next]_vars PROVE PendingInv'
  OBVIOUS
<1>1. UNCHANGED <<block, failedTx>>
  BY DEF Next, Chain, ChainAdvances, Connect, Errs, StreamEnds, Receive, Consume, Rest, server, vars
<1>2. pending \in [Ids -> [stage : Stage, slot : Slots \cup {NoSlot}]] /\ PendingInv /\ WorldInv
  BY DEF RealInv, PendingInv
<1>3. ASSUME NEW id \in Ids, pending'[id] = pending[id] PROVE BundleInv(id)'
  <2>1. BundleInv(id)
    BY <1>2 DEF PendingInv
  <2>2. ASSUME NEW stage \in {"processed", "confirmed", "finalized"}, block[id] \in Slots,
               Reached(block[id], stage)
        PROVE  Reached(block[id], stage)'
    <3>1. Rank(stage) \in 0..6
      BY RankTypes
    <3>2. PICK sl \in Slots : sl = block[id]
      BY <2>2
    <3>3. Reached(sl, stage)'
      BY <1>2, <2>2, <3>1, <3>2, ReachedStays
    <3> QED
      BY <1>1, <3>2, <3>3 DEF Reached
  <2> QED
    BY <1>1, <1>3, <2>1, <2>2 DEF BundleInv
<1>4. ASSUME UNCHANGED pending PROVE PendingInv'
  BY <1>2, <1>3, <1>4 DEF PendingInv
<1>5. CASE Consume
  <2> USE <1>2
  <2>1. PICK m \in Messages :
          /\ m.kind \in {"tx", "slot"} => Real(m)
          /\ m.kind = "tx" =>
                /\ pending' = [pending EXCEPT ![m.id] = TxStatus(pending[m.id], m.slot, m.id \in failedTx)]
                /\ m.id \in Ids /\ m.slot \in Slots
          /\ m.kind = "slot" =>
                /\ pending' = [id \in Ids |-> Followed(pending[id], m.slot, m.status)]
                /\ m.slot \in Slots /\ m.status \in Statuses
          /\ m.kind \notin {"tx", "slot"} => pending' = pending
    BY <1>5, ConsumeFacts
  <2>2. UNCHANGED chain
    BY <1>5 DEF Consume, server
  <2>3. CASE m.kind = "tx"
    <3> DEFINE id == m.id
    <3>1. /\ id \in Ids /\ m.slot = block[id] /\ m.slot \in Slots /\ Reached(m.slot, "confirmed")
          /\ pending' = [pending EXCEPT ![id] = TxStatus(pending[id], m.slot, id \in failedTx)]
      BY <2>1, <2>3 DEF Real
    <3>2. Reached(m.slot, "processed")
      <4>1. chain[m.slot] \in Statuses
        BY <3>1 DEF WorldInv, Reached
      <4>2. Rank(chain[m.slot]) \in 0..6
        BY <4>1, RankTypes
      <4> QED
        BY <3>1, <4>2, RankTypes DEF Reached
    <3>3. pending[id].stage # "submitted" => pending' = pending
      BY <3>1, TxEffect
    <3>4. pending[id].stage = "submitted" =>
            /\ pending' = [pending EXCEPT ![id] = pending'[id]]
            /\ pending'[id] = IF id \in failedTx THEN [pending[id] EXCEPT !.stage = "failed"]
                              ELSE [[pending[id] EXCEPT !.stage = "processed"] EXCEPT !.slot = m.slot]
      BY <3>1, TxEffect
    <3>5. ASSUME pending[id].stage = "submitted" PROVE PendingInv'
      <4>1. pending[id] \in [stage : Stage, slot : Slots \cup {NoSlot}]
        BY <3>1
      <4>2. pending'[id] \in [stage : Stage, slot : Slots \cup {NoSlot}]
        <5>1. [pending[id] EXCEPT !.stage = "failed"] \in [stage : Stage, slot : Slots \cup {NoSlot}]
          BY <4>1 DEF Stage
        <5>2. [pending[id] EXCEPT !.stage = "processed"] \in [stage : Stage, slot : Slots \cup {NoSlot}]
          BY <4>1 DEF Stage
        <5> DEFINE b == [pending[id] EXCEPT !.stage = "processed"]
        <5> HIDE DEF b
        <5>3. [b EXCEPT !.slot = m.slot] \in [stage : Stage, slot : Slots \cup {NoSlot}]
          BY <3>1, <5>2 DEF b
        <5> QED
          BY <3>4, <3>5, <5>1, <5>3 DEF b
      <4>3. /\ pending'[id].stage = IF id \in failedTx THEN "failed" ELSE "processed"
            /\ id \notin failedTx => pending'[id].slot = m.slot
        BY <3>4, <3>5, <4>1
      <4>4. BundleInv(id)'
        BY <1>1, <2>2, <3>1, <3>2, <4>3 DEF BundleInv, Reached
      <4>5. pending' \in [Ids -> [stage : Stage, slot : Slots \cup {NoSlot}]]
        BY <3>4, <3>5, <4>2
      <4>6. \A e \in Ids : e # id => pending'[e] = pending[e]
        BY <3>4, <3>5
      <4> QED
        BY <1>3, <4>4, <4>5, <4>6 DEF PendingInv
    <3> QED
      BY <1>4, <3>3, <3>5
  <2>4. CASE m.kind = "slot"
    <3>1. ASSUME NEW id \in Ids
          PROVE  /\ BundleInv(id)'
                 /\ pending'[id] \in [stage : Stage, slot : Slots \cup {NoSlot}]
      <4>1. pending'[id] = Followed(pending[id], m.slot, m.status) /\ m.slot \in Slots /\ m.status \in Statuses
        BY <2>1, <2>4
      <4>2. CASE pending'[id] = pending[id]
        BY <1>3, <4>2
      <4>3. CASE /\ pending'[id] = [pending[id] EXCEPT !.stage = m.status]
                 /\ m.status \in {"confirmed", "finalized"}
                 /\ pending[id].stage \in {"processed", "confirmed"}
                 /\ pending[id].slot = m.slot /\ block[id] = m.slot
        <5>1. pending[id] \in [stage : Stage, slot : Slots \cup {NoSlot}] /\ BundleInv(id)
          BY DEF PendingInv
        <5>2. pending'[id].stage = m.status /\ pending'[id].slot = m.slot
          BY <4>3, <5>1
        <5>3. Reached(m.slot, m.status)
          BY <2>1, <2>4 DEF Real
        <5>4. pending'[id] \in [stage : Stage, slot : Slots \cup {NoSlot}]
          BY <4>3, <5>1 DEF Stage
        <5> QED
          BY <1>1, <2>2, <4>1, <4>3, <5>1, <5>2, <5>3, <5>4 DEF BundleInv, Reached
      <4> QED
        BY <4>1, <4>2, <4>3, SlotEffect
    <3> QED
      BY <2>1, <2>4, <3>1 DEF PendingInv
  <2> QED
    BY <1>4, <2>1, <2>3, <2>4
<1> QED
  BY <1>4, <1>5 DEF Next, Chain, ChainAdvances, Connect, Errs, StreamEnds, Receive, Rest, vars

(* Chain, stream and lifecycles keep to what has happened.                 *)
LEMMA RealInductive == Spec => []RealInv
<1>1. Init => RealInv
  <2> SUFFICES ASSUME Init PROVE RealInv
    OBVIOUS
  <2>1. WorldInv
    BY DEF Init, WorldInv
  <2>2. StreamInv
    BY DEF Init, StreamInv, IsTracker, NewTracker, Up
  <2>3. PendingInv
    BY DEF Init, PendingInv, BundleInv, NewBundle, Stage
  <2> QED
    BY <2>1, <2>2, <2>3 DEF RealInv
<1>2. RealInv /\ [Next]_vars => RealInv'
  BY WorldStep, StreamStep, PendingStep DEF RealInv
<1> QED
  BY <1>1, <1>2, PTL DEF Spec

(* No outage, replay, rejection, loss or order of updates makes a lifecycle*)
(* say more than the chain does (proof_run.rs:213-235, pending.rs).        *)
THEOREM LandingsAreReal == Spec => []LandingIsReal
<1>1. RealInv => LandingIsReal
  <2> SUFFICES ASSUME RealInv, NEW id \in Ids
               PROVE  /\ ReachedConfirmed(pending[id].stage) \/ pending[id].stage = "processed" =>
                            /\ id \notin failedTx
                            /\ block[id] # NoSlot /\ pending[id].slot = block[id]
                            /\ Rank(chain[block[id]]) >= Rank(pending[id].stage)
                      /\ pending[id].stage = "failed" => id \in failedTx
    BY DEF LandingIsReal
  <2>1. BundleInv(id)
    BY DEF RealInv, PendingInv
  <2> QED
    BY <2>1, WindowAssumption DEF BundleInv, ReachedConfirmed, Reached, Slots
<1> QED
  BY <1>1, RealInductive, PTL

-------------------------------------------------------------------------------
(* What is received is accounted for.                                      *)

CountInv ==
    /\ counters \in [received : Nat, dropped : Nat, reconnects : Nat]
    /\ handled \in Nat
    /\ DropsAreCounted

LEMMA WaitingFacts ==
    ASSUME channel \in Seq(Messages)
    PROVE  IsFiniteSet(Waiting) /\ Cardinality(Waiting) \in Nat
<1>1. Len(channel) \in Nat /\ DOMAIN channel = 1..Len(channel)
  OBVIOUS
<1>2. Waiting \subseteq 1..Len(channel)
  BY <1>1 DEF Waiting
<1>3. IsFiniteSet(1..Len(channel))
  BY <1>1, FS_Interval
<1> QED
  BY <1>2, <1>3, FS_Subset, FS_CardinalityType

(* A message that was sent waits, unless the channel was full; notices do  *)
(* not count.                                                              *)
LEMMA WaitingSend ==
    ASSUME channel \in Seq(Messages), NEW m \in Messages, channel' = TrySend(channel, m)
    PROVE  Cardinality(Waiting') = Cardinality(Waiting)
             + IF Len(channel) < Capacity /\ m.kind \in {"tx", "slot"} THEN 1 ELSE 0
<1>1. /\ channel' \in Seq(Messages) /\ Len(channel) \in Nat /\ Capacity \in Nat
      /\ \/ channel' = channel /\ Len(channel) >= Capacity
         \/ /\ Len(channel) < Capacity
            /\ Len(channel') = Len(channel) + 1
            /\ channel'[Len(channel) + 1] = m
            /\ \A i \in 1..Len(channel) : channel'[i] = channel[i]
  <2>1. channel' \in Seq(Messages) /\ Len(channel) \in Nat /\ SentOrLost(channel', channel, m)
    BY SendFacts
  <2>2. Capacity \in Nat
    BY LandingAssumption
  <2> QED
    BY <2>1, <2>2 DEF SentOrLost
<1>2. IsFiniteSet(Waiting) /\ Cardinality(Waiting) \in Nat
  BY WaitingFacts
<1>3. DOMAIN channel = 1..Len(channel) /\ DOMAIN channel' = 1..Len(channel') /\ Len(channel') \in Nat
  BY <1>1
<1>4. CASE ~(Len(channel) < Capacity)
  <2>1. channel' = channel
    BY <1>1, <1>4
  <2>2. Waiting' = Waiting
    BY <2>1 DEF Waiting
  <2> QED
    BY <1>2, <1>4, <2>2
<1>5. CASE Len(channel) < Capacity
  <2>1. /\ Len(channel') = Len(channel) + 1
        /\ channel'[Len(channel) + 1] = m
        /\ \A i \in 1..Len(channel) : channel'[i] = channel[i]
    BY <1>1, <1>5
  <2> DEFINE n == Len(channel) + 1
  <2>2. /\ \A i \in 1..n : i = n \/ i \in 1..Len(channel)
        /\ \A i \in 1..Len(channel) : i \in 1..n
        /\ n \in 1..n /\ n \notin 1..Len(channel)
    BY <1>1
  <2>3. /\ Waiting = {i \in 1..Len(channel) : channel[i].kind \in {"tx", "slot"}}
        /\ Waiting' = {i \in 1..n : channel'[i].kind \in {"tx", "slot"}}
    BY <1>3, <2>1 DEF Waiting
  <2>4. n \notin Waiting
    BY <2>2, <2>3
  <2> HIDE DEF n
  <2>5. CASE m.kind \in {"tx", "slot"}
    <3>1. Waiting' = Waiting \cup {n}
      BY <2>1, <2>2, <2>3, <2>5 DEF n
    <3> QED
      BY <1>2, <1>5, <2>4, <2>5, <3>1, FS_AddElement
  <2>6. CASE m.kind \notin {"tx", "slot"}
    <3>1. Waiting' = Waiting
      BY <2>1, <2>2, <2>3, <2>6 DEF n
    <3> QED
      BY <1>2, <1>5, <2>6, <3>1
  <2> QED
    BY <2>5, <2>6
<1> QED
  BY <1>4, <1>5

(* A message that is taken waits no more, and the others still do.         *)
LEMMA WaitingTake ==
    ASSUME channel \in Seq(Messages), channel # <<>>, channel' = Tail(channel)
    PROVE  Cardinality(Waiting') = Cardinality(Waiting)
             - IF channel[1].kind \in {"tx", "slot"} THEN 1 ELSE 0
<1>1. /\ channel' \in Seq(Messages) /\ Len(channel) \in Nat \ {0} /\ Len(channel') = Len(channel) - 1
      /\ \A i \in 1..Len(channel) - 1 : channel'[i] = channel[i + 1]
  BY TakeFacts
<1>2. IsFiniteSet(Waiting) /\ Cardinality(Waiting) \in Nat
  BY WaitingFacts
<1>3. DOMAIN channel = 1..Len(channel) /\ DOMAIN channel' = 1..Len(channel')
  BY <1>1
<1> DEFINE rest == Waiting \ {1}
           shift == [i \in rest |-> i - 1]
<1>4. \A i \in rest : i \in 2..Len(channel) /\ i - 1 \in Waiting'
  BY <1>1, <1>3 DEF Waiting
<1>5. \A k \in Waiting' : k + 1 \in rest /\ (k + 1) - 1 = k
  BY <1>1, <1>3 DEF Waiting
<1>6. shift \in [rest -> Waiting']
  BY <1>4
<1>7. \A k \in Waiting' : \E i \in rest : shift[i] = k
  BY <1>5
<1>8. \A a, b \in rest : shift[a] = shift[b] => a = b
  BY <1>4
<1>9. ExistsBijection(rest, Waiting')
  BY <1>6, <1>7, <1>8 DEF ExistsBijection, Bijection, Injection, Surjection, IsInjective
<1>10. /\ IsFiniteSet(rest)
       /\ Cardinality(rest) = IF 1 \in Waiting THEN Cardinality(Waiting) - 1 ELSE Cardinality(Waiting)
  BY <1>2, FS_RemoveElement
<1>11. Cardinality(Waiting') = Cardinality(rest)
  BY <1>9, <1>10, FS_Bijection
<1>12. 1 \in Waiting <=> channel[1].kind \in {"tx", "slot"}
  BY <1>1, <1>3 DEF Waiting
<1> QED
  BY <1>2, <1>10, <1>11, <1>12

(* Every step keeps the account.                                           *)
LEMMA CountStep == RealInv /\ CountInv /\ [Next]_vars => CountInv'
<1> SUFFICES ASSUME RealInv, CountInv, [Next]_vars PROVE CountInv'
  OBVIOUS
<1>1. channel \in Seq(Messages)
  BY DEF RealInv, StreamInv, Messages
<1>2. Cardinality(Waiting) \in Nat
  BY <1>1, WaitingFacts
<1>3. ASSUME UNCHANGED <<channel, counters, handled>> PROVE CountInv'
  BY <1>3 DEF CountInv, DropsAreCounted, Waiting
<1>4. ASSUME NEW slot \in Slots, ChainAdvances(slot) PROVE CountInv'
  BY <1>3, <1>4 DEF ChainAdvances, client
<1>5. ASSUME NEW m \in Messages, m.kind \notin {"tx", "slot"}, channel' = TrySend(channel, m),
             UNCHANGED handled,
             UNCHANGED counters \/ counters' = [counters EXCEPT !.reconnects = @ + 1]
      PROVE  CountInv'
  <2>1. Cardinality(Waiting') = Cardinality(Waiting)
    BY <1>1, <1>2, <1>5, WaitingSend
  <2>2. /\ counters' \in [received : Nat, dropped : Nat, reconnects : Nat]
        /\ counters'.received = counters.received /\ counters'.dropped = counters.dropped
    BY <1>5 DEF CountInv
  <2> QED
    BY <1>5, <2>1, <2>2 DEF CountInv, DropsAreCounted
<1>6. CASE Connect
  <2>1. ReplayFrom(tracker) \in Nat \cup {NoSlot}
    BY DEF RealInv, StreamInv, IsTracker, ReplayFrom
  <2>2. /\ Connected(ReplayFrom(tracker)) \in Messages
        /\ Connected(ReplayFrom(tracker)).kind = "connected"
    BY <2>1 DEF Messages, Notices, Connected
  <2> QED
    BY <1>5, <1>6, <2>2 DEF Connect
<1>7. CASE Errs
  <2>1. StreamError \in Messages /\ StreamError.kind = "error"
    BY DEF Messages, Notices, StreamError
  <2> QED
    BY <1>5, <1>7, <2>1 DEF Errs
<1>8. CASE StreamEnds
  BY <1>3, <1>8 DEF StreamEnds, client
<1>9. CASE Receive
  <2>1. PICK n \in inflight : Forward(log[n]) /\ UNCHANGED handled
    BY <1>9 DEF Receive
  <2>2. PICK m \in Updates : m = log[n]
    BY DEF RealInv, WorldInv, StreamInv
  <2>3. m \in Messages /\ m.kind \in {"tx", "slot"}
    BY UpdateFacts DEF Messages
  <2>4. /\ channel' = TrySend(channel, m)
        /\ counters' = [counters EXCEPT !.received = counters.received + 1,
                           !.dropped = IF Len(channel) < Capacity THEN counters.dropped
                                       ELSE counters.dropped + 1]
    BY <2>1, <2>2 DEF Forward
  <2>5. Cardinality(Waiting') = Cardinality(Waiting) + IF Len(channel) < Capacity THEN 1 ELSE 0
    BY <1>1, <2>3, <2>4, WaitingSend
  <2>6. PICK d \in Nat : d = IF Len(channel) < Capacity THEN counters.dropped ELSE counters.dropped + 1
    BY DEF CountInv
  <2>7. counters' = [counters EXCEPT !.received = counters.received + 1, !.dropped = d]
    BY <2>4, <2>6
  <2>8. /\ counters' \in [received : Nat, dropped : Nat, reconnects : Nat]
        /\ counters'.received = counters.received + 1 /\ counters'.dropped = d
    <3> DEFINE c == [counters EXCEPT !.received = counters.received + 1]
    <3>1. /\ c \in [received : Nat, dropped : Nat, reconnects : Nat]
          /\ c.received = counters.received + 1
      BY DEF CountInv
    <3>2. counters' = [c EXCEPT !.dropped = d]
      BY <2>7
    <3> HIDE DEF c
    <3> QED
      BY <3>1, <3>2
  <2> QED
    BY SMTT(30), <1>2, <2>1, <2>5, <2>6, <2>8 DEF CountInv, DropsAreCounted
<1>10. CASE Consume
  <2>1. /\ channel # <<>> /\ channel' = Tail(channel) /\ UNCHANGED counters
        /\ handled' = IF Head(channel).kind \in {"tx", "slot"} THEN handled + 1 ELSE handled
    BY <1>10 DEF Consume
  <2>2. Head(channel) = channel[1]
    BY <1>1, <2>1, TakeFacts
  <2>3. Cardinality(Waiting') = Cardinality(Waiting) - IF channel[1].kind \in {"tx", "slot"} THEN 1 ELSE 0
    BY <1>1, <2>1, WaitingTake
  <2> QED
    BY SMTT(30), <1>2, <2>1, <2>2, <2>3 DEF CountInv, DropsAreCounted
<1>11. CASE Rest \/ UNCHANGED vars
  BY <1>3, <1>11 DEF Rest, vars
<1> QED
  BY <1>4, <1>6, <1>7, <1>8, <1>9, <1>10, <1>11 DEF Next, Chain

LEMMA CountInductive == Spec => []CountInv
<1>1. Init => CountInv
  <2> SUFFICES ASSUME Init PROVE CountInv
    OBVIOUS
  <2>1. Waiting = {}
    BY DEF Init, Waiting
  <2> QED
    BY <2>1, FS_EmptySet DEF Init, CountInv, DropsAreCounted
<1> QED
  BY <1>1, CountStep, RealInductive, PTL DEF Spec

(* Every update received is dropped and counted, waiting, or handled, for  *)
(* any capacity and any number of outages (yellowstone.rs:352-362).        *)
THEOREM LossesAreCounted == Spec => []DropsAreCounted
<1>1. CountInv => DropsAreCounted
  BY DEF CountInv
<1> QED
  BY <1>1, CountInductive, PTL

-------------------------------------------------------------------------------
(* A replay covers what is newer than the checkpoint.                      *)

ReplayInv ==
    conn = "replay" =>
        /\ tracker.checkpoint # NoSlot
        /\ \A i \in 1..Len(log) :
              log[i].slot > tracker.checkpoint => log[i] \in seen \/ i \in inflight

LEMMA ReplayStep == RealInv /\ ReplayInv /\ [Next]_vars => ReplayInv'
<1> SUFFICES ASSUME RealInv, ReplayInv, [Next]_vars, conn' = "replay"
             PROVE  /\ tracker'.checkpoint # NoSlot
                    /\ \A i \in 1..Len(log') :
                          log'[i].slot > tracker'.checkpoint => log'[i] \in seen' \/ i \in inflight'
  BY DEF ReplayInv
<1>1. /\ log \in Seq(Updates) /\ Len(log) \in Nat /\ DOMAIN log = 1..Len(log)
      /\ IsTracker(tracker)
  BY DEF RealInv, WorldInv, StreamInv
<1>2. ASSUME NEW slot \in Slots, ChainAdvances(slot)
      PROVE  /\ tracker'.checkpoint # NoSlot
             /\ \A i \in 1..Len(log') :
                   log'[i].slot > tracker'.checkpoint => log'[i] \in seen' \/ i \in inflight'
  <2>1. /\ Len(log') \in Nat /\ Len(log) <= Len(log')
        /\ DOMAIN log' \ DOMAIN log = Len(log) + 1..Len(log')
        /\ \A i \in 1..Len(log) : log'[i] = log[i]
    BY <1>2, AdvanceFacts DEF RealInv
  <2>2. /\ conn = "replay" /\ UNCHANGED <<tracker, seen>>
        /\ inflight' = inflight \cup (DOMAIN log' \ DOMAIN log)
    BY <1>2 DEF ChainAdvances, client, Up
  <2> QED
    BY <1>1, <2>1, <2>2 DEF ReplayInv
<1>3. CASE Connect
  <2>1. /\ ReplayFrom(tracker) # NoSlot
        /\ inflight' = {i \in DOMAIN log : log[i].slot >= ReplayFrom(tracker)}
        /\ UNCHANGED <<log, tracker, seen>>
    BY <1>3 DEF Connect, server
  <2>2. /\ tracker.checkpoint \in Nat /\ tracker.checkpoint # NoSlot
        /\ ReplayFrom(tracker) = tracker.checkpoint + 1
    BY <1>1, <2>1 DEF ReplayFrom, IsTracker
  <2>3. \A i \in 1..Len(log) : log[i].slot \in Nat
    BY <1>1, UpdateFacts DEF Slots
  <2> QED
    BY <1>1, <2>1, <2>2, <2>3
<1>4. CASE Errs \/ StreamEnds
  BY <1>4 DEF Errs, StreamEnds
<1>5. CASE Receive
  <2>1. PICK n \in inflight :
          /\ tracker' = IF log[n].kind = "slot"
                        THEN Observe(tracker, log[n].slot, log[n].slot - 1, log[n].status).tracker
                        ELSE tracker
          /\ seen' = seen \cup {log[n]} /\ inflight' = inflight \ {n} /\ UNCHANGED <<log, conn>>
    BY <1>5 DEF Receive, server
  <2>2. \A i \in 1..Len(log) : log[i].slot \in Nat
    BY <1>1, UpdateFacts DEF Slots
  <2>3. n \in 1..Len(log)
    BY DEF RealInv, StreamInv
  <2>4. tracker.checkpoint \in Nat /\ tracker.checkpoint # NoSlot
    BY <1>1, <2>1 DEF ReplayInv, IsTracker
  <2>5. /\ tracker'.checkpoint # NoSlot /\ tracker'.checkpoint >= tracker.checkpoint
        /\ tracker'.checkpoint \in Nat
    <3>1. CASE tracker' = tracker
      BY <2>4, <3>1
    <3>2. CASE tracker' = Observe(tracker, log[n].slot, log[n].slot - 1, log[n].status).tracker
      BY <1>1, <2>2, <2>3, <2>4, <3>2, CheckpointRises DEF IsTracker
    <3> QED
      BY <2>1, <3>1, <3>2
  <2> QED
    BY SMTT(30), <2>1, <2>2, <2>3, <2>4, <2>5 DEF ReplayInv
<1>6. CASE Consume \/ Rest \/ UNCHANGED vars
  BY <1>6 DEF Consume, Rest, vars, server, ReplayInv
<1> QED
  BY <1>2, <1>3, <1>4, <1>5, <1>6 DEF Next, Chain

(* A subscription that replays loses nothing of the slots above the        *)
(* checkpoint, wherever the last one broke (yellowstone.rs:237-273).       *)
THEOREM ReplaysCover == Spec => []ReplayCovers
<1>1. Init => ReplayInv
  BY DEF Init, ReplayInv
<1>2. RealInv /\ ReplayInv => ReplayCovers
  BY DEF RealInv, WorldInv, ReplayInv, ReplayCovers
<1> QED
  BY <1>1, <1>2, ReplayStep, RealInductive, PTL DEF Spec

-------------------------------------------------------------------------------
(* Nothing lost, nothing left behind.                                      *)

Final(slot) == SlotMsg(slot, "finalized")

(* The server reports a block's transactions before it reports the block   *)
(* finalized, and all of them when it reports it confirmed.                *)
LogInv ==
    /\ \A id \in Ids, i \in 1..Len(log) :
          log[i] = Final(block[id]) => \E j \in 1..i - 1 : log[j] = TxMsg(id)
    /\ \A id \in Ids : block[id] \in Slots /\ Reached(block[id], "confirmed") =>
          \E j \in 1..Len(log) : log[j] = TxMsg(id)
    /\ \A slot \in Slots : chain[slot] = "finalized" => \E j \in 1..Len(log) : log[j] = Final(slot)

(* Without a gap between subscriptions every report is under way or seen.  *)
SentInv == missed = {} => \A i \in 1..Len(log) : i \in inflight \/ log[i] \in seen

(* What was seen waits or has had its effect, and no block's end is taken  *)
(* before its transactions are.                                            *)
KeptBundle(id) ==
    /\ TxMsg(id) \in seen =>
          pending[id].stage # "submitted" \/ \E k \in 1..Len(channel) : channel[k] = TxMsg(id)
    /\ Final(block[id]) \in seen =>
          \/ pending[id].stage \in {"finalized", "failed"}
          \/ \E k \in 1..Len(channel) : channel[k] = Final(block[id])
    /\ \A k \in 1..Len(channel) : channel[k] = Final(block[id]) =>
          pending[id].stage # "submitted" \/ \E i \in 1..k - 1 : channel[i] = TxMsg(id)

KeptInv ==
    (missed = {} /\ counters.dropped = 0) => \A id \in Ids : block[id] \in Slots => KeptBundle(id)

IntactInv == RealInv /\ CountInv /\ LogInv /\ SentInv /\ KeptInv

(* Reports of different things differ.                                     *)
LEMMA ReportsDiffer ==
    /\ \A id, slot, status : TxMsg(id) # SlotMsg(slot, status)
    /\ \A s, t, a, b : SlotMsg(s, a) = SlotMsg(t, b) => s = t /\ a = b
    /\ \A id, slot, status : TxMsg(id).kind = "tx" /\ SlotMsg(slot, status).kind = "slot"
<1>1. \A id, slot, status : TxMsg(id).kind = "tx" /\ SlotMsg(slot, status).kind = "slot"
  BY DEF TxMsg, SlotMsg
<1>2. ASSUME NEW s, NEW t, NEW a, NEW b, SlotMsg(s, a) = SlotMsg(t, b)
      PROVE  s = t /\ a = b
  <2>1. SlotMsg(s, a).slot = s /\ SlotMsg(s, a).status = a /\ SlotMsg(t, b).slot = t /\ SlotMsg(t, b).status = b
    BY DEF SlotMsg
  <2> QED
    BY <1>2, <2>1
<1>3. ASSUME NEW id, NEW slot, NEW status PROVE TxMsg(id) # SlotMsg(slot, status)
  <2>1. TxMsg(id).kind # SlotMsg(slot, status).kind
    BY <1>1
  <2> QED
    BY <2>1
<1> QED
  BY <1>1, <1>2, <1>3

(* The server's log keeps its order.                                       *)
LEMMA LogStep == WorldInv /\ LogInv /\ [Next]_vars => LogInv'
<1> SUFFICES ASSUME WorldInv, LogInv, [Next]_vars PROVE LogInv'
  OBVIOUS
<1>1. UNCHANGED block
  BY DEF Next, Chain, ChainAdvances, Connect, Errs, StreamEnds, Receive, Consume, Rest, server, vars
<1>2. CASE UNCHANGED <<chain, log>>
  BY <1>1, <1>2 DEF LogInv, Reached, TxMsg, Final, SlotMsg
<1>3. ASSUME NEW slot \in Slots, ChainAdvances(slot) PROVE LogInv'
  <2>1. PICK status \in Statuses :
          /\ chain' = [chain EXCEPT ![slot] = status]
          /\ status = "finalized" => Reached(slot, "confirmed")
          /\ Len(log) \in Nat /\ Len(log') \in Nat /\ Len(log) <= Len(log')
          /\ \A i \in 1..Len(log) : log'[i] = log[i]
          /\ \A i \in Len(log) + 1..Len(log') :
                \/ log'[i] = SlotMsg(slot, status)
                \/ status = "confirmed" /\ \E id \in Ids : block[id] = slot /\ log'[i] = TxMsg(id)
          /\ \E i \in Len(log) + 1..Len(log') : log'[i] = SlotMsg(slot, status)
          /\ status = "confirmed" =>
                \A id \in Ids : block[id] = slot =>
                   \E i \in Len(log) + 1..Len(log') : log'[i] = TxMsg(id)
    BY <1>3, AdvanceFacts
  <2>2. \A s \in Slots : chain'[s] = IF s = slot THEN status ELSE chain[s]
    BY <2>1 DEF WorldInv
  <2>3. \A i \in 1..Len(log') : i \in 1..Len(log) \/ i \in Len(log) + 1..Len(log')
    BY <2>1
  <2>4. (\A i \in 1..Len(log) : i \in 1..Len(log'))
        /\ (\A i \in Len(log) + 1..Len(log') : i \in 1..Len(log') /\ \A j \in 1..Len(log) : j \in 1..i - 1)
    BY <2>1
  <2>5. ASSUME NEW id \in Ids, NEW i \in 1..Len(log'), log'[i] = Final(block[id])
        PROVE  \E j \in 1..i - 1 : log'[j] = TxMsg(id)
    <3>1. CASE i \in 1..Len(log)
      <4>1. PICK j \in 1..i - 1 : log[j] = TxMsg(id)
        BY <2>1, <2>5, <3>1 DEF LogInv
      <4>2. j \in 1..Len(log)
        BY <2>1, <3>1
      <4> QED
        BY <2>1, <4>1, <4>2
    <3>2. CASE i \in Len(log) + 1..Len(log')
      <4>1. log'[i] = SlotMsg(slot, status)
        BY <2>1, <2>5, <3>2, ReportsDiffer DEF Final
      <4>2. slot = block[id] /\ status = "finalized"
        BY <2>5, <4>1, ReportsDiffer DEF Final
      <4>3. PICK j \in 1..Len(log) : log[j] = TxMsg(id)
        BY <2>1, <4>2 DEF LogInv
      <4> QED
        BY <2>1, <2>4, <3>2, <4>3
    <3> QED
      BY <2>3, <3>1, <3>2
  <2>6. ASSUME NEW id \in Ids, block[id] \in Slots, Reached(block[id], "confirmed")'
        PROVE  \E j \in 1..Len(log') : log'[j] = TxMsg(id)
    <3>1. CASE Reached(block[id], "confirmed")
      BY <2>1, <2>4, <2>6, <3>1 DEF LogInv
    <3>2. CASE ~Reached(block[id], "confirmed")
      <4>1. block[id] = slot /\ Rank(status) >= Rank("confirmed")
        BY <1>1, <2>2, <2>6, <3>2 DEF Reached
      <4>2. status \in {"confirmed", "finalized"}
        <5>1. status \in SlotStatus \ {"dead"}
          BY StatusFacts
        <5> QED
          BY <4>1, <5>1 DEF SlotStatus, Rank
      <4>3. status = "confirmed"
        BY <2>1, <3>2, <4>1, <4>2
      <4> QED
        BY <2>1, <2>4, <4>1, <4>3
    <3> QED
      BY <3>1, <3>2
  <2>7. ASSUME NEW s \in Slots, chain'[s] = "finalized"
        PROVE  \E j \in 1..Len(log') : log'[j] = Final(s)
    <3>1. CASE s = slot
      BY <2>1, <2>2, <2>4, <2>7, <3>1 DEF Final
    <3>2. CASE s # slot
      BY <2>1, <2>2, <2>4, <2>7, <3>2 DEF LogInv
    <3> QED
      BY <3>1, <3>2
  <2>8. /\ \A id : TxMsg(id)' = TxMsg(id)
        /\ \A s : Final(s)' = Final(s)
    BY <1>1 DEF TxMsg, Final, SlotMsg
  <2> QED
    BY <1>1, <2>5, <2>6, <2>7, <2>8 DEF LogInv
<1> QED
  BY <1>2, <1>3 DEF Next, Chain, Connect, Errs, StreamEnds, Receive, Consume, Rest, server, vars

(* A report without a subscription, and one under way when it breaks, are  *)
(* what makes a loss.                                                      *)
LEMMA SentStep == RealInv /\ SentInv /\ [Next]_vars => SentInv' /\ (missed' = {} => missed = {})
<1> SUFFICES ASSUME RealInv, SentInv, [Next]_vars PROVE SentInv' /\ (missed' = {} => missed = {})
  OBVIOUS
<1>1. log \in Seq(Updates) /\ Len(log) \in Nat /\ DOMAIN log = 1..Len(log)
  BY DEF RealInv, WorldInv
<1>2. ASSUME NEW slot \in Slots, ChainAdvances(slot) PROVE SentInv' /\ (missed' = {} => missed = {})
  <2>1. /\ Len(log') \in Nat
        /\ DOMAIN log' \ DOMAIN log = Len(log) + 1..Len(log')
        /\ \A i \in 1..Len(log) : log'[i] = log[i]
    BY <1>2, AdvanceFacts DEF RealInv
  <2>2. /\ missed' = IF Up THEN missed ELSE missed \cup {conn}
        /\ inflight' = IF Up THEN inflight \cup (DOMAIN log' \ DOMAIN log) ELSE inflight
        /\ UNCHANGED seen
    BY <1>2 DEF ChainAdvances
  <2>3. missed' = {} => Up /\ missed = {}
    BY <2>2
  <2>4. ASSUME missed' = {}, NEW i \in 1..Len(log') PROVE i \in inflight' \/ log'[i] \in seen'
    <3>1. inflight' = inflight \cup (Len(log) + 1..Len(log'))
      BY <2>1, <2>2, <2>3, <2>4
    <3>2. CASE i \in 1..Len(log)
      BY <2>1, <2>2, <2>3, <2>4, <3>1, <3>2 DEF SentInv
    <3>3. CASE i \in Len(log) + 1..Len(log')
      BY <3>1, <3>3
    <3> QED
      BY <1>1, <2>1, <3>2, <3>3
  <2> QED
    BY <2>3, <2>4 DEF SentInv
<1>3. CASE Connect
  <2>1. inflight = {} /\ UNCHANGED <<log, seen, missed>>
    BY <1>3 DEF Connect, server, RealInv, StreamInv
  <2> QED
    BY <2>1 DEF SentInv
<1>4. CASE Errs \/ StreamEnds
  <2>1. missed' = (IF inflight = {} THEN missed ELSE missed \cup {"down"}) /\ UNCHANGED <<log, seen>>
    BY <1>4 DEF Errs, StreamEnds, Break, server
  <2> QED
    BY <2>1 DEF SentInv
<1>5. CASE Receive
  <2>1. PICK n \in inflight : /\ seen' = seen \cup {log[n]} /\ inflight' = inflight \ {n}
                              /\ UNCHANGED <<log, missed>>
    BY <1>5 DEF Receive, server
  <2> QED
    BY <2>1 DEF SentInv
<1>6. CASE Consume \/ Rest \/ UNCHANGED vars
  BY <1>6 DEF Consume, Rest, vars, server, SentInv
<1> QED
  BY <1>2, <1>3, <1>4, <1>5, <1>6 DEF Next, Chain

(* What taking the first message does to the lifecycles.                   *)
LEMMA ConsumeStages ==
    ASSUME RealInv, Consume, NEW id \in Ids
    PROVE  /\ pending[id].stage # "submitted" => pending'[id].stage # "submitted"
           /\ pending[id].stage \in {"finalized", "failed"} => pending'[id].stage \in {"finalized", "failed"}
           /\ channel[1] = TxMsg(id) => pending'[id].stage # "submitted"
           /\ (channel[1] = Final(block[id]) /\ pending[id].stage # "submitted" /\ block[id] \in Slots)
                 => pending'[id].stage \in {"finalized", "failed"}
<1>1. PICK m \in Messages :
        /\ m = channel[1]
        /\ m.kind = "tx" =>
              /\ pending' = [pending EXCEPT ![m.id] = TxStatus(pending[m.id], m.slot, m.id \in failedTx)]
              /\ m.id \in Ids /\ m.slot \in Slots
        /\ m.kind = "slot" =>
              /\ pending' = [e \in Ids |-> Followed(pending[e], m.slot, m.status)]
              /\ m.slot \in Slots /\ m.status \in Statuses
        /\ m.kind \notin {"tx", "slot"} => pending' = pending
  BY ConsumeFacts
<1>2. PendingInv /\ pending[id] \in [stage : Stage, slot : Slots \cup {NoSlot}] /\ DOMAIN pending = Ids
  BY DEF RealInv, PendingInv
<1>3. CASE m.kind = "tx"
  <2>1. m # Final(block[id])
    BY <1>3, ReportsDiffer DEF Final
  <2>2. m = TxMsg(id) => m.id = id
    BY DEF TxMsg
  <2>3. pending'[id] = IF m.id = id THEN TxStatus(pending[id], m.slot, id \in failedTx) ELSE pending[id]
    BY <1>1, <1>2, <1>3
  <2>4. m.id = id =>
          /\ pending[id].stage # "submitted" => pending'[id] = pending[id]
          /\ pending[id].stage = "submitted" => pending'[id].stage \in {"failed", "processed"}
    <3>1. TxStatus(pending[id], m.slot, id \in failedTx) =
             IF pending[id].stage # "submitted" THEN pending[id]
             ELSE IF id \in failedTx THEN [pending[id] EXCEPT !.stage = "failed"]
             ELSE [[pending[id] EXCEPT !.stage = "processed"] EXCEPT !.slot = m.slot]
      <4>1. m.slot \in Slots
        BY <1>1, <1>3
      <4> QED
        BY <1>2, <4>1, TxEffect
    <3>2. ASSUME m.id = id, pending[id].stage = "submitted"
          PROVE  \/ pending'[id] = [pending[id] EXCEPT !.stage = "failed"]
                 \/ pending'[id] = [[pending[id] EXCEPT !.stage = "processed"] EXCEPT !.slot = m.slot]
      <4>1. pending'[id] = TxStatus(pending[id], m.slot, id \in failedTx)
        BY <2>3, <3>2
      <4> QED
        BY <3>2, <3>1, <4>1
    <3>3. /\ [pending[id] EXCEPT !.stage = "failed"].stage = "failed"
          /\ [[pending[id] EXCEPT !.stage = "processed"] EXCEPT !.slot = m.slot].stage = "processed"
      BY <1>2
    <3>4. ASSUME m.id = id, pending[id].stage # "submitted" PROVE pending'[id] = pending[id]
      BY <2>3, <3>4, <3>1
    <3> QED
      BY <3>2, <3>3, <3>4
  <2> QED
    BY <1>1, <2>1, <2>2, <2>3, <2>4
<1>4. CASE m.kind = "slot"
  <2>1. m # TxMsg(id)
    BY <1>4 DEF TxMsg
  <2>2. pending'[id] = Followed(pending[id], m.slot, m.status) /\ m.slot \in Slots /\ m.status \in Statuses
    BY <1>1, <1>4
  <2>3. m = Final(block[id]) => m.slot = block[id] /\ m.status = "finalized"
    BY DEF Final, SlotMsg
  <2>4. \A st : [pending[id] EXCEPT !.stage = st].stage = st
    BY <1>2
  <2> QED
    BY <1>1, <1>2, <2>1, <2>2, <2>3, <2>4, SlotEffect
<1>5. CASE m.kind \notin {"tx", "slot"}
  <2>1. m # TxMsg(id) /\ m # Final(block[id])
    BY <1>5 DEF TxMsg, Final, SlotMsg
  <2> QED
    BY <1>1, <1>5, <2>1
<1> QED
  BY <1>3, <1>4, <1>5

(* Putting a message behind the others keeps what waits, and a block's end *)
(* goes behind its transactions when these were seen.                      *)
LEMMA KeptSend ==
    ASSUME channel \in Seq(Messages), NEW id \in Ids, NEW m \in Messages,
           channel' = TrySend(channel, m), seen' \subseteq seen \cup {m}, UNCHANGED <<pending, block>>,
           KeptBundle(id),
           Len(channel) < Capacity \/ (m # TxMsg(id) /\ m # Final(block[id])),
           m = Final(block[id]) => TxMsg(id) \in seen
    PROVE  KeptBundle(id)'
<1> DEFINE n == Len(channel) + 1
           tx == TxMsg(id)
           end == Final(block[id])
<1>1. TxMsg(id)' = tx /\ Final(block[id])' = end
  BY DEF TxMsg, Final, SlotMsg
<1>2. /\ Len(channel) \in Nat /\ Len(channel') \in Nat /\ Len(channel) <= Len(channel')
      /\ \A k \in 1..Len(channel) : channel'[k] = channel[k] /\ k \in 1..Len(channel')
      /\ \/ channel' = channel /\ m # tx /\ m # end
         \/ Len(channel') = n /\ channel'[n] = m
  <2>1. /\ TrySend(channel, m) \in Seq(Messages) /\ Len(channel) \in Nat
        /\ \/ TrySend(channel, m) = channel /\ Len(channel) >= Capacity
           \/ /\ Len(channel) < Capacity
              /\ Len(TrySend(channel, m)) = Len(channel) + 1
              /\ TrySend(channel, m)[Len(channel) + 1] = m
              /\ \A i \in 1..Len(channel) : TrySend(channel, m)[i] = channel[i]
    BY SendFacts DEF SentOrLost
  <2>2. Capacity \in Nat
    BY LandingAssumption
  <2> QED
    BY <2>1, <2>2
<1>3. \A k \in 1..Len(channel') :
         \/ k \in 1..Len(channel) /\ channel'[k] = channel[k]
         \/ k = n /\ channel'[k] = m /\ \A i \in 1..Len(channel) : i \in 1..k - 1
  BY <1>2
<1>4. m = tx \/ m = end => n \in 1..Len(channel') /\ channel'[n] = m
  BY <1>2
<1>5. tx \in seen => pending[id].stage # "submitted" \/ \E k \in 1..Len(channel) : channel[k] = tx
  BY DEF KeptBundle
<1>6. tx \in seen' => pending[id].stage # "submitted" \/ \E k \in 1..Len(channel') : channel'[k] = tx
  <2>1. CASE tx \in seen
    BY <1>2, <1>5, <2>1
  <2>2. CASE tx = m
    BY <1>4, <2>2
  <2> QED
    BY <2>1, <2>2
<1>7. end \in seen' =>
        \/ pending[id].stage \in {"finalized", "failed"}
        \/ \E k \in 1..Len(channel') : channel'[k] = end
  <2>1. CASE end \in seen
    BY <1>2, <2>1 DEF KeptBundle
  <2>2. CASE end = m
    BY <1>4, <2>2
  <2> QED
    BY <2>1, <2>2
<1>8. ASSUME NEW k \in 1..Len(channel'), channel'[k] = end, pending[id].stage = "submitted"
      PROVE  \E i \in 1..k - 1 : channel'[i] = tx
  <2>1. CASE k \in 1..Len(channel) /\ channel'[k] = channel[k]
    <3>1. PICK i \in 1..k - 1 : channel[i] = tx
      BY <1>8, <2>1 DEF KeptBundle
    <3>2. i \in 1..Len(channel)
      BY <1>2, <2>1
    <3> QED
      BY <1>2, <3>1, <3>2
  <2>2. CASE channel'[k] = m /\ \A i \in 1..Len(channel) : i \in 1..k - 1
    <3>1. PICK i \in 1..Len(channel) : channel[i] = tx
      BY <1>5, <1>8, <2>2
    <3> QED
      BY <1>2, <2>2, <3>1
  <2> QED
    BY <1>3, <2>1, <2>2
<1> HIDE DEF tx, end
<1> QED
  BY <1>1, <1>6, <1>7, <1>8 DEF KeptBundle

(* Taking a message keeps what waits behind it, and what it says is done.  *)
LEMMA KeptTake ==
    ASSUME RealInv, Consume, NEW id \in Ids, block[id] \in Slots, KeptBundle(id)
    PROVE  KeptBundle(id)'
<1> DEFINE tx == TxMsg(id)
           end == Final(block[id])
<1>1. UNCHANGED <<block, seen>> /\ channel # <<>> /\ channel' = Tail(channel)
  BY DEF Consume, server
<1>2. TxMsg(id)' = tx /\ Final(block[id])' = end
  BY <1>1 DEF TxMsg, Final, SlotMsg
<1>3. /\ Len(channel) \in Nat \ {0} /\ Len(channel') = Len(channel) - 1
      /\ \A i \in 1..Len(channel) - 1 : channel'[i] = channel[i + 1]
  BY <1>1, TakeFacts DEF RealInv, StreamInv, Messages
<1>4. /\ pending[id].stage # "submitted" => pending'[id].stage # "submitted"
      /\ pending[id].stage \in {"finalized", "failed"} => pending'[id].stage \in {"finalized", "failed"}
      /\ channel[1] = tx => pending'[id].stage # "submitted"
      /\ channel[1] = end /\ pending[id].stage # "submitted" => pending'[id].stage \in {"finalized", "failed"}
  BY ConsumeStages
<1>5. \A k \in 1..Len(channel) : k = 1 \/ (k - 1 \in 1..Len(channel') /\ channel'[k - 1] = channel[k])
  <2> TAKE k \in 1..Len(channel)
  <2>1. CASE k # 1
    <3>1. k - 1 \in 1..Len(channel) - 1 /\ (k - 1) + 1 = k
      BY <1>3, <2>1
    <3> QED
      BY <1>3, <3>1
  <2> QED
    BY <2>1
<1>6. \A k \in 1..Len(channel') : k + 1 \in 1..Len(channel) /\ channel[k + 1] = channel'[k]
  BY <1>3
<1>7. ASSUME tx \in seen, pending'[id].stage = "submitted"
      PROVE  \E k \in 1..Len(channel') : channel'[k] = tx
  <2>1. PICK k \in 1..Len(channel) : channel[k] = tx
    BY <1>4, <1>7 DEF KeptBundle
  <2> QED
    BY <1>4, <1>5, <1>7, <2>1
<1>8. ASSUME end \in seen, pending'[id].stage \notin {"finalized", "failed"}
      PROVE  \E k \in 1..Len(channel') : channel'[k] = end
  <2>1. PICK k \in 1..Len(channel) : channel[k] = end
    BY <1>4, <1>8 DEF KeptBundle
  <2>2. k = 1 => pending[id].stage # "submitted"
    BY <1>3, <2>1 DEF KeptBundle
  <2> QED
    BY <1>4, <1>5, <1>8, <2>1, <2>2
<1>9. ASSUME NEW k \in 1..Len(channel'), channel'[k] = end, pending'[id].stage = "submitted"
      PROVE  \E i \in 1..k - 1 : channel'[i] = tx
  <2>1. PICK i \in 1..(k + 1) - 1 : channel[i] = tx
    BY <1>4, <1>6, <1>9 DEF KeptBundle
  <2>2. i \in 1..Len(channel) /\ i # 1
    BY <1>3, <1>4, <1>9, <2>1
  <2>3. i - 1 \in 1..k - 1 /\ channel'[i - 1] = tx
    BY <1>5, <2>1, <2>2
  <2> QED
    BY <2>3
<1> HIDE DEF tx, end
<1> QED
  BY <1>1, <1>2, <1>7, <1>8, <1>9 DEF KeptBundle

(* As long as nothing is missed or dropped, every step keeps what was seen *)
(* on its way.                                                             *)
LEMMA KeptStep == IntactInv /\ [Next]_vars => KeptInv'
<1> SUFFICES ASSUME IntactInv, [Next]_vars, missed' = {}, counters'.dropped = 0,
                    NEW id \in Ids, block'[id] \in Slots
             PROVE  KeptBundle(id)'
  BY DEF KeptInv
<1>1. UNCHANGED block /\ block[id] \in Slots
  BY DEF Next, Chain, ChainAdvances, Connect, Errs, StreamEnds, Receive, Consume, Rest, server, vars
<1>2. missed = {} /\ RealInv /\ CountInv
  BY SentStep DEF IntactInv
<1>3. channel \in Seq(Messages)
  BY <1>2 DEF RealInv, StreamInv, Messages
<1>4. counters.dropped = 0 => KeptBundle(id)
  BY <1>1, <1>2 DEF IntactInv, KeptInv
<1>5. ASSUME UNCHANGED <<channel, pending, seen, counters>> PROVE KeptBundle(id)'
  <2>1. TxMsg(id)' = TxMsg(id) /\ Final(block[id])' = Final(block[id])
    BY <1>1 DEF TxMsg, Final, SlotMsg
  <2> QED
    BY <1>1, <1>4, <1>5, <2>1 DEF KeptBundle
<1>6. ASSUME NEW m \in Messages, m.kind \notin {"tx", "slot"}, channel' = TrySend(channel, m),
             UNCHANGED <<pending, seen>>, counters'.dropped = counters.dropped
      PROVE  KeptBundle(id)'
  <2>1. m # TxMsg(id) /\ m # Final(block[id])
    BY <1>6 DEF TxMsg, Final, SlotMsg
  <2> QED
    BY <1>1, <1>3, <1>4, <1>6, <2>1, KeptSend
<1>7. CASE Connect
  <2>1. ReplayFrom(tracker) \in Nat \cup {NoSlot}
    BY <1>2 DEF RealInv, StreamInv, IsTracker, ReplayFrom
  <2>2. Connected(ReplayFrom(tracker)) \in Messages /\ Connected(ReplayFrom(tracker)).kind = "connected"
    BY <2>1 DEF Messages, Notices, Connected
  <2> QED
    BY <1>6, <1>7, <2>2 DEF Connect
<1>8. CASE Errs
  <2>1. StreamError \in Messages /\ StreamError.kind = "error"
    BY DEF Messages, Notices, StreamError
  <2>2. counters'.dropped = counters.dropped
    BY <1>2, <1>8 DEF Errs, CountInv
  <2> QED
    BY <1>6, <1>8, <2>1, <2>2 DEF Errs
<1>9. CASE Receive
  <2>1. PICK x \in inflight :
          /\ \A i \in inflight : x <= i
          /\ Forward(log[x]) /\ seen' = seen \cup {log[x]} /\ UNCHANGED pending
    BY <1>9 DEF Receive
  <2>2. PICK m \in Updates : m = log[x] /\ x \in 1..Len(log) /\ Len(log) \in Nat
    BY <1>2 DEF RealInv, WorldInv, StreamInv
  <2>3. Len(channel) < Capacity /\ counters.dropped = 0
    <3>1. counters'.dropped = IF Len(channel) < Capacity THEN counters.dropped ELSE counters.dropped + 1
      BY <1>2, <2>1 DEF Forward, CountInv
    <3> QED
      BY <1>2, <3>1 DEF CountInv
  <2>4. ASSUME m = Final(block[id]) PROVE TxMsg(id) \in seen
    <3>1. PICK j \in 1..x - 1 : log[j] = TxMsg(id)
      BY <2>2, <2>4 DEF IntactInv, LogInv
    <3>2. j \in 1..Len(log) /\ j \notin inflight
      BY <2>1, <2>2
    <3> QED
      BY <1>2, <3>1, <3>2 DEF IntactInv, SentInv
  <2>5. channel' = TrySend(channel, m) /\ m \in Messages
    BY <2>1, <2>2 DEF Forward, Messages
  <2> QED
    BY <1>1, <1>3, <1>4, <2>1, <2>2, <2>3, <2>4, <2>5, KeptSend
<1>10. CASE Consume
  <2>1. counters.dropped = 0
    BY <1>10 DEF Consume
  <2> QED
    BY <1>1, <1>2, <1>4, <1>10, <2>1, KeptTake
<1>11. CASE Chain \/ StreamEnds \/ Rest \/ UNCHANGED vars
  BY <1>5, <1>11 DEF Chain, ChainAdvances, StreamEnds, Rest, vars, client
<1> QED
  BY <1>7, <1>8, <1>9, <1>10, <1>11 DEF Next

(* An included transaction is followed to its end, or something of it was  *)
(* missed or dropped (yellowstone.rs:237-362, pending.rs, proof_run.rs).   *)
THEOREM LandingsAreFollowed == Spec => []IntactUnlessLost
<1>1. Init => LogInv /\ SentInv /\ KeptInv
  <2> SUFFICES ASSUME Init PROVE LogInv /\ SentInv /\ KeptInv
    OBVIOUS
  <2>1. log = <<>> /\ seen = {} /\ channel = <<>> /\ \A s \in Slots : chain[s] = "none"
    BY DEF Init
  <2>2. \A i \in 1..Len(log) : FALSE
    BY <2>1
  <2>3. LogInv /\ SentInv
    BY <2>1, <2>2 DEF LogInv, SentInv, Reached
  <2>4. \A i \in 1..Len(channel) : FALSE
    BY <2>1
  <2> QED
    BY <2>1, <2>3, <2>4 DEF KeptInv, KeptBundle
<1>2. RealInv /\ CountInv /\ LogInv /\ SentInv /\ KeptInv /\ [Next]_vars
        => LogInv' /\ SentInv' /\ KeptInv'
  BY LogStep, SentStep, KeptStep DEF IntactInv, RealInv
<1>3. RealInv /\ LogInv /\ SentInv /\ KeptInv => IntactUnlessLost
  <2> SUFFICES ASSUME RealInv, LogInv, SentInv, KeptInv,
                      Quiescent, missed = {}, counters.dropped = 0,
                      NEW id \in Ids, block[id] # NoSlot
               PROVE  pending[id].stage = IF id \in failedTx THEN "failed" ELSE "finalized"
    BY DEF IntactUnlessLost, Intact
  <2>1. block[id] \in Slots /\ BundleInv(id)
    BY DEF RealInv, WorldInv, PendingInv
  <2>2. PICK j \in 1..Len(log) : log[j] = Final(block[id])
    BY <2>1 DEF LogInv, Quiescent
  <2>3. Final(block[id]) \in seen
    BY <2>2 DEF SentInv, Quiescent
  <2>4. \A k \in 1..Len(channel) : FALSE
    BY DEF Quiescent
  <2>5. pending[id].stage \in {"finalized", "failed"}
    BY <2>1, <2>3, <2>4 DEF KeptInv, KeptBundle
  <2> QED
    BY <2>1, <2>5 DEF BundleInv
<1> QED
  BY <1>1, <1>2, <1>3, CountInductive, RealInductive, PTL DEF Spec
===============================================================================
