-------------------------------- MODULE Landing --------------------------------
(***************************************************************************)
(* How a submitted transaction's landing reaches its lifecycle: the chain, *)
(* the Yellowstone stream with its outages and replays, the ingestion task *)
(* (tracker and bounded channel), and the task that correlates.            *)
(*                                                                         *)
(* The subscription is at `confirmed` with every slot status, so the       *)
(* stream reports a transaction when its slot is confirmed, just before or *)
(* just after it says so of the slot.  The chain and the server are the    *)
(* environment; the server keeps its updates and replays those of the slot *)
(* asked for and later, unless it rejects the request.                     *)
(***************************************************************************)
EXTENDS SlotTracker, Correlator, Sequences, FiniteSets, Functions

CONSTANTS
    Ids,            \* the submitted transactions
    LastSlot,       \* bound of the model: the chain's last slot; none is skipped
    Capacity,       \* YellowstoneConfig.channel_capacity
    Path,           \* the statuses a slot goes through: "none", then those reported, rising
    MayReject,      \* the server may reject a replay (slot too old)
    MaxOutages      \* bound of the model: broken streams and failed connects

ASSUME LandingAssumption ==
    /\ LastSlot \in Nat \ {0}
    /\ IsFiniteSet(Ids)
    /\ Path \in Seq(SlotStatus \cup {"none"}) /\ Path[1] = "none"
    /\ \A i \in 2..Len(Path) : Path[i] \in SlotStatus \ {"dead"}
    /\ \A i, j \in 2..Len(Path) : i < j => Rank(Path[i]) < Rank(Path[j])
    /\ \E i \in 2..Len(Path) : Path[i] = "confirmed"
    /\ Capacity \in Nat \ {0}
    /\ MayReject \in BOOLEAN
    /\ MaxOutages \in Nat

VARIABLES
    chain,          \* the status of every slot of the chain ("none": not begun)
    block,          \* the slot each transaction is included in, or NoSlot
    failedTx,       \* the transactions whose execution fails
    log,            \* every update the server has had to report, in order
    conn,           \* the subscription: "new" (none yet), "down", "live" or "replay"
    inflight,       \* positions in the log sent to this subscription and not yet received
    tracker,        \* SlotTracker of the ingestion task
    channel,        \* the bounded channel to the consumer
    pending,        \* PendingBundles of the consumer
    counters,       \* IngestCounters: received, dropped, reconnects
    seen,           \* the updates the ingestion task received (history)
    handled,        \* how many of them the consumer took (history)
    missed,         \* when updates arose without a subscription (history)
    outages         \* broken streams and failed connects so far

server == <<chain, block, failedTx, log>>
client == <<tracker, channel, counters>>
vars   == <<chain, block, failedTx, log, conn, inflight, tracker, channel, pending,
            counters, seen, handled, missed, outages>>

-------------------------------------------------------------------------------
Slots == 1..LastSlot
Height(slot) == CHOOSE i \in DOMAIN Path : Path[i] = chain[slot]

Up == conn \in {"live", "replay"}

SlotMsg(slot, status) == [kind |-> "slot", slot |-> slot, status |-> status]
TxMsg(id)             == [kind |-> "tx", slot |-> block[id], id |-> id]
Connected(from)       == [kind |-> "connected", slot |-> from]
StreamError           == [kind |-> "error"]

(* The submissions are out and tracked when the stream task, spawned just  *)
(* before, begins to connect.                                              *)
Init ==
    /\ chain = [s \in Slots |-> "none"]
    /\ block \in [Ids -> Slots \cup {NoSlot}]
    /\ failedTx \in SUBSET {id \in Ids : block[id] # NoSlot}
    /\ log = <<>>
    /\ conn = "new"
    /\ inflight = {}
    /\ tracker = NewTracker
    /\ channel = <<>>
    /\ pending = [id \in Ids |-> NewBundle]
    /\ counters = [received |-> 0, dropped |-> 0, reconnects |-> 0]
    /\ seen = {} /\ handled = 0 /\ missed = {} /\ outages = 0

-------------------------------------------------------------------------------
(* The chain: a slot goes up its path behind its parent.  When it is       *)
(* confirmed its transactions are reported with it, before or after, in    *)
(* the order of the block.                                                 *)
Contents(slot) == {TxMsg(id) : id \in {i \in Ids : block[i] = slot}}

Reports(slot, status) ==
    LET own    == <<SlotMsg(slot, status)>>
        orders == Bijection(1..Cardinality(Contents(slot)), Contents(slot))
    IN  IF status = "confirmed" THEN {own \o txs : txs \in orders} \cup {txs \o own : txs \in orders}
        ELSE {own}

ChainAdvances(slot) ==
    /\ Height(slot) < Len(Path)
    /\ slot - 1 \in Slots => Height(slot) < Height(slot - 1)
    /\ LET status == Path[Height(slot) + 1]
       IN  /\ chain' = [chain EXCEPT ![slot] = status]
           /\ \E updates \in Reports(slot, status) :
                /\ log' = log \o updates
                /\ inflight' = IF Up THEN inflight \cup (DOMAIN log' \ DOMAIN log) ELSE inflight
    /\ missed' = IF Up THEN missed ELSE missed \cup {conn}
    /\ UNCHANGED <<block, failedTx, conn, client, pending, seen, handled, outages>>

-------------------------------------------------------------------------------
(* try_send: a full channel loses the message.                             *)
TrySend(ch, msg) == IF Len(ch) < Capacity THEN Append(ch, msg) ELSE ch

(* Mutant of Connect: the loop opens a new subscription over a live one.   *)
ConnectAgain ==
    /\ conn' = "live"
    /\ inflight' = {}
    /\ channel' = TrySend(channel, Connected(NoSlot))
    /\ UNCHANGED <<server, tracker, pending, counters, seen, handled, missed, outages>>

(* run_once up to the subscription: replay from behind the checkpoint, or  *)
(* live from the tip when there is none or the server rejects the slot.    *)
(* What is announced is the slot asked for, also after a rejection.        *)
Connect ==
    /\ ~Up
    /\ LET from == ReplayFrom(tracker)
       IN  /\ \/ /\ from # NoSlot
                 /\ conn' = "replay"
                 /\ inflight' = {i \in DOMAIN log : log[i].slot >= from}
              \/ /\ from = NoSlot \/ MayReject
                 /\ conn' = "live"
                 /\ inflight' = {}
           /\ channel' = TrySend(channel, Connected(from))
    /\ UNCHANGED <<server, tracker, pending, counters, seen, handled, missed, outages>>

(* What was sent and not received is lost with the subscription.           *)
Break ==
    /\ inflight' = {}
    /\ missed' = IF inflight = {} THEN missed ELSE missed \cup {"down"}

(* The supervisor after an Err (a failed connect or a broken stream): it   *)
(* is announced, counted and retried.                                      *)
Errs ==
    /\ outages < MaxOutages /\ outages' = outages + 1
    /\ conn' = IF conn = "new" THEN "new" ELSE "down"
    /\ Break
    /\ channel' = TrySend(channel, StreamError)
    /\ counters' = [counters EXCEPT !.reconnects = @ + 1]
    /\ UNCHANGED <<server, tracker, pending, seen, handled>>

(* A stream that ends without an error is retried without a word.          *)
StreamEnds ==
    /\ Up
    /\ outages < MaxOutages /\ outages' = outages + 1
    /\ conn' = "down"
    /\ Break
    /\ UNCHANGED <<server, client, pending, seen, handled>>

(* Mutant of Forward: the loop counts only what it could send.             *)
ForwardUncounted(msg) ==
    /\ channel' = TrySend(channel, msg)
    /\ counters' = IF Len(channel) < Capacity
                   THEN [counters EXCEPT !.received = @ + 1]
                   ELSE [counters EXCEPT !.dropped = @ + 1]

(* forward: never blocks, drops the newest when full, and counts.          *)
Forward(msg) ==
    /\ channel' = TrySend(channel, msg)
    /\ counters' = [counters EXCEPT !.received = @ + 1,
                                    !.dropped  = IF Len(channel) < Capacity THEN @ ELSE @ + 1]

(* handle_update: a slot goes through the tracker, then everything is      *)
(* forwarded.  What is forwarded may be lost; the tracker has seen it.     *)
Receive == \E next \in inflight :
    /\ \A i \in inflight : next <= i
    /\ LET msg == log[next]
       IN  /\ tracker' = IF msg.kind = "slot"
                         THEN Observe(tracker, msg.slot, msg.slot - 1, msg.status).tracker
                         ELSE tracker
           /\ Forward(msg)
           /\ seen' = seen \cup {msg}
    /\ inflight' = inflight \ {next}
    /\ UNCHANGED <<server, conn, pending, handled, missed, outages>>

(* The consumer takes one message and correlates it.                       *)
Consume ==
    /\ channel # <<>>
    /\ LET msg == Head(channel)
       IN  /\ pending' = CASE msg.kind = "tx"   -> OnTxStatus(pending, msg.id, msg.slot,
                                                              msg.id \in failedTx)
                           [] msg.kind = "slot" -> OnSlotStatus(pending, msg.slot, msg.status)
                           [] OTHER             -> pending
           /\ handled' = IF msg.kind \in {"tx", "slot"} THEN handled + 1 ELSE handled
    /\ channel' = Tail(channel)
    /\ UNCHANGED <<server, conn, inflight, tracker, counters, seen, missed, outages>>

-------------------------------------------------------------------------------
Quiescent ==
    /\ \A s \in Slots : chain[s] = "finalized"
    /\ Up /\ inflight = {} /\ channel = <<>>

Rest == Quiescent /\ UNCHANGED vars

Chain == \E slot \in Slots : ChainAdvances(slot)

Next == Chain \/ Connect \/ Errs \/ StreamEnds \/ Receive \/ Consume \/ Rest

Spec == Init /\ [][Next]_vars

(* The chain goes on; the supervisor retries for ever, the receive loop    *)
(* never blocks, and the consumer is a loop on the channel.                *)
FairSpec == Spec /\ WF_vars(Chain) /\ WF_vars(Connect) /\ WF_vars(Receive) /\ WF_vars(Consume)

-------------------------------------------------------------------------------
(* Properties.                                                             *)

Waiting == {i \in DOMAIN channel : channel[i].kind \in {"tx", "slot"}}

(* No outage, replay, loss or order of updates ever makes a lifecycle say  *)
(* more than the chain: a bundle at a commitment stage is in the block it  *)
(* names, executed, and its slot has reached that commitment.              *)
LandingIsReal ==
    \A id \in Ids :
        /\ ReachedConfirmed(pending[id].stage) \/ pending[id].stage = "processed" =>
              /\ id \notin failedTx
              /\ block[id] # NoSlot /\ pending[id].slot = block[id]
              /\ Rank(chain[block[id]]) >= Rank(pending[id].stage)
        /\ pending[id].stage = "failed" => id \in failedTx

(* Every update received is dropped and counted, waiting, or handled.      *)
DropsAreCounted == counters.received = counters.dropped + Cardinality(Waiting) + handled

(* A replay subscription loses nothing of the slots above the checkpoint.  *)
ReplayCovers ==
    conn = "replay" =>
        \A i \in DOMAIN log :
            log[i].slot > tracker.checkpoint => log[i] \in seen \/ i \in inflight

(* A transaction that was included is followed to its end, when nothing    *)
(* arose while the stream was down and the channel dropped nothing.        *)
Intact ==
    \A id \in Ids : block[id] # NoSlot =>
        pending[id].stage = IF id \in failedTx THEN "failed" ELSE "finalized"

IntactUnlessLost ==
    (Quiescent /\ missed = {} /\ counters.dropped = 0) => Intact

(* The pipeline drains: the outages end and everything sent is handled.    *)
Drains == <>[]Quiescent

-------------------------------------------------------------------------------
(* What the comments and documents say that the code does not do.          *)

(* The stream is "opened before sending so we miss no early events".       *)
NoEarlyEventMissed ==
    (Quiescent /\ outages = 0 /\ counters.dropped = 0) => Intact

===============================================================================
