-------------------------------- MODULE RunLog --------------------------------
(***************************************************************************)
(* The record of a run: the telemetry the saga emits, the lifecycle log    *)
(* assembled from it, and the receipt and recovery chains read off that    *)
(* log, side by side with the saga's own state.                            *)
(*                                                                         *)
(* The capturing sink keeps every event in order (the Failure events are   *)
(* `failures` of the saga).  The log sorts an attempt's rows by timestamp: *)
(* the stream's messages are stamped when they are received, in order, the *)
(* submission when the send has returned.  All that matters of the clock   *)
(* is which messages were received before a submission had returned.       *)
(***************************************************************************)
EXTENDS Saga, Sequences, SequencesExt

CONSTANT MaxRows    \* bound of the model: no tx report once a log has this many rows

ASSUME RunLogAssumption ==
    /\ MaxRows \in Nat
    /\ \A b, c \in Bases, n, m \in 1..MaxAttempts :
          TxId[b][n] = TxId[c][m] => b = c /\ n = m

VARIABLES
    bundles,    \* the Bundle events, one per accepted submission
    rows,       \* id -> its Lifecycle events, in the order they were emitted
    reached     \* how many submissions had returned when the message was received

logVars == <<bundles, rows, reached>>

-------------------------------------------------------------------------------
(* What the saga emits.                                                    *)

Row(stage, slot, early) == [stage |-> stage, slot |-> slot, early |-> early]

LogInit == Init /\ bundles = <<>> /\ rows = [id \in {} |-> <<>>] /\ reached = 0

(* An accepted submission is announced and its lifecycle begun.            *)
LogLaunches ==
    LET new == DOMAIN attempts' \ DOMAIN attempts
    IN  /\ bundles' = bundles \o SetToSeq({[id |-> id, base |-> attempts'[id].base,
                                            attempt |-> attempts'[id].no] : id \in new})
        /\ rows' = [id \in DOMAIN rows \cup new |->
                       IF id \in new THEN <<Row("submitted", NoSlot, FALSE)>> ELSE rows[id]]
        /\ UNCHANGED reached

(* Was the attempt's submission still out after r of them had returned?    *)
Early(id, r) == \E i \in (r + 1)..Len(bundles) : bundles[i].id = id

(* A transaction report emits the last transition of its lifecycle, also   *)
(* when the report changed nothing.                                        *)
LogTx(id, slot, txFailed) ==
    /\ RecvTx(id, slot, txFailed)
    /\ id \in DOMAIN rows => Len(rows[id]) < MaxRows
    /\ reached' \in reached..Len(bundles)
    /\ rows' = IF id \notin DOMAIN pending THEN rows
               ELSE [rows EXCEPT ![id] = Append(@,
                        IF pending'[id].stage = pending[id].stage THEN Last(@)
                        ELSE Row(pending'[id].stage, slot, Early(id, reached')))]
    /\ UNCHANGED bundles

(* A slot report emits a row for every lifecycle it advanced.              *)
LogSlot(slot, status) ==
    /\ RecvSlot(slot, status)
    /\ reached' \in reached..Len(bundles)
    /\ rows' = [id \in DOMAIN rows |->
                   IF pending'[id].stage = pending[id].stage THEN rows[id]
                   ELSE Append(rows[id], Row(pending'[id].stage, slot, Early(id, reached')))]
    /\ UNCHANGED bundles

LogNext ==
    \/ (Step \/ RecvOther \/ StreamClosed \/ DeadlinePasses \/ Over) /\ LogLaunches
    \/ \E id \in Ids, slot \in Slots, txFailed \in BOOLEAN : LogTx(id, slot, txFailed)
    \/ \E slot \in Slots, status \in SlotStatus : LogSlot(slot, status)

LogSpec == LogInit /\ [][LogNext]_<<vars, logVars>>

-------------------------------------------------------------------------------
(* build_log: one entry per bundle id, its rows by time.                   *)

(* The sort is stable, and the rows are in the order of their times but    *)
(* for those of messages received before the submission had returned.      *)
Before(id, i, j) ==
    IF rows[id][i].early = rows[id][j].early THEN i < j ELSE rows[id][i].early

First(id, S) == CHOOSE i \in S : \A j \in S \ {i} : Before(id, i, j)

EntryLanded(id) == \E r \in ToSet(rows[id]) : r.stage \in {"confirmed", "finalized"}

FirstSlot(id) == rows[id][First(id, {i \in DOMAIN rows[id] : rows[id][i].slot # NoSlot})].slot

(* Mutant of FinalStage: the stage that made the entry a landing.          *)
FinalStageFirst(id) ==
    rows[id][First(id, {i \in DOMAIN rows[id] :
                            rows[id][i].stage \in {"confirmed", "finalized"}})].stage

FinalStage(id) ==
    rows[id][CHOOSE i \in DOMAIN rows[id] :
                 \A j \in DOMAIN rows[id] \ {i} : Before(id, j, i)].stage

Events(b) == {e \in ToSet(bundles) : e.base = b}
Latest(events) == CHOOSE e \in events : \A f \in events : f.attempt <= e.attempt

LandedReceipt(b, id) ==
    [outcome |-> "landed", id |-> id, slot |-> FirstSlot(id), stage |-> FinalStage(id),
     attempts |-> Latest(Events(b)).attempt]

FailedReceipt(b) ==
    IF Events(b) = {} THEN [outcome |-> "failed", class |-> "none", attempts |-> 0]
    ELSE LET last == Latest(Events(b)) IN
         [outcome |-> "failed", attempts |-> last.attempt,
          class   |-> IF last.id \in DOMAIN failures THEN failures[last.id] ELSE "none"]

(* Mutant of Receipt: only the last attempt is looked at.                  *)
ReceiptOfLast(b) ==
    IF Events(b) # {} /\ EntryLanded(Latest(Events(b)).id)
    THEN LandedReceipt(b, Latest(Events(b)).id) ELSE FailedReceipt(b)

(* receipt_from_log: any landed attempt, the latest such, or the failure.  *)
Receipt(b) ==
    LET won == {e \in Events(b) : EntryLanded(e.id)}
    IN  IF won # {} THEN LandedReceipt(b, Latest(won).id) ELSE FailedReceipt(b)

(* render_recovery_chains: the last attempt landed and an earlier did not. *)
Recovered(b) ==
    /\ Cardinality(Events(b)) > 1
    /\ EntryLanded(Latest(Events(b)).id)
    /\ \E e \in Events(b) \ {Latest(Events(b))} : ~EntryLanded(e.id)

-------------------------------------------------------------------------------
(* Properties.                                                             *)

(* A recovery is real: the attempt that landed is the base's current one, *)
(* and each before it was given up for a class that the policy retries.    *)
RecoveryIsReal(b) ==
    /\ ReachedConfirmed(pending[bases[b].current].stage)
    /\ \A id \in AttemptsOf(b) \ {bases[b].current} :
          id \in DOMAIN failures /\ IsRetryable(failures[id])

(* The receipt, read off the telemetry alone, agrees with what the saga    *)
(* counted: it is a landing exactly when some attempt of the base was      *)
(* counted as landed, and names the block of such an attempt; otherwise it *)
(* has the class recorded for the base's last attempt.  A recovery chain   *)
(* in the log is a real recovery.                                          *)
ReceiptIsOutcome ==
    pc = "over" => \A b \in Bases :
        LET receipt == Receipt(b)
        IN  /\ receipt.attempts = Cardinality(AttemptsOf(b))
            /\ IF AttemptsOf(b) \cap landed # {}
               THEN /\ receipt.outcome = "landed"
                    /\ receipt.id \in landed
                    /\ receipt.slot = pending[receipt.id].slot
               ELSE /\ receipt.outcome = "failed"
                    /\ AttemptsOf(b) # {} => receipt.class = failures[bases[b].current]
            /\ Recovered(b) => RecoveryIsReal(b)

(* A receipt names the commitment its attempt has, when the submission had *)
(* returned before the stream reported anything of it.                     *)
FinalStageIfTimely ==
    pc = "over" => \A b \in Bases :
        LET receipt == Receipt(b)
        IN  (receipt.outcome = "landed" /\ \A r \in ToSet(rows[receipt.id]) : ~r.early)
                => receipt.stage = pending[receipt.id].stage

===============================================================================
