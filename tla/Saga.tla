--------------------------------- MODULE Saga ---------------------------------
(***************************************************************************)
(* The autonomous submission saga: one task that submits every logical     *)
(* bundle (a "base"), follows the attempts over the shared stream, and on  *)
(* a non-landing classifies the failure, asks the agent, and resubmits or  *)
(* abandons, until every base is settled or the global deadline passes.    *)
(*                                                                         *)
(* The task is sequential, with awaits.  pc names the await it is at, and  *)
(* `work` the attempts the current handler has still to fail.  What the    *)
(* task awaits is the environment: the stream (which may delay, lose,      *)
(* repeat and reorder), the submitter, the failure probe, the agent, and   *)
(* the clock.  A transaction is identified by one value of Ids: a bundle   *)
(* carries one signature and its id is a digest of it.                     *)
(***************************************************************************)
EXTENDS Correlator, FailurePolicy, FiniteSets

CONSTANTS
    Bases,              \* the logical bundles to submit
    Ids,                \* the ids of the transactions the submitter can build
    NoId,               \* current_attempt_id of a base not launched yet ("")
    TxId,               \* TxId[b][n]: the transaction built for attempt n of b
    MaxAttempts,        \* SagaConfig.max_attempts
    Slots,              \* the slots the stream reports
    Deadlines,          \* give-up slots the submitter sets; NoSlot when RPC failed
    Classes,            \* the failure classes the probe can come to
    ConfirmedStream     \* subscribed at `confirmed`: no reported tx is forked out

ASSUME SagaAssumption ==
    /\ Slots \subseteq Nat
    /\ NoSlot \notin Nat
    /\ Deadlines \subseteq Slots \cup {NoSlot}
    /\ NoId \notin Ids
    /\ MaxAttempts \in Nat \ {0}
    /\ \A b \in Bases, n \in 1..MaxAttempts : TxId[b][n] \in Ids
    /\ Classes \subseteq FailureClass
    /\ ConfirmedStream \in BOOLEAN

VARIABLES
    pc,         \* the await the task is at
    todo,       \* bases whose first attempt is not submitted yet
    work,       \* attempts the running handler has still to give up on
    pending,    \* PendingBundles: id -> [stage, slot]
    attempts,   \* id -> the SubmittedBundle (base, no, deadline) and its spec's refresh
    bases,      \* base -> BaseState
    landed,     \* ids counted as landed
    failures,   \* ids in the `failed` set -> the class of the Failure event emitted
    refused,    \* bases whose submission returned Err (history, for the accounting)
    latestSlot, \* the highest slot seen on the stream
    summary,    \* ProofSummary: total, landed, failed
    timeUp      \* the global deadline has passed

run     == <<pc, todo, work, timeUp>>
table   == <<pending, attempts, bases, refused>>
ledger  == <<landed, failures, summary>>
vars    == <<pc, todo, work, pending, attempts, bases, landed, failures, refused,
             latestSlot, summary, timeUp>>

-------------------------------------------------------------------------------
Awaits    == {"launch", "top", "recv", "txFailed", "reconcile", "giveUp", "sweep", "over"}
Attempt   == [base : Bases, no : 1..MaxAttempts, deadline : Slots \cup {NoSlot},
              refresh : BOOLEAN]
BaseState == [current : Ids \cup {NoId}, landed : BOOLEAN, done : BOOLEAN]

Init ==
    /\ pc = IF Bases = {} THEN "top" ELSE "launch"
    /\ todo = Bases
    /\ work = {}
    /\ pending = [id \in {} |-> NewBundle]
    /\ attempts = [id \in {} |-> NewBundle]
    /\ bases = [b \in Bases |-> [current |-> NoId, landed |-> FALSE, done |-> FALSE]]
    /\ landed = {}
    /\ failures = [id \in {} |-> ""]
    /\ refused = {}
    /\ latestSlot = 0
    /\ summary = [total |-> 0, landed |-> 0, failed |-> 0]
    /\ timeUp = FALSE

-------------------------------------------------------------------------------
(* Mutant of Accepted: the base keeps pointing at its previous attempt.    *)
AcceptedKeepsCurrent(b, n, refresh, deadline) ==
    LET id == TxId[b][n]
    IN  /\ pending'  = Track(pending, id)
        /\ attempts' = Insert(attempts, id, [base |-> b, no |-> n,
                                             deadline |-> deadline, refresh |-> refresh])
        /\ UNCHANGED <<bases, refused>>

(* launch, when the submitter accepts: the attempt is tracked and becomes  *)
(* the current one of its base.                                            *)
Accepted(b, n, refresh, deadline) ==
    LET id == TxId[b][n]
    IN  /\ pending'  = Track(pending, id)
        /\ attempts' = Insert(attempts, id, [base |-> b, no |-> n,
                                             deadline |-> deadline, refresh |-> refresh])
        /\ bases'    = [bases EXCEPT ![b].current = id]
        /\ UNCHANGED refused

(* launch, when the submitter returns Err: the base is closed.             *)
Refused(b) ==
    /\ bases'   = [bases EXCEPT ![b].done = TRUE]
    /\ refused' = refused \cup {b}
    /\ UNCHANGED <<pending, attempts>>

(* Mutant of Abandoned: the base stays open.                               *)
AbandonedStaysOpen(b) == UNCHANGED <<bases, pending, attempts, refused>>

Abandoned(b) ==
    /\ bases' = [bases EXCEPT ![b].done = TRUE]
    /\ UNCHANGED <<pending, attempts, refused>>

Count(total, failed) ==
    summary' = [summary EXCEPT !.total = @ + total, !.failed = @ + failed]

(* run: the first attempt of one base; the stream is not drained until all *)
(* of them are out.                                                        *)
LaunchFirst(b) ==
    /\ pc = "launch" /\ b \in todo
    /\ \/ \E d \in Deadlines : Accepted(b, 1, FALSE, d) /\ Count(1, 0)
       \/ Refused(b) /\ Count(0, 1)
    /\ todo' = todo \ {b}
    /\ pc' = IF todo' = {} THEN "top" ELSE "launch"
    /\ UNCHANGED <<work, landed, failures, latestSlot, timeUp>>

-------------------------------------------------------------------------------
(* Mutant of CanFail: an attempt can be failed again.                      *)
CanFailAgain(id) ==
    /\ id \in DOMAIN attempts
    /\ ~bases[attempts[id].base].done

(* fail_and_retry.  Its early returns: already failed, unknown, base done. *)
CanFail(id) ==
    /\ id \notin DOMAIN failures
    /\ id \in DOMAIN attempts
    /\ ~bases[attempts[id].base].done

Ignored == UNCHANGED <<pending, attempts, bases, refused, landed, failures, summary>>

(* allow_retry = TRUE: classify, ask, and resubmit or abandon.             *)
FailAndRetry(id) ==
    \/ ~CanFail(id) /\ Ignored
    \/ /\ CanFail(id)
       /\ UNCHANGED landed
       /\ \E class \in Classes, aiRefresh \in BOOLEAN :
            LET b    == attempts[id].base
                n    == attempts[id].no
                plan == ResolveRetry(class, n, MaxAttempts, aiRefresh)
            IN  /\ failures' = Insert(failures, id, class)
                /\ \/ ~plan.retry /\ Abandoned(b) /\ Count(0, 1)
                   \/ /\ plan.retry
                      /\ \E d \in Deadlines : Accepted(b, n + 1, plan.refresh, d)
                      /\ Count(1, 1)
                   \/ plan.retry /\ Refused(b) /\ Count(0, 2)

(* Mutant of FailAndClose: the sweep retries.                              *)
FailAndCloseRetries(id) == FailAndRetry(id)

(* allow_retry = FALSE: record the failure, close the base, submit nothing.*)
FailAndClose(id) ==
    \/ ~CanFail(id) /\ Ignored
    \/ /\ CanFail(id)
       /\ UNCHANGED landed
       /\ \E class \in Classes : failures' = Insert(failures, id, class)
       /\ Abandoned(attempts[id].base)
       /\ Count(0, 1)

-------------------------------------------------------------------------------
(* The top of the drain loop: stop when every base is done or the deadline *)
(* has passed, otherwise wait for a message.                               *)
AllDone == Bases # {} /\ \A b \in Bases : bases[b].done

(* Mutant of Wait: only the receive looks at the clock.                    *)
WaitAnyway ==
    /\ pc = "top" /\ ~AllDone
    /\ pc' = "recv"
    /\ UNCHANGED <<todo, work, timeUp, table, ledger, latestSlot>>

Wait ==
    /\ pc = "top" /\ ~AllDone /\ ~timeUp
    /\ pc' = "recv"
    /\ UNCHANGED <<todo, work, timeUp, table, ledger, latestSlot>>

(* A transaction status the stream may deliver now.  At `confirmed` a      *)
(* transaction is reported from one block only, so a repeated report says  *)
(* what the first said; at `processed` forks may contradict each other.    *)
TxReportPossible(id, txFailed) ==
    (ConfirmedStream /\ id \in DOMAIN pending /\ pending[id].stage # "submitted")
        => (txFailed <=> pending[id].stage = "failed")

SlotReportPossible(slot, status) ==
    ~(ConfirmedStream /\ status = "dead"
        /\ \E id \in DOMAIN pending : pending[id].slot = slot)

(* A Transaction message.  One for an unknown signature is not correlated; *)
(* a failed one goes through fail_and_retry before the reconciliation,     *)
(* whatever the lifecycle made of it.                                      *)
RecvTx(id, slot, txFailed) ==
    /\ pc = "recv" /\ TxReportPossible(id, txFailed)
    /\ IF id \in DOMAIN pending
       THEN /\ pending' = OnTxStatus(pending, id, slot, txFailed)
            /\ pc' = IF txFailed THEN "txFailed" ELSE "reconcile"
            /\ work' = IF txFailed THEN {id} ELSE {}
       ELSE /\ pc' = "reconcile"
            /\ UNCHANGED <<pending, work>>
    /\ UNCHANGED <<todo, attempts, bases, landed, failures, refused, latestSlot,
                   summary, timeUp>>

TxFailed(id) ==
    /\ pc = "txFailed" /\ id \in work
    /\ FailAndRetry(id)
    /\ pc' = "reconcile"
    /\ work' = work \ {id}
    /\ UNCHANGED <<todo, latestSlot, timeUp>>

(* A Slot message.                                                         *)
RecvSlot(slot, status) ==
    /\ pc = "recv" /\ SlotReportPossible(slot, status)
    /\ latestSlot' = IF slot > latestSlot THEN slot ELSE latestSlot
    /\ pending' = OnSlotStatus(pending, slot, status)
    /\ pc' = "reconcile"
    /\ UNCHANGED <<todo, work, attempts, bases, landed, failures, refused, summary,
                   timeUp>>

(* Connected, Gap and error messages only bring the loop to its top.       *)
RecvOther ==
    /\ pc = "recv"
    /\ pc' = "top"
    /\ UNCHANGED <<todo, work, timeUp, table, ledger, latestSlot>>

(* reconcile: count the new landings, close the bases whose current        *)
(* attempt is finalized, and list the current attempts past their give-up  *)
(* slot, never one of a base that landed.                                  *)
NewlyLanded ==
    {id \in DOMAIN attempts \ landed :
        id \in DOMAIN pending /\ ReachedConfirmed(pending[id].stage)}

(* Mutant of AfterLandings: the done flag is computed afresh.              *)
AfterLandingsReopens(newly) ==
    [b \in Bases |->
        [bases[b] EXCEPT
            !.landed = @ \/ \E id \in newly : attempts[id].base = b,
            !.done   = /\ bases[b].current \in DOMAIN pending
                       /\ IsSuccess(pending[bases[b].current].stage)]]

AfterLandings(newly) ==
    [b \in Bases |->
        [bases[b] EXCEPT
            !.landed = @ \/ \E id \in newly : attempts[id].base = b,
            !.done   = @ \/ /\ bases[b].current \in DOMAIN pending
                            /\ IsSuccess(pending[bases[b].current].stage)]]

(* Mutant of Expired: also for a base that landed.                         *)
ExpiredThoughLanded(states) ==
    {id \in DOMAIN attempts \ DOMAIN failures :
        /\ \E b \in Bases : states[b].current = id /\ ~states[b].done
        /\ attempts[id].deadline # NoSlot
        /\ latestSlot >= attempts[id].deadline}

Expired(states) ==
    {id \in DOMAIN attempts \ DOMAIN failures :
        /\ \E b \in Bases : /\ states[b].current = id
                            /\ ~states[b].done /\ ~states[b].landed
        /\ attempts[id].deadline # NoSlot
        /\ latestSlot >= attempts[id].deadline}

Reconcile ==
    /\ pc = "reconcile"
    /\ landed' = landed \cup NewlyLanded
    /\ summary' = [summary EXCEPT !.landed = @ + Cardinality(NewlyLanded)]
    /\ bases' = AfterLandings(NewlyLanded)
    /\ work' = Expired(bases')
    /\ pc' = IF work' = {} THEN "top" ELSE "giveUp"
    /\ UNCHANGED <<todo, pending, attempts, failures, refused, latestSlot, timeUp>>

GiveUp(id) ==
    /\ pc = "giveUp" /\ id \in work
    /\ FailAndRetry(id)
    /\ work' = work \ {id}
    /\ pc' = IF work' = {} THEN "top" ELSE "giveUp"
    /\ UNCHANGED <<todo, latestSlot, timeUp>>

-------------------------------------------------------------------------------
(* Mutant of Swept: a landed base is not closed.                           *)
SweptForgetsLanded == bases

(* The loop ends: everything done or deadline seen at the top, the timeout *)
(* of the receive, or the stream closed.  The sweep closes the landed      *)
(* bases and lists the others for a last failure record.                   *)
Swept == [b \in Bases |-> [bases[b] EXCEPT !.done = @ \/ bases[b].landed]]

Stuck(states) ==
    {states[b].current : b \in {c \in Bases :
        ~states[c].done /\ states[c].current \notin DOMAIN failures}}

BeginSweep ==
    /\ bases' = Swept
    /\ work' = Stuck(bases')
    /\ pc' = IF work' = {} THEN "over" ELSE "sweep"
    /\ UNCHANGED <<todo, pending, attempts, landed, failures, refused, latestSlot,
                   summary, timeUp>>

LeaveAtTop   == pc = "top" /\ (AllDone \/ timeUp) /\ BeginSweep
RecvTimeout  == pc = "recv" /\ timeUp /\ BeginSweep
StreamClosed == pc = "recv" /\ BeginSweep

Sweep(id) ==
    /\ pc = "sweep" /\ id \in work
    /\ FailAndClose(id)
    /\ work' = work \ {id}
    /\ pc' = IF work' = {} THEN "over" ELSE "sweep"
    /\ UNCHANGED <<todo, latestSlot, timeUp>>

(* The clock reaches global_deadline.                                      *)
DeadlinePasses ==
    /\ ~timeUp /\ pc # "over"
    /\ timeUp' = TRUE
    /\ UNCHANGED <<pc, todo, work, table, ledger, latestSlot>>

Over == pc = "over" /\ UNCHANGED vars

-------------------------------------------------------------------------------
Step ==
    \/ \E b \in Bases : LaunchFirst(b)
    \/ Wait
    \/ Reconcile
    \/ \E id \in Ids : TxFailed(id) \/ GiveUp(id) \/ Sweep(id)
    \/ LeaveAtTop
    \/ RecvTimeout

Message ==
    \/ \E id \in Ids, slot \in Slots, txFailed \in BOOLEAN : RecvTx(id, slot, txFailed)
    \/ \E slot \in Slots, status \in SlotStatus : RecvSlot(slot, status)
    \/ RecvOther
    \/ StreamClosed

Next == Step \/ Message \/ DeadlinePasses \/ Over

Spec == Init /\ [][Next]_vars

(* The task runs whenever it is not waiting for a message, and the clock   *)
(* runs.  Nothing is assumed of the stream, the agent's or the submitter's *)
(* answers: every call they make is bounded by a timeout of its own.       *)
FairSpec == Spec /\ WF_vars(Step) /\ WF_vars(DeadlinePasses)

-------------------------------------------------------------------------------
(* Properties.                                                             *)

AttemptsOf(b) == {id \in DOMAIN attempts : attempts[id].base = b}

TypeOK ==
    /\ pc \in Awaits
    /\ todo \subseteq Bases
    /\ work \subseteq Ids
    /\ DOMAIN pending \subseteq Ids
    /\ pending \in [DOMAIN pending -> [stage : Stage, slot : Slots \cup {NoSlot}]]
    /\ DOMAIN attempts \subseteq Ids
    /\ attempts \in [DOMAIN attempts -> Attempt]
    /\ bases \in [Bases -> BaseState]
    /\ landed \subseteq Ids
    /\ DOMAIN failures \subseteq Ids
    /\ failures \in [DOMAIN failures -> FailureClass]
    /\ refused \subseteq Bases
    /\ latestSlot \in Slots \cup {0}
    /\ summary \in [total : Nat, landed : Nat, failed : Nat]
    /\ timeUp \in BOOLEAN

(* A base never has two attempts in flight: every tracked attempt that was *)
(* not given up is the current one of its base.  A failed tx-status and a  *)
(* give-up slot may both point at one attempt; only one may resubmit.      *)
OneLiveAttempt ==
    \A id \in DOMAIN attempts \ DOMAIN failures :
        bases[attempts[id].base].current = id

(* Every resubmission is one the policy allows, whatever the agent said:   *)
(* it follows a recorded failure of the previous attempt of the same base, *)
(* of a retryable class, within the cap, and with a fresh blockhash when   *)
(* that class closes the validity window.                                  *)
RetryFollowsPolicy ==
    \A id \in DOMAIN attempts :
        LET a == attempts[id] IN
        /\ a.no <= MaxAttempts
        /\ a.no > 1 =>
             \E prev \in AttemptsOf(a.base) \cap DOMAIN failures :
                /\ attempts[prev].no = a.no - 1
                /\ IsRetryable(failures[prev])
                /\ failures[prev] \in WindowClasses => a.refresh

(* A base that is still open always has a live current attempt, so some    *)
(* message, its give-up slot, or the sweep can still settle it.            *)
OpenBaseIsLive ==
    \A b \in Bases \ todo :
        ~bases[b].done => bases[b].current \in DOMAIN attempts \ DOMAIN failures

(* When the run is over, every base is done and has an outcome on record:  *)
(* a landing, a failure of its last attempt, or a refused submission.      *)
SettledAtEnd ==
    pc = "over" =>
        \A b \in Bases :
            /\ bases[b].done
            /\ \/ b \in refused
               \/ AttemptsOf(b) \cap landed # {}
               \/ bases[b].current \in DOMAIN failures

(* The counts returned agree with the record: one submission per tracked   *)
(* attempt, one landing per landed attempt, one failure per given-up       *)
(* attempt and per refused submission.                                     *)
CountsAgree ==
    /\ summary.total  = Cardinality(DOMAIN attempts)
    /\ summary.landed = Cardinality(landed)
    /\ summary.failed = Cardinality(DOMAIN failures) + Cardinality(refused)

(* Neither the give-up slot nor the sweep ever fails an attempt of a base  *)
(* that landed, although landings are only counted between messages.       *)
LandedNeverGivenUp ==
    [][\A id \in DOMAIN failures' \ DOMAIN failures :
          pc \in {"giveUp", "sweep"} => ~bases[attempts[id].base].landed]_vars

(* A settled base stays settled: a late report about any of its attempts   *)
(* neither reopens it, nor gives it a new attempt, nor takes back its      *)
(* landing.                                                                *)
DoneIsFinal ==
    [][\A b \in Bases :
          /\ bases[b].done => bases'[b].done /\ bases'[b].current = bases[b].current
          /\ bases[b].landed => bases'[b].landed]_vars

(* Once the sweep has begun nothing is submitted any more, also when a     *)
(* retryable failure is recorded by it.                                    *)
NoSubmissionAfterRun ==
    [][(pc \in {"sweep", "over"}) => UNCHANGED <<attempts, pending>>]_vars

(* On a confirmed stream a landing that was counted is never contradicted  *)
(* by the lifecycle of the attempt.                                        *)
LandingHolds ==
    ConfirmedStream => \A id \in landed : ReachedConfirmed(pending[id].stage)

(* The lifecycle of every attempt is a path of the abstract lifecycle,     *)
(* through reports in any order, repeated or lost.                         *)
StageOf(id) == IF id \in DOMAIN pending THEN pending[id].stage ELSE "submitted"
Paths == INSTANCE CommitmentPath WITH stages <- [id \in Ids |-> StageOf(id)]
LifecyclesArePaths == Paths!Spec

(* The run ends, whatever the stream delivers.                             *)
RunEnds == <>(pc = "over")

-------------------------------------------------------------------------------
(* What the comments and documents say that the code does not do.          *)

(* A non-landing attempt is resubmitted "until it lands or the attempt cap *)
(* / a non-retryable class abandons it".                                   *)
NoRetryOnceLanded ==
    [][\A id \in DOMAIN attempts' \ DOMAIN attempts :
          ~bases[attempts'[id].base].landed]_vars

===============================================================================
