---------------------------- MODULE FailurePolicy ----------------------------
(***************************************************************************)
(* The pure decisions taken about a submission that did not land: which    *)
(* class of failure the signals show, whether that class may be retried,   *)
(* how the agent's proposal is combined with the policy, and the tip that  *)
(* is finally paid.                                                        *)
(***************************************************************************)
EXTENDS Integers

OnChainError == {"compute_budget_exceeded", "instruction_error",
                 "duplicate_signature", "other"}

FailureClass == {"expired_blockhash", "fee_too_low", "compute_exceeded",
                 "bundle_failure", "leader_miss", "skipped_slot",
                 "duplicate_signature", "instruction_error",
                 "confirmation_timeout", "unclassified"}

IsRetryable(class) ==
    class \in {"expired_blockhash", "fee_too_low", "bundle_failure",
               "leader_miss", "skipped_slot", "confirmation_timeout"}

(* The class of an error decoded from the chain.                           *)
OnChainClass(err) ==
    CASE err = "compute_budget_exceeded" -> "compute_exceeded"
      [] err = "duplicate_signature"     -> "duplicate_signature"
      [] err = "instruction_error"       -> "instruction_error"
      [] err = "other"                   -> "bundle_failure"

(* classify: the rules in priority order.  A signal record has the fields  *)
(* err ("none" or an OnChainError), bundleFailed, heightExceeded, valid    *)
(* ("yes", "no" or "unknown": isBlockhashValid), landed, tip, floor,       *)
(* leaderMissed, slotSkipped, timeout.                                     *)
Classify(s) ==
    CASE s.err # "none"
            -> OnChainClass(s.err)
      [] s.err = "none" /\ ~s.landed /\ s.floor > 0 /\ s.tip < s.floor
            -> "fee_too_low"
      [] OTHER ->
            IF s.heightExceeded \/ s.valid = "no" THEN "expired_blockhash"
            ELSE IF ~s.landed /\ s.slotSkipped THEN "skipped_slot"
            ELSE IF ~s.landed /\ s.leaderMissed THEN "leader_miss"
            ELSE IF s.bundleFailed THEN "bundle_failure"
            ELSE IF ~s.landed /\ s.timeout THEN "confirmation_timeout"
            ELSE "unclassified"

(* Mutant of SignalsFromObservation: expired one block too early.          *)
SignalsAtBoundary(o) ==
    [err |-> o.err, bundleFailed |-> o.bundleFailed, valid |-> o.valid,
     heightExceeded |-> o.height # -1 /\ o.lastValid # -1 /\ o.height >= o.lastValid,
     tip |-> o.tip, floor |-> o.floor,
     landed |-> FALSE, leaderMissed |-> FALSE, slotSkipped |-> FALSE, timeout |-> TRUE]

(* The live probe of a bundle that did not land: what RPC and the block    *)
(* engine said, over a confirmation-timeout baseline.  An observation has  *)
(* err, bundleFailed, valid, tip, floor, and height/lastValid (-1: the     *)
(* call failed or nothing was cached).                                     *)
SignalsFromObservation(o) ==
    [err |-> o.err, bundleFailed |-> o.bundleFailed, valid |-> o.valid,
     heightExceeded |-> o.height # -1 /\ o.lastValid # -1 /\ o.height > o.lastValid,
     tip |-> o.tip, floor |-> o.floor,
     landed |-> FALSE, leaderMissed |-> FALSE, slotSkipped |-> FALSE, timeout |-> TRUE]

(* decide_retry: non-retryable classes and the attempt cap abandon; the    *)
(* blockhash is refreshed when the cause is the validity window itself.    *)
WindowClasses == {"expired_blockhash", "confirmation_timeout"}

DecideRetry(class, attempt, maxAttempts) ==
    [retry   |-> IsRetryable(class) /\ attempt < maxAttempts,
     refresh |-> class \in WindowClasses]

(* Mutant of ResolveRetry: the agent decides on the refresh.               *)
ResolveRetryAgentRules(class, attempt, maxAttempts, aiRefresh) ==
    LET policy == DecideRetry(class, attempt, maxAttempts)
    IN  [retry |-> policy.retry, refresh |-> policy.retry /\ aiRefresh]

(* resolve_retry: the agent may add a refresh (aiRefresh), never remove a  *)
(* forced one, and never turns an abandon into a retry.  No reply and a    *)
(* reply without the field both read as aiRefresh = FALSE.                 *)
ResolveRetry(class, attempt, maxAttempts, aiRefresh) ==
    LET policy == DecideRetry(class, attempt, maxAttempts)
    IN  [retry   |-> policy.retry,
         refresh |-> policy.retry /\ (policy.refresh \/ aiRefresh)]

===============================================================================
