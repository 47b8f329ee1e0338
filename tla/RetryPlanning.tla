----------------------------- MODULE RetryPlanning -----------------------------
(***************************************************************************)
(* The two planners the crates offer beside the saga's own decision, both  *)
(* built on classify and decide_retry: next_saga_action, which decides     *)
(* from one outcome, and the retry orchestrator, which counts the failures *)
(* of every saga and says how long to back off.                            *)
(***************************************************************************)
EXTENDS FailurePolicy

\* An outcome is [landed, signals]; an action [kind, refresh].
Landed  == [kind |-> "landed", refresh |-> FALSE]
Abandon == [kind |-> "abandon", refresh |-> FALSE]

\* next_saga_action: what to do after one attempt.
NextSagaAction(outcome, attempt, maxAttempts) ==
    LET policy == DecideRetry(Classify(outcome.signals), attempt, maxAttempts)
    IN  IF outcome.landed THEN Landed
        ELSE IF policy.retry THEN [kind |-> "submit", refresh |-> policy.refresh]
        ELSE Abandon

-------------------------------------------------------------------------------
\* u64::checked_shl at a width of w bits: only a shift of the whole width is refused, every
\* other one loses the bits that leave the word.
CheckedShl(n, shift, w) ==
    IF shift < w THEN [some |-> TRUE, value |-> (n * 2^shift) % 2^w]
                 ELSE [some |-> FALSE, value |-> 0]

AtMost(n, cap) == IF n <= cap THEN n ELSE cap

\* backoff_ms, of 1-indexed attempts.
BackoffMs(attempt, base, max, w) ==
    LET scaled == CheckedShl(base, attempt - 1, w)
    IN  IF attempt <= 1 THEN AtMost(base, max)
        ELSE IF scaled.some THEN AtMost(scaled.value, max)
        ELSE max

-------------------------------------------------------------------------------
\* RetryOrchestrator: the failures counted per saga id; an id that is not in the map has none.
Attempts(attempts, id) == IF id \in DOMAIN attempts THEN attempts[id] ELSE 0

Counted(attempts, id) ==
    [i \in DOMAIN attempts \cup {id} |->
        IF i = id THEN Attempts(attempts, id) + 1 ELSE attempts[i]]

Clear(attempts, id) == [i \in DOMAIN attempts \ {id} |-> attempts[i]]

\* on_failure: the failure is counted, then judged by its number, and a retry is delayed by it.
OnFailure(attempts, id, class, maxAttempts) ==
    LET counted == Counted(attempts, id)
        policy  == DecideRetry(class, counted[id], maxAttempts)
    IN  [attempts |-> counted, retry |-> policy.retry, refresh |-> policy.refresh,
         backoffOf |-> counted[id]]

===============================================================================
