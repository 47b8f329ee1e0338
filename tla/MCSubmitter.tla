------------------------------ MODULE MCSubmitter ------------------------------
(* An inject specification for the model checker, with an unknown name and *)
(* one scenario more than there are bundles, and bounded checks of the     *)
(* pure operators.                                                         *)
EXTENDS Submitter, RetryPlanning

MCInjectSpec == <<[name |-> "low-tip", n |-> 1], [name |-> "bogus", n |-> 2],
                  [name |-> "stale-blockhash", n |-> 2]>>

\* assign_injections keeps the order of the scenarios, never leaves a clean bundle behind a faulty
\* one and drops scenarios only when every bundle has one (bin/proof.rs:107-118).
ASSUME InjectionsAreLast ==
    \A count \in 1..3, n \in 0..4 :
    \A scenarios \in [1..n -> {"low-tip", "stale-blockhash"}] :
        LET given == AssignInjections(scenarios, count)
            hit   == {b \in 1..count : given[b] # "none"}
        IN  /\ Cardinality(hit) = IF n < count THEN n ELSE count
            /\ \A b \in hit : b..count \subseteq hit
            /\ \A b \in hit : given[b] = scenarios[b - (count - Cardinality(hit))]

\* The backoff doubles from its base and stays within the cap as long as no bit is lost, here in
\* words of 6 bits (backoff.rs:3-14) ...
ASSUME BackoffDoubles ==
    \A base \in 1..5, max \in 1..63, attempt \in 1..9 :
    base * 2^(attempt - 1) < 2^6 =>
        BackoffMs(attempt, base, max, 6) = AtMost(base * 2^(attempt - 1), max)

\* ... but it is not "overflow-safe (saturates to the cap)" (backoff.rs:4): a delay may drop to
\* nothing in the middle of the attempts and come back to the cap later.
ASSUME BackoffWraps ==
    \E attempt \in 1..9 :
    /\ BackoffMs(attempt, 4, 40, 6) = 0
    /\ BackoffMs(attempt - 1, 4, 40, 6) > 0
    /\ BackoffMs(9, 4, 40, 6) = 40

\* A saga that fails again and again is retried exactly max_attempts - 1 times, and the next backoff
\* is that of the failure just counted (orchestrator.rs:37-51).
ASSUME OrchestratorCounts ==
    \A class \in FailureClass, maxAttempts \in 0..3 :
    LET counts == [n \in 0..4 |-> [i \in {"b01"} |-> n]]
        retried == {n \in 0..4 : OnFailure(counts[n], "b01", class, maxAttempts).retry}
    IN  /\ retried = IF IsRetryable(class) THEN {n \in 0..4 : n + 1 < maxAttempts} ELSE {}
        /\ \A n \in retried : OnFailure(counts[n], "b01", class, maxAttempts).backoffOf = n + 1

===============================================================================
