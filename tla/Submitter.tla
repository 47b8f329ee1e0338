------------------------------- MODULE Submitter -------------------------------
(***************************************************************************)
(* How an attempt is put on a blockhash, sent, and probed when it does not *)
(* land: the submitters behind the saga (EngineSubmitter and the proof's   *)
(* LiveSubmitter, which also injects faults into first attempts), with the *)
(* RPC client and the status endpoints of the block engine they ask.       *)
(*                                                                         *)
(* Time is the block height; a blockhash is named by the height it was     *)
(* fetched at and is valid for Life blocks.  The saga's task is sequential *)
(* but awaits between choosing the blockhash and sending, so the height    *)
(* moves and earlier attempts land at any point.  RPC answers truly or     *)
(* not at all.                                                             *)
(***************************************************************************)
EXTENDS FailurePolicy, Sequences, FiniteSets

LOCAL INSTANCE SequencesExt

CONSTANTS
    Count,              \* --count: how many logical bundles; they are 1..Count
    InjectSpec,         \* --inject: a sequence of [name, n], n scenarios of that name
    MaxAttempts,        \* SagaConfig.max_attempts
    Life,               \* blocks a blockhash stays valid
    MaxHeight,          \* bound of the model: the last block height
    NoHash, NoAttempt,  \* nothing cached; no attempt
    NoAnswer,           \* an RPC or block-engine call that gave no value
    Accounts,           \* how many tip accounts there are
    Proposals,          \* tips the agent or the live floor come to
    MinTip, MaxTip,     \* the policy's band
    LowTip,             \* the tip of the low-tip fault
    Floor,              \* tip-floor P50 at the start of the run
    Errors              \* on-chain errors the block engine may report, each the
                        \* set of the known markers that occur in its text

Markers == {"computebudget", "alreadyprocessed", "duplicate", "instructionerror"}

ASSUME SubmitterAssumption ==
    /\ Count \in Nat \ {0}
    /\ \A i \in DOMAIN InjectSpec : InjectSpec[i].n \in Nat
    /\ MaxAttempts \in Nat \ {0}
    /\ Life \in Nat \ {0} /\ MaxHeight \in Nat
    /\ NoHash \notin Nat
    /\ Accounts \in Nat \ {0}
    /\ Proposals \subseteq Nat /\ Proposals # {}
    /\ {MinTip, MaxTip, LowTip, Floor} \subseteq Nat
    /\ MinTip <= MaxTip /\ LowTip <= MaxTip
    /\ Errors \subseteq SUBSET Markers

VARIABLES
    height,     \* the block height
    stale,      \* the blockhash captured for stale-blockhash faults
    cache,      \* blockhash_cache: base -> blockhash of its last attempt
    due,        \* base -> the AttemptSpec its launch was called with, or NoAttempt
    draft,      \* the spec and blockhash the running submit has chosen, or NoAttempt
    current,    \* base -> its current attempt, or NoAttempt
    sent,       \* all attempts sent
    failures,   \* failed attempt -> its class, and whether it had expired by then
    landed,     \* the attempts that landed
    closed      \* bases abandoned, refused or settled

vars == <<height, stale, cache, due, draft, current, sent, failures, landed, closed>>

-------------------------------------------------------------------------------
(* parse_inject_spec: the scenarios in order, unknown names ignored.       *)
KnownScenarios == {"low-tip", "stale-blockhash"}

ParseInjectSpec(parts) ==
    LET known == SelectSeq(parts, LAMBDA part : part.name \in KnownScenarios)
    IN  FlattenSeq([i \in DOMAIN known |-> [k \in 1..known[i].n |-> known[i].name]])

(* assign_injections: the scenarios go to the last bundles, the surplus is *)
(* dropped.                                                                *)
AssignInjections(scenarios, count) ==
    LET start == IF count > Len(scenarios) THEN count - Len(scenarios) ELSE 0
    IN  [b \in 1..count |-> IF b - start \in DOMAIN scenarios
                            THEN scenarios[b - start] ELSE "none"]

Bases == 1..Count
Fault == AssignInjections(ParseInjectSpec(InjectSpec), Count)

(* RpcClient::call and its parsers: the value asked for, or an error (the  *)
(* transport, the HTTP status, an error object or a malformed result).     *)
Call(value) == {value, NoAnswer}

Expired(hash) == height > hash + Life

LatestBlockhash       == Call(height)
BlockHeight           == Call(height)
IsBlockhashValid(hash) == Call(~Expired(hash))

Spec1(b) == [base |-> b, no |-> 1, refresh |-> FALSE, fault |-> Fault[b]]

(* The specs of attempts, a submit under way, and the attempts sent.       *)
Faults   == {Fault[b] : b \in Bases} \cup {"none"}
Specs    == [base : Bases, no : Nat \ {0}, refresh : BOOLEAN, fault : Faults]
Drafts   == [spec : Specs, hash : Nat]
Submissions == [base : Bases, no : Nat \ {0}, fault : Faults,
                hash : Nat, account : Nat, tip : Nat]

(* What stands for None is none of the values it is told apart from.       *)
ASSUME NoneAssumption ==
    /\ NoAttempt \notin Specs \cup Drafts \cup Submissions
    /\ NoAnswer \notin Nat \cup BOOLEAN

Init ==
    /\ height = 0
    /\ stale = NoHash
    /\ cache = [b \in Bases |-> NoHash]
    /\ due = [b \in Bases |-> Spec1(b)]
    /\ draft = NoAttempt
    /\ current = [b \in Bases |-> NoAttempt]
    /\ sent = {}
    /\ failures = [a \in {} |-> 0]
    /\ landed = {}
    /\ closed = {}

-------------------------------------------------------------------------------
(* Mutant of Reuse: what is cached is reused unchecked.                    *)
ReuseUnchecked(spec) ==
    IF spec.refresh THEN {NoHash} ELSE {cache[spec.base]}

(* The cached blockhash is reused when no refresh is asked for and RPC     *)
(* says it is valid; without an answer it is not.                          *)
Reuse(spec) ==
    IF spec.refresh \/ cache[spec.base] = NoHash THEN {NoHash}
    ELSE {IF valid = TRUE THEN cache[spec.base] ELSE NoHash :
            valid \in IsBlockhashValid(cache[spec.base])}

(* stale_blockhash: captured once, then waited on until it expires (or the *)
(* wait is capped).                                                        *)
CaptureStale(b) ==
    /\ draft = NoAttempt /\ due[b] # NoAttempt
    /\ due[b].fault = "stale-blockhash" /\ stale = NoHash
    /\ stale' \in LatestBlockhash \ {NoAnswer}
    /\ UNCHANGED <<height, cache, due, draft, current, sent, failures, landed, closed>>

(* The blockhashes submit may put an attempt on: the captured one for a    *)
(* stale fault, otherwise the reused one or the latest.                    *)
HashesFor(spec) ==
    LET chosen == IF spec.fault = "stale-blockhash" THEN {stale} \ {NoHash} ELSE Reuse(spec)
    IN  UNION {IF hash = NoHash THEN LatestBlockhash \ {NoAnswer} ELSE {hash} : hash \in chosen}

(* submit, up to the blockhash.                                            *)
Choose(b) ==
    /\ draft = NoAttempt /\ due[b] # NoAttempt
    /\ \E hash \in HashesFor(due[b]) : draft' = [spec |-> due[b], hash |-> hash]
    /\ UNCHANGED <<height, stale, cache, due, current, sent, failures, landed, closed>>

(* apply_tip_policy: the band, or only its cap for the low-tip fault.      *)
ApplyTipPolicy(tip, bypass) ==
    IF tip > MaxTip THEN MaxTip
    ELSE IF ~bypass /\ tip < MinTip THEN MinTip ELSE tip

(* Mutant of Pick: every attempt uses the same account.                    *)
PickFirst(no) == 0

Pick(no) == no % Accounts

(* Mutant of Remember: the first blockhash of a base is kept.              *)
RememberFirst(b, hash) == IF cache[b] = NoHash THEN [cache EXCEPT ![b] = hash] ELSE cache

Remember(b, hash) == [cache EXCEPT ![b] = hash]

(* prepare_attempt: the transactions that may be signed for a spec on a    *)
(* blockhash.  Only the low-tip fault overrides the price and escapes the  *)
(* band.                                                                   *)
Prepared(spec, hash) ==
    LET low == spec.fault = "low-tip"
    IN  {[hash |-> hash, account |-> Pick(spec.no), tip |-> ApplyTipPolicy(tip, low)] :
            tip \in IF low THEN {LowTip} ELSE Proposals}

(* submit, from the blockhash on: prepare, remember the blockhash, and     *)
(* send.  A bundle the engine rejects is tracked by its signature: it is   *)
(* an attempt like any other, that the engine knows nothing about.         *)
Send ==
    /\ draft # NoAttempt
    /\ LET spec == draft.spec
       IN  \E plan \in Prepared(spec, draft.hash) :
             LET a == [base |-> spec.base, no |-> spec.no, fault |-> spec.fault,
                       hash |-> plan.hash, account |-> plan.account, tip |-> plan.tip]
             IN  /\ sent' = sent \cup {a}
                 /\ current' = [current EXCEPT ![spec.base] = a]
                 /\ cache' = Remember(spec.base, plan.hash)
                 /\ due' = [due EXCEPT ![spec.base] = NoAttempt]
    /\ draft' = NoAttempt
    /\ UNCHANGED <<height, stale, failures, landed, closed>>

(* submit returns an error (RPC or the block engine gave no answer before  *)
(* the send): the saga closes the base.                                    *)
Refuse(b) ==
    /\ due[b] # NoAttempt
    /\ draft # NoAttempt => draft.spec.base = b
    /\ draft' = NoAttempt
    /\ due' = [due EXCEPT ![b] = NoAttempt]
    /\ closed' = closed \cup {b}
    /\ UNCHANGED <<height, stale, cache, current, sent, failures, landed>>

-------------------------------------------------------------------------------
(* decode_on_chain_error: by the markers in the error's text, in order.    *)
DecodeOnChainError(err) ==
    IF "computebudget" \in err THEN "compute_budget_exceeded"
    ELSE IF err \cap {"alreadyprocessed", "duplicate"} # {} THEN "duplicate_signature"
    ELSE IF "instructionerror" \in err THEN "instruction_error"
    ELSE "other"

(* What get_bundle_statuses says of an attempt: the set of its errors (no  *)
(* entry and a null error are both the empty set); and what                *)
(* get_inflight_bundle_statuses does.                                      *)
BundleStatuses == Call({}) \cup {{err} : err \in Errors}
Inflight       == Call("absent") \cup {"Invalid", "Pending", "Failed", "Landed"}

HasError(status) == status \notin {{}, NoAnswer}

IsTerminalFailure(status) == status \in {"Failed", "Invalid"}

(* probe_failure_signals, on the base's cached blockhash, of what the      *)
(* calls answered.  The in-flight status is only asked for when the bundle *)
(* status was answered and shows no error.                                 *)
Observation(b, valid, heightNow, status, inflight) ==
    [err          |-> IF HasError(status)
                      THEN DecodeOnChainError(CHOOSE err \in status : TRUE) ELSE "none",
     bundleFailed |-> status = {} /\ IsTerminalFailure(inflight),
     valid        |-> IF valid = NoAnswer THEN "unknown" ELSE IF valid THEN "yes" ELSE "no",
     height       |-> IF heightNow = NoAnswer THEN -1 ELSE heightNow,
     lastValid    |-> cache[b] + Life,
     tip          |-> current[b].tip, floor |-> Floor]

Observations(b) ==
    {Observation(b, valid, heightNow, status, inflight) :
        valid \in IsBlockhashValid(cache[b]), heightNow \in BlockHeight,
        status \in BundleStatuses, inflight \in Inflight}

(* Mutant of NextSpec: the retry keeps the injected fault.                 *)
NextSpecFaulty(b, refresh) ==
    [base |-> b, no |-> current[b].no + 1, refresh |-> refresh, fault |-> current[b].fault]

NextSpec(b, refresh) ==
    [base |-> b, no |-> current[b].no + 1, refresh |-> refresh, fault |-> "none"]

(* fail_and_retry as the submitters see it: the current attempt of an open *)
(* base is probed, classified, and retried or abandoned.                   *)
Fail(b) ==
    /\ draft = NoAttempt /\ \A c \in Bases : due[c] = NoAttempt
    /\ b \notin closed /\ current[b] # NoAttempt
    /\ \E seen \in Observations(b), aiRefresh \in BOOLEAN :
         LET class == Classify(SignalsFromObservation(seen))
             plan  == ResolveRetry(class, current[b].no, MaxAttempts, aiRefresh)
             seenAs == [class |-> class, expired |-> Expired(current[b].hash)]
         IN  /\ failures' = [a \in DOMAIN failures \cup {current[b]} |->
                                IF a = current[b] THEN seenAs ELSE failures[a]]
             /\ IF plan.retry
                THEN due' = [due EXCEPT ![b] = NextSpec(b, plan.refresh)] /\ UNCHANGED closed
                ELSE closed' = closed \cup {b} /\ UNCHANGED due
    /\ UNCHANGED <<height, stale, cache, draft, current, sent, landed>>

(* The base's current attempt is seen to have landed.                      *)
Settle(b) ==
    /\ b \notin closed /\ current[b] \in landed
    /\ draft = NoAttempt /\ \A c \in Bases : due[c] = NoAttempt
    /\ closed' = closed \cup {b}
    /\ UNCHANGED <<height, stale, cache, due, draft, current, sent, failures, landed>>

(* The chain: a sent attempt lands while its blockhash is valid, whatever  *)
(* the saga has meanwhile made of it; blocks are produced.                 *)
Land(a) ==
    /\ a \notin landed /\ ~Expired(a.hash)
    /\ landed' = landed \cup {a}
    /\ UNCHANGED <<height, stale, cache, due, draft, current, sent, failures, closed>>

NextBlock ==
    /\ height < MaxHeight
    /\ height' = height + 1
    /\ UNCHANGED <<stale, cache, due, draft, current, sent, failures, landed, closed>>

Over == closed = Bases /\ UNCHANGED vars

Next ==
    \/ \E b \in Bases : CaptureStale(b) \/ Choose(b) \/ Refuse(b) \/ Fail(b) \/ Settle(b)
    \/ Send
    \/ \E a \in sent : Land(a)
    \/ NextBlock
    \/ Over

Spec == Init /\ [][Next]_vars

-------------------------------------------------------------------------------
(* Properties.                                                             *)

(* The attempts of one base are different transactions: they differ in the *)
(* tip account at least, also when the blockhash and the tip are reused.   *)
OwnAttemptsDiffer ==
    MaxAttempts < Accounts + 1 =>
        \A a, c \in sent : (a.base = c.base /\ a # c)
            => <<a.hash, a.tip, a.account>> # <<c.hash, c.tip, c.account>>

(* An attempt whose blockhash had expired when it failed is never retried  *)
(* on that blockhash, whatever class the failure was given and whatever    *)
(* the agent said (a sub-floor tip hides the expiry from the classifier).  *)
ExpiredHashIsReplaced ==
    \A a \in DOMAIN failures, c \in sent :
        (a.base = c.base /\ c.no = a.no + 1 /\ failures[a].expired)
            => c.hash > a.hash

(* The probe, which looks at the base's last blockhash, looks at the one   *)
(* of the attempt it is asked about.                                       *)
ProbeSeesOwnHash ==
    \A b \in Bases :
        (b \notin closed /\ current[b] # NoAttempt /\ due[b] = NoAttempt)
            => cache[b] = current[b].hash

(* An attempt classified as expired is out of the race: it never lands     *)
(* after that, so its retry cannot pay twice.                              *)
ExpiredIsFinal ==
    [][\A a \in landed' \ landed :
          a \in DOMAIN failures => failures[a].class # "expired_blockhash"]_vars

(* Faults stay on the attempt they were injected into: every other attempt *)
(* pays a tip inside the band, on a blockhash chosen for it.               *)
FaultsAreContained ==
    \A a \in sent :
        /\ a.fault # "none" => a.no = 1 /\ a.fault = Fault[a.base]
        /\ a.fault # "low-tip" => a.tip \in MinTip..MaxTip

===============================================================================
