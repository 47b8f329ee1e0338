---------------------------- MODULE SubmitterProofs ----------------------------
(***************************************************************************)
(* Proofs about the submitters, for any number of bundles and attempts,    *)
(* any injected faults, any validity window and any answers of RPC, the    *)
(* block engine and the agent; and about the two planners beside them.     *)
(***************************************************************************)
EXTENDS Submitter, RetryPlanning, TLAPS

-------------------------------------------------------------------------------
(* The inductive invariant, by its parts.                                  *)

TypeOK ==
    /\ height \in Nat
    /\ stale \in Nat \cup {NoHash}
    /\ cache \in [Bases -> Nat \cup {NoHash}]
    /\ due \in [Bases -> Specs \cup {NoAttempt}]
    /\ draft \in Drafts \cup {NoAttempt}
    /\ current \in [Bases -> Submissions \cup {NoAttempt}]
    /\ sent \subseteq Submissions
    /\ landed \subseteq sent
    /\ DOMAIN failures \subseteq sent

(* The number of attempts sent of a base.                                  *)
SentOf(b) == IF current[b] = NoAttempt THEN 0 ELSE current[b].no

(* A pending launch is of the attempt that follows the current one, within *)
(* the cap, and carries the base's fault at most if it is the first.       *)
DueFollows(b) ==
    due[b] # NoAttempt =>
        /\ due[b].base = b
        /\ due[b].no = SentOf(b) + 1 /\ due[b].no <= MaxAttempts
        /\ due[b].fault # "none" => due[b].no = 1 /\ due[b].fault = Fault[b]

(* The submit under way is that of a pending launch.                       *)
DraftIsDue == draft # NoAttempt => due[draft.spec.base] = draft.spec

(* The current attempt is the newest sent, and what the cache remembers.   *)
CurrentIsNewest(b) ==
    /\ current[b] # NoAttempt =>
          /\ current[b] \in sent /\ current[b].base = b
          /\ cache[b] = current[b].hash
    /\ \A a \in sent : a.base = b =>
          current[b] # NoAttempt /\ a.no <= current[b].no

(* Attempts of one base are told apart by their number.                    *)
Numbered == \A a, c \in sent : a.base = c.base /\ a.no = c.no => a = c

SentWell ==
    \A a \in sent :
        /\ a.no <= MaxAttempts /\ a.account = Pick(a.no)
        /\ a.fault # "none" => a.no = 1 /\ a.fault = Fault[a.base]
        /\ a.fault # "low-tip" => a.tip \in MinTip..MaxTip

(* An attempt that awaits its outcome has not failed yet.                  *)
Undecided(b) ==
    (current[b] # NoAttempt /\ due[b] = NoAttempt /\ b \notin closed)
        => current[b] \notin DOMAIN failures

(* What was found expired is expired.                                      *)
ExpiryIsTrue ==
    \A a \in DOMAIN failures :
        failures[a].expired \/ failures[a].class = "expired_blockhash" => Expired(a.hash)

(* A submit under way after an expired attempt is on a newer blockhash.    *)
DraftIsFresh ==
    (draft # NoAttempt /\ current[draft.spec.base] \in DOMAIN failures)
        => (failures[current[draft.spec.base]].expired
              => draft.hash > current[draft.spec.base].hash)

IInv ==
    /\ TypeOK
    /\ \A b \in Bases : DueFollows(b) /\ CurrentIsNewest(b) /\ Undecided(b)
    /\ DraftIsDue /\ Numbered /\ SentWell /\ ExpiryIsTrue /\ DraftIsFresh
    /\ ExpiredHashIsReplaced

-------------------------------------------------------------------------------
(* Lemmas about the operators.                                             *)

(* The number of a bundle is one of the bases, and its fault one of theirs.*)
LEMMA FaultOfBase == \A b \in Bases : Fault[b] \in Faults
  BY DEF Faults

(* "No answer" is told apart from every answer of the calls.               *)
LEMMA CallFacts ==
  ASSUME NEW n \in Nat
  PROVE  Call(n) \ {NoAnswer} = {n}
  BY NoneAssumption DEF Call

(* The blockhash of an attempt is a height that was; a retry is put on its *)
(* predecessor's only while that is valid.                                 *)
LEMMA HashFacts ==
  ASSUME TypeOK, NEW spec \in Specs, NEW hash \in HashesFor(spec)
  PROVE  /\ hash \in Nat
         /\ (spec.fault = "none" /\ cache[spec.base] # NoHash /\ Expired(cache[spec.base]))
              => hash = height
<1>1. spec.base \in Bases /\ cache[spec.base] \in Nat \cup {NoHash} /\ height \in Nat
  BY DEF TypeOK, Specs
<1>2. PICK h \in IF spec.fault = "stale-blockhash" THEN {stale} \ {NoHash} ELSE Reuse(spec) :
           hash \in IF h = NoHash THEN LatestBlockhash \ {NoAnswer} ELSE {h}
  BY DEF HashesFor
<1>3. LatestBlockhash \ {NoAnswer} = {height}
  BY <1>1, CallFacts DEF LatestBlockhash
<1>4. CASE spec.fault = "stale-blockhash"
  <2>1. h \in Nat /\ h # NoHash
    BY <1>2, <1>4 DEF TypeOK
  <2> QED
    BY <1>2, <1>4, <2>1
<1>5. CASE spec.fault # "stale-blockhash"
  <2>1. h \in Reuse(spec)
    BY <1>2, <1>5
  <2>2. h = NoHash \/ (h = cache[spec.base] /\ h # NoHash /\ ~Expired(cache[spec.base]))
    <3>1. CASE spec.refresh \/ cache[spec.base] = NoHash
      BY <2>1, <3>1 DEF Reuse
    <3>2. CASE ~(spec.refresh \/ cache[spec.base] = NoHash)
      <4>1. PICK valid \in IsBlockhashValid(cache[spec.base]) :
                 h = IF valid = TRUE THEN cache[spec.base] ELSE NoHash
        BY <2>1, <3>2 DEF Reuse
      <4>2. valid = TRUE => ~Expired(cache[spec.base])
        BY <4>1, NoneAssumption DEF IsBlockhashValid, Call, Expired
      <4> QED
        BY <3>2, <4>1, <4>2
    <3> QED
      BY <3>1, <3>2
  <2> QED
    BY <1>1, <1>2, <1>3, <2>2
<1> QED
  BY <1>4, <1>5

(* Nothing but the end of the blockhash is classified as its expiry.       *)
LEMMA ExpiredIsObserved ==
  ASSUME TypeOK, NEW b \in Bases, cache[b] \in Nat,
         NEW seen \in Observations(b),
         Classify(SignalsFromObservation(seen)) = "expired_blockhash"
  PROVE  Expired(cache[b])
<1>1. PICK valid \in IsBlockhashValid(cache[b]), heightNow \in BlockHeight,
           status \in BundleStatuses, inflight \in Inflight :
           seen = Observation(b, valid, heightNow, status, inflight)
  BY DEF Observations
<1> DEFINE s == SignalsFromObservation(seen)
<1>2. s.err \in OnChainError \cup {"none"}
  BY <1>1 DEF SignalsFromObservation, Observation, DecodeOnChainError, OnChainError
<1>3. OnChainClass(s.err) # "expired_blockhash" \/ s.err = "none"
  BY <1>2 DEF OnChainClass, OnChainError
<1>4. s.heightExceeded \/ s.valid = "no"
  BY <1>3 DEF Classify
<1>5. CASE s.valid = "no"
  <2>1. valid # NoAnswer /\ ~valid
    BY <1>1, <1>5 DEF SignalsFromObservation, Observation
  <2> QED
    BY <1>1, <2>1 DEF IsBlockhashValid, Call
<1>6. CASE s.heightExceeded
  <2>1. /\ heightNow \in {height, NoAnswer} /\ height \in Nat /\ Life \in Nat
    BY <1>1, SubmitterAssumption DEF BlockHeight, Call, TypeOK
  <2>2. s.heightExceeded = (seen.height # -1 /\ seen.lastValid # -1 /\ seen.height > seen.lastValid)
    BY DEF SignalsFromObservation
  <2>3. seen.height = (IF heightNow = NoAnswer THEN -1 ELSE heightNow)
        /\ seen.lastValid = cache[b] + Life
    BY <1>1 DEF Observation
  <2> QED
    BY <1>6, <2>1, <2>2, <2>3 DEF Expired
<1> QED
  BY <1>4, <1>5, <1>6

(* A tip is inside the band unless the fault lets it escape.               *)
LEMMA TipFacts ==
  ASSUME NEW tip \in Nat, NEW bypass \in BOOLEAN
  PROVE  /\ ApplyTipPolicy(tip, bypass) \in Nat
         /\ ~bypass => ApplyTipPolicy(tip, bypass) \in MinTip..MaxTip
  BY SubmitterAssumption DEF ApplyTipPolicy

-------------------------------------------------------------------------------
(* The invariant holds initially and is preserved, action by action.       *)

LEMMA InitIInv == Init => IInv
<1> SUFFICES ASSUME Init PROVE IInv
  OBVIOUS
<1>1. \A b \in Bases : due[b] = Spec1(b) /\ due[b] \in Specs /\ due[b] # NoAttempt
  <2>1. \A b \in Bases : Spec1(b) \in Specs
    BY FaultOfBase DEF Spec1, Specs
  <2> QED
    BY <2>1, NoneAssumption DEF Init
<1>2. TypeOK
  BY <1>1 DEF Init, TypeOK
<1>3. \A b \in Bases : DueFollows(b) /\ CurrentIsNewest(b) /\ Undecided(b)
  BY <1>1, SubmitterAssumption DEF Init, Spec1, DueFollows, SentOf, CurrentIsNewest, Undecided
<1>4. /\ DraftIsDue /\ Numbered /\ SentWell /\ ExpiryIsTrue /\ DraftIsFresh
      /\ ExpiredHashIsReplaced
  BY DEF Init, DraftIsDue, Numbered, SentWell, ExpiryIsTrue, DraftIsFresh, ExpiredHashIsReplaced
<1> QED
  BY <1>2, <1>3, <1>4 DEF IInv

LEMMA CaptureStaleIInv ==
  ASSUME IInv, NEW b \in Bases, CaptureStale(b)
  PROVE  IInv'
<1>1. stale' \in Nat
  BY CallFacts DEF CaptureStale, LatestBlockhash, IInv, TypeOK
<1>2. TypeOK'
  BY <1>1 DEF CaptureStale, IInv, TypeOK
<1>3. (\A c \in Bases : DueFollows(c) /\ CurrentIsNewest(c) /\ Undecided(c))'
  BY DEF CaptureStale, IInv, DueFollows, SentOf, CurrentIsNewest, Undecided
<1>4. (/\ DraftIsDue /\ Numbered /\ SentWell /\ ExpiryIsTrue /\ DraftIsFresh
       /\ ExpiredHashIsReplaced)'
  BY DEF CaptureStale, IInv, DraftIsDue, Numbered, SentWell, ExpiryIsTrue, Expired, DraftIsFresh,
         ExpiredHashIsReplaced
<1> QED
  BY <1>2, <1>3, <1>4 DEF IInv

LEMMA ChooseIInv ==
  ASSUME IInv, NEW b \in Bases, Choose(b)
  PROVE  IInv'
<1>1. PICK hash \in HashesFor(due[b]) : draft' = [spec |-> due[b], hash |-> hash]
  BY DEF Choose
<1>2. due[b] \in Specs /\ due[b] # NoAttempt /\ due[b].base = b
  BY DEF Choose, IInv, TypeOK, DueFollows
<1>3. hash \in Nat /\ draft' \in Drafts /\ draft'.spec = due[b] /\ draft'.hash = hash
  BY <1>1, <1>2, HashFacts DEF IInv, Drafts
<1>4. TypeOK'
  BY <1>3 DEF Choose, IInv, TypeOK
<1>5. (\A c \in Bases : DueFollows(c) /\ CurrentIsNewest(c) /\ Undecided(c))'
  BY DEF Choose, IInv, DueFollows, SentOf, CurrentIsNewest, Undecided
<1>6. (/\ DraftIsDue /\ Numbered /\ SentWell /\ ExpiryIsTrue /\ ExpiredHashIsReplaced)'
  BY <1>2, <1>3 DEF Choose, IInv, DraftIsDue, Numbered, SentWell, ExpiryIsTrue, Expired,
                    ExpiredHashIsReplaced
<1>7. DraftIsFresh'
  <2> SUFFICES ASSUME current[b] \in DOMAIN failures, failures[current[b]].expired
               PROVE  hash > current[b].hash
    BY <1>2, <1>3 DEF Choose, DraftIsFresh
  <2>1. current[b] \in Submissions /\ current[b] # NoAttempt /\ cache[b] = current[b].hash
    BY NoneAssumption DEF IInv, TypeOK, CurrentIsNewest
  <2>2. cache[b] \in Nat /\ height \in Nat /\ Life \in Nat
    BY <2>1, SubmitterAssumption DEF IInv, TypeOK, Submissions
  <2>3. Expired(cache[b])
    BY <2>1 DEF IInv, ExpiryIsTrue
  <2>4. current[b].no \in Nat \ {0}
    BY <2>1 DEF Submissions
  <2>5. due[b].no # 1
    BY <1>2, <2>1, <2>4 DEF IInv, DueFollows, SentOf
  <2>6. due[b].fault = "none"
    BY <1>2, <2>5 DEF IInv, DueFollows
  <2>7. hash = height
    BY <1>1, <1>2, <2>2, <2>3, <2>6, HashFacts, SubmitterAssumption DEF IInv
  <2> QED
    BY <2>1, <2>2, <2>3, <2>7 DEF Expired
<1> QED
  BY <1>4, <1>5, <1>6, <1>7 DEF IInv

LEMMA SendIInv == IInv /\ Send => IInv'
<1> SUFFICES ASSUME IInv, Send PROVE IInv'
  OBVIOUS
<1> DEFINE spec == draft.spec
<1>0. PICK b : b = spec.base
  OBVIOUS
<1>1. /\ draft \in Drafts /\ spec \in Specs /\ b \in Bases /\ draft.hash \in Nat
      /\ due[b] = spec /\ due[b] # NoAttempt
  BY <1>0, NoneAssumption DEF Send, IInv, TypeOK, DraftIsDue, Drafts, Specs
<1>2. PICK plan \in Prepared(spec, draft.hash) :
        LET a == [base |-> spec.base, no |-> spec.no, fault |-> spec.fault,
                  hash |-> plan.hash, account |-> plan.account, tip |-> plan.tip]
        IN  /\ sent' = sent \cup {a}
            /\ current' = [current EXCEPT ![spec.base] = a]
            /\ cache' = Remember(spec.base, plan.hash)
            /\ due' = [due EXCEPT ![spec.base] = NoAttempt]
  BY DEF Send
<1> DEFINE a == [base |-> spec.base, no |-> spec.no, fault |-> spec.fault,
                 hash |-> plan.hash, account |-> plan.account, tip |-> plan.tip]
<1>3. /\ plan.hash = draft.hash /\ plan.account = Pick(spec.no) /\ plan.account \in Nat
      /\ plan.tip \in Nat /\ (spec.fault # "low-tip" => plan.tip \in MinTip..MaxTip)
  <2>1. PICK tip \in IF spec.fault = "low-tip" THEN {LowTip} ELSE Proposals :
               plan = [hash |-> draft.hash, account |-> Pick(spec.no),
                       tip |-> ApplyTipPolicy(tip, spec.fault = "low-tip")]
    BY <1>2 DEF Prepared
  <2>2. tip \in Nat
    BY SubmitterAssumption
  <2>3. Pick(spec.no) \in Nat
    BY <1>1, SubmitterAssumption DEF Pick, Specs
  <2> QED
    BY <2>1, <2>2, <2>3, TipFacts
<1>4. a \in Submissions /\ a # NoAttempt
  BY <1>1, <1>3, NoneAssumption DEF Submissions, Specs
<1>5. /\ a.base = b /\ a.no = spec.no /\ a.fault = spec.fault /\ a.hash = draft.hash
      /\ a.account = Pick(a.no) /\ (a.fault # "low-tip" => a.tip \in MinTip..MaxTip)
  BY <1>0, <1>3
<1> HIDE DEF a
<1>6. /\ sent' = sent \cup {a} /\ current' = [current EXCEPT ![b] = a]
      /\ cache' = [cache EXCEPT ![b] = a.hash] /\ due' = [due EXCEPT ![b] = NoAttempt]
      /\ draft' = NoAttempt
      /\ UNCHANGED <<height, stale, failures, landed, closed>>
  BY <1>0, <1>2, <1>3, <1>5 DEF Send, Remember, a
<1>7. spec.no \in Nat /\ spec.no = SentOf(b) + 1 /\ spec.no <= MaxAttempts
      /\ (spec.fault # "none" => spec.no = 1 /\ spec.fault = Fault[b])
  BY <1>1 DEF IInv, DueFollows, Specs
<1>17. draft.spec.base = b
  BY <1>0
<1> HIDE DEF spec
<1>8. \A c \in sent : c.base = b => c.no < a.no
  BY <1>1, <1>5, <1>7 DEF IInv, TypeOK, CurrentIsNewest, SentOf, Submissions
<1>9. TypeOK'
  BY <1>1, <1>4, <1>5, <1>6 DEF IInv, TypeOK, Submissions
<1>10. a \notin sent /\ a \notin DOMAIN failures
  BY <1>5, <1>8, <1>7 DEF IInv, TypeOK
<1>11. (\A c \in Bases : DueFollows(c) /\ CurrentIsNewest(c) /\ Undecided(c))'
  <2> SUFFICES ASSUME NEW c \in Bases
               PROVE  (DueFollows(c) /\ CurrentIsNewest(c) /\ Undecided(c))'
    OBVIOUS
  <2>1. CASE c = b
    <3>1. due'[b] = NoAttempt /\ current'[b] = a /\ cache'[b] = a.hash
      BY <1>1, <1>6 DEF IInv, TypeOK
    <3>2. DueFollows(b)'
      BY <3>1 DEF DueFollows
    <3>3. CurrentIsNewest(b)'
      BY <1>1, <1>4, <1>5, <1>6, <1>7, <1>8, <3>1 DEF CurrentIsNewest, IInv, TypeOK, Submissions
    <3>4. Undecided(b)'
      BY <1>6, <1>10, <3>1 DEF Undecided
    <3> QED
      BY <2>1, <3>2, <3>3, <3>4
  <2>2. CASE c # b
    <3>1. due'[c] = due[c] /\ current'[c] = current[c] /\ cache'[c] = cache[c]
      BY <1>1, <1>6, <2>2 DEF IInv, TypeOK
    <3> QED
      BY <1>5, <1>6, <2>2, <3>1 DEF IInv, DueFollows, SentOf, CurrentIsNewest, Undecided
  <2> QED
    BY <2>1, <2>2
<1>12. DraftIsDue' /\ DraftIsFresh'
  BY <1>6 DEF DraftIsDue, DraftIsFresh
<1>13. Numbered'
  BY <1>5, <1>6, <1>7, <1>8 DEF IInv, TypeOK, Numbered, Submissions
<1>14. SentWell'
  BY <1>5, <1>6, <1>7 DEF IInv, SentWell
<1>15. ExpiryIsTrue'
  BY <1>6 DEF IInv, ExpiryIsTrue, Expired
<1>16. ExpiredHashIsReplaced'
  <2> SUFFICES ASSUME NEW p \in DOMAIN failures, NEW c \in sent',
                      p.base = c.base, c.no = p.no + 1, failures[p].expired
               PROVE  c.hash > p.hash
    BY <1>6 DEF ExpiredHashIsReplaced
  <2>1. CASE c \in sent
    BY <2>1 DEF IInv, ExpiredHashIsReplaced
  <2>2. CASE c = a
    <3>1. p \in sent /\ p \in Submissions /\ p.base = b
      BY <2>2, <1>5 DEF IInv, TypeOK
    <3>2. current[b] # NoAttempt /\ current[b] \in sent /\ current[b].base = b
      BY <1>1, <3>1 DEF IInv, CurrentIsNewest
    <3>3. current[b].no \in Nat /\ p.no \in Nat
      BY <3>1, <3>2 DEF IInv, TypeOK, Submissions
    <3>4. p.no = current[b].no
      BY <1>5, <1>7, <2>2, <3>2, <3>3 DEF SentOf
    <3>5. p = current[b]
      BY <3>1, <3>2, <3>4 DEF IInv, Numbered
    <3>6. draft # NoAttempt /\ draft.spec.base = b
      BY <1>17 DEF Send
    <3>7. draft.hash > current[b].hash
      BY <3>5, <3>6 DEF IInv, DraftIsFresh
    <3> QED
      BY <1>5, <2>2, <3>5, <3>7
  <2> QED
    BY <1>6, <2>1, <2>2
<1> QED
  BY <1>9, <1>11, <1>12, <1>13, <1>14, <1>15, <1>16 DEF IInv

LEMMA RefuseIInv ==
  ASSUME IInv, NEW b \in Bases, Refuse(b)
  PROVE  IInv'
<1>1. TypeOK'
  BY DEF Refuse, IInv, TypeOK
<1>2. (\A c \in Bases : DueFollows(c) /\ CurrentIsNewest(c) /\ Undecided(c))'
  BY DEF Refuse, IInv, TypeOK, DueFollows, SentOf, CurrentIsNewest, Undecided
<1>3. (/\ DraftIsDue /\ Numbered /\ SentWell /\ ExpiryIsTrue /\ DraftIsFresh
       /\ ExpiredHashIsReplaced)'
  BY DEF Refuse, IInv, DraftIsDue, Numbered, SentWell, ExpiryIsTrue, Expired, DraftIsFresh,
         ExpiredHashIsReplaced
<1> QED
  BY <1>1, <1>2, <1>3 DEF IInv

LEMMA FailIInv ==
  ASSUME IInv, NEW b \in Bases, Fail(b)
  PROVE  IInv'
<1>1. PICK seen \in Observations(b), aiRefresh \in BOOLEAN :
         LET class == Classify(SignalsFromObservation(seen))
             plan  == ResolveRetry(class, current[b].no, MaxAttempts, aiRefresh)
             seenAs == [class |-> class, expired |-> Expired(current[b].hash)]
         IN  /\ failures' = [a \in DOMAIN failures \cup {current[b]} |->
                                IF a = current[b] THEN seenAs ELSE failures[a]]
             /\ IF plan.retry
                THEN due' = [due EXCEPT ![b] = NextSpec(b, plan.refresh)] /\ UNCHANGED closed
                ELSE closed' = closed \cup {b} /\ UNCHANGED due
  BY DEF Fail
<1> DEFINE class  == Classify(SignalsFromObservation(seen))
           plan   == ResolveRetry(class, current[b].no, MaxAttempts, aiRefresh)
           seenAs == [class |-> class, expired |-> Expired(current[b].hash)]
           next   == NextSpec(b, plan.refresh)
<1>2. /\ draft = NoAttempt /\ \A c \in Bases : due[c] = NoAttempt
      /\ b \notin closed /\ current[b] # NoAttempt
      /\ UNCHANGED <<height, stale, cache, draft, current, sent, landed>>
  BY DEF Fail
<1>3. /\ current[b] \in sent /\ current[b] \in Submissions /\ current[b].base = b
      /\ cache[b] = current[b].hash /\ cache[b] \in Nat /\ current[b].no \in Nat \ {0}
      /\ current[b] \notin DOMAIN failures
  BY <1>2 DEF IInv, TypeOK, CurrentIsNewest, Undecided, Submissions
<1>4. seenAs.expired \/ seenAs.class = "expired_blockhash" => Expired(current[b].hash)
  BY <1>3, ExpiredIsObserved DEF IInv
<1>5. plan.refresh \in BOOLEAN /\ (plan.retry => current[b].no < MaxAttempts)
  BY <1>3, SubmitterAssumption DEF ResolveRetry, DecideRetry
<1>6. /\ next \in Specs /\ next # NoAttempt /\ next.base = b /\ next.fault = "none"
      /\ next.no = current[b].no + 1
  <2>1. next = [base |-> b, no |-> current[b].no + 1, refresh |-> plan.refresh, fault |-> "none"]
    BY DEF NextSpec
  <2>2. next \in Specs
    BY <1>3, <1>5, <2>1 DEF Specs, Faults
  <2> QED
    BY <2>1, <2>2, NoneAssumption
<1>7. /\ DOMAIN failures' = DOMAIN failures \cup {current[b]}
      /\ failures'[current[b]] = seenAs
      /\ \A p \in DOMAIN failures : failures'[p] = failures[p]
  BY <1>1, <1>3
<1>8. \/ plan.retry /\ due' = [due EXCEPT ![b] = next] /\ closed' = closed
      \/ closed' = closed \cup {b} /\ due' = due
  BY <1>1
<1> HIDE DEF seenAs, next, plan
<1>9. TypeOK'
  BY <1>2, <1>3, <1>6, <1>7, <1>8 DEF IInv, TypeOK
<1>10. (\A c \in Bases : DueFollows(c) /\ CurrentIsNewest(c) /\ Undecided(c))'
  <2> SUFFICES ASSUME NEW c \in Bases
               PROVE  (DueFollows(c) /\ CurrentIsNewest(c) /\ Undecided(c))'
    OBVIOUS
  <2>1. CurrentIsNewest(c)'
    BY <1>2 DEF IInv, CurrentIsNewest
  <2>2. CASE c # b
    <3>1. due'[c] = NoAttempt /\ (c \in closed' <=> c \in closed)
      BY <1>2, <1>8, <2>2 DEF IInv, TypeOK
    <3>2. current[c] # NoAttempt => current[c] # current[b]
      BY <1>2, <1>3, <2>2 DEF IInv, CurrentIsNewest
    <3> QED
      BY <1>2, <1>7, <2>1, <3>1, <3>2 DEF IInv, DueFollows, Undecided
  <2>3. CASE c = b /\ plan.retry /\ due' = [due EXCEPT ![b] = next] /\ closed' = closed
    <3>1. due'[b] = next
      BY <2>3 DEF IInv, TypeOK
    <3>2. current[b].no + 1 <= MaxAttempts
      BY <1>3, <1>5, <2>3, SubmitterAssumption
    <3> QED
      BY <1>2, <1>6, <2>1, <2>3, <3>1, <3>2 DEF DueFollows, SentOf, Undecided
  <2>4. CASE c = b /\ closed' = closed \cup {b} /\ due' = due
    BY <1>2, <2>1, <2>4 DEF DueFollows, Undecided
  <2> QED
    BY <1>8, <2>2, <2>3, <2>4
<1>11. (DraftIsDue /\ Numbered /\ SentWell /\ DraftIsFresh)'
  BY <1>2 DEF IInv, DraftIsDue, Numbered, SentWell, DraftIsFresh
<1>12. ExpiryIsTrue'
  BY <1>2, <1>4, <1>7 DEF IInv, ExpiryIsTrue, Expired
<1>13. ExpiredHashIsReplaced'
  <2> SUFFICES ASSUME NEW p \in DOMAIN failures', NEW c \in sent,
                      p.base = c.base, c.no = p.no + 1, failures'[p].expired
               PROVE  c.hash > p.hash
    BY <1>2 DEF ExpiredHashIsReplaced
  <2>1. CASE p \in DOMAIN failures
    BY <1>7, <2>1 DEF IInv, ExpiredHashIsReplaced
  <2>2. CASE p = current[b]
    BY <1>2, <1>3, <2>2 DEF IInv, TypeOK, CurrentIsNewest, Submissions
  <2> QED
    BY <1>7, <2>1, <2>2
<1> QED
  BY <1>9, <1>10, <1>11, <1>12, <1>13 DEF IInv

LEMMA SettleIInv ==
  ASSUME IInv, NEW b \in Bases, Settle(b)
  PROVE  IInv'
<1>1. TypeOK'
  BY DEF Settle, IInv, TypeOK
<1>2. (\A c \in Bases : DueFollows(c) /\ CurrentIsNewest(c) /\ Undecided(c))'
  BY DEF Settle, IInv, DueFollows, SentOf, CurrentIsNewest, Undecided
<1>3. (/\ DraftIsDue /\ Numbered /\ SentWell /\ ExpiryIsTrue /\ DraftIsFresh
       /\ ExpiredHashIsReplaced)'
  BY DEF Settle, IInv, DraftIsDue, Numbered, SentWell, ExpiryIsTrue, Expired, DraftIsFresh,
         ExpiredHashIsReplaced
<1> QED
  BY <1>1, <1>2, <1>3 DEF IInv

(* A landing changes nothing the invariant speaks of.                      *)
LEMMA LandIInv ==
  ASSUME IInv, NEW a \in sent, Land(a)
  PROVE  IInv'
<1>1. TypeOK'
  BY DEF Land, IInv, TypeOK
<1>2. (\A c \in Bases : DueFollows(c) /\ CurrentIsNewest(c) /\ Undecided(c))'
  BY DEF Land, IInv, DueFollows, SentOf, CurrentIsNewest, Undecided
<1>3. (/\ DraftIsDue /\ Numbered /\ SentWell /\ ExpiryIsTrue /\ DraftIsFresh
       /\ ExpiredHashIsReplaced)'
  BY DEF Land, IInv, DraftIsDue, Numbered, SentWell, ExpiryIsTrue, Expired, DraftIsFresh,
         ExpiredHashIsReplaced
<1> QED
  BY <1>1, <1>2, <1>3 DEF IInv

(* What is expired stays expired.                                          *)
LEMMA NextBlockIInv == IInv /\ NextBlock => IInv'
<1> SUFFICES ASSUME IInv, NextBlock PROVE IInv'
  OBVIOUS
<1>1. TypeOK'
  BY DEF NextBlock, IInv, TypeOK
<1>2. (\A c \in Bases : DueFollows(c) /\ CurrentIsNewest(c) /\ Undecided(c))'
  BY DEF NextBlock, IInv, DueFollows, SentOf, CurrentIsNewest, Undecided
<1>3. (DraftIsDue /\ Numbered /\ SentWell /\ DraftIsFresh /\ ExpiredHashIsReplaced)'
  BY DEF NextBlock, IInv, DraftIsDue, Numbered, SentWell, DraftIsFresh, ExpiredHashIsReplaced
<1>4. \A a \in sent : Expired(a.hash) => Expired(a.hash)'
  BY SubmitterAssumption DEF NextBlock, Expired, IInv, TypeOK, Submissions
<1>5. ExpiryIsTrue'
  BY <1>4 DEF NextBlock, ExpiryIsTrue, IInv, TypeOK
<1> QED
  BY <1>1, <1>2, <1>3, <1>5 DEF IInv

LEMMA StutterIInv == IInv /\ UNCHANGED vars => IInv'
<1> SUFFICES ASSUME IInv, UNCHANGED vars PROVE IInv'
  OBVIOUS
<1>1. TypeOK'
  BY DEF vars, IInv, TypeOK
<1>2. (\A c \in Bases : DueFollows(c) /\ CurrentIsNewest(c) /\ Undecided(c))'
  BY DEF vars, IInv, DueFollows, SentOf, CurrentIsNewest, Undecided
<1>3. (/\ DraftIsDue /\ Numbered /\ SentWell /\ ExpiryIsTrue /\ DraftIsFresh
       /\ ExpiredHashIsReplaced)'
  BY DEF vars, IInv, DraftIsDue, Numbered, SentWell, ExpiryIsTrue, Expired, DraftIsFresh,
         ExpiredHashIsReplaced
<1> QED
  BY <1>1, <1>2, <1>3 DEF IInv

LEMMA NextIInv == IInv /\ [Next]_vars => IInv'
<1> SUFFICES ASSUME IInv, [Next]_vars PROVE IInv'
  OBVIOUS
<1>1. ASSUME NEW b \in Bases, CaptureStale(b) \/ Choose(b) \/ Refuse(b) \/ Fail(b) \/ Settle(b)
      PROVE  IInv'
  BY <1>1, CaptureStaleIInv, ChooseIInv, RefuseIInv, FailIInv, SettleIInv
<1>2. CASE Send
  BY <1>2, SendIInv
<1>3. ASSUME NEW a \in sent, Land(a) PROVE IInv'
  BY <1>3, LandIInv
<1>4. CASE NextBlock
  BY <1>4, NextBlockIInv
<1>5. CASE UNCHANGED vars
  BY <1>5, StutterIInv
<1> QED
  BY <1>1, <1>2, <1>3, <1>4, <1>5 DEF Next, Over

-------------------------------------------------------------------------------
(* The theorems.                                                           *)

(* The invariant the others rest on: launches, cache and attempts of every *)
(* base follow one another, whatever blocks pass between the awaits.       *)
THEOREM SubmitterInductive == Spec => []IInv
  BY InitIInv, NextIInv, PTL DEF Spec

(* A retry never reuses a blockhash that had expired when its predecessor  *)
(* failed (submit.rs:280-306), whatever the class or the agent.            *)
THEOREM SubmitterReplacesExpired == Spec => []ExpiredHashIsReplaced
<1>1. IInv => ExpiredHashIsReplaced
  BY DEF IInv
<1> QED
  BY <1>1, SubmitterInductive, PTL

(* The probe sees the blockhash of the attempt it is asked about           *)
(* (submit.rs:349).                                                        *)
THEOREM SubmitterProbesOwnHash == Spec => []ProbeSeesOwnHash
<1>1. IInv => ProbeSeesOwnHash
  BY DEF IInv, ProbeSeesOwnHash, CurrentIsNewest
<1> QED
  BY <1>1, SubmitterInductive, PTL

(* Injected faults stay on the first attempts they were assigned to        *)
(* (bin/proof.rs:397).                                                     *)
THEOREM SubmitterContainsFaults == Spec => []FaultsAreContained
<1>1. IInv => FaultsAreContained
  BY DEF IInv, FaultsAreContained, SentWell
<1> QED
  BY <1>1, SubmitterInductive, PTL

(* The numbers up to the number of accounts pick different accounts.       *)
LEMMA PickFacts ==
  ASSUME NEW i \in 1..Accounts, NEW j \in 1..Accounts, Pick(i) = Pick(j)
  PROVE  i = j
<1>1. Accounts \in Nat \ {0}
  BY SubmitterAssumption
<1>2. \A x \in 1..Accounts : x % Accounts = IF x = Accounts THEN 0 ELSE x
  BY <1>1
<1> QED
  BY <1>1, <1>2 DEF Pick

(* The attempts of one base are different transactions as long as there    *)
(* are no more of them than tip accounts.                                  *)
THEOREM SubmitterAttemptsDiffer == Spec => []OwnAttemptsDiffer
<1>1. IInv => OwnAttemptsDiffer
  <2> SUFFICES ASSUME IInv, MaxAttempts < Accounts + 1,
                      NEW a \in sent, NEW c \in sent, a.base = c.base, a.account = c.account
               PROVE  a = c
    BY DEF OwnAttemptsDiffer
  <2>1. a.no \in 1..Accounts /\ c.no \in 1..Accounts
    BY SubmitterAssumption DEF IInv, TypeOK, SentWell, Submissions
  <2>2. Pick(a.no) = Pick(c.no)
    BY DEF IInv, SentWell
  <2> QED
    BY <2>1, <2>2, PickFacts DEF IInv, Numbered
<1> QED
  BY <1>1, SubmitterInductive, PTL

(* What is classified as expired never lands afterwards, so its retry      *)
(* cannot pay twice (proof_run.rs:134).                                    *)
THEOREM SubmitterExpiredIsFinal == Spec => ExpiredIsFinal
<1>1. IInv /\ [Next]_vars =>
        [\A a \in landed' \ landed :
           a \in DOMAIN failures => failures[a].class # "expired_blockhash"]_vars
  <2> SUFFICES ASSUME IInv, Next, NEW a \in landed' \ landed, a \in DOMAIN failures
               PROVE  failures[a].class # "expired_blockhash"
    OBVIOUS
  <2>1. landed' # landed
    OBVIOUS
  <2>2. PICK c \in sent : Land(c)
    BY <2>1 DEF Next, CaptureStale, Choose, Send, Refuse, Fail, Settle, NextBlock, Over, vars
  <2>3. ~Expired(a.hash)
    BY <2>2 DEF Land
  <2> QED
    BY <2>3 DEF IInv, ExpiryIsTrue
<1> QED
  BY <1>1, SubmitterInductive, PTL DEF Spec, ExpiredIsFinal

-------------------------------------------------------------------------------
(* The planners, for every class, attempt number and cap.                  *)

\* The planner and the saga's own decision agree: a bundle that did not land is submitted again by
\* one exactly when it is by the other, and a refresh the planner asks for is never dropped there,
\* whatever the agent says (submission.rs:59-84, saga.rs:274-313).
THEOREM PlannersAgree ==
  ASSUME NEW outcome, ~outcome.landed,
         NEW attempt \in Nat, NEW maxAttempts \in Nat, NEW aiRefresh \in BOOLEAN
  PROVE  LET action == NextSagaAction(outcome, attempt, maxAttempts)
             plan   == ResolveRetry(Classify(outcome.signals), attempt, maxAttempts, aiRefresh)
         IN  /\ action.kind = "submit" <=> plan.retry
             /\ action.refresh => plan.refresh
             /\ action.kind # "landed"
<1> DEFINE class  == Classify(outcome.signals)
           policy == DecideRetry(class, attempt, maxAttempts)
<1>1. policy.retry \in BOOLEAN /\ policy.refresh \in BOOLEAN
  BY DEF DecideRetry
<1>2. /\ ResolveRetry(class, attempt, maxAttempts, aiRefresh).retry = policy.retry
      /\ ResolveRetry(class, attempt, maxAttempts, aiRefresh).refresh
           = (policy.retry /\ (policy.refresh \/ aiRefresh))
  BY DEF ResolveRetry
<1>3. NextSagaAction(outcome, attempt, maxAttempts)
        = IF policy.retry THEN [kind |-> "submit", refresh |-> policy.refresh] ELSE Abandon
  BY DEF NextSagaAction
<1> HIDE DEF policy, class
<1>4. CASE policy.retry
  BY <1>1, <1>2, <1>3, <1>4 DEF class
<1>5. CASE ~policy.retry
  BY <1>1, <1>2, <1>3, <1>5 DEF class, Abandon
<1> QED
  BY <1>4, <1>5

\* Failures of one saga are counted one by one and never on another's account.
LEMMA CountedFacts ==
  ASSUME NEW attempts, attempts \in [DOMAIN attempts -> Nat], NEW id
  PROVE  /\ Counted(attempts, id) \in [DOMAIN attempts \cup {id} -> Nat]
         /\ Counted(attempts, id)[id] = Attempts(attempts, id) + 1
         /\ Attempts(attempts, id) \in Nat
         /\ \A other :
              other # id => Attempts(Counted(attempts, id), other) = Attempts(attempts, other)
<1>1. Attempts(attempts, id) \in Nat
  BY DEF Attempts
<1>2. Counted(attempts, id) \in [DOMAIN attempts \cup {id} -> Nat]
  BY <1>1 DEF Counted
<1>3. Counted(attempts, id)[id] = Attempts(attempts, id) + 1
  BY DEF Counted
<1>4. ASSUME NEW other, other # id
      PROVE  Attempts(Counted(attempts, id), other) = Attempts(attempts, other)
  BY <1>4 DEF Counted, Attempts
<1> QED
  BY <1>1, <1>2, <1>3, <1>4

\* The orchestrator gives up at the cap: whatever happened to the other sagas in between, a saga with
\* max_attempts - 1 failures on its account is not retried after the next one, and a saga that was
\* cleared starts over with a count of its own (orchestrator.rs:37-60).
THEOREM OrchestratorStopsAtCap ==
  ASSUME NEW attempts, attempts \in [DOMAIN attempts -> Nat],
         NEW id, NEW class, NEW maxAttempts \in Nat
  PROVE  LET reply == OnFailure(attempts, id, class, maxAttempts)
         IN  /\ Attempts(attempts, id) + 1 >= maxAttempts => ~reply.retry
             /\ ~IsRetryable(class) => ~reply.retry
             /\ \A other :
                  other # id => Attempts(reply.attempts, other) = Attempts(attempts, other)
             /\ Attempts(Clear(reply.attempts, id), id) = 0
<1> DEFINE reply == OnFailure(attempts, id, class, maxAttempts)
           n     == Attempts(attempts, id)
<1>1. /\ n \in Nat /\ Counted(attempts, id)[id] = n + 1
      /\ \A other :
           other # id => Attempts(Counted(attempts, id), other) = Attempts(attempts, other)
  BY CountedFacts
<1>2. reply.attempts = Counted(attempts, id)
  BY DEF OnFailure
<1>3. reply.retry => IsRetryable(class) /\ n + 1 < maxAttempts
  BY <1>1 DEF OnFailure, DecideRetry
<1>4. \A other : other # id => Attempts(reply.attempts, other) = Attempts(attempts, other)
  BY <1>1, <1>2
<1>5. Attempts(Clear(reply.attempts, id), id) = 0
  BY DEF Clear, Attempts
<1> HIDE DEF reply, n
<1>6. n + 1 >= maxAttempts => ~reply.retry
  BY <1>1, <1>3
<1>7. ~IsRetryable(class) => ~reply.retry
  BY <1>3
<1> QED
  BY <1>4, <1>5, <1>6, <1>7 DEF reply, n

\* No delay exceeds the cap, whatever bits the shift loses (backoff.rs:5-14).
THEOREM BackoffWithinCap ==
  ASSUME NEW attempt \in Nat, NEW base \in Nat, NEW max \in Nat, NEW w \in Nat
  PROVE  BackoffMs(attempt, base, max, w) <= max
<1>1. \A n : AtMost(n, max) <= max
  BY DEF AtMost
<1> QED
  BY <1>1 DEF BackoffMs

===============================================================================
