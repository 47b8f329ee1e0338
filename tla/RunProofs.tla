------------------------------- MODULE RunProofs ------------------------------
(***************************************************************************)
(* Proofs about a run: the saga, for any number of bases, attempts and     *)
(* slots; then the record of the run and its live view, for any number of  *)
(* steps whose telemetry is lost and any size of the window.               *)
(***************************************************************************)
EXTENDS LiveView, SagaInvariant, FiniteSetTheorems, WellFoundedInduction, TLAPS

(* Insert adds one key and leaves the others alone.                        *)
LEMMA InsertLemma ==
    ASSUME NEW f, NEW key, NEW value
    PROVE  /\ DOMAIN Insert(f, key, value) = DOMAIN f \cup {key}
           /\ Insert(f, key, value)[key] = value
           /\ \A k \in DOMAIN f : k # key => Insert(f, key, value)[k] = f[k]
  BY DEF Insert

(* A resubmission that is granted is for a retryable class and within the  *)
(* cap, and a class of the validity window forces the refresh.             *)
LEMMA ResolveLemma ==
    ASSUME NEW class, NEW n, NEW ai \in BOOLEAN,
           ResolveRetry(class, n, MaxAttempts, ai).retry
    PROVE  /\ IsRetryable(class)
           /\ n < MaxAttempts
           /\ class \in WindowClasses => ResolveRetry(class, n, MaxAttempts, ai).refresh
           /\ ResolveRetry(class, n, MaxAttempts, ai).refresh \in BOOLEAN
  BY DEF ResolveRetry, DecideRetry, IsRetryable

(* The invariant holds initially ...                                       *)
LEMMA InitIInv == Init => IInv
<1> SUFFICES ASSUME Init PROVE IInv
  OBVIOUS
<1>1. TypeOK
  BY SagaAssumption DEF Init, TypeOK, BaseState, Awaits
<1>2. TablesAgree
  BY FS_EmptySet DEF Init, TablesAgree
<1>3. CurrentIsNewest /\ Untouched /\ LaunchComesFirst
  BY DEF Init, CurrentIsNewest, Untouched, LaunchComesFirst
<1>4. OneLiveAttempt /\ OpenBaseIsLive /\ RetryFollowsPolicy
  BY DEF Init, OneLiveAttempt, OpenBaseIsLive, RetryFollowsPolicy
<1>5. LandedFlags /\ DoneHasOutcome /\ WorkIsOpen
  BY DEF Init, LandedFlags, DoneHasOutcome, WorkIsOpen
<1> QED
  BY <1>1, <1>2, <1>3, <1>4, <1>5 DEF IInv, Core

(* A number no attempt of the base has reached has a fresh id.             *)
LEMMA FreshLemma ==
    ASSUME Core, NEW b \in Bases, NEW n \in 1..MaxAttempts,
           \A k \in AttemptsOf(b) : attempts[k].no < n
    PROVE  TxId[b][n] \notin DOMAIN attempts
<1> DEFINE id == TxId[b][n]
<1> SUFFICES ASSUME id \in DOMAIN attempts PROVE FALSE
  OBVIOUS
<1>1. id = TxId[attempts[id].base][attempts[id].no] /\ attempts[id] \in Attempt
  BY DEF Core, TypeOK, TablesAgree
<1>2. attempts[id].base = b /\ attempts[id].no = n
  BY <1>1, DistinctTransactions DEF Attempt
<1> QED
  BY <1>2 DEF AttemptsOf

(* An accepted submission: the attempt is fresh, it becomes the current    *)
(* one of its base, and the previous ones of that base are all failed.     *)
LEMMA AcceptedLemma ==
    ASSUME Core,
           NEW b \in Bases, NEW n \in 1..MaxAttempts, NEW refresh \in BOOLEAN,
           NEW d \in Deadlines,
           Accepted(b, n, refresh, d),
           ~bases[b].done,
           \A id \in AttemptsOf(b) : attempts[id].no < n,
           n > 1 => \E prev \in AttemptsOf(b) \cap DOMAIN failures' :
                       /\ attempts[prev].no = n - 1
                       /\ IsRetryable(failures'[prev])
                       /\ failures'[prev] \in WindowClasses => refresh,
           DOMAIN failures' = DOMAIN failures \cup AttemptsOf(b),
           \A id \in DOMAIN failures : failures'[id] = failures[id],
           landed' = landed,
           todo' = todo \ {b}
    PROVE  /\ TxId[b][n] \notin DOMAIN attempts
           /\ DOMAIN attempts' = DOMAIN attempts \cup {TxId[b][n]}
           /\ DOMAIN pending' \subseteq Ids
           /\ pending' \in [DOMAIN pending' -> [stage : Stage, slot : Slots \cup {NoSlot}]]
           /\ DOMAIN attempts' \subseteq Ids
           /\ attempts' \in [DOMAIN attempts' -> Attempt]
           /\ bases' \in [Bases -> BaseState]
           /\ refused' = refused
           /\ TablesAgree' /\ CurrentIsNewest'
           /\ Untouched'
           /\ OneLiveAttempt' /\ OpenBaseIsLive' /\ RetryFollowsPolicy'
           /\ LandedFlags' /\ DoneHasOutcome'
<1> DEFINE id == TxId[b][n]
           new == [base |-> b, no |-> n, deadline |-> d, refresh |-> refresh]
<1>1. id \in Ids /\ id # NoId /\ new \in Attempt /\ d \in Slots \cup {NoSlot}
  BY SagaAssumption DEF Attempt
<1>2. /\ pending' = Insert(pending, id, NewBundle)
      /\ attempts' = Insert(attempts, id, new)
      /\ bases' = [bases EXCEPT ![b].current = id]
      /\ refused' = refused
  BY DEF Accepted, Track
<1> HIDE DEF id, new
<1>3. id \notin DOMAIN attempts
  BY FreshLemma DEF id
<1>4. /\ DOMAIN attempts' = DOMAIN attempts \cup {id}
      /\ attempts'[id] = new
      /\ \A k \in DOMAIN attempts : attempts'[k] = attempts[k]
      /\ attempts' \in [DOMAIN attempts' -> Attempt]
  BY <1>1, <1>2, <1>3 DEF Core, TypeOK, Insert
<1>5. /\ DOMAIN pending' = DOMAIN pending \cup {id}
      /\ pending' \in [DOMAIN pending' -> [stage : Stage, slot : Slots \cup {NoSlot}]]
  <2>1. NewBundle \in [stage : Stage, slot : Slots \cup {NoSlot}]
    BY DEF NewBundle, Stage
  <2> QED
    BY <2>1, <1>2 DEF Core, TypeOK, Insert
<1>6. /\ bases' \in [Bases -> BaseState]
      /\ bases'[b].current = id /\ bases'[b].done = bases[b].done
      /\ bases'[b].landed = bases[b].landed
      /\ \A c \in Bases \ {b} : bases'[c] = bases[c]
  BY <1>1, <1>2 DEF Core, TypeOK, BaseState
<1>7. /\ new.base = b /\ new.no = n /\ new.refresh = refresh
      /\ \A k \in DOMAIN attempts : attempts[k] \in Attempt /\ attempts[k].base \in Bases
                                    /\ attempts[k].no \in Nat
      /\ n \in Nat
  BY SagaAssumption DEF new, Core, TypeOK, Attempt
<1>8. /\ AttemptsOf(b)' = AttemptsOf(b) \cup {id}
      /\ \A c \in Bases \ {b} : AttemptsOf(c)' = AttemptsOf(c)
      /\ \A c \in Bases : AttemptsOf(c) \subseteq DOMAIN attempts
  BY <1>3, <1>4, <1>7 DEF AttemptsOf
<1>9. TablesAgree'
  BY <1>3, <1>4, <1>5, <1>7, <1>8, FS_AddElement DEF Core, TablesAgree, id, AttemptsOf
<1>10. CurrentIsNewest'
  <2>1. \A c \in Bases : bases'[c].current # NoId =>
           /\ bases'[c].current \in DOMAIN attempts'
           /\ attempts'[bases'[c].current].base = c
    BY <1>3, <1>4, <1>6, <1>7 DEF Core, CurrentIsNewest
  <2>2. ASSUME NEW k \in DOMAIN attempts'
        PROVE  LET c == bases'[attempts'[k].base].current
               IN  c # NoId /\ attempts'[k].no <= attempts'[c].no
    <3>1. CASE k = id
      BY <3>1, <1>1, <1>4, <1>6, <1>7
    <3>2. CASE k # id /\ attempts[k].base = b
      BY <3>2, <1>1, <1>4, <1>6, <1>7 DEF AttemptsOf
    <3>3. CASE k # id /\ attempts[k].base # b
      <4>1. k \in DOMAIN attempts
        BY <3>3, <1>4
      <4>2. bases'[attempts[k].base].current = bases[attempts[k].base].current
        BY <3>3, <4>1, <1>6, <1>7
      <4>3. /\ bases[attempts[k].base].current # NoId
            /\ bases[attempts[k].base].current \in DOMAIN attempts
            /\ attempts[k].no <= attempts[bases[attempts[k].base].current].no
        BY <4>1, <1>7 DEF Core, CurrentIsNewest
      <4> QED
        BY <4>1, <4>2, <4>3, <1>4
    <3> QED
      BY <3>1, <3>2, <3>3
  <2> QED
    BY <2>1, <2>2 DEF CurrentIsNewest
<1>11. Untouched'
  BY <1>6 DEF Core, Untouched, TypeOK
<1>12. OneLiveAttempt'
  <2> SUFFICES ASSUME NEW k \in DOMAIN attempts' \ DOMAIN failures'
               PROVE  bases'[attempts'[k].base].current = k
    BY DEF OneLiveAttempt
  <2>1. CASE k = id
    BY <2>1, <1>4, <1>6, <1>7
  <2>2. CASE k # id
    <3>1. k \in DOMAIN attempts \ DOMAIN failures /\ attempts[k].base # b
      BY <2>2, <1>4 DEF AttemptsOf
    <3> QED
      BY <3>1, <1>4, <1>6, <1>7 DEF Core, OneLiveAttempt
  <2> QED
    BY <2>1, <2>2
<1>13. OpenBaseIsLive'
  <2> SUFFICES ASSUME NEW c \in Bases \ todo', ~bases'[c].done
               PROVE  bases'[c].current \in DOMAIN attempts' \ DOMAIN failures'
    BY DEF OpenBaseIsLive
  <2>1. CASE c = b
    BY <2>1, <1>3, <1>4, <1>6 DEF Core, TablesAgree, AttemptsOf
  <2>2. CASE c # b
    <3>1. bases[c].current \in DOMAIN attempts \ DOMAIN failures /\ bases'[c] = bases[c]
      BY <2>2, <1>6 DEF Core, OpenBaseIsLive
    <3>2. attempts[bases[c].current].base = c
      BY <3>1, SagaAssumption DEF Core, TypeOK, CurrentIsNewest
    <3> QED
      BY <3>1, <3>2, <2>2, <1>4 DEF AttemptsOf
  <2> QED
    BY <2>1, <2>2
<1>14. RetryFollowsPolicy'
  <2> DEFINE Justified(k) ==
               /\ attempts'[k].no <= MaxAttempts
               /\ attempts'[k].no > 1 =>
                    \E prev \in DOMAIN attempts' \cap DOMAIN failures' :
                       /\ attempts'[prev].base = attempts'[k].base
                       /\ attempts'[prev].no = attempts'[k].no - 1
                       /\ IsRetryable(failures'[prev])
                       /\ failures'[prev] \in WindowClasses => attempts'[k].refresh
  <2>1. Justified(id)
    <3>1. attempts'[id] = new /\ n <= MaxAttempts
      BY <1>4, SagaAssumption
    <3>2. \A prev \in AttemptsOf(b) : /\ prev \in DOMAIN attempts'
                                      /\ attempts'[prev] = attempts[prev]
                                      /\ attempts[prev].base = b
      BY <1>4 DEF AttemptsOf
    <3> QED
      BY <3>1, <3>2, <1>7
  <2>2. ASSUME NEW k \in DOMAIN attempts PROVE Justified(k)
    <3>1. attempts'[k] = attempts[k] /\ k \in DOMAIN attempts'
      BY <1>4
    <3>2. /\ attempts[k].no <= MaxAttempts
          /\ attempts[k].no > 1 =>
               \E prev \in AttemptsOf(attempts[k].base) \cap DOMAIN failures :
                  /\ attempts[prev].no = attempts[k].no - 1
                  /\ IsRetryable(failures[prev])
                  /\ failures[prev] \in WindowClasses => attempts[k].refresh
      BY DEF Core, RetryFollowsPolicy
    <3>3. \A prev \in AttemptsOf(attempts[k].base) :
             /\ prev \in DOMAIN attempts' /\ attempts'[prev] = attempts[prev]
             /\ attempts[prev].base = attempts[k].base
      BY <1>4 DEF AttemptsOf
    <3> QED
      BY <3>1, <3>2, <3>3
  <2>3. \A k \in DOMAIN attempts' : Justified(k)
    BY <2>1, <2>2, <1>4
  <2> QED
    BY <2>3 DEF RetryFollowsPolicy, AttemptsOf
<1>15. LandedFlags'
  BY <1>6, <1>8 DEF Core, LandedFlags
<1>16. DoneHasOutcome'
  BY <1>2, <1>6, <1>8 DEF Core, DoneHasOutcome, HasOutcome
<1>17. DOMAIN attempts' \subseteq Ids /\ DOMAIN pending' \subseteq Ids
  BY <1>1, <1>4, <1>5 DEF Core, TypeOK
<1> QED
  BY <1>2, <1>3, <1>4, <1>5, <1>6, <1>9, <1>10, <1>11, <1>12, <1>13, <1>14, <1>15,
     <1>16, <1>17 DEF id

(* A base is closed with an outcome on record: nothing else changes.       *)
LEMMA ClosedLemma ==
    ASSUME Core,
           NEW b \in Bases,
           bases' = [bases EXCEPT ![b].done = TRUE],
           UNCHANGED <<pending, attempts, landed>>,
           refused \subseteq refused',
           b \in refused' \/ bases[b].current \in DOMAIN failures',
           DOMAIN failures \subseteq DOMAIN failures',
           DOMAIN failures' \subseteq DOMAIN failures \cup AttemptsOf(b),
           \A id \in DOMAIN failures : failures'[id] = failures[id],
           todo' = todo \ {b}
    PROVE  /\ bases' \in [Bases -> BaseState]
           /\ TablesAgree' /\ CurrentIsNewest' /\ Untouched'
           /\ OneLiveAttempt' /\ OpenBaseIsLive' /\ RetryFollowsPolicy'
           /\ LandedFlags' /\ DoneHasOutcome'
<1>1. /\ bases' \in [Bases -> BaseState]
      /\ bases'[b].done
      /\ \A c \in Bases : /\ bases'[c].current = bases[c].current
                          /\ bases'[c].landed = bases[c].landed
                          /\ c # b => bases'[c] = bases[c]
  BY ZenonT(40) DEF Core, TypeOK, BaseState
<1>2. /\ pending' = pending /\ attempts' = attempts /\ landed' = landed
      /\ \A k \in DOMAIN attempts : attempts[k].base \in Bases
      /\ \A c \in Bases : AttemptsOf(c)' = AttemptsOf(c)
  BY DEF Core, TypeOK, Attempt, AttemptsOf
<1>3. TablesAgree'
  BY <1>2 DEF Core, TablesAgree, AttemptsOf
<1>4. CurrentIsNewest'
  BY <1>1, <1>2 DEF Core, CurrentIsNewest
<1>5. Untouched'
  BY <1>1 DEF Core, Untouched, TypeOK
<1>6. OneLiveAttempt'
  BY <1>1, <1>2 DEF Core, OneLiveAttempt
<1>7. OpenBaseIsLive'
  <2> SUFFICES ASSUME NEW c \in Bases \ todo', ~bases'[c].done
               PROVE  bases'[c].current \in DOMAIN attempts' \ DOMAIN failures'
    BY DEF OpenBaseIsLive
  <2>1. c # b /\ bases[c].current \in DOMAIN attempts \ DOMAIN failures
    BY <1>1 DEF Core, OpenBaseIsLive
  <2>2. attempts[bases[c].current].base = c
    BY <2>1, SagaAssumption DEF Core, TypeOK, CurrentIsNewest
  <2> QED
    BY <2>1, <2>2, <1>1, <1>2 DEF AttemptsOf
<1>8. RetryFollowsPolicy'
  BY <1>2 DEF Core, RetryFollowsPolicy
<1>9. LandedFlags' /\ DoneHasOutcome'
  BY <1>1, <1>2 DEF Core, LandedFlags, DoneHasOutcome, HasOutcome
<1> QED
  BY <1>1, <1>3, <1>4, <1>5, <1>6, <1>7, <1>8, <1>9

(* An attempt that can fail is the current one of an open base that the    *)
(* launch loop has left behind, and every older one of the base is failed. *)
LEMMA CanFailLemma ==
    ASSUME Core, NEW id, CanFail(id)
    PROVE  /\ attempts[id] \in Attempt
           /\ bases[attempts[id].base].current = id
           /\ attempts[id].base \notin todo
           /\ \A k \in AttemptsOf(attempts[id].base) :
                 /\ attempts[k].no <= attempts[id].no
                 /\ k # id => k \in DOMAIN failures
<1>1. id \in DOMAIN attempts \ DOMAIN failures /\ attempts[id] \in Attempt
  BY DEF CanFail, Core, TypeOK
<1>2. bases[attempts[id].base].current = id
  BY <1>1 DEF Core, OneLiveAttempt
<1>3. attempts[id].base \notin todo
  BY <1>1, <1>2, SagaAssumption DEF Core, Untouched, TypeOK
<1>4. \A k \in AttemptsOf(attempts[id].base) : attempts[k].no <= attempts[id].no
  BY <1>1, <1>2 DEF Core, CurrentIsNewest, AttemptsOf
<1>5. \A k \in AttemptsOf(attempts[id].base) : k # id => k \in DOMAIN failures
  BY <1>2 DEF Core, OneLiveAttempt, AttemptsOf
<1> QED
  BY <1>1, <1>2, <1>3, <1>4, <1>5

(* Recording a failure adds one entry and keeps the types of the record.   *)
LEMMA RecordLemma ==
    ASSUME Core, NEW id \in Ids, NEW class \in Classes,
           failures' = Insert(failures, id, class)
    PROVE  /\ DOMAIN failures' = DOMAIN failures \cup {id}
           /\ DOMAIN failures' \subseteq Ids
           /\ failures' \in [DOMAIN failures' -> FailureClass]
           /\ failures'[id] = class
           /\ \A k \in DOMAIN failures : k # id => failures'[k] = failures[k]
<1>1. failures \in [DOMAIN failures -> FailureClass] /\ DOMAIN failures \subseteq Ids
  BY DEF Core, TypeOK
<1> QED
  BY <1>1, SagaAssumption DEF Insert

LEMMA CountLemma ==
    ASSUME Core, NEW total \in Nat, NEW failed \in Nat, Count(total, failed)
    PROVE  summary' \in [total : Nat, landed : Nat, failed : Nat]
<1>1. summary \in [total : Nat, landed : Nat, failed : Nat]
  BY DEF Core, TypeOK
<1>2. summary.total + total \in Nat /\ summary.failed + failed \in Nat
  BY <1>1
<1> QED
  BY <1>1, <1>2 DEF Count

(* fail_and_retry(true), whatever the probe and the agent answer.          *)
LEMMA FailAndRetryLemma ==
    ASSUME Core, NEW id \in Ids, FailAndRetry(id),
           UNCHANGED <<todo, latestSlot, timeUp>>, pc' \in Awaits, work' \subseteq Ids
    PROVE  /\ Core'
           /\ \A b \in Bases : bases'[b].landed = bases[b].landed
           /\ DOMAIN attempts \subseteq DOMAIN attempts'
           /\ \A k \in DOMAIN attempts : attempts'[k] = attempts[k]
<1> DEFINE Kept == /\ \A b \in Bases : bases'[b].landed = bases[b].landed
                   /\ DOMAIN attempts \subseteq DOMAIN attempts'
                   /\ \A k \in DOMAIN attempts : attempts'[k] = attempts[k]
<1>1. CASE ~CanFail(id) /\ Ignored
  BY <1>1 DEF Ignored, Core, TypeOK, TablesAgree, CurrentIsNewest, Untouched,
     OneLiveAttempt, OpenBaseIsLive, RetryFollowsPolicy, LandedFlags, DoneHasOutcome,
     HasOutcome, AttemptsOf
<1>2. ASSUME CanFail(id), landed' = landed,
             NEW class \in Classes, NEW ai \in BOOLEAN,
             failures' = Insert(failures, id, class),
             LET b    == attempts[id].base
                 n    == attempts[id].no
                 plan == ResolveRetry(class, n, MaxAttempts, ai)
             IN  \/ ~plan.retry /\ Abandoned(b) /\ Count(0, 1)
                 \/ /\ plan.retry
                    /\ \E d \in Deadlines : Accepted(b, n + 1, plan.refresh, d)
                    /\ Count(1, 1)
                 \/ plan.retry /\ Refused(b) /\ Count(0, 2)
      PROVE  Core' /\ Kept
  <2> DEFINE b == attempts[id].base
             n == attempts[id].no
             plan == ResolveRetry(class, n, MaxAttempts, ai)
  <2>1. /\ attempts[id] \in Attempt /\ b \in Bases /\ n \in 1..MaxAttempts
        /\ bases[b].current = id /\ todo' = todo \ {b} /\ ~bases[b].done
        /\ id \in AttemptsOf(b) /\ id \notin DOMAIN failures
    BY <1>2, CanFailLemma DEF CanFail, Attempt, AttemptsOf
  <2>2. /\ DOMAIN failures' = DOMAIN failures \cup {id}
        /\ DOMAIN failures' \subseteq Ids
        /\ failures' \in [DOMAIN failures' -> FailureClass]
        /\ failures'[id] = class
        /\ \A k \in DOMAIN failures : failures'[k] = failures[k]
    BY <1>2, <2>1, RecordLemma
  <2>3. summary' \in [total : Nat, landed : Nat, failed : Nat]
    BY <1>2, CountLemma
  <2>4. AttemptsOf(b) \subseteq DOMAIN failures \cup {id}
        /\ \A k \in AttemptsOf(b) : attempts[k].no <= n
    BY <1>2, CanFailLemma
  <2>5. CASE Abandoned(b) \/ Refused(b)
    <3>1. /\ bases' = [bases EXCEPT ![b].done = TRUE]
          /\ UNCHANGED <<pending, attempts, landed>>
          /\ refused \subseteq refused' /\ refused' \subseteq Bases
      BY <1>2, <2>1, <2>5 DEF Abandoned, Refused, Core, TypeOK
    <3>2. /\ bases' \in [Bases -> BaseState]
          /\ TablesAgree' /\ CurrentIsNewest' /\ Untouched'
          /\ OneLiveAttempt' /\ OpenBaseIsLive' /\ RetryFollowsPolicy'
          /\ LandedFlags' /\ DoneHasOutcome'
      <4> HIDE DEF b
      <4> QED
        BY <2>1, <2>2, <3>1, ClosedLemma
    <3>3. TypeOK'
      BY <2>2, <2>3, <3>1, <3>2 DEF Core, TypeOK
    <3>4. Kept
      BY <2>1, <3>1 DEF Core, TypeOK, BaseState
    <3> QED
      BY <3>2, <3>3, <3>4 DEF Core
  <2>6. CASE plan.retry /\ \E d \in Deadlines : Accepted(b, n + 1, plan.refresh, d)
    <3>1. PICK d \in Deadlines : Accepted(b, n + 1, plan.refresh, d)
      BY <2>6
    <3>2. /\ IsRetryable(class) /\ n + 1 \in 1..MaxAttempts /\ n + 1 > 1
          /\ plan.refresh \in BOOLEAN
          /\ class \in WindowClasses => plan.refresh
          /\ \A k \in AttemptsOf(b) : attempts[k].no < n + 1
      <4>1. /\ IsRetryable(class) /\ n < MaxAttempts /\ plan.refresh \in BOOLEAN
            /\ class \in WindowClasses => plan.refresh
        BY <2>6, <1>2, ResolveLemma
      <4>2. \A k \in AttemptsOf(b) : attempts[k].no \in Nat
        BY SagaAssumption DEF Core, TypeOK, Attempt, AttemptsOf
      <4> QED
        BY <4>1, <4>2, <2>1, <2>4, SagaAssumption
    <3>3. \E prev \in AttemptsOf(b) \cap DOMAIN failures' :
             /\ attempts[prev].no = (n + 1) - 1
             /\ IsRetryable(failures'[prev])
             /\ failures'[prev] \in WindowClasses => plan.refresh
      <4>1. n = (n + 1) - 1
        BY <2>1, SagaAssumption
      <4>2. id \in AttemptsOf(b) \cap DOMAIN failures'
        BY <2>1, <2>2
      <4> QED
        BY <4>1, <4>2, <3>2, <2>2
    <3>4. DOMAIN failures' = DOMAIN failures \cup AttemptsOf(b)
      BY <2>1, <2>2, <2>4
    <3>5. /\ DOMAIN attempts \subseteq DOMAIN attempts'
          /\ TypeOK' /\ TablesAgree' /\ CurrentIsNewest' /\ Untouched'
          /\ OneLiveAttempt' /\ OpenBaseIsLive' /\ RetryFollowsPolicy'
          /\ LandedFlags' /\ DoneHasOutcome'
          /\ TxId[b][n + 1] \notin DOMAIN attempts
      <4> DEFINE m == n + 1
                 r == plan.refresh
      <4>1. /\ m \in 1..MaxAttempts /\ r \in BOOLEAN /\ Accepted(b, m, r, d)
            /\ \A k \in AttemptsOf(b) : attempts[k].no < m
            /\ \E prev \in AttemptsOf(b) \cap DOMAIN failures' :
                  /\ attempts[prev].no = m - 1
                  /\ IsRetryable(failures'[prev])
                  /\ failures'[prev] \in WindowClasses => r
        BY <3>1, <3>2, <3>3
      <4> HIDE DEF b, n, m, r
      <4>2. b \in Bases /\ m \in 1..MaxAttempts /\ r \in BOOLEAN /\ d \in Deadlines
        BY <4>1, <3>1, <2>1
      <4>3. Accepted(b, m, r, d) /\ ~bases[b].done /\ landed' = landed /\ todo' = todo \ {b}
        BY <4>1, <2>1, <1>2
      <4>4. \A k \in AttemptsOf(b) : attempts[k].no < m
        BY <4>1
      <4>5. m > 1 => \E prev \in AttemptsOf(b) \cap DOMAIN failures' :
                  /\ attempts[prev].no = m - 1
                  /\ IsRetryable(failures'[prev])
                  /\ failures'[prev] \in WindowClasses => r
        BY <4>1
      <4>6. /\ DOMAIN failures' = DOMAIN failures \cup AttemptsOf(b)
            /\ \A k \in DOMAIN failures : failures'[k] = failures[k]
        BY <3>4, <2>2
      <4>7. /\ TxId[b][m] \notin DOMAIN attempts
            /\ DOMAIN attempts' = DOMAIN attempts \cup {TxId[b][m]}
            /\ DOMAIN pending' \subseteq Ids
            /\ pending' \in [DOMAIN pending' -> [stage : Stage, slot : Slots \cup {NoSlot}]]
            /\ DOMAIN attempts' \subseteq Ids
            /\ attempts' \in [DOMAIN attempts' -> Attempt]
            /\ bases' \in [Bases -> BaseState]
            /\ refused' = refused
            /\ TablesAgree' /\ CurrentIsNewest' /\ Untouched'
            /\ OneLiveAttempt' /\ OpenBaseIsLive' /\ RetryFollowsPolicy'
            /\ LandedFlags' /\ DoneHasOutcome'
        BY ZenonT(40), <4>2, <4>3, <4>4, <4>5, <4>6, AcceptedLemma
      <4>8. TypeOK'
        BY <4>7, <2>2, <2>3, <1>2 DEF Core, TypeOK
      <4> QED
        BY <4>7, <4>8 DEF m
    <3>6. Kept
      <4>1. \A c \in Bases : bases'[c].landed = bases[c].landed
        BY <3>1, <2>1 DEF Accepted, Core, TypeOK, BaseState
      <4>2. \A k \in DOMAIN attempts : attempts'[k] = attempts[k]
        <5>1. attempts' = Insert(attempts, TxId[b][n + 1],
                                 [base |-> b, no |-> n + 1, deadline |-> d,
                                  refresh |-> plan.refresh])
          BY <3>1 DEF Accepted
        <5> HIDE DEF b, n, plan
        <5> QED
          BY <5>1, <3>5 DEF Insert
      <4> QED
        BY <3>5, <4>1, <4>2
    <3> QED
      BY <3>5, <3>6 DEF Core
  <2> QED
    BY <1>2, <2>5, <2>6
<1> QED
  BY <1>1, <1>2 DEF FailAndRetry

(* fail_and_retry(false): the base is closed with the failure on record.   *)
LEMMA FailAndCloseLemma ==
    ASSUME Core, NEW id \in Ids, FailAndClose(id),
           UNCHANGED <<todo, latestSlot, timeUp>>, pc' \in Awaits, work' \subseteq Ids
    PROVE  /\ Core'
           /\ UNCHANGED <<attempts, pending, landed>>
           /\ \A b \in Bases : /\ bases'[b].current = bases[b].current
                               /\ bases'[b].landed = bases[b].landed
                               /\ bases[b].done => bases'[b].done
           /\ CanFail(id) => bases'[attempts[id].base].done
<1>1. CASE ~CanFail(id) /\ Ignored
  <2>1. Core'
    BY <1>1 DEF Ignored, Core, TypeOK, TablesAgree, CurrentIsNewest, Untouched,
       OneLiveAttempt, OpenBaseIsLive, RetryFollowsPolicy, LandedFlags, DoneHasOutcome,
       HasOutcome, AttemptsOf
  <2> QED
    BY <2>1, <1>1 DEF Ignored
<1>2. ASSUME CanFail(id), landed' = landed,
             NEW class \in Classes, failures' = Insert(failures, id, class),
             Abandoned(attempts[id].base), Count(0, 1)
      PROVE  /\ Core'
             /\ UNCHANGED <<attempts, pending, landed>>
             /\ \A b \in Bases : /\ bases'[b].current = bases[b].current
                                 /\ bases'[b].landed = bases[b].landed
                                 /\ bases[b].done => bases'[b].done
             /\ bases'[attempts[id].base].done
  <2> DEFINE b == attempts[id].base
  <2>1. /\ b \in Bases /\ bases[b].current = id /\ todo' = todo \ {b}
        /\ id \in AttemptsOf(b) /\ id \notin DOMAIN failures
    BY <1>2, CanFailLemma DEF CanFail, Attempt, AttemptsOf
  <2>2. /\ DOMAIN failures' = DOMAIN failures \cup {id}
        /\ DOMAIN failures' \subseteq Ids
        /\ failures' \in [DOMAIN failures' -> FailureClass]
        /\ \A k \in DOMAIN failures : failures'[k] = failures[k]
    BY <1>2, <2>1, RecordLemma
  <2>3. summary' \in [total : Nat, landed : Nat, failed : Nat]
    BY <1>2, CountLemma
  <2>4. /\ bases' = [bases EXCEPT ![b].done = TRUE]
        /\ UNCHANGED <<pending, attempts, landed, refused>>
    BY <1>2 DEF Abandoned
  <2>5. /\ bases' \in [Bases -> BaseState]
        /\ TablesAgree' /\ CurrentIsNewest' /\ Untouched'
        /\ OneLiveAttempt' /\ OpenBaseIsLive' /\ RetryFollowsPolicy'
        /\ LandedFlags' /\ DoneHasOutcome'
    <3> HIDE DEF b
    <3> QED
      BY <2>1, <2>2, <2>4, ClosedLemma
  <2>6. TypeOK'
    BY <2>2, <2>3, <2>4, <2>5 DEF Core, TypeOK
  <2>7. \A c \in Bases : /\ bases'[c].current = bases[c].current
                         /\ bases'[c].landed = bases[c].landed
                         /\ bases[c].done => bases'[c].done
    BY <2>1, <2>4 DEF Core, TypeOK, BaseState
  <2>8. bases'[b].done
    BY <2>1, <2>4 DEF Core, TypeOK, BaseState
  <2> QED
    BY <2>4, <2>5, <2>6, <2>7, <2>8 DEF Core
<1> QED
  BY <1>1, <1>2 DEF FailAndClose

(* The first submission of a base.                                         *)
LEMMA LaunchFirstStep ==
    ASSUME IInv, NEW b \in Bases, LaunchFirst(b)
    PROVE  IInv'
<1>1. /\ Core /\ b \in todo /\ todo \subseteq Bases /\ todo' = todo \ {b}
      /\ bases[b].current = NoId /\ ~bases[b].done
      /\ UNCHANGED <<work, landed, failures, latestSlot, timeUp>>
      /\ pc' \in Awaits /\ pc' \notin {"giveUp", "sweep", "over"}
      /\ pc' = "launch" <=> todo' # {}
  BY DEF LaunchFirst, IInv, Core, Untouched, TypeOK, Awaits
<1>2. AttemptsOf(b) = {}
  BY <1>1 DEF Core, CurrentIsNewest, AttemptsOf
<1>3. CASE \E d \in Deadlines : Accepted(b, 1, FALSE, d) /\ Count(1, 0)
  <2>1. PICK d \in Deadlines : Accepted(b, 1, FALSE, d) /\ Count(1, 0)
    BY <1>3
  <2>2. /\ 1 \in 1..MaxAttempts /\ FALSE \in BOOLEAN
        /\ DOMAIN failures' = DOMAIN failures \cup AttemptsOf(b)
        /\ \A id \in DOMAIN failures : failures'[id] = failures[id]
        /\ \A id \in AttemptsOf(b) : attempts[id].no < 1
        /\ ~(1 > 1)
    BY <1>1, <1>2, SagaAssumption
  <2>3. /\ DOMAIN pending' \subseteq Ids
        /\ pending' \in [DOMAIN pending' -> [stage : Stage, slot : Slots \cup {NoSlot}]]
        /\ DOMAIN attempts' \subseteq Ids
        /\ attempts' \in [DOMAIN attempts' -> Attempt]
        /\ bases' \in [Bases -> BaseState]
        /\ refused' = refused
        /\ TablesAgree' /\ CurrentIsNewest' /\ Untouched'
        /\ OneLiveAttempt' /\ OpenBaseIsLive' /\ RetryFollowsPolicy'
        /\ LandedFlags' /\ DoneHasOutcome'
    BY <1>1, <2>1, <2>2, AcceptedLemma
  <2>4. summary' \in [total : Nat, landed : Nat, failed : Nat]
    BY <1>1, <2>1, CountLemma
  <2>5. TypeOK'
    BY <1>1, <2>3, <2>4 DEF Core, TypeOK
  <2> QED
    BY <1>1, <2>3, <2>5 DEF IInv, Core, LaunchComesFirst, WorkIsOpen
<1>4. CASE Refused(b) /\ Count(0, 1)
  <2>1. /\ bases' = [bases EXCEPT ![b].done = TRUE]
        /\ UNCHANGED <<pending, attempts, landed>>
        /\ refused \subseteq refused' /\ b \in refused' /\ refused' \subseteq Bases
    BY <1>1, <1>4 DEF Refused, Core, TypeOK
  <2>2. /\ bases' \in [Bases -> BaseState]
        /\ TablesAgree' /\ CurrentIsNewest' /\ Untouched'
        /\ OneLiveAttempt' /\ OpenBaseIsLive' /\ RetryFollowsPolicy'
        /\ LandedFlags' /\ DoneHasOutcome'
    BY <1>1, <2>1, ClosedLemma
  <2>3. summary' \in [total : Nat, landed : Nat, failed : Nat]
    BY <1>1, <1>4, CountLemma
  <2>4. TypeOK'
    BY <1>1, <2>1, <2>2, <2>3 DEF Core, TypeOK
  <2> QED
    BY <1>1, <2>2, <2>4 DEF IInv, Core, LaunchComesFirst, WorkIsOpen
<1> QED
  BY <1>3, <1>4 DEF LaunchFirst

(* A step that only moves between the awaits.                              *)
LEMMA CoreUnchanged ==
    ASSUME Core, pc' \in Awaits, work' \subseteq Ids, timeUp' \in BOOLEAN,
           UNCHANGED <<todo, table, ledger, latestSlot>>
    PROVE  Core'
  BY DEF table, ledger, Core, TypeOK, TablesAgree, CurrentIsNewest, Untouched,
     OneLiveAttempt, OpenBaseIsLive, RetryFollowsPolicy, LandedFlags, DoneHasOutcome,
     HasOutcome, AttemptsOf

(* A step that only moves lifecycles.                                      *)
LEMMA CorePending ==
    ASSUME Core, pc' \in Awaits, work' \subseteq Ids, latestSlot' \in Slots \cup {0},
           DOMAIN pending' = DOMAIN pending,
           pending' \in [DOMAIN pending' -> [stage : Stage, slot : Slots \cup {NoSlot}]],
           UNCHANGED <<todo, attempts, bases, refused, landed, failures, summary, timeUp>>
    PROVE  Core'
  BY DEF Core, TypeOK, TablesAgree, CurrentIsNewest, Untouched,
     OneLiveAttempt, OpenBaseIsLive, RetryFollowsPolicy, LandedFlags, DoneHasOutcome,
     HasOutcome, AttemptsOf

(* The correlator's operators stay within the table's type.                *)
LEMMA AdvanceLemma ==
    ASSUME NEW bundle \in [stage : Stage, slot : Slots \cup {NoSlot}], NEW to \in Stage
    PROVE  /\ Advance(bundle, to) \in [stage : Stage, slot : Slots \cup {NoSlot}]
           /\ Advance(bundle, to).slot = bundle.slot
  BY DEF Advance

LEMMA TableLemma ==
    ASSUME Core
    PROVE  /\ \A id \in DOMAIN pending, slot \in Slots, txFailed \in BOOLEAN :
                 OnTxStatus(pending, id, slot, txFailed)
                    \in [DOMAIN pending -> [stage : Stage, slot : Slots \cup {NoSlot}]]
           /\ \A slot \in Slots, status \in SlotStatus :
                 OnSlotStatus(pending, slot, status)
                    \in [DOMAIN pending -> [stage : Stage, slot : Slots \cup {NoSlot}]]
<1> DEFINE Bundle == [stage : Stage, slot : Slots \cup {NoSlot}]
<1>1. pending \in [DOMAIN pending -> Bundle]
  BY DEF Core, TypeOK
<1>2. ASSUME NEW id \in DOMAIN pending, NEW slot \in Slots, NEW txFailed \in BOOLEAN
      PROVE  OnTxStatus(pending, id, slot, txFailed) \in [DOMAIN pending -> Bundle]
  <2> DEFINE to == IF txFailed THEN "failed" ELSE "processed"
  <2>1. to \in Stage /\ pending[id] \in Bundle
    BY <1>1 DEF Stage
  <2>2. Advance(pending[id], to) \in Bundle
    BY <2>1, AdvanceLemma
  <2>3. [Advance(pending[id], to) EXCEPT !.slot = slot] \in Bundle
    BY <2>2
  <2>4. TxStatus(pending[id], slot, txFailed) \in Bundle
    BY <2>2, <2>3 DEF TxStatus
  <2> QED
    BY <1>1, <2>4 DEF OnTxStatus
<1>3. ASSUME NEW slot \in Slots, NEW status \in SlotStatus
      PROVE  OnSlotStatus(pending, slot, status) \in [DOMAIN pending -> Bundle]
  <2> SUFFICES ASSUME NEW id \in DOMAIN pending
               PROVE  OnSlotStatus(pending, slot, status)[id] \in Bundle
    BY DEF OnSlotStatus
  <2>1. CASE ImpliesStage(status)
    <3>1. SlotStatusToStage(status) \in Stage
      BY <2>1 DEF ImpliesStage, SlotStatusToStage, Stage
    <3>2. Advance(pending[id], SlotStatusToStage(status)) \in Bundle
      BY <3>1, <1>1, AdvanceLemma
    <3> QED
      BY <3>2, <1>1 DEF OnSlotStatus
  <2>2. CASE ~ImpliesStage(status)
    BY <2>2, <1>1 DEF OnSlotStatus
  <2> QED
    BY <2>1, <2>2
<1> QED
  BY <1>2, <1>3

LEMMA RecvTxStep ==
    ASSUME IInv, NEW id \in Ids, NEW slot \in Slots, NEW txFailed \in BOOLEAN,
           RecvTx(id, slot, txFailed)
    PROVE  IInv'
<1>1. /\ Core /\ pc' \in {"txFailed", "reconcile"} /\ work' \subseteq Ids /\ todo = {}
      /\ latestSlot' \in Slots \cup {0}
      /\ UNCHANGED <<todo, attempts, bases, refused, landed, failures, summary, timeUp>>
  BY DEF RecvTx, IInv, Core, TypeOK, LaunchComesFirst
<1>2. /\ DOMAIN pending' = DOMAIN pending
      /\ pending' \in [DOMAIN pending' -> [stage : Stage, slot : Slots \cup {NoSlot}]]
  BY <1>1, TableLemma DEF RecvTx, Core, TypeOK
<1>3. Core'
  BY <1>1, <1>2, CorePending DEF Awaits
<1> QED
  BY <1>1, <1>3 DEF IInv, LaunchComesFirst, WorkIsOpen

LEMMA RecvSlotStep ==
    ASSUME IInv, NEW slot \in Slots, NEW status \in SlotStatus, RecvSlot(slot, status)
    PROVE  IInv'
<1>1. /\ Core /\ pc' = "reconcile" /\ work' \subseteq Ids /\ todo = {}
      /\ latestSlot' \in Slots \cup {0}
      /\ UNCHANGED <<todo, attempts, bases, refused, landed, failures, summary, timeUp>>
  BY DEF RecvSlot, IInv, Core, TypeOK, LaunchComesFirst
<1>2. /\ DOMAIN pending' = DOMAIN pending
      /\ pending' \in [DOMAIN pending' -> [stage : Stage, slot : Slots \cup {NoSlot}]]
  BY <1>1, TableLemma DEF RecvSlot
<1>3. Core'
  BY <1>1, <1>2, CorePending DEF Awaits
<1> QED
  BY <1>1, <1>3 DEF IInv, LaunchComesFirst, WorkIsOpen

LEMMA TxFailedStep ==
    ASSUME IInv, NEW id \in Ids, TxFailed(id)
    PROVE  IInv'
<1>1. /\ Core /\ pc' = "reconcile" /\ work' \subseteq Ids /\ todo = {}
      /\ UNCHANGED <<todo, latestSlot, timeUp>>
  BY DEF TxFailed, IInv, Core, TypeOK, LaunchComesFirst
<1>2. Core'
  BY <1>1, FailAndRetryLemma DEF TxFailed, Awaits
<1> QED
  BY <1>1, <1>2 DEF IInv, LaunchComesFirst, WorkIsOpen

LEMMA GiveUpStep ==
    ASSUME IInv, NEW id \in Ids, GiveUp(id)
    PROVE  IInv'
<1>1. /\ Core /\ pc' \in {"top", "giveUp"} /\ work' \subseteq work /\ work' \subseteq Ids
      /\ todo = {} /\ work \subseteq DOMAIN attempts
      /\ \A k \in work : ~bases[attempts[k].base].landed
      /\ UNCHANGED <<todo, latestSlot, timeUp>>
  BY DEF GiveUp, IInv, Core, TypeOK, LaunchComesFirst, WorkIsOpen
<1>2. /\ Core'
      /\ \A b \in Bases : bases'[b].landed = bases[b].landed
      /\ DOMAIN attempts \subseteq DOMAIN attempts'
      /\ \A k \in DOMAIN attempts : attempts'[k] = attempts[k]
  BY <1>1, FailAndRetryLemma DEF GiveUp, Awaits
<1>3. WorkIsOpen'
  <2>1. \A k \in work' : attempts[k].base \in Bases /\ attempts'[k] = attempts[k]
    BY <1>1, <1>2 DEF Core, TypeOK, Attempt
  <2> QED
    BY <1>1, <1>2, <2>1 DEF WorkIsOpen
<1> QED
  BY <1>1, <1>2, <1>3 DEF IInv, LaunchComesFirst

(* A base the launch loop has left behind is done or has a live current    *)
(* attempt of its own.                                                     *)
LEMMA CurrentLemma ==
    ASSUME Core
    PROVE  /\ \A k \in DOMAIN attempts : attempts[k].base \in Bases
           /\ \A b \in Bases \ todo : ~bases[b].done =>
                 /\ bases[b].current \in DOMAIN attempts \ DOMAIN failures
                 /\ attempts[bases[b].current].base = b
<1>1. \A k \in DOMAIN attempts : attempts[k].base \in Bases
  BY DEF Core, TypeOK, Attempt
<1>2. ASSUME NEW b \in Bases \ todo, ~bases[b].done
      PROVE  /\ bases[b].current \in DOMAIN attempts \ DOMAIN failures
             /\ attempts[bases[b].current].base = b
  <2>1. bases[b].current \in DOMAIN attempts \ DOMAIN failures
    BY <1>2 DEF Core, OpenBaseIsLive
  <2> QED
    BY <2>1, SagaAssumption DEF Core, TypeOK, CurrentIsNewest
<1> QED
  BY <1>1, <1>2

(* A step that changes no attempt and no current one, but may settle bases.*)
LEMMA SettleLemma ==
    ASSUME Core, UNCHANGED <<pending, attempts, failures>>,
           landed' \subseteq DOMAIN attempts,
           \A b \in Bases : bases'[b].current = bases[b].current
    PROVE  TablesAgree' /\ CurrentIsNewest' /\ OneLiveAttempt' /\ RetryFollowsPolicy'
<1>1. \A k \in DOMAIN attempts : bases'[attempts[k].base].current
                                    = bases[attempts[k].base].current
  BY CurrentLemma
<1>2. TablesAgree'
  BY DEF Core, TablesAgree
<1>3. CurrentIsNewest'
  BY <1>1 DEF Core, CurrentIsNewest
<1>4. OneLiveAttempt'
  BY <1>1 DEF Core, OneLiveAttempt
<1>5. RetryFollowsPolicy'
  BY DEF Core, RetryFollowsPolicy, AttemptsOf
<1> QED
  BY <1>2, <1>3, <1>4, <1>5

(* The sweep: what it gives up on closes its base.                         *)
LEMMA SweepStep ==
    ASSUME IInv, NEW id \in Ids, Sweep(id)
    PROVE  IInv'
<1>1. /\ Core /\ pc = "sweep" /\ id \in work /\ work' = work \ {id} /\ work' \subseteq Ids
      /\ pc' = IF work' = {} THEN "over" ELSE "sweep"
      /\ todo = {} /\ work \subseteq DOMAIN attempts
      /\ \A k \in work : ~bases[attempts[k].base].landed
      /\ \A b \in Bases : ~bases[b].done => bases[b].current \in work
      /\ UNCHANGED <<todo, latestSlot, timeUp>>
  BY DEF Sweep, IInv, Core, TypeOK, LaunchComesFirst, WorkIsOpen
<1>2. /\ Core'
      /\ UNCHANGED <<attempts, pending, landed>>
      /\ \A b \in Bases : /\ bases'[b].current = bases[b].current
                          /\ bases'[b].landed = bases[b].landed
                          /\ bases[b].done => bases'[b].done
      /\ CanFail(id) => bases'[attempts[id].base].done
  BY <1>1, FailAndCloseLemma DEF Sweep, Awaits
<1>3. \A k \in work : attempts[k].base \in Bases
  BY <1>1 DEF Core, TypeOK, Attempt
<1>4. ASSUME NEW b \in Bases, ~bases'[b].done
      PROVE  bases'[b].current \in work'
  <2>1. ~bases[b].done /\ bases[b].current \in work
    BY <1>4, <1>2, <1>1
  <2>2. bases[b].current # id
    <3> SUFFICES ASSUME bases[b].current = id PROVE FALSE
      OBVIOUS
    <3>1. attempts[id].base = b
      BY <1>1, SagaAssumption DEF Core, TypeOK, CurrentIsNewest
    <3>2. id \notin DOMAIN failures
      BY <2>1, <1>1 DEF Core, OpenBaseIsLive
    <3>3. CanFail(id)
      BY <3>1, <3>2, <2>1, <1>1 DEF CanFail
    <3> QED
      BY <3>1, <3>3, <1>2, <1>4
  <2> QED
    BY <2>1, <2>2, <1>1, <1>2
<1>5. WorkIsOpen'
  BY <1>1, <1>2, <1>3, <1>4 DEF WorkIsOpen
<1> QED
  BY <1>1, <1>2, <1>5 DEF IInv, LaunchComesFirst

(* The end of the drain loop.                                              *)
LEMMA BeginSweepStep ==
    ASSUME IInv, BeginSweep, pc \in {"top", "recv"}
    PROVE  IInv'
<1>1. /\ Core /\ todo = {}
      /\ bases' = [b \in Bases |-> [bases[b] EXCEPT !.done = @ \/ bases[b].landed]]
      /\ work' = Stuck(bases')
      /\ pc' = IF work' = {} THEN "over" ELSE "sweep"
      /\ UNCHANGED <<todo, pending, attempts, landed, failures, refused, latestSlot,
                     summary, timeUp>>
  BY DEF BeginSweep, Swept, IInv, LaunchComesFirst
<1>2. /\ bases' \in [Bases -> BaseState]
      /\ \A b \in Bases : /\ bases'[b].current = bases[b].current
                          /\ bases'[b].landed = bases[b].landed
                          /\ bases'[b].done = (bases[b].done \/ bases[b].landed)
  <2>1. bases \in [Bases -> BaseState]
    BY <1>1 DEF Core, TypeOK
  <2> QED
    BY <2>1, <1>1 DEF BaseState
<1>3. \A b \in Bases : ~bases'[b].done =>
         /\ bases[b].current \in DOMAIN attempts \ DOMAIN failures
         /\ attempts[bases[b].current].base = b
         /\ ~bases[b].landed
  BY <1>1, <1>2, CurrentLemma
<1>4. /\ work' \subseteq DOMAIN attempts
      /\ \A k \in work' : ~bases[attempts[k].base].landed
      /\ \A b \in Bases : ~bases'[b].done => bases'[b].current \in work'
  <2>1. \A k \in work' : \E b \in Bases : ~bases'[b].done /\ k = bases'[b].current
    BY <1>1 DEF Stuck
  <2>2. ASSUME NEW b \in Bases, ~bases'[b].done PROVE bases'[b].current \in work'
    <3>1. bases'[b].current \notin DOMAIN failures
      BY <2>2, <1>2, <1>3
    <3> DEFINE Open == {c \in Bases :
                           ~bases'[c].done /\ bases'[c].current \notin DOMAIN failures}
    <3>2. work' = {bases'[c].current : c \in Open}
      BY <1>1 DEF Stuck
    <3>3. b \in Open
      BY <3>1, <2>2
    <3> HIDE DEF Open
    <3> QED
      BY <3>2, <3>3
  <2> QED
    BY <2>1, <2>2, <1>2, <1>3
<1>5. TypeOK'
  BY <1>1, <1>2, <1>4 DEF Core, TypeOK, Awaits
<1>6. TablesAgree' /\ CurrentIsNewest' /\ OneLiveAttempt' /\ RetryFollowsPolicy'
  BY <1>1, <1>2, SettleLemma DEF Core, TablesAgree
<1>7. Untouched' /\ OpenBaseIsLive' /\ LandedFlags'
  <2>1. Untouched' /\ OpenBaseIsLive'
    <3>1. todo' = {}
      BY <1>1
    <3>2. \A b \in Bases : ~bases'[b].done => bases'[b].current \in DOMAIN attempts \ DOMAIN failures
      BY <1>2, <1>3
    <3> QED
      BY <1>1, <3>1, <3>2 DEF Untouched, OpenBaseIsLive
  <2>2. \A b \in Bases : AttemptsOf(b)' = AttemptsOf(b)
    BY <1>1 DEF AttemptsOf
  <2>3. LandedFlags'
    BY <1>1, <1>2, <2>2 DEF Core, LandedFlags
  <2> QED
    BY <2>1, <2>3
<1>8. DoneHasOutcome'
  <2>1. \A b \in Bases : HasOutcome(b) => HasOutcome(b)'
    BY <1>1, <1>2 DEF HasOutcome, AttemptsOf
  <2>2. \A b \in Bases : bases[b].landed => HasOutcome(b)
    BY <1>1 DEF Core, LandedFlags, HasOutcome
  <2> QED
    BY <1>1, <1>2, <2>1, <2>2 DEF Core, DoneHasOutcome
<1>9. WorkIsOpen'
  <2>1. \A k \in work' : attempts[k].base \in Bases
    BY <1>1, <1>4 DEF Core, TypeOK, Attempt
  <2> QED
    <3>1. \A k \in work' : ~bases'[attempts[k].base].landed
      BY <1>2, <1>4, <2>1
    <3>2. attempts' = attempts /\ (pc' = "over" => work' = {})
      BY <1>1
    <3> QED
      BY <1>1, <1>4, <3>1, <3>2 DEF WorkIsOpen
<1> QED
  BY <1>1, <1>5, <1>6, <1>7, <1>8, <1>9 DEF IInv, Core, LaunchComesFirst

(* Counting the landings and closing the finalized bases.                  *)
LEMMA ReconcileStep ==
    ASSUME IInv, Reconcile
    PROVE  IInv'
<1>1. /\ Core /\ todo = {} /\ NewlyLanded \subseteq DOMAIN attempts
      /\ landed' = landed \cup NewlyLanded
      /\ bases' = AfterLandings(NewlyLanded)
      /\ work' = Expired(bases') /\ work' \subseteq DOMAIN attempts
      /\ pc' \in {"top", "giveUp"}
      /\ UNCHANGED <<todo, pending, attempts, failures, refused, latestSlot, timeUp>>
  BY DEF Reconcile, NewlyLanded, Expired, IInv, LaunchComesFirst
<1>2. /\ bases' \in [Bases -> BaseState]
      /\ \A b \in Bases :
            /\ bases'[b].current = bases[b].current
            /\ bases'[b].landed <=> (bases[b].landed \/ \E id \in NewlyLanded : attempts[id].base = b)
            /\ bases'[b].done <=> (bases[b].done \/ /\ bases[b].current \in DOMAIN pending
                                                    /\ IsSuccess(pending[bases[b].current].stage))
  <2>1. bases \in [Bases -> BaseState]
    BY <1>1 DEF Core, TypeOK
  <2>2. \A id \in DOMAIN pending : IsSuccess(pending[id].stage) \in BOOLEAN
    BY DEF IsSuccess
  <2> QED
    <3>1. bases' = AfterLandings(NewlyLanded)
      BY <1>1
    <3>2. ASSUME NEW b \in Bases
          PROVE  /\ bases'[b].current = bases[b].current
                 /\ bases'[b].landed <=>
                       (bases[b].landed \/ \E id \in NewlyLanded : attempts[id].base = b)
                 /\ bases'[b].done <=>
                       (bases[b].done \/ /\ bases[b].current \in DOMAIN pending
                                         /\ IsSuccess(pending[bases[b].current].stage))
                 /\ bases'[b] \in BaseState
      <4>1. bases[b] \in BaseState
        BY <2>1
      <4>2. bases'[b] = [bases[b] EXCEPT
                 !.landed = bases[b].landed \/ \E id \in NewlyLanded : attempts[id].base = b,
                 !.done   = bases[b].done \/ /\ bases[b].current \in DOMAIN pending
                                             /\ IsSuccess(pending[bases[b].current].stage)]
        BY <3>1 DEF AfterLandings
      <4> QED
        BY <4>1, <4>2, <2>2 DEF BaseState
    <3>3. DOMAIN bases' = Bases /\ bases' = [b \in Bases |-> bases'[b]]
      BY <3>1 DEF AfterLandings
    <3> QED
      BY <3>2, <3>3
<1>3. summary' \in [total : Nat, landed : Nat, failed : Nat]
  <2>1. Cardinality(NewlyLanded) \in Nat
    BY <1>1, FS_Subset, FS_CardinalityType DEF Core, TablesAgree
  <2> QED
    BY <2>1, <1>1 DEF Reconcile, Core, TypeOK
<1>4. TypeOK'
  BY <1>1, <1>2, <1>3 DEF Core, TypeOK, Awaits
<1>5. TablesAgree' /\ CurrentIsNewest' /\ OneLiveAttempt' /\ RetryFollowsPolicy'
  BY <1>1, <1>2, SettleLemma DEF Core, TablesAgree
<1>6. Untouched'
  BY <1>1 DEF Untouched
<1>7. OpenBaseIsLive'
  BY <1>1, <1>2 DEF Core, OpenBaseIsLive
<1>8. LandedFlags'
  BY <1>1, <1>2 DEF Core, LandedFlags, AttemptsOf
<1>9. DoneHasOutcome'
  <2> SUFFICES ASSUME NEW b \in Bases, bases'[b].done
               PROVE  HasOutcome(b)'
    BY DEF DoneHasOutcome
  <2>1. CASE bases[b].done
    BY <2>1, <1>1, <1>2 DEF Core, DoneHasOutcome, HasOutcome, AttemptsOf
  <2>2. CASE ~bases[b].done
    <3> DEFINE c == bases[b].current
    <3>1. c \in DOMAIN attempts /\ attempts[c].base = b /\ IsSuccess(pending[c].stage)
          /\ c \in DOMAIN pending
      BY <2>2, <1>1, <1>2, SagaAssumption DEF Core, TypeOK, TablesAgree, CurrentIsNewest
    <3>2. c \in landed'
      BY <3>1, <1>1 DEF NewlyLanded, IsSuccess, ReachedConfirmed
    <3> QED
      BY <3>1, <3>2, <1>1 DEF HasOutcome, AttemptsOf
  <2> QED
    BY <2>1, <2>2
<1>10. WorkIsOpen'
  <2>1. \A k \in work' : ~bases'[attempts[k].base].landed
    BY <1>1, <1>2, SagaAssumption DEF Expired, Core, TypeOK, CurrentIsNewest
  <2> QED
    BY <2>1, <1>1 DEF WorkIsOpen
<1> QED
  BY <1>1, <1>4, <1>5, <1>6, <1>7, <1>8, <1>9, <1>10 DEF IInv, Core, LaunchComesFirst

(* ... and every step keeps it.                                            *)
LEMMA StepIInv == IInv /\ [Next]_vars => IInv'
<1> SUFFICES ASSUME IInv, [Next]_vars PROVE IInv'
  OBVIOUS
<1>1. ASSUME NEW b \in Bases, LaunchFirst(b) PROVE IInv'
  BY <1>1, LaunchFirstStep
<1>2. CASE Wait \/ RecvOther \/ DeadlinePasses \/ UNCHANGED vars
  <2>1. /\ Core /\ pc' \in Awaits /\ work' = work /\ work' \subseteq Ids /\ timeUp' \in BOOLEAN
        /\ UNCHANGED <<todo, table, ledger, latestSlot>>
        /\ \/ pc' = pc
           \/ pc \in {"top", "recv"} /\ pc' \in {"top", "recv"}
    BY <1>2 DEF Wait, RecvOther, DeadlinePasses, vars, table, ledger, IInv, Core, TypeOK,
       Awaits
  <2>2. Core'
    BY <2>1, CoreUnchanged
  <2>3. (LaunchComesFirst /\ WorkIsOpen)'
    BY <2>1 DEF table, ledger, IInv, LaunchComesFirst, WorkIsOpen
  <2> QED
    BY <2>2, <2>3 DEF IInv
<1>3. CASE Reconcile
  BY <1>3, ReconcileStep
<1>4. ASSUME NEW id \in Ids, TxFailed(id) \/ GiveUp(id) \/ Sweep(id) PROVE IInv'
  BY <1>4, TxFailedStep, GiveUpStep, SweepStep
<1>5. CASE LeaveAtTop \/ RecvTimeout \/ StreamClosed
  BY <1>5, BeginSweepStep DEF LeaveAtTop, RecvTimeout, StreamClosed
<1>6. ASSUME NEW id \in Ids, NEW slot \in Slots, NEW txFailed \in BOOLEAN,
             RecvTx(id, slot, txFailed)
      PROVE  IInv'
  BY <1>6, RecvTxStep
<1>7. ASSUME NEW slot \in Slots, NEW status \in SlotStatus, RecvSlot(slot, status)
      PROVE  IInv'
  BY <1>7, RecvSlotStep
<1> QED
  BY <1>1, <1>2, <1>3, <1>4, <1>5, <1>6, <1>7 DEF Next, Step, Message, Over

(* IInv holds in every state of the saga.                                  *)
THEOREM SagaInductive == Spec => []IInv
  BY InitIInv, StepIInv, PTL DEF Spec

-------------------------------------------------------------------------------
(* What the saga guarantees, for any number of bases, attempts and slots.  *)

(* Every state is well typed.                                              *)
THEOREM SagaTypeCorrect == Spec => []TypeOK
  BY SagaInductive, PTL DEF IInv, Core

(* A base never has two attempts in flight.                                *)
THEOREM SagaOneLiveAttempt == Spec => []OneLiveAttempt
  BY SagaInductive, PTL DEF IInv, Core

(* No resubmission outside the retry policy, whatever the agent answers.   *)
THEOREM SagaRetryFollowsPolicy == Spec => []RetryFollowsPolicy
  BY SagaInductive, PTL DEF IInv, Core

(* An open base always has a live current attempt.                         *)
THEOREM SagaOpenBaseIsLive == Spec => []OpenBaseIsLive
  BY SagaInductive, PTL DEF IInv, Core

(* When the run is over every base is done with an outcome on record.      *)
THEOREM SagaSettledAtEnd == Spec => []SettledAtEnd
<1>1. IInv => SettledAtEnd
  BY DEF IInv, Core, WorkIsOpen, DoneHasOutcome, HasOutcome, SettledAtEnd
<1> QED
  BY <1>1, SagaInductive, PTL

-------------------------------------------------------------------------------
(* What one call of fail_and_retry or of launch may change: at most one id *)
(* joins the failures, and only an open base gets a new current attempt.   *)
LEMMA FailAndRetryFrame ==
    ASSUME Core, NEW id, FailAndRetry(id)
    PROVE  /\ DOMAIN failures' \subseteq DOMAIN failures \cup {id}
           /\ \A b \in Bases :
                 /\ bases[b].done => bases'[b].done /\ bases'[b].current = bases[b].current
                 /\ bases'[b].landed = bases[b].landed
<1>1. CASE Ignored
  BY <1>1 DEF Ignored
<1>2. CASE CanFail(id) /\ FailAndRetry(id) /\ ~Ignored
  <2> DEFINE b == attempts[id].base
  <2>1. DOMAIN failures' = DOMAIN failures \cup {id}
    <3>1. PICK class : failures' = Insert(failures, id, class)
      BY <1>2 DEF FailAndRetry
    <3> QED
      BY <3>1, InsertLemma
  <2>2. ~bases[b].done /\ bases \in [Bases -> BaseState]
    BY <1>2 DEF CanFail, Core, TypeOK
  <2>3. \/ bases' = [bases EXCEPT ![b].done = TRUE]
        \/ \E c : bases' = [bases EXCEPT ![b].current = c]
    BY <1>2 DEF FailAndRetry, Abandoned, Refused, Accepted
  <2> HIDE DEF b
  <2> QED
    BY <2>1, <2>2, <2>3 DEF BaseState
<1> QED
  BY <1>1, <1>2 DEF FailAndRetry

LEMMA DoneIsFinalStep ==
    ASSUME IInv, [Next]_vars
    PROVE  \A b \in Bases :
              /\ bases[b].done => bases'[b].done /\ bases'[b].current = bases[b].current
              /\ bases[b].landed => bases'[b].landed
<1> DEFINE Final == \A b \in Bases :
              /\ bases[b].done => bases'[b].done /\ bases'[b].current = bases[b].current
              /\ bases[b].landed => bases'[b].landed
<1>1. bases \in [Bases -> BaseState] /\ Core
  BY DEF IInv, Core, TypeOK
<1>2. ASSUME NEW b \in Bases, LaunchFirst(b) PROVE Final
  <2>1. ~bases[b].done
    BY <1>2 DEF LaunchFirst, IInv, Core, Untouched
  <2>2. \/ bases' = [bases EXCEPT ![b].done = TRUE]
        \/ \E c : bases' = [bases EXCEPT ![b].current = c]
    BY <1>2 DEF LaunchFirst, Refused, Accepted
  <2> QED
    BY <1>1, <2>1, <2>2 DEF BaseState
<1>3. ASSUME NEW id \in Ids, TxFailed(id) \/ GiveUp(id) PROVE Final
  BY <1>1, <1>3, FailAndRetryFrame DEF TxFailed, GiveUp
<1>4. ASSUME NEW id \in Ids, Sweep(id) PROVE Final
  <2>1. CASE Ignored
    BY <2>1 DEF Ignored
  <2>2. CASE CanFail(id) /\ Abandoned(attempts[id].base)
    BY <1>1, <2>2 DEF Abandoned, BaseState
  <2> QED
    BY <1>4, <2>1, <2>2 DEF Sweep, FailAndClose
<1>5. CASE Reconcile
  BY <1>1, <1>5 DEF Reconcile, AfterLandings, BaseState
<1>6. CASE BeginSweep
  BY <1>1, <1>6 DEF BeginSweep, Swept, BaseState
<1>7. CASE UNCHANGED bases
  BY <1>7
<1> QED
  BY <1>2, <1>3, <1>4, <1>5, <1>6, <1>7 DEF Next, Step, Message, Wait, LeaveAtTop, RecvTimeout,
     StreamClosed, RecvTx, RecvSlot, RecvOther, DeadlinePasses, Over, vars, table

(* A settled base stays settled, keeps its attempt and its landing.        *)
THEOREM SagaDoneIsFinal == Spec => DoneIsFinal
  BY DoneIsFinalStep, SagaInductive, PTL DEF Spec, DoneIsFinal

LEMMA LandedNeverGivenUpStep ==
    ASSUME IInv, [Next]_vars
    PROVE  \A id \in DOMAIN failures' \ DOMAIN failures :
              pc \in {"giveUp", "sweep"} => ~bases[attempts[id].base].landed
<1> SUFFICES ASSUME pc \in {"giveUp", "sweep"}, NEW id \in DOMAIN failures' \ DOMAIN failures
             PROVE  ~bases[attempts[id].base].landed
  OBVIOUS
<1>1. ASSUME NEW k \in Ids, GiveUp(k) PROVE k \in work /\ id = k
  BY <1>1, FailAndRetryFrame DEF GiveUp, IInv
<1>2. ASSUME NEW k \in Ids, Sweep(k) PROVE k \in work /\ id = k
  BY <1>2 DEF Sweep, FailAndClose, Ignored, Insert
<1>3. CASE DeadlinePasses \/ UNCHANGED vars
  BY <1>3 DEF DeadlinePasses, vars, ledger
<1>4. \/ \E k \in Ids : GiveUp(k) \/ Sweep(k)
      \/ DeadlinePasses \/ UNCHANGED vars
  BY DEF Next, Step, Message, LaunchFirst, Wait, RecvTx, TxFailed, RecvSlot,
     RecvOther, Reconcile, LeaveAtTop, RecvTimeout, StreamClosed, Over
<1> QED
  BY <1>1, <1>2, <1>3, <1>4 DEF IInv, WorkIsOpen

(* Neither the give-up slot nor the sweep fails an attempt of a base that  *)
(* landed.                                                                 *)
THEOREM SagaLandedNeverGivenUp == Spec => LandedNeverGivenUp
  BY LandedNeverGivenUpStep, SagaInductive, PTL DEF Spec, LandedNeverGivenUp

LEMMA NoSubmissionStep ==
    ASSUME [Next]_vars, pc \in {"sweep", "over"}
    PROVE  UNCHANGED <<attempts, pending>>
<1>1. ASSUME NEW id \in Ids, Sweep(id) PROVE UNCHANGED <<attempts, pending>>
  BY <1>1 DEF Sweep, FailAndClose, Ignored, Abandoned
<1>2. CASE DeadlinePasses \/ UNCHANGED vars
  BY <1>2 DEF DeadlinePasses, vars, table
<1> QED
  BY <1>1, <1>2 DEF Next, Step, Message, LaunchFirst, Wait, RecvTx, TxFailed, GiveUp, RecvSlot,
     RecvOther, Reconcile, LeaveAtTop, RecvTimeout, StreamClosed, Over

(* Once the sweep has begun nothing is submitted any more.                 *)
THEOREM SagaNoSubmissionAfterRun == Spec => NoSubmissionAfterRun
  BY NoSubmissionStep, PTL DEF Spec, NoSubmissionAfterRun

-------------------------------------------------------------------------------
(* The counts.                                                             *)
LEMMA FiniteLemma ==
    ASSUME Core
    PROVE  /\ IsFiniteSet(DOMAIN attempts) /\ Cardinality(DOMAIN attempts) \in Nat
           /\ IsFiniteSet(DOMAIN failures) /\ Cardinality(DOMAIN failures) \in Nat
           /\ IsFiniteSet(landed) /\ Cardinality(landed) \in Nat
           /\ IsFiniteSet(NewlyLanded) /\ Cardinality(NewlyLanded) \in Nat
<1>1. /\ IsFiniteSet(DOMAIN attempts) /\ DOMAIN failures \subseteq DOMAIN attempts
      /\ landed \subseteq DOMAIN attempts /\ NewlyLanded \subseteq DOMAIN attempts
  BY DEF Core, TablesAgree, NewlyLanded
<1> QED
  BY <1>1, FS_Subset, FS_CardinalityType

(* An accepted or refused submission is counted once.                      *)
LEMMA LaunchCount ==
    ASSUME Core, Accounting, NEW b \in Bases, NEW n \in 1..MaxAttempts,
           ~bases[b].done, \A k \in AttemptsOf(b) : attempts[k].no < n
    PROVE  /\ \A refresh \in BOOLEAN, d \in Deadlines : Accepted(b, n, refresh, d) =>
                 /\ Cardinality(DOMAIN attempts') = Cardinality(DOMAIN attempts) + 1
                 /\ refused' = refused
           /\ Refused(b) =>
                 /\ UNCHANGED attempts /\ IsFiniteSet(refused')
                 /\ Cardinality(refused') = Cardinality(refused) + 1
<1>1. ASSUME NEW refresh \in BOOLEAN, NEW d \in Deadlines, Accepted(b, n, refresh, d)
      PROVE  /\ Cardinality(DOMAIN attempts') = Cardinality(DOMAIN attempts) + 1
             /\ refused' = refused
  <2>1. DOMAIN attempts' = DOMAIN attempts \cup {TxId[b][n]} /\ refused' = refused
    BY <1>1 DEF Accepted, Insert
  <2>2. TxId[b][n] \notin DOMAIN attempts
    BY FreshLemma
  <2> QED
    BY <2>1, <2>2, FiniteLemma, FS_AddElement
<1>2. ASSUME Refused(b)
      PROVE  /\ UNCHANGED attempts /\ IsFiniteSet(refused')
             /\ Cardinality(refused') = Cardinality(refused) + 1
  <2>1. refused' = refused \cup {b} /\ UNCHANGED attempts /\ b \notin refused
    BY <1>2 DEF Refused, Accounting
  <2> QED
    BY <2>1, FS_AddElement DEF Accounting
<1> QED
  BY <1>1, <1>2

(* A failure is counted once.                                              *)
LEMMA FailureCount ==
    ASSUME Core, NEW id, NEW class, id \notin DOMAIN failures,
           failures' = Insert(failures, id, class)
    PROVE  Cardinality(DOMAIN failures') = Cardinality(DOMAIN failures) + 1
<1>1. DOMAIN failures' = DOMAIN failures \cup {id}
  BY DEF Insert
<1> QED
  BY <1>1, FiniteLemma, FS_AddElement

LEMMA FailAndRetryCount ==
    ASSUME Core, Accounting, NEW id, FailAndRetry(id)
    PROVE  CountsAgree' /\ IsFiniteSet(refused')
<1>1. CASE Ignored
  BY <1>1 DEF Ignored, Accounting, CountsAgree
<1>2. ASSUME CanFail(id), landed' = landed,
             NEW class \in Classes, NEW ai \in BOOLEAN,
             failures' = Insert(failures, id, class),
             LET b    == attempts[id].base
                 n    == attempts[id].no
                 plan == ResolveRetry(class, n, MaxAttempts, ai)
             IN  \/ ~plan.retry /\ Abandoned(b) /\ Count(0, 1)
                 \/ /\ plan.retry
                    /\ \E d \in Deadlines : Accepted(b, n + 1, plan.refresh, d)
                    /\ Count(1, 1)
                 \/ plan.retry /\ Refused(b) /\ Count(0, 2)
      PROVE  CountsAgree' /\ IsFiniteSet(refused')
  <2> DEFINE b == attempts[id].base
             n == attempts[id].no
             plan == ResolveRetry(class, n, MaxAttempts, ai)
  <2>1. /\ b \in Bases /\ n \in 1..MaxAttempts /\ ~bases[b].done
        /\ id \notin DOMAIN failures
    BY <1>2, CanFailLemma DEF CanFail, Attempt
  <2>2. Cardinality(DOMAIN failures') = Cardinality(DOMAIN failures) + 1
    BY <1>2, <2>1, FailureCount
  <2>3. /\ summary \in [total : Nat, landed : Nat, failed : Nat]
        /\ IsFiniteSet(refused) /\ Cardinality(refused) \in Nat
        /\ summary.total = Cardinality(DOMAIN attempts)
        /\ summary.landed = Cardinality(landed)
        /\ summary.failed = Cardinality(DOMAIN failures) + Cardinality(refused)
        /\ Cardinality(DOMAIN attempts) \in Nat /\ Cardinality(DOMAIN failures) \in Nat
    BY FiniteLemma, FS_CardinalityType DEF Core, TypeOK, Accounting, CountsAgree
  <2>4. CASE Abandoned(b) /\ Count(0, 1)
    BY <1>2, <2>2, <2>3, <2>4 DEF Abandoned, Count, CountsAgree
  <2>5. plan.retry => n + 1 \in 1..MaxAttempts /\ \A k \in AttemptsOf(b) : attempts[k].no < n + 1
    <3>1. \A k \in AttemptsOf(b) : attempts[k].no <= n /\ attempts[k].no \in Nat
      BY <1>2, CanFailLemma, SagaAssumption DEF Core, TypeOK, Attempt, AttemptsOf
    <3>2. plan.retry => n < MaxAttempts
      BY <1>2, ResolveLemma
    <3> QED
      BY <3>1, <3>2, <2>1, SagaAssumption
  <2>6. CASE /\ plan.retry /\ Count(1, 1)
             /\ \E d \in Deadlines : Accepted(b, n + 1, plan.refresh, d)
    <3> DEFINE m == n + 1
    <3>1. PICK d \in Deadlines : Accepted(b, m, plan.refresh, d) /\ plan.refresh \in BOOLEAN
      BY <1>2, <2>6, ResolveLemma
    <3>2. m \in 1..MaxAttempts /\ \A k \in AttemptsOf(b) : attempts[k].no < m
      BY <2>5, <2>6
    <3>3. /\ Cardinality(DOMAIN attempts') = Cardinality(DOMAIN attempts) + 1
          /\ refused' = refused
      <4> HIDE DEF b, m, plan
      <4> QED
        BY <3>1, <3>2, <2>1, LaunchCount
    <3> QED
      BY <1>2, <2>2, <2>3, <2>6, <3>3 DEF Count, CountsAgree
  <2>7. CASE plan.retry /\ Refused(b) /\ Count(0, 2)
    <3> DEFINE m == n + 1
    <3>1. m \in 1..MaxAttempts /\ \A k \in AttemptsOf(b) : attempts[k].no < m
      BY <2>5, <2>7
    <3>2. /\ UNCHANGED attempts /\ IsFiniteSet(refused')
          /\ Cardinality(refused') = Cardinality(refused) + 1
      <4> HIDE DEF b, m
      <4> QED
        BY <3>1, <2>1, <2>7, LaunchCount
    <3> QED
      BY <1>2, <2>2, <2>3, <2>7, <3>2 DEF Count, CountsAgree
  <2> QED
    BY <1>2, <2>4, <2>6, <2>7
<1> QED
  BY <1>1, <1>2 DEF FailAndRetry

LEMMA AccountingInit == Init => Accounting
<1> SUFFICES ASSUME Init PROVE Accounting
  OBVIOUS
<1>1. DOMAIN attempts = {} /\ DOMAIN failures = {} /\ landed = {} /\ refused = {}
  BY DEF Init
<1>2. summary = [total |-> 0, landed |-> 0, failed |-> 0]
  BY DEF Init
<1> QED
  BY <1>1, <1>2, FS_EmptySet DEF Accounting, CountsAgree

LEMMA AccountingStep ==
    ASSUME IInv, Accounting, [Next]_vars
    PROVE  Accounting'
<1> USE DEF IInv
<1>1. /\ summary \in [total : Nat, landed : Nat, failed : Nat]
      /\ IsFiniteSet(refused) /\ Cardinality(refused) \in Nat
      /\ summary.total = Cardinality(DOMAIN attempts)
      /\ summary.landed = Cardinality(landed)
      /\ summary.failed = Cardinality(DOMAIN failures) + Cardinality(refused)
      /\ Cardinality(DOMAIN attempts) \in Nat /\ Cardinality(DOMAIN failures) \in Nat
      /\ Cardinality(landed) \in Nat /\ Cardinality(NewlyLanded) \in Nat
  BY FiniteLemma, FS_CardinalityType DEF Core, TypeOK, Accounting, CountsAgree
<1>2. ASSUME UNCHANGED <<attempts, failures, landed, refused, summary>>
      PROVE  CountsAgree' /\ IsFiniteSet(refused')
  BY <1>2, <1>1 DEF CountsAgree
<1>3. ASSUME NEW b \in Bases, LaunchFirst(b) PROVE CountsAgree' /\ IsFiniteSet(refused')
  <2>1. ~bases[b].done /\ 1 \in 1..MaxAttempts /\ \A k \in AttemptsOf(b) : attempts[k].no < 1
    BY <1>3, SagaAssumption DEF LaunchFirst, Core, Untouched, CurrentIsNewest, AttemptsOf
  <2>2. UNCHANGED <<landed, failures>>
    BY <1>3 DEF LaunchFirst
  <2>3. ASSUME NEW d \in Deadlines, Accepted(b, 1, FALSE, d), Count(1, 0)
        PROVE  CountsAgree' /\ IsFiniteSet(refused')
    <3>1. /\ Cardinality(DOMAIN attempts') = Cardinality(DOMAIN attempts) + 1
          /\ refused' = refused
      BY <2>1, <2>3, LaunchCount
    <3> QED
      BY <1>1, <2>2, <2>3, <3>1 DEF Count, CountsAgree
  <2>4. CASE Refused(b) /\ Count(0, 1)
    <3>1. /\ UNCHANGED attempts /\ IsFiniteSet(refused')
          /\ Cardinality(refused') = Cardinality(refused) + 1
      BY <2>1, <2>4, LaunchCount
    <3> QED
      BY <1>1, <2>2, <2>4, <3>1 DEF Count, CountsAgree
  <2> QED
    BY <1>3, <2>3, <2>4 DEF LaunchFirst
<1>4. ASSUME NEW id \in Ids, TxFailed(id) \/ GiveUp(id)
      PROVE  CountsAgree' /\ IsFiniteSet(refused')
  BY <1>4, FailAndRetryCount DEF TxFailed, GiveUp
<1>5. ASSUME NEW id \in Ids, Sweep(id) PROVE CountsAgree' /\ IsFiniteSet(refused')
  <2>1. CASE Ignored
    BY <2>1, <1>1 DEF Ignored, CountsAgree
  <2>2. ASSUME CanFail(id), NEW class \in Classes, failures' = Insert(failures, id, class),
               Abandoned(attempts[id].base), landed' = landed, Count(0, 1)
        PROVE  CountsAgree' /\ IsFiniteSet(refused')
    <3>1. Cardinality(DOMAIN failures') = Cardinality(DOMAIN failures) + 1
      BY <2>2, FailureCount DEF CanFail
    <3> QED
      BY <1>1, <2>2, <3>1 DEF Abandoned, Count, CountsAgree
  <2> QED
    BY <1>5, <2>1, <2>2 DEF Sweep, FailAndClose
<1>6. ASSUME Reconcile PROVE CountsAgree' /\ IsFiniteSet(refused')
  <2>1. landed \cap NewlyLanded = {} /\ Cardinality({}) = 0
    BY FS_EmptySet DEF NewlyLanded
  <2>2. Cardinality(landed \cup NewlyLanded)
           = Cardinality(landed) + Cardinality(NewlyLanded) - Cardinality(landed \cap NewlyLanded)
    BY FiniteLemma, FS_Union
  <2>3. Cardinality(landed \cup NewlyLanded) = Cardinality(landed) + Cardinality(NewlyLanded)
    BY <1>1, <2>1, <2>2
  <2> QED
    BY <1>1, <1>6, <2>3 DEF Reconcile, CountsAgree
<1>7. CountsAgree' /\ IsFiniteSet(refused')
  BY <1>2, <1>3, <1>4, <1>5, <1>6 DEF Next, Step, Message, Wait, LeaveAtTop, RecvTimeout,
     StreamClosed, BeginSweep, RecvTx, RecvSlot, RecvOther, DeadlinePasses, Over, vars,
     table, ledger
<1>8. \A b \in refused' : b \in refused \/ bases'[b].done
  <2>1. bases \in [Bases -> BaseState]
    BY DEF Core, TypeOK
  <2>2. ASSUME NEW b \in Bases, Refused(b)
        PROVE  \A c \in refused' : c \in refused \/ bases'[c].done
    BY <2>1, <2>2 DEF Refused, BaseState
  <2>3. ASSUME NEW id \in Ids, FailAndRetry(id)
        PROVE  \A c \in refused' : c \in refused \/ bases'[c].done
    <3>1. CanFail(id) => attempts[id].base \in Bases
      BY CurrentLemma DEF CanFail
    <3> QED
      BY <2>2, <2>3, <3>1 DEF FailAndRetry, Ignored, Abandoned, Accepted
  <2>4. CASE UNCHANGED refused
    BY <2>4
  <2> QED
    BY <2>2, <2>3, <2>4 DEF Next, Step, Message, LaunchFirst, Accepted, TxFailed, GiveUp,
       Sweep, FailAndClose, Ignored, Abandoned, Wait, LeaveAtTop, RecvTimeout, StreamClosed,
       BeginSweep, RecvTx, RecvSlot, RecvOther, Reconcile, DeadlinePasses, Over, vars, table
<1>9. \A b \in refused : bases'[b].done
  BY DoneIsFinalStep DEF Accounting, Core, TypeOK
<1> QED
  BY <1>7, <1>8, <1>9 DEF Accounting

(* The counts returned agree with the attempts, landings and failures on   *)
(* record.                                                                 *)
THEOREM SagaCountsAgree == Spec => []CountsAgree
<1>1. Spec => []Accounting
  BY AccountingInit, AccountingStep, SagaInductive, PTL DEF Spec
<1> QED
  BY <1>1, PTL DEF Accounting

-------------------------------------------------------------------------------
(* The lifecycles.                                                         *)

(* What a step may do to the lifecycles: move tracked ones legally and     *)
(* start new ones; on a confirmed stream no landing is lost.               *)
Legal(before, after) ==
    /\ DOMAIN before \subseteq DOMAIN after
    /\ \A id \in DOMAIN before :
          /\ \/ after[id].stage = before[id].stage
             \/ CanTransitionTo(before[id].stage, after[id].stage)
          /\ ConfirmedStream /\ ReachedConfirmed(before[id].stage)
                => ReachedConfirmed(after[id].stage)
    /\ \A id \in DOMAIN after \ DOMAIN before : after[id].stage = "submitted"

LEMMA TrackLegal ==
    ASSUME Core, NEW id, id \notin DOMAIN attempts
    PROVE  Legal(pending, Track(pending, id))
  BY DEF Core, TablesAgree, Legal, Track, Insert, NewBundle

(* A failed transaction or a dead slot cannot reach a bundle that was      *)
(* already reported processed on a confirmed stream.                       *)
LEMMA TxLegal ==
    ASSUME Core, NEW id \in DOMAIN pending, NEW slot \in Slots, NEW txFailed \in BOOLEAN,
           TxReportPossible(id, txFailed)
    PROVE  Legal(pending, OnTxStatus(pending, id, slot, txFailed))
<1> DEFINE after == OnTxStatus(pending, id, slot, txFailed)
           to == IF txFailed THEN "failed" ELSE "processed"
<1>1. /\ pending \in [DOMAIN pending -> [stage : Stage, slot : Slots \cup {NoSlot}]]
      /\ DOMAIN after = DOMAIN pending
      /\ \A k \in DOMAIN pending : k # id => after[k] = pending[k]
      /\ after[id] = TxStatus(pending[id], slot, txFailed)
  BY DEF Core, TypeOK, OnTxStatus
<1>2. /\ Advance(pending[id], to).stage = IF CanTransitionTo(pending[id].stage, to)
                                          THEN to ELSE pending[id].stage
      /\ TxStatus(pending[id], slot, txFailed).stage = Advance(pending[id], to).stage
  BY <1>1 DEF Advance, TxStatus
<1>3. ConfirmedStream /\ ReachedConfirmed(pending[id].stage) => after[id].stage = pending[id].stage
  BY <1>1, <1>2, SagaAssumption DEF TxReportPossible, ReachedConfirmed, CanTransitionTo
<1> QED
  BY <1>1, <1>2, <1>3 DEF Legal

LEMMA SlotLegal ==
    ASSUME Core, NEW slot \in Slots, NEW status \in SlotStatus,
           SlotReportPossible(slot, status)
    PROVE  Legal(pending, OnSlotStatus(pending, slot, status))
<1> DEFINE after == OnSlotStatus(pending, slot, status)
<1>1. /\ pending \in [DOMAIN pending -> [stage : Stage, slot : Slots \cup {NoSlot}]]
      /\ DOMAIN after = DOMAIN pending
  BY DEF Core, TypeOK, OnSlotStatus
<1>2. ASSUME NEW id \in DOMAIN pending
      PROVE  /\ \/ after[id].stage = pending[id].stage
                \/ CanTransitionTo(pending[id].stage, after[id].stage)
             /\ ConfirmedStream /\ ReachedConfirmed(pending[id].stage)
                   => ReachedConfirmed(after[id].stage)
  <2> DEFINE to == SlotStatusToStage(status)
  <2>1. CASE ImpliesStage(status) /\ pending[id].slot = slot /\ ~IsTerminal(pending[id].stage)
    <3>1. after[id] = Advance(pending[id], to)
      BY <2>1 DEF OnSlotStatus
    <3>2. after[id].stage = IF CanTransitionTo(pending[id].stage, to)
                            THEN to ELSE pending[id].stage
      BY <3>1, <1>1 DEF Advance
    <3>3. ConfirmedStream => to \in {"processed", "confirmed", "finalized"}
      BY <2>1 DEF SlotReportPossible, ImpliesStage, SlotStatusToStage
    <3> HIDE DEF to, after
    <3> QED
      BY <3>2, <3>3 DEF ReachedConfirmed, CanTransitionTo
  <2>2. CASE ~(ImpliesStage(status) /\ pending[id].slot = slot /\ ~IsTerminal(pending[id].stage))
    BY <2>2 DEF OnSlotStatus
  <2> QED
    BY <2>1, <2>2
<1> QED
  BY <1>1, <1>2 DEF Legal

LEMMA FailAndRetryLegal ==
    ASSUME Core, NEW id, FailAndRetry(id)
    PROVE  Legal(pending, pending')
<1>1. CASE UNCHANGED pending
  BY <1>1 DEF Legal
<1>2. ASSUME CanFail(id), NEW class \in Classes, NEW ai \in BOOLEAN,
             ResolveRetry(class, attempts[id].no, MaxAttempts, ai).retry,
             NEW refresh, NEW d \in Deadlines,
             Accepted(attempts[id].base, attempts[id].no + 1, refresh, d)
      PROVE  Legal(pending, pending')
  <2> DEFINE b == attempts[id].base
             m == attempts[id].no + 1
  <2>1. /\ b \in Bases /\ m \in 1..MaxAttempts
        /\ \A k \in AttemptsOf(b) : attempts[k].no < m
    <3>1. \A k \in AttemptsOf(b) : attempts[k].no <= attempts[id].no /\ attempts[k].no \in Nat
      BY <1>2, CanFailLemma, SagaAssumption DEF Core, TypeOK, Attempt, AttemptsOf
    <3>2. attempts[id].no < MaxAttempts /\ attempts[id].no \in 1..MaxAttempts /\ b \in Bases
      BY <1>2, ResolveLemma, CanFailLemma DEF Attempt
    <3> QED
      BY <3>1, <3>2, SagaAssumption
  <2>2. pending' = Track(pending, TxId[b][m])
    BY <1>2 DEF Accepted
  <2> HIDE DEF b, m
  <2> QED
    BY <2>1, <2>2, FreshLemma, TrackLegal
<1> QED
  BY <1>1, <1>2 DEF FailAndRetry, Ignored, Abandoned, Refused

LEMMA LegalStep ==
    ASSUME IInv, [Next]_vars
    PROVE  Legal(pending, pending')
<1> USE DEF IInv
<1>1. CASE UNCHANGED pending
  BY <1>1 DEF Legal
<1>2. ASSUME NEW b \in Bases, LaunchFirst(b) PROVE Legal(pending, pending')
  <2>1. TxId[b][1] \notin DOMAIN attempts
    BY <1>2, FreshLemma, SagaAssumption DEF LaunchFirst, Core, Untouched, CurrentIsNewest,
       AttemptsOf
  <2>2. pending' = Track(pending, TxId[b][1]) \/ UNCHANGED pending
    BY <1>2 DEF LaunchFirst, Accepted, Refused
  <2> QED
    BY <2>1, <2>2, TrackLegal, <1>1
<1>3. ASSUME NEW id \in Ids, TxFailed(id) \/ GiveUp(id) PROVE Legal(pending, pending')
  BY <1>3, FailAndRetryLegal DEF TxFailed, GiveUp
<1>4. ASSUME NEW id \in Ids, Sweep(id) PROVE UNCHANGED pending
  BY <1>4 DEF Sweep, FailAndClose, Ignored, Abandoned
<1>5. ASSUME NEW id \in Ids, NEW slot \in Slots, NEW txFailed \in BOOLEAN,
             RecvTx(id, slot, txFailed)
      PROVE  Legal(pending, pending')
  BY <1>5, <1>1, TxLegal DEF RecvTx
<1>6. ASSUME NEW slot \in Slots, NEW status \in SlotStatus, RecvSlot(slot, status)
      PROVE  Legal(pending, pending')
  BY <1>6, SlotLegal DEF RecvSlot
<1> QED
  BY <1>1, <1>2, <1>3, <1>4, <1>5, <1>6 DEF Next, Step, Message, Wait, LeaveAtTop,
     RecvTimeout, StreamClosed, BeginSweep, RecvOther, Reconcile, DeadlinePasses, Over, vars,
     table

(* On a confirmed stream a counted landing is never contradicted.          *)
THEOREM SagaLandingHolds == Spec => []LandingHolds
<1>1. Init => LandingHolds
  BY DEF Init, LandingHolds
<1>2. ASSUME IInv, LandingHolds, [Next]_vars PROVE LandingHolds'
  <2>1. \/ landed' = landed
        \/ landed' = landed \cup NewlyLanded /\ pending' = pending
    BY <1>2 DEF Next, Step, Message, LaunchFirst, Wait, LeaveAtTop,
       RecvTimeout, StreamClosed, BeginSweep, RecvTx, RecvSlot, RecvOther, Reconcile,
       TxFailed, GiveUp, Sweep, FailAndRetry, FailAndClose, Ignored, DeadlinePasses, Over,
       vars, ledger
  <2>2. landed \subseteq DOMAIN pending
    BY <1>2 DEF IInv, Core, TablesAgree
  <2>3. Legal(pending, pending')
    BY <1>2, LegalStep
  <2>4. \A id \in NewlyLanded : ReachedConfirmed(pending[id].stage)
    BY DEF NewlyLanded
  <2> QED
    BY <1>2, <2>1, <2>2, <2>3, <2>4 DEF LandingHolds, Legal
<1> QED
  BY <1>1, <1>2, SagaInductive, PTL DEF Spec

(* Every attempt's lifecycle follows CommitmentPath.                       *)
THEOREM SagaLifecyclesArePaths == Spec => LifecyclesArePaths
<1> DEFINE mapped == [id \in Ids |-> StageOf(id)]
<1>1. Init => Paths!Init
  BY DEF Init, Paths!Init, StageOf
<1>2. ASSUME IInv, [Next]_vars PROVE [Paths!Next]_mapped
  <2>1. Legal(pending, pending')
    BY <1>2, LegalStep
  <2>2. DOMAIN pending \subseteq Ids /\ DOMAIN pending' \subseteq Ids
    BY <1>2, StepIInv DEF IInv, Core, TypeOK
  <2>3. \A id \in Ids : StageOf(id)' \in Stage
    BY <1>2, StepIInv DEF IInv, Core, TypeOK, StageOf, Stage
  <2>4. \A id \in Ids : \/ StageOf(id)' = StageOf(id)
                        \/ CanTransitionTo(StageOf(id), StageOf(id)')
    BY <2>1 DEF Legal, StageOf
  <2> QED
    BY <2>3, <2>4 DEF Paths!Next, Paths!Stage, Paths!CanTransitionTo, Stage, CanTransitionTo
<1> QED
  BY <1>1, <1>2, SagaInductive, PTL DEF Spec, LifecyclesArePaths, Paths!Spec

-------------------------------------------------------------------------------
(* The record of the run and its live view: what is read off the telemetry *)
(* is what happened to the attempts.                                       *)

(* The invariants of the log.                                              *)
LogRow == [stage : Stage, slot : Slots \cup {NoSlot}, early : BOOLEAN]
Event  == [id : Ids, base : Bases, attempt : 1..MaxAttempts]

(* Every attempt has its rows, the last of which tells its stage.          *)
RowsInv ==
    /\ rows \in [DOMAIN attempts -> Seq(LogRow)]
    /\ \A id \in DOMAIN attempts :
          /\ rows[id] # <<>>
          /\ Last(rows[id]).stage = pending[id].stage

(* Every attempt is announced once.                                        *)
BundlesInv ==
    /\ bundles \in Seq(Event)
    /\ \A p \in DOMAIN bundles :
          /\ bundles[p].id \in DOMAIN attempts
          /\ bundles[p].base = attempts[bundles[p].id].base
          /\ bundles[p].attempt = attempts[bundles[p].id].no
    /\ \A id \in DOMAIN attempts : \E p \in DOMAIN bundles : bundles[p].id = id
    /\ \A p, q \in DOMAIN bundles : bundles[p].id = bundles[q].id => p = q

(* The attempts of a base are numbered from one, without a hole.           *)
Numbered ==
    \A id \in DOMAIN attempts : \A k \in 1..attempts[id].no :
        TxId[attempts[id].base][k] \in DOMAIN attempts

(* The rows of a bundle seen in a block name no other block.               *)
SlotKnown(id) ==
    /\ pending[id].stage = "submitted" =>
          pending[id].slot = NoSlot /\ \A i \in DOMAIN rows[id] : rows[id][i].slot = NoSlot
    /\ pending[id].stage \in {"processed", "confirmed", "finalized"} =>
          /\ pending[id].slot \in Slots
          /\ \E i \in DOMAIN rows[id] : rows[id][i].slot # NoSlot
          /\ \A i \in DOMAIN rows[id] : rows[id][i].slot \in {NoSlot, pending[id].slot}

(* On a confirmed stream an entry is a landing when its lifecycle is.      *)
EntryInv ==
    ConfirmedStream => \A id \in DOMAIN attempts :
        /\ EntryLanded(id) <=> ReachedConfirmed(pending[id].stage)
        /\ SlotKnown(id)

(* Outside of a message every landing is counted, with its base; a base    *)
(* that was refused has no attempt under way; and an attempt that is given *)
(* up for its failed transaction has not landed.                           *)
OutcomeInv ==
    /\ pc \notin {"txFailed", "reconcile"} => NewlyLanded = {}
    /\ \A id \in landed : bases[attempts[id].base].landed
    /\ \A b \in refused : bases[b].current = NoId \/ bases[b].current \in DOMAIN failures
    /\ pc = "txFailed" /\ ConfirmedStream =>
          \A id \in work \cap DOMAIN pending : ~ReachedConfirmed(pending[id].stage)

LogInv == RowsInv /\ BundlesInv /\ Numbered /\ EntryInv /\ OutcomeInv

(* The invariants of the view.                                             *)
ViewRow == [id : Ids, stage : Stage, slot : Slots \cup {NoSlot},
            class : FailureClass \cup {"none"}]

(* The rows are of announced attempts, in the order of their announcements.*)
ViewInv ==
    /\ window \in Nat \ {0}
    /\ view \in Seq(ViewRow)
    /\ Len(view) <= window
    /\ heard \subseteq DOMAIN attempts
    /\ \A i \in DOMAIN view : view[i].id \in DOMAIN attempts
    /\ \A i \in DOMAIN view, p \in DOMAIN bundles :
          bundles[p].id = view[i].id => p + (Len(view) - i) <= Len(bundles)

(* What a row tells of an attempt whose every event arrived.               *)
HeardInv ==
    \A i \in DOMAIN view : view[i].id \in heard =>
        LET row == view[i] IN
        /\ row.class = IF row.id \in DOMAIN failures THEN failures[row.id] ELSE "none"
        /\ \/ row.stage = pending[row.id].stage
           \/ row.stage = "failed" /\ ~ReachedConfirmed(pending[row.id].stage)

(* The latest bundles that were heard of are in the view.                  *)
RecentInv ==
    \A p \in DOMAIN bundles :
        (bundles[p].id \in heard /\ p + window > Len(bundles))
            => \E i \in DOMAIN view : view[i].id = bundles[p].id

-------------------------------------------------------------------------------
(* General facts.                                                          *)

LEMMA Smallest ==
    ASSUME NEW S \in SUBSET Nat, S # {}
    PROVE  \E m \in S : \A k \in S : m <= k
<1>1. \A x, y \in Nat : <<x, y>> \in OpToRel(<, Nat) <=> x < y
  BY DEF OpToRel
<1>2. PICK m \in S : \A k \in S : ~(<<k, m>> \in OpToRel(<, Nat))
  BY NatLessThanWellFounded, WFMin
<1>3. \A k \in S : ~(k < m)
  BY <1>1, <1>2
<1> QED
  BY <1>3

LEMMA SetToSeqEmpty == SetToSeq({}) = <<>>
<1>1. Cardinality({}) = 0
  BY FS_EmptySet
<1>2. <<>> \in [1..0 -> {}] /\ IsInjective(<<>>)
  BY DEF IsInjective
<1>3. SetToSeq({}) \in [1..0 -> {}]
  BY <1>1, <1>2 DEF SetToSeq
<1>4. \A f \in [1..0 -> {}] : f = <<>>
  OBVIOUS
<1> QED
  BY <1>3, <1>4

LEMMA SetToSeqOne ==
    ASSUME NEW e
    PROVE  SetToSeq({e}) = <<e>>
<1>1. Cardinality({e}) = 1
  BY FS_Singleton
<1>2. <<e>> \in [1..1 -> {e}] /\ IsInjective(<<e>>)
  BY DEF IsInjective
<1>3. SetToSeq({e}) \in [1..1 -> {e}]
  BY <1>1, <1>2 DEF SetToSeq
<1>4. \A f \in [1..1 -> {e}] : f = <<e>>
  OBVIOUS
<1> QED
  BY <1>3, <1>4

-------------------------------------------------------------------------------
(* The log records the saga, and the view records the log.                 *)

Quiet == Step \/ RecvOther \/ StreamClosed \/ DeadlinePasses \/ Over

LEMMA LogStep == LogNext => Next
<1>1. Quiet => Next
  BY DEF Quiet, Next, Message
<1>2. \A id \in Ids, slot \in Slots, txFailed \in BOOLEAN : LogTx(id, slot, txFailed) => Next
  BY DEF LogTx, Next, Message
<1>3. \A slot \in Slots, status \in SlotStatus : LogSlot(slot, status) => Next
  BY DEF LogSlot, Next, Message
<1> QED
  BY <1>1, <1>2, <1>3 DEF LogNext, Quiet

(* Recording takes nothing from the saga: every property of the saga holds *)
(* of a run that is recorded.                                              *)
THEOREM LogRecordsSaga == LogSpec => Spec
<1>1. LogInit => Init
  BY DEF LogInit
<1>2. [LogNext]_<<vars, logVars>> => [Next]_vars
  BY LogStep
<1> QED
  BY <1>1, <1>2, PTL DEF LogSpec, Spec

(* The live view only observes the log.                                    *)
THEOREM ViewRecordsLog == LiveSpec => LogSpec
<1>1. LiveInit => LogInit
  BY DEF LiveInit
<1>2. [Run]_<<vars, logVars, viewVars>> => [LogNext]_<<vars, logVars>>
  BY DEF Run
<1> QED
  BY <1>1, <1>2, PTL DEF LiveSpec, LogSpec

-------------------------------------------------------------------------------
(* What a step of the saga may submit and give up.                         *)

(* One submission: the next attempt of a base.                             *)
Submits(b, n) ==
    /\ b \in Bases /\ n \in 1..MaxAttempts
    /\ TxId[b][n] \notin DOMAIN attempts
    /\ n > 1 => TxId[b][n - 1] \in DOMAIN attempts
    /\ \E d \in Deadlines, refresh \in BOOLEAN : Accepted(b, n, refresh, d)

SubmitsAny == \E b, n : Submits(b, n)

LEMMA RetrySubmits ==
    ASSUME Core, NEW id, FailAndRetry(id)
    PROVE  UNCHANGED <<pending, attempts>> \/ SubmitsAny
<1>1. CASE UNCHANGED <<pending, attempts>>
  BY <1>1
<1>2. ASSUME CanFail(id), NEW class \in Classes, NEW ai \in BOOLEAN,
             ResolveRetry(class, attempts[id].no, MaxAttempts, ai).retry,
             NEW d \in Deadlines,
             Accepted(attempts[id].base, attempts[id].no + 1,
                      ResolveRetry(class, attempts[id].no, MaxAttempts, ai).refresh, d)
      PROVE  SubmitsAny
  <2> DEFINE b == attempts[id].base
             m == attempts[id].no + 1
             refresh == ResolveRetry(class, attempts[id].no, MaxAttempts, ai).refresh
  <2>1. /\ b \in Bases /\ m \in 1..MaxAttempts /\ refresh \in BOOLEAN
        /\ \A k \in AttemptsOf(b) : attempts[k].no < m
        /\ m - 1 = attempts[id].no /\ id \in DOMAIN attempts
    <3>1. \A k \in AttemptsOf(b) : attempts[k].no <= attempts[id].no /\ attempts[k].no \in Nat
      BY <1>2, CanFailLemma, SagaAssumption DEF Core, TypeOK, Attempt, AttemptsOf
    <3>2. /\ attempts[id].no < MaxAttempts /\ attempts[id].no \in 1..MaxAttempts /\ b \in Bases
          /\ refresh \in BOOLEAN
      BY <1>2, ResolveLemma, CanFailLemma DEF Attempt
    <3>3. id \in DOMAIN attempts
      BY <1>2 DEF CanFail
    <3> QED
      BY <3>1, <3>2, <3>3, SagaAssumption
  <2>2. id = TxId[b][m - 1]
    BY <2>1 DEF Core, TablesAgree
  <2>3. TxId[b][m] \notin DOMAIN attempts
    <3> HIDE DEF b, m
    <3> QED
      BY <2>1, FreshLemma
  <2>4. Accepted(b, m, refresh, d)
    BY <1>2
  <2> HIDE DEF b, m, refresh
  <2> QED
    BY <2>1, <2>2, <2>3, <2>4 DEF SubmitsAny, Submits
<1> QED
  BY <1>1, <1>2 DEF FailAndRetry, Ignored, Abandoned, Refused

LEMMA QuietStep ==
    ASSUME IInv, Quiet
    PROVE  UNCHANGED <<pending, attempts>> \/ SubmitsAny
<1> USE DEF IInv
<1>1. ASSUME NEW b \in Bases, LaunchFirst(b)
      PROVE  UNCHANGED <<pending, attempts>> \/ SubmitsAny
  <2>1. TxId[b][1] \notin DOMAIN attempts
    BY <1>1, FreshLemma, SagaAssumption DEF LaunchFirst, Core, Untouched, CurrentIsNewest,
       AttemptsOf
  <2>2. 1 \in 1..MaxAttempts /\ ~(1 > 1)
    BY SagaAssumption
  <2>3. UNCHANGED <<pending, attempts>> \/ \E d \in Deadlines : Accepted(b, 1, FALSE, d)
    BY <1>1 DEF LaunchFirst, Refused
  <2> QED
    BY <2>1, <2>2, <2>3 DEF SubmitsAny, Submits
<1>2. ASSUME NEW id \in Ids, TxFailed(id) \/ GiveUp(id)
      PROVE  UNCHANGED <<pending, attempts>> \/ SubmitsAny
  BY <1>2, RetrySubmits DEF TxFailed, GiveUp
<1>3. ASSUME NEW id \in Ids, Sweep(id) PROVE UNCHANGED <<pending, attempts>>
  BY <1>3 DEF Sweep, FailAndClose, Ignored, Abandoned
<1> QED
  BY <1>1, <1>2, <1>3 DEF Quiet, Step, Wait, LeaveAtTop, RecvTimeout, StreamClosed, BeginSweep,
     RecvOther, Reconcile, DeadlinePasses, Over, vars, table

(* A failure is recorded once, of a tracked attempt, and on a confirmed    *)
(* stream of one that has not landed.                                      *)
GivesUp(id) ==
    /\ id \in DOMAIN attempts
    /\ ConfirmedStream => ~ReachedConfirmed(pending[id].stage)

LEMMA FailuresStep ==
    ASSUME IInv, OutcomeInv, [Next]_vars
    PROVE  /\ DOMAIN failures \subseteq DOMAIN failures'
           /\ \A id \in DOMAIN failures : failures'[id] = failures[id]
           /\ \A id \in DOMAIN failures' \ DOMAIN failures : GivesUp(id)
<1> DEFINE Goal == /\ DOMAIN failures \subseteq DOMAIN failures'
                   /\ \A id \in DOMAIN failures : failures'[id] = failures[id]
                   /\ \A id \in DOMAIN failures' \ DOMAIN failures : GivesUp(id)
<1>1. CASE UNCHANGED failures
  BY <1>1
<1>2. ASSUME NEW id, NEW class, CanFail(id), failures' = Insert(failures, id, class),
             GivesUp(id)
      PROVE  Goal
  <2>1. /\ DOMAIN Insert(failures, id, class) = DOMAIN failures \cup {id}
        /\ \A k \in DOMAIN failures : k # id => Insert(failures, id, class)[k] = failures[k]
    BY DEF Insert
  <2>2. id \notin DOMAIN failures
    BY <1>2 DEF CanFail
  <2> QED
    BY <1>2, <2>1, <2>2
<1>3. ASSUME NEW id, FailAndRetry(id) \/ FailAndClose(id)
      PROVE  \/ UNCHANGED failures
             \/ CanFail(id) /\ \E class : failures' = Insert(failures, id, class)
  BY <1>3 DEF FailAndRetry, FailAndClose, Ignored
<1>4. ASSUME NEW id, TxFailed(id) PROVE Goal
  <2>1. CanFail(id) => GivesUp(id)
    BY <1>4 DEF TxFailed, OutcomeInv, CanFail, GivesUp, IInv, Core, TablesAgree
  <2>2. FailAndRetry(id)
    BY <1>4 DEF TxFailed
  <2> QED
    BY <2>1, <2>2, <1>1, <1>2, <1>3
<1>5. ASSUME NEW id, GiveUp(id) \/ Sweep(id) PROVE Goal
  <2>1. NewlyLanded = {} /\ id \in work /\ pc \in {"giveUp", "sweep"}
    BY <1>5 DEF GiveUp, Sweep, OutcomeInv
  <2>2. id \in DOMAIN attempts /\ ~bases[attempts[id].base].landed
    BY <2>1 DEF IInv, WorkIsOpen
  <2>3. ~ReachedConfirmed(pending[id].stage)
    BY <2>1, <2>2 DEF NewlyLanded, OutcomeInv, IInv, Core, TablesAgree
  <2>4. FailAndRetry(id) \/ FailAndClose(id)
    BY <1>5 DEF GiveUp, Sweep
  <2> QED
    BY <2>2, <2>3, <2>4, <1>1, <1>2, <1>3 DEF GivesUp
<1> QED
  BY <1>1, <1>4, <1>5 DEF Next, Step, Message, LaunchFirst, Wait, LeaveAtTop, RecvTimeout,
     StreamClosed, BeginSweep, RecvTx, RecvSlot, RecvOther, Reconcile, DeadlinePasses, Over,
     vars, ledger

-------------------------------------------------------------------------------
(* What a step writes to the log.                                          *)

(* The attempt's entry is kept, or gets a row that tells its new stage.    *)
Recorded(id) ==
    \/ rows'[id] = rows[id] /\ pending'[id].stage = pending[id].stage
    \/ \E r \in LogRow : rows'[id] = Append(rows[id], r) /\ r.stage = pending'[id].stage

(* The submission is announced, and its entry begins.                      *)
Announces(b, n) ==
    /\ bundles' = Append(bundles, [id |-> TxId[b][n], base |-> b, attempt |-> n])
    /\ rows' = Insert(rows, TxId[b][n], <<Row("submitted", NoSlot, FALSE)>>)

LEMMA LastOfSeq ==
    ASSUME NEW S, NEW s \in Seq(S), s # <<>>
    PROVE  Last(s) \in S /\ Last(s) = s[Len(s)] /\ Len(s) \in DOMAIN s
  BY DEF Last

LEMMA ConcatLemma ==
    ASSUME NEW S, NEW s \in Seq(S)
    PROVE  /\ s \o <<>> = s
           /\ \A e \in S : s \o <<e>> = Append(s, e)
  OBVIOUS

LEMMA LaunchRecorded ==
    ASSUME IInv, RowsInv, BundlesInv, LogLaunches,
           UNCHANGED <<pending, attempts>> \/ SubmitsAny
    PROVE  \/ UNCHANGED <<pending, attempts, bundles, rows>>
           \/ \E b, n : Submits(b, n) /\ Announces(b, n)
<1> DEFINE new == DOMAIN attempts' \ DOMAIN attempts
<1>1. /\ bundles' = bundles \o SetToSeq({[id |-> k, base |-> attempts'[k].base,
                                          attempt |-> attempts'[k].no] : k \in new})
      /\ rows' = [k \in DOMAIN rows \cup new |->
                     IF k \in new THEN <<Row("submitted", NoSlot, FALSE)>> ELSE rows[k]]
      /\ DOMAIN rows = DOMAIN attempts
  BY DEF LogLaunches, RowsInv
<1>2. CASE UNCHANGED <<pending, attempts>>
  <2>1. new = {}
    BY <1>2
  <2>2. SetToSeq({[id |-> k, base |-> attempts'[k].base,
                   attempt |-> attempts'[k].no] : k \in new}) = <<>>
    BY <2>1, SetToSeqEmpty
  <2>3. bundles' = bundles
    BY <1>1, <2>2, ConcatLemma DEF BundlesInv
  <2>4. rows' = rows
    BY <1>1, <2>1 DEF RowsInv
  <2> QED
    BY <1>2, <2>3, <2>4
<1>3. ASSUME NEW b, NEW n, Submits(b, n)
      PROVE  Announces(b, n)
  <2> DEFINE id == TxId[b][n]
  <2>1. PICK d, refresh :
             attempts' = Insert(attempts, id, [base |-> b, no |-> n,
                                               deadline |-> d, refresh |-> refresh])
    BY <1>3 DEF Submits, Accepted
  <2>2. id \notin DOMAIN attempts
    BY <1>3 DEF Submits
  <2> HIDE DEF id
  <2>3. new = {id} /\ attempts'[id].base = b /\ attempts'[id].no = n
    <3> DEFINE value == [base |-> b, no |-> n, deadline |-> d, refresh |-> refresh]
    <3>1. /\ DOMAIN Insert(attempts, id, value) = DOMAIN attempts \cup {id}
          /\ Insert(attempts, id, value)[id] = value
      BY DEF Insert
    <3> QED
      BY <2>1, <2>2, <3>1
  <2>4. {[id |-> k, base |-> attempts'[k].base, attempt |-> attempts'[k].no] : k \in new}
          = {[id |-> id, base |-> b, attempt |-> n]}
    BY <2>3
  <2>5. bundles' = Append(bundles, [id |-> id, base |-> b, attempt |-> n])
    <3>1. [id |-> id, base |-> b, attempt |-> n] \in Event
      BY <1>3, SagaAssumption DEF Submits, Event, id
    <3>2. SetToSeq({[id |-> id, base |-> b, attempt |-> n]}) = <<[id |-> id, base |-> b, attempt |-> n]>>
      BY SetToSeqOne
    <3>3. bundles' = bundles \o <<[id |-> id, base |-> b, attempt |-> n]>>
      BY <3>2, <2>4, <1>1
    <3> QED
      BY <3>1, <3>3, ConcatLemma DEF BundlesInv
  <2>6. rows' = Insert(rows, id, <<Row("submitted", NoSlot, FALSE)>>)
    BY <1>1, <2>2, <2>3 DEF Insert
  <2> QED
    BY <2>5, <2>6 DEF Announces, id
<1> QED
  BY <1>2, <1>3 DEF SubmitsAny

LEMMA ReportRecorded ==
    ASSUME IInv, RowsInv,
           \/ \E id \in Ids, slot \in Slots, txFailed \in BOOLEAN : LogTx(id, slot, txFailed)
           \/ \E slot \in Slots, status \in SlotStatus : LogSlot(slot, status)
    PROVE  /\ UNCHANGED <<attempts, bases, landed, failures, refused, bundles>>
           /\ rows' \in [DOMAIN attempts -> Seq(LogRow)]
           /\ \A id \in DOMAIN attempts : Recorded(id)
<1>1. /\ DOMAIN pending' = DOMAIN pending
      /\ \A k \in DOMAIN pending : pending[k].stage \in Stage /\ pending'[k].stage \in Stage
  <2>1. IInv' /\ (UNCHANGED attempts)
    BY StepIInv, LogStep DEF LogNext, LogTx, LogSlot, RecvTx, RecvSlot
  <2> QED
    BY <2>1 DEF IInv, Core, TypeOK, TablesAgree
<1>2. \A k \in DOMAIN attempts : /\ Last(rows[k]) \in LogRow
                                 /\ Last(rows[k]).stage = pending[k].stage
  BY LastOfSeq DEF RowsInv
<1>3. \A k, r : Early(k, r) \in BOOLEAN
  BY DEF Early
<1>4. DOMAIN pending = DOMAIN attempts
  BY DEF IInv, Core, TablesAgree
<1>5. ASSUME NEW id \in Ids, NEW slot \in Slots, NEW txFailed \in BOOLEAN,
             LogTx(id, slot, txFailed)
      PROVE  /\ rows' \in [DOMAIN attempts -> Seq(LogRow)]
             /\ \A k \in DOMAIN attempts : Recorded(k)
  <2>1. CASE id \notin DOMAIN pending
    <3>1. rows' = rows /\ pending' = pending
      BY <1>5, <2>1 DEF LogTx, RecvTx
    <3> QED
      BY <3>1 DEF Recorded, RowsInv
  <2>2. CASE id \in DOMAIN pending
    <3> DEFINE r == IF pending'[id].stage = pending[id].stage THEN Last(rows[id])
                    ELSE Row(pending'[id].stage, slot, Early(id, reached'))
    <3>1. r \in LogRow /\ r.stage = pending'[id].stage
      <4>1. r.stage \in Stage /\ r.stage = pending'[id].stage
        BY <1>1, <1>2, <1>4, <2>2 DEF Row
      <4>2. pending'[id].stage # pending[id].stage => r \in LogRow
        BY <1>1, <1>3, <2>2 DEF Row, LogRow
      <4> QED
        BY <1>2, <1>4, <2>2, <4>1, <4>2
    <3>2. rows' = [rows EXCEPT ![id] = Append(rows[id], r)]
      BY <1>5, <2>2 DEF LogTx
    <3>3. \A k \in DOMAIN pending : k # id => pending'[k] = pending[k]
      BY <1>5, <2>2 DEF LogTx, RecvTx, OnTxStatus
    <3> HIDE DEF r
    <3>4. \A k \in DOMAIN attempts : rows'[k] = IF k = id THEN Append(rows[id], r) ELSE rows[k]
      BY <3>2, <1>4 DEF RowsInv
    <3>5. rows' \in [DOMAIN attempts -> Seq(LogRow)]
      BY <3>1, <3>2, <2>2, <1>4 DEF RowsInv
    <3> QED
      BY <3>1, <3>3, <3>4, <3>5, <1>4 DEF Recorded
  <2> QED
    BY <2>1, <2>2
<1>6. ASSUME NEW slot \in Slots, NEW status \in SlotStatus, LogSlot(slot, status)
      PROVE  /\ rows' \in [DOMAIN attempts -> Seq(LogRow)]
             /\ \A k \in DOMAIN attempts : Recorded(k)
  <2> DEFINE r(k) == Row(pending'[k].stage, slot, Early(k, reached'))
  <2>1. \A k \in DOMAIN attempts : r(k) \in LogRow /\ r(k).stage = pending'[k].stage
    BY <1>1, <1>3, <1>4 DEF Row, LogRow
  <2>2. rows' = [k \in DOMAIN attempts |->
                    IF pending'[k].stage = pending[k].stage THEN rows[k]
                    ELSE Append(rows[k], r(k))]
    BY <1>6 DEF LogSlot, RowsInv
  <2> HIDE DEF r
  <2>3. \A k \in DOMAIN attempts : Recorded(k)
    BY <2>1, <2>2 DEF Recorded
  <2>4. \A k \in DOMAIN attempts : rows'[k] \in Seq(LogRow)
    BY <2>1, <2>2 DEF RowsInv
  <2> QED
    BY <2>2, <2>3, <2>4
<1>7. UNCHANGED <<attempts, bases, landed, failures, refused, bundles>>
  BY DEF LogTx, LogSlot, RecvTx, RecvSlot
<1> QED
  BY <1>5, <1>6, <1>7

(* The three ways the log goes on.                                         *)
Reported ==
    /\ UNCHANGED <<attempts, bases, landed, failures, refused, bundles>>
    /\ rows' \in [DOMAIN attempts -> Seq(LogRow)]
    /\ \A id \in DOMAIN attempts : Recorded(id)

SubmissionAnnounced == \E b, n : Submits(b, n) /\ Announces(b, n)

LEMMA LogCases ==
    ASSUME IInv, RowsInv, BundlesInv, [LogNext]_<<vars, logVars>>
    PROVE  \/ Reported
           \/ UNCHANGED <<pending, attempts, bundles, rows>>
           \/ SubmissionAnnounced
<1>1. CASE Quiet /\ LogLaunches
  BY <1>1, QuietStep, LaunchRecorded DEF SubmissionAnnounced
<1>2. CASE UNCHANGED <<vars, logVars>>
  BY <1>2 DEF vars, logVars
<1> QED
  BY <1>1, <1>2, ReportRecorded DEF LogNext, Quiet, Reported

(* The tables after a submission, entry by entry.                          *)
EntryAdded(id, b, n) ==
    /\ id \in Ids /\ id \notin DOMAIN attempts
    /\ DOMAIN attempts' = DOMAIN attempts \cup {id}
    /\ DOMAIN pending' = DOMAIN attempts \cup {id}
    /\ attempts'[id].base = b /\ attempts'[id].no = n
    /\ pending'[id] = NewBundle
    /\ rows'[id] = <<Row("submitted", NoSlot, FALSE)>>
    /\ rows' \in [DOMAIN attempts' -> Seq(LogRow)]
    /\ \A k \in DOMAIN attempts : /\ attempts'[k] = attempts[k]
                                  /\ pending'[k] = pending[k]
                                  /\ rows'[k] = rows[k]

LEMMA AnnouncedTables ==
    ASSUME IInv, RowsInv, NEW b, NEW n, NEW id, id = TxId[b][n], Submits(b, n), Announces(b, n)
    PROVE  EntryAdded(id, b, n)
<1>1. PICK d, refresh :
           /\ attempts' = Insert(attempts, id, [base |-> b, no |-> n,
                                                deadline |-> d, refresh |-> refresh])
           /\ pending' = Insert(pending, id, NewBundle)
  BY DEF Submits, Accepted, Track
<1>2. /\ rows' = Insert(rows, id, <<Row("submitted", NoSlot, FALSE)>>)
      /\ id \in Ids /\ id \notin DOMAIN attempts
  BY SagaAssumption DEF Submits, Announces
<1>3. DOMAIN pending = DOMAIN attempts /\ DOMAIN rows = DOMAIN attempts
  BY DEF IInv, Core, TablesAgree, RowsInv
<1>4. <<Row("submitted", NoSlot, FALSE)>> \in Seq(LogRow)
  BY DEF Row, LogRow, Stage
<1>5. rows' \in [DOMAIN attempts' -> Seq(LogRow)]
  BY <1>1, <1>2, <1>3, <1>4 DEF Insert, RowsInv
<1> QED
  BY <1>1, <1>2, <1>3, <1>5 DEF Insert, EntryAdded

-------------------------------------------------------------------------------
(* Rows and announcements.                                                 *)

LEMMA RecordedRow ==
    ASSUME RowsInv, NEW id \in DOMAIN attempts, Recorded(id)
    PROVE  /\ rows'[id] # <<>> /\ Last(rows'[id]).stage = pending'[id].stage
           /\ \/ rows'[id] = rows[id] /\ Len(rows'[id]) = Len(rows[id])
              \/ Len(rows'[id]) > Len(rows[id])
           /\ DOMAIN rows[id] \subseteq DOMAIN rows'[id]
           /\ \A i \in DOMAIN rows[id] : rows'[id][i] = rows[id][i]
           /\ \A i \in DOMAIN rows'[id] \ DOMAIN rows[id] :
                 i = Len(rows'[id]) /\ rows'[id][i] = Last(rows'[id])
<1>1. rows[id] \in Seq(LogRow) /\ rows[id] # <<>> /\ Last(rows[id]).stage = pending[id].stage
  BY DEF RowsInv
<1>2. CASE rows'[id] = rows[id] /\ pending'[id].stage = pending[id].stage
  BY <1>1, <1>2
<1>3. ASSUME NEW r \in LogRow, rows'[id] = Append(rows[id], r), r.stage = pending'[id].stage
      PROVE  /\ rows'[id] # <<>> /\ Last(rows'[id]) = r /\ Len(rows'[id]) = Len(rows[id]) + 1
             /\ Len(rows[id]) \in Nat
             /\ \A i \in DOMAIN rows[id] : rows'[id][i] = rows[id][i]
             /\ DOMAIN rows[id] = 1..Len(rows[id]) /\ DOMAIN rows'[id] = 1..(Len(rows[id]) + 1)
             /\ rows'[id][Len(rows[id]) + 1] = r
  BY <1>1, <1>3 DEF Last
<1> QED
  BY <1>2, <1>3 DEF Recorded

LEMMA RowsStep ==
    ASSUME IInv, RowsInv, BundlesInv, [LogNext]_<<vars, logVars>>
    PROVE  RowsInv'
<1>1. CASE Reported
  BY <1>1, RecordedRow DEF Reported, RowsInv
<1>2. CASE UNCHANGED <<pending, attempts, bundles, rows>>
  BY <1>2 DEF RowsInv
<1>3. ASSUME NEW b, NEW n, Submits(b, n), Announces(b, n) PROVE RowsInv'
  <2>0. PICK id : id = TxId[b][n] /\ EntryAdded(id, b, n)
    BY <1>3, AnnouncedTables
  <2>1. /\ DOMAIN attempts' = DOMAIN attempts \cup {id}
        /\ rows'[id] = <<Row("submitted", NoSlot, FALSE)>> /\ pending'[id] = NewBundle
        /\ rows' \in [DOMAIN attempts' -> Seq(LogRow)]
        /\ \A k \in DOMAIN attempts : pending'[k] = pending[k] /\ rows'[k] = rows[k]
    BY <2>0 DEF EntryAdded
  <2>2. rows'[id] # <<>> /\ Last(rows'[id]).stage = pending'[id].stage
    BY <2>1 DEF Last, Row, NewBundle
  <2> QED
    BY <2>1, <2>2 DEF RowsInv
<1> QED
  BY <1>1, <1>2, <1>3, LogCases DEF SubmissionAnnounced

LEMMA BundlesStep ==
    ASSUME IInv, RowsInv, BundlesInv, [LogNext]_<<vars, logVars>>
    PROVE  BundlesInv'
<1>1. CASE UNCHANGED <<attempts, bundles>>
  BY <1>1 DEF BundlesInv
<1>2. ASSUME NEW b, NEW n, Submits(b, n), Announces(b, n) PROVE BundlesInv'
  <2>0. PICK id : id = TxId[b][n] /\ EntryAdded(id, b, n)
    BY <1>2, AnnouncedTables
  <2> DEFINE e == [id |-> id, base |-> b, attempt |-> n]
  <2>1. /\ DOMAIN attempts' = DOMAIN attempts \cup {id}
        /\ id \notin DOMAIN attempts
        /\ attempts'[id].base = b /\ attempts'[id].no = n
        /\ \A k \in DOMAIN attempts : attempts'[k] = attempts[k]
    BY <2>0 DEF EntryAdded
  <2>2. e \in Event /\ e.id = id /\ e.base = b /\ e.attempt = n
    BY <1>2, <2>0, SagaAssumption DEF Submits, Event
  <2>3. bundles' = Append(bundles, e) /\ bundles \in Seq(Event)
    BY <1>2, <2>0 DEF Announces, BundlesInv
  <2> HIDE DEF e
  <2>4. /\ bundles' \in Seq(Event) /\ Len(bundles') = Len(bundles) + 1
        /\ DOMAIN bundles = 1..Len(bundles) /\ DOMAIN bundles' = 1..(Len(bundles) + 1)
        /\ \A p \in DOMAIN bundles : bundles'[p] = bundles[p]
        /\ bundles'[Len(bundles) + 1] = e
        /\ Len(bundles) \in Nat
    BY <2>2, <2>3
  <2>5. \A p \in DOMAIN bundles' : p \in DOMAIN bundles \/ p = Len(bundles) + 1
    BY <2>4
  <2>6. \A p \in DOMAIN bundles' :
           /\ bundles'[p].id \in DOMAIN attempts'
           /\ bundles'[p].base = attempts'[bundles'[p].id].base
           /\ bundles'[p].attempt = attempts'[bundles'[p].id].no
    BY <2>1, <2>2, <2>4, <2>5 DEF BundlesInv
  <2>7. \A k \in DOMAIN attempts' : \E p \in DOMAIN bundles' : bundles'[p].id = k
    <3>1. Len(bundles) + 1 \in DOMAIN bundles' /\ DOMAIN bundles \subseteq DOMAIN bundles'
      BY <2>4
    <3> QED
      BY <3>1, <2>1, <2>2, <2>4 DEF BundlesInv
  <2>8. \A p, q \in DOMAIN bundles' : bundles'[p].id = bundles'[q].id => p = q
    BY <2>1, <2>2, <2>4, <2>5 DEF BundlesInv
  <2> QED
    BY <2>4, <2>6, <2>7, <2>8 DEF BundlesInv
<1> QED
  BY <1>1, <1>2, LogCases DEF SubmissionAnnounced, Reported

LEMMA NumberedStep ==
    ASSUME IInv, RowsInv, BundlesInv, Numbered, [LogNext]_<<vars, logVars>>
    PROVE  Numbered'
<1>1. CASE UNCHANGED attempts
  BY <1>1 DEF Numbered
<1>2. ASSUME NEW b, NEW n, Submits(b, n), Announces(b, n) PROVE Numbered'
  <2>0. PICK id : id = TxId[b][n] /\ EntryAdded(id, b, n)
    BY <1>2, AnnouncedTables
  <2>1. /\ DOMAIN attempts' = DOMAIN attempts \cup {id}
        /\ attempts'[id].base = b /\ attempts'[id].no = n
        /\ \A k \in DOMAIN attempts : attempts'[k] = attempts[k]
    BY <2>0 DEF EntryAdded
  <2>2. b \in Bases /\ n \in Nat /\ n \in 1..MaxAttempts /\ MaxAttempts \in Nat
    BY <1>2, SagaAssumption DEF Submits
  <2>3. \A k \in 1..(n - 1) : TxId[b][k] \in DOMAIN attempts
    <3>1. CASE n = 1
      BY <3>1
    <3>2. CASE n > 1
      <4>1. TxId[b][n - 1] \in DOMAIN attempts
        BY <1>2, <3>2 DEF Submits
      <4>2. /\ attempts[TxId[b][n - 1]] \in Attempt
            /\ TxId[b][n - 1] = TxId[attempts[TxId[b][n - 1]].base][attempts[TxId[b][n - 1]].no]
        BY <4>1 DEF IInv, Core, TypeOK, TablesAgree
      <4>3. attempts[TxId[b][n - 1]].base = b /\ attempts[TxId[b][n - 1]].no = n - 1
        BY <4>2, <2>2, <3>2, DistinctTransactions DEF Attempt
      <4> QED
        BY <4>1, <4>3 DEF Numbered
    <3> QED
      BY <3>1, <3>2, <2>2
  <2>4. \A k \in 1..n : TxId[b][k] \in DOMAIN attempts'
    BY <2>0, <2>1, <2>2, <2>3
  <2> QED
    BY <2>1, <2>4 DEF Numbered
<1> QED
  BY <1>1, <1>2, LogCases DEF SubmissionAnnounced, Reported

-------------------------------------------------------------------------------
(* What the entries say of the lifecycles.                                 *)

LEMMA EntryLandedRow ==
    ASSUME NEW id
    PROVE  EntryLanded(id) <=>
              \E i \in DOMAIN rows[id] : ReachedConfirmed(rows[id][i].stage)
  BY DEF EntryLanded, ToSet, ReachedConfirmed

(* A lifecycle that is left alone or moved by a row leaves the entry right.*)
LEMMA EntryLandedStep ==
    ASSUME IInv, RowsInv, ConfirmedStream, Legal(pending, pending'),
           NEW id \in DOMAIN attempts, Recorded(id),
           EntryLanded(id) <=> ReachedConfirmed(pending[id].stage)
    PROVE  EntryLanded(id)' <=> ReachedConfirmed(pending'[id].stage)
<1>1. EntryLanded(id) <=> \E i \in DOMAIN rows[id] : ReachedConfirmed(rows[id][i].stage)
  BY EntryLandedRow
<1>2. EntryLanded(id)' <=> \E i \in DOMAIN rows'[id] : ReachedConfirmed(rows'[id][i].stage)
  BY DEF EntryLanded, ToSet, ReachedConfirmed
<1>3. ReachedConfirmed(pending[id].stage) => ReachedConfirmed(pending'[id].stage)
  BY DEF Legal, IInv, Core, TablesAgree
<1>4. CASE rows'[id] = rows[id] /\ pending'[id].stage = pending[id].stage
  BY <1>1, <1>2, <1>4
<1>5. ASSUME NEW r \in LogRow, rows'[id] = Append(rows[id], r), r.stage = pending'[id].stage
      PROVE  EntryLanded(id)' <=> ReachedConfirmed(pending'[id].stage)
  <2>1. rows[id] \in Seq(LogRow)
    BY DEF RowsInv
  <2>2. /\ DOMAIN rows'[id] = DOMAIN rows[id] \cup {Len(rows[id]) + 1}
        /\ rows'[id][Len(rows[id]) + 1] = r
        /\ \A i \in DOMAIN rows[id] : rows'[id][i] = rows[id][i]
    BY <2>1, <1>5
  <2> QED
    BY <2>2, <1>1, <1>2, <1>3, <1>5
<1> QED
  BY <1>4, <1>5 DEF Recorded

LEMMA SlotKnownAppend ==
    ASSUME RowsInv, NEW id \in DOMAIN attempts, NEW r, rows'[id] = Append(rows[id], r)
    PROVE  /\ \A i \in DOMAIN rows[id] : i \in DOMAIN rows'[id] /\ rows'[id][i] = rows[id][i]
           /\ Len(rows[id]) + 1 \in DOMAIN rows'[id] /\ rows'[id][Len(rows[id]) + 1] = r
           /\ \A i \in DOMAIN rows'[id] : i \in DOMAIN rows[id] \/ rows'[id][i] = r
<1>1. rows[id] \in Seq(LogRow)
  BY DEF RowsInv
<1> QED
  BY <1>1

LEMMA TxSlotKnown ==
    ASSUME IInv, RowsInv, EntryInv, ConfirmedStream,
           NEW id \in Ids, NEW slot \in Slots, NEW txFailed \in BOOLEAN,
           LogTx(id, slot, txFailed), NEW k \in DOMAIN attempts
    PROVE  SlotKnown(k)'
<1>1. /\ SlotKnown(k) /\ DOMAIN pending = DOMAIN attempts
      /\ pending[k] \in [stage : Stage, slot : Slots \cup {NoSlot}]
      /\ rows[k] \in Seq(LogRow) /\ rows[k] # <<>>
      /\ NoSlot \notin Slots
  BY SagaAssumption DEF EntryInv, IInv, Core, TypeOK, TablesAgree, RowsInv
<1>2. CASE rows'[k] = rows[k] /\ pending'[k] = pending[k]
  BY <1>1, <1>2 DEF SlotKnown
<1>3. CASE k = id
  <2> DEFINE to == IF txFailed THEN "failed" ELSE "processed"
  <2>1. /\ pending'[k] = TxStatus(pending[k], slot, txFailed)
        /\ rows'[k] = Append(rows[k], IF pending'[k].stage = pending[k].stage THEN Last(rows[k])
                                      ELSE Row(pending'[k].stage, slot, Early(k, reached')))
    BY <1>1, <1>3 DEF LogTx, RecvTx, OnTxStatus, RowsInv
  <2>2. pending[k].stage # "submitted" => (txFailed <=> pending[k].stage = "failed")
    BY <1>1, <1>3 DEF LogTx, RecvTx, TxReportPossible
  <2>3. CASE pending[k].stage = "submitted" /\ txFailed
    <3>1. pending'[k].stage = "failed"
      BY <1>1, <2>1, <2>3 DEF TxStatus, Advance, CanTransitionTo, Stage
    <3> QED
      BY <3>1 DEF SlotKnown
  <2>4. CASE pending[k].stage = "submitted" /\ ~txFailed
    <3>1. pending'[k].stage = "processed" /\ pending'[k].slot = slot
      BY <1>1, <2>1, <2>4 DEF TxStatus, Advance, CanTransitionTo, Stage
    <3>2. PICK r : rows'[k] = Append(rows[k], r) /\ r.slot = slot
      BY <3>1, <2>1, <2>4 DEF Row
    <3>3. \A i \in DOMAIN rows[k] : rows[k][i].slot = NoSlot
      BY <1>1, <2>4 DEF SlotKnown
    <3>4. /\ \E i \in DOMAIN rows'[k] : rows'[k][i].slot # NoSlot
          /\ \A i \in DOMAIN rows'[k] : rows'[k][i].slot \in {NoSlot, slot}
      BY SMTT(30), <3>2, <3>3, <1>1, SlotKnownAppend
    <3> QED
      BY <3>1, <3>4 DEF SlotKnown
  <2>5. CASE pending[k].stage # "submitted"
    <3>1. ~CanTransitionTo(pending[k].stage, to)
      BY <2>2, <2>5 DEF CanTransitionTo
    <3>2. pending'[k] = pending[k]
      BY <3>1, <2>1 DEF TxStatus, Advance
    <3>3. rows'[k] = Append(rows[k], Last(rows[k]))
      BY <3>2, <2>1
    <3>4. Last(rows[k]) = rows[k][Len(rows[k])] /\ Len(rows[k]) \in DOMAIN rows[k]
      BY <1>1, LastOfSeq
    <3>5. /\ \A i \in DOMAIN rows[k] : i \in DOMAIN rows'[k] /\ rows'[k][i] = rows[k][i]
          /\ \A i \in DOMAIN rows'[k] : i \in DOMAIN rows[k] \/ rows'[k][i] = rows[k][Len(rows[k])]
      BY <3>3, <3>4, SlotKnownAppend
    <3> QED
      BY <1>1, <3>2, <3>4, <3>5 DEF SlotKnown
  <2> QED
    BY <2>3, <2>4, <2>5
<1>4. CASE k # id \/ id \notin DOMAIN pending
  <2>1. rows'[k] = rows[k] /\ pending'[k] = pending[k]
    BY <1>1, <1>4 DEF LogTx, RecvTx, OnTxStatus, RowsInv
  <2> QED
    BY <2>1, <1>2
<1> QED
  BY <1>3, <1>4

LEMMA SlotSlotKnown ==
    ASSUME IInv, RowsInv, EntryInv, ConfirmedStream,
           NEW slot \in Slots, NEW status \in SlotStatus,
           LogSlot(slot, status), NEW k \in DOMAIN attempts
    PROVE  SlotKnown(k)'
<1>1. /\ SlotKnown(k) /\ DOMAIN pending = DOMAIN attempts
      /\ pending[k] \in [stage : Stage, slot : Slots \cup {NoSlot}]
      /\ NoSlot \notin Slots
  BY SagaAssumption DEF EntryInv, IInv, Core, TypeOK, TablesAgree
<1>2. /\ pending'[k] = IF /\ ImpliesStage(status) /\ pending[k].slot = slot
                          /\ ~IsTerminal(pending[k].stage)
                       THEN Advance(pending[k], SlotStatusToStage(status)) ELSE pending[k]
      /\ rows'[k] = IF pending'[k].stage = pending[k].stage THEN rows[k]
                    ELSE Append(rows[k], Row(pending'[k].stage, slot, Early(k, reached')))
  BY <1>1 DEF LogSlot, RecvSlot, OnSlotStatus, RowsInv
<1>3. CASE pending'[k].stage = pending[k].stage
  <2>1. pending'[k] = pending[k]
    BY <1>1, <1>2, <1>3 DEF Advance
  <2> QED
    BY <1>1, <1>2, <1>3, <2>1 DEF SlotKnown
<1>4. CASE pending'[k].stage # pending[k].stage
  <2>1. pending[k].slot = slot /\ ~IsTerminal(pending[k].stage) /\ pending'[k].slot = slot
    BY <1>1, <1>2, <1>4 DEF Advance
  <2>2. pending[k].stage \in {"processed", "confirmed"}
    BY <1>1, <2>1 DEF SlotKnown, IsTerminal, Stage
  <2>3. /\ \E i \in DOMAIN rows[k] : rows[k][i].slot # NoSlot
        /\ \A i \in DOMAIN rows[k] : rows[k][i].slot \in {NoSlot, slot}
    BY <1>1, <2>1, <2>2 DEF SlotKnown
  <2>4. pending'[k].stage # "submitted"
    <3>1. SlotStatusToStage(status) # "submitted"
      BY DEF SlotStatusToStage, SlotStatus
    <3> QED
      BY <3>1, <1>1, <1>2, <1>4 DEF Advance
  <2>5. PICK r : rows'[k] = Append(rows[k], r) /\ r.slot = slot
    BY <1>2, <1>4 DEF Row
  <2>6. /\ \E i \in DOMAIN rows'[k] : rows'[k][i].slot # NoSlot
        /\ \A i \in DOMAIN rows'[k] : rows'[k][i].slot \in {NoSlot, slot}
    BY <2>3, <2>5, SlotKnownAppend
  <2> QED
    BY <2>1, <2>4, <2>6 DEF SlotKnown
<1> QED
  BY <1>3, <1>4

LEMMA EntryStep ==
    ASSUME IInv, RowsInv, BundlesInv, EntryInv, [LogNext]_<<vars, logVars>>
    PROVE  EntryInv'
<1> SUFFICES ASSUME ConfirmedStream,
                    NEW k \in DOMAIN attempts'
             PROVE  /\ EntryLanded(k)' <=> ReachedConfirmed(pending'[k].stage)
                    /\ SlotKnown(k)'
  BY DEF EntryInv
<1>1. Legal(pending, pending')
  BY LogStep, LegalStep DEF logVars, vars
<1>2. k \in DOMAIN attempts => /\ EntryLanded(k) <=> ReachedConfirmed(pending[k].stage)
                               /\ SlotKnown(k)
  BY DEF EntryInv
<1>3. CASE k \in DOMAIN attempts /\ rows'[k] = rows[k] /\ pending'[k] = pending[k]
  BY <1>2, <1>3 DEF EntryLanded, SlotKnown
<1>4. ASSUME NEW id \in Ids, NEW slot \in Slots, NEW txFailed \in BOOLEAN,
             LogTx(id, slot, txFailed)
      PROVE  /\ EntryLanded(k)' <=> ReachedConfirmed(pending'[k].stage)
             /\ SlotKnown(k)'
  BY <1>1, <1>2, <1>4, ReportRecorded, EntryLandedStep, TxSlotKnown
<1>5. ASSUME NEW slot \in Slots, NEW status \in SlotStatus, LogSlot(slot, status)
      PROVE  /\ EntryLanded(k)' <=> ReachedConfirmed(pending'[k].stage)
             /\ SlotKnown(k)'
  BY <1>1, <1>2, <1>5, ReportRecorded, EntryLandedStep, SlotSlotKnown
<1>6. CASE UNCHANGED <<pending, attempts, bundles, rows>>
  BY <1>3, <1>6
<1>7. ASSUME NEW b, NEW n, Submits(b, n), Announces(b, n)
      PROVE  /\ EntryLanded(k)' <=> ReachedConfirmed(pending'[k].stage)
             /\ SlotKnown(k)'
  <2>1. PICK id : id = TxId[b][n] /\ EntryAdded(id, b, n)
    BY <1>7, AnnouncedTables
  <2>2. CASE k \in DOMAIN attempts
    BY <2>1, <2>2, <1>3 DEF EntryAdded
  <2>3. CASE k = id
    <3>1. rows'[k] = <<Row("submitted", NoSlot, FALSE)>> /\ pending'[k] = NewBundle
      BY <2>1, <2>3 DEF EntryAdded
    <3> QED
      BY <3>1 DEF EntryLanded, ToSet, ReachedConfirmed, SlotKnown, Row, NewBundle
  <2> QED
    BY <2>1, <2>2, <2>3 DEF EntryAdded
<1>8. CASE Quiet /\ LogLaunches
  BY <1>6, <1>7, <1>8, QuietStep, LaunchRecorded
<1>9. CASE UNCHANGED <<vars, logVars>>
  BY <1>6, <1>9 DEF vars, logVars
<1> QED
  BY <1>4, <1>5, <1>8, <1>9 DEF LogNext, Quiet

-------------------------------------------------------------------------------
(* The outcomes.                                                           *)

LEMMA SubmittedTables ==
    ASSUME IInv, NEW b, NEW n, Submits(b, n)
    PROVE  /\ DOMAIN attempts' = DOMAIN attempts \cup {TxId[b][n]}
           /\ TxId[b][n] \notin DOMAIN attempts
           /\ pending'[TxId[b][n]].stage = "submitted"
           /\ \A k \in DOMAIN attempts : attempts'[k] = attempts[k] /\ pending'[k] = pending[k]
<1>1. PICK d, refresh :
           /\ attempts' = Insert(attempts, TxId[b][n], [base |-> b, no |-> n,
                                                deadline |-> d, refresh |-> refresh])
           /\ pending' = Insert(pending, TxId[b][n], NewBundle)
  BY DEF Submits, Accepted, Track
<1>2. DOMAIN pending = DOMAIN attempts /\ TxId[b][n] \notin DOMAIN attempts
  BY DEF IInv, Core, TablesAgree, Submits
<1> QED
  BY <1>1, <1>2 DEF Insert, NewBundle

LEMMA AttemptsKept ==
    ASSUME IInv, [Next]_vars
    PROVE  /\ DOMAIN attempts \subseteq DOMAIN attempts'
           /\ \A k \in DOMAIN attempts : attempts'[k] = attempts[k]
<1>1. UNCHANGED attempts \/ SubmitsAny
  BY QuietStep DEF Next, Message, Quiet, RecvTx, RecvSlot, vars
<1> QED
  BY <1>1, SubmittedTables DEF SubmitsAny

LEMMA NothingNewlyLanded ==
    ASSUME IInv, NewlyLanded = {}, landed \subseteq landed',
           UNCHANGED <<pending, attempts>> \/ SubmitsAny
    PROVE  NewlyLanded' = {}
<1>1. \A k \in DOMAIN attempts : k \in landed' \/ ~ReachedConfirmed(pending[k].stage)
  BY DEF NewlyLanded, IInv, Core, TablesAgree
<1>2. CASE UNCHANGED <<pending, attempts>>
  BY <1>1, <1>2 DEF NewlyLanded
<1>3. ASSUME NEW b, NEW n, Submits(b, n) PROVE NewlyLanded' = {}
  <2>1. \A k \in DOMAIN attempts' : k \in landed' \/ ~ReachedConfirmed(pending'[k].stage)
    BY <1>1, <1>3, SubmittedTables DEF ReachedConfirmed
  <2> QED
    BY <2>1 DEF NewlyLanded
<1> QED
  BY <1>2, <1>3 DEF SubmitsAny

LEMMA CountedStep ==
    ASSUME IInv, OutcomeInv, [Next]_vars
    PROVE  (pc \notin {"txFailed", "reconcile"} => NewlyLanded = {})'
<1> SUFFICES ASSUME pc' \notin {"txFailed", "reconcile"} PROVE NewlyLanded' = {}
  OBVIOUS
<1>1. CASE Reconcile
  BY <1>1 DEF Reconcile, NewlyLanded
<1>2. CASE Quiet /\ ~Reconcile
  <2>1. pc \notin {"txFailed", "reconcile"}
    BY <1>2 DEF Quiet, Step, LaunchFirst, Wait, LeaveAtTop, RecvTimeout, StreamClosed,
       RecvOther, DeadlinePasses, Over, TxFailed, GiveUp, Sweep, vars
  <2>2. landed' = landed
    BY <1>2 DEF Quiet, Step, LaunchFirst, Wait, LeaveAtTop, RecvTimeout, StreamClosed,
       RecvOther, DeadlinePasses, Over, TxFailed, GiveUp, Sweep, vars, BeginSweep, ledger,
       FailAndRetry, FailAndClose, Ignored
  <2> QED
    BY <2>1, <2>2, <1>2, QuietStep, NothingNewlyLanded DEF OutcomeInv
<1>3. CASE UNCHANGED vars
  BY <1>3 DEF vars, NewlyLanded, OutcomeInv
<1> QED
  BY <1>1, <1>2, <1>3 DEF Next, Message, Quiet, RecvTx, RecvSlot

LEMMA FlagsStep ==
    ASSUME IInv, OutcomeInv, [Next]_vars
    PROVE  \A id \in landed' : bases'[attempts'[id].base].landed
<1>1. \A id \in DOMAIN attempts : attempts'[id] = attempts[id] /\ attempts[id].base \in Bases
  BY AttemptsKept DEF IInv, Core, TypeOK, Attempt
<1>2. \A b \in Bases : bases[b].landed => bases'[b].landed
  BY DoneIsFinalStep
<1>3. landed \subseteq DOMAIN attempts /\ \A id \in landed : bases[attempts[id].base].landed
  BY DEF OutcomeInv, IInv, Core, TablesAgree
<1>4. CASE Reconcile
  <2>1. \A id \in NewlyLanded : id \in DOMAIN attempts
    BY DEF NewlyLanded
  <2>2. \A b \in Bases : (\E id \in NewlyLanded : attempts[id].base = b) => bases'[b].landed
    BY <1>4 DEF Reconcile, AfterLandings, IInv, Core, TypeOK, BaseState
  <2>3. landed' = landed \cup NewlyLanded
    BY <1>4 DEF Reconcile
  <2> QED
    BY <2>1, <2>2, <2>3, <1>1, <1>2, <1>3
<1>5. CASE landed' = landed
  BY <1>1, <1>2, <1>3, <1>5
<1> QED
  BY <1>4, <1>5 DEF Next, Step, Message, LaunchFirst, Wait, LeaveAtTop,
     RecvTimeout, StreamClosed, BeginSweep, RecvTx, RecvSlot, RecvOther,
     TxFailed, GiveUp, Sweep, FailAndRetry, FailAndClose, Ignored, DeadlinePasses, Over,
     vars, ledger

LEMMA RefusedStep ==
    ASSUME IInv, OutcomeInv, Accounting, [Next]_vars
    PROVE  \A b \in refused' : bases'[b].current = NoId \/ bases'[b].current \in DOMAIN failures'
<1>1. DOMAIN failures \subseteq DOMAIN failures'
  BY FailuresStep
<1>2. \A b \in Bases : bases[b].done => bases'[b].current = bases[b].current
  BY DoneIsFinalStep
<1>3. \A b \in refused : /\ b \in Bases /\ bases[b].done
                         /\ bases[b].current = NoId \/ bases[b].current \in DOMAIN failures
  BY DEF Accounting, OutcomeInv, IInv, Core, TypeOK
<1>4. CASE refused' = refused
  BY <1>1, <1>2, <1>3, <1>4
<1>5. ASSUME NEW c \in Bases, Refused(c),
             bases[c].current = NoId \/ bases[c].current \in DOMAIN failures'
      PROVE  \A b \in refused' : bases'[b].current = NoId \/ bases'[b].current \in DOMAIN failures'
  <2>1. bases'[c].current = bases[c].current /\ refused' = refused \cup {c}
    BY <1>5 DEF Refused, IInv, Core, TypeOK, BaseState
  <2> QED
    BY <2>1, <1>1, <1>2, <1>3, <1>5
<1>6. ASSUME NEW b \in Bases, LaunchFirst(b)
      PROVE  refused' = refused
             \/ (Refused(b) /\ (bases[b].current = NoId \/ bases[b].current \in DOMAIN failures'))
  BY <1>6 DEF LaunchFirst, Accepted, IInv, Core, Untouched
<1>7. ASSUME NEW id, FailAndRetry(id)
      PROVE  \/ refused' = refused
             \/ \E c \in Bases : Refused(c) /\ bases[c].current \in DOMAIN failures'
  <2>1. CASE Ignored
    BY <2>1 DEF Ignored
  <2>2. CASE ~Ignored
    <3>1. CanFail(id)
      BY <1>7, <2>2 DEF FailAndRetry
    <3>2. attempts[id].base \in Bases /\ bases[attempts[id].base].current = id
      BY <3>1, CanFailLemma DEF IInv, Attempt
    <3>3. id \in DOMAIN failures'
      BY <1>7, <2>2 DEF FailAndRetry, Insert
    <3>4. refused' = refused \/ Refused(attempts[id].base)
      BY <1>7, <2>2 DEF FailAndRetry, Abandoned, Accepted
    <3> QED
      BY <3>2, <3>3, <3>4
  <2> QED
    BY <2>1, <2>2
<1>8. \/ refused' = refused
      \/ \E b \in Bases : LaunchFirst(b)
      \/ \E id \in Ids : FailAndRetry(id)
  BY DEF Next, Step, Message, Wait, LeaveAtTop,
     RecvTimeout, StreamClosed, BeginSweep, RecvTx, RecvSlot, RecvOther, Reconcile,
     TxFailed, GiveUp, Sweep, FailAndClose, Abandoned, Ignored, DeadlinePasses, Over,
     vars, table
<1> QED
  BY <1>4, <1>5, <1>6, <1>7, <1>8

LEMMA FailedTxStep ==
    ASSUME IInv, OutcomeInv, [Next]_vars, pc' = "txFailed", ConfirmedStream
    PROVE  \A id \in work' \cap DOMAIN pending' : ~ReachedConfirmed(pending'[id].stage)
<1>1. ASSUME NEW id \in Ids, NEW slot \in Slots, NEW txFailed \in BOOLEAN,
             RecvTx(id, slot, txFailed)
      PROVE  \A k \in work' \cap DOMAIN pending' : ~ReachedConfirmed(pending'[k].stage)
  <2>1. /\ id \in DOMAIN pending /\ txFailed /\ work' = {id}
        /\ pending' = OnTxStatus(pending, id, slot, txFailed)
        /\ pending[id].stage # "submitted" => pending[id].stage = "failed"
    BY <1>1 DEF RecvTx, TxReportPossible
  <2>2. /\ pending'[id] = Advance(pending[id], "failed")
        /\ pending[id] \in [stage : Stage, slot : Slots \cup {NoSlot}]
    BY <2>1 DEF OnTxStatus, TxStatus, IInv, Core, TypeOK
  <2>3. pending'[id].stage = "failed"
    BY <2>1, <2>2 DEF Advance, CanTransitionTo, Stage
  <2> QED
    BY <2>1, <2>3 DEF ReachedConfirmed
<1>2. CASE UNCHANGED <<pc, work, pending>>
  BY <1>2 DEF OutcomeInv
<1> QED
  BY <1>1, <1>2 DEF Next, Step, Message, LaunchFirst, Wait, LeaveAtTop,
     RecvTimeout, StreamClosed, BeginSweep, RecvSlot, RecvOther, Reconcile,
     TxFailed, GiveUp, Sweep, DeadlinePasses, Over, vars, table

LEMMA OutcomeStep ==
    ASSUME IInv, OutcomeInv, Accounting, [Next]_vars
    PROVE  OutcomeInv'
  BY CountedStep, FlagsStep, RefusedStep, FailedTxStep DEF OutcomeInv

-------------------------------------------------------------------------------
(* The log's invariant.                                                    *)

LEMMA LogInit0 == LogInit => LogInv
<1> SUFFICES ASSUME LogInit PROVE LogInv
  OBVIOUS
<1>1. /\ DOMAIN attempts = {} /\ landed = {} /\ refused = {} /\ rows = [id \in {} |-> <<>>]
      /\ bundles = <<>> /\ pc # "txFailed"
  BY DEF LogInit, Init
<1>2. RowsInv /\ BundlesInv /\ Numbered /\ EntryInv
  BY <1>1 DEF RowsInv, BundlesInv, Numbered, EntryInv
<1>3. OutcomeInv
  BY <1>1 DEF OutcomeInv, NewlyLanded
<1> QED
  BY <1>2, <1>3 DEF LogInv

(* The log keeps up with the saga: announcements, rows and outcomes.       *)
THEOREM LogInductive == LogSpec => []LogInv
<1>1. LogInit => LogInv
  BY LogInit0
<1>2. ASSUME IInv, Accounting, LogInv, [LogNext]_<<vars, logVars>> PROVE LogInv'
  <2>1. [Next]_vars
    BY <1>2, LogStep
  <2>2. RowsInv' /\ BundlesInv' /\ Numbered' /\ EntryInv'
    BY <1>2, RowsStep, BundlesStep, NumberedStep, EntryStep DEF LogInv
  <2>3. OutcomeInv'
    BY <1>2, <2>1, OutcomeStep DEF LogInv
  <2> QED
    BY <2>2, <2>3 DEF LogInv
<1>3. Spec => []Accounting
  BY AccountingInit, AccountingStep, SagaInductive, PTL DEF Spec
<1> QED
  BY <1>1, <1>2, <1>3, SagaInductive, LogRecordsSaga, PTL DEF LogSpec

-------------------------------------------------------------------------------
(* Reading the log.                                                        *)

(* Among any rows of an entry there is a first.                            *)
LEMMA FirstLemma ==
    ASSUME RowsInv, NEW id \in DOMAIN attempts, NEW S, S \subseteq DOMAIN rows[id], S # {}
    PROVE  First(id, S) \in S
<1> DEFINE soon == {i \in S : rows[id][i].early}
<1>1. S \in SUBSET Nat /\ soon \in SUBSET Nat
  BY DEF RowsInv
<1>2. \A i \in S : rows[id][i].early \in BOOLEAN
  <2>1. \A i \in S : rows[id][i] \in LogRow
    BY DEF RowsInv
  <2> QED
    BY <2>1 DEF LogRow
<1>3. \E i \in S : \A j \in S \ {i} : Before(id, i, j)
  <2>1. CASE soon # {}
    <3>1. PICK i \in soon : \A j \in soon : i <= j
      BY <1>1, <2>1, Smallest
    <3>2. \A j \in S \ {i} : Before(id, i, j)
      BY <3>1, <1>1, <1>2 DEF Before
    <3> QED
      BY <3>1, <3>2
  <2>2. CASE soon = {}
    <3>1. PICK i \in S : \A j \in S : i <= j
      BY <1>1, Smallest
    <3>2. \A j \in S \ {i} : Before(id, i, j)
      BY <3>1, <2>2, <1>1, <1>2 DEF Before
    <3> QED
      BY <3>2
  <2> QED
    BY <2>1, <2>2
<1> QED
  BY <1>3 DEF First

LEMMA FirstSlotLemma ==
    ASSUME RowsInv, NEW id \in DOMAIN attempts, SlotKnown(id),
           pending[id].stage \in {"processed", "confirmed", "finalized"}
    PROVE  FirstSlot(id) = pending[id].slot
<1> DEFINE S == {i \in DOMAIN rows[id] : rows[id][i].slot # NoSlot}
<1>1. S # {} /\ \A i \in S : rows[id][i].slot = pending[id].slot
  BY DEF SlotKnown
<1>2. First(id, S) \in S
  <2> HIDE DEF S
  <2>1. S \subseteq DOMAIN rows[id]
    BY DEF S
  <2> QED
    BY <1>1, <2>1, FirstLemma
<1> QED
  BY <1>1, <1>2 DEF FirstSlot

(* The events of a base are its attempts.                                  *)
LEMMA EventsLemma ==
    ASSUME IInv, BundlesInv, NEW b \in Bases
    PROVE  /\ \A e \in Events(b) : /\ e.id \in AttemptsOf(b)
                                   /\ e.attempt = attempts[e.id].no
                                   /\ e.attempt \in 1..MaxAttempts
           /\ \A id \in AttemptsOf(b) : \E e \in Events(b) : e.id = id
           /\ \A e, f \in Events(b) : e.id = f.id => e = f
<1>1. \A e \in Events(b) : \E p \in DOMAIN bundles : e = bundles[p] /\ bundles[p].base = b
  BY DEF Events, ToSet
<1>2. \A p \in DOMAIN bundles : bundles[p].base = b => bundles[p] \in Events(b)
  BY DEF Events, ToSet
<1>3. \A p \in DOMAIN bundles :
         /\ bundles[p].id \in DOMAIN attempts
         /\ bundles[p].base = attempts[bundles[p].id].base
         /\ bundles[p].attempt = attempts[bundles[p].id].no
         /\ bundles[p].attempt \in 1..MaxAttempts
  <2>1. \A p \in DOMAIN bundles : bundles[p] \in Event
    BY DEF BundlesInv
  <2>2. \A p \in DOMAIN bundles : bundles[p].attempt \in 1..MaxAttempts
    BY <2>1 DEF Event
  <2> QED
    BY <2>2 DEF BundlesInv
<1>4. \A e \in Events(b) : /\ e.id \in AttemptsOf(b)
                           /\ e.attempt = attempts[e.id].no
                           /\ e.attempt \in 1..MaxAttempts
  BY <1>1, <1>3 DEF AttemptsOf
<1>5. \A id \in AttemptsOf(b) : \E e \in Events(b) : e.id = id
  <2> SUFFICES ASSUME NEW id \in AttemptsOf(b) PROVE \E e \in Events(b) : e.id = id
    OBVIOUS
  <2>1. PICK p \in DOMAIN bundles : bundles[p].id = id
    BY DEF BundlesInv, AttemptsOf
  <2>2. bundles[p].base = b
    BY <2>1, <1>3 DEF AttemptsOf
  <2> QED
    BY <2>1, <2>2, <1>2
<1>6. \A e, f \in Events(b) : e.id = f.id => e = f
  BY <1>1 DEF BundlesInv
<1> QED
  BY <1>4, <1>5, <1>6

(* Of any of them one is the latest.                                       *)
LEMMA LatestLemma ==
    ASSUME IInv, BundlesInv, NEW b \in Bases, NEW E, E \subseteq Events(b), E # {}
    PROVE  Latest(E) \in E /\ \A f \in E : f.attempt <= Latest(E).attempt
<1> DEFINE S == {MaxAttempts - e.attempt : e \in E}
<1>1. \A e \in E : e.attempt \in 1..MaxAttempts /\ MaxAttempts \in Nat
  BY EventsLemma, SagaAssumption
<1>2. S \in SUBSET Nat /\ S # {}
  BY <1>1
<1>3. PICK m \in S : \A k \in S : m <= k
  BY <1>2, Smallest
<1>4. PICK e \in E : m = MaxAttempts - e.attempt
  BY <1>3
<1>5. \A f \in E : f.attempt <= e.attempt
  <2> SUFFICES ASSUME NEW f \in E PROVE f.attempt <= e.attempt
    OBVIOUS
  <2>1. m <= MaxAttempts - f.attempt
    BY <1>3
  <2> QED
    BY <2>1, <1>1, <1>4
<1> QED
  BY <1>5 DEF Latest

(* The latest event of a base is the one of its current attempt, which is  *)
(* numbered by how many there are.                                         *)
LEMMA CurrentEvent ==
    ASSUME IInv, BundlesInv, Numbered, NEW b \in Bases, AttemptsOf(b) # {}
    PROVE  /\ Events(b) # {}
           /\ Latest(Events(b)) \in Events(b)
           /\ Latest(Events(b)).id = bases[b].current
           /\ Latest(Events(b)).attempt = Cardinality(AttemptsOf(b))
           /\ bases[b].current \in AttemptsOf(b)
<1> DEFINE last == Latest(Events(b))
           cur == bases[b].current
           n == attempts[cur].no
<1>1. Events(b) # {}
  BY EventsLemma
<1>2. last \in Events(b) /\ \A f \in Events(b) : f.attempt <= last.attempt
  BY <1>1, LatestLemma
<1>3. cur \in AttemptsOf(b) /\ \A id \in AttemptsOf(b) : attempts[id].no <= n
  BY DEF IInv, Core, CurrentIsNewest, AttemptsOf
<1>4. \A id \in AttemptsOf(b) : id = TxId[b][attempts[id].no] /\ attempts[id].no \in 1..MaxAttempts
  BY DEF IInv, Core, TypeOK, TablesAgree, AttemptsOf, Attempt
<1>5. last.attempt = n /\ last.id = cur
  <2>1. last.id \in AttemptsOf(b) /\ last.attempt = attempts[last.id].no /\ last.attempt <= n
    BY <1>2, <1>3, EventsLemma
  <2>2. PICK f \in Events(b) : f.id = cur /\ f.attempt = n
    BY <1>3, EventsLemma
  <2>3. n <= last.attempt
    BY <1>2, <2>2
  <2>4. n \in Nat /\ last.attempt \in Nat
    BY <1>3, <1>4, <2>1, SagaAssumption
  <2> HIDE DEF last, cur, n
  <2>5. n = last.attempt
    BY <2>1, <2>3, <2>4
  <2> QED
    BY <2>1, <2>5, <1>3, <1>4 DEF n
<1>6. Cardinality(AttemptsOf(b)) = n
  <2> DEFINE f == [k \in 1..n |-> TxId[b][k]]
  <2>1. n \in Nat /\ n \in 1..MaxAttempts /\ 1..n \subseteq 1..MaxAttempts
    BY <1>3, <1>4, SagaAssumption
  <2>2. \A k \in 1..n : TxId[b][k] \in AttemptsOf(b)
    <3> SUFFICES ASSUME NEW k \in 1..n PROVE TxId[b][k] \in AttemptsOf(b)
      OBVIOUS
    <3>1. cur \in DOMAIN attempts /\ attempts[cur].base = b
      BY <1>3 DEF AttemptsOf
    <3>2. TxId[b][k] \in DOMAIN attempts
      BY <3>1 DEF Numbered
    <3>3. /\ attempts[TxId[b][k]] \in Attempt
          /\ TxId[b][k] = TxId[attempts[TxId[b][k]].base][attempts[TxId[b][k]].no]
      BY <3>2 DEF IInv, Core, TypeOK, TablesAgree
    <3>4. attempts[TxId[b][k]].base = b
      BY <3>3, <2>1, DistinctTransactions DEF Attempt
    <3> QED
      BY <3>2, <3>4 DEF AttemptsOf
  <2>3. \A id \in AttemptsOf(b) : \E k \in 1..n : TxId[b][k] = id
    <3> HIDE DEF n
    <3>1. \A id \in AttemptsOf(b) : attempts[id].no \in 1..n
      BY <1>3, <1>4, <2>1, SagaAssumption
    <3> QED
      BY <3>1, <1>4
  <2>4. \A k, m \in 1..n : TxId[b][k] = TxId[b][m] => k = m
    BY <2>1, DistinctTransactions
  <2> HIDE DEF n
  <2>5. f \in Bijection(1..n, AttemptsOf(b))
    BY <2>2, <2>3, <2>4 DEF Bijection, Injection, Surjection, IsInjective
  <2>6. IsFiniteSet(1..n) /\ Cardinality(1..n) = n
    BY <2>1, FS_Interval
  <2>7. Cardinality(AttemptsOf(b)) = Cardinality(1..n)
    BY <2>5, <2>6, FS_Bijection DEF ExistsBijection
  <2> QED
    BY <2>6, <2>7
<1> QED
  BY <1>1, <1>2, <1>3, <1>5, <1>6

-------------------------------------------------------------------------------
(* The receipt.                                                            *)

(* When the run is over the landed entries are the counted landings.       *)
LEMMA OverLemma ==
    ASSUME IInv, LogInv, LandingHolds, ConfirmedStream, pc = "over", NEW id \in DOMAIN attempts
    PROVE  EntryLanded(id) <=> id \in landed
<1>1. NewlyLanded = {}
  BY DEF LogInv, OutcomeInv
<1>2. ReachedConfirmed(pending[id].stage) => id \in landed
  BY <1>1 DEF NewlyLanded, IInv, Core, TablesAgree
<1>3. id \in landed => ReachedConfirmed(pending[id].stage)
  BY DEF LandingHolds
<1> QED
  BY <1>2, <1>3 DEF LogInv, EntryInv

(* An unsettled failure is that of the current attempt.                    *)
LEMMA FailedLemma ==
    ASSUME IInv, LogInv, SettledAtEnd, pc = "over", NEW b \in Bases,
           AttemptsOf(b) # {}, AttemptsOf(b) \cap landed = {}
    PROVE  bases[b].current \in DOMAIN failures
<1>1. bases[b].current # NoId
  BY DEF IInv, Core, CurrentIsNewest, AttemptsOf
<1> QED
  BY <1>1 DEF SettledAtEnd, LogInv, OutcomeInv

LEMMA RecoveredLemma ==
    ASSUME IInv, LogInv, ConfirmedStream, NEW b \in Bases, Recovered(b)
    PROVE  RecoveryIsReal(b)
<1>1. Events(b) # {}
  BY DEF Recovered
<1>2. AttemptsOf(b) # {}
  BY <1>1, EventsLemma DEF LogInv
<1>3. Latest(Events(b)).id = bases[b].current /\ bases[b].current \in AttemptsOf(b)
  BY <1>2, CurrentEvent DEF LogInv
<1>4. ReachedConfirmed(pending[bases[b].current].stage)
  BY <1>3 DEF Recovered, LogInv, EntryInv, AttemptsOf
<1>5. ASSUME NEW id \in AttemptsOf(b) \ {bases[b].current}
      PROVE  id \in DOMAIN failures /\ IsRetryable(failures[id])
  <2> DEFINE n == attempts[id].no
             cur == bases[b].current
             next == TxId[b][n + 1]
  <2>1. /\ id \in DOMAIN attempts /\ attempts[id].base = b /\ n \in 1..MaxAttempts
        /\ id = TxId[b][n]
        /\ cur \in DOMAIN attempts /\ attempts[cur].base = b /\ attempts[cur].no \in 1..MaxAttempts
        /\ cur = TxId[b][attempts[cur].no] /\ n <= attempts[cur].no
    BY <1>3 DEF IInv, Core, TypeOK, TablesAgree, CurrentIsNewest, AttemptsOf, Attempt
  <2>2. n + 1 \in 1..attempts[cur].no /\ n + 1 \in 1..MaxAttempts /\ n + 1 > 1 /\ n + 1 - 1 = n
    BY <2>1, SagaAssumption
  <2>3. next \in DOMAIN attempts
    BY <2>1, <2>2 DEF LogInv, Numbered
  <2>4. attempts[next].base = b /\ attempts[next].no = n + 1
    <3>1. /\ attempts[next] \in Attempt
          /\ next = TxId[attempts[next].base][attempts[next].no]
      <4>1. attempts \in [DOMAIN attempts -> Attempt] /\ TablesAgree
        BY Zenon DEF IInv, Core, TypeOK
      <4> HIDE DEF next
      <4> QED
        BY <2>3, <4>1 DEF TablesAgree
    <3>2. attempts[next].base \in Bases /\ attempts[next].no \in 1..MaxAttempts
      BY Zenon, <3>1 DEF Attempt
    <3>3. TxId[b][n + 1] = TxId[attempts[next].base][attempts[next].no]
      BY Zenon, <3>1
    <3> HIDE DEF n, next
    <3> QED
      BY <3>2, <3>3, <2>2, DistinctTransactions
  <2> HIDE DEF n, cur, next
  <2>5. PICK prev \in AttemptsOf(b) \cap DOMAIN failures :
             attempts[prev].no = n /\ IsRetryable(failures[prev])
    <3>1. attempts[next].no > 1
      BY <2>2, <2>4
    <3>2. \E prev \in AttemptsOf(attempts[next].base) \cap DOMAIN failures :
             /\ attempts[prev].no = attempts[next].no - 1
             /\ IsRetryable(failures[prev])
      BY <2>3, <3>1 DEF IInv, Core, RetryFollowsPolicy
    <3>3. AttemptsOf(attempts[next].base) = AttemptsOf(b)
      BY <2>4
    <3>4. attempts[next].no - 1 = n
      BY <2>1, <2>4, SagaAssumption
    <3> QED
      BY <3>2, <3>3, <3>4
  <2>6. prev = TxId[b][attempts[prev].no]
    BY DEF IInv, Core, TablesAgree, AttemptsOf
  <2> QED
    BY <2>1, <2>2, <2>5, <2>6
<1> QED
  BY <1>4, <1>5 DEF RecoveryIsReal

LEMMA ReceiptLemma ==
    ASSUME IInv, LogInv, LandingHolds, SettledAtEnd, ConfirmedStream, pc = "over", NEW b \in Bases
    PROVE  LET receipt == Receipt(b)
           IN  /\ receipt.attempts = Cardinality(AttemptsOf(b))
               /\ IF AttemptsOf(b) \cap landed # {}
                  THEN /\ receipt.outcome = "landed"
                       /\ receipt.id \in landed
                       /\ receipt.slot = pending[receipt.id].slot
                  ELSE /\ receipt.outcome = "failed"
                       /\ AttemptsOf(b) # {} => receipt.class = failures[bases[b].current]
<1> DEFINE won == {e \in Events(b) : EntryLanded(e.id)}
           last == Latest(Events(b))
<1>1. BundlesInv /\ Numbered /\ RowsInv /\ EntryInv
  BY DEF LogInv
<1>2. \A e \in Events(b) : e.id \in AttemptsOf(b) /\ e.id \in DOMAIN attempts
  BY <1>1, EventsLemma DEF AttemptsOf
<1>3. won # {} <=> AttemptsOf(b) \cap landed # {}
  <2>1. \A id \in AttemptsOf(b) : EntryLanded(id) <=> id \in landed
    BY OverLemma DEF AttemptsOf
  <2> QED
    BY <2>1, <1>1, <1>2, EventsLemma
<1>4. CASE won # {}
  <2> DEFINE w == Latest(won).id
  <2>1. Latest(won) \in won
    BY <1>1, <1>4, LatestLemma
  <2>2. w \in DOMAIN attempts /\ EntryLanded(w) /\ AttemptsOf(b) # {}
    BY <2>1, <1>2
  <2>3. w \in landed
    BY <2>2, OverLemma
  <2>4. SlotKnown(w) /\ ReachedConfirmed(pending[w].stage)
    BY <2>2, <1>1 DEF EntryInv
  <2>5. FirstSlot(w) = pending[w].slot
    BY <2>2, <2>4, <1>1, FirstSlotLemma DEF ReachedConfirmed
  <2>6. last.attempt = Cardinality(AttemptsOf(b))
    BY <2>2, <1>1, CurrentEvent
  <2>7. Receipt(b) = LandedReceipt(b, w)
    BY <1>4 DEF Receipt
  <2> HIDE DEF w, last
  <2>8. /\ Receipt(b).outcome = "landed" /\ Receipt(b).id = w
        /\ Receipt(b).slot = FirstSlot(w) /\ Receipt(b).attempts = last.attempt
    BY <2>7 DEF LandedReceipt, last
  <2> HIDE DEF won
  <2> QED
    BY <2>3, <2>5, <2>6, <2>8, <1>3, <1>4
<1>5. CASE won = {}
  <2>1. Receipt(b) = FailedReceipt(b)
    BY <1>5 DEF Receipt
  <2>2. CASE Events(b) = {}
    <3>1. AttemptsOf(b) = {}
      BY <2>2, <1>1, EventsLemma
    <3>2. Receipt(b).outcome = "failed" /\ Receipt(b).attempts = 0
      BY <2>1, <2>2 DEF FailedReceipt
    <3> QED
      BY <3>1, <3>2, FS_EmptySet
  <2>3. CASE Events(b) # {}
    <3>1. AttemptsOf(b) # {}
      BY <2>3, <1>2
    <3>2. last.id = bases[b].current /\ last.attempt = Cardinality(AttemptsOf(b))
      BY <3>1, <1>1, CurrentEvent
    <3>3. bases[b].current \in DOMAIN failures
      BY <3>1, <1>3, <1>5, FailedLemma
    <3>4. FailedReceipt(b) = [outcome |-> "failed", attempts |-> last.attempt,
              class |-> IF last.id \in DOMAIN failures THEN failures[last.id] ELSE "none"]
      BY <2>3 DEF FailedReceipt
    <3> HIDE DEF last
    <3>5. /\ Receipt(b).outcome = "failed" /\ Receipt(b).attempts = last.attempt
          /\ Receipt(b).class = failures[bases[b].current]
      BY <2>1, <3>2, <3>3, <3>4
    <3> QED
      BY <3>2, <3>5, <1>3, <1>5
  <2> QED
    BY <2>2, <2>3
<1> QED
  BY <1>4, <1>5

(* On a confirmed stream the receipts read off the telemetry of a finished *)
(* run agree with what the saga counted, and its recoveries are real.      *)
THEOREM ReceiptsAreOutcomes == ConfirmedStream => (LogSpec => []ReceiptIsOutcome)
<1> SUFFICES ASSUME ConfirmedStream PROVE LogSpec => []ReceiptIsOutcome
  OBVIOUS
<1>1. IInv /\ LogInv /\ LandingHolds /\ SettledAtEnd => ReceiptIsOutcome
  BY ReceiptLemma, RecoveredLemma DEF ReceiptIsOutcome
<1> QED
  BY <1>1, LogInductive, LogRecordsSaga, SagaInductive, SagaLandingHolds, SagaSettledAtEnd, PTL

LEMMA FinalStageLemma ==
    ASSUME RowsInv, NEW id \in DOMAIN attempts, \A r \in ToSet(rows[id]) : ~r.early
    PROVE  FinalStage(id) = pending[id].stage
<1>1. rows[id] \in Seq(LogRow) /\ rows[id] # <<>> /\ Last(rows[id]).stage = pending[id].stage
  BY DEF RowsInv
<1>2. /\ Len(rows[id]) \in DOMAIN rows[id] /\ Last(rows[id]) = rows[id][Len(rows[id])]
      /\ DOMAIN rows[id] \subseteq Nat /\ \A i \in DOMAIN rows[id] : i <= Len(rows[id])
  BY <1>1, LastOfSeq
<1>3. \A i, j \in DOMAIN rows[id] : Before(id, j, i) <=> j < i
  <2>1. \A i \in DOMAIN rows[id] : ~rows[id][i].early /\ rows[id][i] \in LogRow
    BY <1>1 DEF ToSet
  <2>2. \A i \in DOMAIN rows[id] : rows[id][i].early = FALSE
    BY <2>1 DEF LogRow
  <2> QED
    BY <2>2 DEF Before
<1> DEFINE IsLast(i) == \A j \in DOMAIN rows[id] \ {i} : Before(id, j, i)
<1>4. IsLast(Len(rows[id])) /\ \A i \in DOMAIN rows[id] : IsLast(i) => i = Len(rows[id])
  BY <1>2, <1>3
<1> HIDE DEF IsLast
<1>5. (CHOOSE i \in DOMAIN rows[id] : IsLast(i)) = Len(rows[id])
  BY <1>2, <1>4
<1> QED
  BY <1>1, <1>2, <1>5 DEF FinalStage, IsLast

LEMMA FinalStageOver ==
    ASSUME IInv, LogInv, NEW b \in Bases, Receipt(b).outcome = "landed",
           \A r \in ToSet(rows[Receipt(b).id]) : ~r.early
    PROVE  Receipt(b).stage = pending[Receipt(b).id].stage
<1> DEFINE won == {e \in Events(b) : EntryLanded(e.id)}
           w == Latest(won).id
<1>1. BundlesInv /\ RowsInv
  BY DEF LogInv
<1>2. won # {}
  <2>1. FailedReceipt(b).outcome = "failed"
    BY DEF FailedReceipt
  <2> QED
    BY <2>1 DEF Receipt
<1>3. Receipt(b) = LandedReceipt(b, w)
  BY <1>2 DEF Receipt
<1>4. w \in DOMAIN attempts
  <2>1. Latest(won) \in won
    BY <1>1, <1>2, LatestLemma
  <2> QED
    BY <2>1, <1>1, EventsLemma DEF AttemptsOf
<1> HIDE DEF w, won
<1>5. Receipt(b).id = w /\ Receipt(b).stage = FinalStage(w)
  BY <1>3 DEF LandedReceipt
<1> QED
  BY <1>1, <1>4, <1>5, FinalStageLemma

(* A receipt names the commitment its attempt has, if no report overtook   *)
(* the return of its submission.                                           *)
THEOREM FinalStagesAreTimely == LogSpec => []FinalStageIfTimely
<1>1. IInv /\ LogInv => FinalStageIfTimely
  BY FinalStageOver DEF FinalStageIfTimely
<1> QED
  BY <1>1, LogInductive, LogRecordsSaga, SagaInductive, PTL

-------------------------------------------------------------------------------
(* The view.                                                               *)

(* What is announced in a step is the one submission of it.                *)
LEMMA AnnouncedLemma ==
    ASSUME IInv, LogInv, [LogNext]_<<vars, logVars>>
    PROVE  \/ /\ Announced = {} /\ bundles' = bundles /\ attempts' = attempts
              /\ \A id \in DOMAIN attempts : Recorded(id)
           \/ \E b, n, id : /\ Announced = {id} /\ id = TxId[b][n]
                            /\ EntryAdded(id, b, n)
                            /\ bundles' = Append(bundles, [id |-> id, base |-> b, attempt |-> n])
<1>1. RowsInv /\ BundlesInv
  BY DEF LogInv
<1>2. ASSUME bundles' = bundles PROVE Announced = {}
  <2>1. bundles \in Seq(Event)
    BY <1>1 DEF BundlesInv
  <2> QED
    BY <1>2, <2>1 DEF Announced
<1>3. CASE Reported
  BY <1>2, <1>3 DEF Reported
<1>4. CASE UNCHANGED <<pending, attempts, bundles, rows>>
  BY <1>2, <1>4 DEF Recorded
<1>5. ASSUME NEW b, NEW n, Submits(b, n), Announces(b, n)
      PROVE  \E id : /\ Announced = {id} /\ id = TxId[b][n]
                     /\ EntryAdded(id, b, n)
                     /\ bundles' = Append(bundles, [id |-> id, base |-> b, attempt |-> n])
  <2>1. PICK id : id = TxId[b][n] /\ EntryAdded(id, b, n)
    BY <1>1, <1>5, AnnouncedTables
  <2> DEFINE e == [id |-> id, base |-> b, attempt |-> n]
  <2>2. bundles' = Append(bundles, e) /\ bundles \in Seq(Event) /\ e \in Event /\ e.id = id
    BY <1>1, <1>5, <2>1 DEF Announces, BundlesInv, Event, Submits, EntryAdded
  <2> HIDE DEF e
  <2>3. /\ (Len(bundles) + 1)..Len(bundles') = {Len(bundles) + 1}
        /\ bundles'[Len(bundles) + 1] = e
    BY <2>2
  <2>4. Announced = {id}
    BY <2>2, <2>3 DEF Announced
  <2> QED
    BY <2>1, <2>2, <2>4 DEF e
<1> QED
  BY <1>1, <1>3, <1>4, <1>5, LogCases DEF SubmissionAnnounced

LEMMA PublishedLemma ==
    ASSUME NEW id
    PROVE  /\ <<"bundle", id>> \in Published <=> id \in Announced
           /\ <<"lifecycle", id>> \in Published <=> id \in Advanced
           /\ <<"failure", id>> \in Published <=> id \in GivenUp
  BY DEF Published

(* What a step does to the tables the view is told about.                  *)
LEMMA ToldLemma ==
    ASSUME IInv, LogInv, LogInv', [LogNext]_<<vars, logVars>>
    PROVE  /\ DOMAIN attempts \subseteq DOMAIN attempts'
           /\ DOMAIN rows = DOMAIN attempts /\ DOMAIN rows' = DOMAIN attempts'
           /\ \A id \in DOMAIN attempts : ToSet(rows[id]) \subseteq ToSet(rows'[id])
           /\ \A id \in DOMAIN attempts' : /\ Last(rows'[id]) \in LogRow
                                           /\ Last(rows'[id]) \in ToSet(rows'[id])
                                           /\ Last(rows'[id]).stage = pending'[id].stage
           /\ \A id \in DOMAIN attempts \ Advanced : pending'[id].stage = pending[id].stage
           /\ Announced \cap DOMAIN attempts = {}
           /\ \A id \in Announced : /\ id \in DOMAIN attempts' /\ id \in Advanced /\ id \in Ids
                                    /\ id \notin DOMAIN failures'
<1>1. RowsInv /\ RowsInv' /\ OutcomeInv
  BY DEF LogInv
<1>2. [Next]_vars
  BY LogStep DEF vars, logVars
<1>3. DOMAIN attempts \subseteq DOMAIN attempts' /\ DOMAIN rows = DOMAIN attempts
      /\ DOMAIN rows' = DOMAIN attempts'
  BY <1>1, <1>2, AttemptsKept DEF RowsInv
<1>4. \A id \in DOMAIN attempts' : /\ Last(rows'[id]) \in LogRow
                                   /\ Last(rows'[id]) \in ToSet(rows'[id])
                                   /\ Last(rows'[id]).stage = pending'[id].stage
  <2> SUFFICES ASSUME NEW id \in DOMAIN attempts'
               PROVE  /\ Last(rows'[id]) \in LogRow
                      /\ Last(rows'[id]) \in ToSet(rows'[id])
                      /\ Last(rows'[id]).stage = pending'[id].stage
    OBVIOUS
  <2>1. rows'[id] \in Seq(LogRow) /\ rows'[id] # <<>> /\ Last(rows'[id]).stage = pending'[id].stage
    BY <1>1 DEF RowsInv
  <2>2. /\ Last(rows'[id]) \in LogRow /\ Last(rows'[id]) = rows'[id][Len(rows'[id])]
        /\ Len(rows'[id]) \in DOMAIN rows'[id]
    BY <2>1, LastOfSeq
  <2> QED
    BY <2>1, <2>2 DEF ToSet
<1>5. ASSUME NEW id \in DOMAIN attempts, Recorded(id)
      PROVE  /\ ToSet(rows[id]) \subseteq ToSet(rows'[id])
             /\ id \notin Advanced => pending'[id].stage = pending[id].stage
  <2>1. /\ DOMAIN rows[id] \subseteq DOMAIN rows'[id]
        /\ \A i \in DOMAIN rows[id] : rows'[id][i] = rows[id][i]
    BY <1>1, <1>5, RecordedRow
  <2>2. ToSet(rows[id]) \subseteq ToSet(rows'[id])
    BY <2>1 DEF ToSet
  <2>3. id \notin Advanced => pending'[id].stage = pending[id].stage
    <3>1. rows'[id] = rows[id] \/ id \in Advanced
      BY <1>1, <1>3, <1>5, RecordedRow DEF Advanced
    <3>2. rows'[id] = rows[id] => pending'[id].stage = pending[id].stage
      BY <1>1, <1>4, <1>3 DEF RowsInv
    <3> QED
      BY <3>1, <3>2
  <2> QED
    BY <2>2, <2>3
<1>6. DOMAIN failures' \subseteq DOMAIN attempts
  <2>1. DOMAIN failures \subseteq DOMAIN attempts
    BY DEF IInv, Core, TablesAgree
  <2>2. \A id \in DOMAIN failures' \ DOMAIN failures : GivesUp(id)
    BY <1>1, <1>2, FailuresStep
  <2> QED
    BY <2>1, <2>2 DEF GivesUp
<1>7. CASE Announced = {} /\ \A id \in DOMAIN attempts : Recorded(id)
  BY <1>3, <1>4, <1>5, <1>7
<1>8. ASSUME NEW b, NEW n, NEW id, Announced = {id}, EntryAdded(id, b, n)
      PROVE  /\ \A k \in DOMAIN attempts : Recorded(k)
             /\ id \notin DOMAIN attempts /\ id \in DOMAIN attempts' /\ id \in Advanced /\ id \in Ids
             /\ id \notin DOMAIN failures'
  <2>1. id \notin DOMAIN attempts /\ id \in DOMAIN attempts' /\ id \in Ids
        /\ \A k \in DOMAIN attempts : rows'[k] = rows[k] /\ pending'[k] = pending[k]
    BY <1>8 DEF EntryAdded
  <2>2. id \in Advanced
    BY <2>1, <1>3 DEF Advanced
  <2>3. \A k \in DOMAIN attempts : Recorded(k)
    BY <2>1 DEF Recorded
  <2> QED
    BY <2>1, <2>2, <2>3, <1>6
<1> QED
  BY <1>3, <1>4, <1>5, <1>7, <1>8, AnnouncedLemma

-------------------------------------------------------------------------------
(* The fold, row by row.                                                   *)

Failed1(row, events) ==
    IF <<"failure", row.id>> \notin events THEN row
    ELSE [row EXCEPT !.class = failures'[row.id],
                     !.stage = IF @ \in FailureStages THEN @ ELSE "failed"]

Moved(row, events) ==
    IF <<"lifecycle", row.id>> \notin events THEN row
    ELSE LET event == Last(rows'[row.id]) IN
         [row EXCEPT !.stage = event.stage,
                     !.slot  = IF event.slot = NoSlot THEN @ ELSE event.slot]

Folded(row, events) == Moved(Failed1(row, events), events)

(* What a failure event does to a row, and a lifecycle event.              *)
FailedOk(row, f, events) ==
    /\ f \in ViewRow /\ f.id = row.id /\ f.slot = row.slot
    /\ row.id \notin GivenUp \/ events = {} => f = row
    /\ row.id \in GivenUp /\ events = Published =>
          /\ f.class = failures'[row.id]
          /\ f.stage \in {row.stage, "failed"} /\ f.stage \in FailureStages

MovedOk(row, f, events) ==
    /\ f \in ViewRow /\ f.id = row.id /\ f.class = row.class
    /\ row.id \notin Advanced \/ events = {} => f = row
    /\ row.id \in Advanced /\ events = Published =>
          /\ f.stage = Last(rows'[row.id]).stage
          /\ f.slot \in {row.slot, Last(rows'[row.id]).slot}

(* The latest row of an entry that got one.                               *)
LastRows == \A id \in Advanced : Last(rows'[id]) \in LogRow

LEMMA FailedRow ==
    ASSUME IInv', NEW events, events = {} \/ events = Published, NEW row \in ViewRow
    PROVE  FailedOk(row, Failed1(row, events), events)
<1>1. <<"failure", row.id>> \in events <=> row.id \in GivenUp /\ events = Published
  BY PublishedLemma
<1>2. row.id \in GivenUp => failures'[row.id] \in FailureClass
  BY DEF GivenUp, IInv, Core, TypeOK
<1>3. CASE row.id \in GivenUp /\ events = Published
  <2> DEFINE s == IF row.stage \in FailureStages THEN row.stage ELSE "failed"
             c == [row EXCEPT !.class = failures'[row.id]]
  <2>1. Failed1(row, events) = [c EXCEPT !.stage = s]
    BY <1>1, <1>3 DEF Failed1, ViewRow
  <2>2. c \in ViewRow /\ c.id = row.id /\ c.slot = row.slot /\ c.class = failures'[row.id]
    BY <1>2, <1>3 DEF ViewRow
  <2>3. s \in Stage /\ s \in FailureStages /\ (s = row.stage \/ s = "failed")
    BY DEF ViewRow, Stage, FailureStages
  <2> HIDE DEF s, c
  <2>4. LET f == Failed1(row, events) IN
        /\ f \in ViewRow /\ f.id = row.id /\ f.slot = row.slot /\ f.class = failures'[row.id]
        /\ f.stage = s
    BY <2>1, <2>2, <2>3 DEF ViewRow
  <2>5. events # {}
    BY <1>1, <1>3
  <2> QED
    BY <2>3, <2>4, <2>5, <1>3 DEF FailedOk
<1>4. CASE ~(row.id \in GivenUp /\ events = Published)
  <2>1. Failed1(row, events) = row
    BY <1>1, <1>4 DEF Failed1
  <2> QED
    BY <2>1, <1>4 DEF FailedOk
<1> QED
  BY <1>3, <1>4

LEMMA MovedRow ==
    ASSUME LastRows, NEW events, events = {} \/ events = Published, NEW row \in ViewRow
    PROVE  MovedOk(row, Moved(row, events), events)
<1>1. <<"lifecycle", row.id>> \in events <=> row.id \in Advanced /\ events = Published
  BY PublishedLemma
<1>2. row.id \in Advanced => Last(rows'[row.id]) \in LogRow
  BY DEF LastRows
<1>3. CASE row.id \in Advanced /\ events = Published
  <2> DEFINE event == Last(rows'[row.id])
             s == IF event.slot = NoSlot THEN row.slot ELSE event.slot
             c == [row EXCEPT !.stage = event.stage]
  <2>1. Moved(row, events) = [c EXCEPT !.slot = s]
    BY <1>1, <1>3 DEF Moved, ViewRow
  <2>2. event.stage \in Stage /\ event.slot \in Slots \cup {NoSlot}
    BY <1>2, <1>3 DEF LogRow
  <2>3. s \in Slots \cup {NoSlot} /\ (s = row.slot \/ s = event.slot)
    BY <2>2 DEF ViewRow
  <2> HIDE DEF s, event
  <2>4. c \in ViewRow /\ c.id = row.id /\ c.stage = event.stage /\ c.class = row.class
    BY <2>2 DEF ViewRow
  <2> HIDE DEF c
  <2>5. LET f == Moved(row, events) IN
        /\ f \in ViewRow /\ f.id = row.id /\ f.slot = s /\ f.class = row.class
        /\ f.stage = event.stage
    BY <2>1, <2>3, <2>4 DEF ViewRow
  <2>6. events # {}
    BY <1>1, <1>3
  <2> QED
    BY <2>3, <2>5, <2>6, <1>3 DEF event, MovedOk
<1>4. CASE ~(row.id \in Advanced /\ events = Published)
  <2>1. Moved(row, events) = row
    BY <1>1, <1>4 DEF Moved
  <2> QED
    BY <2>1, <1>4 DEF MovedOk
<1> QED
  BY <1>3, <1>4

(* What the events of a step make of a row.                                *)
FoldedOk(row, f, events) ==
    /\ f \in ViewRow /\ f.id = row.id
    /\ events = {} => f = row
    /\ events = Published =>
          /\ f.class = IF row.id \in GivenUp THEN failures'[row.id] ELSE row.class
          /\ row.id \in Advanced =>
                /\ f.stage = Last(rows'[row.id]).stage
                /\ f.slot \in {row.slot, Last(rows'[row.id]).slot}
          /\ row.id \notin Advanced =>
                /\ f.slot = row.slot
                /\ f.stage = row.stage \/ (row.id \in GivenUp /\ f.stage = "failed")
                /\ row.id \in GivenUp => f.stage \in FailureStages

LEMMA FoldedRow ==
    ASSUME IInv', LastRows, NEW events, events = {} \/ events = Published, NEW row \in ViewRow
    PROVE  FoldedOk(row, Folded(row, events), events)
<1> DEFINE g == Failed1(row, events)
           f == Moved(g, events)
<1>1. FailedOk(row, g, events)
  BY FailedRow
<1>2. MovedOk(g, f, events)
  BY <1>1, MovedRow DEF FailedOk
<1>3. f = Folded(row, events)
  BY DEF Folded
<1> HIDE DEF f, g
<1>4. /\ g \in ViewRow /\ g.id = row.id /\ g.slot = row.slot
      /\ f \in ViewRow /\ f.id = row.id /\ f.class = g.class
  BY <1>1, <1>2 DEF FailedOk, MovedOk
<1>5. events = {} => f = row
  BY <1>1, <1>2 DEF FailedOk, MovedOk
<1>6. CASE events = Published /\ row.id \in GivenUp
  <2>1. /\ g.class = failures'[row.id]
        /\ g.stage \in {row.stage, "failed"} /\ g.stage \in FailureStages
    BY <1>1, <1>6 DEF FailedOk
  <2>2. row.id \notin Advanced => f = g
    BY <1>2, <1>4 DEF MovedOk
  <2>3. row.id \in Advanced => /\ f.stage = Last(rows'[row.id]).stage
                               /\ f.slot \in {row.slot, Last(rows'[row.id]).slot}
    BY <1>2, <1>4, <1>6 DEF MovedOk
  <2>4. f.class = failures'[row.id]
    BY <2>1, <1>4
  <2>5. row.id \notin Advanced => /\ f.slot = row.slot /\ f.stage \in {row.stage, "failed"}
                                  /\ f.stage \in FailureStages
    BY <2>1, <2>2, <1>4
  <2> QED
    BY <2>3, <2>4, <2>5, <1>3, <1>4, <1>5, <1>6 DEF FoldedOk
<1>7. CASE events = Published /\ row.id \notin GivenUp
  <2>1. g = row
    BY <1>1, <1>7 DEF FailedOk
  <2>2. row.id \notin Advanced => f = row
    BY <2>1, <1>2, <1>4 DEF MovedOk
  <2>3. row.id \in Advanced => /\ f.stage = Last(rows'[row.id]).stage
                               /\ f.slot \in {row.slot, Last(rows'[row.id]).slot}
    BY <2>1, <1>2, <1>7 DEF MovedOk
  <2>4. f.class = row.class
    BY <2>1, <1>4
  <2> QED
    BY <2>2, <2>3, <2>4, <1>3, <1>4, <1>5, <1>7 DEF FoldedOk
<1>8. CASE events # Published
  BY <1>3, <1>4, <1>5, <1>8 DEF FoldedOk
<1> QED
  BY <1>6, <1>7, <1>8

LEMMA SameLength ==
    ASSUME NEW S, NEW T, NEW s \in Seq(S), NEW f \in [DOMAIN s -> T]
    PROVE  f \in Seq(T) /\ Len(f) = Len(s) /\ DOMAIN f = DOMAIN s
<1>1. DOMAIN s = 1..Len(s) /\ Len(s) \in Nat
  OBVIOUS
<1> QED
  BY <1>1

(* The table after the events: every row folded, or also a new row and     *)
(* perhaps the first row gone.                                             *)
Kept(t, events) ==
    /\ Len(t) = Len(view)
    /\ \A i \in DOMAIN view : FoldedOk(view[i], t[i], events)

Extended(t, x, k) ==
    /\ k \in {0, 1}
    /\ k = 1 => Len(view) = window
    /\ Len(t) = Len(view) + 1 - k
    /\ \A i \in 1..(Len(view) - k) : FoldedOk(view[i + k], t[i], Published)
    /\ FoldedOk(NewRow(x), t[Len(t)], Published)

LEMMA FoldKept ==
    ASSUME IInv', LastRows, ViewInv, NEW events, events = {} \/ events = Published,
           events = {} \/ Announced = {}
    PROVE  Fold(events) \in Seq(ViewRow) /\ Kept(Fold(events), events)
<1> DEFINE t == OnFailure(view, events)
<1>1. view \in Seq(ViewRow) /\ \A i \in DOMAIN view : view[i] \in ViewRow
  BY DEF ViewInv
<1>2. /\ t = [i \in DOMAIN view |-> t[i]]
      /\ \A i \in DOMAIN view : t[i] = Failed1(view[i], events)
  BY DEF OnFailure, Failed1
<1>3. \A i \in DOMAIN view : t[i] \in ViewRow
  BY <1>1, <1>2, FailedRow DEF FailedOk
<1> HIDE DEF t
<1>4. t \in Seq(ViewRow) /\ Len(t) = Len(view) /\ DOMAIN t = DOMAIN view
  <2>1. t \in [DOMAIN view -> ViewRow]
    BY <1>2, <1>3
  <2> QED
    BY <1>1, <2>1, SameLength
<1>5. OnBundle(t, events) = t
  <2>1. {id \in Announced : <<"bundle", id>> \in events} = {}
    OBVIOUS
  <2> QED
    BY <2>1 DEF OnBundle
<1>6. Fold(events) = OnLifecycle(t, events)
  BY <1>5 DEF Fold, t
<1> DEFINE u == OnLifecycle(t, events)
<1>7. /\ u = [i \in DOMAIN t |-> u[i]]
      /\ \A i \in DOMAIN t : u[i] = Moved(t[i], events)
  BY DEF OnLifecycle, Moved
<1> HIDE DEF u
<1>8. \A i \in DOMAIN t : u[i] = Folded(view[i], events)
  BY <1>2, <1>4, <1>7 DEF Folded
<1>9. \A i \in DOMAIN view : FoldedOk(view[i], u[i], events)
  BY <1>1, <1>4, <1>8, FoldedRow
<1>10. u \in Seq(ViewRow) /\ Len(u) = Len(t)
  <2>1. u \in [DOMAIN t -> ViewRow]
    BY <1>4, <1>7, <1>9 DEF FoldedOk
  <2> QED
    BY <1>4, <2>1, SameLength
<1> QED
  BY <1>4, <1>6, <1>9, <1>10 DEF u, Kept

LEMMA FoldExtended ==
    ASSUME IInv', LastRows, ViewInv, NEW x \in Ids, Announced = {x}, x \notin GivenUp
    PROVE  /\ Fold(Published) \in Seq(ViewRow)
           /\ Len(Fold(Published)) <= window
           /\ \E k : Extended(Fold(Published), x, k)
<1> DEFINE n == NewRow(x)
           t == OnFailure(view, Published)
           w == Append(t, n)
<1>1. view \in Seq(ViewRow) /\ (\A i \in DOMAIN view : view[i] \in ViewRow)
      /\ window \in Nat \ {0} /\ Len(view) <= window
  BY DEF ViewInv
<1>2. /\ t = [i \in DOMAIN view |-> t[i]]
      /\ \A i \in DOMAIN view : t[i] = Failed1(view[i], Published)
  BY DEF OnFailure, Failed1
<1>3. \A i \in DOMAIN view : t[i] \in ViewRow
  BY <1>1, <1>2, FailedRow DEF FailedOk
<1>4. n \in ViewRow /\ n.id = x
  BY DEF NewRow, ViewRow, Stage
<1> HIDE DEF t
<1>5. t \in Seq(ViewRow) /\ Len(t) = Len(view) /\ DOMAIN t = DOMAIN view
  <2>1. t \in [DOMAIN view -> ViewRow]
    BY <1>2, <1>3
  <2> QED
    BY <1>1, <2>1, SameLength
<1>6. Failed1(n, Published) = n
  BY <1>4, PublishedLemma DEF Failed1
<1>7. OnBundle(t, Published) = Evicted(w)
  <2>1. {id \in Announced : <<"bundle", id>> \in Published} = {x}
    BY PublishedLemma
  <2> QED
    BY <2>1 DEF OnBundle
<1> HIDE DEF n
<1>8. /\ w \in Seq(ViewRow) /\ Len(w) = Len(view) + 1 /\ w[Len(view) + 1] = n
      /\ \A i \in 1..Len(view) : w[i] = t[i]
  BY <1>4, <1>5
<1> HIDE DEF w
<1>9. PICK k \in {0, 1} : /\ k = 1 => Len(view) = window
                          /\ Evicted(w) \in Seq(ViewRow)
                          /\ Len(Evicted(w)) = Len(view) + 1 - k
                          /\ Len(Evicted(w)) <= window
                          /\ \A i \in 1..(Len(view) + 1 - k) : Evicted(w)[i] = w[i + k]
  <2>1. CASE Len(w) > window
    <3>1. Evicted(w) = Tail(w)
      BY <2>1 DEF Evicted
    <3>2. /\ Tail(w) \in Seq(ViewRow) /\ Len(Tail(w)) = Len(w) - 1
          /\ \A i \in 1..(Len(w) - 1) : Tail(w)[i] = w[i + 1]
      BY <1>8, <1>1
    <3>3. Len(view) = window /\ Len(view) \in Nat
      BY <2>1, <1>8, <1>1
    <3>4. 1 \in {0, 1}
      OBVIOUS
    <3> QED
      BY <3>1, <3>2, <3>3, <3>4, <1>8, <1>1
  <2>2. CASE ~(Len(w) > window)
    <3>1. Evicted(w) = w
      BY <2>2 DEF Evicted
    <3>2. Len(view) \in Nat /\ 0 \in {0, 1}
      BY <1>1
    <3>3. \A i \in 1..(Len(view) + 1 - 0) : i + 0 = i
      BY <3>2
    <3> QED
      BY <3>1, <3>2, <3>3, <2>2, <1>8, <1>1
  <2> QED
    BY <2>1, <2>2
<1> DEFINE e == Evicted(w)
           u == OnLifecycle(e, Published)
<1>10. Fold(Published) = u
  BY <1>7 DEF Fold, t
<1>11. /\ u = [i \in DOMAIN e |-> u[i]]
       /\ \A i \in DOMAIN e : u[i] = Moved(e[i], Published)
  BY DEF OnLifecycle, Moved
<1> HIDE DEF u, e
<1>12. /\ e \in Seq(ViewRow) /\ Len(e) = Len(view) + 1 - k /\ Len(e) <= window
       /\ DOMAIN e = 1..(Len(view) + 1 - k) /\ Len(view) \in Nat
       /\ \A i \in DOMAIN e : e[i] = w[i + k]
  BY <1>1, <1>9 DEF e
<1>13. \A i \in 1..(Len(view) - k) : FoldedOk(view[i + k], u[i], Published)
  <2> SUFFICES ASSUME NEW i \in 1..(Len(view) - k)
               PROVE  FoldedOk(view[i + k], u[i], Published)
    OBVIOUS
  <2>1. i \in DOMAIN e /\ i + k \in 1..Len(view) /\ i + k \in DOMAIN view
    BY <1>12, <1>1
  <2>2. e[i] = Failed1(view[i + k], Published)
    BY <2>1, <1>12, <1>8, <1>2
  <2>3. u[i] = Folded(view[i + k], Published)
    BY <2>1, <2>2, <1>11 DEF Folded
  <2> QED
    BY <2>1, <2>3, <1>1, FoldedRow
<1>14. FoldedOk(n, u[Len(e)], Published)
  <2>1. Len(e) \in DOMAIN e /\ Len(e) + k = Len(view) + 1
    <3>1. Len(view) >= k
      BY <1>1, <1>9
    <3>2. Len(e) = Len(view) + 1 - k
      BY <1>12
    <3> QED
      BY <3>1, <3>2, <1>12
  <2>2. e[Len(e)] = n
    BY <2>1, <1>12, <1>8
  <2>3. u[Len(e)] = Folded(n, Published)
    BY <2>1, <2>2, <1>6, <1>11 DEF Folded
  <2> QED
    BY <2>3, <1>4, FoldedRow
<1>15. \A i \in DOMAIN e : u[i] \in ViewRow
  <2> SUFFICES ASSUME NEW i \in DOMAIN e PROVE u[i] \in ViewRow
    OBVIOUS
  <2>1. i \in 1..(Len(view) - k) \/ i = Len(e)
    BY <1>12
  <2> QED
    BY <2>1, <1>13, <1>14 DEF FoldedOk
<1>16. u \in Seq(ViewRow) /\ Len(u) = Len(e)
  <2>1. u \in [DOMAIN e -> ViewRow]
    BY <1>11, <1>15
  <2> QED
    BY <1>12, <2>1, SameLength
<1>17. Extended(u, x, k)
  BY <1>9, <1>12, <1>13, <1>14, <1>16 DEF Extended, n
<1> QED
  BY <1>10, <1>12, <1>16, <1>17

-------------------------------------------------------------------------------
(* A step of the view.                                                     *)

(* The announcement of an attempt.                                         *)
Grown(x) ==
    /\ Announced = {x} /\ x \in Ids
    /\ Len(bundles') = Len(bundles) + 1
    /\ \A p \in DOMAIN bundles : bundles'[p] = bundles[p]
    /\ bundles'[Len(bundles')].id = x
    /\ x \notin DOMAIN attempts /\ x \in DOMAIN attempts'
    /\ x \in Advanced /\ x \notin DOMAIN failures'

LEMMA GrownLemma ==
    ASSUME IInv, LogInv, LogInv', [LogNext]_<<vars, logVars>>
    PROVE  \/ Announced = {} /\ bundles' = bundles
           \/ \E x : Grown(x)
<1>1. ASSUME NEW b, NEW n, NEW id, Announced = {id},
             bundles' = Append(bundles, [id |-> id, base |-> b, attempt |-> n])
      PROVE  Grown(id)
  <2> DEFINE e == [id |-> id, base |-> b, attempt |-> n]
  <2>1. bundles \in Seq(Event) /\ bundles' \in Seq(Event)
    BY DEF LogInv, BundlesInv
  <2>2. bundles' = Append(bundles, e) /\ e.id = id
    BY <1>1
  <2> HIDE DEF e
  <2>3. /\ Len(bundles') = Len(bundles) + 1 /\ bundles'[Len(bundles')] = e
        /\ \A p \in DOMAIN bundles : bundles'[p] = bundles[p]
    BY <2>1, <2>2
  <2>4. /\ id \in DOMAIN attempts' /\ id \in Advanced /\ id \in Ids
        /\ id \notin DOMAIN failures' /\ id \notin DOMAIN attempts
    BY <1>1, ToldLemma
  <2> QED
    BY <1>1, <2>2, <2>3, <2>4 DEF Grown
<1> QED
  BY <1>1, AnnouncedLemma

(* What is heard of after a step of which these events arrived.            *)
HeardNow(events) ==
    \A id \in heard' :
        /\ id \in heard \/ id \in Announced
        /\ events = {} => id \notin Announced /\ id \notin Advanced /\ id \notin GivenUp

ViewStep(events) ==
    /\ events = {} \/ events = Published
    /\ HeardNow(events)
    /\ window' = window /\ view' \in Seq(ViewRow) /\ Len(view') <= window
    /\ \/ Kept(view', events) /\ (events = {} \/ Announced = {})
       \/ events = Published /\ \E x, k : Grown(x) /\ Extended(view', x, k)

LEMMA RunStep ==
    ASSUME IInv, IInv', LogInv, LogInv', ViewInv, Run
    PROVE  \E events : ViewStep(events)
<1>1. [LogNext]_<<vars, logVars>> /\ window' = window
  BY DEF Run
<1>2. PICK delivered : /\ delivered = {} \/ delivered = Published
                       /\ view' = Fold(delivered)
                       /\ heard' = (heard \cup Announced) \ {e[2] : e \in Published \ delivered}
  BY DEF Run
<1>3. LastRows
  BY <1>1, ToldLemma DEF LastRows, Advanced
<1>4. HeardNow(delivered)
  <2> SUFFICES ASSUME NEW id \in heard'
               PROVE  /\ id \in heard \/ id \in Announced
                      /\ delivered = {} => id \notin Announced /\ id \notin Advanced
                                           /\ id \notin GivenUp
    BY DEF HeardNow
  <2>1. (id \in heard \/ id \in Announced) /\ \A e \in Published \ delivered : e[2] # id
    BY <1>2
  <2>2. CASE delivered = {}
    <3>1. /\ <<"bundle", id>> \notin Published /\ <<"lifecycle", id>> \notin Published
          /\ <<"failure", id>> \notin Published
      BY <2>1, <2>2
    <3> QED
      BY <2>1, <3>1, PublishedLemma
  <2> QED
    BY <2>1, <2>2
<1>5. Len(view) <= window
  BY DEF ViewInv
<1>6. CASE delivered = {} \/ Announced = {}
  <2>1. view' \in Seq(ViewRow) /\ Kept(view', delivered)
    BY <1>2, <1>3, <1>6, FoldKept
  <2>2. Len(view') <= window
    BY <1>5, <2>1 DEF Kept
  <2> QED
    BY <1>1, <1>2, <1>4, <1>6, <2>1, <2>2 DEF ViewStep
<1>7. ASSUME NEW x, Grown(x), delivered = Published
      PROVE  ViewStep(delivered)
  <2>1. x \notin GivenUp /\ x \in Ids /\ Announced = {x}
    BY <1>7 DEF Grown, GivenUp
  <2>2. /\ view' \in Seq(ViewRow) /\ Len(view') <= window
        /\ \E k : Extended(view', x, k)
    BY <1>2, <1>3, <1>7, <2>1, FoldExtended
  <2> QED
    BY <1>1, <1>4, <1>7, <2>2 DEF ViewStep
<1> QED
  BY <1>1, <1>2, <1>6, <1>7, GrownLemma

LEMMA ViewIndices ==
    ASSUME ViewInv
    PROVE  /\ window \in Nat \ {0} /\ Len(view) \in Nat /\ Len(view) <= window
           /\ DOMAIN view = 1..Len(view)
           /\ \A i \in DOMAIN view : view[i] \in ViewRow /\ view[i].id \in DOMAIN attempts
  BY DEF ViewInv

LEMMA BundleIndices ==
    ASSUME BundlesInv
    PROVE  /\ Len(bundles) \in Nat /\ DOMAIN bundles = 1..Len(bundles)
           /\ \A p \in DOMAIN bundles : bundles[p].id \in DOMAIN attempts
  BY DEF BundlesInv

(* A row of an extended view is a row it had, or the new one.              *)
LEMMA ExtendedRows ==
    ASSUME ViewInv, NEW t \in Seq(ViewRow), NEW x, NEW k, Extended(t, x, k), NEW i \in DOMAIN t
    PROVE  \/ /\ i + k \in DOMAIN view /\ i < Len(t)
              /\ FoldedOk(view[i + k], t[i], Published)
           \/ i = Len(t) /\ FoldedOk(NewRow(x), t[i], Published)
<1>1. Len(view) \in Nat /\ DOMAIN view = 1..Len(view)
  BY ViewIndices
<1>2. k \in {0, 1} /\ Len(t) = Len(view) + 1 - k
  BY DEF Extended
<1>3. i \in 1..Len(t)
  OBVIOUS
<1>4. CASE i = Len(t)
  BY <1>4 DEF Extended
<1>5. CASE i # Len(t)
  <2>1. i \in 1..(Len(view) - k) /\ i + k \in DOMAIN view /\ i < Len(t)
    BY <1>1, <1>2, <1>3, <1>5
  <2> QED
    BY <2>1 DEF Extended
<1> QED
  BY <1>4, <1>5

LEMMA ViewInvStep ==
    ASSUME IInv, IInv', LogInv, LogInv', ViewInv, Run
    PROVE  ViewInv'
<1>1. PICK events : ViewStep(events)
  BY RunStep
<1>2. [LogNext]_<<vars, logVars>>
  BY DEF Run
<1>3. DOMAIN attempts \subseteq DOMAIN attempts' /\ Announced \subseteq DOMAIN attempts'
  BY <1>2, ToldLemma
<1>4. /\ window' \in Nat \ {0} /\ view' \in Seq(ViewRow) /\ Len(view') <= window'
      /\ window' = window
  BY <1>1, ViewIndices DEF ViewStep
<1>5. heard' \subseteq DOMAIN attempts'
  BY <1>1, <1>3 DEF ViewStep, HeardNow, ViewInv
<1>6. BundlesInv /\ Len(bundles') \in Nat
  BY DEF LogInv, BundlesInv
<1>7. \/ Announced = {} /\ bundles' = bundles
      \/ \E x : Grown(x)
  BY <1>2, GrownLemma
(* The positions of the rows that stay.                                    *)
<1>8. ASSUME NEW j \in DOMAIN view, NEW p \in DOMAIN bundles', bundles'[p].id = view[j].id
      PROVE  p \in DOMAIN bundles /\ p + (Len(view) - j) <= Len(bundles)
  <2>1. view[j].id \in DOMAIN attempts
    BY ViewIndices
  <2>2. p \in DOMAIN bundles /\ bundles[p].id = view[j].id
    <3>1. CASE bundles' = bundles
      BY <1>8, <3>1
    <3>2. ASSUME NEW x, Grown(x) PROVE p \in DOMAIN bundles /\ bundles'[p] = bundles[p]
      <4>1. p # Len(bundles')
        BY <1>8, <2>1, <3>2 DEF Grown
      <4>2. p \in 1..Len(bundles') /\ Len(bundles') = Len(bundles) + 1
        BY <3>2 DEF Grown, LogInv, BundlesInv
      <4>3. p \in DOMAIN bundles
        BY <4>1, <4>2, <1>6, BundleIndices
      <4> QED
        BY <4>3, <3>2 DEF Grown
    <3> QED
      BY <1>7, <1>8, <3>1, <3>2
  <2> QED
    BY <2>2 DEF ViewInv
<1>9. Len(bundles) <= Len(bundles') /\ Len(bundles) \in Nat
  BY <1>6, <1>7, BundleIndices DEF Grown
<1>10. CASE Kept(view', events)
  <2>1. Len(view') = Len(view) /\ Len(view) \in Nat
    BY <1>10, ViewIndices DEF Kept
  <2>2. \A i \in DOMAIN view' : i \in DOMAIN view /\ view'[i].id = view[i].id
    BY <1>4, <1>10, <2>1, ViewIndices DEF Kept, FoldedOk
  <2>3. \A i \in DOMAIN view' : view'[i].id \in DOMAIN attempts'
    BY <2>2, <1>3, ViewIndices
  <2>4. ASSUME NEW i \in DOMAIN view', NEW p \in DOMAIN bundles', bundles'[p].id = view'[i].id
        PROVE  p + (Len(view') - i) <= Len(bundles')
    <3>1. p \in DOMAIN bundles /\ p + (Len(view) - i) <= Len(bundles) /\ i \in DOMAIN view
      BY <2>2, <2>4, <1>8
    <3>2. p \in Nat /\ i \in Nat
      BY <3>1, <1>6, BundleIndices, ViewIndices
    <3> QED
      BY <3>1, <3>2, <2>1, <1>6, <1>9
  <2> QED
    BY <1>4, <1>5, <2>3, <2>4 DEF ViewInv
<1>11. ASSUME NEW x, NEW k, Grown(x), Extended(view', x, k) PROVE ViewInv'
  <2>1. /\ k \in {0, 1} /\ Len(view') = Len(view) + 1 - k /\ Len(view) \in Nat
        /\ x \in DOMAIN attempts' /\ Len(bundles') = Len(bundles) + 1
    BY <1>11, ViewIndices DEF Extended, Grown
  <2>2. ASSUME NEW i \in DOMAIN view'
        PROVE  \/ i + k \in DOMAIN view /\ view'[i].id = view[i + k].id
               \/ i = Len(view') /\ view'[i].id = x
    BY <1>4, <1>11, <2>2, ExtendedRows DEF FoldedOk, NewRow
  <2>3. \A i \in DOMAIN view' : view'[i].id \in DOMAIN attempts'
    BY <2>1, <2>2, <1>3, ViewIndices
  <2>4. ASSUME NEW i \in DOMAIN view', NEW p \in DOMAIN bundles', bundles'[p].id = view'[i].id
        PROVE  p + (Len(view') - i) <= Len(bundles')
    <3>0. p \in 1..Len(bundles') /\ i \in Nat
      BY <1>4 DEF LogInv, BundlesInv
    <3>1. CASE i + k \in DOMAIN view /\ view'[i].id = view[i + k].id
      <4>1. p + (Len(view) - (i + k)) <= Len(bundles)
        BY <2>4, <3>1, <1>8
      <4> QED
        BY SMTT(30), <4>1, <3>0, <2>1, <1>9, <1>6
    <3>2. CASE i = Len(view')
      BY <3>0, <3>2, <1>6
    <3> QED
      BY <2>2, <3>1, <3>2
  <2> QED
    BY <1>4, <1>5, <2>3, <2>4 DEF ViewInv
<1> QED
  BY <1>1, <1>10, <1>11 DEF ViewStep

LEMMA RecentStep ==
    ASSUME IInv, IInv', LogInv, LogInv', ViewInv, RecentInv, Run
    PROVE  RecentInv'
<1>1. PICK events : ViewStep(events)
  BY RunStep
<1>2. [LogNext]_<<vars, logVars>>
  BY DEF Run
<1>3. /\ window \in Nat \ {0} /\ window' = window /\ view' \in Seq(ViewRow)
      /\ Len(view) \in Nat /\ DOMAIN view = 1..Len(view)
  BY <1>1, ViewIndices DEF ViewStep
<1>4. /\ Len(bundles) \in Nat /\ DOMAIN bundles = 1..Len(bundles)
      /\ \A p \in DOMAIN bundles : bundles[p].id \in DOMAIN attempts
      /\ Len(bundles') \in Nat /\ DOMAIN bundles' = 1..Len(bundles')
  BY BundleIndices DEF LogInv, BundlesInv
<1>5. \/ Announced = {} /\ bundles' = bundles
      \/ \E x : Grown(x)
  BY <1>2, GrownLemma
<1> SUFFICES ASSUME NEW p \in DOMAIN bundles', bundles'[p].id \in heard',
                    p + window > Len(bundles')
             PROVE  \E i \in DOMAIN view' : view'[i].id = bundles'[p].id
  BY <1>3 DEF RecentInv
<1>6. bundles'[p].id \in heard \/ bundles'[p].id \in Announced
  BY <1>1 DEF ViewStep, HeardNow
(* A bundle announced before: it was in the view.                          *)
<1>7. ASSUME bundles'[p].id \notin Announced
      PROVE  /\ p \in DOMAIN bundles /\ bundles'[p] = bundles[p]
             /\ \E i \in DOMAIN view : view[i].id = bundles'[p].id
  <2>1. p \in DOMAIN bundles /\ bundles'[p] = bundles[p]
    <3>1. CASE bundles' = bundles
      BY <3>1
    <3>2. ASSUME NEW x, Grown(x) PROVE p \in DOMAIN bundles /\ bundles'[p] = bundles[p]
      BY <1>4, <1>7, <3>2 DEF Grown
    <3> QED
      BY <1>5, <3>1, <3>2
  <2>2. Len(bundles) <= Len(bundles')
    <3>1. Len(bundles') = Len(bundles) \/ Len(bundles') = Len(bundles) + 1
      <4>1. CASE bundles' = bundles
        BY <4>1
      <4>2. ASSUME NEW x, Grown(x) PROVE Len(bundles') = Len(bundles) + 1
        BY <4>2 DEF Grown
      <4> QED
        BY <1>5, <4>1, <4>2
    <3>2. Len(bundles) \in Nat
      BY <1>4
    <3> QED
      BY <3>1, <3>2
  <2>3. p + window > Len(bundles)
    BY <1>3, <1>4, <2>2
  <2> QED
    BY <1>6, <1>7, <2>1, <2>3 DEF RecentInv
<1>8. CASE Kept(view', events) /\ (events = {} \/ Announced = {})
  <2>1. bundles'[p].id \notin Announced
    BY <1>1, <1>8 DEF ViewStep, HeardNow
  <2>2. PICK i \in DOMAIN view : view[i].id = bundles'[p].id
    BY <1>7, <2>1
  <2>3. i \in DOMAIN view' /\ view'[i].id = view[i].id
    BY <1>3, <1>8 DEF Kept, FoldedOk
  <2> QED
    BY <2>2, <2>3
<1>9. ASSUME NEW x, NEW k, Grown(x), Extended(view', x, k)
      PROVE  \E i \in DOMAIN view' : view'[i].id = bundles'[p].id
  <2>1. /\ k \in {0, 1}
        /\ k = 1 => Len(view) = window
        /\ Len(view') = Len(view) + 1 - k /\ Len(bundles') = Len(bundles) + 1
        /\ Announced = {x}
    BY <1>9 DEF Extended, Grown
  <2>2. CASE bundles'[p].id = x
    <3>1. Len(view') \in DOMAIN view' /\ view'[Len(view')].id = x
      <4>1. Len(view') >= 1
        <5>1. CASE k = 0
          BY <5>1, <1>3, <2>1
        <5>2. CASE k = 1
          <6>1. Len(view') = Len(view) /\ Len(view) >= 1
            BY <5>2, <1>3, <2>1
          <6> QED
            BY <6>1
        <5> QED
          BY <2>1, <5>1, <5>2
      <4>2. view'[Len(view')].id = x
        BY <1>9 DEF Extended, FoldedOk, NewRow
      <4> QED
        BY <1>3, <4>1, <4>2
    <3> QED
      BY <2>2, <3>1
  <2>3. CASE bundles'[p].id # x
    <3>1. /\ p \in DOMAIN bundles /\ bundles'[p] = bundles[p]
          /\ \E i \in DOMAIN view : view[i].id = bundles'[p].id
      BY <1>7, <2>1, <2>3
    <3>2. PICK i \in DOMAIN view : view[i].id = bundles'[p].id
      BY <3>1
    <3>3. p + (Len(view) - i) <= Len(bundles)
      BY <3>1, <3>2 DEF ViewInv
    <3>4. ~(i = 1 /\ k = 1)
      <4> SUFFICES ASSUME i = 1, k = 1 PROVE FALSE
        OBVIOUS
      <4>1. /\ p \in Nat /\ window \in Nat /\ Len(bundles) \in Nat
            /\ Len(view) = window /\ Len(bundles') = Len(bundles) + 1
        <5>1. p \in Nat
          BY <3>1, <1>4
        <5>2. window \in Nat
          BY <1>3
        <5>3. Len(bundles) \in Nat
          BY <1>4
        <5>4. Len(view) = window /\ Len(bundles') = Len(bundles) + 1
          BY <2>1
        <5> QED
          BY <5>1, <5>2, <5>3, <5>4
      <4>2. p + (window - 1) <= Len(bundles)
        BY <3>3, <4>1
      <4>3. p + window > Len(bundles) + 1
        BY <4>1
      <4> QED
        BY <4>1, <4>2, <4>3
    <3>5. i - k \in 1..(Len(view) - k) /\ (i - k) + k = i /\ i - k \in 1..Len(view')
      <4>1. i \in 1..Len(view) /\ Len(view) \in Nat
        BY <1>3
      <4>2. CASE k = 0
        BY <4>1, <4>2, <2>1
      <4>3. CASE k = 1
        BY <4>1, <4>3, <3>4, <2>1
      <4> QED
        BY <2>1, <4>2, <4>3
    <3>6. FoldedOk(view[(i - k) + k], view'[i - k], Published)
      BY <1>9, <3>5 DEF Extended
    <3>7. i - k \in DOMAIN view' /\ view'[i - k].id = view[i].id
      BY <3>5, <3>6, <1>3 DEF FoldedOk
    <3> QED
      BY <3>2, <3>7
  <2> QED
    BY <2>2, <2>3
<1> QED
  BY <1>1, <1>8, <1>9 DEF ViewStep

(* What a row may tell, given an attempt's log and the failures.           *)
TrueOf(row, told, fails) ==
    /\ row.class # "none" => row.id \in DOMAIN fails /\ row.class = fails[row.id]
    /\ row.slot # NoSlot => \E r \in told : r.slot = row.slot
    /\ \/ \E r \in told : r.stage = row.stage
       \/ row.stage = "failed" /\ row.class # "none"

LEMMA FailureKept ==
    ASSUME IInv, IInv', LogInv, [LogNext]_<<vars, logVars>>
    PROVE  /\ DOMAIN failures \subseteq DOMAIN failures'
           /\ \A id \in DOMAIN failures : failures'[id] = failures[id]
           /\ \A id \in GivenUp : GivesUp(id) /\ failures'[id] # "none"
<1>1. [Next]_vars
  BY LogStep DEF vars, logVars
<1>2. OutcomeInv
  BY DEF LogInv
<1>3. \A id \in DOMAIN failures' : failures'[id] \in FailureClass
  BY DEF IInv, Core, TypeOK
<1>4. "none" \notin FailureClass
  BY DEF FailureClass
<1> QED
  BY <1>1, <1>2, <1>3, <1>4, FailuresStep DEF GivenUp

LEMMA TrueStays ==
    ASSUME IInv, IInv', LogInv, LogInv', [LogNext]_<<vars, logVars>>,
           NEW events, events = {} \/ events = Published,
           NEW row, row.id \in DOMAIN attempts, TrueOf(row, ToSet(rows[row.id]), failures),
           NEW f, FoldedOk(row, f, events)
    PROVE  TrueOf(f, ToSet(rows'[f.id]), failures')
<1> DEFINE told == ToSet(rows[row.id])
           now == ToSet(rows'[row.id])
<1>1. f.id = row.id
  BY DEF FoldedOk
<1>2. told \subseteq now /\ Last(rows'[row.id]) \in now
  BY ToldLemma
<1>3. /\ DOMAIN failures \subseteq DOMAIN failures'
      /\ \A id \in DOMAIN failures : failures'[id] = failures[id]
      /\ \A id \in GivenUp : failures'[id] # "none"
  BY FailureKept
<1> HIDE DEF told, now
<1>4. /\ row.class # "none" => row.id \in DOMAIN failures /\ row.class = failures[row.id]
      /\ row.slot # NoSlot => \E r \in now : r.slot = row.slot
      /\ \/ \E r \in now : r.stage = row.stage
         \/ row.stage = "failed" /\ row.class # "none"
  BY <1>2 DEF TrueOf, told
<1>5. /\ f.class # "none" => f.id \in DOMAIN failures' /\ f.class = failures'[f.id]
      /\ row.class # "none" => f.class # "none"
      /\ events = Published /\ row.id \in GivenUp => f.class # "none"
  <2>1. CASE events = Published /\ row.id \in GivenUp
    <3>1. f.class = failures'[row.id]
      BY <2>1 DEF FoldedOk
    <3>2. row.id \in DOMAIN failures'
      BY <2>1 DEF GivenUp
    <3> QED
      BY <1>1, <1>3, <2>1, <3>1, <3>2
  <2>2. CASE ~(events = Published /\ row.id \in GivenUp)
    <3>1. f.class = row.class
      BY <2>2 DEF FoldedOk
    <3> QED
      BY <1>1, <1>3, <1>4, <2>2, <3>1
  <2> QED
    BY <2>1, <2>2
<1>6. f.slot # NoSlot => \E r \in now : r.slot = f.slot
  <2>1. f.slot = row.slot \/ f.slot = Last(rows'[row.id]).slot
    BY DEF FoldedOk
  <2> QED
    BY <1>2, <1>4, <2>1
<1>7. \/ \E r \in now : r.stage = f.stage
      \/ f.stage = "failed" /\ f.class # "none"
  <2>1. \/ f.stage = row.stage
        \/ f.stage = Last(rows'[row.id]).stage
        \/ events = Published /\ row.id \in GivenUp /\ f.stage = "failed"
    BY DEF FoldedOk
  <2> QED
    BY <1>2, <1>4, <1>5, <2>1
<1> QED
  BY <1>1, <1>5, <1>6, <1>7 DEF TrueOf, now

LEMMA TrueBegins ==
    ASSUME IInv, LogInv, LogInv', [LogNext]_<<vars, logVars>>,
           NEW x, Grown(x), NEW f, FoldedOk(NewRow(x), f, Published)
    PROVE  /\ TrueOf(f, ToSet(rows'[f.id]), failures')
           /\ f.id = x /\ f.class = "none" /\ f.stage = Last(rows'[x]).stage
<1> DEFINE n == NewRow(x)
<1>1. n.id = x /\ n.class = "none" /\ n.slot = NoSlot
  BY DEF NewRow
<1> HIDE DEF n
<1>2. x \in Advanced /\ x \notin GivenUp /\ x \in DOMAIN attempts'
  BY DEF Grown, GivenUp
<1>3. /\ f.id = x /\ f.class = "none" /\ f.stage = Last(rows'[x]).stage
      /\ f.slot \in {NoSlot, Last(rows'[x]).slot}
  BY <1>1, <1>2 DEF FoldedOk, n
<1>4. Last(rows'[x]) \in ToSet(rows'[x])
  BY <1>2, ToldLemma
<1> QED
  BY <1>3, <1>4 DEF TrueOf

LEMMA TrueStep ==
    ASSUME IInv, IInv', LogInv, LogInv', ViewInv, RowsAreTrue, Run
    PROVE  RowsAreTrue'
<1>1. PICK events : ViewStep(events)
  BY RunStep
<1>2. [LogNext]_<<vars, logVars>>
  BY DEF Run
<1>3. \A i \in DOMAIN view : /\ view[i].id \in DOMAIN attempts
                             /\ TrueOf(view[i], ToSet(rows[view[i].id]), failures)
  BY ViewIndices DEF RowsAreTrue, TrueOf
<1>4. \A i \in DOMAIN view' : TrueOf(view'[i], ToSet(rows'[view'[i].id]), failures')
  <2> SUFFICES ASSUME NEW i \in DOMAIN view'
               PROVE  TrueOf(view'[i], ToSet(rows'[view'[i].id]), failures')
    OBVIOUS
  <2>1. view' \in Seq(ViewRow) /\ (events = {} \/ events = Published)
    BY <1>1 DEF ViewStep
  <2>2. CASE Kept(view', events)
    <3>1. i \in DOMAIN view /\ FoldedOk(view[i], view'[i], events)
      BY <2>1, <2>2, ViewIndices DEF Kept
    <3> QED
      BY <3>1, <1>2, <1>3, <2>1, TrueStays
  <2>3. ASSUME NEW x, NEW k, Grown(x), Extended(view', x, k)
        PROVE  TrueOf(view'[i], ToSet(rows'[view'[i].id]), failures')
    <3>1. \/ i + k \in DOMAIN view /\ FoldedOk(view[i + k], view'[i], Published)
          \/ FoldedOk(NewRow(x), view'[i], Published)
      BY <2>1, <2>3, ExtendedRows
    <3>2. CASE i + k \in DOMAIN view /\ FoldedOk(view[i + k], view'[i], Published)
      BY <3>2, <1>2, <1>3, TrueStays
    <3>3. CASE FoldedOk(NewRow(x), view'[i], Published)
      BY <3>3, <1>2, <2>3, TrueBegins
    <3> QED
      BY <3>1, <3>2, <3>3
  <2> QED
    BY <1>1, <2>2, <2>3 DEF ViewStep
<1> QED
  BY <1>4 DEF RowsAreTrue, TrueOf

(* What a row tells of an attempt of which every event arrived.            *)
HeardOf(row, stage, fails) ==
    /\ row.class = IF row.id \in DOMAIN fails THEN fails[row.id] ELSE "none"
    /\ \/ row.stage = stage
       \/ row.stage = "failed" /\ ~ReachedConfirmed(stage)

LEMMA HeardStays ==
    ASSUME ConfirmedStream, IInv, IInv', LogInv, LogInv', [LogNext]_<<vars, logVars>>,
           NEW events, events = {} \/ events = Published, HeardNow(events),
           NEW row, row.id \in DOMAIN attempts, HeardOf(row, pending[row.id].stage, failures),
           NEW f, FoldedOk(row, f, events), f.id \in heard'
    PROVE  HeardOf(f, pending'[f.id].stage, failures')
<1> DEFINE was == pending[row.id].stage
           is == pending'[row.id].stage
<1>1. f.id = row.id
  BY DEF FoldedOk
<1>2. /\ row.id \notin Advanced => is = was
      /\ Last(rows'[row.id]).stage = is
  BY ToldLemma
<1>3. /\ DOMAIN failures \subseteq DOMAIN failures'
      /\ \A id \in DOMAIN failures : failures'[id] = failures[id]
      /\ row.id \in GivenUp => ~ReachedConfirmed(was)
  BY FailureKept DEF GivesUp
<1>4. /\ row.class = IF row.id \in DOMAIN failures THEN failures[row.id] ELSE "none"
      /\ \/ row.stage = was
         \/ row.stage = "failed" /\ ~ReachedConfirmed(was)
  BY DEF HeardOf
<1>5. events = {} => row.id \notin Advanced /\ row.id \notin GivenUp
  BY <1>1 DEF HeardNow
<1> HIDE DEF was, is
<1>6. f.class = IF row.id \in DOMAIN failures' THEN failures'[row.id] ELSE "none"
  <2>1. CASE row.id \in GivenUp
    <3>1. f.class = failures'[row.id]
      BY <1>5, <2>1 DEF FoldedOk
    <3> QED
      BY <2>1, <3>1 DEF GivenUp
  <2>2. CASE row.id \notin GivenUp
    <3>1. f.class = row.class
      BY <2>2 DEF FoldedOk
    <3>2. row.id \in DOMAIN failures' <=> row.id \in DOMAIN failures
      BY <1>3, <2>2 DEF GivenUp
    <3> QED
      BY <1>3, <1>4, <3>1, <3>2
  <2> QED
    BY <2>1, <2>2
<1>7. \/ f.stage = is
      \/ f.stage = "failed" /\ ~ReachedConfirmed(is)
  <2>1. CASE row.id \in Advanced
    BY <1>2, <1>5, <2>1 DEF FoldedOk
  <2>2. CASE row.id \notin Advanced
    <3>1. \/ f.stage = row.stage
          \/ row.id \in GivenUp /\ f.stage = "failed"
      BY <2>2 DEF FoldedOk
    <3> QED
      BY <3>1, <2>2, <1>2, <1>3, <1>4
  <2> QED
    BY <2>1, <2>2
<1> QED
  BY <1>1, <1>6, <1>7 DEF HeardOf, is

LEMMA HeardStep ==
    ASSUME ConfirmedStream, IInv, IInv', LogInv, LogInv', ViewInv, HeardInv, Run
    PROVE  HeardInv'
<1>1. PICK events : ViewStep(events)
  BY RunStep
<1>2. [LogNext]_<<vars, logVars>>
  BY DEF Run
<1>3. \A i \in DOMAIN view :
          /\ view[i].id \in DOMAIN attempts
          /\ view[i].id \in heard => HeardOf(view[i], pending[view[i].id].stage, failures)
  BY ViewIndices DEF HeardInv, HeardOf
<1>4. ASSUME NEW i \in DOMAIN view', view'[i].id \in heard'
      PROVE  HeardOf(view'[i], pending'[view'[i].id].stage, failures')
  <2>1. view' \in Seq(ViewRow) /\ (events = {} \/ events = Published) /\ HeardNow(events)
    BY <1>1 DEF ViewStep
  <2>2. ASSUME NEW j \in DOMAIN view, FoldedOk(view[j], view'[i], events)
        PROVE  HeardOf(view'[i], pending'[view'[i].id].stage, failures')
    <3>1. view'[i].id = view[j].id /\ view[j].id \in DOMAIN attempts
      BY <2>2, <1>3 DEF FoldedOk
    <3>2. view[j].id \in heard
      BY <1>2, <1>4, <2>1, <3>1, ToldLemma DEF HeardNow
    <3> QED
      BY <1>2, <1>3, <1>4, <2>1, <2>2, <3>1, <3>2, HeardStays
  <2>3. CASE Kept(view', events)
    <3>1. i \in DOMAIN view /\ FoldedOk(view[i], view'[i], events)
      BY <2>1, <2>3, ViewIndices DEF Kept
    <3> QED
      BY <3>1, <2>2
  <2>4. ASSUME NEW x, NEW k, events = Published, Grown(x), Extended(view', x, k)
        PROVE  HeardOf(view'[i], pending'[view'[i].id].stage, failures')
    <3>1. \/ i + k \in DOMAIN view /\ FoldedOk(view[i + k], view'[i], Published)
          \/ FoldedOk(NewRow(x), view'[i], Published)
      BY <2>1, <2>4, ExtendedRows
    <3>2. CASE i + k \in DOMAIN view /\ FoldedOk(view[i + k], view'[i], Published)
      BY <3>2, <2>2, <2>4
    <3>3. CASE FoldedOk(NewRow(x), view'[i], Published)
      <4>1. /\ view'[i].id = x /\ view'[i].class = "none"
            /\ view'[i].stage = Last(rows'[x]).stage
        BY <3>3, <1>2, <2>4, TrueBegins
      <4>2. x \notin DOMAIN failures' /\ x \in DOMAIN attempts'
        BY <2>4 DEF Grown
      <4>3. Last(rows'[x]).stage = pending'[x].stage
        BY <4>2, <1>2, ToldLemma
      <4> QED
        BY <4>1, <4>2, <4>3 DEF HeardOf
    <3> QED
      BY <3>1, <3>2, <3>3
  <2> QED
    BY <1>1, <2>3, <2>4 DEF ViewStep
<1> QED
  BY <1>4 DEF HeardInv, HeardOf

-------------------------------------------------------------------------------
(* What the view shows.                                                    *)

(* Nothing has been published when the run begins.                         *)
LEMMA ViewInit0 == LiveInit => ViewInv /\ RowsAreTrue /\ HeardInv /\ RecentInv
<1> SUFFICES ASSUME LiveInit PROVE ViewInv /\ RowsAreTrue /\ HeardInv /\ RecentInv
  OBVIOUS
<1>1. view = <<>> /\ heard = {} /\ window \in Nat \ {0} /\ bundles = <<>>
  BY LiveAssumption DEF LiveInit, LogInit
<1> QED
  BY <1>1 DEF ViewInv, RowsAreTrue, HeardInv, RecentInv

(* The view is a window on the announcements, in their order, and has the  *)
(* latest bundles it heard of (upsertBundle, live.ts).                     *)
THEOREM ViewInductive == LiveSpec => [](ViewInv /\ RecentInv)
<1>1. LiveInit => ViewInv /\ RecentInv
  BY ViewInit0
<1>2. ASSUME IInv, IInv', LogInv, LogInv', ViewInv, RecentInv,
             [Run]_<<vars, logVars, viewVars>>
      PROVE  ViewInv' /\ RecentInv'
  <2>1. CASE Run
    BY <1>2, <2>1, ViewInvStep, RecentStep
  <2>2. CASE UNCHANGED <<vars, logVars, viewVars>>
    BY <1>2, <2>2 DEF ViewInv, RecentInv, vars, table, logVars, viewVars
  <2> QED
    BY <1>2, <2>1, <2>2
<1> QED
  BY <1>1, <1>2, ViewRecordsLog, LogInductive, LogRecordsSaga, SagaInductive, PTL DEF LiveSpec

(* Whatever is lost, and on any stream, no row tells what did not happen   *)
(* to its attempt.                                                         *)
THEOREM RowsAlwaysTrue == LiveSpec => []RowsAreTrue
<1>1. LiveInit => RowsAreTrue
  BY ViewInit0
<1>2. ASSUME IInv, IInv', LogInv, LogInv', ViewInv, RowsAreTrue,
             [Run]_<<vars, logVars, viewVars>>
      PROVE  RowsAreTrue'
  <2>1. CASE Run
    BY <1>2, <2>1, TrueStep
  <2>2. CASE UNCHANGED <<vars, logVars, viewVars>>
    BY <1>2, <2>2 DEF RowsAreTrue, vars, table, ledger, logVars, viewVars
  <2> QED
    BY <1>2, <2>1, <2>2
<1> QED
  BY <1>1, <1>2, ViewInductive, ViewRecordsLog, LogInductive, LogRecordsSaga, SagaInductive, PTL
     DEF LiveSpec

LEMMA AgreementLemma ==
    ASSUME ConfirmedStream, IInv, LogInv, ViewInv, HeardInv, RecentInv
    PROVE  TelemetryAgrees
<1>1. /\ DOMAIN rows = DOMAIN attempts
      /\ \A id \in DOMAIN attempts : /\ Last(rows[id]).stage = pending[id].stage
                                     /\ EntryLanded(id) <=> ReachedConfirmed(pending[id].stage)
  BY DEF LogInv, RowsInv, EntryInv
<1>2. ASSUME NEW i \in DOMAIN view, view[i].id \in heard
      PROVE  /\ view[i].stage \in {"confirmed", "finalized"} <=> EntryLanded(view[i].id)
             /\ view[i].class = IF view[i].id \in DOMAIN failures
                                THEN failures[view[i].id] ELSE "none"
  <2>1. view[i].id \in DOMAIN attempts
    BY ViewIndices
  <2>2. /\ view[i].class = IF view[i].id \in DOMAIN failures THEN failures[view[i].id] ELSE "none"
        /\ \/ view[i].stage = pending[view[i].id].stage
           \/ view[i].stage = "failed" /\ ~ReachedConfirmed(pending[view[i].id].stage)
    BY <1>2 DEF HeardInv
  <2>3. view[i].stage \in {"confirmed", "finalized"} <=> ReachedConfirmed(pending[view[i].id].stage)
    BY <2>2 DEF ReachedConfirmed
  <2> QED
    BY <1>1, <2>1, <2>2, <2>3
<1> QED
  BY <1>1, <1>2 DEF TelemetryAgrees, RecentInv

(* On a confirmed stream the lifecycle, the log and the view agree.        *)
THEOREM TelemetryAlwaysAgrees == ConfirmedStream => (LiveSpec => []TelemetryAgrees)
<1> SUFFICES ASSUME ConfirmedStream PROVE LiveSpec => []TelemetryAgrees
  OBVIOUS
<1>1. LiveInit => HeardInv
  BY ViewInit0
<1>2. ASSUME IInv, IInv', LogInv, LogInv', ViewInv, HeardInv,
             [Run]_<<vars, logVars, viewVars>>
      PROVE  HeardInv'
  <2>1. CASE Run
    BY <1>2, <2>1, HeardStep
  <2>2. CASE UNCHANGED <<vars, logVars, viewVars>>
    BY <1>2, <2>2 DEF HeardInv, vars, table, ledger, logVars, viewVars
  <2> QED
    BY <1>2, <2>1, <2>2
<1>3. IInv /\ LogInv /\ ViewInv /\ HeardInv /\ RecentInv => TelemetryAgrees
  BY AgreementLemma
<1> QED
  BY <1>1, <1>2, <1>3, ViewInductive, ViewRecordsLog, LogInductive, LogRecordsSaga, SagaInductive,
     PTL DEF LiveSpec

===============================================================================
