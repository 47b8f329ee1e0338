---------------------------- MODULE SagaInvariant ----------------------------
(***************************************************************************)
(* The inductive invariant of the saga: what has to be known of every      *)
(* state for its safety properties to survive the next step.  It needs     *)
(* every attempt to be a transaction of its own: two that share one would  *)
(* share their entry in every table (saga.rs:219-228).                     *)
(***************************************************************************)
EXTENDS Saga

ASSUME DistinctTransactions ==
    \A b, c \in Bases, n, m \in 1..MaxAttempts :
        TxId[b][n] = TxId[c][m] => b = c /\ n = m

(* Every table speaks of the same attempts, and an attempt's id tells its  *)
(* base and number.                                                        *)
TablesAgree ==
    /\ IsFiniteSet(DOMAIN attempts)
    /\ DOMAIN pending = DOMAIN attempts
    /\ DOMAIN failures \subseteq DOMAIN attempts
    /\ landed \subseteq DOMAIN attempts
    /\ \A id \in DOMAIN attempts : id = TxId[attempts[id].base][attempts[id].no]

(* The current attempt of a base is its newest one.                        *)
CurrentIsNewest ==
    /\ \A b \in Bases : bases[b].current # NoId =>
          /\ bases[b].current \in DOMAIN attempts
          /\ attempts[bases[b].current].base = b
    /\ \A id \in DOMAIN attempts : LET c == bases[attempts[id].base].current IN
          /\ c # NoId
          /\ attempts[id].no <= attempts[c].no

(* A base the launch loop has not reached has no attempt and no outcome.   *)
Untouched ==
    \A b \in todo : bases[b].current = NoId /\ ~bases[b].done /\ ~bases[b].landed

(* The landed flag of a base and the set of landed attempts agree.         *)
LandedFlags ==
    \A b \in Bases : bases[b].landed => AttemptsOf(b) \cap landed # {}

(* A base is only done with an outcome on record.                          *)
HasOutcome(b) ==
    \/ b \in refused
    \/ AttemptsOf(b) \cap landed # {}
    \/ bases[b].current \in DOMAIN failures

DoneHasOutcome == \A b \in Bases : bases[b].done => HasOutcome(b)

(* The part that speaks of the tables alone.                               *)
Core ==
    /\ TypeOK
    /\ TablesAgree
    /\ CurrentIsNewest
    /\ Untouched
    /\ OneLiveAttempt
    /\ OpenBaseIsLive
    /\ RetryFollowsPolicy
    /\ LandedFlags
    /\ DoneHasOutcome

(* The rest of the run waits for the launch loop.                          *)
LaunchComesFirst == pc = "launch" <=> todo # {}

(* The attempts a loop has still to give up on are attempts of bases that  *)
(* have not landed; the sweep has all of those that are still open.        *)
WorkIsOpen ==
    /\ pc \in {"giveUp", "sweep"} =>
          /\ work \subseteq DOMAIN attempts
          /\ \A id \in work : ~bases[attempts[id].base].landed
    /\ pc = "sweep" => \A b \in Bases : ~bases[b].done => bases[b].current \in work
    /\ pc = "over" => \A b \in Bases : bases[b].done

IInv == Core /\ LaunchComesFirst /\ WorkIsOpen

(* The counts follow the tables; a refused base is closed, so it is only   *)
(* refused once.                                                           *)
Accounting ==
    /\ IsFiniteSet(refused)
    /\ \A b \in refused : bases[b].done
    /\ CountsAgree

===============================================================================
