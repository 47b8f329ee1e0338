------------------------------- MODULE LiveView -------------------------------
(***************************************************************************)
(* The dashboard's live view of a run (dashboard/lib/live.ts): a process   *)
(* that connects to NATS at the first request for it and folds the run's   *)
(* telemetry into a bounded table of bundle rows.  NATS delivers at most   *)
(* once: what is published before the connection or during an outage never *)
(* arrives, and nothing is replayed.  A publisher's events keep their      *)
(* order.                                                                  *)
(***************************************************************************)
EXTENDS RunLog

CONSTANTS Windows,   \* values of BUNDLES_WINDOW
          MaxLost    \* bound of the model: steps whose telemetry is lost

ASSUME LiveAssumption == Windows \subseteq Nat \ {0} /\ MaxLost \in Nat

VARIABLES
    window,     \* BUNDLES_WINDOW
    view,       \* the rows of the bundle map, in insertion order
    lost,       \* steps of which the telemetry was lost (history)
    heard       \* ids of which every event so far was folded (history)

viewVars == <<window, view, heard, lost>>

LiveInit ==
    /\ LogInit
    /\ window \in Windows
    /\ view = <<>> /\ lost = 0 /\ heard = {}

-------------------------------------------------------------------------------
(* The events of a step of the run.                                        *)

Announced == {bundles'[i].id : i \in (Len(bundles) + 1)..Len(bundles')}
Advanced  == {id \in DOMAIN rows' : id \notin DOMAIN rows \/ Len(rows'[id]) > Len(rows[id])}
GivenUp   == DOMAIN failures' \ DOMAIN failures

Published == ({"bundle"} \X Announced) \cup ({"lifecycle"} \X Advanced) \cup ({"failure"} \X GivenUp)

-------------------------------------------------------------------------------
(* apply                                                                   *)

NewRow(id) == [id |-> id, stage |-> "submitted", slot |-> NoSlot, class |-> "none"]

(* Mutant of Evicted: the newest row is the one that goes.                 *)
EvictedNewest(t) == IF Len(t) > window THEN SubSeq(t, 1, window) ELSE t

(* upsertBundle: above the window the row first inserted goes.             *)
Evicted(t) == IF Len(t) > window THEN Tail(t) ELSE t

(* A bundle event adds a row.                                              *)
OnBundle(t, events) ==
    LET new == {id \in Announced : <<"bundle", id>> \in events}
    IN  IF new = {} THEN t ELSE Evicted(Append(t, NewRow(CHOOSE id \in new : TRUE)))

(* A lifecycle event moves its row, when there is one.                     *)
OnLifecycle(t, events) ==
    [i \in DOMAIN t |->
        IF <<"lifecycle", t[i].id>> \notin events THEN t[i]
        ELSE LET event == Last(rows'[t[i].id]) IN
             [t[i] EXCEPT !.stage = event.stage,
                          !.slot  = IF event.slot = NoSlot THEN @ ELSE event.slot]]

FailureStages == {"failed", "expired", "dropped"}

(* Mutant of OnFailure: every row of the failed bundle's base.             *)
OnFailureByBase(t, events) ==
    [i \in DOMAIN t |->
        IF \A id \in GivenUp : <<"failure", id>> \in events => id[1] # t[i].id[1] THEN t[i]
        ELSE [t[i] EXCEPT !.class = failures'[CHOOSE id \in GivenUp : TRUE], !.stage = "failed"]]

(* A failure event gives its row the class and, unless it has one, a       *)
(* failure stage.                                                          *)
OnFailure(t, events) ==
    [i \in DOMAIN t |->
        IF <<"failure", t[i].id>> \notin events THEN t[i]
        ELSE [t[i] EXCEPT !.class = failures'[t[i].id],
                          !.stage = IF @ \in FailureStages THEN @ ELSE "failed"]]

(* What is delivered of a step's events is folded in their order: a failed *)
(* attempt's failure comes before its successor's announcement, and an     *)
(* attempt's announcement before its first transition.                     *)
Fold(events) == OnLifecycle(OnBundle(OnFailure(view, events), events), events)

-------------------------------------------------------------------------------
(* Connected or not (ensureConnected, at the first request for live data), *)
(* in an outage or not: what a step publishes arrives or is gone.          *)
Run ==
    /\ LogNext
    /\ \E delivered \in {Published} \cup IF lost < MaxLost THEN {{}} ELSE {} :
         /\ view' = Fold(delivered)
         /\ lost' = IF delivered = Published THEN lost ELSE lost + 1
         /\ heard' = (heard \cup Announced) \ {e[2] : e \in Published \ delivered}
    /\ UNCHANGED window

LiveSpec == LiveInit /\ [][Run]_<<vars, logVars, viewVars>>

-------------------------------------------------------------------------------
(* Properties.                                                             *)

(* Whatever is lost, a row tells only what happened to its own attempt: a  *)
(* stage and block the attempt was reported at, a class it was given up    *)
(* for, and a failure stage only with such a cause (live.ts:122-160).      *)
RowsAreTrue ==
    \A i \in DOMAIN view :
        LET row == view[i]
            told == ToSet(rows[row.id])
        IN  /\ row.class # "none" => row.id \in DOMAIN failures /\ row.class = failures[row.id]
            /\ row.slot # NoSlot => \E r \in told : r.slot = row.slot
            /\ \/ \E r \in told : r.stage = row.stage
               \/ row.stage = "failed" /\ row.class # "none"

(* Lifecycle, log and view agree.  The log's entry of an attempt is a      *)
(* landing exactly when the lifecycle the saga decides by reached confirmed*)
(* and, where nothing was lost, the view has the latest bundles, each as   *)
(* landed exactly when its entry is and with its class exactly when it was *)
(* given up, although a late report of a failed attempt overwrites its     *)
(* stage (live.ts:138, 150-154).                                           *)
TelemetryAgrees ==
    /\ \A id \in DOMAIN rows :
          /\ Last(rows[id]).stage = pending[id].stage
          /\ EntryLanded(id) <=> ReachedConfirmed(pending[id].stage)
    /\ \A i \in DOMAIN view : view[i].id \in heard =>
          /\ view[i].stage \in {"confirmed", "finalized"} <=> EntryLanded(view[i].id)
          /\ view[i].class = IF view[i].id \in DOMAIN failures THEN failures[view[i].id] ELSE "none"
    /\ \A p \in DOMAIN bundles :
          (bundles[p].id \in heard /\ p + window > Len(bundles))
             => \E i \in DOMAIN view : view[i].id = bundles[p].id

===============================================================================
