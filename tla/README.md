# PrometheonOS in TLA+

PrometheonOS submits Jito bundles to Solana, follows them over a Yellowstone
stream, and on a non-landing classifies the failure, asks an LLM agent, and
resubmits or abandons. This directory models its control: the submission saga,
the correlator, the submitters with their probe, the block engine client, the
stream client, the slot tracker, the telemetry engine, the submit endpoint with
the agent it asks, and what the telemetry of a run becomes in receipts and on
the dashboard. TLC checks the models on small instances; TLAPS proves every safety
property the passing runs check, for all instances.

Paths below are relative to `src/crates/` unless they start with `src/`.

## 1. The system

| Component | State | Operations | Interacts with |
|---|---|---|---|
| Lifecycle, slot statuses (`prometheon-lifecycle`, `prometheon-types`) | stage of one submission | `advance` | owned by the correlator |
| Correlator (`prometheon-core/src/proof.rs`, `PendingBundles`) | id -> lifecycle, landed slot; signature -> id | `track`, `on_tx_status`, `on_slot_status` | called by the saga and by `track_and_emit` |
| Classifier, retry policy (`prometheon-failure`, `prometheon-retry/src/policy.rs`) | none | `classify`, `decide_retry`, `resolve_retry` | called by the saga and both planners |
| Saga (`prometheon-core/src/saga.rs`) | attempts, bases, landed and failed sets, counts, latest slot | `launch`, `fail_and_retry`, `reconcile`, receive loop, sweep | stream (channel), submitter, probe, agent (awaits) |
| Submitters (`submit.rs`, `bin/proof.rs`, `proof.rs`) | blockhash cache per base, captured stale blockhash | `submit`, `probe_failure` | RPC, block engine |
| RPC client (`rpc.rs`) | none | the calls of submitters, probe and timing gate | HTTP |
| Block engine client (`prometheon-bundle/src/client.rs`) | time of the last request, behind a lock the clones share | `pace`, `post_rpc` over regions, parsers | HTTP |
| Slot tracker (`prometheon-ingest/src/slot_tracker.rs`) | status per recent slot, highest, start, checkpoint | `observe` | owned by the stream task |
| Stream client (`prometheon-ingest/src/yellowstone.rs`) | subscription, tracker, counters | supervise loop, `run_once`, `handle_update`, `forward` | server; bounded channel to one consumer |
| Telemetry engine, health model, metrics (`engine.rs`, `prometheon-netmodel`, `metrics.rs`) | slot counters, scores, what a scrape reads | message, health tick, tip-floor tick | consumer of a stream of its own; sinks |
| Proof-run tracker (`proof_run.rs`) | a correlator | `track_and_emit` | consumer of a stream |
| Submit endpoint, live proof run (`submit.rs`, `bin/proof.rs`) | one task, stream and saga per request | `serve_submit`, `submit`, `run_live` with its timing gate | agent, saga |
| Agent bridge (`prometheon-telemetry/src/nats.rs`, `src/ai-agent`) | queue of questions | request-reply with a deadline | NATS |
| Receipts, export (`submit.rs`, `prometheon-telemetry/src/export.rs`) | captured telemetry of one run | `build_log`, `receipt_from_log` | telemetry of one run |
| Dashboard live state (`src/dashboard/lib/live.ts`) | rolling tables | fold of telemetry, eviction | NATS |
| Retry orchestrator, backoff, action planner (`prometheon-retry`, `submission.rs`) | failures per saga | `on_failure`, `clear`, `backoff_ms`, `next_saga_action` | no live caller |
| Bounded ingest queue (`prometheon-ingest/src/backpressure.rs`) | queue and accounting | `push`, `pop` | no live caller |
| Configuration, wallet, preflight; dashboard views, contracts, docs | | | not modelled |

Each consumer is one sequential task with awaits: it interleaves with the
stream task (through the bounded channel), with the chain, and with time, but
not with itself. What is hard:

- *Order.* Transactions, slot statuses, failures and give-up slots concern the
  same attempt and arrive in any order, repeatedly, or never. A retry does not
  cancel the attempt it replaces, which may still land.
- *Awaits.* The saga blocks on RPC, the block engine and the agent; meanwhile
  the stream fills the channel, blockhashes expire and earlier attempts land.
- *Sharing.* Clones of the block engine client share one pacing clock behind a
  lock that is held across a sleep, and a caller may be dropped in the middle.
  Concurrent requests share one agent and even one base name. The exporter reads
  health and counters, which are written under two locks with an await between.
- *Loss.* The channel drops the newest message when full; a stream breaks, ends
  or is refused; a replay may be rejected. A region that gave no answer may have
  taken the bundle. Telemetry is delivered at most once.
- *Stale answers.* The agent answers questions given up long ago.
- *Deadlines.* A give-up slot per attempt (none when RPC failed), and one
  deadline for the run, after which nothing may be submitted.
- *Boundaries.* The window of the tracker, the last valid block height, the
  attempt cap, the tip band, the capacity of a queue, the width of a word.

What makes each component correct: lifecycles are legal paths and never claim
more than the chain; each attempt is failed and retried at most once, within
policy; each base ends with an outcome and the counts match it; nothing is paid
after the run; a retry never reuses an expired blockhash; requests keep their
pace and an error never hides a success; the tracker neither forgets nor invents
inside its window; drops are counted; the pipeline drains; an answer reaches the
one who asked, and every request is answered; log, receipt, metrics and
dashboard agree with the state they report. `PROJECT.json` lists every component
and, under `hazards`, each place where this could go wrong, with the properties
aimed at it.

## 2. Modules

| Module | Models | Extends or instantiates |
|---|---|---|
| `Commitment` | stages, transitions, slot statuses and ranks | |
| `CommitmentPath` | abstract: every lifecycle is a legal path | `Commitment` |
| `Correlator` | `PendingBundles` as operators on its table | `Commitment` |
| `FailurePolicy` | `classify`, `signals_from_observation`, `decide_retry`, `resolve_retry` | |
| `Saga` | the saga, one action per step between two awaits | `Correlator`, `FailurePolicy`; `CommitmentPath` |
| `SagaInvariant` | the inductive invariant and the accounting | `Saga` |
| `RunLog` | telemetry of a saga's run, the log, receipts and recovery chains read off it | `Saga` |
| `LiveView` | the dashboard's table of bundles, folded from that telemetry | `RunLog` |
| `RunProofs` | proofs about the saga, its record and the live view | `LiveView`, `SagaInvariant` |
| `Submitter` | fault assignment, blockhashes, tips, RPC calls and the probe against block height | `FailurePolicy` |
| `RetryPlanning` | orchestrator, backoff and action planner as operators | `FailurePolicy` |
| `SubmitterProofs` | proofs about the submitters and the planners | `Submitter`, `RetryPlanning` |
| `BlockEngineClient` | pacing of clones, failover between regions, results | |
| `BlockEngineProofs` | proofs about it | `BlockEngineClient` |
| `SlotTracker` | `observe` and what it calls, on a tracker record | `Commitment` |
| `SlotTracking` | the tracker fed by a stream over a forked chain | `SlotTracker` |
| `SlotHealth` | the engine's slot counters on top of the tracker | `SlotTracking` |
| `SlotTrackingProofs` | proofs about the tracker and the counters | `SlotHealth` |
| `Landing` | chain, server, subscription, stream task, channel and consumer, composed | `SlotTracker`, `Correlator` |
| `LandingProofs` | proofs about it | `Landing` |
| `Engine` | the telemetry engine's loop, its timers and the metrics | |
| `EngineProofs` | proofs about it | `Engine` |
| `IngestQueue` | the bounded queue under both drop policies | |
| `IngestQueueProofs` | proofs about it | `IngestQueue` |
| `SubmitService` | connections and a proof run at one agent | |
| `SubmitServiceProofs` | proofs about it | `SubmitService` |
| `MC*` | the constants of the TLC instances | |

### State and actions against the code

**Saga.** `pc` names the await the task is at. `attempts`, `bases`, `landed`,
`failures`, `latestSlot`, `summary` are the fields of `struct Saga` (`failures`
keeps the class next to the `failed` set); `pending` is `PendingBundles`
without timestamps; `refused` is a history variable for the counts; `work`
holds what the loops over `expired` and `stuck` have left; `timeUp` is the
global deadline. `LaunchFirst` is the launch loop of `run`; `Wait`,
`RecvTx`, `RecvSlot`, `RecvOther`, `RecvTimeout`, `StreamClosed`, `LeaveAtTop`
are the arms of the receive loop; `TxFailed` and `GiveUp` call
`fail_and_retry(.., true)`, `Sweep` calls it with `false`; `Reconcile` is
`reconcile` up to its give-up loop. `fail_and_retry` is one action although it
awaits: the task itself is sequential, and what other tasks do meanwhile (time,
the chain) is read by nobody until the next step. The stream may report any
status of any transaction at any time; on a confirmed stream one transaction
is not reported both failed and succeeded and a slot in which one landed does
not die (`TxReportPossible`, `SlotReportPossible`). The probe may come to any class,
the agent may ask for a refresh or not (no answer reads as not). The agent's
tip is in `Submitter`.

**Submitter.** `Fault` is what `assign_injections` makes of the parsed `--inject`
specification. Time is the block height and a blockhash is named by the height
it was fetched at. `due` is the spec of a pending launch, `draft` the spec and
blockhash of the submit under way, so blocks pass and attempts land between
`Choose` (which includes the validity check) and `Send`. `Fail` probes,
classifies (`FailurePolicy`) and applies the policy. Every RPC or status call is
`Call(value)`: the true value, or `NoAnswer`, each call on its own; the bundle
and in-flight statuses may say anything, so a rejected bundle, which is tracked
by its signature, is an attempt whose status is absent. `Life` is 150 blocks in
reality.

**RetryPlanning.** Pure operators, with the width of the word as a parameter.
`MCSubmitter` checks them over bounded inputs as named assumptions
(`InjectionsAreLast`, `BackoffDoubles`, `BackoffWraps`, `OrchestratorCounts`).

**BlockEngineClient.** `queue` is the fair lock around `last_request`, and its head holds
it: a caller sleeps (`asleep`) with the lock held. `age` is the time since the
last mark, cut at the interval, `rest` what is left of a sleep. `Answer` is the
body of the loop over regions: what each answer is worth and what the call then
returns, by method. `accepted` and `adrift` are what the regions did with a
bundle (history); `Drop` is a future dropped at any await.

**SlotTracking.** `tracker` is the Rust struct, `obs` the returned observation,
`sighted` a history of all slots reported. A chain is a function from produced
slots to parents (forks and skipped slots included); the stream reports its
slots in any order, repeatedly, with or without the parent. `Timely` is what
`slot_tracker.rs:26` says of the window: it outlasts any replay.

**SlotHealth.** Adds `slots_produced` and `slots_skipped` of the health model,
by `apply_slot_observation`. On a linear chain (`Linear`: every block builds on
the latest before it) the counters are exact.

**Landing.** `chain` and `block` are the cluster, `log` what the server has to
report, `conn` and `inflight` (the positions of `log` sent and not yet received)
the subscription, `tracker` and `counters` the stream task, `channel` the bounded channel, `pending` the consumer's
correlator. A slot rises along `Path`, of which all that is assumed is that its
statuses rise in rank, that none is `dead` and that one is `confirmed`. The
transactions of a slot are reported when it is confirmed, in any order, before or
after the slot's own status, because both live callers subscribe at
`confirmed` with unfiltered slot statuses. `missed` and `seen` are histories.

**RunLog.** Every step of the saga together with the events it emits: `bundles`
and `rows` are what the capturing sink of `run_submit` holds, and the
operators `Before`, `EntryLanded`, `Receipt`, `Recovered` are the order of
`build_log`, `receipt_from_log` and the selection in `render_recovery_chains`. The
log sorts rows by timestamp. Only one thing about time matters to that order: whether a
message was received before the submission it is about had returned, so a row
carries that one bit (`early`), and `reached` says how many of the submissions had
returned when the message being handled was received: `Before` puts early rows
first and leaves the others as they were emitted. The receipt's fallback
for telemetry without a base id is left out: every event emitted has one.

**LiveView.** Every step of the run together with what the dashboard makes of its
events: `view` is the bundle map of `live.ts` in insertion order, `Fold` its
`apply` for bundle, lifecycle and failure events, `Evicted` the bound of
`upsertBundle`. What a step publishes arrives or is gone (`lost`); `heard` says
of which attempts everything arrived (history).

**Engine.** `at` names the await the loop is in; one action per branch of
`select!` and one per return of its await. Scores are fractions instead of
floats. `health` and `exported` are the two halves of the metrics state; `log` is
the sequence of observations handled (history), `Total` sums over a stretch of it. The stream's task is reduced to
what it does to the channel.

**IngestQueue.** Items are numbered as they are offered. `Push` is `push` with
its three outcomes, `Pop` is `pop`.

**SubmitService.** A client is a connection of `serve_submit` or the live proof
run. Its saga is what the client sees of it: the questions it asks, the attempts
it sends, its end. `inbox` is the agent's subscription, with the question at work
first; a question beyond `Backlog` is dropped, one without a subscriber is refused
at once. `decide` is `Answered`, with the checks of the causal fields;
`get_slot_leaders` may give any of `Schedules` or nothing, and
`timing_hold_slots` makes the hold of it. `used` is the decision acted on last
(history).

## 3. Runs

Every run is listed in `PROJECT.json` with its properties; the properties are
stated in words above their definitions.

| Run | Bounds | What it shows |
|---|---|---|
| `saga_two` | 2 bases, 2 attempts, 1 slot, 3 classes, symmetric bases | the safety properties of the saga and its inductive invariant |
| `saga_forks` | 1 base, 3 attempts, 2 slots, 2 classes, processed stream | chains of retries with superseded attempts landing late; contradicting reports; refinement of `CommitmentPath`; the run ends |
| `saga_retry_landed` | 1 base, 3 attempts, 2 slots | divergence, section 6 |
| `run_log` | 1 base, 2 attempts, 2 slots, 2 classes, under 3 rows repeated, windows 1 and 2, telemetry of 1 step lost | log, receipt, recovery chain and dashboard agree with the saga's own state |
| `submitter` | 2 bundles, an inject specification with an unknown name and one scenario too many, 2 attempts, life 1, 3 blocks | containment of faults, blockhash reuse, probe, expiry; the bounded checks of the pure operators |
| `block_engine` | 2 callers, 3 methods, interval 2, 3 regions of which 2 are asked | one pace for all clones; no error hides a success; calls return |
| `slots` | 5 slots, window 2, 3 chains, 3 statuses, 5 counts | memory, first sightings, gaps, counters |
| `landing` | 1 transaction, 2 slots, channel of 1, 1 outage, replay may be rejected | conclusions are true, losses counted, intact unless lost; the pipeline drains |
| `landing_early` | no outage, channel too large to drop | divergence, section 6 |
| `engine` | channel of 2, 3 updates, 1 reconnect, 2 health ticks | a scrape fits together; the loop comes back to the stream |
| `ingest_queue` | capacities 0 to 3, both policies, 8 items | what survives saturation is what the policy says |
| `submit_service` | 1 connection, 1 proof run, backlog 2, 1 outage, `u32` of 4 values | own answers only; an error means nothing was sent; every request is answered |

**Why the bounds are enough.** The saga treats bases alike and couples them only
through the receive loop and the loops of `reconcile` and the sweep, so two
bases show every coupling; three attempts have a first, a middle and a
last (capped) retry. Classes stand for the three ways the policy treats one.
Two slots let a give-up slot be ahead of or behind the landing slot. A window of
2 is smaller than the chain of 5, so pruning, the edge of the window and
pre-history all occur. One outage suffices for a broken stream followed by an
accepted or rejected replay; the channel of 1 fills at once, and a consumer that
keeps up never loses a message, so both sides of `IntactUnlessLost` occur.
Blockhashes of life 1 expire within the run (one fetched at 0 or 1 does), and 3
blocks leave room for a captured stale one to expire before its attempt and for
the retry's fresh one to expire after it. Two callers meet at the pacing lock in
every order; an interval of 2 leaves a caller half asleep when another arrives or
it is dropped; a call that asks two of three regions has a first and a last
region and one it must not ask. Eight items saturate the largest queue several times. In
`run_log` a window of 1 evicts the first attempt as soon as there is a second,
and one of 2 evicts none.
Two clients at an agent show every mix-up of answers there is between two, and a
backlog of 2 lets the agent be behind by a question that was given up; one
connection is enough since a connection and the proof run differ only in the
timing gate. `Wanted` has a value that a `u32` of 4 cuts to 0 and one it cuts to 2.

**Fairness.** `Saga!FairSpec`: the task runs whenever it is not waiting for a
message (its calls are bounded: RPC and block engine 10 s, agent by the NATS
request timeout), and the clock runs. Nothing is assumed of the stream.
`Landing!FairSpec`: the chain goes on, the supervisor retries without end,
the receive loop never blocks, the consumer loops on the channel; outages are
bounded by `MaxOutages`. `BlockEngineClient`: the runtime polls the head of the
lock's queue and sleepers, the clock runs, and the request timeout ends every wait
for an answer (`Answer(c, "lost")`); nothing is owed by a region. `Engine`: sinks and the tip-floor
request return; `TakeMessage` is strongly fair because `select!` picks at random
among the branches that are ready, so a timer that keeps firing cannot hold the
channel off for ever. `SubmitService`: tasks run, requests time out, every saga
has a deadline; the agent owes nothing.

**Deadlock** is checked in all runs except four: `slots` and `engine`, whose
counters are bounded; `ingest_queue`, where all items may have been offered and
taken; and `submit_service`, where every request may have been answered. A
finished saga stutters by `Over`, a drained pipeline by `Rest`, a finished
submitter by `Over`.

Each property of a passing run has a mutant: a plausible bug in one definition
(kept next to it as `...` "Mutant of ...") under which that run must fail. For example
`CanFailAgain` drops the check of the failed set, `RetainedShort` prunes one
slot too many, `ReuseUnchecked` skips the validity check of a cached blockhash,
`LockFreedForSleep` lets the pacing lock go before the sleep.

## 4. Proofs

All proofs are checked by `tlapm` to the last leaf. Every invariant and every
safety property of the steps that a passing run checks is a theorem; only
liveness is left to TLC. The bounds of the models (`MaxRows`, `MaxOutages`,
`MaxTicks` and so on) are constants the theorems leave open.

**Saga** (`RunProofs`, first half). `SagaInductive` proves `Spec => []IInv`
for any bases, attempt caps, slots, deadlines and classes, from
`SagaAssumption` and `DistinctTransactions` (two attempts are two transactions;
section 6 says what happens otherwise). None of the stated properties
is inductive. That an open base has a live attempt needs that its current
attempt is its newest (`CurrentIsNewest`) and that the tables share
their keys (`TablesAgree`); that a finished run is settled needs that the sweep's
list has every open base (`WorkIsOpen`) and that a base is done only with an
outcome (`DoneHasOutcome`). `IInv` is the conjunction of these; `saga_two` checks
it with TLC. From it follow type correctness, `OneLiveAttempt`,
`RetryFollowsPolicy`, `OpenBaseIsLive`, `SettledAtEnd`, and the action
properties `DoneIsFinal`, `LandedNeverGivenUp`, `NoSubmissionAfterRun`.
`SagaCountsAgree` adds `Accounting` (finite sets and cardinalities),
`SagaLandingHolds` and `SagaLifecyclesArePaths` (the refinement of
`CommitmentPath`) rest on a lemma that every table change is a legal transition.

**Record and live view** (`RunProofs`, second half). `LogRecordsSaga` and
`ViewRecordsLog` prove that recording and watching take nothing from the saga, so
its theorems hold of every recorded run. `LogInv` then ties the telemetry to the
saga's state: every attempt has its rows, and the last one tells its stage
(`RowsInv`); it is announced exactly once (`BundlesInv`); the attempts of a base
are numbered without a hole (`Numbered`); an entry of the log is a landing when
its lifecycle is one, and its rows name no second block (`EntryInv`); outside of
a message every landing is counted (`OutcomeInv`). `ReceiptsAreOutcomes` follows
for a confirmed stream: on a processed one a fork may undo what a row has said.
`FinalStagesAreTimely` needs no such hypothesis: that the last row by time is the
last one emitted when none is early, and that it tells the stage. Of the view,
`ViewInv` says that its rows are in the order of the announcements (which is why
eviction takes the oldest), `HeardInv` what a row says of an attempt all of whose
events arrived, and `RecentInv` that the latest attempts heard of are in it. From
them `RowsAlwaysTrue`, whatever is lost and on any stream, and
`TelemetryAlwaysAgrees` on a confirmed one. That a base has a latest event, and
an entry a first and a last row, is shown from the least number of a set
(`Smallest`), since the library's induction theorems take an operator.

**Submitters** (`SubmitterProofs`). From `SubmitterAssumption` and
`NoneAssumption` (the values that stand for "none" are no others), for any number
of bundles, any injected faults, any validity and any answers. The invariant says
that a pending launch is of the attempt after the current one and carries a fault
only if it is the first (`DueFollows`), that the submit under way is a pending one
(`DraftIsDue`), that the current attempt is the newest and the one whose blockhash
is cached (`CurrentIsNewest`), that attempts are told apart by number (`Numbered`)
and have their fault, account and tip from it (`SentWell`), that what awaits an
outcome has none (`Undecided`), that what was found expired is (`ExpiryIsTrue`)
and that the submit after it is on a newer blockhash (`DraftIsFresh`): this last
one carries `ExpiredHashIsReplaced` over the await between choosing and sending.
`OwnAttemptsDiffer`, `ProbeSeesOwnHash`, `FaultsAreContained` and `ExpiredIsFinal`
follow.

**Planners** (`SubmitterProofs`). `PlannersAgree`: `next_saga_action` submits
again exactly when the saga would, and asks for no refresh the saga would not make.
`OrchestratorStopsAtCap`: the failures of one saga do not touch another's count,
and at the cap nothing is retried. `BackoffWithinCap`: no attempt, base or width
of the word leads past the cap.

**Landing** (`LandingProofs`). `RealInv` says that every update the server has to
report, and so every one under way (`StreamInv`), has happened on the chain
(`WorldInv`), and that a lifecycle is bound to the block of its transaction and no
further than that block (`PendingInv`): `LandingsAreReal`. `CountInv` accounts for
every update received (`LossesAreCounted`). `ReplayInv` says that during a replay
each report above the checkpoint was seen or is under way: `ReplaysCover`.
`IntactInv`, the largest, proves `LandingsAreFollowed`: a block's transactions are
reported before its end (`LogInv`), without a gap each report is under way or seen
(`SentInv`), and what was seen waits in the channel or has had its effect, the end
of a block behind its transactions (`KeptInv`).

**Slot tracker** (`SlotTrackingProofs`). `TrackerMemory` is the inductive
invariant that relates what is remembered, `highest` and `start` to what was sighted, for any
window and any chain. From it: `RemembersTheWindow`, `TrackingTypeOK`,
`FirstSightingOnce`, `GapIsRealInside`, `NoSilentGap`; `TrackerCheckpoint` adds the
checkpoint. `SlotsCountedOnce` adds `CountedInv`: what was counted was
sighted, or lies in a gap one of whose ends was; so no later sighting counts it again.

**Block engine client** (`BlockEngineProofs`). `ClonesKeepPace` proves `Paced` for
any number of clones and any interval. The invariant (`PaceInv`) ties the queue at the lock to the control states
(who waits has a place in it, only its head sleeps) and a sleeper's rest to the
age of the mark: together they are at least the interval, so nobody wakes up
early. `CallsStopAtVerdict`: no region is asked after a verdict (`VerdictInv`).
`ErrorsAreHonest` adds what each region did with the bundle and what the answers
so far say of it (`HonestInv`): a call returns what its last answer is worth, and
no earlier one was worth anything.

**Telemetry engine** (`EngineProofs`). `ScrapesAlwaysAgree`, for any stream. What
is handled is counted (`HandledInv`); the work is in `Total`, a recursive function:
that a sequence has partial sums (`SumsExist`) and only one such function
(`SumsAgree`) is proved by least counterexample, so that the total of a stretch
does not change with what comes after it (`CountedStretch`).

**Ingest queue** (`IngestQueueProofs`). `Invariant` is inductive for any
capacities: every item is taken, queued or counted (`Accounted`), the queue is
in order and newer than what was taken (`InOrder`), gapless under drop-oldest
(`Freshest`), and the peak is honest (`PeakIsHonest`). `AdmittedItemsSurvive` is the action
property of drop-newest.

**Submit service** (`SubmitServiceProofs`). `ServiceInv`: a task waits for a
decision only while it asks and has sent nothing before it starts (`TaskInv`);
every question queued (`QuestionsFit`) and every reply under way (`RepliesFit`) has
a number its client gave out, and the newest is of the kind that the client waits for.
From it `ErrorsSendNothing` and `DecisionsAreOwn`, for any clients and schedules.

**Only model-checked.** Liveness is beyond the prover: `RunEnds`, `Drains`,
`CallReturns`, `RequestAnswered`, `KeepsUp`. What `AssignInjections`, `BackoffMs` and
`OnFailure` compute beyond the theorems above (which bundle gets which fault, the
powers of two of the backoff, the length of a series of retries) is compared with
its closed form over bounded inputs, by the assumptions of `MCSubmitter`.


## 5. What is not modelled

- Latencies, and timestamps except for their order in `RunLog`; wording,
  confidences and evidence grades.
- The assembly, signing and encoding of transactions; HTTP, NATS and Postgres
  I/O; prompts, providers and JSON extraction of the agent.
- Configuration, wallet, preflight and start-up; the dashboard's views.
- The summary of `track_and_emit` and `classify_nonland`: the saga has replaced
  that driver outside tests.
- `LeaderWindow`, `reconnect_plan`: no caller outside tests.
- Fault scenarios besides the two that change what is sent to whom, `with_jitter`
  (floating-point noise), the length of reconnect delays.
- The messages queued while the saga launches its first attempts: the model's
  loop may leave at the top, as the code's may, but what the queue held then
  is not part of it.
- The leader schedule moving on while the agent is asked.

## 6. Where code and text disagree

Two have a `violation` run with one property, quoted in `PROJECT.json`.

- `saga_retry_landed`: a base that landed by a superseded attempt is resubmitted
  when its current attempt then fails on chain.
- `landing_early`: nothing waits for the subscription before submitting.

The others were met while modelling and are left to the reader of the code:

- Two bases that sign the same transaction share one id (`saga.rs:230`), and the
  sweep leaves one of them open; hence `DistinctTransactions`.
- A received parent exactly one window old is reported as missed
  (`slot_tracker.rs:212`); `GapIsRealInside` leaves that edge out.
- Repeated and late reports of a dead slot are counted again (`engine.rs:47`).
- A landing reported while its send was still out sorts before the submission
  (`export.rs:151`), and the receipt of a landed bundle says `submitted`;
  `FinalStageIfTimely` states the condition.
- The backoff is "overflow-safe (saturates to the cap)" only from a shift of the
  whole word on: below that it wraps and may be zero (`backoff.rs:11`; the
  assumption `BackoffWraps` exhibits it).
- `src/ai-agent/src/schema.ts:41` calls the timing decision advisory, but the
  proof run holds its submission on `after.hold`.
- The decisions the agent publishes carry no `kind`, so the dashboard's fold
  ignores them.
- The exporter renders landing gauges that are always zero, which
  `metrics.rs:20` says would mislead.
- A `deadline_secs` near the largest `u64` overflows the clock's addition
  (`submit.rs:434`).
- `ComputationalBudgetExceeded` is not recognised by the decoder of on-chain
  errors, which looks for another spelling (`proof_run.rs:147`).

Known limits of the design: a repeated transaction report emits the last
transition once more, so the log's latency adds that delta twice. An attempt
given up on that lands later is counted both as failed and as landed
(`CountsAgree` says what the counts mean). A replay starts behind the newest
completed slot, so what an outage cost of slots at or below it (a confirmation,
say) is not replayed; `IntactUnlessLost` therefore asks that nothing arose while
the stream was down, and `ReplayCovers` says what a replay does cover. Each
request has a block engine client of its own, so the pacing that clones share
does not hold between requests.

Where the code has such a limit, the property says on what condition it holds and
says nothing of the rest: `CountedOnceIfLinear` of slots reported dead,
`FinalStageIfTimely` of early reports, `ErrorIsHonest` of answers that were lost,
`OwnAttemptsDiffer` of attempts of different bases, `GapIsRealInside` of the very
edge of the window. A blockhash may expire between the check of its validity and the send:
`ExpiredHashIsReplaced` is about the retry that follows. A scrape between the two
locks of the metrics may be torn: `ScrapesAgree` then compares the health with
the engine's own counter. The saga is one task that owns all it works on, and the
attempts it is about to give up on belong to different bases, so that list cannot
become stale: `LandedNeverGivenUp` is about landings of superseded attempts.

## 7. Plan

The most important first; all rows but the last two are done.

| | Modules | Runs | Theorems |
|---|---|---|---|
| 1 | `Commitment`, `Correlator`, `FailurePolicy`, `Saga` | `saga_*` | `IInv` and all safety properties |
| 2 | `SlotTracker`, `SlotTracking`, `SlotHealth` | `slots` | memory, gaps, checkpoint, counters |
| 3 | `Landing` | `landing`, `landing_early` | landings real and followed, losses counted, replays |
| 4 | `Submitter`, `RetryPlanning` | `submitter` | blockhashes, faults, probe, expiry; planners |
| 5 | `RunLog`, `LiveView` | `run_log` | receipts, final stages, rows, telemetry |
| 6 | `BlockEngineClient` | `block_engine` | pace, verdicts, honest errors |
| 7 | `IngestQueue` | `ingest_queue` | accounting, order, policies |
| 8 | `SubmitService` | `submit_service` | own answers, honest errors |
| 9 | `Engine` | `engine` | scrapes |
| 10 | `SagaQueue`: the saga behind the real channel, launches consuming the deadline | what the sweep may call a failure | |
| 11 | `Supervisor`: reconnect delays, resets, closing | bounded delay | |
