---------------------------- MODULE SubmitService ----------------------------
(***************************************************************************)
(* The submit endpoint, the live proof run and the AI agent they ask.      *)
(*                                                                         *)
(* serve_submit spawns one task per connection, each with its own clients, *)
(* stream and saga (crates/prometheon-core/src/submit.rs); the proof run   *)
(* (bin/proof.rs) is one more such client, which asks for a submission     *)
(* timing first.  All of them ask the one agent (ai-agent/src), which      *)
(* serves one question after another, over NATS with a deadline.  Here a   *)
(* saga is what its client sees of it: the questions it asks, the attempts *)
(* it sends and its end; module Saga has its inside.                       *)
(***************************************************************************)
EXTENDS Integers, Sequences

CONSTANTS Conns,            \* connections to the endpoint
          Proofs,           \* live proof runs
          Wanted,           \* max_attempts in request bodies; Absent for none
          Absent,
          DefaultAttempts,  \* parse_submit_body's default and run_live's max_attempts
          U32,              \* values of a u32
          Outputs,          \* what the provider returns: [ok, after]
          Schedules,        \* what getSlotLeaders may return: sequences of leaders
          HoldCap,          \* the cap run_live passes to timing_hold_slots
          Backlog,          \* questions the agent's subscription holds; NATS drops the next
          Outages           \* bound on the times the agent goes away

Clients == Conns \cup Proofs

ASSUME ServiceAssumption ==
  /\ DefaultAttempts \in Nat \ {0} /\ U32 \in Nat \ {0} /\ HoldCap \in Nat
  /\ Backlog \in Nat \ {0} /\ Outages \in Nat
  /\ \A leaders \in Schedules : DOMAIN leaders = 1..Len(leaders)

VARIABLES phase,      \* where the task of a client is
          limit,      \* max_attempts of its saga
          attempt,    \* attempts sent
          stream,     \* clients whose ingest task runs
          asking,     \* the decision a client waits for, or "none"
          asks,       \* how many questions it has asked
          used,       \* the decision it acted on last, until it asks again
          hold,       \* slots it still holds before submitting
          response,   \* what it answered its caller
          up, outages, inbox,   \* the agent: subscribed, its queue, the question at work first
          replies     \* replies on their way

agentVars == <<up, outages>>
vars == <<phase, limit, attempt, stream, asking, asks, used, hold, response,
          up, outages, inbox, replies>>

Nothing == [from |-> "nobody", no |-> 0, kind |-> "none", after |-> {}]

AsU32(n) == n % U32

\* parse_submit_body and the max(1) of submit.
MaxAttempts(w) ==
  LET n == IF w = Absent THEN DefaultAttempts ELSE AsU32(w)
  IN  IF n < 1 THEN 1 ELSE n

\* The connections are accepted, the proof run is started.
Init ==
  /\ phase = [c \in Clients |-> "accepted"]
  /\ \E wanted \in [Clients -> Wanted \cup {Absent}] :
       /\ \A c \in Proofs : wanted[c] = Absent
       /\ limit = [c \in Clients |-> MaxAttempts(wanted[c])]
  /\ attempt = [c \in Clients |-> 0]
  /\ stream = {}
  /\ asking = [c \in Clients |-> "none"]
  /\ asks = [c \in Clients |-> 0]
  /\ used = [c \in Clients |-> Nothing]
  /\ hold = [c \in Clients |-> 0]
  /\ response = [c \in Clients |-> "none"]
  /\ up \in BOOLEAN /\ outages = 0 /\ inbox = <<>>
  /\ replies = {}

-----------------------------------------------------------------------------
(***************************************************************************)
(* Asking the agent                                                        *)
(***************************************************************************)

Refusal(c, no, kind) == [to |-> c, no |-> no, kind |-> kind, ok |-> FALSE, after |-> {}]

\* request_decision: the question goes to the agent's queue; with no subscriber NATS says so at once.
Ask(c, kind) ==
  /\ asks' = [asks EXCEPT ![c] = @ + 1]
  /\ asking' = [asking EXCEPT ![c] = kind]
  /\ used' = [used EXCEPT ![c] = Nothing]
  /\ phase' = [phase EXCEPT ![c] = "asking"]
  /\ inbox' = IF up /\ Len(inbox) < Backlog
                 THEN Append(inbox, [from |-> c, no |-> asks[c] + 1, kind |-> kind])
                 ELSE inbox
  /\ replies' = IF up THEN replies ELSE replies \cup {Refusal(c, asks[c] + 1, kind)}

requireCausalAfter(kind, after) ==
  /\ kind \in {"tip", "retry"} => "tip" \in after
  /\ kind = "retry" => "refresh" \in after

\* decide: the provider's output, when it parses and carries what the core reads; an error else.
Answered(q, out) ==
  IF out.ok /\ requireCausalAfter(q.kind, out.after)
    THEN [to |-> q.from, no |-> q.no, kind |-> q.kind, ok |-> TRUE, after |-> out.after]
    ELSE Refusal(q.from, q.no, q.kind)

\* The agent answers one question after the other, those given up meanwhile included.
Reply ==
  /\ inbox # <<>>
  /\ IF response[Head(inbox).from] = "none"
       THEN \E out \in Outputs : replies' = replies \cup {Answered(Head(inbox), out)}
       ELSE UNCHANGED replies
  /\ inbox' = Tail(inbox)
  /\ UNCHANGED <<phase, limit, attempt, stream, asking, asks, used, hold, response, up, outages>>

\* The agent's process ends and its questions with it, or it subscribes again.
AgentLeaves ==
  /\ up /\ outages < Outages
  /\ up' = FALSE /\ outages' = outages + 1 /\ inbox' = <<>>
  /\ UNCHANGED <<phase, limit, attempt, stream, asking, asks, used, hold, response, replies>>

AgentReturns ==
  /\ ~up /\ up' = TRUE
  /\ UNCHANGED <<phase, limit, attempt, stream, asking, asks, used, hold, response, outages,
                 inbox, replies>>

\* A reply is lost, or reaches an inbox nobody listens at any more.
ReplyLost ==
  /\ \E r \in replies : replies' = replies \ {r}
  /\ UNCHANGED <<phase, limit, attempt, stream, asking, asks, used, hold, response,
                 up, outages, inbox>>

\* Mutant of Mine: one inbox per client instead of one per request.
MineByClient(c, r) == r.to = c

\* A request listens at an inbox of its own.
Mine(c, r) == r.to = c /\ r.no = asks[c]

-----------------------------------------------------------------------------
(***************************************************************************)
(* The task of a client                                                    *)
(***************************************************************************)

\* The answer to the caller; what runs for the client stops with it.
Finish(c, r) ==
  /\ phase' = [phase EXCEPT ![c] = "answered"]
  /\ response' = [response EXCEPT ![c] = r]
  /\ stream' = stream \ {c}
  /\ used' = [used EXCEPT ![c] = Nothing]

\* Wallet, clients, tip floor, NATS or the stream's endpoint: the first that fails ends it.
SetupFails(c) ==
  /\ phase[c] = "accepted"
  /\ Finish(c, "error")
  /\ UNCHANGED <<limit, attempt, asking, asks, hold, inbox, replies>>
  /\ UNCHANGED agentVars

\* The stream is spawned and the first question asked.
Start(c) ==
  /\ phase[c] = "accepted"
  /\ stream' = stream \cup {c}
  /\ Ask(c, IF c \in Proofs THEN "timing" ELSE "tip")
  /\ UNCHANGED <<limit, attempt, hold, response>>
  /\ UNCHANGED agentVars

\* get_slot_leaders(..).unwrap_or_default(): no answer is an empty schedule.
get_slot_leaders == Schedules \cup {<<>>}

\* LeaderSchedule: slots until another leader than the current one, 0 when none is observed.
slots_until_leader_change(leaders) ==
  LET others == {i \in DOMAIN leaders : leaders[i] # leaders[1]}
  IN  IF others = {} THEN 0 ELSE (CHOOSE i \in others : \A j \in others : i <= j) - 1

timing_hold_slots(change, ai_hold, cap) ==
  IF ~ai_hold THEN 0 ELSE IF change < cap THEN change ELSE cap

\* What the client does with a decision, by what it asked for.  A retry decision never overrules
\* the policy, which abandons a class it will not retry and every attempt at the limit.
ActOn(c, d) ==
  /\ asking' = [asking EXCEPT ![c] = "none"]
  /\ \/ /\ asking[c] = "timing"
        /\ \E leaders \in get_slot_leaders :
             hold' = [hold EXCEPT ![c] = timing_hold_slots(slots_until_leader_change(leaders),
                                                           "hold" \in d.after, HoldCap)]
        /\ phase' = [phase EXCEPT ![c] = "holding"]
        /\ used' = [used EXCEPT ![c] = d]
        /\ UNCHANGED <<response, stream>>
     \/ /\ (asking[c] = "tip" \/ (asking[c] = "retry" /\ attempt[c] < limit[c]))
        /\ phase' = [phase EXCEPT ![c] = "sending"]
        /\ used' = [used EXCEPT ![c] = d]
        /\ UNCHANGED <<hold, response, stream>>
     \/ /\ asking[c] = "retry"
        /\ Finish(c, "receipt")
        /\ UNCHANGED hold
  /\ UNCHANGED <<limit, attempt, asks, inbox>>
  /\ UNCHANGED agentVars

Policy(c) == [from |-> "policy", no |-> asks[c], kind |-> asking[c], after |-> {}]

\* A reply arrives in time: the decision in it, or the policy when it is an error.
Hear(c) ==
  /\ asking[c] # "none"
  /\ \E r \in replies :
       /\ Mine(c, r)
       /\ replies' = replies \ {r}
       /\ ActOn(c, IF r.ok THEN [from |-> "agent", no |-> r.no, kind |-> r.kind, after |-> r.after]
                           ELSE Policy(c))

\* Mutant of Timeout: the request is given up only once the agent has seen it.
TimeoutOnceSeen(c) ==
  /\ asking[c] # "none" /\ up /\ inbox = <<>>
  /\ ActOn(c, Policy(c))
  /\ UNCHANGED replies

\* Eight seconds without a reply.
Timeout(c) ==
  /\ asking[c] # "none"
  /\ ActOn(c, Policy(c))
  /\ UNCHANGED replies

\* The gate of the proof run: a slot passes, or the hold is over and the saga asks for its tip.
Hold(c) ==
  /\ phase[c] = "holding" /\ hold[c] > 0
  /\ hold' = [hold EXCEPT ![c] = @ - 1]
  /\ UNCHANGED <<phase, limit, attempt, stream, asking, asks, used, response, inbox, replies>>
  /\ UNCHANGED agentVars

HoldOver(c) ==
  /\ phase[c] = "holding" /\ hold[c] = 0
  /\ Ask(c, "tip")
  /\ UNCHANGED <<limit, attempt, stream, hold, response>>
  /\ UNCHANGED agentVars

Send(c) ==
  /\ phase[c] = "sending"
  /\ attempt' = [attempt EXCEPT ![c] = @ + 1]
  /\ phase' = [phase EXCEPT ![c] = "watching"]
  /\ used' = [used EXCEPT ![c] = Nothing]
  /\ UNCHANGED <<limit, stream, asking, asks, hold, response, inbox, replies>>
  /\ UNCHANGED agentVars

\* Mutant of CannotSend: the submitter's error goes up to the caller.
CannotSendError(c) ==
  /\ phase[c] = "sending"
  /\ Finish(c, "error")
  /\ UNCHANGED <<limit, attempt, asking, asks, hold, inbox, replies>>
  /\ UNCHANGED agentVars

\* The submitter could not build the attempt: the saga closes the bundle and the receipt says failed.
CannotSend(c) ==
  /\ phase[c] = "sending"
  /\ Finish(c, "receipt")
  /\ UNCHANGED <<limit, attempt, asking, asks, hold, inbox, replies>>
  /\ UNCHANGED agentVars

\* The attempt fails while the run goes on: the next question.
AttemptFails(c) ==
  /\ phase[c] = "watching"
  /\ Ask(c, "retry")
  /\ UNCHANGED <<limit, attempt, stream, hold, response>>
  /\ UNCHANGED agentVars

\* The saga ends: finalized, or the deadline or the end of the stream and its sweep.
SagaEnds(c) ==
  /\ phase[c] = "watching"
  /\ Finish(c, "receipt")
  /\ UNCHANGED <<limit, attempt, asking, asks, hold, inbox, replies>>
  /\ UNCHANGED agentVars

Next ==
  \/ Reply \/ AgentLeaves \/ AgentReturns \/ ReplyLost
  \/ \E c \in Clients :
       \/ SetupFails(c) \/ Start(c)
       \/ Hear(c) \/ Timeout(c)
       \/ Hold(c) \/ HoldOver(c)
       \/ Send(c) \/ CannotSend(c) \/ AttemptFails(c) \/ SagaEnds(c)

\* Tasks run, requests time out and every saga has a deadline; the agent owes nothing.
Fairness ==
  \A c \in Clients :
    /\ WF_vars(SetupFails(c) \/ Start(c))
    /\ WF_vars(Timeout(c))
    /\ WF_vars(Hold(c) \/ HoldOver(c))
    /\ WF_vars(Send(c) \/ CannotSend(c))
    /\ WF_vars(SagaEnds(c))

Spec == Init /\ [][Next]_vars /\ Fairness

-----------------------------------------------------------------------------
\* Nobody acts on another question's answer: concurrent sagas share the agent and even the base name
\* "submit", and an agent that falls behind answers questions that were given up long ago, yet what a
\* client acts on is the policy or the reply to the question it asks at that moment, and a reply it
\* acts on carries the fields the core reads (nats.rs:69-83, submit.rs:503, schema.ts:29-42).
ActsOnOwnAnswer ==
  [][\A c \in Clients : used'[c] # used[c] /\ used'[c] # Nothing =>
       /\ used'[c].no = asks[c] /\ used'[c].kind = asking[c]
       /\ used'[c].from = "agent" =>
            /\ asking[c] \in {"tip", "retry"} => "tip" \in used'[c].after
            /\ asking[c] = "retry" => "refresh" \in used'[c].after]_vars

\* A caller that got an error may ask again safely: an error is answered only by a request that never
\* opened a stream, asked or sent; once a saga ran, its caller gets a receipt (submit.rs:360-454, 518-527).
ErrorMeansNothingSent ==
  \A c \in Clients :
    response[c] = "error" => attempt[c] = 0 /\ asks[c] = 0

\* Every request accepted is answered, with the agent down, slow or gone in the middle.
RequestAnswered == \A c \in Clients : phase[c] = "accepted" ~> phase[c] = "answered"
=============================================================================
