------------------------- MODULE SubmitServiceProofs -------------------------
(***************************************************************************)
(* Proofs about the submit endpoint, the proof run and the agent they ask: *)
(* an error means that nothing was sent, and nobody acts on the answer to  *)
(* another question, for any number of clients, questions and outages, and *)
(* whatever the provider returns.                                          *)
(***************************************************************************)
EXTENDS SubmitService, TLAPS

Phases == {"accepted", "asking", "holding", "sending", "watching", "answered"}
Kinds == {"timing", "tip", "retry"}
Questions == [from : Clients, no : Nat, kind : Kinds]

\* Where a client's task stands: it waits for a decision only while it asks, has sent and asked
\* nothing before it starts, and answers once, with an error only from there.
TaskInv(c) ==
  /\ asking[c] # "none" <=> phase[c] = "asking"
  /\ phase[c] = "accepted" => attempt[c] = 0 /\ asks[c] = 0
  /\ response[c] # "none" <=> phase[c] = "answered"
  /\ response[c] = "error" => attempt[c] = 0 /\ asks[c] = 0

\* A question or reply with number n and a kind, for a client that has asked `last' questions and
\* waits for a decision of kind `waiting': the number was given out, and the newest is of that kind.
About(n, kind, last, waiting) ==
  /\ n \in 1..last
  /\ n = last /\ waiting # "none" => kind = waiting

QuestionsFit ==
  /\ inbox \in Seq(Questions)
  /\ \A i \in 1..Len(inbox) :
       About(inbox[i].no, inbox[i].kind, asks[inbox[i].from], asking[inbox[i].from])

RepliesFit ==
  \A r \in replies :
    /\ r.to \in Clients /\ About(r.no, r.kind, asks[r.to], asking[r.to])
    /\ r.ok => requireCausalAfter(r.kind, r.after)

ServiceInv ==
  /\ phase \in [Clients -> Phases]
  /\ attempt \in [Clients -> Nat]
  /\ asking \in [Clients -> Kinds \cup {"none"}]
  /\ asks \in [Clients -> Nat]
  /\ used \in [Clients -> {used[c] : c \in Clients}]
  /\ response \in [Clients -> {"none", "error", "receipt"}]
  /\ \A c \in Clients : TaskInv(c)
  /\ QuestionsFit
  /\ RepliesFit

\* A client that a step does not touch is where it was.
LEMMA OthersStand ==
  ASSUME NEW d \in Clients, TaskInv(d),
         /\ phase'[d] = phase[d] /\ attempt'[d] = attempt[d] /\ asking'[d] = asking[d]
         /\ asks'[d] = asks[d] /\ response'[d] = response[d]
  PROVE  TaskInv(d)'
  BY DEF TaskInv

\* The agent's queue with one more question, and without its first.
LEMMA QueueFacts ==
  ASSUME NEW s \in Seq(Questions), NEW e \in Questions
  PROVE  /\ Append(s, e) \in Seq(Questions)
         /\ Len(s) \in Nat /\ Len(Append(s, e)) = Len(s) + 1
         /\ Append(s, e)[Len(s) + 1] = e
         /\ \A i \in 1..Len(s) : Append(s, e)[i] = s[i] /\ s[i] \in Questions
         /\ s # <<>> => /\ Tail(s) \in Seq(Questions)
                        /\ Len(Tail(s)) = Len(s) - 1
                        /\ Head(s) = s[1] /\ Head(s) \in Questions /\ 1 \in 1..Len(s)
                        /\ \A i \in 1..Len(s) - 1 : Tail(s)[i] = s[i + 1]
  OBVIOUS

\* What is in the agent's queue was asked by a client.
LEMMA QuestionAt ==
  ASSUME NEW s \in Seq(Questions), NEW i \in 1..Len(s)
  PROVE  s[i] \in Questions /\ s[i].from \in Clients
<1>1. s[i] \in Questions
  OBVIOUS
<1> QED
  BY <1>1 DEF Questions

\* Before anybody asked, nothing is on its way.
LEMMA InitService == Init => ServiceInv
<1> SUFFICES ASSUME Init PROVE ServiceInv
  OBVIOUS
<1>1. inbox \in Seq(Questions) /\ Len(inbox) = 0 /\ replies = {}
  BY DEF Init
<1>2. used \in [Clients -> {used[c] : c \in Clients}]
  BY DEF Init
<1>3. \A c \in Clients : /\ phase[c] = "accepted" /\ asking[c] = "none" /\ response[c] = "none"
                         /\ attempt[c] = 0 /\ asks[c] = 0
  BY DEF Init
<1> QED
  BY <1>1, <1>2, <1>3 DEF Init, ServiceInv, TaskInv, QuestionsFit, RepliesFit, Phases

\* A new question has a number of its own, and all that is about older ones stays behind it.
LEMMA AskService ==
  ASSUME ServiceInv, NEW c \in Clients, NEW kind \in Kinds, Ask(c, kind),
         phase[c] \in {"accepted", "holding", "watching"},
         UNCHANGED <<attempt, response, up>>
  PROVE  ServiceInv'
<1> DEFINE n == asks[c] + 1
           q == [from |-> c, no |-> n, kind |-> kind]
<1> USE DEF ServiceInv
<1>1. /\ asks' = [asks EXCEPT ![c] = n] /\ asking' = [asking EXCEPT ![c] = kind]
      /\ phase' = [phase EXCEPT ![c] = "asking"]
      /\ used' = [used EXCEPT ![c] = Nothing]
      /\ inbox' = inbox \/ inbox' = Append(inbox, q)
      /\ replies' = replies \/ replies' = replies \cup {Refusal(c, n, kind)}
  BY DEF Ask
<1>2. /\ phase' \in [Clients -> Phases] /\ asking' \in [Clients -> Kinds \cup {"none"}]
      /\ asks' \in [Clients -> Nat] /\ n \in Nat /\ asks[c] \in Nat
      /\ q \in Questions
      /\ phase'[c] = "asking" /\ asking'[c] = kind /\ kind # "none" /\ asks'[c] = n
      /\ \A d \in Clients : d # c =>
           phase'[d] = phase[d] /\ asking'[d] = asking[d] /\ asks'[d] = asks[d]
  <2>1. asks \in [Clients -> Nat] /\ asks[c] \in Nat /\ n \in Nat
    OBVIOUS
  <2>2. q \in Questions
    BY <2>1 DEF Questions
  <2>3. "asking" \in Phases /\ kind # "none"
    BY DEF Phases, Kinds
  <2> HIDE DEF n, q
  <2>4. asks' \in [Clients -> Nat] /\ asks'[c] = n /\ \A d \in Clients : d # c => asks'[d] = asks[d]
    BY <1>1, <2>1
  <2>5. /\ phase' \in [Clients -> Phases] /\ phase'[c] = "asking"
        /\ \A d \in Clients : d # c => phase'[d] = phase[d]
    BY <1>1, <2>3
  <2>6. /\ asking' \in [Clients -> Kinds \cup {"none"}] /\ asking'[c] = kind
        /\ \A d \in Clients : d # c => asking'[d] = asking[d]
    BY <1>1
  <2> QED
    BY <2>1, <2>2, <2>3, <2>4, <2>5, <2>6
<1>3. used' \in [Clients -> {used'[d] : d \in Clients}]
  BY <1>1
<1>4. \A d \in Clients : TaskInv(d)'
  <2>1. \A d \in Clients : d # c => TaskInv(d)'
    BY <1>2, OthersStand
  <2>2. TaskInv(c)'
    BY <1>2 DEF TaskInv
  <2> QED
    BY <2>1, <2>2
<1>5. ASSUME NEW d \in Clients, NEW m, NEW k, About(m, k, asks[d], asking[d])
      PROVE  About(m, k, asks'[d], asking'[d])
  <2>1. CASE d = c
    <3>1. m \in 1..asks[c]
      BY <1>5, <2>1 DEF About
    <3>2. m \in 1..n /\ m # n
      BY <1>2, <3>1
    <3> QED
      BY <1>2, <2>1, <3>2 DEF About
  <2>2. CASE d # c
    BY <1>2, <1>5, <2>2
  <2> QED
    BY <2>1, <2>2
<1>6. About(n, kind, asks'[c], asking'[c])
  <2>1. n \in 1..n
    BY <1>2
  <2> QED
    BY <1>2, <2>1 DEF About
<1>7. QuestionsFit'
  <2>1. \A i \in 1..Len(inbox) :
          /\ inbox[i].from \in Clients
          /\ About(inbox[i].no, inbox[i].kind, asks[inbox[i].from], asking[inbox[i].from])
    BY QuestionAt DEF QuestionsFit
  <2>2. CASE inbox' = inbox
    BY <1>5, <2>1, <2>2 DEF QuestionsFit
  <2>3. CASE inbox' = Append(inbox, q)
    <3>1. /\ inbox' \in Seq(Questions) /\ Len(inbox) \in Nat /\ Len(inbox') = Len(inbox) + 1
          /\ inbox'[Len(inbox) + 1] = q
          /\ \A i \in 1..Len(inbox) : inbox'[i] = inbox[i]
      BY <1>2, <2>3, QueueFacts DEF QuestionsFit
    <3>2. \A i \in 1..Len(inbox') : i = Len(inbox) + 1 \/ i \in 1..Len(inbox)
      BY <3>1
    <3>3. q.from = c /\ q.no = n /\ q.kind = kind
      OBVIOUS
    <3> HIDE DEF q, n
    <3>4. ASSUME NEW i \in 1..Len(inbox')
          PROVE  About(inbox'[i].no, inbox'[i].kind, asks'[inbox'[i].from], asking'[inbox'[i].from])
      <4>1. CASE i = Len(inbox) + 1
        BY <1>6, <3>1, <3>3, <4>1
      <4>2. CASE i \in 1..Len(inbox)
        BY <1>5, <2>1, <3>1, <4>2
      <4> QED
        BY <3>2, <4>1, <4>2
    <3> QED
      BY <3>1, <3>4 DEF QuestionsFit
  <2> QED
    BY <1>1, <2>2, <2>3
<1>8. RepliesFit'
  <2> SUFFICES ASSUME NEW r \in replies'
               PROVE  /\ r.to \in Clients /\ About(r.no, r.kind, asks'[r.to], asking'[r.to])
                      /\ r.ok => requireCausalAfter(r.kind, r.after)
    BY DEF RepliesFit
  <2>1. CASE r \in replies
    BY <1>5, <2>1 DEF RepliesFit
  <2>2. CASE r = Refusal(c, n, kind)
    <3>1. r.to = c /\ r.no = n /\ r.kind = kind /\ r.ok = FALSE
      BY <2>2 DEF Refusal
    <3> HIDE DEF n
    <3> QED
      BY <1>6, <3>1
  <2> QED
    BY <1>1, <2>1, <2>2
<1> QED
  BY <1>2, <1>3, <1>4, <1>7, <1>8

\* A step that asks nothing and only takes questions and replies away leaves the rest about what it
\* was about, when nobody's wait changes but to end.
LEMMA QuietService ==
  ASSUME ServiceInv,
         UNCHANGED asks,
         \A c \in Clients : asking'[c] \in {asking[c], "none"},
         \/ UNCHANGED inbox \/ inbox' = <<>>,
         replies' \subseteq replies
  PROVE  QuestionsFit' /\ RepliesFit'
<1>1. ASSUME NEW d \in Clients, NEW m, NEW k, About(m, k, asks[d], asking[d])
      PROVE  About(m, k, asks'[d], asking'[d])
  BY <1>1 DEF About
<1>2. QuestionsFit /\ RepliesFit
  BY DEF ServiceInv
<1>3. RepliesFit'
  BY <1>1, <1>2 DEF RepliesFit
<1>4. CASE UNCHANGED inbox
  <2>1. \A i \in 1..Len(inbox) : inbox[i].from \in Clients
    BY <1>2, QuestionAt DEF QuestionsFit
  <2> QED
    BY <1>1, <1>2, <1>3, <1>4, <2>1 DEF QuestionsFit
<1>5. CASE inbox' = <<>>
  <2>1. inbox' \in Seq(Questions) /\ Len(inbox') = 0
    BY <1>5
  <2> QED
    BY <1>3, <2>1 DEF QuestionsFit
<1> QED
  BY <1>4, <1>5

\* A task that goes on without asking: to a new phase, perhaps with one more attempt, perhaps to its end.
LEMMA TaskService ==
  ASSUME ServiceInv, NEW c \in Clients,
         UNCHANGED <<asks, inbox>>, replies' \subseteq replies,
         NEW p \in Phases \ {"accepted", "asking"},
         phase' = [phase EXCEPT ![c] = p],
         \/ UNCHANGED asking /\ phase[c] # "asking"
         \/ asking' = [asking EXCEPT ![c] = "none"],
         \/ UNCHANGED attempt
         \/ phase[c] # "answered" /\ p # "answered" /\ attempt' = [attempt EXCEPT ![c] = @ + 1],
         \/ UNCHANGED response /\ phase[c] # "answered" /\ p # "answered"
         \/ p = "answered" /\ response' = [response EXCEPT ![c] = "receipt"]
         \/ phase[c] = "accepted" /\ p = "answered" /\ UNCHANGED attempt
            /\ response' = [response EXCEPT ![c] = "error"],
         UNCHANGED used \/ \E d : used' = [used EXCEPT ![c] = d]
  PROVE  ServiceInv'
<1> USE DEF ServiceInv
<1>1. /\ phase' \in [Clients -> Phases]
      /\ asking' \in [Clients -> Kinds \cup {"none"}]
      /\ attempt' \in [Clients -> Nat]
      /\ response' \in [Clients -> {"none", "error", "receipt"}]
  OBVIOUS
<1>2. used' \in [Clients -> {used'[d] : d \in Clients}]
  OBVIOUS
<1>3. ASSUME NEW d \in Clients, d # c PROVE TaskInv(d)'
  BY <1>3, OthersStand
<1>4. asking'[c] = "none"
  BY DEF TaskInv
<1>5. TaskInv(c)'
  BY <1>4 DEF TaskInv
<1>6. \A d \in Clients : asking'[d] \in {asking[d], "none"}
  BY <1>4
<1> QED
  BY <1>1, <1>2, <1>3, <1>5, <1>6, QuietService

\* What a client does with a decision ends its wait.
LEMMA ActService ==
  ASSUME ServiceInv, NEW c \in Clients, NEW d, asking[c] # "none", ActOn(c, d), replies' \subseteq replies
  PROVE  ServiceInv'
<1>1. phase[c] = "asking"
  BY DEF ServiceInv, TaskInv
<1>2. asking' = [asking EXCEPT ![c] = "none"] /\ UNCHANGED <<attempt, asks, inbox>>
  BY DEF ActOn
<1>3. CASE phase' = [phase EXCEPT ![c] = "holding"] /\ used' = [used EXCEPT ![c] = d] /\ UNCHANGED response
  BY <1>1, <1>2, <1>3, TaskService DEF Phases
<1>4. CASE phase' = [phase EXCEPT ![c] = "sending"] /\ used' = [used EXCEPT ![c] = d] /\ UNCHANGED response
  BY <1>1, <1>2, <1>4, TaskService DEF Phases
<1>5. CASE Finish(c, "receipt")
  BY <1>1, <1>2, <1>5, TaskService DEF Phases, Finish
<1> QED
  BY <1>3, <1>4, <1>5 DEF ActOn

\* The agent answers the first question of its queue, about which the reply is then.
LEMMA ReplyService == ServiceInv /\ Reply => ServiceInv'
<1> SUFFICES ASSUME ServiceInv, Reply PROVE ServiceInv'
  OBVIOUS
<1> USE DEF ServiceInv
<1>1. /\ inbox # <<>> /\ inbox' = Tail(inbox)
      /\ UNCHANGED <<phase, attempt, asking, asks, used, response>>
      /\ replies' = replies \/ \E out \in Outputs : replies' = replies \cup {Answered(Head(inbox), out)}
  BY DEF Reply
<1> DEFINE q == Head(inbox)
<1>2. /\ inbox' \in Seq(Questions) /\ Len(inbox) \in Nat /\ Len(inbox') = Len(inbox) - 1
      /\ q \in Questions /\ q = inbox[1] /\ 1 \in 1..Len(inbox)
      /\ \A i \in 1..Len(inbox') : inbox'[i] = inbox[i + 1] /\ i + 1 \in 1..Len(inbox)
  <2>1. inbox \in Seq(Questions) /\ Head(inbox) \in Questions
    BY <1>1 DEF QuestionsFit
  <2>2. /\ Tail(inbox) \in Seq(Questions) /\ Len(inbox) \in Nat /\ Len(Tail(inbox)) = Len(inbox) - 1
        /\ Head(inbox) = inbox[1] /\ 1 \in 1..Len(inbox)
        /\ \A i \in 1..Len(inbox) - 1 : Tail(inbox)[i] = inbox[i + 1]
    BY <1>1, <2>1, QueueFacts
  <2> QED
    BY <1>1, <2>1, <2>2
<1>3. QuestionsFit'
  BY <1>1, <1>2 DEF QuestionsFit
<1>4. q.from \in Clients /\ About(q.no, q.kind, asks[q.from], asking[q.from])
  BY <1>2 DEF QuestionsFit, Questions
<1>5. ASSUME NEW out
      PROVE  LET r == Answered(q, out) IN
               /\ r.to = q.from /\ r.no = q.no /\ r.kind = q.kind
               /\ r.ok => requireCausalAfter(r.kind, r.after)
  BY DEF Answered, Refusal
<1>6. ASSUME NEW r \in replies'
      PROVE  /\ r.to \in Clients /\ About(r.no, r.kind, asks[r.to], asking[r.to])
             /\ r.ok => requireCausalAfter(r.kind, r.after)
  <2>1. CASE r \in replies
    BY <2>1 DEF RepliesFit
  <2>2. ASSUME NEW out, r = Answered(q, out)
        PROVE  /\ r.to \in Clients /\ About(r.no, r.kind, asks[r.to], asking[r.to])
               /\ r.ok => requireCausalAfter(r.kind, r.after)
    BY <1>4, <1>5, <2>2
  <2> QED
    BY <1>1, <1>6, <2>1, <2>2
<1>7. \A d \in Clients : TaskInv(d)'
  BY <1>1 DEF TaskInv
<1>8. RepliesFit'
  BY <1>1, <1>6 DEF RepliesFit
<1> QED
  BY <1>1, <1>3, <1>7, <1>8

\* Every step keeps questions, replies and tasks together.
LEMMA NextService == ServiceInv /\ [Next]_vars => ServiceInv'
<1> SUFFICES ASSUME ServiceInv, [Next]_vars PROVE ServiceInv'
  OBVIOUS
<1>1. CASE Reply
  BY <1>1, ReplyService
<1>2. CASE AgentLeaves \/ AgentReturns \/ ReplyLost \/ UNCHANGED vars
  <2>1. /\ UNCHANGED <<phase, attempt, asking, asks, used, response>>
        /\ UNCHANGED inbox \/ inbox' = <<>>
        /\ replies' \subseteq replies
    BY <1>2 DEF AgentLeaves, AgentReturns, ReplyLost, vars
  <2>2. \A d \in Clients : TaskInv(d)'
    BY <2>1 DEF TaskInv, ServiceInv
  <2> QED
    BY <2>1, <2>2, QuietService DEF ServiceInv
<1>3. ASSUME NEW c \in Clients, SetupFails(c) PROVE ServiceInv'
  BY <1>3, TaskService DEF SetupFails, Finish, Phases
<1>4. ASSUME NEW c \in Clients, Start(c) \/ HoldOver(c) \/ AttemptFails(c) PROVE ServiceInv'
  <2>1. /\ \E kind \in Kinds : Ask(c, kind)
        /\ phase[c] \in {"accepted", "holding", "watching"}
        /\ UNCHANGED <<attempt, response, up>>
    BY <1>4 DEF Start, HoldOver, AttemptFails, Kinds, agentVars
  <2> QED
    BY <2>1, AskService
<1>5. ASSUME NEW c \in Clients, Hear(c) PROVE ServiceInv'
  <2>1. asking[c] # "none" /\ replies' \subseteq replies /\ \E d : ActOn(c, d)
    BY <1>5 DEF Hear
  <2> QED
    BY <2>1, ActService
<1>6. ASSUME NEW c \in Clients, Timeout(c) PROVE ServiceInv'
  BY <1>6, ActService DEF Timeout
<1>7. ASSUME NEW c \in Clients, Hold(c) PROVE ServiceInv'
  <2>1. phase' = [phase EXCEPT ![c] = "holding"]
    BY <1>7 DEF Hold, ServiceInv
  <2> QED
    BY <1>7, <2>1, TaskService DEF Hold, Phases
<1>8. ASSUME NEW c \in Clients, Send(c) PROVE ServiceInv'
  BY <1>8, TaskService DEF Send, Phases
<1>9. ASSUME NEW c \in Clients, CannotSend(c) \/ SagaEnds(c) PROVE ServiceInv'
  BY <1>9, TaskService DEF CannotSend, SagaEnds, Finish, Phases
<1> QED
  BY <1>1, <1>2, <1>3, <1>4, <1>5, <1>6, <1>7, <1>8, <1>9 DEF Next

\* What is asked, answered and waited for always fits together (nats.rs:69-83, submit.rs:360-454).
THEOREM ServiceInductive == Spec => []ServiceInv
  BY InitService, NextService, PTL DEF Spec

\* An error is answered only by a request that never asked or sent, so its caller may safely try
\* again, for any number of connections at one agent (submit.rs:360-454, 518-527).
THEOREM ErrorsSendNothing == Spec => []ErrorMeansNothingSent
<1>1. ServiceInv => ErrorMeansNothingSent
  BY DEF ServiceInv, TaskInv, ErrorMeansNothingSent
<1> QED
  BY <1>1, ServiceInductive, PTL

\* A decision a client takes up is the one to the question it asks at that moment.
LEMMA DecisionIsOwn ==
  ASSUME ServiceInv, NEW e \in Clients, NEW d, asking[e] # "none", ActOn(e, d),
         d.no = asks[e], d.kind = asking[e],
         d.from = "agent" => requireCausalAfter(d.kind, d.after)
  PROVE  \A c \in Clients : used'[c] # used[c] /\ used'[c] # Nothing =>
           /\ used'[c].no = asks[c] /\ used'[c].kind = asking[c]
           /\ used'[c].from = "agent" =>
                /\ asking[c] \in {"tip", "retry"} => "tip" \in used'[c].after
                /\ asking[c] = "retry" => "refresh" \in used'[c].after
<1> SUFFICES ASSUME NEW c \in Clients, used'[c] # used[c], used'[c] # Nothing
             PROVE  c = e /\ used'[c] = d
  BY DEF requireCausalAfter
<1>1. used' = [used EXCEPT ![e] = d] \/ used' = [used EXCEPT ![e] = Nothing]
  BY DEF ActOn, Finish
<1> QED
  BY <1>1 DEF ServiceInv

\* Nobody acts on the answer to another question, however late the agent answers, however many
\* clients share it and whatever replies are lost (nats.rs:69-83, submit.rs:503, schema.ts:29-42).
THEOREM DecisionsAreOwn == Spec => ActsOnOwnAnswer
<1> DEFINE Own == \A c \in Clients : used'[c] # used[c] /\ used'[c] # Nothing =>
                    /\ used'[c].no = asks[c] /\ used'[c].kind = asking[c]
                    /\ used'[c].from = "agent" =>
                         /\ asking[c] \in {"tip", "retry"} => "tip" \in used'[c].after
                         /\ asking[c] = "retry" => "refresh" \in used'[c].after
<1>1. ServiceInv /\ [Next]_vars => [Own]_vars
  <2> SUFFICES ASSUME ServiceInv, Next PROVE Own
    OBVIOUS
  <2>1. ASSUME NEW e \in Clients, Hear(e) PROVE Own
    <3>1. PICK r \in replies :
            /\ Mine(e, r) /\ asking[e] # "none"
            /\ ActOn(e, IF r.ok THEN [from |-> "agent", no |-> r.no, kind |-> r.kind, after |-> r.after]
                        ELSE Policy(e))
      BY <2>1 DEF Hear
    <3> DEFINE d == IF r.ok THEN [from |-> "agent", no |-> r.no, kind |-> r.kind, after |-> r.after]
                    ELSE Policy(e)
    <3>2. r.no = asks[e] /\ r.kind = asking[e] /\ (r.ok => requireCausalAfter(r.kind, r.after))
      BY <3>1 DEF ServiceInv, RepliesFit, Mine, About
    <3>3. d.no = asks[e] /\ d.kind = asking[e] /\ (d.from = "agent" => requireCausalAfter(d.kind, d.after))
      BY <3>2 DEF Policy
    <3>4. ActOn(e, d)
      BY <3>1
    <3> HIDE DEF d
    <3> QED
      BY <3>1, <3>3, <3>4, DecisionIsOwn
  <2>2. ASSUME NEW e \in Clients, Timeout(e) PROVE Own
    <3>1. Policy(e).no = asks[e] /\ Policy(e).kind = asking[e] /\ Policy(e).from # "agent"
      BY DEF Policy
    <3> QED
      BY <2>2, <3>1, DecisionIsOwn DEF Timeout
  <2>3. ASSUME UNCHANGED used \/ \E e \in Clients : used' = [used EXCEPT ![e] = Nothing]
        PROVE  Own
    BY <2>3 DEF ServiceInv
  <2>4. Reply \/ AgentLeaves \/ AgentReturns \/ ReplyLost => UNCHANGED used
    BY DEF Reply, AgentLeaves, AgentReturns, ReplyLost
  <2>5. ASSUME NEW e \in Clients,
               \/ SetupFails(e) \/ Start(e) \/ Hold(e) \/ HoldOver(e)
               \/ Send(e) \/ CannotSend(e) \/ AttemptFails(e) \/ SagaEnds(e)
        PROVE  UNCHANGED used \/ used' = [used EXCEPT ![e] = Nothing]
    BY <2>5 DEF SetupFails, Start, Hold, HoldOver, Send, CannotSend, AttemptFails, SagaEnds, Ask, Finish
  <2> QED
    BY <2>1, <2>2, <2>3, <2>4, <2>5 DEF Next
<1> QED
  BY <1>1, ServiceInductive, PTL DEF Spec, ActsOnOwnAnswer
=============================================================================
