-------------------------- MODULE BlockEngineClient --------------------------
(***************************************************************************)
(* The Block Engine client (crates/prometheon-bundle/src/client.rs with    *)
(* jsonrpc.rs and the response parsers): clones of one client share the    *)
(* instant of the last request behind a lock, each call asks one region    *)
(* after another, and what a region did with a bundle is known only by the *)
(* answer that comes back.                                                 *)
(*                                                                         *)
(* Time is relative: `age' is the time since the last mark, cut at the     *)
(* pacing interval, and `rest[c]' what is left of a caller's sleep.        *)
(***************************************************************************)
EXTENDS Integers, Sequences, FiniteSets, SequencesExt

CONSTANTS Callers,      \* tasks that hold a clone of the client
          Methods,      \* the calls made in the instance
          Interval,     \* min_request_interval
          Regions,      \* 1 + Len(fallback_urls)
          MaxAttempts   \* max_attempts

ASSUME ClientAssumption == Interval \in Nat /\ Regions \in Nat \ {0} /\ MaxAttempts \in Nat

VARIABLES age,       \* time since last_request, cut at Interval (Interval also stands for None)
          queue,     \* callers at the pacing lock, the first holds it or is next
          pc,        \* "idle", "queue", "asleep" (holding the lock) or "asked"
          rest,      \* what is left of a caller's sleep
          method,    \* the call in progress, or the last one
          answers,   \* what the regions asked in this call answered, in order
          accepted,  \* positions of the regions that took the bundle of this call
          adrift,    \* positions whose request got no answer and may still arrive
          result     \* what the last call returned

vars == <<age, queue, pc, rest, method, answers, accepted, adrift, result>>

(***************************************************************************)
(* Answers.  A 200 carries a body: the result the method expects, a result *)
(* of another shape, an error object, neither, or text that is no JSON.    *)
(***************************************************************************)
Bodies == {"result", "other", "error", "neither", "text"}
Statuses == {"429", "5xx", "4xx"}
NoAnswer == {"lost", "broken"}     \* timeout or refused connection; any other client error
Answers == Bodies \cup Statuses \cup NoAnswer

is_retryable_status(a) == a \in {"429", "5xx"}

\* What makes post_rpc ask the next region.
AsksNext(a) == is_retryable_status(a) \/ a = "lost"

\* unwrap_result: the three methods that unwrap the envelope before parsing.
Unwraps(m) == m \in {"sendBundle", "inflight", "statuses"}

unwrap_result(b) == IF b \in {"error", "neither", "text"} THEN "JsonRpc" ELSE "Ok"

\* The parsers of the methods: anything but the shape they expect is a parse error.
Parsed(b) == IF b = "result" THEN "Ok" ELSE "Parse"

\* Mutant of OfBody: a body that has no result field of the wrong shape counts as a success.
OfBodyUnchecked(m, b) == IF b = "other" THEN "Parse" ELSE "Ok"

OfBody(m, b) == IF Unwraps(m) /\ unwrap_result(b) # "Ok" THEN unwrap_result(b) ELSE Parsed(b)

\* get_tip_floor is one GET that never looks at the status.
TipFloorResult(a) == IF a \in NoAnswer THEN "Http" ELSE Parsed(a)

\* The regions a call may ask: regions().take(max_attempts), or the one tip-floor host.
AtMost(m) == IF m = "tipFloor" THEN 1 ELSE IF Regions < MaxAttempts THEN Regions ELSE MaxAttempts

\* What a call returns after the answer a, when it asks no further region.
Returned(m, a) ==
  CASE m = "tipFloor" -> TipFloorResult(a)
    [] m # "tipFloor" /\ a \in Bodies -> OfBody(m, a)
    [] m # "tipFloor" /\ a = "broken" -> "Http"
    [] m # "tipFloor" /\ a = "429" -> "RateLimited"
    [] OTHER -> "AllRegionsFailed"

Results == {"none", "dropped", "Ok", "JsonRpc", "Parse", "Http", "RateLimited", "AllRegionsFailed"}

-----------------------------------------------------------------------------
Init ==
  /\ age = Interval
  /\ queue = <<>>
  /\ pc = [c \in Callers |-> "idle"]
  /\ rest = [c \in Callers |-> 0]
  /\ method \in [Callers -> Methods]
  /\ answers = [c \in Callers |-> <<>>]
  /\ accepted = [c \in Callers |-> {}]
  /\ adrift = [c \in Callers |-> {}]
  /\ result = [c \in Callers |-> "none"]

\* A call enters post_rpc (or get_tip_floor); with no attempt allowed it returns at once.
Call(c, m) ==
  /\ pc[c] = "idle"
  /\ method' = [method EXCEPT ![c] = m]
  /\ answers' = [answers EXCEPT ![c] = <<>>]
  /\ accepted' = [accepted EXCEPT ![c] = {}]
  /\ adrift' = [adrift EXCEPT ![c] = {}]
  /\ IF AtMost(m) = 0
       THEN /\ result' = [result EXCEPT ![c] = "AllRegionsFailed"]
            /\ UNCHANGED <<pc, queue>>
       ELSE /\ result' = [result EXCEPT ![c] = "none"]
            /\ pc' = [pc EXCEPT ![c] = "queue"]
            /\ queue' = Append(queue, c)
  /\ UNCHANGED <<age, rest>>

\* Mutant of MarkAndSend: the lock is never given back.
MarkAndKeepLock(c) ==
  /\ age' = 0
  /\ queue' = queue
  /\ pc' = [pc EXCEPT ![c] = "asked"]

\* The mark and the request that follows it, and the end of pace(): the lock is free again.
MarkAndSend(c) ==
  /\ age' = 0
  /\ queue' = Tail(queue)
  /\ pc' = [pc EXCEPT ![c] = "asked"]

\* Mutant of Lock: the lock is let go before the sleep, so the next caller computes from the old mark.
LockFreedForSleep(c) ==
  /\ pc[c] = "queue" /\ Head(queue) = c
  /\ IF age < Interval
       THEN /\ pc' = [pc EXCEPT ![c] = "asleep"]
            /\ rest' = [rest EXCEPT ![c] = Interval - age]
            /\ queue' = Append(Tail(queue), c)
            /\ UNCHANGED age
       ELSE MarkAndSend(c) /\ UNCHANGED rest
  /\ UNCHANGED <<method, answers, accepted, adrift, result>>

\* pace() gets the lock: it sleeps for the rest of the interval with the lock held, or sends.
Lock(c) ==
  /\ pc[c] = "queue" /\ Head(queue) = c
  /\ IF age < Interval
       THEN /\ pc' = [pc EXCEPT ![c] = "asleep"]
            /\ rest' = [rest EXCEPT ![c] = Interval - age]
            /\ UNCHANGED <<age, queue>>
       ELSE MarkAndSend(c) /\ UNCHANGED rest
  /\ UNCHANGED <<method, answers, accepted, adrift, result>>

Wake(c) ==
  /\ pc[c] = "asleep" /\ rest[c] = 0
  /\ MarkAndSend(c)
  /\ UNCHANGED <<rest, method, answers, accepted, adrift, result>>

-----------------------------------------------------------------------------
\* The region being asked is the one after those that answered.
Asked(c) == Len(answers[c]) + 1

\* A region takes the bundle: while the call waits, or later from a request that got no answer.
Accept(c, r) ==
  /\ method[c] = "sendBundle"
  /\ r \notin accepted[c]
  /\ r \in adrift[c] \/ (pc[c] = "asked" /\ r = Asked(c))
  /\ accepted' = [accepted EXCEPT ![c] = @ \cup {r}]
  /\ adrift' = [adrift EXCEPT ![c] = @ \ {r}]
  /\ UNCHANGED <<age, queue, pc, rest, method, answers, result>>

\* What a region may answer: a bundle id only for a bundle it took, and for one it took
\* nothing else than the id, a gateway's 5xx or no answer.
MayAnswer(c, a) ==
  method[c] = "sendBundle" =>
    IF Asked(c) \in accepted[c] THEN a \in {"result", "5xx", "lost", "broken"} ELSE a # "result"

Answer(c, a) ==
  /\ pc[c] = "asked" /\ MayAnswer(c, a)
  /\ answers' = [answers EXCEPT ![c] = Append(@, a)]
  /\ adrift' = [adrift EXCEPT ![c] =
                  IF a \in NoAnswer /\ Asked(c) \notin accepted[c] THEN @ \cup {Asked(c)} ELSE @]
  /\ IF AsksNext(a) /\ Asked(c) < AtMost(method[c])
       THEN /\ pc' = [pc EXCEPT ![c] = "queue"]
            /\ queue' = Append(queue, c)
            /\ UNCHANGED result
       ELSE /\ pc' = [pc EXCEPT ![c] = "idle"]
            /\ result' = [result EXCEPT ![c] = Returned(method[c], a)]
            /\ UNCHANGED queue
  /\ UNCHANGED <<age, rest, method, accepted>>

\* The future of a call is dropped: its place at the lock and its sleep go with it.
Drop(c) ==
  /\ pc[c] # "idle"
  /\ pc' = [pc EXCEPT ![c] = "idle"]
  /\ IF pc[c] = "asked" THEN UNCHANGED queue
     ELSE \E i \in 1..Len(queue) : queue[i] = c /\ queue' = RemoveAt(queue, i)
  /\ rest' = [rest EXCEPT ![c] = 0]
  /\ adrift' = [adrift EXCEPT ![c] =
                  IF pc[c] = "asked" /\ Asked(c) \notin accepted[c] THEN @ \cup {Asked(c)} ELSE @]
  /\ result' = [result EXCEPT ![c] = "dropped"]
  /\ UNCHANGED <<age, method, answers, accepted>>

Tick ==
  /\ age < Interval \/ \E c \in Callers : rest[c] > 0
  /\ age' = IF age < Interval THEN age + 1 ELSE age
  /\ rest' = [c \in Callers |-> IF rest[c] > 0 THEN rest[c] - 1 ELSE 0]
  /\ UNCHANGED <<queue, pc, method, answers, accepted, adrift, result>>

Next ==
  \/ Tick
  \/ \E c \in Callers :
       \/ \E m \in Methods : Call(c, m)
       \/ Lock(c)
       \/ Wake(c)
       \/ \E r \in 1..Regions : Accept(c, r)
       \/ \E a \in Answers : Answer(c, a)
       \/ Drop(c)

\* The runtime polls what is ready, its clock runs, and the request timeout ends every wait for
\* an answer; nothing is owed by a region that takes a bundle, nor by the callers.
Fairness ==
  /\ WF_vars(Tick)
  /\ \A c \in Callers :
       /\ WF_vars(Lock(c))
       /\ WF_vars(Wake(c))
       /\ WF_vars(Answer(c, "lost"))

Spec == Init /\ [][Next]_vars /\ Fairness

-----------------------------------------------------------------------------
TypeOK ==
  /\ age \in 0..Interval
  /\ queue \in Seq(Callers)
  /\ pc \in [Callers -> {"idle", "queue", "asleep", "asked"}]
  /\ rest \in [Callers -> 0..Interval]
  /\ method \in [Callers -> Methods]
  /\ answers \in [Callers -> Seq(Answers)]
  /\ accepted \in [Callers -> SUBSET (1..Regions)]
  /\ adrift \in [Callers -> SUBSET (1..Regions)]
  /\ result \in [Callers -> Results]

\* The clones keep one pace between them: no request leaves before the interval since the last
\* one, whoever sent it, is over (client.rs:105-115).
Paced ==
  [][\A c \in Callers : (pc[c] # "asked" /\ pc'[c] = "asked") => age >= Interval]_vars

\* Nobody is asked after a verdict: every answer but the last of a call was one worth retrying,
\* and no call asks more regions than it may (client.rs:129-160).
StopsAtVerdict ==
  \A c \in Callers :
    /\ Len(answers[c]) <= AtMost(method[c])
    /\ \A i \in 1..Len(answers[c]) - 1 : answers[c][i] \in {"429", "5xx", "lost"}

\* An error hides a bundle that was taken only when an answer got lost on the way: if every region
\* asked gave a real answer, a sendBundle that returns an error left no bundle anywhere, and one
\* that returns Ok left exactly one (client.rs:138-160, saga retries on that error).
ErrorIsHonest ==
  \A c \in Callers :
    (/\ method[c] = "sendBundle" /\ pc[c] = "idle" /\ result[c] \notin {"none", "dropped"}
     /\ \A i \in 1..Len(answers[c]) : answers[c][i] \notin {"5xx"} \cup NoAnswer)
      => Cardinality(accepted[c]) = IF result[c] = "Ok" THEN 1 ELSE 0

\* Every call returns: the queue at the lock moves on, sleeps end and a silent region is given up.
CallReturns == \A c \in Callers : pc[c] # "idle" ~> pc[c] = "idle"
=============================================================================
