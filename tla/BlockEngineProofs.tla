-------------------------- MODULE BlockEngineProofs --------------------------
(***************************************************************************)
(* Proofs about the Block Engine client: the clones keep one pace, a call  *)
(* stops at the first verdict, and an error hides a bundle only behind an  *)
(* answer that got lost, for any number of callers, regions and attempts   *)
(* and any interval.                                                       *)
(***************************************************************************)
EXTENDS BlockEngineClient, SequenceTheorems, FiniteSetTheorems, TLAPS

Places == {"idle", "queue", "asleep", "asked"}

\* What the pace rests on: a caller at the lock has a place in its queue, and one that sleeps is the
\* first there, so nobody marks before it, and has at least the missing time to sleep.
PaceInv ==
  /\ age \in 0..Interval
  /\ queue \in Seq(Callers)
  /\ pc \in [Callers -> Places]
  /\ rest \in [Callers -> 0..Interval]
  /\ \A c \in Callers : pc[c] \in {"queue", "asleep"} => \E i \in 1..Len(queue) : queue[i] = c
  /\ \A c \in Callers : pc[c] = "asleep" => queue[1] = c /\ rest[c] + age >= Interval

\* A caller that joins the queue joins it behind the others.
LEMMA AppendFacts ==
  ASSUME NEW s \in Seq(Callers), NEW e \in Callers
  PROVE  /\ Append(s, e) \in Seq(Callers)
         /\ Len(s) \in Nat /\ Len(Append(s, e)) = Len(s) + 1
         /\ Append(s, e)[Len(s) + 1] = e
         /\ \A i \in 1..Len(s) : Append(s, e)[i] = s[i]
  OBVIOUS

\* The queue without the caller that got the lock.
LEMMA TailFacts ==
  ASSUME NEW s \in Seq(Callers), Len(s) >= 1
  PROVE  /\ Tail(s) \in Seq(Callers)
         /\ Len(s) \in Nat /\ Len(Tail(s)) = Len(s) - 1
         /\ Head(s) = s[1]
         /\ \A i \in 1..Len(s) - 1 : Tail(s)[i] = s[i + 1]
  OBVIOUS

\* The queue without a caller that gave up its place.
LEMMA RemoveFacts ==
  ASSUME NEW s \in Seq(Callers), NEW n \in 1..Len(s)
  PROVE  /\ RemoveAt(s, n) \in Seq(Callers)
         /\ Len(s) \in Nat /\ Len(RemoveAt(s, n)) = Len(s) - 1
         /\ \A i \in 1..n - 1 : RemoveAt(s, n)[i] = s[i]
         /\ \A i \in n + 1..Len(s) : RemoveAt(s, n)[i - 1] = s[i]
<1>1. Len(s) \in Nat
  OBVIOUS
<1>2. /\ SubSeq(s, 1, n - 1) \in Seq(Callers) /\ Len(SubSeq(s, 1, n - 1)) = n - 1
      /\ \A i \in 1..n - 1 : SubSeq(s, 1, n - 1)[i] = s[i]
  BY <1>1
<1>3. /\ SubSeq(s, n + 1, Len(s)) \in Seq(Callers) /\ Len(SubSeq(s, n + 1, Len(s))) = Len(s) - n
      /\ \A i \in 1..Len(s) - n : SubSeq(s, n + 1, Len(s))[i] = s[n + i]
  BY <1>1
<1> DEFINE before == SubSeq(s, 1, n - 1)
           after == SubSeq(s, n + 1, Len(s))
<1>4. RemoveAt(s, n) = before \o after
  BY DEF RemoveAt
<1>5. /\ before \in Seq(Callers) /\ Len(before) = n - 1
      /\ after \in Seq(Callers) /\ Len(after) = Len(s) - n
      /\ \A i \in 1..n - 1 : before[i] = s[i]
      /\ \A i \in 1..Len(s) - n : after[i] = s[n + i]
  BY <1>2, <1>3
<1> HIDE DEF before, after
<1>6. /\ before \o after \in Seq(Callers)
      /\ Len(before \o after) = Len(before) + Len(after)
      /\ \A i \in 1..Len(before) : (before \o after)[i] = before[i]
      /\ \A i \in 1..Len(after) : (before \o after)[Len(before) + i] = after[i]
  <2>1. before \in Seq(Callers) /\ after \in Seq(Callers)
    BY <1>5
  <2> QED
    BY <2>1, ConcatProperties
<1>7. Len(before \o after) = Len(s) - 1
  BY <1>1, <1>5, <1>6
<1>8. \A i \in 1..n - 1 : (before \o after)[i] = s[i]
  BY <1>5, <1>6
<1>9. ASSUME NEW i \in n + 1..Len(s) PROVE (before \o after)[i - 1] = s[i]
  <2>1. i - n \in 1..Len(after) /\ Len(before) + (i - n) = i - 1 /\ n + (i - n) = i
    BY <1>1, <1>5
  <2>2. (before \o after)[Len(before) + (i - n)] = after[i - n]
    BY <1>6, <2>1
  <2>3. after[i - n] = s[n + (i - n)]
    BY <1>5, <2>1
  <2> QED
    BY <2>1, <2>2, <2>3
<1> QED
  BY <1>1, <1>4, <1>6, <1>7, <1>8, <1>9

\* Before the first call nobody is at the lock.
LEMMA InitPace == Init => PaceInv
  BY ClientAssumption DEF Init, PaceInv, Places

\* A call that joins the queue is the last there: who slept first still does.
LEMMA JoinPace ==
  ASSUME PaceInv, NEW c \in Callers, pc[c] \in {"idle", "asked"},
         pc' = [pc EXCEPT ![c] = "queue"], queue' = Append(queue, c), UNCHANGED <<age, rest>>
  PROVE  PaceInv'
<1> USE DEF PaceInv, Places
<1>1. /\ queue' \in Seq(Callers)
      /\ Len(queue) \in Nat /\ Len(queue') = Len(queue) + 1
      /\ queue'[Len(queue) + 1] = c
      /\ \A i \in 1..Len(queue) : queue'[i] = queue[i]
  BY AppendFacts
<1>2. ASSUME NEW d \in Callers, pc'[d] \in {"queue", "asleep"}
      PROVE  \E i \in 1..Len(queue') : queue'[i] = d
  <2>1. CASE d = c
    BY <1>1, <2>1
  <2>2. CASE d # c
    BY <1>1, <1>2, <2>2
  <2> QED
    BY <2>1, <2>2
<1>3. ASSUME NEW d \in Callers, pc'[d] = "asleep"
      PROVE  queue'[1] = d /\ rest'[d] + age' >= Interval
  <2>1. d # c /\ pc[d] = "asleep"
    BY <1>3
  <2>2. PICK i \in 1..Len(queue) : queue[i] = d
    BY <2>1
  <2> QED
    BY <1>1, <2>1, <2>2
<1> QED
  BY <1>1, <1>2, <1>3

\* The holder of the lock marks, sends and leaves the queue: nobody else was asleep.
LEMMA MarkPace ==
  ASSUME PaceInv, NEW c \in Callers, pc[c] \in {"queue", "asleep"}, queue[1] = c,
         MarkAndSend(c), UNCHANGED rest
  PROVE  PaceInv'
<1> USE DEF PaceInv, Places, MarkAndSend
<1>1. PICK k \in 1..Len(queue) : queue[k] = c
  OBVIOUS
<1>2. Len(queue) >= 1
  BY <1>1
<1>3. /\ queue' \in Seq(Callers)
      /\ Len(queue) \in Nat /\ Len(queue') = Len(queue) - 1
      /\ \A i \in 1..Len(queue) - 1 : queue'[i] = queue[i + 1]
  BY <1>2, TailFacts
<1>4. ASSUME NEW d \in Callers, pc'[d] \in {"queue", "asleep"}
      PROVE  \E i \in 1..Len(queue') : queue'[i] = d
  <2>1. d # c /\ pc[d] \in {"queue", "asleep"}
    BY <1>4
  <2>2. PICK i \in 1..Len(queue) : queue[i] = d
    BY <2>1
  <2>3. i # 1
    BY <2>1, <2>2
  <2>4. i - 1 \in 1..Len(queue) - 1 /\ (i - 1) + 1 = i
    BY <1>3, <2>2, <2>3
  <2>5. queue'[i - 1] = d /\ i - 1 \in 1..Len(queue')
    BY <1>3, <2>2, <2>4
  <2> QED
    BY <2>5
<1>5. \A d \in Callers : pc'[d] # "asleep"
  BY <1>1
<1>6. age' \in 0..Interval
  BY ClientAssumption
<1> QED
  BY <1>3, <1>4, <1>5, <1>6

\* The lock: to sleep the caller owes exactly what the interval still lacks.
LEMMA LockPace ==
  ASSUME PaceInv, NEW c \in Callers, Lock(c)
  PROVE  PaceInv'
<1> USE DEF PaceInv, Places
<1>1. PICK k \in 1..Len(queue) : queue[k] = c
  BY DEF Lock
<1>2. Head(queue) = queue[1]
  BY <1>1, TailFacts
<1>3. queue[1] = c /\ pc[c] = "queue"
  BY <1>2 DEF Lock
<1>4. CASE age < Interval
  <2>1. /\ pc' = [pc EXCEPT ![c] = "asleep"]
        /\ rest' = [rest EXCEPT ![c] = Interval - age]
        /\ UNCHANGED <<age, queue>>
    BY <1>4 DEF Lock
  <2>2. Interval - age \in 0..Interval /\ (Interval - age) + age >= Interval
    BY ClientAssumption
  <2>3. ASSUME NEW d \in Callers, pc'[d] = "asleep"
        PROVE  queue'[1] = d /\ rest'[d] + age' >= Interval
    BY <1>3, <2>1, <2>2, <2>3
  <2> QED
    BY <1>1, <2>1, <2>2, <2>3
<1>5. CASE ~(age < Interval)
  BY <1>3, <1>5, MarkPace DEF Lock
<1> QED
  BY <1>4, <1>5

\* A dropped call leaves the queue from wherever it stood: who slept at its head still does.
LEMMA DropPace ==
  ASSUME PaceInv, NEW c \in Callers, Drop(c)
  PROVE  PaceInv'
<1> USE DEF PaceInv, Places
<1>1. pc' = [pc EXCEPT ![c] = "idle"] /\ rest' = [rest EXCEPT ![c] = 0] /\ age' = age
  BY DEF Drop
<1>2. CASE pc[c] = "asked"
  <2>1. queue' = queue
    BY <1>2 DEF Drop
  <2>2. \A d \in Callers : pc'[d] \in {"queue", "asleep"} => d # c /\ pc'[d] = pc[d] /\ rest'[d] = rest[d]
    BY <1>1
  <2>3. rest' \in [Callers -> 0..Interval] /\ pc' \in [Callers -> Places]
    BY <1>1, ClientAssumption
  <2> QED
    BY <1>1, <2>1, <2>2, <2>3
<1>3. CASE pc[c] # "asked"
  <2>1. PICK n \in 1..Len(queue) : queue[n] = c /\ queue' = RemoveAt(queue, n)
    BY <1>3 DEF Drop
  <2>2. /\ queue' \in Seq(Callers)
        /\ Len(queue) \in Nat /\ Len(queue') = Len(queue) - 1
        /\ \A i \in 1..n - 1 : queue'[i] = queue[i]
        /\ \A i \in n + 1..Len(queue) : queue'[i - 1] = queue[i]
    <3>1. queue \in Seq(Callers)
      OBVIOUS
    <3> HIDE DEF PaceInv
    <3>2. /\ RemoveAt(queue, n) \in Seq(Callers)
          /\ Len(queue) \in Nat /\ Len(RemoveAt(queue, n)) = Len(queue) - 1
          /\ \A i \in 1..n - 1 : RemoveAt(queue, n)[i] = queue[i]
          /\ \A i \in n + 1..Len(queue) : RemoveAt(queue, n)[i - 1] = queue[i]
      BY <3>1, RemoveFacts
    <3> QED
      BY <2>1, <3>2
  <2>3. ASSUME NEW d \in Callers, pc'[d] \in {"queue", "asleep"}
        PROVE  \E i \in 1..Len(queue') : queue'[i] = d
    <3>1. d # c /\ pc[d] \in {"queue", "asleep"}
      BY <1>1, <2>3
    <3>2. PICK i \in 1..Len(queue) : queue[i] = d
      BY <3>1
    <3>3. i # n
      BY <2>1, <3>1, <3>2
    <3>4. CASE i < n
      <4>1. i \in 1..n - 1 /\ i \in 1..Len(queue')
        BY <2>2, <3>4
      <4> QED
        BY <2>2, <3>2, <4>1
    <3>5. CASE i > n
      <4>1. i \in n + 1..Len(queue) /\ i - 1 \in 1..Len(queue')
        BY <2>2, <3>5
      <4> QED
        BY <2>2, <3>2, <4>1
    <3> QED
      BY <3>3, <3>4, <3>5
  <2>4. ASSUME NEW d \in Callers, pc'[d] = "asleep"
        PROVE  queue'[1] = d /\ rest'[d] + age' >= Interval
    <3>1. d # c /\ pc[d] = "asleep" /\ rest'[d] = rest[d]
      BY <1>1, <2>4
    <3>2. n # 1
      BY <2>1, <3>1
    <3>3. 1 \in 1..n - 1
      BY <3>2
    <3> QED
      BY <1>1, <2>2, <3>1, <3>3
  <2> QED
    BY <1>1, <2>2, <2>3, <2>4, ClientAssumption
<1> QED
  BY <1>2, <1>3

\* Time takes from the sleep no more than it adds to the age of the mark, until that is full.
LEMMA TickPace == PaceInv /\ Tick => PaceInv'
<1> SUFFICES ASSUME PaceInv, Tick PROVE PaceInv'
  OBVIOUS
<1> USE DEF PaceInv, Places, Tick
<1>1. age' \in 0..Interval /\ rest' \in [Callers -> 0..Interval]
  BY ClientAssumption
<1>2. ASSUME NEW d \in Callers, pc'[d] = "asleep"
      PROVE  queue'[1] = d /\ rest'[d] + age' >= Interval
  BY SMTT(30), <1>2, ClientAssumption
<1> QED
  BY <1>1, <1>2

\* An answer ends the call or sends it back to the queue.
LEMMA AnswerPace ==
  ASSUME PaceInv, NEW c \in Callers, NEW a \in Answers, Answer(c, a)
  PROVE  PaceInv'
<1>1. CASE pc' = [pc EXCEPT ![c] = "queue"] /\ queue' = Append(queue, c)
  BY <1>1, JoinPace DEF Answer
<1>2. CASE pc' = [pc EXCEPT ![c] = "idle"] /\ UNCHANGED queue
  BY <1>2 DEF Answer, PaceInv, Places
<1> QED
  BY <1>1, <1>2 DEF Answer

\* Every step keeps the pace.
LEMMA NextPace == PaceInv /\ [Next]_vars => PaceInv'
<1> SUFFICES ASSUME PaceInv, [Next]_vars PROVE PaceInv'
  OBVIOUS
<1>1. CASE Tick
  BY <1>1, TickPace
<1>2. ASSUME NEW c \in Callers, NEW m \in Methods, Call(c, m) PROVE PaceInv'
  <2>1. CASE AtMost(m) = 0
    BY <1>2, <2>1 DEF Call, PaceInv
  <2>2. CASE AtMost(m) # 0
    BY <1>2, <2>2, JoinPace DEF Call
  <2> QED
    BY <2>1, <2>2
<1>3. ASSUME NEW c \in Callers, Lock(c) PROVE PaceInv'
  BY <1>3, LockPace
<1>4. ASSUME NEW c \in Callers, Wake(c) PROVE PaceInv'
  <2>1. pc[c] = "asleep" /\ queue[1] = c
    BY <1>4 DEF Wake, PaceInv
  <2> QED
    BY <1>4, <2>1, MarkPace DEF Wake
<1>5. ASSUME NEW c \in Callers, NEW r \in 1..Regions, Accept(c, r) PROVE PaceInv'
  BY <1>5 DEF Accept, PaceInv
<1>6. ASSUME NEW c \in Callers, NEW a \in Answers, Answer(c, a) PROVE PaceInv'
  BY <1>6, AnswerPace
<1>7. ASSUME NEW c \in Callers, Drop(c) PROVE PaceInv'
  BY <1>7, DropPace
<1>8. CASE UNCHANGED vars
  BY <1>8 DEF vars, PaceInv
<1> QED
  BY <1>1, <1>2, <1>3, <1>4, <1>5, <1>6, <1>7, <1>8 DEF Next

\* A request leaves only when the interval since the last one is over.
LEMMA StepIsPaced ==
  PaceInv /\ [Next]_vars =>
    [\A c \in Callers : (pc[c] # "asked" /\ pc'[c] = "asked") => age >= Interval]_vars
<1> SUFFICES ASSUME PaceInv, Next, NEW d \in Callers, pc[d] # "asked", pc'[d] = "asked"
             PROVE  age >= Interval
  OBVIOUS
<1> USE DEF PaceInv, Places
<1>1. CASE Tick
  BY <1>1 DEF Tick
<1>2. ASSUME NEW c \in Callers, NEW m \in Methods, Call(c, m) PROVE age >= Interval
  BY <1>2 DEF Call
<1>3. ASSUME NEW c \in Callers, Lock(c) PROVE age >= Interval
  BY <1>3, ClientAssumption DEF Lock, MarkAndSend
<1>4. ASSUME NEW c \in Callers, Wake(c) PROVE age >= Interval
  BY <1>4, ClientAssumption DEF Wake
<1>5. ASSUME NEW c \in Callers, NEW r \in 1..Regions, Accept(c, r) PROVE age >= Interval
  BY <1>5 DEF Accept
<1>6. ASSUME NEW c \in Callers, NEW a \in Answers, Answer(c, a) PROVE age >= Interval
  BY <1>6 DEF Answer
<1>7. ASSUME NEW c \in Callers, Drop(c) PROVE age >= Interval
  BY <1>7 DEF Drop
<1> QED
  BY <1>1, <1>2, <1>3, <1>4, <1>5, <1>6, <1>7 DEF Next

\* The clones keep one pace between them, however many there are and whichever of them are dropped
\* while they wait or sleep (client.rs:105-115).
THEOREM ClonesKeepPace == Spec => Paced
<1>1. Spec => []PaceInv
  BY InitPace, NextPace, PTL DEF Spec
<1> QED
  BY <1>1, StepIsPaced, PTL DEF Spec, Paced

Retried == {"429", "5xx", "lost"}

\* What stopping at the verdict rests on: a call in progress has heard only answers worth retrying
\* and has a region left to ask.
VerdictInv ==
  /\ pc \in [Callers -> Places]
  /\ method \in [Callers -> Methods]
  /\ answers \in [Callers -> Seq(Answers)]
  /\ StopsAtVerdict
  /\ \A c \in Callers : pc[c] # "idle" =>
       /\ Len(answers[c]) < AtMost(method[c])
       /\ \A i \in 1..Len(answers[c]) : answers[c][i] \in Retried

\* How many regions a call may ask is a number.
LEMMA AtMostType == \A m : AtMost(m) \in Nat
  BY ClientAssumption DEF AtMost

\* The list of answers after one more.
LEMMA AnswerFacts ==
  ASSUME NEW s \in Seq(Answers), NEW a \in Answers
  PROVE  /\ Append(s, a) \in Seq(Answers)
         /\ Len(s) \in Nat /\ Len(Append(s, a)) = Len(s) + 1
         /\ Append(s, a)[Len(s) + 1] = a
         /\ \A i \in 1..Len(s) : Append(s, a)[i] = s[i]
  OBVIOUS

\* A step that answers nobody keeps the calls in progress as they were, or ends them.
LEMMA SilentStep ==
  ASSUME VerdictInv, UNCHANGED <<method, answers>>, pc' \in [Callers -> Places],
         \A c \in Callers : pc'[c] # "idle" => pc[c] # "idle"
  PROVE  VerdictInv'
  BY DEF VerdictInv, StopsAtVerdict

\* One more answer: the call goes on only after a retryable one and while a region is left.
LEMMA AnswerVerdict ==
  ASSUME VerdictInv, NEW c \in Callers, NEW a \in Answers, Answer(c, a)
  PROVE  VerdictInv'
<1>1. /\ pc[c] = "asked" /\ method' = method
      /\ answers[c] \in Seq(Answers) /\ answers' = [answers EXCEPT ![c] = Append(answers[c], a)]
      /\ Len(answers[c]) < AtMost(method[c])
      /\ \A i \in 1..Len(answers[c]) : answers[c][i] \in Retried
  BY DEF VerdictInv, Answer
<1>2. /\ answers'[c] \in Seq(Answers)
      /\ Len(answers[c]) \in Nat /\ Len(answers'[c]) = Len(answers[c]) + 1
      /\ answers'[c][Len(answers[c]) + 1] = a
      /\ \A i \in 1..Len(answers[c]) : answers'[c][i] = answers[c][i]
  <2>1. answers'[c] = Append(answers[c], a)
    BY <1>1 DEF VerdictInv
  <2> QED
    BY <1>1, <2>1, AnswerFacts
<1>3. AtMost(method[c]) \in Nat
  BY AtMostType
<1>4. \A i \in 1..Len(answers'[c]) - 1 : answers'[c][i] \in Retried
  BY <1>1, <1>2
<1>5. pc'[c] # "idle" => a \in Retried /\ Len(answers[c]) + 1 < AtMost(method[c])
  BY <1>1 DEF Answer, VerdictInv, AsksNext, is_retryable_status, Asked, Retried
<1>6. pc'[c] # "idle" => \A i \in 1..Len(answers'[c]) : answers'[c][i] \in Retried
  BY <1>1, <1>2, <1>5
<1>7. /\ pc' \in [Callers -> Places] /\ answers' \in [Callers -> Seq(Answers)]
      /\ \A d \in Callers : d # c => pc'[d] = pc[d] /\ answers'[d] = answers[d]
  BY <1>1, <1>2 DEF Answer, VerdictInv, Places
<1>8. Len(answers'[c]) <= AtMost(method[c])
  BY <1>1, <1>2, <1>3
<1>9. StopsAtVerdict'
  BY <1>1, <1>4, <1>7, <1>8 DEF StopsAtVerdict, VerdictInv, Retried
<1> QED
  BY <1>1, <1>2, <1>5, <1>6, <1>7, <1>9 DEF VerdictInv

\* A call starts with nothing heard, and only when it may ask somebody.
LEMMA CallVerdict ==
  ASSUME VerdictInv, NEW c \in Callers, NEW m \in Methods, Call(c, m)
  PROVE  VerdictInv'
<1>1. /\ method' = [method EXCEPT ![c] = m] /\ answers' = [answers EXCEPT ![c] = <<>>]
      /\ pc[c] = "idle" /\ (pc' = pc \/ pc' = [pc EXCEPT ![c] = "queue"])
      /\ pc' # pc => AtMost(m) # 0
  BY DEF Call
<1>2. AtMost(m) \in Nat
  BY AtMostType
<1>3. /\ method' \in [Callers -> Methods] /\ answers' \in [Callers -> Seq(Answers)]
      /\ pc' \in [Callers -> Places]
      /\ method'[c] = m /\ answers'[c] = <<>>
      /\ \A d \in Callers : d # c =>
           pc'[d] = pc[d] /\ answers'[d] = answers[d] /\ method'[d] = method[d]
  BY <1>1 DEF VerdictInv, Places
<1>4. Len(answers'[c]) = 0 /\ (pc'[c] # "idle" => AtMost(m) > 0)
  BY <1>1, <1>2, <1>3
<1>5. ASSUME NEW d \in Callers
      PROVE  /\ Len(answers'[d]) <= AtMost(method'[d])
             /\ \A i \in 1..Len(answers'[d]) - 1 : answers'[d][i] \in Retried
             /\ pc'[d] # "idle" =>
                  /\ Len(answers'[d]) < AtMost(method'[d])
                  /\ \A i \in 1..Len(answers'[d]) : answers'[d][i] \in Retried
  <2>1. CASE d = c
    BY <1>2, <1>3, <1>4, <2>1
  <2>2. CASE d # c
    BY <1>3, <2>2 DEF VerdictInv, StopsAtVerdict, Retried
  <2> QED
    BY <2>1, <2>2
<1>6. StopsAtVerdict'
  BY <1>5 DEF StopsAtVerdict, Retried
<1> QED
  BY <1>3, <1>5, <1>6 DEF VerdictInv

\* Nobody was asked anything yet.
LEMMA InitVerdict == Init => VerdictInv
<1> SUFFICES ASSUME Init PROVE VerdictInv
  OBVIOUS
<1>1. \A c \in Callers : answers[c] = <<>> /\ Len(answers[c]) = 0 /\ pc[c] = "idle"
  BY DEF Init
<1>2. pc \in [Callers -> Places] /\ answers \in [Callers -> Seq(Answers)]
  BY DEF Init, Places
<1> QED
  BY <1>1, <1>2, AtMostType DEF Init, VerdictInv, StopsAtVerdict

\* Every step stops at a verdict.
LEMMA NextVerdict == VerdictInv /\ [Next]_vars => VerdictInv'
<1> SUFFICES ASSUME VerdictInv, [Next]_vars PROVE VerdictInv'
  OBVIOUS
<1> USE DEF Places
<1>1. pc \in [Callers -> Places]
  BY DEF VerdictInv
<1>2. CASE Tick \/ UNCHANGED vars
  BY <1>1, <1>2, SilentStep DEF Tick, vars
<1>3. ASSUME NEW c \in Callers, Lock(c) \/ Wake(c) \/ Drop(c) PROVE VerdictInv'
  <2>1. /\ UNCHANGED <<method, answers>>
        /\ \E p \in Places : pc' = [pc EXCEPT ![c] = p]
        /\ pc[c] # "idle"
    BY <1>3 DEF Lock, Wake, Drop, MarkAndSend
  <2> QED
    BY <1>1, <2>1, SilentStep
<1>4. ASSUME NEW c \in Callers, NEW r \in 1..Regions, Accept(c, r) PROVE VerdictInv'
  BY <1>1, <1>4, SilentStep DEF Accept
<1>5. ASSUME NEW c \in Callers, NEW m \in Methods, Call(c, m) PROVE VerdictInv'
  BY <1>5, CallVerdict
<1>6. ASSUME NEW c \in Callers, NEW a \in Answers, Answer(c, a) PROVE VerdictInv'
  BY <1>6, AnswerVerdict
<1> QED
  BY <1>2, <1>3, <1>4, <1>5, <1>6 DEF Next

\* No region is asked after a verdict, and none beyond the allowed attempts, for any list of
\* regions (client.rs:129-160).
THEOREM CallsStopAtVerdict == Spec => []StopsAtVerdict
  BY InitVerdict, NextVerdict, PTL DEF Spec, VerdictInv

-----------------------------------------------------------------------------
\* Answers that leave open what the region did with the bundle.
Lossy == {"5xx"} \cup NoAnswer

\* What a call knows of its regions: a clear answer says what its region did, a region beyond those
\* that answered took the bundle only while it is asked or after the call was dropped, and a request
\* still on its way is one that got no answer.
RegionsInv(c) ==
  /\ accepted[c] \subseteq 1..Len(answers[c]) + 1
  /\ Len(answers[c]) + 1 \in accepted[c] => pc[c] = "asked" \/ result[c] = "dropped"
  /\ \A i \in 1..Len(answers[c]) :
       answers[c][i] \notin Lossy => (i \in accepted[c] <=> answers[c][i] = "result")
  /\ \A r \in adrift[c] :
       \/ r \in 1..Len(answers[c]) /\ answers[c][r] \in NoAnswer
       \/ r = Len(answers[c]) + 1 /\ result[c] = "dropped"

\* What a call returns is what its last answer is worth; one without any answer fails.
ReturnInv(c) ==
  /\ pc[c] # "idle" => result[c] = "none"
  /\ result[c] \notin {"none", "dropped"} =>
       \/ Len(answers[c]) = 0 /\ result[c] # "Ok"
       \/ Len(answers[c]) > 0 /\ result[c] = Returned(method[c], answers[c][Len(answers[c])])

HonestInv ==
  /\ VerdictInv
  /\ accepted \in [Callers -> SUBSET (1..Regions)]
  /\ adrift \in [Callers -> SUBSET (1..Regions)]
  /\ result \in [Callers -> Results]
  /\ \A c \in Callers : method[c] = "sendBundle" => RegionsInv(c) /\ ReturnInv(c)

\* A bundle is returned as sent exactly on the answer that names it.
LEMMA OkIsResult ==
  ASSUME NEW a \in Answers
  PROVE  /\ Returned("sendBundle", a) = "Ok" <=> a = "result"
         /\ Returned("sendBundle", a) \in Results
  BY DEF Returned, OfBody, Unwraps, unwrap_result, Parsed, Answers, Bodies, Statuses, NoAnswer, Results

\* A caller that a step does not touch knows what it knew.
LEMMA OthersHonest ==
  ASSUME NEW d \in Callers, method[d] = "sendBundle" => RegionsInv(d) /\ ReturnInv(d),
         /\ pc'[d] = pc[d] /\ method'[d] = method[d] /\ answers'[d] = answers[d]
         /\ accepted'[d] = accepted[d] /\ adrift'[d] = adrift[d] /\ result'[d] = result[d]
  PROVE  method'[d] = "sendBundle" => (RegionsInv(d) /\ ReturnInv(d))'
  BY DEF RegionsInv, ReturnInv

\* A new call knows nothing of the regions.
LEMMA CallHonest ==
  ASSUME HonestInv, NEW c \in Callers, NEW m \in Methods, Call(c, m)
  PROVE  HonestInv'
<1>1. VerdictInv /\ VerdictInv'
  BY NextVerdict DEF HonestInv, Next
<1>2. /\ accepted' = [accepted EXCEPT ![c] = {}] /\ adrift' = [adrift EXCEPT ![c] = {}]
      /\ answers' = [answers EXCEPT ![c] = <<>>] /\ method' = [method EXCEPT ![c] = m]
      /\ \/ pc' = pc /\ pc[c] = "idle" /\ result' = [result EXCEPT ![c] = "AllRegionsFailed"]
         \/ pc' = [pc EXCEPT ![c] = "queue"] /\ result' = [result EXCEPT ![c] = "none"]
  BY DEF Call
<1>3. /\ accepted' \in [Callers -> SUBSET (1..Regions)] /\ adrift' \in [Callers -> SUBSET (1..Regions)]
      /\ result' \in [Callers -> Results]
  BY <1>2 DEF HonestInv, Results
<1>4. ASSUME NEW d \in Callers, d # c
      PROVE  method'[d] = "sendBundle" => (RegionsInv(d) /\ ReturnInv(d))'
  <2>1. /\ pc'[d] = pc[d] /\ method'[d] = method[d] /\ answers'[d] = answers[d]
        /\ accepted'[d] = accepted[d] /\ adrift'[d] = adrift[d] /\ result'[d] = result[d]
    BY <1>1, <1>2, <1>4 DEF HonestInv, VerdictInv
  <2> QED
    BY <2>1, OthersHonest DEF HonestInv
<1>5. /\ accepted'[c] = {} /\ adrift'[c] = {} /\ answers'[c] = <<>> /\ Len(answers'[c]) = 0
      /\ \/ pc'[c] = "idle" /\ result'[c] = "AllRegionsFailed"
         \/ pc'[c] = "queue" /\ result'[c] = "none"
  BY <1>1, <1>2 DEF HonestInv, VerdictInv
<1>6. (RegionsInv(c) /\ ReturnInv(c))'
  BY <1>5 DEF RegionsInv, ReturnInv
<1> QED
  BY <1>1, <1>3, <1>4, <1>6 DEF HonestInv

\* The lock, the sleep and the clock tell a call nothing.
LEMMA WaitHonest ==
  ASSUME HonestInv, Tick \/ UNCHANGED vars \/ \E c \in Callers : Lock(c) \/ Wake(c)
  PROVE  HonestInv'
<1>1. VerdictInv /\ VerdictInv'
  BY NextVerdict DEF HonestInv, Next
<1>2. /\ UNCHANGED <<method, answers, accepted, adrift, result>>
      /\ \/ pc' = pc
         \/ \E c \in Callers : /\ pc[c] \in {"queue", "asleep"}
                                /\ \E p \in {"asleep", "asked"} : pc' = [pc EXCEPT ![c] = p]
  BY DEF Tick, Lock, Wake, MarkAndSend, vars
<1>3. \A d \in Callers : pc'[d] = pc[d] \/ (pc[d] \in {"queue", "asleep"} /\ pc'[d] \in {"asleep", "asked"})
  BY <1>1, <1>2 DEF VerdictInv
<1>4. ASSUME NEW d \in Callers, method[d] = "sendBundle"
      PROVE  (RegionsInv(d) /\ ReturnInv(d))'
  <2>1. RegionsInv(d) /\ ReturnInv(d)
    BY <1>4 DEF HonestInv
  <2> QED
    BY <1>2, <1>3, <2>1 DEF RegionsInv, ReturnInv
<1> QED
  BY <1>1, <1>2, <1>4 DEF HonestInv

\* A region takes the bundle of a request that waits for its answer, or of one that will not get it.
LEMMA AcceptHonest ==
  ASSUME HonestInv, NEW c \in Callers, NEW r \in 1..Regions, Accept(c, r)
  PROVE  HonestInv'
<1>1. VerdictInv /\ VerdictInv'
  BY NextVerdict DEF HonestInv, Next
<1>2. /\ method[c] = "sendBundle"
      /\ r \in adrift[c] \/ (pc[c] = "asked" /\ r = Len(answers[c]) + 1)
      /\ accepted' = [accepted EXCEPT ![c] = accepted[c] \cup {r}]
      /\ adrift' = [adrift EXCEPT ![c] = adrift[c] \ {r}]
      /\ UNCHANGED <<pc, method, answers, result>>
  BY DEF Accept, Asked
<1>3. /\ accepted' \in [Callers -> SUBSET (1..Regions)] /\ adrift' \in [Callers -> SUBSET (1..Regions)]
      /\ accepted'[c] = accepted[c] \cup {r} /\ adrift'[c] = adrift[c] \ {r}
      /\ \A d \in Callers : d # c => accepted'[d] = accepted[d] /\ adrift'[d] = adrift[d]
  BY <1>2 DEF HonestInv
<1>4. ASSUME NEW d \in Callers, d # c
      PROVE  method'[d] = "sendBundle" => (RegionsInv(d) /\ ReturnInv(d))'
  BY <1>2, <1>3, <1>4, OthersHonest DEF HonestInv
<1>5. RegionsInv(c) /\ ReturnInv(c)
  BY <1>2 DEF HonestInv
<1>6. Len(answers[c]) \in Nat
  BY <1>1 DEF VerdictInv
<1>7. RegionsInv(c)'
  <2>1. \/ r \in 1..Len(answers[c]) /\ answers[c][r] \in NoAnswer
        \/ r = Len(answers[c]) + 1 /\ (pc[c] = "asked" \/ result[c] = "dropped")
    BY <1>2, <1>5 DEF RegionsInv
  <2>2. accepted'[c] \subseteq 1..Len(answers[c]) + 1
    BY <1>3, <1>5, <1>6, <2>1 DEF RegionsInv
  <2>3. \A i \in 1..Len(answers[c]) : answers[c][i] \notin Lossy => i # r
    BY <1>6, <2>1 DEF Lossy
  <2>4. Len(answers[c]) + 1 \in accepted'[c] => pc[c] = "asked" \/ result[c] = "dropped"
    BY <1>3, <1>5, <1>6, <2>1 DEF RegionsInv
  <2> QED
    BY <1>2, <1>3, <1>5, <2>2, <2>3, <2>4 DEF RegionsInv
<1>8. ReturnInv(c)'
  BY <1>2, <1>5 DEF ReturnInv
<1> QED
  BY <1>1, <1>2, <1>3, <1>4, <1>7, <1>8 DEF HonestInv

\* A dropped call leaves at most the request it waited for on its way.
LEMMA DropHonest ==
  ASSUME HonestInv, NEW c \in Callers, Drop(c)
  PROVE  HonestInv'
<1>1. VerdictInv /\ VerdictInv'
  BY NextVerdict DEF HonestInv, Next
<1> DEFINE n == Len(answers[c]) + 1
<1>2. /\ pc[c] # "idle" /\ pc' = [pc EXCEPT ![c] = "idle"]
      /\ \/ adrift' = [adrift EXCEPT ![c] = adrift[c] \cup {n}] /\ pc[c] = "asked"
         \/ adrift' = [adrift EXCEPT ![c] = adrift[c]]
      /\ result' = [result EXCEPT ![c] = "dropped"]
      /\ UNCHANGED <<method, answers, accepted>>
  BY DEF Drop, Asked
<1>3. ASSUME NEW d \in Callers, d # c
      PROVE  method'[d] = "sendBundle" => (RegionsInv(d) /\ ReturnInv(d))'
  BY <1>1, <1>2, <1>3, OthersHonest DEF HonestInv, VerdictInv
<1>4. /\ Len(answers[c]) \in Nat /\ AtMost(method[c]) <= Regions /\ Len(answers[c]) < AtMost(method[c])
      /\ AtMost(method[c]) \in Nat
  BY <1>1, <1>2, ClientAssumption DEF VerdictInv, AtMost
<1>5. n \in 1..Regions
  BY <1>4, ClientAssumption
<1>6. /\ adrift' \in [Callers -> SUBSET (1..Regions)] /\ adrift'[c] \subseteq adrift[c] \cup {n}
      /\ result' \in [Callers -> Results] /\ result'[c] = "dropped" /\ pc'[c] = "idle"
  <2>1. /\ adrift \in [Callers -> SUBSET (1..Regions)] /\ adrift[c] \subseteq 1..Regions
        /\ result \in [Callers -> Results]
    BY DEF HonestInv
  <2>2. DOMAIN pc = Callers
    BY <1>1 DEF VerdictInv
  <2>3. "dropped" \in Results
    BY DEF Results
  <2>4. adrift[c] \cup {n} \subseteq 1..Regions
    BY <2>1, <1>5
  <2> HIDE DEF n
  <2>5. adrift' \in [Callers -> SUBSET (1..Regions)] /\ adrift'[c] \subseteq adrift[c] \cup {n}
    BY <1>2, <2>1, <2>4
  <2>6. result' \in [Callers -> Results] /\ result'[c] = "dropped"
    BY <1>2, <2>1, <2>3
  <2>7. pc'[c] = "idle"
    BY <1>2, <2>2
  <2> QED
    BY <2>5, <2>6, <2>7
<1>7. ASSUME method[c] = "sendBundle" PROVE (RegionsInv(c) /\ ReturnInv(c))'
  <2>1. RegionsInv(c) /\ ReturnInv(c)
    BY <1>7 DEF HonestInv
  <2>2. \A r \in adrift[c] : r \in 1..Len(answers[c]) /\ answers[c][r] \in NoAnswer
    BY <1>2, <2>1 DEF RegionsInv, ReturnInv
  <2> QED
    BY <1>2, <1>6, <2>1, <2>2 DEF RegionsInv, ReturnInv
<1> QED
  BY <1>1, <1>2, <1>3, <1>6, <1>7 DEF HonestInv

\* An answer of a region tells what it did with the bundle, unless it is lossy; the answer that ends
\* a call is the one it returns.
LEMMA AnswerHonest ==
  ASSUME HonestInv, NEW c \in Callers, NEW a \in Answers, Answer(c, a)
  PROVE  HonestInv'
<1>1. VerdictInv /\ VerdictInv'
  BY NextVerdict DEF HonestInv, Next
<1> DEFINE n == Len(answers[c]) + 1
<1>2. /\ pc[c] = "asked" /\ MayAnswer(c, a)
      /\ answers' = [answers EXCEPT ![c] = Append(answers[c], a)]
      /\ \/ adrift' = [adrift EXCEPT ![c] = adrift[c] \cup {n}] /\ a \in NoAnswer
         \/ adrift' = [adrift EXCEPT ![c] = adrift[c]]
      /\ UNCHANGED <<method, accepted>>
  BY DEF Answer, Asked
<1>3. \/ pc' = [pc EXCEPT ![c] = "queue"] /\ UNCHANGED result
      \/ pc' = [pc EXCEPT ![c] = "idle"] /\ result' = [result EXCEPT ![c] = Returned(method[c], a)]
  BY DEF Answer
<1>4. /\ answers[c] \in Seq(Answers) /\ Len(answers[c]) \in Nat /\ method[c] \in Methods
      /\ AtMost(method[c]) <= Regions /\ Len(answers[c]) < AtMost(method[c])
      /\ AtMost(method[c]) \in Nat
  BY <1>1, <1>2, ClientAssumption DEF VerdictInv, AtMost
<1>5. n \in 1..Regions
  BY <1>4, ClientAssumption
<1>6. /\ answers'[c] = Append(answers[c], a) /\ Len(answers'[c]) = n
      /\ answers'[c][n] = a
      /\ \A i \in 1..Len(answers[c]) : answers'[c][i] = answers[c][i]
  <2>1. answers'[c] = Append(answers[c], a)
    BY <1>1, <1>2 DEF VerdictInv
  <2> QED
    BY <1>4, <2>1, AnswerFacts
<1>7. Returned(method[c], a) \in Results
  BY DEF Returned, TipFloorResult, OfBody, Unwraps, unwrap_result, Parsed, Answers, Bodies, Statuses, NoAnswer, Results
<1>8. /\ adrift' \in [Callers -> SUBSET (1..Regions)]
      /\ adrift'[c] = adrift[c] \/ (adrift'[c] = adrift[c] \cup {n} /\ a \in NoAnswer)
      /\ result' \in [Callers -> Results]
      /\ \/ pc'[c] = "queue" /\ result'[c] = result[c]
         \/ pc'[c] = "idle" /\ result'[c] = Returned(method[c], a)
  <2> USE DEF HonestInv, VerdictInv
  <2>1. /\ adrift' \in [Callers -> SUBSET (1..Regions)]
        /\ adrift'[c] = adrift[c] \/ (adrift'[c] = adrift[c] \cup {n} /\ a \in NoAnswer)
    BY <1>2, <1>5
  <2>2. /\ result' \in [Callers -> Results]
        /\ \/ pc'[c] = "queue" /\ result'[c] = result[c]
           \/ pc'[c] = "idle" /\ result'[c] = Returned(method[c], a)
    BY <1>1, <1>3, <1>7
  <2> QED
    BY <2>1, <2>2
<1>9. ASSUME NEW d \in Callers, d # c
      PROVE  method'[d] = "sendBundle" => (RegionsInv(d) /\ ReturnInv(d))'
  <2>1. /\ pc'[d] = pc[d] /\ method'[d] = method[d] /\ answers'[d] = answers[d]
        /\ accepted'[d] = accepted[d] /\ adrift'[d] = adrift[d] /\ result'[d] = result[d]
    BY <1>1, <1>2, <1>3, <1>9 DEF HonestInv, VerdictInv
  <2> QED
    BY <2>1, OthersHonest DEF HonestInv
<1>10. ASSUME method[c] = "sendBundle" PROVE (RegionsInv(c) /\ ReturnInv(c))'
  <2>1. RegionsInv(c) /\ ReturnInv(c)
    BY <1>10 DEF HonestInv
  <2>2. result[c] = "none"
    BY <1>2, <2>1 DEF ReturnInv
  <2>3. \A r \in adrift[c] : r \in 1..Len(answers[c]) /\ answers[c][r] \in NoAnswer
    BY <2>1, <2>2 DEF RegionsInv
  <2>4. accepted'[c] \subseteq 1..n /\ n + 1 \notin accepted'[c] /\ accepted'[c] \subseteq 1..n + 1
    BY <1>2, <1>4, <2>1 DEF RegionsInv
  <2>5. a \notin Lossy => (n \in accepted'[c] <=> a = "result")
    BY <1>2, <1>10 DEF MayAnswer, Asked, Lossy, NoAnswer
  <2>6. \A i \in 1..n : i # n => i \in 1..Len(answers[c])
    BY <1>4
  <2>7. \A i \in 1..n : answers'[c][i] \notin Lossy => (i \in accepted'[c] <=> answers'[c][i] = "result")
    BY <1>2, <1>6, <2>1, <2>5, <2>6 DEF RegionsInv
  <2>8. \A r \in adrift'[c] : r \in 1..n /\ answers'[c][r] \in NoAnswer
    BY <1>4, <1>6, <1>8, <2>3
  <2>9. RegionsInv(c)'
    BY <1>6, <2>4, <2>7, <2>8 DEF RegionsInv
  <2>10. ReturnInv(c)'
    BY <1>2, <1>4, <1>6, <1>8, <2>2 DEF ReturnInv
  <2> QED
    BY <2>9, <2>10
<1> QED
  BY <1>1, <1>2, <1>8, <1>9, <1>10 DEF HonestInv

\* What a finished call knows is enough to count its bundles.
LEMMA HonestCount == HonestInv => ErrorIsHonest
<1> SUFFICES ASSUME HonestInv, NEW c \in Callers,
                    method[c] = "sendBundle", pc[c] = "idle", result[c] \notin {"none", "dropped"},
                    \A i \in 1..Len(answers[c]) : answers[c][i] \notin Lossy
             PROVE  Cardinality(accepted[c]) = IF result[c] = "Ok" THEN 1 ELSE 0
  BY DEF ErrorIsHonest, Lossy
<1> DEFINE n == Len(answers[c])
<1>1. RegionsInv(c) /\ ReturnInv(c)
  BY DEF HonestInv
<1>2. /\ n \in Nat /\ answers[c] \in Seq(Answers)
      /\ \A i \in 1..n - 1 : answers[c][i] \in Retried
  BY DEF HonestInv, VerdictInv, StopsAtVerdict, Retried
<1>3. accepted[c] \subseteq 1..n
  BY <1>1, <1>2 DEF RegionsInv
<1>4. \A i \in 1..n - 1 : answers[c][i] # "result" /\ i \in 1..n
  BY <1>2 DEF Retried
<1>5. accepted[c] \subseteq {n} /\ (n \in accepted[c] <=> n > 0 /\ answers[c][n] = "result")
  <2>1. \A i \in 1..n - 1 : i \notin accepted[c]
    BY <1>1, <1>4 DEF RegionsInv
  <2>2. n > 0 => (n \in accepted[c] <=> answers[c][n] = "result")
    BY <1>1, <1>2 DEF RegionsInv
  <2> QED
    BY <1>2, <1>3, <2>1, <2>2
<1>6. n \in accepted[c] <=> result[c] = "Ok"
  <2>1. CASE n = 0
    BY <1>1, <1>5, <2>1 DEF ReturnInv
  <2>2. CASE n > 0
    <3>1. answers[c][n] \in Answers
      BY <1>2, <2>2
    <3> QED
      BY <1>1, <1>5, <2>2, <3>1, OkIsResult DEF ReturnInv
  <2> QED
    BY <1>2, <2>1, <2>2
<1>7. CASE result[c] = "Ok"
  <2>1. accepted[c] = {n}
    BY <1>5, <1>6, <1>7
  <2>2. Cardinality({n}) = 1
    BY FS_Singleton
  <2> QED
    BY <1>7, <2>1, <2>2
<1>8. CASE result[c] # "Ok"
  <2>1. accepted[c] = {}
    BY <1>5, <1>6, <1>8
  <2> QED
    BY <1>8, <2>1, FS_EmptySet
<1> QED
  BY <1>7, <1>8

\* An error returned by a sendBundle whose regions all gave clear answers left no bundle anywhere,
\* and an Ok left exactly one, for any number of regions and attempts and whatever callers drop or
\* regions do with requests that got no answer (client.rs:138-160).
THEOREM ErrorsAreHonest == Spec => []ErrorIsHonest
<1>1. Init => HonestInv
  <2> SUFFICES ASSUME Init PROVE HonestInv
    OBVIOUS
  <2>1. VerdictInv
    BY InitVerdict
  <2>2. \A c \in Callers : /\ answers[c] = <<>> /\ Len(answers[c]) = 0 /\ pc[c] = "idle"
                           /\ accepted[c] = {} /\ adrift[c] = {} /\ result[c] = "none"
    BY DEF Init
  <2>3. \A c \in Callers : RegionsInv(c) /\ ReturnInv(c)
    BY <2>2 DEF RegionsInv, ReturnInv
  <2> QED
    BY <2>1, <2>3 DEF Init, HonestInv, Results
<1>2. HonestInv /\ [Next]_vars => HonestInv'
  BY WaitHonest, CallHonest, AcceptHonest, AnswerHonest, DropHonest DEF Next
<1> QED
  BY <1>1, <1>2, HonestCount, PTL DEF Spec

=============================================================================
