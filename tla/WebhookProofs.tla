---------------------------- MODULE WebhookProofs ----------------------------
(***************************************************************************)
(* Theorems about WebhookDelivery for any number of deliveries, workers and   *)
(* attempts.  The argument: the count in a worker's copy was backed by posts   *)
(* when it was read, and its own post backs the increment; so no order of      *)
(* saves makes a row claim more than was done.                                *)
(***************************************************************************)
EXTENDS WebhookDelivery, TLAPS

\* The count a worker will save is backed by posts.
CopiesBacked ==
    \A w \in Workers : job[w] # Idle =>
        /\ job[w].attempts <= posts[job[w].row]
        /\ job[w].answer # "none" => job[w].attempts + 1 <= posts[job[w].row]

\* A failed row is scheduled, or its attempts are used up.
FailedCounted ==
    \A d \in Deliveries :
        status[d] = "failed" /\ retry[d] = "none" => attempts[d] >= MaxAttempts

AttemptsBacked == \A d \in Deliveries : attempts[d] <= posts[d]

NewIsUnscheduled == \A d \in Deliveries : status[d] = "absent" => retry[d] = "none"

Log ==
    /\ FailedCounted
    /\ AttemptsBacked
    /\ NewIsUnscheduled
    /\ RetryCanHappen

\* A delivery that was not queued twice is in one hand at most, its creator's, the broker's
\* or one worker's, and in none once it is delivered.
OneHand(d) ==
    /\ queued[d] <= 1
    /\ d \in publishing => queued[d] = 0 /\ status[d] # "failed"
    /\ status[d] = "absent" => d \notin publishing /\ queued[d] = 0
    /\ \A w \in Workers : Held(w, d) =>
        /\ status[d] \notin {"absent", "success"} /\ d \notin publishing /\ queued[d] = 0
        /\ \A v \in Workers : Held(v, d) => v = w

\* If no process died with it either, the row counts its posts, but for the one its worker
\* has not saved yet.
CountsExact(d) ==
    /\ posts[d] <= MaxAttempts
    /\ status[d] = "absent" => attempts[d] = 0
    /\ status[d] # "deleted" /\ (\A w \in Workers : ~Held(w, d)) => attempts[d] = posts[d]
    /\ Exists(d) /\ (d \in publishing \/ queued[d] > 0) => attempts[d] < MaxAttempts
    /\ \A w \in Workers : Held(w, d) =>
        /\ job[w].attempts < MaxAttempts
        /\ posts[d] = job[w].attempts + (IF job[w].answer = "none" THEN 0 ELSE 1)

Alone(d) == OneHand(d) /\ (d \notin lost => CountsExact(d))

AloneKept == \A d \in Deliveries : d \notin twice => Alone(d)

IInv ==
    /\ TypeOK
    /\ CopiesBacked
    /\ Log
    /\ PendingIsInHand
    /\ AloneKept

-----------------------------------------------------------------------------

LEMMA InitIInv == WebhookAssumption /\ Init => IInv
<1> SUFFICES ASSUME WebhookAssumption, Init
             PROVE  IInv
  OBVIOUS
<1>1. TypeOK
  BY DEF Init, TypeOK, WebhookAssumption
<1>2. CopiesBacked /\ Log /\ PendingIsInHand
  BY DEF Init, CopiesBacked, Log, FailedCounted, AttemptsBacked,
         NewIsUnscheduled, RetryCanHappen, PendingIsInHand, Exists
<1>3. AloneKept
  BY DEF Init, AloneKept, Alone, OneHand, CountsExact, Held, Exists, WebhookAssumption
<1>4. QED
  BY <1>1, <1>2, <1>3 DEF IInv

LEMMA JobFields ==
    ASSUME TypeOK, NEW w \in Workers, job[w] # Idle
    PROVE  /\ job[w] \in Job
           /\ job[w].row \in Deliveries
           /\ job[w].attempts \in Nat
           /\ job[w].answer \in Answers \cup {"none"}
BY DEF TypeOK, Job

LEMMA NextTypeOK ==
    ASSUME WebhookAssumption, TypeOK, [Next]_vars
    PROVE  TypeOK'
<1> USE DEF row, history
<1>1. CASE \E d \in Deliveries : CreateRow(d) \/ Publish(d) \/ PublisherDies(d)
  BY <1>1 DEF CreateRow, Publish, PublisherDies, TypeOK, WebhookAssumption
<1>2. CASE \E d \in Deliveries : MessageLost(d) \/ RetryFallsDue(d)
  BY <1>2 DEF MessageLost, RetryFallsDue, TypeOK, WebhookAssumption
<1>3. CASE \E w \in Workers, d \in Deliveries : LoadRow(w, d)
  <2>1. PICK w \in Workers, d \in Deliveries : LoadRow(w, d)
    BY <1>3
  <2>2. [row |-> d, attempts |-> attempts[d], answer |-> "none"] \in Job
    BY DEF TypeOK, Job
  <2>3. QED
    BY <2>1, <2>2 DEF LoadRow, Take, TypeOK, WebhookAssumption
<1>4. CASE \E w \in Workers : \E answer \in Answers : Post(w, answer)
  <2>1. PICK w \in Workers, answer \in Answers : Post(w, answer)
    BY <1>4
  <2>2. job[w] \in Job /\ job[w].row \in Deliveries
    BY <2>1, JobFields DEF Post
  <2>3. [job[w] EXCEPT !.answer = answer] \in Job
    BY <2>2 DEF Job
  <2>4. job' \in [Workers -> Job \cup {Idle}]
    BY <2>1, <2>3 DEF Post, TypeOK
  <2>5. posts' \in [Deliveries -> Nat]
    BY <2>1, <2>2 DEF Post, TypeOK
  <2>6. QED
    BY <2>1, <2>4, <2>5 DEF Post, TypeOK
<1>5. CASE \E w \in Workers : Save(w)
  <2>1. PICK w \in Workers : Save(w)
    BY <1>5
  <2>2. job[w].row \in Deliveries /\ job[w].attempts \in Nat
    BY <2>1, JobFields DEF Save, Posted
  <2>3. job' \in [Workers -> Job \cup {Idle}]
    BY <2>1 DEF Save, TypeOK
  <2>4. /\ status' \in [Deliveries -> {"absent", "pending", "success", "failed", "deleted"}]
        /\ attempts' \in [Deliveries -> Nat]
        /\ retry' \in [Deliveries -> {"none", "later", "due"}]
    BY <2>1, <2>2 DEF Save, Overwrite, Logged, NextRetry, TypeOK
  <2>5. QED
    BY <2>1, <2>3, <2>4 DEF Save, TypeOK
<1>6. CASE \E w \in Workers : WorkerDies(w)
  <2>1. PICK w \in Workers : WorkerDies(w)
    BY <1>6
  <2>2. job[w].row \in Deliveries
    BY <2>1, JobFields DEF WorkerDies
  <2>3. QED
    BY <2>1, <2>2 DEF WorkerDies, TypeOK, WebhookAssumption
<1>7. CASE \E batch \in SUBSET Deliveries : Beat(batch)
  BY <1>7 DEF Beat, TypeOK, WebhookAssumption
<1>8. CASE DeleteWebhook \/ UNCHANGED vars
  BY <1>8 DEF DeleteWebhook, vars, TypeOK
<1>9. QED
  BY <1>1, <1>2, <1>3, <1>4, <1>5, <1>6, <1>7, <1>8 DEF Next, Work

LEMMA NextBacked ==
    ASSUME WebhookAssumption, TypeOK, CopiesBacked, Log, [Next]_vars
    PROVE  CopiesBacked' /\ Log'
<1> USE DEF Log, FailedCounted, AttemptsBacked, NewIsUnscheduled,
            RetryCanHappen, Exists
<1> USE DEF row, history
<1>1. CASE \E d \in Deliveries : CreateRow(d)
  BY <1>1 DEF CreateRow, CopiesBacked, TypeOK
<1>2. CASE \E d \in Deliveries : Publish(d) \/ PublisherDies(d) \/ MessageLost(d)
  BY <1>2 DEF Publish, PublisherDies, MessageLost, CopiesBacked
<1>3. CASE \E d \in Deliveries : RetryFallsDue(d)
  BY <1>3 DEF RetryFallsDue, CopiesBacked, TypeOK
<1>4. CASE \E w \in Workers, d \in Deliveries : LoadRow(w, d)
  <2>1. PICK w \in Workers, d \in Deliveries : LoadRow(w, d)
    BY <1>4
  <2>2. UNCHANGED <<status, attempts, retry, posts>>
    BY <2>1 DEF LoadRow
  <2>3. /\ \A v \in Workers \ {w} : job'[v] = job[v]
        /\ \/ job'[w] = job[w]
           \/ job'[w] = [row |-> d, attempts |-> attempts[d], answer |-> "none"]
    BY <2>1 DEF LoadRow, TypeOK
  <2>4. CopiesBacked'
    BY <2>2, <2>3 DEF CopiesBacked
  <2>5. QED
    BY <2>2, <2>4
<1>5. CASE \E w \in Workers : \E answer \in Answers : Post(w, answer)
  <2>1. PICK w \in Workers, answer \in Answers : Post(w, answer)
    BY <1>5
  <2> DEFINE d == job[w].row
  <2>2. /\ job[w] # Idle /\ job[w] \in Job
        /\ d \in Deliveries /\ job[w].attempts \in Nat
    BY <2>1, JobFields DEF Post
  <2>3. /\ UNCHANGED <<status, attempts, retry>>
        /\ posts'[d] = posts[d] + 1
        /\ \A e \in Deliveries \ {d} : posts'[e] = posts[e]
        /\ \A e \in Deliveries : posts[e] \in Nat /\ attempts[e] \in Nat
    BY <2>1, <2>2 DEF Post, TypeOK
  <2>4. /\ \A v \in Workers \ {w} : job'[v] = job[v]
        /\ job'[w].row = d /\ job'[w].attempts = job[w].attempts /\ job'[w].answer = answer
    BY <2>1, <2>2 DEF Post, TypeOK, Job
  <2>5. ASSUME NEW v \in Workers, job'[v] # Idle
        PROVE  /\ job'[v].attempts <= posts'[job'[v].row]
               /\ job'[v].answer # "none" => job'[v].attempts + 1 <= posts'[job'[v].row]
    <3>1. CASE v = w
      <4>1. job[w].attempts <= posts[d]
        BY <2>2 DEF CopiesBacked
      <4>2. QED
        BY <2>2, <2>3, <2>4, <3>1, <4>1
    <3>2. CASE v # w
      <4>1. job[v] # Idle /\ job'[v] = job[v]
        BY <2>4, <2>5, <3>2
      <4>2. job[v].row \in Deliveries /\ job[v].attempts \in Nat
        BY <4>1, JobFields
      <4>3. posts[job[v].row] <= posts'[job[v].row]
        BY <2>3, <4>2
      <4>4. posts[job[v].row] \in Nat /\ posts'[job[v].row] \in Nat
        BY <2>3, <4>2
      <4>5. QED
        BY <2>3, <4>1, <4>2, <4>3, <4>4 DEF CopiesBacked
    <3>3. QED
      BY <3>1, <3>2
  <2>6. CopiesBacked'
    BY <2>5 DEF CopiesBacked
  <2>7. Log'
    BY <2>3
  <2>8. QED
    BY <2>6, <2>7
<1>6. CASE \E w \in Workers : Save(w)
  <2>1. PICK w \in Workers : Save(w)
    BY <1>6
  <2> DEFINE d == job[w].row
             tried == job[w].attempts + 1
             answer == job[w].answer
  <2>2. /\ d \in Deliveries /\ job[w].attempts \in Nat
        /\ tried <= posts[d]
    BY <2>1, JobFields DEF Save, Posted, CopiesBacked
  <2>3. UNCHANGED posts /\ job' = [job EXCEPT ![w] = Idle]
    BY <2>1 DEF Save
  <2>4. CopiesBacked'
    BY <2>3 DEF CopiesBacked, TypeOK
  <2>5. CASE ~Exists(d)
    BY <2>1, <2>3, <2>4, <2>5 DEF Save
  <2>6. CASE Exists(d)
    <3>1. /\ status' = [status EXCEPT ![d] = Logged(answer)]
          /\ attempts' = [attempts EXCEPT ![d] = tried]
          /\ retry' = [retry EXCEPT ![d] = NextRetry(answer, tried)]
      BY <2>1, <2>6 DEF Save, Overwrite
    <3>2. /\ status'[d] = Logged(answer) /\ attempts'[d] = tried
          /\ retry'[d] = NextRetry(answer, tried)
          /\ \A e \in Deliveries \ {d} :
                status'[e] = status[e] /\ attempts'[e] = attempts[e] /\ retry'[e] = retry[e]
      BY <2>2, <3>1 DEF TypeOK
    <3>3. /\ Logged(answer) \in {"success", "failed"}
          /\ Logged(answer) = "failed" /\ NextRetry(answer, tried) = "none" => tried >= MaxAttempts
          /\ NextRetry(answer, tried) # "none" => Logged(answer) = "failed" /\ tried < MaxAttempts
      BY <2>2 DEF Logged, NextRetry, WebhookAssumption
    <3> HIDE DEF d, tried, answer
    <3>4. Log'
      BY <2>2, <2>3, <3>2, <3>3
    <3>5. QED
      BY <2>4, <3>4
  <2>7. QED
    BY <2>4, <2>5, <2>6
<1>7. CASE \E w \in Workers : WorkerDies(w)
  BY <1>7 DEF WorkerDies, CopiesBacked, TypeOK
<1>8. CASE \E batch \in SUBSET Deliveries : Beat(batch)
  BY <1>8 DEF Beat, CopiesBacked
<1>9. CASE DeleteWebhook
  BY <1>9 DEF DeleteWebhook, CopiesBacked, TypeOK
<1>10. CASE UNCHANGED vars
  BY <1>10 DEF vars, CopiesBacked
<1>11. QED
  BY <1>1, <1>2, <1>3, <1>4, <1>5, <1>6, <1>7, <1>8, <1>9, <1>10 DEF Next, Work

LEMMA NextInHand ==
    ASSUME WebhookAssumption, TypeOK, PendingIsInHand, [Next]_vars
    PROVE  PendingIsInHand'
<1> USE DEF row, history, PendingIsInHand, Held
<1>1. CASE \E d \in Deliveries : CreateRow(d) \/ Publish(d) \/ PublisherDies(d)
  BY <1>1 DEF CreateRow, Publish, PublisherDies, TypeOK
<1>2. CASE \E d \in Deliveries : MessageLost(d) \/ RetryFallsDue(d)
  BY <1>2 DEF MessageLost, RetryFallsDue, TypeOK
<1>3. CASE \E w \in Workers, d \in Deliveries : LoadRow(w, d)
  <2>1. PICK w \in Workers, d \in Deliveries : LoadRow(w, d)
    BY <1>3
  <2>2. /\ UNCHANGED <<status, publishing, lost>>
        /\ \A e \in Deliveries \ {d} : queued'[e] = queued[e]
        /\ \A v \in Workers \ {w} : job'[v] = job[v]
        /\ job[w] = Idle
    BY <2>1 DEF LoadRow, Take, TypeOK
  <2>3. status[d] = "pending" => job'[w] # Idle /\ job'[w].row = d
    <3>1. [row |-> d, attempts |-> attempts[d], answer |-> "none"] \in Job
      BY DEF TypeOK, Job
    <3>2. QED
      BY <2>1, <3>1 DEF LoadRow, Exists, TypeOK, WebhookAssumption
  <2>4. QED
    BY <2>2, <2>3
<1>4. CASE \E w \in Workers : \E answer \in Answers : Post(w, answer)
  <2>1. PICK w \in Workers, answer \in Answers : Post(w, answer)
    BY <1>4
  <2>2. job[w] \in Job /\ [job[w] EXCEPT !.answer = answer] \in Job
    BY <2>1, JobFields DEF Post, Job
  <2>3. job'[w] # Idle /\ job'[w].row = job[w].row
    BY <2>1, <2>2 DEF Post, TypeOK, WebhookAssumption, Job
  <2>4. QED
    BY <2>1, <2>3 DEF Post, TypeOK
<1>5. CASE \E w \in Workers : Save(w)
  <2>1. PICK w \in Workers : Save(w)
    BY <1>5
  <2>2. job[w].row \in Deliveries
    BY <2>1, JobFields DEF Save, Posted
  <2>3. /\ UNCHANGED <<queued, publishing, lost>>
        /\ \A v \in Workers \ {w} : job'[v] = job[v]
        /\ status'[job[w].row] # "pending"
        /\ \A d \in Deliveries \ {job[w].row} : status'[d] = status[d]
    BY <2>1, <2>2 DEF Save, Overwrite, Logged, Exists, TypeOK
  <2>4. QED
    BY <2>3
<1>6. CASE \E w \in Workers : WorkerDies(w)
  BY <1>6 DEF WorkerDies, TypeOK
<1>7. CASE \E batch \in SUBSET Deliveries : Beat(batch)
  BY <1>7 DEF Beat, TypeOK
<1>8. CASE DeleteWebhook \/ UNCHANGED vars
  BY <1>8 DEF DeleteWebhook, vars, TypeOK, Exists
<1>9. QED
  BY <1>1, <1>2, <1>3, <1>4, <1>5, <1>6, <1>7, <1>8 DEF Next, Work

\* A step that does not touch a delivery, its messages or the worker that holds it.
LEMMA UntouchedStaysAlone ==
    ASSUME NEW d \in Deliveries, OneHand(d),
           status'[d] = status[d], attempts'[d] = attempts[d], posts'[d] = posts[d],
           queued'[d] = queued[d], d \in publishing' <=> d \in publishing,
           \A w \in Workers : Held(w, d)' => Held(w, d),
           \A w \in Workers : Held(w, d) => job'[w] = job[w]
    PROVE  OneHand(d)' /\ (CountsExact(d) => CountsExact(d)')
<1>1. \A w \in Workers : Held(w, d) => Held(w, d)'
  BY DEF Held
<1>2. OneHand(d)'
  BY DEF OneHand
<1>3. CountsExact(d) => CountsExact(d)'
  BY <1>1 DEF CountsExact, Exists
<1>4. QED
  BY <1>2, <1>3

\* A message is taken: its delivery passes from the broker to the worker, the count with it.
LEMMA LoadRowAlone ==
    ASSUME WebhookAssumption, TypeOK, NEW d \in Deliveries, OneHand(d),
           NEW w \in Workers, LoadRow(w, d)
    PROVE  OneHand(d)' /\ (CountsExact(d) => CountsExact(d)')
<1>1. /\ UNCHANGED <<status, attempts, posts, publishing>>
      /\ job[w] = Idle
      /\ queued[d] > 0 /\ queued'[d] = queued[d] - 1 /\ queued[d] \in Nat
      /\ \A v \in Workers \ {w} : job'[v] = job[v]
      /\ attempts[d] \in Nat /\ posts[d] \in Nat /\ MaxAttempts \in Nat
  BY DEF LoadRow, Take, TypeOK, history, row, WebhookAssumption
<1>2. queued'[d] = 0 /\ d \notin publishing
  BY <1>1 DEF OneHand
<1>3. status[d] # "absent" /\ \A v \in Workers : ~Held(v, d)
  BY <1>1 DEF OneHand
<1>4. \A v \in Workers \ {w} : ~Held(v, d)'
  BY <1>1, <1>3 DEF Held
<1>5. CASE Exists(d) /\ status[d] # "success"
  <2> DEFINE copy == [row |-> d, attempts |-> attempts[d], answer |-> "none"]
  <2>1. job'[w] = copy
    BY <1>5 DEF LoadRow, TypeOK
  <2>2. CountsExact(d) => attempts[d] < MaxAttempts /\ posts[d] = attempts[d]
    BY <1>1, <1>3, <1>5 DEF CountsExact, Exists
  <2>3. job'[w].attempts = attempts[d] /\ job'[w].answer = "none"
    BY <2>1
  <2>4. OneHand(d)'
    BY <1>1, <1>2, <1>3, <1>4, <1>5 DEF OneHand
  <2>5. copy \in Job
    BY DEF Job, TypeOK
  <2>6. Held(w, d)'
    BY <2>1, <2>5 DEF Held, WebhookAssumption
  <2>7. CountsExact(d) => CountsExact(d)'
    BY <1>1, <1>2, <1>3, <1>4, <2>2, <2>3, <2>6 DEF CountsExact, Exists
  <2>8. QED
    BY <2>4, <2>7
<1>6. CASE ~(Exists(d) /\ status[d] # "success")
  <2>1. ~Held(w, d)'
    BY <1>1, <1>6 DEF LoadRow, Held
  <2>2. OneHand(d)'
    BY <1>1, <1>2, <1>3, <1>4, <2>1 DEF OneHand
  <2>3. CountsExact(d) => CountsExact(d)'
    BY <1>1, <1>2, <1>3, <1>4, <2>1 DEF CountsExact, Exists
  <2>4. QED
    BY <2>2, <2>3
<1>7. QED
  BY <1>5, <1>6

\* The only holder posts: one post more than its copy counts, and no more than the limit.
LEMMA PostAlone ==
    ASSUME WebhookAssumption, TypeOK, NEW w \in Workers, NEW answer \in Answers, Post(w, answer),
           NEW d \in Deliveries, d = job[w].row, OneHand(d)
    PROVE  OneHand(d)' /\ (CountsExact(d) => CountsExact(d)')
<1>1. /\ job[w] # Idle /\ job[w] \in Job /\ job[w].attempts \in Nat
      /\ Held(w, d) /\ job[w].answer = "none"
  BY JobFields DEF Post, Held
<1>2. /\ UNCHANGED <<status, attempts, queued, publishing>>
      /\ posts'[d] = posts[d] + 1 /\ posts[d] \in Nat /\ MaxAttempts \in Nat
      /\ \A v \in Workers \ {w} : job'[v] = job[v]
  BY DEF Post, TypeOK, row, WebhookAssumption
<1>3. /\ job'[w].row = d /\ job'[w].attempts = job[w].attempts
      /\ job'[w].answer = answer /\ answer # "none"
  BY <1>1 DEF Post, TypeOK, Job, Answers
<1>4. CountsExact(d) => posts[d] = job[w].attempts /\ job[w].attempts < MaxAttempts
  BY <1>1, <1>2 DEF CountsExact
<1>5. \A v \in Workers \ {w} : ~Held(v, d) /\ ~Held(v, d)'
  BY <1>1, <1>2 DEF OneHand, Held
<1>6. OneHand(d)'
  BY <1>1, <1>2, <1>5 DEF OneHand
<1>7. Held(w, d)'
  <2>1. [job[w] EXCEPT !.answer = answer] \in Job
    BY <1>1 DEF Job
  <2>2. job'[w] # Idle
    BY <1>1, <2>1 DEF Post, TypeOK, WebhookAssumption
  <2>3. QED
    BY <1>3, <2>2 DEF Held
<1>8. d \notin publishing /\ queued[d] = 0 /\ status[d] # "absent"
  BY <1>1 DEF OneHand
<1>9. CountsExact(d) => posts'[d] <= MaxAttempts /\ posts'[d] = job'[w].attempts + 1
  BY <1>1, <1>2, <1>3, <1>4
<1>10. CountsExact(d) => CountsExact(d)'
  BY <1>1, <1>2, <1>3, <1>4, <1>5, <1>7, <1>8, <1>9 DEF CountsExact, Exists
<1>11. QED
  BY <1>6, <1>10

\* The only holder saves: the count of its copy and its own post are all posts there were.
LEMMA SaveAlone ==
    ASSUME WebhookAssumption, TypeOK, NEW w \in Workers, Save(w),
           NEW d \in Deliveries, d = job[w].row, OneHand(d)
    PROVE  OneHand(d)' /\ (CountsExact(d) => CountsExact(d)')
<1>1. /\ job[w] # Idle /\ job[w].attempts \in Nat /\ Held(w, d) /\ job[w].answer # "none"
  BY JobFields DEF Save, Posted, Held
<1>2. /\ UNCHANGED <<queued, publishing, posts>>
      /\ job'[w] = Idle /\ \A v \in Workers \ {w} : job'[v] = job[v]
  BY DEF Save, TypeOK, history
<1>3. d \notin publishing /\ queued[d] = 0 /\ status[d] # "absent"
  BY <1>1 DEF OneHand
<1>4. \A v \in Workers : ~Held(v, d)'
  BY <1>1, <1>2 DEF OneHand, Held
<1>5. /\ status'[d] # "absent"
      /\ status'[d] # "deleted" => attempts'[d] = job[w].attempts + 1
  BY <1>3 DEF Save, Overwrite, Logged, Exists, TypeOK, row
<1>6. CountsExact(d) => posts[d] = job[w].attempts + 1
  BY <1>1 DEF CountsExact
<1>7. OneHand(d)'
  BY <1>2, <1>3, <1>4, <1>5 DEF OneHand
<1>8. CountsExact(d) => posts[d] <= MaxAttempts
  BY DEF CountsExact
<1>9. CountsExact(d) => CountsExact(d)'
  BY <1>2, <1>3, <1>4, <1>5, <1>6, <1>8 DEF CountsExact, Exists
<1>10. QED
  BY <1>7, <1>9

LEMMA AloneFromParts ==
    ASSUME NEW d, Alone(d), OneHand(d)', CountsExact(d) => CountsExact(d)', lost \subseteq lost'
    PROVE  Alone(d)'
BY DEF Alone

LEMMA NextAlone ==
    ASSUME WebhookAssumption, TypeOK, AloneKept, [Next]_vars
    PROVE  AloneKept'
<1> SUFFICES ASSUME NEW d \in Deliveries, d \notin twice'
             PROVE  Alone(d)'
  BY DEF AloneKept
<1> USE DEF row, history
<1>1. CASE \E e \in Deliveries : CreateRow(e) \/ Publish(e) \/ RetryFallsDue(e)
  <2>1. PICK e \in Deliveries : CreateRow(e) \/ Publish(e) \/ RetryFallsDue(e)
    BY <1>1
  <2>2. /\ UNCHANGED <<attempts, posts, job, lost, twice>>
        /\ e # d => /\ status'[d] = status[d] /\ queued'[d] = queued[d]
                    /\ d \in publishing' <=> d \in publishing
    BY <2>1 DEF CreateRow, Publish, RetryFallsDue, TypeOK
  <2>3. Alone(d) /\ OneHand(d) /\ lost \subseteq lost'
    BY <2>2 DEF AloneKept, Alone
  <2>4. CASE e # d
    BY <2>2, <2>3, <2>4, UntouchedStaysAlone, AloneFromParts DEF Held
  <2>5. CASE e = d /\ CreateRow(d)
    <3>1. /\ status[d] = "absent" /\ status'[d] = "pending"
          /\ queued' = queued /\ d \in publishing'
      BY <2>5 DEF CreateRow, TypeOK
    <3>2. queued[d] = 0 /\ \A w \in Workers : ~Held(w, d)
      BY <2>3, <3>1 DEF OneHand
    <3>3. \A w \in Workers : ~Held(w, d)'
      BY <2>2, <3>2 DEF Held
    <3>4. CountsExact(d) => attempts[d] = 0 /\ posts[d] = 0
      BY <3>1, <3>2 DEF CountsExact
    <3>5. OneHand(d)'
      BY <3>1, <3>2, <3>3 DEF OneHand
    <3>6. CountsExact(d) => CountsExact(d)'
      BY <2>2, <3>1, <3>3, <3>4, WebhookAssumption DEF CountsExact, Exists, WebhookAssumption
    <3>7. QED
      BY <2>3, <3>5, <3>6, AloneFromParts
  <2>6. CASE e = d /\ Publish(d)
    <3>1. /\ status' = status /\ d \in publishing /\ d \notin publishing'
          /\ queued[d] = 0 /\ queued'[d] = 1
      BY <2>3, <2>6 DEF Publish, TypeOK, OneHand
    <3>2. status[d] # "absent" /\ \A w \in Workers : ~Held(w, d) /\ ~Held(w, d)'
      BY <2>2, <2>3, <3>1 DEF OneHand, Held
    <3>3. OneHand(d)'
      BY <3>1, <3>2 DEF OneHand
    <3>4. CountsExact(d) => CountsExact(d)'
      BY <2>2, <3>1, <3>2 DEF CountsExact, Exists
    <3>5. QED
      BY <2>3, <3>3, <3>4, AloneFromParts
  <2>7. CASE e = d /\ RetryFallsDue(d)
    BY <2>2, <2>3, <2>7, UntouchedStaysAlone, AloneFromParts DEF RetryFallsDue, Held
  <2>8. QED
    BY <2>1, <2>4, <2>5, <2>6, <2>7
<1>2. CASE \E e \in Deliveries : PublisherDies(e) \/ MessageLost(e)
  <2>1. PICK e \in Deliveries : PublisherDies(e) \/ MessageLost(e)
    BY <1>2
  <2>2. /\ UNCHANGED <<status, attempts, posts, job, twice>>
        /\ lost' = lost \cup {e}
        /\ e # d => queued'[d] = queued[d] /\ (d \in publishing' <=> d \in publishing)
    BY <2>1 DEF PublisherDies, MessageLost, TypeOK
  <2>3. Alone(d) /\ OneHand(d)
    BY <2>2 DEF AloneKept, Alone
  <2>4. CASE e # d
    BY <2>2, <2>3, <2>4, UntouchedStaysAlone, AloneFromParts DEF Held
  <2>5. CASE e = d
    <3>1. /\ d \in publishing' => d \in publishing
          /\ queued[d] = 0 => queued'[d] = 0
          /\ queued[d] <= 1 => queued'[d] <= 1
      BY <2>1, <2>5 DEF PublisherDies, MessageLost, TypeOK
    <3>2. \A w \in Workers : Held(w, d)' <=> Held(w, d)
      BY <2>2 DEF Held
    <3>3. OneHand(d)'
      BY <2>2, <2>3, <3>1, <3>2 DEF OneHand
    <3>4. QED
      BY <2>2, <2>5, <3>3 DEF Alone
  <2>6. QED
    BY <2>4, <2>5
<1>3. CASE \E w \in Workers, e \in Deliveries : LoadRow(w, e)
  <2>1. PICK w \in Workers, e \in Deliveries : LoadRow(w, e)
    BY <1>3
  <2>2. /\ UNCHANGED <<status, attempts, posts, publishing, lost, twice>>
        /\ e # d => queued'[d] = queued[d]
        /\ \A v \in Workers \ {w} : job'[v] = job[v]
        /\ job[w] = Idle
    BY <2>1 DEF LoadRow, Take, TypeOK
  <2>3. Alone(d) /\ OneHand(d) /\ lost \subseteq lost'
    BY <2>2 DEF AloneKept, Alone
  <2>4. CASE e = d
    BY <2>1, <2>3, <2>4, LoadRowAlone, AloneFromParts
  <2>5. CASE e # d
    <3>1. ~Held(w, d)'
      BY <2>1, <2>2, <2>5 DEF LoadRow, Held, TypeOK
    <3>2. \A v \in Workers : (Held(v, d)' => Held(v, d)) /\ (Held(v, d) => job'[v] = job[v])
      BY <2>2, <3>1 DEF Held
    <3>3. QED
      BY <2>2, <2>3, <2>5, <3>2, UntouchedStaysAlone, AloneFromParts
  <2>6. QED
    BY <2>4, <2>5
<1>4. CASE \E w \in Workers : \E answer \in Answers : Post(w, answer)
  <2>1. PICK w \in Workers, answer \in Answers : Post(w, answer)
    BY <1>4
  <2>2. /\ UNCHANGED <<status, attempts, queued, publishing, lost, twice>>
        /\ \A v \in Workers \ {w} : job'[v] = job[v]
        /\ job[w] # Idle
    BY <2>1 DEF Post, TypeOK
  <2>3. Alone(d) /\ OneHand(d) /\ lost \subseteq lost'
    BY <2>2 DEF AloneKept, Alone
  <2>4. CASE d = job[w].row
    BY <2>1, <2>3, <2>4, PostAlone, AloneFromParts
  <2>5. CASE d # job[w].row
    <3>1. job[w] \in Job /\ job[w].row \in Deliveries
      BY <2>1, JobFields DEF Post
    <3>2. posts'[d] = posts[d] /\ job'[w].row = job[w].row
      BY <2>1, <2>5, <3>1 DEF Post, TypeOK, Job
    <3>3. \A v \in Workers : (Held(v, d)' => Held(v, d)) /\ (Held(v, d) => job'[v] = job[v])
      BY <2>2, <2>5, <3>2 DEF Held
    <3>4. QED
      BY <2>2, <2>3, <3>2, <3>3, UntouchedStaysAlone, AloneFromParts
  <2>6. QED
    BY <2>4, <2>5
<1>5. CASE \E w \in Workers : Save(w) \/ WorkerDies(w)
  <2>1. PICK w \in Workers : Save(w) \/ WorkerDies(w)
    BY <1>5
  <2>2. /\ UNCHANGED <<queued, publishing, posts, twice>>
        /\ job[w] # Idle /\ job'[w] = Idle /\ \A v \in Workers \ {w} : job'[v] = job[v]
        /\ lost \subseteq lost'
    BY <2>1 DEF Save, Posted, WorkerDies, TypeOK
  <2>3. Alone(d) /\ OneHand(d)
    BY <2>2 DEF AloneKept, Alone
  <2>4. job[w].row \in Deliveries
    BY <2>2, JobFields
  <2>5. CASE d = job[w].row /\ Save(w)
    BY <2>2, <2>3, <2>5, SaveAlone, AloneFromParts
  <2>6. CASE d = job[w].row /\ WorkerDies(w)
    <3>1. d \in lost' /\ status' = status
      BY <2>6 DEF WorkerDies
    <3>2. \A v \in Workers : Held(v, d)' => Held(v, d)
      BY <2>2 DEF Held
    <3>3. OneHand(d)'
      BY <2>2, <2>3, <3>1, <3>2 DEF OneHand
    <3>4. QED
      BY <3>1, <3>3 DEF Alone
  <2>7. CASE d # job[w].row
    <3>1. status'[d] = status[d] /\ attempts'[d] = attempts[d]
      BY <2>1, <2>4, <2>7 DEF Save, WorkerDies, Overwrite, TypeOK
    <3>2. \A v \in Workers : (Held(v, d)' => Held(v, d)) /\ (Held(v, d) => job'[v] = job[v])
      BY <2>2, <2>7 DEF Held
    <3>3. QED
      BY <2>2, <2>3, <3>1, <3>2, UntouchedStaysAlone, AloneFromParts
  <2>8. QED
    BY <2>1, <2>5, <2>6, <2>7
<1>6. CASE \E batch \in SUBSET Deliveries : Beat(batch)
  <2>1. PICK batch \in SUBSET Deliveries : Beat(batch)
    BY <1>6
  <2>2. /\ UNCHANGED <<status, attempts, posts, publishing, job, lost>>
        /\ d \notin twice /\ lost \subseteq lost'
        /\ d \in batch => queued[d] = 0 /\ \A w \in Workers : ~Held(w, d)
        /\ queued'[d] = IF d \in batch THEN queued[d] + 1 ELSE queued[d]
    BY <2>1 DEF Beat, TypeOK
  <2>3. Alone(d) /\ OneHand(d)
    BY <2>2 DEF AloneKept, Alone
  <2>4. CASE d \notin batch
    BY <2>2, <2>3, <2>4, UntouchedStaysAlone, AloneFromParts DEF Held
  <2>5. CASE d \in batch
    <3>1. status[d] = "failed" /\ attempts[d] < MaxAttempts
      BY <2>1, <2>5 DEF Beat, Due
    <3>2. d \notin publishing /\ queued'[d] = 1 /\ \A w \in Workers : ~Held(w, d)'
      BY <2>2, <2>3, <2>5, <3>1 DEF OneHand, Held
    <3>3. OneHand(d)'
      BY <2>2, <3>1, <3>2 DEF OneHand
    <3>4. CountsExact(d) => CountsExact(d)'
      BY <2>2, <2>5, <3>1, <3>2 DEF CountsExact, Exists
    <3>5. QED
      BY <2>2, <2>3, <3>3, <3>4, AloneFromParts
  <2>6. QED
    BY <2>4, <2>5
<1>7. CASE DeleteWebhook
  <2>1. /\ UNCHANGED <<attempts, queued, publishing, job, posts, lost, twice>>
        /\ status'[d] = IF Exists(d) THEN "deleted" ELSE status[d]
    BY <1>7 DEF DeleteWebhook, TypeOK
  <2>2. Alone(d) /\ OneHand(d) /\ lost \subseteq lost'
    BY <2>1 DEF AloneKept, Alone
  <2>3. \A w \in Workers : Held(w, d)' <=> Held(w, d)
    BY <2>1 DEF Held
  <2>4. OneHand(d)'
    BY <2>1, <2>2, <2>3 DEF OneHand, Exists
  <2>5. CountsExact(d) => CountsExact(d)'
    BY <2>1, <2>3 DEF CountsExact, Exists
  <2>6. QED
    BY <2>2, <2>4, <2>5, AloneFromParts
<1>8. CASE UNCHANGED vars
  <2>1. Alone(d) /\ OneHand(d) /\ lost \subseteq lost'
    BY <1>8 DEF AloneKept, Alone, vars
  <2>2. QED
    BY <1>8, <2>1, UntouchedStaysAlone, AloneFromParts DEF vars, Held
<1>9. QED
  BY <1>1, <1>2, <1>3, <1>4, <1>5, <1>6, <1>7, <1>8 DEF Next, Work

LEMMA Invariance == Spec => []IInv
<1>1. Init => IInv
  BY InitIInv, WebhookAssumption
<1>2. IInv /\ [Next]_vars => IInv'
  BY NextTypeOK, NextBacked, NextInHand, NextAlone, WebhookAssumption DEF IInv
<1>3. QED
  BY <1>1, <1>2, PTL DEF Spec

-----------------------------------------------------------------------------
(* The theorems                                                             *)

\* Rows, messages and workers' copies keep their types.
THEOREM TypeCorrect == Spec => []TypeOK
<1>1. IInv => TypeOK
  BY DEF IInv
<1>2. QED
  BY <1>1, Invariance, PTL

\* A delivery that beat never queued twice keeps its success, or is deleted with its
\* webhook: nobody holds a copy of it any more when post_delivery logs the success.
THEOREM SuccessStaysAlone == Spec => SuccessIsFinalAlone
<1> DEFINE Kept ==
      \A d \in Deliveries :
        status[d] = "success" /\ status'[d] # "success" => status'[d] = "deleted" \/ d \in twice
<1>1. IInv /\ [Next]_vars => [Kept]_vars
  <2> SUFFICES ASSUME IInv, [Next]_vars, NEW d \in Deliveries,
                      status[d] = "success", status'[d] # "success", status'[d] # "deleted"
               PROVE  d \in twice
    OBVIOUS
  <2>1. TypeOK /\ (d \notin twice => OneHand(d))
    BY DEF IInv, AloneKept, Alone
  <2>2. PICK w \in Workers : Save(w)
    BY <2>1 DEF Next, Work, CreateRow, Publish, PublisherDies, MessageLost, RetryFallsDue,
                LoadRow, Post, WorkerDies, Beat, DeleteWebhook, Exists, vars, row, TypeOK
  <2>3. job[w].row = d /\ job[w] # Idle
    BY <2>1, <2>2, JobFields DEF Save, Posted, Overwrite, row, TypeOK
  <2>4. QED
    BY <2>1, <2>3 DEF OneHand, Held
<1>2. QED
  BY <1>1, Invariance, PTL DEF Spec, SuccessIsFinalAlone

\* Saves that overwrite each other never make _schedule_retry give up early: an
\* abandoned event was posted at least MaxAttempts times.
THEOREM NoEarlyGivingUp == Spec => []GivenUpWasTried
<1>1. IInv => GivenUpWasTried
  <2> SUFFICES ASSUME IInv, NEW d \in Deliveries
               PROVE  /\ attempts[d] <= posts[d]
                      /\ status[d] = "failed" /\ retry[d] = "none" => posts[d] >= MaxAttempts
    BY DEF GivenUpWasTried
  <2>1. attempts[d] \in Nat /\ posts[d] \in Nat /\ MaxAttempts \in Nat
    BY WebhookAssumption DEF IInv, TypeOK, WebhookAssumption
  <2>2. QED
    BY <2>1 DEF IInv, Log, AttemptsBacked, FailedCounted
<1>2. QED
  BY <1>1, Invariance, PTL

\* Every retry that is scheduled is one retry_pending_webhooks will find.
THEOREM RetriesAreFound == Spec => []RetryCanHappen
<1>1. IInv => RetryCanHappen
  BY DEF IInv, Log
<1>2. QED
  BY <1>1, Invariance, PTL

\* A pending delivery is only forgotten when a process died with it.
THEOREM PendingIsNotForgotten == Spec => []PendingIsInHand
<1>1. IInv => PendingIsInHand
  BY DEF IInv
<1>2. QED
  BY <1>1, Invariance, PTL

\* An event is posted at most MAX_ATTEMPTS times and its row says how often, unless a
\* process died with its message or retry_pending_webhooks queued it a second time before
\* the last try was saved: nothing else in deliver_webhook_delivery makes the log wrong.
THEOREM AttemptsAreExactAlone == Spec => []AttemptsExactAlone
<1>1. IInv => AttemptsExactAlone
  BY DEF IInv, AloneKept, Alone, CountsExact, AttemptsExactAlone, Exists
<1>2. QED
  BY <1>1, Invariance, PTL
=============================================================================
