-------------------------- MODULE WebhookDelivery --------------------------
(***************************************************************************)
(* Delivery of the events of one webhook (organizations/webhooks.py and        *)
(* organizations/tasks.py).  When a certificate's transaction has committed,   *)
(* a WebhookDelivery row is created and a Celery message queued for it; a      *)
(* Celery worker loads the row, posts the event without any lock and saves     *)
(* the outcome; the beat process queues failed rows again when their retry     *)
(* is due.  Messages are acknowledged when a worker takes them, so a worker    *)
(* that dies loses its message.                                               *)
(***************************************************************************)
EXTENDS Naturals, FiniteSets

CONSTANTS
    Deliveries,     \* the WebhookDelivery rows that may be created
    Workers,        \* Celery worker processes
    MaxAttempts,    \* MAX_ATTEMPTS, 5 in the code
    MaxQueued,      \* bound: queued messages of one delivery
    MaxCrashes,     \* bound: processes that die
    Idle

\* "ok": the last response was a 2xx.  urlopen follows a redirect of the POST as a GET
\* without a body, so this may be the page it led to and says nothing of receipt.
\* "error": another status.  "timeout": no answer in time, whether or not it arrived.
Answers == {"ok", "error", "timeout"}

\* What a worker holds: its copy of the row, and the answer once it has posted.
Job == [row : Deliveries, attempts : Nat, answer : Answers \cup {"none"}]

ASSUME WebhookAssumption ==
    /\ MaxAttempts \in Nat \ {0}
    /\ MaxQueued \in Nat \ {0}
    /\ MaxCrashes \in Nat
    /\ Idle \notin Job

VARIABLES
    status,         \* WebhookDelivery.status, or "absent", "deleted"
    attempts,       \* WebhookDelivery.attempt_count
    retry,          \* next_retry_at: "none", "later" or "due"
    queued,         \* messages in the broker
    publishing,     \* rows whose creator has not queued the message yet
    job,            \* what each worker holds, or Idle
    crashes,
    \* history
    posts,          \* requests sent to the endpoint
    lost,           \* deliveries whose message was lost with a process
    twice           \* deliveries that were queued again before they were saved

row     == <<status, attempts, retry>>
history == <<posts, lost, twice>>
vars    == <<status, attempts, retry, queued, publishing, job, crashes, posts, lost, twice>>

TypeOK ==
    /\ status \in [Deliveries -> {"absent", "pending", "success", "failed", "deleted"}]
    /\ attempts \in [Deliveries -> Nat]
    /\ retry \in [Deliveries -> {"none", "later", "due"}]
    /\ queued \in [Deliveries -> 0..MaxQueued]
    /\ publishing \subseteq Deliveries
    /\ job \in [Workers -> Job \cup {Idle}]
    /\ crashes \in 0..MaxCrashes
    /\ posts \in [Deliveries -> Nat]
    /\ lost \subseteq Deliveries
    /\ twice \subseteq Deliveries

Init ==
    /\ status = [d \in Deliveries |-> "absent"]
    /\ attempts = [d \in Deliveries |-> 0]
    /\ retry = [d \in Deliveries |-> "none"]
    /\ queued = [d \in Deliveries |-> 0]
    /\ publishing = {}
    /\ job = [w \in Workers |-> Idle]
    /\ crashes = 0
    /\ posts = [d \in Deliveries |-> 0]
    /\ lost = {}
    /\ twice = {}

Exists(d) == status[d] \in {"pending", "success", "failed"}

-----------------------------------------------------------------------------
(* enqueue_event, after the commit of the certificate's transaction          *)

\* A webhook that was deleted gets no more rows.
CreateRow(d) ==
    /\ status[d] = "absent"
    /\ \A e \in Deliveries : status[e] # "deleted"
    /\ status' = [status EXCEPT ![d] = "pending"]
    /\ publishing' = publishing \cup {d}
    /\ UNCHANGED <<attempts, retry, queued, job, crashes, history>>

Publish(d) ==
    /\ d \in publishing
    /\ queued[d] < MaxQueued
    /\ queued' = [queued EXCEPT ![d] = @ + 1]
    /\ publishing' = publishing \ {d}
    /\ UNCHANGED <<row, job, crashes, history>>

\* The process dies, or the broker refuses the message.
PublisherDies(d) ==
    /\ d \in publishing
    /\ crashes < MaxCrashes
    /\ crashes' = crashes + 1
    /\ publishing' = publishing \ {d}
    /\ lost' = lost \cup {d}
    /\ UNCHANGED <<row, queued, job, posts, twice>>

-----------------------------------------------------------------------------
(* deliver_webhook_delivery and post_delivery                               *)

Take(w, d) ==
    /\ job[w] = Idle
    /\ queued[d] > 0
    /\ queued' = [queued EXCEPT ![d] = @ - 1]

\* Mutant: only rows that failed are delivered.
LoadRowFailedOnly(w, d) ==
    /\ Take(w, d)
    /\ job' = IF status[d] = "failed"
                THEN [job EXCEPT ![w] = [row |-> d, attempts |-> attempts[d], answer |-> "none"]]
                ELSE job
    /\ UNCHANGED <<row, publishing, crashes, history>>

\* The row is read once; a row that is gone or delivered ends the task.
LoadRow(w, d) ==
    /\ Take(w, d)
    /\ job' = IF Exists(d) /\ status[d] # "success"
                THEN [job EXCEPT ![w] = [row |-> d, attempts |-> attempts[d], answer |-> "none"]]
                ELSE job
    /\ UNCHANGED <<row, publishing, crashes, history>>

Post(w, answer) ==
    /\ job[w] # Idle
    /\ job[w].answer = "none"
    /\ job' = [job EXCEPT ![w].answer = answer]
    /\ posts' = [posts EXCEPT ![job[w].row] = @ + 1]
    /\ UNCHANGED <<row, queued, publishing, crashes, lost, twice>>

Posted(w) == job[w] # Idle /\ job[w].answer # "none"

Held(w, d) == job[w] # Idle /\ job[w].row = d

Logged(answer) == IF answer = "ok" THEN "success" ELSE "failed"

\* Mutant: the attempt after the first MaxAttempts - 1 is never made.
NextRetryOneEarly(answer, tried) ==
    IF answer = "ok" \/ tried + 1 >= MaxAttempts THEN "none" ELSE "later"

\* Mutant: the last attempt is compared with > instead of >=.
NextRetryOneLate(answer, tried) ==
    IF answer = "ok" \/ tried > MaxAttempts THEN "none" ELSE "later"

\* _schedule_retry: when the attempts are used up the delivery is given up.
NextRetry(answer, tried) ==
    IF answer = "ok" \/ tried >= MaxAttempts THEN "none" ELSE "later"

\* Mutant: an attempt whose answer was lost is not counted.
OverwriteUncounted(d, answer, tried) ==
    /\ status' = [status EXCEPT ![d] = Logged(answer)]
    /\ attempts' = [attempts EXCEPT ![d] = IF answer = "timeout" THEN tried - 1 ELSE tried]
    /\ retry' = [retry EXCEPT ![d] = NextRetry(answer, tried)]

\* The outcome and the count of the copy replace what the row says.
Overwrite(d, answer, tried) ==
    /\ status' = [status EXCEPT ![d] = Logged(answer)]
    /\ attempts' = [attempts EXCEPT ![d] = tried]
    /\ retry' = [retry EXCEPT ![d] = NextRetry(answer, tried)]

\* What other workers saved meanwhile is lost; an UPDATE of a row that is gone
\* raises an error and leaves it gone.
Save(w) ==
    LET d == job[w].row
    IN  /\ Posted(w)
        /\ IF Exists(d) THEN Overwrite(d, job[w].answer, job[w].attempts + 1) ELSE UNCHANGED row
        /\ job' = [job EXCEPT ![w] = Idle]
        /\ UNCHANGED <<queued, publishing, crashes, history>>

\* The process dies, or reading the answer raises what post_delivery does not
\* catch: nothing is saved.
WorkerDies(w) ==
    /\ job[w] # Idle
    /\ crashes < MaxCrashes
    /\ crashes' = crashes + 1
    /\ lost' = lost \cup {job[w].row}
    /\ job' = [job EXCEPT ![w] = Idle]
    /\ UNCHANGED <<row, queued, publishing, posts, twice>>

\* It dies before it reads the row.
MessageLost(d) ==
    /\ queued[d] > 0
    /\ crashes < MaxCrashes
    /\ crashes' = crashes + 1
    /\ queued' = [queued EXCEPT ![d] = @ - 1]
    /\ lost' = lost \cup {d}
    /\ UNCHANGED <<row, publishing, job, posts, twice>>

-----------------------------------------------------------------------------
(* retry_pending_webhooks                                                   *)

RetryFallsDue(d) ==
    /\ Exists(d) /\ retry[d] = "later"
    /\ retry' = [retry EXCEPT ![d] = "due"]
    /\ UNCHANGED <<status, attempts, queued, publishing, job, crashes, history>>

\* Mutant: the last attempt is excluded as well.
DueOneShort ==
    {d \in Deliveries :
        status[d] = "failed" /\ retry[d] = "due" /\ attempts[d] < MaxAttempts - 1}

\* Mutant: pending rows, which nobody has scheduled, are queued as well.
DuePending ==
    {d \in Deliveries :
        /\ status[d] \in {"pending", "failed"}
        /\ retry[d] # "later"
        /\ attempts[d] < MaxAttempts}

Due ==
    {d \in Deliveries : status[d] = "failed" /\ retry[d] = "due" /\ attempts[d] < MaxAttempts}

\* next_retry_at stays, so the next run queues the row again unless it was saved.
Beat(batch) ==
    /\ batch # {}
    /\ batch \subseteq Due
    /\ \A d \in batch : queued[d] < MaxQueued
    /\ queued' = [d \in Deliveries |-> IF d \in batch THEN queued[d] + 1 ELSE queued[d]]
    /\ twice' = twice \cup {d \in batch : queued[d] > 0 \/ \E w \in Workers : Held(w, d)}
    /\ UNCHANGED <<row, publishing, job, crashes, posts, lost>>

\* DELETE on WebhookViewSet cascades to the deliveries.
DeleteWebhook ==
    /\ \E d \in Deliveries : Exists(d)
    /\ status' = [d \in Deliveries |-> IF Exists(d) THEN "deleted" ELSE status[d]]
    /\ UNCHANGED <<attempts, retry, queued, publishing, job, crashes, history>>

Work(w) ==
    \/ \E answer \in Answers : Post(w, answer)
    \/ Save(w)

Next ==
    \/ \E d \in Deliveries :
          \/ CreateRow(d) \/ Publish(d) \/ PublisherDies(d) \/ MessageLost(d)
          \/ RetryFallsDue(d)
    \/ \E w \in Workers, d \in Deliveries : LoadRow(w, d)
    \/ \E w \in Workers : Work(w) \/ WorkerDies(w)
    \/ \E batch \in SUBSET Deliveries : Beat(batch)
    \/ DeleteWebhook

Spec == Init /\ [][Next]_vars

\* A post ends by its timeout of 12 seconds; time passes; beat runs every minute;
\* the broker hands out messages in order, so none is overtaken for ever.
Fairness ==
    /\ \A d \in Deliveries :
          /\ WF_vars(Publish(d))
          /\ WF_vars(RetryFallsDue(d))
          /\ SF_vars(\E w \in Workers : LoadRow(w, d))
    /\ \A w \in Workers : WF_vars(Work(w))
    /\ WF_vars(Beat(Due))

FairSpec == Spec /\ Fairness

-----------------------------------------------------------------------------
(* Properties                                                               *)

\* Only a row that beat queued a second time before its last try was saved can go from
\* success back to failed, for two workers then hold copies of it (webhooks.py:81-104); any
\* other delivered row stays delivered, whatever processes die and whichever workers run
\* (tasks.py:9-19 and 25-31).
SuccessIsFinalAlone ==
    [][\A d \in Deliveries :
        status[d] = "success" /\ status'[d] # "success" => status'[d] = "deleted" \/ d \in twice]_vars

\* Concurrent workers lose increments, but never invent one: the log claims no
\* more attempts than were made, and gives up only after MaxAttempts of them
\* (webhooks.py:81 and 112).
GivenUpWasTried ==
    \A d \in Deliveries :
        /\ attempts[d] <= posts[d]
        /\ status[d] = "failed" /\ retry[d] = "none" => posts[d] >= MaxAttempts

\* A scheduled retry is one that beat can find: the row failed and has attempts
\* left, whichever worker saved it last (webhooks.py:111-118, tasks.py:25-29).
RetryCanHappen ==
    \A d \in Deliveries :
        Exists(d) /\ retry[d] # "none" => status[d] = "failed" /\ attempts[d] < MaxAttempts

\* As long as no process died with it, a pending delivery is in somebody's hands:
\* its creator's, the broker's or a worker's (webhooks.py:39-53, tasks.py:9-19).
PendingIsInHand ==
    \A d \in Deliveries : status[d] = "pending" /\ d \notin lost =>
        \/ d \in publishing
        \/ queued[d] > 0
        \/ \E w \in Workers : Held(w, d)

\* MAX_ATTEMPTS is a limit, and the log tells how often the endpoint was called, as long
\* as no process died and beat did not queue the row before the last try was saved
\* (tasks.py:25-31 looks at neither the queue nor the workers, and webhooks.py:81 counts
\* in a copy).
AttemptsExactAlone ==
    \A d \in Deliveries : d \notin lost \cup twice =>
        /\ posts[d] <= MaxAttempts
        /\ Exists(d) /\ (\A w \in Workers : ~Held(w, d)) => attempts[d] = posts[d]

\* A failed delivery is tried again until it succeeds or is given up, whatever
\* workers die and overwrite each other meanwhile.
FailedIsSettled ==
    \A d \in Deliveries :
        status[d] = "failed" ~> status[d] # "failed" \/ retry[d] = "none"
=============================================================================
