------------------------------ MODULE Delivery ------------------------------
(***************************************************************************)
(* The delivery of one claimed alert (a row of sent_notifications): the    *)
(* send jobs that the poll and the scheduler queue for it, the workers     *)
(* that run them (app/workers/tasks.py, send_notification) and the sender  *)
(* that retries at Telegram (app/notifications/sender.py).                 *)
(*                                                                         *)
(* A job reads the row first and takes the send lock afterwards; sending   *)
(* and recording the outcome are separate steps, so a job may be cancelled *)
(* or its process die between any two of them.  Between its attempts the   *)
(* sender sleeps, and a job that has slept for job_timeout is cancelled;   *)
(* this time is counted in units of telegram_send_retry_base_seconds (as   *)
(* configured, 5 s, Retries is 5 and JobTimeout is 24).                    *)
(***************************************************************************)
EXTENDS RedisLock

CONSTANTS Workers,           \* slots for send jobs of all worker processes
          Retries,           \* telegram_send_max_retries
          RetryAfter,        \* the waits that Telegram's flood control may ask for
          JobTimeout,        \* job_timeout
          LocksExpireEarly,  \* may a live job lose its lock (60 s, job_timeout 120 s)?
          Killing,           \* may processes die and jobs be cancelled?
          MaxQueue, MaxDelivered    \* bounds: the queue, and counting up to "many"

ASSUME DeliveryAssumption ==
    /\ None \notin Workers
    /\ Retries \in Nat /\ RetryAfter \subseteq Nat \ {0} /\ JobTimeout \in Nat \ {0}
    /\ MaxQueue \in Nat \ {0} /\ MaxDelivered \in Nat \ {0}
    /\ LocksExpireEarly \in BOOLEAN /\ Killing \in BOOLEAN

VARIABLES
    status,     \* the row's status, or "deleted"
    old,        \* is the row older than PENDING_RECOVERY_DELAY?
    queue,      \* send jobs for the row waiting in the queue
    lock,       \* the key notification:{id}:send-lock
    job,        \* [Workers -> the send job it runs, or None]
    delivered   \* how many messages Telegram has accepted

vars == <<status, old, queue, lock, job, delivered>>

Jobs == [pc : {"read", "accepted", "refused", "recorded"}]
   \cup [pc : {"sending"}, attempt : 1..(Retries + 1), slept : 0..JobTimeout]

TypeOK == /\ status \in {"pending", "sent", "failed", "deleted"}
          /\ old \in BOOLEAN
          /\ queue \in 0..MaxQueue
          /\ lock \in LockRecords(Workers, 1)
          /\ job \in [Workers -> Maybe(Jobs)]
          /\ delivered \in 0..MaxDelivered

\* The poll has committed the row; its process may have died before it queued
\* the job.
Init == /\ status = "pending" /\ old = FALSE
        /\ queue \in {0, 1}
        /\ lock = Unlocked
        /\ job = [w \in Workers |-> None]
        /\ delivered = 0

At(w, pc) == job[w] # None /\ job[w].pc = pc

\* The job is inside the try clause of the lock.
Holding(w) == job[w] # None /\ job[w].pc # "read"

Goto(w, pc) == job' = [job EXCEPT ![w] = [pc |-> pc]]

\* The job is cancelled in its sleep.
TimeIsUp(w) == At(w, "sending") /\ job[w].slept = JobTimeout

\* The sender may ask Telegram (again).
Asking(w) == At(w, "sending") /\ ~TimeIsUp(w)

\* How long a job has slept after one more wait; no more than its timeout.
SleptAfter(w, wait) ==
    IF job[w].slept + wait \in 0..JobTimeout THEN job[w].slept + wait ELSE JobTimeout

\* The waits after a failed attempt: what flood control asks for, or, after an
\* API error, twice as long each time (its limit of 120 s is job_timeout again).
Waits(w) == RetryAfter \cup {2 ^ (job[w].attempt - 1)}

\* One more message; MaxDelivered stands for that many or more.
Delivered == IF delivered < MaxDelivered THEN delivered + 1 ELSE delivered

-----------------------------------------------------------------------------
(* Around the jobs *)

GrowsOld == ~old /\ old' = TRUE /\ UNCHANGED <<status, queue, lock, job, delivered>>

\* Mutated form of Recover: only what failed is queued again.
RecoverFailed ==
    /\ status = "failed" /\ old /\ queue < MaxQueue
    /\ queue' = queue + 1
    /\ UNCHANGED <<status, old, lock, job, delivered>>

\* recover_pending_notifications, in every tick of the scheduler, however many
\* jobs for the row are queued or running.
Recover ==
    /\ status = "pending" /\ old /\ queue < MaxQueue
    /\ queue' = queue + 1
    /\ UNCHANGED <<status, old, lock, job, delivered>>

\* The link goes, and the row with it: the user stops watching, or the auction
\* is closed and the row is not pending (delete_links_for_finalized_auctions).
LinkDeleted ==
    /\ status # "deleted"
    /\ status' = "deleted"
    /\ UNCHANGED <<old, queue, lock, job, delivered>>

LockExpires ==
    /\ lock # Unlocked
    /\ Holding(lock.owner) => LocksExpireEarly
    /\ lock' = Elapsed(lock)
    /\ UNCHANGED <<status, old, queue, job, delivered>>

-----------------------------------------------------------------------------
(* send_notification *)

\* The job reads the row.  Without a row, or with one that is sent, it ends.
Start(w) ==
    /\ queue > 0 /\ job[w] = None
    /\ queue' = queue - 1
    /\ IF status \in {"deleted", "sent"} THEN job' = job ELSE Goto(w, "read")
    /\ UNCHANGED <<status, old, lock, delivered>>

\* It takes the lock, or ends.  The status is not read again.
TakeLock(w) ==
    /\ At(w, "read")
    /\ IF CanAcquire(lock)
       THEN /\ lock' = Acquired(w, 1)
            /\ job' = [job EXCEPT ![w] = [pc |-> "sending", attempt |-> 1, slept |-> 0]]
       ELSE /\ lock' = lock
            /\ job' = [job EXCEPT ![w] = None]
    /\ UNCHANGED <<status, old, queue, delivered>>

\* Telegram accepts the message and the answer arrives.
Accept(w) ==
    /\ Asking(w)
    /\ delivered' = Delivered
    /\ Goto(w, "accepted")
    /\ UNCHANGED <<status, old, queue, lock>>

\* The sender sleeps before its next attempt.
TryAgainLater(w) ==
    \E wait \in Waits(w) :
        job' = [job EXCEPT ![w] = [pc |-> "sending", attempt |-> job[w].attempt + 1,
                                   slept |-> SleptAfter(w, wait)]]

\* Mutated form of AttemptFails: the last attempt counts as a success.
AttemptFailsQuietly(w) ==
    /\ Asking(w)
    /\ delivered' \in {delivered, Delivered}
    /\ IF job[w].attempt > Retries THEN Goto(w, "accepted") ELSE TryAgainLater(w)
    /\ UNCHANGED <<status, old, queue, lock>>

\* Mutated form of AttemptFails: one attempt too many.
AttemptFailsOnceMore(w) ==
    /\ Asking(w)
    /\ delivered' \in {delivered, Delivered}
    /\ IF job[w].attempt > Retries + 1 THEN Goto(w, "refused") ELSE TryAgainLater(w)
    /\ UNCHANGED <<status, old, queue, lock>>

\* Flood control or an API error: the sender sleeps and tries again, up to
\* Retries times.  A message may have been accepted and its answer lost.
AttemptFails(w) ==
    /\ Asking(w)
    /\ delivered' \in {delivered, Delivered}
    /\ IF job[w].attempt > Retries THEN Goto(w, "refused") ELSE TryAgainLater(w)
    /\ UNCHANGED <<status, old, queue, lock>>

\* The user has blocked the bot, or the text is missing: no retry.
Refuse(w) ==
    /\ Asking(w)
    /\ Goto(w, "refused")
    /\ UNCHANGED <<status, old, queue, lock, delivered>>

\* mark_sent and mark_failed write whatever the row's status is by now.
Recorded(outcome) == IF status = "deleted" THEN status ELSE outcome

MarkSent(w) ==
    /\ At(w, "accepted")
    /\ status' = Recorded("sent")
    /\ Goto(w, "recorded")
    /\ UNCHANGED <<old, queue, lock, delivered>>

MarkFailed(w) ==
    /\ At(w, "refused")
    /\ status' = Recorded("failed")
    /\ Goto(w, "recorded")
    /\ UNCHANGED <<old, queue, lock, delivered>>

\* The finally clause; the job has returned or raised and is not tried again.
Release(w) ==
    /\ At(w, "recorded")
    /\ lock' = Released(lock, w)
    /\ job' = [job EXCEPT ![w] = None]
    /\ UNCHANGED <<status, old, queue, delivered>>

\* CancelledError passes the except clause and records nothing; the lock is
\* released, and the queue does not try the job again.
Cancelled(w) ==
    /\ lock' = IF Holding(w) THEN Released(lock, w) ELSE lock
    /\ job' = [job EXCEPT ![w] = None]
    /\ UNCHANGED <<status, old, queue, delivered>>

\* The job has slept for too long.
RunsOut(w) == TimeIsUp(w) /\ Cancelled(w)

\* It is cancelled for another reason: a request hangs, the worker is aborted.
Cancel(w) == Killing /\ job[w] # None /\ Cancelled(w)

\* The process dies: the lock stays, the queue delivers the job again.
Crash(w) ==
    /\ Killing /\ job[w] # None /\ queue < MaxQueue
    /\ job' = [job EXCEPT ![w] = None]
    /\ queue' = queue + 1
    /\ UNCHANGED <<status, old, lock, delivered>>

-----------------------------------------------------------------------------
Around == GrowsOld \/ Recover \/ LinkDeleted \/ LockExpires

Send(w) == \/ Start(w) \/ TakeLock(w) \/ Accept(w) \/ AttemptFails(w) \/ Refuse(w)
           \/ MarkSent(w) \/ MarkFailed(w) \/ Release(w) \/ RunsOut(w)

Next == Around \/ \E w \in Workers : Send(w) \/ Cancel(w) \/ Crash(w)

Spec == Init /\ [][Next]_vars

\* The n-th attempt of a job comes to an end, whatever Telegram answers.
AttemptEnds(w, n) ==
    /\ At(w, "sending") /\ job[w].attempt = n
    /\ Accept(w) \/ AttemptFails(w) \/ Refuse(w) \/ RunsOut(w)

\* Time passes, the scheduler keeps ticking, the event loop returns to every
\* job.  Of jobs that get to take the lock, to ask Telegram for the n-th time or
\* to record the answer again and again, not all are killed at that point.
\* Nothing is assumed of Telegram's answers.
FairSpec ==
    /\ Spec
    /\ WF_vars(GrowsOld) /\ WF_vars(Recover) /\ WF_vars(LockExpires)
    /\ \A w \in Workers :
          /\ WF_vars(Start(w)) /\ WF_vars(Release(w))
          /\ SF_vars(TakeLock(w) /\ CanAcquire(lock))
          /\ \A n \in 1..(Retries + 1) : SF_vars(AttemptEnds(w, n))
          /\ SF_vars(MarkSent(w) \/ MarkFailed(w))

-----------------------------------------------------------------------------
(* Properties *)

\* What is recorded as sent has reached Telegram at least once.
SentMeansDelivered == status = "sent" => delivered > 0

\* Releasing is token-safe (locks.py:8-12): once a job has taken the lock, no
\* other job takes the key away, not even one that has outlived its own key.
HolderKeepsKey ==
    [][\A w \in Workers :
        Holding(w) /\ Holding(w)' /\ lock.owner = w => lock' = lock \/ LockExpires]_vars

\* A claimed alert does not stay pending: a lost job, a dead worker or a
\* cancelled one is made up for by the scheduler, and a Telegram that keeps
\* failing is recorded in the end.  This holds unless jobs run out of their time
\* in the sender again and again: the waits after API errors add up to more than
\* job_timeout (sender.py:65-70), the job that is cancelled records nothing, and
\* the next one begins at the first attempt.
EventuallySettled ==
    <>[][\A w \in Workers : ~RunsOut(w)]_vars
        => ((status = "pending") ~> (status # "pending"))

\* Restarts, retries and repeated delivery of a job make no duplicates, for the
\* sender checks the status (README.md:112-113, tasks.py:76).
DeliveredOnce == delivered <= 1
=============================================================================
