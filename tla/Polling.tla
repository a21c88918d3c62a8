------------------------------- MODULE Polling -------------------------------
(***************************************************************************)
(* The loop that keeps one auction polled for as long as someone watches   *)
(* it: every scheduler (app/scheduler/scheduler.py) queues a poll when the *)
(* auction's date has come and pushes the date on; the workers' polls set  *)
(* the next date from the page's answer, or back off, or stop              *)
(* (app/services/monitoring_service.py, app/providers/yahoo/); commands    *)
(* resume and put off.  Module Monitoring has what a poll does with a      *)
(* page; here it is whether the next poll ever comes.                      *)
(*                                                                         *)
(* Dates count down to zero, so that no clock is bounded.  The poll lock   *)
(* and the tick lock have no timers: a tick may always be slower than its  *)
(* lock, a poll where LocksExpireEarly says so.                            *)
(***************************************************************************)
EXTENDS RedisLock

CONSTANTS Schedulers, Workers,
          Deployments,       \* which schedulers and workers may run together
          LocksExpireEarly,  \* may a live job lose its lock (90 s, job_timeout 120 s)?
          MaxErrors,         \* yahoo_max_consecutive_errors
          BackoffBase, BackoffMax,
          PushDelay,         \* poll_lock_ttl_seconds
          Grace,             \* unwatch_grace_period_seconds
          Intervals,         \* what polling_interval_for may return
          MaxDelay,          \* the longest of all these times
          MaxWatchers, MaxQueue    \* bounds

ASSUME PollingAssumption ==
    /\ None \notin Workers \cup Schedulers
    /\ Deployments \subseteq SUBSET (Workers \cup Schedulers)
    /\ LocksExpireEarly \in BOOLEAN
    /\ {MaxErrors, MaxWatchers} \subseteq Nat \ {0}
    /\ {MaxDelay, BackoffBase, MaxQueue} \subseteq Nat
    /\ Intervals \cup {BackoffMax, PushDelay, Grace} \subseteq 0..MaxDelay

VARIABLES
    running,    \* the schedulers and workers that run
    row,        \* the row of table auctions
    watchers,   \* how many links it has
    tickLock,   \* the key scheduler:tick-lock
    plan,       \* [Schedulers -> what its tick is about to commit, or None]
    queue,      \* poll jobs waiting in the queue
    lock,       \* the key auction:{id}:poll-lock
    job,        \* [Workers -> the poll job it runs, or None]
    streak      \* history: failed polls since the last that succeeded, until a
                \* live job loses the poll lock

vars == <<running, row, watchers, tickLock, plan, queue, lock, job, streak>>

Dates == 0..MaxDelay    \* how far off; zero is now or in the past

\* MaxErrors stands for that many errors or more.
Rows == [active : BOOLEAN, closed : BOOLEAN, due : Maybe(Dates), errors : 0..MaxErrors]

Plans == [kind : {"rest", "stop"}] \cup [kind : {"push"}, due : Dates]

\* A job has loaded the row; then it has a page, a date unless the page is
\* closed, and errors to clear if it has loaded any; then it has committed.
Jobs == [pc : {"loaded"}, errors : 0..MaxErrors]
   \cup [pc : {"page"}, clears : BOOLEAN, closed : BOOLEAN, due : Maybe(Dates)]
   \cup [pc : {"committed"}]

TypeOK == /\ running \in Deployments
          /\ row \in Rows
          /\ watchers \in 0..MaxWatchers
          /\ tickLock \in LockRecords(Schedulers, 1)
          /\ plan \in [Schedulers -> Maybe(Plans)]
          /\ queue \in 0..MaxQueue
          /\ lock \in LockRecords(Workers, 1)
          /\ job \in [Workers -> Maybe(Jobs)]
          /\ streak \in Maybe(0..MaxErrors)

\* Someone has just added the auction.
Init == /\ running \in Deployments
        /\ row = [active |-> TRUE, closed |-> FALSE, due |-> 0, errors |-> 0]
        /\ watchers = 1
        /\ tickLock = Unlocked /\ plan = [s \in Schedulers |-> None]
        /\ queue = 0 /\ lock = Unlocked
        /\ job = [w \in Workers |-> None]
        /\ streak = 0

At(w, pc) == job[w] # None /\ job[w].pc = pc

More(errors) == IF errors < MaxErrors THEN errors + 1 ELSE errors

\* A live job has lost the poll lock: there may be two, and nothing is said of
\* the count any more.
Overlapped == streak = None

-----------------------------------------------------------------------------
(* Time *)

Nearer(due) == IF due \in {None, 0} THEN due ELSE due - 1

Tick == /\ row' = [row EXCEPT !.due = Nearer(@)]
        /\ plan' = [s \in Schedulers |->
                      IF plan[s] # None /\ plan[s].kind = "push"
                      THEN [plan[s] EXCEPT !.due = Nearer(@)] ELSE plan[s]]
        /\ job' = [w \in Workers |->
                     IF At(w, "page") THEN [job[w] EXCEPT !.due = Nearer(@)] ELSE job[w]]
        /\ UNCHANGED <<running, watchers, tickLock, queue, lock, streak>>

\* The key of a dead job, or of one that takes longer than 90 seconds.
LockExpires == /\ lock # Unlocked
               /\ job[lock.owner] # None => LocksExpireEarly
               /\ lock' = Elapsed(lock)
               /\ streak' = IF job[lock.owner] # None THEN None ELSE streak
               /\ UNCHANGED <<running, row, watchers, tickLock, plan, queue, job>>

\* The key of a tick that is dead, or takes longer than ten seconds.
TickLockExpires == /\ tickLock # Unlocked
                   /\ tickLock' = Elapsed(tickLock)
                   /\ UNCHANGED <<running, row, watchers, plan, queue, lock, job, streak>>

-----------------------------------------------------------------------------
(* The users' commands (auction_service.py) *)

\* Mutated form of Resumed: monitoring is switched on but nothing is due.
ResumedUndated(r) == [r EXCEPT !.active = TRUE]

\* resume_monitoring: the errors stay counted.
Resumed(r) == [r EXCEPT !.active = TRUE, !.due = 0]

AddWatch == /\ ~row.closed /\ watchers < MaxWatchers
            /\ watchers' = watchers + 1
            /\ row' = IF row.active THEN row ELSE Resumed(row)
            /\ UNCHANGED <<running, tickLock, plan, queue, lock, job, streak>>

\* Mutated form of Unwatched: nobody watches, so no poll is due.
UnwatchedUndated(r) == [r EXCEPT !.due = None]

\* The last watcher has left: the grace period begins.
Unwatched(r) == [r EXCEPT !.due = Grace]

RemoveWatch == /\ watchers > 0
               /\ watchers' = watchers - 1
               /\ row' = IF watchers' = 0 THEN Unwatched(row) ELSE row
               /\ UNCHANGED <<running, tickLock, plan, queue, lock, job, streak>>

-----------------------------------------------------------------------------
(* The schedulers *)

\* list_due
Due == row.active /\ ~row.closed /\ row.due = 0

\* A tick takes its lock, reads, and queues a poll before it commits anything.
SchedulerReads(s) ==
    /\ s \in running /\ plan[s] = None /\ CanAcquire(tickLock)
    /\ tickLock' = Acquired(s, 1)
    /\ \/ /\ ~Due /\ queue' = queue
          /\ plan' = [plan EXCEPT ![s] = [kind |-> "rest"]]
       \/ /\ Due /\ watchers = 0 /\ queue' = queue
          /\ plan' = [plan EXCEPT ![s] = [kind |-> "stop"]]
       \/ /\ Due /\ watchers > 0 /\ queue < MaxQueue /\ queue' = queue + 1
          /\ plan' = [plan EXCEPT ![s] = [kind |-> "push", due |-> PushDelay]]
    /\ UNCHANGED <<running, row, watchers, lock, job, streak>>

\* stop_monitoring
Stopped(r) == [r EXCEPT !.active = FALSE, !.due = None]

Planned(r, p) == CASE p.kind = "rest" -> r
                   [] p.kind = "stop" -> Stopped(r)
                   [] p.kind = "push" -> [r EXCEPT !.due = p.due]

\* The tick commits, and with it the removal of a closed auction's links.
SchedulerCommits(s) ==
    /\ plan[s] # None
    /\ row' = Planned(row, plan[s])
    /\ watchers' \in IF row.closed THEN 0..watchers ELSE {watchers}
    /\ plan' = [plan EXCEPT ![s] = None]
    /\ tickLock' = Released(tickLock, s)
    /\ UNCHANGED <<running, queue, lock, job, streak>>

\* The tick raises; run_forever goes on with the next one.
SchedulerFails(s) ==
    /\ plan[s] # None
    /\ plan' = [plan EXCEPT ![s] = None]
    /\ tickLock' = Released(tickLock, s)
    /\ UNCHANGED <<running, row, watchers, queue, lock, job, streak>>

\* The process dies, and the next one finds the tick lock taken.
SchedulerDies(s) ==
    /\ plan[s] # None
    /\ plan' = [plan EXCEPT ![s] = None]
    /\ UNCHANGED <<running, row, watchers, tickLock, queue, lock, job, streak>>

-----------------------------------------------------------------------------
(* The workers' polls *)

\* What a request may come to: no answer, or a status and a content.
Answers ==
    [status : {"timeout", "network error", "403", "404", "410", "429", "5xx", "other"}]
    \cup [status : {"200"}, content : {"captcha", "no pageData", "invalid", "open", "closed"}]

\* The error that the client or the provider raises, if any.
Raised(a) ==
    IF a.status = "200"
    THEN CASE a.content = "captcha"     -> "AntiBot"
           [] a.content = "no pageData" -> "PageDataNotFound"
           [] a.content = "invalid"     -> "PageDataParse"
           [] OTHER                     -> None
    ELSE IF a.status \in {"timeout", "403", "429", "5xx"} THEN "RateLimited"
    ELSE "AuctionGone"

Failures == {Raised(a) : a \in Answers} \ {None}

Passing == {"RateLimited", "PageDataNotFound", "PageDataParse"}

\* The job takes the lock and loads the row.
Start(w) == /\ w \in running /\ queue > 0 /\ job[w] = None
            /\ CanAcquire(lock) /\ row.active
            /\ queue' = queue - 1
            /\ lock' = Acquired(w, 1)
            /\ job' = [job EXCEPT ![w] = [pc |-> "loaded", errors |-> row.errors]]
            /\ UNCHANGED <<running, row, watchers, tickLock, plan, streak>>

\* The job returns "locked" or "inactive".
Skip(w) == /\ w \in running /\ queue > 0 /\ job[w] = None
           /\ ~CanAcquire(lock) \/ ~row.active
           /\ queue' = queue - 1
           /\ UNCHANGED <<running, row, watchers, tickLock, plan, lock, job, streak>>

\* Mutated form of Backoff: without a limit.
BackoffUnlimited(errors) == BackoffBase * 2^(errors - 1)

Backoff(errors) ==
    LET delay == BackoffBase * 2^(errors - 1)
    IN  IF delay \in 0..BackoffMax THEN delay ELSE BackoffMax

\* _handle_error without stop, for a job that has loaded this many errors.
Failed(r, loaded) ==
    LET counted == [r EXCEPT !.errors = More(loaded), !.due = Backoff(More(loaded))]
    IN  IF More(loaded) >= MaxErrors THEN Stopped(counted) ELSE counted

\* The page is asked for and there is no state in the answer: the error is
\* counted, or stops the monitoring at once, and the job commits.
AskFails(w, error) ==
    /\ At(w, "loaded")
    /\ IF error \in Passing
       THEN /\ row' = Failed(row, job[w].errors)
            /\ streak' = IF Overlapped THEN None ELSE More(streak)
       ELSE row' = Stopped(row) /\ UNCHANGED streak
    /\ job' = [job EXCEPT ![w] = [pc |-> "committed"]]
    /\ UNCHANGED <<running, watchers, tickLock, plan, queue, lock>>

\* The answer has a state: the next date, if there is one, counts from now.
AskSucceeds(w, a) ==
    /\ At(w, "loaded") /\ Raised(a) = None
    /\ \E interval \in Intervals :
         job' = [job EXCEPT ![w] =
                   [pc |-> "page", clears |-> @.errors # 0,
                    closed |-> a.content = "closed",
                    due |-> IF a.content = "closed" THEN None ELSE interval]]
    /\ UNCHANGED <<running, row, watchers, tickLock, plan, queue, lock, streak>>

Ask(w) == \/ \E error \in Failures : AskFails(w, error)
          \/ \E a \in Answers : AskSucceeds(w, a)

\* Mutated form of Succeeded: the errors stay counted.
SucceededCounting(r, j) ==
    [r EXCEPT !.active = @ /\ ~j.closed, !.closed = @ \/ j.closed,
              !.due = j.due]

\* The row after a poll that got a state.
Succeeded(r, j) ==
    [active |-> r.active /\ ~j.closed, closed |-> r.closed \/ j.closed,
     due |-> j.due,
     errors |-> IF j.clears THEN 0 ELSE r.errors]

Commit(w) == /\ At(w, "page")
             /\ row' = Succeeded(row, job[w])
             /\ streak' = IF Overlapped THEN None ELSE 0
             /\ job' = [job EXCEPT ![w] = [pc |-> "committed"]]
             /\ UNCHANGED <<running, watchers, tickLock, plan, queue, lock>>

\* The job returns, raises or is cancelled, and releases the lock.
Finish(w) == /\ job[w] # None
             /\ job' = [job EXCEPT ![w] = None]
             /\ lock' = Released(lock, w)
             /\ UNCHANGED <<running, row, watchers, tickLock, plan, queue, streak>>

\* The process dies: the lock stays, the queue delivers the job again.
Crash(w) == /\ job[w] # None /\ queue < MaxQueue
            /\ job' = [job EXCEPT ![w] = None]
            /\ queue' = queue + 1
            /\ UNCHANGED <<running, row, watchers, tickLock, plan, lock, streak>>

-----------------------------------------------------------------------------
Command == AddWatch \/ RemoveWatch

Ticking(s) == SchedulerReads(s) \/ SchedulerCommits(s) \/ SchedulerFails(s) \/ SchedulerDies(s)

Poll(w) == Start(w) \/ Skip(w) \/ Ask(w) \/ Commit(w) \/ Finish(w) \/ Crash(w)

Next == \/ Tick \/ LockExpires \/ TickLockExpires \/ Command
        \/ \E s \in Schedulers : Ticking(s)
        \/ \E w \in Workers : Poll(w)

Spec == Init /\ [][Next]_vars

\* Time passes, keys expire, run_forever comes back to the next tick and the
\* workers to the queue.  Of ticks that get to commit again and again, not all
\* fail; of jobs that get to ask Yahoo again and again, or to return, not all die
\* there.
FairSpec ==
    /\ Spec
    /\ WF_vars(Tick) /\ WF_vars(LockExpires) /\ WF_vars(TickLockExpires)
    /\ WF_vars(\E s \in Schedulers : SchedulerReads(s))
    /\ SF_vars(\E s \in Schedulers : SchedulerCommits(s))
    /\ WF_vars(\E w \in Workers : Start(w) \/ Skip(w))
    /\ SF_vars(\E w \in Workers : Ask(w))
    /\ SF_vars(\E w \in Workers : At(w, "committed") /\ Finish(w))

-----------------------------------------------------------------------------
(* Properties *)

Monitored == row.active /\ ~row.closed

Answered == \E w \in Workers : At(w, "page") \/ At(w, "committed")

\* An auction that is monitored and watched is polled again and again
\* (scheduler.py:31-35), whatever dies or is queued twice.
PolledAgain == (Monitored /\ watchers > 0) ~> (Answered \/ ~Monitored \/ watchers = 0)

\* An auction that nobody watches any more is not polled for ever
\* (auction_service.py:100-102).
UnwatchedStops == (Monitored /\ watchers = 0) ~> (~Monitored \/ watchers > 0)

\* Refusals, server errors, timeouts and unreadable pages pass; a captcha, an
\* auction that is gone and any other failure of the connection do not.
Temporary(a) ==
    \/ a.status \in {"timeout", "403", "429", "5xx"}
    \/ a.status = "200" /\ a.content \in {"no pageData", "invalid"}

\* An error leaves the monitoring on just when it may pass and fewer than
\* MaxErrors polls in a row have failed so (README.md:144-148), however many jobs
\* die in between.  This holds until a live job loses the poll lock: then two
\* jobs write what they have computed from the same count.
StopsAfterErrorsInARow ==
    [][~Overlapped =>
         \A w \in Workers, a \in Answers :
           Raised(a) \in Failures /\ AskFails(w, Raised(a)) /\ row.active
             => (row'.active <=> Temporary(a) /\ streak' < MaxErrors)]_vars
=============================================================================
