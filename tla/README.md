# A TLA+ model of the Yahoo Auctions notifier

The program (`src/app`) watches auctions at Yahoo Auctions Japan for Telegram
users: it polls the page of every watched auction, compares what it sees with
what it saw before, and sends an alert before the end (30, 15 and 5 minutes),
on every change, on an extension and on closing. It runs as several processes
(bot, scheduler, any number of workers, API) that share a PostgreSQL database
and Redis. These modules model its logic, TLC checks them on small instances,
and TLAPS proves the theorems listed below for every value of the constants.

- [The system](#the-system): its parts, what makes each correct, what is hard
- [The modules](#the-modules): what models what, and how
- [The runs](#the-runs): what TLC checks, the bounds, the fairness
- [The proofs](#the-proofs): what TLAPS proves, and along which argument
- [Where the program differs from its documents](#where-the-program-differs-from-its-documents)
- [What is not modelled](#what-is-not-modelled)
- [The plan](#the-plan)

## The system

| Part | State it keeps | Operations | Correct when |
|---|---|---|---|
| Poll lock (`infrastructure/locks.py`) | a Redis key with a token and a time to live | acquire, release | one job at a time; nobody releases another's lock; a dead holder's lock goes away |
| Domain rules (`domain/`) | none | `diff_states`, `evaluate_notifications`, `dedup_key_for`, `polling_interval_for` | a stored change and an alert go together; reminders come once; polls come in time for them |
| Monitoring (`services/monitoring_service.py`, `workers/tasks.py` `poll_auction`) | `auctions`, `auction_snapshots`, `sent_notifications` | `poll` with its error paths | no change and no reminder lost or doubled, whatever interleaves; the row agrees with the snapshot; closed stays closed |
| Scheduler (`scheduler/scheduler.py`) | none but its open transaction | tick: queue due polls, stop unwatched ones, remove finished links, requeue pending alerts, purge | everything that should happen again is queued again; only the unwatched is stopped |
| Watchlist (`services/auction_service.py`) | `user_auctions` | add, remove, mute, label | what a user watches is polled |
| Delivery (`workers/tasks.py` `send_notification`, `notifications/sender.py`) | `status` of an alert, a send lock | send with retries, mark sent or failed | each claimed alert is sent, once |
| Yahoo client (`providers/yahoo/`, `infrastructure/*limit*.py`) | a token bucket in Redis | fetch, classify errors, cut out and parse the page's data | the common budget holds; an error stops the monitoring when it should; the right object is cut out |
| Bot (`bot/`) | dialogue state in memory | commands, buttons, links, names, pages of a list | handlers at work at once do not undo each other; every auction of the list can be reached |

How they interact. The **scheduler** selects the auctions that are due and
puts poll jobs into the Redis queue; it commits the new dates afterwards. A
**worker** takes a job, takes the auction's lock, loads the row, fetches the
page, compares it with the latest snapshot, and commits the snapshot, the row
and the claimed alerts in one transaction; it then queues one send job for each
alert. A send job reads the alert, takes the alert's own lock, sends, and
records the outcome. The **bot** changes links and dates in short transactions
of its own. The database has unique keys for links and alerts; beyond these,
nothing but the two Redis locks keeps the processes apart.

What is hard:

- *Two polls of one auction.* A lock with a time to live is not a mutex when
  its holder may outlive it, and the unit of work then writes columns computed
  from a stale row.
- *A poll awaits* the network between loading the row and committing; commands
  and ticks commit in between.
- *The queue delivers at least once*: jobs of a killed worker come again, the
  scheduler queues the same work again, a job may run long after it was queued.
- *A process dies* between commit and queueing, between sending and recording,
  between taking a lock and releasing it.
- *Windows.* A reminder exists only as a moment between two polls; the moment
  moves when the auction is extended, and the previous poll is what the row says.
- *Dates.* Polls, ticks, commands and errors all write an auction's next date;
  if one leaves it without a date, or the wrong one last, it is never polled again.
- *Handlers overtake one another* in the bot: every update is a task of its own,
  and each reads a row, waits, and writes it.
- *Uniqueness.* An alert is unique by a key; a key used twice loses an alert
  silently, a key that changes sends it twice.

The list of hazards, each at its line and with the properties that cover it,
is in `PROJECT.json`.

## The modules

```
Values ── RedisLock ── LockedJobs ── LockedJobsProofs     Mutex  (abstract: one poll at a time)
   │          ├─────── Delivery ──── DeliveryProofs
   │          ├─────── Polling ───── PollingProofs
   │          └─────────────┐
AuctionDomain ──────── Monitoring ── MonitoringMC
   │                        └── MonitoringProofs ── FeedProofs
   ├── DomainProofs ──────────┐
   └── AlertFeed ── DomainMC ── PartsProofs
           │           └── RateLimiter, Chat, Extractor   (instances)
           └── AlertFeedProofs                            (abstract: what a watcher is promised)
```

`LockedJobs` implements `Mutex`, and `Monitoring` implements `AlertFeed`; both
are checked as properties of a run, with `INSTANCE ... WITH`, and both are
proved, the second in `FeedProofs`, which takes what `AlertFeedProofs` shows of
the feed over to the monitoring by an instance of that module, and shows that the
polls of `Monitoring` implement `Mutex` as well.

**Values** has the absent value `None` and `Maybe(S)`.

**RedisLock** is the lock as data: a record of owner and remaining time, an
absent key being `Unlocked`. The token, a fresh uuid per lock object, is
represented by the slot of the job that made the object. `Released` is the Lua
script (delete only one's own key), `Elapsed` is Redis counting down.

**LockedJobs** is every job that polls one auction, reduced to its lock and its
age. `Tick` advances all timers; the queue library cancels a job at
`JobTimeout`, so time waits for a job that is due to be cancelled. `Crash`
leaves the key behind. Timers are counted relative to each job, so no clock is
bounded. **Mutex** is what `README.md` says of the lock.

**AuctionDomain** has the pure functions: `PriceChanged`, `HasChanges`,
`Extended`, `NewBidDetected` (`domain/diff.py`), `TimedDecisions`,
`StateDecisions`, `Decisions`, `DedupKey` (`domain/notifications.py`),
`PollingInterval` (`domain/polling.py`). An observation is a record of the
fields some decision reads, any of which but `closed` may be absent. Thresholds
and intervals are constants.

**AlertFeed** is the abstract specification of the monitoring of one auction:
it is observed from time to time, in order, and each observation claims the
alerts that `Decisions` calls for, once for each user whose alerts are on. It
knows no job, lock, queue, transaction or error. `Observe` may lag behind the
clock, as an observation's time is the time of the fetch, not of the commit.
An observation that has nothing to compare with, the first one or one after a
purge, decides on no alert; the times it passes over are `silent`.
`Forget` is what the watcher's leaving, the clean-up of closed auctions and the
purge of snapshots look like from here. The state that the next observation is
compared with (`last`) may be forgotten at any time, but not the number of the
next snapshot.

**Monitoring** is the concrete system around one auction.

| Action | Code |
|---|---|
| `Start`, `Skip`, `Finish`, `Abort`, `Crash` | `poll_auction`: lock, early returns, `finally`; the queue library's cancellation and redelivery |
| `Fetch`, `FetchStops`, `FetchFails` | `poll` up to the fetch, `_handle_error` with and without `stop` |
| `Compare`, `Commit` | `poll` from `get_latest` to `commit`: snapshot, `update_from_state`, `create_jobs`, the next date |
| `SchedulerReads`, `SchedulerCleans`, `SchedulerCommits`, `SchedulerFails` | `_tick`: queueing comes before the commit, and so does the choice of the finished links to delete (`leavers`) |
| `AddWatch`, `RemoveWatch`, `ToggleNotifications` | the commands of `auction_service.py` |
| `Settle` | the sender's outcome for a user's pending alerts; its detail is module Delivery |
| `YahooCloses`, `Tick`, `LockExpires` | the world outside |

`Commit` is possible only if the renderer can write the text of every new alert
(`Rendered`): a text that cannot be written raises, and the whole transaction is
rolled back (`Abort`). The refinement to `AlertFeed` maps `last` to `Baseline`,
what the poll at work has read, or else the latest snapshot: a purge between a
poll's `Compare` and its `Commit` leaves the poll with a snapshot that is gone.
`shownEnd` is the end time in the auction's row.

Two details of the ORM matter and are modelled. A poll's row is loaded once and
not refreshed, so what it computes from the row (`Loaded`) is as old as the
load. On commit only the columns whose value differs from the loaded one are
written (`Flushed`), so a stale poll leaves alone what it does not change;
whole-row updates would break `ClosedStaysClosed`, and a mutant shows it.

Abstractions. A user's command is one action: its transaction has no await but
the database's (the exception, the fetch when a new auction is added, precedes
the model's initial states). `Settle` settles all of a user's pending alerts at
once. Only the latest snapshot is kept, the only one that is read. The lock has
no timer; `LocksExpireEarly` says whether a live job may lose it, and
`LockedJobs` relates this to the configured times. One scheduler is modelled
(several are in Polling).
The fetched page is any member of `Pages` whose `closed` agrees with whether
the auction has ended. `since` (since when a user's alerts are on), `endSince`
(since when the row has shown its end time) and `silent` (the times passed by polls
without a snapshot to compare with) are history variables that no action reads. A
worker that shuts down in order releases the lock and puts its job back: that is
`Crash` followed by `LockExpires`. PostgreSQL's row locks are left out: they only
forbid behaviours.

**Delivery** is one claimed alert: the jobs queued for it, the send lock, the
attempts at Telegram, the record of the outcome, the scheduler's recovery. A
message may be accepted although the answer is lost. The sender sleeps between its
attempts, for as long as flood control asks or twice as long after each API error;
a job that has slept for `JobTimeout` is cancelled (`RunsOut`) and records
nothing. The alert's row goes away with its link at any time. `HolderKeepsKey` is
checked here, where locks do expire early: it is the token of `locks.py` that
keeps a late job from releasing the lock of another.

**Polling** asks whether the next poll ever comes. It leaves out what a poll does
with the page and has instead what decides on the next date: several schedulers
with their tick lock (which a slow tick loses), the push, the grace period, every
kind of answer to a request and the error it becomes (`Answers`, `Raised`), the
error count and its limit, crashes of jobs and ticks. Dates count down to zero,
so that no clock is bounded. `running` is which of the schedulers and workers there
are, chosen at the start from `Deployments`. `streak` is a history variable: how
many polls have failed since the last success. It becomes `None` when a live job
loses the poll lock, which `LocksExpireEarly` permits as in the other modules.

**RateLimiter** is the Lua script on its hash, the key's time to live, and the
client that calls it. Tokens are counted in units of time, a token being worth
`Period` units, so that the script's divisions disappear. `Replied` is what Redis
does to a fractional number in a script's reply.

**Extractor** is the search for `pageData` in a page, over tokens instead of
characters: the markers, braces, quotes, backslashes, and anything else.
`json.loads` is membership in a set of objects. The scanner's two flags are one
mode (in code, in a string, in a string behind a backslash), and `Scan` has its
state behind every token of a text.

**Chat** is one user's chat. The dispatcher of the bot's library starts a task for
every update, so handlers overlap; each is cut between what it reads and what it
writes. `Conflicts` are the unique keys of users, auctions and links. `Written`
is the ORM again: only the columns that differ from the loaded row are updated.
The dialogue lives in memory and is lost in a `Restart`. The pages of the list
are operators of the same module.

**DomainMC** runs the parts that are small: a behaviour is about the feed, about
the rate limiter, about a chat, or about one question put to a pure function
(`ChangeIffAlert`, `RemindersPartition`, `RemindersOnTime`, `ObjectCutOut`,
`EveryItemReached`), and its first state says which. What the chat is about, what
the rules are asked, the lists and the limits of the extractor are constants, so
that `PartsProofs` can speak of every chat and every question.

## The runs

`tlc -config <run>.cfg <module>`; each `.cfg` states its bounds.

| Run | Checks | Shows |
|---|---|---|
| `LockedJobs_exclusive` | `TypeOK`, `Exclusive`, `ImplementsMutex`, `DeadHolderReleases` | with jobs of 80 s and a lock of 90 s the lock is a mutex, and a dead holder's key goes away |
| `DomainMC` | `TypeOK`, `RemindersCovered`, `ChangesAnnounced` | the feed: no change is lost to someone watching, and a reminder only in a silent window |
| | `ChangeIffAlert`, `RemindersPartition`, `RemindersOnTime` | the decision functions agree with each other and with the defaults of `config.py` |
| | `PartsTypeOK`, `LimiterSharesBudget` | callers that waited as they are told would share one budget |
| | `ChatSettingsApart` | a name and a mute given at once do not undo each other |
| | `ObjectCutOut`, `EveryItemReached` | the extractor cuts out what the page's script has written; the list's arrows reach every auction |
| `MonitoringMC_exclusive` | `TypeOK`, `ShownIsLatest`, `RemindersCovered`, `ImplementsFeed`, `PendingOutlivesClosing` | under an exclusive lock, and with purges at any time, the whole system implements the feed, and the clean-up of closed auctions deletes no alert that is still to be sent |
| `MonitoringMC_overlap` | `ActiveIsDated`, `ClosedStaysClosed` | what holds even when two jobs poll at once |
| `Delivery_settled` | `TypeOK`, `SentMeansDelivered`, `HolderKeepsKey`, `EventuallySettled` | with crashes, cancellation and early lock expiry alerts still settle, whatever Telegram answers, unless jobs sleep past their timeout for ever; and no job takes another's key |
| `Polling` | `TypeOK`, `StopsAfterErrorsInARow`, `PolledAgain`, `UnwatchedStops` | a watched auction is polled again and again, an unwatched one stops; until a live job loses its lock, passing errors stop it after exactly so many in a row and all others at once |
| `LockedJobs_overlap_exclusive` | `Exclusive` | **violated** |
| `Delivery_once` | `DeliveredOnce` | **violated** |
| `MonitoringMC_StopsOnlyUnwatched` | `StopsOnlyUnwatched` | **violated** |
| `MonitoringMC_NewBidsAnnounced` | `NewBidsAnnounced` | **violated** |
| `MonitoringMC_EndChangeStored` | `EndChangeStored` | **violated** |
| `RateLimiter_budget` | `RequestsInBudget` | **violated** |

Every property of a passing run has a mutant in `PROJECT.json`: an operator of
the model changed as a slip in the code would change it, under which TLC finds
the property violated.

**Bounds, and why they are enough.** Time in `Monitoring` and `AlertFeed` is
counted in units of the distance between two reminders, and every polling
interval is one unit. Two to four units let a poll fall before, on and after a
moment, an extension move the moment across the clock, and a grace period, a
push and a back-off run out. The pages are the two or three an auction goes
through: with and without bids, extended, closed. That an end may be unknown is in
the run of the finding about it, and in the feed of `DomainMC`. One user is enough
for these properties, each of which speaks of one user at a time; users meet only
in `count_watchers`, where one leaving and returning is both the last and the
first. Two workers make polls overlap; under an exclusive lock a second worker
could only skip. The overlap run ends after one unit of time, within which two
polls and a tick interleave at every step, with an error that is counted, errors
that stop the monitoring, and pages that close. Reminders are the exclusive run's,
which ends after two units and has the errors that stop the monitoring, aborted
jobs and crashes. Counting up to the limit is for `Polling`. `MaxSnapshots` admits a
baseline and a change, or, after a purge, a second baseline.
`DomainMC` takes poll times one half minute around each threshold and every
remaining time to 25 hours in half minutes; for the extractor two nested values
and strings of two parts, behind four kinds of opening; lists of up to three
pages; two handlers of a chat about one auction; five calls of the rate limiter
with a bucket of two tokens, and time enough for its key to expire.
`Polling` has two schedulers and a worker, so that ticks overlap, or a scheduler
and two workers, so that polls do; a queue of one, two errors to the limit, and every
delay one unit: what matters is whether a date is there and in which order the dates
are written, not how long they are. Nothing in it is bounded but the queue and the
watchers.
`Delivery` counts sleep in units of the first back-off. In `Delivery_settled` two
retries and a timeout of three units make both ends possible: a job that flood
control delays exhausts its retries (1 + 1), one that backs off after API errors runs
out of time (1 + 2); as configured, five retries take 155 s and the job has 120 s.
`LockedJobs` runs in ticks of 10 or 15 s, the common divisors of the times.
The runs of `Monitoring`, `DomainMC` and `RateLimiter` stop at their bounds (the
clock's end, a question answered), and an alert in `Delivery` is finished with
once it is settled: for these, deadlock is not checked. In `LockedJobs` and
`Polling` it is.

In `MonitoringMC_exclusive` the retention is zero, so that every snapshot of an
earlier unit of time may be purged, between a poll's `Compare` and its `Commit`
as well; the other runs have a retention that time does not reach.

**Fairness.** `LockedJobs`: time passes and the event loop returns to a job that
can finish. `Delivery`: time passes, the scheduler ticks again and again (its
loop catches every exception), the queue's workers take jobs, and a lock's time
runs out, all weakly fair. Strong fairness is assumed where an unbounded series
of jobs might each be killed at the same point: when they take the lock, when
they make their n-th attempt, when they record the outcome. The code has no
bound of its own for this, as a job that is killed records nothing, so it is an
assumption on the environment: not every job dies there. Nothing is assumed of
what Telegram answers, and therefore `EventuallySettled` needs its proviso: from
some time on no job sleeps past its timeout. `Polling` is alike: time passes,
keys expire, `run_forever` returns to the next tick whatever a tick raises, and
workers return to the queue (weakly fair); of the ticks that get to commit and
of the jobs that get to ask Yahoo, or to return after committing, not all die at
that point (strongly fair). Nothing is assumed of the answers, of the users, or
of which scheduler gets the lock.

## The proofs

All proofs are for arbitrary values of the constants, under the named `ASSUME`s
of the modules (times are naturals, a minute is not zero, pages are observations
of the auction; the rate limiter's period, second and burst and the size of a page
of the list are positive, the extractor's window and length limit admit the objects
of the run; `None` is no number, slot, worker, snapshot, bucket, link or handler).

| Theorem | States | Argument |
|---|---|---|
| `LockedJobsProofs!TypeCorrect` | `[]TypeOK` | inductive |
| `LockedJobsProofs!ExclusivePolls` | `[]Exclusive` if `JobTimeout < LockTTL` | `Timed`: a running job owns the key, and the key's remaining life and the job's age add up to the time to live; so a job is cancelled before its key expires |
| `LockedJobsProofs!LockOutlivesJob` | a key whose time runs out is a dead job's, under the same assumption | `Timed` |
| `LockedJobsProofs!JobsImplementMutex` | `M!Spec` under the same assumption | a step of the jobs enters or leaves the mutex, or stutters |
| `DomainProofs!ChangeIffDecision` | a difference is stored iff an alert of it is decided | case analysis of `StateDecisions` |
| `DomainProofs!KeyDefined` | every decision has a key | the `ValueError` of `dedup_key_for` is unreachable |
| `DomainProofs!WindowsPartition` | successive windows partition time | arithmetic of half-open intervals |
| `DomainProofs!RemindersOnSchedule` | a poll on schedule is at most two minutes late | the bucket of a remaining time is unique |
| `AlertFeedProofs!FeedTypeCorrect` | `[]TypeOK` | inductive, using `KeyDefined` |
| `AlertFeedProofs!NoReminderLost` | `[]RemindersCovered` | inductive with `InOrder`: the end time is shown since no later than the last poll, and that is no later than now; what the last observation says of it is what is shown. A step that passes a moment claims the reminder or adds the moment to `silent` |
| `AlertFeedProofs!EveryChangeAnnounced` | `ChangesAnnounced` | `Fresh`: keys of claimed changes are below the next snapshot's number |
| `MonitoringProofs!MonitoringTypeCorrect` | `[]TypeOK` | inductive |
| `MonitoringProofs!ActiveAuctionsDated` | `[]ActiveIsDated` | inductive: every writer of one column writes the other |
| `MonitoringProofs!ClosedForGood` | `ClosedStaysClosed` | `ClosedIsOver`: a closed auction is not active, and every poll at work loaded the row open, so it does not write `closed` unless it closes |
| `FeedProofs!PollsTakeTurns` | the polls implement `Mutex` while locks last | `Owned`: a job at work owns the lock; a step begins a poll, ends one, or does neither |
| `FeedProofs!ShownIsTrue` | `[]ShownIsLatest` while locks last | `PollsApart`, see below |
| `FeedProofs!MonitoringImplementsFeed` | `ImplementsFeed` while locks last | `Commit` is `Observe`; adding and muting are `Enable` and `Mute`; leaving, the scheduler's commit (clean-up and purge) and the end of a job whose baseline was purged are `Forget`; everything else but time stutters |
| `FeedProofs!PendingGoesWithWatch` | `PendingOutlivesClosing` while locks last | `LeaversSettled`: whom a tick has chosen to delete has nothing pending until it commits; the auction is closed, so it is not active, and no job is left at work that could claim (`NoPollOnClosed`) |
| `FeedProofs!RemindersAreCovered` | `[]RemindersCovered` while locks last | from the refinement and `NoReminderLost` |
| `FeedProofs!MonitoringAnnouncesChanges` | `Feed!ChangesAnnounced` while locks last | from the refinement and `EveryChangeAnnounced` |
| `PollingProofs!PollingTypeCorrect` | `[]TypeOK` | inductive |
| `PollingProofs!ErrorsStopOnTime` | `StopsAfterErrorsInARow`, which speaks of the time before a live job loses the poll lock | `Counted`: until then a job at work owns the poll lock, so what it has loaded of the error count is what the row says, and that is the number of failures in a row |
| `DeliveryProofs!DeliveryTypeCorrect` | `[]TypeOK` | inductive |
| `DeliveryProofs!SentIsDelivered` | `[]SentMeansDelivered` | `AcceptedMeansDelivered`: a job past the sender's success has delivered |
| `DeliveryProofs!HolderIsKept` | `HolderKeepsKey` | `Released` spares a key with another token, and nobody acquires a key that is there |
| `DeliveryProofs!OneSender` | at most one job holds the send lock, while locks last | `Owned`: the key is that of the job at work |
| `PartsProofs!PartsTypeCorrect` | `[]PartsTypeOK` | inductive, with `LoadedExists` for the chat |
| `PartsProofs!LimiterKeepsBudget` | `[]LimiterSharesBudget` | `LeftByLast`: the bucket is as the last caller left it, and its time stamp is where that caller's wait ends; `Paid`: since any of the callers, time stamp minus credit has grown by a period for each later one |
| `PartsProofs!SettingsKeptApart` | `ChatSettingsApart` | `LoadedExists`: a handler that has loaded the link of an auction has found its row; every handler but the one that adds or deletes writes one column |
| `PartsProofs!ComparisonsAgree` | `[]ChangeIffAlert` | `ChangeIffDecision`, for whatever is asked |
| `PartsProofs!RemindersAreParted` | `[]RemindersPartition` | `WindowsPartition` with the default thresholds |
| `PartsProofs!RemindersComeOnTime` | `[]RemindersOnTime` | `RemindersOnSchedule`, with the defaults of `config.py` computed by the prover |
| `PartsProofs!ListReachesAll` | `[]EveryItemReached`, for all lists, page sizes and pages asked for | an auction's quotient by the page size is its page (`EveryItemOnAPage`); the arrows lead to the pages before and behind, so what is closed under them has all pages, by induction in both directions (`EveryPageReached`) |
| `PartsProofs!ObjectFound` | in any text the object directly behind the marker is what `Extract` returns, unless an earlier marker leads to an object | see below |
| `PartsProofs!ObjectsAreCutOut` | `[]ObjectCutOut` | the pages of the run meet the hypotheses of `ObjectFound` |

**What is assumed of the locks.** `ExclusivePolls` has an assumption the
configuration does not meet (120 s is not below 90 s): it says what to change, and
the violated run shows what happens otherwise. The theorems of `FeedProofs`, and
`OneSender`, hold for every behaviour in which no live job loses its lock
(`LocksLast == [][LockLasts]_vars`): a key may expire, but only a dead job's. That
is a condition on the behaviour and not on a constant, so they also speak of the
configuration as it is, for as long as every poll is done within 90 s. Where
`LocksExpireEarly` is false every behaviour meets it (`LocksLastUnlessEarly`). That
`JobTimeout < LockTTL` is enough for it is `LockOutlivesJob`, a theorem about the
timers of `LockedJobs`; and what the two models make of their locks is the same
abstract `Mutex` (`JobsImplementMutex`, `PollsTakeTurns`). Only that the untimed lock
of `Monitoring` is the timed one of `LockedJobs` is read off the two modules. The
theorems of `MonitoringProofs` and the other theorems of `DeliveryProofs` do not
depend on any of this.

Two more results are about the time in which no live job has lost its lock, and are
false after it, as the configuration permits. *The error count*: two overlapping jobs
both load it and both write it plus one, or one clears what the other has counted, so
that the monitoring may stop too late or too early. `StopsAfterErrorsInARow` says so
itself (`~Overlapped`) and is checked in a run in which locks are lost. *The clean-up
of closed auctions*: the DELETE at `scheduler/scheduler.py:82` chooses the links, and
the commit follows at line 91. In between, the second of two overlapping polls may
claim one more alert for such a link, which is deleted before it is sent;
`PendingOutlivesClosing` is violated when it is checked with two workers and
`LocksExpireEarly`, so it is a property of the exclusive run and, in
`PendingGoesWithWatch`, has `LocksLast` as its hypothesis.

**The invariant of `FeedProofs`.** `ShownIsLatest` is not inductive: a poll writes
what it has computed from a row and a snapshot read earlier. `PollsApart` adds what
makes this harmless. `Owned`: a job at work owns the lock, so there is one.
`UpToDate`: what the job has loaded of the row (what is shown, when it was last
polled) is still what the row says, and the snapshot it compares with is still the
latest, unless it has been purged; the job has looked at the page no earlier than
the row's last poll and no later than now. `PollsInOrder`: the latest snapshot is no
younger than the last poll. `Subscribed`: the links agree with the history of who
has been watching. The refinement needs all of these: the feed compares each
observation with the one before, and the concrete poll with whatever it has read.

**The invariant of the rate limiter.** `BudgetShared` is about the whole seconds
that Redis's reply keeps of a wait, and speaks only of limiters whose key outlives
the waits. The proof bounds the exact waits first (`Shared`), from which `Paid`
follows inductively: a call takes its period from the credit or adds it to the time
stamp, and a refill that is cut off at the burst can only raise the difference.

**The extractor.** `Written` is the grammar of what the page's script writes:
texts in braces, made of characters, strings in quotes and such texts in braces,
where a string is made of characters other than quotes and backslashes and of
backslashes with any character behind them. Both are least sets closed under their
rules, so a set that is closed under the rules contains them (`StringsKept`,
`ContentsKept`). The sets taken are those of the texts that leave the scanner
where it was, without falling below the depth it had: in its string
(`KeepsString`), or in code with every brace closed (`KeepsDepth`). Hence no brace
of an object but its last closes the first (`ObjectScanned`), the balanced object
at its first brace is the whole of it (`CutOut`), and a marker leads to the object
directly behind it (`MarkerLeads`). That `Scan` is well defined is an induction over
the length of the text (`ScanRuns`). `PagesAssumption` names what the constants
must admit: a window of more than one token and objects within the length limit.

**Induction.** The library's induction theorems have an operator as a parameter and
cannot be used. `Induction` states the same for a set of naturals, and is proved
from the library's theorem that the order of the naturals is well-founded.

**Only model-checked.** The liveness properties `DeadHolderReleases`,
`EventuallySettled`, `PolledAgain` and `UnwatchedStops`, which are beyond TLAPS, as
is anything that needs `ENABLED` or a `RECURSIVE` operator (there is none here).

## Where the program differs from its documents

1. *Two jobs may poll one auction.* `workers/settings.py:32` lets a job run for
   120 s, the poll lock lives for 90 s and is not renewed; `README.md:34-36`
   promises that this never happens. (`LockedJobs_overlap_exclusive`)
2. *An alert may be sent twice* by two queued jobs, without any failure:
   `workers/tasks.py:94` reads the status before it takes the send lock, and the
   second job sends after the first has released it; `README.md:112-113` and
   `tasks.py:76` call sending idempotent. (`Delivery_once`)
3. *A watched auction may be stopped.* The scheduler counts the watchers and
   commits the stop later (`scheduler/scheduler.py:70`); a user who adds the
   auction in between finds it active and does not resume it. The comment at
   `services/auction_service.py:100-102` says the grace period rules that out.
   (`MonitoringMC_StopsOnlyUnwatched`)
4. *A bid may go unannounced.* Adding an auction stores no snapshot, so the
   first poll is only a baseline, and a bid placed in between is announced to
   nobody; `bot/handlers.py:41-42` promises every bid.
   (`MonitoringMC_NewBidsAnnounced`)
5. *The rate limiter limits nothing.* `providers/yahoo/client.py:42` drops the
   wait it is told; `README.md:93` and `README.md:140` promise one budget for all
   workers. Callers that waited would share it: that is `LimiterSharesBudget`.
   (`RateLimiter_budget`)
6. *An end time that becomes known fails the poll, for good.* The text of the
   alert is written as "from → to" and `notifications/renderer.py:61` formats the
   missing old end, which raises; the poll is rolled back, uncounted as an error,
   and the next one finds the same difference. `README.md:132-134` says the change
   is stored and followed. (`MonitoringMC_EndChangeStored`)

Seen in the models, but against no document: two users who add a new auction at
the same time, one of whom is never answered (`Conflicts`); a handler that has
saved a name closes whatever dialogue is open by then (`Label`); a row that was
sent may be marked failed by a second job; an auction stopped by an error is not
resumed by adding it again; and

- an alert whose sending always ends in an API error other than a blocked bot is never
  settled: the waits between the attempts (`notifications/sender.py:65-70`: 5, 10, 20,
  40, 80 s) exceed `job_timeout`, the cancelled job records nothing, and the scheduler
  queues the next one, which starts from the first attempt. `EventuallySettled` without
  its proviso is violated by this cycle.
- a reminder whose moment lies in the window of a poll without a snapshot to compare
  with is lost: the first poll after adding, and, after a purge of the only snapshot of
  a quiet auction, a poll like any other. `RemindersCovered` without `silent` is
  violated in `DomainMC` and in `MonitoringMC_exclusive`.
- a failed connection is raised as "gone" (`providers/yahoo/client.py:50-53`) and stops
  the monitoring for good, as a page that is gone does; a timeout is only counted.

## What is not modelled

- The conversion of the fields of a page (`schemas/yahoo.py`), validation of links,
  formatting of times and messages: functions on text without state, covered by
  unit tests. Of the renderer only whether a text can be written.
- The bot's menus, help and the view of one auction: they only read.
- The limits of the scheduler's queries (200 and 500 rows): more auctions than a
  tick takes would need a model of hundreds of rows.
- The sender's limit of concurrent messages: `Delivery` is about one alert, and a job
  that waits for its turn may be cancelled there as anywhere.
- The rate limiter in memory and `acquire_with_wait`, which nothing in `app/` uses.
- The API (it only reads), metrics, logging, start-up, migrations.
- Users: nothing in the program clears `is_active` or deletes a user.

## The plan

Done: the lock, the domain rules, the feed, monitoring, delivery, polling with its
schedulers and errors, the rate limiter, the extractor, the bot's chat, and the
proofs above: every invariant and every action property of the passing runs is
proved, and both refinements. What is left:

1. What a message that is sent twice goes back to, as an invariant to be checked and
   then proved: while locks last and nothing dies, whoever sends a second message had
   read the alert before the first was recorded.
2. A timed refinement from `LockedJobs` to the lock of `Monitoring`, so that
   `LocksLast` follows from `JobTimeout < LockTTL` without reading one lock for the
   other.
3. The row that was sent and becomes failed: which outcomes of two send jobs can
   follow one another, for all numbers of jobs.
