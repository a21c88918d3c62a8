---------------------------- MODULE RateLimiter ----------------------------
(***************************************************************************)
(* The token bucket in Redis that all workers share                        *)
(* (app/infrastructure/redis_rate_limit.py) and the client that asks it    *)
(* before every request (app/providers/yahoo/client.py).                   *)
(*                                                                         *)
(* Tokens are counted in units of time: one token is worth Period units.   *)
(* The script never refuses: to a caller it has no token for it answers    *)
(* how long to wait, empties the bucket and moves its time stamp to the    *)
(* end of that wait, so that the next caller is told to wait for longer.   *)
(***************************************************************************)
EXTENDS Values, Sequences

CONSTANTS Period,      \* 1 / yahoo_rate_limit
          Second,      \* units in a second
          Burst,       \* tokens the bucket holds
          KeyTTL,      \* the key's time to live, 60 s
          MaxNow, MaxCalls    \* bounds

VARIABLES now,
          bucket,      \* the hash under yahoo:rate-limit, or None
          answers      \* history: the calls and what was answered, in order

vars == <<now, bucket, answers>>

Buckets == [credit : Nat, ts : Nat, expires : Nat]

TypeOK == /\ now \in 0..MaxNow
          /\ bucket \in Maybe(Buckets)
          /\ answers \in Seq([at : Nat, wait : Nat]) /\ Len(answers) <= MaxCalls

Init == now = 0 /\ bucket = None /\ answers = <<>>

-----------------------------------------------------------------------------
\* Mutated form of Credit: a full bucket goes on filling.
CreditUncapped(b, t) ==
    IF b = None \/ t >= b.expires THEN Burst * Period ELSE b.credit + t - b.ts

\* What the bucket is worth to a call at time t: a key that is gone is full.
\* It is negative when earlier callers have been told to wait for longer.
Credit(b, t) ==
    IF b = None \/ t >= b.expires \/ b.credit + t - b.ts > Burst * Period
    THEN Burst * Period
    ELSE b.credit + t - b.ts

\* Mutated form of Left: a refused caller does not push the time stamp on.
LeftAsItWas(credit, t) ==
    IF credit >= Period
    THEN [credit |-> credit - Period, ts |-> t, expires |-> t + KeyTTL]
    ELSE [credit |-> 0, ts |-> t, expires |-> t + KeyTTL]

\* Mutated form of Left: a refused caller pays as well.
LeftOwing(credit, t) ==
    [credit |-> credit - Period, ts |-> t, expires |-> t + KeyTTL]

\* What the script writes back.
Left(credit, t) ==
    IF credit >= Period
    THEN [credit |-> credit - Period, ts |-> t, expires |-> t + KeyTTL]
    ELSE [credit |-> 0, ts |-> t + Period - credit, expires |-> t + KeyTTL]

Wait(credit) == IF credit >= Period THEN 0 ELSE Period - credit

\* Redis cuts the numbers of a script's reply down to integers: whole seconds.
Replied(wait) == wait - (wait % Second)

-----------------------------------------------------------------------------
Tick == now < MaxNow /\ now' = now + 1 /\ UNCHANGED <<bucket, answers>>

\* fetch_html: the client awaits the script and sends its request at once.
Fetch ==
    /\ Len(answers) < MaxCalls
    /\ LET credit == Credit(bucket, now)
       IN  /\ bucket' = Left(credit, now)
           /\ answers' = Append(answers, [at |-> now, wait |-> Wait(credit)])
    /\ UNCHANGED now

Next == Tick \/ Fetch

Spec == Init /\ [][Next]_vars

-----------------------------------------------------------------------------
(* Properties *)

\* No caller is told to wait for so long that the key expires before the bucket
\* would have filled up again.
KeyOutlivesWaits ==
    \A i \in 1..Len(answers) : answers[i].wait + Burst * Period <= KeyTTL

\* One budget for all workers (redis_rate_limit.py:10-14), if they wait as they
\* are told: of any n requests, the first Burst go together and each of the
\* others takes its Period.  What Redis cuts off is less than a second in all.
BudgetShared ==
    KeyOutlivesWaits =>
        \A i, j \in 1..Len(answers) : i < j =>
            answers[j].at + Replied(answers[j].wait) + Second
                > answers[i].at + Replied(answers[i].wait) + (j - i + 1 - Burst) * Period

\* The requests themselves keep to the budget (README.md:93, README.md:140).
RequestsInBudget ==
    \A i, j \in 1..Len(answers) : i < j =>
        answers[j].at >= answers[i].at + (j - i + 1 - Burst) * Period
=============================================================================
