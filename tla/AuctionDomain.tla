--------------------------- MODULE AuctionDomain ---------------------------
(***************************************************************************)
(* The pure part of the program (app/domain): what one observation of an   *)
(* auction is, how two of them differ, which alerts a poll decides on, the *)
(* key that makes an alert unique, and how soon to poll again.             *)
(*                                                                         *)
(* Times are integers in a unit of the instance's choice.  Fields of the   *)
(* source that no decision reads (title, start time, quantity) are left    *)
(* out.                                                                    *)
(***************************************************************************)
EXTENDS Values

CONSTANTS Minute,       \* length of a minute in units of time
          Threshold,    \* [TimedKinds -> how long before the end a reminder is due]
          Interval      \* [Bounds -> polling interval of the bucket above that bound]

TimedKinds == {"30m", "15m", "5m"}
StateKinds == {"change", "extension", "closed"}
Kinds == TimedKinds \cup StateKinds

\* Lower bounds of the polling buckets; the lowest bucket has no lower bound
\* and is filed under 0.
Bounds == {b * Minute : b \in {0, 15, 30, 60, 6 * 60, 24 * 60}}

ASSUME MinuteAssumption == Minute \in Nat \ {0}
ASSUME ThresholdAssumption == Threshold \in [TimedKinds -> Nat]
ASSUME IntervalAssumption == Interval \in [Bounds -> Nat \ {0}]

\* What the provider reads off the page: any field but "closed" may be absent.
AuctionState ==
    [price : Maybe(Nat), bids : Maybe(Nat), end : Maybe(Int), buyNow : Maybe(Nat),
     winner : Maybe(BOOLEAN), newBid : Maybe(BOOLEAN), closed : BOOLEAN]

-----------------------------------------------------------------------------
(* The difference of two observations, p the earlier and c the later one.  *)

PriceThreshold == 1

Distance(a, b) == IF a < b THEN b - a ELSE a - b

PriceChanged(p, c) ==
    IF p.price # None /\ c.price # None
    THEN Distance(p.price, c.price) >= PriceThreshold
    ELSE p.price # c.price

HasChanges(p, c) ==
    \/ PriceChanged(p, c)
    \/ \E field \in {"bids", "end", "buyNow", "closed", "winner"} : p[field] # c[field]

Extended(p, c) == p.end # None /\ c.end # None /\ c.end > p.end

NewBidDetected(p, c) ==
    \/ c.newBid = TRUE
    \/ p.bids # None /\ c.bids # None /\ c.bids > p.bids
    \/ p.price # None /\ c.price # None /\ c.price # p.price

-----------------------------------------------------------------------------
(* Decisions *)

\* Mutated form of TimedDecisions: the window is open at both ends.
TimedDecisionsStrict(c, previousPoll, now) ==
    {k \in TimedKinds : /\ c.end # None
                        /\ previousPoll < c.end - Threshold[k]
                        /\ c.end - Threshold[k] < now}

\* Mutated form of TimedDecisions: the window is closed at its start as well.
TimedDecisionsTwice(c, previousPoll, now) ==
    {k \in TimedKinds : /\ c.end # None
                        /\ previousPoll <= c.end - Threshold[k]
                        /\ c.end - Threshold[k] <= now}

\* The reminders whose moment lies after the previous poll, up to this one.
TimedDecisions(c, previousPoll, now) ==
    {k \in TimedKinds : /\ c.end # None
                        /\ previousPoll < c.end - Threshold[k]
                        /\ c.end - Threshold[k] <= now}

Closes(p, c) == c.closed /\ ~p.closed

\* Mutated form of StateDecisions: the elif of the extension swallows the rest.
StateDecisionsEither(p, c) ==
    IF Closes(p, c) THEN {"closed"}
    ELSE IF Extended(p, c) THEN {"extension"}
    ELSE {k \in {"change"} : HasChanges(p, c) /\ ~Extended(p, c)
                               /\ (PriceChanged(p, c) \/ p.bids # c.bids)}

\* Mutated form of StateDecisions: the page's own flag of a new bid suffices.
StateDecisionsOnFlag(p, c) ==
    IF Closes(p, c) THEN {"closed"}
    ELSE {k \in {"extension"} : Extended(p, c)} \cup
         {k \in {"change"} : HasChanges(p, c) \/ NewBidDetected(p, c)}

\* Closing silences the rest; an extension is joined by a change only when
\* there is some sign of a bid.
StateDecisions(p, c) ==
    IF Closes(p, c) THEN {"closed"}
    ELSE {k \in {"extension"} : Extended(p, c)} \cup
         {k \in {"change"} :
            /\ HasChanges(p, c)
            /\ \/ ~Extended(p, c)
               \/ PriceChanged(p, c) \/ p.bids # c.bids \/ NewBidDetected(p, c)}

\* The first observation (p absent) is only the baseline.
Decisions(p, c, previousPoll, now) ==
    IF p = None THEN {}
    ELSE TimedDecisions(c, previousPoll, now) \cup StateDecisions(p, c)

\* Mutated form of DedupKey: every alert is keyed by the end time.
DedupKeyByEnd(kind, c, snapshot) == c.end

\* Reminders are keyed by the end time they announce, the other alerts by the
\* snapshot that the poll stored; None stands for the ValueError.
DedupKey(kind, c, snapshot) == IF kind \in TimedKinds THEN c.end ELSE snapshot

-----------------------------------------------------------------------------
(* Adaptive polling *)

\* Mutated form of PollingInterval: the bucket is looked up by its upper bound.
PollingIntervalAbove(untilEnd) ==
    IF untilEnd = None THEN Interval[60 * Minute]
    ELSE Interval[CHOOSE b \in Bounds :
            /\ b >= untilEnd \/ b = 24 * 60 * Minute
            /\ \A other \in Bounds : other >= untilEnd => b <= other]

\* The interval of the highest bucket whose lower bound is exceeded; an
\* unknown end counts as the bucket of 1 to 6 hours.
PollingInterval(untilEnd) ==
    IF untilEnd = None THEN Interval[60 * Minute]
    ELSE Interval[CHOOSE b \in Bounds :
            /\ untilEnd > b \/ b = 0
            /\ \A other \in Bounds : untilEnd > other => other <= b]

UntilEnd(state, observed) == IF state.end = None THEN None ELSE state.end - observed
=============================================================================
