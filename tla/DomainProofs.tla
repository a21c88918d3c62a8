---------------------------- MODULE DomainProofs ----------------------------
(***************************************************************************)
(* Facts about the decisions of AuctionDomain for all observations, times, *)
(* thresholds and intervals.                                               *)
(***************************************************************************)
EXTENDS AuctionDomain, TLAPS

\* Two prices within the threshold of one unit are the same price: the
\* threshold of diff.py:42 hides no change of an integer price.
LEMMA PriceChangedMeansDiffers ==
    ASSUME NEW p \in AuctionState, NEW c \in AuctionState
    PROVE  PriceChanged(p, c) <=> p.price # c.price
<1>1. p.price \in Maybe(Nat) /\ c.price \in Maybe(Nat)
    BY DEF AuctionState
<1>2. CASE p.price # None /\ c.price # None
    <2>1. p.price \in Nat /\ c.price \in Nat
        BY <1>1, <1>2 DEF Maybe
    <2> QED BY <1>2, <2>1 DEF PriceChanged, Distance, PriceThreshold
<1>3. CASE p.price = None \/ c.price = None
    BY <1>3 DEF PriceChanged
<1> QED BY <1>2, <1>3

\* A poll stores a snapshot exactly when it has something to say: two
\* observations differ if and only if some alert other than a reminder is
\* decided (monitoring_service.py:84, domain/notifications.py:71-88).
THEOREM ChangeIffDecision ==
    ASSUME NEW p \in AuctionState, NEW c \in AuctionState
    PROVE  HasChanges(p, c) <=> StateDecisions(p, c) # {}
<1>1. p.closed \in BOOLEAN /\ c.closed \in BOOLEAN
    BY DEF AuctionState
<1>2. CASE Closes(p, c)
    <2>1. p.closed # c.closed
        BY <1>2 DEF Closes
    <2>2. HasChanges(p, c)
        BY <2>1 DEF HasChanges
    <2> QED BY <1>2, <2>2 DEF StateDecisions
<1>3. CASE ~Closes(p, c) /\ Extended(p, c)
    <2>1. p.end # c.end
        <3>1. p.end \in Int /\ c.end \in Int /\ c.end > p.end
            BY <1>3 DEF Extended, AuctionState, Maybe
        <3> QED BY <3>1
    <2>2. HasChanges(p, c)
        BY <2>1 DEF HasChanges
    <2>3. "extension" \in StateDecisions(p, c)
        BY <1>3 DEF StateDecisions
    <2> QED BY <2>2, <2>3
<1>4. CASE ~Closes(p, c) /\ ~Extended(p, c)
    <2>1. StateDecisions(p, c) = {k \in {"change"} : HasChanges(p, c)}
        BY <1>4 DEF StateDecisions
    <2> QED BY <2>1
<1> QED BY <1>2, <1>3, <1>4

\* The key of a decision of a poll with a changed page is never absent, so
\* dedup_key_for never raises (domain/notifications.py:100-106): reminders
\* need an end time, the other alerts a snapshot.
THEOREM KeyDefined ==
    ASSUME NEW p \in AuctionState, NEW c \in AuctionState, NEW from, NEW now,
           NEW snapshot \in Maybe(Nat), HasChanges(p, c) => snapshot # None,
           NEW k \in Decisions(p, c, from, now)
    PROVE  DedupKey(k, c, snapshot) # None
<1>1. k \in TimedDecisions(c, from, now) \cup StateDecisions(p, c)
    BY DEF Decisions
<1>2. CASE k \in TimedKinds
    <2>1. "change" \notin TimedKinds /\ "extension" \notin TimedKinds /\ "closed" \notin TimedKinds
        BY DEF TimedKinds
    <2>2. k \notin StateDecisions(p, c)
        BY <1>2, <2>1 DEF StateDecisions
    <2>3. c.end # None
        BY <1>1, <2>2 DEF TimedDecisions
    <2> QED BY <1>2, <2>3 DEF DedupKey
<1>3. CASE k \notin TimedKinds
    <2>1. k \in StateDecisions(p, c)
        BY <1>1, <1>3 DEF TimedDecisions
    <2>2. snapshot # None
        BY <2>1, ChangeIffDecision
    <2> QED BY <1>3, <2>2 DEF DedupKey
<1> QED BY <1>2, <1>3

\* However polls cut up the time, each reminder falls into exactly one of
\* their windows: nothing is announced twice, nothing is skipped.
THEOREM WindowsPartition ==
    ASSUME NEW c \in AuctionState, NEW x \in Int, NEW y \in Int, NEW z \in Int,
           x <= y, y <= z
    PROVE  /\ TimedDecisions(c, x, y) \cap TimedDecisions(c, y, z) = {}
           /\ TimedDecisions(c, x, y) \cup TimedDecisions(c, y, z)
                = TimedDecisions(c, x, z)
<1> SUFFICES ASSUME NEW k \in TimedKinds
             PROVE  /\ ~(k \in TimedDecisions(c, x, y) /\ k \in TimedDecisions(c, y, z))
                    /\ k \in TimedDecisions(c, x, y) \/ k \in TimedDecisions(c, y, z)
                         <=> k \in TimedDecisions(c, x, z)
    BY DEF TimedDecisions
<1>1. CASE c.end = None
    BY <1>1 DEF TimedDecisions
<1>2. CASE c.end # None
    <2>1. c.end - Threshold[k] \in Int
        BY <1>2, ThresholdAssumption DEF AuctionState, Maybe
    <2> QED BY <2>1 DEF TimedDecisions
<1> QED BY <1>1, <1>2

-----------------------------------------------------------------------------
\* The bucket that PollingInterval chooses is the one whose bound qualifies.
LEMMA IntervalOf ==
    ASSUME NEW untilEnd \in Int, NEW b \in Bounds,
           untilEnd > b \/ b = 0,
           \A other \in Bounds : untilEnd > other => other <= b
    PROVE  PollingInterval(untilEnd) = Interval[b]
<1> DEFINE Fits(x) == /\ untilEnd > x \/ x = 0
                      /\ \A other \in Bounds : untilEnd > other => other <= x
<1>1. Bounds \subseteq Nat
    BY MinuteAssumption DEF Bounds
<1>2. ASSUME NEW x \in Bounds, Fits(x) PROVE x = b
    <2>1. x \in Nat /\ b \in Nat
        BY <1>1
    <2>2. CASE x = 0 \/ b = 0
        BY <1>2, <2>1, <2>2
    <2>3. CASE x # 0 /\ b # 0
        <3>1. untilEnd > x /\ untilEnd > b
            BY <1>2, <2>3
        <3>2. x <= b /\ b <= x
            BY <1>2, <3>1
        <3> QED BY <2>1, <3>2
    <2> QED BY <2>2, <2>3
<1>3. (CHOOSE x \in Bounds : Fits(x)) = b
    <2>1. Fits(b)
        OBVIOUS
    <2> QED BY <1>2, <2>1
<1>4. untilEnd # None
    BY NoneIsNoNumber
<1> QED BY <1>3, <1>4 DEF PollingInterval

\* With the default thresholds and intervals (config.py:28-33, 42-44) a poll on
\* time is never more than two minutes late for a reminder that was still to
\* come, whatever the remaining time.
THEOREM RemindersOnSchedule ==
    ASSUME Threshold["30m"] = 30 * Minute, Threshold["15m"] = 15 * Minute,
           Threshold["5m"] = 5 * Minute,
           Interval[0] = Minute, Interval[15 * Minute] = Minute,
           Interval[30 * Minute] = 2 * Minute, Interval[60 * Minute] = 10 * Minute,
           Interval[360 * Minute] = 30 * Minute, Interval[1440 * Minute] = 360 * Minute,
           NEW remaining \in Int, NEW k \in TimedKinds, remaining > Threshold[k]
    PROVE  remaining - PollingInterval(remaining) >= Threshold[k] - 2 * Minute
<1>1. Bounds = {0, 15 * Minute, 30 * Minute, 60 * Minute, 360 * Minute, 1440 * Minute}
    BY MinuteAssumption DEF Bounds
<1>2. Minute \in Nat /\ Minute > 0
    BY MinuteAssumption
<1>3. Threshold[k] \in {30 * Minute, 15 * Minute, 5 * Minute}
    BY DEF TimedKinds
<1>4. CASE remaining > 1440 * Minute
    <2>1. PollingInterval(remaining) = Interval[1440 * Minute]
        BY <1>1, <1>2, <1>4, IntervalOf
    <2> QED BY <1>2, <1>3, <1>4, <2>1
<1>5. CASE remaining > 360 * Minute /\ remaining <= 1440 * Minute
    <2>1. PollingInterval(remaining) = Interval[360 * Minute]
        BY <1>1, <1>2, <1>5, IntervalOf
    <2> QED BY <1>2, <1>3, <1>5, <2>1
<1>6. CASE remaining > 60 * Minute /\ remaining <= 360 * Minute
    <2>1. PollingInterval(remaining) = Interval[60 * Minute]
        BY <1>1, <1>2, <1>6, IntervalOf
    <2> QED BY <1>2, <1>3, <1>6, <2>1
<1>7. CASE remaining > 30 * Minute /\ remaining <= 60 * Minute
    <2>1. PollingInterval(remaining) = Interval[30 * Minute]
        BY <1>1, <1>2, <1>7, IntervalOf
    <2> QED BY <1>2, <1>3, <1>7, <2>1
<1>8. CASE remaining > 15 * Minute /\ remaining <= 30 * Minute
    <2>1. PollingInterval(remaining) = Interval[15 * Minute]
        BY <1>1, <1>2, <1>8, IntervalOf
    <2> QED BY <1>2, <1>3, <1>8, <2>1
<1>9. CASE remaining <= 15 * Minute
    <2>1. PollingInterval(remaining) = Interval[0]
        BY <1>1, <1>2, <1>9, IntervalOf
    <2>2. PollingInterval(remaining) = Minute
        BY <2>1
    <2>3. Threshold[k] \in Int
        BY <1>2, <1>3
    <2> QED BY <1>2, <2>2, <2>3
<1> QED BY <1>2, <1>4, <1>5, <1>6, <1>7, <1>8, <1>9
=============================================================================
