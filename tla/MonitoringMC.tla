---------------------------- MODULE MonitoringMC ----------------------------
(***************************************************************************)
(* Monitoring on a small auction: its end may be unknown, it gets a bid,   *)
(* it is extended, it closes.  A unit of time stands for the distance      *)
(* between two reminders, and every polling interval is one unit.          *)
(***************************************************************************)
EXTENDS Monitoring, TLC

Page(bids, end, closed) ==
    [price |-> bids, bids |-> bids, end |-> end, buyNow |-> None,
     winner |-> None, newBid |-> bids > 0, closed |-> closed]

Bidding   == {Page(0, 2, FALSE), Page(1, 2, FALSE), Page(1, 2, TRUE)}
Closing   == {Page(0, 1, FALSE), Page(0, 1, TRUE)}
Extending == {Page(0, None, FALSE), Page(0, 2, FALSE), Page(1, 3, FALSE), Page(1, 3, TRUE)}

Lengthening == {p \in Extending : p.end # None}

Reminders == [k \in TimedKinds |-> CASE k = "30m" -> 3 [] k = "15m" -> 2 [] k = "5m" -> 1]

EveryTick == [b \in Bounds |-> 1]

WorkerSymmetry == Permutations(Workers)
=============================================================================
