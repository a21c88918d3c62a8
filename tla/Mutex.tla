-------------------------------- MODULE Mutex --------------------------------
(***************************************************************************)
(* What the poll lock promises to the rest of the system: the critical     *)
(* section (one poll of one auction) has at most one occupant, and is      *)
(* entered only when empty.                                                *)
(***************************************************************************)
CONSTANTS Slots, None

VARIABLE holder

Init == holder = None

Enter(s) == holder = None /\ holder' = s

Leave == holder # None /\ holder' = None

Next == Leave \/ \E s \in Slots : Enter(s)

Spec == Init /\ [][Next]_holder
=============================================================================
