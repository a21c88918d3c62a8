------------------------------- MODULE Values -------------------------------
(***************************************************************************)
(* The absent value: Python's None and SQL's NULL.                         *)
(***************************************************************************)
EXTENDS Integers

CONSTANT None

ASSUME NoneIsNoNumber == None \notin Int

Maybe(S) == S \cup {None}
=============================================================================
