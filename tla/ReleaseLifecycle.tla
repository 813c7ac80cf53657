-------------------------- MODULE ReleaseLifecycle --------------------------
(***************************************************************************)
(* The allowed status changes of a Release                                 *)
(* (src/backend/app/release_lifecycle.py).  The Stream has no lifecycle:   *)
(* these operators are only ever asked about a container of kind           *)
(* "release".                                                              *)
(***************************************************************************)

ReleaseStatuses == {"planning", "development", "qa", "released", "cancelled"}
FinalStatuses == {"released", "cancelled"}

Manual(from) ==
    CASE from = "planning"    -> {"development"}
      [] from = "development" -> {"qa"}
      [] from = "qa"          -> {"development"}
      [] OTHER                -> {}

\* can_change for a Release: Released only through Ship and only from QA,
\* Cancelled only while no Done item is in it, nothing out of a final status.
CanChange(from, to, hasDoneItems, viaShip) ==
    /\ from \notin FinalStatuses
    /\ to # from
    /\ CASE to = "released"  -> from = "qa" /\ viaShip
         [] to = "cancelled" -> ~hasDoneItems
         [] OTHER            -> to \in Manual(from)

CanShip(from) == CanChange(from, "released", FALSE, TRUE)
=============================================================================
