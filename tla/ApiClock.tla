------------------------------ MODULE ApiClock ------------------------------
(***************************************************************************)
(* The clock that the waits, the filters and the limiters of the API read. *)
(***************************************************************************)
CONSTANT MaxTime     \* bound on the clock

VARIABLE now         \* in the unit of the waits or of the intervals
=============================================================================
