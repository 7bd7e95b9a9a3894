--------------------------- MODULE MCUnlockSchedule ---------------------------
(***************************************************************************)
(* Model checking of UnlockSchedule: schedules the backend may hold, and   *)
(* where power may fail.                                                   *)
(***************************************************************************)
EXTENDS UnlockSchedule

Overnight == [en |-> TRUE, start |-> 2, end |-> 1, days |-> {0}]

SomeSchedules == {Default, Overnight}

Anywhere == 0 .. 8

=============================================================================
