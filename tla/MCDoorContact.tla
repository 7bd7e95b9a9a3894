----------------------------- MODULE MCDoorContact -----------------------------
(***************************************************************************)
(* Model checking of DoorContact: what it misses.                          *)
(***************************************************************************)
EXTENDS DoorContact

(* The alarm to the letter: every door that opens with no release is reported
   forced.  A saved setting (DoorContactReload.cfg) and a release half a wrap
   of the clock old (DoorContactStale.cfg) each leave one unreported.      *)
NoneMissed == bareOpening /\ bare > Debounce + 2 * MaxLag => door.forced

=============================================================================
