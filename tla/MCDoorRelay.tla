----------------------------- MODULE MCDoorRelay -----------------------------
(***************************************************************************)
(* Model checking of DoorRelay: the requests its configuration uses.       *)
(***************************************************************************)
EXTENDS DoorRelay

AllKinds == {"tap", "exit", "remote"}

=============================================================================
