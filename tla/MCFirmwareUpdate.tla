--------------------------- MODULE MCFirmwareUpdate ---------------------------
(***************************************************************************)
(* Model checking of FirmwareUpdate: two kinds of board whose names give   *)
(* the same key, a door of one of them or of each.                         *)
(***************************************************************************)
EXTENDS FirmwareUpdate, TLC

CONSTANTS d1, d2, bA, bB, key

OneDoor == {d1}
TwoDoors == {d1, d2}
TwoBoards == {bA, bB}
DoorBoard == [d \in Doors |-> IF d = d1 THEN bA ELSE bB]
SharedKey == [b \in Boards |-> key]

=============================================================================
