------------------------------ MODULE MCPairing ------------------------------
(***************************************************************************)
(* Model checking of Pairing: two backends whose revisions differ, the one *)
(* a door is moved to being the lower.                                     *)
(***************************************************************************)
EXTENDS Pairing, TLC

CONSTANTS first, second

Backends == {first, second}

Revisions == (first :> 2) @@ (second :> 1)

SameRevision == (first :> 1) @@ (second :> 1)

=============================================================================
