--------------------------- MODULE MCNetworkChange ---------------------------
(***************************************************************************)
(* Model checking of NetworkChange: a network that is joined faster than   *)
(* begin() waits, and one that is not.                                     *)
(***************************************************************************)
EXTENDS NetworkChange, TLC

CONSTANTS home, shed

Air == {home, shed}

Joins == (home :> 2) @@ (shed :> 1)

\* Recovers without its exception: SlowRejoin.cfg shows that it fails.
JoinedForGood ==
  <>[](Opens(nvs) /\ nvs.ssid \in up /\ ~forced) => <>[]Online

\* KeptWorks without the stale link's exception: StaleJoin.cfg shows that it fails.
StoredAfterJoining == torn \/ nvs \in entered

=============================================================================
