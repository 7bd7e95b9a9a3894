------------------------------ MODULE MCEventTime ------------------------------
(***************************************************************************)
(* Model checking of EventTime.                                            *)
(***************************************************************************)
EXTENDS EventTime

\* OneTime without its exception for handlers that fail: EventTimeAdrift.cfg shows
\* that it fails.
OneTimeAlways ==
  \A r, s \in rows :
    r.event = s.event /\ r.kind # "unknown" /\ s.kind # "unknown" => r.at = s.at

=============================================================================
