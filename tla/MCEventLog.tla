------------------------------ MODULE MCEventLog ------------------------------
(***************************************************************************)
(* Model checking of EventLog.                                             *)
(***************************************************************************)
EXTENDS EventLog

(* The promise of EventLog.h:127 without the exception for faults, looked at
   where power failed and there is no file: nothing was waiting.  Violated:
   EventLogLostRename.cfg.                                                   *)
NothingLostWithFile ==
  pc = "off" /\ ~exists => recorded \subseteq cloud \cup dropped

(* CursorsCovered without the exception for faults.  Violated through a failed
   rename, after which new records are below the cursors: EventLogPassed.cfg. *)
NeverPassed ==
  \A i \in 1 .. Len(Valid(file)) :
    /\ pc = "on" /\ i <= acked => file[i] \in cloud \cup dropped
    /\ pc = "off" /\ exists /\ i <= nvsAcked => file[i] \in cloud \cup dropped

=============================================================================
