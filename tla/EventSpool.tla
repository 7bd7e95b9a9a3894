------------------------------ MODULE EventSpool ------------------------------
(***************************************************************************)
(* What lib/EventLog promises (EventLog.h, "IT IS A BUFFER, NOT AN         *)
(* ARCHIVE"): a first-in first-out store of events between the door and    *)
(* the cloud.  An event leaves it only when the cloud has it, when the     *)
(* store is full and it is the oldest, or when a fault of the flash or of  *)
(* the power takes it; until a fault, none is lost.  A restart may bring   *)
(* back events that had already left; the cloud keeps one copy of each, so *)
(* that is harmless.  EventLog is shown to implement this specification.   *)
(***************************************************************************)
EXTENDS Naturals, Sequences, SequencesExt

CONSTANT Events      \* the identities an event can have: (bootId, idx)

VARIABLES
  pending,           \* events waiting, oldest first
  delivered,         \* events the cloud holds
  dropped,           \* events given up because the store was full
  lost,              \* events a fault may have cost
  faulted            \* has there been a fault?

Gone == delivered \cup dropped \cup lost

Init ==
  /\ pending = <<>> /\ delivered = {} /\ dropped = {} /\ lost = {}
  /\ faulted = FALSE

\* The door records an event, with an identity it has never used.
Record(e) ==
  /\ e \notin ToSet(pending) \cup Gone
  /\ pending' = Append(pending, e)
  /\ lost' \in IF faulted THEN {lost, lost \cup {e}} ELSE {lost}
  /\ UNCHANGED <<delivered, dropped, faulted>>

\* After a fault a new event may go where it will not be found.
RecordInVain(e) ==
  /\ e \notin ToSet(pending) \cup Gone /\ faulted
  /\ lost' = lost \cup {e}
  /\ UNCHANGED <<pending, delivered, dropped, faulted>>

\* The store is full: the oldest event is given up.
DropOldest ==
  /\ pending # <<>>
  /\ dropped' = dropped \cup {Head(pending)}
  /\ pending' = Tail(pending)
  /\ UNCHANGED <<delivered, lost, faulted>>

\* ... usually to make room for the one being recorded.
DropAndRecord(e) ==
  /\ pending # <<>> /\ e \notin ToSet(pending) \cup Gone
  /\ dropped' = dropped \cup {Head(pending)}
  /\ \/ /\ pending' = Append(Tail(pending), e)
        /\ lost' \in IF faulted THEN {lost, lost \cup {e}} ELSE {lost}
     \/ pending' = Tail(pending) /\ faulted /\ lost' = lost \cup {e}
  /\ UNCHANGED <<delivered, faulted>>

\* The cloud stores some of the events waiting.
Deliver(es) ==
  /\ es \subseteq ToSet(pending) \cup dropped
  /\ delivered' = delivered \cup es
  /\ UNCHANGED <<pending, dropped, lost, faulted>>

\* The cloud's confirmation retires the oldest events, all of which it holds.
Retire(n) ==
  /\ ToSet(SubSeq(pending, 1, n)) \subseteq Gone
  /\ pending' = SubSeq(pending, n + 1, Len(pending))
  /\ UNCHANGED <<delivered, dropped, lost, faulted>>

\* A restart forgets how far retirement had got, never an event.
Restart(n, p) ==
  /\ ToSet(SubSeq(p, 1, n)) \subseteq Gone
  /\ SubSeq(p, n + 1, Len(p)) = pending
  /\ pending' = p
  /\ faulted' \in {faulted, TRUE}
  /\ UNCHANGED <<delivered, dropped, lost>>

\* A fault takes some of the events waiting, and what is left keeps its order.
Fault(m, n) ==
  /\ faulted' = TRUE
  /\ pending' = SubSeq(pending, m, n)
  /\ ToSet(pending) \subseteq ToSet(pending') \cup Gone'
  /\ lost \subseteq lost' /\ lost' \subseteq Gone \cup ToSet(pending)
  /\ UNCHANGED <<delivered, dropped>>

Next ==
  \/ \E e \in Events : Record(e) \/ RecordInVain(e) \/ DropAndRecord(e)
  \/ DropOldest
  \/ \E es \in SUBSET (ToSet(pending) \cup dropped) : Deliver(es)
  \/ \E n \in 1 .. Len(pending) : Retire(n)
  \/ \E n \in 0 .. Len(pending') : Restart(n, pending')
  \/ \E m, n \in 0 .. Len(pending) : Fault(m + 1, n)

Spec == Init /\ [][Next]_<<pending, delivered, dropped, lost, faulted>>

=============================================================================
