------------------------------ MODULE EventTime ------------------------------
(***************************************************************************)
(* When did a door event happen?  cloud/api/src/eventTime.ts decides,      *)
(* storage.ts files the event under the answer, and functions/sync.ts      *)
(* fixes the start of the door's boot the answer is reckoned from.         *)
(*                                                                         *)
(* A door has no battery behind its clock: an event carries its place in   *)
(* the door's own sequence, how long the door had been up, and the time if *)
(* the door knew it.  The backend files it under a time observed, a time   *)
(* derived from the start of the current boot, or a placement between its  *)
(* neighbours, with bounds.  The row's key holds that time.                *)
(*                                                                         *)
(* Time runs in steps of which Second make a second: the door's clock and  *)
(* the start of a boot it reports are in whole seconds, its uptime and the *)
(* backend's clock are not.  The door's clock is right when it has one.    *)
(*                                                                         *)
(* Names that EventLog has too carry the word Time here, or Id.            *)
(***************************************************************************)
EXTENDS Integers, Sequences, FiniteSets, FiniteSetsExt

CONSTANTS
  Second,         \* steps in a second
  Tolerance,      \* FUTURE_TOLERANCE_MS
  Month,          \* steps in a month, the span of a partition
  BatchSize,      \* UPLOAD_BATCH
  None,           \* not known
  Personless,     \* which of the events, by number, are about the door itself
  MaxNow,         \* bound: the last instant
  MaxEvents,      \* bound: events recorded
  MaxBootId,      \* bound: boots of the door
  MaxFaults       \* bound: writes that fail, calls that are lost

ASSUME EventTimeAssumption ==
  /\ Second \in Nat \ {0} /\ Month \in Nat \ {0}
  /\ Tolerance \in Nat /\ Second <= Tolerance
  /\ BatchSize \in Nat \ {0} /\ Personless \subseteq Nat /\ None \notin Int
  /\ MaxNow \in Nat /\ Second <= MaxNow
  /\ MaxEvents \in Nat /\ MaxBootId \in Nat \ {0} /\ MaxFaults \in Nat

VARIABLES
  now,            \* the time, which is the backend's clock
  bootId,         \* the door's boot number
  start,          \* when that boot began
  clock,          \* the door's clock has been set
  events,         \* every event the door has recorded, in order
  ackedTo,        \* how many of them the backend has acknowledged
  pin,            \* the door's row: the boot number and the start stored with it
  call,           \* the sync in progress
  rows,           \* what is stored: in which table, of which event, under what time
  faults,
  adrift          \* history: events dated from a start that was never stored

door == <<bootId, start, clock, events>>
timeVars == <<now, door, ackedTo, pin, call, rows, faults, adrift>>

Tables == {"person", "door"}
Instants == 0 .. MaxNow
Placements == -MaxEvents .. MaxNow + Tolerance + Second
Bound == Placements \cup {None}
EventIds == 1 .. MaxEvents
NoCall == [pc |-> "none", first |-> 0, last |-> 0, boot |-> 0, bootStart |-> None,
           whole |-> FALSE, heard |-> FALSE]

TimeTypeOK ==
  /\ now \in Instants /\ bootId \in 1 .. MaxBootId /\ start \in Instants
  /\ clock \in BOOLEAN /\ ackedTo \in 0 .. Len(events) /\ Len(events) <= MaxEvents
  /\ \A i \in 1 .. Len(events) : events[i] \in
       [boot : 1 .. MaxBootId, epoch : Instants \cup {None}, uptime : Instants,
        at : Instants]
  /\ pin \in [boot : 1 .. MaxBootId, start : Instants] \cup {[boot |-> 0, start |-> None]}
  /\ call \in [pc : {"none", "sent", "stored", "done"}, first : 0 .. MaxEvents + 1,
               last : 0 .. MaxEvents, boot : 0 .. MaxBootId,
               bootStart : Instants \cup {None}, whole : BOOLEAN, heard : BOOLEAN]
  /\ \A r \in rows :
       r \in [table : Tables, event : EventIds, at : Placements,
              kind : {"observed", "derived", "unknown"},
              notBefore : Bound, notAfter : Bound]
  /\ faults \in 0 .. MaxFaults /\ adrift \subseteq EventIds

-----------------------------------------------------------------------------
(* eventTime.ts                                                            *)

Smaller(a, b) == IF a <= b THEN a ELSE b
Never == MaxNow + Tolerance + Second + MaxEvents

\* boundUnknowns: items are in sequence order, each with the time known of it, or
\* None, and the latest it can have happened; anchor is known of what came before.
Floor(items, anchor, i) ==
  LET before == {j \in 1 .. i - 1 : items[j].known # None}
  IN IF before = {} THEN anchor ELSE items[Max(before)].known

NotAfter(items, i) ==
  LET after == {j \in i + 1 .. Len(items) : items[j].known # None}
      nextKnown == IF after = {} THEN Never ELSE items[Min(after)].known
  IN Smaller(nextKnown, items[i].ceiling)

\* Bounds that contradict each other lose the floor.
NotBefore(items, anchor, i) ==
  LET floor == Floor(items, anchor, i)
  IN IF floor # None /\ floor > NotAfter(items, i) THEN None ELSE floor

\* Just before what comes next, which is at cursor.
Place(items, anchor, i, cursor) ==
  LET place == Smaller(NotAfter(items, i), cursor - 1)
      floor == NotBefore(items, anchor, i)
  IN IF items[i].known # None THEN items[i].known
     ELSE IF floor # None /\ place < floor THEN floor ELSE place

BoundUnknowns(items, anchor) ==
  LET n == Len(items)
      placed[i \in 1 .. n] ==
        Place(items, anchor, i, IF i = n THEN Never ELSE placed[i + 1])
  IN [i \in 1 .. n |->
       IF items[i].known # None
       THEN [at |-> placed[i], notBefore |-> None, notAfter |-> None]
       ELSE [at |-> placed[i], notBefore |-> NotBefore(items, anchor, i),
             notAfter |-> NotAfter(items, i)]]

\* Mutant: an event may be as late as a derived time may be.
CeilingTolerant(e, c) ==
  IF e.boot < c.boot /\ c.bootStart # None THEN Smaller(c.bootStart, now)
  ELSE now + Tolerance

\* An event of an earlier boot happened before this boot began.
Ceiling(e, c) ==
  IF e.boot < c.boot /\ c.bootStart # None THEN Smaller(c.bootStart, now) ELSE now

\* Mutant: the start of the current boot dates events of every boot.
KindAnyBoot(e, c) ==
  IF e.epoch # None THEN "observed"
  ELSE IF c.bootStart # None /\ c.bootStart + e.uptime <= now + Tolerance
  THEN "derived" ELSE "unknown"

Kind(e, c) ==
  IF e.epoch # None THEN "observed"
  ELSE IF e.boot = c.boot /\ c.bootStart # None
          /\ c.bootStart + e.uptime <= now + Tolerance
  THEN "derived" ELSE "unknown"

KnownTime(e, c) ==
  IF Kind(e, c) = "observed" THEN e.epoch
  ELSE IF Kind(e, c) = "derived" THEN c.bootStart + e.uptime ELSE None

\* resolveBatch, of a batch the door sends in sequence order.
Resolve(batch, c, anchor) ==
  LET items == [i \in 1 .. Len(batch) |->
                  [known |-> KnownTime(batch[i], c), ceiling |-> Ceiling(batch[i], c)]]
      bounds == BoundUnknowns(items, anchor)
  IN [i \in 1 .. Len(batch) |->
        [at |-> bounds[i].at, kind |-> Kind(batch[i], c),
         notBefore |-> bounds[i].notBefore, notAfter |-> bounds[i].notAfter]]

-----------------------------------------------------------------------------
(* storage.ts                                                              *)

\* Mutant: a placement counts as a time.
LatestStoredBefore(i) ==
  LET stored == {r \in rows : r.table = "door" /\ r.event < i}
  IN IF stored = {} THEN None ELSE Max({r.at : r \in stored})

\* latestKnownTimeBefore: the latest time observed of an event before the i-th, in
\* the door's partitions of this month and the two before.
LatestKnownTimeBefore(i) ==
  LET observed == {r \in rows : r.table = "door" /\ r.kind = "observed" /\ r.event < i
                                /\ r.at \div Month >= now \div Month - 2}
  IN IF observed = {} THEN None ELSE Max({r.at : r \in observed})

Batch(c) == SubSeq(events, c.first, c.last)

\* ingestEvents: the times it files a batch under.  If the batch begins with events
\* nothing in it precedes, they are bounded by what was stored before.
Times(c) ==
  LET alone == Resolve(Batch(c), c, None)
      unfloored == {i \in DOMAIN alone :
                      alone[i].kind = "unknown" /\ alone[i].notBefore = None}
  IN IF unfloored = {} THEN alone
     ELSE Resolve(Batch(c), c, LatestKnownTimeBefore(c.first + Min(unfloored) - 1))

\* Events about the door itself have no row by person.
TablesOf(i) == IF i \in Personless THEN {"door"} ELSE Tables

\* The rows an event is to have.
RowsOf(i, t) ==
  {[table |-> b, event |-> i, at |-> t.at, kind |-> t.kind, notBefore |-> t.notBefore,
    notAfter |-> t.notAfter] : b \in TablesOf(i)}

NewRows(c) ==
  LET times == Times(c) IN UNION {RowsOf(c.first + i - 1, times[i]) : i \in DOMAIN times}

\* An upsert replaces the row that has its key.
Key(r) == <<r.table, r.event, r.at>>
Upsert(new) == {r \in rows : \A s \in new : Key(s) # Key(r)} \cup new

-----------------------------------------------------------------------------
(* The door.                                                               *)

\* Once a batch is stored, the rest of the call reads neither clock nor event: what
\* happens meanwhile is left to happen after it.
Meanwhile == call.pc \in {"none", "sent"}

Tick ==
  /\ now < MaxNow /\ now' = now + 1 /\ Meanwhile
  /\ UNCHANGED <<door, ackedTo, pin, call, rows, faults, adrift>>

Seconds(t) == t - (t % Second)

\* EventLog::append
Record ==
  /\ Len(events) < MaxEvents /\ Meanwhile
  /\ events' = Append(events,
       [boot |-> bootId, epoch |-> IF clock THEN Seconds(now) ELSE None,
        uptime |-> now - start, at |-> now])
  /\ UNCHANGED <<now, bootId, start, clock, ackedTo, pin, call, rows, faults, adrift>>

ClockSet ==
  /\ ~clock /\ clock' = TRUE /\ Meanwhile
  /\ UNCHANGED <<now, bootId, start, events, ackedTo, pin, call, rows, faults, adrift>>

\* A restart keeps the clock, a power cut does not.  A handler runs on.
Reboot ==
  /\ call.pc # "stored"
  /\ bootId < MaxBootId /\ bootId' = bootId + 1 /\ start' = now
  /\ clock' \in {clock, FALSE}
  /\ call' = [call EXCEPT !.heard = FALSE]
  /\ UNCHANGED <<now, events, ackedTo, pin, rows, faults, adrift>>

\* bootEpoch(): seconds of the time less seconds of the uptime.
BootEpoch == IF clock THEN Seconds(now) - Seconds(now - start) ELSE None

\* A sync that has no event to tell and no start to fix is left out, but for those
\* of the last instant.
SyncSend ==
  /\ call.pc = "none"
  /\ ackedTo < Len(events) \/ (clock /\ pin.boot # bootId) \/ now = MaxNow
  /\ call' = [NoCall EXCEPT !.pc = "sent", !.heard = TRUE, !.first = ackedTo + 1,
                            !.last = Min({ackedTo + BatchSize, Len(events)}),
                            !.boot = bootId, !.bootStart = BootEpoch]
  /\ UNCHANGED <<now, door, ackedTo, pin, rows, faults, adrift>>

-----------------------------------------------------------------------------
(* functions/sync.ts                                                       *)

\* Mutant: the start the door reports is used as it comes.
BootStartReported(reported, b) == reported

\* The first start seen for a boot is kept for the rest of it.  (No number is used
\* for two boots here, nor a start more than two minutes off reported for one.)
BootStart(reported, b) ==
  IF pin.boot = b /\ pin.start # None THEN pin.start ELSE reported

\* Mutant: an event is stored if either of its rows is.
WholeEither(new, failed) ==
  \A r \in new \cap failed : \E s \in new \ failed : s.event = r.event

\* written > 0 && partial === 0
Whole(new, failed) == new # {} /\ failed = {}

\* The handler reads the door's row, which no other writes, and ingestEvents makes
\* the upserts, each of which may fail by itself.
Ingest ==
  LET c == [call EXCEPT !.bootStart = BootStart(@, call.boot)]
      new == NewRows(c)
  IN /\ call.pc = "sent"
     /\ \E failed \in SUBSET new :
          /\ faults + Cardinality(failed) <= MaxFaults
          /\ faults' = faults + Cardinality(failed)
          /\ rows' = Upsert(new \ failed)
          /\ call' = [c EXCEPT !.pc = "stored", !.whole = Whole(new, failed)]
     /\ UNCHANGED <<now, door, ackedTo, pin, adrift>>

\* Mutant: a start not known is stored like any other.
PinnedAnyway == [boot |-> call.boot, start |-> call.bootStart]

\* "storing 0 would pin a boot to no clock for its whole life" (sync.ts:202).
Pinned ==
  IF call.bootStart = None THEN pin ELSE [boot |-> call.boot, start |-> call.bootStart]

\* touchDoor, and the answer.
Touch ==
  /\ call.pc = "stored" /\ pin' = Pinned
  /\ call' = [call EXCEPT !.pc = "done"]
  /\ UNCHANGED <<now, door, ackedTo, rows, faults, adrift>>

\* The door acknowledges in its spool what the answer says is stored.
SyncAnswer ==
  /\ call.pc = "done" /\ call' = NoCall
  /\ ackedTo' = IF call.whole /\ call.heard THEN call.last ELSE ackedTo
  /\ UNCHANGED <<now, door, pin, rows, faults, adrift>>

\* The request is lost, or the answer.
SyncLost ==
  /\ call.pc \in {"sent", "done"} /\ call' = NoCall
  /\ faults < MaxFaults /\ faults' = faults + 1
  /\ UNCHANGED <<now, door, ackedTo, pin, rows, adrift>>

\* The handler fails between storing the events and touchDoor: the start it used
\* for them is forgotten, unless it was the one stored before.
HandlerFails ==
  /\ call.pc = "stored" /\ call' = NoCall
  /\ adrift' = IF Pinned = pin THEN adrift ELSE adrift \cup (call.first .. call.last)
  /\ faults < MaxFaults /\ faults' = faults + 1
  /\ UNCHANGED <<now, door, ackedTo, pin, rows>>

-----------------------------------------------------------------------------
TimeInit ==
  /\ now = Second /\ bootId = 1 /\ start = Second /\ clock = FALSE
  /\ events = <<>> /\ ackedTo = 0
  /\ pin = [boot |-> 0, start |-> None]
  /\ call = NoCall /\ rows = {} /\ faults = 0 /\ adrift = {}

TimeNext ==
  \/ Tick \/ Record \/ ClockSet \/ Reboot
  \/ SyncSend \/ Ingest \/ Touch \/ SyncAnswer \/ SyncLost \/ HandlerFails

TimeSpec == TimeInit /\ [][TimeNext]_timeVars

-----------------------------------------------------------------------------
(* What the audit trail promises.                                          *)

(* eventTime.ts:25 "honest bounds", wherever an event's neighbours were stored,
   lost or retried, and whichever boot sent it: one whose time is unknown
   happened within the window it was given, to the second, and is placed inside
   it and not "later than the backend received it" (eventTime.ts:29).  A time
   that is not called unknown is the event's own, to the second: no boot is dated
   by another's start, though one stored start serves many syncs.          *)
Honest ==
  \A r \in rows :
    LET t == events[r.event].at IN
    IF r.kind = "unknown"
      THEN /\ r.notBefore # None => r.notBefore <= t /\ r.notBefore <= r.at
           /\ t < r.notAfter + Second
           /\ r.at <= r.notAfter /\ r.notAfter <= now
      ELSE t < r.at + Second /\ r.at < t + Second

(* sync.ts:55 a start that jitters "would therefore move them between a failed
   write and its retry, and duplicate them": what is filed under a time is filed
   under one time only, though writes fail, answers are lost and the door restarts.
   The exception is a handler that fails after it has stored events and before it
   stores the start they were dated from: their retry may use another.     *)
OneTime ==
  \A r, s \in rows :
    r.event = s.event /\ r.event \notin adrift /\ r.kind # "unknown" /\ s.kind # "unknown"
      => r.at = s.at

(* The door forgets an event only when it is in every table it belongs in. *)
AckedIsStored ==
  \A i \in 1 .. ackedTo : \A b \in TablesOf(i) :
    \E r \in rows : r.event = i /\ r.table = b

(* storage.ts:375 "Both are deterministic upserts keyed on (deviceId, bootId, idx),
   so a retry after a partial failure converges rather than duplicating".  *)
Converges ==
  \A r, s \in rows : r.event = s.event /\ r.table = s.table => r = s

=============================================================================
