------------------------------- MODULE EventLog -------------------------------
(***************************************************************************)
(* lib/EventLog: the durable spool of access events, and the part of       *)
(* CloudSync and of the backend that empties it.                           *)
(*                                                                         *)
(* Tasks append records to a file; the cloudsync task copies out the       *)
(* oldest ones, uploads them, and on the backend's confirmation moves a    *)
(* cursor kept in NVS past them; when enough are confirmed the file is     *)
(* rewritten without them.  A mutex makes each operation exclusive, but    *)
(* power can fail between any two writes to flash, so each such write is a *)
(* step of its own and pc says which one is next.                          *)
(*                                                                         *)
(* A record is its identity [boot, idx].  Torn stands for half a record,   *)
(* what a write interrupted by power loss leaves at the end of the file.   *)
(* Reading goes record by record from the start (or from the cursor) and   *)
(* stops at the first that fails its CRC: at a torn half, and at anything  *)
(* after it, because the halves put all that follows out of step.          *)
(***************************************************************************)
EXTENDS Naturals, Sequences, FiniteSets, SequencesExt

CONSTANTS
  MaxPending,   \* MAX_RECORDS (5000): unconfirmed records before dropping
  CompactAt,    \* COMPACT_AT (512): confirmed records before a rewrite
  BatchMax,     \* MAX_EVENTS_PER_SYNC (40)
  FsCap,        \* records the filesystem holds, over all files
  MaxBoots,     \* bound: boots in one behaviour
  MaxIdx,       \* bound: append calls in one boot
  Torn          \* half a record

ASSUME SpoolAssumption ==
  /\ MaxPending \in Nat \ {0} /\ CompactAt \in Nat \ {0}
  /\ BatchMax \in Nat \ {0} /\ FsCap \in Nat
  /\ MaxBoots \in Nat /\ MaxIdx \in Nat

VARIABLES
  file,         \* the spool file's contents, a sequence of records and halves
  exists,       \* does the file exist?
  tmp,          \* contents of the temporary copy
  nvsAcked,     \* "acked" in NVS
  nvsBoot,      \* "bootId" in NVS
  pc,           \* the next write to flash, "on" between operations, "off"
  total,        \* _total
  acked,        \* _acked
  boot,         \* _bootId
  nextIdx,      \* _nextIdx
  kept,         \* compact()'s local count
  overflow,     \* _overflow
  sync,         \* the cloudsync task: "idle", "sent" or "confirmed"
  batch,        \* the records it copied out
  cloud,        \* records the backend holds in both its tables
  recorded,     \* history: records whose append returned true
  dropped,      \* history: records given up because the spool was full
  faulted,      \* history: power failed inside a write or a swap of files, a
                \* rename failed, or a full filesystem cut a copy short
  exposed       \* history: records that such a fault may have cost

disk   == <<file, exists, tmp, nvsAcked, nvsBoot>>
ram    == <<total, acked, boot, nextIdx, kept, overflow>>
upload == <<sync, batch>>
damage == <<faulted, exposed>>
history == <<recorded, dropped, damage>>
vars == <<disk, ram, pc, upload, cloud, history>>

Records == [boot : 1 .. MaxBoots, idx : 0 .. MaxIdx - 1]

ASSUME TornAssumption == Torn \notin Records

Pcs == {"off", "scan", "trimRemove", "trimRename", "cursor", "on",
        "compact", "compactRemove", "compactRename", "compactCursor"}

TypeOK ==
  /\ file \in Seq(Records \cup {Torn}) /\ tmp \in Seq(Records \cup {Torn})
  /\ exists \in BOOLEAN /\ overflow \in BOOLEAN
  /\ nvsAcked \in Nat /\ nvsBoot \in 0 .. MaxBoots
  /\ total \in Nat /\ acked \in 0 .. total /\ kept \in Nat
  /\ boot \in 0 .. MaxBoots /\ nextIdx \in 0 .. MaxIdx
  /\ pc \in Pcs /\ sync \in {"idle", "sent", "confirmed"}
  /\ batch \in Seq(Records)
  /\ cloud \subseteq Records /\ recorded \subseteq Records
  /\ dropped \subseteq Records
  /\ faulted \in BOOLEAN /\ exposed \subseteq Records

-----------------------------------------------------------------------------
(* Reading the file.                                                       *)

Min2(a, b) == IF a < b THEN a ELSE b

Drop(s, n) == SubSeq(s, n + 1, Len(s))

\* The records read from the start of s before the first that is not valid.
Valid(s) ==
  SubSeq(s, 1, CHOOSE n \in 0 .. Len(s) :
                 /\ \A i \in 1 .. n : s[i] # Torn
                 /\ n < Len(s) => s[n + 1] = Torn)

\* Whole records that fit in the file's length, halves counted by twos.
WholeRecords(s) ==
  LET halves == Cardinality({i \in 1 .. Len(s) : s[i] = Torn})
  IN  Len(s) - halves + halves \div 2

\* Everything from the cursor on, as peek, ack and compact read it.  A cursor
\* moved past a half by MakeRoom points into the middle of a record.
Unacked == Drop(Valid(file), acked)

\* Room left on the filesystem for a copy of the file.
FreeRecords == IF Len(file) < FsCap THEN FsCap - Len(file) ELSE 0

\* The events waiting for the cloud once the controller has next started.
AfterCursor(s) == Drop(Valid(s), Min2(nvsAcked, Len(Valid(s))))

Restarted == IF exists THEN AfterCursor(file) ELSE <<>>

\* The events waiting for the cloud, as the spool would give them out now or,
\* when it is not up, once it is.
Waiting ==
  CASE pc \in {"on", "compact", "compactRemove", "compactCursor"} -> Unacked
    [] pc = "compactRename" -> Valid(tmp)
    [] pc = "trimRename" -> AfterCursor(tmp)
    [] OTHER -> Restarted

\* A fault that may cost these records.
Exposing(rs) == faulted' = TRUE /\ exposed' = exposed \cup rs

\* A copy of s, as far as it fits: what does not is lost with the original.
Copy(s) ==
  /\ tmp' = SubSeq(s, 1, Min2(Len(s), FreeRecords))
  /\ IF Len(s) <= FreeRecords
       THEN UNCHANGED damage
       ELSE Exposing(ToSet(Drop(s, FreeRecords)))

\* Mutant: only one half of the pair is compared.
CoveredByIdx(r, last) == r.idx <= last.idx

\* (r.bootId < bootId) || (r.bootId == bootId && r.idx <= idx)
Covered(r, last) == r.boot < last.boot \/ (r.boot = last.boot /\ r.idx <= last.idx)

-----------------------------------------------------------------------------
(* Boot: EventLog::begin and scan.                                         *)

\* Mutant: the counter is advanced in RAM only.
BeginBootForgotten ==
  /\ pc = "off" /\ nvsBoot < MaxBoots
  /\ boot' = nvsBoot + 1 /\ nextIdx' = 0
  /\ pc' = "scan"
  /\ UNCHANGED <<disk, total, acked, kept, overflow, upload, cloud, history>>

\* The boot counter goes to flash before anything is stamped with it.
BeginBoot ==
  /\ pc = "off" /\ nvsBoot < MaxBoots
  /\ nvsBoot' = nvsBoot + 1
  /\ boot' = nvsBoot + 1 /\ nextIdx' = 0
  /\ pc' = "scan"
  /\ UNCHANGED <<file, exists, tmp, nvsAcked, total, acked, kept, overflow,
                 upload, cloud, history>>

\* Count the intact records.  A tail that fills whole records is cut off by a
\* rewrite.  With no file the cursor in NVS is not read.
Scan ==
  /\ pc = "scan"
  /\ total' = Len(Valid(file)) /\ acked' = 0 /\ overflow' = FALSE
  /\ IF ~exists
       THEN pc' = "on" /\ UNCHANGED <<tmp, damage>>
       ELSE IF Len(Valid(file)) < WholeRecords(file)
         THEN /\ pc' = "trimRemove"
              /\ Copy(Valid(file))
         ELSE pc' = "cursor" /\ UNCHANGED <<tmp, damage>>
  /\ UNCHANGED <<file, exists, nvsAcked, nvsBoot, boot, nextIdx, kept, upload,
                 cloud, recorded, dropped>>

\* LittleFS.remove(_path), then LittleFS.rename of the copy: after a trim and
\* after a compaction.
Unlink(from, to) ==
  /\ pc = from /\ pc' = to
  /\ file' = <<>> /\ exists' = FALSE
  /\ UNCHANGED <<tmp, nvsAcked, nvsBoot, ram, upload, cloud, history>>

TrimRemove == Unlink("trimRemove", "trimRename")

TrimRename ==
  /\ pc = "trimRename" /\ pc' = "cursor"
  /\ file' = tmp /\ exists' = TRUE /\ tmp' = <<>>
  /\ UNCHANGED <<nvsAcked, nvsBoot, ram, upload, cloud, history>>

\* The rename fails: nobody looks, and the spool comes up without its file.
TrimRenameFails ==
  /\ pc = "trimRename" /\ pc' = "cursor"
  /\ Exposing(ToSet(Waiting))
  /\ UNCHANGED <<disk, ram, upload, cloud, recorded, dropped>>

ReadCursor ==
  /\ pc = "cursor" /\ pc' = "on"
  /\ acked' = Min2(nvsAcked, total)
  /\ UNCHANGED <<disk, total, boot, nextIdx, kept, overflow, upload, cloud, history>>

-----------------------------------------------------------------------------
(* Recording an event: EventLog::append.                                   *)

Stamp == [boot |-> boot, idx |-> nextIdx]

\* With MaxPending unconfirmed, the oldest is treated as confirmed, in RAM.
MakeRoom ==
  IF total - acked >= MaxPending
    THEN /\ overflow' = TRUE /\ acked' = acked + 1
         /\ dropped' = dropped \cup ToSet(SubSeq(Unacked, 1, Min2(1, Len(Unacked))))
    ELSE UNCHANGED <<overflow, acked, dropped>>

CanAppend == pc = "on" /\ nextIdx < MaxIdx

\* Where the next record would go cannot be read, or has been passed already:
\* behind a half, or below a cursor that a fault left standing.
Astray == Len(Valid(file)) < Len(file) \/ Len(file) < acked' \/ Len(file) < nvsAcked

\* The write fits, or the filesystem is full and nothing is written.
AppendRecord ==
  /\ CanAppend
  /\ MakeRoom
  /\ nextIdx' = nextIdx + 1
  /\ IF FreeRecords > 0
       THEN /\ file' = Append(file, Stamp) /\ exists' = TRUE
            /\ total' = total + 1
            /\ recorded' = recorded \cup {Stamp}
            /\ exposed' = IF faulted /\ Astray THEN exposed \cup {Stamp} ELSE exposed
       ELSE UNCHANGED <<file, exists, total, recorded, exposed>>
  /\ UNCHANGED <<tmp, nvsAcked, nvsBoot, pc, boot, kept, upload, cloud, faulted>>

\* Power fails inside the write.
AppendTorn ==
  /\ CanAppend /\ FreeRecords > 0 /\ nvsBoot < MaxBoots
  /\ file' = Append(file, Torn) /\ exists' = TRUE
  /\ pc' = "off" /\ sync' = "idle" /\ batch' = <<>>
  /\ faulted' = TRUE
  /\ UNCHANGED <<tmp, nvsAcked, nvsBoot, ram, cloud, recorded, dropped, exposed>>

-----------------------------------------------------------------------------
(* Uploading: CloudSync::syncOnce and the backend's ingestEvents.          *)

\* Mutant: reading starts at the beginning of the file.
PeekFromStart ==
  /\ pc = "on" /\ sync = "idle"
  /\ batch' = SubSeq(Valid(file), 1, Min2(BatchMax, Len(Valid(file))))
  /\ batch' # <<>>
  /\ sync' = "sent"
  /\ UNCHANGED <<disk, ram, pc, cloud, history>>

Peek ==
  /\ pc = "on" /\ sync = "idle"
  /\ batch' = SubSeq(Unacked, 1, Min2(BatchMax, Len(Unacked)))
  /\ batch' # <<>>
  /\ sync' = "sent"
  /\ UNCHANGED <<disk, ram, pc, cloud, history>>

\* The backend stores the whole batch and its confirmation arrives.
Confirmed ==
  /\ sync = "sent" /\ sync' = "confirmed"
  /\ cloud' = cloud \cup ToSet(batch)
  /\ UNCHANGED <<disk, ram, pc, batch, history>>

\* Something fails: the backend stores some of the batch (or none, or all), and
\* the door hears of no confirmation.
UploadFails ==
  /\ sync = "sent" /\ sync' = "idle" /\ batch' = <<>>
  /\ \E stored \in SUBSET ToSet(batch) : cloud' = cloud \cup stored
  /\ UNCHANGED <<disk, ram, pc, history>>

\* EventLog::ack, up to the last record of the batch: the cursor moves past the
\* records covered, then goes to NVS.
Ack ==
  LET last  == Last(batch)
      n     == CHOOSE k \in 0 .. Len(Unacked) :
                 /\ \A i \in 1 .. k : Covered(Unacked[i], last)
                 /\ k < Len(Unacked) => ~Covered(Unacked[k + 1], last)
  IN
  /\ pc = "on" /\ sync = "confirmed"
  /\ sync' = "idle" /\ batch' = <<>>
  /\ acked' = acked + n
  /\ nvsAcked' = acked + n
  /\ pc' = IF acked + n >= CompactAt THEN "compact" ELSE "on"
  /\ UNCHANGED <<file, exists, tmp, nvsBoot, total, boot, nextIdx, kept, overflow,
                 cloud, history>>

-----------------------------------------------------------------------------
(* Rewriting the file: EventLog::compact.                                  *)

\* Copy the unconfirmed records.  A full filesystem cuts the copy short, and
\* the count of records kept does not notice.
CompactCopy ==
  /\ pc = "compact" /\ exists /\ pc' = "compactRemove"
  /\ kept' = Len(Unacked)
  /\ Copy(Unacked)
  /\ UNCHANGED <<file, exists, nvsAcked, nvsBoot, total, acked, boot, nextIdx,
                 overflow, upload, cloud, recorded, dropped>>

\* The copy cannot be opened: the file is left for the next confirmation.
CompactSkip ==
  /\ pc = "compact" /\ pc' = "on"
  /\ UNCHANGED <<disk, ram, upload, cloud, history>>

CompactRemove == Unlink("compactRemove", "compactRename")

\* Mutant: the cursor in RAM is not reset.
CompactRenameOnly ==
  /\ pc = "compactRename" /\ pc' = "compactCursor"
  /\ file' = tmp /\ exists' = TRUE /\ tmp' = <<>>
  /\ total' = kept
  /\ UNCHANGED <<nvsAcked, nvsBoot, acked, boot, nextIdx, kept, overflow, upload,
                 cloud, history>>

CompactRename ==
  /\ pc = "compactRename" /\ pc' = "compactCursor"
  /\ file' = tmp /\ exists' = TRUE /\ tmp' = <<>>
  /\ total' = kept /\ acked' = 0
  /\ UNCHANGED <<nvsAcked, nvsBoot, boot, nextIdx, kept, overflow, upload,
                 cloud, history>>

\* The rename fails: the file is gone, and both cursors stand where they were,
\* above the records that will be appended to a new one.
CompactRenameFails ==
  /\ pc = "compactRename" /\ pc' = "on"
  /\ Exposing(ToSet(Waiting))
  /\ UNCHANGED <<disk, ram, upload, cloud, recorded, dropped>>

CompactCursor ==
  /\ pc = "compactCursor" /\ pc' = "on"
  /\ nvsAcked' = 0
  /\ UNCHANGED <<file, exists, tmp, nvsBoot, ram, upload, cloud, history>>

-----------------------------------------------------------------------------
\* From the removal of the file until its replacement and the cursor agree.
MidSwap == {"trimRename", "compactRename", "compactCursor"}

\* Power fails, or the controller restarts, between two writes; it comes back
\* within the bound on boots.
Crash ==
  /\ pc # "off" /\ nvsBoot < MaxBoots
  /\ pc' = "off" /\ sync' = "idle" /\ batch' = <<>>
  /\ IF pc \in MidSwap
       THEN Exposing(ToSet(Waiting) \ ToSet(Restarted))
       ELSE UNCHANGED damage
  /\ UNCHANGED <<disk, ram, cloud, recorded, dropped>>

Init ==
  /\ file = <<>> /\ exists = FALSE /\ tmp = <<>>
  /\ nvsAcked = 0 /\ nvsBoot = 0
  /\ pc = "off" /\ total = 0 /\ acked = 0 /\ boot = 0 /\ nextIdx = 0
  /\ kept = 0 /\ overflow = FALSE
  /\ sync = "idle" /\ batch = <<>>
  /\ cloud = {} /\ recorded = {} /\ dropped = {}
  /\ faulted = FALSE /\ exposed = {}

Trimming   == TrimRemove \/ TrimRename \/ TrimRenameFails
Starting   == BeginBoot \/ Scan \/ Trimming \/ ReadCursor
Replacing  == CompactRename \/ CompactRenameFails \/ CompactCursor
Compacting == CompactCopy \/ CompactSkip \/ CompactRemove \/ Replacing
Uploading  == Peek \/ Ack

Next ==
  \/ Starting \/ Compacting
  \/ AppendRecord \/ AppendTorn
  \/ Uploading \/ Confirmed \/ UploadFails
  \/ Crash

Spec == Init /\ [][Next]_vars

(* The door's own steps are taken if they can be; the cloudsync task retries
   for ever, so an upload that could succeed again and again does succeed.  *)
Fairness ==
  /\ WF_vars(Starting) /\ WF_vars(Compacting) /\ WF_vars(Uploading)
  /\ SF_vars(Confirmed)

FairSpec == Spec /\ Fairness

-----------------------------------------------------------------------------
(* What the spool promises.                                                *)

(* The spool implements the store EventLog.h promises: events leave in order,
   none leaves unconfirmed unless it was the oldest of a full spool or a fault
   took it, and no identity is given out twice, however often the controller
   restarts and whatever fails.                                              *)
Spool == INSTANCE EventSpool WITH
           Events <- Records, pending <- Waiting, delivered <- cloud,
           dropped <- dropped, lost <- exposed, faulted <- faulted
ImplementsSpool == Spool!Spec

(* EventLog.h:127 "Confirm the backend durably holds everything up to and
   including this [...] Only now may the records be discarded": every event
   recorded is waiting, or with the cloud, or was given up by a full spool, or
   is one that a fault may have cost.  It follows from ImplementsSpool, which
   also says in which order they leave.                                      *)
NothingLost == recorded \subseteq ToSet(Waiting) \cup cloud \cup dropped \cup exposed

(* Neither cursor, the one in RAM or the one in flash, ever passes a readable
   record that the cloud does not hold, except those given up and those a fault
   put below it: after a failed rename (EventLog.cpp:220) both cursors pass
   whatever the new file is given, up to where the old one had got.          *)
CursorsCovered ==
  \A i \in 1 .. Len(Valid(file)) :
    /\ pc = "on" /\ i <= acked => file[i] \in cloud \cup dropped \cup exposed
    /\ pc = "off" /\ exists /\ i <= nvsAcked => file[i] \in cloud \cup dropped \cup exposed

(* Whatever is recorded reaches the cloud, or is given up by a full spool, or is
   one that a fault may have cost.                                           *)
Delivered == \A r \in Records : r \in recorded ~> r \in cloud \cup dropped \cup exposed

=============================================================================
