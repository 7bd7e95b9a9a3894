------------------------------ MODULE RosterSync ------------------------------
(***************************************************************************)
(* Who may open the door: from the backend's tables to the list the door   *)
(* decides against, and back from flash after a power cut.                 *)
(*                                                                         *)
(*   backend    three tables, from which effectiveRoster works out the     *)
(*              list for this door: its groups, the groups of each         *)
(*              credential's holder, the credentials in force; and a       *)
(*              revision.  Admin requests and the Entra sweep write rows   *)
(*              first and bump the revision after, by a read and a write.  *)
(*   cloudsync  reports the revision the door holds; a different one at    *)
(*              the backend brings the whole list, which replaces the      *)
(*              door's (CloudSync::syncOnce, functions/sync.ts)            *)
(*   Roster     keeps the list in RAM and in a file it replaces by way of  *)
(*              a temporary one; a door that finds no file imports the     *)
(*              list of the old firmware from NVS (acInit)                 *)
(*                                                                         *)
(* The backend's requests and the door's writes to flash are broken up at  *)
(* every await and every call to the filesystem.  A read of storage that   *)
(* fails is an error in some places and an empty answer in others:         *)
(* getRosterRev takes it for revision 0, getDoor for a door without groups.*)
(***************************************************************************)
EXTENDS Naturals, FiniteSets

CONSTANTS
  Creds, Groups,  \* credentials, and the groups doors and people are in
  NvsList,        \* those the pre-2.0 firmware left in NVS
  Writers,        \* admin requests and sweeps that may overlap
  WritersFail,    \* may one of them stop between its steps?
  Expires,        \* do credentials have a validTo?
  MaxWrites,      \* bound: changes made at the backend
  MaxUpsets,      \* bound: power failures, unpairings, edits at the door while
                  \* unpaired, and reads of storage that fail and are taken for empty
  None            \* no file, or no list in an answer

ASSUME RosterAssumption ==
  /\ NvsList \subseteq Creds /\ IsFiniteSet(Creds)
  /\ WritersFail \in BOOLEAN /\ Expires \in BOOLEAN
  /\ MaxWrites \in Nat /\ MaxUpsets \in Nat
  /\ None \notin [roster : SUBSET Creds, rev : Nat, mark : {"none", "local", "blank"}]

VARIABLES
  tables,         \* what storage holds: Doors, People and Credentials
  rev,            \* Meta/rosterRev
  writer,         \* per writer: what it does next, and the revision it read
  ram,            \* the door's list and its revision: _entries, _rev; history:
                  \* how it was marked, if it is not what the backend meant
  file,           \* /roster.dat
  tmp,            \* /roster.dat.tmp
  pc,             \* the door: "off", "on", or the next call in Roster::save
  sync,           \* the sync in flight
  paired,
  writes, upsets,
  recent,         \* history: what the tables have held since rev last moved
  top,            \* history: the highest revision ever
  reused,         \* history: revisions given by a bump that had not seen it
  saved,          \* history: the lists a power cut may leave, "the old or the new"
  gone            \* history: a swap of the files was cut short since

backend == <<tables, rev, writer, recent, top, reused>>
flash   == <<file, tmp>>
swaps   == <<saved, gone>>
bounds  == <<writes, upsets>>
vars == <<backend, ram, flash, pc, sync, paired, bounds, swaps>>

Holders == [Creds -> SUBSET Groups]
Tables  == [door : SUBSET Groups, people : Holders, creds : SUBSET Creds]
Revs    == 0 .. MaxWrites + 1
Marks   == {"none", "local", "blank"}
Copies  == [roster : SUBSET Creds, rev : Revs, mark : Marks]
Lists   == (SUBSET Creds) \cup {None}

TypeOK ==
  /\ tables \in Tables /\ rev \in Revs
  /\ writer \in [Writers -> [pc : {"idle", "written", "read"}, seen : Revs]]
  /\ ram \in Copies /\ file \in Copies \cup {None} /\ tmp \in Copies \cup {None}
  /\ pc \in {"off", "on", "save", "remove", "rename"}
  /\ sync \in [pc : {"idle", "asked", "revRead", "doorRead", "peopleRead", "answered",
                     "applying"},
               deviceRev : Revs, rev : Revs, door : SUBSET Groups, people : Holders,
               roster : Lists, mark : Marks]
  /\ sync.pc = "applying" => pc \in {"save", "remove", "rename"}
  /\ paired \in BOOLEAN /\ gone \in BOOLEAN
  /\ writes \in 0 .. MaxWrites /\ upsets \in 0 .. MaxUpsets
  /\ recent \in [door : SUBSET SUBSET Groups, people : SUBSET Holders,
                 creds : SUBSET SUBSET Creds]
  /\ top \in Revs /\ reused \subseteq Revs /\ saved \subseteq Copies

\* A credential in force opens the door if its holder shares a group with it.
Effective(t) == {c \in t.creds : t.people[c] \cap t.door # {}}

\* acInit: a boot loads the file, or for want of one the list in NVS.
BootCopy == IF file # None THEN file ELSE [roster |-> NvsList, rev |-> 0, mark |-> "none"]

NoCopy == [roster |-> {}, rev |-> 0, mark |-> "none"]

NoGroups == [c \in Creds |-> {}]

Idle == [pc |-> "idle", deviceRev |-> 0, rev |-> 0, door |-> {}, people |-> NoGroups,
         roster |-> None, mark |-> "none"]

Upset == upsets < MaxUpsets /\ upsets' = upsets + 1

-----------------------------------------------------------------------------
(* The backend: admin requests and the Entra sweep.                        *)

\* What the tables may hold after one more row was written.
RowWritten ==
  {[tables EXCEPT !.door = g] : g \in SUBSET Groups}
    \cup {[tables EXCEPT !.people[c] = g] : c \in Creds, g \in SUBSET Groups}
    \cup {[tables EXCEPT !.creds = @ \cup {c}] : c \in Creds}
    \cup {[tables EXCEPT !.creds = @ \ {c}] : c \in Creds}

Remembered(r, t) == [door |-> r.door \cup {t.door}, people |-> r.people \cup {t.people},
                     creds |-> r.creds \cup {t.creds}]

Only(t) == [door |-> {t.door}, people |-> {t.people}, creds |-> {t.creds}]

\* The door's groups change, a person's do, or a credential is granted or
\* revoked.  A request or a sweep may write several rows before it bumps the
\* revision.
Write(w) ==
  /\ writer[w].pc \in {"idle", "written"}
  /\ writes < MaxWrites /\ writes' = writes + 1
  /\ tables' \in RowWritten \ {tables}
  /\ recent' = Remembered(recent, tables')
  /\ writer' = [writer EXCEPT ![w].pc = "written"]
  /\ UNCHANGED <<rev, top, reused, ram, flash, pc, sync, paired, upsets, swaps>>

\* bumpRosterRev: read, then write one more.
BumpReads(w, seen) ==
  /\ writer[w].pc = "written"
  /\ writer' = [writer EXCEPT ![w] = [pc |-> "read", seen |-> seen]]
  /\ UNCHANGED <<tables, rev, recent, top, reused, ram, flash, pc, sync, paired, writes,
                 swaps>>

BumpRead(w) == BumpReads(w, rev) /\ UNCHANGED upsets

\* The read fails: getRosterRev answers 0.
BumpMisreads(w) == BumpReads(w, 0) /\ Upset

\* With every change announced, only what the tables hold now is current.
Announce(w) ==
  recent' = IF \A v \in Writers \ {w} : writer[v].pc = "idle" THEN Only(tables) ELSE recent

\* The revision moves: up, unless the bump had not seen the highest.
Moves(w, new) ==
  /\ rev' = new /\ Announce(w)
  /\ IF writer[w].seen < top THEN reused' = reused \cup {new} /\ UNCHANGED top
                            ELSE top' = new /\ UNCHANGED reused
  /\ writer' = [writer EXCEPT ![w] = [pc |-> "idle", seen |-> 0]]
  /\ UNCHANGED <<tables, ram, flash, pc, sync, paired, bounds, swaps>>

\* Mutant: the revision is written back as it was read.
BumpWriteSame(w) == writer[w].pc = "read" /\ Moves(w, writer[w].seen)

BumpWrite(w) == writer[w].pc = "read" /\ Moves(w, writer[w].seen + 1)

\* The function host stops, or a table call fails, before the revision moves.
WriterStops(w) ==
  /\ WritersFail /\ writer[w].pc # "idle"
  /\ writer' = [writer EXCEPT ![w] = [pc |-> "idle", seen |-> 0]]
  /\ UNCHANGED <<tables, rev, recent, top, reused, ram, flash, pc, sync, paired, bounds,
                 swaps>>

\* effectiveRoster leaves out a credential past its validTo; nothing is written.
Expire ==
  /\ Expires /\ writes < MaxWrites /\ writes' = writes + 1
  /\ \E c \in tables.creds : tables' = [tables EXCEPT !.creds = @ \ {c}]
  /\ recent' = Remembered(recent, tables')
  /\ UNCHANGED <<rev, top, reused, writer, ram, flash, pc, sync, paired, upsets,
                 swaps>>

-----------------------------------------------------------------------------
(* One sync: the door asks, the backend reads the revision, then the list. *)

SyncAsk ==
  /\ pc = "on" /\ paired /\ sync.pc = "idle"
  /\ sync' = [Idle EXCEPT !.pc = "asked", !.deviceRev = ram.rev]
  /\ UNCHANGED <<backend, ram, flash, pc, paired, bounds, swaps>>

\* The list is worked out only if the revisions differ.
SyncReadsRev(found) ==
  /\ sync.pc = "asked"
  /\ sync' = IF sync.deviceRev = found THEN [Idle EXCEPT !.pc = "answered"]
             ELSE [Idle EXCEPT !.pc = "revRead", !.rev = found]
  /\ UNCHANGED <<backend, ram, flash, pc, paired, writes, swaps>>

SyncReadRev == SyncReadsRev(rev) /\ UNCHANGED upsets

\* The read fails: getRosterRev answers 0.
SyncMisreadRev == SyncReadsRev(0) /\ Upset

\* effectiveRoster: the door's row, then the people, then the credentials.
SyncReadDoor ==
  /\ sync.pc = "revRead"
  /\ sync' = [sync EXCEPT !.pc = "doorRead", !.door = tables.door]
  /\ UNCHANGED <<backend, ram, flash, pc, paired, bounds, swaps>>

\* The read fails: getDoor answers undefined, and the list is empty.
SyncMisreadDoor ==
  /\ sync.pc = "revRead"
  /\ Upset
  /\ sync' = [sync EXCEPT !.pc = "answered", !.roster = {}, !.mark = "blank"]
  /\ UNCHANGED <<backend, ram, flash, pc, paired, writes, swaps>>

SyncReadPeople ==
  /\ sync.pc = "doorRead"
  /\ sync' = [sync EXCEPT !.pc = "peopleRead", !.people = tables.people]
  /\ UNCHANGED <<backend, ram, flash, pc, paired, bounds, swaps>>

SyncReadCreds ==
  /\ sync.pc = "peopleRead"
  /\ sync' = [Idle EXCEPT !.pc = "answered", !.rev = sync.rev,
                          !.roster = Effective([door |-> sync.door, people |-> sync.people,
                                                creds |-> tables.creds])]
  /\ UNCHANGED <<backend, ram, flash, pc, paired, bounds, swaps>>

\* The request or the answer is lost, a table cannot be listed, or the answer does
\* not parse: the door learns it in place of the answer, and the reads before it
\* have changed nothing.
SyncLost ==
  /\ sync.pc = "answered"
  /\ sync' = Idle
  /\ UNCHANGED <<backend, ram, flash, pc, paired, bounds, swaps>>

SyncNoRoster ==
  /\ pc = "on" /\ sync.pc = "answered" /\ sync.roster = None
  /\ sync' = Idle
  /\ UNCHANGED <<backend, ram, flash, pc, paired, bounds, swaps>>

\* acReplaceRoster: the list and its revision are in force, then saved.
SyncApply ==
  /\ pc = "on" /\ sync.pc = "answered" /\ sync.roster # None
  /\ ram' = [roster |-> sync.roster, rev |-> sync.rev, mark |-> sync.mark]
  /\ sync' = [Idle EXCEPT !.pc = "applying"]
  /\ pc' = "save"
  /\ UNCHANGED <<backend, flash, paired, bounds, swaps>>

\* Mutant: the revision is recorded before the list is known to fit.
SyncNoMemoryAdvances ==
  /\ pc = "on" /\ sync.pc = "answered" /\ sync.roster # None
  /\ ram' = [ram EXCEPT !.rev = sync.rev]
  /\ sync' = Idle
  /\ UNCHANGED <<backend, flash, pc, paired, bounds, swaps>>

\* No memory for the scratch copy: nothing is changed.
SyncNoMemory ==
  /\ pc = "on" /\ sync.pc = "answered" /\ sync.roster # None
  /\ sync' = Idle
  /\ UNCHANGED <<backend, ram, flash, pc, paired, bounds, swaps>>

-----------------------------------------------------------------------------
(* Roster::save.                                                           *)

\* The sync that asked for the save, if one did, ends with it.
SaveEnds ==
  /\ pc' = "on"
  /\ sync' = IF sync.pc = "applying" THEN Idle ELSE sync

\* Mutant: the live file is removed before the new one is written.
SaveWriteInPlace ==
  /\ pc = "save" /\ pc' = "remove"
  /\ file' = None /\ tmp' = ram
  /\ saved' = {ram, BootCopy} /\ gone' = FALSE
  /\ UNCHANGED <<backend, ram, sync, paired, bounds>>

SaveWrite ==
  /\ pc = "save" /\ pc' = "remove"
  /\ tmp' = ram
  /\ saved' = {ram, BootCopy} /\ gone' = FALSE
  /\ UNCHANGED <<backend, ram, file, sync, paired, bounds>>

\* The copy cannot be opened or written in full.
SaveFails ==
  /\ pc = "save" /\ SaveEnds
  /\ tmp' = None
  /\ UNCHANGED <<backend, ram, file, paired, bounds, swaps>>

SaveRemove ==
  /\ pc = "remove" /\ pc' = "rename"
  /\ file' = None
  /\ UNCHANGED <<backend, ram, tmp, sync, paired, bounds, swaps>>

SaveRename ==
  /\ pc = "rename" /\ SaveEnds
  /\ file' = tmp /\ tmp' = None /\ saved' = {tmp}
  /\ UNCHANGED <<backend, ram, paired, bounds, gone>>

\* The old file has gone all the same.
SaveRenameFails ==
  /\ pc = "rename" /\ SaveEnds
  /\ gone' = TRUE
  /\ UNCHANGED <<backend, ram, flash, paired, bounds, saved>>

-----------------------------------------------------------------------------
(* Power, pairing, and edits at a door of its own.                         *)

Crash ==
  /\ pc # "off" /\ Upset
  /\ pc' = "off" /\ sync' = Idle /\ ram' = NoCopy
  /\ gone' = (gone \/ pc = "rename")
  /\ UNCHANGED <<backend, flash, paired, writes, saved>>

Boot ==
  /\ pc = "off"
  /\ ram' = BootCopy
  /\ pc' = IF file = None /\ NvsList # {} THEN "save" ELSE "on"
  /\ UNCHANGED <<backend, flash, sync, paired, bounds, swaps>>

Unpair ==
  /\ paired /\ paired' = FALSE
  /\ Upset
  /\ UNCHANGED <<backend, ram, flash, pc, sync, writes, swaps>>

Pair ==
  /\ ~paired /\ paired' = TRUE
  /\ UNCHANGED <<backend, ram, flash, pc, sync, bounds, swaps>>

\* Roster::add and remove, from the door's own page; refused on a paired door.
LocalEdit ==
  /\ pc = "on" /\ ~paired
  /\ Upset
  /\ \E c \in Creds :
       ram' = [ram EXCEPT !.roster = IF c \in @ THEN @ \ {c} ELSE @ \cup {c},
                          !.mark = "local"]
  /\ pc' = "save"
  /\ UNCHANGED <<backend, flash, sync, paired, writes, swaps>>

\* A door just flashed, and a backend that already has people in it.
Init ==
  /\ tables \in Tables /\ rev = 1 /\ top = 1 /\ reused = {}
  /\ writer = [w \in Writers |-> [pc |-> "idle", seen |-> 0]]
  /\ ram = NoCopy /\ file = None /\ tmp = None
  /\ pc = "off" /\ sync = Idle /\ paired = TRUE
  /\ writes = 0 /\ upsets = 0
  /\ recent = Only(tables) /\ saved = {} /\ gone = FALSE

Bump == \E w \in Writers : BumpRead(w) \/ BumpWrite(w)
Reading == SyncReadRev \/ SyncReadDoor \/ SyncReadPeople \/ SyncReadCreds
Misreading == SyncMisreadRev \/ SyncMisreadDoor \/ \E w \in Writers : BumpMisreads(w)
Syncing == SyncAsk \/ Reading \/ SyncNoRoster
Saving == SaveWrite \/ SaveRemove \/ SaveRename

Next ==
  \/ \E w \in Writers : Write(w) \/ WriterStops(w)
  \/ Bump \/ Expire \/ Misreading
  \/ Syncing \/ SyncLost \/ SyncApply \/ SyncNoMemory
  \/ Saving \/ SaveFails \/ SaveRenameFails
  \/ Crash \/ Boot
  \/ Unpair \/ Pair \/ LocalEdit

Spec == Init /\ [][Next]_vars

(* The door boots and its cloudsync task polls for ever; the network and the
   heap do not fail for ever, nor a read of storage; a request at the backend
   runs to its end unless WritersFail.                                     *)
Fairness ==
  /\ WF_vars(Boot \/ Saving) /\ WF_vars(Syncing) /\ WF_vars(Bump) /\ SF_vars(SyncApply)

FairSpec == Spec /\ Fairness

-----------------------------------------------------------------------------
(* What the roster promises.                                               *)

\* A list the backend's tables have given since its revision last moved: each
\* read at a moment of its own.  They have held only one thing each unless a writer
\* has not bumped the revision yet, or stopped before it did, or something expired.
Meant(roster) == \E t \in [door : recent.door, people : recent.people, creds : recent.creds] :
                   roster = Effective(t)

Current(copy) == copy.rev = rev /\ Meant(copy.roster)

(* A list held under the backend's revision is the backend's list: in RAM, and
   in the file a power cut would bring back.  It is what makes "send the roster
   only when the revisions differ" correct.  Excepted are a list edited at the
   door while it was unpaired, whose revision stays what it was; the empty list
   sent when the door's row could not be read; and a revision given by a bump
   that had not seen the highest one, because it overlapped with others or
   because it could not read it, and which some door may hold already.      *)
Faithful ==
  \A copy \in {ram, file} \ {None} :
    copy.mark = "none" /\ copy.rev = rev /\ rev \notin reused => Current(copy)

(* Roster.h:19-21 "a power cut during a save leaves either the old roster or
   the new one": what a boot finds is one of the two, unless the swap itself
   was cut short, between the removal of the one and the renaming of the other,
   by power or by a rename that failed.                                    *)
OldOrNew == [][Boot /\ saved # {} /\ ~gone => ram' \in saved]_vars

(* A change at the backend reaches the door: in the end a paired door decides
   against what the backend has to say.  A revoked credential stops working, and
   "every door still lets them in" (entraSweep.ts:202) does not happen -- with
   the exceptions of Faithful.                                             *)
Converges ==
  <>[](pc = "on" /\ (paired => ram.mark # "none" \/ rev \in reused \/ Current(ram)))

=============================================================================
