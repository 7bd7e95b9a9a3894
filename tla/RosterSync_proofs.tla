--------------------------- MODULE RosterSync_proofs ---------------------------
(***************************************************************************)
(* Proofs about RosterSync, for any credentials, groups, list in NVS,      *)
(* writers and bounds, whatever overlaps, fails or loses power.            *)
(*                                                                         *)
(* Faithful rests on the highest revision ever given: no list is held      *)
(* under a higher one, and the revision in force is that one or was given  *)
(* by a bump that had not seen it (Sound).  A bump that has seen it leaves *)
(* every list behind, and one that has not is what Faithful excepts.       *)
(* OldOrNew rests on what a boot would find (Leaves).                      *)
(***************************************************************************)
EXTENDS RosterSync, FiniteSetTheorems, TLAPS

Doing == [pc : {"idle", "written", "read"}, seen : Revs]
Syncs == [pc : {"idle", "asked", "revRead", "doorRead", "peopleRead", "answered",
                "applying"},
          deviceRev : Revs, rev : Revs, door : SUBSET Groups, people : Holders,
          roster : Lists, mark : Marks]
Recents == [door : SUBSET SUBSET Groups, people : SUBSET Holders,
            creds : SUBSET SUBSET Creds]

BackendTyped ==
  /\ tables \in Tables /\ rev \in Revs
  /\ writer \in [Writers -> Doing]
  /\ writes \in 0 .. MaxWrites
  /\ recent \in Recents
  /\ tables.door \in recent.door /\ tables.people \in recent.people
  /\ tables.creds \in recent.creds
  /\ top \in Revs /\ reused \subseteq Revs

\* Writers whose change is not announced, each of which has one write to go with.
Busy == {w \in Writers : writer[w].pc # "idle"}

BumpsCounted ==
  /\ IsFiniteSet(Busy) /\ top + Cardinality(Busy) <= writes + 1
  /\ rev <= top
  /\ \A w \in Writers : writer[w].seen <= top

DoorTyped ==
  /\ ram \in Copies /\ file \in Copies \cup {None} /\ tmp \in Copies \cup {None}
  /\ saved \subseteq Copies /\ gone \in BOOLEAN
  /\ pc \in {"off", "on", "save", "remove", "rename"}
  /\ pc \in {"remove", "rename"} => tmp \in Copies
  /\ sync \in Syncs
  /\ sync.pc = "applying" => pc \in {"save", "remove", "rename"}
  /\ paired \in BOOLEAN /\ upsets \in 0 .. MaxUpsets

WellTyped == BackendTyped /\ BumpsCounted /\ DoorTyped

LEMMA WellTypedIsTypeOK == WellTyped => TypeOK
  BY DEF WellTyped, BackendTyped, DoorTyped, TypeOK, Doing, Syncs, Recents

LEMMA Bounds ==
  /\ MaxWrites \in Nat /\ MaxUpsets \in Nat
  /\ 0 \in Revs /\ 1 \in Revs /\ Revs \subseteq Nat /\ Idle \in Syncs /\ NoCopy \in Copies
  /\ \A r \in SUBSET Creds, v \in Revs, m \in Marks :
       [roster |-> r, rev |-> v, mark |-> m] \in Copies
  /\ "none" \in Marks /\ "local" \in Marks /\ "blank" \in Marks
<1>1. MaxWrites \in Nat /\ MaxUpsets \in Nat
  BY RosterAssumption
<1>2. 0 \in Revs /\ 1 \in Revs /\ Revs \subseteq Nat
  BY <1>1 DEF Revs
<1>3. "none" \in Marks /\ "local" \in Marks /\ "blank" \in Marks
  BY DEF Marks
<1>4. Idle \in Syncs
  <2>1. NoGroups \in Holders
    BY DEF NoGroups, Holders
  <2>2. QED
    BY <1>2, <1>3, <2>1 DEF Idle, Syncs, Lists
<1>5. QED
  BY <1>1, <1>2, <1>3, <1>4 DEF Copies, NoCopy

\* A list worked out from the tables is a list of credentials.
LEMMA EffectiveTyped ==
  ASSUME NEW d, NEW p, NEW c \in SUBSET Creds
  PROVE  Effective([door |-> d, people |-> p, creds |-> c]) \in SUBSET Creds
  BY DEF Effective

\* One more row is a state of the tables.
LEMMA RowTyped == ASSUME tables \in Tables PROVE RowWritten \subseteq Tables
<1>1. \A g \in SUBSET Groups : [tables EXCEPT !.door = g] \in Tables
  BY DEF Tables
<1>2. \A c \in Creds, g \in SUBSET Groups : [tables EXCEPT !.people[c] = g] \in Tables
  <2> TAKE c \in Creds, g \in SUBSET Groups
  <2>1. [tables.people EXCEPT ![c] = g] \in Holders
    BY DEF Tables, Holders
  <2>2. [tables EXCEPT !.people = [tables.people EXCEPT ![c] = g]] \in Tables
    BY <2>1 DEF Tables
  <2>3. QED
    BY <2>2
<1>3. \A c \in Creds : /\ [tables EXCEPT !.creds = @ \cup {c}] \in Tables
                       /\ [tables EXCEPT !.creds = @ \ {c}] \in Tables
  BY DEF Tables
<1>4. ASSUME NEW t \in RowWritten PROVE t \in Tables
  <2>1. \/ \E g \in SUBSET Groups : t = [tables EXCEPT !.door = g]
        \/ \E c \in Creds, g \in SUBSET Groups : t = [tables EXCEPT !.people[c] = g]
        \/ \E c \in Creds : t = [tables EXCEPT !.creds = @ \cup {c}]
        \/ \E c \in Creds : t = [tables EXCEPT !.creds = @ \ {c}]
    BY <1>4 DEF RowWritten
  <2>2. QED
    BY <1>1, <1>2, <1>3, <2>1, Zenon
<1>5. QED
  BY <1>4

\* What is remembered includes what was, and what the tables hold now.
LEMMA RememberedTyped ==
  ASSUME recent \in Recents, NEW t \in Tables, NEW r, r = Remembered(recent, t)
  PROVE  /\ r \in Recents
         /\ t.door \in r.door /\ t.people \in r.people /\ t.creds \in r.creds
         /\ recent.door \subseteq r.door /\ recent.people \subseteq r.people
         /\ recent.creds \subseteq r.creds
<1>1. t.door \in SUBSET Groups /\ t.people \in Holders /\ t.creds \in SUBSET Creds
  BY DEF Tables
<1>2. QED
  BY <1>1 DEF Remembered, Recents

LEMMA InitTyped == Init => WellTyped
<1> SUFFICES ASSUME Init PROVE WellTyped
  OBVIOUS
<1>1. BackendTyped
  <2>1. writer \in [Writers -> Doing]
    BY Bounds DEF Init, Doing
  <2>2. recent \in Recents /\ tables.door \in recent.door /\ tables.people \in recent.people
        /\ tables.creds \in recent.creds
    BY DEF Init, Only, Recents, Tables
  <2>3. tables \in Tables /\ rev \in Revs /\ top \in Revs /\ reused \subseteq Revs
        /\ writes \in 0 .. MaxWrites
    BY Bounds DEF Init
  <2>4. QED
    BY <2>1, <2>2, <2>3 DEF BackendTyped
<1>2. BumpsCounted
  <2>1. Busy = {}
    BY DEF Init, Busy
  <2>2. QED
    BY <2>1, FS_EmptySet DEF Init, BumpsCounted
<1>3. DoorTyped
  <2>1. ram \in Copies /\ sync \in Syncs /\ upsets \in 0 .. MaxUpsets
    BY Bounds DEF Init
  <2>2. paired \in BOOLEAN /\ gone \in BOOLEAN
    BY Zenon DEF Init
  <2>3. QED
    BY <2>1, <2>2 DEF Init, DoorTyped, Idle
<1>4. QED
  BY <1>1, <1>2, <1>3 DEF WellTyped

(* A writer becomes busy with a write, which is counted, and not by        *)
(* another; announcing the change or giving it up makes it idle.           *)
LEMMA BumpsStep ==
  ASSUME WellTyped, Next
  PROVE  BackendTyped' /\ BumpsCounted'
<1> /\ BackendTyped /\ BumpsCounted
    /\ Cardinality(Busy) \in Nat /\ rev \in Nat /\ top \in Nat /\ writes \in Nat
    /\ MaxWrites \in Nat
    /\ \A w \in Writers : writer[w].seen \in Nat
  <2>1. BackendTyped /\ BumpsCounted
    BY DEF WellTyped
  <2>2. Cardinality(Busy) \in Nat
    BY <2>1, FS_CardinalityType DEF BumpsCounted
  <2>3. rev \in Nat /\ top \in Nat /\ writes \in Nat /\ MaxWrites \in Nat
    BY <2>1, Bounds DEF BackendTyped
  <2>4. \A w \in Writers : writer[w].seen \in Nat
    BY <2>1, Bounds DEF BackendTyped, Doing
  <2>5. QED
    BY <2>1, <2>2, <2>3, <2>4
<1>1. CASE UNCHANGED <<backend, writes>>
  BY <1>1 DEF backend, BackendTyped, BumpsCounted, Busy
<1>2. ASSUME NEW w \in Writers, Write(w) PROVE BackendTyped' /\ BumpsCounted'
  <2>1. Busy' = Busy \cup {w}
    BY <1>2 DEF Write, Busy, BackendTyped, Doing
  <2>2. IsFiniteSet(Busy') /\ Cardinality(Busy') <= Cardinality(Busy) + 1
        /\ Cardinality(Busy') \in Nat
    <3>1. IsFiniteSet(Busy') /\ Cardinality(Busy') \in {Cardinality(Busy), Cardinality(Busy) + 1}
      BY <2>1, FS_AddElement DEF BumpsCounted
    <3>2. QED
      BY <3>1
  <2>3. tables' \in Tables
    BY <1>2, RowTyped DEF Write, BackendTyped
  <2>4. UNCHANGED <<rev, top, reused>> /\ writes' = writes + 1 /\ writes' \in 0 .. MaxWrites
    BY <1>2 DEF Write, BackendTyped
  <2>5. writer' \in [Writers -> Doing] /\ \A v \in Writers : writer'[v].seen = writer[v].seen
    BY <1>2 DEF Write, BackendTyped, Doing
  <2>6. /\ recent' \in Recents /\ tables'.door \in recent'.door
        /\ tables'.people \in recent'.people /\ tables'.creds \in recent'.creds
    BY <1>2, <2>3, RememberedTyped DEF Write, BackendTyped
  <2>7. QED
    BY <2>2, <2>3, <2>4, <2>5, <2>6 DEF BackendTyped, BumpsCounted
<1>3. ASSUME NEW w \in Writers, BumpRead(w) \/ BumpMisreads(w)
      PROVE  BackendTyped' /\ BumpsCounted'
  <2>1. PICK seen \in {0, rev} : BumpReads(w, seen)
    BY <1>3 DEF BumpRead, BumpMisreads
  <2>2. seen \in Revs /\ seen <= top
    BY <2>1, Bounds DEF BackendTyped, BumpsCounted
  <2>3. writer' \in [Writers -> Doing] /\ \A v \in Writers : writer'[v].seen <= top
    BY <2>1, <2>2 DEF BumpReads, BackendTyped, BumpsCounted, Doing
  <2>4. Busy' = Busy
    BY <2>1 DEF BumpReads, Busy, BackendTyped, Doing
  <2>5. UNCHANGED <<tables, rev, recent, top, reused, writes>>
    BY <2>1 DEF BumpReads
  <2>6. QED
    BY <2>3, <2>4, <2>5 DEF BackendTyped, BumpsCounted
<1>4. ASSUME NEW w \in Writers, BumpWrite(w) \/ WriterStops(w)
      PROVE  BackendTyped' /\ BumpsCounted'
  <2>1. writer' = [writer EXCEPT ![w] = [pc |-> "idle", seen |-> 0]]
        /\ writer[w].pc # "idle" /\ UNCHANGED <<tables, writes>>
    BY <1>4 DEF BumpWrite, Moves, WriterStops, bounds
  <2>2. Busy' = Busy \ {w} /\ w \in Busy
    BY <2>1 DEF Busy, BackendTyped, Doing
  <2>3. IsFiniteSet(Busy') /\ Cardinality(Busy') = Cardinality(Busy) - 1
        /\ Cardinality(Busy) >= 1
    <3>1. IsFiniteSet(Busy')  /\ Cardinality(Busy') = Cardinality(Busy) - 1
      BY <2>2, FS_RemoveElement DEF BumpsCounted
    <3>2. Cardinality(Busy') \in Nat
      BY <3>1, FS_CardinalityType
    <3>3. QED
      BY <3>1, <3>2
  <2>4. /\ rev' \in Nat /\ rev' <= top' /\ top' \in Nat /\ top <= top'
        /\ top' + Cardinality(Busy') <= writes + 1
        /\ reused' \subseteq reused \cup {rev'}
    <3>1. CASE BumpWrite(w)
      <4>1. /\ rev' = writer[w].seen + 1
            /\ IF writer[w].seen < top THEN reused' = reused \cup {rev'} /\ top' = top
                                       ELSE top' = rev' /\ reused' = reused
        BY <3>1 DEF BumpWrite, Moves
      <4>2. writer[w].seen <= top
        BY DEF BumpsCounted
      <4>3. QED
        BY <2>3, <4>1, <4>2 DEF BumpsCounted
    <3>2. CASE WriterStops(w)
      <4>1. UNCHANGED <<rev, top, reused>>
        BY <3>2 DEF WriterStops
      <4>2. QED
        BY <2>3, <4>1 DEF BumpsCounted
    <3>3. QED
      BY <1>4, <3>1, <3>2
  <2>5. rev' \in Revs /\ top' \in Revs /\ reused' \subseteq Revs
    <3>1. Cardinality(Busy') \in Nat
      BY <2>3
    <3>2. top' <= MaxWrites + 1
      BY <2>4, <3>1 DEF BackendTyped
    <3>3. QED
      BY <2>4, <3>2 DEF BackendTyped, Revs
  <2>6. writer' \in [Writers -> Doing] /\ \A v \in Writers : writer'[v].seen <= top'
    <3>1. writer' \in [Writers -> Doing]
      BY <2>1, Bounds DEF BackendTyped, Doing
    <3>2. ASSUME NEW v \in Writers PROVE writer'[v].seen <= top'
      <4>1. writer'[v].seen = 0 \/ writer'[v].seen = writer[v].seen
        BY <2>1 DEF BackendTyped
      <4>2. QED
        BY <2>4, <4>1 DEF BumpsCounted
    <3>3. QED
      BY <3>1, <3>2
  <2>7. /\ recent' \in Recents /\ tables.door \in recent'.door
        /\ tables.people \in recent'.people /\ tables.creds \in recent'.creds
    <3>1. recent' \in {recent, Only(tables)}
      BY <1>4 DEF BumpWrite, Moves, WriterStops, Announce
    <3>2. QED
      BY <3>1 DEF BackendTyped, Only, Recents, Tables
  <2>8. QED
    BY <2>1, <2>3, <2>4, <2>5, <2>6, <2>7 DEF BackendTyped, BumpsCounted
<1>5. CASE Expire
  <2>1. UNCHANGED <<rev, top, reused, writer>> /\ writes' = writes + 1
        /\ writes' \in 0 .. MaxWrites
    BY <1>5 DEF Expire, BackendTyped
  <2>2. tables' \in Tables
    BY <1>5 DEF Expire, BackendTyped, Tables
  <2>3. /\ recent' \in Recents /\ tables'.door \in recent'.door
        /\ tables'.people \in recent'.people /\ tables'.creds \in recent'.creds
    BY <1>5, <2>2, RememberedTyped DEF Expire, BackendTyped
  <2>4. Busy' = Busy
    BY <2>1 DEF Busy
  <2>5. QED
    BY <2>1, <2>2, <2>3, <2>4 DEF BackendTyped, BumpsCounted
<1>6. QED
  BY <1>1, <1>2, <1>3, <1>4, <1>5
     DEF Next, bounds, Bump, Misreading, Syncing, Reading, Saving, SyncAsk, SyncReadsRev,
     SyncReadRev, SyncMisreadRev, SyncReadDoor, SyncMisreadDoor, SyncReadPeople,
     SyncReadCreds, SyncNoRoster, SyncLost, SyncApply, SyncNoMemory, SaveWrite, SaveRemove,
     SaveRename, SaveFails, SaveRenameFails, Crash, Boot, Unpair, Pair, LocalEdit

LEMMA DoorStep == ASSUME WellTyped, Next PROVE DoorTyped'
<1> /\ DoorTyped /\ BackendTyped /\ upsets \in Nat /\ MaxUpsets \in Nat
  BY Bounds DEF WellTyped, DoorTyped
<1>1. BootCopy \in Copies
  <2>1. NvsList \in SUBSET Creds
    BY RosterAssumption
  <2>2. QED
    BY <2>1, Bounds DEF BootCopy, DoorTyped
<1>2. Upset => upsets' \in 0 .. MaxUpsets
  BY DEF Upset
<1>3. CASE UNCHANGED <<ram, flash, pc, sync, paired, swaps>>
           /\ (Upset \/ UNCHANGED upsets)
  BY <1>2, <1>3 DEF flash, swaps, DoorTyped
<1>4. ASSUME UNCHANGED <<ram, flash, pc, paired, swaps>>, Upset \/ UNCHANGED upsets,
             sync' \in Syncs, sync'.pc # "applying"
      PROVE  DoorTyped'
  BY <1>2, <1>4 DEF flash, swaps, DoorTyped
<1>5. CASE Syncing \/ SyncMisreadRev \/ SyncMisreadDoor \/ SyncLost \/ SyncNoMemory
  <2>1. CASE SyncAsk
    <3>1. ram.rev \in Revs
      BY DEF DoorTyped, Copies
    <3>2. sync' \in Syncs /\ sync'.pc # "applying"
      BY <2>1, <3>1, Bounds DEF SyncAsk, Syncs
    <3>3. QED
      BY <1>4, <2>1, <3>2 DEF SyncAsk, bounds
  <2>2. CASE SyncReadRev \/ SyncMisreadRev
    <3>1. PICK found \in {0, rev} : SyncReadsRev(found)
      BY <2>2 DEF SyncReadRev, SyncMisreadRev
    <3>2. found \in Revs
      BY <3>1, Bounds DEF BackendTyped
    <3>3. sync' \in Syncs /\ sync'.pc # "applying"
      BY <3>1, <3>2, Bounds DEF SyncReadsRev, Syncs
    <3>4. QED
      BY <1>4, <2>2, <3>1, <3>3 DEF SyncReadsRev, SyncReadRev, SyncMisreadRev
  <2>3. CASE SyncReadDoor
    <3>1. tables.door \in SUBSET Groups
      BY DEF BackendTyped, Tables
    <3>2. sync' \in Syncs /\ sync'.pc # "applying"
      BY <2>3, <3>1 DEF SyncReadDoor, DoorTyped, Syncs
    <3>3. QED
      BY <1>4, <2>3, <3>2 DEF SyncReadDoor, bounds
  <2>4. CASE SyncMisreadDoor
    <3>1. sync' \in Syncs /\ sync'.pc # "applying"
      BY <2>4, Bounds DEF SyncMisreadDoor, DoorTyped, Syncs, Lists
    <3>2. QED
      BY <1>4, <2>4, <3>1 DEF SyncMisreadDoor
  <2>5. CASE SyncReadPeople
    <3>1. tables.people \in Holders
      BY DEF BackendTyped, Tables
    <3>2. sync' \in Syncs /\ sync'.pc # "applying"
      BY <2>5, <3>1 DEF SyncReadPeople, DoorTyped, Syncs
    <3>3. QED
      BY <1>4, <2>5, <3>2 DEF SyncReadPeople, bounds
  <2>6. CASE SyncReadCreds
    <3>1. tables.creds \in SUBSET Creds
      BY DEF BackendTyped, Tables
    <3>2. PICK list : /\ list \in SUBSET Creds
                      /\ sync' = [Idle EXCEPT !.pc = "answered", !.rev = sync.rev,
                                              !.roster = list]
      BY <2>6, <3>1, EffectiveTyped DEF SyncReadCreds
    <3>3. sync' \in Syncs /\ sync'.pc # "applying"
      BY <3>2, Bounds DEF DoorTyped, Syncs, Lists
    <3>4. QED
      BY <1>4, <2>6, <3>3 DEF SyncReadCreds, bounds
  <2>7. CASE SyncNoRoster \/ SyncLost \/ SyncNoMemory
    <3>1. sync' \in Syncs /\ sync'.pc # "applying"
      BY <2>7, Bounds DEF SyncNoRoster, SyncLost, SyncNoMemory, Idle
    <3>2. QED
      BY <1>4, <2>7, <3>1 DEF SyncNoRoster, SyncLost, SyncNoMemory, bounds
  <2>8. QED
    BY <1>5, <2>1, <2>2, <2>3, <2>4, <2>5, <2>6, <2>7 DEF Syncing, Reading
<1>6. CASE SyncApply
  <2>1. sync.roster \in SUBSET Creds /\ sync.rev \in Revs /\ sync.mark \in Marks
    BY <1>6 DEF SyncApply, DoorTyped, Syncs, Lists
  <2>2. ram' \in Copies
    BY <1>6, <2>1, Bounds DEF SyncApply
  <2>3. [Idle EXCEPT !.pc = "applying"] \in Syncs
    BY Bounds DEF Syncs
  <2>4. QED
    BY <1>6, <2>2, <2>3 DEF SyncApply, flash, swaps, bounds, DoorTyped
<1>7. CASE Saving \/ SaveFails \/ SaveRenameFails
  BY <1>1, <1>7, Bounds DEF Saving, SaveWrite, SaveRemove, SaveRename, SaveFails,
     SaveRenameFails, SaveEnds, flash, swaps, bounds, DoorTyped, Idle, Syncs
<1>8. CASE Crash
  <2>1. gone' \in BOOLEAN
    BY <1>8, Zenon DEF Crash
  <2>2. QED
    BY <1>2, <1>8, <2>1, Bounds DEF Crash, flash, DoorTyped, Idle
<1>9. CASE Boot
  BY <1>1, <1>9, Bounds DEF Boot, flash, swaps, bounds, DoorTyped
<1>10. CASE Unpair \/ Pair
  <2>1. paired' \in BOOLEAN
    BY <1>10, Zenon DEF Unpair, Pair
  <2>2. QED
    BY <1>2, <1>10, <2>1, Bounds DEF Unpair, Pair, flash, swaps, bounds, DoorTyped
<1>11. CASE LocalEdit
  <2>1. PICK c \in Creds :
          ram' = [ram EXCEPT !.roster = IF c \in @ THEN @ \ {c} ELSE @ \cup {c},
                             !.mark = "local"]
    BY <1>11 DEF LocalEdit
  <2>2. ram' \in Copies
    BY <2>1, Bounds DEF DoorTyped, Copies
  <2>3. QED
    BY <1>2, <1>11, <2>2, Bounds DEF LocalEdit, flash, swaps, DoorTyped
<1>12. CASE Bump \/ Expire \/ \E w \in Writers : Write(w) \/ WriterStops(w) \/ BumpMisreads(w)
  BY <1>3, <1>12 DEF bounds, Bump, Write, WriterStops, BumpReads, BumpRead, BumpMisreads,
     BumpWrite, Moves, Expire
<1>13. QED
  BY <1>5, <1>6, <1>7, <1>8, <1>9, <1>10, <1>11, <1>12 DEF Next, Misreading

LEMMA WellTypedStep == WellTyped /\ [Next]_vars => WellTyped'
<1> SUFFICES ASSUME WellTyped, [Next]_vars PROVE WellTyped'
  OBVIOUS
<1>1. CASE Next
  BY <1>1, BumpsStep, DoorStep DEF WellTyped
<1>2. CASE UNCHANGED vars
  BY <1>2 DEF vars, backend, flash, swaps, bounds, WellTyped, BackendTyped, BumpsCounted,
     Busy, DoorTyped
<1>3. QED
  BY <1>1, <1>2

(* Every variable keeps its type, for any number of overlapping writers:   *)
(* no revision is ever higher than the writes that were made.              *)
THEOREM TypeCorrect == Spec => []TypeOK
<1>1. WellTyped => TypeOK
  BY WellTypedIsTypeOK
<1>2. QED
  BY <1>1, InitTyped, WellTypedStep, PTL DEF Spec

-----------------------------------------------------------------------------
(* No list is held, kept or on its way under a revision higher than any    *)
(* ever given; and what bears the revision in force, if that is the        *)
(* highest, was read since it was given: the door's list, the file, the    *)
(* copy being written, and each table of an answer in the making.          *)
Now(v) == v = rev /\ rev \notin reused

Says(copy) == copy.rev <= top /\ (copy.mark = "none" /\ Now(copy.rev) => Meant(copy.roster))

ReadSound ==
  /\ sync.pc \in {"revRead", "doorRead", "peopleRead", "answered"} => sync.rev <= top
  /\ sync.pc \in {"doorRead", "peopleRead"} /\ Now(sync.rev) => sync.door \in recent.door
  /\ sync.pc = "peopleRead" /\ Now(sync.rev) => sync.people \in recent.people
  /\ sync.pc = "answered" /\ sync.roster # None /\ sync.mark = "none" /\ Now(sync.rev)
       => Meant(sync.roster)

CopiesSound == Says(ram) /\ (file # None => Says(file)) /\ (tmp # None => Says(tmp))

RevSound == /\ 1 <= rev /\ (rev = top \/ rev \in reused)
            /\ \A v \in reused : v <= top

Sound == RevSound /\ CopiesSound /\ ReadSound

LEMMA Revisions ==
  ASSUME WellTyped
  PROVE  /\ rev \in Nat /\ top \in Nat /\ ram.rev \in Nat /\ sync.rev \in Nat
         /\ (file # None => file.rev \in Nat) /\ (tmp # None => tmp.rev \in Nat)
         /\ rev <= top
  BY Bounds DEF WellTyped, BackendTyped, BumpsCounted, DoorTyped, Copies, Syncs

\* The tables' past grows as long as the revision stands.
LEMMA MeantGrows ==
  ASSUME recent.door \subseteq recent'.door, recent.people \subseteq recent'.people,
         recent.creds \subseteq recent'.creds, NEW list
  PROVE  Meant(list) => Meant(list)'
  BY DEF Meant

LEMMA GrowingStep ==
  ASSUME WellTyped, Sound, UNCHANGED <<rev, top, reused, ram, flash, sync>>,
         recent.door \subseteq recent'.door, recent.people \subseteq recent'.people,
         recent.creds \subseteq recent'.creds
  PROVE  Sound'
<1>1. \A list : Meant(list) => Meant(list)'
  BY MeantGrows
<1>2. RevSound' /\ CopiesSound'
  BY <1>1 DEF flash, Sound, RevSound, CopiesSound, Says, Now
<1>3. ReadSound'
  BY <1>1 DEF Sound, ReadSound, Now
<1>4. QED
  BY <1>2, <1>3 DEF Sound

\* A bump that has seen the highest revision leaves every list behind it; the
\* revision of one that has not is known to be reused.
LEMMA MovingStep ==
  ASSUME WellTyped, Sound, NEW w \in Writers, BumpWrite(w)
  PROVE  Sound'
<1> /\ rev \in Nat /\ top \in Nat /\ writer[w].seen \in Nat /\ writer[w].seen <= top
  BY Revisions, Bounds DEF WellTyped, BackendTyped, BumpsCounted, Doing
<1>1. /\ rev' = writer[w].seen + 1 /\ UNCHANGED <<ram, flash, sync>>
      /\ IF writer[w].seen < top THEN reused' = reused \cup {rev'} /\ top' = top
                                 ELSE top' = rev' /\ reused' = reused
  BY DEF BumpWrite, Moves
<1>2. top <= top' /\ (rev' \in reused' \/ rev' > top)
  BY <1>1
<1>3. RevSound'
  <2>1. 1 <= rev' /\ (rev' = top' \/ rev' \in reused')
    BY <1>1
  <2>2. \A v \in reused : v \in Nat /\ v <= top
    BY Bounds DEF Sound, RevSound, WellTyped, BackendTyped
  <2>3. top' \in Nat /\ rev' \in Nat /\ rev' <= top' /\ reused' \subseteq reused \cup {rev'}
    BY <1>1
  <2>4. \A v \in reused' : v <= top'
    BY <1>2, <2>2, <2>3
  <2>5. QED
    BY <2>1, <2>4 DEF RevSound
<1>4. \A v \in Nat : v <= top => ~Now(v)' /\ v <= top'
  BY <1>1, <1>2 DEF Now
<1>5. CopiesSound'
  BY <1>1, <1>4, Revisions DEF flash, Sound, CopiesSound, Says
<1>6. ReadSound'
  BY <1>1, <1>4, Revisions DEF Sound, ReadSound
<1>7. QED
  BY <1>3, <1>5, <1>6 DEF Sound

\* What the door and its sync do, the backend standing still.
LEMMA DoorSound ==
  ASSUME WellTyped, Sound, Next, UNCHANGED backend
  PROVE  Sound'
<1> UNCHANGED <<tables, rev, recent, writer, top, reused>>
  BY DEF backend
<1> /\ BackendTyped /\ DoorTyped
  BY DEF WellTyped
<1> USE Revisions
<1>1. RevSound' /\ \A list : Meant(list)' <=> Meant(list)
  BY DEF Sound, RevSound, Meant
<1>2. \A v : Now(v)' <=> Now(v)
  BY DEF Now
<1>3. ASSUME UNCHANGED <<ram, file, tmp>> PROVE CopiesSound'
  BY <1>1, <1>2, <1>3 DEF Sound, CopiesSound, Says
<1>4. ASSUME UNCHANGED sync PROVE ReadSound'
  BY <1>1, <1>2, <1>4 DEF Sound, ReadSound
<1>5. ASSUME sync'.pc \notin {"revRead", "doorRead", "peopleRead", "answered"}
      PROVE  ReadSound'
  BY <1>5 DEF ReadSound
<1>6. Idle.pc = "idle" /\ Idle.roster = None /\ Idle.mark = "none"
  BY DEF Idle
<1>7. Says(BootCopy) /\ Says(NoCopy)
  <2>1. ASSUME NEW copy, copy.rev = 0 PROVE Says(copy)
    BY <2>1 DEF Says, Now, Sound, RevSound
  <2>2. file # None => Says(file)
    BY DEF Sound, CopiesSound
  <2>3. QED
    BY <2>1, <2>2 DEF BootCopy, NoCopy
<1>8. CASE SyncAsk \/ SyncNoRoster \/ SyncLost \/ SyncNoMemory
  <2>1. sync'.pc \in {"idle", "asked"}
    BY <1>6, <1>8, Bounds DEF SyncAsk, SyncNoRoster, SyncLost, SyncNoMemory, Syncs
  <2>2. UNCHANGED <<ram, file, tmp>>
    BY <1>8 DEF SyncAsk, SyncNoRoster, SyncLost, SyncNoMemory, flash
  <2>3. QED
    BY <1>1, <1>3, <1>5, <2>1, <2>2 DEF Sound
<1>9. CASE SyncReadRev \/ SyncMisreadRev
  <2>1. PICK found \in {0, rev} : SyncReadsRev(found)
    BY <1>9 DEF SyncReadRev, SyncMisreadRev
  <2>2. /\ sync'.pc \in {"answered", "revRead"} /\ sync'.rev \in {0, found}
        /\ sync'.roster = None
    BY <1>6, <2>1, Bounds DEF SyncReadsRev, Syncs, Idle
  <2>3. sync'.rev <= top
    BY <2>1, <2>2
  <2>4. ReadSound'
    BY <2>2, <2>3 DEF ReadSound
  <2>5. QED
    BY <1>1, <1>3, <2>1, <2>4 DEF SyncReadsRev, flash, Sound
<1>10. CASE SyncReadDoor \/ SyncReadPeople
  <2>1. /\ sync'.rev = sync.rev /\ sync'.pc \in {"doorRead", "peopleRead"}
        /\ sync'.door \in {sync.door, tables.door}
        /\ sync'.pc = "doorRead" => sync'.door = tables.door
        /\ sync'.pc = "peopleRead" => /\ sync.pc = "doorRead" /\ sync'.door = sync.door
                                      /\ sync'.people = tables.people
        /\ sync.pc \in {"revRead", "doorRead"}
    BY <1>10 DEF SyncReadDoor, SyncReadPeople, DoorTyped, Syncs
  <2>2. ReadSound'
    BY <1>2, <2>1 DEF BackendTyped, Sound, ReadSound
  <2>3. QED
    BY <1>1, <1>3, <1>10, <2>2 DEF SyncReadDoor, SyncReadPeople, flash, Sound
<1>11. CASE SyncMisreadDoor
  <2>1. /\ sync'.rev = sync.rev /\ sync'.pc = "answered" /\ sync'.mark = "blank"
        /\ sync.pc = "revRead"
    BY <1>11 DEF SyncMisreadDoor, DoorTyped, Syncs
  <2>2. ReadSound'
    BY <2>1 DEF Sound, ReadSound
  <2>3. QED
    BY <1>1, <1>3, <1>11, <2>2 DEF SyncMisreadDoor, flash, Sound
<1>12. CASE SyncReadCreds
  <2> DEFINE t == [door |-> sync.door, people |-> sync.people, creds |-> tables.creds]
  <2>1. /\ sync'.rev = sync.rev /\ sync'.pc = "answered" /\ sync.pc = "peopleRead"
        /\ sync'.roster = Effective(t)
    <3>1. \A list : [Idle EXCEPT !.pc = "answered", !.rev = sync.rev, !.roster = list].roster
                      = list
      BY Bounds DEF Syncs
    <3>2. \A list : /\ [Idle EXCEPT !.pc = "answered", !.rev = sync.rev, !.roster = list].rev
                         = sync.rev
                    /\ [Idle EXCEPT !.pc = "answered", !.rev = sync.rev, !.roster = list].pc
                         = "answered"
      BY Bounds DEF Syncs
    <3>3. QED
      BY <1>12, <3>1, <3>2, Zenon DEF SyncReadCreds
  <2>2. Now(sync.rev) => Meant(Effective(t))
    <3>1. SUFFICES ASSUME Now(sync.rev) PROVE Meant(Effective(t))
      OBVIOUS
    <3>2. sync.door \in recent.door /\ sync.people \in recent.people
          /\ tables.creds \in recent.creds
      BY <2>1, <3>1 DEF Sound, ReadSound, BackendTyped
    <3>3. t \in [door : recent.door, people : recent.people, creds : recent.creds]
      BY <3>2
    <3>4. QED
      BY <3>3, Zenon DEF Meant
  <2>3. ReadSound'
    BY <1>1, <1>2, <2>1, <2>2 DEF Sound, ReadSound
  <2>4. QED
    BY <1>1, <1>3, <1>12, <2>3 DEF SyncReadCreds, flash, Sound
<1>13. CASE SyncApply
  <2>1. Says(ram')
    BY <1>13 DEF SyncApply, Sound, ReadSound, Says
  <2>2. CopiesSound'
    <3>1. UNCHANGED <<file, tmp>> /\ (file # None => Says(file)) /\ (tmp # None => Says(tmp))
      BY <1>13 DEF SyncApply, flash, Sound, CopiesSound
    <3>2. QED
      BY <1>1, <1>2, <2>1, <3>1 DEF CopiesSound, Says
  <2>3. sync'.pc = "applying"
    BY <1>13, Bounds DEF SyncApply, Syncs
  <2>4. QED
    BY <1>1, <1>5, <2>2, <2>3 DEF Sound
<1>14. CASE SaveWrite \/ SaveRemove \/ SaveRename \/ SaveFails \/ SaveRenameFails
  <2>1. /\ ram' = ram /\ file' \in {file, tmp, None} /\ tmp' \in {tmp, ram, None}
        /\ (sync' = sync \/ sync' = Idle)
    BY <1>14 DEF SaveWrite, SaveRemove, SaveRename, SaveFails, SaveRenameFails, SaveEnds,
       flash
  <2>2. CopiesSound'
    BY <1>1, <1>2, <2>1 DEF Sound, CopiesSound, Says
  <2>3. ReadSound'
    BY <1>4, <1>5, <1>6, <2>1
  <2>4. QED
    BY <1>1, <2>2, <2>3 DEF Sound
<1>15. CASE Crash \/ Boot \/ LocalEdit
  <2>1. Says(ram')
    <3>1. CASE Crash \/ Boot
      BY <1>7, <3>1 DEF Crash, Boot
    <3>2. CASE LocalEdit
      <4>1. ram'.rev = ram.rev /\ ram'.mark = "local"
        BY <3>2 DEF LocalEdit, DoorTyped, Copies
      <4>2. QED
        BY <4>1 DEF Says, Sound, CopiesSound
    <3>3. QED
      BY <1>15, <3>1, <3>2
  <2>2. UNCHANGED <<file, tmp>> /\ (sync' = sync \/ sync' = Idle)
    BY <1>15 DEF Crash, Boot, LocalEdit, flash
  <2>3. CopiesSound'
    BY <1>1, <1>2, <2>1, <2>2 DEF Sound, CopiesSound, Says
  <2>4. ReadSound'
    BY <1>4, <1>5, <1>6, <2>2
  <2>5. QED
    BY <1>1, <2>3, <2>4 DEF Sound
<1>16. CASE UNCHANGED <<ram, file, tmp, sync>>
  BY <1>1, <1>3, <1>4, <1>16 DEF Sound
<1>17. QED
  BY <1>8, <1>9, <1>10, <1>11, <1>12, <1>13, <1>14, <1>15, <1>16
     DEF Next, Bump, Misreading, Syncing, Reading, Saving, Write, WriterStops, BumpReads,
     BumpRead, BumpMisreads, BumpWrite, Moves, Expire, Unpair, Pair, flash

LEMMA SoundStep == WellTyped /\ Sound /\ [Next]_vars => Sound'
<1> SUFFICES ASSUME WellTyped, Sound, [Next]_vars PROVE Sound'
  OBVIOUS
<1>1. CASE UNCHANGED vars
  BY <1>1, GrowingStep DEF vars, backend
<1>2. ASSUME NEW w \in Writers,
             Write(w) \/ WriterStops(w) \/ BumpRead(w) \/ BumpMisreads(w) PROVE Sound'
  <2>1. /\ UNCHANGED <<rev, top, reused, ram, flash, sync>>
        /\ recent' = recent \/ recent' = Remembered(recent, tables')
    BY <1>2 DEF Write, WriterStops, BumpReads, BumpRead, BumpMisreads
  <2>2. /\ recent.door \subseteq recent'.door /\ recent.people \subseteq recent'.people
        /\ recent.creds \subseteq recent'.creds
    BY <2>1 DEF Remembered
  <2>3. QED
    BY <2>1, <2>2, GrowingStep
<1>3. CASE Expire
  <2>1. /\ UNCHANGED <<rev, top, reused, ram, flash, sync>>
        /\ recent' = Remembered(recent, tables')
    BY <1>3 DEF Expire
  <2>2. /\ recent.door \subseteq recent'.door /\ recent.people \subseteq recent'.people
        /\ recent.creds \subseteq recent'.creds
    BY <2>1 DEF Remembered
  <2>3. QED
    BY <2>1, <2>2, GrowingStep
<1>4. ASSUME NEW w \in Writers, BumpWrite(w) PROVE Sound'
  BY <1>4, MovingStep
<1>5. ASSUME Next, UNCHANGED backend PROVE Sound'
  BY <1>5, DoorSound
<1>6. QED
  BY <1>1, <1>2, <1>3, <1>4, <1>5
     DEF Next, Bump, Misreading, Syncing, Reading, Saving, SyncAsk, SyncReadsRev,
     SyncReadRev, SyncMisreadRev, SyncReadDoor, SyncMisreadDoor, SyncReadPeople,
     SyncReadCreds, SyncNoRoster, SyncLost, SyncApply, SyncNoMemory, SaveWrite, SaveRemove,
     SaveRename, SaveFails, SaveRenameFails, Crash, Boot, Unpair, Pair, LocalEdit

(* A list held under the backend's revision is the backend's list, in RAM  *)
(* and in flash, whatever changes overlap, reads fail and power does: but  *)
(* for a list edited at the door, one the backend left blank, and a        *)
(* revision given by a bump that had not seen the highest.                 *)
THEOREM ListIsBackends == Spec => []Faithful
<1>1. Init => Sound
  BY Bounds DEF Init, NoCopy, Idle, Sound, RevSound, CopiesSound, ReadSound, Says, Now
<1>2. WellTyped /\ Sound => Faithful
  BY DEF Sound, CopiesSound, Says, Now, Faithful, Current
<1>3. QED
  BY <1>1, <1>2, InitTyped, WellTypedStep, SoundStep, PTL DEF Spec

-----------------------------------------------------------------------------
(* What a boot would find is the list last saved, or the one before, while *)
(* no swap is under way or was cut short; and while the old file is gone   *)
(* the new one is whole.                                                   *)
Leaves == saved # {} /\ ~gone /\ pc # "rename" => BootCopy \in saved
Replaces == pc \in {"remove", "rename"} => tmp \in saved

LEMMA LeavesStep ==
  WellTyped /\ Leaves /\ Replaces /\ [Next]_vars => Leaves' /\ Replaces'
<1> SUFFICES ASSUME WellTyped, Leaves, Replaces, [Next]_vars PROVE Leaves' /\ Replaces'
  OBVIOUS
<1> DoorTyped /\ (file' = file => BootCopy' = BootCopy)
  BY DEF WellTyped, BootCopy
<1>1. CASE UNCHANGED <<flash, pc, swaps>>
  BY <1>1 DEF flash, swaps, Leaves, Replaces
<1>2. CASE SaveWrite
  BY <1>2 DEF SaveWrite, Leaves, Replaces
<1>3. CASE SaveRemove
  BY <1>3 DEF SaveRemove, swaps, Leaves, Replaces
<1>4. CASE SaveRename
  <2>1. pc = "rename" /\ pc' = "on" /\ file' = tmp /\ saved' = {tmp}
    BY <1>4 DEF SaveRename, SaveEnds
  <2>2. file' # None => BootCopy' = file'
    BY DEF BootCopy
  <2>3. tmp # None
    <3>1. tmp \in Copies
      BY <2>1 DEF DoorTyped
    <3>2. Copies \subseteq [roster : SUBSET Creds, rev : Nat, mark : {"none", "local", "blank"}]
      BY Bounds DEF Copies, Marks
    <3>3. QED
      BY <3>1, <3>2, RosterAssumption
  <2>4. QED
    BY <2>1, <2>2, <2>3 DEF Leaves, Replaces
<1>5. CASE SaveRenameFails
  BY <1>5 DEF SaveRenameFails, SaveEnds, Leaves, Replaces
<1>6. CASE Crash
  BY <1>6 DEF Crash, flash, DoorTyped, Leaves, Replaces
<1>7. CASE SaveFails \/ SyncApply \/ LocalEdit \/ Boot
  BY <1>7 DEF SaveFails, SaveEnds, SyncApply, LocalEdit, Boot, flash, swaps, Leaves, Replaces
<1>8. QED
  BY <1>1, <1>2, <1>3, <1>4, <1>5, <1>6, <1>7
     DEF vars, Next, Bump, Misreading, Syncing, Reading, Saving, Write, WriterStops,
     BumpReads, BumpRead, BumpMisreads, BumpWrite, Moves, Expire, SyncAsk, SyncReadsRev,
     SyncReadRev, SyncMisreadRev, SyncReadDoor, SyncMisreadDoor, SyncReadPeople,
     SyncReadCreds, SyncNoRoster, SyncLost, SyncNoMemory, Unpair, Pair

(* A power cut leaves the old roster or the new one, unless the swap of    *)
(* the files was cut short.                                                *)
THEOREM CutLeavesOne == Spec => OldOrNew
<1>1. Init => Leaves /\ Replaces
  BY DEF Init, Leaves, Replaces
<1>2. Leaves /\ [Next]_vars => [Boot /\ saved # {} /\ ~gone => ram' \in saved]_vars
  BY DEF Leaves, Boot
<1>3. QED
  BY <1>1, <1>2, InitTyped, WellTypedStep, LeavesStep, PTL DEF OldOrNew, Spec

=============================================================================
