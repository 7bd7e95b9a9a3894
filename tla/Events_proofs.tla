---------------------------- MODULE Events_proofs ----------------------------
(***************************************************************************)
(* Proofs about EventLog, the door's spool of events, and EventTime, the   *)
(* time the backend files them under.                                      *)
(*                                                                         *)
(* EventLog. Sizes says what a cursor and a count may be at each write to  *)
(* flash; Sound, what is true of the records they point at; together, as   *)
(* Kept, they are inductive whatever fails. Of the counts, little holds    *)
(* once a fault has struck (Counted is about the time before one); what    *)
(* holds always is that all a cursor has passed is Gone: with the cloud,   *)
(* given up, or exposed. From Kept follow what a cursor may pass, that the *)
(* spool is the store EventSpool describes, and that what was recorded is  *)
(* kept.                                                                   *)
(*                                                                         *)
(* EventTime. BoundsAreHonest says what boundUnknowns computes, for        *)
(* batches of every length; ResolveIs and TimesAre, what resolveBatch and  *)
(* ingestEvents make of it. Truth is inductive: what the door recorded and *)
(* when it started, the start a call and the door's row give for a boot,   *)
(* and what is said of an event by each row.                               *)
(*                                                                         *)
(* The provers have no induction over data. LeastNatural takes its place:  *)
(* where something fails, it fails first somewhere.                        *)
(***************************************************************************)
EXTENDS EventLog, EventTime, FiniteSetTheorems, WellFoundedInduction, SequenceTheorems,
        TLAPS

-----------------------------------------------------------------------------
(* Every set of naturals that is not empty has a least one: what stands    *)
(* in for induction wherever the first of several is meant.                *)
LEMMA LeastNatural ==
  ASSUME NEW T, T \subseteq Nat, T # {}
  PROVE  \E n \in T : \A m \in T : n <= m
<1> DEFINE Less == {ss \in Nat \X Nat : ss[1] < ss[2]}
<1>1. Less = OpToRel(<, Nat)
  BY DEF OpToRel
<1>2. IsWellFoundedOn(Less, Nat)
  BY <1>1, NatLessThanWellFounded
<1>3. \A x, y \in Nat : <<y, x>> \in Less <=> y < x
  OBVIOUS
<1> HIDE DEF Less
<1>4. \E x \in T : \A y \in T : <<y, x>> \notin Less
  BY <1>2, WFMin
<1>5. PICK n \in T : \A y \in T : ~(y < n)
  BY <1>3, <1>4
<1>6. n \in Nat /\ \A m \in T : m \in Nat
  BY <1>5
<1>7. QED
  BY <1>5, <1>6

(* Counting up to the first that fails: how Valid and Ack choose.          *)
LEMMA FirstFailure ==
  ASSUME NEW Len0 \in Nat, NEW Good
  PROVE  \E n \in 0 .. Len0 : /\ \A i \in 1 .. n : i \in Good
                              /\ n < Len0 => n + 1 \notin Good
<1> DEFINE Bad == {n \in Nat : n < Len0 /\ n + 1 \notin Good}
<1>1. CASE Bad = {}
  <2>1. \A i \in 1 .. Len0 : i \in Good
    <3> SUFFICES ASSUME NEW i \in 1 .. Len0, i \notin Good PROVE FALSE
      OBVIOUS
    <3>1. i - 1 \in Bad
      OBVIOUS
    <3>2. QED
      BY <1>1, <3>1
  <2>2. QED
    BY <2>1
<1>2. CASE Bad # {}
  <2>1. PICK n \in Bad : \A m \in Bad : n <= m
    BY <1>2, LeastNatural
  <2>2. n \in 0 .. Len0 /\ n + 1 \notin Good
    OBVIOUS
  <2>3. ASSUME NEW i \in 1 .. n, i \notin Good PROVE FALSE
    <3>1. i - 1 \in Bad
      BY <2>2, <2>3
    <3>2. QED
      BY <2>1, <2>2, <3>1
  <2>4. QED
    BY <2>2, <2>3
<1>3. QED
  BY <1>1, <1>2

-----------------------------------------------------------------------------
(* Reading the file.                                                       *)

Cells == Records \cup {Torn}

Untorn(s) == \A i \in 1 .. Len(s) : s[i] # Torn

LEMMA EmptyIs ==
  ASSUME NEW S
  PROVE  /\ <<>> \in Seq(S) /\ Len(<<>>) = 0
         /\ ToSet(<<>>) = {}
         /\ \A s \in Seq(S) : s = <<>> <=> Len(s) = 0
<1>1. <<>> \in Seq(S) /\ Len(<<>>) = 0
  OBVIOUS
<1>2. ToSet(<<>>) = {}
  BY DEF ToSet
<1>3. \A s \in Seq(S) : s = <<>> <=> Len(s) = 0
  OBVIOUS
<1>4. QED
  BY <1>1, <1>2, <1>3

LEMMA DropIs ==
  ASSUME NEW S, NEW s \in Seq(S), NEW a \in Nat
  PROVE  /\ Drop(s, a) \in Seq(S)
         /\ Len(Drop(s, a)) = IF a <= Len(s) THEN Len(s) - a ELSE 0
         /\ \A i \in 1 .. Len(Drop(s, a)) : Drop(s, a)[i] = s[a + i]
  BY DEF Drop

LEMMA PrefixIs ==
  ASSUME NEW S, NEW s \in Seq(S), NEW n \in 0 .. Len(s)
  PROVE  /\ SubSeq(s, 1, n) \in Seq(S)
         /\ Len(SubSeq(s, 1, n)) = n
         /\ \A i \in 1 .. n : SubSeq(s, 1, n)[i] = s[i]
  OBVIOUS

(* Valid reads the longest run of whole records.                           *)
LEMMA ValidIs ==
  ASSUME NEW s \in Seq(Cells)
  PROVE  /\ Valid(s) \in Seq(Records)
         /\ Len(Valid(s)) <= Len(s)
         /\ \A i \in 1 .. Len(Valid(s)) : Valid(s)[i] = s[i] /\ s[i] # Torn
         /\ Len(Valid(s)) < Len(s) => s[Len(Valid(s)) + 1] = Torn
<1> DEFINE P(n) == /\ \A i \in 1 .. n : s[i] # Torn
                   /\ n < Len(s) => s[n + 1] = Torn
<1> DEFINE k == CHOOSE n \in 0 .. Len(s) : P(n)
<1> DEFINE Good == {i \in 1 .. Len(s) : s[i] # Torn}
<1>1. \E n \in 0 .. Len(s) : P(n)
  <2>1. PICK n \in 0 .. Len(s) : /\ \A i \in 1 .. n : i \in Good
                                 /\ n < Len(s) => n + 1 \notin Good
    <3>1. Len(s) \in Nat
      OBVIOUS
    <3> HIDE DEF Good
    <3>2. QED
      BY <3>1, FirstFailure, Zenon
  <2>2. P(n)
    BY <2>1
  <2>3. QED
    BY <2>2
<1>2. k \in 0 .. Len(s) /\ P(k)
  <2> HIDE DEF P
  <2>1. QED
    BY <1>1
<1>3. Valid(s) = SubSeq(s, 1, k)
  BY DEF Valid
<1> HIDE DEF k
<1>4. /\ Len(Valid(s)) = k
      /\ \A i \in 1 .. k : Valid(s)[i] = s[i]
  BY <1>2, <1>3, PrefixIs
<1>5. Valid(s) \in Seq(Records)
  <2>1. \A i \in 1 .. k : s[i] \in Records
    BY <1>2 DEF Cells
  <2>2. QED
    BY <1>2, <1>3, <2>1
<1>6. QED
  BY <1>2, <1>4, <1>5

(* Nothing else is the longest run of whole records.                       *)
LEMMA ValidOnly ==
  ASSUME NEW s \in Seq(Cells), NEW n \in 0 .. Len(s),
         \A i \in 1 .. n : s[i] # Torn, n < Len(s) => s[n + 1] = Torn
  PROVE  Len(Valid(s)) = n /\ Valid(s) = SubSeq(s, 1, n)
<1>1. Len(Valid(s)) = n
  BY ValidIs
<1>2. QED
  BY <1>1, ValidIs, PrefixIs DEF Cells

LEMMA ValidWhole == ASSUME NEW s \in Seq(Cells), Untorn(s) PROVE Valid(s) = s
<1>1. Len(Valid(s)) = Len(s)
  BY ValidOnly DEF Untorn
<1>2. QED
  BY <1>1, ValidIs DEF Cells

LEMMA RecordsWhole ==
  ASSUME NEW s \in Seq(Records) PROVE s \in Seq(Cells) /\ Untorn(s) /\ Valid(s) = s
<1>1. s \in Seq(Cells) /\ Untorn(s)
  BY TornAssumption DEF Cells, Untorn
<1>2. QED
  BY <1>1, ValidWhole

(* A record added to whole records is read; anything added after a half is *)
(* not, and neither is a half.                                             *)
LEMMA ValidAppend ==
  ASSUME NEW s \in Seq(Cells), NEW x \in Cells
  PROVE  Valid(Append(s, x)) = IF Untorn(s) /\ x # Torn THEN Append(s, x) ELSE Valid(s)
<1> DEFINE t == Append(s, x)
<1>0. /\ t \in Seq(Cells) /\ Len(t) = Len(s) + 1 /\ t[Len(s) + 1] = x
      /\ \A i \in 1 .. Len(s) : t[i] = s[i]
  OBVIOUS
<1> HIDE DEF t
<1>1. CASE Untorn(s) /\ x # Torn
  <2>1. Untorn(t)
    BY <1>0, <1>1 DEF Untorn
  <2>2. QED
    BY <1>0, <1>1, <2>1, ValidWhole DEF t
<1>2. CASE ~(Untorn(s) /\ x # Torn)
  <2>1. Len(Valid(s)) < Len(s) \/ x = Torn
    <3>1. Len(Valid(s)) = Len(s) => Untorn(s)
      BY ValidIs DEF Untorn
    <3>2. QED
      BY <1>2, <3>1, ValidIs
  <2>2. /\ Len(Valid(s)) \in 0 .. Len(t)
        /\ \A i \in 1 .. Len(Valid(s)) : t[i] # Torn /\ t[i] = Valid(s)[i]
        /\ t[Len(Valid(s)) + 1] = Torn
    <3> DEFINE v == Valid(s)
    <3>1. /\ Len(v) \in 0 .. Len(s)
          /\ \A i \in 1 .. Len(v) : s[i] # Torn /\ v[i] = s[i]
          /\ Len(v) < Len(s) => s[Len(v) + 1] = Torn
      BY ValidIs
    <3> HIDE DEF v
    <3>2. Len(v) \in 0 .. Len(t) /\ \A i \in 1 .. Len(v) : t[i] # Torn /\ t[i] = v[i]
      BY <1>0, <3>1
    <3>3. t[Len(v) + 1] = Torn
      BY <1>0, <2>1, <3>1 DEF v
    <3>4. QED
      BY <3>2, <3>3 DEF v
  <2>3. Len(Valid(t)) = Len(Valid(s))
    BY <1>0, <2>2, ValidOnly
  <2>4. Valid(t) = Valid(s)
    BY <1>0, <2>2, <2>3, ValidIs
  <2>5. QED
    BY <1>2, <2>4 DEF t
<1>3. QED
  BY <1>1, <1>2

-----------------------------------------------------------------------------
(* Types.                                                                  *)

DiskTyped ==
  /\ file \in Seq(Cells) /\ tmp \in Seq(Cells)
  /\ nvsAcked \in Nat /\ nvsBoot \in 0 .. MaxBoots

FlagsTyped == exists \in BOOLEAN /\ overflow \in BOOLEAN /\ faulted \in BOOLEAN

RamTyped ==
  /\ total \in Nat /\ acked \in 0 .. total /\ kept \in Nat
  /\ boot \in 0 .. MaxBoots /\ nextIdx \in 0 .. MaxIdx

RestTyped ==
  /\ pc \in Pcs /\ sync \in {"idle", "sent", "confirmed"}
  /\ batch \in Seq(Records)
  /\ cloud \subseteq Records /\ recorded \subseteq Records /\ dropped \subseteq Records

LEMMA TypeParts ==
  TypeOK <=> DiskTyped /\ FlagsTyped /\ RamTyped /\ RestTyped /\ exposed \subseteq Records
  BY DEF TypeOK, DiskTyped, FlagsTyped, RamTyped, RestTyped, Cells

\* Between operations, confirming and compacting.
Running == {"on", "compact", "compactRemove"}

(* What the counts in RAM say of the files: never fewer records than can   *)
(* be read.  So a confirmation never moves the cursor past the total.      *)
Sized ==
  /\ pc \notin {"off", "scan"} => Len(Valid(file)) <= total
  /\ pc \in {"trimRemove", "trimRename"} => Len(tmp) <= total
  /\ pc \in {"compactRemove", "compactRename"} => Len(tmp) <= kept

Booted == pc # "off" => boot = nvsBoot /\ boot >= 1

Sizes == DiskTyped /\ RamTyped /\ RestTyped /\ Sized /\ Booted

LEMMA InitiallyTyped == Init => FlagsTyped /\ Sizes /\ exposed \subseteq Records
<1> SUFFICES ASSUME Init PROVE FlagsTyped /\ Sizes /\ exposed \subseteq Records
  OBVIOUS
<1>1. DiskTyped /\ FlagsTyped /\ RamTyped /\ RestTyped
  <2>1. FlagsTyped
    BY Zenon DEF Init, FlagsTyped
  <2>2. /\ file = <<>> /\ tmp = <<>> /\ nvsAcked = 0 /\ nvsBoot = 0 /\ pc = "off"
        /\ total = 0 /\ acked = 0 /\ boot = 0 /\ nextIdx = 0 /\ kept = 0
        /\ sync = "idle" /\ batch = <<>> /\ cloud = {} /\ recorded = {} /\ dropped = {}
    BY DEF Init
  <2>3. QED
    BY <2>1, <2>2, SpoolAssumption DEF DiskTyped, RamTyped, RestTyped, Pcs
<1>2. QED
  BY <1>1 DEF Init, Sizes, Sized, Booted, Running

LEMMA UnackedIs ==
  ASSUME DiskTyped, acked \in Nat
  PROVE  /\ Unacked \in Seq(Records)
         /\ Len(Unacked) = IF acked <= Len(Valid(file)) THEN Len(Valid(file)) - acked ELSE 0
         /\ \A i \in 1 .. Len(Unacked) : Unacked[i] = Valid(file)[acked + i]
<1>1. Valid(file) \in Seq(Records)
  BY ValidIs DEF DiskTyped
<1>2. QED
  BY <1>1, DropIs DEF Unacked

\* What a full filesystem leaves of a copy, and what it costs.
LEMMA CopyIs ==
  ASSUME DiskTyped, NEW s \in Seq(Records), Copy(s)
  PROVE  /\ tmp' \in Seq(Records) /\ Len(tmp') <= Len(s)
         /\ tmp' = SubSeq(s, 1, Len(tmp'))
         /\ \/ tmp' = s /\ UNCHANGED damage
            \/ Exposing(ToSet(Drop(s, Len(tmp'))))
<1>1. FreeRecords \in Nat /\ Len(s) \in Nat
  BY SpoolAssumption DEF DiskTyped, FreeRecords
<1> DEFINE n == Min2(Len(s), FreeRecords)
<1>2. n \in 0 .. Len(s) /\ (n = Len(s) \/ n = FreeRecords)
  BY <1>1 DEF Min2
<1>3. tmp' = SubSeq(s, 1, n)
  BY DEF Copy
<1>4. CASE Len(s) <= FreeRecords
  <2>1. n = Len(s)
    BY <1>1, <1>4 DEF Min2
  <2>2. tmp' = s
    BY <1>3, <2>1
  <2>3. UNCHANGED damage
    BY <1>4, Zenon DEF Copy
  <2>4. QED
    BY <1>1, <2>2, <2>3
<1>5. CASE ~(Len(s) <= FreeRecords)
  <2>1. n = FreeRecords
    BY <1>1, <1>5 DEF Min2
  <2>2. Exposing(ToSet(Drop(s, FreeRecords)))
    BY <1>5, Zenon DEF Copy
  <2> HIDE DEF n
  <2>3. tmp' \in Seq(Records) /\ Len(tmp') = n
    BY <1>2, <1>3, PrefixIs
  <2>4. QED
    BY <1>1, <1>2, <1>3, <2>1, <2>2, <2>3
<1>6. QED
  BY <1>4, <1>5

LEMMA StampTyped == ASSUME Sizes, CanAppend PROVE Stamp \in Records
  BY SpoolAssumption
     DEF Sizes, CanAppend, DiskTyped, RamTyped, Booted, Stamp, Records

LEMMA MakeRoomTyped ==
  ASSUME Sizes, MakeRoom
  PROVE  acked' \in 0 .. total /\ dropped' \subseteq Records
<1>1. CASE total - acked >= MaxPending
  <2>1. acked' \in 0 .. total
    BY <1>1, SpoolAssumption DEF MakeRoom, Sizes, RamTyped
  <2>2. ToSet(SubSeq(Unacked, 1, Min2(1, Len(Unacked)))) \subseteq Records
    <3>1. Unacked \in Seq(Records) /\ Min2(1, Len(Unacked)) \in 0 .. Len(Unacked)
      BY UnackedIs DEF Sizes, RamTyped, Min2
    <3>2. SubSeq(Unacked, 1, Min2(1, Len(Unacked))) \in Seq(Records)
      BY <3>1, PrefixIs
    <3>3. QED
      BY <3>2 DEF ToSet
  <2>3. QED
    BY <1>1, <2>1, <2>2 DEF MakeRoom, Sizes, RestTyped
<1>2. CASE ~(total - acked >= MaxPending)
  BY <1>2 DEF MakeRoom, Sizes, RamTyped, RestTyped
<1>3. QED
  BY <1>1, <1>2

(* How many of the unconfirmed records a confirmation retires.             *)
Retired(last) ==
  CHOOSE k \in 0 .. Len(Unacked) :
    /\ \A i \in 1 .. k : Covered(Unacked[i], last)
    /\ k < Len(Unacked) => ~Covered(Unacked[k + 1], last)

LEMMA RetiredIs ==
  ASSUME DiskTyped, acked \in Nat, NEW last
  PROVE  /\ Retired(last) \in 0 .. Len(Unacked)
         /\ \A i \in 1 .. Retired(last) : Covered(Unacked[i], last)
<1> DEFINE Good == {i \in 1 .. Len(Unacked) : Covered(Unacked[i], last)}
<1>1. Len(Unacked) \in Nat
  BY UnackedIs
<1>2. PICK n \in 0 .. Len(Unacked) : /\ \A i \in 1 .. n : i \in Good
                                     /\ n < Len(Unacked) => n + 1 \notin Good
  <2> HIDE DEF Good
  <2>1. QED
    BY <1>1, FirstFailure, Zenon
<1>3. /\ \A i \in 1 .. n : Covered(Unacked[i], last)
      /\ n < Len(Unacked) => ~Covered(Unacked[n + 1], last)
  BY <1>1, <1>2
<1>4. QED
  BY <1>3 DEF Retired

LEMMA AckIs ==
  ASSUME Ack
  PROVE  /\ pc = "on" /\ sync = "confirmed" /\ sync' = "idle" /\ batch' = <<>>
         /\ acked' = acked + Retired(Last(batch)) /\ nvsAcked' = acked'
         /\ pc' = IF acked' >= CompactAt THEN "compact" ELSE "on"
         /\ UNCHANGED <<file, exists, tmp, nvsBoot, total, boot, nextIdx, kept, overflow,
                        cloud, history>>
  BY DEF Ack, Retired

\* What a step does to the two flags.
LEMMA FlagsStep == FlagsTyped /\ [Next]_vars => FlagsTyped'
<1> SUFFICES ASSUME FlagsTyped, [Next]_vars PROVE FlagsTyped'
  OBVIOUS
<1>1. CASE Starting
  BY <1>1, Zenon DEF Starting, Trimming, BeginBoot, Scan, TrimRemove, TrimRename,
     TrimRenameFails, ReadCursor, Unlink, Copy, Exposing, FlagsTyped, ram, disk, history, damage
<1>2. CASE Compacting
  BY <1>2, Zenon DEF Compacting, Replacing, CompactCopy, CompactSkip, CompactRemove, CompactRename,
     CompactRenameFails, CompactCursor, Unlink, Copy, Exposing, FlagsTyped, ram, disk, history,
     damage
<1>3. CASE AppendRecord \/ AppendTorn
  BY <1>3, Zenon DEF AppendRecord, AppendTorn, MakeRoom, FlagsTyped, ram
<1>4. CASE Uploading \/ Confirmed \/ UploadFails \/ Crash \/ UNCHANGED vars
  BY <1>4, Zenon DEF Uploading, Peek, Ack, Confirmed, UploadFails, Crash, Exposing, vars,
     FlagsTyped, ram, disk, history, damage
<1>5. QED
  BY <1>1, <1>2, <1>3, <1>4 DEF Next

LEMMA StartingTyped == Sizes /\ Starting => Sizes'
<1> SUFFICES ASSUME Sizes, Starting PROVE Sizes'
  OBVIOUS
<1> DiskTyped /\ RamTyped /\ RestTyped /\ Sized /\ Booted
  BY DEF Sizes
<1>1. Valid(file) \in Seq(Records) /\ Len(Valid(file)) \in Nat
  BY ValidIs DEF DiskTyped
<1>2. Valid(file) \in Seq(Cells)
  BY <1>1 DEF Cells
<1>3. CASE BeginBoot
  BY <1>3, SpoolAssumption DEF BeginBoot, Sizes, DiskTyped, RamTyped, RestTyped, Sized, Booted,
     upload, history, Pcs, Running
<1>4. CASE Scan
  <2>1. /\ pc = "scan" /\ total' = Len(Valid(file)) /\ acked' = 0
        /\ pc' \in {"on", "trimRemove", "cursor"}
        /\ (tmp' = tmp /\ pc' # "trimRemove") \/ Copy(Valid(file))
        /\ UNCHANGED <<file, nvsAcked, nvsBoot, boot, nextIdx, kept, sync, batch, cloud,
                       recorded, dropped>>
    BY <1>4 DEF Scan, upload
  <2>2. tmp' \in Seq(Cells) /\ (pc' = "trimRemove" => Len(tmp') <= Len(Valid(file)))
    <3>1. CASE Copy(Valid(file))
      BY <1>1, <3>1, CopyIs DEF Cells
    <3>2. QED
      BY <2>1, <3>1 DEF DiskTyped
  <2>3. QED
    BY <1>1, <2>1, <2>2 DEF Sizes, DiskTyped, RamTyped, RestTyped, Sized, Booted, Pcs, Running
<1>5. CASE TrimRemove
  <2>1. /\ pc = "trimRemove" /\ pc' = "trimRename" /\ file' = <<>>
        /\ UNCHANGED <<tmp, nvsAcked, nvsBoot, total, acked, boot, nextIdx, kept, sync, batch,
                       cloud, recorded, dropped>>
    BY <1>5 DEF TrimRemove, Unlink, ram, upload, history
  <2>2. Len(Valid(file')) = 0
    <3>1. <<>> \in Seq(Records) /\ Len(<<>>) = 0
      OBVIOUS
    <3>2. Valid(<<>>) = <<>>
      BY <3>1, RecordsWhole
    <3>3. QED
      BY <2>1, <3>1, <3>2
  <2>3. QED
    BY <1>1, <1>5, <2>1, <2>2, EmptyIs DEF Sizes, DiskTyped, RamTyped, RestTyped, Sized, Booted, Pcs
<1>6. CASE TrimRename
  <2>1. Len(Valid(tmp)) <= Len(tmp) /\ Len(Valid(tmp)) \in Nat
    BY ValidIs DEF DiskTyped
  <2>2. QED
    BY <1>6, <2>1 DEF TrimRename, Sizes, DiskTyped, RamTyped, RestTyped, Sized, Booted,
       ram, upload, history, Pcs, Running
<1>7. CASE TrimRenameFails
  <2>1. /\ pc' = "cursor"
        /\ UNCHANGED <<file, tmp, nvsAcked, nvsBoot, total, acked, boot, nextIdx, kept, sync, batch,
                       cloud, recorded, dropped>>
    BY <1>7 DEF TrimRenameFails, disk, ram, upload
  <2>2. pc = "trimRename"
    BY <1>7 DEF TrimRenameFails
  <2>3. Len(Valid(file)) <= total
    BY <2>2 DEF Sized
  <2>4. QED
    BY <1>1, <2>1, <2>2, <2>3 DEF Sizes, DiskTyped, RamTyped, RestTyped, Sized, Booted, Pcs, Running
<1>8. CASE ReadCursor
  BY <1>1, <1>8 DEF ReadCursor, Sizes, DiskTyped, RamTyped, RestTyped, Sized, Booted,
     disk, upload, history, Pcs, Running, Min2
<1>9. QED
  BY <1>3, <1>4, <1>5, <1>6, <1>7, <1>8 DEF Starting, Trimming

LEMMA RecordingTyped == Sizes /\ (AppendRecord \/ AppendTorn) => Sizes'
<1> SUFFICES ASSUME Sizes, AppendRecord \/ AppendTorn PROVE Sizes'
  OBVIOUS
<1> DiskTyped /\ RamTyped /\ RestTyped /\ Sized /\ Booted
  BY DEF Sizes
<1>1. Len(Valid(file)) \in Nat /\ CanAppend
  BY ValidIs DEF DiskTyped, AppendRecord, AppendTorn
<1>2. \A x \in Cells : Append(file, x) \in Seq(Cells)
  BY DEF DiskTyped
<1>3. CASE AppendRecord
  <2>1. acked' \in 0 .. total /\ dropped' \subseteq Records
    BY <1>3, MakeRoomTyped DEF AppendRecord
  <2>2. Stamp \in Records /\ Stamp \in Cells
    BY <1>1, StampTyped DEF Cells
  <2>3. Len(Valid(Append(file, Stamp))) <= Len(Valid(file)) + 1
    <3>1. Untorn(file) => Valid(file) = file
      BY ValidWhole DEF DiskTyped
    <3>2. Len(Append(file, Stamp)) = Len(file) + 1
      BY <2>2 DEF DiskTyped
    <3>3. QED
      BY <1>1, <2>2, <3>1, <3>2, ValidAppend DEF DiskTyped
  <2>4. /\ pc = "on" /\ nextIdx' = nextIdx + 1 /\ nextIdx < MaxIdx
        /\ \/ /\ file' = Append(file, Stamp) /\ total' = total + 1
              /\ recorded' = recorded \cup {Stamp}
           \/ UNCHANGED <<file, total, recorded>>
        /\ UNCHANGED <<tmp, nvsAcked, nvsBoot, pc, boot, kept, sync, batch, cloud>>
    BY <1>3 DEF AppendRecord, CanAppend, upload
  <2>5. file' \in Seq(Cells) /\ Len(Valid(file)') <= total' /\ total' \in Nat /\ total <= total'
    <3>1. CASE file' = Append(file, Stamp) /\ total' = total + 1
      <4>1. Append(file, Stamp) \in Seq(Cells) /\ Len(Valid(Append(file, Stamp))) \in Nat
        BY <1>2, <2>2, ValidIs
      <4>2. Len(Valid(file)) <= total /\ total \in Nat
        BY <2>4 DEF Sized, Running, RamTyped
      <4>3. QED
        BY <1>1, <2>3, <3>1, <4>1, <4>2
    <3>2. CASE UNCHANGED <<file, total, recorded>>
      BY <2>4, <3>2 DEF DiskTyped, RamTyped, Sized, Running
    <3>3. QED
      BY <2>4, <3>1, <3>2
  <2>6. DiskTyped' /\ RestTyped'
    BY <2>1, <2>2, <2>4, <2>5 DEF DiskTyped, RestTyped
  <2>7. RamTyped' /\ Sized' /\ Booted'
    BY <2>1, <2>4, <2>5, SpoolAssumption DEF RamTyped, Sized, Booted, Running
  <2>8. QED
    BY <2>6, <2>7 DEF Sizes
<1>4. CASE AppendTorn
  <2>1. /\ file' = Append(file, Torn) /\ pc' = "off" /\ sync' = "idle" /\ batch' = <<>>
        /\ UNCHANGED <<tmp, nvsAcked, nvsBoot, total, acked, boot, nextIdx, kept, cloud,
                       recorded, dropped>>
    BY <1>4 DEF AppendTorn, ram
  <2>2. file' \in Seq(Cells)
    BY <1>2, <2>1 DEF Cells
  <2>3. QED
    BY <2>1, <2>2 DEF Sizes, DiskTyped, RamTyped, RestTyped, Sized, Booted, Pcs, Running
<1>5. QED
  BY <1>3, <1>4

LEMMA UploadingTyped == Sizes /\ (Uploading \/ Confirmed \/ UploadFails) => Sizes'
<1> SUFFICES ASSUME Sizes, Uploading \/ Confirmed \/ UploadFails PROVE Sizes'
  OBVIOUS
<1> DiskTyped /\ RamTyped /\ RestTyped /\ Sized /\ Booted
  BY DEF Sizes
<1>1. /\ Len(Valid(file)) \in Nat /\ Unacked \in Seq(Records) /\ Len(Unacked) \in Nat
      /\ Len(Unacked) = IF acked <= Len(Valid(file)) THEN Len(Valid(file)) - acked ELSE 0
  BY ValidIs, UnackedIs DEF DiskTyped, RamTyped
<1>2. CASE Peek
  <2>1. batch' \in Seq(Records)
    <3>1. Min2(BatchMax, Len(Unacked)) \in 0 .. Len(Unacked)
      BY <1>1, SpoolAssumption DEF Min2
    <3>2. SubSeq(Unacked, 1, Min2(BatchMax, Len(Unacked))) \in Seq(Records)
      BY <1>1, <3>1, PrefixIs
    <3>3. QED
      BY <1>2, <3>2 DEF Peek
  <2>2. sync' = "sent" /\ UNCHANGED <<disk, ram, pc, cloud, history>>
    BY <1>2 DEF Peek
  <2>3. QED
    BY <2>1, <2>2 DEF disk, ram, history, Sizes, DiskTyped, RamTyped, RestTyped, Sized, Booted
<1>3. CASE Confirmed
  <2>1. ToSet(batch) \subseteq Records
    BY DEF RestTyped, ToSet
  <2>2. QED
    BY <1>3, <2>1 DEF Confirmed, disk, ram, history, Sizes, DiskTyped, RamTyped, RestTyped,
       Sized, Booted
<1>4. CASE UploadFails
  <2>1. ToSet(batch) \subseteq Records
    BY DEF RestTyped, ToSet
  <2>2. cloud' \subseteq Records
    BY <1>4, <2>1 DEF UploadFails, RestTyped
  <2>3. sync' = "idle" /\ batch' = <<>> /\ UNCHANGED <<disk, ram, pc, history>>
    BY <1>4 DEF UploadFails
  <2>4. QED
    BY <2>2, <2>3 DEF disk, ram, history, Sizes, DiskTyped, RamTyped, RestTyped, Sized, Booted
<1>5. CASE Ack
  <2>1. /\ pc = "on" /\ sync' = "idle" /\ batch' = <<>>
        /\ acked' = acked + Retired(Last(batch)) /\ nvsAcked' = acked'
        /\ pc' \in {"on", "compact"}
        /\ UNCHANGED <<file, tmp, nvsBoot, total, boot, nextIdx, kept, cloud, recorded, dropped>>
    BY <1>5, AckIs DEF history
  <2>2. Retired(Last(batch)) \in 0 .. Len(Unacked)
    BY RetiredIs DEF RamTyped
  <2>3. acked' \in 0 .. total
    BY <1>1, <2>1, <2>2 DEF RamTyped, Sized, Running
  <2>4. QED
    BY <2>1, <2>3 DEF Sizes, DiskTyped, RamTyped, RestTyped, Sized, Booted, Running, Pcs
<1>6. QED
  BY <1>2, <1>3, <1>4, <1>5 DEF Uploading

LEMMA CompactingTyped == Sizes /\ Compacting => Sizes'
<1> SUFFICES ASSUME Sizes, Compacting PROVE Sizes'
  OBVIOUS
<1> DiskTyped /\ RamTyped /\ RestTyped /\ Sized /\ Booted
  BY DEF Sizes
<1>1. /\ Len(Valid(file)) \in Nat /\ Unacked \in Seq(Records) /\ Len(Unacked) \in Nat
  BY ValidIs, UnackedIs DEF DiskTyped, RamTyped
<1>2. CASE CompactCopy
  <2>1. tmp' \in Seq(Cells) /\ Len(tmp') <= Len(Unacked)
    <3>1. tmp' \in Seq(Records) /\ Len(tmp') <= Len(Unacked)
      BY <1>1, <1>2, CopyIs DEF CompactCopy
    <3>2. QED
      BY <3>1 DEF Cells
  <2>2. /\ pc = "compact" /\ pc' = "compactRemove" /\ kept' = Len(Unacked)
        /\ UNCHANGED <<file, nvsAcked, nvsBoot, total, acked, boot, nextIdx, sync, batch,
                       cloud, recorded, dropped>>
    BY <1>2 DEF CompactCopy, upload
  <2>3. QED
    BY <1>1, <2>1, <2>2 DEF Sizes, DiskTyped, RamTyped, RestTyped, Sized, Booted, Running, Pcs
<1>3. CASE CompactSkip
  BY <1>3 DEF CompactSkip, disk, ram, upload, history, Sizes, DiskTyped, RamTyped, RestTyped,
     Sized, Booted, Running, Pcs
<1>4. CASE CompactRemove
  <2>1. /\ pc = "compactRemove" /\ pc' = "compactRename" /\ file' = <<>>
        /\ UNCHANGED <<tmp, nvsAcked, nvsBoot, total, acked, boot, nextIdx, kept, sync, batch,
                       cloud, recorded, dropped>>
    BY <1>4 DEF CompactRemove, Unlink, ram, upload, history
  <2>2. Len(Valid(file')) = 0
    <3>1. <<>> \in Seq(Records) /\ Len(<<>>) = 0
      OBVIOUS
    <3>2. Valid(<<>>) = <<>>
      BY <3>1, RecordsWhole
    <3>3. QED
      BY <2>1, <3>1, <3>2
  <2>3. QED
    BY <2>1, <2>2, EmptyIs DEF Sizes, DiskTyped, RamTyped, RestTyped, Sized, Booted, Pcs
<1>5. CASE CompactRename
  <2>1. Len(Valid(tmp)) <= Len(tmp) /\ Len(Valid(tmp)) \in Nat
    BY ValidIs DEF DiskTyped
  <2>2. QED
    BY <1>5, <2>1 DEF CompactRename, Sizes, DiskTyped, RamTyped, RestTyped, Sized, Booted,
       upload, history, Pcs, Running
<1>6. CASE CompactCursor
  BY <1>6 DEF CompactCursor, ram, upload, history, Sizes, DiskTyped, RamTyped, RestTyped,
     Sized, Booted, Running, Pcs
<1>7. CASE CompactRenameFails
  <2>1. /\ pc = "compactRename" /\ pc' = "on"
        /\ UNCHANGED <<file, tmp, nvsAcked, nvsBoot, total, acked, boot, nextIdx, kept, sync, batch,
                       cloud, recorded, dropped>>
    BY <1>7 DEF CompactRenameFails, disk, ram, upload
  <2>2. QED
    BY <2>1 DEF Sizes, DiskTyped, RamTyped, RestTyped, Sized, Booted, Pcs
<1>8. QED
  BY <1>2, <1>3, <1>4, <1>5, <1>6, <1>7 DEF Compacting, Replacing

LEMMA SizesStep == Sizes /\ [Next]_vars => Sizes'
<1> SUFFICES ASSUME Sizes, [Next]_vars PROVE Sizes'
  OBVIOUS
<1>1. CASE Crash
  <2>1. /\ pc' = "off" /\ sync' = "idle" /\ batch' = <<>>
        /\ UNCHANGED <<disk, ram, cloud, recorded, dropped>>
    BY <1>1 DEF Crash
  <2>2. QED
    BY <2>1 DEF disk, ram, Sizes, DiskTyped, RamTyped, RestTyped, Sized, Booted, Pcs
<1>2. CASE UNCHANGED vars
  BY <1>2 DEF vars, disk, ram, upload, history, Sizes, DiskTyped, RamTyped, RestTyped,
     Sized, Booted
<1>3. QED
  BY <1>1, <1>2, StartingTyped, RecordingTyped, UploadingTyped, CompactingTyped
     DEF Next, Uploading

(* What is waiting, wherever it would be read from, is read from a file.   *)
LEMMA WaitingRead ==
  ASSUME DiskTyped, acked \in Nat
  PROVE  ToSet(Waiting) \cup ToSet(Restarted) \subseteq ToSet(Valid(file)) \cup ToSet(Valid(tmp))
<1>1. Valid(file) \in Seq(Records) /\ Valid(tmp) \in Seq(Records)
  BY ValidIs DEF DiskTyped
<1>2. ASSUME NEW s \in Seq(Records), NEW n \in Nat PROVE ToSet(Drop(s, n)) \subseteq ToSet(s)
  <2>1. /\ Drop(s, n) \in Seq(Records)
        /\ \A i \in 1 .. Len(Drop(s, n)) : n + i \in 1 .. Len(s) /\ Drop(s, n)[i] = s[n + i]
    BY DropIs
  <2>2. QED
    BY <2>1 DEF ToSet
<1>3. Min2(nvsAcked, Len(Valid(file))) \in Nat /\ Min2(nvsAcked, Len(Valid(tmp))) \in Nat
  BY <1>1 DEF Min2, DiskTyped
<1>4. /\ ToSet(Unacked) \subseteq ToSet(Valid(file))
      /\ ToSet(AfterCursor(file)) \subseteq ToSet(Valid(file))
      /\ ToSet(AfterCursor(tmp)) \subseteq ToSet(Valid(tmp))
      /\ ToSet(<<>>) = {}
  BY <1>1, <1>2, <1>3, EmptyIs DEF Unacked, AfterCursor
<1>5. ToSet(Restarted) \subseteq ToSet(Valid(file))
  BY <1>4 DEF Restarted
<1>6. QED
  BY <1>4, <1>5 DEF Waiting

(* Only what is in a file, or is being written to one, becomes exposed.    *)
LEMMA ExposedStep ==
  ASSUME Sizes, [Next]_vars
  PROVE  exposed' \subseteq exposed \cup ToSet(Valid(file)) \cup ToSet(Valid(tmp))
                             \cup (IF AppendRecord THEN {Stamp} ELSE {})
<1> DEFINE Goal == exposed' \subseteq exposed \cup ToSet(Valid(file)) \cup ToSet(Valid(tmp))
                                     \cup (IF AppendRecord THEN {Stamp} ELSE {})
<1> SUFFICES Goal
  OBVIOUS
<1> DiskTyped /\ acked \in Nat
  BY DEF Sizes, RamTyped
<1>1. ToSet(Waiting) \subseteq ToSet(Valid(file)) \cup ToSet(Valid(tmp))
  BY WaitingRead
<1>2. CASE UNCHANGED exposed
  BY <1>2
<1>3. ASSUME NEW s \in Seq(Records), Copy(s), ToSet(s) \subseteq ToSet(Valid(file)) PROVE Goal
  <2>1. CASE UNCHANGED damage
    BY <2>1 DEF damage
  <2>2. CASE Exposing(ToSet(Drop(s, Len(tmp'))))
    <3>1. Len(tmp') \in Nat
      BY <1>3, CopyIs
    <3>2. /\ Drop(s, Len(tmp')) \in Seq(Records)
          /\ \A i \in 1 .. Len(Drop(s, Len(tmp'))) :
               Len(tmp') + i \in 1 .. Len(s) /\ Drop(s, Len(tmp'))[i] = s[Len(tmp') + i]
      BY <3>1, DropIs
    <3>3. ToSet(Drop(s, Len(tmp'))) \subseteq ToSet(s)
      BY <3>2 DEF ToSet
    <3>4. QED
      BY <1>3, <2>2, <3>3 DEF Exposing
  <2>3. QED
    BY <1>3, <2>1, <2>2, CopyIs
<1>4. Valid(file) \in Seq(Records) /\ Unacked \in Seq(Records)
      /\ ToSet(Unacked) \subseteq ToSet(Valid(file))
  <2>1. Valid(file) \in Seq(Records) /\ Unacked \in Seq(Records)
    BY ValidIs, UnackedIs DEF DiskTyped
  <2>2. \A i \in 1 .. Len(Unacked) :
          acked + i \in 1 .. Len(Valid(file)) /\ Unacked[i] = Valid(file)[acked + i]
    BY <2>1, UnackedIs
  <2>3. QED
    BY <2>1, <2>2 DEF ToSet
<1>5. CASE Scan
  <2>1. Copy(Valid(file)) \/ UNCHANGED damage
    BY <1>5 DEF Scan
  <2>2. QED
    BY <1>2, <1>3, <1>4, <2>1 DEF damage
<1>6. CASE CompactCopy
  BY <1>3, <1>4, <1>6 DEF CompactCopy
<1>7. CASE TrimRenameFails \/ CompactRenameFails
  BY <1>1, <1>7 DEF TrimRenameFails, CompactRenameFails, Exposing
<1>8. CASE Crash
  <2>1. exposed' \subseteq exposed \cup ToSet(Waiting)
    BY <1>8 DEF Crash, Exposing, damage
  <2>2. QED
    BY <1>1, <2>1
<1>9. CASE AppendRecord
  <2>1. exposed' \subseteq exposed \cup {Stamp}
    BY <1>9 DEF AppendRecord
  <2>2. QED
    BY <1>9, <2>1
<1>10. CASE UNCHANGED history
  BY <1>2, <1>10 DEF history, damage
<1>11. CASE AppendTorn
  BY <1>2, <1>11 DEF AppendTorn
<1>12. CASE BeginBoot \/ TrimRemove \/ TrimRename \/ ReadCursor
  <2>1. UNCHANGED history
    BY <1>12 DEF BeginBoot, TrimRemove, TrimRename, ReadCursor, Unlink
  <2>2. QED
    BY <1>10, <2>1
<1>13. CASE CompactSkip \/ CompactRemove \/ CompactRename \/ CompactCursor
  <2>1. UNCHANGED history
    BY <1>13 DEF CompactSkip, CompactRemove, CompactRename, CompactCursor, Unlink
  <2>2. QED
    BY <1>10, <2>1
<1>14. CASE Uploading \/ Confirmed \/ UploadFails \/ UNCHANGED vars
  <2>1. UNCHANGED history
    BY <1>14 DEF Uploading, Peek, Ack, Confirmed, UploadFails, vars
  <2>2. QED
    BY <1>10, <2>1
<1> HIDE DEF Goal
<1>15. QED
  BY <1>5, <1>6, <1>7, <1>8, <1>9, <1>11, <1>12, <1>13, <1>14
     DEF Next, Starting, Trimming, Compacting, Replacing

LEMMA ExposedTyped ==
  Sizes /\ exposed \subseteq Records /\ [Next]_vars => (exposed \subseteq Records)'
<1> SUFFICES ASSUME Sizes, exposed \subseteq Records, [Next]_vars PROVE exposed' \subseteq Records
  OBVIOUS
<1>1. AppendRecord => Stamp \in Records
  BY StampTyped DEF AppendRecord
<1>2. ToSet(Valid(file)) \subseteq Records /\ ToSet(Valid(tmp)) \subseteq Records
  <2>1. Valid(file) \in Seq(Records) /\ Valid(tmp) \in Seq(Records)
    BY ValidIs DEF Sizes, DiskTyped
  <2>2. QED
    BY <2>1 DEF ToSet
<1>3. QED
  BY <1>1, <1>2, ExposedStep

(* Every variable keeps its type, wherever power fails and whatever it     *)
(* leaves in the file: in particular neither cursor nor count ever says    *)
(* more is confirmed than there is.                                        *)
THEOREM TypeCorrect == Spec => []TypeOK
<1>1. FlagsTyped /\ Sizes /\ exposed \subseteq Records => TypeOK
  BY TypeParts DEF Sizes
<1>2. QED
  BY <1>1, ExposedTyped, InitiallyTyped, FlagsStep, SizesStep, PTL DEF Spec

-----------------------------------------------------------------------------
(* What the spool's promises rest on.                                      *)

Before(r, s) == r.boot < s.boot \/ (r.boot = s.boot /\ r.idx < s.idx)

Ascending(s) == \A i, j \in 1 .. Len(s) : i < j => Before(s[i], s[j])

Gone == cloud \cup dropped \cup exposed

GoneUpTo(s, n) == \A i \in 1 .. Len(s) : i <= n => s[i] \in Gone

Starters == {"off", "scan", "trimRemove", "cursor"}

(* Until a fault, the cursors point into the file and the counts count it. *)
Counted ==
  ~faulted =>
    /\ Untorn(file)
    /\ pc \in Running => total = Len(Valid(file)) /\ nvsAcked <= acked
    /\ pc \in Starters => nvsAcked <= Len(Valid(file))
    /\ pc \in {"trimRemove", "cursor", "compactCursor"} => total = Len(Valid(file))
    /\ pc = "trimRemove" => tmp = Valid(file)
    /\ pc = "trimRename" => total = Len(tmp) /\ nvsAcked <= Len(tmp)
    /\ pc = "compactRemove" => tmp = Unacked
    /\ pc = "compactRename" => kept = Len(tmp)

\* A copy has all of s, or what it leaves out counts as exposed.
CopyOf(t, s) ==
  /\ Len(t) <= Len(s) /\ t = SubSeq(s, 1, Len(t))
  /\ ToSet(Drop(s, Len(t))) \subseteq exposed

(* What the files hold while one takes another's place.                    *)
Copied ==
  /\ pc = "trimRemove" => CopyOf(tmp, Valid(file))
  /\ pc = "compactRemove" => CopyOf(tmp, Unacked) /\ kept = Len(Unacked)
  /\ pc \in {"trimRename", "compactRename"} => tmp \in Seq(Records) /\ ~exists
  /\ pc = "compactCursor" => acked = 0
  /\ ~exists => file = <<>>

(* Every identity in use is older than the next one to be given out.       *)
Stamped(r) == IF pc = "off" THEN r.boot <= nvsBoot ELSE Before(r, Stamp)

Identities == (ToSet(file) \cup ToSet(tmp) \cup Gone \cup ToSet(batch)) \ {Torn}

Issued == \A r \in Identities : Stamped(r)

(* The records are in the order in which they were given out.              *)
Sorted ==
  /\ Ascending(Valid(file))
  /\ pc \in {"trimRename", "compactRename"} => Ascending(tmp)

(* What either cursor has passed is with the cloud, or given up, or exposed. *)
Passed ==
  /\ pc \in Running => GoneUpTo(Valid(file), acked) /\ GoneUpTo(Valid(file), nvsAcked)
  /\ pc \in Starters => GoneUpTo(Valid(file), nvsAcked)
  /\ pc = "trimRename" => GoneUpTo(tmp, nvsAcked)

(* A batch on its way is what a confirmation up to its last record covers, *)
(* however many records have been added or given up since.                 *)
InFlight ==
  /\ sync = "idle" <=> batch = <<>>
  /\ sync # "idle" => pc = "on"
  /\ sync # "idle" => \A i \in 1 .. Len(Unacked) :
                        Covered(Unacked[i], Last(batch)) => Unacked[i] \in ToSet(batch)
  /\ sync = "sent" => ToSet(batch) \subseteq ToSet(Unacked) \cup dropped
  /\ sync = "confirmed" => ToSet(batch) \subseteq cloud

Sound == Counted /\ Copied /\ Issued /\ Sorted /\ Passed /\ InFlight

LEMMA InitiallySound == Init => Sound
<1> SUFFICES ASSUME Init PROVE Sound
  OBVIOUS
<1>1. /\ file = <<>> /\ tmp = <<>> /\ nvsAcked = 0 /\ pc = "off" /\ total = 0 /\ acked = 0
      /\ sync = "idle" /\ batch = <<>> /\ cloud = {} /\ dropped = {} /\ exposed = {}
  BY DEF Init
<1>2. Valid(file) = <<>>
  <2>1. file \in Seq(Records) /\ Valid(file) = file
    BY <1>1, EmptyIs, RecordsWhole
  <2>2. QED
    BY <1>1, <2>1
<1>3. Counted /\ Copied
  BY <1>1, <1>2 DEF Counted, Copied, Running, Starters, Untorn
<1>4. Issued
  BY <1>1 DEF Issued, Identities, Gone, ToSet
<1>5. Sorted /\ Passed
  BY <1>1, <1>2 DEF Sorted, Passed, Ascending, GoneUpTo, Running, Starters
<1>6. InFlight
  BY <1>1 DEF InFlight
<1>7. QED
  BY <1>3, <1>4, <1>5, <1>6 DEF Sound

\* What counts as issued stays so, a restart included.
LEMMA StampedStep ==
  ASSUME Sizes, [Next]_vars, NEW r \in Records, Stamped(r)
  PROVE  Stamped(r)'
<1> /\ nvsBoot \in Nat /\ boot \in Nat /\ nextIdx \in Nat /\ r.boot \in Nat /\ r.idx \in Nat
    /\ pc # "off" => boot = nvsBoot
  BY SpoolAssumption DEF Sizes, DiskTyped, RamTyped, Booted, Records
<1>1. CASE BeginBoot
  BY <1>1 DEF BeginBoot, Stamped, Before, Stamp
<1>2. CASE AppendRecord
  BY <1>2 DEF AppendRecord, CanAppend, Stamped, Before, Stamp
<1>3. CASE /\ UNCHANGED <<nvsBoot, boot, nextIdx>>
           /\ pc # "off" \/ pc' = pc
  BY <1>3 DEF Stamped, Before, Stamp
<1>4. CASE Starting /\ ~BeginBoot
  BY <1>3, <1>4 DEF Starting, Trimming, Scan, TrimRemove, TrimRename, TrimRenameFails,
     ReadCursor, Unlink, disk, ram
<1>5. CASE Compacting
  BY <1>3, <1>5 DEF Compacting, Replacing, CompactCopy, CompactSkip, CompactRemove,
     CompactRename, CompactRenameFails, CompactCursor, Unlink, disk, ram
<1>6. CASE AppendTorn
  BY <1>3, <1>6 DEF AppendTorn, CanAppend, ram
<1>7. CASE Uploading \/ Confirmed \/ UploadFails
  BY <1>3, <1>7 DEF Uploading, Peek, Ack, Confirmed, UploadFails, disk, ram
<1>8. CASE Crash \/ UNCHANGED vars
  BY <1>3, <1>8 DEF Crash, vars, disk, ram
<1>9. QED
  BY <1>1, <1>2, <1>4, <1>5, <1>6, <1>7, <1>8 DEF Next

LEMMA ToSetIs ==
  ASSUME NEW S, NEW s \in Seq(S)
  PROVE  /\ ToSet(s) \subseteq S
         /\ ToSet(s) = {s[i] : i \in 1 .. Len(s)}
         /\ \A n \in 0 .. Len(s) : ToSet(SubSeq(s, 1, n)) \subseteq ToSet(s)
         /\ \A x \in S : ToSet(Append(s, x)) = ToSet(s) \cup {x}
<1>1. ToSet(s) \subseteq S /\ ToSet(s) = {s[i] : i \in 1 .. Len(s)}
  BY DEF ToSet
<1>2. ASSUME NEW n \in 0 .. Len(s) PROVE ToSet(SubSeq(s, 1, n)) \subseteq ToSet(s)
  BY PrefixIs DEF ToSet
<1>3. ASSUME NEW x \in S PROVE ToSet(Append(s, x)) = ToSet(s) \cup {x}
  <2> DEFINE t == Append(s, x)
  <2>1. /\ t \in Seq(S) /\ Len(t) = Len(s) + 1 /\ t[Len(s) + 1] = x
        /\ \A i \in 1 .. Len(s) : t[i] = s[i]
    OBVIOUS
  <2>2. DOMAIN t = 1 .. Len(s) + 1 /\ DOMAIN s = 1 .. Len(s)
    BY <2>1
  <2> HIDE DEF t
  <2>3. ToSet(t) = ToSet(s) \cup {x}
    BY <2>1, <2>2 DEF ToSet
  <2>4. QED
    BY <2>3 DEF t
<1>4. QED
  BY <1>1, <1>2, <1>3

\* What is read out of the file is in it.
LEMMA ReadFromFile ==
  ASSUME DiskTyped, acked \in Nat
  PROVE  /\ ToSet(Valid(file)) \subseteq ToSet(file)
         /\ ToSet(Unacked) \subseteq ToSet(Valid(file))
<1>1. ToSet(Valid(file)) \subseteq ToSet(file)
  BY ValidIs DEF DiskTyped, ToSet
<1>2. ToSet(Unacked) \subseteq ToSet(Valid(file))
  <2>1. Valid(file) \in Seq(Records)
    BY ValidIs DEF DiskTyped
  <2>2. \A i \in 1 .. Len(Unacked) : acked + i \in 1 .. Len(Valid(file))
    BY <2>1, UnackedIs
  <2>3. QED
    BY <2>1, <2>2, UnackedIs DEF ToSet
<1>3. QED
  BY <1>1, <1>2

\* What is copied out of the file was in it.
LEMMA PeekIs ==
  ASSUME Sizes, Peek
  PROVE  /\ pc = "on" /\ sync = "idle" /\ sync' = "sent" /\ batch' # <<>>
         /\ batch' \in Seq(Records) /\ Len(batch') \in 1 .. Len(Unacked)
         /\ batch' = SubSeq(Unacked, 1, Len(batch'))
         /\ \A i \in 1 .. Len(batch') : batch'[i] = Unacked[i]
         /\ ToSet(batch') \subseteq ToSet(Unacked)
         /\ UNCHANGED <<disk, ram, pc, cloud, history>>
<1>1. Unacked \in Seq(Records) /\ Len(Unacked) \in Nat
  BY UnackedIs DEF Sizes, RamTyped
<1>2. Min2(BatchMax, Len(Unacked)) \in 0 .. Len(Unacked)
  BY <1>1, SpoolAssumption DEF Min2
<1>3. batch' = SubSeq(Unacked, 1, Min2(BatchMax, Len(Unacked)))
  BY DEF Peek
<1>4. /\ batch' \in Seq(Records) /\ Len(batch') = Min2(BatchMax, Len(Unacked))
      /\ \A i \in 1 .. Len(batch') : batch'[i] = Unacked[i]
  BY <1>1, <1>2, <1>3, PrefixIs
<1>5. Len(batch') \in 1 .. Len(Unacked)
  BY <1>2, <1>4 DEF Peek
<1>6. ToSet(batch') \subseteq ToSet(Unacked)
  BY <1>1, <1>2, <1>3, ToSetIs
<1>7. QED
  BY <1>3, <1>4, <1>5, <1>6 DEF Peek

\* MakeRoom gives up the oldest of the unconfirmed, if it can be read.
LEMMA MakeRoomIs ==
  ASSUME Sizes, MakeRoom
  PROVE  \/ UNCHANGED <<acked, dropped>>
         \/ /\ total - acked >= MaxPending /\ acked' = acked + 1
            /\ dropped' = dropped \cup
                 (IF Unacked = <<>> THEN {} ELSE {Valid(file)[acked + 1]})
<1>1. CASE total - acked >= MaxPending
  <2>1. Unacked \in Seq(Records) /\ Len(Unacked) \in Nat
    BY UnackedIs DEF Sizes, RamTyped
  <2>2. CASE Unacked = <<>>
    <3>1. SubSeq(Unacked, 1, Min2(1, Len(Unacked))) = <<>>
      <4>1. Len(Unacked) = 0 /\ Min2(1, Len(Unacked)) = 0
        BY <2>2, EmptyIs DEF Min2
      <4>2. SubSeq(Unacked, 1, 0) = <<>>
        BY <2>1
      <4>3. QED
        BY <4>1, <4>2
    <3>2. ToSet(SubSeq(Unacked, 1, Min2(1, Len(Unacked)))) = {}
      BY <3>1, EmptyIs
    <3>3. QED
      BY <1>1, <2>2, <3>2 DEF MakeRoom
  <2>3. CASE Unacked # <<>>
    <3>1. Min2(1, Len(Unacked)) = 1 /\ Len(Unacked) >= 1
      <4>1. Len(Unacked) # 0
        BY <2>1, <2>3, EmptyIs
      <4>2. \A n \in Nat : n # 0 => Min2(1, n) = 1 /\ n >= 1
        BY DEF Min2
      <4>3. QED
        BY <2>1, <4>1, <4>2
    <3>2. Unacked[1] = Valid(file)[acked + 1]
      BY <3>1, UnackedIs DEF Sizes, RamTyped
    <3>3. ToSet(SubSeq(Unacked, 1, 1)) = {Unacked[1]}
      BY <2>1, <3>1 DEF ToSet
    <3>4. QED
      BY <1>1, <2>3, <3>1, <3>2, <3>3 DEF MakeRoom
  <2>4. QED
    BY <2>2, <2>3
<1>2. CASE ~(total - acked >= MaxPending)
  BY <1>2 DEF MakeRoom
<1>3. QED
  BY <1>1, <1>2

\* Whatever a step holds or passes on was held before, or is a new stamp.
LEMMA IdentitiesStep ==
  ASSUME Sizes, [Next]_vars
  PROVE  Identities' \subseteq Identities \cup (IF AppendRecord THEN {Stamp} ELSE {})
<1> DEFINE Held == ToSet(file) \cup ToSet(tmp) \cup cloud \cup dropped \cup ToSet(batch)
<1> SUFFICES Held' \subseteq Held \cup {Torn} \cup (IF AppendRecord THEN {Stamp} ELSE {})
  <2>1. exposed' \subseteq exposed \cup ToSet(Valid(file)) \cup ToSet(Valid(tmp))
                               \cup (IF AppendRecord THEN {Stamp} ELSE {})
    BY ExposedStep
  <2>2. ToSet(Valid(file)) \subseteq ToSet(file) /\ ToSet(Valid(tmp)) \subseteq ToSet(tmp)
    <3>1. ASSUME NEW q \in Seq(Cells) PROVE ToSet(Valid(q)) \subseteq ToSet(q)
      <4>1. /\ Valid(q) \in Seq(Records)
            /\ \A i \in 1 .. Len(Valid(q)) : i \in 1 .. Len(q) /\ Valid(q)[i] = q[i]
        BY ValidIs
      <4>2. QED
        BY <4>1 DEF ToSet
    <3>2. QED
      BY <3>1 DEF Sizes, DiskTyped
  <2>3. QED
    BY <2>1, <2>2 DEF Identities, Gone
<1> DiskTyped /\ RamTyped /\ RestTyped /\ acked \in Nat
  BY DEF Sizes, RamTyped
<1>1. /\ ToSet(Unacked) \subseteq ToSet(file) /\ ToSet(Valid(file)) \subseteq ToSet(file)
      /\ ToSet(<<>>) = {}
  BY ReadFromFile DEF ToSet
<1>2. ASSUME NEW q \in Seq(Records), Copy(q), ToSet(q) \subseteq ToSet(file)
      PROVE  ToSet(tmp') \subseteq ToSet(file)
  <2>1. ToSet(SubSeq(q, 1, Len(tmp'))) \subseteq ToSet(q)
    BY <1>2, CopyIs, ToSetIs
  <2>2. QED
    BY <1>2, <2>1, CopyIs
<1>3. CASE BeginBoot \/ ReadCursor
  BY <1>3, Zenon DEF BeginBoot, ReadCursor, disk, upload, history
<1>4. CASE Scan
  <2>1. ToSet(tmp') \subseteq ToSet(file) \cup ToSet(tmp)
    <3>1. Valid(file) \in Seq(Records)
      BY ValidIs DEF DiskTyped
    <3>2. QED
      BY <1>1, <1>2, <1>4, <3>1 DEF Scan
  <2>2. UNCHANGED <<file, batch, cloud, dropped>>
    BY <1>4 DEF Scan, upload
  <2>3. QED
    BY <2>1, <2>2
<1>5. CASE TrimRemove \/ CompactRemove
  BY <1>1, <1>5 DEF TrimRemove, CompactRemove, Unlink, upload, history
<1>6. CASE TrimRename \/ CompactRename
  BY <1>1, <1>6 DEF TrimRename, CompactRename, upload, history
<1>7. CASE CompactCopy
  <2>1. ToSet(tmp') \subseteq ToSet(file)
    <3>1. Unacked \in Seq(Records)
      BY UnackedIs
    <3>2. QED
      BY <1>1, <1>2, <1>7, <3>1 DEF CompactCopy
  <2>2. UNCHANGED <<file, batch, cloud, dropped>>
    BY <1>7 DEF CompactCopy, upload
  <2>3. QED
    BY <2>1, <2>2
<1>8. CASE CompactSkip \/ CompactCursor \/ TrimRenameFails \/ CompactRenameFails
  BY <1>8 DEF CompactSkip, CompactCursor, TrimRenameFails, CompactRenameFails, disk, upload, history
<1>9. CASE AppendRecord
  <2>1. Stamp \in Records /\ Stamp \in Cells
    BY <1>9, StampTyped DEF AppendRecord, Cells
  <2>2. ToSet(file') \subseteq ToSet(file) \cup {Stamp}
    <3>1. ToSet(Append(file, Stamp)) = ToSet(file) \cup {Stamp}
      BY <2>1, ToSetIs DEF DiskTyped
    <3>2. QED
      BY <1>9, <3>1 DEF AppendRecord
  <2>3. dropped' \subseteq dropped \cup ToSet(Unacked)
    <3>1. Unacked \in Seq(Records) /\ Min2(1, Len(Unacked)) \in 0 .. Len(Unacked)
      BY UnackedIs DEF Min2
    <3>2. ToSet(SubSeq(Unacked, 1, Min2(1, Len(Unacked)))) \subseteq ToSet(Unacked)
      BY <3>1, ToSetIs
    <3>3. QED
      BY <1>9, <3>2 DEF AppendRecord, MakeRoom
  <2>4. UNCHANGED <<tmp, batch, cloud>>
    BY <1>9 DEF AppendRecord, upload
  <2>5. QED
    BY <1>1, <1>9, <2>2, <2>3, <2>4
<1>10. CASE AppendTorn
  <2>1. ToSet(file') = ToSet(file) \cup {Torn}
    BY <1>10, ToSetIs DEF AppendTorn, DiskTyped, Cells
  <2>2. QED
    BY <1>1, <1>10, <2>1 DEF AppendTorn
<1>11. CASE Peek
  BY <1>1, <1>11, PeekIs DEF disk, history
<1>12. CASE Ack
  BY <1>1, <1>12, AckIs DEF history
<1>13. CASE Confirmed
  BY <1>13 DEF Confirmed, disk, history
<1>14. CASE UploadFails
  BY <1>1, <1>14 DEF UploadFails, disk, history
<1>15. CASE Crash \/ UNCHANGED vars
  BY <1>1, <1>15 DEF Crash, vars, disk, upload, history
<1>16. QED
  BY <1>3, <1>4, <1>5, <1>6, <1>7, <1>8, <1>9, <1>10, <1>11, <1>12, <1>13, <1>14, <1>15
     DEF Next, Starting, Trimming, Compacting, Replacing, Uploading

LEMMA IssuedStep == Sizes /\ exposed \subseteq Records /\ Issued /\ [Next]_vars => Issued'
<1> SUFFICES ASSUME Sizes, exposed \subseteq Records, Issued, [Next]_vars, NEW r \in Identities'
             PROVE  Stamped(r)'
  BY DEF Issued
<1>1. CASE r \in Identities
  <2>1. r \in Records
    <3>1. ToSet(file) \cup ToSet(tmp) \subseteq Cells /\ ToSet(batch) \subseteq Records
      BY ToSetIs DEF Sizes, DiskTyped, RestTyped
    <3>2. QED
      BY <1>1, <3>1 DEF Identities, Gone, Cells, Sizes, RestTyped
  <2>2. QED
    BY <1>1, <2>1, StampedStep DEF Issued
<1>2. CASE r = Stamp /\ AppendRecord
  BY <1>2, SpoolAssumption DEF AppendRecord, CanAppend, Stamped, Before, Stamp, Sizes, RamTyped
<1>3. QED
  BY <1>1, <1>2, IdentitiesStep

LEMMA EmptyFile ==
  /\ <<>> \in Seq(Records) /\ Len(<<>>) = 0 /\ Valid(<<>>) = <<>>
  /\ Untorn(<<>>) /\ Ascending(<<>>)
<1>1. <<>> \in Seq(Records) /\ Len(<<>>) = 0
  BY EmptyIs
<1>2. Valid(<<>>) = <<>> /\ Untorn(<<>>)
  BY <1>1, RecordsWhole
<1>3. QED
  BY <1>1, <1>2 DEF Ascending

LEMMA UnackedAscends ==
  ASSUME DiskTyped, acked \in Nat, Ascending(Valid(file)) PROVE Ascending(Unacked)
<1>1. Valid(file) \in Seq(Records)
  BY ValidIs DEF DiskTyped
<1>2. \A i \in 1 .. Len(Unacked) : acked + i \in 1 .. Len(Valid(file))
  BY <1>1, UnackedIs
<1>3. Len(Unacked) \in Nat
  BY UnackedIs
<1>4. ASSUME NEW i \in 1 .. Len(Unacked), NEW j \in 1 .. Len(Unacked), i < j
      PROVE  Before(Unacked[i], Unacked[j])
  <2>1. acked + i < acked + j
    BY <1>3, <1>4
  <2>2. Before(Valid(file)[acked + i], Valid(file)[acked + j])
    BY <1>2, <2>1 DEF Ascending
  <2>3. Unacked[i] = Valid(file)[acked + i] /\ Unacked[j] = Valid(file)[acked + j]
    BY UnackedIs
  <2>4. QED
    BY <2>2, <2>3
<1>5. QED
  BY <1>4 DEF Ascending

\* Off the running spool nothing is on its way.
LEMMA Idle ==
  /\ InFlight /\ pc # "on" => sync = "idle" /\ batch = <<>>
  /\ sync' = "idle" /\ batch' = <<>> => InFlight'
  BY DEF InFlight

\* Nothing that has gone comes back.
LEMMA GoneGrows == [Next]_vars => Gone \subseteq Gone'
<1> SUFFICES ASSUME [Next]_vars PROVE Gone \subseteq Gone'
  OBVIOUS
<1>1. exposed \subseteq exposed'
  <2>1. ASSUME NEW q, Copy(q) PROVE exposed \subseteq exposed'
    BY <2>1 DEF Copy, Exposing, damage
  <2>2. CASE Scan \/ CompactCopy
    BY <2>1, <2>2 DEF Scan, CompactCopy, damage
  <2>3. CASE TrimRenameFails \/ CompactRenameFails \/ Crash \/ AppendRecord \/ AppendTorn
    BY <2>3 DEF TrimRenameFails, CompactRenameFails, Crash, AppendRecord, AppendTorn, Exposing,
       damage
  <2>4. CASE UNCHANGED history
    BY <2>4 DEF history, damage
  <2>5. CASE BeginBoot \/ TrimRemove \/ TrimRename \/ ReadCursor
    BY <2>4, <2>5 DEF BeginBoot, TrimRemove, TrimRename, ReadCursor, Unlink
  <2>6. CASE CompactSkip \/ CompactRemove \/ CompactRename \/ CompactCursor
    BY <2>4, <2>6 DEF CompactSkip, CompactRemove, CompactRename, CompactCursor, Unlink
  <2>7. CASE Uploading \/ Confirmed \/ UploadFails \/ UNCHANGED vars
    BY <2>4, <2>7 DEF Uploading, Peek, Ack, Confirmed, UploadFails, vars
  <2>8. QED
    BY <2>2, <2>3, <2>5, <2>6, <2>7 DEF Next, Starting, Trimming, Compacting, Replacing
<1>2. cloud \subseteq cloud'
  BY DEF Next, Starting, Trimming, Compacting, Replacing, Uploading, vars, BeginBoot, Scan,
     TrimRemove, TrimRename, TrimRenameFails, ReadCursor, Unlink, CompactCopy, CompactSkip,
     CompactRemove, CompactRename, CompactRenameFails, CompactCursor, AppendRecord, AppendTorn,
     Peek, Ack, Confirmed, UploadFails, Crash
<1>3. dropped \subseteq dropped'
  BY DEF Next, Starting, Trimming, Compacting, Replacing, Uploading, vars, BeginBoot, Scan,
     TrimRemove, TrimRename, TrimRenameFails, ReadCursor, Unlink, CompactCopy, CompactSkip,
     CompactRemove, CompactRename, CompactRenameFails, CompactCursor, AppendRecord, AppendTorn,
     MakeRoom, Peek, Ack, Confirmed, UploadFails, Crash, history
<1>4. QED
  BY <1>1, <1>2, <1>3 DEF Gone

LEMMA GonePast ==
  ASSUME NEW s, NEW n, GoneUpTo(s, n), Gone \subseteq Gone'
  PROVE  \A i \in 1 .. Len(s) : i <= n => s[i] \in Gone'
  BY DEF GoneUpTo

LEMMA ExposingIs ==
  ASSUME NEW rs, Exposing(rs)
  PROVE  faulted' /\ faulted' = TRUE /\ exposed' = exposed \cup rs
  BY Zenon DEF Exposing

\* A copy, as the invariants speak of it.
LEMMA AllCopied ==
  ASSUME DiskTyped, NEW s \in Seq(Records), Copy(s)
  PROVE  /\ tmp' \in Seq(Records) /\ Len(tmp') <= Len(s) /\ tmp' = SubSeq(s, 1, Len(tmp'))
         /\ ToSet(Drop(s, Len(tmp'))) \subseteq exposed'
         /\ ~faulted' => tmp' = s /\ ~faulted
<1>1. /\ tmp' \in Seq(Records) /\ Len(tmp') <= Len(s) /\ tmp' = SubSeq(s, 1, Len(tmp'))
      /\ (tmp' = s /\ UNCHANGED damage) \/ Exposing(ToSet(Drop(s, Len(tmp'))))
  BY CopyIs
<1>2. CASE tmp' = s /\ UNCHANGED damage
  <2>1. Drop(s, Len(s)) = <<>>
    <3>1. Drop(s, Len(s)) \in Seq(Records) /\ Len(Drop(s, Len(s))) = 0
      BY DropIs
    <3>2. QED
      BY <3>1, EmptyIs
  <2>2. ToSet(Drop(s, Len(tmp'))) \subseteq exposed'
    BY <1>2, <2>1, EmptyIs
  <2>3. faulted' = faulted
    BY <1>2, Zenon DEF damage
  <2>4. QED
    BY <1>1, <1>2, <2>2, <2>3
<1>3. CASE Exposing(ToSet(Drop(s, Len(tmp'))))
  <2>1. faulted' /\ ToSet(Drop(s, Len(tmp'))) \subseteq exposed'
    BY <1>3, ExposingIs
  <2>2. QED
    BY <1>1, <2>1
<1>4. QED
  BY <1>1, <1>2, <1>3

\* What is true of a sequence is true of its beginning.
LEMMA PrefixKeeps ==
  ASSUME NEW s \in Seq(Records), NEW t, Len(t) \in 0 .. Len(s), t = SubSeq(s, 1, Len(t))
  PROVE  /\ t \in Seq(Records) /\ ToSet(t) \subseteq ToSet(s)
         /\ Ascending(s) => Ascending(t)
         /\ \A n : GoneUpTo(s, n) => GoneUpTo(t, n)
<1>1. /\ t \in Seq(Records) /\ \A i \in 1 .. Len(t) : i \in 1 .. Len(s) /\ t[i] = s[i]
  BY PrefixIs
<1>2. ToSet(t) \subseteq ToSet(s)
  BY <1>1 DEF ToSet
<1>3. Ascending(s) => Ascending(t)
  BY <1>1 DEF Ascending
<1>4. \A n : GoneUpTo(s, n) => GoneUpTo(t, n)
  BY <1>1 DEF GoneUpTo
<1>5. QED
  BY <1>1, <1>2, <1>3, <1>4

LEMMA StartingSound ==
  ASSUME Sizes, Sound, Starting
  PROVE  Counted' /\ Copied' /\ Sorted' /\ Passed' /\ InFlight'
<1> /\ DiskTyped /\ RamTyped /\ RestTyped /\ Sized
    /\ Counted /\ Copied /\ Sorted /\ Passed /\ InFlight
  BY DEF Sizes, Sound
<1>0. Gone \subseteq Gone'
  BY GoneGrows DEF Next
<1>1. /\ Valid(file) \in Seq(Records) /\ Len(Valid(file)) \in Nat
      /\ nvsAcked \in Nat /\ acked \in Nat /\ total \in Nat /\ Len(tmp) \in Nat
  BY ValidIs DEF DiskTyped, RamTyped
<1>2. CASE BeginBoot
  <2>1. /\ pc = "off" /\ pc' = "scan"
        /\ UNCHANGED <<file, exists, tmp, nvsAcked, sync, batch, history>>
    BY <1>2 DEF BeginBoot, upload
  <2>2. faulted' = faulted /\ exposed' = exposed
    BY <2>1, Zenon DEF history, damage
  <2>3. QED
    BY <1>0, <2>1, <2>2, Idle DEF Counted, Copied, Sorted, Passed, GoneUpTo, Running, Starters
<1>3. CASE Scan
  <2>1. /\ pc = "scan" /\ total' = Len(Valid(file)) /\ acked' = 0
        /\ UNCHANGED <<file, exists, nvsAcked, sync, batch>>
    BY <1>3 DEF Scan, upload
  <2>2. InFlight' /\ Sorted'
    <3>1. pc' \in {"on", "trimRemove", "cursor"}
      BY <1>3 DEF Scan
    <3>2. QED
      BY <2>1, <3>1, Idle DEF Sorted
  <2>3. GoneUpTo(Valid(file), nvsAcked)' /\ GoneUpTo(Valid(file), 0)'
    BY <1>0, <1>1, <2>1 DEF Passed, Starters, GoneUpTo
  <2>4. CASE pc' = "on" /\ ~exists /\ UNCHANGED <<tmp, damage>>
    <3>1. Len(Valid(file)) = 0
      BY <2>4, EmptyFile DEF Copied
    <3>2. faulted' = faulted
      BY <2>4, Zenon DEF damage
    <3>3. Counted'
      BY <1>1, <2>1, <2>4, <3>1, <3>2 DEF Counted, Running, Starters
    <3>4. Copied' /\ Passed'
      BY <2>1, <2>3, <2>4 DEF Copied, Passed, Running, Starters
    <3>5. QED
      BY <2>2, <3>3, <3>4
  <2>5. CASE pc' = "trimRemove" /\ exists /\ Copy(Valid(file))
    <3>1. /\ Len(tmp') <= Len(Valid(file)) /\ tmp' = SubSeq(Valid(file), 1, Len(tmp'))
          /\ ToSet(Drop(Valid(file), Len(tmp'))) \subseteq exposed'
          /\ ~faulted' => tmp' = Valid(file) /\ ~faulted
      BY <1>1, <2>5, AllCopied
    <3>2. Counted'
      BY <1>1, <2>1, <2>5, <3>1 DEF Counted, Running, Starters
    <3>3. CopyOf(tmp, Valid(file))'
      BY <2>1, <3>1 DEF CopyOf
    <3>4. Copied' /\ Passed'
      BY <2>1, <2>3, <2>5, <3>3 DEF Copied, Passed, Running, Starters
    <3>5. QED
      BY <2>2, <3>2, <3>4
  <2>6. CASE pc' = "cursor" /\ exists /\ UNCHANGED <<tmp, damage>>
    <3>1. faulted' = faulted
      BY <2>6, Zenon DEF damage
    <3>2. Counted'
      BY <1>1, <2>1, <2>6, <3>1 DEF Counted, Running, Starters
    <3>3. Copied' /\ Passed'
      BY <2>1, <2>3, <2>6 DEF Copied, Passed, Running, Starters
    <3>4. QED
      BY <2>2, <3>2, <3>3
  <2>7. QED
    BY <1>3, <2>4, <2>5, <2>6 DEF Scan
<1>4. CASE TrimRemove
  <2>1. /\ pc = "trimRemove" /\ pc' = "trimRename" /\ file' = <<>>
        /\ UNCHANGED <<tmp, nvsAcked, total, acked, kept, sync, batch, history>>
    BY <1>4 DEF TrimRemove, Unlink, ram, upload
  <2>2. ~exists' /\ faulted' = faulted
    BY <1>4, Zenon DEF TrimRemove, Unlink, history, damage
  <2>3. /\ CopyOf(tmp, Valid(file)) /\ Len(tmp) \in 0 .. Len(Valid(file))
        /\ GoneUpTo(Valid(file), nvsAcked) /\ Ascending(Valid(file))
    BY <1>1, <2>1 DEF Copied, CopyOf, Passed, Starters, Sorted
  <2>4. tmp \in Seq(Records) /\ Ascending(tmp) /\ GoneUpTo(tmp, nvsAcked)
    BY <1>1, <2>3, PrefixKeeps DEF CopyOf
  <2>5. Counted'
    BY <1>1, <2>1, <2>2, EmptyFile DEF Counted, Running, Starters
  <2>6. Copied' /\ Sorted'
    BY <2>1, <2>2, <2>4, EmptyFile DEF Copied, Sorted
  <2>7. Passed'
    BY <1>0, <2>1, <2>4 DEF Passed, GoneUpTo, Running, Starters
  <2>8. QED
    BY <2>1, <2>5, <2>6, <2>7, Idle
<1>5. CASE TrimRename
  <2>1. /\ pc = "trimRename" /\ pc' = "cursor" /\ file' = tmp
        /\ UNCHANGED <<nvsAcked, total, acked, kept, sync, batch, history>>
    BY <1>5 DEF TrimRename, ram, upload
  <2>2. exists' /\ faulted' = faulted
    BY <1>5, Zenon DEF TrimRename, history, damage
  <2>3. Valid(tmp) = tmp /\ Untorn(tmp)
    BY <2>1, RecordsWhole DEF Copied
  <2>4. Counted'
    BY <1>1, <2>1, <2>2, <2>3 DEF Counted, Running, Starters
  <2>5. Copied' /\ Sorted'
    BY <2>1, <2>2, <2>3 DEF Copied, Sorted
  <2>6. Passed'
    BY <1>0, <2>1, <2>3 DEF Passed, GoneUpTo, Running, Starters
  <2>7. QED
    BY <2>1, <2>4, <2>5, <2>6, Idle
<1>6. CASE TrimRenameFails
  <2>1. /\ pc = "trimRename" /\ pc' = "cursor"
        /\ UNCHANGED <<file, exists, tmp, sync, batch>>
    BY <1>6 DEF TrimRenameFails, disk, upload
  <2>2. faulted'
    BY <1>6, ExposingIs DEF TrimRenameFails
  <2>3. file = <<>> /\ Len(Valid(file)) = 0
    BY <2>1, EmptyFile DEF Copied
  <2>4. Counted'
    BY <2>2 DEF Counted
  <2>5. Copied' /\ Sorted' /\ Passed'
    BY <2>1, <2>3 DEF Copied, Sorted, Passed, GoneUpTo, Running, Starters
  <2>6. QED
    BY <2>1, <2>4, <2>5, Idle
<1>7. CASE ReadCursor
  <2>1. /\ pc = "cursor" /\ pc' = "on" /\ acked' = Min2(nvsAcked, total)
        /\ UNCHANGED <<file, exists, tmp, nvsAcked, total, kept, sync, batch, history>>
    BY <1>7 DEF ReadCursor, disk, upload
  <2>2. faulted' = faulted
    BY <2>1, Zenon DEF history, damage
  <2>3. acked' <= nvsAcked /\ acked' \in Nat /\ (nvsAcked <= total => acked' = nvsAcked)
    BY <1>1, <2>1 DEF Min2
  <2>4. Counted'
    BY <1>1, <2>1, <2>2, <2>3 DEF Counted, Running, Starters
  <2>5. Copied' /\ Sorted'
    BY <2>1 DEF Copied, Sorted
  <2>6. Passed'
    <3>1. GoneUpTo(Valid(file), nvsAcked) /\ GoneUpTo(Valid(file), acked')
      BY <1>1, <2>1, <2>3 DEF Passed, GoneUpTo, Starters
    <3>2. QED
      BY <1>0, <2>1, <3>1 DEF Passed, GoneUpTo, Running, Starters
  <2>7. QED
    BY <2>1, <2>4, <2>5, <2>6, Idle
<1>8. QED
  BY <1>2, <1>3, <1>4, <1>5, <1>6, <1>7 DEF Starting, Trimming

LEMMA CompactingSound ==
  ASSUME Sizes, Sound, Compacting
  PROVE  Counted' /\ Copied' /\ Sorted' /\ Passed' /\ InFlight'
<1> /\ DiskTyped /\ RamTyped /\ RestTyped
    /\ Counted /\ Copied /\ Sorted /\ Passed /\ InFlight
  BY DEF Sizes, Sound
<1>0. Gone \subseteq Gone'
  BY GoneGrows DEF Next
<1>1. /\ Valid(file) \in Seq(Records) /\ Len(Valid(file)) \in Nat
      /\ Unacked \in Seq(Records) /\ Len(Unacked) \in Nat
      /\ nvsAcked \in Nat /\ acked \in Nat /\ total \in Nat /\ kept \in Nat /\ Len(tmp) \in Nat
  BY ValidIs, UnackedIs DEF DiskTyped, RamTyped
<1>2. CASE CompactCopy
  <2>1. /\ pc = "compact" /\ pc' = "compactRemove" /\ kept' = Len(Unacked) /\ Copy(Unacked)
        /\ UNCHANGED <<file, exists, nvsAcked, total, acked, sync, batch>>
    BY <1>2 DEF CompactCopy, upload
  <2>2. Unacked' = Unacked
    BY <2>1 DEF Unacked
  <2>3. /\ Len(tmp') <= Len(Unacked) /\ tmp' = SubSeq(Unacked, 1, Len(tmp'))
        /\ ToSet(Drop(Unacked, Len(tmp'))) \subseteq exposed'
        /\ ~faulted' => tmp' = Unacked /\ ~faulted
    BY <1>1, <2>1, AllCopied
  <2>4. CopyOf(tmp, Unacked)'
    BY <2>2, <2>3 DEF CopyOf
  <2>5. Counted'
    BY <1>1, <2>1, <2>2, <2>3 DEF Counted, Running, Starters
  <2>6. Copied' /\ Sorted'
    BY <2>1, <2>2, <2>4 DEF Copied, Sorted
  <2>7. Passed'
    BY <1>0, <2>1 DEF Passed, GoneUpTo, Running, Starters
  <2>8. QED
    BY <2>1, <2>5, <2>6, <2>7, Idle
<1>3. CASE CompactSkip
  <2>1. /\ pc = "compact" /\ pc' = "on"
        /\ UNCHANGED <<file, exists, tmp, nvsAcked, total, acked, kept, sync, batch, history>>
    BY <1>3 DEF CompactSkip, disk, ram, upload
  <2>2. faulted' = faulted
    BY <2>1, Zenon DEF history, damage
  <2>3. QED
    BY <1>0, <2>1, <2>2, Idle DEF Counted, Copied, Sorted, Passed, GoneUpTo, Running, Starters
<1>4. CASE CompactRemove
  <2>1. /\ pc = "compactRemove" /\ pc' = "compactRename" /\ file' = <<>>
        /\ UNCHANGED <<tmp, nvsAcked, total, acked, kept, sync, batch, history>>
    BY <1>4 DEF CompactRemove, Unlink, ram, upload
  <2>2. ~exists' /\ faulted' = faulted
    BY <1>4, Zenon DEF CompactRemove, Unlink, history, damage
  <2>3. /\ CopyOf(tmp, Unacked) /\ Len(tmp) \in 0 .. Len(Unacked) /\ kept = Len(Unacked)
        /\ Ascending(Unacked)
    BY <1>1, <2>1, UnackedAscends DEF Copied, CopyOf, Sorted
  <2>4. tmp \in Seq(Records) /\ Ascending(tmp)
    BY <1>1, <2>3, PrefixKeeps DEF CopyOf
  <2>5. Counted'
    BY <1>1, <2>1, <2>2, <2>3, EmptyFile DEF Counted, Running, Starters
  <2>6. Copied' /\ Sorted'
    BY <2>1, <2>2, <2>4, EmptyFile DEF Copied, Sorted
  <2>7. Passed'
    BY <2>1 DEF Passed, Running, Starters
  <2>8. QED
    BY <2>1, <2>5, <2>6, <2>7, Idle
<1>5. CASE CompactRename
  <2>1. /\ pc = "compactRename" /\ pc' = "compactCursor" /\ file' = tmp
        /\ total' = kept /\ acked' = 0
        /\ UNCHANGED <<nvsAcked, kept, sync, batch, history>>
    BY <1>5 DEF CompactRename, upload
  <2>2. exists' /\ faulted' = faulted
    BY <1>5, Zenon DEF CompactRename, history, damage
  <2>3. Valid(tmp) = tmp /\ Untorn(tmp)
    BY <2>1, RecordsWhole DEF Copied
  <2>4. Counted'
    BY <1>1, <2>1, <2>2, <2>3 DEF Counted, Running, Starters
  <2>5. Copied' /\ Sorted'
    BY <2>1, <2>2, <2>3 DEF Copied, Sorted
  <2>6. Passed'
    BY <2>1 DEF Passed, Running, Starters
  <2>7. QED
    BY <2>1, <2>4, <2>5, <2>6, Idle
<1>6. CASE CompactRenameFails
  <2>1. /\ pc = "compactRename" /\ pc' = "on"
        /\ UNCHANGED <<file, exists, tmp, sync, batch>>
    BY <1>6 DEF CompactRenameFails, disk, upload
  <2>2. faulted'
    BY <1>6, ExposingIs DEF CompactRenameFails
  <2>3. file = <<>> /\ Len(Valid(file)) = 0
    BY <2>1, EmptyFile DEF Copied
  <2>4. Counted'
    BY <2>2 DEF Counted
  <2>5. Copied' /\ Sorted' /\ Passed'
    BY <2>1, <2>3 DEF Copied, Sorted, Passed, GoneUpTo, Running, Starters
  <2>6. QED
    BY <2>1, <2>4, <2>5, Idle
<1>7. CASE CompactCursor
  <2>1. /\ pc = "compactCursor" /\ pc' = "on" /\ nvsAcked' = 0
        /\ UNCHANGED <<file, exists, tmp, total, acked, kept, sync, batch, history>>
    BY <1>7 DEF CompactCursor, ram, upload
  <2>2. faulted' = faulted /\ acked = 0
    BY <2>1, Zenon DEF history, damage, Copied
  <2>3. Counted'
    BY <1>1, <2>1, <2>2 DEF Counted, Running, Starters
  <2>4. Copied' /\ Sorted' /\ Passed'
    BY <1>1, <2>1, <2>2 DEF Copied, Sorted, Passed, GoneUpTo, Running, Starters
  <2>5. QED
    BY <2>1, <2>3, <2>4, Idle
<1>8. QED
  BY <1>2, <1>3, <1>4, <1>5, <1>6, <1>7 DEF Compacting, Replacing

\* What has to be read again after a restart begins where the cursor in flash
\* points.
LEMMA AfterCursorIs ==
  ASSUME DiskTyped, NEW s \in Seq(Cells)
  PROVE  AfterCursor(s) = Drop(Valid(s), nvsAcked)
<1>1. Valid(s) \in Seq(Records) /\ Len(Valid(s)) \in Nat /\ nvsAcked \in Nat
  BY ValidIs DEF DiskTyped
<1>2. CASE nvsAcked <= Len(Valid(s))
  BY <1>1, <1>2 DEF AfterCursor, Min2
<1>3. CASE ~(nvsAcked <= Len(Valid(s)))
  <2>1. AfterCursor(s) = Drop(Valid(s), Len(Valid(s)))
    BY <1>1, <1>3 DEF AfterCursor, Min2
  <2>2. Drop(Valid(s), Len(Valid(s))) = <<>> /\ Drop(Valid(s), nvsAcked) = <<>>
    <3>1. /\ Drop(Valid(s), Len(Valid(s))) \in Seq(Records)
          /\ Len(Drop(Valid(s), Len(Valid(s)))) = 0
      BY <1>1, DropIs
    <3>2. Drop(Valid(s), nvsAcked) \in Seq(Records) /\ Len(Drop(Valid(s), nvsAcked)) = 0
      BY <1>1, <1>3, DropIs
    <3>3. QED
      BY <3>1, <3>2, EmptyIs
  <2>3. QED
    BY <2>1, <2>2
<1>4. QED
  BY <1>2, <1>3

\* What is waiting, by where the controller is.
WaitingAt ==
  /\ pc \in Running \cup {"compactCursor"} => Waiting = Unacked
  /\ pc = "compactRename" => Waiting = tmp
  /\ pc = "trimRename" => Waiting = Drop(tmp, nvsAcked)
  /\ pc \in Starters => Waiting = Drop(Valid(file), nvsAcked)
  /\ Restarted = Drop(Valid(file), nvsAcked)

LEMMA WaitingIs == Sizes /\ Sound => WaitingAt /\ Waiting \in Seq(Records)
<1> SUFFICES ASSUME Sizes, Sound PROVE WaitingAt /\ Waiting \in Seq(Records)
  OBVIOUS
<1> DiskTyped /\ RestTyped /\ RamTyped /\ Copied
  BY DEF Sizes, Sound
<1>1. /\ Valid(file) \in Seq(Records) /\ Len(Valid(file)) \in Nat /\ nvsAcked \in Nat
      /\ Len(tmp) \in Nat /\ acked \in Nat
  BY ValidIs DEF DiskTyped, RamTyped
<1>2. Restarted = Drop(Valid(file), nvsAcked)
  <2>1. CASE exists
    BY <2>1, AfterCursorIs DEF Restarted, DiskTyped
  <2>2. CASE ~exists
    <3>1. Len(Valid(file)) = 0
      BY <2>2, EmptyFile DEF Copied
    <3>2. Drop(Valid(file), nvsAcked) \in Seq(Records) /\ Len(Drop(Valid(file), nvsAcked)) = 0
      <4> DEFINE V == Valid(file)
      <4> HIDE DEF V
      <4>1. /\ Drop(V, nvsAcked) \in Seq(Records)
            /\ Len(Drop(V, nvsAcked)) = IF nvsAcked <= Len(V) THEN Len(V) - nvsAcked ELSE 0
        BY <1>1, DropIs, Zenon DEF V
      <4>2. Len(V) = 0 /\ nvsAcked \in Nat
        BY <1>1, <3>1 DEF V
      <4>3. Drop(V, nvsAcked) \in Seq(Records) /\ Len(Drop(V, nvsAcked)) = 0
        BY <4>1, <4>2
      <4>4. QED
        BY <4>3 DEF V
    <3>3. QED
      BY <2>2, <3>2, EmptyIs DEF Restarted
  <2>3. QED
    BY <2>1, <2>2
<1>3. Drop(Valid(file), nvsAcked) \in Seq(Records) /\ Unacked \in Seq(Records)
  BY <1>1, DropIs, UnackedIs
<1>4. CASE pc \in Running \cup {"compactCursor"}
  BY <1>2, <1>3, <1>4 DEF WaitingAt, Waiting, Running, Starters
<1>5. CASE pc = "compactRename"
  <2>1. Valid(tmp) = tmp /\ tmp \in Seq(Records)
    BY <1>5, RecordsWhole DEF Copied
  <2>2. QED
    BY <1>2, <1>5, <2>1 DEF WaitingAt, Waiting, Running, Starters
<1>6. CASE pc = "trimRename"
  <2>1. Valid(tmp) = tmp /\ tmp \in Seq(Records)
    BY <1>6, RecordsWhole DEF Copied
  <2>2. AfterCursor(tmp) = Drop(tmp, nvsAcked) /\ Drop(tmp, nvsAcked) \in Seq(Records)
    BY <1>1, <2>1, AfterCursorIs, DropIs DEF DiskTyped
  <2>3. QED
    BY <1>2, <1>6, <2>2 DEF WaitingAt, Waiting, Running, Starters
<1>7. CASE pc \in Starters
  BY <1>2, <1>3, <1>7 DEF WaitingAt, Waiting, Running, Starters
<1>8. QED
  BY <1>4, <1>5, <1>6, <1>7 DEF RestTyped, Pcs, Running, Starters

\* Records in the order in which they were given out are all different.
LEMMA NotAgain ==
  ASSUME NEW s \in Seq(Records), Ascending(s), NEW n \in Nat,
         NEW i \in 1 .. Len(s), i <= n
  PROVE  s[i] \notin ToSet(Drop(s, n))
<1> SUFFICES ASSUME s[i] \in ToSet(Drop(s, n)) PROVE FALSE
  OBVIOUS
<1>1. /\ Drop(s, n) \in Seq(Records)
      /\ \A j \in 1 .. Len(Drop(s, n)) : n + j \in 1 .. Len(s) /\ Drop(s, n)[j] = s[n + j]
  BY DropIs
<1>2. PICK j \in 1 .. Len(Drop(s, n)) : Drop(s, n)[j] = s[i]
  BY <1>1 DEF ToSet
<1>3. n + j \in 1 .. Len(s) /\ i < n + j /\ s[n + j] = s[i]
  BY <1>1, <1>2
<1>4. Before(s[i], s[i])
  BY <1>3 DEF Ascending
<1>5. s[i] \in Records
  OBVIOUS
<1>6. QED
  BY <1>4, <1>5, SpoolAssumption DEF Before, Records

\* A restart goes back to the cursor in flash.
LEMMA RestartSound ==
  ASSUME Sizes, Sound, Crash \/ AppendTorn
  PROVE  /\ Counted' /\ Copied' /\ Sorted' /\ Passed' /\ InFlight'
         /\ pc' = "off" /\ Valid(file)' = Valid(file)
         /\ UNCHANGED <<nvsAcked, cloud, dropped>>
<1> /\ DiskTyped /\ RamTyped /\ RestTyped
    /\ Counted /\ Copied /\ Sorted /\ Passed /\ InFlight
  BY DEF Sizes, Sound
<1>0. Gone \subseteq Gone'
  BY GoneGrows DEF Next
<1>1. /\ Valid(file) \in Seq(Records) /\ Len(Valid(file)) \in Nat
      /\ nvsAcked \in Nat /\ acked \in 0 .. total /\ total \in Nat
  BY ValidIs DEF DiskTyped, RamTyped
<1>2. /\ pc' = "off" /\ sync' = "idle" /\ batch' = <<>>
      /\ UNCHANGED <<tmp, nvsAcked, total, acked, kept, cloud, dropped>>
  BY DEF Crash, AppendTorn, disk, ram
<1>3. Valid(file)' = Valid(file) /\ (~exists' => file' = <<>>)
  <2>1. CASE Crash
    BY <2>1 DEF Crash, disk, Copied
  <2>2. CASE AppendTorn
    <3>1. Valid(Append(file, Torn)) = Valid(file)
      BY ValidAppend DEF DiskTyped, Cells
    <3>2. QED
      BY <2>2, <3>1 DEF AppendTorn
  <2>3. QED
    BY <2>1, <2>2
<1>4. Copied' /\ Sorted'
  BY <1>2, <1>3 DEF Copied, Sorted
<1>5. Counted'
  <2>1. CASE AppendTorn
    <3>1. faulted'
      BY <2>1, Zenon DEF AppendTorn
    <3>2. QED
      BY <3>1 DEF Counted
  <2>2. CASE Crash /\ pc \in MidSwap
    <3>1. faulted'
      BY <2>2, ExposingIs DEF Crash
    <3>2. QED
      BY <3>1 DEF Counted
  <2>3. CASE Crash /\ pc \notin MidSwap
    <3>1. pc \in Running \cup Starters /\ file' = file
      BY <2>3 DEF Crash, disk, MidSwap, Running, Starters, RestTyped, Pcs
    <3>2. faulted' = faulted
      BY <2>3, Zenon DEF Crash, damage
    <3>3. ~faulted => nvsAcked <= Len(Valid(file))
      BY <1>1, <3>1 DEF Counted
    <3>4. QED
      BY <1>2, <3>1, <3>2, <3>3 DEF Counted, Running, Starters
  <2>4. QED
    BY <2>1, <2>2, <2>3
<1>6. GoneUpTo(Valid(file), nvsAcked)'
  <2>1. CASE pc \in Running \cup Starters
    BY <1>0, <1>2, <1>3, <2>1 DEF Passed, GoneUpTo
  <2>2. CASE pc \in {"trimRename", "compactRename"}
    <3>1. Len(Valid(file)) = 0
      BY <2>2, EmptyFile DEF Copied
    <3>2. QED
      BY <1>2, <1>3, <3>1 DEF GoneUpTo
  <2>3. CASE pc = "compactCursor"
    <3>1. Crash /\ exposed' = exposed \cup (ToSet(Waiting) \ ToSet(Restarted))
      BY <2>3, ExposingIs DEF Crash, AppendTorn, CanAppend, MidSwap
    <3>2. Waiting = Drop(Valid(file), 0) /\ Restarted = Drop(Valid(file), nvsAcked)
      BY <2>3, WaitingIs DEF WaitingAt, Unacked, Copied
    <3>3. Waiting = Valid(file)
      BY <1>1, <3>2 DEF Drop
    <3>4. ASSUME NEW i \in 1 .. Len(Valid(file)), i <= nvsAcked
          PROVE  Valid(file)[i] \in Gone'
      <4>1. Valid(file)[i] \notin ToSet(Restarted)
        BY <1>1, <3>2, <3>4, NotAgain DEF Sorted
      <4>2. Valid(file)[i] \in ToSet(Waiting)
        BY <1>1, <3>3 DEF ToSet
      <4>3. QED
        BY <3>1, <4>1, <4>2 DEF Gone
    <3>5. QED
      BY <1>2, <1>3, <3>4 DEF GoneUpTo
  <2>4. QED
    BY <2>1, <2>2, <2>3 DEF RestTyped, Pcs, Running, Starters
<1>7. Passed'
  BY <1>2, <1>6 DEF Passed, Running, Starters
<1>8. QED
  BY <1>2, <1>3, <1>4, <1>5, <1>7, Idle

\* What a confirmation moves the cursor past has been confirmed.
LEMMA RetiredGone ==
  ASSUME Sizes, Sound, pc = "on", sync = "confirmed"
  PROVE  GoneUpTo(Valid(file), acked + Retired(Last(batch)))
<1> DEFINE n == Retired(Last(batch))
<1> /\ DiskTyped /\ RamTyped /\ RestTyped /\ Passed /\ InFlight
  BY DEF Sizes, Sound
<1>1. /\ Valid(file) \in Seq(Records) /\ Len(Valid(file)) \in Nat /\ acked \in Nat
      /\ Len(Unacked) = IF acked <= Len(Valid(file)) THEN Len(Valid(file)) - acked ELSE 0
      /\ \A i \in 1 .. Len(Unacked) : Unacked[i] = Valid(file)[acked + i]
  BY ValidIs, UnackedIs DEF DiskTyped, RamTyped
<1>2. n \in 0 .. Len(Unacked) /\ \A i \in 1 .. n : Covered(Unacked[i], Last(batch))
  BY RetiredIs DEF RamTyped
<1> HIDE DEF n
<1>3. \A i \in 1 .. n : Unacked[i] \in Gone
  BY <1>1, <1>2 DEF InFlight, Gone
<1>4. ASSUME NEW i \in 1 .. Len(Valid(file)), i <= acked + n
      PROVE  Valid(file)[i] \in Gone
  <2>1. CASE i <= acked
    BY <2>1 DEF Passed, Running, GoneUpTo
  <2>2. CASE i > acked
    <3>1. PICK j \in 1 .. n : acked + j = i
      <4>1. i - acked \in 1 .. n /\ acked + (i - acked) = i
        BY <1>1, <1>2, <1>4, <2>2
      <4>2. QED
        BY <4>1
    <3>2. Unacked[j] = Valid(file)[acked + j] /\ Unacked[j] \in Gone
      BY <1>1, <1>2, <1>3, <3>1
    <3>3. QED
      BY <3>1, <3>2
  <2>3. QED
    BY <1>1, <2>1, <2>2
<1>5. GoneUpTo(Valid(file), acked + n)
  BY <1>4 DEF GoneUpTo
<1>6. QED
  BY <1>5 DEF n

\* What a batch covers of the unconfirmed is the batch.
LEMMA PeekCovers ==
  ASSUME Sizes, Sound, Peek, NEW i \in 1 .. Len(Unacked),
         Covered(Unacked[i], Last(batch'))
  PROVE  Unacked[i] \in ToSet(batch')
<1> DEFINE n == Len(batch')
<1>1. /\ Unacked \in Seq(Records) /\ Len(Unacked) \in Nat /\ Ascending(Unacked)
  BY UnackedIs, UnackedAscends DEF Sizes, Sound, Sorted, RamTyped
<1>2. /\ n \in 1 .. Len(Unacked) /\ batch' \in Seq(Records)
      /\ \A j \in 1 .. n : batch'[j] = Unacked[j]
  BY PeekIs
<1>3. Last(batch') = Unacked[n]
  BY <1>2 DEF Last
<1> HIDE DEF n
<1>4. CASE i <= n
  <2>1. i \in 1 .. n
    BY <1>2, <1>4
  <2>2. batch'[i] = Unacked[i] /\ i \in DOMAIN batch'
    BY <1>2, <2>1 DEF n
  <2>3. QED
    BY <2>2 DEF ToSet
<1>5. CASE i > n
  <2>1. Before(Unacked[n], Unacked[i])
    BY <1>1, <1>2, <1>5 DEF Ascending
  <2>2. Unacked[n] \in Records /\ Unacked[i] \in Records
    BY <1>1, <1>2
  <2>3. QED
    BY <1>3, <2>1, <2>2, SpoolAssumption DEF Before, Covered, Records
<1>6. QED
  BY <1>1, <1>2, <1>4, <1>5

LEMMA UploadingSound ==
  ASSUME Sizes, Sound, Uploading \/ Confirmed \/ UploadFails
  PROVE  Counted' /\ Copied' /\ Sorted' /\ Passed' /\ InFlight'
<1> /\ DiskTyped /\ RamTyped /\ RestTyped
    /\ Counted /\ Copied /\ Sorted /\ Passed /\ InFlight
  BY DEF Sizes, Sound
<1>0. Gone \subseteq Gone'
  BY GoneGrows DEF Next
<1>1. /\ Valid(file) \in Seq(Records) /\ Len(Valid(file)) \in Nat
      /\ nvsAcked \in Nat /\ acked \in Nat /\ total \in Nat
  BY ValidIs DEF DiskTyped, RamTyped
<1>2. UNCHANGED history
  BY DEF Uploading, Peek, Ack, Confirmed, UploadFails
<1>3. faulted' = faulted /\ exposed' = exposed /\ dropped' = dropped
  BY <1>2, Zenon DEF history, damage
<1>4. CASE Peek
  <2>1. /\ pc = "on" /\ sync' = "sent" /\ batch' # <<>>
        /\ ToSet(batch') \subseteq ToSet(Unacked)
        /\ UNCHANGED <<file, exists, tmp, nvsAcked, pc, total, acked, kept, cloud>>
    BY <1>4, PeekIs DEF disk, ram
  <2>2. Unacked' = Unacked
    BY <2>1 DEF Unacked
  <2>3. InFlight'
    BY <1>3, <1>4, <2>1, <2>2, PeekCovers DEF InFlight
  <2>4. Counted' /\ Copied' /\ Sorted'
    BY <1>3, <2>1, <2>2 DEF Counted, Copied, CopyOf, Sorted
  <2>5. Passed'
    BY <1>0, <2>1 DEF Passed, GoneUpTo
  <2>6. QED
    BY <2>3, <2>4, <2>5
<1>5. CASE Confirmed \/ UploadFails
  <2>1. /\ cloud \subseteq cloud'
        /\ UNCHANGED <<file, exists, tmp, nvsAcked, pc, total, acked, kept>>
    BY <1>5 DEF Confirmed, UploadFails, disk, ram
  <2>2. Unacked' = Unacked
    BY <2>1 DEF Unacked
  <2>3. InFlight'
    <3>1. CASE Confirmed
      <4>1. sync = "sent" /\ sync' = "confirmed" /\ batch' = batch
            /\ cloud' = cloud \cup ToSet(batch)
        BY <3>1 DEF Confirmed
      <4>2. QED
        BY <1>3, <2>1, <2>2, <4>1 DEF InFlight
    <3>2. CASE UploadFails
      BY <3>2, Idle DEF UploadFails
    <3>3. QED
      BY <1>5, <3>1, <3>2
  <2>4. Counted' /\ Copied' /\ Sorted'
    BY <1>3, <2>1, <2>2 DEF Counted, Copied, CopyOf, Sorted
  <2>5. Passed'
    BY <1>0, <2>1 DEF Passed, GoneUpTo
  <2>6. QED
    BY <2>3, <2>4, <2>5
<1>6. CASE Ack
  <2>1. /\ pc = "on" /\ sync = "confirmed" /\ sync' = "idle" /\ batch' = <<>>
        /\ acked' = acked + Retired(Last(batch)) /\ nvsAcked' = acked'
        /\ pc' \in {"on", "compact"}
        /\ UNCHANGED <<file, exists, tmp, total, kept, cloud>>
    BY <1>6, AckIs
  <2>2. GoneUpTo(Valid(file), acked')
    BY <2>1, RetiredGone
  <2>3. acked' \in Nat
    BY <1>1, <2>1, UnackedIs, RetiredIs
  <2>4. Counted' /\ Copied' /\ Sorted'
    BY <1>1, <1>3, <2>1, <2>3 DEF Counted, Copied, Sorted, Running, Starters
  <2>5. Passed'
    BY <1>0, <2>1, <2>2 DEF Passed, GoneUpTo, Running, Starters
  <2>6. QED
    BY <2>1, <2>4, <2>5, Idle
<1>7. QED
  BY <1>4, <1>5, <1>6 DEF Uploading

\* Recording gives up the oldest it can read, if the spool counts as full, and
\* adds a new record, unless the filesystem is full.
LEMMA Recording ==
  ASSUME Sizes, Sound, AppendRecord
  PROVE  /\ Stamp \in Records /\ acked' \in Nat
         /\ ~faulted => acked' <= Len(Valid(file))
         /\ \/ UNCHANGED <<acked, dropped>>
            \/ /\ acked' = acked + 1
               /\ acked >= Len(Valid(file)) => UNCHANGED dropped
               /\ acked < Len(Valid(file)) => dropped' = dropped \cup {Valid(file)[acked + 1]}
         /\ \/ UNCHANGED <<file, exists, total, recorded, exposed>> /\ Valid(file)' = Valid(file)
            \/ /\ file' = Append(file, Stamp) /\ total' = total + 1
               /\ recorded' = recorded \cup {Stamp}
               /\ exposed' = IF faulted /\ Astray THEN exposed \cup {Stamp} ELSE exposed
               /\ Valid(file)' =
                    IF Untorn(file) THEN Append(Valid(file), Stamp) ELSE Valid(file)
<1> DiskTyped /\ RamTyped /\ Counted
  BY DEF Sizes, Sound
<1>1. /\ Valid(file) \in Seq(Records) /\ Len(Valid(file)) \in Nat
      /\ acked \in 0 .. total /\ acked \in Nat /\ total \in Nat
  BY ValidIs DEF DiskTyped, RamTyped
<1>2. pc = "on" /\ MakeRoom /\ CanAppend
  BY DEF AppendRecord, CanAppend
<1>3. Stamp \in Records
  BY <1>2, StampTyped
<1>4. ~faulted => total = Len(Valid(file))
  BY <1>2 DEF Counted, Running
<1> DEFINE Moved == /\ acked' = acked + 1
                    /\ acked >= Len(Valid(file)) => UNCHANGED dropped
                    /\ acked < Len(Valid(file)) => dropped' = dropped \cup {Valid(file)[acked + 1]}
<1>5. ASSUME total - acked >= MaxPending
      PROVE  UNCHANGED <<acked, dropped>> \/ (acked' <= total /\ Moved)
  <2>1. acked + 1 <= total
    BY <1>1, <1>5, SpoolAssumption
  <2>2. Unacked = <<>> <=> acked >= Len(Valid(file))
    <3>1. Unacked = <<>> <=> Len(Unacked) = 0
      BY UnackedIs, EmptyIs DEF RamTyped
    <3>2. QED
      BY <1>1, <3>1, UnackedIs
  <2>3. \/ UNCHANGED <<acked, dropped>>
        \/ /\ acked' = acked + 1
           /\ dropped' = dropped \cup (IF Unacked = <<>> THEN {} ELSE {Valid(file)[acked + 1]})
    BY <1>2, MakeRoomIs
  <2>4. ASSUME acked' = acked + 1,
               dropped' = dropped \cup (IF Unacked = <<>> THEN {} ELSE {Valid(file)[acked + 1]})
        PROVE  acked' <= total /\ Moved
    <3>1. acked >= Len(Valid(file)) => dropped' = dropped
      BY <2>2, <2>4
    <3>2. acked < Len(Valid(file)) => ~(acked >= Len(Valid(file)))
      BY <1>1
    <3>3. acked < Len(Valid(file)) => dropped' = dropped \cup {Valid(file)[acked + 1]}
      BY <2>2, <2>4, <3>2, Zenon
    <3>4. QED
      BY <2>1, <2>4, <3>1, <3>3
  <2>5. QED
    BY <2>3, <2>4
<1>6. ASSUME ~(total - acked >= MaxPending) PROVE UNCHANGED <<acked, dropped>>
  BY <1>2, <1>6 DEF MakeRoom
<1>7. UNCHANGED <<acked, dropped>> \/ (acked' <= total /\ Moved)
  BY <1>5, <1>6
<1>8. acked' \in Nat /\ (~faulted => acked' <= Len(Valid(file)))
  BY <1>1, <1>4, <1>7
<1>9. \/ UNCHANGED <<file, exists, total, recorded, exposed>>
      \/ /\ file' = Append(file, Stamp) /\ total' = total + 1
         /\ recorded' = recorded \cup {Stamp}
         /\ exposed' = IF faulted /\ Astray THEN exposed \cup {Stamp} ELSE exposed
  BY Zenon DEF AppendRecord
<1>10. Valid(Append(file, Stamp)) = IF Untorn(file) THEN Append(Valid(file), Stamp) ELSE Valid(file)
  <2>1. Stamp \in Cells /\ Stamp # Torn
    BY <1>3, TornAssumption DEF Cells
  <2>2. Untorn(file) => Valid(file) = file
    BY ValidWhole DEF DiskTyped
  <2>3. QED
    BY <2>1, <2>2, ValidAppend DEF DiskTyped
<1>11. \/ UNCHANGED <<file, exists, total, recorded, exposed>> /\ Valid(file)' = Valid(file)
       \/ /\ file' = Append(file, Stamp) /\ total' = total + 1
          /\ recorded' = recorded \cup {Stamp}
          /\ exposed' = IF faulted /\ Astray THEN exposed \cup {Stamp} ELSE exposed
          /\ Valid(file)' = IF Untorn(file) THEN Append(Valid(file), Stamp) ELSE Valid(file)
  BY <1>9, <1>10, Zenon
<1>12. UNCHANGED <<acked, dropped>> \/ Moved
  BY <1>7
<1>13. QED
  BY <1>3, <1>8, <1>11, <1>12, Zenon

\* The new stamp is later than anything else, so no batch covers it.
LEMMA StampIsLast ==
  ASSUME Sizes, exposed \subseteq Records, Issued, AppendRecord
  PROVE  /\ \A r \in Identities : Before(r, Stamp) /\ r # Stamp
         /\ \A r \in Identities : ~Covered(Stamp, r)
<1>1. \A r \in Identities : Before(r, Stamp)
  BY DEF Issued, Stamped, AppendRecord, CanAppend
<1>2. Identities \subseteq Records /\ Stamp \in Records
  <2>1. ToSet(file) \cup ToSet(tmp) \subseteq Cells /\ ToSet(batch) \subseteq Records
    BY ToSetIs DEF Sizes, DiskTyped, RestTyped
  <2>2. Stamp \in Records
    BY StampTyped DEF AppendRecord
  <2>3. QED
    BY <2>1, <2>2 DEF Identities, Gone, Cells, Sizes, RestTyped
<1>3. QED
  BY <1>1, <1>2, SpoolAssumption DEF Before, Covered, Records

\* What is waiting afterwards is what was, or the new record.
LEMMA StillUnacked ==
  ASSUME Sizes, Sound, AppendRecord
  PROVE  /\ \A i \in 1 .. Len(Unacked') : Unacked'[i] \in ToSet(Unacked) \cup {Stamp}
         /\ ToSet(Unacked) \subseteq ToSet(Unacked') \cup dropped'
<1> DiskTyped /\ RamTyped /\ DiskTyped'
  <2>1. Sizes'
    BY RecordingTyped
  <2>2. QED
    BY <2>1 DEF Sizes
<1> DEFINE V == Valid(file)
           W == Valid(file)'
<1>1. /\ V \in Seq(Records) /\ W \in Seq(Records) /\ Len(V) \in Nat /\ Len(W) \in Nat
      /\ acked \in Nat /\ acked' \in Nat
      /\ acked' = acked \/ acked' = acked + 1
      /\ acked' # acked /\ acked < Len(V) => V[acked + 1] \in dropped'
  <2>1. /\ V \in Seq(Records) /\ W \in Seq(Records) /\ Len(V) \in Nat /\ Len(W) \in Nat
    BY ValidIs DEF DiskTyped
  <2>2. acked \in Nat /\ acked' \in Nat
    BY Recording DEF RamTyped
  <2>3. \/ acked' = acked
        \/ acked' = acked + 1 /\ (acked < Len(V) => V[acked + 1] \in dropped')
    BY Recording
  <2>4. QED
    BY <2>1, <2>2, <2>3
<1>2. /\ Len(W) = Len(V) \/ (Len(W) = Len(V) + 1 /\ W[Len(V) + 1] = Stamp)
      /\ \A i \in 1 .. Len(V) : W[i] = V[i]
  <2>1. Stamp \in Records /\ (W = V \/ W = Append(V, Stamp))
    BY Recording
  <2>2. QED
    BY <1>1, <2>1
<1>3. /\ Unacked \in Seq(Records)
      /\ Len(Unacked) = IF acked <= Len(V) THEN Len(V) - acked ELSE 0
      /\ \A i \in 1 .. Len(Unacked) : Unacked[i] = V[acked + i]
  BY <1>1, UnackedIs
<1>4. /\ Unacked' \in Seq(Records)
      /\ Len(Unacked') = IF acked' <= Len(W) THEN Len(W) - acked' ELSE 0
      /\ \A i \in 1 .. Len(Unacked') : Unacked'[i] = W[acked' + i]
  <2>1. /\ Drop(W, acked') \in Seq(Records)
        /\ Len(Drop(W, acked')) = IF acked' <= Len(W) THEN Len(W) - acked' ELSE 0
        /\ \A i \in 1 .. Len(Drop(W, acked')) : Drop(W, acked')[i] = W[acked' + i]
    BY <1>1, DropIs
  <2>2. Unacked' = Drop(W, acked')
    BY DEF Unacked
  <2>3. QED
    BY <2>1, <2>2
<1>5. ToSet(Unacked) = {Unacked[i] : i \in 1 .. Len(Unacked)}
  BY <1>3, ToSetIs
<1>6. ToSet(Unacked') = {Unacked'[i] : i \in 1 .. Len(Unacked')}
  BY <1>4, ToSetIs
<1> HIDE DEF V, W
<1>7. ASSUME NEW i \in 1 .. Len(Unacked') PROVE Unacked'[i] \in ToSet(Unacked) \cup {Stamp}
  <2>1. Unacked'[i] = W[acked' + i] /\ acked' + i \in 1 .. Len(W)
    BY <1>1, <1>4, <1>7
  <2>2. CASE acked' + i <= Len(V)
    <3>1. acked' + i - acked \in 1 .. Len(Unacked) /\ acked + (acked' + i - acked) = acked' + i
      <4>1. acked' = acked \/ acked' = acked + 1
        BY <1>1
      <4>2. /\ i \in Nat /\ i >= 1 /\ acked \in Nat /\ Len(V) \in Nat /\ acked' \in Nat
            /\ acked' >= acked
        BY <1>1, <1>4, <1>7, <4>1
      <4>3. Len(Unacked) = Len(V) - acked
        BY <1>3, <2>2, <4>2
      <4>4. \A a, b, k, v \in Nat : b >= a /\ k >= 1 /\ b + k <= v =>
               b + k - a \in 1 .. v - a /\ a + (b + k - a) = b + k
        OBVIOUS
      <4>5. acked' + i - acked \in 1 .. Len(V) - acked /\ acked + (acked' + i - acked) = acked' + i
        BY <2>2, <4>2, <4>4, Zenon
      <4>6. QED
        BY <4>3, <4>5, Zenon
    <3>2. W[acked' + i] = V[acked' + i]
      BY <1>1, <1>2, <2>1, <2>2
    <3>3. Unacked[acked' + i - acked] = V[acked' + i]
      BY <1>3, <3>1
    <3>4. QED
      BY <1>5, <2>1, <3>1, <3>2, <3>3
  <2>3. CASE acked' + i > Len(V)
    BY <1>1, <1>2, <2>1, <2>3
  <2>4. QED
    BY <1>1, <1>7, <2>2, <2>3
<1>8. ASSUME NEW i \in 1 .. Len(Unacked) PROVE Unacked[i] \in ToSet(Unacked') \cup dropped'
  <2>1. Unacked[i] = V[acked + i] /\ acked + i \in 1 .. Len(V)
    BY <1>1, <1>3, <1>8
  <2>2. CASE acked + i > acked'
    <3>1. acked + i - acked' \in 1 .. Len(Unacked') /\ acked' + (acked + i - acked') = acked + i
      <4>1. Len(V) <= Len(W) /\ i \in Nat
        BY <1>1, <1>2, <1>3
      <4>2. acked' <= Len(W)
        BY <1>1, <2>1, <2>2, <4>1
      <4>3. Len(Unacked') = Len(W) - acked'
        BY <1>4, <4>2
      <4>4. /\ acked \in Nat /\ i \in Nat /\ acked + i <= Len(V)
            /\ acked' \in Nat /\ Len(V) \in Nat /\ Len(W) \in Nat
        BY <1>1, <2>1, <4>1
      <4>5. \A a, b, k, v, w \in Nat : a + k <= v /\ v <= w /\ a + k > b =>
               a + k - b \in 1 .. w - b /\ b + (a + k - b) = a + k
        OBVIOUS
      <4>6. acked + i - acked' \in 1 .. Len(W) - acked' /\ acked' + (acked + i - acked') = acked + i
        BY <2>2, <4>1, <4>4, <4>5, Zenon
      <4>7. QED
        BY <4>3, <4>6, Zenon
    <3>2. Unacked'[acked + i - acked'] = W[acked + i] /\ W[acked + i] = V[acked + i]
      BY <1>2, <1>4, <2>1, <3>1
    <3>3. QED
      BY <1>6, <2>1, <3>1, <3>2
  <2>3. CASE ~(acked + i > acked')
    <3>1. i = 1 /\ acked' = acked + 1 /\ acked < Len(V)
      BY <1>1, <1>3, <1>8, <2>1, <2>3
    <3>2. QED
      BY <1>1, <2>1, <3>1
  <2>4. QED
    BY <2>2, <2>3
<1>9. QED
  BY <1>5, <1>7, <1>8

LEMMA RecordingSound ==
  ASSUME Sizes, Sound, exposed \subseteq Records, AppendRecord
  PROVE  Counted' /\ Copied' /\ Sorted' /\ Passed' /\ InFlight'
<1> /\ DiskTyped /\ RamTyped /\ RestTyped
    /\ Counted /\ Copied /\ Issued /\ Sorted /\ Passed /\ InFlight
  BY DEF Sizes, Sound
<1>0. Gone \subseteq Gone'
  BY GoneGrows DEF Next
<1>1. /\ Valid(file) \in Seq(Records) /\ Len(Valid(file)) \in Nat
      /\ nvsAcked \in Nat /\ acked \in 0 .. total /\ acked \in Nat /\ total \in Nat
  BY ValidIs DEF DiskTyped, RamTyped
<1>2. /\ pc = "on"
      /\ UNCHANGED <<tmp, nvsAcked, pc, kept, sync, batch, cloud>>
  BY DEF AppendRecord, CanAppend, upload
<1>3. faulted' = faulted
  BY Zenon DEF AppendRecord
<1>4. ~faulted => /\ Untorn(file) /\ total = Len(Valid(file)) /\ nvsAcked <= acked
                  /\ Valid(file) = file
  BY <1>2, ValidWhole DEF Counted, Running, DiskTyped
<1>5. ToSet(Valid(file)) \cup Gone \cup ToSet(batch) \subseteq Identities
  <2>1. Torn \notin ToSet(Valid(file)) /\ Torn \notin Gone /\ Torn \notin ToSet(batch)
    BY <1>1, TornAssumption, ToSetIs DEF RestTyped, Gone
  <2>2. QED
    BY <1>1, <2>1, ReadFromFile DEF Identities
<1>6. acked' \in Nat /\ (acked' = acked \/ acked' = acked + 1)
  BY Recording
<1>7. Counted'
  <2>1. ASSUME ~faulted
        PROVE  Untorn(file') /\ total' = Len(Valid(file)') /\ nvsAcked' <= acked'
    <3>1. nvsAcked' <= acked'
      BY <1>1, <1>2, <1>4, <1>6, <2>1
    <3>2. CASE file' = file /\ total' = total /\ Valid(file)' = Valid(file)
      BY <1>4, <2>1, <3>1, <3>2
    <3>3. CASE file' = Append(file, Stamp) /\ total' = total + 1
               /\ Valid(file)' = Append(Valid(file), Stamp)
      <4>1. Stamp \in Records /\ Stamp # Torn
        BY Recording, TornAssumption
      <4>2. Untorn(file')
        BY <1>4, <2>1, <3>3, <4>1 DEF DiskTyped, Untorn
      <4>3. Len(Valid(file)') = Len(Valid(file)) + 1
        BY <1>1, <3>3, <4>1
      <4>4. QED
        BY <1>4, <2>1, <3>1, <3>3, <4>2, <4>3
    <3>4. QED
      BY <1>4, <2>1, <3>2, <3>3, Recording
  <2>2. QED
    BY <1>2, <1>3, <2>1 DEF Counted, Running, Starters
<1>8. Copied'
  <2>1. ~exists' => file' = <<>>
    BY DEF AppendRecord, Copied
  <2>2. QED
    BY <1>2, <2>1 DEF Copied
<1>9. Sorted'
  <2>1. \A i \in 1 .. Len(Valid(file)) : Before(Valid(file)[i], Stamp)
    BY <1>1, <1>5, StampIsLast, ToSetIs
  <2>2. Ascending(Append(Valid(file), Stamp))
    <3>1. /\ Len(Append(Valid(file), Stamp)) = Len(Valid(file)) + 1
          /\ Append(Valid(file), Stamp)[Len(Valid(file)) + 1] = Stamp
          /\ \A i \in 1 .. Len(Valid(file)) :
               Append(Valid(file), Stamp)[i] = Valid(file)[i]
      BY <1>1, Recording
    <3>2. QED
      BY <1>1, <2>1, <3>1 DEF Sorted, Ascending
  <2>3. QED
    BY <1>2, <2>2, Recording DEF Sorted
<1>10. Passed'
  <2>1. \A i \in 1 .. Len(Valid(file)) : Valid(file)'[i] = Valid(file)[i]
    BY <1>1, Recording
  <2>2. GoneUpTo(Valid(file), acked) /\ GoneUpTo(Valid(file), nvsAcked)
    BY <1>2 DEF Passed, Running
  <2>3. ASSUME NEW i \in 1 .. Len(Valid(file)'), i <= acked' \/ i <= nvsAcked
        PROVE  Valid(file)'[i] \in Gone'
    <3>1. CASE i <= Len(Valid(file))
      <4>1. i \in 1 .. Len(Valid(file)) /\ Valid(file)'[i] = Valid(file)[i]
        BY <1>1, <2>1, <3>1
      <4>2. CASE i <= acked \/ i <= nvsAcked
        BY <1>0, <2>2, <4>1, <4>2 DEF GoneUpTo
      <4>3. CASE ~(i <= acked \/ i <= nvsAcked)
        <5>1. i = acked + 1 /\ acked' # acked /\ acked < Len(Valid(file))
          BY <1>1, <1>6, <2>3, <4>1, <4>3
        <5>2. Valid(file)[i] \in dropped'
          BY <5>1, Recording
        <5>3. QED
          BY <4>1, <5>2 DEF Gone
      <4>4. QED
        BY <4>2, <4>3
    <3>2. CASE ~(i <= Len(Valid(file)))
      <4>1. /\ file' = Append(file, Stamp) /\ Valid(file)' = Append(Valid(file), Stamp)
            /\ Untorn(file) /\ Stamp \in Records
            /\ exposed' = IF faulted /\ Astray THEN exposed \cup {Stamp} ELSE exposed
        BY <1>1, <2>3, <3>2, Recording
      <4>2. /\ Valid(file) = file /\ Len(Valid(file)') = Len(Valid(file)) + 1
            /\ Valid(file)'[Len(Valid(file)) + 1] = Stamp
        BY <1>1, <4>1, ValidWhole DEF DiskTyped
      <4>3. i = Len(file) + 1 /\ Valid(file)'[i] = Stamp
        BY <1>1, <2>3, <3>2, <4>2
      <4>4. Len(file) < acked' \/ Len(file) < nvsAcked
        BY <1>1, <1>6, <2>3, <4>2, <4>3
      <4>5. Astray
        BY <4>4 DEF Astray
      <4>6. faulted
        <5>1. ~faulted => acked' <= Len(file) /\ nvsAcked <= Len(file)
          BY <1>1, <1>4, <4>2, Recording
        <5>2. QED
          BY <1>1, <1>6, <4>2, <4>4, <5>1
      <4>7. exposed' = exposed \cup {Stamp}
        BY <4>1, <4>5, <4>6, Zenon
      <4>8. QED
        BY <4>3, <4>7 DEF Gone
    <3>3. QED
      BY <3>1, <3>2
  <2>4. QED
    BY <1>2, <2>3 DEF Passed, GoneUpTo, Running, Starters
<1>11. InFlight'
  <2>1. ASSUME sync # "idle", NEW i \in 1 .. Len(Unacked'), Covered(Unacked'[i], Last(batch))
        PROVE  Unacked'[i] \in ToSet(batch)
    <3>1. Last(batch) \in Identities
      <4>1. Len(batch) \in 1 .. Len(batch)
        BY <2>1, EmptyIs DEF InFlight, RestTyped
      <4>2. Last(batch) \in ToSet(batch)
        BY <4>1 DEF Last, ToSet, RestTyped
      <4>3. QED
        BY <1>5, <4>2
    <3>2. Unacked'[i] # Stamp
      BY <2>1, <3>1, StampIsLast
    <3>3. PICK j \in 1 .. Len(Unacked) : Unacked[j] = Unacked'[i]
      <4>1. Unacked'[i] \in ToSet(Unacked)
        BY <3>2, StillUnacked
      <4>2. ToSet(Unacked) = {Unacked[j] : j \in 1 .. Len(Unacked)}
        BY <1>1, UnackedIs, ToSetIs
      <4>3. QED
        BY <4>1, <4>2
    <3>4. QED
      BY <2>1, <3>3 DEF InFlight
  <2>2. sync = "sent" => ToSet(batch) \subseteq ToSet(Unacked') \cup dropped'
    <3>1. dropped \subseteq dropped'
      <4>1. acked >= Len(Valid(file)) \/ acked < Len(Valid(file))
        BY <1>1
      <4>2. QED
        BY <4>1, Recording
    <3>2. QED
      BY <3>1, StillUnacked DEF InFlight
  <2>3. QED
    BY <1>2, <2>1, <2>2 DEF InFlight
<1>12. QED
  BY <1>7, <1>8, <1>9, <1>10, <1>11

(* What every theorem below rests on.                                      *)
Kept == FlagsTyped /\ Sizes /\ Sound /\ exposed \subseteq Records

LEMMA KeptStep == Kept /\ [Next]_vars => Kept'
<1> SUFFICES ASSUME Kept, [Next]_vars PROVE Kept'
  OBVIOUS
<1> Sizes /\ Sound /\ exposed \subseteq Records
  BY DEF Kept
<1>1. Issued'
  BY IssuedStep DEF Sound
<1>2. FlagsTyped' /\ Sizes' /\ (exposed \subseteq Records)'
  BY FlagsStep, SizesStep, ExposedTyped DEF Kept
<1>3. CASE UNCHANGED vars
  <2>1. UNCHANGED <<file, exists, tmp, nvsAcked, pc, total, acked, kept, sync, batch, cloud,
                    dropped, exposed>>
    BY <1>3 DEF vars, disk, ram, upload, history, damage
  <2>2. Unacked' = Unacked
    BY <2>1 DEF Unacked
  <2>3. faulted' = faulted
    BY <1>3, Zenon DEF vars, history, damage
  <2>4. Counted' /\ Copied' /\ Sorted' /\ Passed' /\ InFlight'
    BY <2>1, <2>2, <2>3
       DEF Sound, Counted, Copied, CopyOf, Sorted, Passed, GoneUpTo, Gone, InFlight
  <2>5. QED
    BY <1>1, <1>2, <2>4 DEF Kept, Sound
<1>4. CASE Next
  <2>1. Counted' /\ Copied' /\ Sorted' /\ Passed' /\ InFlight'
    BY <1>4, StartingSound, CompactingSound, RestartSound, UploadingSound, RecordingSound
       DEF Next
  <2>2. QED
    BY <1>1, <1>2, <2>1 DEF Kept, Sound
<1>5. QED
  BY <1>3, <1>4

LEMMA InitiallyKept == Init => Kept
  BY InitiallyTyped, InitiallySound DEF Kept

-----------------------------------------------------------------------------
(* Neither cursor ever passes what the cloud does not hold.                *)

(* Neither the cursor in RAM nor the one in flash passes a readable record *)
(* that is neither with the cloud, nor given up by a full spool, nor among *)
(* those a fault may have cost: across restarts anywhere, halves left by   *)
(* torn writes, rewrites of the file, failed renames and copies cut short. *)
THEOREM CursorsAreCovered == Spec => []CursorsCovered
<1>1. Kept => CursorsCovered
  <2> SUFFICES ASSUME Kept, NEW i \in 1 .. Len(Valid(file))
               PROVE  /\ pc = "on" /\ i <= acked => file[i] \in Gone
                      /\ pc = "off" /\ exists /\ i <= nvsAcked => file[i] \in Gone
    BY DEF CursorsCovered, Gone
  <2>1. Valid(file)[i] = file[i]
    BY ValidIs DEF Kept, Sizes, DiskTyped
  <2>2. /\ pc = "on" => GoneUpTo(Valid(file), acked)
        /\ pc = "off" => GoneUpTo(Valid(file), nvsAcked)
    BY DEF Kept, Sound, Passed, Running, Starters
  <2>3. QED
    BY <2>1, <2>2 DEF GoneUpTo
<1>2. QED
  BY <1>1, InitiallyKept, KeptStep, PTL DEF Spec

LEMMA DropOf ==
  ASSUME NEW S, NEW s \in Seq(S), NEW a \in 0 .. Len(s)
  PROVE  /\ Drop(s, 0) = s
         /\ \A n \in Nat : a + n <= Len(s) => Drop(Drop(s, a), n) = Drop(s, a + n)
         /\ \A x \in S : Drop(Append(s, x), a) = Append(Drop(s, a), x)
         /\ a < Len(s) => /\ Drop(s, a) # <<>> /\ Head(Drop(s, a)) = s[a + 1]
                          /\ Drop(s, a + 1) = Tail(Drop(s, a))
<1>1. Drop(s, 0) = s
  BY DEF Drop
<1>2. ASSUME NEW n \in Nat, a + n <= Len(s) PROVE Drop(Drop(s, a), n) = Drop(s, a + n)
  <2> DEFINE d == Drop(s, a)
             e == Drop(d, n)
             f == Drop(s, a + n)
  <2>1. /\ d \in Seq(S) /\ Len(d) = Len(s) - a
        /\ \A i \in 1 .. Len(d) : d[i] = s[a + i]
    BY DropIs
  <2> HIDE DEF d
  <2>2. /\ e \in Seq(S) /\ Len(e) = Len(d) - n
        /\ \A i \in 1 .. Len(e) : e[i] = d[n + i]
    <3>1. d \in Seq(S) /\ n \in Nat /\ n <= Len(d)
      BY <1>2, <2>1
    <3>2. /\ e \in Seq(S) /\ Len(e) = IF n <= Len(d) THEN Len(d) - n ELSE 0
          /\ \A i \in 1 .. Len(e) : e[i] = d[n + i]
      BY <3>1, DropIs, Zenon
    <3>3. QED
      BY <3>1, <3>2
  <2>3. /\ f \in Seq(S) /\ Len(f) = Len(s) - (a + n)
        /\ \A i \in 1 .. Len(f) : f[i] = s[a + n + i]
    BY <1>2, DropIs
  <2> HIDE DEF e, f
  <2>4. Len(e) = Len(f) /\ \A i \in 1 .. Len(e) : e[i] = f[i]
    <3>1. Len(e) = Len(f) /\ Len(e) = Len(s) - a - n
      BY <1>2, <2>1, <2>2, <2>3
    <3>2. ASSUME NEW i \in 1 .. Len(e) PROVE e[i] = f[i]
      <4>1. n + i \in 1 .. Len(d) /\ a + (n + i) = a + n + i
        BY <1>2, <2>1, <3>1
      <4>2. e[i] = d[n + i] /\ d[n + i] = s[a + (n + i)] /\ f[i] = s[a + n + i]
        BY <2>1, <2>2, <2>3, <3>1, <4>1
      <4>3. QED
        BY <4>1, <4>2
    <3>3. QED
      BY <3>1, <3>2
  <2>5. e = f
    BY <2>2, <2>3, <2>4, SeqEqual
  <2>6. QED
    BY <2>5 DEF d, e, f
<1>3. ASSUME NEW x \in S PROVE Drop(Append(s, x), a) = Append(Drop(s, a), x)
  <2> DEFINE t == Append(s, x)
             d == Drop(s, a)
             e == Drop(t, a)
             f == Append(d, x)
  <2>1. /\ t \in Seq(S) /\ Len(t) = Len(s) + 1 /\ t[Len(s) + 1] = x
        /\ \A i \in 1 .. Len(s) : t[i] = s[i]
    OBVIOUS
  <2>2. /\ d \in Seq(S) /\ Len(d) = Len(s) - a
        /\ \A i \in 1 .. Len(d) : d[i] = s[a + i]
    BY DropIs
  <2> HIDE DEF t, d
  <2>3. /\ e \in Seq(S) /\ Len(e) = Len(t) - a
        /\ \A i \in 1 .. Len(e) : e[i] = t[a + i]
    <3>1. t \in Seq(S) /\ a \in Nat /\ a <= Len(t)
      BY <2>1
    <3>2. /\ e \in Seq(S) /\ Len(e) = IF a <= Len(t) THEN Len(t) - a ELSE 0
          /\ \A i \in 1 .. Len(e) : e[i] = t[a + i]
      BY <3>1, DropIs, Zenon
    <3>3. QED
      BY <3>1, <3>2
  <2>4. /\ f \in Seq(S) /\ Len(f) = Len(d) + 1 /\ f[Len(d) + 1] = x
        /\ \A i \in 1 .. Len(d) : f[i] = d[i]
    BY <2>2
  <2> HIDE DEF e, f
  <2>5. Len(e) = Len(f) /\ Len(e) = Len(s) - a + 1
    BY <2>1, <2>2, <2>3, <2>4
  <2>6. ASSUME NEW i \in 1 .. Len(e) PROVE e[i] = f[i]
    <3>1. e[i] = t[a + i]
      BY <2>3
    <3>2. CASE i <= Len(d)
      <4>1. i \in 1 .. Len(d) /\ a + i \in 1 .. Len(s)
        BY <2>2, <3>2
      <4>2. QED
        BY <2>1, <2>2, <2>4, <3>1, <4>1
    <3>3. CASE ~(i <= Len(d))
      <4>1. i = Len(d) + 1 /\ a + i = Len(s) + 1
        BY <2>2, <2>5, <3>3
      <4>2. QED
        BY <2>1, <2>4, <3>1, <4>1
    <3>4. QED
      BY <3>2, <3>3
  <2>7. e = f
    BY <2>3, <2>4, <2>5, <2>6, SeqEqual
  <2>8. QED
    BY <2>7 DEF t, d, e, f
<1>4. ASSUME a < Len(s)
      PROVE  /\ Drop(s, a) # <<>> /\ Head(Drop(s, a)) = s[a + 1]
             /\ Drop(s, a + 1) = Tail(Drop(s, a))
  <2>1. /\ Drop(s, a) \in Seq(S) /\ Len(Drop(s, a)) = Len(s) - a
        /\ \A i \in 1 .. Len(Drop(s, a)) : Drop(s, a)[i] = s[a + i]
    BY DropIs
  <2>2. Drop(s, a) # <<>>
    BY <1>4, <2>1, EmptyIs
  <2>3. Head(Drop(s, a)) = s[a + 1]
    BY <1>4, <2>1, <2>2
  <2>4. Drop(s, a + 1) = Tail(Drop(s, a))
    BY <1>4 DEF Drop
  <2>5. QED
    BY <2>2, <2>3, <2>4
<1>5. QED
  BY <1>1, <1>2, <1>3, <1>4

\* A record appended is appended to what waits.
LEMMA DropAppend ==
  ASSUME NEW s \in Seq(Records), NEW r \in Records
  PROVE  \A a \in 0 .. Len(s) : Drop(Append(s, r), a) = Append(Drop(s, a), r)
<1> SUFFICES ASSUME NEW a \in 0 .. Len(s)
             PROVE  Drop(Append(s, r), a) = Append(Drop(s, a), r)
  OBVIOUS
<1> QED
  BY DropOf

\* What a suffix and a prefix hold.
LEMMA PartsHold ==
  ASSUME NEW S, NEW s \in Seq(S), NEW a \in Nat
  PROVE  /\ ToSet(Drop(s, a)) = {s[i] : i \in {j \in 1 .. Len(s) : j > a}}
         /\ a <= Len(s) => ToSet(SubSeq(s, 1, a)) = {s[i] : i \in 1 .. a}
<1> DEFINE d == Drop(s, a)
<1>1. /\ d \in Seq(S) /\ Len(d) = IF a <= Len(s) THEN Len(s) - a ELSE 0
      /\ \A i \in 1 .. Len(d) : d[i] = s[a + i]
  BY DropIs
<1> HIDE DEF d
<1>2. ToSet(d) = {d[i] : i \in 1 .. Len(d)}
  BY <1>1, ToSetIs
<1>3. ASSUME NEW i \in 1 .. Len(d) PROVE d[i] \in {s[j] : j \in {k \in 1 .. Len(s) : k > a}}
  <2>1. a + i \in {k \in 1 .. Len(s) : k > a}
    BY <1>1
  <2>2. QED
    BY <1>1, <2>1
<1>4. ASSUME NEW j \in 1 .. Len(s), j > a PROVE s[j] \in ToSet(d)
  <2>1. j - a \in 1 .. Len(d) /\ a + (j - a) = j
    BY <1>1, <1>4
  <2>2. d[j - a] = s[j]
    BY <1>1, <2>1
  <2>3. QED
    BY <1>2, <2>1, <2>2
<1>5. ToSet(d) = {s[i] : i \in {j \in 1 .. Len(s) : j > a}}
  BY <1>2, <1>3, <1>4
<1>6. ASSUME a <= Len(s) PROVE ToSet(SubSeq(s, 1, a)) = {s[i] : i \in 1 .. a}
  <2> DEFINE p == SubSeq(s, 1, a)
  <2>1. p \in Seq(S) /\ Len(p) = a /\ \A i \in 1 .. a : p[i] = s[i]
    BY <1>6, PrefixIs
  <2> HIDE DEF p
  <2>2. ToSet(p) = {p[i] : i \in 1 .. Len(p)}
    BY <2>1, ToSetIs
  <2>3. ToSet(p) = {s[i] : i \in 1 .. a}
    BY <2>1, <2>2
  <2>4. QED
    BY <2>3 DEF p
<1>7. QED
  BY <1>5, <1>6 DEF d

LEMMA PartsCover ==
  ASSUME NEW S, NEW s \in Seq(S), NEW n \in 0 .. Len(s)
  PROVE  ToSet(s) = ToSet(SubSeq(s, 1, n)) \cup ToSet(Drop(s, n))
<1>1. ToSet(s) = {s[i] : i \in 1 .. Len(s)}
  BY ToSetIs
<1>2. /\ ToSet(SubSeq(s, 1, n)) = {s[i] : i \in 1 .. n}
      /\ ToSet(Drop(s, n)) = {s[i] : i \in {j \in 1 .. Len(s) : j > n}}
  BY PartsHold
<1>3. \A i \in 1 .. Len(s) : i \in 1 .. n \/ i \in {j \in 1 .. Len(s) : j > n}
  OBVIOUS
<1>4. \A i \in 1 .. n : i \in 1 .. Len(s)
  OBVIOUS
<1>5. QED
  BY <1>1, <1>2, <1>3, <1>4

\* What a further cursor leaves is a suffix of what a nearer one leaves.
LEMMA DropFurther ==
  ASSUME NEW S, NEW s \in Seq(S), NEW a \in Nat, NEW b \in Nat, a <= b
  PROVE  \E n \in 0 .. Len(Drop(s, a)) :
           /\ Drop(s, b) = Drop(Drop(s, a), n)
           /\ \A i \in 1 .. n : \E j \in 1 .. Len(s) : j <= b /\ Drop(s, a)[i] = s[j]
<1> DEFINE d == Drop(s, a)
<1>1. /\ d \in Seq(S) /\ Len(d) = IF a <= Len(s) THEN Len(s) - a ELSE 0
      /\ \A i \in 1 .. Len(d) : d[i] = s[a + i]
  BY DropIs
<1>2. ASSUME NEW n \in 0 .. Len(d), a + n <= b, Drop(s, b) = Drop(d, n)
      PROVE  \E m \in 0 .. Len(d) :
               /\ Drop(s, b) = Drop(d, m)
               /\ \A i \in 1 .. m : \E j \in 1 .. Len(s) : j <= b /\ d[i] = s[j]
  <2> HIDE DEF d
  <2>1. ASSUME NEW i \in 1 .. n PROVE \E j \in 1 .. Len(s) : j <= b /\ d[i] = s[j]
    <3>1. i \in 1 .. Len(d) /\ a + i \in 1 .. Len(s) /\ a + i <= b
      BY <1>1, <1>2
    <3>2. QED
      BY <1>1, <3>1
  <2>2. QED
    BY <1>2, <2>1
<1>3. CASE b <= Len(s)
  <2>1. b - a \in Nat /\ a + (b - a) = b /\ a \in 0 .. Len(s) /\ b - a \in 0 .. Len(d)
    BY <1>1, <1>3
  <2>2. Drop(d, b - a) = Drop(s, b)
    BY <1>3, <2>1, DropOf
  <2>3. QED
    BY <1>2, <2>1, <2>2
<1>4. CASE ~(b <= Len(s))
  <2>1. Drop(s, b) = <<>>
    <3>1. Drop(s, b) \in Seq(S) /\ Len(Drop(s, b)) = 0
      BY <1>4, DropIs
    <3>2. QED
      BY <3>1, EmptyIs
  <2>2. Drop(d, Len(d)) = <<>> /\ Len(d) \in 0 .. Len(d)
    <3>1. Len(d) \in Nat
      BY <1>1
    <3> HIDE DEF d
    <3>2. Drop(d, Len(d)) \in Seq(S) /\ Len(Drop(d, Len(d))) = 0
      BY <1>1, <3>1, DropIs
    <3>3. QED
      BY <3>1, <3>2, EmptyIs
  <2>3. a + Len(d) <= b
    BY <1>1, <1>4
  <2>4. QED
    BY <1>2, <2>1, <2>2, <2>3
<1>5. QED
  BY <1>2, <1>3, <1>4

\* What a copy cut short leaves behind the cursor is a prefix of what was there.
LEMMA DropShort ==
  ASSUME NEW S, NEW s \in Seq(S), NEW k \in 0 .. Len(s), NEW a \in Nat
  PROVE  \E n \in 0 .. Len(Drop(s, a)) :
           /\ Drop(SubSeq(s, 1, k), a) = SubSeq(Drop(s, a), 1, n)
           /\ ToSet(Drop(Drop(s, a), n)) \subseteq ToSet(Drop(s, k))
<1> DEFINE d == Drop(s, a)
           p == SubSeq(s, 1, k)
           e == Drop(p, a)
           n == Len(e)
           f == SubSeq(d, 1, n)
<1>1. /\ d \in Seq(S) /\ Len(d) = IF a <= Len(s) THEN Len(s) - a ELSE 0
      /\ \A i \in 1 .. Len(d) : d[i] = s[a + i]
  BY DropIs
<1>2. p \in Seq(S) /\ Len(p) = k /\ \A i \in 1 .. k : p[i] = s[i]
  BY PrefixIs
<1> HIDE DEF p, d
<1>3. /\ e \in Seq(S) /\ Len(e) = IF a <= Len(p) THEN Len(p) - a ELSE 0
      /\ \A i \in 1 .. Len(e) : e[i] = p[a + i]
  BY <1>2, DropIs
<1> HIDE DEF e
<1>4. n \in 0 .. Len(d)
  BY <1>1, <1>2, <1>3
<1>5. f \in Seq(S) /\ Len(f) = n /\ \A i \in 1 .. n : f[i] = d[i]
  BY <1>1, <1>4, PrefixIs
<1>6. e = f
  <2> HIDE DEF f
  <2>1. ASSUME NEW i \in 1 .. Len(e) PROVE e[i] = f[i]
    <3>1. a + i \in 1 .. k /\ i \in 1 .. Len(d) /\ i \in 1 .. n
      BY <1>2, <1>3, <1>4
    <3>2. e[i] = p[a + i] /\ p[a + i] = s[a + i] /\ d[i] = s[a + i] /\ f[i] = d[i]
      BY <1>1, <1>2, <1>3, <1>5, <3>1
    <3>3. QED
      BY <3>2
  <2>2. QED
    BY <1>3, <1>5, <2>1, SeqEqual
<1>7. ToSet(Drop(d, n)) \subseteq ToSet(Drop(s, k))
  <2>1. /\ ToSet(Drop(d, n)) = {d[i] : i \in {j \in 1 .. Len(d) : j > n}}
        /\ ToSet(Drop(s, k)) = {s[i] : i \in {j \in 1 .. Len(s) : j > k}}
    <3>1. n \in Nat /\ k \in Nat
      BY <1>3
    <3>2. ToSet(Drop(s, k)) = {s[i] : i \in {j \in 1 .. Len(s) : j > k}}
      BY <3>1, PartsHold
    <3>3. ASSUME NEW m \in Nat
          PROVE  ToSet(Drop(d, m)) = {d[i] : i \in {j \in 1 .. Len(d) : j > m}}
      BY <1>1, PartsHold
    <3>4. QED
      BY <3>1, <3>2, <3>3
  <2>2. ASSUME NEW i \in 1 .. Len(d), i > n PROVE d[i] \in ToSet(Drop(s, k))
    <3>1. a + i \in 1 .. Len(s) /\ a + i > k
      BY <1>1, <1>2, <1>3, <2>2
    <3>2. d[i] = s[a + i]
      BY <1>1
    <3>3. QED
      BY <2>1, <3>1, <3>2
  <2>3. QED
    BY <2>1, <2>2
<1>8. QED
  BY <1>4, <1>6, <1>7 DEF d, e, p

\* Beyond a cursor that has passed only what is gone, all else is still there.
LEMMA DropGone ==
  ASSUME NEW S, NEW s \in Seq(S), NEW k \in Nat, NEW a \in Nat, GoneUpTo(s, a)
  PROVE  ToSet(Drop(s, k)) \subseteq Gone \cup ToSet(Drop(s, a))
<1>1. /\ ToSet(Drop(s, k)) = {s[i] : i \in {j \in 1 .. Len(s) : j > k}}
      /\ ToSet(Drop(s, a)) = {s[i] : i \in {j \in 1 .. Len(s) : j > a}}
  BY PartsHold
<1>2. ASSUME NEW i \in 1 .. Len(s) PROVE s[i] \in Gone \cup ToSet(Drop(s, a))
  <2>1. CASE i <= a
    BY <2>1 DEF GoneUpTo
  <2>2. CASE i > a
    BY <1>1, <2>2
  <2>3. QED
    BY <2>1, <2>2
<1>3. QED
  BY <1>1, <1>2

-----------------------------------------------------------------------------
(* EventLog implements EventSpool.  First, what the steps of EventSpool    *)
(* are, said of the records waiting here.                                  *)

SpoolStep == Spool!Next \/ UNCHANGED <<Waiting, cloud, dropped, exposed, faulted>>

LEMMA SpoolSet == \A s : Spool!ToSet(s) = ToSet(s)
  BY DEF Spool!ToSet, ToSet

LEMMA SpoolGone == Spool!Gone = Gone /\ (Spool!Gone)' = Gone'
  BY DEF Spool!Gone, Gone

LEMMA SpoolRecords ==
  ASSUME NEW e \in Records, e \notin ToSet(Waiting) \cup Gone,
         UNCHANGED <<cloud, faulted>>,
         exposed' = exposed \/ (faulted /\ exposed' = exposed \cup {e}),
         \/ /\ Waiting' = Append(Waiting, e) /\ dropped' = dropped
         \/ /\ Waiting # <<>> /\ Waiting' = Append(Tail(Waiting), e)
            /\ dropped' = dropped \cup {Head(Waiting)}
  PROVE  SpoolStep
<1>1. e \notin Spool!ToSet(Waiting) \cup Spool!Gone
  BY SpoolSet, SpoolGone
<1>2. exposed' \in IF faulted THEN {exposed, exposed \cup {e}} ELSE {exposed}
  <2>1. CASE faulted
    BY <2>1
  <2>2. CASE ~faulted
    BY <2>2
  <2>3. QED
    BY <2>1, <2>2
<1>3. Spool!Record(e) \/ Spool!DropAndRecord(e)
  BY <1>1, <1>2, Zenon DEF Spool!Record, Spool!DropAndRecord
<1>4. QED
  BY <1>3, Zenon DEF SpoolStep, Spool!Next

LEMMA SpoolRecordsInVain ==
  ASSUME NEW e \in Records, e \notin ToSet(Waiting) \cup Gone,
         UNCHANGED <<cloud, faulted>>, faulted, exposed' = exposed \cup {e},
         \/ Waiting' = Waiting /\ dropped' = dropped
         \/ /\ Waiting # <<>> /\ Waiting' = Tail(Waiting)
            /\ dropped' = dropped \cup {Head(Waiting)}
  PROVE  SpoolStep
<1>1. e \notin Spool!ToSet(Waiting) \cup Spool!Gone
  BY SpoolSet, SpoolGone
<1>2. Spool!RecordInVain(e) \/ Spool!DropAndRecord(e)
  BY <1>1, Zenon DEF Spool!RecordInVain, Spool!DropAndRecord
<1>3. QED
  BY <1>2, Zenon DEF SpoolStep, Spool!Next

LEMMA SpoolDrops ==
  ASSUME Waiting # <<>>, Waiting' = Tail(Waiting), dropped' = dropped \cup {Head(Waiting)},
         UNCHANGED <<cloud, exposed, faulted>>
  PROVE  SpoolStep
BY Zenon DEF SpoolStep, Spool!Next, Spool!DropOldest

LEMMA SpoolDelivers ==
  ASSUME NEW es \in SUBSET (ToSet(Waiting) \cup dropped), cloud' = cloud \cup es,
         UNCHANGED <<Waiting, dropped, exposed, faulted>>
  PROVE  SpoolStep
<1>1. es \in SUBSET (Spool!ToSet(Waiting) \cup dropped)
  BY SpoolSet
<1>2. Spool!Deliver(es)
  BY <1>1, Zenon DEF Spool!Deliver
<1>3. QED
  BY <1>1, <1>2, Zenon DEF SpoolStep, Spool!Next

LEMMA SpoolRetires ==
  ASSUME NEW n \in 0 .. Len(Waiting), Waiting \in Seq(Records),
         \A i \in 1 .. n : Waiting[i] \in Gone,
         Waiting' = Drop(Waiting, n), UNCHANGED <<cloud, dropped, exposed, faulted>>
  PROVE  SpoolStep
<1>1. CASE n = 0
  <2>1. Waiting' = Waiting
    BY <1>1 DEF Drop
  <2>2. QED
    BY <2>1, Zenon DEF SpoolStep
<1>2. CASE n # 0
  <2>1. Spool!ToSet(SubSeq(Waiting, 1, n)) \subseteq Spool!Gone
    <3>1. ToSet(SubSeq(Waiting, 1, n)) \subseteq Gone
      BY PrefixIs DEF ToSet
    <3>2. QED
      BY <3>1, SpoolSet, SpoolGone
  <2>2. n \in 1 .. Len(Waiting)
    BY <1>2
  <2>3. Spool!Retire(n)
    BY <2>1, Zenon DEF Spool!Retire, Drop
  <2>4. QED
    BY <2>2, <2>3, Zenon DEF SpoolStep, Spool!Next
<1>3. QED
  BY <1>1, <1>2

LEMMA SpoolRestarts ==
  ASSUME Waiting' \in Seq(Records), NEW n \in 0 .. Len(Waiting'),
         \A i \in 1 .. n : Waiting'[i] \in Gone,
         Waiting = Drop(Waiting', n), UNCHANGED <<cloud, dropped, exposed>>,
         faulted' \in {faulted, TRUE}
  PROVE  SpoolStep
<1>1. Spool!ToSet(SubSeq(Waiting', 1, n)) \subseteq Spool!Gone
  <2>1. ToSet(SubSeq(Waiting', 1, n)) \subseteq Gone
    BY PrefixIs DEF ToSet
  <2>2. QED
    BY <2>1, SpoolSet, SpoolGone
<1>2. Spool!Restart(n, Waiting')
  BY <1>1, Zenon DEF Spool!Restart, Drop
<1>3. QED
  BY <1>2, Zenon DEF SpoolStep, Spool!Next

LEMMA SpoolFaults ==
  ASSUME Waiting \in Seq(Records), NEW m \in 0 .. Len(Waiting), NEW n \in 0 .. Len(Waiting),
         Waiting' = SubSeq(Waiting, m + 1, n), faulted' = TRUE,
         ToSet(Waiting) \subseteq ToSet(Waiting') \cup Gone',
         exposed \subseteq exposed', exposed' \subseteq Gone \cup ToSet(Waiting),
         UNCHANGED <<cloud, dropped>>
  PROVE  SpoolStep
<1>1. /\ Spool!ToSet(Waiting) \subseteq (Spool!ToSet(Waiting))' \cup (Spool!Gone)'
      /\ exposed' \subseteq Spool!Gone \cup Spool!ToSet(Waiting)
  <2>1. Spool!ToSet(Waiting) = ToSet(Waiting) /\ Spool!ToSet(Waiting') = ToSet(Waiting')
    BY SpoolSet
  <2>2. (Spool!ToSet(Waiting))' = Spool!ToSet(Waiting')
    OBVIOUS
  <2>3. QED
    BY <2>1, <2>2, SpoolGone
<1>2. Spool!Fault(m + 1, n)
  BY <1>1, Zenon DEF Spool!Fault
<1>3. QED
  BY <1>2, Zenon DEF SpoolStep, Spool!Next

\* A fault that leaves the beginning of what was waiting.
LEMMA SpoolFaultCuts ==
  ASSUME Waiting \in Seq(Records), NEW n \in 0 .. Len(Waiting),
         Waiting' = SubSeq(Waiting, 1, n), faulted' = TRUE,
         ToSet(Drop(Waiting, n)) \subseteq Gone',
         exposed \subseteq exposed', exposed' \subseteq Gone \cup ToSet(Waiting),
         UNCHANGED <<cloud, dropped>>
  PROVE  SpoolStep
<1>1. ToSet(Waiting) \subseteq ToSet(Waiting') \cup Gone'
  BY PartsCover
<1>2. 0 \in 0 .. Len(Waiting) /\ 0 + 1 = 1
  OBVIOUS
<1>3. QED
  BY <1>1, <1>2, SpoolFaults

\* A fault that leaves nothing.
LEMMA SpoolFaultEmpties ==
  ASSUME Waiting \in Seq(Records), Waiting' = <<>>, faulted' = TRUE,
         exposed' = exposed \cup ToSet(Waiting), UNCHANGED <<cloud, dropped>>
  PROVE  SpoolStep
<1>1. 0 \in 0 .. Len(Waiting) /\ Waiting' = SubSeq(Waiting, 1, 0)
  OBVIOUS
<1>2. Drop(Waiting, 0) = Waiting
  BY DEF Drop
<1>3. QED
  BY <1>1, <1>2, SpoolFaultCuts DEF Gone

LEMMA NothingThere ==
  ASSUME NEW n \in Nat PROVE Drop(Valid(<<>>), n) = <<>>
<1> DEFINE e == Valid(<<>>)
<1>1. e \in Seq(Records) /\ Len(e) = 0
  BY EmptyFile
<1> HIDE DEF e
<1>2. Drop(e, n) \in Seq(Records) /\ Len(Drop(e, n)) = 0
  <2>1. /\ Drop(e, n) \in Seq(Records)
        /\ Len(Drop(e, n)) = IF n <= Len(e) THEN Len(e) - n ELSE 0
    BY <1>1, DropIs, Zenon
  <2>2. QED
    BY <1>1, <2>1
<1>3. Drop(e, n) = <<>>
  BY <1>2, EmptyIs
<1>4. QED
  BY <1>3 DEF e

LEMMA StartingWaits ==
  ASSUME Kept, Starting, WaitingAt, WaitingAt', Waiting \in Seq(Records)
  PROVE  SpoolStep
<1> DEFINE V == Valid(file)
<1> /\ DiskTyped /\ RamTyped /\ Sized /\ FlagsTyped
    /\ Counted /\ Copied /\ Passed /\ exposed \subseteq Records
  BY DEF Kept, Sizes, Sound
<1>1. V \in Seq(Records) /\ Len(V) \in Nat /\ nvsAcked \in Nat /\ total \in Nat
  BY ValidIs DEF DiskTyped, RamTyped
<1>2. UNCHANGED <<cloud, dropped>>
  BY DEF Starting, Trimming, BeginBoot, Scan, TrimRemove, TrimRename, TrimRenameFails,
     ReadCursor, Unlink, history
<1>3. ASSUME Waiting' = Waiting, UNCHANGED damage PROVE SpoolStep
  BY <1>2, <1>3, Zenon DEF SpoolStep, damage
<1>4. CASE BeginBoot
  <2>1. pc = "off" /\ pc' = "scan" /\ UNCHANGED <<file, nvsAcked>>
    BY <1>4 DEF BeginBoot
  <2>2. UNCHANGED damage
    BY <1>4, Zenon DEF BeginBoot, history
  <2>3. QED
    BY <1>3, <2>1, <2>2 DEF WaitingAt, Starters
<1>5. CASE Scan
  <2>1. pc = "scan" /\ UNCHANGED <<file, nvsAcked>> /\ acked' = 0
    BY <1>5 DEF Scan
  <2>2. Waiting = Drop(V, nvsAcked)
    BY <2>1 DEF WaitingAt, Starters
  <2>3. CASE pc' = "on" /\ ~exists /\ UNCHANGED damage
    <3>1. file = <<>>
      BY <2>3 DEF Copied
    <3>2. Waiting' = Drop(V, 0)
      BY <2>1, <2>3 DEF WaitingAt, Running, Unacked
    <3>3. Waiting' = <<>> /\ Waiting = <<>>
      BY <1>1, <2>2, <3>1, <3>2, NothingThere
    <3>4. QED
      BY <1>3, <2>3, <3>3
  <2>4. CASE pc' = "cursor" /\ UNCHANGED damage
    <3>1. Waiting' = Drop(V, nvsAcked)
      BY <2>1, <2>4 DEF WaitingAt, Starters
    <3>2. QED
      BY <1>3, <2>2, <2>4, <3>1
  <2>5. CASE pc' = "trimRemove" /\ Copy(V)
    <3>1. Waiting' = Waiting
      BY <2>1, <2>2, <2>5 DEF WaitingAt, Starters
    <3>2. \/ UNCHANGED damage
          \/ Exposing(ToSet(Drop(V, Len(tmp'))))
      BY <1>1, <2>5, CopyIs
    <3>3. ASSUME Exposing(ToSet(Drop(V, Len(tmp')))) PROVE SpoolStep
      <4>1. faulted' = TRUE /\ exposed' = exposed \cup ToSet(Drop(V, Len(tmp')))
        BY <3>3, ExposingIs
      <4>2. Len(tmp') \in Nat
        BY <1>1, <2>5, CopyIs
      <4>3. ToSet(Drop(V, Len(tmp'))) \subseteq Gone \cup ToSet(Waiting)
        BY <1>1, <2>1, <2>2, <4>2, DropGone DEF Passed, Starters
      <4>4. Waiting' = SubSeq(Waiting, 1, Len(Waiting)) /\ Len(Waiting) \in 0 .. Len(Waiting)
        BY <3>1
      <4>5. ToSet(Drop(Waiting, Len(Waiting))) \subseteq Gone'
        <5>1. Drop(Waiting, Len(Waiting)) \in Seq(Records) /\ Len(Drop(Waiting, Len(Waiting))) = 0
          BY DropIs
        <5>2. QED
          BY <5>1, EmptyIs
      <4>6. exposed \subseteq exposed' /\ exposed' \subseteq Gone \cup ToSet(Waiting)
        BY <4>1, <4>3 DEF Gone
      <4>7. QED
        BY <1>2, <4>1, <4>4, <4>5, <4>6, SpoolFaultCuts
    <3>4. QED
      BY <1>3, <3>1, <3>2, <3>3
  <2>6. QED
    BY <1>5, <2>3, <2>4, <2>5, Zenon DEF Scan
<1>6. CASE TrimRemove
  <2>1. pc = "trimRemove" /\ pc' = "trimRename" /\ UNCHANGED <<tmp, nvsAcked>>
    BY <1>6 DEF TrimRemove, Unlink
  <2>2. UNCHANGED damage
    BY <1>6, Zenon DEF TrimRemove, Unlink, history
  <2>3. Waiting = Drop(V, nvsAcked) /\ Waiting' = Drop(tmp, nvsAcked)
    BY <2>1 DEF WaitingAt, Starters
  <2>4. CASE ~faulted
    BY <1>3, <2>1, <2>2, <2>3, <2>4 DEF Counted
  <2>5. CASE faulted
    <3>1. CopyOf(tmp, V) /\ Len(tmp) \in 0 .. Len(V)
      BY <1>1, <2>1 DEF Copied, CopyOf, DiskTyped
    <3>2. PICK n \in 0 .. Len(Waiting) :
            /\ Drop(SubSeq(V, 1, Len(tmp)), nvsAcked) = SubSeq(Waiting, 1, n)
            /\ ToSet(Drop(Waiting, n)) \subseteq ToSet(Drop(V, Len(tmp)))
      BY <1>1, <2>3, <3>1, DropShort
    <3>3. Waiting' = SubSeq(Waiting, 1, n)
      BY <2>3, <3>1, <3>2 DEF CopyOf
    <3>4. faulted' = TRUE /\ exposed' = exposed
      BY <2>2, <2>5, Zenon DEF damage, FlagsTyped
    <3>5. ToSet(Drop(Waiting, n)) \subseteq Gone'
      BY <3>1, <3>2, <3>4 DEF CopyOf, Gone
    <3>6. exposed \subseteq exposed' /\ exposed' \subseteq Gone \cup ToSet(Waiting)
      BY <3>4 DEF Gone
    <3>7. QED
      BY <1>2, <3>3, <3>4, <3>5, <3>6, SpoolFaultCuts
  <2>6. QED
    BY <2>4, <2>5
<1>7. CASE TrimRename
  <2>1. pc = "trimRename" /\ pc' = "cursor" /\ file' = tmp /\ UNCHANGED nvsAcked
    BY <1>7 DEF TrimRename
  <2>2. UNCHANGED damage
    BY <1>7, Zenon DEF TrimRename, history
  <2>3. Valid(tmp) = tmp
    BY <2>1, RecordsWhole DEF Copied
  <2>4. QED
    BY <1>3, <2>1, <2>2, <2>3 DEF WaitingAt, Starters
<1>8. CASE TrimRenameFails
  <2>1. pc = "trimRename" /\ pc' = "cursor" /\ UNCHANGED <<file, nvsAcked>>
    BY <1>8 DEF TrimRenameFails, disk
  <2>2. faulted' = TRUE /\ exposed' = exposed \cup ToSet(Waiting)
    BY <1>8, ExposingIs DEF TrimRenameFails
  <2>3. Waiting' = <<>>
    <3>1. file = <<>>
      BY <2>1 DEF Copied
    <3>2. QED
      BY <1>1, <2>1, <3>1, NothingThere DEF WaitingAt, Starters
  <2>4. QED
    BY <1>2, <2>2, <2>3, SpoolFaultEmpties
<1>9. CASE ReadCursor
  <2>1. pc = "cursor" /\ pc' = "on" /\ acked' = Min2(nvsAcked, total) /\ UNCHANGED file
    BY <1>9 DEF ReadCursor, disk
  <2>2. UNCHANGED damage
    BY <1>9, Zenon DEF ReadCursor, history
  <2>3. Waiting' = Drop(V, acked') /\ Waiting = Drop(V, nvsAcked)
    BY <2>1 DEF WaitingAt, Running, Starters, Unacked
  <2>4. CASE nvsAcked <= total
    <3>1. acked' = nvsAcked
      BY <1>1, <2>1, <2>4 DEF Min2
    <3>2. QED
      BY <1>3, <2>2, <2>3, <3>1
  <2>5. CASE ~(nvsAcked <= total)
    <3>1. acked' = total /\ Len(V) <= total /\ Len(V) <= nvsAcked
      BY <1>1, <2>1, <2>5 DEF Min2, Sized
    <3>2. \A n \in Nat : Len(V) <= n => Drop(V, n) = <<>>
      <4> SUFFICES ASSUME NEW n \in Nat, Len(V) <= n PROVE Drop(V, n) = <<>>
        OBVIOUS
      <4>1. Drop(V, n) \in Seq(Records) /\ Len(Drop(V, n)) = 0
        BY <1>1, DropIs
      <4>2. QED
        BY <4>1, EmptyIs
    <3>3. Waiting' = <<>> /\ Waiting = <<>>
      BY <1>1, <2>3, <3>1, <3>2
    <3>4. QED
      BY <1>3, <2>2, <3>3
  <2>6. QED
    BY <2>4, <2>5
<1>10. QED
  BY <1>4, <1>5, <1>6, <1>7, <1>8, <1>9 DEF Starting, Trimming

LEMMA CompactingWaits ==
  ASSUME Kept, Compacting, WaitingAt, WaitingAt', Waiting \in Seq(Records)
  PROVE  SpoolStep
<1> /\ DiskTyped /\ RamTyped /\ FlagsTyped /\ Counted /\ Copied
  BY DEF Kept, Sizes, Sound
<1>1. UNCHANGED <<cloud, dropped>>
  BY DEF Compacting, Replacing, CompactCopy, CompactSkip, CompactRemove, CompactRename,
     CompactRenameFails, CompactCursor, Unlink, history
<1>2. ASSUME Waiting' = Waiting, UNCHANGED damage PROVE SpoolStep
  BY <1>1, <1>2, Zenon DEF SpoolStep, damage
<1>3. Unacked \in Seq(Records) /\ Len(Unacked) \in Nat /\ acked \in Nat
  BY UnackedIs DEF RamTyped
<1>4. CASE CompactCopy
  <2>1. /\ pc = "compact" /\ pc' = "compactRemove" /\ Copy(Unacked)
        /\ UNCHANGED <<file, acked>>
    BY <1>4 DEF CompactCopy
  <2>2. Unacked' = Unacked
    BY <2>1 DEF Unacked
  <2>3. Waiting' = Waiting /\ Waiting = Unacked
    BY <2>1, <2>2 DEF WaitingAt, Running
  <2>4. \/ UNCHANGED damage
        \/ Exposing(ToSet(Drop(Unacked, Len(tmp'))))
    BY <1>3, <2>1, CopyIs
  <2>5. ASSUME Exposing(ToSet(Drop(Unacked, Len(tmp')))) PROVE SpoolStep
    <3>1. faulted' = TRUE /\ exposed' = exposed \cup ToSet(Drop(Unacked, Len(tmp')))
      BY <2>5, ExposingIs
    <3>2. Len(tmp') \in 0 .. Len(Waiting)
      BY <1>3, <2>1, <2>3, CopyIs
    <3>3. ToSet(Drop(Unacked, Len(tmp'))) \subseteq ToSet(Waiting)
      BY <2>3, <3>2, PartsCover
    <3>4. Waiting' = SubSeq(Waiting, 1, Len(Waiting)) /\ Len(Waiting) \in 0 .. Len(Waiting)
      BY <2>3
    <3>5. ToSet(Drop(Waiting, Len(Waiting))) \subseteq Gone'
      <4>1. Drop(Waiting, Len(Waiting)) \in Seq(Records) /\ Len(Drop(Waiting, Len(Waiting))) = 0
        BY DropIs
      <4>2. QED
        BY <4>1, EmptyIs
    <3>6. exposed \subseteq exposed' /\ exposed' \subseteq Gone \cup ToSet(Waiting)
      BY <3>1, <3>3 DEF Gone
    <3>7. QED
      BY <1>1, <3>1, <3>4, <3>5, <3>6, SpoolFaultCuts
  <2>6. QED
    BY <1>2, <2>3, <2>4, <2>5
<1>5. CASE CompactSkip \/ CompactCursor
  <2>1. /\ pc \in Running \cup {"compactCursor"} /\ pc' \in Running
        /\ UNCHANGED <<file, acked>>
    BY <1>5 DEF CompactSkip, CompactCursor, Running, disk, ram
  <2>2. UNCHANGED damage
    BY <1>5, Zenon DEF CompactSkip, CompactCursor, history
  <2>3. Unacked' = Unacked
    BY <2>1 DEF Unacked
  <2>4. QED
    BY <1>2, <2>1, <2>2, <2>3 DEF WaitingAt
<1>6. CASE CompactRemove
  <2>1. pc = "compactRemove" /\ pc' = "compactRename" /\ UNCHANGED tmp
    BY <1>6 DEF CompactRemove, Unlink
  <2>2. UNCHANGED damage
    BY <1>6, Zenon DEF CompactRemove, Unlink, history
  <2>3. Waiting = Unacked /\ Waiting' = tmp
    BY <2>1 DEF WaitingAt, Running
  <2>4. CASE ~faulted
    BY <1>2, <2>1, <2>2, <2>3, <2>4 DEF Counted
  <2>5. CASE faulted
    <3>1. CopyOf(tmp, Waiting) /\ Len(tmp) \in 0 .. Len(Waiting)
      BY <1>3, <2>1, <2>3 DEF Copied, CopyOf, DiskTyped
    <3>2. faulted' = TRUE /\ exposed' = exposed
      BY <2>2, <2>5, Zenon DEF damage, FlagsTyped
    <3>3. Waiting' = SubSeq(Waiting, 1, Len(tmp)) /\ ToSet(Drop(Waiting, Len(tmp))) \subseteq Gone'
      BY <2>3, <3>1, <3>2 DEF CopyOf, Gone
    <3>4. exposed \subseteq exposed' /\ exposed' \subseteq Gone \cup ToSet(Waiting)
      BY <3>2 DEF Gone
    <3>5. QED
      BY <1>1, <3>1, <3>2, <3>3, <3>4, SpoolFaultCuts
  <2>6. QED
    BY <2>4, <2>5
<1>7. CASE CompactRename
  <2>1. pc = "compactRename" /\ pc' = "compactCursor" /\ file' = tmp /\ acked' = 0
    BY <1>7 DEF CompactRename
  <2>2. UNCHANGED damage
    BY <1>7, Zenon DEF CompactRename, history
  <2>3. tmp \in Seq(Records) /\ Valid(tmp) = tmp
    BY <2>1, RecordsWhole DEF Copied
  <2>4. Drop(tmp, 0) = tmp
    BY <2>3 DEF Drop
  <2>5. Unacked' = tmp
    BY <2>1, <2>3, <2>4 DEF Unacked
  <2>6. QED
    BY <1>2, <2>1, <2>2, <2>5 DEF WaitingAt
<1>8. CASE CompactRenameFails
  <2>1. pc = "compactRename" /\ pc' = "on" /\ UNCHANGED <<file, acked>>
    BY <1>8 DEF CompactRenameFails, disk, ram
  <2>2. faulted' = TRUE /\ exposed' = exposed \cup ToSet(Waiting)
    BY <1>8, ExposingIs DEF CompactRenameFails
  <2>3. Waiting' = <<>>
    <3>1. file = <<>>
      BY <2>1 DEF Copied
    <3>2. QED
      BY <1>3, <2>1, <3>1, NothingThere DEF WaitingAt, Running, Unacked
  <2>4. QED
    BY <1>1, <2>2, <2>3, SpoolFaultEmpties
<1>9. QED
  BY <1>4, <1>5, <1>6, <1>7, <1>8 DEF Compacting, Replacing

\* A restart goes back, or forward, to the cursor in flash.
LEMMA RestartWaits ==
  ASSUME Kept, Crash \/ AppendTorn, WaitingAt, WaitingAt', Waiting \in Seq(Records)
  PROVE  SpoolStep
<1> DEFINE V == Valid(file)
<1> /\ DiskTyped /\ RamTyped /\ RestTyped /\ FlagsTyped /\ Counted /\ Passed /\ Copied
    /\ Sizes /\ Sound
  BY DEF Kept, Sizes, Sound
<1>1. V \in Seq(Records) /\ Len(V) \in Nat /\ nvsAcked \in Nat /\ acked \in Nat
  BY ValidIs DEF DiskTyped, RamTyped
<1>2. pc' = "off" /\ V' = V /\ UNCHANGED <<nvsAcked, cloud, dropped>>
  BY RestartSound
<1>3. Waiting' = Drop(V, nvsAcked) /\ Restarted = Drop(V, nvsAcked)
  BY <1>2 DEF WaitingAt, Starters
<1>4. CASE pc \in Starters
  <2>1. Crash /\ pc \notin MidSwap
    BY <1>4 DEF AppendTorn, CanAppend, Starters, MidSwap
  <2>2. UNCHANGED damage
    BY <2>1, Zenon DEF Crash
  <2>3. Waiting = Drop(V, nvsAcked)
    BY <1>4 DEF WaitingAt
  <2>4. Waiting' = Waiting
    BY <1>3, <2>3
  <2>5. QED
    BY <1>2, <2>2, <2>4, Zenon DEF SpoolStep, damage
<1>5. CASE pc \in Running
  <2>1. Waiting = Drop(V, acked)
    BY <1>5 DEF WaitingAt, Unacked
  <2>2. GoneUpTo(V, acked) /\ GoneUpTo(V, nvsAcked)
    BY <1>5 DEF Passed
  <2>3. exposed' = exposed /\ (faulted' = faulted \/ faulted' = TRUE)
    <3>1. CASE Crash
      <4>1. pc \notin MidSwap
        BY <1>5 DEF Running, MidSwap
      <4>2. QED
        BY <3>1, <4>1, Zenon DEF Crash, damage
    <3>2. CASE AppendTorn
      BY <3>2, Zenon DEF AppendTorn
    <3>3. QED
      BY <3>1, <3>2
  <2>4. CASE nvsAcked <= acked
    <3>1. PICK n \in 0 .. Len(Waiting') :
            /\ Waiting = Drop(Waiting', n)
            /\ \A i \in 1 .. n : \E j \in 1 .. Len(V) : j <= acked /\ Waiting'[i] = V[j]
      <4> HIDE DEF V
      <4>1. \E n \in 0 .. Len(Drop(V, nvsAcked)) :
              /\ Drop(V, acked) = Drop(Drop(V, nvsAcked), n)
              /\ \A i \in 1 .. n : \E j \in 1 .. Len(V) : j <= acked /\ Drop(V, nvsAcked)[i] = V[j]
        BY <1>1, <2>4, DropFurther, Zenon
      <4>2. QED
        BY <1>3, <2>1, <4>1, Zenon
    <3>2. \A i \in 1 .. n : Waiting'[i] \in Gone
      BY <2>2, <3>1 DEF GoneUpTo
    <3>3. Waiting' \in Seq(Records)
      BY <1>1, <1>3, DropIs
    <3>4. faulted' \in {faulted, TRUE}
      BY <2>3, Zenon
    <3>5. QED
      BY <1>2, <2>3, <3>1, <3>2, <3>3, <3>4, SpoolRestarts
  <2>5. CASE ~(nvsAcked <= acked)
    <3>1. PICK n \in 0 .. Len(Waiting) :
            /\ Waiting' = Drop(Waiting, n)
            /\ \A i \in 1 .. n : \E j \in 1 .. Len(V) : j <= nvsAcked /\ Waiting[i] = V[j]
      <4>1. acked <= nvsAcked
        BY <1>1, <2>5
      <4> HIDE DEF V
      <4>2. \E n \in 0 .. Len(Drop(V, acked)) :
              /\ Drop(V, nvsAcked) = Drop(Drop(V, acked), n)
              /\ \A i \in 1 .. n : \E j \in 1 .. Len(V) : j <= nvsAcked /\ Drop(V, acked)[i] = V[j]
        BY <1>1, <4>1, DropFurther, Zenon
      <4>3. QED
        BY <1>3, <2>1, <4>2, Zenon
    <3>2. \A i \in 1 .. n : Waiting[i] \in Gone
      BY <2>2, <3>1 DEF GoneUpTo
    <3>3. CASE faulted' = faulted
      BY <1>2, <2>3, <3>1, <3>2, <3>3, SpoolRetires
    <3>4. CASE faulted' = TRUE
      <4>1. Waiting' = SubSeq(Waiting, n + 1, Len(Waiting)) /\ Len(Waiting) \in 0 .. Len(Waiting)
        BY <3>1 DEF Drop
      <4>2. ToSet(SubSeq(Waiting, 1, n)) \subseteq Gone
        BY <3>2, PartsHold
      <4>3. Gone' = Gone
        BY <1>2, <2>3 DEF Gone
      <4>4. ToSet(Waiting) \subseteq ToSet(Waiting') \cup Gone'
        BY <3>1, <4>2, <4>3, PartsCover
      <4>5. exposed \subseteq exposed' /\ exposed' \subseteq Gone \cup ToSet(Waiting)
        BY <2>3 DEF Gone
      <4>6. QED
        BY <1>2, <3>4, <4>1, <4>4, <4>5, SpoolFaults
    <3>5. QED
      BY <2>3, <3>3, <3>4
  <2>6. QED
    BY <2>4, <2>5
<1>6. CASE pc \in MidSwap
  <2>1. faulted' = TRUE /\ exposed' = exposed \cup (ToSet(Waiting) \ ToSet(Restarted))
    BY <1>6, ExposingIs DEF Crash, AppendTorn, CanAppend, MidSwap
  <2>2. CASE pc \in {"trimRename", "compactRename"}
    <3>1. file = <<>>
      BY <2>2 DEF Copied
    <3>2. Waiting' = <<>> /\ Restarted = <<>>
      BY <1>1, <1>3, <3>1, NothingThere
    <3>3. exposed' = exposed \cup ToSet(Waiting)
      BY <2>1, <3>2, EmptyIs
    <3>4. QED
      BY <1>2, <2>1, <3>2, <3>3, SpoolFaultEmpties
  <2>3. CASE pc = "compactCursor"
    <3>1. Waiting = Drop(V, 0)
      BY <2>3 DEF WaitingAt, Unacked, Copied
    <3>2. PICK n \in 0 .. Len(Waiting) : Waiting' = Drop(Waiting, n)
      <4>1. 0 \in Nat /\ 0 <= nvsAcked
        BY <1>1
      <4>2. QED
        BY <1>1, <1>3, <3>1, <4>1, DropFurther
    <3>3. Waiting' = SubSeq(Waiting, n + 1, Len(Waiting)) /\ Len(Waiting) \in 0 .. Len(Waiting)
      BY <3>2 DEF Drop
    <3>4. /\ ToSet(Waiting) \subseteq ToSet(Waiting') \cup Gone'
          /\ exposed \subseteq exposed' /\ exposed' \subseteq Gone \cup ToSet(Waiting)
      BY <1>3, <2>1 DEF Gone
    <3>5. QED
      BY <1>2, <2>1, <3>3, <3>4, SpoolFaults
  <2>4. QED
    BY <1>6, <2>2, <2>3 DEF MidSwap
<1>7. QED
  BY <1>4, <1>5, <1>6 DEF RestTyped, Pcs, Running, Starters, MidSwap

LEMMA UploadingWaits ==
  ASSUME Kept, Uploading \/ Confirmed \/ UploadFails, WaitingAt, WaitingAt',
         Waiting \in Seq(Records)
  PROVE  SpoolStep
<1> DiskTyped /\ RamTyped /\ InFlight /\ Sizes /\ Sound
  BY DEF Kept, Sizes, Sound
<1>1. UNCHANGED <<dropped, exposed, faulted>>
  <2>1. UNCHANGED history
    BY DEF Uploading, Peek, Ack, Confirmed, UploadFails
  <2>2. QED
    BY <2>1, Zenon DEF history, damage
<1>2. CASE Peek
  <2>1. pc = "on" /\ UNCHANGED <<pc, file, acked, cloud>>
    BY <1>2 DEF Peek, disk, ram
  <2>2. Unacked' = Unacked
    BY <2>1 DEF Unacked
  <2>3. Waiting' = Waiting
    BY <2>1, <2>2 DEF WaitingAt, Running
  <2>4. QED
    BY <1>1, <2>1, <2>3, Zenon DEF SpoolStep
<1>3. CASE Confirmed \/ UploadFails
  <2>1. sync = "sent" /\ pc = "on" /\ UNCHANGED <<pc, file, acked>>
    BY <1>3 DEF Confirmed, UploadFails, InFlight, disk, ram
  <2>2. Unacked' = Unacked
    BY <2>1 DEF Unacked
  <2>3. Waiting' = Waiting /\ ToSet(batch) \subseteq ToSet(Waiting) \cup dropped
    BY <2>1, <2>2 DEF WaitingAt, Running, InFlight
  <2>4. PICK es \in SUBSET ToSet(batch) : cloud' = cloud \cup es
    BY <1>3 DEF Confirmed, UploadFails
  <2>5. es \in SUBSET (ToSet(Waiting) \cup dropped)
    BY <2>3, <2>4
  <2>6. QED
    BY <1>1, <2>1, <2>3, <2>4, <2>5, SpoolDelivers
<1>4. CASE Ack
  <2> DEFINE V == Valid(file)
             b == acked + Retired(Last(batch))
  <2>1. /\ pc = "on" /\ sync = "confirmed" /\ acked' = b
        /\ pc' \in {"on", "compact"} /\ UNCHANGED <<file, cloud>>
    BY <1>4, AckIs
  <2>2. GoneUpTo(V, b)
    BY <2>1, RetiredGone
  <2>3. acked \in Nat /\ b \in Nat /\ acked <= b /\ V \in Seq(Records)
    <3>1. Retired(Last(batch)) \in 0 .. Len(Unacked) /\ acked \in Nat
      BY RetiredIs DEF RamTyped
    <3>2. Len(Unacked) \in Nat
      BY <3>1, UnackedIs
    <3>3. QED
      BY <3>1, <3>2, ValidIs DEF DiskTyped
  <2>4. Waiting = Drop(V, acked) /\ Waiting' = Drop(V, b)
    BY <2>1 DEF WaitingAt, Running, Unacked
  <2> HIDE DEF V, b
  <2>5. PICK n \in 0 .. Len(Waiting) :
          /\ Waiting' = Drop(Waiting, n)
          /\ \A i \in 1 .. n : \E j \in 1 .. Len(V) : j <= b /\ Waiting[i] = V[j]
    <3>1. \E n \in 0 .. Len(Drop(V, acked)) :
            /\ Drop(V, b) = Drop(Drop(V, acked), n)
            /\ \A i \in 1 .. n : \E j \in 1 .. Len(V) : j <= b /\ Drop(V, acked)[i] = V[j]
      BY <2>3, DropFurther, Zenon
    <3>2. QED
      BY <2>4, <3>1, Zenon
  <2>6. \A i \in 1 .. n : Waiting[i] \in Gone
    BY <2>2, <2>5 DEF GoneUpTo
  <2>7. QED
    BY <1>1, <2>1, <2>5, <2>6, SpoolRetires
<1>5. QED
  BY <1>2, <1>3, <1>4 DEF Uploading

\* A record that will not be found again counts as exposed.
LEMMA RecordedAstray ==
  ASSUME Kept, AppendRecord, file' = Append(file, Stamp),
         exposed' = IF faulted /\ Astray THEN exposed \cup {Stamp} ELSE exposed,
         Valid(file)' = Valid(file) \/ acked' > Len(Valid(file))
  PROVE  faulted /\ exposed' = exposed \cup {Stamp}
<1> DEFINE V == Valid(file)
<1> DiskTyped /\ Counted /\ Sizes /\ Sound
  BY DEF Kept, Sizes, Sound
<1>1. /\ V \in Seq(Records) /\ Len(V) \in Nat /\ Len(V) <= Len(file) /\ acked' \in Nat
      /\ Stamp \in Records /\ pc = "on"
      /\ V' = IF Untorn(file) THEN Append(V, Stamp) ELSE V
      /\ ~faulted => acked' <= Len(V)
  <2>1. file' # file
    <3>1. Len(file') = Len(file) + 1 /\ Len(file) \in Nat
      BY DEF DiskTyped
    <3>2. QED
      BY <3>1
  <2>2. /\ Stamp \in Records /\ acked' \in Nat /\ (~faulted => acked' <= Len(V))
        /\ V' = IF Untorn(file) THEN Append(V, Stamp) ELSE V
    BY <2>1, Recording
  <2>3. V \in Seq(Records) /\ Len(V) \in Nat /\ Len(V) <= Len(file)
    BY ValidIs DEF DiskTyped
  <2>4. QED
    BY <2>2, <2>3 DEF AppendRecord, CanAppend
<1>2. CASE ~Untorn(file)
  <2>1. Len(V) < Len(file)
    BY <1>1, <1>2, ValidIs DEF DiskTyped, Untorn
  <2>2. Astray
    BY <2>1 DEF Astray
  <2>3. faulted
    BY <1>2 DEF Counted
  <2>4. QED
    BY <2>2, <2>3, Zenon
<1>3. CASE Untorn(file)
  <2>1. V' # V
    <3>1. V' = Append(V, Stamp)
      BY <1>1, <1>3
    <3>2. Len(Append(V, Stamp)) = Len(V) + 1
      BY <1>1
    <3>3. QED
      BY <1>1, <3>1, <3>2
  <2>2. acked' > Len(V) /\ V = file
    BY <1>3, <2>1, ValidWhole DEF DiskTyped
  <2>3. Astray
    BY <1>1, <2>2 DEF Astray
  <2>4. faulted
    BY <1>1, <2>2
  <2>5. QED
    BY <2>3, <2>4, Zenon
<1>4. QED
  BY <1>2, <1>3

LEMMA RecordingWaits ==
  ASSUME Kept, AppendRecord, WaitingAt, WaitingAt'
  PROVE  SpoolStep
<1> DEFINE V == Valid(file)
<1> DiskTyped /\ RamTyped /\ Issued /\ Sizes /\ Sound /\ exposed \subseteq Records
  BY DEF Kept, Sizes, Sound
<1>1. pc = "on" /\ pc' = "on"
  BY DEF AppendRecord, CanAppend
<1>2. UNCHANGED <<cloud, faulted>>
  BY Zenon DEF AppendRecord
<1>3. /\ V \in Seq(Records) /\ Len(V) \in Nat /\ acked \in Nat /\ acked' \in Nat
      /\ Stamp \in Records
  BY ValidIs, Recording DEF DiskTyped, RamTyped
<1>4. Stamp \notin ToSet(Waiting) \cup Gone
  <2>1. Stamp \notin Identities
    BY StampIsLast
  <2>2. Stamp # Torn /\ Waiting = Unacked
    BY <1>1, <1>3, TornAssumption DEF WaitingAt, Running
  <2>3. QED
    BY <2>1, <2>2, ReadFromFile DEF Identities, RamTyped
<1>5. Waiting = Drop(V, acked) /\ Waiting' = Drop(Valid(file)', acked')
  BY <1>1 DEF WaitingAt, Running, Unacked
<1> DEFINE Stays == acked' = acked /\ dropped' = dropped
           Gives == /\ acked' = acked + 1 /\ acked < Len(V)
                    /\ dropped' = dropped \cup {V[acked + 1]}
           Past  == acked >= Len(V) /\ acked' >= acked /\ dropped' = dropped
           Full  == UNCHANGED <<exposed>> /\ Valid(file)' = V
           Added == /\ Valid(file)' = Append(V, Stamp)
                    /\ exposed' = exposed \/ (faulted /\ exposed' = exposed \cup {Stamp})
           Vain  == faulted /\ exposed' = exposed \cup {Stamp}
<1>6. (Stays /\ acked' <= Len(V)) \/ Gives \/ Past
  BY <1>3, Recording
<1>7. \/ Full
      \/ Vain /\ (Valid(file)' = V \/ Valid(file)' = Append(V, Stamp))
      \/ Added /\ acked' <= Len(V)
  <2>1. ASSUME file' = Append(file, Stamp),
               exposed' = IF faulted /\ Astray THEN exposed \cup {Stamp} ELSE exposed,
               Valid(file)' = IF Untorn(file) THEN Append(V, Stamp) ELSE V
        PROVE  \/ Vain /\ (Valid(file)' = V \/ Valid(file)' = Append(V, Stamp))
               \/ Added /\ acked' <= Len(V)
    <3> HIDE DEF V
    <3>1. Valid(file)' = V \/ Valid(file)' = Append(V, Stamp)
      BY <2>1, Zenon
    <3>2. exposed' = exposed \/ (faulted /\ exposed' = exposed \cup {Stamp})
      BY <2>1, Zenon
    <3>3. Valid(file)' = V \/ acked' > Len(V) => Vain
      BY <2>1, RecordedAstray, Zenon DEF V
    <3>4. acked' <= Len(V) \/ acked' > Len(V)
      BY <1>3
    <3>5. CASE Valid(file)' = V \/ acked' > Len(V)
      BY <3>1, <3>3, <3>5, Zenon
    <3>6. CASE Valid(file)' = Append(V, Stamp) /\ acked' <= Len(V)
      BY <3>2, <3>6, Zenon
    <3>7. QED
      BY <3>1, <3>4, <3>5, <3>6, Zenon
  <2>2. ASSUME UNCHANGED <<file, exists, total, recorded, exposed>>, Valid(file)' = V PROVE Full
    BY <2>2, Zenon
  <2>3. QED
    BY <2>1, <2>2, Recording, Zenon
<1>8. ASSUME Past
      PROVE  Waiting = <<>> /\ (Valid(file)' = V => Waiting' = <<>>)
             /\ (acked' > Len(V) /\ Valid(file)' = Append(V, Stamp) => Waiting' = <<>>)
  <2>1. ASSUME NEW s \in Seq(Records), NEW n \in Nat, n >= Len(s) PROVE Drop(s, n) = <<>>
    <3>1. Drop(s, n) \in Seq(Records) /\ Len(Drop(s, n)) = 0
      BY <2>1, DropIs
    <3>2. QED
      BY <3>1, EmptyIs
  <2>2. Waiting = <<>>
    BY <1>3, <1>5, <1>8, <2>1
  <2>3. ASSUME Valid(file)' = V PROVE Waiting' = <<>>
    <3>1. acked' >= Len(V)
      BY <1>3, <1>8
    <3>2. QED
      BY <1>3, <1>5, <2>1, <2>3, <3>1
  <2>4. ASSUME acked' > Len(V), Valid(file)' = Append(V, Stamp) PROVE Waiting' = <<>>
    <3>1. Append(V, Stamp) \in Seq(Records) /\ acked' >= Len(Append(V, Stamp))
      BY <1>3, <2>4
    <3>2. QED
      BY <1>3, <1>5, <2>1, <2>4, <3>1
  <2>5. QED
    BY <2>2, <2>3, <2>4
<1>9. ASSUME Gives
      PROVE  /\ Waiting # <<>> /\ dropped' = dropped \cup {Head(Waiting)}
             /\ Valid(file)' = V => Waiting' = Tail(Waiting)
             /\ Valid(file)' = Append(V, Stamp) => Waiting' = Append(Tail(Waiting), Stamp)
  <2>1. acked \in 0 .. Len(V) /\ acked + 1 \in 0 .. Len(V) /\ acked < Len(V)
    BY <1>3, <1>9
  <2>2. Waiting # <<>> /\ Head(Waiting) = V[acked + 1] /\ Drop(V, acked + 1) = Tail(Waiting)
    BY <1>3, <1>5, <2>1, DropOf
  <2>3. Drop(Append(V, Stamp), acked + 1) = Append(Drop(V, acked + 1), Stamp)
    <3>1. V \in Seq(Records) /\ Stamp \in Records
      BY <1>3
    <3> HIDE DEF V
    <3>2. \A a \in 0 .. Len(V) : Drop(Append(V, Stamp), a) = Append(Drop(V, a), Stamp)
      BY <3>1, DropAppend, Zenon
    <3>3. QED
      BY <2>1, <3>2, Zenon
  <2>4. QED
    BY <1>5, <1>9, <2>2, <2>3
<1>10. ASSUME Stays, acked' <= Len(V)
       PROVE  /\ dropped' = dropped
              /\ Valid(file)' = V => Waiting' = Waiting
              /\ Valid(file)' = Append(V, Stamp) => Waiting' = Append(Waiting, Stamp)
  <2>1. acked \in 0 .. Len(V)
    BY <1>3, <1>10
  <2>2. Drop(Append(V, Stamp), acked) = Append(Drop(V, acked), Stamp)
    BY <1>3, <2>1, DropAppend
  <2>3. QED
    BY <1>5, <1>10, <2>2
<1>11. ASSUME Full PROVE SpoolStep
  <2>1. CASE Gives
    BY <1>2, <1>9, <1>11, <2>1, SpoolDrops
  <2>2. CASE (Stays /\ acked' <= Len(V)) \/ Past
    <3>1. Waiting' = Waiting /\ dropped' = dropped
      BY <1>8, <1>10, <1>11, <2>2
    <3>2. QED
      BY <1>2, <1>11, <3>1, Zenon DEF SpoolStep
  <2>3. QED
    BY <1>6, <2>1, <2>2
<1>12. ASSUME Added, acked' <= Len(V) PROVE SpoolStep
  <2>1. CASE Gives
    BY <1>2, <1>3, <1>4, <1>9, <1>12, <2>1, SpoolRecords
  <2>2. CASE Stays
    BY <1>2, <1>3, <1>4, <1>10, <1>12, <2>2, SpoolRecords
  <2>3. CASE Past
    <3>1. acked' = acked
      BY <1>3, <1>12, <2>3
    <3>2. QED
      BY <2>2, <2>3, <3>1
  <2>4. QED
    BY <1>6, <2>1, <2>2, <2>3
<1>13. ASSUME Vain, Valid(file)' = V PROVE SpoolStep
  <2>1. CASE Gives
    BY <1>2, <1>3, <1>4, <1>9, <1>13, <2>1, SpoolRecordsInVain
  <2>2. CASE (Stays /\ acked' <= Len(V)) \/ Past
    <3>1. Waiting' = Waiting /\ dropped' = dropped
      BY <1>8, <1>10, <1>13, <2>2
    <3>2. QED
      BY <1>2, <1>3, <1>4, <1>13, <3>1, SpoolRecordsInVain
  <2>3. QED
    BY <1>6, <2>1, <2>2
<1>14. ASSUME Vain, Valid(file)' = Append(V, Stamp) PROVE SpoolStep
  <2>1. CASE acked' <= Len(V)
    BY <1>12, <1>14, <2>1
  <2>2. CASE ~(acked' <= Len(V))
    <3>1. acked' > Len(V) /\ Past
      <4>1. Gives => acked' <= Len(V)
        BY <1>3
      <4>2. QED
        BY <1>3, <1>6, <2>2, <4>1
    <3>2. Waiting' = Waiting /\ dropped' = dropped
      BY <1>8, <1>14, <3>1
    <3>3. QED
      BY <1>2, <1>3, <1>4, <1>14, <3>2, SpoolRecordsInVain
  <2>3. QED
    BY <2>1, <2>2
<1>15. QED
  BY <1>7, <1>11, <1>12, <1>13, <1>14

WaitingKnown == WaitingAt /\ Waiting \in Seq(Records)

LEMMA SpoolSteps == Kept /\ [Next]_vars /\ WaitingKnown /\ WaitingKnown' => SpoolStep
<1> SUFFICES ASSUME Kept, [Next]_vars, WaitingAt, WaitingAt', Waiting \in Seq(Records)
             PROVE  SpoolStep
  BY DEF WaitingKnown
<1>1. CASE UNCHANGED vars
  <2>1. UNCHANGED <<pc, file, exists, tmp, nvsAcked, acked, cloud>>
    BY <1>1 DEF vars, disk, ram
  <2>2. Waiting' = Waiting
    BY <2>1 DEF Waiting, Unacked, Restarted, AfterCursor
  <2>3. UNCHANGED <<dropped, exposed, faulted>>
    BY <1>1, Zenon DEF vars, history, damage
  <2>4. QED
    BY <2>1, <2>2, <2>3, Zenon DEF SpoolStep
<1>2. QED
  BY <1>1, StartingWaits, CompactingWaits, RecordingWaits, RestartWaits, UploadingWaits
     DEF Next

LEMMA WaitingKnownNow == Kept => WaitingKnown
  BY WaitingIs DEF Kept, WaitingKnown

(* The spool is the first-in first-out store EventSpool describes: records *)
(* leave in the order they were added, none leaves before the cloud has it *)
(* unless a full spool gives up its oldest or a fault takes it, no         *)
(* identity is used twice, and a restart brings back only what is with the *)
(* cloud, given up or exposed.                                             *)
THEOREM Implementation == Spec => ImplementsSpool
<1>1. Init => Spool!Init
  <2> SUFFICES ASSUME Init PROVE Spool!Init
    OBVIOUS
  <2>1. file = <<>> /\ nvsAcked = 0 /\ pc = "off"
    BY DEF Init
  <2>2. WaitingAt
    BY InitiallyKept, WaitingKnownNow DEF WaitingKnown
  <2>3. Waiting = Drop(Valid(<<>>), 0)
    BY <2>1, <2>2 DEF WaitingAt, Starters
  <2>4. Waiting = <<>>
    BY <2>3, NothingThere
  <2>5. QED
    BY <2>4, Zenon DEF Init, Spool!Init
<1>2. Kept /\ [Next]_vars /\ WaitingKnown /\ WaitingKnown'
        => [Spool!Next]_<<Waiting, cloud, dropped, exposed, faulted>>
  BY SpoolSteps DEF SpoolStep
<1>3. QED
  BY <1>1, <1>2, InitiallyKept, KeptStep, WaitingKnownNow, PTL
     DEF Spec, ImplementsSpool, Spool!Spec

-----------------------------------------------------------------------------
(* Nothing is lost.                                                        *)

\* What is waiting leaves only for the cloud, or given up, or exposed.
LEMMA SpoolKeeps ==
  ASSUME Waiting \in Seq(Records), Waiting' \in Seq(Records), SpoolStep
  PROVE  ToSet(Waiting) \cup Gone \subseteq ToSet(Waiting') \cup Gone'
<1> DEFINE Goal == ToSet(Waiting) \cup Gone \subseteq ToSet(Waiting') \cup Gone'
<1> SUFFICES Goal
  OBVIOUS
<1>1. CASE UNCHANGED <<Waiting, cloud, dropped, exposed, faulted>>
  BY <1>1 DEF Gone
<1>2. ASSUME NEW e \in Records, Spool!Record(e) PROVE Goal
  <2>1. Waiting' = Append(Waiting, e) /\ UNCHANGED <<cloud, dropped>> /\ exposed \subseteq exposed'
    <3>1. /\ Waiting' = Append(Waiting, e) /\ UNCHANGED <<cloud, dropped>>
          /\ exposed' \in IF faulted THEN {exposed, exposed \cup {e}} ELSE {exposed}
      BY <1>2, Zenon DEF Spool!Record
    <3>2. exposed' \in {exposed, exposed \cup {e}}
      BY <3>1
    <3>3. QED
      BY <3>1, <3>2
  <2>2. QED
    BY <2>1, ToSetIs DEF Gone
<1>3. ASSUME NEW e \in Records, Spool!RecordInVain(e) PROVE Goal
  BY <1>3 DEF Spool!RecordInVain, Gone
<1>4. Waiting # <<>> => /\ ToSet(Waiting) = {Head(Waiting)} \cup ToSet(Tail(Waiting))
                        /\ Tail(Waiting) \in Seq(Records)
  <2> SUFFICES ASSUME Waiting # <<>>
               PROVE  /\ ToSet(Waiting) = {Head(Waiting)} \cup ToSet(Tail(Waiting))
                      /\ Tail(Waiting) \in Seq(Records)
    OBVIOUS
  <2>1. 1 \in 0 .. Len(Waiting) /\ 0 \in 0 .. Len(Waiting) /\ 0 < Len(Waiting)
    BY EmptyIs
  <2>2. Drop(Waiting, 1) = Tail(Waiting)
    <3>1. Drop(Waiting, 0 + 1) = Tail(Drop(Waiting, 0)) /\ Drop(Waiting, 0) = Waiting
      BY <2>1, DropOf
    <3>2. QED
      BY <3>1
  <2>3. ToSet(SubSeq(Waiting, 1, 1)) = {Head(Waiting)}
    BY <2>1 DEF ToSet
  <2>4. ToSet(Waiting) = {Head(Waiting)} \cup ToSet(Tail(Waiting))
    <3>1. ToSet(Waiting) = ToSet(SubSeq(Waiting, 1, 1)) \cup ToSet(Drop(Waiting, 1))
      BY <2>1, PartsCover, Zenon
    <3>2. QED
      BY <2>2, <2>3, <3>1
  <2>5. QED
    BY <2>4
<1>5. ASSUME NEW e \in Records, Spool!DropAndRecord(e) PROVE Goal
  <2>1. /\ Waiting # <<>> /\ dropped' = dropped \cup {Head(Waiting)} /\ cloud' = cloud
        /\ \/ /\ Waiting' = Append(Tail(Waiting), e)
              /\ exposed' \in IF faulted THEN {exposed, exposed \cup {e}} ELSE {exposed}
           \/ Waiting' = Tail(Waiting) /\ exposed' = exposed \cup {e}
    BY <1>5, Zenon DEF Spool!DropAndRecord
  <2>2. /\ exposed \subseteq exposed'
        /\ Waiting' = Append(Tail(Waiting), e) \/ Waiting' = Tail(Waiting)
    <3>1. CASE exposed' \in IF faulted THEN {exposed, exposed \cup {e}} ELSE {exposed}
      <4>1. exposed' \in {exposed, exposed \cup {e}}
        BY <3>1
      <4>2. QED
        BY <2>1, <4>1
    <3>2. CASE exposed' = exposed \cup {e}
      BY <2>1, <3>2
    <3>3. QED
      BY <2>1, <3>1, <3>2, Zenon
  <2>3. ToSet(Append(Tail(Waiting), e)) = ToSet(Tail(Waiting)) \cup {e}
    BY <1>4, <2>1, ToSetIs
  <2>4. QED
    BY <1>4, <2>1, <2>2, <2>3 DEF Gone
<1>6. CASE Spool!DropOldest
  BY <1>4, <1>6 DEF Spool!DropOldest, Gone
<1>7. ASSUME NEW es, Spool!Deliver(es) PROVE Goal
  BY <1>7 DEF Spool!Deliver, Gone
<1>8. ASSUME NEW n \in 1 .. Len(Waiting), Spool!Retire(n) PROVE Goal
  <2>1. /\ ToSet(SubSeq(Waiting, 1, n)) \subseteq Gone /\ Waiting' = Drop(Waiting, n)
        /\ UNCHANGED <<cloud, dropped, exposed>>
    <3>1. /\ Spool!ToSet(SubSeq(Waiting, 1, n)) \subseteq Spool!Gone
          /\ Waiting' = Drop(Waiting, n) /\ UNCHANGED <<cloud, dropped, exposed>>
      BY <1>8, Zenon DEF Spool!Retire, Drop
    <3>2. QED
      BY <3>1, SpoolSet, SpoolGone
  <2>2. ToSet(Waiting) = ToSet(SubSeq(Waiting, 1, n)) \cup ToSet(Drop(Waiting, n))
    BY PartsCover
  <2>3. QED
    BY <2>1, <2>2 DEF Gone
<1>9. ASSUME NEW n \in 0 .. Len(Waiting'), Spool!Restart(n, Waiting') PROVE Goal
  <2>1. Waiting = Drop(Waiting', n) /\ UNCHANGED <<cloud, dropped, exposed>>
    BY <1>9, Zenon DEF Spool!Restart, Drop
  <2>2. ToSet(Waiting') = ToSet(SubSeq(Waiting', 1, n)) \cup ToSet(Drop(Waiting', n))
    BY PartsCover
  <2>3. QED
    BY <2>1, <2>2 DEF Gone
<1>10. ASSUME NEW m, NEW n, Spool!Fault(m, n) PROVE Goal
  <2>1. /\ Spool!ToSet(Waiting) \subseteq (Spool!ToSet(Waiting))' \cup (Spool!Gone)'
        /\ exposed \subseteq exposed' /\ UNCHANGED <<cloud, dropped>>
    BY <1>10, Zenon DEF Spool!Fault
  <2>2. Spool!ToSet(Waiting) = ToSet(Waiting) /\ (Spool!ToSet(Waiting))' = ToSet(Waiting')
    BY SpoolSet
  <2>3. QED
    BY <2>1, <2>2, SpoolGone DEF Gone
<1>11. SpoolStep => \/ UNCHANGED <<Waiting, cloud, dropped, exposed, faulted>>
                    \/ \E e \in Records : \/ Spool!Record(e) \/ Spool!RecordInVain(e)
                                          \/ Spool!DropAndRecord(e)
                    \/ Spool!DropOldest
                    \/ \E es : Spool!Deliver(es)
                    \/ \E n \in 1 .. Len(Waiting) : Spool!Retire(n)
                    \/ \E n \in 0 .. Len(Waiting') : Spool!Restart(n, Waiting')
                    \/ \E m, n : Spool!Fault(m, n)
  BY Zenon DEF SpoolStep, Spool!Next
<1> HIDE DEF Goal
<1>12. QED
  BY <1>1, <1>2, <1>3, <1>5, <1>6, <1>7, <1>8, <1>9, <1>10, <1>11, Zenon

\* A record whose append returned true is waiting, or counts as exposed.
LEMMA RecordedWaits ==
  ASSUME Kept, WaitingAt', AppendRecord
  PROVE  recorded' \subseteq recorded \cup ToSet(Waiting') \cup exposed'
<1> DEFINE V == Valid(file)
<1> DiskTyped /\ Sizes /\ Sound
  BY DEF Kept, Sizes
<1>1. CASE recorded' = recorded
  BY <1>1
<1>2. ASSUME file' = Append(file, Stamp), recorded' = recorded \cup {Stamp},
             exposed' = IF faulted /\ Astray THEN exposed \cup {Stamp} ELSE exposed,
             V' = IF Untorn(file) THEN Append(V, Stamp) ELSE V
      PROVE  recorded' \subseteq recorded \cup ToSet(Waiting') \cup exposed'
  <2>1. CASE V' = V \/ acked' > Len(V)
    <3>1. exposed' = exposed \cup {Stamp}
      BY <1>2, <2>1, RecordedAstray
    <3>2. QED
      BY <1>2, <3>1
  <2>2. CASE V' = Append(V, Stamp) /\ ~(acked' > Len(V))
    <3>1. V \in Seq(Records) /\ Len(V) \in Nat /\ Stamp \in Records /\ acked' \in Nat
      BY ValidIs, Recording DEF DiskTyped
    <3>2. Waiting' = Drop(V', acked')
      BY DEF AppendRecord, CanAppend, WaitingAt, Running, Unacked
    <3> DEFINE W == Append(V, Stamp)
    <3>3. W \in Seq(Records) /\ Len(W) = Len(V) + 1 /\ W[Len(V) + 1] = Stamp
      BY <3>1
    <3> HIDE DEF W, V
    <3>4. ToSet(Drop(W, acked')) = {W[i] : i \in {j \in 1 .. Len(W) : j > acked'}}
      BY <3>1, <3>3, PartsHold
    <3>5. Len(V) + 1 \in {j \in 1 .. Len(W) : j > acked'}
      BY <2>2, <3>1, <3>3
    <3>6. Stamp \in ToSet(Drop(W, acked'))
      BY <3>3, <3>4, <3>5
    <3>7. QED
      BY <1>2, <2>2, <3>2, <3>6 DEF W
  <2>3. QED
    BY <1>2, <2>1, <2>2
<1>3. QED
  BY <1>1, <1>2, Recording, Zenon

(* Every event whose append was reported as done is waiting, or with the   *)
(* cloud, or was the oldest of a full spool, or is among those that a cut  *)
(* write or swap, a failed rename or a short copy may have cost.           *)
THEOREM RecordedIsKept == Spec => []NothingLost
<1>1. Init => NothingLost
  BY DEF Init, NothingLost
<1>2. Kept /\ [Next]_vars /\ WaitingKnown /\ WaitingKnown' /\ NothingLost => NothingLost'
  <2> SUFFICES ASSUME Kept, [Next]_vars, WaitingKnown, WaitingKnown', NothingLost
               PROVE  NothingLost'
    OBVIOUS
  <2> /\ WaitingAt' /\ Waiting \in Seq(Records) /\ Waiting' \in Seq(Records)
    BY DEF WaitingKnown
  <2>1. ToSet(Waiting) \cup Gone \subseteq ToSet(Waiting') \cup Gone'
    BY SpoolSteps, SpoolKeeps
  <2>2. recorded' \subseteq recorded \cup ToSet(Waiting') \cup exposed'
    <3>1. CASE AppendRecord
      BY <3>1, RecordedWaits
    <3>2. CASE ~AppendRecord
      <4>1. recorded' = recorded
        BY <3>2 DEF Next, Starting, Trimming, BeginBoot, Scan, TrimRemove, TrimRename,
           TrimRenameFails, ReadCursor, Unlink, Compacting, Replacing, CompactCopy, CompactSkip,
           CompactRemove, CompactRename, CompactRenameFails, CompactCursor, AppendTorn, Uploading,
           Peek, Ack, Confirmed, UploadFails, Crash, history, vars
      <4>2. QED
        BY <4>1
    <3>3. QED
      BY <3>1, <3>2
  <2>3. QED
    BY <2>1, <2>2 DEF NothingLost, Gone
<1>3. QED
  BY <1>1, <1>2, InitiallyKept, KeptStep, WaitingKnownNow, PTL DEF Spec

-----------------------------------------------------------------------------
(* EventTime: numbers.                                                     *)

LEMMA MinIs ==
  ASSUME NEW T, T \subseteq Nat, T # {}
  PROVE  Min(T) \in T /\ \A m \in T : Min(T) <= m
  BY LeastNatural DEF Min

LEMMA MaxIs ==
  ASSUME NEW K \in Nat, NEW T, T \subseteq 0 .. K, T # {}
  PROVE  Max(T) \in T /\ \A m \in T : Max(T) >= m
<1> DEFINE Below == {m \in Nat : m <= K /\ K - m \in T}
<1>1. Below # {}
  <2>1. PICK m \in T : TRUE
    OBVIOUS
  <2>2. K - m \in Below
    OBVIOUS
  <2>3. QED
    BY <2>2
<1>2. PICK b \in Below : \A m \in Below : b <= m
  BY <1>1, LeastNatural
<1>3. K - b \in T /\ b \in Nat
  OBVIOUS
<1>4. ASSUME NEW m \in T PROVE K - b >= m
  <2>1. K - m \in Below /\ m \in 0 .. K
    OBVIOUS
  <2>2. QED
    BY <1>2, <1>3, <2>1
<1>5. QED
  BY <1>3, <1>4 DEF Max

LEMMA SecondsIs ==
  ASSUME NEW t \in Nat
  PROVE  Seconds(t) \in Nat /\ Seconds(t) <= t /\ t < Seconds(t) + Second
<1>1. t % Second \in 0 .. Second - 1
  BY EventTimeAssumption
<1>2. t % Second <= t
  BY EventTimeAssumption
<1>3. QED
  BY <1>1, <1>2, EventTimeAssumption DEF Seconds

LEMMA BootEpochIs ==
  ASSUME now \in Nat, start \in Nat, start <= now, Second <= start, BootEpoch # None
  PROVE  /\ BootEpoch \in Nat /\ BootEpoch <= now
         /\ start < BootEpoch + Second /\ BootEpoch < start + Second
<1>1. now - start \in Nat /\ BootEpoch = Seconds(now) - Seconds(now - start)
  BY DEF BootEpoch
<1>2. Second \in Nat
  BY EventTimeAssumption
<1> DEFINE a == Seconds(now)
           b == Seconds(now - start)
<1>3. a \in Nat /\ a <= now /\ now < a + Second
  BY SecondsIs
<1>4. b \in Nat /\ b <= now - start /\ now - start < b + Second
  BY <1>1, SecondsIs
<1> HIDE DEF a, b
<1>5. BootEpoch = a - b
  BY <1>1 DEF a, b
<1>6. QED
  BY <1>2, <1>3, <1>4, <1>5

-----------------------------------------------------------------------------
(* boundUnknowns.                                                          *)

\* The places, as BoundUnknowns has them.
Placed(items, anchor) ==
  CHOOSE f : f = [i \in 1 .. Len(items) |->
    Place(items, anchor, i, IF i = Len(items) THEN Never ELSE f[i + 1])]

(* Backwards from the last, each item's place is given by the next one's.  *)
LEMMA PlacedIs ==
  ASSUME NEW items, NEW anchor, Len(items) \in Nat
  PROVE  LET p == Placed(items, anchor) IN
         p = [i \in 1 .. Len(items) |->
                Place(items, anchor, i, IF i = Len(items) THEN Never ELSE p[i + 1])]
<1> DEFINE n == Len(items)
           Step(f, i) == Place(items, anchor, i, IF i = n THEN Never ELSE f[i + 1])
           From(f, k) == f = [i \in n - k + 1 .. n |-> Step(f, i)]
           Short == {k \in Nat : k <= n /\ ~ \E f : From(f, k)}
<1>1. CASE Short = {}
  <2>1. n \in Nat /\ n \notin Short
    BY <1>1
  <2>2. PICK f : From(f, n)
    BY <2>1
  <2>3. f = [i \in 1 .. n |-> Step(f, i)]
    BY <2>1, <2>2
  <2>4. QED
    BY <2>3 DEF Placed
<1>2. ASSUME Short # {} PROVE FALSE
  <2>1. PICK k \in Short : \A m \in Short : k <= m
    BY <1>2, LeastNatural
  <2>2. k \in Nat /\ k <= n /\ ~ \E f : From(f, k)
    OBVIOUS
  <2>3. k # 0
    <3>1. ASSUME k = 0 PROVE FALSE
      <4> DEFINE f == [i \in {} |-> 0]
      <4>1. n - k + 1 .. n = {}
        BY <3>1
      <4>2. f = [i \in n - k + 1 .. n |-> Step(f, i)]
        BY <4>1
      <4>3. QED
        BY <2>2, <4>2
    <3>2. QED
      BY <3>1
  <2>4. PICK f : From(f, k - 1)
    <3>1. k - 1 \in Nat /\ k - 1 <= n /\ ~(k <= k - 1)
      BY <2>2, <2>3
    <3>2. k - 1 \notin Short
      BY <2>1, <3>1
    <3>3. QED
      BY <3>1, <3>2
  <2>5. n - (k - 1) + 1 = n - k + 2 /\ n - k + 1 \in Nat /\ n - k + 1 <= n
    BY <2>2, <2>3
  <2> DEFINE j == n - k + 1
             g == [i \in j .. n |-> IF i = j THEN Step(f, j) ELSE f[i]]
  <2>6. ASSUME NEW i \in j .. n PROVE g[i] = Step(g, i)
    <3>1. i \in Int /\ (i = n \/ i + 1 \in j .. n)
      BY <2>5
    <3>2. i # n => g[i + 1] = f[i + 1]
      BY <2>5, <3>1
    <3>3. Step(g, i) = Step(f, i)
      <4> HIDE DEF g
      <4>1. QED
        BY <3>2
    <3>4. i # j => i \in n - (k - 1) + 1 .. n
      BY <2>5
    <3>5. i # j => f[i] = Step(f, i)
      <4> HIDE DEF Step
      <4>1. f = [h \in n - (k - 1) + 1 .. n |-> Step(f, h)]
        BY <2>4
      <4>2. QED
        BY <3>4, <4>1
    <3>6. QED
      BY <3>3, <3>5
  <2>7. From(g, k)
    <3> HIDE DEF Step
    <3>1. QED
      BY <2>6
  <2>8. QED
    BY <2>2, <2>7
<1>3. QED
  BY <1>1, <1>2

Known == 0 .. MaxNow + Tolerance
Item == [known : Known \cup {None}, ceiling : Instants]

(* What a batch's items may say, if t is when they happened and anchor is known of
   what came before. *)
Truthful(items, anchor, t) ==
  /\ \A i \in 1 .. Len(items) : items[i] \in Item /\ t[i] \in Instants
  /\ anchor \in Instants \cup {None}
  /\ \A i \in 1 .. Len(items) : items[i].known = None =>
       /\ t[i] < items[i].ceiling + Second
       /\ \A j \in 1 .. Len(items) : items[j].known # None =>
            /\ j < i => items[j].known <= t[i]
            /\ i < j => t[i] < items[j].known + Second
       /\ (\A j \in 1 .. i - 1 : items[j].known = None) =>
            anchor = None \/ anchor <= t[i]

LEMMA Numbers ==
  /\ Second \in Nat /\ Second > 0 /\ Tolerance \in Nat /\ Second <= Tolerance
  /\ MaxNow \in Nat /\ Second <= MaxNow /\ MaxEvents \in Nat /\ None \notin Int
  /\ Never \in Nat /\ Never > MaxNow + Tolerance
  BY EventTimeAssumption DEF Never

LEMMA FloorIs ==
  ASSUME NEW items, NEW anchor, NEW t, Len(items) \in Nat, Truthful(items, anchor, t),
         NEW i \in 1 .. Len(items), items[i].known = None
  PROVE  /\ Floor(items, anchor, i) \in Known \cup {None}
         /\ Floor(items, anchor, i) # None => Floor(items, anchor, i) <= t[i]
<1> DEFINE before == {j \in 1 .. i - 1 : items[j].known # None}
<1>1. CASE before = {}
  <2>1. \A j \in 1 .. i - 1 : items[j].known = None
    BY <1>1
  <2>2. anchor = None \/ anchor <= t[i]
    BY <2>1 DEF Truthful
  <2>3. Floor(items, anchor, i) = anchor
    BY <1>1 DEF Floor
  <2>4. anchor \in Known \cup {None}
    BY Numbers DEF Truthful, Known, Instants
  <2>5. QED
    BY <2>2, <2>3, <2>4
<1>2. CASE before # {}
  <2>1. before \subseteq 0 .. i - 1 /\ i - 1 \in Nat
    OBVIOUS
  <2>2. Max(before) \in before
    BY <1>2, <2>1, MaxIs
  <2> DEFINE m == Max(before)
  <2>3. m \in 1 .. Len(items) /\ m < i /\ items[m].known # None
    BY <2>2
  <2>4. Floor(items, anchor, i) = items[m].known
    BY <1>2 DEF Floor
  <2> HIDE DEF m
  <2>5. items[m].known \in Known /\ items[m].known <= t[i]
    BY <2>3 DEF Truthful, Item
  <2>6. QED
    BY <2>4, <2>5
<1>3. QED
  BY <1>1, <1>2

LEMMA NotAfterIs ==
  ASSUME NEW items, NEW anchor, NEW t, Len(items) \in Nat, Truthful(items, anchor, t),
         NEW i \in 1 .. Len(items), items[i].known = None
  PROVE  /\ NotAfter(items, i) \in Instants /\ NotAfter(items, i) <= items[i].ceiling
         /\ t[i] < NotAfter(items, i) + Second
<1> DEFINE after == {j \in i + 1 .. Len(items) : items[j].known # None}
           nextKnown == IF after = {} THEN Never ELSE items[Min(after)].known
<1>1. items[i].ceiling \in Instants /\ t[i] \in Instants /\ t[i] < items[i].ceiling + Second
  BY DEF Truthful, Item
<1>2. nextKnown \in Nat /\ t[i] < nextKnown + Second
  <2>1. CASE after = {}
    BY <1>1, <2>1, Numbers DEF Instants
  <2>2. CASE after # {}
    <3>1. after \subseteq Nat
      OBVIOUS
    <3>2. Min(after) \in after
      BY <2>2, <3>1, MinIs
    <3> DEFINE m == Min(after)
    <3>3. m \in 1 .. Len(items) /\ i < m /\ items[m].known # None
      BY <3>2
    <3>4. nextKnown = items[m].known
      BY <2>2
    <3> HIDE DEF m
    <3>5. items[m].known \in Known /\ t[i] < items[m].known + Second
      BY <3>3 DEF Truthful, Item
    <3>6. QED
      BY <3>4, <3>5 DEF Known
  <2>3. QED
    BY <2>1, <2>2
<1>3. NotAfter(items, i) = Smaller(nextKnown, items[i].ceiling)
  BY DEF NotAfter
<1> HIDE DEF nextKnown
<1>4. QED
  BY <1>1, <1>2, <1>3, Numbers DEF Smaller, Instants

LEMMA NotBeforeIs ==
  ASSUME NEW items, NEW anchor, NEW t, Len(items) \in Nat, Truthful(items, anchor, t),
         NEW i \in 1 .. Len(items), items[i].known = None
  PROVE  /\ NotBefore(items, anchor, i) \in Known \cup {None}
         /\ NotBefore(items, anchor, i) # None =>
              /\ NotBefore(items, anchor, i) <= t[i]
              /\ NotBefore(items, anchor, i) <= NotAfter(items, i)
<1> DEFINE floor == Floor(items, anchor, i)
<1>1. NotBefore(items, anchor, i) =
        IF floor # None /\ floor > NotAfter(items, i) THEN None ELSE floor
  BY DEF NotBefore
<1>2. floor \in Known \cup {None} /\ (floor # None => floor <= t[i])
  BY FloorIs
<1>3. NotAfter(items, i) \in Instants
  BY NotAfterIs
<1> HIDE DEF floor
<1>4. QED
  BY <1>1, <1>2, <1>3 DEF Known, Instants

LEMMA PlaceIs ==
  ASSUME NEW items, NEW anchor, NEW t, Len(items) \in Nat, Truthful(items, anchor, t),
         NEW i \in 1 .. Len(items), items[i].known = None, NEW cursor \in Int
  PROVE  LET place == Place(items, anchor, i, cursor) IN
         /\ place \in Int /\ place <= NotAfter(items, i)
         /\ place >= 0 \/ place >= cursor - 1
         /\ NotBefore(items, anchor, i) # None => NotBefore(items, anchor, i) <= place
<1> DEFINE after == NotAfter(items, i)
           floor == NotBefore(items, anchor, i)
           place == Smaller(after, cursor - 1)
<1>1. Place(items, anchor, i, cursor) =
        IF floor # None /\ place < floor THEN floor ELSE place
  BY DEF Place
<1>2. after \in Nat
  BY NotAfterIs DEF Instants
<1>3. floor \in Known \cup {None} /\ (floor # None => floor <= after)
  BY NotBeforeIs
<1> HIDE DEF after, floor
<1>4. place \in Int /\ place <= after /\ (place >= 0 \/ place >= cursor - 1)
  BY <1>2 DEF Smaller
<1>5. QED
  <2> HIDE DEF place
  <2>1. QED
    BY <1>1, <1>2, <1>3, <1>4, Numbers DEF Known, after, floor

(* The windows hold what happened, and the places are inside them.         *)
LEMMA BoundsAreHonest ==
  ASSUME NEW items, NEW anchor, NEW t, Len(items) \in 0 .. MaxEvents,
         Truthful(items, anchor, t), NEW i \in 1 .. Len(items)
  PROVE  LET b == BoundUnknowns(items, anchor)[i] IN
         IF items[i].known # None
           THEN b = [at |-> items[i].known, notBefore |-> None, notAfter |-> None]
           ELSE /\ b.at \in Placements /\ b.notBefore \in Bound /\ b.notAfter \in Instants
                /\ b.notAfter <= items[i].ceiling /\ b.at <= b.notAfter
                /\ t[i] < b.notAfter + Second
                /\ b.notBefore # None => b.notBefore <= t[i] /\ b.notBefore <= b.at
<1> DEFINE n == Len(items)
           p == Placed(items, anchor)
           after == NotAfter(items, i)
           before == NotBefore(items, anchor, i)
<1>1. n \in Nat /\ n <= MaxEvents
  BY Numbers
<1>2. \A k \in 1 .. n : p[k] = Place(items, anchor, k, IF k = n THEN Never ELSE p[k + 1])
  <2> HIDE DEF p
  <2>1. p = [k \in 1 .. n |-> Place(items, anchor, k, IF k = n THEN Never ELSE p[k + 1])]
    BY <1>1, PlacedIs DEF p
  <2>2. QED
    BY <2>1
<1>3. BoundUnknowns(items, anchor)[i] =
        IF items[i].known # None
        THEN [at |-> p[i], notBefore |-> None, notAfter |-> None]
        ELSE [at |-> p[i], notBefore |-> before, notAfter |-> after]
  BY DEF BoundUnknowns, Placed
<1> HIDE DEF p
<1>4. \A k \in 1 .. n : items[k].known # None => p[k] = items[k].known /\ p[k] \in Nat
  <2> TAKE k \in 1 .. n
  <2>1. items[k].known \in Known \cup {None}
    BY DEF Truthful, Item
  <2>2. p[k] = Place(items, anchor, k, IF k = n THEN Never ELSE p[k + 1])
    BY <1>2
  <2>3. QED
    BY <2>1, <2>2 DEF Place, Known
<1>5. ASSUME NEW k \in 1 .. n, items[k].known = None,
             k = n \/ (p[k + 1] \in Int /\ p[k + 1] >= k - n)
      PROVE  /\ p[k] \in Int /\ p[k] >= k - n - 1 /\ p[k] <= NotAfter(items, k)
             /\ NotBefore(items, anchor, k) # None => NotBefore(items, anchor, k) <= p[k]
  <2> DEFINE cursor == IF k = n THEN Never ELSE p[k + 1]
  <2>1. cursor \in Int /\ (cursor - 1 >= 0 \/ cursor >= k - n)
    BY <1>5, Numbers
  <2>2. p[k] = Place(items, anchor, k, cursor)
    BY <1>2
  <2> HIDE DEF cursor
  <2>3. /\ p[k] \in Int /\ p[k] <= NotAfter(items, k)
        /\ p[k] >= 0 \/ p[k] >= cursor - 1
        /\ NotBefore(items, anchor, k) # None => NotBefore(items, anchor, k) <= p[k]
    BY <1>1, <1>5, <2>1, <2>2, PlaceIs
  <2>4. QED
    BY <1>1, <2>1, <2>3
<1>6. \A k \in 1 .. n : p[k] \in Int /\ p[k] >= k - n - 1
  <2> DEFINE Low == {m \in Nat : m < n /\ ~(p[n - m] \in Int /\ p[n - m] >= -m - 1)}
  <2>1. ASSUME Low # {} PROVE FALSE
    <3>1. PICK m \in Low : \A h \in Low : m <= h
      BY <2>1, LeastNatural
    <3> DEFINE k == n - m
    <3>2. k \in 1 .. n /\ m \in Nat /\ ~(p[k] \in Int /\ p[k] >= k - n - 1)
      BY <1>1, <3>1
    <3>3. items[k].known = None
      BY <1>1, <1>4, <3>2
    <3>4. ASSUME k # n PROVE p[k + 1] \in Int /\ p[k + 1] >= k - n
      <4>1. m - 1 \in Nat /\ m - 1 < n /\ ~(m <= m - 1) /\ n - (m - 1) = k + 1
        BY <1>1, <3>2, <3>4
      <4>2. m - 1 \notin Low
        BY <3>1, <4>1
      <4>3. p[k + 1] \in Int /\ p[k + 1] >= -(m - 1) - 1
        BY <4>1, <4>2
      <4>4. QED
        BY <1>1, <3>2, <4>3
    <3> HIDE DEF k
    <3>5. QED
      BY <1>5, <3>2, <3>3, <3>4
  <2>2. ASSUME NEW k \in 1 .. n PROVE p[k] \in Int /\ p[k] >= k - n - 1
    <3>1. n - k \in Nat /\ n - k < n /\ n - (n - k) = k
      BY <1>1
    <3>2. n - k \notin Low
      <4> HIDE DEF Low
      <4>1. QED
        BY <2>1
    <3>3. p[k] \in Int /\ p[k] >= -(n - k) - 1
      BY <3>1, <3>2
    <3>4. QED
      BY <1>1, <3>3
  <2>3. QED
    BY <2>2
<1>7. CASE items[i].known # None
  BY <1>3, <1>4, <1>7
<1>8. CASE items[i].known = None
  <2>1. i = n \/ i + 1 \in 1 .. n
    BY <1>1
  <2>2. i = n \/ (p[i + 1] \in Int /\ p[i + 1] >= i - n)
    BY <1>1, <1>6, <2>1
  <2>3. /\ p[i] \in Int /\ p[i] >= i - n - 1 /\ p[i] <= after
        /\ before # None => before <= p[i]
    BY <1>5, <1>8, <2>2
  <2>4. after \in Instants /\ after <= items[i].ceiling /\ t[i] < after + Second
    BY <1>1, <1>8, NotAfterIs
  <2>5. before \in Known \cup {None} /\ (before # None => before <= t[i])
    BY <1>1, <1>8, NotBeforeIs
  <2> DEFINE b == BoundUnknowns(items, anchor)[i]
  <2>6. b.at = p[i] /\ b.notBefore = before /\ b.notAfter = after
    BY <1>3, <1>8
  <2> HIDE DEF before, after, b
  <2>7. b.at \in Placements
    BY <1>1, <2>3, <2>4, <2>6, Numbers DEF Placements, Instants
  <2>8. b.notBefore \in Bound
    BY <2>5, <2>6, Numbers DEF Bound, Placements, Known
  <2>9. QED
    BY <1>8, <2>3, <2>4, <2>5, <2>6, <2>7, <2>8 DEF b
<1>9. QED
  BY <1>7, <1>8

-----------------------------------------------------------------------------
(* What is true in every state.                                            *)

Happened == [boot : 1 .. MaxBootId, epoch : Instants \cup {None}, uptime : Instants,
             at : Instants]

Calls == [pc : {"none", "sent", "stored", "done"}, first : 0 .. MaxEvents + 1,
          last : 0 .. MaxEvents, boot : 0 .. MaxBootId,
          bootStart : Instants \cup {None}, whole : BOOLEAN, heard : BOOLEAN]

Rows == [table : Tables, event : EventIds, at : Placements,
         kind : {"observed", "derived", "unknown"}, notBefore : Bound, notAfter : Bound]

Typed ==
  /\ now \in Instants /\ Second <= now
  /\ bootId \in 1 .. MaxBootId /\ start \in Instants /\ Second <= start /\ start <= now
  /\ clock \in BOOLEAN
  /\ events \in Seq(Happened) /\ Len(events) <= MaxEvents
  /\ ackedTo \in 0 .. Len(events)
  /\ pin \in [boot : 1 .. MaxBootId, start : Instants] \cup {[boot |-> 0, start |-> None]}
  /\ call \in Calls
  /\ faults \in 0 .. MaxFaults

(* What the door recorded, in order.                                       *)
Lived ==
  \A i \in 1 .. Len(events) : LET e == events[i] IN
    /\ e.epoch # None => e.epoch <= e.at /\ e.at < e.epoch + Second
    /\ e.at <= now /\ e.boot <= bootId
    /\ e.boot = bootId => e.at = start + e.uptime
    /\ e.boot < bootId => e.at <= start
    /\ \A j \in 1 .. Len(events) :
         i <= j => e.at <= events[j].at /\ e.boot <= events[j].boot

(* s is when boot b began, to the second: no event of that boot, or of one before,
   says otherwise. *)
StartIs(b, s) ==
  /\ b = bootId => s < start + Second /\ start < s + Second
  /\ \A i \in 1 .. Len(events) : LET e == events[i] IN
       /\ e.boot = b => e.at < s + e.uptime + Second /\ s + e.uptime < e.at + Second
       /\ e.boot < b => e.at < s + Second

(* What the door tells in a call.                                          *)
Told(c) ==
  /\ c.first = ackedTo + 1 /\ c.last \in ackedTo .. Len(events)
  /\ c.boot \in 1 .. bootId
  /\ \A i \in 1 .. c.last : events[i].boot <= c.boot
  /\ c.bootStart \in Instants \cup {None}
  /\ c.bootStart # None => StartIs(c.boot, c.bootStart)

Started ==
  /\ pin.boot <= bootId
  /\ pin.start # None => StartIs(pin.boot, pin.start)
  /\ call.pc # "none" => Told(call) /\ pin.boot <= call.boot

(* What may be said of the i-th event.                                     *)
About(t, i) ==
  /\ t.at \in Placements /\ t.kind \in {"observed", "derived", "unknown"}
  /\ t.notBefore \in Bound /\ t.notAfter \in Bound
  /\ t.kind = "observed" => events[i].epoch # None /\ t.at = events[i].epoch
  /\ t.kind = "derived" => /\ events[i].epoch = None
                           /\ events[i].at < t.at + Second /\ t.at < events[i].at + Second
  /\ t.kind = "unknown" =>
       /\ t.notBefore # None => t.notBefore <= events[i].at /\ t.notBefore <= t.at
       /\ events[i].at < t.notAfter + Second
       /\ t.notAfter \in Instants /\ t.at <= t.notAfter /\ t.notAfter <= now

Filed ==
  \A r \in rows :
    /\ r \in Rows
    /\ r.event <= Len(events) /\ About(r, r.event)

(* What a call says of an event of its batch.                              *)
LEMMA KindIs ==
  ASSUME Typed, Lived, NEW c, Told(c), NEW i \in 1 .. c.last
  PROVE  LET e == events[i] IN
         /\ e \in Happened /\ i \in 1 .. Len(events)
         /\ Kind(e, c) = "observed" =>
              e.epoch # None /\ KnownTime(e, c) = e.epoch
         /\ Kind(e, c) = "derived" =>
              /\ e.epoch = None /\ e.boot = c.boot /\ c.bootStart # None
              /\ c.bootStart \in Instants
              /\ KnownTime(e, c) = c.bootStart + e.uptime
              /\ e.at < KnownTime(e, c) + Second /\ KnownTime(e, c) < e.at + Second
         /\ Kind(e, c) = "unknown" =>
              /\ e.epoch = None /\ KnownTime(e, c) = None
              /\ e.boot < c.boot \/ c.bootStart = None
         /\ Kind(e, c) \in {"observed", "derived", "unknown"}
         /\ KnownTime(e, c) \in Known \cup {None}
         /\ KnownTime(e, c) = None <=> Kind(e, c) = "unknown"
         /\ Ceiling(e, c) \in Instants /\ Ceiling(e, c) <= now
         /\ e.at < Ceiling(e, c) + Second
<1> DEFINE e == events[i]
<1>1. i \in 1 .. Len(events)
  BY DEF Told, Typed
<1>2. e \in Happened
  BY <1>1 DEF Typed
<1>3. /\ e.boot \in 1 .. MaxBootId /\ e.epoch \in Instants \cup {None}
      /\ e.uptime \in Instants /\ e.at \in Instants
  BY <1>2 DEF Happened
<1>4. /\ e.epoch # None => e.epoch <= e.at /\ e.at < e.epoch + Second
      /\ e.at <= now
  BY <1>1 DEF Lived
<1>5. /\ e.boot <= c.boot /\ c.boot \in Int
      /\ c.bootStart \in Instants \cup {None}
      /\ c.bootStart # None =>
           /\ e.boot = c.boot =>
                /\ e.at < c.bootStart + e.uptime + Second
                /\ c.bootStart + e.uptime < e.at + Second
           /\ e.boot < c.boot => e.at < c.bootStart + Second
  BY <1>1 DEF Told, StartIs, Typed
<1>6. now \in Instants
  BY DEF Typed
<1> HIDE DEF e
<1>7. CASE e.epoch # None
  <2>1. Kind(e, c) = "observed" /\ KnownTime(e, c) = e.epoch
    BY <1>7 DEF Kind, KnownTime
  <2>2. KnownTime(e, c) \in Known /\ KnownTime(e, c) # None
    BY <1>3, <1>7, <2>1, Numbers DEF Known, Instants
  <2>3. /\ Ceiling(e, c) \in Instants /\ Ceiling(e, c) <= now
        /\ e.at < Ceiling(e, c) + Second
    BY <1>3, <1>4, <1>5, <1>6, Numbers DEF Ceiling, Smaller, Instants
  <2>4. QED
    BY <1>1, <1>2, <1>7, <2>1, <2>2, <2>3 DEF e
<1>8. CASE e.epoch = None
  <2>1. /\ Ceiling(e, c) \in Instants /\ Ceiling(e, c) <= now
        /\ e.at < Ceiling(e, c) + Second
    BY <1>3, <1>4, <1>5, <1>6, Numbers DEF Ceiling, Smaller, Instants
  <2>2. CASE e.boot = c.boot /\ c.bootStart # None
    <3>1. c.bootStart \in Instants /\ c.bootStart + e.uptime <= now + Tolerance
      BY <1>3, <1>4, <1>5, <1>6, <2>2, Numbers DEF Instants
    <3>2. Kind(e, c) = "derived" /\ KnownTime(e, c) = c.bootStart + e.uptime
      BY <1>8, <2>2, <3>1 DEF Kind, KnownTime
    <3>3. KnownTime(e, c) \in Known /\ KnownTime(e, c) # None
      BY <1>3, <1>6, <3>1, <3>2, Numbers DEF Known, Instants
    <3>4. /\ e.at < KnownTime(e, c) + Second /\ KnownTime(e, c) < e.at + Second
      BY <1>5, <2>2, <3>2
    <3>5. QED
      BY <1>1, <1>2, <1>8, <2>1, <2>2, <3>1, <3>2, <3>3, <3>4 DEF e
  <2>3. CASE ~(e.boot = c.boot /\ c.bootStart # None)
    <3>1. Kind(e, c) = "unknown" /\ KnownTime(e, c) = None
      BY <1>8, <2>3 DEF Kind, KnownTime
    <3>2. e.boot < c.boot \/ c.bootStart = None
      BY <1>3, <1>5, <2>3
    <3>3. QED
      BY <1>1, <1>2, <1>8, <2>1, <3>1, <3>2 DEF e
  <2>4. QED
    BY <2>2, <2>3
<1>9. QED
  BY <1>7, <1>8

(* The events of a batch.                                                  *)
LEMMA BatchIs ==
  ASSUME Typed, NEW c, Told(c)
  PROVE  /\ Len(Batch(c)) = c.last - ackedTo /\ Len(Batch(c)) \in 0 .. MaxEvents
         /\ \A i \in 1 .. Len(Batch(c)) :
              /\ Batch(c)[i] = events[c.first + i - 1]
              /\ c.first + i - 1 \in 1 .. c.last /\ c.first + i - 1 \in 1 .. Len(events)
<1>1. /\ events \in Seq(Happened) /\ ackedTo \in Nat /\ Len(events) \in Nat
      /\ c.last \in Nat /\ ackedTo <= c.last /\ c.last <= Len(events)
      /\ c.first = ackedTo + 1 /\ Len(events) <= MaxEvents
  BY DEF Typed, Told
<1>2. Len(Batch(c)) = c.last - ackedTo
  BY <1>1 DEF Batch
<1>3. \A i \in 1 .. Len(Batch(c)) : Batch(c)[i] = events[c.first + i - 1]
  BY <1>1, <1>2 DEF Batch
<1>4. QED
  BY <1>1, <1>2, <1>3, Numbers

ItemsOf(c) ==
  [i \in 1 .. Len(Batch(c)) |-> [known |-> KnownTime(Batch(c)[i], c),
                                 ceiling |-> Ceiling(Batch(c)[i], c)]]

(* What is known of before a batch, or None.                               *)
Anchors(c, anchor) ==
  /\ anchor \in Instants \cup {None}
  /\ \A i \in 1 .. Len(Batch(c)) :
       (\A j \in 1 .. i : KnownTime(Batch(c)[j], c) = None) =>
         anchor = None \/ anchor <= events[c.first + i - 1].at

LEMMA ItemsAreTruthful ==
  ASSUME Typed, Lived, NEW c, Told(c), NEW anchor, Anchors(c, anchor)
  PROVE  /\ Len(ItemsOf(c)) = Len(Batch(c))
         /\ Truthful(ItemsOf(c), anchor,
                     [i \in 1 .. Len(Batch(c)) |-> events[c.first + i - 1].at])
<1> DEFINE n == Len(Batch(c))
           items == ItemsOf(c)
           t == [i \in 1 .. n |-> events[c.first + i - 1].at]
           of(i) == c.first + i - 1
<1>1. n \in Nat /\ c.first \in Nat
  BY BatchIs, Numbers DEF Told, Typed
<1>2. Len(items) = n
  BY <1>1 DEF ItemsOf
<1>3. ASSUME NEW i \in 1 .. n
      PROVE  /\ of(i) \in 1 .. c.last /\ of(i) \in 1 .. Len(events)
             /\ items[i].known = KnownTime(events[of(i)], c)
             /\ items[i].ceiling = Ceiling(events[of(i)], c)
             /\ items[i] \in Item /\ t[i] = events[of(i)].at /\ t[i] \in Instants
  <2>1. Batch(c)[i] = events[of(i)] /\ of(i) \in 1 .. c.last /\ of(i) \in 1 .. Len(events)
    BY BatchIs
  <2>2. items[i] = [known |-> KnownTime(events[of(i)], c),
                    ceiling |-> Ceiling(events[of(i)], c)]
    BY <2>1 DEF ItemsOf
  <2>3. events[of(i)] \in Happened /\ KnownTime(events[of(i)], c) \in Known \cup {None}
        /\ Ceiling(events[of(i)], c) \in Instants
    BY <2>1, KindIs
  <2> HIDE DEF of, items
  <2>4. t[i] = events[of(i)].at
    BY DEF of
  <2>5. QED
    BY <2>1, <2>2, <2>3, <2>4 DEF Item, Happened
<1>4. ASSUME NEW i \in 1 .. n, items[i].known = None
      PROVE  /\ t[i] < items[i].ceiling + Second
             /\ \A j \in 1 .. n : items[j].known # None =>
                  /\ j < i => items[j].known <= t[i]
                  /\ i < j => t[i] < items[j].known + Second
             /\ (\A j \in 1 .. i - 1 : items[j].known = None) =>
                  anchor = None \/ anchor <= t[i]
  <2>1. /\ of(i) \in 1 .. c.last /\ of(i) \in 1 .. Len(events)
        /\ items[i].known = KnownTime(events[of(i)], c)
        /\ items[i].ceiling = Ceiling(events[of(i)], c)
        /\ t[i] = events[of(i)].at /\ t[i] \in Instants
    BY <1>3
  <2> HIDE DEF items, t
  <2>2. /\ t[i] < items[i].ceiling + Second
        /\ events[of(i)].epoch = None
        /\ events[of(i)].boot < c.boot \/ c.bootStart = None
    <3>1. Kind(events[of(i)], c) = "unknown"
      BY <1>4, <2>1, KindIs
    <3>2. QED
      BY <2>1, <3>1, KindIs
  <2>3. ASSUME NEW j \in 1 .. n, items[j].known # None
        PROVE  /\ j < i => items[j].known <= t[i]
               /\ i < j => t[i] < items[j].known + Second
    <3>1. /\ of(j) \in 1 .. c.last /\ of(j) \in 1 .. Len(events)
          /\ items[j].known = KnownTime(events[of(j)], c)
          /\ t[j] = events[of(j)].at /\ t[j] \in Instants
      BY <1>3
    <3>2. /\ i < j => of(i) <= of(j)
          /\ j < i => of(j) <= of(i)
      BY <1>1
    <3> HIDE DEF of
    <3>3. /\ i < j => t[i] <= t[j] /\ events[of(i)].boot <= events[of(j)].boot
          /\ j < i => t[j] <= t[i] /\ events[of(j)].boot <= events[of(i)].boot
      BY <2>1, <3>1, <3>2 DEF Lived
    <3>4. items[j].known \in Known
      BY <2>3, <3>1, KindIs
    <3>5. Kind(events[of(j)], c) \in {"observed", "derived"}
      BY <2>3, <3>1, KindIs
    <3>6. CASE Kind(events[of(j)], c) = "observed"
      <4>1. items[j].known = events[of(j)].epoch /\ events[of(j)].epoch # None
        BY <3>1, <3>6, KindIs
      <4>2. items[j].known <= t[j] /\ t[j] < items[j].known + Second
        BY <3>1, <4>1 DEF Lived
      <4>3. QED
        BY <2>1, <3>1, <3>3, <3>4, <4>2, Numbers DEF Known, Instants
    <3>7. CASE Kind(events[of(j)], c) = "derived"
      <4>1. /\ events[of(j)].boot = c.boot /\ c.bootStart # None
            /\ t[j] < items[j].known + Second
        BY <3>1, <3>7, KindIs
      <4>2. events[of(i)].boot < events[of(j)].boot
        BY <2>2, <4>1
      <4>3. events[of(i)] \in Happened /\ events[of(j)] \in Happened
        BY <2>1, <3>1, KindIs
      <4>4. ~(j < i)
        BY <3>3, <4>2, <4>3 DEF Happened
      <4>5. QED
        BY <2>1, <3>1, <3>3, <3>4, <4>1, <4>4, Numbers DEF Known, Instants
    <3>8. QED
      BY <3>5, <3>6, <3>7
  <2>4. ASSUME \A j \in 1 .. i - 1 : items[j].known = None
        PROVE  anchor = None \/ anchor <= t[i]
    <3>1. ASSUME NEW j \in 1 .. i PROVE KnownTime(Batch(c)[j], c) = None
      <4>1. j \in 1 .. n /\ (j = i \/ j \in 1 .. i - 1)
        BY <1>1
      <4>2. items[j].known = None
        BY <1>4, <2>4, <4>1
      <4>3. items[j].known = KnownTime(events[of(j)], c)
        BY <1>3, <4>1
      <4>4. Batch(c)[j] = events[of(j)]
        BY <4>1, BatchIs
      <4>5. QED
        BY <4>2, <4>3, <4>4
    <3>2. anchor = None \/ anchor <= events[of(i)].at
      BY <3>1 DEF Anchors
    <3>3. QED
      BY <2>1, <3>2
  <2>5. QED
    BY <2>2, <2>3, <2>4
<1>5. anchor \in Instants \cup {None}
  BY DEF Anchors
<1>6. Truthful(items, anchor, t)
  <2> HIDE DEF items, t
  <2>1. QED
    BY <1>2, <1>3, <1>4, <1>5 DEF Truthful
<1>7. QED
  BY <1>2, <1>6

(* What a call may file of the i-th event.                                 *)
Says(c, t, i) ==
  /\ t = [at |-> t.at, kind |-> t.kind, notBefore |-> t.notBefore,
          notAfter |-> t.notAfter]
  /\ About(t, i)
  /\ t.kind = Kind(events[i], c)
  /\ t.kind = "derived" => /\ events[i].boot = c.boot /\ c.bootStart # None
                           /\ t.at = c.bootStart + events[i].uptime

(* What Resolve says of the events of a batch is true.                     *)
LEMMA ResolveIs ==
  ASSUME Typed, Lived, NEW c, Told(c), NEW anchor, Anchors(c, anchor),
         NEW i \in 1 .. Len(Batch(c))
  PROVE  Says(c, Resolve(Batch(c), c, anchor)[i], c.first + i - 1)
<1> DEFINE t == Resolve(Batch(c), c, anchor)[i]
           of == c.first + i - 1
           e == events[of]
           items == ItemsOf(c)
           b == BoundUnknowns(items, anchor)[i]
           times == [j \in 1 .. Len(Batch(c)) |-> events[c.first + j - 1].at]
<1>1. /\ Batch(c)[i] = e /\ of \in 1 .. c.last /\ of \in 1 .. Len(events)
      /\ Len(Batch(c)) \in 0 .. MaxEvents
  BY BatchIs
<1>2. t = [at |-> b.at, kind |-> Kind(e, c), notBefore |-> b.notBefore,
           notAfter |-> b.notAfter]
  BY <1>1 DEF Resolve, ItemsOf
<1>3. Len(items) = Len(Batch(c)) /\ Truthful(items, anchor, times)
  BY ItemsAreTruthful
<1>4. items[i].known = KnownTime(e, c) /\ items[i].ceiling = Ceiling(e, c)
  BY <1>1 DEF ItemsOf
<1>5. times[i] = e.at
  OBVIOUS
<1> HIDE DEF items, times
<1>6. IF items[i].known # None
      THEN b = [at |-> items[i].known, notBefore |-> None, notAfter |-> None]
      ELSE /\ b.at \in Placements /\ b.notBefore \in Bound /\ b.notAfter \in Instants
           /\ b.notAfter <= items[i].ceiling /\ b.at <= b.notAfter
           /\ e.at < b.notAfter + Second
           /\ b.notBefore # None => b.notBefore <= e.at /\ b.notBefore <= b.at
  <2>1. Len(items) \in 0 .. MaxEvents /\ i \in 1 .. Len(items)
    BY <1>1, <1>3
  <2> HIDE DEF b
  <2>2. QED
    BY <1>3, <1>5, <2>1, BoundsAreHonest DEF b
<1>7. /\ t.at = b.at /\ t.kind = Kind(e, c) /\ t.notBefore = b.notBefore
      /\ t.notAfter = b.notAfter
  BY <1>2
<1>8. t = [at |-> t.at, kind |-> t.kind, notBefore |-> t.notBefore,
           notAfter |-> t.notAfter]
  BY <1>2
<1> HIDE DEF t, e, b
<1>9. Kind(e, c) \in {"observed", "derived", "unknown"}
  BY <1>1, KindIs DEF e
<1>10. CASE Kind(e, c) = "observed"
  <2>1. e.epoch # None /\ KnownTime(e, c) = e.epoch /\ KnownTime(e, c) # None
        /\ KnownTime(e, c) \in Known
    BY <1>1, <1>10, KindIs DEF e
  <2>2. t.at = e.epoch /\ t.notBefore = None /\ t.notAfter = None
    BY <1>4, <1>6, <1>7, <2>1
  <2>3. t.at \in Placements /\ t.notBefore \in Bound /\ t.notAfter \in Bound
    BY <2>1, <2>2, Numbers DEF Placements, Bound, Known
  <2>4. About(t, of)
    BY <1>7, <1>10, <2>1, <2>2, <2>3 DEF About, e
  <2>5. QED
    BY <1>7, <1>8, <1>10, <2>4 DEF t, e, Says
<1>11. CASE Kind(e, c) = "derived"
  <2>1. /\ e.epoch = None /\ e.boot = c.boot /\ c.bootStart # None
        /\ KnownTime(e, c) = c.bootStart + e.uptime
        /\ e.at < KnownTime(e, c) + Second /\ KnownTime(e, c) < e.at + Second
        /\ KnownTime(e, c) # None /\ KnownTime(e, c) \in Known
    BY <1>1, <1>11, KindIs DEF e
  <2>2. t.at = KnownTime(e, c) /\ t.notBefore = None /\ t.notAfter = None
    BY <1>4, <1>6, <1>7, <2>1
  <2>3. t.at \in Placements /\ t.notBefore \in Bound /\ t.notAfter \in Bound
    BY <2>1, <2>2, Numbers DEF Placements, Bound, Known
  <2>4. About(t, of)
    BY <1>7, <1>11, <2>1, <2>2, <2>3 DEF About, e
  <2>5. QED
    BY <1>7, <1>8, <1>11, <2>1, <2>2, <2>4 DEF t, e, Says, Says
<1>12. CASE Kind(e, c) = "unknown"
  <2>1. KnownTime(e, c) = None /\ Ceiling(e, c) \in Instants /\ Ceiling(e, c) <= now
    BY <1>1, <1>12, KindIs DEF e
  <2>2. /\ t.at \in Placements /\ t.notBefore \in Bound /\ t.notAfter \in Instants
        /\ t.notAfter <= Ceiling(e, c) /\ t.at <= t.notAfter
        /\ e.at < t.notAfter + Second
        /\ t.notBefore # None => t.notBefore <= e.at /\ t.notBefore <= t.at
    BY <1>4, <1>6, <1>7, <2>1
  <2>3. t.notAfter <= now /\ t.notAfter \in Bound
    <3>1. now \in Instants
      BY DEF Typed
    <3>2. Instants \subseteq Bound
      BY Numbers DEF Bound, Placements, Instants
    <3>3. QED
      BY <2>1, <2>2, <3>1, <3>2, Numbers DEF Instants
  <2>4. About(t, of)
    BY <1>7, <1>12, <2>2, <2>3 DEF About, e
  <2>5. QED
    BY <1>7, <1>8, <1>12, <2>4 DEF t, e, Says
<1>13. QED
  BY <1>9, <1>10, <1>11, <1>12

(* What was stored before the q-th event bounds it and those after it.     *)
LEMMA LatestIs ==
  ASSUME Typed, Lived, Filed, NEW q \in 1 .. Len(events)
  PROVE  LET latest == LatestKnownTimeBefore(q) IN
         /\ latest \in Instants \cup {None}
         /\ \A i \in q .. Len(events) : latest = None \/ latest <= events[i].at
<1> DEFINE observed == {r \in rows : /\ r.table = "door" /\ r.kind = "observed"
                                     /\ r.event < q
                                     /\ r.at \div Month >= now \div Month - 2}
           ats == {r.at : r \in observed}
           latest == LatestKnownTimeBefore(q)
<1>1. latest = IF observed = {} THEN None ELSE Max(ats)
  BY DEF LatestKnownTimeBefore
<1>2. events \in Seq(Happened) /\ Len(events) \in Nat
  BY DEF Typed
<1>3. ASSUME NEW r \in observed
      PROVE  /\ r.at \in 0 .. MaxNow
             /\ \A i \in q .. Len(events) : r.at <= events[i].at
  <2>1. /\ r.event \in EventIds /\ r.event <= Len(events) /\ r.event < q
        /\ events[r.event].epoch # None /\ r.at = events[r.event].epoch
    BY DEF Filed, About, Rows
  <2>2. r.event \in 1 .. Len(events) /\ \A i \in q .. Len(events) : r.event <= i
    BY <1>2, <2>1 DEF EventIds
  <2>3. events[r.event] \in Happened /\ \A i \in q .. Len(events) : events[i] \in Happened
    BY <1>2, <2>2
  <2>4. /\ r.at <= events[r.event].at
        /\ \A i \in q .. Len(events) : events[r.event].at <= events[i].at
    BY <2>1, <2>2 DEF Lived
  <2>5. r.at \in Instants /\ events[r.event].at \in Instants
        /\ \A i \in q .. Len(events) : events[i].at \in Instants
    BY <2>1, <2>3 DEF Happened
  <2> HIDE DEF observed
  <2>6. QED
    BY <2>4, <2>5 DEF Instants
<1>4. CASE observed = {}
  BY <1>1, <1>4
<1>5. CASE observed # {}
  <2> HIDE DEF observed
  <2>1. ats # {} /\ ats \subseteq 0 .. MaxNow
    BY <1>3, <1>5
  <2>2. Max(ats) \in ats
    BY <2>1, Numbers, MaxIs
  <2>3. PICK r \in observed : Max(ats) = r.at
    BY <2>2
  <2>4. latest = r.at
    BY <1>1, <1>5, <2>3
  <2>5. QED
    BY <1>3, <2>4 DEF Instants
<1>6. QED
  BY <1>4, <1>5

(* An event before which nothing is known, in the batch or before it, has no floor. *)
LEMMA NothingBefore ==
  ASSUME Typed, Lived, NEW c, Told(c), NEW i \in 1 .. Len(Batch(c)),
         \A j \in 1 .. i : KnownTime(Batch(c)[j], c) = None
  PROVE  /\ Resolve(Batch(c), c, None)[i].kind = "unknown"
         /\ Resolve(Batch(c), c, None)[i].notBefore = None
<1> DEFINE items == ItemsOf(c)
           t == Resolve(Batch(c), c, None)[i]
           b == BoundUnknowns(items, None)[i]
<1>1. /\ Batch(c)[i] = events[c.first + i - 1]
      /\ c.first + i - 1 \in 1 .. c.last /\ Len(Batch(c)) \in Nat
  BY BatchIs, Numbers
<1>2. KnownTime(Batch(c)[i], c) = None
  OBVIOUS
<1>3. Kind(Batch(c)[i], c) = "unknown"
  BY <1>1, <1>2, KindIs
<1>4. t.kind = Kind(Batch(c)[i], c) /\ t.notBefore = b.notBefore
  BY DEF Resolve, ItemsOf
<1>5. \A j \in 1 .. i : items[j].known = None
  <2>1. \A j \in 1 .. i : j \in 1 .. Len(Batch(c))
    BY <1>1
  <2>2. QED
    BY <2>1 DEF ItemsOf
<1>6. Len(items) = Len(Batch(c))
  BY <1>1 DEF ItemsOf
<1> HIDE DEF items
<1>7. {j \in 1 .. i - 1 : items[j].known # None} = {}
  BY <1>5
<1>8. Floor(items, None, i) = None
  BY <1>7 DEF Floor
<1>9. NotBefore(items, None, i) = None
  BY <1>8 DEF NotBefore
<1>10. items[i].known = None
  BY <1>5
<1>11. b.notBefore = NotBefore(items, None, i)
  BY <1>6, <1>10 DEF BoundUnknowns
<1>12. QED
  BY <1>3, <1>4, <1>9, <1>11

(* What ingestEvents is to file is true of the events of the batch.        *)
LEMMA TimesAre ==
  ASSUME Typed, Lived, Filed, NEW c, Told(c)
  PROVE  /\ DOMAIN Times(c) = 1 .. Len(Batch(c))
         /\ \A i \in 1 .. Len(Batch(c)) : Says(c, Times(c)[i], c.first + i - 1)
<1> DEFINE alone == Resolve(Batch(c), c, None)
           unfloored == {i \in DOMAIN alone :
                           alone[i].kind = "unknown" /\ alone[i].notBefore = None}
           q == Min(unfloored)
           latest == LatestKnownTimeBefore(c.first + q - 1)
<1>1. Times(c) = IF unfloored = {} THEN alone ELSE Resolve(Batch(c), c, latest)
  BY DEF Times
<1>2. \A anchor : DOMAIN Resolve(Batch(c), c, anchor) = 1 .. Len(Batch(c))
  BY DEF Resolve
<1>3. CASE unfloored = {}
  <2>1. Anchors(c, None)
    BY DEF Anchors
  <2>2. \A i \in 1 .. Len(Batch(c)) : Says(c, alone[i], c.first + i - 1)
    BY <2>1, ResolveIs
  <2>3. QED
    BY <1>1, <1>2, <1>3, <2>2
<1>4. CASE unfloored # {}
  <2>1. unfloored \subseteq 1 .. Len(Batch(c))
    BY <1>2
  <2>2. q \in unfloored /\ \A i \in unfloored : q <= i
    <3>1. unfloored \subseteq Nat
      BY <2>1
    <3> HIDE DEF unfloored
    <3>2. QED
      BY <1>4, <3>1, MinIs
  <2>3. q \in 1 .. Len(Batch(c))
    BY <2>1, <2>2
  <2>4. \A i \in 1 .. Len(Batch(c)) : c.first + i - 1 \in 1 .. Len(events)
    BY BatchIs
  <2>5. c.first \in Nat /\ Len(Batch(c)) \in Nat
    BY BatchIs, Numbers DEF Told, Typed
  <2>6. /\ latest \in Instants \cup {None}
        /\ \A i \in c.first + q - 1 .. Len(events) : latest = None \/ latest <= events[i].at
    <3>1. c.first + q - 1 \in 1 .. Len(events)
      BY <2>3, <2>4
    <3> HIDE DEF q
    <3>2. QED
      BY <3>1, LatestIs
  <2>7. ASSUME NEW i \in 1 .. Len(Batch(c)),
               \A j \in 1 .. i : KnownTime(Batch(c)[j], c) = None
        PROVE  latest = None \/ latest <= events[c.first + i - 1].at
    <3>1. i \in unfloored
      BY <1>2, <2>7, NothingBefore
    <3>2. q <= i
      BY <2>2, <3>1
    <3>3. c.first + i - 1 \in c.first + q - 1 .. Len(events)
      <4> HIDE DEF q
      <4>1. QED
        BY <2>3, <2>4, <2>5, <3>2
    <3>4. QED
      BY <2>6, <3>3
  <2>8. Anchors(c, latest)
    <3> HIDE DEF latest
    <3>1. QED
      BY <2>6, <2>7 DEF Anchors
  <2>9. \A i \in 1 .. Len(Batch(c)) :
          Says(c, Resolve(Batch(c), c, latest)[i], c.first + i - 1)
    BY <2>8, ResolveIs
  <2>10. QED
    BY <1>1, <1>2, <1>4, <2>9
<1>5. QED
  BY <1>3, <1>4

(* The rows a call is to file: true of their events, one in each table an event
   belongs in, and finitely many. *)
LEMMA NewRowsAre ==
  ASSUME Typed, Lived, Filed, NEW c, Told(c)
  PROVE  /\ \A r \in NewRows(c) :
              /\ r \in Rows
              /\ r.event \in c.first .. c.last /\ r.event <= Len(events)
              /\ About(r, r.event) /\ r.kind = Kind(events[r.event], c)
              /\ r.kind = "derived" =>
                   /\ events[r.event].boot = c.boot /\ c.bootStart # None
                   /\ r.at = c.bootStart + events[r.event].uptime
         /\ \A i \in c.first .. c.last : \A b \in TablesOf(i) :
              \E r \in NewRows(c) : r.event = i /\ r.table = b
         /\ IsFiniteSet(NewRows(c))
<1> DEFINE n == Len(Batch(c))
           times == Times(c)
           row(b, i) == [table |-> b, event |-> c.first + i - 1, at |-> times[i].at,
                         kind |-> times[i].kind, notBefore |-> times[i].notBefore,
                         notAfter |-> times[i].notAfter]
<1>1. n \in Nat /\ n = c.last - ackedTo /\ n <= MaxEvents
  BY BatchIs, Numbers
<1>2. c.first = ackedTo + 1 /\ ackedTo \in Nat /\ c.last \in Nat /\ c.last <= Len(events)
      /\ Len(events) \in Nat /\ Len(events) <= MaxEvents
  BY DEF Told, Typed
<1>3. DOMAIN times = 1 .. n /\ \A i \in 1 .. n : Says(c, times[i], c.first + i - 1)
  BY TimesAre
<1> HIDE DEF n, times
<1>4. NewRows(c) = UNION {RowsOf(c.first + i - 1, times[i]) : i \in 1 .. n}
  BY <1>3 DEF NewRows, times
<1>5. \A r : r \in NewRows(c) <=>
        \E i \in 1 .. n : \E b \in TablesOf(c.first + i - 1) : r = row(b, i)
  BY <1>4 DEF RowsOf
<1>6. \A i : TablesOf(i) \subseteq Tables
  BY DEF TablesOf, Tables
<1>7. ASSUME NEW r \in NewRows(c)
      PROVE  /\ r \in Rows
             /\ r.event \in c.first .. c.last /\ r.event <= Len(events)
             /\ About(r, r.event) /\ r.kind = Kind(events[r.event], c)
             /\ r.kind = "derived" =>
                  /\ events[r.event].boot = c.boot /\ c.bootStart # None
                  /\ r.at = c.bootStart + events[r.event].uptime
  <2>1. PICK i \in 1 .. n, b \in Tables : r = row(b, i)
    BY <1>5, <1>6
  <2>2. Says(c, times[i], c.first + i - 1)
    BY <1>3
  <2>3. c.first + i - 1 \in c.first .. c.last /\ c.first + i - 1 <= Len(events)
        /\ c.first + i - 1 \in EventIds
    BY <1>1, <1>2, Numbers DEF EventIds
  <2> DEFINE e == c.first + i - 1
  <2>4. r.event = e /\ r.at = times[i].at /\ r.kind = times[i].kind
        /\ r.notBefore = times[i].notBefore /\ r.notAfter = times[i].notAfter
    BY <2>1
  <2> HIDE DEF e
  <2>5. About(times[i], e)
    BY <2>2 DEF Says, e
  <2>6. About(r, e)
    BY <2>4, <2>5 DEF About
  <2>7. r \in Rows
    BY <2>1, <2>3, <2>5 DEF About, Rows
  <2>8. /\ r.kind = Kind(events[e], c)
        /\ r.kind = "derived" => /\ events[e].boot = c.boot /\ c.bootStart # None
                                 /\ r.at = c.bootStart + events[e].uptime
    BY <2>2, <2>4 DEF Says, e
  <2>9. e \in c.first .. c.last /\ e <= Len(events)
    BY <2>3 DEF e
  <2>10. QED
    BY <2>4, <2>6, <2>7, <2>8, <2>9
<1>8. ASSUME NEW i \in c.first .. c.last, NEW b \in TablesOf(i)
      PROVE  \E r \in NewRows(c) : r.event = i /\ r.table = b
  <2> DEFINE k == i - c.first + 1
  <2>1. k \in 1 .. n /\ c.first + k - 1 = i
    BY <1>1, <1>2
  <2> HIDE DEF k
  <2>2. row(b, k) \in NewRows(c)
    BY <1>5, <2>1
  <2>3. row(b, k).event = i /\ row(b, k).table = b
    BY <2>1
  <2>4. QED
    BY <2>2, <2>3
<1>9. IsFiniteSet(NewRows(c))
  <2> DEFINE S == Tables \X (1 .. n)
             f == [p \in S |-> row(p[1], p[2])]
             T == {f[p] : p \in S}
  <2>1. IsFiniteSet(1 .. n)
    BY <1>1, FS_Interval
  <2>2. IsFiniteSet(Tables)
    <3>1. IsFiniteSet({} \cup {"person"}) /\ IsFiniteSet({"person"})
      BY FS_EmptySet, FS_AddElement
    <3>2. IsFiniteSet({"person"} \cup {"door"})
      BY <3>1, FS_AddElement
    <3>3. Tables = {"person"} \cup {"door"}
      BY DEF Tables
    <3>4. QED
      BY <3>2, <3>3
  <2>3. IsFiniteSet(S)
    BY <2>1, <2>2, FS_Product
  <2>4. f \in Surjection(S, T)
    BY DEF Surjection
  <2>5. IsFiniteSet(T)
    <3> HIDE DEF S, f, T
    <3>1. QED
      BY <2>3, <2>4, FS_Surjection
  <2>6. NewRows(c) \subseteq T
    <3> SUFFICES ASSUME NEW r \in NewRows(c) PROVE r \in T
      OBVIOUS
    <3>1. PICK i \in 1 .. n, b \in Tables : r = row(b, i)
      BY <1>5, <1>6
    <3>2. <<b, i>> \in S /\ f[<<b, i>>] = row(b, i)
      OBVIOUS
    <3>3. QED
      BY <3>1, <3>2
  <2>7. QED
    BY <2>5, <2>6, FS_Subset
<1>10. QED
  BY <1>7, <1>8, <1>9

(* An upsert keeps a row of every event a table had one of.                *)
LEMMA UpsertIs ==
  ASSUME NEW new
  PROVE  /\ Upsert(new) \subseteq rows \cup new /\ new \subseteq Upsert(new)
         /\ \A r \in rows : \E s \in Upsert(new) : s.table = r.table /\ s.event = r.event
<1>1. ASSUME NEW r \in rows
      PROVE  \E s \in Upsert(new) : s.table = r.table /\ s.event = r.event
  <2>1. CASE \A s \in new : Key(s) # Key(r)
    BY <2>1 DEF Upsert
  <2>2. CASE \E s \in new : Key(s) = Key(r)
    BY <2>2 DEF Upsert, Key
  <2>3. QED
    BY <2>1, <2>2
<1>2. QED
  BY <1>1 DEF Upsert

(* The call as the handler goes on with it, once it knows the boot's start. *)
Begun == [call EXCEPT !.bootStart = BootStart(@, call.boot)]

LEMMA BegunIs ==
  ASSUME Typed, Started, call.pc # "none"
  PROVE  /\ Begun \in Calls
         /\ Told(Begun)
         /\ Begun.boot = call.boot /\ Begun.first = call.first /\ Begun.last = call.last
         /\ pin.boot = call.boot /\ pin.start # None => Begun.bootStart = pin.start
         /\ ~(pin.boot = call.boot /\ pin.start # None) => Begun.bootStart = call.bootStart
<1>1. call \in Calls
  BY DEF Typed
<1>2. pin.start \in Instants \cup {None}
  BY DEF Typed
<1>3. Told(call) /\ (pin.start # None => StartIs(pin.boot, pin.start))
  BY DEF Started
<1>4. /\ Begun.boot = call.boot /\ Begun.first = call.first /\ Begun.last = call.last
      /\ Begun.bootStart = IF pin.boot = call.boot /\ pin.start # None THEN pin.start
                           ELSE call.bootStart
  BY <1>1 DEF Begun, BootStart
<1>5. Begun \in Calls
  BY <1>1, <1>2 DEF Begun, BootStart, Calls
<1>6. Told(Begun)
  <2>1. CASE pin.boot = call.boot /\ pin.start # None
    BY <1>2, <1>3, <1>4, <2>1 DEF Told
  <2>2. CASE ~(pin.boot = call.boot /\ pin.start # None)
    BY <1>3, <1>4, <2>2 DEF Told
  <2>3. QED
    BY <2>1, <2>2
<1>7. QED
  BY <1>4, <1>5, <1>6

-----------------------------------------------------------------------------
(* The inductive invariant.                                                *)
Truth == Typed /\ Lived /\ Started /\ Filed

LEMMA InitTruth == TimeInit => Truth
<1> SUFFICES ASSUME TimeInit PROVE Truth
  OBVIOUS
<1>1. events = <<>> /\ Len(events) = 0 /\ events \in Seq(Happened)
  BY DEF TimeInit
<1>2. Typed
  <2>1. /\ now \in Instants /\ start \in Instants /\ Second <= now /\ Second <= start
        /\ start <= now /\ bootId \in 1 .. MaxBootId /\ faults \in 0 .. MaxFaults
    BY Numbers, EventTimeAssumption DEF TimeInit, Instants
  <2>2. ackedTo \in 0 .. Len(events) /\ Len(events) <= MaxEvents
    BY <1>1, Numbers DEF TimeInit
  <2>3. call \in Calls
    BY Numbers, EventTimeAssumption DEF TimeInit, NoCall, Calls
  <2>4. clock \in BOOLEAN
    BY DEF TimeInit
  <2>5. QED
    BY <1>1, <2>1, <2>2, <2>3, <2>4 DEF Typed, TimeInit
<1>3. Lived /\ Filed
  BY <1>1 DEF TimeInit, Lived, Filed
<1>4. Started
  BY Numbers DEF TimeInit, Started, NoCall
<1>5. QED
  BY <1>2, <1>3, <1>4 DEF Truth

(* What is filed stays true while time goes on and events are added.       *)
LEMMA FiledStays ==
  ASSUME Typed, Filed, now' \in Int, now <= now', Len(events) <= Len(events'),
         Len(events') \in Nat, \A i \in 1 .. Len(events) : events'[i] = events[i],
         rows' = rows
  PROVE  Filed'
<1> SUFFICES ASSUME NEW r \in rows PROVE
      r \in Rows /\ r.event <= Len(events') /\ About(r, r.event)'
  BY DEF Filed, Rows
<1>1. r \in Rows /\ r.event <= Len(events) /\ About(r, r.event)
  BY DEF Filed, Rows
<1>2. r.event \in 1 .. Len(events) /\ events'[r.event] = events[r.event]
  BY <1>1, Numbers DEF Rows, EventIds, Typed
<1>3. r.event <= Len(events')
  BY <1>1, <1>2 DEF Typed
<1>4. now \in Int
  BY DEF Typed, Instants
<1>5. About(r, r.event)'
  BY <1>1, <1>2, <1>4 DEF About, Instants
<1>6. QED
  BY <1>1, <1>3, <1>5

LEMMA TickKeepsTruth ==
  ASSUME Truth, Tick PROVE Truth'
<1> USE DEF Tick, door
<1>1. now \in Instants /\ now' = now + 1 /\ now' \in Instants
  BY Numbers DEF Truth, Typed, Instants
<1>2. Typed'
  BY <1>1, Numbers DEF Truth, Typed, Instants
<1>3. Lived'
  <2>1. \A i \in 1 .. Len(events) : events[i].at \in Int
    <3>1. \A i \in 1 .. Len(events) : events[i] \in Happened
      BY DEF Truth, Typed
    <3>2. QED
      BY <3>1 DEF Happened, Instants
  <2>2. QED
    BY <1>1, <2>1 DEF Truth, Lived, Instants
<1>4. Started'
  BY DEF Truth, Started, Told, StartIs
<1>5. Filed'
  BY <1>1, FiledStays DEF Truth, Typed, Instants
<1>6. QED
  BY <1>2, <1>3, <1>4, <1>5 DEF Truth

LEMMA ClockSetKeepsTruth ==
  ASSUME Truth, ClockSet PROVE Truth'
<1> USE DEF ClockSet
<1>1. Typed' /\ Lived' /\ Started'
  BY DEF Truth, Typed, Lived, Started, Told, StartIs
<1>2. Filed'
  BY DEF Truth, Filed, About
<1>3. QED
  BY <1>1, <1>2 DEF Truth

LEMMA RecordKeepsTruth ==
  ASSUME Truth, Record PROVE Truth'
<1> DEFINE new == [boot |-> bootId, epoch |-> IF clock THEN Seconds(now) ELSE None,
                   uptime |-> now - start, at |-> now]
           n == Len(events)
<1>1. /\ events' = Append(events, new) /\ n < MaxEvents
      /\ now' = now /\ bootId' = bootId /\ start' = start /\ clock' = clock
      /\ ackedTo' = ackedTo /\ pin' = pin /\ call' = call /\ rows' = rows
      /\ faults' = faults
  BY DEF Record
<1>2. /\ now \in Instants /\ start \in Instants /\ start <= now
      /\ bootId \in 1 .. MaxBootId /\ events \in Seq(Happened) /\ n \in Nat
      /\ ackedTo \in 0 .. n
  BY DEF Truth, Typed
<1>3. Seconds(now) \in Instants /\ Seconds(now) <= now /\ now < Seconds(now) + Second
  <2>1. now \in Nat /\ now <= MaxNow
    BY <1>2, Numbers DEF Instants
  <2>2. Seconds(now) \in Nat /\ Seconds(now) <= now /\ now < Seconds(now) + Second
    BY <2>1, SecondsIs
  <2>3. QED
    BY <2>1, <2>2, Numbers DEF Instants
<1>4. new \in Happened
  BY <1>2, <1>3, Numbers DEF Happened, Instants
<1> HIDE DEF new
<1>5. /\ events' \in Seq(Happened) /\ Len(events') = n + 1 /\ events'[n + 1] = new
      /\ \A i \in 1 .. n : events'[i] = events[i]
  BY <1>1, <1>2, <1>4
<1>6. Typed'
  BY <1>1, <1>2, <1>5, Numbers DEF Truth, Typed
<1>7. /\ new.boot = bootId /\ new.at = now /\ new.uptime = now - start
      /\ new.epoch # None => new.epoch <= now /\ now < new.epoch + Second
  BY <1>3 DEF new
<1>8. Lived'
  <2>1. ASSUME NEW i \in 1 .. n PROVE
          /\ events[i].epoch # None =>
               events[i].epoch <= events[i].at /\ events[i].at < events[i].epoch + Second
          /\ events[i].at <= now /\ events[i].boot <= bootId
          /\ events[i].boot = bootId => events[i].at = start + events[i].uptime
          /\ events[i].boot < bootId => events[i].at <= start
          /\ \A j \in 1 .. n : i <= j =>
               events[i].at <= events[j].at /\ events[i].boot <= events[j].boot
    BY DEF Truth, Lived
  <2>2. \A i \in 1 .. n + 1 : i \in 1 .. n \/ i = n + 1
    BY <1>2
  <2>3. \A i \in 1 .. n : ~(n + 1 <= i)
    BY <1>2
  <2>4. /\ now = start + new.uptime /\ ~(bootId < bootId) /\ now <= now /\ bootId <= bootId
    BY <1>2, <1>7 DEF Instants
  <2>5. ASSUME NEW i \in 1 .. n + 1 PROVE
          /\ events'[i].epoch # None =>
               events'[i].epoch <= events'[i].at /\ events'[i].at < events'[i].epoch + Second
          /\ events'[i].at <= now /\ events'[i].boot <= bootId
          /\ events'[i].boot = bootId => events'[i].at = start + events'[i].uptime
          /\ events'[i].boot < bootId => events'[i].at <= start
    BY <1>5, <1>7, <2>1, <2>2, <2>4
  <2>6. ASSUME NEW i \in 1 .. n + 1, NEW j \in 1 .. n + 1, i <= j PROVE
          events'[i].at <= events'[j].at /\ events'[i].boot <= events'[j].boot
    BY <1>5, <1>7, <2>1, <2>2, <2>3, <2>4, <2>6
  <2>7. QED
    BY <1>1, <1>5, <2>5, <2>6 DEF Lived
<1>9. ASSUME NEW b \in Int, NEW s \in Instants, b <= bootId, StartIs(b, s)
      PROVE  StartIs(b, s)'
  <2>1. b = bootId => s < start + Second /\ start < s + Second
    BY <1>9 DEF StartIs
  <2>2. ASSUME NEW i \in 1 .. n + 1 PROVE
          /\ events'[i].boot = b => /\ events'[i].at < s + events'[i].uptime + Second
                                    /\ s + events'[i].uptime < events'[i].at + Second
          /\ events'[i].boot < b => events'[i].at < s + Second
    <3>1. CASE i \in 1 .. n
      BY <1>5, <1>9, <3>1 DEF StartIs
    <3>2. CASE i = n + 1
      <4>1. events'[i] = new
        BY <1>5, <3>2
      <4>2. QED
        BY <1>2, <1>7, <1>9, <2>1, <4>1, Numbers DEF Instants
    <3>3. QED
      BY <1>2, <3>1, <3>2
  <2>3. QED
    BY <1>1, <1>5, <2>1, <2>2 DEF StartIs
<1>10. Started'
  <2>1. /\ pin.start # None => StartIs(pin.boot, pin.start)'
    <3>1. pin.start # None => pin.start \in Instants /\ pin.boot \in Int /\ pin.boot <= bootId
      BY DEF Truth, Typed, Started
    <3>2. QED
      BY <1>9, <1>1, <3>1 DEF Truth, Started
  <2>2. call.pc # "none" => Told(call)'
    <3> SUFFICES ASSUME call.pc # "none" PROVE Told(call)'
      OBVIOUS
    <3>1. Told(call)
      BY DEF Truth, Started
    <3>2. call.bootStart # None => StartIs(call.boot, call.bootStart)'
      <4>1. call.bootStart # None =>
              call.bootStart \in Instants /\ call.boot \in Int /\ call.boot <= bootId
        BY <3>1 DEF Told
      <4>2. QED
        BY <1>1, <1>9, <3>1, <4>1 DEF Told
    <3>3. \A i \in 1 .. call.last : events'[i].boot <= call.boot
      BY <1>2, <1>5, <3>1 DEF Told
    <3>4. QED
      BY <1>1, <1>2, <1>5, <3>1, <3>2, <3>3 DEF Told
  <2>3. QED
    BY <1>1, <2>1, <2>2 DEF Truth, Started
<1>11. Filed'
  BY <1>1, <1>2, <1>5, FiledStays DEF Truth, Instants
<1>12. QED
  BY <1>6, <1>8, <1>10, <1>11 DEF Truth

LEMMA RebootKeepsTruth ==
  ASSUME Truth, Reboot PROVE Truth'
<1>1. /\ bootId < MaxBootId /\ bootId' = bootId + 1 /\ start' = now
      /\ clock' \in {clock, FALSE} /\ call' = [call EXCEPT !.heard = FALSE]
      /\ now' = now /\ events' = events /\ ackedTo' = ackedTo /\ pin' = pin
      /\ rows' = rows /\ faults' = faults
  BY DEF Reboot
<1>2. /\ now \in Instants /\ Second <= now /\ bootId \in 1 .. MaxBootId
      /\ events \in Seq(Happened) /\ Len(events) \in Nat /\ ackedTo \in 0 .. Len(events)
      /\ start \in Instants /\ start <= now
  BY DEF Truth, Typed
<1>3. call \in Calls
  BY DEF Truth, Typed, Calls
<1>4. /\ call'.pc = call.pc /\ call'.first = call.first /\ call'.last = call.last
      /\ call'.boot = call.boot /\ call'.bootStart = call.bootStart /\ call' \in Calls
  <2>1. FALSE \in BOOLEAN
    OBVIOUS
  <2>2. QED
    BY <1>1, <1>3, <2>1 DEF Calls
<1>5. clock' \in BOOLEAN
  <2>1. clock \in BOOLEAN
    BY DEF Truth, Typed
  <2>2. QED
    BY <1>1, <2>1
<1>6. Typed'
  <2>1. bootId' \in 1 .. MaxBootId
    BY <1>1, <1>2, EventTimeAssumption
  <2>2. start' \in Instants /\ Second <= start' /\ start' <= now'
    BY <1>1, <1>2, Numbers DEF Instants
  <2>3. QED
    BY <1>1, <1>4, <1>5, <2>1, <2>2 DEF Truth, Typed, Calls
<1>7. Lived'
  <2>1. \A i \in 1 .. Len(events) : events[i].boot \in Int
    <3>1. \A i \in 1 .. Len(events) : events[i] \in Happened
      BY <1>2
    <3>2. QED
      BY <3>1 DEF Happened
  <2>2. \A i \in 1 .. Len(events) : events[i].boot <= bootId /\ events[i].at <= now
    BY DEF Truth, Lived
  <2>3. \A i \in 1 .. Len(events) : events[i].boot <= bootId + 1 /\ events[i].boot # bootId + 1
    BY <1>2, <2>1, <2>2
  <2>4. QED
    BY <1>1, <2>2, <2>3 DEF Truth, Lived
<1>8. ASSUME NEW b \in Int, NEW s, b <= bootId, StartIs(b, s) PROVE StartIs(b, s)'
  <2>1. b # bootId'
    BY <1>1, <1>2, <1>8
  <2>2. QED
    BY <1>1, <1>8, <2>1 DEF StartIs
<1>9. Started'
  <2>1. pin.boot \in Int /\ pin.boot <= bootId
    BY DEF Truth, Typed, Started
  <2>2. pin.start # None => StartIs(pin.boot, pin.start)'
    BY <1>1, <1>8, <2>1 DEF Truth, Started
  <2>3. pin.boot <= bootId'
    BY <1>1, <1>2, <2>1
  <2>4. ASSUME call.pc # "none" PROVE Told(call)' /\ pin.boot <= call'.boot
    <3>1. Told(call) /\ pin.boot <= call.boot
      BY <2>4 DEF Truth, Started
    <3>2. call.boot \in 1 .. bootId /\ call.boot \in 1 .. bootId'
      BY <1>1, <1>2, <3>1 DEF Told
    <3>3. call.bootStart # None => StartIs(call.boot, call.bootStart)'
      BY <1>4, <1>8, <3>1, <3>2 DEF Told
    <3>4. QED
      BY <1>1, <1>4, <3>1, <3>2, <3>3 DEF Told
  <2>5. QED
    BY <1>1, <1>4, <2>2, <2>3, <2>4 DEF Started
<1>10. Filed'
  BY <1>1 DEF Truth, Filed, About
<1>11. QED
  BY <1>6, <1>7, <1>9, <1>10 DEF Truth

LEMMA SyncSendKeepsTruth ==
  ASSUME Truth, SyncSend PROVE Truth'
<1> DEFINE last == Min({ackedTo + BatchSize, Len(events)})
<1>1. /\ call' = [NoCall EXCEPT !.pc = "sent", !.heard = TRUE, !.first = ackedTo + 1,
                                !.last = last, !.boot = bootId, !.bootStart = BootEpoch]
      /\ now' = now /\ bootId' = bootId /\ start' = start /\ clock' = clock
      /\ events' = events /\ ackedTo' = ackedTo /\ pin' = pin /\ rows' = rows
      /\ faults' = faults
  BY DEF SyncSend, door
<1>2. /\ now \in Instants /\ Second <= now /\ bootId \in 1 .. MaxBootId
      /\ events \in Seq(Happened) /\ Len(events) \in Nat /\ ackedTo \in 0 .. Len(events)
      /\ start \in Instants /\ start <= now /\ Second <= start /\ Len(events) <= MaxEvents
      /\ pin.boot <= bootId
  BY DEF Truth, Typed, Started
<1>3. last \in ackedTo .. Len(events)
  <2>1. ackedTo + BatchSize \in Nat /\ ackedTo <= ackedTo + BatchSize
    BY <1>2, EventTimeAssumption
  <2>2. {ackedTo + BatchSize, Len(events)} \subseteq Nat
    BY <1>2, <2>1
  <2>3. /\ last \in {ackedTo + BatchSize, Len(events)}
        /\ \A m \in {ackedTo + BatchSize, Len(events)} : last <= m
    BY <2>2, MinIs
  <2> HIDE DEF last
  <2>4. QED
    BY <1>2, <2>1, <2>3
<1>4. BootEpoch \in Instants \cup {None}
      /\ (BootEpoch # None => BootEpoch < start + Second /\ start < BootEpoch + Second)
  <2>1. now \in Nat /\ start \in Nat /\ now <= MaxNow
    BY <1>2, Numbers DEF Instants
  <2>2. BootEpoch # None =>
          /\ BootEpoch \in Nat /\ BootEpoch <= now
          /\ start < BootEpoch + Second /\ BootEpoch < start + Second
    BY <1>2, <2>1, BootEpochIs
  <2>3. QED
    BY <2>1, <2>2, Numbers DEF Instants
<1> HIDE DEF last
<1>5. /\ call'.pc = "sent" /\ call'.first = ackedTo + 1 /\ call'.last = last
      /\ call'.boot = bootId /\ call'.bootStart = BootEpoch
  BY <1>1 DEF NoCall
<1>6. call' \in Calls
  <2>1. /\ ackedTo + 1 \in 0 .. MaxEvents + 1 /\ last \in 0 .. MaxEvents
        /\ bootId \in 0 .. MaxBootId
    BY <1>2, <1>3, EventTimeAssumption
  <2>2. call' = [pc |-> "sent", first |-> ackedTo + 1, last |-> last, boot |-> bootId,
                 bootStart |-> BootEpoch, whole |-> FALSE, heard |-> TRUE]
    BY <1>1, Zenon DEF NoCall
  <2>3. FALSE \in BOOLEAN /\ TRUE \in BOOLEAN
    OBVIOUS
  <2>4. QED
    BY <1>4, <2>1, <2>2, <2>3 DEF Calls
<1>7. Typed'
  BY <1>1, <1>6 DEF Truth, Typed, Calls
<1>8. Lived' /\ Filed'
  BY <1>1 DEF Truth, Lived, Filed, About
<1>9. BootEpoch # None => StartIs(bootId, BootEpoch)
  <2> SUFFICES ASSUME BootEpoch # None PROVE StartIs(bootId, BootEpoch)
    OBVIOUS
  <2>1. BootEpoch \in Int /\ start \in Int
    BY <1>2, <1>4 DEF Instants
  <2>2. ASSUME NEW i \in 1 .. Len(events)
        PROVE  /\ events[i].boot = bootId =>
                    /\ events[i].at < BootEpoch + events[i].uptime + Second
                    /\ BootEpoch + events[i].uptime < events[i].at + Second
               /\ events[i].boot < bootId => events[i].at < BootEpoch + Second
    <3>1. events[i].at \in Int /\ events[i].uptime \in Int
      <4>1. events[i] \in Happened
        BY <1>2
      <4>2. QED
        BY <4>1 DEF Happened, Instants
    <3>2. /\ events[i].boot = bootId => events[i].at = start + events[i].uptime
          /\ events[i].boot < bootId => events[i].at <= start
      BY DEF Truth, Lived
    <3>3. QED
      BY <1>4, <2>1, <3>1, <3>2, Numbers
  <2>3. QED
    BY <1>4, <2>2 DEF StartIs
<1>10. Started'
  <2>1. BootEpoch' = BootEpoch
    BY <1>1 DEF BootEpoch, Seconds
  <2>2. pin.start # None => StartIs(pin.boot, pin.start)'
    BY <1>1 DEF Truth, Started, StartIs
  <2>3. call'.bootStart # None => StartIs(call.boot, call.bootStart)'
    BY <1>1, <1>5, <1>9 DEF StartIs
  <2>4. \A i \in 1 .. last : events[i].boot <= bootId
    BY <1>2, <1>3 DEF Truth, Lived
  <2>5. Told(call)'
    BY <1>1, <1>2, <1>3, <1>4, <1>5, <2>3, <2>4 DEF Told
  <2>6. QED
    BY <1>1, <1>2, <1>5, <2>2, <2>5 DEF Started
<1>11. QED
  BY <1>7, <1>8, <1>10 DEF Truth

LEMMA IngestIs ==
  ASSUME Ingest
  PROVE  /\ call.pc = "sent"
         /\ \E failed \in SUBSET NewRows(Begun) :
              /\ faults + Cardinality(failed) <= MaxFaults
              /\ faults' = faults + Cardinality(failed)
              /\ rows' = Upsert(NewRows(Begun) \ failed)
              /\ call' = [Begun EXCEPT !.pc = "stored",
                                       !.whole = Whole(NewRows(Begun), failed)]
         /\ now' = now /\ bootId' = bootId /\ start' = start /\ clock' = clock
         /\ events' = events /\ ackedTo' = ackedTo /\ pin' = pin
  BY DEF Ingest, Begun, door

LEMMA IngestKeepsTruth ==
  ASSUME Truth, Ingest PROVE Truth'
<1> DEFINE new == NewRows(Begun)
<1>1. PICK failed \in SUBSET new :
        /\ faults + Cardinality(failed) <= MaxFaults
        /\ faults' = faults + Cardinality(failed)
        /\ rows' = Upsert(new \ failed)
        /\ call' = [Begun EXCEPT !.pc = "stored", !.whole = Whole(new, failed)]
  BY IngestIs
<1>2. /\ call.pc = "sent"
      /\ now' = now /\ bootId' = bootId /\ start' = start /\ clock' = clock
      /\ events' = events /\ ackedTo' = ackedTo /\ pin' = pin
  BY IngestIs
<1>3. Begun \in Calls /\ Told(Begun) /\ Begun.boot = call.boot
  BY <1>2, BegunIs DEF Truth, Calls
<1>4. /\ call'.pc = "stored" /\ call'.first = Begun.first /\ call'.last = Begun.last
      /\ call'.boot = Begun.boot /\ call'.bootStart = Begun.bootStart
  BY <1>1, <1>3 DEF Calls
<1>5. call' \in Calls
  <2>1. Whole(new, failed) \in BOOLEAN
    BY DEF Whole
  <2>2. QED
    BY <1>1, <1>3, <2>1 DEF Calls
<1>6. faults' \in 0 .. MaxFaults
  <2>1. IsFiniteSet(new)
    BY <1>3, NewRowsAre DEF Truth
  <2>2. IsFiniteSet(failed)
    BY <2>1, FS_Subset
  <2>3. Cardinality(failed) \in Nat
    BY <2>2, FS_CardinalityType
  <2>4. faults \in 0 .. MaxFaults
    BY DEF Truth, Typed
  <2>5. QED
    BY <1>1, <2>3, <2>4, EventTimeAssumption
<1>7. Typed'
  BY <1>2, <1>5, <1>6 DEF Truth, Typed, Calls
<1>8. Lived'
  BY <1>2 DEF Truth, Lived
<1>9. Started'
  <2>1. Told(call)'
    BY <1>2, <1>3, <1>4 DEF Told, StartIs
  <2>2. pin.start # None => StartIs(pin.boot, pin.start)'
    BY <1>2 DEF Truth, Started, StartIs
  <2>3. QED
    BY <1>2, <1>3, <1>4, <2>1, <2>2 DEF Truth, Started
<1>10. Filed'
  <2>1. rows' \subseteq rows \cup new
    BY <1>1, UpsertIs
  <2>2. \A r \in new : r \in Rows /\ r.event <= Len(events) /\ About(r, r.event)
    BY <1>3, NewRowsAre DEF Truth, Rows
  <2>3. \A r \in rows : r \in Rows /\ r.event <= Len(events) /\ About(r, r.event)
    BY DEF Truth, Filed, Rows
  <2>4. \A r \in rows' : r \in Rows /\ r.event <= Len(events') /\ About(r, r.event)'
    BY <1>2, <2>1, <2>2, <2>3 DEF About
  <2>5. QED
    BY <2>4 DEF Filed, Rows
<1>11. QED
  BY <1>7, <1>8, <1>9, <1>10 DEF Truth

LEMMA TouchKeepsTruth ==
  ASSUME Truth, Touch PROVE Truth'
<1>1. /\ call.pc = "stored" /\ pin' = Pinned /\ call' = [call EXCEPT !.pc = "done"]
      /\ now' = now /\ bootId' = bootId /\ start' = start /\ clock' = clock
      /\ events' = events /\ ackedTo' = ackedTo /\ rows' = rows /\ faults' = faults
  BY DEF Touch, door
<1>2. call \in Calls /\ Told(call) /\ pin.boot <= call.boot /\ pin.boot <= bootId
  BY <1>1 DEF Truth, Typed, Started, Calls
<1>3. /\ call'.pc = "done" /\ call'.first = call.first /\ call'.last = call.last
      /\ call'.boot = call.boot /\ call'.bootStart = call.bootStart /\ call' \in Calls
  BY <1>1, <1>2 DEF Calls
<1>4. bootId \in 1 .. MaxBootId
  BY DEF Truth, Typed
<1>5. /\ pin' \in [boot : 1 .. MaxBootId, start : Instants] \cup {[boot |-> 0, start |-> None]}
      /\ pin'.boot <= call.boot /\ pin'.boot <= bootId
      /\ pin'.start # None => StartIs(pin.boot, pin.start)'
  <2>1. CASE call.bootStart = None
    <3>1. pin' = pin
      BY <1>1, <2>1 DEF Pinned
    <3>2. QED
      BY <1>1, <1>2, <3>1 DEF Truth, Typed, Started, StartIs
  <2>2. CASE call.bootStart # None
    <3>1. pin' = [boot |-> call.boot, start |-> call.bootStart]
      BY <1>1, <2>2 DEF Pinned
    <3>2. /\ call.boot \in 1 .. MaxBootId /\ call.boot <= bootId /\ call.boot <= call.boot
          /\ call.bootStart \in Instants /\ StartIs(call.boot, call.bootStart)
      BY <1>2, <1>4, <2>2, EventTimeAssumption DEF Told
    <3>3. pin'.boot = call.boot /\ pin'.start = call.bootStart
      BY <3>1
    <3>4. StartIs(pin.boot, pin.start)'
      BY <1>1, <3>2, <3>3 DEF StartIs
    <3>5. QED
      BY <3>1, <3>2, <3>3, <3>4
  <2>3. QED
    BY <2>1, <2>2
<1>6. Typed'
  BY <1>1, <1>3, <1>5 DEF Truth, Typed, Calls
<1>7. Lived' /\ Filed'
  BY <1>1 DEF Truth, Lived, Filed, About
<1>8. Started'
  BY <1>1, <1>2, <1>3, <1>5 DEF Started, Told, StartIs
<1>9. QED
  BY <1>6, <1>7, <1>8 DEF Truth

LEMMA NoCallIs == NoCall \in Calls /\ NoCall.pc = "none"
<1>1. FALSE \in BOOLEAN
  OBVIOUS
<1>2. QED
  BY <1>1, Numbers, EventTimeAssumption DEF NoCall, Calls

LEMMA SyncEndsKeepsTruth ==
  ASSUME Truth, SyncAnswer \/ SyncLost \/ HandlerFails PROVE Truth'
<1>1. /\ call.pc # "none" /\ call' = NoCall
      /\ ackedTo' \in {ackedTo, call.last}
      /\ now' = now /\ bootId' = bootId /\ start' = start /\ clock' = clock
      /\ events' = events /\ pin' = pin /\ rows' = rows
  BY DEF SyncAnswer, SyncLost, HandlerFails, door
<1>2. faults' \in 0 .. MaxFaults
  BY EventTimeAssumption DEF SyncAnswer, SyncLost, HandlerFails, Truth, Typed
<1>3. ackedTo' \in 0 .. Len(events')
  BY <1>1 DEF Truth, Typed, Started, Told
<1>4. Typed'
  BY <1>1, <1>2, <1>3, NoCallIs DEF Truth, Typed, Calls
<1>5. Lived' /\ Filed'
  BY <1>1 DEF Truth, Lived, Filed, About
<1>6. Started'
  BY <1>1, NoCallIs DEF Truth, Started, StartIs
<1>7. QED
  BY <1>4, <1>5, <1>6 DEF Truth

LEMMA NextKeepsTruth == Truth /\ [TimeNext]_timeVars => Truth'
<1>1. ASSUME Truth, UNCHANGED timeVars PROVE Truth'
  BY <1>1 DEF timeVars, door, Truth, Typed, Lived, Started, Told, StartIs, Filed, About
<1>2. QED
  BY <1>1, TickKeepsTruth, RecordKeepsTruth, ClockSetKeepsTruth, RebootKeepsTruth,
     SyncSendKeepsTruth, IngestKeepsTruth, TouchKeepsTruth, SyncEndsKeepsTruth
  DEF TimeNext

LEMMA AlwaysTruth == TimeSpec => []Truth
  BY InitTruth, NextKeepsTruth, PTL DEF TimeSpec

(* Every variable keeps its type: in particular a start that is stored is  *)
(* one that was known (sync.ts:202), and every row is placed between the   *)
(* instant the backend received it and as many steps before the first as   *)
(* there are events.                                                       *)
THEOREM TimeTypeCorrect == TimeSpec => []TimeTypeOK
<1> DEFINE Drift == adrift \subseteq EventIds
<1>1. Truth /\ Drift => TimeTypeOK
  <2> SUFFICES ASSUME Truth, Drift PROVE TimeTypeOK
    OBVIOUS
  <2>1. \A i \in 1 .. Len(events) : events[i] \in Happened
    BY DEF Truth, Typed
  <2>2. QED
    BY <2>1 DEF Truth, Typed, Filed, TimeTypeOK, Happened, Calls, Rows
<1>2. TimeInit => Drift
  BY DEF TimeInit
<1>3. Truth /\ Drift /\ [TimeNext]_timeVars => Drift'
  <2> SUFFICES ASSUME Truth, Drift, [TimeNext]_timeVars PROVE Drift'
    OBVIOUS
  <2>1. CASE HandlerFails
    <3>1. call.first .. call.last \subseteq EventIds
      BY <2>1, Numbers DEF Truth, Typed, Started, Told, HandlerFails, EventIds
    <3>2. QED
      BY <2>1, <3>1 DEF HandlerFails
  <2>2. CASE ~HandlerFails
    BY <2>2 DEF TimeNext, Tick, Record, ClockSet, Reboot, SyncSend, Ingest, Touch,
       SyncAnswer, SyncLost, timeVars
  <2>3. QED
    BY <2>1, <2>2
<1>4. QED
  BY <1>1, <1>2, <1>3, AlwaysTruth, PTL DEF TimeSpec

(* "Honest bounds" (eventTime.ts:25), for any number of events, boots,     *)
(* batches, lost calls and failed writes: an event whose time is unknown   *)
(* happened within the window of each of its rows and is placed inside it, *)
(* and a time not called unknown is the event's own, to the second.        *)
THEOREM TimesAreHonest == TimeSpec => []Honest
<1>1. Truth => Honest
  <2> SUFFICES ASSUME Truth, NEW r \in rows
      PROVE LET t == events[r.event].at IN
            IF r.kind = "unknown"
              THEN /\ r.notBefore # None => r.notBefore <= t /\ r.notBefore <= r.at
                   /\ t < r.notAfter + Second
                   /\ r.at <= r.notAfter /\ r.notAfter <= now
              ELSE t < r.at + Second /\ r.at < t + Second
    BY DEF Honest
  <2>1. r \in Rows /\ r.event <= Len(events) /\ About(r, r.event)
    BY DEF Truth, Filed, Rows
  <2>2. r.event \in 1 .. Len(events)
    BY <2>1, Numbers DEF Rows, EventIds
  <2>3. CASE r.kind = "observed"
    <3>1. events[r.event].epoch # None /\ r.at = events[r.event].epoch
      BY <2>1, <2>3 DEF About
    <3>2. r.at <= events[r.event].at /\ events[r.event].at < r.at + Second
      BY <2>2, <3>1 DEF Truth, Lived
    <3>3. r.at \in Int /\ events[r.event].at \in Int
      <4>1. events[r.event] \in Happened
        BY <2>2 DEF Truth, Typed
      <4>2. QED
        BY <2>1, <4>1 DEF Rows, Placements, Happened, Instants
    <3>4. QED
      BY <2>3, <3>2, <3>3, Numbers
  <2>4. CASE r.kind # "observed"
    BY <2>1, <2>4 DEF About
  <2>5. QED
    BY <2>3, <2>4
<1>2. QED
  BY <1>1, AlwaysTruth, PTL

-----------------------------------------------------------------------------
(* Every table an event belongs in has a row of it.                        *)
Has(i) == \A b \in TablesOf(i) : \E r \in rows : r.event = i /\ r.table = b

StoredIfWhole ==
  call.pc \in {"stored", "done"} /\ call.whole => \A i \in call.first .. call.last : Has(i)

Stored == (\A i \in 1 .. ackedTo : Has(i)) /\ StoredIfWhole

LEMMA HasStays ==
  ASSUME NEW new, rows' = Upsert(new) \/ rows' = rows, NEW i, Has(i)
  PROVE  Has(i)'
<1> SUFFICES ASSUME NEW b \in TablesOf(i) PROVE \E r \in rows' : r.event = i /\ r.table = b
  BY DEF Has, TablesOf
<1>1. PICK r \in rows : r.event = i /\ r.table = b
  BY DEF Has
<1>2. QED
  BY <1>1, UpsertIs

(* A whole batch is stored before it is acknowledged, and stays so.        *)
LEMMA StoredStep ==
  ASSUME Truth, Stored, [TimeNext]_timeVars PROVE Stored'
<1>1. ASSUME rows' = rows, ackedTo' = ackedTo,
             call' = call \/ call'.pc \in {"none", "sent"}
                          \/ (/\ call'.whole = call.whole /\ call'.first = call.first
                              /\ call'.last = call.last
                              /\ call'.pc \in {"stored", "done"} =>
                                   call.pc \in {"stored", "done"})
      PROVE  Stored'
  BY <1>1 DEF Stored, StoredIfWhole, Has, TablesOf
<1>2. call \in Calls
  BY DEF Truth, Typed, Calls
<1>3. CASE Tick \/ Record \/ ClockSet \/ UNCHANGED timeVars
  BY <1>1, <1>3 DEF Tick, Record, ClockSet, timeVars, door
<1>4. CASE Reboot
  <2>1. /\ call'.whole = call.whole /\ call'.first = call.first
        /\ call'.last = call.last /\ call'.pc = call.pc
    BY <1>2, <1>4 DEF Reboot, Calls
  <2>2. QED
    BY <1>1, <1>4, <2>1 DEF Reboot
<1>5. CASE SyncSend
  <2>1. call'.pc = "sent"
    BY <1>5 DEF SyncSend, NoCall
  <2>2. QED
    BY <1>1, <1>5, <2>1 DEF SyncSend
<1>6. CASE Ingest
  <2> DEFINE new == NewRows(Begun)
  <2>1. PICK failed \in SUBSET new :
          /\ rows' = Upsert(new \ failed)
          /\ call' = [Begun EXCEPT !.pc = "stored", !.whole = Whole(new, failed)]
    BY <1>6, IngestIs
  <2>2. call.pc = "sent" /\ ackedTo' = ackedTo
    BY <1>6, IngestIs
  <2>3. Begun \in Calls /\ Told(Begun)
    BY <2>2, BegunIs DEF Truth, Calls
  <2>4. call'.first = Begun.first /\ call'.last = Begun.last
        /\ call'.whole = Whole(new, failed)
    BY <2>1, <2>3 DEF Calls
  <2>5. ASSUME Whole(new, failed), NEW i \in Begun.first .. Begun.last PROVE Has(i)'
    <3>1. new \subseteq rows'
      BY <2>1, <2>5, UpsertIs DEF Whole
    <3>2. \A b \in TablesOf(i) : \E r \in new : r.event = i /\ r.table = b
      BY <2>3, NewRowsAre DEF Truth
    <3> HIDE DEF new
    <3>3. QED
      BY <3>1, <3>2 DEF Has, TablesOf
  <2>6. \A i \in 1 .. ackedTo : Has(i)'
    BY <2>1, HasStays DEF Stored
  <2> HIDE DEF new
  <2>7. QED
    BY <2>2, <2>4, <2>5, <2>6 DEF Stored, StoredIfWhole
<1>7. CASE Touch
  <2>1. /\ call.pc = "stored" /\ call'.whole = call.whole /\ call'.first = call.first
        /\ call'.last = call.last
    BY <1>2, <1>7 DEF Touch, Calls
  <2>2. QED
    BY <1>1, <1>7, <2>1 DEF Touch
<1>8. CASE SyncAnswer
  <2>1. call.pc = "done" /\ call'.pc = "none" /\ rows' = rows
        /\ ackedTo' = IF call.whole /\ call.heard THEN call.last ELSE ackedTo
    BY <1>8 DEF SyncAnswer, NoCall
  <2>2. \A i : Has(i)' <=> Has(i)
    BY <2>1 DEF Has, TablesOf
  <2>3. /\ call.first = ackedTo + 1 /\ call.last \in ackedTo .. Len(events)
        /\ ackedTo \in Nat /\ Len(events) \in Nat
    BY <2>1 DEF Truth, Started, Told, Typed
  <2>4. \A i \in 1 .. ackedTo' : i \in 1 .. ackedTo \/ (call.whole /\ i \in call.first .. call.last)
    BY <2>1, <2>3
  <2>5. QED
    BY <2>1, <2>2, <2>4 DEF Stored, StoredIfWhole
<1>9. CASE SyncLost \/ HandlerFails
  <2>1. call'.pc = "none"
    BY <1>9 DEF SyncLost, HandlerFails, NoCall
  <2>2. QED
    BY <1>1, <1>9, <2>1 DEF SyncLost, HandlerFails
<1>10. QED
  BY <1>3, <1>4, <1>5, <1>6, <1>7, <1>8, <1>9 DEF TimeNext

(* The door forgets an event only when it is in every table it belongs in, *)
(* whichever writes failed and whichever answers were lost: an upsert      *)
(* replaces a row by one of the same event in the same table.              *)
THEOREM AcknowledgedIsStored == TimeSpec => []AckedIsStored
<1>1. TimeInit => Stored
  BY DEF TimeInit, NoCall, Stored, StoredIfWhole
<1>2. Truth /\ Stored /\ [TimeNext]_timeVars => Stored'
  BY StoredStep
<1>3. Stored => AckedIsStored
  BY DEF Stored, Has, AckedIsStored
<1>4. QED
  BY <1>1, <1>2, <1>3, AlwaysTruth, PTL DEF TimeSpec

-----------------------------------------------------------------------------
(* The start a derived row was reckoned from.                              *)
StartOf(r) == r.at - events[r.event].uptime

Dated(r) ==
  LET b == events[r.event].boot IN
  \/ b < pin.boot
  \/ b = pin.boot /\ StartOf(r) = pin.start
  \/ call.pc = "stored" /\ b = call.boot /\ StartOf(r) = call.bootStart
     /\ r.event \in call.first .. call.last

Steady ==
  /\ \A r \in rows : r.kind = "derived" /\ r.event \notin adrift => Dated(r)
  /\ \A r, s \in rows : r.event = s.event /\ r.event \notin adrift
                          /\ r.kind = "derived" /\ s.kind = "derived" => r.at = s.at
  /\ call.pc = "stored" /\ pin.boot = call.boot /\ pin.start # None =>
       call.bootStart = pin.start

(* Rows derived for one event were reckoned from one start: the stored     *)
(* one, or that of the call which is about to store it; unless one was     *)
(* reckoned from a start its handler did not come to store.                *)
LEMMA SteadyStep ==
  ASSUME Truth, Steady, [TimeNext]_timeVars PROVE Steady'
<1>1. call \in Calls /\ events \in Seq(Happened) /\ Len(events) \in Nat
  BY DEF Truth, Typed, Calls
<1>2. ASSUME NEW r \in rows
      PROVE  r \in Rows /\ r.event \in 1 .. Len(events) /\ events[r.event] \in Happened
  <2>1. r \in Rows /\ r.event \in 1 .. Len(events)
    BY <1>1, Numbers DEF Truth, Filed, Rows, EventIds
  <2>2. QED
    BY <1>1, <2>1
<1>3. ASSUME rows' = rows, \A r \in rows : events'[r.event] = events[r.event], pin' = pin,
             adrift' = adrift,
             \/ /\ call'.pc = call.pc /\ call'.boot = call.boot /\ call'.bootStart = call.bootStart
                /\ call'.first = call.first /\ call'.last = call.last
             \/ call.pc # "stored" /\ call'.pc # "stored"
      PROVE  Steady'
  <2>1. \A r \in rows : StartOf(r)' = StartOf(r)
    BY <1>3 DEF StartOf
  <2>2. \A r \in rows : Dated(r) => Dated(r)'
    BY <1>3, <2>1 DEF Dated
  <2>3. QED
    BY <1>3, <2>2 DEF Steady
<1>4. CASE Tick \/ ClockSet \/ UNCHANGED timeVars
  BY <1>3, <1>4 DEF Tick, ClockSet, timeVars, door
<1>5. CASE Record
  <2>1. \A i \in 1 .. Len(events) : events'[i] = events[i]
    BY <1>1, <1>5 DEF Record
  <2>2. QED
    BY <1>2, <1>3, <1>5, <2>1 DEF Record
<1>6. CASE Reboot
  <2>1. /\ call'.pc = call.pc /\ call'.boot = call.boot /\ call'.bootStart = call.bootStart
        /\ call'.first = call.first /\ call'.last = call.last
    BY <1>1, <1>6 DEF Reboot, Calls
  <2>2. QED
    BY <1>3, <1>6, <2>1 DEF Reboot
<1>7. CASE SyncSend
  <2>1. call.pc = "none" /\ call'.pc = "sent"
    BY <1>7 DEF SyncSend, NoCall
  <2>2. QED
    BY <1>3, <1>7, <2>1 DEF SyncSend, door
<1>8. CASE Ingest
  <2> DEFINE new == NewRows(Begun)
  <2>1. PICK failed \in SUBSET new :
          /\ rows' = Upsert(new \ failed)
          /\ call' = [Begun EXCEPT !.pc = "stored", !.whole = Whole(new, failed)]
    BY <1>8, IngestIs
  <2>2. call.pc = "sent" /\ events' = events /\ pin' = pin /\ adrift' = adrift
    BY <1>8, IngestIs DEF Ingest
  <2>3. /\ Begun \in Calls /\ Told(Begun) /\ Begun.boot = call.boot
        /\ pin.boot = call.boot /\ pin.start # None => Begun.bootStart = pin.start
        /\ pin.boot <= call.boot
    BY <2>2, BegunIs DEF Truth, Calls, Started
  <2>4. /\ call'.pc = "stored" /\ call'.boot = call.boot /\ call'.bootStart = Begun.bootStart
        /\ call'.first = Begun.first /\ call'.last = Begun.last
    BY <2>1, <2>3 DEF Calls
  <2>5. rows' \subseteq rows \cup new
    BY <2>1, UpsertIs
  <2>6. ASSUME NEW r \in new, r.kind = "derived"
        PROVE  /\ events[r.event].boot = call.boot /\ Begun.bootStart # None
               /\ StartOf(r) = Begun.bootStart
               /\ r.at = Begun.bootStart + events[r.event].uptime
               /\ events[r.event] \in Happened
               /\ r.event \in Begun.first .. Begun.last
    <3>1. /\ events[r.event].boot = call.boot /\ Begun.bootStart # None
          /\ r.at = Begun.bootStart + events[r.event].uptime
          /\ r.event \in EventIds /\ r.event <= Len(events)
          /\ r.event \in Begun.first .. Begun.last
      BY <2>3, <2>6, NewRowsAre DEF Truth, Rows
    <3>2. r.event \in 1 .. Len(events)
      BY <1>1, <3>1, Numbers DEF EventIds
    <3>3. events[r.event] \in Happened
      BY <1>1, <3>2
    <3>4. Begun.bootStart \in Int /\ events[r.event].uptime \in Int
      BY <2>3, <3>1, <3>3 DEF Told, Happened, Instants
    <3>5. QED
      BY <3>1, <3>3, <3>4 DEF StartOf
  <2>7. ASSUME NEW r \in rows, r.kind = "derived", r.event \notin adrift,
               events[r.event].boot = call.boot
        PROVE  r.at = Begun.bootStart + events[r.event].uptime
    <3>1. Dated(r)
      BY <2>7 DEF Steady
    <3>2. ~(call.boot < pin.boot)
      BY <1>1, <2>3 DEF Calls, Truth, Typed
    <3>3. call.boot = pin.boot /\ StartOf(r) = pin.start
      BY <2>2, <2>7, <3>1, <3>2 DEF Dated
    <3>4. r.at \in Int /\ events[r.event].uptime \in Int
      BY <1>2 DEF Rows, Placements, Happened, Instants
    <3>5. StartOf(r) \in Int /\ r.at = StartOf(r) + events[r.event].uptime
      BY <3>4 DEF StartOf
    <3>6. pin.start # None
      BY <3>3, <3>5, Numbers
    <3>7. QED
      BY <2>3, <3>3, <3>5, <3>6
  <2> HIDE DEF new
  <2>8. ASSUME NEW r \in rows', r.kind = "derived", r.event \notin adrift PROVE Dated(r)'
    <3>1. CASE r \in rows
      <4>1. Dated(r)
        BY <2>8, <3>1 DEF Steady
      <4>2. StartOf(r)' = StartOf(r)
        BY <2>2 DEF StartOf
      <4>3. QED
        BY <2>2, <4>1, <4>2 DEF Dated
    <3>2. CASE r \in new
      <4>1. StartOf(r)' = Begun.bootStart /\ events'[r.event].boot = call.boot
            /\ r.event \in Begun.first .. Begun.last
        BY <2>2, <2>6, <2>8, <3>2 DEF StartOf
      <4>2. QED
        BY <2>4, <4>1 DEF Dated
    <3>3. QED
      BY <2>5, <3>1, <3>2
  <2>9. ASSUME NEW r \in rows', NEW s \in rows', r.event = s.event, r.event \notin adrift,
               r.kind = "derived", s.kind = "derived"
        PROVE  r.at = s.at
    <3>1. CASE r \in rows /\ s \in rows
      BY <2>9, <3>1 DEF Steady
    <3>2. CASE r \in new \/ s \in new
      BY <2>5, <2>6, <2>7, <2>9, <3>2
    <3>3. QED
      BY <2>5, <3>1, <3>2
  <2>10. QED
    BY <2>2, <2>3, <2>4, <2>8, <2>9 DEF Steady
<1>9. CASE Touch
  <2>1. /\ call.pc = "stored" /\ pin' = Pinned /\ call'.pc = "done" /\ rows' = rows
        /\ events' = events /\ adrift' = adrift
    BY <1>1, <1>9 DEF Touch, Calls, door
  <2>2. Told(call) /\ pin.boot <= call.boot /\ pin.boot \in Int /\ call.boot \in Int
    BY <1>1, <2>1 DEF Truth, Started, Typed, Calls
  <2>3. ASSUME NEW r \in rows, r.kind = "derived", r.event \notin adrift PROVE Dated(r)'
    <3>1. Dated(r) /\ StartOf(r)' = StartOf(r)
      BY <2>1, <2>3 DEF Steady, StartOf
    <3>2. StartOf(r) # None /\ events[r.event].boot \in Int
      <4>1. r.at \in Int /\ events[r.event].uptime \in Int /\ events[r.event].boot \in Int
        BY <1>2 DEF Rows, Placements, Happened, Instants
      <4>2. QED
        BY <4>1, Numbers DEF StartOf
    <3>3. CASE call.bootStart = None
      <4>1. pin' = pin
        BY <2>1, <3>3 DEF Pinned
      <4>2. QED
        BY <2>1, <3>1, <3>2, <3>3, <4>1 DEF Dated
    <3>4. CASE call.bootStart # None
      <4>1. pin'.boot = call.boot /\ pin'.start = call.bootStart
        BY <2>1, <3>4 DEF Pinned
      <4>2. pin.boot = call.boot /\ pin.start # None => call.bootStart = pin.start
        BY <2>1 DEF Steady
      <4>3. QED
        BY <2>1, <2>2, <3>1, <3>2, <4>1, <4>2 DEF Dated
    <3>5. QED
      BY <3>3, <3>4
  <2>4. QED
    BY <2>1, <2>3 DEF Steady
<1>10. CASE SyncAnswer \/ SyncLost
  <2>1. call.pc # "stored" /\ call'.pc # "stored"
    BY <1>10 DEF SyncAnswer, SyncLost, NoCall
  <2>2. QED
    BY <1>3, <1>10, <2>1 DEF SyncAnswer, SyncLost, door
<1>11. CASE HandlerFails
  <2>1. /\ call.pc = "stored" /\ call'.pc = "none" /\ pin' = pin /\ rows' = rows
        /\ events' = events
        /\ adrift' = IF Pinned = pin THEN adrift ELSE adrift \cup (call.first .. call.last)
    BY <1>11 DEF HandlerFails, NoCall, door
  <2>2. ASSUME NEW r \in rows, r.kind = "derived", r.event \notin adrift' PROVE Dated(r)'
    <3>1. Dated(r) /\ StartOf(r)' = StartOf(r)
      BY <2>1, <2>2 DEF Steady, StartOf
    <3>2. StartOf(r) # None
      <4>1. r.at \in Int /\ events[r.event].uptime \in Int
        BY <1>2 DEF Rows, Placements, Happened, Instants
      <4>2. QED
        BY <4>1, Numbers DEF StartOf
    <3>3. CASE Pinned = pin
      <4>1. call.bootStart # None => pin.boot = call.boot /\ pin.start = call.bootStart
        <5>1. [boot |-> call.boot, start |-> call.bootStart].boot = call.boot
              /\ [boot |-> call.boot, start |-> call.bootStart].start = call.bootStart
          OBVIOUS
        <5>2. QED
          BY <3>3, <5>1 DEF Pinned
      <4>2. QED
        BY <2>1, <3>1, <3>2, <4>1 DEF Dated
    <3>4. CASE Pinned # pin
      <4>1. r.event \notin call.first .. call.last
        BY <2>1, <2>2, <3>4
      <4>2. QED
        BY <2>1, <3>1, <4>1 DEF Dated
    <3>5. QED
      BY <3>3, <3>4
  <2>3. QED
    BY <2>1, <2>2 DEF Steady
<1>12. QED
  BY <1>4, <1>5, <1>6, <1>7, <1>8, <1>9, <1>10, <1>11 DEF TimeNext

(* What is filed under a time that is not called unknown is filed under    *)
(* one time only (sync.ts:55), but for events whose handler failed between *)
(* storing them and storing the start it had dated them from.              *)
THEOREM FiledUnderOneTime == TimeSpec => []OneTime
<1>1. TimeInit => Steady
  BY DEF TimeInit, NoCall, Steady
<1>2. Truth /\ Steady /\ [TimeNext]_timeVars => Steady'
  BY SteadyStep
<1>3. Truth /\ Steady => OneTime
  <2> SUFFICES ASSUME Truth, Steady, NEW r \in rows, NEW s \in rows, r.event = s.event,
                      r.event \notin adrift, r.kind # "unknown", s.kind # "unknown"
               PROVE  r.at = s.at
    BY DEF OneTime
  <2>1. /\ r.kind \in {"observed", "derived"} /\ s.kind \in {"observed", "derived"}
        /\ About(r, r.event) /\ About(s, r.event)
    BY DEF Truth, Filed, About
  <2>2. CASE r.kind = "observed" \/ s.kind = "observed"
    BY <2>1, <2>2 DEF About
  <2>3. CASE r.kind = "derived" /\ s.kind = "derived"
    BY <2>3 DEF Steady
  <2>4. QED
    BY <2>1, <2>2, <2>3
<1>4. QED
  BY <1>1, <1>2, <1>3, AlwaysTruth, PTL DEF TimeSpec

=============================================================================
