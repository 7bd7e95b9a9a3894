------------------------- MODULE FirmwareUpdate_proofs -------------------------
(***************************************************************************)
(* Proofs about FirmwareUpdate, for any doors, boards, keys, versions and  *)
(* builds, with and without --force.                                       *)
(*                                                                         *)
(* One invariant, Sound, follows a label from the operator's desk through  *)
(* the record to a door's offer: it names the board and the version of its *)
(* image, its key is the one it is found under, and its image is stored    *)
(* before the record names it.                                             *)
(***************************************************************************)
EXTENDS FirmwareUpdate, TLAPS

\* A label names the board and the version of its image, if that has one.
Honest(r) == /\ r.image.board = r.board
             /\ r.image.version \in {r.version, None}

\* A rollback on offer is one the operator has asked for.
Asked(r) == r.rollback => [key |-> KeyOf[r.board], version |-> r.version] \in taken

DeskSound ==
  /\ publishing # None => Honest(publishing)
  /\ uploaded => publishing # None /\ Stored(publishing) # None

RecordSound == \A k \in Keys : record[k] # None =>
  /\ Honest(record[k]) /\ Asked(record[k])
  /\ KeyOf[record[k].board] = k /\ Stored(record[k]) # None

\* An offer is for the door's board, and leads on from what the door runs or back
\* to where the operator wants it.
OfferSound == \A d \in Doors : offer[d] # None =>
  /\ Honest(offer[d]) /\ Asked(offer[d]) /\ offer[d].board = BoardOf[d]
  /\ \/ running[d].version = None
     \/ offer[d].version > running[d].version
     \/ offer[d].rollback

BoardsSound == \A d \in Doors :
  slot[d].board = BoardOf[d] /\ running[d].board = BoardOf[d]

Sound == DeskSound /\ RecordSound /\ OfferSound /\ BoardsSound

-----------------------------------------------------------------------------
(* A board's key is a key, and no label or image is nothing.               *)
LEMMA Names ==
  /\ \A b \in Boards : KeyOf[b] \in Keys
  /\ \A d \in Doors : BoardOf[d] \in Boards
  /\ None \notin Labels /\ None \notin Images
  /\ \A r \in Labels : r.board \in Boards /\ r.version \in Versions /\ r.image \in Images
<1>1. (\A b \in Boards : KeyOf[b] \in Keys) /\ (\A d \in Doors : BoardOf[d] \in Boards)
  BY FirmwareAssumption DEF Keys
<1>2. None \notin Labels /\ None \notin Images
  BY Zenon, FirmwareAssumption
<1>3. \A r \in Labels : r.board \in Boards /\ r.version \in Versions /\ r.image \in Images
  BY DEF Labels
<1>4. QED
  BY <1>1, <1>2, <1>3

LEMMA InitTyped == Init => TypeOK
<1> SUFFICES ASSUME Init PROVE TypeOK
  OBVIOUS
<1>1. running \in [Doors -> Images] /\ slot \in [Doors -> Images]
  BY DEF Init
<1>2. /\ record \in [Keys -> Labels \cup {None}]
      /\ blob \in [Keys -> [Versions -> Images \cup {None}]]
      /\ offer \in [Doors -> Labels \cup {None}] /\ served \in [Doors -> Labels \cup {None}]
  BY DEF Init
<1>3. publications \in 0 .. MaxPublications /\ flashes \in 0 .. MaxFlashes
  BY FirmwareAssumption DEF Init
<1>4. QED
  BY <1>1, <1>2, <1>3 DEF Init, TypeOK

(* The steps at the operator's desk keep the types.                        *)
LEMMA DeskTyped ==
  ASSUME TypeOK,
         \/ \E i \in Images, v \in Versions, r \in BOOLEAN : CheckImage(i, v, r)
         \/ Upload \/ PutFirmware \/ PublicationFails
  PROVE  TypeOK'
<1>1. ASSUME NEW i \in Images, NEW v \in Versions, NEW r \in BOOLEAN, CheckImage(i, v, r)
      PROVE  TypeOK'
  <2>1. publishing' \in Labels
    BY <1>1 DEF CheckImage, Labels, Images
  <2>2. publications' \in 0 .. MaxPublications
    BY <1>1, FirmwareAssumption DEF CheckImage, TypeOK
  <2>3. QED
    BY <1>1, <2>1, <2>2 DEF CheckImage, TypeOK, fleet
<1>2. CASE Upload
  <2>1. publishing \in Labels
    BY <1>2 DEF Upload, TypeOK
  <2>2. blob' = [blob EXCEPT ![KeyOf[publishing.board]] =
                   [@ EXCEPT ![publishing.version] = publishing.image]]
    BY <1>2 DEF Upload
  <2>3. blob' \in [Keys -> [Versions -> Images \cup {None}]]
    BY <2>1, <2>2, Names DEF TypeOK
  <2>4. QED
    BY <1>2, <2>3 DEF Upload, TypeOK, fleet
<1>3. CASE PutFirmware
  <2>1. publishing \in Labels
    BY <1>3 DEF PutFirmware, RecordDue, TypeOK
  <2>2. KeyOf[publishing.board] \in Keys /\ publishing.version \in Versions
    BY <2>1, Names
  <2>3. record' \in [Keys -> Labels \cup {None}] /\ taken' \subseteq [key : Keys, version : Versions]
    BY <1>3, <2>1, <2>2 DEF PutFirmware, TypeOK
  <2>4. QED
    BY <1>3, <2>3 DEF PutFirmware, TypeOK, fleet
<1>4. CASE PublicationFails
  BY <1>4 DEF PublicationFails, TypeOK, fleet
<1>5. QED
  BY <1>1, <1>2, <1>3, <1>4

(* So do the steps of a door.                                              *)
LEMMA DoorTyped ==
  ASSUME TypeOK, NEW d \in Doors,
         \/ AcceptOffer(d) \/ Get(d) \/ Commit(d) \/ UpdateFails(d) \/ Restart(d)
         \/ \E i \in Images : Flash(d, i)
         \/ Open(d) \/ Close(d) \/ Hold(d)
  PROVE  TypeOK'
<1>1. KeyOf[BoardOf[d]] \in Keys
  BY Names
<1>2. CASE AcceptOffer(d)
  <2>1. Record(d) \in Labels
    BY <1>1, <1>2 DEF AcceptOffer, Record, TypeOK
  <2>2. QED
    BY <1>2, <2>1, Names DEF AcceptOffer, TypeOK, desk
<1>3. CASE Get(d)
  <2>1. Record(d) \in Labels
    BY <1>1, <1>3 DEF Get, Record, TypeOK
  <2>2. QED
    BY <1>3, <2>1, Names DEF Get, TypeOK, desk
<1>4. CASE Commit(d)
  <2>1. offer[d] \in Labels
    BY <1>4 DEF Commit, TypeOK
  <2>2. Stored(served[d]) \in Images
    BY <1>4, <2>1, Names DEF Commit, Intact
  <2>3. QED
    BY <1>4, <2>2 DEF Commit, TypeOK, desk
<1>5. CASE UpdateFails(d)
  BY <1>5 DEF UpdateFails, DropOffer, TypeOK, desk
<1>6. CASE Restart(d)
  BY <1>6 DEF Restart, DropOffer, TypeOK, desk
<1>7. ASSUME NEW i \in Images, Flash(d, i) PROVE TypeOK'
  <2>1. flashes' \in 0 .. MaxFlashes
    BY <1>7, FirmwareAssumption DEF Flash, TypeOK
  <2>2. QED
    BY <1>7, <2>1 DEF Flash, DropOffer, TypeOK, desk
<1>8. CASE Open(d) \/ Close(d) \/ Hold(d)
  BY <1>8 DEF Open, Close, Hold, TypeOK, desk, fleet
<1>9. QED
  BY <1>2, <1>3, <1>4, <1>5, <1>6, <1>7, <1>8

LEMMA StepTyped == TypeOK /\ [Next]_vars => TypeOK'
<1> SUFFICES ASSUME TypeOK, [Next]_vars PROVE TypeOK'
  OBVIOUS
<1>1. CASE Next
  BY <1>1, DeskTyped, DoorTyped DEF Next
<1>2. CASE UNCHANGED vars
  BY <1>2 DEF vars, desk, fleet, TypeOK
<1>3. QED
  BY <1>1, <1>2

(* Every variable keeps its type; an answer is read only while its offer stands. *)
THEOREM TypeCorrect == Spec => []TypeOK
  BY InitTyped, StepTyped, PTL DEF Spec

-----------------------------------------------------------------------------
(* What labels say stays true.                                             *)

LEMMA InitSound == Init => Sound
  BY DEF Init, Sound, DeskSound, RecordSound, OfferSound, BoardsSound

LEMMA CheckImageSound ==
  ASSUME TypeOK, Sound, NEW i \in Images, NEW v \in Versions, NEW r \in BOOLEAN,
         CheckImage(i, v, r)
  PROVE  Sound'
<1>1. Honest(publishing')
  BY DEF CheckImage, Verified, Honest
<1>2. DeskSound'
  BY <1>1 DEF CheckImage, DeskSound
<1>3. UNCHANGED <<record, blob, taken, slot, running, offer>>
  BY DEF CheckImage, fleet
<1>4. RecordSound'
  BY <1>3 DEF Sound, RecordSound, Honest, Asked, Stored
<1>5. OfferSound' /\ BoardsSound'
  BY <1>3 DEF Sound, OfferSound, BoardsSound, Honest, Asked
<1>6. QED
  BY <1>2, <1>4, <1>5 DEF Sound

LEMMA UploadSound == ASSUME TypeOK, Sound, Upload PROVE Sound'
<1>1. publishing \in Labels /\ publishing.image # None
  BY Names DEF Upload, TypeOK
<1>2. blob' = [blob EXCEPT ![KeyOf[publishing.board]] =
                 [@ EXCEPT ![publishing.version] = publishing.image]]
  BY DEF Upload
<1>3. \A k \in Keys, v \in Versions :
        blob'[k][v] = IF k = KeyOf[publishing.board] /\ v = publishing.version
                      THEN publishing.image ELSE blob[k][v]
  BY <1>1, <1>2, Names DEF TypeOK
<1>4. UNCHANGED <<record, publishing, taken, slot, running, offer>> /\ uploaded'
  BY DEF Upload, fleet
<1>5. DeskSound'
  BY <1>1, <1>3, <1>4, Names DEF Upload, Sound, DeskSound, Stored, Honest
<1>6. RecordSound'
  <2> SUFFICES ASSUME NEW k \in Keys, record[k] # None
               PROVE  /\ Honest(record[k]) /\ Asked(record[k])'
                      /\ KeyOf[record[k].board] = k /\ Stored(record[k])' # None
    BY <1>4 DEF RecordSound, Honest, Asked, Stored
  <2>1. /\ Honest(record[k]) /\ Asked(record[k])
        /\ KeyOf[record[k].board] = k /\ Stored(record[k]) # None
    BY DEF Sound, RecordSound
  <2>2. record[k].version \in Versions
    BY Names DEF TypeOK
  <2>3. QED
    BY <1>1, <1>3, <1>4, <2>1, <2>2 DEF Stored, Asked
<1>7. OfferSound' /\ BoardsSound'
  BY <1>4 DEF Sound, OfferSound, BoardsSound, Honest, Asked
<1>8. QED
  BY <1>5, <1>6, <1>7 DEF Sound

LEMMA PutFirmwareSound == ASSUME TypeOK, Sound, PutFirmware PROVE Sound'
<1> DEFINE p == publishing
<1>1. /\ p \in Labels /\ Honest(p) /\ Stored(p) # None /\ KeyOf[p.board] \in Keys
  BY Names DEF PutFirmware, RecordDue, TypeOK, Sound, DeskSound
<1>2. /\ UNCHANGED <<blob, slot, running, offer>> /\ ~uploaded' /\ publishing' = None
      /\ record' = [record EXCEPT ![KeyOf[p.board]] = p]
      /\ taken \subseteq taken'
  BY DEF PutFirmware, fleet
<1>3. p.rollback => [key |-> KeyOf[p.board], version |-> p.version] \in taken'
  BY DEF PutFirmware
<1>4. DeskSound'
  BY <1>2 DEF DeskSound
<1>5. RecordSound'
  <2> SUFFICES ASSUME NEW k \in Keys, record'[k] # None
               PROVE  (/\ Honest(record[k]) /\ Asked(record[k])
                       /\ KeyOf[record[k].board] = k /\ Stored(record[k]) # None)'
    BY DEF RecordSound
  <2>1. CASE k = KeyOf[p.board]
    <3>1. record'[k] = p
      BY <1>1, <1>2, <2>1 DEF TypeOK
    <3>2. QED
      BY <1>1, <1>2, <1>3, <2>1, <3>1 DEF Honest, Asked, Stored
  <2>2. CASE k # KeyOf[p.board]
    <3>1. record'[k] = record[k]
      BY <1>2, <2>2 DEF TypeOK
    <3>2. QED
      BY <1>2, <3>1 DEF Sound, RecordSound, Honest, Asked, Stored
  <2>3. QED
    BY <2>1, <2>2
<1>6. OfferSound' /\ BoardsSound'
  BY <1>2 DEF Sound, OfferSound, BoardsSound, Honest, Asked
<1>7. QED
  BY <1>4, <1>5, <1>6 DEF Sound

(* Steps of a door leave the desk and the records alone.                   *)
LEMMA DeskAlone == ASSUME Sound, UNCHANGED desk PROVE DeskSound' /\ RecordSound'
  BY DEF Sound, desk, DeskSound, RecordSound, Honest, Asked, Stored

LEMMA AcceptOfferSound ==
  ASSUME TypeOK, Sound, NEW d \in Doors, AcceptOffer(d)
  PROVE  Sound'
<1> DEFINE r == Record(d)
<1>1. KeyOf[BoardOf[d]] \in Keys
  BY Names
<1>2. /\ Honest(r) /\ Asked(r) /\ r.board = BoardOf[d]
      /\ running[d].version = None \/ r.version > running[d].version \/ r.rollback
  BY <1>1 DEF AcceptOffer, Record, Sound, RecordSound, ForThisBoard, WouldOffer
<1>3. /\ offer'[d] = r /\ UNCHANGED <<desk, slot, running>>
      /\ \A e \in Doors : e # d => offer'[e] = offer[e]
  BY DEF AcceptOffer, TypeOK
<1>4. OfferSound'
  BY <1>2, <1>3 DEF Sound, OfferSound, Honest, Asked, desk
<1>5. QED
  BY <1>3, <1>4, DeskAlone DEF Sound, BoardsSound

LEMMA CommitSound ==
  ASSUME TypeOK, Sound, NEW d \in Doors, Commit(d)
  PROVE  /\ Sound'
         /\ slot'[d] = offer[d].image /\ Honest(offer[d]) /\ Asked(offer[d])
         /\ \A e \in Doors : e # d => slot'[e] = slot[e]
<1>1. offer[d] # None /\ slot'[d] = offer[d].image
  BY DEF Commit, Intact, TypeOK
<1>2. \A e \in Doors : e # d => slot'[e] = slot[e]
  BY DEF Commit, TypeOK
<1>3. UNCHANGED <<desk, running, offer>>
  BY DEF Commit
<1>4. Honest(offer[d]) /\ Asked(offer[d]) /\ offer[d].board = BoardOf[d]
  BY <1>1 DEF Sound, OfferSound
<1>5. BoardsSound'
  BY <1>1, <1>2, <1>3, <1>4 DEF Sound, BoardsSound, Honest
<1>6. OfferSound'
  BY <1>3 DEF Sound, OfferSound, Honest, Asked, desk
<1>7. QED
  BY <1>1, <1>2, <1>3, <1>4, <1>5, <1>6, DeskAlone DEF Sound

LEMMA DoorSound ==
  ASSUME TypeOK, Sound, NEW d \in Doors,
         \/ Get(d) \/ UpdateFails(d) \/ Restart(d)
         \/ \E i \in Images : Flash(d, i)
         \/ Open(d) \/ Close(d) \/ Hold(d)
  PROVE  Sound'
<1>1. CASE Get(d) \/ Open(d) \/ Close(d) \/ Hold(d)
  <2>1. UNCHANGED <<desk, slot, running, offer>>
    BY <1>1 DEF Get, Open, Close, Hold, fleet
  <2>2. QED
    BY <2>1, DeskAlone DEF Sound, OfferSound, BoardsSound, Honest, Asked, desk
<1>2. ASSUME UNCHANGED desk, offer' = [offer EXCEPT ![d] = None],
             \A e \in Doors : e # d => running'[e] = running[e], BoardsSound'
      PROVE  Sound'
  <2>1. offer'[d] = None /\ \A e \in Doors : e # d => offer'[e] = offer[e]
    BY <1>2 DEF TypeOK
  <2>2. OfferSound'
    BY <1>2, <2>1 DEF Sound, OfferSound, Honest, Asked, desk
  <2>3. QED
    BY <1>2, <2>2, DeskAlone DEF Sound
<1>3. CASE UpdateFails(d)
  BY <1>2, <1>3 DEF UpdateFails, DropOffer, Sound, BoardsSound
<1>4. CASE Restart(d)
  <2>1. BoardsSound' /\ \A e \in Doors : e # d => running'[e] = running[e]
    BY <1>4 DEF Restart, Sound, BoardsSound, TypeOK
  <2>2. QED
    BY <1>2, <1>4, <2>1 DEF Restart, DropOffer
<1>5. ASSUME NEW i \in Images, Flash(d, i) PROVE Sound'
  <2>1. BoardsSound' /\ \A e \in Doors : e # d => running'[e] = running[e]
    BY <1>5 DEF Flash, Sound, BoardsSound, TypeOK
  <2>2. QED
    BY <1>2, <1>5, <2>1 DEF Flash, DropOffer
<1>6. QED
  BY <1>1, <1>3, <1>4, <1>5

LEMMA StepSound == TypeOK /\ Sound /\ [Next]_vars => Sound'
<1> SUFFICES ASSUME TypeOK, Sound, [Next]_vars PROVE Sound'
  OBVIOUS
<1>1. CASE PublicationFails
  <2>1. UNCHANGED <<record, blob, taken, fleet>> /\ publishing' = None /\ ~uploaded'
    BY <1>1 DEF PublicationFails
  <2>2. QED
    BY <2>1 DEF Sound, DeskSound, RecordSound, OfferSound, BoardsSound, Honest, Asked,
                Stored, fleet
<1>2. CASE UNCHANGED vars
  <2>1. OfferSound' /\ BoardsSound'
    BY <1>2 DEF vars, desk, fleet, Sound, OfferSound, BoardsSound, Honest, Asked
  <2>2. QED
    BY <1>2, <2>1, DeskAlone DEF vars, Sound
<1>3. CASE Next
  BY <1>1, <1>3, CheckImageSound, UploadSound, PutFirmwareSound, AcceptOfferSound,
     CommitSound, DoorSound DEF Next
<1>4. QED
  BY <1>2, <1>3

(* Labels are sound and every variable keeps its type.                     *)
THEOREM LabelsAreSound == Spec => [](TypeOK /\ Sound)
<1>1. Init => TypeOK /\ Sound
  BY InitTyped, InitSound
<1>2. (TypeOK /\ Sound) /\ [Next]_vars => (TypeOK /\ Sound)'
  BY StepTyped, StepSound
<1>3. QED
  BY <1>1, <1>2, PTL DEF Spec

(* A door starts only images built for its board, though boards may share a key,
   publications are cut short or overtake a download, and images are forced. *)
THEOREM OnlyItsBoard == Spec => []RightBoard
<1>1. Sound => RightBoard
  BY DEF Sound, BoardsSound, RightBoard
<1>2. QED
  BY <1>1, LabelsAreSound, PTL

(* The image a record offers is stored, whatever is cut short: it is written first
   and never taken away.                                                   *)
THEOREM NothingMissing == Spec => []NeverMissing
<1>1. Sound => NeverMissing
  BY DEF Sound, RecordSound, NeverMissing
<1>2. QED
  BY <1>1, LabelsAreSound, PTL

-----------------------------------------------------------------------------
(* What a step may do to the image a door starts next.                     *)

(* Only a download that is committed changes it, or a flash by hand.       *)
LEMMA SlotChanges ==
  ASSUME TypeOK, Next, NEW d \in Doors, slot'[d] # slot[d], flashes' = flashes
  PROVE  Commit(d)
<1>1. ASSUME NEW e \in Doors, NEW i \in Images PROVE ~Flash(e, i)
  BY DEF Flash, TypeOK
<1>2. PICK e \in Doors : Commit(e)
  BY <1>1 DEF Next, CheckImage, Upload, PutFirmware, PublicationFails, AcceptOffer, Get,
              UpdateFails, Restart, Open, Close, Hold, fleet
<1>3. e = d
  BY <1>2 DEF Commit, TypeOK
<1>4. QED
  BY <1>2, <1>3

(* What a door flashes has the version it was offered, or was forced past that
   check; what was published under the same name meanwhile fails gate 5.   *)
THEOREM FlashesWhatWasOffered == Spec => AsOffered
<1>1. TypeOK /\ Sound /\ [Next]_vars =>
        \A d \in Doors : slot'[d] # slot[d] /\ flashes' = flashes
                           => slot'[d].version \in {offer[d].version, None}
  <2> SUFFICES ASSUME TypeOK, Sound, [Next]_vars, NEW d \in Doors,
                      slot'[d] # slot[d], flashes' = flashes
               PROVE  slot'[d].version \in {offer[d].version, None}
    OBVIOUS
  <2>1. Next
    BY DEF vars, fleet
  <2>2. Commit(d)
    BY <2>1, SlotChanges
  <2>3. QED
    BY <2>2, CommitSound DEF Honest
<1>2. QED
  BY <1>1, LabelsAreSound, PTL DEF AsOffered, Spec

(* A door is put back only to a version the operator has taken its kind of board
   back to, whatever it ran when it was offered that, and however its build got
   there.                                                                  *)
THEOREM NeverPutBackUnasked == Spec => NeverBackUnasked
<1>1. TypeOK /\ Sound /\ [Next]_vars =>
        \A d \in Doors :
          slot'[d].version # slot[d].version /\ flashes' = flashes
            => \/ IF None \in {slot[d].version, slot'[d].version} THEN TRUE
                  ELSE slot'[d].version > slot[d].version
               \/ [key |-> KeyOf[BoardOf[d]], version |-> slot'[d].version] \in taken
  <2> SUFFICES ASSUME TypeOK, Sound, [Next]_vars, NEW d \in Doors,
                      slot'[d].version # slot[d].version, flashes' = flashes,
                      slot[d].version # None, slot'[d].version # None
               PROVE  \/ slot'[d].version > slot[d].version
                      \/ [key |-> KeyOf[BoardOf[d]], version |-> slot'[d].version] \in taken
    OBVIOUS
  <2>1. Next
    BY DEF vars, fleet
  <2>2. Commit(d)
    BY <2>1, SlotChanges
  <2>3. slot'[d].version = offer[d].version /\ Asked(offer[d])
    BY <2>2, CommitSound DEF Honest
  <2>4. /\ slot[d] = running[d] /\ offer[d].board = BoardOf[d]
        /\ running[d].version = None \/ offer[d].version > running[d].version
           \/ offer[d].rollback
    BY <2>2 DEF Commit, TypeOK, Sound, OfferSound
  <2>5. QED
    BY <2>3, <2>4 DEF Asked
<1>2. QED
  BY <1>1, LabelsAreSound, PTL DEF NeverBackUnasked, Spec

=============================================================================
