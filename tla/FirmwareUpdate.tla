---------------------------- MODULE FirmwareUpdate ----------------------------
(***************************************************************************)
(* Firmware from the operator's desk to the doors.                         *)
(*                                                                         *)
(*   publish-firmware  checks an image, uploads it, and then writes the    *)
(*                     record that offers it to one type of board          *)
(*   sync API          offers the record of a door's board, if the door    *)
(*                     should have it (storage.ts wouldOffer)              *)
(*   firmware API      serves the image the record names now               *)
(*   cloudsync         accepts an offer, downloads, compares the digest,   *)
(*                     commits the image to the other slot and restarts    *)
(*                                                                         *)
(* The record and the image are two things, found under a key made from    *)
(* the name of the board, which two boards may share.  A publication may   *)
(* be cut short; a door may lose power, be out of the network, or hold its *)
(* lock open.  An image stands for its own digest.  One operator publishes *)
(* at a time, and names the board the image was built for.                 *)
(***************************************************************************)
EXTENDS Naturals, FiniteSets

CONSTANTS
  Doors, Boards,
  BoardOf,        \* [Doors -> Boards], BOARD_NAME
  KeyOf,          \* [Boards -> keys], boardKey()
  Versions,       \* released versions, numbers in their order
  Builds,         \* different images of one version
  None,           \* nothing; a version that is not reported or does not parse
  MayForce,       \* may the operator publish a version again (--force)?
  MaxPublications,\* bound: publications begun
  MaxFlashes      \* bound: images put on doors over USB

Keys == {KeyOf[b] : b \in Boards}
Images == [board : Boards, version : Versions \cup {None}, build : Builds]
Labels == [board : Boards, version : Versions, image : Images, rollback : BOOLEAN]

ASSUME FirmwareAssumption ==
  /\ BoardOf \in [Doors -> Boards] /\ DOMAIN KeyOf = Boards
  /\ Versions \subseteq Nat /\ None \notin Nat \cup Labels \cup Images
  /\ MayForce \in BOOLEAN /\ MaxPublications \in Nat /\ MaxFlashes \in Nat

VARIABLES
  record,         \* per key: what is offered
  blob,           \* per key and version: the image stored
  publishing,     \* the publication under way, None if there is none
  uploaded,       \* its image is stored
  slot,           \* per door: the image it starts next
  running,        \* per door: the image it runs
  offer,          \* per door: the offer it has accepted, None if none
  served,         \* per door: the record the firmware API answers with
  busy,           \* doors that hold their lock open
  held,           \* doors held back by an administrator (fwHold)
  publications, flashes,
  taken           \* history: versions the operator has taken boards back to

desk == <<record, blob, publishing, uploaded, publications, taken>>
fleet == <<slot, running, offer, served>>
vars == <<desk, fleet, busy, held, flashes>>

TypeOK ==
  /\ record \in [Keys -> Labels \cup {None}]
  /\ blob \in [Keys -> [Versions -> Images \cup {None}]]
  /\ publishing \in Labels \cup {None} /\ uploaded \in BOOLEAN
  /\ slot \in [Doors -> Images] /\ running \in [Doors -> Images]
  /\ offer \in [Doors -> Labels \cup {None}] /\ served \in [Doors -> Labels \cup {None}]
  /\ \A d \in Doors : served[d] # None => offer[d] # None
  /\ busy \subseteq Doors /\ held \subseteq Doors
  /\ publications \in 0 .. MaxPublications /\ flashes \in 0 .. MaxFlashes
  /\ taken \subseteq [key : Keys, version : Versions]

Record(d) == record[KeyOf[BoardOf[d]]]
Stored(r) == blob[KeyOf[r.board]][r.version]

-----------------------------------------------------------------------------
(* publish-firmware.ts                                                     *)

\* The image's own "fw=" marker is the version it is published as; an image that
\* carries none is published by force alone.
Verified(image, version) ==
  image.version = version \/ (MayForce /\ image.version = None)

\* The version may follow the one on record: a new one plainly, an old one as a
\* rollback, the same one by force.
MayFollow(old, version, rollback) ==
  IF old = None THEN ~rollback
  ELSE /\ old.version = version => MayForce
       /\ rollback <=> version < old.version

CheckImage(image, version, rollback) ==
  /\ publishing = None /\ publications < MaxPublications
  /\ Verified(image, version)
  /\ MayFollow(record[KeyOf[image.board]], version, rollback)
  /\ publishing' = [board |-> image.board, version |-> version, image |-> image,
                    rollback |-> rollback]
  /\ uploaded' = FALSE /\ publications' = publications + 1
  /\ UNCHANGED <<record, blob, taken, fleet, busy, held, flashes>>

Upload ==
  /\ publishing # None /\ ~uploaded /\ uploaded' = TRUE
  /\ blob' = [blob EXCEPT ![KeyOf[publishing.board]][publishing.version] =
                publishing.image]
  /\ UNCHANGED <<record, publishing, publications, taken, fleet, busy, held, flashes>>

\* Mutant: the record may be written before the image is stored.
RecordDueAnyTime == publishing # None

RecordDue == publishing # None /\ uploaded

\* putFirmware: "Metadata last".
PutFirmware ==
  /\ RecordDue
  /\ record' = [record EXCEPT ![KeyOf[publishing.board]] = publishing]
  /\ taken' = IF publishing.rollback
              THEN taken \cup {[key |-> KeyOf[publishing.board],
                                version |-> publishing.version]}
              ELSE taken
  /\ publishing' = None /\ uploaded' = FALSE
  /\ UNCHANGED <<blob, publications, fleet, busy, held, flashes>>

\* The operator's machine, or its network, fails.
PublicationFails ==
  /\ publishing # None /\ publishing' = None /\ uploaded' = FALSE
  /\ UNCHANGED <<record, blob, publications, taken, fleet, busy, held, flashes>>

-----------------------------------------------------------------------------
(* The offer.                                                              *)

\* Mutant: what the door runs already is offered again.
WouldOfferAgain(r, version) ==
  IF version = None THEN TRUE ELSE r.rollback \/ r.version >= version

\* Mutant: "'Different' was the old rule" (storage.ts:256).
WouldOfferDifferent(r, version) == r.version # version

WouldOffer(r, version) ==
  /\ r.version # version
  /\ IF version = None THEN TRUE ELSE r.rollback \/ r.version > version

\* Mutant: the board of what is offered and served is not looked at again.
ForThisBoardUnread(d, r) == TRUE

\* Gates 1 and 4: the board in the offer, and the one in the answer.
ForThisBoard(d, r) == r.board = BoardOf[d]

\* sync.ts, and syncOnce's first three gates.
AcceptOffer(d) ==
  /\ offer[d] = None
  /\ Record(d) # None /\ d \notin held
  /\ WouldOffer(Record(d), running[d].version)
  /\ ForThisBoard(d, Record(d)) /\ Record(d).version # running[d].version
  /\ d \notin busy
  /\ offer' = [offer EXCEPT ![d] = Record(d)]
  /\ UNCHANGED <<desk, slot, running, served, busy, held, flashes>>

-----------------------------------------------------------------------------
(* applyFirmware                                                           *)

\* The firmware API reads the record of the door's board anew.
Get(d) ==
  /\ offer[d] # None /\ served[d] = None
  /\ Record(d) # None /\ Stored(Record(d)) # None /\ ForThisBoard(d, Record(d))
  /\ served' = [served EXCEPT ![d] = Record(d)]
  /\ UNCHANGED <<desk, slot, running, offer, busy, held, flashes>>

DropOffer(d) ==
  /\ offer' = [offer EXCEPT ![d] = None] /\ served' = [served EXCEPT ![d] = None]

\* Mutant: the digest is compared with the one served, not with the one offered.
IntactAsServed(d) == Stored(served[d]) = served[d].image

\* Gate 5.
Intact(d) == Stored(served[d]) = offer[d].image

\* Update.end: the image is what the door starts next; a power cut here is as good
\* as the restart.
Commit(d) ==
  /\ served[d] # None /\ Intact(d)
  /\ slot[d] = running[d]
  /\ slot' = [slot EXCEPT ![d] = Stored(served[d])]
  /\ UNCHANGED <<desk, running, offer, served, busy, held, flashes>>

\* No heap, no answer, the wrong answer, no room, a stall, a digest that differs.
UpdateFails(d) ==
  /\ offer[d] # None /\ slot[d] = running[d]
  /\ DropOffer(d)
  /\ UNCHANGED <<desk, slot, running, busy, held, flashes>>

\* ESP.restart, or the power fails.
Restart(d) ==
  /\ running' = [running EXCEPT ![d] = slot[d]]
  /\ DropOffer(d) /\ busy' = busy \ {d}
  /\ UNCHANGED <<desk, slot, held, flashes>>

-----------------------------------------------------------------------------
(* Around them.                                                            *)

\* A build is proved on one door over USB.
Flash(d, image) ==
  /\ flashes < MaxFlashes /\ flashes' = flashes + 1
  /\ image.board = BoardOf[d]
  /\ slot' = [slot EXCEPT ![d] = image] /\ running' = [running EXCEPT ![d] = image]
  /\ DropOffer(d)
  /\ UNCHANGED <<desk, busy, held>>

Open(d) == d \notin busy /\ busy' = busy \cup {d} /\ UNCHANGED <<desk, fleet, held, flashes>>
Close(d) == d \in busy /\ busy' = busy \ {d} /\ UNCHANGED <<desk, fleet, held, flashes>>

Hold(d) ==
  /\ held' = (held \ {d}) \cup ({d} \ held)
  /\ UNCHANGED <<desk, fleet, busy, flashes>>

Init ==
  /\ record = [k \in Keys |-> None] /\ blob = [k \in Keys |-> [v \in Versions |-> None]]
  /\ publishing = None /\ uploaded = FALSE
  /\ running \in {f \in [Doors -> Images] : \A d \in Doors : f[d].board = BoardOf[d]}
  /\ slot = running
  /\ offer = [d \in Doors |-> None] /\ served = [d \in Doors |-> None]
  /\ busy = {} /\ held = {} /\ publications = 0 /\ flashes = 0 /\ taken = {}

Next ==
  \/ \E i \in Images, v \in Versions, r \in BOOLEAN : CheckImage(i, v, r)
  \/ Upload \/ PutFirmware \/ PublicationFails
  \/ \E d \in Doors :
       \/ AcceptOffer(d) \/ Get(d) \/ Commit(d) \/ UpdateFails(d) \/ Restart(d)
       \/ \E i \in Images : Flash(d, i)
       \/ Open(d) \/ Close(d) \/ Hold(d)

Spec == Init /\ [][Next]_vars

(* A door that does not update at one sync tries again at another.  A download
   ends, by its time limits if not otherwise, and does not fail for ever.  *)
Fairness ==
  \A d \in Doors :
    /\ SF_vars(AcceptOffer(d)) /\ SF_vars(Get(d)) /\ SF_vars(Commit(d))
    /\ WF_vars(UpdateFails(d))
    /\ WF_vars(Restart(d) /\ slot[d] # running[d]) /\ WF_vars(Close(d))

FairSpec == Spec /\ Fairness

-----------------------------------------------------------------------------
(* What updating promises.                                                 *)

(* storage.ts:214 "An image built for one ESP32 variant does not merely
   misbehave on another -- it does not boot": whatever is published, raced or
   cut short, and though two boards may share a key, a door starts only an
   image built for its board.                                              *)
RightBoard == \A d \in Doors : slot[d].board = BoardOf[d]

(* publish-firmware.ts:24 "a failure part-way leaves the old offer intact rather
   than pointing devices at a missing image".                              *)
NeverMissing == \A k \in Keys : record[k] # None => Stored(record[k]) # None

(* A door is put back to an older version only to one the operator has taken its
   kind of board back to; a build proved on one door ahead of the fleet stays.
   (What carries no version is neither older nor newer.)                   *)
NeverBackUnasked ==
  [][\A d \in Doors :
       slot'[d].version # slot[d].version /\ flashes' = flashes
         => \/ IF None \in {slot[d].version, slot'[d].version} THEN TRUE
               ELSE slot'[d].version > slot[d].version
            \/ [key |-> KeyOf[BoardOf[d]], version |-> slot'[d].version] \in taken]_vars

(* The door flashes what was approved: an image of the version the door was
   offered, or one that was forced past that check, though another may have been
   published under the same name meanwhile.                                *)
AsOffered ==
  [][\A d \in Doors :
       slot'[d] # slot[d] /\ flashes' = flashes
         => slot'[d].version \in {offer[d].version, None}]_vars

\* Nothing is in the way of updating the door.
Clear(d) ==
  /\ publishing = None /\ d \notin held
  /\ Record(d) # None /\ Record(d).board = BoardOf[d]
  /\ Stored(Record(d)) = Record(d).image
  /\ Record(d).image.version = Record(d).version

(* publish-firmware.ts:121 "is offered 2.4.1 again, and updates forever -- a fleet
   of doors rebooting every sync interval": once nothing is in the way, a door
   comes to run what it should run, and is not offered anything more.      *)
Settles ==
  \A d \in Doors :
    <>[]Clear(d) => <>[](Clear(d) /\ ~WouldOffer(Record(d), running[d].version))

=============================================================================
