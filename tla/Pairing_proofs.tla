---------------------------- MODULE Pairing_proofs ----------------------------
(***************************************************************************)
(* Proofs about Pairing, for any doors, backends and codes and any bounds. *)
(*                                                                         *)
(* CodeOnce needs to know where a code can be: in one backend's table, or  *)
(* in the hands of one enroll handler, or spent (OnePlace).  KeyIsAccepted *)
(* needs to know that a backend's key of a door only ever gives way to a   *)
(* later one (KeysMade), and the same of what is on its way to the door    *)
(* (CallsSound) and of what the door would find after a power cut          *)
(* (FlashSound).                                                           *)
(***************************************************************************)
EXTENDS Pairing, FiniteSetTheorems, TLAPS

-----------------------------------------------------------------------------
(* Types.                                                                  *)

Calls == [at : Busy \cup {"free", "refused", "answered"}, door : Doors \cup {None},
          host : Hosts \cup {None}, code : Codes \cup {None}, key : Nat]
WebStates == [at : {"idle", "moving", "posted", "adopting"}, call : 0..MaxCalls]
SyncStates == [at : {"idle", "read", "sent", "listed"}, key : Nat, rev : Nat,
               host : Hosts \cup {None}]

BackendTyped ==
  /\ rows \in [Hosts -> SUBSET Codes] /\ lapsed \subseteq Codes
  /\ keyHash \in [Hosts -> [Doors -> Nat]] /\ made \in Nat
  /\ calls \in [CallIds -> Calls] /\ yielded \in [Codes -> SUBSET Nat]

DoorTyped ==
  /\ host \in [Doors -> Hosts] /\ hostNvs \in [Doors -> Hosts]
  /\ key \in [Doors -> Nat] /\ keyNvs \in [Doors -> Nat]
  /\ web \in [Doors -> WebStates] /\ sync \in [Doors -> SyncStates]
  /\ list \in [Doors -> Hosts \cup {None}] /\ halfMoved \subseteq Doors

WorldTyped == cuts \in 0..MaxCuts /\ lost \in 0..MaxLosses

\* A call that has been made names a door, a backend and a code.
CallsMade == \A i \in CallIds : calls[i].at # "free" =>
  calls[i].door \in Doors /\ calls[i].host \in Hosts /\ calls[i].code \in Codes

\* RAM and NVS agree, but for a new key that is not yet in use.
DoorInStep == \A d \in Doors :
  /\ host[d] = hostNvs[d]
  /\ web[d].at # "adopting" => key[d] = keyNvs[d]
  /\ web[d].at = "posted" => web[d].call \in CallIds

Typed == BackendTyped /\ DoorTyped /\ WorldTyped /\ CallsMade /\ DoorInStep

(* The typing of the parts is the type invariant.                          *)
LEMMA TypedIsTypeOK == Typed => TypeOK
  BY DEF Typed, BackendTyped, DoorTyped, WorldTyped, CallsMade, DoorInStep, TypeOK,
         Calls, WebStates, SyncStates

LEMMA CallIdsAreNumbers == CallIds \subseteq 0..MaxCalls
  BY PairingAssumption DEF CallIds

LEMMA RevisionIsNat == ASSUME NEW l \in Hosts \cup {None} PROVE Revision(l) \in Nat
  BY PairingAssumption DEF Revision

LEMMA InitTyped == Init => Typed
<1> SUFFICES ASSUME Init PROVE Typed
  OBVIOUS
<1>1. Free \in Calls /\ Free.at = "free"
  BY DEF Free, Calls
<1>2. Web("idle") \in WebStates /\ Web("idle").at = "idle"
  BY PairingAssumption DEF Web, WebStates
<1>3. NoSync \in SyncStates
  BY DEF NoSync, SyncStates
<1>4. BackendTyped /\ CallsMade
  BY <1>1, PairingAssumption DEF Init, BackendTyped, CallsMade
<1>5. DoorTyped /\ DoorInStep
  BY <1>2, <1>3, PairingAssumption DEF Init, DoorTyped, DoorInStep
<1>6. WorldTyped
  BY PairingAssumption DEF Init, WorldTyped
<1>7. QED
  BY <1>4, <1>5, <1>6 DEF Typed

(* The backend's steps keep the types.                                     *)
LEMMA BackendStepTyped ==
  ASSUME Typed,
         \/ \E h \in Hosts, c \in Codes : Issue(h, c)
         \/ \E c \in Codes : Lapse(c)
         \/ \E i \in CallIds : Enroll(i) \/ HandlerFails(i)
  PROVE  Typed'
<1> USE DEF Typed
<1>1. CASE \E h \in Hosts, c \in Codes : Issue(h, c)
  BY <1>1 DEF Issue, BackendTyped, DoorTyped, WorldTyped, CallsMade, DoorInStep, door,
              store, world
<1>2. CASE \E c \in Codes : Lapse(c)
  BY <1>2 DEF Lapse, BackendTyped, DoorTyped, WorldTyped, CallsMade, DoorInStep, door,
              store, world
<1>3. ASSUME NEW i \in CallIds, Look(i) PROVE Typed'
  <2>1. calls' \in [CallIds -> Calls] /\ CallsMade'
    BY <1>3 DEF Look, Move, BackendTyped, CallsMade, Calls, Busy
  <2>2. QED
    BY <1>3, <2>1 DEF Look, BackendTyped, DoorTyped, WorldTyped, DoorInStep, door, store,
                      world
<1>4. ASSUME NEW i \in CallIds, Delete(i) PROVE Typed'
  <2>1. calls' \in [CallIds -> Calls] /\ CallsMade'
    BY <1>4 DEF Delete, Move, BackendTyped, CallsMade, Calls, Busy
  <2>2. rows' \in [Hosts -> SUBSET Codes]
    BY <1>4 DEF Delete, BackendTyped
  <2>3. QED
    BY <1>4, <2>1, <2>2 DEF Delete, BackendTyped, DoorTyped, WorldTyped, DoorInStep, door,
                            store, world
<1>5. ASSUME NEW i \in CallIds, StoreKey(i) PROVE Typed'
  <2>1. calls[i].door \in Doors /\ calls[i].host \in Hosts /\ calls[i].code \in Codes
    BY <1>5 DEF StoreKey, CallsMade
  <2>2. made' \in Nat /\ made' = made + 1
    BY <1>5 DEF StoreKey, BackendTyped
  <2>3. /\ calls' = [calls EXCEPT ![i] = [[@ EXCEPT !.at = "answered"] EXCEPT
                                            !.key = made']]
        /\ calls[i] \in Calls
    BY <1>5, <2>2 DEF StoreKey, BackendTyped
  <2>4. calls' \in [CallIds -> Calls] /\ CallsMade'
    BY <2>1, <2>2, <2>3 DEF BackendTyped, CallsMade, Calls
  <2>5. keyHash' = [keyHash EXCEPT ![calls[i].host] = [@ EXCEPT ![calls[i].door] = made']]
    BY <1>5, <2>2 DEF StoreKey
  <2>6. keyHash' \in [Hosts -> [Doors -> Nat]]
    BY <2>1, <2>2, <2>5 DEF BackendTyped
  <2>7. yielded' \in [Codes -> SUBSET Nat]
    <3>1. yielded[calls[i].code] \cup {made'} \in SUBSET Nat
      BY <2>1, <2>2 DEF BackendTyped
    <3>2. yielded' = [yielded EXCEPT ![calls[i].code] =
                                       yielded[calls[i].code] \cup {made'}]
      BY <1>5, <2>2 DEF StoreKey
    <3>3. QED
      BY <2>1, <3>1, <3>2 DEF BackendTyped
  <2>8. QED
    BY <1>5, <2>2, <2>4, <2>6, <2>7 DEF StoreKey, BackendTyped, DoorTyped, WorldTyped,
                                        DoorInStep, door, store, world
<1>6. ASSUME NEW i \in CallIds, HandlerFails(i) PROVE Typed'
  <2>1. calls' \in [CallIds -> Calls] /\ CallsMade'
    BY <1>6 DEF HandlerFails, Move, BackendTyped, CallsMade, Calls, Busy
  <2>2. lost' \in 0..MaxLosses
    BY <1>6, PairingAssumption DEF HandlerFails, WorldTyped
  <2>3. QED
    BY <1>6, <2>1, <2>2 DEF HandlerFails, BackendTyped, DoorTyped, WorldTyped, DoorInStep,
                            door, store
<1>7. QED
  BY <1>1, <1>2, <1>3, <1>4, <1>5, <1>6 DEF Enroll

(* The steps of a door's web task keep the types.                          *)
LEMMA WebStepTyped ==
  ASSUME Typed, NEW d \in Doors,
         \/ \E h \in Hosts : SetHost(d, h)
         \/ \E c \in Codes : Post(d, c)
         \/ GivesUp(d) \/ WebTask(d)
  PROVE  Typed'
<1> USE DEF Typed
<1>0. /\ Web("idle") \in WebStates /\ Web("idle").at = "idle"
      /\ Web("moving") \in WebStates /\ Web("moving").at = "moving"
      /\ Web("adopting") \in WebStates /\ Web("adopting").at = "adopting"
      /\ \A i \in CallIds : /\ Waiting(i) \in WebStates /\ Waiting(i).at = "posted"
                            /\ Waiting(i).call = i
  BY PairingAssumption, CallIdsAreNumbers DEF Web, Waiting, WebStates
<1>1. ASSUME NEW h \in Hosts, SetHost(d, h) PROVE Typed'
  <2>1. BackendTyped' /\ WorldTyped' /\ CallsMade'
    BY <1>1 DEF SetHost, backend, world, BackendTyped, WorldTyped, CallsMade
  <2>2. DoorTyped' /\ DoorInStep'
    BY <1>0, <1>1 DEF SetHost, DoorTyped, DoorInStep
  <2>3. QED
    BY <2>1, <2>2
<1>2. ASSUME NEW c \in Codes, Post(d, c) PROVE Typed'
  <2>1. PICK i \in CallIds :
          /\ calls' = [calls EXCEPT ![i] = [at |-> "asked", door |-> d, host |-> host[d],
                                            code |-> c, key |-> 0]]
          /\ web' = [web EXCEPT ![d] = Waiting(i)]
          /\ web[d].at = "idle"
    BY <1>2 DEF Post
  <2>2. calls' \in [CallIds -> Calls] /\ CallsMade'
    BY <2>1 DEF BackendTyped, DoorTyped, CallsMade, Calls, Busy
  <2>3. DoorTyped' /\ DoorInStep'
    BY <1>0, <1>2, <2>1 DEF Post, DoorTyped, DoorInStep, store
  <2>4. QED
    BY <1>2, <2>2, <2>3 DEF Post, BackendTyped, WorldTyped, world
<1>3. ASSUME GivesUp(d) PROVE Typed'
  <2>1. DoorTyped' /\ DoorInStep'
    BY <1>0, <1>3 DEF GivesUp, DoorTyped, DoorInStep, store
  <2>2. WorldTyped'
    BY <1>3, PairingAssumption DEF GivesUp, WorldTyped
  <2>3. QED
    BY <1>3, <2>1, <2>2 DEF GivesUp, backend, BackendTyped, CallsMade
<1>4. ASSUME ForgetKey(d) PROVE Typed'
  <2>1. DoorTyped' /\ DoorInStep'
    BY <1>0, <1>4 DEF ForgetKey, DoorTyped, DoorInStep
  <2>2. QED
    BY <1>4, <2>1 DEF ForgetKey, backend, world, BackendTyped, WorldTyped, CallsMade
<1>5. ASSUME Refused(d) PROVE Typed'
  <2>1. DoorTyped' /\ DoorInStep'
    BY <1>0, <1>5 DEF Refused, DoorTyped, DoorInStep, store
  <2>2. QED
    BY <1>5, <2>1 DEF Refused, backend, world, BackendTyped, WorldTyped, CallsMade
<1>6. ASSUME KeepKey(d) PROVE Typed'
  <2>1. calls[web[d].call].key \in Nat
    BY <1>6 DEF KeepKey, DoorInStep, BackendTyped, Calls
  <2>2. DoorTyped' /\ DoorInStep'
    BY <1>0, <1>6, <2>1 DEF KeepKey, DoorTyped, DoorInStep
  <2>3. QED
    BY <1>6, <2>2 DEF KeepKey, backend, world, BackendTyped, WorldTyped, CallsMade
<1>7. ASSUME AdoptKey(d) PROVE Typed'
  <2>1. DoorTyped' /\ DoorInStep'
    BY <1>0, <1>7 DEF AdoptKey, DoorTyped, DoorInStep, store
  <2>2. QED
    BY <1>7, <2>1 DEF AdoptKey, backend, world, BackendTyped, WorldTyped, CallsMade
<1>8. QED
  BY <1>1, <1>2, <1>3, <1>4, <1>5, <1>6, <1>7 DEF WebTask

(* The steps of its cloudsync task, and a power cut, keep the types.       *)
LEMMA SyncStepTyped ==
  ASSUME Typed, NEW d \in Doors, SyncTask(d) \/ SyncLost(d) \/ PowerCut(d)
  PROVE  Typed'
<1> USE DEF Typed
<1>0. /\ NoSync \in SyncStates
      /\ Web("idle") \in WebStates /\ Web("idle").at = "idle"
  BY PairingAssumption DEF NoSync, SyncStates, Web, WebStates
<1>1. CASE SyncRead(d)
  <2>1. Revision(list[d]) \in Nat
    BY RevisionIsNat DEF DoorTyped
  <2>2. sync' \in [Doors -> SyncStates]
    BY <1>1, <2>1 DEF SyncRead, DoorTyped, SyncStates
  <2>3. QED
    BY <1>1, <2>2 DEF SyncRead, BackendTyped, DoorTyped, WorldTyped, CallsMade,
                      DoorInStep, backend, store, world
<1>2. CASE SyncSend(d)
  <2>1. sync' \in [Doors -> SyncStates]
    BY <1>2 DEF SyncSend, DoorTyped, SyncStates
  <2>2. QED
    BY <1>2, <2>1 DEF SyncSend, BackendTyped, DoorTyped, WorldTyped, CallsMade,
                      DoorInStep, backend, store, world
<1>3. CASE SyncAnswer(d)
  <2>1. sync' \in [Doors -> SyncStates]
    BY <1>0, <1>3 DEF SyncAnswer, DoorTyped, SyncStates
  <2>2. QED
    BY <1>3, <2>1 DEF SyncAnswer, BackendTyped, DoorTyped, WorldTyped, CallsMade,
                      DoorInStep, backend, store, world
<1>4. CASE SyncApply(d)
  <2>1. sync' \in [Doors -> SyncStates] /\ list' \in [Doors -> Hosts \cup {None}]
    BY <1>0, <1>4 DEF SyncApply, DoorTyped, SyncStates
  <2>2. QED
    BY <1>4, <2>1 DEF SyncApply, BackendTyped, DoorTyped, WorldTyped, CallsMade,
                      DoorInStep, backend, store, world
<1>5. CASE SyncLost(d)
  <2>1. sync' \in [Doors -> SyncStates]
    BY <1>0, <1>5 DEF SyncLost, DoorTyped, SyncStates
  <2>2. lost' \in 0..MaxLosses
    BY <1>5, PairingAssumption DEF SyncLost, WorldTyped
  <2>3. QED
    BY <1>5, <2>1, <2>2 DEF SyncLost, BackendTyped, DoorTyped, WorldTyped, CallsMade,
                            DoorInStep, backend, store
<1>6. CASE PowerCut(d)
  <2>1. DoorTyped' /\ DoorInStep'
    BY <1>0, <1>6 DEF PowerCut, DoorTyped, DoorInStep, store
  <2>2. WorldTyped'
    BY <1>6, PairingAssumption DEF PowerCut, WorldTyped
  <2>3. QED
    BY <1>6, <2>1, <2>2 DEF PowerCut, BackendTyped, CallsMade, backend
<1>7. QED
  BY <1>1, <1>2, <1>3, <1>4, <1>5, <1>6 DEF SyncTask

(* Every step keeps the types.                                             *)
LEMMA StepTyped == Typed /\ [Next]_vars => Typed'
<1> SUFFICES ASSUME Typed, [Next]_vars PROVE Typed'
  OBVIOUS
<1>1. CASE Next
  BY <1>1, BackendStepTyped, WebStepTyped, SyncStepTyped DEF Next
<1>2. CASE UNCHANGED vars
  BY <1>2 DEF vars, backend, door, store, world, Typed, BackendTyped, DoorTyped,
              WorldTyped, CallsMade, DoorInStep
<1>3. QED
  BY <1>1, <1>2

(* Every variable keeps its type, and a door at rest works with what it would find
   after a power cut, whatever is lost or cut and however calls overlap.   *)
THEOREM TypeCorrect == Spec => []TypeOK
<1>1. Spec => []Typed
  BY InitTyped, StepTyped, PTL DEF Spec
<1>2. QED
  BY <1>1, TypedIsTypeOK, PTL

-----------------------------------------------------------------------------
(* A code gives one key.                                                   *)

Redeeming(i, c) == calls[i].at = "redeemed" /\ calls[i].code = c

\* A code still in a table is in one, and has given nothing to anybody.
Unspent(c) == \A h \in Hosts : c \in rows[h] =>
  /\ \A g \in Hosts : c \in rows[g] => g = h
  /\ yielded[c] = {}
  /\ \A i \in CallIds : ~Redeeming(i, c)

\* A code in the hands of a handler is in nobody else's, and has given nothing.
InOneHand(c) == \A i \in CallIds : Redeeming(i, c) =>
  /\ yielded[c] = {}
  /\ \A j \in CallIds : Redeeming(j, c) => j = i

\* A spent code has given one key.
SpentOnce(c) == yielded[c] = {} \/ \E k \in Nat : yielded[c] = {k}

OnePlace == \A c \in Codes : Unspent(c) /\ InOneHand(c) /\ SpentOnce(c)

LEMMA OnePlaceIsCodeOnce == OnePlace => CodeOnce
<1> SUFFICES ASSUME OnePlace, NEW c \in Codes PROVE Cardinality(yielded[c]) <= 1
  BY DEF CodeOnce
<1>1. CASE yielded[c] = {}
  BY <1>1, FS_EmptySet
<1>2. ASSUME NEW k \in Nat, yielded[c] = {k} PROVE Cardinality(yielded[c]) <= 1
  BY <1>2, FS_Singleton
<1>3. QED
  BY <1>1, <1>2 DEF OnePlace, SpentOnce

LEMMA InitOnePlace == Init => OnePlace
  BY DEF Init, Free, OnePlace, Unspent, InOneHand, SpentOnce, Redeeming

(* A step that changes neither the tables nor what codes have given, and lets no
   handler redeem one, leaves every code where it was.                     *)
LEMMA OnePlaceKept ==
  ASSUME OnePlace, UNCHANGED <<rows, yielded>>,
         \A i \in CallIds, c \in Codes : Redeeming(i, c)' => Redeeming(i, c)
  PROVE  OnePlace'
<1> SUFFICES ASSUME NEW c \in Codes PROVE (Unspent(c) /\ InOneHand(c) /\ SpentOnce(c))'
  BY DEF OnePlace
<1>1. Unspent(c) /\ InOneHand(c) /\ SpentOnce(c)
  BY DEF OnePlace
<1>2. Unspent(c)'
  BY <1>1 DEF Unspent
<1>3. InOneHand(c)'
  BY <1>1 DEF InOneHand
<1>4. SpentOnce(c)'
  BY <1>1 DEF SpentOnce
<1>5. QED
  BY <1>2, <1>3, <1>4

LEMMA IssueOnePlace ==
  ASSUME Typed, OnePlace, NEW h \in Hosts, NEW c \in Codes, Issue(h, c)
  PROVE  OnePlace'
<1> SUFFICES ASSUME NEW e \in Codes PROVE (Unspent(e) /\ InOneHand(e) /\ SpentOnce(e))'
  BY DEF OnePlace
<1>1. Unspent(e) /\ InOneHand(e) /\ SpentOnce(e)
  BY DEF OnePlace
<1>2. /\ rows' = [rows EXCEPT ![h] = @ \cup {c}] /\ UNCHANGED <<calls, yielded>>
      /\ yielded[c] = {} /\ \A g \in Hosts : c \notin rows[g]
      /\ \A i \in CallIds : ~Redeeming(i, c)
  BY DEF Issue, Redeeming
<1>3. InOneHand(e)' /\ SpentOnce(e)'
  BY <1>1, <1>2 DEF InOneHand, SpentOnce, Redeeming
<1>4. Unspent(e)'
  <2>1. CASE e = c
    BY <1>2, <2>1 DEF Unspent, Redeeming, Typed, BackendTyped
  <2>2. CASE e # c
    <3>1. \A g \in Hosts : e \in rows'[g] => e \in rows[g]
      BY <1>2, <2>2 DEF Typed, BackendTyped
    <3>2. QED
      BY <1>1, <1>2, <3>1 DEF Unspent, Redeeming
  <2>3. QED
    BY <2>1, <2>2
<1>5. QED
  BY <1>3, <1>4

LEMMA DeleteOnePlace ==
  ASSUME Typed, OnePlace, NEW i \in CallIds, Delete(i)
  PROVE  OnePlace'
<1> DEFINE c == calls[i].code
           h == calls[i].host
<1>1. c \in Codes /\ h \in Hosts
  BY DEF Delete, Typed, CallsMade
<1>2. /\ rows' = [rows EXCEPT ![h] = @ \ {c}] /\ UNCHANGED yielded
      /\ \A g \in Hosts : rows'[g] \subseteq rows[g]
      /\ c \notin rows'[h]
  BY <1>1 DEF Delete, Typed, BackendTyped
<1>3. \A j \in CallIds : /\ calls'[j].code = calls[j].code
                         /\ j # i => calls'[j] = calls[j]
  BY DEF Delete, Move, Typed, BackendTyped, Calls
<1>4. calls'[i].at = "redeemed" => c \in rows[h]
  BY DEF Delete, Move, Typed, BackendTyped, Calls
<1> SUFFICES ASSUME NEW e \in Codes PROVE (Unspent(e) /\ InOneHand(e) /\ SpentOnce(e))'
  BY DEF OnePlace
<1>5. Unspent(e) /\ InOneHand(e) /\ SpentOnce(e)
  BY DEF OnePlace
<1>6. SpentOnce(e)'
  BY <1>2, <1>5 DEF SpentOnce
<1>7. \A j \in CallIds : Redeeming(j, e)' =>
        Redeeming(j, e) \/ (j = i /\ e = c /\ c \in rows[h])
  BY <1>3, <1>4 DEF Redeeming
<1>8. Unspent(e)'
  <2> SUFFICES ASSUME NEW g \in Hosts, e \in rows'[g]
               PROVE  /\ \A f \in Hosts : e \in rows'[f] => f = g
                      /\ yielded'[e] = {}
                      /\ \A j \in CallIds : ~Redeeming(j, e)'
    BY DEF Unspent
  <2>1. /\ \A f \in Hosts : e \in rows[f] => f = g
        /\ yielded[e] = {} /\ \A j \in CallIds : ~Redeeming(j, e)
    BY <1>2, <1>5 DEF Unspent
  <2>2. ~(e = c /\ c \in rows[h])
    BY <1>1, <1>2, <2>1
  <2>3. QED
    BY <1>2, <1>7, <2>1, <2>2
<1>9. InOneHand(e)'
  <2>1. CASE e = c /\ c \in rows[h]
    <3>1. yielded[e] = {} /\ \A j \in CallIds : ~Redeeming(j, e)
      BY <1>1, <1>5, <2>1 DEF Unspent
    <3>2. QED
      BY <1>2, <1>7, <3>1 DEF InOneHand
  <2>2. CASE ~(e = c /\ c \in rows[h])
    BY <1>2, <1>5, <1>7, <2>2 DEF InOneHand
  <2>3. QED
    BY <2>1, <2>2
<1>10. QED
  BY <1>6, <1>8, <1>9

LEMMA StoreKeyOnePlace ==
  ASSUME Typed, OnePlace, NEW i \in CallIds, StoreKey(i)
  PROVE  OnePlace'
<1> DEFINE c == calls[i].code
<1>1. c \in Codes /\ Redeeming(i, c)
  BY DEF StoreKey, Typed, CallsMade, Redeeming
<1>2. /\ yielded[c] = {} /\ \A j \in CallIds : Redeeming(j, c) => j = i
      /\ \A h \in Hosts : c \notin rows[h]
  BY <1>1 DEF OnePlace, InOneHand, Unspent
<1>3. /\ UNCHANGED rows
      /\ yielded' = [yielded EXCEPT ![c] = @ \cup {made + 1}] /\ made + 1 \in Nat
  BY DEF StoreKey, Typed, BackendTyped
<1>4. /\ calls'[i].at = "answered"
      /\ \A j \in CallIds : j # i => calls'[j] = calls[j]
  BY DEF StoreKey, Typed, BackendTyped, Calls
<1> SUFFICES ASSUME NEW e \in Codes PROVE (Unspent(e) /\ InOneHand(e) /\ SpentOnce(e))'
  BY DEF OnePlace
<1>5. Unspent(e) /\ InOneHand(e) /\ SpentOnce(e)
  BY DEF OnePlace
<1>6. \A j \in CallIds : Redeeming(j, e)' => j # i /\ Redeeming(j, e)
  BY <1>4 DEF Redeeming
<1>7. CASE e = c
  <2>1. yielded'[e] = {made + 1}
    BY <1>1, <1>2, <1>3, <1>7 DEF Typed, BackendTyped
  <2>2. \A j \in CallIds : ~Redeeming(j, e)'
    BY <1>2, <1>6, <1>7
  <2>3. QED
    BY <1>2, <1>3, <1>7, <2>1, <2>2 DEF Unspent, InOneHand, SpentOnce
<1>8. CASE e # c
  <2>1. yielded'[e] = yielded[e]
    BY <1>3, <1>8 DEF Typed, BackendTyped
  <2>2. QED
    BY <1>3, <1>5, <1>6, <2>1 DEF Unspent, InOneHand, SpentOnce
<1>9. QED
  BY <1>7, <1>8

LEMMA PostOnePlace ==
  ASSUME Typed, OnePlace, NEW d \in Doors, NEW c \in Codes, Post(d, c)
  PROVE  OnePlace'
<1>1. \A i \in CallIds : calls'[i] = calls[i] \/ calls'[i].at = "asked"
  BY DEF Post, Typed, BackendTyped
<1>2. \A i \in CallIds, e \in Codes : Redeeming(i, e)' => Redeeming(i, e)
  BY <1>1 DEF Redeeming
<1>3. QED
  BY <1>2, OnePlaceKept DEF Post

(* Every step leaves a code in one place.                                  *)
LEMMA StepOnePlace == Typed /\ OnePlace /\ [Next]_vars => OnePlace'
<1> SUFFICES ASSUME Typed, OnePlace, [Next]_vars PROVE OnePlace'
  OBVIOUS
<1>1. ASSUME UNCHANGED <<rows, calls, yielded>> PROVE OnePlace'
  BY <1>1, OnePlaceKept DEF Redeeming
<1>2. ASSUME NEW i \in CallIds, Look(i) \/ HandlerFails(i) PROVE OnePlace'
  <2>1. \A j \in CallIds : calls'[j] = calls[j] \/ calls'[j].at # "redeemed"
    BY <1>2 DEF Look, HandlerFails, Move, Typed, BackendTyped, Calls
  <2>2. \A j \in CallIds, c \in Codes : Redeeming(j, c)' => Redeeming(j, c)
    BY <2>1 DEF Redeeming
  <2>3. QED
    BY <1>2, <2>2, OnePlaceKept DEF Look, HandlerFails
<1>3. ASSUME NEW i \in CallIds, Enroll(i) PROVE OnePlace'
  BY <1>2, <1>3, DeleteOnePlace, StoreKeyOnePlace DEF Enroll
<1>4. ASSUME NEW c \in Codes, Lapse(c) PROVE OnePlace'
  BY <1>1, <1>4 DEF Lapse
<1>5. ASSUME NEW d \in Doors,
             \/ \E h \in Hosts : SetHost(d, h)
             \/ GivesUp(d) \/ WebTask(d) \/ SyncTask(d) \/ SyncLost(d) \/ PowerCut(d)
      PROVE  OnePlace'
  BY <1>1, <1>5 DEF SetHost, GivesUp, WebTask, ForgetKey, Refused, KeepKey, AdoptKey,
                    SyncTask, SyncRead, SyncSend, SyncAnswer, SyncApply, SyncLost,
                    PowerCut, backend
<1>6. CASE UNCHANGED vars
  BY <1>1, <1>6 DEF vars, backend
<1>7. CASE Next
  BY <1>2, <1>3, <1>4, <1>5, <1>7, IssueOnePlace, PostOnePlace DEF Next
<1>8. QED
  BY <1>6, <1>7

(* However enroll calls overlap, fail half way or outlive the door's patience, a
   code gives one key: the read and the deletion of its row are two steps, and
   only the call whose deletion succeeds goes on.                          *)
THEOREM CodeGivesOneKey == Spec => []CodeOnce
<1>1. Init => Typed /\ OnePlace
  BY InitTyped, InitOnePlace
<1>2. (Typed /\ OnePlace) /\ [Next]_vars => (Typed /\ OnePlace)'
  BY StepTyped, StepOnePlace
<1>3. Spec => [](Typed /\ OnePlace)
  BY <1>1, <1>2, PTL DEF Spec
<1>4. QED
  BY <1>3, OnePlaceIsCodeOnce, PTL

-----------------------------------------------------------------------------
(* The key a door believes in is its backend's.                            *)

\* Keys are handed out in turn.
KeysMade == \A h \in Hosts, d \in Doors : keyHash[h][d] <= made

\* An answer carries the key its backend stored for the door, or an older one.
CallsSound == \A i \in CallIds : calls[i].at = "answered" =>
  calls[i].key <= keyHash[calls[i].host][calls[i].door]

\* What a door waits for is its own call, to the backend it points at.
PostedSound == \A d \in Doors : web[d].at = "posted" =>
  /\ calls[web[d].call].at # "free"
  /\ calls[web[d].call].door = d /\ calls[web[d].call].host = host[d]

\* So is the key a power cut would leave it with.
FlashSound == \A d \in Doors :
  keyNvs[d] # 0 /\ web[d].at # "moving" /\ (d \notin halfMoved \/ web[d].at = "adopting")
    => keyNvs[d] <= keyHash[host[d]][d]

RamSound == \A d \in Doors :
  key[d] # 0 /\ web[d].at # "moving" /\ d \notin halfMoved => key[d] <= keyHash[host[d]][d]

Accepted == KeysMade /\ CallsSound /\ PostedSound /\ FlashSound /\ RamSound

LEMMA AcceptedIsKeyIsAccepted == Typed /\ Accepted => KeyIsAccepted
  BY DEF Typed, BackendTyped, DoorTyped, Accepted, RamSound, KeyIsAccepted

LEMMA InitAccepted == Init => Accepted
<1> SUFFICES ASSUME Init PROVE Accepted
  OBVIOUS
<1>1. KeysMade /\ CallsSound
  BY DEF Init, Free, KeysMade, CallsSound
<1>2. PostedSound /\ FlashSound /\ RamSound
  BY DEF Init, Web, PostedSound, FlashSound, RamSound
<1>3. QED
  BY <1>1, <1>2 DEF Accepted

(* What handlers do short of storing a key tells the door nothing false.   *)
LEMMA HandlerAccepted ==
  ASSUME Typed, Accepted, NEW i \in CallIds, Look(i) \/ Delete(i) \/ HandlerFails(i)
  PROVE  Accepted'
<1>1. \A j \in CallIds :
        /\ calls'[j] = calls[j] \/ calls'[j].at \notin {"answered", "free"}
        /\ calls'[j].door = calls[j].door /\ calls'[j].host = calls[j].host
        /\ calls'[j].key = calls[j].key
  BY DEF Look, Delete, HandlerFails, Move, Typed, BackendTyped, Calls
<1>2. UNCHANGED <<keyHash, made, door>>
  BY DEF Look, Delete, HandlerFails
<1>3. KeysMade' /\ FlashSound' /\ RamSound'
  BY <1>2 DEF Accepted, KeysMade, FlashSound, RamSound, door, store
<1>4. CallsSound'
  BY <1>1, <1>2 DEF Accepted, CallsSound
<1>5. PostedSound'
  <2> SUFFICES ASSUME NEW d \in Doors, web[d].at = "posted"
               PROVE  /\ calls'[web[d].call].at # "free"
                      /\ calls'[web[d].call].door = d
                      /\ calls'[web[d].call].host = host[d]
    BY <1>2 DEF PostedSound, door
  <2>1. web[d].call \in CallIds
    BY DEF Typed, DoorInStep
  <2>2. QED
    BY <1>1, <2>1 DEF Accepted, PostedSound
<1>6. QED
  BY <1>3, <1>4, <1>5 DEF Accepted

(* A key that is stored replaces an earlier one.                           *)
LEMMA StoreKeyAccepted ==
  ASSUME Typed, Accepted, NEW i \in CallIds, StoreKey(i)
  PROVE  Accepted'
<1> DEFINE h == calls[i].host
           e == calls[i].door
<1>1. h \in Hosts /\ e \in Doors
  BY DEF StoreKey, Typed, CallsMade
<1>2. /\ made \in Nat /\ made' = made + 1 /\ UNCHANGED door
      /\ keyHash \in [Hosts -> [Doors -> Nat]]
      /\ keyHash' = [keyHash EXCEPT ![h] = [@ EXCEPT ![e] = made + 1]]
  BY DEF StoreKey, Typed, BackendTyped
<1>3. /\ keyHash'[h][e] = made + 1
      /\ \A g \in Hosts, d \in Doors :
           /\ keyHash[g][d] \in Nat
           /\ keyHash'[g][d] = IF g = h /\ d = e THEN made + 1 ELSE keyHash[g][d]
  BY <1>1, <1>2
<1>4. \A g \in Hosts, d \in Doors : /\ keyHash[g][d] <= keyHash'[g][d]
                                    /\ keyHash'[g][d] \in Nat
                                    /\ keyHash'[g][d] <= made + 1
  BY <1>2, <1>3 DEF Accepted, KeysMade
<1>5. KeysMade'
  BY <1>2, <1>4 DEF KeysMade
<1>6. /\ calls'[i].at = "answered" /\ calls'[i].key = made + 1
      /\ calls'[i].door = e /\ calls'[i].host = h
      /\ \A j \in CallIds : j # i => calls'[j] = calls[j]
  BY DEF StoreKey, Typed, BackendTyped, Calls
<1>7. CallsSound'
  <2> SUFFICES ASSUME NEW j \in CallIds, calls'[j].at = "answered"
               PROVE  calls'[j].key <= keyHash'[calls'[j].host][calls'[j].door]
    BY DEF CallsSound
  <2>1. CASE j = i
    BY <1>2, <1>3, <1>6, <2>1
  <2>2. CASE j # i
    <3>1. /\ calls[j].door \in Doors /\ calls[j].host \in Hosts /\ calls[j].key \in Nat
          /\ calls[j].key <= keyHash[calls[j].host][calls[j].door]
      BY <1>6, <2>2 DEF Typed, CallsMade, BackendTyped, Calls, Accepted, CallsSound
    <3>2. QED
      BY <1>3, <1>4, <1>6, <2>2, <3>1
  <2>3. QED
    BY <2>1, <2>2
<1>8. PostedSound'
  <2> SUFFICES ASSUME NEW d \in Doors, web[d].at = "posted"
               PROVE  /\ calls'[web[d].call].at # "free"
                      /\ calls'[web[d].call].door = d
                      /\ calls'[web[d].call].host = host[d]
    BY <1>2 DEF PostedSound, door
  <2>1. web[d].call \in CallIds
    BY DEF Typed, DoorInStep
  <2>2. QED
    BY <1>6, <2>1 DEF Accepted, PostedSound
<1>9. \A d \in Doors : host[d] \in Hosts /\ key[d] \in Nat /\ keyNvs[d] \in Nat
  BY DEF Typed, DoorTyped
<1>10. UNCHANGED <<host, key, keyNvs, web, halfMoved>>
  BY <1>2 DEF door, store
<1>11. FlashSound'
  BY <1>3, <1>4, <1>9, <1>10 DEF Accepted, FlashSound
<1>12. RamSound'
  BY <1>3, <1>4, <1>9, <1>10 DEF Accepted, RamSound
<1>13. QED
  BY <1>5, <1>7, <1>8, <1>11, <1>12 DEF Accepted

(* What a door does with hosts and keys keeps to what its backend stored.  *)
LEMMA WebAccepted ==
  ASSUME Typed, Accepted, NEW d \in Doors,
         \/ \E h \in Hosts : SetHost(d, h)
         \/ GivesUp(d) \/ WebTask(d) \/ PowerCut(d)
  PROVE  Accepted'
<1>0. /\ Web("idle").at = "idle" /\ Web("moving").at = "moving"
      /\ Web("adopting").at = "adopting"
  BY DEF Web
<1>1. UNCHANGED <<keyHash, made, calls>>
  BY DEF SetHost, GivesUp, WebTask, ForgetKey, Refused, KeepKey, AdoptKey, PowerCut, backend
<1>2. KeysMade' /\ CallsSound'
  BY <1>1 DEF Accepted, KeysMade, CallsSound
<1>3. ASSUME NEW h \in Hosts, SetHost(d, h) PROVE PostedSound' /\ FlashSound' /\ RamSound'
  <2>1. /\ \A e \in Doors : e # d => host'[e] = host[e] /\ web'[e] = web[e]
        /\ key[d] # 0 => web'[d].at = "moving"
        /\ key[d] = 0 => web'[d].at = "idle" /\ keyNvs[d] = 0
        /\ UNCHANGED <<key, keyNvs, halfMoved>>
    BY <1>0, <1>3 DEF SetHost, Typed, DoorTyped, DoorInStep
  <2>2. PostedSound'
    BY <1>1, <2>1 DEF Accepted, PostedSound
  <2>3. FlashSound'
    BY <1>1, <2>1 DEF Accepted, FlashSound
  <2>4. RamSound'
    BY <1>1, <2>1 DEF Accepted, RamSound
  <2>5. QED
    BY <2>2, <2>3, <2>4
<1>4. ASSUME GivesUp(d) \/ Refused(d) PROVE PostedSound' /\ FlashSound' /\ RamSound'
  <2>1. /\ \A e \in Doors : e # d => web'[e] = web[e]
        /\ web[d].at = "posted" /\ web'[d].at = "idle"
        /\ UNCHANGED <<host, key, keyNvs, halfMoved>>
    BY <1>0, <1>4 DEF GivesUp, Refused, store, Typed, DoorTyped
  <2>2. PostedSound'
    BY <1>1, <2>1 DEF Accepted, PostedSound
  <2>3. FlashSound' /\ RamSound'
    BY <1>1, <2>1 DEF Accepted, FlashSound, RamSound
  <2>4. QED
    BY <2>2, <2>3
<1>5. ASSUME ForgetKey(d) PROVE PostedSound' /\ FlashSound' /\ RamSound'
  <2>1. /\ \A e \in Doors : e # d => /\ web'[e] = web[e] /\ key'[e] = key[e]
                                     /\ keyNvs'[e] = keyNvs[e]
                                     /\ e \in halfMoved' <=> e \in halfMoved
        /\ web'[d].at = "idle" /\ key'[d] = 0 /\ keyNvs'[d] = 0 /\ UNCHANGED host
    BY <1>0, <1>5 DEF ForgetKey, Typed, DoorTyped
  <2>2. PostedSound'
    BY <1>1, <2>1 DEF Accepted, PostedSound
  <2>3. FlashSound' /\ RamSound'
    BY <1>1, <2>1 DEF Accepted, FlashSound, RamSound
  <2>4. QED
    BY <2>2, <2>3
<1>6. ASSUME KeepKey(d) PROVE PostedSound' /\ FlashSound' /\ RamSound'
  <2>1. /\ \A e \in Doors : e # d => web'[e] = web[e] /\ keyNvs'[e] = keyNvs[e]
        /\ web[d].at = "posted" /\ web'[d].at = "adopting"
        /\ keyNvs'[d] = calls[web[d].call].key /\ calls[web[d].call].at = "answered"
        /\ UNCHANGED <<host, key, halfMoved>>
    BY <1>0, <1>6 DEF KeepKey, Typed, DoorTyped
  <2>2. keyNvs'[d] <= keyHash[host[d]][d]
    <3>1. web[d].call \in CallIds
      BY <2>1 DEF Typed, DoorInStep
    <3>2. QED
      BY <2>1, <3>1 DEF Accepted, CallsSound, PostedSound
  <2>3. PostedSound'
    BY <1>1, <2>1 DEF Accepted, PostedSound
  <2>4. FlashSound'
    BY <1>1, <2>1, <2>2 DEF Accepted, FlashSound
  <2>5. RamSound'
    BY <1>1, <2>1 DEF Accepted, RamSound
  <2>6. QED
    BY <2>3, <2>4, <2>5
<1>7. ASSUME AdoptKey(d) PROVE PostedSound' /\ FlashSound' /\ RamSound'
  <2>1. /\ \A e \in Doors : e # d => /\ web'[e] = web[e] /\ key'[e] = key[e]
                                     /\ e \in halfMoved' <=> e \in halfMoved
        /\ web[d].at = "adopting" /\ web'[d].at = "idle" /\ key'[d] = keyNvs[d]
        /\ UNCHANGED <<host, keyNvs>>
    BY <1>0, <1>7 DEF AdoptKey, store, Typed, DoorTyped
  <2>2. keyNvs[d] # 0 => keyNvs[d] <= keyHash[host[d]][d]
    BY <2>1 DEF Accepted, FlashSound
  <2>3. PostedSound'
    BY <1>1, <2>1 DEF Accepted, PostedSound
  <2>4. FlashSound'
    BY <1>1, <2>1, <2>2 DEF Accepted, FlashSound
  <2>5. RamSound'
    BY <1>1, <2>1, <2>2 DEF Accepted, RamSound
  <2>6. QED
    BY <2>3, <2>4, <2>5
<1>8. ASSUME PowerCut(d) PROVE PostedSound' /\ FlashSound' /\ RamSound'
  <2>1. /\ \A e \in Doors : e # d => /\ web'[e] = web[e] /\ key'[e] = key[e]
                                     /\ e \in halfMoved' <=> e \in halfMoved
        /\ web'[d].at = "idle" /\ key'[d] = keyNvs[d]
        /\ web[d].at = "moving" => d \in halfMoved'
        /\ d \in halfMoved => d \in halfMoved'
        /\ UNCHANGED <<host, keyNvs>>
    BY <1>0, <1>8 DEF PowerCut, store, Typed, DoorTyped, DoorInStep
  <2>2. PostedSound'
    BY <1>1, <2>1 DEF Accepted, PostedSound
  <2>3. FlashSound'
    BY <1>1, <2>1 DEF Accepted, FlashSound
  <2>4. RamSound'
    BY <1>1, <2>1 DEF Accepted, FlashSound, RamSound
  <2>5. QED
    BY <2>2, <2>3, <2>4
<1>9. PostedSound' /\ FlashSound' /\ RamSound'
  BY <1>3, <1>4, <1>5, <1>6, <1>7, <1>8 DEF WebTask
<1>10. QED
  BY <1>2, <1>9 DEF Accepted

LEMMA PostAccepted ==
  ASSUME Typed, Accepted, NEW d \in Doors, NEW c \in Codes, Post(d, c)
  PROVE  Accepted'
<1>1. PICK i \in CallIds :
        /\ calls[i].at = "free"
        /\ calls' = [calls EXCEPT ![i] = [at |-> "asked", door |-> d, host |-> host[d],
                                          code |-> c, key |-> 0]]
        /\ web' = [web EXCEPT ![d] = Waiting(i)]
        /\ web[d].at = "idle"
  BY DEF Post
<1>2. UNCHANGED <<keyHash, made, host, key, keyNvs, halfMoved>>
  BY DEF Post, store
<1>3. /\ calls'[i].at = "asked" /\ calls'[i].door = d /\ calls'[i].host = host[d]
      /\ \A j \in CallIds : j # i => calls'[j] = calls[j]
      /\ web'[d].at = "posted" /\ web'[d].call = i
      /\ \A e \in Doors : e # d => web'[e] = web[e]
  BY <1>1 DEF Waiting, Typed, BackendTyped, DoorTyped
<1>4. KeysMade'
  BY <1>2 DEF Accepted, KeysMade
<1>5. CallsSound'
  BY <1>2, <1>3 DEF Accepted, CallsSound
<1>6. PostedSound'
  <2> SUFFICES ASSUME NEW e \in Doors, web'[e].at = "posted"
               PROVE  /\ calls'[web'[e].call].at # "free"
                      /\ calls'[web'[e].call].door = e
                      /\ calls'[web'[e].call].host = host[e]
    BY <1>2 DEF PostedSound
  <2>1. CASE e = d
    BY <1>3, <2>1
  <2>2. CASE e # d
    BY <1>1, <1>3, <2>2 DEF Accepted, PostedSound
  <2>3. QED
    BY <2>1, <2>2
<1>7. FlashSound' /\ RamSound'
  BY <1>1, <1>2, <1>3 DEF Accepted, FlashSound, RamSound
<1>8. QED
  BY <1>4, <1>5, <1>6, <1>7 DEF Accepted

(* Every step keeps what doors believe within what backends have stored.   *)
LEMMA StepAccepted == Typed /\ Accepted /\ [Next]_vars => Accepted'
<1> SUFFICES ASSUME Typed, Accepted, [Next]_vars PROVE Accepted'
  OBVIOUS
<1>1. ASSUME UNCHANGED <<keyHash, made, calls, host, key, keyNvs, web, halfMoved>>
      PROVE  Accepted'
  BY <1>1 DEF Accepted, KeysMade, CallsSound, PostedSound, FlashSound, RamSound
<1>2. ASSUME NEW i \in CallIds, Enroll(i) \/ HandlerFails(i) PROVE Accepted'
  BY <1>2, HandlerAccepted, StoreKeyAccepted DEF Enroll
<1>3. CASE (\E h \in Hosts, c \in Codes : Issue(h, c)) \/ (\E c \in Codes : Lapse(c))
  BY <1>1, <1>3 DEF Issue, Lapse, door, store
<1>4. ASSUME NEW d \in Doors, SyncTask(d) \/ SyncLost(d) PROVE Accepted'
  BY <1>1, <1>4 DEF SyncTask, SyncRead, SyncSend, SyncAnswer, SyncApply, SyncLost, store,
                    backend
<1>5. CASE UNCHANGED vars
  BY <1>1, <1>5 DEF vars, backend, door, store
<1>6. CASE Next
  BY <1>2, <1>3, <1>4, <1>6, WebAccepted, PostAccepted DEF Next
<1>7. QED
  BY <1>5, <1>6

(* The key a door believes in is its backend's key for it, or an earlier one whose
   successor's answer the door missed: through overlapping calls, changes of host
   and power cuts, but for the one between the two halves of such a change. *)
THEOREM DoorKeyIsBackends == Spec => []KeyIsAccepted
<1>1. Init => Typed /\ Accepted
  BY InitTyped, InitAccepted
<1>2. (Typed /\ Accepted) /\ [Next]_vars => (Typed /\ Accepted)'
  BY StepTyped, StepAccepted
<1>3. Spec => [](Typed /\ Accepted)
  BY <1>1, <1>2, PTL DEF Spec
<1>4. QED
  BY <1>3, AcceptedIsKeyIsAccepted, PTL

=============================================================================
