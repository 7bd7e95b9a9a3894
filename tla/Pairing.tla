------------------------------- MODULE Pairing -------------------------------
(***************************************************************************)
(* How a door comes to hold a key of a backend: an administrator issues a  *)
(* code, somebody types it at the door's /setup page (CloudSync::setHost   *)
(* and CloudSync::pair, on the web server's task), the backend's enroll    *)
(* handler redeems it, and the cloudsync task presents the key it got.     *)
(*                                                                         *)
(* Several doors and several backends; enroll calls that overlap, that     *)
(* stop half way, and that go on after the door has stopped waiting; power *)
(* cuts; syncs that read the key, then the host, and are answered later.   *)
(*                                                                         *)
(* A key is the number of its turn among those stored; its hash is itself. *)
(* A backend's list is named by the backend and carries its revision.      *)
(***************************************************************************)
EXTENDS Naturals, FiniteSets

CONSTANTS Doors, Hosts, Codes, None,
          Home,          \* the host compiled in
          Rev,           \* the roster revision of each backend
          MaxCalls, MaxCuts, MaxLosses

ASSUME PairingAssumption ==
    /\ Home \in Hosts /\ None \notin Hosts \cup Codes
    /\ Rev \in [Hosts -> Nat \ {0}]
    /\ {MaxCalls, MaxCuts, MaxLosses} \subseteq Nat

VARIABLES
    rows,       \* the pairing codes in each backend's table
    lapsed,     \* codes past expiresAt
    keyHash,    \* each backend's keyHash of each door, 0 before it is paired
    made,       \* keys stored so far
    calls,      \* enroll handlers
    host, hostNvs, key, keyNvs,  \* the door's backend and key, in RAM and NVS
    web,        \* the door's web task
    sync,       \* the door's cloudsync task
    list,       \* whose list the door decides by
    yielded,    \* history: the keys each code has given
    halfMoved,  \* history: doors whose power failed between host and key, until
                \* the key is forgotten or replaced
    cuts, lost  \* history: power cuts; answers lost

backend == <<rows, lapsed, keyHash, made, calls, yielded>>
store == <<hostNvs, keyNvs>>
door == <<host, key, store, web, sync, list, halfMoved>>
world == <<cuts, lost>>
vars == <<backend, door, world>>

CallIds == 1..MaxCalls
Free == [at |-> "free", door |-> None, host |-> None, code |-> None, key |-> 0]
Busy == {"asked", "found", "redeemed"}
NoSync == [at |-> "idle", key |-> 0, rev |-> 0, host |-> None]
Waiting(i) == [at |-> "posted", call |-> i]
Web(at) == [at |-> at, call |-> 0]

Revision(l) == IF l = None THEN 0 ELSE Rev[l]

-----------------------------------------------------------------------------
(* The backend.                                                            *)

\* issueEnrollCode: a code is never issued twice.
Issue(h, c) ==
    /\ \A g \in Hosts : c \notin rows[g]
    /\ yielded[c] = {} /\ c \notin lapsed
    /\ \A i \in CallIds : calls[i].code # c
    /\ rows' = [rows EXCEPT ![h] = @ \cup {c}]
    /\ UNCHANGED <<lapsed, keyHash, made, calls, yielded, door, world>>

\* Fifteen minutes pass.
Lapse(c) ==
    /\ \E h \in Hosts : c \in rows[h]
    /\ c \notin lapsed /\ lapsed' = lapsed \cup {c}
    /\ UNCHANGED <<rows, keyHash, made, calls, yielded, door, world>>

Move(i, at) == calls' = [calls EXCEPT ![i].at = at]

\* redeemEnrollCode: the row is read ...
Look(i) ==
    /\ calls[i].at = "asked"
    /\ Move(i, IF calls[i].code \in rows[calls[i].host] THEN "found" ELSE "refused")
    /\ UNCHANGED <<rows, lapsed, keyHash, made, yielded, door, world>>

\* Mutant: a row that is gone already does not stop the redemption.
DeleteAnyway(i) ==
    /\ calls[i].at = "found"
    /\ LET c == calls[i].code  h == calls[i].host IN
       /\ rows' = [rows EXCEPT ![h] = @ \ {c}]
       /\ Move(i, IF c \notin lapsed THEN "redeemed" ELSE "refused")
    /\ UNCHANGED <<lapsed, keyHash, made, yielded, door, world>>

\* ... and deleted, which fails when another call has deleted it first; an
\* expired code is used up as well.
Delete(i) ==
    /\ calls[i].at = "found"
    /\ LET c == calls[i].code  h == calls[i].host IN
       /\ rows' = [rows EXCEPT ![h] = @ \ {c}]
       /\ Move(i, IF c \in rows[h] /\ c \notin lapsed THEN "redeemed" ELSE "refused")
    /\ UNCHANGED <<lapsed, keyHash, made, yielded, door, world>>

\* The door's row gets the new key in place of the old, and the key goes out.
StoreKey(i) ==
    /\ calls[i].at = "redeemed"
    /\ made' = made + 1
    /\ keyHash' = [keyHash EXCEPT ![calls[i].host][calls[i].door] = made + 1]
    /\ calls' = [calls EXCEPT ![i].at = "answered", ![i].key = made + 1]
    /\ yielded' = [yielded EXCEPT ![calls[i].code] = @ \cup {made + 1}]
    /\ UNCHANGED <<rows, lapsed, door, world>>

\* The handler fails between two of these: the storage does not answer.
HandlerFails(i) ==
    /\ calls[i].at \in Busy /\ lost < MaxLosses /\ lost' = lost + 1
    /\ Move(i, "refused")
    /\ UNCHANGED <<rows, lapsed, keyHash, made, yielded, door, cuts>>

-----------------------------------------------------------------------------
(* The door's /setup page.                                                 *)

\* Mutant: the key is kept across a change of host.
SetHostKeepsKey(d, h) ==
    /\ web[d].at = "idle" /\ h # host[d]
    /\ host' = [host EXCEPT ![d] = h]
    /\ hostNvs' = [hostNvs EXCEPT ![d] = h]
    /\ UNCHANGED <<key, keyNvs, web, sync, list, halfMoved, backend, world>>

\* setHost: the host, in RAM and in NVS ...
SetHost(d, h) ==
    /\ web[d].at = "idle" /\ h # host[d]
    /\ host' = [host EXCEPT ![d] = h]
    /\ hostNvs' = [hostNvs EXCEPT ![d] = h]
    /\ web' = IF key[d] # 0 THEN [web EXCEPT ![d] = Web("moving")] ELSE web
    /\ UNCHANGED <<key, keyNvs, sync, list, halfMoved, backend, world>>

\* ... and then the key, which belongs to the backend that issued it.
ForgetKey(d) ==
    /\ web[d].at = "moving"
    /\ key' = [key EXCEPT ![d] = 0] /\ keyNvs' = [keyNvs EXCEPT ![d] = 0]
    /\ web' = [web EXCEPT ![d] = Web("idle")] /\ halfMoved' = halfMoved \ {d}
    /\ UNCHANGED <<host, hostNvs, sync, list, backend, world>>

\* pair: a code is posted to the backend ...
Post(d, c) ==
    /\ web[d].at = "idle"
    /\ \E h \in Hosts : c \in rows[h]
    /\ \E i \in CallIds :
         /\ calls[i].at = "free" /\ \A j \in 1..i - 1 : calls[j].at # "free"
         /\ calls' = [calls EXCEPT ![i] = [at |-> "asked", door |-> d, host |-> host[d],
                                           code |-> c, key |-> 0]]
         /\ web' = [web EXCEPT ![d] = Waiting(i)]
    /\ UNCHANGED <<rows, lapsed, keyHash, made, yielded, host, key, store, sync, list,
                   halfMoved, world>>

\* ... twenty seconds pass, or the connection breaks: whatever the backend
\* does, the door knows of a failure only ...
GivesUp(d) ==
    /\ web[d].at = "posted" /\ lost < MaxLosses /\ lost' = lost + 1
    /\ web' = [web EXCEPT ![d] = Web("idle")]
    /\ UNCHANGED <<host, key, store, sync, list, halfMoved, backend, cuts>>

Refused(d) ==
    /\ web[d].at = "posted" /\ calls[web[d].call].at = "refused"
    /\ web' = [web EXCEPT ![d] = Web("idle")]
    /\ UNCHANGED <<host, key, store, sync, list, halfMoved, backend, world>>

\* ... or the key arrives and is stored, and then put to use.
KeepKey(d) ==
    /\ web[d].at = "posted" /\ calls[web[d].call].at = "answered"
    /\ keyNvs' = [keyNvs EXCEPT ![d] = calls[web[d].call].key]
    /\ web' = [web EXCEPT ![d] = Web("adopting")]
    /\ UNCHANGED <<host, hostNvs, key, sync, list, halfMoved, backend, world>>

AdoptKey(d) ==
    /\ web[d].at = "adopting"
    /\ key' = [key EXCEPT ![d] = keyNvs[d]]
    /\ web' = [web EXCEPT ![d] = Web("idle")] /\ halfMoved' = halfMoved \ {d}
    /\ UNCHANGED <<host, store, sync, list, backend, world>>

-----------------------------------------------------------------------------
(* The cloudsync task.                                                     *)

\* The key and the revision go into the request; the key is read under the
\* lock that setHost holds from one half to the other ...
SyncRead(d) ==
    /\ sync[d].at = "idle" /\ key[d] # 0 /\ web[d].at # "moving"
    /\ sync' = [sync EXCEPT ![d] = [at |-> "read", key |-> key[d], host |-> None,
                                    rev |-> Revision(list[d])]]
    /\ UNCHANGED <<host, key, store, web, list, halfMoved, backend, world>>

\* ... which goes to the host of a little later ...
SyncSend(d) ==
    /\ sync[d].at = "read"
    /\ sync' = [sync EXCEPT ![d].at = "sent", ![d].host = host[d]]
    /\ UNCHANGED <<host, key, store, web, list, halfMoved, backend, world>>

\* authenticateDevice
Authentic(d) == keyHash[sync[d].host][d] = sync[d].key

\* Mutant: only a lower revision is behind.
BehindIfLower(rev, rosterRev) == rev < rosterRev

\* Whether the door is behind.
Behind(rev, rosterRev) == rev # rosterRev

\* ... is refused, or answered with the list if the revisions differ ...
SyncAnswer(d) ==
    /\ sync[d].at = "sent"
    /\ sync' = IF Authentic(d) /\ Behind(sync[d].rev, Rev[sync[d].host])
                 THEN [sync EXCEPT ![d].at = "listed"]
                 ELSE [sync EXCEPT ![d] = NoSync]
    /\ UNCHANGED <<host, key, store, web, list, halfMoved, backend, world>>

\* ... and the list is put to use, whatever has become of the host meanwhile.
SyncApply(d) ==
    /\ sync[d].at = "listed"
    /\ list' = [list EXCEPT ![d] = sync[d].host]
    /\ sync' = [sync EXCEPT ![d] = NoSync]
    /\ UNCHANGED <<host, key, store, web, halfMoved, backend, world>>

SyncLost(d) ==
    /\ sync[d].at # "idle" /\ lost < MaxLosses /\ lost' = lost + 1
    /\ sync' = [sync EXCEPT ![d] = NoSync]
    /\ UNCHANGED <<host, key, store, web, list, halfMoved, backend, cuts>>

-----------------------------------------------------------------------------
\* Power fails, and CloudSync::begin reads what was stored.
PowerCut(d) ==
    /\ cuts < MaxCuts /\ cuts' = cuts + 1
    /\ host' = [host EXCEPT ![d] = hostNvs[d]]
    /\ key' = [key EXCEPT ![d] = keyNvs[d]]
    /\ web' = [web EXCEPT ![d] = Web("idle")]
    /\ sync' = [sync EXCEPT ![d] = NoSync]
    /\ halfMoved' = IF web[d].at = "moving" THEN halfMoved \cup {d} ELSE halfMoved
    /\ UNCHANGED <<store, list, backend, lost>>

Init ==
    /\ rows = [h \in Hosts |-> {}] /\ lapsed = {}
    /\ keyHash = [h \in Hosts |-> [d \in Doors |-> 0]] /\ made = 0
    /\ calls = [i \in CallIds |-> Free]
    /\ host = [d \in Doors |-> Home] /\ hostNvs = host
    /\ key = [d \in Doors |-> 0] /\ keyNvs = key
    /\ web = [d \in Doors |-> Web("idle")]
    /\ sync = [d \in Doors |-> NoSync]
    /\ list = [d \in Doors |-> None]
    /\ yielded = [c \in Codes |-> {}] /\ halfMoved = {}
    /\ cuts = 0 /\ lost = 0

Enroll(i) == Look(i) \/ Delete(i) \/ StoreKey(i)
WebTask(d) == ForgetKey(d) \/ Refused(d) \/ KeepKey(d) \/ AdoptKey(d)
SyncTask(d) == SyncRead(d) \/ SyncSend(d) \/ SyncAnswer(d) \/ SyncApply(d)

Next == \/ \E h \in Hosts, c \in Codes : Issue(h, c)
        \/ \E c \in Codes : Lapse(c)
        \/ \E i \in CallIds : Enroll(i) \/ HandlerFails(i)
        \/ \E d \in Doors :
             \/ \E h \in Hosts : SetHost(d, h)
             \/ \E c \in Codes : Post(d, c)
             \/ GivesUp(d) \/ WebTask(d)
             \/ SyncTask(d) \/ SyncLost(d) \/ PowerCut(d)

Spec == Init /\ [][Next]_vars

\* The handlers and the two tasks of a door go on with what they have begun;
\* people need not.
FairSpec == /\ Spec
            /\ \A i \in CallIds : WF_vars(Enroll(i))
            /\ \A d \in Doors : WF_vars(WebTask(d)) /\ WF_vars(SyncTask(d))

-----------------------------------------------------------------------------
(* Properties.                                                             *)

\* Every variable keeps its type, and while the web task is at rest what the
\* door works with is what it would find after a power cut.
TypeOK ==
    /\ rows \in [Hosts -> SUBSET Codes] /\ lapsed \subseteq Codes
    /\ keyHash \in [Hosts -> [Doors -> Nat]] /\ made \in Nat
    /\ calls \in [CallIds -> [at : Busy \cup {"free", "refused", "answered"},
                              door : Doors \cup {None}, host : Hosts \cup {None},
                              code : Codes \cup {None}, key : Nat]]
    /\ {host, hostNvs} \subseteq [Doors -> Hosts]
    /\ {key, keyNvs} \subseteq [Doors -> Nat]
    /\ web \in [Doors -> [at : {"idle", "moving", "posted", "adopting"},
                          call : 0..MaxCalls]]
    /\ sync \in [Doors -> [at : {"idle", "read", "sent", "listed"}, key : Nat,
                           rev : Nat, host : Hosts \cup {None}]]
    /\ list \in [Doors -> Hosts \cup {None}]
    /\ yielded \in [Codes -> SUBSET Nat] /\ halfMoved \subseteq Doors
    /\ cuts \in 0..MaxCuts /\ lost \in 0..MaxLosses
    /\ \A d \in Doors : web[d].at = "idle" => key[d] = keyNvs[d] /\ host[d] = hostNvs[d]

\* A code gives one key, to one door, however calls overlap and whoever types
\* it again.
CodeOnce == \A c \in Codes : Cardinality(yielded[c]) <= 1

\* The key a door believes in is its backend's key for it, unless the backend
\* has stored a later one whose answer the door missed -- and unless it got
\* that key before power failed between the two halves of a change of host.
KeyIsAccepted ==
    \A d \in Doors : key[d] # 0 /\ web[d].at # "moving" =>
        \/ keyHash[host[d]][d] >= key[d]
        \/ d \in halfMoved

\* A door that stays paired with a backend that accepts its key decides by
\* that backend's list in the end, whatever answer of its former backend was
\* still under way when it moved.
Belongs ==
    \A d \in Doors :
        <>[](key[d] # 0 /\ keyHash[host[d]][d] = key[d]) => <>[](list[d] = host[d])

=============================================================================
