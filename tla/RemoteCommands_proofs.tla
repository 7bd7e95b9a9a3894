------------------------- MODULE RemoteCommands_proofs -------------------------
(***************************************************************************)
(* Proofs about RemoteCommands, for any ids, times and bounds, however the *)
(* backend's handlers interleave and outlive the calls they answer.        *)
(*                                                                         *)
(* The argument about restarts follows the id: it is in the row until      *)
(* another replaces it, and from the moment a restart is made for it until *)
(* then it is the last one in flash, so that no offer of it is new.        *)
(***************************************************************************)
EXTENDS RemoteCommands, TLAPS

Steps == {"off", "sync", "asked", "act", "synced", "markDownload", "markRestart",
          "download", "restart", "wait"}
Presses == {"new", "asked", "published", "done"}

BackendTyped ==
  /\ now \in Times /\ at \in [Requests -> Times \cup {None}]
  /\ row \in [restart : RestartIds, release : ReleaseIds, done : ReleaseIds]
  /\ blob \in ReleaseIds
  /\ press \in [Releases -> Presses]

CallsTyped == calls \in [Slots -> Calls]

CommandsTyped ==
  /\ nvs \in [restart : RestartIds, release : ReleaseIds]
  /\ known \in RestartIds /\ pending \in RestartIds /\ owed \in RestartIds
  /\ released \in ReleaseIds /\ lapsed \in ReleaseIds
  /\ acting \in [id : ReleaseIds, next : {"synced", "wait"}]
  /\ pc \in Steps /\ (pc = "act" => acting.id \in Releases)

LinkTyped ==
  /\ lag \in 0 .. MaxLag \cup {None}
  /\ feed \in [url : BOOLEAN, etag : ReleaseIds, failures : 0 .. FeedTries]

FlagsTyped ==
  /\ syncNow \in BOOLEAN /\ backingOff \in BOOLEAN
  /\ offer \in BOOLEAN /\ updated \in BOOLEAN /\ busy \in BOOLEAN

QueueTyped == queue \in Seq(Releases) /\ Len(queue) <= QueueCap

HistoryTyped ==
  /\ crashes \in 0 .. MaxCrashes
  /\ honoured \in [Restarts -> Nat] /\ opened \in [Releases -> Nat]
  /\ acted \subseteq Releases /\ rebooted \subseteq Restarts
  /\ overtaken \subseteq Restarts /\ forgotten \subseteq Releases

(* A sync is given up at its timeout.                                      *)
Young == calls["live"].pc \in {"read", "answered"} =>
           now - calls["live"].epoch \in 0 .. MaxLag

WellTyped ==
  /\ BackendTyped /\ CallsTyped /\ CommandsTyped /\ LinkTyped /\ FlagsTyped
  /\ QueueTyped /\ HistoryTyped /\ Young

LEMMA WellTypedIsTypeOK == WellTyped => TypeOK
  BY DEF WellTyped, BackendTyped, CallsTyped, CommandsTyped, LinkTyped, FlagsTyped,
     QueueTyped, HistoryTyped, TypeOK, Steps, Presses

(* No call is a call.                                                      *)
LEMMA NoCallTyped == NoCall \in Calls
  BY CommandsAssumption DEF NoCall, Calls, RestartIds, ReleaseIds, Times

LEMMA UnheardTyped ==
  ASSUME NEW c \in Calls
  PROVE  /\ Unheard(c) \in Calls
         /\ \/ Unheard(c) = NoCall
            \/ /\ Unheard(c).pc = c.pc /\ Unheard(c).newly = c.newly
               /\ Unheard(c).restart = c.restart /\ Unheard(c).release = c.release
               /\ Unheard(c).restartDone = c.restartDone
               /\ Unheard(c).askRelease = None
<1> DEFINE u == [c EXCEPT !.epoch = 0, !.askRestart = None, !.askRelease = None]
<1>0. 0 \in Times /\ None \in RestartIds /\ None \in ReleaseIds
  BY CommandsAssumption DEF RestartIds, ReleaseIds, Times
<1>1. u \in Calls
  BY <1>0 DEF Calls
<1>2. /\ u.pc = c.pc /\ u.newly = c.newly /\ u.restart = c.restart
      /\ u.release = c.release /\ u.restartDone = c.restartDone /\ u.askRelease = None
  BY DEF Calls
<1>3. Unheard(c) \in {u, NoCall}
  BY DEF Unheard
<1> HIDE DEF u
<1>4. QED
  BY <1>1, <1>2, <1>3, NoCallTyped

LEMMA InitTyped == Init => WellTyped
<1> SUFFICES ASSUME Init PROVE WellTyped
  OBVIOUS
<1>1. BackendTyped
  BY CommandsAssumption
     DEF Init, BackendTyped, RestartIds, ReleaseIds, Times, Requests, Presses
<1>2. CallsTyped /\ Young
  BY NoCallTyped DEF Init, CallsTyped, Young, NoCall, Slots
<1>3. CommandsTyped /\ QueueTyped
  BY CommandsAssumption
     DEF Init, CommandsTyped, QueueTyped, RestartIds, ReleaseIds, Steps
<1>4. LinkTyped
  BY CommandsAssumption DEF Init, LinkTyped, NoFeed, ReleaseIds
<1>5. FlagsTyped
  BY Zenon DEF Init, FlagsTyped
<1>6. HistoryTyped
  BY CommandsAssumption DEF Init, HistoryTyped
<1>7. QED
  BY <1>1, <1>2, <1>3, <1>4, <1>5, <1>6 DEF WellTyped

-----------------------------------------------------------------------------
(* Which actions touch what.                                               *)

LEMMA BackendSteps ==
  ASSUME Next
  PROVE  \/ UNCHANGED <<clock, backend>>
         \/ Tick \/ \E x \in Restarts : AskRestart(x)
         \/ \E r \in Releases : AskRelease(r) \/ PublishRelease(r) \/ RecordRelease(r)
         \/ \E k \in Slots : SyncTouch(k)
  BY DEF Next, Asking, Releasing, Serving, Syncing, Between, Updating, Feed, Strike,
     SyncRead, SyncSend, SyncFails, SyncAnswer, TakeUpdate, TakeRestart, MarkRestart,
     Restart, StartWait, PassOn, Downloaded, DownloadFails, SelfHeal, EndWait,
     PollUnchanged, PollNew, PollRefused, PollFails, OpenDoor, Relock, PowerCut, Boot,
     Reboot

LEMMA CallSteps ==
  ASSUME Next
  PROVE  \/ UNCHANGED calls \/ SyncSend \/ Abandon
         \/ SyncAnswer
         \/ \E k \in Slots : SyncRead(k) \/ SyncTouch(k)
  BY DEF Next, Asking, Releasing, Serving, Syncing, Between, Updating, Feed, Strike,
     Tick, AskRestart, AskRelease, PublishRelease, RecordRelease,
     SyncFails, TakeUpdate, TakeRestart, MarkRestart,
     Restart, StartWait, PassOn, Downloaded, DownloadFails, SelfHeal, EndWait,
     PollUnchanged, PollNew, PollRefused, PollFails, OpenDoor, Relock, PowerCut, Boot,
     Reboot

LEMMA BackendStep == ASSUME WellTyped, Next PROVE BackendTyped'
<1> BackendTyped /\ CallsTyped
  BY DEF WellTyped
<1>1. CASE UNCHANGED <<clock, backend>>
  BY <1>1 DEF clock, backend, BackendTyped
<1>2. CASE Tick
  BY <1>2, CommandsAssumption DEF Tick, backend, BackendTyped, Times
<1>3. CASE \E x \in Restarts : AskRestart(x)
  BY <1>3 DEF AskRestart, BackendTyped, RestartIds, Requests
<1>4. CASE \E r \in Releases : AskRelease(r) \/ PublishRelease(r) \/ RecordRelease(r)
  BY <1>4 DEF AskRelease, PublishRelease, RecordRelease, clock, BackendTyped, ReleaseIds,
     Requests, Presses
<1>5. CASE \E k \in Slots : SyncTouch(k)
  BY <1>5 DEF SyncTouch, clock, BackendTyped, CallsTyped, Calls, RestartIds
<1>6. QED
  BY <1>1, <1>2, <1>3, <1>4, <1>5, BackendSteps

(* The answer to a sync has the fields of a call.                          *)
LEMMA ResponseTyped ==
  ASSUME BackendTyped, NEW c \in Calls
  PROVE  /\ Response(c) \in Calls /\ Response(c).pc = "read" /\ Response(c).epoch = now
         /\ Response(c).restart = c.restart /\ Response(c).release = c.release
         /\ Response(c).askRestart \in {None, row.restart}
         /\ Response(c).askRelease \in {None, row.release}
         /\ Response(c).newly \in {None, c.release}
         /\ Response(c).restartDone => row.restart = c.restart
<1>1. Newly(c) \in ReleaseIds /\ Newly(c) \in {None, c.release}
  BY DEF Newly, BackendTyped, ReleaseIds
<1>2. row.restart \in RestartIds /\ row.release \in ReleaseIds /\ now \in Times
  BY DEF BackendTyped
<1> DEFINE done == row.restart # None /\ c.restart = row.restart
<1> DEFINE askX == IF row.restart # None /\ ~done /\ now - at[row.restart] < RestartTtl
                   THEN row.restart ELSE None
<1> DEFINE askR == IF row.release # None
                      /\ ~(row.done = row.release \/ c.release = row.release)
                      /\ now - at[row.release] < ReleaseTtl
                   THEN row.release ELSE None
<1>4. /\ done \in BOOLEAN /\ askX \in {None, row.restart} /\ askR \in {None, row.release}
      /\ done => row.restart = c.restart
  OBVIOUS
<1>5. askX \in RestartIds /\ askR \in ReleaseIds
  BY <1>2, <1>4 DEF RestartIds, ReleaseIds
<1> PICK d \in BOOLEAN : d = done
  BY <1>4
<1>6. Response(c) =
        [c EXCEPT !.pc = "read", !.epoch = now, !.restartDone = d,
                  !.askRestart = askX, !.newly = Newly(c), !.askRelease = askR]
  BY DEF Response
<1> HIDE DEF done, askX, askR
<1>7. Response(c) \in Calls
  BY <1>1, <1>2, <1>5, <1>6 DEF Calls
<1>8. /\ Response(c).pc = "read" /\ Response(c).epoch = now
      /\ Response(c).restart = c.restart /\ Response(c).release = c.release
      /\ Response(c).askRestart = askX /\ Response(c).askRelease = askR
      /\ Response(c).newly = Newly(c) /\ Response(c).restartDone = d
  BY <1>6 DEF Calls
<1>9. QED
  BY <1>1, <1>4, <1>7, <1>8

LEMMA CallsStep == ASSUME WellTyped, Next PROVE CallsTyped' /\ Young'
<1> /\ CallsTyped /\ BackendTyped /\ CommandsTyped /\ Young
    /\ "live" \in Slots /\ "orphan" \in Slots
  BY DEF WellTyped, Slots
<1>1. now \in Nat /\ MaxLag \in Nat /\ now' \in Nat
  BY BackendStep, CommandsAssumption DEF BackendTyped, Times
<1>2. Tick \/ now' = now
  BY BackendSteps DEF clock, AskRestart, AskRelease, PublishRelease, RecordRelease,
     SyncTouch
<1>3. CASE UNCHANGED calls
  <2>1. CASE Tick
    BY <1>1, <1>3, <2>1 DEF Tick, CallsTyped, Calls, Times, Young
  <2>2. CASE now' = now
    BY <1>3, <2>2 DEF CallsTyped, Young
  <2>3. QED
    BY <1>2, <2>1, <2>2
<1>4. CASE SyncSend
  <2>1. [NoCall EXCEPT !.pc = "sent", !.restart = known, !.release = released] \in Calls
    BY NoCallTyped DEF Calls, CommandsTyped
  <2>2. QED
    BY <1>4, <2>1 DEF SyncSend, CallsTyped, Young, NoCall
<1>5. CASE Abandon
  <2>1. calls["live"] \in Calls /\ Unheard(calls["live"]) \in Calls
    BY UnheardTyped DEF CallsTyped
  <2>2. QED
    BY <1>5, <2>1, NoCallTyped DEF Abandon, CallsTyped, Young, Slots, NoCall
<1>6. CASE SyncAnswer
  BY <1>6, NoCallTyped DEF SyncAnswer, CallsTyped, Young, NoCall
<1>7. ASSUME NEW k \in Slots, SyncRead(k) PROVE CallsTyped' /\ Young'
  <2>1. calls[k] \in Calls
    BY DEF CallsTyped
  <2>2. now' = now /\ Response(calls[k]) \in Calls /\ Unheard(Response(calls[k])) \in Calls
    BY <1>7, <2>1, ResponseTyped, UnheardTyped DEF SyncRead, clock
  <2>3. CallsTyped'
    BY <1>7, <2>2 DEF SyncRead, CallsTyped
  <2>4. Young'
    BY <1>1, <1>7, <2>1, <2>2, ResponseTyped DEF SyncRead, CallsTyped, Young
  <2>5. QED
    BY <2>3, <2>4
<1>8. ASSUME NEW k \in Slots, SyncTouch(k) PROVE CallsTyped' /\ Young'
  <2>1. calls[k] \in Calls /\ calls[k].pc = "read"
    BY <1>8 DEF CallsTyped, SyncTouch
  <2>2. [calls[k] EXCEPT !.pc = "answered"] \in Calls
    BY <2>1 DEF Calls
  <2>3. now' = now
    BY <1>8 DEF SyncTouch, clock
  <2>4. QED
    BY <1>8, <2>1, <2>2, <2>3, NoCallTyped DEF SyncTouch, CallsTyped, Young, Calls, NoCall
<1>9. QED
  BY <1>3, <1>4, <1>5, <1>6, <1>7, <1>8, CallSteps

(* Every action but these leaves the task's commands, NVS and step alone.  *)
LEMMA CommandSteps ==
  ASSUME Next
  PROVE  \/ UNCHANGED <<nvs, pc, commands>> \/ SyncSend \/ SyncFails \/ SyncAnswer
         \/ Between \/ Downloaded \/ DownloadFails \/ SelfHeal \/ EndWait
         \/ PollNew \/ PowerCut \/ Boot
  BY DEF Next, Asking, Releasing, Serving, Syncing, Updating, Feed, Strike,
     Tick, AskRestart, AskRelease, PublishRelease, RecordRelease, SyncRead, SyncTouch,
     PollUnchanged, PollRefused, PollFails, OpenDoor, Relock

(* What considering a release does to the task.                            *)
LEMMA ConsiderTyped ==
  ASSUME CommandsTyped, NEW r \in ReleaseIds, NEW l, NEW next \in {"synced", "wait"},
         Consider(r, l, next)
  PROVE  /\ nvs' \in [restart : RestartIds, release : ReleaseIds]
         /\ nvs'.restart = nvs.restart
         /\ released' \in ReleaseIds /\ lapsed' \in ReleaseIds
         /\ acting' \in [id : ReleaseIds, next : {"synced", "wait"}]
         /\ pc' = next \/ (pc' = "act" /\ acting'.id \in Releases)
         /\ UNCHANGED <<released, nvs, acted, forgotten>>
            \/ /\ r \in Releases /\ released' = r /\ nvs'.release = r
               /\ ~Late(r, l) /\ acted' = acted \cup {r}
               /\ forgotten' \subseteq forgotten \cup acted
  BY DEF Consider, TakeOn, CommandsTyped, ReleaseIds

LEMMA CommandsStep == ASSUME WellTyped, Next PROVE CommandsTyped'
<1> CommandsTyped /\ CallsTyped /\ BackendTyped /\ None \in RestartIds
    /\ None \in ReleaseIds /\ "live" \in Slots
  BY DEF WellTyped, RestartIds, ReleaseIds, Slots
<1>1. CASE UNCHANGED <<nvs, pc, commands>>
  BY <1>1 DEF commands, CommandsTyped
<1>2. CASE SyncSend \/ SyncFails \/ DownloadFails \/ EndWait
  BY <1>2 DEF SyncSend, SyncFails, DownloadFails, EndWait, commands, CommandsTyped, Steps
<1>3. CASE SyncAnswer
  <2>1. calls["live"] \in Calls
    BY DEF CallsTyped
  <2>2. calls["live"].askRelease \in ReleaseIds /\ calls["live"].askRestart \in RestartIds
    BY <2>1 DEF Calls
  <2>3. Consider(calls["live"].askRelease, lag', "synced") /\ UNCHANGED <<known, owed>>
        /\ pending' \in {calls["live"].askRestart, pending}
    BY <1>3 DEF SyncAnswer
  <2>4. QED
    BY <2>2, <2>3, ConsiderTyped DEF CommandsTyped, Steps
<1>4. CASE PollNew
  <2>1. Consider(blob, lag, "wait") /\ UNCHANGED <<known, owed, pending>>
    BY <1>4 DEF PollNew
  <2>2. blob \in ReleaseIds
    BY DEF BackendTyped
  <2>3. QED
    BY <2>1, <2>2, ConsiderTyped DEF CommandsTyped, Steps
<1>5. CASE Between
  BY <1>5 DEF Between, TakeUpdate, TakeRestart, MarkRestart, Restart, StartWait, PassOn,
     ConsumeRestart, Reboot, commands, CommandsTyped, Steps
<1>6. CASE Downloaded \/ SelfHeal \/ PowerCut
  BY <1>6 DEF Downloaded, SelfHeal, PowerCut, Reboot, CommandsTyped, Steps
<1>7. CASE Boot
  BY <1>7 DEF Boot, CommandsTyped, Steps
<1>8. QED
  BY <1>1, <1>2, <1>3, <1>4, <1>5, <1>6, <1>7, CommandSteps

LEMMA LinkStep == ASSUME WellTyped, Next PROVE LinkTyped'
<1> LinkTyped /\ CallsTyped /\ BackendTyped /\ Young
    /\ FeedTries \in Nat /\ NoFeed \in [url : BOOLEAN, etag : ReleaseIds, failures : 0 .. FeedTries]
  BY CommandsAssumption DEF WellTyped, NoFeed, ReleaseIds
<1>1. CASE UNCHANGED <<lag, feed>>
  BY <1>1 DEF LinkTyped
<1>2. CASE Reboot
  BY <1>2 DEF Reboot, LinkTyped
<1>3. CASE SyncAnswer
  <2>1. lag' = now - calls["live"].epoch /\ calls["live"].pc = "answered"
    BY <1>3 DEF SyncAnswer
  <2>2. feed' \in [url : BOOLEAN, etag : ReleaseIds, failures : 0 .. FeedTries]
    BY <1>3 DEF SyncAnswer, LinkTyped, NoFeed, ReleaseIds
  <2>3. QED
    BY <2>1, <2>2 DEF Young, LinkTyped
<1>4. CASE PollUnchanged \/ PollNew \/ PollRefused
  <2>1. blob \in ReleaseIds /\ 0 \in 0 .. FeedTries
    BY DEF BackendTyped
  <2>2. feed' \in [url : BOOLEAN, etag : ReleaseIds, failures : 0 .. FeedTries]
    BY <1>4, <2>1 DEF PollUnchanged, PollNew, PollRefused, LinkTyped
  <2>3. lag' = lag
    BY <1>4 DEF PollUnchanged, PollNew, PollRefused
  <2>4. QED
    BY <2>2, <2>3 DEF LinkTyped
<1>5. CASE PollFails
  <2>1. feed.failures + 1 \in 0 .. FeedTries
    BY <1>5 DEF PollFails, Polling, LinkTyped
  <2>2. QED
    BY <1>5, <2>1 DEF PollFails, LinkTyped
<1>6. QED
  BY <1>1, <1>2, <1>3, <1>4, <1>5
     DEF Next, link, Asking, Releasing, Serving, Syncing, Between, Updating, Feed, Strike,
     Tick, AskRestart, AskRelease, PublishRelease, RecordRelease, SyncRead, SyncTouch,
     SyncSend, SyncFails, TakeUpdate, TakeRestart, MarkRestart, Restart, StartWait,
     PassOn, Downloaded, DownloadFails, SelfHeal, EndWait, OpenDoor, Relock, PowerCut, Boot

LEMMA FlagsStep == ASSUME WellTyped, Next PROVE FlagsTyped'
<1> FlagsTyped
  BY DEF WellTyped
<1>1. CASE Reboot /\ updated' \in BOOLEAN
  BY <1>1, Zenon DEF Reboot, FlagsTyped
<1>2. CASE Syncing \/ Feed \/ Strike \/ EndWait
  <2>1. syncNow' \in BOOLEAN /\ backingOff' \in BOOLEAN
    BY <1>2, Zenon DEF FlagsTyped, link, update, app, Syncing, Feed, Strike, EndWait, SyncSend, SyncFails,
       SyncAnswer, PollUnchanged, PollNew, PollRefused, PollFails, OpenDoor, Relock
  <2>2. offer' \in BOOLEAN /\ updated' \in BOOLEAN
    BY <1>2 DEF FlagsTyped, link, update, app, Syncing, Feed, Strike, EndWait, SyncSend, SyncFails,
       SyncAnswer, PollUnchanged, PollNew, PollRefused, PollFails, OpenDoor, Relock
  <2>3. busy' \in BOOLEAN
    BY <1>2, Zenon DEF FlagsTyped, link, update, app, Syncing, Feed, Strike, EndWait, SyncSend, SyncFails,
       SyncAnswer, PollUnchanged, PollNew, PollRefused, PollFails, OpenDoor, Relock
  <2>4. QED
    BY <2>1, <2>2, <2>3 DEF FlagsTyped
<1>3. CASE Between /\ ~Reboot
  BY <1>3, Zenon DEF FlagsTyped, link, update, app, Between, TakeUpdate, TakeRestart, MarkRestart,
     Restart, StartWait, PassOn
<1>4. CASE UNCHANGED <<syncNow, backingOff, offer, updated, busy>>
  BY <1>4 DEF FlagsTyped
<1>5. ASSUME Reboot, Next PROVE updated' \in BOOLEAN
  BY <1>5, Zenon DEF FlagsTyped, Next, update, Asking, Releasing, Serving, Syncing, Between,
     Updating, Feed, Strike, Tick, AskRestart, AskRelease, PublishRelease, RecordRelease,
     SyncRead, SyncTouch, SyncSend, SyncFails, SyncAnswer, TakeUpdate, TakeRestart,
     MarkRestart, Restart, StartWait, PassOn, Downloaded, DownloadFails, SelfHeal,
     EndWait, PollUnchanged, PollNew, PollRefused, PollFails, OpenDoor, Relock, PowerCut,
     Boot
<1>6. QED
  BY <1>1, <1>2, <1>3, <1>4, <1>5
     DEF Next, link, update, app, Asking, Releasing, Serving, Updating,
     Tick, AskRestart, AskRelease, PublishRelease, RecordRelease, SyncRead, SyncTouch,
     Downloaded, DownloadFails, SelfHeal, PowerCut, Boot

LEMMA QueueStep == ASSUME WellTyped, Next PROVE QueueTyped'
<1> QueueTyped /\ CommandsTyped /\ QueueCap \in Nat \ {0}
  BY CommandsAssumption DEF WellTyped
<1>1. CASE UNCHANGED queue
  BY <1>1 DEF QueueTyped
<1>2. CASE Reboot
  BY <1>2 DEF Reboot, QueueTyped
<1>3. CASE PassOn
  <2>1. acting.id \in Releases
    BY <1>3 DEF PassOn, CommandsTyped
  <2>2. QED
    BY <1>3, <2>1 DEF PassOn, QueueTyped
<1>4. CASE OpenDoor
  BY <1>4 DEF OpenDoor, QueueTyped
<1>5. QED
  BY <1>1, <1>2, <1>3, <1>4
     DEF Next, app, Asking, Releasing, Serving, Syncing, Between, Updating, Feed, Strike,
     Tick, AskRestart, AskRelease, PublishRelease, RecordRelease, SyncRead, SyncTouch,
     SyncSend, SyncFails, SyncAnswer, TakeUpdate, TakeRestart, MarkRestart, Restart,
     StartWait, Downloaded, DownloadFails, SelfHeal, EndWait, PollUnchanged, PollNew,
     PollRefused, PollFails, Relock, PowerCut, Boot

LEMMA HistoryStep == ASSUME WellTyped, Next PROVE HistoryTyped'
<1> /\ HistoryTyped /\ CommandsTyped /\ CallsTyped /\ BackendTyped /\ "live" \in Slots
    /\ QueueTyped
  BY DEF WellTyped, Slots
<1>1. CASE UNCHANGED <<crashes, history>>
  BY <1>1 DEF HistoryTyped, history
<1>2. CASE Restart \/ Downloaded
  <2>1. owed \in RestartIds /\ Honour
        /\ UNCHANGED <<crashes, opened, acted, rebooted, overtaken, forgotten>>
    BY <1>2 DEF CommandsTyped, Restart, Downloaded
  <2>2. honoured' \in [Restarts -> Nat]
    BY <2>1 DEF Honour, HistoryTyped, RestartIds
  <2>3. QED
    BY <2>1, <2>2 DEF HistoryTyped
<1>3. CASE SyncAnswer \/ PollNew
  <2>1. calls["live"].askRelease \in ReleaseIds /\ blob \in ReleaseIds
    BY DEF CallsTyped, Calls, BackendTyped
  <2>2. /\ UNCHANGED <<crashes, honoured, opened, rebooted, overtaken>>
        /\ \/ Consider(calls["live"].askRelease, lag', "synced")
           \/ Consider(blob, lag, "wait")
    BY <1>3 DEF SyncAnswer, PollNew
  <2>3. acted' \subseteq Releases /\ forgotten' \subseteq Releases
    BY <2>1, <2>2, ConsiderTyped DEF HistoryTyped
  <2>4. QED
    BY <2>2, <2>3 DEF HistoryTyped
<1>4. CASE OpenDoor
  <2>1. Head(queue) \in Releases
    BY <1>4 DEF OpenDoor, QueueTyped
  <2>2. QED
    BY <1>4, <2>1 DEF OpenDoor, HistoryTyped
<1>5. CASE PowerCut
  BY <1>5, CommandsAssumption DEF PowerCut, HistoryTyped, history
<1>6. CASE Boot
  BY <1>6 DEF Boot, HistoryTyped
<1>7. CASE \E x \in Restarts : AskRestart(x)
  BY <1>7 DEF AskRestart, HistoryTyped
<1>8. QED
  BY <1>1, <1>2, <1>3, <1>4, <1>5, <1>6, <1>7
     DEF Next, Asking, Releasing, Serving, Syncing, Between, Updating, Feed, Strike,
     Tick, AskRelease, PublishRelease, RecordRelease, SyncRead, SyncTouch,
     SyncSend, SyncFails, TakeUpdate, TakeRestart, MarkRestart, StartWait, PassOn,
     DownloadFails, SelfHeal, EndWait, PollUnchanged, PollRefused, PollFails, Relock

LEMMA WellTypedStep == WellTyped /\ [Next]_vars => WellTyped'
<1> SUFFICES ASSUME WellTyped, [Next]_vars PROVE WellTyped'
  OBVIOUS
<1>1. CASE Next
  BY <1>1, BackendStep, CallsStep, CommandsStep, LinkStep, FlagsStep, QueueStep,
     HistoryStep DEF WellTyped
<1>2. CASE UNCHANGED vars
  BY <1>2 DEF vars, clock, backend, commands, link, update, app, history, WellTyped,
     BackendTyped, CallsTyped, CommandsTyped, LinkTyped, FlagsTyped, QueueTyped,
     HistoryTyped, Young
<1>3. QED
  BY <1>1, <1>2

(* Every variable keeps its type, for any ids, times and bounds.           *)
THEOREM TypeCorrect == Spec => []TypeOK
<1>1. WellTyped => TypeOK
  BY WellTypedIsTypeOK
<1>2. QED
  BY <1>1, InitTyped, WellTypedStep, PTL DEF Spec

-----------------------------------------------------------------------------
(* A release the row says was done, that a call reports, or that the door  *)
(* has noted in RAM or in flash, is one the door has taken on.             *)
TakenOn ==
  /\ {row.done, released, nvs.release} \subseteq acted \cup {None}
  /\ \A k \in Slots : {calls[k].release, calls[k].newly} \subseteq acted \cup {None}

LEMMA TakenOnStep == WellTyped /\ TakenOn /\ [Next]_vars => TakenOn'
<1> SUFFICES ASSUME WellTyped, TakenOn, [Next]_vars PROVE TakenOn'
  OBVIOUS
<1> /\ BackendTyped /\ CallsTyped /\ CommandsTyped /\ "live" \in Slots
  BY DEF WellTyped, Slots
<1>1. CASE UNCHANGED vars
  BY <1>1 DEF vars, backend, commands, history, TakenOn
<1>2. CASE Next
  <2>1. acted \subseteq acted'
    BY <1>2 DEF Next, history, Asking, Releasing, Serving, Syncing, Between, Updating,
       Feed, Strike, Tick, AskRestart, AskRelease, PublishRelease, RecordRelease,
       SyncRead, SyncTouch, SyncSend, SyncFails, SyncAnswer, TakeUpdate, TakeRestart,
       MarkRestart, Restart, StartWait, PassOn, Downloaded, DownloadFails, SelfHeal,
       EndWait, PollUnchanged, PollNew, PollRefused, PollFails, OpenDoor, Relock,
       PowerCut, Boot, Consider, TakeOn
  <2>2. {released', nvs'.release} \subseteq acted' \cup {None}
    <3>1. CASE UNCHANGED <<nvs, pc, commands>>
      BY <2>1, <3>1 DEF commands, TakenOn
    <3>2. CASE SyncSend \/ SyncFails \/ DownloadFails \/ EndWait
      BY <2>1, <3>2 DEF SyncSend, SyncFails, DownloadFails, EndWait, commands, TakenOn
    <3>3. CASE SyncAnswer \/ PollNew
      <4>1. calls["live"].askRelease \in ReleaseIds /\ blob \in ReleaseIds
        BY DEF CallsTyped, Calls, BackendTyped
      <4>2. \/ Consider(calls["live"].askRelease, lag', "synced")
            \/ Consider(blob, lag, "wait")
        BY <3>3 DEF SyncAnswer, PollNew
      <4>3. QED
        BY <2>1, <4>1, <4>2, ConsiderTyped DEF TakenOn
    <3>4. CASE Between \/ Downloaded \/ SelfHeal \/ PowerCut \/ Boot
      BY <2>1, <3>4 DEF Between, TakeUpdate, TakeRestart, MarkRestart, Restart,
         StartWait, PassOn, ConsumeRestart, Reboot, Downloaded, SelfHeal, PowerCut, Boot,
         commands, TakenOn, CommandsTyped
    <3>5. QED
      BY <1>2, <3>1, <3>2, <3>3, <3>4, CommandSteps
  <2>3. row'.done \in acted' \cup {None}
    <3>1. \A k \in Slots : calls[k].newly \in acted \cup {None}
      BY DEF TakenOn
    <3>2. QED
      BY <1>2, <2>1, <3>1, BackendSteps DEF TakenOn, backend, BackendTyped, Tick,
         AskRestart, AskRelease, PublishRelease, RecordRelease, SyncTouch
  <2>4. \A k \in Slots : {calls'[k].release, calls'[k].newly} \subseteq acted' \cup {None}
    <3>1. CASE UNCHANGED calls
      BY <2>1, <3>1 DEF TakenOn
    <3>2. CASE SyncSend
      BY <2>1, <3>2 DEF SyncSend, TakenOn, CallsTyped, NoCall
    <3>3. CASE Abandon \/ SyncAnswer
      <4>1. \A k \in Slots : calls'[k] \in {NoCall, Unheard(calls["live"]), calls[k]}
        BY <3>3 DEF Abandon, SyncAnswer, CallsTyped
      <4>2. NoCall.release = None /\ NoCall.newly = None
        BY DEF NoCall
      <4>3. calls["live"] \in Calls
        BY DEF CallsTyped
      <4>4. QED
        BY <2>1, <4>1, <4>2, <4>3, UnheardTyped DEF TakenOn
    <3>4. ASSUME NEW k \in Slots, SyncRead(k)
          PROVE  \A j \in Slots : {calls'[j].release, calls'[j].newly}
                                     \subseteq acted' \cup {None}
      <4>1. /\ calls[k] \in Calls /\ Response(calls[k]) \in Calls
            /\ \/ calls' = [calls EXCEPT ![k] = Response(calls[k])]
               \/ calls' = [calls EXCEPT ![k] = Unheard(Response(calls[k]))]
        BY <3>4, ResponseTyped DEF SyncRead, CallsTyped
      <4>2. Response(calls[k]).release = calls[k].release
            /\ Response(calls[k]).newly \in {None, calls[k].release}
        BY <4>1, ResponseTyped
      <4>3. NoCall.release = None /\ NoCall.newly = None
        BY DEF NoCall
      <4>4. QED
        BY <2>1, <4>1, <4>2, <4>3, UnheardTyped DEF TakenOn, CallsTyped
    <3>5. ASSUME NEW k \in Slots, SyncTouch(k)
          PROVE  \A j \in Slots : {calls'[j].release, calls'[j].newly}
                                     \subseteq acted' \cup {None}
      <4>1. /\ calls[k] \in Calls
            /\ calls' = [calls EXCEPT ![k] = [calls[k] EXCEPT !.pc = "answered"]]
               \/ calls' = [calls EXCEPT ![k] = NoCall]
        BY <3>5 DEF SyncTouch, CallsTyped
      <4>2. /\ NoCall.release = None /\ NoCall.newly = None
            /\ [calls[k] EXCEPT !.pc = "answered"].release = calls[k].release
            /\ [calls[k] EXCEPT !.pc = "answered"].newly = calls[k].newly
        BY <4>1 DEF NoCall, Calls
      <4>3. QED
        BY <2>1, <4>1, <4>2 DEF TakenOn, CallsTyped
    <3>6. QED
      BY <1>2, <3>1, <3>2, <3>3, <3>4, <3>5, CallSteps
  <2>5. QED
    BY <2>2, <2>3, <2>4 DEF TakenOn
<1>3. QED
  BY <1>1, <1>2

(* The admin app shows a release as done only if the door has taken it on, *)
(* however calls are lost, repeated or overtaken.                          *)
THEOREM ConfirmedWasDone == Spec => []ConfirmedIsDone
<1>1. Init => TakenOn
  BY DEF Init, TakenOn, NoCall
<1>2. TakenOn => ConfirmedIsDone
  BY DEF TakenOn, ConfirmedIsDone
<1>3. QED
  BY <1>1, <1>2, InitTyped, WellTypedStep, TakenOnStep, PTL DEF Spec

-----------------------------------------------------------------------------
(* Restart requests that have been made, or none.                          *)
Made == {x \in Restarts : at[x] # None} \cup {None}

Marking == {"markDownload", "markRestart"}
Ending == Marking \cup {"download", "restart"}
Ask == calls["live"].askRestart
Offered == calls["live"].askRelease

(* Where the id of a request may be, and what the task then is about.      *)
Places ==
  /\ {row.restart, Ask, pending, owed, known, nvs.restart} \subseteq Made
  /\ \A x \in Restarts : honoured[x] > 0 => x \in Made
  /\ calls["live"].pc # "none" => pc = "asked"
  /\ calls["live"].pc \in {"none", "sent"} => Ask = None
  /\ owed # None => pc \in Ending /\ known = owed
  /\ pc \in Marking => owed # None
  /\ pc \notin Marking \cup {"off"} => known = nvs.restart

(* A request a restart was made for is nowhere offered as new.             *)
Settled(x) ==
  /\ honoured[x] <= 1
  /\ x \in {pending, owed} => honoured[x] = 0
  /\ Ask = x /\ x # known => honoured[x] = 0
  /\ row.restart = x /\ honoured[x] > 0
       => nvs.restart = x /\ pending = None /\ owed = None /\ Ask \in {None, x}

RestartSound == Places /\ \A x \in Restarts : Settled(x)

LEMMA MadeGrows == ASSUME WellTyped, Next PROVE Made \subseteq Made'
<1>1. now # None /\ at \in [Requests -> Times \cup {None}]
  BY CommandsAssumption DEF WellTyped, BackendTyped, Times
<1>2. QED
  BY <1>1, BackendSteps DEF Made, clock, Tick, AskRestart, AskRelease, PublishRelease,
     RecordRelease, SyncTouch, Requests

(* The call the door waits for, after each action.                         *)
LEMMA LiveStep ==
  ASSUME WellTyped, Next
  PROVE  \/ UNCHANGED <<calls["live"]>>
         \/ /\ SyncSend /\ calls'["live"].pc = "sent" /\ Ask' = None
            /\ pc = "sync" /\ Offered' = None
         \/ /\ \E k \in Slots : SyncRead(k)
            /\ calls["live"].pc = "sent" /\ calls'["live"].pc = "read"
            /\ Ask' \in {None, row.restart} /\ Offered' \in {None, row.release}
         \/ /\ \E k \in Slots : SyncTouch(k)
            /\ calls["live"].pc = "read" /\ calls'["live"].pc = "answered" /\ Ask' = Ask
            /\ Offered' = Offered
         \/ /\ Abandon \/ SyncAnswer
            /\ calls'["live"].pc = "none" /\ Ask' = None /\ Offered' = None
<1> /\ CallsTyped /\ BackendTyped /\ "live" \in Slots
    /\ NoCall.pc = "none" /\ NoCall.askRestart = None /\ NoCall.askRelease = None
  BY DEF WellTyped, Slots, NoCall
<1>1. CASE UNCHANGED calls
  BY <1>1
<1>2. CASE SyncSend
  BY <1>2 DEF SyncSend, CallsTyped, Ask, Offered, NoCall
<1>3. CASE Abandon \/ SyncAnswer
  BY <1>3 DEF Abandon, SyncAnswer, CallsTyped, Ask, Offered
<1>4. ASSUME NEW k \in Slots, SyncRead(k), k = "live"
      PROVE  /\ calls["live"].pc = "sent" /\ calls'["live"].pc = "read"
             /\ Ask' \in {None, row.restart} /\ Offered' \in {None, row.release}
  <2>1. calls'["live"] = Response(calls["live"]) /\ calls["live"] \in Calls
    BY <1>4 DEF SyncRead, CallsTyped
  <2>2. QED
    BY <1>4, <2>1, ResponseTyped DEF SyncRead, Ask, Offered
<1>5. ASSUME NEW k \in Slots, SyncTouch(k), k = "live"
      PROVE  /\ calls["live"].pc = "read" /\ calls'["live"].pc = "answered"
             /\ Ask' = Ask /\ Offered' = Offered
  BY <1>5 DEF SyncTouch, CallsTyped, Calls, Ask, Offered
<1>6. ASSUME NEW k \in Slots, SyncRead(k) \/ SyncTouch(k), k # "live"
      PROVE  UNCHANGED calls["live"]
  BY <1>6 DEF SyncRead, SyncTouch, CallsTyped
<1>7. QED
  BY <1>1, <1>2, <1>3, <1>4, <1>5, <1>6, CallSteps

(* What the row asks for: as before, no more, or something new.            *)
LEMMA RowStep ==
  ASSUME WellTyped, Next
  PROVE  \/ row'.restart \in {row.restart, None}
         \/ \E x \in Restarts : /\ AskRestart(x) /\ row'.restart = x
                                /\ at[x] = None /\ x \in Made'
<1> BackendTyped
  BY DEF WellTyped
<1>1. CASE \E x \in Restarts : AskRestart(x)
  <2>1. PICK x \in Restarts : AskRestart(x)
    BY <1>1
  <2>2. now # None
    BY CommandsAssumption DEF BackendTyped, Times
  <2>3. QED
    BY <2>1, <2>2 DEF AskRestart, BackendTyped, Made, Requests
<1>2. CASE ~\E x \in Restarts : AskRestart(x)
  BY <1>2, BackendSteps DEF backend, Tick, AskRelease, PublishRelease, RecordRelease,
     SyncTouch, BackendTyped
<1>3. QED
  BY <1>1, <1>2

(* What the task, its flash and the count of restarts do to an id.         *)
TaskVars == <<known, pending, owed, nvs.restart, honoured>>

LEMMA TaskStep ==
  ASSUME WellTyped, Places, Next
  PROVE  \/ /\ UNCHANGED TaskVars
            /\ \/ pc' = pc
               \/ {pc, pc'} \cap (Marking \cup {"off", "asked"}) = {}
                  /\ (owed # None => pc' \in Ending)
               \/ SyncSend /\ pc = "sync" /\ pc' = "asked"
               \/ SyncFails /\ pc \in {"sync", "asked"} /\ pc' = "synced"
         \/ /\ SyncAnswer /\ UNCHANGED <<known, owed, nvs.restart, honoured>>
            /\ pending' = IF Ask \notin {None, known} THEN Ask ELSE pending
            /\ pc = "asked" /\ pc' \in {"act", "synced"}
         \/ /\ Reboot /\ UNCHANGED <<nvs.restart>>
            /\ \/ UNCHANGED honoured
               \/ Honour /\ pc \in {"download", "restart"}
         \/ /\ ConsumeRestart /\ UNCHANGED <<nvs.restart, honoured>> /\ pc = "synced"
            /\ \/ pending # None /\ pc' \in Marking
               \/ pending = None /\ pc' = "download"
         \/ /\ pc \in Marking /\ pc' \in {"download", "restart"} /\ nvs'.restart = known
            /\ UNCHANGED <<known, pending, owed, honoured>>
         \/ /\ Boot /\ pc = "off" /\ pc' = "sync" /\ known' = nvs.restart
            /\ UNCHANGED <<pending, owed, nvs.restart, honoured>>
<1> BackendTyped /\ CallsTyped /\ CommandsTyped
  BY DEF WellTyped
<1> USE DEF TaskVars, Marking, Ending
<1>1. owed # None => pc \in Ending
  BY DEF Places
<1>2. CASE SelfHeal \/ PowerCut
  BY <1>2 DEF SelfHeal, PowerCut, history
<1>3. CASE Restart \/ Downloaded
  BY <1>3 DEF Restart, Downloaded
<1>4. CASE SyncSend \/ SyncFails
  BY <1>4 DEF SyncSend, SyncFails, commands, history
<1>5. CASE SyncAnswer
  <2>1. calls["live"].askRelease \in ReleaseIds
    BY DEF CallsTyped, Calls, Slots
  <2>2. nvs'.restart = nvs.restart /\ pc' \in {"act", "synced"}
    BY <1>5, <2>1, ConsiderTyped DEF SyncAnswer
  <2>3. QED
    BY <1>5, <2>2 DEF SyncAnswer, Ask
<1>6. CASE PollNew
  <2>1. blob \in ReleaseIds
    BY DEF BackendTyped
  <2>2. nvs'.restart = nvs.restart /\ pc' \in {"act", "wait"} /\ pc = "wait"
    BY <1>6, <2>1, ConsiderTyped DEF PollNew, Polling
  <2>3. QED
    BY <1>1, <1>6, <2>2 DEF PollNew
<1>7. CASE TakeUpdate \/ TakeRestart
  BY <1>7 DEF TakeUpdate, TakeRestart, history
<1>8. CASE MarkRestart
  BY <1>8 DEF MarkRestart, commands, history, CommandsTyped
<1>9. CASE StartWait \/ PassOn \/ EndWait \/ DownloadFails
  BY <1>1, <1>9 DEF StartWait, PassOn, EndWait, DownloadFails, commands, history,
     CommandsTyped
<1>10. CASE Boot
  BY <1>10 DEF Boot
<1>11. CASE Tick \/ Asking \/ Releasing \/ Serving \/ Strike
  BY <1>11 DEF Asking, Releasing, Serving, Strike, commands, history, Tick, AskRestart,
     AskRelease, PublishRelease, RecordRelease, SyncRead, SyncTouch, OpenDoor, Relock
<1>12. CASE PollUnchanged \/ PollRefused \/ PollFails
  BY <1>12 DEF PollUnchanged, PollRefused, PollFails, commands, history
<1>13. QED
  BY <1>2, <1>3, <1>4, <1>5, <1>6, <1>7, <1>8, <1>9, <1>10, <1>11, <1>12
     DEF Next, Syncing, Between, Updating, Feed

(* Once the task waits for no answer, none is there to be taken.           *)
LEMMA HungUp ==
  ASSUME WellTyped, Places, Next, pc' # "asked"
  PROVE  calls'["live"].pc = "none" /\ Ask' = None
<1>1. /\ CallsTyped /\ "live" \in Slots
      /\ NoCall.pc = "none" /\ NoCall.askRestart = None
  BY DEF WellTyped, Slots, NoCall
<1>2. CASE pc # "asked"
  <2>1. calls["live"].pc = "none" /\ Ask = None
    BY <1>2 DEF Places
  <2>2. ~SyncSend
    BY DEF SyncSend
  <2>3. QED
    BY <2>1, <2>2, LiveStep DEF Ask
<1>3. CASE pc = "asked"
  <2>1. Abandon \/ SyncAnswer
    BY <1>3, TaskStep DEF Reboot, ConsumeRestart, SyncFails, Marking
  <2>2. QED
    BY <1>1, <2>1 DEF Abandon, SyncAnswer, CallsTyped, Ask
<1>4. QED
  BY <1>2, <1>3

LEMMA PlacesStep == ASSUME WellTyped, Places, Next PROVE Places'
<1>1. Made \subseteq Made' /\ None \in Made'
  BY MadeGrows DEF Made
<1>2. row'.restart \in Made'
  BY <1>1, RowStep DEF Places
<1>3. Ask' \in Made'
  BY <1>1, LiveStep DEF Places, Ask
<1>4. {pending', owed', known', nvs'.restart} \subseteq Made'
  BY <1>1, TaskStep DEF Places, TaskVars, Reboot, ConsumeRestart
<1>5. \A x \in Restarts : honoured'[x] > 0 => x \in Made'
  <2>1. CASE UNCHANGED honoured
    BY <1>1, <2>1 DEF Places
  <2>2. CASE Honour
    BY <1>1, <2>2 DEF Places, Honour, WellTyped, HistoryTyped
  <2>3. QED
    BY <2>1, <2>2, TaskStep DEF TaskVars
<1>6. calls'["live"].pc # "none" => pc' = "asked"
  BY HungUp
<1>7. calls'["live"].pc \in {"none", "sent"} => Ask' = None
  BY LiveStep DEF Places, Ask
<1>8. /\ owed' # None => pc' \in Ending /\ known' = owed'
      /\ pc' \in Marking => owed' # None
      /\ pc' \notin Marking \cup {"off"} => known' = nvs'.restart
  BY TaskStep DEF Places, TaskVars, Marking, Ending, Reboot, ConsumeRestart
<1>9. QED
  BY <1>2, <1>3, <1>4, <1>5, <1>6, <1>7, <1>8 DEF Places

LEMMA SettledStep ==
  ASSUME WellTyped, RestartSound, Next, NEW x \in Restarts
  PROVE  Settled(x)'
<1>1. /\ Places /\ Settled(x) /\ x # None /\ honoured \in [Restarts -> Nat]
  BY CommandsAssumption DEF RestartSound, WellTyped, HistoryTyped, Requests
<1>2. row'.restart = x => row.restart = x \/ x \notin Made
  BY <1>1, RowStep DEF Made
<1>3. x \notin Made => honoured[x] = 0 /\ owed # x /\ pending # x /\ Ask # x
  BY <1>1 DEF Places
<1>4. \/ Ask' \in {Ask, None}
      \/ Ask' = row.restart /\ pc = "asked" /\ calls["live"].pc = "sent"
  BY <1>1, LiveStep DEF Ask, Places
<1>5. pc' # "asked" => Ask' = None
  BY <1>1, HungUp
<1>6. CASE UNCHANGED TaskVars
  <2>1. pc = "asked" => known = nvs.restart
    BY <1>1 DEF Places, Marking
  <2>2. QED
    BY <1>1, <1>2, <1>3, <1>4, <1>6, <2>1 DEF TaskVars, Settled
<1>7. CASE /\ SyncAnswer /\ UNCHANGED <<known, owed, nvs.restart, honoured>>
           /\ pending' = IF Ask \notin {None, known} THEN Ask ELSE pending
           /\ pc = "asked" /\ pc' \in {"act", "synced"}
  <2>1. known = nvs.restart /\ Ask' = None
    BY <1>1, <1>5, <1>7 DEF Places, Marking
  <2>2. QED
    BY <1>1, <1>2, <1>3, <1>7, <2>1 DEF Settled
<1>8. CASE Reboot /\ UNCHANGED <<nvs.restart, honoured>>
  <2>1. pending' = None /\ owed' = None /\ Ask' = None
    BY <1>5, <1>8 DEF Reboot
  <2>2. QED
    BY <1>1, <1>2, <1>3, <1>8, <2>1 DEF Settled
<1>9. CASE Reboot /\ UNCHANGED <<nvs.restart>> /\ Honour /\ pc \in {"download", "restart"}
  <2>1. pending' = None /\ owed' = None /\ Ask' = None
    BY <1>5, <1>9 DEF Reboot
  <2>2. owed = None \/ nvs.restart = owed
    BY <1>1, <1>9 DEF Places, Marking
  <2>3. /\ owed = x => honoured[x] = 0 /\ honoured'[x] = 1
        /\ owed # x => honoured'[x] = honoured[x]
    BY <1>1, <1>9 DEF Honour, Settled
  <2>4. QED
    BY <1>1, <1>2, <1>3, <1>9, <2>1, <2>2, <2>3 DEF Settled
<1>10. CASE ConsumeRestart /\ UNCHANGED <<nvs.restart, honoured>> /\ pc = "synced"
            /\ pc' # "asked"
  BY <1>1, <1>2, <1>3, <1>5, <1>10 DEF ConsumeRestart, Settled
<1>11. CASE pc \in Marking /\ pc' # "asked" /\ UNCHANGED <<known, pending, owed, honoured>>
  <2>1. owed # None
    BY <1>1, <1>11 DEF Places
  <2>2. QED
    BY <1>1, <1>2, <1>3, <1>5, <1>11, <2>1 DEF Settled
<1>12. CASE pc' = "sync" /\ UNCHANGED <<pending, owed, nvs.restart, honoured>>
  BY <1>1, <1>2, <1>3, <1>5, <1>12 DEF Settled
<1>13. QED
  BY <1>1, <1>6, <1>7, <1>8, <1>9, <1>10, <1>11, <1>12, TaskStep DEF Marking

LEMMA RestartSoundStep == WellTyped /\ RestartSound /\ [Next]_vars => RestartSound'
<1> SUFFICES ASSUME WellTyped, RestartSound, [Next]_vars PROVE RestartSound'
  OBVIOUS
<1>1. CASE Next
  BY <1>1, PlacesStep, SettledStep DEF RestartSound
<1>2. CASE UNCHANGED vars
  BY <1>2 DEF vars, clock, backend, commands, history, RestartSound, Places, Settled,
     Ask, Made
<1>3. QED
  BY <1>1, <1>2

(* A request costs the door at most one restart: answers lost or sent      *)
(* again, power cuts, updates that fail and handlers that outlive their    *)
(* call included.                                                          *)
THEOREM RestartsOnce == Spec => []RestartOnce
<1>1. Init => RestartSound
  <2> SUFFICES ASSUME Init PROVE RestartSound
    OBVIOUS
  <2>1. calls["live"] = NoCall
    BY DEF Init, Slots
  <2>2. QED
    BY <2>1, CommandsAssumption
       DEF Init, RestartSound, Places, Settled, Ask, Made, Marking, NoCall
<1>2. WellTyped /\ RestartSound => RestartOnce
  BY DEF RestartSound, Settled, RestartOnce
<1>3. QED
  BY <1>1, <1>2, InitTyped, WellTypedStep, RestartSoundStep, PTL DEF Spec

-----------------------------------------------------------------------------
(* A release that is offered, by either way, has been asked for.           *)
Asked == {r \in Releases : at[r] # None} \cup {None}

ReleasesAsked ==
  /\ row.release \in Asked /\ blob \in Asked
  /\ \A k \in Slots : calls[k].askRelease \in Asked
  /\ \A r \in Releases : press[r] # "new" => r \in Asked

LEMMA ReleasesAskedStep ==
  WellTyped /\ ReleasesAsked /\ [Next]_vars => ReleasesAsked'
<1> SUFFICES ASSUME WellTyped, ReleasesAsked, [Next]_vars PROVE ReleasesAsked'
  OBVIOUS
<1> BackendTyped /\ CallsTyped /\ "live" \in Slots /\ NoCall.askRelease = None
  BY DEF WellTyped, Slots, NoCall
<1>1. CASE UNCHANGED vars
  BY <1>1 DEF vars, clock, backend, ReleasesAsked, Asked
<1>2. CASE Next
  <2>1. now # None
    BY CommandsAssumption DEF BackendTyped, Times
  <2>2. Asked \subseteq Asked' /\ None \in Asked'
    BY <1>2, <2>1, BackendSteps DEF Asked, clock, BackendTyped, Tick, AskRestart,
       AskRelease, PublishRelease, RecordRelease, SyncTouch, Requests
  <2>3. /\ row'.release \in Asked' /\ blob' \in Asked'
        /\ \A r \in Releases : press'[r] # "new" => r \in Asked'
    <3>1. CASE \E r \in Releases : AskRelease(r)
      BY <2>1, <2>2, <3>1 DEF AskRelease, ReleasesAsked, BackendTyped, Asked, Requests
    <3>2. CASE \E r \in Releases : PublishRelease(r) \/ RecordRelease(r)
      <4>1. PICK r \in Releases : PublishRelease(r) \/ RecordRelease(r)
        BY <3>2
      <4>2. press[r] # "new"
        BY <4>1 DEF PublishRelease, RecordRelease
      <4>3. QED
        BY <2>2, <4>1, <4>2 DEF PublishRelease, RecordRelease, ReleasesAsked, BackendTyped
    <3>3. CASE ~\E r \in Releases : AskRelease(r) \/ PublishRelease(r) \/ RecordRelease(r)
      BY <1>2, <2>2, <3>3, BackendSteps DEF backend, Tick, AskRestart, SyncTouch,
         ReleasesAsked, BackendTyped
    <3>4. QED
      BY <3>1, <3>2, <3>3
  <2>4. \A k \in Slots : calls'[k].askRelease \in Asked'
    <3>1. CASE UNCHANGED calls
      BY <2>2, <3>1 DEF ReleasesAsked
    <3>2. CASE SyncSend
      BY <2>2, <3>2 DEF SyncSend, ReleasesAsked, CallsTyped, NoCall
    <3>3. CASE Abandon \/ SyncAnswer
      <4>1. \A k \in Slots : calls'[k] \in {NoCall, Unheard(calls["live"]), calls[k]}
        BY <3>3 DEF Abandon, SyncAnswer, CallsTyped
      <4>2. Unheard(calls["live"]).askRelease = None
        BY UnheardTyped DEF CallsTyped
      <4>3. QED
        BY <2>2, <4>1, <4>2 DEF ReleasesAsked
    <3>4. ASSUME NEW k \in Slots, SyncRead(k)
          PROVE  \A j \in Slots : calls'[j].askRelease \in Asked'
      <4>1. /\ calls[k] \in Calls /\ Response(calls[k]) \in Calls
            /\ \/ calls' = [calls EXCEPT ![k] = Response(calls[k])]
               \/ calls' = [calls EXCEPT ![k] = Unheard(Response(calls[k]))]
        BY <3>4, ResponseTyped DEF SyncRead, CallsTyped
      <4>2. {Response(calls[k]).askRelease, Unheard(Response(calls[k])).askRelease}
              \subseteq Asked'
        BY <2>2, <4>1, ResponseTyped, UnheardTyped DEF ReleasesAsked
      <4>3. QED
        BY <2>2, <4>1, <4>2 DEF ReleasesAsked, CallsTyped
    <3>5. ASSUME NEW k \in Slots, SyncTouch(k)
          PROVE  \A j \in Slots : calls'[j].askRelease \in Asked'
      <4>1. /\ calls[k] \in Calls
            /\ calls' = [calls EXCEPT ![k] = [calls[k] EXCEPT !.pc = "answered"]]
               \/ calls' = [calls EXCEPT ![k] = NoCall]
        BY <3>5 DEF SyncTouch, CallsTyped
      <4>2. [calls[k] EXCEPT !.pc = "answered"].askRelease = calls[k].askRelease
        BY <4>1 DEF Calls
      <4>3. QED
        BY <2>2, <4>1, <4>2 DEF ReleasesAsked, CallsTyped
    <3>6. QED
      BY <1>2, <3>1, <3>2, <3>3, <3>4, <3>5, CallSteps
  <2>5. QED
    BY <2>3, <2>4 DEF ReleasesAsked
<1>3. QED
  BY <1>1, <1>2

(* No release is acted on later than its time by more than the timeout of  *)
(* a sync, whatever the door's own clock says.                             *)
THEOREM ReleaseIsFresh == Spec => ReleaseFresh
<1>1. Init => ReleasesAsked
  BY DEF Init, ReleasesAsked, Asked, NoCall, Slots
<1>2. WellTyped /\ ReleasesAsked /\ [Next]_vars
        => [released' \notin {released, None} /\ pc # "off"
              => now <= at[released'] + ReleaseTtl + MaxLag]_vars
  <2> SUFFICES ASSUME WellTyped, ReleasesAsked, Next, released' \notin {released, None},
                      pc # "off"
               PROVE  now <= at[released'] + ReleaseTtl + MaxLag
    OBVIOUS
  <2>1. /\ BackendTyped /\ CallsTyped /\ CommandsTyped /\ LinkTyped /\ LinkTyped'
        /\ "live" \in Slots
    BY LinkStep DEF WellTyped, Slots
  <2>2. ASSUME NEW r \in ReleaseIds, r \in Asked, NEW l \in 0 .. MaxLag \cup {None},
               NEW next \in {"synced", "wait"}, Consider(r, l, next)
        PROVE  now <= at[released'] + ReleaseTtl + MaxLag
    <3>1. r \in Releases /\ released' = r /\ ~Late(r, l)
      BY <2>1, <2>2, ConsiderTyped
    <3>2. at[r] \in Nat /\ now \in Nat /\ MaxLag \in Nat /\ ReleaseTtl \in Nat
      BY <2>1, <2>2, <3>1, CommandsAssumption DEF Asked, BackendTyped, Times, Requests
    <3>3. l \in 0 .. MaxLag /\ now - l <= at[r] + ReleaseTtl
      BY <3>1, <3>2 DEF Late
    <3>4. QED
      BY <3>1, <3>2, <3>3
  <2>3. CASE SyncAnswer
    <3>1. /\ calls["live"].askRelease \in ReleaseIds /\ calls["live"].askRelease \in Asked
          /\ lag' \in 0 .. MaxLag \cup {None}
          /\ Consider(calls["live"].askRelease, lag', "synced")
      BY <2>1, <2>3 DEF CallsTyped, Calls, ReleasesAsked, SyncAnswer, LinkTyped
    <3>2. QED
      BY <2>2, <3>1
  <2>4. CASE PollNew
    <3>1. /\ blob \in ReleaseIds /\ blob \in Asked /\ lag \in 0 .. MaxLag \cup {None}
          /\ Consider(blob, lag, "wait")
      BY <2>1, <2>4 DEF BackendTyped, ReleasesAsked, PollNew, LinkTyped
    <3>2. QED
      BY <2>2, <3>1
  <2>5. released' \in {released, None} \/ SyncAnswer \/ PollNew
    BY CommandSteps DEF commands, SyncSend, SyncFails, Between, TakeUpdate, TakeRestart,
       MarkRestart, Restart, StartWait, PassOn, Reboot, ConsumeRestart, Downloaded,
       DownloadFails, SelfHeal, EndWait, PowerCut, Boot
  <2>6. QED
    BY <2>3, <2>4, <2>5
<1>3. QED
  BY <1>1, <1>2, InitTyped, WellTypedStep, ReleasesAskedStep, PTL DEF ReleaseFresh, Spec

-----------------------------------------------------------------------------
(* What a door reports done was asked for before its last boot; a handler  *)
(* that is going to clear a request read that request, and any other in    *)
(* the row was made since.                                                 *)
Reported ==
  /\ rebooted \subseteq Made
  /\ pc # "off" /\ owed = None => known \in rebooted \cup {None}
  /\ \A k \in Slots : calls[k].restart \in rebooted \cup {None}
  /\ \A k \in Slots : calls[k].pc = "read" /\ calls[k].restartDone
                        => row.restart \in {calls[k].restart, None} \cup overtaken

LEMMA RebootedGrows ==
  ASSUME WellTyped, Reported, Next
  PROVE  /\ rebooted \subseteq rebooted' /\ rebooted' \subseteq Made'
         /\ Boot => Made \subseteq rebooted' \cup {None}
<1>1. CASE Boot
  <2>1. rebooted \subseteq Restarts /\ None \notin Restarts
    BY CommandsAssumption DEF WellTyped, HistoryTyped, Requests
  <2>2. QED
    BY <1>1, <2>1 DEF Boot, clock, Reported, Made
<1>2. CASE ~Boot
  <2>1. rebooted' = rebooted
    BY <1>2 DEF Next, history, Asking, Releasing, Serving, Syncing, Between, Updating,
       Feed, Strike, Tick, AskRestart, AskRelease, PublishRelease, RecordRelease,
       SyncRead, SyncTouch, SyncSend, SyncFails, SyncAnswer, TakeUpdate, TakeRestart,
       MarkRestart, Restart, StartWait, PassOn, Downloaded, DownloadFails, SelfHeal,
       EndWait, PollUnchanged, PollNew, PollRefused, PollFails, OpenDoor, Relock,
       PowerCut
  <2>2. QED
    BY <1>2, <2>1, MadeGrows DEF Reported
<1>3. QED
  BY <1>1, <1>2

LEMMA OvertakenGrows == ASSUME Next PROVE overtaken \subseteq overtaken'
  BY DEF Next, history, Asking, Releasing, Serving, Syncing, Between, Updating,
     Feed, Strike, Tick, AskRestart, AskRelease, PublishRelease, RecordRelease,
     SyncRead, SyncTouch, SyncSend, SyncFails, SyncAnswer, TakeUpdate, TakeRestart,
     MarkRestart, Restart, StartWait, PassOn, Downloaded, DownloadFails, SelfHeal,
     EndWait, PollUnchanged, PollNew, PollRefused, PollFails, OpenDoor, Relock,
     PowerCut, Boot

LEMMA ReportedStep == WellTyped /\ RestartSound /\ Reported /\ [Next]_vars => Reported'
<1> SUFFICES ASSUME WellTyped, RestartSound, Reported, [Next]_vars PROVE Reported'
  OBVIOUS
<1> /\ CallsTyped /\ "live" \in Slots /\ Places
    /\ NoCall.restart = None /\ NoCall.pc = "none"
  BY DEF WellTyped, RestartSound, Slots, NoCall
<1>1. CASE UNCHANGED vars
  BY <1>1 DEF vars, clock, backend, commands, history, Reported, Made
<1>2. CASE Next
  <2>1. rebooted \subseteq rebooted' /\ rebooted' \subseteq Made'
    BY <1>2, RebootedGrows
  <2>2. pc' # "off" /\ owed' = None => known' \in rebooted' \cup {None}
    <3>1. CASE Boot
      BY <1>2, <3>1, RebootedGrows DEF Boot, Places
    <3>2. CASE ~Boot
      <4>1. \/ pc # "off" /\ owed = None /\ known' = known
            \/ pc' = "off" \/ owed' # None
        <5>1. CASE UNCHANGED <<known, owed>> /\ pc # "off"
          BY <5>1
        <5>2. CASE UNCHANGED <<known, owed>> /\ pc' = pc
          BY <5>2
        <5>3. CASE Reboot
          BY <5>3 DEF Reboot
        <5>4. CASE ConsumeRestart /\ pc = "synced"
          <6>1. owed = None
            BY <5>4 DEF Places, Ending, Marking
          <6>2. QED
            BY <5>4, <6>1 DEF ConsumeRestart
        <5>5. (UNCHANGED <<known, owed>> /\ (pc # "off" \/ pc' = pc))
              \/ Reboot \/ (ConsumeRestart /\ pc = "synced")
          BY <1>2, <3>2, TaskStep DEF TaskVars, Marking
        <5>6. QED
          BY <5>1, <5>2, <5>3, <5>4, <5>5
      <4>2. QED
        BY <2>1, <4>1 DEF Reported
    <3>3. QED
      BY <3>1, <3>2
  <2>3. overtaken \subseteq overtaken'
    BY <1>2, OvertakenGrows
  <2>4. ASSUME NEW k \in Slots
        PROVE  /\ calls'[k].restart \in rebooted' \cup {None}
               /\ calls'[k].pc = "read" /\ calls'[k].restartDone
                    => row'.restart \in {calls'[k].restart, None} \cup overtaken'
    <3> DEFINE Goal == /\ calls'[k].restart \in rebooted' \cup {None}
                       /\ calls'[k].pc = "read" /\ calls'[k].restartDone
                            => row'.restart \in {calls'[k].restart, None} \cup overtaken'
    <3>1. ASSUME NEW j \in Slots, calls'[k].restart = calls[j].restart,
                 calls'[k].pc = calls[j].pc, calls'[k].restartDone = calls[j].restartDone
          PROVE  Goal
      <4>1. calls'[k].restart \in rebooted' \cup {None}
        BY <2>1, <3>1 DEF Reported
      <4>2. calls'[k].pc = "read" /\ calls'[k].restartDone
              => row.restart \in {calls'[k].restart, None} \cup overtaken
        BY <3>1 DEF Reported
      <4>3. CASE row'.restart \in {row.restart, None}
        BY <2>3, <4>1, <4>2, <4>3
      <4>4. CASE \E x \in Restarts : AskRestart(x) /\ row'.restart = x
        BY <3>1, <4>1, <4>4 DEF AskRestart
      <4>5. QED
        BY <1>2, <4>3, <4>4, RowStep
    <3>2. CASE calls'[k] = NoCall
      BY <3>2
    <3>3. CASE SyncSend
      <4>1. calls'[k] = [NoCall EXCEPT !.pc = "sent", !.restart = known,
                                       !.release = released] \/ calls'[k] = calls[k]
        BY <3>3 DEF SyncSend, CallsTyped
      <4>2. row' = row /\ known \in rebooted \cup {None}
        BY <3>3 DEF SyncSend, backend, Reported, Places, Ending, Marking
      <4>3. QED
        BY <2>1, <2>3, <4>1, <4>2 DEF Reported, NoCall
    <3>4. CASE SyncRead(k)
      <4>1. /\ calls[k] \in Calls /\ Response(calls[k]) \in Calls /\ row' = row
            /\ calls'[k] \in {Response(calls[k]), Unheard(Response(calls[k]))}
        BY <3>4, ResponseTyped DEF SyncRead, CallsTyped, backend, WellTyped
      <4>2. /\ Response(calls[k]).restart = calls[k].restart
            /\ Response(calls[k]).restartDone => row.restart = calls[k].restart
        BY <4>1, ResponseTyped DEF WellTyped
      <4>3. \/ calls'[k] = NoCall
            \/ /\ calls'[k].restart = calls[k].restart
               /\ calls'[k].restartDone = Response(calls[k]).restartDone
        <5>1. CASE calls'[k] = Response(calls[k])
          BY <4>2, <5>1
        <5>2. CASE calls'[k] = Unheard(Response(calls[k]))
          BY <4>1, <4>2, <5>2, UnheardTyped
        <5>3. QED
          BY <4>1, <5>1, <5>2
      <4>4. QED
        BY <2>1, <3>2, <4>1, <4>2, <4>3 DEF Reported
    <3>5. CASE SyncTouch(k)
      <4>1. /\ calls'[k] = [calls[k] EXCEPT !.pc = "answered"] \/ calls'[k] = NoCall
            /\ calls[k] \in Calls
        BY <3>5 DEF SyncTouch, CallsTyped
      <4>2. QED
        BY <2>1, <4>1 DEF Reported, Calls
    <3>6. CASE ~SyncSend /\ ~SyncRead(k) /\ ~SyncTouch(k)
      <4>1. calls'[k] \in {NoCall, Unheard(calls["live"]), calls[k]}
        <5>1. CASE Abandon \/ SyncAnswer \/ UNCHANGED calls
          BY <5>1 DEF Abandon, SyncAnswer, CallsTyped
        <5>2. ASSUME NEW j \in Slots, j # k, SyncRead(j) \/ SyncTouch(j)
              PROVE  calls'[k] = calls[k]
          BY <5>2 DEF SyncRead, SyncTouch, CallsTyped
        <5>3. QED
          BY <1>2, <3>6, <5>1, <5>2, CallSteps
      <4>2. calls["live"] \in Calls
        BY DEF CallsTyped
      <4>3. QED
        BY <3>1, <3>2, <4>1, <4>2, UnheardTyped
    <3>7. QED
      BY <3>3, <3>4, <3>5, <3>6
  <2>5. QED
    BY <2>1, <2>2, <2>4 DEF Reported
<1>3. QED
  BY <1>1, <1>2

(* A restart request goes away only once the door has restarted since, or  *)
(* if it was made under the hands of a handler that clears another.        *)
THEOREM RestartIsKept == Spec => RestartKept
<1>1. Init => RestartSound /\ Reported
  <2> SUFFICES ASSUME Init PROVE RestartSound /\ Reported
    OBVIOUS
  <2>1. \A k \in Slots : calls[k] = NoCall
    BY DEF Init
  <2>2. "live" \in Slots
    BY DEF Slots
  <2>3. QED
    BY <2>1, <2>2, CommandsAssumption
       DEF Init, RestartSound, Reported, Places, Settled, Ask, Made, Marking, NoCall
<1>2. WellTyped /\ RestartSound /\ Reported /\ [Next]_vars
        => [\A x \in Restarts : row.restart = x /\ row'.restart = None
                                  => x \in rebooted \cup overtaken]_vars
  <2> SUFFICES ASSUME WellTyped, Reported, Next, NEW x \in Restarts,
                      row.restart = x, row'.restart = None
               PROVE  x \in rebooted \cup overtaken
    OBVIOUS
  <2>1. x # None /\ BackendTyped
    BY CommandsAssumption DEF WellTyped, Requests
  <2>2. ~\E y \in Restarts : AskRestart(y)
    BY <2>1, CommandsAssumption DEF AskRestart, BackendTyped, Requests
  <2>3. PICK k \in Slots : SyncTouch(k)
    BY <2>1, <2>2, BackendSteps DEF backend, Tick, AskRelease, PublishRelease,
       RecordRelease, BackendTyped
  <2>4. calls[k].pc = "read" /\ calls[k].restartDone
    BY <2>1, <2>3 DEF SyncTouch, BackendTyped
  <2>5. QED
    BY <2>1, <2>4 DEF Reported
<1>3. QED
  BY <1>1, <1>2, InitTyped, WellTypedStep, RestartSoundStep, ReportedStep,
     PTL DEF RestartKept, Spec

-----------------------------------------------------------------------------
(* A press opens the door once.  A release the door has taken on and not   *)
(* forgotten is the last one it took on, or is offered no more and never   *)
(* will be; and it is on its way to the strike in one place, or has been   *)
(* through it, or is lost.                                                 *)
LastOffered ==
  /\ pc # "off" => released = nvs.release
  /\ \A r \in acted \ forgotten : r = nvs.release \/ ~StillOffered(r)

OnItsWay ==
  /\ \A i, j \in 1 .. Len(queue) : queue[i] = queue[j] => i = j \/ queue[i] \in forgotten
  /\ \A i \in 1 .. Len(queue) :
       \/ queue[i] \in forgotten
       \/ queue[i] \in acted /\ opened[queue[i]] = 0 /\ queue[i] # acting.id
  /\ acting.id # None
       => acting.id \in forgotten \/ (acting.id \in acted /\ opened[acting.id] = 0)
  /\ \A r \in Releases \ forgotten : opened[r] <= 1 /\ (r \notin acted => opened[r] = 0)

(* What an action does with releases the door has heard of.                *)
ReleaseVars == <<released, nvs.release, acting, acted, forgotten, queue, opened>>

LEMMA ReleaseSteps ==
  ASSUME WellTyped, Next
  PROVE  \/ UNCHANGED ReleaseVars /\ (pc = "off" => pc' = "off")
         \/ \E r \in {blob, Offered}, l \in {lag, lag'}, next \in {"synced", "wait"} :
              /\ Consider(r, l, next) /\ UNCHANGED <<backend, queue, opened>>
              /\ \/ pc = "asked" /\ r = Offered /\ Offered' = None
                 \/ pc = "wait" /\ r = blob /\ Offered' = Offered
         \/ Reboot /\ UNCHANGED <<nvs.release, acted, forgotten, opened>>
         \/ Boot
         \/ PassOn
         \/ OpenDoor
<1> BackendTyped /\ CallsTyped /\ CommandsTyped
  BY DEF WellTyped
<1> USE DEF ReleaseVars
<1>1. CASE SelfHeal \/ PowerCut \/ Restart \/ Downloaded
  BY <1>1 DEF SelfHeal, PowerCut, Restart, Downloaded, history
<1>2. CASE SyncSend \/ SyncFails \/ TakeUpdate \/ TakeRestart \/ StartWait \/ EndWait
           \/ DownloadFails
  BY <1>2 DEF SyncSend, SyncFails, TakeUpdate, TakeRestart, StartWait, EndWait,
     DownloadFails, commands, app, history
<1>3. CASE MarkRestart
  BY <1>3 DEF MarkRestart, commands, app, history, CommandsTyped
<1>4. CASE SyncAnswer
  BY <1>4, LiveStep DEF SyncAnswer, Offered, NoCall, CallsTyped, backend, app, Slots
<1>5. CASE PollNew
  BY <1>5 DEF PollNew, Polling, Offered, backend, app
<1>6. CASE Tick \/ Asking \/ Releasing \/ Serving \/ Relock
  BY <1>6 DEF Asking, Releasing, Serving, commands, app, history, Tick, AskRestart,
     AskRelease, PublishRelease, RecordRelease, SyncRead, SyncTouch, Relock
<1>7. CASE PollUnchanged \/ PollRefused \/ PollFails
  BY <1>7 DEF PollUnchanged, PollRefused, PollFails, commands, app, history
<1>8. QED
  BY <1>1, <1>2, <1>3, <1>4, <1>5, <1>6, <1>7
     DEF Next, Syncing, Between, Updating, Feed, Strike

(* A release that is taken on was not taken on before, unless it was        *)
(* forgotten.                                                              *)
LEMMA TakenOnOnce ==
  ASSUME WellTyped, LastOffered, NEW r \in {blob, Offered}, NEW l, NEW next,
         Consider(r, l, next), pc # "off"
  PROVE  \/ UNCHANGED <<released, nvs, acting, acted, forgotten>> /\ pc' = next
         \/ /\ r \in Releases /\ r \notin acted \ forgotten /\ acted' = acted \cup {r}
            /\ released' = r /\ nvs'.release = r /\ acting'.id = r /\ pc' = "act"
            /\ forgotten' = forgotten \cup {s \in acted \ {r} : StillOffered(s)}
<1>1. r \in ReleaseIds /\ nvs \in [restart : RestartIds, release : ReleaseIds]
  BY DEF WellTyped, BackendTyped, CallsTyped, CommandsTyped, Calls, Slots, Offered
<1>2. CASE r \in {None, released, lapsed} \/ Late(r, l)
  BY <1>2 DEF Consider
<1>3. CASE r \notin {None, released, lapsed} /\ ~Late(r, l)
  <2>1. r \in Releases /\ r # nvs.release
    BY <1>1, <1>3 DEF ReleaseIds, LastOffered
  <2>2. StillOffered(r)
    BY DEF StillOffered, Offered
  <2>3. r \notin acted \ forgotten
    BY <2>1, <2>2 DEF LastOffered
  <2>4. TakeOn(r, next)
    BY <1>3 DEF Consider
  <2>5. QED
    BY <1>1, <2>1, <2>3, <2>4 DEF TakeOn
<1>4. QED
  BY <1>2, <1>3

(* What is offered no more is never offered again.                         *)
LEMMA OffersEnd ==
  ASSUME WellTyped, Next, NEW r \in Releases, ~StillOffered(r)
  PROVE  ~StillOffered(r)'
<1> BackendTyped /\ r # None
  BY CommandsAssumption DEF WellTyped, Requests
<1>1. r # blob /\ r # row.release /\ r # Offered /\ press[r] = "done"
  BY DEF StillOffered, Offered
<1>2. r # Offered'
  BY <1>1, LiveStep DEF Offered
<1>3. r # blob' /\ r # row'.release /\ press'[r] = "done"
  BY <1>1, BackendSteps DEF backend, Tick, AskRestart, AskRelease, PublishRelease,
     RecordRelease, SyncTouch, BackendTyped
<1>4. QED
  BY <1>2, <1>3 DEF StillOffered, Offered

LEMMA LastOfferedStep == WellTyped /\ LastOffered /\ [Next]_vars => LastOffered'
<1> SUFFICES ASSUME WellTyped, LastOffered, [Next]_vars PROVE LastOffered'
  OBVIOUS
<1> WellTyped' /\ acted \subseteq Releases /\ forgotten \subseteq Releases
  BY WellTypedStep DEF WellTyped, HistoryTyped
<1>1. CASE UNCHANGED vars
  BY <1>1 DEF vars, backend, commands, history, LastOffered, StillOffered
<1>2. CASE Next
  <2>1. CASE UNCHANGED <<nvs.release, acted, forgotten>> /\ (pc' # "off" => released' = nvs.release)
    BY <1>2, <2>1, OffersEnd DEF LastOffered
  <2>2. ASSUME NEW r \in {blob, Offered}, NEW l, NEW next, Consider(r, l, next), pc # "off",
               UNCHANGED backend
        PROVE  LastOffered'
    <3>1. CASE UNCHANGED <<released, nvs, acting, acted, forgotten>>
      BY <2>1, <2>2, <3>1 DEF LastOffered
    <3>2. CASE /\ r \in Releases /\ acted' = acted \cup {r} /\ released' = r
               /\ nvs'.release = r
               /\ forgotten' = forgotten \cup {s \in acted \ {r} : StillOffered(s)}
      <4>1. ASSUME NEW s \in acted' \ forgotten', s # r PROVE ~StillOffered(s)'
        <5>1. s \in Releases /\ ~StillOffered(s)
          BY <3>2, <4>1
        <5>2. QED
          BY <1>2, <5>1, OffersEnd
      <4>2. QED
        BY <3>2, <4>1 DEF LastOffered
    <3>3. QED
      BY <2>2, <3>1, <3>2, TakenOnOnce
  <2>3. CASE UNCHANGED ReleaseVars /\ (pc = "off" => pc' = "off")
    BY <2>1, <2>3 DEF ReleaseVars, LastOffered
  <2>4. CASE Reboot /\ UNCHANGED <<nvs.release, acted, forgotten, opened>>
    BY <2>1, <2>4 DEF Reboot
  <2>5. CASE Boot
    BY <2>1, <2>5 DEF Boot
  <2>6. CASE PassOn \/ OpenDoor
    <3>1. UNCHANGED <<nvs, acted, forgotten, released>> /\ (pc = "off" => pc' = "off")
      BY <2>6 DEF PassOn, OpenDoor, commands, history
    <3>2. QED
      BY <2>1, <3>1 DEF LastOffered
  <2>7. QED
    BY <1>2, <2>2, <2>3, <2>4, <2>5, <2>6, ReleaseSteps
<1>3. QED
  BY <1>1, <1>2

LEMMA OnItsWayStep == WellTyped /\ LastOffered /\ OnItsWay /\ [Next]_vars => OnItsWay'
<1> SUFFICES ASSUME WellTyped, LastOffered, OnItsWay, [Next]_vars PROVE OnItsWay'
  OBVIOUS
<1> /\ QueueTyped /\ HistoryTyped /\ CommandsTyped /\ WellTyped'
    /\ None \notin Releases
  BY WellTypedStep, CommandsAssumption DEF WellTyped, Requests
<1>1. CASE UNCHANGED vars \/ UNCHANGED ReleaseVars
  BY <1>1 DEF vars, commands, app, history, ReleaseVars, OnItsWay
<1>2. ASSUME NEW r \in {blob, Offered}, NEW l, NEW next, Consider(r, l, next),
             UNCHANGED <<queue, opened>>, pc \in {"asked", "wait"}
      PROVE  OnItsWay'
  <2>1. CASE UNCHANGED <<acting, acted, forgotten>>
    BY <1>2, <2>1 DEF OnItsWay
  <2>2. CASE /\ r \in Releases /\ r \notin acted \ forgotten /\ acted' = acted \cup {r}
             /\ acting'.id = r /\ forgotten \subseteq forgotten'
    <3>1. \/ r \in forgotten
          \/ /\ opened[r] = 0 /\ r \notin acted
             /\ \A i \in 1 .. Len(queue) : queue[i] # r \/ queue[i] \in forgotten
      BY <2>2 DEF OnItsWay
    <3>2. \A i \in 1 .. Len(queue) :
            \/ queue[i] \in forgotten'
            \/ queue[i] \in acted' /\ opened[queue[i]] = 0 /\ queue[i] # acting'.id
      BY <2>2, <3>1 DEF OnItsWay
    <3>3. \A i, j \in 1 .. Len(queue) :
            queue[i] = queue[j] => i = j \/ queue[i] \in forgotten'
      BY <2>2 DEF OnItsWay
    <3>4. \A s \in Releases \ forgotten' :
            opened[s] <= 1 /\ (s \notin acted' => opened[s] = 0)
      BY <2>2 DEF OnItsWay
    <3>5. acting'.id \in forgotten' \/ (acting'.id \in acted' /\ opened[acting'.id] = 0)
      BY <2>2, <3>1
    <3>6. QED
      BY <1>2, <3>2, <3>3, <3>4, <3>5 DEF OnItsWay
  <2>3. QED
    BY <1>2, <2>1, <2>2, TakenOnOnce
<1>3. CASE Reboot /\ UNCHANGED <<acted, forgotten, opened>>
  BY <1>3 DEF Reboot, OnItsWay
<1>4. CASE Boot
  BY <1>4 DEF Boot, app, OnItsWay
<1>5. CASE PassOn
  <2>1. acting'.id = None /\ UNCHANGED <<acted, forgotten, opened>>
    BY <1>5 DEF PassOn, CommandsTyped, history
  <2>2. CASE UNCHANGED queue
    BY <2>1, <2>2, <1>5 DEF OnItsWay, QueueTyped, HistoryTyped
  <2>3. CASE queue' = Append(queue, acting.id)
    <3>1. /\ acting.id \in Releases
          /\ acting.id \in forgotten \/ (acting.id \in acted /\ opened[acting.id] = 0)
      BY <1>5 DEF PassOn, CommandsTyped, OnItsWay
    <3>2. /\ Len(queue') = Len(queue) + 1 /\ queue'[Len(queue) + 1] = acting.id
          /\ \A i \in 1 .. Len(queue) : queue'[i] = queue[i]
          /\ Len(queue) \in Nat
      BY <2>3, <3>1 DEF QueueTyped
    <3>3. \A i \in 1 .. Len(queue') : i \in 1 .. Len(queue) \/ i = Len(queue) + 1
      BY <3>2
    <3>4. \A i \in 1 .. Len(queue') :
            queue'[i] \in Releases
            /\ (queue'[i] \in forgotten \/ (queue'[i] \in acted /\ opened[queue'[i]] = 0))
      <4>1. \A i \in 1 .. Len(queue) :
              queue[i] \in Releases
              /\ (queue[i] \in forgotten \/ (queue[i] \in acted /\ opened[queue[i]] = 0))
        BY DEF OnItsWay, QueueTyped
      <4>2. QED
        BY <3>1, <3>2, <3>3, <4>1
    <3>5. \A i, j \in 1 .. Len(queue') :
            queue'[i] = queue'[j] => i = j \/ queue'[i] \in forgotten
      BY <3>2, <3>3 DEF OnItsWay
    <3>6. QED
      BY <2>1, <3>4, <3>5 DEF OnItsWay
  <2>4. QED
    BY <1>5, <2>2, <2>3 DEF PassOn
<1>6. CASE OpenDoor
  <2> DEFINE r == Head(queue)
  <2>1. /\ queue \in Seq(Releases) /\ queue # <<>> /\ r = queue[1] /\ r \in Releases
        /\ Len(queue) \in Nat \ {0} /\ Len(queue') = Len(queue) - 1
        /\ \A i \in 1 .. Len(queue') : queue'[i] = queue[i + 1] /\ i + 1 \in 1 .. Len(queue)
    BY <1>6 DEF OpenDoor, QueueTyped
  <2> HIDE DEF r
  <2>2. /\ opened' = [opened EXCEPT ![r] = opened[r] + 1]
        /\ UNCHANGED <<acted, forgotten, acting>>
    BY <1>6 DEF OpenDoor, commands, r
  <2>3. \A i \in 1 .. Len(queue') : queue'[i] = queue[i + 1] /\ i + 1 \in 2 .. Len(queue)
                                    /\ queue[i + 1] \in Releases
    BY <2>1
  <2>4. 1 \in 1 .. Len(queue) /\ 2 .. Len(queue) \subseteq 1 .. Len(queue)
    BY <2>1
  <2>5. \A i, j \in 1 .. Len(queue') :
          queue'[i] = queue'[j] => i = j \/ queue'[i] \in forgotten
    BY <2>1 DEF OnItsWay
  <2>9. \A i \in 2 .. Len(queue) :
           \/ queue[i] \in forgotten
           \/ queue[i] \in acted /\ opened[queue[i]] = 0 /\ queue[i] # acting.id
    BY <2>4 DEF OnItsWay
  <2>10. acting.id # None => /\ acting.id \in Releases
                             /\ acting.id \in forgotten
                                \/ (acting.id \in acted /\ opened[acting.id] = 0)
    <3>1. acting.id \in ReleaseIds
      BY DEF CommandsTyped
    <3>2. QED
      BY <3>1 DEF OnItsWay, ReleaseIds
  <2>6. CASE r \in forgotten
    <3>1. \A s \in Releases \ forgotten : opened'[s] = opened[s]
      BY <2>2, <2>6 DEF HistoryTyped
    <3>2. \A i \in 1 .. Len(queue') :
            \/ queue'[i] \in forgotten
            \/ queue'[i] \in acted /\ opened'[queue'[i]] = 0 /\ queue'[i] # acting.id
      BY <2>3, <2>9, <3>1
    <3>3. acting.id # None => acting.id \in forgotten
                              \/ (acting.id \in acted /\ opened'[acting.id] = 0)
      BY <2>10, <3>1
    <3>4. QED
      BY <2>2, <2>5, <3>1, <3>2, <3>3 DEF OnItsWay
  <2>7. CASE r \notin forgotten
    <3>1. opened[r] = 0 /\ r \in acted /\ r # acting.id
      BY <2>1, <2>4, <2>7 DEF OnItsWay
    <3>2. \A i \in 2 .. Len(queue) : queue[i] # r
      BY <2>1, <2>4, <2>7 DEF OnItsWay
    <3>3. opened'[r] = 1 /\ \A s \in Releases : s # r => opened'[s] = opened[s]
      BY <2>1, <2>2, <3>1 DEF HistoryTyped
    <3>4. \A i \in 1 .. Len(queue') :
            \/ queue'[i] \in forgotten
            \/ queue'[i] \in acted /\ opened'[queue'[i]] = 0 /\ queue'[i] # acting.id
      BY <2>3, <2>9, <3>2, <3>3
    <3>5. acting.id # None => acting.id \in forgotten
                              \/ (acting.id \in acted /\ opened'[acting.id] = 0)
      BY <2>10, <3>1, <3>3
    <3>6. \A s \in Releases \ forgotten :
            opened'[s] <= 1 /\ (s \notin acted => opened'[s] = 0)
      BY <3>1, <3>3 DEF OnItsWay
    <3>7. QED
      BY <2>2, <2>5, <3>4, <3>5, <3>6 DEF OnItsWay
  <2>8. QED
    BY <2>6, <2>7
<1>7. QED
  BY <1>1, <1>2, <1>3, <1>4, <1>5, <1>6, ReleaseSteps

(* A press opens the door at most once, whatever is lost, sent again or    *)
(* cut short and however the handlers interleave, unless the door took on  *)
(* another release while this one was still being offered.                 *)
THEOREM ReleasesOnce == Spec => []ReleaseOnce
<1>1. Init => LastOffered /\ OnItsWay
  BY CommandsAssumption DEF Init, LastOffered, OnItsWay
<1>2. OnItsWay /\ WellTyped => ReleaseOnce
  BY DEF OnItsWay, ReleaseOnce
<1>3. QED
  BY <1>1, <1>2, InitTyped, WellTypedStep, LastOfferedStep, OnItsWayStep, PTL DEF Spec

=============================================================================
