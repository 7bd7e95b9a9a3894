---------------------------- MODULE RemoteCommands ----------------------------
(***************************************************************************)
(* "Release" and "Restart" pressed in the admin app, and the door that     *)
(* hears of them.                                                          *)
(*                                                                         *)
(*   admin API  writes a request to the door's row; a release to the       *)
(*              door's feed blob first (functions/admin.ts, releaseFeed.ts)*)
(*   sync API   reads the row, offers what is fresh, and then writes back  *)
(*              what the door has reported done (functions/sync.ts)        *)
(*   cloudsync  acts on an offered id once; the last id of each kind is in *)
(*              NVS so that a reboot does not repeat it.  Between syncs it *)
(*              polls the feed; an update it was offered restarts it too   *)
(*   accessTask takes releases off a queue and drives the strike           *)
(*                                                                         *)
(* A request is its id, used once.  Every await of a backend handler and   *)
(* every write to flash ends a step.  A handler whose door has hung up, or *)
(* restarted, runs on.                                                     *)
(***************************************************************************)
EXTENDS Naturals, Sequences, FiniteSets

CONSTANTS
  Restarts,       \* ids of restart requests
  Releases,       \* ids of release requests
  None,           \* no id, no time
  RestartTtl,     \* RESTART_REQUEST_TTL_MS (15 min)
  ReleaseTtl,     \* RELEASE_REQUEST_TTL_MS (60 s)
  MaxLag,         \* the request timeout of a sync (20 s)
  FeedTries,      \* failures after which the feed rests (3)
  QueueCap,       \* length of appEventQueue
  MaxNow,         \* bound: the last instant
  MaxCrashes      \* bound: power failures

Requests == Restarts \cup Releases

ASSUME CommandsAssumption ==
  /\ None \notin Requests /\ None \notin Nat /\ Restarts \cap Releases = {}
  /\ RestartTtl \in Nat /\ ReleaseTtl \in Nat /\ MaxLag \in Nat
  /\ FeedTries \in Nat /\ QueueCap \in Nat \ {0}
  /\ MaxNow \in Nat /\ MaxCrashes \in Nat

VARIABLES
  now,
  at,             \* per request: when it was made
  row,            \* the door's row: its outstanding requests, what was confirmed
  blob,           \* the release in the feed
  press,          \* per release: how far its handler in the admin API is
  calls,          \* the sync in progress, and one whose door has gone
  nvs,            \* flash: the last restart and the last release acted on
  pc,             \* the cloudsync task
  known,          \* _restartId
  pending,        \* _pendingRestartId
  owed,           \* the request the coming restart is for
  released,       \* _releaseId
  lapsed,         \* _lapsedReleaseId
  acting,         \* the release being passed on, and where the task goes next
  lag,            \* real time minus serverNow(), None before the first sync
  feed,           \* _feedUrl, _feedEtag, _feedFailures
  syncNow, backingOff,
  offer,          \* an approved firmware offer is waiting
  updated,        \* the door runs the published firmware
  queue,          \* releases in appEventQueue
  busy,           \* the strike is releasing
  crashes,
  honoured,       \* history: restarts made for each request
  opened,         \* history: times the door was opened for each release
  acted,          \* history: releases the door has recorded as its own to make
  rebooted,       \* history: restart requests made before the door's last boot
  overtaken,      \* history: restart requests made between a handler's reading of
                  \* the row and its clearing of the request it read there
  forgotten       \* history: releases still being offered when the door took on
                  \* another, of which it remembers one id only

backend == <<row, blob, press>>
commands == <<known, pending, owed, released, lapsed, acting>>
link == <<lag, feed, syncNow, backingOff>>
update == <<offer, updated>>
app == <<queue, busy>>
history == <<honoured, opened, acted, rebooted, overtaken, forgotten>>
clock == <<now, at>>
vars == <<clock, backend, calls, nvs, pc, commands, link, update, app, crashes, history>>

Times == 0 .. MaxNow
RestartIds == Restarts \cup {None}
ReleaseIds == Releases \cup {None}
NoCall == [pc |-> "none", restart |-> None, release |-> None, epoch |-> 0,
           restartDone |-> FALSE, newly |-> None, askRestart |-> None, askRelease |-> None]
Calls == [pc : {"none", "sent", "read", "answered"},
          restart : RestartIds, release : ReleaseIds, epoch : Times,
          restartDone : BOOLEAN, newly : ReleaseIds,
          askRestart : RestartIds, askRelease : ReleaseIds]
Slots == {"live", "orphan"}
NoFeed == [url |-> FALSE, etag |-> None, failures |-> 0]

TypeOK ==
  /\ now \in Times /\ at \in [Requests -> Times \cup {None}]
  /\ row \in [restart : RestartIds, release : ReleaseIds, done : ReleaseIds]
  /\ blob \in ReleaseIds
  /\ press \in [Releases -> {"new", "asked", "published", "done"}]
  /\ calls \in [Slots -> Calls]
  /\ nvs \in [restart : RestartIds, release : ReleaseIds]
  /\ pc \in {"off", "sync", "asked", "act", "synced", "markDownload", "markRestart",
             "download", "restart", "wait"}
  /\ known \in RestartIds /\ pending \in RestartIds /\ owed \in RestartIds
  /\ released \in ReleaseIds /\ lapsed \in ReleaseIds
  /\ acting \in [id : ReleaseIds, next : {"synced", "wait"}]
  /\ lag \in 0 .. MaxLag \cup {None}
  /\ feed \in [url : BOOLEAN, etag : ReleaseIds, failures : 0 .. FeedTries]
  /\ syncNow \in BOOLEAN /\ backingOff \in BOOLEAN
  /\ offer \in BOOLEAN /\ updated \in BOOLEAN
  /\ queue \in Seq(Releases) /\ Len(queue) <= QueueCap /\ busy \in BOOLEAN
  /\ crashes \in 0 .. MaxCrashes
  /\ honoured \in [Restarts -> Nat] /\ opened \in [Releases -> Nat]
  /\ acted \subseteq Releases /\ rebooted \subseteq Restarts
  /\ overtaken \subseteq Restarts /\ forgotten \subseteq Releases

-----------------------------------------------------------------------------
(* Time.  A sync that has no answer by its timeout is given up, so none is
   older than MaxLag.                                                      *)
Tick ==
  /\ now < MaxNow /\ now' = now + 1
  /\ calls["live"].pc \in {"read", "answered"} => now - calls["live"].epoch < MaxLag
  /\ UNCHANGED <<at, backend, calls, nvs, pc, commands, link, update, app, crashes,
                 history>>

-----------------------------------------------------------------------------
(* The admin API.                                                          *)

AskRestart(x) ==
  /\ at[x] = None
  /\ at' = [at EXCEPT ![x] = now]
  /\ row' = [row EXCEPT !.restart = x]
  /\ overtaken' = IF \E k \in Slots : calls[k].pc = "read" /\ calls[k].restartDone
                  THEN overtaken \cup {x} ELSE overtaken
  /\ UNCHANGED <<now, blob, press, calls, nvs, pc, commands, link, update, app,
                 crashes, honoured, opened, acted, rebooted, forgotten>>

\* Refused unless the door has been heard of lately (admin.ts:556), which a door
\* that is not at a stand is.
AskRelease(r) ==
  /\ press[r] = "new"
  /\ press' = [press EXCEPT ![r] = "asked"]
  /\ at' = [at EXCEPT ![r] = now]
  /\ UNCHANGED <<now, row, blob, calls, nvs, pc, commands, link, update, app, crashes,
                 history>>

PublishRelease(r) ==
  /\ press[r] = "asked" /\ press' = [press EXCEPT ![r] = "published"]
  /\ blob' = r
  /\ UNCHANGED <<clock, row, calls, nvs, pc, commands, link, update, app, crashes,
                 history>>

RecordRelease(r) ==
  /\ press[r] = "published" /\ press' = [press EXCEPT ![r] = "done"]
  /\ row' = [row EXCEPT !.release = r]
  /\ UNCHANGED <<clock, blob, calls, nvs, pc, commands, link, update, app, crashes,
                 history>>

-----------------------------------------------------------------------------
(* The sync API.                                                           *)

\* Mutant: a release is confirmed when it is offered, not when it is reported.
NewlyOffered(c) == IF row.done # row.release THEN row.release ELSE None

\* The release the door reports is the one in the row, and that is news.
Newly(c) ==
  IF c.release = row.release /\ row.done # row.release THEN row.release ELSE None

\* What the handler makes of the row it reads (sync.ts:114-152).
Response(c) ==
  LET restartDone == row.restart # None /\ c.restart = row.restart
      releaseDone == row.done = row.release \/ c.release = row.release
  IN [c EXCEPT
        !.pc = "read", !.epoch = now,
        !.restartDone = restartDone,
        !.askRestart = IF row.restart # None /\ ~restartDone
                          /\ now - at[row.restart] < RestartTtl
                       THEN row.restart ELSE None,
        !.newly = Newly(c),
        !.askRelease = IF row.release # None /\ ~releaseDone
                          /\ now - at[row.release] < ReleaseTtl
                       THEN row.release ELSE None]

\* What is left of a handler whose door has gone: nobody hears its answer, and
\* one that has nothing to write back might as well have ended.
Unheard(c) ==
  IF \/ c.pc = "sent" /\ {c.restart, c.release} # {None}
     \/ c.pc = "read" /\ (c.restartDone \/ c.newly # None)
  THEN [c EXCEPT !.epoch = 0, !.askRestart = None, !.askRelease = None]
  ELSE NoCall

SyncRead(k) ==
  /\ calls[k].pc = "sent"
  /\ calls' = [calls EXCEPT ![k] =
       IF k = "live" THEN Response(@) ELSE Unheard(Response(@))]
  /\ UNCHANGED <<clock, backend, nvs, pc, commands, link, update, app, crashes,
                 history>>

\* touchDoor: a merge, of what was decided from the row as it was read.
SyncTouch(k) ==
  /\ calls[k].pc = "read"
  /\ row' = [row EXCEPT !.restart = IF calls[k].restartDone THEN None ELSE @,
                        !.done = IF calls[k].newly # None THEN calls[k].newly ELSE @]
  /\ calls' = [calls EXCEPT ![k] =
       IF k = "live" THEN [@ EXCEPT !.pc = "answered"] ELSE NoCall]
  /\ UNCHANGED <<clock, blob, press, nvs, pc, commands, link, update, app, crashes,
                 history>>

\* The door no longer waits for the call; its handler runs on.
Abandon ==
  calls' = [calls EXCEPT
    !["live"] = NoCall,
    !["orphan"] = IF Unheard(calls["live"]) # NoCall
                  THEN Unheard(calls["live"]) ELSE @]

-----------------------------------------------------------------------------
(* The door hears of a release: considerRelease.                           *)

\* Mutant: the check trusts a door that has never synced or has lost its clock.
LateNever(r, l) == l = None

\* serverNow() is past the release's time, or not known at all.
Late(r, l) == l = None \/ now - l > at[r] + ReleaseTtl

\* The feed, the row, an answer on its way or a handler at work may yet bring it.
StillOffered(r) ==
  r \in {blob, row.release, calls["live"].askRelease} \/ press[r] # "done"

\* Its id is noted in RAM and in flash, over that of the one before, and passed on.
TakeOn(r, next) ==
  /\ released' = r /\ nvs' = [nvs EXCEPT !.release = r]
  /\ acting' = [id |-> r, next |-> next] /\ pc' = "act"
  /\ acted' = acted \cup {r}
  /\ forgotten' = forgotten \cup {s \in acted \ {r} : StillOffered(s)}
  /\ UNCHANGED lapsed

\* Mutant: an id is only compared with the one given up as late.
ConsiderAgain(r, l, next) ==
  IF r \in {None, lapsed}
  THEN pc' = next /\ UNCHANGED <<released, lapsed, acting, nvs, acted, forgotten>>
  ELSE IF Late(r, l)
  THEN pc' = next /\ lapsed' = r /\ UNCHANGED <<released, acting, nvs, acted, forgotten>>
  ELSE TakeOn(r, next)

Consider(r, l, next) ==
  IF r \in {None, released, lapsed}
  THEN pc' = next /\ UNCHANGED <<released, lapsed, acting, nvs, acted, forgotten>>
  ELSE IF Late(r, l)
  THEN pc' = next /\ lapsed' = r /\ UNCHANGED <<released, acting, nvs, acted, forgotten>>
  ELSE TakeOn(r, next)

\* _onRelease, which drops it if the queue is full, and requestSyncNow.
PassOn ==
  /\ pc = "act" /\ pc' = acting.next
  /\ queue' = IF Len(queue) < QueueCap THEN Append(queue, acting.id) ELSE queue
  /\ syncNow' = TRUE /\ acting' = [acting EXCEPT !.id = None]
  /\ UNCHANGED <<clock, backend, calls, nvs, known, pending, owed, released, lapsed,
                 lag, feed, backingOff, update, busy, crashes, history>>

-----------------------------------------------------------------------------
(* syncOnce.                                                               *)

SyncSend ==
  /\ pc = "sync" /\ pc' = "asked"
  /\ calls' = [calls EXCEPT !["live"] =
       [NoCall EXCEPT !.pc = "sent", !.restart = known, !.release = released]]
  /\ UNCHANGED <<clock, backend, nvs, commands, link, update, app, crashes, history>>

\* No network, no memory, no answer, or one that is no use.  A request that was
\* never sent is one that was never read.
SyncFails ==
  /\ pc = "asked" /\ pc' = "synced"
  /\ Abandon /\ backingOff' = TRUE
  /\ UNCHANGED <<clock, backend, nvs, commands, lag, feed, syncNow, update, app,
                 crashes, history>>

\* An answer counts as a failed sync if its roster could not be applied, but the
\* commands in it are acted on all the same.  The URL of the feed, when the
\* backend could issue one, is a new one each time.
SyncAnswer ==
  LET c == calls["live"] IN
  /\ pc = "asked" /\ c.pc = "answered"
  /\ calls' = [calls EXCEPT !["live"] = NoCall]
  /\ lag' = now - c.epoch
  /\ backingOff' \in BOOLEAN
  /\ pending' = IF c.askRestart \notin {None, known} THEN c.askRestart ELSE pending
  /\ feed' \in {[NoFeed EXCEPT !.url = TRUE], [feed EXCEPT !.failures = 0]}
  /\ offer' \in IF updated \/ busy THEN {FALSE} ELSE BOOLEAN
  /\ Consider(c.askRelease, lag', "synced")
  /\ UNCHANGED <<clock, backend, known, owed, syncNow, updated, app, crashes,
                 honoured, opened, rebooted, overtaken>>

-----------------------------------------------------------------------------
(* The task between syncs: updates, restarts, and the feed.                *)

\* The controller restarts: what was in RAM is gone.
Reboot ==
  /\ pc' = "off" /\ Abandon
  /\ known' = None /\ pending' = None /\ owed' = None
  /\ released' = None /\ lapsed' = None /\ acting' = [id |-> None, next |-> "wait"]
  /\ lag' = None /\ feed' = NoFeed /\ syncNow' = FALSE /\ backingOff' = FALSE
  /\ offer' = FALSE /\ queue' = <<>> /\ busy' = FALSE
  /\ UNCHANGED <<clock, backend>>

\* consumeRestart, up to its write to NVS.
ConsumeRestart ==
  /\ owed' = pending /\ pending' = None
  /\ known' = IF pending # None THEN pending ELSE known

\* An update ends in a restart, so a restart asked for is marked done first.
TakeUpdate ==
  /\ pc = "synced" /\ offer /\ offer' = FALSE
  /\ ConsumeRestart
  /\ pc' = IF pending # None THEN "markDownload" ELSE "download"
  /\ UNCHANGED <<clock, backend, calls, nvs, released, lapsed, acting, link, updated,
                 app, crashes, history>>

TakeRestart ==
  /\ pc = "synced" /\ ~offer /\ pending # None /\ ~busy
  /\ ConsumeRestart /\ pc' = "markRestart"
  /\ UNCHANGED <<clock, backend, calls, nvs, released, lapsed, acting, link, update,
                 app, crashes, history>>

\* Mutant: the request honoured is not written to flash.
MarkRestartInRam ==
  /\ pc \in {"markDownload", "markRestart"}
  /\ pc' = IF pc = "markDownload" THEN "download" ELSE "restart"
  /\ UNCHANGED <<clock, backend, calls, nvs, commands, link, update, app, crashes,
                 history>>

MarkRestart ==
  /\ pc \in {"markDownload", "markRestart"}
  /\ nvs' = [nvs EXCEPT !.restart = known]
  /\ pc' = IF pc = "markDownload" THEN "download" ELSE "restart"
  /\ UNCHANGED <<clock, backend, calls, commands, link, update, app, crashes, history>>

Honour == honoured' = IF owed = None THEN honoured ELSE [honoured EXCEPT ![owed] = @ + 1]

Downloaded ==
  /\ pc = "download" /\ updated' = TRUE
  /\ Honour /\ Reboot
  /\ UNCHANGED <<nvs, crashes, opened, acted, rebooted, overtaken, forgotten>>

\* Mutant: the request the update was to satisfy counts as satisfied.
DownloadFailsForgets ==
  /\ pc = "download" /\ pc' = "synced"
  /\ UNCHANGED <<clock, backend, calls, nvs, commands, link, update, app, crashes,
                 history>>

\* A request the update was to satisfy is owed a restart now.
DownloadFails ==
  /\ pc = "download" /\ pc' = IF owed # None THEN "restart" ELSE "synced"
  /\ UNCHANGED <<clock, backend, calls, nvs, commands, link, update, app, crashes,
                 history>>

Restart ==
  /\ pc = "restart"
  /\ Honour /\ Reboot
  /\ UNCHANGED <<nvs, updated, crashes, opened, acted, rebooted, overtaken, forgotten>>

\* Syncs have failed for long and the heap is in pieces.
SelfHeal ==
  /\ pc = "synced" /\ ~offer /\ backingOff /\ ~busy /\ pending = None
  /\ Reboot
  /\ UNCHANGED <<nvs, updated, crashes, history>>

\* Mutant: the wait does not look whether a restart is due.
StartWaitAnyway ==
  /\ pc = "synced" /\ ~offer /\ pc' = "wait"
  /\ UNCHANGED <<clock, backend, calls, nvs, commands, link, update, app, crashes,
                 history>>

StartWait ==
  /\ pc = "synced" /\ ~offer /\ (pending = None \/ busy) /\ pc' = "wait"
  /\ UNCHANGED <<clock, backend, calls, nvs, commands, link, update, app, crashes,
                 history>>

\* The wait is over, or was ended by requestSyncNow.
EndWait ==
  /\ pc = "wait" /\ pc' = "sync" /\ syncNow' = FALSE
  /\ UNCHANGED <<clock, backend, calls, nvs, commands, lag, feed, backingOff, update,
                 app, crashes, history>>

Polling == /\ pc = "wait" /\ ~syncNow /\ ~backingOff
           /\ feed.url /\ feed.failures < FeedTries

\* 304 and 404: unchanged, or never released.
PollUnchanged ==
  /\ Polling /\ blob \in {None, feed.etag}
  /\ feed' = [feed EXCEPT !.failures = 0]
  /\ UNCHANGED <<clock, backend, calls, nvs, pc, commands, lag, syncNow, backingOff,
                 update, app, crashes, history>>

PollNew ==
  /\ Polling /\ blob \notin {None, feed.etag}
  /\ feed' = [feed EXCEPT !.etag = blob, !.failures = 0]
  /\ Consider(blob, lag, "wait")
  /\ UNCHANGED <<clock, backend, calls, known, pending, owed, lag, syncNow, backingOff,
                 update, app, crashes, honoured, opened, rebooted, overtaken>>

\* 403: the URL is spent.
PollRefused ==
  /\ Polling /\ feed' = [feed EXCEPT !.url = FALSE]
  /\ UNCHANGED <<clock, backend, calls, nvs, pc, commands, lag, syncNow, backingOff,
                 update, app, crashes, history>>

PollFails ==
  /\ Polling /\ feed' = [feed EXCEPT !.failures = @ + 1]
  /\ UNCHANGED <<clock, backend, calls, nvs, pc, commands, lag, syncNow, backingOff,
                 update, app, crashes, history>>

-----------------------------------------------------------------------------
(* The strike, and power.                                                  *)

OpenDoor ==
  /\ queue # <<>> /\ queue' = Tail(queue) /\ busy' = TRUE
  /\ opened' = [opened EXCEPT ![Head(queue)] = @ + 1]
  /\ UNCHANGED <<clock, backend, calls, nvs, pc, commands, link, update, crashes,
                 honoured, acted, rebooted, overtaken, forgotten>>

Relock ==
  /\ busy /\ busy' = FALSE
  /\ UNCHANGED <<clock, backend, calls, nvs, pc, commands, link, update, queue, crashes,
                 history>>

PowerCut ==
  /\ pc # "off" /\ crashes < MaxCrashes /\ crashes' = crashes + 1
  /\ Reboot
  /\ UNCHANGED <<nvs, updated, history>>

Boot ==
  /\ pc = "off" /\ pc' = "sync"
  /\ known' = nvs.restart /\ released' = nvs.release
  /\ rebooted' = {x \in Restarts : at[x] # None}
  /\ UNCHANGED <<clock, backend, calls, nvs, pending, owed, lapsed, acting, link,
                 update, app, crashes, honoured, opened, acted, overtaken, forgotten>>

-----------------------------------------------------------------------------
Init ==
  /\ now = 0 /\ at = [r \in Requests |-> None]
  /\ row = [restart |-> None, release |-> None, done |-> None]
  /\ blob = None /\ press = [r \in Releases |-> "new"]
  /\ calls = [k \in Slots |-> NoCall]
  /\ nvs = [restart |-> None, release |-> None]
  /\ pc = "off" /\ known = None /\ pending = None /\ owed = None
  /\ released = None /\ lapsed = None /\ acting = [id |-> None, next |-> "wait"]
  /\ lag = None /\ feed = NoFeed /\ syncNow = FALSE /\ backingOff = FALSE
  /\ offer = FALSE /\ updated \in BOOLEAN
  /\ queue = <<>> /\ busy = FALSE /\ crashes = 0
  /\ honoured = [x \in Restarts |-> 0] /\ opened = [r \in Releases |-> 0]
  /\ acted = {} /\ rebooted = {} /\ overtaken = {} /\ forgotten = {}

Asking == \/ \E x \in Restarts : AskRestart(x)
          \/ \E r \in Releases : AskRelease(r)
Releasing == \E r \in Releases : PublishRelease(r) \/ RecordRelease(r)
Serving == \E k \in Slots : SyncRead(k) \/ SyncTouch(k)
Syncing == SyncSend \/ SyncFails \/ SyncAnswer
Between == TakeUpdate \/ TakeRestart \/ MarkRestart \/ Restart \/ StartWait \/ PassOn
Updating == Downloaded \/ DownloadFails
Feed == PollUnchanged \/ PollNew \/ PollRefused \/ PollFails
Strike == OpenDoor \/ Relock

Next ==
  \/ Tick \/ Asking \/ Releasing \/ Serving \/ Syncing \/ Between \/ Updating \/ SelfHeal
  \/ EndWait \/ Feed \/ Strike \/ PowerCut \/ Boot

Spec == Init /\ [][Next]_vars

(* Every task runs, and neither the network nor the backend fails for ever. *)
Task == SyncSend \/ Between \/ Updating \/ EndWait \/ Boot

Fairness ==
  /\ WF_vars(Task) /\ WF_vars(Strike)
  /\ SF_vars(SyncRead("live")) /\ SF_vars(SyncTouch("live")) /\ SF_vars(SyncAnswer)

FairSpec == Spec /\ Fairness

-----------------------------------------------------------------------------
(* What the two buttons promise.                                           *)

(* admin.ts:528 "Either way it is one-shot by id", CloudSync.cpp:787 "Once per
   id: both paths carry the same request, and the feed keeps serving it after
   it has been acted on": a press opens the door at most once, whatever is
   lost, repeated or cut short.  But the door remembers one id: a release that
   the feed, the row, an answer or a handler between its two writes may yet
   bring when the door takes on another is as good as new afterwards.      *)
ReleaseOnce == \A r \in Releases : opened[r] <= 1 \/ r \in forgotten

(* admin.ts:487 "a response re-sent before this backend hears back cannot
   restart it twice": lost answers, power cuts and updates that fail
   included, a request costs the door at most one restart.                 *)
RestartOnce == \A x \in Restarts : honoured[x] <= 1

(* "a release that arrives after the visitor has gone opens the door for
   whoever is there" (admin.ts:529): none is acted on later than its time, by
   more than a sync's timeout, whatever the door's own clock says.         *)
ReleaseFresh ==
  [][released' \notin {released, None} /\ pc # "off"
       => now <= at[released'] + ReleaseTtl + MaxLag]_vars

(* The admin app shows a release as done only if the door has taken it on; a
   reboot or a full queue at that moment may still lose it.                *)
ConfirmedIsDone == row.done # None => row.done \in acted

(* A restart request goes away only once the door has restarted since: one the
   door was about to honour with an update that then failed included.  But a
   handler that has read the row clears what it finds there when it writes,
   so a request made in between goes with the one it read.                 *)
RestartKept ==
  [][\A x \in Restarts :
       row.restart = x /\ row'.restart = None => x \in rebooted \cup overtaken]_vars

(* A restart asked for happens, or lapses, or is asked for anew.           *)
RestartSettles ==
  \A x \in Restarts :
    row.restart = x ~> row.restart # x \/ now - at[x] >= RestartTtl

=============================================================================
