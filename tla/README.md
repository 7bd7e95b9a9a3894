# Verification of the RFID access controller

This directory holds TLA+ models of the door controller firmware (`src/lib`,
`src/src/main.cpp`) and of the parts of the cloud backend it depends on
(`src/cloud/api`), the TLC configurations that check them, and TLAPS proofs of
their safety properties. Paths below are relative to the repository's root, `src/`
here.

- [The system](#the-system): its parts, their state, how they interact
- [The modules](#the-modules): which module models what, and how
- [The runs](#the-runs): what is checked, within which bounds, and what it shows
- [Fairness](#fairness)
- [The proofs](#the-proofs)
- [Where code and documents disagree](#where-code-and-documents-disagree)
- [Not modelled](#not-modelled)
- [Plan](#plan)

## The system

One controller (ESP32, FreeRTOS, Arduino) per door decides by itself who may open
it. It reads credentials at a reader, looks them up in a roster held in RAM,
energises a strike through a relay, watches a reed contact, and records what
happened in a spool on flash. Every half minute it calls the cloud, reports its
state and its events, and takes back a roster, a configuration, commands and
perhaps a new firmware image. Between
two such calls it asks a small feed, every few seconds, whether someone released
the door remotely. The cloud never calls the door. A door that is
paired takes its roster and schedule from the cloud only; one that is not is run
from its own web page.

### Firmware components

| Component | State | Operations | Runs on | Correct when |
|---|---|---|---|---|
| Strike and lights (`main.cpp`) | relay pin, `relayOffAt`, reader LED, `resultUntil`, `gSchedActive`, `appEventQueue` | post a tap, an exit press or a remote release; decide it; energise, arm the deadline; drop at the deadline; follow the window | readerTask, accessTask, loop(), cloudsync | an energised strike is always going to be dropped or is held by a window; a grant lasts its hold; no restart cuts one short |
| DoorContact | debounced position, held-open clock, forced and held flags | `begin`, `update`, fed by `doorContactPoll` | loop() | no forced or held-open door is missed; no released opening is called forced |
| EventLog | spool file, cursor in RAM and NVS, boot counter | `begin`/`scan`, `append`, `peek`, `ack`, `compact` | any task, under a mutex | no event is lost before the cloud has it, whatever power does; every event gets there |
| Roster, AccessControl | list and revision in RAM, `/roster.dat`, the old firmware's NVS list | boot, `acReplaceRoster`, `add`, `remove`, `save` | cloudsync, web server, accessTask reads | a list held under a revision is the backend's list of that revision; a power cut leaves the old or the new |
| UnlockSchedule | four fields in RAM and in NVS | `set`, `save`, `begin`, `isActiveNow` | cloudsync or web server writes, loop() reads | the window is what was asked for, overnight too; a paired door follows the backend |
| CloudSync | host and key, revisions reported, last release and restart ids, feed, offer, backoff | `syncOnce`, `considerRelease`, `requestSyncNow`, `setHost`, `pair`, `pollReleaseFeed`, firmware update | cloudsync, web task | a release opens the door once and in time, a request restarts it once; a firmware image is the one approved; the key is the backend's; failures delay and never wedge |
| WiFiManager | credentials, recovery mark, portal, change of network, setup access point | `begin`, `loop`, `changeNetwork`, portal handlers | loop(), web tasks | a door is never stranded by a bad network change or an absent network; the open access point closes |
| PaxtonReader | frame buffer, bit count | two interrupts, `poll` | ISR, readerTask | a frame is delivered whole or not at all |
| WebService, WebHandlers, WebStatus | pages, log, settings | settings, roster and schedule edits, pairing, reboot, upload of an image | web task | edits are refused on a paired door |
| DeviceSettings, DeviceIdentity, Display, SplashScreen | NVS values, a name, the OLED | get, set, draw | several | - |

### Backend components (`src/cloud/api`)

| Component | State | Operations | Correct when |
|---|---|---|---|
| Sync API (`functions/sync.ts`) | none of its own | one request per sync: authenticate, ingest events, compare revisions, answer | an answer's roster is at least as new as the revision it is sent under |
| Storage (`storage.ts`) | Azure tables: people, credentials, groups, doors, events, `Meta/rosterRev` | `getRosterRev`, `bumpRosterRev`, `effectiveRoster`, `ingestEvents`, `touchDoor` | every change of a list is followed by a new revision; ingesting twice stores once |
| Event time (`eventTime.ts`) | the start of a door's boot, in its row | date or place events recorded without a clock | times and bounds are honest, whatever is retried |
| Admin API (`functions/admin.ts`) | none | people, credentials, doors, releases, restarts | the revision moves after the rows |
| Entra sweep (`functions/entraSweep.ts`) | staleness clock | disable people who left the directory; timer and on demand | a partial failure is made good; nobody is disabled on an unreadable answer |
| Enrolment (`functions/enroll.ts`, `auth.ts`) | pairing codes, hashes of device keys | issue and redeem a code, check a key | a code gives one key |
| Firmware (`functions/firmware.ts`, `tools/publish-firmware.ts`) | a record per board, a blob per image | publish, force, roll back, offer, serve | a door is offered an image that exists, is for its board, and leads forward unless asked |
| Release feed (`releaseFeed.ts`) | a blob per door | overwrite, poll | carries the same requests as the row |
| Reports, admin sign-in | queries, a key cache | - | - |

### How they interact

- **Requests** travel from the reader and from cloudsync to accessTask through
  `appEventQueue` (10 entries, never waited on); an exit press is put there by
  loop().
- **Shared volatile scalars** (`relayOffAt`, `resultUntil`, `gSchedActive`,
  `gReleaseUntil`, `gReleaseArmed`, `gDoorReload`) join accessTask, loop() and
  cloudsync. No lock covers them: each statement is atomic, and nothing longer is.
- **Callbacks**: CloudSync asks main.cpp `safeToUpdate` and `safeToRestart`
  before it downloads or restarts, and calls a handler with each configuration.
- **Messages**: one HTTPS request per sync; the answer may be lost at any point,
  after the backend has acted on it.
- **Flash**: spool, roster and NVS survive a power cut between any two writes.
- **Tables**: requests of the admin API, the sweep's timer and doors' syncs run
  at the same time; only etags, where they are used, order them.

### What makes it hard

Three tasks changing one strike without a lock; a clock that wraps every 49.7
days, with 0 doing double duty as "none"; power that fails between removing a
file and renaming its replacement; confirmations lost after the work was done;
revisions bumped by a read and a write that may overlap; a read of storage that
fails and is taken for an empty answer; a check ("is the door idle?") made minutes
before the act; two paths that carry one command; handlers
that go on after their caller has given up; pairs of keys in NVS written one
after the other; a record and an image that are two things; doors without a clock. `PROJECT.json` lists these hazards one by
one, each at its line, with the property that would catch it.

## The modules

| Module | Models | Extended by |
|---|---|---|
| `DoorRelay` | the strike, the reader's light and the restart predicates; accessTask, loop() and cloudsync one statement at a time | `MCDoorRelay`, `DoorStrike_proofs` |
| `DoorContact` | lib/DoorContact and the glue that feeds it; one iteration of loop() is one step | `MCDoorContact`, `DoorContact_proofs` |
| `EventSpool` | the store EventLog.h promises: first in, first out, nothing leaves unconfirmed but what a fault takes | instantiated by `EventLog` |
| `EventLog` | lib/EventLog, one step per write to flash, with the upload and its confirmation | `MCEventLog`, `Events_proofs` |
| `EventTime` | the times and placements the backend gives those events, and the rows it keeps of them | `MCEventTime`, `Events_proofs` |
| `RosterSync` | backend writers and tables, the revision, one sync, the door's list, its file, boot | `MCRosterSync`, `RosterSync_proofs` |
| `UnlockSchedule` | lib/UnlockSchedule, one step per field written, with its two callers | `MCUnlockSchedule`, `DoorStrike_proofs` |
| `RemoteCommands` | releases and restarts from the admin API through row, feed and sync to the door, with the update that may serve a restart | `MCRemoteCommands`, `RemoteCommands_proofs` |
| `FirmwareUpdate` | publication, record, offer, download, flashing, rollback | `MCFirmwareUpdate`, `FirmwareUpdate_proofs` |
| `NetworkChange` | WiFiManager, the portal, the setup access point, changes of network | `MCNetworkChange`, `NetworkChange_proofs` |
| `Pairing` | codes, enrolment, device keys, changes of host, and whose list a door decides by | `MCPairing`, `Pairing_proofs` |

The `MC` modules hold the sets that configurations name, and the properties that do
not hold: each is a property of the component's module without its exception.
What can go wrong is an action, and a property that such an action costs something names
exactly what, through a history variable that is set where it happens; no theorem has a
hypothesis beyond the assumptions on the constants. Two runs leave something to a
constant: a door without a display (`OledOk`, TRUE in `DoorRelayTasks`) and two backends
whose revisions are equal (`PairedElsewhere`). `PROJECT.json`
"map" gives, for every definition that stands for code, the lines it stands for.
A definition preceded by the comment "Mutant:" is a wrong variant of the one that
follows it, used to see that a property notices; no behaviour uses it.

**DoorRelay.** The variables are main.cpp's scalars and the pin, plus a program
counter for each of the three tasks. `AccReceive`, `AccEnergise`, `AccArm`,
`AccResult` are accessTask's statements from taking an event to arming the
verdict's timer; the `Loop...` actions are loop() from top to bottom, at most one
access to a shared scalar in each (a condition and the store it guards are two
steps: `LoopExpiry` tests, `LoopClear` forgets the deadline, `LoopDrop` drops the
strike). `SyncOffer`, `SyncDownloaded`, `SyncTakeRestart` are the three places
where cloudsync decides to restart the controller. `Post` is readerTask or
cloudsync putting a request on the queue. `PowerCycle` is a power cut, and also
the reboot and the upload on the door's own pages, which ask no one. The
histories `owed`, `fresh`, `late`, `zeroed` only watch. The clock wraps at
`Width`; `MaxLag` is how many ticks may pass within one iteration of loop(),
which polls at 10 Hz.

**DoorContact.** `door` holds the class's fields; `Update` is `update()` with its
helpers. `Loop` does what loop() does, in its order: the schedule, the relay's
deadline, then the contact. Releases are written by accessTask in two steps
(`GrantRelay`, `GrantRelease`) and a poll may fall between them. Within `Loop`
nothing else runs; `DoorRelay` is where that iteration is taken apart. The histories
count for how long the door has stood open with no release (`bare`), whether it was
closed before (`bareOpening`), whether a saved setting has started the machine afresh
since it opened (`restarted`, by `Poll`), and how long ago the release was
(`age`; `Recent` is less than half a wrap).

**EventLog.** A record is its identity (boot, idx). `Torn` is half a record.
`Valid(s)` is what any reader of the file sees, since reading stops at the first
record with a bad CRC. `pc` names the next write to flash, and `Crash` may come at any of
them; `AppendTorn` is one inside an append. `FsCap` bounds the filesystem: beyond it
appends fail, and a copy is cut short without anybody noticing (`Copy`,
EventLog.cpp:213). `TrimRenameFails` and `CompactRenameFails` are the renames
that fail: after the second (EventLog.cpp:220) the file is gone and both cursors stand
where they were, above whatever is appended next. `Confirmed` and `UploadFails` stand
for the backend's `ingestEvents`, which may store any part of a batch that is never
confirmed. `faulted` and `exposed` remember which records such faults may have cost:
those that waited in a file that was lost, and those appended where they cannot be read
or below a cursor that a fault left standing (`Astray`). `Waiting` is what the spool
would give out now, or will once it has come up again.

**RosterSync.** `tables` holds what `effectiveRoster` works from: the door's groups, the
groups of each credential's holder, the credentials in force. A writer changes
rows (`Write`), then bumps the revision by a read and a write (`BumpRead`,
`BumpWrite`), and may stop between. A sync is broken up at its awaits: the revision,
then the door's row, the people, the credentials (`SyncReadRev`, `SyncReadDoor`,
`SyncReadPeople`, `SyncReadCreds`), and rows may change between any two. A read that
fails answers revision 0 (`SyncMisreadRev`, `BumpMisreads`: storage.ts:76) or a door
without groups, which is sent an empty list (`SyncMisreadDoor`: storage.ts:158); a
failure of the other two reads is an error and loses the sync. `Roster::save` is
broken up at write, remove and rename, and the rename may fail. `saved` remembers
which two copies a power cut may leave, `gone` that a swap of the two files was cut
short, `mark` where a list came from that is not the backend's, and `reused` the
revisions given by a bump that had not seen the highest.

**UnlockSchedule.** `set()` is eight writes: four fields in RAM, four keys in
NVS. `PageSet` is the door's own page, `ConfigSync` the configuration handler,
which calls `set()` only when the schedule in RAM differs from the one offered.

**RemoteCommands.** `row` is the door's row in the table and `blob` its entry in
the release feed. A press of "Release" is the admin handler of functions/admin.ts:
`AskRelease`, then the feed (`PublishRelease`), then the row (`RecordRelease`); a
restart request is one write (`AskRestart`). `calls` holds the handler of the sync
whose door is waiting and one whose door has gone (`"orphan"`): each reads the row
(`SyncRead`), answers from what it read, and writes back by `touchDoor`
(`SyncTouch`). `pc` follows the cloudsync task from `SyncSend` through
`considerRelease` (`Consider`, `PassOn`), the update or restart with the marks it
makes in NVS before it goes down (`TakeUpdate`, `TakeRestart`, `MarkRestart`,
`Restart`), and the wait in which it polls the feed (`PollNew` and its likes).
`lag` is the error of `serverNow()`. What goes on the queue reaches the strike by
`OpenDoor` and `Relock`; `DoorRelay` is where those are taken apart. Handlers
interleave and outlive their calls. One orphan is kept at a time, and of it only what it
may still write (`Unheard`); a later one takes its place. `forgotten` holds the
releases that something may still offer when the door takes on another and so
overwrites the one id it remembers; `overtaken` the restarts asked for while a handler
that had read the row was about to clear it.

**EventTime.** `rows` is what `ingestEvents` has written, to a table by person
and a table by door; a row's key holds its time, so a row under another time is
another row. `Ingest` is `resolveBatch` (`Resolve`), `boundUnknowns`
(`BoundUnknowns`) and the writes, any of which may fail; `Touch` stores the start
of the boot as `BootStart` and `Pinned` have it. The functions of eventTime.ts are
operators over the sequence of events. A second is two steps of time, so that
whole seconds and truncation are seen. `HandlerFails` is a handler that fails between
storing events and storing the start they were dated from; `adrift` remembers those
events. A door has one handler at a time here. Where a name would
meet one of `EventLog`'s it carries "Time" or "Id" (`TimeInit`, `bootId`), as
`UnlockSchedule`'s carry "Schedule": the two have one module of proofs.

**FirmwareUpdate.** `record` and `blob` are keyed by `boardKey()`, which may map
two boards to one key; `BoardOf` and `KeyOf` are constants. `CheckImage`, `Upload`
and `PutFirmware` are publish-firmware's steps, and `PublicationFails` stops it
between them. A door goes through `AcceptOffer`, `Get`, `Commit` and `Restart`, or
`UpdateFails`; `Flash` is the upload on its own page, `Hold` an operator's hold.
The gates are predicates (`WouldOffer` on the record, `ForThisBoard` on the
answer, `Intact` on the digest), evaluated where the code evaluates them and on
what had been read by then.

**NetworkChange.** `mode` is where setup() and loop() are; `change` is the state
of a change of network; `radio` the join in flight. A pass of loop() is one of
`ConnectPass`, `Consume`, `OpenSetupAP`, `RetryPass`, the `Change...` actions,
`Supervise` and `SetupTimeout`, and `Tick` waits for it. The portal's handlers
(`PortalPage`, `PortalSave`) and the `/setup` page's (`ChangeNetwork`) run at any
time between. A change begins and is looked at in one pass: `ChangeBegin` finds the old
link down, as is the rule, `ChangeBeginStale` finds the driver still calling it connected
and stores the candidate (WiFiManager.cpp:648, 524), which `untried` remembers.
`Supervise` calls `WiFi.reconnect()`, which may leave a join in flight alone or begin it
anew (`Reconnecting`). The configuration handler writes its two keys in two steps
(`ConfigAsked`, `ConfigArmed`). A password is right if it bears the network's name.

**Pairing.** `keyHash[h][d]` is backend h's hash of door d's key. `calls` are
enroll handlers, each at a place between its awaits (`Look`, `Delete`,
`StoreKey`); `web` is the door's web task in `setHost` and `pair` (`SetHost`,
`ForgetKey`, `Post`, then `AdoptKey`, `KeepKey`, `Refused` or `GivesUp`), `sync`
its cloudsync task between reading the key and applying the answer (`SyncRead`,
`SyncSend`, `SyncAnswer`, `SyncApply`). Keys are numbered in the order in which
they were stored.

## The runs

State counts are those of one complete exploration. Deadlock is checked in every
run except those of `EventLog`, `NetworkChange` and `Pairing`, where boots,
requests, calls or power cuts are bounded and the door may really have nothing
left to do.

| Run | Question | Bounds | Result |
|---|---|---|---|
| `DoorRelayTasks` | Can three tasks lose track of the strike, end a grant early, or restart through one? Does the strike always lock again and the light come right? | clock wraps at 7, hold 2, verdict 2, queue of 1, one request of any kind, one opening or closing of the window, fair tasks | `StrikeAccounted`, `FreshGrantHeld`, `RestartSparesRelease`, `StrikeRelocks`, `LedCorrected` hold; 660 000 states |
| `DoorContactAlarms` | Is every forced or held-open door reported, and only those? | clock wraps at 16 and as often as it likes, releases of any age, two window changes, one settings change | `ForcedReported`, `HeldReported`, `ForcedUnreleased` hold; 1.8 million states |
| `EventLog` | Is the spool a reliable FIFO store, but for what faults cost? Does a cursor pass an unconfirmed record? Does everything get there? | three boots, three appends each, batches of 2, full at 3, rewrite at 2, a filesystem of 5 records, power fails everywhere, renames fail | `TypeOK`, `CursorsCovered`, `ImplementsSpool`, `Delivered` hold; 214 000 states |
| `RosterSync` | Does a revision always name the list? What may a boot find? Does the door catch up? | one credential, one group, one writer that may stop, expiry, two changes, two of power cut, unpairing, local edit and failed read, failing saves, renames and allocations | `Faithful`, `OldOrNew`, `Converges` hold; 1.4 million states |
| `RosterSyncOverlap` | Do overlapping bumps do any harm? | two writers, one credential, four writes | `OverlapIsHarmless` is violated: a change is never sent |
| `UnlockScheduleWeek` | Is the window the one asked for? Does a paired door follow? | a week of 2 days of 3 minutes, every schedule the page can set, two power cuts between any two writes | `ActiveIsWindow`, `FollowsBackend` hold; 94 000 states |
| `RemoteCommands` | Is a release done once and in time? Is a restart done once, and not dropped? | one release, one restart, three moments, a power cut, handlers that overlap | `ReleaseOnce`, `RestartOnce`, `ConfirmedIsDone`, `ReleaseFresh`, `RestartKept` hold; 4.8 million states |
| `RestartSettling` | Is a restart that is put off settled in the end? | the same in two moments, answers that take no time, restart requests that live for one moment | `RestartSettles` holds; 513 000 states |
| `EventTime` | Are times and bounds honest, and retries harmless? | two events, two boots, six half seconds, one failed write, failed handler or lost answer | `TimeTypeOK`, `Honest`, `OneTime`, `AckedIsStored` hold; 1.1 million states |
| `FirmwareUpdate` | Can a door be given the wrong image, or none, or an older one unasked? | a door, two boards under one key, two versions of two builds, two publications that may be forced, one flashing by hand | `RightBoard`, `NeverMissing`, `NeverBackUnasked`, `AsOffered`, `Settles` hold; 106 000 states |
| `NetworkChange` | Can a door strand itself, or throw its user off the portal, or leave the open access point up? | two networks, two changes of the air, two power cuts, one each of button, portal visit, form and request | `KeptWorks`, `SetupOnce`, `LeftAlone`, `Recovers`, `SetupCloses` hold; 930 000 states |
| `Pairing` | Can a code give two keys, a door hold a key that is not its backend's, or go on under the wrong list? | two doors, two backends, two codes, two calls, a power cut, a lost answer | `CodeOnce`, `KeyIsAccepted`, `Belongs` hold; 977 000 states |

Why these bounds are enough for the cases that matter:

- *Clock.* Widths 7 and 16 leave room for one hold (and grace) in half a wrap,
  which is what `ClockAssumption` and `ContactAssumption` ask and the code has
  with a factor of a million to spare. Nothing bounds how often the clock wraps
  in DoorRelay, so deadlines beyond the wrap and deadlines of exactly 0 occur.
- *Requests.* A grant can meet the end of a window, a denied tap, the end of its
  own verdict and every place of loop() and cloudsync. Two grants one over the
  end of the other need a second request: with two requests and one flip, at
  width 5 and holds of 1, the five properties hold too (531 000 states), and the
  three safety properties hold with two requests at width 7 (7.8 million). The
  proofs have no such bound.
- *MaxLag 1* lets the clock move between any two statements of loop(). It also
  says that loop() comes round: without that, no deadline means anything.
- *Spool.* Full at 3 and rewritten at 2 with three appends per boot reaches overflow,
  batch, rewrite and restart in combination, and with room for five records on flash a
  copy that does not fit. A third boot starts on what a second made of a fault, which is
  where a stale cursor does its harm. With four appends per boot `TypeOK`,
  `CursorsCovered` and `NothingLost` hold as well (4.7 million states).
- *Roster.* One credential and one group are enough for a list to be wrong, and for one
  put together from three moments to be one that no moment had. Two changes and two
  upsets give an edited list under an old revision, a second change after the first was
  missed, and a bump that misread and was overtaken. With three upsets `Faithful` and
  `OldOrNew` hold as well (4.9 million states). The proofs have any number of writers.
- *Week.* Two days distinguish "today" from "yesterday" and wrap; three minutes
  allow daytime, overnight and empty windows and one out of range.
- *Commands.* One release by two paths is the least that can be done twice, and a
  restart beside it the least that can be put off for it. Three moments outlast
  a release (`ReleaseTtl` 1) and its call, and reach the end of a restart
  request's time (2). It takes two releases for one to be forgotten for another: with two,
  in one moment and with a power cut, `ReleaseOnce` holds too (1.6 million states), as
  its theorem says for any number.
- *Event time.* Two events over two boots give an event with a clock before one
  without, and the reverse, in the same batch or in two. Three events in five half
  seconds, two of them without a person, hold as well (3.6 million states).
- *Firmware.* Two publications let one overtake a download, a forced one follow a
  refused one, and a rollback follow an update; three were explored (1.5 million
  states), and two doors with one build.
- *Networks.* Two networks are the least between which a door can be moved wrongly;
  a wait of 2 with a join of 1 or 2 gives joins that come in time and too late.
  Two forms with one cut, and with two cuts and one change of the air, hold as
  well (1.6 and 1.9 million states).
- *Pairing.* Two doors and two codes give a code redeemed by the wrong door or by
  both; two calls overlap; one lost answer and one cut leave every pair of NVS keys
  half written.

Thirteen more configurations are kept for reading, not as claims: each reproduces a
disagreement listed [below](#where-code-and-documents-disagree), and TLC finds the one
property it names violated: one without the exception that the property of the run has.

| Configuration | Module | Property |
|---|---|---|
| `EventLogLostRename`, `EventLogPassed` | `MCEventLog` | `NothingLostWithFile`, `NeverPassed` |
| `DoorContactStale`, `DoorContactReload` | `MCDoorContact` | `NoneMissed` |
| `RosterSyncCut`, `RosterSyncBlank` | `MCRosterSync` | `OldOrNewAlways`, `NeverBlank` |
| `EventTimeRetry`, `EventTimeAdrift` | `MCEventTime` | `Converges`, `OneTimeAlways` |
| `ReleaseTwice`, `RestartOvertaken` | `MCRemoteCommands` | `NeverTwice`, `NeverCleared` |
| `PairedElsewhere` | `MCPairing` | `Belongs`, with two revisions that are equal |
| `SlowRejoin`, `StaleJoin` | `MCNetworkChange` | `JoinedForGood`, `StoredAfterJoining` |

## Fairness

- `DoorRelay!Fairness`: the clock runs, and FreeRTOS schedules accessTask and
  loop() for ever: accessTask has the higher priority and spends nearly all its
  time waiting on the queue or in a delay, loop() sleeps 100 ms a round. Nothing
  is assumed of people, of the window or of the cloud.
- `EventLog!Fairness`: the firmware's own steps are taken once they can be; an
  upload that can succeed infinitely often does (strong fairness on
  `Confirmed`), because CloudSync retries after every failure, for ever, with a
  bounded backoff. Without it, a network that fails every time refutes delivery.
- `RosterSync!Fairness`: weak fairness on boot and saving, on a sync under way
  (`Syncing`) and on a backend writer between its read and its write (`Bump`), strong
  fairness on applying an answer, which a reboot, the network or exhausted memory may
  undo. The one on writers is an assumption about the host, and says nothing of a writer
  that has stopped.
- `UnlockSchedule`: weak fairness on the handler and on `set()`.
- `RemoteCommands!Fairness`, under which `RestartSettling` runs: weak fairness on the
  door's own task (`Task`: sending, the work between syncs, the update, the end of a
  wait, boot) and on the strike; strong fairness on the three steps of a sync that the
  network may fail (the live call's `SyncRead` and `SyncTouch`, and `SyncAnswer`).
  Nothing is assumed of an admin handler or of one whose door has gone.
- `FirmwareUpdate!Fairness`: strong fairness on accepting an offer, fetching the
  image and committing it, since a door asks again at every sync; weak on giving
  up, on restarting into a new image, and on a door being closed again, without
  which it is never idle.
- `NetworkChange!Fairness`: weak fairness on loop() (`Door`), on the configuration
  handler and on the clock. Nothing is assumed of the air or of people.
- `Pairing!Fairness`: weak fairness on an enroll handler under way and on the two
  tasks of the door. Losses are bounded.
- `EventTime` has no liveness property; `Delivered` in EventLog is the one about
  events reaching the cloud.

No fairness is assumed on power failures, saves that fail or exhausted memory;
these are bounded or may simply stop.

## The proofs

Eight modules prove safety for every value of the constants that satisfies the
assumptions of the module they are about. Every invariant and every action property
that a run checks, and the refinement of `EventSpool`, is stated by a theorem. In
each module `TypeCorrect` is `Spec => []TypeOK` (`ScheduleTypeCorrect` and
`TimeTypeCorrect` in the two modules that are proved about beside another), and the
rest lean on it. Every other theorem is the invariance of a strengthening, with one
case per action, and a last temporal step.

No theorem supposes that a fault stays away. Where the code does not keep a promise in
every case, the property leaves out exactly the cases in which it does not, by a history
variable that is set at the step that costs it, and a configuration shows the property
without that exception violated:

| Theorem | Left out | Without it |
|---|---|---|
| `ListIsBackends` | a list edited at the door, one sent for a row that could not be read (`mark`), a revision given by a bump that had not seen the highest (`reused`) | `RosterSyncOverlap`, `RosterSyncBlank` |
| `CutLeavesOne` | a swap of files cut short between remove and rename (`gone`) | `RosterSyncCut` |
| `RestartIsKept` | a request made while a handler that had read the row before it was about to clear it (`overtaken`) | `RestartOvertaken` |
| `ReleasesOnce` | a release still on offer when the door takes on another (`forgotten`) | `ReleaseTwice` |
| `ForcedIsReported` | an opening under which a saved setting starts the machine afresh (`restarted`); a last release half a wrap of the clock old (`Recent`) | `DoorContactReload`, `DoorContactStale` |
| `HeldIsReported` | the same old release | `DoorContactStale` shows the cause |
| `CursorsAreCovered`, `Implementation`, `RecordedIsKept` | records that a fault of power, rename or a full filesystem may have cost (`exposed`) | `EventLogPassed`, `EventLogLostRename` |
| `StoredWorks` | a candidate stored on the old link's status (`untried`), a save cut between its two keys (`torn`) | `StaleJoin` |
| `FiledUnderOneTime` | events whose handler failed before it stored their start (`adrift`) | `EventTimeAdrift` |

**DoorStrike_proofs**, of `DoorRelay` and of `UnlockSchedule`.

- `StrikeIsAccounted`: `Spec => []StrikeAccounted`. An energised strike has a
  deadline, or an open window, or a task that is one statement away from writing
  the deadline or from dropping the strike, or some deadline was exactly 0. The
  invariant is not inductive alone: a state in which loop() is about to energise
  the strike for a window that is not marked active would break it at the next
  step. `WindowMarked` says that state does not occur, and the conjunction,
  `AccountedInv`, is inductive. Its heart is the pair `LoopClear`/`LoopDrop`: the
  deadline is forgotten a statement before the strike is dropped, and the program
  counter itself accounts for the strike between them.
- `GrantIsHeld`: `Spec => []FreshGrantHeld`, and `RestartIsSafe`:
  `Spec => RestartSparesRelease`. Both follow from `GrantInv`, the conjunction of
  `TypeOK`, `GrantRunning` and `RestartDecided`. `FreshGrantHeld` says nothing of
  the deadline, so it is not inductive: loop() could be about to find one expired.
  `GrantRunning` adds that the deadline lies between `owed` and `Hold` ticks ahead
  (`Left`), that loop() is at no place from which it drops the strike, and that
  after the grant's second statement there is a deadline unless it came out as 0.
  Three lemmas carry the arithmetic of the wrapping clock: `TickLeft`, `AfterLeft`
  and `NotExpired`; the last is where `2 * (Hold + MaxLag) < Width` is used.
  `RestartDecided` says that a grant still owed when cloudsync has made up its
  mind came after its check: the check found no deadline, so there was none, or
  it was about to be written.
- `ActiveMeansWindow`: `ScheduleSpec => []ActiveIsWindow`, from
  `ScheduleTypeOK` alone and modular arithmetic: the code looks at today and yesterday, the
  property at every day of the week and at how far the minute lies from a start on
  it. `ClockSplits` takes a minute of the week apart, `SamePlace`, `InWeek` and
  `Yesterday` say when two places of the week are one, and `Length` and
  `ActiveCovers` give the length of a window from its two ends.

**DoorContact_proofs.** `ForcedIsUnreleased`: `Spec => ForcedUnreleased`. The code
compares clock values, the property speaks of time since the release. `Covered`
joins them: between grants, as long as an opening would count as released,
`gReleaseUntil` is exactly the clock plus what is left of hold and grace.
`TickNearer` brings it one nearer across the wrap, `NotMet` says that it is not
taken for a past one, by `2 * (Hold + Grace + MaxLag) < Width`, and
`ForcedOnlyOpening` that only a poll which finds the door opening can call it forced.

`ForcedIsReported`: `Spec => []ForcedReported`, and `HeldIsReported`:
`Spec => []HeldReported`. The properties count ticks for which the
door has stood open unreleased (`bare`), the code subtracts clock values. `OnTime` joins
them: each deadline still counts what it counted when it was written, or has passed
(`RelayKept`, `ReleaseKept`); a poll is late by at most `MaxLag` (`Polled`); while `bare`
runs nothing counts as released (`BareMeans`); an opening so counted is forced once the
machine has seen it, unless that started afresh since (`Told`); and `Behind` bounds
`bare` by how far the machine has come: yet to see the door open, debouncing, or timing
it. The last two hold while the release is `Recent`: `NothingReleased` is where a deadline
more than half a wrap old would pass for one to come. Nothing bounds how old a release
may get.

**RosterSync_proofs.**

- `TypeCorrect` needs that no revision is ever higher than the writes made, those of
  writers that have yet to bump included (`BumpsCounted`).
- `ListIsBackends`: `Spec => []Faithful`, for any number of writers whose bumps overlap,
  and whichever reads fail. `Sound` says of each place where a list and a revision stand
  together (`CopiesSound`: RAM, the file, its copy; `ReadSound`: the three reads of an
  answer in the making) what may be said of them. None bears a revision higher than the
  highest ever given (`top`), and the revision in force is that one or was given by a bump
  that had not seen it (`RevSound`). So a bump that has seen the highest leaves every list
  behind; one that has not is what `reused` remembers. While the revision stands, what the
  tables have meant under it only grows (`MeantGrows`).
- `CutLeavesOne`: `Spec => OldOrNew`. `Leaves` gives for each place in
  a save what a boot would find; `Replaces` that it is one of the two, unless `gone`.

**RemoteCommands_proofs.**

- `ConfirmedWasDone`: `Spec => []ConfirmedIsDone`. `TakenOn` follows the id
  of a release done through every copy of it, in flash, RAM, calls and the row.
- `RestartsOnce`: `Spec => []RestartOnce`. `RestartSound` counts: the mark in NVS
  is made before the restart, so a request restarts the door only if its mark is
  not there (`Places`), and a request that is settled stays so (`Settled`).
- `ReleaseIsFresh`: `Spec => ReleaseFresh`. A request's time is bounded where it is
  asked (`ReleasesAsked`), and what a call has read is no older than the call's timeout
  (`Young`).
- `RestartIsKept`: `Spec => RestartKept`, with two handlers that may interleave and
  outlive their calls: what one clears is what it has read, which the door has honoured,
  or was asked for after it had read (`Reported`).
- `ReleasesOnce`: `Spec => []ReleaseOnce`, for any number of releases by both paths.
  `LastOffered`: a release that was taken on and not forgotten is the last id in flash and
  in RAM, which is what the code compares with, or is on offer nowhere (`StillOffered`)
  and never will be again; so each is taken on once (`TakenOnOnce`).
  `OnItsWay`: one that was taken on is in one place on its way to the strike, or has been
  through it, or is lost.

**FirmwareUpdate_proofs.** `OnlyItsBoard`, `NothingMissing`,
`FlashesWhatWasOffered` and `NeverPutBackUnasked` share `Sound`, which says what
each holder of an image knows: the desk has checked what it is uploading
(`DeskSound`), a record names a stored image (`RecordSound`), an offer is for the door's
board and leads on from what it runs, or back to where the operator wants it
(`OfferSound`), and boards run and start images
built for them (`BoardsSound`). Nothing is assumed of which
boards share a key.

**NetworkChange_proofs.** `StoredWorks` (`KeptWorks`) rests on `ChangeSound`: the
fallback was stored before, and the candidate is what the radio calls, so that a link
reported up in a later pass is the candidate's; one reported up in the pass that begins
the attempt may be the old one's, and makes the candidate `untried`. `OpensOnce` (`SetupOnce`) counts the
openings against the changes of what the cloud wants (`SetupCounted`): the two
keys allow one opening per request, at whichever of them power fails. `NotThrownOff` (`LeftAlone`) rests on `PageQuiet`: while a page loaded
over a silent radio is in use, the radio stays silent.

**Pairing_proofs.** `CodeGivesOneKey` (`CodeOnce`) rests on `OnePlace`: a code is
in a row, or in one handler that has deleted it, or spent. `DoorKeyIsBackends`
(`KeyIsAccepted`) rests on `Accepted`, which says of every place where a key may
be on its way (the call, the answer, RAM, flash) that the backend made it for this
door (`KeysMade`, `CallsSound`, `PostedSound`, `FlashSound`, `RamSound`).

**Events_proofs**, of `EventLog`.

- `TypeCorrect` rests on `Sizes`: at each write to flash, how long the file and its
  copy are and where the two cursors may stand. After a fault little remains of that: a
  cursor may stand beyond the file, and the file may hold half a record anywhere.
- `CursorsAreCovered`: `Spec => []CursorsCovered`. The inductive invariant is `Kept`, whose
  heart is `Sound`; it holds whatever fails. `Counted`: until a fault, the counts count the
  file. `Copied`: a copy has all of what it is a copy of, or what it leaves out is exposed.
  `Issued`: every identity in use is older than the next one. `Sorted`: the file is in
  that order, so that "up to this record" names a prefix. `Passed`: what a cursor has
  passed is `Gone` (with the cloud, given up, or exposed), for the NVS cursor too, which a
  boot will believe. `InFlight`: a confirmation covers no record that was not in its
  batch, though the file has grown, or lost its head, since it was copied out.
- `Implementation`: `Spec => ImplementsSpool`. Each step of the flash
  spool is one of `EventSpool`'s or none: a record waits while it is beyond the
  cursor, `ack` hands over the longest prefix that the confirmation covers, and a fault
  is `EventSpool`'s own step, which exposes what waited. `WaitingIs` says what waits at
  each write to flash.
- `RecordedIsKept`: `Spec => []NothingLost`, from the refinement.

Trying to prove `Passed` of the NVS cursor turned up a case that had not been thought of:
`append` on a full spool with half a record in it moves the cursor over what it cannot
read, `ack` stores that cursor, and after the next trim `scan` lowers only the one
in RAM (EventLog.cpp:96). The one in NVS lies beyond the file, and records appended later
are taken as confirmed at the boot after. Such records are `exposed`.

**Events_proofs**, of `EventTime`. `Truth` is one inductive invariant, for any number
of events and boots and any length of batch.

- `BoundsAreHonest` says what `boundUnknowns` computes: of items whose known times and
  ceilings are true to the second (`Truthful`), every window holds the event and every
  place lies in its window, however the places run backwards. `ItemsAreTruthful` shows
  what `resolveBatch` passes to be such items. The case that matters is a derived time
  before an event without one: it would be a floor as much as a second late, and cannot
  occur, because an event after it in the same boot is dated by the same start. That
  is where `Second <= Tolerance` is used. `LatestIs` says why an anchor from storage
  must be an observed time.
- `TimesAreHonest`: `TimeSpec => []Honest`. `StartIs` says of the start a call reports,
  and of the one stored for its boot, that no event of that boot contradicts it by a
  second and that events of earlier boots came before.
- `FiledUnderOneTime`: `TimeSpec => []OneTime`. `Steady`: a row derived
  for an event of boot b was reckoned from the start stored for b, or from that of
  the call which is about to store it, or b is over; unless the event is `adrift`, its
  handler having failed between the two.
- `AcknowledgedIsStored`: `TimeSpec => []AckedIsStored`. An upsert may replace a row,
  only by one of the same event in the same table.

*Assumptions.* `ClockAssumption` and `ContactAssumption`: the clock's width is more than
twice a hold, its grace and a late poll, and more than a debounce and a late poll.
`TornAssumption`: half a record is not a record. `EventTimeAssumption`: a second is no
longer than FUTURE_TOLERANCE_MS, and time begins with the first whole second. The others
say what type a constant has.

*Induction.* The provers cannot use the library's induction theorems, which take a
predicate as a parameter. Where the argument is an induction (the first bad record of a
file, the places computed backwards by `boundUnknowns`, the maximum of a set) the proofs
take the least counterexample instead, which `LeastNatural` gives from the well-foundedness
of the naturals.

*Only model-checked*: liveness (`StrikeRelocks`, `LedCorrected`, `Delivered`,
`Converges`, `FollowsBackend`, `RestartSettles`, `Settles`, `Recovers`,
`SetupCloses`, `Belongs`), since neither fairness nor ENABLED is within the proof
system's reach. No module declares a RECURSIVE operator.

## Where code and documents disagree

One disagreement is a run of its own, expected to find its property violated
(`PROJECT.json` "findings"):

- **Overlapping revision bumps are not harmless** (`RosterSyncOverlap`).
  admin.ts:800-801 has it that a duplicate bump only makes doors fetch again. A
  bump that read an old revision and writes late puts the revision back to a number
  a door has already seen, and that door is never sent the last change.

Thirteen more can be reproduced with the configurations named:

- **A rewrite of the spool can lose it** (`EventLogLostRename`).
  `EventLog::compact` removes the file before it renames the copy
  (EventLog.cpp:219); power lost between the two loses every event that had not
  been uploaded. EventLog.h:127-129 has it that a record is discarded only once the
  backend holds it.
- **A rename that fails hides what comes after it** (`EventLogPassed`). When
  `EventLog::compact` has removed the file and cannot rename its copy, it returns
  (EventLog.cpp:220) with the cursors where they were. Up to there, what the new file is
  given counts as confirmed and is never uploaded, against the same promise.
- **A forced door goes unreported after 25 days without a release**
  (`DoorContactStale`). The signed comparison with `gReleaseUntil` (main.cpp:449)
  turns round half a wrap later, and `gReleaseArmed` is never cleared.
- **A saved setting swallows a forced opening** (`DoorContactReload`). `begin()`
  (main.cpp:1509) takes the door as it finds it: one that opened before the poll, or
  whose opening was being debounced, is not reported forced.
- **A cut between remove and rename brings back the old firmware's list**
  (`RosterSyncCut`). The boot takes the missing file for a first upgrade
  (Roster.cpp:162, against Roster.h:19-21).
- **A door's row that cannot be read empties its list** (`RosterSyncBlank`). `getDoor`
  answers a failed read like an unknown door, so the list is worked out as empty
  (storage.ts:158) and sent under the revision in force. Nobody gets in, and no later
  sync puts it right until the next change. A revision that cannot be read is 0
  (storage.ts:76), and a bump on top of that sets it back to 1.
- **Overlapping releases open the door twice** (`ReleaseTwice`). Two operators
  whose handlers interleave leave one release in the feed and the other in the row;
  the door remembers only the last id, so the two paths present them in turn until
  they expire, against admin.ts:528 and CloudSync.cpp:787-788.
- **A restart request may be cleared unseen** (`RestartOvertaken`). One made between a
  handler's reading of the row (sync.ts:115) and its update (sync.ts:189) goes with the
  earlier one that the door has reported done.
- **A retried batch may be stored twice** (`EventTimeRetry`). A retry that carries
  one event more places an event without a clock elsewhere, hence under another row
  key, though storage.ts:375-377 and sync.ts:81-83 call the retry harmless.
- **A handler that fails half way files an event twice** (`EventTimeAdrift`). One that
  has stored events and not yet the start they were dated from (sync.ts:111-189) leaves
  the retry to date them from another, which is what sync.ts:55-58 sets out to prevent.
- **A door moved to another backend may keep the old list** (`PairedElsewhere`). If
  the two backends' revisions are equal, none is sent, though
  cloud/api/README.md:235 says the first sync replaces the list wholesale.
- **A slow network may never be joined again** (`SlowRejoin`). `loop()` calls
  `WiFi.reconnect()` every 5 s (WiFiManager.cpp:667), which by the comment at 646-647
  fights whatever is in flight. If it begins the join anew, as `Reconnecting` allows, one
  that takes longer does not finish. `Recovers` excepts it (`SlowToJoin`).
- **An untried network may be stored** (`StaleJoin`). `loop()` begins an attempt and
  looks at it in one pass (WiFiManager.cpp:648). If the driver still calls the old link
  connected, the candidate is saved and reported as joined at once, where 527 has it that
  only a network that was joined is "worth keeping".

Others were met while modelling. The models contain the behaviour; the
properties that hold state it as an exception, unless the last column names a constant:

| Where | What | In the model |
|---|---|---|
| `main.cpp:1483-1486` | a grant between loop()'s test of an old deadline and its drop is cut short, though README.md:207-208 promises the hold | `fresh` in `FreshGrantHeld` |
| `main.cpp:183-184`, `1483` | a deadline of exactly 0 means "none": once per wrap, for one millisecond, a grant's strike stays energised until the next | `zeroed` in every DoorRelay property |
| `CloudSync.cpp:983-985`, `595`, `758`, `1002` | idle is checked before the download (minutes) or the restart; a grant given after that is cut | `late` in `RestartSparesRelease` |
| `main.cpp:1524-1528` | a verdict's end sets the light from the window only: idle while a later release is still running | `LedCorrected` asks for the stale light only |
| `main.cpp:282`, `1518-1519` | with no display the red light of a denied tap stays until the next grant | `OledOk`, TRUE in the runs |
| `DoorContact.cpp:33,39` | "forced" is judged after the debounce, not when the door opened, as README.md:222 has it; an opening just before the release ends is called forced | `ForcedUnreleased` speaks of the report |
| `EventLog.cpp:74-75` | a torn fragment is cut off only when whole records follow it; EventLog.h:27-28 says it is trimmed. Later records are out of step and unreadable until the next trim discards them | `AppendTorn`; such records are `exposed` |
| `EventLog.cpp:213-214` | compact ignores the result of writing its copy: on a full filesystem the rest is lost | `Copy` and `FsCap`; what is lost is `exposed` |
| `EventLog.cpp:220`, `226` | the NVS cursor outlives the prefix it counted if power fails between rename and reset | `Crash` at `compactCursor`; `exposed` |
| `EventLog.cpp:96`, `108-112` | a full spool with a torn half in it moves the cursor past what can be read, and `ack` stores it; after a trim the one in NVS lies beyond the file and later records count as confirmed at the next boot | `exposed` in `CursorsCovered` |
| `EventLog.cpp:108-110`, `133-139` | an append that fails on a full filesystem has already treated the oldest record as confirmed | `MakeRoom`, in `dropped` |
| `Roster.cpp:204-249` | edits on an unpaired door leave the revision; unpair, edit, pair, and the edited list passes for the backend's (Roster.h:117) | `mark`, the exception in `Faithful` and `Converges` |
| `entraSweep.ts:181-205` | a sweep that stops after revoking and before the bump is not made good by the next, which skips that person | `WritersFail`; `recent` in `Current` keeps every list the backend has had under its revision |
| `storage.ts:126-127`, `sync.ts:111` | a validFrom or validTo that passes changes the list and not the revision | `Expires`; `recent` likewise |
| `CloudSync.cpp:402-403`, `Roster.cpp:296-299` | a failed save leaves the list in force and reported as held; flash catches up only with the next change | `SaveFails`; `Faithful` is about lists under the current revision |
| `UnlockSchedule.cpp:17-24` | loop() may read a mix of two schedules; UnlockSchedule.h:14-15 calls that benign | `SetField` and `Loop` interleave |
| `Roster.cpp:163` | a rename that fails leaves no roster, like a cut before it | `SaveRenameFails`; `gone` |
| `publish-firmware.ts:24` | a `--force` publication interrupted between image and record leaves the old record over the new bytes, which no door accepts; the comment calls the old offer intact | `NeverMissing` asks that the image is there, `AsOffered` excepts forced versions |
| `WiFiManager.cpp:516-519`, `527` | a power cut during a change of network comes back on the new one, the comment says; it is saved only once joined | `ChangeJoined` saves; `KeptWorks` |
| `WiFiManager.cpp:78-79` | name and password are two writes; a cut between them leaves the new name with the old password | `TornSave`, the exception in `KeptWorks` |
| `WiFiManager.cpp:499` | "left alone" while the page is in use, but an attempt in flight when it was loaded may still end in a restart | the exception in `LeftAlone` |
| `CloudSync.cpp:104-112` | a cut between the host's write and the key's keeps the old key under the new host | `halfMoved`, the exception in `KeyIsAccepted` |
| `enroll.ts`, `auth.ts` | an enroll handler that outlives its call overwrites a newer key: the door says it is paired, and is refused from then on | `KeyIsAccepted` asks only that the backend's key is that one or a later |

LittleFS commits a file's size when it is closed, so fragments left by power loss
may be rarer on the device than `AppendTorn` allows; a write cut short by a full
filesystem leaves one as well.

## Not modelled

- *Inside modelled components.* DoorRelay: the OLED's text, the buzzer, the 1.5 s
  filter by which readerTask ignores a credential it has just seen (a tap dropped by
  a full queue is filtered when repeated, main.cpp:389). DoorContact: how long a
  door was open, which only words a message. EventLog: a trim whose files
  cannot be opened (EventLog.cpp:77). RosterSync: the hash search, the limit of 512
  entries, a door with no filesystem. UnlockSchedule: unpairing; and
  nothing forbids the mix of two schedules that loop() may read while `set()`
  writes (UnlockSchedule.cpp:19). RemoteCommands: the text of requests, TLS, the
  spacing of retries, more than one handler that outlives its call at a time.
  EventTime: two handlers of one door at once, an erased flash and its boot counter, the repair
  tool. NetworkChange: mDNS, the captive DNS, scans; a join is assumed to take
  longer than one pass of loop(). Pairing: how a key is hashed. Entra sweep: how the
  directory's answers are read.
- *PaxtonReader.* Two interrupts append bits that `poll` takes once the line has
  been quiet. A model of it needs the lines' timing, the interrupts' share of the
  buffer and the parity of frames, and readerTask's filter beside it.
- *Composition.* `RemoteCommands` and `DoorRelay` meet at the queue, `EventLog` and
  `EventTime` at the batch, and each has the other's half as a few actions.
- *Reports, admin sign-in, web pages and app, display, settings, identity*: reads,
  text and typed storage, with no protocol to get wrong.
- *Operator tools* other than publish-firmware: run by hand, once. *Hardware*: no
  code.

## Plan

Modelled, in this order, because each rests on those before it: the strike, the
spool, the roster, the contact, the schedule; then commands, the time of events,
firmware, the network, pairing. Left:

1. Bounds on what the exceptions cost, as theorems: how often a forgotten release can
   open the door before it expires (never late is proved), which records one fault can
   expose, how long a revision stays `reused`.
2. The steps that liveness rests on, as invariants that can be proved: at every place a
   task of the door may be, one of the actions its fairness speaks of can be taken.
3. `RemoteCommands` composed with `DoorRelay`: a release confirmed as done and
   the strike that opened for it.
4. `ReaderFrames` (PaxtonReader) with readerTask's filter.
