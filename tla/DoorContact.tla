----------------------------- MODULE DoorContact ------------------------------
(***************************************************************************)
(* lib/DoorContact and the part of src/main.cpp that feeds it: is the door *)
(* forced, is it held open?                                                *)
(*                                                                         *)
(* A reed contact says whether the door is open.  loop() reads it every    *)
(* 100 ms or so, works out whether a release or an unlock window is in     *)
(* effect, and gives both to the decision machine door, which debounces    *)
(* the contact and reports FORCED, HELD and HELD_CLOSED.  Releases are     *)
(* written by accessTask, in two steps a poll can fall between, and by     *)
(* loop() itself when a window ends.                                       *)
(*                                                                         *)
(* An iteration of loop() is one step here (DoorRelay takes it apart).     *)
(* How long a door was open (_openedAt, _lastOpenMs) only words a message  *)
(* and is left out; a time that is not being read (pendingSince with       *)
(* nothing pending, heldFrom with nothing timed) is written as 0.          *)
(***************************************************************************)
EXTENDS Integers

CONSTANTS
  Width,        \* millis() wraps at this value (2^32 in the code)
  Debounce,     \* DEBOUNCE_MS (150 ms), in ticks
  HeldLimit,    \* the held-open limit, in ticks; 0 = no alarm
  Hold,         \* gRelayHoldMs, in ticks
  Grace,        \* DOOR_RELEASE_GRACE_MS (2 s), in ticks
  MaxLag,       \* ticks that may pass between two iterations of loop()
  MaxFlips,     \* bound: times the unlock window opens or closes
  MaxReloads    \* bound: times the contact's settings are saved

ASSUME ContactAssumption ==
  /\ Width \in Nat \ {0} /\ Debounce \in Nat /\ HeldLimit \in Nat
  /\ Hold \in Nat \ {0} /\ Grace \in Nat /\ MaxLag \in Nat \ {0}
  /\ MaxFlips \in Nat /\ MaxReloads \in Nat
  /\ 2 * (Hold + Grace + MaxLag) < Width
  /\ Debounce + MaxLag < Width /\ HeldLimit + MaxLag < Width

VARIABLES
  millis,       \* the hardware clock
  raw,          \* the contact reads open right now
  door,         \* DoorContact's fields
  relayOffAt,   \* when loop() drops the relay; 0 = no release in progress
  releaseUntil, \* gReleaseUntil: an opening before this counts as released
  releaseArmed, \* gReleaseArmed: releaseUntil means something
  granting,     \* accessTask is between the two halves of a grant
  sched,        \* gSchedActive
  reload,       \* gDoorReload: loop() is asked to start the machine afresh
  lag,          \* ticks since the last iteration of loop()
  flips, reloads,
  cover,        \* history: ticks an opening still counts as released
  age,          \* history: ticks since releaseUntil was written, while Recent
  bare,         \* history: ticks the contact has read open with no release, and
                \* the machine has been left to watch it
  bareOpening,  \* history: it has read open, unreleased, since the door was closed
  restarted     \* history: the machine has been started afresh since it read open

release == <<relayOffAt, releaseUntil, releaseArmed>>
history == <<cover, age, bare, bareOpening, restarted>>
bounds  == <<flips, reloads>>
vars == <<millis, raw, door, release, granting, sched, reload, lag, bounds, history>>

Ms == 0 .. Width - 1
Slack == Debounce + 3 * MaxLag
Enough == HeldLimit + Slack + 1

Doors == [open : BOOLEAN, pending : BOOLEAN, pendingSince : Ms, heldTiming : BOOLEAN,
          heldFrom : Ms, heldReported : BOOLEAN, forced : BOOLEAN]

TypeOK ==
  /\ millis \in Ms /\ relayOffAt \in Ms /\ releaseUntil \in Ms
  /\ door \in Doors
  /\ raw \in BOOLEAN /\ releaseArmed \in BOOLEAN /\ granting \in BOOLEAN
  /\ sched \in BOOLEAN /\ reload \in BOOLEAN
  /\ lag \in 0 .. MaxLag /\ flips \in 0 .. MaxFlips /\ reloads \in 0 .. MaxReloads
  /\ cover \in 0 .. Hold + Grace /\ age \in 0 .. Width + Grace
  /\ bare \in 0 .. Enough /\ bareOpening \in BOOLEAN /\ restarted \in BOOLEAN

-----------------------------------------------------------------------------
(* The clock.                                                              *)

After(d) == (millis + d) % Width

\* (long)(millis() - t) >= 0.
Expired(t) == 2 * ((millis - t) % Width) < Width

Elapsed(t) == (millis - t) % Width

-----------------------------------------------------------------------------
(* The decision machine: DoorContact::begin and update.                    *)

NotPending(d) == [d EXCEPT !.pending = FALSE, !.pendingSince = 0]
TimedFromNow(d) == [d EXCEPT !.heldTiming = TRUE, !.heldFrom = millis]
NotTimed(d) == [d EXCEPT !.heldTiming = FALSE, !.heldFrom = 0]

\* Found open: not an opening anyone saw, so not forced, but timed from now.
Begin(open) ==
  [open |-> open, pending |-> FALSE, pendingSince |-> 0, heldTiming |-> open,
   heldFrom |-> IF open THEN millis ELSE 0, heldReported |-> FALSE, forced |-> FALSE]

\* A change of the contact must last Debounce, as seen by the polls.
Changed(d) == raw # d.open /\ d.pending /\ Elapsed(d.pendingSince) >= Debounce

Debounced(d) ==
  IF raw = d.open THEN NotPending(d)
  ELSE IF ~d.pending THEN [d EXCEPT !.pending = TRUE, !.pendingSince = millis]
  ELSE IF Changed(d) THEN [NotPending(d) EXCEPT !.open = raw]
  ELSE d

\* An opening is forced unless something released it; a forced door is timed
\* from there.
Opened(d, authorised) ==
  LET o == [d EXCEPT !.heldReported = FALSE, !.forced = ~authorised]
  IN  IF authorised THEN NotTimed(o) ELSE TimedFromNow(o)

Closed(d) == [NotTimed(d) EXCEPT !.heldReported = FALSE, !.forced = FALSE]

\* Mutant: the held-open clock starts again at every poll.
TimedAgain(d, authorised) == IF authorised THEN NotTimed(d) ELSE TimedFromNow(d)

\* While open, time runs only with no release in effect.
Timed(d, authorised) ==
  IF authorised THEN NotTimed(d)
  ELSE IF d.heldTiming THEN d ELSE TimedFromNow(d)

Overdue(d) == d.heldTiming /\ HeldLimit > 0 /\ Elapsed(d.heldFrom) >= HeldLimit

StillOpen(d, authorised) ==
  LET t == Timed(d, authorised)
  IN  IF Overdue(t) THEN [t EXCEPT !.heldReported = TRUE] ELSE t

Update(d, authorised) ==
  LET b == Debounced(d) IN
  CASE Changed(d) /\ b.open  -> Opened(b, authorised)
    [] Changed(d) /\ ~b.open -> Closed(b)
    [] ~Changed(d) /\ b.open -> StillOpen(b, authorised)
    [] OTHER                 -> b

-----------------------------------------------------------------------------
(* The world: time, the door, releases.                                    *)

Authorised == cover > 0 \/ sched

\* The deadline of the last release is less than half a wrap of the clock (24 days)
\* old: a later one looks as if it were still to come, for as long again.
Recent == releaseArmed => 2 * (age - Grace) < Width

Tick ==
  /\ lag < MaxLag /\ lag' = lag + 1
  /\ millis' = After(1)
  /\ cover' = IF cover = 0 THEN 0 ELSE cover - 1
  /\ age' = IF releaseArmed /\ Recent THEN age + 1 ELSE age
  /\ bare' = IF Authorised \/ ~raw THEN 0 ELSE IF bare = Enough THEN bare ELSE bare + 1
  /\ bareOpening' = (bareOpening /\ ~Authorised)
  /\ UNCHANGED <<raw, door, release, granting, sched, reload, bounds, restarted>>

DoorMoves ==
  /\ raw' = ~raw
  /\ bare' = 0 /\ restarted' = FALSE
  /\ bareOpening' = (raw' /\ ~door.open /\ ~Authorised)
  /\ UNCHANGED <<millis, door, release, granting, sched, reload, lag, bounds, cover, age>>

\* relayGrantedNonBlocking: the relay's deadline, then how long an opening
\* counts as released.
GrantRelay ==
  /\ ~granting /\ granting' = TRUE
  /\ relayOffAt' = After(Hold)
  /\ cover' = Hold + Grace
  /\ bare' = 0 /\ bareOpening' = FALSE
  /\ UNCHANGED <<millis, raw, door, releaseUntil, releaseArmed, sched, reload, lag,
                 bounds, age, restarted>>

GrantRelease ==
  /\ granting /\ granting' = FALSE
  /\ releaseUntil' = After(Hold + Grace) /\ releaseArmed' = TRUE
  /\ cover' = Hold + Grace
  /\ age' = 0 /\ bare' = 0 /\ bareOpening' = FALSE
  /\ UNCHANGED <<millis, raw, door, relayOffAt, sched, reload, lag, bounds, restarted>>

\* The settings page or the cloud's configuration changes a contact setting.
SaveSettings ==
  /\ reloads < MaxReloads /\ reloads' = reloads + 1
  /\ reload' = TRUE
  /\ UNCHANGED <<millis, raw, door, release, granting, sched, lag, flips, history>>

-----------------------------------------------------------------------------
(* loop(): the schedule, the relay's deadline, then the contact, "so it
   judges an opening against the release state as of this tick".           *)

\* Mutant: a window ends with no grace.
WindowOffAbrupt ==
  /\ relayOffAt' = 0 /\ cover' = Grace
  /\ UNCHANGED <<releaseUntil, releaseArmed, age>>

WindowOff ==
  /\ relayOffAt' = 0
  /\ releaseUntil' = After(Grace) /\ releaseArmed' = TRUE
  /\ cover' = Grace /\ age' = 0

RelayExpiry ==
  /\ relayOffAt' = IF relayOffAt # 0 /\ Expired(relayOffAt) THEN 0 ELSE relayOffAt
  /\ UNCHANGED <<releaseUntil, releaseArmed, cover, age>>

\* Mutant: the release deadline is believed before anything has set it.
ReleasedUnarmed == relayOffAt' # 0 \/ ~Expired(releaseUntil')

\* doorContactPoll's "released", after this iteration's changes.
Released == relayOffAt' # 0 \/ (releaseArmed' /\ ~Expired(releaseUntil'))

Poll ==
  IF reload
    THEN /\ door' = Update(Begin(raw), Released \/ sched')
         /\ bare' = 0 /\ restarted' = raw
         /\ bareOpening' = (bareOpening /\ sched' = sched)
    ELSE /\ door' = Update(door, Released \/ sched')
         /\ UNCHANGED restarted
         /\ IF sched' # sched THEN bare' = 0 /\ bareOpening' = FALSE
                              ELSE UNCHANGED <<bare, bareOpening>>

Loop(schedNow) ==
  /\ lag' = 0
  /\ IF schedNow # sched
       THEN flips < MaxFlips /\ flips' = flips + 1
       ELSE UNCHANGED flips
  /\ sched' = schedNow
  /\ IF sched /\ ~schedNow THEN WindowOff ELSE RelayExpiry
  /\ Poll
  /\ reload' = FALSE
  /\ UNCHANGED <<millis, raw, granting, reloads>>

Init ==
  /\ millis = 0 /\ raw \in BOOLEAN /\ door = Begin(raw)
  /\ relayOffAt = 0 /\ releaseUntil = 0 /\ releaseArmed = FALSE
  /\ granting = FALSE /\ sched = FALSE /\ reload = FALSE /\ lag = 0
  /\ flips = 0 /\ reloads = 0
  /\ cover = 0 /\ age = 0 /\ bare = 0 /\ bareOpening = FALSE /\ restarted = FALSE

Next ==
  \/ Tick \/ DoorMoves
  \/ GrantRelay \/ GrantRelease \/ SaveSettings
  \/ \E schedNow \in BOOLEAN : Loop(schedNow)

Spec == Init /\ [][Next]_vars

-----------------------------------------------------------------------------
(* What the contact promises.                                              *)

(* A closed door that opens with no release, and stays so for the debounce and
   two polls, is reported forced.  Two openings are not: one under which a
   saved setting starts the machine afresh, which then takes the door for one
   it found open (main.cpp:1509), and one half a wrap of the clock or more
   after the last release, which passes for released.                      *)
ForcedReported ==
  bareOpening /\ ~restarted /\ Recent /\ bare > Debounce + 2 * MaxLag => door.forced

(* A door standing open with no release past the limit is reported held, with
   the same exception of a release half a wrap old; a saved setting starts the
   count again, as it starts the machine's.                                *)
HeldReported ==
  HeldLimit > 0 /\ Recent /\ bare > HeldLimit + Slack => door.heldReported

(* A door is called forced only when no release is in effect: not in the grace
   after one, nor while a window closes.  The exception is a grant caught
   between its two statements.                                             *)
ForcedUnreleased ==
  [][~door.forced /\ door'.forced => ~(cover' > 0 \/ sched') \/ granting]_vars

=============================================================================
