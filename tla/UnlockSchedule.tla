---------------------------- MODULE UnlockSchedule ----------------------------
(***************************************************************************)
(* lib/UnlockSchedule: the weekly window in which the door stands          *)
(* unlocked, and the ways it is set.                                       *)
(*                                                                         *)
(* set() writes four fields one by one and then the same four to NVS,      *)
(* while loop(), a different task, may ask isActiveNow() between any two   *)
(* of those writes, and power may fail between any two.  The door's own    *)
(* page calls set() until the door is paired; from then on the             *)
(* configuration handler does, whenever a sync delivers a schedule other   *)
(* than the one in RAM.                                                    *)
(*                                                                         *)
(* A week is Days days of Minutes minutes (7 and 1440 in the code).        *)
(* Names that DoorRelay has too carry the word Schedule here.              *)
(***************************************************************************)
EXTENDS Integers, Sequences

CONSTANTS
  Days,         \* days in a week
  Minutes,      \* minutes in a day
  Offers,       \* schedules the backend may hold for the door
  CrashAt,      \* the values of pc at which power may fail
  MaxChanges,   \* bound: new schedules, at the backend or on the door's page
  MaxCrashes    \* bound: power failures

ASSUME WeekAssumption ==
  /\ Days \in Nat \ {0} /\ Minutes \in Nat \ {0}
  /\ MaxChanges \in Nat /\ MaxCrashes \in Nat

VARIABLES
  ram,          \* _enabled, _startMin, _endMin, _daysMask
  nvs,          \* the same four in NVS
  next,         \* the arguments of the set() in progress
  pc,           \* the next of set()'s eight writes; 0 = none
  paired,       \* is the door managed by the backend?
  want,         \* the schedule the backend holds for this door
  clock,        \* minute of the week
  timeValid,    \* has the clock been set since boot?
  active,       \* gSchedActive: what loop() last made of it
  changes, crashes

fields  == <<ram, nvs, next, pc>>
backend == <<paired, want>>
time    == <<clock, timeValid>>
scheduleBounds == <<changes, crashes>>
scheduleVars == <<fields, backend, time, active, scheduleBounds>>

DaySet == 0 .. Days - 1
Schedules == [en : BOOLEAN, start : 0 .. Minutes - 1, end : 0 .. Minutes - 1,
              days : SUBSET DaySet]

ASSUME OffersAssumption == Offers \subseteq Schedules

\* The backend checks the numbers it takes; the door's own page does not.
Requests == [en : BOOLEAN, start : 0 .. Minutes, end : 0 .. Minutes, days : SUBSET DaySet]

\* The writes of set(), in order: four to RAM, then save()'s four to NVS.
Fields == <<"en", "start", "end", "days">>
FieldOf(k) == Fields[((k - 1) % 4) + 1]
Idle == 0

ScheduleTypeOK ==
  /\ ram \in Schedules /\ nvs \in Schedules /\ next \in Schedules
  /\ want \in Schedules /\ paired \in BOOLEAN /\ pc \in 0 .. 8
  /\ clock \in 0 .. Days * Minutes - 1
  /\ timeValid \in BOOLEAN /\ active \in BOOLEAN
  /\ changes \in 0 .. MaxChanges /\ crashes \in 0 .. MaxCrashes

-----------------------------------------------------------------------------
(* isActiveNow.                                                            *)

\* Mutant: the morning half is looked up under its own day.
ActiveSameDay(s, day, cur) ==
  IF s.start < s.end
    THEN day \in s.days /\ cur >= s.start /\ cur < s.end
    ELSE day \in s.days /\ (cur >= s.start \/ cur < s.end)

\* An overnight window (start after end) belongs to the day it starts on.
Active(s, day, cur) ==
  LET yesterday == (day + Days - 1) % Days IN
  IF s.start < s.end
    THEN day \in s.days /\ cur >= s.start /\ cur < s.end
    ELSE (day \in s.days /\ cur >= s.start) \/ (yesterday \in s.days /\ cur < s.end)

IsActiveNow(s) ==
  /\ s.en /\ s.days # {} /\ s.start # s.end
  /\ timeValid                       \* fail secure: unknown time = locked
  /\ Active(s, clock \div Minutes, clock % Minutes)

\* loop() acts on the answer.
Evaluate ==
  /\ active' = IsActiveNow(ram)
  /\ UNCHANGED <<fields, backend, time, scheduleBounds>>

-----------------------------------------------------------------------------
(* set() and save().                                                       *)

Clamp(m) == IF m < Minutes THEN m ELSE Minutes - 1

Clamped(r) == [r EXCEPT !.start = Clamp(@), !.end = Clamp(@)]

Set(schedule) ==
  /\ pc = Idle /\ pc' = 1
  /\ next' = Clamped(schedule)

\* Mutant: the handler compares the times and forgets the days.
ConfigSyncTimesOnly ==
  /\ paired /\ [want EXCEPT !.days = ram.days] # ram
  /\ Set(want)
  /\ UNCHANGED <<ram, nvs, backend, time, active, scheduleBounds>>

\* A sync delivers the backend's schedule, and it is not the one in RAM.
ConfigSync ==
  /\ paired /\ want # ram
  /\ Set(want)
  /\ UNCHANGED <<ram, nvs, backend, time, active, scheduleBounds>>

\* refuseIfManaged: a paired door takes its roster and schedule from the backend.
Managed == paired

\* The door's own page.
PageSet ==
  /\ ~Managed
  /\ changes < MaxChanges /\ changes' = changes + 1
  /\ \E r \in Requests : Set(r)
  /\ UNCHANGED <<ram, nvs, backend, time, active, crashes>>

SetField ==
  /\ pc \in 1 .. 4 /\ pc' = pc + 1
  /\ ram' = [ram EXCEPT ![FieldOf(pc)] = next[FieldOf(pc)]]
  /\ UNCHANGED <<nvs, next, backend, time, active, scheduleBounds>>

SaveField ==
  /\ pc \in 5 .. 8 /\ pc' = (pc + 1) % 9
  /\ nvs' = [nvs EXCEPT ![FieldOf(pc)] = ram[FieldOf(pc)]]
  /\ UNCHANGED <<ram, next, backend, time, active, scheduleBounds>>

-----------------------------------------------------------------------------
(* The world.                                                              *)

Minute ==
  /\ clock' = (clock + 1) % (Days * Minutes)
  /\ UNCHANGED <<fields, backend, timeValid, active, scheduleBounds>>

\* SNTP sets the clock.
ClockSet ==
  /\ ~timeValid /\ timeValid' = TRUE
  /\ UNCHANGED <<fields, backend, clock, active, scheduleBounds>>

\* The admin app stores another schedule for the door.
Change ==
  /\ changes < MaxChanges /\ changes' = changes + 1
  /\ want' \in Offers
  /\ UNCHANGED <<fields, paired, time, active, crashes>>

\* Pairing is a request to the web server too, so it never overlaps PageSet.
Pair ==
  /\ ~paired /\ pc = Idle /\ paired' = TRUE
  /\ UNCHANGED <<fields, want, time, active, scheduleBounds>>

\* Power fails; begin() reads what NVS holds, and the time is unknown again.
Restart ==
  /\ pc \in CrashAt /\ crashes < MaxCrashes /\ crashes' = crashes + 1
  /\ ram' = nvs /\ pc' = Idle /\ next' = nvs
  /\ timeValid' = FALSE /\ active' = FALSE
  /\ UNCHANGED <<nvs, backend, clock, changes>>

Default == [en |-> FALSE, start |-> 0, end |-> 0, days |-> {}]

ScheduleInit ==
  /\ ram = Default /\ nvs = Default /\ next = Default
  /\ pc = Idle /\ want \in Offers /\ paired \in BOOLEAN
  /\ clock = 0 /\ timeValid = FALSE /\ active = FALSE
  /\ changes = 0 /\ crashes = 0

Setting == ConfigSync \/ SetField \/ SaveField

ScheduleNext == Setting \/ PageSet \/ Evaluate \/ Minute \/ ClockSet \/ Change \/ Pair \/ Restart

ScheduleSpec == ScheduleInit /\ [][ScheduleNext]_scheduleVars

\* The cloudsync task polls and runs the handler for ever.
FairScheduleSpec == ScheduleSpec /\ WF_scheduleVars(Setting)

-----------------------------------------------------------------------------
(* What the schedule promises.                                             *)

\* The minutes of the week a schedule covers: from start, for the length of the
\* window, on each of its days.
Window(s) ==
  LET length == (s.end - s.start + Minutes) % Minutes
  IN  {(d * Minutes + s.start + k) % (Days * Minutes) : d \in s.days, k \in 0 .. length - 1}

(* isActiveNow's cases for daytime and overnight windows say exactly whether the
   minute lies in a window that started on one of the schedule's days.      *)
ActiveIsWindow == timeValid => (IsActiveNow(ram) <=> ram.en /\ clock \in Window(ram))

(* Whatever the door's page left in it, and however often power fails between
   two of the writes, a paired door ends up with the backend's schedule, in RAM
   and in NVS.                                                              *)
FollowsBackend == <>[](paired => pc = Idle /\ ram = nvs /\ ram = want)

=============================================================================
