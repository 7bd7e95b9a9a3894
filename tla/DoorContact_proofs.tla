--------------------------- MODULE DoorContact_proofs ---------------------------
(***************************************************************************)
(* Proofs about DoorContact, for every clock width, limit, hold and grace. *)
(*                                                                         *)
(* ForcedUnreleased speaks of the ticks an opening still counts as         *)
(* released, the code of a deadline on a clock that wraps.  Between grants *)
(* the two say the same (Covered).                                         *)
(*                                                                         *)
(* The alarms follow from OnTime: the deadlines still count what they      *)
(* counted when they were written, or have passed; a poll that is owed is  *)
(* at most MaxLag late (Behind); and until the last release is half a wrap *)
(* of the clock old its deadline reads as what it is.                      *)
(***************************************************************************)
EXTENDS DoorContact, TLAPS

ClockTyped == millis \in Ms /\ relayOffAt \in Ms /\ releaseUntil \in Ms

FlagsTyped ==
  /\ raw \in BOOLEAN /\ releaseArmed \in BOOLEAN /\ granting \in BOOLEAN
  /\ sched \in BOOLEAN /\ reload \in BOOLEAN /\ bareOpening \in BOOLEAN
  /\ restarted \in BOOLEAN

CountsTyped ==
  /\ lag \in 0 .. MaxLag /\ flips \in 0 .. MaxFlips /\ reloads \in 0 .. MaxReloads
  /\ cover \in 0 .. Hold + Grace /\ age \in 0 .. Width + Grace /\ bare \in 0 .. Enough

LEMMA TypeParts == TypeOK <=> ClockTyped /\ FlagsTyped /\ CountsTyped /\ door \in Doors
  BY DEF TypeOK, ClockTyped, FlagsTyped, CountsTyped

LEMMA AfterIsMs == ASSUME millis \in Ms, NEW d \in Nat PROVE After(d) \in Ms
  BY ContactAssumption DEF After, Ms

LEMMA InitialTypes == Init => TypeOK
<1> SUFFICES ASSUME Init PROVE TypeOK
  OBVIOUS
<1>1. ClockTyped /\ CountsTyped
  BY ContactAssumption DEF Init, ClockTyped, CountsTyped, Ms, Enough, Slack
<1>2. FlagsTyped
  BY Zenon DEF Init, FlagsTyped
<1>3. door \in Doors
  BY <1>1, <1>2 DEF Init, Begin, Doors, ClockTyped, FlagsTyped, Ms
<1>4. QED
  BY <1>1, <1>2, <1>3, TypeParts

(* The decision machine keeps its type.                                    *)
LEMMA UpdateTyped ==
  ASSUME TypeOK, NEW d \in Doors, NEW authorised \in BOOLEAN
  PROVE  Update(d, authorised) \in Doors
<1> millis \in Ms /\ raw \in BOOLEAN /\ 0 \in Ms
  BY ContactAssumption DEF TypeOK, Ms
<1>1. Debounced(d) \in Doors
  BY DEF Debounced, NotPending, Doors
<1>2. ASSUME NEW e \in Doors
      PROVE  TimedFromNow(e) \in Doors /\ NotTimed(e) \in Doors
  BY DEF TimedFromNow, NotTimed, Doors
<1>3. ASSUME NEW e \in Doors
      PROVE  Opened(e, authorised) \in Doors /\ Closed(e) \in Doors
  <2>1. [e EXCEPT !.heldReported = FALSE, !.forced = ~authorised] \in Doors
    BY DEF Doors
  <2>2. [NotTimed(e) EXCEPT !.heldReported = FALSE, !.forced = FALSE] \in Doors
    BY <1>2 DEF Doors
  <2>3. QED
    BY <1>2, <2>1, <2>2 DEF Opened, Closed
<1>4. ASSUME NEW e \in Doors PROVE StillOpen(e, authorised) \in Doors
  <2>1. Timed(e, authorised) \in Doors
    BY <1>2 DEF Timed
  <2>2. [Timed(e, authorised) EXCEPT !.heldReported = TRUE] \in Doors
    BY <2>1 DEF Doors
  <2>3. QED
    BY <2>1, <2>2 DEF StillOpen
<1>5. QED
  BY <1>1, <1>3, <1>4 DEF Update

LEMMA LoopTyped ==
  ASSUME TypeOK, NEW schedNow \in BOOLEAN, Loop(schedNow) PROVE TypeOK'
<1> ClockTyped /\ FlagsTyped /\ CountsTyped /\ door \in Doors
  BY TypeParts
<1>1. relayOffAt' \in Ms /\ releaseUntil' \in Ms /\ releaseArmed' \in BOOLEAN
      /\ cover' \in 0 .. Hold + Grace /\ age' \in 0 .. Width + Grace
  <2>1. 0 \in Ms /\ After(Grace) \in Ms
    BY AfterIsMs, ContactAssumption DEF ClockTyped, Ms
  <2>2. CASE WindowOff
    <3>1. releaseArmed' \in BOOLEAN
      BY <2>2, Zenon DEF WindowOff
    <3>2. QED
      BY <2>1, <2>2, <3>1, ContactAssumption DEF WindowOff
  <2>3. CASE RelayExpiry
    BY <2>1, <2>3 DEF RelayExpiry, ClockTyped, FlagsTyped, CountsTyped
  <2>4. QED
    BY <2>2, <2>3 DEF Loop
<1>2. sched' \in BOOLEAN /\ reload' \in BOOLEAN /\ UNCHANGED <<raw, granting>>
  BY Zenon DEF Loop
<1>3. bare' \in 0 .. Enough
  BY ContactAssumption DEF Loop, Poll, CountsTyped, Enough, Slack
<1>4. bareOpening' \in BOOLEAN /\ restarted' \in BOOLEAN
  <2>1. bareOpening' \in {FALSE, bareOpening, bareOpening /\ sched' = sched}
        /\ restarted' \in {raw, restarted}
    BY DEF Loop, Poll
  <2>2. (bareOpening /\ sched' = sched) \in BOOLEAN
    BY Zenon
  <2>3. QED
    BY <2>1, <2>2 DEF FlagsTyped
<1>5. (Released \/ sched') \in BOOLEAN
  BY Zenon DEF Released
<1>6. Begin(raw) \in Doors
  BY ContactAssumption DEF Begin, Doors, ClockTyped, FlagsTyped, Ms
<1>7. door' \in Doors
  BY <1>5, <1>6, UpdateTyped DEF Loop, Poll
<1>8. lag' \in 0 .. MaxLag /\ flips' \in 0 .. MaxFlips /\ reloads' = reloads /\ millis' = millis
  BY ContactAssumption DEF Loop, CountsTyped
<1>9. ClockTyped' /\ FlagsTyped' /\ CountsTyped'
  BY <1>1, <1>2, <1>3, <1>4, <1>8 DEF ClockTyped, FlagsTyped, CountsTyped, Ms, Enough, Slack
<1>10. QED
  BY <1>7, <1>9 DEF TypeOK, ClockTyped, FlagsTyped, CountsTyped, Doors, Ms

LEMMA WorldTyped ==
  ASSUME TypeOK, Tick \/ DoorMoves \/ GrantRelay \/ GrantRelease \/ SaveSettings
  PROVE  TypeOK'
<1> ClockTyped /\ FlagsTyped /\ CountsTyped /\ door \in Doors
  BY TypeParts
<1>1. \A d \in Nat : After(d) \in Ms
  BY AfterIsMs DEF ClockTyped
<1>2. UNCHANGED door
  BY DEF Tick, DoorMoves, GrantRelay, GrantRelease, SaveSettings
<1>3. ClockTyped'
  BY <1>1, ContactAssumption
     DEF Tick, DoorMoves, GrantRelay, GrantRelease, SaveSettings, release, ClockTyped, Ms
<1>4. FlagsTyped'
  BY Zenon DEF Tick, DoorMoves, GrantRelay, GrantRelease, SaveSettings, release, history,
     FlagsTyped
<1>5. CountsTyped'
  BY ContactAssumption DEF Tick, DoorMoves, GrantRelay, GrantRelease, SaveSettings,
     bounds, history, CountsTyped, Enough, Slack, Recent, FlagsTyped
<1>6. QED
  BY <1>2, <1>3, <1>4, <1>5 DEF TypeOK, ClockTyped, FlagsTyped, CountsTyped, Doors, Ms

LEMMA TypeStep == TypeOK /\ [Next]_vars => TypeOK'
<1>1. ASSUME TypeOK, UNCHANGED vars PROVE TypeOK'
  BY <1>1 DEF vars, release, history, bounds, TypeOK, Doors, Ms, Enough, Slack
<1>2. QED
  BY <1>1, LoopTyped, WorldTyped DEF Next

(* Every variable keeps its type, the decision machine's fields included.  *)
THEOREM TypeCorrect == Spec => []TypeOK
  BY InitialTypes, TypeStep, PTL DEF Spec

-----------------------------------------------------------------------------
(* Between grants, while an opening counts as released, the deadline is    *)
(* exactly as far ahead as the count says.                                 *)
Covered == cover > 0 /\ ~granting => releaseArmed /\ releaseUntil = After(cover)

LEMMA ModLow == ASSUME NEW x \in Int, 0 <= x, x < Width PROVE x % Width = x
  BY ContactAssumption

LEMMA ModNegative == ASSUME NEW x \in Int, -Width <= x, x < 0 PROVE x % Width = x + Width
  BY ContactAssumption

LEMMA ModWrapped ==
  ASSUME NEW x \in Int, Width <= x, x < 2 * Width PROVE x % Width = x - Width
<1>1. \A q \in Int : q >= 2 => Width * q >= 2 * Width
  BY ContactAssumption
<1>2. \A q \in Int : q <= 0 => Width * q <= 0
  BY ContactAssumption
<1>3. QED
  BY <1>1, <1>2, ContactAssumption, Z3

(* A deadline less than half a wrap ahead has not been met.                *)
LEMMA NotMet ==
  ASSUME millis \in Ms, NEW d \in Nat, 0 < d, 2 * d < Width PROVE ~Expired(After(d))
<1>1. millis \in Int /\ 0 <= millis /\ millis < Width
  BY ContactAssumption DEF Ms
<1>2. CASE millis + d < Width
  <2>1. After(d) = millis + d
    BY <1>1, <1>2, ModLow, ContactAssumption DEF After
  <2>2. (millis - (millis + d)) % Width = Width - d
    BY <1>1, ModNegative, ContactAssumption
  <2>3. QED
    BY <2>1, <2>2, ContactAssumption DEF Expired
<1>3. CASE millis + d >= Width
  <2>1. After(d) = millis + d - Width
    BY <1>1, <1>3, ModWrapped, ContactAssumption DEF After
  <2>2. (millis - (millis + d - Width)) % Width = Width - d
    BY <1>1, ModLow, ContactAssumption
  <2>3. QED
    BY <2>1, <2>2, ContactAssumption DEF Expired
<1>4. QED
  BY <1>1, <1>2, <1>3, ContactAssumption

(* A tick brings a deadline one tick nearer.                               *)
LEMMA TickNearer ==
  ASSUME millis \in Ms, NEW d \in Nat, 0 < d, d < Width, millis' = After(1)
  PROVE  (millis' + (d - 1)) % Width = After(d)
<1>1. millis \in Int /\ 0 <= millis /\ millis < Width
  BY ContactAssumption DEF Ms
<1>2. CASE millis + 1 < Width
  BY <1>1, <1>2, ModLow DEF After
<1>3. CASE millis + 1 = Width
  <2>1. millis' = 0
    BY <1>1, <1>3, ModWrapped, ContactAssumption DEF After
  <2>2. After(d) = d - 1
    BY <1>1, <1>3, ModWrapped, ContactAssumption DEF After
  <2>3. (d - 1) % Width = d - 1
    BY ModLow, ContactAssumption
  <2>4. QED
    BY <2>1, <2>2, <2>3
<1>4. QED
  BY <1>1, <1>2, <1>3, ContactAssumption

LEMMA CoveredStep == TypeOK /\ Covered /\ [Next]_vars => Covered'
<1> SUFFICES ASSUME TypeOK, Covered, [Next]_vars PROVE Covered'
  OBVIOUS
<1> cover \in 0 .. Hold + Grace /\ millis \in Ms /\ Hold + Grace < Width
  BY ContactAssumption DEF TypeOK
<1>1. CASE UNCHANGED vars \/ DoorMoves \/ SaveSettings
  BY <1>1 DEF vars, DoorMoves, SaveSettings, release, history, Covered, After
<1>2. CASE Tick
  <2>1. CASE cover = 0
    BY <1>2, <2>1 DEF Tick, Covered
  <2>2. CASE cover > 0
    <3>1. cover' = cover - 1 /\ millis' = After(1) /\ UNCHANGED <<release, granting>>
      BY <1>2, <2>2 DEF Tick
    <3>2. (millis' + (cover - 1)) % Width = After(cover)
      BY <2>2, <3>1, TickNearer, ContactAssumption
    <3>3. QED
      BY <2>2, <3>1, <3>2 DEF Covered, After, release
  <2>3. QED
    BY <2>1, <2>2
<1>3. CASE GrantRelay \/ GrantRelease
  BY <1>3 DEF GrantRelay, GrantRelease, Covered, After
<1>4. ASSUME NEW schedNow \in BOOLEAN, Loop(schedNow) PROVE Covered'
  BY <1>4 DEF Loop, WindowOff, RelayExpiry, Covered, After
<1>5. QED
  BY <1>1, <1>2, <1>3, <1>4 DEF Next

(* The machine calls a door forced only on an unauthorised opening.        *)
LEMMA ForcedOnlyOpening ==
  ASSUME NEW d \in Doors, NEW authorised \in BOOLEAN, Update(d, authorised).forced,
         TypeOK
  PROVE  d.forced \/ ~authorised
<1> millis \in Ms /\ raw \in BOOLEAN /\ 0 \in Ms
  BY ContactAssumption DEF TypeOK, Ms
<1>1. Debounced(d) \in Doors /\ Debounced(d).forced = d.forced
  BY DEF Debounced, NotPending, Doors
<1>2. ASSUME NEW e \in Doors
      PROVE  /\ TimedFromNow(e) \in Doors /\ TimedFromNow(e).forced = e.forced
             /\ NotTimed(e) \in Doors /\ NotTimed(e).forced = e.forced
  BY DEF TimedFromNow, NotTimed, Doors
<1>3. ASSUME NEW e \in Doors, authorised PROVE ~Opened(e, authorised).forced
  <2>1. [e EXCEPT !.heldReported = FALSE, !.forced = ~authorised] \in Doors
        /\ ~[e EXCEPT !.heldReported = FALSE, !.forced = ~authorised].forced
    BY <1>3 DEF Doors
  <2>2. QED
    BY <1>2, <1>3, <2>1 DEF Opened
<1>4. ASSUME NEW e \in Doors PROVE ~Closed(e).forced
  BY <1>2 DEF Closed, Doors
<1>5. ASSUME NEW e \in Doors PROVE StillOpen(e, authorised).forced = e.forced
  <2>1. Timed(e, authorised) \in Doors /\ Timed(e, authorised).forced = e.forced
    BY <1>2 DEF Timed
  <2>2. QED
    BY <2>1 DEF StillOpen, Doors
<1>6. QED
  BY <1>1, <1>3, <1>4, <1>5 DEF Update

(* A door is called forced only when no release is in effect, nor the grace *)
(* after one, nor a window that is closing, however often the clock wraps, *)
(* but for a grant caught between its two statements.                      *)
THEOREM ForcedIsUnreleased == Spec => ForcedUnreleased
<1>1. TypeOK /\ Covered' /\ [Next]_vars
        => [~door.forced /\ door'.forced => ~(cover' > 0 \/ sched') \/ granting]_vars
  <2> SUFFICES ASSUME TypeOK, Covered', Next, ~door.forced, door'.forced,
                      TypeOK', cover' > 0 \/ sched', ~granting
               PROVE  FALSE
    BY TypeStep
  <2>1. PICK schedNow \in BOOLEAN : Loop(schedNow)
    BY DEF Next, Tick, DoorMoves, GrantRelay, GrantRelease, SaveSettings
  <2>2. (Released \/ sched') \in BOOLEAN
    BY Zenon DEF Released
  <2>3. Begin(raw) \in Doors /\ ~Begin(raw).forced
    BY ContactAssumption DEF Begin, Doors, TypeOK, Ms
  <2>4. door \in Doors
    BY DEF TypeOK
  <2>5. ~(Released \/ sched')
    BY <2>1, <2>2, <2>3, <2>4, ForcedOnlyOpening DEF Loop, Poll
  <2>6. cover' \in 0 .. Hold + Grace /\ cover' > 0 /\ ~granting' /\ millis' = millis
    BY <2>1, <2>5 DEF Loop, TypeOK
  <2>7. releaseArmed' /\ releaseUntil' = After(cover')
    BY <2>6 DEF Covered, After
  <2>8. ~Expired(After(cover'))
    BY <2>6, NotMet, ContactAssumption DEF TypeOK
  <2>9. QED
    BY <2>5, <2>7, <2>8 DEF Released
<1>2. Init => Covered
  BY DEF Init, Covered
<1>3. QED
  BY <1>1, <1>2, InitialTypes, TypeStep, CoveredStep, PTL DEF ForcedUnreleased, Spec

-----------------------------------------------------------------------------
(* No alarm is missed.  Both alarms rest on how far each deadline and each *)
(* timer can be from the truth between two polls.                          *)

LEMMA NothingElapsed == ASSUME NEW t \in Ms PROVE (t - t) % Width = 0
  BY ModLow, ContactAssumption DEF Ms

LEMMA ElapsedTyped ==
  ASSUME millis \in Ms, NEW t \in Ms PROVE Elapsed(t) \in 0 .. Width - 1
<1>1. millis \in Int /\ t \in Int /\ -Width < millis - t /\ millis - t < Width
  BY ContactAssumption DEF Ms
<1>2. CASE millis - t >= 0
  BY <1>1, <1>2, ModLow, ContactAssumption DEF Elapsed
<1>3. CASE millis - t < 0
  BY <1>1, <1>3, ModNegative, ContactAssumption DEF Elapsed
<1>4. QED
  BY <1>1, <1>2, <1>3

(* A tick makes what has elapsed one tick longer, until the clock comes    *)
(* round.                                                                  *)
LEMMA ElapsedTick ==
  ASSUME millis \in Ms, NEW t \in Ms, millis' = After(1), Elapsed(t) + 1 < Width
  PROVE  (millis' - t) % Width = Elapsed(t) + 1
<1>1. millis \in Int /\ t \in Int /\ 0 <= millis /\ millis < Width /\ 0 <= t /\ t < Width
  BY ContactAssumption DEF Ms
<1>2. CASE t <= millis
  <2>1. Elapsed(t) = millis - t
    BY <1>1, <1>2, ModLow, ContactAssumption DEF Elapsed
  <2>2. CASE millis + 1 < Width
    <3>1. millis' = millis + 1
      BY <1>1, <2>2, ModLow, ContactAssumption DEF After
    <3>2. QED
      BY <1>1, <1>2, <2>1, <3>1, ModLow, ContactAssumption
  <2>3. CASE millis + 1 = Width
    <3>1. millis' = 0
      BY <1>1, <2>3, ModWrapped, ContactAssumption DEF After
    <3>2. t > 0
      BY <1>1, <2>1, <2>3
    <3>3. (0 - t) % Width = 0 - t + Width
      BY <1>1, <3>2, ModNegative, ContactAssumption
    <3>4. QED
      BY <1>1, <2>1, <2>3, <3>1, <3>3
  <2>4. QED
    BY <1>1, <2>2, <2>3, ContactAssumption
<1>3. CASE t > millis
  <2>1. Elapsed(t) = millis - t + Width
    BY <1>1, <1>3, ModNegative, ContactAssumption DEF Elapsed
  <2>2. millis + 1 < t
    BY <1>1, <1>3, <2>1, ContactAssumption
  <2>3. millis' = millis + 1
    BY <1>1, <2>2, ModLow, ContactAssumption DEF After
  <2>4. (millis' - t) % Width = millis' - t + Width
    BY <1>1, <2>2, <2>3, ModNegative, ContactAssumption
  <2>5. QED
    BY <1>1, <2>1, <2>3, <2>4, ContactAssumption
<1>4. QED
  BY <1>1, <1>2, <1>3

(* The relay's deadline is ahead, and by less than the release it belongs  *)
(* to, or it passed after the last poll.                                   *)
RelayKept ==
  relayOffAt # 0 =>
    \/ \E k \in 1 .. Hold : relayOffAt = After(k) /\ k + Grace <= cover
    \/ Elapsed(relayOffAt) <= lag

(* The release's deadline is ahead, by no more than an opening counts as   *)
(* released, or it passed Grace ticks or more after it was written.        *)
ReleaseKept ==
  releaseArmed /\ Recent =>
    \/ \E k \in 0 .. cover : releaseUntil = After(k) /\ Grace <= age + k
    \/ Elapsed(releaseUntil) + Grace <= age

LEMMA RelayKeptStep == TypeOK /\ RelayKept /\ [Next]_vars => RelayKept'
<1> SUFFICES ASSUME TypeOK, RelayKept, [Next]_vars PROVE RelayKept'
  OBVIOUS
<1> /\ cover \in 0 .. Hold + Grace /\ millis \in Ms /\ lag \in 0 .. MaxLag
    /\ relayOffAt \in Ms /\ Hold \in Nat \ {0} /\ Grace \in Nat /\ MaxLag \in Nat
    /\ Width \in Nat /\ 2 * (Hold + Grace + MaxLag) < Width
  BY ContactAssumption DEF TypeOK
<1>1. CASE UNCHANGED vars \/ DoorMoves \/ SaveSettings
  BY <1>1 DEF vars, DoorMoves, SaveSettings, release, history, RelayKept, After, Elapsed
<1>2. CASE GrantRelease
  BY <1>2 DEF GrantRelease, RelayKept, After, Elapsed
<1>3. CASE GrantRelay
  BY <1>3 DEF GrantRelay, RelayKept, After
<1>4. CASE Tick
  <2>1. millis' = After(1) /\ lag' = lag + 1 /\ relayOffAt' = relayOffAt
        /\ cover' = IF cover = 0 THEN 0 ELSE cover - 1
    BY <1>4 DEF Tick, release
  <2>2. ASSUME NEW k \in 1 .. Hold, relayOffAt = After(k), k + Grace <= cover, k > 1
        PROVE  RelayKept'
    <3>1. After(k)' = (millis' + k) % Width /\ (millis' + (k - 1)) % Width = After(k)
      BY <2>1, <2>2, TickNearer DEF After
    <3>2. k - 1 \in 1 .. Hold /\ relayOffAt' = After(k - 1)' /\ (k - 1) + Grace <= cover'
      BY <2>1, <2>2, <3>1 DEF After
    <3>3. QED
      BY <3>2 DEF RelayKept
  <2>3. ASSUME relayOffAt = After(1) PROVE RelayKept'
    <3>1. millis' \in Ms /\ relayOffAt' = millis'
      BY <2>1, <2>3, AfterIsMs
    <3>2. (millis' - millis') % Width = 0
      BY <3>1, NothingElapsed
    <3>3. QED
      BY <2>1, <3>1, <3>2 DEF RelayKept, Elapsed
  <2>4. ASSUME Elapsed(relayOffAt) <= lag PROVE RelayKept'
    <3>1. Elapsed(relayOffAt) \in Nat /\ Elapsed(relayOffAt) + 1 < Width
      BY <2>4, ElapsedTyped
    <3>2. (millis' - relayOffAt) % Width = Elapsed(relayOffAt) + 1
      BY <2>1, <3>1, ElapsedTick
    <3>3. QED
      BY <2>1, <2>4, <3>1, <3>2 DEF RelayKept, Elapsed
  <2>5. QED
    BY <2>1, <2>2, <2>3, <2>4 DEF RelayKept
<1>5. ASSUME NEW schedNow \in BOOLEAN, Loop(schedNow) PROVE RelayKept'
  <2>1. CASE relayOffAt' = 0
    BY <2>1 DEF RelayKept
  <2>2. CASE relayOffAt' # 0
    <3>1. relayOffAt' = relayOffAt /\ ~Expired(relayOffAt) /\ UNCHANGED <<millis, cover>>
      BY <1>5, <2>2 DEF Loop, WindowOff, RelayExpiry
    <3>2. ~(Elapsed(relayOffAt) <= lag)
      BY <3>1, ElapsedTyped DEF Expired, Elapsed
    <3>3. QED
      BY <2>2, <3>1, <3>2 DEF RelayKept, After
  <2>3. QED
    BY <2>1, <2>2
<1>6. QED
  BY <1>1, <1>2, <1>3, <1>4, <1>5 DEF Next

LEMMA ReleaseKeptStep == TypeOK /\ ReleaseKept /\ [Next]_vars => ReleaseKept'
<1> SUFFICES ASSUME TypeOK, ReleaseKept, [Next]_vars PROVE ReleaseKept'
  OBVIOUS
<1> /\ cover \in 0 .. Hold + Grace /\ millis \in Ms /\ age \in Nat
    /\ releaseUntil \in Ms /\ Hold \in Nat \ {0} /\ Grace \in Nat
    /\ Width \in Nat /\ 2 * (Hold + Grace + MaxLag) < Width /\ MaxLag \in Nat
  BY ContactAssumption DEF TypeOK
<1>1. CASE UNCHANGED vars \/ DoorMoves \/ SaveSettings
  BY <1>1 DEF vars, DoorMoves, SaveSettings, release, history, ReleaseKept, After, Elapsed,
     Recent
<1>2. CASE GrantRelease
  <2>1. cover' = Hold + Grace /\ age' = 0 /\ releaseUntil' = After(Hold + Grace)'
    BY <1>2 DEF GrantRelease, After
  <2>2. QED
    BY <2>1 DEF ReleaseKept
<1>3. CASE GrantRelay
  BY <1>3 DEF GrantRelay, ReleaseKept, After, Elapsed, Recent
<1>4. CASE Tick /\ releaseArmed /\ Recent
  <2>1. /\ millis' = After(1) /\ releaseUntil' = releaseUntil /\ releaseArmed' = releaseArmed
        /\ cover' = (IF cover = 0 THEN 0 ELSE cover - 1) /\ age' = age + 1
        /\ 2 * (age - Grace) < Width
    BY <1>4 DEF Tick, release, Recent
  <2>2. ASSUME NEW k \in 1 .. cover, releaseUntil = After(k), Grace <= age + k
        PROVE  ReleaseKept'
    <3>1. After(k - 1)' = After(k)
      BY <2>1, <2>2, TickNearer DEF After
    <3>2. k - 1 \in 0 .. cover' /\ Grace <= age' + (k - 1)
      BY <2>1, <2>2
    <3>3. QED
      BY <2>1, <2>2, <3>1, <3>2 DEF ReleaseKept
  <2>3. ASSUME Elapsed(releaseUntil) + Grace <= age PROVE ReleaseKept'
    <3>1. Elapsed(releaseUntil) \in Nat /\ Elapsed(releaseUntil) + 1 < Width
      BY <2>1, <2>3, ElapsedTyped
    <3>2. (millis' - releaseUntil) % Width = Elapsed(releaseUntil) + 1
      BY <2>1, <3>1, ElapsedTick
    <3>3. QED
      BY <2>1, <2>3, <3>1, <3>2 DEF ReleaseKept, Elapsed
  <2>4. ASSUME releaseUntil = After(0), Grace <= age PROVE ReleaseKept'
    <3>1. After(0) = millis
      BY ModLow, ContactAssumption DEF After, Ms
    <3>2. Elapsed(releaseUntil) = 0
      BY <2>4, <3>1, NothingElapsed DEF Elapsed
    <3>3. QED
      BY <2>3, <2>4, <3>2
  <2>5. QED
    BY <1>4, <2>2, <2>3, <2>4 DEF ReleaseKept
<1>5. CASE Tick /\ ~(releaseArmed /\ Recent)
  BY <1>5 DEF Tick, release, ReleaseKept, Recent
<1>6. ASSUME NEW schedNow \in BOOLEAN, Loop(schedNow) PROVE ReleaseKept'
  <2>1. CASE WindowOff
    <3>1. cover' = Grace /\ age' = 0 /\ releaseUntil' = After(Grace)'
      BY <1>6, <2>1 DEF WindowOff, Loop, After
    <3>2. QED
      BY <3>1 DEF ReleaseKept
  <2>2. CASE RelayExpiry
    BY <1>6, <2>2 DEF Loop, RelayExpiry, ReleaseKept, After, Elapsed, Recent
  <2>3. QED
    BY <1>6, <2>1, <2>2 DEF Loop
<1>7. QED
  BY <1>1, <1>2, <1>3, <1>4, <1>5, <1>6 DEF Next

(* At a poll when nothing counts as released, nothing is.                  *)
LEMMA NothingReleased ==
  ASSUME Recent, TypeOK, RelayKept, ReleaseKept, cover = 0, ~sched,
         NEW schedNow \in BOOLEAN, Loop(schedNow), ~sched'
  PROVE  ~Released
<1> /\ millis \in Ms /\ age \in Nat /\ lag \in 0 .. MaxLag /\ relayOffAt \in Ms
    /\ releaseUntil \in Ms /\ Hold \in Nat \ {0} /\ Grace \in Nat
    /\ Width \in Nat /\ 2 * (Hold + Grace + MaxLag) < Width /\ MaxLag \in Nat
  BY ContactAssumption DEF TypeOK
<1>1. RelayExpiry /\ millis' = millis
  BY DEF Loop
<1>2. relayOffAt # 0 => Expired(relayOffAt)
  <2>1. relayOffAt # 0 => Elapsed(relayOffAt) \in 0 .. MaxLag
    BY ElapsedTyped DEF RelayKept
  <2>2. QED
    BY <2>1 DEF Expired, Elapsed
<1>3. ASSUME releaseArmed PROVE Expired(releaseUntil)
  <2>0. 2 * (age - Grace) < Width
    BY <1>3 DEF Recent
  <2>1. CASE releaseUntil = After(0)
    <3>1. After(0) = millis
      BY ModLow, ContactAssumption DEF After, Ms
    <3>2. Elapsed(releaseUntil) = 0
      BY <2>1, <3>1, NothingElapsed DEF Elapsed
    <3>3. QED
      BY <3>2 DEF Expired, Elapsed
  <2>2. CASE Elapsed(releaseUntil) + Grace <= age
    <3>1. Elapsed(releaseUntil) \in Nat /\ 2 * Elapsed(releaseUntil) < Width
      BY <2>0, <2>2, ElapsedTyped
    <3>2. QED
      BY <3>1 DEF Expired, Elapsed
  <2>3. QED
    BY <1>3, <2>1, <2>2 DEF ReleaseKept
<1>4. QED
  BY <1>1, <1>2, <1>3 DEF RelayExpiry, Released, Expired

-----------------------------------------------------------------------------
(* What one poll makes of the machine.                                     *)

LEMMA Debouncing ==
  ASSUME TypeOK, NEW d \in Doors, NEW b, b = Debounced(d)
  PROVE  /\ b \in Doors /\ b.forced = d.forced
         /\ b.heldTiming = d.heldTiming /\ b.heldFrom = d.heldFrom
         /\ b.heldReported = d.heldReported
         /\ b.open = (IF Changed(d) THEN raw ELSE d.open)
         /\ Changed(d) => ~b.pending
         /\ raw = d.open => ~b.pending
         /\ raw # d.open /\ ~d.pending => b.pending /\ b.pendingSince = millis
         /\ raw # d.open /\ d.pending /\ ~Changed(d) => b = d
<1> millis \in Ms /\ raw \in BOOLEAN /\ 0 \in Ms
  BY ContactAssumption DEF TypeOK, Ms
<1> QED
  BY DEF Debounced, NotPending, Changed, Doors

LEMMA Polling ==
  ASSUME TypeOK, NEW d \in Doors, NEW authorised \in BOOLEAN,
         NEW u, u = Update(d, authorised)
  PROVE  /\ u \in Doors
         /\ Changed(d) => u.open = raw /\ ~u.pending
         /\ Changed(d) /\ raw =>
              /\ u.forced = ~authorised /\ ~u.heldReported /\ u.heldTiming = ~authorised
              /\ ~authorised => u.heldFrom = millis
         /\ Changed(d) /\ ~raw => ~u.heldTiming
         /\ ~Changed(d) =>
              /\ u.open = d.open
              /\ u.pending = Debounced(d).pending
              /\ u.pendingSince = Debounced(d).pendingSince
         /\ ~Changed(d) /\ ~d.open => u = Debounced(d)
         /\ ~Changed(d) /\ d.open =>
              /\ u.forced = d.forced /\ u.heldTiming = ~authorised
              /\ ~authorised => u.heldFrom = IF d.heldTiming THEN d.heldFrom ELSE millis
              /\ ~authorised /\ HeldLimit > 0 /\ Elapsed(u.heldFrom) >= HeldLimit
                   => u.heldReported
              /\ d.heldReported => u.heldReported
<1> millis \in Ms /\ raw \in BOOLEAN /\ 0 \in Ms
  BY ContactAssumption DEF TypeOK, Ms
<1> DEFINE b == Debounced(d)
<1>1. /\ b \in Doors /\ b.open = (IF Changed(d) THEN raw ELSE d.open)
      /\ Changed(d) => ~b.pending
      /\ b.forced = d.forced /\ b.heldTiming = d.heldTiming /\ b.heldFrom = d.heldFrom
      /\ b.heldReported = d.heldReported
  BY Debouncing
<1>2. u \in Doors
  BY UpdateTyped
<1> HIDE DEF b
<1>3. CASE Changed(d) /\ raw
  <2>1. u = Opened(b, authorised)
    BY <1>1, <1>3 DEF Update, b
  <2> DEFINE o == [b EXCEPT !.heldReported = FALSE, !.forced = ~authorised]
  <2>2. o \in Doors /\ o.open = b.open /\ o.pending = b.pending /\ ~o.heldReported
        /\ o.forced = ~authorised
    BY <1>1 DEF Doors
  <2>3. u = IF authorised THEN NotTimed(o) ELSE TimedFromNow(o)
    BY <2>1 DEF Opened
  <2> HIDE DEF o
  <2>4. /\ u.open = o.open /\ u.pending = o.pending /\ u.heldReported = o.heldReported
        /\ u.forced = o.forced /\ u.heldTiming = ~authorised
        /\ ~authorised => u.heldFrom = millis
    BY <2>2, <2>3 DEF NotTimed, TimedFromNow, Doors
  <2>5. QED
    BY <1>1, <1>2, <1>3, <2>2, <2>4
<1>4. CASE Changed(d) /\ ~raw
  <2>1. u = Closed(b)
    BY <1>1, <1>4 DEF Update, b
  <2>2. u.open = b.open /\ u.pending = b.pending /\ ~u.heldTiming
    BY <1>1, <2>1 DEF Closed, NotTimed, Doors
  <2>3. QED
    BY <1>1, <1>2, <1>4, <2>2
<1>5. CASE ~Changed(d) /\ ~d.open
  <2>1. u = b
    BY <1>1, <1>5 DEF Update, b
  <2>2. QED
    BY <1>1, <1>2, <1>5, <2>1 DEF b
<1>6. CASE ~Changed(d) /\ d.open
  <2>1. u = StillOpen(b, authorised)
    BY <1>1, <1>6 DEF Update, b
  <2> DEFINE t == Timed(b, authorised)
  <2>2. /\ t \in Doors /\ t.open = b.open /\ t.pending = b.pending
        /\ t.pendingSince = b.pendingSince /\ t.forced = b.forced
        /\ t.heldReported = b.heldReported /\ t.heldTiming = ~authorised
        /\ ~authorised => t.heldFrom = IF b.heldTiming THEN b.heldFrom ELSE millis
    BY <1>1 DEF Timed, NotTimed, TimedFromNow, Doors
  <2>3. u = IF Overdue(t) THEN [t EXCEPT !.heldReported = TRUE] ELSE t
    BY <2>1 DEF StillOpen
  <2> HIDE DEF t
  <2>4. /\ u.open = t.open /\ u.pending = t.pending /\ u.pendingSince = t.pendingSince
        /\ u.forced = t.forced /\ u.heldTiming = t.heldTiming /\ u.heldFrom = t.heldFrom
        /\ Overdue(t) \/ t.heldReported => u.heldReported
    BY <2>2, <2>3 DEF Doors
  <2>5. ~authorised /\ HeldLimit > 0 /\ Elapsed(u.heldFrom) >= HeldLimit => Overdue(t)
    BY <2>2, <2>4 DEF Overdue
  <2>6. QED
    BY <1>1, <1>2, <1>6, <2>2, <2>4, <2>5 DEF b
<1>7. QED
  BY <1>3, <1>4, <1>5, <1>6

-----------------------------------------------------------------------------
(* The timers run only while they should, and none runs past its limit by  *)
(* more than the ticks since the last poll.                                *)
Polled ==
  /\ door.heldTiming => door.open
  /\ door.pending => Elapsed(door.pendingSince) <= Debounce + lag
  /\ door.heldTiming /\ ~door.heldReported /\ HeldLimit > 0
       => Elapsed(door.heldFrom) <= HeldLimit + lag

(* Only a door that reads open with nothing releasing it is counted.       *)
BareMeans == bare > 0 \/ bareOpening => raw /\ cover = 0 /\ ~sched

(* An opening so counted is forced once the machine has seen it.           *)
Told == bareOpening /\ ~restarted /\ door.open => door.forced

(* How far the machine can be behind the door: it has yet to see the door  *)
(* open, is debouncing it, has yet to time it, or is timing it.            *)
Behind ==
  /\ ~door.open /\ ~door.pending => bare <= lag
  /\ ~door.open /\ door.pending => bare <= Elapsed(door.pendingSince) + MaxLag
  /\ door.open /\ ~door.heldTiming => bare <= lag
  /\ door.heldTiming /\ ~door.heldReported /\ HeldLimit > 0
       => bare <= Elapsed(door.heldFrom) + Debounce + 2 * MaxLag

OnTime ==
  RelayKept /\ ReleaseKept /\ Polled /\ BareMeans /\ (Recent => Told /\ Behind)

\* What of the state a poll leaves alone, and the machine it starts from.
LEMMA PollOf ==
  ASSUME TypeOK, NEW schedNow \in BOOLEAN, Loop(schedNow)
  PROVE  /\ millis' = millis /\ raw' = raw /\ lag' = 0
         /\ (Released \/ sched') \in BOOLEAN
         /\ \/ /\ bare' = 0 /\ restarted' = raw
               /\ sched' # sched => ~bareOpening'
               /\ bareOpening' => bareOpening
               /\ door' = Update(Begin(raw), Released \/ sched')
            \/ /\ ~reload /\ restarted' = restarted
               /\ door' = Update(door, Released \/ sched')
               /\ \/ bare' = 0 /\ bareOpening' = FALSE
                  \/ sched' = sched /\ bare' = bare /\ bareOpening' = bareOpening
         /\ sched' = sched => UNCHANGED <<cover, releaseArmed, age>>
         /\ sched' # sched => bare' = 0 /\ ~bareOpening'
<1>1. (Released \/ sched') \in BOOLEAN
  BY Zenon DEF Released
<1>2. millis' = millis /\ raw' = raw /\ lag' = 0 /\ Poll
  BY DEF Loop
<1>3. /\ bareOpening \in BOOLEAN /\ sched \in BOOLEAN /\ sched' \in BOOLEAN
  BY DEF Loop, TypeOK
<1>4. ASSUME reload
      PROVE  /\ bare' = 0 /\ restarted' = raw
             /\ sched' # sched => ~bareOpening'
             /\ bareOpening' => bareOpening
             /\ door' = Update(Begin(raw), Released \/ sched')
  <2>1. /\ bare' = 0 /\ restarted' = raw
        /\ bareOpening' = (bareOpening /\ sched' = sched)
        /\ door' = Update(Begin(raw), Released \/ sched')
    BY <1>2, <1>4 DEF Poll
  <2>2. /\ sched' # sched => ~bareOpening'
        /\ bareOpening' => bareOpening
    BY <2>1, <1>3
  <2>3. QED
    BY <2>1, <2>2, Zenon
<1>5. ASSUME ~reload
      PROVE  /\ ~reload /\ restarted' = restarted
             /\ door' = Update(door, Released \/ sched')
             /\ \/ bare' = 0 /\ bareOpening' = FALSE
                \/ sched' = sched /\ bare' = bare /\ bareOpening' = bareOpening
  <2>1. /\ door' = Update(door, Released \/ sched') /\ restarted' = restarted
        /\ sched' # sched => bare' = 0 /\ bareOpening' = FALSE
        /\ sched' = sched => bare' = bare /\ bareOpening' = bareOpening
    BY <1>2, <1>5 DEF Poll
  <2>2. QED
    BY <2>1, <1>5, Zenon
<1>6. sched' = sched => UNCHANGED <<cover, releaseArmed, age>>
  BY <1>3 DEF Loop, RelayExpiry
<1>7. sched' # sched => bare' = 0 /\ ~bareOpening'
  BY <1>2, <1>3 DEF Poll
<1>8. QED
  <2>1. /\ millis' = millis /\ raw' = raw /\ lag' = 0
    BY <1>2
  <2>2. QED
    BY <2>1, <1>1, <1>4, <1>5, <1>6, <1>7, Zenon

LEMMA BeginTyped == ASSUME TypeOK PROVE Begin(raw) \in Doors
  BY ContactAssumption DEF TypeOK, Begin, Doors, Ms

LEMMA PolledAfter ==
  ASSUME TypeOK, NEW d \in Doors, d.heldTiming => d.open, NEW authorised \in BOOLEAN,
         NEW u, u = Update(d, authorised)
  PROVE  /\ u.heldTiming => u.open
         /\ u.pending => Elapsed(u.pendingSince) <= Debounce
         /\ u.heldTiming /\ ~u.heldReported /\ HeldLimit > 0
              => Elapsed(u.heldFrom) <= HeldLimit
<1> DEFINE b == Debounced(d)
<1> /\ millis \in Ms /\ raw \in BOOLEAN /\ Debounce \in Nat /\ HeldLimit \in Nat
    /\ d.open \in BOOLEAN /\ d.pending \in BOOLEAN /\ d.pendingSince \in Ms
  BY ContactAssumption DEF TypeOK, Doors
<1>1. Elapsed(millis) = 0
  BY NothingElapsed DEF Elapsed
<1>2. /\ b.heldTiming = d.heldTiming
      /\ b.open = (IF Changed(d) THEN raw ELSE d.open)
      /\ raw = d.open => ~b.pending
      /\ raw # d.open /\ ~d.pending => b.pending /\ b.pendingSince = millis
      /\ raw # d.open /\ d.pending /\ ~Changed(d) => b = d
  BY Debouncing
<1>3. /\ u \in Doors
      /\ Changed(d) => u.open = raw /\ ~u.pending
      /\ Changed(d) /\ raw =>
           u.heldTiming = ~authorised /\ (~authorised => u.heldFrom = millis)
      /\ Changed(d) /\ ~raw => ~u.heldTiming
      /\ ~Changed(d) =>
           u.open = d.open /\ u.pending = b.pending /\ u.pendingSince = b.pendingSince
      /\ ~Changed(d) /\ ~d.open => u = b
      /\ ~Changed(d) /\ d.open =>
           /\ u.heldTiming = ~authorised
           /\ ~authorised /\ HeldLimit > 0 /\ Elapsed(u.heldFrom) >= HeldLimit
                => u.heldReported
  BY Polling
<1> HIDE DEF b
<1>4. Elapsed(u.heldFrom) \in Nat /\ Elapsed(d.pendingSince) \in Nat
  BY <1>3, ElapsedTyped DEF Doors
<1>5. u.heldTiming => u.open
  BY <1>2, <1>3
<1>6. u.pending => Elapsed(u.pendingSince) <= Debounce
  <2>1. raw # d.open /\ d.pending /\ ~Changed(d) => Elapsed(d.pendingSince) <= Debounce
    BY <1>4 DEF Changed
  <2>2. CASE Changed(d) \/ raw = d.open
    BY <1>2, <1>3, <2>2
  <2>3. CASE ~Changed(d) /\ raw # d.open /\ ~d.pending
    <3>1. u.pendingSince = millis
      BY <1>2, <1>3, <2>3
    <3>2. QED
      BY <1>1, <3>1
  <2>4. CASE ~Changed(d) /\ raw # d.open /\ d.pending
    <3>1. u.pendingSince = d.pendingSince
      BY <1>2, <1>3, <2>4
    <3>2. QED
      BY <2>1, <2>4, <3>1
  <2>5. QED
    BY <2>2, <2>3, <2>4
<1>7. u.heldTiming /\ ~u.heldReported /\ HeldLimit > 0 => Elapsed(u.heldFrom) <= HeldLimit
  <2>1. CASE Changed(d)
    <3>1. u.heldTiming => u.heldFrom = millis
      BY <1>3, <2>1
    <3>2. QED
      BY <1>1, <3>1
  <2>2. CASE ~Changed(d) /\ ~d.open
    BY <1>2, <1>3, <2>2
  <2>3. CASE ~Changed(d) /\ d.open
    <3>1. u.heldTiming <=> ~authorised
      BY <1>3, <2>3, Zenon
    <3>2. ~authorised /\ HeldLimit > 0 /\ Elapsed(u.heldFrom) >= HeldLimit => u.heldReported
      BY <1>3, <2>3, Zenon
    <3>3. QED
      BY <1>4, <3>1, <3>2
  <2>4. QED
    BY <2>1, <2>2, <2>3
<1>8. QED
  BY <1>5, <1>6, <1>7

\* A timer that is within its limit goes on without coming round.
LEMMA TimersTick ==
  ASSUME TypeOK, Polled, Tick
  PROVE  /\ door.pending =>
              (millis' - door.pendingSince) % Width = Elapsed(door.pendingSince) + 1
         /\ door.heldTiming /\ ~door.heldReported /\ HeldLimit > 0 =>
              (millis' - door.heldFrom) % Width = Elapsed(door.heldFrom) + 1
<1> /\ millis \in Ms /\ door.pendingSince \in Ms /\ door.heldFrom \in Ms
    /\ lag \in Nat /\ lag < MaxLag /\ millis' = After(1)
    /\ MaxLag \in Nat /\ Debounce \in Nat /\ HeldLimit \in Nat /\ Width \in Nat
    /\ Debounce + MaxLag < Width /\ HeldLimit + MaxLag < Width
  BY ContactAssumption DEF TypeOK, Tick, Doors
<1>1. /\ Elapsed(door.pendingSince) \in Nat /\ Elapsed(door.heldFrom) \in Nat
  BY ElapsedTyped
<1>2. /\ door.pending => Elapsed(door.pendingSince) + 1 < Width
      /\ door.heldTiming /\ ~door.heldReported /\ HeldLimit > 0
           => Elapsed(door.heldFrom) + 1 < Width
  BY <1>1 DEF Polled
<1>3. QED
  BY <1>2, ElapsedTick

LEMMA PolledStep == TypeOK /\ Polled /\ [Next]_vars => Polled'
<1> SUFFICES ASSUME TypeOK, Polled, [Next]_vars PROVE Polled'
  OBVIOUS
<1> /\ lag \in Nat /\ Debounce \in Nat /\ HeldLimit \in Nat /\ door \in Doors
  BY ContactAssumption DEF TypeOK
<1>1. CASE Tick
  <2>1. door' = door /\ lag' = lag + 1
    BY <1>1 DEF Tick
  <2>2. /\ Elapsed(door.pendingSince) \in Nat /\ Elapsed(door.heldFrom) \in Nat
    BY ElapsedTyped DEF TypeOK, Doors
  <2>3. QED
    BY <1>1, <2>1, <2>2, TimersTick DEF Polled, Elapsed
<1>2. CASE UNCHANGED vars \/ DoorMoves \/ GrantRelay \/ GrantRelease \/ SaveSettings
  <2>1. UNCHANGED <<door, lag, millis>>
    BY <1>2 DEF vars, DoorMoves, GrantRelay, GrantRelease, SaveSettings
  <2>2. QED
    BY <2>1 DEF Polled, Elapsed
<1>3. ASSUME NEW schedNow \in BOOLEAN, Loop(schedNow) PROVE Polled'
  <2>1. /\ lag' = 0 /\ millis' = millis /\ (Released \/ sched') \in BOOLEAN
        /\ \/ door' = Update(Begin(raw), Released \/ sched')
           \/ door' = Update(door, Released \/ sched')
    BY <1>3, PollOf
  <2>2. /\ Begin(raw) \in Doors
        /\ Begin(raw).heldTiming => Begin(raw).open
        /\ door.heldTiming => door.open
    BY BeginTyped DEF Begin, Polled
  <2>3. PICK authorised \in BOOLEAN, d \in Doors :
          (d.heldTiming => d.open) /\ door' = Update(d, authorised)
    <3>1. PICK authorised \in BOOLEAN : authorised = (Released \/ sched')
      BY <2>1, Zenon
    <3>2. door' = Update(Begin(raw), authorised) \/ door' = Update(door, authorised)
      BY <2>1, <3>1, Zenon
    <3>3. QED
      BY <2>2, <3>2, Zenon
  <2>4. /\ door'.heldTiming => door'.open
        /\ door'.pending => Elapsed(door'.pendingSince) <= Debounce
        /\ door'.heldTiming /\ ~door'.heldReported /\ HeldLimit > 0
             => Elapsed(door'.heldFrom) <= HeldLimit
    BY <2>3, PolledAfter
  <2>5. QED
    BY <2>1, <2>4 DEF Polled, Elapsed
<1>4. QED
  BY <1>1, <1>2, <1>3 DEF Next

\* A poll of a door that is counted is a poll with nothing released.
LEMMA CountedPoll ==
  ASSUME Recent, TypeOK, RelayKept, ReleaseKept, BareMeans,
         bare > 0 \/ bareOpening, NEW schedNow \in BOOLEAN, Loop(schedNow)
  PROVE  \/ bare' = 0 /\ ~bareOpening'
         \/ bare' = 0 /\ restarted'
         \/ /\ raw /\ cover' = 0 /\ ~sched' /\ door' = Update(door, FALSE)
            /\ UNCHANGED <<bare, bareOpening, restarted>>
<1>1. raw /\ cover = 0 /\ ~sched
  BY DEF BareMeans
<1>2. CASE sched' = sched
  <2>1. ~Released
    BY <1>1, <1>2, NothingReleased
  <2>2. (Released \/ sched') = FALSE
    BY <1>1, <1>2, <2>1
  <2>3. QED
    BY <1>1, <1>2, <2>2, PollOf
<1>3. CASE sched' # sched
  BY <1>3, PollOf
<1>4. QED
  BY <1>2, <1>3

LEMMA BareMeansStep == TypeOK /\ BareMeans /\ [Next]_vars => BareMeans'
<1> SUFFICES ASSUME TypeOK, BareMeans, [Next]_vars PROVE BareMeans'
  OBVIOUS
<1> cover \in Nat /\ bare \in Nat /\ raw \in BOOLEAN /\ bareOpening \in BOOLEAN
  BY ContactAssumption DEF TypeOK
<1>1. CASE Tick
  <2>1. /\ raw' = raw /\ sched' = sched /\ (cover = 0 => cover' = 0)
        /\ bare' > 0 \/ bareOpening' => raw /\ ~Authorised
    <3>1. bareOpening => raw
      BY DEF BareMeans
    <3>2. bare' # 0 => raw /\ ~Authorised
      BY <1>1 DEF Tick
    <3>3. bareOpening' => bareOpening /\ ~Authorised
      BY <1>1 DEF Tick
    <3>4. bare' > 0 => bare' # 0
      OBVIOUS
    <3>5. QED
      BY <1>1, <3>1, <3>2, <3>3, <3>4 DEF Tick
  <2>2. QED
    BY <2>1 DEF BareMeans, Authorised
<1>2. CASE DoorMoves
  <2>1. /\ bare' = 0 /\ UNCHANGED <<cover, sched>> /\ (bareOpening' => raw' /\ ~Authorised)
    BY <1>2 DEF DoorMoves
  <2>2. QED
    BY <2>1 DEF BareMeans, Authorised
<1>3. CASE GrantRelay \/ GrantRelease
  BY <1>3 DEF GrantRelay, GrantRelease, BareMeans
<1>4. CASE UNCHANGED vars \/ SaveSettings
  BY <1>4 DEF vars, SaveSettings, history, BareMeans
<1>5. ASSUME NEW schedNow \in BOOLEAN, Loop(schedNow) PROVE BareMeans'
  <2>1. CASE sched' = sched
    <3>1. /\ raw' = raw /\ cover' = cover /\ (bareOpening' => bareOpening)
          /\ bare' = 0 \/ bare' = bare
      BY <1>5, <2>1, PollOf
    <3>2. QED
      BY <2>1, <3>1 DEF BareMeans
  <2>2. CASE sched' # sched
    <3>1. bare' = 0 /\ ~bareOpening'
      BY <1>5, <2>2, PollOf
    <3>2. QED
      BY <3>1 DEF BareMeans
  <2>3. QED
    BY <2>1, <2>2
<1>6. QED
  BY <1>1, <1>2, <1>3, <1>4, <1>5 DEF Next

(* A release is recent only if it was before the step, or is new, and then *)
(* nothing is counted.                                                     *)
LEMMA RecentBefore ==
  ASSUME TypeOK, [Next]_vars, Recent' PROVE Recent \/ (bare' = 0 /\ ~bareOpening')
<1>1. CASE Tick
  BY <1>1 DEF Tick, release, Recent
<1>2. CASE UNCHANGED vars \/ DoorMoves \/ SaveSettings \/ GrantRelay
  BY <1>2 DEF vars, DoorMoves, SaveSettings, GrantRelay, release, history, Recent
<1>3. CASE GrantRelease
  BY <1>3 DEF GrantRelease
<1>4. ASSUME NEW schedNow \in BOOLEAN, Loop(schedNow)
      PROVE  Recent \/ (bare' = 0 /\ ~bareOpening')
  BY <1>4, PollOf DEF Recent
<1>5. QED
  BY <1>1, <1>2, <1>3, <1>4 DEF Next

LEMMA ToldStep ==
  ASSUME Recent, TypeOK, RelayKept, ReleaseKept, BareMeans, Told, [Next]_vars PROVE Told'
<1> door \in Doors /\ raw \in BOOLEAN /\ bare \in Nat
  BY ContactAssumption DEF TypeOK
<1>1. CASE Tick
  BY <1>1 DEF Tick, Told
<1>2. CASE DoorMoves
  BY <1>2 DEF DoorMoves, Told
<1>3. CASE GrantRelay \/ GrantRelease
  BY <1>3 DEF GrantRelay, GrantRelease, Told
<1>4. CASE UNCHANGED vars \/ SaveSettings
  BY <1>4 DEF vars, SaveSettings, history, Told
<1>5. ASSUME NEW schedNow \in BOOLEAN, Loop(schedNow) PROVE Told'
  <2>1. CASE ~bareOpening' \/ restarted'
    BY <2>1 DEF Told
  <2>2. CASE /\ raw /\ door' = Update(door, FALSE)
             /\ UNCHANGED <<bareOpening, restarted>>
    <3>1. /\ Changed(door) /\ raw => door'.forced
          /\ ~Changed(door) => door'.open = door.open
          /\ ~Changed(door) /\ door.open => door'.forced = door.forced
      BY <2>2, Polling
    <3>2. QED
      BY <2>2, <3>1 DEF Told
  <2>3. bareOpening' => bareOpening
    BY <1>5, PollOf
  <2>4. QED
    BY <1>5, <2>1, <2>2, <2>3, CountedPoll
<1>6. QED
  BY <1>1, <1>2, <1>3, <1>4, <1>5 DEF Next

\* What a poll that finds nothing released makes of a door that reads open.
Unreleased(d, u) ==
  /\ u \in Doors
  /\ Changed(d) => u.open /\ u.heldTiming /\ u.heldFrom = millis
  /\ ~Changed(d) =>
       /\ u.open = d.open
       /\ u.pending = Debounced(d).pending
       /\ u.pendingSince = Debounced(d).pendingSince
  /\ ~Changed(d) /\ ~d.open => u = Debounced(d)
  /\ ~Changed(d) /\ d.open =>
       /\ u.heldTiming
       /\ u.heldFrom = IF d.heldTiming THEN d.heldFrom ELSE millis
       /\ d.heldReported => u.heldReported

\* The first poll of a counted door starts the debounce, a later one ends it
\* or starts the timer.
LEMMA BehindPoll ==
  ASSUME TypeOK, Polled, Behind, raw, NEW u, Unreleased(door, u)
  PROVE  /\ ~u.open => u.pending
         /\ ~u.open /\ u.pending => bare <= Elapsed(u.pendingSince) + MaxLag
         /\ u.open => u.heldTiming
         /\ u.heldTiming /\ ~u.heldReported /\ HeldLimit > 0
              => bare <= Elapsed(u.heldFrom) + Debounce + 2 * MaxLag
<1> DEFINE b == Debounced(door)
<1> /\ millis \in Ms /\ lag \in 0 .. MaxLag /\ MaxLag \in Nat /\ Debounce \in Nat
    /\ HeldLimit \in Nat /\ bare \in Nat /\ door \in Doors
    /\ door.open \in BOOLEAN /\ door.pending \in BOOLEAN
  BY ContactAssumption DEF TypeOK, Doors
<1>1. Elapsed(millis) = 0
  BY NothingElapsed DEF Elapsed
<1>2. /\ b.heldTiming = door.heldTiming
      /\ b.open = (IF Changed(door) THEN raw ELSE door.open)
      /\ raw # door.open /\ ~door.pending => b.pending /\ b.pendingSince = millis
      /\ raw # door.open /\ door.pending /\ ~Changed(door) => b = door
  BY Debouncing
<1>3. /\ u \in Doors
      /\ Changed(door) => u.open /\ u.heldTiming /\ u.heldFrom = millis
      /\ ~Changed(door) =>
           u.open = door.open /\ u.pending = b.pending /\ u.pendingSince = b.pendingSince
      /\ ~Changed(door) /\ ~door.open => u = b
      /\ ~Changed(door) /\ door.open =>
           /\ u.heldTiming
           /\ u.heldFrom = IF door.heldTiming THEN door.heldFrom ELSE millis
           /\ door.heldReported => u.heldReported
  BY DEF Unreleased
<1> HIDE DEF b
<1>4. /\ Elapsed(door.pendingSince) \in Nat /\ Elapsed(door.heldFrom) \in Nat
      /\ Elapsed(u.heldFrom) \in Nat
  <2>1. door.pendingSince \in Ms /\ door.heldFrom \in Ms /\ u.heldFrom \in Ms
    BY <1>3 DEF Doors
  <2>2. QED
    BY <2>1, ElapsedTyped, ContactAssumption
<1>5. Changed(door) => ~door.open /\ door.pending /\ bare <= Debounce + 2 * MaxLag
  <2> SUFFICES ASSUME Changed(door)
               PROVE  ~door.open /\ door.pending /\ bare <= Debounce + 2 * MaxLag
    OBVIOUS
  <2>1. ~door.open /\ door.pending
    BY DEF Changed
  <2>2. /\ bare <= Elapsed(door.pendingSince) + MaxLag
        /\ Elapsed(door.pendingSince) <= Debounce + lag
    BY <2>1 DEF Behind, Polled
  <2>3. QED
    BY <1>4, <2>1, <2>2
<1>6. ~u.open => u.pending
  BY <1>2, <1>3
<1>7. ~u.open /\ u.pending => bare <= Elapsed(u.pendingSince) + MaxLag
  <2> SUFFICES ASSUME ~u.open PROVE bare <= Elapsed(u.pendingSince) + MaxLag
    OBVIOUS
  <2>1. ~Changed(door) /\ ~door.open
    BY <1>3
  <2>2. CASE door.pending
    <3>1. u.pendingSince = door.pendingSince
      BY <1>2, <1>3, <2>1, <2>2
    <3>2. QED
      BY <2>1, <2>2, <3>1 DEF Behind
  <2>3. CASE ~door.pending
    <3>1. u.pendingSince = millis
      BY <1>2, <1>3, <2>1, <2>3
    <3>2. bare <= lag
      BY <2>1, <2>3 DEF Behind
    <3>3. Elapsed(u.pendingSince) = 0
      BY <1>1, <3>1, Zenon
    <3>4. QED
      BY <3>2, <3>3
  <2>4. QED
    BY <2>2, <2>3
<1>8. u.open => u.heldTiming
  BY <1>3
<1>9. u.heldTiming /\ ~u.heldReported /\ HeldLimit > 0
        => bare <= Elapsed(u.heldFrom) + Debounce + 2 * MaxLag
  <2>1. CASE Changed(door)
    <3>1. Elapsed(u.heldFrom) = 0
      BY <1>1, <1>3, <2>1, Zenon
    <3>2. QED
      BY <1>5, <2>1, <3>1
  <2>2. CASE ~Changed(door) /\ ~door.open
    BY <2>2, <1>2, <1>3 DEF Polled
  <2>3. CASE ~Changed(door) /\ door.open /\ door.heldTiming
    BY <2>3, <1>3 DEF Behind
  <2>4. CASE ~Changed(door) /\ door.open /\ ~door.heldTiming
    <3>1. bare <= lag
      BY <2>4 DEF Behind
    <3>2. Elapsed(u.heldFrom) = 0
      BY <1>1, <1>3, <2>4, Zenon
    <3>3. QED
      BY <3>1, <3>2
  <2>5. QED
    BY <2>1, <2>2, <2>3, <2>4
<1>10. QED
  BY <1>6, <1>7, <1>8, <1>9

\* Nothing counted, nothing owed.
LEMMA NotBehind == ASSUME TypeOK', bare' = 0 PROVE Behind'
<1> MaxLag \in Nat /\ Debounce \in Nat
  BY ContactAssumption
<1>1. /\ Elapsed(door.pendingSince)' \in Nat /\ Elapsed(door.heldFrom)' \in Nat
      /\ lag' \in Nat
  <2>1. /\ millis' \in Ms /\ door'.pendingSince \in Ms /\ door'.heldFrom \in Ms
    BY DEF TypeOK, Doors, Ms
  <2>2. ASSUME NEW t \in Ms PROVE (millis' - t) % Width \in Nat
    <3>1. Width \in Nat \ {0} /\ millis' - t \in Int
      BY <2>1, ContactAssumption DEF Ms
    <3>2. QED
      BY <3>1
  <2>3. QED
    BY <2>1, <2>2 DEF Elapsed, TypeOK
<1>2. QED
  BY <1>1 DEF Behind

LEMMA BehindStep ==
  ASSUME Recent, TypeOK, RelayKept, ReleaseKept, Polled, BareMeans, Behind, [Next]_vars
  PROVE  Behind'
<1> /\ lag \in 0 .. MaxLag /\ MaxLag \in Nat /\ Debounce \in Nat /\ HeldLimit \in Nat
    /\ bare \in Nat /\ door \in Doors
  BY ContactAssumption DEF TypeOK
<1>1. bare' = 0 => Behind'
  BY TypeStep, NotBehind
<1>3. CASE Tick /\ bare' # 0
  <2>1. /\ door' = door /\ lag' = lag + 1 /\ bare' <= bare + 1 /\ bare' \in Nat
    BY <1>3, ContactAssumption DEF Tick, TypeOK, Enough, Slack
  <2>2. /\ Elapsed(door.pendingSince) \in Nat /\ Elapsed(door.heldFrom) \in Nat
    BY ElapsedTyped DEF TypeOK, Doors
  <2>3. /\ door.pending => Elapsed(door.pendingSince)' = Elapsed(door.pendingSince) + 1
        /\ door.heldTiming /\ ~door.heldReported /\ HeldLimit > 0 =>
             Elapsed(door.heldFrom)' = Elapsed(door.heldFrom) + 1
    BY <1>3, <2>1, TimersTick DEF Elapsed
  <2>4. QED
    BY <2>1, <2>2, <2>3 DEF Behind
<1>4. CASE UNCHANGED vars \/ SaveSettings
  BY <1>4 DEF vars, SaveSettings, history, Behind, Elapsed
<1>5. CASE DoorMoves \/ GrantRelay \/ GrantRelease
  BY <1>1, <1>5 DEF DoorMoves, GrantRelay, GrantRelease
<1>6. ASSUME NEW schedNow \in BOOLEAN, Loop(schedNow), bare' # 0 PROVE Behind'
  <2>1. bare > 0
    BY <1>6 DEF Loop, Poll
  <2>2. /\ raw /\ door' = Update(door, FALSE) /\ bare' = bare
        /\ millis' = millis /\ lag' = 0
    BY <1>6, <2>1, CountedPoll, PollOf
  <2>3. /\ ~door'.open => door'.pending
        /\ ~door'.open /\ door'.pending => bare <= Elapsed(door'.pendingSince) + MaxLag
        /\ door'.open => door'.heldTiming
        /\ door'.heldTiming /\ ~door'.heldReported /\ HeldLimit > 0
             => bare <= Elapsed(door'.heldFrom) + Debounce + 2 * MaxLag
    <3>1. Unreleased(door, door')
      BY <2>2, Polling DEF Unreleased
    <3>2. QED
      BY <2>2, <3>1, BehindPoll
  <2>4. QED
    BY <2>2, <2>3 DEF Behind, Elapsed
<1>7. QED
  BY <1>1, <1>3, <1>4, <1>5, <1>6 DEF Next

LEMMA InitiallyOnTime == Init => OnTime
<1> SUFFICES ASSUME Init PROVE OnTime
  OBVIOUS
<1> millis \in Ms /\ Debounce \in Nat /\ HeldLimit \in Nat /\ MaxLag \in Nat
  BY InitialTypes, ContactAssumption DEF TypeOK
<1>1. Elapsed(millis) = 0
  BY NothingElapsed DEF Elapsed
<1>2. /\ door.open = raw /\ ~door.pending /\ door.heldTiming = raw
      /\ raw => door.heldFrom = millis
  BY DEF Init, Begin
<1>3. RelayKept /\ ReleaseKept /\ BareMeans /\ Told
  BY DEF Init, RelayKept, ReleaseKept, BareMeans, Told
<1>4. Polled /\ Behind
  BY <1>1, <1>2 DEF Init, Polled, Behind
<1>5. QED
  BY <1>3, <1>4 DEF OnTime

LEMMA OnTimeAlways == Spec => [](TypeOK /\ OnTime)
<1>1. TypeOK /\ OnTime /\ [Next]_vars => OnTime'
  <2> SUFFICES ASSUME TypeOK, OnTime, [Next]_vars PROVE OnTime'
    OBVIOUS
  <2>1. RelayKept' /\ ReleaseKept' /\ Polled' /\ BareMeans'
    BY RelayKeptStep, ReleaseKeptStep, PolledStep, BareMeansStep DEF OnTime
  <2>2. CASE Recent
    BY <2>1, <2>2, ToldStep, BehindStep DEF OnTime
  <2>3. CASE bare' = 0 /\ ~bareOpening'
    <3>1. Told' /\ Behind'
      BY <2>3, TypeStep, NotBehind DEF Told
    <3>2. QED
      BY <2>1, <3>1 DEF OnTime
  <2>4. QED
    BY <2>1, <2>2, <2>3, RecentBefore DEF OnTime
<1>2. QED
  BY <1>1, InitialTypes, TypeStep, InitiallyOnTime, PTL DEF Spec

(* A closed door that opens with nothing releasing it, and stays open for  *)
(* the debounce and two polls, is forced, whatever the clock reads: unless *)
(* the machine was started afresh under the opening, or the last release   *)
(* is half a wrap of the clock old.                                        *)
THEOREM ForcedIsReported == Spec => []ForcedReported
<1>1. TypeOK /\ OnTime => ForcedReported
  <2> SUFFICES ASSUME TypeOK, OnTime, bareOpening, ~restarted, Recent,
                      bare > Debounce + 2 * MaxLag
               PROVE  door.forced
    BY DEF ForcedReported
  <2> /\ Polled /\ Told /\ Behind
      /\ lag \in 0 .. MaxLag /\ MaxLag \in Nat /\ Debounce \in Nat /\ bare \in Nat
      /\ Elapsed(door.pendingSince) \in Nat
    BY ElapsedTyped, ContactAssumption DEF TypeOK, OnTime, Doors
  <2>1. door.open
    BY DEF Polled, Behind
  <2>2. QED
    BY <2>1 DEF Told
<1>2. QED
  BY <1>1, OnTimeAlways, PTL

(* Every door held open is reported: one that stands open with nothing     *)
(* releasing it for the limit, the debounce and three polls has its alarm, *)
(* released or not when it was opened, with the same exception of a        *)
(* release half a wrap old.                                                *)
THEOREM HeldIsReported == Spec => []HeldReported
<1>1. TypeOK /\ OnTime => HeldReported
  <2> SUFFICES ASSUME TypeOK, OnTime, Recent, HeldLimit > 0, bare > HeldLimit + Slack
               PROVE  door.heldReported
    BY DEF HeldReported
  <2> /\ Polled /\ Behind /\ bare > HeldLimit + Debounce + 3 * MaxLag
      /\ lag \in 0 .. MaxLag /\ MaxLag \in Nat /\ Debounce \in Nat /\ bare \in Nat
      /\ HeldLimit \in Nat
      /\ Elapsed(door.pendingSince) \in Nat /\ Elapsed(door.heldFrom) \in Nat
    BY ElapsedTyped, ContactAssumption DEF TypeOK, OnTime, Doors, Slack
  <2>1. door.open /\ door.heldTiming
    BY DEF Polled, Behind
  <2>2. QED
    BY <2>1 DEF Polled, Behind
<1>2. QED
  BY <1>1, OnTimeAlways, PTL

=============================================================================
