------------------------- MODULE DoorStrike_proofs --------------------------
(***************************************************************************)
(* Proofs about what moves the strike: DoorRelay, for every clock width,   *)
(* hold, queue capacity and bound, and UnlockSchedule, for a week of any   *)
(* number of days of any number of minutes.                                *)
(*                                                                         *)
(* DoorRelay's typing carries no argument of its own.  StrikeAccounted     *)
(* needs one fact about loop() that is not visible in its statement: a     *)
(* window is already active by the time loop() energises the strike for    *)
(* it.  FreshGrantHeld and RestartSparesRelease rest on one invariant,     *)
(* GrantInv: the deadline is at least as far ahead of the clock as the     *)
(* release that is owed.                                                   *)
(*                                                                         *)
(* isActiveNow decides by cases (a daytime window, the evening and the     *)
(* morning of an overnight one); Window counts minutes round the week.     *)
(* That they agree is arithmetic: a minute of the week is a day and a      *)
(* minute of it in one way only (SamePlace), and counting past midnight    *)
(* leads to the day after (InWeek).                                        *)
(***************************************************************************)
EXTENDS DoorRelay, UnlockSchedule, TLAPS

(* The clock's width is a positive number: a release fits into half of it. *)
LEMMA WidthPositive == Width \in Nat /\ Width > 0
  BY ClockAssumption

(* A sum taken modulo the clock's width is a clock value.                  *)
LEMMA AfterIsMs == ASSUME millis \in Ms, NEW d \in Nat PROVE After(d) \in Ms
  BY WidthPositive DEF After, Ms

(* Offering a request to the queue keeps its type: a full queue drops it.  *)
LEMMA SendTyped ==
  ASSUME TypeOK, NEW kind \in Kinds, Send(kind)
  PROVE  /\ queue' \in Seq(Kinds) /\ Len(queue') <= QueueCap
         /\ requests' \in 0 .. MaxRequests
<1>1. requests' \in 0 .. MaxRequests
  BY RequestAssumption DEF TypeOK, Send
<1>2. CASE Len(queue) < QueueCap
  <2>1. queue' = Append(queue, kind)
    BY <1>2 DEF Send
  <2>2. queue' \in Seq(Kinds) /\ Len(queue') = Len(queue) + 1
    BY <2>1 DEF TypeOK
  <2>3. QED
    BY <1>1, <1>2, <2>2, RequestAssumption DEF TypeOK
<1>3. CASE ~(Len(queue) < QueueCap)
  BY <1>1, <1>3 DEF TypeOK, Send
<1>4. QED
  BY <1>2, <1>3

(* Taking the first request off the queue keeps its type.                  *)
LEMMA TakeTyped ==
  ASSUME TypeOK, queue # <<>>
  PROVE  Tail(queue) \in Seq(Kinds) /\ Len(Tail(queue)) <= QueueCap
  BY RequestAssumption DEF TypeOK

(* The queue setup() creates is empty.                                     *)
LEMMA EmptyTyped == <<>> \in Seq(Kinds) /\ Len(<<>>) <= QueueCap
  BY RequestAssumption

(* What a boot leaves behind is well typed.                                *)
LEMMA BootTyped == ASSUME TypeOK, Boot PROVE TypeOK'
<1>1. queue' \in Seq(Kinds) /\ Len(queue') <= QueueCap
  BY EmptyTyped DEF Boot
<1>2. /\ millis' \in Ms /\ relayOffAt' \in Ms /\ resultUntil' \in Ms
      /\ lastExitMs' \in Ms /\ lag' \in 0 .. MaxLag /\ owed' \in 0 .. Hold
  BY WidthPositive, ClockAssumption DEF Boot, Ms
<1>3. /\ led' \in Leds /\ accPc' \in AccPcs /\ loopPc' \in LoopPcs
      /\ syncPc' \in SyncPcs
  BY DEF Boot, Leds, AccPcs, LoopPcs, SyncPcs
<1>4. QED
  BY <1>1, <1>2, <1>3 DEF Boot, TypeOK, bounds

-----------------------------------------------------------------------------
(* setup() leaves every variable well typed.                                *)
LEMMA TypeInitial == Init => TypeOK
<1> SUFFICES ASSUME Init PROVE TypeOK
  OBVIOUS
<1>1. queue \in Seq(Kinds) /\ Len(queue) <= QueueCap
  BY EmptyTyped DEF Init
<1>2. /\ millis \in Ms /\ relayOffAt \in Ms /\ resultUntil \in Ms
      /\ lastExitMs \in Ms /\ lag \in 0 .. MaxLag /\ owed \in 0 .. Hold
      /\ requests \in 0 .. MaxRequests /\ flips \in 0 .. MaxFlips
  BY WidthPositive, ClockAssumption, RequestAssumption DEF Init, Ms
<1>3. led \in Leds /\ accPc \in AccPcs /\ loopPc \in LoopPcs /\ syncPc \in SyncPcs
  BY DEF Init, Leds, AccPcs, LoopPcs, SyncPcs
<1>4. QED
  BY <1>1, <1>2, <1>3 DEF Init, TypeOK

(* Every step of every task keeps every variable well typed.                *)
LEMMA TypeInductive == TypeOK /\ [Next]_vars => TypeOK'
<1> SUFFICES ASSUME TypeOK, [Next]_vars PROVE TypeOK'
  OBVIOUS
<1> USE DEF TypeOK
<1>1. CASE Tick
  <2>1. millis' \in Ms
    BY <1>1, AfterIsMs DEF Tick
  <2>2. lag' \in 0 .. MaxLag /\ owed' \in 0 .. Hold
    BY <1>1, ClockAssumption DEF Tick
  <2>3. QED
    BY <1>1, <2>1, <2>2 DEF Tick, relayVars, resultVars, bounds
<1>2. CASE WindowFlips
  BY <1>2, RequestAssumption DEF WindowFlips, relayVars, resultVars, history
<1>3. CASE \E kind \in Kinds : Post(kind)
  <2>1. PICK kind \in Kinds : Post(kind)
    BY <1>3
  <2>2. /\ queue' \in Seq(Kinds) /\ Len(queue') <= QueueCap
        /\ requests' \in 0 .. MaxRequests
    BY <2>1, SendTyped DEF Post
  <2>3. QED
    BY <2>1, <2>2 DEF Post, relayVars, resultVars, history
<1>4. CASE Access
  <2>1. CASE \E granted \in BOOLEAN : AccReceive(granted)
    <3>1. PICK granted \in BOOLEAN : AccReceive(granted)
      BY <2>1
    <3>2. queue' \in Seq(Kinds) /\ Len(queue') <= QueueCap
      BY <3>1, TakeTyped DEF AccReceive
    <3>3. led' \in Leds /\ accPc' \in AccPcs
      BY <3>1 DEF AccReceive, AccStep, Leds, AccPcs
    <3>4. QED
      BY <3>1, <3>2, <3>3 DEF AccReceive, relayVars, bounds, history
  <2>2. CASE AccEnergise
    BY <2>2, ClockAssumption
       DEF AccEnergise, AccStep, AccPcs, resultVars, bounds
  <2>3. CASE AccArm
    <3>1. relayOffAt' \in Ms
      BY <2>3, AfterIsMs, ClockAssumption DEF AccArm
    <3>2. zeroed' \in BOOLEAN /\ accPc' \in AccPcs
      BY <2>3 DEF AccArm, AccStep, AccPcs
    <3>3. QED
      BY <2>3, <3>1, <3>2 DEF AccArm, resultVars, bounds
  <2>4. CASE AccResult
    <3>1. resultUntil' \in Ms
      BY <2>4, AfterIsMs, ClockAssumption DEF AccResult
    <3>2. zeroed' \in BOOLEAN /\ accPc' \in AccPcs
      BY <2>4 DEF AccResult, AccStep, AccPcs
    <3>3. QED
      BY <2>4, <3>1, <3>2 DEF AccResult, relayVars, bounds
  <2>5. QED
    BY <1>4, <2>1, <2>2, <2>3, <2>4 DEF Access
<1>5. CASE Loop
  <2>1. CASE \E pressed \in BOOLEAN : LoopExit(pressed)
    <3>1. PICK pressed \in BOOLEAN : LoopExit(pressed)
      BY <2>1
    <3>2. /\ queue' \in Seq(Kinds) /\ Len(queue') <= QueueCap
          /\ requests' \in 0 .. MaxRequests /\ lastExitMs' \in Ms
      BY <3>1, SendTyped DEF LoopExit
    <3>3. lag' \in 0 .. MaxLag /\ loopPc' \in LoopPcs
      BY <3>1, ClockAssumption DEF LoopExit, LoopStep, LoopPcs
    <3>4. QED
      BY <3>1, <3>2, <3>3 DEF LoopExit, relayVars, resultVars, history
  <2>2. CASE LoopSched
    BY <2>2 DEF LoopSched, LoopPcs, relayVars, resultVars, bounds
  <2>3. /\ relay' \in BOOLEAN /\ relayOffAt' \in Ms
        /\ led' \in Leds /\ resultUntil' \in Ms /\ loopPc' \in LoopPcs
        /\ UNCHANGED <<millis, schedActive, window, queue, accPc, lastExitMs,
                       lag, syncPc, bounds, history>>
        => TypeOK'
    BY DEF bounds, history
  <2>4. CASE \/ LoopWindowOn \/ LoopWindowOff \/ LoopWindowDrop \/ LoopClear
             \/ LoopExpiry \/ LoopDrop \/ LoopVerdict \/ LoopVerdictClear
    <3>1. 0 \in Ms
      BY WidthPositive DEF Ms
    <3>2. loopPc' \in LoopPcs
      BY <2>4 DEF LoopWindowOn, LoopWindowOff, LoopWindowDrop, LoopClear, LoopExpiry,
                  LoopDrop, LoopVerdict, LoopVerdictClear, LoopStep, LoopPcs
    <3>3. /\ relay' \in BOOLEAN /\ relayOffAt' \in Ms
          /\ led' \in Leds /\ resultUntil' \in Ms
      BY <2>4, <3>1 DEF LoopWindowOn, LoopWindowOff, LoopWindowDrop, LoopClear,
           LoopExpiry, LoopDrop, LoopVerdict, LoopVerdictClear, relayVars, resultVars
    <3>4. QED
      BY <2>3, <2>4, <3>2, <3>3
         DEF LoopWindowOn, LoopWindowOff, LoopWindowDrop, LoopClear,
             LoopExpiry, LoopDrop, LoopVerdict, LoopVerdictClear
  <2>5. CASE LoopWindowLed \/ LoopDropLed \/ LoopVerdictLed
    <3>1. led' \in Leds /\ loopPc' \in LoopPcs
      BY <2>5 DEF LoopWindowLed, LoopDropLed, LoopVerdictLed, LoopStep, LoopPcs, Leds
    <3>2. QED
      BY <2>3, <2>5, <3>1 DEF LoopWindowLed, LoopDropLed, LoopVerdictLed, relayVars
  <2>6. QED
    BY <1>5, <2>1, <2>2, <2>3, <2>4, <2>5 DEF Loop
<1>6. CASE Sync
  <2>1. CASE SyncRestart
    BY <2>1, BootTyped DEF SyncRestart
  <2>2. CASE SyncTakeRestart
    BY <2>2 DEF SyncTakeRestart, SyncPcs, relayVars, resultVars, bounds
  <2>3. CASE \E asked \in BOOLEAN : SyncOffer(asked)
    BY <2>3 DEF SyncOffer, SyncPcs, relayVars, resultVars, bounds
  <2>4. CASE \E ok \in BOOLEAN : SyncDownloaded(ok)
    BY <2>4 DEF SyncDownloaded, SyncPcs, relayVars, resultVars, bounds, history
  <2>5. QED
    BY <1>6, <2>1, <2>2, <2>3, <2>4 DEF Sync
<1>7. CASE PowerCycle
  BY <1>7, BootTyped DEF PowerCycle
<1>8. CASE UNCHANGED vars
  BY <1>8 DEF vars, relayVars, resultVars, bounds, history
<1>9. QED
  BY <1>1, <1>2, <1>3, <1>4, <1>5, <1>6, <1>7, <1>8 DEF Next

(* Type correctness, of every variable in every reachable state.           *)
THEOREM TypeCorrect == Spec => []TypeOK
  BY TypeInitial, TypeInductive, PTL DEF Spec

-----------------------------------------------------------------------------
(* loop() marks a window active before it energises the strike for it.     *)
WindowMarked == loopPc = "windowOn" => schedActive

AccountedInv == StrikeAccounted /\ WindowMarked

(* An energised strike always has someone who is going to drop it (or a
   deadline wrapped to 0), whatever the interleaving of the three tasks.   *)
THEOREM StrikeIsAccounted == Spec => []StrikeAccounted
<1>1. Init => AccountedInv
  BY DEF Init, AccountedInv, StrikeAccounted, WindowMarked
<1>2. AccountedInv /\ [Next]_vars => AccountedInv'
  <2> SUFFICES ASSUME AccountedInv, [Next]_vars PROVE AccountedInv'
    OBVIOUS
  <2> USE DEF AccountedInv, StrikeAccounted, WindowMarked
  <2>1. CASE Tick \/ WindowFlips
    BY <2>1 DEF Tick, WindowFlips, relayVars, history
  <2>2. CASE \E kind \in Kinds : Post(kind)
    BY <2>2 DEF Post, relayVars, history
  <2>3. CASE Access
    <3>1. CASE \E granted \in BOOLEAN : AccReceive(granted)
      BY <3>1 DEF AccReceive, AccStep, relayVars, history
    <3>2. CASE AccEnergise
      BY <3>2 DEF AccEnergise, AccStep
    <3>3. CASE AccArm
      BY <3>3 DEF AccArm, AccStep
    <3>4. CASE AccResult
      BY <3>4 DEF AccResult, AccStep, relayVars
    <3>5. QED
      BY <2>3, <3>1, <3>2, <3>3, <3>4 DEF Access
  <2>4. CASE Loop
    <3>1. CASE \E pressed \in BOOLEAN : LoopExit(pressed)
      BY <3>1 DEF LoopExit, LoopStep, relayVars, history
    <3>2. CASE LoopSched
      BY <3>2 DEF LoopSched, relayVars
    <3>3. CASE LoopWindowOn \/ LoopWindowOff \/ LoopWindowDrop \/ LoopWindowLed
      BY <3>3 DEF LoopWindowOn, LoopWindowOff, LoopWindowDrop, LoopWindowLed,
                  LoopStep, relayVars, history
    <3>4. CASE LoopExpiry \/ LoopClear \/ LoopDrop \/ LoopDropLed
      BY <3>4 DEF LoopExpiry, LoopClear, LoopDrop, LoopDropLed,
                  LoopStep, relayVars, history
    <3>5. CASE LoopVerdict \/ LoopVerdictClear \/ LoopVerdictLed
      BY <3>5 DEF LoopVerdict, LoopVerdictClear, LoopVerdictLed,
                  LoopStep, relayVars, history
    <3>6. QED
      BY <2>4, <3>1, <3>2, <3>3, <3>4, <3>5 DEF Loop
  <2>5. CASE Sync
    <3>1. CASE SyncRestart
      BY <3>1 DEF SyncRestart, Boot
    <3>2. CASE SyncTakeRestart \/ \E asked \in BOOLEAN : SyncOffer(asked)
      BY <3>2 DEF SyncTakeRestart, SyncOffer, relayVars
    <3>3. CASE \E ok \in BOOLEAN : SyncDownloaded(ok)
      BY <3>3 DEF SyncDownloaded, relayVars, history
    <3>4. QED
      BY <2>5, <3>1, <3>2, <3>3 DEF Sync
  <2>6. CASE PowerCycle
    BY <2>6 DEF PowerCycle, Boot
  <2>7. CASE UNCHANGED vars
    BY <2>7 DEF vars, relayVars, history
  <2>8. QED
    BY <2>1, <2>2, <2>3, <2>4, <2>5, <2>6, <2>7 DEF Next
<1>3. AccountedInv => StrikeAccounted
  BY DEF AccountedInv
<1>4. QED
  BY <1>1, <1>2, <1>3, PTL DEF Spec

-----------------------------------------------------------------------------
(* The clock's arithmetic: a sum or a difference of two clock values is less
   than one wrap away from its value modulo the width.                     *)
LEMMA ModLow == ASSUME NEW x \in Int, 0 <= x, x < Width PROVE x % Width = x
  BY WidthPositive

LEMMA ModNegative == ASSUME NEW x \in Int, -Width <= x, x < 0 PROVE x % Width = x + Width
  BY WidthPositive

LEMMA ModWrapped ==
  ASSUME NEW x \in Int, Width <= x, x < 2 * Width PROVE x % Width = x - Width
<1>1. \A q \in Int : q >= 2 => Width * q >= 2 * Width
  BY WidthPositive
<1>2. \A q \in Int : q <= 0 => Width * q <= 0
  BY WidthPositive
<1>3. QED
  BY <1>1, <1>2, WidthPositive, Z3

(* Ticks until the clock next reads t.                                     *)
Left(t) == IF t >= millis THEN t - millis ELSE t - millis + Width

(* A tick brings every deadline one tick nearer.                           *)
LEMMA TickLeft ==
  ASSUME millis \in Ms, NEW t \in Ms, millis' = After(1), Left(t) > 0
  PROVE  Left(t)' = Left(t) - 1
<1>1. millis \in Int /\ t \in Int /\ 0 <= millis /\ millis < Width /\ 0 <= t /\ t < Width
  BY WidthPositive DEF Ms
<1>2. CASE millis + 1 < Width
  <2>1. millis' = millis + 1
    BY <1>1, <1>2, ModLow DEF After
  <2>2. QED
    BY <1>1, <2>1, WidthPositive DEF Left
<1>3. CASE millis + 1 = Width
  <2>1. millis' = 0
    BY <1>1, <1>3, ModWrapped, WidthPositive DEF After
  <2>2. QED
    BY <1>1, <1>3, <2>1 DEF Left
<1>4. QED
  BY <1>1, <1>2, <1>3, WidthPositive

(* A deadline just written is as far ahead as it was meant to be.          *)
LEMMA AfterLeft ==
  ASSUME millis \in Ms, NEW d \in Nat, d < Width PROVE Left(After(d)) = d
<1>1. millis \in Int /\ 0 <= millis /\ millis < Width
  BY WidthPositive DEF Ms
<1>2. CASE millis + d < Width
  BY <1>1, <1>2, ModLow DEF After, Left
<1>3. CASE millis + d >= Width
  BY <1>1, <1>3, ModWrapped, WidthPositive DEF After, Left
<1>4. QED
  BY <1>1, <1>2, <1>3, WidthPositive

(* A deadline at most half a wrap ahead has not been met.                  *)
LEMMA NotExpired ==
  ASSUME millis \in Ms, NEW t \in Ms, Left(t) > 0, 2 * Left(t) < Width
  PROVE  ~Expired(t)
<1>1. millis \in Int /\ t \in Int /\ 0 <= millis /\ millis < Width /\ 0 <= t /\ t < Width
  BY WidthPositive DEF Ms
<1>2. (millis - t) % Width = Width - Left(t)
  <2>1. CASE t > millis
    BY <1>1, <2>1, ModNegative, WidthPositive DEF Left
  <2>2. CASE t < millis
    BY <1>1, <2>2, ModLow, WidthPositive DEF Left
  <2>3. QED
    BY <1>1, <2>1, <2>2 DEF Left
<1>3. QED
  BY <1>1, <1>2, WidthPositive DEF Expired, Left

-----------------------------------------------------------------------------
(* While a grant given at an idle door still has release coming, loop() is not
   about to drop the strike, and a deadline, once written, is at least as far
   ahead as the release that is owed.                                       *)
GrantRunning ==
  fresh /\ owed > 0 =>
    /\ relay /\ ~schedActive
    /\ loopPc \notin {"windowOff", "windowDrop", "clear", "drop"}
    /\ relayOffAt # 0 => Left(relayOffAt) >= owed /\ Left(relayOffAt) <= Hold
    /\ accPc # "arm" => relayOffAt # 0 \/ zeroed

(* Once cloudsync has decided to restart or to download, such a grant came after
   it asked, or between its two statements.                                 *)
RestartDecided == syncPc # "idle" /\ fresh /\ owed > 0 => late \/ zeroed

GrantInv == TypeOK /\ GrantRunning /\ RestartDecided

(* Nothing that leaves the grant, the strike and loop()'s place alone can end
   it.                                                                      *)
LEMMA GrantUntouched ==
  ASSUME GrantRunning, UNCHANGED <<millis, relayVars, schedActive, owed, fresh>>,
         loopPc' \in {"windowOff", "windowDrop", "clear", "drop"} => loopPc' = loopPc,
         accPc' # "arm" => accPc # "arm", zeroed => zeroed'
  PROVE  GrantRunning'
  BY DEF GrantRunning, relayVars, Left

(* Every step keeps a grant running, and every restart's excuse.            *)
LEMMA GrantInductive == GrantInv /\ [Next]_vars => GrantInv'
<1> SUFFICES ASSUME GrantInv, [Next]_vars PROVE GrantRunning' /\ RestartDecided'
  BY TypeInductive DEF GrantInv
<1>0. /\ millis \in Ms /\ relayOffAt \in Ms /\ owed \in 0 .. Hold /\ Hold \in Nat \ {0}
      /\ Hold < Width /\ 2 * Hold < Width
  BY ClockAssumption DEF GrantInv, TypeOK
<1>1. GrantRunning /\ RestartDecided
  BY DEF GrantInv
<1>2. CASE Tick
  <2>1. owed' > 0 => owed > 0 /\ owed' = owed - 1
    BY <1>0, <1>2 DEF Tick
  <2>2. RestartDecided'
    BY <1>1, <1>2, <2>1 DEF Tick, RestartDecided
  <2>3. ASSUME fresh, owed' > 0, relayOffAt # 0
        PROVE  Left(relayOffAt)' >= owed' /\ Left(relayOffAt)' <= Hold
    <3>1. Left(relayOffAt) >= owed /\ Left(relayOffAt) <= Hold
      BY <1>1, <2>1, <2>3 DEF GrantRunning
    <3>2. millis' = After(1) /\ relayOffAt' = relayOffAt
      BY <1>2 DEF Tick, relayVars
    <3>3. Left(relayOffAt) \in Int /\ Left(relayOffAt) > 0
      BY <1>0, <2>1, <2>3, <3>1, WidthPositive DEF Left, Ms
    <3>4. Left(relayOffAt)' = Left(relayOffAt) - 1
      BY <1>0, <3>2, <3>3, TickLeft DEF Left
    <3>5. QED
      BY <1>0, <2>1, <2>3, <3>1, <3>3, <3>4
  <2>4. GrantRunning'
    BY <1>1, <1>2, <2>1, <2>3 DEF Tick, GrantRunning, relayVars
  <2>5. QED
    BY <2>2, <2>4
<1>3. CASE WindowFlips \/ \E kind \in Kinds : Post(kind)
  BY <1>1, <1>3, GrantUntouched
     DEF WindowFlips, Post, RestartDecided, relayVars, history
<1>4. CASE Access
  <2>1. CASE \E granted \in BOOLEAN : AccReceive(granted)
    BY <1>1, <2>1, GrantUntouched DEF AccReceive, AccStep, RestartDecided, history
  <2>2. CASE AccEnergise
    BY <2>2 DEF AccEnergise, AccStep, GrantRunning, RestartDecided, relayVars
  <2>3. CASE AccArm
    <3>1. relayOffAt' = After(Hold) /\ millis' = millis
      BY <2>3 DEF AccArm
    <3>2. Left(relayOffAt)' = Hold
      BY <1>0, <3>1, AfterLeft DEF Left
    <3>3. relayOffAt' # 0 \/ zeroed'
      BY <2>3 DEF AccArm
    <3>4. GrantRunning'
      <4>1. UNCHANGED <<relay, schedActive, loopPc, owed, fresh>>
        BY <2>3 DEF AccArm
      <4>2. QED
        BY <1>0, <1>1, <3>2, <3>3, <4>1 DEF GrantRunning
    <3>5. RestartDecided'
      BY <1>1, <2>3 DEF AccArm, RestartDecided
    <3>6. QED
      BY <3>4, <3>5
  <2>4. CASE AccResult
    BY <1>1, <2>4, GrantUntouched DEF AccResult, AccStep, RestartDecided
  <2>5. QED
    BY <1>4, <2>1, <2>2, <2>3, <2>4 DEF Access
<1>5. CASE Loop
  <2>1. RestartDecided'
    BY <1>1, <1>5 DEF Loop, LoopExit, LoopSched, LoopWindowOn, LoopWindowOff,
       LoopWindowDrop, LoopWindowLed, LoopExpiry, LoopClear, LoopDrop, LoopDropLed,
       LoopVerdict, LoopVerdictClear, LoopVerdictLed, RestartDecided, history
  <2>2. CASE \E pressed \in BOOLEAN : LoopExit(pressed)
    BY <1>1, <2>1, <2>2, GrantUntouched DEF LoopExit, LoopStep, history
  <2>3. CASE LoopSched
    <3>1. /\ schedActive' = window /\ fresh' = (fresh /\ window = schedActive)
          /\ loopPc' = IF window = schedActive THEN "expiry"
                       ELSE IF window THEN "windowOn" ELSE "windowOff"
          /\ UNCHANGED <<millis, relayVars, accPc, owed, zeroed>>
      BY <2>3 DEF LoopSched
    <3>2. CASE fresh'
      <4>1. fresh /\ schedActive' = schedActive /\ fresh' = fresh
        BY <3>1, <3>2
      <4>2. loopPc' = "expiry"
        BY <3>1, <4>1
      <4>3. QED
        BY <1>1, <2>1, <3>1, <4>1, <4>2, GrantUntouched
    <3>3. CASE ~fresh'
      BY <2>1, <3>3 DEF GrantRunning
    <3>4. QED
      BY <3>2, <3>3
  <2>4. CASE LoopWindowOn
    BY <1>1, <2>1, <2>4 DEF LoopWindowOn, LoopStep, GrantRunning, history, Left
  <2>5. CASE LoopWindowOff \/ LoopWindowDrop \/ LoopClear \/ LoopDrop
    BY <1>1, <2>1, <2>5 DEF LoopWindowOff, LoopWindowDrop, LoopClear, LoopDrop, LoopStep,
                            GrantRunning, history
  <2>6. CASE LoopExpiry
    <3>1. ASSUME fresh, owed > 0, relayOffAt # 0 PROVE ~Expired(relayOffAt)
      <4>1. Left(relayOffAt) >= owed /\ Left(relayOffAt) <= Hold
        BY <1>1, <3>1 DEF GrantRunning
      <4>2. Left(relayOffAt) \in Int
        BY <1>0, WidthPositive DEF Left, Ms
      <4>3. Left(relayOffAt) > 0 /\ 2 * Left(relayOffAt) < Width
        BY <1>0, <3>1, <4>1, <4>2, WidthPositive
      <4>4. QED
        BY <1>0, <4>3, NotExpired
    <3>2. QED
      BY <1>1, <2>1, <2>6, <3>1 DEF LoopExpiry, GrantRunning, relayVars, history, Left
  <2>7. CASE LoopWindowLed \/ LoopDropLed \/ LoopVerdict \/ LoopVerdictClear \/ LoopVerdictLed
    <3>1. loopPc' \in {"verdict", "verdictClear", "verdictLed", "exit", "expiry"}
      BY <2>7 DEF LoopWindowLed, LoopDropLed, LoopVerdict, LoopVerdictClear,
                  LoopVerdictLed, LoopStep
    <3>2. QED
      BY <1>1, <2>1, <2>7, <3>1, GrantUntouched
         DEF LoopWindowLed, LoopDropLed, LoopVerdict, LoopVerdictClear, LoopVerdictLed,
             resultVars, history
  <2>8. QED
    BY <1>5, <2>2, <2>3, <2>4, <2>5, <2>6, <2>7 DEF Loop
<1>6. CASE Sync
  <2>1. CASE SyncRestart
    BY <1>0, <2>1 DEF SyncRestart, Boot, GrantRunning, RestartDecided
  <2>2. CASE SyncTakeRestart \/ \E asked \in BOOLEAN : SyncOffer(asked)
    <3>1. relayOffAt = 0 /\ late' = (accPc = "arm")
      BY <2>2 DEF SyncTakeRestart, SyncOffer, SafeToUpdate, SafeToRestart
    <3>2. UNCHANGED <<millis, relayVars, schedActive, owed, fresh, loopPc, accPc, zeroed>>
      BY <2>2 DEF SyncTakeRestart, SyncOffer
    <3>3. RestartDecided'
      BY <1>1, <3>1, <3>2 DEF RestartDecided, GrantRunning
    <3>4. QED
      BY <1>1, <3>2, <3>3, GrantUntouched
  <2>3. CASE \E ok \in BOOLEAN : SyncDownloaded(ok)
    BY <1>1, <2>3, GrantUntouched DEF SyncDownloaded, RestartDecided, history
  <2>4. QED
    BY <1>6, <2>1, <2>2, <2>3 DEF Sync
<1>7. CASE PowerCycle
  BY <1>0, <1>7 DEF PowerCycle, Boot, GrantRunning, RestartDecided
<1>8. CASE UNCHANGED vars
  BY <1>1, <1>8, GrantUntouched DEF vars, RestartDecided, history
<1>9. QED
  BY <1>2, <1>3, <1>4, <1>5, <1>6, <1>7, <1>8 DEF Next

(* No grant is running when the controller starts.                          *)
LEMMA GrantInitial == Init => GrantInv
  BY TypeInitial DEF Init, GrantInv, GrantRunning, RestartDecided

(* A grant given at an idle door is held for the whole hold: no wrap of the
   clock, round of loop() or later request cuts it short. *)
THEOREM GrantIsHeld == Spec => []FreshGrantHeld
<1>1. GrantInv => FreshGrantHeld
  BY DEF GrantInv, GrantRunning, FreshGrantHeld
<1>2. QED
  BY <1>1, GrantInitial, GrantInductive, PTL DEF Spec

(* A restart ends such a grant only through the gap between asking whether the
   door is idle and acting on the answer, or between the grant's statements. *)
THEOREM RestartIsSafe == Spec => RestartSparesRelease
<1>1. GrantInv /\ [Next]_vars => [SyncRestart /\ fresh /\ owed > 0 => late \/ zeroed]_vars
  BY DEF GrantInv, RestartDecided, SyncRestart
<1>2. QED
  BY <1>1, GrantInitial, GrantInductive, PTL DEF Spec, RestartSparesRelease

-----------------------------------------------------------------------------
(* UnlockSchedule: the arithmetic of the week.                             *)

LEMMA Positive == Days \in Nat /\ Days > 0 /\ Minutes \in Nat /\ Minutes > 0
  BY WeekAssumption

LEMMA Monotone ==
  ASSUME NEW a \in Int, NEW b \in Int, a <= b PROVE a * Minutes <= b * Minutes
<1>1. \A c \in Nat : c * Minutes >= 0
  BY Positive
<1>2. b - a \in Nat /\ b * Minutes = a * Minutes + (b - a) * Minutes
  BY Positive
<1>3. QED
  BY <1>1, <1>2, Positive

(* A minute of the week is in one day, at one minute of it.                *)
LEMMA SamePlace ==
  ASSUME NEW a \in Int, NEW b \in Int, NEW r \in 0 .. Minutes - 1, NEW s \in 0 .. Minutes - 1,
         a * Minutes + r = b * Minutes + s
  PROVE  a = b /\ r = s
<1>1. \A c, d \in Int : c + 1 <= d => c * Minutes + Minutes <= d * Minutes
  <2> SUFFICES ASSUME NEW c \in Int, NEW d \in Int, c + 1 <= d
               PROVE  c * Minutes + Minutes <= d * Minutes
    OBVIOUS
  <2>1. (c + 1) * Minutes <= d * Minutes
    BY Monotone
  <2>2. QED
    BY <2>1, Positive
<1>2. ~(a + 1 <= b) /\ ~(b + 1 <= a)
  BY <1>1, Positive
<1>3. a = b
  BY <1>2
<1>4. QED
  BY <1>3, Positive

Week == Days * Minutes

LEMMA WeekPositive == Week \in Nat /\ Week >= Minutes
<1>1. 1 * Minutes <= Days * Minutes
  BY Monotone, Positive
<1>2. QED
  BY <1>1, Positive DEF Week

LEMMA MinuteOfWeek ==
  ASSUME NEW d \in DaySet, NEW r \in 0 .. Minutes - 1
  PROVE  d * Minutes + r \in 0 .. Week - 1
<1>1. 0 * Minutes <= d * Minutes /\ (d + 1) * Minutes <= Days * Minutes
  BY Monotone, Positive DEF DaySet
<1>2. QED
  BY <1>1, Positive DEF Week, DaySet

(* The clock shows a day of the week and a minute of it.                   *)
LEMMA ClockSplits ==
  ASSUME clock \in 0 .. Days * Minutes - 1
  PROVE  /\ clock \div Minutes \in DaySet /\ clock % Minutes \in 0 .. Minutes - 1
         /\ clock = (clock \div Minutes) * Minutes + (clock % Minutes)
<1> DEFINE q == clock \div Minutes
<1>1. q \in Int /\ clock % Minutes \in 0 .. Minutes - 1 /\ clock = q * Minutes + (clock % Minutes)
  BY Positive
<1>2. q < Days
  <2>1. Days <= q => Days * Minutes <= q * Minutes
    BY <1>1, Monotone, Positive
  <2>2. QED
    BY <1>1, <2>1, Positive
<1>3. q >= 0
  <2>1. q + 1 <= 0 => (q + 1) * Minutes <= 0 * Minutes
    BY <1>1, Monotone
  <2>2. QED
    BY <1>1, <2>1, Positive
<1>4. QED
  BY <1>1, <1>2, <1>3, Positive DEF DaySet

Tomorrow(d) == IF d = Days - 1 THEN 0 ELSE d + 1

(* x minutes after the start of a day, up to two days, round the week.     *)
LEMMA InWeek ==
  ASSUME NEW d \in DaySet, NEW x \in 0 .. 2 * Minutes - 1
  PROVE  (d * Minutes + x) % Week = IF x < Minutes THEN d * Minutes + x
                                    ELSE Tomorrow(d) * Minutes + (x - Minutes)
<1>1. \A y \in 0 .. Week - 1 : y % Week = y
  BY WeekPositive, Positive
<1>2. CASE x < Minutes
  <2>1. d * Minutes + x \in 0 .. Week - 1
    BY <1>2, MinuteOfWeek, Positive
  <2>2. QED
    BY <1>1, <1>2, <2>1
<1>3. CASE x >= Minutes /\ d # Days - 1
  <2>1. d + 1 \in DaySet /\ x - Minutes \in 0 .. Minutes - 1
    BY <1>3, Positive DEF DaySet
  <2>2. (d + 1) * Minutes + (x - Minutes) \in 0 .. Week - 1
    BY <2>1, MinuteOfWeek
  <2>3. (d + 1) * Minutes + (x - Minutes) = d * Minutes + x
    BY Positive DEF DaySet
  <2>4. QED
    BY <1>1, <1>3, <2>2, <2>3, Positive DEF Tomorrow
<1>4. CASE x >= Minutes /\ d = Days - 1
  <2>1. d * Minutes + x = Week + (x - Minutes)
    BY <1>4, Positive DEF Week
  <2>2. x - Minutes \in 0 .. Week - 1
    BY <1>4, WeekPositive, Positive
  <2>3. (Week + (x - Minutes)) % Week = x - Minutes
    BY <2>2, WeekPositive, Positive
  <2>4. QED
    BY <1>4, <2>1, <2>3, Positive DEF Tomorrow
<1>5. QED
  BY <1>2, <1>3, <1>4, Positive

-----------------------------------------------------------------------------
(* The schedule covers the minute the clock shows exactly if one of its    *)
(* windows does.                                                           *)

LEMMA Yesterday ==
  ASSUME NEW day \in DaySet
  PROVE  (day + Days - 1) % Days = IF day = 0 THEN Days - 1 ELSE day - 1
<1>1. CASE day = 0
  <2>1. (Days - 1) % Days = Days - 1
    BY Positive
  <2>2. QED
    BY <1>1, <2>1, Positive
<1>2. CASE day # 0
  <2>1. day + Days - 1 = Days + (day - 1) /\ day - 1 \in 0 .. Days - 1
    BY <1>2, Positive DEF DaySet
  <2>2. (Days + (day - 1)) % Days = day - 1
    BY <2>1, Positive
  <2>3. QED
    BY <1>2, <2>1, <2>2
<1>3. QED
  BY <1>1, <1>2

LEMMA Length ==
  ASSUME NEW s \in Schedules
  PROVE  (s.end - s.start + Minutes) % Minutes
           = IF s.start <= s.end THEN s.end - s.start ELSE s.end - s.start + Minutes
<1>1. s.start \in 0 .. Minutes - 1 /\ s.end \in 0 .. Minutes - 1
  BY DEF Schedules
<1>2. CASE s.start <= s.end
  <2>1. \A y \in 0 .. Minutes - 1 : (y + Minutes) % Minutes = y
    BY Positive
  <2>2. QED
    BY <1>1, <1>2, <2>1, Positive
<1>3. CASE s.start > s.end
  <2>1. s.end - s.start + Minutes \in 0 .. Minutes - 1
    BY <1>1, <1>3, Positive
  <2>2. QED
    BY <1>1, <1>3, <2>1, Positive
<1>4. QED
  BY <1>1, <1>2, <1>3

LEMMA ActiveCovers ==
  ASSUME NEW s \in Schedules, NEW day \in DaySet, NEW cur \in 0 .. Minutes - 1
  PROVE  day * Minutes + cur \in Window(s) <=> s.start # s.end /\ Active(s, day, cur)
<1> DEFINE length == (s.end - s.start + Minutes) % Minutes
<1>1. s.start \in 0 .. Minutes - 1 /\ s.end \in 0 .. Minutes - 1 /\ s.days \subseteq DaySet
  BY DEF Schedules
<1>2. length = IF s.start <= s.end THEN s.end - s.start ELSE s.end - s.start + Minutes
  BY Length
<1> HIDE DEF length
<1>3. \A x : x \in Window(s) <=>
        \E d \in s.days, k \in 0 .. length - 1 : x = (d * Minutes + s.start + k) % Week
  BY DEF Window, Week, length
<1>4. \A d \in DaySet, k \in Int : d * Minutes + s.start + k = d * Minutes + (s.start + k)
  BY <1>1, Positive DEF DaySet
<1>5. ASSUME s.start # s.end, Active(s, day, cur) PROVE day * Minutes + cur \in Window(s)
  <2>1. CASE day \in s.days /\ s.start <= cur /\ (s.start < s.end => cur < s.end)
    <3>1. cur - s.start \in 0 .. length - 1
      BY <1>1, <1>2, <1>5, <2>1, Positive
    <3>2. s.start + (cur - s.start) = cur /\ cur - s.start \in Int
      BY <1>1, Positive
    <3>3. (day * Minutes + cur) % Week = day * Minutes + cur
      BY InWeek, Positive
    <3>4. day * Minutes + cur = (day * Minutes + s.start + (cur - s.start)) % Week
      BY <1>4, <3>2, <3>3
    <3>5. QED
      BY <1>3, <2>1, <3>1, <3>4
  <2>2. CASE ((day + Days - 1) % Days) \in s.days /\ s.start > s.end /\ cur < s.end
    <3> DEFINE d == IF day = 0 THEN Days - 1 ELSE day - 1
    <3>1. d \in s.days /\ d \in DaySet /\ Tomorrow(d) = day
      BY <2>2, Yesterday, Positive DEF DaySet, Tomorrow
    <3>2. Minutes + cur - s.start \in 0 .. length - 1
      BY <1>1, <1>2, <2>2, Positive
    <3> HIDE DEF d
    <3>3. Minutes + cur \in 0 .. 2 * Minutes - 1 /\ ~(Minutes + cur < Minutes)
          /\ Minutes + cur - Minutes = cur
          /\ s.start + (Minutes + cur - s.start) = Minutes + cur
      BY <1>1, Positive
    <3>4. (d * Minutes + (Minutes + cur)) % Week = day * Minutes + cur
      <4>1. ASSUME NEW x \in 0 .. 2 * Minutes - 1, x = Minutes + cur
            PROVE  (d * Minutes + x) % Week = day * Minutes + cur
        <5>1. ~(x < Minutes) /\ x - Minutes = cur
          BY <4>1, Positive
        <5>2. (d * Minutes + x) % Week = Tomorrow(d) * Minutes + (x - Minutes)
          BY <3>1, <5>1, InWeek
        <5>3. QED
          BY <3>1, <5>1, <5>2
      <4>2. QED
        BY <3>3, <4>1
    <3>5. Minutes + cur - s.start \in Int
      BY <1>1, Positive
    <3>6. day * Minutes + cur = (d * Minutes + s.start + (Minutes + cur - s.start)) % Week
      BY <1>4, <3>1, <3>3, <3>4, <3>5
    <3>7. QED
      BY <1>3, <3>1, <3>2, <3>6
  <2>3. QED
    BY <1>1, <1>5, <2>1, <2>2 DEF Active
<1>6. ASSUME day * Minutes + cur \in Window(s) PROVE s.start # s.end /\ Active(s, day, cur)
  <2>1. PICK d \in s.days, k \in 0 .. length - 1 :
          day * Minutes + cur = (d * Minutes + s.start + k) % Week
    BY <1>3, <1>6
  <2> DEFINE x == s.start + k
  <2>2. /\ d \in DaySet /\ x \in 0 .. 2 * Minutes - 1 /\ s.start <= x /\ s.start # s.end
        /\ IF s.start < s.end THEN x < s.end ELSE x - Minutes < s.end
    BY <1>1, <1>2, Positive
  <2>3. day * Minutes + cur = (d * Minutes + x) % Week
    BY <1>4, <2>1, <2>2
  <2> HIDE DEF x
  <2>4. CASE x < Minutes
    <3>1. day * Minutes + cur = d * Minutes + x /\ x \in 0 .. Minutes - 1
      BY <2>2, <2>3, <2>4, InWeek, Positive
    <3>2. day = d /\ cur = x
      BY <2>2, <3>1, SamePlace DEF DaySet
    <3>3. QED
      BY <1>1, <2>1, <2>2, <3>2 DEF Active
  <2>5. CASE x >= Minutes
    <3>1. day * Minutes + cur = Tomorrow(d) * Minutes + (x - Minutes)
          /\ x - Minutes \in 0 .. Minutes - 1
      BY <2>2, <2>3, <2>5, InWeek, Positive
    <3>2. day = Tomorrow(d) /\ cur = x - Minutes
      BY <2>2, <3>1, SamePlace, Positive DEF DaySet, Tomorrow
    <3>3. (day + Days - 1) % Days = d
      BY <2>2, <3>2, Yesterday, Positive DEF DaySet, Tomorrow
    <3>4. s.start > s.end /\ cur < s.end
      BY <1>1, <2>2, <2>5, <3>2, Positive
    <3>5. QED
      BY <1>1, <2>1, <2>2, <3>3, <3>4 DEF Active
  <2>6. QED
    BY <2>2, <2>4, <2>5, Positive
<1>7. QED
  BY <1>5, <1>6

-----------------------------------------------------------------------------
(* Types.                                                                  *)

FieldsTyped ==
  ram \in Schedules /\ nvs \in Schedules /\ next \in Schedules /\ pc \in 0 .. 8

SwitchesTyped == paired \in BOOLEAN /\ timeValid \in BOOLEAN /\ active \in BOOLEAN

RestTyped ==
  /\ want \in Schedules /\ clock \in 0 .. Days * Minutes - 1
  /\ changes \in 0 .. MaxChanges /\ crashes \in 0 .. MaxCrashes

LEMMA ScheduleTypeParts == ScheduleTypeOK <=> FieldsTyped /\ SwitchesTyped /\ RestTyped
  BY DEF ScheduleTypeOK, FieldsTyped, SwitchesTyped, RestTyped

LEMMA ScheduleInitialTypes == ScheduleInit => ScheduleTypeOK
<1> SUFFICES ASSUME ScheduleInit PROVE ScheduleTypeOK
  OBVIOUS
<1>1. Default \in Schedules
  BY Positive DEF Default, Schedules
<1>2. 0 \in 0 .. Days * Minutes - 1
  BY WeekPositive, Positive DEF Week
<1>3. SwitchesTyped
  BY Zenon DEF ScheduleInit, SwitchesTyped
<1>4. FieldsTyped /\ RestTyped
  BY <1>1, <1>2, WeekAssumption, OffersAssumption DEF ScheduleInit, Idle, FieldsTyped, RestTyped
<1>5. QED
  BY <1>3, <1>4, ScheduleTypeParts

(* Copying one field of a schedule to another gives a schedule.            *)
LEMMA CopyField ==
  ASSUME NEW s \in Schedules, NEW t \in Schedules, NEW k \in 1 .. 8
  PROVE  [s EXCEPT ![FieldOf(k)] = t[FieldOf(k)]] \in Schedules
<1>1. \/ FieldOf(k) = "en" \/ FieldOf(k) = "start"
      \/ FieldOf(k) = "end" \/ FieldOf(k) = "days"
  BY DEF FieldOf, Fields
<1>2. CASE FieldOf(k) = "en"
  BY <1>2 DEF Schedules
<1>3. CASE FieldOf(k) = "start"
  BY <1>3 DEF Schedules
<1>4. CASE FieldOf(k) = "end"
  BY <1>4 DEF Schedules
<1>5. CASE FieldOf(k) = "days"
  BY <1>5 DEF Schedules
<1>6. QED
  BY <1>1, <1>2, <1>3, <1>4, <1>5

LEMMA ClampedTyped == ASSUME NEW r \in Requests PROVE Clamped(r) \in Schedules
<1>1. \A m \in 0 .. Minutes : Clamp(m) \in 0 .. Minutes - 1
  BY Positive DEF Clamp
<1>2. Clamp(r.start) \in 0 .. Minutes - 1 /\ Clamp(r.end) \in 0 .. Minutes - 1
  BY <1>1 DEF Requests
<1>3. ASSUME NEW a \in 0 .. Minutes - 1, NEW b \in 0 .. Minutes - 1
      PROVE  [r EXCEPT !.start = a, !.end = b] \in Schedules
  BY DEF Requests, Schedules
<1>4. QED
  BY <1>2, <1>3 DEF Clamped

LEMMA ScheduleTypeStep == ScheduleTypeOK /\ [ScheduleNext]_scheduleVars => ScheduleTypeOK'
<1> SUFFICES ASSUME ScheduleTypeOK, [ScheduleNext]_scheduleVars PROVE ScheduleTypeOK'
  OBVIOUS
<1> FieldsTyped /\ SwitchesTyped /\ RestTyped
  BY ScheduleTypeParts
<1>1. want \in Requests
  BY Positive DEF RestTyped, Schedules, Requests
<1>2. FieldsTyped'
  <2>1. CASE ConfigSync \/ PageSet
    BY <1>1, <2>1, ClampedTyped DEF ConfigSync, PageSet, Managed, Set, FieldsTyped, Idle
  <2>2. CASE SetField
    <3>1. pc \in 1 .. 8 /\ pc' \in 0 .. 8 /\ UNCHANGED <<nvs, next>>
      BY <2>2 DEF SetField
    <3>2. ram' \in Schedules
      BY <2>2, <3>1, CopyField, Zenon DEF SetField, FieldsTyped
    <3>3. QED
      BY <3>1, <3>2 DEF FieldsTyped
  <2>3. CASE SaveField
    <3>1. pc \in 1 .. 8 /\ pc' \in 0 .. 8 /\ UNCHANGED <<ram, next>>
      BY <2>3 DEF SaveField
    <3>2. nvs' \in Schedules
      BY <2>3, <3>1, CopyField, Zenon DEF SaveField, FieldsTyped
    <3>3. QED
      BY <3>1, <3>2 DEF FieldsTyped
  <2>4. CASE Restart
    BY <2>4 DEF Restart, FieldsTyped, Idle
  <2>5. CASE Evaluate \/ Minute \/ ClockSet \/ Change \/ Pair \/ UNCHANGED scheduleVars
    BY <2>5 DEF Evaluate, Minute, ClockSet, Change, Pair, scheduleVars, fields, FieldsTyped
  <2>6. QED
    BY <2>1, <2>2, <2>3, <2>4, <2>5 DEF ScheduleNext, Setting
<1>3. SwitchesTyped'
  <2>1. active' \in BOOLEAN
    BY Zenon DEF ScheduleNext, Setting, ConfigSync, PageSet, Managed, SetField, SaveField, Restart, Evaluate,
       IsActiveNow, Minute, ClockSet, Change, Pair, scheduleVars, SwitchesTyped
  <2>2. paired' \in BOOLEAN /\ timeValid' \in BOOLEAN
    BY Zenon DEF ScheduleNext, Setting, ConfigSync, PageSet, Managed, SetField, SaveField, Restart, Evaluate,
       Minute, ClockSet, Change, Pair, scheduleVars, backend, time, SwitchesTyped
  <2>3. QED
    BY <2>1, <2>2 DEF SwitchesTyped
<1>4. RestTyped'
  <2>1. clock' \in 0 .. Days * Minutes - 1
    <3>1. CASE Minute
      <4>1. (clock + 1) % Week \in 0 .. Week - 1
        BY WeekPositive, Positive DEF RestTyped, Week
      <4>2. QED
        BY <3>1, <4>1 DEF Minute, Week
    <3>2. CASE UNCHANGED clock
      BY <3>2 DEF RestTyped
    <3>3. QED
      BY <3>1, <3>2 DEF ScheduleNext, Setting, ConfigSync, PageSet, Managed, SetField, SaveField, Restart,
         Evaluate, ClockSet, Change, Pair, scheduleVars, time
  <2>2. /\ want' \in Schedules
        /\ changes' \in 0 .. MaxChanges /\ crashes' \in 0 .. MaxCrashes
    BY WeekAssumption, OffersAssumption DEF ScheduleNext, Setting, ConfigSync, PageSet, Managed, SetField,
       SaveField, Restart, Evaluate, Minute, ClockSet, Change, Pair, scheduleVars, backend, scheduleBounds,
       RestTyped
  <2>3. QED
    BY <2>1, <2>2 DEF RestTyped
<1>5. QED
  BY <1>2, <1>3, <1>4 DEF ScheduleTypeOK, FieldsTyped, SwitchesTyped, RestTyped, Schedules, DaySet

(* Every variable keeps its type: what set() stores is clamped to the day. *)
THEOREM ScheduleTypeCorrect == ScheduleSpec => []ScheduleTypeOK
  BY ScheduleInitialTypes, ScheduleTypeStep, PTL DEF ScheduleSpec

(* Whenever the time is known, isActiveNow says exactly whether the minute *)
(* lies in a window that began on one of the schedule's days: daytime and  *)
(* overnight, across the end of the week, for a week of any length, and for *)
(* the mixtures of two schedules that loop() may read.                     *)
THEOREM ActiveMeansWindow == ScheduleSpec => []ActiveIsWindow
<1>1. ScheduleTypeOK => ActiveIsWindow
  <2> SUFFICES ASSUME ScheduleTypeOK, timeValid PROVE IsActiveNow(ram) <=> ram.en /\ clock \in Window(ram)
    BY DEF ActiveIsWindow
  <2> DEFINE day == clock \div Minutes
             cur == clock % Minutes
  <2>1. ram \in Schedules /\ clock \in 0 .. Days * Minutes - 1
    BY DEF ScheduleTypeOK
  <2>2. day \in DaySet /\ cur \in 0 .. Minutes - 1 /\ clock = day * Minutes + cur
    BY <2>1, ClockSplits
  <2>3. clock \in Window(ram) <=> ram.start # ram.end /\ Active(ram, day, cur)
    BY <2>1, <2>2, ActiveCovers
  <2>4. Active(ram, day, cur) => ram.days # {}
    BY DEF Active
  <2>5. QED
    BY <2>3, <2>4, Zenon DEF IsActiveNow
<1>2. QED
  BY <1>1, ScheduleTypeCorrect, PTL

=============================================================================
