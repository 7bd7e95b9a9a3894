------------------------------ MODULE DoorRelay ------------------------------
(***************************************************************************)
(* The door strike of src/main.cpp: who energises the relay, who releases  *)
(* it, and what can happen between two of their statements.                *)
(*                                                                         *)
(*   accessTask   takes requests off appEventQueue; a granted one lights   *)
(*                the reader green, energises the relay, then writes the   *)
(*                deadline relayOffAt; every one ends by putting the       *)
(*                verdict on the OLED and arming resultUntil               *)
(*   loop()       polls the exit button, follows the unlock schedule,      *)
(*                drops the relay when the deadline passes and clears the  *)
(*                verdict when its own deadline passes                     *)
(*   cloudsync    restarts the controller, for a new image, on request or  *)
(*                to heal its heap, after asking whether the door is idle  *)
(*                                                                         *)
(* The tasks share volatile scalars and take no lock, so every access to a *)
(* shared scalar is a step of its own.  Time is millis(): a counter that   *)
(* wraps at Width, with deadlines compared by the sign of a difference.    *)
(* One tick stands for a few hundred milliseconds.                         *)
(***************************************************************************)
EXTENDS Integers, Sequences

CONSTANTS
  Width,        \* millis() wraps at this value (2^32 in the code)
  Hold,         \* gRelayHoldMs, in ticks
  ResultHold,   \* gResultHoldMs, in ticks
  ExitGap,      \* the exit button's rate limit (1500 ms), in ticks
  MaxLag,       \* ticks that may pass within one iteration of loop()
  QueueCap,     \* capacity of appEventQueue (10 in the code)
  Kinds,        \* requests that may be made: a subset of RequestKinds
  MaxRequests,  \* bound: requests made in one behaviour
  MaxFlips,     \* bound: times the unlock window opens or closes
  OledOk        \* was the display found at boot?

RequestKinds == {"tap", "exit", "remote"}

ASSUME ClockAssumption ==
  /\ Width \in Nat /\ Hold \in Nat \ {0} /\ ResultHold \in Nat \ {0}
  /\ 2 * (Hold + MaxLag) < Width /\ 2 * (ResultHold + MaxLag) < Width
  /\ ExitGap \in Nat /\ MaxLag \in Nat \ {0}
ASSUME RequestAssumption ==
  /\ Kinds \subseteq RequestKinds
  /\ QueueCap \in Nat \ {0} /\ MaxRequests \in Nat /\ MaxFlips \in Nat
  /\ OledOk \in BOOLEAN

VARIABLES
  millis,       \* the hardware clock
  relay,        \* PIN_RELAY is HIGH: the strike is energised, the door unlocked
  relayOffAt,   \* when loop() drops the relay; 0 = no release in progress
  led,          \* the reader's LED
  resultUntil,  \* when loop() clears the verdict; 0 = none shown
  schedActive,  \* gSchedActive: loop() holds the door open for a window
  window,       \* what UnlockSchedule::isActiveNow() would answer
  queue,        \* appEventQueue
  accPc,        \* where accessTask is
  loopPc,       \* where loop() is
  lastExitMs,   \* loop()'s rate limit on the exit button
  lag,          \* ticks since loop() began its current iteration
  syncPc,       \* what the cloudsync task is about to do to the controller
  requests,     \* requests made so far (bounded by MaxRequests)
  flips,        \* window changes so far (bounded by MaxFlips)
  owed,         \* history: ticks of release the last grant still has coming
  fresh,        \* history: that grant began with no other release in flight
  late,         \* history: a grant began after cloudsync's safety check
  zeroed        \* history: some deadline since boot came out as exactly 0

relayVars  == <<relay, relayOffAt>>
resultVars == <<led, resultUntil>>
bounds     == <<requests, flips>>
history    == <<owed, fresh, late, zeroed>>
vars == <<millis, relayVars, resultVars, schedActive, window, queue, accPc,
          loopPc, lastExitMs, lag, syncPc, bounds, history>>

AccPcs  == {"receive", "energise", "arm", "result"}
LoopPcs == {"exit", "sched", "windowOn", "windowOff", "windowDrop", "windowLed",
            "expiry", "clear", "drop", "dropLed",
            "verdict", "verdictClear", "verdictLed"}
SyncPcs == {"idle", "download", "downloadOwed", "restarting"}
Leds    == {"idle", "granted", "denied"}
Ms      == 0 .. Width - 1

TypeOK ==
  /\ millis \in Ms /\ relayOffAt \in Ms /\ resultUntil \in Ms
  /\ lastExitMs \in Ms
  /\ relay \in BOOLEAN /\ schedActive \in BOOLEAN /\ window \in BOOLEAN
  /\ led \in Leds
  /\ queue \in Seq(Kinds) /\ Len(queue) <= QueueCap
  /\ accPc \in AccPcs /\ loopPc \in LoopPcs /\ syncPc \in SyncPcs
  /\ lag \in 0 .. MaxLag
  /\ requests \in 0 .. MaxRequests /\ flips \in 0 .. MaxFlips
  /\ owed \in 0 .. Hold
  /\ fresh \in BOOLEAN /\ late \in BOOLEAN /\ zeroed \in BOOLEAN

-----------------------------------------------------------------------------
(* millis() arithmetic.                                                    *)

\* millis() + d, as an unsigned long.
After(d) == (millis + d) % Width

\* Mutant: the deadline is met only by the tick it names.
ExpiredExactly(t) == millis = t

\* Mutant: deadlines compared as plain numbers, which the wrap breaks.
ExpiredNoWrap(t) == millis >= t

\* (long)(millis() - t) >= 0: the wrapped difference, read as signed.
Expired(t) == 2 * ((millis - t) % Width) < Width

\* (millis() - t) > d, unsigned.
Elapsed(t, d) == (millis - t) % Width > d

(* A tick of the clock.  loop() comes round every 100 ms, so the clock never
   runs away from it by more than MaxLag ticks; every grant has one tick less
   of release coming.                                                      *)
Tick ==
  /\ lag < MaxLag
  /\ lag' = lag + 1
  /\ millis' = After(1)
  /\ owed' = IF owed = 0 THEN 0 ELSE owed - 1
  /\ UNCHANGED <<relayVars, resultVars, schedActive, window, queue, accPc,
                 loopPc, lastExitMs, syncPc, bounds, fresh, late, zeroed>>

\* The clock, the calendar or a new configuration moves the unlock window.
WindowFlips ==
  /\ flips < MaxFlips
  /\ flips' = flips + 1
  /\ window' = ~window
  /\ UNCHANGED <<millis, relayVars, resultVars, schedActive, queue, accPc,
                 loopPc, lastExitMs, lag, syncPc, requests, history>>

-----------------------------------------------------------------------------
(* Requests.  xQueueSend(..., 0) never waits: a full queue drops the event. *)

Send(kind) ==
  /\ requests < MaxRequests
  /\ requests' = requests + 1
  /\ queue' = IF Len(queue) < QueueCap THEN Append(queue, kind) ELSE queue

\* readerTask posts a card tap; the cloudsync task, when it is not busy with an
\* image or a restart, posts a remote release.
Post(kind) ==
  /\ kind \in Kinds \ {"exit"}
  /\ kind = "remote" => syncPc = "idle"
  /\ Send(kind)
  /\ UNCHANGED <<millis, relayVars, resultVars, schedActive, window, accPc,
                 loopPc, lastExitMs, lag, syncPc, flips, history>>

-----------------------------------------------------------------------------
(* accessTask.                                                             *)

AccStep(from, to) == accPc = from /\ accPc' = to

\* A request is decided.  Exit presses and remote releases are always honoured;
\* the roster decides a tap.  The reader shows the verdict first, then the
\* buzzer blocks the task for a while.
AccReceive(granted) ==
  /\ queue # <<>>
  /\ Head(queue) \in {"exit", "remote"} => granted
  /\ queue' = Tail(queue)
  /\ led' = IF granted THEN "granted" ELSE "denied"
  /\ AccStep("receive", IF granted THEN "energise" ELSE "result")
  /\ UNCHANGED <<millis, relayVars, resultUntil, schedActive, window, loopPc,
                 lastExitMs, lag, syncPc, bounds, history>>

\* relayGrantedNonBlocking, first statement: the strike is energised.
AccEnergise ==
  /\ AccStep("energise", "arm")
  /\ relay' = TRUE
  /\ owed' = Hold
  /\ fresh' = (~relay /\ relayOffAt = 0 /\ ~schedActive
               /\ loopPc \notin {"windowOff", "windowDrop", "clear", "drop"})
  /\ late' = (late \/ syncPc # "idle")
  /\ UNCHANGED <<millis, relayOffAt, resultVars, schedActive, window, queue,
                 loopPc, lastExitMs, lag, syncPc, bounds, zeroed>>

\* relayGrantedNonBlocking, second statement: the deadline.
AccArm ==
  /\ AccStep("arm", "result")
  /\ relayOffAt' = After(Hold)
  /\ zeroed' = (zeroed \/ After(Hold) = 0)
  /\ UNCHANGED <<millis, relay, resultVars, schedActive, window, queue, loopPc,
                 lastExitMs, lag, syncPc, bounds, owed, fresh, late>>

\* Mutant: the verdict's timer is armed for a grant only.
AccResultGrantOnly ==
  /\ AccStep("result", "receive")
  /\ resultUntil' = IF OledOk /\ led = "granted" THEN After(ResultHold) ELSE resultUntil
  /\ zeroed' = (zeroed \/ (OledOk /\ After(ResultHold) = 0))
  /\ UNCHANGED <<millis, relayVars, led, schedActive, window, queue, loopPc,
                 lastExitMs, lag, syncPc, bounds, owed, fresh, late>>

\* oledShowResult returns at once when there is no display; otherwise it arms
\* the deadline at which loop() clears the verdict.
AccResult ==
  /\ AccStep("result", "receive")
  /\ resultUntil' = IF OledOk THEN After(ResultHold) ELSE resultUntil
  /\ zeroed' = (zeroed \/ (OledOk /\ After(ResultHold) = 0))
  /\ UNCHANGED <<millis, relayVars, led, schedActive, window, queue, loopPc,
                 lastExitMs, lag, syncPc, bounds, owed, fresh, late>>

-----------------------------------------------------------------------------
(* loop(), one iteration from top to bottom.                               *)

LoopStep(from, to) == loopPc = from /\ loopPc' = to

\* The exit button: at most one request every ExitGap while it is held.
LoopExit(pressed) ==
  /\ LoopStep("exit", "sched")
  /\ pressed => "exit" \in Kinds
  /\ lag' = 0
  /\ IF pressed /\ Elapsed(lastExitMs, ExitGap)
       THEN lastExitMs' = millis /\ Send("exit")
       ELSE UNCHANGED <<lastExitMs, queue, requests>>
  /\ UNCHANGED <<millis, relayVars, resultVars, schedActive, window, accPc,
                 syncPc, flips, history>>

\* The unlock schedule: loop() acts when the window opens or closes.
LoopSched ==
  /\ loopPc = "sched"
  /\ schedActive' = window
  /\ loopPc' = IF window = schedActive THEN "expiry"
               ELSE IF window THEN "windowOn" ELSE "windowOff"
  /\ fresh' = (fresh /\ window = schedActive)
  /\ UNCHANGED <<millis, relayVars, resultVars, window, queue, accPc, lastExitMs,
                 lag, syncPc, bounds, owed, late, zeroed>>

LoopWindowOn ==
  /\ LoopStep("windowOn", "windowLed")
  /\ relay' = TRUE
  /\ UNCHANGED <<millis, relayOffAt, resultVars, schedActive, window, queue, accPc,
                 lastExitMs, lag, syncPc, bounds, history>>

LoopWindowOff ==
  /\ LoopStep("windowOff", "windowDrop")
  /\ relayOffAt' = 0
  /\ UNCHANGED <<millis, relay, resultVars, schedActive, window, queue, accPc,
                 lastExitMs, lag, syncPc, bounds, history>>

LoopWindowDrop ==
  /\ LoopStep("windowDrop", "windowLed")
  /\ relay' = FALSE
  /\ UNCHANGED <<millis, relayOffAt, resultVars, schedActive, window, queue, accPc,
                 lastExitMs, lag, syncPc, bounds, history>>

LoopWindowLed ==
  /\ LoopStep("windowLed", "expiry")
  /\ led' = IF schedActive THEN "granted" ELSE "idle"
  /\ UNCHANGED <<millis, relayVars, resultUntil, schedActive, window, queue, accPc,
                 lastExitMs, lag, syncPc, bounds, history>>

\* The end of a release: tested, then forgotten, then acted on.
LoopExpiry ==
  /\ loopPc = "expiry"
  /\ loopPc' = IF relayOffAt # 0 /\ Expired(relayOffAt) THEN "clear" ELSE "verdict"
  /\ UNCHANGED <<millis, relayVars, resultVars, schedActive, window, queue, accPc,
                 lastExitMs, lag, syncPc, bounds, history>>

LoopClear ==
  /\ LoopStep("clear", "drop")
  /\ relayOffAt' = 0
  /\ UNCHANGED <<millis, relay, resultVars, schedActive, window, queue, accPc,
                 lastExitMs, lag, syncPc, bounds, history>>

\* Mutant: the schedule is asked again instead of the state loop() has acted on.
LoopDropAsksAgain ==
  /\ loopPc = "drop"
  /\ IF window
       THEN loopPc' = "verdict" /\ UNCHANGED relay
       ELSE loopPc' = "dropLed" /\ relay' = FALSE
  /\ UNCHANGED <<millis, relayOffAt, resultVars, schedActive, window, queue, accPc,
                 lastExitMs, lag, syncPc, bounds, history>>

\* A window that is open keeps the strike energised and the light green.
LoopDrop ==
  /\ loopPc = "drop"
  /\ IF schedActive
       THEN loopPc' = "verdict" /\ UNCHANGED relay
       ELSE loopPc' = "dropLed" /\ relay' = FALSE
  /\ UNCHANGED <<millis, relayOffAt, resultVars, schedActive, window, queue, accPc,
                 lastExitMs, lag, syncPc, bounds, history>>

LoopDropLed ==
  /\ LoopStep("dropLed", "verdict")
  /\ led' = "idle"
  /\ UNCHANGED <<millis, relayVars, resultUntil, schedActive, window, queue, accPc,
                 lastExitMs, lag, syncPc, bounds, history>>

\* The end of a verdict, in the same three steps.
LoopVerdict ==
  /\ loopPc = "verdict"
  /\ loopPc' = IF resultUntil # 0 /\ Expired(resultUntil) THEN "verdictClear" ELSE "exit"
  /\ UNCHANGED <<millis, relayVars, resultVars, schedActive, window, queue, accPc,
                 lastExitMs, lag, syncPc, bounds, history>>

LoopVerdictClear ==
  /\ LoopStep("verdictClear", "verdictLed")
  /\ resultUntil' = 0
  /\ UNCHANGED <<millis, relayVars, led, schedActive, window, queue, accPc,
                 lastExitMs, lag, syncPc, bounds, history>>

LoopVerdictLed ==
  /\ LoopStep("verdictLed", "exit")
  /\ led' = IF schedActive THEN "granted" ELSE "idle"
  /\ UNCHANGED <<millis, relayVars, resultUntil, schedActive, window, queue, accPc,
                 lastExitMs, lag, syncPc, bounds, history>>

-----------------------------------------------------------------------------
(* The cloudsync task and power.                                           *)

\* The predicates main.cpp hands to CloudSync.
SafeToUpdate  == relayOffAt = 0 /\ ~schedActive
\* Mutant: a restart waits for nothing but the unlock window.
SafeToRestartAnyTime == ~schedActive
SafeToRestart == relayOffAt = 0

\* Asked only inside the sync that carries the offer; the image is downloaded
\* after it.  A restart someone asked for is marked honoured before the download
\* ("owed"): a successful update would have been that restart.
SyncOffer(restartAsked) ==
  /\ syncPc = "idle"
  /\ SafeToUpdate
  /\ syncPc' = IF restartAsked THEN "downloadOwed" ELSE "download"
  /\ late' = (accPc = "arm")
  /\ UNCHANGED <<millis, relayVars, resultVars, schedActive, window, queue, accPc,
                 loopPc, lastExitMs, lag, bounds, owed, fresh, zeroed>>

\* A committed image restarts the door.  A failed one does so only to honour the
\* restart it was holding.
SyncDownloaded(ok) ==
  /\ syncPc \in {"download", "downloadOwed"}
  /\ syncPc' = IF ok \/ syncPc = "downloadOwed" THEN "restarting" ELSE "idle"
  /\ UNCHANGED <<millis, relayVars, resultVars, schedActive, window, queue, accPc,
                 loopPc, lastExitMs, lag, bounds, history>>

\* A restart from the admin app, or one to heal the heap.
SyncTakeRestart ==
  /\ syncPc = "idle"
  /\ SafeToRestart
  /\ syncPc' = "restarting"
  /\ late' = (accPc = "arm")
  /\ UNCHANGED <<millis, relayVars, resultVars, schedActive, window, queue, accPc,
                 loopPc, lastExitMs, lag, bounds, owed, fresh, zeroed>>

\* What setup() leaves behind: every volatile is gone and the pin is driven LOW.
Boot ==
  /\ relay' = FALSE /\ relayOffAt' = 0 /\ led' = "idle" /\ resultUntil' = 0
  /\ schedActive' = FALSE /\ queue' = <<>>
  /\ accPc' = "receive" /\ loopPc' = "exit" /\ syncPc' = "idle"
  /\ millis' = 0 /\ lastExitMs' = 0 /\ lag' = 0
  /\ owed' = 0 /\ fresh' = FALSE /\ late' = FALSE /\ zeroed' = FALSE
  /\ UNCHANGED <<window, bounds>>

\* 250 ms after the decision, ESP.restart().
SyncRestart == syncPc = "restarting" /\ Boot

\* The supply, or the reboot button of /setup, which asks nobody.
PowerCycle == Boot

-----------------------------------------------------------------------------
Init ==
  /\ relay = FALSE /\ relayOffAt = 0 /\ led = "idle" /\ resultUntil = 0
  /\ schedActive = FALSE /\ window \in BOOLEAN /\ queue = <<>>
  /\ accPc = "receive" /\ loopPc = "exit" /\ syncPc = "idle"
  /\ millis = 0 /\ lastExitMs = 0 /\ lag = 0
  /\ requests = 0 /\ flips = 0
  /\ owed = 0 /\ fresh = FALSE /\ late = FALSE /\ zeroed = FALSE

Access ==
  \/ \E granted \in BOOLEAN : AccReceive(granted)
  \/ AccEnergise \/ AccArm \/ AccResult

Loop ==
  \/ \E pressed \in BOOLEAN : LoopExit(pressed)
  \/ LoopSched \/ LoopWindowOn \/ LoopWindowOff \/ LoopWindowDrop \/ LoopWindowLed
  \/ LoopExpiry \/ LoopClear \/ LoopDrop \/ LoopDropLed
  \/ LoopVerdict \/ LoopVerdictClear \/ LoopVerdictLed

Sync ==
  \/ \E asked \in BOOLEAN : SyncOffer(asked)
  \/ \E ok \in BOOLEAN : SyncDownloaded(ok)
  \/ SyncTakeRestart \/ SyncRestart

Next ==
  \/ Tick \/ WindowFlips
  \/ \E kind \in Kinds : Post(kind)
  \/ Access \/ Loop \/ Sync
  \/ PowerCycle

Spec == Init /\ [][Next]_vars

(* FreeRTOS schedules both tasks for ever and the clock runs; nothing is said
   of people, of the window or of the cloud.                               *)
Fairness == WF_vars(Tick) /\ WF_vars(Access) /\ WF_vars(Loop)

FairSpec == Spec /\ Fairness

-----------------------------------------------------------------------------
(* What the strike promises.                                               *)

(* An energised strike always has someone who is going to drop it: a deadline
   that loop() will meet, an open window, a grant about to write its deadline
   or loop() about to lock.  The one exception is a deadline that came out as
   exactly 0, which relayOffAt reads as "none".                            *)
StrikeAccounted ==
  relay => \/ relayOffAt # 0
           \/ schedActive
           \/ accPc = "arm"
           \/ loopPc \in {"windowOff", "windowDrop", "drop"}
           \/ zeroed

(* A grant given at a door with no release in flight is held for the whole
   hold, unless the unlock window opens or closes meanwhile.               *)
FreshGrantHeld == fresh /\ owed > 0 => relay

(* A restart cuts such a grant short only if the grant came after cloudsync
   asked whether the door was idle, or between the grant's two statements; a
   release whose deadline was already written then is waited for.          *)
RestartSparesRelease ==
  [][SyncRestart /\ fresh /\ owed > 0 => late \/ zeroed]_vars

(* An energised strike is released, unless a window holds it.              *)
StrikeRelocks == relay ~> (~relay \/ schedActive \/ zeroed)

\* The light says something that is not so: red when nothing is being denied any
\* more, or green at a locked door.
LedStale == led = "denied" \/ (led = "granted" /\ ~relay)

(* The light at the door is put right in the end.                          *)
LedCorrected == LedStale ~> (~LedStale \/ zeroed)

=============================================================================
