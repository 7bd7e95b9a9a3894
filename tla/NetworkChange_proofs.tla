-------------------------- MODULE NetworkChange_proofs --------------------------
(***************************************************************************)
(* Proofs about NetworkChange, for any networks, times and bounds.         *)
(*                                                                         *)
(* KeptWorks needs to know what a change of network will store: what it    *)
(* falls back on was stored before, and what it tries is what the radio    *)
(* calls (ChangeSound).  SetupOnce counts: an access point that has been   *)
(* raised, or is going to be, has cost two changes of mind (SetupCounted). *)
(***************************************************************************)
EXTENDS NetworkChange, TLAPS

Modes == {"off", "connecting", "joined", "opening", "portal", "sta"}
Changes == {"idle", "trying", "reverting", "done", "failed"}
Spendings == {"flips", "cuts", "presses", "visits", "forms", "asks"}

CredsTyped ==
  /\ up \subseteq Networks /\ nvs \in Creds \cup {NoCreds}
  /\ new \in Creds \cup {NoCreds} /\ old \in Creds \cup {NoCreds}
  /\ entered \subseteq Creds \cup {NoCreds} /\ untried \subseteq Creds \cup {NoCreds}
  /\ radio \in [to : Creds \cup {NoCreds}, left : Nat]

FlagsTyped ==
  /\ recovery \in BOOLEAN /\ forced \in BOOLEAN /\ retrying \in BOOLEAN
  /\ saved \in BOOLEAN /\ pending \in BOOLEAN /\ taking \in BOOLEAN
  /\ was \in BOOLEAN /\ ran \in BOOLEAN /\ setupAP \in BOOLEAN
  /\ wanted \in BOOLEAN /\ req \in BOOLEAN /\ armed \in BOOLEAN
  /\ arming \in BOOLEAN /\ torn \in BOOLEAN /\ quiet \in BOOLEAN

TimersTyped == timer \in Nat /\ rest \in Nat /\ used \in Nat /\ setupLeft \in Nat

ModeTyped ==
  /\ mode \in Modes /\ change \in Changes
  /\ forced \/ saved \/ retrying => mode = "portal"
  /\ pending \/ taking \/ Changing \/ setupAP => mode = "sta"

SpentTyped == /\ spent \in [Spendings -> Nat]
              /\ \A what \in Spendings : spent[what] <= Budget[what]

WellTyped == CredsTyped /\ FlagsTyped /\ TimersTyped /\ ModeTyped /\ SpentTyped

-----------------------------------------------------------------------------
(* The waits are numbers, and no credentials at all are nobody's.          *)
LEMMA Numbers ==
  /\ ConnectTime \in Nat /\ RecoveryTime \in Nat /\ WindowTime \in Nat
  /\ IntervalTime \in Nat /\ InUseTime \in Nat /\ TryTime \in Nat
  /\ RevertTime \in Nat /\ SetupTime \in Nat /\ AgainTime \in Nat
  BY TimesAssumption DEF Waits

LEMMA BudgetTyped == DOMAIN Budget = Spendings /\ \A what \in Spendings : Budget[what] \in Nat
<1>1. /\ MaxFlips \in Nat /\ MaxCuts \in Nat /\ MaxPresses \in Nat
      /\ MaxVisits \in Nat /\ MaxForms \in Nat /\ MaxAsks \in Nat
  BY TimesAssumption
<1>2. QED
  BY <1>1 DEF Budget, Spendings

LEMMA TypedIsTypeOK == WellTyped => TypeOK
<1> SUFFICES ASSUME WellTyped PROVE TypeOK
  OBVIOUS
<1>1. \A what \in DOMAIN Budget : spent[what] \in 0..Budget[what]
  BY BudgetTyped DEF WellTyped, SpentTyped
<1>2. {new, old} \cup entered \cup untried \subseteq Creds \cup {NoCreds}
  BY DEF WellTyped, CredsTyped
<1>3. radio.to \in Creds \cup {NoCreds} /\ {radio.left, timer} \subseteq Nat
  BY DEF WellTyped, CredsTyped, TimersTyped
<1>4. QED
  BY <1>1, <1>2, <1>3 DEF WellTyped, CredsTyped, FlagsTyped, TimersTyped, ModeTyped, TypeOK,
                          Modes, Changes

(* Calling a network, or nobody, leaves the radio well typed.              *)
LEMMA CallingTyped ==
  ASSUME NEW c \in Creds \cup {NoCreds}
  PROVE  /\ Calling(c) \in [to : Creds \cup {NoCreds}, left : Nat] /\ Calling(c).to = c
         /\ Idle \in [to : Creds \cup {NoCreds}, left : Nat]
<1>1. c # NoCreds => JoinTime[c.ssid] \in Nat
  BY TimesAssumption DEF Creds
<1>2. QED
  BY <1>1 DEF Calling, Idle

LEMMA InitTyped == Init => WellTyped
<1> SUFFICES ASSUME Init PROVE WellTyped
  OBVIOUS
<1>1. nvs \in Creds \cup {NoCreds}
  BY DEF Init
<1>2. Idle \in [to : Creds \cup {NoCreds}, left : Nat]
  BY CallingTyped
<1>3. CredsTyped
  BY <1>1, <1>2 DEF Init, CredsTyped
<1>4. FlagsTyped /\ TimersTyped /\ ModeTyped
  BY Numbers DEF Init, FlagsTyped, TimersTyped, ModeTyped, Modes, Changes, Changing
<1>5. SpentTyped
  BY BudgetTyped DEF Init, SpentTyped
<1>6. QED
  BY <1>3, <1>4, <1>5 DEF WellTyped

-----------------------------------------------------------------------------
(* What the world does is counted, each kind of its own.                   *)
LEMMA SpendTyped ==
  ASSUME SpentTyped, NEW what \in Spendings, Spend(what)
  PROVE  /\ SpentTyped'
         /\ \A other \in Spendings : spent'[other] = IF other = what THEN spent[what] + 1
                                                     ELSE spent[other]
  BY BudgetTyped DEF SpentTyped, Spend

LEMMA SpentStep ==
  ASSUME WellTyped, Next
  PROVE  /\ SpentTyped'
         /\ spent'["asks"] = spent["asks"] \/ (Ask /\ spent'["asks"] = spent["asks"] + 1)
<1> /\ SpentTyped
    /\ {"flips", "cuts", "presses", "visits", "forms", "asks"} \subseteq Spendings
  BY DEF WellTyped, Spendings
<1>1. ASSUME NEW what \in Spendings, what # "asks", Spend(what)
      PROVE  SpentTyped' /\ spent'["asks"] = spent["asks"]
  BY <1>1, SpendTyped
<1>2. ASSUME UNCHANGED spent PROVE SpentTyped' /\ spent'["asks"] = spent["asks"]
  BY <1>2 DEF SpentTyped
<1>3. CASE Ask
  BY <1>3, SpendTyped DEF Ask
<1>4. CASE World /\ ~Ask
  BY <1>1, <1>4 DEF World, PowerCut, Restart, BootForced, StartAP, PortalPage, PortalSave,
     ChangeNetwork, RequestChange, PortalTorn, ChangeTorn, TornSave, Flip
<1>5. CASE Door \/ Config \/ Tick
  BY <1>2, <1>5 DEF Door, Config, Tick, BootPlain, StartAP, ConnectPass, Consume, OpenSetupAP,
     ResumeSaved, RetryPass, PortalRestart, ChangeTake, ChangeBegin, ChangeBeginStale, ChangeJoined,
     ChangeReverts, ChangeEnds, ChangeWaits, Supervise, SetupTimeout, CloseSetupAP, ConfigAsked,
     ConfigArmed
<1>6. QED
  BY <1>3, <1>4, <1>5 DEF Next

LEMMA TimersStep == ASSUME WellTyped, Next PROVE TimersTyped'
<1> TimersTyped
  BY DEF WellTyped
<1>1. \A n \in Nat : Less(n) \in Nat
  BY DEF Less
<1>2. CASE Door
  BY <1>2, Numbers DEF TimersTyped, Reset, portal, setup, Door, BootPlain, StartAP, Patience,
     ConnectPass, Consume, OpenSetupAP, ResumeSaved, RetryPass, PortalRestart, ChangeTake,
     ChangeBegin, ChangeBeginStale, ChangeJoined, ChangeReverts, ChangeEnds, ChangeWaits, Supervise,
     SetupTimeout, CloseSetupAP
<1>3. CASE World
  BY <1>3, Numbers DEF TimersTyped, Reset, portal, setup, World, PowerCut, Restart,
     BootForced, StartAP, PortalPage, Ask, PortalSave, ChangeNetwork, RequestChange, PortalTorn, ChangeTorn,
     TornSave, Flip
<1>4. CASE Config
  BY <1>4 DEF TimersTyped, portal, setup, Config, ConfigAsked, ConfigArmed
<1>5. CASE Tick
  BY <1>1, <1>5 DEF TimersTyped, Tick
<1>6. QED
  BY <1>2, <1>3, <1>4, <1>5 DEF Next

LEMMA FlagsStep == ASSUME WellTyped, Next PROVE FlagsTyped'
<1> FlagsTyped
  BY DEF WellTyped
<1>1. Connected \in BOOLEAN
  BY DEF Connected
<1>2. CASE Door
  <2>1. /\ recovery' \in BOOLEAN /\ forced' \in BOOLEAN /\ retrying' \in BOOLEAN
        /\ saved' \in BOOLEAN /\ pending' \in BOOLEAN
    BY <1>1, <1>2, Zenon DEF FlagsTyped, Reset, portal, moving, setup, cloud, history, Door, BootPlain, StartAP,
       ConnectPass, Consume, OpenSetupAP, ResumeSaved, RetryPass, PortalRestart, ChangeTake,
       ChangeBegin, ChangeBeginStale, ChangeJoined, ChangeReverts, ChangeEnds, ChangeWaits, Supervise, SetupTimeout, CloseSetupAP
  <2>2. /\ taking' \in BOOLEAN /\ was' \in BOOLEAN /\ ran' \in BOOLEAN
        /\ setupAP' \in BOOLEAN /\ wanted' \in BOOLEAN
    BY <1>1, <1>2, Zenon DEF FlagsTyped, Reset, portal, moving, setup, cloud, history, Door, BootPlain, StartAP,
       ConnectPass, Consume, OpenSetupAP, ResumeSaved, RetryPass, PortalRestart, ChangeTake,
       ChangeBegin, ChangeBeginStale, ChangeJoined, ChangeReverts, ChangeEnds, ChangeWaits, Supervise, SetupTimeout, CloseSetupAP
  <2>3. /\ req' \in BOOLEAN /\ armed' \in BOOLEAN /\ arming' \in BOOLEAN
        /\ torn' \in BOOLEAN /\ quiet' \in BOOLEAN
    BY <1>1, <1>2, Zenon DEF FlagsTyped, Reset, portal, moving, setup, cloud, history, Door, BootPlain, StartAP,
       ConnectPass, Consume, OpenSetupAP, ResumeSaved, RetryPass, PortalRestart, ChangeTake,
       ChangeBegin, ChangeBeginStale, ChangeJoined, ChangeReverts, ChangeEnds, ChangeWaits, Supervise, SetupTimeout, CloseSetupAP
  <2>4. QED
    BY <2>1, <2>2, <2>3 DEF FlagsTyped
<1>3. CASE World
  <2>1. /\ recovery' \in BOOLEAN /\ forced' \in BOOLEAN /\ retrying' \in BOOLEAN
        /\ saved' \in BOOLEAN /\ pending' \in BOOLEAN
    BY <1>1, <1>3, Zenon DEF FlagsTyped, Reset, portal, moving, setup, cloud, history, World, PowerCut, Restart,
       BootForced, StartAP, PortalPage, Ask, PortalSave, ChangeNetwork, RequestChange, PortalTorn, ChangeTorn,
       TornSave, Flip
  <2>2. /\ taking' \in BOOLEAN /\ was' \in BOOLEAN /\ ran' \in BOOLEAN
        /\ setupAP' \in BOOLEAN /\ wanted' \in BOOLEAN
    BY <1>1, <1>3, Zenon DEF FlagsTyped, Reset, portal, moving, setup, cloud, history, World, PowerCut, Restart,
       BootForced, StartAP, PortalPage, Ask, PortalSave, ChangeNetwork, RequestChange, PortalTorn, ChangeTorn,
       TornSave, Flip
  <2>3. /\ req' \in BOOLEAN /\ armed' \in BOOLEAN /\ arming' \in BOOLEAN
        /\ torn' \in BOOLEAN /\ quiet' \in BOOLEAN
    BY <1>1, <1>3, Zenon DEF FlagsTyped, Reset, portal, moving, setup, cloud, history, World, PowerCut, Restart,
       BootForced, StartAP, PortalPage, Ask, PortalSave, ChangeNetwork, RequestChange, PortalTorn, ChangeTorn,
       TornSave, Flip
  <2>4. QED
    BY <2>1, <2>2, <2>3 DEF FlagsTyped
<1>4. CASE Config
  <2>1. /\ recovery' \in BOOLEAN /\ forced' \in BOOLEAN /\ retrying' \in BOOLEAN
        /\ saved' \in BOOLEAN /\ pending' \in BOOLEAN
    BY <1>1, <1>4, Zenon DEF FlagsTyped, portal, moving, setup, cloud, history, Config, ConfigAsked,
       ConfigArmed
  <2>2. /\ taking' \in BOOLEAN /\ was' \in BOOLEAN /\ ran' \in BOOLEAN
        /\ setupAP' \in BOOLEAN /\ wanted' \in BOOLEAN
    BY <1>1, <1>4, Zenon DEF FlagsTyped, portal, moving, setup, cloud, history, Config, ConfigAsked,
       ConfigArmed
  <2>3. /\ req' \in BOOLEAN /\ armed' \in BOOLEAN /\ arming' \in BOOLEAN
        /\ torn' \in BOOLEAN /\ quiet' \in BOOLEAN
    BY <1>1, <1>4, Zenon DEF FlagsTyped, portal, moving, setup, cloud, history, Config, ConfigAsked,
       ConfigArmed
  <2>4. QED
    BY <2>1, <2>2, <2>3 DEF FlagsTyped
<1>5. CASE Tick
  <2>1. /\ recovery' \in BOOLEAN /\ forced' \in BOOLEAN /\ retrying' \in BOOLEAN
        /\ saved' \in BOOLEAN /\ pending' \in BOOLEAN
    BY <1>1, <1>5, Zenon DEF FlagsTyped, portal, moving, setup, cloud, history, Tick
  <2>2. /\ taking' \in BOOLEAN /\ was' \in BOOLEAN /\ ran' \in BOOLEAN
        /\ setupAP' \in BOOLEAN /\ wanted' \in BOOLEAN
    BY <1>1, <1>5, Zenon DEF FlagsTyped, portal, moving, setup, cloud, history, Tick
  <2>3. /\ req' \in BOOLEAN /\ armed' \in BOOLEAN /\ arming' \in BOOLEAN
        /\ torn' \in BOOLEAN /\ quiet' \in BOOLEAN
    BY <1>1, <1>5, Zenon DEF FlagsTyped, portal, moving, setup, cloud, history, Tick
  <2>4. QED
    BY <2>1, <2>2, <2>3 DEF FlagsTyped
<1>6. QED
  BY <1>2, <1>3, <1>4, <1>5 DEF Next

LEMMA ModeStep == ASSUME WellTyped, Next PROVE ModeTyped'
<1> ModeTyped
  BY DEF WellTyped
<1>2. CASE Door
  BY <1>2 DEF ModeTyped, Modes, Changes, Changing, Driving, Reset, portal, moving, setup,
     Door, BootPlain, StartAP, ConnectPass, Consume, OpenSetupAP, ResumeSaved, RetryPass,
     PortalRestart, ChangeTake, ChangeBegin, ChangeBeginStale, ChangeJoined, ChangeReverts, ChangeEnds,
     ChangeWaits, Supervise, SetupTimeout, CloseSetupAP
<1>3. CASE World
  BY <1>3 DEF ModeTyped, Modes, Changes, Changing, Driving, Online, Reset, portal, moving,
     setup, World, PowerCut, Restart, BootForced, StartAP, PortalPage, Ask, PortalSave,
     ChangeNetwork, RequestChange, PortalTorn, ChangeTorn, TornSave, Flip
<1>4. CASE Config
  BY <1>4 DEF ModeTyped, Changing, portal, moving, setup, Config, ConfigAsked, ConfigArmed
<1>5. CASE Tick
  BY <1>5 DEF ModeTyped, Changing, portal, moving, setup, Tick
<1>6. QED
  BY <1>2, <1>3, <1>4, <1>5 DEF Next

(* Power failing in the middle of a save leaves credentials, if wrong ones. *)
LEMMA TornTyped ==
  ASSUME CredsTyped, NEW c \in Creds \cup {NoCreds}, TornSave(c)
  PROVE  nvs' \in Creds \cup {NoCreds}
<1>1. CASE c = NoCreds
  BY <1>1 DEF TornSave
<1>2. CASE c # NoCreds
  <2>1. c.ssid \in Networks /\ nvs.pass \in Networks \cup {Typo}
    BY <1>2 DEF Creds, CredsTyped, NoCreds
  <2>2. QED
    BY <1>2, <2>1 DEF TornSave, Creds
<1>3. QED
  BY <1>1, <1>2

(* What is stored, offered and called is always somebody's credentials.    *)
LEMMA CredsStep == ASSUME WellTyped, Next PROVE CredsTyped'
<1> DEFINE Some == Creds \cup {NoCreds}
<1> DEFINE Radios == [to : Some, left : Nat]
<1>1. /\ up \subseteq Networks /\ nvs \in Some /\ new \in Some /\ old \in Some
      /\ entered \subseteq Some /\ untried \subseteq Some /\ radio \in Radios /\ radio.to \in Some
      /\ CredsTyped
  BY DEF WellTyped, CredsTyped
<1>2. Idle \in Radios /\ NoCreds \in Some /\ \A c \in Some : Calling(c) \in Radios
  BY CallingTyped
<1>3. Typed \subseteq Some
  BY DEF Typed
<1>4. \A c \in Some : TornSave(c) => nvs' \in Some
  BY <1>1, TornTyped
<1>5. Reconnecting \subseteq Radios
  BY <1>1, <1>2 DEF Reconnecting
<1>6. [radio EXCEPT !.left = Less(@)] \in Radios
  <2>1. radio.left \in Nat /\ Less(radio.left) \in Nat
    BY <1>1 DEF Less
  <2>2. QED
    BY <1>1, <2>1
<1> HIDE DEF Some, Radios
<1>7. /\ up' \subseteq Networks /\ nvs' \in Some /\ new' \in Some /\ old' \in Some
      /\ entered' \subseteq Some /\ untried' \subseteq Some /\ radio' \in Radios
  <2>1. CASE Door
    BY <1>1, <1>2, <1>5, <2>1
       DEF Reset, portal, moving, setup, cloud, history, Door, BootPlain, StartAP, ConnectPass,
       Consume, OpenSetupAP, ResumeSaved, RetryPass, PortalRestart, ChangeTake,
       ChangeBegin, ChangeBeginStale, ChangeJoined, ChangeReverts, ChangeEnds, ChangeWaits, Supervise,
       SetupTimeout, CloseSetupAP
  <2>2. CASE \E n \in Networks : Flip(n)
    BY <1>1, <1>2, <2>2 DEF Flip, moving, history
  <2>3. CASE ChangeTorn \/ \E c \in Typed : PortalTorn(c)
    <3>1. PICK c \in Some : TornSave(c)
      BY <1>1, <1>3, <2>3 DEF ChangeTorn, PortalTorn
    <3>2. nvs' \in Some
      BY <1>4, <3>1
    <3>3. QED
      BY <1>1, <1>2, <3>1, <3>2 DEF TornSave, Reset
  <2>4. CASE World /\ ~(ChangeTorn \/ \E c \in Typed : PortalTorn(c))
                   /\ ~\E n \in Networks : Flip(n)
    BY <1>1, <1>2, <1>3, <2>4
       DEF Reset, portal, moving, history, World, PowerCut, Restart, BootForced, StartAP,
       PortalPage, Ask, PortalSave, ChangeNetwork, RequestChange
  <2>5. CASE Config
    BY <1>1, <2>5 DEF Config, ConfigAsked, ConfigArmed, portal, moving, history
  <2>6. CASE Tick
    BY <1>1, <1>6, <2>6 DEF Tick, moving, history
  <2>7. QED
    BY <2>1, <2>2, <2>3, <2>4, <2>5, <2>6 DEF Next
<1>8. QED
  BY <1>7 DEF CredsTyped, Some, Radios

(* No step, and no stutter, loses the types.                               *)
LEMMA WellTypedStep == WellTyped /\ [Next]_vars => WellTyped'
<1> SUFFICES ASSUME WellTyped, [Next]_vars PROVE WellTyped'
  OBVIOUS
<1>1. CASE Next
  BY <1>1, CredsStep, FlagsStep, TimersStep, ModeStep, SpentStep DEF WellTyped
<1>2. CASE UNCHANGED vars
  BY <1>2 DEF vars, portal, moving, setup, cloud, history, WellTyped, CredsTyped,
     FlagsTyped, TimersTyped, ModeTyped, Changing, SpentTyped
<1>3. QED
  BY <1>1, <1>2

(* Every variable keeps its type, and the portal's and the network's       *)
(* business stays in its mode, for any number of networks and any times.   *)
THEOREM TypeCorrect == Spec => []TypeOK
<1>1. WellTyped => TypeOK
  BY TypedIsTypeOK
<1>2. QED
  BY <1>1, InitTyped, WellTypedStep, PTL DEF Spec

-----------------------------------------------------------------------------
(* What a change of network may store: the fallback was stored before, and *)
(* the candidate, once joined, is what the radio calls.                    *)
ChangeSound ==
  /\ torn \/ nvs \in entered \cup untried
  /\ taking \/ Changing => torn \/ old \in entered \cup untried
  /\ change = "trying" => radio.to = new

LEMMA ChangeSoundStep == WellTyped /\ ChangeSound /\ [Next]_vars => ChangeSound'
<1> SUFFICES ASSUME WellTyped, ChangeSound, [Next]_vars PROVE ChangeSound'
  OBVIOUS
<1>1. /\ torn \in BOOLEAN /\ ModeTyped
      /\ radio \in [to : Creds \cup {NoCreds}, left : Nat]
      /\ new \in Creds \cup {NoCreds}
  BY DEF WellTyped, FlagsTyped, CredsTyped
<1>2. Calling(new).to = new /\ \A r \in Reconnecting : r.to = radio.to
  BY <1>1, CallingTyped DEF Reconnecting
<1>3. CASE Door
  BY <1>1, <1>2, <1>3
     DEF ChangeSound, Changing, Driving, Connected, ModeTyped, Reset, portal, moving,
     setup, cloud, history, Door, BootPlain, StartAP, ConnectPass, Consume, OpenSetupAP,
     ResumeSaved, RetryPass, PortalRestart, ChangeTake, ChangeBegin, ChangeBeginStale, ChangeJoined,
     ChangeReverts, ChangeEnds, ChangeWaits, Supervise, SetupTimeout, CloseSetupAP
<1>4. CASE World
  BY <1>1, <1>2, <1>4
     DEF ChangeSound, Changing, Driving, ModeTyped, Reset, portal, moving, history,
     World, PowerCut, Restart, BootForced, StartAP, PortalPage, Ask, PortalSave, ChangeNetwork, RequestChange,
     PortalTorn, ChangeTorn, TornSave, Flip
<1>5. CASE Config
  BY <1>5 DEF ChangeSound, Changing, Config, ConfigAsked, ConfigArmed, moving, history
<1>6. CASE Tick
  BY <1>1, <1>6 DEF ChangeSound, Changing, Tick, moving, history
<1>7. CASE UNCHANGED vars
  BY <1>7 DEF ChangeSound, Changing, vars, moving, history
<1>8. QED
  BY <1>3, <1>4, <1>5, <1>6, <1>7 DEF Next

(* What is stored was typed at the portal or has let this door in, unless  *)
(* power failed between the two halves of a save or the old link's status  *)
(* vouched for it as the attempt began.                                    *)
THEOREM StoredWorks == Spec => []KeptWorks
<1>1. Init => ChangeSound
  BY DEF Init, ChangeSound, Changing
<1>2. ChangeSound => KeptWorks
  BY DEF ChangeSound, KeptWorks
<1>3. QED
  BY <1>1, <1>2, InitTyped, WellTypedStep, ChangeSoundStep, PTL DEF Spec

-----------------------------------------------------------------------------
(* An access point that has been raised, or is going to be at some boot,   *)
(* has cost the administrator two changes of mind: asking, and taking it   *)
(* back before asking again.                                               *)
Coming == IF armed \/ mode = "opening" \/ (arming /\ req) THEN 1 ELSE 0
Differs == IF wanted # req THEN 1 ELSE 0
Asked == IF req THEN 1 ELSE 0

SetupCounted ==
  /\ opened \in Nat
  /\ arming => mode = "sta"
  /\ mode = "opening" => ~armed /\ ~arming
  /\ 2 * (opened + Coming) + Differs <= spent["asks"] + Asked

LEMMA SetupCountedStep ==
  WellTyped /\ SetupCounted /\ [Next]_vars => SetupCounted'
<1> SUFFICES ASSUME WellTyped, SetupCounted, [Next]_vars PROVE SetupCounted'
  OBVIOUS
<1>1. /\ wanted \in BOOLEAN /\ req \in BOOLEAN /\ armed \in BOOLEAN
      /\ arming \in BOOLEAN /\ spent["asks"] \in Nat /\ opened \in Nat
  BY DEF WellTyped, FlagsTyped, SpentTyped, Spendings, SetupCounted
<1>2. CASE UNCHANGED <<mode, cloud, spent>>
  BY <1>2 DEF cloud, SetupCounted, Coming, Differs, Asked
<1>3. CASE Next
  <2>1. spent'["asks"] = spent["asks"] \/ (Ask /\ spent'["asks"] = spent["asks"] + 1)
    BY <1>3, SpentStep
  <2>2. spent'["asks"] \in Nat
    BY <1>1, <2>1
  <2>3. spent["asks"] <= spent'["asks"]
    BY <1>1, <2>1
  <2>4. ASSUME Reset, UNCHANGED <<opened, wanted, req, armed>> PROVE SetupCounted'
    BY <1>1, <2>2, <2>3, <2>4 DEF Reset, SetupCounted, Coming, Differs, Asked
  <2>5. ASSUME UNCHANGED <<cloud, mode>> PROVE SetupCounted'
    BY <1>1, <2>2, <2>3, <2>5 DEF cloud, SetupCounted, Coming, Differs, Asked
  <2>6. ASSUME UNCHANGED cloud, mode # "sta", mode # "opening", mode' # "opening"
        PROVE  SetupCounted'
    BY <1>1, <2>2, <2>3, <2>6 DEF cloud, SetupCounted, Coming, Differs, Asked
  <2>7. CASE Ask
    <3>1. Differs' <= Differs + 1 /\ Differs \in Nat /\ Differs' \in Nat
      BY DEF Differs
    <3>2. /\ UNCHANGED <<mode, opened, req, armed, arming>>
          /\ spent'["asks"] = spent["asks"] \/ spent'["asks"] = spent["asks"] + 1
      BY <2>1, <2>7 DEF Ask
    <3>3. spent'["asks"] = spent["asks"] + 1
      BY <2>7, SpendTyped DEF Ask, WellTyped, Spendings
    <3>4. QED
      BY <1>1, <3>1, <3>2, <3>3 DEF SetupCounted, Coming, Asked
  <2>8. CASE World /\ ~Ask
    BY <2>4, <2>5, <2>6, <2>8
       DEF World, cloud, PowerCut, Restart, BootForced, StartAP, PortalPage, PortalSave,
       ChangeNetwork, RequestChange, PortalTorn, ChangeTorn, TornSave, Flip
  <2>9. CASE Consume
    BY <1>1, <2>2, <2>3, <2>9 DEF Consume, SetupCounted, Coming, Differs, Asked
  <2>10. CASE OpenSetupAP
    BY <1>1, <2>2, <2>3, <2>10 DEF OpenSetupAP, SetupCounted, Coming, Differs, Asked
  <2>11. CASE Door /\ ~Consume /\ ~OpenSetupAP
    BY <2>4, <2>5, <2>6, <2>11
       DEF Door, cloud, BootPlain, StartAP, ConnectPass, ResumeSaved, RetryPass, PortalRestart,
       ChangeTake, ChangeBegin, ChangeBeginStale, ChangeJoined, ChangeReverts, ChangeEnds, ChangeWaits,
       Supervise, SetupTimeout, CloseSetupAP
  <2>12. CASE ConfigAsked
    BY <1>1, <2>2, <2>3, <2>12
       DEF ConfigAsked, Online, Edge, SetupCounted, Coming, Differs, Asked
  <2>13. CASE ConfigArmed
    BY <1>1, <2>2, <2>3, <2>13 DEF ConfigArmed, SetupCounted, Coming, Differs, Asked
  <2>14. CASE Tick
    BY <2>5, <2>14 DEF Tick
  <2>15. QED
    BY <1>3, <2>7, <2>8, <2>9, <2>10, <2>11, <2>12, <2>13, <2>14 DEF Next, Config
<1>4. QED
  BY <1>2, <1>3 DEF vars

(* One request raises the open access point once, whatever power cuts and  *)
(* restarts fall between the door's two keys.                              *)
THEOREM OpensOnce == Spec => []SetupOnce
<1>1. Init => SetupCounted
  <2> SUFFICES ASSUME Init PROVE SetupCounted
    OBVIOUS
  <2>1. spent["asks"] = 0
    BY BudgetTyped DEF Init, Spendings
  <2>2. /\ opened = 0 /\ mode = "off" /\ arming = FALSE /\ armed = FALSE
        /\ wanted = FALSE /\ req = FALSE
    BY DEF Init
  <2>3. Coming = 0 /\ Asked = 0 /\ Differs = 0
    BY <2>2 DEF Coming, Differs, Asked
  <2>4. QED
    BY <2>1, <2>2, <2>3 DEF SetupCounted
<1>2. WellTyped /\ SetupCounted => SetupOnce
  <2> SUFFICES ASSUME WellTyped, SetupCounted PROVE SetupOnce
    OBVIOUS
  <2>1. spent["asks"] \in Nat /\ opened \in Nat
    BY DEF WellTyped, SpentTyped, Spendings, SetupCounted
  <2>2. QED
    BY <2>1 DEF SetupCounted, Coming, Differs, Asked, SetupOnce
<1>3. QED
  BY <1>1, <1>2, InitTyped, WellTypedStep, SetupCountedStep, PTL DEF Spec

-----------------------------------------------------------------------------
(* While a page loaded over a silent radio is in use, the radio stays      *)
(* silent: no retry begins, and nothing else of the portal calls.          *)
PageQuiet ==
  /\ quiet => mode = "portal"
  /\ quiet /\ used # 0 /\ ~saved => radio.to = NoCreds

LEMMA PageQuietStep == WellTyped /\ PageQuiet /\ [Next]_vars => PageQuiet'
<1> SUFFICES ASSUME WellTyped, PageQuiet, [Next]_vars PROVE PageQuiet'
  OBVIOUS
<1>1. /\ ModeTyped /\ quiet \in BOOLEAN /\ saved \in BOOLEAN /\ used \in Nat
      /\ NoCreds.ssid \notin Networks /\ Idle.to = NoCreds
      /\ radio.to \in Creds \cup {NoCreds}
  BY TimesAssumption DEF WellTyped, CredsTyped, FlagsTyped, TimersTyped, NoCreds, Idle
<1>2. CASE Door
  BY <1>1, <1>2
     DEF PageQuiet, HeldOff, ModeTyped, Changing, Driving, Reset, portal, moving, setup,
     cloud, history, Door, BootPlain, StartAP, ConnectPass, Consume, OpenSetupAP, ResumeSaved,
     RetryPass, PortalRestart, ChangeTake, ChangeBegin, ChangeBeginStale, ChangeJoined, ChangeReverts,
     ChangeEnds, ChangeWaits, Supervise, SetupTimeout, CloseSetupAP
<1>3. CASE World
  BY <1>1, <1>3
     DEF PageQuiet, ModeTyped, Reset, portal, moving, history, World, PowerCut, Restart,
     BootForced, StartAP, PortalPage, Ask, PortalSave, ChangeNetwork, RequestChange, PortalTorn, ChangeTorn,
     TornSave, Flip
<1>4. CASE Config
  BY <1>4 DEF PageQuiet, Config, ConfigAsked, ConfigArmed, portal, history
<1>5. CASE Tick
  BY <1>1, <1>5 DEF PageQuiet, Tick, Less, history
<1>6. CASE UNCHANGED vars
  BY <1>6 DEF PageQuiet, vars, portal, history
<1>7. QED
  BY <1>2, <1>3, <1>4, <1>5, <1>6 DEF Next

(* The door leaves the portal by itself while somebody is using the page   *)
(* only when an attempt was already in flight as they loaded it.           *)
THEOREM NotThrownOff == Spec => LeftAlone
<1>1. Init => PageQuiet
  BY DEF Init, PageQuiet
<1>2. WellTyped /\ PageQuiet /\ [Next]_vars
        => [mode = "portal" /\ mode' = "off" /\ recovery' =>
              used = 0 \/ ~quiet \/ saved]_vars
  <2> SUFFICES ASSUME WellTyped, PageQuiet, Next, mode = "portal", mode' = "off",
                      recovery'
               PROVE  used = 0 \/ ~quiet \/ saved
    OBVIOUS
  <2>1. CASE ResumeSaved
    BY <2>1 DEF ResumeSaved, PageQuiet, Connected
  <2>2. CASE PortalRestart
    BY <2>2 DEF PortalRestart
  <2>3. CASE Door /\ ~ResumeSaved /\ ~PortalRestart
    BY <2>3 DEF Door, Driving, WellTyped, ModeTyped, BootPlain, StartAP, ConnectPass, Consume,
       OpenSetupAP, RetryPass, ChangeTake, ChangeBegin, ChangeBeginStale, ChangeJoined, ChangeReverts,
       ChangeEnds, ChangeWaits, Supervise, SetupTimeout, CloseSetupAP
  <2>4. CASE World
    BY <2>4 DEF World, Driving, Online, PowerCut, Restart, BootForced, StartAP, PortalPage, Ask,
       PortalSave, ChangeNetwork, RequestChange, PortalTorn, ChangeTorn, TornSave, Flip
  <2>5. CASE Config \/ Tick
    BY <2>5 DEF Config, ConfigAsked, ConfigArmed, Tick
  <2>6. QED
    BY <2>1, <2>2, <2>3, <2>4, <2>5 DEF Next
<1>3. QED
  BY <1>1, <1>2, InitTyped, WellTypedStep, PageQuietStep, PTL DEF LeftAlone, Spec

=============================================================================
