---------------------------- MODULE NetworkChange ----------------------------
(***************************************************************************)
(* How a door finds, keeps and changes its wireless network: WiFiManager,  *)
(* the recovery button and the setup access point of main.cpp, and the     *)
(* people who type credentials.  Four actors: loop(), the web server's     *)
(* task (the portal's, or the application's /setup page), the cloudsync    *)
(* task that receives the door's configuration, and the world (access      *)
(* points that come and go, power).                                        *)
(*                                                                         *)
(* A network is opened by the password that bears its own name; Typo opens *)
(* none.  Time goes in ticks of five seconds, the period of loop()'s own   *)
(* supervision, and a tick waits for the pass of loop() that is due.       *)
(***************************************************************************)
EXTENDS Naturals

CONSTANTS Networks, Typo,
          JoinTime,        \* ticks each network takes to let the door in
          ConnectTime,     \* connectTimeoutMs
          RecoveryTime,    \* RECOVERY_CONNECT_TIMEOUT_MS
          WindowTime,      \* RETRY_WINDOW_MS
          IntervalTime,    \* RETRY_INTERVAL_MS
          InUseTime,       \* PORTAL_IN_USE_MS
          TryTime,         \* CHANGE_TRY_MS
          RevertTime,      \* CHANGE_REVERT_MS
          SetupTime,       \* SETUP_AP_TIMEOUT_MS
          AgainTime,       \* the minute by which the timeout is put off
          MaxFlips, MaxCuts, MaxPresses, MaxVisits, MaxForms, MaxAsks

Waits == {ConnectTime, RecoveryTime, WindowTime, IntervalTime, InUseTime,
          TryTime, RevertTime, SetupTime, AgainTime}

ASSUME TimesAssumption ==
    /\ JoinTime \in [Networks -> Nat \ {0}]
    /\ Waits \subseteq Nat \ {0}
    /\ ConnectTime <= RecoveryTime /\ Typo \notin Networks
    /\ {MaxFlips, MaxCuts, MaxPresses, MaxVisits, MaxForms, MaxAsks} \subseteq Nat

VARIABLES
    up,         \* the networks on the air
    nvs,        \* "ssid" and "pass" in NVS
    recovery,   \* s_recoveryBoot = RECOVERY_MAGIC, in memory a restart spares
    mode,       \* where setup() and loop() are
    forced,     \* _forcePortal
    radio,      \* whom the station side calls, and the ticks to an address
    timer,      \* ticks left of the wait in progress
    retrying,   \* _retryStartedMs # 0
    rest,       \* ticks to the next retry, counted from the boot at first
    used,       \* ticks left of PORTAL_IN_USE_MS
    saved,      \* /save has answered and is about to restart
    change,     \* _change
    pending,    \* _changePending
    taking,     \* loop() has taken the request and not yet begun
    new, old,   \* the candidate, and what to go back to
    was,        \* _wasConnected
    ran,        \* loop() has made its pass of this tick
    setupAP,    \* _setupAP
    setupLeft,  \* ticks to gSetupApCloseAt
    wanted,     \* openSetupPortal in the backend's configuration
    req, armed, \* KEY_SETUP_AP_REQ and KEY_SETUP_AP in NVS
    arming,     \* the config handler is between the two
    entered,    \* history: credentials typed at a portal, or joined with
    torn,       \* history: power failed between the two halves of a save
    untried,    \* history: credentials stored on the strength of the old link
    quiet,      \* history: no join was in flight at the last page load
    opened,     \* history: setup access points raised
    spent       \* history: what the world has done

portal == <<retrying, rest, used, saved>>
moving == <<change, pending, taking, new, old>>
setup == <<setupAP, setupLeft>>
cloud == <<wanted, req, armed, arming, opened>>
history == <<entered, torn, untried, quiet>>
vars == <<up, nvs, recovery, mode, forced, radio, timer, portal, moving, was,
          ran, setup, cloud, history, spent>>

Creds == [ssid : Networks, pass : Networks \cup {Typo}]
NoCreds == [ssid |-> Typo, pass |-> Typo]     \* an empty "ssid"
Budget == [flips |-> MaxFlips, cuts |-> MaxCuts, presses |-> MaxPresses,
           visits |-> MaxVisits, forms |-> MaxForms, asks |-> MaxAsks]

\* What people type: a network, with its password or a wrong one.
Typed == {c \in Creds : c.pass \in {c.ssid, Typo}}

Opens(c) == c # NoCreds /\ c.pass = c.ssid
Idle == [to |-> NoCreds, left |-> 1]

\* WiFi.begin(c): from here the radio keeps calling until told otherwise.
Calling(c) == [to |-> c, left |-> IF c = NoCreds THEN 1 ELSE JoinTime[c.ssid]]

\* WiFi.status() = WL_CONNECTED
Connected == radio.to # NoCreds /\ radio.left = 0

Online == mode = "sta" /\ Connected
Changing == change \in {"trying", "reverting"}

\* loadCredentials(): is there a network to call?
SavedNetwork == nvs.ssid \in Networks

Spend(what) == /\ spent[what] < Budget[what]
               /\ spent' = [spent EXCEPT ![what] = @ + 1]

Less(n) == IF n = 0 THEN 0 ELSE n - 1

-----------------------------------------------------------------------------
(* Restarting: what RAM holds is gone.                                     *)

Reset == /\ mode' = "off" /\ forced' = FALSE
         /\ radio' = Idle /\ timer' = 0
         /\ retrying' = FALSE /\ rest' = IntervalTime /\ used' = 0 /\ saved' = FALSE
         /\ change' = "idle" /\ pending' = FALSE /\ taking' = FALSE
         /\ new' = NoCreds /\ old' = NoCreds
         /\ was' = FALSE /\ ran' = FALSE
         /\ setupAP' = FALSE /\ setupLeft' = 0
         /\ arming' = FALSE /\ quiet' = FALSE

\* A power cut, which also loses the recovery flag.
PowerCut ==
    /\ mode # "off" /\ Spend("cuts")
    /\ Reset /\ recovery' = FALSE
    /\ UNCHANGED <<up, nvs, wanted, req, armed, opened, entered, torn, untried>>

\* A restart asked for by the backend or by an update.
Restart ==
    /\ Online /\ Spend("cuts")
    /\ Reset
    /\ UNCHANGED <<up, nvs, recovery, wanted, req, armed, opened, entered, torn, untried>>

\* Power fails in the middle of saveCredentials(c): the new ssid is stored
\* with the password of the old.
TornSave(c) ==
    /\ Spend("cuts")
    /\ nvs' = IF c = NoCreds THEN NoCreds ELSE [ssid |-> c.ssid, pass |-> nvs.pass]
    /\ torn' = TRUE
    /\ Reset /\ recovery' = FALSE
    /\ UNCHANGED <<up, wanted, req, armed, opened, entered, untried>>

-----------------------------------------------------------------------------
(* setup(): the button, begin(), and the setup access point of this boot.  *)

\* Mutant: the boot after a recovery is no more patient than another.
PatienceShort == ConnectTime

Patience == IF recovery THEN RecoveryTime ELSE ConnectTime

\* startAP(): the portal, on an access point of its own, its page served by a
\* task of its own; from here loop() alone calls the saved network.
StartAP == mode' = "portal"

\* The button is held long enough: the portal, with the credentials kept.
BootForced ==
    /\ mode = "off" /\ Spend("presses")
    /\ forced' = TRUE /\ recovery' = FALSE /\ StartAP
    /\ ran' = TRUE
    /\ UNCHANGED <<up, nvs, radio, timer, portal, moving, was, setup, cloud, history>>

BootPlain ==
    /\ mode = "off"
    /\ recovery' = FALSE /\ ran' = TRUE
    /\ IF SavedNetwork
         THEN mode' = "connecting" /\ radio' = Calling(nvs) /\ timer' = Patience
         ELSE StartAP /\ UNCHANGED <<radio, timer>>
    /\ UNCHANGED <<up, nvs, forced, portal, moving, was, setup, cloud, history,
                   spent>>

\* The wait in begin().  Giving up leaves the radio calling.
ConnectPass ==
    /\ mode = "connecting" /\ ~ran
    /\ ran' = TRUE
    /\ IF Connected THEN mode' = "joined"
       ELSE IF timer = 0 THEN StartAP ELSE UNCHANGED mode
    /\ was' = Connected
    /\ UNCHANGED <<up, nvs, recovery, forced, radio, timer, portal, moving, setup,
                   cloud, history, spent>>

\* begin() has returned online: an armed setup access point is consumed ...
Consume ==
    /\ mode = "joined"
    /\ mode' = IF armed THEN "opening" ELSE "sta"
    /\ armed' = FALSE
    /\ UNCHANGED <<up, nvs, recovery, forced, radio, timer, portal, moving, was,
                   ran, setup, wanted, req, arming, opened, history, spent>>

\* ... and then raised, beside the network.
OpenSetupAP ==
    /\ mode = "opening"
    /\ mode' = "sta" /\ setupAP' = TRUE /\ setupLeft' = SetupTime
    /\ opened' = opened + 1
    /\ UNCHANGED <<up, nvs, recovery, forced, radio, timer, portal, moving, was,
                   ran, wanted, req, armed, arming, history, spent>>

-----------------------------------------------------------------------------
(* The portal: the retry of the saved network, and the person at the page. *)

\* retrySavedNetwork(), when it finds the network answering.
ResumeSaved ==
    /\ mode = "portal" /\ ~forced /\ ~ran
    /\ Connected
    /\ Reset /\ recovery' = TRUE
    /\ UNCHANGED <<up, nvs, wanted, req, armed, opened, entered, torn, untried, spent>>

\* Mutant: nobody looks whether the portal is in use.
HeldOffNever == FALSE

HeldOff == used # 0

\* retrySavedNetwork(), otherwise.
RetryPass ==
    /\ mode = "portal" /\ ~ran /\ (forced \/ ~Connected)
    /\ ran' = TRUE
    /\ IF retrying /\ timer = 0
         THEN radio' = Idle /\ retrying' = FALSE /\ rest' = IntervalTime
              /\ UNCHANGED timer
       ELSE IF ~retrying /\ ~forced /\ rest = 0 /\ ~HeldOff /\ SavedNetwork
         THEN radio' = Calling(nvs) /\ retrying' = TRUE /\ timer' = WindowTime
              /\ UNCHANGED rest
       ELSE UNCHANGED <<radio, timer, retrying, rest>>
    /\ UNCHANGED <<up, nvs, recovery, mode, forced, used, saved, moving, was, setup,
                   cloud, history, spent>>

\* Somebody loads the portal's page.
PortalPage ==
    /\ mode = "portal" /\ ~saved /\ Spend("visits")
    /\ used' = InUseTime
    /\ quiet' = (radio.to = NoCreds)
    /\ UNCHANGED <<up, nvs, recovery, mode, forced, radio, timer, retrying, rest,
                   saved, moving, was, ran, setup, cloud, entered, torn, untried>>

\* Somebody posts credentials; the restart follows the answer by two seconds.
PortalSave(c) ==
    /\ mode = "portal" /\ ~saved /\ Spend("forms")
    /\ used' = InUseTime /\ saved' = TRUE
    /\ nvs' = c /\ entered' = entered \cup {c}
    /\ UNCHANGED <<up, recovery, mode, forced, radio, timer, retrying, rest,
                   moving, was, ran, setup, cloud, torn, untried, quiet>>

PortalTorn(c) == mode = "portal" /\ ~saved /\ TornSave(c)

PortalRestart ==
    /\ saved /\ Reset
    /\ UNCHANGED <<up, nvs, recovery, wanted, req, armed, opened, entered, torn,
                   untried, spent>>

-----------------------------------------------------------------------------
(* On the network: changeNetwork(), and loop() which drives the change.    *)

\* changeNetwork(c): refused while a change is known to be in progress.
RequestChange(c) ==
    /\ ~pending /\ ~Changing
    /\ new' = c /\ pending' = TRUE

\* The /setup page asks for another network, over this one or over the setup
\* access point.
ChangeNetwork(c) ==
    /\ mode = "sta" /\ (Connected \/ setupAP)
    /\ ~(Connected /\ c.ssid = radio.to.ssid)
    /\ Spend("forms")
    /\ RequestChange(c)
    /\ UNCHANGED <<up, nvs, recovery, mode, forced, radio, timer, portal, change,
                   taking, old, was, ran, setup, cloud, history>>

ChangeTake ==
    /\ mode = "sta" /\ pending /\ ~taking
    /\ pending' = FALSE /\ taking' = TRUE
    /\ old' = nvs
    /\ UNCHANGED <<up, nvs, recovery, mode, forced, radio, timer, portal, change,
                   new, was, ran, setup, cloud, history, spent>>

\* Mutant: the new credentials are kept at once.
ChangeBeginSaves ==
    /\ taking /\ taking' = FALSE
    /\ radio' = Calling(new) /\ timer' = TryTime /\ nvs' = new
    /\ change' = "trying" /\ was' = FALSE /\ ran' = TRUE
    /\ UNCHANGED <<up, recovery, mode, forced, portal, pending, new, old, setup,
                   cloud, history, spent>>

\* loop() goes on to look at the attempt in the same pass: as a rule the link
\* is down by then ...
ChangeBegin ==
    /\ taking /\ taking' = FALSE
    /\ radio' = Calling(new) /\ timer' = TryTime
    /\ change' = "trying" /\ was' = FALSE /\ ran' = TRUE
    /\ UNCHANGED <<up, nvs, recovery, mode, forced, portal, pending, new, old, setup,
                   cloud, history, spent>>

\* ... but the driver's status follows events of its own, and while it still
\* says connected, of the old link, the candidate passes for joined.
ChangeBeginStale ==
    /\ taking /\ Connected /\ taking' = FALSE
    /\ radio' = Calling(new) /\ timer' = TryTime
    /\ change' = "done" /\ was' = TRUE /\ nvs' = new /\ ran' = TRUE
    /\ untried' = untried \cup {new}
    /\ UNCHANGED <<up, recovery, mode, forced, portal, pending, new, old, setup,
                   cloud, entered, torn, quiet, spent>>

\* loop() may look at a change in progress.
Driving(state) == mode = "sta" /\ ~pending /\ ~taking /\ ~ran /\ change = state

\* The new network let the door in: only now is it worth keeping.
ChangeJoined ==
    /\ Driving("trying") /\ Connected
    /\ change' = "done" /\ was' = TRUE /\ nvs' = new /\ ran' = TRUE
    /\ entered' = entered \cup {radio.to}
    /\ UNCHANGED <<up, recovery, mode, forced, radio, timer, portal, pending, taking,
                   new, old, setup, cloud, torn, untried, quiet, spent>>

ChangeTorn == (Driving("trying") \/ taking) /\ Connected /\ TornSave(new)

\* It did not: the old credentials are stored again, and called.
ChangeReverts ==
    /\ Driving("trying") /\ ~Connected /\ timer = 0
    /\ nvs' = old /\ radio' = Calling(old) /\ timer' = RevertTime
    /\ change' = "reverting" /\ ran' = TRUE
    /\ UNCHANGED <<up, recovery, mode, forced, portal, pending, taking, new, old,
                   was, setup, cloud, history, spent>>

\* Back on the old network, or out of time for that as well.
ChangeEnds ==
    /\ Driving("reverting") /\ (Connected \/ timer = 0)
    /\ change' = "failed" /\ was' = Connected /\ ran' = TRUE
    /\ UNCHANGED <<up, nvs, recovery, mode, forced, radio, timer, portal, pending,
                   taking, new, old, setup, cloud, history, spent>>

ChangeWaits ==
    /\ Driving("trying") \/ Driving("reverting")
    /\ ~Connected /\ timer # 0
    /\ ran' = TRUE
    /\ UNCHANGED <<up, nvs, recovery, mode, forced, radio, timer, portal, moving,
                   was, setup, cloud, history, spent>>

\* WiFi.reconnect(): call the same network again, which may or may not begin
\* afresh a join that was in flight.
Reconnecting == {radio, Calling(radio.to)}

\* The five-second supervision.
Supervise ==
    /\ mode = "sta" /\ ~pending /\ ~taking /\ ~Changing /\ ~ran
    /\ ran' = TRUE /\ was' = Connected
    /\ radio' \in IF Connected THEN {radio}
                  ELSE IF was /\ SavedNetwork THEN {Calling(nvs)}
                  ELSE IF was THEN {radio} ELSE Reconnecting
    /\ UNCHANGED <<up, nvs, recovery, mode, forced, timer, portal, moving, setup,
                   cloud, history, spent>>

CloseSetupAP == setupAP' = FALSE /\ UNCHANGED setupLeft

\* Mutant: put off by a change that is over, too.
SetupTimeoutAnyChange ==
    /\ mode = "sta" /\ setupAP /\ setupLeft = 0
    /\ IF change # "idle" THEN setupLeft' = AgainTime /\ UNCHANGED setupAP
       ELSE CloseSetupAP
    /\ UNCHANGED <<up, nvs, recovery, mode, forced, radio, timer, portal, moving,
                   was, ran, cloud, history, spent>>

\* The setup access point's timeout, put off while a change is running.
SetupTimeout ==
    /\ mode = "sta" /\ setupAP /\ setupLeft = 0
    /\ IF Changing THEN setupLeft' = AgainTime /\ UNCHANGED setupAP
       ELSE CloseSetupAP
    /\ UNCHANGED <<up, nvs, recovery, mode, forced, radio, timer, portal, moving,
                   was, ran, cloud, history, spent>>

-----------------------------------------------------------------------------
(* The configuration from the backend.                                     *)

\* An administrator asks for the setup access point, or takes it back.
Ask ==
    /\ Spend("asks") /\ wanted' = ~wanted
    /\ UNCHANGED <<up, nvs, recovery, mode, forced, radio, timer, portal, moving,
                   was, ran, setup, req, armed, arming, opened, history>>

\* Mutant: compared with the armed flag, which the boot clears.
EdgeOfArmed == wanted # armed

\* Whether a sync's configuration asks for something new.
Edge == wanted # req

ConfigAsked ==
    /\ Online /\ ~arming /\ Edge
    /\ req' = wanted /\ arming' = TRUE
    /\ UNCHANGED <<up, nvs, recovery, mode, forced, radio, timer, portal, moving,
                   was, ran, setup, wanted, armed, opened, history, spent>>

\* The handler writes what the answer held, which is what it stored above.
ConfigArmed ==
    /\ arming /\ arming' = FALSE /\ armed' = req
    /\ UNCHANGED <<up, nvs, recovery, mode, forced, radio, timer, portal, moving,
                   was, ran, setup, wanted, req, opened, history, spent>>

-----------------------------------------------------------------------------
(* The world.                                                              *)

\* An access point comes or goes; a station that was on it is cut off.
Flip(n) ==
    /\ Spend("flips")
    /\ up' = IF n \in up THEN up \ {n} ELSE up \cup {n}
    /\ radio' = IF radio.to.ssid # n THEN radio
                ELSE IF mode = "portal" /\ Connected THEN Idle ELSE Calling(radio.to)
    /\ UNCHANGED <<nvs, recovery, mode, forced, timer, portal, moving, was, ran,
                   setup, cloud, history>>

\* Nothing of the door's own is due before the clock moves.
Settled == /\ mode \in {"connecting", "portal", "sta"} /\ ran
           /\ ~pending /\ ~taking /\ ~saved
           /\ ~(setupAP /\ setupLeft = 0)

Tick ==
    /\ Settled
    /\ ran' = FALSE
    /\ timer' = Less(timer) /\ rest' = Less(rest)
    /\ used' = Less(used) /\ setupLeft' = Less(setupLeft)
    /\ radio' = IF Opens(radio.to) /\ radio.to.ssid \in up
                  THEN [radio EXCEPT !.left = Less(@)] ELSE radio
    /\ UNCHANGED <<up, nvs, recovery, mode, forced, retrying, saved, moving, was,
                   setupAP, cloud, history, spent>>

-----------------------------------------------------------------------------
Init ==
    /\ up \in SUBSET Networks
    /\ nvs \in {NoCreds} \cup {c \in Creds : Opens(c)}
    /\ recovery = FALSE /\ mode = "off" /\ forced = FALSE
    /\ radio = Idle /\ timer = 0
    /\ retrying = FALSE /\ rest = IntervalTime /\ used = 0 /\ saved = FALSE
    /\ change = "idle" /\ pending = FALSE /\ taking = FALSE
    /\ new = NoCreds /\ old = NoCreds
    /\ was = FALSE /\ ran = FALSE
    /\ setupAP = FALSE /\ setupLeft = 0
    /\ wanted = FALSE /\ req = FALSE /\ armed = FALSE /\ arming = FALSE
    /\ opened = 0
    /\ entered = {nvs} /\ torn = FALSE /\ untried = {} /\ quiet = FALSE
    /\ spent = [what \in DOMAIN Budget |-> 0]

\* What the door does of itself.
Door == \/ BootPlain \/ ConnectPass \/ Consume \/ OpenSetupAP
        \/ ResumeSaved \/ RetryPass \/ PortalRestart
        \/ ChangeTake \/ ChangeBegin \/ ChangeBeginStale \/ ChangeJoined
        \/ ChangeReverts \/ ChangeEnds \/ ChangeWaits \/ Supervise \/ SetupTimeout

World == \/ PowerCut \/ Restart \/ BootForced \/ PortalPage \/ Ask
         \/ \E c \in Typed : PortalSave(c) \/ ChangeNetwork(c)
         \/ \E c \in Typed : PortalTorn(c)
         \/ ChangeTorn
         \/ \E n \in Networks : Flip(n)

Config == ConfigAsked \/ ConfigArmed

Next == Door \/ World \/ Config \/ Tick

Spec == Init /\ [][Next]_vars

\* loop() and the tasks are scheduled, and time goes on.
FairSpec == Spec /\ WF_vars(Door) /\ WF_vars(Config) /\ WF_vars(Tick)

-----------------------------------------------------------------------------
(* Properties.                                                             *)

\* Every variable keeps its type, and what belongs to the portal or to the
\* network is there only in that mode.
TypeOK ==
    /\ up \subseteq Networks /\ nvs \in Creds \cup {NoCreds}
    /\ mode \in {"off", "connecting", "joined", "opening", "portal", "sta"}
    /\ radio.to \in Creds \cup {NoCreds} /\ {radio.left, timer} \subseteq Nat
    /\ {rest, used, setupLeft} \subseteq Nat
    /\ change \in {"idle", "trying", "reverting", "done", "failed"}
    /\ {recovery, forced, retrying, saved, pending, taking, was, ran, setupAP, wanted,
        req, armed, arming, torn, quiet} \subseteq BOOLEAN
    /\ {new, old} \cup entered \cup untried \subseteq Creds \cup {NoCreds}
    /\ \A what \in DOMAIN Budget : spent[what] \in 0..Budget[what]
    /\ forced \/ saved \/ retrying => mode = "portal"
    /\ pending \/ taking \/ Changing \/ setupAP => mode = "sta"

\* What is stored was typed at the portal, or has let this door in: a network
\* asked for over /setup is stored once it has been joined, and a typo there
\* strands nobody, whoever asks again meanwhile and wherever power fails --
\* except between the two halves of a save, and except a candidate that the
\* old link's status vouched for as the attempt began.
KeptWorks == torn \/ nvs \in entered \cup untried

\* One request raises the open access point once: however the door restarts,
\* and whatever is lost between its two keys.
SetupOnce == 2 * opened <= spent.asks + 1

\* The door leaves the portal by itself while somebody is using the page only
\* when an attempt was already in flight as they loaded it.
LeftAlone == [][mode = "portal" /\ mode' = "off" /\ recovery' =>
                  used = 0 \/ ~quiet \/ saved]_vars

\* A stored network that stays on the air is joined for good, unless the
\* portal was forced: no restart loop, whichever change failed before, and no
\* portal for ever.  The exception is a door that has been online and lost a
\* network slower to join than the five seconds between two calls of
\* reconnect(), each of which may begin the join again.
SlowToJoin == mode = "sta" /\ JoinTime[nvs.ssid] > 1

Recovers == <>[](Opens(nvs) /\ nvs.ssid \in up /\ ~forced) =>
              <>[](Online \/ (Opens(nvs) /\ SlowToJoin))

\* The open access point does not stay.
SetupCloses == setupAP ~> ~setupAP

=============================================================================
