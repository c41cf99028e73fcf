------------------------------ MODULE LeaderApp ------------------------------
(***************************************************************************)
(* The main loop of the leader: profiles, menu, buttons, dashboard         *)
(* commands, home network policy, Wi-Fi direct session and calibration.    *)
(* The state is the record app, its fields named after the members of      *)
(* LeaderApp, and every step of a tick applies a handler to it: core       *)
(* services, dashboard commands, acknowledgements, buttons, mode.  Between *)
(* two steps the Xbox task may note a press, the mirror task reads         *)
(* app.continuous and app.mode, and the leader may restart.                *)
(*                                                                         *)
(* Left out: texts, drawing and their timers, metrics, the haptic overlay, *)
(* the debug flag of the own bus, the startup scan, and the state of the   *)
(* link to the follower (CommandLink and Pairing), which a step finds in   *)
(* any condition.  Where the menu stands is OledMenu's: here any item may  *)
(* be the selected one.  Init is the state once the deferred boot stages   *)
(* are through.                                                            *)
(***************************************************************************)
EXTENDS LeaderProfiles

CONSTANTS
    Selectable,  \* profiles the menu activates in this instance
    Commands     \* dashboard commands sent in this instance

AllCommands ==
    {"TeleopStart", "TeleopStop", "EspNow", "WifiUdp", "CalibrationLeader",
     "CalibrationFollower", "Passthrough", "ConfirmCenter", "Finish", "Cancel", "Sample",
     "FollowerDebugDisable", "Tracked", "Local"}

ASSUME ConstantsAssumption == Selectable \subseteq Profiles /\ Commands \subseteq AllCommands

VARIABLES
    app,      \* the members of LeaderApp
    pc,       \* the next step of the tick
    raw       \* passthroughActive, read when the tick began

vars == <<app, pc, raw>>

Modes == {"Idle", "Teleoperation", "CalibrationLeader", "CalibrationFollower", "Passthrough"}
State ==
    [profile : Profiles, browse : BOOLEAN, banner : BOOLEAN,
     engaged : BOOLEAN, phase : {0, 1}, centerPending : BOOLEAN,
     continuous : BOOLEAN, passthrough : BOOLEAN, ota : BOOLEAN,
     link : BOOLEAN, session : {"none", "up", "ready"}, teleopActive : BOOLEAN,
     defer : BOOLEAN, resync : BOOLEAN, learned : BOOLEAN, primeOver : BOOLEAN,
     sta : BOOLEAN, listening : BOOLEAN,
     transport : {"EspNow", "EspNowTurbo", "EspNowFeedback", "WifiUdp"},
     awaiting : {"nothing", "debugDisable", "other"},
     mode : Modes, pressed : SUBSET {"A", "B"},
     profiles : [Arms -> {"zero", "default", "captured"}],
     backup : [Arms -> {"zero", "default", "captured"}],
     flash : [Arms -> {"none", "default", "captured"}],
     ranged : [Arms -> BOOLEAN]]
Steps == {"core", "commands", "acknowledgements", "buttons", "mode"}

Booted(flash, ready) ==
    [profile |-> "TeleopEspNow", browse |-> TRUE, banner |-> FALSE,
     engaged |-> FALSE, phase |-> 0, centerPending |-> FALSE,
     continuous |-> FALSE, passthrough |-> FALSE, ota |-> FALSE,
     link |-> FALSE, session |-> "none", teleopActive |-> FALSE,
     defer |-> FALSE, resync |-> FALSE, learned |-> FALSE, primeOver |-> FALSE,
     sta |-> TRUE, listening |-> FALSE, transport |-> "EspNow", awaiting |-> "nothing",
     mode |-> "Idle", pressed |-> {},
     profiles |-> Loaded(flash, ready), backup |-> [r \in Arms |-> "zero"],
     flash |-> Reloaded(flash, ready), ranged |-> [r \in Arms |-> FALSE]]

Init ==
    /\ app = Booted([r \in Arms |-> "none"], TRUE)
    /\ pc = "core" /\ raw = FALSE

(***************************************************************************)
(* The menu and the buttons.                                               *)
(***************************************************************************)
\* The result banner hides the menu until a session clears it, for the menu
\* asks at time zero whether it still shows.
shouldShowInteractiveOledMenu(a) ==
    /\ a.browse /\ ~a.banner
    /\ a.profile \in EspNowProfiles \cup {"Passthrough"}
    /\ ~a.continuous /\ ~a.passthrough /\ ~a.engaged

activateProfileFromMenu(a, p, e) ==
    LET applied == applyControllerOperationProfile([a EXCEPT !.browse = FALSE], p, e)
    IN  IF p \in EspNowProfiles THEN prepareEspNowTeleopMirrorStart(applied, e) ELSE applied

\* Mutant: the menu is asked for, and the profile hides it.
RestoreBrowseOfIdle(a, e) ==
    syncWifiRadioPolicyForProfile([a EXCEPT !.browse = a.mode = "Idle"], a.profile, e)

restoreOledMenuBrowseMode(a, e) ==
    syncWifiRadioPolicyForProfile([a EXCEPT !.browse = TRUE], a.profile, e)

ReturnToMenu(a, e) ==
    restoreOledMenuBrowseMode(applyControllerOperationProfile(a, "TeleopEspNow", e), e)

PassthroughButtons(a, A, B, e) ==
    LET engaged == IF A THEN engagePassthroughMode(a) ELSE a
    IN  IF B THEN restoreOledMenuBrowseMode(
                    disengagePassthroughMode(engaged, "TeleopEspNow", e), e)
        ELSE engaged

CalibrationPreviewButtons(a, A, B, e) ==
    LET engaged == IF A THEN engageCalibrationMode(a, e) ELSE a
    IN  IF B THEN ReturnToMenu(engaged, e) ELSE engaged

\* A confirms the center, then the range; a pending center makes A return.
CalibrationConfirm(a, e) ==
    CASE a.phase = 0 /\ a.awaiting = "debugDisable" -> a
      [] a.phase = 0 /\ a.awaiting # "debugDisable" -> applyCalibrationCenter(a, e)
      [] OTHER -> LET committed == commitCalibrationRangeCapture(a, e)
                  IN  IF Committed(a, e)
                      THEN ReturnToMenu([committed EXCEPT !.engaged = FALSE], e)
                      ELSE committed

CalibrationActiveButtons(a, A, B, e) ==
    LET confirmed == IF A THEN CalibrationConfirm(a, e) ELSE a
        returns == A /\ (a.centerPending \/ a.phase = 0)
    IN  IF A /\ a.centerPending THEN a
        ELSE IF B /\ ~returns THEN ReturnToMenu([confirmed EXCEPT !.banner = TRUE], e)
        ELSE confirmed

TeleopMirrorButtons(a, A, B, e) ==
    LET started == IF A THEN prepareEspNowTeleopMirrorStart([a EXCEPT !.continuous = TRUE], e)
                   ELSE a
    IN  IF B THEN restoreOledMenuBrowseMode(releaseFollowerTeleopHold(started, e), e)
        ELSE started

OtaButtons(a, A, B, e) ==
    LET engaged == IF A THEN engageOtaMode(a, e) ELSE a
    IN  IF B THEN ReturnToMenu(engaged, e) ELSE engaged

TeleopWifiButtons(a, A, B, e) ==
    LET cancelled == restoreOledMenuBrowseMode(disengageWifiDirectLink(a), e)
        engaged == IF A THEN engageWifiDirectLink(a, e) ELSE a
        stopped == disengageWifiDirectLink(
                        releaseFollowerTeleopHold([a EXCEPT !.teleopActive = FALSE], e))
        started == IF A THEN [a EXCEPT !.teleopActive = TRUE, !.continuous = TRUE] ELSE a
    IN  CASE ~a.link -> IF B THEN ReturnToMenu(engaged, e) ELSE engaged
          [] a.link /\ a.session # "ready" -> IF B THEN cancelled ELSE a
          [] a.link /\ a.session = "ready" /\ ~a.teleopActive ->
                IF B THEN restoreOledMenuBrowseMode(disengageWifiDirectLink(started), e)
                ELSE started
          [] OTHER -> IF B THEN ReturnToMenu(stopped, e) ELSE a

\* handleControllerModeCycleEvents: both presses are consumed first.
Buttons(a, A, B, e) ==
    CASE a.profile = "Passthrough" -> PassthroughButtons(a, A, B, e)
      [] a.profile \in CalibrationProfiles /\ ~a.engaged -> CalibrationPreviewButtons(a, A, B, e)
      [] a.profile \in CalibrationProfiles /\ a.engaged -> CalibrationActiveButtons(a, A, B, e)
      [] a.profile = "TeleopWifi" -> TeleopWifiButtons(a, A, B, e)
      [] a.profile \in EspNowProfiles -> TeleopMirrorButtons(a, A, B, e)
      [] a.profile = "OtaReady" -> OtaButtons(a, A, B, e)

(***************************************************************************)
(* The dashboard's commands.                                               *)
(***************************************************************************)
SetTransport(a, p, transport, e) ==
    [applyControllerOperationProfile(a, p, e) EXCEPT !.transport = transport]

handleTeleopTransportCommand(a, command, e) ==
    LET b == IF a.passthrough THEN disengagePassthroughMode(a, "TeleopEspNow", e) ELSE a
    IN  CASE command \in CalibrationProfiles ->
                engageCalibrationMode(applyControllerOperationProfile(b, command, e), e)
          [] command = "Passthrough" ->
                engagePassthroughMode(applyControllerOperationProfile(b, command, e))
          [] command = "EspNow" -> SetTransport(b, "TeleopEspNow", "EspNow", e)
          [] command = "WifiUdp" -> SetTransport(b, "TeleopWifi", "WifiUdp", e)

handleTeleopCalibrationCaptureCommand(a, command, e) ==
    CASE ~a.engaged -> a
      [] a.engaged /\ command = "ConfirmCenter" -> applyCalibrationCenter(a, e)
      [] a.engaged /\ command = "Sample" -> sampleCalibrationRangeCapture(a, e)
      [] a.engaged /\ command = "Cancel" ->
            applyControllerOperationProfile([a EXCEPT !.banner = TRUE], "TeleopEspNow", e)
      [] a.engaged /\ command = "Finish" ->
            LET committed == commitCalibrationRangeCapture(a, e)
            IN  IF Committed(a, e)
                THEN applyControllerOperationProfile(
                        [committed EXCEPT !.banner = TRUE, !.engaged = FALSE], "TeleopEspNow", e)
                ELSE committed

TransportCommands == CalibrationProfiles \cup {"Passthrough", "EspNow", "WifiUdp"}
RawCommands == TransportCommands \cup {"Local", "Tracked"}

\* A command that the follower is to answer, any other one, and the rest.
Handle(a, command, e) ==
    LET begun == [a EXCEPT !.awaiting = "nothing"]
        await(op) == IF e.radio = "sent" THEN [begun EXCEPT !.awaiting = op] ELSE begun
    IN  CASE command = "FollowerDebugDisable" -> await("debugDisable")
          [] command = "Tracked" -> await("other")
          [] command = "Local" -> begun
          [] command = "TeleopStart" -> [begun EXCEPT !.continuous = TRUE]
          [] command = "TeleopStop" -> releaseFollowerTeleopHold(begun, e)
          [] command \in TransportCommands -> handleTeleopTransportCommand(begun, command, e)
          [] command \in {"ConfirmCenter", "Finish", "Cancel", "Sample"} ->
                handleTeleopCalibrationCaptureCommand(begun, command, e)

(***************************************************************************)
(* The steps of a tick.                                                    *)
(***************************************************************************)
Step(here, next) == pc = here /\ pc' = next

\* updateEspNowStaPrime, the session's tick, clearDeferHomeStaReconnectIfDone
Core ==
    /\ Step("core", "commands")
    /\ raw' = app.passthrough
    /\ \E wifi, acked \in BOOLEAN :
        LET e == [radio |-> "sent", ok |-> TRUE, grown |-> FALSE, wifi |-> wifi, acked |-> acked]
            primed == updateEspNowStaPrime(app, e)
            ticked == IF primed.link THEN tickSession(primed, e) ELSE primed
        IN  app' = clearDeferHomeStaReconnectIfDone(ticked, e)

\* At most one servo command a tick, the transport alone in passthrough; a
\* pairing or scan command before it only touches what it would reset.
Command ==
    /\ Step("commands", "acknowledgements")
    /\ UNCHANGED raw
    /\ \/ UNCHANGED app
       \/ \E command \in Commands \cap (IF raw THEN RawCommands ELSE AllCommands),
             e \in Found :
            app' = Handle(app, command, e)

\* updateFollowerAckTracking: nothing yet; an answer or the deadline; or a
\* last resend that the radio refuses.
AckTracking(a, outcome, e) ==
    CASE a.awaiting = "nothing" \/ outcome = "waits" -> a
      [] a.awaiting # "nothing" /\ outcome = "ends" ->
            clearDeferHomeStaReconnectIfDone([a EXCEPT !.awaiting = "nothing"], e)
      [] a.awaiting # "nothing" /\ outcome = "refused" -> [a EXCEPT !.awaiting = "nothing"]

Acknowledgements ==
    /\ Step("acknowledgements", "buttons")
    /\ UNCHANGED raw
    /\ IF raw THEN UNCHANGED app
       ELSE \E tracked \in {"waits", "ends", "refused"},
               center \in {"nothing", "applied", "failed"}, acked \in BOOLEAN :
                LET e == [radio |-> "sent", ok |-> TRUE, grown |-> FALSE, wifi |-> FALSE,
                          acked |-> acked]
                IN  app' = pollFollowerCalibrationCenterAck(AckTracking(app, tracked, e), center)

\* The menu: a selected profile, or what changes nothing here.
MenuInput ==
    /\ shouldShowInteractiveOledMenu(app)
    /\ LET b == [app EXCEPT !.pressed = {}]
       IN  \/ app' = b
           \/ /\ "A" \in app.pressed
              /\ \E p \in Selectable, e \in Found : app' = activateProfileFromMenu(b, p, e)

ButtonInput ==
    /\ ~shouldShowInteractiveOledMenu(app)
    /\ \/ app.pressed = {} /\ UNCHANGED app
       \/ app.pressed # {} /\ \E e \in Found :
        app' = Buttons([app EXCEPT !.pressed = {}], "A" \in app.pressed, "B" \in app.pressed, e)

Input ==
    /\ Step("buttons", "mode")
    /\ UNCHANGED raw
    /\ MenuInput \/ ButtonInput

(***************************************************************************)
(* computeModeAndStatus.                                                   *)
(***************************************************************************)
\* Mutant: a text that is held hides that the session has not begun.
HeldModeOfLink(a, linked) ==
    IF a.profile = "TeleopWifi" /\ ~a.link THEN "Idle"
    ELSE IF a.profile \in CalibrationProfiles /\ a.engaged THEN "CalibrationLeader"
    ELSE IF linked THEN "Teleoperation" ELSE "Idle"

HeldMode(a, linked) ==
    CASE a.profile = "TeleopWifi" /\ ~a.link -> "Idle"
      [] a.profile \in CalibrationProfiles /\ ~a.engaged -> "Idle"
      [] a.profile \in CalibrationProfiles /\ a.engaged -> "CalibrationLeader"
      [] OTHER -> IF linked THEN "Teleoperation" ELSE "Idle"

PadlessMode(a, linked) ==
    IF /\ a.continuous /\ linked
       /\ a.profile \in EspNowProfiles \/ (a.profile = "TeleopWifi" /\ a.teleopActive)
    THEN "Teleoperation" ELSE "Idle"

RuntimeMode(a, linked, available) ==
    CASE a.profile = "CalibrationFollower" /\ a.engaged ->
            IF a.centerPending \/ linked \/ available THEN "CalibrationFollower" ELSE "Idle"
      [] a.profile = "CalibrationLeader" /\ a.engaged -> "CalibrationLeader"
      [] a.profile \in CalibrationProfiles /\ ~a.engaged -> "Idle"
      [] a.profile = "TeleopWifi" /\ ~a.link -> "Idle"
      [] a.profile = "TeleopWifi" /\ a.link /\ ~(a.session = "ready" /\ a.teleopActive) ->
            "Teleoperation"
      [] OTHER -> IF linked THEN "Teleoperation" ELSE "Idle"

\* linked: espNowLinked of the local inputs, true of a follower that is heard
\* and kept up by a session; held: is a status text still held; fault: does
\* the number of servos differ; pad: is a controller paired.
ComputedMode(a, linked, available, held, fault, pad) ==
    CASE a.profile = "OtaReady" -> "Idle"
      [] a.profile = "Passthrough" -> IF a.passthrough THEN "Passthrough" ELSE "Idle"
      [] OTHER ->
            IF held THEN HeldMode(a, linked)
            ELSE IF fault /\ ~a.continuous THEN IF linked THEN "Teleoperation" ELSE "Idle"
            ELSE IF ~pad THEN PadlessMode(a, linked)
            ELSE RuntimeMode(a, linked, available)

Mode ==
    /\ Step("mode", "core")
    /\ UNCHANGED raw
    /\ \E linked, available, held, fault, pad, grown \in BOOLEAN :
        LET e == [radio |-> "sent", ok |-> TRUE, grown |-> grown, wifi |-> FALSE, acked |-> FALSE]
            sampled == IF ~raw /\ app.engaged THEN sampleCalibrationRangeCapture(app, e) ELSE app
        IN  app' = [sampled EXCEPT
                        !.mode = ComputedMode(sampled, linked, available, held, fault, pad)]

(***************************************************************************)
(* What the tick does not do itself.                                       *)
(***************************************************************************)
\* The Xbox task notes a press: before the commands, which may drop it, or
\* after them; at another moment of the tick it makes no other difference.
Press(button) ==
    /\ pc \in {"commands", "buttons"}
    /\ button \notin app.pressed
    /\ app' = [app EXCEPT !.pressed = @ \cup {button}]
    /\ UNCHANGED <<pc, raw>>

PrimeTimeout ==
    /\ ~app.learned /\ ~app.primeOver
    /\ app' = [app EXCEPT !.primeOver = TRUE]
    /\ UNCHANGED <<pc, raw>>

Restart ==
    /\ \E ready \in BOOLEAN : app' = Booted(app.flash, ready)
    /\ pc' = "core" /\ raw' = FALSE

Next ==
    \/ Core \/ Command \/ Acknowledgements \/ Input \/ Mode
    \/ \E button \in {"A", "B"} : Press(button)
    \/ PrimeTimeout
    \/ Restart

Spec == Init /\ [][Next]_vars
------------------------------------------------------------------------------
\* Every member of LeaderApp keeps its type.
TypeOK == app \in State /\ pc \in Steps /\ raw \in BOOLEAN

\* A calibration session only exists under a calibration profile, the range
\* phase only inside a session, and a center is only waited for before it, on
\* the follower: whatever order buttons, commands and late acknowledgements
\* come in, none of the flags outlives the others.
CalibrationSession ==
    /\ app.engaged => app.profile \in CalibrationProfiles
    /\ app.phase = 1 => app.engaged
    /\ app.centerPending => app.engaged /\ app.phase = 0 /\ app.profile = "CalibrationFollower"

\* No Wi-Fi direct session runs without its link, no link outlives the
\* TeleopWifi profile, and teleoperation over it needs a follower that joined.
LinkSession ==
    /\ app.session # "none" => app.link
    /\ app.link => app.profile = "TeleopWifi"
    /\ app.teleopActive => app.session = "ready"

\* The mirror task sends while both hold (canMirrorNow).
Mirrors(a) == a.continuous /\ a.mode = "Teleoperation"

\* When a tick ends, the arm is only mirrored under a teleoperation profile, by
\* the transport of that profile, over a link that is engaged, and never while
\* the arm is calibrated or the bus handed to the host, though the dashboard
\* may start mirroring under any profile.
MirrorWhenMeant ==
    pc = "core" /\ Mirrors(app) =>
        /\ app.profile \in DOMAIN TransportOf
        /\ app.transport = TransportOf[app.profile]
        /\ app.profile = "TeleopWifi" => app.link
        /\ ~app.passthrough /\ ~app.engaged

\* Between any two steps the radio serves the profile: with ESP-NOW outside the
\* menu the home network is off once its channel is known, and the dashboard's
\* server silent; it is off beside an access point; and a leader that waits
\* for a firmware has both.
RadioPolicy ==
    /\ app.profile \in EspNowProfiles => ~app.listening
    /\ app.profile \in EspNowProfiles /\ ~app.browse /\ app.learned /\ ~app.resync => ~app.sta
    /\ app.link => ~app.sta
    /\ app.profile = "OtaReady" => app.sta /\ app.listening

\* How many times B leads back to the menu: a Wi-Fi link that has not started
\* mirroring is left first, and so is mirroring that the dashboard started
\* under another profile.  The result banner, which hides the menu until the
\* next session, is left aside.
Depth(a) ==
    IF shouldShowInteractiveOledMenu([a EXCEPT !.banner = FALSE]) THEN 0
    ELSE IF \/ a.link /\ ~a.teleopActive
            \/ ~a.link /\ a.continuous /\ a.profile \notin EspNowProfiles
    THEN 2
    ELSE 1

\* Wherever the user is, B alone leads one step back towards the menu.
BackLeads ==
    [][pc = "buttons" /\ app.pressed = {"B"} /\ pc' = "mode" /\ Depth(app) > 0 =>
        Depth(app') < Depth(app)]_vars

\* B during a range capture cancels: neither arm's profile changes.  The code
\* stores the next profile before it asks whose capture it cancels.
CancelKeepsProfiles ==
    [][pc = "buttons" /\ app.pressed = {"B"} /\ pc' = "mode" /\ app.phase = 1 =>
        app'.profiles = app.profiles]_vars
==============================================================================
