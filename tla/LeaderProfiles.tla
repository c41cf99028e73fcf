---------------------------- MODULE LeaderProfiles ----------------------------
(***************************************************************************)
(* What the leader does when its operation profile changes or a mode is    *)
(* engaged or left: the release of the follower, the Wi-Fi direct session, *)
(* the calibration, and the policy that decides between the home network,  *)
(* the access point and ESP-NOW.  Operators on the state of LeaderApp, as  *)
(* in Calibration; one calls the other as the handlers of the code do.     *)
(***************************************************************************)
EXTENDS Calibration

(***************************************************************************)
(* The radio policy.                                                       *)
(***************************************************************************)
\* Mutant: the home network stays for every profile.
KeepHomeStaAlways(a, p) == a.resync \/ ~a.defer

\* primeOver: has kHomeWifiChannelPrimeTimeoutMs passed since boot?
shouldKeepHomeStaConnectedForProfile(a, p) ==
    \/ a.browse
    \/ p \notin EspNowProfiles
    \/ a.resync
    \/ ~a.learned /\ ~a.primeOver

KeepHomeSta(a, p) == a.resync \/ (~a.defer /\ shouldKeepHomeStaConnectedForProfile(a, p))

\* syncWifiRadioPolicyForProfile where no Wi-Fi direct link is engaged.
PolicyWithoutLink(a, p) ==
    IF p = "OtaReady"
    THEN [a EXCEPT !.continuous = FALSE, !.sta = TRUE, !.listening = TRUE]
    ELSE [a EXCEPT !.session = "none", !.sta = KeepHomeSta(a, p),
                   !.listening = p \notin EspNowProfiles]

\* Mutant: the link goes and teleoperation over it stays.
DisengageKeepsTeleop(a) ==
    IF ~a.link /\ a.session = "none" THEN a
    ELSE PolicyWithoutLink(
            [a EXCEPT !.link = FALSE, !.session = "none", !.resync = TRUE, !.defer = FALSE,
                      !.sta = TRUE],
            a.profile)

disengageWifiDirectLink(a) ==
    IF ~a.link /\ a.session = "none" THEN a
    ELSE PolicyWithoutLink(
            [a EXCEPT !.link = FALSE, !.teleopActive = FALSE, !.continuous = FALSE,
                      !.session = "none", !.resync = TRUE, !.defer = FALSE, !.sta = TRUE],
            a.profile)

tickSession(a, e) ==
    IF a.session = "up" /\ e.acked THEN [a EXCEPT !.session = "ready"] ELSE a

syncWifiRadioPolicyForProfile(a, p, e) ==
    CASE p = "OtaReady" -> PolicyWithoutLink(disengageWifiDirectLink(a), p)
      [] p # "OtaReady" /\ a.link ->
            [tickSession(a, e) EXCEPT !.sta = FALSE, !.listening = p \notin EspNowProfiles]
      [] OTHER -> PolicyWithoutLink(a, p)

updateEspNowStaPrime(a, e) ==
    CASE a.resync ->
            IF e.wifi THEN syncWifiRadioPolicyForProfile([a EXCEPT !.resync = FALSE], a.profile, e)
            ELSE a
      [] ~a.resync /\ a.profile \in EspNowProfiles /\ ~a.learned /\ (e.wifi \/ a.primeOver) ->
            syncWifiRadioPolicyForProfile([a EXCEPT !.learned = TRUE], a.profile, e)
      [] OTHER -> a

clearDeferHomeStaReconnectIfDone(a, e) ==
    IF a.defer /\ a.awaiting = "nothing"
    THEN syncWifiRadioPolicyForProfile([a EXCEPT !.defer = FALSE], a.profile, e)
    ELSE a

(***************************************************************************)
(* Mirroring starts and stops.                                             *)
(***************************************************************************)
prepareEspNowTeleopMirrorStart(a, e) ==
    LET primed == updateEspNowStaPrime(a, e)
        known == [primed EXCEPT !.learned = @ \/ primed.profile \in EspNowProfiles]
    IN  syncWifiRadioPolicyForProfile(known, known.profile, e)

\* The home network stays away until the follower acknowledged its release.
releaseFollowerTeleopHold(a, e) ==
    IF e.radio = "lost" THEN [a EXCEPT !.continuous = FALSE, !.defer = FALSE]
    ELSE [a EXCEPT !.continuous = FALSE, !.defer = e.radio = "sent",
                   !.awaiting = IF e.radio = "sent" THEN "debugDisable" ELSE "nothing"]

(***************************************************************************)
(* A calibration session is engaged and disengaged.                        *)
(***************************************************************************)
engageCalibrationMode(a, e) ==
    IF a.profile \notin CalibrationProfiles \/ a.engaged THEN a
    ELSE [releaseFollowerTeleopHold(a, e) EXCEPT
            !.engaged = TRUE, !.phase = 0, !.centerPending = FALSE, !.banner = FALSE,
            !.pressed = @ \ {"A"}]

disengageCalibrationMode(a) ==
    IF ~a.engaged THEN a
    ELSE LET restored == IF a.phase # 0 THEN cancelCalibrationRangeCapture(a) ELSE a
         IN  [restored EXCEPT !.engaged = FALSE, !.phase = 0, !.centerPending = FALSE]

(***************************************************************************)
(* The profile changes.  The role of the session that is cancelled is read *)
(* after the new profile is stored.                                        *)
(***************************************************************************)
TransportOf ==
    [p \in EspNowProfiles \cup {"TeleopWifi"} |->
        CASE p = "TeleopWifi" -> "WifiUdp"
          [] p = "TeleopEspNow" -> "EspNow"
          [] p = "TeleopEspNowTurbo" -> "EspNowTurbo"
          [] p = "TeleopEspNowFeedback" -> "EspNowFeedback"]

LeavesTeleop(previous, next) ==
    \/ (previous \in EspNowProfiles /\ next \notin EspNowProfiles)
    \/ (previous = "TeleopWifi" /\ next # "TeleopWifi")

\* A chain of else-ifs: entering Wi-Fi teleoperation leaves the OTA flag alone.
ExitRadio(a, previous, next) ==
    IF previous = "TeleopWifi" /\ (a.link \/ a.session # "none") THEN disengageWifiDirectLink(a)
    ELSE IF previous # "TeleopWifi" /\ next = "TeleopWifi"
    THEN [a EXCEPT !.link = FALSE, !.teleopActive = FALSE, !.continuous = FALSE,
                   !.pressed = @ \ {"A"}]
    ELSE IF previous # "OtaReady" /\ next = "OtaReady"
    THEN [a EXCEPT !.ota = FALSE, !.pressed = @ \ {"A"}]
    ELSE [a EXCEPT !.ota = @ /\ (previous = "OtaReady" => next = "OtaReady")]

NotCalibrating(a) == [a EXCEPT !.engaged = FALSE, !.phase = 0, !.centerPending = FALSE]

\* applyProfileExitTransitions, on a state that has the new profile already.
ExitTransitions(a, previous, next, e) ==
    LET calibrated == previous \in CalibrationProfiles
        calibrates == next \in CalibrationProfiles
        switched == IF calibrated /\ calibrates /\ previous # next
                    THEN disengageCalibrationMode(a) ELSE a
        unplugged == IF previous = "Passthrough" THEN [switched EXCEPT !.passthrough = FALSE]
                     ELSE switched
        released == IF LeavesTeleop(previous, next)
                    THEN releaseFollowerTeleopHold(unplugged, e) ELSE unplugged
        left == ExitRadio(released, previous, next)
    IN  IF calibrated /\ ~calibrates THEN NotCalibrating(disengageCalibrationMode(left)) ELSE left

CalibrationState(a, previous, next) ==
    IF next \in CalibrationProfiles
    THEN [a EXCEPT !.engaged = @ /\ previous = next, !.phase = 0, !.centerPending = FALSE,
                   !.continuous = FALSE, !.pressed = @ \ {"A"}]
    ELSE [a EXCEPT !.engaged = FALSE, !.phase = 0]

applyControllerOperationProfile(a, next, e) ==
    LET previous == a.profile
        exited == ExitTransitions([a EXCEPT !.profile = next], previous, next, e)
        settled == CalibrationState(exited, previous, next)
        carried == IF next \in DOMAIN TransportOf
                   THEN [settled EXCEPT !.transport = TransportOf[next]] ELSE settled
    IN  IF next = "Passthrough"
        THEN [exited EXCEPT !.engaged = FALSE, !.phase = 0, !.continuous = FALSE]
        ELSE syncWifiRadioPolicyForProfile(carried, next, e)

(***************************************************************************)
(* The other modes.                                                        *)
(***************************************************************************)
engagePassthroughMode(a) ==
    IF a.profile = "Passthrough" THEN [a EXCEPT !.passthrough = TRUE] ELSE a

disengagePassthroughMode(a, fallback, e) ==
    IF a.profile = "Passthrough"
    THEN applyControllerOperationProfile([a EXCEPT !.passthrough = FALSE], fallback, e)
    ELSE [a EXCEPT !.passthrough = FALSE]

engageOtaMode(a, e) ==
    IF a.profile # "OtaReady" \/ a.ota THEN a
    ELSE syncWifiRadioPolicyForProfile(
            [disengageWifiDirectLink(a) EXCEPT
                !.ota = TRUE, !.continuous = FALSE, !.teleopActive = FALSE, !.sta = TRUE,
                !.pressed = @ \ {"A"}],
            a.profile, e)

\* e.ok: do the credentials and the access point come up?
engageWifiDirectLink(a, e) ==
    IF a.profile # "TeleopWifi" \/ a.link THEN a
    ELSE syncWifiRadioPolicyForProfile(
            [a EXCEPT !.teleopActive = FALSE, !.continuous = FALSE, !.link = TRUE,
                      !.session = IF e.ok THEN "up" ELSE "none", !.pressed = @ \ {"A"}],
            a.profile, e)
==============================================================================
