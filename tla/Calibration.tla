----------------------------- MODULE Calibration -----------------------------
(***************************************************************************)
(* The calibration workflow of the leader, for its own arm and for the     *)
(* follower: center, capture of the range while the user moves the joints, *)
(* commit to flash, or cancel.  A handler is an operator from the state of *)
(* LeaderApp, a record a, to the state after it; LeaderProfiles and        *)
(* LeaderApp compose them.                                                 *)
(*                                                                         *)
(* A calibration profile is abstracted to where it comes from: "default"   *)
(* (the full scale), "captured" (a committed session), "zero" (the static  *)
(* initial value), and for the working profile to whether it holds a       *)
(* range.  The environment e of a handler says what it finds: e.radio is   *)
(* "lost" while the follower is not linked, otherwise whether the radio    *)
(* takes a frame ("sent") or not ("refused"); e.ok whether the servo bus,  *)
(* flash or driver does what the handler asks of it; e.grown whether the   *)
(* joints have moved far enough; e.wifi whether the home network is up or  *)
(* the time it gets is over; e.acked whether the follower has acknowledged *)
(* the Wi-Fi direct offer.  Frames to the follower are those of            *)
(* CommandLink and leave no trace here but what the leader waits for.      *)
(***************************************************************************)
EXTENDS Naturals

CONSTANT Followed  \* arms whose profile is followed; that of another stays the default

Arms == {"Leader", "Follower"}
CalibrationProfiles == {"CalibrationLeader", "CalibrationFollower"}
EspNowProfiles == {"TeleopEspNow", "TeleopEspNowTurbo", "TeleopEspNowFeedback"}
Profiles ==
    CalibrationProfiles \cup EspNowProfiles \cup {"TeleopWifi", "Passthrough", "OtaReady"}

Environment ==
    [radio : {"lost", "refused", "sent"}, ok : BOOLEAN, grown : BOOLEAN, wifi : BOOLEAN,
     acked : BOOLEAN]

activeCalibrationRole(a) ==
    IF a.profile = "CalibrationFollower" THEN "Follower" ELSE "Leader"

\* What a handler finds; the acknowledgement only arrives between them.
Found == {e \in Environment : ~e.acked}

(***************************************************************************)
(* Flash.                                                                  *)
(***************************************************************************)
\* Mutant: a key that is missing is read all the same.
LoadedUnchecked(flash, ready) == [r \in Arms |-> IF ready THEN flash[r] ELSE "default"]

\* What begin finds in flash, or the default, which it saves when flash can.
Loaded(flash, ready) == [r \in Arms |-> IF ready /\ flash[r] # "none" THEN flash[r] ELSE "default"]
Reloaded(flash, ready) == [r \in Arms |-> IF ready /\ flash[r] = "none" THEN "default" ELSE flash[r]]

(***************************************************************************)
(* The range capture.                                                      *)
(***************************************************************************)
Follow(profiles, role, profile) ==
    IF role \in Followed THEN [profiles EXCEPT ![role] = profile] ELSE profiles

enterCalibrationRangePhase(a, role) ==
    [a EXCEPT !.phase = 1,
              !.backup = Follow(@, role, a.profiles[role]),
              !.ranged = [@ EXCEPT ![role] = FALSE]]

\* expandWorkingProfileFromTelemetry: extrema only grow.
sampleCalibrationRangeCapture(a, e) ==
    IF a.phase = 1 /\ e.grown
    THEN [a EXCEPT !.ranged = [@ EXCEPT ![activeCalibrationRole(a)] = TRUE]]
    ELSE a

profileHasRange(a) == a.ranged[activeCalibrationRole(a)]

\* The release of the torque that ends it goes to the bus or the follower.
cancelCalibrationRangeCapture(a) ==
    LET role == activeCalibrationRole(a)
    IN  [a EXCEPT !.centerPending = FALSE, !.phase = 0,
                  !.profiles = Follow(@, role, a.backup[role])]

\* Memory has the new range before flash refuses it.
commitCalibrationRangeCapture(a, e) ==
    LET role == activeCalibrationRole(a)
        sampled == sampleCalibrationRangeCapture(a, e)
        stored == [sampled EXCEPT !.profiles = Follow(@, role, "captured")]
    IN  IF ~profileHasRange(sampled) THEN sampled
        ELSE IF ~e.ok THEN stored
        ELSE [stored EXCEPT !.flash = Follow(@, role, "captured"), !.phase = 0]

Committed(a, e) == profileHasRange(sampleCalibrationRangeCapture(a, e)) /\ e.ok

(***************************************************************************)
(* The center: at once for the leader, acknowledged by the follower.       *)
(***************************************************************************)
applyCalibrationCenter(a, e) ==
    IF ~a.engaged \/ a.phase # 0 \/ a.centerPending THEN a
    ELSE IF activeCalibrationRole(a) = "Leader"
    THEN IF e.ok THEN sampleCalibrationRangeCapture(enterCalibrationRangePhase(a, "Leader"), e)
         ELSE a
    ELSE IF e.radio = "sent" THEN [a EXCEPT !.centerPending = TRUE] ELSE a

\* Mutant: the range begins with the request still pending.
PollKeepsPending(a, outcome) ==
    IF a.centerPending /\ outcome = "applied" THEN enterCalibrationRangePhase(a, "Follower")
    ELSE [a EXCEPT !.centerPending = @ /\ outcome = "nothing"]

\* What the leader may see of its pending center request at a tick.
pollFollowerCalibrationCenterAck(a, outcome) ==
    IF ~a.centerPending \/ outcome = "nothing" THEN a
    ELSE IF outcome = "applied"
    THEN enterCalibrationRangePhase([a EXCEPT !.centerPending = FALSE], "Follower")
    ELSE [a EXCEPT !.centerPending = FALSE]
==============================================================================
