-------------------------------- MODULE Haptic --------------------------------
(***************************************************************************)
(* The force feedback of the gripper: the follower samples the load of its *)
(* gripper, takes off what the gripper costs when idle and sends the rest; *)
(* the leader holds its own gripper while the load tells of a contact.     *)
(*                                                                         *)
(* Three actors: the sampler task of the follower, the radio callback of   *)
(* the leader, which keeps only the latest frame, and the leader's loop,   *)
(* whose tick takes that frame and then decides.  The grippers, the bus of *)
(* the leader, the frames that go missing, and the profile and the mode    *)
(* (LeaderApp) are inputs, and so is the distance between the grippers,    *)
(* which a tick finds anywhere.  Left out: the other joints, which stay    *)
(* limp, the position the gripper is held at, and the rate shown on the    *)
(* display.                                                                *)
(***************************************************************************)
EXTENDS Naturals

CONSTANTS
    Loads,           \* loads of the follower's gripper, in the unit of the wire
    HapticFaults,    \* faults of this instance
    MaxHapticFaults  \* how many of them strike

kLoadWireMax == 127
AllHapticFaults ==
    {"lost feedback", "no snapshot", "no gripper", "no hold", "half hold", "no release"}

ASSUME HapticAssumption ==
    /\ Loads \subseteq 0..kLoadWireMax
    /\ HapticFaults \subseteq AllHapticFaults
    /\ MaxHapticFaults \in Nat

VARIABLES
    gripLoad,         \* external: the load of the follower's gripper
    uplinkOn,         \* teleopLoadFeedbackUplinkEnabled_
    baselineWire,     \* gripperLoadBaselineWire_
    pendingFeedback,  \* the frame the loop has not taken, or kNoFeedback
    feedbackLoad,     \* teleopFeedbackLoads_ of the gripper
    presentPosValid,  \* teleopFeedbackGripperPresentPosValid_
    hapticWanted,     \* is it the Feedback profile, in teleoperation?
    mirrorOn,         \* teleopContinuousEnabled_
    gripperEngaged,
    busPrimed,
    engageStreak,
    disengageHold,    \* the wait of 120 ms: not begun, running or over
    gripTorque,       \* external: is the leader's gripper held?
    gripStuck,        \* history: did a call that failed leave it held?
    hapticFaultCount

samplerVars == <<uplinkOn, baselineWire>>
overlayVars == <<gripperEngaged, busPrimed, engageStreak, disengageHold>>
gripVars == <<gripTorque, gripStuck>>
hapticVars == <<gripLoad, samplerVars, pendingFeedback, feedbackLoad, presentPosValid,
                hapticWanted, mirrorOn, overlayVars, gripVars, hapticFaultCount>>

HapticFault(kind) ==
    /\ kind \in HapticFaults /\ hapticFaultCount < MaxHapticFaults
    /\ hapticFaultCount' = hapticFaultCount + 1

NoHapticFault == UNCHANGED hapticFaultCount

(***************************************************************************)
(* The follower's sampler.                                                 *)
(***************************************************************************)
kGripperBaselineAdaptMaxWireLoad == 8

\* The baseline after a sample; zero stands for none so far.
AdaptedBaseline(wire, baseline) ==
    CASE baseline = 0 -> wire
      [] baseline > 0 /\ wire + 2 < baseline -> (baseline * 15 + wire) \div 16
      [] baseline > 0 /\ wire > baseline /\ wire <= kGripperBaselineAdaptMaxWireLoad ->
            (baseline * 31 + wire) \div 32
      [] OTHER -> baseline

\* Mutant: a load below the baseline wraps around in its byte.
NetWraps(wire, baseline) == (wire + 256 - AdaptedBaseline(wire, baseline)) % 256

netGripperLoadWire(wire, baseline) ==
    LET adapted == AdaptedBaseline(wire, baseline)
    IN  IF wire <= adapted THEN 0 ELSE wire - adapted

kNoFeedback == kLoadWireMax + 1

\* A gripper that moves fast reports no load, but counts for the baseline.
LoadSample ==
    /\ uplinkOn
    /\ baselineWire' = AdaptedBaseline(gripLoad, baselineWire)
    /\ \/ pendingFeedback' \in {0, netGripperLoadWire(gripLoad, baselineWire)} /\ NoHapticFault
       \/ HapticFault("lost feedback") /\ UNCHANGED pendingFeedback
    /\ UNCHANGED <<gripLoad, uplinkOn, feedbackLoad, presentPosValid, hapticWanted, mirrorOn,
                   overlayVars, gripVars>>

\* handleTeleopLoadFeedbackUplink, or resetTeleopTransportState at a release,
\* which leaves the baseline: requests of the leader, early, late or never.
UplinkCommand ==
    /\ \/ uplinkOn' \in BOOLEAN /\ baselineWire' = 0
       \/ uplinkOn' = FALSE /\ UNCHANGED baselineWire
    /\ UNCHANGED <<gripLoad, pendingFeedback, feedbackLoad, presentPosValid, hapticWanted,
                   mirrorOn, overlayVars, gripVars, hapticFaultCount>>

(***************************************************************************)
(* The contact of the grippers.                                            *)
(***************************************************************************)
kPositionSyncMinWireLoad == 18
kDisengageMaxWireLoad == 4
kMinPositionGap == 40
kMirrorCatchUpGap == 18
kEngageStreakRequired == 2
Gaps == {0, kMirrorCatchUpGap, kMinPositionGap}

shouldEngageGripperHaptic(load, gap) ==
    load >= kPositionSyncMinWireLoad /\ gap >= kMinPositionGap

shouldDisengageMirrorCatchUp(load, gap) ==
    gap < kMirrorCatchUpGap /\ load < kPositionSyncMinWireLoad

(***************************************************************************)
(* The leader's bus.  A call that fails may be cut short: of a hold, the   *)
(* torque may be on already.                                               *)
(***************************************************************************)
LimpGripper == gripTorque' = FALSE /\ gripStuck' = FALSE

setTorqueOff ==
    \/ LimpGripper /\ NoHapticFault
    \/ HapticFault("no release") /\ UNCHANGED gripTorque /\ gripStuck' = gripTorque

\* The result of the frame that holds the gripper decides what counts as engaged.
holdGripper ==
    \/ /\ gripTorque' = TRUE /\ gripStuck' = FALSE /\ gripperEngaged' = TRUE
       /\ NoHapticFault
    \/ HapticFault("no hold") /\ UNCHANGED <<gripVars, gripperEngaged>>
    \/ /\ HapticFault("half hold") /\ gripTorque' = TRUE
       /\ gripStuck' = (gripStuck \/ ~gripperEngaged) /\ UNCHANGED gripperEngaged

Disengaged ==
    /\ gripperEngaged' = FALSE /\ engageStreak' = 0 /\ disengageHold' = "none"

\* releaseGripperTorque and what follows it
ReleaseGripper == setTorqueOff /\ Disengaged

(***************************************************************************)
(* The leader's tick.                                                      *)
(***************************************************************************)
TakesFeedback ==
    IF hapticWanted /\ pendingFeedback # kNoFeedback
    THEN /\ feedbackLoad' = pendingFeedback /\ pendingFeedback' = kNoFeedback
         /\ presentPosValid' = TRUE
    ELSE UNCHANGED <<pendingFeedback, feedbackLoad, presentPosValid>>

HapticActive == hapticWanted /\ mirrorOn

NextStreak(candidate) ==
    IF ~candidate THEN 0
    ELSE IF engageStreak < kEngageStreakRequired THEN engageStreak + 1 ELSE engageStreak

Rests == UNCHANGED <<gripperEngaged, gripVars, disengageHold>> /\ NoHapticFault

NotEngaged(candidate) ==
    /\ engageStreak' = NextStreak(candidate)
    /\ IF candidate /\ engageStreak' = kEngageStreakRequired
       THEN disengageHold' = "none" /\ holdGripper
       ELSE Rests

\* Mutant: every tick without load begins the wait again.
WaitsAnew(candidate) ==
    /\ engageStreak' = NextStreak(candidate)
    /\ disengageHold' = "running"
    /\ UNCHANGED <<gripperEngaged, gripVars>> /\ NoHapticFault

\* Without load the gripper is let go after a wait, in which it is not held anew.
WithoutLoad(candidate) ==
    IF disengageHold = "over" THEN ReleaseGripper
    ELSE /\ engageStreak' = NextStreak(candidate)
         /\ disengageHold' = "running"
         /\ UNCHANGED <<gripperEngaged, gripVars>> /\ NoHapticFault

Engaged(load, gap, candidate) ==
    IF shouldDisengageMirrorCatchUp(load, gap) THEN ReleaseGripper
    ELSE IF load <= kDisengageMaxWireLoad THEN WithoutLoad(candidate)
    ELSE engageStreak' = NextStreak(candidate) /\ disengageHold' = "none" /\ holdGripper

\* applyTeleopHapticOverlay, once its period is over; gap is what it measures.
Overlay(gap) ==
    LET candidate == shouldEngageGripperHaptic(feedbackLoad', gap)
    IN  IF gripperEngaged THEN Engaged(feedbackLoad', gap, candidate) ELSE NotEngaged(candidate)

\* The first time the arm is made limp; then it is too early to engage.
Prime(gap) ==
    /\ setTorqueOff
    /\ gripperEngaged' = FALSE
    /\ engageStreak' = NextStreak(shouldEngageGripperHaptic(feedbackLoad', gap))
    /\ UNCHANGED disengageHold

\* No position of the gripper is known, or none at all.
Blind ==
    \/ HapticFault("no snapshot") /\ UNCHANGED <<gripperEngaged, engageStreak, disengageHold, gripVars>>
    \/ /\ HapticFault("no gripper")
       /\ IF gripperEngaged THEN LimpGripper /\ Disengaged
          ELSE UNCHANGED <<gripperEngaged, engageStreak, disengageHold, gripVars>>

\* Without a position from the follower the grippers count as level.
HapticTick ==
    /\ TakesFeedback
    /\ IF ~HapticActive THEN UNCHANGED <<overlayVars, gripVars, hapticFaultCount>>
       ELSE /\ busPrimed' = TRUE
            /\ \/ \E measured \in Gaps :
                    LET gap == IF presentPosValid' THEN measured ELSE 0
                    IN  IF busPrimed THEN Overlay(gap) ELSE Prime(gap)
               \/ busPrimed /\ Blind
    /\ UNCHANGED <<gripLoad, samplerVars, hapticWanted, mirrorOn>>

HoldElapses ==
    /\ disengageHold = "running" /\ disengageHold' = "over"
    /\ UNCHANGED <<gripLoad, samplerVars, pendingFeedback, feedbackLoad, presentPosValid,
                   hapticWanted, mirrorOn, gripperEngaged, busPrimed, engageStreak, gripVars,
                   hapticFaultCount>>

(***************************************************************************)
(* Mirroring starts and stops; the profile and the mode change.            *)
(***************************************************************************)
\* Mutant: the torque is left to the priming that follows.
ResetOfFlags ==
    /\ Disengaged /\ busPrimed' = FALSE /\ presentPosValid' = FALSE
    /\ UNCHANGED gripVars /\ NoHapticFault

\* The load stays the one of the last session.
resetTeleopHapticOverlay ==
    /\ Disengaged /\ busPrimed' = FALSE /\ presentPosValid' = FALSE
    /\ setTorqueOff

\* The button A; the dashboard starts without a reset.
MirrorStart ==
    /\ mirrorOn' = TRUE
    /\ \/ resetTeleopHapticOverlay
       \/ UNCHANGED <<overlayVars, presentPosValid, gripVars>> /\ NoHapticFault
    /\ UNCHANGED <<gripLoad, samplerVars, pendingFeedback, feedbackLoad, hapticWanted>>

\* releaseFollowerTeleopHold, which tries twice to make the arm limp: its fault
\* is that of both.
MirrorStop ==
    /\ mirrorOn' = FALSE
    /\ resetTeleopHapticOverlay
    /\ UNCHANGED <<gripLoad, samplerVars, pendingFeedback, feedbackLoad, hapticWanted>>

\* Between the ESP-NOW profiles, or into another mode at a fault, nothing is
\* released.
HapticWanted ==
    /\ hapticWanted' = ~hapticWanted
    /\ UNCHANGED <<gripLoad, samplerVars, pendingFeedback, feedbackLoad, presentPosValid,
                   mirrorOn, overlayVars, gripVars, hapticFaultCount>>

GripChanges ==
    /\ gripLoad' \in Loads
    /\ UNCHANGED <<samplerVars, pendingFeedback, feedbackLoad, presentPosValid, hapticWanted,
                   mirrorOn, overlayVars, gripVars, hapticFaultCount>>

HapticInit ==
    /\ gripLoad \in Loads
    /\ uplinkOn = FALSE /\ baselineWire = 0
    /\ pendingFeedback = kNoFeedback /\ feedbackLoad = 0 /\ presentPosValid = FALSE
    /\ hapticWanted = FALSE /\ mirrorOn = FALSE
    /\ gripperEngaged = FALSE /\ busPrimed = FALSE /\ engageStreak = 0 /\ disengageHold = "none"
    /\ gripTorque = FALSE /\ gripStuck = FALSE
    /\ hapticFaultCount = 0

HapticNext ==
    \/ LoadSample \/ UplinkCommand
    \/ HapticTick \/ HoldElapses
    \/ MirrorStart \/ MirrorStop \/ HapticWanted
    \/ GripChanges

HapticFairness ==
    WF_hapticVars(LoadSample) /\ WF_hapticVars(HapticTick) /\ WF_hapticVars(HoldElapses)

HapticSpec == HapticInit /\ [][HapticNext]_hapticVars /\ HapticFairness
------------------------------------------------------------------------------
\* Every variable of the feedback keeps its type; no load exceeds the wire, and
\* the baseline fits its byte.
HapticTypeOK ==
    /\ {uplinkOn, presentPosValid, hapticWanted, mirrorOn, gripperEngaged, busPrimed, gripTorque,
        gripStuck} \subseteq BOOLEAN
    /\ gripLoad \in Loads
    /\ {baselineWire, feedbackLoad} \subseteq 0..kLoadWireMax
    /\ pendingFeedback \in 0..kNoFeedback
    /\ engageStreak \in 0..kEngageStreakRequired
    /\ disengageHold \in {"none", "running", "over"}
    /\ hapticFaultCount \in 0..MaxHapticFaults

\* The leader's gripper is only held while the overlay knows that it holds it
\* and mirroring is on; the one exception is a call of the bus that failed, of
\* which the code keeps no note.
StiffIsMeant == gripTorque => gripStuck \/ (gripperEngaged /\ mirrorOn)

\* Once the follower's gripper rests and the feedback goes on, the leader's is
\* let go, whatever was lost before, however the grippers stand to each other,
\* and in the middle of an engagement as well.
GripperLetsGo ==
    <>[](HapticActive /\ uplinkOn /\ gripLoad <= kDisengageMaxWireLoad)
        => <>[](gripTorque => gripStuck)

\* A contact is no idle offset: a load above the limit of the adaptation never
\* raises the baseline that is taken off the loads that follow.
ContactNotAbsorbed ==
    [][baselineWire' > baselineWire => gripLoad <= kGripperBaselineAdaptMaxWireLoad]_hapticVars
==============================================================================
