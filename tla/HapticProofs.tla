----------------------------- MODULE HapticProofs -----------------------------
(***************************************************************************)
(* The type invariant of the force feedback, and that only a call of the   *)
(* bus that failed leaves the leader's gripper held when nobody means it.  *)
(***************************************************************************)
EXTENDS Haptic, TLAPS

\* Baselines and net loads fit the wire: neither adaptation leaves the range of
\* what it adapts to, and the subtraction does not wrap.
LEMMA BaselineFits ==
    ASSUME NEW wire \in 0..kLoadWireMax, NEW baseline \in 0..kLoadWireMax
    PROVE  /\ AdaptedBaseline(wire, baseline) \in 0..kLoadWireMax
           /\ netGripperLoadWire(wire, baseline) \in 0..kLoadWireMax
<1>1. AdaptedBaseline(wire, baseline) \in 0..kLoadWireMax
  <2>1. CASE baseline = 0
    BY <2>1 DEF AdaptedBaseline, kLoadWireMax
  <2>2. CASE baseline > 0 /\ wire + 2 < baseline
    <3>1. (baseline * 15 + wire) \div 16 \in 0..127
      BY <2>2 DEF kLoadWireMax
    <3> QED
      BY <2>2, <3>1 DEF AdaptedBaseline, kLoadWireMax
  <2>3. CASE baseline > 0 /\ ~(wire + 2 < baseline)
    <3>1. (baseline * 31 + wire) \div 32 \in 0..127
      BY DEF kLoadWireMax
    <3> QED
      BY <2>3, <3>1 DEF AdaptedBaseline, kLoadWireMax
  <2> QED
    BY <2>1, <2>2, <2>3 DEF kLoadWireMax
<1> QED
  BY <1>1 DEF netGripperLoadWire, kLoadWireMax

\* The type invariant, one conjunct per variable.
Flags ==
    /\ uplinkOn \in BOOLEAN /\ presentPosValid \in BOOLEAN /\ hapticWanted \in BOOLEAN
    /\ mirrorOn \in BOOLEAN /\ gripperEngaged \in BOOLEAN /\ busPrimed \in BOOLEAN
    /\ gripTorque \in BOOLEAN /\ gripStuck \in BOOLEAN

Numbers ==
    /\ gripLoad \in Loads
    /\ baselineWire \in 0..kLoadWireMax /\ feedbackLoad \in 0..kLoadWireMax
    /\ pendingFeedback \in 0..kNoFeedback
    /\ engageStreak \in 0..kEngageStreakRequired
    /\ disengageHold \in {"none", "running", "over"}
    /\ hapticFaultCount \in 0..MaxHapticFaults

LEMMA TypesApart == HapticTypeOK <=> Flags /\ Numbers
BY Zenon DEF HapticTypeOK, Flags, Numbers

LEMMA StreakBounded ==
    ASSUME Numbers, NEW candidate \in BOOLEAN
    PROVE  NextStreak(candidate) \in 0..kEngageStreakRequired
BY DEF Numbers, NextStreak, kEngageStreakRequired

\* A fault is counted, and only up to the bound.
LEMMA FaultCounted ==
    ASSUME Numbers, NEW kind, HapticFault(kind) \/ NoHapticFault
    PROVE  hapticFaultCount' \in 0..MaxHapticFaults
BY HapticAssumption DEF Numbers, HapticFault, NoHapticFault

\* What a call of the bus does to the gripper, whether it fails or not.
LEMMA TorqueOffCall ==
    ASSUME Flags, Numbers, setTorqueOff
    PROVE  /\ hapticFaultCount' \in 0..MaxHapticFaults
           /\ gripTorque' \in BOOLEAN /\ gripStuck' \in BOOLEAN
           /\ gripTorque' => gripStuck'
<1>1. hapticFaultCount' \in 0..MaxHapticFaults
  BY FaultCounted DEF setTorqueOff
<1>2. CASE LimpGripper
  BY <1>1, <1>2, Zenon DEF LimpGripper
<1>3. CASE UNCHANGED gripTorque /\ gripStuck' = gripTorque
  BY <1>1, <1>3, Zenon DEF Flags
<1> QED
  BY <1>2, <1>3, Zenon DEF setTorqueOff

LEMMA HoldCall ==
    ASSUME Flags, Numbers, holdGripper, gripTorque => gripStuck \/ gripperEngaged
    PROVE  /\ hapticFaultCount' \in 0..MaxHapticFaults
           /\ gripTorque' \in BOOLEAN /\ gripStuck' \in BOOLEAN /\ gripperEngaged' \in BOOLEAN
           /\ gripTorque' => gripStuck' \/ gripperEngaged'
<1>1. hapticFaultCount' \in 0..MaxHapticFaults
  BY FaultCounted DEF holdGripper
<1>2. CASE gripTorque' = TRUE /\ gripStuck' = FALSE /\ gripperEngaged' = TRUE
  BY <1>1, <1>2, Zenon
<1>3. CASE UNCHANGED <<gripVars, gripperEngaged>>
  BY <1>1, <1>3 DEF Flags, gripVars
<1>4. CASE /\ gripTorque' = TRUE /\ gripStuck' = (gripStuck \/ ~gripperEngaged)
           /\ UNCHANGED gripperEngaged
  <2>1. gripStuck' \in BOOLEAN
    BY <1>4, Zenon
  <2> QED
    BY <1>1, <1>4, <2>1, Zenon DEF Flags
<1> QED
  BY <1>2, <1>3, <1>4, Zenon DEF holdGripper

\* StiffIsMeant is inductive together with the types.
IInv == Flags /\ Numbers /\ StiffIsMeant

LEMMA InitialState == HapticInit => IInv
<1> SUFFICES ASSUME HapticInit PROVE IInv
  OBVIOUS
<1>1. Flags
  BY Zenon DEF HapticInit, Flags
<1>2. Numbers
  BY HapticAssumption DEF HapticInit, Numbers, kLoadWireMax, kNoFeedback, kEngageStreakRequired
<1>3. StiffIsMeant
  BY Zenon DEF HapticInit, StiffIsMeant
<1> QED
  BY <1>1, <1>2, <1>3, Zenon DEF IInv

\* What the overlay may change, and what must hold of it afterwards.
Held ==
    /\ gripTorque \in BOOLEAN /\ gripStuck \in BOOLEAN /\ gripperEngaged \in BOOLEAN
    /\ gripTorque => gripStuck \/ gripperEngaged
    /\ engageStreak \in 0..kEngageStreakRequired
    /\ disengageHold \in {"none", "running", "over"}
    /\ hapticFaultCount \in 0..MaxHapticFaults

LEMMA Untouched ==
    ASSUME IInv, UNCHANGED <<overlayVars, gripVars, hapticFaultCount>>
    PROVE  Held' /\ busPrimed' \in BOOLEAN
BY DEF IInv, Flags, Numbers, StiffIsMeant, Held, overlayVars, gripVars

LEMMA GripperReleased ==
    ASSUME IInv, setTorqueOff, Disengaged
    PROVE  Held'
<1>1. engageStreak' \in 0..kEngageStreakRequired /\ disengageHold' \in {"none", "running", "over"}
  BY DEF Disengaged, kEngageStreakRequired
<1>2. gripperEngaged' \in BOOLEAN
  BY DEF Disengaged
<1> QED
  BY <1>1, <1>2, TorqueOffCall DEF IInv, Held

\* A tick of the overlay while mirroring is on.
LEMMA OverlayStep ==
    ASSUME IInv, NEW gap \in Gaps, Overlay(gap)
    PROVE  Held'
<1> DEFINE load == feedbackLoad'
           candidate == shouldEngageGripperHaptic(load, gap)
<1>1. candidate \in BOOLEAN
  BY DEF shouldEngageGripperHaptic
<1>2. NextStreak(candidate) \in 0..kEngageStreakRequired
  BY <1>1, StreakBounded DEF IInv
<1> HIDE DEF candidate
<1>3. CASE NotEngaged(candidate)
  <2>1. engageStreak' \in 0..kEngageStreakRequired
    BY <1>2, <1>3 DEF NotEngaged
  <2>2. CASE Rests
    BY <2>1, <2>2 DEF IInv, Flags, Numbers, StiffIsMeant, Rests, NoHapticFault, gripVars, Held
  <2>3. CASE disengageHold' = "none" /\ holdGripper
    BY <2>1, <2>3, HoldCall DEF IInv, StiffIsMeant, Held
  <2> QED
    BY <1>3, <2>2, <2>3 DEF NotEngaged
<1>4. CASE Engaged(load, gap, candidate)
  <2>1. CASE ReleaseGripper
    BY <2>1, GripperReleased DEF ReleaseGripper
  <2>2. CASE /\ engageStreak' = NextStreak(candidate) /\ disengageHold' = "running"
             /\ UNCHANGED <<gripperEngaged, gripVars>> /\ NoHapticFault
    BY <1>2, <2>2 DEF IInv, Flags, Numbers, StiffIsMeant, NoHapticFault, gripVars, Held
  <2>3. CASE engageStreak' = NextStreak(candidate) /\ disengageHold' = "none" /\ holdGripper
    BY <1>2, <2>3, HoldCall DEF IInv, StiffIsMeant, Held
  <2> QED
    BY <1>4, <2>1, <2>2, <2>3 DEF Engaged, WithoutLoad
<1> QED
  BY <1>3, <1>4 DEF Overlay, candidate

LEMMA PrimeStep ==
    ASSUME IInv, NEW gap \in Gaps, Prime(gap)
    PROVE  Held'
<1>1. NextStreak(shouldEngageGripperHaptic(feedbackLoad', gap)) \in 0..kEngageStreakRequired
  BY StreakBounded DEF IInv, shouldEngageGripperHaptic
<1>2. engageStreak' \in 0..kEngageStreakRequired /\ gripperEngaged' = FALSE
      /\ disengageHold' \in {"none", "running", "over"}
  BY <1>1 DEF Prime, IInv, Numbers
<1> QED
  BY <1>2, TorqueOffCall DEF Prime, IInv, Held

LEMMA BlindStep ==
    ASSUME IInv, Blind
    PROVE  Held'
<1>1. hapticFaultCount' \in 0..MaxHapticFaults
  BY FaultCounted DEF Blind, IInv
<1>2. CASE UNCHANGED <<gripperEngaged, engageStreak, disengageHold, gripVars>>
  BY <1>1, <1>2 DEF IInv, Flags, Numbers, StiffIsMeant, gripVars, Held
<1>3. CASE LimpGripper /\ Disengaged
  <2>1. engageStreak' \in 0..kEngageStreakRequired
    BY <1>3 DEF Disengaged, kEngageStreakRequired
  <2> QED
    BY <1>1, <1>3, <2>1, Zenon DEF LimpGripper, Disengaged, Held
<1> QED
  BY <1>2, <1>3 DEF Blind

\* Taking the frame that waits leaves only loads of the wire behind.
LEMMA FeedbackTaken ==
    ASSUME IInv, TakesFeedback
    PROVE  /\ pendingFeedback' \in 0..kNoFeedback /\ feedbackLoad' \in 0..kLoadWireMax
           /\ presentPosValid' \in BOOLEAN
<1>1. CASE UNCHANGED <<pendingFeedback, feedbackLoad, presentPosValid>>
  BY <1>1 DEF IInv, Flags, Numbers
<1>2. CASE /\ pendingFeedback # kNoFeedback /\ feedbackLoad' = pendingFeedback
           /\ pendingFeedback' = kNoFeedback /\ presentPosValid' = TRUE
  <2>1. pendingFeedback' \in 0..kNoFeedback /\ feedbackLoad' \in 0..kLoadWireMax
    BY <1>2 DEF IInv, Numbers, kNoFeedback, kLoadWireMax
  <2> QED
    BY <1>2, <2>1, Zenon
<1> QED
  BY <1>1, <1>2, Zenon DEF TakesFeedback

LEMMA TickStep == IInv /\ HapticTick => IInv'
<1> SUFFICES ASSUME IInv, HapticTick PROVE IInv'
  OBVIOUS
<1>1. /\ pendingFeedback' \in 0..kNoFeedback /\ feedbackLoad' \in 0..kLoadWireMax
      /\ presentPosValid' \in BOOLEAN
  BY FeedbackTaken DEF HapticTick
<1>2. Held' /\ busPrimed' \in BOOLEAN /\ (HapticActive => busPrimed')
  <2>1. CASE ~HapticActive
    BY <2>1, Untouched DEF HapticTick
  <2>2. CASE HapticActive
    <3>1. busPrimed' = TRUE
      BY <2>2 DEF HapticTick
    <3>2. CASE \E gap \in Gaps : Overlay(gap) \/ Prime(gap)
      BY <3>1, <3>2, OverlayStep, PrimeStep
    <3>3. CASE Blind
      BY <3>1, <3>3, BlindStep
    <3>4. \A measured \in Gaps : (IF presentPosValid' THEN measured ELSE 0) \in Gaps
      BY DEF Gaps
    <3> QED
      BY <2>2, <3>2, <3>3, <3>4 DEF HapticTick
  <2> QED
    BY <2>1, <2>2
<1>3. StiffIsMeant'
  <2>1. CASE ~HapticActive
    BY <2>1 DEF HapticTick, IInv, StiffIsMeant, overlayVars, gripVars
  <2>2. CASE HapticActive
    BY <1>2, <2>2 DEF HapticTick, HapticActive, Held, StiffIsMeant
  <2> QED
    BY <2>1, <2>2
<1> QED
  BY <1>1, <1>2, <1>3 DEF HapticTick, IInv, Flags, Numbers, Held, samplerVars

LEMMA SampleStep == IInv /\ LoadSample => IInv'
<1> SUFFICES ASSUME IInv, LoadSample PROVE IInv'
  OBVIOUS
<1>1. gripLoad \in 0..kLoadWireMax /\ baselineWire \in 0..kLoadWireMax
  BY HapticAssumption DEF IInv, Numbers
<1>2. baselineWire' \in 0..kLoadWireMax
  BY <1>1, BaselineFits DEF LoadSample
<1>3. pendingFeedback' \in 0..kNoFeedback
  <2> DEFINE net == netGripperLoadWire(gripLoad, baselineWire)
  <2>a. net \in 0..kLoadWireMax
    BY <1>1, BaselineFits
  <2> HIDE DEF net
  <2>b. net \in 0..kNoFeedback
    BY <2>a DEF kNoFeedback, kLoadWireMax
  <2>1. netGripperLoadWire(gripLoad, baselineWire) \in 0..kNoFeedback
    BY <2>b DEF net
  <2>2. 0 \in 0..kNoFeedback
    BY DEF kNoFeedback, kLoadWireMax
  <2> QED
    BY <2>1, <2>2 DEF LoadSample, IInv, Numbers
<1>4. hapticFaultCount' \in 0..MaxHapticFaults
  BY FaultCounted DEF LoadSample, IInv
<1> QED
  BY <1>2, <1>3, <1>4 DEF LoadSample, IInv, Flags, Numbers, StiffIsMeant, overlayVars, gripVars

LEMMA StartStopStep == IInv /\ (MirrorStart \/ MirrorStop) => IInv'
<1> SUFFICES ASSUME IInv, MirrorStart \/ MirrorStop PROVE IInv'
  OBVIOUS
<1>1. CASE resetTeleopHapticOverlay
  <2>1. Held'
    BY <1>1, GripperReleased DEF resetTeleopHapticOverlay
  <2>2. gripTorque' => gripStuck'
    BY <1>1, TorqueOffCall DEF resetTeleopHapticOverlay, IInv
  <2>3. busPrimed' = FALSE /\ presentPosValid' = FALSE
    BY <1>1 DEF resetTeleopHapticOverlay
  <2>4. mirrorOn' \in BOOLEAN
    BY DEF MirrorStart, MirrorStop
  <2> QED
    BY <2>1, <2>2, <2>3, <2>4
    DEF MirrorStart, MirrorStop, IInv, Flags, Numbers, StiffIsMeant, Held, samplerVars
<1>2. CASE MirrorStart /\ UNCHANGED <<overlayVars, presentPosValid, gripVars>> /\ NoHapticFault
  BY <1>2 DEF MirrorStart, NoHapticFault, IInv, Flags, Numbers, StiffIsMeant, samplerVars,
      overlayVars, gripVars
<1> QED
  BY <1>1, <1>2 DEF MirrorStart, MirrorStop

\* The steps of the environment and of the clock leave the gripper alone.
LEMMA OtherStep ==
    IInv /\ (UplinkCommand \/ HoldElapses \/ HapticWanted \/ GripChanges \/ UNCHANGED hapticVars)
        => IInv'
<1> SUFFICES ASSUME IInv,
                    UplinkCommand \/ HoldElapses \/ HapticWanted \/ GripChanges \/ UNCHANGED hapticVars
             PROVE  IInv'
  OBVIOUS
<1> USE DEF IInv, Flags, Numbers, StiffIsMeant, samplerVars, overlayVars, gripVars
<1>1. CASE UplinkCommand
  <2>1. 0 \in 0..kLoadWireMax
    BY DEF kLoadWireMax
  <2> QED
    BY <1>1, <2>1 DEF UplinkCommand
<1>2. CASE HoldElapses
  BY <1>2 DEF HoldElapses
<1>3. CASE HapticWanted
  BY <1>3 DEF HapticWanted
<1>4. CASE GripChanges
  BY <1>4 DEF GripChanges
<1>5. CASE UNCHANGED hapticVars
  BY <1>5 DEF hapticVars
<1> QED
  BY <1>1, <1>2, <1>3, <1>4, <1>5

LEMMA Invariance == IInv /\ [HapticNext]_hapticVars => IInv'
BY TickStep, SampleStep, StartStopStep, OtherStep DEF HapticNext

THEOREM IInvHolds == HapticSpec => []IInv
BY InitialState, Invariance, PTL DEF HapticSpec

\* Every variable of the force feedback keeps its type; loads and baselines fit
\* the wire (teleop_load_feedback_codec.cpp).
THEOREM HapticTypeCorrect == HapticSpec => []HapticTypeOK
<1>1. IInv => HapticTypeOK
  BY TypesApart DEF IInv
<1> QED
  BY <1>1, IInvHolds, PTL

\* Whatever sequence of frames, starts, stops and failing calls: a gripper that
\* is held is held by an engaged overlay while mirroring is on, or by a call
\* that failed (leader_app_teleop_haptic.cpp).
THEOREM StiffIsMeantHolds == HapticSpec => []StiffIsMeant
<1>1. IInv => StiffIsMeant
  BY DEF IInv
<1> QED
  BY <1>1, IInvHolds, PTL
=============================================================================
