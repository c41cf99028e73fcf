---------------------------- MODULE TeleopStream ----------------------------
(***************************************************************************)
(* Continuous teleoperation over ESP-NOW: the mirror task of the leader    *)
(* reads its arm and sends the joints that moved, the follower keeps the   *)
(* latest batch only and its apply task moves the servos to it, and a      *)
(* release (a DebugDisable command) switches the follower's torque off.    *)
(*                                                                         *)
(* Abstractions.  Positions are calibrated, unwrapped and clamped ones;    *)
(* speeds, request ids of batches and latency counters are left out.  The  *)
(* follower is paired.  Of the command link, which has a module of its     *)
(* own, remains that a release is resent until the follower has it or the  *)
(* leader gives up, and that it is executed at most once.  The 125 ms      *)
(* timer of the keyframes may be up at any frame.                          *)
(*                                                                         *)
(* Loop, mirror and apply tasks and the receive callback share no lock but *)
(* that of the servo bus.  With Preemptive = TRUE their steps interleave;  *)
(* with FALSE an iteration of a task ends before another one starts.       *)
(***************************************************************************)
EXTENDS Integers, Sequences, FiniteSets

CONSTANTS
    Joints,
    Filters,         \* the sets of joints an operator mirrors
    MaxPosition,     \* positions are 0..MaxPosition
    ButtonAgain,     \* is the start button pressed while mirroring, too?
    MinDelta,        \* kTeleopMirrorMinPositionDelta of the transport
    Turbo,           \* the turbo codec, or the classic one?
    KeyframeEvery,   \* kTurboKeyframeEveryNFrames
    MaxReleases,     \* bound on the releases an operator asks for
    Capacity,        \* frames in flight
    Faults,          \* the kinds of fault that may strike ...
    MaxFaults,       \* ... and a bound on their number
    Preemptive

Position == 0..MaxPosition
FaultKinds == {"lost frame", "refused frame", "bus busy", "torque stays on"}

ASSUME ConstantsAssumption ==
    /\ MaxPosition \in Nat /\ MinDelta \in Nat \ {0} /\ KeyframeEvery \in Nat \ {0}
    /\ MaxReleases \in Nat /\ MaxFaults \in Nat
    /\ Filters \subseteq SUBSET Joints
    /\ Capacity \in Nat \ {0} /\ Faults \subseteq FaultKinds
    /\ Turbo \in BOOLEAN /\ ButtonAgain \in BOOLEAN /\ Preemptive \in BOOLEAN

Unknown == -1     \* no position sent or commanded yet
Batches ==        \* to = Unknown: the joint is not in the batch
    [type : {"batch"}, key : BOOLEAN, to : [Joints -> Position \cup {Unknown}]]
Releases == [type : {"release"}, number : 1..MaxReleases]
NoBatch == [type |-> "none"]

VARIABLES
    \* leader
    arm,            \* positions of the leader arm, as last read
    mode,           \* off, mirroring, or released: a DebugDisable went out
    filter,         \* the joints teleopContinuousServoIdFilter_ lets through
    mirrorPc,       \* has this iteration passed canMirrorNow?
    lastSent,       \* lastSentPositionById
    session,        \* turboEncodeSession_
    releases,       \* number of the last release sent
    toFollower,
    \* follower
    slot,           \* teleopBatchQueue_, one place
    asked, done,    \* last release queued, and taken by the loop
    loopPc,         \* where handleDebugDisable stands
    held, applyPc,  \* the batch the apply task works on, and where it stands
    prepared,       \* teleopPreparedById_
    torque, goal,   \* of the servos
    faults

leaderVars == <<arm, mode, filter, mirrorPc, lastSent, session, releases>>
loopVars == <<asked, done, loopPc>>
applyVars == <<held, applyPc, prepared, torque, goal>>
vars == <<leaderVars, toFollower, slot, loopVars, applyVars, faults>>

Empty == [slots |-> [j \in Joints |-> 0], known |-> {}, since |-> 0, baseline |-> FALSE]
Forgotten == [j \in Joints |-> Unknown]

Init ==
    /\ arm \in [Joints -> Position] /\ mode = "off" /\ filter = Joints
    /\ mirrorPc = "check" /\ lastSent = Forgotten /\ session = Empty
    /\ releases = 0 /\ toFollower = <<>>
    /\ slot = NoBatch /\ asked = 0 /\ done = 0 /\ loopPc = "idle"
    /\ held = NoBatch /\ applyPc = "take"
    /\ prepared = {} /\ torque = {} /\ goal = Forgotten
    /\ faults = 0

Strikes(kind) == kind \in Faults /\ faults < MaxFaults /\ faults' = faults + 1
\* A step that a fault of this kind may spoil.
MayFail(kind, ok) == IF ok THEN UNCHANGED faults ELSE Strikes(kind)

\* Nothing is in the middle of an iteration.
Undisturbed ==
    Preemptive \/ (mirrorPc = "check" /\ loopPc = "idle" /\ applyPc = "take")

-----------------------------------------------------------------------------
(* Leader: the mirror task.                                                *)

\* Mutant: the mask of known joints survives, their positions do not.
ResetOfSlots == [Empty EXCEPT !.known = session.known]
\* resetTurboTeleopSession, called by whoever starts or releases.
ResetSession == Empty

\* The radio delivers a frame well within a period.
HasRoom == Len(toFollower) < Capacity

\* canMirrorNow and the reading of the arm, which the operator may have moved
\* anywhere since; an iteration that is stopped here forgets what was sent.
\* (One whose reading fails changes nothing.)
MirrorCheck(reading) ==
    /\ mirrorPc = "check" /\ Undisturbed /\ HasRoom
    /\ IF mode = "mirroring" THEN mirrorPc' = "send" /\ arm' = reading /\ UNCHANGED lastSent
       ELSE reading = arm /\ lastSent' = Forgotten /\ UNCHANGED <<arm, mirrorPc>>
    /\ UNCHANGED <<mode, filter, session, releases, toFollower, slot, loopVars,
                   applyVars, faults>>

Distance(a, b) == IF a < b THEN b - a ELSE a - b

\* buildMirrorBatchFromSnapshot: joints let through that moved far enough
\* from what was sent last.
Moved == {j \in filter : lastSent[j] = Unknown \/ Distance(arm[j], lastSent[j]) >= MinDelta}

\* Mutant: one delta too many between keyframes.
KeyframeLate(s, timeUp) == ~s.baseline \/ s.since > KeyframeEvery \/ timeUp
shouldSendKeyframe(s, timeUp) == ~s.baseline \/ s.since >= KeyframeEvery \/ timeUp

\* Mutant: a keyframe carries no more than a delta.
DeltaMask(key, known) == Moved
ActiveMask(key, known) == IF key THEN known ELSE Moved

\* The rest of the iteration, with encodeWithSession for the turbo codec:
\* the session learns the batch, and a keyframe carries all it knows.  What
\* is sent counts as sent whether or not the radio takes it.
MirrorSend(timeUp, sent) ==
    LET slots == [j \in Joints |-> IF j \in Moved THEN arm[j] ELSE session.slots[j]]
        known == session.known \cup Moved
        key == Turbo /\ shouldSendKeyframe(session, timeUp)
        active == ActiveMask(key, known)
        batch == [type |-> "batch", key |-> key,
                  to |-> [j \in Joints |-> IF j \in active THEN slots[j] ELSE Unknown]]
    IN  /\ mirrorPc = "send"
        /\ mirrorPc' = "check"
        /\ IF Moved = {} THEN sent /\ UNCHANGED <<lastSent, session, toFollower, faults>>
           ELSE /\ lastSent' = [j \in Joints |-> IF j \in Moved THEN arm[j] ELSE lastSent[j]]
                /\ session' = IF ~Turbo THEN session
                              ELSE [slots |-> slots, known |-> known,
                                    since |-> IF key THEN 0 ELSE session.since + 1,
                                    baseline |-> session.baseline \/ key]
                /\ IF HasRoom THEN MayFail("refused frame", sent)
                   ELSE ~sent /\ UNCHANGED faults
                /\ toFollower' = IF sent THEN Append(toFollower, batch) ELSE toFollower
        /\ UNCHANGED <<arm, mode, filter, releases, slot, loopVars, applyVars>>

-----------------------------------------------------------------------------
(* Leader: the loop task.                                                  *)

\* The dashboard's TeleopContinuousSet and the button of the controller; only
\* the button resets the session of the codec.  An operator does not start
\* again before the mirror task, which looks every few milliseconds, has seen
\* the stop.
Start(joints, button) ==
    /\ Undisturbed
    /\ IF button THEN joints = Joints /\ (mode = "mirroring" => ButtonAgain)
       ELSE mode = "mirroring" => filter # joints
    /\ mode # "mirroring" => lastSent = Forgotten \/ Preemptive
    /\ mode' = "mirroring"
    /\ filter' = joints
    /\ session' = IF button THEN ResetSession ELSE session
    /\ UNCHANGED <<arm, mirrorPc, lastSent, releases, toFollower, slot,
                   loopVars, applyVars, faults>>

\* releaseFollowerTeleopHold while the follower is linked and the radio takes
\* the command.
Release ==
    /\ Undisturbed /\ releases < MaxReleases /\ HasRoom
    /\ mode' = "released"
    /\ filter' = Joints
    /\ session' = ResetSession
    /\ releases' = releases + 1
    /\ toFollower' = Append(toFollower, [type |-> "release", number |-> releases + 1])
    /\ UNCHANGED <<arm, mirrorPc, lastSent, slot, loopVars, applyVars, faults>>

\* The same while the follower is not linked, or teleoperation stopped by
\* another mode: nothing is sent.
StopSilently ==
    /\ mode = "mirroring" /\ Undisturbed
    /\ mode' = "off"
    /\ filter' = Joints
    /\ UNCHANGED <<arm, mirrorPc, lastSent, session, releases, toFollower, slot,
                   loopVars, applyVars, faults>>

\* serviceFollowerAckTracking: the command is sent again under its number for
\* as long as the retries last; copies of what the follower has are dropped
\* there and left out here.
RetryRelease ==
    /\ asked < releases /\ Undisturbed /\ HasRoom
    /\ toFollower' = Append(toFollower, [type |-> "release", number |-> releases])
    /\ UNCHANGED <<leaderVars, slot, loopVars, applyVars, faults>>

-----------------------------------------------------------------------------
(* Follower: the radio and the receive callback.                           *)

LoseFrame ==
    /\ toFollower # <<>> /\ Undisturbed /\ Strikes("lost frame")
    /\ toFollower' = Tail(toFollower)
    /\ UNCHANGED <<leaderVars, slot, loopVars, applyVars>>

\* enqueueTeleopBatch overwrites the batch that waits.
HandleBatch ==
    /\ toFollower # <<>> /\ Head(toFollower).type = "batch" /\ Undisturbed
    /\ slot' = Head(toFollower)
    /\ toFollower' = Tail(toFollower)
    /\ UNCHANGED <<leaderVars, loopVars, applyVars, faults>>

\* handleServoControlFrame: a copy of the release already queued is dropped.
\* (Two releases that wait together are executed as one here.)
HandleRelease ==
    /\ toFollower # <<>> /\ Head(toFollower).type = "release" /\ Undisturbed
    /\ asked' = IF Head(toFollower).number > asked THEN Head(toFollower).number ELSE asked
    /\ toFollower' = Tail(toFollower)
    /\ UNCHANGED <<leaderVars, slot, done, loopPc, applyVars, faults>>

-----------------------------------------------------------------------------
(* Follower: the loop task, in handleDebugDisable.                         *)

\* Mutant: the preparation is not forgotten.
PreparedBefore == prepared
StillPrepared == {}

ForgetPrepared ==
    /\ loopPc = "idle" /\ asked > done /\ Undisturbed
    /\ loopPc' = "reset"
    /\ done' = asked
    /\ prepared' = StillPrepared
    /\ UNCHANGED <<leaderVars, toFollower, slot, asked, held, applyPc, torque, goal,
                   faults>>

\* Mutant: the batch that waits survives.
SlotKept(batch) == batch
\* resetTeleopTransportState
SlotCleared(batch) == NoBatch

ResetTransport ==
    /\ loopPc = "reset"
    /\ loopPc' = "torqueOff"
    /\ slot' = SlotCleared(slot)
    /\ UNCHANGED <<leaderVars, toFollower, asked, done, applyVars, faults>>

\* setTorqueEnabledForDetectedServos; its result is not looked at.
TorqueOff(left) ==
    /\ loopPc = "torqueOff"
    /\ left \subseteq torque
    /\ loopPc' = "idle"
    /\ MayFail("torque stays on", left = {})
    /\ torque' = left
    /\ UNCHANGED <<leaderVars, toFollower, slot, asked, done, held, applyPc, prepared,
                   goal>>

-----------------------------------------------------------------------------
(* Follower: the apply task.                                               *)

Named(batch) == {j \in Joints : batch.to[j] # Unknown}

TakeBatch ==
    /\ applyPc = "take" /\ slot # NoBatch /\ Undisturbed
    /\ applyPc' = "apply"
    /\ held' = slot
    /\ slot' = NoBatch
    /\ UNCHANGED <<leaderVars, toFollower, loopVars, prepared, torque, goal, faults>>

\* ensureTeleopServosReady switches the torque of joints on once.  A joint the
\* bus fails for, in the mode or in the torque (it then stays limp), is tried
\* again with the next batch that names it, but moved by moveBatch all the same.
ApplyBatch(failed, limp, ok) ==
    LET new == Named(held) \ prepared
    IN  /\ applyPc = "apply"
        /\ failed \subseteq new
        /\ applyPc' = "take"
        /\ MayFail("bus busy", failed = {} /\ ok)
        /\ torque' = torque \cup (new \ limp)
        /\ prepared' = prepared \cup (new \ failed)
        /\ goal' = IF ok THEN [j \in Joints |-> IF j \in Named(held) THEN held.to[j]
                                               ELSE goal[j]]
                   ELSE goal
        /\ held' = NoBatch
        /\ UNCHANGED <<leaderVars, toFollower, slot, loopVars>>

-----------------------------------------------------------------------------
Mirror ==
    \/ \E reading \in [Joints -> Position] : MirrorCheck(reading)
    \/ \E timeUp, sent \in BOOLEAN : MirrorSend(timeUp, sent)
Operator ==
    \/ \E joints \in Filters, button \in BOOLEAN : Start(joints, button)
    \/ Release \/ StopSilently
FollowerCallback == HandleBatch \/ HandleRelease
FollowerLoop ==
    ForgetPrepared \/ ResetTransport \/ \E left \in SUBSET Joints : TorqueOff(left)
Apply ==
    \/ TakeBatch
    \/ \E failed \in SUBSET Joints, ok \in BOOLEAN :
           \E limp \in SUBSET failed : ApplyBatch(failed, limp, ok)

Next == Mirror \/ RetryRelease \/ Operator \/ LoseFrame \/ FollowerCallback \/ FollowerLoop
        \/ Apply

Spec == Init /\ [][Next]_vars

\* Every task keeps running and the radio delivers.  Batches arrive and are
\* applied with the same period, so that the apply task, which may miss some,
\* does not miss all keyframes.  Nothing is assumed of the operator.
FairSpec ==
    /\ Spec
    /\ WF_vars(Mirror) /\ SF_vars(FollowerCallback)
    /\ SF_vars(FollowerLoop) /\ SF_vars(Apply) /\ SF_vars(TakeBatch /\ slot.key)

-----------------------------------------------------------------------------
(* Properties.                                                             *)

\* Every variable keeps its type, and the radio its bound.
TypeOK ==
    /\ arm \in [Joints -> Position]
    /\ mode \in {"off", "mirroring", "released"}
    /\ filter \in SUBSET Joints
    /\ mirrorPc \in {"check", "send"}
    /\ lastSent \in [Joints -> Position \cup {Unknown}]
    /\ session \in [slots : [Joints -> Position], known : SUBSET Joints,
                    since : 0..KeyframeEvery, baseline : BOOLEAN]
    /\ releases \in 0..MaxReleases
    /\ toFollower \in Seq(Batches \cup Releases) /\ Len(toFollower) <= Capacity
    /\ slot \in Batches \cup {NoBatch}
    /\ asked \in 0..MaxReleases /\ done \in 0..MaxReleases
    /\ loopPc \in {"idle", "reset", "torqueOff"}
    /\ held \in Batches \cup {NoBatch} /\ applyPc \in {"take", "apply"}
    /\ prepared \in SUBSET Joints /\ torque \in SUBSET Joints
    /\ goal \in [Joints -> Position \cup {Unknown}]
    /\ faults \in 0..MaxFaults

\* Once the follower has executed the last release, its arm stays limp until
\* the operator starts again: no batch that was on its way, waited in the slot
\* or was being applied switches a servo on after that.
ReleaseHolds ==
    mode = "released" /\ done = releases /\ loopPc = "idle" => torque = {}

\* A joint that counts as prepared has its torque on, or it would stay limp
\* through all the batches to come, which only prepare the others.
PreparedHasTorque == loopPc = "idle" => prepared \subseteq torque

\* A joint that follows the arm.
Follows(j) ==
    /\ j \in torque /\ goal[j] # Unknown
    /\ Distance(goal[j], arm[j]) < MinDelta

\* With the turbo codec, a joint the operator keeps still ends up where the
\* leader has it for as long as another one moves, whatever batches were
\* lost, overwritten or failed, and even if a release came late.
Heals ==
    \A j \in Joints :
        (/\ <>[](mode = "mirroring" /\ j \in filter)
         /\ <>[][arm'[j] = arm[j]]_vars
         /\ []<><<lastSent' # lastSent>>_vars)
        => <>[]Follows(j)

\* What FollowedArm sees of the stream: the goals that batches on the air, the
\* one in the slot and the one being applied would set; a release sets none.
Sets(frame) == IF frame.type = "batch" THEN frame.to ELSE Forgotten
Place(batch) == IF batch = NoBatch THEN <<>> ELSE <<batch.to>>
OnAir(frames) == [i \in DOMAIN frames |-> Sets(frames[i])]
Way == Place(held) \o Place(slot) \o OnAir(toFollower)
\* The turbo codec keeps what it sent longer than the mirror task does.
Sent ==
    IF Turbo THEN [j \in Joints |-> IF j \in session.known THEN session.slots[j] ELSE Unknown]
    ELSE lastSent

Service == INSTANCE FollowedArm WITH sent <- Sent, way <- Way

\* However callbacks and tasks interleave and whatever is lost: the follower's
\* joints go where the leader's were when they were last sent, in that order.
ImplementsFollowedArm == Service!Spec

=============================================================================
