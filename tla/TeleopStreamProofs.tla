------------------------- MODULE TeleopStreamProofs -------------------------
(***************************************************************************)
(* Proofs about TeleopStream, for every set of joints and filters, every   *)
(* number of releases and every choice of faults:                          *)
(*   TypeCorrect              Spec => []TypeOK                             *)
(*   PreparedHasTorqueHolds   while tasks do not interrupt each other, a   *)
(*                            joint that counts as prepared has torque     *)
(*   ReleaseHoldsHolds        while they do not and the bus obeys, a       *)
(*                            released arm stays limp                      *)
(*   FollowedArmImplemented   Spec => ImplementsFollowedArm                *)
(*   TurboFramesCarry         a frame of the turbo codec gives back the    *)
(*                            positions it was made of, clamped            *)
(* The inductive invariant Settled follows a release: no batch is behind   *)
(* it on the air, none anywhere once the follower queued it, and none in   *)
(* the slot or the apply task once the loop has executed it.  The abstract *)
(* way of FollowedArm is hands, slot and radio of the stream, put together *)
(* in this order; the refinement follows what each step does to it.        *)
(***************************************************************************)
EXTENDS TeleopStream, TurboPacket, TLAPS, SequenceTheorems, FiniteSetTheorems

Frames == Batches \cup Releases
OneFault == faults' \in 0..MaxFaults

\* What the types rest on: who applies a batch has one.
HeldIsBatch == applyPc = "apply" => held \in Batches

LeaderOK ==
    /\ arm \in [Joints -> Position]
    /\ mode \in {"off", "mirroring", "released"}
    /\ filter \in SUBSET Joints
    /\ mirrorPc \in {"check", "send"}
    /\ lastSent \in [Joints -> Position \cup {Unknown}]
    /\ session \in [slots : [Joints -> Position], known : SUBSET Joints,
                    since : 0..KeyframeEvery, baseline : BOOLEAN]
    /\ releases \in 0..MaxReleases

RadioOK ==
    /\ toFollower \in Seq(Frames) /\ Len(toFollower) <= Capacity
    /\ faults \in 0..MaxFaults

FollowerOK ==
    /\ slot \in Batches \cup {NoBatch}
    /\ asked \in 0..MaxReleases /\ done \in 0..MaxReleases
    /\ loopPc \in {"idle", "reset", "torqueOff"}
    /\ held \in Batches \cup {NoBatch} /\ applyPc \in {"take", "apply"}
    /\ prepared \in SUBSET Joints /\ torque \in SUBSET Joints
    /\ goal \in [Joints -> Position \cup {Unknown}]
    /\ HeldIsBatch

Typed == LeaderOK /\ RadioOK /\ FollowerOK

LEMMA TypedIsTypeOK == Typed => TypeOK
BY DEF Typed, LeaderOK, RadioOK, FollowerOK, TypeOK, Frames

-----------------------------------------------------------------------------
(* Types.                                                                  *)

LEMMA EmptyType ==
    Empty \in [slots : [Joints -> Position], known : SUBSET Joints,
               since : 0..KeyframeEvery, baseline : BOOLEAN]
<1>1. 0 \in Position /\ 0 \in 0..KeyframeEvery
  BY ConstantsAssumption DEF Position
<1> QED BY <1>1 DEF Empty

LEMMA TypedInit == Init => Typed
<1> SUFFICES ASSUME Init PROVE Typed
  OBVIOUS
<1>1. LeaderOK
  BY ConstantsAssumption, EmptyType DEF Init, LeaderOK, Forgotten
<1>2. RadioOK
  BY ConstantsAssumption DEF Init, RadioOK
<1>3. FollowerOK
  BY ConstantsAssumption DEF Init, FollowerOK, HeldIsBatch, Forgotten, Unknown
<1> QED BY <1>1, <1>2, <1>3 DEF Typed

LEMMA FaultType ==
    ASSUME Typed, NEW kind, NEW ok, MayFail(kind, ok) \/ Strikes(kind) \/ UNCHANGED faults
    PROVE  OneFault
BY ConstantsAssumption DEF Typed, RadioOK, MayFail, Strikes, OneFault

LEMMA FrameAppended ==
    ASSUME Typed, HasRoom, NEW f \in Frames, toFollower' = Append(toFollower, f), OneFault
    PROVE  RadioOK'
<1>1. Len(toFollower) + 1 <= Capacity
  BY ConstantsAssumption DEF Typed, RadioOK, HasRoom
<1> QED BY <1>1 DEF Typed, RadioOK, OneFault

LEMMA FrameTaken ==
    ASSUME Typed, toFollower # <<>>, toFollower' = Tail(toFollower), OneFault
    PROVE  RadioOK' /\ Head(toFollower) \in Frames
BY ConstantsAssumption DEF Typed, RadioOK, OneFault

LEMMA RadioKept == ASSUME Typed, UNCHANGED toFollower, OneFault PROVE RadioOK'
BY DEF Typed, RadioOK, OneFault

LEMMA LeaderKept == ASSUME Typed, UNCHANGED leaderVars PROVE LeaderOK'
BY DEF Typed, LeaderOK, leaderVars

LEMMA FollowerKept ==
    ASSUME Typed, UNCHANGED <<slot, loopVars, applyVars>> PROVE FollowerOK'
BY DEF Typed, FollowerOK, HeldIsBatch, loopVars, applyVars

\* The frame and the session that an iteration of the mirror task builds.
LEMMA SessionType ==
    ASSUME Typed, NEW key \in BOOLEAN,
           key \/ ~shouldSendKeyframe(session, FALSE),
           session' = [slots |-> [j \in Joints |-> IF j \in Moved THEN arm[j]
                                                   ELSE session.slots[j]],
                       known |-> session.known \cup Moved,
                       since |-> IF key THEN 0 ELSE session.since + 1,
                       baseline |-> session.baseline \/ key]
    PROVE  session' \in [slots : [Joints -> Position], known : SUBSET Joints,
                         since : 0..KeyframeEvery, baseline : BOOLEAN]
<1> DEFINE slots == [j \in Joints |-> IF j \in Moved THEN arm[j] ELSE session.slots[j]]
           since == IF key THEN 0 ELSE session.since + 1
<1>1. slots \in [Joints -> Position] /\ session.known \cup Moved \in SUBSET Joints
  BY DEF Typed, LeaderOK, Moved
<1>2. since \in 0..KeyframeEvery
  BY ConstantsAssumption DEF Typed, LeaderOK, shouldSendKeyframe
<1>3. (session.baseline \/ key) \in BOOLEAN
  OBVIOUS
<1> HIDE DEF slots, since
<1>4. session' = [slots |-> slots, known |-> session.known \cup Moved,
                  since |-> since, baseline |-> session.baseline \/ key]
  BY DEF slots, since
<1> QED BY <1>1, <1>2, <1>4

LEMMA TypedStep == Typed /\ [Next]_vars => Typed'
<1> SUFFICES ASSUME Typed, [Next]_vars PROVE Typed'
  OBVIOUS
<1> USE DEF OneFault
<1>1. ASSUME NEW reading \in [Joints -> Position], MirrorCheck(reading) PROVE Typed'
  <2>1. LeaderOK'
    BY <1>1 DEF MirrorCheck, Typed, LeaderOK, Forgotten
  <2>2. RadioOK'
    BY <1>1, RadioKept, FaultType DEF MirrorCheck
  <2>3. FollowerOK'
    BY <1>1, FollowerKept DEF MirrorCheck
  <2> QED BY <2>1, <2>2, <2>3 DEF Typed
<1>2. ASSUME NEW timeUp \in BOOLEAN, NEW sent \in BOOLEAN, MirrorSend(timeUp, sent)
      PROVE  Typed'
  <2> DEFINE key == Turbo /\ shouldSendKeyframe(session, timeUp)
             slots == [j \in Joints |-> IF j \in Moved THEN arm[j] ELSE session.slots[j]]
             active == ActiveMask(key, session.known \cup Moved)
             batch == [type |-> "batch", key |-> key,
                       to |-> [j \in Joints |-> IF j \in active THEN slots[j] ELSE Unknown]]
  <2>1. key \in BOOLEAN
    BY ConstantsAssumption DEF shouldSendKeyframe
  <2>2. [j \in Joints |-> IF j \in active THEN slots[j] ELSE Unknown]
            \in [Joints -> Position \cup {Unknown}]
    BY DEF Typed, LeaderOK
  <2>3. batch \in Frames
    BY <2>1, <2>2 DEF Frames, Batches
  <2>4. CASE Moved = {}
    BY <1>2, <2>4, RadioKept, FollowerKept, FaultType DEF MirrorSend, Typed, LeaderOK
  <2>5. CASE Moved # {}
    <3>1. session' \in [slots : [Joints -> Position], known : SUBSET Joints,
                        since : 0..KeyframeEvery, baseline : BOOLEAN]
      <4>1. CASE Turbo
        <5>1. key \/ ~shouldSendKeyframe(session, FALSE)
          BY <4>1 DEF shouldSendKeyframe
        <5>2. session' = [slots |-> slots, known |-> session.known \cup Moved,
                          since |-> IF key THEN 0 ELSE session.since + 1,
                          baseline |-> session.baseline \/ key]
          BY <1>2, <2>5, <4>1 DEF MirrorSend
        <5> HIDE DEF key
        <5> QED BY <2>1, <5>1, <5>2, SessionType
      <4>2. CASE ~Turbo
        BY <1>2, <2>5, <4>2 DEF MirrorSend, Typed, LeaderOK
      <4> QED BY <4>1, <4>2
    <3>2. lastSent' = [j \in Joints |-> IF j \in Moved THEN arm[j] ELSE lastSent[j]]
      BY <1>2, <2>5 DEF MirrorSend
    <3>3. mirrorPc' = "check" /\ UNCHANGED <<arm, mode, filter, releases>>
      BY <1>2 DEF MirrorSend
    <3>4. LeaderOK'
      <4>1. lastSent' \in [Joints -> Position \cup {Unknown}]
        BY <3>2 DEF Typed, LeaderOK
      <4> QED BY <3>1, <3>3, <4>1 DEF Typed, LeaderOK
    <3>5. OneFault
      BY <1>2, <2>5, FaultType DEF MirrorSend
    <3>6. RadioOK'
      <4>1. CASE sent
        <5>1. HasRoom /\ toFollower' = Append(toFollower, batch)
          BY <1>2, <2>5, <4>1 DEF MirrorSend
        <5> HIDE DEF batch
        <5> QED BY <2>3, <3>5, <5>1, FrameAppended
      <4>2. CASE ~sent
        BY <1>2, <2>5, <3>5, <4>2, RadioKept DEF MirrorSend
      <4> QED BY <4>1, <4>2
    <3>7. FollowerOK'
      BY <1>2, FollowerKept DEF MirrorSend
    <3> QED BY <3>4, <3>6, <3>7 DEF Typed
  <2> QED BY <2>4, <2>5
<1>4. ASSUME NEW joints \in Filters, NEW button \in BOOLEAN, Start(joints, button)
      PROVE  Typed'
  <2>1. session' \in {session, Empty} /\ filter' \in SUBSET Joints /\ mode' = "mirroring"
    BY <1>4, ConstantsAssumption DEF Start, ResetSession
  <2>2. UNCHANGED <<arm, mirrorPc, lastSent, releases>>
    BY <1>4 DEF Start
  <2>3. LeaderOK'
    BY <2>1, <2>2, EmptyType DEF Typed, LeaderOK
  <2> QED BY <1>4, <2>3, RadioKept, FollowerKept, FaultType DEF Start, Typed
<1>5. CASE Release
  <2>1. [type |-> "release", number |-> releases + 1] \in Frames
    BY <1>5, ConstantsAssumption DEF Release, Typed, LeaderOK, Frames, Releases
  <2>2. RadioOK'
    BY <1>5, <2>1, FrameAppended, FaultType DEF Release
  <2>3. session' = Empty /\ filter' = Joints /\ mode' = "released"
    BY <1>5 DEF Release, ResetSession
  <2>4. releases' \in 0..MaxReleases /\ UNCHANGED <<arm, mirrorPc, lastSent>>
    BY <1>5, ConstantsAssumption DEF Release, Typed, LeaderOK
  <2>5. LeaderOK'
    BY <2>3, <2>4, EmptyType DEF Typed, LeaderOK
  <2> QED BY <1>5, <2>2, <2>5, FollowerKept DEF Release, Typed
<1>6. CASE StopSilently
  BY <1>6, RadioKept, FollowerKept, FaultType DEF StopSilently, Typed, LeaderOK
<1>7. CASE RetryRelease
  <2>1. [type |-> "release", number |-> releases] \in Frames
    BY <1>7, ConstantsAssumption
       DEF RetryRelease, Typed, LeaderOK, FollowerOK, Frames, Releases
  <2>2. RadioOK'
    BY <1>7, <2>1, FrameAppended, FaultType DEF RetryRelease
  <2> QED BY <1>7, <2>2, LeaderKept, FollowerKept DEF RetryRelease, Typed
<1>8. CASE LoseFrame
  BY <1>8, FrameTaken, LeaderKept, FollowerKept, FaultType DEF LoseFrame, Typed
<1>9. CASE HandleBatch
  <2>1. RadioOK' /\ slot' \in Batches
    BY <1>9, FrameTaken, FaultType DEF HandleBatch, Frames, Releases
  <2>2. FollowerOK'
    BY <1>9, <2>1 DEF HandleBatch, loopVars, applyVars, Typed, FollowerOK, HeldIsBatch
  <2> QED BY <1>9, <2>1, <2>2, LeaderKept DEF HandleBatch, Typed
<1>10. CASE HandleRelease
  <2>1. RadioOK' /\ Head(toFollower).number \in 1..MaxReleases
    BY <1>10, FrameTaken, FaultType DEF HandleRelease, Frames, Batches, Releases
  <2>2. asked' \in 0..MaxReleases
    BY <1>10, <2>1, ConstantsAssumption DEF HandleRelease, Typed, FollowerOK
  <2>3. FollowerOK'
    BY <1>10, <2>2 DEF HandleRelease, applyVars, Typed, FollowerOK, HeldIsBatch
  <2> QED BY <1>10, <2>1, <2>3, LeaderKept DEF HandleRelease, Typed
<1>11. CASE ForgetPrepared
  BY <1>11, LeaderKept, RadioKept, FaultType
     DEF ForgetPrepared, StillPrepared, Typed, FollowerOK, HeldIsBatch
<1>12. CASE ResetTransport
  BY <1>12, LeaderKept, RadioKept, FaultType
     DEF ResetTransport, SlotCleared, applyVars, Typed, FollowerOK, HeldIsBatch
<1>13. ASSUME NEW left \in SUBSET Joints, TorqueOff(left) PROVE Typed'
  <2>1. OneFault
    BY <1>13, FaultType DEF TorqueOff
  <2> QED BY <1>13, <2>1, LeaderKept, RadioKept DEF TorqueOff, Typed, FollowerOK, HeldIsBatch
<1>14. CASE TakeBatch
  BY <1>14, LeaderKept, RadioKept, FaultType
     DEF TakeBatch, loopVars, Typed, FollowerOK, HeldIsBatch
<1>15. ASSUME NEW failed \in SUBSET Joints, NEW limp \in SUBSET failed, NEW ok \in BOOLEAN,
              ApplyBatch(failed, limp, ok)
       PROVE  Typed'
  <2>1. OneFault
    BY <1>15, FaultType DEF ApplyBatch
  <2>2. held \in Batches
    BY <1>15 DEF ApplyBatch, Typed, FollowerOK, HeldIsBatch
  <2>3. goal' \in [Joints -> Position \cup {Unknown}]
    BY <1>15, <2>2 DEF ApplyBatch, Batches, Typed, FollowerOK
  <2>4. torque' \in SUBSET Joints /\ prepared' \in SUBSET Joints
    BY <1>15 DEF ApplyBatch, Named, Typed, FollowerOK
  <2>5. FollowerOK'
    BY <1>15, <2>3, <2>4 DEF ApplyBatch, loopVars, Typed, FollowerOK, HeldIsBatch
  <2> QED BY <1>15, <2>1, <2>5, LeaderKept, RadioKept DEF ApplyBatch, Typed
<1>16. CASE UNCHANGED vars
  BY <1>16, LeaderKept, RadioKept, FollowerKept, FaultType DEF vars, Typed
<1> QED
  BY <1>1, <1>2, <1>4, <1>5, <1>6, <1>7, <1>8, <1>9, <1>10, <1>11, <1>12, <1>13, <1>14,
     <1>15, <1>16
     DEF Next, Mirror, Operator, FollowerCallback, FollowerLoop, Apply

\* Every variable keeps its type and the radio its bound, with tasks that
\* interrupt each other and whatever faults strike.
THEOREM TypeCorrect == Spec => []TypeOK
<1>1. Spec => []Typed
  BY TypedInit, TypedStep, PTL DEF Spec
<1> QED BY <1>1, TypedIsTypeOK, PTL

-----------------------------------------------------------------------------
(* What tasks that do not interrupt each other keep.                       *)

\* At most one task is in the middle of an iteration, and the loop has
\* forgotten what is prepared for as long as it switches the torque off.
Serial ==
    /\ mirrorPc = "send" => loopPc = "idle" /\ applyPc = "take"
    /\ applyPc = "apply" => loopPc = "idle"
    /\ loopPc # "idle" => prepared = {}
    /\ PreparedHasTorque

LEMMA SerialInit == Init => Serial
BY DEF Init, Serial, PreparedHasTorque

serialVars == <<mirrorPc, loopPc, applyPc, prepared, torque>>

LEMMA SerialKept == ASSUME Serial, UNCHANGED serialVars PROVE Serial'
BY DEF Serial, PreparedHasTorque, serialVars

LEMMA SerialStep ==
    ASSUME Preemptive = FALSE PROVE Typed /\ Serial /\ [Next]_vars => Serial'
<1> SUFFICES ASSUME Typed, Serial, [Next]_vars PROVE Serial'
  OBVIOUS
<1> USE Preemptive = FALSE DEF serialVars, leaderVars, loopVars, applyVars
<1>1. ASSUME NEW reading \in [Joints -> Position], MirrorCheck(reading) PROVE Serial'
  BY <1>1 DEF MirrorCheck, Undisturbed, Serial, PreparedHasTorque
<1>2. ASSUME NEW timeUp \in BOOLEAN, NEW sent \in BOOLEAN, MirrorSend(timeUp, sent)
      PROVE  Serial'
  <2>1. mirrorPc' = "check" /\ UNCHANGED <<loopPc, applyPc, prepared, torque>>
    BY <1>2 DEF MirrorSend
  <2> QED BY <2>1 DEF Serial, PreparedHasTorque
<1>4. ASSUME NEW joints \in Filters, NEW button \in BOOLEAN, Start(joints, button)
      PROVE  Serial'
  BY <1>4, SerialKept DEF Start
<1>5. CASE Release \/ StopSilently \/ RetryRelease
  BY <1>5, SerialKept DEF Release, StopSilently, RetryRelease
<1>6. CASE LoseFrame \/ HandleBatch \/ HandleRelease
  BY <1>6, SerialKept DEF LoseFrame, HandleBatch, HandleRelease
<1>7. CASE ForgetPrepared
  BY <1>7 DEF ForgetPrepared, StillPrepared, Undisturbed, Serial, PreparedHasTorque
<1>8. CASE ResetTransport
  BY <1>8 DEF ResetTransport, Serial, PreparedHasTorque
<1>9. ASSUME NEW left \in SUBSET Joints, TorqueOff(left) PROVE Serial'
  BY <1>9 DEF TorqueOff, Serial, PreparedHasTorque
<1>10. CASE TakeBatch
  BY <1>10 DEF TakeBatch, Undisturbed, Serial, PreparedHasTorque
<1>11. ASSUME NEW failed \in SUBSET Joints, NEW limp \in SUBSET failed, NEW ok \in BOOLEAN,
              ApplyBatch(failed, limp, ok)
       PROVE  Serial'
  BY <1>11 DEF ApplyBatch, Serial, PreparedHasTorque
<1>12. CASE UNCHANGED vars
  BY <1>12, SerialKept DEF vars
<1> QED
  BY <1>1, <1>2, <1>4, <1>5, <1>6, <1>7, <1>8, <1>9, <1>10, <1>11, <1>12
     DEF Next, Mirror, Operator, FollowerCallback, FollowerLoop, Apply

\* While tasks do not interrupt each other, a joint that counts as prepared
\* has its torque on, whatever the bus and the radio do.
THEOREM PreparedHasTorqueHolds ==
    ASSUME Preemptive = FALSE PROVE Spec => []PreparedHasTorque
<1>1. Init => Typed /\ Serial
  BY TypedInit, SerialInit
<1>2. Typed /\ Serial /\ [Next]_vars => Typed' /\ Serial'
  BY TypedStep, SerialStep
<1>3. Serial => PreparedHasTorque
  BY DEF Serial
<1> QED BY <1>1, <1>2, <1>3, PTL DEF Spec

-----------------------------------------------------------------------------
(* What a release leaves behind.                                           *)

IsBatch(ch, k) == ch[k].type = "batch"
Numbered(ch, n) == \A k \in DOMAIN ch : ch[k].type = "release" => ch[k].number <= n
NoBatchIn(ch) == \A k \in DOMAIN ch : ~IsBatch(ch, k)
NoBatchBehind(ch, n) ==
    \A i, k \in DOMAIN ch :
        i < k /\ ch[i].type = "release" /\ ch[i].number = n => ~IsBatch(ch, k)

Counted ==
    /\ mirrorPc = "send" => mode = "mirroring"
    /\ done <= asked /\ asked <= releases
    /\ Numbered(toFollower, releases)

\* Once the loop has taken the last release, no batch is left in the slot.
Emptied ==
    done = releases =>
        /\ applyPc = "take"
        /\ loopPc \in {"torqueOff", "idle"} => slot = NoBatch
        /\ loopPc = "idle" => torque = {}

Limp ==
    mode = "released" =>
        /\ asked = releases => NoBatchIn(toFollower)
        /\ NoBatchBehind(toFollower, releases)
        /\ Emptied

Settled == Counted /\ Limp

LEMMA SettledInit == Init => Settled
BY DEF Init, Settled, Counted, Limp, Numbered

LEMMA SettledHolds == Settled => ReleaseHolds
BY DEF Settled, Limp, Emptied, ReleaseHolds

\* What a channel loses with its head and gains with a release.
LEMMA ChannelTail ==
    ASSUME NEW ch \in Seq(Frames), ch # <<>>, NEW n \in Nat
    PROVE  /\ Numbered(ch, n) => Numbered(Tail(ch), n)
           /\ NoBatchIn(ch) => NoBatchIn(Tail(ch))
           /\ NoBatchBehind(ch, n) => NoBatchBehind(Tail(ch), n)
           /\ NoBatchBehind(ch, n) /\ Head(ch).type = "release" /\ Head(ch).number = n
                => NoBatchIn(Tail(ch))
<1> DEFINE rest == Tail(ch)
<1>1. /\ rest \in Seq(Frames) /\ Len(ch) \in Nat /\ Len(ch) >= 1
      /\ Len(rest) = Len(ch) - 1
      /\ DOMAIN ch = 1..Len(ch) /\ DOMAIN rest = 1..Len(rest)
  OBVIOUS
<1>2. \A k \in DOMAIN rest : k + 1 \in DOMAIN ch /\ rest[k] = ch[k + 1]
  BY <1>1
<1>3. \A i, k \in DOMAIN rest : i < k => i + 1 < k + 1
  BY <1>1
<1>4. \A k \in DOMAIN rest : 1 < k + 1 /\ 1 \in DOMAIN ch /\ Head(ch) = ch[1]
  BY <1>1
<1> HIDE DEF rest
<1>5. Numbered(ch, n) => Numbered(rest, n)
  BY <1>2 DEF Numbered
<1>6. NoBatchIn(ch) => NoBatchIn(rest)
  BY <1>2 DEF NoBatchIn, IsBatch
<1>7. NoBatchBehind(ch, n) => NoBatchBehind(rest, n)
  BY <1>2, <1>3 DEF NoBatchBehind, IsBatch
<1>8. NoBatchBehind(ch, n) /\ Head(ch).type = "release" /\ Head(ch).number = n
        => NoBatchIn(rest)
  BY <1>2, <1>4 DEF NoBatchBehind, NoBatchIn, IsBatch
<1> QED BY <1>5, <1>6, <1>7, <1>8 DEF rest

LEMMA ChannelAppend ==
    ASSUME NEW ch \in Seq(Frames), NEW f \in Frames, NEW n \in Nat
    PROVE  /\ Numbered(ch, n) /\ (f.type = "release" => f.number <= n)
                => Numbered(Append(ch, f), n)
           /\ NoBatchBehind(ch, n) /\ f.type # "batch"
                => NoBatchBehind(Append(ch, f), n)
<1> DEFINE more == Append(ch, f)
<1>1. /\ Len(ch) \in Nat /\ DOMAIN ch = 1..Len(ch)
      /\ DOMAIN more = 1..(Len(ch) + 1)
      /\ more[Len(ch) + 1] = f
      /\ \A k \in 1..Len(ch) : more[k] = ch[k]
  OBVIOUS
<1>2. \A k \in DOMAIN more : k = Len(ch) + 1 \/ k \in DOMAIN ch
  BY <1>1
<1>3. \A i, k \in DOMAIN more : i < k => i \in DOMAIN ch
  BY <1>1
<1> HIDE DEF more
<1>4. Numbered(ch, n) /\ (f.type = "release" => f.number <= n) => Numbered(more, n)
  BY <1>1, <1>2 DEF Numbered
<1>5. NoBatchBehind(ch, n) /\ f.type # "batch" => NoBatchBehind(more, n)
  BY <1>1, <1>2, <1>3 DEF NoBatchBehind, IsBatch
<1> QED BY <1>4, <1>5 DEF more

settledVars == <<mode, mirrorPc, releases, toFollower, asked, done, loopPc, slot, applyPc, torque>>

LEMMA SettledKept == ASSUME Settled, UNCHANGED settledVars PROVE Settled'
BY DEF Settled, Counted, Limp, Emptied, settledVars

\* Losing or receiving a frame that changes nothing else.
LEMMA SettledTail ==
    ASSUME Typed, Settled, toFollower # <<>>, toFollower' = Tail(toFollower),
           UNCHANGED <<mode, mirrorPc, releases, asked, done, loopPc, applyPc, torque>>,
           mode = "released" /\ done = releases /\ loopPc \in {"torqueOff", "idle"}
               => slot' = slot
    PROVE  Settled'
<1>1. releases \in Nat
  BY ConstantsAssumption DEF Typed, LeaderOK
<1>2. toFollower \in Seq(Frames)
  BY DEF Typed, RadioOK
<1>3. Numbered(toFollower', releases)
  BY <1>1, <1>2, ChannelTail DEF Settled, Counted
<1>4. Counted'
  BY <1>3 DEF Settled, Counted
<1>5. mode = "released" => NoBatchBehind(toFollower', releases)
  BY <1>1, <1>2, ChannelTail DEF Settled, Limp
<1>6. mode = "released" /\ asked = releases => NoBatchIn(toFollower')
  BY <1>1, <1>2, ChannelTail DEF Settled, Limp
<1>7. mode = "released" => Emptied'
  BY DEF Settled, Limp, Emptied
<1>8. Limp'
  BY <1>5, <1>6, <1>7 DEF Limp
<1> QED BY <1>4, <1>8 DEF Settled

OneAtATime == Preemptive = FALSE
BusObeys == "torque stays on" \notin Faults

LEMMA SettledStep ==
    ASSUME OneAtATime, BusObeys
    PROVE  Typed /\ Serial /\ Settled /\ [Next]_vars => Settled'
<1> SUFFICES ASSUME Typed, Serial, Settled, [Next]_vars PROVE Settled'
  OBVIOUS
<1> USE DEF settledVars, leaderVars, loopVars, applyVars
<1>0. /\ releases \in Nat /\ asked \in Nat /\ done \in Nat
      /\ toFollower \in Seq(Frames)
  BY ConstantsAssumption DEF Typed, LeaderOK, RadioOK, FollowerOK
<1>1. ASSUME NEW reading \in [Joints -> Position], MirrorCheck(reading) PROVE Settled'
  <2>1. mirrorPc' = "send" => mode = "mirroring"
    BY <1>1 DEF MirrorCheck
  <2>2. UNCHANGED <<mode, releases, toFollower, asked, done, loopPc, slot, applyPc, torque>>
    BY <1>1 DEF MirrorCheck
  <2> QED BY <2>1, <2>2 DEF Settled, Counted, Limp, Emptied
<1>2. ASSUME NEW timeUp \in BOOLEAN, NEW sent \in BOOLEAN, MirrorSend(timeUp, sent)
      PROVE  Settled'
  <2>1. /\ mode = "mirroring" /\ mirrorPc' = "check"
        /\ UNCHANGED <<mode, releases, asked, done>>
    BY <1>2 DEF MirrorSend, Settled, Counted
  <2>2. Numbered(toFollower', releases)
    <3>1. Numbered(toFollower, releases)
      BY DEF Settled, Counted
    <3>2. PICK f : /\ f.type = "batch"
                   /\ toFollower' \in {toFollower, Append(toFollower, f)}
                   /\ toFollower' # toFollower => f \in Frames
      <4> DEFINE key == Turbo /\ shouldSendKeyframe(session, timeUp)
                 active == ActiveMask(key, session.known \cup Moved)
                 to == [j \in Joints |->
                          IF j \in active THEN IF j \in Moved THEN arm[j] ELSE session.slots[j]
                          ELSE Unknown]
                 batch == [type |-> "batch", key |-> key, to |-> to]
      <4>1. key \in BOOLEAN
        BY ConstantsAssumption DEF shouldSendKeyframe
      <4>2. to \in [Joints -> Position \cup {Unknown}]
        BY DEF Typed, LeaderOK
      <4>3. batch \in Frames /\ batch.type = "batch"
        BY <4>1, <4>2 DEF Frames, Batches
      <4>4. to = [j \in Joints |->
                    IF j \in active
                    THEN [i \in Joints |-> IF i \in Moved THEN arm[i] ELSE session.slots[i]][j]
                    ELSE Unknown]
        OBVIOUS
      <4>5. toFollower' \in {toFollower, Append(toFollower, batch)}
        <5>1. CASE Moved = {}
          BY <1>2, <5>1 DEF MirrorSend
        <5>2. CASE Moved # {}
          BY <1>2, <5>2, <4>4 DEF MirrorSend
        <5> QED BY <5>1, <5>2
      <4> QED BY <4>3, <4>5
    <3>3. CASE toFollower' = toFollower
      BY <3>1, <3>3
    <3>4. CASE toFollower' # toFollower
      BY <1>0, <3>1, <3>2, <3>4, ChannelAppend
    <3> QED BY <3>3, <3>4
  <2> QED BY <2>1, <2>2 DEF Settled, Counted, Limp
<1>4. ASSUME NEW joints \in Filters, NEW button \in BOOLEAN, Start(joints, button)
      PROVE  Settled'
  BY <1>4 DEF Start, Settled, Counted, Limp
<1>5. CASE Release
  <2> DEFINE frame == [type |-> "release", number |-> releases + 1]
  <2>1. /\ mode' = "released" /\ releases' = releases + 1 /\ mirrorPc = "check"
        /\ toFollower' = Append(toFollower, frame)
        /\ UNCHANGED <<mirrorPc, asked, done>>
    BY <1>5 DEF Release, Undisturbed, OneAtATime
  <2>2. frame \in Frames /\ frame.type = "release" /\ frame.number = releases + 1
    BY <1>5, <1>0, ConstantsAssumption DEF Release, Frames, Releases
  <2>3. done <= asked /\ asked < releases' /\ done # releases' /\ asked # releases'
    BY <1>0, <2>1 DEF Settled, Counted
  <2>4. Numbered(toFollower, releases) /\ Numbered(toFollower, releases + 1)
    BY <1>0 DEF Settled, Counted, Numbered, Frames, Batches, Releases
  <2>5. NoBatchBehind(toFollower, releases + 1)
    BY <1>0, <2>4 DEF NoBatchBehind, Numbered, Frames, Batches, Releases
  <2> HIDE DEF frame
  <2>6. releases + 1 \in Nat /\ releases + 1 <= releases + 1
    BY <1>0
  <2>7. /\ Numbered(toFollower, releases + 1) => Numbered(toFollower', releases + 1)
        /\ NoBatchBehind(toFollower, releases + 1) => NoBatchBehind(toFollower', releases + 1)
    BY <1>0, <2>1, <2>2, <2>6, ChannelAppend
  <2>8. Counted'
    BY <1>0, <2>1, <2>3, <2>4, <2>7 DEF Counted
  <2>9. Limp'
    BY <2>1, <2>3, <2>5, <2>7 DEF Limp, Emptied
  <2> QED BY <2>8, <2>9 DEF Settled
<1>6. CASE StopSilently
  <2>1. mirrorPc = "check" /\ mode' = "off"
    BY <1>6 DEF StopSilently, Undisturbed, OneAtATime
  <2> QED BY <1>6, <2>1 DEF StopSilently, Settled, Counted, Limp
<1>7. CASE RetryRelease
  <2> DEFINE frame == [type |-> "release", number |-> releases]
  <2>1. /\ toFollower' = Append(toFollower, frame) /\ asked < releases
        /\ UNCHANGED <<mode, mirrorPc, releases, slot, asked, done, loopPc, applyPc, torque>>
    BY <1>7 DEF RetryRelease
  <2>2. frame \in Frames /\ frame.type = "release" /\ frame.number <= releases
    BY <1>0, <2>1, ConstantsAssumption DEF Typed, LeaderOK, Frames, Releases
  <2> HIDE DEF frame
  <2>3. /\ Numbered(toFollower, releases) => Numbered(toFollower', releases)
        /\ NoBatchBehind(toFollower, releases) => NoBatchBehind(toFollower', releases)
    BY <1>0, <2>1, <2>2, ChannelAppend
  <2>4. asked # releases
    BY <1>0, <2>1
  <2> QED BY <2>1, <2>3, <2>4 DEF Settled, Counted, Limp, Emptied
<1>8. CASE LoseFrame
  BY <1>8, SettledTail DEF LoseFrame
<1>9. CASE HandleBatch
  <2>1. ~(mode = "released" /\ asked = releases)
    <3> SUFFICES ASSUME mode = "released", asked = releases PROVE FALSE
      OBVIOUS
    <3>1. NoBatchIn(toFollower) /\ 1 \in DOMAIN toFollower /\ toFollower[1].type = "batch"
      BY <1>0, <1>9 DEF HandleBatch, Settled, Limp
    <3> QED BY <3>1 DEF NoBatchIn, IsBatch
  <2>2. ~(mode = "released" /\ done = releases)
    BY <1>0, <2>1 DEF Settled, Counted
  <2> QED BY <1>9, <2>2, SettledTail DEF HandleBatch
<1>10. CASE HandleRelease
  <2> DEFINE n == Head(toFollower).number
  <2>1. /\ toFollower # <<>> /\ toFollower' = Tail(toFollower)
        /\ Head(toFollower).type = "release"
        /\ asked' = IF n > asked THEN n ELSE asked
        /\ UNCHANGED <<mode, mirrorPc, releases, slot, done, loopPc, applyPc, torque>>
    BY <1>10 DEF HandleRelease
  <2>2. n \in Nat /\ n <= releases
    <3>1. 1 \in DOMAIN toFollower /\ Head(toFollower) = toFollower[1]
      BY <1>0, <2>1
    <3>2. Head(toFollower) \in Releases
      BY <1>0, <2>1 DEF Frames, Batches, Releases
    <3> QED BY <2>1, <3>1, <3>2, ConstantsAssumption
         DEF Settled, Counted, Numbered, Releases
  <2> HIDE DEF n
  <2>3. done <= asked' /\ asked' <= releases
    BY <1>0, <2>1, <2>2 DEF Settled, Counted
  <2>4. asked' = releases => asked = releases \/ n = releases
    BY <2>1
  <2>5. Numbered(toFollower', releases)
    BY <1>0, <2>1, ChannelTail DEF Settled, Counted
  <2>6. Counted'
    BY <2>1, <2>3, <2>5 DEF Settled, Counted
  <2>7. mode = "released" => NoBatchBehind(toFollower', releases)
    BY <1>0, <2>1, ChannelTail DEF Settled, Limp
  <2>8. mode = "released" /\ asked' = releases => NoBatchIn(toFollower')
    BY <1>0, <2>1, <2>4, ChannelTail DEF Settled, Limp, n
  <2>9. mode = "released" => Emptied'
    BY <2>1 DEF Settled, Limp, Emptied
  <2>10. Limp'
    BY <2>1, <2>7, <2>8, <2>9 DEF Limp
  <2> QED BY <2>6, <2>10 DEF Settled
<1>11. CASE ForgetPrepared
  <2>1. /\ loopPc' = "reset" /\ done' = asked /\ applyPc' = "take"
        /\ UNCHANGED <<mode, mirrorPc, releases, toFollower, slot, asked, applyPc, torque>>
    BY <1>11 DEF ForgetPrepared, Undisturbed, OneAtATime
  <2>2. Counted'
    BY <1>0, <2>1 DEF Settled, Counted
  <2>3. Limp'
    BY <2>1 DEF Settled, Limp, Emptied
  <2> QED BY <2>2, <2>3 DEF Settled
<1>12. CASE ResetTransport
  BY <1>12 DEF ResetTransport, SlotCleared, Settled, Counted, Limp, Emptied
<1>13. ASSUME NEW left \in SUBSET Joints, TorqueOff(left) PROVE Settled'
  <2>1. left = {}
    BY <1>13 DEF TorqueOff, MayFail, Strikes, BusObeys
  <2>2. /\ loopPc = "torqueOff" /\ loopPc' = "idle" /\ torque' = {}
        /\ UNCHANGED <<mode, mirrorPc, releases, toFollower, slot, asked, done, applyPc>>
    BY <1>13, <2>1 DEF TorqueOff
  <2> QED BY <2>2 DEF Settled, Counted, Limp, Emptied
<1>14. CASE TakeBatch
  <2>1. /\ loopPc = "idle" /\ slot # NoBatch
        /\ UNCHANGED <<mode, mirrorPc, releases, toFollower, asked, done, loopPc, torque>>
    BY <1>14 DEF TakeBatch, Undisturbed, OneAtATime
  <2>2. ~(mode = "released" /\ done = releases)
    BY <2>1 DEF Settled, Limp, Emptied
  <2> QED BY <2>1, <2>2 DEF Settled, Counted, Limp, Emptied
<1>15. ASSUME NEW failed \in SUBSET Joints, NEW limp \in SUBSET failed, NEW ok \in BOOLEAN,
              ApplyBatch(failed, limp, ok)
       PROVE  Settled'
  <2>1. /\ applyPc = "apply"
        /\ UNCHANGED <<mode, mirrorPc, releases, toFollower, slot, asked, done, loopPc>>
    BY <1>15 DEF ApplyBatch
  <2>2. ~(mode = "released" /\ done = releases)
    BY <2>1 DEF Settled, Limp, Emptied
  <2> QED BY <2>1, <2>2 DEF Settled, Counted, Limp, Emptied
<1>16. CASE UNCHANGED vars
  BY <1>16, SettledKept DEF vars
<1> QED
  BY <1>1, <1>2, <1>4, <1>5, <1>6, <1>7, <1>8, <1>9, <1>10, <1>11, <1>12, <1>13, <1>14,
     <1>15, <1>16
     DEF Next, Mirror, Operator, FollowerCallback, FollowerLoop, Apply

\* While tasks do not interrupt each other and the bus switches torque off when
\* told to, an arm that executed the last release stays limp until the operator
\* starts again, whatever is lost, delayed or sent again.
THEOREM ReleaseHoldsHolds ==
    ASSUME Preemptive = FALSE, "torque stays on" \notin Faults
    PROVE  Spec => []ReleaseHolds
<1>1. Init => Typed /\ Serial /\ Settled
  BY TypedInit, SerialInit, SettledInit
<1>2. Typed /\ Serial /\ Settled /\ [Next]_vars => Typed' /\ Serial' /\ Settled'
  BY TypedStep, SerialStep, SettledStep DEF OneAtATime, BusObeys
<1>3. Settled => ReleaseHolds
  BY SettledHolds
<1> QED BY <1>1, <1>2, <1>3, PTL DEF Spec

-----------------------------------------------------------------------------
(* The stream implements FollowedArm, with tasks that interrupt each other *)
(* anywhere.                                                               *)

Goals == [Joints -> Position \cup {Unknown}]

\* The apply task drops a batch before it takes another.
HandsFree == applyPc = "take" => held = NoBatch

LEMMA HandsFreeStep == HandsFree /\ [Next]_vars => HandsFree'
<1> SUFFICES ASSUME HandsFree, [Next]_vars PROVE HandsFree'
  OBVIOUS
<1>1. CASE TakeBatch
  BY <1>1 DEF TakeBatch, HandsFree
<1>2. ASSUME NEW failed \in SUBSET Joints, NEW limp \in SUBSET failed, NEW ok \in BOOLEAN,
             ApplyBatch(failed, limp, ok)
      PROVE  HandsFree'
  BY <1>2 DEF ApplyBatch, HandsFree
<1>3. CASE UNCHANGED <<applyPc, held>>
  BY <1>3 DEF HandsFree
<1>4. [Next]_vars => \/ TakeBatch \/ UNCHANGED <<applyPc, held>>
                     \/ \E failed \in SUBSET Joints, ok \in BOOLEAN :
                           \E limp \in SUBSET failed : ApplyBatch(failed, limp, ok)
  BY DEF Next, Mirror, MirrorCheck, MirrorSend, RetryRelease, Operator, Start, Release,
         StopSilently, LoseFrame, FollowerCallback, HandleBatch, HandleRelease, FollowerLoop,
         ForgetPrepared, ResetTransport, TorqueOff, Apply, applyVars, vars
<1> QED BY <1>1, <1>2, <1>3, <1>4

\* Sequences: one element less, the first of one apart.
LEMMA Cut ==
    ASSUME NEW S, NEW a \in Seq(S), NEW x \in S, NEW b \in Seq(S)
    PROVE  LET s == a \o <<x>> \o b
           IN  Len(a) + 1 \in DOMAIN s /\ a \o b = Service!Without(s, Len(a) + 1)
<1> DEFINE s == a \o <<x>> \o b
           w == Service!Without(s, Len(a) + 1)
<1>1. <<x>> \in Seq(S) /\ Len(<<x>>) = 1 /\ <<x>>[1] = x
  OBVIOUS
<1>2. /\ a \o <<x>> \in Seq(S) /\ Len(a \o <<x>>) = Len(a) + 1
      /\ \A i \in 1..(Len(a) + 1) :
            (a \o <<x>>)[i] = IF i <= Len(a) THEN a[i] ELSE <<x>>[i - Len(a)]
  BY <1>1, ConcatProperties
<1>3. /\ s \in Seq(S) /\ Len(s) = Len(a) + 1 + Len(b)
      /\ \A i \in 1..(Len(a) + 1 + Len(b)) :
            s[i] = IF i <= Len(a) + 1 THEN (a \o <<x>>)[i] ELSE b[i - (Len(a) + 1)]
  BY <1>2, ConcatProperties
<1>4. /\ a \o b \in Seq(S) /\ Len(a \o b) = Len(a) + Len(b)
      /\ \A i \in 1..(Len(a) + Len(b)) :
            (a \o b)[i] = IF i <= Len(a) THEN a[i] ELSE b[i - Len(a)]
  BY ConcatProperties
<1>5. Len(a) \in Nat /\ Len(b) \in Nat
  OBVIOUS
<1> HIDE DEF s
<1>6. DOMAIN s = 1..(Len(a) + 1 + Len(b)) /\ Len(a) + 1 \in DOMAIN s
  BY <1>3, <1>5
<1>7. w = [k \in 1..(Len(a) + Len(b)) |-> IF k < Len(a) + 1 THEN s[k] ELSE s[k + 1]]
  BY <1>3, <1>5 DEF Service!Without
<1>8. ASSUME NEW k \in 1..(Len(a) + Len(b)) PROVE w[k] = (a \o b)[k]
  <2>1. CASE k <= Len(a)
    <3>1. w[k] = s[k]
      BY <1>5, <1>7, <2>1
    <3>2. s[k] = (a \o <<x>>)[k] /\ (a \o <<x>>)[k] = a[k] /\ (a \o b)[k] = a[k]
      BY <1>2, <1>3, <1>4, <1>5, <2>1
    <3> QED BY <3>1, <3>2
  <2>2. CASE k > Len(a)
    <3>1. w[k] = s[k + 1]
      BY <1>5, <1>7, <2>2
    <3>2. k + 1 \in 1..(Len(a) + 1 + Len(b)) /\ ~(k + 1 <= Len(a) + 1)
          /\ (k + 1) - (Len(a) + 1) = k - Len(a)
      BY <1>5, <2>2
    <3>3. s[k + 1] = b[(k + 1) - (Len(a) + 1)]
      BY <1>3, <3>2
    <3>4. (a \o b)[k] = b[k - Len(a)]
      BY <1>4, <1>5, <2>2
    <3> QED BY <3>1, <3>2, <3>3, <3>4
  <2> QED BY <1>5, <2>1, <2>2
<1>9. a \o b = w
  <2>1. a \o b = [k \in 1..(Len(a) + Len(b)) |-> (a \o b)[k]]
    <3>1. a \o b \in [1..(Len(a) + Len(b)) -> S]
      BY <1>4, LenProperties
    <3> HIDE DEF w
    <3> QED BY <3>1
  <2> QED BY <1>7, <1>8, <2>1
<1> QED BY <1>6, <1>9 DEF s

LEMMA Apart ==
    ASSUME NEW S, NEW s \in Seq(S), s # <<>>
    PROVE  s[1] \in S /\ Tail(s) \in Seq(S) /\ s = <<s[1]>> \o Tail(s)
<1>1. s[1] \in S /\ Tail(s) \in Seq(S) /\ Len(s) \in Nat \ {0}
  BY EmptySeq, HeadTailProperties, ElementOfSeq
<1>2. Len(Tail(s)) = Len(s) - 1 /\ \A i \in 1..Len(Tail(s)) : Tail(s)[i] = s[i + 1]
  BY HeadTailProperties
<1>3. <<s[1]>> \in Seq(S) /\ Len(<<s[1]>>) = 1 /\ <<s[1]>>[1] = s[1]
  BY <1>1
<1> DEFINE t == <<s[1]>> \o Tail(s)
<1>4. /\ t \in Seq(S) /\ Len(t) = Len(s)
      /\ \A i \in 1..Len(s) : t[i] = IF i <= 1 THEN <<s[1]>>[i] ELSE Tail(s)[i - 1]
  BY <1>1, <1>2, <1>3, ConcatProperties
<1> HIDE DEF t
<1>5. ASSUME NEW i \in 1..Len(s) PROVE s[i] = t[i]
  <2>1. CASE i = 1
    BY <1>3, <1>4, <2>1
  <2>2. CASE i # 1
    <3>1. i - 1 \in 1..Len(Tail(s)) /\ (i - 1) + 1 = i /\ ~(i <= 1)
      BY <1>1, <1>2, <2>2
    <3> QED BY <1>2, <1>4, <3>1
  <2> QED BY <2>1, <2>2
<1>6. s = t
  BY <1>4, <1>5, SeqEqual
<1> QED BY <1>1, <1>6 DEF t

LEMMA Joined ==
    ASSUME NEW S, NEW a \in Seq(S), NEW b \in Seq(S), NEW x \in S
    PROVE  a \o Append(b, x) = Append(a \o b, x)
<1>1. <<x>> \in Seq(S) /\ Append(b, x) = b \o <<x>> /\ a \o b \in Seq(S)
  OBVIOUS
<1>2. Append(a \o b, x) = (a \o b) \o <<x>>
  BY <1>1
<1> QED BY <1>1, <1>2, ConcatAssociative

\* What is on the air.
LEMMA SetsTyped == ASSUME NEW f \in Frames PROVE Sets(f) \in Goals
<1>1. CASE f \in Batches
  <2>1. f.type = "batch" /\ f.to \in [Joints -> Position \cup {Unknown}]
    BY <1>1 DEF Batches
  <2> QED BY <2>1 DEF Sets, Goals
<1>2. CASE f \in Releases
  <2>1. f.type = "release"
    BY <1>2 DEF Releases
  <2> QED BY <2>1 DEF Sets, Goals, Forgotten
<1> QED BY <1>1, <1>2 DEF Frames

LEMMA OnAirSeq ==
    ASSUME NEW t \in Seq(Frames)
    PROVE  /\ OnAir(t) \in Seq(Goals) /\ Len(OnAir(t)) = Len(t)
           /\ \A i \in 1..Len(t) : OnAir(t)[i] = Sets(t[i])
<1>1. DOMAIN t = 1..Len(t) /\ Len(t) \in Nat /\ \A i \in 1..Len(t) : t[i] \in Frames
  OBVIOUS
<1>2. \A i \in 1..Len(t) : Sets(t[i]) \in Goals
  BY <1>1, SetsTyped
<1>3. OnAir(t) = [i \in 1..Len(t) |-> Sets(t[i])]
  BY <1>1 DEF OnAir
<1>4. OnAir(t) \in [1..Len(t) -> Goals]
  BY <1>2, <1>3
<1> QED BY <1>1, <1>3, <1>4

LEMMA OnAirAppended ==
    ASSUME NEW t \in Seq(Frames), NEW f \in Frames
    PROVE  OnAir(Append(t, f)) = Append(OnAir(t), Sets(f))
<1> DEFINE u == Append(t, f)
           v == Append(OnAir(t), Sets(f))
<1>1. /\ u \in Seq(Frames) /\ Len(u) = Len(t) + 1 /\ u[Len(t) + 1] = f
      /\ \A i \in 1..Len(t) : u[i] = t[i]
  OBVIOUS
<1>2. /\ v \in Seq(Goals) /\ Len(v) = Len(t) + 1 /\ v[Len(t) + 1] = Sets(f)
      /\ \A i \in 1..Len(t) : v[i] = Sets(t[i])
  BY SetsTyped, OnAirSeq
<1> HIDE DEF u, v
<1>3. /\ OnAir(u) \in Seq(Goals) /\ Len(OnAir(u)) = Len(t) + 1
      /\ \A i \in 1..(Len(t) + 1) : OnAir(u)[i] = Sets(u[i])
  BY <1>1, OnAirSeq
<1>4. ASSUME NEW i \in 1..(Len(t) + 1) PROVE OnAir(u)[i] = v[i]
  <2>1. CASE i = Len(t) + 1
    BY <1>1, <1>2, <1>3, <2>1
  <2>2. CASE i # Len(t) + 1
    <3>1. i \in 1..Len(t)
      BY <2>2
    <3> QED BY <1>1, <1>2, <1>3, <3>1
  <2> QED BY <2>1, <2>2
<1>5. OnAir(u) = v
  BY <1>2, <1>3, <1>4, SeqEqual
<1> QED BY <1>5 DEF u, v

LEMMA OnAirTaken ==
    ASSUME NEW t \in Seq(Frames), t # <<>>
    PROVE  /\ Head(t) \in Frames /\ Tail(t) \in Seq(Frames)
           /\ OnAir(t) = <<Sets(Head(t))>> \o OnAir(Tail(t))
<1>1. Head(t) \in Frames /\ Tail(t) \in Seq(Frames) /\ t = <<Head(t)>> \o Tail(t)
  BY Apart
<1>2. Len(t) \in Nat \ {0} /\ Head(t) = t[1]
  BY EmptySeq
<1>3. Len(Tail(t)) = Len(t) - 1 /\ \A i \in 1..Len(Tail(t)) : Tail(t)[i] = t[i + 1]
  BY HeadTailProperties
<1> DEFINE s == OnAir(t)
<1>4. s \in Seq(Goals) /\ Len(s) = Len(t) /\ \A i \in 1..Len(t) : s[i] = Sets(t[i])
  BY OnAirSeq
<1>5. /\ OnAir(Tail(t)) \in Seq(Goals) /\ Len(OnAir(Tail(t))) = Len(t) - 1
      /\ \A i \in 1..(Len(t) - 1) : OnAir(Tail(t))[i] = Sets(Tail(t)[i])
  BY <1>1, <1>3, OnAirSeq
<1> HIDE DEF s
<1>6. s # <<>>
  BY <1>2, <1>4
<1>7. /\ Tail(s) \in Seq(Goals) /\ Len(Tail(s)) = Len(t) - 1
      /\ \A i \in 1..Len(Tail(s)) : Tail(s)[i] = s[i + 1]
  BY <1>4, <1>6, HeadTailProperties
<1>8. ASSUME NEW i \in 1..(Len(t) - 1) PROVE Tail(s)[i] = OnAir(Tail(t))[i]
  <2>1. i \in 1..Len(Tail(s)) /\ i \in 1..Len(Tail(t)) /\ i + 1 \in 1..Len(t)
    BY <1>2, <1>3, <1>7
  <2> QED BY <1>3, <1>4, <1>5, <1>7, <2>1
<1>9. Tail(s) = OnAir(Tail(t))
  BY <1>5, <1>7, <1>8, SeqEqual
<1>10. s = <<s[1]>> \o Tail(s) /\ s[1] = Sets(t[1])
  BY <1>2, <1>4, <1>6, Apart
<1> QED BY <1>1, <1>2, <1>9, <1>10 DEF s

\* What waits at the follower, in its hands and in the slot.
LEMMA PlaceSeq ==
    ASSUME NEW b \in Batches \cup {NoBatch}
    PROVE  Place(b) \in Seq(Goals) /\ (b # NoBatch => b \in Batches /\ b.to \in Goals)
<1>1. CASE b = NoBatch
  BY <1>1 DEF Place
<1>2. CASE b # NoBatch
  <2>1. b \in Batches /\ b.to \in Goals
    BY <1>2 DEF Batches, Goals
  <2> QED BY <1>2, <2>1 DEF Place
<1> QED BY <1>1, <1>2

LEMMA WaySeq ==
    ASSUME Typed
    PROVE  /\ Place(held) \in Seq(Goals) /\ Place(slot) \in Seq(Goals)
           /\ OnAir(toFollower) \in Seq(Goals) /\ toFollower \in Seq(Frames)
           /\ Place(held) \o Place(slot) \in Seq(Goals) /\ Way \in Seq(Goals)
<1>1. /\ held \in Batches \cup {NoBatch} /\ slot \in Batches \cup {NoBatch}
      /\ toFollower \in Seq(Frames)
  BY DEF Typed, FollowerOK, RadioOK
<1>2. /\ Place(held) \in Seq(Goals) /\ Place(slot) \in Seq(Goals)
      /\ OnAir(toFollower) \in Seq(Goals)
  BY <1>1, PlaceSeq, OnAirSeq
<1>3. Place(held) \o Place(slot) \in Seq(Goals)
  BY <1>2, ConcatProperties
<1> QED BY <1>1, <1>2, <1>3, ConcatProperties DEF Way

\* A frame leaves the leader.
LEMMA WayGrows ==
    ASSUME Typed, NEW f \in Frames, toFollower' = Append(toFollower, f),
           UNCHANGED <<held, slot>>
    PROVE  Way' = Append(Way, Sets(f))
<1>1. /\ toFollower \in Seq(Frames) /\ Place(held) \o Place(slot) \in Seq(Goals)
      /\ OnAir(toFollower) \in Seq(Goals)
  BY WaySeq
<1>2. Way' = Place(held) \o Place(slot) \o OnAir(Append(toFollower, f))
  BY DEF Way
<1>3. Way' = Place(held) \o Place(slot) \o Append(OnAir(toFollower), Sets(f))
  BY <1>1, <1>2, OnAirAppended
<1>4. Sets(f) \in Goals
  BY SetsTyped
<1>5. Way = (Place(held) \o Place(slot)) \o OnAir(toFollower)
  BY DEF Way
<1> QED BY <1>1, <1>3, <1>4, <1>5, Joined

\* A frame is lost on the air, or taken off it by a release.
LEMMA WayLosesFrame ==
    ASSUME Typed, toFollower # <<>>, toFollower' = Tail(toFollower), UNCHANGED <<held, slot>>
    PROVE  \E i \in DOMAIN Way : Way' = Service!Without(Way, i)
<1> DEFINE a == Place(held) \o Place(slot)
           x == Sets(Head(toFollower))
           b == OnAir(Tail(toFollower))
<1>1. a \in Seq(Goals) /\ toFollower \in Seq(Frames)
  BY WaySeq
<1>2. /\ Head(toFollower) \in Frames /\ Tail(toFollower) \in Seq(Frames)
      /\ OnAir(toFollower) = <<x>> \o b
  BY <1>1, OnAirTaken
<1>3. x \in Goals /\ b \in Seq(Goals)
  BY <1>2, SetsTyped, OnAirSeq
<1>4. Way = a \o (<<x>> \o b)
  BY <1>2 DEF Way
<1>5. Way' = a \o b
  BY DEF Way
<1> HIDE DEF a, x, b
<1>6. <<x>> \in Seq(Goals)
  BY <1>3
<1>7. a \o (<<x>> \o b) = a \o <<x>> \o b
  BY <1>1, <1>3, <1>6, ConcatAssociative
<1>8. LET s == a \o <<x>> \o b
       IN  Len(a) + 1 \in DOMAIN s /\ a \o b = Service!Without(s, Len(a) + 1)
  BY <1>1, <1>3, Cut
<1> QED BY <1>4, <1>5, <1>7, <1>8

\* A batch comes into the slot, over the one that may be there.
LEMMA WayTakesFrame ==
    ASSUME Typed, toFollower # <<>>, toFollower' = Tail(toFollower), UNCHANGED held,
           slot' = Head(toFollower), slot' \in Batches
    PROVE  Way' = Way \/ \E i \in DOMAIN Way : Way' = Service!Without(Way, i)
<1> DEFINE h == Place(held)
           y == Sets(Head(toFollower))
           c == OnAir(Tail(toFollower))
           air == OnAir(toFollower)
<1>1. /\ h \in Seq(Goals) /\ toFollower \in Seq(Frames) /\ air \in Seq(Goals)
      /\ slot \in Batches \cup {NoBatch}
  BY WaySeq DEF Typed, FollowerOK
<1>2. Tail(toFollower) \in Seq(Frames) /\ air = <<y>> \o c
  BY <1>1, OnAirTaken
<1>3. Place(slot') = <<y>>
  <2>1. slot'.type = "batch" /\ slot' # NoBatch
    BY DEF Batches, NoBatch
  <2> QED BY <2>1 DEF Place, Sets
<1>4. Way' = h \o <<y>> \o c
  BY <1>3 DEF Way
<1>5. y \in Goals /\ c \in Seq(Goals)
  BY <1>1, <1>2, OnAirTaken, SetsTyped, OnAirSeq
<1>6. Way = h \o Place(slot) \o air
  BY DEF Way
<1> HIDE DEF h, y, c, air
<1>7. h \o <<y>> \o c = h \o air
  <2>1. <<y>> \in Seq(Goals)
    BY <1>5
  <2> QED BY <1>1, <1>2, <1>5, <2>1, ConcatAssociative
<1>8. CASE slot = NoBatch
  <2>1. Place(slot) = <<>> /\ h \o <<>> = h
    BY <1>1, <1>8, ConcatEmptySeq DEF Place
  <2> QED BY <1>4, <1>6, <1>7, <2>1
<1>9. CASE slot # NoBatch
  <2>1. Place(slot) = <<slot.to>> /\ slot.to \in Goals
    BY <1>1, <1>9, PlaceSeq DEF Place
  <2>2. LET s == h \o <<slot.to>> \o air
         IN  Len(h) + 1 \in DOMAIN s /\ h \o air = Service!Without(s, Len(h) + 1)
    BY <1>1, <2>1, Cut
  <2> QED BY <1>4, <1>6, <1>7, <2>1, <2>2
<1> QED BY <1>8, <1>9

\* The slot is emptied.
LEMMA WayLosesSlot ==
    ASSUME Typed, slot' = NoBatch, UNCHANGED <<held, toFollower>>
    PROVE  Way' = Way \/ \E i \in DOMAIN Way : Way' = Service!Without(Way, i)
<1> DEFINE h == Place(held)
           air == OnAir(toFollower)
<1>1. h \in Seq(Goals) /\ air \in Seq(Goals) /\ slot \in Batches \cup {NoBatch}
  BY WaySeq DEF Typed, FollowerOK
<1>2. Way = h \o Place(slot) \o air
  BY DEF Way
<1>3. Way' = h \o <<>> \o air
  BY DEF Way, Place
<1> HIDE DEF h, air
<1>4. h \o <<>> = h
  BY <1>1, ConcatEmptySeq
<1>5. CASE slot = NoBatch
  BY <1>2, <1>3, <1>5 DEF Place
<1>6. CASE slot # NoBatch
  <2>1. Place(slot) = <<slot.to>> /\ slot.to \in Goals
    BY <1>1, <1>6, PlaceSeq DEF Place
  <2>2. LET s == h \o <<slot.to>> \o air
         IN  Len(h) + 1 \in DOMAIN s /\ h \o air = Service!Without(s, Len(h) + 1)
    BY <1>1, <2>1, Cut
  <2> QED BY <1>2, <1>3, <1>4, <2>1, <2>2
<1> QED BY <1>5, <1>6

\* From the slot to the hands of the apply task.
LEMMA WayMoves ==
    ASSUME Typed, held = NoBatch, held' = slot, slot' = NoBatch, UNCHANGED toFollower
    PROVE  Way' = Way
<1>1. Place(held) = <<>> /\ Place(slot') = <<>> /\ Place(held') = Place(slot)
  BY DEF Place
<1>2. Place(slot) \in Seq(Goals)
  BY WaySeq
<1>3. Way = <<>> \o Place(slot) \o OnAir(toFollower)
  BY <1>1 DEF Way
<1>4. Way' = Place(slot) \o <<>> \o OnAir(toFollower)
  BY <1>1 DEF Way
<1>5. <<>> \o Place(slot) = Place(slot) \o <<>>
  BY <1>2, ConcatEmptySeq
<1> QED BY <1>3, <1>4, <1>5

\* The apply task is done with its batch, the oldest there is.
LEMMA WayEnds ==
    ASSUME Typed, held \in Batches, held' = NoBatch, UNCHANGED <<slot, toFollower>>
    PROVE  /\ Way # <<>> /\ Way[1] = held.to /\ Way' = Tail(Way)
           /\ \E i \in DOMAIN Way : Way' = Service!Without(Way, i)
<1> DEFINE x == held.to
           b == Place(slot) \o OnAir(toFollower)
<1>1. /\ Place(slot) \in Seq(Goals) /\ OnAir(toFollower) \in Seq(Goals)
      /\ held \in Batches \cup {NoBatch} /\ held # NoBatch
  BY WaySeq DEF Batches, NoBatch
<1>2. Place(held) = <<x>> /\ x \in Goals /\ <<x>> \in Seq(Goals)
  BY <1>1, PlaceSeq DEF Place
<1>3. b \in Seq(Goals)
  BY <1>1, ConcatProperties
<1>4. Way = <<x>> \o b
  BY <1>1, <1>2, ConcatAssociative DEF Way
<1>5. Way' = b
  <2>1. Way' = <<>> \o Place(slot) \o OnAir(toFollower)
    BY DEF Way, Place
  <2> QED BY <1>1, <2>1, ConcatEmptySeq
<1> HIDE DEF x, b
<1>6. /\ Way \in Seq(Goals) /\ Len(Way) = 1 + Len(b) /\ Way[1] = x
      /\ \A i \in 1..(1 + Len(b)) : Way[i] = IF i <= 1 THEN <<x>>[i] ELSE b[i - 1]
  BY <1>2, <1>3, <1>4, ConcatProperties
<1>7. Way # <<>> /\ Len(b) \in Nat
  BY <1>3, <1>6
<1>8. Tail(Way) = b
  <2>1. /\ Tail(Way) \in Seq(Goals) /\ Len(Tail(Way)) = Len(b)
        /\ \A i \in 1..Len(b) : Tail(Way)[i] = Way[i + 1]
    BY <1>6, <1>7, HeadTailProperties
  <2>2. ASSUME NEW i \in 1..Len(b) PROVE Tail(Way)[i] = b[i]
    <3>1. i + 1 \in 1..(1 + Len(b)) /\ ~(i + 1 <= 1) /\ (i + 1) - 1 = i
      BY <1>7
    <3> QED BY <1>6, <2>1, <3>1
  <2> QED BY <1>3, <2>1, <2>2, SeqEqual
<1>9. \E i \in DOMAIN Way : b = Service!Without(Way, i)
  <2>1. <<>> \in Seq(Goals) /\ <<>> \o <<x>> \o b = <<x>> \o b /\ <<>> \o b = b
    BY <1>2, <1>3, ConcatEmptySeq
  <2>2. LET s == <<>> \o <<x>> \o b
        IN  Len(<<>>) + 1 \in DOMAIN s /\ <<>> \o b = Service!Without(s, Len(<<>>) + 1)
    BY <1>2, <1>3, <2>1, Cut
  <2> QED BY <1>4, <2>1, <2>2
<1> QED BY <1>5, <1>6, <1>7, <1>8, <1>9 DEF x

LEMMA SentKept == ASSUME UNCHANGED <<session, lastSent>> PROVE Sent' = Sent
BY DEF Sent

LEMMA WayKept == ASSUME UNCHANGED <<held, slot, toFollower>> PROVE Way' = Way
BY DEF Way

LEMMA SentForgotten ==
    ASSUME session' \in {session, Empty}, UNCHANGED lastSent
    PROVE  Sent' \in {Sent, Service!Nowhere}
<1>1. CASE Turbo /\ session' = Empty
  BY <1>1 DEF Sent, Empty, Service!Nowhere
<1>2. CASE ~Turbo \/ session' = session
  BY <1>2 DEF Sent
<1> QED BY <1>1, <1>2

\* What one iteration of the mirror task sends.
LEMMA SendSeen ==
    ASSUME Typed, NEW timeUp \in BOOLEAN, NEW sent \in BOOLEAN, MirrorSend(timeUp, sent),
           Moved # {}
    PROVE  \E moved, again \in SUBSET Joints : Service!Send(moved, again)
<1> DEFINE key == Turbo /\ shouldSendKeyframe(session, timeUp)
           known == session.known \cup Moved
           slots == [j \in Joints |-> IF j \in Moved THEN arm[j] ELSE session.slots[j]]
           active == ActiveMask(key, known)
           to == [j \in Joints |-> IF j \in active THEN slots[j] ELSE Unknown]
           batch == [type |-> "batch", key |-> key, to |-> to]
           again == IF key THEN known ELSE {}
<1>1. /\ session.slots \in [Joints -> Position] /\ session.known \in SUBSET Joints
      /\ Moved \in SUBSET Joints /\ lastSent \in [Joints -> Position \cup {Unknown}]
      /\ arm \in [Joints -> Position]
  BY DEF Typed, LeaderOK, Moved
<1>2. known \in SUBSET Joints /\ key \in BOOLEAN
  BY <1>1, ConstantsAssumption DEF shouldSendKeyframe
<1>3. Sent' = [j \in Joints |-> IF j \in Moved THEN arm[j] ELSE Sent[j]]
  <2>1. CASE Turbo
    <3>1. session'.slots = slots /\ session'.known = known
      <4>1. session' = [slots |-> slots, known |-> known,
                        since |-> IF key THEN 0 ELSE session.since + 1,
                        baseline |-> session.baseline \/ key]
        BY <2>1 DEF MirrorSend
      <4> HIDE DEF slots, known, key
      <4> QED BY <4>1
    <3>2. Sent' = [j \in Joints |-> IF j \in known THEN slots[j] ELSE Unknown]
      BY <2>1, <3>1 DEF Sent
    <3>3. Sent = [j \in Joints |-> IF j \in session.known THEN session.slots[j] ELSE Unknown]
      BY <2>1 DEF Sent
    <3> QED BY <3>2, <3>3
  <2>2. CASE ~Turbo
    BY <2>2 DEF Sent, MirrorSend
  <2> QED BY <2>1, <2>2
<1>4. to = [j \in Joints |-> IF j \in Moved \cup again THEN Sent'[j] ELSE Unknown]
  <2>1. active = Moved \cup again
    BY DEF ActiveMask
  <2>2. ASSUME NEW j \in Joints, j \in active PROVE slots[j] = Sent'[j]
    <3>1. CASE j \in Moved
      BY <1>3, <3>1
    <3>2. CASE j \notin Moved
      <4>1. Turbo /\ j \in session.known
        BY <2>2, <3>2 DEF ActiveMask
      <4>2. Sent[j] = session.slots[j]
        BY <4>1 DEF Sent
      <4> QED BY <1>3, <3>2, <4>2
    <3> QED BY <3>1, <3>2
  <2> QED BY <2>1, <2>2
<1>5. batch \in Frames /\ Sets(batch) = to
  <2>1. to \in [Joints -> Position \cup {Unknown}]
    BY <1>1
  <2> HIDE DEF to, key
  <2> QED BY <1>2, <2>1 DEF Frames, Batches, Sets
<1>6. Way' = Append(Way, to) \/ Way' = Way
  <2>1. UNCHANGED <<held, slot>>
    BY DEF MirrorSend, applyVars
  <2>2. toFollower' = IF sent THEN Append(toFollower, batch) ELSE toFollower
    BY DEF MirrorSend
  <2> HIDE DEF batch, to
  <2>3. CASE sent
    BY <1>5, <2>1, <2>2, <2>3, WayGrows
  <2>4. CASE ~sent
    BY <2>1, <2>2, <2>4, WayKept
  <2> QED BY <2>3, <2>4
<1>7. UNCHANGED <<arm, goal>>
  BY DEF MirrorSend, applyVars
<1>8. again \in SUBSET Joints
  BY <1>2
<1> HIDE DEF again, to
<1>9. Service!Send(Moved, again)
  BY <1>3, <1>4, <1>6, <1>7 DEF Service!Send
<1> QED BY <1>1, <1>8, <1>9

LEMMA FollowedInit == Init => Service!Init
<1> SUFFICES ASSUME Init PROVE Service!Init
  OBVIOUS
<1>1. Sent = Service!Nowhere
  BY DEF Init, Sent, Empty, Forgotten, Service!Nowhere
<1>2. Way = <<>>
  <2>1. Place(held) = <<>> /\ Place(slot) = <<>> /\ OnAir(toFollower) \in Seq(Goals)
        /\ Len(OnAir(toFollower)) = 0
    <3>1. toFollower \in Seq(Frames) /\ Len(toFollower) = 0
      BY DEF Init
    <3> QED BY <3>1, OnAirSeq DEF Init, Place
  <2>2. OnAir(toFollower) = <<>>
    BY <2>1, EmptySeq
  <2> QED BY <2>1, <2>2 DEF Way
<1> QED BY <1>1, <1>2 DEF Init, Service!Init, Service!Nowhere, Forgotten

LEMMA FollowedStep ==
    ASSUME Typed, HandsFree, [Next]_vars
    PROVE  [Service!Next]_(Service!vars)
<1> SUFFICES Service!Next \/ UNCHANGED <<arm, Sent, Way, goal>>
  BY DEF Service!vars
<1> USE DEF leaderVars, loopVars, applyVars
<1>1. ASSUME NEW reading \in [Joints -> Position], MirrorCheck(reading)
      PROVE  Service!Next \/ UNCHANGED <<arm, Sent, Way, goal>>
  <2>1. UNCHANGED goal /\ Way' = Way
    BY <1>1, WayKept DEF MirrorCheck
  <2>2. CASE mode = "mirroring"
    <3>1. Sent' = Sent /\ arm' = reading
      BY <1>1, <2>2, SentKept DEF MirrorCheck
    <3> QED BY <2>1, <3>1 DEF Service!Next, Service!Read
  <2>3. CASE mode # "mirroring"
    <3>1. UNCHANGED <<arm, session>> /\ lastSent' = Forgotten
      BY <1>1, <2>3 DEF MirrorCheck
    <3>2. Sent' = Sent \/ Sent' = Service!Nowhere
      BY <3>1 DEF Sent, Forgotten, Service!Nowhere
    <3> QED BY <2>1, <3>1, <3>2 DEF Service!Next, Service!Forget
  <2> QED BY <2>2, <2>3
<1>2. ASSUME NEW timeUp \in BOOLEAN, NEW sent \in BOOLEAN, MirrorSend(timeUp, sent)
      PROVE  Service!Next \/ UNCHANGED <<arm, Sent, Way, goal>>
  <2>1. CASE Moved = {}
    <3>1. UNCHANGED <<arm, goal, session, lastSent, held, slot, toFollower>>
      BY <1>2, <2>1 DEF MirrorSend
    <3> QED BY <3>1, SentKept, WayKept
  <2>2. CASE Moved # {}
    BY <1>2, <2>2, SendSeen DEF Service!Next
  <2> QED BY <2>1, <2>2
<1>3. ASSUME NEW joints \in Filters, NEW button \in BOOLEAN, Start(joints, button)
      PROVE  Service!Next \/ UNCHANGED <<arm, Sent, Way, goal>>
  <2>1. /\ session' \in {session, Empty}
        /\ UNCHANGED <<arm, goal, lastSent, held, slot, toFollower>>
    BY <1>3 DEF Start, ResetSession
  <2>2. Sent' \in {Sent, Service!Nowhere} /\ Way' = Way
    BY <2>1, SentForgotten, WayKept
  <2> QED BY <2>1, <2>2 DEF Service!Next, Service!Forget
<1>4. CASE Release
  <2> DEFINE f == [type |-> "release", number |-> releases + 1]
  <2>1. /\ session' \in {session, Empty} /\ toFollower' = Append(toFollower, f)
        /\ UNCHANGED <<arm, goal, lastSent, held, slot>>
    BY <1>4 DEF Release, ResetSession
  <2>2. f \in Frames /\ Sets(f) = Service!Nowhere
    BY <1>4, ConstantsAssumption
       DEF Release, Typed, LeaderOK, Frames, Releases, Sets, Forgotten, Service!Nowhere
  <2> HIDE DEF f
  <2>3. Sent' \in {Sent, Service!Nowhere} /\ Way' = Append(Way, Service!Nowhere)
    BY <2>1, <2>2, SentForgotten, WayGrows
  <2> QED BY <2>1, <2>3 DEF Service!Next, Service!Signal
<1>5. CASE StopSilently
  <2>1. UNCHANGED <<arm, goal, session, lastSent, held, slot, toFollower>>
    BY <1>5 DEF StopSilently
  <2> QED BY <2>1, SentKept, WayKept
<1>6. CASE RetryRelease
  <2> DEFINE f == [type |-> "release", number |-> releases]
  <2>1. /\ toFollower' = Append(toFollower, f)
        /\ UNCHANGED <<arm, goal, session, lastSent, held, slot>>
    BY <1>6 DEF RetryRelease
  <2>2. f \in Frames /\ Sets(f) = Service!Nowhere
    BY <1>6, ConstantsAssumption
       DEF RetryRelease, Typed, LeaderOK, FollowerOK, Frames, Releases, Sets, Forgotten,
           Service!Nowhere
  <2> HIDE DEF f
  <2>3. Sent' = Sent /\ Way' = Append(Way, Service!Nowhere)
    BY <2>1, <2>2, SentKept, WayGrows
  <2> QED BY <2>1, <2>3 DEF Service!Next, Service!Signal
<1>7. CASE LoseFrame \/ HandleRelease
  <2>1. /\ toFollower # <<>> /\ toFollower' = Tail(toFollower)
        /\ UNCHANGED <<arm, goal, session, lastSent, held, slot>>
    BY <1>7 DEF LoseFrame, HandleRelease
  <2>2. Sent' = Sent /\ \E i \in DOMAIN Way : Way' = Service!Without(Way, i)
    BY <2>1, SentKept, WayLosesFrame
  <2> QED BY <2>1, <2>2 DEF Service!Next, Service!Lose
<1>8. CASE HandleBatch
  <2>1. /\ toFollower # <<>> /\ toFollower' = Tail(toFollower)
        /\ slot' = Head(toFollower) /\ Head(toFollower).type = "batch"
        /\ UNCHANGED <<arm, goal, session, lastSent, held>>
    BY <1>8 DEF HandleBatch
  <2>2. slot' \in Batches
    BY <2>1, FrameTaken, <1>8, FaultType DEF HandleBatch, Frames, Releases
  <2>3. Sent' = Sent
    BY <2>1, SentKept
  <2>4. Way' = Way \/ \E i \in DOMAIN Way : Way' = Service!Without(Way, i)
    BY <2>1, <2>2, WayTakesFrame
  <2> QED BY <2>1, <2>3, <2>4 DEF Service!Next, Service!Lose
<1>9. CASE ResetTransport
  <2>1. slot' = NoBatch /\ UNCHANGED <<arm, goal, session, lastSent, held, toFollower>>
    BY <1>9 DEF ResetTransport, SlotCleared
  <2>2. Sent' = Sent
    BY <2>1, SentKept
  <2>3. Way' = Way \/ \E i \in DOMAIN Way : Way' = Service!Without(Way, i)
    BY <2>1, WayLosesSlot
  <2> QED BY <2>1, <2>2, <2>3 DEF Service!Next, Service!Lose
<1>10. CASE ForgetPrepared \/ \E left \in SUBSET Joints : TorqueOff(left)
  <2>1. UNCHANGED <<arm, goal, session, lastSent, held, slot, toFollower>>
    BY <1>10 DEF ForgetPrepared, TorqueOff
  <2> QED BY <2>1, SentKept, WayKept
<1>11. CASE TakeBatch
  <2>1. /\ held = NoBatch /\ held' = slot /\ slot' = NoBatch
        /\ UNCHANGED <<arm, goal, session, lastSent, toFollower>>
    BY <1>11 DEF TakeBatch, HandsFree
  <2> QED BY <2>1, SentKept, WayMoves
<1>12. ASSUME NEW failed \in SUBSET Joints, NEW limp \in SUBSET failed, NEW ok \in BOOLEAN,
              ApplyBatch(failed, limp, ok)
       PROVE  Service!Next \/ UNCHANGED <<arm, Sent, Way, goal>>
  <2>1. /\ held \in Batches /\ held' = NoBatch
        /\ UNCHANGED <<arm, session, lastSent, slot, toFollower>>
    BY <1>12 DEF ApplyBatch, Typed, FollowerOK, HeldIsBatch
  <2>2. /\ Way # <<>> /\ Way[1] = held.to /\ Way' = Tail(Way)
        /\ \E i \in DOMAIN Way : Way' = Service!Without(Way, i)
    BY <2>1, WayEnds
  <2>3. Sent' = Sent
    BY <2>1, SentKept
  <2>4. CASE ok
    <3>1. goal' = [j \in Joints |-> IF held.to[j] # Unknown THEN held.to[j] ELSE goal[j]]
      BY <1>12, <2>4 DEF ApplyBatch, Named
    <3> QED BY <2>1, <2>2, <2>3, <3>1 DEF Service!Next, Service!Take
  <2>5. CASE ~ok
    <3>1. goal' = goal
      BY <1>12, <2>5 DEF ApplyBatch
    <3> QED BY <2>1, <2>2, <2>3, <3>1 DEF Service!Next, Service!Lose
  <2> QED BY <2>4, <2>5
<1>13. CASE UNCHANGED vars
  BY <1>13, SentKept, WayKept DEF vars
<1> QED
  BY <1>1, <1>2, <1>3, <1>4, <1>5, <1>6, <1>7, <1>8, <1>9, <1>10, <1>11, <1>12, <1>13
     DEF Next, Mirror, Operator, FollowerCallback, FollowerLoop, Apply

\* Both codecs, whatever the radio loses, the follower overwrites or the bus
\* refuses, and wherever callbacks and tasks interrupt each other: the joints
\* of the follower are only sent to where those of the leader were when they
\* were last sent, in that order, each batch at most once.
THEOREM FollowedArmImplemented == Spec => ImplementsFollowedArm
<1>1. Init => Typed /\ HandsFree
  BY TypedInit DEF Init, HandsFree
<1>2. Typed /\ HandsFree /\ [Next]_vars => Typed' /\ HandsFree'
  BY TypedStep, HandsFreeStep
<1>3. Typed /\ HandsFree /\ [Next]_vars => [Service!Next]_(Service!vars)
  BY FollowedStep
<1> QED BY <1>1, <1>2, <1>3, FollowedInit, PTL DEF Spec, ImplementsFollowedArm, Service!Spec

-----------------------------------------------------------------------------
(* The frames of the turbo codec.                                          *)

\* Twelve halvings leave nothing of a position.
LEMMA Halving ==
    ASSUME NEW v \in Nat, NEW half
    PROVE  half = v \div 2 => half \in Nat /\ v = 2 * half + (v % 2)
OBVIOUS

\* The bits of a position, weighted, add up to it.
BitOf(v, bit) == IF IsSet(v, bit) THEN Weights[bit + 1] ELSE 0

LEMMA BitsAddUp ==
    ASSUME NEW v \in 0..kMaxPosition
    PROVE  v = BitOf(v, 0) + BitOf(v, 1) + BitOf(v, 2) + BitOf(v, 3) + BitOf(v, 4)
               + BitOf(v, 5) + BitOf(v, 6) + BitOf(v, 7) + BitOf(v, 8) + BitOf(v, 9)
               + BitOf(v, 10) + BitOf(v, 11)
<1>1. v \in Nat /\ v < 4096
  BY DEF kMaxPosition
<1>2. /\ BitOf(v, 0) = ((v \div 1) % 2) /\ BitOf(v, 1) = 2 * ((v \div 2) % 2)
      /\ BitOf(v, 2) = 4 * ((v \div 4) % 2) /\ BitOf(v, 3) = 8 * ((v \div 8) % 2)
  BY <1>1 DEF BitOf, IsSet, Weights
<1>3. /\ BitOf(v, 4) = 16 * ((v \div 16) % 2) /\ BitOf(v, 5) = 32 * ((v \div 32) % 2)
      /\ BitOf(v, 6) = 64 * ((v \div 64) % 2) /\ BitOf(v, 7) = 128 * ((v \div 128) % 2)
  BY <1>1 DEF BitOf, IsSet, Weights
<1>4. /\ BitOf(v, 8) = 256 * ((v \div 256) % 2) /\ BitOf(v, 9) = 512 * ((v \div 512) % 2)
      /\ BitOf(v, 10) = 1024 * ((v \div 1024) % 2)
      /\ BitOf(v, 11) = 2048 * ((v \div 2048) % 2)
  BY <1>1 DEF BitOf, IsSet, Weights
<1>5. /\ v \div 1 = v /\ v \div 2 \in Nat /\ v \div 4 \in Nat /\ v \div 8 \in Nat
      /\ v \div 16 \in Nat /\ v \div 32 \in Nat /\ v \div 64 \in Nat /\ v \div 128 \in Nat
      /\ v \div 256 \in Nat /\ v \div 512 \in Nat /\ v \div 1024 \in Nat
      /\ v \div 2048 \in Nat /\ v \div 4096 = 0
  BY <1>1
<1>6. /\ v \div 2 = (v \div 1) \div 2 /\ v \div 4 = (v \div 2) \div 2
      /\ v \div 8 = (v \div 4) \div 2 /\ v \div 16 = (v \div 8) \div 2
      /\ v \div 32 = (v \div 16) \div 2 /\ v \div 64 = (v \div 32) \div 2
  BY <1>1
<1>7. /\ v \div 128 = (v \div 64) \div 2 /\ v \div 256 = (v \div 128) \div 2
      /\ v \div 512 = (v \div 256) \div 2 /\ v \div 1024 = (v \div 512) \div 2
      /\ v \div 2048 = (v \div 1024) \div 2 /\ v \div 4096 = (v \div 2048) \div 2
  BY <1>1
<1>8. v = BitOf(v, 0) + BitOf(v, 1) + BitOf(v, 2) + BitOf(v, 3) + 16 * (v \div 16)
  <2>1. v \div 1 = 2 * (v \div 2) + ((v \div 1) % 2)
    BY <1>5, <1>6, Halving
  <2>2. v \div 2 = 2 * (v \div 4) + ((v \div 2) % 2)
    BY <1>5, <1>6, Halving
  <2>3. v \div 4 = 2 * (v \div 8) + ((v \div 4) % 2)
    BY <1>5, <1>6, Halving
  <2>4. v \div 8 = 2 * (v \div 16) + ((v \div 8) % 2)
    BY <1>5, <1>6, Halving
  <2> QED BY <1>5, <1>2, <2>1, <2>2, <2>3, <2>4
<1>9. 16 * (v \div 16) = BitOf(v, 4) + BitOf(v, 5) + BitOf(v, 6) + BitOf(v, 7) + 256 * (v \div 256)
  <2>1. v \div 16 = 2 * (v \div 32) + ((v \div 16) % 2)
    BY <1>5, <1>6, Halving
  <2>2. v \div 32 = 2 * (v \div 64) + ((v \div 32) % 2)
    BY <1>5, <1>6, Halving
  <2>3. v \div 64 = 2 * (v \div 128) + ((v \div 64) % 2)
    BY <1>5, <1>7, Halving
  <2>4. v \div 128 = 2 * (v \div 256) + ((v \div 128) % 2)
    BY <1>5, <1>7, Halving
  <2> QED BY <1>5, <1>3, <2>1, <2>2, <2>3, <2>4
<1>10. 256 * (v \div 256) = BitOf(v, 8) + BitOf(v, 9) + BitOf(v, 10) + BitOf(v, 11)
  <2>1. v \div 256 = 2 * (v \div 512) + ((v \div 256) % 2)
    BY <1>5, <1>7, Halving
  <2>2. v \div 512 = 2 * (v \div 1024) + ((v \div 512) % 2)
    BY <1>5, <1>7, Halving
  <2>3. v \div 1024 = 2 * (v \div 2048) + ((v \div 1024) % 2)
    BY <1>5, <1>7, Halving
  <2>4. v \div 2048 = 2 * (v \div 4096) + ((v \div 2048) % 2)
    BY <1>5, <1>7, Halving
  <2>5. v \div 2048 = (v \div 2048) % 2
    BY <1>5, <2>4
  <2>6. v \div 256 = ((v \div 256) % 2) + 2 * ((v \div 512) % 2) + 4 * ((v \div 1024) % 2)
                        + 8 * ((v \div 2048) % 2)
    BY <1>1, <1>5, <2>1, <2>2, <2>3, <2>5
  <2>7. /\ (v \div 256) % 2 \in Int /\ (v \div 512) % 2 \in Int
        /\ (v \div 1024) % 2 \in Int /\ (v \div 2048) % 2 \in Int
    BY <1>1
  <2> DEFINE a == (v \div 256) % 2
             b == (v \div 512) % 2
             c == (v \div 1024) % 2
             d == (v \div 2048) % 2
  <2>8. /\ a \in Int /\ b \in Int /\ c \in Int /\ d \in Int
        /\ v \div 256 = a + 2 * b + 4 * c + 8 * d
        /\ BitOf(v, 8) = 256 * a /\ BitOf(v, 9) = 512 * b
        /\ BitOf(v, 10) = 1024 * c /\ BitOf(v, 11) = 2048 * d
    BY <1>4, <2>6, <2>7
  <2> HIDE DEF a, b, c, d
  <2> QED BY <2>8
<1>11. /\ BitOf(v, 0) \in Int /\ BitOf(v, 1) \in Int /\ BitOf(v, 2) \in Int
       /\ BitOf(v, 3) \in Int /\ BitOf(v, 4) \in Int /\ BitOf(v, 5) \in Int
       /\ BitOf(v, 6) \in Int /\ BitOf(v, 7) \in Int /\ BitOf(v, 8) \in Int
       /\ BitOf(v, 9) \in Int /\ BitOf(v, 10) \in Int /\ BitOf(v, 11) \in Int
  BY DEF BitOf, Weights
<1> QED BY <1>1, <1>5, <1>8, <1>9, <1>10, <1>11

LEMMA ValueRead ==
    ASSUME NEW v \in 0..kMaxPosition, NEW bits, NEW len, NEW i,
           \A bit \in Bits : Worth(bits, len, i, bit) = BitOf(v, bit)
    PROVE  unpackValue(bits, len, i) = v
<1>1. /\ 0 \in Bits /\ 1 \in Bits /\ 2 \in Bits /\ 3 \in Bits /\ 4 \in Bits /\ 5 \in Bits
      /\ 6 \in Bits /\ 7 \in Bits /\ 8 \in Bits /\ 9 \in Bits /\ 10 \in Bits /\ 11 \in Bits
  BY DEF Bits
<1>2. /\ Worth(bits, len, i, 0) = BitOf(v, 0) /\ Worth(bits, len, i, 1) = BitOf(v, 1)
      /\ Worth(bits, len, i, 2) = BitOf(v, 2) /\ Worth(bits, len, i, 3) = BitOf(v, 3)
      /\ Worth(bits, len, i, 4) = BitOf(v, 4) /\ Worth(bits, len, i, 5) = BitOf(v, 5)
      /\ Worth(bits, len, i, 6) = BitOf(v, 6) /\ Worth(bits, len, i, 7) = BitOf(v, 7)
      /\ Worth(bits, len, i, 8) = BitOf(v, 8) /\ Worth(bits, len, i, 9) = BitOf(v, 9)
      /\ Worth(bits, len, i, 10) = BitOf(v, 10) /\ Worth(bits, len, i, 11) = BitOf(v, 11)
  BY <1>1
<1> QED BY <1>2, BitsAddUp DEF unpackValue

\* Where the slots of a mask are.
LEMMA ActiveFinite ==
    ASSUME NEW mask, NEW S, S \subseteq Active(mask)
    PROVE  /\ IsFiniteSet(S) /\ IsFiniteSet(Active(mask)) /\ Cardinality(S) \in Nat
           /\ Cardinality(S) <= popcountMask(mask) /\ popcountMask(mask) \in 0..6
           /\ Cardinality(S) = popcountMask(mask) => S = Active(mask)
<1>1. IsFiniteSet(Slots) /\ Cardinality(Slots) = 6
  <2>1. Slots = 0..5 /\ 0 \in Int /\ 5 \in Int
    BY DEF Slots, kSlotCount
  <2>2. IsFiniteSet(0..5) /\ Cardinality(0..5) = IF 0 > 5 THEN 0 ELSE 5 - 0 + 1
    BY <2>1, FS_Interval
  <2> QED BY <2>1, <2>2
<1>2. /\ IsFiniteSet(Active(mask)) /\ Cardinality(Active(mask)) <= 6
      /\ Cardinality(Active(mask)) \in Nat
  BY <1>1, FS_Subset, FS_CardinalityType, Active(mask) \subseteq Slots DEF Active
<1>3. /\ IsFiniteSet(S) /\ Cardinality(S) \in Nat /\ Cardinality(S) <= Cardinality(Active(mask))
      /\ Cardinality(S) = Cardinality(Active(mask)) => S = Active(mask)
  BY <1>2, FS_Subset, FS_CardinalityType
<1> QED BY <1>2, <1>3 DEF popcountMask

LEMMA IndexType ==
    ASSUME NEW mask, NEW n \in Active(mask)
    PROVE  Index(mask, n) \in 0..(popcountMask(mask) - 1) /\ n \in 0..5
<1> DEFINE S == {s \in Active(mask) : s < n}
<1>1. S \subseteq Active(mask) /\ n \in 0..5
  BY DEF Active, Slots, kSlotCount
<1>2. n \notin S
  BY <1>1
<1>3. Cardinality(S) # popcountMask(mask)
  BY <1>1, <1>2, ActiveFinite
<1> QED BY <1>1, <1>3, ActiveFinite DEF Index

LEMMA IndexGrows ==
    ASSUME NEW mask, NEW m \in Active(mask), NEW n \in Active(mask), m < n
    PROVE  Index(mask, m) < Index(mask, n)
<1> DEFINE S == {s \in Active(mask) : s < m}
           T == {s \in Active(mask) : s < n}
<1>1. m \in 0..5 /\ n \in 0..5 /\ \A s \in Active(mask) : s \in 0..5
  BY DEF Active, Slots, kSlotCount
<1>2. S \subseteq T /\ m \in T /\ m \notin S /\ S \subseteq Active(mask) /\ T \subseteq Active(mask)
  <2>1. ASSUME NEW s \in S PROVE s \in T
    <3>1. s \in Active(mask) /\ s < m /\ s \in 0..5
      BY <1>1
    <3>2. s < n
      BY <1>1, <3>1
    <3> QED BY <3>1, <3>2
  <2>2. m \in T
    OBVIOUS
  <2>3. m \notin S
    BY <1>1
  <2> QED BY <2>1, <2>2, <2>3
<1>3. IsFiniteSet(T) /\ Cardinality(S) \in Nat /\ Cardinality(T) \in Nat
  BY <1>2, ActiveFinite
<1> HIDE DEF S, T
<1>4. Cardinality(S) <= Cardinality(T) /\ Cardinality(S) # Cardinality(T)
  BY <1>2, <1>3, FS_Subset
<1> QED BY <1>3, <1>4 DEF Index, S, T

\* No two bits of a frame share their place.
LEMMA OffsetsApart ==
    ASSUME NEW mask, NEW m \in Active(mask), NEW n \in Active(mask),
           NEW b \in Bits, NEW c \in Bits,
           12 * Index(mask, m) + b = 12 * Index(mask, n) + c
    PROVE  m = n /\ b = c
<1>1. /\ Index(mask, m) \in Nat /\ Index(mask, n) \in Nat /\ m \in 0..5 /\ n \in 0..5
      /\ b \in 0..11 /\ c \in 0..11
  BY IndexType, ActiveFinite DEF Bits
<1>2. Index(mask, m) = Index(mask, n) /\ b = c
  BY <1>1
<1>3. ~(m < n) /\ ~(n < m)
  BY <1>1, <1>2, IndexGrows
<1> QED BY <1>1, <1>2, <1>3

\* What a frame needs of the buffer, and what it holds.
LEMMA LengthOfMask ==
    ASSUME NEW mask
    PROVE  /\ packedByteLengthForMask(mask) \in 0..kPackedByteLength
           /\ 12 * popcountMask(mask) <= 8 * packedByteLengthForMask(mask)
<1>1. popcountMask(mask) \in 0..6
  BY ActiveFinite, {} \subseteq Active(mask)
<1> QED BY <1>1 DEF packedByteLengthForMask, kPackedByteLength

LEMMA PackedBits ==
    ASSUME NEW mask, NEW slots, NEW capacity \in Nat, kPackedByteLength <= capacity,
           NEW n \in Active(mask), NEW bit \in Bits
    PROVE  LET len == packedByteLengthForMask(mask)
               bytes == packMaskedSlots12Bit(mask, slots, {}, capacity) \cap 0..(8 * len - 1)
           IN  Worth(bytes, len, Index(mask, n), bit) = BitOf(slots[n], bit)
<1> DEFINE len == packedByteLengthForMask(mask)
           bytes == packMaskedSlots12Bit(mask, slots, {}, capacity) \cap 0..(8 * len - 1)
           o == 12 * Index(mask, n) + bit
<1>1. o \in 0..(8 * len - 1) /\ o \in 0..(8 * capacity - 1) /\ o < 8 * len
  <2>1. Index(mask, n) \in 0..(popcountMask(mask) - 1) /\ popcountMask(mask) \in 0..6
    BY IndexType, ActiveFinite, {} \subseteq Active(mask)
  <2>2. len \in 0..9 /\ 12 * popcountMask(mask) <= 8 * len
    BY LengthOfMask DEF kPackedByteLength
  <2> HIDE DEF len
  <2> QED BY <2>1, <2>2 DEF Bits, kPackedByteLength
<1>2. o \in bytes <=> IsSet(slots[n], bit)
  <2>1. ASSUME o \in bytes PROVE IsSet(slots[n], bit)
    <3>1. PICK m \in Active(mask), b \in Bits :
             o = 12 * Index(mask, m) + b /\ IsSet(slots[m], b)
      BY <2>1 DEF packMaskedSlots12Bit
    <3>2. m = n /\ b = bit
      BY <3>1, OffsetsApart
    <3> QED BY <3>1, <3>2
  <2>2. ASSUME IsSet(slots[n], bit) PROVE o \in bytes
    BY <1>1, <2>2 DEF packMaskedSlots12Bit
  <2> QED BY <2>1, <2>2
<1> HIDE DEF len, bytes
<1>3. Worth(bytes, len, Index(mask, n), bit) = BitOf(slots[n], bit)
  BY <1>1, <1>2 DEF Worth, BitOf
<1> QED BY <1>3 DEF len, bytes

LEMMA MergedType ==
    ASSUME NEW merge \in Sessions, NEW payload, NEW ids \in SUBSET (0..255),
           payload \in [ids -> Int]
    PROVE  /\ mergePayload(merge, payload) \in Sessions
           /\ maskFromPayload(payload) \in SUBSET Slots
<1> DEFINE mask == maskFromPayload(payload)
<1>1. mask \in SUBSET Slots
  BY DEF maskFromPayload
<1>2. ASSUME NEW n \in mask PROVE payload[n + 1] \in Int
  BY <1>2 DEF maskFromPayload
<1>3. ASSUME NEW n \in mask PROVE clampStsPosition(payload[n + 1]) \in 0..kMaxPosition
  <2> DEFINE position == payload[n + 1]
  <2>1. position \in Int
    BY <1>2
  <2> HIDE DEF position
  <2>2. clampStsPosition(position) \in 0..kMaxPosition
    BY <2>1 DEF clampStsPosition, kMaxPosition
  <2> QED BY <2>2 DEF position
<1>4. /\ merge.slots \in [Slots -> 0..kMaxPosition] /\ merge.known \in SUBSET Slots
  BY DEF Sessions
<1> HIDE DEF mask
<1>5. [n \in Slots |-> IF n \in mask THEN clampStsPosition(payload[n + 1]) ELSE merge.slots[n]]
         \in [Slots -> 0..kMaxPosition]
  BY <1>3, <1>4
<1>6. merge.known \cup mask \in SUBSET Slots
  BY <1>1, <1>4
<1> QED BY <1>1, <1>5, <1>6 DEF mergePayload, Sessions, mask

\* What the slots of a mask are packed to is what the receiver unpacks.
LEMMA Unpacked ==
    ASSUME NEW mask, NEW slots \in [Slots -> 0..kMaxPosition], NEW old,
           NEW capacity \in Nat, kPackedByteLength <= capacity
    PROVE  LET len == packedByteLengthForMask(mask)
               bytes == packMaskedSlots12Bit(mask, slots, {}, capacity) \cap 0..(8 * len - 1)
           IN  \A n \in Active(mask) :
                   unpackMaskedSlots12Bit(mask, bytes, len, old)[n] = slots[n]
<1> DEFINE len == packedByteLengthForMask(mask)
           bytes == packMaskedSlots12Bit(mask, slots, {}, capacity) \cap 0..(8 * len - 1)
<1>1. SUFFICES ASSUME NEW n \in Active(mask)
               PROVE  unpackMaskedSlots12Bit(mask, bytes, len, old)[n] = slots[n]
  OBVIOUS
<1>2. \A bit \in Bits : Worth(bytes, len, Index(mask, n), bit) = BitOf(slots[n], bit)
  BY PackedBits
<1>3. n \in Slots /\ n \in mask /\ slots[n] \in 0..kMaxPosition
  BY DEF Active
<1> HIDE DEF len, bytes
<1>4. unpackValue(bytes, len, Index(mask, n)) = slots[n]
  BY <1>2, <1>3, ValueRead
<1> QED BY <1>3, <1>4 DEF unpackMaskedSlots12Bit

LEMMA ControlByte ==
    ASSUME NEW speedPct \in 0..255, NEW keyframe \in BOOLEAN
    PROVE  /\ decodeSpeedPct(encodeControlByte(speedPct, keyframe))
                = (IF speedPct > 100 THEN 100 ELSE speedPct)
           /\ decodeKeyframeFlag(encodeControlByte(speedPct, keyframe)) = keyframe
<1> DEFINE speed == IF speedPct > 100 THEN 100 ELSE speedPct
<1>1. speed \in 0..100
  OBVIOUS
<1> HIDE DEF speed
<1>2. encodeControlByte(speedPct, keyframe) = speed + (IF keyframe THEN 128 ELSE 0)
  BY <1>1 DEF encodeControlByte, speed
<1>3. CASE keyframe
  <2>1. /\ encodeControlByte(speedPct, keyframe) = speed + 128
        /\ (speed + 128) % 128 = speed /\ speed + 128 >= 128
    BY <1>1, <1>2, <1>3
  <2> QED BY <1>3, <2>1 DEF decodeSpeedPct, decodeKeyframeFlag, speed
<1>4. CASE ~keyframe
  BY <1>1, <1>2, <1>4 DEF decodeSpeedPct, decodeKeyframeFlag, speed
<1> QED BY <1>3, <1>4

\* Between a sender and a receiver of any sessions a turbo frame loses
\* nothing of the positions it is for, clamped.  The buffer has to be empty,
\* as the transport declares it, for the code's packing adds bits and never
\* clears one, and its room beside the header has to fit the byte it is
\* counted in.
THEOREM TurboFramesCarry ==
    \A ids \in SUBSET (0..255), sender \in Sessions, receiver \in Sessions,
       speedPct \in 0..255, keyframe \in BOOLEAN, capacity \in 0..(kTurboHeaderV2Size + 255) :
        \A payload \in [ids -> Int] :
            Carries(payload, speedPct, sender, keyframe, capacity, receiver)
<1> SUFFICES ASSUME NEW ids \in SUBSET (0..255), NEW sender \in Sessions,
                    NEW receiver \in Sessions, NEW speedPct \in 0..255,
                    NEW keyframe \in BOOLEAN,
                    NEW capacity \in 0..(kTurboHeaderV2Size + 255),
                    NEW payload \in [ids -> Int]
             PROVE  Carries(payload, speedPct, sender, keyframe, capacity, receiver)
  OBVIOUS
<1> DEFINE merged == mergePayload(sender, payload)
           mask == IF keyframe THEN merged.known ELSE maskFromPayload(payload)
           len == packedByteLengthForMask(mask)
           room == (capacity - kTurboHeaderV2Size) % 256
           bytes == packMaskedSlots12Bit(mask, merged.slots, {}, room) \cap 0..(8 * len - 1)
           frame == encodeWithSession(payload, speedPct, sender, keyframe, {}, capacity)
           slots == unpackMaskedSlots12Bit(mask, bytes, len, receiver.slots)
           decoded == decodeWithSession(frame, receiver)
<1>1. SUFFICES ASSUME frame.sent
               PROVE  /\ frame.len <= kTurboMaxWireSize
                      /\ decoded.taken
                      /\ decoded.payload = buildApplyPayload(merged.slots, frame.mask)
                      /\ maskFromPayload(payload) \subseteq frame.mask
                      /\ decoded.speedPct = IF speedPct > 100 THEN 100 ELSE speedPct
                      /\ keyframe => /\ decoded.session.known = merged.known
                                     /\ \A n \in merged.known :
                                            decoded.session.slots[n] = merged.slots[n]
  BY DEF Carries
<1>2. /\ merged \in Sessions /\ merged.slots \in [Slots -> 0..kMaxPosition]
      /\ merged.known \in SUBSET Slots /\ mask \in SUBSET Slots
      /\ maskFromPayload(payload) \subseteq mask
  <2>1. /\ merged \in Sessions /\ maskFromPayload(payload) \in SUBSET Slots
    BY MergedType
  <2>2. merged.known = sender.known \cup maskFromPayload(payload)
    BY DEF mergePayload
  <2> QED BY <2>1, <2>2 DEF Sessions
<1>3. /\ frame.mask = mask /\ frame.control = encodeControlByte(speedPct, keyframe)
      /\ frame.bytes = bytes /\ frame.len = kTurboHeaderV2Size + len
      /\ mask # {} /\ capacity >= kTurboMaxWireSize
  BY <1>1 DEF encodeWithSession
<1>4. len \in 0..kPackedByteLength
  BY LengthOfMask
<1>5. room \in Nat /\ kPackedByteLength <= room
  BY <1>3 DEF kTurboMaxWireSize, kTurboHeaderV2Size, kPackedByteLength
<1>6. \A n \in Active(mask) : slots[n] = merged.slots[n]
  BY <1>2, <1>5, Unpacked
<1>7. Active(mask) = mask
  BY <1>2 DEF Active
<1> HIDE DEF merged, mask, len, bytes, frame, room
<1>8. frame.len - kTurboHeaderV2Size = len /\ frame.len <= kTurboMaxWireSize
  BY <1>3, <1>4 DEF kTurboMaxWireSize, kTurboHeaderV2Size, kPackedByteLength
<1>9. isTeleopEspNowTurboPacket(frame)
  BY <1>3 DEF isTeleopEspNowTurboPacket, len
<1>10. /\ decoded.taken = (Active(mask) # {})
       /\ decoded.session.slots = slots
       /\ decoded.session.known = IF decodeKeyframeFlag(frame.control) THEN mask
                                  ELSE receiver.known \cup mask
       /\ decoded.payload = buildApplyPayload(slots, mask)
       /\ decoded.speedPct = decodeSpeedPct(frame.control)
  BY <1>3, <1>8, <1>9 DEF decodeWithSession
<1> HIDE DEF slots, decoded
<1>11. decoded.taken
  BY <1>3, <1>7, <1>10
<1>12. decoded.payload = buildApplyPayload(merged.slots, frame.mask)
  <2>1. ASSUME NEW id \in {n + 1 : n \in Active(mask)} PROVE slots[id - 1] = merged.slots[id - 1]
    <3>1. PICK n \in Active(mask) : id = n + 1
      BY <2>1
    <3>2. id - 1 = n
      BY <3>1 DEF Active, Slots, kSlotCount
    <3> QED BY <1>6, <3>2
  <2> QED BY <1>3, <1>10, <2>1 DEF buildApplyPayload
<1>13. decoded.speedPct = IF speedPct > 100 THEN 100 ELSE speedPct
  BY <1>3, <1>10, ControlByte
<1>14. keyframe => /\ decoded.session.known = merged.known
                   /\ \A n \in merged.known : decoded.session.slots[n] = merged.slots[n]
  BY <1>3, <1>6, <1>7, <1>10, ControlByte DEF mask
<1> QED BY <1>2, <1>3, <1>8, <1>11, <1>12, <1>13, <1>14

=============================================================================
