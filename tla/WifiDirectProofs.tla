--------------------------- MODULE WifiDirectProofs ---------------------------
(***************************************************************************)
(* Proofs about WifiDirect, for every number of sessions and attempts and  *)
(* every choice of faults:                                                 *)
(*   TypeCorrect          Spec => []TypeOK                                 *)
(*   ReadyWasAckedHolds   teleoperation waits for the follower to have     *)
(*                        joined                                           *)
(* The inductive invariant Traced follows an acknowledgement: those on the *)
(* air were sent, the address the leader noted came with one of the        *)
(* session it expects, and it expects the session it is in or none.        *)
(***************************************************************************)
EXTENDS WifiDirect, TLAPS

\* What the types rest on: whoever sends names a session, and a join that may
\* start has an attempt left.
Begun ==
    /\ engaged \/ resending => session # 0
    /\ connecting \/ staReady => credentials # 0
    /\ ~connecting => attempts < MaxAttempts

LEMMA TypeInit == Init => TypeOK /\ Begun
<1> SUFFICES ASSUME Init PROVE TypeOK /\ Begun
  OBVIOUS
<1>1. FlagsOK
  BY DEF Init, LeaderInit, FollowerInit, FlagsOK
<1>2. SessionsOK /\ ChannelsOK
  BY ConstantsAssumption
     DEF Init, LeaderInit, FollowerInit, SessionsOK, ChannelsOK, SessionOrNone
<1>3. Begun
  BY ConstantsAssumption DEF Init, LeaderInit, FollowerInit, Begun
<1> QED BY <1>1, <1>2, <1>3 DEF TypeOK

-----------------------------------------------------------------------------
(* The flags.                                                              *)

LEMMA FlagsReset == Reset => /\ pendingEnd' \in BOOLEAN /\ direct' \in BOOLEAN
                             /\ offerPending' \in BOOLEAN /\ staReady' \in BOOLEAN
                             /\ ackSent' \in BOOLEAN /\ connecting' \in BOOLEAN
                             /\ connected' \in BOOLEAN
BY DEF Reset, SessionInactive

LEMMA FlagsStep == FlagsOK /\ [Next]_vars => FlagsOK'
<1> SUFFICES ASSUME FlagsOK, [Next]_vars PROVE FlagsOK'
  OBVIOUS
<1> USE DEF FlagsOK, appVars, sessionVars, leaderPresence, leaderVars, inbox, ids, link, radio,
       followerVars
<1>1. ASSUME NEW up \in BOOLEAN, NEW sent \in BOOLEAN, engageWifiDirectLink(up, sent)
      PROVE  FlagsOK'
  BY <1>1 DEF engageWifiDirectLink
<1>2. CASE StartTeleop
  BY <1>2 DEF StartTeleop
<1>3. ASSUME NEW sent \in BOOLEAN, disengageWifiDirectLink(sent) PROVE FlagsOK'
  BY <1>3 DEF disengageWifiDirectLink
<1>4. CASE SeeAck
  BY <1>4 DEF SeeAck
<1>5. CASE SeeNoAck
  BY <1>5 DEF SeeNoAck
<1>6. ASSUME NEW sent \in BOOLEAN, NEW timedOut \in BOOLEAN, Resend(sent, timedOut)
      PROVE  FlagsOK'
  BY <1>6 DEF Resend
<1>7. CASE handleWifiDirectAck
  BY <1>7 DEF handleWifiDirectAck
<1>8. CASE LeaderRestart
  BY <1>8 DEF LeaderRestart
<1>9. CASE HandleSessionEnd
  <2>1. CASE activeId \in {0, Head(toFollower).session}
    BY <1>9, <2>1 DEF HandleSessionEnd
  <2>2. CASE ~(activeId \in {0, Head(toFollower).session})
    BY <1>9, <2>2 DEF HandleSessionEnd
  <2> QED BY <2>1, <2>2
<1>10. CASE HandleOffer
  <2>1. CASE KnownOffer(Head(toFollower).session)
    BY <1>10, <2>1 DEF HandleOffer
  <2>2. CASE ~KnownOffer(Head(toFollower).session)
    BY <1>10, <2>2 DEF HandleOffer
  <2> QED BY <2>1, <2>2
<1>11. CASE LandOffer
  BY <1>11 DEF LandOffer
<1>12. CASE ObeySessionEnd
  BY <1>12, FlagsReset DEF ObeySessionEnd
<1>13. CASE TakeOffer
  <2>1. CASE pendingOffer /\ shouldAcceptOffer(pendingCredentials)
    BY <1>13, <2>1 DEF TakeOffer
  <2>2. CASE ~(pendingOffer /\ shouldAcceptOffer(pendingCredentials))
    <3>1. UNCHANGED <<ids, link>>
      BY <1>13, <2>2 DEF TakeOffer
    <3>2. /\ direct' \in BOOLEAN /\ offerPending' \in BOOLEAN /\ staReady' \in BOOLEAN
          /\ ackSent' \in BOOLEAN /\ connecting' \in BOOLEAN
      BY <3>1
    <3>3. pendingOffer' \in BOOLEAN /\ pendingEnd' \in BOOLEAN /\ connected' \in BOOLEAN
      BY <1>13 DEF TakeOffer
    <3>4. UNCHANGED <<engaged, teleop, offerSent, overdue, resending, followerReady>>
      BY <1>13 DEF TakeOffer
    <3> QED BY <3>2, <3>3, <3>4
  <2> QED BY <2>1, <2>2
<1>14. CASE LoseAccessPoint
  BY <1>14, FlagsReset DEF LoseAccessPoint
<1>15. CASE BeginStation
  BY <1>15 DEF BeginStation
<1>16. CASE JoinTimeout
  BY <1>16, FlagsReset DEF JoinTimeout
<1>17. CASE NothingToDo
  BY <1>17 DEF NothingToDo
<1>18. ASSUME NEW sent \in BOOLEAN, AckAgain(sent) PROVE FlagsOK'
  BY <1>18 DEF AckAgain, trySendAck
<1>19. ASSUME NEW sent \in BOOLEAN, Join(sent) PROVE FlagsOK'
  BY <1>19 DEF Join, trySendAck
<1>20. CASE Settle
  <2>1. CASE linkActive
    BY <1>20, <2>1 DEF Settle
  <2>2. CASE ~linkActive
    BY <1>20, <2>2 DEF Settle, SessionInactive
  <2> QED BY <2>1, <2>2
<1>21. CASE FollowerRestart
  BY <1>21 DEF FollowerRestart, SessionInactive
<1>22. CASE Associate
  BY <1>22 DEF Associate
<1>23. CASE Disassociate
  <2>1. connected' \in BOOLEAN /\ UNCHANGED <<leaderVars, inbox, direct, link>>
    BY <1>23 DEF Disassociate
  <2> QED BY <2>1
<1>24. CASE Lose
  <2>1. UNCHANGED <<leaderVars, followerVars>>
    BY <1>24 DEF Lose
  <2> QED BY <2>1
<1>25. CASE UNCHANGED vars
  BY <1>25 DEF vars
<1> QED
  BY <1>1, <1>2, <1>3, <1>4, <1>5, <1>6, <1>7, <1>8, <1>9, <1>10, <1>11, <1>12, <1>13, <1>14,
     <1>15, <1>16, <1>17, <1>18, <1>19, <1>20, <1>21, <1>22, <1>23, <1>24, <1>25
     DEF Next, User, LeaderTick, FollowerCallback, FollowerTick, Radio

-----------------------------------------------------------------------------
(* The sessions.  Each step first says what the action does to them.       *)

LEMMA FaultType == ASSUME SessionsOK, NEW k, Fault(k) PROVE faults' \in 0..MaxFaults
BY ConstantsAssumption DEF SessionsOK, Fault

LEMMA BarringType ==
    ASSUME SessionsOK, NEW k, NEW ok, Barring(ok, k) PROVE faults' \in 0..MaxFaults
BY FaultType DEF Barring, SessionsOK

leaderIds == <<session, accessPoint, expected, ackIp>>
followerIds == <<pendingCredentials, landing, activeId, joinId, credentials, attempts, station>>
begun == <<engaged, resending, connecting, staReady>>

LEMMA IdsKept ==
    ASSUME SessionsOK, Begun, UNCHANGED <<leaderIds, followerIds, begun, acked>>,
           faults' \in 0..MaxFaults, fpc' \in {"end", "offer", "link", "settle"}
    PROVE  SessionsOK' /\ Begun'
BY DEF SessionsOK, Begun, leaderIds, followerIds, begun

LEMMA LeaderSide ==
    ASSUME SessionsOK, Begun, UNCHANGED <<followerIds, connecting, staReady, acked, fpc>>,
           session' \in {session, session + 1}, session' # session => session < MaxSessions,
           accessPoint' \in {0, accessPoint, session'}, expected' \in {0, expected, session'},
           ackIp' \in SessionOrNone,
           engaged' \/ resending' => session' # 0,
           faults' \in 0..MaxFaults
    PROVE  SessionsOK' /\ Begun'
BY ConstantsAssumption DEF SessionsOK, Begun, followerIds, SessionOrNone

\* What any step of the follower may do to the sessions it holds.
LEMMA FollowerSide ==
    ASSUME SessionsOK, Begun, UNCHANGED <<leaderIds, engaged, resending>>,
           pendingCredentials' \in SessionOrNone, landing' \in SessionOrNone,
           activeId' \in SessionOrNone, joinId' \in SessionOrNone,
           credentials' \in SessionOrNone, station' \in SessionOrNone,
           attempts' \in 0..MaxAttempts,
           connecting' \/ staReady' => credentials' # 0,
           ~connecting' => attempts' < MaxAttempts,
           acked' \in SUBSET Session,
           faults' \in 0..MaxFaults, fpc' \in {"end", "offer", "link", "settle"}
    PROVE  SessionsOK' /\ Begun'
BY DEF SessionsOK, Begun, leaderIds

LEMMA Received ==
    ASSUME ChannelsOK, toFollower # <<>>
    PROVE  /\ Head(toFollower).session \in Session
           /\ Tail(toFollower) \in Seq(Frame) /\ Len(Tail(toFollower)) <= Capacity
<1>1. Head(toFollower) \in Frame
  BY DEF ChannelsOK
<1>2. Tail(toFollower) \in Seq(Frame) /\ Len(Tail(toFollower)) <= Capacity
  BY ConstantsAssumption DEF ChannelsOK
<1> QED BY <1>1, <1>2 DEF Frame

LEMMA ReceivedAck ==
    ASSUME ChannelsOK, toLeader # <<>>
    PROVE  /\ Head(toLeader) \in Session
           /\ Tail(toLeader) \in Seq(Session) /\ Len(Tail(toLeader)) <= Capacity
BY ConstantsAssumption DEF ChannelsOK

LEMMA LeaderIdsStep ==
    ASSUME SessionsOK, ChannelsOK, Begun,
           User \/ LeaderTick \/ handleWifiDirectAck \/ LeaderRestart
    PROVE  SessionsOK' /\ Begun'
<1> USE DEF leaderIds, followerIds, begun, appVars, sessionVars, leaderPresence, inbox, ids,
       link, radio, followerVars
<1>1. ASSUME NEW up \in BOOLEAN, NEW sent \in BOOLEAN, engageWifiDirectLink(up, sent)
      PROVE  SessionsOK' /\ Begun'
  <2>1. /\ session' = session + 1 /\ session < MaxSessions
        /\ accessPoint' \in {0, session'} /\ expected' \in {0, session'} /\ ackIp' = 0
        /\ UNCHANGED <<followerIds, connecting, staReady, acked, fpc>>
    BY <1>1 DEF engageWifiDirectLink, sendWifiDirectOffer
  <2>2. faults' \in 0..MaxFaults
    BY <1>1, BarringType, FaultType DEF engageWifiDirectLink
  <2>3. session' # 0 /\ ackIp' \in SessionOrNone
    BY <2>1, ConstantsAssumption DEF SessionsOK, SessionOrNone
  <2> QED BY <2>1, <2>2, <2>3, LeaderSide
<1>2. CASE StartTeleop \/ SeeAck
  <2>1. /\ UNCHANGED <<leaderIds, followerIds, begun, acked, fpc, faults>>
    BY <1>2 DEF StartTeleop, SeeAck
  <2> QED BY <2>1, IdsKept DEF SessionsOK
<1>3. ASSUME NEW sent \in BOOLEAN, disengageWifiDirectLink(sent)
      PROVE  SessionsOK' /\ Begun'
  <2>1. /\ UNCHANGED <<session, followerIds, connecting, staReady, acked, fpc>>
        /\ accessPoint' = 0 /\ expected' = 0 /\ ackIp' = 0
        /\ ~engaged' /\ ~resending'
    BY <1>3 DEF disengageWifiDirectLink
  <2>2. faults' \in 0..MaxFaults
    BY <1>3, FaultType DEF disengageWifiDirectLink, SessionsOK
  <2>3. ackIp' \in SessionOrNone
    BY <2>1, ConstantsAssumption DEF SessionOrNone
  <2> QED BY <2>1, <2>2, <2>3, LeaderSide
<1>4. CASE SeeNoAck
  <2>1. /\ UNCHANGED <<leaderIds, followerIds, connecting, staReady, acked, fpc, faults>>
        /\ session # 0
    BY <1>4 DEF SeeNoAck, Begun
  <2>2. faults' \in 0..MaxFaults /\ ackIp' \in SessionOrNone
    BY <2>1 DEF SessionsOK
  <2> QED BY <2>1, <2>2, LeaderSide
<1>5. ASSUME NEW sent \in BOOLEAN, NEW timedOut \in BOOLEAN, Resend(sent, timedOut)
      PROVE  SessionsOK' /\ Begun'
  <2>1. /\ UNCHANGED <<session, accessPoint, followerIds, connecting, staReady, acked, fpc>>
        /\ expected' = session /\ ackIp' = 0 /\ session # 0
    BY <1>5 DEF Resend, sendWifiDirectOffer, Begun
  <2>2. faults' \in 0..MaxFaults
    BY <1>5, BarringType DEF Resend
  <2>3. ackIp' \in SessionOrNone
    BY <2>1, ConstantsAssumption DEF SessionOrNone
  <2> QED BY <2>1, <2>2, <2>3, LeaderSide
<1>6. CASE handleWifiDirectAck
  <2>1. /\ UNCHANGED <<session, accessPoint, expected, followerIds, begun, acked, fpc, faults>>
        /\ toLeader # <<>> /\ ackIp' \in {ackIp, Head(toLeader)}
    BY <1>6 DEF handleWifiDirectAck
  <2>2. faults' \in 0..MaxFaults /\ ackIp' \in SessionOrNone
    BY <2>1, ReceivedAck DEF SessionsOK, Session, SessionOrNone
  <2>3. engaged' \/ resending' => session' # 0
    BY <2>1 DEF Begun
  <2> QED BY <2>1, <2>2, <2>3, LeaderSide
<1>7. CASE LeaderRestart
  <2>1. /\ UNCHANGED <<session, followerIds, connecting, staReady, acked, fpc>>
        /\ accessPoint' = 0 /\ expected' = 0 /\ ackIp' = 0
        /\ ~engaged' /\ ~resending'
    BY <1>7 DEF LeaderRestart
  <2>2. faults' \in 0..MaxFaults
    BY <1>7, FaultType DEF LeaderRestart
  <2>3. ackIp' \in SessionOrNone
    BY <2>1, ConstantsAssumption DEF SessionOrNone
  <2> QED BY <2>1, <2>2, <2>3, LeaderSide
<1> QED BY <1>1, <1>2, <1>3, <1>4, <1>5, <1>6, <1>7 DEF User, LeaderTick

LEMMA ResetIds ==
    ASSUME Reset, SessionsOK
    PROVE  /\ activeId' = 0 /\ joinId' = 0 /\ credentials' = 0 /\ station' = 0
           /\ 0 \in SessionOrNone /\ attempts' \in 0..MaxAttempts /\ attempts' < MaxAttempts
           /\ ~connecting' /\ ~staReady'
<1>1. /\ activeId' = 0 /\ joinId' = 0 /\ credentials' = 0 /\ station' = 0 /\ attempts' = 0
      /\ ~connecting' /\ ~staReady'
  BY DEF Reset, SessionInactive
<1> QED BY <1>1, ConstantsAssumption DEF SessionOrNone

LEMMA FollowerIdsStep ==
    ASSUME SessionsOK, ChannelsOK, Begun,
           FollowerCallback \/ FollowerTick \/ FollowerRestart \/ Radio
    PROVE  SessionsOK' /\ Begun'
<1> USE DEF leaderIds, followerIds, begun, appVars, sessionVars, leaderPresence, leaderVars,
       inbox, ids, link, radio, followerVars
<1>0. Session \subseteq SessionOrNone /\ 0 \in SessionOrNone
  BY ConstantsAssumption DEF Session, SessionOrNone
<1>1. CASE HandleSessionEnd \/ HandleOffer
  <2>1. /\ UNCHANGED <<leaderIds, begun, pendingCredentials, activeId, joinId, credentials,
                       attempts, station, acked, fpc, faults>>
        /\ toFollower # <<>>
        /\ landing' \in {landing, Head(toFollower).session}
    BY <1>1 DEF HandleSessionEnd, HandleOffer
  <2>2. landing' \in SessionOrNone
    BY <2>1, <1>0, Received DEF SessionsOK
  <2> HIDE DEF leaderIds, followerIds
  <2> QED BY <2>1, <2>2, FollowerSide DEF SessionsOK, Begun
<1>2. CASE LandOffer
  <2>1. /\ UNCHANGED <<leaderIds, begun, joinId, credentials, attempts, station, acked, fpc,
                       faults>>
        /\ pendingCredentials' = landing /\ activeId' = landing /\ landing' = 0
    BY <1>2 DEF LandOffer
  <2> QED BY <2>1, <1>0, FollowerSide DEF SessionsOK, Begun
<1>3. CASE ObeySessionEnd
  <2>1. /\ UNCHANGED <<leaderIds, engaged, resending, pendingCredentials, landing, acked,
                       faults>>
        /\ fpc' = "offer"
        /\ Reset \/ UNCHANGED <<followerIds, begun>>
    BY <1>3 DEF ObeySessionEnd, Step
  <2>2. CASE Reset
    BY <2>1, <2>2, ResetIds, FollowerSide DEF SessionsOK
  <2>3. CASE UNCHANGED <<followerIds, begun>>
    BY <2>1, <2>3, IdsKept DEF SessionsOK
  <2> QED BY <2>1, <2>2, <2>3
<1>4. CASE TakeOffer
  <2>1. /\ UNCHANGED <<leaderIds, engaged, resending, pendingCredentials, landing, station,
                       acked, faults>>
        /\ fpc' = "link"
    BY <1>4 DEF TakeOffer, Step
  <2>2. \/ /\ credentials' = pendingCredentials /\ joinId' = pendingCredentials
           /\ activeId' = pendingCredentials /\ attempts' = 0
           /\ ~connecting' /\ ~staReady'
        \/ UNCHANGED <<activeId, joinId, credentials, attempts, connecting, staReady>>
    BY <1>4 DEF TakeOffer
  <2>3. CASE UNCHANGED <<activeId, joinId, credentials, attempts, connecting, staReady>>
    BY <2>1, <2>3, IdsKept DEF SessionsOK
  <2>4. CASE /\ credentials' = pendingCredentials /\ joinId' = pendingCredentials
             /\ activeId' = pendingCredentials /\ attempts' = 0
             /\ ~connecting' /\ ~staReady'
    <3>1. attempts' \in 0..MaxAttempts /\ attempts' < MaxAttempts
      BY <2>4, ConstantsAssumption
    <3> QED BY <2>1, <2>4, <3>1, FollowerSide DEF SessionsOK
  <2> QED BY <2>2, <2>3, <2>4
<1>5. CASE LoseAccessPoint
  <2>1. /\ UNCHANGED <<leaderIds, engaged, resending, pendingCredentials, landing, acked,
                       faults>>
        /\ fpc' = "settle" /\ Reset
    BY <1>5 DEF LoseAccessPoint, TickLink, Step
  <2> QED BY <2>1, ResetIds, FollowerSide DEF SessionsOK
<1>6. CASE BeginStation
  <2>1. /\ UNCHANGED <<leaderIds, engaged, resending, pendingCredentials, landing, activeId,
                       credentials, staReady, acked, faults>>
        /\ fpc' = "settle" /\ ~connecting /\ joinId' \in {0, joinId}
    BY <1>6 DEF BeginStation, TickLink, Step
  <2>2. \/ station' = credentials /\ connecting' /\ attempts' = attempts + 1 /\ credentials # 0
        \/ UNCHANGED <<station, connecting, attempts>>
    BY <1>6 DEF BeginStation
  <2>3. attempts < MaxAttempts
    BY <2>1 DEF Begun
  <2>4. attempts' \in 0..MaxAttempts /\ station' \in SessionOrNone
    BY <2>1, <2>2, <2>3, ConstantsAssumption DEF SessionsOK
  <2>5. /\ connecting' \/ staReady' => credentials' # 0
        /\ ~connecting' => attempts' < MaxAttempts
    BY <2>1, <2>2, <2>3 DEF Begun
  <2>6. joinId' \in SessionOrNone
    BY <2>1, <1>0 DEF SessionsOK
  <2> QED BY <2>1, <2>4, <2>5, <2>6, FollowerSide DEF SessionsOK
<1>7. CASE JoinTimeout
  <2>1. /\ UNCHANGED <<leaderIds, engaged, resending, pendingCredentials, landing, acked>>
        /\ fpc' = "settle"
    BY <1>7 DEF JoinTimeout, TickLink, Step
  <2>2. faults' \in 0..MaxFaults
    BY <1>7, BarringType DEF JoinTimeout
  <2>3. CASE Reset
    BY <2>1, <2>2, <2>3, ResetIds, FollowerSide DEF SessionsOK
  <2>4. CASE ~LastAttempt
    <3>1. /\ UNCHANGED <<activeId, joinId, credentials, attempts, staReady>>
          /\ station' = 0 /\ ~connecting' /\ ~staReady
      BY <1>7, <2>4 DEF JoinTimeout
    <3>2. attempts' < MaxAttempts /\ attempts' \in 0..MaxAttempts
      BY <2>4, <3>1, ConstantsAssumption DEF LastAttempt, SessionsOK
    <3> QED BY <2>1, <2>2, <3>1, <3>2, <1>0, FollowerSide DEF SessionsOK
  <2> QED BY <1>7, <2>3, <2>4 DEF JoinTimeout
<1>8. CASE NothingToDo
  <2>1. UNCHANGED <<leaderIds, followerIds, begun, acked, faults>> /\ fpc' = "settle"
    BY <1>8 DEF NothingToDo, TickLink, Step
  <2> QED BY <2>1, IdsKept DEF SessionsOK
<1>9. ASSUME NEW sent \in BOOLEAN, AckAgain(sent) \/ Join(sent)
      PROVE  SessionsOK' /\ Begun'
  <2>1. /\ UNCHANGED <<leaderIds, engaged, resending, pendingCredentials, landing, activeId,
                       joinId, credentials, station, connecting>>
        /\ fpc' = "settle" /\ (connecting \/ staReady)
        /\ attempts' = attempts \/ (attempts' = 0 /\ connecting)
        /\ acked' \in {acked, acked \cup {credentials}}
    BY <1>9 DEF AckAgain, Join, trySendAck, TickLink, Step
  <2>2. faults' \in 0..MaxFaults
    BY <1>9, BarringType DEF AckAgain, Join, trySendAck
  <2>3. credentials # 0 /\ credentials \in Session
    BY <2>1, ConstantsAssumption DEF Begun, SessionsOK, SessionOrNone, Session
  <2>4. acked' \in SUBSET Session
    BY <2>1, <2>3 DEF SessionsOK
  <2>5. attempts' \in 0..MaxAttempts
    BY <2>1, ConstantsAssumption DEF SessionsOK
  <2>6. /\ connecting' \/ staReady' => credentials' # 0
        /\ ~connecting' => attempts' < MaxAttempts
    BY <2>1, <2>3 DEF Begun
  <2> QED BY <2>1, <2>2, <2>4, <2>5, <2>6, FollowerSide DEF SessionsOK
<1>10. CASE Settle
  <2>1. /\ UNCHANGED <<leaderIds, pendingCredentials, landing, credentials, attempts, station,
                       begun, acked, faults>>
        /\ fpc' = "end" /\ activeId' \in {0, activeId} /\ joinId' \in {0, joinId}
    BY <1>10 DEF Settle, Step, SessionInactive
  <2>2. activeId' \in SessionOrNone /\ joinId' \in SessionOrNone
    BY <2>1, <1>0 DEF SessionsOK
  <2> QED BY <2>1, <2>2, FollowerSide DEF SessionsOK, Begun
<1>11. CASE FollowerRestart
  <2>1. /\ UNCHANGED <<leaderIds, engaged, resending, acked>>
        /\ fpc' = "end" /\ pendingCredentials' = 0 /\ landing' = 0 /\ activeId' = 0
        /\ joinId' = 0 /\ credentials' = 0 /\ station' = 0 /\ attempts' = 0
        /\ ~connecting' /\ ~staReady'
    BY <1>11 DEF FollowerRestart, SessionInactive
  <2>2. faults' \in 0..MaxFaults
    BY <1>11, FaultType DEF FollowerRestart
  <2>3. attempts' \in 0..MaxAttempts /\ attempts' < MaxAttempts
    BY <2>1, ConstantsAssumption
  <2> QED BY <2>1, <2>2, <2>3, <1>0, FollowerSide DEF SessionsOK
<1>12. CASE Radio
  <2>1. UNCHANGED <<leaderIds, followerIds, begun, acked, fpc>>
    BY <1>12 DEF Radio, Associate, Disassociate, Lose
  <2>2. faults' \in 0..MaxFaults
    BY <1>12, BarringType, FaultType
       DEF Radio, Associate, Disassociate, Lose, SessionsOK
  <2> QED BY <2>1, <2>2, IdsKept DEF SessionsOK
<1> QED
  BY <1>1, <1>2, <1>3, <1>4, <1>5, <1>6, <1>7, <1>8, <1>9, <1>10, <1>11, <1>12
     DEF FollowerCallback, FollowerTick

-----------------------------------------------------------------------------
(* The frames on the air.                                                  *)

LEMMA ChannelsStep == TypeOK /\ Begun /\ [Next]_vars => ChannelsOK'
<1> SUFFICES ASSUME TypeOK, Begun, [Next]_vars PROVE ChannelsOK'
  OBVIOUS
<1>1. ASSUME NEW f \in Frame, Room, toFollower' = Append(toFollower, f), UNCHANGED toLeader
      PROVE  ChannelsOK'
  BY <1>1, ConstantsAssumption DEF TypeOK, ChannelsOK, Room
<1>2. ASSUME toFollower # <<>>, toFollower' = Tail(toFollower), UNCHANGED toLeader
      PROVE  ChannelsOK'
  BY <1>2, Received DEF TypeOK, ChannelsOK
<1>3. ASSUME toLeader # <<>>, toLeader' = Tail(toLeader), UNCHANGED toFollower
      PROVE  ChannelsOK'
  BY <1>3, ReceivedAck DEF TypeOK, ChannelsOK
<1>4. CASE UNCHANGED <<toFollower, toLeader>>
  BY <1>4 DEF TypeOK, ChannelsOK
<1>5. ASSUME NEW s \in SessionOrNone, s # 0
      PROVE  s \in Session /\ Offer(s) \in Frame /\ SessionEnd(s) \in Frame
  <2>1. s \in Session
    BY <1>5, ConstantsAssumption DEF SessionOrNone, Session
  <2> QED BY <2>1 DEF Offer, SessionEnd, Frame
<1>6. CASE User
  <2>1. ASSUME NEW up \in BOOLEAN, NEW sent \in BOOLEAN, engageWifiDirectLink(up, sent)
        PROVE  ChannelsOK'
    <3>0. session < MaxSessions
      BY <2>1 DEF engageWifiDirectLink
    <3>1. session + 1 \in SessionOrNone /\ session + 1 # 0
      BY <3>0, ConstantsAssumption DEF TypeOK, SessionsOK, SessionOrNone
    <3>2. UNCHANGED toLeader /\ Room
          /\ \/ UNCHANGED toFollower
             \/ toFollower' = Append(toFollower, Offer(session + 1))
      BY <2>1 DEF engageWifiDirectLink, sendWifiDirectOffer
    <3> QED BY <1>1, <1>4, <1>5, <3>1, <3>2
  <2>2. ASSUME NEW sent \in BOOLEAN, disengageWifiDirectLink(sent)
        PROVE  ChannelsOK'
    <3>1. UNCHANGED toLeader
          /\ \/ UNCHANGED toFollower
             \/ Room /\ expected # 0 /\ toFollower' = Append(toFollower, SessionEnd(expected))
      BY <2>2 DEF disengageWifiDirectLink
    <3> QED BY <1>1, <1>4, <1>5, <3>1 DEF TypeOK, SessionsOK
  <2> QED BY <1>6, <2>1, <2>2, <1>4 DEF User, StartTeleop
<1>7. CASE LeaderTick
  <2>1. ASSUME NEW sent \in BOOLEAN, NEW timedOut \in BOOLEAN, Resend(sent, timedOut)
        PROVE  ChannelsOK'
    <3>1. UNCHANGED toLeader /\ session # 0
          /\ \/ UNCHANGED toFollower
             \/ Room /\ toFollower' = Append(toFollower, Offer(session))
      BY <2>1 DEF Resend, sendWifiDirectOffer, Begun
    <3> QED BY <1>1, <1>4, <1>5, <3>1 DEF TypeOK, SessionsOK
  <2> QED BY <1>7, <2>1, <1>4 DEF LeaderTick, SeeAck, SeeNoAck
<1>8. CASE handleWifiDirectAck \/ LeaderRestart
  BY <1>8, <1>3, <1>4 DEF handleWifiDirectAck, LeaderRestart, followerVars
<1>9. CASE FollowerCallback
  BY <1>9, <1>2, <1>4 DEF FollowerCallback, HandleSessionEnd, HandleOffer, LandOffer
<1>10. CASE FollowerTick
  <2>1. ASSUME NEW sent \in BOOLEAN, AckAgain(sent) \/ Join(sent)
        PROVE  ChannelsOK'
    <3>1. UNCHANGED toFollower /\ credentials # 0
          /\ \/ UNCHANGED toLeader
             \/ Len(toLeader) < Capacity /\ toLeader' = Append(toLeader, credentials)
      BY <2>1 DEF AckAgain, Join, trySendAck, Begun
    <3>2. credentials \in Session
      BY <3>1, <1>5 DEF TypeOK, SessionsOK
    <3> QED BY <3>1, <3>2, ConstantsAssumption DEF TypeOK, ChannelsOK
  <2> QED
    BY <1>10, <2>1, <1>4 DEF FollowerTick, ObeySessionEnd, TakeOffer, LoseAccessPoint,
         BeginStation, JoinTimeout, NothingToDo, Settle
<1>11. CASE FollowerRestart
  <2>1. toFollower' = <<>> /\ UNCHANGED toLeader
    BY <1>11 DEF FollowerRestart
  <2> QED BY <2>1, ConstantsAssumption DEF TypeOK, ChannelsOK
<1>12. CASE Radio
  BY <1>12, <1>2, <1>3, <1>4 DEF Radio, Associate, Disassociate, Lose
<1>13. CASE UNCHANGED vars
  BY <1>13, <1>4 DEF vars
<1> QED
  BY <1>6, <1>7, <1>8, <1>9, <1>10, <1>11, <1>12, <1>13 DEF Next

LEMMA TypeStep == TypeOK /\ Begun /\ [Next]_vars => TypeOK' /\ Begun'
<1> SUFFICES ASSUME TypeOK, Begun, [Next]_vars PROVE TypeOK' /\ Begun'
  OBVIOUS
<1>1. SessionsOK' /\ Begun'
  <2>1. CASE Next
    BY <2>1, LeaderIdsStep, FollowerIdsStep DEF Next, TypeOK
  <2>2. CASE UNCHANGED vars
    BY <2>2, IdsKept DEF TypeOK, SessionsOK, vars, leaderIds, followerIds, begun, appVars,
         sessionVars, leaderPresence, leaderVars, inbox, ids, link, radio, followerVars
  <2> QED BY <2>1, <2>2
<1> QED BY <1>1, FlagsStep, ChannelsStep DEF TypeOK

\* For all values of the constants every variable keeps its type, and the
\* radio its bound (TypeOK).
THEOREM TypeCorrect == Spec => []TypeOK
<1> QED BY TypeInit, TypeStep, PTL DEF Spec

-----------------------------------------------------------------------------
Sent == {toLeader[i] : i \in DOMAIN toLeader}

Traced ==
    /\ Sent \subseteq acked
    /\ expected \in {0, session}
    /\ ackIp # 0 => ackIp = session /\ ackIp \in acked
    /\ ReadyWasAcked

LEMMA TracedInit == Init => Traced
BY DEF Init, LeaderInit, Traced, Sent, ReadyWasAcked

LEMMA SentReceived ==
    ASSUME TypeOK, toLeader # <<>>, toLeader' = Tail(toLeader)
    PROVE  Head(toLeader) \in Sent /\ Head(toLeader) # 0 /\ Sent' \subseteq Sent
<1>1. toLeader \in Seq(Session)
  BY DEF TypeOK, ChannelsOK
<1>2. Head(toLeader) \in Session /\ Head(toLeader) = toLeader[1] /\ 1 \in DOMAIN toLeader
  BY <1>1
<1>3. \A i \in DOMAIN toLeader' : i + 1 \in DOMAIN toLeader /\ toLeader'[i] = toLeader[i + 1]
  BY <1>1
<1>4. Sent' \subseteq Sent
  BY <1>3 DEF Sent
<1> QED BY <1>2, <1>4 DEF Sent, Session

LEMMA TracedAck ==
    ASSUME TypeOK, Traced, NEW sent, trySendAck(sent), UNCHANGED leaderVars
    PROVE  Traced'
<1>1. Sent' \subseteq acked' /\ acked \subseteq acked'
  <2>1. CASE toLeader' = Append(toLeader, credentials) /\ acked' = acked \cup {credentials}
    <3>1. \A i \in DOMAIN toLeader' : toLeader'[i] = credentials \/ toLeader'[i] \in Sent
      BY <2>1 DEF TypeOK, ChannelsOK, Sent
    <3>2. Sent' \subseteq Sent \cup {credentials}
      BY <3>1 DEF Sent
    <3> QED BY <2>1, <3>2 DEF Traced
  <2>2. CASE UNCHANGED <<toLeader, acked>>
    BY <2>2 DEF Traced, Sent
  <2> QED BY <2>1, <2>2 DEF trySendAck
<1> QED
  BY <1>1 DEF Traced, ReadyWasAcked, leaderVars, sessionVars, leaderPresence

LEMMA TracedKept ==
    ASSUME Traced, UNCHANGED <<leaderVars, toLeader, acked>>
    PROVE  Traced'
BY DEF Traced, Sent, ReadyWasAcked, leaderVars, sessionVars, leaderPresence

LEMMA TracedStep == TypeOK /\ Begun /\ Traced /\ [Next]_vars => Traced'
<1> SUFFICES ASSUME TypeOK, Begun, Traced, [Next]_vars PROVE Traced'
  OBVIOUS
<1>1. CASE User
  BY <1>1 DEF Traced, Sent, ReadyWasAcked, User, engageWifiDirectLink, sendWifiDirectOffer,
       StartTeleop, disengageWifiDirectLink, sessionVars, leaderPresence
<1>2. CASE LeaderTick
  <2>1. UNCHANGED <<session, toLeader, acked>>
    BY <1>2 DEF LeaderTick, SeeAck, SeeNoAck, Resend
  <2>2. CASE SeeAck
    <3>1. ackIp # 0 /\ UNCHANGED <<expected, ackIp>>
      BY <2>2 DEF SeeAck, leaderPresence
    <3> QED BY <2>1, <3>1 DEF Traced, Sent, ReadyWasAcked
  <2>3. CASE SeeNoAck
    <3>1. UNCHANGED <<expected, ackIp, followerReady>>
      BY <2>3 DEF SeeNoAck, leaderPresence
    <3> QED BY <2>1, <3>1 DEF Traced, Sent, ReadyWasAcked
  <2>4. ASSUME NEW sent \in BOOLEAN, NEW timedOut \in BOOLEAN, Resend(sent, timedOut)
        PROVE  Traced'
    <3>1. expected' = session /\ ackIp' = 0 /\ UNCHANGED followerReady
      BY <2>4 DEF Resend, sendWifiDirectOffer
    <3> QED BY <2>1, <3>1 DEF Traced, Sent, ReadyWasAcked
  <2> QED BY <1>2, <2>2, <2>3, <2>4 DEF LeaderTick
<1>3. CASE handleWifiDirectAck
  BY <1>3, SentReceived DEF Traced, ReadyWasAcked, handleWifiDirectAck, IsExpectedAck,
       sessionVars
<1>4. CASE LeaderRestart
  BY <1>4 DEF Traced, Sent, ReadyWasAcked, LeaderRestart
<1>5. CASE FollowerCallback
  BY <1>5, TracedKept DEF FollowerCallback, HandleSessionEnd, HandleOffer, LandOffer
<1>6. CASE FollowerTick
  <2>1. ASSUME NEW sent \in BOOLEAN, AckAgain(sent) \/ Join(sent)
        PROVE  Traced'
    BY <2>1, TracedAck DEF AckAgain, Join
  <2>2. CASE \/ ObeySessionEnd \/ TakeOffer \/ LoseAccessPoint \/ BeginStation
             \/ JoinTimeout \/ NothingToDo \/ Settle
    BY <2>2, TracedKept DEF ObeySessionEnd, TakeOffer, LoseAccessPoint, BeginStation,
         JoinTimeout, NothingToDo, Settle
  <2> QED BY <1>6, <2>1, <2>2 DEF FollowerTick
<1>7. CASE FollowerRestart
  BY <1>7, TracedKept DEF FollowerRestart
<1>8. CASE Radio
  <2>1. CASE Associate \/ Disassociate
    BY <2>1, TracedKept DEF Associate, Disassociate
  <2>2. CASE Lose
    <3>1. CASE UNCHANGED toLeader
      BY <2>2, <3>1, TracedKept DEF Lose
    <3>2. CASE toLeader # <<>> /\ toLeader' = Tail(toLeader)
      <4>1. UNCHANGED <<leaderVars, acked>> /\ Sent' \subseteq Sent
        BY <2>2, <3>2, SentReceived DEF Lose
      <4> QED BY <4>1 DEF Traced, ReadyWasAcked, leaderVars, sessionVars, leaderPresence
    <3> QED BY <2>2, <3>1, <3>2 DEF Lose
  <2> QED BY <1>8, <2>1, <2>2 DEF Radio
<1>9. CASE UNCHANGED vars
  BY <1>9, TracedKept DEF vars
<1> QED
  BY <1>1, <1>2, <1>3, <1>4, <1>5, <1>6, <1>7, <1>8, <1>9 DEF Next

\* In every run the leader counts the follower as ready only in a session the
\* follower joined and acknowledged (ReadyWasAcked).
THEOREM ReadyWasAckedHolds == Spec => []ReadyWasAcked
<1>1. Traced => ReadyWasAcked
  BY DEF Traced
<1> QED BY <1>1, TypeInit, TypeStep, TracedInit, TracedStep, PTL DEF Spec

=============================================================================
