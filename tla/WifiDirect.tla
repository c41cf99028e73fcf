----------------------------- MODULE WifiDirect -----------------------------
(***************************************************************************)
(* The Wi-Fi direct link of the TeleopWifi profile: the leader opens an    *)
(* access point with fresh credentials and offers them over ESP-NOW, the   *)
(* follower joins it as a station and acknowledges with its address, and   *)
(* either side's loss of the other, or the leader's session end, takes the *)
(* link down again.                                                        *)
(*                                                                         *)
(* Abstractions.  A session id stands for its credentials, and 0 for none. *)
(* An address is the session it was assigned in.  The boards stay paired.  *)
(* Clocks are not modelled: an offer may be resent at any tick, and a join *)
(* times out when the access point is not there (when it is, a slow        *)
(* association is a fault).                                                *)
(*                                                                         *)
(* The ESP-NOW callbacks run beside the loops.  With Preemptive = TRUE     *)
(* they fall anywhere between the field accesses of a tick, and a tick     *)
(* anywhere within them; with FALSE each runs undisturbed.                 *)
(***************************************************************************)
EXTENDS Integers, Sequences

CONSTANTS
    MaxSessions,  \* bound on the sessions the user opens
    MaxAttempts,  \* kMaxStaJoinAttempts
    Capacity,     \* frames the radio holds, per direction
    Faults,       \* kinds of faults that may strike
    MaxFaults,    \* bound on how many do
    Preemptive    \* do callbacks and loops interleave?

FaultKinds ==
    {"lost offer", "lost ack", "lost end", "refused offer", "refused resends", "refused ack",
     "no access point", "slow join", "dropped link", "leader restart", "follower restart"}

ASSUME ConstantsAssumption ==
    /\ MaxSessions \in Nat \ {0} /\ MaxAttempts \in Nat \ {0}
    /\ Capacity \in Nat \ {0} /\ MaxFaults \in Nat
    /\ Faults \subseteq FaultKinds /\ Preemptive \in BOOLEAN

Session == 1..MaxSessions
SessionOrNone == 0..MaxSessions
Frame == [type : {"WifiDirectOffer", "SessionEnd"}, session : Session]

VARIABLES
    \* LeaderApp, LeaderWifiDirectSession
    engaged, teleop,        \* wifiDirectLinkEngaged_, wifiDirectTeleopActive_
    session,                \* activeSessionId_
    accessPoint,            \* the session whose access point is up
    offerSent, overdue,     \* offerSent_; did a resend fail since?
    resending,              \* has this tick seen no address and a resend due?
    followerReady,
    \* LeaderPresenceService
    expected, ackIp,        \* followerWifiDirectSessionId_, followerWifiDirectIp_
    \* FollowerPresenceService
    pendingEnd,
    pendingOffer, pendingCredentials,
    landing,                \* session of the offer the callback is storing
    activeId, joinId, direct,  \* activeWifiDirectSessionId_, wifiDirectJoinSessionId_,
                               \* directWifiSessionActive_
    \* FollowerWifiDirectLink
    credentials, offerPending, staReady, ackSent, connecting, attempts,
    fpc,                    \* where syncWifiRadioPolicy stands
    \* radio
    station, connected,     \* the network the follower joins; WiFi.status()
    toFollower, toLeader,
    faults,
    acked                   \* sessions acknowledged so far

appVars == <<engaged, teleop>>
sessionVars == <<session, accessPoint, offerSent, overdue, resending, followerReady>>
leaderPresence == <<expected, ackIp>>
leaderVars == <<appVars, sessionVars, leaderPresence>>
inbox == <<pendingEnd, pendingOffer, pendingCredentials, landing>>
ids == <<activeId, joinId, direct>>
link == <<credentials, offerPending, staReady, ackSent, connecting, attempts>>
radio == <<station, connected>>
followerVars == <<inbox, ids, link, fpc, radio>>
vars == <<leaderVars, followerVars, toFollower, toLeader, faults, acked>>

LeaderInit ==
    /\ engaged = FALSE /\ teleop = FALSE
    /\ session = 0 /\ accessPoint = 0
    /\ offerSent = FALSE /\ overdue = FALSE /\ resending = FALSE /\ followerReady = FALSE
    /\ expected = 0 /\ ackIp = 0

FollowerInit ==
    /\ pendingEnd = FALSE
    /\ pendingOffer = FALSE /\ pendingCredentials = 0 /\ landing = 0
    /\ activeId = 0 /\ joinId = 0 /\ direct = FALSE
    /\ credentials = 0 /\ offerPending = FALSE /\ staReady = FALSE /\ ackSent = FALSE
    /\ connecting = FALSE /\ attempts = 0
    /\ fpc = "end"
    /\ station = 0 /\ connected = FALSE

Init ==
    /\ LeaderInit /\ FollowerInit
    /\ toFollower = <<>> /\ toLeader = <<>>
    /\ faults = 0 /\ acked = {}

Fault(kind) == kind \in Faults /\ faults < MaxFaults /\ faults' = faults + 1
Barring(ok, kind) == IF ok THEN UNCHANGED faults ELSE Fault(kind)

-----------------------------------------------------------------------------
(* Leader.                                                                 *)

Room == Len(toFollower) < Capacity
Offer(s) == [type |-> "WifiDirectOffer", session |-> s]
SessionEnd(s) == [type |-> "SessionEnd", session |-> s]

\* LeaderPresenceService::sendWifiDirectOffer: whatever becomes of the frame,
\* the address noted before is forgotten.
sendWifiDirectOffer(s, sent) ==
    /\ expected' = s /\ ackIp' = 0
    /\ toFollower' = IF sent THEN Append(toFollower, Offer(s)) ELSE toFollower

\* engageWifiDirectLink, LeaderWifiDirectSession::begin: session ids are boot
\* times, never used twice.  If the access point does not start nothing is
\* offered; if the offer is refused nothing remembers to send it again.
engageWifiDirectLink(up, sent) ==
    /\ ~engaged /\ session < MaxSessions /\ Room
    /\ engaged' = TRUE /\ teleop' = FALSE
    /\ session' = session + 1
    /\ followerReady' = FALSE /\ overdue' = FALSE
    /\ IF up
       THEN /\ accessPoint' = session'
            /\ sendWifiDirectOffer(session', sent)
            /\ offerSent' = sent
            /\ Barring(sent, "refused offer")
       ELSE /\ accessPoint' = 0 /\ expected' = 0 /\ ackIp' = 0 /\ offerSent' = FALSE
            /\ sent /\ Fault("no access point")
            /\ UNCHANGED toFollower
    /\ UNCHANGED <<resending, followerVars, toLeader, acked>>

\* LeaderWifiDirectSession::tick, the address noted by the callback.
SeeAck ==
    /\ engaged /\ ~followerReady /\ ~resending /\ ackIp # 0
    /\ followerReady' = TRUE
    /\ UNCHANGED <<appVars, session, accessPoint, offerSent, overdue, resending,
                   leaderPresence, followerVars, toFollower, toLeader, faults, acked>>

\* handleAckTimeout: an offer is out, unacknowledged, and due again.
SeeNoAck ==
    /\ engaged /\ ~followerReady /\ ~resending /\ ackIp = 0
    /\ offerSent /\ Room
    /\ resending' = TRUE
    /\ UNCHANGED <<appVars, session, accessPoint, offerSent, overdue, followerReady,
                   leaderPresence, followerVars, toFollower, toLeader, faults, acked>>

\* handleAckTimeout: every accepted resend restarts both timers, so that the
\* timeout of the acknowledgement fires only after refused resends; refused
\* once more then, the offer is never sent again.
Resend(sent, timedOut) ==
    /\ resending /\ resending' = FALSE /\ (sent => Room)
    /\ timedOut => overdue
    /\ sendWifiDirectOffer(session, sent)
    /\ Barring(sent, "refused resends")
    /\ offerSent' = (sent \/ ~timedOut)
    /\ overdue' = ~sent
    /\ UNCHANGED <<appVars, session, accessPoint, followerReady, followerVars, toLeader,
                   acked>>

\* handleTeleopWifiButtons: the user starts teleoperation over the link.
StartTeleop ==
    /\ engaged /\ followerReady /\ ~teleop /\ ~resending
    /\ teleop' = TRUE
    /\ UNCHANGED <<engaged, sessionVars, leaderPresence, followerVars, toFollower, toLeader,
                   faults, acked>>

\* disengageWifiDirectLink: the session end is sent once, then the access
\* point goes down, whatever became of the frame.
disengageWifiDirectLink(sent) ==
    /\ engaged /\ ~resending
    /\ engaged' = FALSE /\ teleop' = FALSE
    /\ IF expected # 0 /\ sent
       THEN Room /\ toFollower' = Append(toFollower, SessionEnd(expected))
       ELSE UNCHANGED toFollower
    /\ IF sent THEN UNCHANGED faults ELSE expected # 0 /\ Fault("lost end")
    /\ accessPoint' = 0 /\ expected' = 0 /\ ackIp' = 0
    /\ offerSent' = FALSE /\ followerReady' = FALSE
    /\ UNCHANGED <<session, overdue, resending, followerVars, toLeader, acked>>

\* Mutant: an acknowledgement of any session will do.
IsAckOfAnySession(s) == expected # 0
IsExpectedAck(s) == s = expected

\* handleWifiDirectAck.
handleWifiDirectAck ==
    /\ toLeader # <<>> /\ (Preemptive \/ ~resending)
    /\ toLeader' = Tail(toLeader)
    /\ ackIp' = IF IsExpectedAck(Head(toLeader)) THEN Head(toLeader) ELSE ackIp
    /\ UNCHANGED <<appVars, sessionVars, expected, followerVars, toFollower, faults, acked>>

LeaderRestart ==
    /\ Fault("leader restart") /\ ~resending
    /\ engaged' = FALSE /\ teleop' = FALSE /\ accessPoint' = 0
    /\ offerSent' = FALSE /\ overdue' = FALSE /\ followerReady' = FALSE
    /\ expected' = 0 /\ ackIp' = 0
    /\ UNCHANGED <<session, resending, followerVars, toFollower, toLeader, acked>>

-----------------------------------------------------------------------------
(* Follower: the receive callback.                                         *)

LoopUndisturbed == Preemptive \/ fpc = "end"
CallbackUndisturbed == Preemptive \/ landing = 0

\* onPresenceFrame, a session end: obeyed unless another session is active.
HandleSessionEnd ==
    /\ toFollower # <<>> /\ Head(toFollower).type = "SessionEnd"
    /\ landing = 0 /\ LoopUndisturbed
    /\ toFollower' = Tail(toFollower)
    /\ LET s == Head(toFollower).session
       IN  IF activeId \in {0, s}
           THEN pendingEnd' = TRUE
           ELSE UNCHANGED pendingEnd
    /\ UNCHANGED <<leaderVars, pendingOffer, pendingCredentials, landing, ids, link, fpc, radio,
                   toLeader, faults, acked>>

KnownOffer(s) ==
    (direct /\ activeId = s) \/ joinId = s \/ (pendingOffer /\ pendingCredentials = s)

\* handleWifiDirectOfferMessage: the flag is raised before the credentials
\* are there.
HandleOffer ==
    /\ toFollower # <<>> /\ Head(toFollower).type = "WifiDirectOffer"
    /\ landing = 0 /\ LoopUndisturbed
    /\ toFollower' = Tail(toFollower)
    /\ LET s == Head(toFollower).session
       IN  IF KnownOffer(s) THEN UNCHANGED <<pendingOffer, landing>>
                            ELSE pendingOffer' = TRUE /\ landing' = s
    /\ UNCHANGED <<leaderVars, pendingEnd, pendingCredentials, ids, link, fpc, radio, toLeader,
                   faults, acked>>

LandOffer ==
    /\ landing # 0
    /\ pendingCredentials' = landing /\ activeId' = landing
    /\ landing' = 0
    /\ UNCHANGED <<leaderVars, pendingEnd, pendingOffer, joinId, direct, link, fpc, radio,
                   toFollower, toLeader, faults, acked>>

-----------------------------------------------------------------------------
(* Follower: FollowerApp::syncWifiRadioPolicy, one action per field access *)
(* that a callback can disturb.                                            *)

Step(from, to) == fpc = from /\ fpc' = to /\ CallbackUndisturbed

\* setDirectWifiSessionActive(false).
SessionInactive == pendingEnd' = FALSE /\ activeId' = 0 /\ joinId' = 0 /\ direct' = FALSE

\* FollowerWifiDirectLink::reset.
Reset ==
    /\ SessionInactive
    /\ credentials' = 0 /\ offerPending' = FALSE /\ staReady' = FALSE /\ ackSent' = FALSE
    /\ connecting' = FALSE /\ attempts' = 0
    /\ station' = 0 /\ connected' = FALSE

\* consumeWifiDirectSessionEnd and what follows it.
ObeySessionEnd ==
    /\ Step("end", "offer")
    /\ IF pendingEnd THEN Reset ELSE UNCHANGED <<pendingEnd, ids, link, radio>>
    /\ UNCHANGED <<leaderVars, pendingOffer, pendingCredentials, landing, toFollower, toLeader,
                   faults, acked>>

shouldAcceptOffer(s) == s # credentials \/ ~(offerPending \/ staReady \/ connecting)

\* consumeWifiDirectOffer, acceptOffer, setWifiDirectJoinSession.
TakeOffer ==
    /\ Step("offer", "link")
    /\ pendingOffer' = FALSE
    /\ IF pendingOffer /\ shouldAcceptOffer(pendingCredentials)
       THEN /\ credentials' = pendingCredentials
            /\ offerPending' = TRUE /\ staReady' = FALSE /\ ackSent' = FALSE
            /\ connecting' = FALSE /\ attempts' = 0
            /\ joinId' = pendingCredentials /\ activeId' = pendingCredentials
            /\ UNCHANGED direct
       ELSE UNCHANGED <<ids, link>>
    /\ UNCHANGED <<leaderVars, pendingEnd, pendingCredentials, landing, radio, toFollower,
                   toLeader, faults, acked>>

\* Mutant: an acknowledgement the radio refused counts as sent.
trySendAckOnce(sent) ==
    /\ IF sent
       THEN /\ Len(toLeader) < Capacity /\ toLeader' = Append(toLeader, credentials)
            /\ direct' = TRUE /\ acked' = acked \cup {credentials}
       ELSE UNCHANGED <<toLeader, direct, acked>>
    /\ ackSent' = TRUE
    /\ Barring(sent, "refused ack")

\* trySendAck.
trySendAck(sent) ==
    /\ IF sent
       THEN /\ Len(toLeader) < Capacity /\ toLeader' = Append(toLeader, credentials)
            /\ direct' = TRUE /\ acked' = acked \cup {credentials}
       ELSE UNCHANGED <<toLeader, direct, acked>>
    /\ ackSent' = sent
    /\ Barring(sent, "refused ack")

TickLink == Step("link", "settle")

\* Mutant: once acknowledged, a link counts as up for ever.
LostBeforeAck == staReady /\ ~ackSent /\ ~connected
LostAccessPoint == staReady /\ ~connected

\* Mutant: one attempt too many.
LastAttemptLate == attempts > MaxAttempts
LastAttempt == attempts >= MaxAttempts

\* FollowerWifiDirectLink::tick, one action per branch.
LoseAccessPoint ==
    /\ TickLink /\ LostAccessPoint
    /\ Reset
    /\ UNCHANGED <<leaderVars, pendingOffer, pendingCredentials, landing, toFollower, toLeader,
                   faults, acked>>

AckAgain(sent) ==
    /\ TickLink /\ staReady /\ connected /\ ~ackSent
    /\ trySendAck(sent)
    /\ UNCHANGED <<leaderVars, inbox, activeId, joinId, credentials, offerPending, staReady,
                   connecting, attempts, radio, toFollower>>

\* Credentials never stored have no network name: beginStation refuses them.
BeginStation ==
    /\ TickLink /\ ~staReady /\ offerPending /\ ~connecting
    /\ IF credentials # 0
       THEN /\ station' = credentials /\ connected' = FALSE
            /\ connecting' = TRUE /\ attempts' = attempts + 1
            /\ UNCHANGED <<offerPending, joinId>>
       ELSE /\ offerPending' = FALSE /\ joinId' = 0
            /\ UNCHANGED <<radio, connecting, attempts>>
    /\ UNCHANGED <<leaderVars, inbox, activeId, direct, credentials, staReady, ackSent,
                   toFollower, toLeader, faults, acked>>

Join(sent) ==
    /\ TickLink /\ ~staReady /\ offerPending /\ connecting /\ connected
    /\ staReady' = TRUE /\ offerPending' = FALSE /\ attempts' = 0
    /\ trySendAck(sent)
    /\ UNCHANGED <<leaderVars, inbox, activeId, joinId, credentials, connecting, radio,
                   toFollower>>

JoinTimeout ==
    /\ TickLink /\ ~staReady /\ offerPending /\ connecting /\ ~connected
    /\ Barring(accessPoint # station, "slow join")
    /\ IF LastAttempt
       THEN Reset
       ELSE /\ station' = 0 /\ connecting' = FALSE
            /\ UNCHANGED <<pendingEnd, ids, credentials, offerPending, staReady, ackSent,
                           attempts, connected>>
    /\ UNCHANGED <<leaderVars, pendingOffer, pendingCredentials, landing, toFollower, toLeader,
                   acked>>

NothingToDo ==
    /\ TickLink
    /\ \/ staReady /\ ~LostAccessPoint /\ (ackSent \/ ~connected)
       \/ ~staReady /\ ~offerPending
       \/ ~staReady /\ offerPending /\ connecting /\ ~connected
    /\ UNCHANGED <<leaderVars, inbox, ids, link, radio, toFollower, toLeader, faults, acked>>

linkActive == offerPending \/ staReady

Settle ==
    /\ Step("settle", "end")
    /\ IF linkActive THEN UNCHANGED <<pendingEnd, ids>> ELSE SessionInactive
    /\ UNCHANGED <<leaderVars, pendingOffer, pendingCredentials, landing, link, radio,
                   toFollower, toLeader, faults, acked>>

FollowerRestart ==
    /\ Fault("follower restart")
    /\ pendingEnd' = FALSE /\ pendingOffer' = FALSE /\ pendingCredentials' = 0 /\ landing' = 0
    /\ SessionInactive
    /\ credentials' = 0 /\ offerPending' = FALSE /\ staReady' = FALSE /\ ackSent' = FALSE
    /\ connecting' = FALSE /\ attempts' = 0
    /\ fpc' = "end" /\ station' = 0 /\ connected' = FALSE
    /\ toFollower' = <<>>
    /\ UNCHANGED <<leaderVars, toLeader, acked>>

-----------------------------------------------------------------------------
(* Radio.                                                                  *)

Associate ==
    /\ station # 0 /\ accessPoint = station /\ ~connected
    /\ connected' = TRUE
    /\ UNCHANGED <<leaderVars, inbox, ids, link, fpc, station, toFollower, toLeader, faults,
                   acked>>

Disassociate ==
    /\ connected /\ connected' = FALSE
    /\ Barring(accessPoint # station, "dropped link")
    /\ UNCHANGED <<leaderVars, inbox, ids, link, fpc, station, toFollower, toLeader, acked>>

Lose ==
    \/ /\ toFollower # <<>>
       /\ Fault(IF Head(toFollower).type = "SessionEnd" THEN "lost end" ELSE "lost offer")
       /\ toFollower' = Tail(toFollower)
       /\ UNCHANGED <<leaderVars, followerVars, toLeader, acked>>
    \/ /\ toLeader # <<>> /\ Fault("lost ack")
       /\ toLeader' = Tail(toLeader)
       /\ UNCHANGED <<leaderVars, followerVars, toFollower, acked>>

-----------------------------------------------------------------------------
User ==
    \/ \E up, sent \in BOOLEAN : engageWifiDirectLink(up, sent)
    \/ StartTeleop
    \/ \E sent \in BOOLEAN : disengageWifiDirectLink(sent)
LeaderTick == SeeAck \/ SeeNoAck \/ \E sent, timedOut \in BOOLEAN : Resend(sent, timedOut)
FollowerCallback == HandleSessionEnd \/ HandleOffer \/ LandOffer
FollowerTick ==
    \/ ObeySessionEnd \/ TakeOffer
    \/ LoseAccessPoint \/ BeginStation \/ JoinTimeout \/ NothingToDo
    \/ \E sent \in BOOLEAN : AckAgain(sent) \/ Join(sent)
    \/ Settle
Radio == Associate \/ Disassociate \/ Lose

Next ==
    \/ User \/ LeaderTick \/ handleWifiDirectAck \/ LeaderRestart
    \/ FollowerCallback \/ FollowerTick \/ FollowerRestart
    \/ Radio

Spec == Init /\ [][Next]_vars

\* The tasks of both boards run, a station in reach of its access point
\* associates, one out of its reach drops out, and time passes while a join is
\* awaited.  A callback that must wait for a tick (Preemptive = FALSE) gets its
\* turn between two of them.  Nothing is assumed of the user.
FairSpec ==
    /\ Spec
    /\ WF_vars(LeaderTick) /\ WF_vars(FollowerTick)
    /\ SF_vars(handleWifiDirectAck) /\ SF_vars(FollowerCallback)
    /\ WF_vars(Associate) /\ WF_vars(Disassociate)
    /\ SF_vars(JoinTimeout)

-----------------------------------------------------------------------------
(* Properties.                                                             *)

FlagsOK ==
    /\ engaged \in BOOLEAN /\ teleop \in BOOLEAN
    /\ offerSent \in BOOLEAN /\ overdue \in BOOLEAN
    /\ resending \in BOOLEAN /\ followerReady \in BOOLEAN
    /\ pendingEnd \in BOOLEAN /\ pendingOffer \in BOOLEAN /\ direct \in BOOLEAN
    /\ offerPending \in BOOLEAN /\ staReady \in BOOLEAN /\ ackSent \in BOOLEAN
    /\ connecting \in BOOLEAN /\ connected \in BOOLEAN

SessionsOK ==
    /\ session \in SessionOrNone /\ accessPoint \in SessionOrNone
    /\ expected \in SessionOrNone /\ ackIp \in SessionOrNone
    /\ pendingCredentials \in SessionOrNone /\ landing \in SessionOrNone
    /\ activeId \in SessionOrNone /\ joinId \in SessionOrNone
    /\ credentials \in SessionOrNone /\ attempts \in 0..MaxAttempts
    /\ fpc \in {"end", "offer", "link", "settle"}
    /\ station \in SessionOrNone
    /\ faults \in 0..MaxFaults
    /\ acked \in SUBSET Session

ChannelsOK ==
    /\ toFollower \in Seq(Frame) /\ Len(toFollower) <= Capacity
    /\ toLeader \in Seq(Session) /\ Len(toLeader) <= Capacity

\* Every variable keeps its type, and the radio its bound.
TypeOK == FlagsOK /\ SessionsOK /\ ChannelsOK

\* Whatever is lost, repeated or restarted, the leader lets the user start
\* teleoperation in a session only after the follower joined that session: an
\* acknowledgement of an earlier one is not taken for it.
ReadyWasAcked == followerReady => session \in acked

\* When the user has left the link for good the follower leaves it too, ends
\* its silence on ESP-NOW and is free for the home network, whether the
\* session end reached it or not.
LinkDissolves ==
    <>[]~engaged => <>[](~linkActive /\ ~direct /\ station = 0)

\* When the user stays on the link, both sides end up on it.
LinkEstablished ==
    <>[]engaged => <>[](followerReady /\ staReady /\ connected /\ station = session)

=============================================================================
