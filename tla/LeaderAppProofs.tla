--------------------------- MODULE LeaderAppProofs ---------------------------
(***************************************************************************)
(* Whatever order buttons, dashboard commands, acknowledgements, restarts  *)
(* and faults come in, the flags of a calibration session and those of a   *)
(* Wi-Fi direct session never outlive each other or their profile, and the *)
(* radio serves the profile; when a tick ends, the arm is only mirrored    *)
(* where it is meant; and B alone always leads back towards the menu.      *)
(*                                                                         *)
(* Each handler gets a lemma, from the state a it finds to the one it      *)
(* leaves.  A profile change passes through states in which the radio does *)
(* not serve the new profile yet: there only Sessions(a) holds.            *)
(***************************************************************************)
EXTENDS LeaderApp, TLAPS

\* The two sessions of a, as they may be under the profile p.
SessionOf(a, p) ==
    /\ a.engaged => p \in CalibrationProfiles
    /\ a.phase = 1 => a.engaged
    /\ a.centerPending => a.engaged /\ a.phase = 0 /\ p = "CalibrationFollower"

LinkOf(a, p) ==
    /\ a.session # "none" => a.link
    /\ a.link => p = "TeleopWifi"
    /\ a.teleopActive => a.session = "ready"

Sessions(a) == a \in State /\ SessionOf(a, a.profile) /\ LinkOf(a, a.profile)

\* The radio, as RadioPolicy has it.
RadioOf(a) ==
    /\ a.profile \in EspNowProfiles => ~a.listening
    /\ a.profile \in EspNowProfiles /\ ~a.browse /\ a.learned /\ ~a.resync => ~a.sta
    /\ a.link => ~a.sta
    /\ a.profile = "OtaReady" => a.sta /\ a.listening

\* What the profile brings with it.
PluggedOf(a, p) == a.passthrough => p = "Passthrough"
Carried(a) ==
    /\ a.profile \in DOMAIN TransportOf => a.transport = TransportOf[a.profile]
    /\ PluggedOf(a, a.profile)

Good(a) == Sessions(a) /\ RadioOf(a) /\ Carried(a)

SameSession(a, b) ==
    b.engaged = a.engaged /\ b.phase = a.phase /\ b.centerPending = a.centerPending
SameLink(a, b) == b.link = a.link /\ b.session = a.session /\ b.teleopActive = a.teleopActive
SameCarried(a, b) ==
    b.profile = a.profile /\ b.transport = a.transport /\ b.passthrough = a.passthrough
SameRadio(a, b) ==
    b.browse = a.browse /\ b.learned = a.learned /\ b.resync = a.resync /\ b.sta = a.sta
    /\ b.listening = a.listening

\* A handler but the ones that start mirroring only ever stops it.
OnlyStops(a, b) == b.continuous => a.continuous

(***************************************************************************)
(* What keeps one of these parts keeps what is said of it.                 *)
(***************************************************************************)
LEMMA KeptSessions ==
    ASSUME NEW a, NEW b \in State, Sessions(a), SameSession(a, b), b.profile = a.profile,
           SameLink(a, b) \/ LinkOf(b, a.profile)
    PROVE  Sessions(b)
BY DEF Sessions, SameSession, SameLink, SessionOf, LinkOf

LEMMA KeptCarried ==
    ASSUME NEW a, NEW b, Carried(a), SameCarried(a, b)
    PROVE  Carried(b)
BY DEF Carried, PluggedOf, SameCarried

LEMMA KeptGood ==
    ASSUME NEW a, NEW b \in State, Good(a),
           SameSession(a, b), SameLink(a, b), SameCarried(a, b), SameRadio(a, b)
    PROVE  Good(b)
<1>1. Sessions(b) /\ Carried(b)
  BY KeptSessions, KeptCarried DEF Good, SameCarried
<1>2. RadioOf(b)
  BY DEF Good, RadioOf, SameLink, SameCarried, SameRadio
<1> QED
  BY <1>1, <1>2 DEF Good

(***************************************************************************)
(* The radio policy and the Wi-Fi direct session.                          *)
(***************************************************************************)
LEMMA PolicyKeeps ==
    ASSUME NEW a \in State, NEW p, LinkOf(a, p), ~a.link, NEW q
    PROVE  LET b == PolicyWithoutLink(a, q)
           IN  /\ b \in State /\ \A r : LinkOf(b, r)
               /\ SameSession(a, b) /\ SameCarried(a, b) /\ b.browse = a.browse
               /\ OnlyStops(a, b) /\ ~b.link /\ (q = a.profile => RadioOf(b))
<1>0. \A r : a.session = "none" /\ ~a.teleopActive /\ LinkOf(a, r)
  BY DEF LinkOf
<1>1. CASE q = "OtaReady"
  <2> DEFINE b == [a EXCEPT !.continuous = FALSE, !.sta = TRUE, !.listening = TRUE]
  <2>1. /\ b \in State /\ SameLink(a, b) /\ SameSession(a, b) /\ SameCarried(a, b)
        /\ b.browse = a.browse /\ ~b.continuous /\ b.sta /\ b.listening
    BY DEF State, SameLink, SameSession, SameCarried
  <2> HIDE DEF b
  <2>2. q = a.profile => RadioOf(b)
    BY <1>1, <2>1 DEF RadioOf, SameLink, SameCarried, EspNowProfiles
  <2>3. \A r : LinkOf(b, r)
    BY <1>0, <2>1 DEF LinkOf, SameLink
  <2> QED
    BY <1>1, <2>1, <2>2, <2>3 DEF PolicyWithoutLink, b, OnlyStops, SameLink
<1>2. CASE q # "OtaReady"
  <2> DEFINE sta == KeepHomeSta(a, q)
             listening == q \notin EspNowProfiles
             b == [a EXCEPT !.session = "none", !.sta = sta, !.listening = listening]
  <2>1. sta \in BOOLEAN /\ listening \in BOOLEAN
    BY DEF KeepHomeSta, shouldKeepHomeStaConnectedForProfile, State
  <2>2. sta /\ q \in EspNowProfiles => a.resync \/ a.browse \/ ~a.learned
    BY DEF KeepHomeSta, shouldKeepHomeStaConnectedForProfile
  <2>3. listening => q \notin EspNowProfiles
    OBVIOUS
  <2> HIDE DEF sta, listening
  <2>4. /\ b \in State /\ SameSession(a, b) /\ SameCarried(a, b) /\ b.browse = a.browse
        /\ b.link = a.link /\ b.session = "none" /\ b.teleopActive = a.teleopActive
        /\ b.continuous = a.continuous /\ b.learned = a.learned /\ b.resync = a.resync
        /\ b.sta = sta /\ b.listening = listening
    BY <2>1 DEF State, SameSession, SameCarried
  <2>5. PolicyWithoutLink(a, q) = b
    BY <1>2 DEF PolicyWithoutLink, sta, listening
  <2> HIDE DEF b
  <2>6. q = a.profile => RadioOf(b)
    BY <1>2, <2>2, <2>3, <2>4 DEF RadioOf, SameCarried
  <2>7. \A r : LinkOf(b, r)
    BY <1>0, <2>4 DEF LinkOf
  <2> QED
    BY <2>4, <2>5, <2>6, <2>7 DEF OnlyStops
<1> QED
  BY <1>1, <1>2

\* A link that goes takes its session and its teleoperation with it.
LEMMA DisengageLink ==
    ASSUME NEW a \in State, NEW p, LinkOf(a, p)
    PROVE  LET b == disengageWifiDirectLink(a)
           IN  /\ b \in State /\ \A q : LinkOf(b, q)
               /\ SameSession(a, b) /\ SameCarried(a, b) /\ b.browse = a.browse
               /\ OnlyStops(a, b) /\ ~b.link
               /\ (RadioOf(a) \/ a.link => RadioOf(b))
               /\ (a.link => ~b.continuous)
<1>1. CASE ~a.link /\ a.session = "none"
  BY <1>1 DEF disengageWifiDirectLink, LinkOf, SameSession, SameCarried, OnlyStops
<1>2. CASE ~(~a.link /\ a.session = "none")
  <2> DEFINE c == [a EXCEPT !.link = FALSE, !.teleopActive = FALSE, !.continuous = FALSE,
                            !.session = "none", !.resync = TRUE, !.defer = FALSE, !.sta = TRUE]
             b == PolicyWithoutLink(c, a.profile)
  <2>1. /\ c \in State /\ SameSession(a, c) /\ SameCarried(a, c) /\ c.browse = a.browse
        /\ ~c.link /\ c.session = "none" /\ ~c.teleopActive /\ ~c.continuous
    <3>1. c \in State
      BY DEF State
    <3> QED
      BY <3>1 DEF State, SameSession, SameCarried
  <2>2. disengageWifiDirectLink(a) = b
    BY <1>2 DEF disengageWifiDirectLink
  <2> HIDE DEF c
  <2>3. LinkOf(c, p) /\ c.profile = a.profile
    BY <2>1 DEF LinkOf, SameCarried
  <2>4. /\ b \in State /\ \A r : LinkOf(b, r)
        /\ SameSession(c, b) /\ SameCarried(c, b) /\ b.browse = c.browse
        /\ OnlyStops(c, b) /\ ~b.link /\ RadioOf(b)
    BY <2>1, <2>3, PolicyKeeps
  <2> HIDE DEF b
  <2> QED
    BY <2>1, <2>2, <2>4 DEF SameSession, SameCarried, OnlyStops
<1> QED
  BY <1>1, <1>2

LEMMA TickSessionKeeps ==
    ASSUME NEW a \in State, NEW p, LinkOf(a, p), NEW e
    PROVE  LET b == tickSession(a, e)
           IN  /\ b \in State /\ LinkOf(b, p) /\ SameSession(a, b) /\ SameCarried(a, b)
               /\ SameRadio(a, b) /\ b.link = a.link /\ b.continuous = a.continuous
<1> DEFINE c == [a EXCEPT !.session = "ready"]
<1>1. /\ c \in State /\ SameSession(a, c) /\ SameCarried(a, c) /\ SameRadio(a, c)
      /\ c.link = a.link /\ c.continuous = a.continuous /\ c.session = "ready"
      /\ c.teleopActive = a.teleopActive
  BY DEF State, SameSession, SameCarried, SameRadio
<1> HIDE DEF c
<1>2. a.session = "up" => LinkOf(c, p)
  BY <1>1 DEF LinkOf
<1>3. (tickSession(a, e) = c /\ a.session = "up") \/ tickSession(a, e) = a
  BY DEF tickSession, c
<1> QED
  BY <1>1, <1>2, <1>3 DEF SameSession, SameCarried, SameRadio

\* Whatever the radio was, the policy makes it serve the profile.
LEMMA SyncGood ==
    ASSUME NEW a, Sessions(a), Carried(a), NEW p, p = a.profile, NEW e
    PROVE  LET b == syncWifiRadioPolicyForProfile(a, p, e)
           IN  /\ Good(b) /\ SameSession(a, b) /\ SameCarried(a, b) /\ b.browse = a.browse
               /\ OnlyStops(a, b) /\ (b.link => a.link)
<1>0. a \in State /\ LinkOf(a, p)
  BY DEF Sessions
<1>1. CASE p = "OtaReady"
  <2> DEFINE c == disengageWifiDirectLink(a)
             b == PolicyWithoutLink(c, p)
  <2>1. /\ c \in State /\ LinkOf(c, p) /\ SameSession(a, c) /\ SameCarried(a, c)
        /\ c.browse = a.browse /\ OnlyStops(a, c) /\ ~c.link
    BY <1>0, DisengageLink
  <2> HIDE DEF c
  <2>2. p = c.profile
    BY <2>1 DEF SameCarried
  <2>3. /\ b \in State /\ LinkOf(b, p) /\ SameSession(c, b) /\ SameCarried(c, b)
        /\ b.browse = c.browse /\ OnlyStops(c, b) /\ ~b.link /\ RadioOf(b)
    BY <2>1, <2>2, PolicyKeeps
  <2> HIDE DEF b
  <2>4. SameSession(a, b) /\ SameCarried(a, b) /\ OnlyStops(a, b) /\ b.profile = a.profile
    BY <2>1, <2>3 DEF SameSession, SameCarried, OnlyStops
  <2>5. Sessions(b) /\ Carried(b)
    BY <2>3, <2>4, KeptSessions, KeptCarried
  <2> QED
    BY <1>1, <2>1, <2>3, <2>4, <2>5 DEF syncWifiRadioPolicyForProfile, Good, b, c
<1>2. CASE p # "OtaReady" /\ a.link
  <2> DEFINE c == tickSession(a, e)
             listening == p \notin EspNowProfiles
             b == [c EXCEPT !.sta = FALSE, !.listening = listening]
  <2>1. /\ c \in State /\ LinkOf(c, p) /\ SameSession(a, c) /\ SameCarried(a, c)
        /\ SameRadio(a, c) /\ c.link = a.link /\ c.continuous = a.continuous
    BY <1>0, TickSessionKeeps
  <2> HIDE DEF c
  <2>2. listening \in BOOLEAN /\ (listening => p \notin EspNowProfiles)
    OBVIOUS
  <2> HIDE DEF listening
  <2>3. /\ b \in State /\ SameSession(c, b) /\ SameLink(c, b) /\ SameCarried(c, b)
        /\ b.browse = c.browse /\ b.continuous = c.continuous /\ ~b.sta
        /\ b.listening = listening
    BY <2>1, <2>2 DEF State, SameSession, SameLink, SameCarried
  <2>4. syncWifiRadioPolicyForProfile(a, p, e) = b
    BY <1>2 DEF syncWifiRadioPolicyForProfile, c, listening
  <2> HIDE DEF b
  <2>5. /\ SameSession(a, b) /\ SameCarried(a, b) /\ OnlyStops(a, b) /\ b.browse = a.browse
        /\ b.profile = a.profile
    BY <2>1, <2>3 DEF SameSession, SameCarried, SameRadio, OnlyStops
  <2>6. LinkOf(b, a.profile)
    BY <2>1, <2>3 DEF LinkOf, SameLink
  <2>7. RadioOf(b)
    BY <1>2, <2>2, <2>3, <2>5 DEF RadioOf
  <2> QED
    BY <1>2, <2>3, <2>4, <2>5, <2>6, <2>7, KeptSessions, KeptCarried DEF Good
<1>3. CASE p # "OtaReady" /\ ~a.link
  <2> DEFINE b == PolicyWithoutLink(a, p)
  <2>1. /\ b \in State /\ LinkOf(b, p) /\ SameSession(a, b) /\ SameCarried(a, b)
        /\ b.browse = a.browse /\ OnlyStops(a, b) /\ ~b.link /\ RadioOf(b)
    BY <1>0, <1>3, PolicyKeeps
  <2>2. syncWifiRadioPolicyForProfile(a, p, e) = b
    BY <1>3 DEF syncWifiRadioPolicyForProfile
  <2> HIDE DEF b
  <2>3. Sessions(b) /\ Carried(b)
    BY <2>1, KeptSessions, KeptCarried DEF SameCarried
  <2> QED
    BY <2>1, <2>2, <2>3 DEF Good
<1> QED
  BY <1>1, <1>2, <1>3

LEMMA DisengageLinkGood ==
    ASSUME NEW a, Good(a)
    PROVE  LET b == disengageWifiDirectLink(a)
           IN  /\ Good(b) /\ SameSession(a, b) /\ SameCarried(a, b) /\ b.browse = a.browse
               /\ OnlyStops(a, b) /\ ~b.link /\ (a.link => ~b.continuous)
<1> DEFINE b == disengageWifiDirectLink(a)
<1>1. /\ b \in State /\ LinkOf(b, a.profile) /\ SameSession(a, b) /\ SameCarried(a, b)
      /\ b.browse = a.browse /\ OnlyStops(a, b) /\ ~b.link /\ (a.link => ~b.continuous)
      /\ RadioOf(b)
  BY DisengageLink DEF Good, Sessions
<1> HIDE DEF b
<1>2. Sessions(b) /\ Carried(b)
  BY <1>1, KeptSessions, KeptCarried DEF Good, SameCarried
<1> QED
  BY <1>1, <1>2 DEF Good, b

LEMMA TickSessionGood ==
    ASSUME NEW a, Good(a), NEW e
    PROVE  Good(tickSession(a, e))
<1> DEFINE b == tickSession(a, e)
<1>1. /\ b \in State /\ LinkOf(b, a.profile) /\ SameSession(a, b) /\ SameCarried(a, b)
      /\ SameRadio(a, b) /\ b.link = a.link
  BY TickSessionKeeps DEF Good, Sessions
<1> HIDE DEF b
<1>2. Sessions(b) /\ Carried(b)
  BY <1>1, KeptSessions, KeptCarried DEF Good, SameCarried
<1>3. RadioOf(b)
  BY <1>1 DEF Good, RadioOf, SameCarried, SameRadio
<1> QED
  BY <1>2, <1>3 DEF Good, b

\* What the handlers set before they ask the policy.
LEMMA SetBeforeSync ==
    ASSUME NEW a, Sessions(a), Carried(a), NEW v \in BOOLEAN, NEW e
    PROVE  /\ Good(syncWifiRadioPolicyForProfile([a EXCEPT !.browse = v], a.profile, e))
           /\ Good(syncWifiRadioPolicyForProfile([a EXCEPT !.resync = v], a.profile, e))
           /\ Good(syncWifiRadioPolicyForProfile([a EXCEPT !.learned = v], a.profile, e))
           /\ Good(syncWifiRadioPolicyForProfile([a EXCEPT !.defer = v], a.profile, e))
<1>1. \A b \in {[a EXCEPT !.browse = v], [a EXCEPT !.resync = v],
                [a EXCEPT !.learned = v], [a EXCEPT !.defer = v]} :
        b \in State /\ SameSession(a, b) /\ SameLink(a, b) /\ SameCarried(a, b)
  BY DEF Sessions, State, SameSession, SameLink, SameCarried
<1>2. \A b \in {[a EXCEPT !.browse = v], [a EXCEPT !.resync = v],
                [a EXCEPT !.learned = v], [a EXCEPT !.defer = v]} :
        Sessions(b) /\ Carried(b) /\ b.profile = a.profile
  BY <1>1, KeptSessions, KeptCarried DEF SameCarried
<1>3. \A b : Sessions(b) /\ Carried(b) /\ b.profile = a.profile
                => Good(syncWifiRadioPolicyForProfile(b, a.profile, e))
  BY SyncGood
<1> QED
  BY <1>2, <1>3

LEMMA PrimeGood ==
    ASSUME NEW a, Good(a), NEW e
    PROVE  Good(updateEspNowStaPrime(a, e))
BY SetBeforeSync DEF Good, updateEspNowStaPrime

LEMMA ClearDeferGood ==
    ASSUME NEW a, Good(a), NEW e
    PROVE  Good(clearDeferHomeStaReconnectIfDone(a, e))
BY SetBeforeSync DEF Good, clearDeferHomeStaReconnectIfDone

LEMMA MirrorStartGood ==
    ASSUME NEW a, Good(a), NEW e
    PROVE  Good(prepareEspNowTeleopMirrorStart(a, e))
<1> DEFINE primed == updateEspNowStaPrime(a, e)
           known == [primed EXCEPT !.learned = @ \/ primed.profile \in EspNowProfiles]
           learned == primed.learned \/ primed.profile \in EspNowProfiles
<1>1. Good(primed)
  BY PrimeGood
<1>2. prepareEspNowTeleopMirrorStart(a, e)
        = syncWifiRadioPolicyForProfile(known, known.profile, e)
  BY DEF prepareEspNowTeleopMirrorStart
<1> HIDE DEF primed
<1>3. learned \in BOOLEAN /\ known = [primed EXCEPT !.learned = learned]
  OBVIOUS
<1> HIDE DEF learned
<1>4. Good(syncWifiRadioPolicyForProfile(known, primed.profile, e))
  BY <1>1, <1>3, SetBeforeSync DEF Good
<1>5. known.profile = primed.profile
  BY <1>1, <1>3 DEF Good, Sessions, State
<1> QED
  BY <1>2, <1>4, <1>5

\* The release of the follower.
LEMMA ReleaseKeeps ==
    ASSUME NEW a \in State, NEW e
    PROVE  LET b == releaseFollowerTeleopHold(a, e)
           IN  /\ b \in State /\ SameSession(a, b) /\ SameLink(a, b) /\ SameCarried(a, b)
               /\ SameRadio(a, b) /\ ~b.continuous
<1>1. \A d \in BOOLEAN : \A w \in {"nothing", "debugDisable"} :
        LET b == [a EXCEPT !.continuous = FALSE, !.defer = d, !.awaiting = w]
        IN  /\ b \in State /\ SameSession(a, b) /\ SameLink(a, b) /\ SameCarried(a, b)
            /\ SameRadio(a, b) /\ ~b.continuous
  <2> SUFFICES ASSUME NEW d \in BOOLEAN, NEW w \in {"nothing", "debugDisable"}
               PROVE  LET b == [a EXCEPT !.continuous = FALSE, !.defer = d, !.awaiting = w]
                      IN  /\ b \in State /\ SameSession(a, b) /\ SameLink(a, b)
                          /\ SameCarried(a, b) /\ SameRadio(a, b) /\ ~b.continuous
    OBVIOUS
  <2>1. [a EXCEPT !.continuous = FALSE, !.defer = d, !.awaiting = w] \in State
    BY DEF State
  <2> QED
    BY <2>1 DEF State, SameSession, SameLink, SameCarried, SameRadio
<1>2. CASE e.radio = "lost"
  <2> DEFINE b == [a EXCEPT !.continuous = FALSE, !.defer = FALSE]
  <2>1. /\ b \in State /\ SameSession(a, b) /\ SameLink(a, b) /\ SameCarried(a, b)
        /\ SameRadio(a, b) /\ ~b.continuous
    BY DEF State, SameSession, SameLink, SameCarried, SameRadio
  <2> QED
    BY <1>2, <2>1 DEF releaseFollowerTeleopHold
<1>3. CASE e.radio # "lost"
  <2> DEFINE d == e.radio = "sent"
             w == IF e.radio = "sent" THEN "debugDisable" ELSE "nothing"
  <2>1. d \in BOOLEAN /\ w \in {"nothing", "debugDisable"}
    OBVIOUS
  <2>2. releaseFollowerTeleopHold(a, e)
          = [a EXCEPT !.continuous = FALSE, !.defer = d, !.awaiting = w]
    BY <1>3 DEF releaseFollowerTeleopHold
  <2> QED
    BY <1>1, <2>1, <2>2
<1> QED
  BY <1>2, <1>3

LEMMA ReleaseGood ==
    ASSUME NEW a, Good(a), NEW e
    PROVE  LET b == releaseFollowerTeleopHold(a, e)
           IN  /\ Good(b) /\ SameSession(a, b) /\ SameLink(a, b) /\ SameCarried(a, b)
               /\ ~b.continuous
BY ReleaseKeeps, KeptGood DEF Good, Sessions

\* A member that neither the sessions nor the radio have part in.
LEMMA SetGood ==
    ASSUME NEW a, Good(a)
    PROVE  /\ \A v \in BOOLEAN : Good([a EXCEPT !.banner = v])
           /\ \A v \in BOOLEAN : Good([a EXCEPT !.continuous = v])
           /\ \A v \in BOOLEAN : Good([a EXCEPT !.primeOver = v])
           /\ \A v \in {"nothing", "debugDisable", "other"} : Good([a EXCEPT !.awaiting = v])
           /\ \A v \in Modes : Good([a EXCEPT !.mode = v])
           /\ \A v \in SUBSET {"A", "B"} : Good([a EXCEPT !.pressed = v])
<1>1. ASSUME NEW v \in BOOLEAN,
             NEW b \in {[a EXCEPT !.banner = v], [a EXCEPT !.continuous = v],
                        [a EXCEPT !.primeOver = v]}
      PROVE  Good(b)
  BY KeptGood DEF Good, Sessions, State, SameSession, SameLink, SameCarried, SameRadio
<1>2. ASSUME NEW v \in {"nothing", "debugDisable", "other"} PROVE Good([a EXCEPT !.awaiting = v])
  BY KeptGood DEF Good, Sessions, State, SameSession, SameLink, SameCarried, SameRadio
<1>3. ASSUME NEW v \in Modes PROVE Good([a EXCEPT !.mode = v])
  BY KeptGood DEF Good, Sessions, State, SameSession, SameLink, SameCarried, SameRadio
<1>4. ASSUME NEW v \in SUBSET {"A", "B"} PROVE Good([a EXCEPT !.pressed = v])
  BY KeptGood DEF Good, Sessions, State, SameSession, SameLink, SameCarried, SameRadio
<1> QED
  BY <1>1, <1>2, <1>3, <1>4

(***************************************************************************)
(* The calibration.                                                        *)
(***************************************************************************)
\* What it leaves alone.
Elsewhere(a, b) ==
    SameLink(a, b) /\ SameCarried(a, b) /\ SameRadio(a, b) /\ b.continuous = a.continuous

LEMMA CalibratedGood ==
    ASSUME NEW a, NEW b \in State, Good(a), Elsewhere(a, b), SessionOf(b, a.profile)
    PROVE  Good(b)
<1>1. Sessions(b)
  BY DEF Good, Sessions, Elsewhere, SameLink, SameCarried, LinkOf
<1>2. Carried(b) /\ RadioOf(b)
  BY KeptCarried DEF Good, RadioOf, Elsewhere, SameLink, SameCarried, SameRadio
<1> QED
  BY <1>1, <1>2 DEF Good

LEMMA FollowTyped ==
    ASSUME NEW S, NEW f \in [Arms -> S], NEW role \in Arms, NEW v \in S
    PROVE  Follow(f, role, v) \in [Arms -> S]
BY DEF Follow

LEMMA ProfilesTyped ==
    ASSUME NEW a \in State
    PROVE  /\ a.profiles \in [Arms -> {"zero", "default", "captured"}]
           /\ a.backup \in [Arms -> {"zero", "default", "captured"}]
           /\ a.flash \in [Arms -> {"none", "default", "captured"}]
           /\ a.ranged \in [Arms -> BOOLEAN]
BY DEF State

LEMMA RoleTyped == \A a : activeCalibrationRole(a) \in Arms
BY DEF activeCalibrationRole, Arms

LEMMA SampleKeeps ==
    ASSUME NEW a \in State, NEW e
    PROVE  LET b == sampleCalibrationRangeCapture(a, e)
           IN  b \in State /\ SameSession(a, b) /\ Elsewhere(a, b)
<1> DEFINE role == activeCalibrationRole(a)
           ranged == [a.ranged EXCEPT ![role] = TRUE]
           b == [a EXCEPT !.ranged = ranged]
<1>1. ranged \in [Arms -> BOOLEAN]
  BY DEF State
<1>2. sampleCalibrationRangeCapture(a, e) \in {a, b}
  BY DEF sampleCalibrationRangeCapture
<1> HIDE DEF ranged
<1>3. b \in State
  BY <1>1 DEF State
<1>4. SameSession(a, b) /\ Elsewhere(a, b)
  BY DEF State, SameSession, Elsewhere, SameLink, SameCarried, SameRadio
<1> HIDE DEF b
<1>5. SameSession(a, a) /\ Elsewhere(a, a)
  BY DEF SameSession, Elsewhere, SameLink, SameCarried, SameRadio
<1> QED
  BY <1>2, <1>3, <1>4, <1>5

LEMMA SampleGood ==
    ASSUME NEW a, Good(a), NEW e
    PROVE  Good(sampleCalibrationRangeCapture(a, e))
BY SampleKeeps, KeptGood DEF Good, Sessions, Elsewhere

\* The range phase begins in a session whose center is not waited for.
LEMMA EnterRangeGood ==
    ASSUME NEW a, Good(a), a.engaged, ~a.centerPending, NEW role \in Arms
    PROVE  Good(enterCalibrationRangePhase(a, role))
<1> DEFINE backup == Follow(a.backup, role, a.profiles[role])
           ranged == [a.ranged EXCEPT ![role] = FALSE]
           b == [a EXCEPT !.phase = 1, !.backup = backup, !.ranged = ranged]
<1>0. a \in State
  BY DEF Good, Sessions
<1>1. /\ backup \in [Arms -> {"zero", "default", "captured"}]
      /\ ranged \in [Arms -> BOOLEAN]
  <2>1. a.profiles[role] \in {"zero", "default", "captured"}
    BY <1>0, ProfilesTyped
  <2> QED
    BY <1>0, <2>1, ProfilesTyped, FollowTyped
<1>2. enterCalibrationRangePhase(a, role) = b
  BY DEF enterCalibrationRangePhase
<1> HIDE DEF backup, ranged
<1>3. b \in State
  BY <1>0, <1>1 DEF State
<1>4. /\ Elsewhere(a, b) /\ b.phase = 1 /\ b.engaged = a.engaged
      /\ b.centerPending = a.centerPending
  BY <1>0 DEF State, Elsewhere, SameLink, SameCarried, SameRadio
<1> HIDE DEF b
<1>5. SessionOf(b, a.profile)
  BY <1>4 DEF Good, Sessions, SessionOf
<1> QED
  BY <1>2, <1>3, <1>4, <1>5, CalibratedGood

LEMMA CancelCleans ==
    ASSUME NEW a \in State
    PROVE  LET b == cancelCalibrationRangeCapture(a)
           IN  /\ b \in State /\ Elsewhere(a, b) /\ b.engaged = a.engaged
               /\ b.phase = 0 /\ b.centerPending = FALSE
<1> DEFINE role == activeCalibrationRole(a)
           profiles == Follow(a.profiles, role, a.backup[role])
           b == [a EXCEPT !.centerPending = FALSE, !.phase = 0, !.profiles = profiles]
<1>1. profiles \in [Arms -> {"zero", "default", "captured"}]
  <2>1. role \in Arms
    BY RoleTyped
  <2>2. a.backup[role] \in {"zero", "default", "captured"}
    BY <2>1, ProfilesTyped
  <2> QED
    BY <2>1, <2>2, ProfilesTyped, FollowTyped
<1>2. cancelCalibrationRangeCapture(a) = b
  BY DEF cancelCalibrationRangeCapture
<1> HIDE DEF profiles
<1>3. b \in State
  BY <1>1 DEF State
<1>4. Elsewhere(a, b) /\ b.engaged = a.engaged /\ b.phase = 0 /\ b.centerPending = FALSE
  BY DEF State, Elsewhere, SameLink, SameCarried, SameRadio
<1> QED
  BY <1>2, <1>3, <1>4

\* A commit that succeeds ends the range phase.
LEMMA CommitKeeps ==
    ASSUME NEW a \in State, NEW e
    PROVE  LET b == commitCalibrationRangeCapture(a, e)
           IN  /\ b \in State /\ Elsewhere(a, b)
               /\ b.engaged = a.engaged /\ b.centerPending = a.centerPending
               /\ b.phase \in {0, a.phase} /\ (Committed(a, e) => b.phase = 0)
<1> DEFINE sampled == sampleCalibrationRangeCapture(a, e)
           role == activeCalibrationRole(a)
           profiles == Follow(sampled.profiles, role, "captured")
           stored == [sampled EXCEPT !.profiles = profiles]
           flash == Follow(sampled.flash, role, "captured")
           done == [stored EXCEPT !.flash = flash, !.phase = 0]
<1>1. sampled \in State /\ SameSession(a, sampled) /\ Elsewhere(a, sampled)
  BY SampleKeeps
<1>2. commitCalibrationRangeCapture(a, e) =
        IF ~profileHasRange(sampled) THEN sampled ELSE IF ~e.ok THEN stored ELSE done
  <2>1. stored.flash = sampled.flash
    BY <1>1 DEF State
  <2> QED
    BY <2>1 DEF commitCalibrationRangeCapture
<1>3. Committed(a, e) => profileHasRange(sampled) /\ e.ok
  BY DEF Committed
<1> HIDE DEF sampled
<1>4. /\ profiles \in [Arms -> {"zero", "default", "captured"}]
      /\ flash \in [Arms -> {"none", "default", "captured"}]
  BY <1>1, ProfilesTyped, FollowTyped, RoleTyped
<1> HIDE DEF profiles, flash
<1>5. stored \in State
  BY <1>1, <1>4 DEF State
<1>6. SameSession(sampled, stored) /\ Elsewhere(sampled, stored)
  BY <1>1 DEF State, SameSession, Elsewhere, SameLink, SameCarried, SameRadio
<1> HIDE DEF stored
<1>7. done \in State
  BY <1>4, <1>5 DEF State
<1>8. /\ Elsewhere(stored, done) /\ done.phase = 0
      /\ done.engaged = stored.engaged /\ done.centerPending = stored.centerPending
  BY <1>5 DEF State, Elsewhere, SameLink, SameCarried, SameRadio
<1> HIDE DEF done
<1>9. Elsewhere(a, stored) /\ Elsewhere(a, done)
  BY <1>1, <1>6, <1>8 DEF Elsewhere, SameLink, SameCarried, SameRadio
<1> QED
  BY <1>1, <1>2, <1>3, <1>5, <1>6, <1>7, <1>8, <1>9 DEF SameSession

LEMMA CommitGood ==
    ASSUME NEW a, Good(a), NEW e
    PROVE  Good(commitCalibrationRangeCapture(a, e))
<1> DEFINE b == commitCalibrationRangeCapture(a, e)
<1>1. /\ b \in State /\ Elsewhere(a, b)
      /\ b.engaged = a.engaged /\ b.centerPending = a.centerPending /\ b.phase \in {0, a.phase}
  BY CommitKeeps DEF Good, Sessions
<1> HIDE DEF b
<1>2. SessionOf(b, a.profile)
  BY <1>1 DEF Good, Sessions, SessionOf
<1>3. Good(b)
  BY <1>1, <1>2, CalibratedGood
<1> QED
  BY <1>3 DEF b

LEMMA CenterGood ==
    ASSUME NEW a, Good(a), NEW e
    PROVE  Good(applyCalibrationCenter(a, e))
<1>1. CASE ~a.engaged \/ a.phase # 0 \/ a.centerPending
  BY <1>1 DEF applyCalibrationCenter
<1>2. CASE ~(~a.engaged \/ a.phase # 0 \/ a.centerPending) /\ activeCalibrationRole(a) = "Leader"
  <2>1. Good(enterCalibrationRangePhase(a, "Leader"))
    BY <1>2, EnterRangeGood DEF Arms
  <2>2. Good(sampleCalibrationRangeCapture(enterCalibrationRangePhase(a, "Leader"), e))
    BY <2>1, SampleGood
  <2> QED
    BY <1>2, <2>2 DEF applyCalibrationCenter
<1>3. CASE ~(~a.engaged \/ a.phase # 0 \/ a.centerPending) /\ activeCalibrationRole(a) # "Leader"
  <2> DEFINE b == [a EXCEPT !.centerPending = TRUE]
  <2>1. a.profile = "CalibrationFollower"
    BY <1>3 DEF activeCalibrationRole
  <2>2. b \in State /\ Elsewhere(a, b) /\ b.engaged = a.engaged /\ b.phase = a.phase
    BY DEF Good, Sessions, State, Elsewhere, SameLink, SameCarried, SameRadio
  <2> HIDE DEF b
  <2>3. SessionOf(b, a.profile)
    BY <1>3, <2>1, <2>2 DEF Good, Sessions, SessionOf, CalibrationProfiles
  <2>4. Good(b)
    BY <2>2, <2>3, CalibratedGood
  <2> QED
    BY <1>3, <2>4 DEF applyCalibrationCenter, b
<1> QED
  BY <1>1, <1>2, <1>3

LEMMA PollGood ==
    ASSUME NEW a, Good(a), NEW outcome
    PROVE  Good(pollFollowerCalibrationCenterAck(a, outcome))
<1> DEFINE b == [a EXCEPT !.centerPending = FALSE]
<1>1. /\ b \in State /\ Elsewhere(a, b) /\ b.engaged = a.engaged /\ b.phase = a.phase
      /\ b.centerPending = FALSE
  BY DEF Good, Sessions, State, Elsewhere, SameLink, SameCarried, SameRadio
<1> HIDE DEF b
<1>2. SessionOf(b, a.profile) /\ (a.centerPending => b.engaged)
  BY <1>1 DEF Good, Sessions, SessionOf
<1>3. Good(b)
  BY <1>1, <1>2, CalibratedGood
<1>4. a.centerPending => Good(enterCalibrationRangePhase(b, "Follower"))
  BY <1>1, <1>2, <1>3, EnterRangeGood DEF Arms
<1> QED
  BY <1>3, <1>4 DEF pollFollowerCalibrationCenterAck, b

LEMMA EngageCalibrationGood ==
    ASSUME NEW a, Good(a), NEW e
    PROVE  Good(engageCalibrationMode(a, e))
<1> DEFINE c == releaseFollowerTeleopHold(a, e)
           pressed == c.pressed \ {"A"}
           b == [c EXCEPT !.engaged = TRUE, !.phase = 0, !.centerPending = FALSE,
                          !.banner = FALSE, !.pressed = pressed]
<1>1. Good(c) /\ c \in State /\ c.profile = a.profile
  BY ReleaseGood DEF Good, Sessions, SameCarried
<1>2. engageCalibrationMode(a, e) =
        IF a.profile \notin CalibrationProfiles \/ a.engaged THEN a ELSE b
  BY DEF engageCalibrationMode
<1> HIDE DEF c
<1>3. pressed \in SUBSET {"A", "B"}
  BY <1>1 DEF State
<1> HIDE DEF pressed
<1>4. b \in State
  BY <1>1, <1>3 DEF State
<1>5. /\ Elsewhere(c, b) /\ b.engaged = TRUE /\ b.phase = 0 /\ b.centerPending = FALSE
  BY <1>1 DEF State, Elsewhere, SameLink, SameCarried, SameRadio
<1> HIDE DEF b
<1>6. a.profile \in CalibrationProfiles => SessionOf(b, c.profile)
  BY <1>1, <1>5 DEF SessionOf
<1>7. a.profile \in CalibrationProfiles => Good(b)
  BY <1>1, <1>4, <1>5, <1>6, CalibratedGood
<1> QED
  BY <1>2, <1>7

\* The end of a session, whatever its flags are.
LEMMA DisengageCalibration ==
    ASSUME NEW a \in State
    PROVE  LET b == disengageCalibrationMode(a)
           IN  /\ b \in State /\ Elsewhere(a, b)
               /\ \A p, q : SessionOf(a, p) => SessionOf(b, q)
<1> DEFINE restored == IF a.phase # 0 THEN cancelCalibrationRangeCapture(a) ELSE a
           b == [restored EXCEPT !.engaged = FALSE, !.phase = 0, !.centerPending = FALSE]
<1>0. Elsewhere(a, a)
  BY DEF Elsewhere, SameLink, SameCarried, SameRadio
<1>1. restored \in State /\ Elsewhere(a, restored)
  BY <1>0, CancelCleans
<1>2. disengageCalibrationMode(a) = IF ~a.engaged THEN a ELSE b
  BY DEF disengageCalibrationMode
<1> HIDE DEF restored
<1>3. b \in State
  BY <1>1 DEF State
<1>4. Elsewhere(restored, b) /\ ~b.engaged /\ b.phase = 0 /\ ~b.centerPending
  BY <1>1 DEF State, Elsewhere, SameLink, SameCarried, SameRadio
<1> HIDE DEF b
<1>5. Elsewhere(a, b)
  BY <1>1, <1>4 DEF Elsewhere, SameLink, SameCarried, SameRadio
<1> QED
  BY <1>0, <1>2, <1>3, <1>4, <1>5 DEF SessionOf

(***************************************************************************)
(* The profile changes: between the two, a has the new profile and the     *)
(* sessions of the previous one.                                           *)
(***************************************************************************)
LEMMA ExitRadioKeeps ==
    ASSUME NEW a \in State, NEW previous, NEW next, LinkOf(a, previous), a.profile = next
    PROVE  LET b == ExitRadio(a, previous, next)
           IN  /\ b \in State /\ SameSession(a, b) /\ LinkOf(b, next) /\ b.profile = next
               /\ b.passthrough = a.passthrough /\ OnlyStops(a, b)
<1>1. CASE previous = "TeleopWifi" /\ (a.link \/ a.session # "none")
  BY <1>1, DisengageLink DEF ExitRadio, SameCarried
<1>2. CASE /\ ~(previous = "TeleopWifi" /\ (a.link \/ a.session # "none"))
           /\ previous # "TeleopWifi" /\ next = "TeleopWifi"
  <2> DEFINE pressed == a.pressed \ {"A"}
             b == [a EXCEPT !.link = FALSE, !.teleopActive = FALSE, !.continuous = FALSE,
                            !.pressed = pressed]
  <2>1. ExitRadio(a, previous, next) = b
    BY <1>2 DEF ExitRadio
  <2>2. pressed \in SUBSET {"A", "B"}
    BY DEF State
  <2> HIDE DEF pressed
  <2>3. b \in State
    BY <2>2 DEF State
  <2>4. /\ SameSession(a, b) /\ ~b.link /\ ~b.teleopActive /\ ~b.continuous
        /\ b.session = a.session /\ b.profile = next /\ b.passthrough = a.passthrough
    BY DEF State, SameSession
  <2>5. LinkOf(b, next)
    BY <1>2, <2>4 DEF LinkOf
  <2> QED
    BY <2>1, <2>3, <2>4, <2>5 DEF OnlyStops
<1>3. CASE /\ ~(previous = "TeleopWifi" /\ (a.link \/ a.session # "none"))
           /\ ~(previous # "TeleopWifi" /\ next = "TeleopWifi")
  <2> DEFINE pressed == a.pressed \ {"A"}
             ota == a.ota /\ (previous = "OtaReady" => next = "OtaReady")
             b == [a EXCEPT !.ota = FALSE, !.pressed = pressed]
             c == [a EXCEPT !.ota = ota]
  <2>1. ExitRadio(a, previous, next) \in {b, c}
    BY <1>3 DEF ExitRadio
  <2>2. pressed \in SUBSET {"A", "B"} /\ ota \in BOOLEAN
    BY DEF State
  <2> HIDE DEF pressed, ota
  <2>3. b \in State /\ c \in State
    BY <2>2 DEF State
  <2>4. /\ SameSession(a, b) /\ SameLink(a, b) /\ b.profile = next
        /\ b.passthrough = a.passthrough /\ b.continuous = a.continuous
    BY DEF State, SameSession, SameLink
  <2>5. /\ SameSession(a, c) /\ SameLink(a, c) /\ c.profile = next
        /\ c.passthrough = a.passthrough /\ c.continuous = a.continuous
    BY DEF State, SameSession, SameLink
  <2> HIDE DEF b, c
  <2>6. ~a.link /\ a.session = "none" /\ ~a.teleopActive
    BY <1>3 DEF LinkOf
  <2> QED
    BY <2>1, <2>3, <2>4, <2>5, <2>6 DEF LinkOf, SameLink, OnlyStops
<1> QED
  BY <1>1, <1>2, <1>3

\* A session that was left, or that the new profile has to end.
MayLeave(a, previous, next) ==
    SessionOf(a, previous) \/ (previous \in CalibrationProfiles /\ next \notin CalibrationProfiles)

LEMMA ExitSessions ==
    ASSUME NEW a \in State, NEW previous, NEW next, NEW e, a.profile = next,
           LinkOf(a, previous), MayLeave(a, previous, next), PluggedOf(a, previous)
    PROVE  LET b == ExitTransitions(a, previous, next, e)
           IN  /\ Sessions(b) /\ b.profile = next /\ ~b.passthrough /\ OnlyStops(a, b)
               /\ (previous = "TeleopWifi" /\ next # "TeleopWifi" => ~b.continuous)
<1> DEFINE calibrated == previous \in CalibrationProfiles
           calibrates == next \in CalibrationProfiles
           switched == IF calibrated /\ calibrates /\ previous # next
                       THEN disengageCalibrationMode(a) ELSE a
           unplugged == IF previous = "Passthrough" THEN [switched EXCEPT !.passthrough = FALSE]
                        ELSE switched
           released == IF LeavesTeleop(previous, next)
                       THEN releaseFollowerTeleopHold(unplugged, e) ELSE unplugged
           left == ExitRadio(released, previous, next)
           ended == disengageCalibrationMode(left)
           cleared == NotCalibrating(ended)
<1>1. /\ switched \in State /\ Elsewhere(a, switched)
      /\ (~calibrated \/ calibrates) => SessionOf(switched, next)
  <2>1. Elsewhere(a, a)
    BY DEF Elsewhere, SameLink, SameCarried, SameRadio
  <2>2. CASE calibrated /\ calibrates /\ previous # next
    BY <2>2, DisengageCalibration DEF MayLeave
  <2>3. CASE ~calibrated
    BY <2>1, <2>3 DEF MayLeave, SessionOf, CalibrationProfiles
  <2>4. CASE calibrated /\ calibrates /\ previous = next
    BY <2>1, <2>4 DEF MayLeave
  <2>5. CASE calibrated /\ ~calibrates
    BY <2>1, <2>5
  <2> QED
    BY <2>2, <2>3, <2>4, <2>5
<1>2. LinkOf(switched, previous) /\ PluggedOf(switched, previous) /\ switched.profile = next
  BY <1>1 DEF Elsewhere, SameLink, SameCarried, LinkOf, PluggedOf
<1>3. ExitTransitions(a, previous, next, e) = IF calibrated /\ ~calibrates THEN cleared ELSE left
  BY DEF ExitTransitions
<1> HIDE DEF switched
<1>4. /\ unplugged \in State /\ SameSession(switched, unplugged) /\ SameLink(switched, unplugged)
      /\ unplugged.profile = next /\ unplugged.continuous = switched.continuous
      /\ ~unplugged.passthrough
  <2>1. CASE previous = "Passthrough"
    BY <1>1, <1>2, <2>1 DEF State, SameSession, SameLink
  <2>2. CASE previous # "Passthrough"
    BY <1>1, <1>2, <2>2 DEF PluggedOf, SameSession, SameLink
  <2> QED
    BY <2>1, <2>2
<1> HIDE DEF unplugged
<1>5. /\ released \in State /\ SameSession(switched, released) /\ SameLink(switched, released)
      /\ released.profile = next /\ ~released.passthrough
      /\ OnlyStops(switched, released)
      /\ LeavesTeleop(previous, next) => ~released.continuous
  BY <1>4, ReleaseKeeps DEF SameSession, SameLink, SameCarried, OnlyStops
<1> HIDE DEF released
<1>6. LinkOf(released, previous)
  BY <1>2, <1>5 DEF LinkOf, SameLink
<1>7. /\ left \in State /\ SameSession(switched, left) /\ LinkOf(left, next)
      /\ left.profile = next /\ ~left.passthrough /\ OnlyStops(released, left)
  BY <1>5, <1>6, ExitRadioKeeps DEF SameSession
<1> HIDE DEF left
<1>8. ended \in State /\ Elsewhere(left, ended)
  BY <1>7, DisengageCalibration
<1> HIDE DEF ended
<1>9. /\ cleared \in State /\ Elsewhere(ended, cleared)
      /\ ~cleared.engaged /\ cleared.phase = 0 /\ ~cleared.centerPending
  <2>1. cleared \in State
    BY <1>8 DEF NotCalibrating, State
  <2> QED
    BY <1>8, <2>1 DEF NotCalibrating, State, Elsewhere, SameLink, SameCarried, SameRadio
<1> HIDE DEF cleared
<1>10. Elsewhere(left, cleared)
  BY <1>8, <1>9 DEF Elsewhere, SameLink, SameCarried, SameRadio
<1>11. Sessions(cleared)
  BY <1>7, <1>9, <1>10 DEF Sessions, SessionOf, LinkOf, Elsewhere, SameLink, SameCarried
<1>12. (~calibrated \/ calibrates) => Sessions(left)
  BY <1>1, <1>7 DEF Sessions, SessionOf, SameSession
<1>13. /\ OnlyStops(a, left)
       /\ previous = "TeleopWifi" /\ next # "TeleopWifi" => ~left.continuous
  BY <1>1, <1>5, <1>7 DEF OnlyStops, Elsewhere, LeavesTeleop
<1> QED
  BY <1>3, <1>7, <1>10, <1>11, <1>12, <1>13 DEF OnlyStops, Elsewhere, SameCarried

LEMMA StateSessions ==
    ASSUME NEW a, Sessions(a), NEW previous, NEW next, a.profile = next
    PROVE  LET b == CalibrationState(a, previous, next)
           IN  /\ Sessions(b) /\ b.profile = next /\ b.passthrough = a.passthrough
               /\ OnlyStops(a, b)
<1>0. a \in State
  BY DEF Sessions
<1>1. CASE next \in CalibrationProfiles
  <2> DEFINE engaged == a.engaged /\ previous = next
             pressed == a.pressed \ {"A"}
             b == [a EXCEPT !.engaged = engaged, !.phase = 0, !.centerPending = FALSE,
                            !.continuous = FALSE, !.pressed = pressed]
  <2>1. CalibrationState(a, previous, next) = b
    BY <1>1 DEF CalibrationState
  <2>2. engaged \in BOOLEAN /\ pressed \in SUBSET {"A", "B"}
    BY <1>0 DEF State
  <2> HIDE DEF engaged, pressed
  <2>3. b \in State
    BY <1>0, <2>2 DEF State
  <2>4. /\ SameLink(a, b) /\ b.profile = next /\ b.passthrough = a.passthrough
        /\ ~b.continuous /\ b.phase = 0 /\ b.centerPending = FALSE
    BY <1>0 DEF State, SameLink
  <2> HIDE DEF b
  <2>5. Sessions(b)
    BY <1>1, <2>3, <2>4 DEF Sessions, SessionOf, LinkOf, SameLink
  <2> QED
    BY <1>1, <2>1, <2>4, <2>5 DEF OnlyStops
<1>2. CASE next \notin CalibrationProfiles
  <2> DEFINE b == [a EXCEPT !.engaged = FALSE, !.phase = 0]
  <2>1. /\ b \in State /\ SameLink(a, b) /\ b.profile = next /\ b.passthrough = a.passthrough
        /\ b.continuous = a.continuous /\ b.phase = 0 /\ b.engaged = FALSE
        /\ b.centerPending = a.centerPending
    BY <1>0 DEF State, SameLink
  <2> HIDE DEF b
  <2>2. Sessions(b)
    BY <1>2, <2>1 DEF Sessions, SessionOf, LinkOf, SameLink, CalibrationProfiles
  <2> QED
    BY <1>2, <2>1, <2>2 DEF CalibrationState, OnlyStops, b
<1> QED
  BY <1>1, <1>2

LEMMA TransportTyped ==
    \A p \in DOMAIN TransportOf :
        TransportOf[p] \in {"EspNow", "EspNowTurbo", "EspNowFeedback", "WifiUdp"}
BY DEF TransportOf, EspNowProfiles

\* The profile changes from a good state, or from one whose calibration ended
\* but for its flags: the state is good for the new profile.
LEMMA ProfileGood ==
    ASSUME NEW a \in State, NEW next \in Profiles, NEW e,
           LinkOf(a, a.profile), MayLeave(a, a.profile, next), PluggedOf(a, a.profile)
    PROVE  LET b == applyControllerOperationProfile(a, next, e)
           IN  /\ Good(b) /\ b.profile = next /\ OnlyStops(a, b)
               /\ (a.profile = "TeleopWifi" /\ next # "TeleopWifi" => ~b.continuous)
<1> DEFINE previous == a.profile
           named == [a EXCEPT !.profile = next]
           exited == ExitTransitions(named, previous, next, e)
           settled == CalibrationState(exited, previous, next)
           carried == IF next \in DOMAIN TransportOf
                      THEN [settled EXCEPT !.transport = TransportOf[next]] ELSE settled
           plugged == [exited EXCEPT !.engaged = FALSE, !.phase = 0, !.continuous = FALSE]
           synced == syncWifiRadioPolicyForProfile(carried, next, e)
<1>0. applyControllerOperationProfile(a, next, e)
        = IF next = "Passthrough" THEN plugged ELSE synced
  BY DEF applyControllerOperationProfile
<1>1. /\ named \in State /\ SameSession(a, named) /\ SameLink(a, named) /\ named.profile = next
      /\ named.passthrough = a.passthrough /\ named.continuous = a.continuous
  BY DEF State, SameSession, SameLink
<1> HIDE DEF named
<1>2. LinkOf(named, previous) /\ MayLeave(named, previous, next) /\ PluggedOf(named, previous)
  BY <1>1 DEF LinkOf, SameLink, MayLeave, SessionOf, SameSession, PluggedOf
<1>3. /\ Sessions(exited) /\ exited.profile = next /\ ~exited.passthrough
      /\ OnlyStops(named, exited)
      /\ previous = "TeleopWifi" /\ next # "TeleopWifi" => ~exited.continuous
  BY <1>1, <1>2, ExitSessions
<1> HIDE DEF exited
<1>4. /\ Sessions(settled) /\ settled.profile = next /\ ~settled.passthrough
      /\ OnlyStops(exited, settled)
  BY <1>3, StateSessions
<1> HIDE DEF settled
<1>5. /\ carried \in State /\ SameSession(settled, carried) /\ SameLink(settled, carried)
      /\ carried.profile = next /\ ~carried.passthrough
      /\ carried.continuous = settled.continuous
      /\ next \in DOMAIN TransportOf => carried.transport = TransportOf[next]
  <2>1. CASE next \in DOMAIN TransportOf
    <3> DEFINE t == TransportOf[next]
    <3>1. t \in {"EspNow", "EspNowTurbo", "EspNowFeedback", "WifiUdp"}
      BY <2>1, TransportTyped
    <3>2. carried = [settled EXCEPT !.transport = t]
      BY <2>1
    <3> HIDE DEF t, carried
    <3>3. carried \in State
      BY <1>4, <3>1, <3>2 DEF State, Sessions
    <3> QED
      BY <1>4, <3>2, <3>3 DEF State, Sessions, SameSession, SameLink, t
  <2>2. CASE next \notin DOMAIN TransportOf
    BY <1>4, <2>2 DEF Sessions, SameSession, SameLink
  <2> QED
    BY <2>1, <2>2
<1> HIDE DEF carried
<1>6. Sessions(carried) /\ Carried(carried)
  BY <1>4, <1>5, KeptSessions DEF Carried, PluggedOf
<1>7. /\ Good(synced) /\ SameSession(carried, synced) /\ SameCarried(carried, synced)
      /\ OnlyStops(carried, synced)
  BY <1>5, <1>6, SyncGood
<1> HIDE DEF synced
<1>8. /\ plugged \in State /\ SameLink(exited, plugged) /\ plugged.profile = next
      /\ ~plugged.engaged /\ plugged.phase = 0 /\ ~plugged.continuous /\ ~plugged.passthrough
      /\ plugged.centerPending = exited.centerPending
  BY <1>3 DEF Sessions, State, SameLink
<1> HIDE DEF plugged
<1>9. ASSUME next = "Passthrough" PROVE Good(plugged)
  <2>1. /\ next \notin EspNowProfiles /\ next \notin DOMAIN TransportOf
        /\ next \notin CalibrationProfiles
    BY <1>9 DEF EspNowProfiles, TransportOf, CalibrationProfiles
  <2>2. Sessions(plugged)
    BY <1>3, <1>8, <1>9 DEF Sessions, SessionOf, LinkOf, SameLink
  <2>3. RadioOf(plugged) /\ Carried(plugged)
    BY <1>8, <1>9, <2>1, <2>2 DEF RadioOf, Carried, PluggedOf, Sessions, LinkOf
  <2> QED
    BY <2>2, <2>3 DEF Good
<1> QED
  BY <1>0, <1>1, <1>3, <1>4, <1>5, <1>7, <1>8, <1>9 DEF OnlyStops, SameSession, SameCarried

LEMMA ApplyGood ==
    ASSUME NEW a, Good(a), NEW next \in Profiles, NEW e
    PROVE  LET b == applyControllerOperationProfile(a, next, e)
           IN  /\ Good(b) /\ b.profile = next /\ OnlyStops(a, b)
               /\ (a.profile = "TeleopWifi" /\ next # "TeleopWifi" => ~b.continuous)
BY ProfileGood DEF Good, Sessions, Carried, MayLeave

(***************************************************************************)
(* The other modes.                                                        *)
(***************************************************************************)
LEMMA PassthroughGood ==
    ASSUME NEW a, Good(a), NEW fallback \in Profiles, NEW e
    PROVE  /\ Good(engagePassthroughMode(a))
           /\ engagePassthroughMode(a).profile = a.profile
           /\ LET b == disengagePassthroughMode(a, fallback, e)
              IN  /\ Good(b)
                  /\ (a.profile = "Passthrough" => b.profile = fallback /\ OnlyStops(a, b))
<1> DEFINE on == [a EXCEPT !.passthrough = TRUE]
           off == [a EXCEPT !.passthrough = FALSE]
<1>0. a \in State
  BY DEF Good, Sessions
<1>1. /\ on \in State /\ SameSession(a, on) /\ SameLink(a, on) /\ SameRadio(a, on)
      /\ on.profile = a.profile /\ on.transport = a.transport
  BY <1>0 DEF State, SameSession, SameLink, SameRadio
<1>2. /\ off \in State /\ SameSession(a, off) /\ SameLink(a, off) /\ SameRadio(a, off)
      /\ off.profile = a.profile /\ off.transport = a.transport /\ ~off.passthrough
      /\ off.continuous = a.continuous
  BY <1>0 DEF State, SameSession, SameLink, SameRadio
<1>3. /\ engagePassthroughMode(a) = IF a.profile = "Passthrough" THEN on ELSE a
      /\ disengagePassthroughMode(a, fallback, e)
            = IF a.profile = "Passthrough" THEN applyControllerOperationProfile(off, fallback, e)
              ELSE off
  BY DEF engagePassthroughMode, disengagePassthroughMode
<1> HIDE DEF on, off
<1>4. Sessions(on) /\ Sessions(off)
  BY <1>1, <1>2, KeptSessions DEF Good
<1>5. RadioOf(on) /\ RadioOf(off)
  BY <1>1, <1>2 DEF Good, RadioOf, SameLink, SameRadio
<1>6. (a.profile = "Passthrough" => Carried(on)) /\ Carried(off)
  BY <1>1, <1>2 DEF Good, Carried, PluggedOf
<1>7. (a.profile = "Passthrough" => Good(on)) /\ Good(off)
  BY <1>4, <1>5, <1>6 DEF Good
<1> DEFINE b == applyControllerOperationProfile(off, fallback, e)
<1>8. Good(b) /\ b.profile = fallback /\ OnlyStops(off, b)
  BY <1>7, ApplyGood
<1> HIDE DEF b
<1>9. OnlyStops(a, b)
  BY <1>2, <1>8 DEF OnlyStops
<1> QED
  BY <1>1, <1>3, <1>7, <1>8, <1>9 DEF b

LEMMA OtaGood ==
    ASSUME NEW a, Good(a), NEW e
    PROVE  LET b == engageOtaMode(a, e) IN Good(b) /\ b.profile = a.profile
<1> DEFINE gone == disengageWifiDirectLink(a)
           pressed == gone.pressed \ {"A"}
           b == [gone EXCEPT !.ota = TRUE, !.continuous = FALSE, !.teleopActive = FALSE,
                             !.sta = TRUE, !.pressed = pressed]
           synced == syncWifiRadioPolicyForProfile(b, a.profile, e)
<1>1. Good(gone) /\ gone \in State /\ gone.profile = a.profile
  BY DisengageLinkGood DEF Good, Sessions, SameCarried
<1>2. engageOtaMode(a, e) = IF a.profile # "OtaReady" \/ a.ota THEN a ELSE synced
  BY DEF engageOtaMode
<1> HIDE DEF gone
<1>3. pressed \in SUBSET {"A", "B"}
  BY <1>1 DEF State
<1> HIDE DEF pressed
<1>4. b \in State
  BY <1>1, <1>3 DEF State
<1>5. /\ SameSession(gone, b) /\ SameCarried(gone, b)
      /\ b.link = gone.link /\ b.session = gone.session /\ b.teleopActive = FALSE
  BY <1>1 DEF State, SameSession, SameCarried
<1> HIDE DEF b
<1>6. b.profile = a.profile /\ LinkOf(b, gone.profile)
  BY <1>1, <1>5 DEF Good, Sessions, LinkOf, SameCarried
<1>7. Sessions(b) /\ Carried(b)
  BY <1>1, <1>4, <1>5, <1>6, KeptSessions, KeptCarried DEF Good
<1>8. Good(synced) /\ synced.profile = a.profile
  BY <1>6, <1>7, SyncGood DEF SameCarried
<1> QED
  BY <1>2, <1>8

LEMMA EngageLinkGood ==
    ASSUME NEW a, Good(a), NEW e
    PROVE  Good(engageWifiDirectLink(a, e))
<1> DEFINE session == IF e.ok THEN "up" ELSE "none"
           pressed == a.pressed \ {"A"}
           b == [a EXCEPT !.teleopActive = FALSE, !.continuous = FALSE, !.link = TRUE,
                          !.session = session, !.pressed = pressed]
           synced == syncWifiRadioPolicyForProfile(b, a.profile, e)
<1>0. a \in State
  BY DEF Good, Sessions
<1>1. engageWifiDirectLink(a, e) = IF a.profile # "TeleopWifi" \/ a.link THEN a ELSE synced
  BY DEF engageWifiDirectLink
<1>2. session \in {"none", "up", "ready"} /\ pressed \in SUBSET {"A", "B"}
  BY <1>0 DEF State
<1> HIDE DEF session, pressed
<1>3. b \in State
  BY <1>0, <1>2 DEF State
<1>4. /\ SameSession(a, b) /\ SameCarried(a, b) /\ b.link = TRUE /\ b.teleopActive = FALSE
  BY <1>0 DEF State, SameSession, SameCarried
<1> HIDE DEF b
<1>5. a.profile = "TeleopWifi" => LinkOf(b, a.profile)
  BY <1>4 DEF LinkOf
<1>6. a.profile = "TeleopWifi" => Sessions(b) /\ Carried(b) /\ b.profile = a.profile
  BY <1>3, <1>4, <1>5, KeptSessions, KeptCarried DEF Good, SameCarried
<1>7. a.profile = "TeleopWifi" => Good(synced)
  BY <1>6, SyncGood
<1> QED
  BY <1>1, <1>7

(***************************************************************************)
(* Menu and buttons.                                                       *)
(***************************************************************************)
LEMMA TeleopEspNow ==
    /\ "TeleopEspNow" \in Profiles /\ "TeleopEspNow" \in EspNowProfiles
    /\ "TeleopEspNow" \notin CalibrationProfiles
BY DEF Profiles, EspNowProfiles, CalibrationProfiles

LEMMA RestoreGood ==
    ASSUME NEW a, Good(a), NEW e
    PROVE  LET b == restoreOledMenuBrowseMode(a, e)
           IN  /\ Good(b) /\ SameSession(a, b) /\ SameCarried(a, b) /\ OnlyStops(a, b)
               /\ b.browse /\ (b.link => a.link)
<1> DEFINE shown == [a EXCEPT !.browse = TRUE]
           b == syncWifiRadioPolicyForProfile(shown, a.profile, e)
<1>1. /\ shown \in State /\ SameSession(a, shown) /\ SameLink(a, shown)
      /\ SameCarried(a, shown) /\ shown.continuous = a.continuous /\ shown.browse
  BY DEF Good, Sessions, State, SameSession, SameLink, SameCarried
<1>2. restoreOledMenuBrowseMode(a, e) = b
  BY DEF restoreOledMenuBrowseMode
<1> HIDE DEF shown
<1>3. Sessions(shown) /\ Carried(shown) /\ shown.profile = a.profile
  BY <1>1, KeptSessions, KeptCarried DEF Good, SameCarried
<1>4. /\ Good(b) /\ SameSession(shown, b) /\ SameCarried(shown, b) /\ b.browse = shown.browse
      /\ OnlyStops(shown, b) /\ (b.link => shown.link)
  BY <1>3, SyncGood
<1> HIDE DEF b
<1> QED
  BY <1>1, <1>2, <1>4 DEF SameSession, SameLink, SameCarried, OnlyStops

\* The menu is asked for under a profile that shows it.
AtMenu(a) == a.profile \in EspNowProfiles /\ a.browse

LEMMA ReturnGood ==
    ASSUME NEW a, Good(a), NEW e
    PROVE  LET b == ReturnToMenu(a, e)
           IN  /\ Good(b) /\ AtMenu(b) /\ OnlyStops(a, b)
               /\ (a.profile = "TeleopWifi" => ~b.continuous)
<1> DEFINE c == applyControllerOperationProfile(a, "TeleopEspNow", e)
           b == restoreOledMenuBrowseMode(c, e)
<1>1. /\ Good(c) /\ c.profile = "TeleopEspNow" /\ OnlyStops(a, c)
      /\ (a.profile = "TeleopWifi" => ~c.continuous)
  BY TeleopEspNow, ApplyGood
<1> HIDE DEF c
<1>2. /\ Good(b) /\ SameCarried(c, b) /\ OnlyStops(c, b) /\ b.browse
  BY <1>1, RestoreGood
<1> HIDE DEF b
<1>3. AtMenu(b) /\ OnlyStops(a, b) /\ (a.profile = "TeleopWifi" => ~b.continuous)
  BY <1>1, <1>2, TeleopEspNow DEF AtMenu, SameCarried, OnlyStops
<1> QED
  BY <1>2, <1>3 DEF ReturnToMenu, b, c

LEMMA ActivateGood ==
    ASSUME NEW a, Good(a), NEW p \in Profiles, NEW e
    PROVE  Good(activateProfileFromMenu(a, p, e))
<1> DEFINE hidden == [a EXCEPT !.browse = FALSE]
           applied == applyControllerOperationProfile(hidden, p, e)
<1>1. /\ hidden \in State /\ SameSession(a, hidden) /\ SameLink(a, hidden)
      /\ SameCarried(a, hidden)
  BY DEF Good, Sessions, State, SameSession, SameLink, SameCarried
<1> HIDE DEF hidden
<1>2. Sessions(hidden) /\ Carried(hidden)
  BY <1>1, KeptSessions, KeptCarried DEF Good, SameCarried
<1>3. Good(applied)
  BY <1>2, ProfileGood DEF Sessions, Carried, MayLeave
<1> HIDE DEF applied
<1>4. Good(prepareEspNowTeleopMirrorStart(applied, e))
  BY <1>3, MirrorStartGood
<1> QED
  BY <1>3, <1>4 DEF activateProfileFromMenu, hidden, applied

\* A commit that succeeded ends the session.
LEMMA CommittedGood ==
    ASSUME NEW a, Good(a), NEW e, Committed(a, e)
    PROVE  LET b == [commitCalibrationRangeCapture(a, e) EXCEPT !.engaged = FALSE]
           IN  /\ b \in State /\ SameLink(a, b) /\ SameCarried(a, b)
               /\ (~a.centerPending => Good(b))
<1> DEFINE committed == commitCalibrationRangeCapture(a, e)
           b == [committed EXCEPT !.engaged = FALSE]
<1>1. /\ committed \in State /\ Elsewhere(a, committed)
      /\ committed.phase = 0 /\ committed.centerPending = a.centerPending
  BY CommitKeeps DEF Good, Sessions
<1> HIDE DEF committed
<1>2. /\ b \in State /\ Elsewhere(committed, b)
      /\ b.phase = 0 /\ b.engaged = FALSE /\ b.centerPending = a.centerPending
  <2>1. committed \in State
    BY <1>1
  <2>2. b \in State
    BY <2>1 DEF State
  <2>3. /\ Elsewhere(committed, b) /\ b.phase = committed.phase /\ b.engaged = FALSE
        /\ b.centerPending = committed.centerPending
    BY <2>1 DEF State, Elsewhere, SameLink, SameCarried, SameRadio
  <2> QED
    BY <1>1, <2>2, <2>3
<1> HIDE DEF b
<1>3. Elsewhere(a, b)
  BY <1>1, <1>2 DEF Elsewhere, SameLink, SameCarried, SameRadio
<1>4. ~a.centerPending => Good(b)
  BY <1>2, <1>3, CalibratedGood DEF SessionOf
<1> QED
  BY <1>2, <1>3, <1>4 DEF b, committed, Elsewhere

LEMMA ConfirmGood ==
    ASSUME NEW a, Good(a), NEW e
    PROVE  Good(CalibrationConfirm(a, e))
<1>1. CASE a.phase = 0
  BY <1>1, CenterGood DEF CalibrationConfirm
<1>2. CASE a.phase # 0
  <2> DEFINE committed == commitCalibrationRangeCapture(a, e)
             b == [committed EXCEPT !.engaged = FALSE]
  <2>1. Good(committed)
    BY CommitGood
  <2>2. ~a.centerPending
    BY <1>2 DEF Good, Sessions, SessionOf
  <2>3. Committed(a, e) => Good(b)
    BY <2>2, CommittedGood
  <2> HIDE DEF committed, b
  <2>4. Committed(a, e) => Good(ReturnToMenu(b, e))
    BY <2>3, ReturnGood
  <2> QED
    BY <1>2, <2>1, <2>4 DEF CalibrationConfirm, committed, b
<1> QED
  BY <1>1, <1>2

LEMMA CalibrationButtonsGood ==
    ASSUME NEW a, Good(a), NEW A, NEW B, NEW e
    PROVE  Good(CalibrationPreviewButtons(a, A, B, e)) /\ Good(CalibrationActiveButtons(a, A, B, e))
<1>1. Good(CalibrationPreviewButtons(a, A, B, e))
  BY EngageCalibrationGood, ReturnGood DEF CalibrationPreviewButtons
<1>2. Good(CalibrationActiveButtons(a, A, B, e))
  <2> DEFINE confirmed == IF A THEN CalibrationConfirm(a, e) ELSE a
             b == [confirmed EXCEPT !.banner = TRUE]
  <2>1. Good(confirmed)
    BY ConfirmGood
  <2> HIDE DEF confirmed
  <2>2. Good(b)
    BY <2>1, SetGood
  <2> HIDE DEF b
  <2>3. Good(ReturnToMenu(b, e))
    BY <2>2, ReturnGood
  <2> QED
    BY <2>1, <2>3 DEF CalibrationActiveButtons, confirmed, b
<1> QED
  BY <1>1, <1>2

LEMMA MirrorButtonsGood ==
    ASSUME NEW a, Good(a), NEW A, NEW B, NEW e
    PROVE  Good(TeleopMirrorButtons(a, A, B, e))
<1> DEFINE b == [a EXCEPT !.continuous = TRUE]
           started == IF A THEN prepareEspNowTeleopMirrorStart(b, e) ELSE a
<1>1. Good(b)
  BY SetGood
<1> HIDE DEF b
<1>2. Good(started)
  BY <1>1, MirrorStartGood
<1> HIDE DEF started
<1>3. Good(restoreOledMenuBrowseMode(releaseFollowerTeleopHold(started, e), e))
  BY <1>2, ReleaseGood, RestoreGood
<1> QED
  BY <1>2, <1>3 DEF TeleopMirrorButtons, started, b

LEMMA OtherButtonsGood ==
    ASSUME NEW a, Good(a), NEW A, NEW B, NEW e
    PROVE  Good(PassthroughButtons(a, A, B, e)) /\ Good(OtaButtons(a, A, B, e))
<1> DEFINE engaged == IF A THEN engagePassthroughMode(a) ELSE a
           armed == IF A THEN engageOtaMode(a, e) ELSE a
<1>1. Good(engaged) /\ Good(armed)
  BY TeleopEspNow, PassthroughGood, OtaGood
<1> HIDE DEF engaged, armed
<1>2. /\ Good(restoreOledMenuBrowseMode(disengagePassthroughMode(engaged, "TeleopEspNow", e), e))
      /\ Good(ReturnToMenu(armed, e))
  BY <1>1, TeleopEspNow, PassthroughGood, RestoreGood, ReturnGood
<1> QED
  BY <1>1, <1>2 DEF PassthroughButtons, OtaButtons, engaged, armed

LEMMA IdleLinkGood ==
    ASSUME NEW a, Good(a)
    PROVE  LET b == [a EXCEPT !.teleopActive = FALSE]
           IN  Good(b) /\ b.profile = a.profile /\ b.link = a.link
<1> DEFINE b == [a EXCEPT !.teleopActive = FALSE]
<1>1. /\ b \in State /\ SameSession(a, b) /\ SameCarried(a, b) /\ SameRadio(a, b)
      /\ b.link = a.link /\ b.session = a.session /\ ~b.teleopActive
  BY DEF Good, Sessions, State, SameSession, SameCarried, SameRadio
<1> HIDE DEF b
<1>2. LinkOf(b, a.profile) /\ b.profile = a.profile /\ RadioOf(b)
  BY <1>1 DEF Good, Sessions, LinkOf, RadioOf, SameCarried, SameRadio
<1>3. Sessions(b) /\ Carried(b)
  BY <1>1, <1>2, KeptSessions, KeptCarried DEF Good
<1> QED
  BY <1>1, <1>2, <1>3 DEF b, Good

LEMMA WifiButtonsGood ==
    ASSUME NEW a, Good(a), NEW A, NEW B, NEW e
    PROVE  Good(TeleopWifiButtons(a, A, B, e))
<1> DEFINE engaged == IF A THEN engageWifiDirectLink(a, e) ELSE a
           idle == [a EXCEPT !.teleopActive = FALSE]
           stopped == disengageWifiDirectLink(releaseFollowerTeleopHold(idle, e))
           active == [a EXCEPT !.teleopActive = TRUE, !.continuous = TRUE]
           started == IF A THEN active ELSE a
<1>1. Good(restoreOledMenuBrowseMode(disengageWifiDirectLink(a), e))
  BY DisengageLinkGood, RestoreGood
<1>2. Good(engaged)
  BY EngageLinkGood
<1>3. Good(idle)
  BY IdleLinkGood
<1> HIDE DEF idle
<1>4. Good(stopped)
  BY <1>3, ReleaseGood, DisengageLinkGood
<1>5. a.session = "ready" => Good(started)
  <2>0. a \in State
    BY DEF Good, Sessions
  <2>1. /\ active \in State /\ SameSession(a, active) /\ SameCarried(a, active)
        /\ SameRadio(a, active) /\ active.link = a.link /\ active.session = a.session
    <3>1. active \in State
      BY <2>0 DEF State
    <3> QED
      BY <2>0, <3>1 DEF State, SameSession, SameCarried, SameRadio
  <2> HIDE DEF active
  <2>2. a.session = "ready" => LinkOf(active, a.profile)
    BY <2>1 DEF Good, Sessions, LinkOf
  <2>3. a.session = "ready" => Sessions(active) /\ Carried(active)
    BY <2>1, <2>2, KeptSessions, KeptCarried DEF Good, SameCarried
  <2>4. RadioOf(active)
    BY <2>1 DEF Good, RadioOf, SameCarried, SameRadio
  <2> QED
    BY <2>3, <2>4 DEF Good
<1> HIDE DEF engaged, stopped, started
<1>6. /\ Good(ReturnToMenu(engaged, e)) /\ Good(ReturnToMenu(stopped, e))
      /\ a.session = "ready" =>
            Good(restoreOledMenuBrowseMode(disengageWifiDirectLink(started), e))
  BY <1>2, <1>4, <1>5, DisengageLinkGood, RestoreGood, ReturnGood
<1>7. CASE ~a.link
  BY <1>2, <1>6, <1>7 DEF TeleopWifiButtons, engaged
<1>8. CASE a.link /\ a.session # "ready"
  BY <1>1, <1>8 DEF TeleopWifiButtons
<1>9. CASE a.link /\ a.session = "ready" /\ ~a.teleopActive
  BY <1>5, <1>6, <1>9 DEF TeleopWifiButtons, started, active
<1>10. CASE a.link /\ a.session = "ready" /\ a.teleopActive
  BY <1>6, <1>10 DEF TeleopWifiButtons, stopped, idle
<1> QED
  BY <1>7, <1>8, <1>9, <1>10

LEMMA ButtonsGood ==
    ASSUME NEW a, Good(a), NEW A, NEW B, NEW e
    PROVE  Good(Buttons(a, A, B, e))
<1>0. a.profile \in Profiles
  BY DEF Good, Sessions, State
<1>1. CASE a.profile = "Passthrough"
  BY <1>1, OtherButtonsGood DEF Buttons, CalibrationProfiles, EspNowProfiles
<1>2. CASE a.profile \in CalibrationProfiles
  BY <1>2, CalibrationButtonsGood DEF Buttons, CalibrationProfiles, EspNowProfiles
<1>3. CASE a.profile = "TeleopWifi"
  BY <1>3, WifiButtonsGood DEF Buttons, CalibrationProfiles, EspNowProfiles
<1>4. CASE a.profile \in EspNowProfiles
  BY <1>4, MirrorButtonsGood DEF Buttons, CalibrationProfiles, EspNowProfiles
<1>5. CASE a.profile = "OtaReady"
  BY <1>5, OtherButtonsGood DEF Buttons, CalibrationProfiles, EspNowProfiles
<1> QED
  BY <1>0, <1>1, <1>2, <1>3, <1>4, <1>5 DEF Profiles

(***************************************************************************)
(* The dashboard's commands, the acknowledgements and the tick.            *)
(***************************************************************************)
LEMMA SetTransportGood ==
    ASSUME NEW a, Good(a), NEW p \in DOMAIN TransportOf, p \in Profiles, NEW e
    PROVE  Good(SetTransport(a, p, TransportOf[p], e))
<1> DEFINE t == TransportOf[p]
           c == applyControllerOperationProfile(a, p, e)
           b == [c EXCEPT !.transport = t]
<1>1. Good(c) /\ c.profile = p
  BY ApplyGood
<1> HIDE DEF c
<1>2. c.transport = t /\ c \in State
  BY <1>1 DEF Good, Carried, Sessions
<1> HIDE DEF t
<1>3. b = c
  BY <1>2 DEF State
<1> QED
  BY <1>1, <1>3 DEF SetTransport, b, c, t

LEMMA TransportGood ==
    ASSUME NEW a, Good(a), NEW command \in TransportCommands, NEW e
    PROVE  Good(handleTeleopTransportCommand(a, command, e))
<1> DEFINE b == IF a.passthrough THEN disengagePassthroughMode(a, "TeleopEspNow", e) ELSE a
<1>1. Good(b)
  BY TeleopEspNow, PassthroughGood
<1> HIDE DEF b
<1>2. CASE command \in CalibrationProfiles
  BY <1>1, <1>2, ApplyGood, EngageCalibrationGood
  DEF handleTeleopTransportCommand, b, Profiles, CalibrationProfiles
<1>3. CASE command = "Passthrough"
  <2>1. Good(applyControllerOperationProfile(b, command, e))
    BY <1>1, <1>3, ApplyGood DEF Profiles
  <2>2. Good(engagePassthroughMode(applyControllerOperationProfile(b, command, e)))
    BY <2>1, TeleopEspNow, PassthroughGood
  <2> QED
    BY <1>3, <2>2 DEF handleTeleopTransportCommand, b, CalibrationProfiles
<1>4. /\ "TeleopEspNow" \in DOMAIN TransportOf /\ TransportOf["TeleopEspNow"] = "EspNow"
      /\ "TeleopWifi" \in DOMAIN TransportOf /\ TransportOf["TeleopWifi"] = "WifiUdp"
  BY DEF TransportOf, EspNowProfiles
<1>5. CASE command = "EspNow"
  <2>1. Good(SetTransport(b, "TeleopEspNow", "EspNow", e))
    BY <1>1, <1>4, TeleopEspNow, SetTransportGood
  <2> QED
    BY <1>5, <2>1 DEF handleTeleopTransportCommand, b, CalibrationProfiles
<1>6. CASE command = "WifiUdp"
  <2>1. Good(SetTransport(b, "TeleopWifi", "WifiUdp", e))
    <3>1. "TeleopWifi" \in Profiles
      BY DEF Profiles
    <3> QED
      BY <1>1, <1>4, <3>1, SetTransportGood
  <2> QED
    BY <1>6, <2>1 DEF handleTeleopTransportCommand, b, CalibrationProfiles
<1> QED
  BY <1>2, <1>3, <1>5, <1>6 DEF TransportCommands

\* Finish may find a center that is waited for: the profile that follows clears
\* it.
LEMMA CaptureGood ==
    ASSUME NEW a, Good(a), NEW e,
           NEW command \in {"ConfirmCenter", "Finish", "Cancel", "Sample"}
    PROVE  Good(handleTeleopCalibrationCaptureCommand(a, command, e))
<1>1. CASE ~a.engaged
  BY <1>1 DEF handleTeleopCalibrationCaptureCommand
<1>2. CASE a.engaged /\ command = "ConfirmCenter"
  BY <1>2, CenterGood DEF handleTeleopCalibrationCaptureCommand
<1>3. CASE a.engaged /\ command = "Sample"
  BY <1>3, SampleGood DEF handleTeleopCalibrationCaptureCommand
<1>4. CASE a.engaged /\ command = "Cancel"
  <2>1. Good([a EXCEPT !.banner = TRUE])
    BY SetGood
  <2>2. Good(applyControllerOperationProfile([a EXCEPT !.banner = TRUE], "TeleopEspNow", e))
    BY <2>1, TeleopEspNow, ApplyGood
  <2> QED
    BY <1>4, <2>2 DEF handleTeleopCalibrationCaptureCommand
<1>5. CASE a.engaged /\ command = "Finish"
  <2> DEFINE committed == commitCalibrationRangeCapture(a, e)
             ended == [committed EXCEPT !.engaged = FALSE]
             b == [committed EXCEPT !.banner = TRUE, !.engaged = FALSE]
  <2>1. Good(committed)
    BY CommitGood
  <2>2. CASE Committed(a, e)
    <3>1. ended \in State /\ SameLink(a, ended) /\ SameCarried(a, ended)
      BY <2>2, CommittedGood
    <3>2. b \in State /\ SameLink(ended, b) /\ SameCarried(ended, b)
      BY <2>1 DEF Good, Sessions, State, SameLink, SameCarried
    <3> HIDE DEF committed, ended, b
    <3>3. LinkOf(b, b.profile) /\ MayLeave(b, b.profile, "TeleopEspNow")
          /\ PluggedOf(b, b.profile)
      BY <1>5, <3>1, <3>2, TeleopEspNow
      DEF LinkOf, SameLink, SameCarried, MayLeave, Good, Sessions, SessionOf, Carried, PluggedOf
    <3>4. Good(applyControllerOperationProfile(b, "TeleopEspNow", e))
      BY <3>2, <3>3, TeleopEspNow, ProfileGood
    <3> QED
      BY <1>5, <2>2, <3>4 DEF handleTeleopCalibrationCaptureCommand, committed, b
  <2>3. CASE ~Committed(a, e)
    BY <1>5, <2>1, <2>3 DEF handleTeleopCalibrationCaptureCommand
  <2> QED
    BY <2>2, <2>3
<1> QED
  BY <1>1, <1>2, <1>3, <1>4, <1>5

LEMMA HandleGood ==
    ASSUME NEW a, Good(a), NEW command \in AllCommands, NEW e
    PROVE  Good(Handle(a, command, e))
<1> DEFINE begun == [a EXCEPT !.awaiting = "nothing"]
           await(op) == IF e.radio = "sent" THEN [begun EXCEPT !.awaiting = op] ELSE begun
<1>1. Good(begun)
  BY SetGood
<1> HIDE DEF begun
<1>2. Good(await("debugDisable")) /\ Good(await("other"))
  BY <1>1, SetGood
<1>3. Good([begun EXCEPT !.continuous = TRUE])
  BY <1>1, SetGood
<1>4. CASE command \in {"FollowerDebugDisable", "Tracked", "Local", "TeleopStart"}
  BY <1>1, <1>2, <1>3, <1>4 DEF Handle, begun, TransportCommands, CalibrationProfiles
<1>5. CASE command = "TeleopStop"
  <2>1. Good(releaseFollowerTeleopHold(begun, e))
    BY <1>1, ReleaseGood
  <2> QED
    BY <1>5, <2>1 DEF Handle, begun, TransportCommands, CalibrationProfiles
<1>6. CASE command \in TransportCommands
  <2>1. Good(handleTeleopTransportCommand(begun, command, e))
    BY <1>1, <1>6, TransportGood
  <2> QED
    BY <1>6, <2>1 DEF Handle, begun, TransportCommands, CalibrationProfiles
<1>7. CASE command \in {"ConfirmCenter", "Finish", "Cancel", "Sample"}
  <2>1. Good(handleTeleopCalibrationCaptureCommand(begun, command, e))
    BY <1>1, <1>7, CaptureGood
  <2> QED
    BY <1>7, <2>1 DEF Handle, begun, TransportCommands, CalibrationProfiles
<1> QED
  BY <1>4, <1>5, <1>6, <1>7 DEF AllCommands, TransportCommands, CalibrationProfiles

LEMMA TrackingGood ==
    ASSUME NEW a, Good(a), NEW outcome \in {"waits", "ends", "refused"}, NEW e
    PROVE  Good(AckTracking(a, outcome, e))
<1> DEFINE b == [a EXCEPT !.awaiting = "nothing"]
<1>1. Good(b)
  BY SetGood
<1> HIDE DEF b
<1>2. Good(clearDeferHomeStaReconnectIfDone(b, e))
  BY <1>1, ClearDeferGood
<1> QED
  BY <1>1, <1>2 DEF AckTracking, b

(***************************************************************************)
(* The mode, and when the arm is mirrored.                                 *)
(***************************************************************************)
LEMMA ModeTyped == \A a, linked, available, held, fault, pad :
    ComputedMode(a, linked, available, held, fault, pad) \in Modes
<1> SUFFICES ASSUME NEW a, NEW linked, NEW available, NEW held, NEW fault, NEW pad
             PROVE  ComputedMode(a, linked, available, held, fault, pad) \in Modes
  OBVIOUS
<1>1. HeldMode(a, linked) \in Modes
  BY DEF HeldMode, Modes, CalibrationProfiles
<1>2. PadlessMode(a, linked) \in Modes
  BY DEF PadlessMode, Modes
<1>3. RuntimeMode(a, linked, available) \in Modes
  BY DEF RuntimeMode, Modes, CalibrationProfiles
<1> QED
  BY <1>1, <1>2, <1>3 DEF ComputedMode, Modes

\* Where the arm may be mirrored; the rest of MirrorWhenMeant is that the state
\* is good.
MayMirror(a) ==
    /\ a.profile \in EspNowProfiles \cup {"TeleopWifi"}
    /\ a.profile = "TeleopWifi" => a.link

LEMMA TeleoperationMirrors ==
    ASSUME NEW a, Good(a), a.continuous, NEW linked, NEW available, NEW held, NEW fault, NEW pad,
           ComputedMode(a, linked, available, held, fault, pad) = "Teleoperation"
    PROVE  MayMirror(a)
<1>0. /\ a.profile \in CalibrationProfiles \cup EspNowProfiles
                            \cup {"TeleopWifi", "Passthrough", "OtaReady"}
      /\ a.teleopActive => a.link
  BY DEF Good, Sessions, LinkOf, State, Profiles
<1>1. a.profile # "OtaReady" /\ a.profile # "Passthrough"
  BY DEF ComputedMode
<1>2. CASE held
  BY <1>0, <1>1, <1>2 DEF ComputedMode, HeldMode, MayMirror
<1>3. CASE ~held /\ ~pad
  <2>1. PadlessMode(a, linked) = "Teleoperation"
    BY <1>1, <1>3 DEF ComputedMode
  <2>2. a.profile \in EspNowProfiles \/ (a.profile = "TeleopWifi" /\ a.teleopActive)
    BY <2>1 DEF PadlessMode
  <2> QED
    BY <1>0, <2>2 DEF MayMirror, EspNowProfiles
<1>4. CASE ~held /\ pad
  <2>1. CASE a.profile \in CalibrationProfiles
    BY <1>1, <1>4, <2>1 DEF ComputedMode, RuntimeMode, CalibrationProfiles
  <2>2. CASE a.profile = "TeleopWifi"
    BY <1>0, <1>1, <1>4, <2>2 DEF ComputedMode, RuntimeMode, MayMirror, CalibrationProfiles
  <2> QED
    BY <1>0, <1>1, <2>1, <2>2 DEF MayMirror
<1> QED
  BY <1>2, <1>3, <1>4

Mirroring(a) == Mirrors(a) => MayMirror(a)

LEMMA MirrorMeant == Good(app) /\ (pc = "core" => Mirroring(app)) => MirrorWhenMeant
<1> SUFFICES ASSUME Good(app), pc = "core", Mirrors(app), MayMirror(app)
             PROVE  /\ app.profile \in DOMAIN TransportOf
                    /\ app.transport = TransportOf[app.profile]
                    /\ app.profile = "TeleopWifi" => app.link
                    /\ ~app.passthrough /\ ~app.engaged
  BY DEF MirrorWhenMeant, Mirroring
<1>1. /\ app.profile \in DOMAIN TransportOf /\ app.profile # "Passthrough"
      /\ app.profile \notin CalibrationProfiles
  BY DEF MayMirror, TransportOf, EspNowProfiles, CalibrationProfiles
<1> QED
  BY <1>1 DEF MayMirror, Good, Carried, PluggedOf, Sessions, SessionOf

(***************************************************************************)
(* Every step keeps a good state, and ends a tick where it may.            *)
(***************************************************************************)
AppInv == Good(app) /\ pc \in Steps /\ raw \in BOOLEAN /\ (pc = "core" => Mirroring(app))

LEMMA BootedGood ==
    ASSUME NEW flash \in [Arms -> {"none", "default", "captured"}], NEW ready \in BOOLEAN
    PROVE  LET b == Booted(flash, ready) IN Good(b) /\ ~b.continuous
<1> DEFINE b == Booted(flash, ready)
<1>1. /\ Loaded(flash, ready) \in [Arms -> {"zero", "default", "captured"}]
      /\ Reloaded(flash, ready) \in [Arms -> {"none", "default", "captured"}]
  BY DEF Loaded, Reloaded
<1>2. b \in State
  BY <1>1 DEF Booted, State, Profiles, EspNowProfiles, Modes
<1>3. /\ b.profile = "TeleopEspNow" /\ b.engaged = FALSE /\ b.phase = 0 /\ b.centerPending = FALSE
      /\ b.link = FALSE /\ b.session = "none" /\ b.teleopActive = FALSE
      /\ b.browse = TRUE /\ b.listening = FALSE /\ b.transport = "EspNow"
      /\ b.passthrough = FALSE /\ b.continuous = FALSE
  BY DEF Booted
<1> HIDE DEF b
<1>4. Sessions(b) /\ RadioOf(b)
  BY <1>2, <1>3 DEF Sessions, SessionOf, LinkOf, RadioOf
<1>5. Carried(b)
  BY <1>3 DEF Carried, PluggedOf, TransportOf, EspNowProfiles
<1> QED
  BY <1>3, <1>4, <1>5 DEF Good, b

LEMMA CoreStep == AppInv /\ Core => AppInv'
<1> SUFFICES ASSUME Good(app), Core PROVE AppInv'
  BY DEF AppInv
<1>1. ASSUME NEW e,
             app' = LET primed == updateEspNowStaPrime(app, e)
                        ticked == IF primed.link THEN tickSession(primed, e) ELSE primed
                    IN  clearDeferHomeStaReconnectIfDone(ticked, e)
      PROVE  Good(app')
  <2> DEFINE primed == updateEspNowStaPrime(app, e)
             ticked == IF primed.link THEN tickSession(primed, e) ELSE primed
  <2>1. Good(primed)
    BY PrimeGood
  <2> HIDE DEF primed
  <2>2. Good(ticked)
    BY <2>1, TickSessionGood
  <2> HIDE DEF ticked
  <2>3. Good(clearDeferHomeStaReconnectIfDone(ticked, e))
    BY <2>2, ClearDeferGood
  <2> QED
    BY <1>1, <2>3 DEF primed, ticked
<1>2. Good(app')
  BY <1>1 DEF Core
<1>3. pc' = "commands" /\ raw' \in BOOLEAN
  BY DEF Core, Step, Good, Sessions, State
<1> QED
  BY <1>2, <1>3 DEF AppInv, Steps

LEMMA CommandStep == AppInv /\ Command => AppInv'
<1>1. RawCommands \subseteq AllCommands
  BY DEF RawCommands, AllCommands, TransportCommands, CalibrationProfiles
<1>2. Good(app) /\ Command => Good(app')
  BY <1>1, HandleGood DEF Command
<1> QED
  BY <1>2 DEF AppInv, Steps, Command, Step

LEMMA AcknowledgementsStep == AppInv /\ Acknowledgements => AppInv'
<1>1. ASSUME Good(app), NEW e, NEW tracked \in {"waits", "ends", "refused"}, NEW center,
             app' = pollFollowerCalibrationCenterAck(AckTracking(app, tracked, e), center)
      PROVE  Good(app')
  BY <1>1, TrackingGood, PollGood
<1>2. Good(app) /\ Acknowledgements => Good(app')
  BY <1>1 DEF Acknowledgements
<1> QED
  BY <1>2 DEF AppInv, Steps, Acknowledgements, Step

LEMMA InputStep == AppInv /\ Input => AppInv'
<1> SUFFICES ASSUME Good(app), Input, raw \in BOOLEAN PROVE AppInv'
  BY DEF AppInv
<1> DEFINE b == [app EXCEPT !.pressed = {}]
<1>1. Good(b)
  BY SetGood
<1> HIDE DEF b
<1>2. \A p \in Profiles : \A e : Good(activateProfileFromMenu(b, p, e))
  BY <1>1, ActivateGood
<1>3. \A A, B, e : Good(Buttons(b, A, B, e))
  BY <1>1, ButtonsGood
<1>4. CASE MenuInput
  BY <1>1, <1>2, <1>4, ConstantsAssumption DEF MenuInput, b, Input, Step, AppInv, Steps
<1>5. CASE ButtonInput
  BY <1>3, <1>5 DEF ButtonInput, b, Input, Step, AppInv, Steps
<1> QED
  BY <1>4, <1>5 DEF Input

LEMMA ModeStep == AppInv /\ Mode => AppInv'
<1> SUFFICES ASSUME AppInv, Mode PROVE AppInv'
  OBVIOUS
<1>0. /\ Good(app) /\ raw' \in BOOLEAN /\ pc' = "core"
  BY DEF AppInv, Mode, Step
<1>1. PICK linked, available, held, fault, pad, grown \in BOOLEAN :
        LET e == [radio |-> "sent", ok |-> TRUE, grown |-> grown, wifi |-> FALSE, acked |-> FALSE]
            sampled == IF ~raw /\ app.engaged THEN sampleCalibrationRangeCapture(app, e) ELSE app
        IN  app' = [sampled EXCEPT
                        !.mode = ComputedMode(sampled, linked, available, held, fault, pad)]
  BY DEF Mode
<1> DEFINE e == [radio |-> "sent", ok |-> TRUE, grown |-> grown, wifi |-> FALSE, acked |-> FALSE]
           sampled == IF ~raw /\ app.engaged THEN sampleCalibrationRangeCapture(app, e) ELSE app
           mode == ComputedMode(sampled, linked, available, held, fault, pad)
<1>2. app' = [sampled EXCEPT !.mode = mode]
  BY <1>1
<1>3. Good(sampled)
  BY <1>0, SampleGood
<1> HIDE DEF sampled
<1>4. mode \in Modes
  BY ModeTyped
<1>5. sampled.continuous /\ mode = "Teleoperation" => MayMirror(sampled)
  BY <1>3, TeleoperationMirrors
<1> HIDE DEF mode
<1>6. Good(app')
  BY <1>2, <1>3, <1>4, SetGood
<1>7. /\ app'.mode = mode /\ app'.continuous = sampled.continuous
      /\ app'.profile = sampled.profile /\ app'.link = sampled.link
  BY <1>2, <1>3 DEF Good, Sessions, State
<1>8. Mirrors(app') => MayMirror(app')
  BY <1>5, <1>7 DEF Mirrors, MayMirror
<1> QED
  BY <1>0, <1>6, <1>8 DEF AppInv, Steps, Mirroring, Mirrors, MayMirror

LEMMA OtherSteps ==
    AppInv /\ ((\E button \in {"A", "B"} : Press(button)) \/ PrimeTimeout \/ Restart) => AppInv'
<1>0. AppInv => app \in State
  BY DEF AppInv, Good, Sessions
<1>1. ASSUME AppInv, NEW button \in {"A", "B"}, Press(button) PROVE AppInv'
  <2> DEFINE pressed == app.pressed \cup {button}
  <2>1. pressed \in SUBSET {"A", "B"} /\ app' = [app EXCEPT !.pressed = pressed]
    BY <1>0, <1>1 DEF Press, State
  <2> HIDE DEF pressed
  <2>2. Good(app')
    BY <1>1, <2>1, SetGood DEF AppInv
  <2> QED
    BY <1>1, <2>2 DEF AppInv, Press
<1>2. ASSUME AppInv, PrimeTimeout PROVE AppInv'
  <2>1. Good(app')
    BY <1>2, SetGood DEF AppInv, PrimeTimeout
  <2>2. /\ app'.mode = app.mode /\ app'.continuous = app.continuous
        /\ app'.profile = app.profile /\ app'.link = app.link
    BY <1>0, <1>2 DEF PrimeTimeout, State
  <2>3. Mirroring(app) => Mirroring(app')
    BY <2>2 DEF Mirroring, Mirrors, MayMirror
  <2> QED
    BY <1>2, <2>1, <2>3 DEF AppInv, PrimeTimeout, Mirroring, Mirrors, MayMirror
<1>3. ASSUME AppInv, Restart PROVE AppInv'
  <2>1. app.flash \in [Arms -> {"none", "default", "captured"}]
    BY <1>0, <1>3, ProfilesTyped
  <2>2. Good(app') /\ ~app'.continuous
    BY <1>3, <2>1, BootedGood DEF Restart
  <2> QED
    BY <1>3, <2>2 DEF AppInv, Restart, Steps, Mirroring, Mirrors
<1> QED
  BY <1>1, <1>2, <1>3

LEMMA Invariance == AppInv /\ [Next]_vars => AppInv'
<1>1. AppInv /\ UNCHANGED vars => AppInv'
  BY DEF AppInv, vars, Mirroring, Mirrors, MayMirror
<1> QED
  BY <1>1, CoreStep, CommandStep, AcknowledgementsStep, InputStep, ModeStep, OtherSteps DEF Next

THEOREM AppInvariant == Spec => []AppInv
<1>1. Init => AppInv
  <2>1. ASSUME Init PROVE Good(app) /\ ~app.continuous
    <3>1. [r \in Arms |-> "none"] \in [Arms -> {"none", "default", "captured"}]
      OBVIOUS
    <3> QED
      BY <2>1, <3>1, BootedGood DEF Init
  <2> QED
    BY <2>1 DEF Init, AppInv, Steps, Mirroring, Mirrors
<1> QED
  BY <1>1, Invariance, PTL DEF Spec

\* Every member of LeaderApp keeps its type, whatever handlers write it.
THEOREM TypeCorrect == Spec => []TypeOK
<1>1. AppInv => TypeOK
  BY DEF AppInv, Good, Sessions, TypeOK
<1> QED
  BY <1>1, AppInvariant, PTL

\* Whatever order buttons, commands, late acknowledgements and restarts come in:
\* a calibration session only exists under a calibration profile, the range
\* phase only inside it, and a center is only waited for before it
\* (leader_app_controller_profile.cpp, leader_app_commands_calibration.cpp).
THEOREM CalibrationSessionHolds == Spec => []CalibrationSession
<1>1. AppInv => CalibrationSession
  BY DEF AppInv, Good, Sessions, SessionOf, CalibrationSession
<1> QED
  BY <1>1, AppInvariant, PTL

\* And no Wi-Fi direct session runs without its link, no link outlives the
\* TeleopWifi profile, no teleoperation outlives the session.
THEOREM LinkSessionHolds == Spec => []LinkSession
<1>1. AppInv => LinkSession
  BY DEF AppInv, Good, Sessions, LinkOf, LinkSession
<1> QED
  BY <1>1, AppInvariant, PTL

\* Between any two steps the home network, the dashboard's server and the access
\* point are what the profile allows: every path that changes one of them, or
\* the profile, ends in syncWifiRadioPolicyForProfile or changes nothing the
\* policy reads (leader_app_wifi_policy.cpp).
THEOREM RadioPolicyHolds == Spec => []RadioPolicy
<1>1. AppInv => RadioPolicy
  BY DEF AppInv, Good, RadioOf, RadioPolicy
<1> QED
  BY <1>1, AppInvariant, PTL

\* When a tick ends, the mirror task only sends under a teleoperation profile,
\* by its transport and over a link that is engaged, never while the arm is
\* calibrated or the bus handed to the host, whatever the dashboard started.
THEOREM MirrorWhenMeantHolds == Spec => []MirrorWhenMeant
<1>1. AppInv => MirrorWhenMeant
  BY MirrorMeant DEF AppInv
<1> QED
  BY <1>1, AppInvariant, PTL

(***************************************************************************)
(* B leads back.                                                           *)
(***************************************************************************)
MenuShown(a) ==
    /\ a.browse /\ a.profile \in EspNowProfiles \cup {"Passthrough"}
    /\ ~a.continuous /\ ~a.passthrough /\ ~a.engaged

\* Depth without the banner.
LEMMA DepthIs ==
    ASSUME NEW a \in State
    PROVE  Depth(a) =
            IF MenuShown(a) THEN 0
            ELSE IF \/ a.link /\ ~a.teleopActive
                    \/ ~a.link /\ a.continuous /\ a.profile \notin EspNowProfiles
            THEN 2
            ELSE 1
<1> DEFINE b == [a EXCEPT !.banner = FALSE]
<1>1. /\ b.browse = a.browse /\ ~b.banner /\ b.profile = a.profile
      /\ b.continuous = a.continuous /\ b.passthrough = a.passthrough /\ b.engaged = a.engaged
  BY DEF State
<1> HIDE DEF b
<1>2. shouldShowInteractiveOledMenu(b) <=> MenuShown(a)
  BY <1>1 DEF shouldShowInteractiveOledMenu, MenuShown
<1> QED
  BY <1>2 DEF Depth, b

\* Under an ESP-NOW profile that shows it, only mirroring hides the menu.
LEMMA DepthAtMenu ==
    ASSUME NEW a, Good(a), AtMenu(a)
    PROVE  Depth(a) = IF a.continuous THEN 1 ELSE 0
<1>1. a \in State /\ ~a.engaged /\ ~a.passthrough /\ ~a.link
  BY DEF Good, Sessions, SessionOf, LinkOf, Carried, PluggedOf, AtMenu, CalibrationProfiles,
         EspNowProfiles
<1> QED
  BY <1>1, DepthIs DEF AtMenu, MenuShown

LEMMA ReturnLeads ==
    ASSUME NEW a, NEW b, Good(a), Good(b), ~MenuShown(a), AtMenu(b), OnlyStops(a, b),
           a.profile \in EspNowProfiles \/ a.link => ~b.continuous
    PROVE  Depth(b) < Depth(a)
<1>1. a \in State
  BY DEF Good, Sessions
<1>2. CASE b.continuous
  <2>1. Depth(b) = 1
    BY <1>2, DepthAtMenu
  <2>2. Depth(a) = 2
    BY <1>1, <1>2, DepthIs DEF OnlyStops
  <2> QED
    BY <2>1, <2>2
<1>3. CASE ~b.continuous
  <2>1. Depth(b) = 0
    BY <1>3, DepthAtMenu
  <2>2. Depth(a) \in {1, 2}
    BY <1>1, DepthIs
  <2> QED
    BY <2>1, <2>2
<1> QED
  BY <1>2, <1>3

\* B under a profile that goes with the menu.
LEMMA ReturnToMenuLeads ==
    ASSUME NEW a, Good(a), ~MenuShown(a), a.profile \notin EspNowProfiles, ~a.link,
           NEW c, Good(c), OnlyStops(a, c), c.profile = a.profile, NEW e
    PROVE  Depth(ReturnToMenu(c, e)) < Depth(a)
<1> DEFINE b == ReturnToMenu(c, e)
<1>1. Good(b) /\ AtMenu(b) /\ OnlyStops(c, b)
  BY ReturnGood
<1> HIDE DEF b
<1>2. Depth(b) < Depth(a)
  BY <1>1, ReturnLeads DEF OnlyStops
<1> QED
  BY <1>2 DEF b

\* B before a Wi-Fi link mirrors: the link goes, the profile stays.
LEMMA LinkLeads ==
    ASSUME NEW a, Good(a), a.link, ~a.teleopActive, NEW e
    PROVE  Depth(restoreOledMenuBrowseMode(disengageWifiDirectLink(a), e)) < Depth(a)
<1> DEFINE c == disengageWifiDirectLink(a)
           b == restoreOledMenuBrowseMode(c, e)
<1>1. a.profile = "TeleopWifi" /\ a \in State
  BY DEF Good, Sessions, LinkOf
<1>2. Good(c) /\ SameCarried(a, c) /\ ~c.link /\ ~c.continuous
  BY DisengageLinkGood
<1> HIDE DEF c
<1>3. Good(b) /\ SameCarried(c, b) /\ OnlyStops(c, b) /\ ~b.link
  BY <1>2, RestoreGood
<1> HIDE DEF b
<1>4. b \in State /\ b.profile = "TeleopWifi" /\ ~b.continuous /\ ~b.link
  BY <1>1, <1>2, <1>3 DEF Good, Sessions, SameCarried, OnlyStops
<1>5. ~MenuShown(a) /\ ~MenuShown(b)
  BY <1>1, <1>4 DEF MenuShown, EspNowProfiles
<1>6. Depth(a) = 2 /\ Depth(b) = 1
  BY <1>1, <1>4, <1>5, DepthIs
<1> QED
  BY <1>6 DEF b, c

LEMMA WifiLeads ==
    ASSUME NEW a, Good(a), a.profile = "TeleopWifi", NEW A, NEW B, ~A, B, NEW e
    PROVE  Depth(TeleopWifiButtons(a, A, B, e)) < Depth(a)
<1>0. ~MenuShown(a) /\ a.profile \notin EspNowProfiles /\ (a.teleopActive => a.session = "ready")
  BY DEF MenuShown, EspNowProfiles, Good, Sessions, LinkOf
<1>1. CASE ~a.link
  <2>1. TeleopWifiButtons(a, A, B, e) = ReturnToMenu(a, e)
    BY <1>1 DEF TeleopWifiButtons
  <2> QED
    BY <1>0, <1>1, <2>1, ReturnToMenuLeads DEF OnlyStops
<1>2. CASE a.link /\ ~a.teleopActive
  <2>1. TeleopWifiButtons(a, A, B, e) = restoreOledMenuBrowseMode(disengageWifiDirectLink(a), e)
    BY <1>2 DEF TeleopWifiButtons
  <2> QED
    BY <1>2, <2>1, LinkLeads
<1>3. CASE a.link /\ a.teleopActive
  <2> DEFINE idle == [a EXCEPT !.teleopActive = FALSE]
             released == releaseFollowerTeleopHold(idle, e)
             stopped == disengageWifiDirectLink(released)
             b == ReturnToMenu(stopped, e)
  <2>1. TeleopWifiButtons(a, A, B, e) = b
    BY <1>0, <1>3 DEF TeleopWifiButtons
  <2>2. Good(idle) /\ idle.profile = a.profile
    BY IdleLinkGood
  <2> HIDE DEF idle
  <2>3. Good(released) /\ released.profile = a.profile
    BY <2>2, ReleaseGood DEF SameCarried
  <2> HIDE DEF released
  <2>4. Good(stopped) /\ stopped.profile = a.profile
    BY <2>3, DisengageLinkGood DEF SameCarried
  <2> HIDE DEF stopped
  <2>5. Good(b) /\ AtMenu(b) /\ ~b.continuous
    BY <2>4, ReturnGood
  <2> HIDE DEF b
  <2> QED
    BY <1>0, <2>1, <2>5, ReturnLeads DEF OnlyStops
<1> QED
  BY <1>1, <1>2, <1>3

LEMMA MirrorLeads ==
    ASSUME NEW a, Good(a), ~MenuShown(a), a.profile \in EspNowProfiles, NEW A, NEW B, ~A, B, NEW e
    PROVE  Depth(TeleopMirrorButtons(a, A, B, e)) < Depth(a)
<1> DEFINE c == releaseFollowerTeleopHold(a, e)
           b == restoreOledMenuBrowseMode(c, e)
<1>1. TeleopMirrorButtons(a, A, B, e) = b
  BY DEF TeleopMirrorButtons
<1>2. Good(c) /\ c.profile = a.profile /\ ~c.continuous
  BY ReleaseGood DEF SameCarried
<1> HIDE DEF c
<1>3. Good(b) /\ b.profile = a.profile /\ ~b.continuous /\ b.browse
  BY <1>2, RestoreGood DEF SameCarried, OnlyStops
<1> HIDE DEF b
<1> QED
  BY <1>1, <1>3, ReturnLeads DEF AtMenu, OnlyStops

LEMMA PassthroughLeads ==
    ASSUME NEW a, Good(a), ~MenuShown(a), a.profile = "Passthrough", NEW A, NEW B, ~A, B, NEW e
    PROVE  Depth(PassthroughButtons(a, A, B, e)) < Depth(a)
<1> DEFINE c == disengagePassthroughMode(a, "TeleopEspNow", e)
           b == restoreOledMenuBrowseMode(c, e)
<1>1. PassthroughButtons(a, A, B, e) = b
  BY DEF PassthroughButtons
<1>2. Good(c) /\ c.profile = "TeleopEspNow" /\ OnlyStops(a, c)
  BY TeleopEspNow, PassthroughGood
<1> HIDE DEF c
<1>3. Good(b) /\ AtMenu(b) /\ OnlyStops(a, b)
  BY <1>2, TeleopEspNow, RestoreGood DEF SameCarried, OnlyStops, AtMenu
<1> HIDE DEF b
<1>4. a.profile \notin EspNowProfiles /\ ~a.link
  BY DEF EspNowProfiles, Good, Sessions, LinkOf
<1> QED
  BY <1>1, <1>3, <1>4, ReturnLeads

LEMMA CalibrationLeads ==
    ASSUME NEW a, Good(a), ~MenuShown(a), a.profile \in CalibrationProfiles,
           NEW A, NEW B, ~A, B, NEW e
    PROVE  /\ Depth(CalibrationPreviewButtons(a, A, B, e)) < Depth(a)
           /\ Depth(CalibrationActiveButtons(a, A, B, e)) < Depth(a)
<1>1. a.profile \notin EspNowProfiles /\ ~a.link
  BY DEF EspNowProfiles, CalibrationProfiles, Good, Sessions, LinkOf
<1> DEFINE c == [a EXCEPT !.banner = TRUE]
<1>2. /\ CalibrationPreviewButtons(a, A, B, e) = ReturnToMenu(a, e)
      /\ CalibrationActiveButtons(a, A, B, e) = ReturnToMenu(c, e)
  BY DEF CalibrationPreviewButtons, CalibrationActiveButtons
<1>3. Good(c)
  BY SetGood
<1>4. c.profile = a.profile /\ c.continuous = a.continuous
  BY DEF Good, Sessions, State
<1> HIDE DEF c
<1> QED
  BY <1>1, <1>2, <1>3, <1>4, ReturnToMenuLeads DEF OnlyStops

LEMMA ButtonsLead ==
    ASSUME NEW a, Good(a), ~MenuShown(a), NEW A, NEW B, ~A, B, NEW e
    PROVE  Depth(Buttons(a, A, B, e)) < Depth(a)
<1>0. a.profile \in Profiles
  BY DEF Good, Sessions, State
<1>1. CASE a.profile = "Passthrough"
  BY <1>1, PassthroughLeads DEF Buttons, CalibrationProfiles, EspNowProfiles
<1>2. CASE a.profile \in CalibrationProfiles
  BY <1>2, CalibrationLeads DEF Buttons, CalibrationProfiles, EspNowProfiles
<1>3. CASE a.profile = "TeleopWifi"
  BY <1>3, WifiLeads DEF Buttons, CalibrationProfiles, EspNowProfiles
<1>4. CASE a.profile \in EspNowProfiles
  BY <1>4, MirrorLeads DEF Buttons, CalibrationProfiles, EspNowProfiles
<1>5. CASE a.profile = "OtaReady"
  <2>1. a.profile \notin EspNowProfiles /\ ~a.link
    BY <1>5 DEF EspNowProfiles, Good, Sessions, LinkOf
  <2>2. Buttons(a, A, B, e) = ReturnToMenu(a, e)
    BY <1>5 DEF Buttons, OtaButtons, CalibrationProfiles, EspNowProfiles
  <2> QED
    BY <2>1, <2>2, ReturnToMenuLeads DEF OnlyStops
<1> QED
  BY <1>0, <1>1, <1>2, <1>3, <1>4, <1>5 DEF Profiles

\* Wherever the user is, whatever the dashboard did before: B alone leads one
\* step back towards the menu, in every mode and state of its link, session and
\* calibration (handleControllerModeCycleEvents).
THEOREM BackAlwaysLeads == Spec => BackLeads
<1>1. ASSUME AppInv, [Next]_vars, pc = "buttons", app.pressed = {"B"}, pc' = "mode",
             Depth(app) > 0
      PROVE  Depth(app') < Depth(app)
  <2> DEFINE b == [app EXCEPT !.pressed = {}]
  <2>0. Good(app) /\ app \in State
    BY <1>1 DEF AppInv, Good, Sessions
  <2>1. Input
    BY <1>1 DEF Next, Core, Command, Acknowledgements, Mode, Press, PrimeTimeout, Restart, Step,
                vars
  <2>2. ~MenuShown(app)
    BY <1>1, <2>0, DepthIs
  <2>3. ~MenuInput
    BY <2>2 DEF MenuInput, shouldShowInteractiveOledMenu, MenuShown
  <2>4. PICK e : app' = Buttons(b, "A" \in app.pressed, "B" \in app.pressed, e)
    BY <1>1, <2>1, <2>3 DEF Input, ButtonInput
  <2>5. Good(b)
    BY <2>0, SetGood
  <2>6. /\ b \in State /\ b.browse = app.browse /\ b.profile = app.profile
        /\ b.continuous = app.continuous /\ b.passthrough = app.passthrough
        /\ b.engaged = app.engaged /\ b.link = app.link /\ b.teleopActive = app.teleopActive
    BY <2>0 DEF State
  <2> HIDE DEF b
  <2>7. ~MenuShown(b) /\ Depth(b) = Depth(app)
    BY <2>0, <2>2, <2>6, DepthIs DEF MenuShown
  <2>8. Depth(Buttons(b, "A" \in app.pressed, "B" \in app.pressed, e)) < Depth(b)
    BY <1>1, <2>5, <2>7, ButtonsLead
  <2> QED
    BY <2>4, <2>7, <2>8
<1>2. AppInv /\ [Next]_vars =>
        [pc = "buttons" /\ app.pressed = {"B"} /\ pc' = "mode" /\ Depth(app) > 0 =>
            Depth(app') < Depth(app)]_vars
  BY <1>1
<1> QED
  BY <1>2, AppInvariant, PTL DEF Spec, BackLeads
=============================================================================
