------------------------------ MODULE Pairing ------------------------------
(***************************************************************************)
(* How a leader board and a follower board become a pair and stay one: the *)
(* follower's PairRequest and Presence frames, the leader's PairAck and    *)
(* PairReset, the peer address each board keeps in flash, the leader's     *)
(* watchdog that expires a silent peer, and the reset a dashboard asks for.*)
(*                                                                         *)
(* Abstractions.  Time is counted in periods: within one every powered     *)
(* follower sends what falls due (kPairRequestIntervalMs is 5 s, a full    *)
(* presence frame is due more often), these frames and the leader's        *)
(* acknowledgements are delivered or lost, and every started handler ends; *)
(* the watchdog fires after Timeout periods.                               *)
(* Heartbeats and acknowledgements are not modelled: for pairing they only *)
(* do what a Presence frame also does.  The follower's flash and memory    *)
(* change in the same callback and are one variable.                       *)
(*                                                                         *)
(* The leader's receive callback and its loop run on different cores.      *)
(* With Preemptive = TRUE their steps interleave; with FALSE each update   *)
(* of the pairing is undisturbed.                                          *)
(***************************************************************************)
EXTENDS Integers, Sequences, SequencesExt

CONSTANTS
    Leaders, Followers,
    NoMac,             \* the cleared address
    Timeout,           \* kPairingTimeoutMs, in periods
    Capacity,          \* frames the radio holds for one receiver
    MaxDisturbances,   \* bound on losses, resets, reboots, power cuts, failed saves
    LeaderTraffic,     \* does the leader send commands meanwhile?
    Preemptive         \* do the leader's callback and loop interleave?

ASSUME ConstantsAssumption ==
    /\ NoMac \notin Leaders \cup Followers
    /\ Timeout \in Nat \ {0} /\ Capacity \in Nat \ {0} /\ MaxDisturbances \in Nat
    /\ LeaderTraffic \in BOOLEAN /\ Preemptive \in BOOLEAN

Never == -1   \* lastPeerActivityMs_ = 0: no contact since boot or reset
FromFollower ==   \* provoked: asked again at once after a reset
    [type : {"PairRequest", "Presence"}, from : Followers, provoked : BOOLEAN]
FromLeader == [type : {"PairAck", "PairReset"}, from : Leaders]
NoFrame == [type |-> "None", from |-> NoMac, provoked |-> FALSE]

VARIABLES
    \* per leader
    hasPairedMac, pairedFollowerMac,
    store,         \* the address in flash
    silence,       \* periods since lastPeerActivityMs_, or Never
    pendingResets, \* pendingResetBroadcastCount_
    lpc,           \* where resetPairing or the expiry stands
    previous,      \* previousPairMac of resetPairing
    accepting,     \* frame whose sender the callback is about to save
    \* per follower
    leaderOf,      \* pairedLeaderMac_, NoMac while unpaired
    powered, due,
    \* radio
    toLeader, toFollower,
    disturbances

leaderVars == <<hasPairedMac, pairedFollowerMac, store, silence, pendingResets,
                lpc, previous, accepting>>
followerVars == <<leaderOf, powered, due>>
vars == <<leaderVars, followerVars, toLeader, toFollower, disturbances>>

Init ==
    /\ hasPairedMac = [l \in Leaders |-> FALSE]
    /\ pairedFollowerMac = [l \in Leaders |-> NoMac]
    /\ store = [l \in Leaders |-> NoMac]
    /\ silence = [l \in Leaders |-> Never]
    /\ pendingResets = [l \in Leaders |-> 0]
    /\ lpc = [l \in Leaders |-> "idle"]
    /\ previous = [l \in Leaders |-> NoMac]
    /\ accepting = [l \in Leaders |-> NoFrame]
    /\ leaderOf = [f \in Followers |-> NoMac]
    /\ powered = [f \in Followers |-> TRUE]
    /\ due = [f \in Followers |-> {"presence", "request"}]
    /\ toLeader = [l \in Leaders |-> <<>>]
    /\ toFollower = [f \in Followers |-> <<>>]
    /\ disturbances = 0

Disturb ==
    /\ disturbances < MaxDisturbances
    /\ disturbances' = disturbances + 1

-----------------------------------------------------------------------------
(* Radio.                                                                  *)

\* The frames of a burst a receiver still has room for.
Fits(ch, frames) == LET room == Capacity - Len(ch)
                    IN  IF Len(frames) <= room THEN frames ELSE SubSeq(frames, 1, room)
Sent(ch, frames) == ch \o Fits(ch, frames)

\* The frames a leader sends at once, to each follower that is switched on.
LeaderSends(l, types) ==
    toFollower' = [f \in Followers |->
        IF powered[f]
        THEN Sent(toFollower[f], [i \in DOMAIN types[f] |-> [type |-> types[f][i], from |-> l]])
        ELSE <<>>]
Only(f, types) == [g \in Followers |-> IF g = f THEN types ELSE <<>>]

sendPairAck(l, f) == LeaderSends(l, Only(f, <<"PairAck">>))
sendPairResetTo(l, f) == LeaderSends(l, Only(f, <<"PairReset", "PairReset", "PairReset">>))

Broadcast(f, frame) == toLeader' = [l \in Leaders |-> Sent(toLeader[l], <<frame>>)]
Unicast(l, frame) == toLeader' = [toLeader EXCEPT ![l] = Sent(@, <<frame>>)]

LoseToLeader(l) ==
    /\ toLeader[l] # <<>> /\ Disturb
    /\ toLeader' = [toLeader EXCEPT ![l] = Tail(@)]
    /\ UNCHANGED <<leaderVars, followerVars, toFollower>>

LoseToFollower(f) ==
    /\ toFollower[f] # <<>> /\ Disturb
    /\ toFollower' = [toFollower EXCEPT ![f] = Tail(@)]
    /\ UNCHANGED <<leaderVars, followerVars, toLeader>>

-----------------------------------------------------------------------------
(* Follower.                                                               *)

\* FollowerPresenceService::tick: an unpaired follower asks whoever listens,
\* a paired one only its leader.
SendPairRequest(f) ==
    LET frame == [type |-> "PairRequest", from |-> f, provoked |-> "request" \notin due[f]]
    IN  /\ powered[f] /\ due[f] \cap {"request", "again"} # {}
        /\ due' = [due EXCEPT ![f] = @ \ {"request", "again"}]
        /\ IF leaderOf[f] = NoMac THEN Broadcast(f, frame) ELSE Unicast(leaderOf[f], frame)
        /\ UNCHANGED <<leaderVars, leaderOf, powered, toFollower, disturbances>>

SendPresence(f) ==
    /\ powered[f] /\ "presence" \in due[f] /\ leaderOf[f] # NoMac
    /\ due' = [due EXCEPT ![f] = @ \ {"presence"}]
    /\ Unicast(leaderOf[f], [type |-> "Presence", from |-> f, provoked |-> FALSE])
    /\ UNCHANGED <<leaderVars, leaderOf, powered, toFollower, disturbances>>

\* Mutant: the follower follows whoever acknowledged last.
HandleLastPairAck(f, saved) ==
    /\ toFollower[f] # <<>> /\ Head(toFollower[f]).type = "PairAck" /\ saved
    /\ toFollower' = [toFollower EXCEPT ![f] = Tail(@)]
    /\ leaderOf' = [leaderOf EXCEPT ![f] = Head(toFollower[f]).from]
    /\ UNCHANGED <<leaderVars, powered, due, toLeader, disturbances>>

\* handlePairAckFrame: a paired follower keeps its leader, an unpaired one
\* takes the sender if flash does.
HandlePairAck(f, saved) ==
    LET m == Head(toFollower[f])
    IN  /\ toFollower[f] # <<>> /\ m.type = "PairAck"
        /\ toFollower' = [toFollower EXCEPT ![f] = Tail(@)]
        /\ IF leaderOf[f] = NoMac
           THEN /\ leaderOf' = [leaderOf EXCEPT ![f] = IF saved THEN m.from ELSE NoMac]
                /\ IF saved THEN UNCHANGED disturbances ELSE Disturb
           ELSE saved /\ UNCHANGED <<leaderOf, disturbances>>
        /\ UNCHANGED <<leaderVars, powered, due, toLeader>>

\* handlePairResetFrame obeys every leader, and resetPairing makes the next
\* request due again at once.
HandlePairReset(f) ==
    /\ toFollower[f] # <<>> /\ Head(toFollower[f]).type = "PairReset"
    /\ toFollower' = [toFollower EXCEPT ![f] = Tail(@)]
    /\ leaderOf' = [leaderOf EXCEPT ![f] = NoMac]
    /\ due' = [due EXCEPT ![f] = @ \cup {"again"}]
    /\ UNCHANGED <<leaderVars, powered, toLeader, disturbances>>

PowerOff(f) ==
    /\ powered[f] /\ Disturb
    /\ powered' = [powered EXCEPT ![f] = FALSE]
    /\ toFollower' = [toFollower EXCEPT ![f] = <<>>]
    /\ UNCHANGED <<leaderVars, leaderOf, due, toLeader>>

\* begin() loads the leader's address from flash.
PowerOn(f) ==
    /\ ~powered[f]
    /\ powered' = [powered EXCEPT ![f] = TRUE]
    /\ due' = [due EXCEPT ![f] = {"presence", "request"}]
    /\ UNCHANGED <<leaderVars, leaderOf, toLeader, toFollower, disturbances>>

-----------------------------------------------------------------------------
(* Leader: the ESP-NOW receive callback.                                   *)

\* Mutant: the paired peer is not told apart from a stranger.
AcceptWhenUnpaired(l, f) == ~hasPairedMac[l]

isPairedMac(l, f) == hasPairedMac[l] /\ pairedFollowerMac[l] = f
shouldAcceptLeaderPairRequest(l, f) == ~hasPairedMac[l] \/ isPairedMac(l, f)

LoopUndisturbed(l) == Preemptive \/ lpc[l] = "idle"
CallbackUndisturbed(l) == Preemptive \/ accepting[l] = NoFrame

\* Every frame with the right magic, from whomever, counts as a sign of life.
notifyPeerActivity(l) == silence' = [silence EXCEPT ![l] = 0]

\* handlePairRequest and handlePresenceData from the paired peer or a stranger.
AnswerPeer(l) ==
    LET m == Head(toLeader[l])
    IN  /\ toLeader[l] # <<>> /\ accepting[l] = NoFrame /\ LoopUndisturbed(l)
        /\ hasPairedMac[l]
        /\ toLeader' = [toLeader EXCEPT ![l] = Tail(@)]
        /\ notifyPeerActivity(l)
        /\ IF ~shouldAcceptLeaderPairRequest(l, m.from) THEN sendPairResetTo(l, m.from)
           ELSE IF m.type = "PairRequest" THEN sendPairAck(l, m.from)
           ELSE UNCHANGED toFollower
        /\ UNCHANGED <<hasPairedMac, pairedFollowerMac, store, pendingResets, lpc,
                       previous, accepting, followerVars, disturbances>>

\* Unpaired, both take the sender: its address is copied ...
AcceptPeer(l) ==
    LET m == Head(toLeader[l])
    IN  /\ toLeader[l] # <<>> /\ accepting[l] = NoFrame /\ LoopUndisturbed(l)
        /\ ~hasPairedMac[l]
        /\ toLeader' = [toLeader EXCEPT ![l] = Tail(@)]
        /\ notifyPeerActivity(l)
        /\ pairedFollowerMac' = [pairedFollowerMac EXCEPT ![l] = m.from]
        /\ accepting' = [accepting EXCEPT ![l] = m]
        /\ UNCHANGED <<hasPairedMac, store, pendingResets, lpc, previous,
                       followerVars, toFollower, disturbances>>

\* ... then saved; the leader counts as paired if that worked, and answers
\* PairAck in any case.  The address saved is the one in memory by then, and
\* after a Presence frame it is compared with the sender's.
SavePeer(l, saved) ==
    LET m == accepting[l]
        stranger == m.type = "Presence" /\ saved /\ pairedFollowerMac[l] # m.from
    IN  /\ m # NoFrame
        /\ store' = [store EXCEPT ![l] = IF saved THEN pairedFollowerMac[l] ELSE @]
        /\ hasPairedMac' = [hasPairedMac EXCEPT ![l] = saved]
        /\ notifyPeerActivity(l)
        /\ LeaderSends(l, Only(m.from, IF stranger
                                       THEN <<"PairAck", "PairReset", "PairReset", "PairReset">>
                                       ELSE <<"PairAck">>))
        /\ accepting' = [accepting EXCEPT ![l] = NoFrame]
        /\ IF saved THEN UNCHANGED disturbances ELSE Disturb
        /\ UNCHANGED <<pairedFollowerMac, pendingResets, lpc, previous, followerVars,
                       toLeader>>

-----------------------------------------------------------------------------
(* Leader: the loop task.                                                  *)

\* resetPairing, asked for by a dashboard or the menu.
ResetPairing(l) ==
    /\ lpc[l] = "idle" /\ CallbackUndisturbed(l) /\ Disturb
    /\ previous' = [previous EXCEPT ![l] = IF hasPairedMac[l] THEN pairedFollowerMac[l]
                                           ELSE NoMac]
    /\ hasPairedMac' = [hasPairedMac EXCEPT ![l] = FALSE]
    /\ lpc' = [lpc EXCEPT ![l] = "resetMac"]
    /\ UNCHANGED <<pairedFollowerMac, store, silence, pendingResets, accepting,
                   followerVars, toLeader, toFollower>>

\* Mutant: the watchdog watches the wrong state.
WatchdogOfUnpaired(l) == ~hasPairedMac[l] /\ silence[l] = Timeout

\* LeaderPresenceService::tick, watchdog.
WatchdogDue(l) == hasPairedMac[l] /\ silence[l] = Timeout

Expire(l) ==
    /\ lpc[l] = "idle" /\ CallbackUndisturbed(l) /\ WatchdogDue(l)
    /\ hasPairedMac' = [hasPairedMac EXCEPT ![l] = FALSE]
    /\ lpc' = [lpc EXCEPT ![l] = "expireMac"]
    /\ UNCHANGED <<pairedFollowerMac, store, silence, pendingResets, previous,
                   accepting, followerVars, toLeader, toFollower, disturbances>>

ClearMac(l) ==
    /\ \/ lpc[l] = "resetMac" /\ lpc' = [lpc EXCEPT ![l] = "resetStore"]
       \/ lpc[l] = "expireMac" /\ lpc' = [lpc EXCEPT ![l] = "expireStore"]
    /\ pairedFollowerMac' = [pairedFollowerMac EXCEPT ![l] = NoMac]
    /\ UNCHANGED <<hasPairedMac, store, silence, pendingResets, previous, accepting,
                   followerVars, toLeader, toFollower, disturbances>>

\* Mutant: the pairing is only forgotten in memory.
ClearedInMemory(l) == store

Cleared(l) == [store EXCEPT ![l] = NoMac]

ClearStoreAfterExpiry(l) ==
    /\ lpc[l] = "expireStore"
    /\ lpc' = [lpc EXCEPT ![l] = "idle"]
    /\ store' = Cleared(l)
    /\ UNCHANGED <<hasPairedMac, pairedFollowerMac, silence, pendingResets, previous,
                   accepting, followerVars, toLeader, toFollower, disturbances>>

\* The old peer is told three times, everybody once now and twice by tick.
ClearStoreAndTell(l) ==
    /\ lpc[l] = "resetStore"
    /\ lpc' = [lpc EXCEPT ![l] = "idle"]
    /\ store' = Cleared(l)
    /\ silence' = [silence EXCEPT ![l] = Never]
    /\ pendingResets' = [pendingResets EXCEPT ![l] = 2]
    /\ previous' = [previous EXCEPT ![l] = NoMac]
    /\ LeaderSends(l, [f \in Followers |->
          IF f = previous[l] THEN <<"PairReset", "PairReset", "PairReset", "PairReset">>
          ELSE <<"PairReset">>])
    /\ UNCHANGED <<hasPairedMac, pairedFollowerMac, accepting, followerVars, toLeader,
                   disturbances>>

\* Mutant: the counter is drained once more, and wraps.
BroadcastDueLate(l) == pendingResets[l] >= 0

BroadcastDue(l) == pendingResets[l] > 0

BroadcastReset(l) ==
    /\ lpc[l] = "idle" /\ CallbackUndisturbed(l) /\ BroadcastDue(l)
    /\ pendingResets' = [pendingResets EXCEPT ![l] = @ - 1]
    /\ LeaderSends(l, [f \in Followers |-> <<"PairReset">>])
    /\ UNCHANGED <<hasPairedMac, pairedFollowerMac, store, silence, lpc, previous,
                   accepting, followerVars, toLeader, disturbances>>

\* A command accepted by the radio counts as contact with the peer, too.
SendCommand(l) ==
    /\ LeaderTraffic /\ hasPairedMac[l] /\ lpc[l] = "idle"
    /\ notifyPeerActivity(l)
    /\ UNCHANGED <<hasPairedMac, pairedFollowerMac, store, pendingResets, lpc, previous,
                   accepting, followerVars, toLeader, toFollower, disturbances>>

\* A reboot at any point: begin() takes the peer from flash.
LeaderReboot(l) ==
    /\ Disturb
    /\ hasPairedMac' = [hasPairedMac EXCEPT ![l] = store[l] # NoMac]
    /\ pairedFollowerMac' = [pairedFollowerMac EXCEPT ![l] = store[l]]
    /\ silence' = [silence EXCEPT ![l] = Never]
    /\ pendingResets' = [pendingResets EXCEPT ![l] = 0]
    /\ lpc' = [lpc EXCEPT ![l] = "idle"]
    /\ previous' = [previous EXCEPT ![l] = NoMac]
    /\ accepting' = [accepting EXCEPT ![l] = NoFrame]
    /\ toLeader' = [toLeader EXCEPT ![l] = <<>>]
    /\ UNCHANGED <<store, followerVars, toFollower>>

-----------------------------------------------------------------------------
(* Time.                                                                   *)

Sendable(f) == IF leaderOf[f] = NoMac THEN {"request"} ELSE {"presence", "request"}

\* A period ends when all that was due in it is over.  Requests that resets
\* provoke, and the resets that answer them, do not hold it up: a follower
\* whose rival is paired never runs out of them.
HoldsUp(ch) == \E i \in DOMAIN ch : ch[i].type = "PairAck" \/
                   (ch[i].type \in {"Presence", "PairRequest"} /\ ~ch[i].provoked)

Period ==
    /\ \A f \in Followers : /\ ~HoldsUp(toFollower[f])
                            /\ powered[f] => due[f] \cap Sendable(f) = {}
    /\ \A l \in Leaders : /\ ~HoldsUp(toLeader[l]) /\ accepting[l] = NoFrame
                          /\ lpc[l] = "idle" /\ pendingResets[l] = 0
                          /\ ~WatchdogDue(l)
    /\ silence' = [l \in Leaders |-> IF silence[l] \in {Never, Timeout} THEN silence[l]
                                     ELSE silence[l] + 1]
    /\ due' = [f \in Followers |-> {"presence", "request"}]
    /\ UNCHANGED <<hasPairedMac, pairedFollowerMac, store, pendingResets, lpc, previous,
                   accepting, leaderOf, powered, toLeader, toFollower, disturbances>>

-----------------------------------------------------------------------------
LeaderCallback(l) ==
    AnswerPeer(l) \/ AcceptPeer(l) \/ \E saved \in BOOLEAN : SavePeer(l, saved)
LeaderTick(l) ==
    \/ Expire(l) \/ ClearMac(l) \/ ClearStoreAfterExpiry(l) \/ ClearStoreAndTell(l)
    \/ BroadcastReset(l)
FollowerCallback(f) ==
    HandlePairReset(f) \/ \E saved \in BOOLEAN : HandlePairAck(f, saved)
FollowerTick(f) == SendPairRequest(f) \/ SendPresence(f)

Next ==
    \/ \E l \in Leaders :
          \/ LeaderCallback(l) \/ LeaderTick(l) \/ ResetPairing(l) \/ SendCommand(l)
          \/ LeaderReboot(l) \/ LoseToLeader(l)
    \/ \E f \in Followers :
          \/ FollowerCallback(f) \/ FollowerTick(f) \/ PowerOff(f) \/ PowerOn(f)
          \/ LoseToFollower(f)
    \/ Period

Spec == Init /\ [][Next]_vars

\* Both boards keep running their tasks and time passes; nothing is assumed
\* of the disturbances but that they are finitely many, nor of a follower that
\* was switched off.
FairSpec ==
    /\ Spec
    /\ \A l \in Leaders : WF_vars(LeaderCallback(l)) /\ WF_vars(LeaderTick(l))
    /\ \A f \in Followers : WF_vars(FollowerCallback(f)) /\ WF_vars(FollowerTick(f))
    /\ WF_vars(Period)

-----------------------------------------------------------------------------
(* Properties.                                                             *)

\* Every variable keeps its type, and the radio its bound.
TypeOK ==
    /\ hasPairedMac \in [Leaders -> BOOLEAN]
    /\ pairedFollowerMac \in [Leaders -> Followers \cup {NoMac}]
    /\ store \in [Leaders -> Followers \cup {NoMac}]
    /\ silence \in [Leaders -> {Never} \cup 0..Timeout]
    /\ pendingResets \in [Leaders -> 0..2]
    /\ lpc \in [Leaders -> {"idle", "resetMac", "resetStore", "expireMac", "expireStore"}]
    /\ previous \in [Leaders -> Followers \cup {NoMac}]
    /\ accepting \in [Leaders -> FromFollower \cup {NoFrame}]
    /\ leaderOf \in [Followers -> Leaders \cup {NoMac}]
    /\ powered \in [Followers -> BOOLEAN]
    /\ due \in [Followers -> SUBSET {"presence", "request", "again"}]
    /\ \A l \in Leaders : toLeader[l] \in Seq(FromFollower) /\ Len(toLeader[l]) <= Capacity
    /\ \A f \in Followers : toFollower[f] \in Seq(FromLeader)
                            /\ Len(toFollower[f]) <= Capacity
    /\ disturbances \in 0..MaxDisturbances

\* Between two updates flash and memory agree: a reboot of the leader changes
\* nothing about whom it is paired with, after saves that failed, expiries and
\* resets alike.
StoreMatchesMemory ==
    \A l \in Leaders : lpc[l] = "idle" /\ accepting[l] = NoFrame =>
        store[l] = IF hasPairedMac[l] THEN pairedFollowerMac[l] ELSE NoMac

KeptByLeaders ==
    \A l \in Leaders : hasPairedMac[l] /\ hasPairedMac'[l] =>
                          pairedFollowerMac'[l] = pairedFollowerMac[l]
KeptByFollowers ==
    \A f \in Followers : leaderOf[f] # NoMac /\ leaderOf'[f] # NoMac =>
                            leaderOf'[f] = leaderOf[f]

\* A paired leader never changes its follower, nor a paired follower its
\* leader: a pairing is dissolved before there is another one.
PairingKept == [][KeptByLeaders /\ KeptByFollowers]_vars

Linked(l, f) == hasPairedMac[l] /\ pairedFollowerMac[l] = f /\ leaderOf[f] = l

\* After the last disturbance every follower that stays on ends up paired with a
\* leader that is paired with it, for good, though leaders contend for it.
Converges ==
    \A f \in Followers :
        <>[](\E l \in Leaders : Linked(l, f)) \/ []<>~powered[f]

\* The leader sends the commands it may send to any follower no more.
Quiet == <>[][\A l \in Leaders : ~SendCommand(l)]_vars

\* A quiet leader that heard of its follower since boot does not go on believing
\* in a pair the follower is not part of, whichever leader won the follower.
NoFalsePair ==
    Quiet => <>[](\A l \in Leaders, f \in Followers :
                     isPairedMac(l, f) /\ silence[l] # Never /\ powered[f] => leaderOf[f] = l)

\* A quiet leader that has heard of a follower which is now off for good gives
\* the pairing up.
Expires ==
    Quiet => \A l \in Leaders, f \in Followers :
                isPairedMac(l, f) /\ silence[l] # Never /\ ~powered[f]
                    ~> ~isPairedMac(l, f) \/ silence[l] = Never \/ powered[f]

=============================================================================
