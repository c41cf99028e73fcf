--------------------------- MODULE PairingProofs ---------------------------
(***************************************************************************)
(* Proofs about Pairing, for every set of leaders and followers and every  *)
(* capacity, timeout and number of disturbances:                           *)
(*   TypeCorrect              Spec => []TypeOK                             *)
(*   StoreMatchesMemoryHolds  flash agrees with memory between updates     *)
(*   PairingKeptHolds         a pairing is dissolved before the next one   *)
(* The last two assume that the leader's callback and loop do not disturb  *)
(* each other's updates (Preemptive = FALSE).  The inductive invariant is  *)
(* Exclusive: while an update stands half done nobody else is in one, the  *)
(* leader counts as unpaired, and flash holds no peer unless a reset or an *)
(* expiry has yet to clear it.                                             *)
(***************************************************************************)
EXTENDS Pairing, TLAPS

Bounded(ch, S) == ch \in Seq(S) /\ Len(ch) <= Capacity

LEMMA SentType ==
    ASSUME NEW S, NEW ch \in Seq(S), Len(ch) <= Capacity, NEW frames \in Seq(S)
    PROVE  Bounded(Sent(ch, frames), S)
<1> DEFINE room == Capacity - Len(ch)
<1>1. room \in Nat
  BY ConstantsAssumption
<1>2. Fits(ch, frames) \in Seq(S) /\ Len(Fits(ch, frames)) <= room
  <2>1. CASE Len(frames) <= room
    BY <2>1 DEF Fits
  <2>2. CASE ~(Len(frames) <= room)
    <3>1. room < Len(frames) /\ Len(frames) \in Nat
      BY <1>1, <2>2
    <3>2. SubSeq(frames, 1, room) \in Seq(S) /\ Len(SubSeq(frames, 1, room)) = room
      BY <1>1, <3>1
    <3> QED BY <2>2, <3>2 DEF Fits
  <2> QED BY <2>1, <2>2
<1> HIDE DEF room
<1>3. /\ ch \o Fits(ch, frames) \in Seq(S)
      /\ Len(ch \o Fits(ch, frames)) = Len(ch) + Len(Fits(ch, frames))
  BY <1>2
<1> QED BY <1>1, <1>2, <1>3, ConstantsAssumption DEF Sent, Bounded, room

LEMMA TailType ==
    ASSUME NEW S, NEW ch \in Seq(S), ch # <<>>, Len(ch) <= Capacity
    PROVE  Head(ch) \in S /\ Bounded(Tail(ch), S)
BY ConstantsAssumption DEF Bounded

\* The leader's frames keep every follower's channel in type and bound.
LEMMA LeaderSendsType ==
    ASSUME TypeOK, NEW l \in Leaders,
           NEW types \in [Followers -> Seq({"PairAck", "PairReset"})],
           LeaderSends(l, types)
    PROVE  \A f \in Followers : Bounded(toFollower'[f], FromLeader)
<1> SUFFICES ASSUME NEW f \in Followers PROVE Bounded(toFollower'[f], FromLeader)
  OBVIOUS
<1> DEFINE frames == [i \in DOMAIN types[f] |-> [type |-> types[f][i], from |-> l]]
<1>1. toFollower'[f] = IF powered[f] THEN Sent(toFollower[f], frames) ELSE <<>>
  BY DEF LeaderSends
<1>2. frames \in Seq(FromLeader)
  <2>1. types[f] \in Seq({"PairAck", "PairReset"})
    OBVIOUS
  <2>2. \A i \in 1..Len(types[f]) : types[f][i] \in {"PairAck", "PairReset"}
    BY <2>1
  <2>3. frames \in [1..Len(types[f]) -> FromLeader]
    BY <2>1, <2>2 DEF FromLeader
  <2>4. Len(types[f]) \in Nat
    BY <2>1
  <2> QED BY <2>3, <2>4
<1> HIDE DEF frames
<1>3. CASE powered[f]
  BY <1>1, <1>2, <1>3, SentType DEF TypeOK
<1>4. CASE ~powered[f]
  BY <1>1, <1>4, ConstantsAssumption DEF Bounded
<1> QED BY <1>3, <1>4

LEMMA OnlyType ==
    ASSUME NEW f, NEW types \in Seq({"PairAck", "PairReset"})
    PROVE  Only(f, types) \in [Followers -> Seq({"PairAck", "PairReset"})]
<1>1. <<>> \in Seq({"PairAck", "PairReset"})
  OBVIOUS
<1> QED BY <1>1 DEF Only

LEMMA TypeInit == Init => TypeOK
BY ConstantsAssumption DEF Init, TypeOK, NoFrame

\* What an action of the leader or the follower leaves alone keeps its type.
LEMMA TypeStep == TypeOK /\ [Next]_vars => TypeOK'
<1> SUFFICES ASSUME TypeOK, [Next]_vars PROVE TypeOK'
  OBVIOUS
<1> USE DEF leaderVars, followerVars
<1>a. ASSUME Disturb PROVE disturbances' \in 0..MaxDisturbances
  BY <1>a, ConstantsAssumption DEF TypeOK, Disturb
<1>n. NoFrame \in FromFollower \cup {NoFrame}
  OBVIOUS
<1>t. /\ <<"PairAck">> \in Seq({"PairAck", "PairReset"})
      /\ <<"PairReset">> \in Seq({"PairAck", "PairReset"})
      /\ <<"PairReset", "PairReset", "PairReset">> \in Seq({"PairAck", "PairReset"})
      /\ <<"PairReset", "PairReset", "PairReset", "PairReset">> \in Seq({"PairAck", "PairReset"})
      /\ <<"PairAck", "PairReset", "PairReset", "PairReset">> \in Seq({"PairAck", "PairReset"})
  OBVIOUS
<1>1. ASSUME NEW l \in Leaders, AnswerPeer(l) PROVE TypeOK'
  <2> DEFINE m == Head(toLeader[l])
  <2>1. m \in FromFollower /\ Bounded(Tail(toLeader[l]), FromFollower)
    BY <1>1, TailType DEF TypeOK, AnswerPeer
  <2>2. /\ \A f \in Followers : Bounded(toFollower'[f], FromLeader)
    <3>1. CASE UNCHANGED toFollower
      BY <3>1 DEF TypeOK, Bounded
    <3>2. CASE sendPairResetTo(l, m.from)
      BY <3>2, <1>t, OnlyType, LeaderSendsType DEF sendPairResetTo
    <3>3. CASE sendPairAck(l, m.from)
      BY <3>3, <1>t, OnlyType, LeaderSendsType DEF sendPairAck
    <3> QED BY <1>1, <3>1, <3>2, <3>3 DEF AnswerPeer
  <2>3. \A k \in Leaders : Bounded(toLeader'[k], FromFollower)
    BY <1>1, <2>1 DEF AnswerPeer, TypeOK, Bounded
  <2>4. silence' \in [Leaders -> {Never} \cup 0..Timeout]
    BY <1>1, ConstantsAssumption DEF AnswerPeer, TypeOK, notifyPeerActivity
  <2> QED BY <1>1, <2>2, <2>3, <2>4 DEF AnswerPeer, TypeOK, Bounded
<1>2. ASSUME NEW l \in Leaders, AcceptPeer(l) PROVE TypeOK'
  <2> DEFINE m == Head(toLeader[l])
  <2>1. m \in FromFollower /\ Bounded(Tail(toLeader[l]), FromFollower)
    BY <1>2, TailType DEF TypeOK, AcceptPeer
  <2>2. \A k \in Leaders : Bounded(toLeader'[k], FromFollower)
    BY <1>2, <2>1 DEF AcceptPeer, TypeOK, Bounded
  <2>3. silence' \in [Leaders -> {Never} \cup 0..Timeout]
    BY <1>2, ConstantsAssumption DEF AcceptPeer, TypeOK, notifyPeerActivity
  <2>4. m.from \in Followers
    BY <2>1 DEF FromFollower
  <2> HIDE DEF m
  <2>5. /\ pairedFollowerMac' \in [Leaders -> Followers \cup {NoMac}]
        /\ accepting' \in [Leaders -> FromFollower \cup {NoFrame}]
    BY <1>2, <2>1, <2>4 DEF AcceptPeer, TypeOK, m
  <2> QED BY <1>2, <2>2, <2>3, <2>5 DEF AcceptPeer, TypeOK, Bounded
<1>3. ASSUME NEW l \in Leaders, NEW saved \in BOOLEAN, SavePeer(l, saved) PROVE TypeOK'
  <2>1. \A f \in Followers : Bounded(toFollower'[f], FromLeader)
    <3> DEFINE sent == IF accepting[l].type = "Presence" /\ saved
                          /\ pairedFollowerMac[l] # accepting[l].from
                       THEN <<"PairAck", "PairReset", "PairReset", "PairReset">>
                       ELSE <<"PairAck">>
    <3>1. sent \in Seq({"PairAck", "PairReset"})
      BY <1>t
    <3>2. LeaderSends(l, Only(accepting[l].from, sent))
      BY <1>3 DEF SavePeer
    <3> HIDE DEF sent
    <3> QED BY <3>1, <3>2, OnlyType, LeaderSendsType
  <2>2. silence' \in [Leaders -> {Never} \cup 0..Timeout]
    BY <1>3, ConstantsAssumption DEF SavePeer, TypeOK, notifyPeerActivity
  <2>3. disturbances' \in 0..MaxDisturbances
    BY <1>3, <1>a DEF SavePeer, TypeOK
  <2>4. /\ store' \in [Leaders -> Followers \cup {NoMac}]
        /\ hasPairedMac' \in [Leaders -> BOOLEAN]
        /\ accepting' \in [Leaders -> FromFollower \cup {NoFrame}]
    BY <1>3, <1>n DEF SavePeer, TypeOK
  <2> QED BY <1>3, <2>1, <2>2, <2>3, <2>4 DEF SavePeer, TypeOK, Bounded
<1>4. ASSUME NEW l \in Leaders, Expire(l) \/ ClearMac(l) \/ ClearStoreAfterExpiry(l)
      PROVE  TypeOK'
  <2>1. CASE Expire(l)
    BY <2>1 DEF Expire, TypeOK
  <2>2. CASE ClearMac(l)
    BY <2>2 DEF ClearMac, TypeOK
  <2>3. CASE ClearStoreAfterExpiry(l)
    BY <2>3 DEF ClearStoreAfterExpiry, Cleared, TypeOK
  <2> QED BY <1>4, <2>1, <2>2, <2>3
<1>5. ASSUME NEW l \in Leaders, ClearStoreAndTell(l) PROVE TypeOK'
  <2> DEFINE types == [f \in Followers |->
          IF f = previous[l] THEN <<"PairReset", "PairReset", "PairReset", "PairReset">>
          ELSE <<"PairReset">>]
  <2>1. types \in [Followers -> Seq({"PairAck", "PairReset"})]
    BY <1>t
  <2>2. LeaderSends(l, types)
    BY <1>5 DEF ClearStoreAndTell
  <2> HIDE DEF types
  <2>3. \A f \in Followers : Bounded(toFollower'[f], FromLeader)
    BY <2>1, <2>2, LeaderSendsType
  <2> QED BY <1>5, <2>3 DEF ClearStoreAndTell, Cleared, TypeOK, Bounded
<1>6. ASSUME NEW l \in Leaders, BroadcastReset(l) PROVE TypeOK'
  <2> DEFINE types == [f \in Followers |-> <<"PairReset">>]
  <2>1. types \in [Followers -> Seq({"PairAck", "PairReset"})]
    BY <1>t
  <2>2. LeaderSends(l, types)
    BY <1>6 DEF BroadcastReset, BroadcastDue
  <2> HIDE DEF types
  <2>3. \A f \in Followers : Bounded(toFollower'[f], FromLeader)
    BY <2>1, <2>2, LeaderSendsType
  <2>4. pendingResets' \in [Leaders -> 0..2]
    BY <1>6 DEF BroadcastReset, BroadcastDue, TypeOK
  <2> QED BY <1>6, <2>3, <2>4 DEF BroadcastReset, BroadcastDue, TypeOK, Bounded
<1>7. ASSUME NEW l \in Leaders, ResetPairing(l) PROVE TypeOK'
  BY <1>7, <1>a DEF ResetPairing, TypeOK
<1>8. ASSUME NEW l \in Leaders, SendCommand(l) PROVE TypeOK'
  BY <1>8, ConstantsAssumption DEF SendCommand, notifyPeerActivity, TypeOK
<1>9. ASSUME NEW l \in Leaders, LeaderReboot(l) PROVE TypeOK'
  <2>1. \A k \in Leaders : Bounded(toLeader'[k], FromFollower)
    BY <1>9, ConstantsAssumption DEF LeaderReboot, TypeOK, Bounded
  <2> QED BY <1>9, <1>a, <1>n, <2>1 DEF LeaderReboot, TypeOK, Bounded
<1>10. ASSUME NEW l \in Leaders, LoseToLeader(l) PROVE TypeOK'
  <2>1. Bounded(Tail(toLeader[l]), FromFollower)
    BY <1>10, TailType DEF LoseToLeader, TypeOK
  <2>2. \A k \in Leaders : Bounded(toLeader'[k], FromFollower)
    BY <1>10, <2>1 DEF LoseToLeader, TypeOK, Bounded
  <2> QED BY <1>10, <1>a, <2>2 DEF LoseToLeader, TypeOK, Bounded
<1>11. ASSUME NEW f \in Followers, HandlePairReset(f) PROVE TypeOK'
  <2>1. Bounded(Tail(toFollower[f]), FromLeader)
    BY <1>11, TailType DEF HandlePairReset, TypeOK
  <2>2. \A g \in Followers : Bounded(toFollower'[g], FromLeader)
    BY <1>11, <2>1 DEF HandlePairReset, TypeOK, Bounded
  <2> QED BY <1>11, <2>2 DEF HandlePairReset, TypeOK, Bounded
<1>12. ASSUME NEW f \in Followers, NEW saved \in BOOLEAN, HandlePairAck(f, saved)
       PROVE  TypeOK'
  <2>1. Head(toFollower[f]) \in FromLeader /\ Bounded(Tail(toFollower[f]), FromLeader)
    BY <1>12, TailType DEF HandlePairAck, TypeOK
  <2>2. \A g \in Followers : Bounded(toFollower'[g], FromLeader)
    BY <1>12, <2>1 DEF HandlePairAck, TypeOK, Bounded
  <2>3. Head(toFollower[f]).from \in Leaders
    BY <2>1 DEF FromLeader
  <2>4. disturbances' \in 0..MaxDisturbances
    BY <1>12, <1>a DEF HandlePairAck, TypeOK
  <2>5. leaderOf' \in [Followers -> Leaders \cup {NoMac}]
    BY <1>12, <2>3 DEF HandlePairAck, TypeOK
  <2> QED BY <1>12, <2>2, <2>4, <2>5 DEF HandlePairAck, TypeOK, Bounded
<1>13. ASSUME NEW f \in Followers, FollowerTick(f) PROVE TypeOK'
  <2>1. ASSUME NEW frame \in FromFollower, NEW l \in Leaders
        PROVE  Bounded(Sent(toLeader[l], <<frame>>), FromFollower)
    <3>1. <<frame>> \in Seq(FromFollower)
      OBVIOUS
    <3> QED BY <3>1, SentType DEF TypeOK
  <2>2. CASE SendPairRequest(f)
    <3> DEFINE frame == [type |-> "PairRequest", from |-> f,
                         provoked |-> "request" \notin due[f]]
    <3>1. frame \in FromFollower
      BY DEF FromFollower
    <3>2. Broadcast(f, frame) \/ (leaderOf[f] # NoMac /\ Unicast(leaderOf[f], frame))
      BY <2>2 DEF SendPairRequest
    <3> HIDE DEF frame
    <3>3. ASSUME NEW l \in Leaders PROVE Bounded(toLeader'[l], FromFollower)
      <4>1. CASE Broadcast(f, frame)
        <5>1. toLeader'[l] = Sent(toLeader[l], <<frame>>)
          BY <4>1 DEF Broadcast
        <5> QED BY <5>1, <3>1, <2>1
      <4>2. CASE Unicast(leaderOf[f], frame)
        <5>1. \/ toLeader'[l] = toLeader[l]
              \/ toLeader'[l] = Sent(toLeader[l], <<frame>>)
          BY <4>2 DEF Unicast, TypeOK
        <5>2. Bounded(toLeader[l], FromFollower)
          BY DEF TypeOK, Bounded
        <5> QED BY <5>1, <5>2, <3>1, <2>1
      <4> QED BY <3>2, <4>1, <4>2
    <3> QED BY <2>2, <3>3 DEF SendPairRequest, TypeOK, Bounded
  <2>3. CASE SendPresence(f)
    <3> DEFINE frame == [type |-> "Presence", from |-> f, provoked |-> FALSE]
    <3>1. frame \in FromFollower
      BY DEF FromFollower
    <3>2. Unicast(leaderOf[f], frame)
      BY <2>3 DEF SendPresence
    <3> HIDE DEF frame
    <3>3. \A l \in Leaders : Bounded(toLeader'[l], FromFollower)
      BY <3>1, <3>2, <2>1 DEF Unicast, TypeOK, Bounded
    <3> QED BY <2>3, <3>3 DEF SendPresence, TypeOK, Bounded
  <2> QED BY <1>13, <2>2, <2>3 DEF FollowerTick
<1>14. ASSUME NEW f \in Followers, PowerOff(f) PROVE TypeOK'
  <2>1. \A g \in Followers : Bounded(toFollower'[g], FromLeader)
    BY <1>14, ConstantsAssumption DEF PowerOff, TypeOK, Bounded
  <2> QED BY <1>14, <1>a, <2>1 DEF PowerOff, TypeOK, Bounded
<1>15. ASSUME NEW f \in Followers, PowerOn(f) PROVE TypeOK'
  BY <1>15 DEF PowerOn, TypeOK
<1>16. ASSUME NEW f \in Followers, LoseToFollower(f) PROVE TypeOK'
  <2>1. Bounded(Tail(toFollower[f]), FromLeader)
    BY <1>16, TailType DEF LoseToFollower, TypeOK
  <2>2. \A g \in Followers : Bounded(toFollower'[g], FromLeader)
    BY <1>16, <2>1 DEF LoseToFollower, TypeOK, Bounded
  <2> QED BY <1>16, <1>a, <2>2 DEF LoseToFollower, TypeOK, Bounded
<1>17. CASE Period
  <2>1. silence' \in [Leaders -> {Never} \cup 0..Timeout]
    BY <1>17, ConstantsAssumption DEF Period, TypeOK, Never
  <2>2. due' \in [Followers -> SUBSET {"presence", "request", "again"}]
    BY <1>17 DEF Period
  <2> QED BY <1>17, <2>1, <2>2 DEF Period, TypeOK
<1>18. CASE UNCHANGED vars
  BY <1>18 DEF vars, TypeOK
<1> QED
  BY <1>1, <1>2, <1>3, <1>4, <1>5, <1>6, <1>7, <1>8, <1>9, <1>10, <1>11, <1>12, <1>13,
     <1>14, <1>15, <1>16, <1>17, <1>18
  DEF Next, LeaderCallback, LeaderTick, FollowerCallback

\* Every variable keeps its type and every channel its bound.
THEOREM TypeCorrect == Spec => []TypeOK
BY TypeInit, TypeStep, PTL DEF Spec

-----------------------------------------------------------------------------
(* Flash and memory.                                                       *)

\* While the callback has copied an address it has yet to save, or the loop is
\* in a reset or an expiry, the other is in no update, the leader counts as
\* unpaired, and only the loop has left an old address in flash.
Exclusive ==
    \A l \in Leaders :
        /\ accepting[l] # NoFrame =>
              lpc[l] = "idle" /\ ~hasPairedMac[l] /\ store[l] = NoMac
        /\ lpc[l] # "idle" => ~hasPairedMac[l]

LEMMA ExclusiveInit == Init => Exclusive /\ StoreMatchesMemory
BY DEF Init, Exclusive, StoreMatchesMemory

LEMMA ExclusiveStep ==
    ASSUME Preemptive = FALSE, TypeOK, Exclusive, StoreMatchesMemory, [Next]_vars
    PROVE  Exclusive' /\ StoreMatchesMemory'
<1> USE DEF Exclusive, StoreMatchesMemory, LoopUndisturbed, CallbackUndisturbed
<1>n. \A m \in FromFollower : m # NoFrame /\ m.from \in Followers /\ m.from # NoMac
  BY ConstantsAssumption DEF FromFollower, NoFrame
<1>1. ASSUME NEW l \in Leaders, AnswerPeer(l) PROVE Exclusive' /\ StoreMatchesMemory'
  BY <1>1 DEF AnswerPeer, TypeOK
<1>2. ASSUME NEW l \in Leaders, AcceptPeer(l) PROVE Exclusive' /\ StoreMatchesMemory'
  <2>1. Head(toLeader[l]) # NoFrame
    BY <1>2, <1>n, TailType DEF AcceptPeer, TypeOK
  <2> QED BY <1>2, <2>1 DEF AcceptPeer, TypeOK
<1>3. ASSUME NEW l \in Leaders, NEW saved \in BOOLEAN, SavePeer(l, saved)
      PROVE  Exclusive' /\ StoreMatchesMemory'
  BY <1>3 DEF SavePeer, TypeOK
<1>4. ASSUME NEW l \in Leaders, Expire(l) \/ ResetPairing(l)
      PROVE  Exclusive' /\ StoreMatchesMemory'
  <2>1. accepting[l] = NoFrame /\ UNCHANGED <<accepting, store, pairedFollowerMac>>
    BY <1>4 DEF Expire, ResetPairing
  <2>2. hasPairedMac' = [hasPairedMac EXCEPT ![l] = FALSE]
    BY <1>4 DEF Expire, ResetPairing
  <2>3. \E p \in {"resetMac", "expireMac"} : lpc' = [lpc EXCEPT ![l] = p]
    BY <1>4 DEF Expire, ResetPairing
  <2> QED BY <2>1, <2>2, <2>3 DEF TypeOK
<1>5. ASSUME NEW l \in Leaders, ClearMac(l) PROVE Exclusive' /\ StoreMatchesMemory'
  BY <1>5 DEF ClearMac, TypeOK
<1>6. ASSUME NEW l \in Leaders, ClearStoreAfterExpiry(l) \/ ClearStoreAndTell(l)
      PROVE  Exclusive' /\ StoreMatchesMemory'
  BY <1>6 DEF ClearStoreAfterExpiry, ClearStoreAndTell, Cleared, TypeOK
<1>7. ASSUME NEW l \in Leaders, BroadcastReset(l) \/ SendCommand(l) \/ LoseToLeader(l)
      PROVE  Exclusive' /\ StoreMatchesMemory'
  BY <1>7 DEF BroadcastReset, SendCommand, LoseToLeader, leaderVars
<1>8. ASSUME NEW l \in Leaders, LeaderReboot(l) PROVE Exclusive' /\ StoreMatchesMemory'
  BY <1>8 DEF LeaderReboot, TypeOK
<1>9. ASSUME NEW f \in Followers, NEW saved \in BOOLEAN,
             \/ HandlePairReset(f) \/ HandlePairAck(f, saved) \/ FollowerTick(f)
             \/ PowerOff(f) \/ PowerOn(f) \/ LoseToFollower(f)
      PROVE  Exclusive' /\ StoreMatchesMemory'
  BY <1>9 DEF HandlePairReset, HandlePairAck, FollowerTick, SendPairRequest, SendPresence,
              PowerOff, PowerOn, LoseToFollower, leaderVars
<1>10. CASE Period
  BY <1>10 DEF Period
<1>11. CASE UNCHANGED vars
  BY <1>11 DEF vars, leaderVars
<1> QED
  BY <1>1, <1>2, <1>3, <1>4, <1>5, <1>6, <1>7, <1>8, <1>9, <1>10, <1>11
  DEF Next, LeaderCallback, LeaderTick, FollowerCallback

\* Between two updates a reboot of the leader changes nothing about its pair:
\* PeerPairingStore and hasPairedMac_ / pairedFollowerMac_ agree.
THEOREM StoreMatchesMemoryHolds ==
    ASSUME Preemptive = FALSE
    PROVE  Spec => []StoreMatchesMemory
<1>1. TypeOK /\ Exclusive /\ StoreMatchesMemory /\ [Next]_vars
        => (Exclusive /\ StoreMatchesMemory)'
  BY ExclusiveStep
<1> QED BY <1>1, ExclusiveInit, TypeCorrect, PTL DEF Spec

-----------------------------------------------------------------------------
(* One pairing at a time.                                                  *)

LEMMA LeadersKeep ==
    ASSUME TypeOK, Exclusive, StoreMatchesMemory, [Next]_vars
    PROVE  KeptByLeaders
<1> USE DEF KeptByLeaders
<1>1. ASSUME NEW l \in Leaders, AnswerPeer(l) \/ SendCommand(l) \/ BroadcastReset(l)
      PROVE  KeptByLeaders
  BY <1>1 DEF AnswerPeer, SendCommand, BroadcastReset
<1>2. ASSUME NEW l \in Leaders, AcceptPeer(l) PROVE KeptByLeaders
  BY <1>2 DEF AcceptPeer, TypeOK
<1>3. ASSUME NEW l \in Leaders, NEW saved \in BOOLEAN, SavePeer(l, saved)
      PROVE  KeptByLeaders
  BY <1>3 DEF SavePeer
<1>4. ASSUME NEW l \in Leaders, Expire(l) \/ ResetPairing(l) PROVE KeptByLeaders
  BY <1>4 DEF Expire, ResetPairing
<1>5. ASSUME NEW l \in Leaders, ClearMac(l) PROVE KeptByLeaders
  BY <1>5 DEF ClearMac, Exclusive, TypeOK
<1>6. ASSUME NEW l \in Leaders, ClearStoreAfterExpiry(l) \/ ClearStoreAndTell(l)
      PROVE  KeptByLeaders
  BY <1>6 DEF ClearStoreAfterExpiry, ClearStoreAndTell
<1>7. ASSUME NEW l \in Leaders, LeaderReboot(l) PROVE KeptByLeaders
  <2>1. hasPairedMac[l] => store[l] = pairedFollowerMac[l]
    BY DEF Exclusive, StoreMatchesMemory
  <2> QED BY <1>7, <2>1 DEF LeaderReboot, TypeOK
<1>8. ASSUME UNCHANGED leaderVars PROVE KeptByLeaders
  BY <1>8 DEF leaderVars
<1>9. ASSUME NEW f \in Followers, NEW saved \in BOOLEAN,
             \/ HandlePairReset(f) \/ HandlePairAck(f, saved) \/ FollowerTick(f)
             \/ PowerOff(f) \/ PowerOn(f) \/ LoseToFollower(f)
      PROVE  UNCHANGED leaderVars
  BY <1>9 DEF HandlePairReset, HandlePairAck, FollowerTick, SendPairRequest, SendPresence,
              PowerOff, PowerOn, LoseToFollower
<1>10. ASSUME NEW l \in Leaders, LoseToLeader(l) PROVE UNCHANGED leaderVars
  BY <1>10 DEF LoseToLeader
<1>11. CASE Period
  BY <1>11 DEF Period
<1>12. CASE UNCHANGED vars
  BY <1>8, <1>12 DEF vars
<1> QED
  BY <1>1, <1>2, <1>3, <1>4, <1>5, <1>6, <1>7, <1>8, <1>9, <1>10, <1>11, <1>12
  DEF Next, LeaderCallback, LeaderTick, FollowerCallback

LEMMA FollowersKeep ==
    ASSUME TypeOK, [Next]_vars
    PROVE  KeptByFollowers
<1> USE DEF KeptByFollowers
<1>1. ASSUME NEW f \in Followers, NEW saved \in BOOLEAN, HandlePairAck(f, saved)
      PROVE  KeptByFollowers
  BY <1>1 DEF HandlePairAck, TypeOK
<1>2. ASSUME NEW f \in Followers, HandlePairReset(f) PROVE KeptByFollowers
  BY <1>2 DEF HandlePairReset, TypeOK
<1>3. ASSUME UNCHANGED leaderOf PROVE KeptByFollowers
  BY <1>3
<1>4. ASSUME NEW f \in Followers,
             \/ FollowerTick(f) \/ PowerOff(f) \/ PowerOn(f) \/ LoseToFollower(f)
      PROVE  UNCHANGED leaderOf
  BY <1>4 DEF FollowerTick, SendPairRequest, SendPresence, PowerOff, PowerOn,
              LoseToFollower, followerVars
<1>5. ASSUME NEW l \in Leaders, NEW saved \in BOOLEAN,
             \/ AnswerPeer(l) \/ AcceptPeer(l) \/ SavePeer(l, saved) \/ LeaderTick(l)
             \/ ResetPairing(l) \/ SendCommand(l) \/ LeaderReboot(l) \/ LoseToLeader(l)
      PROVE  UNCHANGED leaderOf
  BY <1>5 DEF AnswerPeer, AcceptPeer, SavePeer, LeaderTick, Expire, ClearMac,
              ClearStoreAfterExpiry, ClearStoreAndTell, BroadcastReset, ResetPairing,
              SendCommand, LeaderReboot, LoseToLeader, followerVars
<1>6. Period \/ UNCHANGED vars => UNCHANGED leaderOf
  BY DEF Period, vars, followerVars
<1> QED
  BY <1>1, <1>2, <1>3, <1>4, <1>5, <1>6 DEF Next, LeaderCallback, FollowerCallback

\* A paired board never changes its peer in one step: shouldAcceptLeaderPairRequest
\* and shouldAcceptFollowerPairAck keep strangers out, and a reboot brings back
\* the same peer.
THEOREM PairingKeptHolds ==
    ASSUME Preemptive = FALSE
    PROVE  Spec => PairingKept
<1>1. TypeOK /\ Exclusive /\ StoreMatchesMemory /\ [Next]_vars
        => (Exclusive /\ StoreMatchesMemory)'
  BY ExclusiveStep
<1>2. TypeOK /\ Exclusive /\ StoreMatchesMemory /\ [Next]_vars
        => [KeptByLeaders /\ KeptByFollowers]_vars
  BY LeadersKeep, FollowersKeep
<1>3. Spec => [][KeptByLeaders /\ KeptByFollowers]_vars
  BY <1>1, <1>2, ExclusiveInit, TypeCorrect, PTL DEF Spec
<1> QED BY <1>3 DEF PairingKept

=============================================================================
