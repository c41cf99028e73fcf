------------------------- MODULE CommandLinkProofs -------------------------
(***************************************************************************)
(* Proofs about CommandLink, for every set of opcodes and every bound:     *)
(*   TypeCorrect              Spec => []TypeOK                             *)
(*   AppliedWasHandledHolds   the dashboard's Applied is an answer         *)
(*   AppliedWasAppliedHolds   ... and the answer was Applied               *)
(*   ServiceImplemented       Spec implements CommandService               *)
(*   NoImmediateRepeatHolds   no queued command runs twice in a row        *)
(*   TrackedNotOvertakenHolds nothing older runs after a tracked command   *)
(* The third, the fourth and the fifth assume that a callback never runs   *)
(* in the middle of an update of the fields it shares (Preemptive =        *)
(* FALSE), the sixth that ids are not used again (MaxRestarts = 0).  The   *)
(* inductive invariants follow an answer on its way back (whatever         *)
(* acknowledgement stands in the follower's record, in a message or in the *)
(* leader's record, the log holds the execution that produced it) and a    *)
(* command on its way out (what the radio, the queue, the loop's hands and *)
(* the log hold stands in the order of the requests).                      *)
(***************************************************************************)
EXTENDS CommandLink, TLAPS

LEMMA BurstType ==
    ASSUME NEW S, NEW ch \in Seq(S), NEW m \in S, NEW capacity \in Nat, NEW n \in Nat,
           Len(ch) <= capacity
    PROVE  /\ Burst(ch, capacity, n, m) \in Seq(S)
           /\ Len(Burst(ch, capacity, n, m)) <= capacity
           /\ \A i \in DOMAIN Burst(ch, capacity, n, m) :
                 \/ Burst(ch, capacity, n, m)[i] = m
                 \/ \E j \in DOMAIN ch : Burst(ch, capacity, n, m)[i] = ch[j]
<1> DEFINE k == Fitting(n, capacity - Len(ch))
           tail == Copies(k, m)
<1>1. k \in Nat /\ k <= capacity - Len(ch)
  BY DEF Fitting
<1>2. tail \in Seq(S) /\ Len(tail) = k /\ \A i \in 1..k : tail[i] = m
  BY <1>1 DEF Copies
<1> HIDE DEF k, tail
<1>3. ch \o tail \in Seq(S) /\ Len(ch \o tail) = Len(ch) + k
  BY <1>1, <1>2
<1>4. ASSUME NEW i \in DOMAIN (ch \o tail)
      PROVE  \/ (ch \o tail)[i] = m
             \/ \E j \in DOMAIN ch : (ch \o tail)[i] = ch[j]
  <2>1. CASE i <= Len(ch)
    BY <1>2, <1>3, <2>1
  <2>2. CASE i > Len(ch)
    <3>1. (ch \o tail)[i] = tail[i - Len(ch)] /\ i - Len(ch) \in 1..k
      BY <1>1, <1>2, <1>3, <2>2
    <3> QED BY <1>2, <3>1
  <2> QED BY <1>3, <2>1, <2>2
<1> QED
  BY <1>1, <1>3, <1>4 DEF Burst, k, tail

-----------------------------------------------------------------------------
(* Types.                                                                  *)

\* The program points that work on a command hold one, the scan flag goes with
\* a pending request, and only a request that was sent is awaited.
HeldOK ==
    /\ pc \in {"mark", "execute", "status", "scan", "scanStatus"} => held.frame \in Frame
    /\ scanFlag \/ scanTaken => scanPending \in Frame
    /\ tracker.pending => tracker.frame \in Frame

TrackerType ==
    [pending : BOOLEAN, frame : Frame \cup {NoFrame},
     status : CommandAckStatus, retry : BOOLEAN, left : 0..MaxRetries]

LEMMA TrackerUpdate ==
    ASSUME tracker \in TrackerType,
           NEW p \in BOOLEAN, NEW s \in CommandAckStatus, NEW r \in BOOLEAN,
           NEW n \in 0..MaxRetries,
           tracker' = [tracker EXCEPT !.left = n, !.status = s, !.pending = p, !.retry = r]
    PROVE  /\ tracker' \in TrackerType
           /\ tracker'.frame = tracker.frame
           /\ tracker'.pending = p
           /\ tracker'.status = s
BY DEF TrackerType

LEMMA TypeInit == Init => TypeOK /\ HeldOK
<1> SUFFICES ASSUME Init PROVE TypeOK /\ HeldOK
  OBVIOUS
<1>1. nextId \in 1..(MaxId + 1) /\ restarts \in 0..MaxRestarts
  BY ConstantsAssumption DEF Init
<1>2. tracker \in [pending : BOOLEAN, frame : Frame \cup {NoFrame},
                   status : CommandAckStatus, retry : BOOLEAN, left : 0..MaxRetries]
  BY ConstantsAssumption DEF Init, Idle, CommandAckStatus
<1>3. /\ seen \in [frame : AckedFrame, status : CommandAckStatus]
      /\ lastAck \in [frame : AckedFrame, status : CommandAckStatus]
      /\ held \in [frame : Frame \cup {NoFrame}, status : {"None"} \cup Answer]
  BY DEF Init, Nothing, AckedFrame, CommandAckStatus
<1>4. /\ toFollower \in Seq(Frame) /\ Len(toFollower) <= DownCapacity
      /\ toLeader \in Seq(Message) /\ Len(toLeader) <= UpCapacity
      /\ queue \in Seq(Frame) /\ Len(queue) <= QueueCapacity
      /\ log \in Seq([frame : Frame, status : Answer, ran : BOOLEAN])
  BY ConstantsAssumption DEF Init
<1>5. HeldOK
  BY DEF Init, HeldOK, Idle
<1> QED BY <1>1, <1>2, <1>3, <1>4, <1>5 DEF Init, TypeOK

LEMMA Transmission ==
    ASSUME TypeOK, NEW f \in Frame, NEW ok \in BOOLEAN, Transmit(f, ok)
    PROVE  toFollower' \in Seq(Frame) /\ Len(toFollower') <= DownCapacity
<1>1. CASE ok
  <2> DEFINE copies == IF f.op = "TeleopMirror" THEN 1 ELSE SendBurst
  <2>1. copies \in Nat /\ DownCapacity \in Nat
    BY ConstantsAssumption
  <2>2. toFollower' = Burst(toFollower, DownCapacity, copies, f)
    BY <1>1 DEF Transmit
  <2> HIDE DEF copies
  <2> QED BY <2>1, <2>2, BurstType DEF TypeOK
<1>2. CASE ~ok
  BY <1>2 DEF Transmit, TypeOK
<1> QED BY <1>1, <1>2

LEMMA Answering ==
    ASSUME TypeOK, NEW f \in AckedFrame, NEW status \in CommandAckStatus,
           SendAck(f, status)
    PROVE  /\ toLeader' \in Seq(Message) /\ Len(toLeader') <= UpCapacity
           /\ \A i \in DOMAIN toLeader' :
                 \/ toLeader'[i] = Ack(f, status)
                 \/ \E j \in DOMAIN toLeader : toLeader'[i] = toLeader[j]
<1>1. Ack(f, status) \in Message
  BY DEF Ack, Message, TypeOK
<1>2. AckBurst \in Nat /\ UpCapacity \in Nat
  BY ConstantsAssumption
<1> QED BY <1>1, <1>2, BurstType DEF TypeOK, SendAck

LEMMA AnsweringAgain ==
    ASSUME TypeOK, NEW f \in Frame, AnswerAgain(f)
    PROVE  /\ toLeader' \in Seq(Message) /\ Len(toLeader') <= UpCapacity
           /\ \A i \in DOMAIN toLeader' :
                 \/ toLeader'[i] = Ack(lastAck.frame, lastAck.status)
                 \/ \E j \in DOMAIN toLeader : toLeader'[i] = toLeader[j]
<1>1. CASE lastAck.frame = f
  BY <1>1, Answering DEF AnswerAgain, TypeOK
<1>2. CASE lastAck.frame # f
  BY <1>2 DEF AnswerAgain, TypeOK
<1> QED BY <1>1, <1>2

LEMMA PresenceSent ==
    ASSUME TypeOK, NEW paused \in BOOLEAN, NEW nudge \in BOOLEAN,
           NEW presenceDue \in BOOLEAN, NEW heartbeatDue \in BOOLEAN,
           PublishAndTick(paused, nudge, presenceDue, heartbeatDue)
    PROVE  /\ toLeader' \in Seq(Message) /\ Len(toLeader') <= UpCapacity
           /\ \A i \in DOMAIN toLeader' :
                 \/ toLeader'[i].frame = lastAck.frame /\ toLeader'[i].status = lastAck.status
                 \/ \E j \in DOMAIN toLeader : toLeader'[i] = toLeader[j]
<1>1. CASE UNCHANGED toLeader
  BY <1>1 DEF TypeOK
<1>2. CASE ~UNCHANGED toLeader
  <2>1. PICK kind \in {"flagged", "heartbeat"} :
           toLeader' = Burst(toLeader, UpCapacity, 1,
                             [kind |-> kind, frame |-> lastAck.frame,
                              status |-> lastAck.status, manual |-> published'])
    BY <1>2 DEF PublishAndTick
  <2> DEFINE m == [kind |-> kind, frame |-> lastAck.frame,
                   status |-> lastAck.status, manual |-> published']
  <2>2. m \in Message /\ m.frame = lastAck.frame /\ m.status = lastAck.status
    BY DEF Message, TypeOK, PublishAndTick
  <2>3. UpCapacity \in Nat /\ toLeader \in Seq(Message) /\ Len(toLeader) <= UpCapacity
    BY ConstantsAssumption DEF TypeOK
  <2> HIDE DEF m
  <2>4. toLeader' = Burst(toLeader, UpCapacity, 1, m)
    BY <2>1 DEF m
  <2>5. /\ Burst(toLeader, UpCapacity, 1, m) \in Seq(Message)
        /\ Len(Burst(toLeader, UpCapacity, 1, m)) <= UpCapacity
        /\ \A i \in DOMAIN Burst(toLeader, UpCapacity, 1, m) :
              \/ Burst(toLeader, UpCapacity, 1, m)[i] = m
              \/ \E j \in DOMAIN toLeader : Burst(toLeader, UpCapacity, 1, m)[i] = toLeader[j]
    BY <2>2, <2>3, BurstType
  <2> QED BY <2>2, <2>4, <2>5
<1> QED BY <1>1, <1>2

LEMMA TypeStep == TypeOK /\ HeldOK /\ [Next]_vars => TypeOK' /\ HeldOK'
<1> SUFFICES ASSUME TypeOK, HeldOK, [Next]_vars PROVE TypeOK' /\ HeldOK'
  OBVIOUS
<1> USE DEF HeldOK
<1>1. ASSUME NEW op \in TrackedOps, NEW sent \in BOOLEAN, Issue(op, sent)
      PROVE  TypeOK' /\ HeldOK'
  <2> DEFINE f == [id |-> nextId, op |-> op]
  <2>1. f \in Frame
    BY <1>1, ConstantsAssumption DEF Issue, TypeOK, Frame, Ops
  <2>2. toFollower' \in Seq(Frame) /\ Len(toFollower') <= DownCapacity
    BY <1>1, <2>1, Transmission DEF Issue
  <2>3. tracker' \in [pending : BOOLEAN, frame : Frame \cup {NoFrame},
                      status : CommandAckStatus, retry : BOOLEAN, left : 0..MaxRetries]
        /\ tracker'.frame = f
    BY <1>1, <2>1, ConstantsAssumption DEF Issue, Tracking, CommandAckStatus
  <2>4. nextId' \in 1..(MaxId + 1)
    BY <1>1, ConstantsAssumption DEF Issue, TypeOK
  <2> QED BY <1>1, <2>1, <2>2, <2>3, <2>4
          DEF Issue, TypeOK, followerVars, loopVars, scanVars, ackVars
<1>2. ASSUME NEW op \in UntrackedOps, NEW sent \in BOOLEAN, IssueUntracked(op, sent)
      PROVE  TypeOK' /\ HeldOK'
  <2> DEFINE f == [id |-> nextId, op |-> op]
  <2>1. f \in Frame
    BY <1>2, ConstantsAssumption DEF IssueUntracked, TypeOK, Frame, Ops
  <2>2. toFollower' \in Seq(Frame) /\ Len(toFollower') <= DownCapacity
    BY <1>2, <2>1, Transmission DEF IssueUntracked
  <2>3. nextId' \in 1..(MaxId + 1)
    BY <1>2, ConstantsAssumption DEF IssueUntracked, TypeOK
  <2> QED BY <1>2, <2>2, <2>3
          DEF IssueUntracked, TypeOK, followerVars, loopVars, scanVars, ackVars
<1>3. CASE TakeAck
  <2>1. tracker' \in TrackerType /\ ~tracker'.pending
    <3>1. tracker' = [tracker EXCEPT !.left = tracker.left, !.status = seen.status,
                                     !.pending = FALSE, !.retry = FALSE]
      <4>1. tracker \in TrackerType
        BY DEF TypeOK, TrackerType
      <4>2. tracker' = [tracker EXCEPT !.status = seen.status, !.pending = FALSE,
                                       !.retry = FALSE]
        BY <1>3 DEF TakeAck
      <4> QED BY <4>1, <4>2 DEF TrackerType
    <3>2. tracker \in TrackerType /\ tracker.left \in 0..MaxRetries
          /\ seen.status \in CommandAckStatus
      BY DEF TypeOK, TrackerType
    <3> QED BY <3>1, <3>2, TrackerUpdate
  <2>2. UNCHANGED <<nextId, seen, seenManual, rx, restarts, toFollower, toLeader,
                    followerVars, log>>
    BY <1>3 DEF TakeAck
  <2> QED BY <2>1, <2>2
          DEF TypeOK, TrackerType, followerVars, loopVars, scanVars, ackVars
<1>4. ASSUME NEW retryDue \in BOOLEAN, NEW resent \in BOOLEAN, NEW late \in BOOLEAN,
             RetryOrExpire(retryDue, resent, late)
      PROVE  TypeOK' /\ HeldOK'
  <2>1. tracker.frame \in Frame
    BY <1>4 DEF RetryOrExpire
  <2>2. toFollower' \in Seq(Frame) /\ Len(toFollower') <= DownCapacity
    BY <1>4, <2>1, Transmission DEF RetryOrExpire
  <2>3. tracker' \in TrackerType /\ tracker'.frame = tracker.frame
    <3> DEFINE resend == retryDue /\ tracker.retry /\ tracker.left > 0
               left == IF resend THEN tracker.left - 1 ELSE tracker.left
               exhausted == resend /\ ~resent /\ left = 0
               status == IF exhausted THEN "Failed" ELSE IF late THEN "Timeout"
                         ELSE tracker.status
               pending == ~(exhausted \/ late)
               retry == tracker.retry /\ ~(exhausted \/ late)
    <3>1. tracker' = [tracker EXCEPT !.left = left, !.status = status,
                                     !.pending = pending, !.retry = retry]
      BY <1>4 DEF RetryOrExpire
    <3>2. left \in 0..MaxRetries
      BY ConstantsAssumption DEF TypeOK
    <3>3. status \in CommandAckStatus
      BY DEF TypeOK, CommandAckStatus
    <3>4. pending \in BOOLEAN /\ retry \in BOOLEAN
      OBVIOUS
    <3> HIDE DEF left, status, pending, retry
    <3>5. tracker \in TrackerType
      BY DEF TypeOK, TrackerType
    <3> QED BY <3>1, <3>2, <3>3, <3>4, <3>5, TrackerUpdate
  <2>4. UNCHANGED <<nextId, seen, seenManual, rx, restarts, toLeader,
                    followerVars, log>>
    BY <1>4 DEF RetryOrExpire
  <2> QED BY <2>1, <2>2, <2>3, <2>4
          DEF TypeOK, TrackerType, followerVars, loopVars, scanVars, ackVars
<1>5. CASE LeaderRestart \/ DashboardRestart
  <2>1. nextId' \in 1..(MaxId + 1) /\ restarts' \in 0..MaxRestarts
    BY <1>5, ConstantsAssumption DEF LeaderRestart, DashboardRestart, TypeOK
  <2>2. tracker' \in TrackerType /\ (tracker'.pending => tracker'.frame \in Frame)
    <3>1. Idle \in TrackerType /\ ~Idle.pending
      BY ConstantsAssumption DEF Idle, TrackerType, CommandAckStatus
    <3> QED BY <1>5, <3>1 DEF LeaderRestart, DashboardRestart, TypeOK, TrackerType
  <2>3. /\ seen' \in [frame : AckedFrame, status : CommandAckStatus]
        /\ seenManual' \in BOOLEAN /\ rx' \in Message \cup {NoMessage}
    <3>1. Nothing \in [frame : AckedFrame, status : CommandAckStatus]
      BY DEF Nothing, CommandAckStatus, AckedFrame
    <3> QED BY <1>5, <3>1 DEF LeaderRestart, DashboardRestart, TypeOK
  <2>4. UNCHANGED <<toFollower, toLeader, followerVars, log>>
    BY <1>5 DEF LeaderRestart, DashboardRestart
  <2> QED BY <2>1, <2>2, <2>3, <2>4
          DEF TypeOK, TrackerType, followerVars, loopVars, scanVars, ackVars
<1>6. CASE StoreStatus
  <2>1. Head(toLeader) \in Message /\ toLeader' \in Seq(Message)
        /\ Len(toLeader') <= UpCapacity
    BY <1>6, ConstantsAssumption DEF StoreStatus, TypeOK
  <2>2. seen' \in [frame : AckedFrame, status : CommandAckStatus] /\ seenManual' \in BOOLEAN
    BY <1>6, <2>1 DEF StoreStatus, TypeOK, Message, DebugFlag
  <2> QED BY <1>6, <2>1, <2>2
          DEF StoreStatus, TypeOK, followerVars, loopVars, scanVars, ackVars
<1>7. CASE StoreRequest
  <2>1. rx.frame \in AckedFrame
    BY <1>7 DEF StoreRequest, TypeOK, Message, NoMessage, AckedFrame
  <2>2. seen' \in [frame : AckedFrame, status : CommandAckStatus] /\ rx' = NoMessage
    BY <1>7, <2>1 DEF StoreRequest, TypeOK
  <2>3. UNCHANGED <<nextId, tracker, seenManual, restarts, toFollower, toLeader,
                    followerVars, log>>
    BY <1>7 DEF StoreRequest
  <2> QED BY <2>2, <2>3 DEF TypeOK, HeldOK, followerVars, loopVars, scanVars, ackVars
<1>8. CASE LoseToFollower \/ LoseToLeader
  <2>1. /\ toFollower' \in Seq(Frame) /\ Len(toFollower') <= DownCapacity
        /\ toLeader' \in Seq(Message) /\ Len(toLeader') <= UpCapacity
    <3>1. CASE LoseToFollower
      BY <3>1, ConstantsAssumption DEF LoseToFollower, TypeOK
    <3>2. CASE LoseToLeader
      BY <3>2, ConstantsAssumption DEF LoseToLeader, TypeOK
    <3> QED BY <1>8, <3>1, <3>2
  <2> QED BY <1>8, <2>1
     DEF LoseToFollower, LoseToLeader, TypeOK, leaderVars, loopVars, scanVars, ackVars
<1>9. CASE handleServoControlFrame
  <2> DEFINE f == Head(toFollower)
  <2>1. f \in Frame /\ toFollower' \in Seq(Frame) /\ Len(toFollower') <= DownCapacity
    BY <1>9, ConstantsAssumption DEF handleServoControlFrame, TypeOK
  <2>2. toLeader' \in Seq(Message) /\ Len(toLeader') <= UpCapacity
    <3>1. AnswerAgain(f) \/ SendAck(f, "Rejected") \/ UNCHANGED toLeader
      BY <1>9 DEF handleServoControlFrame
    <3>2. f \in AckedFrame /\ "Rejected" \in CommandAckStatus
      BY <2>1 DEF AckedFrame, CommandAckStatus
    <3> QED BY <2>1, <3>1, <3>2, Answering, AnsweringAgain DEF TypeOK
  <2>3. queue' \in Seq(Frame) /\ Len(queue') <= QueueCapacity
    <3>1. \/ queue' = queue
          \/ queue' = Append(queue, f) /\ ~(Len(queue) >= QueueCapacity)
      BY <1>9 DEF handleServoControlFrame, QueueFull
    <3>2. queue \in Seq(Frame) /\ Len(queue) <= QueueCapacity
      BY DEF TypeOK
    <3> HIDE DEF f
    <3> QED BY <2>1, <3>1, <3>2, ConstantsAssumption
  <2>4. log' \in Seq([frame : Frame, status : Answer, ran : BOOLEAN])
    <3> DEFINE r == [frame |-> f, status |-> "Rejected", ran |-> FALSE]
    <3>1. log' = log \/ log' = Append(log, r)
      BY <1>9 DEF handleServoControlFrame
    <3>2. r \in [frame : Frame, status : Answer, ran : BOOLEAN]
      BY <2>1 DEF Answer
    <3> HIDE DEF r
    <3>3. log \in Seq([frame : Frame, status : Answer, ran : BOOLEAN])
      BY DEF TypeOK
    <3>4. Append(log, r) \in Seq([frame : Frame, status : Answer, ran : BOOLEAN])
      BY <3>2, <3>3
    <3> QED BY <3>1, <3>3, <3>4
  <2>5. /\ scanFlag' \in BOOLEAN /\ scanPending' \in Frame \cup {NoFrame}
        /\ (scanFlag' \/ scanTaken) => scanPending' \in Frame
    <3>1. \/ scanFlag' = scanFlag /\ scanPending' = scanPending
          \/ scanFlag' = TRUE /\ scanPending' = f
      BY <1>9 DEF handleServoControlFrame
    <3>2. /\ scanFlag \in BOOLEAN /\ scanPending \in Frame \cup {NoFrame}
          /\ (scanFlag \/ scanTaken) => scanPending \in Frame
      BY DEF TypeOK
    <3>3. CASE scanFlag' = scanFlag /\ scanPending' = scanPending
      BY <3>2, <3>3
    <3>4. CASE scanFlag' = TRUE /\ scanPending' = f
      BY <2>1, <3>4
    <3> QED BY <3>1, <3>3, <3>4
  <2>6. UNCHANGED <<leaderVars, loopVars, lastProcessed, scanTaken, lastScan,
                    ackVars>>
    BY <1>9 DEF handleServoControlFrame
  <2> QED BY <2>1, <2>2, <2>3, <2>4, <2>5, <2>6
          DEF TypeOK, leaderVars, loopVars, ackVars
<1>10. CASE Dequeue
  <2>1. queue' \in Seq(Frame) /\ Len(queue') <= QueueCapacity
    <3>1. queue' = queue \/ (queue # <<>> /\ queue' = Tail(queue))
      BY <1>10 DEF Dequeue
    <3>2. queue \in Seq(Frame) /\ Len(queue) <= QueueCapacity
      BY DEF TypeOK
    <3>3. CASE queue' = queue
      BY <3>2, <3>3
    <3>4. CASE queue # <<>> /\ queue' = Tail(queue)
      <4>1. queue' \in Seq(Frame) /\ Len(queue') = Len(queue) - 1
        BY <3>2, <3>4
      <4> QED BY <3>2, <4>1, ConstantsAssumption
    <3> QED BY <3>1, <3>3, <3>4
  <2>2. held' \in [frame : Frame \cup {NoFrame}, status : {"None"} \cup Answer]
        /\ (pc' = "mark" => held'.frame \in Frame)
    BY <1>10 DEF Dequeue, Step, TypeOK
  <2> QED BY <1>10, <2>1, <2>2 DEF Dequeue, Step, TypeOK, leaderVars, ackVars
<1>11. CASE MarkProcessed
  BY <1>11 DEF MarkProcessed, Step, TypeOK, leaderVars, scanVars, ackVars
<1>12. ASSUME NEW status \in Answer, Execute(status)
       PROVE  TypeOK' /\ HeldOK'
  <2>1. held.frame \in Frame
    BY <1>12 DEF Execute, Step
  <2>2. log' \in Seq([frame : Frame, status : Answer, ran : BOOLEAN])
    BY <1>12, <2>1 DEF Execute, Ran, TypeOK
  <2>3. lastAck' \in [frame : AckedFrame, status : CommandAckStatus]
    BY <1>12, <2>1 DEF Execute, TypeOK, AckedFrame
  <2>4. held' \in [frame : Frame \cup {NoFrame}, status : {"None"} \cup Answer]
        /\ held'.frame = held.frame
    BY <1>12 DEF Execute, TypeOK
  <2>5. manual' \in BOOLEAN
    BY <1>12 DEF Execute, TypeOK
  <2>6. /\ pc' = "status"
        /\ UNCHANGED <<leaderVars, toFollower, toLeader, published, queue,
                       lastProcessed, scanVars, forceTx, staged>>
    BY <1>12 DEF Execute, Step
  <2> QED BY <2>1, <2>2, <2>3, <2>4, <2>5, <2>6 DEF TypeOK, leaderVars, scanVars
<1>13. CASE Acknowledge
  <2>1. held.frame \in AckedFrame /\ held.status \in CommandAckStatus
    BY DEF TypeOK, AckedFrame, CommandAckStatus, Answer
  <2>2. toLeader' \in Seq(Message) /\ Len(toLeader') <= UpCapacity
    BY <1>13, <2>1, Answering DEF Acknowledge
  <2>3. lastAck' \in [frame : AckedFrame, status : CommandAckStatus]
    BY <1>13, <2>1 DEF Acknowledge, TypeOK
  <2>4. held' \in [frame : Frame \cup {NoFrame}, status : {"None"} \cup Answer]
    BY <1>13 DEF Acknowledge, Nothing
  <2> QED BY <1>13, <2>2, <2>3, <2>4 DEF Acknowledge, Step, TypeOK, leaderVars
<1>14. CASE ClearScanFlag
  <2>1. held' \in [frame : Frame \cup {NoFrame}, status : {"None"} \cup Answer]
        /\ (pc' = "scan" => held'.frame \in Frame)
    BY <1>14 DEF ClearScanFlag, Step, TypeOK, Answer
  <2>2. /\ pc' \in {"scan", "publish"} /\ scanFlag' = FALSE /\ scanTaken' = FALSE
        /\ UNCHANGED <<leaderVars, toFollower, toLeader, manual, published, queue,
                       lastProcessed, scanPending, lastScan, ackVars, log>>
    BY <1>14 DEF ClearScanFlag, Step
  <2>3. HeldOK'
    BY <2>1, <2>2 DEF leaderVars
  <2>4. TypeOK'
    <3>1. pc' \in {"dequeue", "mark", "execute", "status", "scanClear", "scan",
                   "scanStatus", "publish"}
      BY <2>2
    <3>2. lastAck' = lastAck /\ forceTx' = forceTx /\ staged' = staged
      BY <2>2 DEF ackVars
    <3>3. /\ nextId' \in 1..(MaxId + 1) /\ tracker' \in TrackerType
          /\ seen' \in [frame : AckedFrame, status : CommandAckStatus]
          /\ seenManual' \in BOOLEAN /\ rx' \in Message \cup {NoMessage}
          /\ restarts' \in 0..MaxRestarts
      BY <2>2 DEF TypeOK, TrackerType, leaderVars
    <3> QED BY <2>1, <2>2, <3>1, <3>2, <3>3 DEF TypeOK, TrackerType
  <2> QED BY <2>3, <2>4
<1>15. CASE ScanBus
  <2>1. held.frame \in Frame
    BY <1>15 DEF ScanBus, Step
  <2>2. log' \in Seq([frame : Frame, status : Answer, ran : BOOLEAN])
    BY <1>15, <2>1 DEF ScanBus, Ran, TypeOK, Answer
  <2>3. lastAck' \in [frame : AckedFrame, status : CommandAckStatus]
    BY <1>15, <2>1 DEF ScanBus, TypeOK, AckedFrame
  <2> QED BY <1>15, <2>1, <2>2, <2>3 DEF ScanBus, Step, TypeOK, leaderVars, scanVars
<1>16. CASE AcknowledgeScan
  <2>1. held.frame \in Frame /\ held.frame \in AckedFrame /\ "Applied" \in CommandAckStatus
    BY <1>16 DEF AcknowledgeScan, Step, AckedFrame, CommandAckStatus
  <2>2. toLeader' \in Seq(Message) /\ Len(toLeader') <= UpCapacity
    BY <1>16, <2>1, Answering DEF AcknowledgeScan
  <2>3. lastAck' \in [frame : AckedFrame, status : CommandAckStatus]
    BY <1>16, <2>1 DEF AcknowledgeScan, TypeOK
  <2>4. held' \in [frame : Frame \cup {NoFrame}, status : {"None"} \cup Answer]
    BY <1>16 DEF AcknowledgeScan, Nothing
  <2> QED BY <1>16, <2>1, <2>2, <2>3, <2>4
          DEF AcknowledgeScan, Step, TypeOK, leaderVars
<1>17. ASSUME NEW paused \in BOOLEAN, NEW nudge \in BOOLEAN, NEW presenceDue \in BOOLEAN,
              NEW heartbeatDue \in BOOLEAN,
              PublishAndTick(paused, nudge, presenceDue, heartbeatDue)
       PROVE  TypeOK' /\ HeldOK'
  <2>1. published' \in BOOLEAN /\ staged' \in BOOLEAN
    BY <1>17 DEF PublishAndTick, TypeOK
  <2>2. toLeader' \in Seq(Message) /\ Len(toLeader') <= UpCapacity
    BY <1>17, PresenceSent
  <2>3. /\ pc' = "dequeue" /\ forceTx' = FALSE
        /\ UNCHANGED <<leaderVars, toFollower, held, manual, queue, lastProcessed,
                       scanVars, lastAck, log>>
    BY <1>17 DEF PublishAndTick, Step
  <2>4. HeldOK'
    BY <2>3 DEF leaderVars, scanVars
  <2>5. TypeOK'
    <3>1. pc' \in {"dequeue", "mark", "execute", "status", "scanClear", "scan",
                   "scanStatus", "publish"}
      BY <2>3
    <3>2. scanFlag' = scanFlag /\ scanPending' = scanPending /\ scanTaken' = scanTaken
          /\ lastScan' = lastScan /\ lastAck' = lastAck
      BY <2>3 DEF scanVars
    <3>3. /\ nextId' \in 1..(MaxId + 1) /\ tracker' \in TrackerType
          /\ seen' \in [frame : AckedFrame, status : CommandAckStatus]
          /\ seenManual' \in BOOLEAN /\ rx' \in Message \cup {NoMessage}
          /\ restarts' \in 0..MaxRestarts
      BY <2>3 DEF TypeOK, TrackerType, leaderVars
    <3> QED BY <2>1, <2>2, <2>3, <3>1, <3>2, <3>3 DEF TypeOK, TrackerType
  <2> QED BY <2>4, <2>5
<1>18. CASE StageBatchAck
  <2>1. lastAck' \in [frame : AckedFrame, status : CommandAckStatus]
    BY <1>18 DEF StageBatchAck, AckedFrame, CommandAckStatus
  <2> QED BY <1>18, <2>1 DEF StageBatchAck, TypeOK, leaderVars, loopVars, scanVars
<1>19. CASE UNCHANGED vars
  BY <1>19 DEF vars, TypeOK, leaderVars, loopVars, scanVars, ackVars
<1> QED
  BY <1>1, <1>2, <1>3, <1>4, <1>5, <1>6, <1>7, <1>8, <1>9, <1>10, <1>11, <1>12, <1>13,
     <1>14, <1>15, <1>16, <1>17, <1>18, <1>19
     DEF Next, Leader, LeaderTick, LeaderCallback, FollowerCallback, FollowerLoop

\* The type invariant holds in every reachable state, whatever the capacities,
\* the burst lengths, the number of ids and the interleaving of the two cores.
THEOREM TypeCorrect == Spec => []TypeOK
<1>1. Init => TypeOK /\ HeldOK
  BY TypeInit
<1>2. TypeOK /\ HeldOK /\ [Next]_vars => TypeOK' /\ HeldOK'
  BY TypeStep
<1> QED BY <1>1, <1>2, PTL DEF Spec

-----------------------------------------------------------------------------
(* Where an acknowledgement can come from.                                 *)

HandledFrames == {log[k].frame : k \in DOMAIN log}
Known == HandledFrames \cup {NoFrame, BatchFrame}

\* Every copy of a frame on its way from the follower's answer to the leader's
\* tracker names a request the follower dealt with.  AppliedWasHandled is about
\* the last of them and is not inductive without the others.
Backed ==
    /\ lastAck.frame \in Known
    /\ \A i \in DOMAIN toLeader : toLeader[i].frame \in Known
    /\ rx.frame \in Known
    /\ seen.frame \in Known
    /\ pc \in {"status", "scanStatus"} => held.frame \in HandledFrames
    /\ tracker.status = "Applied" => tracker.frame \in HandledFrames

LEMMA NotAFrame == NoFrame \notin Frame /\ BatchFrame \notin Frame
BY ConstantsAssumption DEF NoFrame, BatchFrame, Frame

LEMMA Appended ==
    ASSUME TypeOK, NEW r, log' = Append(log, r)
    PROVE  /\ HandledFrames \subseteq HandledFrames' /\ Known \subseteq Known'
           /\ r.frame \in HandledFrames'
<1>1. log \in Seq([frame : Frame, status : Answer, ran : BOOLEAN])
  BY DEF TypeOK
<1>2. /\ DOMAIN log' = 1..(Len(log) + 1) /\ DOMAIN log = 1..Len(log)
      /\ Len(log) \in Nat
      /\ log'[Len(log) + 1] = r /\ \A k \in DOMAIN log : log'[k] = log[k]
  BY <1>1
<1>3. HandledFrames \subseteq HandledFrames'
  BY <1>2 DEF HandledFrames
<1>4. r.frame \in HandledFrames'
  BY <1>2 DEF HandledFrames
<1> QED BY <1>3, <1>4 DEF Known

LEMMA BackedInit == Init => Backed
BY DEF Init, Backed, Idle, Nothing, NoMessage, Known

LEMMA BackedStep == TypeOK /\ HeldOK /\ Backed /\ [Next]_vars => Backed'
<1> SUFFICES ASSUME TypeOK, HeldOK, Backed, [Next]_vars PROVE Backed'
  OBVIOUS
<1>1. ASSUME NEW op \in TrackedOps, NEW sent \in BOOLEAN, Issue(op, sent)
      PROVE  Backed'
  <2>1. tracker'.status # "Applied"
    BY <1>1 DEF Issue, Tracking
  <2>2. UNCHANGED <<seen, rx, toLeader, lastAck, pc, held, log>>
    BY <1>1 DEF Issue, followerVars, loopVars, ackVars
  <2> QED BY <2>1, <2>2 DEF Backed, Known, HandledFrames
<1>2. ASSUME NEW op \in UntrackedOps, NEW sent \in BOOLEAN, IssueUntracked(op, sent)
      PROVE  Backed'
  BY <1>2 DEF IssueUntracked, followerVars, loopVars, ackVars, Backed, Known, HandledFrames
<1>3. CASE TakeAck
  <2>1. tracker'.frame = tracker.frame /\ tracker.frame \in Frame
        /\ tracker.frame = seen.frame
    BY <1>3 DEF TakeAck, Matched, HeldOK, TypeOK
  <2>2. tracker'.frame \in HandledFrames
    BY <2>1, NotAFrame DEF Backed, Known
  <2>3. UNCHANGED <<seen, rx, toLeader, lastAck, pc, held, log>>
    BY <1>3 DEF TakeAck, followerVars, loopVars, ackVars
  <2> QED BY <2>2, <2>3 DEF Backed, Known, HandledFrames
<1>4. ASSUME NEW retryDue \in BOOLEAN, NEW resent \in BOOLEAN, NEW late \in BOOLEAN,
             RetryOrExpire(retryDue, resent, late)
      PROVE  Backed'
  <2>1. tracker'.frame = tracker.frame
        /\ (tracker'.status = "Applied" => tracker.status = "Applied")
    BY <1>4 DEF RetryOrExpire, TypeOK
  <2>2. UNCHANGED <<seen, rx, toLeader, lastAck, pc, held, log>>
    BY <1>4 DEF RetryOrExpire, followerVars, loopVars, ackVars
  <2> QED BY <2>1, <2>2 DEF Backed, Known, HandledFrames
<1>5. CASE LeaderRestart \/ DashboardRestart
  <2>1. Nothing.frame = NoFrame /\ NoMessage.frame = NoFrame /\ Idle.status # "Applied"
    BY DEF Nothing, NoMessage, Idle
  <2>2. UNCHANGED <<toLeader, lastAck, pc, held, log>>
    BY <1>5 DEF LeaderRestart, DashboardRestart, followerVars, loopVars, ackVars
  <2>3. CASE LeaderRestart
    BY <2>1, <2>2, <2>3 DEF LeaderRestart, Backed, Known, HandledFrames
  <2>4. CASE DashboardRestart
    BY <2>2, <2>4 DEF DashboardRestart, Backed, Known, HandledFrames
  <2> QED BY <1>5, <2>3, <2>4
<1>6. CASE StoreStatus
  <2>1. rx' = toLeader[1] /\ 1 \in DOMAIN toLeader /\ seen'.frame = seen.frame
    BY <1>6 DEF StoreStatus, TypeOK
  <2>2. \A i \in DOMAIN toLeader' : i + 1 \in DOMAIN toLeader
                                   /\ toLeader'[i] = toLeader[i + 1]
    BY <1>6 DEF StoreStatus, TypeOK
  <2>3. UNCHANGED <<tracker, lastAck, pc, held, log>>
    BY <1>6 DEF StoreStatus, followerVars, loopVars, ackVars
  <2> QED BY <2>1, <2>2, <2>3 DEF Backed, Known, HandledFrames
<1>7. CASE StoreRequest
  <2>1. seen'.frame = rx.frame /\ rx'.frame = NoFrame
    BY <1>7 DEF StoreRequest, TypeOK, NoMessage
  <2>2. UNCHANGED <<tracker, toLeader, lastAck, pc, held, log>>
    BY <1>7 DEF StoreRequest, followerVars, loopVars, ackVars
  <2> QED BY <2>1, <2>2 DEF Backed, Known, HandledFrames
<1>8. CASE LoseToFollower
  BY <1>8 DEF LoseToFollower, leaderVars, loopVars, ackVars, Backed, Known, HandledFrames
<1>9. CASE LoseToLeader
  <2>1. \A i \in DOMAIN toLeader' : i + 1 \in DOMAIN toLeader
                                   /\ toLeader'[i] = toLeader[i + 1]
    BY <1>9 DEF LoseToLeader, TypeOK
  <2>2. UNCHANGED <<tracker, seen, rx, lastAck, pc, held, log>>
    BY <1>9 DEF LoseToLeader, leaderVars, loopVars, ackVars
  <2> QED BY <2>1, <2>2 DEF Backed, Known, HandledFrames
<1>10. CASE handleServoControlFrame
  <2> DEFINE f == Head(toFollower)
             r == [frame |-> f, status |-> "Rejected", ran |-> FALSE]
  <2>1. f \in Frame
    BY <1>10 DEF handleServoControlFrame, TypeOK
  <2>2. UNCHANGED <<tracker, seen, rx, lastAck, pc, held>>
    BY <1>10 DEF handleServoControlFrame, leaderVars, loopVars, ackVars
  <2>3. \/ log' = log /\ (AnswerAgain(f) \/ UNCHANGED toLeader)
        \/ log' = Append(log, r) /\ SendAck(f, "Rejected")
    BY <1>10 DEF handleServoControlFrame
  <2>4. CASE log' = log /\ (AnswerAgain(f) \/ UNCHANGED toLeader)
    <3>1. \A i \in DOMAIN toLeader' : toLeader'[i].frame \in Known
      <4>1. CASE AnswerAgain(f)
        BY <2>1, <4>1, AnsweringAgain DEF Backed, Ack
      <4>2. CASE UNCHANGED toLeader
        BY <4>2 DEF Backed
      <4> QED BY <2>4, <4>1, <4>2
    <3> QED BY <2>2, <2>4, <3>1 DEF Backed, Known, HandledFrames
  <2>5. CASE log' = Append(log, r) /\ SendAck(f, "Rejected")
    <3>1. HandledFrames \subseteq HandledFrames' /\ Known \subseteq Known'
          /\ f \in HandledFrames'
      BY <2>5, Appended
    <3>2. f \in AckedFrame /\ "Rejected" \in CommandAckStatus
      BY <2>1 DEF AckedFrame, CommandAckStatus
    <3>3. \A i \in DOMAIN toLeader' : \/ toLeader'[i].frame = f
                                      \/ toLeader'[i].frame \in Known
      BY <2>5, <3>2, Answering DEF Backed, Ack
    <3> HIDE DEF f
    <3> QED BY <2>2, <3>1, <3>3 DEF Backed, Known
  <2> QED BY <2>3, <2>4, <2>5
<1>11. CASE Dequeue
  BY <1>11 DEF Dequeue, Step, leaderVars, ackVars, Backed, Known, HandledFrames
<1>12. CASE MarkProcessed
  BY <1>12 DEF MarkProcessed, Step, leaderVars, ackVars, Backed, Known, HandledFrames
<1>13. ASSUME NEW status \in Answer, Execute(status)
       PROVE  Backed'
  <2>1. log' = Append(log, Ran(held.frame, status))
    BY <1>13 DEF Execute
  <2>2. HandledFrames \subseteq HandledFrames' /\ Known \subseteq Known'
        /\ held.frame \in HandledFrames'
    BY <2>1, Appended DEF Ran
  <2>3. held'.frame = held.frame /\ lastAck'.frame = held.frame
    BY <1>13 DEF Execute, TypeOK
  <2>4. UNCHANGED <<tracker, seen, rx, toLeader>>
    BY <1>13 DEF Execute, leaderVars
  <2> QED BY <2>2, <2>3, <2>4 DEF Backed, Known
<1>14. CASE Acknowledge
  <2>1. held.frame \in HandledFrames
    BY <1>14 DEF Acknowledge, Step, Backed
  <2>2. held.frame \in AckedFrame /\ held.status \in CommandAckStatus
    BY DEF TypeOK, AckedFrame, CommandAckStatus, Answer
  <2>3. \A i \in DOMAIN toLeader' : toLeader'[i].frame \in Known
    BY <1>14, <2>1, <2>2, Answering DEF Acknowledge, Ack, Backed, Known
  <2>4. lastAck'.frame = lastAck.frame /\ pc' = "scanClear"
    BY <1>14 DEF Acknowledge, Step, TypeOK
  <2>5. UNCHANGED <<tracker, seen, rx, log>>
    BY <1>14 DEF Acknowledge, leaderVars
  <2> QED BY <2>3, <2>4, <2>5 DEF Backed, Known, HandledFrames
<1>15. CASE ClearScanFlag
  <2>1. pc' \in {"scan", "publish"}
    BY <1>15 DEF ClearScanFlag, Step
  <2>2. UNCHANGED <<tracker, seen, rx, toLeader, lastAck, log>>
    BY <1>15 DEF ClearScanFlag, leaderVars, ackVars
  <2> QED BY <2>1, <2>2 DEF Backed, Known, HandledFrames
<1>16. CASE ScanBus
  <2>1. log' = Append(log, Ran(held.frame, "Applied"))
    BY <1>16 DEF ScanBus
  <2>2. HandledFrames \subseteq HandledFrames' /\ Known \subseteq Known'
        /\ held.frame \in HandledFrames'
    BY <2>1, Appended DEF Ran
  <2>3. lastAck'.frame = held.frame
    BY <1>16 DEF ScanBus, TypeOK
  <2>4. UNCHANGED <<tracker, seen, rx, toLeader, held>>
    BY <1>16 DEF ScanBus, leaderVars
  <2> QED BY <2>2, <2>3, <2>4 DEF Backed, Known
<1>17. CASE AcknowledgeScan
  <2>1. held.frame \in HandledFrames
    BY <1>17 DEF AcknowledgeScan, Step, Backed
  <2>2. held.frame \in AckedFrame /\ "Applied" \in CommandAckStatus
    BY DEF TypeOK, AckedFrame, CommandAckStatus
  <2>3. \A i \in DOMAIN toLeader' : toLeader'[i].frame \in Known
    BY <1>17, <2>1, <2>2, Answering DEF AcknowledgeScan, Ack, Backed, Known
  <2>4. lastAck'.frame = lastAck.frame /\ pc' = "publish"
    BY <1>17 DEF AcknowledgeScan, Step, TypeOK
  <2>5. UNCHANGED <<tracker, seen, rx, log>>
    BY <1>17 DEF AcknowledgeScan, leaderVars
  <2> QED BY <2>3, <2>4, <2>5 DEF Backed, Known, HandledFrames
<1>18. ASSUME NEW paused \in BOOLEAN, NEW nudge \in BOOLEAN, NEW presenceDue \in BOOLEAN,
              NEW heartbeatDue \in BOOLEAN,
              PublishAndTick(paused, nudge, presenceDue, heartbeatDue)
       PROVE  Backed'
  <2>1. \A i \in DOMAIN toLeader' : toLeader'[i].frame \in Known
    BY <1>18, PresenceSent DEF Backed
  <2>2. pc' = "dequeue" /\ UNCHANGED <<tracker, seen, rx, lastAck, log>>
    BY <1>18 DEF PublishAndTick, Step, leaderVars
  <2> QED BY <2>1, <2>2 DEF Backed, Known, HandledFrames
<1>19. CASE StageBatchAck
  <2>1. lastAck'.frame = BatchFrame
    BY <1>19 DEF StageBatchAck
  <2>2. UNCHANGED <<tracker, seen, rx, toLeader, pc, held, log>>
    BY <1>19 DEF StageBatchAck, leaderVars, loopVars
  <2> QED BY <2>1, <2>2 DEF Backed, Known, HandledFrames
<1>20. CASE UNCHANGED vars
  BY <1>20 DEF vars, leaderVars, loopVars, ackVars, Backed, Known, HandledFrames
<1> QED
  BY <1>1, <1>2, <1>3, <1>4, <1>5, <1>6, <1>7, <1>8, <1>9, <1>10, <1>11, <1>12, <1>13,
     <1>14, <1>15, <1>16, <1>17, <1>18, <1>19, <1>20
     DEF Next, Leader, LeaderTick, LeaderCallback, FollowerCallback, FollowerLoop

\* Whatever is lost, duplicated, torn between the two cores or restarted, the
\* leader reports a request Applied only if the follower dealt with it.
THEOREM AppliedWasHandledHolds == Spec => []AppliedWasHandled
<1>1. Init => TypeOK /\ HeldOK /\ Backed
  BY TypeInit, BackedInit
<1>2. TypeOK /\ HeldOK /\ Backed /\ [Next]_vars => TypeOK' /\ HeldOK' /\ Backed'
  BY TypeStep, BackedStep
<1>3. Backed => AppliedWasHandled
  BY DEF Backed, AppliedWasHandled, HandledFrames
<1> QED BY <1>1, <1>2, <1>3, PTL DEF Spec

-----------------------------------------------------------------------------
(* Without torn updates the tracker implements the abstract service.       *)

Pair(x) == [frame |-> x.frame, status |-> x.status]
Logged == {Pair(log[k]) : k \in DOMAIN log}
KnownPairs == Logged \cup {Nothing, [frame |-> BatchFrame, status |-> "Applied"]}

\* A pair of request and status is written in two steps on each board.  When
\* nothing falls between them, every pair that is complete is one the follower
\* logged (or the initial one, or that of a mirror batch).
Matching ==
    /\ tracker.pending => tracker.status = "Accepted"
    /\ pc \notin {"status", "scanStatus"} => Pair(lastAck) \in KnownPairs
    /\ pc \in {"status", "scanStatus"} =>
          Pair(held) \in Logged /\ lastAck.frame = held.frame
    /\ pc \in {"scan", "scanStatus"} => held.status = "Applied"
    /\ \A i \in DOMAIN toLeader : Pair(toLeader[i]) \in KnownPairs
    /\ rx # NoMessage => Pair(rx) \in KnownPairs /\ seen.status = rx.status
    /\ rx = NoMessage => Pair(seen) \in KnownPairs

LEMMA LoggedGrows ==
    ASSUME TypeOK, NEW r, log' = Append(log, r)
    PROVE  /\ Logged' = Logged \cup {Pair(r)}
           /\ KnownPairs \subseteq KnownPairs'
<1>1. log \in Seq([frame : Frame, status : Answer, ran : BOOLEAN])
  BY DEF TypeOK
<1>2. /\ DOMAIN log' = 1..(Len(log) + 1) /\ DOMAIN log = 1..Len(log)
      /\ Len(log) \in Nat
      /\ log'[Len(log) + 1] = r /\ \A k \in DOMAIN log : log'[k] = log[k]
  BY <1>1
<1>3. Logged' = Logged \cup {Pair(r)}
  <2>1. \A k \in DOMAIN log : Pair(log[k]) \in Logged'
    BY <1>2 DEF Logged
  <2>2. Pair(r) \in Logged'
    BY <1>2 DEF Logged
  <2>3. \A k \in DOMAIN log' : Pair(log'[k]) \in Logged \cup {Pair(r)}
    BY <1>2 DEF Logged
  <2> QED BY <2>1, <2>2, <2>3 DEF Logged
<1> QED BY <1>3 DEF KnownPairs

LEMMA UnchangedPairs == ASSUME UNCHANGED log PROVE Logged' = Logged /\ KnownPairs' = KnownPairs
BY DEF Logged, KnownPairs

LEMMA MatchingInit == Init => Matching
BY DEF Init, Matching, Idle, Nothing, NoMessage, KnownPairs, Pair

LEMMA MatchingStep ==
    ASSUME Preemptive = FALSE, TypeOK, HeldOK, Matching, [Next]_vars
    PROVE  Matching'
<1> USE DEF Matching
<1>1. ASSUME NEW op \in TrackedOps, NEW sent \in BOOLEAN, Issue(op, sent)
      PROVE  Matching'
  <2>1. tracker'.pending => tracker'.status = "Accepted"
    BY <1>1 DEF Issue, Tracking
  <2>2. UNCHANGED <<seen, rx, toLeader, lastAck, pc, held, log>>
    BY <1>1 DEF Issue, followerVars, loopVars, ackVars
  <2> QED BY <2>1, <2>2, UnchangedPairs DEF Pair
<1>2. ASSUME NEW op \in UntrackedOps, NEW sent \in BOOLEAN, IssueUntracked(op, sent)
      PROVE  Matching'
  <2>1. UNCHANGED <<tracker, seen, rx, toLeader, lastAck, pc, held, log>>
    BY <1>2 DEF IssueUntracked, followerVars, loopVars, ackVars
  <2> QED BY <2>1, UnchangedPairs DEF Pair
<1>3. CASE TakeAck
  <2>1. ~tracker'.pending
    BY <1>3 DEF TakeAck, TypeOK
  <2>2. UNCHANGED <<seen, rx, toLeader, lastAck, pc, held, log>>
    BY <1>3 DEF TakeAck, followerVars, loopVars, ackVars
  <2> QED BY <2>1, <2>2, UnchangedPairs DEF Pair
<1>4. ASSUME NEW retryDue \in BOOLEAN, NEW resent \in BOOLEAN, NEW late \in BOOLEAN,
             RetryOrExpire(retryDue, resent, late)
      PROVE  Matching'
  <2>1. tracker'.pending => tracker'.status = tracker.status /\ tracker.pending
    BY <1>4 DEF RetryOrExpire, TypeOK
  <2>2. UNCHANGED <<seen, rx, toLeader, lastAck, pc, held, log>>
    BY <1>4 DEF RetryOrExpire, followerVars, loopVars, ackVars
  <2> QED BY <2>1, <2>2, UnchangedPairs DEF Pair
<1>5. CASE LeaderRestart
  <2>1. ~tracker'.pending /\ rx' = NoMessage /\ Pair(seen') \in KnownPairs
    BY <1>5 DEF LeaderRestart, Idle, Pair, Nothing, KnownPairs
  <2>2. UNCHANGED <<toLeader, lastAck, pc, held, log>>
    BY <1>5 DEF LeaderRestart, followerVars, loopVars, ackVars
  <2> QED BY <2>1, <2>2, UnchangedPairs DEF Pair
<1>6. CASE DashboardRestart
  <2>1. UNCHANGED <<tracker, seen, rx, toLeader, lastAck, pc, held, log>>
    BY <1>6 DEF DashboardRestart, followerVars, loopVars, ackVars
  <2> QED BY <2>1, UnchangedPairs DEF Pair
<1>7. CASE StoreStatus
  <2>1. rx' = toLeader[1] /\ 1 \in DOMAIN toLeader /\ seen'.status = rx'.status
        /\ rx' # NoMessage
    <3>1. toLeader[1] \in Message /\ NoMessage \notin Message
      <4>1. toLeader[1] \in Message
        BY <1>7 DEF StoreStatus, TypeOK
      <4>2. \A m \in Message : m.kind # "none"
        BY DEF Message
      <4>3. NoMessage.kind = "none"
        BY DEF NoMessage
      <4> QED BY <4>1, <4>2, <4>3
    <3> QED BY <1>7, <3>1 DEF StoreStatus, TypeOK
  <2>2. \A i \in DOMAIN toLeader' : i + 1 \in DOMAIN toLeader
                                   /\ toLeader'[i] = toLeader[i + 1]
    BY <1>7 DEF StoreStatus, TypeOK
  <2>3. UNCHANGED <<tracker, lastAck, pc, held, log>>
    BY <1>7 DEF StoreStatus, followerVars, loopVars, ackVars
  <2> QED BY <2>1, <2>2, <2>3, UnchangedPairs DEF Pair
<1>8. CASE StoreRequest
  <2>1. rx' = NoMessage /\ Pair(seen') = Pair(rx) /\ Pair(rx) \in KnownPairs
    BY <1>8 DEF StoreRequest, TypeOK, Pair
  <2>2. UNCHANGED <<tracker, toLeader, lastAck, pc, held, log>>
    BY <1>8 DEF StoreRequest, followerVars, loopVars, ackVars
  <2> QED BY <2>1, <2>2, UnchangedPairs DEF Pair
<1>9. CASE LoseToFollower
  <2>1. UNCHANGED <<tracker, seen, rx, toLeader, lastAck, pc, held, log>>
    BY <1>9 DEF LoseToFollower, leaderVars, loopVars, ackVars
  <2> QED BY <2>1, UnchangedPairs DEF Pair
<1>10. CASE LoseToLeader
  <2>1. \A i \in DOMAIN toLeader' : i + 1 \in DOMAIN toLeader
                                   /\ toLeader'[i] = toLeader[i + 1]
    BY <1>10 DEF LoseToLeader, TypeOK
  <2>2. UNCHANGED <<tracker, seen, rx, lastAck, pc, held, log>>
    BY <1>10 DEF LoseToLeader, leaderVars, loopVars, ackVars
  <2> QED BY <2>1, <2>2, UnchangedPairs DEF Pair
<1>11. CASE handleServoControlFrame
  <2> DEFINE f == Head(toFollower)
             r == [frame |-> f, status |-> "Rejected", ran |-> FALSE]
  <2>1. f \in Frame
    BY <1>11 DEF handleServoControlFrame, TypeOK
  <2>2. UNCHANGED <<tracker, seen, rx, lastAck, pc, held>>
    BY <1>11 DEF handleServoControlFrame, leaderVars, loopVars, ackVars
  <2>3. pc \notin {"status", "scanStatus"} /\ Pair(lastAck) \in KnownPairs
    BY <1>11 DEF handleServoControlFrame, LoopUndisturbed
  <2>4. \/ log' = log /\ (AnswerAgain(f) \/ UNCHANGED toLeader)
        \/ log' = Append(log, r) /\ SendAck(f, "Rejected")
    BY <1>11 DEF handleServoControlFrame
  <2>5. CASE log' = log /\ (AnswerAgain(f) \/ UNCHANGED toLeader)
    <3>1. \A i \in DOMAIN toLeader' : Pair(toLeader'[i]) \in KnownPairs
      <4>1. CASE AnswerAgain(f)
        <5>1. Pair(Ack(lastAck.frame, lastAck.status)) = Pair(lastAck)
          BY DEF Ack, Pair
        <5> QED BY <2>1, <2>3, <4>1, <5>1, AnsweringAgain
      <4>2. CASE UNCHANGED toLeader
        BY <4>2
      <4> QED BY <2>5, <4>1, <4>2
    <3> QED BY <2>2, <2>5, <3>1, UnchangedPairs DEF Pair
  <2>6. CASE log' = Append(log, r) /\ SendAck(f, "Rejected")
    <3>1. Logged' = Logged \cup {Pair(r)} /\ KnownPairs \subseteq KnownPairs'
      BY <2>6, LoggedGrows
    <3>2. f \in AckedFrame /\ "Rejected" \in CommandAckStatus
      BY <2>1 DEF AckedFrame, CommandAckStatus
    <3>3. Pair(Ack(f, "Rejected")) = Pair(r)
      BY DEF Ack, Pair
    <3>4. \A i \in DOMAIN toLeader' : Pair(toLeader'[i]) \in KnownPairs'
      BY <2>6, <3>1, <3>2, <3>3, Answering DEF KnownPairs
    <3> QED BY <2>2, <3>1, <3>4 DEF Pair
  <2> QED BY <2>4, <2>5, <2>6
<1>12. CASE Dequeue
  <2>1. pc = "dequeue" /\ pc' \in {"mark", "scanClear"}
    BY <1>12 DEF Dequeue, Step
  <2>2. UNCHANGED <<tracker, seen, rx, toLeader, lastAck, log>>
    BY <1>12 DEF Dequeue, leaderVars, ackVars
  <2> QED BY <2>1, <2>2, UnchangedPairs DEF Pair
<1>13. CASE MarkProcessed
  <2>1. pc = "mark" /\ pc' = "execute"
    BY <1>13 DEF MarkProcessed, Step
  <2>2. UNCHANGED <<tracker, seen, rx, toLeader, lastAck, log>>
    BY <1>13 DEF MarkProcessed, leaderVars, ackVars
  <2> QED BY <2>1, <2>2, UnchangedPairs DEF Pair
<1>14. ASSUME NEW status \in Answer, Execute(status)
       PROVE  Matching'
  <2>1. Pair(held') = Pair(Ran(held.frame, status))
    BY <1>14 DEF Execute, Ran, Pair, TypeOK
  <2>2. Logged' = Logged \cup {Pair(held')} /\ KnownPairs \subseteq KnownPairs'
    BY <1>14, <2>1, LoggedGrows DEF Execute
  <2>3. pc' = "status" /\ UNCHANGED <<tracker, seen, rx, toLeader>>
    BY <1>14 DEF Execute, Step, leaderVars
  <2>4. lastAck'.frame = held'.frame
    BY <1>14 DEF Execute, TypeOK
  <2> QED BY <2>2, <2>3, <2>4 DEF Pair
<1>15. CASE Acknowledge
  <2>1. Pair(held) \in KnownPairs
    BY <1>15 DEF Acknowledge, Step, KnownPairs
  <2>2. held.frame \in AckedFrame /\ held.status \in CommandAckStatus
    BY DEF TypeOK, AckedFrame, CommandAckStatus, Answer
  <2>3. Pair(Ack(held.frame, held.status)) = Pair(held)
    BY DEF Ack, Pair
  <2>4. \A i \in DOMAIN toLeader' : Pair(toLeader'[i]) \in KnownPairs
    BY <1>15, <2>1, <2>2, <2>3, Answering DEF Acknowledge
  <2>5. Pair(lastAck') = Pair(held) /\ pc' = "scanClear"
    BY <1>15 DEF Acknowledge, Step, Pair, TypeOK
  <2>6. UNCHANGED <<tracker, seen, rx, log>>
    BY <1>15 DEF Acknowledge, leaderVars
  <2> QED BY <2>1, <2>4, <2>5, <2>6, UnchangedPairs DEF Pair
<1>16. CASE ClearScanFlag
  <2>1. pc = "scanClear" /\ pc' \in {"scan", "publish"}
        /\ (pc' = "scan" => held'.status = "Applied")
    BY <1>16 DEF ClearScanFlag, Step, TypeOK
  <2>2. UNCHANGED <<tracker, seen, rx, toLeader, lastAck, log>>
    BY <1>16 DEF ClearScanFlag, leaderVars, ackVars
  <2> QED BY <2>1, <2>2, UnchangedPairs DEF Pair
<1>17. CASE ScanBus
  <2>1. Pair(held') = Pair(Ran(held.frame, "Applied")) /\ held'.status = "Applied"
    BY <1>17 DEF ScanBus, Step, Ran, Pair, TypeOK
  <2>2. Logged' = Logged \cup {Pair(held')} /\ KnownPairs \subseteq KnownPairs'
    BY <1>17, <2>1, LoggedGrows DEF ScanBus
  <2>3. pc' = "scanStatus" /\ UNCHANGED <<tracker, seen, rx, toLeader>>
    BY <1>17 DEF ScanBus, Step, leaderVars
  <2>4. lastAck'.frame = held'.frame
    BY <1>17 DEF ScanBus, TypeOK
  <2> QED BY <2>1, <2>2, <2>3, <2>4 DEF Pair
<1>18. CASE AcknowledgeScan
  <2>1. Pair(held) \in KnownPairs /\ held.status = "Applied"
    BY <1>18 DEF AcknowledgeScan, Step, KnownPairs
  <2>2. held.frame \in AckedFrame /\ "Applied" \in CommandAckStatus
    BY DEF TypeOK, AckedFrame, CommandAckStatus, Answer
  <2>3. Pair(Ack(held.frame, "Applied")) = Pair(held)
    BY <2>1 DEF Ack, Pair
  <2>4. \A i \in DOMAIN toLeader' : Pair(toLeader'[i]) \in KnownPairs
    BY <1>18, <2>1, <2>2, <2>3, Answering DEF AcknowledgeScan
  <2>5. Pair(lastAck') = Pair(held) /\ pc' = "publish"
    BY <1>18, <2>1 DEF AcknowledgeScan, Step, Pair, TypeOK
  <2>6. UNCHANGED <<tracker, seen, rx, log>>
    BY <1>18 DEF AcknowledgeScan, leaderVars
  <2> QED BY <2>1, <2>4, <2>5, <2>6, UnchangedPairs DEF Pair
<1>19. ASSUME NEW paused \in BOOLEAN, NEW nudge \in BOOLEAN, NEW presenceDue \in BOOLEAN,
              NEW heartbeatDue \in BOOLEAN,
              PublishAndTick(paused, nudge, presenceDue, heartbeatDue)
       PROVE  Matching'
  <2>1. pc = "publish" /\ pc' = "dequeue" /\ UNCHANGED <<tracker, seen, rx, lastAck, log>>
    BY <1>19 DEF PublishAndTick, Step, leaderVars
  <2>2. \A i \in DOMAIN toLeader' : Pair(toLeader'[i]) \in KnownPairs
    BY <1>19, <2>1, PresenceSent DEF Pair
  <2> QED BY <2>1, <2>2, UnchangedPairs DEF Pair
<1>20. CASE StageBatchAck
  <2>1. pc \notin {"status", "scanStatus"} /\ Pair(lastAck') \in KnownPairs
    BY <1>20 DEF StageBatchAck, LoopUndisturbed, Pair, KnownPairs
  <2>2. UNCHANGED <<tracker, seen, rx, toLeader, pc, held, log>>
    BY <1>20 DEF StageBatchAck, leaderVars, loopVars
  <2> QED BY <2>1, <2>2, UnchangedPairs DEF Pair
<1>21. CASE UNCHANGED vars
  <2>1. UNCHANGED <<tracker, seen, rx, toLeader, lastAck, pc, held, log>>
    BY <1>21 DEF vars, leaderVars, loopVars, ackVars
  <2> QED BY <2>1, UnchangedPairs DEF Pair
<1> QED
  BY <1>1, <1>2, <1>3, <1>4, <1>5, <1>6, <1>7, <1>8, <1>9, <1>10, <1>11, <1>12, <1>13,
     <1>14, <1>15, <1>16, <1>17, <1>18, <1>19, <1>20, <1>21
     DEF Next, Leader, LeaderTick, LeaderCallback, FollowerCallback, FollowerLoop

LEMMA SequenceElement ==
    ASSUME NEW S, NEW s \in Seq(S), NEW k \in DOMAIN s
    PROVE  s[k] \in S
OBVIOUS

LEMMA ServiceStep ==
    ASSUME Preemptive = FALSE, TypeOK, HeldOK, Matching, [Next]_vars
    PROVE  [Service!Next]_(Service!vars)
<1> DEFINE req == [frame |-> tracker.frame, status |-> tracker.status]
           outs == {[frame |-> log[k].frame, status |-> log[k].status] : k \in DOMAIN log}
<1>a. outs = Logged
  BY DEF Logged, Pair
<1>b. ASSUME UNCHANGED <<tracker, log>> PROVE Service!vars' = Service!vars
  BY <1>b DEF Service!vars
<1>1. ASSUME NEW op \in TrackedOps, NEW sent \in BOOLEAN, Issue(op, sent)
      PROVE  Service!Submit
  <2> DEFINE f == [id |-> nextId, op |-> op]
  <2>1. f \in Frame
    BY <1>1, ConstantsAssumption DEF Issue, TypeOK, Frame, Ops
  <2>2. tracker'.frame = f /\ tracker'.status \in {"Accepted", "Rejected", "Failed"}
    BY <1>1 DEF Issue, Tracking
  <2>3. log' = log
    BY <1>1 DEF Issue
  <2> HIDE DEF f
  <2> QED BY <2>1, <2>2, <2>3 DEF Service!Submit
<1>2. CASE TakeAck
  <2>1. tracker.status = "Accepted" /\ tracker.frame \in Frame /\ rx = NoMessage
        /\ seen.frame = tracker.frame
    BY <1>2 DEF TakeAck, Matched, Undisturbed, HeldOK, Matching
  <2>2. Pair(seen) \in Logged
    BY <2>1, NotAFrame DEF Matching, KnownPairs, Pair, Nothing
  <2>3. seen.status \in Answer
    <3>1. PICK k \in DOMAIN log : Pair(seen) = Pair(log[k])
      BY <2>2 DEF Logged
    <3>2. log[k].status \in Answer
      <4>1. log \in Seq([frame : Frame, status : Answer, ran : BOOLEAN])
        BY DEF TypeOK
      <4>2. log[k] \in [frame : Frame, status : Answer, ran : BOOLEAN]
        BY <3>1, <4>1, SequenceElement
      <4> QED BY <4>2
    <3> QED BY <3>1, <3>2 DEF Pair
  <2>4. tracker'.frame = tracker.frame /\ tracker'.status = seen.status /\ log' = log
    BY <1>2 DEF TakeAck, TypeOK
  <2>5. Service!Report
    BY <2>1, <2>2, <2>3, <2>4, <1>a DEF Service!Report, Pair
  <2> QED BY <2>5 DEF Service!Next
<1>3. ASSUME NEW retryDue \in BOOLEAN, NEW resent \in BOOLEAN, NEW late \in BOOLEAN,
             RetryOrExpire(retryDue, resent, late)
      PROVE  [Service!Next]_(Service!vars)
  <2>1. tracker.status = "Accepted" /\ log' = log /\ tracker'.frame = tracker.frame
        /\ tracker'.status \in {"Failed", "Timeout", tracker.status}
    BY <1>3 DEF RetryOrExpire, Matching, TypeOK
  <2>2. CASE tracker'.status = tracker.status
    BY <2>1, <2>2 DEF Service!vars
  <2>3. CASE tracker'.status \in {"Failed", "Timeout"}
    BY <2>1, <2>3 DEF Service!Next, Service!GiveUp
  <2> QED BY <2>1, <2>2, <2>3
<1>4. CASE LeaderRestart
  BY <1>4 DEF LeaderRestart, Idle, Service!Next, Service!Reboot
<1>5. ASSUME NEW r \in [frame : Frame, status : Answer, ran : BOOLEAN],
             log' = Append(log, r), tracker' = tracker
      PROVE  Service!Next
  <2>1. Logged' = Logged \cup {Pair(r)}
    BY <1>5, LoggedGrows
  <2>2. outs' = outs \cup {[frame |-> r.frame, status |-> r.status]}
    BY <2>1 DEF Logged, Pair
  <2>3. r.frame \in Frame /\ r.status \in Answer
    OBVIOUS
  <2> QED BY <1>5, <2>2, <2>3 DEF Service!Next, Service!Produce
<1>6. CASE handleServoControlFrame
  <2> DEFINE r == [frame |-> Head(toFollower), status |-> "Rejected", ran |-> FALSE]
  <2>1. r \in [frame : Frame, status : Answer, ran : BOOLEAN]
    BY <1>6 DEF handleServoControlFrame, TypeOK, Answer
  <2>2. tracker' = tracker /\ (log' = log \/ log' = Append(log, r))
    BY <1>6 DEF handleServoControlFrame, leaderVars
  <2> HIDE DEF r
  <2> QED BY <1>b, <1>5, <2>1, <2>2
<1>7. ASSUME NEW status \in Answer, Execute(status)
      PROVE  Service!Next
  <2>1. Ran(held.frame, status) \in [frame : Frame, status : Answer, ran : BOOLEAN]
    BY <1>7 DEF Execute, Step, HeldOK, Ran
  <2>2. tracker' = tracker /\ log' = Append(log, Ran(held.frame, status))
    BY <1>7 DEF Execute, leaderVars
  <2> QED BY <1>5, <2>1, <2>2
<1>8. CASE ScanBus
  <2>1. Ran(held.frame, "Applied") \in [frame : Frame, status : Answer, ran : BOOLEAN]
    BY <1>8 DEF ScanBus, Step, HeldOK, Ran, Answer
  <2>2. tracker' = tracker /\ log' = Append(log, Ran(held.frame, "Applied"))
    BY <1>8 DEF ScanBus, leaderVars
  <2> QED BY <1>5, <2>1, <2>2
<1>9. ASSUME \/ \E op \in UntrackedOps, sent \in BOOLEAN : IssueUntracked(op, sent)
             \/ DashboardRestart \/ LeaderCallback \/ LoseToFollower \/ LoseToLeader
             \/ Dequeue \/ MarkProcessed \/ Acknowledge \/ ClearScanFlag
             \/ AcknowledgeScan \/ StageBatchAck \/ UNCHANGED vars
             \/ \E paused, nudge, presenceDue, heartbeatDue \in BOOLEAN :
                   PublishAndTick(paused, nudge, presenceDue, heartbeatDue)
      PROVE  UNCHANGED <<tracker, log>>
  BY <1>9 DEF IssueUntracked, DashboardRestart, LeaderCallback, StoreStatus, StoreRequest,
     LoseToFollower, LoseToLeader, Dequeue, MarkProcessed, Acknowledge, ClearScanFlag,
     AcknowledgeScan, StageBatchAck, PublishAndTick, vars, leaderVars
<1> QED
  BY <1>b, <1>1, <1>2, <1>3, <1>4, <1>6, <1>7, <1>8, <1>9
     DEF Next, Leader, LeaderTick, FollowerCallback, FollowerLoop, Service!Next

\* As long as no update is torn between the cores, what the leader tells a
\* dashboard about a request is what the abstract service allows: each accepted
\* request ends with an answer the follower gave to it, or is given up.
THEOREM ServiceImplemented ==
    ASSUME Preemptive = FALSE
    PROVE  Spec => ImplementsService
<1>1. Init => TypeOK /\ HeldOK /\ Matching
  BY TypeInit, MatchingInit
<1>2. TypeOK /\ HeldOK /\ Matching /\ [Next]_vars => TypeOK' /\ HeldOK' /\ Matching'
  BY TypeStep, MatchingStep
<1>3. Init => Service!Init
  BY DEF Init, Idle, Service!Init
<1>4. TypeOK /\ HeldOK /\ Matching /\ [Next]_vars => [Service!Next]_(Service!vars)
  BY ServiceStep
<1> QED BY <1>1, <1>2, <1>3, <1>4, PTL DEF Spec, ImplementsService, Service!Spec

\* Under the same assumption Applied means that the handler of that request
\* returned Applied: an invariant of the abstract service, inherited from it.
THEOREM AppliedWasAppliedHolds ==
    ASSUME Preemptive = FALSE
    PROVE  Spec => []AppliedWasApplied
<1> DEFINE Backing == tracker.status = "Applied" => Pair(tracker) \in Logged
<1>1. Init => TypeOK /\ HeldOK /\ Matching /\ Backing
  BY TypeInit, MatchingInit DEF Init, Idle
<1>2. ASSUME TypeOK, HeldOK, Matching, Backing, [Next]_vars
      PROVE  TypeOK' /\ HeldOK' /\ Matching' /\ Backing'
  <2>1. TypeOK' /\ HeldOK' /\ Matching'
    BY <1>2, TypeStep, MatchingStep
  <2>2. [Service!Next]_(Service!vars)
    BY <1>2, ServiceStep
  <2> DEFINE req == [frame |-> tracker.frame, status |-> tracker.status]
             outs == {[frame |-> log[k].frame, status |-> log[k].status] : k \in DOMAIN log}
  <2>3. req = Pair(tracker) /\ outs = Logged
    BY DEF Pair, Logged
  <2>4. ASSUME req.status = "Applied" => req \in outs
        PROVE  req'.status = "Applied" => req' \in outs'
    <3>1. CASE Service!Submit
      BY <3>1 DEF Service!Submit
    <3>2. CASE Service!Produce
      BY <2>4, <3>2 DEF Service!Produce
    <3>3. CASE Service!Report
      BY <3>3 DEF Service!Report
    <3>4. CASE Service!GiveUp
      BY <3>4 DEF Service!GiveUp
    <3>5. CASE Service!Reboot
      BY <3>5 DEF Service!Reboot
    <3>6. CASE UNCHANGED Service!vars
      BY <2>4, <3>6 DEF Service!vars
    <3> QED BY <2>2, <3>1, <3>2, <3>3, <3>4, <3>5, <3>6 DEF Service!Next
  <2>5. Backing'
    BY <1>2, <2>3, <2>4 DEF Pair, Logged
  <2> QED BY <2>1, <2>5
<1>3. Backing => AppliedWasApplied
  BY DEF AppliedWasApplied, Pair, Logged
<1>4. TypeOK /\ HeldOK /\ Matching /\ Backing /\ [Next]_vars
      => TypeOK' /\ HeldOK' /\ Matching' /\ Backing'
  BY <1>2
<1> QED BY <1>1, <1>3, <1>4, PTL DEF Spec

-----------------------------------------------------------------------------
(* The order in which queued commands run.                                 *)

LEMMA Popped ==
    ASSUME NEW S, NEW s \in Seq(S), s # <<>>
    PROVE  /\ 1 \in DOMAIN s /\ Head(s) = s[1]
           /\ \A i \in DOMAIN Tail(s) : i + 1 \in DOMAIN s /\ Tail(s)[i] = s[i + 1]
           /\ DOMAIN Tail(s) \subseteq Nat
OBVIOUS

LEMMA Pushed ==
    ASSUME NEW S, NEW s \in Seq(S), NEW e
    PROVE  /\ Len(s) \in Nat /\ DOMAIN s = 1..Len(s)
           /\ DOMAIN Append(s, e) = 1..(Len(s) + 1)
           /\ \A i \in DOMAIN s : Append(s, e)[i] = s[i]
           /\ Append(s, e)[Len(s) + 1] = e
OBVIOUS

\* What every action but those of the follower leaves alone.
Following == <<pc, queue, held, lastProcessed, scanFlag, scanPending, scanTaken, log>>

LEMMA Elsewhere ==
    ASSUME Leader \/ LeaderCallback \/ LoseToFollower \/ LoseToLeader \/ StageBatchAck
           \/ UNCHANGED vars
    PROVE  UNCHANGED Following
BY DEF Leader, LeaderTick, LeaderCallback, Issue, IssueUntracked, TakeAck, RetryOrExpire,
   LeaderRestart, DashboardRestart, StoreStatus, StoreRequest, LoseToFollower,
   LoseToLeader, StageBatchAck, vars, followerVars, loopVars, scanVars, Following

\* What the receive callback may do with a frame.
LEMMA Arrival ==
    ASSUME TypeOK, handleServoControlFrame
    PROVE  /\ UNCHANGED <<pc, held, lastProcessed, scanTaken, nextId, tracker>>
           /\ toFollower # <<>> /\ toFollower' = Tail(toFollower)
           /\ \/ UNCHANGED <<scanFlag, scanPending>>
              \/ scanFlag' = TRUE /\ scanPending' = Head(toFollower)
                 /\ Head(toFollower).op = "Scan"
           /\ \/ UNCHANGED <<queue, log>>
              \/ /\ queue' = Append(queue, Head(toFollower)) /\ log' = log
                 /\ Head(toFollower).op # "Scan" /\ Head(toFollower) # lastProcessed
                 /\ \A i \in DOMAIN queue : queue[i] # Head(toFollower)
              \/ /\ queue' = queue
                 /\ log' = Append(log, [frame |-> Head(toFollower), status |-> "Rejected",
                                        ran |-> FALSE])
<1> DEFINE f == Head(toFollower)
           r == [frame |-> f, status |-> "Rejected", ran |-> FALSE]
<1>1. /\ UNCHANGED <<pc, held, lastProcessed, scanTaken, nextId, tracker>>
      /\ toFollower # <<>> /\ toFollower' = Tail(toFollower)
  BY DEF handleServoControlFrame, leaderVars, loopVars
<1>2. \/ UNCHANGED <<scanFlag, scanPending>>
      \/ scanFlag' = TRUE /\ scanPending' = f /\ f.op = "Scan"
  BY DEF handleServoControlFrame
<1>3. \/ UNCHANGED <<queue, log>>
      \/ queue' = Append(queue, f) /\ log' = log /\ f.op # "Scan"
         /\ ~isDuplicateControlFrame(f)
      \/ queue' = queue /\ log' = Append(log, r)
  BY DEF handleServoControlFrame
<1>4. ASSUME ~isDuplicateControlFrame(f)
      PROVE  f # lastProcessed /\ \A i \in DOMAIN queue : queue[i] # f
  <2>1. queue \in Seq(Frame)
    BY DEF TypeOK
  <2> HIDE DEF f
  <2> QED BY <1>4, <2>1 DEF isDuplicateControlFrame, Contains
<1> QED BY <1>1, <1>2, <1>3, <1>4

\* A scan request never passes through the queue, and only scans are taken from
\* the scan flag: the two streams of the log do not mix.
ScansApart ==
    /\ \A i \in DOMAIN queue : queue[i].op # "Scan"
    /\ pc \in {"mark", "execute"} => held.frame.op # "Scan"
    /\ scanFlag \/ scanTaken => scanPending.op = "Scan"
    /\ pc = "scan" => held.frame.op = "Scan"

LEMMA ScansApartInit == Init => ScansApart
BY DEF Init, ScansApart

LEMMA ScansApartStep == TypeOK /\ ScansApart /\ [Next]_vars => ScansApart'
<1> SUFFICES ASSUME TypeOK, ScansApart, [Next]_vars PROVE ScansApart'
  OBVIOUS
<1>a. queue \in Seq(Frame)
  BY DEF TypeOK
<1>1. CASE UNCHANGED Following
  BY <1>1 DEF Following, ScansApart
<1>2. CASE handleServoControlFrame
  <2>1. \A i \in DOMAIN queue' : queue'[i].op # "Scan"
    <3>1. \/ queue' = queue
          \/ queue' = Append(queue, Head(toFollower)) /\ Head(toFollower).op # "Scan"
      BY <1>2, Arrival
    <3>2. CASE queue' = queue
      BY <3>2 DEF ScansApart
    <3>3. CASE queue' = Append(queue, Head(toFollower)) /\ Head(toFollower).op # "Scan"
      BY <1>a, <3>3, Pushed DEF ScansApart
    <3> QED BY <3>1, <3>2, <3>3
  <2>2. scanFlag' \/ scanTaken' => scanPending'.op = "Scan"
    BY <1>2, Arrival DEF ScansApart
  <2>3. UNCHANGED <<pc, held>>
    BY <1>2, Arrival
  <2> QED BY <2>1, <2>2, <2>3 DEF ScansApart
<1>3. CASE Dequeue
  <2>1. CASE queue # <<>> /\ queue' = Tail(queue) /\ held'.frame = Head(queue)
             /\ scanTaken' = scanTaken
    BY <1>a, <1>3, <2>1, Popped DEF Dequeue, Step, ScansApart
  <2>2. CASE queue' = queue /\ scanTaken' = scanFlag /\ pc' = "scanClear"
    BY <1>3, <2>2 DEF Dequeue, ScansApart
  <2> QED BY <1>3, <2>1, <2>2 DEF Dequeue, Step
<1>4. CASE MarkProcessed
  BY <1>4 DEF MarkProcessed, Step, scanVars, ScansApart
<1>5. CASE \E status \in Answer : Execute(status)
  BY <1>5 DEF Execute, Step, scanVars, ScansApart
<1>6. CASE Acknowledge
  BY <1>6 DEF Acknowledge, Step, ScansApart
<1>7. CASE ClearScanFlag
  BY <1>7 DEF ClearScanFlag, Step, ScansApart
<1>8. CASE ScanBus
  BY <1>8 DEF ScanBus, Step, scanVars, ScansApart
<1>9. CASE AcknowledgeScan
  BY <1>9 DEF AcknowledgeScan, Step, ScansApart
<1>10. CASE \E paused, nudge, presenceDue, heartbeatDue \in BOOLEAN :
               PublishAndTick(paused, nudge, presenceDue, heartbeatDue)
  BY <1>10 DEF PublishAndTick, Step, scanVars, ScansApart
<1> QED
  BY <1>1, <1>2, <1>3, <1>4, <1>5, <1>6, <1>7, <1>8, <1>9, <1>10, Elsewhere
     DEF Next, FollowerCallback, FollowerLoop

\* What a run that passed through the queue looks like in the log.
Queueable(r) == r.ran /\ r.frame.op # "Scan"
LastRun(k) == Queueable(log[k]) /\ \A i \in DOMAIN log : i > k => ~Queueable(log[i])

LEMMA Runs ==
    ASSUME TypeOK, NEW r, log' = Append(log, r)
    PROVE  /\ Len(log) \in Nat /\ DOMAIN log = 1..Len(log)
           /\ DOMAIN log' = 1..(Len(log) + 1)
           /\ \A k \in DOMAIN log : log'[k] = log[k]
           /\ log'[Len(log) + 1] = r
<1>1. log \in Seq([frame : Frame, status : Answer, ran : BOOLEAN])
  BY DEF TypeOK
<1> QED BY <1>1, Pushed

\* An appended outcome repeats nothing if it differs from the last run, and a
\* scan or a refusal does not count.
LEMMA RepeatNothing ==
    ASSUME TypeOK, NoImmediateRepeat, NEW r, log' = Append(log, r),
           Queueable(r) => \A k \in DOMAIN log : LastRun(k) => log[k].frame # r.frame
    PROVE  NoImmediateRepeat'
<1> SUFFICES ASSUME NEW j \in DOMAIN log', NEW k \in DOMAIN log', j < k,
                    Queueable(log'[j]), Queueable(log'[k]),
                    \A i \in (j + 1)..(k - 1) : ~Queueable(log'[i])
             PROVE  log'[j].frame # log'[k].frame
  BY DEF NoImmediateRepeat, QueuedRun, Queueable
<1> DEFINE n == Len(log)
<1>1. /\ n \in Nat /\ DOMAIN log = 1..n /\ DOMAIN log' = 1..(n + 1)
      /\ \A i \in DOMAIN log : log'[i] = log[i]
      /\ log'[n + 1] = r
  BY Runs
<1> HIDE DEF n
<1>2. j \in DOMAIN log /\ Queueable(log[j]) /\ log'[j] = log[j]
  BY <1>1
<1>3. CASE k \in DOMAIN log
  <2>1. \A i \in (j + 1)..(k - 1) : ~Queueable(log[i])
    BY <1>1, <1>3
  <2>2. Queueable(log[k]) /\ log'[k] = log[k]
    BY <1>1, <1>3
  <2> QED BY <1>2, <1>3, <2>1, <2>2 DEF NoImmediateRepeat, QueuedRun, Queueable
<1>4. CASE k = n + 1
  <2>1. \A i \in DOMAIN log : i > j => ~Queueable(log[i])
    BY <1>1, <1>4
  <2>2. LastRun(j)
    BY <1>2, <2>1 DEF LastRun
  <2>3. Queueable(r) /\ log'[k] = r
    BY <1>1, <1>4
  <2> QED BY <1>2, <2>2, <2>3
<1> QED BY <1>1, <1>3, <1>4

\* The last run after an outcome was appended.
LEMMA LastRunAppended ==
    ASSUME TypeOK, NEW r, log' = Append(log, r), NEW k \in DOMAIN log', LastRun(k)'
    PROVE  IF Queueable(r) THEN log'[k] = r
                           ELSE k \in DOMAIN log /\ LastRun(k) /\ log'[k] = log[k]
<1> DEFINE n == Len(log)
<1>1. /\ n \in Nat /\ DOMAIN log = 1..n /\ DOMAIN log' = 1..(n + 1)
      /\ \A i \in DOMAIN log : log'[i] = log[i]
      /\ log'[n + 1] = r
  BY Runs
<1> HIDE DEF n
<1>2. Queueable(log'[k]) /\ \A i \in DOMAIN log' : i > k => ~Queueable(log'[i])
  BY DEF LastRun
<1>3. CASE Queueable(r)
  BY <1>1, <1>2, <1>3
<1>4. CASE ~Queueable(r)
  <2>1. k \in DOMAIN log /\ log'[k] = log[k]
    BY <1>1, <1>2, <1>4
  <2>2. \A i \in DOMAIN log : i > k => ~Queueable(log[i])
    BY <1>1, <1>2
  <2> QED BY <1>2, <1>4, <2>1, <2>2 DEF LastRun
<1> QED BY <1>3, <1>4

\* The command the duplicate filter compares with, once a step that stands
\* between taking a command and recording it is counted as having recorded it.
Recorded == IF pc = "mark" THEN held.frame ELSE lastProcessed

\* Why no command runs twice in a row: the queue holds no two copies of a frame
\* and none of the recorded one, the recorded command is the one last run, or
\* the one about to run, which differs from the one last run.
Filtered ==
    /\ \A i, j \in DOMAIN queue : queue[i] = queue[j] => i = j
    /\ \A i \in DOMAIN queue : queue[i] # Recorded
    /\ pc = "mark" => held.frame # lastProcessed
    /\ pc = "execute" => held.frame = lastProcessed
    /\ \A k \in DOMAIN log : LastRun(k) =>
          IF pc = "execute" THEN log[k].frame # held.frame
                            ELSE log[k].frame = lastProcessed

LEMMA FilteredInit == Init => Filtered /\ NoImmediateRepeat
BY DEF Init, Filtered, NoImmediateRepeat

LEMMA FilteredStep ==
    ASSUME Preemptive = FALSE, TypeOK, ScansApart, Filtered, NoImmediateRepeat,
           [Next]_vars
    PROVE  Filtered' /\ NoImmediateRepeat'
<1>a. queue \in Seq(Frame)
  BY DEF TypeOK
<1>b. ASSUME UNCHANGED log
      PROVE  NoImmediateRepeat' /\ \A k \in DOMAIN log' : LastRun(k)' => LastRun(k)
  BY <1>b DEF NoImmediateRepeat, QueuedRun, LastRun
<1>c. ASSUME UNCHANGED <<queue, log>>, Recorded' = Recorded,
             pc' \notin {"mark", "execute"}, pc # "execute",
             lastProcessed' = lastProcessed
      PROVE  Filtered'
  BY <1>b, <1>c DEF Filtered
<1>1. CASE UNCHANGED Following
  <2>1. UNCHANGED <<queue, log, pc, held, lastProcessed>> /\ Recorded' = Recorded
    BY <1>1 DEF Following, Recorded
  <2> QED BY <1>b, <2>1 DEF Filtered
<1>2. CASE handleServoControlFrame
  <2> DEFINE f == Head(toFollower)
             r == [frame |-> f, status |-> "Rejected", ran |-> FALSE]
  <2>1. pc # "mark" /\ UNCHANGED <<pc, held, lastProcessed>> /\ Recorded' = Recorded
    BY <1>2, Arrival DEF handleServoControlFrame, LoopUndisturbed, Recorded
  <2>2. CASE UNCHANGED <<queue, log>>
    BY <1>b, <2>1, <2>2 DEF Filtered
  <2>3. CASE queue' = Append(queue, f) /\ log' = log /\ f # lastProcessed
             /\ \A i \in DOMAIN queue : queue[i] # f
    <3>1. Recorded = lastProcessed
      BY <2>1 DEF Recorded
    <3> HIDE DEF f
    <3>2. /\ Len(queue) \in Nat /\ DOMAIN queue = 1..Len(queue)
          /\ DOMAIN queue' = 1..(Len(queue) + 1)
          /\ \A i \in DOMAIN queue : queue'[i] = queue[i]
          /\ queue'[Len(queue) + 1] = f
      BY <1>a, <2>3, Pushed
    <3>3. /\ \A i, j \in DOMAIN queue' : queue'[i] = queue'[j] => i = j
          /\ \A i \in DOMAIN queue' : queue'[i] # Recorded
      BY <2>3, <3>1, <3>2 DEF Filtered
    <3> QED BY <1>b, <2>1, <2>3, <3>3 DEF Filtered
  <2>4. CASE queue' = queue /\ log' = Append(log, r)
    <3>1. ~Queueable(r)
      BY DEF Queueable
    <3> HIDE DEF r
    <3>2. NoImmediateRepeat'
      BY <2>4, <3>1, RepeatNothing
    <3>3. \A k \in DOMAIN log' : LastRun(k)' =>
             k \in DOMAIN log /\ LastRun(k) /\ log'[k] = log[k]
      BY <2>4, <3>1, LastRunAppended
    <3> QED BY <2>1, <2>4, <3>2, <3>3 DEF Filtered
  <2> QED BY <1>2, <2>2, <2>3, <2>4, Arrival
<1>3. CASE Dequeue
  <2>1. log' = log /\ lastProcessed' = lastProcessed /\ pc = "dequeue"
    BY <1>3 DEF Dequeue, Step
  <2>2. CASE queue # <<>> /\ queue' = Tail(queue) /\ held'.frame = Head(queue)
             /\ pc' = "mark"
    <3>1. /\ 1 \in DOMAIN queue /\ held'.frame = queue[1]
          /\ \A i \in DOMAIN queue' : i + 1 \in DOMAIN queue /\ queue'[i] = queue[i + 1]
          /\ DOMAIN queue' \subseteq Nat
      BY <1>a, <2>2, Popped
    <3>2. \A i \in DOMAIN queue' : i + 1 # 1
      <4>1. \A i \in DOMAIN queue' : i \in 1..(Len(queue) - 1) /\ Len(queue) \in Nat
        BY <1>a, <2>2
      <4> QED BY <4>1
    <3>3. Recorded' = held'.frame /\ Recorded = lastProcessed
      BY <2>1, <2>2 DEF Recorded
    <3>4. \A i, j \in DOMAIN queue' : queue'[i] = queue'[j] => i = j
      BY <3>1 DEF Filtered
    <3>5. \A i \in DOMAIN queue' : queue'[i] # Recorded'
      BY <3>1, <3>2, <3>3 DEF Filtered
    <3>6. held'.frame # lastProcessed
      BY <3>1, <3>3 DEF Filtered
    <3> QED BY <1>b, <2>1, <2>2, <3>4, <3>5, <3>6 DEF Filtered
  <2>3. CASE queue' = queue /\ pc' = "scanClear"
    BY <1>b, <1>c, <2>1, <2>3 DEF Recorded
  <2> QED BY <1>3, <2>2, <2>3 DEF Dequeue, Step
<1>4. CASE MarkProcessed
  <2>1. /\ pc = "mark" /\ pc' = "execute" /\ lastProcessed' = held.frame
        /\ UNCHANGED <<queue, held, log>>
    BY <1>4 DEF MarkProcessed, Step
  <2>2. Recorded' = Recorded
    BY <2>1 DEF Recorded
  <2> QED BY <1>b, <2>1, <2>2 DEF Filtered
<1>5. ASSUME NEW status \in Answer, Execute(status)
      PROVE  Filtered' /\ NoImmediateRepeat'
  <2> DEFINE r == Ran(held.frame, status)
  <2>1. /\ pc = "execute" /\ pc' = "status" /\ log' = Append(log, r)
        /\ UNCHANGED <<queue, lastProcessed>>
    BY <1>5 DEF Execute, Step
  <2>2. Queueable(r) /\ r.frame = held.frame
    BY <2>1 DEF Queueable, Ran, ScansApart
  <2> HIDE DEF r
  <2>3. NoImmediateRepeat'
    BY <2>1, <2>2, RepeatNothing DEF Filtered
  <2>4. \A k \in DOMAIN log' : LastRun(k)' => log'[k].frame = lastProcessed
    BY <2>1, <2>2, LastRunAppended DEF Filtered
  <2>5. Recorded' = Recorded
    BY <2>1 DEF Recorded
  <2> QED BY <2>1, <2>3, <2>4, <2>5 DEF Filtered
<1>6. CASE Acknowledge
  <2>1. /\ pc = "status" /\ pc' = "scanClear"
        /\ UNCHANGED <<queue, lastProcessed, log>>
    BY <1>6 DEF Acknowledge, Step
  <2> QED BY <1>b, <1>c, <2>1 DEF Recorded
<1>7. CASE ClearScanFlag
  <2>1. /\ pc = "scanClear" /\ pc' \in {"scan", "publish"}
        /\ UNCHANGED <<queue, lastProcessed, log>>
    BY <1>7 DEF ClearScanFlag, Step
  <2> QED BY <1>b, <1>c, <2>1 DEF Recorded
<1>8. CASE ScanBus
  <2> DEFINE r == Ran(held.frame, "Applied")
  <2>1. /\ pc = "scan" /\ pc' = "scanStatus" /\ log' = Append(log, r)
        /\ UNCHANGED <<queue, lastProcessed>>
    BY <1>8 DEF ScanBus, Step
  <2>2. ~Queueable(r)
    BY <2>1 DEF Queueable, Ran, ScansApart
  <2> HIDE DEF r
  <2>3. NoImmediateRepeat'
    BY <2>1, <2>2, RepeatNothing
  <2>4. \A k \in DOMAIN log' : LastRun(k)' =>
           k \in DOMAIN log /\ LastRun(k) /\ log'[k] = log[k]
    BY <2>1, <2>2, LastRunAppended
  <2>5. Recorded' = Recorded
    BY <2>1 DEF Recorded
  <2> QED BY <2>1, <2>3, <2>4, <2>5 DEF Filtered
<1>9. CASE AcknowledgeScan
  <2>1. /\ pc = "scanStatus" /\ pc' = "publish"
        /\ UNCHANGED <<queue, lastProcessed, log>>
    BY <1>9 DEF AcknowledgeScan, Step
  <2> QED BY <1>b, <1>c, <2>1 DEF Recorded
<1>10. CASE \E paused, nudge, presenceDue, heartbeatDue \in BOOLEAN :
               PublishAndTick(paused, nudge, presenceDue, heartbeatDue)
  <2>1. /\ pc = "publish" /\ pc' = "dequeue"
        /\ UNCHANGED <<queue, lastProcessed, log>>
    BY <1>10 DEF PublishAndTick, Step
  <2> QED BY <1>b, <1>c, <2>1 DEF Recorded
<1> QED
  BY <1>1, <1>2, <1>3, <1>4, <1>5, <1>6, <1>7, <1>8, <1>9, <1>10, Elsewhere
     DEF Next, FollowerCallback, FollowerLoop

\* When the callback cannot fall between taking a command off the queue and
\* recording it, the copies of a burst and of the resends collapse into one run.
THEOREM NoImmediateRepeatHolds ==
    ASSUME Preemptive = FALSE
    PROVE  Spec => []NoImmediateRepeat
<1> DEFINE IInv == TypeOK /\ HeldOK /\ ScansApart /\ Filtered /\ NoImmediateRepeat
<1>1. Init => IInv
  BY TypeInit, ScansApartInit, FilteredInit
<1>2. IInv /\ [Next]_vars => IInv'
  BY TypeStep, ScansApartStep, FilteredStep
<1>3. IInv => NoImmediateRepeat
  OBVIOUS
<1> QED BY <1>1, <1>2, <1>3, PTL DEF Spec

-----------------------------------------------------------------------------
(* A late resend cannot undo a tracked request.                            *)

\* A frame whose opcode the leader only ever sends tracked is never followed,
\* anywhere on its way, by a frame of an older request.
Firm(f) == f.op \notin UntrackedOps
InOrder(f, g) == Firm(f) => f.id <= g.id

\* A frame that is no newer than the tracked one, if it is firm: a resend, which
\* repeats the tracked frame, may then stand behind it.
Issued(f) == f.id < nextId /\ InOrder(f, tracker.frame)

Working == pc \in {"mark", "execute"}

IssuedAll ==
    /\ tracker.frame.id < nextId
    /\ \A i \in DOMAIN toFollower : Issued(toFollower[i])
    /\ \A i \in DOMAIN queue : Issued(queue[i])
    /\ Working => Issued(held.frame)
    /\ \A k \in DOMAIN log : Queueable(log[k]) => Issued(log[k].frame)

\* The way of a command is the radio, the queue, the loop's hands and the log;
\* what is further on is not overtaken by what comes behind.
Behind(f) ==
    /\ \A j \in DOMAIN queue : InOrder(f, queue[j])
    /\ \A j \in DOMAIN toFollower : InOrder(f, toFollower[j])

OrderedWay ==
    /\ \A i, j \in DOMAIN toFollower : i < j => InOrder(toFollower[i], toFollower[j])
    /\ \A i \in DOMAIN queue, j \in DOMAIN toFollower : InOrder(queue[i], toFollower[j])
    /\ \A i, j \in DOMAIN queue : i < j => InOrder(queue[i], queue[j])
    /\ Working => Behind(held.frame)
    /\ \A k \in DOMAIN log : Queueable(log[k]) =>
          Behind(log[k].frame) /\ (Working => InOrder(log[k].frame, held.frame))

LEMMA BurstAppends ==
    ASSUME NEW S, NEW ch \in Seq(S), NEW m \in S, NEW capacity \in Nat, NEW n \in Nat,
           Len(ch) <= capacity
    PROVE  /\ DOMAIN ch \subseteq DOMAIN Burst(ch, capacity, n, m)
           /\ \A i \in DOMAIN ch : Burst(ch, capacity, n, m)[i] = ch[i]
           /\ \A i \in DOMAIN Burst(ch, capacity, n, m) \ DOMAIN ch :
                 Burst(ch, capacity, n, m)[i] = m /\ \A j \in DOMAIN ch : j < i
           /\ DOMAIN Burst(ch, capacity, n, m) \subseteq Nat
<1> DEFINE k == Fitting(n, capacity - Len(ch))
           tail == Copies(k, m)
<1>1. k \in Nat
  BY DEF Fitting
<1>2. tail \in Seq(S) /\ Len(tail) = k /\ \A i \in 1..k : tail[i] = m
  BY <1>1 DEF Copies
<1> HIDE DEF k, tail
<1>3. Burst(ch, capacity, n, m) = ch \o tail
  BY DEF Burst, k, tail
<1>4. ch \o tail \in Seq(S) /\ Len(ch \o tail) = Len(ch) + k /\ Len(ch) \in Nat
      /\ DOMAIN ch = 1..Len(ch) /\ DOMAIN (ch \o tail) = 1..(Len(ch) + k)
  BY <1>1, <1>2
<1>5. \A i \in DOMAIN ch : (ch \o tail)[i] = ch[i]
  BY <1>1, <1>2, <1>4
<1>6. ASSUME NEW i \in DOMAIN (ch \o tail), i \notin DOMAIN ch
      PROVE  (ch \o tail)[i] = m
  <2>1. i \in 1..(Len(ch) + k) /\ i > Len(ch) /\ i - Len(ch) \in 1..k
    BY <1>1, <1>4, <1>6
  <2>2. (ch \o tail)[i] = tail[i - Len(ch)]
    BY <1>2, <1>4, <2>1
  <2> QED BY <1>2, <2>1, <2>2
<1>7. DOMAIN ch \subseteq DOMAIN (ch \o tail) /\ DOMAIN (ch \o tail) \subseteq Nat
      /\ \A i \in DOMAIN (ch \o tail) \ DOMAIN ch : \A j \in DOMAIN ch : j < i
  BY <1>1, <1>4
<1> QED BY <1>3, <1>5, <1>6, <1>7

\* A burst leaves what is in the air in its place, and puts copies behind it.
LEMMA Sent ==
    ASSUME TypeOK, NEW f \in Frame, NEW ok \in BOOLEAN, Transmit(f, ok)
    PROVE  /\ DOMAIN toFollower \subseteq DOMAIN toFollower' /\ DOMAIN toFollower' \subseteq Nat
           /\ \A i \in DOMAIN toFollower : toFollower'[i] = toFollower[i]
           /\ \A i \in DOMAIN toFollower' \ DOMAIN toFollower :
                 toFollower'[i] = f /\ \A j \in DOMAIN toFollower : j < i
<1>1. toFollower \in Seq(Frame) /\ Len(toFollower) <= DownCapacity
  BY DEF TypeOK
<1>2. CASE ok
  <2> DEFINE copies == IF f.op = "TeleopMirror" THEN 1 ELSE SendBurst
  <2>1. copies \in Nat /\ DownCapacity \in Nat
    BY ConstantsAssumption
  <2>2. toFollower' = Burst(toFollower, DownCapacity, copies, f)
    BY <1>2 DEF Transmit
  <2> HIDE DEF copies
  <2> QED BY <1>1, <2>1, <2>2, BurstAppends
<1>3. CASE ~ok
  BY <1>1, <1>3 DEF Transmit
<1> QED BY <1>2, <1>3

LEMMA WayTypes ==
    ASSUME TypeOK, HeldOK
    PROVE  /\ nextId \in Nat /\ tracker.frame.id \in Nat
           /\ toFollower \in Seq(Frame) /\ queue \in Seq(Frame)
           /\ \A i \in DOMAIN toFollower : toFollower[i] \in Frame
           /\ \A i \in DOMAIN queue : queue[i] \in Frame
           /\ \A k \in DOMAIN log : log[k].frame \in Frame
           /\ Working => held.frame \in Frame
           /\ \A f \in Frame : f.id \in Nat
<1>1. nextId \in Nat
  BY ConstantsAssumption DEF TypeOK
<1>2. \A f \in Frame : f.id \in Nat
  BY ConstantsAssumption DEF Frame
<1>3. tracker.frame.id \in Nat
  BY <1>2 DEF TypeOK, NoFrame
<1>4. /\ toFollower \in Seq(Frame) /\ queue \in Seq(Frame)
      /\ log \in Seq([frame : Frame, status : Answer, ran : BOOLEAN])
  BY DEF TypeOK
<1>5. /\ \A i \in DOMAIN toFollower : toFollower[i] \in Frame
      /\ \A i \in DOMAIN queue : queue[i] \in Frame
  BY <1>4, SequenceElement
<1>6. \A k \in DOMAIN log : log[k].frame \in Frame
  <2>1. \A k \in DOMAIN log : log[k] \in [frame : Frame, status : Answer, ran : BOOLEAN]
    BY <1>4, SequenceElement
  <2> QED BY <2>1
<1>7. Working => held.frame \in Frame
  BY DEF Working, HeldOK
<1> QED BY <1>1, <1>2, <1>3, <1>4, <1>5, <1>6, <1>7

\* Sending a frame that everything sent before may precede.
LEMMA SendInOrder ==
    ASSUME TypeOK, HeldOK, IssuedAll, OrderedWay, UNCHANGED Following,
           NEW f \in Frame, NEW ok \in BOOLEAN, Transmit(f, ok),
           \A g \in Frame : Issued(g) => InOrder(g, f)
    PROVE  OrderedWay'
<1>a. UNCHANGED <<pc, queue, held, log>> /\ Working' = Working
  BY DEF Following, Working
<1>b. /\ DOMAIN toFollower \subseteq DOMAIN toFollower' /\ DOMAIN toFollower' \subseteq Nat
      /\ \A i \in DOMAIN toFollower : toFollower'[i] = toFollower[i]
      /\ \A i \in DOMAIN toFollower' \ DOMAIN toFollower :
            toFollower'[i] = f /\ \A j \in DOMAIN toFollower : j < i
  BY Sent
<1>1. ASSUME NEW g \in Frame, Issued(g), Behind(g)
      PROVE  \A j \in DOMAIN toFollower' : InOrder(g, toFollower'[j])
  <2> SUFFICES ASSUME NEW j \in DOMAIN toFollower' PROVE InOrder(g, toFollower'[j])
    OBVIOUS
  <2>1. CASE j \in DOMAIN toFollower
    BY <1>b, <1>1, <2>1 DEF Behind
  <2>2. CASE j \notin DOMAIN toFollower
    BY <1>b, <1>1, <2>2
  <2> QED BY <2>1, <2>2
<1>2. \A i, j \in DOMAIN toFollower' : i < j => InOrder(toFollower'[i], toFollower'[j])
  <2> SUFFICES ASSUME NEW i \in DOMAIN toFollower', NEW j \in DOMAIN toFollower', i < j
               PROVE  InOrder(toFollower'[i], toFollower'[j])
    OBVIOUS
  <2>1. CASE j \in DOMAIN toFollower
    <3>1. i \in DOMAIN toFollower
      <4>1. i \in Nat /\ j \in Nat
        BY <1>b
      <4>2. i \notin DOMAIN toFollower => j < i
        BY <1>b, <2>1
      <4> QED BY <4>1, <4>2
    <3> QED BY <1>b, <2>1, <3>1 DEF OrderedWay
  <2>2. CASE j \notin DOMAIN toFollower
    <3>1. toFollower'[j] = f
      BY <1>b, <2>2
    <3>2. CASE i \in DOMAIN toFollower
      BY <1>b, <3>1, <3>2, WayTypes DEF IssuedAll
    <3>3. CASE i \notin DOMAIN toFollower
      <4>1. toFollower'[i] = f /\ f.id \in Nat
        BY <1>b, <3>3, WayTypes
      <4> QED BY <3>1, <4>1 DEF InOrder
    <3> QED BY <3>2, <3>3
  <2> QED BY <2>1, <2>2
<1>3. \A i \in DOMAIN queue', j \in DOMAIN toFollower' : InOrder(queue'[i], toFollower'[j])
  <2> SUFFICES ASSUME NEW i \in DOMAIN queue, NEW j \in DOMAIN toFollower'
               PROVE  InOrder(queue[i], toFollower'[j])
    BY <1>a
  <2>1. CASE j \in DOMAIN toFollower
    BY <1>b, <2>1 DEF OrderedWay
  <2>2. CASE j \notin DOMAIN toFollower
    BY <1>b, <2>2, WayTypes DEF IssuedAll
  <2> QED BY <2>1, <2>2
<1>4. \A i, j \in DOMAIN queue' : i < j => InOrder(queue'[i], queue'[j])
  BY <1>a DEF OrderedWay
<1>5. Working => /\ \A j \in DOMAIN toFollower' : InOrder(held.frame, toFollower'[j])
                 /\ \A j \in DOMAIN queue : InOrder(held.frame, queue[j])
  <2> HAVE Working
  <2>1. held.frame \in Frame /\ Issued(held.frame) /\ Behind(held.frame)
    BY WayTypes DEF OrderedWay, IssuedAll
  <2> QED BY <1>1, <2>1 DEF Behind
<1>6. ASSUME NEW k \in DOMAIN log, Queueable(log[k])
      PROVE  /\ \A j \in DOMAIN toFollower' : InOrder(log[k].frame, toFollower'[j])
             /\ \A j \in DOMAIN queue : InOrder(log[k].frame, queue[j])
             /\ Working => InOrder(log[k].frame, held.frame)
  <2>1. log[k].frame \in Frame /\ Issued(log[k].frame) /\ Behind(log[k].frame)
    BY <1>6, WayTypes DEF OrderedWay, IssuedAll
  <2>2. Working => InOrder(log[k].frame, held.frame)
    BY <1>6 DEF OrderedWay
  <2> QED BY <1>1, <2>1, <2>2 DEF Behind
<1> QED BY <1>a, <1>2, <1>3, <1>4, <1>5, <1>6 DEF OrderedWay, Behind

\* The leader's steps: a new frame is newer than all, a resent one repeats the
\* newest tracked one.
LEMMA LeaderInOrder ==
    ASSUME MaxRestarts = 0, TypeOK, HeldOK, IssuedAll, OrderedWay, Leader
    PROVE  IssuedAll' /\ OrderedWay'
<1>a. UNCHANGED <<pc, queue, held, log>> /\ Working' = Working
  BY Elsewhere DEF Following, Working
<1>b. ASSUME NEW f \in Frame, NEW ok \in BOOLEAN, Transmit(f, ok),
             f.id < nextId', InOrder(f, tracker'.frame), nextId <= nextId', nextId' \in Nat,
             tracker'.frame.id < nextId',
             \A g \in Frame : Issued(g) => InOrder(g, tracker'.frame)
      PROVE  IssuedAll'
  <2>1. \A g \in Frame : Issued(g) => g.id < nextId' /\ InOrder(g, tracker'.frame)
    BY <1>b, WayTypes DEF Issued
  <2>2. \A i \in DOMAIN toFollower' :
           toFollower'[i].id < nextId' /\ InOrder(toFollower'[i], tracker'.frame)
    <3> SUFFICES ASSUME NEW i \in DOMAIN toFollower'
                 PROVE  toFollower'[i].id < nextId' /\ InOrder(toFollower'[i], tracker'.frame)
      OBVIOUS
    <3>1. CASE i \in DOMAIN toFollower
      <4>1. toFollower'[i] = toFollower[i] /\ toFollower[i] \in Frame
        BY <1>b, <3>1, Sent, WayTypes
      <4> QED BY <2>1, <3>1, <4>1 DEF IssuedAll
    <3>2. CASE i \notin DOMAIN toFollower
      <4>1. toFollower'[i] = f
        BY <1>b, <3>2, Sent
      <4> QED BY <1>b, <4>1
    <3> QED BY <3>1, <3>2
  <2>3. \A i \in DOMAIN queue :
           queue[i].id < nextId' /\ InOrder(queue[i], tracker'.frame)
    BY <2>1, WayTypes DEF IssuedAll
  <2>4. Working => held.frame.id < nextId' /\ InOrder(held.frame, tracker'.frame)
    BY <2>1, WayTypes DEF IssuedAll
  <2>5. \A k \in DOMAIN log : Queueable(log[k]) =>
           log[k].frame.id < nextId' /\ InOrder(log[k].frame, tracker'.frame)
    BY <2>1, WayTypes DEF IssuedAll
  <2> QED BY <1>a, <1>b, <2>2, <2>3, <2>4, <2>5 DEF IssuedAll, Issued
<1>1. ASSUME NEW op \in TrackedOps, NEW sent \in BOOLEAN, Issue(op, sent)
      PROVE  IssuedAll' /\ OrderedWay'
  <2> DEFINE f == [id |-> nextId, op |-> op]
  <2>1. f \in Frame /\ f.id = nextId
    BY <1>1, ConstantsAssumption DEF Issue, TypeOK, Frame, Ops
  <2>2. Transmit(f, sent) /\ tracker'.frame = f /\ nextId' = nextId + 1
    BY <1>1 DEF Issue, Tracking
  <2> HIDE DEF f
  <2>3. \A g \in Frame : Issued(g) => InOrder(g, f)
    BY <2>1, WayTypes DEF Issued, InOrder
  <2>4. OrderedWay'
    BY <2>1, <2>2, <2>3, SendInOrder, Elsewhere
  <2>5. InOrder(f, f)
    BY <2>1, WayTypes DEF InOrder
  <2>6. nextId' \in Nat /\ nextId <= nextId' /\ f.id < nextId'
    BY <2>1, <2>2, WayTypes
  <2>7. IssuedAll'
    BY <1>b, <2>1, <2>2, <2>3, <2>5, <2>6
  <2> QED BY <2>4, <2>7
<1>2. ASSUME NEW op \in UntrackedOps, NEW sent \in BOOLEAN, IssueUntracked(op, sent)
      PROVE  IssuedAll' /\ OrderedWay'
  <2> DEFINE f == [id |-> nextId, op |-> op]
  <2>1. f \in Frame /\ f.id = nextId /\ ~Firm(f)
    BY <1>2, ConstantsAssumption DEF IssueUntracked, TypeOK, Frame, Ops, Firm
  <2>2. Transmit(f, sent) /\ tracker' = tracker /\ nextId' = nextId + 1
    BY <1>2 DEF IssueUntracked
  <2> HIDE DEF f
  <2>3. \A g \in Frame : Issued(g) => InOrder(g, f)
    BY <2>1, WayTypes DEF Issued, InOrder
  <2>4. OrderedWay'
    BY <2>1, <2>2, <2>3, SendInOrder, Elsewhere
  <2>5. InOrder(f, tracker'.frame) /\ \A g \in Frame : Issued(g) => InOrder(g, tracker'.frame)
    BY <2>1, <2>2 DEF InOrder, Issued
  <2>6. /\ nextId' \in Nat /\ nextId <= nextId' /\ f.id < nextId'
        /\ tracker'.frame.id < nextId'
    BY <2>1, <2>2, WayTypes DEF IssuedAll
  <2>7. IssuedAll'
    BY <1>b, <2>1, <2>2, <2>5, <2>6
  <2> QED BY <2>4, <2>7
<1>3. ASSUME NEW retryDue \in BOOLEAN, NEW resent \in BOOLEAN, NEW late \in BOOLEAN,
             RetryOrExpire(retryDue, resent, late)
      PROVE  IssuedAll' /\ OrderedWay'
  <2> DEFINE f == tracker.frame
  <2>1. f \in Frame /\ f.id < nextId
    BY <1>3 DEF RetryOrExpire, HeldOK, IssuedAll
  <2>2. Transmit(f, resent) /\ tracker'.frame = f /\ nextId' = nextId
    BY <1>3 DEF RetryOrExpire, TypeOK
  <2>3. InOrder(f, f) /\ \A g \in Frame : Issued(g) => InOrder(g, f)
    BY <2>1, WayTypes DEF Issued, InOrder
  <2> HIDE DEF f
  <2>4. OrderedWay'
    BY <2>1, <2>2, <2>3, SendInOrder, Elsewhere
  <2>5. nextId' \in Nat /\ nextId <= nextId' /\ f.id < nextId'
    BY <2>1, <2>2, WayTypes
  <2>6. IssuedAll'
    BY <1>b, <2>1, <2>2, <2>3, <2>5
  <2> QED BY <2>4, <2>6
<1>4. CASE TakeAck
  <2>1. UNCHANGED <<nextId, toFollower>> /\ tracker'.frame = tracker.frame
    BY <1>4 DEF TakeAck, TypeOK
  <2> QED BY <1>a, <2>1 DEF IssuedAll, OrderedWay, Issued, Behind
<1>5. CASE LeaderRestart \/ DashboardRestart
  BY <1>5 DEF LeaderRestart, DashboardRestart, TypeOK
<1> QED BY <1>1, <1>2, <1>3, <1>4, <1>5 DEF Leader, LeaderTick

\* A frame taken from the front of the radio: the rest of the way keeps its order.
LEMMA FrontTaken ==
    ASSUME TypeOK, HeldOK, IssuedAll, OrderedWay, toFollower # <<>>,
           toFollower' = Tail(toFollower)
    PROVE  /\ \A i \in DOMAIN toFollower' :
                 i + 1 \in DOMAIN toFollower /\ toFollower'[i] = toFollower[i + 1]
           /\ \A i, j \in DOMAIN toFollower' : i < j => InOrder(toFollower'[i], toFollower'[j])
           /\ \A i \in DOMAIN queue, j \in DOMAIN toFollower' :
                 InOrder(queue[i], toFollower'[j])
           /\ \A f \in Frame : Behind(f) => \A j \in DOMAIN toFollower' : InOrder(f, toFollower'[j])
           /\ \A j \in DOMAIN toFollower' : InOrder(Head(toFollower), toFollower'[j])
           /\ Issued(Head(toFollower)) /\ \A f : Behind(f) => InOrder(f, Head(toFollower))
<1>1. /\ 1 \in DOMAIN toFollower /\ Head(toFollower) = toFollower[1]
      /\ \A i \in DOMAIN toFollower' :
            i + 1 \in DOMAIN toFollower /\ toFollower'[i] = toFollower[i + 1]
      /\ DOMAIN toFollower' \subseteq Nat
  BY WayTypes, Popped
<1>2. \A i \in DOMAIN toFollower' : 1 < i + 1
  <2>1. \A i \in DOMAIN toFollower' : i \in 1..(Len(toFollower) - 1)
        /\ Len(toFollower) \in Nat
    BY WayTypes
  <2> QED BY <2>1
<1>3. \A i, j \in DOMAIN toFollower' : i < j => InOrder(toFollower'[i], toFollower'[j])
  BY <1>1 DEF OrderedWay
<1>4. \A j \in DOMAIN toFollower' : InOrder(Head(toFollower), toFollower'[j])
  BY <1>1, <1>2 DEF OrderedWay
<1>5. \A f : Behind(f) => InOrder(f, Head(toFollower))
                           /\ \A j \in DOMAIN toFollower' : InOrder(f, toFollower'[j])
  BY <1>1 DEF Behind
<1>6. \A i \in DOMAIN queue, j \in DOMAIN toFollower' : InOrder(queue[i], toFollower'[j])
  BY <1>1 DEF OrderedWay
<1>7. Issued(Head(toFollower))
  BY <1>1 DEF IssuedAll
<1> QED BY <1>1, <1>3, <1>4, <1>5, <1>6, <1>7

\* Whether the front is lost, refused, a duplicate, a scan or queued.
LEMMA RadioInOrder ==
    ASSUME TypeOK, HeldOK, IssuedAll, OrderedWay,
           LoseToFollower \/ handleServoControlFrame
    PROVE  IssuedAll' /\ OrderedWay'
<1> DEFINE f == Head(toFollower)
           r == [frame |-> f, status |-> "Rejected", ran |-> FALSE]
<1>a. toFollower # <<>> /\ toFollower' = Tail(toFollower)
  BY Arrival DEF LoseToFollower
<1>b. UNCHANGED <<pc, held, nextId, tracker>> /\ Working' = Working
  BY Arrival DEF LoseToFollower, leaderVars, loopVars, Working
<1>c. /\ \A i \in DOMAIN toFollower' :
            i + 1 \in DOMAIN toFollower /\ toFollower'[i] = toFollower[i + 1]
      /\ \A i, j \in DOMAIN toFollower' : i < j => InOrder(toFollower'[i], toFollower'[j])
      /\ \A i \in DOMAIN queue, j \in DOMAIN toFollower' : InOrder(queue[i], toFollower'[j])
      /\ \A g \in Frame : Behind(g) => \A j \in DOMAIN toFollower' : InOrder(g, toFollower'[j])
      /\ \A j \in DOMAIN toFollower' : InOrder(f, toFollower'[j])
      /\ Issued(f) /\ \A g : Behind(g) => InOrder(g, f)
  BY <1>a, FrontTaken
<1>d. \A i \in DOMAIN toFollower' : Issued(toFollower'[i])
  BY <1>c DEF IssuedAll
<1> HIDE DEF f
<1>1. /\ \A i \in DOMAIN queue' : queue'[i] = f \/ (i \in DOMAIN queue /\ queue'[i] = queue[i])
      /\ \A i, j \in DOMAIN queue' : i < j => InOrder(queue'[i], queue'[j])
  <2>1. CASE queue' = queue
    BY <2>1 DEF OrderedWay
  <2>2. CASE queue' = Append(queue, f)
    <3>1. /\ Len(queue) \in Nat /\ DOMAIN queue = 1..Len(queue)
          /\ DOMAIN queue' = 1..(Len(queue) + 1)
          /\ \A i \in DOMAIN queue : queue'[i] = queue[i]
          /\ queue'[Len(queue) + 1] = f
      BY <2>2, WayTypes, Pushed
    <3>2. \A i \in DOMAIN queue : InOrder(queue[i], f)
      <4>1. f = toFollower[1] /\ 1 \in DOMAIN toFollower
        BY <1>a, WayTypes, Popped DEF f
      <4> QED BY <4>1 DEF OrderedWay
    <3> QED BY <3>1, <3>2 DEF OrderedWay
  <2> QED BY <2>1, <2>2, Arrival DEF LoseToFollower, f
<1>2. \A k \in DOMAIN log' : Queueable(log'[k]) => k \in DOMAIN log /\ log'[k] = log[k]
  <2>1. CASE log' = log
    BY <2>1
  <2>2. CASE log' = Append(log, r)
    <3>1. ~Queueable(r)
      BY DEF Queueable
    <3> HIDE DEF r
    <3> QED BY <2>2, <3>1, Runs
  <2> QED BY <2>1, <2>2, Arrival DEF LoseToFollower, f
<1>3. IssuedAll'
  BY <1>b, <1>c, <1>d, <1>1, <1>2 DEF IssuedAll, Issued
<1>4. ASSUME NEW g \in Frame, Behind(g)
      PROVE  /\ \A j \in DOMAIN queue' : InOrder(g, queue'[j])
             /\ \A j \in DOMAIN toFollower' : InOrder(g, toFollower'[j])
  BY <1>c, <1>1, <1>4 DEF Behind
<1>5. Working => /\ \A j \in DOMAIN queue' : InOrder(held.frame, queue'[j])
                 /\ \A j \in DOMAIN toFollower' : InOrder(held.frame, toFollower'[j])
  <2> HAVE Working
  <2>1. held.frame \in Frame /\ Behind(held.frame)
    BY WayTypes DEF OrderedWay
  <2> QED BY <1>4, <2>1
<1>6. ASSUME NEW k \in DOMAIN log, Queueable(log[k])
      PROVE  /\ \A j \in DOMAIN queue' : InOrder(log[k].frame, queue'[j])
             /\ \A j \in DOMAIN toFollower' : InOrder(log[k].frame, toFollower'[j])
             /\ Working => InOrder(log[k].frame, held.frame)
  <2>1. log[k].frame \in Frame /\ Behind(log[k].frame)
    BY <1>6, WayTypes DEF OrderedWay
  <2>2. Working => InOrder(log[k].frame, held.frame)
    BY <1>6 DEF OrderedWay
  <2> QED BY <1>4, <2>1, <2>2
<1>7. \A i \in DOMAIN queue', j \in DOMAIN toFollower' : InOrder(queue'[i], toFollower'[j])
  BY <1>c, <1>1
<1> QED BY <1>b, <1>c, <1>1, <1>2, <1>3, <1>5, <1>6, <1>7 DEF OrderedWay, Behind

\* The loop moves the front of the queue into its hands and then into the log.
LEMMA LoopInOrder ==
    ASSUME TypeOK, HeldOK, ScansApart, IssuedAll, OrderedWay, FollowerLoop
    PROVE  IssuedAll' /\ OrderedWay'
<1>a. UNCHANGED <<nextId, tracker, toFollower>>
  BY DEF FollowerLoop, Dequeue, MarkProcessed, Acknowledge, Execute, ClearScanFlag,
     ScanBus, AcknowledgeScan, PublishAndTick, leaderVars
<1>b. ASSUME UNCHANGED <<queue, log>>, Working' => Working /\ held' = held
      PROVE  IssuedAll' /\ OrderedWay'
  BY <1>a, <1>b DEF IssuedAll, Issued, OrderedWay, Behind
<1>1. CASE Dequeue
  <2>1. log' = log /\ ~Working
    BY <1>1 DEF Dequeue, Step, Working
  <2>2. CASE queue # <<>> /\ queue' = Tail(queue) /\ held'.frame = Head(queue)
             /\ pc' = "mark"
    <3>1. /\ 1 \in DOMAIN queue /\ held'.frame = queue[1]
          /\ \A i \in DOMAIN queue' : i + 1 \in DOMAIN queue /\ queue'[i] = queue[i + 1]
          /\ DOMAIN queue' \subseteq Nat
      BY <2>2, WayTypes, Popped
    <3>2. \A i \in DOMAIN queue' : 1 < i + 1
      <4>1. \A i \in DOMAIN queue' : i \in 1..(Len(queue) - 1) /\ Len(queue) \in Nat
        BY <2>2, WayTypes
      <4> QED BY <4>1
    <3>3. \A i, j \in DOMAIN queue' : i < j => InOrder(queue'[i], queue'[j])
      BY <3>1 DEF OrderedWay
    <3>4. \A j \in DOMAIN queue' : InOrder(held'.frame, queue'[j])
      BY <3>1, <3>2 DEF OrderedWay
    <3>5. \A j \in DOMAIN toFollower : InOrder(held'.frame, toFollower[j])
      BY <3>1 DEF OrderedWay
    <3>6. \A k \in DOMAIN log : Queueable(log[k]) =>
             /\ \A j \in DOMAIN queue' : InOrder(log[k].frame, queue'[j])
             /\ \A j \in DOMAIN toFollower : InOrder(log[k].frame, toFollower[j])
             /\ InOrder(log[k].frame, held'.frame)
      BY <3>1 DEF OrderedWay, Behind
    <3>7. \A i \in DOMAIN queue', j \in DOMAIN toFollower : InOrder(queue'[i], toFollower[j])
      BY <3>1 DEF OrderedWay
    <3>8. OrderedWay'
      BY <1>a, <2>1, <3>3, <3>4, <3>5, <3>6, <3>7 DEF OrderedWay, Behind
    <3>9. IssuedAll'
      BY <1>a, <2>1, <3>1 DEF IssuedAll, Issued
    <3> QED BY <3>8, <3>9
  <2>3. CASE queue' = queue /\ pc' = "scanClear"
    BY <1>b, <2>1, <2>3 DEF Working
  <2> QED BY <1>1, <2>2, <2>3 DEF Dequeue, Step
<1>2. CASE MarkProcessed
  BY <1>b, <1>2 DEF MarkProcessed, Step, Working
<1>3. ASSUME NEW status \in Answer, Execute(status)
      PROVE  IssuedAll' /\ OrderedWay'
  <2> DEFINE r == Ran(held.frame, status)
  <2>1. /\ pc = "execute" /\ pc' = "status" /\ log' = Append(log, r)
        /\ queue' = queue
    BY <1>3 DEF Execute, Step
  <2>2. Working /\ ~Working' /\ r.frame = held.frame
    BY <2>1 DEF Working, Ran
  <2> HIDE DEF r
  <2>3. /\ Len(log) \in Nat /\ DOMAIN log = 1..Len(log)
        /\ DOMAIN log' = 1..(Len(log) + 1)
        /\ \A k \in DOMAIN log : log'[k] = log[k]
        /\ log'[Len(log) + 1] = r
    BY <2>1, Runs
  <2>4. \A k \in DOMAIN log' : Queueable(log'[k]) =>
           \/ k \in DOMAIN log /\ log'[k] = log[k]
           \/ log'[k].frame = held.frame
    BY <2>2, <2>3
  <2>5. IssuedAll'
    BY <1>a, <2>1, <2>2, <2>4 DEF IssuedAll, Issued
  <2>6. \A k \in DOMAIN log' : Queueable(log'[k]) => Behind(log'[k].frame)
    BY <2>2, <2>4 DEF OrderedWay
  <2>7. OrderedWay'
    BY <1>a, <2>1, <2>2, <2>6 DEF OrderedWay, Behind
  <2> QED BY <2>5, <2>7
<1>4. CASE Acknowledge
  BY <1>b, <1>4 DEF Acknowledge, Step, Working
<1>5. CASE ClearScanFlag
  BY <1>b, <1>5 DEF ClearScanFlag, Step, Working
<1>6. CASE ScanBus
  <2> DEFINE r == Ran(held.frame, "Applied")
  <2>1. /\ pc = "scan" /\ pc' = "scanStatus" /\ log' = Append(log, r) /\ queue' = queue
    BY <1>6 DEF ScanBus, Step
  <2>2. ~Queueable(r) /\ ~Working'
    BY <2>1 DEF Queueable, Ran, ScansApart, Working
  <2> HIDE DEF r
  <2>3. \A k \in DOMAIN log' : Queueable(log'[k]) => k \in DOMAIN log /\ log'[k] = log[k]
    BY <2>1, <2>2, Runs
  <2>4. \A k \in DOMAIN log' : Queueable(log'[k]) =>
           Issued(log'[k].frame) /\ Behind(log'[k].frame)
    BY <2>3 DEF IssuedAll, OrderedWay
  <2> QED BY <1>a, <2>1, <2>2, <2>4 DEF IssuedAll, Issued, OrderedWay, Behind
<1>7. CASE AcknowledgeScan
  BY <1>b, <1>7 DEF AcknowledgeScan, Step, Working
<1>8. CASE \E paused, nudge, presenceDue, heartbeatDue \in BOOLEAN :
              PublishAndTick(paused, nudge, presenceDue, heartbeatDue)
  BY <1>b, <1>8 DEF PublishAndTick, Step, Working
<1> QED BY <1>1, <1>2, <1>3, <1>4, <1>5, <1>6, <1>7, <1>8 DEF FollowerLoop

\* The log grows only by what the loop has in its hands, which every run before
\* it may precede.
LEMMA NotOvertakenStep ==
    ASSUME TypeOK, HeldOK, ScansApart, IssuedAll, OrderedWay, TrackedNotOvertaken,
           [Next]_vars
    PROVE  TrackedNotOvertaken'
<1>1. CASE log' = log
  BY <1>1 DEF TrackedNotOvertaken, QueuedRun
<1>2. ASSUME NEW r, log' = Append(log, r),
             Queueable(r) => \A k \in DOMAIN log : Queueable(log[k]) =>
                                InOrder(log[k].frame, r.frame)
      PROVE  TrackedNotOvertaken'
  <2> SUFFICES ASSUME NEW j \in DOMAIN log', NEW k \in DOMAIN log', j < k,
                      Queueable(log'[j]), Queueable(log'[k]),
                      log'[j].frame.op \notin UntrackedOps
               PROVE  log'[j].frame.id <= log'[k].frame.id
    BY DEF TrackedNotOvertaken, QueuedRun, Queueable
  <2> DEFINE n == Len(log)
  <2>1. /\ n \in Nat /\ DOMAIN log = 1..n /\ DOMAIN log' = 1..(n + 1)
        /\ \A i \in DOMAIN log : log'[i] = log[i]
        /\ log'[n + 1] = r
    BY <1>2, Runs
  <2> HIDE DEF n
  <2>2. j \in DOMAIN log /\ log'[j] = log[j]
    BY <2>1
  <2>3. CASE k \in DOMAIN log
    BY <2>1, <2>2, <2>3 DEF TrackedNotOvertaken, QueuedRun, Queueable
  <2>4. CASE k = n + 1
    <3>1. log'[k] = r
      BY <2>1, <2>4
    <3> QED BY <1>2, <2>2, <3>1 DEF InOrder, Firm
  <2> QED BY <2>1, <2>3, <2>4
<1>3. CASE handleServoControlFrame
  <2> DEFINE r == [frame |-> Head(toFollower), status |-> "Rejected", ran |-> FALSE]
  <2>1. log' = log \/ log' = Append(log, r)
    BY <1>3, Arrival
  <2>2. ~Queueable(r)
    BY DEF Queueable
  <2> HIDE DEF r
  <2> QED BY <1>1, <1>2, <2>1, <2>2
<1>4. ASSUME NEW status \in Answer, Execute(status)
      PROVE  TrackedNotOvertaken'
  <2>1. pc = "execute" /\ log' = Append(log, Ran(held.frame, status))
    BY <1>4 DEF Execute, Step
  <2>2. Ran(held.frame, status).frame = held.frame /\ Working
    BY <2>1 DEF Ran, Working
  <2>3. \A k \in DOMAIN log : Queueable(log[k]) => InOrder(log[k].frame, held.frame)
    BY <2>2 DEF OrderedWay
  <2> QED BY <1>2, <2>1, <2>2, <2>3
<1>5. CASE ScanBus
  <2>1. pc = "scan" /\ log' = Append(log, Ran(held.frame, "Applied"))
    BY <1>5 DEF ScanBus, Step
  <2>2. ~Queueable(Ran(held.frame, "Applied"))
    BY <2>1 DEF Queueable, Ran, ScansApart
  <2> QED BY <1>2, <2>1, <2>2
<1>6. ASSUME UNCHANGED Following \/ Dequeue \/ MarkProcessed \/ Acknowledge \/ ClearScanFlag
             \/ AcknowledgeScan
             \/ \E paused, nudge, presenceDue, heartbeatDue \in BOOLEAN :
                   PublishAndTick(paused, nudge, presenceDue, heartbeatDue)
      PROVE  log' = log
  BY <1>6 DEF Following, Dequeue, MarkProcessed, Acknowledge, ClearScanFlag,
     AcknowledgeScan, PublishAndTick
<1> QED
  BY <1>1, <1>3, <1>4, <1>5, <1>6, Elsewhere DEF Next, FollowerCallback, FollowerLoop

LEMMA OrderStep ==
    ASSUME MaxRestarts = 0, TypeOK, HeldOK, ScansApart, IssuedAll, OrderedWay,
           TrackedNotOvertaken, [Next]_vars
    PROVE  IssuedAll' /\ OrderedWay' /\ TrackedNotOvertaken'
<1>1. ASSUME LeaderCallback \/ LoseToLeader \/ StageBatchAck \/ UNCHANGED vars
      PROVE  IssuedAll' /\ OrderedWay'
  <2>1. UNCHANGED Following
    BY <1>1, Elsewhere
  <2>2. UNCHANGED <<nextId, tracker, toFollower>>
    BY <1>1 DEF LeaderCallback, StoreStatus, StoreRequest, LoseToLeader, StageBatchAck,
       vars, leaderVars
  <2>3. UNCHANGED <<queue, held, log>> /\ Working' = Working
    BY <2>1 DEF Following, Working
  <2> QED BY <2>2, <2>3 DEF IssuedAll, Issued, OrderedWay, Behind
<1>2. IssuedAll' /\ OrderedWay'
  BY <1>1, LeaderInOrder, RadioInOrder, LoopInOrder DEF Next, FollowerCallback
<1> QED BY <1>2, NotOvertakenStep

\* While ids are not used again (no restart of the leader or of the dashboard),
\* no resend, burst copy or queued remainder of an older request runs after a
\* tracked one, whatever the radio loses and however the two cores interleave.
THEOREM TrackedNotOvertakenHolds ==
    ASSUME MaxRestarts = 0
    PROVE  Spec => []TrackedNotOvertaken
<1> DEFINE IInv == TypeOK /\ HeldOK /\ ScansApart /\ IssuedAll /\ OrderedWay
                   /\ TrackedNotOvertaken
<1>1. Init => IInv
  <2>1. Init => IssuedAll /\ OrderedWay /\ TrackedNotOvertaken
    BY DEF Init, Idle, NoFrame, IssuedAll, OrderedWay, Working, TrackedNotOvertaken
  <2> QED BY <2>1, TypeInit, ScansApartInit
<1>2. IInv /\ [Next]_vars => IInv'
  BY TypeStep, ScansApartStep, OrderStep
<1>3. IInv => TrackedNotOvertaken
  OBVIOUS
<1> QED BY <1>1, <1>2, <1>3, PTL DEF Spec

=============================================================================
