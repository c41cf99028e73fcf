---------------------------- MODULE CommandLink ----------------------------
(***************************************************************************)
(* The request/acknowledgement path between the leader and the follower    *)
(* board: the leader's command tracker (one tracked request, resent until  *)
(* an acknowledgement, a failed last resend or the deadline), the lossy    *)
(* ESP-NOW link, the follower's receive callback with its duplicate filter *)
(* and bounded queue, and the follower's loop that executes one command    *)
(* per tick and answers.                                                   *)
(*                                                                         *)
(* Abstractions.  A frame is a request id and an opcode: the value a       *)
(* command carries and its sequence byte are functions of the request.     *)
(* Clocks are not modelled: a retry, the deadline and a heartbeat may fall *)
(* due at any tick.  The three id counters of the leader (dashboard, 40000 *)
(* and 60000 based) are one counter of fresh ids.                          *)
(*                                                                         *)
(* The callbacks run on the Wi-Fi core while the loop runs on the other    *)
(* one, and nothing locks the fields they share.  With Preemptive = TRUE   *)
(* the steps of one side fall anywhere between the field accesses of the   *)
(* other; with FALSE each multi-field update is undisturbed.               *)
(***************************************************************************)
EXTENDS Integers, Sequences, SequencesExt

CONSTANTS
    TrackedOps,       \* opcodes the leader sends and tracks
    UntrackedOps,     \* opcodes the leader sends without waiting for an answer
    MaxId,            \* bound on the request ids issued between two boots
    QueueCapacity,    \* kServoControlQueueCapacity
    DownCapacity, UpCapacity,  \* frames the radio holds, per direction
    SendBurst,        \* kFollowerInitialSendBurstCount
    AckBurst,         \* kCommandAckSendBurstCount
    MaxRetries,       \* kFollowerCommandMaxRetries
    MaxRestarts,      \* bound on the restarts of leader and dashboard
    MirrorTraffic,    \* are mirror batches applied meanwhile?
    Preemptive        \* do the two cores interleave inside an update?

Guarded == {"Move", "SetId", "SetMode"}
Infallible == {"DebugEnable", "DebugDisable", "TeleopLoadFeedbackUplink"}
ServoControlOpcode ==
    Guarded \cup Infallible \cup
    {"Scan", "TeleopMirror", "CalibrationCapture", "CenterAll", "CalibrationCenter"}

ASSUME ConstantsAssumption ==
    /\ TrackedOps \subseteq ServoControlOpcode
    /\ UntrackedOps \subseteq ServoControlOpcode
    /\ MaxId \in Nat /\ MaxRetries \in Nat /\ MaxRestarts \in Nat
    /\ QueueCapacity \in Nat \ {0} /\ DownCapacity \in Nat \ {0} /\ UpCapacity \in Nat \ {0}
    /\ SendBurst \in Nat \ {0} /\ AckBurst \in Nat \ {0}
    /\ MirrorTraffic \in BOOLEAN /\ Preemptive \in BOOLEAN

CommandAckStatus == {"None", "Accepted", "Applied", "Failed", "Timeout", "Rejected"}
Answer == {"Applied", "Failed", "Rejected"}
Ops == TrackedOps \cup UntrackedOps

\* Id 0 is the value of every id field before its first use, and the id of a
\* mirror batch whose staged acknowledgement displaces that of a command.
Frame == [id : 1..MaxId, op : Ops]
NoFrame == [id |-> 0, op |-> "None"]
BatchFrame == [id |-> 0, op |-> "TeleopMirrorBatch"]
Nothing == [frame |-> NoFrame, status |-> "None"]
AckedFrame == Frame \cup {NoFrame, BatchFrame}

\* What the follower sends: a ServoCommandAck or a full presence frame carry
\* the debug flag, a heartbeat does not.
Message == [kind : {"flagged", "heartbeat"}, frame : AckedFrame,
            status : CommandAckStatus, manual : BOOLEAN]
NoMessage == [kind |-> "none", frame |-> NoFrame, status |-> "None", manual |-> FALSE]

VARIABLES
    \* leader
    nextId,      \* next request id
    tracker,     \* commandRequestId_, followerAck..., followerRetry...
    seen,        \* followerLastAckRequestId_/CommandOp_ and followerLastAckStatus_
    seenManual,  \* followerServoDebugManual_
    rx,          \* message whose status is stored and whose id is not yet
    restarts,
    \* radio
    toFollower, toLeader,
    \* follower
    pc,             \* where the loop task stands
    queue,          \* controlQueue_
    held,           \* command the loop works on, and its outcome once known
    lastProcessed,  \* lastProcessed...
    scanFlag, scanPending, scanTaken,  \* servoScanRequested_, pendingServoScan...
    lastScan,       \* lastProcessedScan...
    lastAck,        \* lastAckRequestId_, lastAckCommandOp_, lastAckStatus_
    forceTx, staged,   \* forcePresenceTx_, stagedAckPending_
    manual,         \* debug-manual flag of the servo bus
    published,      \* servoDebugManual_, its copy in the presence service
    \* history
    log             \* outcomes the follower produced, in order

leaderVars == <<nextId, tracker, seen, seenManual, rx, restarts>>
loopVars == <<pc, held, manual, published>>
scanVars == <<scanFlag, scanPending, scanTaken, lastScan>>
ackVars == <<lastAck, forceTx, staged>>
vars == <<leaderVars, toFollower, toLeader, loopVars, queue, lastProcessed,
          scanVars, ackVars, log>>

Idle == [pending |-> FALSE, frame |-> NoFrame, status |-> "None",
         retry |-> FALSE, left |-> 0]

Init ==
    /\ nextId = 1 /\ tracker = Idle /\ rx = NoMessage /\ restarts = 0
    /\ seen = Nothing /\ seenManual = FALSE
    /\ toFollower = <<>> /\ toLeader = <<>>
    /\ pc = "dequeue" /\ queue = <<>> /\ held = Nothing /\ lastProcessed = NoFrame
    /\ scanFlag = FALSE /\ scanPending = NoFrame /\ scanTaken = FALSE
    /\ lastScan = NoFrame
    /\ lastAck = Nothing
    /\ forceTx = FALSE /\ staged = FALSE /\ manual = FALSE /\ published = FALSE
    /\ log = <<>>

-----------------------------------------------------------------------------
(* Radio.  A burst fills at most the room left in the radio's queue.       *)

Copies(n, m) == [i \in 1..n |-> m]
Fitting(n, room) == IF n <= room THEN n ELSE room
Burst(ch, capacity, n, m) == ch \o Copies(Fitting(n, capacity - Len(ch)), m)

\* esp_now_send of a burst: the driver takes what fits, or refuses all of it.
Transmit(f, ok) ==
    LET copies == IF f.op = "TeleopMirror" THEN 1 ELSE SendBurst
    IN  /\ ok => Len(toFollower) < DownCapacity
        /\ toFollower' = IF ok THEN Burst(toFollower, DownCapacity, copies, f)
                                ELSE toFollower

LoseToFollower ==
    /\ toFollower # <<>>
    /\ toFollower' = Tail(toFollower)
    /\ UNCHANGED <<leaderVars, toLeader, loopVars, queue, lastProcessed,
                   scanVars, ackVars, log>>

LoseToLeader ==
    /\ toLeader # <<>>
    /\ toLeader' = Tail(toLeader)
    /\ UNCHANGED <<leaderVars, toFollower, loopVars, queue, lastProcessed,
                   scanVars, ackVars, log>>

-----------------------------------------------------------------------------
(* Leader.                                                                 *)

followerVars == <<loopVars, queue, lastProcessed, scanVars, ackVars>>

\* Faulty variant: a request that is not awaited leaves the old one in place.
StaleTracking(f, status, awaited) ==
    [pending |-> IF awaited THEN TRUE ELSE tracker.pending,
     frame |-> IF awaited THEN f ELSE tracker.frame, status |-> status,
     retry |-> IF awaited THEN TRUE ELSE tracker.retry,
     left |-> IF awaited THEN MaxRetries ELSE tracker.left]
Tracking(f, status, awaited) ==
    [pending |-> awaited, frame |-> f, status |-> status,
     retry |-> awaited, left |-> IF awaited THEN MaxRetries ELSE 0]

\* beginCommandTracking, the send, and on success setFollowerRetryPayload and
\* awaitFollowerAck.  A guarded command is not sent at all while the leader
\* believes the follower is not in debug-manual mode; a mirror command replaces
\* the tracked one and is not awaited.
Issue(op, sent) ==
    LET f == [id |-> nextId, op |-> op]
        refused == op \in Guarded /\ ~seenManual
        status == IF refused THEN "Rejected" ELSE IF sent THEN "Accepted" ELSE "Failed"
        awaited == sent /\ op # "TeleopMirror"
    IN  /\ nextId <= MaxId
        /\ refused => ~sent
        /\ Transmit(f, sent)
        /\ tracker' = Tracking(f, status, awaited)
        /\ nextId' = nextId + 1
        /\ UNCHANGED <<seen, seenManual, rx, restarts, toLeader, followerVars, log>>

\* Load-feedback, calibration and profile code send a command and move on.
IssueUntracked(op, sent) ==
    /\ nextId <= MaxId
    /\ Transmit([id |-> nextId, op |-> op], sent)
    /\ nextId' = nextId + 1
    /\ UNCHANGED <<tracker, seen, seenManual, rx, restarts, toLeader,
                   followerVars, log>>

Undisturbed == Preemptive \/ rx = NoMessage
\* Faulty variant: the answer is matched by opcode and not by request id.
MatchedByOpcode == seen.frame.op = tracker.frame.op
Matched == seen.frame = tracker.frame

\* updateFollowerAckTracking, acknowledgement stored for the tracked request.
TakeAck ==
    /\ tracker.pending /\ Undisturbed /\ Matched
    /\ tracker' = [tracker EXCEPT !.status = seen.status, !.pending = FALSE,
                                  !.retry = FALSE]
    /\ UNCHANGED <<nextId, seen, seenManual, rx, restarts, toFollower, toLeader,
                   followerVars, log>>

\* updateFollowerAckTracking without one: perhaps a resend, then perhaps the
\* deadline.  A failed last resend ends the tracking at once.
RetryOrExpire(retryDue, resent, late) ==
    LET resend == retryDue /\ tracker.retry /\ tracker.left > 0
        left == IF resend THEN tracker.left - 1 ELSE tracker.left
        exhausted == resend /\ ~resent /\ left = 0
    IN  /\ tracker.pending /\ Undisturbed /\ ~Matched
        /\ resend \/ late
        /\ resent => resend
        /\ Transmit(tracker.frame, resent)
        /\ tracker' = [tracker EXCEPT
              !.left = left,
              !.status = IF exhausted THEN "Failed" ELSE IF late THEN "Timeout" ELSE @,
              !.pending = ~(exhausted \/ late),
              !.retry = @ /\ ~(exhausted \/ late)]
        /\ UNCHANGED <<nextId, seen, seenManual, rx, restarts, toLeader,
                       followerVars, log>>

LeaderTick == TakeAck \/ \E retryDue, resent, late \in BOOLEAN :
                            RetryOrExpire(retryDue, resent, late)

\* Faulty variant: a frame without the flag clears it.
MissingFlagIsFalse(m) == m.kind = "flagged" /\ m.manual
\* A heartbeat has no debug flag and leaves the leader's copy alone.
DebugFlag(m) == IF m.kind = "flagged" THEN m.manual ELSE seenManual

\* handleServoCommandAck, handlePresenceData and handleLinkHeartbeat store the
\* status first and the request id and opcode after it.
StoreStatus ==
    /\ toLeader # <<>> /\ rx = NoMessage
    /\ rx' = Head(toLeader)
    /\ toLeader' = Tail(toLeader)
    /\ seen' = [seen EXCEPT !.status = Head(toLeader).status]
    /\ seenManual' = DebugFlag(Head(toLeader))
    /\ UNCHANGED <<nextId, tracker, restarts, toFollower, followerVars, log>>

StoreRequest ==
    /\ rx # NoMessage
    /\ seen' = [seen EXCEPT !.frame = rx.frame]
    /\ rx' = NoMessage
    /\ UNCHANGED <<nextId, tracker, seenManual, restarts, toFollower, toLeader,
                   followerVars, log>>

\* A reboot of the leader: nothing of this state is kept in flash, and the id
\* counters start again from their first value.
LeaderRestart ==
    /\ restarts < MaxRestarts
    /\ restarts' = restarts + 1
    /\ nextId' = 1 /\ tracker' = Idle /\ rx' = NoMessage
    /\ seen' = Nothing /\ seenManual' = FALSE
    /\ UNCHANGED <<toFollower, toLeader, followerVars, log>>

\* A new dashboard process: its ids start at 1 again, the leader runs on.
DashboardRestart ==
    /\ restarts < MaxRestarts
    /\ restarts' = restarts + 1
    /\ nextId' = 1
    /\ UNCHANGED <<tracker, seen, seenManual, rx, toFollower, toLeader,
                   followerVars, log>>

-----------------------------------------------------------------------------
(* Follower: the ESP-NOW receive callback.                                 *)

Ack(f, status) == [kind |-> "flagged", frame |-> f, status |-> status,
                   manual |-> published]
SendAck(f, status) == toLeader' = Burst(toLeader, UpCapacity, AckBurst, Ack(f, status))

\* Faulty variant: every duplicate is answered Applied.
AlwaysApplied(f) == SendAck(f, "Applied")
\* The answer kept for a duplicate, if the last one is still for this request.
AnswerAgain(f) ==
    IF lastAck.frame = f THEN SendAck(f, lastAck.status) ELSE UNCHANGED toLeader

\* Faulty variants: the queue takes one command too many; a duplicate is only
\* looked for in the queue.
QueueFullLate == Len(queue) > QueueCapacity
DuplicateWhileQueued(f) == Contains(queue, f)
QueueFull == Len(queue) >= QueueCapacity
isDuplicateControlFrame(f) == f = lastProcessed \/ Contains(queue, f)
isDuplicateScan(f) == (scanFlag /\ scanPending = f) \/ lastScan = f

LoopUndisturbed == Preemptive \/ pc \notin {"mark", "status", "scanClear", "scanStatus"}

handleServoControlFrame ==
    LET f == Head(toFollower)
    IN  /\ toFollower # <<>> /\ LoopUndisturbed
        /\ toFollower' = Tail(toFollower)
        /\ \/ /\ isDuplicateControlFrame(f) \/ (f.op = "Scan" /\ isDuplicateScan(f))
              /\ AnswerAgain(f)
              /\ UNCHANGED <<queue, scanFlag, scanPending, log>>
           \/ /\ f.op = "Scan" /\ ~isDuplicateScan(f)
              /\ scanFlag' = TRUE
              /\ scanPending' = f
              /\ UNCHANGED <<queue, toLeader, log>>
           \/ /\ f.op # "Scan" /\ ~isDuplicateControlFrame(f)
              /\ ~QueueFull
              /\ queue' = Append(queue, f)
              /\ UNCHANGED <<scanFlag, scanPending, toLeader, log>>
           \/ /\ f.op # "Scan" /\ ~isDuplicateControlFrame(f)
              /\ QueueFull
              /\ SendAck(f, "Rejected")
              /\ log' = Append(log, [frame |-> f, status |-> "Rejected", ran |-> FALSE])
              /\ UNCHANGED <<queue, scanFlag, scanPending>>
        /\ UNCHANGED <<leaderVars, loopVars, lastProcessed, scanTaken, lastScan,
                       ackVars>>

-----------------------------------------------------------------------------
(* Follower: the loop task, one tick after the other.                      *)

Ran(f, status) == [frame |-> f, status |-> status, ran |-> TRUE]

Step(from, to) == pc = from /\ pc' = to

\* consumeServoControl takes the command off the queue ...
Dequeue ==
    /\ \/ /\ queue # <<>>
          /\ Step("dequeue", "mark")
          /\ held' = [frame |-> Head(queue), status |-> "None"]
          /\ queue' = Tail(queue)
          /\ UNCHANGED scanTaken
       \/ /\ queue = <<>>
          /\ Step("dequeue", "scanClear")
          /\ scanTaken' = scanFlag
          /\ UNCHANGED <<held, queue>>
    /\ UNCHANGED <<leaderVars, toFollower, toLeader, manual, published,
                   lastProcessed, scanFlag, scanPending, lastScan, ackVars, log>>

\* ... and only then records it as the last one processed.
MarkProcessed ==
    /\ Step("mark", "execute")
    /\ lastProcessed' = held.frame
    /\ UNCHANGED <<leaderVars, toFollower, toLeader, held, manual, published, queue,
                   scanVars, ackVars, log>>

\* The answers the handler of an opcode may give in the present mode.
Outcomes(op) ==
    IF op \in Infallible THEN {"Applied"}
    ELSE IF op \in Guarded /\ ~manual THEN {"Rejected"}
    ELSE IF op = "CalibrationCapture" THEN {"Applied", "Failed", "Rejected"}
    ELSE {"Applied", "Failed"}

\* executeServoControl, up to the first two stores of updateLastCommandAck.
Execute(status) ==
    /\ status \in Outcomes(held.frame.op)
    /\ Step("execute", "status")
    /\ manual' = IF held.frame.op = "DebugEnable" THEN TRUE
                 ELSE IF held.frame.op = "DebugDisable" THEN FALSE ELSE manual
    /\ held' = [held EXCEPT !.status = status]
    /\ lastAck' = [lastAck EXCEPT !.frame = held.frame]
    /\ log' = Append(log, Ran(held.frame, status))
    /\ UNCHANGED <<leaderVars, toFollower, toLeader, published, queue,
                   lastProcessed, scanVars, forceTx, staged>>

\* The rest of updateLastCommandAck and requestImmediatePresenceTx.
Acknowledge ==
    /\ Step("status", "scanClear")
    /\ scanTaken' = scanFlag
    /\ lastAck' = [lastAck EXCEPT !.status = held.status]
    /\ SendAck(held.frame, held.status)
    /\ forceTx' = TRUE
    /\ held' = Nothing
    /\ UNCHANGED <<leaderVars, toFollower, manual, published, queue, lastProcessed,
                   scanFlag, scanPending, lastScan, staged, log>>

\* The rest of consumeServoScanRequested: the flag was read at the end of the
\* step before; now the pending request is copied and the flag is cleared,
\* whatever was read.
ClearScanFlag ==
    /\ Step("scanClear", IF scanTaken THEN "scan" ELSE "publish")
    /\ held' = IF scanTaken THEN [frame |-> scanPending, status |-> "Applied"] ELSE held
    /\ scanFlag' = FALSE
    /\ scanTaken' = FALSE
    /\ UNCHANGED <<leaderVars, toFollower, toLeader, manual, published, queue,
                   lastProcessed, scanPending, lastScan, ackVars, log>>

ScanBus ==
    /\ Step("scan", "scanStatus")
    /\ lastAck' = [lastAck EXCEPT !.frame = held.frame]
    /\ log' = Append(log, Ran(held.frame, "Applied"))
    /\ UNCHANGED <<leaderVars, toFollower, toLeader, held, manual, published, queue,
                   lastProcessed, scanVars, forceTx, staged>>

AcknowledgeScan ==
    /\ Step("scanStatus", "publish")
    /\ lastAck' = [lastAck EXCEPT !.status = "Applied"]
    /\ lastScan' = held.frame
    /\ SendAck(held.frame, "Applied")
    /\ forceTx' = TRUE
    /\ held' = Nothing
    /\ UNCHANGED <<leaderVars, toFollower, manual, published, queue, lastProcessed,
                   scanFlag, scanPending, scanTaken, staged, log>>

\* The end of a tick and the start of the next.  publishServoTelemetry runs
\* unless the bus is paused for teleoperation, and may ask for a full presence
\* frame; FollowerPresenceService::tick (a leader paired, no Wi-Fi session)
\* then sends what is due.  Only the heartbeat path clears the staged answer.
PublishAndTick(paused, nudge, presenceDue, heartbeatDue) ==
    LET full == forceTx \/ (nudge /\ ~paused) \/ presenceDue
        compact == staged \/ (~full /\ heartbeatDue)
    IN  /\ Step("publish", "dequeue")
        /\ published' = IF paused THEN published ELSE manual
        /\ forceTx' = FALSE
        /\ IF full \/ compact
             THEN /\ staged' = (staged /\ full)
                  /\ toLeader' = Burst(toLeader, UpCapacity, 1,
                        [kind |-> IF full THEN "flagged" ELSE "heartbeat",
                         frame |-> lastAck.frame, status |-> lastAck.status,
                         manual |-> published'])
             ELSE UNCHANGED <<staged, toLeader>>
        /\ UNCHANGED <<leaderVars, toFollower, held, manual, queue, lastProcessed,
                       scanVars, lastAck, log>>

\* stageTeleopBatchAck, called by the apply task for a mirror batch.
StageBatchAck ==
    /\ MirrorTraffic /\ LoopUndisturbed
    /\ lastAck' = [frame |-> BatchFrame, status |-> "Applied"]
    /\ staged' = TRUE
    /\ UNCHANGED <<leaderVars, toFollower, toLeader, loopVars, queue, lastProcessed,
                   scanVars, forceTx, log>>

-----------------------------------------------------------------------------
Leader ==
    \/ \E op \in TrackedOps, sent \in BOOLEAN : Issue(op, sent)
    \/ \E op \in UntrackedOps, sent \in BOOLEAN : IssueUntracked(op, sent)
    \/ LeaderTick
    \/ LeaderRestart \/ DashboardRestart

LeaderCallback == StoreStatus \/ StoreRequest
FollowerCallback == handleServoControlFrame

FollowerLoop ==
    \/ Dequeue \/ MarkProcessed \/ Acknowledge
    \/ \E status \in Answer : Execute(status)
    \/ ClearScanFlag \/ ScanBus \/ AcknowledgeScan
    \/ \E paused, nudge, presenceDue, heartbeatDue \in BOOLEAN :
          PublishAndTick(paused, nudge, presenceDue, heartbeatDue)

Next ==
    \/ Leader \/ LeaderCallback \/ LoseToFollower \/ LoseToLeader
    \/ FollowerCallback \/ FollowerLoop \/ StageBatchAck

Spec == Init /\ [][Next]_vars

\* The follower's loop and both callbacks keep running; mirroring ends, after
\* which telemetry is published and full presence frames are sent again (at
\* least every kIdleFullPresenceIntervalMs); and the radio never falls silent: of the
\* frames with a debug flag some always reach the leader.
FullPresence ==
    Len(toLeader) < UpCapacity /\ PublishAndTick(FALSE, TRUE, FALSE, FALSE)
DeliverFlagged ==
    toLeader # <<>> /\ Head(toLeader).kind = "flagged" /\ StoreStatus

FairSpec ==
    /\ Spec
    /\ WF_vars(FollowerLoop) /\ WF_vars(FollowerCallback) /\ WF_vars(StoreRequest)
    /\ WF_vars(StoreStatus) /\ SF_vars(FullPresence)
    /\ []<><<DeliverFlagged>>_vars

-----------------------------------------------------------------------------
(* Properties.                                                             *)

\* Every variable keeps its type, and the queue and the radio their bounds.
TypeOK ==
    /\ nextId \in 1..(MaxId + 1)
    /\ tracker \in [pending : BOOLEAN, frame : Frame \cup {NoFrame},
                    status : CommandAckStatus, retry : BOOLEAN, left : 0..MaxRetries]
    /\ seen \in [frame : AckedFrame, status : CommandAckStatus]
    /\ seenManual \in BOOLEAN
    /\ rx \in Message \cup {NoMessage}
    /\ restarts \in 0..MaxRestarts
    /\ toFollower \in Seq(Frame) /\ Len(toFollower) <= DownCapacity
    /\ toLeader \in Seq(Message) /\ Len(toLeader) <= UpCapacity
    /\ pc \in {"dequeue", "mark", "execute", "status", "scanClear",
               "scan", "scanStatus", "publish"}
    /\ queue \in Seq(Frame) /\ Len(queue) <= QueueCapacity
    /\ held \in [frame : Frame \cup {NoFrame}, status : {"None"} \cup Answer]
    /\ lastProcessed \in Frame \cup {NoFrame}
    /\ scanFlag \in BOOLEAN /\ scanTaken \in BOOLEAN
    /\ scanPending \in Frame \cup {NoFrame} /\ lastScan \in Frame \cup {NoFrame}
    /\ lastAck \in [frame : AckedFrame, status : CommandAckStatus]
    /\ forceTx \in BOOLEAN /\ staged \in BOOLEAN
    /\ manual \in BOOLEAN /\ published \in BOOLEAN
    /\ log \in Seq([frame : Frame, status : Answer, ran : BOOLEAN])

\* Whatever is lost, repeated or torn between the cores, the leader reports a
\* request Applied only when the follower dealt with that very request: an
\* acknowledgement meant for another one is never taken for it.
AppliedWasHandled ==
    tracker.status = "Applied" =>
        \E k \in DOMAIN log : log[k].frame = tracker.frame

\* When the cores do not tear each other's updates, Applied means that the
\* handler of that request returned Applied, not merely that it ran.
AppliedWasApplied ==
    tracker.status = "Applied" =>
        \E k \in DOMAIN log : log[k].frame = tracker.frame /\ log[k].status = "Applied"

QueuedRun(k) == log[k].ran /\ log[k].frame.op # "Scan"

\* Of the commands that pass through the queue, none runs twice in a row: the
\* copies of a burst and of the resends collapse into one execution.
NoImmediateRepeat ==
    \A j, k \in DOMAIN log :
        ( /\ j < k /\ QueuedRun(j) /\ QueuedRun(k)
          /\ \A i \in (j + 1)..(k - 1) : ~QueuedRun(i) )
        => log[j].frame # log[k].frame

\* Once a tracked request has run, no older request runs any more: a late
\* resend cannot undo it.  (An untracked one gives no such guarantee.)
TrackedNotOvertaken ==
    \A j, k \in DOMAIN log :
        ( /\ j < k /\ QueuedRun(j) /\ QueuedRun(k)
          /\ log[j].frame.op \notin UntrackedOps )
        => log[j].frame.id <= log[k].frame.id

\* Under fair delivery the leader's belief about the follower's debug-manual
\* mode, which decides whether moves are sent at all, settles on the truth
\* although acknowledgements carry the value of the last telemetry publication.
ViewConverges == <>[](seenManual = manual)

\* The tracker and the follower's outcomes implement the abstract service.
Service == INSTANCE CommandService WITH
    request <- [frame |-> tracker.frame, status |-> tracker.status],
    outcomes <- {[frame |-> log[k].frame, status |-> log[k].status] : k \in DOMAIN log}

\* A request the tracker reports as answered was answered so by the follower,
\* and each request goes through the abstract service's states only.
ImplementsService == Service!Spec

=============================================================================
