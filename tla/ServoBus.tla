------------------------------- MODULE ServoBus -------------------------------
(***************************************************************************)
(* The servo bus of a board and the tasks that share it: the main loop     *)
(* with its commands, and a task that reads or moves the servos all the    *)
(* time (the leader's telemetry task, the follower's apply task).  Each    *)
(* operation of ServoBusService takes the lock, gives up when that takes   *)
(* too long, and has the bus to itself while it holds it.  The text of the *)
(* known ids is read before the lock is taken, and while another task      *)
(* writes it the ids read are a mixture.                                   *)
(*                                                                         *)
(* The servos are external: they hear a request unless a fault makes them  *)
(* deaf for an operation, keep what is written to their EPROM only while   *)
(* it is unlocked, and the answer to a request they heard may be lost.     *)
(* Left out: the telemetry text and the loads, which no operation uses;    *)
(* ping, setTorqueEnabled and moveTo, which do to one servo what torqueOff *)
(* and moveBatch do; the position limits, written with the mode; the       *)
(* temperatures.                                                           *)
(***************************************************************************)
EXTENDS Integers, FiniteSets, Sequences

CONSTANTS
    Servos,        \* each named by the id it has at first
    ServoIds,      \* ids in use or asked for
    BusSessions,   \* bound: the operations the main loop makes in one session
    TaskOps,       \* the operations of the other task
    MaxBusFaults   \* bound: operations in which servos are deaf

BusOps == {"scan", "refresh", "moveBatch", "torqueOff", "setServoId", "positionMode",
           "wheelMode", "calibrate"}
BusTasks == {"loop", "task"}

ASSUME BusAssumption ==
    /\ ServoIds \subseteq Nat /\ IsFiniteSet(ServoIds) /\ Servos \subseteq ServoIds
    /\ BusSessions \subseteq SUBSET BusOps /\ TaskOps \subseteq BusOps
    /\ MaxBusFaults \in Nat

VARIABLES
    servo,        \* external: the registers of each servo
    lastIds,      \* lastIdsText_
    lastScanCount,
    busHolder,    \* who holds the lock
    busJob,       \* what each task is at
    busSession,   \* what the main loop is asked for
    busFaultCount

busVars == <<servo, lastIds, lastScanCount, busHolder, busJob, busSession, busFaultCount>>

Nobody == "nobody"
NoJob == [op |-> "none", stage |-> "idle", ids |-> {}, id |-> 0, to |-> 0, ok |-> FALSE]
Waiting == {"find", "do", "move", "verify"}

Answering(ids, deaf) == {servo[v].id : v \in Servos \ deaf} \cap ids

\* The servos, of which those that hear a request to ids take the new values.
Written(ids, deaf, new) ==
    [v \in Servos |->
        IF servo[v].id \in ids /\ v \notin deaf
        THEN [r \in DOMAIN servo[v] |-> IF r \in DOMAIN new THEN new[r] ELSE servo[v][r]]
        ELSE servo[v]]

BusFault == busFaultCount < MaxBusFaults /\ busFaultCount' = busFaultCount + 1

Deaf(deaf) == deaf \subseteq Servos /\ IF deaf = {} THEN UNCHANGED busFaultCount ELSE BusFault

(***************************************************************************)
(* An operation begins, takes the lock or gives up.                        *)
(***************************************************************************)
\* parseKnownIds, of a text that may be overwritten meanwhile
ParsedIds(t) ==
    IF \E u \in BusTasks \ {t} : busHolder = u /\ (busJob[u].op = "scan" \/ busJob[u].stage = "find")
    THEN SUBSET (lastIds \cup Answering(ServoIds, {}))
    ELSE {lastIds}

\* Without known ids, reading them becomes a scan.
BusBegin(t, op, ids, id, to) ==
    /\ busJob[t].stage = "idle"
    /\ busJob' = [busJob EXCEPT ![t] =
            [NoJob EXCEPT !.op = IF op = "refresh" /\ ids = {} THEN "scan" ELSE op,
                          !.stage = IF op = "calibrate" /\ ids = {} THEN "find" ELSE "do",
                          !.ids = ids, !.id = id, !.to = to]]
    /\ UNCHANGED <<servo, lastIds, lastScanCount, busHolder, busSession, busFaultCount>>

BusBegins(t, op) ==
    CASE op = "setServoId" -> \E id, to \in ServoIds : BusBegin(t, op, {}, id, to)
      [] op \in {"positionMode", "wheelMode"} -> \E id \in ServoIds : BusBegin(t, op, {}, id, id)
      [] op \in {"scan", "torqueOff"} -> BusBegin(t, op, {}, 0, 0)
      [] OTHER -> \E ids \in ParsedIds(t) : BusBegin(t, op, ids, 0, 0)

BusTake(t) ==
    /\ busJob[t].stage \in Waiting /\ busHolder = Nobody
    /\ busHolder' = t
    /\ UNCHANGED <<servo, lastIds, lastScanCount, busJob, busSession, busFaultCount>>

Ended(t, ok) == busJob' = [busJob EXCEPT ![t] = [NoJob EXCEPT !.ok = ok]]

\* Another task has the lock for too long.  A calibration that cannot scan
\* looks whether the other one found servos; one that cannot look at its result
\* counts as done.
BusBusy(t) ==
    /\ busJob[t].stage \in Waiting /\ busHolder \notin {Nobody, t}
    /\ IF busJob[t].stage = "find"
       THEN \E ids \in ParsedIds(t) :
                IF ids = {} THEN Ended(t, FALSE)
                ELSE busJob' = [busJob EXCEPT ![t].stage = "do", ![t].ids = ids]
       ELSE Ended(t, busJob[t].stage = "verify")
    /\ UNCHANGED <<servo, lastIds, lastScanCount, busHolder, busSession, busFaultCount>>

(***************************************************************************)
(* What is done with the lock, and the lock given back.                    *)
(***************************************************************************)
\* Mutant: the last section of a calibration does not give the lock back.
BusKeeps(t, op, stage) ==
    /\ busHolder = t /\ busHolder' = IF stage = "verify" THEN t ELSE Nobody
    /\ busJob[t].op = op /\ busJob[t].stage = stage
    /\ UNCHANGED busSession

BusDoes(t, op, stage) ==
    /\ busHolder = t /\ busHolder' = Nobody
    /\ busJob[t].op = op /\ busJob[t].stage = stage
    /\ UNCHANGED busSession

Scanned(deaf) ==
    /\ lastIds' = Answering(ServoIds, deaf)
    /\ lastScanCount' = Cardinality(lastIds')
    /\ UNCHANGED servo

scan(t) ==
    /\ BusDoes(t, "scan", "do")
    /\ \E deaf \in SUBSET Servos : Deaf(deaf) /\ Scanned(deaf)
    /\ Ended(t, TRUE)

\* Mutant: the count is only ever raised.
CountRises(ids, answered) ==
    IF answered # {} /\ Cardinality(answered) >= Cardinality(ids)
            /\ Cardinality(answered) > lastScanCount
    THEN Cardinality(answered) ELSE lastScanCount

\* The count follows when all ids that were parsed answer.
RefreshedCount(ids, answered) ==
    IF answered # {} /\ Cardinality(answered) >= Cardinality(ids)
    THEN Cardinality(answered) ELSE lastScanCount

refreshKnownTelemetrySync(t) ==
    /\ BusDoes(t, "refresh", "do")
    /\ \E deaf \in SUBSET Servos :
        /\ Deaf(deaf)
        /\ lastScanCount' = RefreshedCount(busJob[t].ids, Answering(busJob[t].ids, deaf))
    /\ Ended(t, TRUE)
    /\ UNCHANGED <<servo, lastIds>>

\* Whether the servos heard of it is not asked.
moveBatch(t) ==
    /\ BusDoes(t, "moveBatch", "do")
    /\ \E deaf \in SUBSET Servos :
        /\ Deaf(deaf)
        /\ servo' = Written(busJob[t].ids, deaf, [torque |-> TRUE, centered |-> FALSE])
    /\ Ended(t, TRUE)
    /\ UNCHANGED <<lastIds, lastScanCount>>

\* setTorqueEnabledForDetectedServos(false): a servo that does not answer the
\* ping is passed over.
torqueOff(t) ==
    /\ BusDoes(t, "torqueOff", "do")
    /\ \E deaf \in SUBSET Servos :
        /\ Deaf(deaf)
        /\ servo' = Written(ServoIds, deaf, [torque |-> FALSE])
        /\ Ended(t, deaf # Servos)
    /\ UNCHANGED <<lastIds, lastScanCount>>

Locked(s, id) == [v \in Servos |-> IF s[v].id = id THEN [s[v] EXCEPT !.open = FALSE] ELSE s[v]]

Unlocked(s, id) == [v \in Servos |-> IF s[v].id = id THEN [s[v] EXCEPT !.open = TRUE] ELSE s[v]]

Renamed(s, id, to) ==
    [v \in Servos |-> IF s[v].id = id /\ s[v].open THEN [s[v] EXCEPT !.id = to] ELSE s[v]]

WithMode(s, id, mode) ==
    [v \in Servos |-> IF s[v].id = id /\ s[v].open THEN [s[v] EXCEPT !.mode = mode] ELSE s[v]]

\* Mutant: the last request need not be answered.
RequestsUnanswered(t, states, others) ==
    /\ Answering({busJob[t].id}, {}) # {}
    /\ \/ UNCHANGED busFaultCount /\ servo' = states[Len(states)]
       \/ BusFault /\ servo' = states[Len(states) - 1]
    /\ Ended(t, TRUE)
    /\ UNCHANGED <<lastIds, lastScanCount>>

\* Requests one after the other, each of which must be answered.  At a fault the
\* operation ends after some of them, the last of which may have been heard.
Requests(t, states, others) ==
    /\ IF Answering({busJob[t].id}, {}) = {}
       THEN UNCHANGED <<servo, busFaultCount>> /\ Ended(t, FALSE)
       ELSE \/ servo' = states[Len(states)] /\ Ended(t, TRUE) /\ UNCHANGED busFaultCount
            \/ BusFault /\ Ended(t, FALSE) /\ \E k \in DOMAIN states : servo' = states[k]
            \/ BusFault /\ Ended(t, FALSE) /\ servo' \in others
    /\ UNCHANGED <<lastIds, lastScanCount>>

\* No one asks whether the new id is taken; the pings that follow the lock
\* change nothing.
setServoId(t) ==
    LET id == busJob[t].id
        to == busJob[t].to
        open == Unlocked(servo, id)
    IN  /\ BusDoes(t, "setServoId", "do")
        /\ Requests(t, <<servo, open, Renamed(open, id, to), Locked(Renamed(open, id, to), to)>>, {})

\* setServoMode
positionMode(t) ==
    LET id == busJob[t].id
        open == Unlocked(servo, id)
        set == WithMode(open, id, "position")
    IN  BusDoes(t, "positionMode", "do") /\ Requests(t, <<servo, open, set, Locked(set, id)>>, {})

\* The EPROM is locked even if the mode was not set.
wheelMode(t) ==
    LET id == busJob[t].id
        open == Unlocked(servo, id)
        set == WithMode(open, id, "wheel")
    IN  /\ BusDoes(t, "wheelMode", "do")
        /\ Requests(t, <<servo, open, set, Locked(set, id)>>, {Locked(open, id)})

(***************************************************************************)
(* calibrateOffsetsForDetectedServos takes the lock up to four times.      *)
(***************************************************************************)
GoesOn(t, stage) == busJob' = [busJob EXCEPT ![t].stage = stage]

calibrateFind(t) ==
    /\ BusDoes(t, "calibrate", "find")
    /\ \E deaf \in SUBSET Servos : Deaf(deaf) /\ Scanned(deaf)
    /\ IF lastIds' = {} THEN Ended(t, FALSE)
       ELSE busJob' = [busJob EXCEPT ![t].stage = "do", ![t].ids = lastIds']

\* Each servo takes where it stands as its center; one that does is enough.
calibrateOffsets(t) ==
    /\ BusDoes(t, "calibrate", "do")
    /\ \E deaf \in SUBSET Servos :
        /\ Deaf(deaf)
        /\ servo' = Written(busJob[t].ids, deaf, [centered |-> TRUE])
        /\ IF Answering(busJob[t].ids, deaf) = {} THEN Ended(t, FALSE) ELSE GoesOn(t, "move")
    /\ UNCHANGED <<lastIds, lastScanCount>>

calibrateMove(t) ==
    /\ BusDoes(t, "calibrate", "move")
    /\ \E deaf \in SUBSET Servos :
        /\ Deaf(deaf)
        /\ servo' = Written(busJob[t].ids, deaf, [torque |-> TRUE, centered |-> TRUE])
    /\ GoesOn(t, "verify")
    /\ UNCHANGED <<lastIds, lastScanCount>>

EnoughCentered(n, count) == n = count \/ n >= count \div 2 + 1

calibrateVerify(t) ==
    /\ BusDoes(t, "calibrate", "verify")
    /\ \E deaf \in SUBSET Servos :
        LET near == {servo[v].id : v \in {v \in Servos \ deaf : servo[v].centered}} \cap busJob[t].ids
        IN  /\ Deaf(deaf)
            /\ Ended(t, EnoughCentered(Cardinality(near), Cardinality(busJob[t].ids)))
    /\ UNCHANGED <<servo, lastIds, lastScanCount>>
------------------------------------------------------------------------------
FactoryServo(v) == [id |-> v, torque |-> FALSE, mode |-> "position", open |-> FALSE,
                    centered |-> FALSE]

BusInit ==
    /\ servo = [v \in Servos |-> FactoryServo(v)]
    /\ lastIds = {} /\ lastScanCount = 0
    /\ busHolder = Nobody
    /\ busJob = [t \in BusTasks |-> NoJob]
    /\ busSession \in BusSessions
    /\ busFaultCount = 0

BusWork(t) ==
    \/ scan(t) \/ refreshKnownTelemetrySync(t)
    \/ moveBatch(t) \/ torqueOff(t)
    \/ setServoId(t) \/ positionMode(t) \/ wheelMode(t)
    \/ calibrateFind(t) \/ calibrateOffsets(t) \/ calibrateMove(t) \/ calibrateVerify(t)

LoopBegins == \E op \in busSession : BusBegins("loop", op)
TaskBegins == \E op \in TaskOps : BusBegins("task", op)

BusNext ==
    \/ LoopBegins \/ TaskBegins
    \/ \E t \in BusTasks : BusTake(t) \/ BusBusy(t) \/ BusWork(t)

\* The other task never stops; what was begun goes on.
BusFairness ==
    /\ WF_busVars(TaskBegins)
    /\ \A t \in BusTasks :
        WF_busVars(BusTake(t) \/ BusBusy(t)) /\ WF_busVars(BusWork(t))

BusSpec == BusInit /\ [][BusNext]_busVars /\ BusFairness
------------------------------------------------------------------------------
ServoRecords == [id : ServoIds, torque : BOOLEAN, mode : {"position", "wheel"}, open : BOOLEAN,
                 centered : BOOLEAN]
BusJobs == [op : BusOps \cup {"none"}, stage : Waiting \cup {"idle"},
            ids : SUBSET ServoIds, id : ServoIds \cup {0}, to : ServoIds \cup {0}, ok : BOOLEAN]

\* Every variable keeps its type, and who holds the lock is at work: no return
\* of an operation keeps it.
BusTypeOK ==
    /\ servo \in [Servos -> ServoRecords]
    /\ lastIds \subseteq ServoIds /\ lastScanCount \in 0..Cardinality(Servos)
    /\ busJob \in [BusTasks -> BusJobs]
    /\ busHolder = Nobody \/ (busHolder \in BusTasks /\ busJob[busHolder].stage \in Waiting)
    /\ busSession \in BusSessions
    /\ busFaultCount \in 0..MaxBusFaults

Reports(t, op) ==
    busHolder = t /\ busJob[t].op = op /\ busJob'[t].stage = "idle" /\ busJob'[t].ok

\* The state of the servos that have an id after a step.
HasId(id) == {servo'[v] : v \in {v \in Servos : servo'[v].id = id}}

IdReported(t) ==
    Reports(t, "setServoId") =>
        /\ HasId(busJob[t].to) # {}
        /\ busJob[t].id # busJob[t].to => HasId(busJob[t].id) = {}
        /\ \A r \in HasId(busJob[t].to) : ~r.open

ModeReported(t, op) ==
    Reports(t, op) =>
        /\ HasId(busJob[t].id) # {}
        /\ \A r \in HasId(busJob[t].id) : ~r.open /\ (r.mode = "wheel" <=> op = "wheelMode")

\* What an operation reports as done is done, whatever the other task did and
\* whatever earlier ones that failed have left: the servo has its new id or
\* mode, its old id is free and its EPROM closed.
ReportedDone ==
    [][\A t \in BusTasks :
        IdReported(t) /\ ModeReported(t, "positionMode") /\ ModeReported(t, "wheelMode")]_busVars

\* Once the main loop leaves the bus alone and no servo is deaf any more, the
\* count shown becomes that of the known servos, though it was read from a text
\* half written or before an id was changed.
CountHeals ==
    <>[](busJob["loop"].stage = "idle" /\ lastIds # {} /\ lastIds \subseteq Answering(ServoIds, {}))
        => <>[](lastScanCount = Cardinality(lastIds))
=============================================================================
