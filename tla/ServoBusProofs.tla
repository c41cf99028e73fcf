---------------------------- MODULE ServoBusProofs ----------------------------
(***************************************************************************)
(* The type invariant of the servo bus, and that what an operation reports *)
(* as done is done.                                                        *)
(***************************************************************************)
EXTENDS ServoBus, FiniteSetTheorems, TLAPS

Flags == {"torque", "open", "centered"}

(***************************************************************************)
(* What a request leaves of the servos.                                    *)
(***************************************************************************)
AllServos == [Servos -> ServoRecords]

LEMMA LockedTyped ==
    ASSUME NEW s \in AllServos, NEW id
    PROVE  /\ Locked(s, id) \in AllServos
           /\ Unlocked(s, id) \in AllServos
BY DEF Locked, Unlocked, AllServos, ServoRecords

LEMMA RenamedTyped ==
    ASSUME NEW s \in AllServos, NEW id, NEW to \in ServoIds
    PROVE  Renamed(s, id, to) \in AllServos
BY DEF Renamed, AllServos, ServoRecords

LEMMA WithModeTyped ==
    ASSUME NEW s \in AllServos, NEW id, NEW mode \in {"position", "wheel"}
    PROVE  WithMode(s, id, mode) \in AllServos
BY DEF WithMode, AllServos, ServoRecords

\* What servos write to registers that hold a flag.
LEMMA WrittenTyped ==
    ASSUME servo \in AllServos, NEW ids, NEW deaf, NEW new,
           DOMAIN new \subseteq Flags, \A r \in DOMAIN new : new[r] \in BOOLEAN
    PROVE  Written(ids, deaf, new) \in AllServos
<1> SUFFICES ASSUME NEW v \in Servos
             PROVE  Written(ids, deaf, new)[v] \in ServoRecords
  BY DEF Written, AllServos
<1> DEFINE s == servo[v]
           w == [r \in DOMAIN s |-> IF r \in DOMAIN new THEN new[r] ELSE s[r]]
<1>1. s \in ServoRecords /\ DOMAIN s = {"id", "torque", "mode", "open", "centered"}
  BY DEF AllServos, ServoRecords
<1>2. w \in ServoRecords
  <2>1. /\ w.id = s.id /\ w.mode = s.mode
        /\ w.torque \in BOOLEAN /\ w.open \in BOOLEAN /\ w.centered \in BOOLEAN
    BY <1>1 DEF ServoRecords, Flags
  <2>2. w = [id |-> w.id, torque |-> w.torque, mode |-> w.mode, open |-> w.open,
             centered |-> w.centered]
    BY <1>1
  <2> QED
    BY <1>1, <2>1, <2>2 DEF ServoRecords
<1> QED
  BY <1>1, <1>2 DEF Written

LEMMA FlagsWritten ==
    ASSUME servo \in AllServos, NEW ids, NEW deaf, NEW b \in BOOLEAN
    PROVE  /\ Written(ids, deaf, [torque |-> FALSE]) \in AllServos
           /\ Written(ids, deaf, [centered |-> TRUE]) \in AllServos
           /\ Written(ids, deaf, [torque |-> TRUE, centered |-> b]) \in AllServos
<1>1. Written(ids, deaf, [torque |-> FALSE]) \in AllServos
  <2> DEFINE new == [torque |-> FALSE]
  <2>a. DOMAIN new = {"torque"} /\ new["torque"] = FALSE
    OBVIOUS
  <2> HIDE DEF new
  <2>1. DOMAIN new \subseteq Flags /\ \A r \in DOMAIN new : new[r] \in BOOLEAN
    BY <2>a DEF Flags
  <2> HIDE DEF new
  <2>2. Written(ids, deaf, new) \in AllServos
    BY <2>1, WrittenTyped
  <2> QED
    BY <2>2 DEF new
<1>2. Written(ids, deaf, [centered |-> TRUE]) \in AllServos
  <2> DEFINE new == [centered |-> TRUE]
  <2>a. DOMAIN new = {"centered"} /\ new["centered"] = TRUE
    OBVIOUS
  <2> HIDE DEF new
  <2>1. DOMAIN new \subseteq Flags /\ \A r \in DOMAIN new : new[r] \in BOOLEAN
    BY <2>a DEF Flags
  <2> HIDE DEF new
  <2>2. Written(ids, deaf, new) \in AllServos
    BY <2>1, WrittenTyped
  <2> QED
    BY <2>2 DEF new
<1>3. Written(ids, deaf, [torque |-> TRUE, centered |-> b]) \in AllServos
  <2> DEFINE new == [torque |-> TRUE, centered |-> b]
  <2>a. DOMAIN new = {"torque", "centered"} /\ new["torque"] = TRUE /\ new["centered"] = b
    OBVIOUS
  <2> HIDE DEF new
  <2>1. DOMAIN new \subseteq Flags /\ \A r \in DOMAIN new : new[r] \in BOOLEAN
    BY <2>a DEF Flags
  <2> HIDE DEF new
  <2>2. Written(ids, deaf, new) \in AllServos
    BY <2>1, WrittenTyped
  <2> QED
    BY <2>2 DEF new
<1> QED
  BY <1>1, <1>2, <1>3

(***************************************************************************)
(* How many servos answer.                                                 *)
(***************************************************************************)
LEMMA ServosFinite == IsFiniteSet(Servos) /\ Cardinality(Servos) \in Nat
BY BusAssumption, FS_Subset, FS_CardinalityType

LEMMA AnsweringBounded ==
    ASSUME NEW ids, NEW deaf
    PROVE  Cardinality(Answering(ids, deaf)) \in 0..Cardinality(Servos)
<1> DEFINE S == {v \in Servos : v \notin deaf /\ servo[v].id \in ids}
           T == Answering(ids, deaf)
           f == [v \in S |-> servo[v].id]
<1>1. IsFiniteSet(S) /\ Cardinality(S) <= Cardinality(Servos)
  BY ServosFinite, FS_Subset
<1>2. f \in Surjection(S, T)
  BY DEF Surjection, Answering
<1>3. IsFiniteSet(T) /\ Cardinality(T) <= Cardinality(S)
  BY <1>1, <1>2, FS_Surjection
<1>4. Cardinality(S) \in Nat /\ Cardinality(T) \in Nat
  BY <1>1, <1>3, FS_CardinalityType
<1> QED
  BY <1>1, <1>3, <1>4, ServosFinite

(***************************************************************************)
(* The type invariant, part by part.                                       *)
(***************************************************************************)
BusRests ==
    /\ busSession \in BusSessions
    /\ busFaultCount \in 0..MaxBusFaults
Known == lastIds \subseteq ServoIds /\ lastScanCount \in 0..Cardinality(Servos)
\* Who sets an id names one to take.
Jobs == {j \in BusJobs : j.op = "setServoId" => j.to \in ServoIds}
AllJobs == [BusTasks -> Jobs]
HolderWorks == busHolder = Nobody \/ (busHolder \in BusTasks /\ busJob[busHolder].stage \in Waiting)

IInv == servo \in AllServos /\ Known /\ busJob \in AllJobs /\ HolderWorks /\ BusRests

LEMMA TypeFollows == IInv => BusTypeOK
BY DEF BusTypeOK, IInv, AllServos, Known, AllJobs, Jobs, HolderWorks, BusRests

LEMMA InitialState == BusInit => IInv
<1> SUFFICES ASSUME BusInit PROVE IInv
  OBVIOUS
<1>1. servo \in AllServos
  BY BusAssumption DEF BusInit, AllServos, ServoRecords, FactoryServo
<1>2. Known
  BY ServosFinite DEF BusInit, Known
<1>3. busJob \in AllJobs
  BY DEF BusInit, AllJobs, Jobs, BusJobs, NoJob, BusOps, Waiting
<1> QED
  BY <1>1, <1>2, <1>3, BusAssumption DEF IInv, BusInit, HolderWorks, BusRests

LEMMA FaultCounted ==
    ASSUME BusRests, NEW deaf, Deaf(deaf) \/ BusFault \/ UNCHANGED busFaultCount
    PROVE  busFaultCount' \in 0..MaxBusFaults
BY BusAssumption DEF BusRests, Deaf, BusFault

\* A task that ends gives a job that is none.
LEMMA EndedTyped ==
    ASSUME busJob \in AllJobs, NEW t \in BusTasks, NEW ok \in BOOLEAN, Ended(t, ok)
    PROVE  /\ busJob' \in AllJobs /\ busJob'[t].stage = "idle" /\ busJob'[t].ok = ok
           /\ \A u \in BusTasks \ {t} : busJob'[u] = busJob[u]
<1>1. [NoJob EXCEPT !.ok = ok] \in Jobs
  BY DEF NoJob, Jobs, BusJobs, BusOps, Waiting
<1>2. [NoJob EXCEPT !.ok = ok].stage = "idle" /\ [NoJob EXCEPT !.ok = ok].ok = ok
  BY DEF NoJob
<1> QED
  BY <1>1, <1>2 DEF Ended, AllJobs

LEMMA StageTyped ==
    ASSUME busJob \in AllJobs, NEW t \in BusTasks, NEW stage \in Waiting,
           NEW ids \in SUBSET ServoIds,
           \/ GoesOn(t, stage)
           \/ busJob' = [busJob EXCEPT ![t].stage = stage, ![t].ids = ids]
    PROVE  /\ busJob' \in AllJobs /\ busJob'[t].stage = stage
           /\ \A u \in BusTasks \ {t} : busJob'[u] = busJob[u]
<1>1. busJob[t] \in Jobs
  BY DEF AllJobs
<1>2. /\ [busJob[t] EXCEPT !.stage = stage] \in Jobs
      /\ [busJob[t] EXCEPT !.stage = stage, !.ids = ids] \in Jobs
  BY <1>1 DEF Jobs, BusJobs
<1> QED
  BY <1>1, <1>2 DEF GoesOn, AllJobs, Jobs, BusJobs

(***************************************************************************)
(* A task begins, takes the lock or gives up.                              *)
(***************************************************************************)
LEMMA ParsedTyped ==
    ASSUME IInv, NEW t \in BusTasks, NEW ids \in ParsedIds(t)
    PROVE  ids \in SUBSET ServoIds
BY DEF IInv, Known, AllServos, ServoRecords, ParsedIds, Answering

LEMMA BeginStep ==
    ASSUME IInv, NEW t \in BusTasks, NEW op \in BusOps,
           NEW ids \in SUBSET ServoIds, NEW id \in ServoIds \cup {0}, NEW to \in ServoIds \cup {0},
           op = "setServoId" => to \in ServoIds, BusBegin(t, op, ids, id, to)
    PROVE  IInv' /\ busHolder # t /\ \A u \in BusTasks \ {t} : busJob'[u] = busJob[u]
<1> DEFINE job == [NoJob EXCEPT !.op = IF op = "refresh" /\ ids = {} THEN "scan" ELSE op,
                                !.stage = IF op = "calibrate" /\ ids = {} THEN "find" ELSE "do",
                                !.ids = ids, !.id = id, !.to = to]
<1>1. job \in Jobs
  BY DEF NoJob, Jobs, BusJobs, BusOps, Waiting
<1>2. busJob' = [busJob EXCEPT ![t] = job] /\ busJob[t].stage = "idle"
  BY DEF BusBegin
<1> HIDE DEF job
<1>3. busJob' \in AllJobs /\ \A u \in BusTasks \ {t} : busJob'[u] = busJob[u]
  BY <1>1, <1>2 DEF IInv, AllJobs
<1>4. busHolder # t /\ HolderWorks'
  BY <1>2, <1>3 DEF IInv, HolderWorks, BusBegin, Waiting, Nobody, BusTasks
<1> QED
  BY <1>3, <1>4 DEF IInv, BusBegin, AllServos, Known, BusRests

LEMMA BeginsStep ==
    ASSUME IInv, NEW t \in BusTasks, NEW op \in BusOps, BusBegins(t, op)
    PROVE  IInv' /\ busHolder # t /\ \A u \in BusTasks \ {t} : busJob'[u] = busJob[u]
<1>1. CASE op = "setServoId"
  BY <1>1, BeginStep DEF BusBegins
<1>2. CASE op \in {"positionMode", "wheelMode"}
  BY <1>2, BeginStep DEF BusBegins
<1>3. CASE op \in {"scan", "torqueOff"}
  BY <1>3, BeginStep DEF BusBegins
<1>4. CASE op \in {"refresh", "moveBatch", "calibrate"}
  BY <1>4, BeginStep, ParsedTyped DEF BusBegins
<1> QED
  BY <1>1, <1>2, <1>3, <1>4 DEF BusOps

LEMMA TakeStep ==
    ASSUME IInv, NEW t \in BusTasks, BusTake(t)
    PROVE  IInv'
BY DEF IInv, BusTake, AllServos, Known, AllJobs, HolderWorks, BusRests

LEMMA BusyStep ==
    ASSUME IInv, NEW t \in BusTasks, BusBusy(t)
    PROVE  IInv' /\ busHolder # t /\ \A u \in BusTasks \ {t} : busJob'[u] = busJob[u]
<1>1. busJob \in AllJobs /\ busHolder \in BusTasks \ {t}
  BY DEF IInv, BusBusy, HolderWorks
<1>2. busJob' \in AllJobs /\ \A u \in BusTasks \ {t} : busJob'[u] = busJob[u]
  <2>1. CASE busJob[t].stage = "find"
    <3> PICK ids \in ParsedIds(t) :
            IF ids = {} THEN Ended(t, FALSE)
            ELSE busJob' = [busJob EXCEPT ![t].stage = "do", ![t].ids = ids]
      BY <2>1 DEF BusBusy
    <3>1. ids \in SUBSET ServoIds /\ "do" \in Waiting
      BY ParsedTyped DEF Waiting
    <3> QED
      BY <1>1, <3>1, EndedTyped, StageTyped
  <2>2. CASE busJob[t].stage # "find"
    BY <1>1, <2>2, EndedTyped DEF BusBusy
  <2> QED
    BY <2>1, <2>2
<1>3. HolderWorks'
  BY <1>1, <1>2 DEF IInv, BusBusy, HolderWorks
<1> QED
  BY <1>1, <1>2, <1>3 DEF IInv, BusBusy, AllServos, Known, BusRests

(***************************************************************************)
(* What is done with the lock.                                             *)
(***************************************************************************)
\* An operation leaves a typed state when what it writes and what it reports is
\* typed: it gives the lock back.
LEMMA GivesBack ==
    ASSUME IInv, NEW t \in BusTasks, busHolder' = Nobody, UNCHANGED busSession,
           servo' \in AllServos, Known', busJob' \in AllJobs, busFaultCount' \in 0..MaxBusFaults
    PROVE  IInv'
BY DEF IInv, HolderWorks, BusRests

LEMMA ScannedTyped ==
    ASSUME IInv, NEW deaf, Scanned(deaf)
    PROVE  servo' \in AllServos /\ Known'
<1>1. Cardinality(Answering(ServoIds, deaf)) \in 0..Cardinality(Servos)
  BY AnsweringBounded
<1>2. Answering(ServoIds, deaf) \subseteq ServoIds
  BY DEF Answering
<1> QED
  BY <1>1, <1>2 DEF IInv, Scanned, Known

LEMMA RequestsTyped ==
    ASSUME IInv, NEW t \in BusTasks,
           NEW s1 \in AllServos, NEW s2 \in AllServos, NEW s3 \in AllServos, NEW s4 \in AllServos,
           NEW others \in SUBSET AllServos, Requests(t, <<s1, s2, s3, s4>>, others)
    PROVE  /\ servo' \in AllServos /\ Known' /\ busJob' \in AllJobs
           /\ busFaultCount' \in 0..MaxBusFaults
           /\ busJob'[t].ok => servo' = s4 /\ Answering({busJob[t].id}, {}) # {}
<1> DEFINE states == <<s1, s2, s3, s4>>
<1>1. /\ Len(states) = 4 /\ states[4] = s4
      /\ \A k \in DOMAIN states : states[k] \in AllServos
  OBVIOUS
<1>2. busJob \in AllJobs /\ servo \in AllServos /\ Known /\ BusRests
  BY DEF IInv
<1>3. Known'
  BY <1>2 DEF Requests, Known
<1>4. busFaultCount' \in 0..MaxBusFaults
  BY <1>2, FaultCounted DEF Requests
<1> HIDE DEF states
<1>5. CASE Ended(t, FALSE) /\ servo' \in AllServos
  BY <1>2, <1>3, <1>4, <1>5, EndedTyped
<1>6. CASE /\ servo' = states[Len(states)] /\ Ended(t, TRUE)
           /\ Answering({busJob[t].id}, {}) # {}
  BY <1>1, <1>2, <1>3, <1>4, <1>6, EndedTyped
<1>7. Requests(t, states, others)
  BY DEF states
<1> QED
  BY <1>1, <1>2, <1>5, <1>6, <1>7 DEF Requests

\* The last of the states that the requests of an operation lead through.
NewId(t) ==
    Locked(Renamed(Unlocked(servo, busJob[t].id), busJob[t].id, busJob[t].to), busJob[t].to)
NewMode(t, mode) ==
    Locked(WithMode(Unlocked(servo, busJob[t].id), busJob[t].id, mode), busJob[t].id)

LEMMA IdStep ==
    ASSUME IInv, NEW t \in BusTasks, setServoId(t)
    PROVE  /\ IInv'
           /\ busJob'[t].ok => servo' = NewId(t) /\ Answering({busJob[t].id}, {}) # {}
<1> DEFINE id == busJob[t].id
           to == busJob[t].to
           open == Unlocked(servo, id)
           new == Renamed(open, id, to)
<1>1. servo \in AllServos /\ open \in AllServos /\ to \in ServoIds
  BY LockedTyped DEF IInv, AllJobs, Jobs, setServoId, BusDoes
<1>2. new \in AllServos /\ Locked(new, to) \in AllServos
  BY <1>1, LockedTyped, RenamedTyped
<1>3. Requests(t, <<servo, open, new, Locked(new, to)>>, {})
  BY DEF setServoId
<1>4. Locked(new, to) = NewId(t)
  BY DEF NewId
<1> DEFINE last == Locked(new, to)
           others == {}
<1>a. /\ last \in AllServos /\ others \in SUBSET AllServos
      /\ Requests(t, <<servo, open, new, last>>, others)
  BY <1>2, <1>3
<1> HIDE DEF open, new, last, others
<1>5. /\ servo' \in AllServos /\ Known' /\ busJob' \in AllJobs /\ busFaultCount' \in 0..MaxBusFaults
      /\ busJob'[t].ok => servo' = last /\ Answering({busJob[t].id}, {}) # {}
  BY <1>1, <1>2, <1>a, RequestsTyped
<1> QED
  BY <1>4, <1>5, GivesBack DEF last, setServoId, BusDoes

LEMMA ModeStep ==
    ASSUME IInv, NEW t \in BusTasks, NEW mode \in {"position", "wheel"},
           IF mode = "wheel" THEN wheelMode(t) ELSE positionMode(t)
    PROVE  /\ IInv'
           /\ busJob'[t].ok => servo' = NewMode(t, mode) /\ Answering({busJob[t].id}, {}) # {}
<1> DEFINE id == busJob[t].id
           open == Unlocked(servo, id)
           set == WithMode(open, id, mode)
           others == IF mode = "wheel" THEN {Locked(open, id)} ELSE {}
<1>1. servo \in AllServos /\ open \in AllServos
  BY LockedTyped DEF IInv
<1>2. set \in AllServos /\ Locked(set, id) \in AllServos /\ others \in SUBSET AllServos
  BY <1>1, LockedTyped, WithModeTyped
<1>3. Requests(t, <<servo, open, set, Locked(set, id)>>, others)
  BY DEF wheelMode, positionMode
<1>4. Locked(set, id) = NewMode(t, mode)
  BY DEF NewMode
<1>a. open \in AllServos /\ set \in AllServos /\ Locked(set, id) \in AllServos
      /\ others \in SUBSET AllServos
  BY <1>1, <1>2
<1> HIDE DEF open, set, others
<1>5. /\ servo' \in AllServos /\ Known' /\ busJob' \in AllJobs /\ busFaultCount' \in 0..MaxBusFaults
      /\ busJob'[t].ok => servo' = Locked(set, id) /\ Answering({busJob[t].id}, {}) # {}
  BY <1>1, <1>a, <1>3, RequestsTyped
<1> QED
  BY <1>4, <1>5, GivesBack DEF wheelMode, positionMode, BusDoes

\* scan, refresh, the moves and the torque
LEMMA ReadStep ==
    ASSUME IInv, NEW t \in BusTasks, scan(t) \/ refreshKnownTelemetrySync(t)
    PROVE  IInv'
<1>1. busJob' \in AllJobs
  BY EndedTyped DEF scan, refreshKnownTelemetrySync, IInv
<1>2. busFaultCount' \in 0..MaxBusFaults
  BY FaultCounted DEF scan, refreshKnownTelemetrySync, IInv
<1>3. servo' \in AllServos /\ Known'
  <2>1. CASE scan(t)
    BY <2>1, ScannedTyped DEF scan
  <2>2. CASE refreshKnownTelemetrySync(t)
    <3>1. PICK deaf : lastScanCount' = RefreshedCount(busJob[t].ids, Answering(busJob[t].ids, deaf))
      BY <2>2 DEF refreshKnownTelemetrySync
    <3>2. lastScanCount' \in 0..Cardinality(Servos)
      BY <3>1, AnsweringBounded DEF RefreshedCount, IInv, Known
    <3> QED
      BY <2>2, <3>2 DEF refreshKnownTelemetrySync, IInv, Known
  <2> QED
    BY <2>1, <2>2
<1> QED
  BY <1>1, <1>2, <1>3, GivesBack DEF scan, refreshKnownTelemetrySync, BusDoes

LEMMA MoveStep ==
    ASSUME IInv, NEW t \in BusTasks, moveBatch(t) \/ torqueOff(t)
    PROVE  IInv'
<1>1. busJob' \in AllJobs
  BY EndedTyped DEF moveBatch, torqueOff, IInv
<1>2. busFaultCount' \in 0..MaxBusFaults
  BY FaultCounted DEF moveBatch, torqueOff, IInv
<1>3. servo' \in AllServos
  BY FlagsWritten DEF moveBatch, torqueOff, IInv
<1> QED
  BY <1>1, <1>2, <1>3, GivesBack DEF moveBatch, torqueOff, BusDoes, IInv, Known

LEMMA CalibrateStep ==
    ASSUME IInv, NEW t \in BusTasks,
           calibrateFind(t) \/ calibrateOffsets(t) \/ calibrateMove(t) \/ calibrateVerify(t)
    PROVE  IInv'
<1>1. busFaultCount' \in 0..MaxBusFaults
  BY FaultCounted
  DEF calibrateFind, calibrateOffsets, calibrateMove, calibrateVerify, IInv
<1>2. CASE calibrateFind(t)
  <2>1. servo' \in AllServos /\ Known'
    BY <1>2, ScannedTyped DEF calibrateFind
  <2>2. lastIds' \in SUBSET ServoIds /\ "do" \in Waiting
    BY <2>1 DEF Known, Waiting
  <2>3. busJob' \in AllJobs
    BY <1>2, <2>2, EndedTyped, StageTyped DEF calibrateFind, IInv
  <2> QED
    BY <1>1, <1>2, <2>1, <2>3, GivesBack DEF calibrateFind, BusDoes
<1>3. CASE calibrateOffsets(t)
  <2>1. servo' \in AllServos
    BY <1>3, FlagsWritten DEF calibrateOffsets, IInv
  <2>2. busJob' \in AllJobs
    BY <1>3, EndedTyped, StageTyped DEF calibrateOffsets, IInv, Waiting
  <2> QED
    BY <1>1, <1>3, <2>1, <2>2, GivesBack DEF calibrateOffsets, BusDoes, IInv, Known
<1>4. CASE calibrateMove(t)
  <2>1. servo' \in AllServos
    BY <1>4, FlagsWritten DEF calibrateMove, IInv
  <2>2. busJob' \in AllJobs
    BY <1>4, StageTyped DEF calibrateMove, IInv, Waiting
  <2> QED
    BY <1>1, <1>4, <2>1, <2>2, GivesBack DEF calibrateMove, BusDoes, IInv, Known
<1>5. CASE calibrateVerify(t)
  <2>1. \A n, count : EnoughCentered(n, count) \in BOOLEAN
    BY DEF EnoughCentered
  <2>2. busJob' \in AllJobs
    BY <1>5, <2>1, EndedTyped DEF calibrateVerify, IInv
  <2> QED
    BY <1>1, <1>5, <2>2, GivesBack DEF calibrateVerify, BusDoes, IInv, Known
<1> QED
  BY <1>2, <1>3, <1>4, <1>5

LEMMA WorkStep ==
    ASSUME IInv, NEW t \in BusTasks, BusWork(t)
    PROVE  IInv'
<1>1. CASE setServoId(t)
  BY <1>1, IdStep
<1>2. CASE positionMode(t)
  <2>1. "position" \in {"position", "wheel"} /\ "position" # "wheel"
    OBVIOUS
  <2> QED
    BY <1>2, <2>1, ModeStep
<1>3. CASE wheelMode(t)
  BY <1>3, ModeStep
<1> QED
  BY <1>1, <1>2, <1>3, ReadStep, MoveStep, CalibrateStep DEF BusWork

LEMMA Invariance == IInv /\ [BusNext]_busVars => IInv'
<1>1. ASSUME IInv, LoopBegins \/ TaskBegins PROVE IInv'
  <2>1. \A t \in BusTasks, op \in BusOps : BusBegins(t, op) => IInv'
    BY <1>1, BeginsStep
  <2>2. IInv => busSession \subseteq BusOps
    BY BusAssumption DEF IInv, BusRests
  <2> QED
    BY <1>1, <2>1, <2>2, BusAssumption DEF LoopBegins, TaskBegins, BusTasks
<1>2. ASSUME IInv, UNCHANGED busVars PROVE IInv'
  BY <1>2 DEF IInv, busVars, AllServos, Known, AllJobs, HolderWorks, BusRests
<1> QED
  BY <1>1, <1>2, TakeStep, BusyStep, WorkStep DEF BusNext

THEOREM IInvHolds == BusSpec => []IInv
BY InitialState, Invariance, PTL DEF BusSpec

\* Every variable of the bus keeps its type, the count shown never exceeds the
\* servos there are, and no return of an operation keeps the lock
\* (servo_bus_service.cpp), for any number of servos and ids.
THEOREM BusTypeCorrect == BusSpec => []BusTypeOK
BY TypeFollows, IInvHolds, PTL

(***************************************************************************)
(* What is reported as done.                                               *)
(***************************************************************************)
\* An operation that reports is one that was at work with the lock.
LEMMA OnlyWorkReports ==
    ASSUME IInv, [BusNext]_busVars, NEW t \in BusTasks, NEW op, Reports(t, op)
    PROVE  BusWork(t) /\ busJob[t].op = op /\ busJob'[t].ok
<1>1. busHolder = t /\ busJob[t].stage \in Waiting /\ busJob'[t].stage = "idle"
  BY DEF Reports, IInv, HolderWorks, BusTasks, Nobody
<1>2. busJob'[t] # busJob[t]
  BY <1>1 DEF Waiting
<1>3. ~(LoopBegins \/ TaskBegins)
  <2>1. \A u \in BusTasks, o \in BusOps : ~BusBegins(u, o)
    BY <1>1, <1>2, BeginsStep
  <2>2. busSession \subseteq BusOps
    BY BusAssumption DEF IInv, BusRests
  <2> QED
    BY <2>1, <2>2, BusAssumption DEF LoopBegins, TaskBegins, BusTasks
<1>4. \A u \in BusTasks : ~BusTake(u) /\ ~BusBusy(u)
  BY <1>1, <1>2, BusyStep DEF BusTake
<1>5. \A u \in BusTasks : BusWork(u) => u = t
  BY <1>1
  DEF BusWork, scan, refreshKnownTelemetrySync, moveBatch, torqueOff, setServoId, positionMode,
      wheelMode, calibrateFind, calibrateOffsets, calibrateMove, calibrateVerify, BusDoes
<1>6. BusNext
  BY <1>2 DEF busVars
<1> QED
  BY <1>3, <1>4, <1>5, <1>6 DEF BusNext, Reports

\* Which of them, by its name.
LEMMA ReportNamesWork ==
    ASSUME NEW t \in BusTasks, BusWork(t)
    PROVE  /\ busJob[t].op = "setServoId" => setServoId(t)
           /\ busJob[t].op = "positionMode" => positionMode(t)
           /\ busJob[t].op = "wheelMode" => wheelMode(t)
BY DEF BusWork, scan, refreshKnownTelemetrySync, moveBatch, torqueOff, setServoId, positionMode,
       wheelMode, calibrateFind, calibrateOffsets, calibrateMove, calibrateVerify, BusDoes

LEMMA AnsweredExists ==
    ASSUME NEW id, Answering({id}, {}) # {}
    PROVE  \E v \in Servos : servo[v].id = id
BY DEF Answering

\* Renaming moves every servo of the old id, and closes all that have the new.
LEMMA NewIdTaken ==
    ASSUME IInv, NEW t \in BusTasks, NEW v \in Servos, NEW s, s = NewId(t)
    PROVE  /\ servo[v].id = busJob[t].id => s[v].id = busJob[t].to
           /\ busJob[t].id # busJob[t].to => s[v].id # busJob[t].id
           /\ s[v].id = busJob[t].to => ~s[v].open
<1> DEFINE id == busJob[t].id
           to == busJob[t].to
           open == Unlocked(servo, id)
           new == Renamed(open, id, to)
<1>1. servo[v] \in ServoRecords
  BY DEF IInv, AllServos
<1>2. open[v] = IF servo[v].id = id THEN [servo[v] EXCEPT !.open = TRUE] ELSE servo[v]
  BY DEF Unlocked
<1>3. /\ open[v] \in ServoRecords /\ open[v].id = servo[v].id
      /\ open[v].id = id => open[v].open
  BY <1>1, <1>2 DEF ServoRecords
<1>4. new[v] = IF open[v].id = id /\ open[v].open THEN [open[v] EXCEPT !.id = to] ELSE open[v]
  BY DEF Renamed
<1> HIDE DEF open
<1>5. /\ open[v].id = id => new[v] = [open[v] EXCEPT !.id = to]
      /\ open[v].id # id => new[v] = open[v]
  BY <1>3, <1>4
<1>6. s[v] = IF new[v].id = to THEN [new[v] EXCEPT !.open = FALSE] ELSE new[v]
  BY DEF NewId, Locked, open
<1> HIDE DEF new
<1>7. CASE open[v].id = id
  BY <1>3, <1>5, <1>6, <1>7 DEF ServoRecords
<1>8. CASE open[v].id # id
  BY <1>3, <1>5, <1>6, <1>8 DEF ServoRecords
<1> QED
  BY <1>7, <1>8

LEMMA NewModeTaken ==
    ASSUME IInv, NEW t \in BusTasks, NEW mode \in {"position", "wheel"},
           NEW v \in Servos, NEW s, s = NewMode(t, mode)
    PROVE  /\ s[v].id = servo[v].id
           /\ s[v].id = busJob[t].id => ~s[v].open /\ s[v].mode = mode
<1> DEFINE id == busJob[t].id
           open == Unlocked(servo, id)
           set == WithMode(open, id, mode)
<1>1. servo[v] \in ServoRecords
  BY DEF IInv, AllServos
<1>2. open[v] = IF servo[v].id = id THEN [servo[v] EXCEPT !.open = TRUE] ELSE servo[v]
  BY DEF Unlocked
<1>3. /\ open[v] \in ServoRecords /\ open[v].id = servo[v].id
      /\ open[v].id = id => open[v].open
  BY <1>1, <1>2 DEF ServoRecords
<1>4. set[v] = IF open[v].id = id /\ open[v].open THEN [open[v] EXCEPT !.mode = mode] ELSE open[v]
  BY DEF WithMode
<1> HIDE DEF open
<1>5. /\ open[v].id = id => set[v] = [open[v] EXCEPT !.mode = mode]
      /\ open[v].id # id => set[v] = open[v]
  BY <1>3, <1>4
<1>6. s[v] = IF set[v].id = id THEN [set[v] EXCEPT !.open = FALSE] ELSE set[v]
  BY DEF NewMode, Locked, open
<1> HIDE DEF set
<1>7. CASE open[v].id = id
  BY <1>3, <1>5, <1>6, <1>7 DEF ServoRecords
<1>8. CASE open[v].id # id
  BY <1>3, <1>5, <1>6, <1>8 DEF ServoRecords
<1> QED
  BY <1>7, <1>8

\* What an operation reports as done is done, for any number of servos, of ids
\* (also ids that several servos share) and of faults before it
\* (ServoBusService::setServoId and setServoMode).
THEOREM ReportedDoneHolds == BusSpec => ReportedDone
<1>1. ASSUME IInv, [BusNext]_busVars, NEW t \in BusTasks PROVE IdReported(t)
  <2> SUFFICES ASSUME Reports(t, "setServoId")
               PROVE  /\ HasId(busJob[t].to) # {}
                      /\ busJob[t].id # busJob[t].to => HasId(busJob[t].id) = {}
                      /\ \A r \in HasId(busJob[t].to) : ~r.open
    BY DEF IdReported
  <2>1. setServoId(t) /\ busJob'[t].ok
    BY <1>1, OnlyWorkReports, ReportNamesWork
  <2>2. servo' = NewId(t) /\ Answering({busJob[t].id}, {}) # {}
    BY <1>1, <2>1, IdStep
  <2>3. PICK v \in Servos : servo[v].id = busJob[t].id
    BY <2>2, AnsweredExists
  <2>4. \A u \in Servos :
          /\ servo[u].id = busJob[t].id => servo'[u].id = busJob[t].to
          /\ busJob[t].id # busJob[t].to => servo'[u].id # busJob[t].id
          /\ servo'[u].id = busJob[t].to => ~servo'[u].open
    BY <1>1, <2>2, NewIdTaken
  <2> QED
    BY <2>3, <2>4 DEF HasId
<1>2. ASSUME IInv, [BusNext]_busVars, NEW t \in BusTasks, NEW op \in {"positionMode", "wheelMode"}
      PROVE  ModeReported(t, op)
  <2> SUFFICES ASSUME Reports(t, op)
               PROVE  /\ HasId(busJob[t].id) # {}
                      /\ \A r \in HasId(busJob[t].id) :
                            ~r.open /\ (r.mode = "wheel" <=> op = "wheelMode")
    BY DEF ModeReported
  <2> DEFINE mode == IF op = "wheelMode" THEN "wheel" ELSE "position"
  <2>1. /\ IF mode = "wheel" THEN wheelMode(t) ELSE positionMode(t)
        /\ busJob'[t].ok /\ mode \in {"position", "wheel"} /\ (mode = "wheel" <=> op = "wheelMode")
    BY <1>2, OnlyWorkReports, ReportNamesWork
  <2> HIDE DEF mode
  <2>2. servo' = NewMode(t, mode) /\ Answering({busJob[t].id}, {}) # {}
    BY <1>2, <2>1, ModeStep
  <2>3. PICK v \in Servos : servo[v].id = busJob[t].id
    BY <2>2, AnsweredExists
  <2>4. \A u \in Servos :
          /\ servo'[u].id = servo[u].id
          /\ servo'[u].id = busJob[t].id => ~servo'[u].open /\ servo'[u].mode = mode
    BY <1>2, <2>1, <2>2, NewModeTaken
  <2> QED
    BY <2>1, <2>3, <2>4 DEF HasId
<1>3. IInv /\ [BusNext]_busVars =>
        [\A t \in BusTasks :
            IdReported(t) /\ ModeReported(t, "positionMode") /\ ModeReported(t, "wheelMode")]_busVars
  BY <1>1, <1>2
<1> QED
  BY <1>3, IInvHolds, PTL DEF BusSpec, ReportedDone
=============================================================================
