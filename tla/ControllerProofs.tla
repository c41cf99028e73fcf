--------------------------- MODULE ControllerProofs ---------------------------
(***************************************************************************)
(* Proofs about what the operator steers with: the Xbox controller and the *)
(* menu it moves through.                                                  *)
(*                                                                         *)
(* The controller, for every number of presses and faults:                 *)
(*   PadTypeCorrect         PadSpec => []PadTypeOK                         *)
(*   PairedIsSecuredHolds   a controller that counts as paired is          *)
(*                          encrypted and subscribed on the link it has    *)
(* The menu, for every number of D-pad steps in a tick:                    *)
(*   MenuTypeCorrect        MenuSpec => []MenuTypeOK                       *)
(*   WindowShowsCursorHolds the cursor of every list is in its window      *)
(*   StackIsPathHolds       the stack is a way through the menu            *)
(*   ResetIsConfirmed       no reset of the pairing without its question   *)
(* The steps of a tick are folded by a recursive function.  That it is     *)
(* defined, and keeps what each step keeps, is proved by induction on a    *)
(* set of numbers (InductionOnNat), which the theorems on well-founded     *)
(* relations give without an operator as a parameter.                      *)
(***************************************************************************)
EXTENDS XboxController, OledMenu, TLAPS, WellFoundedInduction

-----------------------------------------------------------------------------
(* The controller.                                                         *)


\* The type invariant in parts: the Boolean variables, the bounds, the presses.
Flags ==
    /\ padOn \in BOOLEAN /\ padLink \in BOOLEAN /\ padNotify \in BOOLEAN
    /\ padCached \in BOOLEAN /\ linkEncrypted \in BOOLEAN /\ inputSubscribed \in BOOLEAN
    /\ controllerPaired \in BOOLEAN /\ padKnown \in BOOLEAN
    /\ bootFullScanPending \in BOOLEAN /\ backgroundReconnectDeferred \in BOOLEAN

Bounds == padPresses \in 0..MaxPresses /\ padFaults \in 0..MaxPadFaults

Counters == [PadButtons -> 0..kMaxPending]

Presses ==
    /\ padHeld \subseteq PadButtons /\ pressedLast \subseteq PadButtons
    /\ pendingCount \in Counters
    /\ \/ padRegisters = <<>>
       \/ padRegisters \in [PadButtons -> [edge : BOOLEAN, loaded : 0..kMaxPending]]
    /\ padTakes = <<>> \/ padTakes \in Counters

LEMMA TypesApart == PadTypeOK <=> Flags /\ padPc \in PadPlaces /\ Bounds /\ Presses
BY Zenon DEF PadTypeOK, Flags, Bounds, Presses, Counters

\* How far the task is with a link, and what the link is worth by then.
Path ==
    /\ padPc \in PadPlaces
    /\ padPc \in {"scan", "connect"} => ~padLink
    /\ padPc \in {"scan", "connect", "secure", "subscribe"} => ~controllerPaired
    /\ padPc \in {"secure", "subscribe"} => ~inputSubscribed
    /\ padPc = "subscribe" /\ padLink => linkEncrypted
    /\ padPc \in {"top", "ready"} /\ padLink => isReadyForTeleop /\ padNotify

IInv == Flags /\ Bounds /\ Presses /\ Path

LEMMA InitialState == PadInit => IInv
<1> SUFFICES ASSUME PadInit PROVE IInv
  OBVIOUS
<1>1. Flags
  BY Zenon DEF PadInit, Flags
<1>2. Bounds /\ Presses
  BY PadAssumption DEF PadInit, Bounds, Presses, Counters
<1>3. Path
  BY DEF PadInit, Path, PadPlaces
<1> QED
  BY <1>1, <1>2, <1>3 DEF IInv

\* A fault is counted, and only up to the bound.
LEMMA FaultCounted ==
    ASSUME Bounds, Fault \/ UNCHANGED padFaults
    PROVE  padFaults' \in 0..MaxPadFaults
BY PadAssumption DEF Bounds, Fault

\* Where the task goes without a connection.
LEMMA ScansOrRests ==
    ASSUME NEW scan \in BOOLEAN
    PROVE  NextScan(scan) \in {"scan", "top"}
BY DEF NextScan

LEMMA FailedTask ==
    ASSUME IInv, Failed, ~controllerPaired'
    PROVE  /\ Path'
           /\ ~padLink' /\ ~padNotify' /\ ~linkEncrypted' /\ ~inputSubscribed'
           /\ padLink' \in BOOLEAN /\ padNotify' \in BOOLEAN /\ linkEncrypted' \in BOOLEAN
           /\ inputSubscribed' \in BOOLEAN
           /\ UNCHANGED <<padCached, padKnown, bootFullScanPending>>
<1>1. ~padLink' /\ ~padNotify' /\ ~linkEncrypted' /\ ~inputSubscribed'
  BY DEF Failed, tearDownBleClient
<1>2. padPc' \in {"scan", "top"}
  BY ScansOrRests DEF Failed
<1>3. Path'
  BY <1>1, <1>2 DEF Path, PadPlaces
<1> QED
  BY <1>1, <1>3 DEF Failed, tearDownBleClient

\* Only the task's own variables move; those of the presses stay.
LEMMA PressesStay ==
    ASSUME IInv, UNCHANGED <<padInput, padHeld>>
    PROVE  Presses'
BY DEF IInv, Presses, padInput

LEMMA DisconnectedStep == IInv /\ PadDisconnected => IInv'
<1> SUFFICES ASSUME IInv, PadDisconnected PROVE IInv'
  OBVIOUS
<1>1. Presses'
  BY PressesStay DEF PadDisconnected, padEnv
<1>2. /\ ~padLink' /\ ~controllerPaired' /\ ~inputSubscribed'
      /\ padPc' \in {"connect", "scan", "top"}
  BY ScansOrRests DEF PadDisconnected, tearDownBleClient, IInv, Flags
<1>3. Path'
  BY <1>2 DEF Path, PadPlaces
<1>4. Flags'
  BY Zenon DEF PadDisconnected, tearDownBleClient, IInv, Flags, padEnv
<1> QED
  BY <1>1, <1>3, <1>4 DEF IInv, Bounds, PadDisconnected, padEnv

LEMMA ScanStep == IInv /\ PadScan => IInv'
<1> SUFFICES ASSUME IInv, PadScan PROVE IInv'
  OBVIOUS
<1>1. Presses'
  BY PressesStay DEF PadScan
<1>2. Path'
  BY DEF PadScan, IInv, Path, PadPlaces, padBle
<1>3. Flags'
  BY DEF PadScan, IInv, Flags, padBle
<1>4. padFaults' \in 0..MaxPadFaults
  BY FaultCounted DEF PadScan, Works, Fails, IInv
<1> QED
  BY <1>1, <1>2, <1>3, <1>4 DEF IInv, Bounds, PadScan

LEMMA ConnectStep == IInv /\ PadConnect => IInv'
<1> SUFFICES ASSUME IInv, PadConnect PROVE IInv'
  OBVIOUS
<1>1. Presses'
  BY PressesStay DEF PadConnect
<1>2. padFaults' \in 0..MaxPadFaults
  BY FaultCounted DEF PadConnect, Works, Fails, IInv
<1>3. Path' /\ Flags'
  <2>1. CASE /\ padLink' = TRUE /\ padPc' = "secure"
             /\ linkEncrypted' = FALSE /\ inputSubscribed' = FALSE
             /\ UNCHANGED <<padNotify, padCached, padKnown, bootFullScanPending>>
    BY <2>1 DEF PadConnect, IInv, Path, PadPlaces, Flags
  <2>2. CASE Failed
    <3>1. ~controllerPaired'
      BY DEF PadConnect, IInv, Path
    <3> QED
      BY <2>2, <3>1, FailedTask DEF PadConnect, IInv, Flags
  <2> QED
    BY <2>1, <2>2 DEF PadConnect
<1> QED
  BY <1>1, <1>2, <1>3 DEF IInv, Bounds, PadConnect

LEMMA SecureStep == IInv /\ PadSecure => IInv'
<1> SUFFICES ASSUME IInv, PadSecure PROVE IInv'
  OBVIOUS
<1>1. Presses'
  BY PressesStay DEF PadSecure
<1>2. padFaults' \in 0..MaxPadFaults
  BY FaultCounted DEF PadSecure, Works, IInv
<1>3. Path' /\ Flags'
  <2>1. CASE /\ linkEncrypted' = TRUE /\ padPc' = "subscribe"
             /\ padKnown' = TRUE /\ bootFullScanPending' = FALSE
             /\ UNCHANGED <<padLink, padNotify, inputSubscribed, padCached>>
    BY <2>1 DEF PadSecure, IInv, Path, PadPlaces, Flags
  <2>2. CASE Failed
    <3>1. ~controllerPaired'
      BY DEF PadSecure, IInv, Path
    <3> QED
      BY <2>2, <3>1, FailedTask DEF PadSecure, IInv, Flags
  <2> QED
    BY <2>1, <2>2 DEF PadSecure
<1> QED
  BY <1>1, <1>2, <1>3 DEF IInv, Bounds, PadSecure

LEMMA SubscribeStep == IInv /\ PadSubscribe => IInv'
<1> SUFFICES ASSUME IInv, PadSubscribe PROVE IInv'
  OBVIOUS
<1>1. Presses'
  BY PressesStay DEF PadSubscribe
<1>2. padFaults' \in 0..MaxPadFaults
  BY FaultCounted DEF PadSubscribe, Works, IInv
<1>3. Path' /\ Flags'
  <2>1. CASE /\ padLink /\ padNotify' = TRUE /\ inputSubscribed' = TRUE /\ padPc' = "ready"
             /\ UNCHANGED <<padLink, linkEncrypted, padCached, padKnown, bootFullScanPending>>
    BY <2>1 DEF PadSubscribe, IInv, Path, PadPlaces, Flags, isReadyForTeleop
  <2>2. CASE Failed
    <3>1. ~controllerPaired'
      BY DEF PadSubscribe, IInv, Path
    <3> QED
      BY <2>2, <3>1, FailedTask DEF PadSubscribe, IInv, Flags
  <2> QED
    BY <2>1, <2>2 DEF PadSubscribe
<1> QED
  BY <1>1, <1>2, <1>3 DEF IInv, Bounds, PadSubscribe

LEMMA ReadyStep == IInv /\ PadReady => IInv'
<1> SUFFICES ASSUME IInv, PadReady PROVE IInv'
  OBVIOUS
<1>1. Presses' /\ Bounds'
  BY PressesStay DEF PadReady, IInv, Bounds, padEnv
<1>2. controllerPaired' \in BOOLEAN
  BY DEF PadReady, IInv, Flags, isReadyForTeleop
<1>3. Path' /\ Flags'
  <2>1. CASE /\ isReadyForTeleop /\ padPc' = "top"
             /\ UNCHANGED <<padBle, padCached, padKnown, bootFullScanPending>>
    BY <1>2, <2>1 DEF PadReady, IInv, Path, PadPlaces, Flags, isReadyForTeleop, padBle, padEnv
  <2>2. CASE ~isReadyForTeleop /\ Failed
    <3>1. ~controllerPaired'
      BY <2>2 DEF PadReady
    <3> QED
      BY <1>2, <2>2, <3>1, FailedTask DEF PadReady, IInv, Flags, padEnv
  <2> QED
    BY <2>1, <2>2 DEF PadReady
<1> QED
  BY <1>1, <1>3 DEF IInv

\* The tick reports what is, and forgets what a lost link was worth.
LEMMA TickStep == IInv /\ PadTick => IInv'
<1> SUFFICES ASSUME IInv, PadTick PROVE IInv'
  OBVIOUS
<1>1. Presses' /\ Bounds'
  BY PressesStay DEF PadTick, IInv, Bounds, padEnv
<1>2. Flags'
  BY DEF PadTick, IInv, Flags, isReadyForTeleop, padTask, padEnv
<1>3. Path'
  BY DEF PadTick, IInv, Flags, Path, isReadyForTeleop, padTask
<1> QED
  BY <1>1, <1>2, <1>3 DEF IInv

\* What only concerns the presses leaves the link and the task alone.
LEMMA LinkStays ==
    ASSUME IInv, UNCHANGED <<padBle, padTask, controllerPaired, padOn,
                             backgroundReconnectDeferred>>
    PROVE  Flags' /\ Path'
BY DEF IInv, Flags, Path, isReadyForTeleop, padBle, padTask

LEMMA ReportStep == IInv /\ (PadReport \/ PadReported) => IInv'
<1>1. ASSUME IInv, PadReport PROVE IInv'
  <2>1. padRegisters' \in [PadButtons -> [edge : BOOLEAN, loaded : 0..kMaxPending]]
    BY <1>1 DEF PadReport, IInv, Presses, Counters, registerButtonPressEdge
  <2> QED
    BY <1>1, <2>1, LinkStays DEF PadReport, IInv, Presses, Bounds, padEnv
<1>2. ASSUME IInv, PadReported PROVE IInv'
  <2>1. padRegisters \in [PadButtons -> [edge : BOOLEAN, loaded : 0..kMaxPending]]
    BY <1>2 DEF PadReported, IInv, Presses
  <2>2. \A b \in PadButtons : Counted(padRegisters[b].loaded) \in 0..kMaxPending
    BY <2>1, PadAssumption DEF Counted
  <2>3. pendingCount' \in Counters
    BY <1>2, <2>2 DEF PadReported, IInv, Presses, Counters
  <2> QED
    BY <1>2, <2>3, LinkStays DEF PadReported, IInv, Presses, Bounds, padEnv
<1> QED
  BY <1>1, <1>2

LEMMA TakeStep ==
    IInv /\ (PadTake \/ PadTaken \/ \E b \in PadButtons : discardPendingButtonPress(b)) => IInv'
<1>1. ASSUME IInv, PadTake PROVE IInv'
  BY <1>1, LinkStays DEF PadTake, IInv, Presses, Bounds, padEnv
<1>2. ASSUME IInv, PadTaken PROVE IInv'
  <2>1. padTakes \in Counters
    BY <1>2 DEF PadTaken, IInv, Presses
  <2>2. \A b \in PadButtons : padTakes[b] # 0 => padTakes[b] - 1 \in 0..kMaxPending
    BY <2>1, PadAssumption DEF Counters
  <2>3. pendingCount' \in Counters
    BY <1>2, <2>2 DEF PadTaken, IInv, Presses, Counters
  <2> QED
    BY <1>2, <2>3, LinkStays DEF PadTaken, IInv, Presses, Bounds, padEnv
<1>3. ASSUME IInv, NEW b \in PadButtons, discardPendingButtonPress(b) PROVE IInv'
  <2>1. pendingCount' \in Counters
    BY <1>3, PadAssumption DEF discardPendingButtonPress, IInv, Presses, Counters
  <2> QED
    BY <1>3, <2>1, LinkStays DEF discardPendingButtonPress, IInv, Presses, Bounds, padEnv
<1> QED
  BY <1>1, <1>2, <1>3

\* The user, the radio and mirroring.
LEMMA OutsideStep ==
    IInv /\ ((\E b \in PadButtons : PadButton(b)) \/ PadSwitch \/ PadLinkLost \/ PadDefer
             \/ UNCHANGED padVars)
        => IInv'
<1>1. ASSUME IInv, NEW b \in PadButtons, PadButton(b) PROVE IInv'
  <2>1. padHeld' \subseteq PadButtons
    BY <1>1 DEF PadButton, IInv, Presses
  <2>2. Presses'
    BY <1>1, <2>1 DEF PadButton, IInv, Presses, padInput
  <2>3. padPresses' \in 0..MaxPresses
    BY <1>1, PadAssumption DEF PadButton, IInv, Bounds
  <2> QED
    BY <1>1, <2>2, <2>3, LinkStays DEF PadButton, IInv, Bounds
<1>2. ASSUME IInv, PadSwitch \/ PadLinkLost PROVE IInv'
  <2>1. Presses'
    BY <1>2, PressesStay DEF PadSwitch, PadLinkLost
  <2>2. Flags'
    BY <1>2 DEF PadSwitch, PadLinkLost, IInv, Flags, padTask
  <2>3. Path'
    BY <1>2 DEF PadSwitch, PadLinkLost, IInv, Path, padTask
  <2>4. padFaults' \in 0..MaxPadFaults
    BY <1>2, FaultCounted DEF PadSwitch, PadLinkLost, IInv
  <2> QED
    BY <1>2, <2>1, <2>2, <2>3, <2>4 DEF PadSwitch, PadLinkLost, IInv, Bounds
<1>3. ASSUME IInv, PadDefer PROVE IInv'
  BY <1>3, PressesStay DEF PadDefer, IInv, Flags, Path, Bounds, isReadyForTeleop, padBle, padTask
<1>4. ASSUME IInv, UNCHANGED padVars PROVE IInv'
  BY <1>4, PressesStay, LinkStays DEF padVars, padEnv, IInv, Bounds
<1> QED
  BY <1>1, <1>2, <1>3, <1>4

LEMMA Invariance == IInv /\ [PadNext]_padVars => IInv'
BY DisconnectedStep, ScanStep, ConnectStep, SecureStep, SubscribeStep, ReadyStep, TickStep,
   ReportStep, TakeStep, OutsideStep
DEF PadNext, PadTask

THEOREM IInvHolds == PadSpec => []IInv
BY InitialState, Invariance, PTL DEF PadSpec

\* Every variable of the controller keeps its type; whatever the number of
\* buttons and presses, no interleaving of callback and loop makes a counter of
\* presses wrap (leader_xbox_controller_service.cpp).
THEOREM PadTypeCorrect == PadSpec => []PadTypeOK
<1>1. IInv => PadTypeOK
  BY TypesApart DEF IInv, Path
<1> QED
  BY <1>1, IInvHolds, PTL

\* Whatever the order of faults, ticks and steps of the task: a controller that
\* counts as paired on a live link is encrypted and subscribed on this link, and
\* the task does not rest on a link that is not.
THEOREM PairedIsSecuredHolds == PadSpec => []PairedIsSecured
<1>1. IInv => PairedIsSecured
  BY DEF IInv, Path, PadPlaces, PairedIsSecured
<1> QED
  BY <1>1, IInvHolds, PTL

-----------------------------------------------------------------------------
(* Induction on the steps that one tick finds.                             *)

LEMMA InductionOnNat ==
    ASSUME NEW S, S \subseteq Nat, 0 \in S, \A n \in S : n + 1 \in S
    PROVE  S = Nat
<1> SUFFICES ASSUME Nat \ S # {} PROVE FALSE
  OBVIOUS
<1> DEFINE R == OpToRel(<, Nat)
<1>1. IsWellFoundedOn(R, Nat)
  BY NatLessThanWellFounded
<1>2. \A i, j \in Nat : i < j => <<i, j>> \in R
  BY DEF OpToRel
<1> HIDE DEF R
<1>3. PICK n \in Nat \ S : \A k \in Nat \ S : ~(<<k, n>> \in R)
  BY <1>1, WFMin, Nat \ S \subseteq Nat
<1>4. n # 0 /\ n - 1 \in Nat /\ n - 1 < n /\ (n - 1) + 1 = n
  OBVIOUS
<1> QED BY <1>2, <1>3, <1>4

\* The definition of Moves by recursion has a solution, which is what the menu
\* is after each of the steps.
MovedBy(m, steps, n, f) ==
    f = [i \in 0..n |-> IF i = 0 THEN m ELSE Move(f[i - 1], steps[i])]

LEMMA MovesAreDefined ==
    ASSUME NEW m, NEW steps, NEW n \in Nat
    PROVE  \E f : MovedBy(m, steps, n, f)
<1> DEFINE S == {k \in Nat : \E f : MovedBy(m, steps, k, f)}
<1>1. 0 \in S
  <2>1. [i \in 0..0 |-> m] = [i \in 0..0 |-> IF i = 0 THEN m
                                  ELSE Move([j \in 0..0 |-> m][i - 1], steps[i])]
    OBVIOUS
  <2> QED BY <2>1 DEF MovedBy
<1>2. ASSUME NEW k \in S PROVE k + 1 \in S
  <2>1. PICK f : MovedBy(m, steps, k, f)
    OBVIOUS
  <2>2. k \in Nat
    OBVIOUS
  <2>3. f = [i \in 0..k |-> IF i = 0 THEN m ELSE Move(f[i - 1], steps[i])]
    BY <2>1 DEF MovedBy
  <2> DEFINE g == [i \in 0..(k + 1) |-> IF i <= k THEN f[i] ELSE Move(f[k], steps[i])]
  <2>4. \A i \in 0..k : g[i] = f[i]
    BY <2>2
  <2>5. DOMAIN g = 0..(k + 1) /\ g[k + 1] = Move(f[k], steps[k + 1])
    BY <2>2
  <2>6. g = [i \in 0..(k + 1) |-> IF i <= k THEN f[i] ELSE Move(f[k], steps[i])]
    OBVIOUS
  <2> HIDE DEF g
  <2>7. ASSUME NEW i \in 0..(k + 1)
        PROVE  g[i] = IF i = 0 THEN m ELSE Move(g[i - 1], steps[i])
    <3>1. CASE i \in 0..k
      <4>1. f[i] = IF i = 0 THEN m ELSE Move(f[i - 1], steps[i])
        BY <2>3, <3>1
      <4>2. i # 0 => i - 1 \in 0..k
        BY <2>2, <3>1
      <4> QED BY <2>4, <3>1, <4>1, <4>2
    <3>2. CASE i = k + 1
      <4>1. i # 0 /\ i - 1 = k /\ k \in 0..k
        BY <2>2, <3>2
      <4> QED BY <2>4, <2>5, <3>2, <4>1
    <3> QED BY <2>2, <3>1, <3>2
  <2> DEFINE h == [i \in 0..(k + 1) |-> IF i = 0 THEN m ELSE Move(g[i - 1], steps[i])]
  <2>8. g = h
    BY <2>6, <2>7
  <2>9. MovedBy(m, steps, k + 1, g)
    BY <2>8 DEF MovedBy
  <2> QED BY <2>2, <2>9
<1>3. S = Nat
  <2> HIDE DEF S
  <2>1. S \subseteq Nat
    BY DEF S
  <2> QED BY <1>1, <1>2, <2>1, InductionOnNat
<1> QED BY <1>3

\* A property of menus that no step of the D-pad loses is not lost by Moves.
LEMMA MovesKeep ==
    ASSUME NEW G, NEW m \in G, NEW steps, NEW n \in Nat, Len(steps) = n,
           \A i \in 1..n : \A x \in G : Move(x, steps[i]) \in G
    PROVE  Moves(m, steps) \in G
<1> DEFINE f == CHOOSE f : MovedBy(m, steps, n, f)
<1>1. MovedBy(m, steps, n, f)
  BY MovesAreDefined
<1>2. Moves(m, steps) = f[n]
  BY DEF Moves, MovedBy
<1> HIDE DEF f
<1>3. \A i \in 0..n : f[i] = IF i = 0 THEN m ELSE Move(f[i - 1], steps[i])
  BY <1>1 DEF MovedBy
<1> DEFINE S == {k \in Nat : k <= n => f[k] \in G}
<1>4. 0 \in S
  BY <1>3
<1>5. ASSUME NEW k \in S PROVE k + 1 \in S
  <2> SUFFICES ASSUME k + 1 <= n PROVE f[k + 1] \in G
    OBVIOUS
  <2>1. k \in Nat /\ k + 1 \in 1..n /\ k + 1 \in 0..n /\ k + 1 # 0 /\ (k + 1) - 1 = k
    OBVIOUS
  <2>2. f[k] \in G
    BY <2>1
  <2>3. f[k + 1] = Move(f[k], steps[k + 1])
    BY <1>3, <2>1
  <2> QED BY <2>1, <2>2, <2>3
<1>6. S = Nat
  <2> HIDE DEF S
  <2>1. S \subseteq Nat
    BY DEF S
  <2> QED BY <1>4, <1>5, <2>1, InductionOnNat
<1>7. n \in S
  BY <1>6
<1> QED BY <1>2, <1>7

-----------------------------------------------------------------------------
(* The lists and their windows.                                            *)

Profiles == {"TeleopEspNow", "TeleopEspNowTurbo", "TeleopEspNowFeedback", "TeleopWifi",
             "Passthrough", "OtaReady", "CalibrationLeader", "CalibrationFollower"}
Asks == {"nothing", "resetPairing"} \cup Profiles

LEMMA Counts ==
    /\ ItemCount("Root") = 6 /\ ItemCount("TeleopList") = 6
    /\ ItemCount("CalibrationList") = 3 /\ ItemCount("PairingList") = 3
    /\ \A s \in Lists : ItemCount(s) \in {3, 6}
BY DEF ItemCount, ItemActions, Lists

\* What the items of the menu do: the root opens lists and details, the other
\* lists open details only, and nothing opens the root.
ItemLeads(s, item) ==
    \/ item = Pop
    \/ item.action = "ActivateProfile" /\ item.to \in Profiles
    \/ /\ item = Push(item.to) /\ item.to \in Screens \ {"Root"}
       /\ s # "Root" => item.to \notin Lists

LEMMA ItemsLead ==
    \A s \in Lists : \A i \in 1..ItemCount(s) : ItemLeads(s, ItemActions[s][i])
<1>1. \A i \in 1..6 : ItemLeads("Root", ItemActions["Root"][i])
  <2> SUFFICES ASSUME NEW i \in 1..6 PROVE ItemLeads("Root", ItemActions["Root"][i])
    OBVIOUS
  <2>1. ItemActions["Root"] =
          <<Push("InfoDetail"), Push("TeleopList"), Activate("Passthrough"),
            Push("CalibrationList"), Push("PairingList"), Activate("OtaReady")>>
    BY DEF ItemActions, Lists
  <2>2. ItemActions["Root"][i] \in
          {Push("InfoDetail"), Push("TeleopList"), Activate("Passthrough"),
            Push("CalibrationList"), Push("PairingList"), Activate("OtaReady")}
    BY <2>1
  <2> QED BY <2>2 DEF ItemLeads, Push, Activate, Pop, Profiles, Screens, Lists
<1>2. \A i \in 1..6 : ItemLeads("TeleopList", ItemActions["TeleopList"][i])
  <2> SUFFICES ASSUME NEW i \in 1..6
               PROVE  ItemLeads("TeleopList", ItemActions["TeleopList"][i])
    OBVIOUS
  <2>1. ItemActions["TeleopList"] =
          <<Activate("TeleopEspNow"), Activate("TeleopEspNowTurbo"),
            Activate("TeleopEspNowFeedback"), Activate("TeleopWifi"),
            Push("IkNotImplementedDetail"), Pop>>
    BY DEF ItemActions, Lists
  <2>2. ItemActions["TeleopList"][i] \in
          {Activate("TeleopEspNow"), Activate("TeleopEspNowTurbo"),
            Activate("TeleopEspNowFeedback"), Activate("TeleopWifi"),
            Push("IkNotImplementedDetail"), Pop}
    BY <2>1
  <2> QED BY <2>2 DEF ItemLeads, Push, Activate, Pop, Profiles, Screens, Lists
<1>3. \A i \in 1..3 : ItemLeads("CalibrationList", ItemActions["CalibrationList"][i])
  <2> SUFFICES ASSUME NEW i \in 1..3
               PROVE  ItemLeads("CalibrationList", ItemActions["CalibrationList"][i])
    OBVIOUS
  <2>1. ItemActions["CalibrationList"] =
          <<Activate("CalibrationLeader"), Activate("CalibrationFollower"), Pop>>
    BY DEF ItemActions, Lists
  <2>2. ItemActions["CalibrationList"][i] \in
          {Activate("CalibrationLeader"), Activate("CalibrationFollower"), Pop}
    BY <2>1
  <2> QED BY <2>2 DEF ItemLeads, Push, Activate, Pop, Profiles, Screens, Lists
<1>4. \A i \in 1..3 : ItemLeads("PairingList", ItemActions["PairingList"][i])
  <2> SUFFICES ASSUME NEW i \in 1..3
               PROVE  ItemLeads("PairingList", ItemActions["PairingList"][i])
    OBVIOUS
  <2>1. ItemActions["PairingList"] =
          <<Push("PairingStatusDetail"), Push("PairingResetConfirm"), Pop>>
    BY DEF ItemActions, Lists
  <2>2. ItemActions["PairingList"][i] \in
          {Push("PairingStatusDetail"), Push("PairingResetConfirm"), Pop}
    BY <2>1
  <2> QED BY <2>2 DEF ItemLeads, Push, Activate, Pop, Profiles, Screens, Lists
<1> QED BY <1>1, <1>2, <1>3, <1>4, Counts DEF Lists

\* A list and its cursor in order: what WindowShowsCursor says of one list.
Shown(count, scroll) ==
    /\ scroll.selected < count
    /\ scroll.first <= scroll.selected /\ scroll.selected < scroll.first + kVisibleLineCount
    /\ count > kVisibleLineCount => scroll.first + kVisibleLineCount <= count
    /\ count <= kVisibleLineCount => scroll.first = 0

Scroll == [selected : Nat, first : Nat]

LEMMA WindowFollows ==
    ASSUME NEW count \in {3, 6}, NEW selected \in 0..(count - 1), NEW first \in Nat,
           count > kVisibleLineCount => first + kVisibleLineCount <= count
    PROVE  /\ updateScrollWindow(count, selected, first) \in Scroll
           /\ Shown(count, updateScrollWindow(count, selected, first))
<1>1. CASE count = 3
  BY <1>1 DEF updateScrollWindow, Scroll, Shown, kVisibleLineCount
<1>2. CASE count = 6
  BY <1>2 DEF updateScrollWindow, Scroll, Shown, kVisibleLineCount
<1> QED BY <1>1, <1>2

LEMMA CursorMoves ==
    ASSUME NEW count \in {3, 6}, NEW scroll \in Scroll, Shown(count, scroll)
    PROVE  /\ moveUp(count, scroll) \in Scroll /\ Shown(count, moveUp(count, scroll))
           /\ moveDown(count, scroll) \in Scroll /\ Shown(count, moveDown(count, scroll))
           /\ resetScroll(count, scroll) \in Scroll /\ Shown(count, resetScroll(count, scroll))
<1>1. /\ scroll.selected \in 0..(count - 1) /\ scroll.first \in Nat
      /\ count > kVisibleLineCount => scroll.first + kVisibleLineCount <= count
  BY DEF Scroll, Shown
<1>2. (IF scroll.selected = 0 THEN count - 1 ELSE scroll.selected - 1) \in 0..(count - 1)
  BY <1>1
<1>3. (scroll.selected + 1) % count \in 0..(count - 1)
  <2>1. CASE count = 3
    BY <1>1, <2>1
  <2>2. CASE count = 6
    BY <1>1, <2>2
  <2> QED BY <2>1, <2>2
<1>4. 0 \in 0..(count - 1)
  OBVIOUS
<1> QED BY <1>1, <1>2, <1>3, <1>4, WindowFollows DEF moveUp, moveDown, resetScroll

-----------------------------------------------------------------------------
(* The menu's state: a record, so that what a press does to it is a lemma. *)

MenuState ==
    [stack : Seq(Screens), scroll : [Lists -> Scroll], resume : Screens,
     browse : BOOLEAN, asks : Asks]

\* A way through the menu: from the root to one of its items, and if that is a
\* list to the detail its cursor is on.
Way(stack, scroll) ==
    /\ Len(stack) \in 1..3 /\ stack[1] = "Root"
    /\ Len(stack) > 1 => Opens("Root", stack[2])
    /\ Len(stack) = 3 =>
          /\ stack[2] \in Lists /\ stack[3] \notin Lists /\ Opens(stack[2], stack[3])
          /\ ItemActions[stack[2]][scroll[stack[2]].selected + 1] = Push(stack[3])

\* The menu is in order: every list shows its cursor, the stack is a way, and
\* the list to come back to is one the root opens, or the root.
InOrder(m) ==
    /\ m \in MenuState
    /\ \A s \in Lists : Shown(ItemCount(s), m.scroll[s])
    /\ Way(m.stack, m.scroll)
    /\ m.resume = "Root" \/ (m.resume \in Lists /\ Opens("Root", m.resume))

LEMMA Top ==
    ASSUME NEW m, InOrder(m)
    PROVE  /\ currentScreen(m) \in Screens /\ Len(m.stack) \in 1..3
           /\ currentScreen(m) \in Lists => Len(m.stack) \in 1..2
           /\ Len(m.stack) = 1 => currentScreen(m) = "Root" /\ m.stack = <<"Root">>
           /\ Len(m.stack) > 1 => currentScreen(m) # "Root"
           /\ currentScreen(m) \in Lists =>
                 currentScreen(m) = "Root" \/ Opens("Root", currentScreen(m))
<1>1. m.stack \in Seq(Screens) /\ Len(m.stack) \in 1..3 /\ m.stack[1] = "Root"
  BY DEF InOrder, MenuState, Way
<1>2. \A t : Opens("Root", t) => t # "Root"
  <2> SUFFICES ASSUME NEW t, NEW i \in 1..ItemCount("Root"), ItemActions["Root"][i] = Push(t)
               PROVE  t # "Root"
    BY DEF Opens
  <2>1. ItemLeads("Root", Push(t))
    BY ItemsLead DEF Lists
  <2> QED BY <2>1 DEF ItemLeads, Push, Pop
<1>3. CASE Len(m.stack) = 1
  BY <1>1, <1>3 DEF currentScreen
<1>4. CASE Len(m.stack) = 2
  BY <1>1, <1>2, <1>4 DEF currentScreen, InOrder, Way
<1>5. CASE Len(m.stack) = 3
  BY <1>1, <1>5 DEF currentScreen, InOrder, Way, Lists
<1> QED BY <1>1, <1>3, <1>4, <1>5

\* A new cursor in the list shown, or in one that is not on the way.
LEMMA CursorChanged ==
    ASSUME NEW m, InOrder(m), NEW s \in Lists, NEW c \in Scroll, Shown(ItemCount(s), c),
           Len(m.stack) = 3 => m.stack[2] # s
    PROVE  /\ InOrder([m EXCEPT !.scroll[s] = c])
           /\ [m EXCEPT !.scroll[s] = c].stack = m.stack
           /\ [m EXCEPT !.scroll[s] = c].asks = m.asks
           /\ [m EXCEPT !.scroll[s] = c].browse = m.browse
<1> DEFINE w == [m EXCEPT !.scroll[s] = c]
<1>1. m \in MenuState
  BY DEF InOrder
<1>2. w \in MenuState
  BY <1>1 DEF MenuState
<1>3. /\ w.stack = m.stack /\ w.asks = m.asks /\ w.browse = m.browse /\ w.resume = m.resume
      /\ w.scroll = [m.scroll EXCEPT ![s] = c]
  BY <1>1 DEF MenuState
<1>4. m.scroll \in [Lists -> Scroll]
  BY <1>1 DEF MenuState
<1> HIDE DEF w
<1>5. \A t \in Lists : w.scroll[t] = IF t = s THEN c ELSE m.scroll[t]
  BY <1>3, <1>4
<1>6. \A t \in Lists : Shown(ItemCount(t), w.scroll[t])
  BY <1>5 DEF InOrder
<1>7. Way(w.stack, w.scroll)
  BY <1>3, <1>5 DEF InOrder, Way
<1>8. InOrder(w)
  BY <1>2, <1>3, <1>6, <1>7 DEF InOrder
<1> QED BY <1>3, <1>8 DEF w

LEMMA MoveKeepsOrder ==
    ASSUME NEW m, InOrder(m), NEW step
    PROVE  /\ InOrder(Move(m, step))
           /\ Move(m, step).stack = m.stack
           /\ Move(m, step).asks = m.asks
<1> DEFINE s == currentScreen(m)
           count == ItemCount(s)
           c == IF step = "Up" THEN moveUp(count, m.scroll[s]) ELSE moveDown(count, m.scroll[s])
<1>1. CASE s \notin Lists
  BY <1>1 DEF Move
<1>2. CASE s \in Lists
  <2>1. count \in {3, 6} /\ m.scroll[s] \in Scroll /\ Shown(count, m.scroll[s])
    BY <1>2, Counts DEF InOrder, MenuState
  <2>2. c \in Scroll /\ Shown(count, c)
    BY <2>1, CursorMoves
  <2>3. Len(m.stack) # 3
    <3>1. Len(m.stack) \in 1..2
      BY <1>2, Top
    <3> QED BY <3>1
  <2>4. Move(m, step) = [m EXCEPT !.scroll[s] = c]
    BY <1>2 DEF Move
  <2> HIDE DEF s, count, c
  <2>5. Shown(ItemCount(s), c)
    BY <2>2 DEF count
  <2> QED BY <1>2, <2>2, <2>3, <2>4, <2>5, CursorChanged
<1> QED BY <1>1, <1>2

-----------------------------------------------------------------------------
(* What a press does.                                                      *)

LEMMA OneOrTwo == \A n \in 1..2 : ~(n >= kMaxStackDepth) /\ (n > 1 \/ n = 1)
BY DEF kMaxStackDepth

LEMMA PushKeepsOrder ==
    ASSUME NEW m, InOrder(m), currentScreen(m) \in Lists,
           NEW t \in Screens \ {"Root"}, Opens(currentScreen(m), t),
           currentScreen(m) # "Root" => t \notin Lists,
           ItemActions[currentScreen(m)][m.scroll[currentScreen(m)].selected + 1] = Push(t)
    PROVE  InOrder(pushScreen(m, t)) /\ pushScreen(m, t).asks = m.asks
<1> DEFINE s == currentScreen(m)
           w == [m EXCEPT !.stack = Append(m.stack, t)]
<1>1. m \in MenuState /\ Len(m.stack) \in 1..2 /\ m.stack \in Seq(Screens)
      /\ m.stack[1] = "Root"
  BY Top DEF InOrder, MenuState, Way
<1>2. w \in MenuState
  <2>1. Append(m.stack, t) \in Seq(Screens)
    BY <1>1
  <2> QED BY <1>1, <2>1 DEF MenuState
<1>3. /\ w.stack = Append(m.stack, t) /\ w.scroll = m.scroll /\ w.asks = m.asks
      /\ w.resume = m.resume /\ w.browse = m.browse
  BY <1>1 DEF MenuState
<1>4. pushScreen(m, t) = onEnter(w, t)
  <2>1. Len(m.stack) \in 1..2
    BY <1>1
  <2>2. ~(Len(m.stack) >= kMaxStackDepth)
    BY <2>1, OneOrTwo
  <2> QED BY <2>2 DEF pushScreen
<1> HIDE DEF w
<1>5. Way(w.stack, w.scroll)
  <2>1. CASE Len(m.stack) = 1
    <3>1. s = "Root"
      BY <2>1, Top
    <3>2. Len(w.stack) = 2 /\ w.stack[1] = "Root" /\ w.stack[2] = t
      BY <1>1, <1>3, <2>1
    <3> QED BY <3>1, <3>2 DEF Way
  <2>2. CASE Len(m.stack) = 2
    <3>1. s = m.stack[2] /\ s # "Root" /\ Opens("Root", s)
      BY <2>2, Top DEF currentScreen, InOrder, Way
    <3>2. /\ Len(w.stack) = 3 /\ w.stack[1] = "Root" /\ w.stack[2] = s /\ w.stack[3] = t
      BY <1>1, <1>3, <2>2, <3>1
    <3> QED BY <1>3, <3>1, <3>2 DEF Way
  <2> QED BY <1>1, <2>1, <2>2
<1>6. InOrder(w)
  BY <1>2, <1>3, <1>5 DEF InOrder
<1>7. CASE t \in Lists
  <2> DEFINE c == resetScroll(ItemCount(t), w.scroll[t])
  <2>1. c \in Scroll /\ Shown(ItemCount(t), c)
    BY <1>2, <1>6, <1>7, Counts, CursorMoves DEF InOrder, MenuState
  <2>2. Len(w.stack) # 3
    <3>1. s = "Root"
      BY <1>7
    <3>2. ~(Len(m.stack) > 1)
      BY <3>1, Top
    <3>3. Len(m.stack) = 1
      <4>1. Len(m.stack) \in 1..2
        BY <1>1
      <4> QED BY <3>2, <4>1, OneOrTwo
    <3>4. Len(w.stack) = 2
      BY <1>1, <1>3, <3>3
    <3> QED BY <3>4
  <2>3. onEnter(w, t) = [w EXCEPT !.scroll[t] = c]
    BY <1>7 DEF onEnter
  <2> HIDE DEF c
  <2>4. InOrder([w EXCEPT !.scroll[t] = c]) /\ [w EXCEPT !.scroll[t] = c].asks = w.asks
    BY <1>6, <1>7, <2>1, <2>2, CursorChanged
  <2> QED BY <1>3, <1>4, <2>3, <2>4
<1>8. CASE t \notin Lists
  BY <1>3, <1>4, <1>6, <1>8 DEF onEnter
<1> QED BY <1>7, <1>8

LEMMA PopKeepsOrder ==
    ASSUME NEW m, InOrder(m)
    PROVE  InOrder(popScreen(m)) /\ popScreen(m).asks = m.asks
<1> DEFINE w == [m EXCEPT !.stack = SubSeq(m.stack, 1, Len(m.stack) - 1)]
<1>1. m \in MenuState /\ Len(m.stack) \in 1..3 /\ m.stack \in Seq(Screens)
  BY Top DEF InOrder, MenuState
<1>2. CASE Len(m.stack) <= 1
  BY <1>2 DEF popScreen
<1>3. CASE Len(m.stack) > 1
  <2>1. popScreen(m) = w
    BY <1>1, <1>3 DEF popScreen
  <2>2. SubSeq(m.stack, 1, Len(m.stack) - 1) \in Seq(Screens)
    BY <1>1, <1>3
  <2>3. w \in MenuState
    BY <1>1, <2>2 DEF MenuState
  <2>4. /\ w.stack = SubSeq(m.stack, 1, Len(m.stack) - 1) /\ w.scroll = m.scroll
        /\ w.asks = m.asks /\ w.resume = m.resume /\ w.browse = m.browse
    BY <1>1 DEF MenuState
  <2> HIDE DEF w
  <2>5. Len(w.stack) = Len(m.stack) - 1 /\ \A i \in 1..Len(w.stack) : w.stack[i] = m.stack[i]
    BY <1>1, <1>3, <2>4
  <2>6. Way(w.stack, w.scroll)
    BY <1>1, <1>3, <2>5 DEF InOrder, Way
  <2> QED BY <2>1, <2>3, <2>4, <2>6 DEF InOrder
<1> QED BY <1>1, <1>2, <1>3

LEMMA LeavingKeepsOrder ==
    ASSUME NEW m, InOrder(m), currentScreen(m) \in Lists, NEW profile \in Profiles
    PROVE  InOrder(LeaveMenu(m, profile)) /\ LeaveMenu(m, profile).asks = profile
<1> DEFINE w == [m EXCEPT !.resume = currentScreen(m), !.browse = FALSE, !.asks = profile]
<1>1. m \in MenuState /\ currentScreen(m) \in Screens /\ profile \in Asks
  BY Top DEF InOrder, Asks
<1>2. w \in MenuState
  BY <1>1 DEF MenuState
<1>3. w.stack = m.stack /\ w.scroll = m.scroll /\ w.resume = currentScreen(m)
      /\ w.asks = profile
  BY <1>1 DEF MenuState
<1> HIDE DEF w
<1>4. InOrder(w)
  BY <1>2, <1>3, Top DEF InOrder
<1> QED BY <1>3, <1>4 DEF LeaveMenu, w

LEMMA SelectKeepsOrder ==
    ASSUME NEW m, InOrder(m)
    PROVE  /\ InOrder(Select(m))
           /\ Select(m).asks = "resetPairing" =>
                 currentScreen(m) = "PairingResetConfirm" \/ m.asks = "resetPairing"
<1> DEFINE s == currentScreen(m)
<1>1. CASE s \in Lists
  <2> DEFINE i == m.scroll[s].selected + 1
             item == ItemActions[s][i]
  <2>1. i \in 1..ItemCount(s)
    <3>1. m.scroll[s] \in Scroll /\ Shown(ItemCount(s), m.scroll[s])
      BY <1>1 DEF InOrder, MenuState
    <3>2. ItemCount(s) \in Nat
      BY <1>1, Counts
    <3> QED BY <3>1, <3>2 DEF Scroll, Shown
  <2>2. ItemLeads(s, item)
    BY <1>1, <2>1, ItemsLead
  <2>3. Select(m) = applyNavigationResult(m, item)
    <3>1. s # "PairingResetConfirm"
      BY <1>1 DEF Lists
    <3> QED BY <1>1, <3>1 DEF Select
  <2>4. CASE item = Pop
    BY <2>3, <2>4, PopKeepsOrder DEF applyNavigationResult, Pop
  <2>5. CASE item.action = "ActivateProfile" /\ item.to \in Profiles
    <3>1. Select(m) = LeaveMenu(m, item.to)
      BY <2>3, <2>5 DEF applyNavigationResult
    <3>2. item.to # "resetPairing"
      BY <2>5 DEF Profiles
    <3> HIDE DEF item
    <3> QED BY <1>1, <2>5, <3>1, <3>2, LeavingKeepsOrder
  <2>6. CASE /\ item = Push(item.to) /\ item.to \in Screens \ {"Root"}
             /\ s # "Root" => item.to \notin Lists
    <3> DEFINE t == item.to
    <3>1. item.action = "Push"
      BY <2>6 DEF Push
    <3>2. Select(m) = pushScreen(m, t)
      BY <2>3, <3>1 DEF applyNavigationResult
    <3>3. Opens(s, t)
      BY <2>1, <2>6 DEF Opens
    <3>4. ItemActions[s][m.scroll[s].selected + 1] = Push(t)
      BY <2>6
    <3> HIDE DEF t, item, i
    <3>5. t \in Screens \ {"Root"} /\ (s # "Root" => t \notin Lists)
      BY <2>6 DEF t
    <3> QED BY <1>1, <3>2, <3>3, <3>4, <3>5, PushKeepsOrder
  <2> QED BY <2>2, <2>4, <2>5, <2>6 DEF ItemLeads
<1>2. CASE s = "PairingResetConfirm"
  <2> DEFINE w == [m EXCEPT !.asks = "resetPairing"]
  <2>1. m \in MenuState
    BY DEF InOrder
  <2>2. w \in MenuState
    BY <2>1 DEF MenuState, Asks
  <2>3. w.stack = m.stack /\ w.scroll = m.scroll /\ w.resume = m.resume
    BY <2>1 DEF MenuState
  <2> HIDE DEF w
  <2>4. InOrder(w)
    BY <2>2, <2>3 DEF InOrder
  <2>5. Select(m) = popScreen(w)
    BY <1>2 DEF Select, Lists, w
  <2> QED BY <1>2, <2>4, <2>5, PopKeepsOrder
<1>3. CASE s \notin Lists /\ s # "PairingResetConfirm"
  BY <1>3 DEF Select
<1> QED BY <1>1, <1>2, <1>3

LEMMA MovesKeepOrder ==
    ASSUME NEW m, InOrder(m), NEW n \in Nat, NEW steps \in [1..n -> {"Up", "Down"}]
    PROVE  /\ InOrder(Moves(m, steps))
           /\ Moves(m, steps).stack = m.stack
           /\ Moves(m, steps).asks = m.asks
<1> DEFINE G == {x \in MenuState : InOrder(x) /\ x.stack = m.stack /\ x.asks = m.asks}
<1>1. m \in G
  BY DEF InOrder
<1>2. \A x \in G : \A step : Move(x, step) \in G
  <2> SUFFICES ASSUME NEW x \in G, NEW step PROVE Move(x, step) \in G
    OBVIOUS
  <2>1. InOrder(Move(x, step)) /\ Move(x, step).stack = x.stack /\ Move(x, step).asks = x.asks
    BY MoveKeepsOrder
  <2> QED BY <2>1 DEF InOrder
<1>3. Len(steps) = n
  OBVIOUS
<1> HIDE DEF G
<1>4. Moves(m, steps) \in G
  BY <1>1, <1>2, <1>3, MovesKeep
<1> QED BY <1>4 DEF G

\* A tick takes the presses in order, and a reset of the pairing only where the
\* tick found its question on the display.
LEMMA InputKeepsOrder ==
    ASSUME NEW m, InOrder(m), m.asks # "resetPairing",
           NEW cycle \in BOOLEAN, NEW A \in BOOLEAN, NEW B \in BOOLEAN,
           NEW n \in Nat, NEW steps \in [1..n -> {"Up", "Down"}]
    PROVE  /\ InOrder(handleInteractiveOledMenuInput(m, cycle, steps, A, B))
           /\ handleInteractiveOledMenuInput(m, cycle, steps, A, B).asks = "resetPairing" =>
                 currentScreen(m) = "PairingResetConfirm"
<1> DEFINE cycled == IF cycle THEN ModeDown(m) ELSE m
           moved == Moves(cycled, steps)
           selected == IF A THEN Select(moved) ELSE moved
           left == IF B THEN popScreen(selected) ELSE selected
<1>1. InOrder(cycled) /\ cycled.stack = m.stack /\ cycled.asks = m.asks
  BY MoveKeepsOrder DEF ModeDown
<1> HIDE DEF cycled
<1>2. InOrder(moved) /\ moved.stack = m.stack /\ moved.asks = m.asks
  BY <1>1, MovesKeepOrder
<1> HIDE DEF moved
<1>3. /\ InOrder(selected)
      /\ selected.asks = "resetPairing" => currentScreen(moved) = "PairingResetConfirm"
  BY <1>2, SelectKeepsOrder
<1> HIDE DEF selected
<1>4. InOrder(left) /\ left.asks = selected.asks
  BY <1>3, PopKeepsOrder
<1>5. currentScreen(moved) = currentScreen(m)
  BY <1>2 DEF currentScreen
<1>6. handleInteractiveOledMenuInput(m, cycle, steps, A, B) = left
  BY DEF handleInteractiveOledMenuInput, left, selected, moved, cycled
<1> HIDE DEF left
<1> QED BY <1>3, <1>4, <1>5, <1>6

LEMMA ResumingKeepsOrder ==
    ASSUME NEW m, InOrder(m)
    PROVE  InOrder(resumeAt(m, m.resume)) /\ resumeAt(m, m.resume).asks = m.asks
<1> DEFINE t == m.resume
           way == IF t = "Root" THEN <<"Root">> ELSE <<"Root", t>>
           w == [m EXCEPT !.stack = way]
           c == resetScroll(ItemCount(t), w.scroll[t])
<1>1. m \in MenuState /\ t \in Lists /\ (t # "Root" => Opens("Root", t))
  BY DEF InOrder, Lists
<1>2. way \in Seq(Screens) /\ Len(way) \in 1..2 /\ way[1] = "Root"
      /\ (Len(way) > 1 => way[2] = t /\ t # "Root")
  <2>1. "Root" \in Screens /\ t \in Screens
    BY <1>1 DEF Screens, Lists
  <2>2. CASE t = "Root"
    <3>1. way = <<"Root">>
      BY <2>2
    <3> QED BY <2>1, <3>1
  <2>3. CASE t # "Root"
    <3>1. way = <<"Root", t>>
      BY <2>3
    <3> HIDE DEF way, t
    <3> QED BY <2>1, <2>3, <3>1
  <2> QED BY <2>2, <2>3
<1> HIDE DEF way
<1>3. w \in MenuState
  BY <1>1, <1>2 DEF MenuState
<1>4. /\ w.stack = way /\ w.scroll = m.scroll /\ w.resume = m.resume /\ w.asks = m.asks
  BY <1>1 DEF MenuState
<1>5. resumeAt(m, m.resume) = [w EXCEPT !.scroll[t] = c]
  BY <1>1 DEF resumeAt, onEnter, way
<1> HIDE DEF w
<1>6. Way(w.stack, w.scroll)
  BY <1>1, <1>2, <1>4 DEF Way
<1>7. InOrder(w)
  BY <1>3, <1>4, <1>6 DEF InOrder
<1>8. c \in Scroll /\ Shown(ItemCount(t), c)
  BY <1>1, <1>3, <1>7, Counts, CursorMoves DEF InOrder, MenuState
<1>9. Len(w.stack) # 3
  <2>1. Len(w.stack) \in 1..2
    BY <1>2, <1>4
  <2> QED BY <2>1
<1> HIDE DEF c, t
<1> QED BY <1>1, <1>4, <1>5, <1>7, <1>8, <1>9, CursorChanged

-----------------------------------------------------------------------------
(* The specification.                                                      *)

MenuInv == InOrder(Menu) /\ menuAsks \in Asks

LEMMA MenuTaken ==
    ASSUME NEW m, InOrder(m), MenuIs(m)
    PROVE  MenuInv'
<1>1. m \in MenuState
  BY DEF InOrder
<1>2. menuAsks' \in Asks
  BY <1>1 DEF MenuIs, MenuState
<1> DEFINE w == Menu'
<1>3. w.stack = m.stack /\ w.scroll = m.scroll /\ w.resume = m.resume /\ w.browse = m.browse
  BY DEF Menu, MenuIs
<1>4. w = [stack |-> m.stack, scroll |-> m.scroll, resume |-> m.resume,
           browse |-> m.browse, asks |-> "nothing"]
  BY DEF Menu, MenuIs
<1>5. w \in MenuState
  <2>1. /\ m.stack \in Seq(Screens) /\ m.scroll \in [Lists -> Scroll] /\ m.resume \in Screens
        /\ m.browse \in BOOLEAN /\ "nothing" \in Asks
    BY <1>1 DEF MenuState, Asks
  <2> QED BY <1>4, <2>1 DEF MenuState
<1> HIDE DEF w
<1>6. InOrder(w)
  BY <1>3, <1>5 DEF InOrder
<1> QED BY <1>2, <1>6 DEF MenuInv, w

LEMMA MenuStarts == MenuInit => MenuInv
<1> SUFFICES ASSUME MenuInit PROVE MenuInv
  OBVIOUS
<1>1. /\ Menu.stack = <<"Root">> /\ Menu.resume = "Root"
      /\ Menu.scroll = [s \in Lists |-> [selected |-> 0, first |-> 0]]
  BY DEF Menu, MenuInit
<1>2. Menu \in MenuState
  BY DEF Menu, MenuInit, MenuState, Screens, Lists, Asks, Scroll
<1>3. Way(Menu.stack, Menu.scroll)
  BY <1>1 DEF Way
<1>4. \A s \in Lists : Shown(ItemCount(s), Menu.scroll[s])
  <2> SUFFICES ASSUME NEW s \in Lists PROVE Shown(ItemCount(s), Menu.scroll[s])
    OBVIOUS
  <2>1. ItemCount(s) \in {3, 6} /\ Menu.scroll[s] = [selected |-> 0, first |-> 0]
    BY <1>1, Counts
  <2> QED BY <2>1 DEF Shown, kVisibleLineCount
<1>5. menuAsks \in Asks
  BY DEF MenuInit, Asks
<1> QED BY <1>1, <1>2, <1>3, <1>4, <1>5 DEF MenuInv, InOrder

LEMMA MenuSteps == MenuInv /\ [MenuNext]_menuVars => MenuInv'
<1> SUFFICES ASSUME MenuInv, [MenuNext]_menuVars PROVE MenuInv'
  OBVIOUS
<1>a. InOrder(Menu) /\ Menu.asks # "resetPairing"
  BY DEF MenuInv, Menu
<1>1. CASE MenuTick
  <2>1. PICK cycle \in BOOLEAN, A \in BOOLEAN, B \in BOOLEAN, steps \in DpadSteps :
           MenuIs(handleInteractiveOledMenuInput(Menu, cycle, steps, A, B))
    BY <1>1 DEF MenuTick
  <2>2. PICK n \in 0..MaxDpadSteps : steps \in [1..n -> {"Up", "Down"}]
    BY DEF DpadSteps
  <2>3. n \in Nat
    BY MenuAssumption
  <2> DEFINE m == handleInteractiveOledMenuInput(Menu, cycle, steps, A, B)
  <2>4. InOrder(m)
    BY <1>a, <2>2, <2>3, InputKeepsOrder
  <2> HIDE DEF m
  <2>5. MenuIs(m)
    BY <2>1 DEF m
  <2> QED BY <2>4, <2>5, MenuTaken
<1>2. CASE MenuResumes
  <2> DEFINE w == [Menu EXCEPT !.browse = TRUE]
             m == resumeAt(w, w.resume)
  <2>1. Menu \in MenuState
    BY <1>a DEF InOrder
  <2>2. w \in MenuState
    BY <2>1 DEF MenuState
  <2>3. w.stack = Menu.stack /\ w.scroll = Menu.scroll /\ w.resume = Menu.resume
        /\ w.resume = menuResume
    BY DEF Menu
  <2>4. MenuIs(resumeAt(w, menuResume))
    BY <1>2 DEF MenuResumes
  <2> HIDE DEF w
  <2>5. InOrder(w)
    BY <1>a, <2>2, <2>3 DEF InOrder
  <2>6. InOrder(m) /\ MenuIs(m)
    BY <2>3, <2>4, <2>5, ResumingKeepsOrder
  <2> HIDE DEF m
  <2> QED BY <2>6, MenuTaken
<1>3. CASE UNCHANGED menuVars
  <2>1. Menu' = Menu /\ menuAsks' = menuAsks
    BY <1>3 DEF menuVars, Menu
  <2> DEFINE w == Menu'
  <2>2. w = Menu
    BY <2>1
  <2> HIDE DEF w
  <2>3. InOrder(w)
    BY <1>a, <2>2
  <2> QED BY <2>1, <2>3 DEF MenuInv, w
<1> QED BY <1>1, <1>2, <1>3 DEF MenuNext

\* The menu is in order after any number of ticks, each with any presses, and
\* however often it is left with a profile and comes back.
THEOREM MenuInvariant == MenuSpec => []MenuInv
BY MenuStarts, MenuSteps, PTL DEF MenuSpec

\* The type invariant, with the bound of the stack.
THEOREM MenuTypeCorrect == MenuSpec => []MenuTypeOK
<1>1. MenuInv => MenuTypeOK
  <2> SUFFICES ASSUME MenuInv PROVE MenuTypeOK
    OBVIOUS
  <2>1. Menu \in MenuState /\ Len(Menu.stack) \in 1..3
    BY DEF MenuInv, InOrder, Way
  <2>2. /\ Menu.stack = menuStack /\ Menu.scroll = menuScroll /\ Menu.resume = menuResume
        /\ Menu.browse = menuBrowse
    BY DEF Menu
  <2>3. /\ menuStack \in Seq(Screens) /\ menuScroll \in [Lists -> Scroll]
        /\ menuResume \in Screens /\ menuBrowse \in BOOLEAN
    BY <2>1, <2>2 DEF MenuState
  <2>4. Len(menuStack) \in 1..kMaxStackDepth
    BY <2>1, <2>2 DEF kMaxStackDepth
  <2>5. menuAsks \in Asks
    BY DEF MenuInv
  <2> QED BY <2>3, <2>4, <2>5 DEF MenuTypeOK, Scroll, Asks, Profiles
<1> QED BY <1>1, MenuInvariant, PTL

\* Every list shows its cursor, also those that are not on the display.
THEOREM WindowShowsCursorHolds == MenuSpec => []WindowShowsCursor
<1>1. MenuInv => WindowShowsCursor
  <2> SUFFICES ASSUME MenuInv, NEW s \in Lists
               PROVE  LET count == ItemCount(s)
                          scroll == menuScroll[s]
                      IN  /\ scroll.selected \in visibleItems(count, scroll)
                          /\ count > kVisibleLineCount => scroll.first + kVisibleLineCount <= count
                          /\ count <= kVisibleLineCount => scroll.first = 0
    BY DEF WindowShowsCursor
  <2> DEFINE count == ItemCount(s)
             scroll == menuScroll[s]
  <2>1. count \in {3, 6} /\ scroll \in Scroll /\ Shown(count, scroll)
    BY Counts DEF MenuInv, InOrder, Menu, MenuState
  <2> HIDE DEF count, scroll
  <2>2. /\ scroll.selected \in Nat /\ scroll.first \in Nat
        /\ scroll.selected - scroll.first \in 0..3 /\ scroll.selected \in 0..(count - 1)
        /\ scroll.selected = scroll.first + (scroll.selected - scroll.first)
    BY <2>1 DEF Scroll, Shown, kVisibleLineCount
  <2>3. scroll.selected \in visibleItems(count, scroll)
    BY <2>2 DEF visibleItems, kVisibleLineCount
  <2> QED BY <2>1, <2>3 DEF Shown, count, scroll
<1> QED BY <1>1, MenuInvariant, PTL

\* The stack is a way through the menu at every moment.
THEOREM StackIsPathHolds == MenuSpec => []StackIsPath
<1>1. MenuInv => StackIsPath
  <2> SUFFICES ASSUME MenuInv PROVE StackIsPath
    OBVIOUS
  <2>1. Way(menuStack, menuScroll)
    BY DEF MenuInv, InOrder, Menu
  <2> QED BY <2>1 DEF Way, StackIsPath, Lists
<1> QED BY <1>1, MenuInvariant, PTL

\* No tick resets the pairing unless its question stood on the display before.
THEOREM ResetIsConfirmed == MenuSpec => ResetWasConfirmed
<1>1. ASSUME MenuInv, [MenuNext]_menuVars
      PROVE  [menuAsks' = "resetPairing" =>
                 menuStack[Len(menuStack)] = "PairingResetConfirm"]_menuVars
  <2>a. InOrder(Menu) /\ Menu.asks = "nothing"
    BY <1>1 DEF MenuInv, Menu
  <2>b. currentScreen(Menu) = menuStack[Len(menuStack)]
    BY DEF currentScreen, Menu
  <2>1. CASE MenuTick
    <3>1. PICK cycle \in BOOLEAN, A \in BOOLEAN, B \in BOOLEAN, steps \in DpadSteps :
             MenuIs(handleInteractiveOledMenuInput(Menu, cycle, steps, A, B))
      BY <2>1 DEF MenuTick
    <3>2. PICK n \in 0..MaxDpadSteps : steps \in [1..n -> {"Up", "Down"}]
      BY DEF DpadSteps
    <3>3. n \in Nat
      BY MenuAssumption
    <3>4. handleInteractiveOledMenuInput(Menu, cycle, steps, A, B).asks = "resetPairing" =>
             currentScreen(Menu) = "PairingResetConfirm"
      BY <2>a, <3>2, <3>3, InputKeepsOrder
    <3> QED BY <2>b, <3>1, <3>4 DEF MenuIs
  <2>2. CASE MenuResumes
    <3> DEFINE w == [Menu EXCEPT !.browse = TRUE]
    <3>1. Menu \in MenuState
      BY <2>a DEF InOrder
    <3>2. w \in MenuState
      BY <3>1 DEF MenuState
    <3>3. w.stack = Menu.stack /\ w.scroll = Menu.scroll /\ w.resume = Menu.resume
          /\ w.resume = menuResume /\ w.asks = "nothing"
      BY DEF Menu
    <3>4. menuAsks' = resumeAt(w, menuResume).asks
      BY <2>2 DEF MenuResumes, MenuIs
    <3> HIDE DEF w
    <3>5. InOrder(w)
      BY <2>a, <3>2, <3>3 DEF InOrder
    <3>6. menuAsks' = "nothing"
      BY <3>3, <3>4, <3>5, ResumingKeepsOrder
    <3> QED BY <3>6
  <2> QED BY <1>1, <2>1, <2>2 DEF MenuNext
<1> QED BY <1>1, MenuInvariant, PTL DEF MenuSpec, ResetWasConfirmed

=============================================================================
