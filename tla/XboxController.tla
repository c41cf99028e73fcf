---------------------------- MODULE XboxController ----------------------------
(***************************************************************************)
(* The leader's Xbox controller: the task that keeps the Bluetooth link    *)
(* up (scan or direct connection, encryption, subscription), the tick of   *)
(* the main loop that reports it, the callback that counts presses and the *)
(* loop that takes them.  The task is cut where it waits for the radio,    *)
(* and both sides of the press counters between their load and store; the  *)
(* tick is one step, for it takes far less than any of these waits.        *)
(*                                                                         *)
(* The controller and the radio are external: the controller is switched   *)
(* on and off, and a connection, an encryption or a subscription fails     *)
(* when the controller is off or at one of MaxPadFaults faults.  Left out: *)
(* the state shown on the display, the sticks and the D-pad, the report's  *)
(* age, and the branch of runLoop that subscribes again on a live link,    *)
(* which PairedIsSecured shows to have nothing to do.                      *)
(***************************************************************************)
EXTENDS Naturals

CONSTANTS
    PadButtons,    \* buttons whose presses are counted
    kMaxPending,   \* 255: where the counters stop
    MaxPresses,    \* how often a button is pressed at all
    MaxPadFaults   \* switches of the controller and faults of the radio

ASSUME PadAssumption == {kMaxPending, MaxPresses, MaxPadFaults} \subseteq Nat

VARIABLES
    padOn,         \* external: is the controller switched on?
    padLink,       \* external: is the client connected?
    padNotify,     \* external: does the controller send its reports?
    padPc,         \* where the task waits
    padCached,     \* does it try the stored address?
    linkEncrypted,
    inputSubscribed,
    controllerPaired,
    padKnown,      \* is an address stored?
    bootFullScanPending,
    backgroundReconnectDeferred,
    padHeld,       \* external: the buttons held down
    pressedLast,   \* the buttons down in the last report
    pendingCount,  \* presses not yet taken, of each button
    padRegisters,  \* presses the callback has loaded the counters for
    padTakes,      \* the counters the loop has loaded
    padPresses,    \* bound: presses so far
    padFaults      \* bound: faults so far

padBle == <<padLink, padNotify, linkEncrypted, inputSubscribed>>
padTask == <<padPc, padCached, padKnown, bootFullScanPending>>
padInput == <<pressedLast, pendingCount, padRegisters, padTakes>>
padEnv == <<padOn, backgroundReconnectDeferred, padHeld, padPresses, padFaults>>
padVars == <<padBle, padTask, controllerPaired, padInput, padEnv>>

isReadyForTeleop == linkEncrypted /\ inputSubscribed

(***************************************************************************)
(* The task (runLoop).                                                     *)
(***************************************************************************)
\* A step of the radio the task waits for, which fails with a link that is
\* gone, and at a fault.
Fault == padFaults < MaxPadFaults /\ padFaults' = padFaults + 1
Works == padOn /\ UNCHANGED padFaults
Fails == (~padOn /\ UNCHANGED padFaults) \/ (padOn /\ Fault)

tearDownBleClient ==
    /\ padLink' = FALSE /\ padNotify' = FALSE
    /\ linkEncrypted' = FALSE /\ inputSubscribed' = FALSE

\* Mutant: no scan at all while the arm is mirrored.
ScanIfNotDeferred(scan) == IF scan /\ ~backgroundReconnectDeferred THEN "scan" ELSE "top"

\* Where the task goes when it has no connection to try: the first scan after
\* boot is made though the arm is mirrored.
NextScan(scan) == IF scan \/ ~backgroundReconnectDeferred THEN "scan" ELSE "top"

\* A connection or its handshake failed: the direct one is followed by a scan.
Failed ==
    /\ tearDownBleClient
    /\ padPc' = IF padCached THEN NextScan(FALSE) ELSE "top"
    /\ UNCHANGED <<padCached, padKnown, bootFullScanPending>>

\* Mutant: what the tick set stays set.
DisconnectedKeepsPaired ==
    /\ padPc = "top" /\ ~padLink
    /\ tearDownBleClient
    /\ padCached' = (~bootFullScanPending /\ padKnown)
    /\ padPc' = IF padCached' THEN "connect" ELSE NextScan(bootFullScanPending)
    /\ UNCHANGED <<controllerPaired, padKnown, bootFullScanPending, padInput, padEnv>>

PadDisconnected ==
    /\ padPc = "top" /\ ~padLink
    /\ tearDownBleClient
    /\ controllerPaired' = FALSE
    /\ padCached' = (~bootFullScanPending /\ padKnown)
    /\ padPc' = IF padCached' THEN "connect" ELSE NextScan(bootFullScanPending)
    /\ UNCHANGED <<padKnown, bootFullScanPending, padInput, padEnv>>

\* scanForController, up to the connection to what it found
PadScan ==
    /\ padPc = "scan"
    /\ padCached' = FALSE
    /\ \/ Works /\ padPc' = "connect"
       \/ Fails /\ padPc' = "top"
    /\ UNCHANGED <<padBle, padKnown, bootFullScanPending, controllerPaired, padInput, padOn,
                   backgroundReconnectDeferred, padHeld, padPresses>>

PadConnect ==
    /\ padPc = "connect"
    /\ \/ /\ Works
          /\ padLink' = TRUE /\ padPc' = "secure"
          /\ linkEncrypted' = FALSE /\ inputSubscribed' = FALSE
          /\ UNCHANGED <<padNotify, padCached, padKnown, bootFullScanPending>>
       \/ Fails /\ Failed
    /\ UNCHANGED <<controllerPaired, padInput, padOn, backgroundReconnectDeferred, padHeld,
                   padPresses>>

\* secureConnection and waitForSecureLink; the address is stored before the
\* subscription, which may still fail.
PadSecure ==
    /\ padPc = "secure"
    /\ \/ /\ padLink /\ Works
          /\ linkEncrypted' = TRUE /\ padPc' = "subscribe"
          /\ padKnown' = TRUE /\ bootFullScanPending' = FALSE
          /\ UNCHANGED <<padLink, padNotify, inputSubscribed, padCached>>
       \/ padLink /\ Fault /\ Failed
       \/ ~padLink /\ UNCHANGED padFaults /\ Failed
    /\ UNCHANGED <<controllerPaired, padInput, padOn, backgroundReconnectDeferred, padHeld,
                   padPresses>>

PadSubscribe ==
    /\ padPc = "subscribe"
    /\ \/ /\ padLink /\ Works
          /\ padNotify' = TRUE /\ inputSubscribed' = TRUE /\ padPc' = "ready"
          /\ UNCHANGED <<padLink, linkEncrypted, padCached, padKnown, bootFullScanPending>>
       \/ padLink /\ Fault /\ Failed
       \/ ~padLink /\ UNCHANGED padFaults /\ Failed
    /\ UNCHANGED <<controllerPaired, padInput, padOn, backgroundReconnectDeferred, padHeld,
                   padPresses>>

\* The end of finishConnectHandshake, of a link the tick may have seen go.
PadReady ==
    /\ padPc = "ready"
    /\ controllerPaired' = isReadyForTeleop
    /\ \/ /\ isReadyForTeleop /\ padPc' = "top"
          /\ UNCHANGED <<padBle, padCached, padKnown, bootFullScanPending>>
       \/ ~isReadyForTeleop /\ Failed
    /\ UNCHANGED <<padInput, padEnv>>

PadTask ==
    \/ PadDisconnected \/ PadScan \/ PadConnect
    \/ PadSecure \/ PadSubscribe \/ PadReady

\* The tick of the loop.
PadTick ==
    /\ controllerPaired' = (padLink /\ isReadyForTeleop)
    /\ linkEncrypted' = (linkEncrypted /\ padLink)
    /\ inputSubscribed' = (inputSubscribed /\ padLink)
    /\ UNCHANGED <<padLink, padNotify, padTask, padInput, padEnv>>

(***************************************************************************)
(* Presses.                                                                *)
(***************************************************************************)
\* Mutant: a button counts in every report that shows it.
RegisterWhileHeld(held) == [b \in PadButtons |-> b \in held]

\* registerButtonPressEdge, for each button of a report
registerButtonPressEdge(held) == [b \in PadButtons |-> b \in held \ pressedLast]

\* The callback finds the edges and loads the counters,
PadReport ==
    /\ padLink /\ padNotify /\ padRegisters = <<>>
    /\ padRegisters' = [b \in PadButtons |->
            [edge |-> registerButtonPressEdge(padHeld)[b], loaded |-> pendingCount[b]]]
    /\ UNCHANGED <<padBle, padTask, controllerPaired, pressedLast, pendingCount, padTakes, padEnv>>

\* Mutant: the counter goes one past where it stops.
CountedPast(n) == IF n <= kMaxPending THEN n + 1 ELSE n

Counted(n) == IF n < kMaxPending THEN n + 1 ELSE n

\* and stores them.  The buttons held at the store are those of the report, for
\* a button moves with the next report at the earliest.
PadReported ==
    /\ padRegisters # <<>>
    /\ pendingCount' = [b \in PadButtons |->
            IF padRegisters[b].edge THEN Counted(padRegisters[b].loaded) ELSE pendingCount[b]]
    /\ pressedLast' = padHeld
    /\ padRegisters' = <<>>
    /\ UNCHANGED <<padBle, padTask, controllerPaired, padTakes, padEnv>>

\* consumeButtonPress of the loop, which also discards.
PadTake ==
    /\ padTakes = <<>>
    /\ padTakes' = pendingCount
    /\ UNCHANGED <<padBle, padTask, controllerPaired, pressedLast, pendingCount, padRegisters,
                   padEnv>>

PadTaken ==
    /\ padTakes # <<>>
    /\ pendingCount' = [b \in PadButtons |->
            IF padTakes[b] = 0 THEN pendingCount[b] ELSE padTakes[b] - 1]
    /\ padTakes' = <<>>
    /\ UNCHANGED <<padBle, padTask, controllerPaired, pressedLast, padRegisters, padEnv>>

discardPendingButtonPress(b) ==
    /\ padTakes = <<>>
    /\ pendingCount' = [pendingCount EXCEPT ![b] = 0]
    /\ UNCHANGED <<padBle, padTask, controllerPaired, pressedLast, padRegisters, padTakes, padEnv>>

(***************************************************************************)
(* What is outside.                                                        *)
(***************************************************************************)
PadButton(b) ==
    /\ padRegisters = <<>>
    /\ IF b \in padHeld THEN UNCHANGED padPresses
       ELSE padPresses < MaxPresses /\ padPresses' = padPresses + 1
    /\ padHeld' = IF b \in padHeld THEN padHeld \ {b} ELSE padHeld \cup {b}
    /\ UNCHANGED <<padBle, padTask, controllerPaired, padInput, padOn,
                   backgroundReconnectDeferred, padFaults>>

PadSwitch ==
    /\ Fault
    /\ padOn' = ~padOn
    /\ padLink' = FALSE /\ padNotify' = FALSE
    /\ UNCHANGED <<linkEncrypted, inputSubscribed, padTask, controllerPaired, padInput,
                   backgroundReconnectDeferred, padHeld, padPresses>>

PadLinkLost ==
    /\ padLink /\ Fault
    /\ padLink' = FALSE /\ padNotify' = FALSE
    /\ UNCHANGED <<linkEncrypted, inputSubscribed, padTask, controllerPaired, padInput, padOn,
                   backgroundReconnectDeferred, padHeld, padPresses>>

\* setBackgroundReconnectDeferred: mirroring starts or stops
PadDefer ==
    /\ backgroundReconnectDeferred' = ~backgroundReconnectDeferred
    /\ UNCHANGED <<padBle, padTask, controllerPaired, padInput, padOn, padHeld, padPresses,
                   padFaults>>

PadInit ==
    /\ padOn \in BOOLEAN
    /\ padLink = FALSE /\ padNotify = FALSE
    /\ padPc = "top" /\ padCached = FALSE
    /\ linkEncrypted = FALSE /\ inputSubscribed = FALSE /\ controllerPaired = FALSE
    /\ padKnown = FALSE /\ bootFullScanPending = TRUE
    /\ backgroundReconnectDeferred = FALSE
    /\ padHeld = {} /\ pressedLast = {}
    /\ pendingCount = [b \in PadButtons |-> 0]
    /\ padRegisters = <<>> /\ padTakes = <<>>
    /\ padPresses = 0 /\ padFaults = 0

PadNext ==
    \/ PadTask \/ PadTick
    \/ PadReport \/ PadReported \/ PadTake \/ PadTaken
    \/ \E b \in PadButtons : discardPendingButtonPress(b) \/ PadButton(b)
    \/ PadSwitch \/ PadLinkLost \/ PadDefer

PadFairness ==
    /\ WF_padVars(PadTask) /\ WF_padVars(PadTick)
    /\ WF_padVars(PadReported) /\ WF_padVars(PadTake) /\ WF_padVars(PadTaken)

PadSpec == PadInit /\ [][PadNext]_padVars /\ PadFairness
------------------------------------------------------------------------------
PadPlaces == {"top", "scan", "connect", "secure", "subscribe", "ready"}

\* Every variable of the controller keeps its type; no interleaving of callback
\* and loop makes a counter wrap.
PadTypeOK ==
    /\ {padOn, padLink, padNotify, padCached, linkEncrypted, inputSubscribed, controllerPaired,
        padKnown, bootFullScanPending, backgroundReconnectDeferred} \subseteq BOOLEAN
    /\ padPc \in PadPlaces
    /\ padHeld \subseteq PadButtons /\ pressedLast \subseteq PadButtons
    /\ pendingCount \in [PadButtons -> 0..kMaxPending]
    /\ \/ padRegisters = <<>>
       \/ padRegisters \in [PadButtons -> [edge : BOOLEAN, loaded : 0..kMaxPending]]
    /\ padTakes = <<>> \/ padTakes \in [PadButtons -> 0..kMaxPending]
    /\ padPresses \in 0..MaxPresses /\ padFaults \in 0..MaxPadFaults

\* On a live link the controller only counts as paired when this very link is
\* encrypted and sends its reports, not on what an earlier one left behind; and
\* the task, which would subscribe again but never encrypt again, does not rest
\* on a link that lacks either.
PairedIsSecured ==
    /\ controllerPaired /\ padLink => isReadyForTeleop /\ padNotify
    /\ padPc = "top" /\ padLink => isReadyForTeleop /\ padNotify

\* A controller that stays on is paired in the end and stays so, though the
\* arm is mirrored all the time: until the first pairing the scans are not
\* deferred, and after it the address is known.
PadReconnects == <>[]padOn => <>[]controllerPaired

\* Once the buttons rest, no press is left, however long one is held and
\* however its reports and the loop interrupt each other.
PressesDrain == <>[](\A b \in PadButtons : pendingCount[b] = 0)
==============================================================================
