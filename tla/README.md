# SO-ARM101 teleoperation: a TLA+ model of the two boards

Two ESP32 boards drive two robot arms. The **leader** board reads the arm an
operator holds; the **follower** board moves its own arm to match. They talk over
ESP-NOW (connectionless radio frames, acknowledged by nobody but the program) or,
in one profile, over a Wi-Fi access point that the leader opens. A dashboard, an
Xbox controller and an OLED menu steer the leader. This directory holds TLA+
modules of the parts where the two boards, their tasks and their radio callbacks
interact, TLC configurations that check them, and proofs for TLAPS.

Paths below are relative to `src/ESP32/src` unless they start with `src/`.

## 1. The system: parts, state, operations

| Part | Where | State it keeps | Operations | Talks to |
|---|---|---|---|---|
| Servo command link | `leader/leader_app_commands*.cpp`, `leader_app_ack_tracking.cpp`, `follower/follower_presence_{queue,inbound,service}.cpp`, `follower_app.cpp` | one tracked request with status, retries and deadline; the follower's queue of 8, last processed command, last acknowledgement | issue, resend, expire; receive, deduplicate, queue, execute, acknowledge | dashboard slot, radio, servo bus |
| Pairing and watchdog | `common/pairing`, `common/peer_pairing_store.cpp`, `leader/leader_presence_service*.cpp`, `follower/follower_presence_*.cpp` | peer address in memory and flash; time of last contact; resets still to broadcast | request, accept, refuse, reset, expire after 45 s, reboot | radio, flash |
| Wi-Fi direct link | `leader/leader_wifi_direct_session.cpp`, `leader_app_wifi_policy.cpp`, `follower/follower_wifi_direct_link.cpp`, `follower_app_wifi_policy.cpp`, `common/wifi` | session id, offer and acknowledgement flags; credentials, join attempts | engage, offer, resend, acknowledge, join, time out, leave | radio, Wi-Fi driver |
| Teleop stream | `leader/leader_teleop_mirror_task*.cpp`, `common/teleop`, `follower/follower_teleop_apply_task.cpp`, `follower_app_teleop.cpp`, `leader_app_teleop_release.cpp` | positions sent last, codec session; slot of one batch, joints prepared, torque and goal of servos | read, encode, send; receive, overwrite, prepare, move; release | radio, servo buses |
| Teleop over Wi-Fi sockets | `*_teleop_wifi_bridge.cpp` | sockets, last batch, pending acknowledgements | send, drain, acknowledge | mirror and apply tasks |
| Haptic feedback | `leader_app_teleop_haptic.cpp`, `common/teleop/teleop_haptic_*`, `follower_teleop_load_sampler_task.cpp` | contact per joint, torque limits | sample, hysteresis, apply | load frames, leader servos |
| Modes and profiles | `leader_app_mode.cpp`, `leader_app_controller_profile.cpp`, `leader_app_wifi_policy.cpp`, `common/app_state_machine.cpp` | profile, mode, home network policy | cycle profile, enter and leave | everything on the leader |
| Startup scan | `leader_app.cpp` | scan request, deadline | request, compare, give up | command link |
| Calibration | `leader_calibration_*workflow.cpp`, `leader_app_commands_calibration.cpp`, `common/calibration` | session of both arms, profiles in flash | start, capture, validate, cancel | command link, servo bus, flash |
| OLED menu | `leader/oled_menu*`, `leader_app_oled_menu.cpp` | stack of screens, selection | move, enter, back, confirm | modes, pairing reset |
| Servo bus and its lock | `common/servo`, `common/lock_manager_freertos.cpp` | owner of the lock, last telemetry | lock with timeout, read, write | all tasks of a board |
| Xbox controller | `leader_xbox_controller_*.cpp` | connection, pending presses | scan, connect, press, discard | modes |
| Telemetry server | `leader_telemetry_*.cpp` | one command slot, clients | receive command, stream | dashboard |
| Home network, OTA | `common/wifi_ota_service.cpp` | connection state, retries | connect, retry, defer | radio |
| Dashboard | `src/ESP32/tools/telemetry_dashboard` | request ids, teleop runtime | allocate, send, poll | telemetry server |
| LED, CPU load, USB log | `common/status_led_service.cpp`, ... | counters | output | nobody |

### What is hard

* **Two cores, no lock.** ESP-NOW callbacks run on the Wi-Fi core; the loop, mirror
  and apply tasks run beside them. The fields of the presence services are shared
  without a lock, so every multi-field update can be seen half done.
* **A lossy radio.** Frames are lost, and sent several times to make up for it
  (bursts of 3 and 6, resends every 200 ms). Copies, late answers and
  answers to earlier requests are normal.
* **Soft state on both ends.** Who is paired with whom, which session is on, which
  joints are prepared: each board holds its own belief, repaired by timeouts,
  watchdogs and keyframes. Reboots lose part of it.
* **Latest wins.** Some slots hold one entry that a newer one overwrites (telemetry
  command, teleop batch, last acknowledgement, load feedback).
* **Many hands on one record.** Buttons, menu, dashboard, acknowledgements and faults
  all call the same handlers of `LeaderApp`, which change a dozen flags each and call
  one another; which of them is current when is nowhere written down.
* **A bus that answers or not.** Two tasks of a board share the servo bus through a
  lock that gives up after a while, and a servo may miss any one request.

`PROJECT.json` lists the hazards at their lines with the properties about them. Of
smaller weight, and not listed there:

* a last resend that is refused leaves `deferHomeStaReconnect_` set
  (`leader/leader_app_ack_tracking.cpp:83`), and the result of switching torque off at
  a release is dropped (`follower/follower_app.cpp:255`);
* request ids of the dashboard start at one again when it restarts
  (`src/ESP32/tools/telemetry_dashboard/dashboard_server.py:71`);
* the startup scan compares three fields of the last acknowledgement that the callback
  writes one by one (`leader/leader_app.cpp:233`), and a scan queued behind another is
  one scan (`follower/follower_presence_service.cpp:210`);
* a pair request that is refused is answered with a reset, which makes the follower
  ask at once (`leader/leader_presence_service_handlers.cpp:47`); a flash that cannot be
  erased brings a pairing back (`common/peer_pairing_store.cpp:39`);
* a batch is copied into and out of its slot by two cores
  (`follower/follower_presence_service.cpp:277`); no frame, and so no keyframe, is sent
  while the arm rests (`leader/leader_teleop_mirror_task.cpp:161`); positions wrap at 4096
  (`leader/leader_teleop_mirror_task_internal.cpp:146`);
* session ids are boot times in milliseconds (`common/wifi/wifi_direct_session.cpp:49`);
  no release is sent to a follower that counts as not linked, and none is made up for
  later (`leader/leader_app_teleop_release.cpp:40`).

### What makes each part correct

* Command link: an answer is believed only for the request it answers; copies run
  once; an old command does not run after a newer one; the leader's view of the
  follower settles.
* Pairing: memory and flash agree; a pair changes only by dissolving first; pairs
  form again after disturbances; a dead peer is let go.
* Wi-Fi direct: ready only after a join of this session; the link comes up when the
  user stays, and goes down on both sides when the user leaves.
* Teleop stream: limp after a release; a prepared joint is never limp; joints end up
  where the leader has them in spite of lost frames.
* Modes and profiles: flags of one mode do not outlive it; the arm is mirrored only when
  a profile means it; the radio serves the profile; B leads back to the menu.
* Calibration: a session belongs to one arm and to its profile; cancelling keeps both
  arms' profiles.
* OLED menu: the cursor is visible; the stack is a path; nothing is reset unasked.
* Xbox controller: paired means secured on this link; it comes back; presses drain.
* Haptic feedback: the gripper is stiff only while meant; it is let go in the end; a
  contact is not taken for an idle offset.
* Servo bus: what is reported as done is done; the count shown comes right again.

## 2. Modules

| Module | Models | Checked by |
|---|---|---|
| `CommandLink` | tracker, radio, duplicate filter, queue, execution, acknowledgement | `MCCommandLink` |
| `CommandService` | what the command link promises (abstract) | through `CommandLink!ImplementsService` |
| `Pairing` | several leaders and followers, requests, acks, resets, flash, watchdog | `MCPairing` |
| `WifiDirect` | session of the leader, link of the follower, driver, radio | `MCWifiDirect` |
| `TeleopStream` | mirror task, turbo codec session, slot, apply task, release | `MCTeleopStream` |
| `FollowedArm` | what mirroring promises of the follower's goals (abstract) | through `TeleopStream!ImplementsFollowedArm` |
| `TurboPacket` | packing and unpacking of a turbo frame (operators only) | assumptions of `MCTeleopStream` |
| `Calibration` | capture, commit and cancel of a calibration, the center and its acknowledgement | through `LeaderApp` |
| `LeaderProfiles` | changes of profile and mode, release, radio policy | through `LeaderApp` |
| `LeaderApp` | the tick of the leader's main loop: commands, acknowledgements, buttons, mode | `MCLeaderParts`, `MCLeaderApp` |
| `OledMenu` | screens, stack of the navigator, cursors and windows, confirmation | `MCLeaderParts` |
| `XboxController` | scan, connection, securing, reports, counted presses | `MCLeaderParts` |
| `Haptic` | load sampler with baseline, feedback, contact, torque of the gripper | `MCLeaderParts`, `MCHaptic` |
| `ServoBus` | operations of two tasks on the bus, the lock, servos that miss requests | `MCLeaderParts` |
| `CommandLinkProofs`, `PairingProofs`, `WifiDirectProofs`, `TeleopStreamProofs`, `LeaderAppProofs`, `ControllerProofs`, `HapticProofs`, `ServoBusProofs` | theorems | TLAPS |

All `MC` modules but one only extend what they check; the `.cfg` files hold the values.
`MCLeaderParts` puts the parts of the leader that share no variable side by side:
`LeaderApp` (with `LeaderProfiles` and `Calibration`), `OledMenu`, `XboxController`,
`Haptic` and `ServoBus`. Each meets the others as inputs that take every value: a press
may be noted at any tick, any menu item may be the selected one, mirroring starts and
stops at any time. A property reads the variables of one part, so the variable `part`
names the one that moves and the states are the sum of those of the parts instead of
their product; the fairness of a part is that of its own specification, guarded by
`part`.

Conventions. Variables carry the names of the fields they stand for, in short;
actions those of the functions. A handler is one action where it runs undisturbed
and a chain of actions, driven by a program counter (`pc`, `lpc`, `fpc`, `loopPc`,
`mirrorPc`), where it writes several shared fields. `Preemptive` says whether steps
of other tasks may fall between them: `TRUE` is the program on its two cores,
`FALSE` the program one would get from a lock around each handler. Properties that
need `FALSE` are true only of that, and every such restriction is named below. Definitions
whose comment starts with "Mutant:" are not part of the model; they are small bugs a
property must notice.

**CommandLink.** `Issue`/`IssueUntracked` are `beginCommandTracking`,
`requestServoControl` with its burst, and `awaitFollowerAck`. `TakeAck` and
`RetryOrExpire` are the two halves of `updateFollowerAckTracking`. `StoreStatus` and
`StoreRequest` are the leader's callbacks, which write the acknowledgement in two
steps. `handleServoControlFrame` is the follower's callback: a duplicate is answered
again, a full queue answers Rejected. `Dequeue`, `MarkProcessed`, `Execute`,
`Acknowledge` are `processIncomingServoControl`, `ClearScanFlag`, `ScanBus`,
`AcknowledgeScan` the scan, `PublishAndTick` telemetry and the tick of the presence
service. `log` is history: every outcome the follower produced.

**Pairing.** `SendPairRequest`, `SendPresence`, `AnswerPeer`, `AcceptPeer`,
`SavePeer`, `HandlePairAck`, `HandlePairReset` are the handlers of those names.
`Expire`, `ClearStoreAfterExpiry` are the watchdog; `ResetPairing`, `ClearMac`,
`ClearStoreAndTell`, `BroadcastReset` the reset. `Period` is time. `LeaderReboot`,
`PowerOff`, `PowerOn` keep what flash keeps.

**WifiDirect.** `engageWifiDirectLink`, `SeeAck`, `SeeNoAck`, `Resend`,
`disengageWifiDirectLink`, `handleWifiDirectAck` on the leader. On the follower
`HandleOffer`/`LandOffer` are the callback, which announces an offer before it has
stored its credentials; `ObeySessionEnd`, `TakeOffer`, the five outcomes of
`FollowerWifiDirectLink::tick` and `Settle` are one tick of `syncWifiRadioPolicy`.
`Associate` and `Disassociate` are the driver.

**TeleopStream.** `MirrorCheck` is the guard and the reading of one iteration,
`MirrorSend` the rest with the encoder. `Start`, `Release`, `StopSilently`,
`RetryRelease` are what the loop of the leader does. `HandleBatch` overwrites the
slot. `ForgetPrepared`, `ResetTransport`, `TorqueOff` are `handleDebugDisable`;
`TakeBatch`, `ApplyBatch` the apply task.

**FollowedArm.** The leader's joints, where each was when it was last sent, the batches
that may still take effect, and the goals of the follower. The refinement puts the
batch in the apply task's hands, the one in the slot and those on the air together, in
this order, into one way (`Way`): overwriting the slot and losing a frame lose a batch of
it, and applying one takes the first. `Sent` is the session of the turbo codec or the
history of the mirror task, whichever decides what is sent.

**TurboPacket.** `encodeWithSession` and `decodeWithSession` on sets: a mask is the set of
its bits, a buffer the set of the offsets of the bits set in it. `TeleopStream` hands whole
batches from one to the other; `TurboFramesCarry` is why it may.

**Calibration, LeaderProfiles, LeaderApp.** The members of the class `LeaderApp` are the
fields of one record, `app`, and a handler is an operator from the record it finds to
the one it leaves, named after the function and built from the operators of the
functions it calls, in their order. That order matters: `applyControllerOperationProfile`
stores the new profile first, and what it calls reads it. What a handler finds (the
radio takes a frame or not, a bus or flash that fails, joints that have moved) is its
argument `e`. A tick is five steps: `Core` (prime of the home network, Wi-Fi session,
deferred reconnect), `Command` (at most one of the dashboard), `Acknowledgements`
(tracking, then the pending center), `Input` (menu or buttons) and `Mode`
(`computeModeAndStatus`). Between them the Xbox task notes presses, a timer runs out, and
the leader may restart with what its flash holds. A calibration profile is where it came
from: default, captured, or the static zero.

**OledMenu.** `handleInteractiveOledMenuInput` takes all that waits in one tick: mode
button, D-pad steps, A, B, in this order. `pushScreen`, `popScreen`, `resumeAt` are the
navigator's, `updateScrollWindow`, `moveUp`, `moveDown` the list model's. `menuAsks` is
what the tick asks of `LeaderApp`.

**XboxController.** The task of the controller is a program counter over the steps it
waits in: `PadScan`, `PadConnect`, `PadSecure`, `PadSubscribe`, `PadReady`;
`PadDisconnected` and `PadTick` are what the disconnection and the loop do. A report is
two actions (`PadReport` finds the edges and loads the counters, `PadReported` stores
them) and so is `consumeButtonPress` (`PadTake`, `PadTaken`).

**Haptic.** `LoadSample` is the sampler with its baseline, the frame is the latest only,
`HapticTick` the overlay with `Prime`, `NotEngaged`, `Engaged`, `WithoutLoad`. `MirrorStart`,
`MirrorStop`, `HapticWanted` and `UplinkCommand` are what the rest of the leader does to
it, at any time.

**ServoBus.** A task begins an operation (`BusBegins`, which reads the text of the known
ids before it has the lock), takes the lock or gives up (`BusTake`, `BusBusy`) and works
(`scan`, `refreshKnownTelemetrySync`, `moveBatch`, `torqueOff`, `setServoId`,
`positionMode`, `wheelMode`, the four sections of a calibration). `Requests` applies the
requests of an operation in their order and, at a fault, ends it after any of them,
the last of which the servo may have heard.

`CommandLink` is refined to `CommandService` and `TeleopStream` to `FollowedArm`.
`TeleopStream` and `LeaderApp` use of the
command link only what `CommandLinkRaces` and `CommandLinkSerial` check: a command is
resent until the follower has it or the leader gives up, and copies of it run once.
`LeaderApp` sees of `WifiDirect` whether the session is ready, which `ReadyWasAcked` is
about.

## 3. Runs

Constants of bursts, capacities, retries and timeouts are small stand-ins: what
matters to the properties is that a bound can be hit (a full queue, a last retry, an
expired watchdog, a due keyframe), which happens with 1 or 2 as it does with 8 or 6.

| Run | Shows | Bounds |
|---|---|---|
| `CommandLinkRaces` | `TypeOK`, `AppliedWasHandled`, `TrackedNotOvertaken` with callbacks anywhere | two ids, a tracked DebugDisable or TeleopMirror and an untracked command, queue of 1 (fills), two frames down, burst of 2, one retry |
| `CommandLinkSerial` | `NoImmediateRepeat`, `AppliedWasApplied`, `ImplementsService` when handlers are undisturbed | one id, which a restart uses again, scan and queued command, mirror batches, burst 2, one retry |
| `CommandLinkLive` | `ViewConverges`: the leader's debug flag settles on the follower's | two debug commands, any losses |
| `PairingLeaders` | `TypeOK`, `StoreMatchesMemory`, `PairingKept`, `NoFalsePair`, `Converges` with two leaders | one follower, one disturbance (loss, reset, reboot, power cut, failed save), commands of the leaders, two periods to time out |
| `PairingExpiry` | violation of `Expires` | two followers |
| `WifiDirectSafe` | `TypeOK`, `ReadyWasAcked`, `LinkDissolves` | two sessions, two attempts, any two of eleven kinds of fault, callbacks anywhere |
| `WifiDirectUp` | `LinkEstablished` after faults the code recovers from | two faults, two sessions |
| `TeleopStreamTurbo` | `TypeOK`, `ReleaseHolds`, `PreparedHasTorque`, `Heals`, `ImplementsFollowedArm` | two joints (one moves, one rests), two positions, keyframe at latest every second frame, one release, one lost frame |
| `TeleopStreamRelease` | violation of `ReleaseHolds` | classic codec, no fault, callbacks anywhere |
| `LeaderParts` | the invariants and properties of `LeaderApp`, `OledMenu`, `XboxController`, `Haptic`, `ServoBus` | see below; 370 871 states |
| `LeaderAppCancel` | violation of `CancelKeepsProfiles` | both calibration profiles in the menu, no dashboard |
| `HapticContact` | violation of `ContactNotAbsorbed` | two loads, no fault |

The parts of `LeaderParts`:

* `LeaderApp` (72 544 states): five profiles in the menu, one of each kind but that the
  three ESP-NOW ones are one (the transport is the only difference between them);
  starting and stopping of mirroring, the switch to ESP-NOW and the end of a calibration
  from the dashboard. No arm's profile is followed (`Followed = {}`): the properties of
  this run do not read them, and `LeaderAppCancel` follows both. The other commands,
  among them the switch to Wi-Fi from the dashboard, are in the module, and the proofs
  of all its properties but `CancelKeepsProfiles` are for all of them, for all profiles
  and for any sets of faults.
* `OledMenu` (13 788): every screen; up to two D-pad steps, the mode button, A and B in
  one tick, which is enough for a press to land on a screen the same tick has opened.
* `XboxController` (30 520): one button, counters that stop at two, three presses, so
  that one is refused; two faults of connection or link.
* `Haptic` (224 264): one load that rests and one that engages; one fault of six kinds.
* `ServoBus` (29 755): two servos and three ids, so that an id can be free or taken; one
  fault; three sets of operations of the loop against a refresh of the other task.

`part` starts in each of five ways and does not change; the deadlock check is on. TLC
counts `PartsNext` as one action; run with `-coverage` it shows every action and disjunct
of the five modules taken.

Two ids are enough for one command to overtake another and for an answer to be
taken for the other's; one id and a restart for an answer from before the restart.
Two followers or two leaders are enough for a rival. Two sessions are enough for an
acknowledgement of an earlier one. Two joints are enough for a delta of one to
overwrite that of the other. No run disables the deadlock check: every system keeps
running.

### What the violations show

* **`PairingExpiry`.** Every presence frame feeds the watchdog, whoever sent it
  (`leader/leader_presence_service.cpp:329`). A second, unpaired follower therefore
  keeps the pairing with a dead one alive, where `src/ESP32/docs/esp_now_pairing.md:68`
  says it expires after 45 s.
* **`TeleopStreamRelease`.** A mirror iteration past its check sends after the
  release, or the apply task holds a batch while the loop switches torque off: torque
  comes on again and stays on.

* **`LeaderAppCancel`.** B in a range capture of the follower calls
  `applyControllerOperationProfile`, which stores the next profile before the capture is
  cancelled; whose capture that is, is read from the profile
  (`leader/leader_app_commands_calibration.cpp:204`). The leader's profile is overwritten
  with its backup, which may never have been made, and the follower's stays as captured.
* **`HapticContact`.** Zero stands for "no baseline yet" and is also the baseline of a
  gripper that idles without load (`common/teleop/teleop_load_feedback_codec.cpp:42`). A
  contact that is the first sample, or the first after such an idle time, is taken off
  all that follow.

Things seen while reading that no run is about:

* The result banner of a calibration hides the menu until the next session, for the menu
  asks at time zero whether it still shows (`BackLeads` leaves the banner aside).
* B while the Wi-Fi link waits for its follower only leaves the link; a second B leads to
  the menu (`Depth` counts it as two).
* Entering Wi-Fi teleoperation from the OTA profile leaves `otaEngaged_` set, and with it
  the pairing watchdog suspended. `setStaConnectDesired(false)` may come during OTA.
* The passthrough branch of `applyControllerOperationProfile` returns before the radio
  policy is applied (`leader/leader_app_controller_profile.cpp:274`), and the passthrough
  tick uses the serial port without the lock (`leader/leader_servo_passthrough.cpp:22`).
* A finish from the dashboard before the range phase commits the working profile of an
  earlier session; a save that fails leaves memory ahead of flash.
* The upward adaptation of the load baseline never happens, for its step is an integer
  division that gives zero; a release of the gripper that failed is not repeated.
* `setServoId` does not ask whether the new id is taken; an operation that fails half way
  leaves the EPROM of a servo open; `torqueOff` succeeds though a servo that missed its
  ping keeps its torque.

### Narrowings

These properties are stated or run so that what follows does not break them.

* `NoImmediateRepeat`, `AppliedWasApplied` and `ImplementsService` need undisturbed
  handlers: between `Dequeue` and `MarkProcessed` a copy is queued again, and an
  acknowledgement is written in three parts.
* `AppliedWasApplied` says that *some* command of this id and opcode was applied. Ids
  are used again after a restart, and an answer to the earlier one is believed.
* `Converges` is about each follower, and needs an undisturbed leader: a request accepted
  in the middle of a reset is half erased, and the two sides stay apart.
* `NoFalsePair` and `Expires` are about leaders that have heard of the follower since
  boot, for others never expire, and that send no more commands (`Quiet`), for every
  frame sent feeds the watchdog.
* `LinkEstablished` holds without the faults "lost ack", "refused offer" and "dropped
  link" and with undisturbed handlers; each of them leaves the link down for good. A
  follower that joined acknowledges once, counts a frame the radio took as delivered,
  and ignores further offers of that session (`follower/follower_presence_inbound.cpp:243`).
* `Heals` needs that some joint goes on moving (no frame is sent otherwise) and that
  start is not pressed while mirroring (`ButtonAgain = FALSE`): this resets the codec
  session but not what the mirror task remembers as sent, so that keyframes leave out
  joints at rest. The filter of the dashboard and a bus that fails are not exercised by
  the run (the proofs of `PreparedHasTorque` and `TypeOK` cover both).
* `StiffIsMeant` and `GripperLetsGo` except a gripper whose release failed on the bus
  (`gripStuck`). `GripperLetsGo` needs feedback that goes on: when it stops, the last load
  is kept for ever.
* `PadReconnects` needs a controller that stays on; `PressesDrain` buttons that rest, which
  the bound on presses gives.
* `ReportedDone` is about ids and modes. A calibration that finds the bus busy at its last
  look reports success unseen.
* `CountHeals` needs a loop that leaves the bus alone and known ids of servos that answer.
* `MirrorWhenMeant` speaks of the end of a tick: within one, the mode is that of the tick
  before.

### Fairness

Each is a task that FreeRTOS runs periodically or a callback the Wi-Fi task runs when
a frame is there; nothing is assumed of a user, and losses are bounded in number
or, in `CommandLinkLive`, do not take every frame with a debug flag.

* CommandLink: weak fairness of the loop and the callbacks; strong fairness of the
  full presence frame, sent at least every `kIdleFullPresenceIntervalMs`.
* Pairing: weak fairness of callbacks, ticks and time.
* WifiDirect: weak fairness of ticks and of the driver; strong fairness of callbacks,
  which with `Preemptive = FALSE` wait for a tick to end but not for ever, and of the
  timeout of a join.
* TeleopStream: weak fairness of the mirror task, strong of the callback, the loop and
  the apply task, which take turns; and strong fairness of taking a keyframe off the
  slot: both sides run with a period of 12 ms, so the apply task may miss some
  keyframes but not all of an unending sequence.
* LeaderApp, OledMenu: none; they have safety and action properties only.
* XboxController: weak fairness of its task, of the tick of the loop, of the end of a
  report and of the taking of presses.
* Haptic: weak fairness of the sampler, of the overlay's tick and of the end of its wait.
* ServoBus: weak fairness of the periodic refresh, of getting or giving up the lock, and
  of work that was begun. The loop need not begin anything.

## 4. Proofs

The theorems hold for every value of the constants that the `ConstantsAssumption` of
the module allows; what they assume besides is in their statement.

| Theorem | Assumes | Argument |
|---|---|---|
| `CommandLinkProofs!TypeCorrect` | - | `TypeOK` with `HeldOK`: the loop works on a frame while it is in the middle of one |
| `CommandLinkProofs!AppliedWasHandledHolds` | - | `Backed`: every place that can hold an acknowledgement (the follower's last one, the frames, the leader's copy) names a handled frame, even when its status is torn from it |
| `CommandLinkProofs!AppliedWasAppliedHolds` | `Preemptive = FALSE` | `Matching`: id and status in each of those places come from one outcome |
| `CommandLinkProofs!ServiceImplemented` | `Preemptive = FALSE` | initial states map to initial states, each step to a step of `CommandService` or a stutter, from `Matching` |
| `CommandLinkProofs!NoImmediateRepeatHolds` | `Preemptive = FALSE` | `Filtered`: the queue holds no two copies of a frame and none of the one recorded, which is the one last run; `ScansApart`: scans pass beside the queue |
| `CommandLinkProofs!TrackedNotOvertakenHolds` | `MaxRestarts = 0` | `OrderedWay`: radio, queue, the loop's hands and the log hold the requests in their order, where the later one is only sent tracked; `IssuedAll`: all of them are no newer than the tracked one |
| `PairingProofs!TypeCorrect` | - | one step per action |
| `PairingProofs!StoreMatchesMemoryHolds` | `Preemptive = FALSE` | `Exclusive`: callback and reset are never both in the middle |
| `PairingProofs!PairingKeptHolds` | `Preemptive = FALSE` | the same: nothing is accepted by a leader that got a follower meanwhile |
| `WifiDirectProofs!TypeCorrect` | - | `Begun`: who offers or joins has a session, and an attempt left |
| `WifiDirectProofs!ReadyWasAckedHolds` | - | `Traced`: acknowledgements on the air were sent, the address noted came with the session expected, and that is the one the leader is in |
| `TeleopStreamProofs!TypeCorrect` | - | who applies a batch holds one |
| `TeleopStreamProofs!PreparedHasTorqueHolds` | `Preemptive = FALSE` | `Serial`: one task at a time is in the middle, and nothing is prepared while torque is switched off |
| `TeleopStreamProofs!ReleaseHoldsHolds` | `Preemptive = FALSE`, the bus switches torque off when told | `Settled`: no batch is behind the last release on the air, none on the air once it is queued, none in the slot or the apply task once it was executed |
| `TeleopStreamProofs!FollowedArmImplemented` | - | `Way` as above, `HandsFree`: the apply task holds nothing but while it applies; every step appends to the way, loses one of it, takes the first, or leaves it |
| `TeleopStreamProofs!TurboFramesCarry` | the buffer's room beside the header is at most 255 | no two bits of a frame share a place (`OffsetsApart`), and the twelve bits of a position add up to it (`BitsAddUp`) |
| `LeaderAppProofs!TypeCorrect` | - | `AppInv`: `Good` (types, sessions, radio, what a profile brings with it) between any two steps, and mirroring where it is meant between two ticks; one lemma per handler |
| `LeaderAppProofs!CalibrationSessionHolds` | - | the same |
| `LeaderAppProofs!LinkSessionHolds` | - | the same |
| `LeaderAppProofs!RadioPolicyHolds` | - | the same: what changes the profile ends with the policy |
| `LeaderAppProofs!MirrorWhenMeantHolds` | - | the same: the mode computed at the end of a tick, from the `Good` state it finds |
| `LeaderAppProofs!BackAlwaysLeads` | - | `DepthIs`, then one lemma per kind of screen that B leaves |
| `ControllerProofs!PadTypeCorrect` | - | who stores a counter loaded it below its limit |
| `ControllerProofs!PairedIsSecuredHolds` | - | `Path`: how far the task is, and what a link that is still up is worth by then |
| `ControllerProofs!MenuTypeCorrect` | - | `MenuInv`: the stack is a way of at most three screens through the menu, every list in order; one lemma per press, induction over the presses of a tick |
| `ControllerProofs!WindowShowsCursorHolds` | - | `InOrder`: the window follows the cursor from a state in which it showed it |
| `ControllerProofs!StackIsPathHolds` | - | `Way`: what is pushed is what the item under the cursor opens |
| `ControllerProofs!ResetIsConfirmed` | - | only A asks for the reset, of the screen it finds, and no move before it changes the screen |
| `HapticProofs!HapticTypeCorrect` | - | the net load is a difference that does not go below zero |
| `HapticProofs!StiffIsMeantHolds` | - | inductive with the types |
| `ServoBusProofs!BusTypeCorrect` | - | who holds the lock is at work |
| `ServoBusProofs!ReportedDoneHolds` | - | what each request of an operation leaves in the servos, and that all were heard when it reports |

`FollowedArm` needs neither undisturbed tasks nor a bus that obeys: what interleaving
breaks is the release (`ReleaseHolds`), not the order or the wholeness of batches. It says
nothing of when a goal is reached, which is what `Heals` is for.

`TurboFramesCarry` speaks of an empty buffer. `packValues12Bit` only ever sets bits
(`common/teleop/teleop_position_12bit_pack.cpp:50`), so a caller that reuses its buffer
sends the positions of both batches mixed, as `PackingAddsBits` in `MCTeleopStream`
shows; `sendServoControlBatch` declares a fresh one
(`leader/leader_presence_transport.cpp:124`). Nothing is said of frames that
`isTeleopEspNowTurboPacket` refuses, or whose bits the radio changed.

The lemmas of `LeaderAppProofs` follow the calls of the code. The exit transitions of a
profile run on a state that has the new profile and the old flags already, in which
neither session is as it should be and the radio serves the old profile; `MayLeave` says
what is then still open, and each transition which part of it is settled. Only after the
last of them is the state `Good` again. The menu, the buttons and the commands are
compositions of what those lemmas say.

`TrackedNotOvertaken` needs ids that grow: `MaxRestarts = 0` excludes the restart of the
leader or of the dashboard that starts them at one again. It does not need undisturbed
handlers, and the radio may lose and repeat what it likes (it does not reorder). An opcode
that is also sent untracked is excepted by `Firm`, as it is by the property: an untracked
burst may stand between a tracked request and its resend.

A tick of the menu folds over the steps that wait, with a recursive function. That the
function is defined, and that it keeps what each step keeps, is induction on the number of
steps. The induction theorems of the library take an operator as a parameter;
`InductionOnNat` takes a set of numbers instead, and follows from two theorems on
well-founded relations, which speak of sets as well (`WFMin`, `NatLessThanWellFounded`).

None of the other properties is inductive by itself: each speaks of the end of a chain
(a status shown, a pairing kept, a limp arm), and the invariant follows what may
still arrive there. Where handlers must be undisturbed, TLC shows the property
violated otherwise.

Every safety invariant, action property and refinement of the passing runs is proved; the
type invariant of the menu is proved and not run (`WindowShowsCursor` and `StackIsPath` are
run and say more of its lists and screens). Only
model-checked is liveness, which is out of the prover's reach: `ViewConverges`,
`Converges`, `NoFalsePair`, `LinkDissolves`, `LinkEstablished`, `Heals`, `PadReconnects`,
`PressesDrain`, `GripperLetsGo`, `CountHeals`; and there is nothing to prove of what the
violation runs refute.

## 5. What is not modelled

* Byte layouts other than that of turbo frames, speeds, ranges and offsets of a calibration, latency counters, wording and
  drawing.
* Clocks as numbers, but for the periods of `Pairing`: a timer may be up whenever
  nothing excludes it. Properties about *how long* are not stated.
* Within `CommandLink`: calibration opcodes with workflows of their own, and the
  unsynchronised count of the queue (`follower/follower_presence_queue.cpp:19`).
* Within `Pairing`: a flash that cannot be erased, suspended watchdogs.
* Within `WifiDirect`: the return to the home network and the resynchronisation of
  ESP-NOW (the policy that decides on the former is in `LeaderProfiles`).
* Within `TeleopStream`: the Wi-Fi transport, whose sockets carry one frame each and keep
  only sequence numbers, and batches torn in the slot.
* Within `LeaderApp`: the boot stages, the servo commands that `CommandLink` models, the
  text of the status line. The second resynchronisation of ESP-NOW at boot cannot be
  reached once boot ends at 1.5 s.
* Within `Haptic`: the joints other than the gripper, which the overlay only keeps limp,
  and the position and torque the gripper is held with.
* Within `XboxController`: the layout of reports, and the client the stack deletes while
  the tick reads its pointer.
* Within `ServoBus`: single moves and pings, loads and temperatures, positions, the
  passthrough.
* The startup scan, the telemetry server (but for the command slot in `CommandLink`), the
  retries of the home network and OTA, the dashboard (but for its request ids), LED, CPU
  load, USB log: parts with status `not_modelled` in `PROJECT.json`, with the reason.

## 6. Plan

Done, in this order: `CommandLink` with `CommandService`, `Pairing`, `WifiDirect`,
`TeleopStream`; then `Calibration`, `LeaderProfiles` and `LeaderApp`, `OledMenu`,
`XboxController`, `Haptic`, `ServoBus`; each with the proofs of all its safety properties.
Next:

1. Abstract specifications of other parts, proved to be implemented, as `CommandService`
   is for the command link and `FollowedArm` for the stream.
2. `LeaderApp` composed with `TeleopStream` and `Haptic`: what a change of profile leaves
   running on the follower.
3. Filters and restarts of the stream: joints that are not let through, the button
   pressed again.
4. Startup scan, telemetry command slot, home network and OTA.
5. Pure functions, as `TurboPacket`: unwrapping of positions, deadlines that wrap, the
   queue's ring and its unsynchronised count.
