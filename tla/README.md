# A verification project for the Lightweight CMC

The repository is the firmware of a camera motion controller (CMC): an STM32
board that listens to camera control panels, a PC tool and a web page on
Ethernet, and drives one motor controller (the "motor MCU") over SPI. This
directory holds TLA+ models of its core logic, the TLC configurations that check
them on small instances, and proofs of their safety properties for every value
of the parameters.

1. [The system](#1-the-system): components, state, interactions, what is hard
2. [The modules](#2-the-modules): what models what, and how it maps to the code
3. [The runs](#3-the-runs): what each checks, its bounds, its fairness
4. [The proofs](#4-the-proofs): theorems, assumptions, inductive invariants
5. [What the code does otherwise than its comments say](#5-findings)
6. [What is not modelled](#6-not-modelled-and-why)
7. [The plan](#7-the-plan)

To check: `tlc -config Home.cfg MCHomeSequencer.tla`, `tlapm HomeSequencerProofs.tla`,
and so on; `PROJECT.json` lists every run with its module, every definition with
the source lines it stands for, and every property with a fault in the model that
it finds.

## 1. The system

### How it runs

One thread, no sleep, no interrupts that matter: `app/main_loop/main_loop.c`
calls each part's tick in a fixed order, for ever. A pass is

    log, buttons, axis_manager, cia402, od, cmc_state, (controller_mgr | visca_mgr),
    web, led_indicator, boot_meta, debug

What is concurrent is everything else: the motor MCU, the panels, the PC tool,
the browser, the buttons. Hence the interesting interleavings are those of
*passes* of the loop with *commands*, *answers* and *time*, and within a pass the
order of the ticks.

The one scarce resource is the request slot of `cia402`: one object-dictionary
request to the motor at a time, for everybody. A request that goes out takes the
place of the cyclic command in that frame. Nearly every hard behaviour of the
system comes from sharing this slot: who holds its handle, what is stale when the
answer comes, and who never polls.

### Components

| Part | Source | State it keeps | Operations, and what it talks to | What makes it correct |
|---|---|---|---|---|
| cia402 | `app/cia402` | request slot `s_od`, sequence number, last status | begin / poll / abort, one SPI frame per millisecond | an answer belongs to its request; every request ends; the cyclic command is not starved |
| home_sequencer | `app/axis_manager/home_sequencer.c` | sequencer state, handle, `is_homed`, encoder type | home run, encoder probe, home on boot; uses the slot, holds HOMING in the arbiter | homing owns the axis; "done" is this run's; the axis is released |
| motor_od_proxy | `app/axis_manager/motor_od_proxy.c` | parameter cache with dirty flags, bootsync, load factor, save sequencer | write what is dirty, read back everything, save to the motor's flash | the operator's value is not lost or replaced; cache and motor agree; the enable latch comes back |
| axis_manager | `app/axis_manager/axis_manager.c` | operation arbiter, command latches, setup sequencer with its snapshot `s_applied`, pulse counts | composes the cyclic command, owns bootloader detection | a move starts only with its parameters in the motor; STOP stops |
| buttons_jog | `app/axis_manager/buttons_jog.c` | ownership, the mode to restore | jog with the on-board buttons | the mode is given back, to whom it belongs |
| cmc_state | `app/cmc_state` | shots, shot in progress, selection, watchdog of the stick | recall, store, STOP, joystick | an arrival told is real; the camera is selected by a panel that is there; the table in RAM is the one in flash; a silent panel's deflection ends |
| controller_mgr | `app/controller_mgr` | two panel records, one outbound connection | panel protocol, eviction after 5 s | a silent panel loses its selection; the one outbound socket comes back |
| visca_mgr | `app/visca_mgr` | counters | one UDP request, one reply | - |
| od, cmc_od | `app/od` | one pending UDP request, telemetry subscriber | bridge from the PC tool to the CMC's and the motor's objects | every request is answered once |
| persist, config | `app/persist`, `app/config` | flash pages | load with upgrade, save | a region holds one whole record or none; what was told saved is there after a restart |
| boot_meta, bootloader | `app/boot_meta`, `boot/` | stay flag, download state | firmware update over the network | only a whole image is started; a board is never left without a way back |
| log | `app/log` | byte ring | overwrite-oldest, drained over TCP | - |
| web, led_indicator, bsp, camerad, visca | | | pages, colours, drivers, codecs | - |
| pc_tool | `Interface/gui` | pending requests | retransmits; firmware update | - |
| motor MCU | not in the repository | parameters, homing run, power stage | modelled as far as `src/` uses it; external | - |

### What is hard

- *Stale handles.* A handle outlives its request (STOP, timeout, bootloader
  entry), or the request outlives its handle and the slot stays taken.
- *A value changes while its write is in flight*, and the record of what the
  motor has is wrong.
- *The motor reboots* into its bootloader and back between any two steps.
- *Pulses over an unreliable channel.* NEW_SETPOINT and HALT are bits held for a
  few commands; frames carry requests instead of commands.
- *A latch borrowed.* A save disables the axis and puts it back; in the meantime
  everybody else sets the same latch.
- *Grace periods, deadlines and late answers*, and a sequence number that wraps.
- *A power loss between two flash operations*, in a save or in a firmware update.
- *Repeated datagrams.* The PC tool repeats what it has no answer to; the board
  may have carried it out already, and may get it again later.
- *A panel is two things*, its POLLs and its own connection, and either may be
  gone without the other.
- *Several hands on one stick*, with a mode to put back afterwards.
- *Liveness.* Everything that is polled must be answered, and everybody must
  come to the slot.

The list, line by line, is `hazards` in `PROJECT.json`.

## 2. The modules

| Module | Models | Extends / instantiates |
|---|---|---|
| `OdSlot` | what cia402 promises: begin, finish, collect, abort | - |
| `Cia402` | `cia402.c`: frames, sequence numbers, deadlines, lost and late answers | refines `OdSlot` |
| `HomeSequencer` | `home_sequencer.c`, and HOMING in the arbiter | on the operators of `OdSlot` |
| `MotorOdProxy` | `motor_od_proxy.c`: cache, writer, bootsync, load factor | on `OdSlot` |
| `MotorSave` | `motor_od_proxy.c`: the save sequencer and the enable latch | on `OdSlot` |
| `AxisMove` | the way of a move: `cmc_state` -> arbiter -> setup sequencer -> cyclic command -> motor -> arrival | on `OdSlot` |
| `RecordStore` | what persist promises of a flash region: one record, or none | - |
| `Persist` | `persist.c` over `flash.c`, with the settings, the network record and the shot table | refines `RecordStore`, once for each region |
| `BootFlow` | `firmware_update.py`, `boot/`, `boot_meta.c`: a firmware update from end to end | - |
| `OdBridge` | `client.py` and `od.c`: requests of the PC tool, to the CMC and through it to the motor | on `OdSlot` |
| `Panels` | `controller_mgr.c` and the selection of `cmc_state.c` | - |
| `Jog` | `buttons_jog.c`, the stick of `axis_manager.c`, the watchdog of `cmc_state.c` | - |
| `MC*` | the instances TLC checks | the module of the name |
| `*Proofs` | theorems | the module of the name, and TLAPS |

`OdSlot` is the joint of the composition. `Cia402` shows that the real exchange
implements it; the five users are built on its operators (`SlotBegin`,
`SlotReady`, `SlotCollect`, `SlotAbort`) and never see a frame. In each of them
the *other* users are one more client, `"others"`, who begins and collects at any
time: what one module shows of its client holds whatever the rest of the
firmware does with the slot.

**A pass is several steps.** In the user modules a variable `at` says where the
pass is; each tick of the code is one action between two values of it, and does
everything the function does, early returns included. Commands come between
passes (`at = "rest"`), since they come from other ticks of the same loop.

**Cia402.** `od` is `s_od`; `seq` the 16-bit counter, modulo `SeqMod`; `node` the
motor's side: requests and answers on their way, each answer up to `MaxLag`
transfers late. `Tick` is one frame with everything `cia402_tick` does: the
choice of what to send, the answer received, lost or garbled, its match against
the request, the deadline. `Begin`, `Poll` and `Abort` are the API. `MaxGap` is
the most milliseconds between two ticks.

**HomeSequencer.** `state` is `s_state`, `handle` whether `s_handle` is held,
`age` the time of the run (one unit stands for the 30 s overall timeout).
`Kick*` are the idle branch, `Body*` the cases of the switch, `OpTick` what
`tick_active_op` does about HOMING. The retry periods of the background reads are
a free choice. The motor's homing run (start on an edge of `home_command`, a
latched outcome until it is cleared) is external.

**MotorOdProxy.** `value`, `dirty`, `write`, `last`, `sync`, `next`, `load` are
the statics of the file. `owed` (history) is what the operator typed and whose
write has not ended.

**MotorSave.** `save`, `was`, `phase`, `total` are the `s_save_*` statics, `latch`
and `quick` the axis' enable latch and quick-stop pulse. `flash` is what the motor
made of the save; by `Interface/CHANGELOG.md` a save is pending as long as the
power stage is on. `crossed`, `revived`, `want` and `told` are history.

**AxisMove.** Commands: `MoveToShot`, `Trim`, `Stop`, `QuickStop`, `Enable`,
`PcTool`. A pass: `PassStatus` (`tick_active_op`, and `cmc_state`'s arrival),
`PassSetup` (`setup_sequencer_tick`), `PassCompose` (`compose_cyclic_cmd` and the
frame `cia402` sends). The seven setup parameters stand as two, the mode and the
target: they are written by the same code, one after the other. `doubt` and
`renewed` (history) are the parameters whose last write timed out or was
overtaken, and those not written since the motor rebooted: see section 5.

**Persist.** `cells` has every region as its double words: two of header (magic and
version; size and checksum) and the payload. `PersistCommand` begins what an operator's
command saves - one region, or two in a row (`rest`) - and `FlashStep` is one
flash operation of `persist_save`, in its order: erase page by page, header,
payload. `FlashRefuses` and `PowerLoss` cut it short at any of them, and leave the
operation done, not done or its words undefined (`Disturbed`). `Restart(b)` loads all
regions under a build that may be another one: `Accepts` is the acceptance rule of
`persist_load`, `Promoted` the upgrade of an older payload. No command comes
while a save is going on: it blocks the loop. A payload is its own checksum, so
two payloads with one CRC are left out. The boot flag's region is in `BootFlow`.
`saved`, `spoiled` and `promised` are history.

**BootFlow.** `step`, `sent`, `tries`, `outcome` are where `firmware_update.run`
is; `Send` puts a copy of its request into the network, `Proceed` takes the answer
or the end of the tries. A copy may be carried out, lost, or stay in the network
after the tool has gone on (it is no longer `mine`). `Handle` is whatever the
board makes of a request: the objects of `boot_od.c`, the segments of
`boot_seg_sdo.c`, the flash state of `boot_flash.c`, or, if the application runs,
its answer to a ping and its entry into the bootloader. `Restart` is `main()` of
the bootloader: the flag, the validity test, the jump. `AppHealthy` clears the
flag after the healthy seconds. An image is the sequence of its chunks and its own
checksum; an image that fills the region to the last byte is left out. `armed`
(the board was programmed, or asked into its bootloader, so that the flag guards it) and
`motorServed` are history. The objects of an update are the motor's while the
application runs (`AppForwards`): a motor that is in its own bootloader may answer
anything, the CRC of an image written into itself included, and `motorServed` says that
it has.

**OdBridge.** `client` is each tool's command thread, `inbox` and `replies` are the
network, which keeps its order and may lose. `OdTick` is one pass of `od_tick`:
the pending request polled and answered, or one datagram taken and answered,
repeated, refused or forwarded. The slot's other client is `"others"` as before,
and `MotorBoots` is the abort at a bootloader entry. Each tool has an entry of its
own on either board, so that what it reads there is its own doing; the CMC's own
entries always answer ok. `told` and `sure` are history. Two abstractions are
visible: a handle is its request, so that an old handle cannot match a new request
(in the code it can, when 65,535 requests lie between); and the result NOT_READY of
an ordinary answer is final, as it is in `od.c` and `client.py`.

**Panels.** `rec` is `s_ctrls`; a pass is the POLL socket, the outbound connection,
the commands, the timeouts, each an action. `sock` is the state of the one
outbound connection, `up` the panels whose own connection stands. `Command` is
SELECT, DESELECT and GRAB. `astray` (the camera was selected under a number that no
record had) and `forced` (the latch was switched by somebody else) are history.

**Jog.** A pass is `PassStatus`, `PassButtons` and `PassWatch`, in the order of
the loop; the PC tool's writes (`Pc`, after the buttons) and the panels' messages
(`Moved`, after the watchdog) come where the loop has them. `own`, `prev` are the statics of `buttons_jog.c`; `raw`,
`value`, `quiet`, `op`, `mode`, `enable` those of the axis. Deflections are signs. The
centre is a constant: recalibration is arithmetic and is left out. Faults, the HALT
pulse and the profile modes are `AxisMove`'s or nobody's. `lost` and `byPc` are history.

Abstractions common to all: payloads are members of small sets; wording, logs
and statistics are left out; a timeout, period or age is counted in units that
keep the order of the events that matter; the motor's entry into its bootloader
is noticed at once, whereas the code notices it with the next status.

## 3. The runs

| Run | Question | Properties |
|---|---|---|
| `cia402_slot` | Does the exchange keep the slot's promise under loss, delay and wrap? | `IInv`, `AnswerIsOurs`, `CyclicNotStarved`, `ServiceSpec`, `RequestEnds` |
| `home` | Does homing own the axis, end on its own outcome, and give the axis back? | `IInv`, `HomingOwnsAxis`, `DoneIsReal`, `HomedConfirmed`, `OrphanedOnlySo`, `AxisReleased` |
| `proxy` | Does what the operator types reach the motor, and stay? | `IInv`, `OperatorValueKept`, `EverySetIsSent`, `CacheCatchesUp` |
| `move_safety` | Does the setup know what the motor has, does a move start only when set up, does no move begin after a STOP, with retargets, lost requests and a motor that reboots? | `IInv`, `TriggerAfterSetup`, `StopOutlastsStart` |
| `move_live` | Is a move that was asked for triggered, and its arrival real, with refused writes, faults, quick stops and the PC tool? | `MoveIsTriggered`, `ArrivalIsReal` |
| `save` | Does a save end, put the latch back, and log the truth? | `IInv`, `EnableRestored`, `LoggedIsKept`, `SaveEnds` |
| `persist` | Is what was reported saved there after every restart, whatever cut a save short, and is a region always one whole record or none? | `PersistInv`, `SavedIsKept`, `RegionsAreStores` |
| `boot` | Does an update start whole images only, leave a way back, and end? | `IInv`, `BrickProof`, `CommittedIsWhole`, `UpdateEnds` |
| `bridge` | Does an entry hold what a tool was told, over repeated and lost datagrams, and does a request end? | `BridgeInv`, `ToldHolds`, `PendingEnds` |
| `panels` | Is the camera selected by a panel that is there, and does the outbound socket come back? | `IInv`, `SelectedByLive`, `SocketComesBack` |
| `jog` | Has a deflected stick the axis, do the buttons spare a move, does the axis come to rest when the hands are off? | `IInv`, `MoveUndisturbed`, `DeadMan` |
| `home_stop_wedge` | see section 5 | `StopFreesSlot`, violated |

### Bounds, and why they are enough

- `Cia402.cfg`: `SeqMod` 5, two handles, a deadline of 1 and an erase deadline of
  3, gaps of at most 2, answers at most 1 transfer late. The sequence number
  wraps within the life of a late answer, a request times out while its answer is
  still coming, and the next request is out under the next number: the cases in
  which an answer could be taken for another's. The proof has the arithmetic for
  every width that exceeds deadline and lag.
- `Home.cfg`: an overall timeout of one unit may strike in any state; encoder
  incremental and home-on-boot set, so that probe, automatic run and commanded run
  meet.
- `Proxy.cfg`: two parameters and two values: enough for one to be written while
  another is read, for a value to be typed over, and for one parameter to be set
  again and again while the other waits.
- `Move.cfg`: two targets (a retarget while the first is being set up), trims and
  STOP, pulses of two passes (one may go by without a frame, or with a request in it,
  and the other not), lossy requests, a motor that reboots. The two targets are model values and
  interchangeable, so the run uses symmetry; it checks no liveness. The grace after
  a start is 0. `MoveLive.cfg` has the rest: one target, a grace of one unit, the PC
  tool, quick stops, disables, refused writes, faults; no
  reboot: a move whose setup a reboot cuts off is not triggered, see section 5. The
  PC tool commands one mode there (`PcModes`), the one in which a move is made. The
  proofs have every value of all of these at once.
- `Save.cfg`: settle time 2, grace 1, overall timeout 4: the timeout can strike in
  each state.
- `Persist.cfg`: two builds, the second with one setting more and another version
  of the shots; two shots in two pages, one word of network settings; one loss of
  power during a save, or one refusal. Losses between saves are not bounded. One
  is enough: what a cut-off save leaves is either accepted or not, and the next
  save erases it.
- `Boot.cfg`: three segments (the toggle of the last is that of the first), two
  tries, two datagrams in the network, one lost, one write refused or garbled,
  one reset, and two runs of the tool: the second run meets what the first left,
  its late datagrams included. A motor in its bootloader may answer wherever the
  application forwards. The proof has every number.
- `Bridge.cfg`: a tool that writes and reads back (two transactions) and a script
  that competes with it (one); two copies of a datagram, one new beginning after
  "queue full", one datagram in a buffer, one bootloader entry.
- `Panels.cfg`: two panels - there are two records - one of them with two numbers; a
  time-out of two units and a connect time-out of one, so that a panel may miss a
  POLL without being evicted, and a connection may be given up before that.
- `Jog.cfg`: centre 0, buttons one way, the other or none, dwell and watchdog of
  one unit. The buttons' and the panel's deflection differ in sign, so that it can be
  seen whose the axis follows.

`Boot.cfg` and `Bridge.cfg` disable the deadlock check, because there the system may
stop: the tool is done with its updates, or the tools have asked all that the
bounds let them ask. All other runs check it.

### Fairness, and why the code justifies it

- *The pass* (`WF`, in every module): `main_loop_run` never returns and never sleeps.
- *The motor answers* (`SF` of `MotorAnswers`, `WF` of `MotorEnds`): not that the
  motor is well, but that `cia402_tick` ends every request by its deadline; this is
  `RequestEnds`, shown in `Cia402` from `WF` of `Tick`.
- *The others collect* (`SF`): every other client polls what it began.
- *The slot is free now and then* (`SF` of a step together with a free slot): the
  other clients have pauses. `SaveEnds`, `PendingEnds` and `RequestEnds` do not need
  this.
- *Some answers are good* (`SF` of an answer `ok`) for `CacheCatchesUp` and
  `MoveIsTriggered`: a motor that refuses a parameter for ever cannot be set up.
- *Time goes on* (`SF` of `TimePasses`, of `Begin(TRUE)` in `Panels`).
- *The tool's own loops* (`BootFlow`): it sends, it takes an answer or its timeout
  (`WF`), and the loops in which it waits for a board to come back end at their
  deadlines (`SF` of `Deadline`). A datagram in the network is heard or is lost in
  the end. That the network delivers any is not assumed.
- *A reachable panel completes the handshake* (`WF` of `Connected`); nothing is
  assumed of an unreachable one.
- *Statuses and the motor at rest* (`Jog`): a status that reports the motor as it is
  comes back now and then (`SF`), and a motor without a demand comes to rest (`SF`).

## 4. The proofs

TLAPS proves, for every value of the constants that satisfies the `ASSUME` of the
module:

| Module | Theorems |
|---|---|
| `OdAccessProofs` | of `Cia402`: `Invariance`, `OwnAnswer`, `CyclicKept`, and `Implements`: every step of the exchange is a step or a stutter of `OdSlot`; of `OdBridge`: `BridgeInvariance`, `ToldHold` |
| `HomeSequencerProofs` | `Invariance`, `AxisOwned`, `DoneReal`, `HomedKnown`, `HandlesKept` |
| `MotorOdProxyProofs` | `Invariance`, `OperatorKeepsValue` |
| `AxisMoveProofs` | `Invariance`, `TriggerIsAfterSetup`, `ArrivalTold`, `StopHolds` |
| `SaveProofs` | of `MotorSave`: `Invariance`, `Restored`, `LoggedKept`; of `Persist`: `PersistInvariance`, `SavedKept`, and `StoresImplemented`: every step is, region by region, a step or a stutter of `RecordStore` |
| `BootFlowProofs` | `Invariance`, `NeverDead`, `ToldTruly`, `JumpsIntoWhole` |
| `PanelsProofs` | `Invariance`, `Selection`, `SelectedHasDrive` |
| `JogProofs` | `Invariance`, `DeflectedHasAxis`, `ButtonsSpareMoves` |

The assumptions say little: bounds are naturals, a pulse lasts at least one
pass, the sequence number is wide enough for deadline and lag, the settle time of a save is not zero,
no two panels go by the same number, an image has at least one segment, a newer
version of a record is not shorter than an older one, an empty shot is zero, a
datagram is sent at least once.

Each module's `IInv` (`PersistInv` in `Persist`, `BridgeInv` in `OdBridge`, whose
names are their own because their proofs share a module with another component's)
is inductive and is an invariant of a run, so TLC checks what
the prover is given. Hardly any of the properties is inductive by itself; what had
to be added is the reason why the code works:

- **Cia402.** `AnswerIsOurs` needs to know that anything still on its way under the
  number of the live request *is* the live request's (`SameNumberSameRequest`),
  which needs a bound on the age of the request (`RequestYoung`) and the date of
  every answer (`AnswersDated`): a wrap cannot come round in that time.
- **HomeSequencer.** `HandleMatches` (the handle is the slot's), `RequestFits`
  (it is the request of this state) and `RunSoFar`, which says state by state how
  far the motor is. `RunSoFar` holds only of runs that began with no handle left
  over (`clean`); without the proviso it is false, see section 5.
- **MotorOdProxy.** `OwedIsOnItsWay`: what the operator typed is dirty, or in flight
  with the cache's value, or was cut off by a bootloader entry. That makes the one
  test `p \notin dirty` in `Adopt` enough.
- **AxisMove.** `SetupKnown`: what the motor has is what `s_applied` says, but for an
  ended write that nobody collected yet (so `Busy` is still true). `HaltLasts`: the
  HALT pulse of a STOP lasts at least as long as a NEW_SETPOINT pulse begun before it -
  both are counted in the same passes, neither is touched by a fault, a quick stop ends
  both - so that whichever of the commands the motor gets to see, HALT is in every one
  that could start the move. `MoveIsLast`: a move the motor has told of is the last one asked for.
- **MotorSave.** `Remembered`: during a save the snapshot is what was asked for;
  `DriveIsOff`: one unit of time after the disable the power stage is off, unless
  somebody enabled; `Written` carries that to the log line.
- **Persist.** `Underway` says what a save has done so far: from the first erase on, the
  region holds the first `done - Pages` double words of the new record and nothing
  else. So an incomplete record cannot pass for a whole one: the last double word is
  missing, and the checksum, which comes second, covers it (`Whole`); and when the
  last operation is done the region is the `Image` of the record word by word.
  `SavedIsThere` keeps it so until the next save of that region, and `SavedIsKept`
  follows through a lemma on loading: `Loaded` of an `Image` is `Meant`, under the build
  that saved it and every newer one. `ShotsAreKept` is inductive beside these because the
  shots' version is the running build's, so nothing is promoted. For `StoresImplemented`
  each action is one of `RecordStore`'s in the region being saved, and none changes
  another region.
- **OdBridge.** `ToldHolds` depends on what is still under way. `PromisesHold` says of
  an entry a tool was told of, and already of an "ok" that is waiting for it, that the
  entry is so and that nothing outstanding would change it when carried out: a
  repetition of the same request does the same again (`Done` is idempotent), and
  there is no other, because nothing outstanding is older than what was carried out.
  That is `NumbersRise` (the datagrams in the network, and the pending one before
  them, come in the order of their numbers, none is newer than its tool) and
  `OneNumberOneRequest` (what bears the number a tool waits for is what it asked).
  `SlotIsWatched` makes the motor's answer the answer to the pending request. A fresh
  number makes every promise of the past void, and a restart of the motor those about
  its entries (`sure`). The lemma `BoardKeeps` states what is left to show of a step
  that leaves the tools alone: it answers no more than it carried out, and changes
  no entry that was promised. The run has buffers of one datagram; the theorem has any.
- **BootFlow.** A commit finds a whole image because of a chain over tool, network and
  bootloader: the initial request is sent once and is not on its way once it is
  answered (`InitOnce`); from the comparison of the CRC on, the image stands and no
  session is open that a late segment could write in (`CommitsFollow`, with `Matched`:
  a copy that is not late belongs to the tool's step); an open session has not written
  the last segment (`Closed`). `Guarded`: on an armed board the flag stands while the
  bootloader runs, and where it does not stand the image works. `Seen` carries it to
  what the operator is told. A CRC may also have been that of a motor in its
  bootloader. Then it came through an application that runs, so what stands in flash
  is the new image or the old one (`Whole`), and no session is open (`Closed`): what
  is committed is whole all the same, but it need not be new. The theorems say
  so with `motorServed`.
- **Panels.** `LentToOne` relates the one socket, its owner and both records: an
  owner's record is in use with an answer pending, and nobody else believes to be
  connecting. The scan that hands the socket out takes the least index that
  qualifies; that there is one is cited from `WellFoundedInduction`.
- **Jog.** `StickHasAxis` (a deflection has the axis), `ButtonsHaveAxis` (buttons that
  own the mode have it too, unless it was taken from them while held) and
  `RawIsWatched` (a deflection has a watchdog, unless the PC tool made it). The theorem
  `DeflectedHasAxis` is the first of them.

A proof has one lemma per action, each split by the conjuncts of `IInv` that the
action can disturb; the last step of each theorem combines them by temporal logic.

*Only model-checked:* every liveness property (`RequestEnds`, `AxisReleased`,
`EverySetIsSent`, `CacheCatchesUp`, `MoveIsTriggered`, `SaveEnds`, `UpdateEnds`,
`PendingEnds`, `SocketComesBack`, `DeadMan`): fairness needs ENABLED, which the
prover does not reason about. Every safety property of a passing run is a theorem.

## 5. Findings

One run checks a comment that TLC finds violated: `home_stop_wedge`. After STOP,
`axis_manager.c:385` says, those who wait can proceed; the handle of the abort write
is thrown away (`home_sequencer.c:140`), and its answer stays in the slot for ever.

### Known departures

The following do not hold either. Each is written down at the end of its module, as
a formula that a reader can put into a `.cfg`; the properties that do hold have the
corresponding proviso.

| Formula | What is said | What the code does |
|---|---|---|
| `AxisMove!TriggerAfterAll` | the trigger comes when setup is fully applied (`axis_manager.c:1083`) | a value changed while its write is in flight is recorded as written |
| `AxisMove!SetupLetsGo` | every holder of a handle is reset at bootloader entry (`axis_manager/README.md`) | the setup sequencer is not, and polls an aborted request for ever |
| `AxisMove!StopCancels` | the motor stops by itself after STOP (`axis_manager.c:398`) | the start latch stays: a move still in setup is triggered after STOP |
| `AxisMove!StopIsHeard` | a HALT pulse is held for a few cycles, so that the motor sees it even if frames are dropped (`axis_manager.c:300`) | it is counted in passes of a loop that does not sleep, a frame is due once a millisecond: the pulse may be over before a frame was sent, and the move goes on |
| `AxisMove!StartIsSeen` | the same of NEW_SETPOINT | a move that was triggered may not begin |
| `MotorSave!OffStaysOff` | who disabled the axis does not find it enabled (`axis_manager.h:292`) | the snapshot is from before; a disable during a save is undone |
| `Persist!ProtocolIsKept` | "Save + Reboot to take effect" (`cmc_od.c:446`) | the PC tool's Save does not save the protocol |
| `BootFlow!NeverBricked` | an interrupted upload never needs a probe (`dual_bootloader_design.md:23`) | a board that comes up without a valid image has no flag set; an image started from there that crashes is started again after each reset |
| `BootFlow!UpdateAlwaysEnds` | the retry handles lost datagrams (`firmware_update.py:372`) | tool and bootloader may disagree on the toggle; the tool then repeats the segment for ever |
| `BootFlow!OnlyTheCmcServes` | an OK from 0x1F57 means that the bootloader is up (`firmware_update.py:241`) | an application forwards the same object to a motor that is in its own bootloader |
| `BootFlow!NewIsRunning` | "Update complete - new firmware is running" (`firmware_update.py:430`) | if the CMC did not enter its bootloader and the motor is in its own, the image goes into the motor, its CRC matches (or reads 0 and is not compared), the old application answers the ping, and the CMC is as it was |
| `OdBridge!BridgeGetsFree` | as `SetupLetsGo` (`axis_manager.c:1100`) | the bridge's pending request is not reset and polls for ever |
| `Panels!BothServed` | closing after each answer shares the socket fairly (`controller_mgr.c:428`) | the scan begins at the first panel each time; if that one polls and takes no connection, the second is never answered |
| `Jog!ReleaseSparesMove` | a button press does not abort a move (`buttons_jog.c:82`) | a move that began while the button was held loses its mode at the release |
| `Jog!PanelGoneStops` | a panel that is gone does not leave the motor running (`cmc_state.c:63`) | the watchdog sets the raw deflection to 0, which is not the centre after a calibration |

Other departures show as the provisos of properties that hold. The provisos are
as narrow as they can be, and name the behaviour:

- `DoneIsReal` is said of clean runs: STOP and the overall timeout leave
  `s_handle` set, and a run that starts so takes the old request's answer for its
  own clear, which is then not sent (`home_sequencer.c:137`, `280`).
- `OrphanedOnlySo`: STOP and the overall timeout are the two ways in which the
  sequencer leaves a request in the slot that nobody polls.
- `OperatorValueKept` is not said of a write that a bootloader entry cut off: it
  is no longer dirty and is lost, which line 157 of `motor_od_proxy.c` denies.
- `TriggerAfterSetup` is not said of parameters in `renewed`: `s_applied` outlives
  a reboot of the motor.
- `ArrivalIsReal` is said of moves the motor has told of: a setup that takes
  longer than the 100 ms grace lets the previous arrival pass for this one.
- `StopOutlastsStart` is said of moves that were triggered before STOP, and of a motor
  that does not move yet; one that moves need not see the HALT (`StopIsHeard`), one
  that is in its setup is triggered later (`StopCancels`).
- `EnableRestored` is not said of a save that a command or a bootloader entry
  crossed: the latter leaves the axis disabled. `LoggedIsKept` is not said if
  somebody enabled the axis meanwhile: the motor then holds the save pending, and
  the log says it was written.
- `HandleMatches` of `MotorSave` is an implication only: the overall timeout
  forgets the handle of a request in flight.
- `ShotsAreKept` (in `PersistInv`) is not said after a save of the shots has
  failed (`spoiled`): its result is dropped (`cmc_state.c:298`). And a power loss
  during a save loses the region's old record with the new one: `RecordStore` has
  `GiveUpOld` for it.
- `UpdateEnds` is not said of a tool that is `OutOfStep`, see `UpdateAlwaysEnds`, or
  that sends its segments to a motor. `CommittedIsWhole` and `Told` allow the image that
  was there once a motor in its bootloader has answered for the CMC (`NewIsRunning`).
- `ToldHolds` is said of the motor's entries for tools that have asked since the motor
  last restarted (`sure`).
- `PendingEnds` is not said of a request that is `Orphaned`, see `BridgeGetsFree`.
- `SelectedByLive` is not said of a selection under a number that no record had at the
  time (`astray`): a panel's number is taken at its first POLL, and commands are
  honoured from connections whose panel does not poll.
- `MoveUndisturbed` is not said once the buttons have lost the axis while held
  (`lost`); `DeadMan` not while the PC tool has the stick (`byPc`), whose writes no
  watchdog follows, and only with the centre at 0.

## 6. Not modelled, and why

- *Codecs* (camerad, visca), `cmc_od`'s table, `web` pages and forms: stateless
  translations into the commands that the modules take as their inputs.
- *visca_mgr*: one request, one reply, no state of its own across them. Its
  `Pan_tiltDrive` is a deflection that the watchdog of `Jog` ends.
- *log*: diagnostics that nothing in the program reads back.
- *main_loop*: no state but the protocol chosen at boot; its order of ticks is the
  order of the steps of a pass in each module.
- *led_indicator*, *bsp*, *boot_support*, *platform*: output, drivers, stubs. What they
  can do to the rest (a frame lost, time passing, a flash operation refused) is a
  choice of the models. `platform` - vendor headers, the HAL, the network chip's
  library, generated start-up code - is by far most of the lines of the repository
  and holds none of the program's own logic, so the share of all its lines that the
  models stand for is small and will stay so.
- In `axis_manager`: the joystick calibration and the limits (arithmetic on floats),
  the FAULT_RESET pulse and the automatic clear (a fault clears at will), the
  profile modes other than the shot's.
- In `cmc_state`: the warning of a move that was missed.
- In `od`: the raw passthrough of a motor update, telemetry and its subscriber. The
  passthrough has the same shape as a forwarded request; telemetry is sent and
  forgotten.
- In `controller_mgr`: what a key press asks of `cmc_state` (its effects are in
  `AxisMove`, `Jog` and `Persist`) and the fields of the answers.
- In `pc_tool`: windows, plots, the telemetry buffer.

## 7. The plan

Done: `OdSlot` and `Cia402` (everything stands on the slot), `HomeSequencer`,
`MotorOdProxy`, `AxisMove`, `MotorSave`, then `RecordStore` and `Persist`, `BootFlow`,
`OdBridge`, `Panels`, `Jog`, and the proofs of section 4.

Left, in the order of what it would add:

| What | Why it is worth it |
|---|---|
| `ToldHolds` with numbers that come round | the 16 bits of `_next_seq` are taken as unbounded; the proof then needs a bound on what the network holds back |
| The raw passthrough in `OdBridge` | the one client of the slot that nobody but `"others"` stands for |
| `LogRing` | overwrite while draining |
