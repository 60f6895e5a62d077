------------------------------ MODULE AxisMove ------------------------------
(***************************************************************************)
(* The way of a move through the controller: a shot recall of cmc_state.c  *)
(* or a start written by the PC tool, the operation arbiter, the setup     *)
(* sequencer that brings the motor's parameters in line over the request   *)
(* slot, the cyclic command that triggers the move, and the arrival told   *)
(* by the motor's status (axis_manager.c sections 2, 7, 8, 9 and 10).      *)
(*                                                                         *)
(* A pass of the super-loop is three steps: the operation and the shot in  *)
(* progress are looked at in the light of the last status (at = "rest"),   *)
(* the setup sequencer ticks (at = "setup"), the cyclic command is         *)
(* composed and, if a frame is due, sent (at = "compose").  cmc_state      *)
(* reads the same copy of the status at the end of the pass; nothing in    *)
(* between touches what it reads or writes, so it is part of the first     *)
(* step.  Commands, other clients and the motor act between passes.        *)
(*                                                                         *)
(* Of the seven parameters of the setup snapshot two are kept: the mode,   *)
(* which is written first, and the target, which stands for the other six. *)
(* "moving" is the motion of a move; joystick velocities are not followed. *)
(***************************************************************************)
EXTENDS Naturals

CONSTANTS
    Target,         \* positions of shots, as target_position_rad
    NoTarget,       \* no shot in progress, and the sentinel of s_applied
    PulseCycles,    \* NEW_SETPOINT_PULSE_CYCLES, HALT_PULSE_CYCLES
    Grace,          \* ARRIVAL_GRACE_MS, in units of TimePasses
    Commands,       \* the commands that are given
    PcModes,        \* the modes that the PC tool commands
    Holding,        \* the mode after a release, by 0x3044 axis_holding_enable
    Lossy,          \* requests may end without the motor's answer
    Faulty,         \* the motor may have faults
    MotorReboots    \* the motor may enter its bootloader

MotorMode == {"disabled", "velocity", "position"}
OpMode == {"off", "joystick", "position", "hold"}

ASSUME AxisAssumption ==
    /\ NoTarget \notin Target \cup MotorMode
    /\ Target # {}
    /\ PulseCycles \in Nat \ {0}
    /\ Grace \in Nat
    /\ Holding \in {"hold", "off"}
    /\ Commands \subseteq {"move", "stop", "trim", "quick", "enable", "pc"}
    /\ PcModes \subseteq OpMode

VARIABLES
    mode,       \* op_mode_commanded
    target,     \* target_position_rad
    enable,     \* enable_latch
    start,      \* start_move_pulse
    quick,      \* quick_stop_pulse
    newSp,      \* s_new_setpoint_remaining
    halt,       \* s_halt_remaining
    slot,       \* the request slot of cia402; a write is the setting it writes
    step,       \* s_seq_step, with s_seq_handle
    applied,    \* s_applied
    op,         \* s_active_op
    opAge,      \* time since s_active_op_started_ms, up to Grace
    next,       \* s_next_shot, by its position
    shotAge,    \* time since s_move_started_ms, up to Grace
    hdr,        \* cia402's copy of the motor's status
    inBoot,     \* the motor is in its bootloader
    at,         \* where the pass is
    param,      \* external: the motor's parameters
    motor,      \* external: its motion, and the controlword it saw last
    requested,  \* external: the last frame carried a request
    doubt,      \* history: parameters written otherwise than s_applied says
    renewed,    \* history: parameters not written since the motor rebooted
    heard,      \* history: the motor has told that it makes the move last asked for
    stopped     \* history: STOP came, and no move was triggered since

command == <<mode, target, enable, start, quick, newSp, halt>>
setup == <<slot, step, applied>>
progress == <<op, opAge, next, shotAge>>
outside == <<hdr, inBoot, param, motor, requested>>
ghost == <<doubt, renewed, heard, stopped>>
vars == <<command, setup, progress, outside, at, ghost>>

Param == {"mode", "target"}
Setting == MotorMode \cup Target
SettingOf(p) == IF p = "mode" THEN MotorMode ELSE Target

Od == INSTANCE OdSlot WITH Holder <- {"setup", "others"}, NoHolder <- "none",
          Request <- Setting \cup {"other"}, NoRequest <- "none"

(* axis_mode_to_cia402 *)
Cia402Mode(m) == IF m = "off" THEN "disabled"
                 ELSE IF m = "position" THEN "position" ELSE "velocity"

(* goal: where the move goes; there: on_target; newBit: the NEW_SETPOINT   *)
(* bit of the controlword it saw last.                                     *)
Motor == [goal : Target, moving : BOOLEAN, there : BOOLEAN, fault : BOOLEAN,
          newBit : BOOLEAN]

MotorAtPowerUp(t) == [goal |-> t, moving |-> FALSE, there |-> FALSE, fault |-> FALSE,
                      newBit |-> FALSE]

ParamAtPowerUp(t) == [p \in Param |-> IF p = "mode" THEN "disabled" ELSE t]

Status(m) == [moving |-> m.moving, there |-> m.there, fault |-> m.fault]

TypeOK ==
    /\ mode \in OpMode /\ target \in Target
    /\ enable \in BOOLEAN /\ start \in BOOLEAN /\ quick \in BOOLEAN
    /\ newSp \in 0..PulseCycles /\ halt \in 0..PulseCycles
    /\ slot \in Od!Slot
    /\ step \in Param \cup {"idle"}
    /\ applied \in [Param -> Setting \cup {NoTarget}]
    /\ op \in {"none", "shot", "joystick"} /\ next \in Target \cup {NoTarget}
    /\ opAge \in 0..Grace /\ shotAge \in 0..Grace
    /\ hdr \in [moving : BOOLEAN, there : BOOLEAN, fault : BOOLEAN]
    /\ inBoot \in BOOLEAN /\ requested \in BOOLEAN
    /\ at \in {"rest", "setup", "compose"}
    /\ param \in [Param -> Setting] /\ \A p \in Param : param[p] \in SettingOf(p)
    /\ motor \in Motor
    /\ doubt \subseteq Param /\ renewed \subseteq Param
    /\ heard \in BOOLEAN /\ stopped \in BOOLEAN

Init ==
    /\ mode = "off" /\ target \in Target /\ enable = TRUE /\ start = FALSE
    /\ quick = FALSE /\ newSp = 0 /\ halt = 0
    /\ Od!SlotInit
    /\ step = "idle" /\ applied = [p \in Param |-> NoTarget]
    /\ op = "none" /\ opAge = 0 /\ next = NoTarget /\ shotAge = 0
    /\ param = ParamAtPowerUp(target) /\ motor = MotorAtPowerUp(target)
    /\ hdr = Status(motor) /\ inBoot = FALSE /\ requested = FALSE /\ at = "rest"
    /\ doubt = {} /\ renewed = {} /\ heard = FALSE /\ stopped = FALSE

-----------------------------------------------------------------------------
(* Commands, between passes.                                               *)

Commanded(c) == at = "rest" /\ c \in Commands

(* axis_manager_try_begin_op: a request of the family that has the axis    *)
(* goes on without a new start time.                                       *)
TryBegin(o) ==
    /\ op \in {"none", o}
    /\ op' = o
    /\ opAge' = IF op = "none" THEN 0 ELSE opAge

(* cmc_state_move_to_shot, once the shot is valid and the axis homed.      *)
MoveToShot(t) ==
    /\ Commanded("move")
    /\ TryBegin("shot")
    /\ mode' = "position" /\ target' = t /\ start' = TRUE
    /\ next' = t /\ shotAge' = 0
    /\ heard' = FALSE
    /\ UNCHANGED <<enable, quick, newSp, halt, setup, outside, at, doubt, renewed, stopped>>

(* Variant: the panel's STOP only releases the operation.                  *)
StopWithoutHalt ==
    /\ Commanded("stop")
    /\ op' = "none" /\ next' = NoTarget
    /\ heard' = FALSE /\ stopped' = TRUE
    /\ UNCHANGED <<command, opAge, shotAge, setup, outside, at, doubt, renewed>>

(* cmc_state_stop_movement: the HALT pulse and axis_manager_stop_op.       *)
Stop ==
    /\ Commanded("stop")
    /\ halt' = PulseCycles
    /\ op' = "none" /\ next' = NoTarget
    /\ heard' = FALSE /\ stopped' = TRUE
    /\ UNCHANGED <<mode, target, enable, start, quick, newSp, opAge, shotAge,
                   setup, outside, at, doubt, renewed>>

(* cmc_state_handle_movement                                               *)
Trim ==
    /\ Commanded("trim")
    /\ TryBegin("joystick")
    /\ mode' = "joystick"
    /\ UNCHANGED <<target, enable, start, quick, newSp, halt, next, shotAge,
                   setup, outside, at, ghost>>

QuickStop ==
    /\ Commanded("quick")
    /\ quick' = TRUE
    /\ UNCHANGED <<mode, target, enable, start, newSp, halt, setup, progress,
                   outside, at, ghost>>

(* axis_manager_request_enable, with TRUE or FALSE.                        *)
Enable ==
    /\ Commanded("enable")
    /\ enable' = ~enable
    /\ UNCHANGED <<mode, target, start, quick, newSp, halt, setup, progress,
                   outside, at, ghost>>

(* The PC tool writes 0x3020, 0x3024 and 0x3013, which nothing arbitrates. *)
PcTool ==
    /\ Commanded("pc")
    /\ \/ \E m \in PcModes : mode' = m /\ UNCHANGED <<target, start, heard>>
       \/ \E t \in Target : target' = t /\ UNCHANGED <<mode, start, heard>>
       \/ start' = TRUE /\ heard' = FALSE /\ UNCHANGED <<mode, target>>
    /\ UNCHANGED <<enable, quick, newSp, halt, setup, progress, outside, at,
                   doubt, renewed, stopped>>

-----------------------------------------------------------------------------
(* tick_active_op and cmc_state_update_from_motor                          *)

Arrived(age) == hdr.there /\ ~hdr.moving /\ age >= Grace

(* set_active_op(NONE) and apply_op_release_hold                           *)
Release == op' = "none" /\ mode' = Holding

(* A joystick is quiescent or not, for its dwell or not.                   *)
TickOp ==
    IF op = "shot" /\ Arrived(opAge)
    THEN Release
    ELSE \/ op = "joystick" /\ ~hdr.moving /\ Release
         \/ UNCHANGED <<op, mode>>

(* Variant: a motor that does not move has arrived.                        *)
TickShotStandstill ==
    /\ next' = IF ~hdr.moving /\ shotAge >= Grace THEN NoTarget ELSE next
    /\ heard' = (heard /\ next' # NoTarget)

(* The arrival at the shot in progress.                                    *)
TickShot ==
    /\ next' = IF Arrived(shotAge) THEN NoTarget ELSE next
    /\ heard' = (heard /\ next' # NoTarget)

PassStatus ==
    /\ at = "rest" /\ at' = "setup"
    /\ TickOp
    /\ TickShot
    /\ UNCHANGED <<target, enable, start, quick, newSp, halt, opAge, shotAge,
                   setup, outside, doubt, renewed, stopped>>

-----------------------------------------------------------------------------
(* setup_sequencer_tick                                                    *)

(* compute_desired *)
Desired == [p \in Param |-> IF p = "mode" THEN Cia402Mode(mode) ELSE target]

(* Variant: a change of the mode alone does not hold a move back.          *)
BusyByTargetOnly == step # "idle" \/ Desired["target"] # applied["target"]

(* setup_sequencer_busy *)
Busy == step # "idle" \/ Desired # applied

(* Stage 2, with the snapshot a and the slot s as stage 1 leaves them: the *)
(* first parameter that differs is written, the mode before the target.    *)
Due(a) == {p \in Param : Desired[p] # a[p]}

NextWrite(a, s) ==
    \/ /\ s = Od!FreeSlot
       /\ \E p \in Due(a) :
            /\ p = "mode" \/ "mode" \notin Due(a)
            /\ step' = p /\ slot' = Od!Asked("setup", Desired[p])
    \/ /\ s # Od!FreeSlot \/ Due(a) = {}
       /\ slot' = s /\ step' = "idle"

SetupWaits ==
    /\ step # "idle" /\ ~Od!SlotReady("setup")
    /\ UNCHANGED <<setup, doubt, renewed>>

SetupStarts ==
    /\ step = "idle"
    /\ NextWrite(applied, slot)
    /\ UNCHANGED <<applied, doubt, renewed>>

(* Variant: a failed write is given up without returning to IDLE.          *)
SetupFailsStays ==
    /\ step # "idle" /\ Od!SlotReady("setup") /\ slot.res # "ok"
    /\ slot' = Od!FreeSlot
    /\ doubt' = IF slot.res = "timeout" THEN doubt \cup {step} ELSE doubt
    /\ UNCHANGED <<step, applied, renewed>>

(* Variant: the result of the write is not looked at.                      *)
SetupFailsUnread ==
    /\ step # "idle" /\ Od!SlotReady("setup") /\ slot.res # "ok"
    /\ applied' = [applied EXCEPT ![step] = Desired[step]]
    /\ NextWrite(applied', Od!FreeSlot)
    /\ doubt' = IF slot.res = "timeout" THEN doubt \cup {step} ELSE doubt
    /\ renewed' = renewed

(* A write that failed is not recorded and is due again.                   *)
SetupFails ==
    /\ step # "idle" /\ Od!SlotReady("setup") /\ slot.res # "ok"
    /\ NextWrite(applied, Od!FreeSlot)
    /\ doubt' = IF slot.res = "timeout" THEN doubt \cup {step} ELSE doubt
    /\ UNCHANGED <<applied, renewed>>

(* apply_completed_step records the value desired when the answer is       *)
(* collected, for the one that was written.                                *)
SetupSucceeds ==
    /\ step # "idle" /\ Od!SlotReady("setup") /\ slot.res = "ok"
    /\ applied' = [applied EXCEPT ![step] = Desired[step]]
    /\ NextWrite(applied', Od!FreeSlot)
    /\ doubt' = IF slot.req = Desired[step] THEN doubt \ {step} ELSE doubt \cup {step}
    /\ renewed' = renewed \ {step}

PassSetup ==
    /\ at = "setup" /\ at' = "compose"
    /\ SetupWaits \/ SetupStarts \/ SetupFails \/ SetupSucceeds
    /\ UNCHANGED <<command, progress, outside, heard, stopped>>

-----------------------------------------------------------------------------
(* compose_cyclic_cmd, and the frame of cia402_tick                        *)

Minus1(n) == IF n = 0 THEN 0 ELSE n - 1

(* What the motor makes of a cyclic command, given bits of the controlword: *)
(* one without QUICK_STOP is one with ENABLE off.                          *)
Takes(newBit, haltBit, on) ==
    LET begins == newBit /\ ~motor.newBit /\ on /\ ~haltBit
                  /\ param["mode"] = "position" /\ ~motor.fault
    IN [goal |-> IF begins THEN param["target"] ELSE motor.goal,
        moving |-> begins \/ (motor.moving /\ on /\ ~haltBit),
        there |-> motor.there /\ ~begins,
        fault |-> motor.fault,
        newBit |-> newBit]

(* The frame of this pass.  None is due: the loop does not sleep, and a    *)
(* frame comes CYCLE_PERIOD_MS after the last one at the earliest.  Or it  *)
(* carries the request in the slot, or this command.  A request is never   *)
(* sent twice in a row (Cia402.tla, CyclicNotStarved).  A status comes     *)
(* back with it or does not; it is the motor's before the command.         *)
Frame(newBit, haltBit, on) ==
    \/ UNCHANGED <<hdr, motor, requested, heard>>
    \/ /\ \/ slot.st = "busy" /\ ~requested /\ requested' = TRUE /\ motor' = motor
          \/ /\ requested' = FALSE
             /\ motor' = IF inBoot THEN motor ELSE Takes(newBit, haltBit, on)
       /\ hdr' \in {hdr, Status(motor)}
       /\ heard' = (heard \/ /\ hdr' = Status(motor)
                             /\ motor.moving /\ motor.goal = next /\ ~start /\ newSp = 0)

ComposeQuickStop ==
    /\ quick
    /\ enable' = FALSE /\ quick' = FALSE /\ newSp' = 0 /\ halt' = 0
    /\ Frame(FALSE, FALSE, FALSE)
    /\ UNCHANGED <<start, stopped>>

ComposeFault ==
    /\ ~quick /\ hdr.fault
    /\ Frame(FALSE, FALSE, FALSE)
    /\ UNCHANGED <<enable, quick, start, newSp, halt, stopped>>

Triggers == start /\ ~Busy

(* NEW_SETPOINT is in the command while its count lasts.                   *)
Pulse == IF Triggers THEN PulseCycles ELSE newSp

ComposeCommand ==
    /\ ~quick /\ ~hdr.fault
    /\ start' = (start /\ ~Triggers)
    /\ newSp' = Minus1(Pulse)
    /\ halt' = Minus1(halt)
    /\ Frame(Pulse > 0, halt > 0 \/ mode = "hold", enable /\ mode # "off")
    /\ stopped' = (stopped /\ ~Triggers)
    /\ UNCHANGED <<enable, quick>>

PassCompose ==
    /\ at = "compose" /\ at' = "rest"
    /\ ComposeQuickStop \/ ComposeFault \/ ComposeCommand
    /\ UNCHANGED <<mode, target, setup, progress, inBoot, param, doubt, renewed>>

-----------------------------------------------------------------------------
(* The motor in its bootloader: cia402_od_abort, and nothing for the setup *)
(* sequencer (reset_motor_od_submodules).                                  *)

BootEntry ==
    /\ MotorReboots
    /\ at = "rest" /\ ~inBoot
    /\ inBoot' = TRUE
    /\ Od!SlotAbort
    /\ \E t \in Target : param' = ParamAtPowerUp(t) /\ motor' = MotorAtPowerUp(t)
    /\ renewed' = Param /\ heard' = FALSE
    /\ UNCHANGED <<command, step, applied, progress, hdr, requested, at, doubt, stopped>>

BootExit ==
    /\ at = "rest" /\ inBoot
    /\ inBoot' = FALSE
    /\ UNCHANGED <<command, setup, progress, hdr, param, motor, requested, at, ghost>>

-----------------------------------------------------------------------------
(* External: the other clients of the slot, the motor, time.               *)

OthersBegin ==
    /\ at = "rest" /\ Od!SlotBegin("others", "other")
    /\ UNCHANGED <<command, step, applied, progress, outside, at, ghost>>

OthersCollect ==
    /\ at = "rest" /\ Od!SlotCollect("others")
    /\ UNCHANGED <<command, step, applied, progress, outside, at, ghost>>

(* The motor carries out a write of the setup.  A mode other than position *)
(* ends a move.                                                            *)
CarriesOut ==
    /\ param' = [param EXCEPT ![step] = slot.req]
    /\ motor' = [motor EXCEPT !.moving = @ /\ (step = "mode" => slot.req = "position")]

(* A request times out whether or not the motor carried it out.  The       *)
(* bootloader knows none of these objects.  What comes of the requests of  *)
(* the other clients is their own matter.                                  *)
MotorAnswers ==
    /\ at = "rest" /\ slot.st = "busy"
    /\ \/ slot.owner = "others" /\ Od!SlotFinish("ok") /\ UNCHANGED <<param, motor>>
       \/ slot.owner = "setup" /\ ~inBoot /\ Od!SlotFinish("ok") /\ CarriesOut
       \/ slot.owner = "setup" /\ Od!SlotFinish("refused") /\ UNCHANGED <<param, motor>>
       \/ /\ slot.owner = "setup" /\ Lossy /\ Od!SlotFinish("timeout")
          /\ UNCHANGED <<param, motor>> \/ (~inBoot /\ CarriesOut)
    /\ UNCHANGED <<command, step, applied, progress, hdr, inBoot, requested, at, ghost>>

MotorArrives ==
    /\ at = "rest" /\ motor.moving
    /\ motor' = [motor EXCEPT !.moving = FALSE, !.there = TRUE]
    /\ UNCHANGED <<command, setup, progress, hdr, inBoot, param, requested, at, ghost>>

(* A fault stops the motor; it is cleared by the operator or after 5 s.    *)
MotorFaults ==
    /\ Faulty
    /\ at = "rest" /\ ~inBoot
    /\ \/ motor' = [motor EXCEPT !.fault = TRUE, !.moving = FALSE]
       \/ motor.fault /\ motor' = [motor EXCEPT !.fault = FALSE]
    /\ UNCHANGED <<command, setup, progress, hdr, inBoot, param, requested, at, ghost>>

Older(a) == IF a < Grace THEN a + 1 ELSE a

TimePasses ==
    /\ at = "rest"
    /\ opAge < Grace \/ shotAge < Grace
    /\ opAge' = Older(opAge) /\ shotAge' = Older(shotAge)
    /\ UNCHANGED <<command, op, next, setup, outside, at, ghost>>

Retarget == (\E t \in Target : MoveToShot(t)) \/ Trim \/ PcTool
Command == Retarget \/ Stop \/ QuickStop \/ Enable
Pass == PassStatus \/ PassSetup \/ PassCompose
Boot == BootEntry \/ BootExit
Others == OthersBegin \/ OthersCollect
World == MotorAnswers \/ MotorArrives \/ MotorFaults \/ TimePasses

Next == Command \/ Pass \/ Boot \/ Others \/ World

Spec == Init /\ [][Next]_vars

(* The super-loop passes for ever; requests end, and a motor that is not   *)
(* in its bootloader carries out some of the setup's writes; the other     *)
(* clients collect, and leave the slot free at some passes; a status comes *)
(* back with some of the frames.                                           *)
Fairness ==
    /\ WF_vars(Pass)
    /\ SF_vars(MotorAnswers)
    /\ SF_vars(MotorAnswers /\ slot.owner = "setup" /\ slot'.res = "ok")
    /\ SF_vars(OthersCollect)
    /\ SF_vars(PassStatus /\ Od!SlotFree)
    /\ SF_vars(PassCompose /\ hdr' = Status(motor))

FairSpec == Spec /\ Fairness

-----------------------------------------------------------------------------
(* What holds.                                                             *)

MovesBegin == PassCompose /\ ~quick /\ ~hdr.fault /\ Triggers

(* A move is triggered only when the motor has the mode and the target     *)
(* that are commanded (axis_manager.c:1083 "fires only when setup is fully *)
(* applied"); not said of parameters whose last write timed out or was     *)
(* overtaken by a new value, nor of those not written since a reboot.      *)
TriggerAfterSetup ==
    [][MovesBegin => \A p \in Param \ (doubt \cup renewed) : param[p] = Desired[p]]_vars

(* An arrival is told only when the motor is where the shot is, provided   *)
(* it had told of that move before (cmc_state.c:611).                      *)
ArrivalIsReal ==
    [][PassStatus /\ next # NoTarget /\ next' = NoTarget /\ heard
       => motor.there /\ motor.goal = next]_vars

(* A move that was triggered before STOP, and of which the motor has seen  *)
(* nothing yet, does not begin after it, whatever frames are sent: the     *)
(* NEW_SETPOINT pulse is left running by STOP and by a fault, and must not *)
(* outlast the HALT pulse that covers it (cmc_state.c:464 and              *)
(* axis_manager.c:1055, 1071, 1093).                                       *)
StopOutlastsStart ==
    [][stopped /\ stopped' /\ ~motor.moving => ~motor'.moving]_vars

(* Once nobody asks for anything else and the motor has no fault, a move   *)
(* that was asked for is triggered, however often writes fail and other    *)
(* clients take the slot (axis_manager.h:162): start does not stay set.    *)
Quiet == ~Retarget /\ ~QuickStop /\ ~MotorFaults

MoveIsTriggered == <>[][Quiet]_vars /\ <>[]~motor.fault => []<>~start

-----------------------------------------------------------------------------
(* Why it holds.                                                           *)

SlotShape ==
    /\ slot.st = "idle" => slot = Od!FreeSlot
    /\ slot.st # "idle" => slot.owner # "none"
    /\ slot.owner = "setup" => step # "idle" /\ slot.req \in SettingOf(step)

(* A write of the setup has ended as r.                                    *)
Ended(r) == slot.owner = "setup" /\ slot.st = "complete" /\ slot.res = r

(* What the motor has of p is what s_applied says, but for a write that    *)
(* has ended and whose result has not been collected.                      *)
Known(p) ==
    \/ applied[p] \in {param[p], NoTarget}
    \/ step = p /\ (Ended("ok") \/ Ended("timeout"))

SetupKnown ==
    /\ \A p \in Param \ (doubt \cup renewed) : Known(p)
    /\ Ended("ok") => param[step] = slot.req

(* STOP's HALT pulse lasts as long as a NEW_SETPOINT pulse begun before.   *)
HaltLasts == stopped => newSp <= halt

(* A move the motor has told of is the last one, and is not begun again.   *)
MoveIsLast ==
    /\ motor.moving => ~motor.there
    /\ heard => ~start /\ newSp = 0 /\ motor.goal = next /\ (hdr.there => motor.there)

IInv == TypeOK /\ SlotShape /\ SetupKnown /\ HaltLasts /\ MoveIsLast

-----------------------------------------------------------------------------
(* What comments say and the code does not do.                             *)

(* axis_manager.c:1083 again, without the exemption of overtaken writes.   *)
TriggerAfterAll == [][MovesBegin => \A p \in Param : param[p] = Desired[p]]_vars

(* axis_manager/README.md, invariant 2: every module that holds a request  *)
(* lets go of it when the motor enters its bootloader.                     *)
SetupLetsGo == step # "idle" /\ ~inBoot ~> step = "idle" \/ inBoot

(* axis_manager.c:300-305: a pulse is held for a few cycles so that the    *)
(* motor sees it even if frames are dropped, HALT like NEW_SETPOINT: when  *)
(* the pulse of a STOP is over the motor stands, or is being disabled.     *)
StopIsHeard ==
    at = "rest" /\ stopped /\ halt = 0 /\ ~inBoot => ~motor.moving \/ ~enable

(* The same of NEW_SETPOINT: when its pulse is over the motor has seen it. *)
StartIsSeen == [][newSp > 0 /\ newSp' = 0 /\ ~quick /\ ~inBoot => motor'.newBit]_vars

(* axis_manager.c:398 "the motor MCU stops on its own once we stop         *)
(* refreshing NEW_SETPOINT": STOP leaves no move that is yet to begin.     *)
StopCancels == [][Stop => ~start']_vars

=============================================================================
