-------------------------------- MODULE Jog --------------------------------
(***************************************************************************)
(* The hands on the stick: the on-board buttons (buttons_jog.c), the       *)
(* panel's MOVEMENT messages with their watchdog (app/cmc_state), and the  *)
(* PC tool's writes, all of which drive the axis through one joystick      *)
(* value, arbitrated with shot recalls and homing by the operation that    *)
(* has the axis (axis_manager.c sections 2, 3, 9, 13 and 16).              *)
(*                                                                         *)
(* A pass of the super-loop: axis_manager takes the motor's status and     *)
(* looks at the operation (at = "rest"), polls the buttons and composes    *)
(* the velocity for the motor (at = "buttons"); app/od carries out what    *)
(* the PC tool writes (at = "od"); app/cmc_state looks at the watchdog;    *)
(* the panels' messages come last (at = "rest" again).                     *)
(*                                                                         *)
(* Deflections and velocities are kept as their signs.  Faults, the HALT   *)
(* pulse of a STOP and the motor's own way through a move are AxisMove's.  *)
(***************************************************************************)
EXTENDS Integers

CONSTANTS
    Buttons,    \* what may be held of the two: "none", "up", "down", "both"
    Raw,        \* raw deflections
    Centre,     \* joystick_raw_center
    Dwell,      \* hold_dwell_ms, in units of TimePasses
    Watchdog,   \* JOYSTICK_WATCHDOG_MS, in units of TimePasses
    Holding     \* the mode after a release, by 0x3044 axis_holding_enable

OpMode == {"off", "joystick", "position", "hold"}
Sign == {-1, 0, 1}

ASSUME JogAssumption ==
    /\ "none" \in Buttons /\ Buttons \subseteq {"none", "up", "down", "both"}
    /\ 0 \in Raw /\ Raw \subseteq Int /\ Centre \in Int
    /\ Dwell \in Nat /\ Watchdog \in Nat
    /\ Holding \in {"hold", "off"}

VARIABLES
    at,         \* where the pass is
    held,       \* external: the buttons held, as bsp/buttons debounces them
    own,        \* s_own_mode
    prev,       \* s_prev_mode
    raw,        \* joystick_raw
    value,      \* joystick_value
    mode,       \* op_mode_commanded
    op,         \* s_active_op; "move" is a shot recall or a homing
    enable,     \* enable_latch
    quiet,      \* s_joystick_quiescent_since_ms: 0, or 1 and the time since
    active,     \* s_movement_active
    silence,    \* time since s_last_movement_ms
    moving,     \* MC_IF_MOVE_MOVING of movement_status
    demand,     \* velocity_setpoint of the last cyclic command
    turning,    \* external: the motor turns
    lost,       \* history: the operation ended under held buttons
    byPc        \* history: the PC tool was the last to deflect the stick

buttons == <<own, prev>>
stick == <<raw, value>>
axis == <<mode, op, enable, quiet>>
watch == <<active, silence>>
motor == <<moving, demand, turning>>
ghost == <<lost, byPc>>
vars == <<at, held, buttons, stick, axis, watch, motor, ghost>>

TypeOK ==
    /\ at \in {"rest", "buttons", "od"}
    /\ held \in Buttons /\ own \in BOOLEAN /\ prev \in OpMode
    /\ raw \in Raw /\ value \in Sign
    /\ mode \in OpMode /\ op \in {"none", "joystick", "move"} /\ enable \in BOOLEAN
    /\ quiet \in 0..Dwell + 1
    /\ active \in BOOLEAN /\ silence \in 0..Watchdog + 1
    /\ moving \in BOOLEAN /\ demand \in Sign /\ turning \in BOOLEAN
    /\ lost \in BOOLEAN /\ byPc \in BOOLEAN

Init ==
    /\ at = "rest" /\ held = "none"
    /\ own = FALSE /\ prev = "off"
    /\ raw = 0 /\ value = 0
    /\ mode = "off" /\ op = "none" /\ enable = TRUE /\ quiet = 0
    /\ active = FALSE /\ silence = 0
    /\ moving = FALSE /\ demand = 0 /\ turning = FALSE
    /\ lost = FALSE /\ byPc = FALSE

(* recompute_joystick_value_from_raw *)
Calibrated(r) == IF r > Centre THEN 1 ELSE IF r < Centre THEN -1 ELSE 0

(* axis_manager_try_begin_op(JOYSTICK)                                     *)
Free == op \in {"none", "joystick"}
Begins == op' = "joystick" /\ quiet' = 0

-----------------------------------------------------------------------------
(* tick_active_op                                                          *)

(* set_active_op(NONE) and apply_op_release_hold                           *)
Release ==
    /\ op' = "none" /\ mode' = Holding /\ quiet' = 0
    /\ lost' = (lost \/ own)

(* Variant: a stick that is still deflected counts as quiescent.           *)
QuietWhenStill == ~moving'

(* Variant: only a stick in joystick mode counts as quiescent.             *)
QuietInMode == ~moving' /\ value = 0 /\ mode = "joystick"

Quiet == ~moving' /\ value = 0

TickJoystick ==
    /\ op = "joystick"
    /\ \/ ~Quiet /\ quiet' = 0 /\ UNCHANGED <<op, mode, lost>>
       \/ Quiet /\ quiet = 0 /\ quiet' = 1 /\ UNCHANGED <<op, mode, lost>>
       \/ Quiet /\ quiet \in 1..Dwell /\ UNCHANGED <<op, mode, quiet, lost>>
       \/ Quiet /\ quiet > Dwell /\ Release

TickOther ==
    /\ op # "joystick"
    /\ \/ UNCHANGED <<op, mode, quiet, lost>>
       \/ op = "move" /\ Release

PassStatus ==
    /\ at = "rest" /\ at' = "buttons"
    /\ moving' \in {moving, turning}
    /\ TickJoystick \/ TickOther
    /\ UNCHANGED <<held, buttons, stick, enable, watch, demand, turning, byPc>>

-----------------------------------------------------------------------------
(* buttons_jog_tick, and the velocity of compose_cyclic_cmd.               *)

Direction == CASE held = "up" -> 1 [] held = "down" -> -1 [] OTHER -> 0

(* axis_manager_set_joystick_value, from the buttons and from 0x3021; what *)
(* it leaves alone when the axis is not free.                              *)
SetValue(v) ==
    \/ v = 0 /\ value' = 0 /\ UNCHANGED <<mode, op, quiet>>
    \/ v # 0 /\ Free /\ Begins /\ mode' = "joystick" /\ value' = v
    \/ v # 0 /\ ~Free /\ UNCHANGED <<value, mode, op, quiet>>

(* Variant: the press does not ask for the axis.                           *)
PressAnyway ==
    /\ held # "none" /\ ~own
    /\ own' = TRUE /\ prev' = mode /\ lost' = FALSE
    /\ enable' = TRUE /\ mode' = "joystick" /\ value' = Direction
    /\ UNCHANGED <<raw, op, quiet>>

(* The first press.                                                        *)
Press ==
    /\ held # "none" /\ ~own /\ Free
    /\ own' = TRUE /\ prev' = mode /\ lost' = FALSE
    /\ enable' = TRUE /\ mode' = "joystick" /\ Begins /\ value' = Direction
    /\ UNCHANGED raw

PressRejected ==
    /\ held # "none" /\ ~own /\ ~Free
    /\ UNCHANGED <<buttons, stick, mode, op, enable, quiet, lost>>

Hold ==
    /\ held # "none" /\ own
    /\ SetValue(Direction)
    /\ UNCHANGED <<buttons, raw, enable, lost>>

(* Released, and the motor still turns.                                    *)
RunOut ==
    /\ held = "none" /\ own /\ moving
    /\ value' = 0
    /\ UNCHANGED <<buttons, raw, mode, op, enable, quiet, lost>>

(* Released and at rest: the mode of before the press comes back, and the  *)
(* stick is read again, which may ask for the axis in its turn.            *)
HandBack ==
    /\ held = "none" /\ own /\ ~moving
    /\ own' = FALSE
    /\ \/ raw = 0 /\ value' = Calibrated(0) /\ mode' = prev /\ UNCHANGED <<op, quiet>>
       \/ raw # 0 /\ Free /\ value' = Calibrated(raw) /\ mode' = "joystick" /\ Begins
       \/ raw # 0 /\ ~Free /\ value' = 0 /\ mode' = prev /\ UNCHANGED <<op, quiet>>
    /\ UNCHANGED <<prev, raw, enable, lost>>

NoButtons ==
    /\ held = "none" /\ ~own
    /\ UNCHANGED <<buttons, stick, mode, op, enable, quiet, lost>>

PassButtons ==
    /\ at = "buttons" /\ at' = "od"
    /\ Press \/ PressRejected \/ Hold \/ RunOut \/ HandBack \/ NoButtons
    /\ demand' = IF enable' /\ mode' = "joystick" THEN value' ELSE 0
    /\ UNCHANGED <<held, watch, moving, turning, byPc>>

-----------------------------------------------------------------------------
(* cmc_state_update_from_motor: the joystick watchdog.                     *)

Silent == active /\ silence > Watchdog

PassWatch ==
    /\ at = "od" /\ at' = "rest"
    /\ \/ Silent /\ raw' = 0 /\ value' = Calibrated(0) /\ active' = FALSE /\ byPc' = FALSE
       \/ ~Silent /\ UNCHANGED <<stick, active, byPc>>
    /\ UNCHANGED <<held, buttons, axis, silence, motor, lost>>

-----------------------------------------------------------------------------
(* What comes from outside.                                                *)

(* cmc_state_handle_movement_scaled, from a panel or over VISCA.           *)
Movement(r) ==
    /\ at = "rest" /\ Free
    /\ Begins /\ mode' = "joystick"
    /\ raw' = r /\ value' = Calibrated(r)
    /\ active' = TRUE /\ silence' = 0
    /\ byPc' = FALSE
    /\ UNCHANGED <<at, held, buttons, enable, motor, lost>>

(* 0x3026, axis_manager_set_joystick_raw.                                  *)
PcRaw(r) ==
    /\ at = "od"
    /\ \/ r = 0 /\ UNCHANGED <<mode, op, quiet>>
       \/ r # 0 /\ Free /\ Begins /\ mode' = "joystick"
    /\ raw' = r /\ value' = Calibrated(r)
    /\ byPc' = (r # 0)
    /\ UNCHANGED <<at, held, buttons, enable, watch, motor, lost>>

(* 0x3021 *)
PcValue(v) ==
    /\ at = "od" /\ v # 0 => Free
    /\ SetValue(v)
    /\ byPc' = (byPc \/ v # 0)
    /\ UNCHANGED <<at, held, buttons, raw, enable, watch, motor, lost>>

(* 0x3020, which nothing arbitrates.                                       *)
PcMode(m) ==
    /\ at = "od"
    /\ mode' = m
    /\ UNCHANGED <<at, held, buttons, stick, op, enable, quiet, watch, motor, ghost>>

(* 0x3010 and 0x3011, and the selection of the camera.                     *)
Switch ==
    /\ at \in {"od", "rest"}
    /\ enable' = ~enable
    /\ UNCHANGED <<at, held, buttons, stick, mode, op, quiet, watch, motor, ghost>>

(* cmc_state_move_to_shot takes the mode, home_sequencer_request_home      *)
(* leaves it.                                                              *)
MoveBegins ==
    /\ at \in {"od", "rest"} /\ op \in {"none", "move"}
    /\ op' = "move" /\ quiet' = 0
    /\ mode' \in {mode, "position"}
    /\ UNCHANGED <<at, held, buttons, stick, enable, watch, motor, ghost>>

(* cmc_state_stop_movement, through axis_manager_stop_op.                  *)
Stop ==
    /\ at = "rest"
    /\ op' = "none" /\ quiet' = 0
    /\ \/ op = "joystick" /\ raw' = 0 /\ value' = 0 /\ byPc' = FALSE
       \/ op # "joystick" /\ UNCHANGED <<stick, byPc>>
    /\ lost' = (lost \/ own)
    /\ UNCHANGED <<at, held, buttons, mode, enable, watch, motor>>

HandsOn(b) ==
    /\ at = "rest" /\ b # held
    /\ held' = b
    /\ UNCHANGED <<at, buttons, stick, axis, watch, motor, ghost>>

(* The motor follows the demand, or a move of its own.                     *)
MotorStarts ==
    /\ at = "rest" /\ ~turning /\ (demand # 0 \/ op = "move")
    /\ turning' = TRUE
    /\ UNCHANGED <<at, held, buttons, stick, axis, watch, moving, demand, ghost>>

MotorStops ==
    /\ at = "rest" /\ turning /\ demand = 0
    /\ turning' = FALSE
    /\ UNCHANGED <<at, held, buttons, stick, axis, watch, moving, demand, ghost>>

Later(t, bound) == IF t > bound THEN t ELSE t + 1

TimePasses ==
    /\ at = "rest"
    /\ quiet' = IF quiet = 0 THEN 0 ELSE Later(quiet, Dwell)
    /\ silence' = IF active THEN Later(silence, Watchdog) ELSE silence
    /\ <<quiet, silence>>' # <<quiet, silence>>
    /\ UNCHANGED <<at, held, buttons, stick, mode, op, enable, active, motor, ghost>>

Pass == PassStatus \/ PassButtons \/ PassWatch

Moved == \E r \in Raw : Movement(r)

Pc == \/ \E r \in Raw : PcRaw(r)
      \/ \E v \in Sign : PcValue(v)
      \/ \E m \in OpMode : PcMode(m)

Next ==
    \/ Pass \/ Moved \/ Pc \/ Switch \/ MoveBegins \/ Stop
    \/ \E b \in Buttons : HandsOn(b)
    \/ MotorStarts \/ MotorStops \/ TimePasses

Spec == Init /\ [][Next]_vars

(* The loop keeps turning and time passes; statuses come back now and then,*)
(* and a motor without a demand comes to rest.                             *)
FairSpec ==
    /\ Spec
    /\ WF_vars(Pass) /\ SF_vars(PassStatus /\ moving' = turning)
    /\ SF_vars(TimePasses) /\ SF_vars(MotorStops)

-----------------------------------------------------------------------------
(* Properties.  What depends on raw 0 being the centre says so.            *)

Centred == Calibrated(0) = 0

(* A stick that is deflected has the axis: while a move has it, and while  *)
(* nobody has, the value is 0, whoever of the three wrote it last and      *)
(* whatever became of its operation (axis_manager.c:1517).                 *)
StickHasAxis == Centred /\ value # 0 => op = "joystick"

(* The buttons have the axis from the press on, unless it was taken from   *)
(* them since.                                                             *)
ButtonsHaveAxis == own /\ ~lost => op = "joystick"

(* No deflection without somebody to end it: the watchdog or the PC tool.  *)
RawIsWatched == raw # 0 => active \/ byPc

IInv == TypeOK /\ StickHasAxis /\ ButtonsHaveAxis /\ RawIsWatched

(* The buttons do not disturb a move (buttons_jog.c:82: "so a mid-home or  *)
(* mid-shot-recall button press doesn't silently abort"), except one that  *)
(* began while they were held and had lost the axis: after a STOP, or with *)
(* both held for the dwell.                                                *)
MoveUndisturbed ==
    [][PassButtons /\ op = "move" /\ ~lost => UNCHANGED <<mode, value, enable>>]_vars

(* Dead man: when the panel is silent and the buttons are let go, the axis *)
(* is brought to rest and given back, so that moves are accepted again     *)
(* (cmc_state.c:63) - unless the PC tool has the stick, which no watchdog  *)
(* follows.                                                                *)
HandsOff == <>[][~Moved]_vars /\ <>[](held = "none" /\ ~byPc)
DeadMan == Centred /\ HandsOff => <>[](op # "joystick" /\ demand = 0)

-----------------------------------------------------------------------------
(* What comments say and the code does not do.                             *)

(* buttons_jog.c:82 again, whenever the move began: the release puts back  *)
(* the mode of before the press.                                           *)
ReleaseSparesMove ==
    [][PassButtons /\ op = "move" => UNCHANGED <<mode, value, enable>>]_vars

(* cmc_state.c:63 "we zero the joystick so a hard-disconnected panel       *)
(* doesn't leave the motor running": raw 0 is a deflection when the centre *)
(* has been calibrated away from it.                                       *)
PanelGoneStops == HandsOff => <>[](demand = 0)

=============================================================================
