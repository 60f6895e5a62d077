----------------------------- MODULE MotorSave -----------------------------
(***************************************************************************)
(* The save sequencer of app/axis_manager/motor_od_proxy.c.  The motor can *)
(* write its parameters to flash only with its power stage off, so a save  *)
(* drops the axis' enable latch, waits, asks the motor to save over the    *)
(* request slot, waits again and puts the latch back.  In the meantime the *)
(* latch belongs to everybody: the PC tool, the panels (SELECT, and their  *)
(* timeout), the jog buttons and quick stop all set it.                    *)
(*                                                                         *)
(* A pass of axis_manager_tick has two steps here: tick_motor_save         *)
(* (at = "rest") and, after the buttons, the part of compose_cyclic_cmd    *)
(* that carries a quick stop out (at = "compose").  Commands come between  *)
(* passes.  A unit of time is longer than the motor's command timeout.     *)
(***************************************************************************)
EXTENDS Naturals

CONSTANTS
    DisableTime,    \* MOTOR_SAVE_DISABLE_MS, in units
    GraceTime,      \* the 50 ms before the latch is put back
    OverallTime     \* MOTOR_SAVE_OVERALL_TIMEOUT_MS

ASSUME SaveAssumption ==
    /\ DisableTime \in Nat \ {0}
    /\ GraceTime \in Nat
    /\ OverallTime \in Nat

VARIABLES
    slot,       \* the request slot of cia402
    save,       \* s_save_state; "writing" holds s_save_handle
    was,        \* s_save_was_enabled
    phase,      \* time since s_save_phase_ms, bounded
    total,      \* time since s_save_start_ms, bounded
    latch,      \* s_axis.enable_latch
    quick,      \* s_axis.quick_stop_pulse
    inBoot,     \* the motor is in its bootloader
    at,         \* where the pass is
    drive,      \* external: the motor's power stage is on
    flash,      \* external: what became of the save: "none", "pending", "kept"
    want,       \* history: what was last asked for the axis, enabled or not
    crossed,    \* history: asked during a save, or in one pass with a quick stop
    revived,    \* history: enabled by someone since the save began
    told        \* history: the save was logged as written to flash

sequencer == <<save, was, phase, total>>
motor == <<drive, flash>>
ghost == <<want, crossed, revived, told>>
vars == <<slot, sequencer, latch, quick, inBoot, at, motor, ghost>>

Od == INSTANCE OdSlot WITH Holder <- {"save", "others"}, NoHolder <- "none",
          Request <- {"save", "other"}, NoRequest <- "none"

PhaseBound == DisableTime + GraceTime
TotalBound == OverallTime + 1

TypeOK ==
    /\ slot \in Od!Slot
    /\ save \in {"idle", "disabling", "writing", "reenable"}
    /\ phase \in 0..PhaseBound /\ total \in 0..TotalBound
    /\ was \in BOOLEAN /\ latch \in BOOLEAN /\ quick \in BOOLEAN
    /\ inBoot \in BOOLEAN /\ drive \in BOOLEAN
    /\ at \in {"rest", "compose"}
    /\ flash \in {"none", "pending", "kept"}
    /\ want \in BOOLEAN /\ crossed \in BOOLEAN /\ revived \in BOOLEAN /\ told \in BOOLEAN

(* axis_manager_init enables the axis; its power stage is off until a mode *)
(* is chosen.                                                              *)
Init ==
    /\ Od!SlotInit
    /\ save = "idle" /\ was = FALSE /\ phase = 0 /\ total = 0
    /\ latch = TRUE /\ quick = FALSE /\ inBoot = FALSE /\ at = "rest"
    /\ drive = FALSE /\ flash = "none"
    /\ want = TRUE /\ crossed = FALSE /\ revived = FALSE /\ told = FALSE

-----------------------------------------------------------------------------
(* Commands.                                                               *)

(* axis_manager_request_enable, from the PC tool, a panel's SELECT, GRAB   *)
(* or silence, and from the jog buttons in the middle of the pass.         *)
RequestEnable(b) ==
    /\ at = "rest" \/ b
    /\ latch' = b /\ want' = b
    /\ crossed' = (save # "idle" \/ quick)
    /\ revived' = (revived \/ b)
    /\ UNCHANGED <<slot, sequencer, quick, inBoot, at, motor, told>>

(* axis_manager_request_quick_stop leaves the latch to compose_cyclic_cmd. *)
RequestQuickStop ==
    /\ at = "rest"
    /\ quick' = TRUE /\ want' = FALSE
    /\ crossed' = (save # "idle")
    /\ UNCHANGED <<slot, sequencer, latch, inBoot, at, motor, revived, told>>

(* Variant: a second save may be asked for in the middle of the first.     *)
RequestSaveAnytime ==
    /\ at = "rest"
    /\ was' = latch /\ latch' = FALSE
    /\ save' = "disabling" /\ phase' = 0 /\ total' = 0
    /\ flash' = "none" /\ told' = FALSE
    /\ revived' = FALSE /\ crossed' = (crossed \/ quick)
    /\ UNCHANGED <<slot, quick, inBoot, at, drive, want>>

(* motor_od_proxy_request_motor_save                                       *)
RequestSave ==
    /\ at = "rest"
    /\ save = "idle"
    /\ was' = latch /\ latch' = FALSE
    /\ save' = "disabling" /\ phase' = 0 /\ total' = 0
    /\ flash' = "none" /\ told' = FALSE
    /\ revived' = FALSE /\ crossed' = (crossed \/ quick)
    /\ UNCHANGED <<slot, quick, inBoot, at, drive, want>>

-----------------------------------------------------------------------------
(* tick_motor_save                                                         *)

SaveTurn ==
    /\ at = "rest" /\ at' = "compose"
    /\ UNCHANGED <<quick, inBoot, motor, want, crossed, revived>>

(* Variant: only an unanswered write is given up.                          *)
ExpiredWriting == save = "writing" /\ total > OverallTime

Expired == save # "idle" /\ total > OverallTime

(* The handle is forgotten, the request is not aborted.                    *)
SaveExpires ==
    /\ SaveTurn /\ ~inBoot
    /\ Expired
    /\ latch' = was /\ save' = "idle"
    /\ UNCHANGED <<slot, was, phase, total, told>>

(* Nothing to do, the wait is not over, the slot is somebody else's, the   *)
(* answer is not there, or the motor is in its bootloader.                 *)
SaveWaits ==
    /\ SaveTurn
    /\ \/ inBoot
       \/ /\ ~Expired
          /\ \/ save = "idle"
             \/ save = "disabling" /\ (phase < DisableTime \/ ~Od!SlotFree)
             \/ save = "writing" /\ ~Od!SlotReady("save")
             \/ save = "reenable" /\ phase < GraceTime
    /\ UNCHANGED <<slot, sequencer, latch, told>>

(* Variant: the save is sent as soon as the slot is free.                  *)
SaveWritesAtOnce ==
    /\ SaveTurn /\ ~inBoot /\ ~Expired
    /\ save = "disabling"
    /\ Od!SlotBegin("save", "save")
    /\ save' = "writing" /\ phase' = 0
    /\ UNCHANGED <<was, total, latch, told>>

SaveWrites ==
    /\ SaveTurn /\ ~inBoot /\ ~Expired
    /\ save = "disabling" /\ phase >= DisableTime
    /\ Od!SlotBegin("save", "save")
    /\ save' = "writing" /\ phase' = 0
    /\ UNCHANGED <<was, total, latch, told>>

(* Whatever the answer, the latch is put back next.                        *)
SaveCollects ==
    /\ SaveTurn /\ ~inBoot /\ ~Expired
    /\ save = "writing"
    /\ Od!SlotCollect("save")
    /\ told' = (slot.res = "ok")
    /\ save' = "reenable" /\ phase' = 0
    /\ UNCHANGED <<was, total, latch>>

SaveReenables ==
    /\ SaveTurn /\ ~inBoot /\ ~Expired
    /\ save = "reenable" /\ phase >= GraceTime
    /\ latch' = (latch \/ was)
    /\ save' = "idle"
    /\ UNCHANGED <<slot, was, phase, total, told>>

(* compose_cyclic_cmd carries a quick stop out.                            *)
Compose ==
    /\ at = "compose" /\ at' = "rest"
    /\ latch' = (latch /\ ~quick)
    /\ quick' = FALSE
    /\ UNCHANGED <<slot, sequencer, inBoot, motor, ghost>>

-----------------------------------------------------------------------------
(* The motor's bootloader: cia402_od_abort and motor_od_proxy_reset, which *)
(* leaves the latch as it is.                                              *)

(* Variant: the reset forgets the sequencer.                               *)
BootEntryKeepsSave ==
    /\ at = "rest" /\ ~inBoot /\ inBoot' = TRUE
    /\ Od!SlotAbort
    /\ drive' = FALSE
    /\ flash' = IF flash = "pending" THEN "none" ELSE flash
    /\ crossed' = (crossed \/ save # "idle")
    /\ UNCHANGED <<sequencer, latch, quick, at, want, revived, told>>

BootEntry ==
    /\ at = "rest" /\ ~inBoot /\ inBoot' = TRUE
    /\ Od!SlotAbort /\ save' = "idle"
    /\ drive' = FALSE
    /\ flash' = IF flash = "pending" THEN "none" ELSE flash
    /\ crossed' = (crossed \/ save # "idle")
    /\ UNCHANGED <<was, phase, total, latch, quick, at, want, revived, told>>

BootExit ==
    /\ at = "rest" /\ inBoot /\ inBoot' = FALSE
    /\ UNCHANGED <<slot, sequencer, latch, quick, at, motor, ghost>>

-----------------------------------------------------------------------------
(* External: the other clients of the slot, the motor, time.               *)

OthersBegin ==
    /\ at = "rest" /\ Od!SlotBegin("others", "other")
    /\ UNCHANGED <<sequencer, latch, quick, inBoot, at, motor, ghost>>

OthersCollect ==
    /\ at = "rest" /\ Od!SlotCollect("others")
    /\ UNCHANGED <<sequencer, latch, quick, inBoot, at, motor, ghost>>

(* A save is carried out at once with the power stage off, and is pending  *)
(* until it is off otherwise (Interface/CHANGELOG.md:429).                 *)
CarriedOut ==
    IF slot.req = "save" THEN flash' = IF drive THEN "pending" ELSE "kept"
                         ELSE flash' = flash

MotorAnswers ==
    /\ at = "rest"
    /\ \/ Od!SlotFinish("ok") /\ CarriedOut
       \/ Od!SlotFinish("refused") /\ flash' = flash
       \/ Od!SlotFinish("timeout") /\ (CarriedOut \/ flash' = flash)
    /\ UNCHANGED <<sequencer, latch, quick, inBoot, at, drive, ghost>>

(* The power stage goes off with the latch, on a fault or without a mode.  *)
DriveIs(b) ==
    /\ b => latch /\ ~inBoot
    /\ drive' = b
    /\ flash' = IF flash = "pending" /\ ~b THEN "kept" ELSE flash

DriveFollows ==
    /\ at = "rest"
    /\ \E b \in BOOLEAN : b # drive /\ DriveIs(b)
    /\ UNCHANGED <<slot, sequencer, latch, quick, inBoot, at, ghost>>

(* By the end of a unit of time the motor has had a command, or has turned *)
(* its power stage off for want of one (MC_IF_COMMAND_TIMEOUT_MS).         *)
Later(age, bound) == IF age < bound THEN age + 1 ELSE age

(* A request ends within OD_RESPONSE_TIMEOUT_MS, less than a unit.          *)
TimePasses ==
    /\ at = "rest" /\ save # "idle"
    /\ slot.st = "busy" /\ slot.owner = "save" => phase = 0
    /\ phase' = Later(phase, PhaseBound) /\ total' = Later(total, TotalBound)
    /\ \E b \in BOOLEAN : DriveIs(b)
    /\ UNCHANGED <<slot, save, was, latch, quick, inBoot, at, ghost>>

Command == (\E b \in BOOLEAN : RequestEnable(b)) \/ RequestQuickStop \/ RequestSave
Tick == SaveExpires \/ SaveWaits \/ SaveWrites \/ SaveCollects \/ SaveReenables
Pass == Tick \/ Compose
Boot == BootEntry \/ BootExit
Others == OthersBegin \/ OthersCollect
World == MotorAnswers \/ DriveFollows \/ TimePasses

Next == Command \/ Pass \/ Boot \/ Others \/ World

Spec == Init /\ [][Next]_vars

(* The super-loop passes for ever, time goes on, and cia402 ends every     *)
(* request.  Nothing is assumed of the other clients: the slot may never   *)
(* be free.                                                                *)
Fairness == WF_vars(Pass) /\ SF_vars(TimePasses) /\ SF_vars(MotorAnswers)

FairSpec == Spec /\ Fairness

-----------------------------------------------------------------------------
(* What holds.                                                             *)

AtRest == save = "idle" /\ at = "rest" /\ ~quick

(* After a save the axis is enabled or disabled as was last asked for,     *)
(* through refused, timed-out and repeated saves (axis_manager.h:290       *)
(* "Re-enable is gated on the pre-save enable state"), unless somebody     *)
(* asked again, or the motor entered its bootloader, during the save.      *)
EnableRestored == AtRest /\ ~crossed => latch = want

(* A save that is logged as written (motor_od_proxy.c:487 "motor wrote to  *)
(* flash") is written, and not pending for a power stage still on, unless  *)
(* somebody enabled the axis since the save began.                         *)
LoggedIsKept == told /\ ~revived => flash = "kept"

(* A save comes to its end whatever becomes of its request: even when the  *)
(* slot is never free (MOTOR_SAVE_OVERALL_TIMEOUT_MS).                     *)
SaveEnds == save # "idle" ~> save = "idle" \/ inBoot

-----------------------------------------------------------------------------
(* Why it holds.                                                           *)

(* The handle is the slot's.  The converse fails: SaveExpires leaves its   *)
(* request in the slot, where nobody polls it.                             *)
HandleMatches ==
    /\ save = "writing" => slot.owner = "save"
    /\ slot.owner = "save" <=> slot.req = "save"
    /\ slot.st = "idle" => slot = Od!FreeSlot
    /\ slot.st # "idle" => slot.owner # "none"

(* The snapshot is what was asked for, and the latch is down meanwhile.    *)
Remembered ==
    /\ save # "idle" /\ ~crossed => was = want /\ ~latch /\ ~quick
    /\ save = "idle" /\ ~crossed => IF quick THEN ~want ELSE latch = want

(* Nobody but a command raises the latch in a save; the power stage is off *)
(* a unit of time later, and stays off.                                    *)
DriveIsOff ==
    save # "idle" /\ ~revived =>
        /\ ~latch
        /\ phase > 0 \/ save # "disabling" => ~drive

(* What the sequencer will log as written, or has: by then no request to   *)
(* save is left that the motor could still answer.                         *)
Written ==
    /\ told => save \in {"reenable", "idle"} /\ slot.owner # "save"
    /\ save = "writing" /\ slot.st = "complete" /\ slot.res = "ok" /\ ~revived
       => flash = "kept"
    /\ LoggedIsKept

IInv == TypeOK /\ HandleMatches /\ Remembered /\ DriveIsOff /\ Written

-----------------------------------------------------------------------------
(* What a comment says and the code does not do.                           *)

(* axis_manager.h:292 "operators who had the motor intentionally disabled  *)
(* don't suddenly find it re-enabled".                                     *)
OffStaysOff == AtRest /\ ~want => ~latch

=============================================================================
