--------------------------- MODULE HomeSequencer ---------------------------
(***************************************************************************)
(* app/axis_manager/home_sequencer.c: homing the axis over the shared      *)
(* request slot, with the encoder-type probe and the is_homed cache that   *)
(* ride on the same state machine, and the HOMING half of the operation    *)
(* arbiter in axis_manager.c.                                              *)
(*                                                                         *)
(* A pass of the super-loop runs home_sequencer_tick in two parts: from    *)
(* IDLE it may start background work (at = "rest"), then it runs the body  *)
(* of the state it is in (at = "body"); tick_active_op follows at once     *)
(* (at = "op").  Commands arrive between passes.  While the motor is in    *)
(* its bootloader the first two are skipped.                               *)
(*                                                                         *)
(* The slot is OdSlot's; "others" stands for every other client of it, and *)
(* "dropped" for a handle that was returned and thrown away.  A handle is  *)
(* known by who holds it: a held handle that is not the slot's is stale.   *)
(* (Handle numbers repeat after 65535 begins; a stale handle kept for that *)
(* long is not modelled.)                                                  *)
(***************************************************************************)
EXTENDS Naturals

CONSTANTS
    HomeTimeout,    \* HOME_OVERALL_TIMEOUT_MS, in units of TimePasses
    EncoderType,    \* what the motor says of its encoder, "inc" or "abs"
    HomeOnBoot      \* the persisted s_home_on_boot

ASSUME HomeAssumption ==
    /\ HomeTimeout \in Nat
    /\ EncoderType \in {"inc", "abs"}
    /\ HomeOnBoot \in BOOLEAN

VARIABLES
    slot,       \* the request slot of cia402
    state,      \* s_state
    handle,     \* s_handle: "held", or "none" for CIA402_OD_HANDLE_INVALID
    age,        \* time since s_start_ms, capped just past the timeout
    status,     \* s_last_motor_status
    enc,        \* s_encoder_type_known, s_encoder_is_incremental
    homed,      \* s_is_homed_known, s_is_homed
    autoHome,   \* s_home_on_boot && !s_boot_home_fired
    op,         \* s_active_op; "other" is SHOT_RECALL or JOYSTICK
    inBoot,     \* s_prev_motor_in_bl
    at,         \* where the pass is
    motor,      \* external: the motor's home_status and whether it is homed
    answer,     \* external: what the motor said, while its answer is in the slot
    run,        \* history: how far the motor is with the run last requested
    clean       \* history: that request found no handle left over

own == <<state, handle, age, status, enc, homed, autoHome>>
ghost == <<run, clean>>
outside == <<op, inBoot, motor, answer>>
vars == <<slot, own, outside, at, ghost>>

State == {"idle", "encType", "clearing", "writing", "polling", "readFault",
          "done", "failed"}
Running == {"clearing", "writing", "polling"}
Resting == {"idle", "done", "failed"}
HomeStatus == {"idle", "running", "done", "failed"}

Asks == {"encType", "clear", "start", "status", "fault", "abort", "other"}

Od == INSTANCE OdSlot WITH Holder <- {"home", "dropped", "others"},
          NoHolder <- "none", Request <- Asks, NoRequest <- "none"

Motor == [home : HomeStatus, homed : BOOLEAN]

TypeOK ==
    /\ slot \in Od!Slot
    /\ state \in State /\ handle \in {"held", "none"}
    /\ age \in 0..(HomeTimeout + 1)
    /\ status \in HomeStatus
    /\ enc \in {"unknown", "inc", "abs"}
    /\ homed \in {"unknown", "yes", "no"}
    /\ autoHome \in BOOLEAN
    /\ op \in {"none", "homing", "other"}
    /\ inBoot \in BOOLEAN
    /\ at \in {"rest", "body", "op"}
    /\ motor \in Motor
    /\ answer \in HomeStatus \cup {"homed", "unhomed", "none"}
    /\ run \in {"none", "asked", "cleared", "started", "finished"}
    /\ clean \in BOOLEAN

MotorAtPowerUp == [home |-> "idle", homed |-> FALSE]

Init ==
    /\ Od!SlotInit
    /\ state = "idle" /\ handle = "none" /\ age = 0 /\ status = "idle"
    /\ enc = "unknown" /\ homed = "unknown" /\ autoHome = HomeOnBoot
    /\ op = "none" /\ inBoot = FALSE /\ at = "rest"
    /\ motor = MotorAtPowerUp /\ answer = "none"
    /\ run = "none" /\ clean = TRUE

Holding == handle = "held"

-----------------------------------------------------------------------------
(* Commands, between passes.                                               *)

(* The start of a run, once the arbiter and the state allow it.            *)
Started ==
    /\ state' = "clearing" /\ status' = "idle" /\ age' = 0
    /\ run' = "asked" /\ clean' = (handle = "none")

(* Variant: homing is started whatever operation has the axis.             *)
RequestHomeUnarbitrated ==
    /\ at = "rest"
    /\ op' = IF op = "other" THEN op ELSE "homing"
    /\ state = "idle" /\ Started
    /\ UNCHANGED <<slot, handle, enc, homed, autoHome, inBoot, motor, answer, at>>

(* home_sequencer_request_home.  The arbiter is asked first and keeps      *)
(* HOMING even when the sequencer then refuses.                            *)
RequestHome ==
    /\ at = "rest"
    /\ op # "other"
    /\ op' = "homing"
    /\ \/ state = "idle" /\ Started
       \/ state # "idle" /\ UNCHANGED <<state, status, age, ghost>>
    /\ UNCHANGED <<slot, handle, enc, homed, autoHome, inBoot, motor, answer, at>>

(* Variant: STOP only takes the axis from the operation.                   *)
StopOpKeepsSequence ==
    /\ at = "rest"
    /\ op = "homing"
    /\ op' = "none"
    /\ UNCHANGED <<slot, own, inBoot, motor, answer, at, ghost>>

(* axis_manager_stop_op with HOMING active: home_sequencer_abort_best_effort. *)
(* The handle of the abort write is thrown away, s_handle stays.           *)
StopHoming ==
    /\ at = "rest"
    /\ op = "homing"
    /\ op' = "none"
    /\ state' = "idle" /\ status' = "idle"
    /\ \/ Od!SlotBegin("dropped", "abort")
       \/ ~Od!SlotFree /\ UNCHANGED slot
    /\ UNCHANGED <<handle, age, enc, homed, autoHome, inBoot, motor, answer, at, ghost>>

(* SHOT_RECALL and JOYSTICK come and go through the same arbiter.          *)
OtherOp ==
    /\ at = "rest"
    /\ \/ op = "none" /\ op' = "other"
       \/ op = "other" /\ op' = "none"
    /\ UNCHANGED <<slot, own, inBoot, motor, answer, at, ghost>>

-----------------------------------------------------------------------------
(* home_sequencer_tick, the part that starts work from IDLE.               *)

AutoHomeDue == state = "idle" /\ autoHome /\ enc = "inc" /\ op # "other"

Expired == age > HomeTimeout

(* Variant: the handle of a request is lost.                               *)
BeginForgets(q) == Od!SlotBegin("home", q) /\ handle' = "none"

Begin(q) == Od!SlotBegin("home", q) /\ handle' = "held"

PassStarts == at = "rest" /\ ~inBoot /\ at' = "body"

(* ENCTYPE_BOOT_DELAY_MS and the retry periods decide whether a read is    *)
(* due, so it may begin or not.                                            *)
KickProbe ==
    /\ PassStarts
    /\ state = "idle" /\ enc = "unknown"
    /\ Begin("encType")
    /\ state' = "encType"
    /\ UNCHANGED <<age, status, enc, homed, autoHome, outside, ghost>>

KickAutoHome ==
    /\ PassStarts
    /\ AutoHomeDue
    /\ Started
    /\ op' = "homing"
    /\ autoHome' = FALSE
    /\ UNCHANGED <<slot, handle, enc, homed, inBoot, motor, answer>>

KickFaultRead ==
    /\ PassStarts
    /\ state = "idle" /\ ~AutoHomeDue
    /\ Begin("fault")
    /\ state' = "readFault"
    /\ UNCHANGED <<age, status, enc, homed, autoHome, outside, ghost>>

KickNothing ==
    /\ PassStarts
    /\ ~AutoHomeDue
    /\ UNCHANGED <<slot, own, outside, ghost>>

Kick == KickProbe \/ KickAutoHome \/ KickFaultRead \/ KickNothing

-----------------------------------------------------------------------------
(* home_sequencer_tick, the body.                                          *)

BodyEnds == at = "body" /\ at' = "op"

BodyIdle ==
    /\ BodyEnds
    /\ state = "idle"
    /\ UNCHANGED <<slot, own, outside, ghost>>

(* Variant: the timeout spares the polling of the motor.                   *)
TimedOutSparesPolling == Expired /\ state \notin {"readFault", "polling"}

(* The overall timeout looks at every state but READING_FAULT.             *)
TimedOut == Expired /\ state # "readFault"

(* s_handle stays, and the request behind it is no longer waited for.      *)
BodyExpires ==
    /\ BodyEnds
    /\ state # "idle" /\ TimedOut
    /\ state' = "failed" /\ status' = "failed"
    /\ UNCHANGED <<slot, handle, age, enc, homed, autoHome, outside, ghost>>

InState(s) == BodyEnds /\ state = s /\ ~TimedOut

(* The states that send begin when they hold no handle, and go on waiting  *)
(* when the slot is taken.                                                 *)
Sends == [clearing |-> "clear", writing |-> "start", polling |-> "status",
          readFault |-> "fault"]

BodyBegins(s) ==
    /\ InState(s)
    /\ ~Holding
    /\ Begin(Sends[s])
    /\ UNCHANGED <<state, age, status, enc, homed, autoHome, outside, ghost>>

(* The handle is polled in vain, the slot is taken, or the next status     *)
(* read is not due yet.                                                    *)
BodyWaits(s) ==
    /\ InState(s)
    /\ IF Holding THEN ~Od!SlotReady("home")
                 ELSE ~Od!SlotFree \/ s = "polling"
    /\ UNCHANGED <<slot, own, outside, ghost>>

Collects(s) ==
    /\ InState(s)
    /\ Holding
    /\ Od!SlotCollect("home")
    /\ handle' = "none"
    /\ answer' = "none"
    /\ UNCHANGED <<op, inBoot, motor>>

Ok == slot.res = "ok"

BodyEncType ==
    /\ Collects("encType")
    /\ enc' = IF Ok THEN EncoderType ELSE enc
    /\ state' = "idle"
    /\ UNCHANGED <<age, status, homed, autoHome, ghost>>

(* Variant: a refused clear is as good as an accepted one.                 *)
BodyCommandUnchecked(s, next) ==
    /\ Collects(s)
    /\ state' = next /\ status' = status
    /\ UNCHANGED <<age, enc, homed, autoHome, ghost>>

(* CLEARING_CMD and WRITING_CMD: whatever request the handle was for, its  *)
(* result is taken for this one's.                                         *)
BodyCommand(s, next) ==
    /\ Collects(s)
    /\ IF Ok THEN state' = next /\ status' = status
             ELSE state' = "failed" /\ status' = "failed"
    /\ UNCHANGED <<age, enc, homed, autoHome, ghost>>

BodyStatus ==
    /\ Collects("polling")
    /\ status' = IF Ok THEN answer ELSE status
    /\ state' = IF Ok /\ answer \in {"done", "failed"} THEN "readFault" ELSE state
    /\ UNCHANGED <<age, enc, homed, autoHome, ghost>>

(* Variant: the end of a run is told without looking at fault_flags.       *)
BodyFaultUnread ==
    /\ Collects("readFault")
    /\ homed' = homed
    /\ state' = IF Ok /\ status \in {"done", "failed"} THEN status ELSE "idle"
    /\ UNCHANGED <<age, status, enc, autoHome, ghost>>

BodyFault ==
    /\ Collects("readFault")
    /\ homed' = IF ~Ok THEN homed ELSE IF answer = "homed" THEN "yes" ELSE "no"
    /\ state' = IF Ok /\ status \in {"done", "failed"} THEN status ELSE "idle"
    /\ UNCHANGED <<age, status, enc, autoHome, ghost>>

BodyTerminal ==
    /\ BodyEnds
    /\ state \in {"done", "failed"} /\ ~TimedOut
    /\ state' = "idle"
    /\ UNCHANGED <<slot, handle, age, status, enc, homed, autoHome, outside, ghost>>

Body ==
    \/ BodyIdle \/ BodyExpires
    \/ \E s \in DOMAIN Sends : BodyBegins(s)
    \/ \E s \in DOMAIN Sends \cup {"encType"} : BodyWaits(s)
    \/ BodyEncType
    \/ BodyCommand("clearing", "writing") \/ BodyCommand("writing", "polling")
    \/ BodyStatus \/ BodyFault \/ BodyTerminal

(* tick_active_op: HOMING is over when the sequencer rests.                *)
OpTick ==
    /\ at = "op" /\ at' = "rest"
    /\ op' = IF op = "homing" /\ state \in Resting THEN "none" ELSE op
    /\ UNCHANGED <<slot, own, inBoot, motor, answer, ghost>>

-----------------------------------------------------------------------------
(* The motor in its bootloader: cia402_od_abort, home_sequencer_reset, and *)
(* no tick until it leaves.                                                *)
BootEntry ==
    /\ at = "rest" /\ ~inBoot
    /\ inBoot' = TRUE
    /\ Od!SlotAbort
    /\ state' = "idle" /\ handle' = "none" /\ status' = "idle"
    /\ at' = "op"
    /\ motor' = MotorAtPowerUp /\ answer' = "none" /\ run' = "none"
    /\ UNCHANGED <<age, enc, homed, autoHome, op, clean>>

BootPass ==
    /\ at = "rest" /\ inBoot
    /\ at' = "op"
    /\ UNCHANGED <<slot, own, outside, ghost>>

BootExit ==
    /\ at = "rest" /\ inBoot
    /\ inBoot' = FALSE
    /\ UNCHANGED <<slot, own, op, motor, answer, at, ghost>>

-----------------------------------------------------------------------------
(* External: the other clients of the slot, the motor, time.               *)

OthersBegin ==
    /\ at = "rest" /\ Od!SlotBegin("others", "other")
    /\ UNCHANGED <<own, outside, at, ghost>>

OthersCollect ==
    /\ at = "rest" /\ Od!SlotCollect("others")
    /\ UNCHANGED <<own, outside, at, ghost>>

(* home_command is edge-triggered: 0 aborts and clears a latched outcome,  *)
(* 1 starts a run only from idle.                                          *)
EdgeStarts == slot.req = "start" /\ motor.home = "idle"

MotorExecutes ==
    /\ motor' = IF slot.req \in {"clear", "abort"} THEN [motor EXCEPT !.home = "idle"]
                ELSE IF EdgeStarts THEN [motor EXCEPT !.home = "running"]
                ELSE motor
    /\ run' = IF slot.req = "clear" /\ run = "asked" THEN "cleared"
              ELSE IF EdgeStarts /\ run \in {"asked", "cleared"} THEN "started"
              ELSE run

(* What a read finds.                                                      *)
Said == IF slot.req = "status" THEN motor.home
        ELSE IF slot.req # "fault" THEN "none"
        ELSE IF motor.homed THEN "homed" ELSE "unhomed"

(* A request times out whether or not the motor carried it out.            *)
MotorAnswers ==
    /\ at = "rest" /\ slot.st = "busy"
    /\ \/ Od!SlotFinish("ok") /\ MotorExecutes /\ answer' = Said
       \/ Od!SlotFinish("refused") /\ UNCHANGED <<motor, run, answer>>
       \/ /\ Od!SlotFinish("timeout") /\ UNCHANGED answer
          /\ MotorExecutes \/ UNCHANGED <<motor, run>>
    /\ UNCHANGED <<own, op, inBoot, at, clean>>

MotorHomes ==
    /\ at = "rest" /\ ~inBoot
    /\ motor.home = "running"
    /\ \/ motor' = [home |-> "done", homed |-> TRUE]
       \/ motor' = [home |-> "failed", homed |-> FALSE]
    /\ run' = IF run = "started" THEN "finished" ELSE run
    /\ UNCHANGED <<slot, own, op, inBoot, answer, at, clean>>

TimePasses ==
    /\ at = "rest" /\ ~Expired
    /\ age' = age + 1
    /\ UNCHANGED <<slot, state, handle, status, enc, homed, autoHome, outside, at, ghost>>

Command == RequestHome \/ StopHoming \/ OtherOp
Pass == Kick \/ Body \/ OpTick
Boot == BootEntry \/ BootPass \/ BootExit
Others == OthersBegin \/ OthersCollect
World == MotorAnswers \/ MotorHomes \/ TimePasses

Next == Command \/ Pass \/ Boot \/ Others \/ World

Spec == Init /\ [][Next]_vars

(* The super-loop passes for ever, and cia402_tick, the other clients and  *)
(* the clock get their turn between passes; the other clients leave the    *)
(* slot free at some passes, and a retry period ends at some of those.     *)
Fairness ==
    /\ WF_vars(Pass)
    /\ SF_vars(Kick /\ Od!SlotFree)
    /\ SF_vars(KickProbe)
    /\ SF_vars(MotorAnswers)
    /\ SF_vars(OthersCollect)
    /\ SF_vars(TimePasses)

FairSpec == Spec /\ Fairness

-----------------------------------------------------------------------------
(* What holds.                                                             *)

(* While the sequencer drives the motor nobody else has the axis: not      *)
(* after STOP, a timeout, a refused request or a bootloader cycle          *)
(* (axis_manager.c, OPERATION ARBITRATION).                                *)
HomingOwnsAxis == state \in Running => op = "homing"

(* A run reported done was carried out by the motor after it was asked     *)
(* for (home_sequencer.c:158 "can't short-circuit on a stale DONE"),       *)
(* provided the request found no handle left over from before: after a     *)
(* STOP it may, and takes that request's answer for its own.               *)
DoneIsReal == clean /\ state = "done" => run = "finished"

(* ... and by then the is_homed cache knows it (home_sequencer.h:12        *)
(* "refreshed at end of home sequence").                                   *)
HomedConfirmed == clean /\ state = "done" => homed = "yes"

(* Nobody will ever poll the request in the slot.                          *)
Orphan ==
    /\ ~Od!SlotFree
    /\ \/ slot.owner = "dropped"
       \/ slot.owner = "home" /\ (~Holding \/ state \in Resting)

(* The sequencer gives up a request it has in the slot only when it is     *)
(* stopped and when the overall timeout strikes.                           *)
OrphanedOnlySo == [][~Orphan /\ Orphan' => StopHoming \/ BodyExpires]_vars

(* Homing never keeps the axis for ever, whatever the motor does, except   *)
(* that a run asked for while the motor is in its bootloader waits there   *)
(* (the overall timeout, home_sequencer.c:239).                            *)
AxisReleased == op = "homing" ~> op # "homing" \/ inBoot

-----------------------------------------------------------------------------
(* Why it holds.                                                           *)

(* A handle in s_handle is always the slot's: what is given up is given up *)
(* by no longer waiting for it.                                            *)
HandleMatches == Holding <=> slot.owner = "home"

SlotShape ==
    /\ slot.st = "idle" => slot = Od!FreeSlot
    /\ slot.st = "busy" => slot.res = "none"
    /\ slot.st # "idle" => slot.owner # "none"
    /\ slot.owner = "others" => slot.req = "other"
    /\ slot.owner = "home" => slot.req \notin {"abort", "other"}
    /\ slot.owner = "dropped" =>
           slot.req = "abort" /\ state \in {"idle", "clearing", "failed"}
    /\ slot.owner # "none" /\ slot.req \in {"clear", "start", "abort"} => status # "done"

(* After a clean request the handle a state waits for is that of the       *)
(* request it sends.                                                       *)
RequestFits ==
    /\ clean /\ state = "clearing" /\ Holding => slot.req = "clear"
    /\ state = "writing" /\ Holding => slot.req = "start"
    /\ state = "polling" /\ Holding => slot.req = "status"
    /\ state = "readFault" /\ Holding => slot.req = "fault"
    /\ state \in {"clearing", "writing"} => status = "idle"

AnswerFits ==
    /\ answer # "none" => Holding /\ slot.res = "ok"
    /\ slot.req = "status" /\ slot.res = "ok" => answer \in HomeStatus
    /\ motor.home = "done" => motor.homed

Underway ==
    \/ run = "started" /\ motor.home = "running"
    \/ run = "finished" /\ motor.home \in {"done", "failed"}

Achieved == run = "finished" /\ motor.home = "done"

(* How far the motor is in each state of a clean run.                      *)
RunSoFar ==
    /\ state = "clearing" => IF Holding /\ slot.st = "complete"
                             THEN slot.res = "ok" => run = "cleared" /\ motor.home = "idle"
                             ELSE run = "asked"
    /\ state = "writing" => IF Holding /\ slot.st = "complete"
                            THEN slot.res = "ok" => Underway
                            ELSE run = "cleared" /\ motor.home = "idle"
    /\ state = "polling" => Underway
    /\ state = "polling" /\ answer = "done" => Achieved
    /\ status = "done" => Achieved
    /\ state = "readFault" /\ status = "done" /\ Holding /\ slot.res = "ok" => answer = "homed"
    /\ state = "done" => status = "done" /\ homed = "yes"

IInv ==
    /\ TypeOK
    /\ HomingOwnsAxis
    /\ HandleMatches
    /\ SlotShape
    /\ RequestFits
    /\ AnswerFits
    /\ clean => RunSoFar

-----------------------------------------------------------------------------
(* What the comments say and the code does not do.                         *)

(* axis_manager.c:385 "a competing joystick trim / shot recall waiting     *)
(* behind the block can proceed on the next tick".                         *)
StopFreesSlot == slot.owner = "dropped" ~> Od!SlotFree

=============================================================================
