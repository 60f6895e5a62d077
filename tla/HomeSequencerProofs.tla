------------------------ MODULE HomeSequencerProofs ------------------------
(***************************************************************************)
(* Theorems about HomeSequencer, for every timeout, either encoder and     *)
(* either boot setting: nobody has the axis while homing runs, and a done  *)
(* reported for a clean run is the motor's own done for that very run.     *)
(* The invariant is kept by each action in turn.                           *)
(***************************************************************************)
EXTENDS HomeSequencer, TLAPS

(* The vocabulary of states and of the slot is expanded everywhere.        *)
USE DEF State, Running, Resting, HomeStatus, Asks, Motor, Holding, own, outside, ghost,
        Od!Slot, Od!Result, Od!FreeSlot, Od!SlotFree, Od!Asked, Od!SlotReady,
        Od!SlotBegin, Od!SlotCollect, Od!SlotFinish, Od!SlotAbort, Od!SlotInit

-----------------------------------------------------------------------------
(* One lemma for each action of Next.                                      *)

LEMMA RequestHomeKeeps ==
    ASSUME IInv, RequestHome
    PROVE  IInv'
  <1>1. CASE state # "idle"
    BY <1>1 DEF RequestHome, Started, IInv, TypeOK, HomingOwnsAxis,
       HandleMatches, SlotShape, RequestFits,
     AnswerFits, RunSoFar, Underway, Achieved
  <1>2. CASE state = "idle"
    <2>1. Started
      BY <1>2 DEF RequestHome
    <2>2. clean' \in BOOLEAN
      BY <2>1, Zenon DEF Started
    <2>3. clean' <=> handle # "held"
      BY <2>1 DEF Started, IInv, TypeOK
    <2>4. TypeOK'
      BY <2>1, <2>2, HomeAssumption DEF RequestHome, Started, IInv, TypeOK
    <2>5. QED
      BY <2>1, <2>3, <2>4 DEF RequestHome, Started, IInv, TypeOK,
         HomingOwnsAxis, HandleMatches, SlotShape, RequestFits,
     AnswerFits, RunSoFar, Underway, Achieved
  <1>3. QED
    BY <1>1, <1>2

LEMMA StopHomingKeeps ==
    ASSUME IInv, StopHoming
    PROVE  IInv'
  BY HomeAssumption, SMTT(40) DEF StopHoming,
     IInv, TypeOK, HomingOwnsAxis, HandleMatches, SlotShape, RequestFits,
     AnswerFits, RunSoFar, Underway, Achieved

LEMMA OtherOpKeeps ==
    ASSUME IInv, OtherOp
    PROVE  IInv'
  BY HomeAssumption, SMTT(40) DEF OtherOp,
     IInv, TypeOK, HomingOwnsAxis, HandleMatches, SlotShape, RequestFits,
     AnswerFits, RunSoFar, Underway, Achieved

LEMMA KickProbeKeeps ==
    ASSUME IInv, KickProbe
    PROVE  IInv'
  BY HomeAssumption, SMTT(40) DEF KickProbe, PassStarts, Begin,
     IInv, TypeOK, HomingOwnsAxis, HandleMatches, SlotShape, RequestFits,
     AnswerFits, RunSoFar, Underway, Achieved

LEMMA KickAutoHomeKeeps ==
    ASSUME IInv, KickAutoHome
    PROVE  IInv'
  <1>1. autoHome' \in BOOLEAN /\ clean' \in BOOLEAN
    BY Zenon DEF KickAutoHome, Started
  <1>2. TypeOK'
    BY <1>1, HomeAssumption DEF KickAutoHome, PassStarts, Started, IInv, TypeOK
  <1>3. clean' <=> handle # "held"
    BY DEF KickAutoHome, Started, IInv, TypeOK
  <1>4. QED
    BY <1>2, <1>3 DEF KickAutoHome, PassStarts, Started, IInv, TypeOK,
       HomingOwnsAxis, HandleMatches, SlotShape, RequestFits,
     AnswerFits, RunSoFar, Underway, Achieved

LEMMA KickFaultReadKeeps ==
    ASSUME IInv, KickFaultRead
    PROVE  IInv'
  BY HomeAssumption, SMTT(40) DEF KickFaultRead, PassStarts, AutoHomeDue, Begin,
     IInv, TypeOK, HomingOwnsAxis, HandleMatches, SlotShape, RequestFits,
     AnswerFits, RunSoFar, Underway, Achieved

LEMMA KickNothingKeeps ==
    ASSUME IInv, KickNothing
    PROVE  IInv'
  BY HomeAssumption, SMTT(40) DEF KickNothing, PassStarts,
     IInv, TypeOK, HomingOwnsAxis, HandleMatches, SlotShape, RequestFits,
     AnswerFits, RunSoFar, Underway, Achieved

LEMMA BodyIdleKeeps ==
    ASSUME IInv, BodyIdle
    PROVE  IInv'
  BY HomeAssumption, SMTT(40) DEF BodyIdle, BodyEnds,
     IInv, TypeOK, HomingOwnsAxis, HandleMatches, SlotShape, RequestFits,
     AnswerFits, RunSoFar, Underway, Achieved

LEMMA BodyExpiresKeeps ==
    ASSUME IInv, BodyExpires
    PROVE  IInv'
  BY HomeAssumption, SMTT(40) DEF BodyExpires, BodyEnds,
     IInv, TypeOK, HomingOwnsAxis, HandleMatches, SlotShape, RequestFits,
     AnswerFits, RunSoFar, Underway, Achieved

LEMMA BodyBeginsKeeps ==
    ASSUME NEW s \in DOMAIN Sends, IInv, BodyBegins(s)
    PROVE  IInv'
  BY HomeAssumption, SMTT(40) DEF BodyBegins, BodyEnds, InState, Sends, Begin,
     IInv, TypeOK, HomingOwnsAxis, HandleMatches, SlotShape, RequestFits,
     AnswerFits, RunSoFar, Underway, Achieved

LEMMA BodyWaitsKeeps ==
    ASSUME NEW s, IInv, BodyWaits(s)
    PROVE  IInv'
  BY HomeAssumption, SMTT(40) DEF BodyWaits, BodyEnds, InState,
     IInv, TypeOK, HomingOwnsAxis, HandleMatches, SlotShape, RequestFits,
     AnswerFits, RunSoFar, Underway, Achieved

LEMMA BodyEncTypeKeeps ==
    ASSUME IInv, BodyEncType
    PROVE  IInv'
  BY HomeAssumption, SMTT(40) DEF BodyEncType, BodyEnds, InState, Collects, Ok,
     IInv, TypeOK, HomingOwnsAxis, HandleMatches, SlotShape, RequestFits,
     AnswerFits, RunSoFar, Underway, Achieved

LEMMA BodyCommandKeeps ==
    ASSUME NEW s, NEW next,
           <<s, next>> \in {<<"clearing", "writing">>, <<"writing", "polling">>},
           IInv, BodyCommand(s, next)
    PROVE  IInv'
  BY HomeAssumption, SMTT(40) DEF BodyCommand, BodyEnds, InState, Collects, Ok,
     IInv, TypeOK, HomingOwnsAxis, HandleMatches, SlotShape, RequestFits,
     AnswerFits, RunSoFar, Underway, Achieved

LEMMA BodyStatusKeeps ==
    ASSUME IInv, BodyStatus
    PROVE  IInv'
  <1>1. /\ state = "polling" /\ Holding /\ slot.st = "complete"
        /\ handle' = "none" /\ slot' = Od!FreeSlot /\ answer' = "none" /\ at' = "op"
        /\ UNCHANGED <<age, enc, homed, autoHome, op, inBoot, motor, ghost>>
    BY DEF BodyStatus, Collects, InState, BodyEnds
  <1>2. CASE slot.res = "ok" /\ answer \in {"done", "failed"}
    <2>1. state' = "readFault" /\ status' = answer
      BY <1>2 DEF BodyStatus, Ok
    <2>2. QED
      BY <1>1, <1>2, <2>1 DEF IInv, TypeOK, HomingOwnsAxis, HandleMatches,
         SlotShape, RequestFits,
     AnswerFits, RunSoFar, Underway, Achieved
  <1>3. CASE ~(slot.res = "ok" /\ answer \in {"done", "failed"})
    <2>1. state' = "polling" /\ status' \in {status, answer} /\ status' \in HomeStatus
      BY <1>1, <1>3 DEF BodyStatus, Ok, IInv, TypeOK, RequestFits, AnswerFits
    <2>2. status' # "done" \/ status' = status
      BY <1>3 DEF BodyStatus, Ok
    <2>3. QED
      BY <1>1, <1>3, <2>1, <2>2 DEF IInv, TypeOK, HomingOwnsAxis, HandleMatches,
         SlotShape, RequestFits,
     AnswerFits, RunSoFar, Underway, Achieved
  <1>4. QED
    BY <1>2, <1>3

LEMMA BodyFaultKeeps ==
    ASSUME IInv, BodyFault
    PROVE  IInv'
  BY HomeAssumption, SMTT(40) DEF BodyFault, BodyEnds, InState, Collects, Ok,
     IInv, TypeOK, HomingOwnsAxis, HandleMatches, SlotShape, RequestFits,
     AnswerFits, RunSoFar, Underway, Achieved

LEMMA BodyTerminalKeeps ==
    ASSUME IInv, BodyTerminal
    PROVE  IInv'
  BY HomeAssumption, SMTT(40) DEF BodyTerminal, BodyEnds,
     IInv, TypeOK, HomingOwnsAxis, HandleMatches, SlotShape, RequestFits,
     AnswerFits, RunSoFar, Underway, Achieved

LEMMA OpTickKeeps ==
    ASSUME IInv, OpTick
    PROVE  IInv'
  BY HomeAssumption, SMTT(40) DEF OpTick,
     IInv, TypeOK, HomingOwnsAxis, HandleMatches, SlotShape, RequestFits,
     AnswerFits, RunSoFar, Underway, Achieved

LEMMA BootEntryKeeps ==
    ASSUME IInv, BootEntry
    PROVE  IInv'
  BY HomeAssumption, SMTT(40) DEF BootEntry, MotorAtPowerUp,
     IInv, TypeOK, HomingOwnsAxis, HandleMatches, SlotShape, RequestFits,
     AnswerFits, RunSoFar, Underway, Achieved

LEMMA BootPassKeeps ==
    ASSUME IInv, BootPass
    PROVE  IInv'
  BY HomeAssumption, SMTT(40) DEF BootPass,
     IInv, TypeOK, HomingOwnsAxis, HandleMatches, SlotShape, RequestFits,
     AnswerFits, RunSoFar, Underway, Achieved

LEMMA BootExitKeeps ==
    ASSUME IInv, BootExit
    PROVE  IInv'
  <1>1. inBoot' \in BOOLEAN
    BY Zenon DEF BootExit
  <1>2. TypeOK'
    BY <1>1 DEF BootExit, IInv, TypeOK
  <1>3. QED
    BY <1>2 DEF BootExit, IInv, TypeOK, HomingOwnsAxis, HandleMatches,
       SlotShape, RequestFits,
     AnswerFits, RunSoFar, Underway, Achieved

LEMMA OthersBeginKeeps ==
    ASSUME IInv, OthersBegin
    PROVE  IInv'
  BY HomeAssumption, SMTT(40) DEF OthersBegin,
     IInv, TypeOK, HomingOwnsAxis, HandleMatches, SlotShape, RequestFits,
     AnswerFits, RunSoFar, Underway, Achieved

LEMMA OthersCollectKeeps ==
    ASSUME IInv, OthersCollect
    PROVE  IInv'
  BY HomeAssumption, SMTT(40) DEF OthersCollect,
     IInv, TypeOK, HomingOwnsAxis, HandleMatches, SlotShape, RequestFits,
     AnswerFits, RunSoFar, Underway, Achieved

LEMMA MotorAnswersKeeps ==
    ASSUME IInv, MotorAnswers
    PROVE  IInv'
  BY HomeAssumption, SMTT(40) DEF MotorAnswers, MotorExecutes, EdgeStarts, Said,
     IInv, TypeOK, HomingOwnsAxis, HandleMatches, SlotShape, RequestFits,
     AnswerFits, RunSoFar, Underway, Achieved

LEMMA MotorHomesKeeps ==
    ASSUME IInv, MotorHomes
    PROVE  IInv'
  <1>1. /\ motor' \in Motor
        /\ motor'.home \in {"done", "failed"}
        /\ motor'.home = "done" => motor'.homed
        /\ motor.home = "running"
    <2>1. CASE motor' = [home |-> "done", homed |-> TRUE]
      BY <2>1 DEF MotorHomes
    <2>2. CASE motor' = [home |-> "failed", homed |-> FALSE]
      BY <2>2 DEF MotorHomes
    <2>3. QED
      BY <2>1, <2>2 DEF MotorHomes
  <1>2. run' = IF run = "started" THEN "finished" ELSE run
    BY DEF MotorHomes
  <1>3. UNCHANGED <<slot, own, op, inBoot, answer, at, clean>>
    BY DEF MotorHomes
  <1>4. QED
    BY <1>1, <1>2, <1>3 DEF IInv, TypeOK, HomingOwnsAxis, HandleMatches,
       SlotShape, RequestFits,
     AnswerFits, RunSoFar, Underway, Achieved

LEMMA TimePassesKeeps ==
    ASSUME IInv, TimePasses
    PROVE  IInv'
  BY HomeAssumption, SMTT(40) DEF TimePasses, Expired,
     IInv, TypeOK, HomingOwnsAxis, HandleMatches, SlotShape, RequestFits,
     AnswerFits, RunSoFar, Underway, Achieved

LEMMA StutterKeeps ==
    ASSUME IInv, UNCHANGED vars
    PROVE  IInv'
  BY DEF vars, Od!FreeSlot, Od!SlotFree, IInv, TypeOK, HomingOwnsAxis,
     HandleMatches, SlotShape, RequestFits,
     AnswerFits, RunSoFar, Underway, Achieved

-----------------------------------------------------------------------------
(* Each group of actions, then every step.                                 *)

LEMMA InitIInv ==
    ASSUME Init
    PROVE  IInv
  <1>1. /\ autoHome \in BOOLEAN /\ inBoot \in BOOLEAN /\ clean \in BOOLEAN
        /\ motor \in Motor
    BY HomeAssumption, Zenon DEF Init, MotorAtPowerUp
  <1>2. 0 \in 0..(HomeTimeout + 1)
    BY HomeAssumption
  <1>3. TypeOK
    BY <1>1, <1>2 DEF Init, TypeOK
  <1>4. QED
    BY <1>3 DEF Init, MotorAtPowerUp, IInv, TypeOK, HomingOwnsAxis,
       HandleMatches, SlotShape, RequestFits,
     AnswerFits, RunSoFar, Underway, Achieved

LEMMA KickKeeps ==
    ASSUME IInv, Kick
    PROVE  IInv'
  BY KickProbeKeeps, KickAutoHomeKeeps, KickFaultReadKeeps, KickNothingKeeps DEF Kick

LEMMA BodyKeeps ==
    ASSUME IInv, Body
    PROVE  IInv'
  <1>1. CASE \E s \in DOMAIN Sends : BodyBegins(s)
    BY <1>1, BodyBeginsKeeps
  <1>2. CASE \E s \in DOMAIN Sends \cup {"encType"} : BodyWaits(s)
    BY <1>2, BodyWaitsKeeps
  <1>3. CASE BodyCommand("clearing", "writing") \/ BodyCommand("writing", "polling")
    BY <1>3, BodyCommandKeeps
  <1>4. CASE BodyIdle \/ BodyExpires \/ BodyEncType \/ BodyStatus \/ BodyFault \/ BodyTerminal
    BY <1>4, BodyIdleKeeps, BodyExpiresKeeps, BodyEncTypeKeeps, BodyStatusKeeps,
       BodyFaultKeeps, BodyTerminalKeeps
  <1>5. QED
    BY <1>1, <1>2, <1>3, <1>4 DEF Body

LEMMA StepKeeps ==
    ASSUME IInv, [Next]_vars
    PROVE  IInv'
  <1>1. CASE Command
    BY <1>1, RequestHomeKeeps, StopHomingKeeps, OtherOpKeeps DEF Command
  <1>2. CASE Pass
    BY <1>2, KickKeeps, BodyKeeps, OpTickKeeps DEF Pass
  <1>3. CASE Boot
    BY <1>3, BootEntryKeeps, BootPassKeeps, BootExitKeeps DEF Boot
  <1>4. CASE Others
    BY <1>4, OthersBeginKeeps, OthersCollectKeeps DEF Others
  <1>5. CASE World
    BY <1>5, MotorAnswersKeeps, MotorHomesKeeps, TimePassesKeeps DEF World
  <1>6. CASE UNCHANGED vars
    BY <1>6, StutterKeeps
  <1>7. QED
    BY <1>1, <1>2, <1>3, <1>4, <1>5, <1>6 DEF Next

-----------------------------------------------------------------------------
(* In every reachable state the variables have their types, a held handle  *)
(* is the slot's, and the run is as far as the sequencer's state says.     *)
THEOREM Invariance == Spec => []IInv
  <1>1. Init => IInv
    BY InitIInv
  <1>2. IInv /\ [Next]_vars => IInv'
    BY StepKeeps
  <1>3. QED
    BY <1>1, <1>2, PTL DEF Spec

(* home_sequencer_tick drives the motor only while the arbiter of          *)
(* axis_manager.c has given the axis to HOMING, through any mix of STOP,   *)
(* timeouts, refused requests and bootloader cycles.                       *)
THEOREM AxisOwned == Spec => []HomingOwnsAxis
  <1>1. IInv => HomingOwnsAxis
    BY DEF IInv
  <1>2. QED
    BY <1>1, Invariance, PTL

(* A sequencer that reports done has the motor's done for the run it asked *)
(* for, and not one left from an earlier run, if the request found no      *)
(* handle left over (home_sequencer_request_home, home_sequencer_tick).    *)
THEOREM DoneReal == Spec => []DoneIsReal
  <1>1. IInv => DoneIsReal
    BY DEF IInv, DoneIsReal, RunSoFar, Achieved
  <1>2. QED
    BY <1>1, Invariance, PTL

(* ... and the is_homed cache has been refreshed from fault_flags before.  *)
THEOREM HomedKnown == Spec => []HomedConfirmed
  <1>1. IInv => HomedConfirmed
    BY DEF IInv, HomedConfirmed, RunSoFar
  <1>2. QED
    BY <1>1, Invariance, PTL

-----------------------------------------------------------------------------
LEMMA NotOrphaned ==
    ASSUME IInv, IInv', [Next]_vars, ~Orphan, ~StopHoming, ~BodyExpires
    PROVE  ~Orphan'
  <1> USE DEF Orphan, IInv, TypeOK, HandleMatches, SlotShape
  <1>1. CASE Command
    BY <1>1 DEF Command, RequestHome, OtherOp, Started
  <1>2. CASE Kick
    BY <1>2 DEF Kick, KickProbe, KickAutoHome, KickFaultRead, KickNothing,
                PassStarts, Begin, Started
  <1>3. CASE Body
    <2>1. CASE \E s \in DOMAIN Sends : BodyBegins(s)
      BY <2>1 DEF BodyBegins, InState, Begin, Sends
    <2>2. CASE \E s \in DOMAIN Sends \cup {"encType"} : BodyWaits(s)
      BY <2>2 DEF BodyWaits
    <2>3. CASE BodyIdle \/ BodyTerminal
      BY <2>3 DEF BodyIdle, BodyTerminal
    <2>4. CASE \/ BodyCommand("clearing", "writing") \/ BodyCommand("writing", "polling")
               \/ BodyEncType \/ BodyStatus \/ BodyFault
      BY <2>4 DEF BodyCommand, BodyEncType, BodyStatus, BodyFault, Collects
    <2>5. QED
      BY <1>3, <2>1, <2>2, <2>3, <2>4 DEF Body
  <1>4. CASE OpTick
    BY <1>4 DEF OpTick
  <1>5. CASE Boot
    BY <1>5 DEF Boot, BootEntry, BootPass, BootExit
  <1>6. CASE Others
    BY <1>6 DEF Others, OthersBegin, OthersCollect
  <1>7. CASE World
    BY <1>7 DEF World, MotorAnswers, MotorHomes, TimePasses
  <1>8. CASE UNCHANGED vars
    BY <1>8 DEF vars
  <1>9. QED
    BY <1>1, <1>2, <1>3, <1>4, <1>5, <1>6, <1>7, <1>8 DEF Next, Pass

(* home_sequencer.c leaves a request of its own unpolled in the slot, which *)
(* wedges it for every client, only by a STOP or by the overall timeout.    *)
THEOREM HandlesKept == Spec => OrphanedOnlySo
  <1>1. IInv /\ IInv' /\ [Next]_vars => [~Orphan /\ Orphan' => StopHoming \/ BodyExpires]_vars
    BY NotOrphaned
  <1>2. QED
    BY <1>1, Invariance, PTL DEF Spec, OrphanedOnlySo

=============================================================================
