--------------------------- MODULE AxisMoveProofs ---------------------------
(***************************************************************************)
(* Theorems about AxisMove, for every set of shots, pulse length, grace    *)
(* and set of commands: a move is triggered only when the motor has the    *)
(* mode and target that are commanded, an arrival told of a move that was  *)
(* heard of is real, and no move triggered before STOP begins after it.    *)
(***************************************************************************)
EXTENDS AxisMove, TLAPS

(* The vocabulary of the slot and of the parameters is expanded everywhere. *)
USE DEF Param, OpMode, MotorMode, Setting, SettingOf,
        command, setup, progress, outside, ghost,
        Od!Slot, Od!Result, Od!FreeSlot, Od!SlotFree, Od!Asked, Od!SlotReady,
        Od!SlotBegin, Od!SlotCollect, Od!SlotFinish, Od!SlotAbort, Od!SlotInit

LEMMA Counts ==
    /\ 0 \in 0..PulseCycles /\ PulseCycles \in 0..PulseCycles /\ PulseCycles > 0
    /\ 0 \in 0..Grace
    /\ \A n \in 0..PulseCycles : Minus1(n) \in 0..PulseCycles /\ Minus1(n) <= n
    /\ \A n \in 0..Grace : Older(n) \in 0..Grace
  BY AxisAssumption DEF Minus1, Older

LEMMA MoveToShotKeeps ==
    ASSUME IInv, NEW t \in Target, MoveToShot(t)
    PROVE  IInv'
  <1>0. start' \in BOOLEAN /\ heard' \in BOOLEAN
    BY Zenon DEF MoveToShot, Commanded, TryBegin
  <1>1. TypeOK'
    BY <1>0, Counts, AxisAssumption DEF MoveToShot, Commanded, TryBegin, IInv, TypeOK
  <1>2. SlotShape' /\ SetupKnown'
    BY DEF MoveToShot, Commanded, TryBegin, IInv, TypeOK, SlotShape, SetupKnown,
       Known, Ended
  <1>3. HaltLasts'
    BY Counts DEF MoveToShot, Commanded, TryBegin, IInv, TypeOK, HaltLasts
  <1>4. MoveIsLast'
    BY DEF MoveToShot, Commanded, TryBegin, IInv, TypeOK, MoveIsLast
  <1>5. QED
    BY <1>1, <1>2, <1>3, <1>4 DEF IInv

LEMMA StopKeeps ==
    ASSUME IInv, Stop
    PROVE  IInv'
  <1>0. heard' \in BOOLEAN /\ stopped' \in BOOLEAN
    BY Zenon DEF Stop, Commanded
  <1>1. TypeOK'
    BY <1>0, Counts, AxisAssumption DEF Stop, Commanded, IInv, TypeOK
  <1>2. SlotShape' /\ SetupKnown'
    BY DEF Stop, Commanded, IInv, TypeOK, SlotShape, SetupKnown, Known, Ended
  <1>3. HaltLasts'
    BY Counts DEF Stop, Commanded, IInv, TypeOK, HaltLasts
  <1>4. MoveIsLast'
    BY DEF Stop, Commanded, IInv, TypeOK, MoveIsLast
  <1>5. QED
    BY <1>1, <1>2, <1>3, <1>4 DEF IInv

LEMMA TrimKeeps ==
    ASSUME IInv, Trim
    PROVE  IInv'
  <1>1. TypeOK'
    BY Counts, AxisAssumption DEF Trim, Commanded, TryBegin, IInv, TypeOK
  <1>2. SlotShape' /\ SetupKnown'
    BY DEF Trim, Commanded, TryBegin, IInv, TypeOK, SlotShape, SetupKnown, Known, Ended
  <1>3. HaltLasts'
    BY Counts DEF Trim, Commanded, TryBegin, IInv, TypeOK, HaltLasts
  <1>4. MoveIsLast'
    BY DEF Trim, Commanded, TryBegin, IInv, TypeOK, MoveIsLast
  <1>5. QED
    BY <1>1, <1>2, <1>3, <1>4 DEF IInv

LEMMA QuickStopKeeps ==
    ASSUME IInv, QuickStop
    PROVE  IInv'
  <1>0. quick' \in BOOLEAN
    BY Zenon DEF QuickStop, Commanded
  <1>1. TypeOK'
    BY <1>0, Counts, AxisAssumption DEF QuickStop, Commanded, IInv, TypeOK
  <1>2. SlotShape' /\ SetupKnown'
    BY DEF QuickStop, Commanded, IInv, TypeOK, SlotShape, SetupKnown, Known, Ended
  <1>3. HaltLasts'
    BY Counts DEF QuickStop, Commanded, IInv, TypeOK, HaltLasts
  <1>4. MoveIsLast'
    BY DEF QuickStop, Commanded, IInv, TypeOK, MoveIsLast
  <1>5. QED
    BY <1>1, <1>2, <1>3, <1>4 DEF IInv

LEMMA EnableKeeps ==
    ASSUME IInv, Enable
    PROVE  IInv'
  <1>0. enable' \in BOOLEAN
    BY Zenon DEF Enable, Commanded
  <1>1. TypeOK'
    BY <1>0, Counts, AxisAssumption DEF Enable, Commanded, IInv, TypeOK
  <1>2. SlotShape' /\ SetupKnown'
    BY DEF Enable, Commanded, IInv, TypeOK, SlotShape, SetupKnown, Known, Ended
  <1>3. HaltLasts'
    BY Counts DEF Enable, Commanded, IInv, TypeOK, HaltLasts
  <1>4. MoveIsLast'
    BY DEF Enable, Commanded, IInv, TypeOK, MoveIsLast
  <1>5. QED
    BY <1>1, <1>2, <1>3, <1>4 DEF IInv

LEMMA PassStatusKeeps ==
    ASSUME IInv, PassStatus
    PROVE  IInv'
  <1>1. TypeOK'
    BY Counts, AxisAssumption DEF PassStatus, TickOp, TickShot, Release, OpMode,
       IInv, TypeOK
  <1>2. SlotShape' /\ SetupKnown'
    BY DEF PassStatus, TickOp, TickShot, Release, OpMode, IInv, TypeOK,
       SlotShape, SetupKnown, Known, Ended
  <1>3. HaltLasts'
    BY Counts DEF PassStatus, TickOp, TickShot, Release, OpMode, IInv, TypeOK, HaltLasts
  <1>4. MoveIsLast'
    BY DEF PassStatus, TickOp, TickShot, Release, OpMode, IInv, TypeOK, MoveIsLast
  <1>5. QED
    BY <1>1, <1>2, <1>3, <1>4 DEF IInv

LEMMA BootEntryKeeps ==
    ASSUME IInv, BootEntry
    PROVE  IInv'
  <1>0. inBoot' \in BOOLEAN /\ heard' \in BOOLEAN
    BY Zenon DEF BootEntry, ParamAtPowerUp, MotorAtPowerUp, Motor
  <1>1. TypeOK'
    BY <1>0, Counts, AxisAssumption DEF BootEntry, ParamAtPowerUp,
       MotorAtPowerUp, Motor, IInv, TypeOK
  <1>2. SlotShape' /\ SetupKnown'
    BY DEF BootEntry, ParamAtPowerUp, MotorAtPowerUp, Motor, IInv, TypeOK,
       SlotShape, SetupKnown, Known, Ended
  <1>3. HaltLasts'
    BY Counts DEF BootEntry, ParamAtPowerUp, MotorAtPowerUp, Motor, IInv,
       TypeOK, HaltLasts
  <1>4. MoveIsLast'
    BY DEF BootEntry, ParamAtPowerUp, MotorAtPowerUp, Motor, IInv, TypeOK, MoveIsLast
  <1>5. QED
    BY <1>1, <1>2, <1>3, <1>4 DEF IInv

LEMMA BootExitKeeps ==
    ASSUME IInv, BootExit
    PROVE  IInv'
  <1>0. inBoot' \in BOOLEAN
    BY Zenon DEF BootExit
  <1>1. TypeOK'
    BY <1>0, Counts, AxisAssumption DEF BootExit, IInv, TypeOK
  <1>2. SlotShape' /\ SetupKnown'
    BY DEF BootExit, IInv, TypeOK, SlotShape, SetupKnown, Known, Ended
  <1>3. HaltLasts'
    BY Counts DEF BootExit, IInv, TypeOK, HaltLasts
  <1>4. MoveIsLast'
    BY DEF BootExit, IInv, TypeOK, MoveIsLast
  <1>5. QED
    BY <1>1, <1>2, <1>3, <1>4 DEF IInv

LEMMA OthersBeginKeeps ==
    ASSUME IInv, OthersBegin
    PROVE  IInv'
  <1>1. TypeOK'
    BY Counts, AxisAssumption DEF OthersBegin, IInv, TypeOK
  <1>2. SlotShape' /\ SetupKnown'
    BY DEF OthersBegin, IInv, TypeOK, SlotShape, SetupKnown, Known, Ended
  <1>3. HaltLasts'
    BY Counts DEF OthersBegin, IInv, TypeOK, HaltLasts
  <1>4. MoveIsLast'
    BY DEF OthersBegin, IInv, TypeOK, MoveIsLast
  <1>5. QED
    BY <1>1, <1>2, <1>3, <1>4 DEF IInv

LEMMA OthersCollectKeeps ==
    ASSUME IInv, OthersCollect
    PROVE  IInv'
  <1>1. TypeOK'
    BY Counts, AxisAssumption DEF OthersCollect, IInv, TypeOK
  <1>2. SlotShape' /\ SetupKnown'
    BY DEF OthersCollect, IInv, TypeOK, SlotShape, SetupKnown, Known, Ended
  <1>3. HaltLasts'
    BY Counts DEF OthersCollect, IInv, TypeOK, HaltLasts
  <1>4. MoveIsLast'
    BY DEF OthersCollect, IInv, TypeOK, MoveIsLast
  <1>5. QED
    BY <1>1, <1>2, <1>3, <1>4 DEF IInv

LEMMA PcToolKeeps ==
    ASSUME IInv, PcTool
    PROVE  IInv'
  <1>0. start' \in BOOLEAN /\ heard' \in BOOLEAN
    <2>1. start \in BOOLEAN /\ heard \in BOOLEAN
      BY DEF IInv, TypeOK
    <2>2. CASE UNCHANGED <<start, heard>>
      BY <2>1, <2>2
    <2>3. CASE start' = TRUE /\ heard' = FALSE
      BY <2>3, Zenon
    <2>4. QED
      BY <2>2, <2>3 DEF PcTool
  <1>1. TypeOK'
    <2>1. mode' \in OpMode /\ target' \in Target
      BY AxisAssumption DEF PcTool, IInv, TypeOK
    <2>2. UNCHANGED <<enable, quick, newSp, halt, setup, progress, outside, at,
                      doubt, renewed, stopped>>
      BY DEF PcTool
    <2>3. QED
      BY <1>0, <2>1, <2>2 DEF setup, progress, outside, IInv, TypeOK
  <1>2. SlotShape' /\ SetupKnown'
    BY DEF PcTool, Commanded, IInv, TypeOK, SlotShape, SetupKnown, Known, Ended
  <1>3. HaltLasts'
    BY Counts DEF PcTool, Commanded, IInv, TypeOK, HaltLasts
  <1>4. MoveIsLast'
    BY DEF PcTool, Commanded, IInv, TypeOK, MoveIsLast
  <1>5. QED
    BY <1>1, <1>2, <1>3, <1>4 DEF IInv

LEMMA MotorFields ==
    ASSUME motor \in Motor, NEW x \in BOOLEAN
    PROVE  /\ [motor EXCEPT !.moving = x] \in Motor
           /\ [motor EXCEPT !.moving = x].moving = x
           /\ [motor EXCEPT !.moving = x].there = motor.there
           /\ [motor EXCEPT !.moving = x].goal = motor.goal
           /\ [motor EXCEPT !.fault = x] \in Motor
           /\ [motor EXCEPT !.moving = FALSE, !.there = TRUE] \in Motor
           /\ [motor EXCEPT !.fault = TRUE, !.moving = FALSE] \in Motor
           /\ [motor EXCEPT !.fault = FALSE] \in Motor
  BY DEF Motor

LEMMA MotorArrivesKeeps ==
    ASSUME IInv, MotorArrives
    PROVE  IInv'
  <1>1. TypeOK'
    <2>1. motor' \in Motor
      BY MotorFields DEF MotorArrives, IInv, TypeOK
    <2>2. QED
      BY <2>1 DEF MotorArrives, IInv, TypeOK
  <1>2. SlotShape' /\ SetupKnown'
    BY DEF MotorArrives, Motor, IInv, TypeOK, SlotShape, SetupKnown, Known, Ended
  <1>3. HaltLasts'
    BY Counts DEF MotorArrives, Motor, IInv, TypeOK, HaltLasts
  <1>4. MoveIsLast'
    BY DEF MotorArrives, Motor, IInv, TypeOK, MoveIsLast
  <1>5. QED
    BY <1>1, <1>2, <1>3, <1>4 DEF IInv

LEMMA MotorFaultsKeeps ==
    ASSUME IInv, MotorFaults
    PROVE  IInv'
  <1>1. TypeOK'
    <2>1. motor' \in Motor
      BY MotorFields DEF MotorFaults, IInv, TypeOK
    <2>2. QED
      BY <2>1 DEF MotorFaults, IInv, TypeOK
  <1>2. SlotShape' /\ SetupKnown'
    BY DEF MotorFaults, Motor, IInv, TypeOK, SlotShape, SetupKnown, Known, Ended
  <1>3. HaltLasts'
    BY Counts DEF MotorFaults, Motor, IInv, TypeOK, HaltLasts
  <1>4. MoveIsLast'
    BY DEF MotorFaults, Motor, IInv, TypeOK, MoveIsLast
  <1>5. QED
    BY <1>1, <1>2, <1>3, <1>4 DEF IInv

LEMMA MotorAnswersKeeps ==
    ASSUME IInv, MotorAnswers
    PROVE  IInv'
  <1>1. TypeOK'
    <2>1. motor' \in Motor
      BY MotorFields DEF MotorAnswers, CarriesOut, IInv, TypeOK
    <2>2. param' \in [Param -> Setting] /\ \A p \in Param : param'[p] \in SettingOf(p)
      BY DEF MotorAnswers, CarriesOut, IInv, TypeOK, SlotShape
    <2>3. slot' \in Od!Slot
      BY DEF MotorAnswers, IInv, TypeOK
    <2>4. QED
      BY <2>1, <2>2, <2>3 DEF MotorAnswers, IInv, TypeOK
  <1>2. SlotShape' /\ SetupKnown'
    BY DEF MotorAnswers, CarriesOut, Motor, IInv, TypeOK, SlotShape, SetupKnown,
       Known, Ended
  <1>3. HaltLasts'
    BY Counts DEF MotorAnswers, CarriesOut, Motor, IInv, TypeOK, HaltLasts
  <1>4. MoveIsLast'
    BY DEF MotorAnswers, CarriesOut, Motor, IInv, TypeOK, MoveIsLast
  <1>5. QED
    BY <1>1, <1>2, <1>3, <1>4 DEF IInv

LEMMA TimePassesKeeps ==
    ASSUME IInv, TimePasses
    PROVE  IInv'
  <1>1. TypeOK'
    BY Counts, AxisAssumption DEF TimePasses, IInv, TypeOK
  <1>2. SlotShape' /\ SetupKnown'
    BY DEF TimePasses, IInv, TypeOK, SlotShape, SetupKnown, Known, Ended
  <1>3. HaltLasts'
    BY Counts DEF TimePasses, IInv, TypeOK, HaltLasts
  <1>4. MoveIsLast'
    BY DEF TimePasses, IInv, TypeOK, MoveIsLast
  <1>5. QED
    BY <1>1, <1>2, <1>3, <1>4 DEF IInv

LEMMA DesiredType ==

       IInv => Desired \in [Param -> Setting] /\ \A p \in Param : Desired[p] \in SettingOf(p)
  BY DEF IInv, TypeOK, Desired, Cia402Mode

(* The next write is of a parameter, with the value desired of it.         *)
LEMMA NextWriteShape ==
    ASSUME IInv, NEW a, NEW s \in Od!Slot, NextWrite(a, s),
           s = Od!FreeSlot \/ s.owner # "setup"
    PROVE  /\ slot' \in Od!Slot /\ step' \in Param \cup {"idle"}
           /\ slot' = s \/ (slot'.st = "busy" /\ slot'.owner = "setup"
                            /\ step' # "idle" /\ slot'.req \in SettingOf(step'))
  BY DesiredType DEF NextWrite, Due

LEMMA PassSetupKeeps ==
    ASSUME IInv, PassSetup
    PROVE  IInv'
  <1>1. CASE SetupWaits
    BY <1>1 DEF PassSetup, SetupWaits, IInv, TypeOK, SlotShape, SetupKnown,
       Known, Ended, HaltLasts, MoveIsLast
  <1>2. CASE SetupStarts
    <2>1. slot.st = "idle" \/ slot.owner # "setup"
      BY <1>2 DEF SetupStarts, IInv, SlotShape
    <2>2. TypeOK' /\ SlotShape'
      BY <1>2, <2>1, NextWriteShape DEF PassSetup, SetupStarts, IInv, TypeOK, SlotShape
    <2>3. SetupKnown'
      BY <1>2, <2>1, NextWriteShape DEF PassSetup, SetupStarts, IInv, TypeOK,
         SlotShape, SetupKnown, Known, Ended
    <2>4. QED
      BY <2>2, <2>3 DEF PassSetup, IInv, HaltLasts, MoveIsLast
  <1>3. CASE SetupFails
    <2>1. step \in Param /\ NextWrite(applied, Od!FreeSlot) /\ applied' = applied
      BY <1>3 DEF SetupFails, IInv, TypeOK
    <2>2. doubt' \subseteq Param
      BY <1>3, <2>1 DEF SetupFails, IInv, TypeOK
    <2>3. TypeOK' /\ SlotShape'
      BY <1>3, <2>1, <2>2, NextWriteShape DEF PassSetup, SetupFails, IInv,
         TypeOK, SlotShape
    <2>4. SetupKnown'
      BY <1>3, <2>1, NextWriteShape DEF PassSetup, SetupFails, IInv, TypeOK,
         SlotShape, SetupKnown, Known, Ended
    <2>5. QED
      BY <2>3, <2>4 DEF PassSetup, IInv, HaltLasts, MoveIsLast
  <1>4. CASE SetupSucceeds
    <2>1. step \in Param /\ applied' = [applied EXCEPT ![step] = Desired[step]]
          /\ NextWrite(applied', Od!FreeSlot)
      BY <1>4 DEF SetupSucceeds, IInv, TypeOK
    <2>2. applied' \in [Param -> Setting \cup {NoTarget}] /\ doubt' \subseteq Param
      BY <1>4, <2>1, DesiredType DEF SetupSucceeds, IInv, TypeOK
    <2>3. TypeOK' /\ SlotShape'
      BY <1>4, <2>1, <2>2, NextWriteShape DEF PassSetup, SetupSucceeds, IInv,
         TypeOK, SlotShape
    <2>4. SetupKnown'
      <3>1. \A p \in Param \ (doubt' \cup renewed') : applied'[p] \in {param[p], NoTarget}
        <4> SUFFICES ASSUME NEW p \in Param \ (doubt' \cup renewed')
                     PROVE  applied'[p] \in {param[p], NoTarget}
          OBVIOUS
        <4>1. CASE p = step
          BY <1>4, <2>1, <4>1 DEF SetupSucceeds, IInv, TypeOK, SlotShape,
             SetupKnown, Ended
        <4>2. CASE p # step
          BY <1>4, <2>1, <4>2 DEF SetupSucceeds, IInv, TypeOK, SetupKnown, Known
        <4>3. QED
          BY <4>1, <4>2
      <3>2. QED
        BY <2>1, <3>1, NextWriteShape DEF PassSetup, SetupKnown, Known, Ended
    <2>5. QED
      BY <2>3, <2>4 DEF PassSetup, IInv, HaltLasts, MoveIsLast
  <1>5. QED
    BY <1>1, <1>2, <1>3, <1>4 DEF PassSetup

-----------------------------------------------------------------------------
(* The cyclic command.                                                     *)

LEMMA TakesShape ==
    ASSUME motor \in Motor, param \in [Param -> Setting], param["target"] \in Target,
           NEW n \in BOOLEAN, NEW h \in BOOLEAN, NEW o \in BOOLEAN
    PROVE  /\ Takes(n, h, o) \in Motor
           /\ ~n \/ h => /\ Takes(n, h, o).goal = motor.goal
                         /\ Takes(n, h, o).there = motor.there
                         /\ Takes(n, h, o).moving => motor.moving
           /\ h \/ ~o => ~Takes(n, h, o).moving
           /\ Takes(n, h, o).moving /\ (motor.moving => ~motor.there)
              => ~Takes(n, h, o).there
  BY DEF Takes, Motor

(* What one frame makes of the motor and of what is known of it, given the *)
(* NEW_SETPOINT, HALT and ENABLE bits of its command.                      *)
FrameDone(n, h, o) ==
    /\ motor' \in Motor /\ requested' \in BOOLEAN /\ heard' \in BOOLEAN
    /\ hdr' \in [moving : BOOLEAN, there : BOOLEAN, fault : BOOLEAN]
    /\ ~n \/ h => /\ motor'.goal = motor.goal
                  /\ motor'.there = motor.there
                  /\ motor'.moving => motor.moving
    /\ motor'.moving => ~motor'.there
    /\ inBoot => motor' = motor
    /\ heard' /\ hdr'.there => motor.there \/ (heard /\ hdr.there)
    /\ heard' /\ ~heard => motor.goal = next /\ ~start /\ newSp = 0

LEMMA FrameShape ==
    ASSUME IInv, NEW n \in BOOLEAN, NEW h \in BOOLEAN, NEW o \in BOOLEAN,
           Frame(n, h, o)
    PROVE  FrameDone(n, h, o)
  <1> DEFINE t == Takes(n, h, o)
  <1>1. /\ t \in Motor
        /\ ~n \/ h => t.goal = motor.goal /\ t.there = motor.there /\ (t.moving => motor.moving)
        /\ h \/ ~o => ~t.moving
        /\ t.moving => ~t.there
    BY TakesShape DEF IInv, TypeOK, MoveIsLast
  <1>2. /\ \/ motor' = motor /\ requested' = requested
           \/ motor' = motor /\ requested' = TRUE
           \/ motor' = motor /\ requested' = FALSE
           \/ motor' = t /\ requested' = FALSE /\ ~inBoot
        /\ \/ hdr' = hdr /\ heard' = heard
           \/ /\ hdr' = hdr \/ hdr' = Status(motor)
              /\ heard' = (heard \/ /\ hdr' = Status(motor)
                                    /\ motor.moving /\ motor.goal = next /\ ~start /\ newSp = 0)
    BY DEF Frame
  <1> HIDE DEF t
  <1>3. /\ Status(motor) \in [moving : BOOLEAN, there : BOOLEAN, fault : BOOLEAN]
        /\ Status(motor).there = motor.there
        /\ motor.moving => ~motor.there
    BY DEF IInv, TypeOK, Motor, Status, MoveIsLast
  <1>4. motor \in Motor /\ requested \in BOOLEAN /\ heard \in BOOLEAN
        /\ hdr \in [moving : BOOLEAN, there : BOOLEAN, fault : BOOLEAN]
    BY DEF IInv, TypeOK
  <1>5. motor' \in Motor /\ hdr' \in [moving : BOOLEAN, there : BOOLEAN, fault : BOOLEAN]
    BY <1>1, <1>2, <1>3, <1>4
  <1>6. requested' \in BOOLEAN
    BY <1>2, <1>4, Zenon
  <1>7. heard' \in BOOLEAN
    BY <1>2, <1>4, Zenon
  <1>8. /\ ~n \/ h => /\ motor'.goal = motor.goal
                      /\ motor'.there = motor.there
                      /\ motor'.moving => motor.moving
        /\ motor'.moving => ~motor'.there
        /\ inBoot => motor' = motor
    BY <1>1, <1>2, <1>3
  <1>9. /\ heard' /\ hdr'.there => motor.there \/ (heard /\ hdr.there)
        /\ heard' /\ ~heard => motor.goal = next /\ ~start /\ newSp = 0
    <2>1. CASE hdr' = hdr /\ heard' = heard
      BY <2>1, Zenon
    <2>2. CASE ~(hdr' = hdr /\ heard' = heard)
      <3>1. /\ hdr' = hdr \/ hdr' = Status(motor)
            /\ heard' = (heard \/ /\ hdr' = Status(motor)
                                  /\ motor.moving /\ motor.goal = next /\ ~start /\ newSp = 0)
        BY <1>2, <2>2, Zenon
      <3>2. QED
        BY <1>3, <3>1
    <2>3. QED
      BY <2>1, <2>2, Zenon
  <1>10. QED
    BY <1>5, <1>6, <1>7, <1>8, <1>9 DEF FrameDone

LEMMA Setup0 ==
    ASSUME IInv, PassCompose
    PROVE  SlotShape' /\ SetupKnown'
  BY DEF PassCompose, IInv, SlotShape, SetupKnown, Known, Ended

LEMMA ComposeQuickStopKeeps ==
    ASSUME IInv, PassCompose, ComposeQuickStop
    PROVE  IInv'
  <1>1. enable' \in BOOLEAN /\ quick' \in BOOLEAN /\ FALSE \in BOOLEAN /\ TRUE \in BOOLEAN
    BY Zenon DEF ComposeQuickStop
  <1>2. FrameDone(FALSE, FALSE, FALSE)
    <2>1. Frame(FALSE, FALSE, FALSE)
      BY DEF ComposeQuickStop
    <2>2. QED
      BY <1>1, <2>1, FrameShape, Zenon
  <1>3. TypeOK'
    BY <1>1, <1>2, Counts DEF PassCompose, ComposeQuickStop, FrameDone, IInv, TypeOK
  <1>4. HaltLasts'
    BY Counts DEF ComposeQuickStop, HaltLasts
  <1>5. MoveIsLast'
    BY <1>2 DEF PassCompose, ComposeQuickStop, FrameDone, IInv, MoveIsLast
  <1>6. QED
    BY <1>3, <1>4, <1>5, Setup0 DEF IInv

LEMMA ComposeFaultKeeps ==
    ASSUME IInv, PassCompose, ComposeFault
    PROVE  IInv'
  <1>1. FrameDone(FALSE, FALSE, FALSE)
    <2>1. FALSE \in BOOLEAN /\ Frame(FALSE, FALSE, FALSE)
      BY DEF ComposeFault
    <2>2. QED
      BY <2>1, FrameShape, Zenon
  <1>2. TypeOK'
    BY <1>1 DEF PassCompose, ComposeFault, FrameDone, IInv, TypeOK
  <1>3. HaltLasts'
    BY <1>1 DEF PassCompose, ComposeFault, FrameDone, IInv, TypeOK, HaltLasts
  <1>4. MoveIsLast'
    BY <1>1 DEF PassCompose, ComposeFault, FrameDone, IInv, MoveIsLast
  <1>5. QED
    BY <1>2, <1>3, <1>4, Setup0 DEF IInv

LEMMA ComposeCommandKeeps ==
    ASSUME IInv, PassCompose, ComposeCommand
    PROVE  IInv'
  <1> DEFINE n == Pulse > 0
             h == halt > 0 \/ mode = "hold"
             o == enable /\ mode # "off"
  <1>1. n \in BOOLEAN /\ h \in BOOLEAN /\ o \in BOOLEAN /\ FALSE \in BOOLEAN
    OBVIOUS
  <1>2. Frame(n, h, o)
    BY DEF ComposeCommand
  <1>3. Pulse \in 0..PulseCycles /\ (n <=> Pulse > 0) /\ (halt > 0 => h)
    BY Counts DEF Pulse, IInv, TypeOK
  <1> HIDE DEF n, h, o
  <1>4. FrameDone(n, h, o)
    BY <1>1, <1>2, FrameShape, Zenon
  <1>5. start' \in BOOLEAN /\ stopped' \in BOOLEAN
    BY Zenon DEF ComposeCommand
  <1>6. TypeOK'
    <2>1. newSp' \in 0..PulseCycles /\ halt' \in 0..PulseCycles
      BY <1>3, Counts DEF ComposeCommand, IInv, TypeOK
    <2>2. QED
      BY <1>4, <1>5, <2>1 DEF PassCompose, ComposeCommand, FrameDone, IInv, TypeOK
  <1>7. HaltLasts'
    <2>1. newSp \in Nat /\ halt \in Nat /\ newSp' = Minus1(Pulse) /\ halt' = Minus1(halt)
      BY AxisAssumption DEF ComposeCommand, IInv, TypeOK
    <2>2. stopped' => stopped /\ Pulse = newSp
      BY DEF ComposeCommand, Pulse
    <2>3. stopped' => newSp' <= halt'
      BY <2>1, <2>2 DEF Minus1, IInv, HaltLasts
    <2>4. QED
      BY <2>3 DEF HaltLasts
  <1>8. MoveIsLast'
    <2>1. heard' => ~start /\ newSp = 0 /\ motor.goal = next
      BY <1>4 DEF FrameDone, IInv, MoveIsLast
    <2>2. heard' => ~start' /\ newSp' = 0 /\ ~n
      <3>1. ~start => ~start' /\ Pulse = newSp
        BY Zenon DEF ComposeCommand, Triggers, Pulse
      <3>2. newSp = 0 /\ Pulse = newSp => newSp' = 0 /\ ~n
        BY <1>3 DEF ComposeCommand, Minus1
      <3>3. QED
        BY <2>1, <3>1, <3>2
    <2>3. QED
      BY <1>4, <2>1, <2>2 DEF PassCompose, FrameDone, IInv, MoveIsLast
  <1>9. QED
    BY <1>6, <1>7, <1>8, Setup0 DEF IInv

LEMMA PassComposeKeeps ==
    ASSUME IInv, PassCompose
    PROVE  IInv'
  BY ComposeQuickStopKeeps, ComposeFaultKeeps, ComposeCommandKeeps DEF PassCompose

-----------------------------------------------------------------------------
(* The theorems.                                                           *)

LEMMA InitIInv == Init => IInv
  <1> SUFFICES ASSUME Init PROVE IInv
    OBVIOUS
  <1>1. /\ enable \in BOOLEAN /\ start \in BOOLEAN /\ quick \in BOOLEAN /\ inBoot \in BOOLEAN
        /\ requested \in BOOLEAN /\ heard \in BOOLEAN /\ stopped \in BOOLEAN
    BY Zenon DEF Init
  <1>2. motor \in Motor /\ ~motor.moving /\ ~motor.there
    BY DEF Init, MotorAtPowerUp, Motor
  <1>3. hdr \in [moving : BOOLEAN, there : BOOLEAN, fault : BOOLEAN]
    BY <1>2 DEF Init, Status, Motor
  <1>4. TypeOK
    BY <1>1, <1>2, <1>3, Counts DEF Init, TypeOK, ParamAtPowerUp
  <1>5. QED
    BY <1>2, <1>4 DEF Init, IInv, SlotShape, SetupKnown, Known, Ended,
       HaltLasts, MoveIsLast

LEMMA NextIInv == IInv /\ [Next]_vars => IInv'
  <1> SUFFICES ASSUME IInv, [Next]_vars PROVE IInv'
    OBVIOUS
  <1>1. CASE Command
    BY <1>1, MoveToShotKeeps, TrimKeeps, PcToolKeeps, StopKeeps, QuickStopKeeps,
       EnableKeeps
       DEF Command, Retarget
  <1>2. CASE Pass
    BY <1>2, PassStatusKeeps, PassSetupKeeps, PassComposeKeeps DEF Pass
  <1>3. CASE Boot
    BY <1>3, BootEntryKeeps, BootExitKeeps DEF Boot
  <1>4. CASE Others
    BY <1>4, OthersBeginKeeps, OthersCollectKeeps DEF Others
  <1>5. CASE World
    BY <1>5, MotorAnswersKeeps, MotorArrivesKeeps, MotorFaultsKeeps,
       TimePassesKeeps DEF World
  <1>6. CASE UNCHANGED vars
    BY <1>6 DEF vars, IInv, TypeOK, SlotShape, SetupKnown, Known, Ended,
       HaltLasts, MoveIsLast
  <1>7. QED
    BY <1>1, <1>2, <1>3, <1>4, <1>5, <1>6 DEF Next

(* What the motor has of each parameter is known but for the named         *)
(* exceptions, a HALT pulse outlives the frames that carry requests, and a *)
(* move the motor has told of is the last one asked for                    *)
(* (axis_manager.c:895-1095, cmc_state.c:552-631).                         *)
THEOREM Invariance == Spec => []IInv
  BY InitIInv, NextIInv, PTL DEF Spec

(* A move that begins finds the sequencer idle and nothing due, so that    *)
(* the snapshot is what is desired, and the snapshot is what the motor has *)
(* (axis_manager.c:1083).                                                  *)
THEOREM TriggerIsAfterSetup == Spec => TriggerAfterSetup
  <1>1. ASSUME IInv

           PROVE  MovesBegin => \A p \in Param \ (doubt \cup renewed) : param[p] = Desired[p]
    <2> SUFFICES ASSUME MovesBegin, NEW p \in Param \ (doubt \cup renewed)
                 PROVE  param[p] = Desired[p]
      OBVIOUS
    <2>1. step = "idle" /\ applied[p] = Desired[p]
      BY DEF MovesBegin, Triggers, Busy
    <2>2. applied[p] \in {param[p], NoTarget}
      BY <1>1, <2>1 DEF IInv, SetupKnown, Known
    <2>3. Desired[p] # NoTarget
      BY <1>1, DesiredType, AxisAssumption
    <2>4. QED
      BY <2>1, <2>2, <2>3
  <1>2. QED
    BY Invariance, <1>1, PTL DEF TriggerAfterSetup

(* An arrival told of a move that was heard of is the motor's own          *)
(* (cmc_state.c:611).                                                      *)
THEOREM ArrivalTold == Spec => ArrivalIsReal
  <1>1. ASSUME IInv
        PROVE  PassStatus /\ next # NoTarget /\ next' = NoTarget /\ heard
               => motor.there /\ motor.goal = next
    BY <1>1 DEF IInv, MoveIsLast, PassStatus, TickShot, Arrived
  <1>2. QED
    BY Invariance, <1>1, PTL DEF ArrivalIsReal

(* No move triggered before STOP begins after it: no other step begins a   *)
(* move than a command with NEW_SETPOINT, and every such command carries   *)
(* HALT (axis_manager.c:1071-1095, cmc_state.c:455-469).                   *)
THEOREM StopHolds == Spec => StopOutlastsStart
  <1>1. ASSUME IInv, ComposeCommand, stopped', ~motor.moving
        PROVE  ~motor'.moving
    <2> DEFINE n == Pulse > 0
               h == halt > 0 \/ mode = "hold"
               o == enable /\ mode # "off"
    <2>1. n \in BOOLEAN /\ h \in BOOLEAN /\ o \in BOOLEAN
      OBVIOUS
    <2>2. Frame(n, h, o)
      BY <1>1 DEF ComposeCommand
    <2>3. Pulse = newSp /\ newSp <= halt
      BY <1>1 DEF ComposeCommand, Pulse, IInv, HaltLasts
    <2>4. newSp \in Nat /\ halt \in Nat
      BY <1>1, AxisAssumption DEF IInv, TypeOK
    <2>5. ~n \/ h
      BY <2>3, <2>4
    <2> HIDE DEF n, h, o
    <2>6. FrameDone(n, h, o)
      BY <1>1, <2>1, <2>2, FrameShape, Zenon
    <2>7. QED
      BY <1>1, <2>5, <2>6 DEF FrameDone
  <1>2. ASSUME IInv, ComposeQuickStop \/ ComposeFault, ~motor.moving
        PROVE  ~motor'.moving
    <2>1. FALSE \in BOOLEAN /\ Frame(FALSE, FALSE, FALSE)
      BY <1>2 DEF ComposeQuickStop, ComposeFault
    <2>2. FrameDone(FALSE, FALSE, FALSE)
      BY <1>2, <2>1, FrameShape, Zenon
    <2>3. QED
      BY <1>2, <2>2 DEF FrameDone
  <1>3. ASSUME IInv, MotorAnswers, ~motor.moving
        PROVE  ~motor'.moving
    <2>1. motor \in Motor
      BY <1>3 DEF IInv, TypeOK
    <2>2. \A x \in BOOLEAN : [motor EXCEPT !.moving = x].moving = x
      BY <2>1, MotorFields
    <2>3. CASE motor' = motor
      BY <1>3, <2>3
    <2>4. CASE CarriesOut
      <3>1. motor.moving \in BOOLEAN
        BY <2>1 DEF Motor
      <3>2. PICK x \in BOOLEAN : x = (motor.moving /\ (step = "mode" => slot.req = "position"))
        BY Zenon
      <3>3. ~x /\ motor' = [motor EXCEPT !.moving = x]
        BY <1>3, <2>4, <3>2 DEF CarriesOut
      <3>4. QED
        BY <2>2, <3>3
    <2>5. QED
      BY <1>3, <2>3, <2>4 DEF MotorAnswers
  <1>4. ASSUME IInv, MotorArrives \/ MotorFaults, ~motor.moving
        PROVE  ~motor'.moving
    <2>1. motor \in Motor
      BY <1>4 DEF IInv, TypeOK
    <2>2. CASE MotorArrives
      BY <1>4, <2>2 DEF MotorArrives
    <2>3. CASE motor' = [motor EXCEPT !.fault = TRUE, !.moving = FALSE]
      <3>1. [motor EXCEPT !.fault = TRUE, !.moving = FALSE].moving = FALSE
        BY <2>1 DEF Motor
      <3>2. QED
        BY <2>3, <3>1
    <2>4. CASE motor' = [motor EXCEPT !.fault = FALSE]
      <3>1. [motor EXCEPT !.fault = FALSE].moving = motor.moving
        BY <2>1 DEF Motor
      <3>2. QED
        BY <1>4, <2>4, <3>1
    <2>5. QED
      BY <1>4, <2>2, <2>3, <2>4 DEF MotorFaults
  <1>5. ASSUME Boot \/ TimePasses, ~motor.moving
        PROVE  ~motor'.moving
    BY <1>5 DEF TimePasses, Boot, BootEntry, BootExit, MotorAtPowerUp
  <1>6. ASSUME Command \/ Others \/ PassStatus \/ PassSetup
        PROVE  motor' = motor
    BY <1>6 DEF Command, Retarget, MoveToShot, Trim, PcTool, Stop, QuickStop, Enable,
       Others, OthersBegin, OthersCollect, PassStatus, PassSetup
  <1>7. ASSUME IInv, [Next]_vars
        PROVE  [stopped /\ stopped' /\ ~motor.moving => ~motor'.moving]_vars
    BY <1>1, <1>2, <1>3, <1>4, <1>5, <1>6, <1>7 DEF Next, World, Pass, PassCompose
  <1>8. QED
    BY Invariance, <1>7, PTL DEF Spec, StopOutlastsStart

=============================================================================
