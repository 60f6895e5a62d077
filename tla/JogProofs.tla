------------------------------ MODULE JogProofs ------------------------------
(***************************************************************************)
(* Theorems about Jog, for all buttons, deflections, centres and times: a  *)
(* deflected stick has the axis, and the buttons leave moves alone.        *)
(***************************************************************************)
EXTENDS Jog, TLAPS

USE DEF buttons, stick, axis, watch, motor, ghost

(* Everything but the flags.                                               *)
Shape ==
    /\ at \in {"rest", "buttons", "od"} /\ held \in Buttons /\ prev \in OpMode
    /\ raw \in Raw /\ value \in Sign
    /\ mode \in OpMode /\ op \in {"none", "joystick", "move"}
    /\ quiet \in 0..Dwell + 1 /\ silence \in 0..Watchdog + 1
    /\ demand \in Sign

Flags ==
    /\ own \in BOOLEAN /\ enable \in BOOLEAN /\ active \in BOOLEAN
    /\ moving \in BOOLEAN /\ turning \in BOOLEAN /\ lost \in BOOLEAN /\ byPc \in BOOLEAN

LEMMA TypeParts == TypeOK <=> Shape /\ Flags
  BY DEF TypeOK, Shape, Flags

LEMMA Bounds ==
    /\ Dwell \in Nat /\ Watchdog \in Nat /\ Centre \in Int
    /\ 0 \in 0..Dwell + 1 /\ 1 \in 0..Dwell + 1 /\ 0 \in 0..Watchdog + 1
    /\ 0 \in Raw /\ Raw \subseteq Int /\ "none" \in Buttons
    /\ Holding \in OpMode
  BY JogAssumption DEF OpMode

LEMMA CalibratedType == \A r \in Raw : Calibrated(r) \in Sign
  BY DEF Calibrated, Sign

LEMMA DirectionType == Direction \in Sign
  BY Zenon DEF Direction, Sign

(* A clock stays within its bound.                                         *)
LEMMA LaterBounded ==
    ASSUME NEW bound \in Nat, NEW t \in 0..bound + 1
    PROVE  Later(t, bound) \in 0..bound + 1
  BY DEF Later

LEMMA InitIInv == Init => IInv
  <1> SUFFICES ASSUME Init PROVE IInv
    OBVIOUS
  <1>1. Shape
    BY Bounds DEF Init, Shape, Sign, OpMode
  <1>2. Flags
    BY Zenon DEF Init, Flags
  <1>3. StickHasAxis
    BY DEF Init, StickHasAxis
  <1>4. ButtonsHaveAxis
    BY Zenon DEF Init, ButtonsHaveAxis
  <1>5. RawIsWatched
    BY DEF Init, RawIsWatched
  <1>6. QED
    BY <1>1, <1>2, <1>3, <1>4, <1>5, TypeParts DEF IInv

-----------------------------------------------------------------------------
(* What the steps of a pass do, without the flags.                         *)

LEMMA StatusShape == ASSUME Shape, PassStatus PROVE Shape'
  BY Bounds DEF Shape, PassStatus, TickJoystick, TickOther, Release, OpMode

LEMMA SetValueShape ==
    ASSUME Shape, NEW v \in Sign, SetValue(v)
    PROVE  /\ mode' \in OpMode /\ op' \in {"none", "joystick", "move"}
           /\ quiet' \in 0..Dwell + 1 /\ value' \in Sign
  BY Bounds DEF Shape, SetValue, Begins, Free, OpMode, Sign

LEMMA ButtonsShape == ASSUME Shape, PassButtons PROVE Shape'
  <1>1. /\ mode' \in OpMode /\ op' \in {"none", "joystick", "move"}
        /\ quiet' \in 0..Dwell + 1 /\ value' \in Sign /\ prev' \in OpMode /\ raw' = raw
    <2>1. CASE Press
      BY <2>1, Bounds, DirectionType DEF Shape, Press, Begins, OpMode
    <2>2. CASE PressRejected \/ NoButtons
      BY <2>2 DEF Shape, PressRejected, NoButtons
    <2>3. CASE Hold
      BY <2>3, DirectionType, SetValueShape DEF Shape, Hold
    <2>4. CASE RunOut
      BY <2>4 DEF Shape, RunOut, Sign
    <2>5. CASE HandBack
      <3>1. Calibrated(raw) \in Sign /\ Calibrated(0) \in Sign
        BY CalibratedType, Bounds DEF Shape
      <3>2. QED
        BY <2>5, <3>1, Bounds DEF Shape, HandBack, Begins, OpMode, Sign
    <2>6. QED
      BY <2>1, <2>2, <2>3, <2>4, <2>5 DEF PassButtons
  <1>2. demand' \in Sign
    BY <1>1 DEF PassButtons, Sign
  <1>3. /\ at' = "od" /\ held' = held /\ silence' = silence
    BY Zenon DEF PassButtons
  <1>4. QED
    BY <1>1, <1>2, <1>3 DEF Shape

LEMMA OutsideShape ==
    ASSUME Shape, Pc \/ Moved \/ Stop \/ MoveBegins
    PROVE  Shape'
  <1>1. ASSUME NEW r \in Raw, Movement(r) \/ PcRaw(r) PROVE Shape'
    <2>1. Calibrated(r) \in Sign
      BY CalibratedType
    <2>2. QED
      BY <1>1, <2>1, Bounds DEF Shape, Movement, PcRaw, Begins, OpMode
  <1>2. ASSUME NEW v \in Sign, PcValue(v) PROVE Shape'
    BY <1>2, SetValueShape DEF Shape, PcValue
  <1>3. ASSUME NEW m \in OpMode, PcMode(m) PROVE Shape'
    BY <1>3 DEF Shape, PcMode
  <1>4. CASE Stop
    BY <1>4, Bounds DEF Shape, Stop, Sign
  <1>5. CASE MoveBegins
    BY <1>5, Bounds DEF Shape, MoveBegins, OpMode
  <1>6. QED
    BY <1>1, <1>2, <1>3, <1>4, <1>5 DEF Pc, Moved

LEMMA ShapeKept == ASSUME Shape, [Next]_vars PROVE Shape'
  <1>1. CASE PassWatch
    <2>1. Calibrated(0) \in Sign
      BY CalibratedType, Bounds
    <2>2. QED
      BY <1>1, <2>1, Bounds DEF Shape, PassWatch
  <1>2. CASE Switch
    BY <1>2 DEF Shape, Switch
  <1>3. ASSUME NEW b \in Buttons, HandsOn(b) PROVE Shape'
    BY <1>3 DEF Shape, HandsOn
  <1>4. CASE MotorStarts \/ MotorStops
    BY <1>4 DEF Shape, MotorStarts, MotorStops
  <1>5. CASE TimePasses
    BY <1>5, Bounds, LaterBounded DEF Shape, TimePasses
  <1>6. CASE UNCHANGED vars
    BY <1>6 DEF Shape, vars
  <1>7. QED
    BY <1>1, <1>2, <1>3, <1>4, <1>5, <1>6, StatusShape, ButtonsShape, OutsideShape
       DEF Next, Pass

-----------------------------------------------------------------------------
(* The flags.                                                              *)

LEMMA FlagsKept == ASSUME Flags, [Next]_vars PROVE Flags'
  <1> USE DEF Flags
  <1>1. CASE PassStatus
    <2>1. /\ own' = own /\ enable' = enable /\ active' = active /\ turning' = turning
          /\ byPc' = byPc /\ lost' \in {lost, lost \/ own} /\ moving' \in {moving, turning}
      BY <1>1, Zenon DEF PassStatus, TickJoystick, TickOther, Release
    <2>2. QED
      BY <2>1, Zenon
  <1>2. CASE PassButtons
    <2>1. /\ active' = active /\ turning' = turning /\ byPc' = byPc /\ moving' = moving
          /\ own' \in {own, TRUE, FALSE} /\ enable' \in {enable, TRUE}
          /\ lost' \in {lost, FALSE}
      BY <1>2, Zenon DEF PassButtons, Press, PressRejected, Hold, RunOut, HandBack, NoButtons
    <2>2. QED
      BY <2>1, Zenon
  <1>3. CASE PassWatch
    BY <1>3, Zenon DEF PassWatch
  <1>4. ASSUME NEW r \in Raw, Movement(r) PROVE Flags'
    BY <1>4, Zenon DEF Movement
  <1>5. ASSUME NEW r \in Raw, PcRaw(r) PROVE Flags'
    BY <1>5, Zenon DEF PcRaw
  <1>6. ASSUME NEW v \in Sign, PcValue(v) PROVE Flags'
    BY <1>6, Zenon DEF PcValue
  <1>7. ASSUME NEW m \in OpMode, PcMode(m) PROVE Flags'
    BY <1>7, Zenon DEF PcMode
  <1>8. CASE Switch
    BY <1>8, Zenon DEF Switch
  <1>9. CASE MoveBegins
    BY <1>9, Zenon DEF MoveBegins
  <1>10. CASE Stop
    BY <1>10, Zenon DEF Stop
  <1>11. ASSUME NEW b \in Buttons, HandsOn(b) PROVE Flags'
    BY <1>11, Zenon DEF HandsOn
  <1>12. CASE MotorStarts \/ MotorStops
    BY <1>12, Zenon DEF MotorStarts, MotorStops
  <1>13. CASE TimePasses
    BY <1>13, Zenon DEF TimePasses
  <1>14. CASE UNCHANGED vars
    BY <1>14, Zenon DEF vars
  <1>15. QED
    BY <1>1, <1>2, <1>3, <1>4, <1>5, <1>6, <1>7, <1>8, <1>9, <1>10, <1>11, <1>12,
       <1>13, <1>14, Zenon DEF Next, Pass, Moved, Pc

-----------------------------------------------------------------------------
(* A deflected stick has the axis.                                         *)

LEMMA SetValueKeepsStick ==
    ASSUME Shape, StickHasAxis, NEW v \in Sign, SetValue(v)
    PROVE  StickHasAxis'
  BY DEF StickHasAxis, Shape, SetValue, Free, Begins

LEMMA StickKept == ASSUME Shape, StickHasAxis, [Next]_vars PROVE StickHasAxis'
  <1> USE DEF StickHasAxis
  <1>1. CASE PassStatus
    BY <1>1 DEF PassStatus, TickJoystick, TickOther, Release, Quiet
  <1>2. CASE PassButtons
    <2>1. CASE Press
      BY <2>1 DEF Press, Begins
    <2>2. CASE PressRejected \/ NoButtons
      BY <2>2 DEF PressRejected, NoButtons
    <2>3. CASE Hold
      BY <2>3, DirectionType, SetValueKeepsStick DEF Hold
    <2>4. CASE RunOut
      BY <2>4 DEF RunOut
    <2>5. CASE HandBack
      BY <2>5 DEF HandBack, Begins, Free, Centred
    <2>6. QED
      BY <1>2, <2>1, <2>2, <2>3, <2>4, <2>5 DEF PassButtons
  <1>3. CASE PassWatch
    BY <1>3 DEF PassWatch, Centred
  <1>4. ASSUME NEW r \in Raw, Movement(r) \/ PcRaw(r) PROVE StickHasAxis'
    BY <1>4 DEF Movement, PcRaw, Begins, Centred
  <1>5. ASSUME NEW v \in Sign, PcValue(v) PROVE StickHasAxis'
    BY <1>5, SetValueKeepsStick DEF PcValue
  <1>6. ASSUME NEW m \in OpMode, PcMode(m) PROVE StickHasAxis'
    BY <1>6 DEF PcMode
  <1>7. CASE Switch
    BY <1>7 DEF Switch
  <1>8. CASE MoveBegins
    BY <1>8 DEF MoveBegins
  <1>9. CASE Stop
    BY <1>9 DEF Stop
  <1>10. ASSUME NEW b \in Buttons, HandsOn(b) PROVE StickHasAxis'
    BY <1>10 DEF HandsOn
  <1>11. CASE MotorStarts \/ MotorStops \/ TimePasses
    BY <1>11 DEF MotorStarts, MotorStops, TimePasses
  <1>12. CASE UNCHANGED vars
    BY <1>12 DEF vars
  <1>13. QED
    BY <1>1, <1>2, <1>3, <1>4, <1>5, <1>6, <1>7, <1>8, <1>9, <1>10, <1>11, <1>12
       DEF Next, Pass, Moved, Pc

(* The buttons have the axis until somebody takes it.                      *)
LEMMA ButtonsKept == ASSUME Shape, Flags, ButtonsHaveAxis, [Next]_vars PROVE ButtonsHaveAxis'
  <1> USE DEF ButtonsHaveAxis, Flags
  <1>1. CASE PassStatus
    <2>1. /\ own' = own
          /\ \/ op' = op /\ lost' = lost
             \/ lost' = (lost \/ own)
      BY <1>1, Zenon DEF PassStatus, TickJoystick, TickOther, Release
    <2>2. QED
      BY <2>1
  <1>2. CASE PassButtons
    <2>1. CASE Press
      BY <2>1 DEF Press, Begins
    <2>2. CASE PressRejected \/ NoButtons
      BY <2>2 DEF PressRejected, NoButtons
    <2>3. CASE Hold
      BY <2>3 DEF Hold, SetValue, Begins
    <2>4. CASE RunOut
      BY <2>4 DEF RunOut
    <2>5. CASE HandBack
      BY <2>5 DEF HandBack
    <2>6. QED
      BY <1>2, <2>1, <2>2, <2>3, <2>4, <2>5 DEF PassButtons
  <1>3. CASE PassWatch
    BY <1>3 DEF PassWatch
  <1>4. ASSUME NEW r \in Raw, Movement(r) \/ PcRaw(r) PROVE ButtonsHaveAxis'
    BY <1>4 DEF Movement, PcRaw, Begins
  <1>5. ASSUME NEW v \in Sign, PcValue(v) PROVE ButtonsHaveAxis'
    BY <1>5 DEF PcValue, SetValue, Begins
  <1>6. ASSUME NEW m \in OpMode, PcMode(m) PROVE ButtonsHaveAxis'
    BY <1>6 DEF PcMode
  <1>7. CASE Switch
    BY <1>7 DEF Switch
  <1>8. CASE MoveBegins
    BY <1>8 DEF MoveBegins
  <1>9. CASE Stop
    <2>1. own' = own /\ lost' = (lost \/ own)
      BY <1>9, Zenon DEF Stop
    <2>2. QED
      BY <2>1
  <1>10. ASSUME NEW b \in Buttons, HandsOn(b) PROVE ButtonsHaveAxis'
    BY <1>10 DEF HandsOn
  <1>11. CASE MotorStarts \/ MotorStops \/ TimePasses
    BY <1>11 DEF MotorStarts, MotorStops, TimePasses
  <1>12. CASE UNCHANGED vars
    BY <1>12 DEF vars
  <1>13. QED
    BY <1>1, <1>2, <1>3, <1>4, <1>5, <1>6, <1>7, <1>8, <1>9, <1>10, <1>11, <1>12
       DEF Next, Pass, Moved, Pc

(* A deflection is the panel's or the PC tool's.                           *)
LEMMA WatchKept == ASSUME RawIsWatched, [Next]_vars PROVE RawIsWatched'
  <1> USE DEF RawIsWatched
  <1>1. CASE PassStatus
    BY <1>1 DEF PassStatus
  <1>2. CASE PassButtons
    BY <1>2 DEF PassButtons, Press, PressRejected, Hold, RunOut, HandBack, NoButtons
  <1>3. CASE PassWatch
    BY <1>3 DEF PassWatch
  <1>4. ASSUME NEW r \in Raw, Movement(r) PROVE RawIsWatched'
    BY <1>4 DEF Movement
  <1>5. ASSUME NEW r \in Raw, PcRaw(r) PROVE RawIsWatched'
    <2>1. raw' = r /\ byPc' = (r # 0)
      BY <1>5, Zenon DEF PcRaw
    <2>2. QED
      BY <2>1, Zenon
  <1>6. ASSUME NEW v \in Sign, PcValue(v) PROVE RawIsWatched'
    <2>1. raw' = raw /\ active' = active /\ byPc' = (byPc \/ v # 0)
      BY <1>6, Zenon DEF PcValue
    <2>2. QED
      BY <2>1, Zenon
  <1>7. ASSUME NEW m \in OpMode, PcMode(m) PROVE RawIsWatched'
    BY <1>7 DEF PcMode
  <1>8. CASE Switch \/ MoveBegins
    BY <1>8 DEF Switch, MoveBegins
  <1>9. CASE Stop
    BY <1>9 DEF Stop
  <1>10. ASSUME NEW b \in Buttons, HandsOn(b) PROVE RawIsWatched'
    BY <1>10 DEF HandsOn
  <1>11. CASE MotorStarts \/ MotorStops \/ TimePasses
    BY <1>11 DEF MotorStarts, MotorStops, TimePasses
  <1>12. CASE UNCHANGED vars
    BY <1>12 DEF vars
  <1>13. QED
    BY <1>1, <1>2, <1>3, <1>4, <1>5, <1>6, <1>7, <1>8, <1>9, <1>10, <1>11, <1>12
       DEF Next, Pass, Moved, Pc

-----------------------------------------------------------------------------
(* The inductive invariant holds: a deflected stick has the axis, the      *)
(* buttons have it from the press until it is taken, and no deflection is  *)
(* left that neither the watchdog nor the PC tool will end.                *)
THEOREM Invariance == Spec => []IInv
  <1>1. IInv /\ [Next]_vars => IInv'
    <2> SUFFICES ASSUME IInv, [Next]_vars PROVE IInv'
      OBVIOUS
    <2>1. Shape /\ Flags
      BY TypeParts DEF IInv
    <2>2. Shape' /\ Flags'
      BY <2>1, ShapeKept, FlagsKept
    <2>3. StickHasAxis' /\ ButtonsHaveAxis' /\ RawIsWatched'
      BY <2>1, StickKept, ButtonsKept, WatchKept DEF IInv
    <2>4. QED
      BY <2>2, <2>3, Zenon DEF IInv, TypeOK, Shape, Flags
  <1>2. QED
    BY <1>1, InitIInv, PTL DEF Spec

(* Whoever wrote the stick last, while a move or nobody has the axis its   *)
(* value is 0.                                                             *)
THEOREM DeflectedHasAxis == Spec => []StickHasAxis
  <1>1. IInv => StickHasAxis
    BY DEF IInv
  <1>2. QED
    BY <1>1, Invariance, PTL

(* A press of the buttons does not disturb a move, nor does a release,     *)
(* unless the buttons had lost the axis to a STOP or to the dwell.         *)
THEOREM ButtonsSpareMoves == Spec => MoveUndisturbed
  <1>1. ASSUME IInv, PassButtons, op = "move", ~lost
        PROVE  UNCHANGED <<mode, value, enable>>
    <2>1. ~own
      BY <1>1 DEF IInv, ButtonsHaveAxis
    <2>2. ~Free
      BY <1>1 DEF Free
    <2>3. PressRejected \/ NoButtons
      BY <1>1, <2>1, <2>2 DEF PassButtons, Press, Hold, RunOut, HandBack
    <2>4. QED
      BY <2>3 DEF PressRejected, NoButtons
  <1>2. IInv /\ [Next]_vars
        => [PassButtons /\ op = "move" /\ ~lost => UNCHANGED <<mode, value, enable>>]_vars
    BY <1>1
  <1>3. QED
    BY <1>2, Invariance, PTL DEF Spec, MoveUndisturbed

=============================================================================
