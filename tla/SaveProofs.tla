----------------------------- MODULE SaveProofs -------------------------------
(***************************************************************************)
(* What a save promises on either board.  The motor's, for all times of    *)
(* MotorSave: the latch comes back as was last asked for, and the motor    *)
(* gets a save with its power stage off; the second needs nothing of the   *)
(* settle time but that there is one.  The controller's, for every layout  *)
(* of its three regions and every pair of firmwares: what was reported     *)
(* kept is what comes up, and each region is a RecordStore, both by an     *)
(* invariant over the record in RAM, the double words of the flash and the *)
(* save under way.                                                         *)
(***************************************************************************)
EXTENDS MotorSave, Persist, TLAPS

-----------------------------------------------------------------------------
(* The motor.                                                              *)

(* The vocabulary of the slot and the tuples are expanded everywhere.      *)
USE DEF Od!Slot, Od!Result, Od!FreeSlot, Od!SlotFree, Od!Asked, Od!SlotReady,
        Od!SlotBegin, Od!SlotCollect, Od!SlotFinish, Od!SlotAbort, Od!SlotInit,
        sequencer, motor, ghost

(* A clock stays within its bound, and is not 0 once it has moved.         *)
LEMMA LaterBounded ==
    ASSUME NEW bound \in Nat, NEW age \in 0..bound
    PROVE  /\ Later(age, bound) \in 0..bound
           /\ 0 \in 0..bound
  BY DEF Later

LEMMA Bounds ==
    /\ PhaseBound \in Nat /\ TotalBound \in Nat
    /\ 0 \in 0..PhaseBound /\ 0 \in 0..TotalBound
  BY SaveAssumption DEF PhaseBound, TotalBound

LEMMA InitIInv == Init => IInv
  <1> SUFFICES ASSUME Init PROVE IInv
    OBVIOUS
  <1>1. /\ was \in BOOLEAN /\ latch \in BOOLEAN /\ quick \in BOOLEAN
        /\ inBoot \in BOOLEAN /\ drive \in BOOLEAN /\ want \in BOOLEAN
        /\ crossed \in BOOLEAN /\ revived \in BOOLEAN /\ told \in BOOLEAN
    BY Zenon DEF Init
  <1>2. TypeOK
    BY <1>1, Bounds DEF Init, TypeOK
  <1>3. HandleMatches /\ DriveIsOff
    BY DEF Init, HandleMatches, DriveIsOff
  <1>4. Written
    BY Zenon DEF Init, Written, LoggedIsKept
  <1>5. Remembered
    BY Zenon DEF Init, Remembered
  <1>6. QED
    BY <1>2, <1>3, <1>4, <1>5 DEF IInv

-----------------------------------------------------------------------------
(* The slot and the clocks first: they do not depend on the latches.       *)

Shape ==
    /\ slot \in Od!Slot
    /\ save \in {"idle", "disabling", "writing", "reenable"}
    /\ phase \in 0..PhaseBound /\ total \in 0..TotalBound
    /\ at \in {"rest", "compose"}
    /\ flash \in {"none", "pending", "kept"}

Flags ==
    /\ was \in BOOLEAN /\ latch \in BOOLEAN /\ quick \in BOOLEAN
    /\ inBoot \in BOOLEAN /\ drive \in BOOLEAN
    /\ want \in BOOLEAN /\ crossed \in BOOLEAN /\ revived \in BOOLEAN /\ told \in BOOLEAN

LEMMA TypeParts == TypeOK <=> Shape /\ Flags
  BY DEF TypeOK, Shape, Flags

LEMMA ShapeKept ==
    ASSUME Shape, HandleMatches, [Next]_vars
    PROVE  Shape' /\ HandleMatches'
  <1> USE Bounds DEF Shape, HandleMatches
  <1>1. CASE Command
    BY <1>1 DEF Command, RequestEnable, RequestQuickStop, RequestSave
  <1>2. CASE Pass
    BY <1>2 DEF Pass, Tick, SaveTurn, SaveExpires, SaveWaits, SaveWrites, SaveCollects,
                SaveReenables, Compose
  <1>3. CASE Boot
    BY <1>3 DEF Boot, BootEntry, BootExit
  <1>4. CASE Others
    BY <1>4 DEF Others, OthersBegin, OthersCollect
  <1>5. CASE MotorAnswers
    BY <1>5 DEF MotorAnswers, CarriedOut
  <1>6. CASE DriveFollows
    BY <1>6 DEF DriveFollows, DriveIs
  <1>7. CASE TimePasses
    BY <1>7, LaterBounded DEF TimePasses, DriveIs
  <1>8. CASE UNCHANGED vars
    BY <1>8 DEF vars
  <1>9. QED
    BY <1>1, <1>2, <1>3, <1>4, <1>5, <1>6, <1>7, <1>8 DEF Next, World

-----------------------------------------------------------------------------
(* The latches, action by action.                                          *)
LEMMA FlagsKept ==
    ASSUME Flags, [Next]_vars
    PROVE  Flags'
  <1> USE DEF Flags
  <1>1. CASE Command
    BY <1>1, Zenon DEF Command, RequestEnable, RequestQuickStop, RequestSave
  <1>2. CASE Tick
    <2>1. /\ quick' = quick /\ inBoot' = inBoot /\ drive' = drive /\ want' = want
          /\ crossed' = crossed /\ revived' = revived /\ was' = was
      BY <1>2 DEF Tick, SaveTurn, SaveExpires, SaveWaits, SaveWrites, SaveCollects, SaveReenables
    <2>2. latch' \in {latch, was, latch \/ was} /\ told' \in {told, slot.res = "ok"}
      BY <1>2, Zenon DEF Tick, SaveExpires, SaveWaits, SaveWrites, SaveCollects, SaveReenables
    <2>3. QED
      BY <2>1, <2>2, Zenon
  <1>3. CASE Compose
    BY <1>3, Zenon DEF Compose
  <1>4. CASE Boot
    BY <1>4, Zenon DEF Boot, BootEntry, BootExit
  <1>5. CASE Others
    BY <1>5, Zenon DEF Others, OthersBegin, OthersCollect
  <1>6. CASE World
    BY <1>6, Zenon DEF World, MotorAnswers, DriveFollows, TimePasses, DriveIs
  <1>7. CASE UNCHANGED vars
    BY <1>7, Zenon DEF vars
  <1>8. QED
    BY <1>1, <1>2, <1>3, <1>4, <1>5, <1>6, <1>7 DEF Next, Pass

LEMMA RememberedKept ==
    ASSUME Flags, Remembered, [Next]_vars
    PROVE  Remembered'
  <1> USE DEF Flags, Remembered
  <1>1. ASSUME NEW b \in BOOLEAN, RequestEnable(b) PROVE Remembered'
    BY <1>1 DEF RequestEnable
  <1>2. CASE RequestQuickStop
    BY <1>2 DEF RequestQuickStop
  <1>3. CASE RequestSave
    BY <1>3 DEF RequestSave
  <1>4. CASE SaveExpires
    BY <1>4 DEF SaveExpires, SaveTurn, Expired
  <1>5. CASE SaveWaits
    BY <1>5 DEF SaveWaits, SaveTurn
  <1>6. CASE SaveWrites
    BY <1>6 DEF SaveWrites, SaveTurn
  <1>7. CASE SaveCollects
    BY <1>7 DEF SaveCollects, SaveTurn
  <1>8. CASE SaveReenables
    BY <1>8 DEF SaveReenables, SaveTurn
  <1>9. CASE Compose
    BY <1>9 DEF Compose
  <1>10. CASE Boot
    BY <1>10 DEF Boot, BootEntry, BootExit
  <1>11. CASE Others \/ World
    BY <1>11 DEF Others, OthersBegin, OthersCollect, World, MotorAnswers, DriveFollows, TimePasses
  <1>12. CASE UNCHANGED vars
    BY <1>12 DEF vars
  <1>13. QED
    BY <1>1, <1>2, <1>3, <1>4, <1>5, <1>6, <1>7, <1>8, <1>9, <1>10, <1>11, <1>12
       DEF Next, Command, Pass, Tick

LEMMA DriveKept ==
    ASSUME Shape, Flags, DriveIsOff, [Next]_vars
    PROVE  DriveIsOff'
  <1> USE DEF Shape, Flags, DriveIsOff
  <1>1. ASSUME NEW b \in BOOLEAN, RequestEnable(b) PROVE DriveIsOff'
    BY <1>1 DEF RequestEnable
  <1>2. CASE RequestQuickStop \/ RequestSave
    BY <1>2 DEF RequestQuickStop, RequestSave
  <1>3. CASE SaveExpires \/ SaveReenables
    BY <1>3 DEF SaveExpires, SaveReenables, SaveTurn
  <1>4. CASE SaveWaits
    BY <1>4 DEF SaveWaits, SaveTurn
  <1>5. CASE SaveWrites
    <2>1. phase > 0
      BY <1>5, SaveAssumption DEF SaveWrites, PhaseBound
    <2>2. QED
      BY <1>5, <2>1 DEF SaveWrites, SaveTurn
  <1>6. CASE SaveCollects
    BY <1>6 DEF SaveCollects, SaveTurn
  <1>7. CASE Compose
    BY <1>7 DEF Compose
  <1>8. CASE Boot
    BY <1>8 DEF Boot, BootEntry, BootExit
  <1>9. CASE Others \/ MotorAnswers
    BY <1>9 DEF Others, OthersBegin, OthersCollect, MotorAnswers
  <1>10. CASE DriveFollows
    BY <1>10 DEF DriveFollows, DriveIs
  <1>11. CASE TimePasses
    BY <1>11 DEF TimePasses, DriveIs
  <1>12. CASE UNCHANGED vars
    BY <1>12 DEF vars
  <1>13. QED
    BY <1>1, <1>2, <1>3, <1>4, <1>5, <1>6, <1>7, <1>8, <1>9, <1>10, <1>11, <1>12
       DEF Next, Command, Pass, Tick, World

LEMMA WrittenKept ==
    ASSUME Shape, Flags, HandleMatches, DriveIsOff, Written, [Next]_vars
    PROVE  Written'
  <1> USE DEF Shape, Flags, HandleMatches, Written, LoggedIsKept
  <1>1. ASSUME NEW b \in BOOLEAN, RequestEnable(b) PROVE Written'
    BY <1>1 DEF RequestEnable
  <1>2. CASE RequestQuickStop \/ RequestSave
    BY <1>2 DEF RequestQuickStop, RequestSave
  <1>3. CASE SaveExpires \/ SaveReenables \/ SaveWaits \/ SaveWrites
    BY <1>3 DEF SaveExpires, SaveReenables, SaveWaits, SaveWrites, SaveTurn
  <1>4. CASE SaveCollects
    BY <1>4 DEF SaveCollects, SaveTurn
  <1>5. CASE Compose
    BY <1>5 DEF Compose
  <1>6. CASE Boot
    BY <1>6 DEF Boot, BootEntry, BootExit
  <1>7. CASE Others
    BY <1>7 DEF Others, OthersBegin, OthersCollect
  <1>8. CASE MotorAnswers
    BY <1>8 DEF MotorAnswers, CarriedOut, DriveIsOff
  <1>9. CASE DriveFollows \/ TimePasses
    BY <1>9 DEF DriveFollows, TimePasses, DriveIs
  <1>10. CASE UNCHANGED vars
    BY <1>10 DEF vars
  <1>11. QED
    BY <1>1, <1>2, <1>3, <1>4, <1>5, <1>6, <1>7, <1>8, <1>9, <1>10
       DEF Next, Command, Pass, Tick, World

-----------------------------------------------------------------------------
(* In every reachable state the variables have their types, the handle of  *)
(* the save is the slot's, and the latch, the snapshot and the power stage *)
(* are as the sequencer of motor_od_proxy.c needs them.                    *)
THEOREM Invariance == Spec => []IInv
  <1>1. Init => IInv
    BY InitIInv
  <1>2. IInv /\ [Next]_vars => IInv'
    <2>1. ASSUME IInv, [Next]_vars PROVE IInv'
      <3>1. Shape /\ Flags /\ HandleMatches /\ Remembered /\ DriveIsOff /\ Written
        BY <2>1, TypeParts DEF IInv
      <3>2. Shape' /\ HandleMatches' /\ Flags' /\ Remembered' /\ DriveIsOff' /\ Written'
        BY <2>1, <3>1, ShapeKept, FlagsKept, RememberedKept, DriveKept, WrittenKept
      <3>3. TypeOK'
        BY <3>2 DEF TypeOK, Shape, Flags
      <3>4. QED
        BY <3>2, <3>3 DEF IInv
    <2>2. QED
      BY <2>1
  <1>3. QED
    BY <1>1, <1>2, PTL DEF Spec

(* When tick_motor_save is done the axis is enabled or disabled as was     *)
(* last asked for, unless a command or the bootloader crossed the save.    *)
THEOREM Restored == Spec => []EnableRestored
  <1>1. IInv => EnableRestored
    BY DEF IInv, TypeOK, Remembered, EnableRestored, AtRest
  <1>2. QED
    BY <1>1, Invariance, PTL

(* What tick_motor_save logs as written to flash the motor has written,    *)
(* unless somebody enabled the axis in the meantime.                       *)
THEOREM LoggedKept == Spec => []LoggedIsKept
  <1>1. IInv => LoggedIsKept
    BY DEF IInv, Written
  <1>2. QED
    BY <1>1, Invariance, PTL

-----------------------------------------------------------------------------
(* The controller.                                                         *)

(* The tuples are expanded everywhere.                                     *)
USE DEF user, job, history

-----------------------------------------------------------------------------
(* The layout of a region, for every schema.                               *)

LEMMA Schemas ==
    ASSUME NEW r \in Region, NEW b \in Firmware
    PROVE  Schema[r][b] \in Version
  <1>1. Schema[r][b] \in {Schema[r][x] : x \in Firmware}
    OBVIOUS
  <1>2. QED
    BY <1>1 DEF Version

LEMMA Lengths ==
    ASSUME NEW r \in Region, NEW v \in Version
    PROVE  /\ Length[r][v] \in Nat /\ 1 <= Length[r][v] /\ Length[r][v] <= MaxLength
           /\ Length[r][v] \in 1..MaxLength
           /\ 1 \in Cell /\ 2 \in Cell
           /\ \A i \in 1..Length[r][v] : 2 + i \in Cell
           /\ Pages[r] \in Nat \ {0}
  BY PersistAssumption DEF Cell

(* What a typed double word of each kind can be.                           *)
LEMMA CellKinds ==
    ASSUME NEW x \in CellValue
    PROVE  /\ x.kind = "head" => x.ver \in Version
           /\ Read(x) \in Word
           /\ x # Blank => x.kind # "blank"
  BY PersistAssumption DEF CellValue, Blank, Head, Sum, Datum, Read

LEMMA PayloadsAreTyped ==
    ASSUME NEW r \in Region, NEW v \in Version, NEW d \in Payload(r, v)
    PROVE  /\ d \in AnyPayload
           /\ [ver |-> v, data |-> d] \in Record
           /\ d \in UNION {[1..n -> Word] : n \in 1..MaxLength}
  <1>1. d \in AnyPayload
    BY DEF AnyPayload
  <1>2. [ver |-> v, data |-> d] \in Record
    BY <1>1 DEF Record
  <1>3. d \in UNION {[1..n -> Word] : n \in 1..MaxLength}
    BY Lengths DEF Payload
  <1>4. QED
    BY <1>1, <1>2, <1>3

LEMMA ImageTyped ==
    ASSUME NEW r \in Region, NEW v \in Version, NEW d \in Payload(r, v), NEW c \in Cell
    PROVE  Image(r, [ver |-> v, data |-> d], c) \in CellValue
  <1> DEFINE rec == [ver |-> v, data |-> d]
  <1>1. Head(v) \in CellValue /\ Sum(d) \in CellValue /\ Blank \in CellValue
    BY PayloadsAreTyped DEF CellValue
  <1>2. ASSUME c # 1, c # 2, c <= 2 + Length[r][v]
        PROVE  Datum(d[c - 2]) \in CellValue
    <2>1. c - 2 \in 1..Length[r][v]
      BY <1>2, Lengths, PersistAssumption DEF Cell
    <2>2. d[c - 2] \in Word
      BY <2>1 DEF Payload
    <2>3. QED
      BY <2>2 DEF CellValue
  <1>3. QED
    BY <1>1, <1>2 DEF Image, Size

-----------------------------------------------------------------------------
(* Loading.                                                                *)

LEMMA WholeContent ==
    ASSUME NEW r \in Region, NEW f \in [Cell -> CellValue], Whole(r, f)
    PROVE  /\ f[1].ver \in Version
           /\ f[2].data \in Payload(r, f[1].ver)
           /\ Content(r, f) = [ver |-> f[1].ver, data |-> f[2].data]
           /\ Content(r, f) \in Record
           /\ Content(r, f) # NoRecord
  <1>1. f[1].ver \in Version
    BY PersistAssumption, CellKinds DEF Whole, Cell
  <1>2. f[2].data \in Payload(r, f[1].ver)
    BY DEF Whole
  <1>3. ASSUME NEW i \in 1..Length[r][f[1].ver]
        PROVE  Read(f[2 + i]) = f[2].data[i]
    <2>1. f[2 + i] = Datum(f[2].data[i])
      BY DEF Whole
    <2>2. Read(Datum(f[2].data[i])) = f[2].data[i]
      BY DEF Read, Datum
    <2>3. QED
      BY <2>1, <2>2
  <1>4. [i \in 1..Length[r][f[1].ver] |-> Read(f[2 + i])] = f[2].data
    BY <1>2, <1>3 DEF Payload
  <1>5. Content(r, f) = [ver |-> f[1].ver, data |-> f[2].data]
    BY <1>4 DEF Content
  <1>6. Content(r, f) \in Record
    BY <1>1, <1>2, <1>5, PayloadsAreTyped
  <1>7. QED
    BY <1>1, <1>2, <1>5, <1>6, NoRecordAssumption

LEMMA ContentTyped ==
    ASSUME NEW r \in Region, NEW f \in [Cell -> CellValue]
    PROVE  /\ Content(r, f) \in Record \cup {NoRecord}
           /\ Content(r, f) # NoRecord <=> Whole(r, f)
  BY WholeContent DEF Content

(* A start has a payload of its build's length, whatever is in flash.      *)
LEMMA LoadedTyped ==
    ASSUME NEW r \in Region, NEW f \in [Cell -> CellValue], NEW b \in Firmware
    PROVE  Loaded(r, f, b) \in Payload(r, Schema[r][b])
  <1> DEFINE rec == Content(r, f)
             n == Length[r][Schema[r][b]]
  <1>1. /\ Schema[r][b] \in Version /\ n \in Nat /\ n <= MaxLength /\ 0 \in Word
        /\ \A i \in 1..n : Default[r][i] \in Word
    BY Schemas, Lengths, PersistAssumption
  <1>2. Defaults(r, b) \in Payload(r, Schema[r][b])
    BY <1>1 DEF Defaults, Payload
  <1>3. ASSUME rec # NoRecord
        PROVE  Promoted(r, rec.ver, Blob(r, rec, n)) \in Payload(r, Schema[r][b])
    <2>1. /\ rec.ver \in Version /\ rec.data \in Payload(r, rec.ver)
      BY <1>3, WholeContent, ContentTyped
    <2>2. \A i \in 1..n : (IF i <= Length[r][rec.ver] THEN rec.data[i] ELSE 0) \in Word
      BY <1>1, <2>1, Lengths DEF Payload
    <2>3. Blob(r, rec, n) \in [1..n -> Word]
      BY <2>2 DEF Blob, Size
    <2>4. QED
      BY <1>1, <2>3 DEF Promoted, Payload
  <1>4. QED
    BY <1>2, <1>3 DEF Loaded

(* A region that a whole save has left as it meant to has its record.      *)
LEMMA ImageIsWhole ==
    ASSUME NEW r \in Region, NEW v \in Version, NEW d \in Payload(r, v),
           NEW f \in [Cell -> CellValue],
           \A c \in Cell : f[c] = Image(r, [ver |-> v, data |-> d], c)
    PROVE  Content(r, f) = [ver |-> v, data |-> d]
  <1>1. f[1] = Head(v) /\ f[2] = Sum(d)
    BY Lengths DEF Image
  <1>2. ASSUME NEW i \in 1..Length[r][v]
        PROVE  f[2 + i] = Datum(d[i])
    <2>1. 2 + i \in Cell /\ 2 + i # 1 /\ 2 + i # 2 /\ 2 + i <= 2 + Length[r][v]
          /\ (2 + i) - 2 = i
      BY Lengths
    <2>2. QED
      BY <2>1 DEF Image, Size
  <1>3. Whole(r, f)
    BY <1>1, <1>2 DEF Whole, Head, Sum
  <1>4. QED
    BY <1>1, <1>3, WholeContent DEF Head, Sum

(* The last double word of a save is the one that makes a record of it.    *)
LEMMA PrefixHasNothing ==
    ASSUME NEW r \in Region, NEW v \in Version, NEW d \in Payload(r, v),
           NEW f \in [Cell -> CellValue], NEW n \in Nat,
           n < Pages[r] + 2 + Length[r][v],
           \A c \in Cell : f[c] = IF c + Pages[r] <= n
                                  THEN Image(r, [ver |-> v, data |-> d], c) ELSE Blank
    PROVE  Content(r, f) = NoRecord
  <1>1. SUFFICES ASSUME Whole(r, f) PROVE FALSE
    BY DEF Content
  <1>2. f[1] = Head(v)
    BY <1>1, Lengths DEF Whole, Image, Blank
  <1>3. /\ 2 + Length[r][v] \in Cell /\ Length[r][v] \in 1..Length[r][v]
        /\ ~ (2 + Length[r][v] + Pages[r] <= n)
    BY Lengths
  <1>4. f[2 + Length[r][v]] = Blank
    BY <1>3
  <1>5. f[2 + Length[r][v]] = Datum(f[2].data[Length[r][v]])
    BY <1>1, <1>2, <1>3 DEF Whole, Head
  <1>6. QED
    BY <1>4, <1>5 DEF Blank, Datum

(* An operation cut short takes the record away or leaves it: it makes no  *)
(* other of it.                                                            *)
LEMMA LostCells ==
    ASSUME NEW r \in Region, NEW f \in [Cell -> CellValue], NEW lost \in SUBSET Cell,
           NEW g, g = [c \in Cell |-> IF c \in lost THEN Blank ELSE f[c]]
    PROVE  /\ g \in [Cell -> CellValue]
           /\ Content(r, g) \in {Content(r, f), NoRecord}
  <1>1. g \in [Cell -> CellValue]
    BY DEF CellValue
  <1>2. SUFFICES ASSUME Whole(r, g) PROVE Content(r, g) = Content(r, f)
    BY <1>1 DEF Content
  <1>3. \A c \in Cell : g[c].kind # "blank" => g[c] = f[c]
    BY DEF Blank
  <1>4. g[1] = f[1] /\ g[2] = f[2]
    BY <1>2, <1>3, PersistAssumption DEF Whole, Cell
  <1>5. g[1].ver \in Version
    BY <1>1, <1>2, WholeContent
  <1>6. ASSUME NEW i \in 1..Length[r][g[1].ver]
        PROVE  f[2 + i] = Datum(f[2].data[i])
    <2>1. 2 + i \in Cell
      BY <1>5, Lengths
    <2>2. g[2 + i] = Datum(g[2].data[i])
      BY <1>2 DEF Whole
    <2>3. QED
      BY <1>3, <1>4, <2>1, <2>2 DEF Datum
  <1>7. Whole(r, f)
    BY <1>2, <1>4, <1>6 DEF Whole
  <1>8. QED
    BY <1>1, <1>2, <1>4, <1>7, WholeContent

(* What was saved by a build is what that build loads.                     *)
LEMMA OwnRecordLoads ==
    ASSUME NEW r \in Region, NEW b \in Firmware, NEW f,
           NEW d \in Payload(r, Schema[r][b]),
           Content(r, f) = [ver |-> Schema[r][b], data |-> d]
    PROVE  Loaded(r, f, b) = d
  <1> DEFINE v == Schema[r][b]
  <1>1. v \in Version /\ v <= v /\ Length[r][v] \in Nat
    BY Schemas, Lengths, PersistAssumption
  <1>2. Accepts(r, v, b)
    BY <1>1 DEF Accepts
  <1>3. Content(r, f) # NoRecord
    BY <1>1, PayloadsAreTyped, NoRecordAssumption
  <1>4. Blob(r, [ver |-> v, data |-> d], Length[r][v]) = d
    BY <1>1 DEF Blob, Size, Payload
  <1>5. Promoted(r, v, d) = d
    BY <1>1 DEF Promoted, Payload
  <1>6. QED
    BY <1>2, <1>3, <1>4, <1>5 DEF Loaded

LEMMA PayloadSet ==
    ASSUME NEW r \in Region, NEW v \in Version, NEW d \in Payload(r, v),
           NEW i \in DOMAIN d, NEW w \in Word
    PROVE  [d EXCEPT ![i] = w] \in Payload(r, v)
  BY DEF Payload

-----------------------------------------------------------------------------
(* The invariant.                                                          *)

LEMMA NewRecordTyped ==
    ASSUME PersistTypeOK, NEW r \in Region
    PROVE  /\ Schema[r][fw] \in Version
           /\ ram[r] \in Payload(r, Schema[r][fw])
           /\ NewRecord(r) = [ver |-> Schema[r][fw], data |-> ram[r]]
           /\ NewRecord(r) \in Record /\ NewRecord(r) # NoRecord
           /\ Operations(r) = Pages[r] + 2 + Length[r][Schema[r][fw]]
           /\ Operations(r) \in Nat /\ Operations(r) > Pages[r] + 2
  <1>1. Schema[r][fw] \in Version
    BY Schemas DEF PersistTypeOK
  <1>2. ram[r] \in Payload(r, Schema[r][fw])
    BY DEF PersistTypeOK
  <1>3. NewRecord(r) \in Record
    BY <1>1, <1>2, PayloadsAreTyped DEF NewRecord
  <1>4. QED
    BY <1>1, <1>2, <1>3, NoRecordAssumption, Lengths DEF NewRecord, Operations

LEMMA PersistInitInv == PersistInit => PersistInv
  <1> SUFFICES ASSUME PersistInit PROVE PersistInv
    OBVIOUS
  <1>1. cells \in [Region -> [Cell -> CellValue]]
    BY DEF PersistInit, CellValue
  <1>2. fw \in Firmware
    BY DEF PersistInit
  <1>3. \A r \in Region : ram[r] \in Payload(r, Schema[r][fw])
    BY <1>1, <1>2, LoadedTyped DEF PersistInit
  <1>4. ram \in [Region -> UNION {[1..n -> Word] : n \in 1..MaxLength}]
    BY <1>2, <1>3, Schemas, PayloadsAreTyped DEF PersistInit
  <1>5. PersistTypeOK
    <2>1. /\ current \in 0..MaxLength /\ faults \in 0..MaxFaults /\ done \in Nat
          /\ saving \in Region \cup {"none"} /\ rest \subseteq Region
      BY PersistAssumption DEF PersistInit
    <2>2. /\ good \in BOOLEAN /\ spoiled \in BOOLEAN
      BY DEF PersistInit
    <2>3. /\ saved \in [Region -> Record \cup {NoRecord}] /\ promised \in Word \cup {NoRecord}
      BY DEF PersistInit
    <2>4. QED
      BY <1>1, <1>2, <1>3, <1>4, <2>1, <2>2, <2>3 DEF PersistTypeOK
  <1>6. Underway /\ SavedIsThere /\ ShotsAreKept
    BY DEF PersistInit, Underway, SavedIsThere, ShotsAreKept, Region
  <1>7. QED
    BY <1>5, <1>6 DEF PersistInv

LEMMA SetKeeps ==
    ASSUME PersistInv, NEW r \in Region, NEW i \in 1..MaxLength, NEW w \in Word, Set(r, i, w)
    PROVE  PersistInv'
  <1>1. /\ ram' = [ram EXCEPT ![r][i] = w] /\ i \in DOMAIN ram[r] /\ r # "shots"
        /\ UNCHANGED <<cells, fw, current, saving, done, rest, good, faults, saved, spoiled>>
        /\ Idle
    BY DEF Set
  <1>2. /\ Schema[r][fw] \in Version
        /\ [ram[r] EXCEPT ![i] = w] \in Payload(r, Schema[r][fw])
    BY <1>1, NewRecordTyped, PayloadSet DEF PersistInv
  <1>3. /\ ram' \in [Region -> UNION {[1..n -> Word] : n \in 1..MaxLength}]
        /\ \A s \in Region : ram'[s] = IF s = r THEN [ram[r] EXCEPT ![i] = w] ELSE ram[s]
    BY <1>1, <1>2, PayloadsAreTyped DEF PersistInv, PersistTypeOK
  <1>4. \A s \in Region : ram'[s] \in Payload(s, Schema[s][fw])
    BY <1>2, <1>3 DEF PersistInv, PersistTypeOK
  <1>5. promised' \in Word \cup {NoRecord}
    BY DEF Set, PersistInv, PersistTypeOK
  <1>6. PersistTypeOK'
    BY <1>1, <1>3, <1>4, <1>5 DEF PersistInv, PersistTypeOK
  <1>7. Underway'
    BY <1>1 DEF Underway, Idle
  <1>8. SavedIsThere'
    BY <1>1 DEF PersistInv, SavedIsThere
  <1>9. ram'["shots"] = ram["shots"]
    BY <1>1, <1>3 DEF Region
  <1>10. ShotsAreKept'
    BY <1>1, <1>9 DEF PersistInv, ShotsAreKept
  <1>11. QED
    BY <1>6, <1>7, <1>8, <1>10 DEF PersistInv

(* A command that enters persist_save, with the table changed or not.      *)
LEMMA BeginKeeps ==
    ASSUME PersistInv, Idle,
           NEW r \in {"config", "shots"}, NEW others \in SUBSET {"network"},
           Begins(r, others), r = "shots" => others = {},
           UNCHANGED <<cells, fw, faults, spoiled, promised>>,
           current' \in 0..MaxLength,
           r = "shots" \/ ram' = ram,
           ram' \in [Region -> UNION {[1..n -> Word] : n \in 1..MaxLength}],
           \A s \in Region : ram'[s] \in Payload(s, Schema[s][fw])
    PROVE  PersistInv'
  <1>1. /\ saving' = r /\ rest' = others /\ done' = 0 /\ good' = TRUE
        /\ saved' = [saved EXCEPT ![r] = NoRecord] /\ r \in Region
    BY DEF Begins, Region
  <1>2. saved' \in [Region -> Record \cup {NoRecord}] /\ saved'[r] = NoRecord
    BY <1>1 DEF PersistInv, PersistTypeOK
  <1>3. PersistTypeOK'
    <2>1. rest' \subseteq Region
      BY <1>1 DEF Region
    <2>2. QED
      BY <1>1, <1>2, <2>1 DEF PersistInv, PersistTypeOK
  <1>4. Operations(r)' \in Nat /\ Operations(r)' > 0
    <2>1. Pages[r] \in Nat /\ Length[r][Schema[r][fw]] \in Nat
      BY <1>1, NewRecordTyped, Lengths DEF PersistInv
    <2>2. QED
      BY <2>1 DEF Operations
  <1>5. Underway'
    BY <1>1, <1>2, <1>4 DEF Underway, Operations
  <1>6. SavedIsThere'
    BY <1>1, <1>2 DEF PersistInv, PersistTypeOK, SavedIsThere
  <1>7. ShotsAreKept'
    BY <1>1 DEF PersistInv, ShotsAreKept, Idle
  <1>8. QED
    BY <1>3, <1>5, <1>6, <1>7 DEF PersistInv

LEMMA SaveKeeps ==
    ASSUME PersistInv,
           SaveShots \/ \E others \in SUBSET {"network"} : SaveSettings(others)
    PROVE  PersistInv'
  <1>1. /\ current \in 0..MaxLength
        /\ ram \in [Region -> UNION {[1..n -> Word] : n \in 1..MaxLength}]
        /\ \A s \in Region : ram[s] \in Payload(s, Schema[s][fw])
    BY DEF PersistInv, PersistTypeOK
  <1>2. CASE SaveShots
    BY <1>1, <1>2, BeginKeeps DEF SaveShots
  <1>3. ASSUME NEW others \in SUBSET {"network"}, SaveSettings(others)
        PROVE  PersistInv'
    BY <1>1, <1>3, BeginKeeps DEF SaveSettings
  <1>4. QED
    BY <1>2, <1>3

(* A shot changed in the table.                                            *)
LEMMA ShotSet ==
    ASSUME PersistTypeOK, NEW n \in DOMAIN ram["shots"], NEW w \in Word,
           ram' = [ram EXCEPT !["shots"][n] = w]
    PROVE  /\ ram' \in [Region -> UNION {[1..k -> Word] : k \in 1..MaxLength}]
           /\ \A s \in Region : ram'[s] \in Payload(s, Schema[s][fw])
  <1>1. "shots" \in Region
    BY DEF Region
  <1>2. /\ Schema["shots"][fw] \in Version
        /\ [ram["shots"] EXCEPT ![n] = w] \in Payload("shots", Schema["shots"][fw])
    BY <1>1, NewRecordTyped, PayloadSet
  <1>3. \A s \in Region : ram'[s] = IF s = "shots" THEN [ram["shots"] EXCEPT ![n] = w] ELSE ram[s]
    BY DEF PersistTypeOK
  <1>4. \A s \in Region : ram'[s] \in Payload(s, Schema[s][fw])
    BY <1>2, <1>3 DEF PersistTypeOK
  <1>5. ram' \in [Region -> UNION {[1..k -> Word] : k \in 1..MaxLength}]
    BY <1>1, <1>2, PayloadsAreTyped DEF PersistTypeOK
  <1>6. QED
    BY <1>4, <1>5

LEMMA ShotKeeps ==
    ASSUME PersistInv, NEW n, NEW w \in Word, StoreShot(n, w) \/ SetShotTime(n, w)
    PROVE  PersistInv'
  <1>1. n \in DOMAIN ram["shots"] /\ ram' = [ram EXCEPT !["shots"][n] = w]
    BY DEF StoreShot, SetShotTime
  <1>2. /\ ram' \in [Region -> UNION {[1..k -> Word] : k \in 1..MaxLength}]
        /\ \A s \in Region : ram'[s] \in Payload(s, Schema[s][fw])
    BY <1>1, ShotSet DEF PersistInv
  <1>3. n \in 0..MaxLength
    <2>1. "shots" \in Region /\ PersistTypeOK
      BY DEF Region, PersistInv
    <2>2. DOMAIN ram["shots"] = 1..Length["shots"][Schema["shots"][fw]]
      BY <2>1, NewRecordTyped DEF Payload
    <2>3. QED
      BY <1>1, <2>1, <2>2, NewRecordTyped, Lengths, PersistAssumption
  <1>4. current' \in 0..MaxLength
    BY <1>3 DEF StoreShot, SetShotTime, PersistInv, PersistTypeOK
  <1>5. Idle /\ Begins("shots", {}) /\ UNCHANGED <<cells, fw, faults, spoiled, promised>>
    BY DEF StoreShot, SetShotTime
  <1>6. QED
    BY <1>2, <1>4, <1>5, BeginKeeps

-----------------------------------------------------------------------------
(* The flash operations of a save.                                         *)

(* One more operation, one more double word of the new record.             *)
LEMMA OperatedPrefix ==
    ASSUME PersistInv, ~Idle
    PROVE  /\ Operated(saving) \in [Region -> [Cell -> CellValue]]
           /\ \A r \in Region : r # saving => Operated(saving)[r] = cells[r]
           /\ \A c \in Cell : Operated(saving)[saving][c] =
                  IF c + Pages[saving] <= done + 1
                  THEN Image(saving, NewRecord(saving), c) ELSE Blank
  <1>1. saving \in Region /\ done \in Nat /\ Pages[saving] \in Nat \ {0}
    BY PersistAssumption DEF PersistInv, PersistTypeOK, Idle
  <1>2. /\ NewRecord(saving) = [ver |-> Schema[saving][fw], data |-> ram[saving]]
        /\ Schema[saving][fw] \in Version /\ ram[saving] \in Payload(saving, Schema[saving][fw])
    BY <1>1, NewRecordTyped DEF PersistInv
  <1>3. \A c \in Cell : Image(saving, NewRecord(saving), c) \in CellValue
    BY <1>1, <1>2, ImageTyped
  <1>4. ASSUME NEW c \in Cell
        PROVE  AfterOperation(saving, c) = IF c + Pages[saving] <= done + 1
                  THEN Image(saving, NewRecord(saving), c) ELSE Blank
    <2>1. c \in Nat /\ 1 <= c
      BY PersistAssumption DEF Cell
    <2>2. CASE done = 0
      BY <1>1, <2>1, <2>2 DEF AfterOperation
    <2>3. CASE done > 0
      <3>1. cells[saving][c] = IF c + Pages[saving] <= done
                               THEN Image(saving, NewRecord(saving), c) ELSE Blank
        BY <2>3 DEF PersistInv, Underway, Idle
      <3>2. CASE done < Pages[saving]
        BY <1>1, <2>1, <2>3, <3>1, <3>2 DEF AfterOperation
      <3>3. CASE done >= Pages[saving]
        BY <1>1, <2>1, <2>3, <3>1, <3>3 DEF AfterOperation
      <3>4. QED
        BY <1>1, <3>2, <3>3
    <2>4. QED
      BY <1>1, <2>2, <2>3
  <1>5. \A c \in Cell : AfterOperation(saving, c) \in CellValue
    BY <1>3, <1>4 DEF CellValue
  <1>6. [c \in Cell |-> AfterOperation(saving, c)] \in [Cell -> CellValue]
    BY <1>5
  <1>7. /\ Operated(saving) \in [Region -> [Cell -> CellValue]]
        /\ \A r \in Region : r # saving => Operated(saving)[r] = cells[r]
        /\ Operated(saving)[saving] = [c \in Cell |-> AfterOperation(saving, c)]
    BY <1>1, <1>6 DEF Operated, PersistInv, PersistTypeOK
  <1>8. QED
    BY <1>4, <1>7

(* The operation before the last leaves nothing that loads, the last one   *)
(* the new record.                                                         *)
LEMMA OperatedContent ==
    ASSUME PersistInv, ~Idle
    PROVE  /\ done + 1 < Operations(saving) =>
                  Content(saving, Operated(saving)[saving]) = NoRecord
           /\ done + 1 >= Operations(saving) =>
                  /\ \A c \in Cell : Operated(saving)[saving][c] =
                         Image(saving, NewRecord(saving), c)
                  /\ Content(saving, Operated(saving)[saving]) = NewRecord(saving)
           /\ done > 0 => Content(saving, cells[saving]) = NoRecord
  <1> DEFINE v == Schema[saving][fw]
             d == ram[saving]
             g == Operated(saving)[saving]
             rec == [ver |-> v, data |-> d]
  <1>1. /\ saving \in Region /\ done \in Nat /\ done < Operations(saving)
        /\ Pages[saving] \in Nat
    BY PersistAssumption DEF PersistInv, PersistTypeOK, Idle, Underway
  <1>2. /\ NewRecord(saving) = rec /\ v \in Version /\ d \in Payload(saving, v)
        /\ Operations(saving) = Pages[saving] + 2 + Length[saving][v]
        /\ Length[saving][v] \in Nat
    BY <1>1, NewRecordTyped, Lengths DEF PersistInv
  <1>3. g \in [Cell -> CellValue] /\ cells[saving] \in [Cell -> CellValue]
    BY <1>1, OperatedPrefix DEF PersistInv, PersistTypeOK
  <1>4. \A c \in Cell : g[c] = IF c + Pages[saving] <= done + 1
                               THEN Image(saving, rec, c) ELSE Blank
    BY <1>2, OperatedPrefix
  <1>5. ASSUME done + 1 < Operations(saving)
        PROVE  Content(saving, g) = NoRecord
    <2>1. done + 1 \in Nat /\ done + 1 < Pages[saving] + 2 + Length[saving][v]
      BY <1>1, <1>2, <1>5
    <2> HIDE DEF v, d, g
    <2>2. QED
      BY <1>1, <1>2, <1>3, <1>4, <2>1, PrefixHasNothing
  <1>6. ASSUME done + 1 >= Operations(saving)
        PROVE  /\ \A c \in Cell : g[c] = Image(saving, rec, c)
               /\ Content(saving, g) = rec
    <2>1. ASSUME NEW c \in Cell PROVE g[c] = Image(saving, rec, c)
      <3>1. c \in Nat
        BY PersistAssumption DEF Cell
      <3>2. CASE c + Pages[saving] <= done + 1
        BY <1>4, <3>2
      <3>3. CASE c > 2 + Length[saving][v]
        <4>1. Image(saving, rec, c) = Blank
          BY <1>2, <3>1, <3>3 DEF Image, Size
        <4>2. ~(c + Pages[saving] <= done + 1) \/ Image(saving, rec, c) = g[c]
          BY <1>4
        <4>3. QED
          BY <1>4, <4>1, <4>2
      <3>4. QED
        BY <1>1, <1>2, <1>6, <3>1, <3>2, <3>3
    <2> HIDE DEF v, d, g
    <2>2. Content(saving, g) = rec
      BY <1>1, <1>2, <1>3, <2>1, ImageIsWhole
    <2>3. QED
      BY <2>1, <2>2
  <1>7. ASSUME done > 0
        PROVE  Content(saving, cells[saving]) = NoRecord
    <2>1. \A c \in Cell : cells[saving][c] = IF c + Pages[saving] <= done
                               THEN Image(saving, rec, c) ELSE Blank
      BY <1>2, <1>7 DEF PersistInv, Underway, Idle
    <2> HIDE DEF v, d
    <2>2. QED
      BY <1>1, <1>2, <1>3, <2>1, PrefixHasNothing
  <1>8. QED
    BY <1>2, <1>5, <1>6, <1>7

LEMMA DisturbedContent ==
    ASSUME PersistInv, ~Idle, Disturbed(saving)
    PROVE  /\ cells' \in [Region -> [Cell -> CellValue]]
           /\ \A r \in Region : r # saving => cells'[r] = cells[r]
           /\ Content(saving, cells'[saving]) \in {Content(saving, cells[saving]), NoRecord}
  <1>1. saving \in Region /\ cells \in [Region -> [Cell -> CellValue]]
    BY DEF PersistInv, PersistTypeOK, Idle
  <1>2. PICK lost \in SUBSET {c \in Cell : AfterOperation(saving, c) # cells[saving][c]} :
            cells' = [cells EXCEPT ![saving] =
                        [c \in Cell |-> IF c \in lost THEN Blank ELSE cells[saving][c]]]
    BY DEF Disturbed
  <1> DEFINE g == [c \in Cell |-> IF c \in lost THEN Blank ELSE cells[saving][c]]
  <1>3. lost \in SUBSET Cell /\ cells[saving] \in [Cell -> CellValue]
    BY <1>1
  <1>4. /\ g \in [Cell -> CellValue]
        /\ Content(saving, g) \in {Content(saving, cells[saving]), NoRecord}
    BY <1>1, <1>3, LostCells
  <1>5. cells'[saving] = g /\ \A r \in Region : r # saving => cells'[r] = cells[r]
    BY <1>1, <1>2
  <1>6. cells' \in [Region -> [Cell -> CellValue]]
    <2> HIDE DEF g
    <2>1. cells' = [cells EXCEPT ![saving] = g]
      BY <1>2 DEF g
    <2>2. QED
      BY <1>1, <1>4, <2>1
  <1>7. QED
    BY <1>4, <1>5, <1>6

(* Another operation of a save that goes on.                               *)
LEMMA GoesOn ==
    ASSUME PersistInv, ~Idle, cells' = Operated(saving), done + 1 < Operations(saving),
           done' = done + 1, UNCHANGED <<saving, rest, good, history, user, faults>>
    PROVE  PersistInv'
  <1>1. saving \in Region /\ done \in Nat
    BY DEF PersistInv, PersistTypeOK, Idle
  <1>2. /\ cells' \in [Region -> [Cell -> CellValue]]
        /\ \A r \in Region : r # saving => cells'[r] = cells[r]
        /\ \A c \in Cell : cells'[saving][c] = IF c + Pages[saving] <= done + 1
                  THEN Image(saving, NewRecord(saving), c) ELSE Blank
    BY OperatedPrefix
  <1>3. done' \in Nat
    BY <1>1
  <1>4. PersistTypeOK'
    BY <1>2, <1>3 DEF PersistInv, PersistTypeOK
  <1>5. NewRecord(saving)' = NewRecord(saving) /\ Operations(saving)' = Operations(saving)
    BY DEF NewRecord, Operations
  <1>6. Underway'
    BY <1>2, <1>5 DEF PersistInv, Underway, Idle
  <1>7. SavedIsThere'
    BY <1>2 DEF PersistInv, Underway, SavedIsThere, Idle
  <1>8. ShotsAreKept'
    BY <1>2 DEF PersistInv, ShotsAreKept, Region
  <1>9. QED
    BY <1>4, <1>6, <1>7, <1>8 DEF PersistInv

(* The end of the save of one region, as meant or not.                     *)
LEMMA SaveEndsKeeps ==
    ASSUME PersistInv, ~Idle, NEW ok \in BOOLEAN, Returns(ok), UNCHANGED user,
           faults' \in 0..MaxFaults,
           cells' \in [Region -> [Cell -> CellValue]],
           \A r \in Region : r # saving => cells'[r] = cells[r],
           ok => /\ \A c \in Cell : cells'[saving][c] = Image(saving, NewRecord(saving), c)
                 /\ Content(saving, cells'[saving]) = NewRecord(saving),
           saved' = [r \in Region |-> IF r = saving
                                      THEN IF ok THEN NewRecord(saving) ELSE NoRecord
                                      ELSE IF r \in rest THEN NoRecord ELSE saved[r]]
    PROVE  PersistInv'
  <1>1. /\ saving \in Region /\ rest \subseteq {"network"} \ {saving}
        /\ PersistTypeOK
    BY DEF PersistInv, PersistTypeOK, Underway, Idle
  <1>2. /\ NewRecord(saving) = [ver |-> Schema[saving][fw], data |-> ram[saving]]
        /\ NewRecord(saving) \in Record /\ Schema[saving][fw] \in Version
        /\ ram[saving] \in Payload(saving, Schema[saving][fw])
    BY <1>1, NewRecordTyped
  <1>3. /\ saving' \in {"none", "network"} /\ done' = 0 /\ rest' = {}
        /\ saving' = "network" => "network" \in rest
        /\ spoiled' = IF saving = "shots" THEN ~ok ELSE spoiled
    BY <1>1 DEF Returns
  <1>4. good' \in BOOLEAN /\ spoiled' \in BOOLEAN
    <2>1. good' \in BOOLEAN
      BY Zenon DEF Returns
    <2>2. spoiled \in BOOLEAN /\ (~ok) \in BOOLEAN
      BY <1>1 DEF PersistTypeOK
    <2>3. QED
      BY <1>3, <2>1, <2>2
  <1>5. promised' \in Word \cup {NoRecord}
    <2>1. "network" \in Region
      BY DEF Region
    <2>2. ram["network"][1] \in Word
      <3>1. Length["network"][Schema["network"][fw]] \in Nat \ {0}
        BY <1>1, <2>1, NewRecordTyped, Lengths
      <3>2. ram["network"] \in [1..Length["network"][Schema["network"][fw]] -> Word]
        BY <1>1, <2>1, NewRecordTyped DEF Payload
      <3>3. QED
        BY <3>1, <3>2
    <2>3. QED
      BY <1>1, <2>2 DEF Returns, PersistTypeOK
  <1>6. PersistTypeOK'
    <2>1. saved' \in [Region -> Record \cup {NoRecord}]
      BY <1>1, <1>2 DEF PersistTypeOK
    <2>2. saving' \in Region \cup {"none"}
      BY <1>3 DEF Region
    <2>3. QED
      BY <1>1, <1>3, <1>4, <1>5, <2>1, <2>2 DEF PersistTypeOK
  <1>7. Underway'
    <2>1. SUFFICES ASSUME saving' = "network"
                   PROVE  Underway'
      BY <1>3 DEF Underway
    <2>2. "network" \in rest /\ "network" \in Region /\ "network" # saving
      BY <1>1, <1>3, <2>1 DEF Region
    <2>3. saved'["network"] = NoRecord
      BY <2>2
    <2>4. Operations("network") \in Nat /\ Operations("network") > 0
      BY <1>1, <2>2, NewRecordTyped, Lengths
    <2>5. Operations(saving)' = Operations("network")
      BY <2>1 DEF Operations
    <2>6. QED
      BY <1>3, <2>1, <2>3, <2>4, <2>5 DEF Underway
  <1>8. SavedIsThere'
    <2> SUFFICES ASSUME NEW r \in Region, saved'[r] # NoRecord
                 PROVE  /\ saved'[r].data \in Payload(r, saved'[r].ver)
                        /\ \A c \in Cell : cells'[r][c] = Image(r, saved'[r], c)
      BY DEF SavedIsThere
    <2>1. CASE r = saving
      <3>1. ok /\ saved'[r] = NewRecord(saving)
        BY <2>1
      <3>2. QED
        BY <1>2, <2>1, <3>1
    <2>2. CASE r # saving
      <3>1. saved'[r] = saved[r] /\ cells'[r] = cells[r]
        BY <2>2
      <3>2. QED
        BY <3>1 DEF PersistInv, SavedIsThere
    <2>3. QED
      BY <2>1, <2>2
  <1>9. ShotsAreKept'
    <2> SUFFICES ASSUME ~spoiled'
                 PROVE  Loaded("shots", cells["shots"], fw)' = ram'["shots"]
      BY DEF ShotsAreKept
    <2>1. CASE saving = "shots"
      <3>1. ok /\ Content("shots", cells'["shots"]) = NewRecord("shots")
        BY <1>3, <2>1
      <3>2. Loaded("shots", cells'["shots"], fw) = ram["shots"]
        BY <1>1, <1>2, <2>1, <3>1, OwnRecordLoads DEF PersistTypeOK
      <3>3. QED
        BY <3>2
    <2>2. CASE saving # "shots"
      <3>1. cells'["shots"] = cells["shots"] /\ ~spoiled
        BY <1>3, <2>2 DEF Region
      <3>2. QED
        BY <2>2, <3>1 DEF PersistInv, ShotsAreKept
    <2>3. QED
      BY <2>1, <2>2
  <1>10. QED
    BY <1>6, <1>7, <1>8, <1>9 DEF PersistInv

LEMMA FlashStepKeeps ==
    ASSUME PersistInv, FlashStep
    PROVE  PersistInv'
  <1>1. ~Idle /\ cells' = Operated(saving) /\ UNCHANGED <<user, faults>>
    BY DEF FlashStep
  <1>2. saving \in Region /\ done \in Nat /\ Operations(saving) \in Nat
    BY <1>1, NewRecordTyped DEF PersistInv, PersistTypeOK, Idle
  <1>3. CASE done + 1 < Operations(saving)
    <2>1. done' = done + 1 /\ UNCHANGED <<saving, rest, good, history>>
      BY <1>3 DEF FlashStep
    <2>2. QED
      BY <1>1, <1>3, <2>1, GoesOn
  <1>4. CASE done + 1 >= Operations(saving)
    <2>1. /\ Returns(TRUE)
          /\ saved' = [r \in Region |-> IF r = saving THEN NewRecord(r)
                                        ELSE IF r \in rest THEN NoRecord ELSE saved[r]]
      <3>1. ~(done + 1 < Operations(saving))
        BY <1>2, <1>4
      <3>2. QED
        BY <3>1, Zenon DEF FlashStep
    <2>2. saved' = [r \in Region |-> IF r = saving
                                     THEN IF TRUE THEN NewRecord(saving) ELSE NoRecord
                                     ELSE IF r \in rest THEN NoRecord ELSE saved[r]]
      BY <2>1
    <2>3. faults' \in 0..MaxFaults
      BY <1>1 DEF PersistInv, PersistTypeOK
    <2>4. /\ \A c \in Cell : cells'[saving][c] = Image(saving, NewRecord(saving), c)
          /\ Content(saving, cells'[saving]) = NewRecord(saving)
          /\ cells' \in [Region -> [Cell -> CellValue]]
          /\ \A r \in Region : r # saving => cells'[r] = cells[r]
      BY <1>1, <1>4, OperatedContent, OperatedPrefix
    <2>5. QED
      BY <1>1, <2>1, <2>2, <2>3, <2>4, SaveEndsKeeps
  <1>5. QED
    BY <1>2, <1>3, <1>4

LEMMA FlashRefusesKeeps ==
    ASSUME PersistInv, FlashRefuses
    PROVE  PersistInv'
  <1>1. /\ ~Idle /\ UNCHANGED user /\ Returns(FALSE)
        /\ faults < MaxFaults /\ faults' = faults + 1
    BY DEF FlashRefuses
  <1>2. faults' \in 0..MaxFaults
    BY <1>1, PersistAssumption DEF PersistInv, PersistTypeOK
  <1>3. /\ cells' \in [Region -> [Cell -> CellValue]]
        /\ \A r \in Region : r # saving => cells'[r] = cells[r]
    BY <1>1, OperatedPrefix, DisturbedContent DEF FlashRefuses
  <1>4. saved[saving] = NoRecord /\ saving \notin rest
    BY <1>1 DEF PersistInv, Underway, Idle
  <1>5. saved' = [r \in Region |-> IF r = saving
                                   THEN IF FALSE THEN NewRecord(saving) ELSE NoRecord
                                   ELSE IF r \in rest THEN NoRecord ELSE saved[r]]
    BY <1>4 DEF FlashRefuses
  <1>6. QED
    BY <1>1, <1>2, <1>3, <1>5, SaveEndsKeeps

(* A start of whatever build, from whatever flash holds.                   *)
LEMMA StartKeeps ==
    ASSUME PersistInv, NEW b \in Firmware, Starts(b), faults' \in 0..MaxFaults,
           cells' \in [Region -> [Cell -> CellValue]],
           \A r \in Region : saved[r] # NoRecord => cells'[r] = cells[r]
    PROVE  PersistInv'
  <1>1. /\ fw' = b /\ ram' = [r \in Region |-> Loaded(r, cells'[r], b)]
        /\ saving' = "none" /\ spoiled' = FALSE /\ done' = 0 /\ rest' = {}
        /\ good' = TRUE /\ current' = 0 /\ saved' = saved /\ promised' = promised
    BY DEF Starts
  <1>2. \A r \in Region : ram'[r] \in Payload(r, Schema[r][b])
    BY <1>1, LoadedTyped
  <1>3. ram' \in [Region -> UNION {[1..n -> Word] : n \in 1..MaxLength}]
    BY <1>1, <1>2, Schemas, PayloadsAreTyped
  <1>4. current' \in 0..MaxLength
    BY <1>1, PersistAssumption
  <1>5. PersistTypeOK'
    BY <1>1, <1>2, <1>3, <1>4 DEF PersistInv, PersistTypeOK
  <1>6. Underway' /\ SavedIsThere'
    BY <1>1 DEF PersistInv, Underway, SavedIsThere
  <1>7. ShotsAreKept'
    BY <1>1 DEF ShotsAreKept, Region
  <1>8. QED
    BY <1>5, <1>6, <1>7 DEF PersistInv

LEMMA RestartKeeps ==
    ASSUME PersistInv, PowerLoss \/ \E b \in Firmware : Restart(b)
    PROVE  PersistInv'
  <1>1. cells \in [Region -> [Cell -> CellValue]] /\ fw \in Firmware /\ faults \in 0..MaxFaults
    BY DEF PersistInv, PersistTypeOK
  <1>2. ASSUME NEW b \in Firmware, Restart(b)
        PROVE  PersistInv'
    BY <1>1, <1>2, StartKeeps DEF Restart
  <1>3. CASE PowerLoss
    <2>1. ~Idle /\ Starts(fw) /\ faults' \in 0..MaxFaults
      BY <1>1, <1>3, PersistAssumption DEF PowerLoss
    <2>2. /\ cells' \in [Region -> [Cell -> CellValue]]
          /\ \A r \in Region : r # saving => cells'[r] = cells[r]
      BY <1>1, <1>3, <2>1, DisturbedContent DEF PowerLoss
    <2>3. saved[saving] = NoRecord
      BY <2>1 DEF PersistInv, Underway, Idle
    <2>4. QED
      BY <1>1, <2>1, <2>2, <2>3, StartKeeps
  <1>4. QED
    BY <1>2, <1>3

LEMMA PersistNextInv ==
    ASSUME PersistInv, [PersistNext]_persistVars
    PROVE  PersistInv'
  <1>1. CASE PersistCommand
    <2>1. ASSUME NEW r \in Region, NEW i \in 1..MaxLength, NEW w \in Word, Set(r, i, w)
          PROVE  PersistInv'
      BY <2>1, SetKeeps
    <2>2. ASSUME NEW w \in Word, StoreNext(w)
          PROVE  PersistInv'
      BY <2>2, ShotKeeps DEF StoreNext
    <2>3. QED
      BY <1>1, <2>1, <2>2, SaveKeeps, ShotKeeps DEF PersistCommand
  <1>2. CASE UNCHANGED persistVars
    BY <1>2 DEF persistVars, PersistInv, PersistTypeOK, Underway, SavedIsThere,
       ShotsAreKept, NewRecord, Operations
  <1>3. QED
    BY <1>1, <1>2, FlashStepKeeps, FlashRefusesKeeps, RestartKeeps DEF PersistNext

(* For every schema, every length of a payload and every number of losses  *)
(* of power and refusals: what the flash, the table in RAM and the history *)
(* of the saves have to do with each other.                                *)
THEOREM PersistInvariance == PersistSpec => []PersistInv
  <1>1. PersistInv /\ [PersistNext]_persistVars => PersistInv'
    BY PersistNextInv
  <1>2. QED
    BY PersistInitInv, <1>1, PTL DEF PersistSpec

LEMMA KeptBySaved == PersistInv => SavedIsKept
  <1> SUFFICES ASSUME PersistInv, NEW r \in Region, NEW b \in Firmware,
                      saved[r] # NoRecord, Accepts(r, saved[r].ver, b),
                      NEW i \in 1..Length[r][Schema[r][b]]
               PROVE  Loaded(r, cells[r], b)[i] = Meant(r, saved[r], i)
    BY DEF SavedIsKept
  <1> DEFINE v == saved[r].ver
             d == saved[r].data
             n == Length[r][Schema[r][b]]
  <1>1. saved[r] \in Record /\ cells[r] \in [Cell -> CellValue]
    BY DEF PersistInv, PersistTypeOK
  <1>2. saved[r] = [ver |-> v, data |-> d] /\ v \in Version
    BY <1>1 DEF Record
  <1>3. d \in Payload(r, v) /\ \A c \in Cell : cells[r][c] = Image(r, saved[r], c)
    BY DEF PersistInv, SavedIsThere
  <1>4. Content(r, cells[r]) = saved[r]
    <2> HIDE DEF v, d
    <2>1. QED
      BY <1>1, <1>2, <1>3, ImageIsWhole
  <1>5. Loaded(r, cells[r], b) = Promoted(r, v, Blob(r, saved[r], n))
    BY <1>4 DEF Loaded
  <1>6. Blob(r, saved[r], n)[i] = IF i <= Length[r][v] THEN d[i] ELSE 0
    BY DEF Blob, Size
  <1>7. Promoted(r, v, Blob(r, saved[r], n))[i] =
            IF i > Length[r][v] THEN Default[r][i] ELSE Blob(r, saved[r], n)[i]
    BY DEF Promoted, Blob
  <1>8. i \in Nat /\ Length[r][v] \in Nat
    BY <1>2, Lengths
  <1>9. QED
    BY <1>5, <1>6, <1>7, <1>8 DEF Meant, Size

(* What persist_save has reported saved is what every later start loads,   *)
(* under the build that saved it and under every newer one.                *)
THEOREM SavedKept == PersistSpec => []SavedIsKept
  BY PersistInvariance, KeptBySaved, PTL

-----------------------------------------------------------------------------
(* Each region implements RecordStore.                                     *)

(* A step of RecordStore, or none, as region r takes it.                   *)
RegionStep(r) ==
    \/ UNCHANGED <<StoredIn(r), WrittenTo(r)>>
    \/ /\ WrittenTo(r) = NoRecord
       /\ WrittenTo(r)' \in Record /\ StoredIn(r)' = StoredIn(r)
    \/ /\ WrittenTo(r) # NoRecord
       /\ StoredIn(r)' = NoRecord /\ WrittenTo(r)' = WrittenTo(r)
    \/ /\ WrittenTo(r) # NoRecord /\ StoredIn(r) = NoRecord
       /\ StoredIn(r)' = WrittenTo(r) /\ WrittenTo(r)' = NoRecord
    \/ /\ WrittenTo(r) # NoRecord
       /\ StoredIn(r)' \in {StoredIn(r), NoRecord} /\ WrittenTo(r)' = NoRecord

(* What is being written is a record from the first operation to the last. *)
LEMMA WrittenTyped ==
    ASSUME PersistTypeOK, NEW r \in Region
    PROVE  /\ saving = r => WrittenTo(r) = NewRecord(r) /\ WrittenTo(r) \in Record
           /\ saving = r <=> WrittenTo(r) # NoRecord
  BY NewRecordTyped DEF WrittenTo

LEMMA WrittenNext ==
    ASSUME PersistTypeOK', NEW r \in Region, saving' = r
    PROVE  WrittenTo(r)' \in Record
  <1>1. Schema[r][fw'] \in Version /\ ram'[r] \in Payload(r, Schema[r][fw'])
    BY Schemas DEF PersistTypeOK
  <1>2. QED
    BY <1>1, PayloadsAreTyped DEF WrittenTo, NewRecord

(* Between saves, a command begins the save of one region or of none.      *)
LEMMA CommandStep ==
    ASSUME PersistInv, PersistInv', NEW r \in Region,
           PersistCommand \/ \E b \in Firmware : Restart(b)
    PROVE  RegionStep(r)
  <1>1. Idle /\ cells' = cells /\ r # "none"
    BY DEF PersistCommand, Restart, Set, SaveSettings, SaveShots, StoreShot, StoreNext,
       SetShotTime, Region
  <1>2. WrittenTo(r) = NoRecord /\ StoredIn(r)' = StoredIn(r)
    BY <1>1 DEF WrittenTo, Idle, StoredIn
  <1>3. CASE saving' = r
    BY <1>2, <1>3, WrittenNext DEF PersistInv, RegionStep
  <1>4. CASE saving' # r
    BY <1>2, <1>4 DEF WrittenTo, RegionStep
  <1>5. QED
    BY <1>3, <1>4

(* During a save the other regions keep what they have, and one of them    *)
(* may be the next to be saved.                                            *)
LEMMA OtherRegionStep ==
    ASSUME PersistInv, PersistInv', ~Idle, NEW r \in Region, r # saving,
           FlashStep \/ FlashRefuses \/ PowerLoss
    PROVE  RegionStep(r)
  <1>1. cells'[r] = cells[r]
    BY OperatedPrefix, DisturbedContent DEF FlashStep, FlashRefuses, PowerLoss
  <1>2. WrittenTo(r) = NoRecord /\ StoredIn(r)' = StoredIn(r)
    BY <1>1 DEF WrittenTo, StoredIn
  <1>3. CASE saving' = r
    BY <1>2, <1>3, WrittenNext DEF PersistInv, RegionStep
  <1>4. CASE saving' # r
    BY <1>2, <1>4 DEF WrittenTo, RegionStep
  <1>5. QED
    BY <1>3, <1>4

LEMMA SavedRegionStep ==
    ASSUME PersistInv, ~Idle, NEW r \in Region, r = saving,
           FlashStep \/ FlashRefuses \/ PowerLoss
    PROVE  RegionStep(r)
  <1>1. /\ WrittenTo(r) = NewRecord(r) /\ WrittenTo(r) # NoRecord
        /\ done \in Nat /\ Operations(r) \in Nat /\ done < Operations(r)
        /\ Operations(r) > 1
    <2>1. PersistTypeOK /\ Schema[r][fw] \in Version
      BY NewRecordTyped DEF PersistInv
    <2>2. WrittenTo(r) = NewRecord(r) /\ WrittenTo(r) # NoRecord
      BY <2>1, WrittenTyped
    <2>3. Operations(r) \in Nat /\ Operations(r) > 1
      BY <2>1, NewRecordTyped, Lengths
    <2>4. done \in Nat /\ done < Operations(r)
      BY <2>1 DEF PersistInv, PersistTypeOK, Underway, Idle
    <2>5. QED
      BY <2>2, <2>3, <2>4
  <1>2. /\ done + 1 < Operations(r) => Content(r, Operated(r)[r]) = NoRecord
        /\ done + 1 >= Operations(r) => Content(r, Operated(r)[r]) = WrittenTo(r)
        /\ done > 0 => StoredIn(r) = NoRecord
    BY <1>1, OperatedContent DEF StoredIn
  <1>3. Returns(TRUE) \/ Returns(FALSE) \/ saving' = "none" => WrittenTo(r)' = NoRecord
    <2>1. Returns(TRUE) \/ Returns(FALSE) => saving' # r
      BY DEF Returns, PersistInv, Underway, Idle
    <2>2. r # "none"
      BY DEF Idle
    <2>3. QED
      BY <2>1, <2>2 DEF WrittenTo
  <1>4. CASE FlashStep
    <2>1. StoredIn(r)' = Content(r, Operated(r)[r])
      BY <1>4 DEF FlashStep, StoredIn
    <2>2. CASE done + 1 < Operations(r)
      <3>1. WrittenTo(r)' = WrittenTo(r)
        BY <1>4, <2>2 DEF FlashStep, WrittenTo, NewRecord
      <3>2. QED
        BY <1>1, <1>2, <2>1, <2>2, <3>1 DEF RegionStep
    <2>3. CASE done + 1 >= Operations(r)
      <3>1. ~(done + 1 < Operations(saving))
        BY <1>1, <2>3
      <3>2. Returns(TRUE)
        BY <1>4, <3>1, Zenon DEF FlashStep
      <3>3. done > 0
        BY <1>1, <2>3
      <3>4. QED
        BY <1>1, <1>2, <1>3, <2>1, <2>3, <3>2, <3>3 DEF RegionStep
    <2>4. QED
      BY <1>1, <2>2, <2>3
  <1>5. CASE FlashRefuses
    <2>1. Returns(FALSE)
      BY <1>5 DEF FlashRefuses
    <2>2. CASE cells' = Operated(saving)
      <3>1. StoredIn(r)' = Content(r, Operated(r)[r])
        BY <2>2 DEF StoredIn
      <3>2. CASE done + 1 < Operations(r)
        BY <1>1, <1>2, <1>3, <2>1, <3>1, <3>2 DEF RegionStep
      <3>3. CASE done + 1 >= Operations(r)
        <4>1. done > 0
          BY <1>1, <3>3
        <4>2. QED
          BY <1>1, <1>2, <1>3, <2>1, <3>1, <3>3, <4>1 DEF RegionStep
      <3>4. QED
        BY <1>1, <3>2, <3>3
    <2>3. CASE Disturbed(saving)
      <3>1. StoredIn(r)' \in {StoredIn(r), NoRecord}
        BY <2>3, DisturbedContent DEF StoredIn
      <3>2. QED
        BY <1>1, <1>3, <2>1, <3>1 DEF RegionStep
    <2>4. QED
      BY <1>5, <2>2, <2>3 DEF FlashRefuses
  <1>6. CASE PowerLoss
    <2>1. saving' = "none"
      BY <1>6 DEF PowerLoss, Starts
    <2>2. StoredIn(r)' \in {StoredIn(r), NoRecord}
      BY <1>6, DisturbedContent DEF PowerLoss, StoredIn
    <2>3. QED
      BY <1>1, <1>3, <2>1, <2>2 DEF RegionStep
  <1>7. QED
    BY <1>4, <1>5, <1>6

LEMMA RegionSteps ==
    ASSUME PersistInv, PersistInv', [PersistNext]_persistVars, NEW r \in Region
    PROVE  RegionStep(r)
  <1>1. CASE FlashStep \/ FlashRefuses \/ PowerLoss
    <2>1. ~Idle
      BY <1>1 DEF FlashStep, FlashRefuses, PowerLoss
    <2>2. QED
      BY <1>1, <2>1, OtherRegionStep, SavedRegionStep
  <1>2. CASE UNCHANGED persistVars
    BY <1>2 DEF persistVars, RegionStep, StoredIn, WrittenTo, NewRecord
  <1>3. QED
    BY <1>1, <1>2, CommandStep DEF PersistNext

LEMMA StoresBegin ==
    ASSUME PersistInit, NEW r \in Region
    PROVE  StoredIn(r) = NoRecord /\ WrittenTo(r) = NoRecord
  <1>1. cells[r][1] = Blank
    BY PersistAssumption DEF PersistInit, Cell
  <1>2. StoredIn(r) = NoRecord
    BY <1>1 DEF StoredIn, Content, Whole, Blank
  <1>3. QED
    BY <1>2 DEF PersistInit, WrittenTo, Region

(* Wherever a save is cut short, a region holds the record of one save,    *)
(* whole, or none: persist.h promises no less, RecordStore states it.      *)
THEOREM StoresImplemented == PersistSpec => RegionsAreStores
  <1> USE DEF RegionStep
  <1>1. "config" \in Region /\ "network" \in Region /\ "shots" \in Region
    BY DEF Region
  <1>2. PersistInit => Settings!StoreInit /\ Network!StoreInit /\ Shots!StoreInit
    BY <1>1, StoresBegin DEF Settings!StoreInit, Network!StoreInit, Shots!StoreInit
  <1>3. PersistInv /\ PersistInv' /\ [PersistNext]_persistVars =>
            [Settings!StoreStep]_<<StoredIn("config"), WrittenTo("config")>>
    BY <1>1, RegionSteps DEF Settings!StoreStep, Settings!BeginSave, Settings!GiveUpOld,
       Settings!EndSave, Settings!CutShort
  <1>4. PersistInv /\ PersistInv' /\ [PersistNext]_persistVars =>
            [Network!StoreStep]_<<StoredIn("network"), WrittenTo("network")>>
    BY <1>1, RegionSteps DEF Network!StoreStep, Network!BeginSave, Network!GiveUpOld,
       Network!EndSave, Network!CutShort
  <1>5. PersistInv /\ PersistInv' /\ [PersistNext]_persistVars =>
            [Shots!StoreStep]_<<StoredIn("shots"), WrittenTo("shots")>>
    BY <1>1, RegionSteps DEF Shots!StoreStep, Shots!BeginSave, Shots!GiveUpOld,
       Shots!EndSave, Shots!CutShort
  <1>6. QED
    BY <1>2, <1>3, <1>4, <1>5, PersistInvariance, PTL
       DEF PersistSpec, RegionsAreStores, Settings!StoreSpec, Network!StoreSpec, Shots!StoreSpec

=============================================================================
