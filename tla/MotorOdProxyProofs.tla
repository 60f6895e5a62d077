------------------------- MODULE MotorOdProxyProofs -------------------------
(***************************************************************************)
(* Theorems about MotorOdProxy, for every number of parameters and every   *)
(* set of values: each handle of the proxy is the slot's, a value the      *)
(* operator typed is always dirty, in flight or cut off by a bootloader    *)
(* entry, and bootsync therefore never replaces one that is still owed.    *)
(***************************************************************************)
EXTENDS MotorOdProxy, TLAPS

(* The vocabulary of the slot is expanded everywhere.                      *)
USE DEF Od!Slot, Od!Result, Od!FreeSlot, Od!SlotFree, Od!Asked, Od!SlotReady,
        Od!SlotBegin, Od!SlotCollect, Od!SlotFinish, Od!SlotAbort, Od!SlotInit

LEMMA Params ==
    /\ 0 \in Param /\ 0 \in 0..SlotCount
    /\ \A n \in 0..SlotCount : n # SlotCount => n \in Param /\ n + 1 \in 1..SlotCount
    /\ \A n \in 1..SlotCount : n - 1 \in Param /\ n \in 0..SlotCount /\ n > 0
    /\ \A n \in 0..SlotCount : n > 0 => n \in 1..SlotCount
  BY ProxyAssumption DEF Param

LEMMA InitIInv == Init => IInv
  <1> SUFFICES ASSUME Init PROVE IInv
    OBVIOUS
  <1>1. inBoot \in BOOLEAN
    <2>1. inBoot = FALSE
      BY DEF Init
    <2>2. QED
      BY <2>1, Zenon
  <1>2. TypeOK
    BY <1>1, Params, ProxyAssumption DEF Init, TypeOK
  <1>3. HandlesMatch /\ OwedIsOnItsWay
    BY ProxyAssumption DEF Init, HandlesMatch, OwedIsOnItsWay
  <1>4. QED
    BY <1>2, <1>3 DEF IInv

-----------------------------------------------------------------------------
(* One lemma for each action of Next.                                      *)

LEMMA SetParamKeeps ==
    ASSUME IInv, NEW p \in Param, NEW v \in Value, SetParam(p, v)
    PROVE  IInv'
  BY Params DEF SetParam,
     cache, ghost, IInv, TypeOK, HandlesMatch, OwedIsOnItsWay

LEMMA SetLoadFactorKeeps ==
    ASSUME IInv, SetLoadFactor
    PROVE  IInv'
  BY Params DEF SetLoadFactor,
     cache, ghost, IInv, TypeOK, HandlesMatch, OwedIsOnItsWay

LEMMA RequestResyncKeeps ==
    ASSUME IInv, RequestResync
    PROVE  IInv'
  BY Params DEF RequestResync,
     cache, ghost, IInv, TypeOK, HandlesMatch, OwedIsOnItsWay

LEMMA PollLoadFactorKeeps ==
    ASSUME IInv, PollLoadFactor
    PROVE  IInv'
  BY Params DEF PollLoadFactor,
     cache, ghost, IInv, TypeOK, HandlesMatch, OwedIsOnItsWay

LEMMA SyncWaitsKeeps ==
    ASSUME IInv, SyncWaits
    PROVE  IInv'
  BY Params DEF SyncWaits, SyncTurn,
     cache, ghost, IInv, TypeOK, HandlesMatch, OwedIsOnItsWay

(* What ReadNext makes of a slot that holds no read of bootsync.           *)
LEMMA SyncStartsKeeps ==
    ASSUME IInv, SyncStarts
    PROVE  IInv'
  <1> DEFINE n == IF sync = "done" THEN 0 ELSE next
  <1>1. n \in 0..SlotCount /\ ReadNext(n, slot)
    BY Params DEF SyncStarts, IInv, TypeOK
  <1> HIDE DEF n
  <1>2. TypeOK'
    <2>1. sync' \in {"idle", "busy", "done"} /\ next' \in 0..SlotCount
      BY <1>1, Params DEF ReadNext
    <2>2. slot' \in Od!Slot
      BY <1>1 DEF ReadNext, IInv, TypeOK
    <2>3. QED
      BY <2>1, <2>2 DEF SyncStarts, SyncTurn, ghost, IInv, TypeOK
  <1>3. HandlesMatch'
    BY <1>1, Params DEF SyncStarts, SyncTurn, ReadNext, IInv, TypeOK, HandlesMatch
  <1>4. OwedIsOnItsWay'
    BY DEF SyncStarts, SyncTurn, ghost, IInv, OwedIsOnItsWay
  <1>5. QED
    BY <1>2, <1>3, <1>4 DEF IInv

LEMMA SyncCollectsKeeps ==
    ASSUME IInv, SyncCollects
    PROVE  IInv'
  <1>1. next \in 1..SlotCount
    BY Params DEF SyncCollects, IInv, TypeOK, HandlesMatch
  <1>2. value' \in [Param -> Value] /\ \A p \in dirty : value'[p] = value[p]
    BY <1>1, Params DEF SyncCollects, Adopt, IInv, TypeOK
  <1>3. TypeOK'
    <2>1. sync' \in {"idle", "busy", "done"} /\ next' \in 0..SlotCount /\ slot' \in Od!Slot
      BY <1>1, Params DEF SyncCollects, ReadNext
    <2>2. QED
      BY <1>2, <2>1 DEF SyncCollects, SyncTurn, ghost, IInv, TypeOK
  <1>4. HandlesMatch'
    BY <1>1, Params DEF SyncCollects, SyncTurn, ReadNext, IInv, TypeOK, HandlesMatch
  <1>5. OwedIsOnItsWay'
    <2>1. write # "held"
      BY DEF SyncCollects, IInv, HandlesMatch
    <2>2. QED
      BY <2>1 DEF SyncCollects, ghost, IInv, OwedIsOnItsWay
  <1>6. QED
    BY <1>3, <1>4, <1>5 DEF IInv

LEMMA WriteWaitsKeeps ==
    ASSUME IInv, WriteWaits
    PROVE  IInv'
  BY Params DEF WriteWaits, WriteTurn,
     cache, ghost, IInv, TypeOK, HandlesMatch, OwedIsOnItsWay

LEMMA WriteStartsKeeps ==
    ASSUME IInv, WriteStarts
    PROVE  IInv'
  BY Params DEF WriteStarts, WriteTurn, WriteNext,
     cache, ghost, IInv, TypeOK, HandlesMatch, OwedIsOnItsWay

LEMMA WriteCollectsKeeps ==
    ASSUME IInv, WriteCollects
    PROVE  IInv'
  <1>1. TypeOK'
    BY Params DEF WriteCollects, WriteTurn, WriteNext, IInv, TypeOK, OwedIsOnItsWay
  <1>2. HandlesMatch'
    BY Params DEF WriteCollects, WriteTurn, WriteNext, IInv, TypeOK, HandlesMatch
  <1>3. OwedIsOnItsWay'
    <2>1. WriteNext(Od!FreeSlot) /\ cut' = cut /\ value' = value
          /\ owed' = IF last \in dirty THEN owed ELSE owed \ {last}
      BY DEF WriteCollects
    <2>2. CASE dirty = {}
      BY <2>1, <2>2 DEF WriteNext, IInv, TypeOK, OwedIsOnItsWay
    <2>3. CASE dirty # {}
      <3>1. PICK p \in dirty : /\ datum' = value[p] /\ dirty' = dirty \ {p}
                              /\ write' = "held" /\ last' = p
        BY <2>1, <2>3 DEF WriteNext
      <3>2. \A q \in owed : q # last => q \in dirty \cup cut
        BY DEF IInv, OwedIsOnItsWay
      <3>3. QED
        BY <2>1, <3>1, <3>2 DEF IInv, TypeOK, OwedIsOnItsWay
    <2>4. QED
      BY <2>2, <2>3
  <1>4. QED
    BY <1>1, <1>2, <1>3 DEF IInv

LEMMA BootEntryKeeps ==
    ASSUME IInv, BootEntry
    PROVE  IInv'
  <1>1. inBoot' \in BOOLEAN
    BY Zenon DEF BootEntry
  <1>2. QED
    BY <1>1, Params DEF BootEntry, IInv, TypeOK, HandlesMatch, OwedIsOnItsWay

LEMMA BootExitKeeps ==
    ASSUME IInv, BootExit
    PROVE  IInv'
  <1>1. inBoot' \in BOOLEAN
    BY Zenon DEF BootExit
  <1>2. QED
    BY <1>1 DEF BootExit, cache, ghost, IInv, TypeOK, HandlesMatch, OwedIsOnItsWay

LEMMA OthersBeginKeeps ==
    ASSUME IInv, OthersBegin
    PROVE  IInv'
  BY Params DEF OthersBegin,
     cache, ghost, IInv, TypeOK, HandlesMatch, OwedIsOnItsWay

LEMMA OthersCollectKeeps ==
    ASSUME IInv, OthersCollect
    PROVE  IInv'
  BY Params DEF OthersCollect,
     cache, ghost, IInv, TypeOK, HandlesMatch, OwedIsOnItsWay

LEMMA MotorAnswersKeeps ==
    ASSUME IInv, MotorAnswers
    PROVE  IInv'
  <1>1. slot.req = "read" => next - 1 \in Param
    BY Params DEF IInv, TypeOK, HandlesMatch, MotorAnswers
  <1>2. datum' \in Value /\ motor' \in [Param -> Value]
    BY Params DEF MotorAnswers, ReadOk, WriteOk, OtherOk, IInv, TypeOK, HandlesMatch
  <1>3. slot.req # "read" => datum' = datum
    BY DEF MotorAnswers, ReadOk, WriteOk, OtherOk
  <1>4. QED
    BY <1>2, <1>3, Params DEF MotorAnswers, cache, ghost, IInv, TypeOK, HandlesMatch, OwedIsOnItsWay

-----------------------------------------------------------------------------
(* The theorems.                                                           *)

LEMMA NextIInv == IInv /\ [Next]_vars => IInv'
  <1> SUFFICES ASSUME IInv, [Next]_vars PROVE IInv'
    OBVIOUS
  <1>1. CASE Command
    BY <1>1, SetParamKeeps, SetLoadFactorKeeps, RequestResyncKeeps DEF Command
  <1>2. CASE Pass
    BY <1>2, PollLoadFactorKeeps, SyncWaitsKeeps, SyncStartsKeeps, SyncCollectsKeeps,
       WriteWaitsKeeps, WriteStartsKeeps, WriteCollectsKeeps DEF Pass, Sync, Write
  <1>3. CASE Boot
    BY <1>3, BootEntryKeeps, BootExitKeeps DEF Boot
  <1>4. CASE Others
    BY <1>4, OthersBeginKeeps, OthersCollectKeeps DEF Others
  <1>5. CASE MotorAnswers
    BY <1>5, MotorAnswersKeeps
  <1>6. CASE UNCHANGED vars
    BY <1>6 DEF vars, cache, ghost, IInv, TypeOK, HandlesMatch, OwedIsOnItsWay
  <1>7. QED
    BY <1>1, <1>2, <1>3, <1>4, <1>5, <1>6 DEF Next

(* Every handle of the proxy is the live request's (motor_od_proxy.c:72    *)
(* and axis_manager.c:60), and what the operator typed is never forgotten. *)
THEOREM Invariance == Spec => []IInv
  BY InitIInv, NextIInv, PTL DEF Spec

(* A read ends only when the slot holds no write of the proxy, so that     *)
(* what the operator is owed is dirty and is not adopted over              *)
(* (motor_od_proxy.h:94).                                                  *)
THEOREM OperatorKeepsValue == Spec => OperatorValueKept
  <1>1. ASSUME IInv, [Next]_vars
        PROVE  [\A p \in owed \ cut : ~Sync \/ value'[p] = value[p]]_vars
    <2> SUFFICES ASSUME NEW p \in owed \ cut, Sync
                 PROVE  value'[p] = value[p]
      OBVIOUS
    <2>1. CASE SyncWaits \/ SyncStarts
      BY <2>1 DEF SyncWaits, SyncStarts, cache
    <2>2. CASE SyncCollects
      <3>1. p \in dirty
        <4>1. write # "held"
            BY <1>1, <2>2 DEF SyncCollects, IInv, TypeOK, HandlesMatch
        <4>2. QED
          BY <1>1, <4>1 DEF IInv, OwedIsOnItsWay
      <3>2. QED
        BY <1>1, <2>2, <3>1 DEF SyncCollects, Adopt, IInv, TypeOK
    <2>3. QED
      BY <2>1, <2>2 DEF Sync
  <1>2. QED
    BY Invariance, <1>1, PTL DEF Spec, OperatorValueKept

=============================================================================
