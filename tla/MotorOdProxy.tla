---------------------------- MODULE MotorOdProxy ----------------------------
(***************************************************************************)
(* app/axis_manager/motor_od_proxy.c without its save sequencer (that is   *)
(* MotorSave): the cache of the motor's parameters.  A value the operator  *)
(* types marks its entry dirty and is written to the motor in turn;        *)
(* bootsync reads every entry back, pass after pass, so that changes made  *)
(* on the motor's side are noticed.  Reads, writes and the load factor     *)
(* share the one request slot with each other and with everybody else.     *)
(*                                                                         *)
(* motor_od_proxy_tick is three steps of a pass: the load factor           *)
(* (at = "rest"), bootsync (at = "sync"), the writer (at = "write").       *)
(* Commands and answers arrive between passes.  A parameter is a number,   *)
(* its value a member of Value; s_slots[p].idx and sub are that number.    *)
(***************************************************************************)
EXTENDS Naturals

CONSTANTS
    SlotCount,      \* PROXY_SLOT_COUNT
    Value,          \* what a parameter may be set to
    Default         \* 0.0f, the cache at boot

ASSUME ProxyAssumption ==
    /\ SlotCount \in Nat \ {0}
    /\ Default \in Value

VARIABLES
    slot,       \* the request slot of cia402
    datum,      \* external: the value written or read by the request in the slot
    value,      \* s_slots[].value
    dirty,      \* the entries with s_slots[].dirty
    write,      \* s_proxy_pending with its handle: "held" or "none"
    last,       \* s_proxy_inflight_slot
    sync,       \* s_bootsync_state; "busy" holds s_bootsync_handle
    next,       \* s_bootsync_next_slot
    load,       \* s_load_factor_pending with its handle: "held" or "none"
    inBoot,     \* the motor is in its bootloader
    at,         \* where the pass is
    motor,      \* external: the motor's own parameters
    owed,       \* history: entries the operator set whose write has not ended
    cut         \* history: those whose write a bootloader entry cut off

cache == <<value, dirty, write, last, sync, next, load>>
ghost == <<owed, cut>>
vars == <<slot, datum, cache, inBoot, at, motor, ghost>>

Param == 0..(SlotCount - 1)

Od == INSTANCE OdSlot WITH Holder <- {"proxy", "bootsync", "load", "others"},
          NoHolder <- "none", Request <- {"read", "write", "other"}, NoRequest <- "none"

TypeOK ==
    /\ slot \in Od!Slot
    /\ datum \in Value
    /\ value \in [Param -> Value] /\ motor \in [Param -> Value]
    /\ dirty \subseteq Param
    /\ write \in {"held", "none"} /\ load \in {"held", "none"}
    /\ last \in Param
    /\ sync \in {"idle", "busy", "done"}
    /\ next \in 0..SlotCount
    /\ inBoot \in BOOLEAN
    /\ at \in {"rest", "sync", "write"}
    /\ owed \subseteq Param /\ cut \subseteq owed

Init ==
    /\ Od!SlotInit /\ datum = Default
    /\ value = [p \in Param |-> Default] /\ dirty = {}
    /\ write = "none" /\ last = 0
    /\ sync = "idle" /\ next = 0 /\ load = "none"
    /\ inBoot = FALSE /\ at = "rest"
    /\ motor \in [Param -> Value]
    /\ owed = {} /\ cut = {}

-----------------------------------------------------------------------------
(* Commands, between passes.                                               *)

(* set_slot_f32, behind every setter.                                      *)
SetParam(p, v) ==
    /\ at = "rest"
    /\ value' = [value EXCEPT ![p] = v]
    /\ dirty' = dirty \cup {p}
    /\ owed' = owed \cup {p} /\ cut' = cut \ {p}
    /\ UNCHANGED <<slot, datum, write, last, sync, next, load, inBoot, at, motor>>

(* motor_od_proxy_set_load_factor sends at once or not at all; the value   *)
(* is not followed here.                                                   *)
SetLoadFactor ==
    /\ at = "rest"
    /\ load = "none"
    /\ Od!SlotBegin("load", "other")
    /\ load' = "held"
    /\ UNCHANGED <<datum, value, dirty, write, last, sync, next, inBoot, at, motor, ghost>>

(* motor_od_proxy_request_motor_resync from outside the tick.              *)
RequestResync ==
    /\ at = "rest"
    /\ sync = "done"
    /\ sync' = "idle" /\ next' = 0
    /\ UNCHANGED <<slot, datum, value, dirty, write, last, load, inBoot, at, motor, ghost>>

-----------------------------------------------------------------------------
(* The pass.                                                               *)

(* poll_load_factor_sdo                                                    *)
PollLoadFactor ==
    /\ at = "rest" /\ ~inBoot /\ at' = "sync"
    /\ IF load = "held" /\ Od!SlotReady("load")
       THEN Od!SlotCollect("load") /\ load' = "none"
       ELSE UNCHANGED <<slot, load>>
    /\ UNCHANGED <<datum, value, dirty, write, last, sync, next, inBoot, motor, ghost>>

SyncTurn == at = "sync" /\ at' = "write"

(* The read of the next entry, as soon as the slot is free, or the end of  *)
(* the pass over the entries.  n is where that pass is, s the slot.        *)
ReadNext(n, s) ==
    IF n = SlotCount
    THEN sync' = "done" /\ next' = n /\ slot' = s
    ELSE IF s = Od!FreeSlot
         THEN sync' = "busy" /\ next' = n + 1 /\ slot' = Od!Asked("bootsync", "read")
         ELSE sync' = "idle" /\ next' = n /\ slot' = s

(* Neither the kickoff delay nor BOOTSYNC_RESYNC_PERIOD_MS is over, or the *)
(* read in flight has not been answered.                                   *)
SyncWaits ==
    /\ SyncTurn
    /\ \/ sync = "done"
       \/ sync = "idle" /\ next = 0
       \/ sync = "busy" /\ ~Od!SlotReady("bootsync")
    /\ UNCHANGED <<slot, cache, datum, inBoot, motor, ghost>>

(* Variant: the entries are read once and never again.                     *)
SyncStartsOnce ==
    /\ SyncTurn
    /\ sync = "idle"
    /\ ReadNext(next, slot)
    /\ UNCHANGED <<datum, value, dirty, write, last, load, inBoot, motor, ghost>>

SyncStarts ==
    /\ SyncTurn
    /\ sync # "busy"
    /\ ReadNext(IF sync = "done" THEN 0 ELSE next, slot)
    /\ UNCHANGED <<datum, value, dirty, write, last, load, inBoot, motor, ghost>>

(* Variant: what was read is adopted, whatever the operator typed meanwhile. *)
AdoptAlways(p) == value' = IF slot.res = "ok" THEN [value EXCEPT ![p] = datum] ELSE value

(* The operator's value stays when it was typed before the read ended.     *)
Adopt(p) == value' = IF slot.res = "ok" /\ p \notin dirty
                     THEN [value EXCEPT ![p] = datum] ELSE value

(* While a read is in flight s_bootsync_inflight_slot is the entry before  *)
(* s_bootsync_next_slot.                                                   *)
SyncCollects ==
    /\ SyncTurn
    /\ sync = "busy" /\ Od!SlotReady("bootsync")
    /\ Adopt(next - 1)
    /\ ReadNext(next, Od!FreeSlot)
    /\ UNCHANGED <<datum, dirty, write, last, load, inBoot, motor, ghost>>

Sync == SyncWaits \/ SyncStarts \/ SyncCollects

WriteTurn == at = "write" /\ at' = "rest"

(* How long after entry l the round robin comes to entry p.                *)
Wait(p, l) == (p + SlotCount - l - 1) % SlotCount

(* Variant: the search starts with the entry written last.                 *)
TurnFromLast(p) == \A q \in dirty : (p + SlotCount - last) % SlotCount
                                        <= (q + SlotCount - last) % SlotCount

(* p is the first dirty entry after the last one written.                  *)
Turn(p) == \A q \in dirty : Wait(p, last) <= Wait(q, last)

(* The next dirty entry is written if the slot s is free.                  *)
WriteNext(s) ==
    \/ /\ s = Od!FreeSlot
       /\ \E p \in dirty :
            /\ Turn(p)
            /\ slot' = Od!Asked("proxy", "write")
            /\ datum' = value[p]
            /\ dirty' = dirty \ {p}
            /\ write' = "held" /\ last' = p
    \/ /\ s # Od!FreeSlot \/ dirty = {}
       /\ slot' = s /\ write' = "none"
       /\ UNCHANGED <<datum, dirty, last>>

WriteWaits ==
    /\ WriteTurn
    /\ write = "held" /\ ~Od!SlotReady("proxy")
    /\ UNCHANGED <<slot, cache, datum, inBoot, motor, ghost>>

WriteStarts ==
    /\ WriteTurn
    /\ write = "none"
    /\ WriteNext(slot)
    /\ UNCHANGED <<value, sync, next, load, inBoot, motor, ghost>>

(* The result is logged; a write that failed is not tried again.           *)
WriteCollects ==
    /\ WriteTurn
    /\ write = "held" /\ Od!SlotReady("proxy")
    /\ WriteNext(Od!FreeSlot)
    /\ owed' = IF last \in dirty THEN owed ELSE owed \ {last}
    /\ cut' = cut
    /\ UNCHANGED <<value, sync, next, load, inBoot, motor>>

Write == WriteWaits \/ WriteStarts \/ WriteCollects

-----------------------------------------------------------------------------
(* The motor in its bootloader: cia402_od_abort, motor_od_proxy_reset, and *)
(* no tick until it leaves, with the parameters of its flash.              *)

(* Variant: the reset forgets the handle of the load factor.               *)
BootEntryKeepsLoad ==
    /\ at = "rest" /\ ~inBoot
    /\ inBoot' = TRUE
    /\ Od!SlotAbort
    /\ sync' = "idle" /\ next' = 0
    /\ write' = "none" /\ load' = load
    /\ cut' = IF write = "held" /\ last \in owed \ dirty THEN cut \cup {last} ELSE cut
    /\ UNCHANGED <<datum, value, dirty, last, at, motor, owed>>

BootEntry ==
    /\ at = "rest" /\ ~inBoot
    /\ inBoot' = TRUE
    /\ Od!SlotAbort
    /\ sync' = "idle" /\ next' = 0
    /\ write' = "none" /\ load' = "none"
    /\ cut' = IF write = "held" /\ last \in owed \ dirty THEN cut \cup {last} ELSE cut
    /\ UNCHANGED <<datum, value, dirty, last, at, motor, owed>>

BootExit ==
    /\ at = "rest" /\ inBoot
    /\ inBoot' = FALSE
    /\ motor' \in [Param -> Value]
    /\ UNCHANGED <<slot, cache, datum, at, ghost>>

-----------------------------------------------------------------------------
(* External: the other clients of the slot, and the motor.                 *)

OthersBegin ==
    /\ at = "rest" /\ Od!SlotBegin("others", "other")
    /\ UNCHANGED <<cache, datum, inBoot, at, motor, ghost>>

OthersCollect ==
    /\ at = "rest" /\ Od!SlotCollect("others")
    /\ UNCHANGED <<cache, datum, inBoot, at, motor, ghost>>

(* The motor carries a request out.  A request of the PC tool may write    *)
(* any parameter.                                                          *)
ReadOk ==
    /\ slot.req = "read"
    /\ datum' = motor[next - 1] /\ motor' = motor

WriteOk ==
    /\ slot.req = "write"
    /\ motor' = [motor EXCEPT ![last] = datum] /\ datum' = datum

OtherOk ==
    /\ slot.req = "other"
    /\ datum' = datum
    /\ \/ motor' = motor
       \/ \E p \in Param, v \in Value : motor' = [motor EXCEPT ![p] = v]

(* A request times out whether or not the motor carried it out.            *)
MotorAnswers ==
    /\ at = "rest" /\ slot.st = "busy"
    /\ \/ Od!SlotFinish("ok") /\ (ReadOk \/ WriteOk \/ OtherOk)
       \/ Od!SlotFinish("refused") /\ UNCHANGED <<datum, motor>>
       \/ Od!SlotFinish("timeout") /\ (WriteOk \/ OtherOk \/ UNCHANGED <<datum, motor>>)
    /\ UNCHANGED <<cache, inBoot, at, ghost>>

Command == (\E p \in Param, v \in Value : SetParam(p, v)) \/ SetLoadFactor \/ RequestResync
Pass == PollLoadFactor \/ Sync \/ Write
Boot == BootEntry \/ BootExit
Others == OthersBegin \/ OthersCollect

Next == Command \/ Pass \/ Boot \/ Others \/ MotorAnswers

Spec == Init /\ [][Next]_vars

(* The super-loop passes for ever and cia402_tick answers; the other       *)
(* clients leave the slot free at some passes; the resync period ends; no  *)
(* entry is refused to be read for ever.                                   *)
Fairness ==
    /\ WF_vars(Pass)
    /\ SF_vars(PollLoadFactor /\ Od!SlotFree)
    /\ SF_vars(SyncStarts /\ Od!SlotFree)
    /\ SF_vars(MotorAnswers)
    /\ SF_vars(OthersCollect)
    /\ \A p \in Param : SF_vars(MotorAnswers /\ slot'.res = "ok" /\ ReadOk /\ next = p + 1)

FairSpec == Spec /\ Fairness

-----------------------------------------------------------------------------
(* What holds.                                                             *)

(* Until the write of a value the operator typed has ended, bootsync does  *)
(* not put another in its place (motor_od_proxy.h:94 "doesn't get its      *)
(* operator-typed value clobbered"), except for a write cut off by a       *)
(* bootloader entry: it is no longer dirty (line 306), and is lost, though *)
(* line 157 means it to reach the motor later.                             *)
OperatorValueKept ==
    [][\A p \in owed \ cut : ~Sync \/ value'[p] = value[p]]_vars

(* Every value typed is sent in the end, however often the other entries   *)
(* are set again and whatever bootsync and the other clients do            *)
(* (motor_od_proxy.c:292 "heavy traffic on one entry doesn't starve the    *)
(* others").                                                               *)
EverySetIsSent == \A p \in Param : p \in dirty ~> p \notin dirty \/ inBoot

(* Once nobody changes anything, the cache and the motor agree and stay so *)
(* (motor_od_proxy.c:347 "Lets the CMC cache track motor-side changes").   *)
Changing ==
    \/ \E p \in Param, v \in Value : SetParam(p, v)
    \/ OthersBegin \/ SetLoadFactor \/ BootEntry

CacheCatchesUp == <>[][~Changing]_vars => <>[](inBoot \/ value = motor)

-----------------------------------------------------------------------------
(* Why it holds.                                                           *)

(* Each of the three handles is the slot's; nothing is given up but by the *)
(* reset, with which the slot is freed too.                                *)
HandlesMatch ==
    /\ write = "held" <=> slot.owner = "proxy"
    /\ sync = "busy" <=> slot.owner = "bootsync"
    /\ load = "held" <=> slot.owner = "load"
    /\ slot.owner = "proxy" <=> slot.req = "write"
    /\ slot.owner = "bootsync" <=> slot.req = "read"
    /\ slot.owner = "bootsync" => next > 0
    /\ slot.st = "idle" <=> slot.owner = "none"
    /\ slot.st = "idle" => slot = Od!FreeSlot
    /\ slot.st = "busy" => slot.res = "none"
    /\ sync = "done" => next = SlotCount

(* A value the operator typed is dirty, or in flight, or was cut off; what *)
(* is in flight is the cache's unless it was typed over.                   *)
OwedIsOnItsWay ==
    /\ dirty \subseteq owed
    /\ cut \cap dirty = {}
    /\ \A p \in owed \ (dirty \cup cut) : write = "held" /\ last = p
    /\ write = "held" => last \notin cut
    /\ write = "held" /\ last \in owed \ dirty => datum = value[last]

IInv == TypeOK /\ HandlesMatch /\ OwedIsOnItsWay

=============================================================================
