------------------------------- MODULE Cia402 -------------------------------
(***************************************************************************)
(* app/cia402/cia402.c: the 1 kHz exchange of frames with the motor MCU    *)
(* and the one request slot that rides on it.                              *)
(*                                                                         *)
(* Every cia402_tick sends one frame and receives one in the same          *)
(* full-duplex transfer, so what is received answers an earlier frame.     *)
(* Frames are lost or corrupted in either direction, the motor answers     *)
(* late or never, the main loop stalls, and any caller may begin, poll or  *)
(* abort between two ticks.  The only thing that ties an answer to its     *)
(* request is the 16-bit sequence number, which wraps.                     *)
(*                                                                         *)
(* Left out: the payload of the frames, the CRCs (a frame that fails a     *)
(* check is a frame not received), statistics, and time spent inside one   *)
(* transfer, which SPI_TIMEOUT_MS keeps below every deadline.              *)
(***************************************************************************)
EXTENDS Naturals

CONSTANTS
    SeqMod,         \* number of sequence numbers (2^16 in the code)
    HandleMax,      \* valid handles are 1..HandleMax (65535 in the code)
    RespTimeout,    \* OD_RESPONSE_TIMEOUT_MS
    EraseTimeout,   \* the longer deadline of OD_DOWNLOAD_INIT
    MaxGap,         \* longest time between two ticks, in cycles
    MaxLag          \* an answer leaves the motor within MaxLag frames or never

(* A request waits at most EraseTimeout cycles and an answer is at most    *)
(* MaxLag frames old, both far fewer than the sequence numbers.            *)
ASSUME CiaAssumption ==
    /\ SeqMod \in Nat /\ HandleMax \in Nat \ {0}
    /\ RespTimeout \in Nat /\ EraseTimeout \in Nat
    /\ MaxGap \in Nat \ {0} /\ MaxLag \in Nat
    /\ RespTimeout <= EraseTimeout
    /\ EraseTimeout + 1 < SeqMod
    /\ MaxLag + 1 < SeqMod

VARIABLES
    od,          \* s_od
    nextHandle,  \* s_next_handle
    seq,         \* s_sequence
    node,        \* what s_status_hdr.node_state says of the motor; "none" before s_status_ever
    link,        \* answers the motor has prepared and not yet clocked out (external)
    burst        \* history: request frames sent since the last cyclic frame, heartbeat or abort

vars == <<od, nextHandle, seq, node, link, burst>>

Handle == 1..HandleMax
NoHandle == 0
SeqNo == 0..(SeqMod - 1)

(* "init" is OD_DOWNLOAD_INIT and "segment" OD_DOWNLOAD_SEGMENT, the raw   *)
(* passthrough frames; "read" and "write" are the plain OD requests.       *)
Kind == {"read", "write", "init", "segment"}
Raw(k) == k \in {"init", "segment"}

Outcome == {"ok", "refused", "timeout"}

OdState == {"idle", "pending", "awaiting", "complete"}

(* seq and age (time since the request was sent) are those of an awaiting  *)
(* request.  ours is history: the result is the motor's word on this       *)
(* request and no other.                                                   *)
OdSlotRec == [st : OdState, handle : Handle \cup {NoHandle},
              kind : Kind \cup {"none"}, seq : SeqNo, age : 0..EraseTimeout,
              res : Outcome \cup {"none"}, ours : BOOLEAN]

(* The fields of a free slot are dead: every begin writes them again.      *)
FreeOd == [st |-> "idle", handle |-> NoHandle, kind |-> "none", seq |-> 0,
           age |-> 0, res |-> "none", ours |-> TRUE]

(* A message from the motor.  as: "sdo" for OD_READ_RESP and               *)
(* OD_WRITE_RESP, "raw" for OD_DOWNLOAD_RESP, "error" for ERROR, which     *)
(* names its offending frame in ref_sequence.  lag: frames since the one   *)
(* it answers.  live is history: it answers the request now in the slot.   *)
Answer == [as : {"sdo", "raw", "error"}, seq : SeqNo, lag : 0..MaxLag,
           res : {"ok", "refused"}, live : BOOLEAN]

(* A transfer that brings nothing the slot could use: an SPI error, a      *)
(* frame that fails a check, a heartbeat, a cyclic status.                 *)
NoAnswer == [as |-> "nothing", seq |-> 0, lag |-> 0, res |-> "refused", live |-> FALSE]

TypeOK ==
    /\ od \in OdSlotRec
    /\ nextHandle \in Handle
    /\ seq \in SeqNo
    /\ node \in {"none", "app", "boot"}
    /\ link \subseteq Answer
    /\ burst \in Nat

Init ==
    /\ od = FreeOd
    /\ nextHandle = 1
    /\ seq = 0
    /\ node = "none"
    /\ link = {}
    /\ burst = 0

-----------------------------------------------------------------------------
(* The callers' side of the slot.                                          *)

(* alloc_handle: count up, wrap, skip the invalid handle.                  *)
HandleAfter(h) == IF h = HandleMax THEN 1 ELSE h + 1

(* An answer that outlives its request belongs to nobody.                  *)
Disown(msgs) == {[m EXCEPT !.live = FALSE] : m \in msgs}

(* Variant: a begin that does not look whether the slot is taken.          *)
BeginOverBusy(k) ==
    /\ od' = [FreeOd EXCEPT !.st = "pending", !.handle = nextHandle, !.kind = k]
    /\ nextHandle' = HandleAfter(nextHandle)
    /\ UNCHANGED <<seq, node, link, burst>>

(* cia402_od_read_begin, cia402_od_write_begin, cia402_raw_passthrough_begin. *)
Begin(k) ==
    /\ od.st = "idle"
    /\ od' = [FreeOd EXCEPT !.st = "pending", !.handle = nextHandle, !.kind = k]
    /\ nextHandle' = HandleAfter(nextHandle)
    /\ UNCHANGED <<seq, node, link, burst>>

(* cia402_od_poll and cia402_raw_passthrough_poll, by anyone holding h.    *)
Poll(h) ==
    /\ h = od.handle
    /\ od.st = "complete"
    /\ od' = FreeOd
    /\ UNCHANGED <<nextHandle, seq, node, link, burst>>

(* cia402_od_abort, whatever the slot is doing.                            *)
Abort ==
    /\ od' = FreeOd
    /\ link' = Disown(link)
    /\ burst' = 0
    /\ UNCHANGED <<nextHandle, seq, node>>

-----------------------------------------------------------------------------
(* The exchange.                                                           *)

(* Variant: a one-bit sequence number.                                     *)
SeqAfterOneBit(s) == 1 - (s % 2)

(* s_sequence is a uint16_t that wraps.                                    *)
SeqAfter(s) == IF s = SeqMod - 1 THEN 0 ELSE s + 1

Deadline(k) == IF k = "init" THEN EraseTimeout ELSE RespTimeout

Completed(o, r, mine) ==
    [o EXCEPT !.st = "complete", !.res = r, !.ours = mine, !.age = 0, !.seq = 0]

Sending == od.st = "pending"

(* Variant: the send leaves the deadline of an earlier request in place.   *)
SentUnderOldDeadline(s) ==
    [od EXCEPT !.st = "awaiting", !.seq = s, !.age = EraseTimeout]

(* send_od_read_req and its siblings: the request goes out under number s  *)
(* and its deadline starts.  A request already out has aged by gap.        *)
Sent(s) == [od EXCEPT !.st = "awaiting", !.seq = s, !.age = 0]

(* Variant: any answer of a fitting type is the answer.                    *)
AcceptsAnyNumber(o, rx) ==
    /\ o.st = "awaiting"
    /\ rx.as # "nothing"
    /\ rx.as = "raw" => Raw(o.kind)

(* The response handlers: an answer counts if a request is out, the answer *)
(* carries its number and, for a passthrough response, it is a passthrough.*)
Accepts(o, rx) ==
    /\ o.st = "awaiting"
    /\ rx.as # "nothing"
    /\ rx.seq = o.seq
    /\ rx.as = "raw" => Raw(o.kind)

Received(o, rx) == IF Accepts(o, rx) THEN Completed(o, rx.res, rx.live) ELSE o

(* Variant: only the plain requests have a deadline.                       *)
TimedOutPlainOnly(o, gap) ==
    IF o.st # "awaiting" \/ Raw(o.kind) THEN o
    ELSE IF o.age + gap > Deadline(o.kind) THEN Completed(o, "timeout", TRUE)
    ELSE [o EXCEPT !.age = @ + gap]

(* The request ages, and is given up once it is older than its deadline.   *)
TimedOut(o, gap) ==
    IF o.st # "awaiting" THEN o
    ELSE IF o.age + gap > Deadline(o.kind) THEN Completed(o, "timeout", TRUE)
    ELSE [o EXCEPT !.age = @ + gap]

AfterTransfer(s, rx, gap) ==
    IF Sending THEN TimedOut(Received(Sent(s), rx), 0)
               ELSE TimedOut(Received(od, rx), gap)

(* External: what the motor may prepare on hearing frame s: the answer to  *)
(* a request, or ERROR for any frame it does not like.                     *)
Replies(s, live) ==
    LET forms == {"error"} \cup
                 (IF Sending THEN {IF Raw(od.kind) THEN "raw" ELSE "sdo"} ELSE {})
    IN  {a \in [as : forms, seq : {s}, lag : {0}, res : {"ok", "refused"}, live : {live}] :
             a.as = "error" => a.res = "refused"}

(* Answers left in the motor grow one frame older; one not clocked out     *)
(* within MaxLag frames never is.                                          *)
StillComing(rx) == {[m EXCEPT !.lag = @ + 1] : m \in {m \in link \ {rx} : m.lag < MaxLag}}

(* cia402_tick, gap cycles after the previous one: send, receive, and only *)
(* then look at the deadline.  A heartbeat takes the place of the cyclic   *)
(* command while the motor reports its bootloader; both are "no request".  *)
Tick(gap) ==
    \E rx \in link \cup {NoAnswer} :
        LET s == SeqAfter(seq)
            after == AfterTransfer(s, rx, gap)
            still == after.st = "awaiting"
        IN  /\ seq' = s
            /\ od' = after
            /\ burst' = IF Sending THEN burst + 1 ELSE 0
            /\ UNCHANGED nextHandle
            /\ \/ rx = NoAnswer /\ node' \in {node, "app", "boot"}
               \/ rx # NoAnswer /\ node' = node
            /\ \E said \in {{}} \cup {{a} : a \in Replies(s, Sending /\ still)} :
                   link' = said \cup IF still THEN StillComing(rx)
                                              ELSE Disown(StillComing(rx))

Next ==
    \/ \E k \in Kind : Begin(k)
    \/ \E h \in Handle : Poll(h)
    \/ Abort
    \/ \E gap \in 1..MaxGap : Tick(gap)

Spec == Init /\ [][Next]_vars

(* The super-loop calls cia402_tick on every pass, forever, and time goes on. *)
Ticking == \E gap \in 1..MaxGap : Tick(gap)
FairSpec == Spec /\ WF_vars(Ticking)

-----------------------------------------------------------------------------
(* A finished request is given only its own outcome: a late, repeated or   *)
(* misdirected answer, whatever the frames lost and however often the      *)
(* sequence number wrapped, is never taken for the answer to the request   *)
(* now in the slot (cia402.c, the response handlers' sequence check).      *)
AnswerIsOurs == od.st = "complete" => od.ours

(* A request frame takes the place of one cyclic command, never of two in  *)
(* a row, so callers that keep the slot busy cannot silence the cyclic     *)
(* command the motor watches (cia402.c:406 "it preempts one cyclic cycle").*)
CyclicNotStarved == burst <= 1

(* Every request that was begun finishes or is aborted: nothing the motor  *)
(* or the link does can leave the slot waiting (the deadline in cia402_tick).*)
RequestEnds == od.st \in {"pending", "awaiting"} ~> od.st \in {"complete", "idle"}

(* Frames sent since frame number s, as the wrapping counter shows it.     *)
FramesSince(s) == IF s <= seq THEN seq - s ELSE seq + SeqMod - s

(* Why the sequence check is enough.  A request is out for fewer frames    *)
(* than there are numbers, an answer left in the motor knows its own       *)
(* frame, so equal numbers mean the same frame.                            *)
RequestYoung ==
    od.st = "awaiting" => /\ FramesSince(od.seq) <= od.age
                          /\ od.age <= Deadline(od.kind)
AnswersDated == \A m \in link : FramesSince(m.seq) = m.lag
SameNumberSameRequest ==
    \A m \in link : od.st = "awaiting" /\ m.seq = od.seq => m.live
SlotShape ==
    /\ od.ours
    /\ od.st = "idle" => od = FreeOd
    /\ od.st # "idle" => od.handle \in Handle /\ od.kind \in Kind
    /\ od.st \in {"pending", "awaiting"} => od.res = "none"
    /\ od.st = "complete" => od.res \in Outcome
    /\ burst = IF od.st = "awaiting" /\ od.seq = seq THEN 1 ELSE 0

IInv ==
    /\ TypeOK
    /\ SlotShape
    /\ RequestYoung
    /\ AnswersDated
    /\ SameNumberSameRequest

(* The exchange implements the promise of OdSlot: mapped to the abstract   *)
(* slot, every step is a begin, a finish with this request's own outcome,  *)
(* a collect by the holder of the handle, an abort or no change.           *)
AbstractSlot ==
    [st |-> IF od.st \in {"pending", "awaiting"} THEN "busy" ELSE od.st,
     owner |-> od.handle, req |-> od.kind,
     res |-> IF od.ours THEN od.res ELSE "stranger"]

Service == INSTANCE OdSlot WITH slot <- AbstractSlot, Holder <- Handle,
               NoHolder <- NoHandle, Request <- Kind, NoRequest <- "none"

ServiceSpec == Service!SlotSpec

=============================================================================
