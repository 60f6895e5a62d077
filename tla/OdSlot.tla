------------------------------- MODULE OdSlot -------------------------------
(***************************************************************************)
(* What app/cia402 promises the modules above it: one object-dictionary    *)
(* request to the motor at a time.  A caller begins a request and gets a   *)
(* handle, the request finishes with the motor's answer or with NOT_READY, *)
(* and the slot becomes free again only when the handle is polled, or when *)
(* cia402_od_abort throws the request away.                                *)
(*                                                                         *)
(* Frames, sequence numbers, deadlines and lost answers are below this     *)
(* level: Cia402.tla has them and is shown to implement this module.  The  *)
(* modules that use the slot are built on the operators defined here.      *)
(***************************************************************************)
CONSTANTS
    Holder,     \* what a handle stands for: a handle number, or the client that holds it
    NoHolder,   \* CIA402_OD_HANDLE_INVALID
    Request,    \* what is asked of the motor
    NoRequest

VARIABLE slot

(* "ok" and "refused" are the motor's word on this very request; "timeout" *)
(* is NOT_READY reported by the host, after which nothing is known of what *)
(* the motor did.                                                          *)
Result == {"ok", "refused", "timeout"}

Slot == [st : {"idle", "busy", "complete"},
         owner : Holder \cup {NoHolder},
         req : Request \cup {NoRequest},
         res : Result \cup {"none"}]

FreeSlot == [st |-> "idle", owner |-> NoHolder, req |-> NoRequest, res |-> "none"]

SlotInit == slot = FreeSlot

SlotFree == slot.st = "idle"

Asked(h, q) == [st |-> "busy", owner |-> h, req |-> q, res |-> "none"]

(* A begin call that finds the slot free.  One that does not returns the   *)
(* invalid handle and changes nothing.                                     *)
SlotBegin(h, q) ==
    /\ SlotFree
    /\ slot' = Asked(h, q)

(* The request ends, with an answer or by the deadline.                    *)
SlotFinish(r) ==
    /\ slot.st = "busy"
    /\ slot' = [st |-> "complete", owner |-> slot.owner, req |-> slot.req, res |-> r]

(* A poll by the holder of the live handle, once the request has ended.    *)
SlotReady(h) == slot.st = "complete" /\ slot.owner = h

SlotCollect(h) ==
    /\ SlotReady(h)
    /\ slot' = FreeSlot

SlotAbort == slot' = FreeSlot

SlotNext ==
    \/ \E h \in Holder, q \in Request : SlotBegin(h, q)
    \/ \E r \in Result : SlotFinish(r)
    \/ \E h \in Holder : SlotCollect(h)
    \/ SlotAbort

SlotSpec == SlotInit /\ [][SlotNext]_slot

=============================================================================
