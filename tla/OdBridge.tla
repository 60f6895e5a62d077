------------------------------ MODULE OdBridge ------------------------------
(***************************************************************************)
(* The way of a PC tool's object-dictionary request: the command thread of *)
(* client.py sends it over UDP, app/od answers it at once when the entry   *)
(* is the CMC's own and forwards it to the motor through the one request   *)
(* slot of app/cia402 when it is the motor's.  The answer may come late or *)
(* never, so the client repeats the datagram under the same number, and    *)
(* begins again under a fresh number when it is told that the queue is     *)
(* full.  Several tools may ask at once; axis_manager uses the slot too.   *)
(*                                                                         *)
(* Datagrams keep their order and may be lost, also where a buffer of      *)
(* MaxWire is full.  Each tool has an entry of its own on either board, so *)
(* what it reads and writes there is its own doing.                        *)
(***************************************************************************)
EXTENDS Naturals, Sequences

CONSTANTS
    Peer,           \* the PC tools: an address and port each
    Value,          \* what an entry can hold
    Asks,           \* what each tool asks for
    Tries,          \* RETRANSMIT_TRIES
    Retries,        \* QUEUE_RETRY_TRIES
    MaxSeq,         \* bound: transactions of each tool (the numbers are 16 bits wide)
    MaxWire,        \* bound: datagrams in a buffer
    MaxBoots        \* bound: entries of the motor into its bootloader

Op == [kind : {"read", "write"}, at : {"motor", "cmc"}, val : Value]

ASSUME OdBridgeAssumption ==
    /\ Value # {} /\ Asks \in [Peer -> SUBSET Op]
    /\ Tries \in Nat \ {0} /\ Retries \in Nat
    /\ MaxSeq \in [Peer -> Nat] /\ MaxWire \in Nat \ {0} /\ MaxBoots \in Nat

VARIABLES
    client,     \* each tool's command thread
    inbox,      \* datagrams on their way to the access socket
    replies,    \* datagrams on their way to each tool
    pending,    \* s_pending of app/od
    slot,       \* the request slot of cia402
    got,        \* s_od.resp_data, which counts while the slot is complete
    entry,      \* external: what the entries hold
    boots,      \* external: how often the motor entered its bootloader
    told,       \* history: what the last request of each tool ended with, if well
    sure        \* history: the tools that asked since the motor last restarted

bridgeVars == <<client, inbox, replies, pending, slot, got, entry, boots, told, sure>>

Nothing == [kind |-> "none"]
Datagram == [peer : Peer, seq : Nat, op : Op]

Od == INSTANCE OdSlot WITH Holder <- {"bridge", "others"}, NoHolder <- "none",
          Request <- Datagram \cup {[kind |-> "other"]}, NoRequest <- Nothing

(* What a request is answered with: the result, and the value for an "ok". *)
Response == [res : Od!Result \cup {"queue_full"}, val : Value]
Word == [at : {"motor", "cmc"}, val : Value]

Client == [st : {"idle", "waiting", "backoff"}, op : Op, seq : Nat,
           sent : 0..Tries, attempt : 0..Retries]

Some == CHOOSE v \in Value : TRUE
Idle == [st |-> "idle", op |-> [kind |-> "read", at |-> "cmc", val |-> Some],
         seq |-> 0, sent |-> 0, attempt |-> 0]

BridgeTypeOK ==
    /\ client \in [Peer -> Client]
    /\ inbox \in Seq(Datagram)
    /\ replies \in [Peer -> Seq([seq : Nat, res : Response])]
    /\ pending \in Datagram \cup {Nothing}
    /\ slot \in Od!Slot
    /\ got \in Value
    /\ entry \in [Peer -> [{"motor", "cmc"} -> Value]]
    /\ boots \in 0..MaxBoots
    /\ told \in [Peer -> Word \cup {Nothing}]
    /\ sure \subseteq Peer

BridgeInit ==
    /\ client = [p \in Peer |-> Idle]
    /\ inbox = <<>>
    /\ replies = [p \in Peer |-> <<>>]
    /\ pending = Nothing
    /\ Od!SlotInit
    /\ got = Some
    /\ entry = [p \in Peer |-> [b \in {"motor", "cmc"} |-> Some]]
    /\ boots = 0
    /\ told = [p \in Peer |-> Nothing]
    /\ sure = Peer

InFlight == pending # Nothing

-----------------------------------------------------------------------------
(* client.py: _transaction and _transaction_retry.                         *)

Push(s, d) == IF Len(s) < MaxWire THEN Append(s, d) ELSE s

bridge == <<pending, slot, got, entry, boots>>

Send(p) ==
    inbox' = Push(inbox, [peer |-> p, seq |-> client'[p].seq, op |-> client'[p].op])

(* _next_seq, bounded.                                                     *)
Fresh(s) == s + 1

(* _do_read or _do_write takes a command from the queue.                   *)
Ask(p, op) ==
    /\ client[p].st = "idle" /\ client[p].seq < MaxSeq[p]
    /\ client' = [client EXCEPT ![p] = [st |-> "waiting", op |-> op, seq |-> Fresh(@.seq),
                                        sent |-> 1, attempt |-> 0]]
    /\ Send(p)
    /\ told' = [told EXCEPT ![p] = Nothing]
    /\ sure' = sure \cup {p}
    /\ UNCHANGED <<replies, bridge>>

(* RETRANSMIT_TIMEOUT passes without the answer.                           *)
Repeat(p) ==
    /\ client[p].st = "waiting" /\ client[p].sent < Tries
    /\ client' = [client EXCEPT ![p].sent = @ + 1]
    /\ Send(p)
    /\ UNCHANGED <<replies, told, sure, bridge>>

Ends(p, res, val) ==
    /\ client' = [client EXCEPT ![p] = [Idle EXCEPT !.seq = client[p].seq]]
    /\ told' = [told EXCEPT ![p] =
           IF res = "ok" THEN [at |-> client[p].op.at, val |-> val] ELSE Nothing]

GiveUp(p) ==
    /\ client[p].st = "waiting" /\ client[p].sent = Tries
    /\ Ends(p, "unanswered", Some)
    /\ UNCHANGED <<inbox, replies, sure, bridge>>

(* Variant: whatever comes in is taken for the answer.                     *)
MineAny(p, r) == TRUE

(* The answers of earlier transactions are skipped by their number.        *)
Mine(p, r) == r.seq = client[p].seq

(* is_transient_error of an ERROR datagram.  NOT_READY comes in an ordinary*)
(* response and is final.                                                  *)
Transient(r) == r.res.res = "queue_full"

Hear(p) ==
    /\ client[p].st = "waiting" /\ replies[p] # <<>>
    /\ replies' = [replies EXCEPT ![p] = Tail(@)]
    /\ LET r == Head(replies[p]) IN
       \/ /\ ~Mine(p, r)
          /\ UNCHANGED <<client, told>>
       \/ /\ Mine(p, r) /\ Transient(r) /\ client[p].attempt < Retries
          /\ client' = [client EXCEPT ![p].st = "backoff"]
          /\ UNCHANGED told
       \/ /\ Mine(p, r)
          /\ ~Transient(r) \/ client[p].attempt = Retries
          /\ Ends(p, r.res.res, r.res.val)
    /\ UNCHANGED <<inbox, sure, bridge>>

(* The backoff is over; the bound on numbers ends the transaction instead. *)
AskAgain(p) ==
    /\ client[p].st = "backoff"
    /\ \/ /\ client[p].seq < MaxSeq[p]
          /\ client' = [client EXCEPT ![p] = [st |-> "waiting", op |-> @.op,
                 seq |-> Fresh(@.seq), sent |-> 1, attempt |-> @.attempt + 1]]
          /\ Send(p)
          /\ UNCHANGED told
       \/ /\ client[p].seq = MaxSeq[p]
          /\ Ends(p, "queue_full", Some)
          /\ UNCHANGED inbox
    /\ UNCHANGED <<replies, sure, bridge>>

-----------------------------------------------------------------------------
(* app/od: od_tick answers the request that came back from the motor, then *)
(* takes one datagram.                                                     *)

Done(op, e) == IF op.kind = "write" THEN op.val ELSE e

(* The answer to request d goes to the socket of the tool that asked.      *)
Posted(box, d, res, val) ==
    [box EXCEPT ![d.peer] = Push(@, [seq |-> d.seq, res |-> [res |-> res, val |-> val]])]

(* Variant: a request the motor left unanswered is polled on.              *)
ServedAnswered == InFlight /\ Od!SlotReady("bridge") /\ slot.res # "timeout"

(* cia402_od_poll with the handle of the pending request: an abort took    *)
(* the handle out of use.                                                  *)
Served == InFlight /\ Od!SlotReady("bridge")

(* What service_pending leaves for the datagram that follows.              *)
PendingLeft == IF Served THEN Nothing ELSE pending

(* Variant: the poll does not free the slot.                               *)
SlotLeftTaken == slot

SlotLeft == IF Served THEN Od!FreeSlot ELSE slot

RepliesLeft == IF Served THEN Posted(replies, pending, slot.res, got) ELSE replies

(* cmc_od_read or cmc_od_write: done and answered within the call.         *)
Local(d) ==
    /\ d.op.at = "cmc"
    /\ LET kept == Done(d.op, entry[d.peer]["cmc"]) IN
       /\ entry' = [entry EXCEPT ![d.peer]["cmc"] = kept]
       /\ replies' = Posted(RepliesLeft, d, "ok", kept)
    /\ pending' = PendingLeft /\ slot' = SlotLeft

RetransmitOf(d, q) == q # Nothing /\ q.peer = d.peer /\ q.seq = d.seq

Dropped(d) ==
    /\ d.op.at = "motor" /\ RetransmitOf(d, PendingLeft)
    /\ replies' = RepliesLeft
    /\ pending' = PendingLeft /\ slot' = SlotLeft
    /\ UNCHANGED entry

Refused(d) ==
    /\ d.op.at = "motor" /\ ~RetransmitOf(d, PendingLeft)
    /\ PendingLeft # Nothing \/ SlotLeft.st # "idle"
    /\ replies' = Posted(RepliesLeft, d, "queue_full", Some)
    /\ pending' = PendingLeft /\ slot' = SlotLeft
    /\ UNCHANGED entry

Forward(d) ==
    /\ d.op.at = "motor"
    /\ PendingLeft = Nothing /\ SlotLeft.st = "idle"
    /\ replies' = RepliesLeft
    /\ pending' = d /\ slot' = Od!Asked("bridge", d)
    /\ UNCHANGED entry

OdTick ==
    /\ \/ /\ inbox # <<>>
          /\ inbox' = Tail(inbox)
          /\ LET d == Head(inbox) IN Local(d) \/ Dropped(d) \/ Refused(d) \/ Forward(d)
       \/ /\ inbox = <<>> /\ Served
          /\ replies' = RepliesLeft
          /\ pending' = PendingLeft /\ slot' = SlotLeft
          /\ UNCHANGED <<inbox, entry>>
    /\ got' = IF Served THEN Some ELSE got
    /\ UNCHANGED <<client, boots, told, sure>>

-----------------------------------------------------------------------------
(* The slot's other users, the motor, and the wire.                        *)

(* external: the motor does what it is asked, refuses it, or lets the CMC  *)
(* give up on an answer to something it has done or never got.             *)
MotorEnds ==
    /\ \/ /\ slot.owner = "bridge"
          /\ LET p == slot.req.peer
                 kept == Done(slot.req.op, entry[p]["motor"]) IN
             \/ Od!SlotFinish("ok") /\ got' = kept
                    /\ entry' = [entry EXCEPT ![p]["motor"] = kept]
             \/ Od!SlotFinish("refused") /\ UNCHANGED <<got, entry>>
             \/ Od!SlotFinish("timeout") /\ UNCHANGED got
                    /\ entry' \in {entry, [entry EXCEPT ![p]["motor"] = kept]}
       \/ slot.owner = "others" /\ Od!SlotFinish("ok") /\ UNCHANGED <<got, entry>>
    /\ UNCHANGED <<client, inbox, replies, pending, boots, told, sure>>

OthersBegin ==
    /\ Od!SlotBegin("others", [kind |-> "other"])
    /\ UNCHANGED <<client, inbox, replies, pending, got, entry, boots, told, sure>>

OthersCollect ==
    /\ Od!SlotCollect("others")
    /\ UNCHANGED <<client, inbox, replies, pending, got, entry, boots, told, sure>>

(* The motor shows up in its bootloader: axis_manager_tick throws away     *)
(* what is in the slot and resets its own modules, not app/od.  The motor  *)
(* has restarted, and nothing said of its entries counts any more.         *)
MotorBoots ==
    /\ boots < MaxBoots
    /\ boots' = boots + 1
    /\ Od!SlotAbort
    /\ entry' = [p \in Peer |-> [entry[p] EXCEPT !["motor"] = Some]]
    /\ sure' = {}
    /\ got' = Some
    /\ UNCHANGED <<client, inbox, replies, pending, told>>

(* external: a datagram is lost.                                           *)
Lost ==
    \/ /\ inbox # <<>> /\ inbox' = Tail(inbox)
       /\ UNCHANGED <<client, replies, told, sure, bridge>>
    \/ \E p \in Peer :
       /\ replies[p] # <<>> /\ replies' = [replies EXCEPT ![p] = Tail(@)]
       /\ UNCHANGED <<client, inbox, told, sure, bridge>>

BridgeNext ==
    \/ \E p \in Peer : \E op \in Asks[p] : Ask(p, op)
    \/ \E p \in Peer : Repeat(p) \/ GiveUp(p) \/ Hear(p) \/ AskAgain(p)
    \/ OdTick \/ MotorEnds \/ OthersBegin \/ OthersCollect
    \/ MotorBoots \/ Lost

BridgeSpec == BridgeInit /\ [][BridgeNext]_bridgeVars

(* The loop keeps turning, and a request in the slot ends by its deadline. *)
(* Nothing is asked of the tools, the network or axis_manager.             *)
FairBridgeSpec == BridgeSpec /\ WF_bridgeVars(OdTick) /\ WF_bridgeVars(MotorEnds)

-----------------------------------------------------------------------------
(* Properties.                                                             *)

(* The request in flight is the one in the slot, unless it was thrown      *)
(* away with the slot; and whatever app/od put into the slot, it polls:    *)
(* no answer of the motor stays there uncollected and blocks everybody.    *)
SlotIsWatched ==
    /\ slot.owner = "bridge" => InFlight /\ slot.req = pending
    /\ slot.st = "complete" => slot.res # "none"

Wire == {inbox[i] : i \in DOMAIN inbox}
Outstanding == Wire \cup ({pending} \ {Nothing})
Box(p) == {replies[p][i] : i \in DOMAIN replies[p]}

(* Numbers only grow along a tool's way to the motor and back, and one     *)
(* number is one request: a tool that waits has nothing older in front of  *)
(* its request that could be carried out after it.                         *)
NumbersRise ==
    /\ \A i, j \in DOMAIN inbox :
          i < j /\ inbox[i].peer = inbox[j].peer => inbox[i].seq <= inbox[j].seq
    /\ InFlight => /\ pending.op.at = "motor"
                   /\ \A d \in Wire : d.peer = pending.peer => pending.seq <= d.seq
    /\ \A d \in Outstanding : d.seq <= client[d.peer].seq
    /\ \A p \in Peer : \A r \in Box(p) : r.seq <= client[p].seq

OneNumberOneRequest ==
    \A d \in Outstanding :
        client[d.peer].st # "idle" /\ d.seq = client[d.peer].seq => d.op = client[d.peer].op

(* What a tool was told counts until it asks again; one that backs off has *)
(* a repetition left.                                                      *)
ToldIsOver ==
    \A p \in Peer : /\ client[p].st # "idle" => told[p] = Nothing
                    /\ client[p].st = "backoff" => client[p].attempt < Retries

(* An "ok" with value v is on its way to tool p, who waits for it.         *)
Answered(p, v) ==
    /\ client[p].st = "waiting"
    /\ \/ \E r \in Box(p) : r.seq = client[p].seq /\ r.res = [res |-> "ok", val |-> v]
       \/ /\ slot.owner = "bridge" /\ slot.st = "complete" /\ slot.res = "ok" /\ got = v
          /\ pending.peer = p /\ pending.seq = client[p].seq

Promised(p, b, v) ==
    told[p] = [at |-> b, val |-> v] \/ (Answered(p, v) /\ client[p].op.at = b)

(* Entry b of tool p is v, and nothing outstanding makes it another.       *)
Settled(p, b, v) ==
    (b = "motor" => p \in sure) =>
        /\ entry[p][b] = v
        /\ \A d \in Outstanding : d.peer = p /\ d.op.at = b => Done(d.op, v) = v

PromisesHold ==
    \A p \in Peer, v \in Value :
        /\ Answered(p, v) => Done(client[p].op, v) = v
        /\ \A b \in {"motor", "cmc"} : Promised(p, b, v) => Settled(p, b, v)

BridgeInv ==
    /\ BridgeTypeOK /\ SlotIsWatched
    /\ NumbersRise /\ OneNumberOneRequest /\ ToldIsOver /\ PromisesHold

(* A tool that was told "ok" of a write, or a value by a read, was told of *)
(* that very request and not of an earlier one, and nothing it had sent    *)
(* before undoes it: no repetition of an older datagram is still to be     *)
(* carried out.  So the entry holds what the tool was told until it asks   *)
(* for something else, or the motor restarts.                              *)
ToldHolds ==
    \A p \in Peer : told[p] # Nothing /\ (told[p].at = "motor" => p \in sure) =>
        entry[p][told[p].at] = told[p].val

(* A request in flight comes to its end and makes room for the next; only  *)
(* one thrown away with the slot may not.                                  *)
Orphaned == InFlight /\ slot.owner # "bridge"
PendingEnds == InFlight ~> (~InFlight \/ Orphaned)

(* axis_manager.c:1100 has every sub-module that holds a handle reset when *)
(* the motor enters its bootloader.  So the bridge gets free again.        *)
BridgeGetsFree == InFlight ~> ~InFlight

=============================================================================
