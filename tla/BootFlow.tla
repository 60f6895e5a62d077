------------------------------ MODULE BootFlow ------------------------------
(***************************************************************************)
(* The firmware update of the CMC from end to end: the PC tool             *)
(* (Interface/gui/mc_gui/firmware_update.py, target "cmc"), the bootloader *)
(* (boot/), the application's side of it (app/boot_meta and the objects    *)
(* 0x3018, 0x3006 and 0x1F5x of app/od), and the two places in flash they  *)
(* meet in: the application region and the boot flag.                      *)
(*                                                                         *)
(* The tool runs one transaction after another, each with a fresh sequence *)
(* number and up to Tries copies of its request.  A datagram may be lost,  *)
(* or late: the tool has given up waiting, it has not left the network.    *)
(* The board may be reset at any time and its flash may refuse a write.    *)
(*                                                                         *)
(* An image is the sequence of its chunks.  Its CRC-32 is the image: two   *)
(* images with one CRC are left out, and so is an image that fills the     *)
(* whole region, whose CRC the bootloader finds again after a restart.     *)
(***************************************************************************)
EXTENDS Naturals, Sequences, FiniteSets

CONSTANTS
    Chunks,       \* segments of the new image
    Tries,        \* retries of _send_recv (DOWNLOAD_INIT is sent once)
    Boards,       \* subset of {"used", "blank"}: has it ever been programmed?
    MaxWire,      \* bound: requests in the network
    MaxLosses,    \* bound: datagrams lost
    MaxFaults,    \* bound: writes the flash refuses or garbles
    MaxResets,    \* bound: power cycles and crashes
    MaxUpdates    \* bound: runs of the tool

ASSUME BootAssumption ==
    /\ Chunks \in Nat \ {0}
    /\ Tries \in Nat \ {0}
    /\ Boards \subseteq {"used", "blank"}

VARIABLES
    board,     \* "app" runs, "boot" runs, or "dead": code that serves nobody
    app,       \* the application region
    stay,      \* the boot flag reads STAY
    good,      \* the new image works
    fstate,    \* s_state of boot_flash
    session,   \* s_in_session
    expect,    \* s_expected_toggle
    counted,   \* s_bytes_written, in chunks
    step,      \* where run() is
    sent,      \* chunks the tool has had acknowledged
    tries,     \* copies of the current request still to send
    outcome,   \* how the last run ended
    updates,   \* counter of MaxUpdates
    wire,      \* the requests in the network
    answer,    \* the answer to the current request
    losses, faults, resets,  \* counters of the bounds
    armed,     \* history: the board was programmed, or asked to its bootloader
    motorServed  \* history: a motor in its bootloader did what was meant for the CMC

flash == <<app, stay, good>>
ram == <<fstate, session, expect, counted>>
client == <<step, sent, tries, outcome, updates>>
bounds == <<losses, faults, resets>>
vars == <<board, flash, ram, client, wire, answer, bounds, armed, motorServed>>

-----------------------------------------------------------------------------
(* Images.                                                                 *)

Old == <<0>>                            \* what a used board runs
Garbled == Chunks + 1                   \* a chunk that is not what was sent
New == [i \in 1..Chunks |-> i]

Runs(image) == image = Old \/ (image = New /\ good)

(* boot_jump_to_app goes wherever the first words of the region point to.  *)
Jump(image) == IF Runs(image) THEN "app" ELSE "dead"

(* main(): app_image_looks_valid looks at the first word only.             *)
Restarted(image, flag) ==
    IF ~flag /\ image # <<>> THEN Jump(image) ELSE "boot"

-----------------------------------------------------------------------------
(* The tool.                                                               *)

Outcome == {"uptodate", "complete", "unconfirmed", "failed"}
Step == {"idle", "probe", "enter", "wait", "abort", "init", "seg", "verify",
         "crc", "drop", "commit", "confirm"}

OpOf(st) ==
    CASE st \in {"probe", "crc"} -> "crc"         \* read  0x1F56:1
      [] st = "enter" -> "enter"                  \* write 0x3018
      [] st = "wait" -> "status"                  \* read  0x1F57:1
      [] st \in {"abort", "drop"} -> "abort"      \* write 0x1F51:1
      [] st = "confirm" -> "ping"                 \* read  0x3006
      [] OTHER -> st

Op == {OpOf(st) : st \in Step \ {"idle"}}
Request == [op : Op, chunk : 0..Chunks, mine : BOOLEAN, copy : 0..Tries]

Toggle(chunk) == (chunk + 1) % 2
IsLast(chunk) == chunk = Chunks

(* Variant: a refused INIT is sent again.                                  *)
AfterInitAgain(a) == IF a = "ok" THEN {"seg"} ELSE {"init"}

(* What is transient (is_transient_error) is tried again, for a while.     *)
AfterInit(a) ==
    CASE a = "ok" -> {"seg"} [] a = "busy" -> {"init", "failed"} [] OTHER -> {"failed"}

(* The segment is repeated when the toggle that comes back is not its own. *)
AfterSegment(a) ==
    IF a = "other" THEN {"seg"}
    ELSE IF a = "busy" THEN {"seg", "failed"}
    ELSE IF a # "ok" THEN {"failed"}
    ELSE IF IsLast(sent + 1) THEN {"verify"} ELSE {"seg"}

(* Variant: the CRC is read and not compared.                              *)
AfterCrcUnread(a) == IF a \in {"ok", "other"} THEN {"commit"} ELSE {"failed"}

(* A CRC of 0 is not compared (firmware_update.py:401), and counts as "ok". *)
AfterCrc(a) ==
    IF a = "ok" THEN {"commit"} ELSE IF a = "other" THEN {"drop"} ELSE {"failed"}

(* What run() does next when the transaction of st ends with answer a; a   *)
(* is "none" when no copy was answered.  Two successors: the loops of      *)
(* _wait_for_bootloader and _wait_for_app, until their time is over.       *)
After(st, a) ==
    CASE st = "probe"   -> IF a = "ok" THEN {"uptodate"} ELSE {"enter"}
      [] st = "enter"   -> {"wait"}
      [] st = "wait"    -> IF a = "ok" THEN {"abort"} ELSE {"wait", "failed"}
      [] st = "abort"   -> IF a = "ok" THEN {"init"} ELSE {"failed"}
      [] st = "init"    -> AfterInit(a)
      [] st = "seg"     -> AfterSegment(a)
      [] st = "verify"  -> IF a = "ok" THEN {"crc"} ELSE {"failed"}
      [] st = "crc"     -> AfterCrc(a)
      [] st = "drop"    -> {"failed"}
      [] st = "commit"  -> {"confirm"}
      [] st = "confirm" -> IF a = "ok" THEN {"complete"} ELSE {"confirm", "unconfirmed"}
      [] OTHER          -> {}

TriesOf(st) == IF st = "init" THEN 1 ELSE Tries

(* The next transaction: copies of the requests before it are late now.    *)
Fresh(st, datagrams) ==
    /\ step' = st
    /\ tries' = TriesOf(st)
    /\ answer' = "none"
    /\ wire' = {[d EXCEPT !.mine = FALSE] : d \in datagrams}

(* The operator starts the tool.  An unanswered INIT or COMMIT has cost    *)
(* the run before it 15 s: by now its datagram has left the network.       *)
Begin ==
    /\ step = "idle" /\ updates < MaxUpdates
    /\ Fresh("probe", {d \in wire : d.op \notin {"init", "commit"}})
    /\ sent' = 0
    /\ outcome' = "none"
    /\ updates' = updates + 1
    /\ UNCHANGED <<board, flash, ram, bounds, armed, motorServed>>

(* _send_recv sends a copy, at first and whenever its timeout is over.     *)
Send ==
    /\ step # "idle" /\ answer = "none" /\ tries > 0
    /\ Cardinality(wire) < MaxWire
    /\ wire' = wire \cup {[op |-> OpOf(step), mine |-> TRUE, copy |-> tries,
                           chunk |-> IF step = "seg" THEN sent + 1 ELSE 0]}
    /\ tries' = tries - 1
    /\ UNCHANGED <<board, flash, ram, step, sent, outcome, updates, answer, bounds,
                   armed, motorServed>>

(* The transaction ends: an answer is there, or the last timeout is over.  *)
Proceed ==
    /\ step # "idle"
    /\ answer # "none" \/ tries = 0
    /\ \E next \in After(step, answer) :
         /\ Fresh(IF next \in Outcome THEN "idle" ELSE next, wire)
         /\ outcome' = IF next \in Outcome THEN next ELSE outcome
    /\ sent' = IF step = "seg" /\ answer = "ok" THEN sent + 1
               ELSE IF step = "init" THEN 0 ELSE sent
    /\ UNCHANGED <<board, flash, ram, updates, bounds, armed, motorServed>>

-----------------------------------------------------------------------------
(* The board receives d.                                                   *)

(* The answer a to d: it counts while d's transaction waits for one.       *)
Reply(d, a) ==
    \/ /\ d.mine /\ answer = "none"
       /\ answer' = a
       /\ UNCHANGED losses
    \/ /\ d.mine /\ answer = "none" /\ losses < MaxLosses
       /\ losses' = losses + 1
       /\ UNCHANGED answer
    \/ /\ ~d.mine \/ answer # "none"
       /\ UNCHANGED <<answer, losses>>

Taken(at, d, op) ==
    /\ board = at /\ d.op = op
    /\ wire' = wire \ {d}
    /\ UNCHANGED <<client, good, resets>>

Refuses == faults < MaxFaults /\ faults' = faults + 1

(* Variant: the CRC of the bytes as they came, not of the flash.           *)
BootCrcCounts(d) ==
    /\ Taken("boot", d, "crc")
    /\ Reply(d, IF counted = Chunks THEN "ok" ELSE "other")
    /\ UNCHANGED <<board, app, stay, ram, faults, armed, motorServed>>

(* 0x1F56: the CRC of what was written since INIT; of the whole region,    *)
(* erased pages included, when nothing was.                                *)
BootCrc(d) ==
    /\ Taken("boot", d, "crc")
    /\ Reply(d, IF counted = Chunks /\ app = New THEN "ok" ELSE "other")
    /\ UNCHANGED <<board, app, stay, ram, faults, armed, motorServed>>

(* Reads of 0x1F57 and PROG_VERIFY, which verifies nothing.                *)
BootAgrees(d) ==
    /\ Taken("boot", d, "status") \/ Taken("boot", d, "verify")
    /\ Reply(d, "ok")
    /\ UNCHANGED <<board, app, stay, ram, faults, armed, motorServed>>

BootAbort(d) ==
    /\ Taken("boot", d, "abort")
    /\ Reply(d, "ok")
    /\ fstate' = "idle" /\ session' = FALSE /\ expect' = 0 /\ counted' = 0
    /\ UNCHANGED <<board, app, stay, faults, armed, motorServed>>

(* 0x3018 and 0x3006 are the application's objects.                        *)
BootNoObject(d) ==
    /\ Taken("boot", d, "enter") \/ Taken("boot", d, "ping")
    /\ Reply(d, "no")
    /\ UNCHANGED <<board, app, stay, ram, faults, armed, motorServed>>

(* A session is open, or a download was completed: that leaves the state   *)
(* at "programming", which only an abort or a restart ends.                *)
InitRefused == session \/ fstate = "programming"

BootInitRefused(d) ==
    /\ Taken("boot", d, "init")
    /\ InitRefused
    /\ Reply(d, "no")
    /\ UNCHANGED <<board, app, stay, ram, faults, armed, motorServed>>

BootInit(d) ==
    /\ Taken("boot", d, "init")
    /\ ~InitRefused
    /\ Reply(d, "ok")
    /\ app' = <<>>
    /\ fstate' = "programming" /\ session' = TRUE /\ expect' = 0 /\ counted' = 0
    /\ UNCHANGED <<board, stay, faults, armed, motorServed>>

BootEraseFails(d) ==
    /\ Taken("boot", d, "init")
    /\ ~InitRefused
    /\ Refuses
    /\ Reply(d, "no")
    /\ app' \in {app, <<>>}
    /\ fstate' = "fault"
    /\ UNCHANGED <<board, stay, session, expect, counted, armed, motorServed>>

BootNotReady(d) ==
    /\ Taken("boot", d, "seg")
    /\ ~session
    /\ Reply(d, "no")
    /\ UNCHANGED <<board, app, stay, ram, faults, armed, motorServed>>

(* OK, with the toggle that was expected: nothing is written.              *)
BootRepeat(d) ==
    /\ Taken("boot", d, "seg")
    /\ session /\ Toggle(d.chunk) # expect
    /\ Reply(d, "other")
    /\ UNCHANGED <<board, app, stay, ram, faults, armed, motorServed>>

(* What is written may differ from what was sent: nothing but the CRC of   *)
(* the whole image checks it on its way from the socket into the flash.    *)
BootSegment(d) ==
    /\ Taken("boot", d, "seg")
    /\ session /\ Toggle(d.chunk) = expect /\ counted < Chunks
    /\ Reply(d, "ok")
    /\ \/ app' = Append(app, d.chunk) /\ UNCHANGED faults
       \/ app' = Append(app, Garbled) /\ Refuses
    /\ counted' = counted + 1
    /\ expect' = 1 - expect
    /\ session' = ~IsLast(d.chunk)
    /\ UNCHANGED <<board, stay, fstate, armed, motorServed>>

(* More than INIT announced, or the flash refuses.                         *)
BootWriteFails(d) ==
    /\ Taken("boot", d, "seg")
    /\ session /\ Toggle(d.chunk) = expect
    /\ \/ counted = Chunks /\ UNCHANGED <<counted, faults>>
       \/ counted < Chunks /\ Refuses /\ counted' = counted + 1
    /\ Reply(d, "no")
    /\ fstate' = "fault" /\ session' = FALSE
    /\ UNCHANGED <<board, app, stay, expect, armed, motorServed>>

(* Variant: the bootloader clears the flag as it leaves.                   *)
BootCommitClears(d) ==
    /\ Taken("boot", d, "commit")
    /\ Reply(d, "ok")
    /\ board' = Jump(app)
    /\ stay' = FALSE
    /\ UNCHANGED <<app, ram, faults, armed, motorServed>>

(* PROG_COMMIT: answer, 100 ms, jump.  The flag stays as it is.            *)
BootCommit(d) ==
    /\ Taken("boot", d, "commit")
    /\ Reply(d, "ok")
    /\ board' = Jump(app)
    /\ UNCHANGED <<app, stay, ram, faults, armed, motorServed>>

(* What a reset does: RAM is gone, main() decides.                         *)
Restart ==
    /\ board' = Restarted(app', stay')
    /\ fstate' = "idle" /\ session' = FALSE /\ expect' = 0 /\ counted' = 0

(* boot_meta_enter_bootloader resets before the write is answered.         *)
AppEnters(d) ==
    /\ Taken("app", d, "enter")
    /\ stay' = TRUE /\ app' = app
    /\ Restart
    /\ armed' = TRUE
    /\ UNCHANGED <<answer, losses, faults, motorServed>>

(* The save of the flag has erased it and then failed: no reset.           *)
AppEnterFails(d) ==
    /\ Taken("app", d, "enter")
    /\ Refuses
    /\ stay' = FALSE
    /\ Reply(d, "no")
    /\ UNCHANGED <<board, app, ram, armed, motorServed>>

AppPing(d) ==
    /\ Taken("app", d, "ping")
    /\ Reply(d, "ok")
    /\ UNCHANGED <<board, app, stay, ram, faults, armed, motorServed>>

(* 0x1F5x and the segmented download go to the motor, or nowhere while the *)
(* bridge is busy.  The motor's application answers NOT_BOOTLOADER.  If it *)
(* is in its own bootloader it does what it is asked: its CRC may be that  *)
(* of the image just written into it, or 0, and nothing is assumed of its  *)
(* other answers.                                                          *)
AppForwards(d) ==
    /\ board = "app" /\ d.op \notin {"enter", "ping"}
    /\ Taken("app", d, d.op)
    /\ \/ Reply(d, "no") /\ UNCHANGED motorServed
       \/ Reply(d, "busy") /\ UNCHANGED motorServed
       \/ Reply(d, "ok") /\ motorServed' = TRUE
       \/ Reply(d, "other") /\ motorServed' = TRUE
    /\ UNCHANGED <<board, app, stay, ram, faults, armed>>

Handle(d) ==
    \/ BootCrc(d) \/ BootAgrees(d) \/ BootAbort(d) \/ BootNoObject(d)
    \/ BootInitRefused(d) \/ BootInit(d) \/ BootEraseFails(d)
    \/ BootNotReady(d) \/ BootRepeat(d) \/ BootSegment(d) \/ BootWriteFails(d)
    \/ BootCommit(d)
    \/ AppEnters(d) \/ AppEnterFails(d) \/ AppPing(d) \/ AppForwards(d)

(* Nobody is there to receive d.                                           *)
Unheard(d) ==
    /\ board = "dead"
    /\ wire' = wire \ {d}
    /\ UNCHANGED <<board, flash, ram, client, answer, bounds, armed, motorServed>>

Lose(d) ==
    /\ losses < MaxLosses
    /\ wire' = wire \ {d}
    /\ losses' = losses + 1
    /\ UNCHANGED <<board, flash, ram, client, answer, faults, resets, armed, motorServed>>

-----------------------------------------------------------------------------

(* boot_meta_tick, five seconds after the start; a refused write has       *)
(* erased the flag, which reads as CLEAR too.                              *)
AppHealthy ==
    /\ board = "app" /\ stay
    /\ stay' = FALSE
    /\ UNCHANGED <<board, app, good, ram, client, wire, answer, bounds, armed, motorServed>>

PowerCycle ==
    /\ resets < MaxResets
    /\ resets' = resets + 1
    /\ UNCHANGED flash
    /\ Restart
    /\ UNCHANGED <<client, wire, answer, losses, faults, armed, motorServed>>

Init ==
    /\ \E b \in Boards :
         /\ app = (IF b = "used" THEN Old ELSE <<>>)
         /\ armed = (b = "used")
    /\ stay = FALSE
    /\ good \in BOOLEAN
    /\ board = Restarted(app, FALSE)
    /\ fstate = "idle" /\ session = FALSE /\ expect = 0 /\ counted = 0
    /\ step = "idle" /\ sent = 0 /\ tries = 0 /\ outcome = "none" /\ updates = 0
    /\ wire = {} /\ answer = "none"
    /\ losses = 0 /\ faults = 0 /\ resets = 0
    /\ motorServed = FALSE

Tool == Begin \/ Send \/ Proceed

Next ==
    \/ Tool
    \/ \E d \in wire : Handle(d) \/ Unheard(d) \/ Lose(d)
    \/ AppHealthy
    \/ PowerCycle

Spec == Init /\ [][Next]_vars

(* The tool's timeouts end; the loops of the board run.  The network owes  *)
(* nothing; but the loops that wait end at their deadlines.                *)
Deadline ==
    /\ Proceed
    /\ step' = "idle"

Fairness ==
    /\ WF_vars(Send) /\ WF_vars(Proceed)
    /\ SF_vars(Deadline)
    /\ WF_vars(\E d \in wire : Handle(d) \/ Unheard(d))

FairSpec == Spec /\ Fairness

-----------------------------------------------------------------------------
(* Properties.                                                             *)

TypeOK ==
    /\ board \in {"app", "boot", "dead"}
    /\ app \in Seq(0..Garbled) /\ stay \in BOOLEAN /\ good \in BOOLEAN
    /\ fstate \in {"idle", "programming", "fault"} /\ session \in BOOLEAN
    /\ expect \in {0, 1} /\ counted \in 0..Chunks
    /\ step \in Step /\ sent \in 0..Chunks /\ tries \in 0..Tries
    /\ outcome \in Outcome \cup {"none"} /\ updates \in Nat
    /\ wire \subseteq Request /\ answer \in {"none", "ok", "other", "no", "busy"}
    /\ losses \in Nat /\ faults \in Nat /\ resets \in Nat
    /\ armed \in BOOLEAN /\ motorServed \in BOOLEAN

(* A session writes nothing after its last segment, and is the bootloader's. *)
Closed ==
    /\ session => \A i \in 1..Len(app) : ~IsLast(app[i])
    /\ board = "app" => ~session

(* What runs is in flash.  On an armed board the flag stands while the     *)
(* bootloader runs, and where it does not stand the image works.           *)
Guarded ==
    /\ board = "app" => Runs(app)
    /\ armed /\ ~stay => Runs(app) /\ board # "boot"

(* A copy that is not late belongs to the transaction of the tool's step.  *)
Matched ==
    /\ \A d \in wire : d.mine => d.op = OpOf(step)
    /\ step = "seg" => sent < Chunks

(* INIT is sent once, and once it is answered it is not on the way.        *)
InitOnce ==
    step = "init" =>
      /\ tries <= 1
      /\ \A d \in wire : d.op = "init" =>
           tries = 0 /\ answer = "none" /\ \A e \in wire : e.op = "init" => e = d

(* The new image stands in flash; or the CRC that was compared came from a *)
(* motor in its bootloader, through the image that ran already.            *)
Whole == app = New \/ (motorServed /\ app = Old)

(* From the comparison of the CRC on, the image is whole and no session is *)
(* open; the requests that could change that are not on the way.           *)
Verified == Whole /\ ~session
CommitsFollow ==
    /\ step \in {"probe", "crc"} /\ answer = "ok" => Verified
    /\ step \in {"commit", "confirm"} => Verified
    /\ outcome \in {"uptodate", "complete", "unconfirmed"} => Verified
    /\ \A d \in wire :
         /\ d.op = "commit" =>
              \/ step \in {"commit", "confirm"}
              \/ step = "idle" /\ outcome \in {"complete", "unconfirmed"}
         /\ d.op = "init" => step = "init" \/ (step = "idle" /\ outcome = "failed")
    /\ step # "idle" => outcome = "none"

(* The tool has seen the application answer.                               *)
Seen == outcome = "complete" \/ (step = "confirm" /\ answer = "ok") => Runs(app)

IInv == TypeOK /\ Closed /\ Guarded /\ Matched /\ InitOnce /\ CommitsFollow /\ Seen

(* "Nothing is committed unless every step succeeds" (firmware_update.py,  *)
(* run): the bootloader leaves for the application region, except by a     *)
(* reset, only with the whole new image in it - whatever was lost, late or *)
(* written twice - or, if a motor in its bootloader has answered for the   *)
(* CMC, with the image that was there.                                     *)
CommittedIsWhole ==
    [][board = "boot" /\ board' # "boot" /\ resets' = resets => Whole]_vars

(* The brick-proof property (boot_meta.h, main.c): whatever the update was *)
(* interrupted by, a reset brings up something that answers.  The proviso  *)
(* is the code's: only the application writes STAY, so that a board whose  *)
(* first image is being written has no flag to keep it in its bootloader.  *)
BrickProof == armed => Restarted(app, stay) # "dead"

(* What the operator is told (firmware_update.py:320, 430): after "already *)
(* up to date" and "update complete" the new image stands in flash, or a   *)
(* motor in its bootloader has answered for the CMC; after the latter what *)
(* stands there works.                                                     *)
Told ==
    /\ outcome \in {"uptodate", "complete"} => Whole
    /\ outcome = "complete" => Runs(app)

(* The tool and the bootloader disagree on the toggle: the bootloader has  *)
(* written the segment the tool is at, or one that was late, and the tool  *)
(* repeats it for ever (firmware_update.py:376).  What a motor in its      *)
(* bootloader makes of the segments is not known.                          *)
OutOfStep ==
    /\ step = "seg"
    /\ \/ board = "boot" /\ session /\ Toggle(sent + 1) # expect
       \/ board = "app" /\ motorServed

(* Every run of the tool comes to an end, unless the two fall out of step. *)
UpdateEnds == step # "idle" ~> (step = "idle" \/ OutOfStep)

(* A comment of the tool: its retry "already handles UDP drops", and a     *)
(* run ends with a report (firmware_update.py:372-375).                    *)
UpdateAlwaysEnds == step # "idle" ~> step = "idle"

(* The design's goal 3: an interrupted upload never needs a JTAG probe.    *)
NeverBricked == Restarted(app, stay) # "dead"

(* A comment of the tool (firmware_update.py:241): an OK from 0x1F57 means *)
(* the bootloader is up, as the application would return NOT_BOOTLOADER.   *)
OnlyTheCmcServes == ~motorServed

(* The last report (firmware_update.py:430): "new firmware is running".    *)
NewIsRunning == outcome = "complete" => app = New /\ good
=============================================================================
