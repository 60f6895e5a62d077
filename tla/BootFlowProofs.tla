--------------------------- MODULE BootFlowProofs ---------------------------
(***************************************************************************)
(* Theorems about BootFlow, for images of any length and for any number of *)
(* losses, late datagrams, flash errors, resets and updates.               *)
(***************************************************************************)
EXTENDS BootFlow, TLAPS

USE DEF flash, ram, client, bounds

LEMMA Ops ==
    \A st \in Step :
      /\ st # "idle" => OpOf(st) \in Op
      /\ OpOf(st) = "init" <=> st = "init"
      /\ OpOf(st) = "commit" <=> st = "commit"
      /\ OpOf(st) = "crc" <=> st \in {"probe", "crc"}
      /\ OpOf(st) = "ping" <=> st = "confirm"
      /\ OpOf(st) = "seg" <=> st = "seg"
      /\ OpOf(st) = "idle" <=> st = "idle"
      /\ OpOf(st) # "idle" => st # "idle"
  BY SMT DEF OpOf, Step, Op

Answer == {"none", "ok", "other", "no", "busy"}

(* Where run() may go, as the invariant needs it.                          *)
LEMMA Successors ==
    ASSUME NEW st \in Step, NEW a \in Answer, NEW next \in After(st, a)
    PROVE  /\ next \in Outcome \cup (Step \ {"idle"})
           /\ next \in Outcome => next \notin Step
           /\ st # "idle"
           /\ next = "commit" => st = "crc" /\ a = "ok"
           /\ next = "confirm" => st \in {"commit", "confirm"}
           /\ next = "uptodate" => st = "probe" /\ a = "ok"
           /\ next = "complete" => st = "confirm" /\ a = "ok"
           /\ next = "unconfirmed" => st = "confirm"
           /\ next = "init" => st = "abort" \/ (st = "init" /\ a = "busy")
           /\ next = "seg" => \/ st = "init"
                              \/ st = "seg" /\ (a = "ok" => ~IsLast(sent + 1))
           /\ st = "init" => next \in {"init", "seg", "failed"}
           /\ st = "init" /\ next \in {"init", "seg"} => a # "none"
           /\ st = "commit" => next = "confirm"
           /\ st = "confirm" => next \in {"confirm", "complete", "unconfirmed"}
  BY SMT DEF After, AfterInit, AfterSegment, AfterCrc, Step, Outcome, Answer

LEMMA ImagesDiffer == New # Old /\ Old # <<>> /\ New # <<>> /\ Len(New) = Chunks /\ New[Chunks] = Chunks
  BY BootAssumption DEF New, Old


-----------------------------------------------------------------------------
(* Types.                                                                  *)

TypeBoard ==
    /\ board \in {"app", "boot", "dead"}
    /\ app \in Seq(0..Garbled)
    /\ fstate \in {"idle", "programming", "fault"}
    /\ expect \in {0, 1} /\ counted \in 0..Chunks
    /\ losses \in Nat /\ faults \in Nat /\ resets \in Nat

TypeTool ==
    /\ step \in Step /\ sent \in 0..Chunks /\ tries \in 0..Tries
    /\ outcome \in Outcome \cup {"none"} /\ updates \in Nat
    /\ wire \subseteq Request /\ answer \in Answer

Flags ==
    /\ stay \in BOOLEAN /\ good \in BOOLEAN /\ session \in BOOLEAN
    /\ armed \in BOOLEAN /\ motorServed \in BOOLEAN

LEMMA TypeParts == TypeOK <=> TypeBoard /\ TypeTool /\ Flags
  BY DEF TypeOK, TypeBoard, TypeTool, Flags, Answer

(* The network's part of a handled request.                                *)
LEMMA ReplyKeeps ==
    ASSUME NEW d, NEW a \in Answer, Reply(d, a), answer \in Answer, losses \in Nat
    PROVE  answer' \in Answer /\ losses' \in Nat
  BY DEF Reply

LEMMA AgedTypes ==
    ASSUME NEW D \in SUBSET Request
    PROVE  {[d EXCEPT !.mine = FALSE] : d \in D} \subseteq Request
  BY DEF Request

LEMMA RestartedTypes == \A i, f : Restarted(i, f) \in {"app", "boot", "dead"}
  BY Zenon DEF Restarted, Jump

LEMMA TypeBoardKept ==
    ASSUME TypeBoard, TypeTool, [Next]_vars
    PROVE  TypeBoard'
  <1> USE BootAssumption DEF TypeBoard, TypeTool
  <1>1. CASE Begin \/ Send \/ Proceed
    BY <1>1 DEF Begin, Send, Proceed
  <1>2. ASSUME NEW d \in wire, Handle(d) PROVE TypeBoard'
    <2>1. d \in Request
      OBVIOUS
    <2>2. d.chunk \in 0..Garbled /\ Garbled \in 0..Garbled
      BY <2>1 DEF Request, Garbled
    <2>3. CASE \/ BootCrc(d) \/ BootAgrees(d) \/ BootNoObject(d)
               \/ BootInitRefused(d) \/ BootNotReady(d) \/ BootRepeat(d)
               \/ AppPing(d) \/ AppForwards(d)
      <3>1. losses' \in Nat
        BY <2>3 DEF BootCrc, BootAgrees, BootNoObject, BootInitRefused,
                    BootNotReady, BootRepeat, AppPing, AppForwards, Reply
      <3>2. UNCHANGED <<board, app, ram, faults, resets>>
        BY <2>3, Zenon DEF BootCrc, BootAgrees, BootNoObject, BootInitRefused,
                    BootNotReady, BootRepeat, AppPing, AppForwards, Taken
      <3>3. QED
        BY <3>1, <3>2
    <2>4. CASE BootInit(d) \/ BootEraseFails(d) \/ BootAbort(d)
      <3>1. losses' \in Nat /\ faults' \in Nat
        BY <2>4 DEF BootInit, BootEraseFails, BootAbort, Reply, Refuses
      <3>2. app' \in {app, <<>>} /\ fstate' \in {"idle", "programming", "fault"}
        BY <2>4, Zenon DEF BootInit, BootEraseFails, BootAbort
      <3>3. /\ UNCHANGED <<board, resets>>
            /\ (expect' = 0 /\ counted' = 0) \/ UNCHANGED <<expect, counted>>
        BY <2>4, Zenon DEF BootInit, BootEraseFails, BootAbort, Taken
      <3>4. <<>> \in Seq(0..Garbled) /\ 0 \in 0..Chunks
        OBVIOUS
      <3>5. QED
        BY <3>1, <3>2, <3>3, <3>4
    <2>5. CASE BootSegment(d) \/ BootWriteFails(d)
      <3>1. losses' \in Nat /\ faults' \in Nat
        BY <2>5 DEF BootSegment, BootWriteFails, Reply, Refuses
      <3>2. /\ UNCHANGED <<board, resets>>
            /\ fstate' \in {fstate, "fault"}
            /\ expect' \in {expect, 1 - expect}
        BY <2>5, Zenon DEF BootSegment, BootWriteFails, Taken
      <3>3. app' \in {app, Append(app, d.chunk), Append(app, Garbled)}
        BY <2>5, Zenon DEF BootSegment, BootWriteFails, Taken
      <3>4. counted' \in 0..Chunks
        BY <2>5 DEF BootSegment, BootWriteFails
      <3>5. app' \in Seq(0..Garbled)
        <4>1. \A c \in 0..Garbled : Append(app, c) \in Seq(0..Garbled)
          OBVIOUS
        <4>2. QED
          BY <2>2, <3>3, <4>1, Zenon
      <3>6. expect' \in {0, 1} /\ fstate' \in {"idle", "programming", "fault"}
        BY <3>2
      <3>7. QED
        BY <3>1, <3>2, <3>4, <3>5, <3>6
    <2>6. CASE BootCommit(d)
      BY <2>6 DEF BootCommit, Taken, Reply, Jump
    <2>7. CASE AppEnters(d)
      <3>1. /\ UNCHANGED <<app, losses, faults, resets>>
            /\ board' = Restarted(app', stay')
            /\ fstate' = "idle" /\ expect' = 0 /\ counted' = 0
        BY <2>7, Zenon DEF AppEnters, Taken, Restart
      <3>2. QED
        BY <3>1, RestartedTypes
    <2>8. CASE AppEnterFails(d)
      BY <2>8 DEF AppEnterFails, Taken, Reply, Refuses
    <2>9. QED
      BY <1>2, <2>3, <2>4, <2>5, <2>6, <2>7, <2>8 DEF Handle
  <1>3. ASSUME NEW d \in wire, Unheard(d) \/ Lose(d) PROVE TypeBoard'
    BY <1>3 DEF Unheard, Lose
  <1>4. CASE AppHealthy
    BY <1>4 DEF AppHealthy
  <1>5. CASE PowerCycle
    BY <1>5, RestartedTypes DEF PowerCycle, Restart
  <1>6. CASE UNCHANGED vars
    BY <1>6 DEF vars
  <1>7. QED
    BY <1>1, <1>2, <1>3, <1>4, <1>5, <1>6 DEF Next, Tool

LEMMA TypeToolKept ==
    ASSUME TypeBoard, TypeTool, Matched, [Next]_vars
    PROVE  TypeTool'
  <1> USE BootAssumption DEF TypeTool
  <1>1. CASE Begin
    <2>1. Fresh("probe", {d \in wire : d.op \notin {"init", "commit"}})
      BY <1>1 DEF Begin
    <2>2. wire' \subseteq Request
      BY <2>1, AgedTypes DEF Fresh
    <2>3. QED
      BY <1>1, <2>1, <2>2 DEF Begin, Fresh, TriesOf, Step, Answer
  <1>2. CASE Send
    <2>1. [op |-> OpOf(step), mine |-> TRUE, copy |-> tries,
           chunk |-> IF step = "seg" THEN sent + 1 ELSE 0] \in Request
      BY <1>2, Ops DEF Send, Request, Matched
    <2>2. wire' \subseteq Request
      BY <1>2, <2>1 DEF Send
    <2>3. UNCHANGED <<step, sent, outcome, updates, answer>>
      BY <1>2, Zenon DEF Send
    <2>4. tries' \in 0..Tries
      BY <1>2 DEF Send
    <2>5. QED
      BY <2>2, <2>3, <2>4
  <1>3. CASE Proceed
    <2>1. PICK next \in After(step, answer) :
            /\ Fresh(IF next \in Outcome THEN "idle" ELSE next, wire)
            /\ outcome' = IF next \in Outcome THEN next ELSE outcome
      BY <1>3 DEF Proceed
    <2>2. next \in Outcome \cup (Step \ {"idle"})
      BY Successors
    <2>3. wire' \subseteq Request
      BY <2>1, AgedTypes DEF Fresh
    <2>4. step' \in Step /\ tries' \in 0..Tries /\ answer' \in Answer
      BY <2>1, <2>2 DEF Fresh, TriesOf, Step, Answer
    <2>5. sent' \in 0..Chunks
      BY <1>3 DEF Proceed, Matched
    <2>6. QED
      BY <1>3, <2>1, <2>2, <2>3, <2>4, <2>5 DEF Proceed
  <1>4. ASSUME NEW d \in wire, Handle(d) PROVE TypeTool'
    <2>1. wire' \subseteq wire /\ UNCHANGED client
      BY <1>4 DEF Handle, BootCrc, BootAgrees, BootAbort, BootNoObject, BootInitRefused,
         BootInit, BootEraseFails, BootNotReady, BootRepeat, BootSegment, BootWriteFails,
         BootCommit, AppEnters, AppEnterFails, AppPing, AppForwards, Taken
    <2>2. answer' \in Answer
      BY <1>4 DEF Handle, BootCrc, BootAgrees, BootAbort, BootNoObject, BootInitRefused,
         BootInit, BootEraseFails, BootNotReady, BootRepeat, BootSegment, BootWriteFails,
         BootCommit, AppEnters, AppEnterFails, AppPing, AppForwards, Reply, Answer
    <2>3. QED
      BY <2>1, <2>2
  <1>5. ASSUME NEW d \in wire, Unheard(d) \/ Lose(d) PROVE TypeTool'
    BY <1>5 DEF Unheard, Lose
  <1>6. CASE AppHealthy \/ PowerCycle
    BY <1>6 DEF AppHealthy, PowerCycle
  <1>7. CASE UNCHANGED vars
    BY <1>7 DEF vars
  <1>8. QED
    BY <1>1, <1>2, <1>3, <1>4, <1>5, <1>6, <1>7 DEF Next, Tool

LEMMA FlagsKept ==
    ASSUME Flags, [Next]_vars
    PROVE  Flags'
  <1>1. CASE Tool \/ PowerCycle \/ AppHealthy
    BY <1>1, Zenon DEF Flags, Tool, Begin, Send, Proceed, PowerCycle, AppHealthy, Restart
  <1>2. ASSUME NEW d \in wire, Unheard(d) \/ Lose(d) PROVE Flags'
    BY <1>2, Zenon DEF Flags, Unheard, Lose
  <1>3. ASSUME NEW d \in wire, Handle(d) PROVE Flags'
    <2>1. CASE \/ BootCrc(d) \/ BootAgrees(d) \/ BootAbort(d) \/ BootNoObject(d)
               \/ BootInitRefused(d) \/ BootNotReady(d) \/ BootRepeat(d)
               \/ AppPing(d) \/ AppForwards(d) \/ AppEnters(d) \/ AppEnterFails(d)
      BY <2>1, Zenon DEF Flags, BootCrc, BootAgrees, BootAbort, BootNoObject,
         BootInitRefused, BootNotReady, BootRepeat, AppPing, AppForwards, AppEnters,
         AppEnterFails, Taken, Restart
    <2>2. CASE \/ BootInit(d) \/ BootEraseFails(d) \/ BootSegment(d)
               \/ BootWriteFails(d) \/ BootCommit(d)
      BY <2>2, Zenon DEF Flags, BootInit, BootEraseFails, BootSegment, BootWriteFails,
         BootCommit, Taken
    <2>3. QED
      BY <1>3, <2>1, <2>2, Zenon DEF Handle
  <1>4. CASE UNCHANGED vars
    BY <1>4, Zenon DEF vars, Flags
  <1>5. QED
    BY <1>1, <1>2, <1>3, <1>4, Zenon DEF Next
LEMMA TypeKept ==
    ASSUME TypeOK, Matched, [Next]_vars
    PROVE  TypeOK'
  <1>1. TypeBoard /\ TypeTool /\ Flags
    BY TypeParts
  <1>2. TypeBoard' /\ TypeTool' /\ Flags'
    BY <1>1, TypeBoardKept, TypeToolKept, FlagsKept
  <1>3. QED
    BY <1>2 DEF TypeOK, TypeBoard, TypeTool, Flags, Answer

-----------------------------------------------------------------------------
(* The initial states.                                                     *)

LEMMA InitIInv == Init => IInv
  <1> SUFFICES ASSUME Init PROVE IInv
    OBVIOUS
  <1>1. PICK b \in Boards : app = (IF b = "used" THEN Old ELSE <<>>) /\ armed = (b = "used")
    BY Zenon DEF Init
  <1>2. armed \in BOOLEAN /\ good \in BOOLEAN
    BY <1>1, Zenon DEF Init
  <1>3. app \in Seq(0..Garbled) /\ board \in {"app", "boot", "dead"}
    <2>1. Old \in Seq(0..Garbled) /\ <<>> \in Seq(0..Garbled)
      BY BootAssumption DEF Old, Garbled
    <2>2. Restarted(app, FALSE) \in {"app", "boot", "dead"}
      BY Zenon DEF Restarted, Jump
    <2>3. QED
      BY <1>1, <2>1, <2>2, Zenon DEF Init
  <1>4. TypeOK
    <2>1. TypeBoard
      <3>1. /\ fstate = "idle" /\ expect = 0 /\ counted = 0
            /\ losses = 0 /\ faults = 0 /\ resets = 0
        BY Zenon DEF Init
      <3>2. QED
        BY <1>3, <3>1, BootAssumption DEF TypeBoard
    <2>2. TypeTool
      BY BootAssumption DEF Init, TypeTool, Step, Answer
    <2>3. Flags
      BY <1>2, Zenon DEF Init, Flags
    <2>4. QED
      BY <2>1, <2>2, <2>3, TypeParts
  <1>5. Guarded
    <2>1. CASE armed
      <3>1. app = Old
        BY <1>1, <2>1
      <3>2. board = "app" /\ Runs(app)
        BY <3>1, ImagesDiffer DEF Init, Restarted, Jump, Runs
      <3>3. QED
        BY <3>2 DEF Guarded
    <2>2. CASE ~armed
      <3>1. app = <<>>
        BY <1>1, <2>2
      <3>2. board = "boot"
        BY <3>1 DEF Init, Restarted
      <3>3. QED
        BY <2>2, <3>2 DEF Guarded
    <2>3. QED
      BY <1>2, <2>1, <2>2
  <1>6. Closed /\ Matched /\ InitOnce /\ CommitsFollow /\ Seen
    BY BootAssumption DEF Init, Closed, Matched, InitOnce, CommitsFollow, Seen
  <1>7. QED
    BY <1>4, <1>5, <1>6 DEF IInv

-----------------------------------------------------------------------------
(* The parts of the invariant.                                             *)

(* A request is handled without the tool's doing anything.                 *)
LEMMA Handled ==
    ASSUME NEW d \in wire, Handle(d) \/ Unheard(d) \/ Lose(d)
    PROVE  wire' = wire \ {d} /\ UNCHANGED <<client, good>>
  BY Zenon DEF Handle, BootCrc, BootAgrees, BootAbort, BootNoObject, BootInitRefused,
       BootInit, BootEraseFails, BootNotReady, BootRepeat, BootSegment, BootWriteFails,
       BootCommit, AppEnters, AppEnterFails, AppPing, AppForwards,
       Taken, Unheard, Lose

(* A session writes nothing after its last segment.                        *)
LEMMA NotLastKept ==
    ASSUME TypeOK, Closed, [Next]_vars, session'
    PROVE  \A i \in 1..Len(app') : ~IsLast(app'[i])
  <1> DEFINE Goal == \A i \in 1..Len(app') : ~IsLast(app'[i])
  <1>1. CASE UNCHANGED <<app, session>>
    BY <1>1 DEF Closed
  <1>2. ASSUME NEW d \in wire, BootInit(d) PROVE Goal
    <2>1. app' = <<>>
      BY <1>2, Zenon DEF BootInit
    <2>2. QED
      BY <2>1
  <1>3. ASSUME NEW d \in wire, BootEraseFails(d) PROVE FALSE
    BY <1>3, Zenon DEF BootEraseFails, InitRefused
  <1>4. ASSUME NEW d \in wire, BootSegment(d) PROVE Goal
    <2>1. session /\ ~IsLast(d.chunk) /\ app' \in {Append(app, d.chunk), Append(app, Garbled)}
      BY <1>4, Zenon DEF BootSegment
    <2>2. PICK c : app' = Append(app, c) /\ ~IsLast(c)
      <3>1. ~IsLast(Garbled)
        BY BootAssumption DEF IsLast, Garbled
      <3>2. QED
        BY <2>1, <3>1
    <2>3. ASSUME NEW i \in 1..Len(app') PROVE ~IsLast(app'[i])
      <3>1. \/ i \in 1..Len(app) /\ app'[i] = app[i]
            \/ app'[i] = c
        BY <2>2 DEF TypeOK
      <3>2. QED
        BY <2>1, <2>2, <3>1 DEF Closed
    <2>4. QED
      BY <2>3
  <1>5. ASSUME NEW d \in wire, Handle(d)
        PROVE  \/ UNCHANGED <<app, session>> \/ ~session'
               \/ BootInit(d) \/ BootEraseFails(d) \/ BootSegment(d)
    BY <1>5, Zenon DEF Handle, BootCrc, BootAgrees, BootAbort, BootNoObject, BootInitRefused,
       BootInit, BootEraseFails, BootNotReady, BootRepeat, BootSegment, BootWriteFails,
       BootCommit, AppEnters, AppEnterFails, AppPing, AppForwards, Restart
  <1>6. ASSUME NEW d \in wire, Unheard(d) \/ Lose(d) PROVE UNCHANGED <<app, session>>
    BY <1>6, Zenon DEF Unheard, Lose
  <1>7. CASE Tool \/ AppHealthy \/ UNCHANGED vars
    BY <1>1, <1>7, Zenon DEF Tool, Begin, Send, Proceed, AppHealthy, vars
  <1>8. ~PowerCycle
    BY Zenon DEF PowerCycle, Restart
  <1>9. QED
    BY <1>1, <1>2, <1>3, <1>4, <1>5, <1>6, <1>7, <1>8, Zenon DEF Next

(* The application starts with no session open: the bootloader leaves for  *)
(* it on a commit, which is on the way only when the image is whole.       *)
LEMMA NoSessionKept ==
    ASSUME TypeOK, Closed, CommitsFollow, [Next]_vars, board' = "app"
    PROVE  ~session'
  <1>1. CASE UNCHANGED <<board, session>>
    BY <1>1 DEF Closed
  <1>2. CASE ~session'
    BY <1>2
  <1>3. ASSUME NEW d \in wire, Handle(d) PROVE ~session'
    <2>1. CASE BootCommit(d)
      <3>1. d.op = "commit" /\ session' = session
        BY <2>1, Zenon DEF BootCommit, Taken
      <3>2. ~session
        BY <3>1 DEF CommitsFollow, Verified
      <3>3. QED
        BY <3>1, <3>2
    <2>2. CASE \/ BootInit(d) \/ BootEraseFails(d) \/ BootSegment(d) \/ BootWriteFails(d)
      <3>1. board' = "boot"
        BY <2>2, Zenon DEF BootInit, BootEraseFails, BootSegment, BootWriteFails, Taken
      <3>2. QED
        BY <3>1
    <2>3. CASE ~BootCommit(d) /\ ~BootInit(d) /\ ~BootEraseFails(d) /\ ~BootSegment(d)
               /\ ~BootWriteFails(d)
      <3>1. UNCHANGED <<board, session>> \/ ~session'
        BY <1>3, <2>3, Zenon DEF Handle, BootCrc, BootAgrees, BootAbort, BootNoObject,
           BootInitRefused, BootNotReady, BootRepeat, AppEnters, AppEnterFails, AppPing,
           AppForwards, Restart, Taken
      <3>2. QED
        BY <1>1, <3>1
    <2>4. QED
      BY <2>1, <2>2, <2>3
  <1>4. ASSUME NEW d \in wire, Unheard(d) \/ Lose(d) PROVE UNCHANGED <<board, session>>
    BY <1>4, Zenon DEF Unheard, Lose
  <1>5. CASE Tool \/ AppHealthy \/ UNCHANGED vars
    BY <1>1, <1>5, Zenon DEF Tool, Begin, Send, Proceed, AppHealthy, vars
  <1>6. CASE PowerCycle
    BY <1>6, Zenon DEF PowerCycle, Restart
  <1>7. QED
    BY <1>1, <1>3, <1>4, <1>5, <1>6, Zenon DEF Next

LEMMA ClosedKept ==
    ASSUME TypeOK, Closed, CommitsFollow, [Next]_vars
    PROVE  Closed'
  BY NotLastKept, NoSessionKept DEF Closed

(* What main() starts after a reset, on a board with an invariant flag.    *)
LEMMA RestartGuarded ==
    ASSUME armed' /\ ~stay' => Runs(app)', board' = Restarted(app', stay'), good' = good
    PROVE  Guarded'
  <1>1. CASE ~stay' /\ app' # <<>>
    <2>1. board' = IF Runs(app)' THEN "app" ELSE "dead"
      BY <1>1 DEF Restarted, Jump, Runs, New
    <2>2. QED
      BY <1>1, <2>1 DEF Guarded
  <1>2. CASE stay' \/ app' = <<>>
    <2>1. board' = "boot"
      BY <1>2 DEF Restarted
    <2>2. ~(armed' /\ ~stay')
      <3>1. SUFFICES ASSUME armed' /\ ~stay' PROVE FALSE
        OBVIOUS
      <3>2. app' = <<>> /\ Runs(app)'
        BY <1>2, <3>1
      <3>3. QED
        BY <3>2, ImagesDiffer DEF Runs, New
    <2>3. QED
      BY <2>1, <2>2 DEF Guarded
  <1>3. QED
    BY <1>1, <1>2

LEMMA GuardedKept ==
    ASSUME TypeOK, Guarded, [Next]_vars
    PROVE  Guarded'
  <1>1. CASE UNCHANGED <<board, app, stay, good, armed>>
    BY <1>1 DEF Guarded, Runs
  <1>2. CASE Tool \/ UNCHANGED vars
    <2>1. UNCHANGED <<board, app, stay, good, armed>>
      BY <1>2, Zenon DEF Tool, Begin, Send, Proceed, vars
    <2>2. QED
      BY <2>1, <1>1
  <1>3. CASE AppHealthy
    <2>1. board = "app" /\ UNCHANGED <<board, app, good, armed>>
      BY <1>3, Zenon DEF AppHealthy
    <2>2. QED
      BY <2>1 DEF Guarded, Runs
  <1>4. CASE PowerCycle
    <2>1. board' = Restarted(app', stay') /\ UNCHANGED <<app, stay, good, armed>>
      BY <1>4, Zenon DEF PowerCycle, Restart
    <2>2. armed' /\ ~stay' => Runs(app)'
      BY <2>1 DEF Guarded, Runs
    <2>3. QED
      BY <2>1, <2>2, RestartGuarded
  <1>5. ASSUME NEW d \in wire, Unheard(d) \/ Lose(d) PROVE Guarded'
    <2>1. UNCHANGED <<board, app, stay, good, armed>>
      BY <1>5, Zenon DEF Unheard, Lose
    <2>2. QED
      BY <2>1, <1>1
  <1>6. ASSUME NEW d \in wire, Handle(d) PROVE Guarded'
    <2>1. CASE \/ BootCrc(d) \/ BootAgrees(d) \/ BootAbort(d) \/ BootNoObject(d)
               \/ BootInitRefused(d) \/ BootNotReady(d) \/ BootRepeat(d)
               \/ BootWriteFails(d) \/ AppPing(d) \/ AppForwards(d)
      <3>1. UNCHANGED <<board, app, stay, good, armed>>
        BY <2>1, Zenon DEF BootCrc, BootAgrees, BootAbort, BootNoObject, BootInitRefused,
             BootNotReady, BootRepeat, BootWriteFails, AppPing, AppForwards, Taken
      <3>2. QED
        BY <3>1, <1>1
    <2>2. CASE BootInit(d) \/ BootEraseFails(d) \/ BootSegment(d)
      <3>1. board = "boot" /\ UNCHANGED <<board, stay, good, armed>>
        BY <2>2, Zenon DEF BootInit, BootEraseFails, BootSegment, Taken
      <3>2. QED
        BY <3>1 DEF Guarded
    <2>3. CASE BootCommit(d)
      <3>1. board = "boot" /\ board' = Jump(app) /\ UNCHANGED <<app, stay, good, armed>>
        BY <2>3, Zenon DEF BootCommit, Taken
      <3>2. QED
        BY <3>1 DEF Guarded, Jump, Runs
    <2>4. CASE AppEnters(d)
      <3>1. stay' = TRUE /\ board' = Restarted(app', stay') /\ good' = good
        BY <2>4, Zenon DEF AppEnters, Restart, Taken
      <3>2. QED
        BY <3>1, RestartGuarded
    <2>5. CASE AppEnterFails(d)
      <3>1. board = "app" /\ UNCHANGED <<board, app, good, armed>>
        BY <2>5, Zenon DEF AppEnterFails, Taken
      <3>2. QED
        BY <3>1 DEF Guarded, Runs
    <2>6. QED
      BY <1>6, <2>1, <2>2, <2>3, <2>4, <2>5, Zenon DEF Handle
  <1>7. QED
    BY <1>2, <1>3, <1>4, <1>5, <1>6, Zenon DEF Next

(* After Fresh every datagram is late.                                     *)
LEMMA AllLate ==
    ASSUME NEW st, NEW D \in SUBSET Request, Fresh(st, D)
    PROVE  /\ \A d \in wire' : d.mine = FALSE
           /\ step' = st /\ answer' = "none"
  BY DEF Fresh, Request

LEMMA SameOps ==
    ASSUME NEW st, NEW D \in SUBSET Request, Fresh(st, D), NEW d \in wire'
    PROVE  \E e \in D : d.op = e.op
  BY DEF Fresh, Request

LEMMA MatchedKept ==
    ASSUME TypeOK, Matched, [Next]_vars
    PROVE  Matched'
  <1>1. CASE Begin
    <2>1. PICK D \in SUBSET Request : Fresh("probe", D)
      BY <1>1 DEF Begin, TypeOK
    <2>2. (\A d \in wire' : d.mine = FALSE) /\ step' = "probe"
      BY <2>1, AllLate
    <2>3. QED
      BY <2>2 DEF Matched
  <1>2. CASE Send
    <2>1. /\ UNCHANGED <<step, sent>>
          /\ \A d \in wire' : d \in wire \/ d.op = OpOf(step)
      BY <1>2 DEF Send
    <2>2. QED
      BY <2>1 DEF Matched
  <1>3. CASE Proceed
    <2>1. PICK next \in After(step, answer) :
            Fresh(IF next \in Outcome THEN "idle" ELSE next, wire)
      BY <1>3 DEF Proceed
    <2>2. \A d \in wire' : d.mine = FALSE
      BY <2>1, AllLate DEF TypeOK
    <2>3. ASSUME step' = "seg" PROVE sent' < Chunks
      <3>1. next = "seg"
        BY <2>1, <2>3 DEF Fresh
      <3>2. CASE step = "init"
        BY <1>3, <3>2, BootAssumption DEF Proceed
      <3>3. CASE step = "seg" /\ answer # "ok"
        BY <1>3, <3>3 DEF Proceed, Matched
      <3>4. CASE step = "seg" /\ answer = "ok"
        <4>1. ~IsLast(sent + 1)
          BY <3>1, <3>4, Successors DEF TypeOK, Answer
        <4>2. QED
          BY <1>3, <3>4, <4>1, BootAssumption DEF Proceed, Matched, IsLast, TypeOK
      <3>5. QED
        BY <3>1, <3>2, <3>3, <3>4, Successors DEF TypeOK, Answer
    <2>4. QED
      BY <2>2, <2>3 DEF Matched
  <1>4. ASSUME NEW d \in wire, Handle(d) \/ Unheard(d) \/ Lose(d) PROVE Matched'
    BY <1>4, Handled DEF Matched
  <1>5. CASE AppHealthy \/ PowerCycle \/ UNCHANGED vars
    <2>1. UNCHANGED <<wire, step, sent>>
      BY <1>5, Zenon DEF AppHealthy, PowerCycle, vars
    <2>2. QED
      BY <2>1 DEF Matched
  <1>6. QED
    BY <1>1, <1>2, <1>3, <1>4, <1>5, Zenon DEF Next, Tool

(* The whole image stays, until an INIT is carried out.                    *)
LEMMA VerifiedKept ==
    ASSUME TypeOK, Verified, [Next]_vars, \A d \in wire : d.op # "init"
    PROVE  Verified' /\ app' = app
  <1> DEFINE Stays == /\ app' = app
                      /\ session' = session \/ session' = FALSE
                      /\ motorServed' = motorServed \/ motorServed' = TRUE
  <1>1. ASSUME Tool \/ AppHealthy \/ UNCHANGED vars PROVE Stays
    BY <1>1, Zenon DEF Tool, Begin, Send, Proceed, AppHealthy, vars
  <1>2. ASSUME PowerCycle PROVE Stays
    BY <1>2, Zenon DEF PowerCycle, Restart
  <1>3. ASSUME NEW d \in wire, Unheard(d) \/ Lose(d) PROVE Stays
    BY <1>3, Zenon DEF Unheard, Lose
  <1>4. ASSUME NEW d \in wire, Handle(d) PROVE Stays
    <2>1. ~session /\ d.op # "init"
      BY DEF Verified
    <2>2. ~BootInit(d) /\ ~BootEraseFails(d) /\ ~BootSegment(d) /\ ~BootWriteFails(d)
      BY <2>1, Zenon DEF BootInit, BootEraseFails, BootSegment, BootWriteFails, Taken
    <2>3. QED
      BY <1>4, <2>2, Zenon DEF Handle, BootCrc, BootAgrees, BootAbort, BootNoObject,
         BootInitRefused, BootNotReady, BootRepeat, BootCommit, AppEnters, AppEnterFails,
         AppPing, AppForwards, Restart
  <1>5. Stays
    BY <1>1, <1>2, <1>3, <1>4, Zenon DEF Next
  <1>6. Whole'
    <2>1. app' = app /\ (motorServed => motorServed')
      BY <1>5
    <2>2. QED
      BY <2>1, Zenon DEF Verified, Whole, New, Old
  <1>7. QED
    <2>1. app' = app /\ ~session'
      BY <1>5 DEF Verified
    <2>2. QED
      BY <1>6, <2>1 DEF Verified

(* The CRC of the new image is answered when it stands in flash, and then  *)
(* the session is over, or by a motor through an image that works.         *)
LEMMA CrcIsVerified ==
    ASSUME TypeOK, Closed, Guarded, NEW d \in wire, Handle(d), d.op = "crc",
           answer # "ok", answer' = "ok"
    PROVE  Verified'
  <1>1. BootCrc(d) \/ AppForwards(d)
    BY Zenon DEF Handle, BootCrc, BootAgrees, BootAbort, BootNoObject, BootInitRefused,
       BootInit, BootEraseFails, BootNotReady, BootRepeat, BootSegment, BootWriteFails,
       BootCommit, AppEnters, AppEnterFails, AppPing, AppForwards, Taken
  <1>2. CASE BootCrc(d)
    <2>1. app = New /\ UNCHANGED <<app, session>>
      BY <1>2 DEF BootCrc, Reply
    <2>2. ~session
      BY <2>1, ImagesDiffer, BootAssumption DEF Closed, IsLast
    <2>3. QED
      BY <2>1, <2>2, Zenon DEF Verified, Whole, New
  <1>3. CASE AppForwards(d)
    <2>1. board = "app" /\ motorServed' /\ UNCHANGED <<app, session>>
      BY <1>3 DEF AppForwards, Reply
    <2>2. ~session /\ (app = Old \/ app = New)
      BY <2>1, Zenon DEF Closed, Guarded, Runs
    <2>3. QED
      BY <2>1, <2>2, Zenon DEF Verified, Whole, New, Old
  <1>4. QED
    BY <1>1, <1>2, <1>3

(* Only a copy of the current transaction is answered.                     *)
LEMMA OnlyMineAnswers ==
    ASSUME NEW d \in wire, Handle(d), answer' # answer
    PROVE  d.mine /\ answer = "none"
  BY Zenon DEF Handle, BootCrc, BootAgrees, BootAbort, BootNoObject, BootInitRefused,
       BootInit, BootEraseFails, BootNotReady, BootRepeat, BootSegment, BootWriteFails,
       BootCommit, AppEnters, AppEnterFails, AppPing, AppForwards, Reply

(* "ok" to a ping comes from an application that runs.                     *)
LEMMA PingIsSeen ==
    ASSUME NEW d \in wire, Handle(d), d.op = "ping", answer' = "ok", answer # "ok"
    PROVE  board = "app"
  <1>1. BootNoObject(d) \/ AppPing(d)
    BY Zenon DEF Handle, BootCrc, BootAgrees, BootAbort, BootNoObject, BootInitRefused,
       BootInit, BootEraseFails, BootNotReady, BootRepeat, BootSegment, BootWriteFails,
       BootCommit, AppEnters, AppEnterFails, AppPing, AppForwards, Taken
  <1>2. CASE BootNoObject(d)
    BY <1>2 DEF BootNoObject, Reply
  <1>3. CASE AppPing(d)
    BY <1>3 DEF AppPing, Taken
  <1>4. QED
    BY <1>1, <1>2, <1>3

(* The tool's part of CommitsFollow, and the network's.                    *)
AtRest == outcome \in {"uptodate", "complete", "unconfirmed"} => Verified
AtWork == /\ step \in {"probe", "crc"} /\ answer = "ok" => Verified
          /\ step \in {"commit", "confirm"} => Verified
Routed ==
    \A d \in wire :
      /\ d.op = "commit" =>
           \/ step \in {"commit", "confirm"}
           \/ step = "idle" /\ outcome \in {"complete", "unconfirmed"}
      /\ d.op = "init" => step = "init" \/ (step = "idle" /\ outcome = "failed")
Working == step # "idle" => outcome = "none"

LEMMA CommitsParts == CommitsFollow <=> AtWork /\ AtRest /\ Routed /\ Working
  BY DEF CommitsFollow, AtWork, AtRest, Routed, Working

LEMMA RoutedKept ==
    ASSUME TypeOK, InitOnce, Routed, Working, [Next]_vars
    PROVE  Routed' /\ Working'
  <1>1. CASE Begin
    <2>1. \A d \in wire' : \E e \in {r \in wire : r.op \notin {"init", "commit"}} : d.op = e.op
      <3>1. {d \in wire : d.op \notin {"init", "commit"}} \in SUBSET Request
        BY DEF TypeOK
      <3>2. Fresh("probe", {d \in wire : d.op \notin {"init", "commit"}})
        BY <1>1 DEF Begin
      <3>3. QED
        BY <3>1, <3>2, SameOps
    <2>2. outcome' = "none"
      BY <1>1 DEF Begin
    <2>3. QED
      BY <2>1, <2>2 DEF Routed, Working
  <1>2. CASE Send
    <2>1. /\ UNCHANGED <<step, outcome>> /\ step # "idle"
          /\ \A d \in wire' : d \in wire \/ d.op = OpOf(step)
      BY <1>2 DEF Send
    <2>2. QED
      BY <2>1, Ops DEF Routed, Working, TypeOK
  <1>3. CASE Proceed
    <2>1. PICK next \in After(step, answer) :
            /\ Fresh(IF next \in Outcome THEN "idle" ELSE next, wire)
            /\ outcome' = IF next \in Outcome THEN next ELSE outcome
      BY <1>3 DEF Proceed
    <2>2. /\ \A d \in wire' : \E e \in wire : d.op = e.op
          /\ step' = IF next \in Outcome THEN "idle" ELSE next
      <3>1. wire \in SUBSET Request
        BY DEF TypeOK
      <3>2. PICK st : Fresh(st, wire) /\ st = (IF next \in Outcome THEN "idle" ELSE next)
        BY <2>1
      <3>3. ASSUME NEW d \in wire' PROVE \E e \in wire : d.op = e.op
        BY <3>1, <3>2, SameOps
      <3>4. QED
        BY <3>2, <3>3 DEF Fresh
    <2>3. step # "idle" /\ outcome = "none"
      BY <1>3 DEF Proceed, Working
    <2>4. \A e \in wire : /\ e.op = "commit" => step \in {"commit", "confirm"}
                          /\ e.op = "init" => step = "init"
      BY <2>3 DEF Routed
    <2>5. /\ step = "init" => next \in {"init", "seg", "failed"}
          /\ step = "commit" => next = "confirm"
          /\ step = "confirm" => next \in {"confirm", "complete", "unconfirmed"}
      BY Successors DEF TypeOK, Answer
    <2>6. \A d \in wire' :
             /\ d.op = "commit" => step \in {"commit", "confirm"}
             /\ d.op = "init" => step = "init" /\ answer = "none" /\ tries = 0
      <3>1. \A e \in wire : e.op = "init" => step = "init" /\ answer = "none" /\ tries = 0
        BY <2>4 DEF InitOnce
      <3>2. ASSUME NEW d \in wire'
            PROVE  /\ d.op = "commit" => step \in {"commit", "confirm"}
                   /\ d.op = "init" => step = "init" /\ answer = "none" /\ tries = 0
        <4>1. PICK e \in wire : d.op = e.op
          BY <2>2
        <4>2. e.op = "commit" => step \in {"commit", "confirm"}
          BY <2>4, Zenon
        <4>3. e.op = "init" => step = "init" /\ answer = "none" /\ tries = 0
          BY <3>1, Zenon
        <4>4. QED
          BY <4>1, <4>2, <4>3
      <3>3. QED
        BY <3>2
    <2>7. CASE next \in Outcome
      BY <2>1, <2>2, <2>5, <2>6, <2>7 DEF Routed, Working, Outcome
    <2>8. CASE next \notin Outcome
      <3>1. step' = next /\ outcome' = "none" /\ next # "failed" /\ next # "idle"
        BY <2>1, <2>2, <2>3, <2>8, Successors DEF Outcome, TypeOK, Answer
      <3>2. step = "init" => answer # "none"
        BY <2>5, <3>1, Successors DEF TypeOK, Answer
      <3>3. step \in {"commit", "confirm"} => next = "confirm"
        BY <2>5, <2>8 DEF Outcome
      <3>4. \A d \in wire' : (d.op = "commit" => next = "confirm") /\ d.op # "init"
        BY <2>6, <3>2, <3>3
      <3>5. QED
        BY <3>1, <3>4 DEF Routed, Working
    <2>9. QED
      BY <2>7, <2>8
  <1>4. ASSUME NEW d \in wire, Handle(d) \/ Unheard(d) \/ Lose(d) PROVE Routed' /\ Working'
    BY <1>4, Handled DEF Routed, Working
  <1>5. CASE AppHealthy \/ PowerCycle \/ UNCHANGED vars
    <2>1. UNCHANGED <<wire, step, outcome>>
      BY <1>5, Zenon DEF AppHealthy, PowerCycle, vars
    <2>2. QED
      BY <2>1 DEF Routed, Working
  <1>6. QED
    BY <1>1, <1>2, <1>3, <1>4, <1>5, Zenon DEF Next, Tool

LEMMA InitOnceKept ==
    ASSUME TypeOK, Matched, InitOnce, Routed, [Next]_vars
    PROVE  InitOnce'
  <1> USE BootAssumption
  <1>1. CASE Begin
    BY <1>1, Zenon DEF Begin, Fresh, InitOnce
  <1>2. CASE Send
    <2>1. SUFFICES ASSUME step = "init" PROVE InitOnce'
      BY <1>2 DEF Send, InitOnce
    <2>2. tries = 1 /\ tries' = 0 /\ answer' = "none"
      BY <1>2, <2>1 DEF Send, InitOnce, TypeOK
    <2>3. \A d \in wire : d.op # "init"
      BY <2>1, <2>2 DEF InitOnce
    <2>4. PICK c : wire' = wire \cup {c}
      BY <1>2 DEF Send
    <2>5. QED
      BY <2>2, <2>3, <2>4 DEF InitOnce
  <1>3. CASE Proceed
    <2>1. PICK next \in After(step, answer) :
            Fresh(IF next \in Outcome THEN "idle" ELSE next, wire)
      BY <1>3 DEF Proceed
    <2>2. SUFFICES ASSUME step' = "init" PROVE InitOnce'
      BY DEF InitOnce
    <2>3. next = "init"
      BY <2>1, <2>2 DEF Fresh
    <2>4. step = "abort" \/ (step = "init" /\ answer = "busy")
      BY <2>3, Successors DEF TypeOK, Answer
    <2>5. \A e \in wire : e.op # "init"
      BY <2>4 DEF Routed, InitOnce
    <2>6. Fresh("init", wire) /\ wire \in SUBSET Request
      BY <2>1, <2>3 DEF Outcome, TypeOK
    <2>7. ASSUME NEW d \in wire' PROVE d.op # "init"
      BY <2>5, <2>6, SameOps
    <2>8. tries' = 1
      BY <2>6 DEF Fresh, TriesOf
    <2>9. QED
      BY <2>7, <2>8 DEF InitOnce
  <1>4. ASSUME NEW d \in wire, Handle(d) \/ Unheard(d) \/ Lose(d) PROVE InitOnce'
    <2>1. SUFFICES ASSUME step = "init" PROVE InitOnce'
      BY <1>4, Handled DEF InitOnce
    <2>2. wire' = wire \ {d} /\ UNCHANGED <<step, tries>>
      BY <1>4, Handled
    <2>3. CASE d.op = "init"
      BY <2>1, <2>2, <2>3 DEF InitOnce
    <2>4. CASE d.op # "init"
      <3>1. ~d.mine
        BY <2>1, <2>4, Ops DEF Matched, TypeOK
      <3>2. answer' = answer
        BY <1>4, <3>1, OnlyMineAnswers DEF Unheard, Lose
      <3>3. QED
        BY <2>2, <3>2 DEF InitOnce
    <2>5. QED
      BY <2>3, <2>4
  <1>5. CASE AppHealthy \/ PowerCycle \/ UNCHANGED vars
    <2>1. UNCHANGED <<wire, step, tries, answer>>
      BY <1>5, Zenon DEF AppHealthy, PowerCycle, vars
    <2>2. QED
      BY <2>1 DEF InitOnce
  <1>6. QED
    BY <1>1, <1>2, <1>3, <1>4, <1>5, Zenon DEF Next, Tool

(* What the tool's steps do to the invariant.                              *)
LEMMA ProceedCommits ==
    ASSUME TypeOK, AtWork, AtRest, Proceed, Guarded, Seen
    PROVE  AtWork' /\ AtRest' /\ Seen'
  <1>1. PICK next \in After(step, answer) :
          /\ Fresh(IF next \in Outcome THEN "idle" ELSE next, wire)
          /\ outcome' = IF next \in Outcome THEN next ELSE outcome
    BY DEF Proceed
  <1>2. /\ step' = IF next \in Outcome THEN "idle" ELSE next
        /\ answer' = "none"
    BY <1>1 DEF Fresh
  <1>3. /\ next \in {"commit", "confirm", "uptodate", "complete", "unconfirmed"} => Verified
        /\ next = "complete" => Runs(app)
    BY Successors DEF TypeOK, Answer, AtWork, Seen
  <1>4. (Verified => Verified') /\ (Runs(app) => Runs(app)')
    BY Zenon DEF Proceed, Verified, Whole, Runs, New, Old
  <1>5. step' \in {"commit", "confirm"} => next \in {"commit", "confirm"}
    BY <1>2
  <1>6. AtWork'
    BY <1>2, <1>3, <1>4, <1>5 DEF AtWork
  <1>7. AtRest'
    BY <1>1, <1>3, <1>4 DEF AtRest
  <1>8. Seen'
    BY <1>1, <1>2, <1>3, <1>4 DEF Seen
  <1>9. QED
    BY <1>6, <1>7, <1>8

LEMMA CommitsKept ==
    ASSUME IInv, [Next]_vars
    PROVE  AtWork' /\ AtRest' /\ Seen'
  <1> USE DEF IInv
  <1>1. AtWork /\ AtRest /\ Routed /\ Working
    BY CommitsParts
  <1>2. CASE Begin
    BY <1>2, Zenon DEF Begin, Fresh, AtWork, AtRest, Seen
  <1>3. CASE Proceed
    BY <1>1, <1>3, ProceedCommits
  <1>4. CASE ~Begin /\ ~Proceed
    <2>1. UNCHANGED <<step, outcome, good>>
      <3>1. CASE Send \/ AppHealthy \/ PowerCycle \/ UNCHANGED vars
        BY <3>1, Zenon DEF Send, AppHealthy, PowerCycle, vars
      <3>2. ASSUME NEW d \in wire, Handle(d) \/ Unheard(d) \/ Lose(d)
            PROVE  UNCHANGED <<step, outcome, good>>
        BY <3>2, Handled
      <3>3. QED
        BY <1>4, <3>1, <3>2, Zenon DEF Next, Tool
    <2>2. ASSUME answer' = "ok", answer # "ok"
          PROVE  \E d \in wire : Handle(d) /\ d.op = OpOf(step)
      <3>1. PICK d \in wire : Handle(d)
        <4>1. ~(AppHealthy \/ PowerCycle \/ UNCHANGED vars \/ Send)
          BY <2>2 DEF AppHealthy, PowerCycle, vars, Send
        <4>2. \A d \in wire : ~Unheard(d) /\ ~Lose(d)
          BY <2>2 DEF Unheard, Lose
        <4>3. QED
          BY <1>4, <4>1, <4>2, Zenon DEF Next, Tool
      <3>2. d.mine
        BY <2>2, <3>1, OnlyMineAnswers
      <3>3. QED
        BY <3>1, <3>2 DEF Matched
    <2>3. AtWork'
      <3>1. ASSUME step \in {"probe", "crc", "commit", "confirm"}, Verified PROVE Verified'
        <4>1. \A d \in wire : d.op # "init"
          BY <1>1, <3>1 DEF Routed
        <4>2. QED
          BY <3>1, <4>1, VerifiedKept
      <3>2. ASSUME step \in {"probe", "crc"}, answer' = "ok", answer # "ok" PROVE Verified'
        <4>1. PICK d \in wire : Handle(d) /\ d.op = OpOf(step)
          BY <2>2, <3>2
        <4>2. d.op = "crc"
          BY <3>2, <4>1, Ops DEF TypeOK
        <4>3. QED
          BY <3>2, <4>1, <4>2, CrcIsVerified
      <3>3. QED
        BY <1>1, <2>1, <3>1, <3>2 DEF AtWork
    <2>4. AtRest'
      <3>1. SUFFICES ASSUME outcome \in {"uptodate", "complete", "unconfirmed"} PROVE Verified'
        BY <2>1 DEF AtRest
      <3>2. Verified /\ step = "idle"
        BY <1>1, <3>1 DEF AtRest, Working
      <3>3. \A d \in wire : d.op # "init"
        BY <1>1, <3>1, <3>2 DEF Routed
      <3>4. QED
        BY <3>2, <3>3, VerifiedKept
    <2>5. Seen'
      <3>1. SUFFICES ASSUME outcome = "complete" \/ (step = "confirm" /\ answer' = "ok")
                     PROVE  Runs(app)'
        BY <2>1 DEF Seen
      <3>2. Verified /\ \A d \in wire : d.op # "init"
        BY <1>1, <3>1 DEF AtWork, AtRest, Routed, Working
      <3>3. app' = app /\ good' = good
        BY <2>1, <3>2, VerifiedKept
      <3>4. CASE outcome = "complete" \/ answer = "ok"
        BY <3>1, <3>3, <3>4 DEF Seen, Runs, New, Old
      <3>5. CASE outcome # "complete" /\ answer # "ok"
        <4>1. PICK d \in wire : Handle(d) /\ d.op = OpOf(step)
          BY <2>2, <3>1, <3>5
        <4>2. d.op = "ping"
          BY <3>1, <3>5, <4>1, Ops DEF TypeOK
        <4>3. board = "app"
          BY <3>1, <3>5, <4>1, <4>2, PingIsSeen
        <4>4. QED
          BY <3>3, <4>3 DEF Guarded, Runs, New, Old
      <3>6. QED
        BY <3>4, <3>5
    <2>6. QED
      BY <2>3, <2>4, <2>5
  <1>5. QED
    BY <1>2, <1>3, <1>4

-----------------------------------------------------------------------------

LEMMA NextIInv == IInv /\ [Next]_vars => IInv'
  <1> SUFFICES ASSUME IInv, [Next]_vars PROVE IInv'
    OBVIOUS
  <1>1. AtWork /\ AtRest /\ Routed /\ Working
    BY CommitsParts DEF IInv
  <1>2. TypeOK' /\ Closed' /\ Guarded' /\ Matched'
    BY TypeKept, ClosedKept, GuardedKept, MatchedKept DEF IInv
  <1>3. InitOnce' /\ Routed' /\ Working'
    BY <1>1, InitOnceKept, RoutedKept DEF IInv
  <1>4. AtWork' /\ AtRest' /\ Seen'
    BY CommitsKept
  <1>5. CommitsFollow'
    BY <1>3, <1>4 DEF CommitsFollow, AtWork, AtRest, Routed, Working
  <1>6. QED
    BY <1>2, <1>3, <1>4, <1>5 DEF IInv

(* Everything the parts of the invariant say holds for an image of any     *)
(* length, and any number of faults.                                       *)
THEOREM Invariance == Spec => []IInv
  <1>1. Init => IInv
    BY InitIInv
  <1>2. IInv /\ [Next]_vars => IInv'
    BY NextIInv
  <1>3. QED
    BY <1>1, <1>2, PTL DEF Spec

(* The brick-proof property: whatever interrupts an update, an armed board *)
(* comes back with an application that works or with its bootloader.       *)
THEOREM NeverDead == Spec => []BrickProof
  <1>1. IInv => BrickProof
    BY ImagesDiffer DEF IInv, Guarded, BrickProof, Restarted, Jump
  <1>2. QED
    BY <1>1, Invariance, PTL

(* What the operator is told: a whole new image stands in flash, unless a  *)
(* motor in its bootloader has answered for the CMC, and after "update     *)
(* complete" what stands there works.                                      *)
THEOREM ToldTruly == Spec => []Told
  <1>1. IInv => Told
    BY DEF IInv, CommitsFollow, Seen, Verified, Told
  <1>2. QED
    BY <1>1, Invariance, PTL

(* The bootloader jumps into the whole new image, or, if a motor in its    *)
(* bootloader has answered for the CMC, into the image that was there.     *)
THEOREM JumpsIntoWhole == Spec => CommittedIsWhole
  <1>1. ASSUME IInv, [Next]_vars
        PROVE  [board = "boot" /\ board' # "boot" /\ resets' = resets => Whole]_vars
    <2>1. SUFFICES ASSUME Next, board = "boot", board' # "boot", resets' = resets
                   PROVE  Whole
      BY <1>1 DEF vars
    <2>2. ~(Tool \/ AppHealthy)
      BY <2>1 DEF Tool, Begin, Send, Proceed, AppHealthy
    <2>3. ~PowerCycle
      BY <1>1, <2>1 DEF PowerCycle, IInv, TypeOK
    <2>4. \A d \in wire : ~Unheard(d) /\ ~Lose(d)
      BY <2>1 DEF Unheard, Lose
    <2>5. PICK d \in wire : Handle(d)
      BY <2>1, <2>2, <2>3, <2>4, Zenon DEF Next
    <2>6. BootCommit(d)
      BY <2>1, <2>5, Zenon DEF Handle, BootCrc, BootAgrees, BootAbort, BootNoObject, BootInitRefused,
       BootInit, BootEraseFails, BootNotReady, BootRepeat, BootSegment, BootWriteFails,
       BootCommit, AppEnters, AppEnterFails, AppPing, AppForwards, Taken
    <2>7. d.op = "commit"
      BY <2>6 DEF BootCommit, Taken
    <2>8. Verified
      BY <1>1, <2>7 DEF IInv, CommitsFollow
    <2>9. QED
      BY <2>8 DEF Verified
  <1>2. QED
    BY <1>1, Invariance, PTL DEF Spec, CommittedIsWhole
=============================================================================
