--------------------------- MODULE OdAccessProofs -----------------------------
(***************************************************************************)
(* The motor's object dictionary, as app/cia402 and a PC tool reach it.    *)
(* The slot of app/cia402, for every number of sequence numbers and        *)
(* handles and every deadline and lag that CiaAssumption admits: its own   *)
(* outcome for every request, the cyclic command never silenced, the       *)
(* promise of OdSlot implemented.  The tools and the bridge, for all       *)
(* tools, entries, buffers and numbers of repetitions: what a tool was     *)
(* told is so, whatever was lost or repeated.                              *)
(***************************************************************************)
EXTENDS Cia402, OdBridge, SequenceTheorems, TLAPS

-----------------------------------------------------------------------------
(* app/cia402.                                                             *)

(* The wrapping counter: one more frame is one more frame since any frame  *)
(* that is not a whole cycle old, and the frame just numbered is new.      *)
LEMMA OneFrameLater ==
    ASSUME TypeOK, NEW n \in SeqNo, FramesSince(n) + 1 < SeqMod, seq' = SeqAfter(seq)
    PROVE  /\ FramesSince(n)' = FramesSince(n) + 1
           /\ SeqAfter(seq) # n
  BY CiaAssumption DEF TypeOK, SeqNo, FramesSince, SeqAfter

LEMMA NewFrame ==
    ASSUME TypeOK, NEW n, n = SeqAfter(seq), seq' = n
    PROVE  n \in SeqNo /\ FramesSince(n)' = 0
  BY CiaAssumption DEF TypeOK, SeqNo, FramesSince, SeqAfter

LEMMA DeadlineType ==
    ASSUME NEW k
    PROVE  Deadline(k) \in 0..EraseTimeout
  BY CiaAssumption DEF Deadline

LEMMA InitIInv == Init => IInv
  BY CiaAssumption DEF Init, IInv, TypeOK, SlotShape, RequestYoung, AnswersDated,
     SameNumberSameRequest, OdSlotRec, OdState, Handle, Kind, Outcome, SeqNo, FreeOd

LEMMA AnswerFields ==
    ASSUME NEW m \in Answer
    PROVE  /\ m.seq \in SeqNo /\ m.lag \in 0..MaxLag
           /\ [m EXCEPT !.live = FALSE] \in Answer
           /\ [m EXCEPT !.live = FALSE].seq = m.seq
           /\ [m EXCEPT !.live = FALSE].lag = m.lag
           /\ ~ [m EXCEPT !.live = FALSE].live
           /\ m.lag < MaxLag => [m EXCEPT !.lag = @ + 1] \in Answer
           /\ [m EXCEPT !.lag = @ + 1].seq = m.seq
           /\ [m EXCEPT !.lag = @ + 1].lag = m.lag + 1
           /\ [m EXCEPT !.lag = @ + 1].live = m.live
  <1>1. m.seq \in SeqNo /\ m.lag \in 0..MaxLag
    BY DEF Answer
  <1>2. /\ [m EXCEPT !.live = FALSE] \in Answer
        /\ [m EXCEPT !.live = FALSE].seq = m.seq
        /\ [m EXCEPT !.live = FALSE].lag = m.lag
        /\ ~ [m EXCEPT !.live = FALSE].live
    BY DEF Answer
  <1>3. m.lag < MaxLag => m.lag + 1 \in 0..MaxLag
    BY <1>1, CiaAssumption
  <1>4. m.lag < MaxLag => [m EXCEPT !.lag = @ + 1] \in Answer
    BY <1>3 DEF Answer
  <1>5. /\ [m EXCEPT !.lag = @ + 1].seq = m.seq
        /\ [m EXCEPT !.lag = @ + 1].lag = m.lag + 1
        /\ [m EXCEPT !.lag = @ + 1].live = m.live
    BY DEF Answer
  <1>6. QED
    BY <1>1, <1>2, <1>4, <1>5

(* A reply is dated now and carries the number of the frame it answers.    *)
LEMMA ReplyFields ==
    ASSUME NEW s \in SeqNo, NEW live \in BOOLEAN, NEW m \in Replies(s, live)
    PROVE  m \in Answer /\ m.seq = s /\ m.lag = 0 /\ m.live = live
  <1> DEFINE forms == {"error"} \cup
                 (IF Sending THEN {IF Raw(od.kind) THEN "raw" ELSE "sdo"} ELSE {})
  <1>1. m \in [as : forms, seq : {s}, lag : {0}, res : {"ok", "refused"}, live : {live}]
    BY DEF Replies
  <1>2. forms \subseteq {"sdo", "raw", "error"}
    OBVIOUS
  <1>3. 0 \in 0..MaxLag
    BY CiaAssumption
  <1> HIDE DEF forms
  <1>4. QED
    BY <1>1, <1>2, <1>3 DEF Answer

(* What a tick does to the answers under way: whatever is delivered, those *)
(* that stay are one frame older, and the new one is dated now.            *)
LEMMA TickAnswers ==
    ASSUME IInv, NEW gap \in 1..MaxGap, Tick(gap)
    PROVE  /\ link' \subseteq Answer
           /\ AnswersDated'
           /\ \A m \in link' :
                 \/ m.seq = seq' /\ m.lag = 0
                 \/ \E p \in link : m.seq = p.seq /\ m.lag = p.lag + 1
  <1> PICK rx \in link \cup {NoAnswer} : Tick(gap)!(rx)
    BY DEF Tick
  <1> DEFINE s == SeqAfter(seq)
  <1> DEFINE still == AfterTransfer(s, rx, gap).st = "awaiting"
  <1> DEFINE coming == IF still THEN StillComing(rx) ELSE Disown(StillComing(rx))
  <1> PICK said \in {{}} \cup {{a} : a \in Replies(s, Sending /\ still)} :
         link' = said \cup coming
    OBVIOUS
  <1>1. seq' = s
    OBVIOUS
  <1>2. ASSUME NEW m \in said
        PROVE  m \in Answer /\ m.seq = s /\ m.lag = 0
    <2>1. s \in SeqNo
      BY <1>1, NewFrame DEF IInv
    <2>2. (Sending /\ still) \in BOOLEAN
      BY DEF Sending
    <2>3. m \in Replies(s, Sending /\ still)
      OBVIOUS
    <2> HIDE DEF s, still
    <2>4. QED
      BY <2>1, <2>2, <2>3, ReplyFields
  <1>3. ASSUME NEW m \in StillComing(rx)
        PROVE  m \in Answer /\ \E p \in link : m.seq = p.seq /\ m.lag = p.lag + 1
    <2>1. PICK p \in link : p.lag < MaxLag /\ m = [p EXCEPT !.lag = @ + 1]
      BY DEF StillComing
    <2>2. p \in Answer
      BY DEF IInv, TypeOK
    <2>3. QED
      BY <2>1, <2>2, AnswerFields
  <1>4. ASSUME NEW m \in Disown(StillComing(rx))
        PROVE  m \in Answer /\ \E p \in link : m.seq = p.seq /\ m.lag = p.lag + 1
    <2>1. PICK q \in StillComing(rx) : m = [q EXCEPT !.live = FALSE]
      BY DEF Disown
    <2>2. q \in Answer /\ \E p \in link : q.seq = p.seq /\ q.lag = p.lag + 1
      BY <1>3
    <2>3. m \in Answer /\ m.seq = q.seq /\ m.lag = q.lag
      BY <2>1, <2>2, AnswerFields
    <2>4. QED
      BY <2>2, <2>3
  <1>5. /\ link' \subseteq Answer
        /\ \A m \in link' :
              \/ m.seq = seq' /\ m.lag = 0
              \/ \E p \in link : m.seq = p.seq /\ m.lag = p.lag + 1
    <2>1. ASSUME NEW m \in coming
          PROVE  m \in Answer /\ \E p \in link : m.seq = p.seq /\ m.lag = p.lag + 1
      BY <1>3, <1>4
    <2> HIDE DEF s, still, coming
    <2>2. QED
      BY <1>1, <1>2, <2>1
  <1>6. AnswersDated'
    <2> SUFFICES ASSUME NEW m \in link'
                 PROVE  FramesSince(m.seq)' = m.lag
      BY DEF AnswersDated
    <2>1. CASE m.seq = seq' /\ m.lag = 0
      BY <1>1, <2>1, NewFrame DEF IInv
    <2>2. CASE \E p \in link : m.seq = p.seq /\ m.lag = p.lag + 1
      <3>1. PICK p \in link : m.seq = p.seq /\ m.lag = p.lag + 1
        BY <2>2
      <3>2. p.seq \in SeqNo /\ p.lag = FramesSince(p.seq)
        BY DEF IInv, TypeOK, Answer, AnswersDated
      <3>3. m.lag \in 0..MaxLag
        BY <1>5 DEF Answer
      <3>4. FramesSince(p.seq) + 1 < SeqMod
        BY <3>1, <3>2, <3>3, CiaAssumption
      <3>5. QED
        BY <3>1, <3>2, <3>4, <1>1, OneFrameLater DEF IInv
    <2>3. QED
      BY <1>5, <2>1, <2>2
  <1>7. QED
    BY <1>5, <1>6

(* What is received cannot carry the number of the frame being sent.       *)
LEMMA NotThisFrame ==
    ASSUME IInv, NEW m \in link
    PROVE  FramesSince(m.seq) + 1 < SeqMod /\ SeqAfter(seq) # m.seq
  <1>1. m \in Answer
    BY DEF IInv, TypeOK
  <1>2. m.seq \in SeqNo /\ m.lag \in 0..MaxLag
    BY <1>1, AnswerFields
  <1>3. FramesSince(m.seq) + 1 < SeqMod
    BY <1>2, CiaAssumption DEF IInv, AnswersDated
  <1>4. QED
    BY <1>2, <1>3, CiaAssumption DEF IInv, TypeOK, SeqNo, FramesSince, SeqAfter

(* A request on its way out is out after the transfer, dated now.          *)
LEMMA TickSends ==
    ASSUME IInv, NEW gap \in 1..MaxGap, NEW rx \in link \cup {NoAnswer},
           od.st = "pending"
    PROVE  AfterTransfer(SeqAfter(seq), rx, gap) = Sent(SeqAfter(seq))
  <1> DEFINE s == SeqAfter(seq)
  <1>1. /\ od \in OdSlotRec
        /\ od.kind \in Kind
    BY DEF IInv, TypeOK, SlotShape
  <1>2. /\ Sent(s).st = "awaiting" /\ Sent(s).seq = s /\ Sent(s).age = 0
        /\ Sent(s).kind = od.kind
    BY <1>1 DEF Sent, OdSlotRec
  <1>3. ~ Accepts(Sent(s), rx)
    <2>1. CASE rx = NoAnswer
      BY <2>1 DEF Accepts, NoAnswer
    <2>2. CASE rx \in link
      BY <1>2, <2>2, NotThisFrame DEF Accepts
    <2>3. QED
      BY <2>1, <2>2
  <1>4. ~ (0 + 0 > Deadline(od.kind))
    BY DeadlineType, CiaAssumption
  <1>5. [Sent(s) EXCEPT !.age = @ + 0] = Sent(s)
    <2>1. s \in SeqNo /\ 0 \in 0..EraseTimeout
      BY CiaAssumption DEF SeqNo, SeqAfter, IInv, TypeOK
    <2> HIDE DEF s
    <2>2. Sent(s) \in OdSlotRec
      BY <1>1, <2>1 DEF Sent, OdSlotRec, OdState
    <2>3. Sent(s).age + 0 = Sent(s).age
      BY <1>2
    <2>4. QED
      BY <2>2, <2>3 DEF OdSlotRec
  <1> HIDE DEF s
  <1>6. TimedOut(Sent(s), 0) = Sent(s)
    BY <1>2, <1>4, <1>5 DEF TimedOut
  <1>7. QED
    BY <1>3, <1>6 DEF AfterTransfer, Received, Sending, s

(* An awaiting request takes only an answer of its own, or runs out of     *)
(* time, or stays out and ages.                                            *)
LEMMA TickWaits ==
    ASSUME IInv, NEW gap \in 1..MaxGap, NEW rx \in link \cup {NoAnswer},
           od.st = "awaiting"
    PROVE  LET after == AfterTransfer(SeqAfter(seq), rx, gap)
           IN  \/ \E r \in Outcome : after = Completed(od, r, TRUE)
               \/ /\ od.age + gap <= Deadline(od.kind)
                  /\ after = [od EXCEPT !.age = @ + gap]
  <1>1. od \in OdSlotRec
    BY DEF IInv, TypeOK
  <1>2. AfterTransfer(SeqAfter(seq), rx, gap) = TimedOut(Received(od, rx), gap)
    BY DEF AfterTransfer, Sending
  <1>3. CASE Accepts(od, rx)
    <2>1. rx \in link
      BY <1>3 DEF Accepts, NoAnswer
    <2>2. rx \in Answer /\ rx.live
      BY <1>3, <2>1 DEF Accepts, IInv, TypeOK, SameNumberSameRequest, Answer
    <2>3. rx.res \in Outcome /\ rx.live = TRUE
      BY <2>2 DEF Answer, Outcome
    <2>4. Received(od, rx) = Completed(od, rx.res, TRUE)
      BY <1>3, <2>3 DEF Received
    <2>5. Completed(od, rx.res, TRUE).st = "complete"
      BY <1>1 DEF Completed, OdSlotRec
    <2>6. TimedOut(Received(od, rx), gap) = Received(od, rx)
      BY <2>4, <2>5 DEF TimedOut
    <2>7. QED
      BY <1>2, <2>3, <2>4, <2>6
  <1>4. CASE ~ Accepts(od, rx)
    <2>1. Received(od, rx) = od
      BY <1>4 DEF Received
    <2>2. od.age \in Nat /\ Deadline(od.kind) \in Nat /\ gap \in Nat
      BY <1>1, DeadlineType, CiaAssumption DEF OdSlotRec
    <2>3. CASE od.age + gap > Deadline(od.kind)
      <3>1. TimedOut(od, gap) = Completed(od, "timeout", TRUE)
        BY <2>3 DEF TimedOut
      <3>2. QED
        BY <1>2, <2>1, <3>1 DEF Outcome
    <2>4. CASE ~ (od.age + gap > Deadline(od.kind))
      <3>1. TimedOut(od, gap) = [od EXCEPT !.age = @ + gap]
        BY <2>4 DEF TimedOut
      <3>2. AfterTransfer(SeqAfter(seq), rx, gap) = [od EXCEPT !.age = @ + gap]
        BY <1>2, <2>1, <3>1
      <3>3. od.age + gap <= Deadline(od.kind)
        BY <2>2, <2>4
      <3>4. QED
        BY <3>2, <3>3
    <2>5. QED
      BY <2>3, <2>4
  <1>5. QED
    BY <1>3, <1>4

LEMMA TickRests ==
    ASSUME NEW s, NEW rx, NEW gap, od.st \notin {"pending", "awaiting"}
    PROVE  AfterTransfer(s, rx, gap) = od
  BY DEF AfterTransfer, TimedOut, Received, Accepts, Sending

LEMMA TickKeeps ==
    ASSUME IInv, NEW gap \in 1..MaxGap, Tick(gap)
    PROVE  IInv'
  <1> PICK rx \in link \cup {NoAnswer} : Tick(gap)!(rx)
    BY DEF Tick
  <1> DEFINE s == SeqAfter(seq)
  <1> DEFINE after == AfterTransfer(s, rx, gap)
  <1>1. /\ seq' = s
        /\ od' = after
        /\ burst' = IF Sending THEN burst + 1 ELSE 0
        /\ nextHandle' = nextHandle
        /\ node' \in {node, "app", "boot"}
    OBVIOUS
  <1>2. s \in SeqNo /\ seq \in SeqNo
    BY <1>1, NewFrame DEF IInv, TypeOK
  <1>3. od \in OdSlotRec
    BY DEF IInv, TypeOK
  <1>4. link' \subseteq Answer /\ AnswersDated'
    BY TickAnswers
  <1>5. nextHandle' \in Handle /\ node' \in {"none", "app", "boot"} /\ burst' \in Nat
    BY <1>1 DEF IInv, TypeOK
  <1> HIDE DEF s
  <1>6. CASE od.st = "pending"
    <2>1. od' = Sent(s)
      BY <1>1, <1>6, TickSends DEF s
    <2>2. /\ od' \in OdSlotRec
          /\ od'.st = "awaiting" /\ od'.seq = s /\ od'.age = 0
          /\ od'.ours /\ od'.handle \in Handle /\ od'.kind \in Kind /\ od'.res = "none"
      <3>1. od.ours /\ od.handle \in Handle /\ od.kind \in Kind /\ od.res = "none"
        BY <1>6 DEF IInv, SlotShape
      <3>2. 0 \in 0..EraseTimeout
        BY CiaAssumption
      <3>3. od' = [od EXCEPT !.st = "awaiting", !.seq = s, !.age = 0]
        BY <2>1 DEF Sent
      <3>4. QED
        BY <3>1, <3>2, <3>3, <1>2, <1>3 DEF OdSlotRec, OdState
    <2>3. burst' = 1
      BY <1>1, <1>6 DEF Sending, IInv, SlotShape
    <2>4. RequestYoung'
      BY <1>1, <2>2, NewFrame, DeadlineType DEF RequestYoung, IInv, s
    <2>5. ASSUME NEW m \in link', m.seq = s
          PROVE  m.live
      <3>1. PICK said \in {{}} \cup {{a} : a \in Replies(s, Sending /\ after.st = "awaiting")} :
                link' = said \cup IF after.st = "awaiting" THEN StillComing(rx)
                                                          ELSE Disown(StillComing(rx))
        BY DEF s
      <3>2. after.st = "awaiting"
        BY <1>1, <2>2
      <3>3. CASE m \in said
        <4>1. m \in Replies(s, TRUE)
          BY <3>1, <3>2, <3>3, <1>6 DEF Sending
        <4>2. QED
          BY <4>1, <1>2, ReplyFields
      <3>4. CASE m \in StillComing(rx)
        <4>1. PICK p \in link : m = [p EXCEPT !.lag = @ + 1]
          BY <3>4 DEF StillComing
        <4>2. m.seq = p.seq
          BY <4>1, AnswerFields DEF IInv, TypeOK
        <4>3. QED
          BY <4>2, <2>5, NotThisFrame DEF s
      <3>5. QED
        BY <3>1, <3>2, <3>3, <3>4
    <2>6. SameNumberSameRequest'
      BY <2>2, <2>5 DEF SameNumberSameRequest
    <2>7. SlotShape'
      BY <1>1, <2>2, <2>3 DEF SlotShape
    <2>8. QED
      BY <1>1, <1>2, <1>4, <1>5, <2>2, <2>4, <2>6, <2>7 DEF IInv, TypeOK
  <1>7. CASE od.st = "awaiting"
    <2>1. /\ od.seq \in SeqNo /\ od.age \in Nat /\ od.kind \in Kind
          /\ FramesSince(od.seq) <= od.age /\ od.age <= Deadline(od.kind)
          /\ FramesSince(od.seq) \in Nat
      BY <1>3, <1>7, <1>2, CiaAssumption
         DEF OdSlotRec, IInv, RequestYoung, SlotShape, FramesSince, SeqNo
    <2> PICK n \in SeqNo : n = od.seq
      BY <2>1
    <2>2. FramesSince(n) + 1 < SeqMod
      BY <2>1, DeadlineType, CiaAssumption
    <2>3. FramesSince(n)' = FramesSince(n) + 1 /\ s # n
      BY <1>1, <2>2, OneFrameLater DEF IInv, s
    <2>4. burst' = 0
      BY <1>1, <1>7 DEF Sending
    <2>5. CASE \E r \in Outcome : od' = Completed(od, r, TRUE)
      <3>1. PICK r \in Outcome : od' = Completed(od, r, TRUE)
        BY <2>5
      <3>a. 0 \in SeqNo /\ 0 \in 0..EraseTimeout
        BY CiaAssumption DEF SeqNo
      <3>2. /\ od' \in OdSlotRec
            /\ od'.st = "complete" /\ od'.ours /\ od'.res \in Outcome
            /\ od'.handle \in Handle /\ od'.kind \in Kind
        BY <3>1, <3>a, <1>3, <1>7
           DEF Completed, OdSlotRec, OdState, IInv, SlotShape
      <3>3. SlotShape' /\ RequestYoung' /\ SameNumberSameRequest'
        BY <2>4, <3>2 DEF SlotShape, RequestYoung, SameNumberSameRequest
      <3>4. QED
        BY <1>1, <1>2, <1>4, <1>5, <3>2, <3>3 DEF IInv, TypeOK
    <2>6. CASE od.age + gap <= Deadline(od.kind) /\ od' = [od EXCEPT !.age = @ + gap]
      <3>1. od.age + gap \in 0..EraseTimeout
        BY <2>1, <2>6, DeadlineType, CiaAssumption
      <3>2. /\ od' \in OdSlotRec
            /\ od'.st = "awaiting" /\ od'.seq = od.seq /\ od'.age = od.age + gap
            /\ od'.ours /\ od'.res = "none"
            /\ od'.handle \in Handle /\ od'.kind = od.kind /\ od'.kind \in Kind
        BY <2>6, <3>1, <1>3, <1>7 DEF OdSlotRec, IInv, SlotShape
      <3>3. RequestYoung'
        <4>1. FramesSince(n)' <= od'.age
          BY <2>1, <2>3, <3>2, CiaAssumption
        <4>2. od'.seq = n /\ od'.age <= Deadline(od'.kind)
          BY <2>6, <3>2
        <4>3. QED
          BY <4>1, <4>2 DEF RequestYoung, FramesSince, Deadline
      <3>4. ASSUME NEW m \in link', m.seq = od.seq
            PROVE  m.live
        <4>1. PICK said \in {{}} \cup {{a} : a \in Replies(s, Sending /\ after.st = "awaiting")} :
                  link' = said \cup IF after.st = "awaiting" THEN StillComing(rx)
                                                            ELSE Disown(StillComing(rx))
          BY DEF s
        <4>2. after.st = "awaiting"
          BY <1>1, <3>2
        <4>3. CASE m \in said
          <5>1. m \in Replies(s, FALSE)
            BY <4>1, <4>2, <4>3, <1>7 DEF Sending
          <5>2. m.seq = s
            BY <5>1, <1>2, ReplyFields
          <5>3. QED
            BY <5>2, <2>3, <3>4
        <4>4. CASE m \in StillComing(rx)
          <5>1. PICK p \in link : m = [p EXCEPT !.lag = @ + 1]
            BY <4>4 DEF StillComing
          <5>2. m.seq = p.seq /\ m.live = p.live
            BY <5>1, AnswerFields DEF IInv, TypeOK
          <5>3. QED
            BY <5>2, <3>4, <1>7 DEF IInv, SameNumberSameRequest
        <4>5. QED
          BY <4>1, <4>2, <4>3, <4>4
      <3>5. SameNumberSameRequest'
        BY <3>2, <3>4 DEF SameNumberSameRequest
      <3>6. SlotShape'
        BY <1>1, <2>3, <2>4, <3>2 DEF SlotShape
      <3>7. QED
        BY <1>1, <1>2, <1>4, <1>5, <3>2, <3>3, <3>5, <3>6 DEF IInv, TypeOK
    <2>7. QED
      BY <1>1, <1>7, <2>5, <2>6, TickWaits DEF s
  <1>8. CASE od.st \notin {"pending", "awaiting"}
    <2>1. od' = od
      BY <1>1, <1>8, TickRests
    <2>2. SlotShape' /\ RequestYoung' /\ SameNumberSameRequest'
      BY <1>1, <1>8, <2>1
         DEF IInv, SlotShape, RequestYoung, SameNumberSameRequest, Sending
    <2>3. QED
      BY <1>1, <1>2, <1>3, <1>4, <1>5, <2>1, <2>2 DEF IInv, TypeOK
  <1>9. QED
    BY <1>6, <1>7, <1>8

(* IInv holds in every reachable state: the sequence number, wrapping as   *)
(* it does, still names one frame among those that matter.                 *)
THEOREM Invariance == Spec => []IInv
  <1>1. Init => IInv
    BY InitIInv
  <1>2. IInv /\ [Next]_vars => IInv'
    <2> SUFFICES ASSUME IInv, [Next]_vars
                 PROVE  IInv'
      OBVIOUS
    <2>a. FreeOd \in OdSlotRec
      BY CiaAssumption DEF FreeOd, OdSlotRec, OdState, SeqNo, NoHandle
    <2>1. ASSUME NEW k \in Kind, Begin(k)
          PROVE  IInv'
      <3>1. od' = [FreeOd EXCEPT !.st = "pending", !.handle = nextHandle, !.kind = k]
        BY <2>1 DEF Begin
      <3>2. nextHandle \in Handle /\ nextHandle' \in Handle
        BY <2>1, CiaAssumption DEF Begin, IInv, TypeOK, HandleAfter, Handle
      <3>3. /\ od' \in OdSlotRec
            /\ od'.st = "pending" /\ od'.handle \in Handle /\ od'.kind \in Kind
            /\ od'.ours /\ od'.res = "none"
        BY <2>a, <3>1, <3>2 DEF FreeOd, OdSlotRec, OdState
      <3>4. burst = 0 /\ UNCHANGED <<seq, node, link, burst>>
        BY <2>1 DEF Begin, IInv, SlotShape
      <3>5. SlotShape' /\ RequestYoung' /\ SameNumberSameRequest'
        BY <3>3, <3>4 DEF SlotShape, RequestYoung, SameNumberSameRequest
      <3>6. AnswersDated'
        BY <3>4 DEF IInv, AnswersDated, FramesSince
      <3>7. QED
        BY <3>2, <3>3, <3>4, <3>5, <3>6 DEF IInv, TypeOK
    <2>2. ASSUME NEW h \in Handle, Poll(h)
          PROVE  IInv'
      <3>1. od' = FreeOd /\ UNCHANGED <<nextHandle, seq, node, link, burst>>
        BY <2>2 DEF Poll
      <3>2. burst = 0
        BY <2>2 DEF Poll, IInv, SlotShape
      <3>3. SlotShape' /\ RequestYoung' /\ SameNumberSameRequest'
        BY <3>1, <3>2 DEF SlotShape, RequestYoung, SameNumberSameRequest, FreeOd
      <3>4. AnswersDated'
        BY <3>1 DEF IInv, AnswersDated, FramesSince
      <3>5. QED
        BY <2>a, <3>1, <3>3, <3>4 DEF IInv, TypeOK
    <2>3. ASSUME Abort
          PROVE  IInv'
      <3>1. /\ od' = FreeOd /\ link' = Disown(link) /\ burst' = 0
            /\ UNCHANGED <<nextHandle, seq, node>>
        BY <2>3 DEF Abort
      <3>2. ASSUME NEW m \in link'
            PROVE  m \in Answer /\ FramesSince(m.seq) = m.lag
        <4>1. PICK p \in link : m = [p EXCEPT !.live = FALSE]
          BY <3>1 DEF Disown
        <4>2. m \in Answer /\ m.seq = p.seq /\ m.lag = p.lag
          BY <4>1, AnswerFields DEF IInv, TypeOK
        <4>3. QED
          BY <4>2 DEF IInv, AnswersDated
      <3>3. SlotShape' /\ RequestYoung' /\ SameNumberSameRequest'
        BY <3>1 DEF SlotShape, RequestYoung, SameNumberSameRequest, FreeOd
      <3>4. AnswersDated'
        BY <3>1, <3>2 DEF AnswersDated, FramesSince
      <3>5. QED
        BY <2>a, <3>1, <3>2, <3>3, <3>4 DEF IInv, TypeOK
    <2>4. ASSUME NEW gap \in 1..MaxGap, Tick(gap)
          PROVE  IInv'
      BY <2>4, TickKeeps
    <2>5. CASE UNCHANGED vars
      BY <2>5 DEF vars, IInv, TypeOK, SlotShape, RequestYoung, AnswersDated,
         SameNumberSameRequest, FramesSince
    <2>6. QED
      BY <2>1, <2>2, <2>3, <2>4, <2>5 DEF Next
  <1>3. QED
    BY <1>1, <1>2, PTL DEF Spec

(* A late, lost or repeated answer is never taken for the answer to the    *)
(* request in the slot, for every width of the sequence number and every   *)
(* deadline that fits in it.                                               *)
THEOREM OwnAnswer == Spec => []AnswerIsOurs
  <1>1. IInv => AnswerIsOurs
    BY DEF IInv, SlotShape, AnswerIsOurs
  <1>2. QED
    BY <1>1, Invariance, PTL

(* Two request frames never go out in a row: after each the motor gets a   *)
(* cyclic command, or a heartbeat, unless the request is aborted.          *)
THEOREM CyclicKept == Spec => []CyclicNotStarved
  <1>1. IInv => CyclicNotStarved
    BY DEF IInv, SlotShape, CyclicNotStarved
  <1>2. QED
    BY <1>1, Invariance, PTL

(* Cia402 implements OdSlot: every behaviour of the frame exchange is,     *)
(* seen through AbstractSlot, a behaviour of the one-request service.      *)
THEOREM Implements == Spec => ServiceSpec
  <1> USE DEF AbstractSlot
  <1>1. Init => Service!SlotInit
    BY DEF Init, Service!SlotInit, Service!FreeSlot, FreeOd, NoHandle
  <1>2. IInv /\ IInv' /\ [Next]_vars => [Service!SlotNext]_AbstractSlot
    <2> SUFFICES ASSUME IInv, IInv', [Next]_vars
                 PROVE  [Service!SlotNext]_AbstractSlot
      OBVIOUS
    <2>1. ASSUME NEW k \in Kind, Begin(k)
          PROVE  Service!SlotBegin(nextHandle, k) /\ nextHandle \in Handle
      BY <2>1 DEF Begin, Service!SlotBegin, Service!SlotFree, Service!Asked, FreeOd, IInv, TypeOK
    <2>2. ASSUME NEW h \in Handle, Poll(h)
          PROVE  Service!SlotCollect(h)
      BY <2>2 DEF Poll, Service!SlotCollect, Service!SlotReady, Service!FreeSlot,
         FreeOd, NoHandle
    <2>3. ASSUME Abort
          PROVE  Service!SlotAbort
      BY <2>3 DEF Abort, Service!SlotAbort, Service!FreeSlot, FreeOd, NoHandle
    <2>4. ASSUME NEW gap \in 1..MaxGap, Tick(gap)
          PROVE  (\E r \in Outcome : Service!SlotFinish(r)) \/ UNCHANGED AbstractSlot
      <3> PICK rx \in link \cup {NoAnswer} : od' = AfterTransfer(SeqAfter(seq), rx, gap)
        BY <2>4 DEF Tick
      <3>a. od \in OdSlotRec /\ od.ours /\ od'.ours
        BY DEF IInv, TypeOK, SlotShape
      <3>1. CASE od.st = "pending"
        <4>1. od' = Sent(SeqAfter(seq))
          BY <3>1, TickSends
        <4>2. /\ od'.st = "awaiting" /\ od'.handle = od.handle
              /\ od'.kind = od.kind /\ od'.res = od.res
          BY <4>1, <3>a DEF Sent, OdSlotRec
        <4>3. QED
          BY <3>1, <3>a, <4>2
      <3>2. CASE od.st = "awaiting"
        <4>1. CASE \E r \in Outcome : od' = Completed(od, r, TRUE)
          <5>1. PICK r \in Outcome : od' = Completed(od, r, TRUE)
            BY <4>1
          <5>2. /\ od'.st = "complete" /\ od'.handle = od.handle
                /\ od'.kind = od.kind /\ od'.res = r
            BY <5>1, <3>a DEF Completed, OdSlotRec
          <5>3. Service!SlotFinish(r)
            BY <3>2, <3>a, <5>2 DEF Service!SlotFinish
          <5>4. QED
            BY <5>3
        <4>2. CASE od' = [od EXCEPT !.age = @ + gap]
          <5>1. /\ od'.st = "awaiting" /\ od'.handle = od.handle
                /\ od'.kind = od.kind /\ od'.res = od.res
            BY <4>2, <3>2, <3>a DEF OdSlotRec
          <5>2. QED
            BY <3>2, <3>a, <5>1
        <4>3. QED
          BY <3>2, <4>1, <4>2, TickWaits
      <3>3. CASE od.st \notin {"pending", "awaiting"}
        BY <3>3, TickRests
      <3>4. QED
        BY <3>1, <3>2, <3>3
    <2>5. CASE UNCHANGED vars
      BY <2>5 DEF vars
    <2>6. Outcome = Service!Result
      BY DEF Outcome, Service!Result
    <2> HIDE DEF AbstractSlot
    <2>7. QED
      BY <2>1, <2>2, <2>3, <2>4, <2>5, <2>6 DEF Next, Service!SlotNext
  <1>3. QED
    BY <1>1, <1>2, Invariance, PTL DEF Spec, ServiceSpec, Service!SlotSpec

-----------------------------------------------------------------------------
(* The bridge of app/od.                                                   *)

Elems(s) == {s[i] : i \in DOMAIN s}

(* Datagrams of one tool stand in the order of their numbers.              *)
Rising(s) ==
    \A i, j \in DOMAIN s : i < j /\ s[i].peer = s[j].peer => s[i].seq <= s[j].seq

LEMMA ElemsTyped ==
    ASSUME NEW S, NEW s \in Seq(S)
    PROVE  Elems(s) \subseteq S
  BY LenProperties DEF Elems

LEMMA Pushed ==
    ASSUME NEW S, NEW s \in Seq(S), NEW d \in S
    PROVE  /\ Push(s, d) \in Seq(S)
           /\ Elems(Push(s, d)) \subseteq Elems(s) \cup {d}
  <1>1. CASE Len(s) < MaxWire
    <2>1. Append(s, d) \in Seq(S)
      BY AppendProperties
    <2>2. Elems(Append(s, d)) \subseteq Elems(s) \cup {d}
      BY AppendProperties, LenProperties DEF Elems
    <2>3. QED
      BY <1>1, <2>1, <2>2 DEF Push
  <1>2. CASE ~(Len(s) < MaxWire)
    BY <1>2 DEF Push
  <1>3. QED
    BY <1>1, <1>2

LEMMA PushedRises ==
    ASSUME NEW s \in Seq(Datagram), NEW d \in Datagram, Rising(s),
           \A e \in Elems(s) : e.peer = d.peer => e.seq <= d.seq
    PROVE  Rising(Push(s, d))
  <1>1. CASE Len(s) < MaxWire
    <2> DEFINE t == Append(s, d)
    <2>1. /\ DOMAIN s = 1..Len(s) /\ Len(s) \in Nat
          /\ DOMAIN t = 1..(Len(s) + 1)
          /\ \A i \in 1..Len(s) : t[i] = s[i]
          /\ t[Len(s) + 1] = d
      BY AppendProperties, LenProperties
    <2>2. ASSUME NEW i \in DOMAIN t, NEW j \in DOMAIN t, i < j, t[i].peer = t[j].peer
          PROVE  t[i].seq <= t[j].seq
      <3>1. i \in DOMAIN s /\ t[i] = s[i] /\ s[i] \in Elems(s)
        BY <2>1, <2>2 DEF Elems
      <3>2. CASE j \in DOMAIN s
        BY <2>1, <2>2, <3>1, <3>2 DEF Rising
      <3>3. CASE j = Len(s) + 1
        BY <2>1, <2>2, <3>1, <3>3
      <3>4. QED
        BY <2>1, <3>2, <3>3
    <2>3. QED
      BY <1>1, <2>2 DEF Rising, Push
  <1>2. CASE ~(Len(s) < MaxWire)
    BY <1>2 DEF Push
  <1>3. QED
    BY <1>1, <1>2

LEMMA Taken ==
    ASSUME NEW S, NEW s \in Seq(S), s # <<>>
    PROVE  /\ Head(s) \in S /\ Head(s) \in Elems(s)
           /\ Tail(s) \in Seq(S)
           /\ Elems(Tail(s)) \subseteq Elems(s)
  <1>1. Len(s) \in Nat /\ DOMAIN s = 1..Len(s) /\ Len(s) > 0
    BY LenProperties, EmptySeq
  <1>2. Head(s) = s[1] /\ Head(s) \in S /\ Tail(s) \in Seq(S)
    BY HeadTailProperties
  <1>3. /\ DOMAIN Tail(s) = 1..(Len(s) - 1)
        /\ \A i \in 1..(Len(s) - 1) : Tail(s)[i] = s[i + 1]
    BY <1>2, HeadTailProperties, LenProperties
  <1>4. \A i \in 1..(Len(s) - 1) : i + 1 \in DOMAIN s
    BY <1>1
  <1>5. QED
    BY <1>1, <1>2, <1>3, <1>4 DEF Elems

LEMMA TakenRises ==
    ASSUME NEW s \in Seq(Datagram), s # <<>>, Rising(s)
    PROVE  /\ Rising(Tail(s))
           /\ \A e \in Elems(Tail(s)) : e.peer = Head(s).peer => Head(s).seq <= e.seq
  <1>1. Len(s) \in Nat /\ DOMAIN s = 1..Len(s) /\ Len(s) > 0 /\ Head(s) = s[1]
    BY LenProperties, EmptySeq, HeadTailProperties
  <1>2. /\ DOMAIN Tail(s) = 1..(Len(s) - 1)
        /\ \A i \in 1..(Len(s) - 1) : Tail(s)[i] = s[i + 1]
    BY HeadTailProperties, LenProperties
  <1>3. \A i \in 1..(Len(s) - 1) : i + 1 \in DOMAIN s /\ 1 < i + 1
    BY <1>1
  <1>4. Rising(Tail(s))
    BY <1>1, <1>2, <1>3 DEF Rising
  <1>5. \A i \in DOMAIN Tail(s) : Tail(s)[i].peer = s[1].peer => s[1].seq <= Tail(s)[i].seq
    BY <1>1, <1>2, <1>3 DEF Rising
  <1>6. QED
    BY <1>1, <1>4, <1>5 DEF Elems

-----------------------------------------------------------------------------
USE DEF bridge

(* What is in transit is typed, and what is served is the datagram that is *)
(* pending.                                                                *)
LEMMA Transit ==
    ASSUME BridgeTypeOK
    PROVE  /\ Wire = Elems(inbox)
           /\ \A p \in Peer : Box(p) = Elems(replies[p])
           /\ Wire \subseteq Datagram /\ Outstanding \subseteq Datagram
           /\ \A p \in Peer : Box(p) \subseteq [seq : Nat, res : Response]
           /\ InFlight => pending \in Datagram /\ pending \in Outstanding
           /\ Wire \subseteq Outstanding
           /\ Outstanding \subseteq Wire \cup {pending}
           /\ ~InFlight => Outstanding = Wire
  <1>1. Wire = Elems(inbox) /\ \A p \in Peer : Box(p) = Elems(replies[p])
    BY DEF Wire, Box, Elems
  <1>2. Wire \subseteq Datagram
    BY <1>1, LenProperties DEF BridgeTypeOK, Elems
  <1>3. InFlight => pending \in Datagram
    BY DEF BridgeTypeOK, InFlight
  <1>4. ASSUME NEW p \in Peer PROVE Box(p) \subseteq [seq : Nat, res : Response]
    <2>1. replies[p] \in Seq([seq : Nat, res : Response])
      BY DEF BridgeTypeOK
    <2>2. QED
      BY <1>1, <2>1, ElemsTyped
  <1>5. QED
    BY <1>1, <1>2, <1>3, <1>4 DEF Outstanding, InFlight

LEMMA OneNumber ==
    ASSUME NumbersRise
    PROVE  Rising(inbox)
  BY DEF NumbersRise, Rising

LEMMA NothingIsNoWord ==
    ASSUME NEW b, NEW v
    PROVE  Nothing # [at |-> b, val |-> v]
  <1>1. Nothing = [at |-> b, val |-> v] => DOMAIN Nothing = DOMAIN [at |-> b, val |-> v]
    OBVIOUS
  <1>2. DOMAIN Nothing = {"kind"} /\ DOMAIN [at |-> b, val |-> v] = {"at", "val"}
    BY DEF Nothing
  <1>3. QED
    BY <1>1, <1>2

(* What is done is done again without effect.                              *)
LEMMA DoneTwice ==
    ASSUME NEW op \in Op, NEW e \in Value
    PROVE  Done(op, e) \in Value /\ Done(op, Done(op, e)) = Done(op, e)
  BY DEF Done, Op

(* The invariant, by what a step does to the slot, the boxes and the       *)
(* datagrams.                                                              *)
LEMMA NumbersKept ==
    ASSUME BridgeTypeOK, BridgeTypeOK', NumbersRise, Rising(inbox'),
           \A p \in Peer : client[p].seq <= client'[p].seq,
           \A p \in Peer : \A r \in Box(p)' : r \in Box(p) \/ r.seq <= client'[p].seq,
           \A d \in Outstanding' : d \in Outstanding \/ d.seq <= client'[d.peer].seq,
           InFlight' => /\ pending'.op.at = "motor"
                        /\ \A d \in Wire' : d.peer = pending'.peer => pending'.seq <= d.seq
    PROVE  NumbersRise'
  <1>1. \A p \in Peer : client[p].seq \in Nat /\ client'[p].seq \in Nat
    BY DEF BridgeTypeOK, Client
  <1>2. ASSUME NEW d \in Outstanding' PROVE d.seq <= client'[d.peer].seq
    <2>1. CASE d \in Outstanding
      <3>1. d.peer \in Peer /\ d.seq \in Nat
        BY <2>1, Transit DEF Datagram
      <3>2. d.seq <= client[d.peer].seq
        BY <2>1 DEF NumbersRise
      <3>3. QED
        BY <1>1, <3>1, <3>2
    <2>2. QED
      BY <2>1
  <1>3. ASSUME NEW p \in Peer, NEW r \in Box(p)' PROVE r.seq <= client'[p].seq
    <2>1. CASE r \in Box(p)
      <3>1. r.seq \in Nat
        BY <2>1, Transit
      <3>2. r.seq <= client[p].seq
        BY <2>1 DEF NumbersRise
      <3>3. QED
        BY <1>1, <3>1, <3>2
    <2>2. QED
      BY <1>3, <2>1
  <1>4. QED
    BY <1>2, <1>3 DEF NumbersRise, Rising

LEMMA RequestsKept ==
    ASSUME OneNumberOneRequest,
           \A d \in Outstanding' :
               \/ /\ d \in Outstanding
                  /\ client'[d.peer].st # "idle" /\ d.seq = client'[d.peer].seq
                        => /\ client[d.peer].st # "idle" /\ d.seq = client[d.peer].seq
                           /\ client'[d.peer].op = client[d.peer].op
               \/ d.op = client'[d.peer].op
    PROVE  OneNumberOneRequest'
  BY DEF OneNumberOneRequest

(* A promise is kept by a step that gives no new one, leaves the entry as  *)
(* it was promised and sends nothing that would change it.                 *)
LEMMA PromiseKept ==
    ASSUME PromisesHold, NEW p \in Peer, NEW v \in Value,
           Answered(p, v)' => Answered(p, v) /\ client'[p].op = client[p].op,
           told'[p] = Nothing \/ (\A b \in {"motor", "cmc"} :
                told'[p] = [at |-> b, val |-> v] => Promised(p, b, v)),
           p \in sure' => p \in sure \/ \A b \in {"motor", "cmc"} : ~Promised(p, b, v)',
           \A b \in {"motor", "cmc"} :
                Promised(p, b, v) /\ Settled(p, b, v) /\ (b = "motor" => p \in sure')
                => entry'[p][b] = v,
           \A d \in Outstanding' : d.peer = p =>
                d \in Outstanding \/ (d.op = client[p].op /\ Answered(p, v) /\ told[p] = Nothing)
                \/ \A b \in {"motor", "cmc"} : ~Promised(p, b, v)'
    PROVE  /\ Answered(p, v)' => Done(client'[p].op, v) = v
           /\ \A b \in {"motor", "cmc"} : Promised(p, b, v)' => Settled(p, b, v)'
  <1>1. ASSUME Answered(p, v)' PROVE Done(client'[p].op, v) = v
    BY <1>1 DEF PromisesHold
  <1>2. ASSUME NEW b \in {"motor", "cmc"}, Promised(p, b, v)'
        PROVE  Settled(p, b, v)'
    <2>1. Promised(p, b, v)
      BY <1>2 DEF Promised, Nothing
    <2>2. Settled(p, b, v)
      BY <2>1 DEF PromisesHold
    <2>3. SUFFICES ASSUME b = "motor" => p \in sure'
                   PROVE  /\ entry'[p][b] = v
                          /\ \A d \in Outstanding' : d.peer = p /\ d.op.at = b => Done(d.op, v) = v
      BY DEF Settled
    <2>4. entry'[p][b] = v
      BY <2>1, <2>2, <2>3
    <2>5. b = "motor" => p \in sure
      BY <1>2, <2>3
    <2>6. ASSUME NEW d \in Outstanding', d.peer = p, d.op.at = b
          PROVE  Done(d.op, v) = v
      <3>1. CASE d \in Outstanding
        BY <2>2, <2>5, <2>6, <3>1 DEF Settled
      <3>2. CASE d.op = client[p].op /\ Answered(p, v)
        BY <3>2 DEF PromisesHold
      <3>3. QED
        BY <1>2, <2>6, <3>1, <3>2
    <2>7. QED
      BY <2>4, <2>6
  <1>3. QED
    BY <1>1, <1>2

-----------------------------------------------------------------------------
(* The tool.                                                               *)

LEMMA SentBehind ==
    ASSUME BridgeTypeOK, NumbersRise, NEW p \in Peer, NEW d,
           client' \in [Peer -> Client], client[p].seq <= client'[p].seq, Send(p),
           pending' = pending,
           d = [peer |-> p, seq |-> client'[p].seq, op |-> client'[p].op]
    PROVE  /\ d \in Datagram
           /\ inbox' \in Seq(Datagram) /\ Rising(inbox')
           /\ Wire' \subseteq Wire \cup {d} /\ Outstanding' \subseteq Outstanding \cup {d}
  <1>1. d \in Datagram /\ client[p].seq \in Nat
    BY DEF Datagram, Client, BridgeTypeOK
  <1>2. inbox \in Seq(Datagram) /\ inbox' = Push(inbox, d)
    BY DEF BridgeTypeOK, Send
  <1>3. inbox' \in Seq(Datagram) /\ Elems(inbox') \subseteq Elems(inbox) \cup {d}
    BY <1>1, <1>2, Pushed
  <1>4. Wire' \subseteq Wire \cup {d} /\ Outstanding' \subseteq Outstanding \cup {d}
    BY <1>3 DEF Elems, Wire, Outstanding
  <1>5. \A e \in Elems(inbox) : e.peer = d.peer => e.seq <= d.seq
    <2>1. \A e \in Wire : e.seq <= client[e.peer].seq /\ e.seq \in Nat
      BY Transit DEF NumbersRise, Datagram
    <2>2. d.seq = client'[p].seq /\ d.seq \in Nat /\ d.peer = p
      BY <1>1 DEF Datagram
    <2>3. QED
      BY <1>1, <2>1, <2>2, Transit
  <1>6. Rising(inbox')
    BY <1>1, <1>2, <1>5, OneNumber, PushedRises
  <1>7. QED
    BY <1>1, <1>3, <1>4, <1>6

(* A request under a fresh number: nothing of the past answers it.         *)
LEMMA FreshKeeps ==
    ASSUME BridgeInv, NEW p \in Peer, NEW c \in Client,
           c.st = "waiting", c.seq = client[p].seq + 1,
           client' = [client EXCEPT ![p] = c], Send(p),
           told' = [told EXCEPT ![p] = Nothing], sure' \in {sure, sure \cup {p}},
           UNCHANGED <<replies, pending, slot, got, entry, boots>>
    PROVE  BridgeInv'
  <1> DEFINE d == [peer |-> p, seq |-> c.seq, op |-> c.op]
  <1>1. /\ BridgeTypeOK /\ SlotIsWatched /\ NumbersRise /\ OneNumberOneRequest
        /\ ToldIsOver /\ PromisesHold
    BY DEF BridgeInv
  <1>2. client[p].seq \in Nat /\ c.seq \in Nat /\ c.seq > client[p].seq
    BY <1>1 DEF BridgeTypeOK, Client
  <1>3. /\ client' \in [Peer -> Client]
        /\ client'[p] = c /\ \A q \in Peer : q # p => client'[q] = client[q]
    BY <1>1 DEF BridgeTypeOK
  <1>4. /\ d \in Datagram /\ inbox' \in Seq(Datagram) /\ Rising(inbox')
        /\ Wire' \subseteq Wire \cup {d} /\ Outstanding' \subseteq Outstanding \cup {d}
    BY <1>1, <1>2, <1>3, SentBehind
  <1>5. BridgeTypeOK'
    BY <1>1, <1>3, <1>4 DEF BridgeTypeOK
  <1>6. SlotIsWatched'
    BY <1>1 DEF SlotIsWatched, InFlight
  <1>7. \A q \in Peer : Box(q)' = Box(q)
    BY DEF Box
  <1>8. \A q \in Peer : client[q].seq \in Nat /\ client[q].seq <= client'[q].seq
    <2>1. ASSUME NEW q \in Peer
          PROVE  client[q].seq \in Nat /\ client[q].seq <= client'[q].seq
      <3>1. client[q].seq \in Nat
        BY <1>1 DEF BridgeTypeOK, Client
      <3>2. QED
        BY <1>2, <1>3, <3>1
    <2>2. QED
      BY <2>1
  <1>9. NumbersRise'
    <2>1. ASSUME InFlight
          PROVE  /\ pending.op.at = "motor"
                 /\ \A e \in Wire' : e.peer = pending.peer => pending.seq <= e.seq
      <3>1. /\ pending.peer \in Peer /\ pending.seq \in Nat
            /\ pending.seq <= client[pending.peer].seq
        BY <1>1, <2>1, Transit DEF NumbersRise, Datagram
      <3>2. QED
        BY <1>1, <1>2, <1>4, <2>1, <3>1 DEF NumbersRise
    <2>2. \A e \in Outstanding' : e \in Outstanding \/ e.seq <= client'[e.peer].seq
      BY <1>2, <1>3, <1>4
    <2>3. QED
      BY <1>1, <1>4, <1>5, <1>7, <1>8, <2>1, <2>2, NumbersKept DEF InFlight
  <1>10. OneNumberOneRequest'
    <2>1. ASSUME NEW e \in Outstanding, e.peer = p PROVE e.seq # client'[p].seq
      <3>1. e.seq \in Nat /\ e.seq <= client[p].seq
        BY <1>1, <2>1, Transit DEF NumbersRise, Datagram
      <3>2. QED
        BY <1>2, <1>3, <3>1
    <2>2. \A e \in Outstanding : e.peer \in Peer
      BY <1>1, Transit DEF Datagram
    <2>3. QED
      BY <1>1, <1>3, <1>4, <2>1, <2>2, RequestsKept
  <1>11. ToldIsOver'
    BY <1>1, <1>3 DEF ToldIsOver, BridgeTypeOK
  <1>12. PromisesHold'
    <2> SUFFICES ASSUME NEW q \in Peer, NEW v \in Value
                 PROVE  /\ Answered(q, v)' => Done(client'[q].op, v) = v
                        /\ \A b \in {"motor", "cmc"} : Promised(q, b, v)' => Settled(q, b, v)'
      BY DEF PromisesHold
    <2>1. CASE q = p
      <3>1. \A r \in Box(p) : r.seq # client'[p].seq
        <4>1. \A r \in Box(p) : r.seq \in Nat /\ r.seq <= client[p].seq
          BY <1>1, Transit DEF NumbersRise
        <4>2. QED
          BY <1>2, <1>3, <4>1
      <3>2. ~(slot.owner = "bridge" /\ pending.peer = p /\ pending.seq = client'[p].seq)
        <4>1. SUFFICES ASSUME InFlight, pending.peer = p
                       PROVE  pending.seq # client'[p].seq
          BY <1>1 DEF SlotIsWatched
        <4>2. pending.seq \in Nat /\ pending.seq <= client[p].seq
          BY <1>1, <4>1, Transit DEF NumbersRise, Datagram
        <4>3. QED
          BY <1>2, <1>3, <4>2
      <3>3. ~Answered(p, v)'
        BY <1>7, <3>1, <3>2 DEF Answered
      <3>4. told'[p] = Nothing
        BY <1>1 DEF BridgeTypeOK
      <3>5. \A b \in {"motor", "cmc"} : ~Promised(p, b, v)'
        BY <3>3, <3>4 DEF Promised, Nothing
      <3>6. QED
        BY <2>1, <3>3, <3>5
    <2>2. CASE q # p
      <3>1. /\ client'[q] = client[q] /\ told'[q] = told[q] /\ entry' = entry
            /\ q \in sure' => q \in sure
        BY <1>1, <1>3, <2>2 DEF BridgeTypeOK
      <3>2. Answered(q, v)' => Answered(q, v)
        BY <1>7, <3>1 DEF Answered
      <3>3. \A e \in Outstanding' : e.peer = q => e \in Outstanding
        BY <1>4, <2>2
      <3>4. \A b \in {"motor", "cmc"} : Promised(q, b, v) /\ Settled(q, b, v) /\
                  (b = "motor" => q \in sure') => entry'[q][b] = v
        BY <3>1 DEF Settled
      <3>5. \A b \in {"motor", "cmc"} : told'[q] = [at |-> b, val |-> v] => Promised(q, b, v)
        BY <3>1 DEF Promised
      <3>6. QED
        BY <1>1, <3>1, <3>2, <3>3, <3>4, <3>5, PromiseKept
    <2>3. QED
      BY <2>1, <2>2
  <1>13. QED
    BY <1>5, <1>6, <1>9, <1>10, <1>11, <1>12 DEF BridgeInv

LEMMA AskKeeps ==
    ASSUME BridgeInv, NEW p \in Peer, NEW op \in Asks[p], Ask(p, op)
    PROVE  BridgeInv'
  <1> DEFINE c == [st |-> "waiting", op |-> op, seq |-> client[p].seq + 1,
                   sent |-> 1, attempt |-> 0]
  <1>1. /\ client' = [client EXCEPT ![p] = c] /\ Send(p)
        /\ told' = [told EXCEPT ![p] = Nothing] /\ sure' = sure \cup {p}
        /\ UNCHANGED <<replies, pending, slot, got, entry, boots>>
    BY DEF Ask, Fresh
  <1>2. client[p].seq \in Nat /\ op \in Op
    BY OdBridgeAssumption DEF BridgeInv, BridgeTypeOK, Client
  <1>3. c \in Client
    BY <1>2, OdBridgeAssumption DEF Client
  <1>4. c.st = "waiting" /\ c.seq = client[p].seq + 1
    OBVIOUS
  <1> HIDE DEF c
  <1>5. QED
    BY <1>1, <1>3, <1>4, FreshKeeps

(* A transaction that ends, or waits for its next attempt, with an answer  *)
(* heard or without one.                                                   *)
LEMMA EndKeeps ==
    ASSUME BridgeInv, NEW p \in Peer, NEW c \in Client,
           c.seq = client[p].seq, c.st # "waiting",
           client' = [client EXCEPT ![p] = c],
           c.st = "backoff" => c.attempt < Retries /\ c.op = client[p].op
                               /\ client[p].st = "waiting" /\ told' = told,
           replies' \in [Peer -> Seq([seq : Nat, res : Response])],
           \A q \in Peer : Box(q)' \subseteq Box(q),
           told' \in [Peer -> Word \cup {Nothing}],
           \A q \in Peer : q # p => told'[q] = told[q],
           \A v \in Value, b \in {"motor", "cmc"} :
               told'[p] = [at |-> b, val |-> v] => Promised(p, b, v),
           UNCHANGED <<inbox, pending, slot, got, entry, boots, sure>>
    PROVE  BridgeInv'
  <1>1. /\ BridgeTypeOK /\ SlotIsWatched /\ NumbersRise /\ OneNumberOneRequest
        /\ ToldIsOver /\ PromisesHold
    BY DEF BridgeInv
  <1>2. /\ client' \in [Peer -> Client]
        /\ client'[p] = c /\ \A q \in Peer : q # p => client'[q] = client[q]
    BY <1>1 DEF BridgeTypeOK
  <1>3. BridgeTypeOK'
    BY <1>1, <1>2 DEF BridgeTypeOK
  <1>4. SlotIsWatched'
    BY <1>1 DEF SlotIsWatched, InFlight
  <1>5. Wire' = Wire /\ Outstanding' = Outstanding
    BY DEF Wire, Outstanding
  <1>6. \A q \in Peer : client[q].seq \in Nat /\ client[q].seq = client'[q].seq
    BY <1>1, <1>2 DEF BridgeTypeOK, Client
  <1>7. NumbersRise'
    <2>1. Rising(inbox')
      BY <1>1, OneNumber
    <2>2. \A q \in Peer : client[q].seq <= client'[q].seq
      BY <1>6
    <2>3. InFlight => /\ pending.op.at = "motor"
                      /\ \A e \in Wire' : e.peer = pending.peer => pending.seq <= e.seq
      BY <1>1, <1>5 DEF NumbersRise
    <2>4. QED
      BY <1>1, <1>3, <1>5, <2>1, <2>2, <2>3, NumbersKept DEF InFlight
  <1>8. OneNumberOneRequest'
    <2>1. \A e \in Outstanding : e.peer \in Peer
      BY <1>1, Transit DEF Datagram
    <2>2. c.st # "idle" => c.op = client[p].op /\ client[p].st # "idle"
      BY DEF Client
    <2>3. QED
      BY <1>1, <1>2, <1>5, <1>6, <2>1, <2>2, RequestsKept
  <1>9. ToldIsOver'
    <2>1. c.st # "idle" => told'[p] = Nothing
      BY <1>1 DEF Client, ToldIsOver
    <2>2. QED
      BY <1>1, <1>2, <2>1 DEF ToldIsOver
  <1>10. PromisesHold'
    <2> SUFFICES ASSUME NEW q \in Peer, NEW v \in Value
                 PROVE  /\ Answered(q, v)' => Done(client'[q].op, v) = v
                        /\ \A b \in {"motor", "cmc"} : Promised(q, b, v)' => Settled(q, b, v)'
      BY DEF PromisesHold
    <2>1. Answered(q, v)' => Answered(q, v) /\ client'[q].op = client[q].op
      <3>1. CASE q = p
        BY <1>2, <3>1 DEF Answered
      <3>2. CASE q # p
        BY <1>2, <3>2 DEF Answered
      <3>3. QED
        BY <3>1, <3>2
    <2>2. \A b \in {"motor", "cmc"} : told'[q] = [at |-> b, val |-> v] => Promised(q, b, v)
      BY DEF Promised
    <2>3. \A b \in {"motor", "cmc"} : Promised(q, b, v) /\ Settled(q, b, v) /\
                  (b = "motor" => q \in sure') => entry'[q][b] = v
      BY DEF Settled
    <2>4. QED
      BY <1>1, <1>5, <2>1, <2>2, <2>3, PromiseKept
  <1>11. QED
    BY <1>3, <1>4, <1>7, <1>8, <1>9, <1>10 DEF BridgeInv

LEMMA GiveUpKeeps ==
    ASSUME BridgeInv, NEW p \in Peer, GiveUp(p)
    PROVE  BridgeInv'
  <1> DEFINE c == [Idle EXCEPT !.seq = client[p].seq]
  <1>1. /\ client' = [client EXCEPT ![p] = c]
        /\ told' = [told EXCEPT ![p] = Nothing]
        /\ UNCHANGED <<inbox, replies, pending, slot, got, entry, boots, sure>>
    BY DEF GiveUp, Ends
  <1>2. c \in Client /\ c.seq = client[p].seq /\ c.st = "idle"
    <2>1. client[p].seq \in Nat
      BY DEF BridgeInv, BridgeTypeOK, Client
    <2>2. Some \in Value
      BY OdBridgeAssumption DEF Some
    <2>3. QED
      BY <2>1, <2>2, OdBridgeAssumption DEF Idle, Client, Op
  <1>3. /\ replies' \in [Peer -> Seq([seq : Nat, res : Response])]
        /\ told' \in [Peer -> Word \cup {Nothing}] /\ told'[p] = Nothing
        /\ \A q \in Peer : q # p => told'[q] = told[q]
        /\ \A q \in Peer : Box(q)' \subseteq Box(q)
    BY <1>1 DEF BridgeInv, BridgeTypeOK, Box
  <1>4. \A v \in Value, b \in {"motor", "cmc"} : told'[p] # [at |-> b, val |-> v]
    BY <1>3, NothingIsNoWord
  <1> HIDE DEF c
  <1>5. QED
    BY <1>1, <1>2, <1>3, <1>4, EndKeeps

(* An answer is taken from the box of tool p.                              *)
LEMMA HearKeeps ==
    ASSUME BridgeInv, NEW p \in Peer, Hear(p)
    PROVE  BridgeInv'
  <1> DEFINE r == Head(replies[p])
             c == [Idle EXCEPT !.seq = client[p].seq]
             k == [client[p] EXCEPT !.st = "backoff"]
  <1>1. /\ replies' = [replies EXCEPT ![p] = Tail(replies[p])]
        /\ replies[p] # <<>> /\ client[p].st = "waiting"
        /\ UNCHANGED <<inbox, pending, slot, got, entry, boots, sure>>
    BY DEF Hear
  <1>2. /\ BridgeTypeOK /\ client[p] \in Client /\ told[p] = Nothing
        /\ replies[p] \in Seq([seq : Nat, res : Response])
    BY <1>1 DEF BridgeInv, BridgeTypeOK, ToldIsOver
  <1>3. /\ r \in Box(p) /\ r \in [seq : Nat, res : Response]
        /\ Tail(replies[p]) \in Seq([seq : Nat, res : Response])
        /\ Elems(Tail(replies[p])) \subseteq Box(p)
    BY <1>1, <1>2, Taken, Transit
  <1>4. replies' \in [Peer -> Seq([seq : Nat, res : Response])]
    BY <1>1, <1>2, <1>3 DEF BridgeTypeOK
  <1>5. \A q \in Peer : Box(q)' \subseteq Box(q)
    BY <1>1, <1>2, <1>3 DEF Box, Elems, BridgeTypeOK
  <1>6. CASE ~Mine(p, r) /\ UNCHANGED <<client, told>>
    <2>1. BridgeTypeOK'
      BY <1>1, <1>2, <1>4, <1>6 DEF BridgeTypeOK
    <2>2. Wire' = Wire /\ Outstanding' = Outstanding
      BY <1>1 DEF Wire, Outstanding
    <2>3. SlotIsWatched' /\ ToldIsOver' /\ OneNumberOneRequest'
      BY <1>1, <1>6, <2>2 DEF BridgeInv, SlotIsWatched, ToldIsOver, InFlight, OneNumberOneRequest
    <2>4. NumbersRise'
      BY <1>1, <1>5, <1>6, <2>2 DEF BridgeInv, NumbersRise, InFlight
    <2>5. \A q \in Peer, v \in Value : Answered(q, v)' => Answered(q, v)
      BY <1>1, <1>5, <1>6 DEF Answered
    <2>6. ASSUME NEW q \in Peer, NEW v \in Value, NEW b \in {"motor", "cmc"}
          PROVE  (Promised(q, b, v)' => Promised(q, b, v)) /\ Settled(q, b, v)' = Settled(q, b, v)
      BY <1>1, <1>6, <2>2, <2>5 DEF Promised, Settled
    <2>7. PromisesHold'
      BY <1>6, <2>5, <2>6 DEF BridgeInv, PromisesHold
    <2>8. QED
      BY <2>1, <2>3, <2>4, <2>7 DEF BridgeInv
  <1>7. CASE client[p].attempt < Retries /\ client' = [client EXCEPT ![p] = k] /\ told' = told
    <2>1. /\ k \in Client /\ k.seq = client[p].seq /\ k.st = "backoff"
          /\ k.attempt = client[p].attempt /\ k.op = client[p].op
      BY <1>2 DEF Client
    <2>2. /\ told' \in [Peer -> Word \cup {Nothing}]
          /\ \A v \in Value, b \in {"motor", "cmc"} :
                 told'[p] = [at |-> b, val |-> v] => Promised(p, b, v)
      BY <1>2, <1>7 DEF BridgeTypeOK, Promised
    <2> HIDE DEF k
    <2>3. QED
      BY <1>1, <1>4, <1>5, <1>7, <2>1, <2>2, EndKeeps
  <1>8. CASE Mine(p, r) /\ Ends(p, r.res.res, r.res.val)
    <2> DEFINE word == IF r.res.res = "ok" THEN [at |-> client[p].op.at, val |-> r.res.val]
                       ELSE Nothing
    <2>1. /\ client' = [client EXCEPT ![p] = c]
          /\ told' = [told EXCEPT ![p] = word]
      BY <1>8 DEF Ends
    <2>2. c \in Client /\ c.seq = client[p].seq /\ c.st = "idle"
      <3>1. client[p].seq \in Nat
        BY <1>2 DEF Client
      <3>2. Some \in Value
        BY OdBridgeAssumption DEF Some
      <3>3. QED
        BY <3>1, <3>2, OdBridgeAssumption DEF Idle, Client, Op
    <2>3. word \in Word \cup {Nothing}
      BY <1>2, <1>3 DEF Word, Response, Client, Op
    <2>4. /\ told' \in [Peer -> Word \cup {Nothing}] /\ told'[p] = word
          /\ \A q \in Peer : q # p => told'[q] = told[q]
      <3> HIDE DEF word
      <3>1. QED
        BY <1>2, <2>1, <2>3 DEF BridgeTypeOK
    <2>5. ASSUME NEW v \in Value, NEW b \in {"motor", "cmc"}, word = [at |-> b, val |-> v]
          PROVE  Promised(p, b, v)
      <3>1. r.res.res = "ok" /\ client[p].op.at = b /\ r.res.val = v
        BY <2>5 DEF Nothing
      <3>2. r.res = [res |-> "ok", val |-> v]
        BY <1>3, <3>1 DEF Response
      <3>3. Answered(p, v)
        BY <1>1, <1>3, <1>8, <3>2 DEF Answered, Mine
      <3>4. QED
        BY <3>1, <3>3 DEF Promised
    <2> HIDE DEF c, word
    <2>6. QED
      BY <1>1, <1>4, <1>5, <2>1, <2>2, <2>4, <2>5, EndKeeps
  <1>9. QED
    BY <1>6, <1>7, <1>8 DEF Hear

LEMMA AskAgainKeeps ==
    ASSUME BridgeInv, NEW p \in Peer, AskAgain(p)
    PROVE  BridgeInv'
  <1>1. /\ client[p].st = "backoff" /\ client[p] \in Client /\ told[p] = Nothing
        /\ client[p].attempt < Retries
        /\ UNCHANGED <<replies, sure, pending, slot, got, entry, boots>>
    BY DEF AskAgain, BridgeInv, BridgeTypeOK, ToldIsOver
  <1>2. ASSUME NEW c, c = [st |-> "waiting", op |-> client[p].op, seq |-> client[p].seq + 1,
                           sent |-> 1, attempt |-> client[p].attempt + 1],
               client' = [client EXCEPT ![p] = c], Send(p), UNCHANGED told
        PROVE  BridgeInv'
    <2>1. c \in Client /\ c.st = "waiting" /\ c.seq = client[p].seq + 1
      <3>1. client[p].attempt + 1 \in 0..Retries /\ 1 \in 0..Tries /\ client[p].seq + 1 \in Nat
        BY <1>1, OdBridgeAssumption DEF Client
      <3>2. QED
        BY <1>1, <1>2, <3>1 DEF Client
    <2>2. told' = [told EXCEPT ![p] = Nothing]
      BY <1>1, <1>2 DEF BridgeInv, BridgeTypeOK
    <2>3. QED
      BY <1>1, <1>2, <2>1, <2>2, FreshKeeps
  <1>3. ASSUME NEW c, c = [Idle EXCEPT !.seq = client[p].seq],
               client' = [client EXCEPT ![p] = c],
               told' = [told EXCEPT ![p] = Nothing], UNCHANGED inbox
        PROVE  BridgeInv'
    <2>1. c \in Client /\ c.seq = client[p].seq /\ c.st = "idle"
      <3>1. client[p].seq \in Nat
        BY <1>1 DEF Client
      <3>2. Some \in Value
        BY OdBridgeAssumption DEF Some
      <3>3. QED
        BY <1>3, <3>1, <3>2, OdBridgeAssumption DEF Idle, Client, Op
    <2>2. /\ replies' \in [Peer -> Seq([seq : Nat, res : Response])]
          /\ told' \in [Peer -> Word \cup {Nothing}] /\ told'[p] = Nothing
          /\ \A q \in Peer : q # p => told'[q] = told[q]
          /\ \A q \in Peer : Box(q)' \subseteq Box(q)
      BY <1>1, <1>3 DEF BridgeInv, BridgeTypeOK, Box
    <2>3. \A v \in Value, b \in {"motor", "cmc"} : told'[p] # [at |-> b, val |-> v]
      BY <2>2, NothingIsNoWord
    <2>4. client' = [client EXCEPT ![p] = c] /\ inbox' = inbox
      BY <1>3
    <2>5. QED
      BY <1>1, <2>1, <2>2, <2>3, <2>4, EndKeeps
  <1>4. CASE /\ client' = [client EXCEPT ![p] = [st |-> "waiting", op |-> @.op,
                    seq |-> Fresh(@.seq), sent |-> 1, attempt |-> @.attempt + 1]]
             /\ Send(p) /\ UNCHANGED told
    BY <1>2, <1>4 DEF Fresh
  <1>5. CASE Ends(p, "queue_full", Some) /\ UNCHANGED inbox
    BY <1>3, <1>5 DEF Ends
  <1>6. QED
    BY <1>4, <1>5 DEF AskAgain

LEMMA RepeatKeeps ==
    ASSUME BridgeInv, NEW p \in Peer, Repeat(p)
    PROVE  BridgeInv'
  <1> DEFINE c == [client[p] EXCEPT !.sent = client[p].sent + 1]
             d == [peer |-> p, seq |-> client[p].seq, op |-> client[p].op]
  <1>1. /\ client[p].st = "waiting" /\ client[p].sent < Tries
        /\ client' = [client EXCEPT ![p] = c] /\ Send(p)
        /\ UNCHANGED <<replies, told, sure, pending, slot, got, entry, boots>>
    BY DEF Repeat
  <1>2. /\ BridgeTypeOK /\ SlotIsWatched /\ NumbersRise /\ OneNumberOneRequest
        /\ ToldIsOver /\ PromisesHold /\ client[p] \in Client
    BY DEF BridgeInv, BridgeTypeOK
  <1>3. /\ c \in Client /\ c.st = "waiting" /\ c.seq = client[p].seq /\ c.op = client[p].op
        /\ c.attempt = client[p].attempt /\ c.seq \in Nat
    BY <1>1, <1>2, OdBridgeAssumption DEF Client
  <1> HIDE DEF c
  <1>4. /\ client' \in [Peer -> Client]
        /\ client'[p] = c /\ \A q \in Peer : q # p => client'[q] = client[q]
    BY <1>1, <1>2, <1>3 DEF BridgeTypeOK
  <1>5. /\ d \in Datagram /\ inbox' \in Seq(Datagram) /\ Rising(inbox')
        /\ Wire' \subseteq Wire \cup {d} /\ Outstanding' \subseteq Outstanding \cup {d}
    BY <1>1, <1>2, <1>3, <1>4, SentBehind
  <1>6. BridgeTypeOK'
    BY <1>1, <1>2, <1>4, <1>5 DEF BridgeTypeOK
  <1>7. SlotIsWatched'
    BY <1>1, <1>2 DEF SlotIsWatched, InFlight
  <1>8. \A q \in Peer : /\ client'[q].seq = client[q].seq /\ client'[q].op = client[q].op
                        /\ client'[q].st = client[q].st /\ client[q].seq \in Nat
                        /\ client'[q].attempt = client[q].attempt
    BY <1>1, <1>2, <1>3, <1>4 DEF BridgeTypeOK, Client
  <1>9. \A q \in Peer : Box(q)' = Box(q)
    BY <1>1 DEF Box
  <1>10. NumbersRise'
    <2>1. ASSUME InFlight
          PROVE  /\ pending.op.at = "motor"
                 /\ \A e \in Wire' : e.peer = pending.peer => pending.seq <= e.seq
      <3>1. /\ pending.peer \in Peer /\ pending.seq <= client[pending.peer].seq
        BY <1>2, <2>1, Transit DEF NumbersRise, Datagram
      <3>2. QED
        BY <1>2, <1>5, <2>1, <3>1 DEF NumbersRise
    <2>2. \A e \in Outstanding' : e \in Outstanding \/ e.seq <= client'[e.peer].seq
      BY <1>3, <1>4, <1>5
    <2>3. \A q \in Peer : client[q].seq <= client'[q].seq
      BY <1>8
    <2>4. QED
      BY <1>1, <1>2, <1>5, <1>6, <1>9, <2>1, <2>2, <2>3, NumbersKept DEF InFlight
  <1>11. OneNumberOneRequest'
    <2>1. \A e \in Outstanding : e.peer \in Peer
      BY <1>2, Transit DEF Datagram
    <2>2. d.op = client'[d.peer].op
      BY <1>3, <1>4
    <2>3. QED
      BY <1>2, <1>5, <1>8, <2>1, <2>2, RequestsKept
  <1>12. ToldIsOver'
    BY <1>1, <1>2, <1>8 DEF ToldIsOver
  <1>13. PromisesHold'
    <2> SUFFICES ASSUME NEW q \in Peer, NEW v \in Value
                 PROVE  /\ Answered(q, v)' => Done(client'[q].op, v) = v
                        /\ \A b \in {"motor", "cmc"} : Promised(q, b, v)' => Settled(q, b, v)'
      BY DEF PromisesHold
    <2>1. Answered(q, v)' => Answered(q, v)
      BY <1>1, <1>8, <1>9 DEF Answered
    <2>2. \A b \in {"motor", "cmc"} : Promised(q, b, v)' => Promised(q, b, v)
      BY <1>1, <1>8, <2>1 DEF Promised
    <2>3. told[p] = Nothing
      BY <1>1, <1>2 DEF ToldIsOver
    <2>4. \A b \in {"motor", "cmc"} : Promised(p, b, v) => Answered(p, v)
      BY <2>3 DEF Promised, Nothing
    <2>5. \A b \in {"motor", "cmc"} : Promised(q, b, v) /\ Settled(q, b, v) /\
                  (b = "motor" => q \in sure') => entry'[q][b] = v
      BY <1>1 DEF Settled
    <2>6. \A e \in Outstanding' : e.peer = q =>
              e \in Outstanding \/ (e.op = client[q].op /\ Answered(q, v) /\ told[q] = Nothing)
              \/ \A b \in {"motor", "cmc"} : ~Promised(q, b, v)'
      BY <1>5, <2>2, <2>3, <2>4
    <2>7. \A b \in {"motor", "cmc"} : told'[q] = [at |-> b, val |-> v] => Promised(q, b, v)
      BY <1>1 DEF Promised
    <2>8. QED
      BY <1>1, <1>2, <1>8, <2>1, <2>5, <2>6, <2>7, PromiseKept
  <1>14. QED
    BY <1>6, <1>7, <1>10, <1>11, <1>12, <1>13 DEF BridgeInv

-----------------------------------------------------------------------------
(* The boards and the wire.                                                *)

(* A step carries out the request tool p waits for, with value v.          *)
Given(p, v) ==
    \E q \in Outstanding, e \in Value :
        /\ q.peer = p /\ client[p].st = "waiting" /\ q.seq = client[p].seq
        /\ v = Done(q.op, e) /\ entry'[p][q.op.at] = v
        /\ \A d \in Outstanding' : d.peer = p /\ d.op.at = q.op.at => q.seq <= d.seq

LEMMA PromiseGiven ==
    ASSUME BridgeInv, NEW p \in Peer, NEW v \in Value, Given(p, v),
           UNCHANGED <<client, told>>, Outstanding' \subseteq Outstanding
    PROVE  /\ Answered(p, v)' => Done(client'[p].op, v) = v
           /\ \A b \in {"motor", "cmc"} : Promised(p, b, v)' => Settled(p, b, v)'
  <1>1. PICK q \in Outstanding, e \in Value :
            /\ q.peer = p /\ client[p].st = "waiting" /\ q.seq = client[p].seq
            /\ v = Done(q.op, e) /\ entry'[p][q.op.at] = v
            /\ \A d \in Outstanding' : d.peer = p /\ d.op.at = q.op.at => q.seq <= d.seq
    BY DEF Given
  <1>2. q \in Datagram /\ q.op \in Op /\ q.op = client[p].op
    BY <1>1, Transit DEF BridgeInv, OneNumberOneRequest, Datagram
  <1>3. Done(client[p].op, v) = v
    BY <1>1, <1>2, DoneTwice
  <1>4. told[p] = Nothing
    BY <1>1 DEF BridgeInv, ToldIsOver
  <1>5. ASSUME NEW b \in {"motor", "cmc"}, Promised(p, b, v)'
        PROVE  Settled(p, b, v)'
    <2>1. q.op.at = b
      BY <1>2, <1>4, <1>5, NothingIsNoWord DEF Promised
    <2>2. ASSUME NEW d \in Outstanding', d.peer = p, d.op.at = b
          PROVE  Done(d.op, v) = v
      <3>1. d \in Outstanding /\ q.seq <= d.seq
        BY <1>1, <2>1, <2>2
      <3>2. d.seq <= client[p].seq /\ d.seq \in Nat /\ q.seq \in Nat
        BY <1>2, <2>2, <3>1, Transit DEF BridgeInv, NumbersRise, Datagram
      <3>3. d.seq = client[p].seq
        BY <1>1, <3>1, <3>2
      <3>4. d.op = client[p].op
        BY <1>1, <2>2, <3>1, <3>3 DEF BridgeInv, OneNumberOneRequest
      <3>5. QED
        BY <1>3, <3>4
    <2>3. QED
      BY <1>1, <2>1, <2>2 DEF Settled
  <1>6. QED
    BY <1>3, <1>5

(* A step that leaves the tools alone keeps the invariant if it answers no *)
(* more than it carried out, and changes no entry a tool was told of.      *)
LEMMA BoardKeeps ==
    ASSUME BridgeInv, BridgeTypeOK', SlotIsWatched', UNCHANGED <<client, told>>,
           sure' \subseteq sure, Rising(inbox'), Outstanding' \subseteq Outstanding,
           \A p \in Peer : \A r \in Box(p)' : r \in Box(p) \/ r.seq <= client[p].seq,
           InFlight' => /\ pending'.op.at = "motor"
                        /\ \A d \in Wire' : d.peer = pending'.peer => pending'.seq <= d.seq,
           \A p \in Peer, v \in Value : Answered(p, v)' => Answered(p, v) \/ Given(p, v),
           \A p \in Peer, v \in Value, b \in {"motor", "cmc"} :
               Promised(p, b, v) /\ Settled(p, b, v) /\ (b = "motor" => p \in sure')
               => entry'[p][b] = v
    PROVE  BridgeInv'
  <1>1. /\ BridgeTypeOK /\ NumbersRise /\ OneNumberOneRequest
        /\ ToldIsOver /\ PromisesHold
    BY DEF BridgeInv
  <1>2. NumbersRise'
    <2>1. \A p \in Peer : client[p].seq <= client'[p].seq
      BY <1>1 DEF BridgeTypeOK, Client
    <2>2. QED
      BY <1>1, <2>1, NumbersKept
  <1>3. OneNumberOneRequest'
    BY <1>1, RequestsKept
  <1>4. ToldIsOver'
    BY <1>1 DEF ToldIsOver
  <1>5. PromisesHold'
    <2> SUFFICES ASSUME NEW p \in Peer, NEW v \in Value
                 PROVE  /\ Answered(p, v)' => Done(client'[p].op, v) = v
                        /\ \A b \in {"motor", "cmc"} : Promised(p, b, v)' => Settled(p, b, v)'
      BY DEF PromisesHold
    <2>1. CASE Given(p, v)
      BY <2>1, PromiseGiven
    <2>2. CASE ~Given(p, v)
      <3>1. Answered(p, v)' => Answered(p, v) /\ client'[p].op = client[p].op
        BY <2>2
      <3>2. \A b \in {"motor", "cmc"} :
                told'[p] = [at |-> b, val |-> v] => Promised(p, b, v)
        BY DEF Promised
      <3>3. QED
        BY <1>1, <3>1, <3>2, PromiseKept
    <2>3. QED
      BY <2>1, <2>2
  <1>6. QED
    BY <1>2, <1>3, <1>4, <1>5 DEF BridgeInv

(* The slot's other users, and a restart of the motor, take no part in     *)
(* what the tools were told.                                               *)
LEMMA OthersKeep ==
    ASSUME BridgeInv, OthersBegin \/ OthersCollect
    PROVE  BridgeInv'
  <1>1. /\ UNCHANGED <<client, inbox, replies, pending, got, entry, boots, told, sure>>
        /\ slot'.owner # "bridge"
        /\ slot'.st # "complete"
        /\ slot' \in Od!Slot
    BY DEF OthersBegin, OthersCollect, Od!SlotBegin, Od!SlotCollect, Od!Asked, Od!FreeSlot,
           Od!Slot
  <1>2. BridgeTypeOK' /\ SlotIsWatched'
    BY <1>1 DEF BridgeInv, BridgeTypeOK, SlotIsWatched
  <1>3. Wire' = Wire /\ Outstanding' = Outstanding /\ InFlight' = InFlight
        /\ \A p \in Peer : Box(p)' = Box(p)
    BY <1>1 DEF Wire, Outstanding, Box, InFlight
  <1>4. Rising(inbox')
    BY <1>1, OneNumber DEF BridgeInv
  <1>5. \A p \in Peer, v \in Value : Answered(p, v)' => Answered(p, v)
    BY <1>1, <1>3 DEF Answered
  <1>6. InFlight' => /\ pending'.op.at = "motor"
                     /\ \A d \in Wire' : d.peer = pending'.peer => pending'.seq <= d.seq
    BY <1>1, <1>3 DEF BridgeInv, NumbersRise
  <1>7. \A p \in Peer, v \in Value, b \in {"motor", "cmc"} :
            Settled(p, b, v) /\ (b = "motor" => p \in sure') => entry'[p][b] = v
    BY <1>1 DEF Settled
  <1>8. QED
    BY <1>1, <1>2, <1>3, <1>4, <1>5, <1>6, <1>7, BoardKeeps

LEMMA MotorBootsKeeps ==
    ASSUME BridgeInv, MotorBoots
    PROVE  BridgeInv'
  <1>1. /\ UNCHANGED <<client, inbox, replies, pending, told>>
        /\ slot' = Od!FreeSlot /\ got' = Some /\ sure' = {}
        /\ boots' = boots + 1 /\ boots < MaxBoots
        /\ entry' = [p \in Peer |-> [entry[p] EXCEPT !["motor"] = Some]]
    BY DEF MotorBoots, Od!SlotAbort
  <1>2. /\ slot'.owner # "bridge" /\ slot'.st # "complete"
        /\ slot' \in Od!Slot
    BY <1>1 DEF Od!FreeSlot, Od!Slot
  <1>3. Some \in Value
    BY OdBridgeAssumption DEF Some
  <1>4. /\ entry' \in [Peer -> [{"motor", "cmc"} -> Value]]
        /\ \A p \in Peer : entry'[p]["cmc"] = entry[p]["cmc"]
    BY <1>1, <1>3 DEF BridgeInv, BridgeTypeOK
  <1>5. boots' \in 0..MaxBoots
    BY <1>1, OdBridgeAssumption DEF BridgeInv, BridgeTypeOK
  <1>6. BridgeTypeOK' /\ SlotIsWatched'
    BY <1>1, <1>2, <1>3, <1>4, <1>5 DEF BridgeInv, BridgeTypeOK, SlotIsWatched
  <1>7. Wire' = Wire /\ Outstanding' = Outstanding /\ InFlight' = InFlight
        /\ \A p \in Peer : Box(p)' = Box(p)
    BY <1>1 DEF Wire, Outstanding, Box, InFlight
  <1>8. Rising(inbox')
    BY <1>1, OneNumber DEF BridgeInv
  <1>9. \A p \in Peer, v \in Value : Answered(p, v)' => Answered(p, v)
    BY <1>1, <1>2, <1>7 DEF Answered
  <1>10. InFlight' => /\ pending'.op.at = "motor"
                      /\ \A d \in Wire' : d.peer = pending'.peer => pending'.seq <= d.seq
    BY <1>1, <1>7 DEF BridgeInv, NumbersRise
  <1>11. \A p \in Peer, v \in Value, b \in {"motor", "cmc"} :
             Settled(p, b, v) /\ (b = "motor" => p \in sure') => entry'[p][b] = v
    BY <1>1, <1>4 DEF Settled
  <1>12. sure' \subseteq sure
    BY <1>1
  <1>13. QED
    BY <1>1, <1>6, <1>7, <1>8, <1>9, <1>10, <1>11, <1>12, BoardKeeps

LEMMA LostKeeps ==
    ASSUME BridgeInv, Lost
    PROVE  BridgeInv'
  <1>1. /\ UNCHANGED <<client, told, sure, pending, slot, got, entry, boots>>
        /\ InFlight' = InFlight
    BY DEF Lost, InFlight
  <1>2. BridgeTypeOK /\ Rising(inbox)
    BY OneNumber DEF BridgeInv
  <1>3. /\ inbox' \in Seq(Datagram) /\ Rising(inbox')
        /\ Wire' \subseteq Wire /\ Outstanding' \subseteq Outstanding
        /\ replies' \in [Peer -> Seq([seq : Nat, res : Response])]
        /\ \A p \in Peer : Box(p)' \subseteq Box(p)
    <2>1. CASE inbox # <<>> /\ inbox' = Tail(inbox) /\ replies' = replies
      <3>1. inbox' \in Seq(Datagram) /\ Elems(inbox') \subseteq Elems(inbox) /\ Rising(inbox')
        BY <1>2, <2>1, Taken, TakenRises DEF BridgeTypeOK
      <3>2. QED
        BY <1>1, <1>2, <2>1, <3>1 DEF Elems, Wire, Outstanding, Box, BridgeTypeOK
    <2>2. CASE \E p \in Peer : /\ replies[p] # <<>> /\ replies' = [replies EXCEPT ![p] = Tail(@)]
                               /\ inbox' = inbox
      <3>1. PICK p \in Peer : /\ replies[p] # <<>> /\ inbox' = inbox
                              /\ replies' = [replies EXCEPT ![p] = Tail(replies[p])]
        BY <2>2
      <3>2. replies[p] \in Seq([seq : Nat, res : Response])
        BY <1>2 DEF BridgeTypeOK
      <3>3. /\ Tail(replies[p]) \in Seq([seq : Nat, res : Response])
            /\ Elems(Tail(replies[p])) \subseteq Elems(replies[p])
        BY <3>1, <3>2, Taken
      <3>4. \A q \in Peer : Box(q)' \subseteq Box(q)
        BY <1>2, <3>1, <3>3 DEF Box, Elems, BridgeTypeOK
      <3>5. replies' \in [Peer -> Seq([seq : Nat, res : Response])]
        BY <1>2, <3>1, <3>3 DEF BridgeTypeOK
      <3>6. QED
        BY <1>1, <1>2, <3>1, <3>4, <3>5 DEF Wire, Outstanding, BridgeTypeOK
    <2>3. QED
      BY <2>1, <2>2 DEF Lost
  <1>4. BridgeTypeOK' /\ SlotIsWatched'
    BY <1>1, <1>3 DEF BridgeInv, BridgeTypeOK, SlotIsWatched
  <1>5. \A p \in Peer, v \in Value : Answered(p, v)' => Answered(p, v)
    BY <1>1, <1>3 DEF Answered
  <1>6. InFlight' => /\ pending'.op.at = "motor"
                     /\ \A d \in Wire' : d.peer = pending'.peer => pending'.seq <= d.seq
    BY <1>1, <1>3 DEF BridgeInv, NumbersRise
  <1>7. \A p \in Peer, v \in Value, b \in {"motor", "cmc"} :
            Settled(p, b, v) /\ (b = "motor" => p \in sure') => entry'[p][b] = v
    BY <1>1 DEF Settled
  <1>8. QED
    BY <1>1, <1>3, <1>4, <1>5, <1>6, <1>7, BoardKeeps

(* What the motor carries out is the request that is pending, and it does  *)
(* to the entry what the tool is told, if it is told so.                   *)
LEMMA MotorEndsKeeps ==
    ASSUME BridgeInv, MotorEnds
    PROVE  BridgeInv'
  <1> DEFINE p == slot.req.peer
             kept == Done(slot.req.op, entry[p]["motor"])
             carried == [entry EXCEPT ![p]["motor"] = kept]
  <1>1. /\ UNCHANGED <<client, inbox, replies, pending, boots, told, sure>>
        /\ InFlight' = InFlight
    BY DEF MotorEnds, InFlight
  <1>2. /\ BridgeTypeOK /\ SlotIsWatched /\ NumbersRise /\ PromisesHold
    BY DEF BridgeInv
  <1>3. PICK r \in Od!Result :
            /\ slot.st = "busy"
            /\ slot' = [st |-> "complete", owner |-> slot.owner, req |-> slot.req, res |-> r]
            /\ \/ slot.owner = "others" /\ got' = got /\ entry' = entry
               \/ slot.owner = "bridge" /\ r = "ok" /\ got' = kept /\ entry' = carried
               \/ /\ slot.owner = "bridge" /\ r # "ok" /\ got' = got
                  /\ entry' \in {entry, carried}
    BY DEF MotorEnds, Od!SlotFinish, Od!Result
  <1>4. slot.owner = "bridge" => /\ InFlight /\ slot.req = pending
                                 /\ pending \in Datagram /\ pending \in Outstanding
                                 /\ p \in Peer /\ slot.req.op \in Op /\ slot.req.op.at = "motor"
                                 /\ entry[p]["motor"] \in Value /\ kept \in Value
    BY <1>2, Transit, DoneTwice DEF SlotIsWatched, NumbersRise, Datagram, BridgeTypeOK
  <1>5. ASSUME slot.owner = "bridge"
        PROVE  /\ carried \in [Peer -> [{"motor", "cmc"} -> Value]]
               /\ carried[p]["motor"] = kept
               /\ \A q \in Peer : /\ carried[q]["cmc"] = entry[q]["cmc"]
                                  /\ q # p => carried[q] = entry[q]
    <2> HIDE DEF p, kept
    <2>1. QED
      BY <1>2, <1>4, <1>5 DEF BridgeTypeOK
  <1>6. entry' = entry \/ (slot.owner = "bridge" /\ entry' = carried)
    BY <1>3
  <1>7. slot' \in Od!Slot /\ slot'.owner = slot.owner /\ slot'.req = slot.req
        /\ slot'.st = "complete" /\ slot'.res = r /\ r # "none"
    BY <1>2, <1>3 DEF BridgeTypeOK, Od!Slot, Od!Result
  <1>8. BridgeTypeOK' /\ SlotIsWatched'
    <2> HIDE DEF p, kept, carried
    <2>1. entry' \in [Peer -> [{"motor", "cmc"} -> Value]] /\ got' \in Value
      BY <1>2, <1>3, <1>4, <1>5 DEF BridgeTypeOK
    <2>2. QED
      BY <1>1, <1>2, <1>7, <2>1 DEF BridgeTypeOK, SlotIsWatched
  <1>9. Wire' = Wire /\ Outstanding' = Outstanding /\ \A q \in Peer : Box(q)' = Box(q)
    BY <1>1 DEF Wire, Outstanding, Box
  <1>10. Rising(inbox')
    BY <1>1, <1>2, OneNumber
  <1>11. InFlight' => /\ pending'.op.at = "motor"
                      /\ \A d \in Wire' : d.peer = pending'.peer => pending'.seq <= d.seq
    BY <1>1, <1>2, <1>9 DEF NumbersRise
  <1>12. ASSUME NEW q \in Peer, NEW v \in Value, Answered(q, v)', ~Answered(q, v)
         PROVE  Given(q, v)
    <2>1. /\ client[q].st = "waiting" /\ slot.owner = "bridge" /\ r = "ok" /\ got' = v
          /\ pending.peer = q /\ pending.seq = client[q].seq
      BY <1>1, <1>7, <1>9, <1>12 DEF Answered
    <2>2. p = q /\ v = kept /\ entry' = carried /\ entry'[p][pending.op.at] = v
      BY <1>3, <1>4, <1>5, <2>1
    <2>3. \A d \in Outstanding' : d.peer = q => pending.seq <= d.seq
      BY <1>2, <1>4, <1>9, <2>1, Transit DEF NumbersRise, Datagram
    <2>4. v = Done(pending.op, entry[p]["motor"])
      BY <1>4, <2>1, <2>2
    <2> HIDE DEF p, kept, carried
    <2>5. QED
      BY <1>4, <2>1, <2>2, <2>3, <2>4 DEF Given
  <1>13. ASSUME NEW q \in Peer, NEW v \in Value, NEW b \in {"motor", "cmc"},
                Settled(q, b, v), b = "motor" => q \in sure'
         PROVE  entry'[q][b] = v
    <2>1. /\ entry[q][b] = v
          /\ \A d \in Outstanding : d.peer = q /\ d.op.at = b => Done(d.op, v) = v
      BY <1>1, <1>13 DEF Settled
    <2>2. CASE slot.owner = "bridge" /\ entry' = carried /\ q = p /\ b = "motor"
      <3>1. Done(pending.op, v) = v /\ kept = Done(pending.op, v)
        BY <1>4, <2>1, <2>2
      <3>2. QED
        BY <1>5, <2>2, <3>1
    <2>3. CASE entry' = entry
      BY <2>1, <2>3
    <2>4. CASE slot.owner = "bridge" /\ entry' = carried /\ (q # p \/ b = "cmc")
      <3> HIDE DEF p, kept, carried
      <3>1. QED
        BY <1>5, <2>1, <2>4
    <2>5. QED
      BY <1>6, <2>2, <2>3, <2>4
  <1> HIDE DEF p, kept, carried
  <1>14. QED
    BY <1>1, <1>8, <1>9, <1>10, <1>11, <1>12, <1>13, BoardKeeps

-----------------------------------------------------------------------------
(* The main loop: od_tick.                                                 *)

Reply == [seq : Nat, res : Response]

LEMMA PostedThere ==
    ASSUME NEW box \in [Peer -> Seq(Reply)], NEW d \in Datagram,
           NEW res \in Od!Result \cup {"queue_full"}, NEW val \in Value
    PROVE  /\ Posted(box, d, res, val) \in [Peer -> Seq(Reply)]
           /\ \A p \in Peer : Elems(Posted(box, d, res, val)[p]) \subseteq
                  Elems(box[p]) \cup {r \in {[seq |-> d.seq, res |-> [res |-> res, val |-> val]]} :
                                          p = d.peer}
  <1> DEFINE r == [seq |-> d.seq, res |-> [res |-> res, val |-> val]]
             s == Push(box[d.peer], r)
  <1>1. r \in Reply /\ d.peer \in Peer
    BY DEF Reply, Response, Datagram
  <1>2. s \in Seq(Reply) /\ Elems(s) \subseteq Elems(box[d.peer]) \cup {r}
    <2> HIDE DEF r
    <2>1. box[d.peer] \in Seq(Reply)
      BY <1>1
    <2>2. QED
      BY <1>1, <2>1, Pushed
  <1>3. Posted(box, d, res, val) = [box EXCEPT ![d.peer] = s]
    BY DEF Posted
  <1> HIDE DEF s
  <1>4. Posted(box, d, res, val) \in [Peer -> Seq(Reply)]
    BY <1>1, <1>2, <1>3
  <1>5. ASSUME NEW p \in Peer
        PROVE  Elems(Posted(box, d, res, val)[p]) \subseteq
                   Elems(box[p]) \cup {e \in {r} : p = d.peer}
    <2> HIDE DEF r
    <2>1. CASE p = d.peer
      BY <1>1, <1>2, <1>3, <2>1
    <2>2. CASE p # d.peer
      BY <1>1, <1>3, <2>2
    <2>3. QED
      BY <2>1, <2>2
  <1>6. QED
    BY <1>4, <1>5

(* An answer in a box is no newer than the tool's request, and an "ok" to  *)
(* that request is one the tool was to get anyhow.                         *)
Backed(p, r) ==
    /\ r.seq <= client[p].seq
    /\ \A v \in Value : /\ client[p].st = "waiting" /\ r.seq = client[p].seq
                        /\ r.res = [res |-> "ok", val |-> v]
                        => Answered(p, v)

(* service_pending: the answer that came back goes into the tool's box,    *)
(* and no complete request of the bridge is left in the slot.              *)
LEMMA Serviced ==
    ASSUME BridgeInv
    PROVE  /\ SlotLeft \in Od!Slot
           /\ SlotLeft.owner = "bridge" => PendingLeft # Nothing /\ SlotLeft.req = PendingLeft
                                           /\ SlotLeft.st # "complete"
           /\ SlotLeft.st = "complete" => SlotLeft.res # "none"
           /\ PendingLeft \in {pending, Nothing}
           /\ RepliesLeft \in [Peer -> Seq(Reply)]
           /\ \A p \in Peer : \A r \in Elems(RepliesLeft[p]) : Backed(p, r)
  <1>1. /\ BridgeTypeOK /\ SlotIsWatched /\ NumbersRise /\ PromisesHold
        /\ replies \in [Peer -> Seq(Reply)]
    BY DEF BridgeInv, BridgeTypeOK, Reply
  <1>2. \A p \in Peer : \A r \in Box(p) : Backed(p, r)
    BY <1>1 DEF NumbersRise, Backed, Answered
  <1>3. CASE Served
    <2>1. /\ InFlight /\ slot.st = "complete" /\ slot.owner = "bridge"
          /\ SlotLeft = Od!FreeSlot /\ PendingLeft = Nothing
          /\ RepliesLeft = Posted(replies, pending, slot.res, got)
      BY <1>3 DEF Served, Od!SlotReady, SlotLeft, PendingLeft, RepliesLeft
    <2>2. /\ SlotLeft \in Od!Slot /\ SlotLeft.owner = "none" /\ SlotLeft.st = "idle"
      BY <2>1 DEF Od!FreeSlot, Od!Slot
    <2>3. pending \in Datagram /\ slot.res \in Od!Result /\ got \in Value
          /\ pending.peer \in Peer /\ pending.seq <= client[pending.peer].seq
      BY <1>1, <2>1, Transit DEF BridgeTypeOK, SlotIsWatched, Od!Slot, Datagram, NumbersRise
    <2>4. /\ RepliesLeft \in [Peer -> Seq(Reply)]
          /\ \A p \in Peer : Elems(RepliesLeft[p]) \subseteq Box(p) \cup
                 {r \in {[seq |-> pending.seq, res |-> [res |-> slot.res, val |-> got]]} :
                      p = pending.peer}
      <3>1. /\ Posted(replies, pending, slot.res, got) \in [Peer -> Seq(Reply)]
            /\ \A p \in Peer : Elems(Posted(replies, pending, slot.res, got)[p]) \subseteq
                   Elems(replies[p]) \cup
                   {r \in {[seq |-> pending.seq, res |-> [res |-> slot.res, val |-> got]]} :
                        p = pending.peer}
        BY <1>1, <2>3, PostedThere
      <3>2. \A p \in Peer : Box(p) = Elems(replies[p])
        BY <1>1, Transit
      <3>3. QED
        BY <2>1, <3>1, <3>2
    <2>5. Backed(pending.peer, [seq |-> pending.seq, res |-> [res |-> slot.res, val |-> got]])
      BY <2>1, <2>3 DEF Backed, Answered
    <2>6. QED
      BY <1>2, <2>1, <2>2, <2>4, <2>5
  <1>4. CASE ~Served
    <2>1. SlotLeft = slot /\ PendingLeft = pending /\ RepliesLeft = replies
      BY <1>4 DEF SlotLeft, PendingLeft, RepliesLeft
    <2>2. slot.owner = "bridge" => slot.st # "complete"
      BY <1>1, <1>4 DEF Served, SlotIsWatched, Od!SlotReady
    <2>3. QED
      BY <1>1, <1>2, <2>1, <2>2, Transit DEF BridgeTypeOK, SlotIsWatched, InFlight
  <1>5. QED
    BY <1>3, <1>4

(* One turn of od_tick, by what it leaves pending and in the boxes.        *)
LEMMA TurnKeeps ==
    ASSUME BridgeInv, UNCHANGED <<client, boots, told, sure>>,
           got' = IF Served THEN Some ELSE got,
           inbox' \in Seq(Datagram), Rising(inbox'), Wire' \subseteq Wire,
           replies' \in [Peer -> Seq(Reply)],
           entry' \in [Peer -> [{"motor", "cmc"} -> Value]],
           slot' \in Od!Slot, slot'.owner = "bridge" => InFlight' /\ slot'.req = pending'
                                                        /\ slot'.st # "complete",
           slot'.st = "complete" => slot'.res # "none",
           pending' \in Outstanding \cup {Nothing},
           InFlight' => /\ pending'.op.at = "motor"
                        /\ \A d \in Wire' : d.peer = pending'.peer => pending'.seq <= d.seq,
           \A p \in Peer : \A r \in Elems(replies'[p]) : r.seq <= client[p].seq,
           \A p \in Peer, v \in Value : \A r \in Elems(replies'[p]) :
               /\ client[p].st = "waiting" /\ r.seq = client[p].seq
               /\ r.res = [res |-> "ok", val |-> v]
               => Answered(p, v) \/ Given(p, v),
           \A p \in Peer, v \in Value, b \in {"motor", "cmc"} :
               Settled(p, b, v) /\ (b = "motor" => p \in sure) => entry'[p][b] = v
    PROVE  BridgeInv'
  <1>1. BridgeTypeOK /\ Outstanding \subseteq Datagram /\ Wire \subseteq Outstanding
    BY Transit DEF BridgeInv
  <1>2. got' \in Value
    BY <1>1, OdBridgeAssumption DEF BridgeTypeOK, Some
  <1>3. BridgeTypeOK'
    BY <1>1, <1>2 DEF BridgeTypeOK, Reply
  <1>4. SlotIsWatched'
    BY DEF SlotIsWatched
  <1>5. Outstanding' \subseteq Outstanding
    BY <1>1 DEF Outstanding
  <1>6. \A p \in Peer : Box(p)' = Elems(replies'[p])
    BY DEF Box, Elems
  <1>7. \A p \in Peer : \A r \in Box(p)' : r.seq <= client[p].seq
    BY <1>6 DEF Backed
  <1>8. ASSUME NEW p \in Peer, NEW v \in Value, Answered(p, v)'
        PROVE  Answered(p, v) \/ Given(p, v)
    <2>1. PICK r \in Elems(replies'[p]) : /\ client[p].st = "waiting" /\ r.seq = client[p].seq
                                          /\ r.res = [res |-> "ok", val |-> v]
      BY <1>6, <1>8 DEF Answered
    <2>2. QED
      BY <2>1 DEF Backed
  <1>9. QED
    BY <1>3, <1>4, <1>5, <1>7, <1>8, BoardKeeps

(* What stays pending is older than what comes in.                         *)
LEMMA StaysPending ==
    ASSUME BridgeInv, pending' = PendingLeft, Wire' \subseteq Wire
    PROVE  /\ pending' \in Outstanding \cup {Nothing}
           /\ InFlight' => /\ pending'.op.at = "motor"
                           /\ \A d \in Wire' : d.peer = pending'.peer => pending'.seq <= d.seq
  <1>1. CASE pending' = pending
    BY <1>1, Transit DEF BridgeInv, NumbersRise, InFlight
  <1>2. CASE pending' = Nothing
    BY <1>2 DEF InFlight
  <1>3. QED
    BY <1>1, <1>2, Serviced

LEMMA OdTickKeeps ==
    ASSUME BridgeInv, OdTick
    PROVE  BridgeInv'
  <1>1. /\ UNCHANGED <<client, boots, told, sure>>
        /\ got' = IF Served THEN Some ELSE got
    BY DEF OdTick
  <1>2. /\ BridgeTypeOK /\ NumbersRise /\ Rising(inbox)
    BY OneNumber DEF BridgeInv
  <1>3. \A p \in Peer, v \in Value, b \in {"motor", "cmc"} :
            Settled(p, b, v) /\ (b = "motor" => p \in sure) => entry[p][b] = v
    BY DEF Settled
  <1>4. CASE /\ inbox = <<>> /\ replies' = RepliesLeft
             /\ pending' = PendingLeft /\ slot' = SlotLeft
             /\ UNCHANGED <<inbox, entry>>
    <2>1. Wire' = Wire
      BY <1>4 DEF Wire
    <2>2. /\ entry' \in [Peer -> [{"motor", "cmc"} -> Value]]
          /\ inbox' \in Seq(Datagram) /\ Rising(inbox')
      BY <1>2, <1>4 DEF BridgeTypeOK
    <2>3. QED
      BY <1>1, <1>3, <1>4, <2>1, <2>2, StaysPending, Serviced, TurnKeeps DEF InFlight, Backed
  <1>5. CASE inbox # <<>> /\ inbox' = Tail(inbox)
    <2> DEFINE d == Head(inbox)
               kept == Done(d.op, entry[d.peer]["cmc"])
               carried == [entry EXCEPT ![d.peer]["cmc"] = kept]
    <2>1. /\ inbox' \in Seq(Datagram) /\ Rising(inbox')
          /\ d \in Datagram /\ d \in Wire /\ Wire' \subseteq Wire
          /\ \A e \in Wire' : e.peer = d.peer => d.seq <= e.seq
      <3>1. inbox \in Seq(Datagram) /\ Wire = Elems(inbox) /\ Wire' = Elems(inbox')
        BY <1>2 DEF BridgeTypeOK, Wire, Elems
      <3>2. QED
        BY <1>2, <1>5, <3>1, Taken, TakenRises
    <2>2. /\ d.peer \in Peer /\ d.op \in Op /\ d.seq <= client[d.peer].seq
          /\ d \in Outstanding
      BY <1>2, <2>1, Transit DEF NumbersRise, Datagram
    <2>3. /\ entry \in [Peer -> [{"motor", "cmc"} -> Value]]
          /\ RepliesLeft \in [Peer -> Seq(Reply)]
      BY <1>2, Serviced DEF BridgeTypeOK
    <2> HIDE DEF d
    <2>4. CASE Local(d)
      <3>1. /\ d.op.at = "cmc" /\ entry' = carried
            /\ replies' = Posted(RepliesLeft, d, "ok", kept)
            /\ pending' = PendingLeft /\ slot' = SlotLeft
        BY <2>4 DEF Local
      <3>2. kept \in Value /\ entry[d.peer]["cmc"] \in Value
        BY <2>2, <2>3, DoneTwice
      <3>3. /\ entry' \in [Peer -> [{"motor", "cmc"} -> Value]]
            /\ entry'[d.peer]["cmc"] = kept
            /\ \A p \in Peer : /\ entry'[p]["motor"] = entry[p]["motor"]
                               /\ p # d.peer => entry'[p] = entry[p]
        <4> HIDE DEF kept
        <4>1. QED
          BY <2>2, <2>3, <3>1, <3>2
      <3>4. /\ replies' \in [Peer -> Seq(Reply)]
            /\ \A p \in Peer : Elems(replies'[p]) \subseteq Elems(RepliesLeft[p]) \cup
                   {r \in {[seq |-> d.seq, res |-> [res |-> "ok", val |-> kept]]} : p = d.peer}
        <4> HIDE DEF kept
        <4>1. "ok" \in Od!Result \cup {"queue_full"}
          BY DEF Od!Result
        <4>2. /\ Posted(RepliesLeft, d, "ok", kept) \in [Peer -> Seq(Reply)]
              /\ \A p \in Peer : Elems(Posted(RepliesLeft, d, "ok", kept)[p]) \subseteq
                     Elems(RepliesLeft[p]) \cup
                     {r \in {[seq |-> d.seq, res |-> [res |-> "ok", val |-> kept]]} : p = d.peer}
          BY <2>1, <2>3, <3>2, <4>1, PostedThere
        <4>3. QED
          BY <3>1, <4>2
      <3>5. /\ pending' \in Outstanding \cup {Nothing}
            /\ InFlight' => /\ pending'.op.at = "motor"
                            /\ \A e \in Wire' : e.peer = pending'.peer => pending'.seq <= e.seq
        BY <2>1, <3>1, StaysPending
      <3>6. ASSUME NEW p, NEW v, p = d.peer, v = kept,
                   client[p].st = "waiting", d.seq = client[p].seq
            PROVE  Given(p, v)
        <4>1. \A e \in Outstanding' : e.peer = d.peer /\ e.op.at = d.op.at => d.seq <= e.seq
          BY <2>1, <3>1, <3>5 DEF Outstanding, InFlight
        <4>2. kept = Done(d.op, entry[d.peer]["cmc"])
          OBVIOUS
        <4> HIDE DEF kept
        <4>3. QED
          BY <2>2, <3>1, <3>2, <3>3, <3>6, <4>1, <4>2 DEF Given
      <3>7. ASSUME NEW p \in Peer, NEW r \in Elems(replies'[p]),
                   r \notin Elems(RepliesLeft[p])
            PROVE  p = d.peer /\ r.seq = d.seq /\ r.res = [res |-> "ok", val |-> kept]
        <4> HIDE DEF kept
        <4>1. QED
          BY <3>4, <3>7
      <3>8. ASSUME NEW p \in Peer, NEW r \in Elems(replies'[p])
             PROVE  r.seq <= client[p].seq
        <4> HIDE DEF kept
        <4>1. QED
          BY <2>2, <3>7, Serviced DEF Backed
      <3>9. ASSUME NEW p \in Peer, NEW v \in Value, NEW r \in Elems(replies'[p]),
                    client[p].st = "waiting", r.seq = client[p].seq,
                    r.res = [res |-> "ok", val |-> v]
             PROVE  Answered(p, v) \/ Given(p, v)
        <4> HIDE DEF kept
        <4>1. CASE r \in Elems(RepliesLeft[p])
          BY <3>9, <4>1, Serviced DEF Backed
        <4>2. CASE r \notin Elems(RepliesLeft[p])
          <5>1. p = d.peer /\ v = kept /\ d.seq = client[p].seq
            BY <3>7, <3>9, <4>2
          <5>2. QED
            BY <3>6, <3>9, <5>1
        <4>3. QED
          BY <4>1, <4>2
      <3>10. ASSUME NEW p \in Peer, NEW v \in Value, NEW b \in {"motor", "cmc"},
                   Settled(p, b, v), b = "motor" => p \in sure
            PROVE  entry'[p][b] = v
        <4>1. entry[p][b] = v /\ (p = d.peer /\ b = "cmc" => Done(d.op, v) = v)
          BY <2>2, <3>1, <3>10 DEF Settled
        <4>2. p = d.peer /\ b = "cmc" => kept = Done(d.op, v)
          BY <4>1
        <4> HIDE DEF kept
        <4>3. QED
          BY <3>3, <4>1, <4>2
      <3> HIDE DEF kept, carried
      <3>11. QED
        BY <1>1, <2>1, <3>1, <3>3, <3>4, <3>5, <3>10, <3>8, <3>9, Serviced, TurnKeeps DEF InFlight
    <2>5. CASE Dropped(d)
      <3>1. /\ replies' = RepliesLeft /\ entry' = entry
            /\ pending' = PendingLeft /\ slot' = SlotLeft
        BY <2>5 DEF Dropped
      <3>2. QED
        BY <1>1, <1>3, <2>1, <2>3, <3>1, StaysPending, Serviced, TurnKeeps DEF InFlight, Backed
    <2>6. CASE Refused(d)
      <3>1. /\ replies' = Posted(RepliesLeft, d, "queue_full", Some) /\ entry' = entry
            /\ pending' = PendingLeft /\ slot' = SlotLeft
        BY <2>6 DEF Refused
      <3>2. Some \in Value
        BY OdBridgeAssumption DEF Some
      <3>3. /\ replies' \in [Peer -> Seq(Reply)]
            /\ \A p \in Peer : Elems(replies'[p]) \subseteq Elems(RepliesLeft[p]) \cup
                   {r \in {[seq |-> d.seq, res |-> [res |-> "queue_full", val |-> Some]]} :
                        p = d.peer}
        <4>1. "queue_full" \in Od!Result \cup {"queue_full"}
          OBVIOUS
        <4>2. /\ Posted(RepliesLeft, d, "queue_full", Some) \in [Peer -> Seq(Reply)]
              /\ \A p \in Peer : Elems(Posted(RepliesLeft, d, "queue_full", Some)[p]) \subseteq
                     Elems(RepliesLeft[p]) \cup
                     {r \in {[seq |-> d.seq, res |-> [res |-> "queue_full", val |-> Some]]} :
                          p = d.peer}
          BY <2>1, <2>3, <3>2, <4>1, PostedThere
        <4>3. QED
          BY <3>1, <4>2
      <3>4. ASSUME NEW p \in Peer, NEW r \in Elems(replies'[p])
            PROVE  Backed(p, r)
        <4>1. CASE r \in Elems(RepliesLeft[p])
          BY <4>1, Serviced
        <4>2. CASE /\ p = d.peer
                   /\ r = [seq |-> d.seq, res |-> [res |-> "queue_full", val |-> Some]]
          BY <2>2, <4>2 DEF Backed
        <4>3. QED
          BY <3>3, <3>4, <4>1, <4>2
      <3>5. QED
        BY <1>1, <1>3, <2>1, <2>3, <3>1, <3>3, <3>4, StaysPending, Serviced, TurnKeeps DEF InFlight, Backed
    <2>7. CASE Forward(d)
      <3>1. /\ replies' = RepliesLeft /\ entry' = entry /\ d.op.at = "motor"
            /\ pending' = d /\ slot' = Od!Asked("bridge", d)
        BY <2>7 DEF Forward
      <3>2. /\ slot' \in Od!Slot /\ slot'.owner = "bridge" /\ slot'.req = pending'
            /\ slot'.st = "busy"
        BY <2>1, <3>1 DEF Od!Asked, Od!Slot
      <3>3. pending' # Nothing
        <4>1. DOMAIN d = {"peer", "seq", "op"} /\ DOMAIN Nothing = {"kind"}
          BY <2>1 DEF Datagram, Nothing
        <4>2. QED
          BY <3>1, <4>1
      <3>4. QED
        BY <1>1, <1>3, <2>1, <2>2, <2>3, <3>1, <3>2, <3>3, Serviced, TurnKeeps DEF InFlight, Backed
    <2>8. QED
      BY <2>4, <2>5, <2>6, <2>7, <1>4, <1>5 DEF OdTick, d
  <1>6. QED
    BY <1>4, <1>5 DEF OdTick

-----------------------------------------------------------------------------
(* The invariant.                                                          *)

LEMMA BridgeInitInv ==
    ASSUME BridgeInit
    PROVE  BridgeInv
  <1>1. Some \in Value /\ MaxBoots \in Nat
    BY OdBridgeAssumption DEF Some
  <1>2. Idle \in Client /\ Idle.st = "idle" /\ Idle.seq = 0
    BY <1>1, OdBridgeAssumption DEF Idle, Client, Op
  <1>3. slot = Od!FreeSlot /\ slot \in Od!Slot /\ slot.owner = "none" /\ slot.st = "idle"
    BY DEF BridgeInit, Od!SlotInit, Od!FreeSlot, Od!Slot
  <1>4. \A p \in Peer : client[p] = Idle /\ told[p] = Nothing /\ replies[p] = <<>>
    BY DEF BridgeInit
  <1>5. BridgeTypeOK
    BY <1>1, <1>2, <1>3 DEF BridgeInit, BridgeTypeOK
  <1>6. Wire = {} /\ Outstanding = {} /\ ~InFlight /\ \A p \in Peer : Box(p) = {}
    BY <1>4 DEF BridgeInit, Wire, Outstanding, InFlight, Box
  <1>7. SlotIsWatched /\ OneNumberOneRequest /\ ToldIsOver
    BY <1>2, <1>3, <1>4, <1>6 DEF SlotIsWatched, OneNumberOneRequest, ToldIsOver
  <1>8. NumbersRise
    BY <1>6 DEF NumbersRise, BridgeInit
  <1>9. PromisesHold
    <2>1. \A p \in Peer, v \in Value : ~Answered(p, v)
      BY <1>2, <1>4 DEF Answered
    <2>2. \A p \in Peer, v \in Value, b \in {"motor", "cmc"} : ~Promised(p, b, v)
      BY <1>4, <2>1, NothingIsNoWord DEF Promised
    <2>3. QED
      BY <2>1, <2>2 DEF PromisesHold
  <1>10. QED
    BY <1>5, <1>7, <1>8, <1>9 DEF BridgeInv

LEMMA BridgeNextInv ==
    ASSUME BridgeInv, [BridgeNext]_bridgeVars
    PROVE  BridgeInv'
  <1>1. ASSUME NEW p \in Peer, NEW op \in Asks[p], Ask(p, op) PROVE BridgeInv'
    BY <1>1, AskKeeps
  <1>2. ASSUME NEW p \in Peer, Repeat(p) \/ GiveUp(p) \/ Hear(p) \/ AskAgain(p)
        PROVE  BridgeInv'
    BY <1>2, RepeatKeeps, GiveUpKeeps, HearKeeps, AskAgainKeeps
  <1>3. CASE OdTick
    BY <1>3, OdTickKeeps
  <1>4. CASE MotorEnds
    BY <1>4, MotorEndsKeeps
  <1>5. CASE OthersBegin \/ OthersCollect
    BY <1>5, OthersKeep
  <1>6. CASE MotorBoots
    BY <1>6, MotorBootsKeeps
  <1>7. CASE Lost
    BY <1>7, LostKeeps
  <1>8. CASE UNCHANGED bridgeVars
    <2>1. /\ Wire' = Wire /\ Outstanding' = Outstanding /\ InFlight' = InFlight
          /\ \A p \in Peer : Box(p)' = Box(p)
      BY <1>8 DEF bridgeVars, Wire, Outstanding, InFlight, Box
    <2>2. BridgeTypeOK' /\ SlotIsWatched'
      BY <1>8 DEF bridgeVars, BridgeInv, BridgeTypeOK, SlotIsWatched, InFlight
    <2>3. \A p \in Peer, v \in Value : Answered(p, v)' => Answered(p, v)
      BY <1>8, <2>1 DEF bridgeVars, Answered
    <2>4. \A p \in Peer, v \in Value, b \in {"motor", "cmc"} :
              Settled(p, b, v) /\ (b = "motor" => p \in sure') => entry'[p][b] = v
      BY <1>8 DEF bridgeVars, Settled
    <2>5. InFlight' => /\ pending'.op.at = "motor"
                       /\ \A d \in Wire' : d.peer = pending'.peer => pending'.seq <= d.seq
      BY <1>8, <2>1 DEF bridgeVars, BridgeInv, NumbersRise
    <2>6. Rising(inbox') /\ UNCHANGED <<client, told, sure>>
      BY <1>8, OneNumber DEF bridgeVars, BridgeInv
    <2>7. QED
      BY <2>1, <2>2, <2>3, <2>4, <2>5, <2>6, BoardKeeps
  <1>9. QED
    BY <1>1, <1>2, <1>3, <1>4, <1>5, <1>6, <1>7, <1>8 DEF BridgeNext

(* Whatever is lost, repeated or thrown away with the slot: what is pending *)
(* in app/od is what the slot holds for it, datagrams come to the motor and *)
(* answers to the tools in the order of their numbers, and an answer that   *)
(* is under way is the answer to the request its tool waits for.            *)
THEOREM BridgeInvariance == BridgeSpec => []BridgeInv
  <1>1. BridgeInit => BridgeInv
    BY BridgeInitInv
  <1>2. BridgeInv /\ [BridgeNext]_bridgeVars => BridgeInv'
    BY BridgeNextInv
  <1>3. QED
    BY <1>1, <1>2, PTL DEF BridgeSpec

(* What a tool was told of an entry by _transaction stays so until it asks  *)
(* again or the motor restarts: no repetition of an older datagram is       *)
(* carried out afterwards.                                                  *)
THEOREM ToldHold == BridgeSpec => []ToldHolds
  <1>1. BridgeInv => ToldHolds
    <2> SUFFICES ASSUME BridgeInv, NEW p \in Peer, told[p] # Nothing,
                        told[p].at = "motor" => p \in sure
                 PROVE  entry[p][told[p].at] = told[p].val
      BY DEF ToldHolds
    <2>1. /\ told[p] = [at |-> told[p].at, val |-> told[p].val]
          /\ told[p].at \in {"motor", "cmc"} /\ told[p].val \in Value
      BY DEF BridgeInv, BridgeTypeOK, Word
    <2>2. Settled(p, told[p].at, told[p].val)
      BY <2>1 DEF BridgeInv, PromisesHold, Promised
    <2>3. QED
      BY <2>2 DEF Settled
  <1>2. QED
    BY <1>1, BridgeInvariance, PTL

=============================================================================
