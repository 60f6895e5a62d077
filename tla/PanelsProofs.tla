---------------------------- MODULE PanelsProofs ----------------------------
(***************************************************************************)
(* Theorems about Panels, for any number of panels, any numbers they go by *)
(* and any times: the outbound socket is lent to one live panel, the       *)
(* camera is selected by a panel that is there, and is switched on.        *)
(***************************************************************************)
EXTENDS Panels, WellFoundedInduction, TLAPS

USE DEF outbound, camera

Shape ==
    /\ at \in {"rest", "poll", "outbound", "commands", "timeouts"}
    /\ owner \in Panel \cup {NoPanel}
    /\ sock \in {"closed", "syn", "established", "dropped"}
    /\ up \subseteq Panel
    /\ selected \in Numbers \cup {NoNumber}

Flags == latch \in BOOLEAN /\ astray \in BOOLEAN /\ forced \in BOOLEAN

Records == rec \in [Panel -> Record]

LEMMA TypeParts == TypeOK <=> Shape /\ Flags /\ Records
  BY DEF TypeOK, Shape, Flags, Records

(* A set of naturals that is not empty has a least element.                *)
LEMMA Least ==
    ASSUME NEW S \in SUBSET Nat, S # {}
    PROVE  \E k \in S : \A j \in S : k <= j
  <1> DEFINE R == OpToRel(<, Nat)
  <1>1. R = {ss \in Nat \X Nat : ss[1] < ss[2]}
    BY DEF OpToRel
  <1>2. IsWellFoundedOn(R, Nat)
    BY NatLessThanWellFounded, Zenon
  <1> HIDE DEF R
  <1>3. PICK k \in S : \A j \in S : ~(<<j, k>> \in R)
    BY <1>2, WFMin, Zenon
  <1>4. \A j \in S : ~(j < k)
    BY <1>1, <1>3
  <1>5. QED
    BY <1>4

(* The panel the socket is lent to is one that waits for an answer.        *)
LEMMA FirstWaits ==
    ASSUME Waiting # {}
    PROVE  First \in Panel /\ rec[First].inUse /\ rec[First].pending
  <1>1. Waiting \in SUBSET Nat
    BY PanelsAssumption DEF Waiting
  <1>2. PICK k \in Waiting : \A j \in Waiting : k <= j
    BY <1>1, Least
  <1> DEFINE c == CHOOSE j \in Waiting : \A i \in Waiting : j <= i
  <1>3. c \in Waiting
    BY <1>2
  <1>4. First = Panels[c]
    BY DEF First
  <1> HIDE DEF c
  <1>5. QED
    BY <1>3, <1>4 DEF Waiting, Panel

-----------------------------------------------------------------------------
(* Records stay records.                                                   *)

LEMMA LaterBounded ==
    ASSUME NEW bound \in Nat, NEW t \in 0..bound + 1
    PROVE  Later(t, bound) \in 0..bound + 1
  BY DEF Later

LEMMA OlderRecord ==
    ASSUME NEW r \in Record
    PROVE  /\ Older(r) \in Record
           /\ Older(r).inUse = r.inUse /\ Older(r).dev = r.dev
           /\ Older(r).pending = r.pending /\ Older(r).connecting = r.connecting
  <1>1. /\ Later(r.age, PollTime) \in 0..PollTime + 1
        /\ Later(r.waited, ConnectTime) \in 0..ConnectTime + 1
    BY PanelsAssumption, LaterBounded DEF Record
  <1>2. QED
    BY <1>1 DEF Older, Record

LEMMA BlankRecord == Blank \in Record
  <1>1. 0 \in 0..PollTime + 1 /\ 0 \in 0..ConnectTime + 1
    BY PanelsAssumption
  <1>2. QED
    BY <1>1 DEF Blank, Record

LEMMA NumberIsOne == ASSUME NEW p \in Panel, NEW d \in Number[p] PROVE d \in Numbers
  BY DEF Numbers

(* No panel is nobody.                                                     *)
LEMMA Nobody == NoPanel \notin Panel /\ NoNumber \notin Numbers
  BY PanelsAssumption

-----------------------------------------------------------------------------
(* The parts of the invariant that each step disturbs.                     *)

LEMMA BeginKeeps ==
    ASSUME Records, LentToOne, Shape, NEW elapsed \in BOOLEAN, Begin(elapsed)
    PROVE  Records' /\ LentToOne'
  <1>1. \A p \in Panel : rec[p] \in Record
    BY DEF Records
  <1>2. CASE elapsed
    <2>1. rec' = [p \in Panel |-> Older(rec[p])]
      BY <1>2 DEF Begin
    <2>2. \A p \in Panel : /\ rec'[p] \in Record
                           /\ rec'[p].inUse = rec[p].inUse
                           /\ rec'[p].pending = rec[p].pending
                           /\ rec'[p].connecting = rec[p].connecting
      BY <1>1, <2>1, OlderRecord
    <2>3. Records'
      BY <2>1, <2>2 DEF Records
    <2>4. owner' = owner /\ sock' = sock
      BY DEF Begin
    <2>5. LentToOne'
      BY <2>2, <2>4, Nobody DEF LentToOne, Shape
    <2>6. QED
      BY <2>3, <2>5
  <1>3. CASE ~elapsed
    BY <1>3 DEF Begin, Records, LentToOne
  <1>4. QED
    BY <1>2, <1>3

LEMMA PollKeeps ==
    ASSUME Records, LentToOne, Shape, NEW p \in Panel, NEW d \in Number[p], Poll(p, d)
    PROVE  Records' /\ LentToOne'
  <1> DEFINE e == IF rec[p].inUse THEN rec[p].dev ELSE d
  <1>1. \A q \in Panel : rec[q] \in Record
    BY DEF Records
  <1>2. rec' = [rec EXCEPT ![p] = [@ EXCEPT !.inUse = TRUE, !.dev = e,
                                            !.pending = TRUE, !.age = 0]]
    BY DEF Poll
  <1>3. e \in Numbers \cup {NoNumber} /\ 0 \in 0..PollTime + 1
    BY <1>1, NumberIsOne, PanelsAssumption DEF Record
  <1> HIDE DEF e
  <1>4. /\ rec'[p] \in Record /\ rec'[p].inUse /\ rec'[p].pending
        /\ rec'[p].connecting = rec[p].connecting
        /\ \A q \in Panel : q # p => rec'[q] = rec[q]
    BY <1>1, <1>2, <1>3 DEF Record, Records
  <1>5. Records'
    BY <1>1, <1>2, <1>4 DEF Records
  <1>6. owner' = owner /\ sock' = sock
    BY DEF Poll
  <1>7. LentToOne'
    BY <1>4, <1>6, Nobody DEF LentToOne, Shape
  <1>8. QED
    BY <1>5, <1>7

(* The socket is given back, with the owner's request as it is to be.      *)
LEMMA ReleaseKeeps ==
    ASSUME Records, LentToOne, Shape, owner # NoPanel, NEW pending \in BOOLEAN, Release(pending)
    PROVE  Records' /\ LentToOne' /\ owner' = NoPanel /\ sock' = "closed"
  <1>1. owner \in Panel /\ \A q \in Panel : rec[q] \in Record
    BY DEF Records, Shape
  <1>2. rec' = [rec EXCEPT ![owner] = [@ EXCEPT !.connecting = FALSE, !.waited = 0,
                                                !.pending = pending]]
    BY <1>1 DEF Release, Records
  <1>3. 0 \in 0..ConnectTime + 1
    BY PanelsAssumption
  <1>4. /\ rec'[owner] \in Record /\ ~rec'[owner].connecting
        /\ \A q \in Panel : q # owner => rec'[q] = rec[q]
    BY <1>1, <1>2, <1>3 DEF Record, Records
  <1>5. Records'
    BY <1>1, <1>2, <1>4 DEF Records
  <1>6. owner' = NoPanel /\ sock' = "closed"
    BY DEF Release
  <1>7. LentToOne'
    BY <1>4, <1>6 DEF LentToOne
  <1>8. QED
    BY <1>5, <1>6, <1>7

LEMMA AcquireKeeps ==
    ASSUME Records, LentToOne, Shape, Acquire
    PROVE  Records' /\ LentToOne' /\ owner' \in Panel /\ sock' \in {"closed", "syn"}
  <1>1. /\ First \in Panel /\ rec[First].inUse /\ rec[First].pending
        /\ owner = NoPanel /\ owner' = First
    BY FirstWaits DEF Acquire
  <1>2. \A q \in Panel : rec[q] \in Record /\ ~rec[q].connecting
    BY <1>1, Nobody DEF Records, LentToOne
  <1>3. CASE /\ sock' = "syn"
             /\ rec' = [rec EXCEPT ![First].connecting = TRUE, ![First].waited = 0]
    <2>1. rec' = [rec EXCEPT ![First] = [@ EXCEPT !.connecting = TRUE, !.waited = 0]]
      BY <1>1, <1>3 DEF Records
    <2>2. 0 \in 0..ConnectTime + 1
      BY PanelsAssumption
    <2>3. /\ rec'[First] \in Record /\ rec'[First].connecting
          /\ rec'[First].inUse /\ rec'[First].pending
          /\ \A q \in Panel : q # First => rec'[q] = rec[q]
      BY <1>1, <1>2, <2>1, <2>2 DEF Record, Records
    <2>4. Records'
      BY <1>1, <1>2, <2>1, <2>3 DEF Records
    <2>5. LentToOne'
      BY <1>1, <1>2, <2>3, Nobody DEF LentToOne
    <2>6. QED
      BY <1>1, <1>3, <2>4, <2>5
  <1>4. CASE sock' = "closed" /\ rec' = rec
    BY <1>1, <1>2, <1>4 DEF Records, LentToOne
  <1>5. QED
    BY <1>3, <1>4 DEF Acquire

LEMMA OutboundKeeps ==
    ASSUME Records, LentToOne, Shape, Outbound
    PROVE  /\ Records' /\ LentToOne'
           /\ owner' \in Panel \cup {NoPanel}
           /\ sock' \in {"closed", "syn", "established", "dropped"}
  <1>1. CASE Acquire
    BY <1>1, AcquireKeeps
  <1>2. CASE Answer \/ ConnectTimesOut
    <2>1. owner # NoPanel /\ \E pending \in BOOLEAN : Release(pending)
      BY <1>2 DEF Answer, ConnectTimesOut
    <2>2. QED
      BY <2>1, ReleaseKeeps
  <1>3. CASE NothingToDo
    BY <1>3 DEF NothingToDo, Records, LentToOne, Shape
  <1>4. QED
    BY <1>1, <1>2, <1>3 DEF Outbound

LEMMA TimeoutsKeep ==
    ASSUME Records, LentToOne, Shape, Timeouts
    PROVE  /\ Records' /\ LentToOne'
           /\ owner' \in Panel \cup {NoPanel}
           /\ sock' \in {"closed", "syn", "established", "dropped"}
  <1>1. rec' = [p \in Panel |-> IF p \in Gone THEN Blank ELSE rec[p]]
    BY DEF Timeouts
  <1>2. \A p \in Panel : rec[p] \in Record
    BY DEF Records
  <1>3. Records'
    BY <1>1, <1>2, BlankRecord DEF Records
  <1>4. \A p \in Panel : /\ p \in Gone => ~rec'[p].connecting
                         /\ p \notin Gone => rec'[p] = rec[p]
    BY <1>1 DEF Blank
  <1>5. CASE Evicted(owner) /\ owner' = NoPanel /\ sock' = "closed"
    BY <1>3, <1>4, <1>5 DEF LentToOne, Evicted
  <1>6. CASE ~Evicted(owner) /\ owner' = owner /\ sock' = sock
    BY <1>3, <1>4, <1>6, Nobody DEF LentToOne, Evicted, Shape
  <1>7. QED
    BY <1>5, <1>6 DEF Timeouts

(* What is left alone.                                                     *)
LEMMA OthersKeep ==
    ASSUME Records, LentToOne, UNCHANGED <<rec, owner>>,
           sock' = sock \/ (sock # "closed" /\ sock' # "closed")
    PROVE  Records' /\ LentToOne'
  BY DEF Records, LentToOne

LEMMA RecordsKept ==
    ASSUME IInv, Next
    PROVE  Records' /\ LentToOne'
  <1>1. Records /\ LentToOne /\ Shape
    BY TypeParts DEF IInv
  <1>2. CASE \E elapsed \in BOOLEAN : Begin(elapsed)
    BY <1>1, <1>2, BeginKeeps
  <1>3. CASE \E p \in Panel : \E d \in Number[p] : Poll(p, d)
    BY <1>1, <1>3, PollKeeps
  <1>4. CASE Outbound
    BY <1>1, <1>4, OutboundKeeps
  <1>5. CASE Timeouts
    BY <1>1, <1>5, TimeoutsKeep
  <1>6. CASE \/ NoPoll \/ CommandsDone \/ OthersSwitch
             \/ \E p \in Panel : Command(p) \/ PanelConnects(p) \/ PanelDisconnects(p)
    <2>1. UNCHANGED <<rec, owner, sock>>
      BY <1>6 DEF NoPoll, CommandsDone, OthersSwitch, Command, PanelConnects, PanelDisconnects
    <2>2. QED
      BY <1>1, <2>1, OthersKeep
  <1>7. CASE Connected \/ Drops
    <2>1. UNCHANGED <<rec, owner>> /\ sock # "closed" /\ sock' # "closed"
      BY <1>7 DEF Connected, Drops
    <2>2. QED
      BY <1>1, <2>1, OthersKeep
  <1>8. QED
    BY <1>2, <1>3, <1>4, <1>5, <1>6, <1>7 DEF Next

LEMMA ShapeKept ==
    ASSUME IInv, Next
    PROVE  Shape'
  <1>1. Records /\ LentToOne /\ Shape
    BY TypeParts DEF IInv
  <1>2. /\ owner' \in Panel \cup {NoPanel}
        /\ sock' \in {"closed", "syn", "established", "dropped"}
    <2>1. CASE Outbound \/ Timeouts
      BY <1>1, <2>1, OutboundKeeps, TimeoutsKeep
    <2>2. CASE ~(Outbound \/ Timeouts)
      BY <1>1, <2>2 DEF Next, Begin, Poll, NoPoll, Command, CommandsDone, Connected, Drops,
           OthersSwitch, PanelConnects, PanelDisconnects, Shape
    <2>3. QED
      BY <2>1, <2>2
  <1>3. selected' \in Numbers \cup {NoNumber}
    <2>1. CASE \E p \in Panel : Command(p)
      BY <1>1, <2>1, NumberIsOne DEF Command, HandleSelect, HandleDeselect, Take, Shape
    <2>2. CASE Timeouts
      BY <1>1, <2>2 DEF Timeouts, Shape
    <2>3. CASE ~(Timeouts \/ \E p \in Panel : Command(p))
      BY <1>1, <2>3 DEF Next, Begin, Poll, NoPoll, Outbound, CommandsDone, Connected, Drops,
           OthersSwitch, PanelConnects, PanelDisconnects, Shape
    <2>4. QED
      BY <2>1, <2>2, <2>3
  <1>4. up' \subseteq Panel /\ at' \in {"rest", "poll", "outbound", "commands", "timeouts"}
    BY <1>1 DEF Next, Begin, Poll, NoPoll, Outbound, Command, CommandsDone, Timeouts, Connected,
         Drops, OthersSwitch, PanelConnects, PanelDisconnects, Shape
  <1>5. QED
    BY <1>2, <1>3, <1>4 DEF Shape

LEMMA FlagsKept ==
    ASSUME IInv, Next
    PROVE  Flags' /\ SelectedIsOn'
  <1>1. Flags /\ SelectedIsOn
    BY TypeParts, Zenon DEF IInv
  <1>2. CASE \E p \in Panel : Command(p)
    <2>1. \E d : Take(d) \/ HandleDeselect(d) \/ UNCHANGED camera
      BY <1>2, Zenon DEF Command, HandleSelect
    <2>2. ASSUME NEW d, Take(d) PROVE Flags' /\ SelectedIsOn'
      BY <2>2, Zenon DEF Take, Flags, SelectedIsOn
    <2>3. ASSUME NEW d, HandleDeselect(d) PROVE Flags' /\ SelectedIsOn'
      BY <1>1, <2>3, Zenon DEF HandleDeselect, Flags, SelectedIsOn
    <2>4. CASE UNCHANGED camera
      BY <1>1, <2>4, Zenon DEF Flags, SelectedIsOn
    <2>5. QED
      BY <2>1, <2>2, <2>3, <2>4, Zenon
  <1>3. CASE Timeouts
    <2>1. /\ selected' = IF Lost(selected) THEN NoNumber ELSE selected
          /\ latch' = (latch /\ ~Lost(selected))
          /\ UNCHANGED <<astray, forced>>
      BY <1>3, Zenon DEF Timeouts, SwitchesOff
    <2>2. QED
      BY <1>1, <2>1, Zenon DEF Flags, SelectedIsOn
  <1>4. CASE \E p \in Panel : \E d \in Number[p] : Poll(p, d)
    <2>1. /\ selected' = selected /\ latch' = latch /\ forced' = forced
          /\ \E b : astray' = (astray /\ ~b)
      BY <1>4, Zenon DEF Poll
    <2>2. astray' \in BOOLEAN
      BY <2>1
    <2>3. QED
      BY <1>1, <2>1, <2>2, Zenon DEF Flags, SelectedIsOn
  <1>5. CASE OthersSwitch
    <2>1. latch' = ~latch /\ forced' = TRUE /\ astray' = astray
      BY <1>5, Zenon DEF OthersSwitch
    <2>2. SelectedIsOn'
      BY <2>1, Zenon DEF SelectedIsOn
    <2>3. latch' \in BOOLEAN
      BY <2>1
    <2>4. Flags'
      BY <1>1, <2>1, <2>3, Zenon DEF Flags
    <2>5. QED
      BY <2>2, <2>4
  <1>6. CASE \/ \E elapsed \in BOOLEAN : Begin(elapsed)
             \/ NoPoll \/ Outbound \/ CommandsDone \/ Connected \/ Drops
             \/ \E p \in Panel : PanelConnects(p) \/ PanelDisconnects(p)
    <2>1. UNCHANGED camera
      BY <1>6, Zenon DEF Begin, NoPoll, Outbound, CommandsDone, Connected, Drops,
           PanelConnects, PanelDisconnects
    <2>2. QED
      BY <1>1, <2>1, Zenon DEF Flags, SelectedIsOn
  <1>7. QED
    BY <1>2, <1>3, <1>4, <1>5, <1>6, Zenon DEF Next

LEMMA InitIInv == Init => IInv
  <1> SUFFICES ASSUME Init PROVE IInv
    OBVIOUS
  <1>1. Records
    BY BlankRecord DEF Init, Records
  <1>2. Shape
    BY DEF Init, Shape
  <1>3. Flags /\ SelectedIsOn
    BY Zenon DEF Init, Flags, SelectedIsOn
  <1>4. LentToOne
    BY DEF Init, LentToOne, Blank
  <1>5. QED
    BY <1>1, <1>2, <1>3, <1>4, TypeParts DEF IInv

LEMMA NextIInv == IInv /\ [Next]_vars => IInv'
  <1> SUFFICES ASSUME IInv, [Next]_vars PROVE IInv'
    OBVIOUS
  <1>1. CASE Next
    <2>1. Records' /\ LentToOne' /\ Shape' /\ Flags' /\ SelectedIsOn'
      BY <1>1, RecordsKept, ShapeKept, FlagsKept
    <2>2. TypeOK'
      BY <2>1, Zenon DEF TypeOK, Shape, Flags, Records
    <2>3. QED
      BY <2>1, <2>2 DEF IInv
  <1>2. CASE UNCHANGED vars
    <2>1. UNCHANGED <<at, rec, owner, sock, up, selected, latch, astray, forced>>
      BY <1>2 DEF vars
    <2>2. TypeOK' /\ SelectedIsOn'
      BY <2>1, Zenon DEF IInv, TypeOK, SelectedIsOn
    <2>3. LentToOne'
      BY <2>1 DEF IInv, LentToOne
    <2>4. QED
      BY <2>2, <2>3 DEF IInv
  <1>3. QED
    BY <1>1, <1>2

(* The inductive invariant: the outbound socket has the connection of the  *)
(* one live panel it is lent to, and a selected camera is on, unless       *)
(* others switched it.                                                     *)
THEOREM Invariance == Spec => []IInv
  <1>1. QED
    BY InitIInv, NextIInv, PTL DEF Spec

-----------------------------------------------------------------------------
(* The selection.                                                          *)

(* Who is gone in a pass, and told to cmc_state, is all that stops being   *)
(* there: the camera stays selected by a panel that polls.                 *)
LEMMA KnownKept ==
    ASSUME IInv, Next, ~Timeouts, NEW d, Known(d)
    PROVE  Known(d)'
  <1>1. Records /\ LentToOne /\ Shape
    BY TypeParts DEF IInv
  <1>2. PICK q \in Panel : rec[q].inUse /\ rec[q].dev = d
    BY DEF Known
  <1>3. \A r \in Panel : rec[r] \in Record
    BY <1>1 DEF Records
  <1>4. rec'[q].inUse = rec[q].inUse /\ rec'[q].dev = rec[q].dev
    <2>1. CASE \E elapsed \in BOOLEAN : Begin(elapsed)
      BY <1>3, <2>1, OlderRecord DEF Begin
    <2>2. CASE \E p \in Panel : \E n \in Number[p] : Poll(p, n)
      <3>1. PICK p \in Panel : \E n \in Number[p] : Poll(p, n)
        BY <2>2
      <3>2. PICK n \in Number[p] : Poll(p, n)
        BY <3>1
      <3>3. QED
        BY <1>1, <1>2, <1>3, <3>2 DEF Poll, Records, Record
    <2>3. CASE Outbound
      <3>1. CASE Acquire
        BY <1>1, <1>3, <3>1, FirstWaits DEF Acquire, Records, Record
      <3>2. CASE Answer \/ ConnectTimesOut
        <4>1. owner # NoPanel /\ \E pending \in BOOLEAN : Release(pending)
          BY <3>2 DEF Answer, ConnectTimesOut
        <4>2. QED
          BY <1>1, <1>3, <4>1 DEF Release, Records, Record, Shape
      <3>3. CASE NothingToDo
        BY <3>3 DEF NothingToDo
      <3>4. QED
        BY <2>3, <3>1, <3>2, <3>3 DEF Outbound
    <2>4. CASE \/ NoPoll \/ CommandsDone \/ Connected \/ Drops \/ OthersSwitch
               \/ \E p \in Panel : Command(p) \/ PanelConnects(p) \/ PanelDisconnects(p)
      BY <2>4 DEF NoPoll, CommandsDone, Connected, Drops, OthersSwitch, Command,
           PanelConnects, PanelDisconnects
    <2>5. QED
      BY <2>1, <2>2, <2>3, <2>4 DEF Next
  <1>5. QED
    BY <1>2, <1>4 DEF Known

LEMMA SelectionKept ==
    ASSUME IInv, SelectedByLive, Next
    PROVE  SelectedByLive'
  <1>1. Records /\ Shape /\ Flags
    BY TypeParts DEF IInv
  <1>2. CASE \E p \in Panel : Command(p)
    <2>1. rec' = rec /\ \E d : Take(d) \/ HandleDeselect(d) \/ UNCHANGED camera
      BY <1>2 DEF Command, HandleSelect
    <2>2. \A d : Known(d)' <=> Known(d)
      BY <2>1 DEF Known
    <2>3. ASSUME NEW d, Take(d) PROVE SelectedByLive'
      <3>1. selected' = d /\ astray' = ~Known(d)
        BY <2>3, Zenon DEF Take
      <3>2. QED
        BY <2>2, <3>1, Zenon DEF SelectedByLive
    <2>4. ASSUME NEW d, HandleDeselect(d) PROVE SelectedByLive'
      BY <2>2, <2>4, Zenon DEF HandleDeselect, SelectedByLive
    <2>5. CASE UNCHANGED camera
      BY <2>2, <2>5, Zenon DEF SelectedByLive
    <2>6. QED
      BY <2>1, <2>3, <2>4, <2>5
  <1>3. CASE Timeouts
    <2>1. /\ selected' = IF Lost(selected) THEN NoNumber ELSE selected
          /\ astray' = astray
          /\ rec' = [p \in Panel |-> IF p \in Gone THEN Blank ELSE rec[p]]
      BY <1>3, Zenon DEF Timeouts
    <2>2. SUFFICES ASSUME selected' # NoNumber, ~astray' PROVE Known(selected)'
      BY DEF SelectedByLive
    <2>3. selected' = selected /\ ~Lost(selected) /\ selected # NoNumber
      BY <2>1, <2>2
    <2>4. Known(selected)
      BY <2>1, <2>2, <2>3 DEF SelectedByLive
    <2>5. PICK q \in Panel : rec[q].inUse /\ rec[q].dev = selected
      BY <2>4 DEF Known
    <2>6. q \notin Gone
      BY <2>3, <2>5 DEF Lost
    <2>7. QED
      BY <2>1, <2>3, <2>5, <2>6 DEF Known
  <1>4. CASE \E p \in Panel : \E d \in Number[p] : Poll(p, d)
    <2>1. PICK p \in Panel : \E d \in Number[p] : Poll(p, d)
      BY <1>4
    <2>2. PICK d \in Number[p] : Poll(p, d)
      BY <2>1
    <2>3. selected' = selected /\ astray' = (astray /\ ~(~rec[p].inUse /\ selected = d))
      BY <2>2, Zenon DEF Poll
    <2>4. SUFFICES ASSUME selected # NoNumber, ~astray' PROVE Known(selected)'
      BY <2>3, Zenon DEF SelectedByLive
    <2>5. CASE ~astray
      <3>1. Known(selected)
        BY <2>4, <2>5, Zenon DEF SelectedByLive
      <3>2. ~Timeouts
        BY <2>2 DEF Poll, Timeouts
      <3>3. PICK n : n = selected
        OBVIOUS
      <3>4. Known(n)'
        BY <1>4, <3>1, <3>2, <3>3, KnownKept
      <3>5. QED
        BY <2>3, <3>3, <3>4 DEF Known
    <2>6. CASE ~rec[p].inUse /\ selected = d
      <3>1. rec'[p].inUse /\ rec'[p].dev = d
        BY <1>1, <2>2, <2>6 DEF Poll, Records, Record
      <3>2. QED
        BY <2>3, <2>6, <3>1 DEF Known
    <2>7. QED
      BY <2>3, <2>4, <2>5, <2>6, Zenon
  <1>5. CASE /\ ~Timeouts
             /\ ~\E p \in Panel : Command(p)
             /\ ~\E p \in Panel : \E d \in Number[p] : Poll(p, d)
    <2>1. selected' = selected /\ astray' = astray
      BY <1>5, Zenon DEF Next, Begin, NoPoll, Outbound, CommandsDone, Connected, Drops,
           OthersSwitch, PanelConnects, PanelDisconnects
    <2>2. Known(selected) => Known(selected)'
      <3>1. PICK n : n = selected
        OBVIOUS
      <3>2. Known(n) => Known(n)'
        BY <1>5, KnownKept
      <3>3. QED
        BY <2>1, <3>1, <3>2 DEF Known
    <2>3. QED
      BY <2>1, <2>2, Zenon DEF SelectedByLive
  <1>6. QED
    BY <1>2, <1>3, <1>4, <1>5

(* The camera is selected by a panel that is there, however panels come    *)
(* and go, unless it was selected under a number that was nobody's.        *)
THEOREM Selection == Spec => []SelectedByLive
  <1>1. Init => SelectedByLive
    BY DEF Init, SelectedByLive
  <1>2. IInv /\ SelectedByLive /\ [Next]_vars => SelectedByLive'
    <2> SUFFICES ASSUME IInv, SelectedByLive, [Next]_vars PROVE SelectedByLive'
      OBVIOUS
    <2>1. CASE Next
      BY <2>1, SelectionKept
    <2>2. CASE UNCHANGED vars
      <3>1. UNCHANGED <<rec, selected, astray>>
        BY <2>2 DEF vars
      <3>2. QED
        BY <3>1, Zenon DEF SelectedByLive, Known
    <2>3. QED
      BY <2>1, <2>2
  <1>3. QED
    BY <1>1, <1>2, Invariance, PTL DEF Spec

(* While a panel has the camera the axis is enabled: the loss or eviction  *)
(* of another panel does not switch it off.                                *)
THEOREM SelectedHasDrive == Spec => []SelectedIsOn
  <1>1. IInv => SelectedIsOn
    BY DEF IInv
  <1>2. QED
    BY <1>1, Invariance, PTL

=============================================================================
