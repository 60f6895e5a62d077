------------------------------- MODULE Panels -------------------------------
(***************************************************************************)
(* The camera panels: app/controller_mgr and the selection of              *)
(* app/cmc_state.  Each of two panels has a record, filled by its first    *)
(* POLL and dropped when its POLLs stop.  A POLL is answered over a TCP    *)
(* connection back to the panel; there is one socket for that, lent to one *)
(* panel at a time.  Commands come over a connection of the panel's own,   *)
(* which has nothing to do with its POLLs.  Selecting the camera switches  *)
(* the axis on, and losing the panel that selected it switches it off.     *)
(*                                                                         *)
(* A pass of controller_mgr_tick has four steps: the POLL socket, the      *)
(* outbound connection, the commands of both panels, and the timeouts.     *)
(***************************************************************************)
EXTENDS Naturals, Sequences, FiniteSets

CONSTANTS
    Panels,         \* s_ctrls, in the order of its indices
    Number,         \* the device numbers a panel goes by
    NoNumber,       \* nobody: the camera is not selected
    NoPanel,        \* OUTBOUND_OWNER_NONE
    Reachable,      \* the panels that take the connection back
    Steady,         \* the panels whose connections never break
    Silent,         \* the panels that name port 0 for it
    PollTime,       \* CONTROLLER_TIMEOUT_MS
    ConnectTime     \* CONNECT_TIMEOUT_MS

Panel == {Panels[k] : k \in 1..Len(Panels)}
Numbers == UNION {Number[p] : p \in Panel}

ASSUME PanelsAssumption ==
    /\ Panels \in Seq(STRING)
    /\ NoPanel \notin Panel
    /\ NoNumber \notin Numbers
    /\ \A p, q \in Panel : p # q => Number[p] \cap Number[q] = {}
    /\ PollTime \in Nat /\ ConnectTime \in Nat

VARIABLES
    at,         \* where the pass is
    rec,        \* s_ctrls: what each panel's record holds
    owner,      \* s_outbound_owner_idx
    sock,       \* external: the outbound connection
    up,         \* external: the panels whose own connection stands
    selected,   \* s_selected and s_selected_by
    latch,      \* s_axis.enable_latch
    astray,     \* history: selected under a number no record had
    forced      \* history: switched by others since the last selection

vars == <<at, rec, owner, sock, up, selected, latch, astray, forced>>

Record == [inUse : BOOLEAN, dev : Numbers \cup {NoNumber}, pending : BOOLEAN,
           connecting : BOOLEAN, age : 0..PollTime + 1, waited : 0..ConnectTime + 1]

Blank == [inUse |-> FALSE, dev |-> NoNumber, pending |-> FALSE,
          connecting |-> FALSE, age |-> 0, waited |-> 0]

TypeOK ==
    /\ at \in {"rest", "poll", "outbound", "commands", "timeouts"}
    /\ rec \in [Panel -> Record]
    /\ owner \in Panel \cup {NoPanel}
    /\ sock \in {"closed", "syn", "established", "dropped"}
    /\ up \subseteq Panel
    /\ selected \in Numbers \cup {NoNumber}
    /\ latch \in BOOLEAN /\ astray \in BOOLEAN /\ forced \in BOOLEAN

Init ==
    /\ at = "rest"
    /\ rec = [p \in Panel |-> Blank]
    /\ owner = NoPanel
    /\ sock = "closed"
    /\ up = {}
    /\ selected = NoNumber
    /\ latch = FALSE /\ astray = FALSE /\ forced = FALSE

outbound == <<owner, sock>>
camera == <<selected, latch, astray, forced>>

Known(d) == \E p \in Panel : rec[p].inUse /\ rec[p].dev = d

-----------------------------------------------------------------------------
(* A pass begins; time may have passed since the last one.                 *)

Later(t, bound) == IF t > bound THEN t ELSE t + 1

Older(r) ==
    [r EXCEPT !.age = IF r.inUse THEN Later(@, PollTime) ELSE @,
              !.waited = IF r.connecting THEN Later(@, ConnectTime) ELSE @]

Begin(elapsed) ==
    /\ at = "rest" /\ at' = "poll"
    /\ rec' = IF elapsed THEN [p \in Panel |-> Older(rec[p])] ELSE rec
    /\ UNCHANGED <<outbound, up, camera>>

(* handle_poll: the first POLL gives the record its number, later ones only*)
(* keep it alive and ask for an answer.                                    *)
Poll(p, d) ==
    /\ at = "poll" /\ at' = "outbound"
    /\ rec' = [rec EXCEPT ![p] = [@ EXCEPT !.inUse = TRUE,
                                           !.dev = IF rec[p].inUse THEN rec[p].dev ELSE d,
                                           !.pending = TRUE, !.age = 0]]
    /\ astray' = (astray /\ ~(~rec[p].inUse /\ selected = d))
    /\ UNCHANGED <<outbound, up, selected, latch, forced>>

NoPoll ==
    /\ at = "poll" /\ at' = "outbound"
    /\ UNCHANGED <<rec, outbound, up, camera>>

-----------------------------------------------------------------------------
(* service_outbound_tcp.                                                   *)

Waiting == {k \in 1..Len(Panels) : rec[Panels[k]].inUse /\ rec[Panels[k]].pending}

(* The scan starts at index 0 every time.                                  *)
First == Panels[CHOOSE k \in Waiting : \A j \in Waiting : k <= j]

(* start_outbound_tcp.  It fails when the panel named port 0, and the      *)
(* socket stays lent all the same.                                         *)
Acquire ==
    /\ owner = NoPanel /\ Waiting # {}
    /\ owner' = First
    /\ \/ /\ First \notin Silent
          /\ sock' = "syn"
          /\ rec' = [rec EXCEPT ![First].connecting = TRUE, ![First].waited = 0]
       \/ /\ First \in Silent
          /\ sock' = "closed"
          /\ UNCHANGED rec

(* release_outbound, with what becomes of the owner's request.             *)
Release(pending) ==
    /\ owner' = NoPanel /\ sock' = "closed"
    /\ rec' = [rec EXCEPT ![owner].connecting = FALSE, ![owner].waited = 0,
                          ![owner].pending = pending]

(* Established: the answer is sent at once and the socket given back.  When*)
(* the send fails, the request stays.                                      *)
Answer ==
    /\ owner # NoPanel /\ rec[owner].connecting /\ sock = "established"
    /\ \/ Release(FALSE)
       \/ owner \notin Steady /\ Release(TRUE)

(* Variant: a connection that never comes is waited for.                   *)
ConnectLateNever(p) == FALSE

ConnectLate(p) == rec[p].waited > ConnectTime

ConnectTimesOut ==
    /\ owner # NoPanel /\ rec[owner].connecting /\ sock # "established"
    /\ ConnectLate(owner)
    /\ Release(TRUE)

NothingToDo ==
    /\ \/ owner = NoPanel /\ Waiting = {}
       \/ /\ owner # NoPanel
          /\ rec[owner].connecting => sock # "established" /\ ~ConnectLate(owner)
    /\ UNCHANGED <<rec, outbound>>

Outbound ==
    /\ at = "outbound" /\ at' = "commands"
    /\ Acquire \/ Answer \/ ConnectTimesOut \/ NothingToDo
    /\ UNCHANGED <<up, camera>>

-----------------------------------------------------------------------------
(* Commands, and what app/cmc_state makes of them.  The number is the      *)
(* command's own, whatever the record says.                                *)

Take(d) ==
    /\ selected' = d
    /\ latch' = TRUE
    /\ astray' = ~Known(d)
    /\ forced' = FALSE

HandleSelect(d) ==
    \/ selected \in {NoNumber, d} /\ Take(d)
    \/ selected \notin {NoNumber, d} /\ UNCHANGED camera

HandleDeselect(d) ==
    /\ selected' = IF selected = d THEN NoNumber ELSE selected
    /\ UNCHANGED <<latch, astray, forced>>

Command(p) ==
    /\ at = "commands" /\ p \in up
    /\ \E d \in Number[p] : HandleSelect(d) \/ HandleDeselect(d) \/ Take(d)
    /\ UNCHANGED <<at, rec, outbound, up>>

CommandsDone ==
    /\ at = "commands" /\ at' = "timeouts"
    /\ UNCHANGED <<rec, outbound, up, camera>>

-----------------------------------------------------------------------------
(* check_controller_timeouts, and cmc_state_force_deselect for each panel  *)
(* that is gone.                                                           *)

Gone == {p \in Panel : rec[p].inUse /\ rec[p].age > PollTime}

(* Variant: the record is wiped before force_deselect is told its number.  *)
LostWiped(d) == FALSE

Lost(d) == \E p \in Gone : rec[p].dev = d

(* Variant: the axis is switched off whoever has the camera.               *)
SwitchesOffAlways == Gone # {}

SwitchesOff == Lost(selected)

(* Variant: the connection of a panel that is gone is left standing.       *)
EvictedNot(p) == FALSE

Evicted(p) == p \in Gone

Timeouts ==
    /\ at = "timeouts" /\ at' = "rest"
    /\ rec' = [p \in Panel |-> IF p \in Gone THEN Blank ELSE rec[p]]
    /\ \/ Evicted(owner) /\ owner' = NoPanel /\ sock' = "closed"
       \/ ~Evicted(owner) /\ UNCHANGED outbound
    /\ selected' = IF Lost(selected) THEN NoNumber ELSE selected
    /\ latch' = (latch /\ ~SwitchesOff)
    /\ UNCHANGED <<up, astray, forced>>

-----------------------------------------------------------------------------
(* external: the network and the panels' own connections.                  *)

Connected ==
    /\ sock = "syn" /\ owner \in Reachable
    /\ sock' = "established"
    /\ UNCHANGED <<at, rec, owner, up, camera>>

(* Refused, reset or closed by the panel: for the code all the same as not *)
(* yet established.                                                        *)
Drops ==
    /\ sock \in {"syn", "established"} /\ owner \notin Steady
    /\ sock' = "dropped"
    /\ UNCHANGED <<at, rec, owner, up, camera>>

PanelConnects(p) ==
    /\ p \notin up /\ up' = up \cup {p}
    /\ UNCHANGED <<at, rec, outbound, camera>>

PanelDisconnects(p) ==
    /\ p \in up /\ up' = up \ {p}
    /\ UNCHANGED <<at, rec, outbound, camera>>

(* The latch is not the panels' alone: the PC tool, the buttons, quick stop*)
(* and the motor save set it too.                                          *)
OthersSwitch ==
    /\ at = "rest"
    /\ latch' = ~latch
    /\ forced' = TRUE
    /\ UNCHANGED <<at, rec, outbound, up, selected, astray>>

Next ==
    \/ \E elapsed \in BOOLEAN : Begin(elapsed)
    \/ \E p \in Panel : \E d \in Number[p] : Poll(p, d)
    \/ NoPoll \/ Outbound
    \/ \E p \in Panel : Command(p)
    \/ CommandsDone \/ Timeouts
    \/ Connected \/ Drops \/ OthersSwitch
    \/ \E p \in Panel : PanelConnects(p) \/ PanelDisconnects(p)

Spec == Init /\ [][Next]_vars

(* The loop keeps turning, time passes, and a reachable panel completes the*)
(* handshake.                                                              *)
FairSpec ==
    /\ Spec
    /\ WF_vars(\E elapsed \in BOOLEAN : Begin(elapsed)) /\ SF_vars(Begin(TRUE))
    /\ WF_vars(NoPoll \/ \E p \in Panel : \E d \in Number[p] : Poll(p, d))
    /\ WF_vars(Outbound) /\ WF_vars(CommandsDone) /\ WF_vars(Timeouts)
    /\ WF_vars(Connected)

-----------------------------------------------------------------------------
(* Properties.                                                             *)

(* The socket has the connection of the panel it is lent to and of no      *)
(* other, and that panel is a live one that still waits for its answer: a  *)
(* panel that is evicted in the middle takes the connection with it.       *)
LentToOne ==
    /\ \A p \in Panel : rec[p].connecting => owner = p
    /\ owner # NoPanel => rec[owner].inUse /\ rec[owner].pending
    /\ sock # "closed" => owner # NoPanel /\ rec[owner].connecting

(* The camera is selected by a panel that is there.  What the code leaves  *)
(* open is a selection made under a number that was nobody's at the time:  *)
(* before the first POLL, after the eviction, or under another number.     *)
SelectedByLive == selected # NoNumber /\ ~astray => Known(selected)

(* A panel's loss switches the axis off for itself only: while another     *)
(* panel has the camera, nothing but the latch's other users does.         *)
SelectedIsOn == selected # NoNumber /\ ~forced => latch

IInv == TypeOK /\ LentToOne /\ SelectedIsOn

(* The outbound socket always comes back, answered or not, so that one     *)
(* panel's dead connection does not keep it from the other.                *)
SocketComesBack == \A p \in Panel : owner = p ~> owner # p

(* controller_mgr.c:428 has the socket closed after each answer so that    *)
(* the other panel can have it: "fair two-panel multiplexing".  So a panel *)
(* that takes its connections and polls is answered.                       *)
BothServed == \A p \in Reachable \cap Steady : rec[p].pending ~> ~rec[p].pending

=============================================================================
