--------------------------- MODULE StatsHubProofs ---------------------------
(***************************************************************************)
(* The page's side of StatsHub, for any number of connections and faults:  *)
(* OneSocket, PollsIffDown, and the types of panel, connections and page.  *)
(***************************************************************************)
EXTENDS StatsHub, TLAPS

(* The types of what the page keeps.                                       *)
PageTypes ==
    /\ sock \in [Conn -> {"none", "connecting", "open", "closing"}]
    /\ ws \in Conn \union {None}
    /\ mounted \in BOOLEAN
    /\ timer \in BOOLEAN
    /\ fallback \in BOOLEAN

(* A socket the page holds is on its way or open: what closes it also lets *)
(* go of it.                                                               *)
HeldIsLive == ws # None => sock[ws] \in {"connecting", "open"}

PageInv == PageTypes /\ OneSocket /\ PollsIffDown /\ HeldIsLive

LEMMA PageInit == ASSUME Init PROVE PageInv
BY HubAssumption DEF Init, PageInv, PageTypes, OneSocket, PollsIffDown, HeldIsLive

(* What neither the server nor the network touches.                        *)
LEMMA PageKept ==
    ASSUME PageInv, UNCHANGED <<sock, ws, mounted, timer, fallback>>
    PROVE  PageInv'
BY DEF PageInv, PageTypes, OneSocket, PollsIffDown, HeldIsLive

(* Mounting and the timer open a socket where there is none. *)
LEMMA PageOpens ==
    ASSUME PageInv, Mount \/ TimerFires
    PROVE  PageInv'
<1> USE HubAssumption
        DEF PageInv, PageTypes, OneSocket, PollsIffDown, HeldIsLive
<1>1. ws = None /\ fallback
  BY DEF Mount, TimerFires
<1>2. PICK c \in Conn : /\ sock[c] = "none"
                        /\ ws' = c
                        /\ sock' = [sock EXCEPT ![c] = "connecting"]
  BY <1>1 DEF Mount, TimerFires, OpenSocket, Free
<1>3. mounted' = TRUE /\ timer' = FALSE /\ fallback' = fallback
  BY <1>1 DEF Mount, TimerFires
<1> QED
  BY <1>1, <1>2, <1>3

(* The events of one socket. *)
LEMMA PageEvents ==
    ASSUME PageInv, NEW c \in Conn, Event(c)
    PROVE  PageInv'
<1> USE HubAssumption
        DEF PageInv, PageTypes, OneSocket, PollsIffDown, HeldIsLive
<1>1. CASE Opened(c)
  BY <1>1 DEF Opened
<1>2. CASE Message(c)
  BY <1>2 DEF Message
<1>3. CASE Closed(c)
  <2>1. CASE ws = c
    BY <1>3, <2>1 DEF Closed, Lost
  <2>2. CASE ws # c
    BY <1>3, <2>2 DEF Closed
  <2> QED
    BY <2>1, <2>2
<1> QED
  BY <1>1, <1>2, <1>3 DEF Event

LEMMA PageStep == ASSUME PageInv, [Next]_vars PROVE PageInv'
<1>1. CASE \E c \in Conn : Event(c)
  BY <1>1, PageEvents
<1>2. CASE Mount \/ TimerFires
  BY <1>2, PageOpens
<1>3. CASE Unmount \/ Vanish
  BY <1>3, HubAssumption DEF Unmount, Vanish, PageInv, PageTypes, OneSocket,
     PollsIffDown, HeldIsLive
<1>4. CASE TimePasses \/ Run \/ Poll \/ PollAnswered \/ UNCHANGED vars
  BY <1>4, PageKept DEF TimePasses, Run, Collect, Store, Broadcast, Poll,
     PollAnswered, page, vars
<1>5. CASE \E c \in Conn : Handle(c) \/ ReadEnds(c) \/ Drop(c)
  BY <1>5, PageKept DEF Handle, Upgrade, WriteLatest, Push, Block, Unblock,
     WriteFails, ReadEnds, Return, Drop, page
<1> QED
  BY <1>1, <1>2, <1>3, <1>4, <1>5 DEF Next, Run, Event

(* However mounts, events and timers interleave, a mounted page has one    *)
(* socket or a timer, and an unmounted one neither.                        *)
THEOREM AlwaysOneSocket == Spec => []OneSocket
<1> QED
  BY PageInit, PageStep, PTL DEF Spec, PageInv

(* Polling carries the updates exactly while no socket is open. *)
THEOREM PollingCarries == Spec => []PollsIffDown
<1> QED
  BY PageInit, PageStep, PTL DEF Spec, PageInv

-----------------------------------------------------------------------------
(* The page's steps keep the types.                                        *)
LEMMA PageStepTypes ==
    ASSUME TypeOK, Mount \/ Unmount \/ TimerFires \/ Poll \/ PollAnswered
    PROVE  TypeOK'
<1>1. CASE Mount \/ TimerFires
  <2>1. /\ sock' \in [Conn -> {"none", "connecting", "open", "closing"}]
        /\ ws' \in Conn \union {None}
        /\ link' \in [Conn -> {"none", "asked", "up", "closed", "reset", "lost"}]
    BY <1>1 DEF Mount, TimerFires, OpenSocket, TypeOK
  <2> QED
    BY <1>1, <2>1 DEF Mount, TimerFires, TypeOK, panel
<1>2. CASE Unmount
  BY <1>2 DEF Unmount, TypeOK, panel, net
<1>3. CASE Poll \/ PollAnswered
  BY <1>3 DEF Poll, PollAnswered, TypeOK, panel, net
<1> QED
  BY <1>1, <1>2, <1>3

(* So do the events of a socket.                                           *)
LEMMA EventTypes ==
    ASSUME TypeOK, NEW c \in Conn, Event(c)
    PROVE  TypeOK'
<1>1. CASE Opened(c)
  BY <1>1 DEF Opened, TypeOK, panel, net
<1>2. CASE Message(c)
  BY <1>2 DEF Message, TypeOK, panel
<1>3. CASE Closed(c)
  <2>1. ws' \in Conn \union {None} /\ fallback' \in BOOLEAN /\ timer' \in BOOLEAN
    BY <1>3 DEF Closed, Lost, TypeOK
  <2> QED
    BY <1>3, <2>1 DEF Closed, TypeOK, panel
<1> QED
  BY <1>1, <1>2, <1>3 DEF Event

(* And the steps of a handler, and a fault of its connection.              *)
LEMMA HandlerTypes ==
    ASSUME TypeOK, NEW c \in Conn, Handle(c) \/ ReadEnds(c) \/ Drop(c)
    PROVE  TypeOK'
<1>1. CASE Upgrade(c) \/ WriteLatest(c)
  BY <1>1 DEF Upgrade, WriteLatest, TypeOK, page
<1>2. CASE Push(c) \/ Block(c) \/ Unblock(c)
  BY <1>2 DEF Push, Block, Unblock, TypeOK, net, page
<1>3. CASE WriteFails(c) \/ ReadEnds(c)
  BY <1>3 DEF WriteFails, ReadEnds, Return, TypeOK, page
<1>4. CASE Drop(c)
  BY <1>4, HubAssumption DEF Drop, TypeOK, panel, page
<1> QED
  BY <1>1, <1>2, <1>3, <1>4 DEF Handle

(* Every state has the declared types: in particular a page shows samples  *)
(* and never the absence of one (the 503 before the first Collect).        *)
THEOREM HubTypeCorrect == Spec => []TypeOK
<1>1. Init => TypeOK
  <2> SUFFICES ASSUME Init PROVE TypeOK
    OBVIOUS
  <2>1. faults \in 0 .. MaxFaults
    BY HubAssumption DEF Init
  <2>2. clients \subseteq Conn
    BY DEF Init
  <2>3. mounted \in BOOLEAN /\ timer \in BOOLEAN /\ fallback \in BOOLEAN
    BY DEF Init
  <2> QED
    BY <2>1, <2>2, <2>3 DEF Init, TypeOK, Sample
<1>2. TypeOK /\ [Next]_vars => TypeOK'
  <2> SUFFICES ASSUME TypeOK, [Next]_vars PROVE TypeOK'
    OBVIOUS
  <2>1. CASE \E c \in Conn : Handle(c) \/ ReadEnds(c) \/ Drop(c)
    BY <2>1, HandlerTypes
  <2>2. CASE \E c \in Conn : Event(c)
    BY <2>2, EventTypes
  <2>3. CASE Mount \/ Unmount \/ TimerFires \/ Poll \/ PollAnswered
    BY <2>3, PageStepTypes
  <2>4. CASE Collect \/ Store \/ Broadcast
    BY <2>4 DEF Collect, Store, Broadcast, TypeOK, net, page
  <2>5. CASE TimePasses
    BY <2>5 DEF TimePasses, TypeOK, Sample, panel, net, page
  <2>6. CASE Vanish
    BY <2>6 DEF Vanish, TypeOK, Sample, panel
  <2>7. CASE UNCHANGED vars
    BY <2>7 DEF TypeOK, vars, panel, net, page
  <2> QED
    BY <2>1, <2>2, <2>3, <2>4, <2>5, <2>6, <2>7 DEF Next, Event
<1> QED
  BY <1>1, <1>2, PTL DEF Spec
=============================================================================
