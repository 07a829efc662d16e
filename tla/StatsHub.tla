------------------------------ MODULE StatsHub ------------------------------
(***************************************************************************)
(* Server statistics on their way to a page: the collector and its hub     *)
(* (internal/sysinfo/cache.go), the web socket handler and the polled      *)
(* endpoint (internal/handler/api.go, ws.go), and in the browser the       *)
(* reconnecting socket with its fallback to polling                        *)
(* (frontend/src/api/websocket.ts, websocketBridge.ts, useServerStats.ts). *)
(*                                                                         *)
(* A sample is "old" or "new", depending on whether it was collected       *)
(* before or after a moment, any moment, at which `now' changes.           *)
(***************************************************************************)
EXTENDS Naturals

CONSTANTS
    Conn,       \* connections, each used again when both ends are done
    None,       \* no sample, no connection
    MaxFaults   \* bound on the connections that break

ASSUME HubAssumption == None \notin Conn /\ MaxFaults \in Nat

Sample == {"old", "new"}

VARIABLES
    now,       \* what a sample collected now is
    \* the panel
    cpc,       \* where StatsCache.Run is
    stats,     \* the sample it has collected
    data,      \* StatsCache.data
    clients,   \* broadcastHub.clients: the connections subscribed
    ch,        \* what is in the channel of each, which holds one sample
    hpc,       \* where the handler of each connection is
    out,       \* the sample each handler is blocked writing
    \* the connections
    link,      \* how far each is open
    wire,      \* the sample on its way to the browser
    faults,    \* connections broken so far
    \* the page
    sock,      \* readyState of each socket
    ws,        \* StatsWebSocket.ws
    mounted,   \* shouldReconnect: the panel's layout is mounted
    timer,     \* a reconnect is scheduled
    fallback,  \* wsFallback
    poll,      \* the answer on its way of a poll
    shown      \* the serverStats entry of the query cache; an empty one is old

panel == <<cpc, stats, data, clients, ch, hpc, out>>
net   == <<link, wire, faults>>
page  == <<sock, ws, mounted, timer, fallback, poll, shown>>
vars  == <<now, panel, net, page>>

Init ==
    /\ now = "old"
    /\ cpc = "collect"
    /\ stats = None
    /\ data = None
    /\ clients = {}
    /\ ch = [c \in Conn |-> None]
    /\ hpc = [c \in Conn |-> "none"]
    /\ out = [c \in Conn |-> None]
    /\ link = [c \in Conn |-> "none"]
    /\ wire = [c \in Conn |-> None]
    /\ faults = 0
    /\ sock = [c \in Conn |-> "none"]
    /\ ws = None
    /\ mounted = FALSE
    /\ timer = FALSE
    /\ fallback = TRUE
    /\ poll = None
    /\ shown = "old"

TimePasses ==
    /\ now = "old"
    /\ now' = "new"
    /\ UNCHANGED <<panel, net, page>>

-----------------------------------------------------------------------------
(* The collector: Collect and the two queries, then the store, then the    *)
(* broadcast under the hub's lock, which no full channel can hold up.      *)

Collect ==
    /\ cpc = "collect"
    /\ stats' = now
    /\ cpc' = "store"
    /\ UNCHANGED <<now, data, clients, ch, hpc, out, net, page>>

Store ==
    /\ cpc = "store"
    /\ data' = stats
    /\ cpc' = "broadcast"
    /\ UNCHANGED <<now, stats, clients, ch, hpc, out, net, page>>

Broadcast ==
    /\ cpc = "broadcast"
    /\ ch' = [c \in Conn |-> IF c \in clients /\ ch[c] = None THEN stats
                                                              ELSE ch[c]]
    /\ cpc' = "collect"
    /\ stats' = None
    /\ UNCHANGED <<now, data, clients, hpc, out, net, page>>

-----------------------------------------------------------------------------
(* The handler of /ws.                                                     *)

\* wsUpgrade answers 101, and the handler subscribes.
Upgrade(c) ==
    /\ link[c] = "asked"
    /\ hpc[c] = "none"
    /\ link' = [link EXCEPT ![c] = "up"]
    /\ clients' = clients \union {c}
    /\ hpc' = [hpc EXCEPT ![c] = "first"]
    /\ UNCHANGED <<now, cpc, stats, data, ch, out, wire, faults, page>>

\* The latest sample at once; an error of this write is ignored.
WriteLatest(c) ==
    /\ hpc[c] = "first"
    /\ hpc' = [hpc EXCEPT ![c] = "loop"]
    /\ wire' = [wire EXCEPT ![c] = IF link[c] \in {"up", "lost"} THEN data ELSE None]
    /\ UNCHANGED <<now, cpc, stats, data, clients, ch, out, link, faults, page>>

\* A sample from the channel goes out at once if the browser keeps reading.
Push(c) ==
    /\ hpc[c] = "loop"
    /\ ch[c] # None
    /\ wire[c] = None
    /\ link[c] \in {"up", "lost"}
    /\ wire' = [wire EXCEPT ![c] = ch[c]]
    /\ ch' = [ch EXCEPT ![c] = None]
    /\ UNCHANGED <<now, cpc, stats, data, clients, hpc, out, link, faults, page>>

\* Otherwise the write blocks, and the channel fills again meanwhile.
Block(c) ==
    /\ hpc[c] = "loop"
    /\ ch[c] # None
    /\ wire[c] # None
    /\ out' = [out EXCEPT ![c] = ch[c]]
    /\ ch' = [ch EXCEPT ![c] = None]
    /\ hpc' = [hpc EXCEPT ![c] = "write"]
    /\ UNCHANGED <<now, cpc, stats, data, clients, net, page>>

Unblock(c) ==
    /\ hpc[c] = "write"
    /\ wire[c] = None
    /\ link[c] \in {"up", "lost"}
    /\ wire' = [wire EXCEPT ![c] = out[c]]
    /\ out' = [out EXCEPT ![c] = None]
    /\ hpc' = [hpc EXCEPT ![c] = "loop"]
    /\ UNCHANGED <<now, cpc, stats, data, clients, ch, link, faults, page>>

\* A mutated form: the connection is left open.
LeaveOpen(c) ==
    /\ clients' = clients \ {c}
    /\ ch' = [ch EXCEPT ![c] = None]
    /\ out' = [out EXCEPT ![c] = None]
    /\ hpc' = [hpc EXCEPT ![c] = "none"]
    /\ UNCHANGED <<now, cpc, stats, data, net, page>>

\* The handler returns: Unsubscribe, then Close, which sends what is in wire.
Return(c) ==
    /\ clients' = clients \ {c}
    /\ link' = [link EXCEPT ![c] = IF @ = "up" THEN "closed" ELSE "none"]
    /\ wire' = [wire EXCEPT ![c] = IF link[c] = "up" THEN @ ELSE None]
    /\ ch' = [ch EXCEPT ![c] = None]
    /\ out' = [out EXCEPT ![c] = None]
    /\ hpc' = [hpc EXCEPT ![c] = "none"]
    /\ UNCHANGED <<now, cpc, stats, data, faults, page>>

\* A mutated form: writes have no deadline.
FailsOnReset(c) ==
    /\ hpc[c] = "write" \/ (hpc[c] = "loop" /\ ch[c] # None)
    /\ link[c] = "reset"
    /\ Return(c)

\* The browser has closed, or does not read for the 5 s of the deadline.
WriteFails(c) ==
    /\ \/ hpc[c] = "write" /\ (wire[c] # None \/ link[c] = "reset")
       \/ hpc[c] = "loop" /\ ch[c] # None /\ link[c] = "reset"
    /\ Return(c)

\* The reader's Read fails: the browser has closed, or has sent nothing for
\* the 120 s of the deadline, and a page never sends anything.
ReadEnds(c) == hpc[c] = "loop" /\ Return(c)

Handle(c) ==
    \/ Upgrade(c) \/ WriteLatest(c)
    \/ Push(c) \/ Block(c) \/ Unblock(c) \/ WriteFails(c)

-----------------------------------------------------------------------------
(* The page.  openSocket, unless there is a socket already.                *)

Free(c) == sock[c] = "none" /\ hpc[c] = "none"

OpenSocket ==
    IF ws # None /\ sock[ws] \in {"connecting", "open"}
    THEN UNCHANGED <<ws, sock, link>>
    ELSE \E c \in Conn :
           /\ Free(c)
           /\ ws' = c
           /\ sock' = [sock EXCEPT ![c] = "connecting"]
           /\ link' = [link EXCEPT ![c] = "asked"]

\* The effect of useWebSocketBridge: connect.
Mount ==
    /\ ~mounted
    /\ mounted' = TRUE
    /\ OpenSocket
    /\ UNCHANGED <<now, panel, wire, faults, timer, fallback, poll, shown>>

\* Its cleanup: disconnect, then the fallback.
Unmount ==
    /\ mounted
    /\ mounted' = FALSE
    /\ timer' = FALSE
    /\ sock' = [c \in Conn |-> IF c = ws THEN "closing" ELSE sock[c]]
    /\ ws' = None
    /\ fallback' = TRUE
    /\ UNCHANGED <<now, panel, net, poll, shown>>

TimerFires ==
    /\ timer
    /\ timer' = FALSE
    /\ OpenSocket
    /\ UNCHANGED <<now, panel, wire, faults, mounted, fallback, poll, shown>>

Opened(c) ==
    /\ sock[c] = "connecting"
    /\ link[c] \in {"up", "closed"}
    /\ sock' = [sock EXCEPT ![c] = "open"]
    /\ fallback' = IF ws = c THEN FALSE ELSE fallback
    /\ UNCHANGED <<now, panel, net, ws, mounted, timer, poll, shown>>

\* A mutated form: what cannot be parsed is shown too.
Anything(c) ==
    /\ sock[c] = "open"
    /\ wire' = [wire EXCEPT ![c] = None]
    /\ shown' = IF ws = c THEN wire[c] ELSE shown
    /\ UNCHANGED <<now, panel, link, faults, sock, ws, mounted, timer,
                   fallback, poll>>

Message(c) ==
    /\ sock[c] = "open"
    /\ wire[c] # None
    /\ wire' = [wire EXCEPT ![c] = None]
    /\ shown' = IF ws = c THEN wire[c] ELSE shown
    /\ UNCHANGED <<now, panel, link, faults, sock, ws, mounted, timer,
                   fallback, poll>>

\* The connection is gone as far as the page is concerned, once it has read
\* what was sent before.
Ended(c) ==
    \/ sock[c] = "closing"
    \/ sock[c] \in {"connecting", "open"} /\ link[c] \in {"none", "reset"}
    \/ sock[c] = "open" /\ link[c] = "closed" /\ wire[c] = None

\* A mutated form: onclose does not turn polling on.
LostSilently ==
    /\ ws' = None
    /\ timer' = mounted
    /\ UNCHANGED fallback

\* What the listener does when the socket is still the page's own.
Lost ==
    /\ ws' = None
    /\ fallback' = TRUE
    /\ timer' = mounted

\* A mutated form: the listener does not ask whose event it is.
AnyClosed(c) ==
    /\ Ended(c)
    /\ sock' = [sock EXCEPT ![c] = "none"]
    /\ Lost
    /\ link' = [link EXCEPT ![c] = IF hpc[c] = "none" THEN "none" ELSE "reset"]
    /\ wire' = [wire EXCEPT ![c] = None]
    /\ UNCHANGED <<now, panel, faults, mounted, poll, shown>>

Closed(c) ==
    /\ Ended(c)
    /\ sock' = [sock EXCEPT ![c] = "none"]
    /\ IF ws = c THEN Lost ELSE UNCHANGED <<ws, fallback, timer>>
    /\ link' = [link EXCEPT ![c] = IF hpc[c] = "none" THEN "none" ELSE "reset"]
    /\ wire' = [wire EXCEPT ![c] = None]
    /\ UNCHANGED <<now, panel, faults, mounted, poll, shown>>

(* While the socket is down useQuery polls /api/server-stats, which        *)
(* answers 503 before the first sample.                                    *)
Poll ==
    /\ mounted
    /\ fallback
    /\ poll = None
    /\ data # None
    /\ poll' = data
    /\ UNCHANGED <<now, panel, net, sock, ws, mounted, timer, fallback, shown>>

PollAnswered ==
    /\ poll # None
    /\ shown' = poll
    /\ poll' = None
    /\ UNCHANGED <<now, panel, net, sock, ws, mounted, timer, fallback>>

-----------------------------------------------------------------------------
(* Faults.                                                                 *)

\* A connection is reset, or the upgrade refused.
Drop(c) ==
    /\ faults < MaxFaults
    /\ faults' = faults + 1
    /\ link[c] \in {"asked", "up"}
    /\ link' = [link EXCEPT ![c] = IF hpc[c] = "none" THEN "none" ELSE "reset"]
    /\ wire' = [wire EXCEPT ![c] = None]
    /\ UNCHANGED <<now, panel, page>>

\* The machine of the page goes away without a word.
Vanish ==
    /\ mounted
    /\ link' = [c \in Conn |-> IF sock[c] = "none" THEN link[c]
                               ELSE IF hpc[c] = "none" THEN "none" ELSE "lost"]
    /\ wire' = [c \in Conn |-> IF sock[c] = "none" \/ hpc[c] # "none"
                               THEN wire[c] ELSE None]
    /\ sock' = [c \in Conn |-> "none"]
    /\ ws' = None
    /\ mounted' = FALSE
    /\ timer' = FALSE
    /\ fallback' = TRUE
    /\ poll' = None
    /\ shown' = "old"
    /\ UNCHANGED <<now, panel, faults>>

-----------------------------------------------------------------------------
Next ==
    \/ TimePasses
    \/ Collect \/ Store \/ Broadcast
    \/ \E c \in Conn : \/ Handle(c) \/ ReadEnds(c)
                       \/ Opened(c) \/ Message(c) \/ Closed(c) \/ Drop(c)
    \/ Mount \/ Unmount \/ TimerFires \/ Poll \/ PollAnswered
    \/ Vanish

Spec == Init /\ [][Next]_vars

(* The collector and the handlers run, read deadlines expire, and the      *)
(* browser delivers the events of its sockets, its timer and its polls.    *)
Run     == Collect \/ Store \/ Broadcast
Event(c) == Opened(c) \/ Message(c) \/ Closed(c)

FairSpec ==
    /\ Spec
    /\ WF_vars(Run)
    /\ \A c \in Conn : WF_vars(Handle(c)) /\ WF_vars(ReadEnds(c)) /\ WF_vars(Event(c))
    /\ WF_vars(TimerFires)
    /\ WF_vars(Poll \/ PollAnswered)

-----------------------------------------------------------------------------
(* The variables have their types. *)
TypeOK ==
    /\ now \in Sample
    /\ cpc \in {"collect", "store", "broadcast"}
    /\ stats \in Sample \union {None}
    /\ data \in Sample \union {None}
    /\ clients \subseteq Conn
    /\ ch \in [Conn -> Sample \union {None}]
    /\ hpc \in [Conn -> {"none", "first", "loop", "write"}]
    /\ out \in [Conn -> Sample \union {None}]
    /\ link \in [Conn -> {"none", "asked", "up", "closed", "reset", "lost"}]
    /\ wire \in [Conn -> Sample \union {None}]
    /\ faults \in 0 .. MaxFaults
    /\ sock \in [Conn -> {"none", "connecting", "open", "closing"}]
    /\ ws \in Conn \union {None}
    /\ mounted \in BOOLEAN
    /\ timer \in BOOLEAN
    /\ fallback \in BOOLEAN
    /\ poll \in Sample \union {None}
    /\ shown \in Sample

(* However mounting, closing and reconnecting interleave, a page has one   *)
(* socket or a timer that will open one, never both, and an unmounted page *)
(* has neither (the checks against this.ws and shouldReconnect).           *)
OneSocket ==
    /\ \A c \in Conn : sock[c] \in {"connecting", "open"} => ws = c
    /\ mounted => (ws # None) # timer
    /\ ~mounted => ws = None /\ ~timer

(* "While the socket is open [...] HTTP polling stays off", and it is on   *)
(* whenever the socket is not (websocketBridge.ts:4-7).                    *)
PollsIffDown == fallback <=> ~(ws # None /\ sock[ws] = "open")

(* A page that stays mounted comes to show, for good, samples taken after  *)
(* any given moment, although every socket ends after two minutes and a    *)
(* slow one misses samples.                                                *)
FreshForGood ==
    <>[]mounted /\ <>(now = "new") => <>[](shown = "new")

(* A handler whose page has closed or vanished gives up its subscription:  *)
(* the hub does not fill with channels nobody reads.                       *)
GoneUnsubscribed ==
    \A c \in Conn : link[c] \in {"reset", "lost"} ~> c \notin clients
=============================================================================
