------------------------------ MODULE WGPoller ------------------------------
(***************************************************************************)
(* The WireGuard poller (internal/wireguard/poller.go), the transactions   *)
(* it runs on the session store (internal/db/wireguard.go) and the state   *)
(* around it that moves while a poll is in progress: the kernel's          *)
(* counters, the peer registry, the client table and the reaper.           *)
(*                                                                         *)
(* A poll takes one snapshot (`wg show <iface> dump`), then works through  *)
(* its peers one database transaction at a time, then closes the sessions  *)
(* of names that left the interface, and only then publishes the new       *)
(* online set.  Everything else may happen between two of those steps.     *)
(*                                                                         *)
(* One byte direction is kept: rx and tx are treated alike and do not      *)
(* interact.  The fields used for display or logging only (addresses,      *)
(* last_seen, the `down` flag) are left out.                               *)
(***************************************************************************)
EXTENDS Integers

CONSTANTS
    Peer,             \* public keys
    Name,             \* client names
    NameOf,           \* the name the configuration gives each key
    MaxDumpFailures,  \* maxDumpFailures in poller.go
    FailOps,          \* the database operations that may fail
    Resettable,       \* peers whose counters may restart after they counted
    Reapable,         \* names the reaper may delete
    MaxTraffic        \* bound: bytes each peer transfers

DBOps == {"loadStates", "loadOpen", "apply", "close", "save", "trailing",
          "closeByName", "closeAll", "upsert"}

ASSUME NamingAssumption == NameOf \in [Peer -> Name]
ASSUME BoundAssumption == MaxTraffic \in Nat
ASSUME ThresholdAssumption == MaxDumpFailures \in Nat \ {0}
ASSUME FaultAssumption ==
    /\ FailOps \subseteq DBOps
    /\ Resettable \subseteq Peer /\ Reapable \subseteq Name

VARIABLES
    \* the kernel
    present,    \* peers configured on the interface
    fresh,      \* peers whose last handshake is within HandshakeTimeout
    ctr,        \* cumulative counter of each peer, as `wg show` prints it
    \* the registry
    conf,       \* peers whose key NameByPubKey resolves
    \* the database
    clients,    \* names with a row in clients
    open,       \* names with an open wireguard session
    closed,     \* names with a closed wireguard session
    base,       \* wg_peer_state: the persisted counter of each peer
    \* the poller's memory
    pc,         \* "off", "idle", or the part of poll() in progress
    states,     \* p.states: the last counters applied, per peer
    online,     \* p.online: the online names of the previous poll
    shown,      \* the OnlineTracker the dashboard reads
    fails,      \* consecutive dump failures, saturating above the threshold
    todo,       \* peers of the dump not processed yet
    resolved,   \* the peer whose name was looked up, while it is processed
    snap,       \* counters of the dump
    snapFresh,  \* peers of the dump with a fresh handshake
    current,    \* names online in this poll
    seen,       \* names present in this poll's dump
    gone,       \* names whose session this poll still has to close
    \* history
    traffic,    \* bytes each peer ever transferred
    cred,       \* bytes of each peer in live session rows
    dropped,    \* peers some byte of which was dropped, deleted or hidden
    slipped     \* names whose last write failed, or that were purged since

kernel  == <<present, fresh, ctr, traffic>>
store   == <<clients, open, closed, base, cred, dropped>>
pass    == <<todo, resolved, snap, snapFresh, current, seen, gone>>
memory  == <<pc, states, online, shown, fails, slipped, pass>>
vars    == <<kernel, conf, store, memory>>

NoBase == -1      \* no wg_peer_state row, or no entry in p.states
Counter == Nat \cup {NoBase}

(***************************************************************************)
(* The byte increment for one peer: the whole counter on first sighting    *)
(* and after a reset, the difference otherwise.                            *)
(***************************************************************************)
Delta(last, cur) == IF last = NoBase \/ cur < last THEN cur ELSE cur - last

Due(k) == Delta(states[k], snap[k])

\* The counter from which the next increment of a peer will be computed.
Baseline(k) == IF pc = "off" THEN base[k] ELSE states[k]

-----------------------------------------------------------------------------
(***************************************************************************)
(* Transactions of the session store.  Each is atomic: on an error the     *)
(* transaction rolls back and the store is unchanged.                      *)
(***************************************************************************)

\* History: d bytes of the peer are given up.
Drop(k, d) == dropped' = IF d = 0 THEN dropped ELSE dropped \cup {k}

\* A mutated form: the transaction forgets the new baseline.
LeavePeerState(k) == UNCHANGED base

\* upsertWGPeerState: the snapshot becomes the persisted baseline.
UpsertPeerState(k) == base' = [base EXCEPT ![k] = snap[k]]

\* Reopening within the second of the close resumes the closed row.
ClosedAfterOpen(n) == IF n \in open THEN {closed} ELSE {closed, closed \ {n}}

Credit(k) == cred' = [cred EXCEPT ![k] = @ + Due(k)]

ApplyWGPeerDelta(k) ==
    LET n == NameOf[k] IN
    /\ clients' = clients \cup {n}
    /\ closed' \in ClosedAfterOpen(n)
    /\ open' = open \cup {n}
    /\ Credit(k)
    /\ UpsertPeerState(k)
    /\ UNCHANGED dropped

\* A mutated form: the session is marked closed before the increment, whose
\* update then matches no open row.
FoldAfterClose(k) == UNCHANGED cred

FoldFinalDelta(k) == Credit(k)

\* The final delta goes to the open session; with none it is dropped.
CloseWGPeerSession(k) ==
    LET n == NameOf[k] IN
    /\ IF n \in open
       THEN /\ FoldFinalDelta(k)
            /\ closed' = closed \cup {n}
            /\ UNCHANGED dropped
       ELSE /\ Drop(k, Due(k))
            /\ UNCHANGED <<cred, closed>>
    /\ open' = open \ {n}
    /\ UpsertPeerState(k)
    /\ UNCHANGED clients

SaveWGPeerState(k) ==
    /\ Drop(k, Due(k))
    /\ UpsertPeerState(k)
    /\ UNCHANGED <<clients, open, closed, cred>>

ApplyWGTrailingDelta(k) ==
    /\ IF NameOf[k] \in closed
       THEN Credit(k) /\ UNCHANGED dropped
       ELSE Drop(k, Due(k)) /\ UNCHANGED cred
    /\ UpsertPeerState(k)
    /\ UNCHANGED <<clients, open, closed>>

CloseWGSessionByName(n) ==
    /\ open' = open \ {n}
    /\ closed' = closed \cup ({n} \cap open)
    /\ UNCHANGED <<clients, base, cred, dropped>>

CloseAllWGSessions ==
    /\ open' = {}
    /\ closed' = closed \cup open
    /\ UNCHANGED <<clients, base, cred, dropped>>

\* A mutated form: the sessions are left to a cascade that is switched off.
LeaveSessions(n) == UNCHANGED <<open, closed>>

DeleteSessions(n) == open' = open \ {n} /\ closed' = closed \ {n}

DeleteClientData(n) ==
    /\ clients' = clients \ {n}
    /\ DeleteSessions(n)
    /\ base' = [k \in Peer |-> IF NameOf[k] = n THEN NoBase ELSE base[k]]
    /\ cred' = [k \in Peer |-> IF NameOf[k] = n THEN 0 ELSE cred[k]]
    /\ dropped' = dropped \cup {k \in Peer : NameOf[k] = n /\ cred[k] # 0}

-----------------------------------------------------------------------------
Init ==
    /\ present \in SUBSET Peer
    /\ fresh = {}
    /\ ctr = [k \in Peer |-> 0]
    /\ conf = {}
    /\ clients = {} /\ open = {} /\ closed = {}
    /\ base = [k \in Peer |-> NoBase]
    /\ pc = "off"
    /\ states = [k \in Peer |-> NoBase]
    /\ online = {} /\ shown = {} /\ fails = 0
    /\ todo = {} /\ resolved = {} /\ snapFresh = {} /\ current = {} /\ seen = {} /\ gone = {}
    /\ snap = [k \in Peer |-> 0]
    /\ traffic = [k \in Peer |-> 0]
    /\ cred = [k \in Peer |-> 0]
    /\ dropped = {} /\ slipped = {}

-----------------------------------------------------------------------------
(***************************************************************************)
(* The environment: kernel, registry reload, client sync, reaper.          *)
(***************************************************************************)

\* Bytes may also arrive while the handshake is stale.  A counter that
\* restarted and has come up to its baseline again hides what it counted.
Transfer(k) ==
    /\ k \in present
    /\ traffic[k] < MaxTraffic
    /\ ctr' = [ctr EXCEPT ![k] = @ + 1]
    /\ traffic' = [traffic EXCEPT ![k] = @ + 1]
    /\ Drop(k, Delta(Baseline(k), ctr[k]) + 1 - Delta(Baseline(k), ctr[k] + 1))
    /\ UNCHANGED <<present, fresh, conf, clients, open, closed, base, cred, memory>>

Handshake(k) ==
    /\ k \in present \ fresh
    /\ fresh' = fresh \cup {k}
    /\ UNCHANGED <<present, ctr, traffic, conf, store, memory>>

HandshakeExpires(k) ==
    /\ k \in fresh
    /\ fresh' = fresh \ {k}
    /\ UNCHANGED <<present, ctr, traffic, conf, store, memory>>

AddPeer(k) ==
    /\ k \notin present
    /\ present' = present \cup {k}
    /\ UNCHANGED <<fresh, ctr, traffic, conf, store, memory>>

\* The peer leaves the interface, or the interface restarts: the kernel
\* forgets its handshake and its counters, and what they counted since
\* the last baseline is beyond recovery.
RemovePeer(k) ==
    /\ k \in present /\ (k \in Resettable \/ ctr[k] = 0)
    /\ present' = present \ {k}
    /\ fresh' = fresh \ {k}
    /\ ctr' = [ctr EXCEPT ![k] = 0]
    /\ Drop(k, Delta(Baseline(k), ctr[k]))
    /\ UNCHANGED <<traffic, conf, clients, open, closed, base, cred, memory>>

\* Registry.Load read a configuration that lost a peer ...
RegistryDrops(k) ==
    /\ k \in conf
    /\ conf' = conf \ {k}
    /\ UNCHANGED <<kernel, store, memory>>

\* ... or gained one, whose client row is then inserted.
RegistryGains(k) ==
    /\ k \notin conf
    /\ conf' = conf \cup {k}
    /\ \/ clients' = clients \cup {NameOf[k]}
       \/ "upsert" \in FailOps /\ UNCHANGED clients
    /\ UNCHANGED <<kernel, open, closed, base, cred, dropped, memory>>

\* The certificate loop inserts the names it knows.
UpsertKnownClient(n) ==
    /\ n \notin clients
    /\ clients' = clients \cup {n}
    /\ UNCHANGED <<kernel, conf, open, closed, base, cred, dropped, memory>>

InConf(n) == \E k \in conf : NameOf[k] = n

\* The reaper may act on names it read before a reload.
Reap(n) ==
    /\ n \in clients \cap Reapable
    /\ DeleteClientData(n)
    /\ slipped' = slipped \cup {n}
    /\ UNCHANGED <<kernel, conf, pc, states, online, shown, fails, pass>>

\* A name in neither validity source: the reaper's next pass deletes it.
ReapRemoved(n) == Reap(n) /\ ~InConf(n)

-----------------------------------------------------------------------------
(***************************************************************************)
(* Poller.Run and Poller.poll.                                             *)
(***************************************************************************)

Start ==
    /\ pc = "off"
    /\ pc' = "idle"
    /\ \/ states' = base
       \/ "loadStates" \in FailOps /\ states' = [k \in Peer |-> NoBase]
    /\ \/ online' = open
       \/ "loadOpen" \in FailOps /\ online' = {}
    /\ fails' = 0
    /\ UNCHANGED <<kernel, conf, store, shown, slipped, pass>>

\* The process ends at any point: memory is lost, the store is not.  (The
\* registry is loaded again before the poller starts, or stays empty if
\* that fails.)
Crash ==
    /\ pc # "off"
    /\ pc' = "off"
    /\ states' = [k \in Peer |-> NoBase]
    /\ online' = {} /\ shown' = {} /\ fails' = 0 /\ slipped' = {}
    /\ conf' = {}
    /\ todo' = {} /\ resolved' = {} /\ snapFresh' = {}
    /\ current' = {} /\ seen' = {} /\ gone' = {}
    /\ snap' = [k \in Peer |-> 0]
    /\ UNCHANGED <<kernel, store>>

\* The dump succeeds: one atomic snapshot of the interface.
DumpSucceeds ==
    /\ pc = "idle"
    /\ pc' = "peers"
    /\ fails' = 0
    /\ todo' = present
    /\ snap' = ctr
    /\ snapFresh' = fresh
    /\ UNCHANGED <<kernel, conf, store, states, online, shown, slipped,
                   resolved, current, seen, gone>>

NextFails == IF fails > MaxDumpFailures THEN fails ELSE fails + 1

\* The dump fails; below or past the threshold nothing else happens.
DumpFails ==
    /\ pc = "idle"
    /\ fails' = NextFails
    /\ NextFails # MaxDumpFailures
    /\ UNCHANGED <<kernel, conf, store, pc, states, online, shown, slipped, pass>>

\* A mutated form: only the dashboard's set is cleared.
HideOnline == shown' = {} /\ UNCHANGED online

ForgetOnline == online' = {} /\ shown' = {}

\* The failure that reaches the threshold declares WireGuard down.
DeclareDown ==
    /\ pc = "idle"
    /\ fails' = NextFails
    /\ NextFails = MaxDumpFailures
    /\ \/ CloseAllWGSessions
       \/ "closeAll" \in FailOps /\ UNCHANGED store
    /\ ForgetOnline
    /\ UNCHANGED <<kernel, conf, pc, states, slipped, pass>>

\* A peer of the dump that the registry does not know is skipped.
SkipUnknown(k) ==
    /\ pc = "peers" /\ resolved = {} /\ k \in todo \ conf
    /\ todo' = todo \ {k}
    /\ snapFresh' = snapFresh \ {k}
    /\ snap' = [snap EXCEPT ![k] = 0]
    /\ UNCHANGED <<kernel, conf, store, pc, states, online, shown, fails,
                   slipped, resolved, current, seen, gone>>

\* NameByPubKey resolves the next peer of the dump; the transaction that
\* follows waits for the only connection to the database.
Lookup(k) ==
    /\ pc = "peers" /\ resolved = {} /\ k \in todo \cap conf
    /\ resolved' = {k}
    /\ seen' = seen \cup {NameOf[k]}
    /\ UNCHANGED <<kernel, conf, store, pc, states, online, shown, fails,
                   slipped, todo, snap, snapFresh, current, gone>>

\* What every case of the per-peer switch does: the loop moves past k.
Visit(k) ==
    /\ pc = "peers" /\ k \in resolved
    /\ resolved' = {}
    /\ todo' = todo \ {k}
    /\ snapFresh' = snapFresh \ {k}
    /\ snap' = [snap EXCEPT ![k] = 0]
    /\ UNCHANGED <<kernel, conf, pc, online, shown, fails, seen, gone>>

Remember(k) == states' = [states EXCEPT ![k] = snap[k]]

MarkOnline(k) == current' = current \cup {NameOf[k]}

RolledBack(op) == op \in FailOps /\ UNCHANGED <<store, states>>

IsOnline(k)    == k \in snapFresh
WentOffline(k) == k \notin snapFresh /\ NameOf[k] \in online
IsOffline(k)   == k \notin snapFresh /\ NameOf[k] \notin online

PeerOnline(k) ==
    /\ Visit(k) /\ IsOnline(k)
    /\ MarkOnline(k)
    /\ ApplyWGPeerDelta(k) /\ Remember(k)
    /\ slipped' = slipped \ {NameOf[k]}

PeerOnlineFails(k) ==
    /\ Visit(k) /\ IsOnline(k)
    /\ MarkOnline(k)
    /\ RolledBack("apply")
    /\ slipped' = slipped \cup {NameOf[k]}

PeerWentOffline(k) ==
    /\ Visit(k) /\ WentOffline(k)
    /\ CloseWGPeerSession(k) /\ Remember(k)
    /\ UNCHANGED <<current, slipped>>

\* A mutated form: a close that failed is not remembered.
ForgetFailedClose(k) == UNCHANGED current

\* The name stays online in memory so that the close is retried.
RetryNextPoll(k) == MarkOnline(k)

PeerWentOfflineFails(k) ==
    /\ Visit(k) /\ WentOffline(k)
    /\ RetryNextPoll(k)
    /\ RolledBack("close")
    /\ UNCHANGED slipped

FirstSighting(k) ==
    /\ Visit(k) /\ IsOffline(k) /\ states[k] = NoBase
    /\ \/ SaveWGPeerState(k) /\ Remember(k)
       \/ RolledBack("save")
    /\ UNCHANGED <<current, slipped>>

TrailingBytes(k) ==
    /\ Visit(k) /\ IsOffline(k) /\ states[k] # NoBase /\ Due(k) # 0
    /\ \/ ApplyWGTrailingDelta(k) /\ Remember(k)
       \/ RolledBack("trailing")
    /\ UNCHANGED <<current, slipped>>

NothingToWrite(k) ==
    /\ Visit(k) /\ IsOffline(k) /\ states[k] # NoBase /\ Due(k) = 0
    /\ UNCHANGED <<store, states, current, slipped>>

\* A mutated form: names that left the interface are overlooked.
NoneVanished == {}

\* Names online before this poll that its dump does not hold.
Vanished == online \ (seen \cup current)

PeersDone ==
    /\ pc = "peers" /\ todo = {}
    /\ pc' = "gone"
    /\ gone' = Vanished
    /\ UNCHANGED <<kernel, conf, store, states, online, shown, fails,
                   slipped, todo, resolved, snap, snapFresh, current, seen>>

CloseGone(n) ==
    /\ pc = "gone" /\ n \in gone
    /\ gone' = gone \ {n}
    /\ CloseWGSessionByName(n)
    /\ UNCHANGED <<kernel, conf, pc, states, online, shown, fails,
                   slipped, todo, resolved, snap, snapFresh, current, seen>>

CloseGoneFails(n) ==
    /\ pc = "gone" /\ n \in gone
    /\ gone' = gone \ {n}
    /\ current' = current \cup {n}
    /\ RolledBack("closeByName")
    /\ UNCHANGED <<kernel, conf, pc, online, shown, fails,
                   slipped, todo, resolved, snap, snapFresh, seen>>

\* The end of poll(); its local variables go out of scope.
PollDone ==
    /\ pc = "gone" /\ gone = {}
    /\ pc' = "idle"
    /\ online' = current /\ shown' = current
    /\ current' = {} /\ seen' = {}
    /\ UNCHANGED <<kernel, conf, store, states, fails, slipped, todo, resolved,
                   snap, snapFresh, gone>>

-----------------------------------------------------------------------------
Environment ==
    \/ \E k \in Peer : \/ Transfer(k) \/ Handshake(k) \/ HandshakeExpires(k)
                       \/ AddPeer(k) \/ RemovePeer(k)
                       \/ RegistryDrops(k) \/ RegistryGains(k)
    \/ \E n \in Name : UpsertKnownClient(n) \/ Reap(n)

VisitPeer(k) ==
    \/ SkipUnknown(k) \/ Lookup(k)
    \/ PeerOnline(k) \/ PeerOnlineFails(k)
    \/ PeerWentOffline(k) \/ PeerWentOfflineFails(k)
    \/ FirstSighting(k) \/ TrailingBytes(k) \/ NothingToWrite(k)

CloseVanished(n) == CloseGone(n) \/ CloseGoneFails(n)

Poll ==
    \/ DumpSucceeds \/ DumpFails \/ DeclareDown
    \/ \E k \in Peer : VisitPeer(k)
    \/ PeersDone
    \/ \E n \in Name : CloseVanished(n)
    \/ PollDone

Next == Environment \/ Start \/ Crash \/ Poll

Spec == Init /\ [][Next]_vars

(***************************************************************************)
(* The ticker keeps the poll loop going, the refresh loop keeps the reaper *)
(* going, and a close that is retried on every poll does not fail every    *)
(* time.  Nothing is assumed of the kernel, of crashes or of the dump.     *)
(***************************************************************************)
Fairness ==
    /\ WF_vars(Poll)
    /\ \A k \in Peer : SF_vars(PeerWentOffline(k))
    /\ \A n \in Name : SF_vars(CloseGone(n)) /\ WF_vars(ReapRemoved(n))

FairSpec == Spec /\ Fairness

-----------------------------------------------------------------------------
(***************************************************************************)
(* Properties.                                                             *)
(***************************************************************************)

\* Type invariant of the poller, its store and its environment.
TypeOK ==
    /\ present \subseteq Peer /\ fresh \subseteq present
    /\ conf \subseteq Peer
    /\ ctr \in [Peer -> Nat] /\ traffic \in [Peer -> Nat]
    /\ clients \subseteq Name
    /\ open \subseteq clients /\ closed \subseteq clients
    /\ base \in [Peer -> Counter]
    /\ cred \in [Peer -> Nat] /\ dropped \subseteq Peer
    /\ pc \in {"off", "idle", "peers", "gone"}
    /\ states \in [Peer -> Counter]
    /\ online \subseteq Name /\ shown \subseteq Name
    /\ fails \in 0 .. MaxDumpFailures + 1 /\ slipped \subseteq Name
    /\ todo \subseteq Peer /\ resolved \subseteq todo /\ snapFresh \subseteq Peer
    /\ pc # "peers" => resolved = {}
    /\ snap \in [Peer -> Nat]
    /\ current \subseteq Name /\ seen \subseteq Name /\ gone \subseteq Name

\* No byte is credited twice: the session rows of a client never hold more
\* of a peer's bytes than the peer transferred, whatever fails, crashes,
\* resets or is reaped between two polls (deltas and the transactions that
\* store each increment with its baseline).
NoDoubleCredit == \A k \in Peer : cred[k] <= traffic[k]

\* The books balance: unless some byte of a peer was given up where the
\* code says so (first sighting offline, no session to fold into, reaped,
\* cut off by a reset), each byte it transferred is either in its client's
\* sessions or due at the next poll, never both and never neither (deltas:
\* "everything counted since the reset is new traffic").
LedgerBalances ==
    \A k \in Peer \ dropped :
        traffic[k] = cred[k] + Delta(Baseline(k), ctr[k])

\* Seen from outside the poller keeps a plain ledger: what a peer has due is
\* the distance of its counter from its baseline, and each transaction
\* books all of it that the dump showed, exactly once, or gives the peer
\* up (deltas, with the transactions of db/wireguard.go).
Books == INSTANCE ByteLedger WITH
    Account <- Peer, moved <- traffic, booked <- cred, waived <- dropped,
    due <- [k \in Peer |-> Delta(Baseline(k), ctr[k])]

ImplementsLedger == Books!Spec

\* No open session is forgotten: each one belongs to a name the poller
\* remembers as online, so that some later poll resumes or closes it (the
\* retries through `current` in poll(), the seeding of p.online in Run).
OpenTracked == pc # "off" => open \subseteq online \cup current

\* Between polls the online names are exactly those with an open session,
\* but for a name whose last write failed or whose data was purged since
\* (the per-name online set whose transitions open and close sessions).
OnlineMatchesOpen ==
    pc = "idle" => open \subseteq online /\ online \subseteq open \cup slipped

\* Once the panel stays up, a client none of whose peers shakes hands any
\* more has its session closed for good, even though single closes fail
\* and the dump itself may fail (CloseWGPeerSession and its retry,
\* CloseWGSessionByName, the shutdown at maxDumpFailures).
StaleSessionClosed ==
    \A n \in Name :
        <>[](pc # "off" /\ \A k \in fresh : NameOf[k] # n) => <>[](n \notin open)
=============================================================================
