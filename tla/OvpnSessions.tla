----------------------------- MODULE OvpnSessions -----------------------------
(***************************************************************************)
(* The OpenVPN side: the status-log watcher (internal/openvpn/watcher.go,  *)
(* parse.go) and the transaction that turns one reading of the log into    *)
(* sessions (internal/db/sessions.go), with the server that writes the     *)
(* log, the whitelist, the reaper and the WireGuard poller around them.    *)
(*                                                                         *)
(* A connection is known by its key, the pair (connected_since, protocol)  *)
(* that sessions are keyed on.  One byte direction is kept.  Rows are      *)
(* stored under client ids, as in the code, because SQLite hands the id of *)
(* a deleted client out again and the absence counts outlive the client.   *)
(***************************************************************************)
EXTENDS Integers, FiniteSets

CONSTANTS
    Name,        \* client names
    Key,         \* connection identities
    WG,          \* the identity of a client's WireGuard session
    WGName,      \* names that also use WireGuard
    Reapable,    \* names whose certificate may be revoked and restored
    MaxId,       \* bound: client ids
    MaxBytes,    \* bound: bytes of one connection
    LogFaults,   \* what may befall the log file: "torn", "missing", "stale"
    DBFaults     \* transactions that may fail

ASSUME KeyAssumption == WG \notin Key
ASSUME NameAssumption == IsFiniteSet(Name) /\ WGName \subseteq Name /\ Reapable \subseteq Name
ASSUME BoundAssumption ==
    MaxId \in Nat /\ MaxBytes \in Nat /\ Cardinality(Name) <= MaxId
ASSUME FaultAssumption ==
    /\ LogFaults \subseteq {"torn", "missing", "stale"}
    /\ DBFaults \subseteq {"write", "commit", "closeAll"}

VARIABLES
    \* the OpenVPN server
    serving,   \* it runs and writes its log
    conn,      \* live connections of each name
    over,      \* connections that ended and whose second has passed
    ctr,       \* byte counter of each connection
    \* the status log
    log,       \* "whole" (with its END line), "torn" or "missing"
    file,      \* what it lists
    stale,     \* its mtime is more than three minutes old
    \* the panel around the watcher
    certs,     \* CertWhitelist.names
    \* the database
    id,        \* clients.id of each name, NoClient without a row
    bytes,     \* the byte column of each session row, by client id and key
    open,      \* keys of the rows whose disconnected_at is NULL, by client id
    \* the watcher's memory
    pc,        \* "off", "start", "idle", or "process" with entries in hand
    entries,   \* the parsed log
    online,    \* the OnlineTracker
    absent,    \* DB.absent, by client id, saturating at the threshold
    \* history
    peak,      \* highest counter each connection identity reached
    misses     \* consecutive complete readings without the name, up to 2

server == <<serving, conn, over, ctr, peak>>
status == <<log, file, stale>>
store  == <<id, bytes, open>>
memory == <<pc, entries, online, absent, misses>>
vars   == <<server, status, certs, store, memory>>

Id       == 1 .. MaxId
NoClient == 0
Unlisted == -1      \* not in the log; no row in the database
Counter  == 0 .. MaxBytes \cup {Unlisted}
Listing  == [Name -> [Key -> Counter]]
Nothing  == [n \in Name |-> [k \in Key |-> Unlisted]]

Listed(l, n) == {k \in Key : l[n][k] # Unlisted}
Seen(l)      == {n \in Name : Listed(l, n) # {}}

Larger(x, y) == IF x < y THEN y ELSE x

\* Two complete readings without a client close its session.
Threshold == 2
Saturated(x) == IF x > Threshold THEN Threshold ELSE x

-----------------------------------------------------------------------------
Init ==
    /\ serving = FALSE
    /\ conn = [n \in Name |-> {}]
    /\ over = [n \in Name |-> {}]
    /\ ctr = [n \in Name |-> [k \in Key |-> 0]]
    /\ log = "whole" /\ file = Nothing /\ stale = FALSE
    /\ certs \in SUBSET Name
    /\ id = [n \in Name |-> NoClient]
    /\ bytes = [i \in Id |-> [k \in Key |-> Unlisted]]
    /\ open = [i \in Id |-> {}]
    /\ pc = "off" /\ entries = Nothing /\ online = {}
    /\ absent = [i \in Id |-> 0]
    /\ peak = [n \in Name |-> [k \in Key |-> 0]]
    /\ misses = [n \in Name |-> 0]

-----------------------------------------------------------------------------
(***************************************************************************)
(* The OpenVPN server and its status log.                                  *)
(***************************************************************************)
ServerStarts ==
    /\ ~serving
    /\ serving' = TRUE
    /\ UNCHANGED <<conn, over, ctr, peak, status, certs, store, memory>>

ServerStops ==
    /\ serving
    /\ serving' = FALSE
    /\ conn' = [n \in Name |-> {}]
    /\ over' = [n \in Name |-> over[n] \cup conn[n]]
    /\ UNCHANGED <<ctr, peak, status, certs, store, memory>>

Connect(n, k) ==
    /\ serving /\ k \notin conn[n] \cup over[n]
    /\ conn' = [conn EXCEPT ![n] = @ \cup {k}]
    /\ ctr' = [ctr EXCEPT ![n][k] = 0]
    /\ UNCHANGED <<serving, over, peak, status, certs, store, memory>>

\* A client that drops within the second it connected may return with the
\* same key, over the same transport, and a counter from zero.
Disconnect(n, k) ==
    /\ k \in conn[n]
    /\ conn' = [conn EXCEPT ![n] = @ \ {k}]
    /\ UNCHANGED over \/ over' = [over EXCEPT ![n] = @ \cup {k}]
    /\ UNCHANGED <<serving, ctr, peak, status, certs, store, memory>>

Transfer(n, k) ==
    /\ k \in conn[n] /\ ctr[n][k] < MaxBytes
    /\ ctr' = [ctr EXCEPT ![n][k] = @ + 1]
    /\ peak' = [peak EXCEPT ![n][k] = Larger(@, ctr'[n][k])]
    /\ UNCHANGED <<serving, conn, over, status, certs, store, memory>>

\* A complete dump of the connections, closed by its END line.
WriteStatus ==
    /\ serving
    /\ log' = "whole" /\ stale' = FALSE
    /\ file' = [n \in Name |-> [k \in Key |->
                    IF k \in conn[n] THEN ctr[n][k] ELSE Unlisted]]
    /\ UNCHANGED <<server, certs, store, memory>>

BeginRewrite ==
    /\ "torn" \in LogFaults /\ serving
    /\ log' = "torn" /\ file' = Nothing /\ stale' = FALSE
    /\ UNCHANGED <<server, certs, store, memory>>

LogRemoved ==
    /\ "missing" \in LogFaults /\ ~serving
    /\ log' = "missing" /\ file' = Nothing /\ stale' = FALSE
    /\ UNCHANGED <<server, certs, store, memory>>

GoesStale ==
    /\ "stale" \in LogFaults /\ log # "missing"
    /\ stale' = TRUE
    /\ UNCHANGED <<server, log, file, certs, store, memory>>

-----------------------------------------------------------------------------
(***************************************************************************)
(* Client rows, and the other writers of the store.                        *)
(***************************************************************************)
Used(ids) == {ids[n] : n \in Name} \ {NoClient}

IsTop(top, ids) == top \in Used(ids) \cup {0} /\ \A i \in Used(ids) : i <= top

\* INSERT OR IGNORE INTO clients, in any order: SQLite gives each new row
\* the id after the largest one in the table.
Inserted(new) ==
    {ids \in [Name -> 0 .. MaxId] :
        /\ \A n \in Name \ new : ids[n] = id[n]
        /\ \A m, n \in new : ids[m] = ids[n] => m = n
        /\ \E top \in 0 .. MaxId :
             /\ IsTop(top, id)
             /\ {ids[n] : n \in new} = top + 1 .. top + Cardinality(new)}

Missing(ns) == {n \in ns : id[n] = NoClient}

WhitelistDrops(n) ==
    /\ n \in certs \cap Reapable
    /\ certs' = certs \ {n}
    /\ UNCHANGED <<server, status, store, memory>>

WhitelistGains(n) ==
    /\ n \notin certs
    /\ certs' = certs \cup {n}
    /\ UNCHANGED <<server, status, store, memory>>

\* A mutated form: the session rows are left to the cascade.
LeaveRows(i) == UNCHANGED <<bytes, open>>

DeleteRows(i) ==
    /\ bytes' = [bytes EXCEPT ![i] = [k \in Key |-> Unlisted]]
    /\ open' = [open EXCEPT ![i] = {}]

\* The reaper; the bound keeps ids from running past MaxId.
DeleteClientData(n) ==
    /\ n \in Reapable \ certs /\ id[n] # NoClient
    /\ id' = [id EXCEPT ![n] = NoClient]
    /\ \E top \in 0 .. MaxId :
         /\ IsTop(top, id')
         /\ top + Cardinality({m \in Name : id'[m] = NoClient}) <= MaxId
    /\ DeleteRows(id[n])
    /\ UNCHANGED <<server, status, certs, memory>>

\* The WireGuard poller opens and closes the client's other session.
WGOpens(n) ==
    /\ n \in WGName
    /\ id' \in Inserted(Missing({n}))
    /\ open' = [open EXCEPT ![id'[n]] = @ \cup {WG}]
    /\ UNCHANGED <<bytes, server, status, certs, memory>>

WGCloses(n) ==
    /\ id[n] # NoClient /\ WG \in open[id[n]]
    /\ open' = [open EXCEPT ![id[n]] = @ \ {WG}]
    /\ UNCHANGED <<id, bytes, server, status, certs, memory>>

-----------------------------------------------------------------------------
(***************************************************************************)
(* Watcher.Watch and processLog.                                           *)
(***************************************************************************)

\* ensureKnownClients; a watch on a missing file fails and ends the panel.
Start ==
    /\ pc = "off" /\ log # "missing"
    /\ pc' = "start"
    /\ \/ id' \in Inserted(Missing(certs))
       \/ "write" \in DBFaults /\ \E some \in SUBSET Missing(certs) : id' \in Inserted(some)
    /\ UNCHANGED <<bytes, open, server, status, certs, entries, online, absent, misses>>

Crash ==
    /\ pc # "off"
    /\ pc' = "off"
    /\ entries' = Nothing /\ online' = {}
    /\ absent' = [i \in Id |-> 0]
    /\ UNCHANGED <<server, status, certs, store, misses>>

\* Only the first reading happens whatever the age of the log.
MayRead == pc = "start" \/ (pc = "idle" /\ ~stale)

Whitelisted == [n \in Name |-> IF n \in certs THEN file[n] ELSE Nothing[n]]

\* A complete log: the tracker is set before the database is written.
ReadLog ==
    /\ MayRead /\ log = "whole"
    /\ pc' = "process"
    /\ entries' = Whitelisted
    /\ online' = Seen(entries')
    /\ misses' = [n \in Name |-> IF n \in online' THEN 0 ELSE Saturated(misses[n] + 1)]
    /\ UNCHANGED <<server, status, certs, store, absent>>

\* A torn or missing log is skipped; between ticks that changes nothing.
SkipLog ==
    /\ pc = "start" /\ log # "whole"
    /\ pc' = "idle"
    /\ UNCHANGED <<server, status, certs, store, entries, online, absent, misses>>

\* A mutated form of the scope: every session of the client.
AllSessions(keys) == {}

\* What closing a client's OpenVPN sessions leaves open.
NotOpenVPN(keys) == keys \ Key

CloseAllOpenSessions ==
    /\ pc = "idle" /\ log # "missing" /\ stale
    /\ open' = [i \in Id |-> NotOpenVPN(open[i])]
    /\ absent' = [i \in Id |-> 0]
    /\ online' = {}
    /\ UNCHANGED <<server, status, certs, id, bytes, pc, entries, misses>>

CloseAllFails ==
    /\ "closeAll" \in DBFaults
    /\ pc = "idle" /\ log # "missing" /\ stale
    /\ online' = {}
    /\ UNCHANGED <<server, status, certs, store, pc, entries, absent, misses>>

-----------------------------------------------------------------------------
(***************************************************************************)
(* ProcessLogEntries.  The entries of one client differ in their keys; the *)
(* last of them in the log, last[n], is the one whose session stays open.  *)
(***************************************************************************)
LastEntries ==
    {last \in [Seen(entries) -> Key] : \A n \in Seen(entries) : last[n] \in Listed(entries, n)}

SeenIds(ids) == {ids[n] : n \in Seen(entries)}

Client(ids, i) == CHOOSE n \in Seen(entries) : ids[n] = i

\* Mutated forms: the other connection's session stays open, a session
\* that was closed is not reopened, the reading replaces the row or is
\* added to it.
KeepOthers(keys, k)  == keys \cup {k}
LeaveClosed(keys, k) == NotOpenVPN(keys) \cup (keys \cap {k})
Replace(row, read)   == [k \in Key |-> IF read[k] = Unlisted THEN row[k] ELSE read[k]]
AddUp(row, read)     == [k \in Key |-> IF read[k] = Unlisted THEN row[k]
                                         ELSE Larger(row[k], 0) + read[k]]

\* Close the client's other OpenVPN sessions, open or reopen this one.
Reopen(keys, k) == NotOpenVPN(keys) \cup {k}

\* ON CONFLICT DO UPDATE SET bytes = MAX(bytes, excluded.bytes)
Ratchet(row, read) == [k \in Key |-> Larger(row[k], read[k])]

UpsertedBytes(ids) ==
    [i \in Id |-> IF i \in SeenIds(ids) THEN Ratchet(bytes[i], entries[Client(ids, i)])
                                        ELSE bytes[i]]

UpsertedOpen(ids, last) ==
    [i \in Id |-> IF i \in SeenIds(ids) THEN Reopen(open[i], last[Client(ids, i)])
                                        ELSE open[i]]

\* Clients with an open OpenVPN session, the ones absence is counted for.
OpenIds(opened) == {i \in Id : opened[i] \cap Key # {}}

\* A mutated form: a client missing from the log is overlooked.
Overlooked(ids) == {}

Unseen(ids) == OpenIds(open) \ SeenIds(ids)

Expired(ids) == {i \in Unseen(ids) : absent[i] + 1 >= Threshold}

\* A mutated form: a client that is seen again keeps its count.
CountOn(ids, i) ==
    IF i \in Unseen(ids) \ Expired(ids) THEN absent[i] + 1
    ELSE IF i \in Expired(ids) THEN 0 ELSE absent[i]

\* The count of an open client, once the loop over absences is past it.
Recount(ids, i) == IF i \in Unseen(ids) \ Expired(ids) THEN absent[i] + 1 ELSE 0

Processed == pc = "process" /\ pc' = "idle" /\ entries' = Nothing

ProcessLogEntries ==
    /\ Processed
    /\ \E ids \in Inserted(Missing(Seen(entries))), last \in LastEntries :
        LET opened == UpsertedOpen(ids, last) IN
        /\ id' = ids
        /\ bytes' = UpsertedBytes(ids)
        /\ open' = [i \in Id |-> IF i \in Expired(ids) THEN NotOpenVPN(opened[i]) ELSE opened[i]]
        /\ absent' = [i \in Id |-> IF i \in OpenIds(opened) THEN Recount(ids, i) ELSE absent[i]]
    /\ UNCHANGED <<server, status, certs, online, misses>>

\* A statement before the absence counts fails: the transaction rolls back.
WriteFails ==
    /\ "write" \in DBFaults
    /\ Processed
    /\ UNCHANGED <<server, status, certs, store, online, absent, misses>>

\* The transaction rolls back after the absence counts were changed: at the
\* commit, or at the UPDATE that closes client i, some clients done.
CommitFails ==
    /\ "commit" \in DBFaults
    /\ Processed
    /\ \E ids \in Inserted(Missing(Seen(entries))) :
        LET opened == OpenIds(open) \cup SeenIds(ids)
            Done(some) == [j \in Id |-> IF j \in some THEN Recount(ids, j) ELSE absent[j]]
        IN \/ absent' = Done(opened)
           \/ \E i \in Expired(ids), some \in SUBSET opened :
                /\ i \notin some
                /\ absent' = [Done(some) EXCEPT ![i] = Saturated(absent[i] + 1)]
    /\ UNCHANGED <<server, status, certs, store, online, misses>>

-----------------------------------------------------------------------------
Server ==
    \/ ServerStarts \/ ServerStops
    \/ \E n \in Name, k \in Key : \/ Connect(n, k) \/ Disconnect(n, k)
                                  \/ Transfer(n, k)
    \/ WriteStatus \/ BeginRewrite \/ LogRemoved \/ GoesStale

Others ==
    \E n \in Name : \/ WhitelistDrops(n) \/ WhitelistGains(n)
                    \/ DeleteClientData(n)
                    \/ WGOpens(n) \/ WGCloses(n)

Watch ==
    \/ ReadLog \/ SkipLog
    \/ CloseAllOpenSessions \/ CloseAllFails
    \/ ProcessLogEntries \/ WriteFails \/ CommitFails

Next == Server \/ Others \/ Start \/ Crash \/ Watch

Spec == Init /\ [][Next]_vars

(***************************************************************************)
(* A running server keeps dumping its connections, a log that nobody       *)
(* writes ages, the ticker keeps the watcher going, and the two statements *)
(* that close sessions do not fail for ever.                               *)
(***************************************************************************)
Fairness ==
    /\ WF_vars(WriteStatus)
    /\ WF_vars(WriteStatus \/ GoesStale)
    /\ WF_vars(Watch)
    /\ SF_vars(ReadLog)
    /\ SF_vars(ProcessLogEntries)
    /\ SF_vars(CloseAllOpenSessions)

FairSpec == Spec /\ Fairness

-----------------------------------------------------------------------------
(***************************************************************************)
(* Properties.                                                             *)
(***************************************************************************)

\* Type invariant of the server, its log, the store and the watcher.
TypeOK ==
    /\ serving \in BOOLEAN
    /\ conn \in [Name -> SUBSET Key] /\ over \in [Name -> SUBSET Key]
    /\ ~serving => \A n \in Name : conn[n] = {}
    /\ ctr \in [Name -> [Key -> 0 .. MaxBytes]]
    /\ log \in {"whole", "torn", "missing"} /\ stale \in BOOLEAN
    /\ file \in Listing
    /\ certs \subseteq Name
    /\ id \in [Name -> 0 .. MaxId]
    /\ bytes \in [Id -> [Key -> Counter]]
    /\ open \in [Id -> SUBSET (Key \cup {WG})]
    /\ pc \in {"off", "start", "idle", "process"}
    /\ entries \in Listing /\ online \subseteq Name
    /\ absent \in [Id -> 0 .. Threshold]
    /\ peak \in [Name -> [Key -> 0 .. MaxBytes]]
    /\ misses \in [Name -> 0 .. Threshold]

Sessions(n) == IF id[n] = NoClient THEN {} ELSE open[id[n]]

\* A client never has two open OpenVPN sessions, however its connections
\* follow or overlap one another in the log, and an open session has a row
\* (ProcessLogEntries: "the one-open-session-per-client invariant").
OneOpenSession ==
    \A i \in Id :
        /\ \A j, k \in open[i] \cap Key : j = k
        /\ \A k \in open[i] \cap Key : bytes[i][k] # Unlisted

\* A client's rows hold nothing but its own traffic: no more bytes than
\* the connection they stand for reached, whoever had the id before.
OwnBytesOnly ==
    \A n \in Name : id[n] # NoClient =>
        \A k \in Key : bytes[id[n]][k] <= peak[n][k]

\* What a session has counted is never taken back while its client exists
\* ("Bytes only ever ratchet up"), whatever a later log reports.
BytesOnlyRatchet ==
    [][\A n \in Name : id[n] # NoClient /\ id'[n] = id[n] =>
           \A k \in Key : bytes'[id[n]][k] >= bytes[id[n]][k]]_vars

\* The watcher never ends a WireGuard session: not when the client leaves
\* OpenVPN, changes connection, or when the OpenVPN server goes silent.
WGSessionsUntouched ==
    [][Watch => \A n \in Name : WG \in Sessions(n) => WG \in Sessions(n)']_vars

\* A session is closed for absence only after two consecutive complete
\* readings without its client (DB.absent: "the number of consecutive valid
\* reads in which the client was missing").
ClosedAfterTwoMisses ==
    [][\A n \in Name :
           pc = "process" /\ n \notin Seen(entries) /\ id'[n] = id[n]
           /\ Sessions(n) \cap Key # {} /\ Sessions(n)' \cap Key = {}
             => misses[n] >= Threshold]_vars

\* Between two readings every client shown online has an open session,
\* unless it was purged since (processLog sets the tracker first, and
\* ProcessLogEntries then clears disconnected_at).
OnlineHaveSessions ==
    pc = "idle" => \A n \in online : id[n] # NoClient => Sessions(n) \cap Key # {}

\* Once the panel stays up, a client that is not connected any more has its
\* session closed for good, whether the server still runs or went silent,
\* and even though single transactions fail (Watch: without it "clients
\* would stay online forever").
GoneClientClosed ==
    \A n \in Name :
        <>[](pc # "off" /\ conn[n] = {}) => <>[](Sessions(n) \cap Key = {})
=============================================================================
