-------------------------- MODULE OvpnSessionsProofs --------------------------
(***************************************************************************)
(* OvpnSessions for every set of clients and connections, bound and fault. *)
(* OneOpenSession rests on the types alone: only Reopen opens a session,   *)
(* and it leaves a single OpenVPN key, next to a row just written.  OwnInv *)
(* says whose the rows are, although ids are reused; with it follow what a *)
(* client is credited with, when its session is closed for absence, and    *)
(* that the tracker agrees with the sessions between readings.             *)
(***************************************************************************)
EXTENDS OvpnSessions, TLAPS

\* The whitelisted part of a listing is a listing.
LEMMA WhitelistedType ==
    ASSUME TypeOK
    PROVE  Whitelisted \in Listing /\ Nothing \in Listing
BY BoundAssumption DEF TypeOK, Whitelisted, Listing, Nothing, Counter, Unlisted

\* Ids handed out are ids.
LEMMA InsertedType ==
    ASSUME NEW new, NEW ids \in Inserted(new)
    PROVE  ids \in [Name -> 0 .. MaxId]
BY DEF Inserted

\* The row of a client after its entries: typed, and present if listed.
LEMMA RatchetType ==
    ASSUME NEW row \in [Key -> Counter], NEW read \in [Key -> Counter]
    PROVE  /\ Ratchet(row, read) \in [Key -> Counter]
           /\ \A k \in Key : row[k] # Unlisted \/ read[k] # Unlisted
                                => Ratchet(row, read)[k] # Unlisted
BY BoundAssumption DEF Ratchet, Larger, Counter, Unlisted

\* The client CHOOSEn for an id that was seen is one that was.
LEMMA ClientSeen ==
    ASSUME NEW ids, NEW i \in SeenIds(ids)
    PROVE  Client(ids, i) \in Seen(entries) /\ ids[Client(ids, i)] = i
BY DEF SeenIds, Client

\* What the upserts leave in the rows of each client.
LEMMA UpsertsType ==
    ASSUME TypeOK, NEW ids \in [Name -> 0 .. MaxId], NEW last \in LastEntries
    PROVE  /\ UpsertedBytes(ids) \in [Id -> [Key -> Counter]]
           /\ UpsertedOpen(ids, last) \in [Id -> SUBSET (Key \cup {WG})]
<1>1. \A i \in SeenIds(ids) : Client(ids, i) \in Seen(entries)
  BY ClientSeen
<1>2. \A i \in Id : UpsertedBytes(ids)[i] \in [Key -> Counter]
  <2> SUFFICES ASSUME NEW i \in Id PROVE UpsertedBytes(ids)[i] \in [Key -> Counter]
    OBVIOUS
  <2>1. bytes[i] \in [Key -> Counter]
    BY DEF TypeOK
  <2>2. CASE i \in SeenIds(ids)
    <3>1. entries[Client(ids, i)] \in [Key -> Counter]
      BY <1>1, <2>2 DEF TypeOK, Listing, Seen
    <3> QED BY <2>1, <2>2, <3>1, RatchetType DEF UpsertedBytes
  <2>3. CASE i \notin SeenIds(ids)
    BY <2>1, <2>3 DEF UpsertedBytes
  <2> QED BY <2>2, <2>3
<1>3. \A i \in Id : UpsertedOpen(ids, last)[i] \in SUBSET (Key \cup {WG})
  <2> SUFFICES ASSUME NEW i \in Id PROVE UpsertedOpen(ids, last)[i] \in SUBSET (Key \cup {WG})
    OBVIOUS
  <2>1. open[i] \in SUBSET (Key \cup {WG})
    BY DEF TypeOK
  <2>2. i \in SeenIds(ids) => last[Client(ids, i)] \in Key
    BY <1>1 DEF LastEntries
  <2> QED BY <2>1, <2>2 DEF UpsertedOpen, Reopen, NotOpenVPN
<1> QED BY <1>2, <1>3 DEF UpsertedBytes, UpsertedOpen

\* The counts of absence stay below the threshold outside a failed commit,
\* and reach it there at most.
LEMMA RecountType ==
    ASSUME TypeOK, NEW ids, NEW i \in Id
    PROVE  Recount(ids, i) \in 0 .. Threshold
<1>1. absent[i] \in 0 .. 2
  BY DEF TypeOK, Threshold
<1>2. i \in Unseen(ids) \ Expired(ids) => absent[i] + 1 < 2
  BY <1>1 DEF Expired, Threshold
<1> QED BY <1>1, <1>2 DEF Recount, Threshold

LEMMA SaturatedType ==
    ASSUME NEW x \in 0 .. Threshold
    PROVE  Saturated(x + 1) \in 0 .. Threshold
BY DEF Saturated, Threshold

\* Every state has the declared types.
THEOREM OvpnTypeCorrect == Spec => []TypeOK
<1>1. Init => TypeOK
  <2> SUFFICES ASSUME Init PROVE TypeOK
    OBVIOUS
  <2>1. MaxId \in Nat /\ MaxBytes \in Nat
    BY BoundAssumption
  <2>2. Nothing \in Listing
    BY <2>1 DEF Listing, Nothing, Counter, Unlisted
  <2>3. /\ ctr \in [Name -> [Key -> 0 .. MaxBytes]] /\ peak \in [Name -> [Key -> 0 .. MaxBytes]]
        /\ bytes \in [Id -> [Key -> Counter]]
    BY <2>1 DEF Init, Counter, Unlisted
  <2>4. /\ id \in [Name -> 0 .. MaxId]
        /\ absent \in [Id -> 0 .. Threshold] /\ misses \in [Name -> 0 .. Threshold]
    BY <2>1 DEF Init, NoClient, Threshold
  <2> QED BY <2>2, <2>3, <2>4 DEF Init, TypeOK
<1>2. TypeOK /\ [Next]_vars => TypeOK'
  <2> SUFFICES ASSUME TypeOK, [Next]_vars PROVE TypeOK'
    OBVIOUS
  <2> USE BoundAssumption
  <2>1. CASE Server
    <3>1. CASE ServerStarts \/ ServerStops
      <4>1. conn' \in [Name -> SUBSET Key] /\ over' \in [Name -> SUBSET Key]
        <5>1. conn \in [Name -> SUBSET Key] /\ over \in [Name -> SUBSET Key]
          BY DEF TypeOK
        <5>2. CASE ServerStarts
          BY <5>1, <5>2 DEF ServerStarts
        <5>3. CASE ServerStops
          <6>1. \A n \in Name : over[n] \cup conn[n] \in SUBSET Key
            BY <5>1
          <6> QED BY <5>3, <6>1 DEF ServerStops
        <5> QED BY <3>1, <5>2, <5>3
      <4>2. ~serving' => \A n \in Name : conn'[n] = {}
        BY <3>1 DEF ServerStarts, ServerStops
      <4>3. UNCHANGED <<ctr, peak, status, certs, store, memory>>
        BY <3>1 DEF ServerStarts, ServerStops
      <4>4. serving' \in BOOLEAN
        BY <3>1 DEF ServerStarts, ServerStops
      <4> QED BY <4>1, <4>2, <4>3, <4>4 DEF TypeOK, status, store, memory
    <3>2. ASSUME NEW n \in Name, NEW k \in Key, Connect(n, k) \/ Disconnect(n, k)
          PROVE  TypeOK'
      <4>1. CASE Connect(n, k)
        <5>1. ctr' \in [Name -> [Key -> 0 .. MaxBytes]]
          BY <4>1 DEF Connect, TypeOK
        <5>2. conn' \in [Name -> SUBSET Key] /\ serving'
          BY <4>1 DEF Connect, TypeOK
        <5> QED BY <4>1, <5>1, <5>2 DEF Connect, TypeOK, status, store, memory
      <4>2. CASE Disconnect(n, k)
        <5>1. conn' \in [Name -> SUBSET Key] /\ over' \in [Name -> SUBSET Key]
          BY <4>2 DEF Disconnect, TypeOK
        <5>2. ~serving' => \A m \in Name : conn'[m] = {}
          BY <4>2 DEF Disconnect, TypeOK
        <5>3. UNCHANGED <<serving, ctr, peak, status, certs, store, memory>>
          BY <4>2 DEF Disconnect
        <5> QED BY <5>1, <5>2, <5>3 DEF TypeOK, status, store, memory
      <4> QED BY <3>2, <4>1, <4>2
    <3>3. ASSUME NEW n \in Name, NEW k \in Key, Transfer(n, k) PROVE TypeOK'
      <4>1. ctr' \in [Name -> [Key -> 0 .. MaxBytes]]
        BY <3>3 DEF Transfer, TypeOK
      <4>2. peak' \in [Name -> [Key -> 0 .. MaxBytes]]
        BY <3>3, <4>1 DEF Transfer, TypeOK, Larger
      <4> QED BY <3>3, <4>1, <4>2 DEF Transfer, TypeOK, status, store, memory
    <3>4. CASE WriteStatus
      <4>1. file' \in Listing
        BY <3>4 DEF WriteStatus, TypeOK, Listing, Counter
      <4> QED BY <3>4, <4>1 DEF WriteStatus, TypeOK, server, store, memory
    <3>5. CASE BeginRewrite \/ LogRemoved \/ GoesStale
      BY <3>5, WhitelistedType
         DEF BeginRewrite, LogRemoved, GoesStale, TypeOK, server, store, memory
    <3> QED BY <2>1, <3>1, <3>2, <3>3, <3>4, <3>5 DEF Server
  <2>2. CASE Others
    <3>1. ASSUME NEW n \in Name, WhitelistDrops(n) \/ WhitelistGains(n) PROVE TypeOK'
      BY <3>1 DEF WhitelistDrops, WhitelistGains, TypeOK, server, status, store, memory
    <3>2. ASSUME NEW n \in Name, DeleteClientData(n) PROVE TypeOK'
      <4>1. id' \in [Name -> 0 .. MaxId]
        BY <3>2 DEF DeleteClientData, TypeOK, NoClient
      <4>2. bytes' \in [Id -> [Key -> Counter]] /\ open' \in [Id -> SUBSET (Key \cup {WG})]
        BY <3>2 DEF DeleteClientData, DeleteRows, TypeOK, Counter
      <4> QED BY <3>2, <4>1, <4>2 DEF DeleteClientData, TypeOK, server, status, memory
    <3>3. ASSUME NEW n \in Name, WGOpens(n) \/ WGCloses(n) PROVE TypeOK'
      <4>1. id' \in [Name -> 0 .. MaxId]
        BY <3>3, InsertedType DEF WGOpens, WGCloses, TypeOK
      <4>2. open' \in [Id -> SUBSET (Key \cup {WG})]
        BY <3>3 DEF WGOpens, WGCloses, TypeOK
      <4> QED BY <3>3, <4>1, <4>2 DEF WGOpens, WGCloses, TypeOK, server, status, memory
    <3> QED BY <2>2, <3>1, <3>2, <3>3 DEF Others
  <2>3. CASE Start
    <3>1. id' \in [Name -> 0 .. MaxId]
      BY <2>3, InsertedType DEF Start
    <3> QED BY <2>3, <3>1 DEF Start, TypeOK, server, status
  <2>4. CASE Crash
    BY <2>4, WhitelistedType DEF Crash, TypeOK, server, status, store, Threshold
  <2>5. CASE Watch
    <3>1. CASE ReadLog
      <4>1. entries' \in Listing /\ online' \subseteq Name
        BY <3>1, WhitelistedType DEF ReadLog, Seen
      <4>2. misses' \in [Name -> 0 .. Threshold]
        <5>1. \A n \in Name : Saturated(misses[n] + 1) \in 0 .. Threshold
          BY SaturatedType DEF TypeOK
        <5> QED BY <3>1, <5>1 DEF ReadLog, Threshold
      <4> QED BY <3>1, <4>1, <4>2 DEF ReadLog, TypeOK, server, status, store
    <3>2. CASE SkipLog
      BY <3>2 DEF SkipLog, TypeOK, server, status, store
    <3>3. CASE CloseAllOpenSessions \/ CloseAllFails
      BY <3>3 DEF CloseAllOpenSessions, CloseAllFails, NotOpenVPN, TypeOK, server,
         status, store, Threshold
    <3>4. CASE ProcessLogEntries
      <4>1. PICK ids \in Inserted(Missing(Seen(entries))), last \in LastEntries :
              /\ id' = ids
              /\ bytes' = UpsertedBytes(ids)
              /\ open' = [i \in Id |-> IF i \in Expired(ids)
                                       THEN NotOpenVPN(UpsertedOpen(ids, last)[i])
                                       ELSE UpsertedOpen(ids, last)[i]]
              /\ absent' = [i \in Id |-> IF i \in OpenIds(UpsertedOpen(ids, last))
                                         THEN Recount(ids, i) ELSE absent[i]]
        BY <3>4 DEF ProcessLogEntries
      <4>2. ids \in [Name -> 0 .. MaxId]
        BY InsertedType
      <4>3. /\ bytes' \in [Id -> [Key -> Counter]]
            /\ open' \in [Id -> SUBSET (Key \cup {WG})]
        BY <4>1, <4>2, UpsertsType DEF NotOpenVPN
      <4>4. absent' \in [Id -> 0 .. Threshold]
        BY <4>1, RecountType DEF TypeOK
      <4>5. entries' \in Listing /\ pc' = "idle"
        BY <3>4, WhitelistedType DEF ProcessLogEntries, Processed
      <4>6. UNCHANGED <<server, status, certs, online, misses>>
        BY <3>4 DEF ProcessLogEntries
      <4> QED BY <4>1, <4>2, <4>3, <4>4, <4>5, <4>6 DEF TypeOK, server, status
    <3>5. CASE WriteFails
      BY <3>5, WhitelistedType DEF WriteFails, Processed, TypeOK, server, status, store
    <3>6. CASE CommitFails
      <4>1. absent' \in [Id -> 0 .. Threshold]
        <5> DEFINE Done(ids, some) ==
                     [j \in Id |-> IF j \in some THEN Recount(ids, j) ELSE absent[j]]
        <5>1. \A ids, some : Done(ids, some) \in [Id -> 0 .. Threshold]
          BY RecountType DEF TypeOK
        <5>2. \A i \in Id : Saturated(absent[i] + 1) \in 0 .. Threshold
          BY SaturatedType DEF TypeOK
        <5>3. PICK ids \in Inserted(Missing(Seen(entries))) :
                \/ absent' = Done(ids, OpenIds(open) \cup SeenIds(ids))
                \/ \E i \in Expired(ids), some \in SUBSET (OpenIds(open) \cup SeenIds(ids)) :
                     absent' = [Done(ids, some) EXCEPT ![i] = Saturated(absent[i] + 1)]
          BY <3>6 DEF CommitFails
        <5>4. \A i \in Expired(ids) : i \in Id
          BY DEF Expired, Unseen, OpenIds
        <5> HIDE DEF Done
        <5> QED BY <5>1, <5>2, <5>3, <5>4
      <4>2. entries' \in Listing /\ pc' = "idle"
        BY <3>6, WhitelistedType DEF CommitFails, Processed
      <4>3. UNCHANGED <<server, status, certs, store, online, misses>>
        BY <3>6 DEF CommitFails
      <4> QED BY <4>1, <4>2, <4>3 DEF TypeOK, server, status, store
    <3> QED BY <2>5, <3>1, <3>2, <3>3, <3>4, <3>5, <3>6 DEF Watch
  <2>6. CASE UNCHANGED vars
    BY <2>6 DEF TypeOK, vars, server, status, store, memory
  <2> QED BY <2>1, <2>2, <2>3, <2>4, <2>5, <2>6 DEF Next
<1> QED BY <1>1, <1>2, PTL DEF Spec

\* One client's part of OneOpenSession.
OneOpen(row, keys) ==
    /\ \A j, k \in keys \cap Key : j = k
    /\ \A k \in keys \cap Key : row[k] # Unlisted

\* After its entries, a client has one open OpenVPN session, with a row.
LEMMA UpsertsOneOpen ==
    ASSUME TypeOK, OneOpenSession,
           NEW ids \in [Name -> 0 .. MaxId], NEW last \in LastEntries, NEW i \in Id
    PROVE  OneOpen(UpsertedBytes(ids)[i], UpsertedOpen(ids, last)[i])
<1>1. CASE i \in SeenIds(ids)
  <2> DEFINE n == Client(ids, i)
  <2>1. n \in Seen(entries)
    BY <1>1, ClientSeen
  <2>2. last[n] \in Listed(entries, n)
    BY <2>1 DEF LastEntries
  <2>3. bytes[i] \in [Key -> Counter] /\ entries[n] \in [Key -> Counter]
    BY <2>1 DEF TypeOK, Listing, Seen
  <2>4. last[n] \in Key /\ UpsertedBytes(ids)[i][last[n]] # Unlisted
    BY <1>1, <2>2, <2>3, RatchetType DEF UpsertedBytes, Listed
  <2>5. UpsertedOpen(ids, last)[i] \cap Key = {last[n]}
    BY <1>1, <2>4 DEF UpsertedOpen, Reopen, NotOpenVPN
  <2> QED BY <2>4, <2>5 DEF OneOpen
<1>2. CASE i \notin SeenIds(ids)
  BY <1>2 DEF UpsertedBytes, UpsertedOpen, OneOpen, OneOpenSession
<1> QED BY <1>1, <1>2

\* A client has at most one open OpenVPN session at any time, and that
\* session has a row (ProcessLogEntries).
THEOREM OneSession == Spec => []OneOpenSession
<1>1. Init => OneOpenSession
  BY DEF Init, OneOpenSession
<1>2. TypeOK /\ OneOpenSession /\ [Next]_vars => OneOpenSession'
  <2> SUFFICES ASSUME TypeOK, OneOpenSession, [Next]_vars,
                      NEW i \in Id
               PROVE  OneOpen(bytes'[i], open'[i])
    BY DEF OneOpenSession, OneOpen
  <2>1. OneOpen(bytes[i], open[i])
    BY DEF OneOpenSession, OneOpen
  <2>2. ASSUME UNCHANGED bytes, open'[i] \cap Key \subseteq open[i] \cap Key
        PROVE  OneOpen(bytes'[i], open'[i])
    BY <2>1, <2>2 DEF OneOpen
  <2>3. CASE Server
    BY <2>2, <2>3 DEF Server, ServerStarts, ServerStops, Connect, Disconnect,
       Transfer, WriteStatus, BeginRewrite, LogRemoved, GoesStale, store
  <2>4. CASE Others
    <3>1. ASSUME NEW n \in Name, WhitelistDrops(n) \/ WhitelistGains(n)
          PROVE  OneOpen(bytes'[i], open'[i])
      BY <2>2, <3>1 DEF WhitelistDrops, WhitelistGains, store
    <3>2. ASSUME NEW n \in Name, DeleteClientData(n) PROVE OneOpen(bytes'[i], open'[i])
      BY <2>1, <3>2 DEF DeleteClientData, DeleteRows, OneOpen, TypeOK
    <3>3. ASSUME NEW n \in Name, WGOpens(n) \/ WGCloses(n)
          PROVE  OneOpen(bytes'[i], open'[i])
      BY <2>2, <3>3, KeyAssumption DEF WGOpens, WGCloses, TypeOK
    <3> QED BY <2>4, <3>1, <3>2, <3>3 DEF Others
  <2>5. CASE Start \/ Crash
    BY <2>2, <2>5 DEF Start, Crash, store
  <2>6. CASE Watch
    <3>1. CASE ReadLog \/ SkipLog \/ CloseAllFails \/ WriteFails \/ CommitFails
      BY <2>2, <3>1 DEF ReadLog, SkipLog, CloseAllFails, WriteFails, CommitFails, store
    <3>2. CASE CloseAllOpenSessions
      BY <2>2, <3>2 DEF CloseAllOpenSessions, NotOpenVPN
    <3>3. CASE ProcessLogEntries
      <4>1. PICK ids \in Inserted(Missing(Seen(entries))), last \in LastEntries :
              /\ bytes' = UpsertedBytes(ids)
              /\ open' = [j \in Id |-> IF j \in Expired(ids)
                                       THEN NotOpenVPN(UpsertedOpen(ids, last)[j])
                                       ELSE UpsertedOpen(ids, last)[j]]
        BY <3>3 DEF ProcessLogEntries
      <4>2. OneOpen(UpsertedBytes(ids)[i], UpsertedOpen(ids, last)[i])
        BY InsertedType, UpsertsOneOpen
      <4>3. open'[i] \cap Key \subseteq UpsertedOpen(ids, last)[i] \cap Key
        BY <4>1 DEF NotOpenVPN
      <4> QED BY <4>1, <4>2, <4>3 DEF OneOpen
    <3> QED BY <2>6, <3>1, <3>2, <3>3 DEF Watch
  <2>7. CASE UNCHANGED vars
    BY <2>2, <2>7 DEF vars, store
  <2> QED BY <2>3, <2>4, <2>5, <2>6, <2>7 DEF Next
<1> QED BY <1>1, <1>2, OvpnTypeCorrect, PTL DEF Spec

-----------------------------------------------------------------------------
\* No two clients share an id.
OneOwner ==
    \A m, n \in Name : id[m] = id[n] /\ id[m] # NoClient => m = n

\* An id that belongs to nobody has no rows left.
FreeIdsEmpty ==
    \A i \in Id : (\A n \in Name : id[n] # i) => \A k \in Key : bytes[i][k] = Unlisted

\* A listing, or the counters, report no more than each connection reached.
Within(l) == \A n \in Name, k \in Key : l[n][k] <= peak[n][k]

OwnInv ==
    /\ OneOwner /\ FreeIdsEmpty
    /\ Within(ctr) /\ Within(file) /\ Within(entries)
    /\ OwnBytesOnly

\* New ids are nobody else's, and nobody loses the one they have.
LEMMA InsertedFresh ==
    ASSUME TypeOK, OneOwner, NEW ns \in SUBSET Name, NEW ids \in Inserted(Missing(ns))
    PROVE  /\ ids \in [Name -> 0 .. MaxId]
           /\ \A n \in Name : id[n] # NoClient => ids[n] = id[n]
           /\ \A n \in Name : id[n] = NoClient /\ ids[n] # NoClient
                                => \A m \in Name : id[m] # ids[n]
           /\ \A m, n \in Name : ids[m] = ids[n] /\ ids[m] # NoClient => m = n
           /\ \A n \in ns : ids[n] \in Id
<1> DEFINE new == Missing(ns)
<1>1. ids \in [Name -> 0 .. MaxId]
  BY InsertedType
<1>2. \A n \in Name : id[n] # NoClient => ids[n] = id[n]
  BY DEF Inserted, Missing
<1>3. PICK top \in 0 .. MaxId :
        IsTop(top, id) /\ {ids[n] : n \in new} = top + 1 .. top + Cardinality(new)
  BY DEF Inserted
<1>4. \A m \in Name : id[m] <= top
  <2> SUFFICES ASSUME NEW m \in Name PROVE id[m] <= top
    OBVIOUS
  <2>1. CASE id[m] = NoClient
    BY <2>1, BoundAssumption DEF NoClient
  <2>2. CASE id[m] # NoClient
    <3>1. id[m] \in Used(id)
      BY <2>2 DEF Used
    <3> QED BY <3>1, <1>3 DEF IsTop
  <2> QED BY <2>1, <2>2
<1>5. \A n \in new : ids[n] > top
  <2> SUFFICES ASSUME NEW n \in new PROVE ids[n] > top
    OBVIOUS
  <2>1. ids[n] \in top + 1 .. top + Cardinality(new)
    BY <1>3
  <2>2. ids[n] \in Int /\ top \in Int
    BY <1>1, BoundAssumption DEF Missing
  <2> QED BY <2>1, <2>2
<1>6. \A n \in Name : id[n] = NoClient /\ n \notin new => ids[n] = NoClient
  BY DEF Inserted
<1>7. \A n \in Name : id[n] = NoClient /\ ids[n] # NoClient => \A m \in Name : id[m] # ids[n]
  <2> SUFFICES ASSUME NEW n \in Name, id[n] = NoClient, ids[n] # NoClient, NEW m \in Name
               PROVE  id[m] # ids[n]
    OBVIOUS
  <2>1. ids[n] > top /\ id[m] <= top
    BY <1>4, <1>5, <1>6
  <2>2. ids[n] \in Int /\ id[m] \in Int /\ top \in Int
    BY <1>1, BoundAssumption DEF TypeOK
  <2> QED BY <2>1, <2>2
<1>8. \A m, n \in Name : ids[m] = ids[n] /\ ids[m] # NoClient => m = n
  <2> SUFFICES ASSUME NEW m \in Name, NEW n \in Name, ids[m] = ids[n], ids[m] # NoClient
               PROVE  m = n
    OBVIOUS
  <2>1. CASE id[m] # NoClient /\ id[n] # NoClient
    BY <2>1, <1>2 DEF OneOwner
  <2>2. CASE id[m] = NoClient /\ id[n] = NoClient
    BY <2>2, <1>6 DEF Inserted
  <2>3. CASE id[m] = NoClient /\ id[n] # NoClient
    BY <2>3, <1>2, <1>7
  <2>4. CASE id[m] # NoClient /\ id[n] = NoClient
    BY <2>4, <1>2, <1>7
  <2> QED BY <2>1, <2>2, <2>3, <2>4
<1>9. \A n \in ns : ids[n] \in Id
  <2> SUFFICES ASSUME NEW n \in ns PROVE ids[n] \in Id
    OBVIOUS
  <2>1. ids[n] \in 0 .. MaxId /\ id[n] \in 0 .. MaxId /\ top \in Nat /\ MaxId \in Nat
    BY <1>1, BoundAssumption DEF TypeOK
  <2>2. CASE n \in new
    BY <2>1, <2>2, <1>5 DEF Id
  <2>3. CASE n \notin new
    BY <2>1, <2>3, <1>2 DEF Id, Missing, NoClient
  <2> QED BY <2>2, <2>3
<1> QED BY <1>1, <1>2, <1>7, <1>8, <1>9

\* Registering clients, with the rows as they were, keeps everybody's rows
\* their own.
LEMMA InsertedOwn ==
    ASSUME TypeOK, OwnInv, NEW ns \in SUBSET Name, NEW ids \in Inserted(Missing(ns))
    PROVE  /\ \A i \in Id : (\A n \in Name : ids[n] # i) => \A k \in Key : bytes[i][k] = Unlisted
           /\ \A n \in Name : ids[n] # NoClient => \A k \in Key : bytes[ids[n]][k] <= peak[n][k]
<1>1. /\ ids \in [Name -> 0 .. MaxId]
      /\ \A n \in Name : id[n] # NoClient => ids[n] = id[n]
      /\ \A n \in Name : id[n] = NoClient /\ ids[n] # NoClient => \A m \in Name : id[m] # ids[n]
  BY InsertedFresh DEF OwnInv
<1>2. \A i \in Id : (\A n \in Name : ids[n] # i) => \A n \in Name : id[n] # i
  BY <1>1, BoundAssumption DEF Id, NoClient
<1>3. ASSUME NEW n \in Name, ids[n] # NoClient, NEW k \in Key
      PROVE  bytes[ids[n]][k] <= peak[n][k]
  <2>1. CASE id[n] # NoClient
    BY <2>1, <1>1 DEF OwnInv, OwnBytesOnly
  <2>2. CASE id[n] = NoClient
    <3>1. ids[n] \in Id
      BY <1>1, <1>3, BoundAssumption DEF Id, NoClient
    <3>2. bytes[ids[n]][k] = Unlisted
      BY <2>2, <3>1, <1>1, <1>3 DEF OwnInv, FreeIdsEmpty
    <3> QED BY <3>2, BoundAssumption DEF TypeOK, Unlisted
  <2> QED BY <2>1, <2>2
<1> QED BY <1>2, <1>3 DEF OwnInv, FreeIdsEmpty

\* The strengthened invariant holds throughout.
LEMMA OwnInvariant == Spec => []OwnInv
<1>1. Init => OwnInv
  BY BoundAssumption DEF Init, OwnInv, OneOwner, FreeIdsEmpty, Within, OwnBytesOnly, Nothing,
     Unlisted, NoClient
<1>2. TypeOK /\ OwnInv /\ [Next]_vars => OwnInv'
  <2> SUFFICES ASSUME TypeOK, OwnInv, [Next]_vars PROVE OwnInv'
    OBVIOUS
  <2> DEFINE Rows == OneOwner /\ FreeIdsEmpty /\ OwnBytesOnly
             Logs == Within(ctr) /\ Within(file) /\ Within(entries)
  <2>0. /\ peak \in [Name -> [Key -> 0 .. MaxBytes]] /\ ctr \in [Name -> [Key -> 0 .. MaxBytes]]
        /\ file \in Listing /\ entries \in Listing /\ MaxBytes \in Nat
    BY BoundAssumption DEF TypeOK
  <2>1. \A n \in Name, k \in Key : Nothing[n][k] <= peak[n][k]
    BY <2>0 DEF Nothing, Unlisted
  <2>2. UNCHANGED <<id, bytes, peak>> => Rows'
    BY DEF OwnInv, OneOwner, FreeIdsEmpty, OwnBytesOnly
  <2>3. UNCHANGED <<ctr, file, entries, peak>> => Logs'
    BY DEF OwnInv, Within
  <2>4. ASSUME UNCHANGED <<ctr, file, peak>>, entries' = Nothing PROVE Logs'
    BY <2>1, <2>4 DEF OwnInv, Within
  <2>5. ASSUME UNCHANGED <<bytes, peak>>, NEW ns \in SUBSET Name, id' \in Inserted(Missing(ns))
        PROVE  Rows'
    <3>1. OneOwner'
      BY <2>5, InsertedFresh DEF OwnInv, OneOwner
    <3>2. FreeIdsEmpty' /\ OwnBytesOnly'
      BY <2>5, InsertedOwn DEF FreeIdsEmpty, OwnBytesOnly
    <3> QED BY <3>1, <3>2
  <2>6. CASE Server
    <3>1. CASE ServerStarts \/ ServerStops
      BY <2>2, <2>3, <3>1 DEF ServerStarts, ServerStops, status, store, memory, OwnInv
    <3>2. ASSUME NEW n \in Name, NEW k \in Key, Connect(n, k) PROVE OwnInv'
      <4>1. UNCHANGED <<id, bytes, peak, file, entries>> /\ ctr' = [ctr EXCEPT ![n][k] = 0]
        BY <3>2 DEF Connect, status, store, memory
      <4>2. Logs'
        BY <4>1, <2>0 DEF OwnInv, Within
      <4> QED BY <4>1, <4>2, <2>2 DEF OwnInv
    <3>3. ASSUME NEW n \in Name, NEW k \in Key, Disconnect(n, k)
          PROVE  OwnInv'
      BY <2>2, <2>3, <3>3 DEF Disconnect, status, store, memory, OwnInv
    <3>4. ASSUME NEW n \in Name, NEW k \in Key, Transfer(n, k) PROVE OwnInv'
      <4>1. /\ UNCHANGED <<id, bytes, file, entries>>
            /\ ctr' = [ctr EXCEPT ![n][k] = @ + 1]
            /\ peak' = [peak EXCEPT ![n][k] = Larger(@, ctr'[n][k])]
        BY <3>4 DEF Transfer, status, store, memory
      <4>2. \A m \in Name, j \in Key :
              peak'[m][j] \in Nat /\ peak[m][j] <= peak'[m][j] /\ ctr'[m][j] <= peak'[m][j]
        BY <4>1, <2>0 DEF Larger, OwnInv, Within
      <4>3. Logs'
        <5>1. \A l \in Listing : Within(l) => \A m \in Name, j \in Key : l[m][j] <= peak'[m][j]
          <6> SUFFICES ASSUME NEW l \in Listing, Within(l), NEW m \in Name, NEW j \in Key
                       PROVE  l[m][j] <= peak'[m][j]
            OBVIOUS
          <6>1. l[m][j] \in Int
            BY <2>0 DEF Listing, Counter, Unlisted
          <6>2. l[m][j] <= peak[m][j] /\ peak[m][j] <= peak'[m][j]
            BY <4>2 DEF Within
          <6>3. peak[m][j] \in Int /\ peak'[m][j] \in Int
            BY <4>2, <2>0
          <6> QED BY <6>1, <6>2, <6>3
        <5> QED BY <4>1, <4>2, <5>1, <2>0 DEF OwnInv, Within
      <4>4. OwnBytesOnly'
        <5> SUFFICES ASSUME NEW m \in Name, id[m] # NoClient, NEW j \in Key
                     PROVE  bytes[id[m]][j] <= peak'[m][j]
          BY <4>1 DEF OwnBytesOnly
        <5>1. bytes[id[m]][j] \in Counter /\ bytes[id[m]][j] <= peak[m][j]
          BY BoundAssumption DEF TypeOK, Id, NoClient, OwnInv, OwnBytesOnly
        <5> QED BY <5>1, <4>2, <2>0 DEF Counter, Unlisted
      <4>5. OneOwner' /\ FreeIdsEmpty'
        BY <4>1 DEF OwnInv, OneOwner, FreeIdsEmpty
      <4> QED BY <4>3, <4>4, <4>5 DEF OwnInv
    <3>5. CASE WriteStatus
      <4>1. /\ UNCHANGED <<id, bytes, peak, ctr, entries>>
            /\ \A n \in Name, k \in Key : file'[n][k] \in {ctr[n][k], Unlisted}
        BY <3>5 DEF WriteStatus, server, store, memory
      <4>2. \A n \in Name, k \in Key : file'[n][k] <= peak[n][k]
        BY <4>1, <2>0 DEF OwnInv, Within, Unlisted
      <4> QED BY <4>1, <4>2, <2>2 DEF OwnInv, Within
    <3>6. CASE BeginRewrite \/ LogRemoved
      BY <2>1, <2>2, <3>6 DEF BeginRewrite, LogRemoved, server, store, memory, OwnInv, Within
    <3>7. CASE GoesStale
      BY <2>2, <2>3, <3>7 DEF GoesStale, server, store, memory, OwnInv
    <3> QED BY <2>6, <3>1, <3>2, <3>3, <3>4, <3>5, <3>6, <3>7 DEF Server
  <2>7. CASE Others
    <3>1. ASSUME NEW n \in Name, WhitelistDrops(n) \/ WhitelistGains(n) PROVE OwnInv'
      BY <2>2, <2>3, <3>1 DEF WhitelistDrops, WhitelistGains, server, status, store, memory, OwnInv
    <3>2. ASSUME NEW n \in Name, DeleteClientData(n) PROVE OwnInv'
      <4>1. /\ UNCHANGED <<ctr, file, entries, peak>>
            /\ id[n] # NoClient
            /\ id' = [id EXCEPT ![n] = NoClient]
            /\ bytes' = [bytes EXCEPT ![id[n]] = [k \in Key |-> Unlisted]]
        BY <3>2 DEF DeleteClientData, DeleteRows, server, status, memory
      <4>2. OneOwner'
        BY <4>1 DEF OwnInv, OneOwner, TypeOK, NoClient
      <4>3. FreeIdsEmpty'
        BY <4>1 DEF OwnInv, OneOwner, FreeIdsEmpty, TypeOK
      <4>4. OwnBytesOnly'
        BY <4>1 DEF OwnInv, OneOwner, OwnBytesOnly, TypeOK, Id, NoClient
      <4> QED BY <4>1, <4>2, <4>3, <4>4, <2>3 DEF OwnInv
    <3>3. ASSUME NEW n \in Name, WGOpens(n) PROVE OwnInv'
      BY <2>3, <2>5, <3>3 DEF WGOpens, server, status, memory, OwnInv
    <3>4. ASSUME NEW n \in Name, WGCloses(n) PROVE OwnInv'
      BY <2>2, <2>3, <3>4 DEF WGCloses, server, status, memory, OwnInv
    <3> QED BY <2>7, <3>1, <3>2, <3>3, <3>4 DEF Others
  <2>8. CASE Start
    <3>1. PICK ns \in SUBSET Name : id' \in Inserted(Missing(ns))
      <4>1. \A some \in SUBSET Missing(certs) : Missing(some) = some
        BY DEF Missing
      <4>2. certs \subseteq Name /\ \A some \in SUBSET Missing(certs) : some \subseteq Name
        BY DEF TypeOK, Missing
      <4> QED BY <2>8, <4>1, <4>2 DEF Start
    <3>2. UNCHANGED <<bytes, peak, ctr, file, entries>>
      BY <2>8 DEF Start, server, status
    <3> QED BY <2>3, <2>5, <3>1, <3>2 DEF OwnInv
  <2>9. CASE Crash
    BY <2>2, <2>4, <2>9 DEF Crash, server, status, store, OwnInv
  <2>10. CASE Watch
    <3>1. CASE ReadLog
      <4>1. UNCHANGED <<id, bytes, peak, ctr, file>> /\ entries' = Whitelisted
        BY <3>1 DEF ReadLog, server, status, store
      <4>2. \A n \in Name, k \in Key : Whitelisted[n][k] <= peak[n][k]
        BY <2>1 DEF Whitelisted, OwnInv, Within
      <4> QED BY <4>1, <4>2, <2>2 DEF OwnInv, Within
    <3>2. CASE SkipLog \/ CloseAllFails \/ CloseAllOpenSessions
      BY <2>2, <2>3, <3>2 DEF SkipLog, CloseAllFails, CloseAllOpenSessions, server, status, store,
         OwnInv
    <3>3. CASE WriteFails \/ CommitFails
      BY <2>2, <2>4, <3>3 DEF WriteFails, CommitFails, Processed, server, status, store, OwnInv
    <3>4. CASE ProcessLogEntries
      <4>1. PICK ids \in Inserted(Missing(Seen(entries))) :
              id' = ids /\ bytes' = UpsertedBytes(ids)
        BY <3>4 DEF ProcessLogEntries
      <4>2. Seen(entries) \in SUBSET Name
        BY DEF Seen
      <4>3. UNCHANGED <<peak, ctr, file>> /\ entries' = Nothing
        BY <3>4 DEF ProcessLogEntries, Processed, server, status
      <4>4. OneOwner'
        BY <4>1, <4>2, InsertedFresh DEF OwnInv, OneOwner
      <4>5. FreeIdsEmpty'
        <5> SUFFICES ASSUME NEW i \in Id, \A n \in Name : ids[n] # i, NEW k \in Key
                     PROVE  bytes'[i][k] = Unlisted
          BY <4>1 DEF FreeIdsEmpty
        <5>1. i \notin SeenIds(ids)
          BY <4>2 DEF SeenIds
        <5> QED BY <4>1, <4>2, <5>1, InsertedOwn DEF UpsertedBytes
      <4>6. OwnBytesOnly'
        <5> SUFFICES ASSUME NEW n \in Name, ids[n] # NoClient, NEW k \in Key
                     PROVE  bytes'[ids[n]][k] <= peak[n][k]
          BY <4>1, <4>3 DEF OwnBytesOnly
        <5>1. ids[n] \in Id
          BY InsertedType, BoundAssumption DEF Id, NoClient
        <5>2. bytes[ids[n]][k] <= peak[n][k] /\ bytes[ids[n]] \in [Key -> Counter]
          BY <4>2, <5>1, InsertedOwn DEF TypeOK
        <5>3. CASE ids[n] \in SeenIds(ids)
          <6>1. Client(ids, ids[n]) = n
            BY <4>2, <5>3, ClientSeen, InsertedFresh DEF OwnInv
          <6>2. bytes'[ids[n]][k] = Larger(bytes[ids[n]][k], entries[n][k])
            BY <4>1, <5>1, <5>3, <6>1 DEF UpsertedBytes, Ratchet
          <6>3. entries[n][k] <= peak[n][k]
            BY DEF OwnInv, Within
          <6> QED BY <5>2, <6>2, <6>3 DEF Larger
        <5>4. CASE ids[n] \notin SeenIds(ids)
          BY <4>1, <5>1, <5>2, <5>4 DEF UpsertedBytes
        <5> QED BY <5>3, <5>4
      <4> QED BY <4>3, <4>4, <4>5, <4>6, <2>4 DEF OwnInv
    <3> QED BY <2>10, <3>1, <3>2, <3>3, <3>4 DEF Watch
  <2>11. CASE UNCHANGED vars
    BY <2>2, <2>3, <2>11 DEF vars, server, status, store, memory, OwnInv
  <2> QED BY <2>6, <2>7, <2>8, <2>9, <2>10, <2>11 DEF Next
<1> QED BY <1>1, <1>2, OvpnTypeCorrect, PTL DEF Spec

\* A client's rows hold nothing but its own traffic, whoever had its id
\* before (DeleteClientData deletes the sessions before the client).
THEOREM OwnTraffic == Spec => []OwnBytesOnly
<1>1. OwnInv => OwnBytesOnly
  BY DEF OwnInv
<1> QED BY <1>1, OwnInvariant, PTL

-----------------------------------------------------------------------------
\* One client's part of BytesOnlyRatchet.
Kept(n) ==
    id[n] # NoClient /\ id'[n] = id[n] => \A k \in Key : bytes'[id[n]][k] >= bytes[id[n]][k]

\* No step takes back bytes a client was credited with: a reading only
\* raises its rows, and a purge clears the rows of the purged client only,
\* since no other shares its id (ProcessLogEntries, DeleteClientData).
THEOREM BytesKept == Spec => BytesOnlyRatchet
<1>1. TypeOK /\ OwnInv /\ [Next]_vars => \A n \in Name : Kept(n)
  <2> SUFFICES ASSUME TypeOK, OwnInv, [Next]_vars, NEW n \in Name,
                      id[n] # NoClient, id'[n] = id[n], NEW k \in Key
               PROVE  bytes'[id[n]][k] >= bytes[id[n]][k]
    BY DEF Kept
  <2>1. id[n] \in Id /\ bytes[id[n]] \in [Key -> Counter]
    BY BoundAssumption DEF TypeOK, Id, NoClient
  <2>2. bytes[id[n]][k] \in Int
    BY <2>1, BoundAssumption DEF Counter, Unlisted
  <2>3. ASSUME bytes'[id[n]] = bytes[id[n]] PROVE bytes'[id[n]][k] >= bytes[id[n]][k]
    BY <2>2, <2>3
  <2>4. CASE Server \/ Start \/ Crash \/ UNCHANGED vars
    BY <2>3, <2>4 DEF Server, ServerStarts, ServerStops, Connect, Disconnect, Transfer,
       WriteStatus, BeginRewrite, LogRemoved, GoesStale, Start, Crash, vars, store
  <2>5. CASE Others
    <3>1. ASSUME NEW m \in Name, DeleteClientData(m) PROVE bytes'[id[n]] = bytes[id[n]]
      <4>1. id[m] # id[n]
        BY <3>1 DEF DeleteClientData, TypeOK, NoClient, OwnInv, OneOwner
      <4> QED BY <3>1, <4>1 DEF DeleteClientData, DeleteRows, TypeOK
    <3>2. ASSUME NEW m \in Name,
                 WhitelistDrops(m) \/ WhitelistGains(m) \/ WGOpens(m) \/ WGCloses(m)
          PROVE  bytes' = bytes
      BY <3>2 DEF WhitelistDrops, WhitelistGains, WGOpens, WGCloses, store
    <3> QED BY <2>3, <2>5, <3>1, <3>2 DEF Others
  <2>6. CASE Watch
    <3>1. CASE ProcessLogEntries
      <4>1. PICK ids \in Inserted(Missing(Seen(entries))) : bytes' = UpsertedBytes(ids)
        BY <3>1 DEF ProcessLogEntries
      <4>2. CASE id[n] \in SeenIds(ids)
        <5> DEFINE c == Client(ids, id[n])
        <5>1. c \in Seen(entries)
          BY <4>2, ClientSeen
        <5>2. entries[c][k] \in Int
          BY <5>1, BoundAssumption DEF TypeOK, Listing, Seen, Counter, Unlisted
        <5>3. bytes'[id[n]][k] = Larger(bytes[id[n]][k], entries[c][k])
          BY <2>1, <4>1, <4>2 DEF UpsertedBytes, Ratchet
        <5> QED BY <2>2, <5>2, <5>3 DEF Larger
      <4>3. CASE id[n] \notin SeenIds(ids)
        BY <2>1, <2>3, <4>1, <4>3 DEF UpsertedBytes
      <4> QED BY <4>2, <4>3
    <3>2. CASE ReadLog \/ SkipLog \/ CloseAllOpenSessions \/ CloseAllFails
               \/ WriteFails \/ CommitFails
      BY <2>3, <3>2 DEF ReadLog, SkipLog, CloseAllOpenSessions, CloseAllFails, WriteFails,
         CommitFails, store
    <3> QED BY <2>6, <3>1, <3>2 DEF Watch
  <2> QED BY <2>4, <2>5, <2>6 DEF Next
<1>2. (\A n \in Name : Kept(n)) =>
        [\A n \in Name : id[n] # NoClient /\ id'[n] = id[n] =>
            \A k \in Key : bytes'[id[n]][k] >= bytes[id[n]][k]]_vars
  BY DEF Kept
<1> QED BY <1>1, <1>2, OvpnTypeCorrect, OwnInvariant, PTL DEF Spec, BytesOnlyRatchet

\* No step of the watcher ends a WireGuard session, whichever way it closes
\* the client's others and whether or not it succeeds (ProcessLogEntries and
\* CloseAllOpenSessions name the OpenVPN protocols).
THEOREM WGUntouched == Spec => WGSessionsUntouched
<1> DEFINE Spared == \A n \in Name : WG \in Sessions(n) => WG \in Sessions(n)'
<1>1. TypeOK /\ Watch => Spared
  <2> SUFFICES ASSUME TypeOK, Watch, NEW n \in Name, WG \in Sessions(n)
               PROVE  WG \in Sessions(n)'
    OBVIOUS
  <2>1. id[n] # NoClient /\ WG \in open[id[n]]
    BY DEF Sessions
  <2>2. id[n] \in Id
    BY <2>1, BoundAssumption DEF TypeOK, Id, NoClient
  <2>3. \A keys : WG \in keys => WG \in NotOpenVPN(keys)
    BY KeyAssumption DEF NotOpenVPN
  <2>4. SUFFICES id'[n] = id[n] /\ WG \in open'[id[n]]
    BY <2>1 DEF Sessions
  <2>5. CASE ProcessLogEntries
    <3>1. PICK ids \in Inserted(Missing(Seen(entries))), last \in LastEntries :
            /\ id' = ids
            /\ open' = [i \in Id |-> IF i \in Expired(ids)
                                     THEN NotOpenVPN(UpsertedOpen(ids, last)[i])
                                     ELSE UpsertedOpen(ids, last)[i]]
      BY <2>5 DEF ProcessLogEntries
    <3>2. ids[n] = id[n]
      BY <2>1 DEF Inserted, Missing
    <3>3. WG \in UpsertedOpen(ids, last)[id[n]]
      BY <2>1, <2>2, <2>3 DEF UpsertedOpen, Reopen
    <3> QED BY <2>2, <2>3, <3>1, <3>2, <3>3
  <2>6. CASE CloseAllOpenSessions
    BY <2>1, <2>2, <2>3, <2>6 DEF CloseAllOpenSessions
  <2>7. CASE ReadLog \/ SkipLog \/ CloseAllFails \/ WriteFails \/ CommitFails
    BY <2>1, <2>7 DEF ReadLog, SkipLog, CloseAllFails, WriteFails, CommitFails, store
  <2> QED BY <2>5, <2>6, <2>7 DEF Watch
<1>2. TypeOK => [Watch => Spared]_vars
  BY <1>1
<1> QED BY <1>2, OvpnTypeCorrect, PTL DEF WGSessionsUntouched

-----------------------------------------------------------------------------
\* No transaction of the watcher fails once it has begun.
WritesSucceed == "write" \notin DBFaults /\ "commit" \notin DBFaults

\* What is counted against a client with an open session: no more than the
\* readings without it, the one in hand aside.  A client in that reading is
\* about to start again from nothing.
Counted(n) ==
    id[n] # NoClient /\ open[id[n]] \cap Key # {} =>
        IF pc = "process"
        THEN n \in Seen(entries) \/ misses[n] = Threshold \/ absent[id[n]] + 1 <= misses[n]
        ELSE absent[id[n]] <= misses[n]

CountInv == \A n \in Name : Counted(n)

\* A client that has just been given an id has no open OpenVPN session: the
\* id was nobody's.
LEMMA FreshClosed ==
    ASSUME TypeOK, OwnInv, OneOpenSession,
           NEW ns \in SUBSET Name, NEW ids \in Inserted(Missing(ns)), NEW n \in Name,
           ids[n] # NoClient
    PROVE  /\ ids[n] \in Id
           /\ ids[n] = id[n] \/ (id[n] = NoClient /\ open[ids[n]] \cap Key = {})
<1>1. ids \in [Name -> 0 .. MaxId]
  BY InsertedType
<1>2. ids[n] \in Id
  BY <1>1, BoundAssumption DEF Id, NoClient
<1>3. ASSUME id[n] = NoClient PROVE open[ids[n]] \cap Key = {}
  <2>1. \A m \in Name : id[m] # ids[n]
    BY <1>3, InsertedFresh DEF OwnInv
  <2>2. \A k \in Key : bytes[ids[n]][k] = Unlisted
    BY <1>2, <2>1 DEF OwnInv, FreeIdsEmpty
  <2> QED BY <1>2, <2>2 DEF OneOpenSession
<1>4. id[n] # NoClient => ids[n] = id[n]
  BY InsertedFresh DEF OwnInv
<1> QED BY <1>2, <1>3, <1>4

\* What a transaction that commits does to the session and the count of a
\* client: one that was read starts again from nothing, one that was not is
\* closed at its second absence, and counted at its first.
LEMMA ProcessCounts ==
    ASSUME TypeOK, OwnInv, OneOpenSession, ProcessLogEntries, NEW n \in Name,
           id'[n] # NoClient
    PROVE  /\ n \in Seen(entries) => open'[id'[n]] \cap Key # {} /\ absent'[id'[n]] = 0
           /\ n \notin Seen(entries) /\ open'[id'[n]] \cap Key # {} =>
                /\ id'[n] = id[n] /\ open[id[n]] \cap Key # {}
                /\ absent[id[n]] = 0 /\ absent'[id[n]] = 1
           /\ n \notin Seen(entries) /\ id'[n] = id[n] /\ open[id[n]] \cap Key # {}
                /\ open'[id[n]] \cap Key = {} => absent[id[n]] >= 1
<1>1. PICK ids \in Inserted(Missing(Seen(entries))), last \in LastEntries :
        /\ id' = ids
        /\ open' = [i \in Id |-> IF i \in Expired(ids)
                                 THEN NotOpenVPN(UpsertedOpen(ids, last)[i])
                                 ELSE UpsertedOpen(ids, last)[i]]
        /\ absent' = [i \in Id |-> IF i \in OpenIds(UpsertedOpen(ids, last))
                                   THEN Recount(ids, i) ELSE absent[i]]
  BY DEF ProcessLogEntries
<1> DEFINE i == ids[n]
<1>2. Seen(entries) \in SUBSET Name
  BY DEF Seen
<1>3. i \in Id /\ (i = id[n] \/ (id[n] = NoClient /\ open[i] \cap Key = {}))
  BY <1>1, <1>2, FreshClosed
<1>4. absent[i] \in 0 .. 2
  BY <1>3 DEF TypeOK, Threshold
<1>5. CASE n \in Seen(entries)
  <2>1. i \in SeenIds(ids)
    BY <1>5 DEF SeenIds
  <2>2. i \notin Expired(ids) /\ i \notin Unseen(ids)
    BY <2>1 DEF Expired, Unseen
  <2>3. last[Client(ids, i)] \in Key
    BY <2>1, ClientSeen DEF LastEntries
  <2>4. UpsertedOpen(ids, last)[i] \cap Key # {}
    BY <1>3, <2>1, <2>3 DEF UpsertedOpen, Reopen
  <2>5. open'[i] \cap Key # {}
    BY <1>1, <1>3, <2>2, <2>4
  <2>6. absent'[i] = 0
    BY <1>1, <1>3, <2>2, <2>4 DEF OpenIds, Recount
  <2> QED BY <1>1, <1>5, <2>5, <2>6
<1>6. CASE n \notin Seen(entries)
  <2>1. i \notin SeenIds(ids)
    <3>1. \A m \in Seen(entries) : ids[m] # i
      BY <1>1, <1>2, <1>6, InsertedFresh DEF OwnInv
    <3> QED BY <3>1 DEF SeenIds
  <2>2. UpsertedOpen(ids, last)[i] = open[i]
    BY <1>3, <2>1 DEF UpsertedOpen
  <2>3. CASE i \in Expired(ids)
    <3>1. open'[i] \cap Key = {}
      BY <1>1, <1>3, <2>3 DEF NotOpenVPN
    <3>2. absent[i] >= 1
      BY <1>4, <2>3 DEF Expired, Threshold
    <3> QED BY <1>1, <1>6, <3>1, <3>2
  <2>4. CASE i \notin Expired(ids)
    <3>1. open'[i] = open[i]
      BY <1>1, <1>3, <2>2, <2>4
    <3>2. ASSUME open[i] \cap Key # {}
          PROVE  i = id[n] /\ absent[i] = 0 /\ absent'[i] = 1
      <4>1. i \in Unseen(ids) /\ i \in OpenIds(UpsertedOpen(ids, last))
        BY <1>3, <2>1, <2>2, <3>2 DEF Unseen, OpenIds
      <4>2. absent[i] = 0
        BY <1>4, <2>4, <4>1 DEF Expired, Threshold
      <4>3. absent'[i] = absent[i] + 1
        BY <1>1, <1>3, <2>4, <4>1 DEF Recount
      <4> QED BY <1>3, <3>2, <4>2, <4>3
    <3> QED BY <1>1, <1>6, <3>1, <3>2
  <2> QED BY <2>3, <2>4
<1> QED BY <1>5, <1>6

\* CountInv is inductive next to the types, the rows' owners and the single
\* open session.
LEMMA CountStep ==
    ASSUME WritesSucceed, TypeOK, OwnInv, OneOpenSession, CountInv, [Next]_vars
    PROVE  CountInv'
<1> SUFFICES ASSUME NEW n \in Name, id'[n] # NoClient, open'[id'[n]] \cap Key # {}
             PROVE  IF pc' = "process"
                    THEN \/ n \in Seen(entries)' \/ misses'[n] = Threshold
                         \/ absent'[id'[n]] + 1 <= misses'[n]
                    ELSE absent'[id'[n]] <= misses'[n]
  BY DEF CountInv, Counted
<1> DEFINE Same == /\ id[n] # NoClient /\ id'[n] = id[n]
                   /\ open[id[n]] \cap Key # {}
<1>1. misses[n] \in 0 .. 2 /\ Threshold = 2
  BY DEF TypeOK, Threshold
<1>2. Same => absent[id[n]] \in 0 .. 2
  BY <1>1, BoundAssumption DEF TypeOK, Id, NoClient
<1>3. ASSUME Same, UNCHANGED <<pc, entries, absent, misses>>
      PROVE  IF pc' = "process"
             THEN \/ n \in Seen(entries)' \/ misses'[n] = Threshold
                  \/ absent'[id'[n]] + 1 <= misses'[n]
             ELSE absent'[id'[n]] <= misses'[n]
  BY <1>3 DEF CountInv, Counted, Seen, Listed
<1>4. ASSUME UNCHANGED <<id, open>> PROVE Same
  BY <1>4
<1>5. ASSUME UNCHANGED open, NEW ns \in SUBSET Name, id' \in Inserted(Missing(ns))
      PROVE  Same
  BY <1>5, FreshClosed
<1>6. CASE Server \/ UNCHANGED vars
  BY <1>3, <1>4, <1>6 DEF Server, ServerStarts, ServerStops, Connect, Disconnect, Transfer,
     WriteStatus, BeginRewrite, LogRemoved, GoesStale, vars, store, memory
<1>7. CASE Others
  <2>1. ASSUME NEW m \in Name, WhitelistDrops(m) \/ WhitelistGains(m)
        PROVE  UNCHANGED <<store, memory>>
    BY <2>1 DEF WhitelistDrops, WhitelistGains
  <2>2. ASSUME NEW m \in Name, DeleteClientData(m) PROVE Same /\ UNCHANGED memory
    <3>1. m # n /\ id'[n] = id[n]
      BY <2>2 DEF DeleteClientData, TypeOK
    <3>2. id[m] # id[n]
      BY <3>1 DEF OwnInv, OneOwner
    <3>3. open'[id[n]] = open[id[n]]
      BY <2>2, <3>1, <3>2, BoundAssumption
         DEF DeleteClientData, DeleteRows, TypeOK, Id, NoClient
    <3> QED BY <2>2, <3>1, <3>3 DEF DeleteClientData
  <2>3. ASSUME NEW m \in Name, WGOpens(m) PROVE Same /\ UNCHANGED memory
    <3>1. id' \in Inserted(Missing({m})) /\ {m} \in SUBSET Name
      BY <2>3 DEF WGOpens
    <3>2. id'[n] \in Id /\ (id'[n] = id[n] \/ (id[n] = NoClient /\ open[id'[n]] \cap Key = {}))
      BY <3>1, FreshClosed
    <3>3. open'[id'[n]] \cap Key = open[id'[n]] \cap Key
      BY <2>3, <3>2, KeyAssumption DEF WGOpens, TypeOK
    <3> QED BY <2>3, <3>2, <3>3 DEF WGOpens
  <2>4. ASSUME NEW m \in Name, WGCloses(m) PROVE Same /\ UNCHANGED memory
    <3>1. id'[n] = id[n] /\ open'[id[n]] \cap Key \subseteq open[id[n]] \cap Key
      BY <2>4, BoundAssumption DEF WGCloses, TypeOK, Id, NoClient
    <3> QED BY <2>4, <3>1 DEF WGCloses
  <2> QED BY <1>3, <1>4, <1>7, <2>1, <2>2, <2>3, <2>4 DEF Others, store, memory
<1>8. CASE Start
  <2>1. PICK ns \in SUBSET Name : id' \in Inserted(Missing(ns))
    <3>1. \A some \in SUBSET Missing(certs) : Missing(some) = some /\ some \subseteq Name
      BY DEF Missing, TypeOK
    <3> QED BY <1>8, <3>1 DEF Start, TypeOK
  <2>2. Same
    BY <1>5, <1>8, <2>1 DEF Start
  <2> QED BY <1>8, <2>2 DEF Start, CountInv, Counted
<1>9. CASE Crash
  <2>1. Same /\ pc' = "off" /\ misses' = misses /\ absent'[id[n]] = 0
    BY <1>9, BoundAssumption DEF Crash, store, TypeOK, Id, NoClient
  <2> QED BY <1>1, <2>1
<1>10. CASE Watch
  <2>1. CASE ReadLog
    <3>1. Same /\ absent[id[n]] <= misses[n] /\ absent' = absent /\ id' = id
      BY <1>4, <2>1 DEF ReadLog, MayRead, store, CountInv, Counted
    <3>2. n \in Seen(entries)' \/ misses'[n] = Saturated(misses[n] + 1)
      BY <2>1 DEF ReadLog, Seen, Listed
    <3>3. Saturated(misses[n] + 1) = 2 \/ Saturated(misses[n] + 1) = misses[n] + 1
      BY <1>1 DEF Saturated, Threshold
    <3> QED BY <1>1, <1>2, <2>1, <3>1, <3>2, <3>3 DEF ReadLog
  <2>2. CASE SkipLog
    <3>1. Same /\ absent[id[n]] <= misses[n]
      BY <1>4, <2>2 DEF SkipLog, store, CountInv, Counted
    <3> QED BY <2>2, <3>1 DEF SkipLog
  <2>3. CASE CloseAllOpenSessions
    <3>1. id'[n] \in Id
      BY <2>3, BoundAssumption DEF CloseAllOpenSessions, TypeOK, Id, NoClient
    <3>2. open'[id'[n]] \cap Key = {}
      BY <2>3, <3>1 DEF CloseAllOpenSessions, NotOpenVPN
    <3> QED BY <3>2
  <2>4. CASE CloseAllFails
    BY <1>3, <1>4, <2>4 DEF CloseAllFails, store
  <2>5. CASE ProcessLogEntries
    <3>1. pc = "process" /\ pc' = "idle" /\ misses' = misses
      BY <2>5 DEF ProcessLogEntries, Processed
    <3>2. CASE n \in Seen(entries)
      BY <1>1, <2>5, <3>1, <3>2, ProcessCounts
    <3>3. CASE n \notin Seen(entries)
      <4>1. Same /\ absent[id[n]] = 0 /\ absent'[id'[n]] = 1
        BY <2>5, <3>3, ProcessCounts
      <4>2. misses[n] = 2 \/ 1 <= misses[n]
        BY <1>1, <3>1, <3>3, <4>1 DEF CountInv, Counted
      <4> QED BY <1>1, <3>1, <4>1, <4>2
    <3> QED BY <3>2, <3>3
  <2>6. ~WriteFails /\ ~CommitFails
    BY DEF WritesSucceed, WriteFails, CommitFails
  <2> QED BY <1>10, <2>1, <2>2, <2>3, <2>4, <2>5, <2>6 DEF Watch
<1> QED BY <1>6, <1>7, <1>8, <1>9, <1>10 DEF Next

\* If writes succeed, no session is closed for absence before its client was
\* missing from two complete readings in a row, also when ids are reused and
\* the panel restarts in between (ProcessLogEntries, DB.absent).
THEOREM TwoMisses ==
    ASSUME WritesSucceed
    PROVE  Spec => ClosedAfterTwoMisses
<1> DEFINE Patient ==
        \A n \in Name :
            pc = "process" /\ n \notin Seen(entries) /\ id'[n] = id[n]
            /\ Sessions(n) \cap Key # {} /\ Sessions(n)' \cap Key = {}
                => misses[n] >= Threshold
<1>1. Init => CountInv
  BY DEF Init, CountInv, Counted
<1>2. TypeOK /\ OwnInv /\ OneOpenSession /\ CountInv /\ [Next]_vars => CountInv'
  BY CountStep
<1>3. TypeOK /\ OwnInv /\ OneOpenSession /\ CountInv /\ Next => Patient
  <2> SUFFICES ASSUME TypeOK, OwnInv, OneOpenSession, CountInv, Next, NEW n \in Name,
                      pc = "process", n \notin Seen(entries), id'[n] = id[n],
                      Sessions(n) \cap Key # {}, Sessions(n)' \cap Key = {}
               PROVE  misses[n] >= Threshold
    OBVIOUS
  <2>1. /\ id[n] # NoClient /\ id[n] \in Id
        /\ open[id[n]] \cap Key # {} /\ open'[id[n]] \cap Key = {}
    BY BoundAssumption DEF Sessions, TypeOK, Id, NoClient
  <2>2. CASE ProcessLogEntries
    <3>1. absent[id[n]] >= 1
      BY <2>1, <2>2, ProcessCounts
    <3>2. misses[n] = Threshold \/ absent[id[n]] + 1 <= misses[n]
      BY <2>1 DEF CountInv, Counted
    <3>3. misses[n] \in 0 .. 2 /\ absent[id[n]] \in 0 .. 2 /\ Threshold = 2
      BY <2>1 DEF TypeOK, Threshold
    <3> QED BY <3>1, <3>2, <3>3
  <2>3. CASE Others
    <3>1. ASSUME NEW m \in Name, DeleteClientData(m) PROVE open'[id[n]] = open[id[n]]
      <4>1. m # n
        BY <2>1, <3>1 DEF DeleteClientData, TypeOK
      <4>2. id[m] # id[n]
        BY <2>1, <4>1 DEF OwnInv, OneOwner
      <4> QED BY <2>1, <3>1, <4>2 DEF DeleteClientData, DeleteRows, TypeOK
    <3>2. ASSUME NEW m \in Name, WGOpens(m) \/ WGCloses(m)
          PROVE  open[id[n]] \cap Key \subseteq open'[id[n]]
      <4>1. open[id[n]] \in SUBSET (Key \cup {WG}) /\ open \in [Id -> SUBSET (Key \cup {WG})]
        BY <2>1 DEF TypeOK
      <4>2. WGOpens(m) => open[id[n]] \subseteq open'[id[n]]
        BY <2>1, <4>1 DEF WGOpens
      <4>3. WGCloses(m) => open[id[n]] \ {WG} \subseteq open'[id[n]]
        BY <2>1, <4>1 DEF WGCloses
      <4> QED BY <3>2, <4>2, <4>3, KeyAssumption
    <3>3. ASSUME NEW m \in Name, WhitelistDrops(m) \/ WhitelistGains(m) PROVE open' = open
      BY <3>3 DEF WhitelistDrops, WhitelistGains, store
    <3> QED BY <2>1, <2>3, <3>1, <3>2, <3>3 DEF Others
  <2>4. ~CloseAllOpenSessions /\ ~ReadLog /\ ~SkipLog /\ ~Start
    BY DEF CloseAllOpenSessions, ReadLog, MayRead, SkipLog, Start
  <2>5. CASE Server \/ Crash \/ CloseAllFails \/ WriteFails \/ CommitFails
    BY <2>1, <2>5 DEF Server, ServerStarts, ServerStops, Connect, Disconnect, Transfer,
       WriteStatus, BeginRewrite, LogRemoved, GoesStale, Crash, CloseAllFails, WriteFails,
       CommitFails, store
  <2> QED BY <2>2, <2>3, <2>4, <2>5 DEF Next, Watch
<1>4. TypeOK /\ OwnInv /\ OneOpenSession /\ CountInv /\ [Next]_vars => [Patient]_vars
  BY <1>3
<1> QED BY <1>1, <1>2, <1>4, OvpnTypeCorrect, OwnInvariant, OneSession, PTL
   DEF Spec, ClosedAfterTwoMisses

-----------------------------------------------------------------------------
\* The tracker is set before the database, and the two agree again between
\* readings; who is online without an id has been purged meanwhile.
OnlineInv ==
    /\ pc \in {"off", "start"} => online = {}
    /\ pc = "process" => online = Seen(entries)
    /\ pc = "idle" => \A n \in online :
          IF id[n] = NoClient THEN n \in Reapable ELSE open[id[n]] \cap Key # {}

LEMMA OnlineStep ==
    ASSUME WritesSucceed, WGName \cap Reapable = {},
           TypeOK, OwnInv, OneOpenSession, OnlineInv, [Next]_vars
    PROVE  OnlineInv'
<1>1. ASSUME UNCHANGED <<id, open, pc, entries, online>> PROVE OnlineInv'
  BY <1>1 DEF OnlineInv, Seen, Listed
<1>2. CASE Server \/ UNCHANGED vars
  BY <1>1, <1>2 DEF Server, ServerStarts, ServerStops, Connect, Disconnect, Transfer,
     WriteStatus, BeginRewrite, LogRemoved, GoesStale, vars, store, memory
<1>3. CASE Others
  <2>1. UNCHANGED memory
    BY <1>3 DEF Others, WhitelistDrops, WhitelistGains, DeleteClientData, WGOpens, WGCloses
  <2>2. SUFFICES ASSUME pc = "idle", NEW n \in online
                 PROVE  IF id'[n] = NoClient THEN n \in Reapable ELSE open'[id'[n]] \cap Key # {}
    BY <2>1 DEF OnlineInv, memory, Seen, Listed
  <2>3. /\ n \in Name
        /\ IF id[n] = NoClient THEN n \in Reapable ELSE open[id[n]] \cap Key # {}
        /\ id[n] # NoClient => id[n] \in Id
    BY <2>2, BoundAssumption DEF OnlineInv, TypeOK, Id, NoClient
  <2>4. ASSUME NEW m \in Name, WhitelistDrops(m) \/ WhitelistGains(m)
        PROVE  UNCHANGED <<id, open>>
    BY <2>4 DEF WhitelistDrops, WhitelistGains, store
  <2>5. ASSUME NEW m \in Name, DeleteClientData(m)
        PROVE  IF id'[n] = NoClient THEN n \in Reapable ELSE open'[id'[n]] \cap Key # {}
    <3>1. CASE m = n
      BY <2>3, <2>5, <3>1 DEF DeleteClientData, TypeOK
    <3>2. CASE m # n
      <4>1. id'[n] = id[n] /\ (id[n] # NoClient => id[m] # id[n])
        BY <2>3, <2>5, <3>2 DEF DeleteClientData, TypeOK, OwnInv, OneOwner
      <4>2. id[n] # NoClient => open'[id[n]] = open[id[n]]
        BY <2>3, <2>5, <4>1 DEF DeleteClientData, DeleteRows, TypeOK
      <4> QED BY <2>3, <4>1, <4>2
    <3> QED BY <3>1, <3>2
  <2>6. ASSUME NEW m \in Name, WGOpens(m)
        PROVE  IF id'[n] = NoClient THEN n \in Reapable ELSE open'[id'[n]] \cap Key # {}
    <3>1. id' \in Inserted(Missing({m})) /\ {m} \in SUBSET Name
      BY <2>6 DEF WGOpens
    <3>2. id[n] # NoClient => id'[n] = id[n] /\ open[id[n]] \subseteq open'[id[n]]
      <4>1. id[n] # NoClient => id'[n] = id[n]
        BY <2>3, <3>1, InsertedFresh DEF OwnInv
      <4> QED BY <2>3, <2>6, <4>1 DEF WGOpens, TypeOK
    <3>3. CASE id[n] = NoClient
      <4>1. n # m
        BY <2>3, <2>6, <3>3 DEF WGOpens
      <4>2. id'[n] = NoClient
        BY <2>3, <3>1, <3>3, <4>1 DEF Inserted, Missing
      <4> QED BY <2>3, <3>3, <4>2
    <3> QED BY <2>3, <3>2, <3>3
  <2>7. ASSUME NEW m \in Name, WGCloses(m)
        PROVE  IF id'[n] = NoClient THEN n \in Reapable ELSE open'[id'[n]] \cap Key # {}
    <3>1. id' = id
      BY <2>7 DEF WGCloses
    <3>2. id[n] # NoClient => open[id[n]] \ {WG} \subseteq open'[id[n]]
      BY <2>3, <2>7 DEF WGCloses, TypeOK
    <3> QED BY <2>3, <3>1, <3>2, KeyAssumption
  <2> QED BY <1>3, <2>3, <2>4, <2>5, <2>6, <2>7 DEF Others
<1>4. CASE Start \/ Crash
  BY <1>4 DEF Start, Crash, OnlineInv
<1>5. CASE Watch
  <2>1. CASE ReadLog
    BY <2>1 DEF ReadLog, OnlineInv, Seen, Listed
  <2>2. CASE SkipLog \/ CloseAllOpenSessions \/ CloseAllFails
    BY <2>2 DEF SkipLog, CloseAllOpenSessions, CloseAllFails, OnlineInv
  <2>3. CASE ProcessLogEntries
    <3>1. pc = "process" /\ pc' = "idle" /\ online' = Seen(entries)
      BY <2>3 DEF ProcessLogEntries, Processed, OnlineInv
    <3>2. ASSUME NEW n \in Seen(entries)
          PROVE  id'[n] # NoClient /\ open'[id'[n]] \cap Key # {}
      <4>1. n \in Name /\ Seen(entries) \in SUBSET Name
        BY DEF Seen
      <4>2. id'[n] \in Id
        BY <2>3, <4>1, InsertedFresh DEF ProcessLogEntries, OwnInv
      <4>3. id'[n] # NoClient
        BY <4>2 DEF Id, NoClient
      <4> QED BY <2>3, <4>1, <4>3, ProcessCounts
    <3> QED BY <3>1, <3>2 DEF OnlineInv
  <2>4. ~WriteFails /\ ~CommitFails
    BY DEF WritesSucceed, WriteFails, CommitFails
  <2> QED BY <1>5, <2>1, <2>2, <2>3, <2>4 DEF Watch
<1> QED BY <1>2, <1>3, <1>4, <1>5 DEF Next

\* If writes succeed, whoever is shown online between readings has an open
\* OpenVPN session, unless it was purged since; a purged client must not come
\* back over WireGuard, which gives it a row again before the next reading
\* (processLog, ProcessLogEntries).
THEOREM OnlineSessions ==
    ASSUME WritesSucceed, WGName \cap Reapable = {}
    PROVE  Spec => []OnlineHaveSessions
<1>1. Init => OnlineInv
  BY DEF Init, OnlineInv
<1>2. TypeOK /\ OwnInv /\ OneOpenSession /\ OnlineInv /\ [Next]_vars => OnlineInv'
  BY OnlineStep
<1>3. OnlineInv => OnlineHaveSessions
  BY DEF OnlineInv, OnlineHaveSessions, Sessions
<1> QED BY <1>1, <1>2, <1>3, OvpnTypeCorrect, OwnInvariant, OneSession, PTL DEF Spec
=============================================================================
