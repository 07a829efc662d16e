------------------------------- MODULE Reaper -------------------------------
(***************************************************************************)
(* Deleting the data of clients that are valid nowhere any more            *)
(* (maintenance.go), with the two validity sources it unions, the          *)
(* certificate whitelist (internal/openvpn/cert.go) and the WireGuard      *)
(* registry (internal/wireguard/registry.go), their refresh loops, and the *)
(* files those loops read.                                                 *)
(*                                                                         *)
(* Each loop runs the reaper after a successful reload of ITS source, so   *)
(* two passes may overlap; a pass reads the whitelist, the registry's      *)
(* health, its names and the client table one after the other, each under  *)
(* a lock of its own, and then deletes one client per transaction.         *)
(***************************************************************************)
EXTENDS Integers

CONSTANTS
    Name,               \* client names, shared by both systems
    Edited,             \* names whose certificate or peer comes and goes
    DBFails             \* whether a write to the database may fail

ASSUME SourceAssumption ==
    /\ Edited \subseteq Name
    /\ DBFails \in BOOLEAN

VARIABLES
    \* the files
    certFile,    \* names with a valid certificate in pki/index.txt
    issued,      \* names with a .crt file in pki/issued
    wgFile,      \* names of the peers in wg0.conf, none if it is not set
    outage,      \* a reading may find the files otherwise than they are
    \* the panel
    enabled,     \* wireguard_conf is set
    up,          \* the panel is running
    certs,       \* CertWhitelist.names
    names,       \* Registry.names
    healthy,     \* Registry.healthy
    loadedOnce,  \* Registry.loadedOnce
    rows,        \* names in the clients table
    \* the reaper's passes
    pc,          \* where each loop is
    valid,       \* validSet of each loop's pass
    victims,     \* names each loop's pass still has to delete
    \* history
    notFound     \* since its start the panel has found wg0.conf missing
                 \* before it had read it

files == <<certFile, issued, wgFile, outage>>
panel == <<enabled, up, certs, names, healthy, loadedOnce, notFound>>
pass  == <<pc, valid, victims>>
vars  == <<files, panel, rows, pass>>

Loop  == {"cert", "wg"}
Stage == {"idle", "upsert", "certs", "health", "names", "list", "delete"}

At(l, here, there) == pc[l] = here /\ pc' = [pc EXCEPT ![l] = there]

-----------------------------------------------------------------------------
Init ==
    /\ certFile \in SUBSET Name
    /\ issued = certFile
    /\ outage = FALSE
    /\ enabled \in BOOLEAN
    /\ wgFile \in IF enabled THEN SUBSET Name ELSE {{}}
    /\ up = FALSE
    /\ certs = {} /\ names = {} /\ healthy = FALSE /\ loadedOnce = FALSE
    /\ rows = {}
    /\ pc = [l \in Loop |-> "idle"]
    /\ valid = [l \in Loop |-> {}]
    /\ victims = [l \in Loop |-> {}]
    /\ notFound = FALSE

-----------------------------------------------------------------------------
(***************************************************************************)
(* The administrator's edits, and what a reader finds in the files.        *)
(* Without wireguard_conf nothing reads a wg0.conf, and it does not matter *)
(* what becomes of one.                                                    *)
(***************************************************************************)
ValidOnDisk == certFile \cup wgFile

Issue(n) ==
    /\ n \notin certFile
    /\ certFile' = certFile \cup {n}
    /\ issued' = issued \cup {n}
    /\ UNCHANGED <<wgFile, outage, panel, rows, pass>>

\* Revoking flips the status in index.txt; the .crt file stays.
Revoke(n) ==
    /\ n \in certFile
    /\ certFile' = certFile \ {n}
    /\ UNCHANGED <<issued, wgFile, outage, panel, rows, pass>>

AddPeer(n) ==
    /\ enabled /\ n \notin wgFile
    /\ wgFile' = wgFile \cup {n}
    /\ UNCHANGED <<certFile, issued, outage, panel, rows, pass>>

RemovePeer(n) ==
    /\ n \in wgFile
    /\ wgFile' = wgFile \ {n}
    /\ UNCHANGED <<certFile, issued, outage, panel, rows, pass>>

\* The file is emptied, and all peers with it.
EmptyConf ==
    /\ wgFile # {}
    /\ wgFile' = {}
    /\ UNCHANGED <<certFile, issued, outage, panel, rows, pass>>

\* A time begins or ends in which the files are moved, locked or damaged.
Outage ==
    /\ outage' = ~outage
    /\ UNCHANGED <<certFile, issued, wgFile, panel, rows, pass>>

-----------------------------------------------------------------------------
(***************************************************************************)
(* Reading the sources.                                                    *)
(***************************************************************************)

\* How a reading may find pki/index.txt and wg0.conf.  An emptied wg0.conf
\* is a good one without peers: EmptyConf.
IndexStates == IF outage THEN {"ok", "empty", "missing", "error"} ELSE {"ok"}
ConfStates  == IF outage THEN {"ok", "missing", "error"} ELSE {"ok"}

\* loadValidNames: the V entries of index.txt, or, when there is no
\* index.txt, every certificate in issued/.
IndexNames(index) ==
    CASE index = "ok"      -> certFile
      [] index = "missing" -> issued
      [] OTHER             -> {}

\* Registry.Load: a configuration that was read before and is missing now
\* counts as a failed read.
ConfAbsent(conf) == conf = "missing" /\ ~loadedOnce
ConfFails(conf)  == conf # "ok" /\ ~ConfAbsent(conf)

\* A mutated form: a failed read drops the peers of the last good one.
LoadForgets(conf) ==
    /\ names' = IF conf = "ok" THEN wgFile ELSE {}
    /\ healthy' = TRUE
    /\ loadedOnce' = (loadedOnce \/ conf = "ok")
    /\ notFound' = (notFound \/ ConfAbsent(conf))

\* A mutated form: a successful read is not remembered as the first one.
LoadUnnoted(conf) ==
    /\ \/ conf = "ok" /\ names' = wgFile /\ healthy' = TRUE
       \/ ConfAbsent(conf) /\ names' = {} /\ healthy' = TRUE
       \/ ConfFails(conf) /\ healthy' = FALSE /\ UNCHANGED names
    /\ UNCHANGED loadedOnce
    /\ notFound' = (notFound \/ ConfAbsent(conf))

RegistryLoad(conf) ==
    /\ \/ /\ conf = "ok"
          /\ names' = wgFile
          /\ healthy' = TRUE /\ loadedOnce' = TRUE
       \/ /\ ConfAbsent(conf)
          /\ names' = {}
          /\ healthy' = TRUE /\ UNCHANGED loadedOnce
       \/ /\ ConfFails(conf)
          /\ healthy' = FALSE
          /\ UNCHANGED <<names, loadedOnce>>
    /\ notFound' = (notFound \/ ConfAbsent(conf))

\* A mutated form: a registry switched off is left as it was made.
NeverMarked == UNCHANGED <<names, healthy, loadedOnce>>

MarkDisabled ==
    names' = {} /\ healthy' = TRUE /\ loadedOnce' = FALSE

\* main: both sources are loaded once before anything reads them.
Start ==
    /\ ~up
    /\ up' = TRUE
    /\ \E index \in IndexStates :
          certs' = IF index = "error" THEN certs ELSE IndexNames(index)
    /\ IF enabled THEN \E conf \in ConfStates : RegistryLoad(conf)
                  ELSE MarkDisabled /\ UNCHANGED notFound
    /\ UNCHANGED <<files, enabled, rows, pass>>

Crash ==
    /\ up
    /\ up' = FALSE
    /\ certs' = {} /\ names' = {} /\ healthy' = FALSE /\ loadedOnce' = FALSE
    /\ notFound' = FALSE
    /\ pc' = [l \in Loop |-> "idle"]
    /\ valid' = [l \in Loop |-> {}]
    /\ victims' = [l \in Loop |-> {}]
    /\ UNCHANGED <<files, enabled, rows>>

\* CertWhitelist.RefreshLoop, a successful reload; a failed one changes
\* nothing.
CertReload ==
    /\ up
    /\ At("cert", "idle", "certs")
    /\ \E index \in IndexStates \ {"error"} : certs' = IndexNames(index)
    /\ UNCHANGED <<files, enabled, up, names, healthy, loadedOnce, notFound,
                   rows, valid, victims>>

\* Registry.RefreshLoop: a failed reload only marks the registry.
ConfReload ==
    /\ up /\ enabled
    /\ \E conf \in ConfStates :
          /\ RegistryLoad(conf)
          /\ IF ConfFails(conf)
             THEN pc["wg"] = "idle" /\ UNCHANGED pc
             ELSE At("wg", "idle", "upsert")
    /\ UNCHANGED <<files, enabled, up, certs, rows, valid, victims>>

\* A mutated form: the peers read are looked up by others, never listed.
UpsertNone ==
    /\ At("wg", "upsert", "certs")
    /\ UNCHANGED <<files, panel, rows, valid, victims>>

\* ... and a successful one syncs the peers into the clients table.
UpsertPeers ==
    /\ At("wg", "upsert", "certs")
    /\ \/ rows' = rows \cup names
       \/ DBFails /\ \E some \in SUBSET names : rows' = rows \cup some
    /\ UNCHANGED <<files, panel, valid, victims>>

\* The watcher or the poller writes a client it looked up in its source.
ClientSeen(n) ==
    /\ up /\ n \in (certs \cup names) \ rows
    /\ rows' = rows \cup {n}
    /\ UNCHANGED <<files, panel, pass>>

-----------------------------------------------------------------------------
(***************************************************************************)
(* reapRevokedClients, run by loop l.                                      *)
(***************************************************************************)

\* certs.All(): an empty whitelist ends the pass.
ReapReadCerts(l) ==
    /\ IF certs # {}
       THEN At(l, "certs", "health") /\ valid' = [valid EXCEPT ![l] = certs]
       ELSE At(l, "certs", "idle") /\ UNCHANGED valid
    /\ UNCHANGED <<files, panel, rows, victims>>

\* wgReg.Healthy(): an unhealthy registry ends the pass.
ReapCheckHealth(l) ==
    /\ IF healthy
       THEN At(l, "health", "names") /\ UNCHANGED valid
       ELSE At(l, "health", "idle") /\ valid' = [valid EXCEPT ![l] = {}]
    /\ UNCHANGED <<files, panel, rows, victims>>

ValidInEither(l) == valid[l] \cup names

ReapReadNames(l) ==
    /\ At(l, "names", "list")
    /\ valid' = [valid EXCEPT ![l] = ValidInEither(l)]
    /\ UNCHANGED <<files, panel, rows, victims>>

Doomed(l) == rows \ valid[l]

\* AllClientNames: a failed query ends the pass.
ReapListClients(l) ==
    /\ \/ At(l, "list", "delete") /\ victims' = [victims EXCEPT ![l] = Doomed(l)]
       \/ DBFails /\ At(l, "list", "idle") /\ UNCHANGED victims
    /\ valid' = [valid EXCEPT ![l] = {}]
    /\ UNCHANGED <<files, panel, rows>>

DeleteClientData(l, n) ==
    /\ pc[l] = "delete" /\ n \in victims[l]
    /\ victims' = [victims EXCEPT ![l] = @ \ {n}]
    /\ rows' = rows \ {n}
    /\ UNCHANGED <<files, panel, pc, valid>>

DeleteFails(l, n) ==
    /\ DBFails
    /\ pc[l] = "delete" /\ n \in victims[l]
    /\ victims' = [victims EXCEPT ![l] = @ \ {n}]
    /\ UNCHANGED <<files, panel, rows, pc, valid>>

ReapDone(l) ==
    /\ At(l, "delete", "idle") /\ victims[l] = {}
    /\ UNCHANGED <<files, panel, rows, valid, victims>>

-----------------------------------------------------------------------------
Edit(n) == Issue(n) \/ Revoke(n) \/ AddPeer(n) \/ RemovePeer(n)

Reap(l) ==
    \/ ReapReadCerts(l) \/ ReapCheckHealth(l) \/ ReapReadNames(l)
    \/ ReapListClients(l)
    \/ \E n \in Name : DeleteClientData(l, n) \/ DeleteFails(l, n)
    \/ ReapDone(l)

CertLoop == CertReload \/ Reap("cert")
ConfLoop == ConfReload \/ UpsertPeers \/ Reap("wg")

Next ==
    \/ \E n \in Edited : Edit(n)
    \/ \E n \in Name : ClientSeen(n)
    \/ EmptyConf \/ Outage
    \/ Start \/ Crash
    \/ CertLoop \/ ConfLoop

Spec == Init /\ [][Next]_vars

(***************************************************************************)
(* Both tickers keep firing, a pass once begun runs on, and the database   *)
(* does not refuse the same client, listing or upsert for ever.            *)
(***************************************************************************)
Fairness ==
    /\ WF_vars(CertLoop) /\ WF_vars(ConfLoop)
    /\ SF_vars(UpsertPeers /\ names \subseteq rows')
    /\ SF_vars(\E l \in Loop : ReapListClients(l) /\ pc'[l] = "delete")
    /\ \A n \in Name : SF_vars(\E l \in Loop : DeleteClientData(l, n))

FairSpec == Spec /\ Fairness

-----------------------------------------------------------------------------
(***************************************************************************)
(* Properties.                                                             *)
(***************************************************************************)

\* Type invariant of the sources, the panel and the reaper's passes.
TypeOK ==
    /\ certFile \subseteq issued /\ issued \subseteq Name
    /\ wgFile \subseteq IF enabled THEN Name ELSE {}
    /\ outage \in BOOLEAN
    /\ enabled \in BOOLEAN /\ up \in BOOLEAN
    /\ healthy \in BOOLEAN /\ loadedOnce \in BOOLEAN
    /\ certs \subseteq Name /\ names \subseteq Name /\ rows \subseteq Name
    /\ pc \in [Loop -> Stage]
    /\ valid \in [Loop -> SUBSET Name] /\ victims \in [Loop -> SUBSET Name]
    /\ \A l \in Loop : pc[l] # "idle" => up
    /\ ~loadedOnce => names = {}
    /\ notFound \in BOOLEAN

Deleted(n) == \E l \in Loop : DeleteClientData(l, n)

\* The peers that have been in wg0.conf from the beginning, and the names a
\* panel has no reason to purge, if it did not take WireGuard for not
\* installed.
SteadyPeers == wgFile \ Edited
Steady      == (certFile \ Edited) \cup IF notFound THEN {} ELSE SteadyPeers

\* A client whose certificate stays valid, or whose peer stays configured,
\* never loses its data, whatever the files do in between: index.txt
\* unreadable, emptied or missing, wg0.conf unreadable or missing, unless it
\* is missing before the panel has read it, and however the two passes
\* overlap (the guards of reapRevokedClients, the last-good rules of both
\* loaders).
SteadyClientsKept == [][\A n \in Steady : ~Deleted(n)]_vars

\* The same of every peer that stays configured: "a transiently missing file
\* must never mass-delete WireGuard-only clients" (Registry).
PeersOfMissingConfKept == [][\A n \in SteadyPeers : ~Deleted(n)]_vars

\* The whole system is readable, running, and has a certificate left.
Calm == up /\ ~outage /\ certFile # {}

\* A client removed from both files for good is purged for good, even
\* though single deletes fail (the reaper's purpose).
RemovedClientsPurged ==
    \A n \in Name : <>[](Calm /\ n \notin ValidOnDisk) => <>[](n \notin rows)

\* A configured peer ends up in the clients table for good, connected or
\* not, and whatever a pass in flight still deletes (Registry.RefreshLoop:
\* "a provisioned-but-never-connected peer shows up as Offline").
PeersListed ==
    \A n \in Name : <>[](Calm /\ n \in wgFile) => <>[](n \in rows)
=============================================================================
