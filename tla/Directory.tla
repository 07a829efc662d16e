----------------------------- MODULE Directory -----------------------------
(***************************************************************************)
(* Who is who: the names and addresses the panel knows from three files,   *)
(* who of them is online, and what is made of it, the portal's lookup of   *)
(* a visitor (internal/handler/pages.go) and the count of clients online   *)
(* and registered (main.go).                                               *)
(*                                                                         *)
(* wg0.conf is read into the registry, ipp.txt into the address pool and   *)
(* the certificates into the whitelist by three loops, each in its own     *)
(* time.  A reading that fails changes nothing, as does an upsert that     *)
(* fails, so failures are readings that do not happen.  The registry's     *)
(* maps are replaced together: they are functions of the text last read.   *)
(* How its health holds the reaper back is in Reaper; the pollers and      *)
(* their sessions are in WGPoller and OvpnSessions, and only whom they     *)
(* find online matters here.  The address column of the clients table,     *)
(* which both loops write for display, is left out.                        *)
(***************************************************************************)
EXTENDS PeerConf

CONSTANTS
    Conf,   \* the texts wg0.conf may have
    Pool,   \* the texts ipp.txt may have: sequences of <<name, address>>
    Certs   \* the sets of names with a valid certificate

ASSUME ConfAssumption == Conf \subseteq Seq(Line)
ASSUME PoolAssumption == Pool \subseteq Seq(Name \X Addr)
ASSUME CertsAssumption == Certs \subseteq SUBSET Name
\* The names are those of a machine's files; they are counted.
ASSUME NameAssumption == IsFiniteSet(Name)

VARIABLES
    conf, pool, certs,  \* the files
    quiet,              \* nobody edits them any more
    read,               \* Registry: the text last read
    vpnToName,          \* IPPStore
    whitelist,          \* CertWhitelist
    rows,               \* the clients table
    ovpnOnline,         \* the watcher's OnlineTracker
    logged,             \* whom its status log names, not yet written to the table
    wgOnline,           \* the poller's OnlineTracker
    count               \* a count in progress: its step and what it has so far

files  == <<conf, pool, certs, quiet>>
online == <<ovpnOnline, logged, wgOnline>>
vars   == <<files, read, vpnToName, whitelist, rows, online, count>>

NoOne == [a \in {} |-> NoName]

-----------------------------------------------------------------------------
(***************************************************************************)
(* The registry's and the pool's maps.                                     *)
(***************************************************************************)
\* The registry has read one of the texts, or none yet.
Text == Conf \cup {<<>>}

PeersOf == [t \in Text |-> ParsePeers(t)]

LastPeer(t, places) == PeersOf[t][Max(places)]

\* Of several peers with one key or one address the last is kept.
ByPubKey ==
    [t \in Text |-> [k \in {p.key : p \in Range(PeersOf[t])} |->
        LastPeer(t, {i \in DOMAIN PeersOf[t] : PeersOf[t][i].key = k}).name]]

NameByIP ==
    [t \in Text |-> [a \in UNION {p.ips : p \in Range(PeersOf[t])} |->
        LastPeer(t, {i \in DOMAIN PeersOf[t] : a \in PeersOf[t][i].ips}).name]]

Names == [t \in Text |-> {p.name : p \in Range(PeersOf[t])}]

byPubKey == ByPubKey[read]
nameByIP == NameByIP[read]
names    == Names[read]

\* LoadIPPFile.
Leases(text) ==
    [a \in {text[i][2] : i \in DOMAIN text} |->
        text[Max({i \in DOMAIN text : text[i][2] = a})][1]]

\* The portal asks the pool first, then the registry.
PortalName(leases, peers, a) ==
    IF a \in DOMAIN leases THEN leases[a]
    ELSE IF a \in DOMAIN peers THEN peers[a] ELSE NoName

Valid(n) == n \in whitelist \/ n \in names

-----------------------------------------------------------------------------
Init ==
    /\ conf \in Conf /\ pool \in Pool /\ certs \in Certs /\ quiet = FALSE
    /\ read = <<>> /\ vpnToName = NoOne /\ whitelist = {}
    /\ rows = {} /\ ovpnOnline = {} /\ logged = {} /\ wgOnline = {}
    /\ count = [step |-> "idle", left |-> {}, total |-> 0, online |-> {}]

\* The administrator edits a file, or leaves them be from now on.
Edit ==
    /\ ~quiet
    /\ \/ conf' \in Conf /\ UNCHANGED <<pool, certs, quiet>>
       \/ pool' \in Pool /\ UNCHANGED <<conf, certs, quiet>>
       \/ certs' \in Certs /\ UNCHANGED <<conf, pool, quiet>>
       \/ quiet' = TRUE /\ UNCHANGED <<conf, pool, certs>>
    /\ UNCHANGED <<read, vpnToName, whitelist, rows, online, count>>

\* Registry.RefreshLoop: of the upserts that follow some may fail.
RefreshRegistry(upserted) ==
    /\ read' = conf
    /\ rows' = rows \cup (upserted \cap names')
    /\ UNCHANGED <<files, vpnToName, whitelist, online, count>>

\* A mutated form: the new leases are added to the old ones.
AddLeases(text) == Leases(text) @@ vpnToName

ReplaceLeases(text) == Leases(text)

\* IPPStore.RefreshLoop.
RefreshPool ==
    /\ vpnToName' = ReplaceLeases(pool)
    /\ UNCHANGED <<files, read, whitelist, rows, online, count>>

\* CertWhitelist.RefreshLoop.
RefreshCerts ==
    /\ whitelist' = certs
    /\ UNCHANGED <<files, read, vpnToName, rows, online, count>>

\* A reload makes the reaper delete a client that is in neither source.
Reap(n) ==
    /\ n \in rows /\ ~Valid(n)
    /\ rows' = rows \ {n}
    /\ UNCHANGED <<files, read, vpnToName, whitelist, online, count>>

\* The watcher starts, and upserts the whitelist.
EnsureKnownClients ==
    /\ rows' = rows \cup whitelist
    /\ UNCHANGED <<files, read, vpnToName, whitelist, online, count>>

\* processLog: whoever of the log is on the whitelist is online.
WatcherReads(present) ==
    /\ ovpnOnline' = present \cap whitelist
    /\ logged' = present \cap whitelist
    /\ UNCHANGED <<files, read, vpnToName, whitelist, rows, wgOnline, count>>

\* ProcessLogEntries, which gives them a row.
WatcherWrites ==
    /\ logged # {}
    /\ rows' = rows \cup logged
    /\ logged' = {}
    /\ UNCHANGED <<files, read, vpnToName, whitelist, ovpnOnline, wgOnline, count>>

\* A mutated form: a peer the registry does not know has the empty name.
PolledUnknown(fresh) == {IF k \in DOMAIN byPubKey THEN byPubKey[k] ELSE NoName : k \in fresh}

\* A mutated form: who was online before stays so until seen again.
PolledAndKept(fresh) == wgOnline \cup {byPubKey[k] : k \in fresh \cap DOMAIN byPubKey}

\* The kernel's peers with a fresh handshake, those of them the registry
\* knows.
Polled(fresh) == {byPubKey[k] : k \in fresh \cap DOMAIN byPubKey}

\* pollOnce: the deltas, each of which may fail, give them a row.
Poll(fresh, written) ==
    /\ wgOnline' = Polled(fresh)
    /\ rows' = rows \cup (written \cap Polled(fresh))
    /\ UNCHANGED <<files, read, vpnToName, whitelist, ovpnOnline, logged, count>>

-----------------------------------------------------------------------------
(***************************************************************************)
(* The count: the table, then each name against the two sources, then the  *)
(* two online sets.                                                        *)
(***************************************************************************)
At(step) == count.step = step

CountNames ==
    /\ At("idle")
    /\ count' = [step |-> "checking", left |-> rows, total |-> 0, online |-> {}]

CountValid ==
    /\ At("checking")
    /\ \E n \in count.left :
        count' = [count EXCEPT !.left = @ \ {n}, !.total = @ + (IF Valid(n) THEN 1 ELSE 0)]

CountOvpn ==
    /\ At("checking") /\ count.left = {}
    /\ count' = [count EXCEPT !.step = "joining", !.online = ovpnOnline]

\* What is returned, when the poller's set is read.
Online == Cardinality(count.online \cup wgOnline)
Total  == count.total

CountWG ==
    /\ At("joining")
    /\ count' = [step |-> "idle", left |-> {}, total |-> 0, online |-> {}]

Count ==
    /\ CountNames \/ CountValid \/ CountOvpn \/ CountWG
    /\ UNCHANGED <<files, read, vpnToName, whitelist, rows, online>>

-----------------------------------------------------------------------------
Next ==
    \/ Edit
    \/ \E upserted \in SUBSET Name : RefreshRegistry(upserted)
    \/ RefreshPool \/ RefreshCerts
    \/ \E n \in Name : Reap(n)
    \/ EnsureKnownClients
    \/ \E present \in SUBSET Name : WatcherReads(present)
    \/ WatcherWrites
    \/ \E fresh \in SUBSET Key, written \in SUBSET Name : Poll(fresh, written)
    \/ Count

Spec == Init /\ [][Next]_vars

(***************************************************************************)
(* Every loop keeps its ticker and in the end succeeds, and counts are     *)
(* taken; nobody has to edit, connect, or be reaped.                       *)
(***************************************************************************)
Fairness ==
    /\ WF_vars(RefreshRegistry(Name)) /\ WF_vars(RefreshPool) /\ WF_vars(RefreshCerts)
    /\ WF_vars(\E present \in SUBSET Name : WatcherReads(present))
    /\ SF_vars(WatcherWrites)
    /\ WF_vars(\E fresh \in SUBSET Key, written \in SUBSET Name : Poll(fresh, written))
    /\ WF_vars(Count)

FairSpec == Spec /\ Fairness

-----------------------------------------------------------------------------
(***************************************************************************)
(* Properties.                                                             *)
(***************************************************************************)

\* Type invariant: only names are known, online, listed and counted.
TypeOK ==
    /\ conf \in Conf /\ pool \in Pool /\ certs \in Certs /\ quiet \in BOOLEAN
    /\ read \in Text /\ whitelist \subseteq Name
    /\ DOMAIN vpnToName \subseteq Addr /\ \A a \in DOMAIN vpnToName : vpnToName[a] \in Name
    /\ rows \subseteq Name
    /\ ovpnOnline \subseteq Name /\ logged \subseteq ovpnOnline /\ wgOnline \subseteq Name
    /\ count \in [step : {"idle", "checking", "joining"}, left : SUBSET Name,
                  total : 0 .. Cardinality(Name), online : SUBSET Name]
    /\ Cardinality(count.left) + count.total <= Cardinality(Name)

\* Every peer of the configuration that was read goes by the name its
\* comments give it, and by the fallback if they give none (the comment of
\* ParseConfFile).
NamesAsCommented ==
    \A k \in DOMAIN byPubKey :
        \E i \in HeadersOf(read, k) : byPubKey[k] = CommentedName(read, i, k)

\* Once the files are left alone, every address ends up resolving to the
\* name they give it, the pool before the configuration, however stale the
\* two sources were and in whatever order they caught up.
PortalSettles ==
    <>quiet => <>[](\A a \in Addr :
        PortalName(vpnToName, nameByIP, a) = PortalName(Leases(pool), NameByIP[conf], a))

\* Once the files are left alone, no more clients end up counted as
\* online than as registered, whoever comes and goes (the comment in main.go: "so
\* online stays a subset of total").
CountsSettle == <>quiet => <>[](At("joining") => Online <= Total)
=============================================================================
