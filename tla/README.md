# Formal models of ovpn-monitor

ovpn-monitor is a panel for one server that runs OpenVPN, WireGuard or both. It
reads the OpenVPN status log and the WireGuard kernel counters, keeps each
client's sessions and traffic in SQLite, and deletes the data of clients that
exist in neither system any more. This directory holds TLA+ models of that core,
the TLC runs that check them on small instances, and TLAPS proofs of what holds
for every instance.

## 1. Inventory

| Part (source) | State | Operations | What makes it correct |
|---|---|---|---|
| WireGuard poller (`internal/wireguard/poller.go`, `dump.go`) | `states`, `online`, `fails`, the tracker | start, poll: one dump, one transaction per peer, then the names that vanished | every byte credited once; every open session remembered until closed |
| WireGuard session store (`internal/db/wireguard.go`) | `sessions`, `wg_peer_state` | six writing transactions, two reads | the increment and its baseline land together |
| OpenVPN watcher and parser (`internal/openvpn/watcher.go`, `parse.go`) | the tracker | first reading, write events, ticks, staleness | a torn log changes nothing; a silent server ends its sessions |
| OpenVPN session store (`internal/db/sessions.go`, `db.go`) | `clients`, `sessions`, `absent` | `ProcessLogEntries`, `CloseAllOpenSessions` | one open session per client; bytes ratchet; two misses before a close |
| Certificate whitelist (`internal/openvpn/cert.go`) | `names` | `Load`, `RefreshLoop`, lookups | a failed read keeps the last good set |
| WireGuard registry (`internal/wireguard/registry.go`, `conf.go`) | peers, `healthy`, `loadedOnce` | `Load`, `MarkDisabled`, `RefreshLoop`, lookups | never trusted for deletions after a failed read |
| Reaper (`maintenance.go`, `DeleteClientData`) | none of its own | one pass per successful reload of either source | valid clients kept, removed clients purged |
| Panel start (`main.go`) | | loads the sources, starts the loops | both sources loaded before anything deletes |
| IPv6 toggles (`internal/ipv6`) | lines in two config files | write, restart the unit, roll back | file and running server agree |
| Settings (`internal/handler/pages.go`, `config.go`) | `settings` table | save one by one, exit to restart | what is saved is what runs; a form changes its own fields only |
| Statistics hub, web sockets (`internal/sysinfo/cache.go`, `internal/handler/ws.go`, `frontend/src/api/websocket.ts`) | cache, subscribers | collect, broadcast, subscribe, reconnect | no client blocks the hub or misses the latest value for good |
| Login sessions (`internal/auth/auth.go`) | token map | create, check, expire, sweep | no token outlives its browser for good |
| Names and addresses (`conf.go`, `registry.go`, `ipp.go`, the portal in `pages.go`) | maps replaced as a whole | parse a file, look up | a peer has the name its comment gives; an address resolves as the files say |
| Client counts (`main.go`) | none of its own | read the table, the sources and the online sets in turn | no more online than registered, but for what changes meanwhile |
| `/proc` readers, subnet detection, rendering | previous sample | read a file | no protocol |

How the parts interact:

* Three goroutines write sessions: the watcher, the poller and the reaper (from
  either refresh loop). They share one SQLite connection (`SetMaxOpenConns(1)`),
  so transactions are serialised, but not the sequences of reads and
  transactions each of them is made of.
* The two validity sources are maps behind their own locks, replaced by the two
  refresh loops and read by everybody. The poller asks the registry for a name,
  the parser asks the whitelist, and each writes that name some time later.
* The panel restarts on a settings change and after a crash; the kernel's
  counters, the status log and the files live on, and restart on their own.

Hard behaviours, then: state read before a transaction and used in a later one;
counters that restart; transactions that fail one by one; memory that is lost
while the rows it described are not; two passes of the reaper at once; the status
log read in the middle of a rewrite, or no longer written at all. `hazards` in
`PROJECT.json` lists them line by line.

## 2. Modules

| Module | Contents |
|---|---|
| `WGPoller` | the poller, its store, the kernel, the registry and the reaper as the poller meets them |
| `ByteLedger` | what traffic accounting promises; `WGPoller` implements it |
| `MCWGPoller` | naming and faults for TLC |
| `WGPollerProofs` | `TypeCorrect`, `CreditsOnce`, `SessionsTracked`, `BooksBalance`, `PollerImplementsLedger`, `OnlineAgrees` |
| `Reaper` | the reaper's passes, the two sources, their loops and their files |
| `MCReaper`, `ReaperProofs` | file states for TLC; `ReaperTypeCorrect`, `SteadyKept` |
| `OvpnSessions` | the watcher, its store, the server and its log, the other writers |
| `MCOvpnSessions`, `OvpnSessionsProofs` | model values for TLC; `OvpnTypeCorrect`, `OneSession`, `OwnTraffic`, `BytesKept`, `WGUntouched`, `TwoMisses`, `OnlineSessions` |
| `IPv6Toggle` | one service's toggle: its requests, configuration file, backup and unit |
| `MCIPv6Toggle`, `IPv6ToggleProofs` | files for TLC; `ToggleUndone`, `PreviousOnDisk`, `DiskIsRun`, `ToggleTypes`, `OthersLinesKept`, `ToldInForce` |
| `StatsHub` | the collector, its hub, the `/ws` handlers and one page with its sockets |
| `MCStatsHub`, `StatsHubProofs` | model values for TLC; `HubTypeCorrect`, `AlwaysOneSocket`, `PollingCarries` |
| `Settings` | the saves, the restart for a new address, the session store |
| `MCSettings`, `SettingsProofs` | forms for TLC; `SettingsTypeCorrect`, `AddressInForce`, `ExactSaves` |
| `PeerConf` | the parser of `wg0.conf`, and what its comment says it does |
| `Directory` | extends `PeerConf`: the three name sources, the portal's lookup, the client counts |
| `MCDirectory`, `DirectoryProofs` | files for TLC; `DirectoryTypes`, `PeersAsCommented` |
| `ListLemmas` | lists, recursion along a list and `FlattenSeq`, for the proofs about files |

Definitions whose comment begins "A mutated form" are plausible mistakes; nothing
uses them. `PROJECT.json` pairs each with the property it breaks.

### WGPoller

`pc` says where `poll()` is: `idle` between ticks, `peers` while the loop over
the dump has peers left (`todo`), `gone` while it closes the sessions of names
that vanished. A peer takes two steps, `Lookup` (`NameByPubKey`) and the one case
of the switch that applies; anything may happen between them, as it may in the
code while the transaction waits for the connection. Each case has a form that
succeeds and one that fails and rolls back; a constant, `FailOps`, says which
operations may fail. `states` is the poller's copy of `base`, the
`wg_peer_state` table, and `NoBase` stands for a missing entry in either.
`open` and `closed` are the names with an open and with a closed session.
`Crash` may happen at any step and takes the memory with it.

Two history variables make accounting a statement about states: `traffic`, what
a peer ever transferred, and `cred`, what session rows hold of it. `dropped`
marks the peers some byte of which the code gives up: on purpose, or because a
counter that restarted is not recognised as restarted. `slipped` marks the names
whose last write failed or whose data was purged since.

`ByteLedger` is the same accounting without polls, tables or crashes: a byte is
moved once, due, then booked once, or its account is waived. `Books` maps a
peer's `traffic` to what it moved, `cred` to what is booked, `dropped` to the
waived accounts, and the distance of its counter from its baseline (the table's
while the panel is down, the poller's while it runs) to what is due.

Left out: the second byte direction (the two never interact), addresses and
`last_seen`, the `down` flag (logging only). `fails` saturates above the
threshold, where the code's counter no longer decides anything. A key keeps its
name for the whole behaviour.

### Reaper

Each refresh loop has its own `pc`, its `valid` set and its `victims`, since both
may be inside `reapRevokedClients` at once. Every read of the pass is a step:
`certs.All()`, `Healthy()`, `Names()`, `AllClientNames`, and one
`DeleteClientData` per victim. The files have a content (`certFile`, `wgFile`,
`issued`). While there is an `outage`, which begins and ends at any time, the
panel up or down, each reading of either file may find it readable, missing or
unreadable, and the index also emptied (`IndexStates`, `ConfStates`). An emptied
`index.txt` stops every pass; an emptied `wg0.conf` reads as a healthy one without
peers, so emptying it removes them (`EmptyConf`), as the code has no way to tell.
A panel without `wireguard_conf` has no `wgFile`: nothing would read it. The names
outside `Edited` come and go in neither file.

`notFound` says that since the panel's start a reading has found `wg0.conf`
missing before any had found it there: because it was missing at the start, or
became so after a start that could not read it. The registry then takes WireGuard
for not installed, and its peers are in neither source. `Steady` leaves them out;
`PeersOfMissingConfKept` does not, and is violated.

### OvpnSessions

A connection is its identity (`connected_since`, protocol), a member of `Key`.
Rows and absence counts are kept under client ids, because the code does, and
because SQLite gives the id of a deleted client out again (`Inserted`: the id
after the largest). `ReadLog` parses and sets the tracker; `ProcessLogEntries`
is the transaction, a step of its own. It has two ways to fail: `WriteFails`
before the loop over absences and `CommitFails` after it, when the rows roll back
and the counts, which are plain memory, do not. The effect of the loop over one
client's entries is given as a whole: all their rows are ratcheted and the last
one listed stays open. The log is `whole`, `torn` (no END line) or `missing`, and
may be `stale`.

`Connect` may reuse a key after a drop within the same second; `over` holds the
identities whose second has passed. One byte direction, no addresses. Malformed
lines count as not listed; the log is taken to lack its END line whenever it is
not complete, as `parse.go` assumes.

### IPv6Toggle

A configuration is a sequence of lines, each with its kind and whether it is
commented; the two line editors (`WgState`, `WgSet`, `OvpnState`, `OvpnSet`) are
operators on it. `Set` is a step per file operation and per `systemctl` call,
under `mu`: `read`, `backup`, `write`, `restart`, `check`, and after a failure
`undo` and `again`. A restart loads the file that is on disk at that moment or
leaves the unit down (`Reload`, `Die`), and in either case may report a failure;
or it fails, or its 30 s are over, before it reaches the unit (`Unreached`, if
`SystemctlFails`). `running` is what the unit loaded. The check may always fail,
for it shares the 30 s. `Leave` is a client that goes away: its request's context
ends, and no further `systemctl` is started under it (`RestartCut`, `AgainCut`); a
client that leaves while one runs is a `Restart` that fails, and a `Leave`, and
one that leaves earlier is a `Leave` before the restart. The
administrator's `Edit`, `ServiceControl`, which also stands for a job systemd
carries out late or by itself, and the panel's `Exit` may come between any two
steps.

The history says what the properties compare: `good` is the file a toggle found,
or left when it succeeded; `mishap` is what else happened to the toggle under
way; `dirty` and `skipped` say why the unit may differ from the file: it was
changed by something else than a toggle, or the restart of a rollback did not
reach the unit.

Left out: the temporary file and the syncs of an atomic write (the rename is the
step); whitespace; the names of older backups. The files may be any sequences of
lines, but a second copy of a marker line is in no file of the instances
(`OneEach`): `wgFindMarkers` looks at the first one only, while for `wg` the last
active line counts, so `State` may then report what the other copy contradicts.

### StatsHub

A sample is `old` or `new` according to whether it was collected before or after
one arbitrary moment (`TimePasses`), which is all freshness needs. `cpc` is the
place in `StatsCache.Run`; `Store` and `Broadcast` are two steps, as in the code.
A connection has a handler (`hpc`: the first write, the loop, a blocked write),
a network state (`link`), one sample of room in the network (`wire`) and a socket
in the page (`sock`). `ReadEnds` may always happen: a page never sends anything,
so the read deadline of 120 s ends each connection if nothing else does.
`WriteFails` is the 5 s write deadline or a reset. In the page, `ws`, `timer` and
`mounted` are the fields of `StatsWebSocket`, `fallback` is `wsFallback`, and an
event of a socket the page no longer owns is ignored where the code ignores it.

Left out: a collection that fails and the two database queries (the sample is
the previous one or has fewer figures), the backoff's length, a restart of the
panel, after which every page must log in again, and other queries of the page.
The 101 answer and the subscription that follows are one step.

### Settings

A save is one request. `Submit` lets it in and reads the settings, `WriteNext`
is one `SaveSetting`, in the order of `Rank`; `SaveFails` is an early return
(a statement, the hash, a browser that hangs up), and `Acknowledge` the answer,
with the exit it schedules if `changed`. Two saves may be in progress at once,
and `Exit` or `Crash` may end them at any step. `Start` reads the address once.
The fields `before` and `unserved` are history: the table when a save began
alone, and whether a save ended early after it had written a new address.

A session token is live, expired but still in the store, or gone; `jar` is what
the browser presents. A login that fails changes nothing, so `Login` is one that
succeeds.

Left out: the four OpenVPN paths are one key and the three WireGuard settings
another, since a section's fields are treated alike; the hash of a password is
its password. Every saved address can be listened on: one that cannot makes each
start fail (`main.go:298`), and the page that could correct it is not served.

### PeerConf and Directory

`ReadLine` is the body of the scan loop, `Parsed` the parser's state after each
line of a file, and `ParsePeers` what it returns; `CommentedName` is the reference
definition, written from the comment of `ParseConfFile`, and `Tidy` says of which
files the two agree. A file is a sequence of the lines the parser tells apart.

In `Directory` the three files change under the panel, and three loops copy them
into `read` (the text the registry was last filled from; `byPubKey`, `nameByIP`
and `names` are its maps), `vpnToName` and `whitelist`. A reading that fails is
one that does not happen. `WatcherReads` sets the online set before
`WatcherWrites` gives its members rows, as in `processLog`; `Poll` gives rows
before it sets its own. The count reads the table, then each name against the
sources, then one online set and the other.

Left out: the reaper's pass is one step here and read by read in `Reaper`, as is
the registry's health; a poll asks the registry once, not once per peer; the
`vpn_address` column, which both loops write for display; the interface's subnet.

## 3. Runs

| Run | Instance | Shows |
|---|---|---|
| `WGAccounting` | 1 peer, 3 bytes, every retried write may fail, resets, reaping, crashes, fair | `TypeOK`, `NoDoubleCredit`, `LedgerBalances`, `OpenTracked`, `OnlineMatchesOpen`, `ImplementsLedger`, `StaleSessionClosed` |
| `Reaper` | 2 clients, 1 of them edited, outages of both files, writes fail, fair | `TypeOK`, `SteadyClientsKept`, `RemovedClientsPurged`, `PeersListed` |
| `ReaperConfMissing` | the same without failing writes | violates `PeersOfMissingConfKept` |
| `OvpnSwitch` | 1 client, 2 interchangeable connections, 1 byte, WireGuard, all faults | `TypeOK`, `OneOpenSession`, `BytesOnlyRatchet`, `WGSessionsUntouched` |
| `OvpnReuse` | 2 clients, 1 connection each, torn logs, reaping | `OwnBytesOnly`, `OnlineHaveSessions`, `ClosedAfterTwoMisses` |
| `OvpnLive` | 1 client, 2 connections, torn and stale logs, failing writes, fair | `GoneClientClosed` |
| `OvpnLogRemoved` | the log of a stopped server may be removed, fair | violates `GoneClientClosed` |
| `IPv6` | 2 requests, 1 hand edit, 4 WireGuard and 3 OpenVPN files, all failures, fair | `TypeOK`, `FailedToggleUndone`, `Recoverable`, `AckedInForce`, `AdminLinesKept`, `RunsWhatIsOnDisk`, `RequestAnswered` |
| `StatsFresh` | 2 connections, 1 of them broken, fair | `TypeOK`, `OneSocket`, `PollsIffDown`, `FreshForGood`, `GoneUnsubscribed` |
| `Settings` | 2 saves at once, 4 forms, 1 token, failures, exits and crashes, fair | `TypeOK`, `AddrInForce`, `SavesExactlyTheForm`, `AddrServed`, `OrphansEvicted` |
| `Directory` | 2 names, 2 keys, 1 address, 3 configurations, 2 pools, 2 certificate sets, fair | `TypeOK`, `NamesAsCommented`, `PortalSettles`, `CountsSettle` |
| `ConfNames` | configurations in which some peers have no comment, or two | violates `NamesAsCommented` |

Why the bounds are enough:

* Peers do not interact except through a shared name, so one peer shows the
  accounting and its recovery, with all faults and crashes at once; the theorems
  of `WGPollerProofs` hold for any number of peers and names.
  Three bytes let a counter pass its old value after a reset and still move;
  `MaxDumpFailures` is the code's own 3.
* Two clients are needed by the reaper for one to be valid while the other is a
  victim, and by the id reuse for one to inherit the other's id. A third adds
  nothing the passes tell apart; `SteadyKept` and `OwnTraffic` are proved for any
  number.
* An outage is one flag for both files, under which each reading finds what it
  finds: this admits every sequence of states the files could go through, and
  more, with fewer states than a variable for each.
* `MaxId` is the number of clients: a purge that would drive ids beyond it does
  not happen. `MaxBytes` of 0 in the liveness runs only drops byte counts the
  property does not mention.
* Two requests are what a mutex can get wrong; a request may be repeated any
  number of times. The files are those an installation of either age has, one
  the editor must refuse, and inconsistent ones; one hand edit can fall anywhere
  and bring in any of them. What the editors do to a longer file, and to any
  number of requests and edits, is proved.
* A page has at most one socket of its own, so two connections show the new one
  next to an old one whose end is still to come. With both taken the page's next
  opening waits for one of them to end, which every handler does: this delays an
  opening and prevents none. One broken connection at any moment shows each
  reaction; ends by deadline are not bounded.
* Two saves are what can overlap in the comparison of the address, and the
  theorems hold for any number. The forms are a page that changes the address and
  one that sets it back, a whole form that empties it, and one that carries
  fields of another page; addresses beyond three are told apart by nothing.
  Sessions do not affect one another, so one token is enough for `OrphansEvicted`.
* Two names let one be renamed to the other, move between the pool and the
  configuration, and be in both systems at once. The configurations of
  `Directory` are tidy: every peer has one comment, wherever it stands, or none
  has. `NamesAsCommented` is not true of others (`ConfNames`), and proved for
  every tidy file. `MCDirectory` asserts which of its files are tidy, and
  `MCIPv6Toggle` that its files have one line of each marker.

### Fairness

* Pollers, watchers and refresh loops run on tickers that are never stopped:
  weak fairness of the loop's next step.
* A statement that is retried on every tick does not fail every time: strong
  fairness of its successful form. Nothing is assumed of a statement that is not
  retried, such as the one that closes all sessions. Of the reaper it is asked
  that some pass in the end finds the sources healthy and lists its victims, and
  that each victim's deletion in the end succeeds; of the registry's upserts,
  that once all of one reload succeed.
* A running OpenVPN server keeps dumping, and a log nobody writes grows old.
* A toggle runs until `Set` returns, since every `systemctl` has a timeout, and
  Go's mutex starves nobody: strong fairness of `Lock`.
* The collector and the handlers run, deadlines expire, and a browser delivers
  the events of its sockets, timers and requests: weak fairness. `FreshForGood`
  also asks for the page to stay mounted.
* A request runs to its end, the exit that was scheduled happens, and systemd
  starts the panel again: weak fairness. That it does is a matter of the unit,
  which is not in the repository; the exit has status 0, so a unit that restarts
  only on failure would leave the panel down.
* The three loops of `Directory` in the end succeed; nobody has to connect.
* Nothing is assumed of crashes, dumps, edits or clients. The liveness properties
  therefore say what follows once the panel stays up.

### Disagreements between code and comments

Three runs end in a counterexample (`findings` in `PROJECT.json`): a
configuration the panel finds missing before it has read it, across a restart or
after a start that could not read it, counts as never installed, and its clients
are purged; a removed status log hides that the server is gone; and the name
comment before a peer goes to the peer above it, if that one has no name.

Others were met while modelling and are described here without a run of their
own:

* baselines that cannot be read at a start are taken to be none, and every
  counter is credited again (`poller.go:55`), while `dump.go:71-73` says the
  initial credit can never be repeated: with `"loadStates"` added to `FailOps`,
  `WGAccounting` would violate `NoDoubleCredit`;
* a failure of the one statement that closes all sessions is forgotten
  (`poller.go:108`), and they stay open: with `"closeAll"` added to `FailOps`,
  `WGAccounting` would violate `OpenTracked` and `StaleSessionClosed`;
* `ipv6.go:109-110` says that after a restart failure the old contents are
  restored "and the service restarted again", but that restart runs under the
  context of the request, which has ended if the client left: it is not started,
  and the unit may go on with the new configuration over the old file. With the
  client present the same happens when `systemctl` brings the new file up, reports
  a failure, and then fails or runs out of time at the rollback without reaching
  the unit (`ipv6.go:142`), which the comment at `ipv6.go:137` concedes
  ("best-effort"). `RunsWhatIsOnDisk` without its `~skipped` is violated by both;
* an emptied `wg0.conf`, or one read while it is rewritten in place, is healthy
  and has no peers (`registry.go:73`): the next pass purges every client that has
  no certificate, while an empty `index.txt` stops the pass (`maintenance.go:45`);
* the rollback writes back the contents read before the restart, over what an
  administrator saved meanwhile (`ipv6.go:139`);
* between subscribing and the first write a broadcast may already be in the
  channel (`api.go:163-169`), so the second message can be older than the first;
* two keys under one name: the idle key closes the session of the active one
  (`poller.go:176`), so the online set and the open sessions part;
* a counter restarted at zero is passed over as "unchanged" (`poller.go:210`),
  and one that overtakes its old value is not seen as a reset (`dump.go:84`):
  the bytes between are given up, and `dropped` says so;
* a write in flight can bring back the baseline of a purged peer
  (`db/wireguard.go:205`), which nothing deletes again;
* a client that moves from certificate to peer within a minute is valid
  throughout and can be purged (`maintenance.go:56`);
* an absence count survives a rolled-back reading that saw the client
  (`db/sessions.go:119`), so `ClosedAfterTwoMisses` is checked with writes that
  succeed; and as an expired client's count is dropped before the commit, a
  commit that fails every second time would put its close off for ever, so
  `GoneClientClosed` is checked with writes that fail earlier;
* a save that fails or is abandoned after it wrote a new address schedules no
  restart, and sending the form again finds the address unchanged
  (`pages.go:260`): the new address waits for the next restart, while
  `pages.go:249` says that a change requires one. `AddrInForce` without its
  `~unserved` is violated by it;
* `main.go:222-224` says that online stays a subset of the total. The two are
  read at different moments, and an OpenVPN client is online before it has a row:
  a count can show 1 of 0. `CountsSettle` is what remains;
* two saves that overlap can leave a mixture of their forms (`pages.go:255`);
  `SavesExactlyTheForm` speaks of a save that no other overlapped.

## 4. Proofs

All theorems hold for every value of the constants allowed by the named
assumptions of the modules.

* `TypeCorrect`, `ReaperTypeCorrect`, `OvpnTypeCorrect`, `HubTypeCorrect`,
  `SettingsTypeCorrect`: `Spec => []TypeOK`, action by action. The other proofs use
  them for the ranges of the variables. `ToggleTypes` and `DirectoryTypes` say the
  same of `IPv6Toggle` and `Directory`, and there it is about what the editors
  write and the parser returns: that each of them, for any file, ends in a
  configuration, a list of peers, a map of addresses.
* `CreditsOnce`: if the baselines can be read, `NoDoubleCredit`. It is not
  inductive: that `cred` stays below `traffic` after a credit depends on what the
  baseline, the snapshot in hand and the counter have to do with each other. The
  strengthening, in `WGPollerProofs`, relates each of them to the bytes already
  credited: what is credited and what is still due, from the snapshot or from the
  counter, together never exceed what was transferred. `DeltaBounded`,
  `DeltaStep` and `DeltaZero` carry the arithmetic of `Delta`; the lemmas on the
  ledger treat the transactions that write a peer's baseline and those that leave
  it alone.
* `SessionsTracked`: unless the read of the open sessions or the shutdown
  statement fails, `OpenTracked`. The strengthening adds what the name set of an
  unfinished poll covers.
* `BooksBalance`: `LedgerBalances`, whenever the baselines can be read. `Exact`
  adds to the ledger that what is due splits at the snapshot of the dump in
  progress, and that a counter which restarted under that dump had nothing due.
* `PollerImplementsLedger`: the initial state maps to one of `ByteLedger`, and
  every step to one of its steps or to a stutter (`Still`). A byte is a `Move`, a
  transaction that commits a `Book` of exactly what the dump showed; crashes,
  resets and reaping, which lose the difference, are a `Waive`.
* `OnlineAgrees`: `OnlineMatchesOpen`, when every client has one key. The
  invariant says for an unfinished poll which names still owe a transition.
* `SteadyKept`: `SteadyClientsKept`, for any states of the two files in any order.
  The invariant, `Kept`, says that at every stage of every pass the names that
  have always been in their file are in the map the pass has read or is about to
  read, or the pass is bound to stop. For the peers it says so only until
  `notFound`; `LoadKeeps` is the step of `Load` on which it rests, at the start
  and in the loop.
* `OneSession`: `OneOpenSession` is inductive on top of the types.
* `OwnTraffic`: `OwnBytesOnly`, from `OwnInv`: no two clients share an id, an id
  nobody has has no rows, and counters, log and entries in hand stay below the
  peak. The first two are what deleting a client's sessions before the client
  itself, in one transaction, buys.
* `BytesKept`: `BytesOnlyRatchet`. A reading only raises rows, and by `OwnInv` a
  purge clears nobody else's. `WGUntouched`: `WGSessionsUntouched`, from the types
  and `WG \notin Key`.
* `TwoMisses`: `ClosedAfterTwoMisses`, if the watcher's transactions do not fail
  once begun (`WritesSucceed`). `CountInv` bounds the count of every client with
  an open session by the readings it was missing from. That needs `OwnInv` and
  `OneOpenSession` too: an id that is handed out again may carry a count, and
  what saves its new owner is that it has no open session to close until a
  reading has seen it and set the count to zero (`FreshClosed`, `ProcessCounts`).
* `OnlineSessions`: `OnlineHaveSessions`, if in addition a client that can be
  purged has no WireGuard key. Without that it fails: a client that was purged
  while shown online, and comes back over WireGuard before the next reading, has
  a row again and no OpenVPN session.
* `ToggleUndone`, `PreviousOnDisk`, `DiskIsRun`: one invariant, `ToggleInv`. It
  says that at most one request is past `Lock` and holds `mu`, what that request
  knows at each step of `Set` (its `original` is `good`, then also the backup,
  then the file is the edited one, then again the original), and what the unit
  can have loaded: `Loaded` lets it differ from the file only between a rewrite
  and the end of `Set`, after a change by somebody else, or after a rollback whose
  restart did not reach the unit, whatever `systemctl` did before. `FailedToggleUndone` and `RunsWhatIsOnDisk` speak of moments
  without a toggle, so neither is inductive alone.
* `OthersLinesKept`: `AdminLinesKept`, for any files. `Rest` takes the lines a
  toggle does not own, and the file always has those of `good`. `WgSetRest` is
  the lemma behind it: a file is the pieces its lines become, one behind the
  other (`FlattenSeq`), and each piece has of the administrator's lines exactly
  the one it came from. `OvpnSet` changes lines in place (`OvpnSetRest`).
* `ToldInForce`: `AckedInForce`, if no WireGuard file an administrator writes has
  two lines of one marker (`OneMarkerEach`). The editor rewrites the first line of
  a marker and `wg` obeys the last, so the premise is needed; that it lasts through
  every edit is part of `WgSetMarkers`, and `WgSetForce` and `OvpnSetForce` say
  that an edited file reads, and to `wg` means, what was asked for. `ForceInv`
  follows it through a toggle: what was last answered is in force in `good`, the
  file that `ToggleInv` says is on disk again when a toggle fails. `ForceInv` was
  also checked by TLC, as an invariant of `IPv6`, before it was proved.
* `AlwaysOneSocket`, `PollingCarries`: from `PageInv`, which adds that the socket
  the page holds is connecting or open. Only page steps matter; `PageKept`
  disposes of the rest.
* `AddressInForce`: `AddrInForce` is about quiet states. `AddrInv` carries it
  from one to the next: while no save is about to bring an exit about, the panel
  listens where the table says and every save in progress read an address that
  is in force, so that writing it back changes nothing.
* `ExactSaves`: `SavesExactlyTheForm`, from `AloneInv`: a save that no other
  overlaps is at each moment the table it began with, overlaid with the fields it
  has written. `OverlaidWritten` shows that these are the fields of the form the
  section owns, the password under its own rule.
* `PeersAsCommented`: `NamesAsCommented`, if the configurations are tidy
  (`TidyConf`): every comment names one peer, no peer is named twice, and one
  without a name has no comment in its block. `ConfNames` shows it false without.
  `Follows` is the invariant along the lines of a file: a block is open exactly
  under a peer's header, its name is that of the comment that names it or none so
  far, a comment waits only directly above a header, and the peers so far are
  right (`FollowLine`, with one lemma per kind of line; `ParsedRight`). TLC has
  compared the two definitions on every tidy file of up to seven lines.
* `ListLemmas` holds what these proofs need of lists. The library's induction
  rules take an operator as a parameter, which the provers cannot instantiate;
  `UpTo` takes a set instead, and is derived from the well-foundedness of `<` on
  the naturals. On it rest `Iterate` (a function defined along `0 .. n` by its
  step) and what `FlattenSeq` of the community modules, itself a fold, does:
  `FlattenSteps`, `FlattenConcat`, and `FlattenPlaces`, which says where each
  piece lies in the result.

Model-checked only: `StaleSessionClosed`, `RemovedClientsPurged`, `PeersListed`,
`GoneClientClosed`, `RequestAnswered`, `FreshForGood`, `GoneUnsubscribed`,
`AddrServed`, `OrphansEvicted`, `PortalSettles` and `CountsSettle`, for they all
need fairness, and TLAPS here has neither fairness nor `ENABLED`. Every invariant
a passing run checks is proved.

To repeat the checks: `tlc -config WGAccounting.cfg MCWGPoller.tla`, and so on for
each run; `tlapm WGPollerProofs.tla` for each proof module.

## 5. Plan

Done in this order: the accounting, the reaper, the OpenVPN sessions, the IPv6
toggles, the statistics hub, the ledger and its refinement, the settings and
login sessions, the names, addresses and counts. What would come next:

1. Two keys under one name in a run of its own, with the interplay of the two
   peers' transactions.
2. The aggregate queries of `db/clients.go` against a reference definition, if a
   change to the schema makes them interesting.

## 6. Not modelled

* The `/proc` and `/sys` readers (`internal/sysinfo`): each figure is computed
  from one reading and the one before; nothing else reads or writes that state.
  When a sample is taken and who gets it is in `StatsHub`.
* The detection of the OpenVPN subnet at start (`serverconf.go`): one line of one
  file, read once.
* Aggregate queries (`QueryClients`, the traffic windows) only read, and compute
  sums and dates that SQLite defines.
* HTTP handlers that only format, and the pages of the web interface: rendering.
* The text of the status log and of `index.txt`: the parsers are modelled by the
  facts their callers act on.
