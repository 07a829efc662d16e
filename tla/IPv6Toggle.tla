----------------------------- MODULE IPv6Toggle -----------------------------
(***************************************************************************)
(* Switching a VPN service's IPv6 on and off (internal/ipv6, with its      *)
(* endpoint in internal/handler/ipv6.go): the panel edits the server's     *)
(* configuration file and restarts its unit, and puts the file back when   *)
(* the unit does not come up.                                              *)
(*                                                                         *)
(* A configuration is a sequence of lines.  A line the toggle manages is   *)
(* commented or not ("on"); what else it says is kept as it is.            *)
(***************************************************************************)
EXTENDS Naturals, Sequences, SequencesExt

CONSTANTS
    Req,       \* requests to the endpoint, each used again once answered
    None,      \* no request
    Stopped,   \* the unit does not run
    Files,     \* what an administrator writes, for each service
    SystemctlFails, \* whether systemctl may fail before it reaches the unit
    MaxEdits   \* bound on the administrator's edits

Service == {"wireguard", "openvpn"}
Hook    == {"up", "down"}
Accept  == [up |-> "upAccept", down |-> "downAccept"]
Reject  == [up |-> "upReject", down |-> "downReject"]
Marker  == {"upAccept", "upReject", "downAccept", "downReject"}
Managed == Marker \union {"directive"}
Line    == [kind : Managed \union {"key", "peer"}, on : BOOLEAN]
Config  == Seq(Line)
State   == {"enabled", "disabled", "unknown"}

ASSUME ToggleAssumption ==
    /\ None \notin Req
    /\ Stopped \notin Config
    /\ Files \in [Service -> SUBSET Config]
    /\ SystemctlFails \in BOOLEAN
    /\ MaxEdits \in Nat

VARIABLES
    service,   \* which of the two this is
    file,      \* the configuration on disk
    backup,    \* the newest .bak next to it
    running,   \* the configuration the unit runs with, or Stopped
    mu,        \* who holds Service.mu
    pc,        \* where each request is in Set
    enabled,   \* what each request asks for
    original,  \* the contents each request read
    gone,      \* the requests whose client has left
    edits,     \* edits so far
    \* history
    acked,     \* the state last answered, while it should hold
    good,      \* the file before the toggle under way, or after the last one
    mishap,    \* what happened to a toggle half way
    dirty,     \* the file has changed since the unit started, by no toggle
    skipped    \* the restart of a rollback did not reach the unit, which
               \* has not been started since

request == <<mu, pc, enabled, original, gone>>
history == <<acked, good, mishap, dirty, skipped>>
vars    == <<service, file, backup, running, request, edits, history>>

-----------------------------------------------------------------------------
(* The WireGuard file: two hooks, each with an ACCEPT and a REJECT line,   *)
(* of which one is meant to be commented.                                  *)

First(f, m)  == SelectInSeq(f, LAMBDA l : l.kind = m)
Active(f, m) == First(f, m) # 0 /\ f[First(f, m)].on

\* A mutated form: the words of the switch, not of the state.
SwitchWord(e) == IF e THEN "on" ELSE "off"

OnOff(e) == IF e THEN "enabled" ELSE "disabled"

HookState(f, h) ==
    IF Active(f, Accept[h]) = Active(f, Reject[h])
    THEN "unknown" ELSE OnOff(Active(f, Accept[h]))

WgState(f) ==
    IF HookState(f, "up") = HookState(f, "down")
    THEN HookState(f, "up") ELSE "unknown"

WgEditable(f) ==
    \A h \in Hook : First(f, Accept[h]) # 0 \/ First(f, Reject[h]) # 0

Partner(m) ==
    CHOOSE p \in Marker \ {m} : \E h \in Hook : {m, p} = {Accept[h], Reject[h]}

Desired(m, e) == [kind |-> m, on |-> (m \in {Accept[h] : h \in Hook}) = e]

\* A mutated form: a missing partner is not added.
NoPartner(f, e, i) ==
    LET m == f[i].kind
    IN  IF m \in Marker /\ i = First(f, m) THEN <<Desired(m, e)>> ELSE <<f[i]>>

\* The first line of each marker is rewritten; a missing one goes beneath
\* its partner.
WgLines(f, e, i) ==
    LET m == f[i].kind
    IN  IF m \in Marker /\ i = First(f, m)
        THEN <<Desired(m, e)>>
             \o (IF First(f, Partner(m)) = 0 THEN <<Desired(Partner(m), e)>>
                                             ELSE <<>>)
        ELSE <<f[i]>>

WgSet(f, e) == FlattenSeq([i \in DOMAIN f |-> WgLines(f, e, i)])

(* The OpenVPN file: any number of directives, switched together.          *)

Directives(f) == {i \in DOMAIN f : f[i].kind = "directive"}

OvpnState(f) ==
    LET states == {OnOff(f[i].on) : i \in Directives(f)}
    IN  IF \E s \in State : states = {s}
        THEN CHOOSE s \in State : states = {s} ELSE "unknown"

OvpnEditable(f) == Directives(f) # {}

\* A mutated form: every line is switched.
EveryLine(f, e) == [i \in DOMAIN f |-> [f[i] EXCEPT !.on = e]]

OvpnSet(f, e) ==
    [i \in DOMAIN f |-> IF i \in Directives(f) THEN [f[i] EXCEPT !.on = e]
                                               ELSE f[i]]

(* editor.state and editor.set of the service.                             *)

StateOf(f)   == IF service = "wireguard" THEN WgState(f) ELSE OvpnState(f)
Editable(f)  == IF service = "wireguard" THEN WgEditable(f) ELSE OvpnEditable(f)
SetTo(f, e)  == IF service = "wireguard" THEN WgSet(f, e) ELSE OvpnSet(f, e)

-----------------------------------------------------------------------------
Init ==
    /\ service \in Service
    /\ file \in Files[service]
    /\ backup = <<>>
    /\ running \in {file, Stopped}
    /\ mu = None
    /\ pc = [r \in Req |-> "idle"]
    /\ enabled = [r \in Req |-> FALSE]
    /\ original = [r \in Req |-> <<>>]
    /\ gone = {}
    /\ edits = 0
    /\ acked = "unknown"
    /\ good = file
    /\ mishap = "none"
    /\ dirty = FALSE
    /\ skipped = FALSE

(* PUT /api/settings/{service}/ipv6 arrives.                               *)
Put(r, e) ==
    /\ pc[r] = "idle"
    /\ pc' = [pc EXCEPT ![r] = "lock"]
    /\ enabled' = [enabled EXCEPT ![r] = e]
    /\ UNCHANGED <<service, file, backup, running, mu, original, gone,
                   edits, history>>

\* A mutated form: without the mutex.
Unlocked(r) ==
    /\ pc[r] = "lock"
    /\ mu' = r
    /\ pc' = [pc EXCEPT ![r] = "read"]
    /\ UNCHANGED <<service, file, backup, running, enabled, original, gone,
                   edits, history>>

Lock(r) ==
    /\ pc[r] = "lock"
    /\ mu = None
    /\ mu' = r
    /\ pc' = [pc EXCEPT ![r] = "read"]
    /\ UNCHANGED <<service, file, backup, running, enabled, original, gone,
                   edits, history>>

GoOn(r, next) ==
    /\ pc' = [pc EXCEPT ![r] = next]
    /\ UNCHANGED <<mu, enabled, original, gone>>

(* Set returns: its deferred unlock, and nothing of the request remains.   *)
Return(r) ==
    /\ mu' = None
    /\ pc' = [pc EXCEPT ![r] = "idle"]
    /\ enabled' = [enabled EXCEPT ![r] = FALSE]
    /\ original' = [original EXCEPT ![r] = <<>>]
    /\ gone' = gone \ {r}

(* ReadFile, and the edit in memory, which may refuse the file.            *)
ReadConfig(r) ==
    /\ pc[r] = "read"
    /\ Editable(file)
    /\ original' = [original EXCEPT ![r] = file]
    /\ pc' = [pc EXCEPT ![r] = "backup"]
    /\ good' = file
    /\ mishap' = "none"
    /\ UNCHANGED <<service, file, backup, running, mu, enabled, gone, edits,
                   acked, dirty, skipped>>

\* A mutated form: this return does not unlock.
StayLocked(r) ==
    /\ pc[r] = "read"
    /\ pc' = [pc EXCEPT ![r] = "idle"]
    /\ UNCHANGED <<service, file, backup, running, mu, enabled, original,
                   gone, edits, history>>

\* The file cannot be read, or it has no lines to switch.
Refuse(r) ==
    /\ pc[r] = "read"
    /\ Return(r)
    /\ UNCHANGED <<service, file, backup, running, edits, history>>

Backup(r) ==
    /\ pc[r] = "backup"
    /\ backup' = original[r]
    /\ GoOn(r, "write")
    /\ UNCHANGED <<service, file, running, edits, history>>

\* A mutated form: a failed backup is ignored.
WriteAnyway(r) ==
    /\ pc[r] = "backup"
    /\ GoOn(r, "write")
    /\ UNCHANGED <<service, file, backup, running, edits, history>>

(* The backup or the temporary file cannot be written: the configuration   *)
(* is still what it was.                                                   *)
GiveUp(r) ==
    /\ pc[r] \in {"backup", "write"}
    /\ Return(r)
    /\ UNCHANGED <<service, file, backup, running, edits, history>>

(* writeFileAtomic: the rename is the step.                                *)
Write(r) ==
    /\ pc[r] = "write"
    /\ file' = SetTo(original[r], enabled[r])
    /\ GoOn(r, "restart")
    /\ UNCHANGED <<service, backup, running, edits, history>>

(* systemctl restart loads the file that is there.  It may fail or time    *)
(* out with the unit up or down, or before it reaches the unit.            *)
Reload    == running' = file /\ dirty' = FALSE /\ skipped' = FALSE
Die       == running' = Stopped /\ UNCHANGED <<dirty, skipped>>
Unreached == UNCHANGED <<running, dirty>>

Restart(r) ==
    /\ pc[r] = "restart"
    /\ r \notin gone
    /\ \/ /\ Reload \/ Die
          /\ \E next \in {"check", "undo"} : GoOn(r, next)
       \/ SystemctlFails /\ Unreached /\ UNCHANGED skipped /\ GoOn(r, "undo")
    /\ UNCHANGED <<service, file, backup, edits, acked, good, mishap>>

(* The context of a request ends with its client, and exec does not start  *)
(* a command under a context that has ended.  A client that leaves during  *)
(* the command is a Restart that fails, and a Leave.                       *)
RestartCut(r) ==
    /\ pc[r] = "restart"
    /\ r \in gone
    /\ Unreached
    /\ GoOn(r, "undo")
    /\ UNCHANGED <<service, file, backup, edits, acked, good, mishap, skipped>>

(* systemctl is-active, under the same context and what is left of the     *)
(* restart's 30 s.                                                         *)
IsActive(r) ==
    /\ pc[r] = "check"
    /\ running # Stopped
    /\ r \notin gone
    /\ Return(r)
    /\ good' = SetTo(original[r], enabled[r])
    /\ acked' = IF mishap = "none" THEN OnOff(enabled[r]) ELSE "unknown"
    /\ UNCHANGED <<service, file, backup, running, edits, mishap, dirty,
                   skipped>>

(* The unit is down or still activating, systemctl fails, or the time is   *)
(* up.                                                                     *)
NotActive(r) ==
    /\ pc[r] = "check"
    /\ GoOn(r, "undo")
    /\ UNCHANGED <<service, file, backup, running, edits, history>>

\* A mutated form: the file is put back, the unit is not restarted.
FileOnly(r) ==
    /\ pc[r] = "undo"
    /\ file' = original[r]
    /\ Return(r)
    /\ UNCHANGED <<service, backup, running, edits, history>>

(* The rollback: the old contents, and a second restart.                   *)
Undo(r) ==
    /\ pc[r] = "undo"
    /\ file' = original[r]
    /\ GoOn(r, "again")
    /\ UNCHANGED <<service, backup, running, edits, history>>

UndoFails(r) ==
    /\ pc[r] = "undo"
    /\ mishap' = IF mishap = "none" THEN "cut short" ELSE mishap
    /\ acked' = "unknown"
    /\ dirty' = TRUE
    /\ GoOn(r, "again")
    /\ UNCHANGED <<service, file, backup, running, edits, good, skipped>>

RestartAgain(r) ==
    /\ pc[r] = "again"
    /\ r \notin gone
    /\ \/ Reload \/ Die
       \/ SystemctlFails /\ Unreached /\ skipped' = TRUE
    /\ Return(r)
    /\ UNCHANGED <<service, file, backup, edits, acked, good, mishap>>

\* The context has ended: exec does not start the command.
AgainCut(r) ==
    /\ pc[r] = "again"
    /\ r \in gone
    /\ Unreached /\ skipped' = TRUE
    /\ Return(r)
    /\ UNCHANGED <<service, file, backup, edits, acked, good, mishap>>

-----------------------------------------------------------------------------
(* The environment.                                                        *)

(* Only systemctl looks at the request's context: a client that leaves     *)
(* while the file is read or written is gone before the restart.           *)
Leave(r) ==
    /\ pc[r] \in {"restart", "check", "undo", "again"}
    /\ r \notin gone
    /\ gone' = gone \union {r}
    /\ UNCHANGED <<service, file, backup, running, mu, pc, enabled, original,
                   edits, history>>

(* An administrator edits the file by hand.                                *)
HalfWay == \E r \in Req : pc[r] \notin {"idle", "lock", "read"}

Edit(f) ==
    /\ edits < MaxEdits
    /\ edits' = edits + 1
    /\ file' = f
    /\ acked' = "unknown"
    /\ dirty' = TRUE
    /\ IF HalfWay
       THEN mishap' = "edited" /\ UNCHANGED good
       ELSE mishap' = "none" /\ good' = f
    /\ UNCHANGED <<service, backup, running, request, skipped>>

(* POST /api/service/{name}/{action}, not under mu; systemctl by hand; or  *)
(* systemd, late with a job or by itself.                                  *)
ServiceControl ==
    /\ Reload \/ Die
    /\ UNCHANGED <<service, file, backup, request, edits, acked, good,
                   mishap>>

(* The panel exits, because a new address was saved or by a crash.         *)
Exit ==
    LET at == IF mu = None THEN "idle" ELSE pc[mu]
    IN  /\ mu' = None
        /\ pc' = [r \in Req |-> "idle"]
        /\ enabled' = [r \in Req |-> FALSE]
        /\ original' = [r \in Req |-> <<>>]
        /\ gone' = {}
        /\ IF at \in {"restart", "check", "undo", "again"}
           THEN /\ dirty' = TRUE
                /\ mishap' = IF mishap = "none" THEN "cut short" ELSE mishap
                /\ acked' = "unknown"
           ELSE UNCHANGED <<dirty, mishap, acked>>
        /\ UNCHANGED <<service, file, backup, running, edits, good, skipped>>

-----------------------------------------------------------------------------
Serve(r) ==
    \/ ReadConfig(r) \/ Refuse(r)
    \/ Backup(r) \/ GiveUp(r) \/ Write(r)
    \/ Restart(r) \/ RestartCut(r) \/ IsActive(r) \/ NotActive(r)
    \/ Undo(r) \/ UndoFails(r) \/ RestartAgain(r) \/ AgainCut(r)

Next ==
    \/ \E r \in Req : \/ \E e \in BOOLEAN : Put(r, e)
                      \/ Lock(r) \/ Serve(r) \/ Leave(r)
    \/ \E f \in Files[service] : Edit(f)
    \/ ServiceControl
    \/ Exit

Spec == Init /\ [][Next]_vars

(* A handler runs until Set returns: every systemctl it waits for has a    *)
(* timeout.  Go's mutex is fair to those who wait for it.                  *)
FairSpec ==
    Spec /\ \A r \in Req : WF_vars(Serve(r)) /\ SF_vars(Lock(r))

-----------------------------------------------------------------------------
(* The variables have their types. *)
TypeOK ==
    /\ service \in Service
    /\ file \in Config /\ backup \in Config /\ good \in Config
    /\ running \in Config \union {Stopped}
    /\ mu \in Req \union {None}
    /\ pc \in [Req -> {"idle", "lock", "read", "backup", "write", "restart",
                        "check", "undo", "again"}]
    /\ enabled \in [Req -> BOOLEAN]
    /\ original \in [Req -> Config]
    /\ gone \subseteq Req
    /\ edits \in 0 .. MaxEdits
    /\ acked \in State
    /\ mishap \in {"none", "cut short", "edited"}
    /\ dirty \in BOOLEAN
    /\ skipped \in BOOLEAN

Quiet == ~HalfWay

(* A toggle that ends in an error leaves the file as it found it, whatever *)
(* other requests did meanwhile: only a panel that exits half way, a       *)
(* rollback that cannot be written, or a hand edit during the toggle leave *)
(* anything else (Set under mu, with its rollback).                        *)
FailedToggleUndone == Quiet /\ mishap = "none" => file = good

(* Even then, unless somebody edited the file during the toggle, what it   *)
(* replaced is on disk, in the file or in the newest backup (Set writes    *)
(* the backup before the file).                                            *)
Recoverable == mishap # "edited" => good \in {file, backup}

(* How a WireGuard file treats forwarded IPv6: every active line inserts   *)
(* its rule before those inserted already.                                 *)
Policy(f) ==
    LET last == SelectLastInSeq(f, LAMBDA l :
                                   l.on /\ l.kind \in {"upAccept", "upReject"})
    IN  IF last = 0 THEN "unknown" ELSE OnOff(f[last].kind = "upAccept")

(* No two lines of one marker, as in any file the installers write: the    *)
(* editor rewrites the first of them, and for wg the last counts.          *)
OneEach(f) ==
    \A i, j \in DOMAIN f :
        f[i].kind = f[j].kind /\ f[i].kind \in Marker => i = j

(* The state an administrator was last told stays in force, through later  *)
(* toggles that fail: the file still reads that way (State), and to wg it  *)
(* means that.                                                             *)
AckedInForce ==
    Quiet /\ acked # "unknown" =>
        /\ StateOf(file) = acked
        /\ service = "wireguard" => Policy(file) = acked

Kept(l) == IF l.kind \in Managed THEN <<>> ELSE <<l>>
Rest(f) == FlattenSeq([i \in DOMAIN f |-> Kept(f[i])])

(* At no moment does a toggle lose, move or add a line that is not one of  *)
(* its own: keys and peers are as the administrator left them.             *)
AdminLinesKept == mishap # "edited" => Rest(file) = Rest(good)

(* Between toggles the unit, if it runs, runs with the file on disk, also  *)
(* when systemctl failed at the toggle and the old file was put back:      *)
(* unless the file was changed otherwise, or the restart of the rollback   *)
(* did not reach the unit either (Set: "restart again so the running       *)
(* service matches the file on disk").                                     *)
RunsWhatIsOnDisk ==
    Quiet /\ ~dirty /\ ~skipped => running \in {file, Stopped}

(* Every request is answered: none waits for ever for the mutex.           *)
RequestAnswered == \A r \in Req : pc[r] = "lock" ~> pc[r] = "idle"
=============================================================================
