------------------------------ MODULE Settings ------------------------------
(***************************************************************************)
(* The settings of the panel and the admin's sessions: the save handler    *)
(* and the login of internal/handler/pages.go, the session store of        *)
(* internal/auth/auth.go, the settings table of internal/db/db.go and the  *)
(* part of main.go that puts the listening address into force.             *)
(*                                                                         *)
(* A save is one request: it reads the settings, writes the fields of its  *)
(* form one statement at a time, and, if it changed the address, lets the  *)
(* process exit half a second later so that systemd starts it again.       *)
(* Other requests, crashes and failing statements come in between.         *)
(*                                                                         *)
(* One key stands for the four OpenVPN paths and one for the three         *)
(* WireGuard settings.  A password stands for its hash: hashes are only    *)
(* ever compared with passwords.                                           *)
(***************************************************************************)
EXTENDS Integers

CONSTANTS
    Value,        \* what a field may hold
    Empty,        \* the empty value
    DefaultAddr,  \* the address listened on when none is set
    Defaults,     \* the settings Migrate inserts
    Form,         \* the forms that are submitted
    Request,      \* saves that may be in progress at once
    Token,        \* bound: session tokens alive at once
    NoAddr, NoToken, NoForm, NoTable

\* The keys, in the order in which a save writes them.
Rank == [addr |-> 1, admin_user |-> 2, poll_interval |-> 3,
         openvpn_status_log |-> 4, wireguard_conf |-> 5, admin_pass |-> 6]

Key == DOMAIN Rank

\* settingsSections, and the whole form of the legacy target.
General   == {"addr", "admin_user", "poll_interval"}
OpenVPN   == {"openvpn_status_log"}
WireGuard == {"wireguard_conf"}
Owned     == [general |-> General, openvpn |-> OpenVPN, wireguard |-> WireGuard,
              all |-> General \cup OpenVPN \cup WireGuard]

\* A form is posted to a section and carries some fields, its own or not.
Forms == UNION {[section : DOMAIN Owned, body : [fields -> Value]] : fields \in SUBSET Key}

ASSUME ValueAssumption ==
    /\ Empty \in Value /\ DefaultAddr \in Value \ {Empty}
    /\ Defaults \in [Key -> Value]
ASSUME FormAssumption == Form \subseteq Forms

ASSUME NoneAssumption ==
    /\ NoAddr \notin Value /\ NoToken \notin Token
    /\ NoForm \notin Form /\ NoTable \notin [Key -> Value]

VARIABLES
    table,     \* the settings table
    running,   \* the address the panel listens on
    exiting,   \* an exit is scheduled
    \* the saves in progress
    form,      \* what is submitted
    todo,      \* the keys still to be written
    current,   \* the address read at the beginning
    changed,   \* addrChanged
    \* the session store, and the browser
    live,      \* tokens that are valid
    expired,   \* tokens past their time, not evicted yet
    jar,       \* the token the admin's browser presents
    \* history
    before,    \* the table when the save began, if it is the only one
    unserved   \* a save ended early after it had changed the address

saves    == <<form, todo, current, changed, before>>
sessions == <<live, expired, jar>>
vars     == <<table, running, exiting, saves, sessions, unserved>>

Up == running # NoAddr

Served(v) == IF v = Empty THEN DefaultAddr ELSE v

Idle(r)    == form[r] = NoForm
Busy       == {r \in Request : ~Idle(r)}

-----------------------------------------------------------------------------
Init ==
    /\ table = Defaults
    /\ running = NoAddr /\ exiting = FALSE
    /\ form = [r \in Request |-> NoForm]
    /\ todo = [r \in Request |-> {}]
    /\ current = [r \in Request |-> NoAddr]
    /\ changed = [r \in Request |-> FALSE]
    /\ live = {} /\ expired = {} /\ jar = NoToken
    /\ before = [r \in Request |-> NoTable]
    /\ unserved = FALSE

-----------------------------------------------------------------------------
(***************************************************************************)
(* The process: main and run.                                              *)
(***************************************************************************)

\* config.LoadFromDB, once; then the panel listens.
Start ==
    /\ ~Up
    /\ running' = Served(table["addr"])
    /\ UNCHANGED <<table, exiting, saves, sessions, unserved>>

NoSaves ==
    /\ form' = [r \in Request |-> NoForm]
    /\ todo' = [r \in Request |-> {}]
    /\ current' = [r \in Request |-> NoAddr]
    /\ changed' = [r \in Request |-> FALSE]
    /\ before' = [r \in Request |-> NoTable]

\* A mutated form: the tokens are kept, as a store on disk would keep them.
EndsKeepingTokens ==
    /\ running' = NoAddr /\ exiting' = FALSE
    /\ NoSaves
    /\ unserved' = FALSE
    /\ UNCHANGED <<table, sessions>>

\* What the process loses: its requests, its sessions, its timers.
Ends ==
    /\ running' = NoAddr /\ exiting' = FALSE
    /\ NoSaves
    /\ live' = {} /\ expired' = {}
    /\ unserved' = FALSE
    /\ UNCHANGED <<table, jar>>

Crash == Up /\ Ends

Exit == exiting /\ Ends

-----------------------------------------------------------------------------
(***************************************************************************)
(* Sessions.                                                               *)
(***************************************************************************)

\* The credentials match what the table says: the old session of the
\* browser dies with the login, a new one is made.
Login ==
    /\ Up
    /\ \E t \in Token \ (live \cup expired \cup {jar}) :
        /\ live' = (live \ {jar}) \cup {t}
        /\ expired' = expired \ {jar}
        /\ jar' = t
    /\ UNCHANGED <<table, running, exiting, saves, unserved>>

Logout ==
    /\ Up /\ jar # NoToken
    /\ live' = live \ {jar} /\ expired' = expired \ {jar}
    /\ jar' = NoToken
    /\ UNCHANGED <<table, running, exiting, saves, unserved>>

\* The browser loses its cookie without telling the panel.
CookieLost ==
    /\ jar # NoToken
    /\ jar' = NoToken
    /\ UNCHANGED <<table, running, exiting, saves, live, expired, unserved>>

Expire(t) ==
    /\ t \in live
    /\ live' = live \ {t} /\ expired' = expired \cup {t}
    /\ UNCHANGED <<table, running, exiting, saves, jar, unserved>>

\* A mutated form: expired tokens wait to be presented again.
SweepNone == expired

Swept == {}

\* sweepLoop evicts what has expired.
Sweep ==
    /\ expired # {}
    /\ expired' = expired \cap Swept
    /\ UNCHANGED <<table, running, exiting, saves, live, jar, unserved>>

\* lookup evicts an expired token that is presented.
Refuse ==
    /\ Up /\ jar \in expired
    /\ expired' = expired \ {jar}
    /\ UNCHANGED <<table, running, exiting, saves, live, jar, unserved>>

-----------------------------------------------------------------------------
(***************************************************************************)
(* saveSettings.                                                           *)
(***************************************************************************)

\* A mutated form: a field of another section is written all the same.
AnyField(f) == Owned.all \cap DOMAIN f.body

\* The fields of its section the form carries.
OwnFields(f) == Owned[f.section] \cap DOMAIN f.body

\* A password is taken from the page that has the user's name, unless empty.
NewPassword(f) ==
    /\ "admin_pass" \in DOMAIN f.body /\ f.body["admin_pass"] # Empty
    /\ "admin_user" \in Owned[f.section]

Written(f) == OwnFields(f) \cup {k \in {"admin_pass"} : NewPassword(f)}

\* AuthMiddleware lets the request in, and it reads the settings.
\* (History: of two saves that overlap neither is alone.)
Submit(r, f) ==
    /\ Up /\ Idle(r) /\ jar \in live
    /\ form' = [form EXCEPT ![r] = f]
    /\ todo' = [todo EXCEPT ![r] = Written(f)]
    /\ current' = [current EXCEPT ![r] = table["addr"]]
    /\ before' = IF Busy = {} THEN [before EXCEPT ![r] = table]
                 ELSE [s \in Request |-> NoTable]
    /\ UNCHANGED <<table, running, exiting, changed, sessions, unserved>>

\* A mutated form: an address left empty is taken for one left alone.
ChangesFilled(r) == form[r].body["addr"] \notin {Empty, current[r]}

ChangesAddr(r) == form[r].body["addr"] # current[r]

\* SaveSetting of the next key.
WriteNext(r) ==
    /\ \E k \in todo[r] :
        /\ \A j \in todo[r] : Rank[k] <= Rank[j]
        /\ table' = [table EXCEPT ![k] = form[r].body[k]]
        /\ changed' = [changed EXCEPT ![r] = @ \/ (k = "addr" /\ ChangesAddr(r))]
        /\ todo' = [todo EXCEPT ![r] = @ \ {k}]
    /\ UNCHANGED <<running, exiting, form, current, before, sessions, unserved>>

Done(r) ==
    /\ form' = [form EXCEPT ![r] = NoForm]
    /\ todo' = [todo EXCEPT ![r] = {}]
    /\ current' = [current EXCEPT ![r] = NoAddr]
    /\ changed' = [changed EXCEPT ![r] = FALSE]
    /\ before' = [before EXCEPT ![r] = NoTable]

\* A statement fails, the password cannot be hashed or the browser hangs
\* up: the handler returns, and what was written stays.
SaveFails(r) ==
    /\ todo[r] # {}
    /\ Done(r)
    /\ unserved' = (unserved \/ changed[r])
    /\ UNCHANGED <<table, running, exiting, sessions>>

\* A mutated form: the restart is left to the next save.
NoExit(r) == UNCHANGED exiting

ScheduleExit(r) == exiting' = (exiting \/ changed[r])

\* respondSettingsSaved.
Acknowledge(r) ==
    /\ ~Idle(r) /\ todo[r] = {}
    /\ Done(r)
    /\ ScheduleExit(r)
    /\ UNCHANGED <<table, running, sessions, unserved>>

-----------------------------------------------------------------------------
Process == Start \/ Crash \/ Exit

Session ==
    \/ Login \/ Logout \/ CookieLost
    \/ \E t \in Token : Expire(t)
    \/ Sweep \/ Refuse

Progress(r) == WriteNext(r) \/ SaveFails(r) \/ Acknowledge(r)

Save ==
    \E r \in Request : \/ \E f \in Form : Submit(r, f)
                       \/ Progress(r)

Next == Process \/ Session \/ Save

Spec == Init /\ [][Next]_vars

(***************************************************************************)
(* A handler runs to its end, the scheduled exit happens, systemd starts   *)
(* the panel again, time passes and the sweep's ticker fires.              *)
(***************************************************************************)
Fairness ==
    /\ WF_vars(Start) /\ WF_vars(Exit)
    /\ \A r \in Request : WF_vars(Progress(r))
    /\ \A t \in Token : WF_vars(Expire(t))
    /\ WF_vars(Sweep)

FairSpec == Spec /\ Fairness

-----------------------------------------------------------------------------
(***************************************************************************)
(* Properties.                                                             *)
(***************************************************************************)

\* Type invariant of the table, the process, the saves and the sessions.
TypeOK ==
    /\ table \in [Key -> Value]
    /\ running \in (Value \ {Empty}) \cup {NoAddr} /\ exiting \in BOOLEAN
    /\ form \in [Request -> Form \cup {NoForm}]
    /\ todo \in [Request -> SUBSET Key]
    /\ current \in [Request -> Value \cup {NoAddr}]
    /\ changed \in [Request -> BOOLEAN]
    /\ live \subseteq Token /\ expired \subseteq Token /\ live \cap expired = {}
    /\ jar \in Token \cup {NoToken}
    /\ unserved \in BOOLEAN
    /\ ~Up => Busy = {} /\ live \cup expired = {} /\ ~exiting /\ ~unserved

\* With no save in progress and no exit to come, the panel listens where
\* the settings say, however saves overlapped, crossed a restart or wrote
\* the old address back; but for a save that ended early, whose change
\* waits for the next restart (saveSettings: "A listening-address change
\* requires a restart").
AddrInForce ==
    Up /\ Busy = {} /\ ~exiting /\ ~unserved => running = Served(table["addr"])

Overlaid(old, f) ==
    [k \in Key |->
        IF /\ k \in DOMAIN f.body
           /\ IF k = "admin_pass" THEN f.body[k] # Empty /\ f.section \in {"general", "all"}
                                 ELSE k \in Owned[f.section]
        THEN f.body[k] ELSE old[k]]

\* A save that was acknowledged, and that no other overlapped, leaves
\* exactly the fields of its form that its section owns changed: nothing
\* blanked, nothing smuggled in, an empty password left as it was (the two
\* rules in the comment of saveSettings).
SavesExactlyTheForm ==
    [][\A r \in Request :
          Acknowledge(r) /\ before[r] # NoTable => table = Overlaid(before[r], form[r])]_vars

\* An address that stays in the settings ends up being the one listened
\* on, for good but for restarts (the exit after the response, and the
\* start by systemd that follows).
AddrServed ==
    \A v \in Value :
        <>[](table["addr"] = v /\ ~unserved)
            => /\ <>[](running \in {Served(v), NoAddr})
               /\ []<>(running = Served(v))

\* A token no browser holds any more does not stay in the store (sweepLoop:
\* "so the session map does not grow unbounded with tokens that are never
\* presented again").
OrphansEvicted ==
    \A t \in Token : <>[](jar # t) => <>[](t \notin live \cup expired)
=============================================================================
