--------------------------- MODULE SettingsProofs ---------------------------
(***************************************************************************)
(* Theorems about Settings, for any values, forms, requests and tokens.    *)
(***************************************************************************)
EXTENDS Settings, TLAPS

LEMMA AddrIsAKey == "addr" \in Key
  BY DEF Key, Rank

\* What a form is: a known section, and fields among the keys.
LEMMA FormFields ==
    ASSUME NEW f \in Form
    PROVE  /\ f.section \in DOMAIN Owned
           /\ DOMAIN f.body \subseteq Key
           /\ \A k \in DOMAIN f.body : f.body[k] \in Value
<1>1. PICK fields \in SUBSET Key : f \in [section : DOMAIN Owned, body : [fields -> Value]]
  BY FormAssumption DEF Forms
<1> QED
  BY <1>1

\* What a save writes: keys the form carries, whichever its section.
LEMMA WrittenKeys ==
    ASSUME NEW f \in Form
    PROVE  Written(f) \subseteq Key /\ Written(f) \subseteq DOMAIN f.body
<1>1. DOMAIN f.body \subseteq Key
  BY FormFields
<1> QED
  BY <1>1 DEF Written, OwnFields, NewPassword

-----------------------------------------------------------------------------
(***************************************************************************)
(* Type correctness.  Besides TypeOK: what is still to be written is part  *)
(* of what the form asks for, and an idle request holds nothing.           *)
(***************************************************************************)
SaveOK ==
    /\ before \in [Request -> [Key -> Value] \cup {NoTable}]
    /\ \A r \in Request :
        /\ ~Idle(r) => todo[r] \subseteq Written(form[r]) /\ current[r] \in Value
        /\ Idle(r) => todo[r] = {} /\ ~changed[r] /\ before[r] = NoTable

WellFormed == TypeOK /\ SaveOK

LEMMA WellFormedInit == Init => WellFormed
  BY ValueAssumption DEF Init, WellFormed, TypeOK, SaveOK, Idle, Up, Busy

LEMMA NoneOfTheForms == \A f \in Form : f # NoForm
  BY NoneAssumption

LEMMA WellFormedStep == WellFormed /\ [Next]_vars => WellFormed'
<1> SUFFICES ASSUME WellFormed, [Next]_vars PROVE WellFormed'
  OBVIOUS
<1> USE DEF WellFormed, TypeOK, SaveOK, saves, sessions, Idle, Up, Busy
<1>1. CASE Start
  <2>1. running' \in Value \ {Empty} /\ running' # NoAddr
    BY <1>1, ValueAssumption, NoneAssumption, AddrIsAKey DEF Start, Served
  <2> QED
    BY <1>1, <2>1 DEF Start
<1>2. CASE Crash \/ Exit
  BY <1>2 DEF Crash, Exit, Ends, NoSaves
<1>3. CASE Session
  <2> USE NoneAssumption
  <2>1. CASE Login
    BY <2>1 DEF Login
  <2>2. CASE Logout
    BY <2>2 DEF Logout
  <2>3. CASE CookieLost
    BY <2>3 DEF CookieLost
  <2>4. ASSUME NEW t \in Token, Expire(t) PROVE WellFormed'
    BY <2>4 DEF Expire
  <2>5. CASE Sweep
    BY <2>5 DEF Sweep, Swept
  <2>6. CASE Refuse
    BY <2>6 DEF Refuse
  <2> QED
    BY <1>3, <2>1, <2>2, <2>3, <2>4, <2>5, <2>6 DEF Session
<1>4. ASSUME NEW r \in Request, NEW f \in Form, Submit(r, f) PROVE WellFormed'
  <2>1. before' \in [Request -> [Key -> Value] \cup {NoTable}]
    BY <1>4 DEF Submit
  <2>2. /\ form' = [form EXCEPT ![r] = f]
        /\ todo' = [todo EXCEPT ![r] = Written(f)]
        /\ current' = [current EXCEPT ![r] = table["addr"]]
        /\ UNCHANGED <<table, running, exiting, changed, live, expired, jar, unserved>>
        /\ running # NoAddr
    BY <1>4 DEF Submit
  <2>3. table["addr"] \in Value
    BY AddrIsAKey
  <2>4. Written(f) \subseteq Key
    BY WrittenKeys
  <2>5. f # NoForm
    BY NoneOfTheForms
  <2>6. ASSUME NEW s \in Request, form'[s] = NoForm PROVE before'[s] = NoTable
    <3>1. s # r /\ form[s] = NoForm /\ before[s] = NoTable
      BY <2>2, <2>5, <2>6
    <3> QED
      BY <1>4, <3>1 DEF Submit
  <2>7. SaveOK'
    BY <2>1, <2>2, <2>3, <2>5, <2>6
  <2>8. TypeOK'
    BY <2>2, <2>3, <2>4
  <2> QED
    BY <2>7, <2>8
<1>5. ASSUME NEW r \in Request, WriteNext(r) PROVE WellFormed'
  <2>1. PICK k \in todo[r] :
           /\ table' = [table EXCEPT ![k] = form[r].body[k]]
           /\ changed' = [changed EXCEPT ![r] = @ \/ (k = "addr" /\ ChangesAddr(r))]
           /\ todo' = [todo EXCEPT ![r] = @ \ {k}]
    BY <1>5 DEF WriteNext
  <2>2. UNCHANGED <<running, exiting, form, current, before, live, expired, jar, unserved>>
    BY <1>5 DEF WriteNext
  <2>3. form[r] # NoForm /\ form[r] \in Form
    BY <2>1
  <2>4. k \in Key /\ form[r].body[k] \in Value
    BY <2>1, <2>3, WrittenKeys, FormFields
  <2>5. table' \in [Key -> Value]
    BY <2>1, <2>4
  <2>6. changed' \in [Request -> BOOLEAN] /\ \A s \in Request : s # r => changed'[s] = changed[s]
    <3>1. ASSUME NEW b \in BOOLEAN
          PROVE  [changed EXCEPT ![r] = b] \in [Request -> BOOLEAN]
      OBVIOUS
    <3>2. (changed[r] \/ (k = "addr" /\ ChangesAddr(r))) \in BOOLEAN
      BY DEF ChangesAddr
    <3> QED
      BY <2>1, <3>1, <3>2
  <2>7. SaveOK'
    BY <2>1, <2>2, <2>3, <2>6
  <2>8. TypeOK'
    BY <2>1, <2>2, <2>3, <2>5, <2>6
  <2> QED
    BY <2>7, <2>8
<1>6. ASSUME NEW r \in Request, SaveFails(r) PROVE WellFormed'
  BY <1>6 DEF SaveFails, Done
<1>7. ASSUME NEW r \in Request, Acknowledge(r) PROVE WellFormed'
  BY <1>7 DEF Acknowledge, Done, ScheduleExit
<1>8. CASE UNCHANGED vars
  BY <1>8 DEF vars
<1> QED
  BY <1>1, <1>2, <1>3, <1>4, <1>5, <1>6, <1>7, <1>8 DEF Next, Process, Save, Progress

\* Every reachable state of the settings, the saves and the session store
\* is well-formed; a process that has ended leaves no save and no token.
THEOREM SettingsTypeCorrect == Spec => []TypeOK
<1>1. WellFormed => TypeOK
  BY DEF WellFormed
<1> QED
  BY <1>1, WellFormedInit, WellFormedStep, PTL DEF Spec

-----------------------------------------------------------------------------
(***************************************************************************)
(* The address.  AddrInForce speaks of quiet states only.  What carries it *)
(* from one to the next: while no save is about to bring an exit about,    *)
(* the panel listens where the table says, and every save in progress read *)
(* an address that is in force, so that writing it back changes nothing.   *)
(***************************************************************************)
Settled == Up /\ ~exiting /\ ~unserved /\ \A r \in Request : ~changed[r]

AddrInv ==
    Settled => /\ running = Served(table["addr"])
               /\ \A r \in Request : ~Idle(r) => running = Served(current[r])

LEMMA AddrInvStep == WellFormed /\ AddrInv /\ [Next]_vars => AddrInv'
<1> SUFFICES ASSUME WellFormed, AddrInv, [Next]_vars PROVE AddrInv'
  OBVIOUS
<1> USE DEF WellFormed, TypeOK, AddrInv, Settled, saves, sessions, Idle, Up, Busy
<1>1. CASE Start
  BY <1>1 DEF Start
<1>2. CASE Crash \/ Exit
  BY <1>2 DEF Crash, Exit, Ends
<1>3. CASE Session
  BY <1>3 DEF Session, Login, Logout, CookieLost, Expire, Sweep, Refuse, Served
<1>4. ASSUME NEW r \in Request, NEW f \in Form, Submit(r, f) PROVE AddrInv'
  BY <1>4 DEF Submit, Served
<1>5. ASSUME NEW r \in Request, WriteNext(r) PROVE AddrInv'
  <2>1. PICK k \in todo[r] :
           /\ table' = [table EXCEPT ![k] = form[r].body[k]]
           /\ changed' = [changed EXCEPT ![r] = @ \/ (k = "addr" /\ ChangesAddr(r))]
    BY <1>5 DEF WriteNext
  <2>2. UNCHANGED <<running, exiting, form, current, unserved>>
    BY <1>5 DEF WriteNext
  <2>3. SUFFICES ASSUME Settled' PROVE AddrInv'
    OBVIOUS
  <2>4. \A s \in Request : ~changed[s]
    BY <2>1, <2>3
  <2>5. Settled
    BY <2>2, <2>3, <2>4
  <2>6. form[r] # NoForm
    BY <2>1 DEF SaveOK
  <2>7. running = Served(current[r])
    BY <2>5, <2>6
  <2>8. Served(table'["addr"]) = Served(table["addr"])
    <3>1. CASE k # "addr"
      BY <2>1, <3>1
    <3>2. CASE k = "addr"
      <4>1. ~ChangesAddr(r)
        BY <2>1, <2>3, <3>2
      <4>2. form[r].body["addr"] = current[r]
        BY <4>1 DEF ChangesAddr
      <4>3. table'["addr"] = current[r]
        BY <2>1, <3>2, <4>2, AddrIsAKey
      <4> QED
        BY <2>5, <2>7, <4>3
    <3> QED
      BY <3>1, <3>2
  <2> QED
    BY <2>2, <2>5, <2>8 DEF Served
<1>6. ASSUME NEW r \in Request, SaveFails(r) PROVE AddrInv'
  BY <1>6 DEF SaveFails, Done, Served
<1>7. ASSUME NEW r \in Request, Acknowledge(r) PROVE AddrInv'
  BY <1>7 DEF Acknowledge, Done, ScheduleExit, Served
<1>8. CASE UNCHANGED vars
  BY <1>8 DEF vars, Served
<1> QED
  BY <1>1, <1>2, <1>3, <1>4, <1>5, <1>6, <1>7, <1>8 DEF Next, Process, Save, Progress

\* With no save in progress and no exit to come, the panel listens where
\* the settings say, however saves overlapped or crossed a restart.
THEOREM AddressInForce == Spec => []AddrInForce
<1>1. Init => AddrInv
  BY DEF Init, AddrInv, Settled, Up
<1>2. WellFormed /\ AddrInv => AddrInForce
  BY DEF WellFormed, SaveOK, AddrInv, Settled, AddrInForce, Idle, Busy
<1> QED
  BY <1>1, <1>2, WellFormedInit, WellFormedStep, AddrInvStep, PTL DEF Spec

-----------------------------------------------------------------------------
(***************************************************************************)
(* The save.  A save that no other overlaps is, at each moment, the table  *)
(* it began with, overlaid with the fields it has already written.         *)
(***************************************************************************)
Upto(r) ==
    [k \in Key |-> IF k \in Written(form[r]) \ todo[r]
                   THEN form[r].body[k] ELSE before[r][k]]

AloneInv ==
    \A r \in Request :
        before[r] # NoTable => Busy = {r} /\ table = Upto(r)

LEMMA AloneInvStep == WellFormed /\ AloneInv /\ [Next]_vars => AloneInv'
<1> SUFFICES ASSUME WellFormed, AloneInv, [Next]_vars,
                    NEW r \in Request, before'[r] # NoTable
             PROVE  Busy' = {r} /\ table' = Upto(r)'
  BY DEF AloneInv
<1> USE DEF WellFormed, TypeOK, SaveOK, AloneInv, saves, sessions, Idle, Busy
<1>1. CASE Start
  BY <1>1 DEF Start, Upto
<1>2. CASE Crash \/ Exit
  BY <1>2 DEF Crash, Exit, Ends, NoSaves
<1>3. CASE Session
  BY <1>3 DEF Session, Login, Logout, CookieLost, Expire, Sweep, Refuse, Upto
<1>4. ASSUME NEW s \in Request, NEW f \in Form, Submit(s, f)
      PROVE  Busy' = {r} /\ table' = Upto(r)'
  <2>1. Busy = {} /\ before' = [before EXCEPT ![s] = table]
    BY <1>4 DEF Submit
  <2>2. r = s
    BY <2>1
  <2>3. /\ form' = [form EXCEPT ![r] = f] /\ todo' = [todo EXCEPT ![r] = Written(f)]
        /\ table' = table
    BY <1>4, <2>2 DEF Submit
  <2>4. Busy' = {r}
    BY <2>1, <2>3, NoneOfTheForms
  <2>5. Written(form'[r]) \ todo'[r] = {} /\ before'[r] = table
    BY <2>1, <2>2, <2>3
  <2>6. Upto(r)' = [k \in Key |-> table[k]]
    BY <2>5 DEF Upto
  <2> QED
    BY <2>3, <2>4, <2>6
<1>5. ASSUME NEW s \in Request, WriteNext(s)
      PROVE  Busy' = {r} /\ table' = Upto(r)'
  <2>1. PICK k \in todo[s] :
           /\ table' = [table EXCEPT ![k] = form[s].body[k]]
           /\ todo' = [todo EXCEPT ![s] = @ \ {k}]
    BY <1>5 DEF WriteNext
  <2>2. UNCHANGED <<form, before>>
    BY <1>5 DEF WriteNext
  <2>3. Busy = {r} /\ table = Upto(r)
    BY <2>2
  <2>4. r = s
    BY <2>1, <2>3
  <2>5. Written(form[r]) \ todo'[r] = (Written(form[r]) \ todo[r]) \cup {k}
    BY <2>1, <2>3, <2>4
  <2>6. ASSUME NEW j \in Key PROVE table'[j] = Upto(r)'[j]
    <3>1. Upto(r)'[j] = IF j \in (Written(form[r]) \ todo[r]) \cup {k}
                        THEN form[r].body[j] ELSE before[r][j]
      BY <2>2, <2>5 DEF Upto
    <3>2. table[j] = IF j \in Written(form[r]) \ todo[r]
                     THEN form[r].body[j] ELSE before[r][j]
      BY <2>3 DEF Upto
    <3>3. table'[j] = IF j = k THEN form[r].body[k] ELSE table[j]
      BY <2>1, <2>4
    <3> QED
      BY <3>1, <3>2, <3>3
  <2> QED
    BY <2>1, <2>2, <2>3, <2>6 DEF Upto
<1>6. ASSUME NEW s \in Request, Done(s), UNCHANGED table
      PROVE  Busy' = {r} /\ table' = Upto(r)'
  <2>1. r # s /\ before[r] # NoTable
    BY <1>6 DEF Done
  <2> QED
    BY <1>6, <2>1 DEF Done, Upto
<1>7. CASE UNCHANGED vars
  BY <1>7 DEF vars, Upto
<1> QED
  BY <1>1, <1>2, <1>3, <1>4, <1>5, <1>6, <1>7
     DEF Next, Process, Save, Progress, SaveFails, Acknowledge

\* What a whole form asks for is what it was written for.
LEMMA OverlaidWritten ==
    ASSUME NEW f \in Form, NEW old, NEW k \in Key
    PROVE  Overlaid(old, f)[k] = IF k \in Written(f) THEN f.body[k] ELSE old[k]
<1>1. f.section \in {"general", "openvpn", "wireguard", "all"}
  BY FormFields DEF Owned
<1>2. "admin_pass" \notin Owned[f.section]
  BY <1>1 DEF Owned, General, OpenVPN, WireGuard
<1>3. "admin_user" \in Owned[f.section] <=> f.section \in {"general", "all"}
  BY <1>1 DEF Owned, General, OpenVPN, WireGuard
<1> QED
  BY <1>2, <1>3 DEF Overlaid, Written, OwnFields, NewPassword

\* A save that was acknowledged, and that no other overlapped, leaves
\* exactly the fields of its form that its section owns changed.
THEOREM ExactSaves == Spec => SavesExactlyTheForm
<1>1. Init => AloneInv
  BY DEF Init, AloneInv
<1>2. WellFormed /\ AloneInv /\ [Next]_vars =>
        [\A r \in Request :
            Acknowledge(r) /\ before[r] # NoTable
                => table = Overlaid(before[r], form[r])]_vars
  <2> SUFFICES ASSUME WellFormed, AloneInv, NEW r \in Request,
                      Acknowledge(r), before[r] # NoTable
               PROVE  table = Overlaid(before[r], form[r])
    OBVIOUS
  <2>1. table = Upto(r) /\ todo[r] = {} /\ form[r] \in Form
    BY DEF AloneInv, Acknowledge, Idle, WellFormed, TypeOK
  <2>2. \A k \in Key : Upto(r)[k] = Overlaid(before[r], form[r])[k]
    BY <2>1, OverlaidWritten DEF Upto
  <2> QED
    BY <2>1, <2>2 DEF Upto, Overlaid
<1> QED
  BY <1>1, <1>2, WellFormedInit, WellFormedStep, AloneInvStep, PTL
     DEF Spec, SavesExactlyTheForm
=============================================================================
