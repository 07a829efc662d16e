--------------------------- MODULE WGPollerProofs ---------------------------
(***************************************************************************)
(* Proofs about WGPoller, for any peers, names, naming and bounds.         *)
(***************************************************************************)
EXTENDS WGPoller, TLAPS

(***************************************************************************)
(* The arithmetic of increments.                                           *)
(***************************************************************************)

\* An increment is a natural number, and never more than the counter
\* (deltas in dump.go).
LEMMA DeltaBounded ==
    ASSUME NEW last \in Counter, NEW cur \in Nat
    PROVE  Delta(last, cur) \in Nat /\ Delta(last, cur) <= cur
  BY DEF Delta, Counter, NoBase

\* One more byte on the counter is at most one more byte to apply.
LEMMA DeltaStep ==
    ASSUME NEW last \in Counter, NEW cur \in Nat
    PROVE  Delta(last, cur + 1) <= Delta(last, cur) + 1
  BY DEF Delta, Counter, NoBase

\* Nothing is due at the baseline itself, nor right after a reset.
LEMMA DeltaZero ==
    /\ \A cur \in Nat : Delta(cur, cur) = 0
    /\ \A last \in Counter : Delta(last, 0) = 0
  BY DEF Delta, Counter, NoBase

-----------------------------------------------------------------------------
(***************************************************************************)
(* Type correctness.                                                       *)
(***************************************************************************)

\* Every reachable state of the poller, its store and its environment is
\* well-formed; in particular no session outlives its client row.
THEOREM TypeCorrect == Spec => []TypeOK
<1> USE NamingAssumption, ThresholdAssumption, FaultAssumption
<1>1. Init => TypeOK
  BY DEF Init, TypeOK, Counter, NoBase
<1>2. ASSUME TypeOK, [Next]_vars PROVE TypeOK'
  <2> USE <1>2 DEF TypeOK, kernel, store, pass, memory
  <2>1. ASSUME NEW k \in Peer, Transfer(k) \/ Handshake(k) \/ HandshakeExpires(k)
        PROVE  TypeOK'
    BY <2>1 DEF Transfer, Handshake, HandshakeExpires, Drop
  <2>2. ASSUME NEW k \in Peer, AddPeer(k) \/ RemovePeer(k) PROVE TypeOK'
    BY <2>2 DEF AddPeer, RemovePeer, Drop
  <2>3. ASSUME NEW k \in Peer, RegistryDrops(k) \/ RegistryGains(k) PROVE TypeOK'
    BY <2>3 DEF RegistryDrops, RegistryGains
  <2>4. ASSUME NEW n \in Name, UpsertKnownClient(n) PROVE TypeOK'
    BY <2>4 DEF UpsertKnownClient
  <2>5. ASSUME NEW n \in Name, Reap(n) PROVE TypeOK'
    BY <2>5 DEF Reap, DeleteClientData, DeleteSessions, Counter
  <2>6. ASSUME Start PROVE TypeOK'
    BY <2>6 DEF Start, Counter
  <2>7. ASSUME Crash PROVE TypeOK'
    BY <2>7 DEF Crash, Counter
  <2>8. ASSUME DumpSucceeds PROVE TypeOK'
    BY <2>8 DEF DumpSucceeds
  <2>9. ASSUME DumpFails \/ DeclareDown PROVE TypeOK'
    BY <2>9 DEF DumpFails, DeclareDown, NextFails, CloseAllWGSessions, ForgetOnline
  <2>10. ASSUME NEW k \in Peer, SkipUnknown(k) \/ Lookup(k) PROVE TypeOK'
    BY <2>10 DEF SkipUnknown, Lookup
  <2>11. ASSUME NEW k \in Peer, PeerOnline(k) PROVE TypeOK'
    <3>1. Due(k) \in Nat
      BY DeltaBounded DEF Due
    <3>2. closed' \subseteq clients'
      BY <2>11 DEF PeerOnline, ApplyWGPeerDelta, ClosedAfterOpen
    <3> QED
      BY <2>11, <3>1, <3>2 DEF PeerOnline, Visit, MarkOnline, ApplyWGPeerDelta,
           Credit, UpsertPeerState, Remember, Counter
  <2>12. ASSUME NEW k \in Peer, PeerOnlineFails(k) \/ PeerWentOfflineFails(k)
         PROVE  TypeOK'
    BY <2>12 DEF PeerOnlineFails, PeerWentOfflineFails, Visit, MarkOnline,
         RetryNextPoll, RolledBack
  <2>13. ASSUME NEW k \in Peer, PeerWentOffline(k) PROVE TypeOK'
    <3>1. Due(k) \in Nat
      BY DeltaBounded DEF Due
    <3> QED
      BY <2>13, <3>1 DEF PeerWentOffline, Visit, CloseWGPeerSession, FoldFinalDelta,
           Credit, Drop, UpsertPeerState, Remember, Counter
  <2>14. ASSUME NEW k \in Peer, FirstSighting(k) PROVE TypeOK'
    BY <2>14 DEF FirstSighting, Visit, SaveWGPeerState, Drop, UpsertPeerState,
         Remember, RolledBack, Counter
  <2>15. ASSUME NEW k \in Peer, TrailingBytes(k) PROVE TypeOK'
    <3>1. Due(k) \in Nat
      BY DeltaBounded DEF Due
    <3> QED
      BY <2>15, <3>1 DEF TrailingBytes, Visit, ApplyWGTrailingDelta, Credit, Drop,
           UpsertPeerState, Remember, RolledBack, Counter
  <2>16. ASSUME NEW k \in Peer, NothingToWrite(k) PROVE TypeOK'
    BY <2>16 DEF NothingToWrite, Visit
  <2>17. ASSUME PeersDone \/ PollDone PROVE TypeOK'
    BY <2>17 DEF PeersDone, PollDone, Vanished
  <2>18. ASSUME NEW n \in Name, CloseGone(n) \/ CloseGoneFails(n) PROVE TypeOK'
    BY <2>18 DEF CloseGone, CloseGoneFails, CloseWGSessionByName, RolledBack
  <2>19. CASE UNCHANGED vars
    BY <2>19 DEF vars
  <2> QED
    BY <1>2, <2>1, <2>2, <2>3, <2>4, <2>5, <2>6, <2>7, <2>8, <2>9, <2>10, <2>11,
       <2>12, <2>13, <2>14, <2>15, <2>16, <2>17, <2>18, <2>19
       DEF Next, Environment, Poll, VisitPeer, CloseVanished
<1> QED
  BY <1>1, <1>2, PTL DEF Spec

-----------------------------------------------------------------------------
(***************************************************************************)
(* No byte is credited twice.  The invariant behind it, per peer: what is  *)
(* in the sessions plus what is still due, from the persisted baseline to  *)
(* the counter, was transferred; and while a dump waits to be applied, the *)
(* same holds with its snapshot as an intermediate stop.  The baseline in  *)
(* memory is the persisted one unless the reaper deleted the latter.       *)
(***************************************************************************)
Applied(k) ==
    /\ ctr[k] <= traffic[k]
    /\ base[k] = NoBase => cred[k] = 0
    /\ cred[k] + Delta(base[k], ctr[k]) <= traffic[k]

Pending(k) ==
    k \in todo =>
        /\ snap[k] + Delta(snap[k], ctr[k]) <= traffic[k]
        /\ cred[k] + Delta(base[k], snap[k]) + Delta(snap[k], ctr[k]) <= traffic[k]

Mirrored(k) == pc # "off" => base[k] \in {NoBase, states[k]}

Ledger == \A k \in Peer : Applied(k) /\ Pending(k) /\ Mirrored(k)

\* The ledger of one peer after a transaction that advances its baseline to
\* the snapshot and credits all of the increment or nothing.
LEMMA LedgerAfterWrite ==
    ASSUME TypeOK, NEW k \in Peer, k \in todo, pc = "peers",
           Applied(k), Pending(k), Mirrored(k),
           ctr'[k] = ctr[k], traffic'[k] = traffic[k], pc' = pc,
           k \notin todo',
           base'[k] = snap[k], states'[k] = snap[k],
           cred'[k] = cred[k] + Due(k) \/ cred'[k] = cred[k]
    PROVE  Applied(k)' /\ Pending(k)' /\ Mirrored(k)'
<1> DEFINE S == snap[k]  C == cred[k]  B == base[k]  M == states[k]  R == ctr[k]
<1>1. /\ S \in Nat /\ C \in Nat /\ R \in Nat /\ traffic[k] \in Nat
      /\ B \in Counter /\ M \in Counter
  BY DEF TypeOK
<1>2. /\ Delta(S, R) \in Nat
      /\ Delta(B, S) \in Nat
      /\ Due(k) \in Nat /\ Due(k) <= S
  BY <1>1, DeltaBounded DEF Due, Counter
<1>3. C + Due(k) + Delta(S, R) <= traffic[k]
  <2>1. CASE B = NoBase
    BY <2>1, <1>1, <1>2 DEF Applied, Pending
  <2>2. CASE B = M
    BY <2>2, <1>1, <1>2 DEF Pending, Due
  <2> QED
    BY <2>1, <2>2 DEF Mirrored
<1>4. cred'[k] + Delta(base'[k], ctr'[k]) <= traffic'[k]
  BY <1>1, <1>2, <1>3
<1> QED
  BY <1>1, <1>4 DEF Applied, Pending, Mirrored, NoBase

\* A step that leaves the peer's counters, baselines and credit alone and
\* adds nothing to the dump keeps the peer's ledger.
LEMMA LedgerUndisturbed ==
    ASSUME NEW k \in Peer, Applied(k), Pending(k), Mirrored(k),
           ctr'[k] = ctr[k], traffic'[k] = traffic[k],
           base'[k] = base[k], cred'[k] = cred[k],
           k \in todo' => k \in todo /\ snap'[k] = snap[k],
           pc' # "off" => pc # "off" /\ states'[k] = states[k]
    PROVE  Applied(k)' /\ Pending(k)' /\ Mirrored(k)'
  BY DEF Applied, Pending, Mirrored

\* The ledger is inductive, provided the baselines are read at every start.
LEMMA LedgerInductive ==
    ASSUME "loadStates" \notin FailOps, TypeOK, Ledger, [Next]_vars
    PROVE  Ledger'
<1> USE NamingAssumption DEF kernel, store, pass, memory
<1> SUFFICES ASSUME NEW j \in Peer
             PROVE  Applied(j)' /\ Pending(j)' /\ Mirrored(j)'
  BY DEF Ledger
<1>0. Applied(j) /\ Pending(j) /\ Mirrored(j)
  BY DEF Ledger
<1>t. /\ ctr[j] \in Nat /\ traffic[j] \in Nat /\ cred[j] \in Nat
      /\ snap[j] \in Nat /\ base[j] \in Counter /\ states[j] \in Counter
      /\ Nat \subseteq Counter
  BY DEF TypeOK, Counter
<1>1. ASSUME NEW k \in Peer, Transfer(k)
      PROVE  Applied(j)' /\ Pending(j)' /\ Mirrored(j)'
  <2>1. CASE k # j
    <3>1. ctr'[j] = ctr[j] /\ traffic'[j] = traffic[j]
      BY <1>1, <2>1 DEF Transfer, TypeOK
    <3> QED
      BY <1>0, <1>1, <3>1, LedgerUndisturbed DEF Transfer
  <2>2. CASE k = j
    <3>1. /\ ctr'[j] = ctr[j] + 1 /\ traffic'[j] = traffic[j] + 1
          /\ UNCHANGED <<base, cred, todo, snap, pc, states>>
      BY <1>1, <2>2 DEF Transfer, TypeOK
    <3>2. /\ Delta(base[j], ctr[j] + 1) <= Delta(base[j], ctr[j]) + 1
          /\ Delta(snap[j], ctr[j] + 1) <= Delta(snap[j], ctr[j]) + 1
      BY <1>t, DeltaStep
    <3>3. /\ Delta(base[j], ctr[j]) \in Nat /\ Delta(snap[j], ctr[j]) \in Nat
          /\ Delta(base[j], ctr[j] + 1) \in Nat /\ Delta(snap[j], ctr[j] + 1) \in Nat
          /\ Delta(base[j], snap[j]) \in Nat
      <4>1. ctr[j] + 1 \in Nat
        BY <1>t
      <4> QED
        BY <4>1, <1>t, DeltaBounded
    <3> QED
      BY <1>0, <1>t, <3>1, <3>2, <3>3 DEF Applied, Pending, Mirrored
  <2> QED
    BY <2>1, <2>2
<1>2. ASSUME NEW k \in Peer, RemovePeer(k)
      PROVE  Applied(j)' /\ Pending(j)' /\ Mirrored(j)'
  <2>1. CASE k # j
    <3>1. ctr'[j] = ctr[j]
      BY <1>2, <2>1 DEF RemovePeer, TypeOK
    <3> QED
      BY <1>0, <1>2, <3>1, LedgerUndisturbed DEF RemovePeer
  <2>2. CASE k = j
    <3>1. ctr'[j] = 0 /\ UNCHANGED <<traffic, base, cred, todo, snap, pc, states>>
      BY <1>2, <2>2 DEF RemovePeer, TypeOK
    <3>2. /\ Delta(base[j], 0) = 0 /\ Delta(snap[j], 0) = 0
          /\ Delta(base[j], ctr[j]) \in Nat /\ Delta(snap[j], ctr[j]) \in Nat
          /\ Delta(base[j], snap[j]) \in Nat
      BY <1>t, DeltaZero, DeltaBounded
    <3> QED
      BY <1>0, <1>t, <3>1, <3>2 DEF Applied, Pending, Mirrored
  <2> QED
    BY <2>1, <2>2
<1>3. ASSUME NEW n \in Name, Reap(n)
      PROVE  Applied(j)' /\ Pending(j)' /\ Mirrored(j)'
  <2>1. CASE NameOf[j] # n
    <3>1. base'[j] = base[j] /\ cred'[j] = cred[j]
      BY <1>3, <2>1 DEF Reap, DeleteClientData
    <3> QED
      BY <1>0, <1>3, <3>1, LedgerUndisturbed DEF Reap
  <2>2. CASE NameOf[j] = n
    <3>1. /\ base'[j] = NoBase /\ cred'[j] = 0
          /\ UNCHANGED <<ctr, traffic, todo, snap, pc, states>>
      BY <1>3, <2>2 DEF Reap, DeleteClientData
    <3>2. /\ Delta(NoBase, ctr[j]) = ctr[j] /\ Delta(NoBase, snap[j]) = snap[j]
          /\ Delta(base[j], ctr[j]) \in Nat /\ Delta(snap[j], ctr[j]) \in Nat
      BY <1>t, DeltaBounded DEF Delta
    <3> QED
      BY <1>0, <1>t, <3>1, <3>2 DEF Applied, Pending, Mirrored
  <2> QED
    BY <2>1, <2>2
<1>4. ASSUME Start
      PROVE  Applied(j)' /\ Pending(j)' /\ Mirrored(j)'
  BY <1>0, <1>4 DEF Start, Applied, Pending, Mirrored
<1>5. ASSUME Crash
      PROVE  Applied(j)' /\ Pending(j)' /\ Mirrored(j)'
  BY <1>0, <1>5 DEF Crash, Applied, Pending, Mirrored
<1>6. ASSUME DumpSucceeds
      PROVE  Applied(j)' /\ Pending(j)' /\ Mirrored(j)'
  <2>1. Delta(ctr[j], ctr[j]) = 0 /\ Delta(base[j], ctr[j]) \in Nat
    BY <1>t, DeltaZero, DeltaBounded
  <2> QED
    BY <1>0, <1>t, <1>6, <2>1 DEF DumpSucceeds, Applied, Pending, Mirrored
<1>7. ASSUME NEW k \in Peer, SkipUnknown(k)
      PROVE  Applied(j)' /\ Pending(j)' /\ Mirrored(j)'
  <2>1. j \in todo' => j \in todo /\ snap'[j] = snap[j]
    BY <1>7 DEF SkipUnknown, TypeOK
  <2> QED
    BY <1>0, <1>7, <2>1, LedgerUndisturbed DEF SkipUnknown
<1>8. ASSUME NEW k \in Peer, Visit(k), j # k,
             /\ base' = [base EXCEPT ![k] = snap[k]] \/ UNCHANGED base
             /\ states' = [states EXCEPT ![k] = snap[k]] \/ UNCHANGED states
             /\ cred' = [cred EXCEPT ![k] = @ + Due(k)] \/ UNCHANGED cred
      PROVE  Applied(j)' /\ Pending(j)' /\ Mirrored(j)'
  <2>1. j \in todo' => j \in todo /\ snap'[j] = snap[j]
    BY <1>8 DEF Visit, TypeOK
  <2>2. base'[j] = base[j] /\ states'[j] = states[j] /\ cred'[j] = cred[j]
    BY <1>8 DEF TypeOK
  <2> QED
    BY <1>0, <1>8, <2>1, <2>2, LedgerUndisturbed DEF Visit
<1>9. ASSUME Visit(j), UpsertPeerState(j), Remember(j), Credit(j) \/ UNCHANGED cred
      PROVE  Applied(j)' /\ Pending(j)' /\ Mirrored(j)'
  <2>1. j \in todo /\ pc = "peers" /\ pc' = pc /\ j \notin todo'
    BY <1>9 DEF Visit, TypeOK
  <2>2. ctr'[j] = ctr[j] /\ traffic'[j] = traffic[j]
    BY <1>9 DEF Visit
  <2>3. base'[j] = snap[j] /\ states'[j] = snap[j]
    BY <1>9 DEF UpsertPeerState, Remember, TypeOK
  <2>4. cred'[j] = cred[j] + Due(j) \/ cred'[j] = cred[j]
    BY <1>9 DEF Credit, TypeOK
  <2> QED
    BY <1>0, <2>1, <2>2, <2>3, <2>4, LedgerAfterWrite
<1>10. ASSUME NEW k \in Peer, Visit(k), UNCHANGED <<base, states, cred>>
       PROVE  Applied(j)' /\ Pending(j)' /\ Mirrored(j)'
  <2>1. j \in todo' => j \in todo /\ snap'[j] = snap[j]
    BY <1>10 DEF Visit, TypeOK
  <2> QED
    BY <1>0, <1>10, <2>1, LedgerUndisturbed DEF Visit
<1>11. ASSUME NEW k \in Peer, Visit(k), UpsertPeerState(k), Remember(k),
              Credit(k) \/ UNCHANGED cred
       PROVE  Applied(j)' /\ Pending(j)' /\ Mirrored(j)'
  BY <1>8, <1>9, <1>11 DEF UpsertPeerState, Remember, Credit
<1>12. ASSUME NEW k \in Peer, VisitPeer(k)
       PROVE  Applied(j)' /\ Pending(j)' /\ Mirrored(j)'
  <2>1. CASE SkipUnknown(k)
    BY <2>1, <1>7
  <2>2. CASE Lookup(k)
    BY <2>2, <1>0, LedgerUndisturbed DEF Lookup
  <2>3. CASE PeerOnline(k)
    BY <2>3, <1>11 DEF PeerOnline, ApplyWGPeerDelta
  <2>4. CASE PeerOnlineFails(k) \/ PeerWentOfflineFails(k)
    BY <2>4, <1>10 DEF PeerOnlineFails, PeerWentOfflineFails, RolledBack
  <2>5. CASE PeerWentOffline(k)
    BY <2>5, <1>11 DEF PeerWentOffline, CloseWGPeerSession, FoldFinalDelta
  <2>6. CASE FirstSighting(k)
    BY <2>6, <1>10, <1>11 DEF FirstSighting, SaveWGPeerState, RolledBack
  <2>7. CASE TrailingBytes(k)
    BY <2>7, <1>10, <1>11 DEF TrailingBytes, ApplyWGTrailingDelta, RolledBack
  <2>8. CASE NothingToWrite(k)
    BY <2>8, <1>10 DEF NothingToWrite
  <2> QED
    BY <1>12, <2>1, <2>2, <2>3, <2>4, <2>5, <2>6, <2>7, <2>8 DEF VisitPeer
<1>13. ASSUME NEW k \in Peer,
              \/ Handshake(k) \/ HandshakeExpires(k) \/ AddPeer(k)
              \/ RegistryDrops(k) \/ RegistryGains(k)
       PROVE  Applied(j)' /\ Pending(j)' /\ Mirrored(j)'
  BY <1>0, <1>13, LedgerUndisturbed
     DEF Handshake, HandshakeExpires, AddPeer, RegistryDrops, RegistryGains
<1>14. ASSUME NEW n \in Name, UpsertKnownClient(n) \/ CloseVanished(n)
       PROVE  Applied(j)' /\ Pending(j)' /\ Mirrored(j)'
  BY <1>0, <1>14, LedgerUndisturbed
     DEF UpsertKnownClient, CloseVanished, CloseGone, CloseGoneFails,
         CloseWGSessionByName, RolledBack
<1>15. ASSUME DumpFails \/ DeclareDown \/ PeersDone \/ PollDone
       PROVE  Applied(j)' /\ Pending(j)' /\ Mirrored(j)'
  BY <1>0, <1>15, LedgerUndisturbed
     DEF DumpFails, DeclareDown, CloseAllWGSessions, PeersDone, PollDone
<1>16. CASE UNCHANGED vars
  BY <1>0, <1>16, LedgerUndisturbed DEF vars
<1> QED
  BY <1>1, <1>2, <1>3, <1>4, <1>5, <1>6, <1>12, <1>13, <1>14, <1>15, <1>16
     DEF Next, Environment, Poll

\* Whatever crashes, resets, fails or is reaped, and in whatever order, no
\* client's sessions hold more of a peer's bytes than it transferred,
\* provided the persisted baselines are read at every start.
THEOREM CreditsOnce ==
    "loadStates" \notin FailOps => (Spec => []NoDoubleCredit)
<1> SUFFICES ASSUME "loadStates" \notin FailOps
             PROVE  Spec => []NoDoubleCredit
  OBVIOUS
<1>1. Init => Ledger
  <2> SUFFICES ASSUME Init, NEW k \in Peer
               PROVE  Applied(k) /\ Pending(k) /\ Mirrored(k)
    BY DEF Ledger
  <2>1. /\ ctr[k] = 0 /\ traffic[k] = 0 /\ cred[k] = 0 /\ base[k] = NoBase
        /\ todo = {} /\ pc = "off"
    BY DEF Init
  <2>2. Delta(base[k], ctr[k]) = 0
    BY <2>1, DeltaZero DEF Counter
  <2> QED
    BY <2>1, <2>2 DEF Applied, Pending, Mirrored
<1>2. TypeOK /\ Ledger /\ [Next]_vars => Ledger'
  BY LedgerInductive
<1>3. TypeOK /\ Ledger => NoDoubleCredit
  <2> SUFFICES ASSUME TypeOK, Ledger, NEW k \in Peer
               PROVE  cred[k] <= traffic[k]
    BY DEF NoDoubleCredit
  <2>1. cred[k] + Delta(base[k], ctr[k]) <= traffic[k]
    BY DEF Ledger, Applied
  <2>2. Delta(base[k], ctr[k]) \in Nat
    BY DeltaBounded DEF TypeOK
  <2> QED
    BY <2>1, <2>2 DEF TypeOK
<1> QED
  BY <1>1, <1>2, <1>3, TypeCorrect, PTL DEF Spec

-----------------------------------------------------------------------------
(***************************************************************************)
(* No open session is forgotten.                                           *)
(***************************************************************************)

\* An open session of a name this poll has already looked at is on the new
\* online set, or belongs to the peer being processed.
Handled(n) == n \in current \/ \E k \in resolved : NameOf[k] = n

Tracked ==
    /\ OpenTracked
    /\ \A j, k \in resolved : j = k
    /\ pc \in {"off", "idle"} => current = {} /\ seen = {}
    /\ pc = "peers" => \A n \in open \cap seen : Handled(n)
    /\ pc = "gone" => open \subseteq current \cup gone

\* Tracking is inductive, provided the open sessions are read at every
\* start and the shutdown at maxDumpFailures does not fail.
LEMMA TrackedInductive ==
    ASSUME {"loadOpen", "closeAll"} \cap FailOps = {}, TypeOK, Tracked, [Next]_vars
    PROVE  Tracked'
<1> USE NamingAssumption DEF kernel, store, pass, memory
<1> USE DEF Tracked, OpenTracked, Handled
<1>1. ASSUME NEW k \in Peer,
             \/ Transfer(k) \/ Handshake(k) \/ HandshakeExpires(k) \/ AddPeer(k)
             \/ RemovePeer(k) \/ RegistryDrops(k) \/ RegistryGains(k)
      PROVE  Tracked'
  BY <1>1 DEF Transfer, Handshake, HandshakeExpires, AddPeer, RemovePeer,
     RegistryDrops, RegistryGains
<1>2. ASSUME NEW n \in Name, UpsertKnownClient(n) \/ Reap(n) PROVE Tracked'
  BY <1>2 DEF UpsertKnownClient, Reap, DeleteClientData, DeleteSessions
<1>3. ASSUME Start PROVE Tracked'
  BY <1>3 DEF Start
<1>4. ASSUME Crash PROVE Tracked'
  BY <1>4 DEF Crash
<1>5. ASSUME DumpSucceeds \/ DumpFails PROVE Tracked'
  BY <1>5 DEF DumpSucceeds, DumpFails
<1>6. ASSUME DeclareDown PROVE Tracked'
  BY <1>6 DEF DeclareDown, CloseAllWGSessions, ForgetOnline
<1>7. ASSUME NEW k \in Peer, SkipUnknown(k) PROVE Tracked'
  BY <1>7 DEF SkipUnknown
<1>8. ASSUME NEW k \in Peer, Lookup(k) PROVE Tracked'
  BY <1>8 DEF Lookup
<1>9. ASSUME NEW k \in Peer, Visit(k),
             \/ open' = open \cup {NameOf[k]} /\ MarkOnline(k)
             \/ open' = open \ {NameOf[k]} /\ UNCHANGED current
             \/ UNCHANGED open /\ MarkOnline(k)
             \/ UNCHANGED <<open, current>> /\ NameOf[k] \notin online
      PROVE  Tracked'
  <2>1. resolved = {k} /\ resolved' = {} /\ pc = "peers" /\ pc' = pc
        /\ UNCHANGED <<online, seen>>
    BY <1>9 DEF Visit
  <2>2. ASSUME NEW n \in open' PROVE n \in online \cup current'
    BY <1>9, <2>1 DEF MarkOnline
  <2>3. ASSUME NEW n \in open' \cap seen PROVE n \in current'
    <3>1. CASE n = NameOf[k]
      BY <1>9, <2>1, <2>2, <3>1 DEF MarkOnline
    <3>2. CASE n # NameOf[k]
      BY <1>9, <2>1, <3>2 DEF MarkOnline
    <3> QED
      BY <3>1, <3>2
  <2> QED
    BY <2>1, <2>2, <2>3
<1>10. ASSUME NEW k \in Peer, PeerOnline(k) PROVE Tracked'
  BY <1>9, <1>10 DEF PeerOnline, ApplyWGPeerDelta
<1>11. ASSUME NEW k \in Peer, PeerOnlineFails(k) \/ PeerWentOfflineFails(k)
       PROVE  Tracked'
  BY <1>9, <1>11 DEF PeerOnlineFails, PeerWentOfflineFails, RetryNextPoll, RolledBack
<1>12. ASSUME NEW k \in Peer, PeerWentOffline(k) PROVE Tracked'
  BY <1>9, <1>12 DEF PeerWentOffline, CloseWGPeerSession
<1>13. ASSUME NEW k \in Peer, FirstSighting(k) \/ TrailingBytes(k) \/ NothingToWrite(k)
       PROVE  Tracked'
  BY <1>9, <1>13 DEF FirstSighting, TrailingBytes, NothingToWrite, IsOffline,
     SaveWGPeerState, ApplyWGTrailingDelta, RolledBack
<1>14. ASSUME PeersDone PROVE Tracked'
  BY <1>14 DEF PeersDone, Vanished, TypeOK
<1>15. ASSUME NEW n \in Name, CloseGone(n) PROVE Tracked'
  BY <1>15 DEF CloseGone, CloseWGSessionByName
<1>16. ASSUME NEW n \in Name, CloseGoneFails(n) PROVE Tracked'
  BY <1>16 DEF CloseGoneFails, RolledBack
<1>17. ASSUME PollDone PROVE Tracked'
  BY <1>17 DEF PollDone
<1>18. CASE UNCHANGED vars
  BY <1>18 DEF vars
<1> QED
  BY <1>1, <1>2, <1>3, <1>4, <1>5, <1>6, <1>7, <1>8, <1>10, <1>11, <1>12,
     <1>13, <1>14, <1>15, <1>16, <1>17, <1>18
     DEF Next, Environment, Poll, VisitPeer, CloseVanished

\* Every open session stays tracked, provided the open sessions are read at
\* every start and the shutdown at maxDumpFailures does not fail.
THEOREM SessionsTracked ==
    {"loadOpen", "closeAll"} \cap FailOps = {} => (Spec => []OpenTracked)
<1> SUFFICES ASSUME {"loadOpen", "closeAll"} \cap FailOps = {}
             PROVE  Spec => []OpenTracked
  OBVIOUS
<1>1. Init => Tracked
  BY DEF Init, Tracked, OpenTracked
<1>2. TypeOK /\ Tracked /\ [Next]_vars => Tracked'
  BY TrackedInductive
<1>3. Tracked => OpenTracked
  BY DEF Tracked
<1> QED
  BY <1>1, <1>2, <1>3, TypeCorrect, PTL DEF Spec

-----------------------------------------------------------------------------

(***************************************************************************)
(* The books balance.  The invariant adds to Ledger, for each peer of      *)
(* which nothing was given up, that the increment due splits at the        *)
(* snapshot of a dump in progress; a counter that restarted under that     *)
(* dump had nothing due.                                                   *)
(***************************************************************************)
Pends(k) == Delta(Baseline(k), ctr[k])

Balanced(k) == traffic[k] = cred[k] + Pends(k)

Splits(k) ==
    k \in todo =>
        /\ Pends(k) = Delta(Baseline(k), snap[k]) + Delta(snap[k], ctr[k])
        /\ ctr[k] < snap[k] => snap[k] = Baseline(k)

Exact ==
    /\ pc # "peers" => todo = {}
    /\ \A k \in Peer \ dropped : Balanced(k) /\ Splits(k)

\* What a step does to one peer of the abstract ledger, in the poller's
\* terms: nothing, one byte moved, or the increment of the dump booked.
Still(k) == traffic'[k] = traffic[k] /\ cred'[k] = cred[k] /\ Pends(k)' = Pends(k)

\* A peer of which nothing was given up, and whose credit is untouched by
\* the loss of its persisted baseline, has its whole counter due.
LEMMA BaselineLost ==
    ASSUME TypeOK, NEW k \in Peer, Applied(k), cred[k] = 0, Balanced(k)
    PROVE  Pends(k) = ctr[k]
<1>1. Baseline(k) \in Counter /\ ctr[k] \in Nat /\ traffic[k] \in Nat
  BY DEF TypeOK, Baseline
<1>2. Pends(k) \in Nat /\ Pends(k) <= ctr[k]
  BY <1>1, DeltaBounded DEF Pends
<1> QED
  BY <1>1, <1>2 DEF Applied, Balanced

\* What is booked and what is due never exceed what was moved.
LEMMA BooksCovered ==
    ASSUME TypeOK, Ledger, NEW k \in Peer
    PROVE  /\ Pends(k) \in Nat /\ cred[k] \in Nat /\ traffic[k] \in Nat
           /\ cred[k] + Pends(k) <= traffic[k]
<1>1. /\ Baseline(k) \in Counter /\ ctr[k] \in Nat /\ traffic[k] \in Nat
      /\ cred[k] \in Nat
  BY DEF TypeOK, Baseline
<1>2. Pends(k) \in Nat /\ Pends(k) <= ctr[k]
  BY <1>1, DeltaBounded DEF Pends
<1>3. Applied(k) /\ Mirrored(k)
  BY DEF Ledger
<1>4. CASE Baseline(k) = base[k]
  BY <1>1, <1>2, <1>3, <1>4 DEF Applied, Pends
<1>5. CASE base[k] = NoBase
  BY <1>1, <1>2, <1>3, <1>5 DEF Applied
<1> QED
  BY <1>3, <1>4, <1>5 DEF Mirrored, Baseline

\* The step of the transaction that writes the snapshot of a peer of which
\* nothing was given up: what it credits is what is due no longer.
LEMMA WriteSplits ==
    ASSUME TypeOK, Exact, NEW k \in Peer \ dropped, k \in todo, pc = "peers",
           pc' = pc, ctr'[k] = ctr[k], states'[k] = snap[k]
    PROVE  /\ Due(k) \in Nat /\ Pends(k)' \in Nat
           /\ Pends(k) = Due(k) + Pends(k)'
<1>1. /\ snap[k] \in Counter /\ snap[k] \in Nat /\ ctr[k] \in Nat
      /\ states[k] \in Counter
  BY DEF TypeOK, Counter
<1>2. Due(k) \in Nat /\ Delta(snap[k], ctr[k]) \in Nat
  BY <1>1, DeltaBounded DEF Due
<1>3. Pends(k)' = Delta(snap[k], ctr[k])
  BY DEF Pends, Baseline
<1>4. Pends(k) = Delta(states[k], snap[k]) + Delta(snap[k], ctr[k])
  BY DEF Exact, Splits, Baseline
<1> QED
  BY <1>2, <1>3, <1>4 DEF Due

\* A step that leaves a peer's books and its part of the dump alone.
LEMMA ExactUndisturbed ==
    ASSUME NEW k \in Peer, Balanced(k), Splits(k),
           ctr'[k] = ctr[k], traffic'[k] = traffic[k], cred'[k] = cred[k],
           Baseline(k)' = Baseline(k),
           k \in todo' => k \in todo /\ snap'[k] = snap[k]
    PROVE  Balanced(k)' /\ Splits(k)'
  BY DEF Balanced, Splits, Pends

\* The balance is inductive, provided the baselines are read at every start.
LEMMA ExactInductive ==
    ASSUME "loadStates" \notin FailOps, TypeOK, Ledger, Exact, [Next]_vars
    PROVE  Exact' /\ dropped \subseteq dropped'
<1> USE NamingAssumption DEF kernel, store, pass, memory
<1> DEFINE Kept(j) == j \notin dropped' => Balanced(j)' /\ Splits(j)'
           Idle == pc' # "peers" => todo' = {}
           Grows == dropped \subseteq dropped'
           Goal == Idle /\ Grows /\ \A j \in Peer : Kept(j)
<1> SUFFICES Goal
  BY DEF Exact
<1>0. /\ pc # "peers" => todo = {}
      /\ \A j \in Peer \ dropped : Balanced(j) /\ Splits(j)
  BY DEF Exact
<1>t. \A j \in Peer :
      /\ ctr[j] \in Nat /\ traffic[j] \in Nat /\ cred[j] \in Nat
      /\ snap[j] \in Nat /\ base[j] \in Counter /\ states[j] \in Counter
      /\ Baseline(j) \in Counter /\ Pends(j) \in Nat
      /\ Delta(Baseline(j), snap[j]) \in Nat /\ Delta(snap[j], ctr[j]) \in Nat
  <2> TAKE j \in Peer
  <2>1. /\ ctr[j] \in Nat /\ traffic[j] \in Nat /\ cred[j] \in Nat
        /\ snap[j] \in Nat /\ base[j] \in Counter /\ states[j] \in Counter
        /\ snap[j] \in Counter
    BY DEF TypeOK, Counter
  <2>2. Baseline(j) \in Counter
    BY <2>1 DEF Baseline
  <2> QED
    BY <2>1, <2>2, DeltaBounded DEF Pends
<1>1. ASSUME NEW k \in Peer, Transfer(k) PROVE Goal
  <2>1. Idle /\ Grows
    BY <1>0, <1>1 DEF Transfer, Drop
  <2>2. ASSUME NEW j \in Peer, j \notin dropped' PROVE Balanced(j)' /\ Splits(j)'
    <3>1. j \notin dropped /\ Balanced(j) /\ Splits(j)
      BY <2>1, <2>2, <1>0
    <3>2. Baseline(j)' = Baseline(j) /\ UNCHANGED <<cred, snap, todo>>
      BY <1>1 DEF Transfer, Baseline
    <3>3. CASE j # k
      <4>1. ctr'[j] = ctr[j] /\ traffic'[j] = traffic[j]
        BY <1>1, <3>3 DEF Transfer, TypeOK
      <4> QED
        BY <3>1, <3>2, <4>1, ExactUndisturbed
    <3>4. CASE j = k
      <4>1. ctr'[j] = ctr[j] + 1 /\ traffic'[j] = traffic[j] + 1
        BY <1>1, <3>4 DEF Transfer, TypeOK
      <4>2. Delta(Baseline(j), ctr[j]) + 1 - Delta(Baseline(j), ctr[j] + 1) = 0
        BY <1>1, <2>2, <3>4 DEF Transfer, Drop
      <4>3. Pends(j)' = Pends(j) + 1
        <5>1. Delta(Baseline(j), ctr[j] + 1) \in Nat
          <6>1. ctr[j] + 1 \in Nat
            BY <1>t
          <6> QED
            BY <6>1, <1>t, DeltaBounded
        <5>2. Pends(j)' = Delta(Baseline(j), ctr[j] + 1)
          BY <3>2, <4>1 DEF Pends
        <5> QED
          BY <1>t, <4>2, <5>1, <5>2 DEF Pends
      <4>4. Balanced(j)'
        BY <1>t, <3>1, <3>2, <4>1, <4>3 DEF Balanced
      <4>5. ASSUME j \in todo
            PROVE  Delta(snap[j], ctr[j] + 1) = Delta(snap[j], ctr[j]) + 1
        <5>1. CASE ctr[j] < snap[j]
          <6>1. snap[j] = Baseline(j)
            BY <3>1, <4>5, <5>1 DEF Splits
          <6> QED
            BY <4>2, <6>1, <1>t, <4>3 DEF Pends, Delta
        <5>2. CASE ~(ctr[j] < snap[j])
          BY <5>2, <1>t DEF Delta, NoBase
        <5> QED
          BY <5>1, <5>2
      <4>6. Splits(j)'
        BY <1>t, <3>1, <3>2, <4>1, <4>3, <4>5 DEF Splits
      <4> QED
        BY <4>4, <4>6
    <3> QED
      BY <3>3, <3>4
  <2> QED
    BY <2>1, <2>2
<1>2. ASSUME NEW k \in Peer, RemovePeer(k) PROVE Goal
  <2>1. Idle /\ Grows
    BY <1>0, <1>2 DEF RemovePeer, Drop
  <2>2. ASSUME NEW j \in Peer, j \notin dropped' PROVE Balanced(j)' /\ Splits(j)'
    <3>1. j \notin dropped /\ Balanced(j) /\ Splits(j)
      BY <2>1, <2>2, <1>0
    <3>2. Baseline(j)' = Baseline(j) /\ UNCHANGED <<cred, snap, todo, traffic>>
      BY <1>2 DEF RemovePeer, Baseline
    <3>3. CASE j # k
      <4>1. ctr'[j] = ctr[j]
        BY <1>2, <3>3 DEF RemovePeer, TypeOK
      <4> QED
        BY <3>1, <3>2, <4>1, ExactUndisturbed
    <3>4. CASE j = k
      <4>1. ctr'[j] = 0
        BY <1>2, <3>4 DEF RemovePeer, TypeOK
      <4>2. Pends(j) = 0
        BY <1>2, <2>2, <3>4 DEF RemovePeer, Drop, Pends
      <4>3. Pends(j)' = 0 /\ Delta(snap[j], 0) = 0
        <5>1. snap[j] \in Counter
          BY <1>t DEF Counter
        <5> QED
          BY <1>t, <3>2, <4>1, <5>1, DeltaZero DEF Pends
      <4>4. ASSUME j \in todo
            PROVE  Delta(Baseline(j), snap[j]) = 0
        BY <1>t, <3>1, <4>2, <4>4 DEF Splits
      <4>5. ASSUME j \in todo, 0 < snap[j] PROVE snap[j] = Baseline(j)
        BY <1>t, <4>4, <4>5 DEF Delta, NoBase, Counter
      <4> QED
        BY <1>t, <3>1, <3>2, <4>1, <4>2, <4>3, <4>4, <4>5 DEF Splits, Balanced
    <3> QED
      BY <3>3, <3>4
  <2> QED
    BY <2>1, <2>2
<1>3. ASSUME NEW n \in Name, Reap(n) PROVE Goal
  <2>1. Idle /\ Grows /\ UNCHANGED <<pc, ctr, traffic, snap, todo, states>>
    BY <1>0, <1>3 DEF Reap, DeleteClientData
  <2>2. ASSUME NEW j \in Peer, j \notin dropped' PROVE Balanced(j)' /\ Splits(j)'
    <3>1. j \notin dropped /\ Balanced(j) /\ Splits(j)
      BY <2>1, <2>2, <1>0
    <3>2. cred'[j] = cred[j]
      BY <1>3, <2>2 DEF Reap, DeleteClientData, TypeOK
    <3>3. CASE Baseline(j)' = Baseline(j)
      BY <2>1, <3>1, <3>2, <3>3, ExactUndisturbed
    <3>4. CASE Baseline(j)' # Baseline(j)
      <4>1. pc = "off" /\ NameOf[j] = n /\ base'[j] = NoBase
        BY <1>3, <2>1, <3>4 DEF Baseline, Reap, DeleteClientData, TypeOK
      <4>2. cred[j] = 0
        BY <1>3, <2>2, <4>1 DEF Reap, DeleteClientData
      <4>3. Applied(j)
        BY DEF Ledger
      <4>4. Pends(j) = ctr[j]
        BY <3>1, <4>2, <4>3, BaselineLost
      <4>5. Pends(j)' = ctr[j]
        BY <2>1, <4>1 DEF Pends, Baseline, Delta
      <4>6. Balanced(j)'
        BY <2>1, <3>1, <3>2, <4>4, <4>5 DEF Balanced
      <4>7. Splits(j)'
        BY <2>1, <4>1, <1>0 DEF Splits
      <4> QED
        BY <4>6, <4>7
    <3> QED
      BY <3>3, <3>4
  <2> QED
    BY <2>1, <2>2
<1>4. ASSUME Start PROVE Goal
  <2>1. Idle /\ Grows /\ todo' = {} /\ UNCHANGED <<ctr, traffic, cred, dropped>>
    BY <1>0, <1>4 DEF Start
  <2>2. ASSUME NEW j \in Peer \ dropped PROVE Balanced(j)' /\ Splits(j)'
    <3>1. Baseline(j)' = Baseline(j)
      BY <1>4 DEF Start, Baseline
    <3> QED
      BY <1>0, <2>1, <2>2, <3>1, ExactUndisturbed
  <2> QED
    BY <2>1, <2>2
<1>5. ASSUME Crash PROVE Goal
  <2>1. /\ Idle /\ Grows /\ todo' = {} /\ pc # "off" /\ pc' = "off"
        /\ UNCHANGED <<ctr, traffic, cred, dropped, base>>
    BY <1>5 DEF Crash
  <2>2. ASSUME NEW j \in Peer \ dropped PROVE Balanced(j)' /\ Splits(j)'
    <3>1. Applied(j) /\ Mirrored(j)
      BY DEF Ledger
    <3>2. CASE base[j] = states[j]
      <4>1. Baseline(j)' = Baseline(j)
        BY <2>1, <3>2 DEF Baseline
      <4> QED
        BY <1>0, <2>1, <2>2, <4>1, ExactUndisturbed
    <3>3. CASE base[j] = NoBase
      <4>1. Pends(j) = ctr[j]
        BY <1>0, <2>2, <3>1, <3>3, BaselineLost DEF Applied
      <4>2. Pends(j)' = ctr[j]
        BY <2>1, <3>3 DEF Pends, Baseline, Delta
      <4> QED
        BY <1>0, <2>1, <2>2, <4>1, <4>2 DEF Balanced, Splits
    <3> QED
      BY <2>1, <3>1, <3>2, <3>3 DEF Mirrored
  <2> QED
    BY <2>1, <2>2
<1>6. ASSUME DumpSucceeds PROVE Goal
  <2>1. /\ Idle /\ Grows /\ snap' = ctr
        /\ UNCHANGED <<ctr, traffic, cred, dropped>>
    BY <1>6 DEF DumpSucceeds
  <2>2. ASSUME NEW j \in Peer \ dropped PROVE Balanced(j)' /\ Splits(j)'
    <3>1. Baseline(j)' = Baseline(j)
      BY <1>6 DEF DumpSucceeds, Baseline
    <3>2. Delta(ctr[j], ctr[j]) = 0 /\ ~(ctr[j] < ctr[j])
      BY <1>t, DeltaZero
    <3> QED
      BY <1>0, <1>t, <2>1, <2>2, <3>1, <3>2 DEF Balanced, Splits, Pends
  <2> QED
    BY <2>1, <2>2
<1>7. ASSUME NEW k \in Peer, SkipUnknown(k) PROVE Goal
  <2>1. /\ Idle /\ Grows
        /\ UNCHANGED <<ctr, traffic, cred, dropped, base, states, pc>>
    BY <1>0, <1>7 DEF SkipUnknown
  <2>2. ASSUME NEW j \in Peer \ dropped PROVE Balanced(j)' /\ Splits(j)'
    <3>1. j \in todo' => j \in todo /\ snap'[j] = snap[j]
      BY <1>7 DEF SkipUnknown, TypeOK
    <3>2. Baseline(j)' = Baseline(j)
      BY <2>1 DEF Baseline
    <3> QED
      BY <1>0, <2>1, <2>2, <3>1, <3>2, ExactUndisturbed
  <2> QED
    BY <2>1, <2>2
<1>8. ASSUME NEW k \in Peer, Visit(k), UNCHANGED <<store, states>> PROVE Goal
  <2>1. Idle /\ Grows
    BY <1>8 DEF Visit
  <2>2. ASSUME NEW j \in Peer \ dropped PROVE Balanced(j)' /\ Splits(j)'
    <3>1. j \in todo' => j \in todo /\ snap'[j] = snap[j]
      BY <1>8 DEF Visit, TypeOK
    <3>2. Baseline(j)' = Baseline(j)
      BY <1>8 DEF Baseline, Visit
    <3> QED
      BY <1>0, <1>8, <2>2, <3>1, <3>2, ExactUndisturbed DEF Visit
  <2> QED
    BY <1>8, <2>1, <2>2
<1>9. ASSUME NEW k \in Peer, Visit(k), UpsertPeerState(k), Remember(k),
             \/ Credit(k) /\ UNCHANGED dropped
             \/ Drop(k, Due(k)) /\ UNCHANGED cred
      PROVE  Goal
  <2>1. Idle /\ Grows
    BY <1>9 DEF Visit, Drop
  <2>2. ASSUME NEW j \in Peer, j \notin dropped' PROVE Balanced(j)' /\ Splits(j)'
    <3>1. j \notin dropped /\ Balanced(j) /\ Splits(j)
      BY <2>1, <2>2, <1>0
    <3>2. CASE j # k
      <4>1. j \in todo' => j \in todo /\ snap'[j] = snap[j]
        BY <1>9, <3>2 DEF Visit, TypeOK
      <4>2. Baseline(j)' = Baseline(j) /\ cred'[j] = cred[j]
        BY <1>9, <3>2 DEF Baseline, Visit, UpsertPeerState, Remember, Credit, TypeOK
      <4> QED
        BY <1>9, <3>1, <4>1, <4>2, ExactUndisturbed DEF Visit
    <3>3. CASE j = k
      <4>1. /\ j \in todo /\ j \notin todo' /\ pc = "peers" /\ pc' = pc
            /\ ctr'[j] = ctr[j] /\ traffic'[j] = traffic[j]
        BY <1>9, <3>3 DEF Visit, TypeOK
      <4>2. states'[j] = snap[j]
        BY <1>9, <3>3 DEF Remember, TypeOK
      <4>3. /\ Due(j) \in Nat /\ Pends(j)' \in Nat
            /\ Pends(j) = Due(j) + Pends(j)'
        BY <3>1, <4>1, <4>2, WriteSplits
      <4>4. cred'[j] = cred[j] + Due(j)
        <5>1. CASE Credit(k)
          BY <3>3, <5>1 DEF Credit, TypeOK
        <5>2. CASE Drop(k, Due(k)) /\ UNCHANGED cred
          <6>1. Due(j) = 0
            BY <2>2, <3>3, <5>2 DEF Drop
          <6> QED
            BY <1>t, <5>2, <6>1
        <5> QED
          BY <1>9, <5>1, <5>2
      <4> QED
        BY <1>t, <3>1, <4>1, <4>3, <4>4 DEF Balanced, Splits
    <3> QED
      BY <3>2, <3>3
  <2> QED
    BY <2>1, <2>2
<1>10. ASSUME NEW k \in Peer, VisitPeer(k) PROVE Goal
  <2>1. CASE SkipUnknown(k)
    BY <2>1, <1>7
  <2>2. CASE Lookup(k)
    <3>1. /\ Idle /\ Grows
          /\ UNCHANGED <<ctr, traffic, cred, dropped, base, states, pc, todo, snap>>
      BY <1>0, <2>2 DEF Lookup
    <3>2. ASSUME NEW j \in Peer \ dropped PROVE Balanced(j)' /\ Splits(j)'
      BY <1>0, <3>1, <3>2, ExactUndisturbed DEF Baseline
    <3> QED
      BY <3>1, <3>2
  <2>3. CASE PeerOnline(k)
    BY <2>3, <1>9 DEF PeerOnline, ApplyWGPeerDelta
  <2>4. CASE PeerOnlineFails(k) \/ PeerWentOfflineFails(k)
    BY <2>4, <1>8 DEF PeerOnlineFails, PeerWentOfflineFails, RolledBack
  <2>5. CASE PeerWentOffline(k)
    BY <2>5, <1>9 DEF PeerWentOffline, CloseWGPeerSession, FoldFinalDelta
  <2>6. CASE FirstSighting(k)
    BY <2>6, <1>8, <1>9 DEF FirstSighting, SaveWGPeerState, RolledBack
  <2>7. CASE TrailingBytes(k)
    BY <2>7, <1>8, <1>9 DEF TrailingBytes, ApplyWGTrailingDelta, RolledBack
  <2>8. CASE NothingToWrite(k)
    BY <2>8, <1>8 DEF NothingToWrite
  <2> QED
    BY <1>10, <2>1, <2>2, <2>3, <2>4, <2>5, <2>6, <2>7, <2>8 DEF VisitPeer
<1>11. ASSUME \/ UNCHANGED <<ctr, traffic, cred, dropped, base, states, pc, todo, snap>>
              \/ /\ UNCHANGED <<ctr, traffic, cred, dropped, base, states, todo, snap>>
                 /\ pc # "off" /\ pc' # "off" /\ (pc' # "peers" => todo = {})
       PROVE  Goal
  <2>1. Idle /\ Grows
    BY <1>0, <1>11
  <2>2. ASSUME NEW j \in Peer \ dropped PROVE Balanced(j)' /\ Splits(j)'
    BY <1>0, <1>11, <2>2, ExactUndisturbed DEF Baseline
  <2> QED
    BY <1>11, <2>1, <2>2
<1>12. ASSUME NEW k \in Peer,
              \/ Handshake(k) \/ HandshakeExpires(k) \/ AddPeer(k)
              \/ RegistryDrops(k) \/ RegistryGains(k)
       PROVE  Goal
  BY <1>11, <1>12
     DEF Handshake, HandshakeExpires, AddPeer, RegistryDrops, RegistryGains
<1>13. ASSUME NEW n \in Name, UpsertKnownClient(n) \/ CloseVanished(n) PROVE Goal
  BY <1>11, <1>13
     DEF UpsertKnownClient, CloseVanished, CloseGone, CloseGoneFails,
         CloseWGSessionByName, RolledBack
<1>14. ASSUME DumpFails \/ DeclareDown PROVE Goal
  BY <1>11, <1>14 DEF DumpFails, DeclareDown, CloseAllWGSessions
<1>15. ASSUME PeersDone \/ PollDone PROVE Goal
  BY <1>0, <1>11, <1>15 DEF PeersDone, PollDone
<1>16. CASE UNCHANGED vars
  BY <1>11, <1>16 DEF vars
<1> QED
  BY <1>1, <1>2, <1>3, <1>4, <1>5, <1>6, <1>10, <1>12, <1>13, <1>14, <1>15, <1>16
     DEF Next, Environment, Poll

LEMMA ExactInitially == Init => Ledger /\ Exact
<1> SUFFICES ASSUME Init PROVE Ledger /\ Exact
  OBVIOUS
<1>1. ASSUME NEW k \in Peer
      PROVE  Applied(k) /\ Pending(k) /\ Mirrored(k) /\ Balanced(k) /\ Splits(k)
  <2>1. /\ ctr[k] = 0 /\ traffic[k] = 0 /\ cred[k] = 0 /\ base[k] = NoBase
        /\ todo = {} /\ pc = "off"
    BY DEF Init
  <2>2. Delta(base[k], ctr[k]) = 0
    BY <2>1, DeltaZero DEF Counter
  <2> QED
    BY <2>1, <2>2 DEF Applied, Pending, Mirrored, Balanced, Splits, Pends, Baseline
<1> QED
  BY <1>1 DEF Ledger, Exact, Init

\* Of a peer none of whose bytes were given up, every byte is in its
\* client's sessions or due at the next poll, whatever crashes, fails,
\* resets or is reaped, provided the baselines are read at every start.
THEOREM BooksBalance ==
    "loadStates" \notin FailOps => (Spec => []LedgerBalances)
<1> SUFFICES ASSUME "loadStates" \notin FailOps
             PROVE  Spec => []LedgerBalances
  OBVIOUS
<1>1. TypeOK /\ Ledger /\ Exact /\ [Next]_vars => Ledger' /\ Exact'
  BY LedgerInductive, ExactInductive
<1>2. Exact => LedgerBalances
  BY DEF Exact, LedgerBalances, Balanced, Pends
<1> QED
  BY ExactInitially, <1>1, <1>2, TypeCorrect, PTL DEF Spec

-----------------------------------------------------------------------------
(***************************************************************************)
(* The poller implements ByteLedger.                                       *)
(***************************************************************************)

Covered ==
    \A k \in Peer :
        /\ Pends(k) \in Nat /\ cred[k] \in Nat /\ traffic[k] \in Nat
        /\ cred[k] + Pends(k) <= traffic[k]

DuePerPeer == [k \in Peer |-> Delta(Baseline(k), ctr[k])]

LEMMA DueAfter == DuePerPeer' = [k \in Peer |-> Pends(k)']
  BY DEF DuePerPeer, Pends, Delta, Baseline

\* A step that disturbs only the books of peers of which something was
\* given up, and takes back no transferred byte.
LEMMA StepWaives ==
    ASSUME Covered', dropped \subseteq dropped',
           \A k \in Peer : k \in dropped' => traffic'[k] >= traffic[k],
           \A k \in Peer : k \in dropped' \/ Still(k),
           dropped' \subseteq Peer
    PROVE  Books!Waive(dropped')
<1>1. dropped' = dropped \cup dropped'
  OBVIOUS
<1>2. ASSUME NEW k \in Peer
      PROVE  DuePerPeer'[k] = Pends(k)' /\ DuePerPeer[k] = Pends(k)
  BY DueAfter DEF DuePerPeer, Pends
<1>3. ASSUME NEW k \in dropped'
      PROVE  /\ traffic'[k] >= traffic[k]
             /\ DuePerPeer'[k] >= 0 /\ cred'[k] >= 0
             /\ DuePerPeer'[k] + cred'[k] <= traffic'[k]
  <2>1. /\ Pends(k)' \in Nat /\ cred'[k] \in Nat /\ traffic'[k] \in Nat
        /\ cred'[k] + Pends(k)' <= traffic'[k]
    BY <1>3 DEF Covered
  <2> QED
    BY <1>2, <1>3, <2>1
<1>4. ASSUME NEW k \in Peer \ dropped'
      PROVE  traffic'[k] = traffic[k] /\ DuePerPeer'[k] = DuePerPeer[k] /\ cred'[k] = cred[k]
  BY <1>2, <1>4 DEF Still
<1> QED
  BY <1>1, <1>3, <1>4 DEF Books!Waive, DuePerPeer

\* Every step of the poller moves a byte, books an increment, or leaves
\* alone the books of all peers of which nothing was given up.
LEMMA StepImplements ==
    ASSUME "loadStates" \notin FailOps, TypeOK, TypeOK', Ledger, Exact,
           Covered, Covered', [Next]_vars
    PROVE  Books!Next
<1> USE NamingAssumption DEF kernel, store, pass, memory
<1>0. Exact' /\ dropped \subseteq dropped' /\ dropped' \subseteq Peer
  BY ExactInductive DEF TypeOK
<1>t. \A j \in Peer : /\ traffic[j] \in Nat /\ cred[j] \in Nat /\ Pends(j) \in Nat
                      /\ traffic'[j] \in Nat /\ cred'[j] \in Nat /\ Pends(j)' \in Nat
  BY DEF Covered
<1>b. ASSUME NEW j \in Peer, j \notin dropped'
      PROVE  traffic[j] = cred[j] + Pends(j) /\ traffic'[j] = cred'[j] + Pends(j)'
  BY <1>0, <1>b DEF Exact, Balanced
<1>w. ASSUME \A j \in Peer : /\ traffic'[j] >= traffic[j]
                             /\ j \notin dropped' => traffic'[j] = traffic[j]
                             /\ j \notin dropped' => cred'[j] = cred[j]
      PROVE  Books!Next
  <2>1. \A j \in Peer : j \in dropped' \/ Still(j)
    BY <1>t, <1>b, <1>w DEF Still
  <2>2. Books!Waive(dropped')
    BY <1>0, <1>w, <2>1, StepWaives
  <2> QED
    BY <1>0, <2>2 DEF Books!Next
<1>u. ASSUME UNCHANGED <<traffic, cred>> PROVE Books!Next
  BY <1>t, <1>u, <1>w
<1>1. ASSUME NEW k \in Peer, Transfer(k) PROVE Books!Next
  <2>1. /\ \A j \in Peer : j # k => traffic'[j] = traffic[j] /\ cred'[j] = cred[j]
        /\ traffic' = [traffic EXCEPT ![k] = @ + 1] /\ cred' = cred
        /\ traffic'[k] = traffic[k] + 1
    BY <1>1 DEF Transfer, TypeOK
  <2>2. CASE k \in dropped'
    BY <1>t, <1>w, <2>1, <2>2
  <2>3. CASE k \notin dropped'
    <3>1. dropped' = dropped
      BY <1>1, <2>3 DEF Transfer, Drop
    <3>2. ASSUME NEW j \in Peer, j # k PROVE Pends(j)' = Pends(j)
      BY <1>1, <3>2 DEF Transfer, Pends, Baseline, TypeOK
    <3>3. Pends(k)' = Pends(k) + 1
      <4>1. traffic[k] = cred[k] + Pends(k) /\ traffic'[k] = cred'[k] + Pends(k)'
        BY <1>b, <2>3
      <4>2. cred'[k] = cred[k] /\ traffic'[k] = traffic[k] + 1
        BY <2>1
      <4> HIDE <1>b, <2>1
      <4> QED
        BY <1>t, <4>1, <4>2
    <3>4. DuePerPeer' = [DuePerPeer EXCEPT ![k] = @ + 1]
      BY <3>2, <3>3, DueAfter DEF DuePerPeer, Pends
    <3>5. Books!Move(k)
      BY <2>1, <3>1, <3>4 DEF Books!Move, DuePerPeer
    <3> QED
      BY <3>5 DEF Books!Next
  <2> QED
    BY <2>2, <2>3
<1>2. ASSUME NEW k \in Peer, Visit(k), UpsertPeerState(k), Remember(k),
             Credit(k), UNCHANGED dropped
      PROVE  Books!Next
  <2>1. /\ \A j \in Peer : j # k => cred'[j] = cred[j]
        /\ cred'[k] = cred[k] + Due(k)
        /\ traffic' = traffic
    BY <1>2 DEF Visit, Credit, TypeOK
  <2>2. CASE k \in dropped
    BY <1>0, <1>t, <1>w, <2>1, <2>2
  <2>3. CASE k \notin dropped
    <3>1. k \in todo /\ pc = "peers" /\ pc' = pc /\ ctr'[k] = ctr[k] /\ states'[k] = snap[k]
      BY <1>2 DEF Visit, Remember, TypeOK
    <3>2. /\ Due(k) \in Nat /\ Pends(k) = Due(k) + Pends(k)'
      BY <2>3, <3>1, WriteSplits
    <3>3. CASE Due(k) = 0
      BY <1>t, <1>w, <2>1, <3>3
    <3>4. CASE Due(k) # 0
      <4>1. Due(k) \in 1 .. DuePerPeer[k]
        BY <1>t, <3>2, <3>4 DEF DuePerPeer, Pends
      <4>2. ASSUME NEW j \in Peer, j # k PROVE Pends(j)' = Pends(j)
        BY <1>2, <4>2 DEF Visit, Remember, Pends, Baseline, TypeOK
      <4>3. Pends(k)' = Pends(k) - Due(k)
        BY <1>t, <3>2
      <4>4. DuePerPeer' = [DuePerPeer EXCEPT ![k] = @ - Due(k)]
        BY <4>2, <4>3, DueAfter DEF DuePerPeer, Pends
      <4>5. Books!Book(k)
        BY <1>2, <2>1, <4>1, <4>4 DEF Books!Book, DuePerPeer, Credit
      <4> QED
        BY <4>5 DEF Books!Next
    <3> QED
      BY <3>3, <3>4
  <2> QED
    BY <2>2, <2>3
<1>3. ASSUME NEW n \in Name, Reap(n) PROVE Books!Next
  <2>1. ASSUME NEW j \in Peer, j \notin dropped' PROVE cred'[j] = cred[j]
    BY <1>3, <2>1 DEF Reap, DeleteClientData, TypeOK
  <2>2. traffic' = traffic
    BY <1>3 DEF Reap
  <2> QED
    BY <1>t, <1>w, <2>1, <2>2
<1>4. ASSUME NEW k \in Peer, VisitPeer(k) PROVE Books!Next
  <2>1. CASE SkipUnknown(k) \/ Lookup(k)
    BY <2>1, <1>u DEF SkipUnknown, Lookup
  <2>2. CASE PeerOnline(k)
    BY <2>2, <1>2 DEF PeerOnline, ApplyWGPeerDelta
  <2>3. CASE PeerOnlineFails(k) \/ PeerWentOfflineFails(k) \/ NothingToWrite(k)
    BY <2>3, <1>u DEF PeerOnlineFails, PeerWentOfflineFails, NothingToWrite,
       Visit, RolledBack
  <2>4. CASE PeerWentOffline(k)
    <3>1. CASE NameOf[k] \in open
      BY <2>4, <3>1, <1>2 DEF PeerWentOffline, CloseWGPeerSession, FoldFinalDelta
    <3>2. CASE NameOf[k] \notin open
      BY <2>4, <3>2, <1>u DEF PeerWentOffline, CloseWGPeerSession, Visit
    <3> QED
      BY <3>1, <3>2
  <2>5. CASE FirstSighting(k)
    BY <2>5, <1>u DEF FirstSighting, SaveWGPeerState, RolledBack, Visit
  <2>6. CASE TrailingBytes(k)
    <3>1. CASE ApplyWGTrailingDelta(k) /\ Remember(k) /\ NameOf[k] \in closed
      BY <2>6, <3>1, <1>2 DEF TrailingBytes, ApplyWGTrailingDelta
    <3>2. CASE UNCHANGED cred
      BY <2>6, <3>2, <1>u DEF TrailingBytes, Visit
    <3> QED
      BY <2>6, <3>1, <3>2 DEF TrailingBytes, ApplyWGTrailingDelta, RolledBack
  <2> QED
    BY <1>4, <2>1, <2>2, <2>3, <2>4, <2>5, <2>6 DEF VisitPeer
<1>5. ASSUME NEW k \in Peer,
             \/ Handshake(k) \/ HandshakeExpires(k) \/ AddPeer(k) \/ RemovePeer(k)
             \/ RegistryDrops(k) \/ RegistryGains(k)
      PROVE  Books!Next
  BY <1>5, <1>u DEF Handshake, HandshakeExpires, AddPeer, RemovePeer,
     RegistryDrops, RegistryGains
<1>6. ASSUME NEW n \in Name, UpsertKnownClient(n) \/ CloseVanished(n)
      PROVE  Books!Next
  BY <1>6, <1>u DEF UpsertKnownClient, CloseVanished, CloseGone, CloseGoneFails,
     CloseWGSessionByName, RolledBack
<1>7. ASSUME Start \/ Crash \/ DumpSucceeds \/ DumpFails \/ DeclareDown
             \/ PeersDone \/ PollDone
      PROVE  Books!Next
  BY <1>7, <1>u DEF Start, Crash, DumpSucceeds, DumpFails, DeclareDown,
     CloseAllWGSessions, PeersDone, PollDone
<1>8. CASE UNCHANGED vars
  BY <1>8, <1>u DEF vars
<1> QED
  BY <1>1, <1>3, <1>4, <1>5, <1>6, <1>7, <1>8 DEF Next, Environment, Poll

\* Seen through its counters, baselines and sessions, the poller is a
\* ledger: each byte is moved once, due, and then booked once, unless its
\* peer is given up; provided the baselines are read at every start.
THEOREM PollerImplementsLedger ==
    "loadStates" \notin FailOps => (Spec => ImplementsLedger)
<1> SUFFICES ASSUME "loadStates" \notin FailOps
             PROVE  Spec => Books!Spec
  BY DEF ImplementsLedger
<1>1. Init => Books!Init
  <2> SUFFICES ASSUME Init PROVE Books!Init
    OBVIOUS
  <2>1. \A k \in Peer : Delta(Baseline(k), ctr[k]) = 0
    BY DeltaZero DEF Init, Baseline, Counter
  <2> QED
    BY <2>1 DEF Init, Books!Init
<1>2. TypeOK /\ Ledger /\ Exact /\ [Next]_vars => Ledger' /\ Exact'
  BY LedgerInductive, ExactInductive
<1>3. TypeOK /\ Ledger => Covered
  BY BooksCovered DEF Covered
<1>4. /\ TypeOK /\ TypeOK' /\ Ledger /\ Exact /\ Covered /\ Covered' /\ [Next]_vars
      => [Books!Next]_(Books!books)
  BY StepImplements
<1> QED
  BY ExactInitially, <1>1, <1>2, <1>3, <1>4, TypeCorrect, PTL DEF Spec, Books!Spec

-----------------------------------------------------------------------------
(***************************************************************************)
(* The online set agrees with the open sessions.                           *)
(***************************************************************************)

\* Names the poller may rightly hold online.
Backed == open \cup slipped

\* While a poll works through its dump: who was online still is until the
\* dump's turn comes to it, and who was found online has a session.
Matched ==
    /\ pc = "idle" => online \subseteq Backed
    /\ pc = "peers" =>
         /\ online \ seen \subseteq Backed
         /\ current \subseteq Backed \cap seen
         /\ \A k \in resolved :
              /\ NameOf[k] \notin current /\ NameOf[k] \in seen
              /\ NameOf[k] \in online => NameOf[k] \in Backed
         /\ \A k \in todo \ resolved : NameOf[k] \notin seen
    /\ pc = "gone" =>
         /\ current \cup gone \subseteq Backed
         /\ gone \cap current = {}

\* When every client has one key, the poller's online names are those with
\* an open session, up to names whose write failed or whose data was purged,
\* provided the open sessions are read at every start and the shutdown at
\* maxDumpFailures does not fail.
THEOREM OnlineAgrees ==
    /\ {"loadOpen", "closeAll"} \cap FailOps = {}
    /\ \A j, k \in Peer : NameOf[j] = NameOf[k] => j = k
    => (Spec => []OnlineMatchesOpen)
<1> USE NamingAssumption DEF kernel, store, pass, memory
<1> SUFFICES ASSUME {"loadOpen", "closeAll"} \cap FailOps = {},
                    \A j, k \in Peer : NameOf[j] = NameOf[k] => j = k
             PROVE  Spec => []OnlineMatchesOpen
  OBVIOUS
<1>1. Init => Tracked /\ Matched
  BY DEF Init, Tracked, OpenTracked, Matched
<1>2. ASSUME TypeOK, Tracked, Matched, [Next]_vars PROVE Matched'
  <2> USE <1>2 DEF Matched, Backed
  <2>0. /\ pc \in {"off", "idle"} => current = {} /\ seen = {}
        /\ \A j, k \in resolved : j = k
        /\ pc # "peers" => resolved = {}
        /\ resolved \subseteq todo /\ todo \subseteq Peer /\ present \subseteq Peer
    BY DEF Tracked, TypeOK
  <2>1. ASSUME NEW k \in Peer,
               \/ Transfer(k) \/ Handshake(k) \/ HandshakeExpires(k) \/ AddPeer(k)
               \/ RemovePeer(k) \/ RegistryDrops(k) \/ RegistryGains(k)
        PROVE  Matched'
    BY <2>1 DEF Transfer, Handshake, HandshakeExpires, AddPeer, RemovePeer,
       RegistryDrops, RegistryGains
  <2>2. ASSUME NEW n \in Name, UpsertKnownClient(n) \/ Reap(n) PROVE Matched'
    BY <2>2 DEF UpsertKnownClient, Reap, DeleteClientData, DeleteSessions
  <2>3. ASSUME Start PROVE Matched'
    BY <2>3 DEF Start
  <2>4. ASSUME Crash PROVE Matched'
    BY <2>4 DEF Crash
  <2>5. ASSUME DumpSucceeds PROVE Matched'
    BY <2>0, <2>5 DEF DumpSucceeds
  <2>6. ASSUME DumpFails \/ DeclareDown PROVE Matched'
    BY <2>6 DEF DumpFails, DeclareDown, CloseAllWGSessions, ForgetOnline
  <2>7. ASSUME NEW k \in Peer, SkipUnknown(k) PROVE Matched'
    BY <2>7 DEF SkipUnknown
  <2>8. ASSUME NEW k \in Peer, Lookup(k) PROVE Matched'
    BY <2>0, <2>8 DEF Lookup
  <2>9. ASSUME NEW k \in Peer, Visit(k),
               \/ NameOf[k] \in Backed' /\ MarkOnline(k)
               \/ UNCHANGED current,
               Backed \ {NameOf[k]} \subseteq Backed'
        PROVE  Matched'
    <3>1. /\ resolved = {k} /\ resolved' = {} /\ todo' = todo \ {k}
          /\ pc = "peers" /\ pc' = pc /\ NameOf[k] \in seen
          /\ UNCHANGED <<online, seen>>
      BY <2>0, <2>9 DEF Visit
    <3> QED
      BY <2>9, <3>1 DEF MarkOnline
  <2>10. ASSUME NEW k \in Peer, PeerOnline(k) \/ PeerOnlineFails(k) PROVE Matched'
    BY <2>9, <2>10 DEF PeerOnline, PeerOnlineFails, ApplyWGPeerDelta, RolledBack
  <2>11. ASSUME NEW k \in Peer, PeerWentOffline(k) PROVE Matched'
    BY <2>9, <2>11 DEF PeerWentOffline, CloseWGPeerSession
  <2>12. ASSUME NEW k \in Peer, PeerWentOfflineFails(k) PROVE Matched'
    BY <2>9, <2>12 DEF PeerWentOfflineFails, WentOffline, RetryNextPoll,
       RolledBack, Visit
  <2>13. ASSUME NEW k \in Peer, FirstSighting(k) \/ TrailingBytes(k) \/ NothingToWrite(k)
         PROVE  Matched'
    BY <2>9, <2>13 DEF FirstSighting, TrailingBytes, NothingToWrite,
       SaveWGPeerState, ApplyWGTrailingDelta, RolledBack
  <2>14. ASSUME PeersDone PROVE Matched'
    BY <2>0, <2>14 DEF PeersDone, Vanished
  <2>15. ASSUME NEW n \in Name, CloseGone(n) \/ CloseGoneFails(n) PROVE Matched'
    BY <2>15 DEF CloseGone, CloseGoneFails, CloseWGSessionByName, RolledBack
  <2>16. ASSUME PollDone PROVE Matched'
    BY <2>16 DEF PollDone
  <2>17. CASE UNCHANGED vars
    BY <2>17 DEF vars
  <2> QED
    BY <2>1, <2>2, <2>3, <2>4, <2>5, <2>6, <2>7, <2>8, <2>10, <2>11, <2>12,
       <2>13, <2>14, <2>15, <2>16, <2>17
       DEF Next, Environment, Poll, VisitPeer, CloseVanished
<1>3. Tracked /\ Matched => OnlineMatchesOpen
  BY DEF Tracked, OpenTracked, Matched, Backed, OnlineMatchesOpen
<1>4. TypeOK /\ Tracked /\ [Next]_vars => Tracked'
  BY TrackedInductive
<1> QED
  BY <1>1, <1>2, <1>3, <1>4, TypeCorrect, PTL DEF Spec

=============================================================================
