---------------------------- MODULE ReaperProofs ----------------------------
(***************************************************************************)
(* Proofs about Reaper, for any names and any outages of the two files.    *)
(***************************************************************************)
EXTENDS Reaper, TLAPS

\* Every reachable state of the sources and of the reaper's passes is
\* well-formed; in particular a pass never outlives the panel.
THEOREM ReaperTypeCorrect == Spec => []TypeOK
<1> USE SourceAssumption DEF files, panel, pass, Loop, Stage, At
<1>1. Init => TypeOK
  BY DEF Init, TypeOK
<1>2. ASSUME TypeOK, [Next]_vars PROVE TypeOK'
  <2> USE <1>2 DEF TypeOK
  <2>1. ASSUME NEW n \in Edited, Edit(n) PROVE TypeOK'
    BY <2>1 DEF Edit, Issue, Revoke, AddPeer, RemovePeer
  <2>2. ASSUME EmptyConf \/ Outage PROVE TypeOK'
    BY <2>2 DEF EmptyConf, Outage
  <2>3. ASSUME NEW n \in Name, ClientSeen(n) PROVE TypeOK'
    BY <2>3 DEF ClientSeen
  <2>4. ASSUME Start PROVE TypeOK'
    BY <2>4 DEF Start, RegistryLoad, MarkDisabled, IndexNames
  <2>5. ASSUME Crash PROVE TypeOK'
    BY <2>5 DEF Crash
  <2>6. ASSUME CertReload PROVE TypeOK'
    BY <2>6 DEF CertReload, IndexNames
  <2>7. ASSUME ConfReload PROVE TypeOK'
    <3>1. PICK conf \in ConfStates : RegistryLoad(conf)
      BY <2>7 DEF ConfReload
    <3>2. /\ names' \subseteq Name /\ (~loadedOnce' => names' = {})
          /\ healthy' \in BOOLEAN /\ loadedOnce' \in BOOLEAN
          /\ notFound' \in BOOLEAN
      BY <3>1 DEF RegistryLoad, ConfAbsent
    <3>3. pc' \in [Loop -> Stage] /\ up /\ up' = up
      BY <2>7 DEF ConfReload
    <3> QED
      BY <2>7, <3>2, <3>3 DEF ConfReload
  <2>8. ASSUME UpsertPeers PROVE TypeOK'
    BY <2>8 DEF UpsertPeers
  <2>9. ASSUME NEW l \in Loop, Reap(l) PROVE TypeOK'
    <3>1. CASE ReapReadCerts(l)
      BY <3>1 DEF ReapReadCerts
    <3>2. CASE ReapCheckHealth(l)
      BY <3>2 DEF ReapCheckHealth
    <3>3. CASE ReapReadNames(l)
      BY <3>3 DEF ReapReadNames, ValidInEither
    <3>4. CASE ReapListClients(l)
      BY <3>4 DEF ReapListClients, Doomed
    <3>5. ASSUME NEW n \in Name, DeleteClientData(l, n) \/ DeleteFails(l, n)
          PROVE  TypeOK'
      BY <3>5 DEF DeleteClientData, DeleteFails
    <3>6. CASE ReapDone(l)
      BY <3>6 DEF ReapDone
    <3> QED
      BY <2>9, <3>1, <3>2, <3>3, <3>4, <3>5, <3>6 DEF Reap
  <2>10. CASE UNCHANGED vars
    BY <2>10 DEF vars
  <2> QED
    BY <1>2, <2>1, <2>2, <2>3, <2>4, <2>5, <2>6, <2>7, <2>8, <2>9, <2>10
       DEF Next, CertLoop, ConfLoop
<1> QED
  BY <1>1, <1>2, PTL DEF Spec

-----------------------------------------------------------------------------
(***************************************************************************)
(* Steady clients keep their data.  A name that stays in a file is in the  *)
(* memory of its loader whenever a pass may read it there, is in the valid *)
(* set of every pass from then on, and so is never a victim.               *)
(***************************************************************************)
CertKept(n) ==
    /\ certs = {} \/ n \in certs
    /\ \A l \in Loop : pc[l] \in {"health", "names", "list"} => n \in valid[l]

PeerKept(n) ==
    /\ healthy => n \in names
    /\ \A l \in Loop : /\ pc[l] = "names" => n \in names
                       /\ pc[l] = "list" => n \in valid[l]

Spared(n) == \A l \in Loop : n \notin victims[l]

Kept ==
    /\ \A n \in certFile \ Edited : CertKept(n) /\ Spared(n)
    /\ ~notFound => \A n \in SteadyPeers : PeerKept(n) /\ Spared(n)

\* Unless it finds wg0.conf missing before it has read it, a load leaves the
\* registry unhealthy or with the peers that stay in the file.
LEMMA LoadKeeps ==
    ASSUME NEW conf, RegistryLoad(conf), ~notFound', NEW n \in SteadyPeers
    PROVE  /\ ~notFound
           /\ healthy' => n \in names'
           /\ n \in names => n \in names'
<1>1. ~notFound /\ ~ConfAbsent(conf)
  BY DEF RegistryLoad
<1> QED
  BY <1>1 DEF RegistryLoad, SteadyPeers

\* No step of the program or of its environment breaks Kept.
LEMMA KeptInductive ==
    ASSUME TypeOK, Kept, [Next]_vars
    PROVE  Kept'
<1> USE SourceAssumption DEF files, panel, pass, Loop, Stage, At,
        TypeOK, Kept, CertKept, PeerKept, Spared
<1>1. ASSUME NEW n \in Edited, Edit(n) PROVE Kept'
  BY <1>1 DEF Edit, Issue, Revoke, AddPeer, RemovePeer, SteadyPeers
<1>2. ASSUME EmptyConf \/ Outage PROVE Kept'
  BY <1>2 DEF EmptyConf, Outage, SteadyPeers
<1>3. ASSUME NEW n \in Name, ClientSeen(n) PROVE Kept'
  BY <1>3 DEF ClientSeen, SteadyPeers
<1>4. ASSUME Start PROVE Kept'
  <2>1. /\ UNCHANGED files /\ UNCHANGED enabled /\ UNCHANGED pass
        /\ \A l \in Loop : pc[l] = "idle"
    BY <1>4 DEF Start
  <2>2. \A n \in certFile' \ Edited : CertKept(n)' /\ Spared(n)'
    <3>1. PICK index \in IndexStates :
             certs' = IF index = "error" THEN certs ELSE IndexNames(index)
      BY <1>4 DEF Start
    <3> QED
      BY <2>1, <3>1 DEF IndexNames
  <2>3. ASSUME ~notFound', NEW n \in SteadyPeers'
        PROVE  PeerKept(n)' /\ Spared(n)'
    <3>1. n \in SteadyPeers /\ enabled
      BY <2>1, <2>3 DEF SteadyPeers
    <3>2. PICK conf \in ConfStates : RegistryLoad(conf)
      BY <1>4, <3>1 DEF Start
    <3>3. ~notFound /\ (healthy' => n \in names')
      BY <2>3, <3>1, <3>2, LoadKeeps
    <3> QED
      BY <2>1, <3>1, <3>3
  <2> QED
    BY <2>2, <2>3
<1>5. ASSUME Crash PROVE Kept'
  BY <1>5 DEF Crash, SteadyPeers
<1>6. ASSUME CertReload PROVE Kept'
  BY <1>6 DEF CertReload, IndexNames, SteadyPeers
<1>7. ASSUME ConfReload PROVE Kept'
  <2>1. UNCHANGED files /\ UNCHANGED <<certs, valid, victims>>
    BY <1>7 DEF ConfReload
  <2>2. PICK conf \in ConfStates : RegistryLoad(conf)
    BY <1>7 DEF ConfReload
  <2>3. \A l \in Loop : pc'[l] = pc[l] \/ pc'[l] = "upsert"
    BY <1>7 DEF ConfReload
  <2>4. \A n \in certFile' \ Edited : CertKept(n)' /\ Spared(n)'
    BY <2>1, <2>3
  <2>5. ASSUME ~notFound', NEW n \in SteadyPeers'
        PROVE  PeerKept(n)' /\ Spared(n)'
    <3>1. n \in SteadyPeers
      BY <2>1, <2>5 DEF SteadyPeers
    <3>2. /\ ~notFound
          /\ healthy' => n \in names'
          /\ n \in names => n \in names'
      BY <2>2, <2>5, <3>1, LoadKeeps
    <3>3. PeerKept(n) /\ Spared(n)
      BY <3>1, <3>2
    <3> QED
      BY <2>1, <2>3, <3>2, <3>3
  <2> QED
    BY <2>4, <2>5
<1>8. ASSUME UpsertPeers PROVE Kept'
  BY <1>8 DEF UpsertPeers, SteadyPeers
<1>9. ASSUME NEW l \in Loop, Reap(l) PROVE Kept'
  <2>1. CASE ReapReadCerts(l)
    BY <2>1 DEF ReapReadCerts, SteadyPeers
  <2>2. CASE ReapCheckHealth(l)
    BY <2>2 DEF ReapCheckHealth, SteadyPeers
  <2>3. CASE ReapReadNames(l)
    BY <2>3 DEF ReapReadNames, ValidInEither, SteadyPeers
  <2>4. CASE ReapListClients(l)
    BY <2>4 DEF ReapListClients, Doomed, SteadyPeers
  <2>5. ASSUME NEW n \in Name, DeleteClientData(l, n) \/ DeleteFails(l, n)
        PROVE  Kept'
    BY <2>5 DEF DeleteClientData, DeleteFails, SteadyPeers
  <2>6. CASE ReapDone(l)
    BY <2>6 DEF ReapDone, SteadyPeers
  <2> QED
    BY <1>9, <2>1, <2>2, <2>3, <2>4, <2>5, <2>6 DEF Reap
<1>10. CASE UNCHANGED vars
  BY <1>10 DEF vars, SteadyPeers
<1> QED
  BY <1>1, <1>2, <1>3, <1>4, <1>5, <1>6, <1>7, <1>8, <1>9, <1>10
     DEF Next, CertLoop, ConfLoop

\* Whatever the two files go through, a client that stays in one of them is
\* never deleted by either loop's pass, but for a peer whose wg0.conf the panel
\* found missing before it had read it.
THEOREM SteadyKept == Spec => SteadyClientsKept
<1>1. Init => Kept
  BY DEF Init, Kept, CertKept, PeerKept, Spared, Loop
<1>2. TypeOK /\ Kept /\ [Next]_vars => Kept'
  BY KeptInductive
<1>3. Kept /\ [Next]_vars
        => [\A n \in Steady : ~Deleted(n)]_vars
  BY DEF Kept, Spared, Steady, Deleted, DeleteClientData
<1> QED
  BY <1>1, <1>2, <1>3, ReaperTypeCorrect, PTL DEF Spec, SteadyClientsKept
=============================================================================
