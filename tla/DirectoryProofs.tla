-------------------------- MODULE DirectoryProofs --------------------------
(***************************************************************************)
(* The names the panel goes by, for any files and any number of clients:   *)
(* TypeOK, and NamesAsCommented when the configurations are tidy.          *)
(*                                                                         *)
(* First the parser, whose states are typed line by line; then the maps    *)
(* made of its peers, of which the last with a key counts; then the steps. *)
(* For the names, what the parser has waiting and open after a line is     *)
(* compared with the comments above that line (Follows).                   *)
(***************************************************************************)
EXTENDS Directory, ListLemmas, FiniteSetTheorems, TLAPS

-----------------------------------------------------------------------------
(* The parser: its states.                                                 *)

OpenBlock == [name : Name \cup {NoName}, key : Key \cup {NoKey}, ips : SUBSET Addr]
Parser == [open : BOOLEAN, block : OpenBlock, pending : Name \cup {NoName}, peers : Seq(Peer)]

(* A block that is closed is a peer: it has a name, from its key if from   *)
(* nowhere else.                                                           *)
LEMMA FlushType ==
  ASSUME NEW s \in Parser
  PROVE  flush(s) \in Seq(Peer)
<1> DEFINE b == s.block
<1>1. b \in OpenBlock /\ s.peers \in Seq(Peer)
  BY DEF Parser
<1>2. CASE s.open /\ b.key # NoKey
  <2> DEFINE n == IF b.name = NoName THEN FallbackOf[b.key] ELSE b.name
             p == [b EXCEPT !.name = n]
  <2>1. n \in Name
    BY <1>1, <1>2, FallbackAssumption DEF OpenBlock
  <2>2. p \in Peer
    <3> HIDE DEF n, b
    <3> QED
      BY <1>1, <1>2, <2>1 DEF OpenBlock, Peer
  <2>3. flush(s) = Append(s.peers, p)
    BY <1>2 DEF flush
  <2> HIDE DEF p
  <2> QED
    BY <1>1, <2>2, <2>3
<1>3. CASE ~(s.open /\ b.key # NoKey)
  BY <1>1, <1>3 DEF flush
<1> QED
  BY <1>2, <1>3

(* The kinds of line.                                                      *)
LEMMA LineIs ==
  ASSUME NEW l \in Line
  PROVE  \/ l.kind = "comment" /\ l.name \in Name
         \/ l.kind = "key" /\ l.key \in Key
         \/ l.kind = "ips" /\ l.ips \in SUBSET Addr
         \/ l.kind = "peer"
         \/ l.kind = "interface"
BY DEF Line, Comment, PublicKey, AllowedIPs, Header, Interface

(* The parser begins in one of its states, and every line leaves it in     *)
(* one.                                                                    *)
LEMMA BegunType == Begun \in Parser
BY DEF Begun, Parser, NewBlock, OpenBlock

LEMMA ReadLineType ==
  ASSUME NEW s \in Parser, NEW l \in Line
  PROVE  ReadLine(s, l) \in Parser
<1>0. flush(s) \in Seq(Peer)
  BY FlushType
<1>1. CASE l.kind = "comment" /\ l.name \in Name
  <2>1. ReadLine(s, l) = setPeerName(s, l.name)
    BY <1>1 DEF ReadLine
  <2>2. CASE s.open /\ s.block.name = NoName
    <3>1. ReadLine(s, l) = [s EXCEPT !.block.name = l.name]
      BY <2>1, <2>2 DEF setPeerName
    <3> QED
      BY <1>1, <3>1 DEF Parser, OpenBlock
  <2>3. CASE ~(s.open /\ s.block.name = NoName)
    <3>1. ReadLine(s, l) = [s EXCEPT !.pending = l.name]
      BY <2>1, <2>3 DEF setPeerName
    <3> QED
      BY <1>1, <3>1 DEF Parser, OpenBlock
  <2> QED
    BY <2>2, <2>3
<1>2. CASE l.kind = "key" /\ l.key \in Key
  <2>1. ReadLine(s, l) = IF s.open THEN [s EXCEPT !.block.key = l.key] ELSE s
    BY <1>2 DEF ReadLine
  <2> QED
    BY <1>2, <2>1 DEF Parser, OpenBlock
<1>3. CASE l.kind = "ips" /\ l.ips \in SUBSET Addr
  <2>1. ReadLine(s, l) = IF s.open THEN [s EXCEPT !.block.ips = @ \cup l.ips] ELSE s
    BY <1>3 DEF ReadLine
  <2> QED
    BY <1>3, <2>1 DEF Parser, OpenBlock
<1>4. CASE l.kind = "peer"
  <2>1. ReadLine(s, l) = [open |-> TRUE, block |-> NewBlock(s.pending),
                          pending |-> NoName, peers |-> flush(s)]
    BY <1>4 DEF ReadLine
  <2> QED
    BY <1>0, <2>1 DEF Parser, OpenBlock, NewBlock
<1>5. CASE l.kind = "interface"
  <2>1. ReadLine(s, l) = [s EXCEPT !.open = FALSE, !.pending = NoName, !.peers = flush(s)]
    BY <1>5 DEF ReadLine
  <2> QED
    BY <1>0, <2>1 DEF Parser, OpenBlock
<1> QED
  BY <1>1, <1>2, <1>3, <1>4, <1>5, LineIs

(* So it is in one after each line of a file, the one ReadLine says.       *)
LEMMA ParsedIs ==
  ASSUME NEW file \in Seq(Line)
  PROVE  /\ Parsed(file) \in [0 .. Len(file) -> Parser]
         /\ Parsed(file)[0] = Begun
         /\ \A i \in 1 .. Len(file) :
               Parsed(file)[i] = ReadLine(Parsed(file)[i - 1], file[i])
<1> DEFINE n == Len(file)
           step == [i \in 1 .. n |-> [s \in Parser |-> ReadLine(s, file[i])]]
<1>1. n \in Nat /\ \A i \in 1 .. n : file[i] \in Line
  OBVIOUS
<1>2. step \in [1 .. n -> [Parser -> Parser]]
  BY <1>1, ReadLineType
<1>3. \A i \in 1 .. n, s \in Parser : step[i][s] = ReadLine(s, file[i])
  OBVIOUS
<1> HIDE DEF step, n
<1>4. PICK h : h \in Runs(n, Parser, Begun, step)
  BY <1>1, <1>2, BegunType, Iterate
<1> DEFINE Eq(f) == f = [i \in 0 .. n |-> IF i = 0 THEN Begun
                                          ELSE ReadLine(f[i - 1], file[i])]
<1>5. Eq(h)
  <2>1. h \in [0 .. n -> Parser] /\ h[0] = Begun
    BY <1>4 DEF Runs
  <2>2. ASSUME NEW i \in 1 .. n
        PROVE  h[i] = ReadLine(h[i - 1], file[i])
    <3>1. i - 1 \in 0 .. n
      BY <1>1
    <3>2. h[i] = step[i][h[i - 1]]
      BY <1>4 DEF Runs
    <3> QED
      BY <1>3, <2>1, <3>1, <3>2
  <2>3. \A i \in 0 .. n : h[i] = IF i = 0 THEN Begun ELSE ReadLine(h[i - 1], file[i])
    BY <1>1, <2>1, <2>2
  <2> QED
    BY <2>1, <2>3
<1> DEFINE c == CHOOSE f : Eq(f)
<1>6. Eq(c)
  <2> HIDE DEF Eq
  <2> QED
    BY <1>5
<1>7. Parsed(file) = c
  BY DEF Parsed, n
<1> HIDE DEF c
<1>8. /\ c[0] = Begun
      /\ \A i \in 1 .. n : c[i] = ReadLine(c[i - 1], file[i])
      /\ c = [i \in 0 .. n |-> c[i]]
  BY <1>1, <1>6
<1> HIDE DEF Eq
<1> DEFINE T == {i \in 0 .. n : c[i] \in Parser}
<1>9. 0 \in T
  BY <1>1, <1>8, BegunType
<1>10. ASSUME NEW i \in 1 .. n, i - 1 \in T
       PROVE  i \in T
  <2>1. c[i - 1] \in Parser /\ file[i] \in Line /\ i \in 0 .. n
    BY <1>1, <1>10
  <2>2. c[i] = ReadLine(c[i - 1], file[i])
    BY <1>8
  <2>3. c[i] \in Parser
    BY <2>1, <2>2, ReadLineType
  <2> QED
    BY <2>1, <2>3
<1>11. \A i \in 0 .. n : i \in T
  <2> HIDE DEF T
  <2> QED
    BY <1>1, <1>9, <1>10, UpTo
<1>12. c \in [0 .. n -> Parser]
  BY <1>8, <1>11
<1> QED
  BY <1>7, <1>8, <1>12 DEF n

-----------------------------------------------------------------------------
(* The maps made of the peers.                                             *)

(* The registry reads files, and nothing but peers comes of it.            *)
LEMMA TextType == ASSUME NEW t \in Text PROVE t \in Seq(Line)
<1>1. <<>> \in Seq(Line)
  OBVIOUS
<1>2. Conf \subseteq Seq(Line)
  BY ConfAssumption
<1> QED
  BY <1>1, <1>2 DEF Text

LEMMA PeersType ==
  ASSUME NEW t \in Text
  PROVE  /\ PeersOf[t] \in Seq(Peer)
         /\ DOMAIN PeersOf[t] = 1 .. Len(PeersOf[t])
         /\ Len(PeersOf[t]) \in Nat
         /\ \A i \in DOMAIN PeersOf[t] : PeersOf[t][i] \in Peer
<1>1. Parsed(t)[Len(t)] \in Parser
  <2>1. t \in Seq(Line)
    BY TextType
  <2>2. Len(t) \in 0 .. Len(t)
    BY <2>1
  <2> QED
    BY <2>1, <2>2, ParsedIs
<1>2. PeersOf[t] \in Seq(Peer)
  BY <1>1, FlushType DEF PeersOf, ParsePeers
<1> QED
  BY <1>2

(* The last of some places is one of them.                                 *)
LEMMA LastIs ==
  ASSUME NEW n \in Nat, NEW T \in SUBSET (1 .. n), T # {}
  PROVE  Max(T) \in T /\ \A i \in T : i <= Max(T)
<1>1. T \in SUBSET (0 .. n)
  OBVIOUS
<1>2. \E k \in T : \A m \in T : k >= m
  BY <1>1, Greatest
<1>3. Max(T) \in T /\ \A m \in T : Max(T) >= m
  BY <1>2 DEF Max
<1> QED
  BY <1>3

(* A key that is known is that of a peer, who gives it the name.           *)
LEMMA ByPubKeyIs ==
  ASSUME NEW t \in Text, NEW k \in DOMAIN ByPubKey[t]
  PROVE  \E i \in DOMAIN PeersOf[t] : /\ PeersOf[t][i].key = k
                                      /\ ByPubKey[t][k] = PeersOf[t][i].name
<1> DEFINE ps == PeersOf[t]
           I == {i \in DOMAIN ps : ps[i].key = k}
<1>1. ps \in Seq(Peer) /\ DOMAIN ps = 1 .. Len(ps) /\ Len(ps) \in Nat
  BY PeersType
<1>2. k \in {p.key : p \in Range(ps)} /\ ByPubKey[t][k] = LastPeer(t, I).name
  BY DEF ByPubKey
<1>3. PICK i \in DOMAIN ps : ps[i].key = k
  BY <1>2 DEF Range
<1>4. Max(I) \in I
  <2>1. I \in SUBSET (1 .. Len(ps)) /\ I # {}
    BY <1>1, <1>3
  <2> HIDE DEF I, ps
  <2> QED
    BY <1>1, <2>1, LastIs
<1> QED
  BY <1>2, <1>4 DEF LastPeer

(* So it is a name.                                                        *)
LEMMA ByPubKeyType ==
  ASSUME NEW t \in Text, NEW k \in DOMAIN ByPubKey[t]
  PROVE  ByPubKey[t][k] \in Name
BY ByPubKeyIs, PeersType DEF Peer

(* The pool gives names to addresses.                                      *)
LEMMA LeasesType ==
  ASSUME NEW text \in Seq(Name \X Addr)
  PROVE  /\ DOMAIN Leases(text) \subseteq Addr
         /\ \A a \in DOMAIN Leases(text) : Leases(text)[a] \in Name
<1>1. /\ DOMAIN text = 1 .. Len(text) /\ Len(text) \in Nat
      /\ \A i \in DOMAIN text : text[i] \in Name \X Addr
  OBVIOUS
<1>2. \A i \in DOMAIN text : text[i][1] \in Name /\ text[i][2] \in Addr
  BY <1>1
<1>3. DOMAIN Leases(text) = {text[i][2] : i \in DOMAIN text}
  BY DEF Leases
<1>4. ASSUME NEW a \in DOMAIN Leases(text)
      PROVE  Leases(text)[a] \in Name
  <2> DEFINE I == {i \in DOMAIN text : text[i][2] = a}
  <2>1. Leases(text)[a] = text[Max(I)][1]
    BY <1>3 DEF Leases
  <2>2. I \in SUBSET (1 .. Len(text)) /\ I # {}
    BY <1>1, <1>3
  <2>3. Max(I) \in DOMAIN text
    <3>1. Max(I) \in I
      <4> HIDE DEF I
      <4> QED
        BY <1>1, <2>2, LastIs
    <3> QED
      BY <3>1
  <2> HIDE DEF I
  <2> QED
    BY <1>2, <2>1, <2>3
<1> QED
  BY <1>2, <1>3, <1>4

-----------------------------------------------------------------------------
(* The count, and the steps.                                               *)

(* The count holds as many names as there are, however the table changes.  *)
Counted ==
    /\ count \in [step : {"idle", "checking", "joining"}, left : SUBSET Name,
                  total : 0 .. Cardinality(Name), online : SUBSET Name]
    /\ Cardinality(count.left) + count.total <= Cardinality(Name)

(* Of the names there are, no set has more than all.                       *)
LEMMA SizeOf ==
  ASSUME NEW S \in SUBSET Name
  PROVE  IsFiniteSet(S) /\ Cardinality(S) \in Nat /\ Cardinality(S) <= Cardinality(Name)
BY NameAssumption, FS_Subset, FS_CardinalityType

(* Counting keeps within that: each name is taken off once.                *)
LEMMA CountStep ==
  ASSUME TypeOK, Count
  PROVE  Counted'
<1> DEFINE max == Cardinality(Name)
<1>1. /\ count \in [step : {"idle", "checking", "joining"}, left : SUBSET Name,
                    total : 0 .. max, online : SUBSET Name]
      /\ Cardinality(count.left) + count.total <= max
      /\ max \in Nat
  BY SizeOf DEF TypeOK
<1>2. Cardinality({}) = 0
  BY FS_EmptySet
<1> HIDE DEF max
<1>3. CASE CountNames
  <2>1. count' = [step |-> "checking", left |-> rows, total |-> 0, online |-> {}]
    BY <1>3 DEF CountNames
  <2>2. rows \in SUBSET Name
    BY DEF TypeOK
  <2>3. Cardinality(rows) + 0 <= max
    BY <2>2, SizeOf DEF max
  <2> QED
    BY <1>1, <2>1, <2>2, <2>3 DEF Counted, max
<1>4. CASE CountValid
  <2>1. PICK n \in count.left :
           count' = [count EXCEPT !.left = @ \ {n},
                                  !.total = @ + (IF Valid(n) THEN 1 ELSE 0)]
    BY <1>4 DEF CountValid
  <2> DEFINE left == count.left \ {n}
             total == count.total + (IF Valid(n) THEN 1 ELSE 0)
  <2>2. left \in SUBSET Name /\ Cardinality(left) = Cardinality(count.left) - 1
    <3>1. count.left \in SUBSET Name
      BY <1>1
    <3> QED
      BY <3>1, SizeOf, FS_RemoveElement
  <2>3. total \in Nat /\ total <= count.total + 1
    BY <1>1
  <2>4. count' = [count EXCEPT !.left = left, !.total = total]
    BY <2>1
  <2>5. Cardinality(left) \in Nat /\ Cardinality(count.left) \in Nat
    BY <1>1, <2>2, SizeOf
  <2> HIDE DEF left, total
  <2>6. Cardinality(left) + total <= max /\ total \in 0 .. max
    BY <1>1, <2>2, <2>3, <2>5
  <2>7. count' \in [step : {"idle", "checking", "joining"}, left : SUBSET Name,
                    total : 0 .. max, online : SUBSET Name]
    BY <1>1, <2>2, <2>4, <2>6
  <2>8. count'.left = left /\ count'.total = total
    BY <1>1, <2>4
  <2> QED
    BY <2>6, <2>7, <2>8 DEF Counted, max
<1>5. CASE CountOvpn
  <2>1. /\ count.left = {}
        /\ count' = [count EXCEPT !.step = "joining", !.online = ovpnOnline]
    BY <1>5 DEF CountOvpn
  <2>2. ovpnOnline \in SUBSET Name
    BY DEF TypeOK
  <2> QED
    BY <1>1, <2>1, <2>2 DEF Counted, max
<1>6. CASE CountWG
  <2>1. count' = [step |-> "idle", left |-> {}, total |-> 0, online |-> {}]
    BY <1>6 DEF CountWG
  <2> QED
    BY <1>1, <1>2, <2>1 DEF Counted, max
<1> QED
  BY <1>3, <1>4, <1>5, <1>6 DEF Count

(* The types hold at the start and after every step.                       *)
LEMMA DirectoryInit == ASSUME Init PROVE TypeOK
<1>1. Cardinality({}) = 0 /\ Cardinality(Name) \in Nat
  BY FS_EmptySet, SizeOf
<1>2. /\ count.left = {} /\ count.total = 0
      /\ count \in [step : {"idle", "checking", "joining"}, left : SUBSET Name,
                    total : 0 .. Cardinality(Name), online : SUBSET Name]
  BY <1>1 DEF Init
<1>3. DOMAIN vpnToName = {}
  BY DEF Init, NoOne
<1>4. read \in Text
  BY DEF Init, Text
<1>5. Counted
  BY <1>1, <1>2 DEF Counted
<1>6. /\ conf \in Conf /\ pool \in Pool /\ certs \in Certs /\ quiet \in BOOLEAN
      /\ whitelist = {} /\ rows = {} /\ ovpnOnline = {} /\ logged = {} /\ wgOnline = {}
  BY DEF Init
<1> QED
  BY <1>3, <1>4, <1>5, <1>6 DEF Counted, TypeOK

LEMMA DirectoryStep == ASSUME TypeOK, [Next]_vars PROVE TypeOK'
<1>1. CASE Edit
  BY <1>1 DEF Edit, online, TypeOK
<1>2. CASE \E upserted \in SUBSET Name : RefreshRegistry(upserted)
  BY <1>2 DEF RefreshRegistry, files, online, TypeOK, Text
<1>3. CASE RefreshPool
  <2>1. vpnToName' = Leases(pool)
    BY <1>3 DEF RefreshPool, ReplaceLeases
  <2>2. pool \in Seq(Name \X Addr)
    BY PoolAssumption DEF TypeOK
  <2>3. /\ DOMAIN vpnToName' \subseteq Addr
        /\ \A a \in DOMAIN vpnToName' : vpnToName'[a] \in Name
    BY <2>1, <2>2, LeasesType
  <2> QED
    BY <1>3, <2>3 DEF RefreshPool, files, online, TypeOK
<1>4. CASE RefreshCerts
  BY <1>4, CertsAssumption DEF RefreshCerts, files, online, TypeOK
<1>5. CASE \E n \in Name : Reap(n)
  BY <1>5 DEF Reap, files, online, TypeOK
<1>6. CASE EnsureKnownClients
  BY <1>6 DEF EnsureKnownClients, files, online, TypeOK
<1>7. CASE \E present \in SUBSET Name : WatcherReads(present)
  BY <1>7 DEF WatcherReads, files, TypeOK
<1>8. CASE WatcherWrites
  BY <1>8 DEF WatcherWrites, files, TypeOK
<1>9. CASE \E fresh \in SUBSET Key, written \in SUBSET Name : Poll(fresh, written)
  <2> PICK fresh \in SUBSET Key, written \in SUBSET Name : Poll(fresh, written)
    BY <1>9
  <2>1. Polled(fresh) \subseteq Name
    BY ByPubKeyType DEF Polled, byPubKey, TypeOK
  <2> QED
    BY <2>1 DEF Poll, files, TypeOK
<1>10. CASE Count
  <2>1. Counted'
    BY <1>10, CountStep
  <2> QED
    BY <1>10, <2>1 DEF Count, files, online, TypeOK, Counted
<1>11. CASE UNCHANGED vars
  BY <1>11 DEF vars, files, online, TypeOK
<1> QED
  BY <1>1, <1>2, <1>3, <1>4, <1>5, <1>6, <1>7, <1>8, <1>9, <1>10, <1>11 DEF Next

(* Only names are known, online, listed and counted. *)
THEOREM DirectoryTypes == Spec => []TypeOK
BY DirectoryInit, DirectoryStep, PTL DEF Spec
-----------------------------------------------------------------------------
(* Whom the comments name, and whom the parser does.                       *)

(* The open block at line p is that of the header at line h.               *)
Open(file, h, p) ==
    /\ h \in 1 .. p
    /\ file[h].kind = "peer"
    /\ \A m \in (h + 1) .. p : ~IsHeader(file, m)

(* What the block's name and key should be, of the lines so far.           *)
NamedBy(file, h, p, name) ==
    \/ name = NoName /\ \A j \in Naming(file, h) : j > p
    \/ \E j \in Naming(file, h) : j <= p /\ name = file[j].name

KeyedBy(file, h, p, key) ==
    key = NoKey \/ \E j \in (h + 1) .. p : file[j] = PublicKey(key)

(* A comment waits directly above the header of the peer it names, and     *)
(* there only in a tidy file.                                              *)
Waits(file, p) ==
    p \in 1 .. (Len(file) - 1) /\ IsComment(file, p) /\ file[p + 1].kind = "peer"

Waiting(file, p) == IF Waits(file, p) THEN file[p].name ELSE NoName

(* A peer with the name the comments give it.                              *)
Right(file, q) ==
    \E i \in HeadersOf(file, q.key) : q.name = CommentedName(file, i, q.key)

AllRight(file, ps) == \A x \in DOMAIN ps : Right(file, ps[x])

(* After line p the parser is in a state that fits the comments.           *)
Follows(file, p, s) ==
    /\ s.open <=> \E h \in 1 .. p : Open(file, h, p)
    /\ \A h \in 1 .. p : Open(file, h, p) =>
          NamedBy(file, h, p, s.block.name) /\ KeyedBy(file, h, p, s.block.key)
    /\ s.pending = Waiting(file, p)
    /\ AllRight(file, s.peers)

(* The lines of a file have numbers.                                       *)
LEMMA Lines ==
  ASSUME NEW file \in Seq(Line)
  PROVE  /\ Len(file) \in Nat /\ DOMAIN file = 1 .. Len(file)
         /\ \A i \in DOMAIN file : file[i] \in Line
OBVIOUS

(* A line that names a peer is a comment, above its header or in its       *)
(* block.                                                                  *)
LEMMA NamingIs ==
  ASSUME NEW file \in Seq(Line), NEW i \in DOMAIN file, NEW j \in Naming(file, i)
  PROVE  /\ j \in DOMAIN file /\ IsComment(file, j)
         /\ file[j].name \in Name
         /\ \/ j \in Before(file, i) /\ j < i
            \/ j \in Inside(file, i) /\ j > i /\ j \in Block(file, i)
<1>1. /\ Len(file) \in Nat /\ DOMAIN file = 1 .. Len(file)
      /\ \A m \in DOMAIN file : file[m] \in Line
  BY Lines
<1>2. CASE j \in Before(file, i)
  <2>1. j \in 1 .. (i - 1) /\ \A m \in j .. (i - 1) : IsComment(file, m)
    BY <1>2 DEF Before
  <2>2. IsComment(file, j) /\ j \in DOMAIN file /\ j < i
    BY <1>1, <2>1
  <2> QED
    BY <1>1, <1>2, <2>2, LineIs DEF IsComment
<1>3. CASE j \in Inside(file, i)
  <2>1. j \in Block(file, i) /\ IsComment(file, j)
    BY <1>3 DEF Inside
  <2>2. j \in (i + 1) .. Len(file)
    BY <2>1 DEF Block
  <2>3. j \in DOMAIN file /\ j > i
    BY <1>1, <2>2
  <2> QED
    BY <1>1, <1>3, <2>1, <2>3, LineIs DEF IsComment
<1> QED
  BY <1>2, <1>3 DEF Naming

(* In a tidy file only one is directly above.                              *)
LEMMA BeforeIs ==
  ASSUME NEW file \in Seq(Line), Tidy(file),
         NEW i \in DOMAIN file, file[i].kind = "peer", NEW j \in Before(file, i)
  PROVE  i = j + 1
<1>1. j \in 1 .. (i - 1) /\ \A m \in j .. (i - 1) : IsComment(file, m)
  BY DEF Before
<1>2. i \in Nat /\ j \in Nat /\ i - 1 \in j .. (i - 1)
  BY <1>1, Lines
<1>3. i - 1 \in Before(file, i)
  BY <1>1, <1>2 DEF Before
<1>4. j = i - 1
  BY <1>3 DEF Tidy, Naming
<1> QED
  BY <1>2, <1>4

(* So a comment either waits or is in the block it names.                  *)
LEMMA CommentIs ==
  ASSUME NEW file \in Seq(Line), Tidy(file), NEW p \in DOMAIN file, IsComment(file, p)
  PROVE  \/ Waits(file, p)
         \/ \E i \in DOMAIN file : /\ file[i].kind = "peer" /\ i < p
                                   /\ p \in Naming(file, i)
                                   /\ \A m \in (i + 1) .. p : ~IsHeader(file, m)
                                   /\ ~Waits(file, p)
<1>1. PICK i \in DOMAIN file : file[i].kind = "peer" /\ p \in Naming(file, i)
  BY DEF Tidy
<1>2. CASE p \in Before(file, i)
  <2>1. i = p + 1
    BY <1>1, <1>2, BeforeIs
  <2>2. p \in 1 .. (Len(file) - 1)
    BY <2>1, Lines
  <2> QED
    BY <1>1, <2>1, <2>2 DEF Waits
<1>3. CASE p \in Inside(file, i) /\ p > i /\ p \in Block(file, i)
  <2>1. \A m \in (i + 1) .. p : ~IsHeader(file, m)
    BY <1>3 DEF Block
  <2>2. ASSUME Waits(file, p)
        PROVE  FALSE
    <3>1. p + 1 \in (i + 1) .. Len(file) /\ file[p + 1].kind = "peer"
      BY <1>3, <2>2, Lines DEF Waits
    <3>2. IsHeader(file, p + 1)
      BY <3>1 DEF IsHeader
    <3>3. p \in Before(file, p + 1)
      <4>1. p \in 1 .. ((p + 1) - 1) /\ \A m \in p .. ((p + 1) - 1) : m = p
        BY Lines
      <4> QED
        BY <4>1 DEF Before
    <3> QED
      BY <1>3, <3>1, <3>2, <3>3 DEF Inside
  <2> QED
    BY <1>1, <1>3, <2>1, <2>2, Lines
<1> QED
  BY <1>1, <1>2, <1>3, NamingIs

(* What a header before line p, or the end of the file, makes of the open  *)
(* block.                                                                  *)
LEMMA FlushRight ==
  ASSUME NEW file \in Seq(Line), Tidy(file), NEW p \in 0 .. Len(file),
         NEW s \in Parser, Follows(file, p, s),
         p = Len(file) \/ IsHeader(file, p + 1)
  PROVE  AllRight(file, flush(s))
<1> DEFINE b == s.block
           n == IF b.name = NoName THEN FallbackOf[b.key] ELSE b.name
           q == [b EXCEPT !.name = n]
<1>0. b \in OpenBlock /\ s.peers \in Seq(Peer)
  BY DEF Parser
<1>1. CASE ~(s.open /\ b.key # NoKey)
  BY <1>1 DEF Follows, flush
<1>2. CASE s.open /\ b.key # NoKey
  <2>1. PICK h \in 1 .. p : Open(file, h, p)
    BY <1>2 DEF Follows
  <2>2. NamedBy(file, h, p, b.name) /\ KeyedBy(file, h, p, b.key)
    BY <2>1 DEF Follows
  <2>3. h \in DOMAIN file /\ file[h].kind = "peer" /\ h \in Nat /\ p \in Nat
    BY <2>1, Lines DEF Open
  <2>4. h \in HeadersOf(file, b.key)
    <3>1. PICK j \in (h + 1) .. p : file[j] = PublicKey(b.key)
      BY <1>2, <2>2 DEF KeyedBy
    <3>2. j \in Block(file, h)
      BY <2>1, <2>3, <3>1, Lines DEF Block, Open
    <3> QED
      BY <2>3, <3>1, <3>2 DEF HeadersOf
  <2>5. ASSUME NEW j \in Naming(file, h)
        PROVE  j <= p
    <3>1. CASE j < h
      BY <2>3, <3>1, NamingIs, Lines
    <3>2. CASE j \in Block(file, h)
      <4>1. j \in (h + 1) .. Len(file) /\ \A m \in (h + 1) .. j : ~IsHeader(file, m)
        BY <3>2 DEF Block
      <4>2. CASE p = Len(file)
        BY <2>3, <4>1, <4>2
      <4>3. CASE IsHeader(file, p + 1)
        <5>1. p + 1 \notin (h + 1) .. j
          BY <4>1, <4>3
        <5> QED
          BY <2>3, <4>1, <5>1, Lines
      <4> QED
        BY <4>2, <4>3
    <3> QED
      BY <2>3, <3>1, <3>2, NamingIs
  <2>6. n = CommentedName(file, h, b.key)
    <3>1. CASE b.name = NoName /\ \A j \in Naming(file, h) : j > p
      <4>1. Naming(file, h) = {}
        <5>1. \A j \in Naming(file, h) : j \in Nat
          BY <2>3, NamingIs, Lines
        <5> QED
          BY <2>3, <2>5, <3>1, <5>1
      <4> QED
        BY <3>1, <4>1 DEF CommentedName
    <3>2. ASSUME NEW j \in Naming(file, h), b.name = file[j].name
          PROVE  n = CommentedName(file, h, b.key)
      <4>1. \A m \in Naming(file, h) : m = j
        BY <2>3, <3>2 DEF Tidy
      <4>2. b.name \in Name /\ j \in Nat
        BY <2>3, <3>2, NamingIs, Lines
      <4>3. (CHOOSE i \in Naming(file, h) : \A m \in Naming(file, h) : i <= m) = j
        <5>1. \A m \in Naming(file, h) : j <= m
          BY <4>1, <4>2
        <5>2. \E i \in Naming(file, h) : \A m \in Naming(file, h) : i <= m
          BY <5>1
        <5> QED
          BY <4>1, <5>2
      <4> QED
        BY <3>2, <4>2, <4>3, NoneAssumption DEF CommentedName
    <3> QED
      BY <2>2, <3>1, <3>2 DEF NamedBy
  <2>7. flush(s) = Append(s.peers, q)
    BY <1>2 DEF flush
  <2>8. q.key = b.key /\ q.name = n
    <3> HIDE DEF n, b
    <3> QED
      BY <1>0 DEF OpenBlock
  <2>9. Right(file, q)
    BY <2>4, <2>6, <2>8 DEF Right
  <2>10. AllRight(file, s.peers)
    BY DEF Follows
  <2> HIDE DEF q
  <2> QED
    BY <1>0, <2>7, <2>9, <2>10 DEF AllRight
<1> QED
  BY <1>1, <1>2


(* A comment names the block it belongs to, or waits for the header below. *)
LEMMA FollowComment ==
  ASSUME NEW file \in Seq(Line), Tidy(file), NEW p \in DOMAIN file,
         NEW s \in Parser, Follows(file, p - 1, s), IsComment(file, p)
  PROVE  Follows(file, p, setPeerName(s, file[p].name))
<1> DEFINE name == file[p].name
           r == setPeerName(s, name)
<1>1. p \in Nat /\ p - 1 \in Nat /\ p \in 1 .. Len(file) /\ Len(file) \in Nat
  BY Lines
<1>2. name \in Name /\ name # NoName
  BY LineIs, Lines, NoneAssumption DEF IsComment
<1>3. ~IsHeader(file, p) /\ file[p].kind # "peer"
  BY DEF IsComment, IsHeader
<1>4. \A h : Open(file, h, p) /\ h \in 1 .. p <=> Open(file, h, p - 1) /\ h \in 1 .. p - 1
  BY <1>1, <1>3 DEF Open
<1>5. s.pending = NoName
  BY <1>1, <1>3 DEF Follows, Waiting, Waits
<1>6. s.block \in OpenBlock
  BY DEF Parser
<1>7. /\ r.open = s.open /\ r.peers = s.peers /\ r.block.key = s.block.key
      /\ s.open /\ s.block.name = NoName => r.block.name = name /\ r.pending = NoName
      /\ ~(s.open /\ s.block.name = NoName) => r.block = s.block /\ r.pending = name
  <2>1. CASE s.open /\ s.block.name = NoName
    <3>1. r = [s EXCEPT !.block.name = name]
      BY <2>1 DEF setPeerName
    <3> HIDE DEF r
    <3> QED
      BY <1>5, <1>6, <2>1, <3>1 DEF Parser, OpenBlock
  <2>2. CASE ~(s.open /\ s.block.name = NoName)
    <3>1. r = [s EXCEPT !.pending = name]
      BY <2>2 DEF setPeerName
    <3> HIDE DEF r
    <3> QED
      BY <2>2, <3>1 DEF Parser
  <2> QED
    BY <2>1, <2>2
<1> HIDE DEF r, name
<1>8. AllRight(file, r.peers)
  BY <1>7 DEF Follows
<1>9. r.open <=> \E h \in 1 .. p : Open(file, h, p)
  BY <1>1, <1>4, <1>7 DEF Follows
<1>10. ASSUME NEW h \in 1 .. p, Open(file, h, p)
       PROVE  /\ h \in DOMAIN file /\ file[h].kind = "peer" /\ h \in 1 .. p - 1
              /\ s.open
              /\ NamedBy(file, h, p - 1, s.block.name)
              /\ KeyedBy(file, h, p, s.block.key)
              /\ p \in Block(file, h)
  <2>1. h \in 1 .. p - 1 /\ Open(file, h, p - 1) /\ file[h].kind = "peer"
    BY <1>4, <1>10 DEF Open
  <2>2. /\ s.open /\ NamedBy(file, h, p - 1, s.block.name)
        /\ KeyedBy(file, h, p - 1, s.block.key)
    BY <2>1 DEF Follows
  <2>3. KeyedBy(file, h, p, s.block.key)
    BY <1>1, <2>2 DEF KeyedBy
  <2>4. p \in Block(file, h)
    BY <1>1, <1>10, <2>1 DEF Block, Open
  <2> QED
    BY <1>1, <2>1, <2>2, <2>3, <2>4, Lines
<1>11. CASE Waits(file, p)
  <2>1. ASSUME NEW h \in 1 .. p, Open(file, h, p)
        PROVE  /\ s.block.name # NoName
               /\ NamedBy(file, h, p, s.block.name)
    <3>1. CASE s.block.name = NoName /\ \A j \in Naming(file, h) : j > p - 1
      <4>1. PICK j \in Naming(file, h) : TRUE
        BY <1>10, <2>1 DEF Tidy
      <4>2. j \in Inside(file, h) /\ j \in Block(file, h) /\ j > p - 1 /\ j \in DOMAIN file
        BY <1>1, <1>10, <2>1, <3>1, <4>1, NamingIs, Lines
      <4>3. IsHeader(file, p + 1) /\ p + 1 \in (h + 1) .. Len(file)
        BY <1>1, <1>11 DEF Waits, IsHeader
      <4>4. j = p
        <5>1. p + 1 \notin (h + 1) .. j
          BY <4>2, <4>3 DEF Block
        <5> QED
          BY <1>1, <4>2, <4>3, <5>1, Lines
      <4>5. p \in Before(file, p + 1)
        <5>1. p \in 1 .. ((p + 1) - 1) /\ \A m \in p .. ((p + 1) - 1) : m = p
          BY <1>1
        <5> QED
          BY <5>1 DEF Before
      <4> QED
        BY <4>2, <4>3, <4>4, <4>5 DEF Inside
    <3>2. ASSUME NEW j \in Naming(file, h), j <= p - 1, s.block.name = file[j].name
          PROVE  s.block.name # NoName /\ NamedBy(file, h, p, s.block.name)
      <4>1. j \in DOMAIN file /\ file[j].name \in Name
        BY <1>10, <2>1, NamingIs
      <4>2. j <= p
        BY <1>1, <3>2, <4>1, Lines
      <4> QED
        BY <3>2, <4>1, <4>2, NoneAssumption DEF NamedBy
    <3> QED
      BY <1>10, <2>1, <3>1, <3>2 DEF NamedBy
  <2>2. ~(s.open /\ s.block.name = NoName)
    BY <1>7, <1>9, <2>1
  <2>3. r.block = s.block /\ r.pending = name
    BY <1>7, <2>2
  <2>4. r.pending = Waiting(file, p)
    BY <1>11, <2>3 DEF Waiting, name
  <2> QED
    BY <1>8, <1>9, <1>10, <2>1, <2>3, <2>4 DEF Follows, r, name
<1>12. ASSUME NEW i \in DOMAIN file, file[i].kind = "peer", i < p,
              p \in Naming(file, i), \A m \in (i + 1) .. p : ~IsHeader(file, m),
              ~Waits(file, p)
       PROVE  Follows(file, p, r)
  <2>1. i \in 1 .. p /\ Open(file, i, p)
    BY <1>1, <1>12, Lines DEF Open
  <2>2. ASSUME NEW h \in 1 .. p, Open(file, h, p)
        PROVE  h = i
    <3>1. IsHeader(file, h) /\ IsHeader(file, i) /\ i \in Nat /\ h \in Nat
      BY <1>12, <2>2, Lines DEF IsHeader, Open
    <3>2. ~(i < h)
      BY <1>12, <2>2, <3>1
    <3>3. ~(h < i)
      BY <1>1, <1>12, <2>2, <3>1 DEF Open
    <3> QED
      BY <3>1, <3>2, <3>3
  <2>3. s.block.name = NoName
    <3>1. NamedBy(file, i, p - 1, s.block.name)
      BY <1>10, <2>1
    <3>2. ASSUME NEW j \in Naming(file, i), j <= p - 1
          PROVE  FALSE
      <4>1. j = p
        BY <1>12, <3>2 DEF Tidy
      <4> QED
        BY <1>1, <3>2, <4>1
    <3> QED
      BY <3>1, <3>2 DEF NamedBy
  <2>4. s.open
    BY <1>10, <2>1
  <2>5. r.block.name = name /\ r.pending = NoName
    BY <1>7, <2>3, <2>4
  <2>6. NamedBy(file, i, p, r.block.name)
    BY <1>1, <1>12, <2>5 DEF NamedBy, name
  <2>7. r.pending = Waiting(file, p)
    BY <1>12, <2>5 DEF Waiting
  <2>8. \A h \in 1 .. p : Open(file, h, p) =>
           NamedBy(file, h, p, r.block.name) /\ KeyedBy(file, h, p, r.block.key)
    BY <1>7, <1>10, <2>2, <2>6
  <2> QED
    BY <1>8, <1>9, <2>7, <2>8 DEF Follows
<1> QED
  BY <1>11, <1>12, CommentIs DEF r, name

(* A line that is neither a header nor a comment leaves names alone.       *)
LEMMA FollowOther ==
  ASSUME NEW file \in Seq(Line), NEW p \in DOMAIN file,
         NEW s \in Parser, Follows(file, p - 1, s),
         ~IsHeader(file, p), ~IsComment(file, p),
         NEW r, r.open = s.open, r.pending = s.pending, r.peers = s.peers,
         r.block.name = s.block.name,
         \/ r.block.key = s.block.key
         \/ \E k \in Key : r.block.key = k /\ file[p] = PublicKey(k)
  PROVE  Follows(file, p, r)
<1>1. p \in Nat /\ p - 1 \in Nat /\ p \in 1 .. Len(file) /\ Len(file) \in Nat
  BY Lines
<1>2. \A h : Open(file, h, p) /\ h \in 1 .. p <=> Open(file, h, p - 1) /\ h \in 1 .. p - 1
  BY <1>1 DEF Open, IsHeader
<1>3. r.pending = Waiting(file, p)
  <2>1. ~Waits(file, p - 1) /\ ~Waits(file, p)
    BY <1>1 DEF Waits, IsHeader
  <2> QED
    BY <2>1 DEF Follows, Waiting
<1>4. r.open <=> \E h \in 1 .. p : Open(file, h, p)
  BY <1>2 DEF Follows
<1>5. ASSUME NEW h \in 1 .. p, Open(file, h, p)
      PROVE  NamedBy(file, h, p, r.block.name) /\ KeyedBy(file, h, p, r.block.key)
  <2>1. h \in 1 .. p - 1 /\ h \in DOMAIN file /\ Open(file, h, p - 1)
    BY <1>1, <1>2, <1>5, Lines
  <2>2. NamedBy(file, h, p - 1, s.block.name) /\ KeyedBy(file, h, p - 1, s.block.key)
    BY <2>1 DEF Follows
  <2>3. ASSUME NEW j \in Naming(file, h)
        PROVE  j \in Nat /\ j # p
    BY <2>1, <2>3, NamingIs, Lines
  <2>4. NamedBy(file, h, p, r.block.name)
    BY <1>1, <2>2, <2>3 DEF NamedBy
  <2>5. CASE r.block.key = s.block.key
    BY <1>1, <2>2, <2>4, <2>5 DEF KeyedBy
  <2>6. CASE \E k \in Key : r.block.key = k /\ file[p] = PublicKey(k)
    <3>1. p \in (h + 1) .. p
      BY <1>1, <2>1
    <3> QED
      BY <2>4, <2>6, <3>1 DEF KeyedBy
  <2> QED
    BY <2>4, <2>5, <2>6
<1> QED
  BY <1>3, <1>4, <1>5 DEF Follows

(* A header closes a block; a peer's opens the next one, under the name    *)
(* that waits.                                                             *)
LEMMA FollowHeader ==
  ASSUME NEW file \in Seq(Line), Tidy(file), NEW p \in DOMAIN file,
         NEW s \in Parser, Follows(file, p - 1, s), IsHeader(file, p),
         NEW r, r.pending = NoName, r.peers = flush(s),
         r.open <=> file[p].kind = "peer", r.open \in BOOLEAN,
         r.open => r.block.name = s.pending /\ r.block.key = NoKey
  PROVE  Follows(file, p, r)
<1>1. p \in Nat /\ p - 1 \in Nat /\ p \in 1 .. Len(file) /\ Len(file) \in Nat
  BY Lines
<1>2. ASSUME NEW h \in 1 .. p
      PROVE  Open(file, h, p) <=> h = p /\ file[p].kind = "peer"
  <2>1. h # p => p \in (h + 1) .. p
    BY <1>1
  <2>2. \A m \in (p + 1) .. p : FALSE
    BY <1>1
  <2> QED
    BY <2>1, <2>2 DEF Open
<1>3. r.open <=> \E h \in 1 .. p : Open(file, h, p)
  BY <1>1, <1>2
<1>4. r.pending = Waiting(file, p)
  BY DEF Waiting, Waits, IsComment, IsHeader
<1>5. AllRight(file, r.peers)
  <2>1. p - 1 \in 0 .. Len(file) /\ (p - 1) + 1 = p
    BY <1>1
  <2>2. IsHeader(file, (p - 1) + 1)
    BY <2>1
  <2> QED
    BY <2>1, <2>2, FlushRight
<1>6. ASSUME file[p].kind = "peer"
      PROVE  NamedBy(file, p, p, r.block.name) /\ KeyedBy(file, p, p, r.block.key)
  <2>1. r.block.name = Waiting(file, p - 1) /\ r.block.key = NoKey
    BY <1>6 DEF Follows
  <2>2. CASE Waits(file, p - 1)
    <3>1. p - 1 \in 1 .. (p - 1) /\ \A m \in (p - 1) .. (p - 1) : m = p - 1
      BY <1>1, <2>2 DEF Waits
    <3>2. p - 1 \in Naming(file, p)
      BY <2>2, <3>1 DEF Waits, Before, Naming
    <3> QED
      BY <1>1, <2>1, <2>2, <3>2 DEF NamedBy, KeyedBy, Waiting
  <2>3. CASE ~Waits(file, p - 1)
    <3>1. ASSUME NEW j \in Naming(file, p)
          PROVE  j > p
      <4>1. ASSUME j \in Before(file, p), j < p
            PROVE  FALSE
        <5>1. p = j + 1 /\ j \in 1 .. (p - 1) /\ IsComment(file, j)
          BY <1>6, <3>1, <4>1, BeforeIs, NamingIs DEF Before
        <5>2. p - 1 = j /\ (p - 1) + 1 = p /\ p - 1 \in 1 .. (Len(file) - 1)
          BY <1>1, <5>1
        <5>3. Waits(file, p - 1)
          BY <1>6, <5>1, <5>2 DEF Waits
        <5> QED
          BY <2>3, <5>3
      <4> QED
        BY <3>1, <4>1, NamingIs
    <3>2. r.block.name = NoName
      BY <2>1, <2>3 DEF Waiting
    <3> QED
      BY <2>1, <3>1, <3>2 DEF NamedBy, KeyedBy
  <2> QED
    BY <2>2, <2>3
<1> QED
  BY <1>2, <1>3, <1>4, <1>5, <1>6 DEF Follows

(* So the parser follows a tidy file line by line. *)
LEMMA FollowLine ==
  ASSUME NEW file \in Seq(Line), Tidy(file), NEW p \in DOMAIN file,
         NEW s \in Parser, Follows(file, p - 1, s)
  PROVE  Follows(file, p, ReadLine(s, file[p]))
<1> DEFINE l == file[p]
           r == ReadLine(s, l)
<1>1. l \in Line
  OBVIOUS
<1>2. s.block \in OpenBlock
  BY DEF Parser
<1>3. CASE l.kind = "comment"
  <2>1. IsComment(file, p) /\ r = setPeerName(s, file[p].name)
    BY <1>3 DEF IsComment, ReadLine
  <2> QED
    BY <2>1, FollowComment
<1>4. CASE l.kind = "key" /\ l \in {PublicKey(k) : k \in Key}
  <2>1. ~IsHeader(file, p) /\ ~IsComment(file, p)
    BY <1>4 DEF IsHeader, IsComment
  <2>2. PICK k \in Key : l = PublicKey(k)
    BY <1>4
  <2>3. l.key = k
    BY <2>2 DEF PublicKey
  <2>4. r = IF s.open THEN [s EXCEPT !.block.key = k] ELSE s
    BY <1>4, <2>3 DEF ReadLine
  <2>5. /\ r.open = s.open /\ r.pending = s.pending /\ r.peers = s.peers
        /\ r.block.name = s.block.name
        /\ r.block.key = s.block.key \/ r.block.key = k
    <3> HIDE DEF r
    <3> QED
      BY <1>2, <2>4 DEF Parser, OpenBlock
  <2> HIDE DEF r
  <2> QED
    BY <2>1, <2>2, <2>5, FollowOther DEF r
<1>5. CASE l.kind = "ips"
  <2>1. ~IsHeader(file, p) /\ ~IsComment(file, p)
    BY <1>5 DEF IsHeader, IsComment
  <2>2. r = IF s.open THEN [s EXCEPT !.block.ips = @ \cup l.ips] ELSE s
    BY <1>5 DEF ReadLine
  <2>3. /\ r.open = s.open /\ r.pending = s.pending /\ r.peers = s.peers
        /\ r.block.name = s.block.name /\ r.block.key = s.block.key
    <3> HIDE DEF r, l
    <3> QED
      BY <1>2, <2>2 DEF Parser, OpenBlock
  <2> HIDE DEF r
  <2> QED
    BY <2>1, <2>3, FollowOther DEF r
<1>6. CASE l.kind = "peer"
  <2>1. IsHeader(file, p)
    BY <1>6 DEF IsHeader
  <2>2. r = [open |-> TRUE, block |-> NewBlock(s.pending),
             pending |-> NoName, peers |-> flush(s)]
    BY <1>6 DEF ReadLine
  <2>3. /\ r.open = TRUE /\ r.pending = NoName /\ r.peers = flush(s)
        /\ r.block.name = s.pending /\ r.block.key = NoKey
    BY <2>2 DEF NewBlock
  <2> HIDE DEF r
  <2> QED
    BY <1>6, <2>1, <2>3, FollowHeader DEF r
<1>7. CASE l.kind = "interface"
  <2>1. IsHeader(file, p) /\ file[p].kind # "peer"
    BY <1>7 DEF IsHeader
  <2>2. r = [s EXCEPT !.open = FALSE, !.pending = NoName, !.peers = flush(s)]
    BY <1>7 DEF ReadLine
  <2>3. r.open = FALSE /\ r.pending = NoName /\ r.peers = flush(s)
    <3> HIDE DEF r
    <3> QED
      BY <2>2 DEF Parser
  <2> HIDE DEF r
  <2> QED
    BY <2>1, <2>3, FollowHeader DEF r
<1>8. \/ l.kind = "comment" \/ l.kind = "ips" \/ l.kind = "peer" \/ l.kind = "interface"
      \/ l.kind = "key" /\ l \in {PublicKey(k) : k \in Key}
  BY <1>1 DEF Line, Comment, PublicKey, AllowedIPs, Header, Interface
<1> QED
  BY <1>3, <1>4, <1>5, <1>6, <1>7, <1>8

(* At the end every peer has the name its comments give it.                *)
LEMMA ParsedRight ==
  ASSUME NEW file \in Seq(Line), Tidy(file)
  PROVE  AllRight(file, ParsePeers(file))
<1> DEFINE n == Len(file)
           c == Parsed(file)
           T == {p \in 0 .. n : Follows(file, p, c[p])}
<1>1. /\ n \in Nat /\ DOMAIN file = 1 .. n
      /\ c \in [0 .. n -> Parser] /\ c[0] = Begun
      /\ \A i \in 1 .. n : c[i] = ReadLine(c[i - 1], file[i])
  BY ParsedIs, Lines
<1> HIDE DEF c, n
<1>2. 0 \in T
  <2>1. 0 \in 0 .. n /\ \A h \in 1 .. 0 : FALSE
    BY <1>1
  <2>2. ~Waits(file, 0)
    BY DEF Waits
  <2>3. Follows(file, 0, Begun)
    BY <2>1, <2>2 DEF Follows, Begun, AllRight, Waiting
  <2> QED
    BY <1>1, <2>1, <2>3
<1>3. ASSUME NEW p \in 1 .. n, p - 1 \in T
      PROVE  p \in T
  <2>1. p - 1 \in 0 .. n /\ p \in 0 .. n /\ p \in DOMAIN file
    BY <1>1
  <2>2. c[p - 1] \in Parser /\ Follows(file, p - 1, c[p - 1])
    BY <1>1, <1>3, <2>1
  <2>3. Follows(file, p, ReadLine(c[p - 1], file[p]))
    BY <2>1, <2>2, FollowLine
  <2> QED
    BY <1>1, <2>1, <2>3
<1>4. \A p \in 0 .. n : p \in T
  <2> HIDE DEF T
  <2> QED
    BY <1>1, <1>2, <1>3, UpTo
<1>5. n \in 0 .. n /\ Follows(file, n, c[n]) /\ c[n] \in Parser
  <2>1. n \in 0 .. n
    BY <1>1
  <2>2. n \in T
    <3> HIDE DEF T
    <3> QED
      BY <1>4, <2>1
  <2> QED
    BY <1>1, <2>1, <2>2
<1>6. AllRight(file, flush(c[n]))
  BY <1>5, FlushRight DEF n
<1> QED
  BY <1>6 DEF ParsePeers, c, n

(* The configurations are tidy.                                            *)
TidyConf == \A t \in Conf : Tidy(t)

(* In tidy files every peer goes by the name its comments give it.         *)
THEOREM PeersAsCommented ==
  ASSUME TidyConf
  PROVE  Spec => []NamesAsCommented
<1>1. ASSUME NEW t \in Text
      PROVE  Tidy(t)
  <2>1. Tidy(<<>>)
    BY DEF Tidy
  <2> QED
    BY <2>1 DEF Text, TidyConf
<1>2. TypeOK => NamesAsCommented
  <2> SUFFICES ASSUME TypeOK, NEW k \in DOMAIN byPubKey
               PROVE  \E i \in HeadersOf(read, k) :
                         byPubKey[k] = CommentedName(read, i, k)
    BY DEF NamesAsCommented
  <2>1. read \in Text
    BY DEF TypeOK
  <2>2. PICK i \in DOMAIN PeersOf[read] : /\ PeersOf[read][i].key = k
                                          /\ byPubKey[k] = PeersOf[read][i].name
    BY <2>1, ByPubKeyIs DEF byPubKey
  <2>3. AllRight(read, PeersOf[read])
    <3>1. PeersOf[read] = ParsePeers(read)
      BY <2>1 DEF PeersOf
    <3> QED
      BY <1>1, <2>1, <3>1, TextType, ParsedRight
  <2> QED
    BY <2>2, <2>3 DEF AllRight, Right
<1> QED
  BY <1>2, DirectoryInit, DirectoryStep, PTL DEF Spec
=============================================================================
