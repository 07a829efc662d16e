-------------------------- MODULE IPv6ToggleProofs --------------------------
(***************************************************************************)
(* What Set buys, for any requests, any files and any number of hand       *)
(* edits.  First the two editors: what they make of a file's lines, of     *)
(* those that are not theirs, and of the state it is in.  Then what the    *)
(* mutex and the rollback buy: FailedToggleUndone, Recoverable and         *)
(* RunsWhatIsOnDisk.  Last, both together: TypeOK, AdminLinesKept and      *)
(* AckedInForce.                                                           *)
(***************************************************************************)
EXTENDS IPv6Toggle, ListLemmas, TLAPS

-----------------------------------------------------------------------------
(* The WireGuard editor.                                                   *)

(* First finds the first line of a kind, if there is one.                  *)
LEMMA FirstIs ==
  ASSUME NEW f \in Config, NEW m
  PROVE  /\ First(f, m) = 0 => \A i \in DOMAIN f : f[i].kind # m
         /\ First(f, m) # 0 =>
               /\ First(f, m) \in DOMAIN f
               /\ f[First(f, m)].kind = m
               /\ \A i \in DOMAIN f : f[i].kind = m => First(f, m) <= i
<1> DEFINE I == {i \in 1 .. Len(f) : f[i].kind = m}
<1>0. DOMAIN f = 1 .. Len(f) /\ Len(f) \in Nat
  BY DEF Config
<1>1. First(f, m) = IF I # {} THEN Min(I) ELSE 0
  BY DEF First, SelectInSeq
<1>2. CASE I = {}
  BY <1>0, <1>1, <1>2
<1>3. CASE I # {}
  <2>1. \E n \in I : \A i \in I : n <= i
    <3>1. I \in SUBSET Nat
      BY <1>0
    <3> HIDE DEF I
    <3> QED
      BY <1>3, <3>1, Least
  <2>2. Min(I) \in I /\ \A i \in I : Min(I) <= i
    <3> HIDE DEF I
    <3> QED
      BY <2>1 DEF Min
  <2>3. First(f, m) = Min(I)
    BY <1>1, <1>3
  <2> QED
    BY <1>0, <2>2, <2>3
<1> QED
  BY <1>2, <1>3

(* The partner of a marker is the other one of its hook.                   *)
LEMMA Partners ==
  /\ Partner("upAccept") = "upReject" /\ Partner("upReject") = "upAccept"
  /\ Partner("downAccept") = "downReject" /\ Partner("downReject") = "downAccept"
<1>1. ASSUME NEW m \in Marker, NEW q \in Marker \ {m},
             \E h \in Hook : {m, q} = {Accept[h], Reject[h]}
      PROVE  \A p \in Marker \ {m} : (\E h \in Hook : {m, p} = {Accept[h], Reject[h]}) => p = q
  BY <1>1 DEF Marker, Hook, Accept, Reject
<1>2. /\ {"upAccept", "upReject"} = {Accept["up"], Reject["up"]}
      /\ {"upReject", "upAccept"} = {Accept["up"], Reject["up"]}
      /\ {"downAccept", "downReject"} = {Accept["down"], Reject["down"]}
      /\ {"downReject", "downAccept"} = {Accept["down"], Reject["down"]}
  BY DEF Accept, Reject
<1> QED
  BY <1>1, <1>2 DEF Partner, Marker, Hook

(* So it is a marker too, and partners come in pairs.                      *)
LEMMA PartnerOf ==
  ASSUME NEW m \in Marker
  PROVE  Partner(m) \in Marker /\ Partner(m) # m /\ Partner(Partner(m)) = m
BY Partners DEF Marker

(* The line written for a marker is a line of that marker.                 *)
LEMMA DesiredLine ==
  ASSUME NEW m \in Marker, NEW e \in BOOLEAN
  PROVE  Desired(m, e) \in Line /\ Desired(m, e).kind = m
<1>1. ((m \in {Accept[h] : h \in Hook}) = e) \in BOOLEAN
  OBVIOUS
<1> QED
  BY <1>1 DEF Desired, Line, Managed

(* What wgSet makes of each line of a file; it writes them one behind the  *)
(* other.                                                                  *)
Pieces(f, e) == [i \in DOMAIN f |-> WgLines(f, e, i)]

(* A line that is not the first of its marker is kept; one that is becomes *)
(* what is asked for, with its missing partner behind it.                  *)
LEMMA PiecesAre ==
  ASSUME NEW f \in Config, NEW e \in BOOLEAN, NEW i \in DOMAIN f
  PROVE  LET m == f[i].kind
         IN  \/ /\ m \notin Marker \/ First(f, m) # i
                /\ Pieces(f, e)[i] = <<f[i]>>
             \/ /\ m \in Marker /\ First(f, m) = i /\ First(f, Partner(m)) # 0
                /\ Pieces(f, e)[i] = <<Desired(m, e)>>
             \/ /\ m \in Marker /\ First(f, m) = i /\ First(f, Partner(m)) = 0
                /\ Pieces(f, e)[i] = <<Desired(m, e), Desired(Partner(m), e)>>
<1> DEFINE m == f[i].kind
           p == Desired(Partner(m), e)
           d == Desired(m, e)
<1>1. Pieces(f, e)[i] = WgLines(f, e, i)
  BY DEF Pieces
<1>2. CASE m \notin Marker \/ First(f, m) # i
  BY <1>1, <1>2 DEF WgLines
<1>3. CASE m \in Marker /\ First(f, m) = i /\ First(f, Partner(m)) # 0
  <2>1. Pieces(f, e)[i] = <<d>> \o <<>>
    BY <1>1, <1>3 DEF WgLines
  <2> HIDE DEF d
  <2> QED
    BY <1>3, <2>1 DEF d
<1>4. CASE m \in Marker /\ First(f, m) = i /\ First(f, Partner(m)) = 0
  <2>1. Pieces(f, e)[i] = <<d>> \o <<p>>
    BY <1>1, <1>4 DEF WgLines
  <2>2. Pieces(f, e)[i] = <<d, p>>
    <3>1. d \in Line /\ p \in Line
      BY <1>4, DesiredLine, PartnerOf
    <3> HIDE DEF d, p
    <3> QED
      BY <2>1, <3>1, Short
  <2> HIDE DEF d, p
  <2> QED
    BY <1>4, <2>2 DEF d, p
<1> QED
  BY <1>2, <1>3, <1>4

(* Each piece is a list of lines.                                          *)
LEMMA PiecesType ==
  ASSUME NEW f \in Config, NEW e \in BOOLEAN
  PROVE  Len(f) \in Nat /\ DOMAIN f = 1 .. Len(f) /\ Pieces(f, e) \in [1 .. Len(f) -> Seq(Line)]
<1>1. Len(f) \in Nat /\ DOMAIN f = 1 .. Len(f) /\ \A i \in DOMAIN f : f[i] \in Line
  BY DEF Config
<1>2. ASSUME NEW i \in DOMAIN f
      PROVE  Pieces(f, e)[i] \in Seq(Line)
  <2> DEFINE m == f[i].kind
  <2>1. m \in Marker => Desired(m, e) \in Line /\ Desired(Partner(m), e) \in Line
    BY DesiredLine, PartnerOf
  <2>2. \/ Pieces(f, e)[i] = <<f[i]>>
        \/ m \in Marker /\ Pieces(f, e)[i] = <<Desired(m, e)>>
        \/ m \in Marker /\ Pieces(f, e)[i] = <<Desired(m, e), Desired(Partner(m), e)>>
    BY PiecesAre
  <2> HIDE DEF m
  <2> QED
    BY <1>1, <2>1, <2>2, Short
<1>3. Pieces(f, e) \in [1 .. Len(f) -> Seq(Line)]
  <2>1. Pieces(f, e) = [i \in 1 .. Len(f) |-> Pieces(f, e)[i]]
    BY <1>1 DEF Pieces
  <2> QED
    BY <1>1, <1>2, <2>1
<1> QED
  BY <1>1, <1>3

(* What wgSet writes is a configuration.                                   *)
LEMMA WgSetType ==
  ASSUME NEW f \in Config, NEW e \in BOOLEAN
  PROVE  WgSet(f, e) \in Config
<1>1. WgSet(f, e) = FlattenSeq(Pieces(f, e))
  BY DEF WgSet, Pieces
<1> QED
  BY <1>1, PiecesType, FlattenType DEF Config

(* The lines of a file that are the administrator's, each a piece.         *)
KeptOf(f) == [i \in DOMAIN f |-> Kept(f[i])]

(* Rest joins those pieces.                                                *)
LEMMA KeptType ==
  ASSUME NEW f \in Config
  PROVE  /\ Len(f) \in Nat /\ DOMAIN f = 1 .. Len(f)
         /\ KeptOf(f) \in [1 .. Len(f) -> Seq(Line)]
         /\ \A i \in 1 .. Len(f) : KeptOf(f)[i] = Kept(f[i])
         /\ KeptOf(f) \in Seq(Config) /\ Len(KeptOf(f)) = Len(f)
         /\ Rest(f) = FlattenSeq(KeptOf(f))
         /\ Rest(f) \in Seq(Line)
<1>1. Len(f) \in Nat /\ DOMAIN f = 1 .. Len(f) /\ \A i \in DOMAIN f : f[i] \in Line
  BY DEF Config
<1>2. \A i \in DOMAIN f : Kept(f[i]) \in Seq(Line)
  BY <1>1, Short DEF Kept
<1>3. KeptOf(f) \in [1 .. Len(f) -> Seq(Line)]
  BY <1>1, <1>2 DEF KeptOf
<1>4. Rest(f) = FlattenSeq(KeptOf(f))
  BY DEF Rest, KeptOf
<1>5. Rest(f) \in Seq(Line)
  BY <1>1, <1>3, <1>4, FlattenType
<1>6. \A i \in 1 .. Len(f) : KeptOf(f)[i] = Kept(f[i])
  BY <1>1 DEF KeptOf
<1>7. KeptOf(f) \in Seq(Config) /\ Len(KeptOf(f)) = Len(f)
  <2>1. KeptOf(f) \in [1 .. Len(f) -> Config]
    BY <1>3 DEF Config
  <2> QED
    BY <1>1, <2>1
<1> QED
  BY <1>1, <1>3, <1>4, <1>5, <1>6, <1>7

(* The administrator's lines of two files, one behind the other.           *)
LEMMA RestConcat ==
  ASSUME NEW a \in Config, NEW b \in Config
  PROVE  Rest(a \o b) = Rest(a) \o Rest(b)
<1> DEFINE c == a \o b
<1>1. /\ c \in Config /\ Len(c) = Len(a) + Len(b)
      /\ \A i \in 1 .. Len(a) : c[i] = a[i]
      /\ \A i \in 1 .. Len(b) : c[Len(a) + i] = b[i]
  BY DEF Config
<1> HIDE DEF c
<1> DEFINE s == KeptOf(a)
           t == KeptOf(b)
           u == KeptOf(c)
<1>2. /\ s \in Seq(Config) /\ t \in Seq(Config) /\ u \in Seq(Config)
      /\ Len(s) = Len(a) /\ Len(t) = Len(b) /\ Len(u) = Len(a) + Len(b)
      /\ Len(a) \in Nat /\ Len(b) \in Nat
  BY <1>1, KeptType
<1>3. ASSUME NEW i \in 1 .. Len(a)
      PROVE  u[i] = s[i]
  <2>1. i \in 1 .. Len(c)
    BY <1>1, <1>2
  <2> QED
    BY <1>1, <2>1, KeptType
<1>4. ASSUME NEW i \in 1 .. Len(b)
      PROVE  u[Len(a) + i] = t[i]
  <2>1. Len(a) + i \in 1 .. Len(c)
    BY <1>1, <1>2
  <2> QED
    BY <1>1, <2>1, KeptType
<1> HIDE DEF s, t, u
<1>5. u = s \o t
  <2>1. /\ s \o t \in Seq(Config) /\ Len(s \o t) = Len(u)
        /\ \A i \in 1 .. Len(u) : (s \o t)[i] = u[i]
    <3>1. s \o t \in Seq(Config) /\ Len(s \o t) = Len(u)
      BY <1>2
    <3>2. ASSUME NEW i \in 1 .. Len(u)
          PROVE  (s \o t)[i] = u[i]
      <4>1. CASE i <= Len(a)
        BY <1>2, <1>3, <4>1
      <4>2. CASE i > Len(a)
        <5>1. i - Len(a) \in 1 .. Len(b) /\ i = Len(a) + (i - Len(a))
          BY <1>2, <4>2
        <5>2. u[i] = t[i - Len(a)]
          BY <1>4, <5>1
        <5> QED
          BY <1>2, <4>2, <5>1, <5>2
      <4> QED
        BY <1>2, <4>1, <4>2
    <3> QED
      BY <3>1, <3>2
  <2> QED
    BY <1>2, <2>1, SeqEqual
<1>6. FlattenSeq(u) = FlattenSeq(s) \o FlattenSeq(t)
  BY <1>2, <1>5, FlattenConcat DEF Config
<1> QED
  BY <1>1, <1>6, KeptType DEF c, s, t, u

(* Those of a file of one line.                                            *)
LEMMA RestOne ==
  ASSUME NEW l \in Line
  PROVE  Rest(<<l>>) = Kept(l)
<1>1. <<l>> \in Config /\ Kept(l) \in Seq(Line)
  BY Short DEF Config, Kept
<1>2. KeptOf(<<l>>) = <<Kept(l)>>
  BY DEF KeptOf
<1> QED
  BY <1>1, <1>2, KeptType, FlattenOne

(* What wgSet makes of a line has the administrator's line in it, or none  *)
(* if it was none.                                                         *)
LEMMA RestOfPiece ==
  ASSUME NEW f \in Config, NEW e \in BOOLEAN, NEW i \in DOMAIN f
  PROVE  Rest(Pieces(f, e)[i]) = Kept(f[i])
<1> DEFINE m == f[i].kind
           d == Desired(m, e)
           p == Desired(Partner(m), e)
<1>1. f[i] \in Line
  BY DEF Config
<1>2. CASE Pieces(f, e)[i] = <<f[i]>>
  BY <1>1, <1>2, RestOne
<1>3. ASSUME m \in Marker
      PROVE  /\ Kept(f[i]) = <<>> /\ d \in Line /\ p \in Line
             /\ Kept(d) = <<>> /\ Kept(p) = <<>>
  <2>1. d \in Line /\ p \in Line /\ d.kind \in Marker /\ p.kind \in Marker
    BY <1>3, DesiredLine, PartnerOf
  <2> HIDE DEF d, p
  <2> QED
    BY <1>3, <2>1 DEF Kept, Managed
<1>4. CASE m \in Marker /\ Pieces(f, e)[i] = <<d>>
  <2> HIDE DEF d, p
  <2> QED
    BY <1>3, <1>4, RestOne
<1>5. CASE m \in Marker /\ Pieces(f, e)[i] = <<d, p>>
  <2> HIDE DEF d, p
  <2>1. <<d, p>> = <<d>> \o <<p>> /\ <<d>> \in Config /\ <<p>> \in Config
    BY <1>3, <1>5, Short DEF Config
  <2>2. Rest(<<d, p>>) = Rest(<<d>>) \o Rest(<<p>>)
    BY <2>1, RestConcat
  <2>3. Rest(<<d>>) = <<>> /\ Rest(<<p>>) = <<>>
    BY <1>3, <1>5, RestOne
  <2> QED
    BY <1>3, <1>5, <2>2, <2>3
<1> QED
  BY <1>2, <1>4, <1>5, PiecesAre

(* So wgSet keeps the administrator's lines, all of them and in their      *)
(* order.                                                                  *)
LEMMA WgSetRest ==
  ASSUME NEW f \in Config, NEW e \in BOOLEAN
  PROVE  Rest(WgSet(f, e)) = Rest(f)
<1> DEFINE n == Len(f)
           s == Pieces(f, e)
           k == KeptOf(f)
<1>1. n \in Nat /\ DOMAIN f = 1 .. n /\ s \in [1 .. n -> Config]
  BY PiecesType DEF Config
<1>2. k \in [1 .. n -> Config] /\ \A i \in 1 .. n : k[i] = Kept(f[i])
  BY KeptType DEF Config
<1>3. \A i \in 1 .. n : Rest(s[i]) = k[i]
  BY <1>1, <1>2, RestOfPiece
<1>4. WgSet(f, e) = FlattenSeq(s)
  BY DEF WgSet, Pieces
<1>5. Rest(f) = FlattenSeq(k)
  BY KeptType
<1> HIDE DEF n, s, k
<1>6. PICK h \in Joins(n, Config, s) : FlattenSeq(s) = h[n]
  BY <1>1, FlattenSteps DEF Config
<1>7. PICK r \in Joins(n, Config, k) : FlattenSeq(k) = r[n]
  BY <1>1, <1>2, FlattenSteps DEF Config
<1> DEFINE T == {i \in 0 .. n : Rest(h[i]) = r[i]}
<1>8. 0 \in T
  <2>1. Rest(<<>>) = <<>>
    BY FlattenEmpty DEF Rest
  <2>2. h[0] = <<>> /\ r[0] = <<>>
    BY DEF Joins
  <2> QED
    BY <1>1, <2>1, <2>2
<1>9. ASSUME NEW i \in 1 .. n, i - 1 \in T
      PROVE  i \in T
  <2>1. i - 1 \in 0 .. n /\ i \in 0 .. n
    BY <1>1
  <2>2. h[i] = h[i - 1] \o s[i] /\ h[i - 1] \in Config /\ s[i] \in Config
    BY <1>1, <2>1 DEF Joins
  <2>3. r[i] = r[i - 1] \o k[i]
    BY DEF Joins
  <2>4. Rest(h[i]) = Rest(h[i - 1]) \o Rest(s[i])
    BY <2>2, RestConcat
  <2>5. Rest(h[i]) = r[i]
    BY <1>3, <1>9, <2>3, <2>4
  <2> QED
    BY <2>1, <2>5
<1>10. \A i \in 0 .. n : i \in T
  <2> HIDE DEF T
  <2> QED
    BY <1>1, <1>8, <1>9, UpTo
<1>11. n \in T
  <2> HIDE DEF T
  <2> QED
    BY <1>1, <1>10
<1> QED
  BY <1>4, <1>5, <1>6, <1>7, <1>11

(* Where a marker's line in what wgSet writes comes from.                  *)
LEMMA MarkersInPieces ==
  ASSUME NEW f \in Config, NEW e \in BOOLEAN, OneEach(f), NEW i \in DOMAIN f,
         NEW x \in DOMAIN Pieces(f, e)[i],
         Pieces(f, e)[i][x].kind \in Marker
  PROVE  LET m == f[i].kind
             l == Pieces(f, e)[i][x]
         IN  /\ m \in Marker
             /\ l = Desired(l.kind, e)
             /\ \/ x = 1 /\ l.kind = m
                \/ x = 2 /\ l.kind = Partner(m) /\ First(f, Partner(m)) = 0
<1> DEFINE m == f[i].kind
           d == Desired(m, e)
           p == Desired(Partner(m), e)
           s == Pieces(f, e)[i]
<1>1. m \in Marker => First(f, m) = i
  BY FirstIs DEF OneEach
<1>2. m \in Marker => Partner(m) \in Marker /\ d.kind = m /\ p.kind = Partner(m)
  BY DesiredLine, PartnerOf
<1>3. \/ m \notin Marker /\ s = <<f[i]>>
      \/ m \in Marker /\ s = <<d>>
      \/ m \in Marker /\ First(f, Partner(m)) = 0 /\ s = <<d, p>>
  BY <1>1, PiecesAre
<1>4. x \in DOMAIN s /\ s[x].kind \in Marker
  OBVIOUS
<1>5. /\ m \in Marker
      /\ s[x] = Desired(s[x].kind, e)
      /\ \/ x = 1 /\ s[x].kind = m
         \/ x = 2 /\ s[x].kind = Partner(m) /\ First(f, Partner(m)) = 0
  <2>1. CASE m \notin Marker /\ s = <<f[i]>>
    <3>1. s[x] = f[i]
      BY <1>4, <2>1
    <3> QED
      BY <1>4, <2>1, <3>1
  <2>2. CASE m \in Marker /\ s = <<d>>
    <3>1. x = 1 /\ s[x] = d
      BY <1>4, <2>2
    <3> QED
      BY <1>2, <2>2, <3>1
  <2>3. CASE m \in Marker /\ First(f, Partner(m)) = 0 /\ s = <<d, p>>
    <3>1. \/ x = 1 /\ s[x] = d
          \/ x = 2 /\ s[x] = p
      BY <1>4, <2>3
    <3> QED
      BY <1>2, <2>3, <3>1
  <2> QED
    BY <1>3, <2>1, <2>2, <2>3
<1> QED
  BY <1>5

(* wgSet leaves every marker line as asked for and doubles none; and all   *)
(* four are there, if each hook had a line.                                *)
LEMMA WgSetMarkers ==
  ASSUME NEW f \in Config, NEW e \in BOOLEAN, OneEach(f)
  PROVE  LET g == WgSet(f, e)
         IN  /\ \A j \in DOMAIN g : g[j].kind \in Marker => g[j] = Desired(g[j].kind, e)
             /\ OneEach(g)
             /\ WgEditable(f) => \A m \in Marker : \E j \in DOMAIN g : g[j].kind = m
<1> DEFINE g == WgSet(f, e)
           s == Pieces(f, e)
           n == Len(f)
<1>1. n \in Nat /\ DOMAIN f = 1 .. n /\ s \in [1 .. n -> Seq(Line)]
  BY PiecesType
<1>2. g = FlattenSeq(s)
  BY DEF WgSet, Pieces
<1>3. PICK p : p \in Placings(n, s, g)
  BY <1>1, <1>2, FlattenPlaces
<1>4. /\ \A j \in DOMAIN g : p[j] \in Places(n, s) /\ g[j] = s[p[j][1]][p[j][2]]
      /\ \A j, l \in DOMAIN g : p[j] = p[l] => j = l
      /\ \A q \in Places(n, s) : \E j \in DOMAIN g : p[j] = q
  BY <1>3 DEF Placings
<1>5. ASSUME NEW q \in Places(n, s)
      PROVE  q[1] \in DOMAIN f /\ q[2] \in DOMAIN s[q[1]] /\ q = <<q[1], q[2]>>
  BY <1>1 DEF Places
<1>6. ASSUME NEW i \in DOMAIN f, NEW x \in Nat, x \in DOMAIN s[i]
      PROVE  \E j \in DOMAIN g : g[j] = s[i][x]
  <2>1. <<i, x>> \in Places(n, s)
    BY <1>1, <1>6 DEF Places
  <2> QED
    BY <1>4, <2>1
<1> HIDE DEF g, n
<1>7. ASSUME NEW j \in DOMAIN g, g[j].kind \in Marker
      PROVE  LET i == p[j][1]
                 x == p[j][2]
                 m == f[i].kind
             IN  /\ i \in DOMAIN f /\ p[j] = <<i, x>>
                 /\ m \in Marker
                 /\ g[j] = Desired(g[j].kind, e)
                 /\ \/ x = 1 /\ g[j].kind = m
                    \/ x = 2 /\ g[j].kind = Partner(m) /\ First(f, Partner(m)) = 0
  <2>1. /\ p[j][1] \in DOMAIN f /\ p[j][2] \in DOMAIN s[p[j][1]]
        /\ p[j] = <<p[j][1], p[j][2]>>
        /\ g[j] = s[p[j][1]][p[j][2]]
    BY <1>4, <1>5
  <2> DEFINE i == p[j][1]
             x == p[j][2]
  <2>2. /\ i \in DOMAIN f /\ x \in DOMAIN s[i] /\ p[j] = <<i, x>>
        /\ g[j] = s[i][x] /\ s[i][x].kind \in Marker
    BY <1>7, <2>1
  <2> HIDE DEF i, x
  <2>3. /\ f[i].kind \in Marker
        /\ s[i][x] = Desired(s[i][x].kind, e)
        /\ \/ x = 1 /\ s[i][x].kind = f[i].kind
           \/ x = 2 /\ s[i][x].kind = Partner(f[i].kind)
                    /\ First(f, Partner(f[i].kind)) = 0
    BY <2>2, MarkersInPieces
  <2> QED
    BY <2>2, <2>3 DEF i, x
<1>8. \A j \in DOMAIN g : g[j].kind \in Marker => g[j] = Desired(g[j].kind, e)
  BY <1>7
<1>9. ASSUME NEW j \in DOMAIN g, NEW l \in DOMAIN g,
             g[j].kind = g[l].kind, g[j].kind \in Marker
      PROVE  j = l
  <2> DEFINE k == g[j].kind
             i1 == p[j][1]
             i2 == p[l][1]
             x1 == p[j][2]
             x2 == p[l][2]
             m1 == f[i1].kind
             m2 == f[i2].kind
  <2>1. /\ i1 \in DOMAIN f /\ p[j] = <<i1, x1>> /\ m1 \in Marker
        /\ \/ x1 = 1 /\ k = m1
           \/ x1 = 2 /\ k = Partner(m1) /\ First(f, Partner(m1)) = 0
    BY <1>7, <1>9
  <2>2. /\ i2 \in DOMAIN f /\ p[l] = <<i2, x2>> /\ m2 \in Marker
        /\ \/ x2 = 1 /\ k = m2
           \/ x2 = 2 /\ k = Partner(m2) /\ First(f, Partner(m2)) = 0
    BY <1>7, <1>9
  <2> HIDE DEF k, i1, i2, x1, x2
  <2>3. m1 = m2 /\ x1 = x2
    BY <2>1, <2>2, FirstIs, PartnerOf
  <2>4. i1 = i2
    BY <2>1, <2>2, <2>3 DEF OneEach
  <2>5. p[j] = p[l]
    BY <2>1, <2>2, <2>3, <2>4
  <2> QED
    BY <1>4, <2>5
<1>10. ASSUME WgEditable(f), NEW m \in Marker
       PROVE  \E j \in DOMAIN g : g[j].kind = m
  <2>1. CASE First(f, m) # 0
    <3> DEFINE i == First(f, m)
    <3>1. i \in DOMAIN f /\ f[i].kind = m
      BY <2>1, FirstIs
    <3>2. s[i] = <<Desired(m, e)>> \/ s[i] = <<Desired(m, e), Desired(Partner(m), e)>>
      BY <3>1, PiecesAre
    <3>3. 1 \in DOMAIN s[i] /\ s[i][1] = Desired(m, e)
      BY <3>2
    <3> QED
      BY <1>6, <3>1, <3>3, DesiredLine
  <2>2. CASE First(f, m) = 0
    <3> DEFINE q == Partner(m)
               i == First(f, q)
    <3>1. First(f, q) # 0
      BY <1>10, <2>2, Partners DEF WgEditable, Marker, Accept, Reject, Hook
    <3>2. i \in DOMAIN f /\ f[i].kind = q /\ q \in Marker /\ Partner(q) = m
      BY <3>1, FirstIs, PartnerOf
    <3>3. s[i] = <<Desired(q, e), Desired(m, e)>>
      BY <2>2, <3>2, PiecesAre
    <3>4. 2 \in DOMAIN s[i] /\ s[i][2] = Desired(m, e)
      BY <3>3
    <3> QED
      BY <1>6, <3>2, <3>4, DesiredLine
  <2> QED
    BY <2>1, <2>2
<1> QED
  BY <1>8, <1>9, <1>10 DEF g, OneEach

(* Then the file says what was asked for: to the panel, which compares the *)
(* lines of each hook, and to wg, for which the last active line counts.   *)
LEMMA WgSetForce ==
  ASSUME NEW f \in Config, NEW e \in BOOLEAN, OneEach(f), WgEditable(f)
  PROVE  /\ WgState(WgSet(f, e)) = OnOff(e)
         /\ Policy(WgSet(f, e)) = OnOff(e)
<1> DEFINE g == WgSet(f, e)
<1>1. g \in Config /\ DOMAIN g = 1 .. Len(g) /\ Len(g) \in Nat
  BY WgSetType DEF Config
<1>2. /\ \A j \in DOMAIN g : g[j].kind \in Marker => g[j] = Desired(g[j].kind, e)
      /\ \A m \in Marker : \E j \in DOMAIN g : g[j].kind = m
  BY WgSetMarkers
<1> HIDE DEF g
<1>3. ASSUME NEW m \in Marker
      PROVE  /\ First(g, m) \in DOMAIN g /\ First(g, m) # 0
             /\ g[First(g, m)].kind = m
             /\ Active(g, m) = ((m \in {Accept[h] : h \in Hook}) = e)
  <2>1. First(g, m) # 0
    BY <1>1, <1>2, FirstIs
  <2>2. First(g, m) \in DOMAIN g /\ g[First(g, m)].kind = m
    BY <1>1, <2>1, FirstIs
  <2>3. g[First(g, m)] = Desired(m, e)
    BY <1>2, <2>2
  <2>4. Desired(m, e).on = ((m \in {Accept[h] : h \in Hook}) = e)
    BY DEF Desired
  <2>5. Active(g, m) = Desired(m, e).on
    <3>1. Desired(m, e).on \in BOOLEAN
      BY <2>4
    <3> QED
      BY <2>1, <2>3, <3>1 DEF Active
  <2> QED
    BY <2>1, <2>2, <2>4, <2>5
<1>4. ASSUME NEW h \in Hook
      PROVE  /\ Accept[h] \in Marker /\ Reject[h] \in Marker
             /\ Accept[h] \in {Accept[k] : k \in Hook}
             /\ Reject[h] \notin {Accept[k] : k \in Hook}
  BY DEF Hook, Accept, Reject, Marker
<1>5. ASSUME NEW h \in Hook
      PROVE  HookState(g, h) = OnOff(e)
  <2>1. Active(g, Accept[h]) = e /\ Active(g, Reject[h]) = ~e
    BY <1>3, <1>4
  <2> QED
    BY <2>1 DEF HookState
<1>6. WgState(g) = OnOff(e)
  BY <1>5 DEF WgState, Hook
<1> DEFINE I == {i \in 1 .. Len(g) : g[i].on /\ g[i].kind \in {"upAccept", "upReject"}}
           last == IF I # {} THEN Max(I) ELSE 0
<1>7. SelectLastInSeq(g, LAMBDA l : l.on /\ l.kind \in {"upAccept", "upReject"}) = last
  BY DEF SelectLastInSeq
<1>8. I # {}
  <2>1. PICK m \in {"upAccept", "upReject"} : (m = "upAccept") = e
    OBVIOUS
  <2>2. m \in Marker /\ (m \in {Accept[h] : h \in Hook}) = (m = "upAccept")
    BY <2>1 DEF Marker, Hook, Accept
  <2>3. Active(g, m)
    BY <1>3, <2>1, <2>2
  <2> QED
    BY <1>1, <1>3, <2>1, <2>2, <2>3 DEF Active
<1>9. last \in I
  <2>1. I \in SUBSET (0 .. Len(g))
    OBVIOUS
  <2> HIDE DEF I
  <2>2. \E k \in I : \A j \in I : k >= j
    BY <1>1, <1>8, <2>1, Greatest
  <2> QED
    BY <1>8, <2>2 DEF Max
<1>10. Policy(g) = IF last = 0 THEN "unknown" ELSE OnOff(g[last].kind = "upAccept")
  BY <1>7 DEF Policy
<1>11. ASSUME NEW i \in I
       PROVE  (g[i].kind = "upAccept") = e
  <2>1. g[i].kind \in Marker /\ g[i].on /\ i \in DOMAIN g
    BY <1>1 DEF Marker
  <2>2. g[i] = Desired(g[i].kind, e)
    BY <1>2, <2>1
  <2>3. g[i].kind = "upAccept" <=> g[i].kind \in {Accept[h] : h \in Hook}
    BY DEF Hook, Accept
  <2>4. Desired(g[i].kind, e).on = ((g[i].kind \in {Accept[h] : h \in Hook}) = e)
    BY DEF Desired
  <2>5. (g[i].kind \in {Accept[h] : h \in Hook}) = e
    BY <2>1, <2>2, <2>4
  <2> QED
    BY <2>3, <2>5
<1>12. Policy(g) = OnOff(e)
  <2>1. last # 0
    BY <1>9
  <2> HIDE DEF last, I
  <2> QED
    BY <1>9, <1>10, <1>11, <2>1
<1> QED
  BY <1>6, <1>12 DEF g

-----------------------------------------------------------------------------
(* The OpenVPN editor.                                                     *)

(* The OpenVPN editor changes its directives only.                         *)
LEMMA OvpnSetLines ==
  ASSUME NEW f \in Config, NEW e \in BOOLEAN
  PROVE  LET g == OvpnSet(f, e)
         IN  /\ g \in Config /\ DOMAIN g = DOMAIN f
             /\ \A i \in DOMAIN f :
                    /\ g[i].kind = f[i].kind
                    /\ f[i].kind # "directive" => g[i] = f[i]
                    /\ f[i].kind = "directive" => g[i].on = e
<1> DEFINE g == OvpnSet(f, e)
<1>1. DOMAIN f = 1 .. Len(f) /\ Len(f) \in Nat /\ \A i \in DOMAIN f : f[i] \in Line
  BY DEF Config
<1>2. DOMAIN g = DOMAIN f
  BY DEF OvpnSet
<1>3. ASSUME NEW i \in DOMAIN f
      PROVE  /\ g[i] \in Line
             /\ g[i].kind = f[i].kind
             /\ f[i].kind # "directive" => g[i] = f[i]
             /\ f[i].kind = "directive" => g[i].on = e
  <2>1. g[i] = IF f[i].kind = "directive" THEN [f[i] EXCEPT !.on = e] ELSE f[i]
    BY DEF OvpnSet, Directives
  <2>2. f[i] \in Line
    BY <1>1
  <2> HIDE DEF g
  <2> QED
    BY <2>1, <2>2 DEF Line
<1>4. g \in Config
  <2>1. g \in [1 .. Len(f) -> Line]
    BY <1>1, <1>3 DEF OvpnSet
  <2> HIDE DEF g
  <2> QED
    BY <1>1, <2>1 DEF Config
<1> QED
  BY <1>2, <1>3, <1>4

(* So it keeps the administrator's lines.                                  *)
LEMMA OvpnSetRest ==
  ASSUME NEW f \in Config, NEW e \in BOOLEAN
  PROVE  Rest(OvpnSet(f, e)) = Rest(f)
<1> DEFINE g == OvpnSet(f, e)
<1>1. /\ DOMAIN g = DOMAIN f
      /\ \A i \in DOMAIN f : /\ g[i].kind = f[i].kind
                             /\ f[i].kind # "directive" => g[i] = f[i]
  BY OvpnSetLines
<1> HIDE DEF g
<1>2. ASSUME NEW i \in DOMAIN f
      PROVE  Kept(g[i]) = Kept(f[i])
  BY <1>1 DEF Kept, Managed
<1>3. [i \in DOMAIN g |-> Kept(g[i])] = [i \in DOMAIN f |-> Kept(f[i])]
  BY <1>1, <1>2
<1> QED
  BY <1>3 DEF Rest, g

(* And the file then says what was asked for.                              *)
LEMMA OvpnSetForce ==
  ASSUME NEW f \in Config, NEW e \in BOOLEAN, OvpnEditable(f)
  PROVE  OvpnState(OvpnSet(f, e)) = OnOff(e)
<1> DEFINE g == OvpnSet(f, e)
<1>1. /\ Directives(g) # {}
      /\ \A i \in Directives(g) : g[i].on = e
  BY OvpnSetLines DEF OvpnEditable, Directives
<1> HIDE DEF g
<1> DEFINE states == {OnOff(g[i].on) : i \in Directives(g)}
<1>2. states = {OnOff(e)}
  BY <1>1
<1>3. OnOff(e) \in State
  BY DEF OnOff, State
<1> HIDE DEF states
<1>4. \A s \in State : states = {s} => s = OnOff(e)
  BY <1>2
<1>5. OvpnState(g) = IF \E s \in State : states = {s}
                     THEN CHOOSE s \in State : states = {s} ELSE "unknown"
  BY DEF OvpnState, states
<1> QED
  BY <1>2, <1>3, <1>4, <1>5 DEF g

-----------------------------------------------------------------------------
(* The mutex and the rollback.                                             *)

Steps == {"idle", "lock", "read", "backup", "write", "restart", "check",
          "undo", "again"}

(* The part of the types the proof needs.                                  *)
ReqTypes ==
    /\ mu \in Req \union {None}
    /\ pc \in [Req -> Steps]
    /\ enabled \in [Req -> BOOLEAN]
    /\ DOMAIN original = Req
    /\ mishap \in {"none", "cut short", "edited"}

(* Only the holder of the mutex is inside Set.                             *)
Alone == \A r \in Req : pc[r] \notin {"idle", "lock"} => mu = r

(* While nobody is half way, the file is the good one.                     *)
QuietGood == Quiet /\ mishap = "none" => file = good

(* What the request inside knows, and what it has done to the file.        *)
Inside(r) ==
    /\ pc[r] \notin {"idle", "lock", "read"} /\ mishap # "edited"
         => original[r] = good
    /\ pc[r] = "write" /\ mishap # "edited" => backup = good
    /\ pc[r] \in {"restart", "check", "undo", "again"} /\ mishap # "edited"
         => backup = good
    /\ pc[r] \in {"backup", "write", "restart", "check", "undo"}
         => mishap \in {"none", "edited"}
    /\ pc[r] \in {"backup", "write", "again"} /\ mishap = "none" => file = good
    /\ pc[r] \in {"restart", "check"} /\ mishap = "none"
         => file = SetTo(original[r], enabled[r])

(* Only between a rewrite and the restart that follows it may unit and     *)
(* file differ.                                                            *)
Loaded ==
    /\ \A r \in Req : pc[r] \notin {"restart", "undo", "again"}
    /\ ~dirty
    /\ ~skipped
    => running \in {file, Stopped}

ToggleInv ==
    /\ ReqTypes
    /\ Alone
    /\ QuietGood
    /\ Recoverable
    /\ Loaded
    /\ \A r \in Req : Inside(r)

(* The invariant holds at the start. *)
LEMMA ToggleInit == ASSUME Init PROVE ToggleInv
BY DEF Init, ToggleInv, ReqTypes, Alone, QuietGood, Quiet, HalfWay,
       Recoverable, Inside, Loaded, Steps

(* Every step keeps it. *)
LEMMA ToggleStep == ASSUME ToggleInv, [Next]_vars PROVE ToggleInv'
<1> USE ToggleAssumption
        DEF ToggleInv, ReqTypes, Alone, QuietGood, Quiet, HalfWay,
            Recoverable, Inside, Loaded, Steps, SetTo
<1>1. CASE \E r \in Req, e \in BOOLEAN : Put(r, e)
  <2> PICK r \in Req, e \in BOOLEAN : Put(r, e)
    BY <1>1
  <2> USE DEF Put, history
  <2>1. ReqTypes'
    OBVIOUS
  <2>2. Alone'
    OBVIOUS
  <2>3. \A q \in Req : Inside(q)'
    OBVIOUS
  <2>4. QuietGood' /\ Recoverable' /\ Loaded'
    OBVIOUS
  <2> QED
    BY <2>1, <2>2, <2>3, <2>4
<1>2. CASE \E r \in Req : Lock(r)
  <2> PICK r \in Req : Lock(r)
    BY <1>2
  <2> USE DEF Lock, history
  <2>1. ReqTypes'
    OBVIOUS
  <2>2. Alone'
    OBVIOUS
  <2>3. \A q \in Req : Inside(q)'
    OBVIOUS
  <2>4. QuietGood' /\ Recoverable' /\ Loaded'
    OBVIOUS
  <2> QED
    BY <2>1, <2>2, <2>3, <2>4
<1>3. CASE \E r \in Req : ReadConfig(r)
  <2> PICK r \in Req : ReadConfig(r)
    BY <1>3
  <2> USE DEF ReadConfig
  <2>1. ReqTypes' /\ Alone'
    OBVIOUS
  <2>2. \A q \in Req : Inside(q)'
    OBVIOUS
  <2>3. QuietGood' /\ Recoverable'
    OBVIOUS
  <2>4. Loaded'
    OBVIOUS
  <2> QED
    BY <2>1, <2>2, <2>3, <2>4
<1>4. CASE \E r \in Req : Refuse(r)
  <2> PICK r \in Req : Refuse(r)
    BY <1>4
  <2> USE DEF Refuse, Return, history
  <2>1. ReqTypes' /\ Alone'
    OBVIOUS
  <2>2. \A q \in Req : Inside(q)'
    OBVIOUS
  <2>3. QuietGood' /\ Recoverable'
    OBVIOUS
  <2>4. Loaded'
    OBVIOUS
  <2> QED
    BY <2>1, <2>2, <2>3, <2>4
<1>5. CASE \E r \in Req : Backup(r)
  <2> PICK r \in Req : Backup(r)
    BY <1>5
  <2> USE DEF Backup, GoOn, history
  <2>1. ReqTypes' /\ Alone'
    OBVIOUS
  <2>2. \A q \in Req : Inside(q)'
    OBVIOUS
  <2>3. QuietGood' /\ Recoverable'
    OBVIOUS
  <2>4. Loaded'
    OBVIOUS
  <2> QED
    BY <2>1, <2>2, <2>3, <2>4
<1>6. CASE \E r \in Req : GiveUp(r)
  <2> PICK r \in Req : GiveUp(r)
    BY <1>6
  <2> USE DEF GiveUp, Return, history
  <2>1. ReqTypes' /\ Alone'
    OBVIOUS
  <2>2. \A q \in Req : Inside(q)'
    OBVIOUS
  <2>3. QuietGood' /\ Recoverable'
    OBVIOUS
  <2>4. Loaded'
    OBVIOUS
  <2> QED
    BY <2>1, <2>2, <2>3, <2>4
<1>7. CASE \E r \in Req : Write(r)
  <2> PICK r \in Req : Write(r)
    BY <1>7
  <2> USE DEF Write, GoOn, history
  <2>1. ReqTypes' /\ Alone'
    OBVIOUS
  <2>2. \A q \in Req : Inside(q)'
    OBVIOUS
  <2>3. QuietGood' /\ Recoverable'
    OBVIOUS
  <2>4. Loaded'
    OBVIOUS
  <2> QED
    BY <2>1, <2>2, <2>3, <2>4
<1>8. CASE \E r \in Req : Restart(r)
  <2> PICK r \in Req : Restart(r)
    BY <1>8
  <2>1. PICK next \in {"check", "undo"} : pc' = [pc EXCEPT ![r] = next]
    BY DEF Restart, GoOn
  <2>2. /\ pc[r] = "restart"
        /\ UNCHANGED <<service, mu, enabled, original, gone, file, backup, good,
                       mishap>>
    BY DEF Restart, GoOn
  <2>3. ReqTypes' /\ Alone'
    BY <2>1, <2>2
  <2>4. \A q \in Req : Inside(q)'
    BY <2>1, <2>2
  <2>5. QuietGood' /\ Recoverable'
    BY <2>1, <2>2
  <2>6. Loaded'
    <3>1. pc' = [pc EXCEPT ![r] = "undo"] \/ running' \in {file, Stopped}
      BY DEF Restart, GoOn, Reload, Die
    <3> QED
      BY <2>2, <3>1
  <2> QED
    BY <2>3, <2>4, <2>5, <2>6
<1>9. CASE \E r \in Req : RestartCut(r)
  <2> PICK r \in Req : RestartCut(r)
    BY <1>9
  <2> USE DEF RestartCut, GoOn, Unreached
  <2>1. ReqTypes' /\ Alone'
    OBVIOUS
  <2>2. \A q \in Req : Inside(q)'
    OBVIOUS
  <2>3. QuietGood' /\ Recoverable'
    OBVIOUS
  <2>4. Loaded'
    OBVIOUS
  <2> QED
    BY <2>1, <2>2, <2>3, <2>4
<1>10. CASE \E r \in Req : IsActive(r)
  <2> PICK r \in Req : IsActive(r)
    BY <1>10
  <2> USE DEF IsActive, Return
  <2>1. ReqTypes'
    OBVIOUS
  <2>2. Alone'
    OBVIOUS
  <2>3. \A q \in Req : Inside(q)'
    OBVIOUS
  <2>4. QuietGood' /\ Recoverable' /\ Loaded'
    OBVIOUS
  <2> QED
    BY <2>1, <2>2, <2>3, <2>4
<1>11. CASE \E r \in Req : NotActive(r)
  <2> PICK r \in Req : NotActive(r)
    BY <1>11
  <2> USE DEF NotActive, GoOn, history
  <2>1. ReqTypes' /\ Alone'
    OBVIOUS
  <2>2. \A q \in Req : Inside(q)'
    OBVIOUS
  <2>3. QuietGood' /\ Recoverable'
    OBVIOUS
  <2>4. Loaded'
    OBVIOUS
  <2> QED
    BY <2>1, <2>2, <2>3, <2>4
<1>12. CASE \E r \in Req : Undo(r)
  <2> PICK r \in Req : Undo(r)
    BY <1>12
  <2> USE DEF Undo, GoOn, history
  <2>1. ReqTypes' /\ Alone'
    OBVIOUS
  <2>2. \A q \in Req : Inside(q)'
    OBVIOUS
  <2>3. QuietGood' /\ Recoverable'
    OBVIOUS
  <2>4. Loaded'
    OBVIOUS
  <2> QED
    BY <2>1, <2>2, <2>3, <2>4
<1>13. CASE \E r \in Req : UndoFails(r)
  <2> PICK r \in Req : UndoFails(r)
    BY <1>13
  <2> USE DEF UndoFails, GoOn
  <2>1. ReqTypes' /\ Alone'
    OBVIOUS
  <2>2. \A q \in Req : Inside(q)'
    OBVIOUS
  <2>3. QuietGood' /\ Recoverable'
    OBVIOUS
  <2>4. Loaded'
    OBVIOUS
  <2> QED
    BY <2>1, <2>2, <2>3, <2>4
<1>14. CASE \E r \in Req : RestartAgain(r)
  <2> PICK r \in Req : RestartAgain(r)
    BY <1>14
  <2> USE DEF RestartAgain, Return, Reload, Die, Unreached
  <2>1. ReqTypes' /\ Alone'
    OBVIOUS
  <2>2. \A q \in Req : Inside(q)'
    OBVIOUS
  <2>3. QuietGood' /\ Recoverable'
    OBVIOUS
  <2>4. Loaded'
    OBVIOUS
  <2> QED
    BY <2>1, <2>2, <2>3, <2>4
<1>15. CASE \E r \in Req : AgainCut(r)
  <2> PICK r \in Req : AgainCut(r)
    BY <1>15
  <2> USE DEF AgainCut, Return, Unreached
  <2>1. ReqTypes' /\ Alone'
    OBVIOUS
  <2>2. \A q \in Req : Inside(q)'
    OBVIOUS
  <2>3. QuietGood' /\ Recoverable'
    OBVIOUS
  <2>4. Loaded'
    OBVIOUS
  <2> QED
    BY <2>1, <2>2, <2>3, <2>4
<1>16. CASE \E r \in Req : Leave(r)
  <2> PICK r \in Req : Leave(r)
    BY <1>16
  <2> USE DEF Leave, history
  <2>1. ReqTypes' /\ Alone'
    OBVIOUS
  <2>2. \A q \in Req : Inside(q)'
    OBVIOUS
  <2>3. QuietGood' /\ Recoverable'
    OBVIOUS
  <2>4. Loaded'
    OBVIOUS
  <2> QED
    BY <2>1, <2>2, <2>3, <2>4
<1>17. CASE \E f \in Files[service] : Edit(f)
  <2> PICK f \in Files[service] : Edit(f)
    BY <1>17
  <2> USE DEF Edit, request
  <2>1. ReqTypes' /\ Alone'
    OBVIOUS
  <2>2. \A q \in Req : Inside(q)'
    OBVIOUS
  <2>3. QuietGood' /\ Recoverable'
    OBVIOUS
  <2>4. Loaded'
    OBVIOUS
  <2> QED
    BY <2>1, <2>2, <2>3, <2>4
<1>18. CASE ServiceControl
  <2> USE <1>18 DEF ServiceControl, request, Reload, Die
  <2>1. ReqTypes' /\ Alone'
    OBVIOUS
  <2>2. \A q \in Req : Inside(q)'
    OBVIOUS
  <2>3. QuietGood' /\ Recoverable'
    OBVIOUS
  <2>4. Loaded'
    OBVIOUS
  <2> QED
    BY <2>1, <2>2, <2>3, <2>4
<1>19. CASE Exit
  <2> USE <1>19 DEF Exit
  <2>1. ReqTypes' /\ Alone'
    OBVIOUS
  <2>2. \A q \in Req : Inside(q)'
    OBVIOUS
  <2>3. QuietGood' /\ Recoverable'
    OBVIOUS
  <2>4. Loaded'
    OBVIOUS
  <2> QED
    BY <2>1, <2>2, <2>3, <2>4
<1>20. CASE UNCHANGED vars
  BY <1>20 DEF vars, request, history
<1> QED
  BY <1>1, <1>2, <1>3, <1>4, <1>5, <1>6, <1>7, <1>8, <1>9, <1>10, <1>11,
     <1>12, <1>13, <1>14, <1>15, <1>16, <1>17, <1>18, <1>19, <1>20
  DEF Next, Serve

(* Whatever the requests, the files and the hand edits, a toggle that ends *)
(* in an error leaves the file as it found it.                             *)
THEOREM ToggleUndone == Spec => []FailedToggleUndone
<1>1. ToggleInv => FailedToggleUndone
  BY DEF ToggleInv, QuietGood, Loaded, Quiet, HalfWay, FailedToggleUndone
<1> QED
  BY <1>1, ToggleInit, ToggleStep, PTL DEF Spec

(* What a toggle replaced is in the file or in the newest backup, however  *)
(* it ended.                                                               *)
THEOREM PreviousOnDisk == Spec => []Recoverable
<1>1. ToggleInv => Recoverable
  BY DEF ToggleInv, QuietGood, Loaded, Quiet, HalfWay, Recoverable
<1> QED
  BY <1>1, ToggleInit, ToggleStep, PTL DEF Spec

(* Between toggles the unit runs with the file on disk, or not at all,     *)
(* whatever systemctl did at the toggle itself, unless the restart of a    *)
(* rollback did not reach the unit.                                        *)
THEOREM DiskIsRun == Spec => []RunsWhatIsOnDisk
<1>1. ToggleInv => RunsWhatIsOnDisk
  BY DEF ToggleInv, QuietGood, Loaded, Quiet, HalfWay, RunsWhatIsOnDisk
<1> QED
  BY <1>1, ToggleInit, ToggleStep, PTL DEF Spec

-----------------------------------------------------------------------------
(* The editor of the service, whichever it is.                             *)

(* The files the WireGuard editor is right about; and what it means that a *)
(* state is in force in one.                                               *)
Clean(f) == service = "wireguard" => OneEach(f)

InForce(f, a) ==
    /\ StateOf(f) = a
    /\ service = "wireguard" => Policy(f) = a

(* What an edit does, for either service.                                  *)
LEMMA SetToIs ==
  ASSUME NEW f \in Config, NEW e \in BOOLEAN
  PROVE  /\ SetTo(f, e) \in Config
         /\ Rest(SetTo(f, e)) = Rest(f)
         /\ Clean(f) => Clean(SetTo(f, e))
         /\ Clean(f) /\ Editable(f) => InForce(SetTo(f, e), OnOff(e))
<1>1. CASE service = "wireguard"
  <2>1. SetTo(f, e) = WgSet(f, e)
    BY <1>1 DEF SetTo
  <2>2. OneEach(f) => OneEach(WgSet(f, e))
    BY WgSetMarkers
  <2>3. OneEach(f) /\ WgEditable(f)
          => WgState(WgSet(f, e)) = OnOff(e) /\ Policy(WgSet(f, e)) = OnOff(e)
    BY WgSetForce
  <2> QED
    BY <1>1, <2>1, <2>2, <2>3, WgSetType, WgSetRest
    DEF Clean, InForce, Editable, StateOf
<1>2. CASE service # "wireguard"
  <2>1. SetTo(f, e) = OvpnSet(f, e)
    BY <1>2 DEF SetTo
  <2>2. OvpnSet(f, e) \in Config
    BY OvpnSetLines
  <2>3. OvpnEditable(f) => OvpnState(OvpnSet(f, e)) = OnOff(e)
    BY OvpnSetForce
  <2> QED
    BY <1>2, <2>1, <2>2, <2>3, OvpnSetRest
    DEF Clean, InForce, Editable, StateOf
<1> QED
  BY <1>1, <1>2

(* A request that has read nothing yet has an empty file.                  *)
LEMMA NoLines == <<>> \in Config
BY DEF Config

(* The types hold at the start and after every step. *)
LEMMA TypeInit == ASSUME Init PROVE TypeOK
<1>1. <<>> \in Config /\ file \in Config
  BY NoLines, ToggleAssumption DEF Init
<1>2. /\ file \in Config /\ good \in Config /\ backup \in Config
      /\ running \in Config \union {Stopped}
  BY <1>1 DEF Init
<1>3. original \in [Req -> Config]
  BY <1>1 DEF Init
<1>4. edits \in 0 .. MaxEdits
  <2>1. MaxEdits \in Nat
    BY ToggleAssumption
  <2>2. edits = 0
    BY DEF Init
  <2> QED
    BY <2>1, <2>2
<1>5. /\ service \in Service /\ mu \in Req \union {None} /\ gone \subseteq Req
      /\ acked \in State
      /\ mishap \in {"none", "cut short", "edited"}
      /\ dirty \in BOOLEAN /\ skipped \in BOOLEAN
  BY ToggleAssumption DEF Init, State
<1>6. pc \in [Req -> Steps] /\ enabled \in [Req -> BOOLEAN]
  BY DEF Init, Steps
<1> QED
  BY <1>2, <1>3, <1>4, <1>5, <1>6 DEF TypeOK, Steps

LEMMA TypeStep == ASSUME TypeOK, [Next]_vars PROVE TypeOK'
<1> USE ToggleAssumption DEF TypeOK
<1>a. <<>> \in Config
  BY NoLines
<1>b. "unknown" \in State /\ \A e \in BOOLEAN : OnOff(e) \in State
  BY DEF OnOff, State
<1>0. <<>> \in Config /\ "unknown" \in State /\ \A e \in BOOLEAN : OnOff(e) \in State
  BY <1>a, <1>b
<1>1. CASE \E r \in Req, e \in BOOLEAN : Put(r, e)
  <2> PICK r \in Req, e \in BOOLEAN : Put(r, e)
    BY <1>1
  <2> QED
    BY DEF Put, history
<1>2. CASE \E r \in Req : Lock(r)
  <2> PICK r \in Req : Lock(r)
    BY <1>2
  <2> QED
    BY DEF Lock, history
<1>3. CASE \E r \in Req : ReadConfig(r)
  <2> PICK r \in Req : ReadConfig(r)
    BY <1>3
  <2> QED
    BY DEF ReadConfig
<1>4. CASE \E r \in Req : Refuse(r)
  <2> PICK r \in Req : Refuse(r)
    BY <1>4
  <2> QED
    BY <1>0 DEF Refuse, Return, history
<1>5. CASE \E r \in Req : Backup(r)
  <2> PICK r \in Req : Backup(r)
    BY <1>5
  <2> QED
    BY DEF Backup, GoOn, history
<1>6. CASE \E r \in Req : GiveUp(r)
  <2> PICK r \in Req : GiveUp(r)
    BY <1>6
  <2> QED
    BY <1>0 DEF GiveUp, Return, history
<1>7. CASE \E r \in Req : Write(r)
  <2> PICK r \in Req : Write(r)
    BY <1>7
  <2>1. SetTo(original[r], enabled[r]) \in Config
    BY SetToIs
  <2> QED
    BY <1>0, <2>1 DEF Write, GoOn, history
<1>8. CASE \E r \in Req : Restart(r)
  <2> PICK r \in Req : Restart(r)
    BY <1>8
  <2> QED
    BY DEF Restart, GoOn, Reload, Die, Unreached
<1>9. CASE \E r \in Req : RestartCut(r)
  <2> PICK r \in Req : RestartCut(r)
    BY <1>9
  <2> QED
    BY DEF RestartCut, GoOn, Unreached
<1>10. CASE \E r \in Req : IsActive(r)
  <2> PICK r \in Req : IsActive(r)
    BY <1>10
  <2>1. SetTo(original[r], enabled[r]) \in Config
    BY SetToIs
  <2> QED
    BY <1>0, <2>1 DEF IsActive, Return
<1>11. CASE \E r \in Req : NotActive(r)
  <2> PICK r \in Req : NotActive(r)
    BY <1>11
  <2> QED
    BY DEF NotActive, GoOn, history
<1>12. CASE \E r \in Req : Undo(r)
  <2> PICK r \in Req : Undo(r)
    BY <1>12
  <2> QED
    BY DEF Undo, GoOn, history
<1>13. CASE \E r \in Req : UndoFails(r)
  <2> PICK r \in Req : UndoFails(r)
    BY <1>13
  <2> QED
    BY <1>0 DEF UndoFails, GoOn
<1>14. CASE \E r \in Req : RestartAgain(r)
  <2> PICK r \in Req : RestartAgain(r)
    BY <1>14
  <2> QED
    BY <1>0 DEF RestartAgain, Return, Reload, Die, Unreached
<1>15. CASE \E r \in Req : AgainCut(r)
  <2> PICK r \in Req : AgainCut(r)
    BY <1>15
  <2> QED
    BY <1>0 DEF AgainCut, Return, Unreached
<1>16. CASE \E r \in Req : Leave(r)
  <2> PICK r \in Req : Leave(r)
    BY <1>16
  <2> QED
    BY DEF Leave, history
<1>17. CASE \E f \in Files[service] : Edit(f)
  <2> PICK f \in Files[service] : Edit(f)
    BY <1>17
  <2>1. f \in Config
    OBVIOUS
  <2>2. edits' \in 0 .. MaxEdits
    <3>1. edits < MaxEdits /\ edits' = edits + 1 /\ edits \in 0 .. MaxEdits
      BY DEF Edit
    <3>2. MaxEdits \in Nat
      BY ToggleAssumption
    <3> HIDE ToggleAssumption DEF TypeOK
    <3> QED
      BY <3>1, <3>2
  <2> QED
    BY <1>0, <2>1, <2>2 DEF Edit, request
<1>18. CASE ServiceControl
  BY <1>18 DEF ServiceControl, request, Reload, Die
<1>19. CASE Exit
  BY <1>0, <1>19 DEF Exit
<1>20. CASE UNCHANGED vars
  BY <1>20 DEF vars, request, history
<1> QED
  BY <1>1, <1>2, <1>3, <1>4, <1>5, <1>6, <1>7, <1>8, <1>9, <1>10, <1>11,
     <1>12, <1>13, <1>14, <1>15, <1>16, <1>17, <1>18, <1>19, <1>20
  DEF Next, Serve

(* The variables have their types, whatever the editors make of a file. *)
THEOREM ToggleTypes == Spec => []TypeOK
BY TypeInit, TypeStep, PTL DEF Spec

-----------------------------------------------------------------------------
(* An edit keeps the lines that are not its own, and so does every step.   *)
LEMMA RestStep ==
  ASSUME TypeOK, ToggleInv, AdminLinesKept, [Next]_vars
  PROVE  AdminLinesKept'
<1> USE ToggleAssumption DEF AdminLinesKept
<1>1. CASE \E r \in Req, e \in BOOLEAN : Put(r, e)
  <2> PICK r \in Req, e \in BOOLEAN : Put(r, e)
    BY <1>1
  <2> QED
    BY DEF Put, history
<1>2. CASE \E r \in Req : Lock(r)
  <2> PICK r \in Req : Lock(r)
    BY <1>2
  <2> QED
    BY DEF Lock, history
<1>3. CASE \E r \in Req : ReadConfig(r)
  <2> PICK r \in Req : ReadConfig(r)
    BY <1>3
  <2> QED
    BY DEF ReadConfig
<1>4. CASE \E r \in Req : Refuse(r)
  <2> PICK r \in Req : Refuse(r)
    BY <1>4
  <2> QED
    BY DEF Refuse, Return, history
<1>5. CASE \E r \in Req : Backup(r)
  <2> PICK r \in Req : Backup(r)
    BY <1>5
  <2> QED
    BY DEF Backup, GoOn, history
<1>6. CASE \E r \in Req : GiveUp(r)
  <2> PICK r \in Req : GiveUp(r)
    BY <1>6
  <2> QED
    BY DEF GiveUp, Return, history
<1>7. CASE \E r \in Req : Write(r)
  <2> PICK r \in Req : Write(r)
    BY <1>7
  <2>1. pc[r] = "write" /\ Inside(r) /\ original[r] \in Config /\ enabled[r] \in BOOLEAN
    BY DEF Write, ToggleInv, TypeOK
  <2>2. Rest(SetTo(original[r], enabled[r])) = Rest(original[r])
    BY <2>1, SetToIs
  <2> QED
    BY <2>1, <2>2 DEF Write, GoOn, history, Inside
<1>8. CASE \E r \in Req : Restart(r)
  <2> PICK r \in Req : Restart(r)
    BY <1>8
  <2> QED
    BY DEF Restart, GoOn, Reload, Die, Unreached
<1>9. CASE \E r \in Req : RestartCut(r)
  <2> PICK r \in Req : RestartCut(r)
    BY <1>9
  <2> QED
    BY DEF RestartCut, GoOn, Unreached
<1>10. CASE \E r \in Req : IsActive(r)
  <2> PICK r \in Req : IsActive(r)
    BY <1>10
  <2>1. pc[r] = "check" /\ Inside(r) /\ original[r] \in Config /\ enabled[r] \in BOOLEAN
    BY DEF IsActive, ToggleInv, TypeOK
  <2>2. Rest(SetTo(original[r], enabled[r])) = Rest(original[r])
    BY <2>1, SetToIs
  <2> QED
    BY <2>1, <2>2 DEF IsActive, Inside
<1>11. CASE \E r \in Req : NotActive(r)
  <2> PICK r \in Req : NotActive(r)
    BY <1>11
  <2> QED
    BY DEF NotActive, GoOn, history
<1>12. CASE \E r \in Req : Undo(r)
  <2> PICK r \in Req : Undo(r)
    BY <1>12
  <2>1. pc[r] = "undo" /\ Inside(r)
    BY DEF Undo, ToggleInv
  <2> QED
    BY <2>1 DEF Undo, GoOn, history, Inside
<1>13. CASE \E r \in Req : UndoFails(r)
  <2> PICK r \in Req : UndoFails(r)
    BY <1>13
  <2> QED
    BY DEF UndoFails, GoOn
<1>14. CASE \E r \in Req : RestartAgain(r)
  <2> PICK r \in Req : RestartAgain(r)
    BY <1>14
  <2> QED
    BY DEF RestartAgain, Return, Reload, Die, Unreached
<1>15. CASE \E r \in Req : AgainCut(r)
  <2> PICK r \in Req : AgainCut(r)
    BY <1>15
  <2> QED
    BY DEF AgainCut, Return, Unreached
<1>16. CASE \E r \in Req : Leave(r)
  <2> PICK r \in Req : Leave(r)
    BY <1>16
  <2> QED
    BY DEF Leave, history
<1>17. CASE \E f \in Files[service] : Edit(f)
  <2> PICK f \in Files[service] : Edit(f)
    BY <1>17
  <2> QED
    BY DEF Edit, request
<1>18. CASE ServiceControl
  BY <1>18 DEF ServiceControl, request, Reload, Die
<1>19. CASE Exit
  BY <1>19 DEF Exit
<1>20. CASE UNCHANGED vars
  BY <1>20 DEF vars, request, history
<1> QED
  BY <1>1, <1>2, <1>3, <1>4, <1>5, <1>6, <1>7, <1>8, <1>9, <1>10, <1>11,
     <1>12, <1>13, <1>14, <1>15, <1>16, <1>17, <1>18, <1>19, <1>20
  DEF Next, Serve

(* At no moment does a toggle lose, move or add a line that is not one of  *)
(* its own, whatever the files.                                            *)
THEOREM OthersLinesKept == Spec => []AdminLinesKept
<1>1. Init => AdminLinesKept
  BY DEF Init, AdminLinesKept
<1> QED
  BY <1>1, TypeInit, TypeStep, ToggleInit, ToggleStep, RestStep, PTL DEF Spec

-----------------------------------------------------------------------------
(* What was answered is in force in the good file, and every file in play  *)
(* can be edited again.                                                    *)
ForceInv ==
    /\ Clean(file) /\ Clean(good)
    /\ \A r \in Req :
          /\ Clean(original[r])
          /\ pc[r] \in {"backup", "write", "restart", "check"}
               => Editable(original[r])
    /\ acked # "unknown" => mishap = "none" /\ InForce(good, acked)

(* No file an administrator writes has two lines of one marker. The editor *)
(* rewrites the first of them only.                                        *)
OneMarkerEach == \A f \in Files["wireguard"] : OneEach(f)

(* It holds at the start, and every step keeps it.                         *)
LEMMA ForceInit == ASSUME Init, OneMarkerEach PROVE ForceInv
<1>1. Clean(file) /\ Clean(<<>>)
  BY DEF Init, Clean, OneMarkerEach, OneEach
<1> QED
  BY <1>1 DEF Init, ForceInv

LEMMA ForceStep ==
  ASSUME TypeOK, ToggleInv, ForceInv, OneMarkerEach, [Next]_vars
  PROVE  ForceInv'
<1> USE ToggleAssumption DEF ForceInv
<1>0. OneEach(<<>>)
  BY DEF OneEach
<1>1. CASE \E r \in Req, e \in BOOLEAN : Put(r, e)
  <2> PICK r \in Req, e \in BOOLEAN : Put(r, e)
    BY <1>1
  <2> QED
    BY <1>0 DEF Put, history, TypeOK, Clean, Editable, InForce, StateOf
<1>2. CASE \E r \in Req : Lock(r)
  <2> PICK r \in Req : Lock(r)
    BY <1>2
  <2> QED
    BY <1>0 DEF Lock, history, TypeOK, Clean, Editable, InForce, StateOf
<1>3. CASE \E r \in Req : ReadConfig(r)
  <2> PICK r \in Req : ReadConfig(r)
    BY <1>3
  <2>1. file = good \/ mishap # "none"
    <3>1. pc[r] = "read"
      BY DEF ReadConfig
    <3>2. Quiet
      BY <3>1 DEF ToggleInv, Alone, Quiet, HalfWay
    <3> QED
      BY <3>2 DEF ToggleInv, QuietGood
  <2> QED
    BY <2>1 DEF ReadConfig, TypeOK, Clean, Editable, InForce, StateOf
<1>4. CASE \E r \in Req : Refuse(r)
  <2> PICK r \in Req : Refuse(r)
    BY <1>4
  <2> QED
    BY <1>0 DEF Refuse, Return, history, TypeOK, Clean, Editable, InForce, StateOf
<1>5. CASE \E r \in Req : Backup(r)
  <2> PICK r \in Req : Backup(r)
    BY <1>5
  <2> QED
    BY <1>0 DEF Backup, GoOn, history, TypeOK, Clean, Editable, InForce, StateOf
<1>6. CASE \E r \in Req : GiveUp(r)
  <2> PICK r \in Req : GiveUp(r)
    BY <1>6
  <2> QED
    BY <1>0 DEF GiveUp, Return, history, TypeOK, Clean, Editable, InForce, StateOf
<1>7. CASE \E r \in Req : Write(r)
  <2> PICK r \in Req : Write(r)
    BY <1>7
  <2>1. /\ pc[r] = "write" /\ Inside(r)
        /\ original[r] \in Config /\ enabled[r] \in BOOLEAN
        /\ Clean(original[r]) /\ Editable(original[r])
    BY DEF Write, ToggleInv, TypeOK
  <2>2. /\ Clean(SetTo(original[r], enabled[r]))
        /\ InForce(SetTo(original[r], enabled[r]), OnOff(enabled[r]))
    BY <2>1, SetToIs
  <2> HIDE DEF ForceInv
  <2>3. ForceInv /\ UNCHANGED <<service, good, acked, mishap>>
    BY DEF Write, GoOn, history
  <2> DEFINE g == SetTo(original[r], enabled[r])
  <2>4. Clean(g)
    BY <2>2
  <2>5. file' = g
    BY DEF Write
  <2> HIDE DEF g
  <2>6. Clean(file)'
    BY <2>3, <2>4, <2>5 DEF Clean
  <2>7. /\ Clean(good)'
        /\ (acked # "unknown" => mishap = "none" /\ InForce(good, acked))'
    BY <2>3 DEF ForceInv, Clean, InForce, StateOf
  <2>8. /\ pc' = [pc EXCEPT ![r] = "restart"] /\ original' = original
        /\ pc \in [Req -> Steps]
    BY DEF Write, GoOn, TypeOK, Steps
  <2>9. \A q \in Req :
           /\ Clean(original[q])'
           /\ (pc[q] \in {"backup", "write", "restart", "check"}
                 => Editable(original[q]))'
    BY <2>1, <2>3, <2>8 DEF ForceInv, Clean, Editable
  <2> QED
    BY <2>6, <2>7, <2>9 DEF ForceInv
<1>8. CASE \E r \in Req : Restart(r)
  <2> PICK r \in Req : Restart(r)
    BY <1>8
  <2> QED
    BY <1>0
    DEF Restart, GoOn, Reload, Die, Unreached, TypeOK, Clean, Editable, InForce,
        StateOf
<1>9. CASE \E r \in Req : RestartCut(r)
  <2> PICK r \in Req : RestartCut(r)
    BY <1>9
  <2> QED
    BY <1>0
    DEF RestartCut, GoOn, Unreached, TypeOK, Clean, Editable, InForce, StateOf
<1>10. CASE \E r \in Req : IsActive(r)
  <2> PICK r \in Req : IsActive(r)
    BY <1>10
  <2>1. /\ pc[r] = "check" /\ Inside(r)
        /\ original[r] \in Config /\ enabled[r] \in BOOLEAN
        /\ Clean(original[r]) /\ Editable(original[r])
    BY DEF IsActive, ToggleInv, TypeOK
  <2>2. /\ Clean(SetTo(original[r], enabled[r]))
        /\ InForce(SetTo(original[r], enabled[r]), OnOff(enabled[r]))
    BY <2>1, SetToIs
  <2> HIDE DEF ForceInv
  <2>3. ForceInv /\ UNCHANGED <<service, file, mishap>>
    BY DEF IsActive
  <2> DEFINE g == SetTo(original[r], enabled[r])
             a == OnOff(enabled[r])
  <2>4. Clean(g) /\ InForce(g, a)
    BY <2>2
  <2>5. good' = g /\ acked' = IF mishap = "none" THEN a ELSE "unknown"
    BY DEF IsActive
  <2> HIDE DEF g, a
  <2>6. Clean(file)' /\ Clean(good)'
    BY <2>3, <2>4, <2>5 DEF ForceInv, Clean
  <2>7. (acked # "unknown" => mishap = "none" /\ InForce(good, acked))'
    BY <2>3, <2>4, <2>5 DEF InForce, StateOf
  <2>8. /\ pc' = [pc EXCEPT ![r] = "idle"]
        /\ original' = [original EXCEPT ![r] = <<>>]
        /\ pc \in [Req -> Steps] /\ original \in [Req -> Config]
    BY DEF IsActive, Return, TypeOK, Steps
  <2>9. \A q \in Req :
           /\ Clean(original[q])'
           /\ (pc[q] \in {"backup", "write", "restart", "check"}
                 => Editable(original[q]))'
    BY <1>0, <2>1, <2>3, <2>8 DEF ForceInv, Clean, Editable
  <2> QED
    BY <2>6, <2>7, <2>9 DEF ForceInv
<1>11. CASE \E r \in Req : NotActive(r)
  <2> PICK r \in Req : NotActive(r)
    BY <1>11
  <2> QED
    BY <1>0 DEF NotActive, GoOn, history, TypeOK, Clean, Editable, InForce, StateOf
<1>12. CASE \E r \in Req : Undo(r)
  <2> PICK r \in Req : Undo(r)
    BY <1>12
  <2>1. Clean(original[r])
    BY DEF Undo
  <2> QED
    BY <2>1 DEF Undo, GoOn, history, TypeOK, Clean, Editable, InForce, StateOf
<1>13. CASE \E r \in Req : UndoFails(r)
  <2> PICK r \in Req : UndoFails(r)
    BY <1>13
  <2> QED
    BY <1>0 DEF UndoFails, GoOn, TypeOK, Clean, Editable, InForce, StateOf
<1>14. CASE \E r \in Req : RestartAgain(r)
  <2> PICK r \in Req : RestartAgain(r)
    BY <1>14
  <2> QED
    BY <1>0
    DEF RestartAgain, Return, Reload, Die, Unreached, TypeOK, Clean, Editable,
        InForce, StateOf
<1>15. CASE \E r \in Req : AgainCut(r)
  <2> PICK r \in Req : AgainCut(r)
    BY <1>15
  <2> QED
    BY <1>0
    DEF AgainCut, Return, Unreached, TypeOK, Clean, Editable, InForce, StateOf
<1>16. CASE \E r \in Req : Leave(r)
  <2> PICK r \in Req : Leave(r)
    BY <1>16
  <2> QED
    BY <1>0 DEF Leave, history, TypeOK, Clean, Editable, InForce, StateOf
<1>17. CASE \E f \in Files[service] : Edit(f)
  <2> PICK f \in Files[service] : Edit(f)
    BY <1>17
  <2>1. Clean(f)
    BY DEF Clean, OneMarkerEach
  <2> QED
    BY <2>1 DEF Edit, request, Clean, Editable, InForce, StateOf
<1>18. CASE ServiceControl
  BY <1>0, <1>18
  DEF ServiceControl, request, Reload, Die, TypeOK, Clean, Editable, InForce,
      StateOf
<1>19. CASE Exit
  BY <1>0, <1>19 DEF Exit, TypeOK, Clean, Editable, InForce, StateOf
<1>20. CASE UNCHANGED vars
  BY <1>0, <1>20
  DEF vars, request, history, TypeOK, Clean, Editable, InForce, StateOf
<1> QED
  BY <1>1, <1>2, <1>3, <1>4, <1>5, <1>6, <1>7, <1>8, <1>9, <1>10, <1>11,
     <1>12, <1>13, <1>14, <1>15, <1>16, <1>17, <1>18, <1>19, <1>20
  DEF Next, Serve

(* If no file an administrator writes has two lines of one marker, what    *)
(* was last answered stays in force: in the file, as the panel reads it    *)
(* and as wg does.                                                         *)
THEOREM ToldInForce ==
  ASSUME OneMarkerEach
  PROVE  Spec => []AckedInForce
<1>1. Init => ForceInv
  BY ForceInit
<1>2. TypeOK /\ ToggleInv /\ ForceInv /\ [Next]_vars => ForceInv'
  BY ForceStep
<1>3. ToggleInv /\ ForceInv => AckedInForce
  BY DEF ToggleInv, QuietGood, ForceInv, InForce, AckedInForce
<1> QED
  BY <1>1, <1>2, <1>3, TypeInit, TypeStep, ToggleInit, ToggleStep, PTL
  DEF Spec
=============================================================================
