----------------------------- MODULE ListLemmas -----------------------------
(***************************************************************************)
(* What the proofs about configuration files need of numbers, recursion    *)
(* along a list, and FlattenSeq of the community modules.                  *)
(*                                                                         *)
(* Nothing here is about the panel.  The library's induction rules take an *)
(* operator; these take a set (UpTo), and reach everything else from       *)
(* well-founded minima.  Facts with quantifiers or sums in them are named  *)
(* (Agree, Splits, Monoid, Placings), so that the provers can match them.  *)
(***************************************************************************)
EXTENDS Naturals, Sequences, SequencesExt, WellFoundedInduction,
        SequenceTheorems, TLAPS

(* The order on the naturals, as the relation of WellFoundedInduction.     *)
LEMMA Less == OpToRel(<, Nat) = {p \in Nat \X Nat : p[1] < p[2]}
BY DEF OpToRel

(* A set of naturals with a member has a least one.                        *)
LEMMA Least ==
  ASSUME NEW T \in SUBSET Nat, T # {}
  PROVE  \E n \in T : \A m \in T : n <= m
<1>1. PICK n \in T : \A m \in T : <<m, n>> \notin OpToRel(<, Nat)
  BY WFMin, NatLessThanWellFounded
<1>2. \A m \in T : ~(m < n)
  BY <1>1, Less
<1> QED
  BY <1>2

(* One with a bound has a greatest one.                                    *)
LEMMA Greatest ==
  ASSUME NEW n \in Nat, NEW T \in SUBSET (0 .. n), T # {}
  PROVE  \E k \in T : \A m \in T : k >= m
<1> DEFINE D == {d \in 0 .. n : n - d \in T}
<1>1. D \in SUBSET Nat
  OBVIOUS
<1>2. D # {}
  <2>1. PICK k \in T : TRUE
    OBVIOUS
  <2>2. n - k \in 0 .. n /\ n - (n - k) = k
    OBVIOUS
  <2> QED
    BY <2>2
<1>3. PICK d \in D : \A c \in D : d <= c
  <2> HIDE DEF D
  <2> QED
    BY <1>1, <1>2, Least
<1>4. ASSUME NEW m \in T
      PROVE  n - d >= m
  <2>1. m \in 0 .. n /\ n - m \in 0 .. n /\ n - (n - m) = m
    OBVIOUS
  <2>2. n - m \in D
    BY <2>1
  <2>3. d <= n - m /\ d \in 0 .. n
    BY <1>3, <2>2
  <2> QED
    BY <2>1, <2>3
<1> QED
  BY <1>3, <1>4

(* Induction up to n: a set with 0, and with k if with k - 1, has all.     *)
LEMMA UpTo ==
  ASSUME NEW n \in Nat, NEW T, 0 \in T,
         \A k \in 1 .. n : k - 1 \in T => k \in T
  PROVE  \A k \in 0 .. n : k \in T
<1> DEFINE Bad == {k \in 0 .. n : k \notin T}
<1> SUFFICES ASSUME Bad # {} PROVE FALSE
  OBVIOUS
<1>1. Bad \in SUBSET Nat
  OBVIOUS
<1>2. PICK k \in Bad : \A m \in Bad : k <= m
  <2> HIDE DEF Bad
  <2> QED
    BY <1>1, Least
<1>3. k \in 0 .. n /\ k \notin T
  BY <1>2
<1>4. k \in 1 .. n /\ k - 1 \in 0 .. n
  BY <1>3
<1>5. k - 1 \notin Bad
  BY <1>2, <1>4
<1> QED
  BY <1>3, <1>4, <1>5

(* The ways to begin with base and apply step[1], step[2], ... in turn.    *)
Runs(n, S, base, step) ==
    {h \in [0 .. n -> S] :
        h[0] = base /\ \A i \in 1 .. n : h[i] = step[i][h[i - 1]]}

(* There is one, if every step stays in S: recursion along a list ends     *)
(* somewhere.                                                              *)
LEMMA Iterate ==
  ASSUME NEW n \in Nat, NEW S, NEW base \in S,
         NEW step \in [1 .. n -> [S -> S]]
  PROVE  Runs(n, S, base, step) # {}
<1> DEFINE Partial(k) == Runs(k, S, base, step)
           T == {k \in 0 .. n : Partial(k) # {}}
<1> USE DEF Runs
<1>1. 0 \in T
  <2>1. [i \in 0 .. 0 |-> base] \in Partial(0)
    OBVIOUS
  <2> QED
    BY <2>1
<1>2. ASSUME NEW k \in 1 .. n, k - 1 \in T
      PROVE  k \in T
  <2>1. PICK h \in [0 .. k - 1 -> S] :
           h[0] = base /\ \A i \in 1 .. k - 1 : h[i] = step[i][h[i - 1]]
    BY <1>2
  <2> DEFINE g == [i \in 0 .. k |-> IF i = k THEN step[k][h[k - 1]] ELSE h[i]]
  <2>2. h[k - 1] \in S /\ step[k][h[k - 1]] \in S
    BY <2>1
  <2>3. g \in [0 .. k -> S] /\ g[0] = base
    BY <2>1, <2>2
  <2>4. ASSUME NEW i \in 1 .. k PROVE g[i] = step[i][g[i - 1]]
    <3>1. CASE i = k
      <4>1. g[k] = step[k][h[k - 1]]
        OBVIOUS
      <4>2. g[k - 1] = h[k - 1]
        OBVIOUS
      <4> QED
        BY <3>1, <4>1, <4>2
    <3>2. CASE i < k
      <4>1. i \in 1 .. k - 1 /\ i - 1 \in 0 .. k /\ i - 1 # k /\ i # k
        BY <3>2
      <4> QED
        BY <2>1, <4>1
    <3> QED
      BY <3>1, <3>2
  <2>5. g \in Partial(k)
    BY <2>3, <2>4
  <2>6. k \in 0 .. n /\ Partial(k) # {}
    <3> HIDE DEF g, Partial
    <3> QED
      BY <2>5
  <2> QED
    BY <2>6
<1>3. \A k \in 0 .. n : k \in T
  <2> HIDE DEF T
  <2> QED
    BY <1>1, <1>2, UpTo
<1>4. PICK h : h \in Partial(n)
  BY <1>3
<1> QED
  BY <1>4

(* The lists of up to two members.                                         *)
LEMMA Short ==
  ASSUME NEW S, NEW a \in S, NEW b \in S
  PROVE  /\ <<>> \in Seq(S) /\ <<a>> \in Seq(S) /\ <<a, b>> \in Seq(S)
         /\ <<a>> \o <<b>> = <<a, b>>
<1>1. <<>> \in Seq(S) /\ <<a>> \in Seq(S) /\ <<b>> \in Seq(S)
  OBVIOUS
<1>2. <<a, b>> \in Seq(S)
  OBVIOUS
<1>3. <<a>> \o <<b>> = <<a, b>>
  <2> DEFINE s == <<a>> \o <<b>>
             t == <<a, b>>
  <2>1. s \in Seq(S) /\ Len(s) = 2 /\ s[1] = a /\ s[2] = b
    BY <1>1
  <2>2. t \in Seq(S) /\ Len(t) = 2 /\ t[1] = a /\ t[2] = b
    BY <1>2
  <2> HIDE DEF s, t
  <2>3. \A i \in 1 .. 2 : s[i] = t[i]
    <3>1. \A i \in 1 .. 2 : i = 1 \/ i = 2
      OBVIOUS
    <3> QED
      BY <2>1, <2>2, <3>1
  <2>4. s = t
    BY <2>1, <2>2, <2>3, SeqEqual
  <2> QED
    BY <2>4 DEF s, t
<1> QED
  BY <1>1, <1>2, <1>3

(* Nothing joined is nothing.                                              *)
LEMMA FlattenEmpty == FlattenSeq(<<>>) = <<>>
BY DEF FlattenSeq

(* Joining the pieces s[1], ..., s[n] from the left, and what it comes to. *)
Joins(n, Q, s) ==
    {h \in [0 .. n -> Q] :
        h[0] = <<>> /\ \A i \in 1 .. n : h[i] = h[i - 1] \o s[i]}

Joined(n, Q, s) == {h[n] : h \in Joins(n, Q, s)}

(* FlattenSeq is such a joining: for at least one piece, and for any       *)
(* number.                                                                 *)
LEMMA FlattenSome ==
  ASSUME NEW S, NEW n \in Nat, n # 0, NEW s \in [1 .. n -> Seq(S)]
  PROVE  \E h \in Joins(n, Seq(S), s) : FlattenSeq(s) = h[n]
<1> DEFINE Q == Seq(S)
           step == [i \in 1 .. n |-> [q \in Q |-> q \o s[i]]]
<1>1. \A i \in 1 .. n : s[i] \in Q
  OBVIOUS
<1>2. step \in [1 .. n -> [Q -> Q]]
  BY <1>1
<1>3. \A q \in Q, i \in 1 .. n : step[i][q] = q \o s[i]
  OBVIOUS
<1>4. <<>> \in Q
  OBVIOUS
<1> HIDE DEF step, Q
<1>5. PICK h \in [0 .. n -> Q] :
         h[0] = <<>> /\ \A i \in 1 .. n : h[i] = step[i][h[i - 1]]
  <2> DEFINE base == <<>>
  <2>1. base \in Q
    BY <1>4
  <2> HIDE DEF base
  <2>2. Runs(n, Q, base, step) # {}
    BY <1>2, <2>1, Iterate
  <2> QED
    BY <2>2 DEF base, Runs
<1>6. ASSUME NEW i \in 1 .. n
      PROVE  h[i] = h[i - 1] \o s[i] /\ i - 1 \in 0 .. n
  <2>1. i - 1 \in 0 .. n /\ h[i - 1] \in Q
    OBVIOUS
  <2> QED
    BY <1>3, <1>5, <2>1
<1> DEFINE Eq(f) == f = [i \in 1 .. n |-> IF i = 1 THEN s[i] ELSE f[i - 1] \o s[i]]
           g == [i \in 1 .. n |-> h[i]]
<1>7. Eq(g)
  <2>1. ASSUME NEW i \in 1 .. n PROVE g[i] = IF i = 1 THEN s[i] ELSE g[i - 1] \o s[i]
    <3>1. CASE i = 1
      <4>1. h[i] = <<>> \o s[i]
        <5>1. i - 1 = 0
          BY <3>1
        <5> QED
          BY <1>5, <1>6, <5>1
      <4>2. s[i] \in Seq(S)
        BY <1>1 DEF Q
      <4> QED
        BY <4>1, <4>2, <3>1, ConcatEmptySeq
    <3>2. CASE i # 1
      <4>1. i - 1 \in 1 .. n
        BY <3>2
      <4> QED
        BY <1>6, <3>2, <4>1
    <3> QED
      BY <3>1, <3>2
  <2> QED
    BY <2>1
<1> DEFINE c == CHOOSE f : Eq(f)
<1>8. Eq(c)
  <2> HIDE DEF Eq, g
  <2> QED
    BY <1>7
<1>9. FlattenSeq(s) = c[n]
  <2>1. Len(s) = n
    OBVIOUS
  <2> QED
    BY <2>1 DEF FlattenSeq
<1> DEFINE T == {i \in 0 .. n : i # 0 => c[i] = h[i]}
<1>10. \A i \in 0 .. n : i \in T
  <2>1. ASSUME NEW k \in 1 .. n, k - 1 \in T
        PROVE  c[k] = h[k]
    <3>1. c[k] = IF k = 1 THEN s[k] ELSE c[k - 1] \o s[k]
      <4> HIDE DEF c
      <4> QED
        BY <1>8
    <3>2. h[k] = IF k = 1 THEN s[k] ELSE h[k - 1] \o s[k]
      <4>1. g[k] = IF k = 1 THEN s[k] ELSE g[k - 1] \o s[k]
        <5> HIDE DEF g
        <5> QED
          BY <1>7
      <4> QED
        BY <4>1
    <3> HIDE DEF c
    <3> QED
      BY <2>1, <3>1, <3>2
  <2>2. 0 \in T /\ \A k \in 1 .. n : k - 1 \in T => k \in T
    <3> HIDE DEF c
    <3> QED
      BY <2>1
  <2> HIDE DEF T
  <2> QED
    BY <2>2, UpTo
<1>11. c[n] = h[n]
  <2> HIDE DEF c
  <2> QED
    BY <1>10
<1> QED
  BY <1>5, <1>6, <1>9, <1>11 DEF Q, Joins

LEMMA FlattenSteps ==
  ASSUME NEW S, NEW n \in Nat, NEW s \in [1 .. n -> Seq(S)]
  PROVE  \E h \in Joins(n, Seq(S), s) : FlattenSeq(s) = h[n]
<1>1. CASE n = 0
  <2> DEFINE h == [i \in 0 .. 0 |-> <<>>]
  <2>1. s = <<>>
    BY <1>1
  <2>2. h \in Joins(n, Seq(S), s)
    BY <1>1 DEF Joins
  <2>3. h[n] = <<>>
    BY <1>1
  <2> HIDE DEF h
  <2> QED
    BY <2>1, <2>2, <2>3, FlattenEmpty
<1>2. CASE n # 0
  BY <1>2, FlattenSome
<1> QED
  BY <1>1, <1>2

(* What is joined of lists over S is a list over S.                        *)
LEMMA FlattenType ==
  ASSUME NEW S, NEW n \in Nat, NEW s \in [1 .. n -> Seq(S)]
  PROVE  FlattenSeq(s) \in Seq(S)
<1> PICK h \in Joins(n, Seq(S), s) : FlattenSeq(s) = h[n]
  BY FlattenSteps
<1> QED
  BY DEF Joins

(* One piece joined is itself.                                             *)
LEMMA FlattenOne ==
  ASSUME NEW S, NEW x \in Seq(S)
  PROVE  FlattenSeq(<<x>>) = x
<1> DEFINE s == [i \in 1 .. 1 |-> x]
<1>1. s \in [1 .. 1 -> Seq(S)]
  OBVIOUS
<1>2. PICK h \in Joins(1, Seq(S), s) : FlattenSeq(s) = h[1]
  BY <1>1, FlattenSteps
<1>3. h[1] = <<>> \o x
  <2>1. h[0] = <<>> /\ h[1] = h[0] \o s[1]
    <3> HIDE DEF s
    <3> QED
      BY DEF Joins
  <2> QED
    BY <2>1
<1>4. s = <<x>>
  OBVIOUS
<1> QED
  BY <1>2, <1>3, <1>4, ConcatEmptySeq

(* u begins as s does; it is s and then t; joining lists has a unit on its *)
(* right and does not depend on brackets.                                  *)
Agree(u, s, n)      == \A i \in 1 .. n : u[i] = s[i]
Splits(u, l, s, n, t, m) ==
    l = n + m /\ Agree(u, s, n) /\ \A i \in 1 .. m : u[n + i] = t[i]
Monoid(Q) ==
    /\ \A a \in Q : a \o <<>> = a
    /\ \A a, b, c \in Q : (a \o b) \o c = a \o (b \o c)

(* Where the pieces agree, so do the joinings.                             *)
LEMMA JoinsAgree ==
  ASSUME NEW Q, NEW n \in Nat, NEW m \in Nat, n <= m, NEW s, NEW u,
         NEW hs \in Joins(n, Q, s), NEW hu \in Joins(m, Q, u),
         Agree(u, s, n)
  PROVE  \A k \in 0 .. n : hu[k] = hs[k]
<1> DEFINE T == {k \in 0 .. n : hu[k] = hs[k]}
<1> USE DEF Joins, Agree, Splits, Monoid
<1>1. 0 \in T
  OBVIOUS
<1>2. ASSUME NEW k \in 1 .. n, k - 1 \in T
      PROVE  k \in T
  <2>1. hu[k] = hu[k - 1] \o u[k] /\ u[k] = s[k]
    <3>1. k \in 1 .. m
      OBVIOUS
    <3> QED
      BY <3>1
  <2>2. hs[k] = hs[k - 1] \o s[k]
    OBVIOUS
  <2>3. hu[k - 1] = hs[k - 1] /\ k \in 0 .. n
    BY <1>2
  <2> QED
    BY <2>1, <2>2, <2>3
<1>3. \A k \in 0 .. n : k \in T
  <2> HIDE DEF T
  <2> QED
    BY <1>1, <1>2, UpTo
<1> QED
  BY <1>3

(* The pieces of s and then of t, joined, are s joined and then t joined.  *)
LEMMA JoinedConcat ==
  ASSUME NEW Q, NEW n \in Nat, NEW m \in Nat, NEW l \in Nat,
         NEW s, NEW t \in [1 .. m -> Q], NEW u,
         NEW a \in Joined(n, Q, s), NEW b \in Joined(m, Q, t),
         NEW c \in Joined(l, Q, u),
         Splits(u, l, s, n, t, m), Monoid(Q)
  PROVE  c = a \o b
<1> PICK hs \in Joins(n, Q, s) : a = hs[n]
  BY DEF Joined
<1> PICK ht \in Joins(m, Q, t) : b = ht[m]
  BY DEF Joined
<1> PICK hu \in Joins(l, Q, u) : c = hu[l]
  BY DEF Joined
<1> DEFINE U == {k \in 0 .. m : hu[n + k] = hs[n] \o ht[k]}
<1>0. \A k \in 0 .. n : hu[k] = hs[k]
  <2>1. n <= l /\ Agree(u, s, n)
    BY DEF Splits
  <2> QED
    BY <2>1, JoinsAgree
<1> USE DEF Joins, Agree, Splits, Monoid
<1>1. 0 \in U
  <2>1. hu[n + 0] = hs[n] /\ hs[n] \in Q
    BY <1>0
  <2>2. ht[0] = <<>> /\ hs[n] \o <<>> = hs[n] /\ 0 \in 0 .. m
    BY <2>1
  <2>3. hu[n + 0] = hs[n] \o ht[0]
    BY <2>1, <2>2
  <2> QED
    BY <2>2, <2>3
<1>2. ASSUME NEW k \in 1 .. m, k - 1 \in U
      PROVE  k \in U
  <2>1. n + k \in 1 .. l /\ (n + k) - 1 = n + (k - 1) /\ k \in 0 .. m
    OBVIOUS
  <2>2. hu[n + k] = hu[n + (k - 1)] \o t[k]
    <3>1. hu[n + k] = hu[(n + k) - 1] \o u[n + k]
      BY <2>1
    <3> QED
      BY <2>1, <3>1
  <2>3. ht[k] = ht[k - 1] \o t[k]
    OBVIOUS
  <2>4. hs[n] \in Q /\ ht[k - 1] \in Q /\ t[k] \in Q
    <3>1. k - 1 \in 0 .. m /\ n \in 0 .. n
      OBVIOUS
    <3>2. hs \in [0 .. n -> Q] /\ ht \in [0 .. m -> Q]
      OBVIOUS
    <3> HIDE DEF Joins, Agree, Splits, Monoid, U
    <3> QED
      BY <3>1, <3>2
  <2>5. (hs[n] \o ht[k - 1]) \o t[k] = hs[n] \o (ht[k - 1] \o t[k])
    BY <2>4
  <2>6. hu[n + (k - 1)] = hs[n] \o ht[k - 1]
    BY <1>2
  <2>7. hu[n + k] = hs[n] \o ht[k]
    BY <2>2, <2>3, <2>5, <2>6, Zenon
  <2> QED
    BY <2>1, <2>7, Zenon
<1>3. \A k \in 0 .. m : k \in U
  <2> HIDE DEF U
  <2> QED
    BY <1>1, <1>2, UpTo
<1>4. hu[n + m] = hs[n] \o ht[m]
  <2>1. m \in U
    <3> HIDE DEF U
    <3> QED
      BY <1>3
  <2> QED
    BY <2>1
<1> QED
  BY <1>4

(* The same of FlattenSeq.                                                 *)
LEMMA FlattenJoined ==
  ASSUME NEW S, NEW n \in Nat, NEW s \in [1 .. n -> Seq(S)]
  PROVE  FlattenSeq(s) \in Joined(n, Seq(S), s)
BY FlattenSteps DEF Joined

(* Lists are joined as Monoid says.                                        *)
LEMMA ConcatMonoid == ASSUME NEW S PROVE Monoid(Seq(S))
<1>1. \A a \in Seq(S) : a \o <<>> = a
  BY ConcatEmptySeq
<1>2. \A a, b, c \in Seq(S) : (a \o b) \o c = a \o (b \o c)
  BY ConcatAssociative
<1> QED
  BY <1>1, <1>2 DEF Monoid

(* FlattenSeq of two lists of pieces, one behind the other.                *)
LEMMA FlattenConcat ==
  ASSUME NEW S, NEW s \in Seq(Seq(S)), NEW t \in Seq(Seq(S))
  PROVE  FlattenSeq(s \o t) = FlattenSeq(s) \o FlattenSeq(t)
<1> DEFINE Q == Seq(S)
<1>1. s \in Seq(Q) /\ t \in Seq(Q)
  OBVIOUS
<1> HIDE DEF Q
<1>2. PICK u : u = s \o t
  OBVIOUS
<1>3. PICK n \in Nat, m \in Nat, l \in Nat :
         n = Len(s) /\ m = Len(t) /\ l = Len(u) /\ l = n + m
  BY <1>1, <1>2
<1>4. s \in [1 .. n -> Q] /\ t \in [1 .. m -> Q] /\ u \in [1 .. l -> Q]
  <2>1. u \in Seq(Q)
    BY <1>1, <1>2
  <2> QED
    BY <1>1, <1>3, <2>1, LenProperties
<1>5. Splits(u, l, s, n, t, m)
  BY <1>1, <1>2, <1>3 DEF Agree, Splits
<1>6. FlattenSeq(s) \in Joined(n, Q, s)
  BY <1>4, FlattenJoined DEF Q
<1>7. FlattenSeq(t) \in Joined(m, Q, t)
  BY <1>4, FlattenJoined DEF Q
<1>8. FlattenSeq(u) \in Joined(l, Q, u)
  BY <1>4, FlattenJoined DEF Q
<1>9. Monoid(Q)
  BY ConcatMonoid DEF Q
<1>10. FlattenSeq(u) = FlattenSeq(s) \o FlattenSeq(t)
  BY <1>4, <1>5, <1>6, <1>7, <1>8, <1>9, JoinedConcat
<1> QED
  BY <1>2, <1>10

(* The places in n pieces: which piece, and where in it.                   *)
Places(n, s) == {q \in (1 .. n) \X Nat : q[2] \in DOMAIN s[q[1]]}

(* Ways to say, of every member of a, which place of s it comes from: each *)
(* place exactly once.                                                     *)
Placings(n, s, a) ==
    {p \in [DOMAIN a -> Places(n, s)] :
        /\ \A j \in DOMAIN a : a[j] = s[p[j][1]][p[j][2]]
        /\ \A j, l \in DOMAIN a : p[j] = p[l] => j = l
        /\ \A q \in Places(n, s) : \E j \in DOMAIN a : p[j] = q}

(* One more piece has its places behind the others.                        *)
LEMMA PlacingStep ==
  ASSUME NEW S, NEW k \in Nat, k # 0, NEW s, NEW a \in Seq(S), s[k] \in Seq(S),
         Placings(k - 1, s, a) # {}
  PROVE  Placings(k, s, a \o s[k]) # {}
<1> DEFINE b == s[k]
           la == Len(a)
           c == a \o b
<1>1. /\ la \in Nat /\ Len(b) \in Nat /\ DOMAIN a = 1 .. la /\ DOMAIN b = 1 .. Len(b)
      /\ DOMAIN c = 1 .. la + Len(b)
      /\ \A j \in 1 .. la : c[j] = a[j]
      /\ \A j \in 1 .. Len(b) : c[la + j] = b[j]
  OBVIOUS
<1>2. PICK p : p \in Placings(k - 1, s, a)
  OBVIOUS
<1> DEFINE lb == Len(b)
           P == Places(k - 1, s)
           N == {<<k, x>> : x \in 1 .. lb}
<1>3. Places(k, s) = P \cup N
  <2>1. ASSUME NEW q \in Places(k, s)
        PROVE  q \in P \cup N
    <3>1. CASE q[1] = k
      BY <1>1, <3>1 DEF Places
    <3>2. CASE q[1] # k
      BY <3>2 DEF Places
    <3> QED
      BY <3>1, <3>2
  <2>2. P \subseteq Places(k, s)
    BY DEF Places
  <2>3. N \subseteq Places(k, s)
    BY <1>1 DEF Places
  <2> QED
    BY <2>1, <2>2, <2>3
<1>4. \A q \in P : q \notin N
  <2>1. ASSUME NEW q \in P PROVE q[1] \in 1 .. k - 1
    BY DEF Places
  <2>2. \A q \in N : q[1] = k
    OBVIOUS
  <2> HIDE DEF P, N
  <2> QED
    BY <2>1, <2>2
<1>5. /\ p \in [1 .. la -> P]
      /\ \A j \in 1 .. la : a[j] = s[p[j][1]][p[j][2]]
      /\ \A j, l \in 1 .. la : p[j] = p[l] => j = l
      /\ \A q \in P : \E j \in 1 .. la : p[j] = q
  BY <1>1, <1>2 DEF Placings
<1>6. lb \in Nat /\ la \in Nat
  BY <1>1
<1>7. \A j \in 1 .. lb : <<k, j>> \in N
  OBVIOUS
<1>8. \A q \in N : \E j \in 1 .. lb : q = <<k, j>>
  OBVIOUS
<1> DEFINE r == [j \in 1 .. la + lb |-> IF j <= la THEN p[j] ELSE <<k, j - la>>]
<1> HIDE DEF la, lb, P, N
<1>9. ASSUME NEW j \in 1 .. la + lb
      PROVE  \/ j \in 1 .. la /\ r[j] = p[j] /\ p[j] \in P
             \/ /\ j - la \in 1 .. lb /\ r[j] = <<k, j - la>>
                /\ r[j] \in N /\ j = la + (j - la)
  <2>1. CASE j <= la
    BY <1>5, <1>6, <2>1
  <2>2. CASE j > la
    <3>1. j - la \in 1 .. lb
      BY <1>6, <2>2
    <3>2. r[j] = <<k, j - la>>
      BY <1>6, <2>2
    <3> QED
      BY <1>6, <1>7, <3>1, <3>2
  <2> QED
    BY <1>6, <2>1, <2>2
<1>10. r \in [1 .. la + lb -> P \cup N]
  BY <1>9
<1>11. ASSUME NEW j \in 1 .. la + lb
       PROVE  c[j] = s[r[j][1]][r[j][2]]
  <2>1. CASE j \in 1 .. la /\ r[j] = p[j]
    BY <1>1, <1>5, <2>1
  <2>2. CASE j - la \in 1 .. lb /\ r[j] = <<k, j - la>> /\ j = la + (j - la)
    <3>1. c[la + (j - la)] = b[j - la]
      BY <1>1, <2>2 DEF lb, la
    <3>2. c[j] = s[k][j - la]
      BY <2>2, <3>1
    <3> HIDE DEF c, r
    <3>3. r[j][1] = k /\ r[j][2] = j - la
      BY <2>2
    <3> QED
      BY <3>2, <3>3
  <2> QED
    BY <1>9, <2>1, <2>2
<1>12. ASSUME NEW j \in 1 .. la + lb, NEW l \in 1 .. la + lb, r[j] = r[l]
       PROVE  j = l
  <2>1. CASE j \in 1 .. la /\ r[j] = p[j] /\ p[j] \in P
    <3>1. r[l] \notin N
      BY <1>4, <1>12, <2>1
    <3> QED
      BY <1>5, <1>9, <1>12, <2>1, <3>1
  <2>2. CASE /\ j - la \in 1 .. lb /\ r[j] = <<k, j - la>>
             /\ r[j] \in N /\ j = la + (j - la)
    <3>1. r[l] \notin P
      BY <1>4, <1>12, <2>2
    <3>2. r[l] = <<k, l - la>> /\ l = la + (l - la)
      BY <1>9, <1>12, <3>1
    <3> QED
      BY <1>12, <2>2, <3>2
  <2> QED
    BY <1>9, <2>1, <2>2
<1>13. ASSUME NEW q \in P \cup N
       PROVE  \E j \in 1 .. la + lb : r[j] = q
  <2>1. CASE q \in P
    <3>1. PICK j \in 1 .. la : p[j] = q
      BY <1>5, <2>1
    <3>2. j \in 1 .. la + lb /\ r[j] = q
      BY <1>6, <3>1
    <3> QED
      BY <3>2
  <2>2. CASE q \in N
    <3>1. PICK j \in 1 .. lb : q = <<k, j>>
      BY <1>8, <2>2
    <3>2. /\ la + j \in 1 .. la + lb /\ ~(la + j <= la)
          /\ (la + j) - la = j
      BY <1>6
    <3>3. r[la + j] = q
      BY <3>1, <3>2
    <3> QED
      BY <3>2, <3>3
  <2> QED
    BY <2>1, <2>2
<1>14. r \in Placings(k, s, c)
  <2>1. DOMAIN c = 1 .. la + lb
    BY <1>1 DEF la, lb
  <2> HIDE DEF c, r
  <2> QED
    BY <1>3, <1>10, <1>11, <1>12, <1>13, <2>1 DEF Placings
<1> QED
  BY <1>14

(* Every member of FlattenSeq(s) is at one place of one piece, and none is *)
(* lost or doubled.                                                        *)
LEMMA FlattenPlaces ==
  ASSUME NEW S, NEW n \in Nat, NEW s \in [1 .. n -> Seq(S)]
  PROVE  Placings(n, s, FlattenSeq(s)) # {}
<1> PICK h \in Joins(n, Seq(S), s) : FlattenSeq(s) = h[n]
  BY FlattenSteps
<1> DEFINE T == {k \in 0 .. n : Placings(k, s, h[k]) # {}}
<1>1. h[0] = <<>> /\ \A k \in 1 .. n : h[k] = h[k - 1] \o s[k]
  BY DEF Joins
<1>2. ASSUME NEW k \in 1 .. n
      PROVE  s[k] \in Seq(S) /\ h[k - 1] \in Seq(S)
  <2>1. k - 1 \in 0 .. n
    OBVIOUS
  <2> QED
    BY <2>1 DEF Joins
<1>3. 0 \in T
  <2>1. Places(0, s) = {}
    BY DEF Places
  <2>2. <<>> \in Placings(0, s, h[0])
    BY <1>1, <2>1 DEF Placings
  <2> QED
    BY <2>2
<1>4. ASSUME NEW k \in 1 .. n, k - 1 \in T
      PROVE  k \in T
  <2>1. Placings(k - 1, s, h[k - 1]) # {}
    BY <1>4
  <2>2. k \in Nat /\ k # 0
    OBVIOUS
  <2>3. Placings(k, s, h[k - 1] \o s[k]) # {}
    BY <1>2, <2>1, <2>2, PlacingStep
  <2>4. h[k] = h[k - 1] \o s[k] /\ k \in 0 .. n
    BY <1>1
  <2>5. Placings(k, s, h[k]) # {}
    BY <2>3, <2>4
  <2> QED
    BY <2>4, <2>5
<1>5. \A k \in 0 .. n : k \in T
  <2> HIDE DEF T
  <2> QED
    BY <1>3, <1>4, UpTo
<1>6. n \in T
  <2> HIDE DEF T
  <2> QED
    BY <1>5
<1> QED
  BY <1>6
=============================================================================
