------------------------- MODULE DiscMetadataProofs -------------------------
(***************************************************************************)
(* What is proved of the metadata of a disc: whatever CD-TEXT, the CDDB    *)
(* server, the providers of lyrics and the cache file hold, and wherever   *)
(* the lines of the server are cut, the titles of an album are those of    *)
(* its tracks, and what the cache serves is whole; and the lines of its    *)
(* lyrics, whatever their file holds, are in their order.                  *)
(*                                                                         *)
(* The code works through sequences: the tracks of a disc, the packs of    *)
(* CD-TEXT and their characters, the entries and the lines of a file. The  *)
(* first part is about the folds that do, by a least number that is not in *)
(* a set.                                                                  *)
(***************************************************************************)
EXTENDS DiscMetadata, LrcLines, SequenceTheorems, FiniteSetTheorems, WellFoundedInduction, TLAPS

-----------------------------------------------------------------------------
(* Counting *)

\* A set of natural numbers has a least one.
LEMMA LeastNat ==
  ASSUME NEW T, T \subseteq Nat, T # {}
  PROVE  \E x \in T : \A y \in T : x <= y
  <1> DEFINE UpTo == {1 .. n : n \in T}
  <1>1. UpTo \subseteq FiniteSubsetsOf(Nat)
    BY FS_Interval DEF FiniteSubsetsOf
  <1>2. UpTo # {}
    OBVIOUS
  <1>3. PICK X \in UpTo : \A Y \in UpTo : ~(<<Y, X>> \in StrictSubsetOrdering(Nat))
    <2> HIDE DEF UpTo
    <2> QED BY <1>1, <1>2, WFMin, FS_StrictSubsetOrderingWellFounded
  <1>4. PICK x \in T : X = 1 .. x
    OBVIOUS
  <1>5. ASSUME NEW y \in T PROVE x <= y
    <2>1. SUFFICES ASSUME y < x PROVE FALSE
      OBVIOUS
    <2>2. 1 .. y \subseteq 1 .. x /\ x \in 1 .. x /\ x \notin 1 .. y
      BY <2>1
    <2>3. <<1 .. y, 1 .. x>> \in StrictSubsetOrdering(Nat)
      BY <2>2 DEF StrictSubsetOrdering
    <2> QED BY <2>3, <1>3, <1>4
  <1> QED BY <1>5

\* Induction over a set of numbers.
LEMMA Counting ==
  ASSUME NEW N, 0 \in N, \A n \in Nat : n \in N => n + 1 \in N
  PROVE  \A n \in Nat : n \in N
  <1> SUFFICES ASSUME NEW n \in Nat, n \notin N PROVE FALSE
    OBVIOUS
  <1> DEFINE T == {m \in Nat : m \notin N}
  <1>1. PICK x \in T : \A y \in T : x <= y
    <2>1. T \subseteq Nat /\ T # {} OBVIOUS
    <2> HIDE DEF T
    <2> QED BY <2>1, LeastNat
  <1>2. x # 0 /\ x - 1 \in Nat /\ x - 1 \in N
    BY <1>1
  <1> QED BY <1>1, <1>2

\* The greatest number of a set.
LEMMA MaxOfUpTo ==
  ASSUME NEW n \in Nat, NEW u \in SUBSET (1 .. n + 1), n + 1 \in u
  PROVE  Max(u) = n + 1
  <1>1. \A y \in u : n + 1 >= y
    OBVIOUS
  <1>2. \A x \in u : (\A y \in u : x >= y) => x = n + 1
    OBVIOUS
  <1> QED BY <1>1, <1>2 DEF Max

-----------------------------------------------------------------------------
(* Folds: what FoldLeft computes is a function on the sets of places, *)
(* the prefixes 1 .. i among them                                     *)

\* Without its greatest number a prefix is the one before.
LEMMA UpTo ==
  ASSUME NEW n \in Nat, NEW i \in 1 .. n
  PROVE  1 .. i \in SUBSET (1 .. n) /\ 1 .. i # {} /\ Max(1 .. i) = i /\ (1 .. i) \ {i} = 1 .. i - 1
  <1>1. i \in Nat /\ i >= 1 /\ i <= n /\ i - 1 \in Nat /\ i = (i - 1) + 1
    OBVIOUS
  <1>2. 1 .. i \subseteq 1 .. n /\ i \in 1 .. i
    BY <1>1
  <1>3. Max(1 .. i) = (i - 1) + 1
    <2>1. 1 .. i \in SUBSET (1 .. (i - 1) + 1) /\ (i - 1) + 1 \in 1 .. i BY <1>1
    <2> QED BY <1>1, <2>1, MaxOfUpTo
  <1>4. (1 .. i) \ {i} = 1 .. i - 1
    BY <1>1
  <1> QED BY <1>1, <1>2, <1>3, <1>4

\* A set of places has a greatest one.
LEMMA MaxIsIn ==
  ASSUME NEW n \in Nat, NEW u \in SUBSET (1 .. n), u # {}
  PROVE  Max(u) \in u
  <1> DEFINE T == {n - x : x \in u}
  <1>1. PICK y \in T : \A z \in T : y <= z
    <2>1. T \subseteq Nat /\ T # {} OBVIOUS
    <2> HIDE DEF T
    <2> QED BY <2>1, LeastNat
  <1>2. PICK x \in u : y = n - x
    OBVIOUS
  <1>3. \A z \in u : x >= z
    <2>1. ASSUME NEW z \in u PROVE x >= z
      <3>1. n - x <= n - z BY <1>1, <1>2
      <3> QED BY <3>1
    <2> QED BY <2>1
  <1> QED BY <1>2, <1>3 DEF Max

\* The values of a fold of s with F, from base on, are in B.
IsFold(h, B, base, F, s) ==
  /\ h \in [SUBSET DOMAIN s -> B]
  /\ \A u \in SUBSET DOMAIN s : h[u] = IF u = {} THEN base ELSE F[h[u \ {Max(u)}]][s[Max(u)]]

\* The function is there.
LEMMA Unfolding ==
  ASSUME NEW B, NEW E, NEW base \in B, NEW F \in [B -> [E -> B]], NEW s \in Seq(E)
  PROVE  \E h : IsFold(h, B, base, F, s)
  <1> DEFINE Iter(h, n) == /\ h \in [SUBSET (1 .. n) -> B]
                           /\ \A u \in SUBSET (1 .. n) :
                                h[u] = IF u = {} THEN base ELSE F[h[u \ {Max(u)}]][s[Max(u)]]
             N == {n \in Nat : n <= Len(s) => \E h : Iter(h, n)}
  <1>1. 0 \in N
    <2>1. Iter([u \in SUBSET (1 .. 0) |-> base], 0)
      OBVIOUS
    <2> QED BY <2>1
  <1>2. ASSUME NEW n \in Nat, n \in N PROVE n + 1 \in N
    <2> HIDE DEF Iter
    <2> SUFFICES ASSUME n + 1 <= Len(s) PROVE \E h : Iter(h, n + 1)
      OBVIOUS
    <2>1. PICK h : Iter(h, n)
      BY <1>2
    <2> USE DEF Iter
    <2>2. s[n + 1] \in E
      OBVIOUS
    <2> DEFINE k == [u \in SUBSET (1 .. n + 1) |->
                       IF n + 1 \in u THEN F[h[u \ {n + 1}]][s[n + 1]] ELSE h[u]]
    <2>3. ASSUME NEW u \in SUBSET (1 .. n + 1)
          PROVE  k[u] \in B /\ k[u] = IF u = {} THEN base ELSE F[k[u \ {Max(u)}]][s[Max(u)]]
      <3>1. CASE n + 1 \in u
        <4>1. Max(u) = n + 1 BY <3>1, MaxOfUpTo
        <4>2. u \ {n + 1} \in SUBSET (1 .. n + 1) /\ n + 1 \notin u \ {n + 1} /\ u \ {n + 1} \in SUBSET (1 .. n)
          OBVIOUS
        <4>3. k[u \ {n + 1}] = h[u \ {n + 1}] /\ h[u \ {n + 1}] \in B BY <4>2, <2>1
        <4>4. k[u] = F[h[u \ {n + 1}]][s[n + 1]] BY <3>1
        <4>5. F[h[u \ {n + 1}]][s[n + 1]] \in B BY <4>3, <2>2
        <4> QED BY <3>1, <4>1, <4>3, <4>4, <4>5
      <3>2. CASE n + 1 \notin u
        <4>1. u \in SUBSET (1 .. n) BY <3>2
        <4>2. h[u] \in B /\ h[u] = IF u = {} THEN base ELSE F[h[u \ {Max(u)}]][s[Max(u)]]
          BY <2>1, <4>1
        <4>3. u \ {Max(u)} \in SUBSET (1 .. n + 1) /\ n + 1 \notin u \ {Max(u)}
          BY <3>2
        <4>4. k[u] = h[u] /\ k[u \ {Max(u)}] = h[u \ {Max(u)}] BY <3>2, <4>3
        <4> QED BY <4>2, <4>4
      <3> QED BY <3>1, <3>2
    <2>4. k \in [SUBSET (1 .. n + 1) -> B]
      <3>1. k = [u \in SUBSET (1 .. n + 1) |-> k[u]] OBVIOUS
      <3> HIDE DEF k
      <3> QED BY <2>3, <3>1
    <2> HIDE DEF k
    <2>5. Iter(k, n + 1)
      BY <2>3, <2>4
    <2> HIDE DEF Iter
    <2> QED BY <2>5
  <1>3. \E h : Iter(h, Len(s))
    <2> HIDE DEF N, Iter
    <2>1. Len(s) \in Nat OBVIOUS
    <2>2. Len(s) \in N BY <1>1, <1>2, <2>1, Counting
    <2> QED BY <2>1, <2>2 DEF N
  <1>4. DOMAIN s = 1 .. Len(s)
    OBVIOUS
  <1>5. PICK h : Iter(h, Len(s))
    <2> HIDE DEF Iter
    <2> QED BY <1>3
  <1> QED BY <1>4, <1>5 DEF IsFold

\* What holds for the prefixes one after the other.
LEMMA AlongPrefixes ==
  ASSUME NEW n \in Nat, NEW h, NEW J, h[{}] \in J[0],
         \A i \in 1 .. n : h[1 .. i - 1] \in J[i - 1] => h[1 .. i] \in J[i]
  PROVE  h[1 .. n] \in J[n]
  <1> DEFINE M == {i \in Nat : i <= n => h[1 .. i] \in J[i]}
  <1>1. 0 \in M
    <2>1. 1 .. 0 = {} OBVIOUS
    <2> QED BY <2>1
  <1>2. ASSUME NEW i \in Nat, i \in M PROVE i + 1 \in M
    <2> SUFFICES ASSUME i + 1 <= n PROVE h[1 .. i + 1] \in J[i + 1]
      OBVIOUS
    <2>1. i + 1 \in 1 .. n /\ (i + 1) - 1 = i /\ h[1 .. i] \in J[i]
      BY <1>2
    <2> QED BY <2>1
  <1>3. n \in M
    <2> HIDE DEF M
    <2> QED BY <1>1, <1>2, Counting
  <1> QED BY <1>3

-----------------------------------------------------------------------------
(* FlattenSeq *)

\* What is flattened grows by one of the sequences at a time.
LEMMA FlattenGrows ==
  ASSUME NEW E, NEW s \in Seq(Seq(E)), s # <<>>
  PROVE  \E f : /\ f[1] = s[1]
                /\ \A i \in 2 .. Len(s) : f[i] = f[i - 1] \o s[i]
                /\ FlattenSeq(s) = f[Len(s)]
  <1> DEFINE Iter(f, n) == f = [i \in 1 .. n |-> IF i = 1 THEN s[i] ELSE f[i - 1] \o s[i]]
             N == {n \in Nat : \E f : Iter(f, n)}
  <1>1. 0 \in N
    <2>1. Iter([i \in 1 .. 0 |-> s[1]], 0)
      OBVIOUS
    <2> QED BY <2>1
  <1>2. ASSUME NEW n \in Nat, n \in N PROVE n + 1 \in N
    <2>1. PICK f : Iter(f, n)
      BY <1>2
    <2> DEFINE g == [i \in 1 .. n + 1 |-> IF i = n + 1 /\ i # 1 THEN f[n] \o s[i] ELSE IF i = 1 THEN s[1] ELSE f[i]]
    <2>2. ASSUME NEW i \in 1 .. n + 1
          PROVE  g[i] = IF i = 1 THEN s[i] ELSE g[i - 1] \o s[i]
      <3>1. CASE i = 1 BY <3>1
      <3>2. CASE i # 1 /\ i \in 1 .. n
        <4>1. f[i] = f[i - 1] \o s[i] BY <3>2, <2>1
        <4>2. g[i] = f[i] BY <3>2
        <4>3. g[i - 1] = f[i - 1]
          <5>1. i - 1 \in 1 .. n + 1 /\ i - 1 # n + 1 BY <3>2
          <5>2. i - 1 = 1 => f[1] = s[1] BY <3>2, <2>1
          <5> QED BY <5>1, <5>2
        <4> QED BY <3>2, <4>1, <4>2, <4>3
      <3>3. CASE i # 1 /\ i = n + 1
        <4>1. g[i] = f[n] \o s[i] BY <3>3
        <4>2. n \in 1 .. n + 1 /\ n # n + 1 /\ n \in 1 .. n /\ i - 1 = n BY <3>3
        <4>3. n = 1 => f[n] = s[1] BY <4>2, <2>1
        <4>4. g[n] = f[n] BY <4>2, <4>3
        <4> QED BY <3>3, <4>1, <4>2, <4>4
      <3>4. i = n + 1 \/ i \in 1 .. n OBVIOUS
      <3> QED BY <3>1, <3>2, <3>3, <3>4
    <2>3. Iter(g, n + 1)
      <3> DEFINE G == [i \in 1 .. n + 1 |-> IF i = 1 THEN s[i] ELSE g[i - 1] \o s[i]]
      <3>1. \A i \in 1 .. n + 1 : g[i] = G[i] BY <2>2
      <3> QED BY <3>1
    <2> HIDE DEF Iter, g
    <2> QED BY <2>3
  <1>3. \E f : Iter(f, Len(s))
    <2> HIDE DEF N, Iter
    <2>1. Len(s) \in N BY <1>1, <1>2, Counting, SMTT(30)
    <2> QED BY <2>1 DEF N
  <1> DEFINE flatten == CHOOSE f : Iter(f, Len(s))
  <1>4. Iter(flatten, Len(s))
    BY <1>3
  <1>5. FlattenSeq(s) = flatten[Len(s)]
    <2>1. Len(s) # 0 OBVIOUS
    <2> QED BY <2>1 DEF FlattenSeq
  <1>6. Len(s) \in Nat /\ Len(s) >= 1
    OBVIOUS
  <1> HIDE DEF flatten
  <1>7. flatten[1] = s[1]
    BY <1>4, <1>6
  <1>8. ASSUME NEW i \in 2 .. Len(s) PROVE flatten[i] = flatten[i - 1] \o s[i]
    <2>1. i \in 1 .. Len(s) /\ i # 1 BY <1>6
    <2> QED BY <1>4, <2>1
  <1> QED BY <1>5, <1>7, <1>8

\* Nothing is lost and nothing comes from elsewhere.
LEMMA FlattenHas ==
  ASSUME NEW E, NEW s \in Seq(Seq(E))
  PROVE  /\ FlattenSeq(s) \in Seq(E)
         /\ \A j \in DOMAIN FlattenSeq(s) : \E i \in DOMAIN s : \E m \in DOMAIN s[i] : FlattenSeq(s)[j] = s[i][m]
         /\ \A i \in DOMAIN s : \A m \in DOMAIN s[i] : \E j \in DOMAIN FlattenSeq(s) : FlattenSeq(s)[j] = s[i][m]
  <1>1. CASE s = <<>>
    BY <1>1 DEF FlattenSeq
  <1>2. CASE s # <<>>
    <2>1. PICK f : /\ f[1] = s[1]
                   /\ \A i \in 2 .. Len(s) : f[i] = f[i - 1] \o s[i]
                   /\ FlattenSeq(s) = f[Len(s)]
      BY <1>2, FlattenGrows
    <2> DEFINE Has(n) ==
                 /\ f[n] \in Seq(E)
                 /\ \A j \in DOMAIN f[n] : \E i \in 1 .. n : \E m \in DOMAIN s[i] : f[n][j] = s[i][m]
                 /\ \A i \in 1 .. n : \A m \in DOMAIN s[i] : \E j \in DOMAIN f[n] : f[n][j] = s[i][m]
               N == {n \in Nat : n >= 1 /\ n <= Len(s) => Has(n)}
    <2> HIDE DEF Has
    <2>2. 0 \in N
      OBVIOUS
    <2>3. ASSUME NEW n \in Nat, n \in N PROVE n + 1 \in N
      <3> SUFFICES ASSUME n + 1 <= Len(s) PROVE Has(n + 1)
        OBVIOUS
      <3>1. CASE n = 0
        <4>1. s[1] \in Seq(E) /\ 1 .. n + 1 = {1} /\ n + 1 = 1 BY <3>1
        <4> QED BY <2>1, <4>1 DEF Has
      <3>2. CASE n # 0
        <4>1. Has(n) BY <2>3, <3>2
        <4>2. f[n + 1] = f[n] \o s[n + 1]
          <5>1. n + 1 \in 2 .. Len(s) /\ (n + 1) - 1 = n BY <3>2
          <5> QED BY <5>1, <2>1
        <4>3. s[n + 1] \in Seq(E) /\ f[n] \in Seq(E) BY <4>1 DEF Has
        <4> DEFINE a == f[n]
                   b == s[n + 1]
        <4>4. f[n + 1] = a \o b /\ a \in Seq(E) /\ b \in Seq(E) BY <4>2, <4>3
        <4>5. \A j \in DOMAIN a : \E i \in 1 .. n : \E m \in DOMAIN s[i] : a[j] = s[i][m]
          BY <4>1 DEF Has
        <4>6. \A i \in 1 .. n : \A m \in DOMAIN s[i] : \E j \in DOMAIN a : a[j] = s[i][m]
          BY <4>1 DEF Has
        <4> HIDE DEF a
        <4>7. /\ a \o b \in Seq(E) /\ DOMAIN (a \o b) = 1 .. Len(a) + Len(b)
              /\ DOMAIN a = 1 .. Len(a) /\ DOMAIN b = 1 .. Len(b) /\ Len(a) \in Nat /\ Len(b) \in Nat
              /\ \A j \in 1 .. Len(a) : (a \o b)[j] = a[j]
              /\ \A j \in 1 .. Len(b) : (a \o b)[Len(a) + j] = b[j]
          <5> HIDE DEF b
          <5> QED BY <4>4, ConcatProperties
        <4>8. ASSUME NEW j \in DOMAIN (a \o b)
              PROVE  \E i \in 1 .. n + 1 : \E m \in DOMAIN s[i] : (a \o b)[j] = s[i][m]
          <5>1. CASE j <= Len(a)
            <6>1. j \in DOMAIN a /\ (a \o b)[j] = a[j] BY <4>7, <5>1
            <6> QED BY <6>1, <4>5
          <5>2. CASE j > Len(a)
            <6>1. PICK m \in 1 .. Len(b) : j = Len(a) + m
              <7>1. j - Len(a) \in 1 .. Len(b) /\ j = Len(a) + (j - Len(a)) BY <5>2, <4>7
              <7> QED BY <7>1
            <6>2. (a \o b)[j] = b[m] /\ m \in DOMAIN b BY <6>1, <4>7
            <6>3. n + 1 \in 1 .. n + 1 OBVIOUS
            <6> QED BY <6>2, <6>3
          <5> QED BY <5>1, <5>2, <4>7
        <4>9. ASSUME NEW i \in 1 .. n + 1, NEW m \in DOMAIN s[i]
              PROVE  \E j \in DOMAIN (a \o b) : (a \o b)[j] = s[i][m]
          <5>1. CASE i \in 1 .. n
            <6>1. PICK j \in DOMAIN a : a[j] = s[i][m] BY <5>1, <4>6
            <6>2. j \in DOMAIN (a \o b) /\ (a \o b)[j] = a[j]
              <7> HIDE DEF b
              <7> QED BY <6>1, <4>7
            <6> QED BY <6>1, <6>2
          <5>2. CASE i = n + 1
            <6>1. m \in 1 .. Len(b) BY <5>2, <4>7
            <6>2. Len(a) + m \in DOMAIN (a \o b) /\ (a \o b)[Len(a) + m] = b[m]
              <7> HIDE DEF b
              <7> QED BY <6>1, <4>7, SMTT(30)
            <6> QED BY <6>2, <5>2
          <5> QED BY <5>1, <5>2
        <4>10. f[n + 1] = a \o b BY <4>4
        <4>11. f[n + 1] \in Seq(E) BY <4>7, <4>10
        <4> HIDE DEF b
        <4> DEFINE c == f[n + 1]
        <4>12. \A j \in DOMAIN c : \E i \in 1 .. n + 1 : \E m \in DOMAIN s[i] : c[j] = s[i][m]
          BY <4>8, <4>10, ZenonT(30)
        <4>13. \A i \in 1 .. n + 1 : \A m \in DOMAIN s[i] : \E j \in DOMAIN c : c[j] = s[i][m]
          <5>1. SUFFICES ASSUME NEW i \in 1 .. n + 1, NEW m \in DOMAIN s[i]
                         PROVE  \E j \in DOMAIN c : c[j] = s[i][m]
            OBVIOUS
          <5>2. PICK j \in DOMAIN (a \o b) : (a \o b)[j] = s[i][m] BY <4>9
          <5> QED BY <5>2, <4>10
        <4> QED BY <4>11, <4>12, <4>13, Zenon DEF Has
      <3> QED BY <3>1, <3>2
    <2>4. Has(Len(s))
      <3> HIDE DEF N
      <3>1. Len(s) \in N BY <2>2, <2>3, Counting, SMTT(30)
      <3>2. Len(s) >= 1 BY <1>2
      <3> QED BY <3>1, <3>2 DEF N
    <2>5. DOMAIN s = 1 .. Len(s)
      OBVIOUS
    <2>6. FlattenSeq(s) = f[Len(s)]
      BY <2>1
    <2> HIDE DEF N
    <2> DEFINE r == f[Len(s)]
    <2>7. r \in Seq(E)
      BY <2>4 DEF Has
    <2>8. \A j \in DOMAIN r : \E i \in DOMAIN s : \E m \in DOMAIN s[i] : r[j] = s[i][m]
      BY <2>4, <2>5, Zenon DEF Has
    <2>9. \A i \in DOMAIN s : \A m \in DOMAIN s[i] : \E j \in DOMAIN r : r[j] = s[i][m]
      BY <2>4, <2>5, Zenon DEF Has
    <2>10. FlattenSeq(s) = r
      BY <2>6
    <2> HIDE DEF r
    <2> QED BY <2>7, <2>8, <2>9, <2>10
  <1> QED BY <1>1, <1>2

\* Short tuples put one after the other.
LEMMA PairTuple ==
  ASSUME NEW P, NEW a \in P, NEW b \in P
  PROVE  <<a>> \o <<b>> = <<a, b>>
  <1> DEFINE s == <<a>>
             t == <<b>>
             w == <<a, b>>
  <1>1. s \in Seq(P) /\ t \in Seq(P) /\ w \in Seq(P) /\ Len(s) = 1 /\ Len(t) = 1 /\ Len(w) = 2
    OBVIOUS
  <1>2. s[1] = a /\ t[1] = b
    OBVIOUS
  <1>3. w[1] = a /\ w[2] = b
    OBVIOUS
  <1> DEFINE r == s \o t
  <1> HIDE DEF s, t, w
  <1>4. /\ r \in Seq(P) /\ Len(r) = Len(s) + Len(t)
        /\ \A i \in 1 .. Len(s) + Len(t) : r[i] = IF i <= Len(s) THEN s[i] ELSE t[i - Len(s)]
    BY <1>1, ConcatProperties
  <1> HIDE DEF r
  <1>5. r[1] = a /\ r[2] = b
    BY <1>1, <1>2, <1>4
  <1>6. \A i \in 1 .. Len(r) : r[i] = w[i]
    BY <1>1, <1>3, <1>4, <1>5
  <1>7. r = w
    BY <1>1, <1>4, <1>6, SeqEqual
  <1> QED BY <1>7 DEF r, s, t, w

LEMMA ShortTuples ==
  ASSUME NEW P, NEW a \in P, NEW b \in P, NEW c \in P
  PROVE  <<a>> \o <<b, c>> = <<a, b, c>> /\ <<a, b>> \o <<c>> = <<a, b, c>>
  <1>1. <<a>> \o <<b, c>> = <<a, b, c>>
    <2> DEFINE s == <<a>>
               t == <<b, c>>
               w == <<a, b, c>>
    <2>1. s \in Seq(P) /\ t \in Seq(P) /\ w \in Seq(P) /\ Len(s) = 1 /\ Len(t) = 2 /\ Len(w) = 3
      OBVIOUS
    <2>2. s[1] = a /\ t[1] = b /\ t[2] = c
      OBVIOUS
    <2>3. w[1] = a /\ w[2] = b /\ w[3] = c
      OBVIOUS
    <2> DEFINE r == s \o t
    <2> HIDE DEF s, t, w
    <2>4. /\ r \in Seq(P) /\ Len(r) = Len(s) + Len(t)
          /\ \A i \in 1 .. Len(s) + Len(t) : r[i] = IF i <= Len(s) THEN s[i] ELSE t[i - Len(s)]
      BY <2>1, ConcatProperties
    <2> HIDE DEF r
    <2>5. r[1] = a /\ r[2] = b /\ r[3] = c
      BY <2>1, <2>2, <2>4
    <2>6. \A i \in 1 .. Len(r) : r[i] = w[i]
      BY <2>1, <2>3, <2>4, <2>5
    <2>7. r = w
      BY <2>1, <2>4, <2>6, SeqEqual
    <2> QED BY <2>7 DEF r, s, t, w
  <1>2. <<a, b>> \o <<c>> = <<a, b, c>>
    <2> DEFINE s == <<a, b>>
               t == <<c>>
               w == <<a, b, c>>
    <2>1. s \in Seq(P) /\ t \in Seq(P) /\ w \in Seq(P) /\ Len(s) = 2 /\ Len(t) = 1 /\ Len(w) = 3
      OBVIOUS
    <2>2. s[1] = a /\ s[2] = b /\ t[1] = c
      OBVIOUS
    <2>3. w[1] = a /\ w[2] = b /\ w[3] = c
      OBVIOUS
    <2> DEFINE r == s \o t
    <2> HIDE DEF s, t, w
    <2>4. /\ r \in Seq(P) /\ Len(r) = Len(s) + Len(t)
          /\ \A i \in 1 .. Len(s) + Len(t) : r[i] = IF i <= Len(s) THEN s[i] ELSE t[i - Len(s)]
      BY <2>1, ConcatProperties
    <2> HIDE DEF r
    <2>5. r[1] = a /\ r[2] = b /\ r[3] = c
      BY <2>1, <2>2, <2>4
    <2>6. \A i \in 1 .. Len(r) : r[i] = w[i]
      BY <2>1, <2>3, <2>4, <2>5
    <2>7. r = w
      BY <2>1, <2>4, <2>6, SeqEqual
    <2> QED BY <2>7 DEF r, s, t, w
  <1> QED BY <1>1, <1>2

LEMMA LongerTuple ==
  ASSUME NEW P, NEW a \in P, NEW b \in P, NEW c \in P, NEW e \in P
  PROVE  <<a, b, c>> \o <<e>> = <<a, b, c, e>>
  <1> DEFINE s == <<a, b, c>>
             t == <<e>>
             w == <<a, b, c, e>>
  <1>1. s \in Seq(P) /\ t \in Seq(P) /\ w \in Seq(P) /\ Len(s) = 3 /\ Len(t) = 1 /\ Len(w) = 4
    OBVIOUS
  <1>2. s[1] = a /\ s[2] = b /\ s[3] = c /\ t[1] = e
    OBVIOUS
  <1>3. w[1] = a /\ w[2] = b /\ w[3] = c /\ w[4] = e
    OBVIOUS
  <1> DEFINE r == s \o t
  <1> HIDE DEF s, t, w
  <1>4. /\ r \in Seq(P) /\ Len(r) = Len(s) + Len(t)
        /\ \A i \in 1 .. Len(s) + Len(t) : r[i] = IF i <= Len(s) THEN s[i] ELSE t[i - Len(s)]
    BY <1>1, ConcatProperties
  <1> HIDE DEF r
  <1>5. r[1] = a /\ r[2] = b /\ r[3] = c /\ r[4] = e
    BY <1>1, <1>2, <1>4
  <1>6. \A i \in 1 .. Len(r) : r[i] = w[i]
    BY <1>1, <1>3, <1>4, <1>5
  <1>7. r = w
    BY <1>1, <1>4, <1>6, SeqEqual
  <1> QED BY <1>7 DEF r, s, t, w

\* From the first track of a disc to the last.
LEMMA AudioKeeps ==
  ASSUME NEW B, NEW E, NEW s \in Seq(E), <<>> \in B, \A x \in B, e \in E : AddAudio(x, e) \in B,
         NEW J, <<>> \in J[0], \A i \in 1 .. Len(s) : \A x \in J[i - 1] : x \in B => AddAudio(x, s[i]) \in J[i]
  PROVE  FoldLeft(AddAudio, <<>>, s) \in B /\ FoldLeft(AddAudio, <<>>, s) \in J[Len(s)]
  <1> DEFINE Step == [x \in B |-> [e \in E |-> AddAudio(x, e)]]
             Iter(h) == h = [u \in SUBSET DOMAIN s |->
                               IF u = {} THEN <<>> ELSE AddAudio(h[u \ {Max(u)}], s[Max(u)])]
  <1>1. DOMAIN s = 1 .. Len(s) /\ Len(s) \in Nat /\ \A u \in SUBSET DOMAIN s : u # {} => s[Max(u)] \in E
    <2>1. DOMAIN s = 1 .. Len(s) /\ Len(s) \in Nat
      OBVIOUS
    <2>2. ASSUME NEW u \in SUBSET (1 .. Len(s)), u # {} PROVE Max(u) \in u
      BY <2>1, <2>2, MaxIsIn
    <2> QED BY <2>1, <2>2
  <1>2. \E h : Iter(h)
    <2>1. Step \in [B -> [E -> B]]
      OBVIOUS
    <2>2. PICK h : IsFold(h, B, <<>>, Step, s)
      <3> HIDE DEF Step
      <3> QED BY <2>1, Unfolding
    <2>3. ASSUME NEW u \in SUBSET DOMAIN s
          PROVE  h[u] = IF u = {} THEN <<>> ELSE AddAudio(h[u \ {Max(u)}], s[Max(u)])
      <3>1. h[u \ {Max(u)}] \in B BY <2>2 DEF IsFold
      <3>2. u # {} => Step[h[u \ {Max(u)}]][s[Max(u)]] = AddAudio(h[u \ {Max(u)}], s[Max(u)])
        BY <1>1, <3>1
      <3> HIDE DEF Step
      <3> QED BY <2>2, <3>2 DEF IsFold
    <2>4. Iter(h)
      BY <2>2, <2>3 DEF IsFold
    <2> QED BY <2>4
  <1> DEFINE iter == CHOOSE h : Iter(h)
  <1>3. Iter(iter)
    BY <1>2
  <1> HIDE DEF iter
  <1> DEFINE K == [i \in 0 .. Len(s) |-> {x \in B : x \in J[i]}]
  <1>4. iter[{}] \in K[0]
    BY <1>1, <1>3
  <1>5. ASSUME NEW i \in 1 .. Len(s), iter[1 .. i - 1] \in K[i - 1] PROVE iter[1 .. i] \in K[i]
    <2>1. i \in 0 .. Len(s) /\ i - 1 \in 0 .. Len(s) /\ s[i] \in E BY <1>1
    <2>2. 1 .. i \in SUBSET DOMAIN s /\ 1 .. i # {} /\ Max(1 .. i) = i /\ (1 .. i) \ {i} = 1 .. i - 1
      BY <1>1, UpTo
    <2>3. iter[1 .. i] = AddAudio(iter[1 .. i - 1], s[i])
      BY <1>3, <2>2
    <2>4. iter[1 .. i - 1] \in B /\ iter[1 .. i - 1] \in J[i - 1]
      BY <1>5, <2>1
    <2>5. iter[1 .. i] \in B /\ iter[1 .. i] \in J[i]
      BY <2>1, <2>3, <2>4
    <2> QED BY <2>1, <2>5
  <1>6. iter[1 .. Len(s)] \in K[Len(s)]
    <2> HIDE DEF K, Iter
    <2> QED BY <1>1, <1>4, <1>5, AlongPrefixes
  <1>7. FoldLeft(AddAudio, <<>>, s) = iter[DOMAIN s]
    BY DEF FoldLeft, MapThenFoldSet, iter
  <1>8. Len(s) \in 0 .. Len(s)
    BY <1>1
  <1> QED BY <1>1, <1>6, <1>7, <1>8

\* From the first entry of a file to the last.
LEMMA ReadEntriesKeep ==
  ASSUME NEW B, NEW E, NEW s \in Seq(E), NEW a, [ok |-> TRUE, album |-> a] \in B, \A x \in B, e \in E : ReadEntry(x, e) \in B,
         NEW J, [ok |-> TRUE, album |-> a] \in J[0], \A i \in 1 .. Len(s) : \A x \in J[i - 1] : x \in B => ReadEntry(x, s[i]) \in J[i]
  PROVE  ReadEntries(a, s) \in B /\ ReadEntries(a, s) \in J[Len(s)]
  <1> DEFINE Step == [x \in B |-> [e \in E |-> ReadEntry(x, e)]]
             Iter(h) == h = [u \in SUBSET DOMAIN s |->
                               IF u = {} THEN [ok |-> TRUE, album |-> a] ELSE ReadEntry(h[u \ {Max(u)}], s[Max(u)])]
  <1>1. DOMAIN s = 1 .. Len(s) /\ Len(s) \in Nat /\ \A u \in SUBSET DOMAIN s : u # {} => s[Max(u)] \in E
    <2>1. DOMAIN s = 1 .. Len(s) /\ Len(s) \in Nat
      OBVIOUS
    <2>2. ASSUME NEW u \in SUBSET (1 .. Len(s)), u # {} PROVE Max(u) \in u
      BY <2>1, <2>2, MaxIsIn
    <2> QED BY <2>1, <2>2
  <1>2. \E h : Iter(h)
    <2>1. Step \in [B -> [E -> B]]
      OBVIOUS
    <2>2. PICK h : IsFold(h, B, [ok |-> TRUE, album |-> a], Step, s)
      <3> HIDE DEF Step
      <3> QED BY <2>1, Unfolding
    <2>3. ASSUME NEW u \in SUBSET DOMAIN s
          PROVE  h[u] = IF u = {} THEN [ok |-> TRUE, album |-> a] ELSE ReadEntry(h[u \ {Max(u)}], s[Max(u)])
      <3>1. h[u \ {Max(u)}] \in B BY <2>2 DEF IsFold
      <3>2. u # {} => Step[h[u \ {Max(u)}]][s[Max(u)]] = ReadEntry(h[u \ {Max(u)}], s[Max(u)])
        BY <1>1, <3>1
      <3> HIDE DEF Step
      <3> QED BY <2>2, <3>2 DEF IsFold
    <2>4. Iter(h)
      BY <2>2, <2>3 DEF IsFold
    <2> QED BY <2>4
  <1> DEFINE iter == CHOOSE h : Iter(h)
  <1>3. Iter(iter)
    BY <1>2
  <1> HIDE DEF iter
  <1> DEFINE K == [i \in 0 .. Len(s) |-> {x \in B : x \in J[i]}]
  <1>4. iter[{}] \in K[0]
    BY <1>1, <1>3
  <1>5. ASSUME NEW i \in 1 .. Len(s), iter[1 .. i - 1] \in K[i - 1] PROVE iter[1 .. i] \in K[i]
    <2>1. i \in 0 .. Len(s) /\ i - 1 \in 0 .. Len(s) /\ s[i] \in E BY <1>1
    <2>2. 1 .. i \in SUBSET DOMAIN s /\ 1 .. i # {} /\ Max(1 .. i) = i /\ (1 .. i) \ {i} = 1 .. i - 1
      BY <1>1, UpTo
    <2>3. iter[1 .. i] = ReadEntry(iter[1 .. i - 1], s[i])
      BY <1>3, <2>2
    <2>4. iter[1 .. i - 1] \in B /\ iter[1 .. i - 1] \in J[i - 1]
      BY <1>5, <2>1
    <2>5. iter[1 .. i] \in B /\ iter[1 .. i] \in J[i]
      BY <2>1, <2>3, <2>4
    <2> QED BY <2>1, <2>5
  <1>6. iter[1 .. Len(s)] \in K[Len(s)]
    <2> HIDE DEF K, Iter
    <2> QED BY <1>1, <1>4, <1>5, AlongPrefixes
  <1>7. ReadEntries(a, s) = iter[DOMAIN s]
    BY DEF ReadEntries, FoldLeft, MapThenFoldSet, iter
  <1>8. Len(s) \in 0 .. Len(s)
    BY <1>1
  <1> QED BY <1>1, <1>6, <1>7, <1>8

\* From the first character of a pack to the last.
LEMMA CharsKeep ==
  ASSUME NEW B, NEW E, NEW s \in Seq(E), NEW base, base \in B, \A x \in B, e \in E : Char(x, e) \in B,
         NEW J, base \in J[0], \A i \in 1 .. Len(s) : \A x \in J[i - 1] : x \in B => Char(x, s[i]) \in J[i]
  PROVE  FoldLeft(Char, base, s) \in B /\ FoldLeft(Char, base, s) \in J[Len(s)]
  <1> DEFINE Step == [x \in B |-> [e \in E |-> Char(x, e)]]
             Iter(h) == h = [u \in SUBSET DOMAIN s |->
                               IF u = {} THEN base ELSE Char(h[u \ {Max(u)}], s[Max(u)])]
  <1>1. DOMAIN s = 1 .. Len(s) /\ Len(s) \in Nat /\ \A u \in SUBSET DOMAIN s : u # {} => s[Max(u)] \in E
    <2>1. DOMAIN s = 1 .. Len(s) /\ Len(s) \in Nat
      OBVIOUS
    <2>2. ASSUME NEW u \in SUBSET (1 .. Len(s)), u # {} PROVE Max(u) \in u
      BY <2>1, <2>2, MaxIsIn
    <2> QED BY <2>1, <2>2
  <1>2. \E h : Iter(h)
    <2>1. Step \in [B -> [E -> B]]
      OBVIOUS
    <2>2. PICK h : IsFold(h, B, base, Step, s)
      <3> HIDE DEF Step
      <3> QED BY <2>1, Unfolding
    <2>3. ASSUME NEW u \in SUBSET DOMAIN s
          PROVE  h[u] = IF u = {} THEN base ELSE Char(h[u \ {Max(u)}], s[Max(u)])
      <3>1. h[u \ {Max(u)}] \in B BY <2>2 DEF IsFold
      <3>2. u # {} => Step[h[u \ {Max(u)}]][s[Max(u)]] = Char(h[u \ {Max(u)}], s[Max(u)])
        BY <1>1, <3>1
      <3> HIDE DEF Step
      <3> QED BY <2>2, <3>2 DEF IsFold
    <2>4. Iter(h)
      BY <2>2, <2>3 DEF IsFold
    <2> QED BY <2>4
  <1> DEFINE iter == CHOOSE h : Iter(h)
  <1>3. Iter(iter)
    BY <1>2
  <1> HIDE DEF iter
  <1> DEFINE K == [i \in 0 .. Len(s) |-> {x \in B : x \in J[i]}]
  <1>4. iter[{}] \in K[0]
    BY <1>1, <1>3
  <1>5. ASSUME NEW i \in 1 .. Len(s), iter[1 .. i - 1] \in K[i - 1] PROVE iter[1 .. i] \in K[i]
    <2>1. i \in 0 .. Len(s) /\ i - 1 \in 0 .. Len(s) /\ s[i] \in E BY <1>1
    <2>2. 1 .. i \in SUBSET DOMAIN s /\ 1 .. i # {} /\ Max(1 .. i) = i /\ (1 .. i) \ {i} = 1 .. i - 1
      BY <1>1, UpTo
    <2>3. iter[1 .. i] = Char(iter[1 .. i - 1], s[i])
      BY <1>3, <2>2
    <2>4. iter[1 .. i - 1] \in B /\ iter[1 .. i - 1] \in J[i - 1]
      BY <1>5, <2>1
    <2>5. iter[1 .. i] \in B /\ iter[1 .. i] \in J[i]
      BY <2>1, <2>3, <2>4
    <2> QED BY <2>1, <2>5
  <1>6. iter[1 .. Len(s)] \in K[Len(s)]
    <2> HIDE DEF K, Iter
    <2> QED BY <1>1, <1>4, <1>5, AlongPrefixes
  <1>7. FoldLeft(Char, base, s) = iter[DOMAIN s]
    BY DEF FoldLeft, MapThenFoldSet, iter
  <1>8. Len(s) \in 0 .. Len(s)
    BY <1>1
  <1> QED BY <1>1, <1>6, <1>7, <1>8

\* From the first pack of a disc to the last.
LEMMA PacksKeep ==
  ASSUME NEW B, NEW E, NEW s \in Seq(E), NEW base, base \in B, \A x \in B, e \in E : ReadPack(x, e) \in B,
         NEW J, base \in J[0], \A i \in 1 .. Len(s) : \A x \in J[i - 1] : x \in B => ReadPack(x, s[i]) \in J[i]
  PROVE  FoldLeft(ReadPack, base, s) \in B /\ FoldLeft(ReadPack, base, s) \in J[Len(s)]
  <1> DEFINE Step == [x \in B |-> [e \in E |-> ReadPack(x, e)]]
             Iter(h) == h = [u \in SUBSET DOMAIN s |->
                               IF u = {} THEN base ELSE ReadPack(h[u \ {Max(u)}], s[Max(u)])]
  <1>1. DOMAIN s = 1 .. Len(s) /\ Len(s) \in Nat /\ \A u \in SUBSET DOMAIN s : u # {} => s[Max(u)] \in E
    <2>1. DOMAIN s = 1 .. Len(s) /\ Len(s) \in Nat
      OBVIOUS
    <2>2. ASSUME NEW u \in SUBSET (1 .. Len(s)), u # {} PROVE Max(u) \in u
      BY <2>1, <2>2, MaxIsIn
    <2> QED BY <2>1, <2>2
  <1>2. \E h : Iter(h)
    <2>1. Step \in [B -> [E -> B]]
      OBVIOUS
    <2>2. PICK h : IsFold(h, B, base, Step, s)
      <3> HIDE DEF Step
      <3> QED BY <2>1, Unfolding
    <2>3. ASSUME NEW u \in SUBSET DOMAIN s
          PROVE  h[u] = IF u = {} THEN base ELSE ReadPack(h[u \ {Max(u)}], s[Max(u)])
      <3>1. h[u \ {Max(u)}] \in B BY <2>2 DEF IsFold
      <3>2. u # {} => Step[h[u \ {Max(u)}]][s[Max(u)]] = ReadPack(h[u \ {Max(u)}], s[Max(u)])
        BY <1>1, <3>1
      <3> HIDE DEF Step
      <3> QED BY <2>2, <3>2 DEF IsFold
    <2>4. Iter(h)
      BY <2>2, <2>3 DEF IsFold
    <2> QED BY <2>4
  <1> DEFINE iter == CHOOSE h : Iter(h)
  <1>3. Iter(iter)
    BY <1>2
  <1> HIDE DEF iter
  <1> DEFINE K == [i \in 0 .. Len(s) |-> {x \in B : x \in J[i]}]
  <1>4. iter[{}] \in K[0]
    BY <1>1, <1>3
  <1>5. ASSUME NEW i \in 1 .. Len(s), iter[1 .. i - 1] \in K[i - 1] PROVE iter[1 .. i] \in K[i]
    <2>1. i \in 0 .. Len(s) /\ i - 1 \in 0 .. Len(s) /\ s[i] \in E BY <1>1
    <2>2. 1 .. i \in SUBSET DOMAIN s /\ 1 .. i # {} /\ Max(1 .. i) = i /\ (1 .. i) \ {i} = 1 .. i - 1
      BY <1>1, UpTo
    <2>3. iter[1 .. i] = ReadPack(iter[1 .. i - 1], s[i])
      BY <1>3, <2>2
    <2>4. iter[1 .. i - 1] \in B /\ iter[1 .. i - 1] \in J[i - 1]
      BY <1>5, <2>1
    <2>5. iter[1 .. i] \in B /\ iter[1 .. i] \in J[i]
      BY <2>1, <2>3, <2>4
    <2> QED BY <2>1, <2>5
  <1>6. iter[1 .. Len(s)] \in K[Len(s)]
    <2> HIDE DEF K, Iter
    <2> QED BY <1>1, <1>4, <1>5, AlongPrefixes
  <1>7. FoldLeft(ReadPack, base, s) = iter[DOMAIN s]
    BY DEF FoldLeft, MapThenFoldSet, iter
  <1>8. Len(s) \in 0 .. Len(s)
    BY <1>1
  <1> QED BY <1>1, <1>6, <1>7, <1>8

-----------------------------------------------------------------------------
(* Texts, albums, lines *)

Text == Seq(Nat \X Nat)
LyricsFrom == {"none", "LrcLib", "NetEase", "QQ"}
AlbumTracks == [no : Nat, title : Text, artist : Text, lyrics : LyricsFrom]
Albums == [title : Text, artist : Text, tracks : Seq(AlbumTracks)]
FileEntries == [kind : {"title", "artist"}, no : Nat, text : Text]

\* What the servers and providers know of tracks that are counted from 1 on.
KnownTracks == [title : Text, artist : Text]
KnownDiscs == [title : Text, artist : Text, tracks : Seq(KnownTracks)]

\* The titles of the tracks of the disc, where places are numbers; there may be more.
OwnTracks(tracks) == ~DataFirst => \A i \in DOMAIN tracks : i <= Len(Toc[disc]) => OwnText(tracks[i].title, i)
OwnDiscs == {d \in KnownDiscs : OwnTracks(d.tracks)}

\* An album of the disc in the drive; where its places are its numbers.
SameTracks(a) ==
  /\ Len(a.tracks) = Len(Album(Toc[disc]).tracks)
  /\ \A i \in DOMAIN a.tracks : a.tracks[i].no = Album(Toc[disc]).tracks[i].no
OwnTitles(a) == \A i \in DOMAIN a.tracks : OwnText(a.tracks[i].title, a.tracks[i].no)
Counted(a) == \A i \in DOMAIN a.tracks : a.tracks[i].no = i
OfDisc(a) == a \in Albums /\ SameTracks(a) /\ (~DataFirst => OwnTitles(a))

LEMMA NoText == <<>> \in Text
  BY EmptySeq DEF Text

\* Tracks are in the album in the order of their numbers, and if no data come before
\* audio their numbers are their places.
LEMMA AlbumOfToc ==
  ASSUME disc \in Discs
  PROVE  /\ Album(Toc[disc]) \in Albums
         /\ Len(Album(Toc[disc]).tracks) <= Len(Toc[disc])
         /\ \A i \in DOMAIN Album(Toc[disc]).tracks : Album(Toc[disc]).tracks[i].title = <<>>
         /\ \A i \in DOMAIN Album(Toc[disc]).tracks : Album(Toc[disc]).tracks[i].no >= 1
         /\ \A i, j \in DOMAIN Album(Toc[disc]).tracks :
              i < j => Album(Toc[disc]).tracks[i].no < Album(Toc[disc]).tracks[j].no
         /\ ~DataFirst => Counted(Album(Toc[disc]))
  <1> DEFINE E == [no : Nat, data : BOOLEAN]
             toc == Toc[disc]
  <1>1. toc \in Seq(E) /\ \A i \in DOMAIN toc : toc[i].no = i
    BY MetadataAssumption
  <1>2. DataFirst = \E i, j \in DOMAIN toc : i < j /\ toc[i].data /\ ~toc[j].data
    BY DEF DataFirst
  <1> HIDE DEF toc
  <1> DEFINE Read(i, t) ==
        /\ Len(t) <= i
        /\ \A k \in DOMAIN t : t[k].title = <<>> /\ t[k].no \in 1 .. i
        /\ \A k, l \in DOMAIN t : k < l => t[k].no < t[l].no
        /\ ~DataFirst => /\ (\A m \in 1 .. i : ~toc[m].data) => Len(t) = i
                         /\ \A k \in DOMAIN t : t[k].no = k
             J == [i \in 0 .. Len(toc) |-> {t \in Seq(AlbumTracks) : Read(i, t)}]
  <1>3. <<>> \in J[0]
    <2>1. <<>> \in Seq(AlbumTracks) /\ Len(<<>>) = 0 /\ DOMAIN <<>> = {}
      BY EmptySeq
    <2>2. Read(0, <<>>)
      BY <2>1
    <2> HIDE DEF Read
    <2> QED BY <2>1, <2>2
  <1>4. ASSUME NEW i \in 1 .. Len(toc), NEW t \in J[i - 1]
        PROVE  AddAudio(t, toc[i]) \in J[i]
    <2>1. t \in Seq(AlbumTracks) /\ Read(i - 1, t)
      <3>1. i - 1 \in 0 .. Len(toc) BY <1>1
      <3> HIDE DEF Read
      <3> QED BY <3>1
    <2>2. toc[i].no = i
      <3>1. i \in DOMAIN toc BY <1>1
      <3> QED BY <1>1, <3>1
    <2>3. CASE toc[i].data
      <3>1. AddAudio(t, toc[i]) = t
        BY <2>3 DEF AddAudio
      <3>2. Read(i, t)
        BY <2>1, <2>3
      <3> HIDE DEF Read
      <3> QED BY <2>1, <3>1, <3>2
    <2>4. CASE ~toc[i].data
      <3> DEFINE new == [no |-> i, title |-> <<>>, artist |-> <<>>, lyrics |-> "none"]
                 r == Append(t, new)
      <3>1. AddAudio(t, toc[i]) = r
        BY <2>2, <2>4 DEF AddAudio
      <3>2. new \in AlbumTracks
        BY NoText DEF AlbumTracks, LyricsFrom
      <3>3. new.title = <<>> /\ new.no = i
        OBVIOUS
      <3> HIDE DEF new
      <3>4. /\ r \in Seq(AlbumTracks) /\ Len(r) = Len(t) + 1 /\ DOMAIN r = 1 .. Len(t) + 1
            /\ DOMAIN t = 1 .. Len(t) /\ Len(t) \in Nat
            /\ r[Len(t) + 1] = new /\ \A k \in 1 .. Len(t) : r[k] = t[k]
        BY <2>1, <3>2
      <3>5. ASSUME ~DataFirst PROVE Len(t) = i - 1
        <4>1. ASSUME NEW m \in 1 .. i - 1 PROVE ~toc[m].data
          <5>1. m \in DOMAIN toc /\ i \in DOMAIN toc /\ m < i BY <1>1
          <5> QED BY <5>1, <1>2, <3>5, <2>4
        <4> QED BY <4>1, <3>5, <2>1
      <3> HIDE DEF r
      <3>6. Len(r) <= i /\ \A k \in DOMAIN r : r[k].title = <<>> /\ r[k].no \in 1 .. i
        BY <2>1, <3>3, <3>4, SMTT(30)
      <3>7. \A k, l \in DOMAIN r : k < l => r[k].no < r[l].no
        <4> SUFFICES ASSUME NEW k \in DOMAIN r, NEW l \in DOMAIN r, k < l PROVE r[k].no < r[l].no
          OBVIOUS
        <4>1. k \in 1 .. Len(t) /\ r[k] = t[k] /\ t[k].no \in 1 .. i - 1 BY <2>1, <3>4
        <4>2. CASE l \in 1 .. Len(t) BY <4>1, <4>2, <3>4, <2>1
        <4>3. CASE l = Len(t) + 1 BY <4>1, <4>3, <3>3, <3>4
        <4> QED BY <4>2, <4>3, <3>4
      <3>8. ~DataFirst => Len(r) = i /\ \A k \in DOMAIN r : r[k].no = k
        BY <2>1, <3>3, <3>4, <3>5
      <3>9. Read(i, r)
        BY <3>6, <3>7, <3>8
      <3> HIDE DEF Read
      <3> QED BY <3>1, <3>4, <3>9
    <2> QED BY <2>3, <2>4
  <1>5. FoldLeft(AddAudio, <<>>, toc) \in J[Len(toc)]
    <2> DEFINE B == Seq(AlbumTracks)
    <2>1. ASSUME NEW t \in B, NEW e \in E PROVE AddAudio(t, e) \in B
      <3> DEFINE new == [no |-> e.no, title |-> <<>>, artist |-> <<>>, lyrics |-> "none"]
      <3>1. new \in AlbumTracks
        BY NoText DEF AlbumTracks, LyricsFrom
      <3> HIDE DEF new
      <3>2. Append(t, new) \in B
        BY <3>1
      <3> QED BY <3>2 DEF AddAudio, new
    <2>2. <<>> \in B
      BY EmptySeq
    <2> HIDE DEF J, E, B
    <2> QED BY <1>1, <1>3, <1>4, <2>1, <2>2, AudioKeeps
  <1>6. FoldLeft(AddAudio, <<>>, toc) \in Seq(AlbumTracks) /\ Read(Len(toc), FoldLeft(AddAudio, <<>>, toc))
    <2>1. Len(toc) \in 0 .. Len(toc) BY <1>1
    <2> HIDE DEF Read
    <2> QED BY <1>5, <2>1
  <1> DEFINE a == Album(toc)
  <1>7. a \in Albums /\ a.tracks = FoldLeft(AddAudio, <<>>, toc)
    BY <1>6, NoText DEF Album, Albums
  <1>8. Album(Toc[disc]) = a /\ Len(Toc[disc]) = Len(toc)
    BY DEF toc
  <1> HIDE DEF a
  <1>9. /\ Len(a.tracks) <= Len(toc) /\ \A i \in DOMAIN a.tracks : a.tracks[i].title = <<>> /\ a.tracks[i].no \in 1 .. Len(toc)
        /\ \A i, j \in DOMAIN a.tracks : i < j => a.tracks[i].no < a.tracks[j].no
        /\ ~DataFirst => \A i \in DOMAIN a.tracks : a.tracks[i].no = i
    BY <1>6, <1>7
  <1> HIDE DEF Read
  <1> QED BY <1>7, <1>8, <1>9 DEF Counted

-----------------------------------------------------------------------------
(* What the providers make of an album *)

\* Other tracks with the numbers of before and with titles of their own.
LEMMA Reworked ==
  ASSUME NEW a, OfDisc(a), NEW title \in Text, NEW artist \in Text,
         NEW tracks \in Seq(AlbumTracks), Len(tracks) = Len(a.tracks),
         \A i \in DOMAIN tracks : tracks[i].no = a.tracks[i].no,
         ~DataFirst => \A i \in DOMAIN tracks : OwnText(tracks[i].title, tracks[i].no)
  PROVE  OfDisc([title |-> title, artist |-> artist, tracks |-> tracks])
  <1> DEFINE b == [title |-> title, artist |-> artist, tracks |-> tracks]
  <1>1. b \in Albums /\ b.tracks = tracks
    BY DEF Albums
  <1>2. a.tracks \in Seq(AlbumTracks)
    BY DEF OfDisc, Albums
  <1>3. DOMAIN tracks = DOMAIN a.tracks
    BY <1>2
  <1> HIDE DEF b
  <1>4. SameTracks(b)
    BY <1>1, <1>3 DEF OfDisc, SameTracks
  <1>5. ~DataFirst => OwnTitles(b)
    BY <1>1 DEF OwnTitles
  <1>6. OfDisc(b)
    BY <1>1, <1>4, <1>5 DEF OfDisc
  <1> QED BY <1>6 DEF b

\* What an album of the disc is made of.
LEMMA DiscAlbum ==
  ASSUME disc \in Discs, NEW a, OfDisc(a)
  PROVE  /\ a \in Albums /\ a.title \in Text /\ a.artist \in Text /\ a.tracks \in Seq(AlbumTracks)
         /\ Len(a.tracks) \in Nat /\ DOMAIN a.tracks = 1 .. Len(a.tracks)
         /\ Len(a.tracks) <= Len(Toc[disc]) /\ Len(Toc[disc]) \in Nat
         /\ \A i \in DOMAIN a.tracks : /\ a.tracks[i] \in AlbumTracks /\ a.tracks[i].no >= 1
                                       /\ a.tracks[i] = [no |-> a.tracks[i].no, title |-> a.tracks[i].title,
                                                         artist |-> a.tracks[i].artist, lyrics |-> a.tracks[i].lyrics]
         /\ \A i, j \in DOMAIN a.tracks : i < j => a.tracks[i].no < a.tracks[j].no
         /\ ~DataFirst => Counted(a)
  <1>1. a \in Albums /\ SameTracks(a)
    BY DEF OfDisc
  <1>2. a.title \in Text /\ a.artist \in Text /\ a.tracks \in Seq(AlbumTracks)
    BY <1>1 DEF Albums
  <1>3. Len(a.tracks) \in Nat /\ DOMAIN a.tracks = 1 .. Len(a.tracks)
    BY <1>2
  <1>4. ASSUME NEW i \in DOMAIN a.tracks PROVE a.tracks[i] \in AlbumTracks
    BY <1>2
  <1>5. ASSUME NEW t \in AlbumTracks
        PROVE  t = [no |-> t.no, title |-> t.title, artist |-> t.artist, lyrics |-> t.lyrics]
    BY DEF AlbumTracks
  <1> DEFINE b == Album(Toc[disc])
  <1>6. /\ b \in Albums /\ Len(b.tracks) <= Len(Toc[disc])
        /\ \A i \in DOMAIN b.tracks : b.tracks[i].no >= 1
        /\ \A i, j \in DOMAIN b.tracks : i < j => b.tracks[i].no < b.tracks[j].no
        /\ ~DataFirst => Counted(b)
    BY AlbumOfToc
  <1>7. /\ Len(a.tracks) = Len(b.tracks)
        /\ \A i \in DOMAIN a.tracks : a.tracks[i].no = b.tracks[i].no
    BY <1>1 DEF SameTracks
  <1>8. Len(Toc[disc]) \in Nat
    BY MetadataAssumption
  <1> HIDE DEF b
  <1>9. DOMAIN b.tracks = DOMAIN a.tracks
    BY <1>2, <1>6, <1>7 DEF Albums
  <1>10. ~DataFirst => Counted(a)
    BY <1>6, <1>7, <1>9 DEF Counted
  <1>11. \A i \in DOMAIN a.tracks : a.tracks[i].no >= 1
    BY <1>6, <1>7, <1>9
  <1>12. \A i, j \in DOMAIN a.tracks : i < j => a.tracks[i].no < a.tracks[j].no
    BY <1>6, <1>7, <1>9
  <1> QED BY <1>1, <1>2, <1>3, <1>4, <1>5, <1>6, <1>7, <1>8, <1>10, <1>11, <1>12

\* A text that is there stays, so one that is filled in is of the same track.
LEMMA FillTypes ==
  ASSUME NEW old \in Text, NEW new \in Text, NEW main
  PROVE  /\ Fill(old, new) \in Text /\ FillArtist(old, new, main) \in Text
         /\ old # <<>> => Fill(old, new) # <<>>
         /\ \A no : OwnText(old, no) /\ OwnText(new, no) => OwnText(Fill(old, new), no)
  BY DEF Fill, FillArtist

\* No text has a part of another track.
LEMMA NoTextIsOwn ==
  ASSUME NEW no
  PROVE  OwnText(<<>>, no)
  BY DEF OwnText

\* What a provider knows of a disc goes to its tracks, those that have numbers.
LEMMA FilledOfDisc ==
  ASSUME disc \in Discs, NEW a, OfDisc(a), NEW d \in OwnDiscs
  PROVE  OfDisc(Filled(a, d))
  <1>1. d.title \in Text /\ d.artist \in Text /\ d.tracks \in Seq(KnownTracks) /\ OwnTracks(d.tracks)
    BY DEF OwnDiscs, KnownDiscs
  <1> DEFINE main == Fill(a.artist, d.artist)
             track(i) == IF i > Len(d.tracks) THEN a.tracks[i]
                         ELSE [a.tracks[i] EXCEPT !.title = Fill(@, d.tracks[i].title),
                                                  !.artist = FillArtist(@, d.tracks[i].artist, main)]
             tracks == [i \in DOMAIN a.tracks |-> track(i)]
  <1>2. Fill(a.title, d.title) \in Text /\ main \in Text
    BY <1>1, DiscAlbum, FillTypes
  <1>3. ASSUME NEW i \in DOMAIN a.tracks
        PROVE  track(i) \in AlbumTracks /\ track(i).no = a.tracks[i].no
               /\ (~DataFirst => OwnText(track(i).title, track(i).no))
    <2> DEFINE t == a.tracks[i]
    <2>1. t \in AlbumTracks /\ i \in Nat /\ i >= 1 /\ i <= Len(Toc[disc])
          /\ (~DataFirst => t.no = i /\ OwnText(t.title, t.no))
      BY DiscAlbum DEF Counted, OfDisc, OwnTitles
    <2>2. CASE i > Len(d.tracks)
      BY <2>1, <2>2
    <2>3. CASE ~(i > Len(d.tracks))
      <3>1. i \in DOMAIN d.tracks /\ d.tracks[i] \in KnownTracks
        BY <1>1, <2>1, <2>3
      <3>2. d.tracks[i].title \in Text /\ d.tracks[i].artist \in Text /\ (~DataFirst => OwnText(d.tracks[i].title, i))
        BY <3>1, <1>1, <2>1 DEF KnownTracks, OwnTracks
      <3> DEFINE x == Fill(t.title, d.tracks[i].title)
                 y == FillArtist(t.artist, d.tracks[i].artist, main)
      <3>3. track(i) = [t EXCEPT !.title = x, !.artist = y]
        BY <2>3
      <3>4. t.title \in Text /\ t.artist \in Text
        BY <2>1 DEF AlbumTracks
      <3>5. x \in Text /\ y \in Text /\ (~DataFirst => OwnText(x, i))
        BY <3>2, <3>4, <2>1, FillTypes
      <3> HIDE DEF x, y, t
      <3>6. [t EXCEPT !.title = x, !.artist = y] \in AlbumTracks
            /\ [t EXCEPT !.title = x, !.artist = y].no = t.no
            /\ [t EXCEPT !.title = x, !.artist = y].title = x
        BY <2>1, <3>5 DEF AlbumTracks
      <3> HIDE DEF track
      <3> QED BY <3>3, <3>5, <3>6, <2>1 DEF t
    <2> QED BY <2>2, <2>3
  <1> HIDE DEF track
  <1>4. tracks \in Seq(AlbumTracks) /\ Len(tracks) = Len(a.tracks) /\ DOMAIN tracks = DOMAIN a.tracks
    <2>1. Len(a.tracks) \in Nat /\ DOMAIN a.tracks = 1 .. Len(a.tracks)
      BY DiscAlbum
    <2>2. tracks \in Seq(AlbumTracks)
      BY <1>3, <2>1
    <2> QED BY <2>1, <2>2
  <1>5. \A i \in DOMAIN tracks : tracks[i] = track(i)
    OBVIOUS
  <1> HIDE DEF tracks
  <1>6. OfDisc([title |-> Fill(a.title, d.title), artist |-> main, tracks |-> tracks])
    <2> HIDE DEF main
    <2> QED BY <1>2, <1>3, <1>4, <1>5, Reworked
  <1>7. Filled(a, d) = [title |-> Fill(a.title, d.title), artist |-> main, tracks |-> tracks]
    BY DEF Filled, tracks, track
  <1> QED BY <1>6, <1>7

\* The titles the servers know.
LEMMA TitlesAreOwn ==
  ASSUME NEW n \in Nat
  PROVE  TitleOf(n) \in Text /\ OwnText(TitleOf(n), n) /\ ArtistOf(n) \in Text /\ TitleOf(n) # <<>>
  <1>1. TitleOf(n) \in Seq(Nat \X Nat) /\ ArtistOf(n) \in Seq(Nat \X Nat)
    BY DEF TitleOf, ArtistOf, Artist
  <1>2. OwnText(TitleOf(n), n) /\ TitleOf(n) # <<>>
    BY DEF TitleOf, OwnText
  <1> QED BY <1>1, <1>2 DEF Text

\* What MusicBrainz finds is of the disc that was asked for.
LEMMA ReleasesAreOwn ==
  ASSUME disc \in Discs, NEW r \in Releases(Toc[disc])
  PROVE  r \in OwnDiscs
  <1>1. NoDisc \in OwnDiscs
    <2>1. <<>> \in Seq(KnownTracks) /\ DOMAIN <<>> = {} BY EmptySeq
    <2> QED BY <2>1, NoText DEF NoDisc, OwnDiscs, KnownDiscs, OwnTracks
  <1> DEFINE audio == Album(Toc[disc]).tracks
             known(k) == [i \in 1 .. k |-> [title |-> TitleOf(audio[i].no), artist |-> ArtistOf(IF i = 1 THEN 0 ELSE i)]]
  <1>2. ASSUME NEW t \in {<<>>, TitleOf(0)}, NEW k \in 0 .. Len(audio),
               r = [title |-> t, artist |-> ArtistOf(0), tracks |-> known(k)]
        PROVE  r \in OwnDiscs
    <2>1. audio \in Seq(AlbumTracks) /\ (~DataFirst => \A i \in DOMAIN audio : audio[i].no = i)
      BY AlbumOfToc DEF Albums, Counted
    <2> HIDE DEF audio
    <2>2. Len(audio) \in Nat /\ DOMAIN audio = 1 .. Len(audio) /\ k \in Nat
      BY <2>1
    <2>3. ASSUME NEW i \in 1 .. k
          PROVE  [title |-> TitleOf(audio[i].no), artist |-> ArtistOf(IF i = 1 THEN 0 ELSE i)] \in KnownTracks
                 /\ OwnText(TitleOf(audio[i].no), audio[i].no) /\ i \in DOMAIN audio
      <3>1. i \in DOMAIN audio /\ audio[i] \in AlbumTracks BY <2>1, <2>2
      <3>2. audio[i].no \in Nat BY <3>1 DEF AlbumTracks
      <3>3. (IF i = 1 THEN 0 ELSE i) \in Nat OBVIOUS
      <3> QED BY <3>1, <3>2, <3>3, TitlesAreOwn DEF KnownTracks
    <2>4. known(k) \in Seq(KnownTracks) /\ DOMAIN known(k) = 1 .. k
      BY <2>2, <2>3
    <2>5. OwnTracks(known(k))
      <3> SUFFICES ASSUME ~DataFirst, NEW i \in 1 .. k PROVE OwnText(known(k)[i].title, i)
        BY <2>4 DEF OwnTracks
      <3> QED BY <2>1, <2>3
    <2>6. t \in Text /\ ArtistOf(0) \in Text
      BY TitlesAreOwn, NoText
    <2> HIDE DEF known
    <2>7. r \in KnownDiscs /\ r.tracks = known(k)
      BY <1>2, <2>4, <2>6 DEF KnownDiscs
    <2> QED BY <2>5, <2>7 DEF OwnDiscs
  <1> HIDE DEF audio
  <1>3. r = NoDisc \/ \E t \in {<<>>, TitleOf(0)}, k \in 0 .. Len(audio) :
                         r = [title |-> t, artist |-> ArtistOf(0), tracks |-> known(k)]
    BY DEF Releases, audio, NoDisc
  <1> HIDE DEF known
  <1> QED BY <1>1, <1>2, <1>3

\* The album with tracks that have other lyrics or artists.
LEMMA SameTitles ==
  ASSUME disc \in Discs, NEW a, OfDisc(a), NEW tracks,
         tracks = [i \in DOMAIN a.tracks |-> tracks[i]],
         \A i \in DOMAIN a.tracks : /\ tracks[i] \in AlbumTracks /\ tracks[i].no = a.tracks[i].no
                                    /\ tracks[i].title = a.tracks[i].title
  PROVE  OfDisc([a EXCEPT !.tracks = tracks])
  <1>1. a.title \in Text /\ a.artist \in Text /\ Len(a.tracks) \in Nat /\ DOMAIN a.tracks = 1 .. Len(a.tracks) /\ a \in Albums
    BY DiscAlbum
  <1>2. tracks \in Seq(AlbumTracks) /\ Len(tracks) = Len(a.tracks) /\ DOMAIN tracks = DOMAIN a.tracks
    <2>1. tracks \in [1 .. Len(a.tracks) -> AlbumTracks] BY <1>1
    <2> QED BY <2>1, <1>1
  <1>3. ~DataFirst => \A i \in DOMAIN tracks : OwnText(tracks[i].title, tracks[i].no)
    BY <1>2 DEF OfDisc, OwnTitles
  <1> DEFINE b == [a EXCEPT !.tracks = tracks]
  <1>4. b \in Albums /\ b.tracks = tracks
    BY <1>1, <1>2 DEF Albums
  <1> HIDE DEF b
  <1>5. SameTracks(b)
    BY <1>2, <1>4 DEF OfDisc, SameTracks
  <1>6. ~DataFirst => OwnTitles(b)
    BY <1>3, <1>4 DEF OwnTitles
  <1>7. OfDisc(b)
    BY <1>4, <1>5, <1>6 DEF OfDisc
  <1> QED BY <1>7 DEF b

\* Lyrics change no title and no number.
LEMMA LyricsOfDisc ==
  ASSUME disc \in Discs, NEW a, OfDisc(a), NEW provider \in LyricsFrom, NEW found
  PROVE  OfDisc(WithLyrics(a, provider, found))
  <1> DEFINE tracks == [i \in DOMAIN a.tracks |->
                          IF a.tracks[i].lyrics = "none" /\ a.tracks[i].title # <<>> /\ i \in found
                          THEN [a.tracks[i] EXCEPT !.lyrics = provider] ELSE a.tracks[i]]
  <1>1. ASSUME NEW i \in DOMAIN a.tracks
        PROVE  /\ tracks[i] \in AlbumTracks /\ tracks[i].no = a.tracks[i].no
               /\ tracks[i].title = a.tracks[i].title
    <2>1. a.tracks[i] \in AlbumTracks BY DiscAlbum
    <2> QED BY <2>1 DEF AlbumTracks
  <1>2. tracks = [i \in DOMAIN a.tracks |-> tracks[i]]
    OBVIOUS
  <1>3. WithLyrics(a, provider, found) = [a EXCEPT !.tracks = tracks]
    BY DiscAlbum DEF WithLyrics, Albums
  <1> HIDE DEF tracks
  <1> QED BY <1>1, <1>2, <1>3, SameTitles

\* Nor do artists.
LEMMA ArtistsOfDisc ==
  ASSUME disc \in Discs, NEW a, OfDisc(a)
  PROVE  OfDisc([a EXCEPT !.tracks = [i \in DOMAIN @ |-> OfAlbum(a.tracks[i], a.artist)]])
  <1> DEFINE tracks == [i \in DOMAIN a.tracks |-> OfAlbum(a.tracks[i], a.artist)]
  <1>1. ASSUME NEW i \in DOMAIN a.tracks
        PROVE  /\ tracks[i] \in AlbumTracks /\ tracks[i].no = a.tracks[i].no
               /\ tracks[i].title = a.tracks[i].title
    <2>1. a.tracks[i] \in AlbumTracks /\ a.artist \in Text BY DiscAlbum
    <2>2. a.tracks[i].artist \in Text BY <2>1 DEF AlbumTracks
    <2>3. Fill(a.tracks[i].artist, a.artist) \in Text BY <2>1, <2>2, FillTypes
    <2> QED BY <2>1, <2>3 DEF AlbumTracks, OfAlbum
  <1>2. tracks = [i \in DOMAIN a.tracks |-> tracks[i]]
    OBVIOUS
  <1>3. [a EXCEPT !.tracks = [i \in DOMAIN @ |-> OfAlbum(a.tracks[i], a.artist)]] = [a EXCEPT !.tracks = tracks]
    OBVIOUS
  <1> HIDE DEF tracks
  <1> QED BY <1>1, <1>2, <1>3, SameTitles

-----------------------------------------------------------------------------
(* The text on the disc *)

\* A payload of titles: up to its first end it is of one track, then of the next.
OwnPayload(payload, no) ==
  \E e \in Nat : \A i \in DOMAIN payload :
    IF i <= e THEN payload[i] \notin {End, Same} /\ payload[i][1] = no
    ELSE IF i = e + 1 THEN payload[i] = End
    ELSE payload[i] \notin {End, Same} /\ payload[i][1] = no + 1

PackTypes == [seq : Nat, ok : BOOLEAN, kind : {"TITLE", "ARTIST"}, no : Nat, payload : Text]
OwnPacks == {p \in PackTypes : p.kind = "TITLE" => OwnPayload(p.payload, p.no)}

\* The texts of a disc and of its tracks; those that are titles are their own.
TextsFor(m) == {t \in Seq(Text) : Len(t) = m + 1}
OwnTexts(texts) == \A j \in DOMAIN texts : OwnText(texts[j], j - 1)

\* A character more of the same track.
LEMMA TextGrows ==
  ASSUME NEW t \in Text, NEW c \in Nat \X Nat
  PROVE  /\ Append(t, c) \in Text
         /\ OwnText(t, c[1]) => OwnText(Append(t, c), c[1])
  <1>1. t \in Seq(Nat \X Nat)
    BY DEF Text
  <1> DEFINE P == Nat \X Nat
             r == Append(t, c)
  <1> HIDE DEF P
  <1>2. t \in Seq(P) /\ c \in P
    BY <1>1 DEF P
  <1>3. /\ r \in Seq(P) /\ DOMAIN r = 1 .. Len(t) + 1 /\ DOMAIN t = 1 .. Len(t) /\ Len(t) \in Nat
        /\ r[Len(t) + 1] = c /\ \A i \in 1 .. Len(t) : r[i] = t[i]
    BY <1>2
  <1> HIDE DEF r
  <1>4. OwnText(t, c[1]) => OwnText(r, c[1])
    BY <1>3 DEF OwnText
  <1> QED BY <1>3, <1>4 DEF Text, P, r

\* One character, of any kind.
LEMMA CharTypes ==
  ASSUME NEW m \in Nat, NEW x \in [no : Nat, texts : TextsFor(m)], NEW c \in Nat \X Nat,
         NEW y, y = Char(x, c)
  PROVE  /\ y \in [no : Nat, texts : TextsFor(m)]
         /\ x.no >= m + 1 => y = x
         /\ x.no < m + 1 /\ c = End => y.texts = x.texts /\ y.no = x.no + 1
         /\ c \notin {End, Same} /\ OwnTexts(x.texts) /\ c[1] = x.no => OwnTexts(y.texts)
         /\ c # End => y.no = x.no
  <1> DEFINE no == x.no
             texts == x.texts
  <1>1. /\ texts \in Seq(Text) /\ Len(texts) = m + 1 /\ DOMAIN texts = 1 .. m + 1 /\ no \in Nat
        /\ texts \in TextsFor(m)
    BY DEF TextsFor
  <1>2. CASE no >= m + 1
    <2>1. y = x BY <1>1, <1>2 DEF Char
    <2> QED BY <2>1, <1>2, <1>1
  <1>3. CASE no < m + 1 /\ c = End
    <2>1. y = [x EXCEPT !.no = no + 1]
      <3>1. End # Same BY DEF End, Same
      <3> QED BY <1>1, <1>3, <3>1 DEF Char
    <2>2. y.no = no + 1 /\ y.texts = texts /\ y \in [no : Nat, texts : TextsFor(m)] BY <2>1, <1>1
    <2> QED BY <2>2, <1>3, <1>1
  <1>4. CASE no < m + 1 /\ c # End
    <2>1. no + 1 \in 1 .. m + 1 BY <1>1, <1>4
    <2>2. CASE c = Same /\ no > 0
      <3> DEFINE u == [texts EXCEPT ![no + 1] = texts[no]]
      <3>1. y = [x EXCEPT !.texts = u]
        BY <1>1, <1>4, <2>2 DEF Char
      <3>2. no \in 1 .. m + 1 /\ texts[no] \in Text BY <1>1, <2>2, <1>4
      <3>3. u \in TextsFor(m) BY <1>1, <2>1, <3>2 DEF TextsFor
      <3> HIDE DEF u
      <3>4. y.no = no /\ y.texts = u /\ y \in [no : Nat, texts : TextsFor(m)] BY <3>1, <3>3
      <3> QED BY <3>4, <2>2, <1>4, <1>1
    <2>3. CASE ~(c = Same /\ no > 0)
      <3> DEFINE u == [texts EXCEPT ![no + 1] = Append(texts[no + 1], c)]
      <3>1. y = [x EXCEPT !.texts = u]
        BY <1>1, <1>4, <2>3 DEF Char
      <3>2. texts[no + 1] \in Text BY <1>1, <2>1
      <3>3. Append(texts[no + 1], c) \in Text /\ (OwnText(texts[no + 1], c[1]) => OwnText(Append(texts[no + 1], c), c[1]))
        BY <3>2, TextGrows
      <3>4. u \in TextsFor(m) /\ DOMAIN u = DOMAIN texts
        BY <1>1, <2>1, <3>3 DEF TextsFor
      <3>5. OwnTexts(texts) /\ c[1] = no => OwnTexts(u)
        <4> SUFFICES ASSUME OwnTexts(texts), c[1] = no, NEW j \in DOMAIN texts PROVE OwnText(u[j], j - 1)
          BY <3>4 DEF OwnTexts
        <4>1. CASE j = no + 1
          <5>1. u[j] = Append(texts[no + 1], c) /\ j - 1 = c[1] BY <4>1, <1>1
          <5>2. OwnText(texts[no + 1], c[1]) BY <4>1, <5>1 DEF OwnTexts
          <5> QED BY <5>1, <5>2, <3>3
        <4>2. CASE j # no + 1 BY <4>2 DEF OwnTexts
        <4> QED BY <4>1, <4>2
      <3> HIDE DEF u
      <3>6. y.no = no /\ y.texts = u /\ y \in [no : Nat, texts : TextsFor(m)] BY <3>1, <3>4
      <3> QED BY <3>5, <3>6, <1>4, <1>1
    <2> QED BY <2>2, <2>3
  <1> QED BY <1>1, <1>2, <1>3, <1>4

\* All characters of a payload.
LEMMA PayloadTypes ==
  ASSUME NEW m \in Nat, NEW no \in Nat, NEW texts \in TextsFor(m), NEW s \in Text
  PROVE  LET y == FoldLeft(Char, [no |-> no, texts |-> texts], s)
         IN  /\ y.texts \in TextsFor(m)
             /\ OwnTexts(texts) /\ OwnPayload(s, no) => OwnTexts(y.texts)
  <1> DEFINE P == Nat \X Nat
             B == [no : Nat, texts : TextsFor(m)]
             x0 == [no |-> no, texts |-> texts]
             y == FoldLeft(Char, x0, s)
  <1>1. s \in Seq(P) /\ Len(s) \in Nat
    BY DEF Text
  <1>2. x0 \in B /\ x0.no = no /\ x0.texts = texts
    OBVIOUS
  <1>3. \A x \in B : x.no \in Nat /\ x.texts \in TextsFor(m)
    OBVIOUS
  <1>4. ASSUME NEW x \in B, NEW c \in P PROVE Char(x, c) \in B
    <2> DEFINE z == Char(x, c)
    <2>1. z = Char(x, c) OBVIOUS
    <2> HIDE DEF z
    <2> QED BY <2>1, CharTypes
  <1>5. y \in B
    <2> DEFINE J == [i \in 0 .. Len(s) |-> B]
    <2>1. x0 \in J[0] /\ x0 \in B BY <1>1, <1>2
    <2>2. ASSUME NEW i \in 1 .. Len(s), NEW x \in J[i - 1], x \in B PROVE Char(x, s[i]) \in J[i]
      <3>1. i \in 0 .. Len(s) /\ s[i] \in P BY <1>1
      <3> HIDE DEF B
      <3> QED BY <2>2, <3>1, <1>4
    <2> HIDE DEF J, x0, P, B
    <2> QED BY <1>1, <1>4, <2>1, <2>2, CharsKeep
  <1>6. ASSUME OwnTexts(texts), OwnPayload(s, no) PROVE OwnTexts(y.texts)
    <2>1. PICK e \in Nat : \A i \in DOMAIN s :
             IF i <= e THEN s[i] \notin {End, Same} /\ s[i][1] = no
             ELSE IF i = e + 1 THEN s[i] = End
             ELSE s[i] \notin {End, Same} /\ s[i][1] = no + 1
      BY <1>6 DEF OwnPayload
    <2> DEFINE Own(i, x) == OwnTexts(x.texts) /\ (x.no = (IF i <= e THEN no ELSE no + 1) \/ x.no >= m + 1)
               J == [i \in 0 .. Len(s) |-> {x \in B : Own(i, x)}]
    <2>2. x0 \in J[0] /\ x0 \in B BY <1>1, <1>2, <1>6
    <2>3. ASSUME NEW i \in 1 .. Len(s), NEW x \in J[i - 1], x \in B PROVE Char(x, s[i]) \in J[i]
      <3>1. i \in 0 .. Len(s) /\ i - 1 \in 0 .. Len(s) /\ s[i] \in P /\ i \in DOMAIN s BY <1>1
      <3>2. x \in B /\ Own(i - 1, x) BY <3>1
      <3> DEFINE z == Char(x, s[i])
                 c == s[i]
      <3> HIDE DEF J, Own
      <3>3. x.no \in Nat
        BY <3>2
      <3>4. /\ z \in B
            /\ c = End => z.texts = x.texts /\ (x.no < m + 1 => z.no = x.no + 1) /\ (x.no >= m + 1 => z.no = x.no)
            /\ c \notin {End, Same} /\ OwnTexts(x.texts) /\ c[1] = x.no => OwnTexts(z.texts)
            /\ c # End => z.no = x.no
            /\ x.no >= m + 1 => z = x
        <4>1. z = Char(x, c) /\ c \in Nat \X Nat BY <3>1
        <4> HIDE DEF z, c
        <4>2. /\ z \in B
              /\ x.no >= m + 1 => z = x
              /\ x.no < m + 1 /\ c = End => z.texts = x.texts /\ z.no = x.no + 1
              /\ c \notin {End, Same} /\ OwnTexts(x.texts) /\ c[1] = x.no => OwnTexts(z.texts)
              /\ c # End => z.no = x.no
          BY <4>1, <3>2, CharTypes
        <4> QED BY <4>2, <3>3
      <3>5. x.no \in Nat /\ z.no \in Nat
        BY <3>2, <3>4
      <3>6. Own(i, z)
        <4> HIDE DEF z
        <4>1. CASE x.no >= m + 1
          <5>1. z = x BY <3>4, <4>1
          <5> QED BY <5>1, <4>1, <3>2 DEF Own
        <4>2. CASE ~(x.no >= m + 1) /\ i <= e
          <5>1. x.no = no /\ OwnTexts(x.texts) BY <4>2, <3>2 DEF Own
          <5>2. c \notin {End, Same} /\ c[1] = no BY <2>1, <3>1, <4>2
          <5> QED BY <5>1, <5>2, <3>4, <4>2 DEF Own
        <4>3. CASE ~(x.no >= m + 1) /\ i = e + 1
          <5>1. x.no = no /\ OwnTexts(x.texts) BY <4>3, <3>2 DEF Own
          <5>2. c = End BY <2>1, <3>1, <4>3
          <5> QED BY <5>1, <5>2, <3>4, <3>5, <4>3 DEF Own
        <4>4. CASE ~(x.no >= m + 1) /\ i > e + 1
          <5>1. x.no = no + 1 /\ OwnTexts(x.texts) BY <4>4, <3>2 DEF Own
          <5>2. c \notin {End, Same} /\ c[1] = no + 1 BY <2>1, <3>1, <4>4
          <5> QED BY <5>1, <5>2, <3>4, <4>4 DEF Own
        <4>5. i <= e \/ i = e + 1 \/ i > e + 1 OBVIOUS
        <4> QED BY <4>1, <4>2, <4>3, <4>4, <4>5
      <3> HIDE DEF z
      <3>7. z \in J[i] BY <3>1, <3>4, <3>6 DEF J
      <3> QED BY <3>7 DEF z
    <2>4. y \in J[Len(s)]
      <3> HIDE DEF J, x0, P, B
      <3> QED BY <1>1, <1>4, <2>2, <2>3, CharsKeep
    <2> HIDE DEF y
    <2> QED BY <2>4, <1>1
  <1> HIDE DEF y
  <1>7. y.texts \in TextsFor(m) BY <1>5, <1>3
  <1> QED BY <1>6, <1>7 DEF y

\* What has been read of the packs.
ReadTexts(m) ==
  {x \in [over : BOOLEAN, seq : Nat, TITLE : TextsFor(m), ARTIST : TextsFor(m)] : OwnTexts(x.TITLE)}

\* A pack that is read adds to the texts of the tracks it is about.
LEMMA PackRead ==
  ASSUME NEW m \in Nat, NEW x \in ReadTexts(m), NEW p \in OwnPacks
  PROVE  ReadPack(x, p) \in ReadTexts(m)
  <1> DEFINE B == [over : BOOLEAN, seq : Nat, TITLE : TextsFor(m), ARTIST : TextsFor(m)]
  <1>1. x \in B /\ OwnTexts(x.TITLE)
    BY DEF ReadTexts
  <1>2. p.kind \in {"TITLE", "ARTIST"} /\ p.no \in Nat /\ p.payload \in Text /\ p.seq \in Nat
    BY DEF OwnPacks, PackTypes
  <1>3. x.seq \in Nat /\ x.seq + 1 \in Nat /\ x.TITLE \in TextsFor(m) /\ x.ARTIST \in TextsFor(m)
    BY <1>1
  <1>4. x[p.kind] \in TextsFor(m)
    <2>1. CASE p.kind = "TITLE" BY <1>3, <2>1
    <2>2. CASE p.kind = "ARTIST" BY <1>3, <2>2
    <2> QED BY <2>1, <2>2, <1>2
  <1> DEFINE u == FoldLeft(Char, [no |-> p.no, texts |-> x[p.kind]], p.payload).texts
  <1>5. u \in TextsFor(m) /\ (OwnTexts(x[p.kind]) /\ OwnPayload(p.payload, p.no) => OwnTexts(u))
    BY <1>2, <1>4, PayloadTypes
  <1>6. ReadPack(x, p) = IF x.over \/ p.seq # x.seq THEN [x EXCEPT !.over = TRUE]
                         ELSE IF ~p.ok THEN [x EXCEPT !.seq = x.seq + 1]
                         ELSE [x EXCEPT !.seq = x.seq + 1, ![p.kind] = u]
    BY DEF ReadPack
  <1> HIDE DEF u
  <1>7. [x EXCEPT !.over = TRUE] \in ReadTexts(m)
    <2> DEFINE y == [x EXCEPT !.over = TRUE]
    <2>1. y \in B /\ y.TITLE = x.TITLE BY <1>1
    <2> QED BY <2>1, <1>1 DEF ReadTexts
  <1>8. [x EXCEPT !.seq = x.seq + 1] \in ReadTexts(m)
    <2> DEFINE y == [x EXCEPT !.seq = x.seq + 1]
    <2>1. y \in B /\ y.TITLE = x.TITLE BY <1>1, <1>3
    <2> QED BY <2>1, <1>1 DEF ReadTexts
  <1>9. [x EXCEPT !.seq = x.seq + 1, ![p.kind] = u] \in ReadTexts(m)
    <2>1. CASE p.kind = "TITLE"
      <3> DEFINE y == [x EXCEPT !.seq = x.seq + 1, !["TITLE"] = u]
      <3>1. y \in B /\ y.TITLE = u BY <1>1, <1>3, <1>5
      <3>2. OwnPayload(p.payload, p.no) BY <2>1 DEF OwnPacks
      <3>3. x[p.kind] = x.TITLE BY <2>1
      <3>4. OwnTexts(u) BY <1>1, <1>5, <3>2, <3>3
      <3>5. y \in ReadTexts(m) BY <3>1, <3>4 DEF ReadTexts
      <3> QED BY <2>1, <3>5
    <2>2. CASE p.kind = "ARTIST"
      <3> DEFINE y == [x EXCEPT !.seq = x.seq + 1, !["ARTIST"] = u]
      <3>1. y \in B /\ y.TITLE = x.TITLE BY <1>1, <1>3, <1>5
      <3>2. y \in ReadTexts(m) BY <3>1, <1>1 DEF ReadTexts
      <3> QED BY <2>2, <3>2
    <2> QED BY <2>1, <2>2, <1>2
  <1> QED BY <1>6, <1>7, <1>8, <1>9

\* So do all packs, in whatever order and however many of them are broken.
LEMMA PacksRead ==
  ASSUME NEW m \in Nat, NEW base \in ReadTexts(m), NEW s \in Seq(OwnPacks)
  PROVE  FoldLeft(ReadPack, base, s) \in ReadTexts(m)
  <1> DEFINE B == ReadTexts(m)
             J == [i \in 0 .. Len(s) |-> B]
  <1> HIDE DEF B
  <1>1. base \in J[0]
    BY DEF B
  <1>2. \A x \in B, p \in OwnPacks : ReadPack(x, p) \in B
    BY PackRead DEF B
  <1>3. ASSUME NEW i \in 1 .. Len(s), NEW x \in J[i - 1], x \in B PROVE ReadPack(x, s[i]) \in J[i]
    <2>1. i \in 0 .. Len(s) /\ s[i] \in OwnPacks OBVIOUS
    <2> QED BY <1>2, <1>3, <2>1
  <1>4. base \in B
    BY DEF B
  <1>5. FoldLeft(ReadPack, base, s) \in B
    <2> HIDE DEF J
    <2> QED BY <1>1, <1>2, <1>3, <1>4, PacksKeep
  <1> QED BY <1>5 DEF B

\* The packs of a disc name the track that they begin with.
LEMMA PacksAreOwn ==
  ASSUME NEW n \in Nat, NEW s \in Subchannels(n)
  PROVE  s \in Seq(OwnPacks)
  <1> DEFINE title(k) == Pack(k, "TITLE", k, (IF k = 0 THEN << <<0, 1>> >> ELSE <<>>) \o << <<k, 2>>, End>>
                               \o (IF k = n THEN <<>> ELSE << <<k + 1, 1>> >>))
             titles == [i \in 1 .. n + 1 |-> title(i - 1)]
             names == FlattenSeq([i \in 1 .. n |-> <<Same, End>>])
             artist == Pack(n + 1, "ARTIST", 0, ArtistOf(0) \o <<End>> \o names)
  <1>1. /\ End \in Nat \X Nat /\ Same \in Nat \X Nat
        /\ \A u, v : <<u, v>> = End => v = 8
        /\ \A u, v : <<u, v>> = Same => v = 9
    BY DEF End, Same
  <1>2. ASSUME NEW k \in 0 .. n PROVE title(k) \in OwnPacks
    <2>1. k \in Nat OBVIOUS
    <2>2. <<k, 2>> \in Nat \X Nat /\ <<k + 1, 1>> \in Nat \X Nat /\ <<0, 1>> \in Nat \X Nat
      OBVIOUS
    <2> DEFINE payload == title(k).payload
    <2>3. title(k).seq = k /\ title(k).ok = TRUE /\ title(k).kind = "TITLE" /\ title(k).no = k
          /\ title(k) = [seq |-> k, ok |-> TRUE, kind |-> "TITLE", no |-> k, payload |-> payload]
      BY DEF Pack
    <2>4. payload = CASE k = 0 /\ k = n -> << <<0, 1>>, <<k, 2>>, End>>
                      [] k = 0 /\ k # n -> << <<0, 1>>, <<k, 2>>, End, <<k + 1, 1>> >>
                      [] k # 0 /\ k = n -> << <<k, 2>>, End>>
                      [] k # 0 /\ k # n -> << <<k, 2>>, End, <<k + 1, 1>> >>
      <3> DEFINE a == <<0, 1>>
                 b == <<k, 2>>
                 c == <<k + 1, 1>>
                 P == Nat \X Nat
      <3>1. a \in P /\ b \in P /\ c \in P /\ End \in P BY <1>1, <2>2
      <3>2. payload = (IF k = 0 THEN <<a>> ELSE <<>>) \o <<b, End>> \o (IF k = n THEN <<>> ELSE <<c>>)
        BY DEF Pack
      <3> HIDE DEF a, b, c, P, payload
      <3>3. payload = CASE k = 0 /\ k = n -> <<a, b, End>>
                      [] k = 0 /\ k # n -> <<a, b, End, c>>
                      [] k # 0 /\ k = n -> <<b, End>>
                      [] k # 0 /\ k # n -> <<b, End, c>>
        <4>1. CASE k = 0 /\ k = n BY <3>1, <3>2, <4>1
        <4>2. CASE k = 0 /\ k # n
          <5>1. <<a>> \o <<b, End>> = <<a, b, End>> BY <3>1, ShortTuples
          <5>2. <<a, b, End>> \o <<c>> = <<a, b, End, c>> BY <3>1, LongerTuple
          <5> QED BY <3>2, <4>2, <5>1, <5>2
        <4>3. CASE k # 0 /\ k = n BY <3>1, <3>2, <4>3
        <4>4. CASE k # 0 /\ k # n
          <5>1. <<>> \o <<b, End>> = <<b, End>> BY <3>1
          <5>2. <<b, End>> \o <<c>> = <<b, End, c>> BY <3>1, ShortTuples
          <5> QED BY <3>2, <4>4, <5>1, <5>2
        <4> QED BY <4>1, <4>2, <4>3, <4>4
      <3> QED BY <3>3 DEF a, b, c
    <2> HIDE DEF payload
    <2>5. payload \in Text /\ OwnPayload(payload, k)
      <3>1. <<k, 2>> \notin {End, Same} /\ <<k + 1, 1>> \notin {End, Same} /\ <<0, 1>> \notin {End, Same}
        BY <1>1
      <3> DEFINE Is(e) == \A i \in DOMAIN payload :
                            IF i <= e THEN payload[i] \notin {End, Same} /\ payload[i][1] = k
                            ELSE IF i = e + 1 THEN payload[i] = End
                            ELSE payload[i] \notin {End, Same} /\ payload[i][1] = k + 1
      <3>2. CASE k = 0 /\ k = n
        <4>1. payload = << <<0, 1>>, <<k, 2>>, End>> BY <2>4, <3>2
        <4>2. payload \in Seq(Nat \X Nat) BY <4>1, <2>2, <1>1
        <4>3. Is(2) BY <4>1, <3>1, <3>2
        <4> QED BY <4>2, <4>3 DEF OwnPayload, Text
      <3>3. CASE k = 0 /\ k # n
        <4>1. payload = << <<0, 1>>, <<k, 2>>, End, <<k + 1, 1>> >> BY <2>4, <3>3
        <4>2. payload \in Seq(Nat \X Nat) BY <4>1, <2>2, <1>1
        <4>3. Is(2) BY <4>1, <3>1, <3>3
        <4> QED BY <4>2, <4>3 DEF OwnPayload, Text
      <3>4. CASE k # 0 /\ k = n
        <4>1. payload = << <<k, 2>>, End>> BY <2>4, <3>4
        <4>2. payload \in Seq(Nat \X Nat) BY <4>1, <2>2, <1>1
        <4>3. Is(1) BY <4>1, <3>1, <3>4
        <4> QED BY <4>2, <4>3 DEF OwnPayload, Text
      <3>5. CASE k # 0 /\ k # n
        <4>1. payload = << <<k, 2>>, End, <<k + 1, 1>> >> BY <2>4, <3>5
        <4>2. payload \in Seq(Nat \X Nat) BY <4>1, <2>2, <1>1
        <4>3. Is(1) BY <4>1, <3>1, <3>5
        <4> QED BY <4>2, <4>3 DEF OwnPayload, Text
      <3> QED BY <3>2, <3>3, <3>4, <3>5
    <2>6. title(k) \in PackTypes
      <3> HIDE DEF title
      <3> QED BY <2>1, <2>3, <2>5 DEF PackTypes
    <2> HIDE DEF title
    <2> QED BY <2>3, <2>5, <2>6 DEF OwnPacks
  <1>3. artist \in OwnPacks
    <2>1. names \in Seq(Nat \X Nat)
      <3> DEFINE P == Nat \X Nat
                 s1 == [i \in 1 .. n |-> <<Same, End>>]
      <3>1. <<Same, End>> \in Seq(P) BY <1>1
      <3> HIDE DEF P
      <3>2. s1 \in Seq(Seq(P)) BY <3>1
      <3> HIDE DEF s1
      <3>3. FlattenSeq(s1) \in Seq(P) BY <3>2, FlattenHas
      <3> QED BY <3>3 DEF s1, P
    <2>2. ArtistOf(0) \in Seq(Nat \X Nat) /\ <<End>> \in Seq(Nat \X Nat)
      BY TitlesAreOwn, <1>1 DEF Text
    <2> DEFINE payload == ArtistOf(0) \o <<End>> \o names
    <2> HIDE DEF names
    <2>3. payload \in Seq(Nat \X Nat)
      <3> DEFINE P == Nat \X Nat
      <3>1. ArtistOf(0) \in Seq(P) /\ <<End>> \in Seq(P) /\ names \in Seq(P) BY <2>1, <2>2
      <3> HIDE DEF P
      <3> QED BY <3>1 DEF P
    <2> HIDE DEF payload
    <2>4. artist = [seq |-> n + 1, ok |-> TRUE, kind |-> "ARTIST", no |-> 0, payload |-> payload]
      BY DEF Pack, payload
    <2>5. artist \in PackTypes /\ artist.kind = "ARTIST"
      <3> HIDE DEF artist
      <3> QED BY <2>3, <2>4 DEF PackTypes, Text
    <2> HIDE DEF artist
    <2> QED BY <2>5 DEF OwnPacks
  <1> HIDE DEF title, artist
  <1>4. titles \in Seq(OwnPacks) /\ <<artist>> \in Seq(OwnPacks)
    BY <1>2, <1>3
  <1>5. Packs(n) = titles \o <<artist>>
    BY DEF Packs, titles, title, artist, names
  <1> HIDE DEF titles
  <1>6. Packs(n) \in Seq(OwnPacks)
    BY <1>4, <1>5
  <1> DEFINE packs == Packs(n)
  <1> HIDE DEF packs
  <1>7. packs \in Seq(OwnPacks) BY <1>6 DEF packs
  <1>8. CASE s \in {<<>>, packs}
    <2>1. <<>> \in Seq(OwnPacks) BY EmptySeq
    <2> QED BY <1>7, <1>8, <2>1
  <1>9. ASSUME NEW i \in 1 .. n + 2, s = [packs EXCEPT ![i].ok = FALSE] PROVE s \in Seq(OwnPacks)
    <2>1. ASSUME NEW p \in OwnPacks PROVE [p EXCEPT !.ok = FALSE] \in OwnPacks
      <3> DEFINE q == [p EXCEPT !.ok = FALSE]
      <3>1. q \in PackTypes /\ q.kind = p.kind /\ q.no = p.no /\ q.payload = p.payload
        BY DEF OwnPacks, PackTypes
      <3> QED BY <3>1 DEF OwnPacks
    <2>2. CASE i \in DOMAIN packs
      <3> DEFINE q == [packs[i] EXCEPT !.ok = FALSE]
      <3>1. q \in OwnPacks BY <2>1, <2>2, <1>7
      <3> HIDE DEF q
      <3>2. [packs EXCEPT ![i] = q] \in Seq(OwnPacks) BY <1>7, <3>1, <2>2
      <3> QED BY <3>2, <1>9 DEF q
    <2>3. CASE i \notin DOMAIN packs
      <3>1. s = packs BY <1>7, <2>3, <1>9
      <3> QED BY <3>1, <1>7
    <2> QED BY <2>2, <2>3
  <1>10. ASSUME NEW i \in 1 .. n + 2, s = SubSeq(packs, 1, i - 1) \o SubSeq(packs, i + 1, n + 2)
         PROVE  s \in Seq(OwnPacks)
    <2>1. Len(packs) = n + 2 BY <1>4, <1>5 DEF packs, titles
    <2>2. SubSeq(packs, 1, i - 1) \in Seq(OwnPacks) BY <1>7, <2>1
    <2>3. SubSeq(packs, i + 1, n + 2) \in Seq(OwnPacks) BY <1>7, <2>1
    <2> QED BY <2>2, <2>3, <1>10
  <1>11. \/ s \in {<<>>, packs}
         \/ \E i \in 1 .. n + 2 : s = [packs EXCEPT ![i].ok = FALSE]
         \/ \E i \in 1 .. n + 2 : s = SubSeq(packs, 1, i - 1) \o SubSeq(packs, i + 1, n + 2)
    BY DEF Subchannels, packs
  <1> QED BY <1>8, <1>9, <1>10, <1>11

\* The titles of CD-TEXT go to their tracks.
LEMMA CdTextOfDisc ==
  ASSUME disc \in Discs, NEW a, OfDisc(a), NEW packs \in Subchannels(Len(Toc[disc]))
  PROVE  OfDisc(CdText(a, packs))
  <1> DEFINE m == Len(a.tracks)
             none == [i \in 1 .. m + 1 |-> <<>>]
             base == [over |-> FALSE, seq |-> 0, TITLE |-> none, ARTIST |-> none]
             read == FoldLeft(ReadPack, base, packs)
  <1>1. m \in Nat /\ DOMAIN a.tracks = 1 .. m /\ a.title \in Text /\ a.artist \in Text /\ Len(Toc[disc]) \in Nat
    BY DiscAlbum
  <1>2. none \in TextsFor(m) /\ OwnTexts(none)
    <2>1. none \in Seq(Text) /\ Len(none) = m + 1 BY <1>1, NoText
    <2> QED BY <2>1, NoTextIsOwn DEF TextsFor, OwnTexts
  <1> HIDE DEF none
  <1>3. base \in ReadTexts(m)
    BY <1>2 DEF ReadTexts
  <1> HIDE DEF base
  <1>4. read \in ReadTexts(m)
    BY <1>1, <1>3, PacksAreOwn, PacksRead
  <1> HIDE DEF read
  <1>5. /\ read.TITLE \in TextsFor(m) /\ read.ARTIST \in TextsFor(m) /\ OwnTexts(read.TITLE)
    BY <1>4 DEF ReadTexts
  <1>6. ASSUME NEW i \in 1 .. m + 1
        PROVE  read.TITLE[i] \in Text /\ read.ARTIST[i] \in Text /\ OwnText(read.TITLE[i], i - 1)
    BY <1>1, <1>5 DEF TextsFor, OwnTexts
  <1> DEFINE main == read.ARTIST[1]
             track(i) == [a.tracks[i] EXCEPT !.title = Fill(@, read.TITLE[i + 1]),
                                             !.artist = FillArtist(@, read.ARTIST[i + 1], main)]
             tracks == [i \in DOMAIN a.tracks |-> track(i)]
  <1>7. ASSUME NEW i \in DOMAIN a.tracks
        PROVE  /\ track(i) \in AlbumTracks /\ track(i).no = a.tracks[i].no
               /\ ~DataFirst => OwnText(track(i).title, track(i).no)
    <2> DEFINE t == a.tracks[i]
               x == Fill(t.title, read.TITLE[i + 1])
               y == FillArtist(t.artist, read.ARTIST[i + 1], main)
    <2>1. t \in AlbumTracks /\ i \in Nat /\ (~DataFirst => t.no = i /\ OwnText(t.title, t.no))
      BY DiscAlbum DEF Counted, OfDisc, OwnTitles
    <2>2. i + 1 \in 1 .. m + 1 /\ (i + 1) - 1 = i
      BY <1>1
    <2>3. t.title \in Text /\ t.artist \in Text
      BY <2>1 DEF AlbumTracks
    <2>4. x \in Text /\ y \in Text /\ (~DataFirst => OwnText(x, i))
      BY <2>1, <2>2, <2>3, <1>6, FillTypes
    <2>5. track(i) = [t EXCEPT !.title = x, !.artist = y]
      OBVIOUS
    <2> HIDE DEF x, y, t
    <2>6. [t EXCEPT !.title = x, !.artist = y] \in AlbumTracks
          /\ [t EXCEPT !.title = x, !.artist = y].no = t.no
          /\ [t EXCEPT !.title = x, !.artist = y].title = x
      BY <2>1, <2>4 DEF AlbumTracks
    <2> HIDE DEF track
    <2> QED BY <2>1, <2>4, <2>5, <2>6 DEF t
  <1> HIDE DEF track
  <1>8. tracks \in Seq(AlbumTracks) /\ Len(tracks) = m /\ DOMAIN tracks = DOMAIN a.tracks
    <2>1. tracks \in [1 .. m -> AlbumTracks]
      BY <1>1, <1>7
    <2> QED BY <2>1, <1>1
  <1>9. \A i \in DOMAIN tracks : tracks[i] = track(i)
    OBVIOUS
  <1>10. 1 \in 1 .. m + 1
    BY <1>1
  <1>11. Fill(a.title, read.TITLE[1]) \in Text /\ Fill(a.artist, main) \in Text
    BY <1>1, <1>6, <1>10, FillTypes
  <1> HIDE DEF tracks
  <1>12. OfDisc([title |-> Fill(a.title, read.TITLE[1]), artist |-> Fill(a.artist, main), tracks |-> tracks])
    BY <1>7, <1>8, <1>9, <1>11, Reworked
  <1>13. \/ CdText(a, packs) = a
         \/ CdText(a, packs) = [title |-> Fill(a.title, read.TITLE[1]), artist |-> Fill(a.artist, main), tracks |-> tracks]
    BY DEF CdText, tracks, track, read, base, none
  <1> QED BY <1>12, <1>13

-----------------------------------------------------------------------------
(* The cache file *)

\* What is written of an album: texts, the titles with the numbers of their tracks.
OwnEntries == {e \in FileEntries : /\ e.text # <<>>
                                   /\ ~DataFirst /\ e.kind = "title" /\ e.no # 0 => OwnText(e.text, e.no)}

\* The entries of one track, or of the album.
EntriesOf(v, no, title) ==
  /\ v \in Seq(FileEntries)
  /\ \A j \in DOMAIN v : v[j].no = no /\ v[j].text # <<>> /\ (v[j].kind = "title" => v[j].text = title)
  /\ title # <<>> => \E j \in DOMAIN v : v[j].kind = "title"

\* What is written of one track has its number and its title.
LEMMA EntryVec ==
  ASSUME NEW no \in Nat, NEW artist \in Text, NEW title \in Text
  PROVE  EntriesOf(_entry_to_vec(no, artist, title), no, title)
  <1> DEFINE ea == [kind |-> "artist", no |-> no, text |-> artist]
             et == [kind |-> "title", no |-> no, text |-> title]
             v == _entry_to_vec(no, artist, title)
  <1>1. /\ ea \in FileEntries /\ ea.kind = "artist" /\ ea.no = no /\ ea.text = artist
        /\ et \in FileEntries /\ et.kind = "title" /\ et.no = no /\ et.text = title
    BY DEF FileEntries
  <1>2. v = (IF artist = <<>> THEN <<>> ELSE <<ea>>) \o (IF title = <<>> THEN <<>> ELSE <<et>>)
    BY DEF _entry_to_vec
  <1> SUFFICES EntriesOf(v, no, title)
    OBVIOUS
  <1> HIDE DEF ea, et, v
  <1>3. CASE artist = <<>> /\ title = <<>>
    <2>1. v = <<>> BY <1>2, <1>3
    <2> QED BY <2>1, <1>3 DEF EntriesOf
  <1>4. CASE artist # <<>> /\ title = <<>>
    <2>1. v = <<ea>> BY <1>1, <1>2, <1>4
    <2> QED BY <2>1, <1>1, <1>4 DEF EntriesOf
  <1>5. CASE artist = <<>> /\ title # <<>>
    <2>1. v = <<et>> BY <1>1, <1>2, <1>5
    <2> QED BY <2>1, <1>1, <1>5 DEF EntriesOf
  <1>6. CASE artist # <<>> /\ title # <<>>
    <2>1. <<ea>> \o <<et>> = <<ea, et>> BY <1>1, PairTuple
    <2>2. v = <<ea, et>> BY <2>1, <1>2, <1>6
    <2>3. v \in Seq(FileEntries) /\ Len(v) = 2 /\ v[1] = ea /\ v[2] = et BY <2>2, <1>1
    <2> QED BY <2>3, <1>1, <1>6 DEF EntriesOf
  <1> QED BY <1>3, <1>4, <1>5, <1>6

\* A file has the texts of its album, all of them.
LEMMA EntriesOfDisc ==
  ASSUME disc \in Discs, NEW a, OfDisc(a)
  PROVE  /\ Entries(a) \in Seq(OwnEntries)
         /\ is_metadata_good_for_caching(a) =>
              /\ \E j \in DOMAIN Entries(a) : Entries(a)[j].kind = "title" /\ Entries(a)[j].no = 0
              /\ \A i \in DOMAIN a.tracks :
                   \E j \in DOMAIN Entries(a) : Entries(a)[j].kind = "title" /\ Entries(a)[j].no = a.tracks[i].no
  <1> DEFINE vec(i) == _entry_to_vec(a.tracks[i].no, a.tracks[i].artist, a.tracks[i].title)
             vecs == [i \in DOMAIN a.tracks |-> vec(i)]
             top == _entry_to_vec(0, a.artist, a.title)
             flat == FlattenSeq(vecs)
  <1>1. /\ a.title \in Text /\ a.artist \in Text /\ Len(a.tracks) \in Nat /\ DOMAIN a.tracks = 1 .. Len(a.tracks)
        /\ \A i \in DOMAIN a.tracks : a.tracks[i] \in AlbumTracks /\ a.tracks[i].no >= 1
    BY DiscAlbum
  <1>2. /\ top \in Seq(FileEntries)
        /\ \A j \in DOMAIN top : top[j].no = 0 /\ top[j].text # <<>>
        /\ a.title # <<>> => \E j \in DOMAIN top : top[j].kind = "title"
    <2>1. EntriesOf(top, 0, a.title) BY <1>1, EntryVec
    <2> HIDE DEF top
    <2> QED BY <2>1 DEF EntriesOf
  <1>3. ASSUME NEW i \in DOMAIN a.tracks
        PROVE  /\ vec(i) \in Seq(FileEntries)
               /\ \A m \in DOMAIN vec(i) : vec(i)[m].no = a.tracks[i].no /\ vec(i)[m] \in OwnEntries
               /\ a.tracks[i].title # <<>> => \E m \in DOMAIN vec(i) : vec(i)[m].kind = "title"
    <2> DEFINE t == a.tracks[i]
               v == vec(i)
    <2>1. t.no \in Nat /\ t.artist \in Text /\ t.title \in Text
      BY <1>1 DEF AlbumTracks
    <2>2. EntriesOf(v, t.no, t.title)
      BY <2>1, EntryVec
    <2>3. ~DataFirst => OwnText(t.title, t.no)
      BY DEF OfDisc, OwnTitles
    <2> HIDE DEF t, v
    <2>4. ASSUME NEW m \in DOMAIN v PROVE v[m] \in OwnEntries
      <3>1. v[m] \in FileEntries BY <2>2 DEF EntriesOf
      <3> QED BY <3>1, <2>2, <2>3 DEF OwnEntries, EntriesOf
    <2> HIDE DEF vec
    <2>5. v = vec(i) /\ t = a.tracks[i] BY DEF v, t
    <2> QED BY <2>2, <2>4, <2>5 DEF EntriesOf
  <1> HIDE DEF vec
  <1>4. vecs \in Seq(Seq(FileEntries)) /\ DOMAIN vecs = DOMAIN a.tracks
    BY <1>1, <1>3
  <1>5. \A i \in DOMAIN a.tracks : vecs[i] = vec(i)
    OBVIOUS
  <1> HIDE DEF vecs
  <1>6. /\ flat \in Seq(FileEntries)
        /\ \A j \in DOMAIN flat : \E i \in DOMAIN vecs : \E m \in DOMAIN vecs[i] : flat[j] = vecs[i][m]
        /\ \A i \in DOMAIN vecs : \A m \in DOMAIN vecs[i] : \E j \in DOMAIN flat : flat[j] = vecs[i][m]
    BY <1>4, FlattenHas
  <1> HIDE DEF flat, top
  <1>7. Entries(a) = top \o flat
    BY DEF Entries, top, flat, vecs, vec
  <1>8. \A j \in DOMAIN flat : flat[j] \in OwnEntries
    <2> TAKE j \in DOMAIN flat
    <2>1. PICK i \in DOMAIN vecs : \E m \in DOMAIN vecs[i] : flat[j] = vecs[i][m] BY <1>6
    <2>2. PICK m \in DOMAIN vecs[i] : flat[j] = vecs[i][m] BY <2>1
    <2>3. vecs[i] = vec(i) /\ i \in DOMAIN a.tracks BY <1>4, <1>5
    <2> QED BY <2>2, <2>3, <1>3
  <1>9. \A j \in DOMAIN top : top[j] \in OwnEntries
    <2> TAKE j \in DOMAIN top
    <2>1. top[j] \in FileEntries /\ top[j].no = 0 /\ top[j].text # <<>> BY <1>2
    <2> QED BY <2>1 DEF OwnEntries
  <1>10. top \in Seq(OwnEntries) /\ flat \in Seq(OwnEntries)
    <2>1. top = [j \in 1 .. Len(top) |-> top[j]] /\ DOMAIN top = 1 .. Len(top) /\ Len(top) \in Nat BY <1>2
    <2>2. flat = [j \in 1 .. Len(flat) |-> flat[j]] /\ DOMAIN flat = 1 .. Len(flat) /\ Len(flat) \in Nat BY <1>6
    <2>3. \A j \in 1 .. Len(top) : top[j] \in OwnEntries BY <2>1, <1>9
    <2>4. \A j \in 1 .. Len(flat) : flat[j] \in OwnEntries BY <2>2, <1>8
    <2> QED BY <2>1, <2>2, <2>3, <2>4
  <1> DEFINE all == top \o flat
  <1>11. /\ all \in Seq(OwnEntries) /\ DOMAIN all = 1 .. Len(top) + Len(flat)
         /\ DOMAIN top = 1 .. Len(top) /\ DOMAIN flat = 1 .. Len(flat) /\ Len(top) \in Nat /\ Len(flat) \in Nat
         /\ \A j \in 1 .. Len(top) : all[j] = top[j]
         /\ \A j \in 1 .. Len(flat) : all[Len(top) + j] = flat[j]
    BY <1>10, ConcatProperties
  <1> HIDE DEF all
  <1>12. \A j \in DOMAIN top : \E k \in DOMAIN all : all[k] = top[j]
    <2> TAKE j \in DOMAIN top
    <2>1. j \in DOMAIN all /\ all[j] = top[j] BY <1>11
    <2> QED BY <2>1
  <1>13. \A j \in DOMAIN flat : \E k \in DOMAIN all : all[k] = flat[j]
    <2> TAKE j \in DOMAIN flat
    <2>1. Len(top) + j \in DOMAIN all /\ all[Len(top) + j] = flat[j] BY <1>11
    <2> QED BY <2>1
  <1>14. ASSUME is_metadata_good_for_caching(a)
         PROVE  \E j \in DOMAIN all : all[j].kind = "title" /\ all[j].no = 0
    <2>1. PICK j \in DOMAIN top : top[j].kind = "title"
      BY <1>14, <1>2 DEF is_metadata_good_for_caching
    <2>2. PICK k \in DOMAIN all : all[k] = top[j] BY <1>12
    <2> QED BY <2>1, <2>2, <1>2
  <1>15. ASSUME is_metadata_good_for_caching(a), NEW i \in DOMAIN a.tracks
         PROVE  \E j \in DOMAIN all : all[j].kind = "title" /\ all[j].no = a.tracks[i].no
    <2>1. PICK m \in DOMAIN vec(i) : vec(i)[m].kind = "title"
      BY <1>15, <1>3 DEF is_metadata_good_for_caching
    <2>2. PICK j \in DOMAIN flat : flat[j] = vec(i)[m] BY <1>4, <1>5, <1>6
    <2>3. PICK k \in DOMAIN all : all[k] = flat[j] BY <1>13
    <2> QED BY <2>1, <2>2, <2>3, <1>3
  <1>16. Entries(a) = all
    BY <1>7 DEF all
  <1> QED BY <1>11, <1>14, <1>15, <1>16

\* What the loop over the entries has got to.
Readings == {x \in [ok : BOOLEAN, album : Albums] : OfDisc(x.album)}

\* The titles of b are those of a but for the one that the entry has.
TitledBy(b, a, e) ==
  /\ b.title = IF e.kind = "title" /\ e.no = 0 THEN e.text ELSE a.title
  /\ \A p \in DOMAIN a.tracks :
       b.tracks[p].title = IF e.kind = "title" /\ e.no = p THEN e.text ELSE a.tracks[p].title

\* An entry that is read changes the title of the track it names.
LEMMA EntryRead ==
  ASSUME disc \in Discs, NEW x \in Readings, NEW e \in OwnEntries
  PROVE  /\ ReadEntry(x, e) \in Readings
         /\ ReadEntry(x, e).ok =>
              x.ok /\ e.no <= Len(x.album.tracks) /\ TitledBy(ReadEntry(x, e).album, x.album, e)
  <1> DEFINE a == x.album
             n == Len(a.tracks)
             y == ReadEntry(x, e)
             t == a.tracks[e.no]
  <1>1. /\ x.ok \in BOOLEAN /\ a \in Albums /\ OfDisc(a) /\ x = [ok |-> x.ok, album |-> a]
        /\ a = [title |-> a.title, artist |-> a.artist, tracks |-> a.tracks]
    BY DEF Readings, Albums
  <1>2. /\ e.kind \in {"title", "artist"} /\ e.no \in Nat /\ e.text \in Text
        /\ ~DataFirst /\ e.kind = "title" /\ e.no # 0 => OwnText(e.text, e.no)
    BY DEF OwnEntries, FileEntries
  <1>3. /\ a.title \in Text /\ a.artist \in Text /\ a.tracks \in Seq(AlbumTracks) /\ n \in Nat /\ DOMAIN a.tracks = 1 .. n
        /\ \A i \in DOMAIN a.tracks : a.tracks[i] \in AlbumTracks
        /\ ~DataFirst => Counted(a) /\ OwnTitles(a)
    BY <1>1, DiscAlbum DEF OfDisc
  <1> DEFINE Made(title, artist, tracks) == [title |-> title, artist |-> artist, tracks |-> tracks]
             Read(ok, b) == [ok |-> ok, album |-> b]
             Artist2 == [no |-> t.no, title |-> t.title, artist |-> e.text, lyrics |-> t.lyrics]
             Title2 == [no |-> t.no, title |-> e.text, artist |-> t.artist, lyrics |-> t.lyrics]
  <1>4. ASSUME NEW b, OfDisc(b), NEW ok \in BOOLEAN
        PROVE  Read(ok, b) \in Readings /\ Read(ok, b).ok = ok /\ Read(ok, b).album = b
    BY <1>4 DEF Readings, OfDisc
  <1>5. CASE ~x.ok
    <2>1. y = x BY <1>5 DEF ReadEntry
    <2> QED BY <2>1, <1>5
  <1>6. CASE x.ok /\ e.no = 0 /\ e.kind = "artist"
    <2>1. y = Read(TRUE, Made(a.title, e.text, a.tracks))
      <3>1. y = [x EXCEPT !.album.artist = e.text]
        BY <1>6 DEF ReadEntry
      <3>2. y = [x EXCEPT !.album = [a EXCEPT !.artist = e.text]]
        BY <3>1
      <3>3. [a EXCEPT !.artist = e.text] = Made(a.title, e.text, a.tracks)
        BY <1>1, <1>3 DEF Albums
      <3> HIDE DEF Made
      <3> QED BY <3>2, <3>3, <1>1, <1>6 DEF Readings
    <2> DEFINE b == Made(a.title, e.text, a.tracks)
    <2>2. b.title = a.title /\ b.tracks = a.tracks OBVIOUS
    <2>3. OfDisc(b)
      BY <1>1, <1>2, <1>3, Reworked DEF OfDisc, OwnTitles
    <2> HIDE DEF b, Read, y
    <2>4. y = Read(TRUE, b) BY <2>1 DEF b
    <2>5. y \in Readings /\ y.album = b BY <2>3, <2>4, <1>4
    <2> QED BY <1>2, <1>3, <1>6, <2>2, <2>5 DEF TitledBy, y
  <1>7. CASE x.ok /\ e.no = 0 /\ e.kind = "title"
    <2>1. y = Read(TRUE, Made(e.text, a.artist, a.tracks))
      <3>1. y = [x EXCEPT !.album.title = e.text]
        BY <1>7 DEF ReadEntry
      <3>2. y = [x EXCEPT !.album = [a EXCEPT !.title = e.text]]
        BY <3>1
      <3>3. [a EXCEPT !.title = e.text] = Made(e.text, a.artist, a.tracks)
        BY <1>1, <1>3 DEF Albums
      <3> HIDE DEF Made
      <3> QED BY <3>2, <3>3, <1>1, <1>7 DEF Readings
    <2> DEFINE b == Made(e.text, a.artist, a.tracks)
    <2>2. b.title = e.text /\ b.tracks = a.tracks OBVIOUS
    <2>3. OfDisc(b)
      BY <1>1, <1>2, <1>3, Reworked DEF OfDisc, OwnTitles
    <2> HIDE DEF b, Read, y
    <2>4. y = Read(TRUE, b) BY <2>1 DEF b
    <2>5. y \in Readings /\ y.album = b BY <2>3, <2>4, <1>4
    <2> QED BY <1>2, <1>3, <1>7, <2>2, <2>5 DEF TitledBy, y
  <1>8. CASE x.ok /\ e.no > n
    <2>1. e.no # 0 BY <1>2, <1>3, <1>8
    <2>2. y = Read(FALSE, a)
      <3>1. y = [x EXCEPT !.ok = FALSE]
        BY <1>8, <2>1 DEF ReadEntry
      <3> QED BY <3>1 DEF Readings
    <2> HIDE DEF Read, y, a
    <2>3. y \in Readings /\ y.ok = FALSE BY <2>2, <1>1, <1>4
    <2> QED BY <2>3 DEF y
  <1>9. ASSUME e.no \in 1 .. n, NEW u \in AlbumTracks, u.no = t.no, ~DataFirst => OwnText(u.title, u.no)
        PROVE  /\ OfDisc(Made(a.title, a.artist, [a.tracks EXCEPT ![e.no] = u]))
               /\ \A p \in DOMAIN a.tracks : [a.tracks EXCEPT ![e.no] = u][p].title = IF p = e.no THEN u.title ELSE a.tracks[p].title
    <2> DEFINE tracks == [a.tracks EXCEPT ![e.no] = u]
    <2>1. tracks \in Seq(AlbumTracks) /\ Len(tracks) = n /\ DOMAIN tracks = 1 .. n
          /\ \A i \in 1 .. n : tracks[i] = IF i = e.no THEN u ELSE a.tracks[i]
      BY <1>3, <1>9
    <2> HIDE DEF tracks
    <2>2. \A i \in DOMAIN tracks : tracks[i].no = a.tracks[i].no
      BY <2>1, <1>9
    <2>3. ASSUME ~DataFirst, NEW i \in DOMAIN tracks PROVE OwnText(tracks[i].title, tracks[i].no)
      <3>1. CASE i = e.no
        <4>1. tracks[i] = u BY <2>1, <3>1
        <4> QED BY <4>1, <1>9, <2>3
      <3>2. CASE i # e.no
        <4>1. tracks[i] = a.tracks[i] /\ i \in DOMAIN a.tracks BY <1>3, <2>1, <3>2
        <4>2. OwnText(a.tracks[i].title, a.tracks[i].no)
          <5>1. OwnTitles(a) BY <1>3, <2>3
          <5> QED BY <4>1, <5>1 DEF OwnTitles
        <4> QED BY <4>1, <4>2
      <3> QED BY <3>1, <3>2
    <2>4. OfDisc(Made(a.title, a.artist, tracks))
      <3>1. OfDisc(a) /\ a.title \in Text /\ a.artist \in Text
        BY <1>1, <1>3
      <3>2. tracks \in Seq(AlbumTracks) /\ Len(tracks) = Len(a.tracks)
        BY <2>1
      <3> HIDE DEF a, n, t
      <3> QED BY <3>1, <3>2, <2>2, <2>3, Reworked
    <2> QED BY <2>1, <2>4, <1>3 DEF tracks
  <1>10. CASE x.ok /\ e.no \in 1 .. n /\ e.kind = "artist"
    <2> DEFINE tracks == [a.tracks EXCEPT ![e.no] = Artist2]
               b == Made(a.title, a.artist, tracks)
    <2>1. t \in AlbumTracks /\ Artist2 \in AlbumTracks /\ Artist2.no = t.no /\ Artist2.title = t.title
          /\ [t EXCEPT !.artist = e.text] = Artist2
      BY <1>2, <1>3, <1>10 DEF AlbumTracks
    <2>2. y = Read(TRUE, b)
      <3>1. y = [x EXCEPT !.album.tracks[e.no].artist = e.text]
        BY <1>3, <1>10 DEF ReadEntry
      <3>2. y = [x EXCEPT !.album = [a EXCEPT !.tracks = [a.tracks EXCEPT ![e.no] = [t EXCEPT !.artist = e.text]]]]
        BY <3>1
      <3>3. y = [x EXCEPT !.album = [a EXCEPT !.tracks = tracks]]
        BY <3>2, <2>1
      <3> HIDE DEF tracks
      <3> QED BY <3>3, <1>1, <1>10 DEF Readings, Albums
    <2>3. ~DataFirst => OwnText(Artist2.title, Artist2.no)
      BY <2>1, <1>3, <1>10 DEF OwnTitles
    <2> HIDE DEF Artist2
    <2>4. OfDisc(b) /\ \A p \in DOMAIN a.tracks : tracks[p].title = a.tracks[p].title
      BY <2>1, <2>3, <1>9, <1>10
    <2>5. b.title = a.title /\ b.tracks = tracks OBVIOUS
    <2> HIDE DEF b, Read, y
    <2>6. y \in Readings /\ y.album = b BY <2>2, <2>4, <1>4
    <2> HIDE DEF tracks, t
    <2> QED BY <1>2, <1>3, <1>10, <2>4, <2>5, <2>6 DEF TitledBy, y
  <1>11. CASE x.ok /\ e.no \in 1 .. n /\ e.kind = "title"
    <2> DEFINE tracks == [a.tracks EXCEPT ![e.no] = Title2]
               b == Made(a.title, a.artist, tracks)
    <2>1. t \in AlbumTracks /\ Title2 \in AlbumTracks /\ Title2.no = t.no /\ Title2.title = e.text
          /\ [t EXCEPT !.title = e.text] = Title2
      BY <1>2, <1>3, <1>11 DEF AlbumTracks
    <2>2. y = Read(TRUE, b)
      <3>1. y = [x EXCEPT !.album.tracks[e.no].title = e.text]
        BY <1>3, <1>11 DEF ReadEntry
      <3>2. y = [x EXCEPT !.album = [a EXCEPT !.tracks = [a.tracks EXCEPT ![e.no] = [t EXCEPT !.title = e.text]]]]
        BY <3>1
      <3>3. y = [x EXCEPT !.album = [a EXCEPT !.tracks = tracks]]
        BY <3>2, <2>1
      <3> HIDE DEF tracks
      <3> QED BY <3>3, <1>1, <1>11 DEF Readings, Albums
    <2>3. ~DataFirst => OwnText(Title2.title, Title2.no)
      BY <2>1, <1>2, <1>3, <1>11, SMTT(30) DEF Counted
    <2> HIDE DEF Title2
    <2>4. OfDisc(b) /\ \A p \in DOMAIN a.tracks : tracks[p].title = IF p = e.no THEN e.text ELSE a.tracks[p].title
      BY <2>1, <2>3, <1>9, <1>11
    <2>5. b.title = a.title /\ b.tracks = tracks OBVIOUS
    <2> HIDE DEF b, Read, y
    <2>6. y \in Readings /\ y.album = b BY <2>2, <2>4, <1>4
    <2> HIDE DEF tracks, t
    <2> QED BY <1>2, <1>3, <1>11, <2>4, <2>5, <2>6 DEF TitledBy, y
  <1>12. e.no = 0 \/ e.no > n \/ e.no \in 1 .. n
    BY <1>2, <1>3
  <1> QED BY <1>1, <1>2, <1>5, <1>6, <1>7, <1>8, <1>10, <1>11, <1>12

\* Numbers that ascend from 1 on and do not go beyond how many they are: the places.
LEMMA PlacesAreNumbers ==
  ASSUME disc \in Discs, NEW a, OfDisc(a), \A i \in DOMAIN a.tracks : a.tracks[i].no <= Len(a.tracks)
  PROVE  Counted(a)
  <1> DEFINE n == Len(a.tracks)
             No(i) == a.tracks[i].no
             Up == {i \in Nat : i \in 1 .. n => No(i) >= i}
             Down == {k \in Nat : n - k \in 1 .. n => No(n - k) <= n - k}
  <1>1. /\ n \in Nat /\ DOMAIN a.tracks = 1 .. n
        /\ \A i \in 1 .. n : No(i) \in Nat /\ No(i) >= 1 /\ No(i) <= n
        /\ \A i, j \in 1 .. n : i < j => No(i) < No(j)
    <2>1. n \in Nat /\ DOMAIN a.tracks = 1 .. n BY DiscAlbum
    <2>2. ASSUME NEW i \in 1 .. n PROVE No(i) \in Nat /\ No(i) >= 1 /\ No(i) <= n
      <3>1. a.tracks[i] \in AlbumTracks /\ a.tracks[i].no >= 1 BY <2>1, DiscAlbum
      <3> QED BY <3>1, <2>1 DEF AlbumTracks
    <2>3. \A i, j \in 1 .. n : i < j => No(i) < No(j) BY <2>1, DiscAlbum
    <2> QED BY <2>1, <2>2, <2>3
  <1> HIDE DEF No, n
  <1>2. \A i \in Nat : i \in Up
    <2>1. 0 \in Up
      OBVIOUS
    <2>2. ASSUME NEW i \in Nat, i \in Up PROVE i + 1 \in Up
      <3> SUFFICES ASSUME i + 1 \in 1 .. n PROVE No(i + 1) >= i + 1
        OBVIOUS
      <3>1. CASE i = 0 BY <3>1, <1>1
      <3>2. CASE i # 0
        <4>1. i \in 1 .. n /\ No(i) >= i BY <3>2, <2>2, <1>1
        <4>2. No(i) < No(i + 1) BY <4>1, <1>1
        <4> QED BY <4>1, <4>2, <1>1
      <3> QED BY <3>1, <3>2
    <2> HIDE DEF Up
    <2> QED BY <2>1, <2>2, Counting
  <1>3. \A k \in Nat : k \in Down
    <2>1. 0 \in Down
      BY <1>1
    <2>2. ASSUME NEW k \in Nat, k \in Down PROVE k + 1 \in Down
      <3> SUFFICES ASSUME n - (k + 1) \in 1 .. n PROVE No(n - (k + 1)) <= n - (k + 1)
        OBVIOUS
      <3> DEFINE i == n - (k + 1)
      <3>1. i \in 1 .. n /\ i + 1 \in 1 .. n /\ n - k = i + 1 BY <1>1
      <3>2. No(i + 1) <= i + 1 BY <2>2, <3>1
      <3>3. No(i) < No(i + 1) BY <3>1, <1>1
      <3>4. No(i) \in Nat /\ No(i + 1) \in Nat BY <3>1, <1>1
      <3> HIDE DEF i
      <3>5. No(i) <= i BY <3>1, <3>2, <3>3, <3>4
      <3> QED BY <3>5 DEF i
    <2> HIDE DEF Down
    <2> QED BY <2>1, <2>2, Counting
  <1>4. ASSUME NEW i \in 1 .. n PROVE No(i) = i
    <2>1. i \in Nat /\ n - i \in Nat /\ n - (n - i) = i BY <1>1
    <2>2. No(i) >= i BY <2>1, <1>2
    <2>3. No(i) <= i BY <2>1, <1>3
    <2> QED BY <2>1, <2>2, <2>3, <1>1
  <1> QED BY <1>1, <1>4 DEF Counted, No

\* What is read from a file that has a good album of the disc is one; but when the
\* numbers of the tracks are not their places, the reading ends at the last of them.
THEOREM FileRead ==
  ASSUME disc \in Discs, NEW a, OfDisc(a), NEW from, OfDisc(from), is_metadata_good_for_caching(from)
  PROVE  /\ OfDisc(ReadEntries(a, Entries(from)).album)
         /\ ReadEntries(a, Entries(from)).ok => is_metadata_good_for_caching(ReadEntries(a, Entries(from)).album)
  <1> DEFINE s == Entries(from)
             n == Len(Album(Toc[disc]).tracks)
             HasTitle(b, no) == IF no = 0 THEN b.title # <<>> ELSE b.tracks[no].title # <<>>
             Read(x, i) == x.ok => \A j \in 1 .. i : /\ s[j].no <= n
                                                     /\ s[j].kind = "title" => HasTitle(x.album, s[j].no)
             J == [i \in 0 .. Len(s) |-> {x \in Readings : Read(x, i)}]
             base == [ok |-> TRUE, album |-> a]
             end == ReadEntries(a, s)
  <1>1. /\ s \in Seq(OwnEntries) /\ Len(s) \in Nat /\ DOMAIN s = 1 .. Len(s)
        /\ \E j \in DOMAIN s : s[j].kind = "title" /\ s[j].no = 0
        /\ \A i \in DOMAIN from.tracks : \E j \in DOMAIN s : s[j].kind = "title" /\ s[j].no = from.tracks[i].no
    BY EntriesOfDisc
  <1> HIDE DEF s
  <1>2. ASSUME NEW b, OfDisc(b)
        PROVE  n \in Nat /\ Len(b.tracks) = n /\ DOMAIN b.tracks = 1 .. n /\ b \in Albums
    BY <1>2, DiscAlbum DEF OfDisc, SameTracks
  <1>3. n \in Nat
    BY <1>2
  <1> HIDE DEF n
  <1>4. base \in Readings
    BY <1>2 DEF Readings
  <1>5. base \in J[0]
    BY <1>1, <1>4
  <1>6. \A x \in Readings, e \in OwnEntries : ReadEntry(x, e) \in Readings
    BY EntryRead
  <1>7. ASSUME NEW i \in 1 .. Len(s), NEW x \in J[i - 1], x \in Readings PROVE ReadEntry(x, s[i]) \in J[i]
    <2> DEFINE e == s[i]
               y == ReadEntry(x, e)
    <2>1. i \in 0 .. Len(s) /\ i - 1 \in 0 .. Len(s) /\ e \in OwnEntries BY <1>1
    <2>2. Read(x, i - 1) BY <2>1, <1>7
    <2>3. y \in Readings BY <2>1, <1>6, <1>7
    <2>4. y.ok => x.ok /\ e.no <= Len(x.album.tracks) /\ TitledBy(y.album, x.album, e)
      BY <2>1, <1>7, EntryRead
    <2>5. Len(x.album.tracks) = n /\ DOMAIN x.album.tracks = 1 .. n
      <3>1. OfDisc(x.album) BY <1>7 DEF Readings
      <3> QED BY <3>1, <1>2
    <2>6. e.text # <<>> /\ e.no \in Nat /\ e.kind \in {"title", "artist"} BY <2>1 DEF OwnEntries, FileEntries
    <2> HIDE DEF y, J
    <2>7. ASSUME y.ok, NEW j \in 1 .. i
          PROVE  s[j].no <= n /\ (s[j].kind = "title" => HasTitle(y.album, s[j].no))
      <3>1. x.ok /\ e.no <= n /\ TitledBy(y.album, x.album, e) BY <2>4, <2>5, <2>7
      <3>2. s[j].no \in Nat
        <4>1. s[j] \in OwnEntries BY <1>1
        <4> QED BY <4>1 DEF OwnEntries, FileEntries
      <3>3. CASE j = i
        <4>1. s[j] = e BY <3>3
        <4> HIDE DEF e
        <4>2. e.kind = "title" => HasTitle(y.album, e.no)
          <5> SUFFICES ASSUME e.kind = "title" PROVE HasTitle(y.album, e.no)
            OBVIOUS
          <5>1. CASE e.no = 0 BY <5>1, <3>1, <2>6 DEF TitledBy
          <5>2. CASE e.no # 0
            <6>1. e.no \in 1 .. n BY <5>2, <3>1, <2>6, <1>3
            <6>2. y.album.tracks[e.no].title = e.text BY <6>1, <3>1, <2>5 DEF TitledBy
            <6> QED BY <6>2, <5>2, <2>6
          <5> QED BY <5>1, <5>2
        <4> QED BY <4>1, <4>2, <3>1
      <3>4. CASE j # i
        <4>1. j \in 1 .. i - 1 BY <3>4
        <4>2. s[j].no <= n /\ (s[j].kind = "title" => HasTitle(x.album, s[j].no)) BY <4>1, <3>1, <2>2
        <4> DEFINE no == s[j].no
        <4>3. no \in Nat /\ no <= n /\ (s[j].kind = "title" => HasTitle(x.album, no)) BY <4>2, <3>2
        <4> HIDE DEF no, e
        <4>4. HasTitle(x.album, no) => HasTitle(y.album, no)
          <5>1. CASE no = 0 BY <5>1, <3>1, <2>6 DEF TitledBy
          <5>2. CASE no # 0
            <6>1. no \in DOMAIN x.album.tracks BY <5>2, <4>3, <2>5, <1>3
            <6>2. y.album.tracks[no].title = IF e.kind = "title" /\ e.no = no THEN e.text ELSE x.album.tracks[no].title
              BY <6>1, <3>1 DEF TitledBy
            <6> QED BY <6>2, <5>2, <2>6
          <5> QED BY <5>1, <5>2
        <4> HIDE DEF HasTitle
        <4> QED BY <4>3, <4>4 DEF no
      <3> QED BY <3>3, <3>4
    <2>8. Read(y, i) BY <2>7
    <2> HIDE DEF Read
    <2>9. y \in J[i] BY <2>1, <2>3, <2>8 DEF J
    <2> QED BY <2>9 DEF y
  <1>8. end \in Readings /\ end \in J[Len(s)]
    <2> HIDE DEF J
    <2> QED BY <1>1, <1>4, <1>5, <1>6, <1>7, ReadEntriesKeep
  <1> HIDE DEF end
  <1>9. Read(end, Len(s))
    <2>1. Len(s) \in 0 .. Len(s) BY <1>1
    <2> HIDE DEF Read
    <2> QED BY <1>8, <2>1
  <1>10. OfDisc(end.album)
    BY <1>8 DEF Readings
  <1>11. ASSUME end.ok PROVE is_metadata_good_for_caching(end.album)
    <2>1. \A j \in DOMAIN s : s[j].no <= n /\ (s[j].kind = "title" => HasTitle(end.album, s[j].no))
      BY <1>1, <1>9, <1>11
    <2>2. end.album.title # <<>>
      BY <1>1, <2>1
    <2>3. ASSUME NEW i \in DOMAIN from.tracks PROVE from.tracks[i].no <= Len(from.tracks)
      <3>1. PICK j \in DOMAIN s : s[j].kind = "title" /\ s[j].no = from.tracks[i].no BY <1>1
      <3>2. Len(from.tracks) = n BY <1>2
      <3> QED BY <3>1, <3>2, <2>1
    <2>4. Counted(from)
      BY <2>3, PlacesAreNumbers
    <2>5. ASSUME NEW i \in DOMAIN end.album.tracks PROVE end.album.tracks[i].title # <<>>
      <3>1. i \in 1 .. n /\ i \in DOMAIN from.tracks BY <1>2, <1>10
      <3>2. PICK j \in DOMAIN s : s[j].kind = "title" /\ s[j].no = from.tracks[i].no BY <3>1, <1>1
      <3>3. from.tracks[i].no = i /\ i # 0 BY <2>4, <3>1 DEF Counted
      <3> QED BY <3>2, <3>3, <2>1
    <2> QED BY <2>2, <2>5 DEF is_metadata_good_for_caching
  <1> QED BY <1>10, <1>11 DEF end, s

-----------------------------------------------------------------------------
(* The lines of the CDDB server *)

LineKeys == {"Track_frame_offsets", "offset", "Disc_length", "Revision", "DTITLE", "DYEAR", "DGENRE",
             "TTITLE", "EXTD", "EXTT", "PLAYORDER", ".", "match", "NULL", "junk", "200", "201", "202",
             "210", "211", "401", "403", "431", "433", "501"}
Lines == [key : LineKeys, no : Nat, artist : Text, text : Text]

\* A line with the title of a track of the disc has a part of just that.
OwnLines == {l \in Lines : l.key = "TTITLE" /\ l.no < Len(Toc[disc]) => OwnText(l.text, l.no + 1)}

\* A line that has no title of another track.
LEMMA LineIsOwn ==
  ASSUME NEW key \in LineKeys, NEW no \in Nat, NEW artist \in Text, NEW text \in Text,
         key = "TTITLE" => OwnText(text, no + 1) \/ ~(no < Len(Toc[disc]))
  PROVE  Line(key, no, artist, text) \in OwnLines
  <1> DEFINE l == Line(key, no, artist, text)
  <1>1. l \in Lines /\ l.key = key /\ l.no = no /\ l.text = text
    BY DEF Line, Lines
  <1> HIDE DEF l
  <1>2. l \in OwnLines
    BY <1>1 DEF OwnLines
  <1> QED BY <1>2 DEF l

\* A line without a title.
LEMMA PlainIsOwn ==
  ASSUME NEW key \in LineKeys \ {"TTITLE"}
  PROVE  Plain(key) \in OwnLines /\ <<Plain(key)>> \in Seq(OwnLines)
  <1>1. Plain(key) \in OwnLines
    BY NoText, LineIsOwn DEF Plain
  <1> QED BY <1>1

\* The parts of a title put together.
LEMMA TextsConcat ==
  ASSUME NEW s \in Text, NEW t \in Text
  PROVE  s \o t \in Text /\ \A no : OwnText(s, no) /\ OwnText(t, no) => OwnText(s \o t, no)
  <1> DEFINE P == Nat \X Nat
             r == s \o t
  <1>1. s \in Seq(P) /\ t \in Seq(P)
    BY DEF Text
  <1> HIDE DEF P
  <1>2. /\ r \in Seq(P) /\ Len(r) = Len(s) + Len(t) /\ DOMAIN r = 1 .. Len(s) + Len(t)
        /\ DOMAIN s = 1 .. Len(s) /\ DOMAIN t = 1 .. Len(t) /\ Len(s) \in Nat /\ Len(t) \in Nat
        /\ \A i \in 1 .. Len(s) + Len(t) : r[i] = IF i <= Len(s) THEN s[i] ELSE t[i - Len(s)]
    BY <1>1, ConcatProperties
  <1> HIDE DEF r
  <1>3. ASSUME NEW no, OwnText(s, no), OwnText(t, no) PROVE OwnText(r, no)
    <2> SUFFICES ASSUME NEW i \in DOMAIN r PROVE r[i][1] = no
      BY DEF OwnText
    <2>1. CASE i <= Len(s) BY <2>1, <1>2, <1>3 DEF OwnText
    <2>2. CASE ~(i <= Len(s))
      <3>1. i - Len(s) \in DOMAIN t /\ r[i] = t[i - Len(s)] BY <2>2, <1>2
      <3> QED BY <3>1, <1>3 DEF OwnText
    <2> QED BY <2>1, <2>2
  <1>4. r \in Text
    BY <1>2 DEF Text, P
  <1> QED BY <1>3, <1>4 DEF r

\* What is left of a text that is cut off is of the same track.
LEMMA CutIsOwn ==
  ASSUME NEW text \in Text
  PROVE  Cut(text) \in Text /\ \A no : OwnText(text, no) => OwnText(Cut(text), no)
  <1> DEFINE P == Nat \X Nat
  <1>1. text \in Seq(P)
    BY DEF Text
  <1>2. CASE text = <<>>
    BY <1>2 DEF Cut
  <1>3. CASE text # <<>>
    <2> DEFINE n == Len(text)
               f == SubSeq(text, 1, n - 1)
               c == <<text[n][1], 0>>
               r == Append(f, c)
    <2>1. n \in Nat /\ n >= 1 /\ DOMAIN text = 1 .. n BY <1>1, <1>3
    <2>2. Cut(text) = r
      BY <1>3 DEF Cut, Front, Last, CutShort
    <2>3. c \in P /\ c[1] = text[n][1]
      <3>1. text[n] \in P BY <1>1, <2>1
      <3> QED BY <3>1
    <2> HIDE DEF P, c
    <2>4. f \in Seq(P) /\ Len(f) = n - 1 /\ \A i \in 1 .. n - 1 : f[i] = text[i]
      BY <1>1, <2>1
    <2> HIDE DEF f, n
    <2>5. r \in Seq(P) /\ DOMAIN r = 1 .. n /\ r[n] = c /\ \A i \in 1 .. n - 1 : r[i] = text[i]
      BY <2>1, <2>3, <2>4
    <2> HIDE DEF r
    <2>6. ASSUME NEW no, OwnText(text, no) PROVE OwnText(r, no)
      <3> SUFFICES ASSUME NEW i \in 1 .. n PROVE r[i][1] = no
        BY <2>5 DEF OwnText
      <3>1. CASE i = n
        <4>1. n \in DOMAIN text BY <2>1
        <4>2. text[n][1] = no BY <4>1, <2>6 DEF OwnText
        <4> QED BY <3>1, <2>3, <2>5, <4>2
      <3>2. CASE i # n
        <4>1. i \in 1 .. n - 1 /\ i \in DOMAIN text BY <3>2, <2>1
        <4>2. r[i] = text[i] BY <4>1, <2>5
        <4> QED BY <4>1, <4>2, <2>6 DEF OwnText
      <3> QED BY <3>1, <3>2
    <2>7. r \in Text BY <2>5 DEF Text, P
    <2> QED BY <2>2, <2>6, <2>7
  <1> QED BY <1>2, <1>3

\* A title on two lines.
LEMMA LongTitleIsOwn ==
  ASSUME NEW key \in LineKeys, NEW no \in Nat, NEW of \in Nat, key = "TTITLE" => of = no + 1
  PROVE  LongTitle(key, no, of) \in Seq(OwnLines)
  <1> DEFINE a == << <<of, 1>> >>
             b == << <<of, 2>> >>
  <1>1. a \in Text /\ b \in Text /\ OwnText(a, of) /\ OwnText(b, of)
    BY DEF Text, OwnText
  <1> HIDE DEF a, b
  <1>2. Line(key, no, <<>>, a) \in OwnLines /\ Line(key, no, <<>>, b) \in OwnLines
    BY <1>1, NoText, LineIsOwn
  <1>3. LongTitle(key, no, of) = <<Line(key, no, <<>>, a), Line(key, no, <<>>, b)>>
    BY DEF LongTitle, a, b
  <1> QED BY <1>2, <1>3

\* The entries of the database, for a disc of as many tracks.
LEMMA EntriesAreOwn ==
  ASSUME disc \in Discs, NEW n, n = Len(Toc[disc]),
         NEW s \in {DiscEntry(n), Sampler(n), TooManyTitles(n), TooManyNotes(n)}
  PROVE  s \in Seq(OwnLines)
  <1> DEFINE L == OwnLines
  <1>1. n \in Nat
    BY MetadataAssumption
  <1>2. /\ TitleOf(0) \in Text /\ ArtistOf(0) \in Text /\ << <<0, 1>> >> \in Text /\ << <<0, 2>> >> \in Text /\ <<>> \in Text
        /\ TitleOf(n) \in Text /\ 0 \in Nat
    <2>1. << <<0, 1>> >> \in Text /\ << <<0, 2>> >> \in Text BY DEF Text
    <2> QED BY <2>1, <1>1, NoText, TitlesAreOwn
  <1>3. ASSUME NEW i \in 1 .. n
        PROVE  /\ i - 1 \in Nat /\ i \in Nat /\ (i - 1) + 1 = i
               /\ TitleOf(i) \in Text /\ ArtistOf(i) \in Text /\ OwnText(TitleOf(i), i)
    BY <1>1, TitlesAreOwn
  <1>4. Top(n) \in Seq(L)
    <2> DEFINE offsets == Times(n, Plain("offset"))
    <2>1. <<Plain("Track_frame_offsets")>> \in Seq(L) /\ Plain("offset") \in L BY PlainIsOwn DEF LineKeys
    <2>2. <<Plain("Disc_length"), Plain("Revision")>> \in Seq(L)
      <3>1. Plain("Disc_length") \in L /\ Plain("Revision") \in L BY PlainIsOwn DEF LineKeys
      <3> HIDE DEF L
      <3> QED BY <3>1
    <2>3. offsets \in Seq(L) BY <2>1, <1>1 DEF Times
    <2> HIDE DEF L, offsets
    <2>4. (<<Plain("Track_frame_offsets")>> \o offsets) \o <<Plain("Disc_length"), Plain("Revision")>> \in Seq(L)
      BY <2>1, <2>2, <2>3
    <2> QED BY <2>4 DEF Top, offsets
  <1>5. Bottom \in Seq(L)
    <2>1. Plain("PLAYORDER") \in L /\ Plain(".") \in L BY PlainIsOwn DEF LineKeys
    <2> HIDE DEF L
    <2> QED BY <2>1 DEF Bottom
  <1>6. DiscEntry(n) \in Seq(L)
    <2> DEFINE head == <<Line("DTITLE", 0, ArtistOf(0), << <<0, 1>> >>), Line("DTITLE", 0, <<>>, << <<0, 2>> >>),
                         Plain("DYEAR"), Plain("DGENRE")>>
               each == [i \in 1 .. n |-> LongTitle("TTITLE", i - 1, i)]
               notes == [i \in 1 .. n |-> Line("EXTT", i - 1, <<>>, <<>>)]
    <2>1. head \in Seq(L)
      <3>1. Line("DTITLE", 0, ArtistOf(0), << <<0, 1>> >>) \in L /\ Line("DTITLE", 0, <<>>, << <<0, 2>> >>) \in L
        BY <1>2, LineIsOwn DEF LineKeys
      <3>2. Plain("DYEAR") \in L /\ Plain("DGENRE") \in L BY PlainIsOwn DEF LineKeys
      <3> HIDE DEF L
      <3> QED BY <3>1, <3>2
    <2>2. each \in Seq(Seq(L))
      <3>1. ASSUME NEW i \in 1 .. n PROVE LongTitle("TTITLE", i - 1, i) \in Seq(L)
        BY <1>3, LongTitleIsOwn DEF LineKeys
      <3> HIDE DEF L
      <3> QED BY <3>1, <1>1
    <2>3. FlattenSeq(each) \in Seq(L)
      <3> HIDE DEF L, each
      <3> QED BY <2>2, FlattenHas
    <2>4. <<Plain("EXTD")>> \in Seq(L) BY PlainIsOwn DEF LineKeys
    <2>5. notes \in Seq(L)
      <3>1. ASSUME NEW i \in 1 .. n PROVE Line("EXTT", i - 1, <<>>, <<>>) \in L
        BY <1>2, <1>3, LineIsOwn DEF LineKeys
      <3> HIDE DEF L
      <3> QED BY <3>1, <1>1
    <2>6. DiscEntry(n) = Top(n) \o head \o FlattenSeq(each) \o <<Plain("EXTD")>> \o notes \o Bottom
      BY DEF DiscEntry
    <2> HIDE DEF L, head, each, notes
    <2> QED BY <2>1, <2>3, <2>4, <2>5, <2>6, <1>4, <1>5
  <1>7. Sampler(n) \in Seq(L)
    <2> DEFINE titles == [i \in 1 .. n |-> Line("TTITLE", i - 1, ArtistOf(i), TitleOf(i))]
    <2>1. LongTitle("DTITLE", 0, 0) \in Seq(L) BY LongTitleIsOwn DEF LineKeys
    <2>2. titles \in Seq(L)
      <3>1. ASSUME NEW i \in 1 .. n PROVE Line("TTITLE", i - 1, ArtistOf(i), TitleOf(i)) \in L
        BY <1>3, LineIsOwn DEF LineKeys
      <3> HIDE DEF L
      <3> QED BY <3>1, <1>1
    <2>3. Sampler(n) = Top(n) \o LongTitle("DTITLE", 0, 0) \o titles \o Bottom
      BY DEF Sampler
    <2> HIDE DEF L, titles
    <2> QED BY <2>1, <2>2, <2>3, <1>4, <1>5
  <1>8. TooManyTitles(n) \in Seq(L) /\ TooManyNotes(n) \in Seq(L)
    <2> DEFINE a == Line("DTITLE", 0, ArtistOf(0), TitleOf(0))
               b == Line("TTITLE", n, <<>>, TitleOf(n))
               c == Line("EXTT", n, <<>>, <<>>)
    <2>1. a \in L /\ c \in L BY <1>1, <1>2, LineIsOwn DEF LineKeys
    <2>2. b \in L
      <3>1. ~(n < Len(Toc[disc])) BY <1>1
      <3> QED BY <3>1, <1>1, <1>2, LineIsOwn DEF LineKeys
    <2>3. TooManyTitles(n) = Top(n) \o <<a, b>> /\ TooManyNotes(n) = Top(n) \o <<a, c>>
      BY DEF TooManyTitles, TooManyNotes
    <2> HIDE DEF L, a, b, c
    <2>4. <<a, b>> \in Seq(L) /\ <<a, c>> \in Seq(L) BY <2>1, <2>2
    <2> QED BY <2>3, <2>4, <1>4
  <1> QED BY <1>6, <1>7, <1>8

\* The answers to every command; those to the last of them are for this disc.
LEMMA AnswersAreOwn ==
  ASSUME disc \in Discs, NEW cmd \in {"connect", "hello", "proto", "query", "read"},
         NEW n, cmd = "read" => n = Len(Toc[disc]), NEW s \in Answers(cmd, n)
  PROVE  s \in Seq(OwnLines)
  <1> DEFINE L == OwnLines
             m == Match
             m2 == [m EXCEPT !.key = "200"]
  <1>1. \A key \in LineKeys \ {"TTITLE"} : Plain(key) \in L /\ Code(key) \in Seq(L)
    BY PlainIsOwn DEF Code
  <1>2. m \in L /\ m2 \in L
    <2>1. TitleOf(0) \in Text /\ ArtistOf(0) \in Text BY TitlesAreOwn
    <2>2. m = Line("match", 0, ArtistOf(0), TitleOf(0)) /\ m2 = Line("200", 0, ArtistOf(0), TitleOf(0))
      BY DEF Match, Line
    <2> QED BY <2>1, <2>2, LineIsOwn DEF LineKeys
  <1>3. CASE cmd \in {"connect", "hello", "proto"}
    <2>1. s \in {Code("201"), Code("433"), Code("200"), Code("431"), Code("501")}
      BY <1>3 DEF Answers
    <2> QED BY <2>1, <1>1 DEF LineKeys
  <1>4. CASE cmd = "query"
    <2>1. s \in {<<m2>>, Code("210") \o <<m>> \o Code("."), Code("211") \o <<m, m>> \o Code("."),
                 Code("211") \o Code("."), Code("202"), Code("403")}
      BY <1>4 DEF Answers
    <2>2. Code("210") \in Seq(L) /\ Code("211") \in Seq(L) /\ Code(".") \in Seq(L) /\ Code("202") \in Seq(L) /\ Code("403") \in Seq(L)
      BY <1>1 DEF LineKeys
    <2> HIDE DEF L, m, m2
    <2>3. <<m2>> \in Seq(L) /\ <<m>> \in Seq(L) /\ <<m, m>> \in Seq(L) BY <1>2
    <2>4. Code("210") \o <<m>> \o Code(".") \in Seq(L) /\ Code("211") \o <<m, m>> \o Code(".") \in Seq(L)
          /\ Code("211") \o Code(".") \in Seq(L)
      BY <2>2, <2>3
    <2>5. s \in Seq(L) BY <2>1, <2>2, <2>3, <2>4
    <2> QED BY <2>5 DEF L
  <1>5. CASE cmd = "read"
    <2>1. s = Code("401") \/ \E e \in {DiscEntry(n), Sampler(n), TooManyTitles(n), TooManyNotes(n)} : s = Code("210") \o e
      BY <1>5 DEF Answers
    <2>2. Code("210") \in Seq(L) /\ Code("401") \in Seq(L)
      BY <1>1 DEF LineKeys
    <2>3. ASSUME NEW e \in {DiscEntry(n), Sampler(n), TooManyTitles(n), TooManyNotes(n)} PROVE Code("210") \o e \in Seq(L)
      <3>1. e \in Seq(L) BY <1>5, EntriesAreOwn
      <3> HIDE DEF L
      <3> QED BY <3>1, <2>2
    <2> HIDE DEF L
    <2>4. s \in Seq(L) BY <2>1, <2>2, <2>3
    <2> QED BY <2>4 DEF L
  <1> QED BY <1>3, <1>4, <1>5

-----------------------------------------------------------------------------
(* The CDDB client *)

\* What comes of a line that is cut, late or not there is of the same track.
LEMMA ReadsAreOwn ==
  ASSUME inbox \in Seq(OwnLines), NEW r \in Reads
  PROVE  r.line \in OwnLines /\ r.inbox \in Seq(OwnLines)
  <1> DEFINE L == OwnLines
  <1>1. NoLine \in L /\ Plain("junk") \in L
    BY PlainIsOwn DEF NoLine, LineKeys
  <1>2. ASSUME NEW l \in L PROVE [l EXCEPT !.text = Cut(l.text)] \in L
    <2> DEFINE c == [l EXCEPT !.text = Cut(l.text)]
    <2>1. l \in Lines /\ l.text \in Text BY DEF OwnLines, Lines
    <2>2. Cut(l.text) \in Text /\ \A no : OwnText(l.text, no) => OwnText(Cut(l.text), no) BY <2>1, CutIsOwn
    <2>3. c \in Lines /\ c.key = l.key /\ c.no = l.no /\ c.text = Cut(l.text) BY <2>1, <2>2 DEF Lines
    <2> HIDE DEF c
    <2>4. c \in L BY <2>2, <2>3 DEF OwnLines
    <2> QED BY <2>4 DEF c
  <1>3. CASE r \in Nothing
    BY <1>1, <1>3 DEF Nothing
  <1>4. CASE inbox # <<>> /\ r = [line |-> Head(inbox), link |-> link, inbox |-> Tail(inbox)]
    <2> HIDE DEF L
    <2>1. Head(inbox) \in OwnLines /\ Tail(inbox) \in Seq(OwnLines) BY <1>4
    <2> QED BY <2>1, <1>4
  <1>5. ASSUME inbox # <<>>, NEW l \in {Plain("junk"), [Head(inbox) EXCEPT !.text = Cut(@)]},
               r = [line |-> l, link |-> "eos", inbox |-> <<>>]
        PROVE  r.line \in L /\ r.inbox \in Seq(L)
    <2>1. Head(inbox) \in L BY <1>5
    <2>2. l \in L BY <2>1, <1>1, <1>2, <1>5
    <2>3. <<>> \in Seq(L) BY EmptySeq
    <2> QED BY <2>2, <2>3, <1>5
  <1>6. \/ r \in Nothing
        \/ inbox # <<>> /\ r = [line |-> Head(inbox), link |-> link, inbox |-> Tail(inbox)]
        \/ inbox # <<>> /\ \E l \in {Plain("junk"), [Head(inbox) EXCEPT !.text = Cut(@)]} :
                              r = [line |-> l, link |-> "eos", inbox |-> <<>>]
    BY DEF Reads
  <1> QED BY <1>3, <1>4, <1>5, <1>6

\* What the server answers comes after what is still unread.
LEMMA WritesAreOwn ==
  ASSUME disc \in Discs, NEW cmd \in {"connect", "hello", "proto", "query", "read"}, NEW from,
         from.inbox \in Seq(OwnLines), Len(dsc.tracks) = Len(Toc[disc]), NEW s \in WrittenFrom(cmd, from)
  PROVE  s \in Seq(OwnLines)
  <1>1. s = from.inbox \/ \E a \in Answers(cmd, Len(dsc.tracks)) : s = from.inbox \o a
    BY DEF WrittenFrom
  <1>2. ASSUME NEW a \in Answers(cmd, Len(dsc.tracks)) PROVE from.inbox \o a \in Seq(OwnLines)
    <2>1. a \in Seq(OwnLines) BY AnswersAreOwn
    <2> QED BY <2>1
  <1> QED BY <1>1, <1>2

\* A disc with other tracks, another title or another artist.
LEMMA OwnDisc ==
  ASSUME NEW title \in Text, NEW artist \in Text, NEW tracks \in Seq(KnownTracks), OwnTracks(tracks)
  PROVE  [title |-> title, artist |-> artist, tracks |-> tracks] \in OwnDiscs
  <1> DEFINE d == [title |-> title, artist |-> artist, tracks |-> tracks]
  <1>1. d \in KnownDiscs /\ d.tracks = tracks
    BY DEF KnownDiscs
  <1> HIDE DEF d
  <1>2. d \in OwnDiscs
    BY <1>1 DEF OwnDiscs
  <1> QED BY <1>2 DEF d

\* A disc is a title, an artist and tracks.
LEMMA DiscParts ==
  ASSUME NEW d \in OwnDiscs
  PROVE  /\ d.title \in Text /\ d.artist \in Text /\ d.tracks \in Seq(KnownTracks) /\ OwnTracks(d.tracks)
         /\ Len(d.tracks) \in Nat /\ DOMAIN d.tracks = 1 .. Len(d.tracks)
         /\ d = [title |-> d.title, artist |-> d.artist, tracks |-> d.tracks]
         /\ \A i \in DOMAIN d.tracks : d.tracks[i] \in KnownTracks
                                       /\ d.tracks[i].title \in Text /\ d.tracks[i].artist \in Text
  <1>1. d \in KnownDiscs /\ OwnTracks(d.tracks)
    BY DEF OwnDiscs
  <1>2. /\ d.title \in Text /\ d.artist \in Text /\ d.tracks \in Seq(KnownTracks)
        /\ d = [title |-> d.title, artist |-> d.artist, tracks |-> d.tracks]
    BY <1>1 DEF KnownDiscs
  <1>3. Len(d.tracks) \in Nat /\ DOMAIN d.tracks = 1 .. Len(d.tracks)
    BY <1>2
  <1>4. ASSUME NEW i \in DOMAIN d.tracks
        PROVE  d.tracks[i] \in KnownTracks /\ d.tracks[i].title \in Text /\ d.tracks[i].artist \in Text
    <2>1. d.tracks[i] \in KnownTracks BY <1>2
    <2> QED BY <2>1 DEF KnownTracks
  <1> QED BY <1>1, <1>2, <1>3, <1>4

\* Tracks without titles.
LEMMA MoreTracks ==
  ASSUME NEW d \in OwnDiscs, NEW n \in Nat
  PROVE  AddTracks(d, n) \in OwnDiscs /\ Len(AddTracks(d, n).tracks) = Len(d.tracks) + n
  <1> DEFINE ts == Times(n, NoTrack)
             old == d.tracks
             tracks == old \o ts
  <1>1. ts \in Seq(KnownTracks) /\ Len(ts) = n /\ \A i \in 1 .. n : ts[i].title = <<>>
    <2>1. NoTrack \in KnownTracks /\ NoTrack.title = <<>> BY NoText DEF NoTrack, KnownTracks
    <2> QED BY <2>1 DEF Times
  <1>2. old \in Seq(KnownTracks) /\ OwnTracks(old) /\ d.title \in Text /\ d.artist \in Text
        /\ Len(old) \in Nat /\ DOMAIN old = 1 .. Len(old)
    BY DiscParts
  <1>3. d = [title |-> d.title, artist |-> d.artist, tracks |-> old]
    BY DiscParts
  <1> HIDE DEF ts, old
  <1>4. /\ tracks \in Seq(KnownTracks) /\ Len(tracks) = Len(old) + n /\ DOMAIN tracks = 1 .. Len(old) + n
        /\ \A i \in 1 .. Len(old) + n : tracks[i] = IF i <= Len(old) THEN old[i] ELSE ts[i - Len(old)]
    <2>1. old \in Seq(KnownTracks) /\ ts \in Seq(KnownTracks) BY <1>1, <1>2
    <2>2. /\ tracks \in Seq(KnownTracks) /\ Len(tracks) = Len(old) + Len(ts)
          /\ \A i \in 1 .. Len(old) + Len(ts) : tracks[i] = IF i <= Len(old) THEN old[i] ELSE ts[i - Len(old)]
      BY <2>1, ConcatProperties
    <2> HIDE DEF tracks
    <2>3. DOMAIN tracks = 1 .. Len(tracks) BY <2>2
    <2> QED BY <2>2, <2>3, <1>1
  <1> HIDE DEF tracks
  <1>5. OwnTracks(tracks)
    <2> SUFFICES ASSUME ~DataFirst, NEW i \in DOMAIN tracks, i <= Len(Toc[disc]) PROVE OwnText(tracks[i].title, i)
      BY DEF OwnTracks
    <2>1. CASE i <= Len(old)
      BY <2>1, <1>2, <1>4 DEF OwnTracks
    <2>2. CASE ~(i <= Len(old))
      <3>1. i - Len(old) \in 1 .. n BY <2>2, <1>2, <1>4
      <3>2. tracks[i].title = <<>> BY <3>1, <2>2, <1>1, <1>4
      <3> QED BY <3>2, NoTextIsOwn
    <2> QED BY <2>1, <2>2
  <1>6. AddTracks(d, n) = [title |-> d.title, artist |-> d.artist, tracks |-> tracks]
    <2>1. AddTracks(d, n) = [d EXCEPT !.tracks = tracks]
      BY DEF AddTracks, tracks, ts, old
    <2> QED BY <2>1, <1>3
  <1>7. old = d.tracks
    BY DEF old
  <1> QED BY <1>2, <1>4, <1>5, <1>6, <1>7, OwnDisc

\* The disc gets another title and artist.
LEMMA Renamed ==
  ASSUME NEW d \in OwnDiscs, NEW title \in Text, NEW artist \in Text
  PROVE  [title |-> title, artist |-> artist, tracks |-> d.tracks] \in OwnDiscs
  BY DiscParts, OwnDisc

\* The title of the disc.
LEMMA TitleLines ==
  ASSUME NEW d \in OwnDiscs, NEW p, NEW l \in OwnLines
  PROVE  DiscTitleLine(d, p, l).dsc \in OwnDiscs /\ DiscTitleEnds(d) \in OwnDiscs
  <1>1. l.artist \in Text /\ l.text \in Text
    BY DEF OwnLines, Lines
  <1>2. /\ d.title \in Text /\ d.artist \in Text /\ <<>> \in Text
        /\ d = [title |-> d.title, artist |-> d.artist, tracks |-> d.tracks]
    BY DiscParts, NoText
  <1> DEFINE fresh == IF p.multi = "NONE" THEN [d EXCEPT !.artist = <<>>, !.title = <<>>] ELSE d
             Made(title, artist) == [title |-> title, artist |-> artist, tracks |-> d.tracks]
  <1>3. PICK title \in Text, artist \in Text : fresh = Made(title, artist)
    <2>1. CASE p.multi = "NONE"
      <3>1. fresh = Made(<<>>, <<>>) BY <1>2, <2>1
      <3> HIDE DEF fresh, Made
      <3> QED BY <3>1, <1>2
    <2>2. CASE p.multi # "NONE"
      <3>1. fresh = Made(d.title, d.artist) BY <1>2, <2>2
      <3> HIDE DEF fresh, Made
      <3> QED BY <3>1, <1>2
    <2> QED BY <2>1, <2>2
  <1>4. title \o l.text \in Text /\ artist \o l.text \in Text /\ artist \o l.artist \in Text
    BY <1>1, <1>3, TextsConcat
  <1>5. DiscTitleLine(d, p, l).dsc =
          IF l.artist # <<>> THEN AppendTitle(AppendArtist(fresh, l.artist), l.text)
          ELSE IF p.multi = "TITLE" THEN AppendTitle(fresh, l.text) ELSE AppendArtist(fresh, l.text)
    BY DEF DiscTitleLine, Parsed
  <1>6. /\ AppendTitle(AppendArtist(fresh, l.artist), l.text) = Made(title \o l.text, artist \o l.artist)
        /\ AppendTitle(fresh, l.text) = Made(title \o l.text, artist)
        /\ AppendArtist(fresh, l.text) = Made(title, artist \o l.text)
    <2> HIDE DEF fresh
    <2>1. ASSUME NEW t, NEW a, NEW x
          PROVE  [Made(t, a) EXCEPT !.title = x] = Made(x, a) /\ [Made(t, a) EXCEPT !.artist = x] = Made(t, x)
      OBVIOUS
    <2>2. ASSUME NEW t, NEW a, NEW x
          PROVE  AppendTitle(Made(t, a), x) = Made(t \o x, a) /\ AppendArtist(Made(t, a), x) = Made(t, a \o x)
      <3>1. Made(t, a).title = t /\ Made(t, a).artist = a OBVIOUS
      <3> DEFINE m == Made(t, a)
                 y == t \o x
                 z == a \o x
      <3>2. m.title \o x = y /\ m.artist \o x = z BY <3>1
      <3>3. [m EXCEPT !.title = y] = Made(y, a) /\ [m EXCEPT !.artist = z] = Made(t, z)
        <4>1. m = Made(t, a) OBVIOUS
        <4> HIDE DEF m, Made, y, z
        <4> QED BY <2>1, <4>1
      <3>4. AppendTitle(m, x) = [m EXCEPT !.title = m.title \o x] /\ AppendArtist(m, x) = [m EXCEPT !.artist = m.artist \o x]
        BY DEF AppendTitle, AppendArtist
      <3>5. AppendTitle(m, x) = Made(y, a) /\ AppendArtist(m, x) = Made(t, z)
        <4> HIDE DEF m, Made, y, z
        <4> QED BY <3>2, <3>3, <3>4
      <3> QED BY <3>5
    <2> HIDE DEF Made
    <2>3. AppendArtist(fresh, l.artist) = Made(title, artist \o l.artist) BY <1>3, <2>2
    <2>4. AppendTitle(AppendArtist(fresh, l.artist), l.text) = Made(title \o l.text, artist \o l.artist)
      BY <2>2, <2>3
    <2>5. AppendTitle(fresh, l.text) = Made(title \o l.text, artist) BY <1>3, <2>2
    <2>6. AppendArtist(fresh, l.text) = Made(title, artist \o l.text) BY <1>3, <2>2
    <2> QED BY <2>4, <2>5, <2>6
  <1>7. ASSUME NEW t \in Text, NEW a \in Text PROVE Made(t, a) \in OwnDiscs
    BY Renamed
  <1> HIDE DEF fresh, Made
  <1>8. DiscTitleLine(d, p, l).dsc \in OwnDiscs
    BY <1>3, <1>4, <1>5, <1>6, <1>7
  <1>9. DiscTitleEnds(d) \in OwnDiscs
    <2>1. CASE d.artist # <<>> /\ d.title = <<>>
      <3>1. DiscTitleEnds(d) = Made(d.artist, d.artist) BY <1>2, <2>1 DEF DiscTitleEnds, Made
      <3> QED BY <3>1, <1>2, <1>7
    <2>2. CASE ~(d.artist # <<>> /\ d.title = <<>>)
      <3>1. DiscTitleEnds(d) = d BY <2>2 DEF DiscTitleEnds
      <3> QED BY <3>1
    <2> QED BY <2>1, <2>2
  <1> QED BY <1>8, <1>9

\* A line of a track's title is put to the title of that track.
LEMMA TrackLines ==
  ASSUME disc \in Discs, NEW d \in OwnDiscs, NEW p, NEW l \in OwnLines, l.key = "TTITLE"
  PROVE  TrackTitleLine(d, p, l).dsc \in OwnDiscs
  <1> DEFINE i == l.no + 1
             t == IF l.no # p.old THEN NoTrack ELSE d.tracks[i]
             u == Titled(t, l)
             tracks == [d.tracks EXCEPT ![i] = u]
  <1>1. l.no \in Nat /\ l.artist \in Text /\ l.text \in Text /\ (l.no < Len(Toc[disc]) => OwnText(l.text, l.no + 1))
    BY DEF OwnLines, Lines
  <1>2. CASE ~HasTrack(d, l.no)
    <2>1. TrackTitleLine(d, p, l).dsc = d BY <1>2 DEF TrackTitleLine, Parsed
    <2> QED BY <2>1
  <1>3. CASE HasTrack(d, l.no)
    <2>1. i \in DOMAIN d.tracks /\ i \in Nat
      <3>1. Len(d.tracks) \in Nat /\ DOMAIN d.tracks = 1 .. Len(d.tracks) BY DiscParts
      <3> QED BY <3>1, <1>1, <1>3 DEF HasTrack
    <2>2. t \in KnownTracks /\ (~DataFirst /\ i <= Len(Toc[disc]) => OwnText(t.title, i))
      <3>1. NoTrack \in KnownTracks /\ OwnText(NoTrack.title, i) BY NoText, NoTextIsOwn DEF NoTrack, KnownTracks
      <3>2. d.tracks[i] \in KnownTracks /\ (~DataFirst /\ i <= Len(Toc[disc]) => OwnText(d.tracks[i].title, i))
        BY <2>1, DiscParts DEF OwnTracks
      <3> QED BY <3>1, <3>2
    <2>3. ~DataFirst /\ i <= Len(Toc[disc]) => OwnText(l.text, i)
      <3>1. Len(Toc[disc]) \in Nat BY MetadataAssumption
      <3> QED BY <3>1, <1>1
    <2> HIDE DEF t, i
    <2>4. t.title \in Text /\ t.artist \in Text /\ t = [title |-> t.title, artist |-> t.artist]
      BY <2>2 DEF KnownTracks
    <2>5. /\ t.title \o l.text \in Text /\ t.title \o l.artist \in Text
          /\ \A no : OwnText(t.title, no) /\ OwnText(l.text, no) => OwnText(t.title \o l.text, no)
      BY <2>4, <1>1, TextsConcat
    <2>6. u \in KnownTracks /\ (~DataFirst /\ i <= Len(Toc[disc]) => OwnText(u.title, i))
      <3>1. CASE l.artist = <<>>
        <4>1. u = [title |-> t.title \o l.text, artist |-> t.artist]
          BY <3>1, <2>4 DEF Titled, AppendTitle
        <4>2. u.title = t.title \o l.text /\ u \in KnownTracks
          <5> HIDE DEF u
          <5> QED BY <4>1, <2>4, <2>5 DEF KnownTracks
        <4> HIDE DEF u
        <4> QED BY <4>2, <2>2, <2>3, <2>5
      <3>2. CASE l.artist # <<>>
        <4>1. u = [title |-> l.text, artist |-> t.title \o l.artist]
          BY <3>2 DEF Titled
        <4>2. u.title = l.text /\ u \in KnownTracks
          <5> HIDE DEF u
          <5> QED BY <4>1, <1>1, <2>5 DEF KnownTracks
        <4> HIDE DEF u
        <4> QED BY <4>2, <2>3
      <3> QED BY <3>1, <3>2
    <2> HIDE DEF u
    <2>7. d.tracks \in Seq(KnownTracks) /\ OwnTracks(d.tracks) /\ d.title \in Text /\ d.artist \in Text
      BY DiscParts
    <2>8. tracks \in Seq(KnownTracks) /\ DOMAIN tracks = DOMAIN d.tracks
          /\ \A j \in DOMAIN tracks : tracks[j] = IF j = i THEN u ELSE d.tracks[j]
      BY <2>1, <2>6, <2>7
    <2> HIDE DEF tracks
    <2>9. OwnTracks(tracks)
      BY <2>6, <2>7, <2>8 DEF OwnTracks
    <2>10. TrackTitleLine(d, p, l).dsc = [title |-> d.title, artist |-> d.artist, tracks |-> tracks]
      <3>1. TrackTitleLine(d, p, l).dsc = [d EXCEPT !.tracks = tracks]
        BY <1>3 DEF TrackTitleLine, Parsed, tracks, u, t, i
      <3> QED BY <3>1, DiscParts
    <2> QED BY <2>7, <2>8, <2>9, <2>10, OwnDisc
  <1> QED BY <1>2, <1>3

\* Each line, wherever the parser is, goes to the track it is about.
LEMMA ParsedIsOwn ==
  ASSUME disc \in Discs, NEW d \in OwnDiscs, NEW p, NEW l \in OwnLines
  PROVE  ParseLine(d, p, l).dsc \in OwnDiscs
  <1>1. ASSUME NEW e \in OwnDiscs, NEW q, NEW o PROVE Parsed(e, q, o).dsc \in OwnDiscs
    BY DEF Parsed
  <1>2. ASSUME NEW e \in OwnDiscs, NEW q PROVE BodyLine(e, q, l).dsc \in OwnDiscs
    <2>1. DiscTitleLine(e, q, l).dsc \in OwnDiscs
      BY TitleLines
    <2>2. l.key = "TTITLE" => TrackTitleLine(e, q, l).dsc \in OwnDiscs
      BY TrackLines
    <2> DEFINE known == \E i \in q.at .. Len(Sections) : Sections[i] = l.key
               past == [q EXCEPT !.multi = "NONE", !.old = 99]
    <2>3. \/ BodyLine(e, q, l) = DiscTitleLine(e, q, l)
          \/ l.key = "TTITLE" /\ BodyLine(e, q, l) = TrackTitleLine(e, q, l)
          \/ \E r, o : BodyLine(e, q, l) = Parsed(e, r, o)
      <3> HIDE DEF known, past
      <3>1. CASE known /\ l.key = "DTITLE" BY <3>1 DEF BodyLine, known, past
      <3>2. CASE known /\ l.key = "TTITLE"
        <4>1. BodyLine(e, q, l) = TrackTitleLine(e, q, l) BY <3>2 DEF BodyLine, known, past
        <4> QED BY <4>1, <3>2
      <3>3. CASE known /\ l.key = "EXTT" /\ ~HasTrack(e, l.no)
        <4>1. BodyLine(e, q, l) = Parsed(e, past, "bad") BY <3>3 DEF BodyLine, known, past
        <4> QED BY <4>1
      <3>4. CASE known /\ l.key = "."
        <4>1. BodyLine(e, q, l) = Parsed(e, past, "stop") BY <3>4 DEF BodyLine, known, past
        <4> QED BY <4>1
      <3>5. CASE known /\ l.key \notin {"DTITLE", "TTITLE", "."} /\ (l.key = "EXTT" => HasTrack(e, l.no))
        <4>1. BodyLine(e, q, l) = Parsed(e, [past EXCEPT !.at = Following(l.key)], "more") BY <3>5 DEF BodyLine, known, past
        <4> QED BY <4>1
      <3>6. CASE ~known
        <4>1. BodyLine(e, q, l) = Parsed(e, past, "more") BY <3>6 DEF BodyLine, known, past
        <4> QED BY <4>1
      <3> QED BY <3>1, <3>2, <3>3, <3>4, <3>5, <3>6
    <2> QED BY <2>1, <2>2, <2>3, <1>1
  <1>3. DiscTitleEnds(d) \in OwnDiscs
    BY TitleLines
  <1>4. ASSUME NEW q PROVE OffsetLine(d, q).dsc \in OwnDiscs
    <2>1. AddTracks(d, 1) \in OwnDiscs BY MoreTracks
    <2> QED BY <2>1 DEF OffsetLine, Parsed
  <1> DEFINE at == IF p.at = SectionNo("offset") /\ l.key # "offset" THEN p.at + 1 ELSE p.at
             q == [p EXCEPT !.at = at]
  <1>5. \/ \E r, o : ParseLine(d, p, l) = Parsed(d, r, o)
        \/ ParseLine(d, p, l) = OffsetLine(d, q)
        \/ ParseLine(d, p, l) = BodyLine(DiscTitleEnds(d), q, l)
        \/ ParseLine(d, p, l) = BodyLine(d, q, l)
    <2> HIDE DEF at, q
    <2>1. CASE l.key = "NULL"
      <3>1. ParseLine(d, p, l) = Parsed(d, p, "stop") BY <2>1 DEF ParseLine, at, q
      <3> QED BY <3>1
    <2>2. CASE l.key # "NULL" /\ at = SectionNo("offset")
      BY <2>2 DEF ParseLine, at, q
    <2>3. CASE l.key # "NULL" /\ at # SectionNo("offset") /\ at < SectionNo("DTITLE")
      <3>1. SectionNo("DTITLE") \in Nat
        <4>1. Sections[5] = "DTITLE" /\ 5 \in DOMAIN Sections /\ DOMAIN Sections \subseteq Nat BY DEF Sections
        <4> QED BY <4>1 DEF SectionNo
      <3>2. at # SectionNo("DTITLE")
        BY <3>1, <2>3
      <3>3. ParseLine(d, p, l) = Parsed(d, IF l.key = Sections[at] THEN [q EXCEPT !.at = at + 1] ELSE q, "more")
        BY <2>3, <3>2 DEF ParseLine, at, q
      <3> QED BY <3>3
    <2> QED BY <2>1, <2>2, <2>3 DEF ParseLine, at, q
  <1> HIDE DEF q
  <1> QED BY <1>1, <1>2, <1>3, <1>4, <1>5

\* The stages of the calls in which the disc has as many tracks as the one in the drive.
CddbStages == {"connect", "banner", "hello", "proto", "query", "list", "read"}
SameLength(d) == Len(d.tracks) = Len(Toc[disc])

\* The lines that have come in and the titles of the client's discs are of this disc.
CddbInv ==
  /\ inbox \in Seq(OwnLines) /\ dsc \in OwnDiscs /\ hits \in Seq(OwnDiscs)
  /\ call \in CddbStages => SameLength(dsc) /\ \A i \in DOMAIN hits : SameLength(hits[i])
  /\ call = "idle" => hits = <<>>

\* While the disc stays, so does what is of it.
LEMMA SameDisc ==
  ASSUME disc' = disc
  PROVE  OwnLines' = OwnLines /\ OwnDiscs' = OwnDiscs /\ DataFirst' = DataFirst
  BY DEF OwnLines, OwnDiscs, OwnTracks, DataFirst

\* A match of the query names the disc, not its tracks.
LEMMA NamedIsOwn ==
  ASSUME NEW d \in OwnDiscs, NEW l \in OwnLines
  PROVE  Named(d, l) \in OwnDiscs /\ Named(d, l).tracks = d.tracks
  <1>1. l.artist \in Text /\ l.text \in Text
    BY DEF OwnLines, Lines
  <1>2. Named(d, l) = [title |-> l.text, artist |-> l.artist, tracks |-> d.tracks]
    <2> DEFINE a == l.artist
               t == l.text
    <2>1. Named(d, l) = [d EXCEPT !.artist = a, !.title = t] BY DEF Named
    <2>2. d = [title |-> d.title, artist |-> d.artist, tracks |-> d.tracks] BY DiscParts
    <2> HIDE DEF a, t
    <2>3. Named(d, l) = [title |-> t, artist |-> a, tracks |-> d.tracks] BY <2>1, <2>2
    <2> QED BY <2>3 DEF a, t
  <1> QED BY <1>1, <1>2, Renamed

\* A disc copied over another.
LEMMA CopyIsOwn ==
  ASSUME NEW d \in OwnDiscs, NEW e \in OwnDiscs, Len(d.tracks) = Len(e.tracks)
  PROVE  cddb_disc_copy(d, e) \in OwnDiscs /\ Len(cddb_disc_copy(d, e).tracks) = Len(d.tracks)
  <1> DEFINE n == Len(d.tracks)
             tracks == [i \in DOMAIN d.tracks |-> cddb_track_copy(d.tracks[i], e.tracks[i])]
             title == Copied(d.title, e.title)
             artist == Copied(d.artist, e.artist)
  <1>1. /\ n \in Nat /\ DOMAIN d.tracks = 1 .. n /\ DOMAIN e.tracks = 1 .. n /\ OwnTracks(d.tracks) /\ OwnTracks(e.tracks)
        /\ d.title \in Text /\ d.artist \in Text /\ e.title \in Text /\ e.artist \in Text
    BY DiscParts
  <1>2. ASSUME NEW i \in 1 .. n
        PROVE  /\ tracks[i] \in KnownTracks
               /\ tracks[i].title = d.tracks[i].title \/ tracks[i].title = e.tracks[i].title
    <2>1. d.tracks[i].title \in Text /\ d.tracks[i].artist \in Text /\ e.tracks[i].title \in Text /\ e.tracks[i].artist \in Text
      BY <1>1, DiscParts
    <2>2. tracks[i] = [title |-> Copied(d.tracks[i].title, e.tracks[i].title),
                       artist |-> Copied(d.tracks[i].artist, e.tracks[i].artist)]
      BY <1>1 DEF cddb_track_copy
    <2> HIDE DEF tracks
    <2> QED BY <2>1, <2>2 DEF Copied, KnownTracks
  <1> HIDE DEF n
  <1>3. tracks \in Seq(KnownTracks) /\ Len(tracks) = n /\ DOMAIN tracks = 1 .. n
    <2>1. tracks = [i \in 1 .. n |-> tracks[i]] BY <1>1
    <2> HIDE DEF tracks
    <2>2. tracks \in [1 .. n -> KnownTracks] BY <2>1, <1>2
    <2> QED BY <2>2, <1>1
  <1> HIDE DEF tracks
  <1>4. OwnTracks(tracks)
    <2> SUFFICES ASSUME ~DataFirst, NEW i \in 1 .. n, i <= Len(Toc[disc]) PROVE OwnText(tracks[i].title, i)
      BY <1>3 DEF OwnTracks
    <2>1. OwnText(d.tracks[i].title, i) /\ OwnText(e.tracks[i].title, i) BY <1>1 DEF OwnTracks
    <2> QED BY <2>1, <1>2
  <1>5. title \in Text /\ artist \in Text
    BY <1>1 DEF Copied
  <1>6. cddb_disc_copy(d, e) = [title |-> title, artist |-> artist, tracks |-> tracks]
    BY DEF cddb_disc_copy, tracks
  <1> HIDE DEF title, artist
  <1> QED BY <1>3, <1>4, <1>5, <1>6, OwnDisc DEF n

\* The client of a disc begins with as many tracks as the disc has.
LEMMA CddbBeginKeeps ==
  ASSUME disc \in Discs, CddbInv, CddbBegin(Len(Toc[disc])), disc' = disc
  PROVE  CddbInv'
  <1> DEFINE n == Len(Toc[disc])
  <1>1. n \in Nat
    BY MetadataAssumption
  <1>2. NoDisc \in OwnDiscs /\ Len(NoDisc.tracks) = 0
    BY ReleasesAreOwn DEF Releases, NoDisc
  <1>3. AddTracks(NoDisc, n) \in OwnDiscs /\ Len(AddTracks(NoDisc, n).tracks) = n
    BY <1>1, <1>2, MoreTracks
  <1>4. dsc' = AddTracks(NoDisc, n) /\ hits' = <<>> /\ inbox' = inbox /\ inbox \in Seq(OwnLines) /\ call' \in {"connect", "failed"}
    BY DEF CddbBegin, CddbInv
  <1>5. <<>> \in Seq(OwnDiscs) /\ DOMAIN <<>> = {}
    BY EmptySeq
  <1>6. inbox' \in Seq(OwnLines') /\ dsc' \in OwnDiscs' /\ hits' \in Seq(OwnDiscs')
    BY <1>3, <1>4, <1>5, SameDisc
  <1>7. Len(dsc'.tracks) = Len(Toc[disc']) /\ DOMAIN hits' = {}
    BY <1>3, <1>4, <1>5
  <1> QED BY <1>4, <1>6, <1>7 DEF CddbInv, SameLength

\* And every step of a call keeps to that disc.
LEMMA CddbStepKeeps ==
  ASSUME disc \in Discs, CddbInv, CddbStep, disc' = disc
  PROVE  CddbInv'
  <1> DEFINE L == Seq(OwnLines)
             Sized(d) == Len(d.tracks) = Len(Toc[disc])
  <1>1. inbox \in L /\ dsc \in OwnDiscs /\ hits \in Seq(OwnDiscs)
        /\ (call \in CddbStages => Sized(dsc) /\ \A i \in DOMAIN hits : Sized(hits[i]))
    BY DEF CddbInv, SameLength
  <1>2. SUFFICES /\ inbox' \in L /\ dsc' \in OwnDiscs /\ hits' \in Seq(OwnDiscs)
                 /\ call' \in CddbStages => Sized(dsc') /\ \A i \in DOMAIN hits' : Sized(hits'[i])
                 /\ call' # "idle"
    <2>1. inbox' \in Seq(OwnLines') /\ dsc' \in OwnDiscs' /\ hits' \in Seq(OwnDiscs')
      BY <1>2, SameDisc
    <2> QED BY <1>2, <2>1 DEF CddbInv, SameLength
  <1>3. ASSUME NEW r \in Reads PROVE r.line \in OwnLines /\ r.inbox \in L
    BY <1>1, ReadsAreOwn
  <1>4. ASSUME NEW cmd \in {"connect", "hello", "proto", "query", "read"}, NEW from, from.inbox \in L, Sized(dsc), Send(cmd, from)
        PROVE  inbox' \in L
    BY <1>4, WritesAreOwn DEF Send
  <1> HIDE DEF L
  <1>5. CASE Connect
    <2>1. call \in CddbStages /\ dsc' = dsc /\ hits' = hits BY <1>5 DEF Connect, CddbStages
    <2>2. PICK known \in timeout_gethostbyname, to \in timeout_connect :
             IF known /\ to = "up"
             THEN call' = "banner" /\ Send("connect", [link |-> to, inbox |-> inbox])
             ELSE call' = "failed" /\ UNCHANGED <<link, inbox>>
      BY <1>5 DEF Connect
    <2>3. inbox' \in L /\ call' \in {"banner", "failed"}
      <3> DEFINE from == [link |-> to, inbox |-> inbox]
      <3>1. from.inbox \in L BY <1>1
      <3>2. CASE known /\ to = "up"
        <4>1. Send("connect", from) /\ call' = "banner" BY <2>2, <3>2
        <4> HIDE DEF from
        <4> QED BY <4>1, <3>1, <2>1, <1>1, <1>4
      <3>3. CASE ~(known /\ to = "up")
        BY <2>2, <3>3, <1>1
      <3> QED BY <3>2, <3>3
    <2> QED BY <1>1, <2>1, <2>3
  <1>6. CASE Handshake
    <2>1. call \in CddbStages /\ call \in {"banner", "hello", "proto"} /\ dsc' = dsc /\ hits' = hits BY <1>6 DEF Handshake, CddbStages
    <2>2. PICK r \in Reads : \/ call' = "failed" /\ Keep(r)
                             \/ call' = Then(call) /\ Send(Then(call), r)
      BY <1>6 DEF Handshake
    <2>3. Then(call) \in {"hello", "proto", "query"}
      BY <2>1 DEF Then
    <2>4. inbox' \in L /\ call' # "idle"
      <3>1. CASE call' = "failed" /\ Keep(r) BY <3>1, <1>3 DEF Keep
      <3>2. CASE call' = Then(call) /\ Send(Then(call), r)
        <4>1. inbox' \in L BY <3>2, <2>1, <2>3, <1>1, <1>3, <1>4
        <4> QED BY <4>1, <3>2, <2>3
      <3> QED BY <2>2, <3>1, <3>2
    <2> QED BY <1>1, <2>1, <2>4
  <1>7. CASE QueryReply
    <2>1. call \in CddbStages /\ hits' = hits BY <1>7 DEF QueryReply, CddbStages
    <2>2. PICK r \in Reads : \/ dsc' = Named(dsc, r.line) /\ call' = "read" /\ Send("read", r)
                             \/ call' \in {"list", "failed"} /\ Keep(r) /\ UNCHANGED dsc
      <3>1. PICK r \in Reads :
              CASE r.line.key = "200" -> dsc' = Named(dsc, r.line) /\ call' = "read" /\ Send("read", r)
                [] r.line.key \in {"210", "211"} -> call' = "list" /\ Keep(r) /\ UNCHANGED dsc
                [] OTHER -> call' = "failed" /\ Keep(r) /\ UNCHANGED dsc
        BY <1>7 DEF QueryReply
      <3>2. CASE r.line.key = "200" BY <3>1, <3>2
      <3>3. CASE r.line.key \in {"210", "211"} BY <3>1, <3>3
      <3>4. CASE r.line.key \notin {"200", "210", "211"} BY <3>1, <3>4
      <3> QED BY <3>2, <3>3, <3>4
    <2>3. CASE dsc' = Named(dsc, r.line) /\ call' = "read" /\ Send("read", r)
      <3>1. dsc' \in OwnDiscs /\ dsc'.tracks = dsc.tracks BY <2>3, <1>1, <1>3, NamedIsOwn
      <3>2. inbox' \in L BY <2>3, <2>1, <1>1, <1>3, <1>4
      <3> QED BY <3>1, <3>2, <2>1, <2>3, <1>1
    <2>4. CASE call' \in {"list", "failed"} /\ Keep(r) /\ UNCHANGED dsc
      <3>1. inbox' \in L BY <2>4, <1>3 DEF Keep
      <3> QED BY <3>1, <2>1, <2>4, <1>1
    <2> QED BY <2>2, <2>3, <2>4
  <1>8. CASE QueryList
    <2>1. call \in CddbStages /\ call = "list" BY <1>8 DEF QueryList, CddbStages
    <2>2. PICK r \in Reads :
             \/ /\ UNCHANGED hits
                /\ dsc' = IF hits = <<>> THEN dsc ELSE cddb_disc_copy(dsc, hits[1])
                /\ (call' = "read" /\ Send("read", r)) \/ (call' = "failed" /\ Keep(r))
             \/ Keep(r) /\ UNCHANGED dsc /\ hits' = Noted(r.line) /\ UNCHANGED call
             \/ Keep(r) /\ UNCHANGED dsc /\ call' = "failed" /\ UNCHANGED hits
      BY <1>8 DEF QueryList
    <2>3. CASE /\ UNCHANGED hits
               /\ dsc' = IF hits = <<>> THEN dsc ELSE cddb_disc_copy(dsc, hits[1])
               /\ (call' = "read" /\ Send("read", r)) \/ (call' = "failed" /\ Keep(r))
      <3>1. dsc' \in OwnDiscs /\ Sized(dsc')
        <4>1. CASE hits = <<>> BY <4>1, <2>1, <2>3, <1>1
        <4>2. CASE hits # <<>>
          <5>1. 1 \in DOMAIN hits /\ hits[1] \in OwnDiscs BY <4>2, <1>1
          <5>2. Len(dsc.tracks) = Len(hits[1].tracks) /\ dsc' = cddb_disc_copy(dsc, hits[1]) BY <5>1, <4>2, <2>1, <2>3, <1>1
          <5> QED BY <5>1, <5>2, <2>1, <1>1, CopyIsOwn
        <4> QED BY <4>1, <4>2
      <3>2. inbox' \in L
        <4>1. CASE Send("read", r) BY <4>1, <2>1, <1>1, <1>3, <1>4
        <4>2. CASE Keep(r) BY <4>2, <1>3 DEF Keep
        <4> QED BY <4>1, <4>2, <2>3
      <3>3. call' # "idle" /\ hits' = hits BY <2>3
      <3> QED BY <3>1, <3>2, <3>3, <2>1, <1>1
    <2>4. CASE Keep(r) /\ UNCHANGED dsc /\ hits' = Noted(r.line) /\ UNCHANGED call
      <3> DEFINE d == Named(dsc, r.line)
      <3>1. d \in OwnDiscs /\ Sized(d) BY <1>1, <1>3, <2>1, NamedIsOwn
      <3>2. hits' = Append(hits, d) BY <2>4 DEF Noted
      <3> HIDE DEF d
      <3>3. hits' \in Seq(OwnDiscs) /\ \A i \in DOMAIN hits' : Sized(hits'[i])
        <4>1. hits' \in Seq(OwnDiscs) /\ DOMAIN hits' = 1 .. Len(hits) + 1 /\ hits'[Len(hits) + 1] = d
              /\ DOMAIN hits = 1 .. Len(hits) /\ Len(hits) \in Nat /\ \A i \in 1 .. Len(hits) : hits'[i] = hits[i]
          BY <3>1, <3>2, <1>1
        <4> QED BY <4>1, <3>1, <2>1, <1>1
      <3>4. inbox' \in L BY <2>4, <1>3 DEF Keep
      <3> QED BY <3>3, <3>4, <2>1, <2>4, <1>1
    <2>5. CASE Keep(r) /\ UNCHANGED dsc /\ call' = "failed" /\ UNCHANGED hits
      <3>1. inbox' \in L BY <2>5, <1>3 DEF Keep
      <3> QED BY <3>1, <2>1, <2>5, <1>1
    <2> QED BY <2>2, <2>3, <2>4, <2>5
  <1>9. CASE ReadReply
    <2>1. PICK r \in Reads : call' = (IF r.line.key = "210" THEN "record" ELSE "failed") /\ Keep(r)
      BY <1>9 DEF ReadReply
    <2>2. dsc' = dsc /\ hits' = hits BY <1>9 DEF ReadReply
    <2>3. inbox' \in L /\ call' \in {"record", "failed"} BY <2>1, <1>3 DEF Keep
    <2> QED BY <2>2, <2>3, <1>1 DEF CddbStages
  <1>10. CASE ReadRecord
    <2>1. PICK r \in Reads : /\ Keep(r) /\ dsc' = ParseLine(dsc, prs, r.line).dsc
                             /\ call' \in {"record", "found", "failed"}
      <3>1. PICK r \in Reads :
              LET x == ParseLine(dsc, prs, r.line)
              IN  /\ Keep(r) /\ dsc' = x.dsc
                  /\ call' = CASE x.outcome = "more" -> "record" [] x.outcome = "stop" -> "found" [] OTHER -> "failed"
        BY <1>10 DEF ReadRecord
      <3> DEFINE x == ParseLine(dsc, prs, r.line)
      <3>2. Keep(r) /\ dsc' = x.dsc BY <3>1
      <3>3. call' = CASE x.outcome = "more" -> "record" [] x.outcome = "stop" -> "found" [] OTHER -> "failed" BY <3>1
      <3> HIDE DEF x
      <3>4. call' \in {"record", "found", "failed"} BY <3>3
      <3> QED BY <3>2, <3>4 DEF x
    <2>2. hits' = hits BY <1>10 DEF ReadRecord
    <2>3. dsc' \in OwnDiscs BY <2>1, <1>1, <1>3, ParsedIsOwn
    <2>4. inbox' \in L BY <2>1, <1>3 DEF Keep
    <2> QED BY <2>1, <2>2, <2>3, <2>4, <1>1 DEF CddbStages
  <1> QED BY <1>5, <1>6, <1>7, <1>8, <1>9, <1>10 DEF CddbStep

-----------------------------------------------------------------------------
(* fetch_album() *)

Unread == {"cacheable", "cddb", "create", "empty", "header", "part"}
Saving == {"create", "empty", "header", "part"}

\* A whole file has all of an album of this disc that is good for it.
FileOfDisc(f) ==
  Whole(f) => \E a : OfDisc(a) /\ is_metadata_good_for_caching(a) /\ f.entries = Entries(a)

\* The album is one of the disc; after the cache was read and found of no use there is
\* no whole file, until a good album has been written to it.
FetchInv ==
  /\ disc \in Discs
  /\ mpc = "idle" => album = NoAlbum
  /\ mpc # "idle" => OfDisc(album)
  /\ mpc \in Unread => ~Whole(file)
  /\ mpc \in Saving => is_metadata_good_for_caching(album)
  /\ mpc = "served" /\ Whole(file) => is_metadata_good_for_caching(album)
  /\ FileOfDisc(file)

\* The same of the next state, while the disc stays.
LEMMA FetchInvNext ==
  ASSUME disc \in Discs, disc' = disc, NEW a, NEW f, NEW m, album' = a, file' = f, mpc' = m,
         m = "idle" => a = NoAlbum, m # "idle" => OfDisc(a), m \in Unread => ~Whole(f),
         m \in Saving => is_metadata_good_for_caching(a),
         m = "served" /\ Whole(f) => is_metadata_good_for_caching(a), FileOfDisc(f)
  PROVE  FetchInv'
  <1>1. DataFirst' = DataFirst
    BY SameDisc
  <1>2. mpc' # "idle" => OfDisc(album)'
    BY <1>1 DEF OfDisc, SameTracks, OwnTitles
  <1>3. FileOfDisc(file)'
    <2>1. ASSUME Whole(f) PROVE FileOfDisc(file)'
      <3>1. PICK b : OfDisc(b) /\ is_metadata_good_for_caching(b) /\ f.entries = Entries(b)
        BY <2>1 DEF FileOfDisc
      <3>2. OfDisc(b)'
        BY <1>1, <3>1 DEF OfDisc, SameTracks, OwnTitles
      <3> QED BY <3>1, <3>2 DEF FileOfDisc
    <2> QED BY <2>1 DEF FileOfDisc
  <1> QED BY <1>2, <1>3 DEF FetchInv

\* Nothing is fetched at first.
LEMMA FetchInit == DiscInit => FetchInv /\ CddbInv
  <1> SUFFICES ASSUME DiscInit PROVE FetchInv /\ CddbInv
    OBVIOUS
  <1>1. disc \in Discs /\ mpc = "idle" /\ album = NoAlbum /\ ~Whole(file)
    BY DEF DiscInit, NoFile, File, Whole
  <1>2. FetchInv
    BY <1>1 DEF FetchInv, Unread, Saving, FileOfDisc
  <1>3. NoDisc \in OwnDiscs
    BY <1>1, ReleasesAreOwn DEF Releases
  <1>4. <<>> \in Seq(OwnLines) /\ <<>> \in Seq(OwnDiscs)
    BY EmptySeq
  <1>5. CddbInv
    BY <1>3, <1>4 DEF DiscInit, CddbInit, CddbInv, CddbStages
  <1> QED BY <1>2, <1>5

\* Every step of the fetch, of the client within it and of the changer keeps both.
LEMMA FetchNext == FetchInv /\ CddbInv /\ [DiscNext]_discVars => FetchInv' /\ CddbInv'
  <1> SUFFICES ASSUME FetchInv, CddbInv, [DiscNext]_discVars PROVE FetchInv' /\ CddbInv'
    OBVIOUS
  <1>1. /\ disc \in Discs /\ FileOfDisc(file) /\ (mpc # "idle" => OfDisc(album)) /\ (mpc = "idle" => album = NoAlbum)
        /\ (mpc \in Unread => ~Whole(file)) /\ (mpc \in Saving => is_metadata_good_for_caching(album))
        /\ (mpc = "served" /\ Whole(file) => is_metadata_good_for_caching(album))
    BY DEF FetchInv
  <1>2. ~Whole(NoFile) /\ FileOfDisc(NoFile)
    BY DEF Whole, NoFile, File, FileOfDisc
  <1>3. ASSUME UNCHANGED cddbVars, disc' = disc PROVE CddbInv'
    <2>1. OwnLines' = OwnLines /\ OwnDiscs' = OwnDiscs BY <1>3, SameDisc
    <2>2. inbox' = inbox /\ dsc' = dsc /\ hits' = hits /\ call' = call BY <1>3 DEF cddbVars
    <2> QED BY <1>3, <2>1, <2>2 DEF CddbInv, SameLength
  <1>4. CASE FetchAlbum
    <2>1. OfDisc(Album(Toc[disc]))
      BY <1>1, AlbumOfToc, NoTextIsOwn DEF OfDisc, SameTracks, OwnTitles
    <2>2. album' = Album(Toc[disc]) /\ mpc' = "load" /\ file' = file /\ disc' = disc /\ UNCHANGED cddbVars
      BY <1>4 DEF FetchAlbum
    <2> QED BY <2>1, <2>2, <1>1, <1>3, FetchInvNext DEF Unread, Saving
  <1>5. CASE Load
    <2> DEFINE read == ReadEntries(album, file.entries)
    <2>1. mpc = "load" /\ disc' = disc /\ UNCHANGED cddbVars BY <1>5 DEF Load
    <2>2. OfDisc(album) BY <2>1, <1>1
    <2>3. ASSUME Whole(file)
          PROVE  OfDisc(read.album) /\ (read.ok => is_metadata_good_for_caching(read.album))
      <3>1. PICK a : OfDisc(a) /\ is_metadata_good_for_caching(a) /\ file.entries = Entries(a)
        BY <2>3, <1>1 DEF FileOfDisc
      <3> QED BY <3>1, <2>2, <1>1, FileRead
    <2>4. \/ file.kind = "none" /\ mpc' = "cacheable" /\ album' = album /\ file' = file
          \/ file' = NoFile /\ mpc' = "cacheable" /\ album' = album
          \/ Whole(file) /\ file' = NoFile /\ mpc' = "cacheable" /\ album' = read.album
          \/ Whole(file) /\ read.ok /\ mpc' = "served" /\ album' = read.album /\ file' = file
      BY <1>5 DEF Load, NotServed
    <2> HIDE DEF read
    <2>5. CASE file.kind = "none" /\ mpc' = "cacheable" /\ album' = album /\ file' = file
      <3>1. ~Whole(file) BY <2>5 DEF Whole
      <3> QED BY <2>1, <2>2, <2>5, <3>1, <1>1, <1>3, FetchInvNext DEF Unread, Saving
    <2>6. CASE file' = NoFile /\ mpc' = "cacheable" /\ album' = album
      BY <2>1, <2>2, <2>6, <1>1, <1>2, <1>3, FetchInvNext DEF Unread, Saving
    <2>7. CASE Whole(file) /\ file' = NoFile /\ mpc' = "cacheable" /\ album' = read.album
      BY <2>1, <2>3, <2>7, <1>1, <1>2, <1>3, FetchInvNext DEF Unread, Saving
    <2>8. CASE Whole(file) /\ read.ok /\ mpc' = "served" /\ album' = read.album /\ file' = file
      BY <2>1, <2>3, <2>8, <1>1, <1>3, FetchInvNext DEF Unread, Saving
    <2> QED BY <2>4, <2>5, <2>6, <2>7, <2>8
  <1>6. CASE AskMusicBrainz
    <2>1. PICK r \in Releases(Toc[disc]) : album' = Filled(album, r)
      BY <1>6 DEF AskMusicBrainz, Asked
    <2>2. mpc = "cacheable" /\ mpc' = mpc /\ file' = file /\ disc' = disc /\ UNCHANGED cddbVars
      BY <1>6 DEF AskMusicBrainz
    <2>3. OfDisc(Filled(album, r))
      BY <2>2, <1>1, ReleasesAreOwn, FilledOfDisc
    <2>4. ~Whole(file)
      BY <2>2, <1>1 DEF Unread
    <2> QED BY <2>1, <2>2, <2>3, <2>4, <1>1, <1>3, FetchInvNext DEF Unread, Saving
  <1>7. CASE AskCddb
    <2>1. mpc = "cacheable" /\ mpc' = "cddb" /\ CddbBegin(Len(Toc[disc])) /\ disc' = disc /\ album' = album /\ file' = file
      BY <1>7 DEF AskCddb
    <2>2. CddbInv'
      BY <2>1, <1>1, CddbBeginKeeps
    <2>3. ~Whole(file) /\ OfDisc(album)
      BY <2>1, <1>1 DEF Unread
    <2> QED BY <2>1, <2>2, <2>3, <1>1, FetchInvNext DEF Unread, Saving
  <1>8. CASE TakeCddb
    <2>1. mpc = "cddb" /\ mpc' = "cacheable" /\ CddbEnd /\ disc' = disc /\ file' = file
          /\ album' = IF call = "found" THEN Filled(album, dsc) ELSE album
      BY <1>8 DEF TakeCddb, Asked
    <2>2. dsc \in OwnDiscs /\ OfDisc(album) /\ ~Whole(file)
      BY <2>1, <1>1 DEF CddbInv, Unread
    <2>3. OfDisc(album')
      BY <2>1, <2>2, <1>1, FilledOfDisc
    <2>4. NoDisc \in OwnDiscs /\ <<>> \in Seq(OwnDiscs) /\ <<>> \in Seq(OwnLines)
      BY <1>1, ReleasesAreOwn, EmptySeq DEF Releases
    <2>5. call' = "idle" /\ inbox' = <<>> /\ dsc' = NoDisc /\ hits' = <<>>
      BY <2>1 DEF CddbEnd, cddb_disconnect
    <2>6. CddbInv'
      BY <2>1, <2>4, <2>5, SameDisc DEF CddbInv, CddbStages
    <2> QED BY <2>1, <2>2, <2>3, <2>6, <1>1, FetchInvNext DEF Unread, Saving
  <1>9. CASE Collected
    <2>1. mpc = "cacheable" /\ album' = album /\ file' = file /\ disc' = disc /\ UNCHANGED cddbVars
          /\ (mpc' = "served" \/ (mpc' = "create" /\ is_metadata_good_for_caching(album)))
      BY <1>9 DEF Collected
    <2>2. ~Whole(file) /\ OfDisc(album)
      BY <2>1, <1>1 DEF Unread
    <2>3. mpc' # "idle" /\ (mpc' \in Saving => is_metadata_good_for_caching(album))
      BY <2>1 DEF Saving
    <2> QED BY <2>1, <2>2, <2>3, <1>1, <1>3, FetchInvNext
  <1>10. CASE Save
    <2>1. mpc \in Saving /\ disc' = disc /\ album' = album /\ UNCHANGED cddbVars
      BY <1>10 DEF Save, Saving
    <2>2. ~Whole(file) /\ OfDisc(album) /\ is_metadata_good_for_caching(album)
      BY <2>1, <1>1 DEF Unread, Saving
    <2>3. /\ mpc' = "served" \/ (mpc' \in Saving /\ ~Whole(file'))
          /\ FileOfDisc(file')
      <3>1. \/ mpc' = (IF mpc = "part" THEN "served" ELSE Grown(mpc)) /\ Stored(Grown(mpc))
            \/ mpc' = "served" /\ file' \in {file, NoFile}
            \/ mpc' = "served" /\ \E kind \in {"empty", "header", "part"} : Stored(kind)
        BY <1>10 DEF Save
      <3>2. CASE mpc' = "served" /\ file' \in {file, NoFile}
        BY <3>2, <1>1, <1>2
      <3>3. CASE mpc' = (IF mpc = "part" THEN "served" ELSE Grown(mpc)) /\ Stored(Grown(mpc))
        <4>1. CASE mpc = "part"
          <5>1. file' = File("full", Entries(album)) BY <3>3, <4>1 DEF Stored, Grown
          <5>2. file'.entries = Entries(album) BY <5>1 DEF File
          <5>3. FileOfDisc(file') BY <5>2, <2>2 DEF FileOfDisc
          <5> QED BY <5>3, <3>3, <4>1
        <4>2. CASE mpc # "part"
          <5>1. Grown(mpc) \in {"empty", "header", "part"} BY <2>1, <4>2 DEF Grown, Saving
          <5>2. file' = File(Grown(mpc), <<>>) BY <5>1, <3>3 DEF Stored
          <5>3. ~Whole(file') BY <5>1, <5>2 DEF Whole, File
          <5> QED BY <5>1, <5>3, <3>3, <4>2 DEF FileOfDisc, Saving
        <4> QED BY <4>1, <4>2
      <3>4. CASE mpc' = "served" /\ \E kind \in {"empty", "header", "part"} : Stored(kind)
        <4>1. PICK kind \in {"empty", "header", "part"} : file' = File(kind, <<>>) BY <3>4 DEF Stored
        <4>2. ~Whole(file') BY <4>1 DEF Whole, File
        <4> QED BY <3>4, <4>2 DEF FileOfDisc
      <3> QED BY <3>1, <3>2, <3>3, <3>4
    <2>4. mpc' # "idle" /\ (mpc' \in Unread => ~Whole(file'))
      BY <2>3 DEF Unread, Saving
    <2> QED BY <2>1, <2>2, <2>3, <2>4, <1>1, <1>3, FetchInvNext
  <1>11. CASE GiveArtists
    <2>1. mpc = "served" /\ mpc' = "others" /\ file' = file /\ disc' = disc /\ UNCHANGED cddbVars
          /\ album' = [album EXCEPT !.tracks = [i \in DOMAIN @ |-> OfAlbum(album.tracks[i], album.artist)]]
      BY <1>11 DEF GiveArtists
    <2>2. OfDisc(album')
      BY <2>1, <1>1, ArtistsOfDisc
    <2> QED BY <2>1, <2>2, <1>1, <1>3, FetchInvNext DEF Unread, Saving
  <1>12. ASSUME mpc = "others", mpc' = mpc, file' = file, disc' = disc, UNCHANGED cddbVars, OfDisc(album')
         PROVE  FetchInv' /\ CddbInv'
    BY <1>1, <1>3, <1>12, FetchInvNext DEF Unread, Saving
  <1>13. CASE AskCdText
    <2>1. PICK packs \in Subchannels(Len(Toc[disc])) : album' = CdText(album, packs)
      BY <1>13 DEF AskCdText
    <2>2. mpc = "others" /\ mpc' = mpc /\ file' = file /\ disc' = disc /\ UNCHANGED cddbVars
      BY <1>13 DEF AskCdText, AskOther
    <2>3. OfDisc(album')
      BY <2>1, <2>2, <1>1, CdTextOfDisc
    <2> QED BY <2>2, <2>3, <1>12
  <1>14. ASSUME NEW provider \in {"LrcLib", "NetEase", "QQ"}, AskForLyrics(provider) PROVE FetchInv' /\ CddbInv'
    <2>1. PICK found \in SUBSET DOMAIN album.tracks : album' = WithLyrics(album, provider, found)
      BY <1>14 DEF AskForLyrics
    <2>2. mpc = "others" /\ mpc' = mpc /\ file' = file /\ disc' = disc /\ UNCHANGED cddbVars
      BY <1>14 DEF AskForLyrics, AskOther
    <2>3. provider \in LyricsFrom
      BY DEF LyricsFrom
    <2>4. OfDisc(album')
      BY <2>1, <2>2, <2>3, <1>1, LyricsOfDisc
    <2> QED BY <2>2, <2>4, <1>12
  <1>15. CASE Fetched
    <2>1. mpc' = "idle" /\ album' = NoAlbum /\ file' = file /\ disc' = disc /\ UNCHANGED cddbVars
      BY <1>15 DEF Fetched
    <2> QED BY <2>1, <1>1, <1>3, FetchInvNext DEF Unread, Saving
  <1>16. CASE CddbStep /\ UNCHANGED metaVars
    <2>1. UNCHANGED <<mpc, album, file, disc>>
      BY <1>16 DEF metaVars
    <2>2. CddbInv'
      BY <1>16, <2>1, <1>1, CddbStepKeeps
    <2> QED BY <2>1, <2>2, <1>1, FetchInvNext
  <1>17. CASE ClearCache
    <2>1. mpc = "idle" /\ mpc' = mpc /\ album' = album /\ disc' = disc /\ file' \in {NoFile, file} /\ UNCHANGED cddbVars
      BY <1>17 DEF ClearCache
    <2>2. FileOfDisc(file') /\ album' = NoAlbum
      BY <2>1, <1>1, <1>2
    <2> QED BY <2>1, <2>2, <1>1, <1>3, FetchInvNext DEF Unread, Saving
  <1>18. CASE PowerLoss
    <2>1. mpc' = "idle" /\ album' = NoAlbum /\ disc' = disc
          /\ call' = "idle" /\ inbox' = <<>> /\ dsc' = NoDisc /\ hits' = <<>>
      BY <1>18 DEF PowerLoss
    <2>2. FileOfDisc(file')
      <3>1. CASE mpc \in {"empty", "header", "part"}
        <4>1. PICK i \in 1 .. 4 : /\ \E j \in i .. 4 : FileKinds[j] = mpc
                                  /\ file' = File(FileKinds[i], <<>>)
          BY <1>18, <3>1 DEF PowerLoss
        <4>2. FileKinds[i] # "full" BY DEF FileKinds
        <4> QED BY <4>1, <4>2 DEF FileOfDisc, Whole, File
      <3>2. CASE mpc \notin {"empty", "header", "part"}
        BY <1>18, <3>2, <1>1 DEF PowerLoss
      <3> QED BY <3>1, <3>2
    <2>3. NoDisc \in OwnDiscs /\ <<>> \in Seq(OwnDiscs) /\ <<>> \in Seq(OwnLines)
      BY <1>1, ReleasesAreOwn, EmptySeq DEF Releases
    <2>4. CddbInv'
      BY <2>1, <2>3, SameDisc DEF CddbInv, CddbStages
    <2> QED BY <2>1, <2>2, <2>4, <1>1, FetchInvNext DEF Unread, Saving
  <1>19. CASE UNCHANGED discVars
    <2>1. UNCHANGED <<mpc, album, file, disc>> /\ UNCHANGED cddbVars
      BY <1>19 DEF discVars, metaVars
    <2> QED BY <2>1, <1>1, <1>3, FetchInvNext
  <1> QED BY <1>4, <1>5, <1>6, <1>7, <1>8, <1>9, <1>10, <1>11, <1>13, <1>14, <1>15, <1>16, <1>17, <1>18, <1>19
          DEF DiscNext, FetchStep, AskLrcLib, AskNetEase, AskQQ

\* A title of an album is the title of its track, for every disc, every set of providers
\* and whatever they answer, where the tracks are counted as they are numbered.
THEOREM TitlesAreOfTheirTracks == DiscSpec => []TitlesOfOwnTrack
  <1>1. DiscInit => FetchInv /\ CddbInv
    BY FetchInit
  <1>2. FetchInv /\ CddbInv /\ [DiscNext]_discVars => FetchInv' /\ CddbInv'
    BY FetchNext
  <1>3. FetchInv => TitlesOfOwnTrack
    <2> SUFFICES ASSUME FetchInv, ~DataFirst, NEW i \in DOMAIN album.tracks PROVE OwnText(album.tracks[i].title, album.tracks[i].no)
      BY DEF TitlesOfOwnTrack
    <2>1. CASE mpc = "idle" BY <2>1 DEF FetchInv, NoAlbum
    <2>2. CASE mpc # "idle" BY <2>2 DEF FetchInv, OfDisc, OwnTitles
    <2> QED BY <2>1, <2>2
  <1> QED BY <1>1, <1>2, <1>3, PTL DEF DiscSpec

\* What is served from the cache is as good as what may be put there, for every disc and
\* whenever the power fails.
THEOREM CacheServesWhole == DiscSpec => []ServedWhole
  <1>1. DiscInit => FetchInv /\ CddbInv
    BY FetchInit
  <1>2. FetchInv /\ CddbInv /\ [DiscNext]_discVars => FetchInv' /\ CddbInv'
    BY FetchNext
  <1>3. FetchInv => ServedWhole
    BY DEF FetchInv, ServedWhole
  <1> QED BY <1>1, <1>2, <1>3, PTL DEF DiscSpec

-----------------------------------------------------------------------------
(* The lines of a file of lyrics *)

\* From the first character of a line to the last.
LEMMA ScanKeeps ==
  ASSUME NEW B, NEW E, NEW s \in Seq(E), AtStart \in B, \A x \in B, e \in E : Character(x, e) \in B,
         NEW J, AtStart \in J[0], \A i \in 1 .. Len(s) : \A x \in J[i - 1] : x \in B => Character(x, s[i]) \in J[i]
  PROVE  FoldLeft(Character, AtStart, s) \in B /\ FoldLeft(Character, AtStart, s) \in J[Len(s)]
  <1> DEFINE Step == [x \in B |-> [e \in E |-> Character(x, e)]]
             Iter(h) == h = [u \in SUBSET DOMAIN s |->
                               IF u = {} THEN AtStart ELSE Character(h[u \ {Max(u)}], s[Max(u)])]
  <1>1. DOMAIN s = 1 .. Len(s) /\ Len(s) \in Nat /\ \A u \in SUBSET DOMAIN s : u # {} => s[Max(u)] \in E
    <2>1. DOMAIN s = 1 .. Len(s) /\ Len(s) \in Nat
      OBVIOUS
    <2>2. ASSUME NEW u \in SUBSET (1 .. Len(s)), u # {} PROVE Max(u) \in u
      BY <2>1, <2>2, MaxIsIn
    <2> QED BY <2>1, <2>2
  <1>2. \E h : Iter(h)
    <2>1. Step \in [B -> [E -> B]]
      OBVIOUS
    <2>2. PICK h : IsFold(h, B, AtStart, Step, s)
      <3> HIDE DEF Step
      <3> QED BY <2>1, Unfolding
    <2>3. ASSUME NEW u \in SUBSET DOMAIN s
          PROVE  h[u] = IF u = {} THEN AtStart ELSE Character(h[u \ {Max(u)}], s[Max(u)])
      <3>1. h[u \ {Max(u)}] \in B BY <2>2 DEF IsFold
      <3>2. u # {} => Step[h[u \ {Max(u)}]][s[Max(u)]] = Character(h[u \ {Max(u)}], s[Max(u)])
        BY <1>1, <3>1
      <3> HIDE DEF Step
      <3> QED BY <2>2, <3>2 DEF IsFold
    <2>4. Iter(h)
      BY <2>2, <2>3 DEF IsFold
    <2> QED BY <2>4
  <1> DEFINE iter == CHOOSE h : Iter(h)
  <1>3. Iter(iter)
    BY <1>2
  <1> HIDE DEF iter
  <1> DEFINE K == [i \in 0 .. Len(s) |-> {x \in B : x \in J[i]}]
  <1>4. iter[{}] \in K[0]
    BY <1>1, <1>3
  <1>5. ASSUME NEW i \in 1 .. Len(s), iter[1 .. i - 1] \in K[i - 1] PROVE iter[1 .. i] \in K[i]
    <2>1. i \in 0 .. Len(s) /\ i - 1 \in 0 .. Len(s) /\ s[i] \in E BY <1>1
    <2>2. 1 .. i \in SUBSET DOMAIN s /\ 1 .. i # {} /\ Max(1 .. i) = i /\ (1 .. i) \ {i} = 1 .. i - 1
      BY <1>1, UpTo
    <2>3. iter[1 .. i] = Character(iter[1 .. i - 1], s[i])
      BY <1>3, <2>2
    <2>4. iter[1 .. i - 1] \in B /\ iter[1 .. i - 1] \in J[i - 1]
      BY <1>5, <2>1
    <2>5. iter[1 .. i] \in B /\ iter[1 .. i] \in J[i]
      BY <2>1, <2>3, <2>4
    <2> QED BY <2>1, <2>5
  <1>6. iter[1 .. Len(s)] \in K[Len(s)]
    <2> HIDE DEF K, Iter
    <2> QED BY <1>1, <1>4, <1>5, AlongPrefixes
  <1>7. FoldLeft(Character, AtStart, s) = iter[DOMAIN s]
    BY DEF FoldLeft, MapThenFoldSet, iter
  <1>8. Len(s) \in 0 .. Len(s)
    BY <1>1
  <1> QED BY <1>1, <1>6, <1>7, <1>8

Chars == [sign : {"[", "]", ":", ".", "blank", "a", "x", "digit"}, value : Digits10]
Scans == [over : BOOLEAN, token : BOOLEAN, skip_token : BOOLEAN, first_token : BOOLEAN,
          timepos : {"min", "sec", "centis"}, min : Nat, sec : Nat, centis : Nat,
          times : Seq(Nat), content : Seq(Chars)]

\* A character changes no time that is there.
LEMMA ScanTypes ==
  ASSUME NEW x \in Scans, NEW c \in Chars
  PROVE  /\ Character(x, c) \in Scans
         /\ x.times # <<>> => Character(x, c).times # <<>> /\ Character(x, c).times[1] = x.times[1]
  <1> DEFINE y == Character(x, c)
  <1>1. CASE x.over
    BY <1>1 DEF Character
  <1>2. CASE ~x.over /\ ~x.token
    <2>1. Append(x.content, c) \in Seq(Chars)
      BY DEF Scans
    <2>2. y = InText(x, c)
      BY <1>2 DEF Character
    <2>3. InText(x, c) \in Scans /\ InText(x, c).times = x.times
      BY <2>1 DEF InText, Scans
    <2> QED BY <2>2, <2>3
  <1>3. CASE ~x.over /\ x.token /\ x.skip_token
    BY <1>3 DEF Character, Scans
  <1>4. CASE ~x.over /\ x.token /\ ~x.skip_token
    <2>1. y = InToken(x, c)
      BY <1>4 DEF Character
    <2>2. CASE c.sign = "digit"
      <3>1. y = [x EXCEPT ![x.timepos] = x[x.timepos] * 10 + c.value]
        BY <2>1, <2>2 DEF InToken, Sign
      <3>2. c.value \in Nat
        BY DEF Chars, Digits10
      <3> HIDE DEF y
      <3>3. ASSUME x.timepos = "min" PROVE y \in Scans /\ y.times = x.times
        <4> DEFINE v == x.min * 10 + c.value
        <4>1. y = [x EXCEPT !.min = v]
          BY <3>1, <3>3 DEF Scans
        <4>2. v \in Nat
          BY <3>2 DEF Scans
        <4> HIDE DEF v
        <4> QED BY <4>1, <4>2 DEF Scans
      <3>4. ASSUME x.timepos = "sec" PROVE y \in Scans /\ y.times = x.times
        <4> DEFINE v == x.sec * 10 + c.value
        <4>1. y = [x EXCEPT !.sec = v]
          BY <3>1, <3>4 DEF Scans
        <4>2. v \in Nat
          BY <3>2 DEF Scans
        <4> HIDE DEF v
        <4> QED BY <4>1, <4>2 DEF Scans
      <3>5. ASSUME x.timepos = "centis" PROVE y \in Scans /\ y.times = x.times
        <4> DEFINE v == x.centis * 10 + c.value
        <4>1. y = [x EXCEPT !.centis = v]
          BY <3>1, <3>5 DEF Scans
        <4>2. v \in Nat
          BY <3>2 DEF Scans
        <4> HIDE DEF v
        <4> QED BY <4>1, <4>2 DEF Scans
      <3>6. y \in Scans /\ y.times = x.times
        BY <3>3, <3>4, <3>5 DEF Scans
      <3> QED BY <3>6 DEF y
    <2>3. CASE c = Sign("]")
      <3>1. total_millis(x) \in Nat
        <4> DEFINE m == x.min
                   e == x.sec
                   f == x.centis
        <4>1. m \in Nat /\ e \in Nat /\ f \in Nat
          BY DEF Scans
        <4>2. total_millis(x) = IF f < 100 THEN (f + 100 * (e + 60 * m)) * 10 ELSE f + 1000 * (e + 60 * m)
          BY DEF total_millis
        <4> HIDE DEF m, e, f
        <4>3. (f + 100 * (e + 60 * m)) * 10 \in Nat /\ f + 1000 * (e + 60 * m) \in Nat
          BY <4>1
        <4> QED BY <4>2, <4>3
      <3> DEFINE t == total_millis(x)
      <3>2. y = [x EXCEPT !.token = FALSE, !.first_token = TRUE, !.times = Append(x.times, t)]
        BY <2>1, <2>3 DEF InToken, Sign
      <3> HIDE DEF t
      <3>3. /\ x.times \in Seq(Nat) /\ Append(x.times, t) \in Seq(Nat)
            /\ x.times # <<>> => Append(x.times, t) # <<>> /\ Append(x.times, t)[1] = x.times[1]
        BY <3>1, SMTT(30) DEF Scans, t
      <3>4. y \in Scans /\ y.times = Append(x.times, t)
        BY <3>2, <3>3 DEF Scans
      <3> QED BY <3>3, <3>4
    <2>4. CASE c.sign # "digit" /\ c # Sign("]")
      <3>1. InToken(x, c) \in Scans /\ InToken(x, c).times = x.times
        BY <2>4 DEF InToken, Scans, Sign
      <3> QED BY <2>1, <3>1
    <2> QED BY <2>2, <2>3, <2>4 DEF Sign
  <1> QED BY <1>1, <1>2, <1>3, <1>4 DEF Scans

\* A stamp, sign by sign.
Places(s) == IF s.frac = <<>> THEN 0 ELSE Len(s.frac) + 1
IsStamp(t, s) ==
  /\ t \in Seq(Chars) /\ Len(t) = 7 + Places(s)
  /\ t[1] = Sign("[") /\ t[2] = Digit(s.min \div 10) /\ t[3] = Digit(s.min % 10)
  /\ t[4] = Sign(":") /\ t[5] = Digit(s.sec \div 10) /\ t[6] = Digit(s.sec % 10)
  /\ s.frac # <<>> => t[7] = Sign(".")
  /\ \A i \in DOMAIN s.frac : t[7 + i] = Digit(s.frac[i])
  /\ t[7 + Places(s)] = Sign("]")

\* The characters that files have.
LEMMA SignsAreChars ==
  /\ \A c \in {"[", "]", ":", ".", "blank", "a", "x"} : Sign(c) \in Chars
  /\ \A d \in Digits10 : Digit(d) \in Chars
  BY DEF Sign, Digit, Chars, Digits10

\* What a stamp says.
LEMMA StampTypes ==
  ASSUME NEW s \in Stamps
  PROVE  /\ s.min \in 0 .. 99 /\ s.sec \in 0 .. 59 /\ s.frac \in Seq(Digits10) /\ Len(s.frac) \in 0 .. 3
         /\ DOMAIN s.frac = 1 .. Len(s.frac)
  <1>1. s.min \in 0 .. 99 /\ s.sec \in 0 .. 59 /\ s.frac \in SeqOf(Digits10, 3)
    BY LrcAssumption
  <1>2. PICK m \in 0 .. 3 : s.frac \in [1 .. m -> Digits10]
    BY <1>1 DEF SeqOf
  <1>3. s.frac \in Seq(Digits10) /\ Len(s.frac) = m /\ DOMAIN s.frac = 1 .. m
    BY <1>2
  <1> QED BY <1>1, <1>3

\* The two digits of a number.
LEMMA TwoDigits ==
  ASSUME NEW n \in 0 .. 99
  PROVE  n \div 10 \in Digits10 /\ n % 10 \in Digits10 /\ (n \div 10) * 10 + (n % 10) = n
  BY DEF Digits10

\* What is written for a stamp, place by place.
LEMMA StampIsStamp ==
  ASSUME NEW s \in Stamps
  PROVE  IsStamp(Stamp(s), s)
  <1>1. /\ s.min \in 0 .. 99 /\ s.sec \in 0 .. 59 /\ s.frac \in Seq(Digits10) /\ Len(s.frac) \in 0 .. 3
        /\ DOMAIN s.frac = 1 .. Len(s.frac)
    BY StampTypes
  <1> DEFINE a == Minutes(s)
             dot == <<Sign(".")>>
             ds == [i \in DOMAIN s.frac |-> Digit(s.frac[i])]
             b == Fraction(s)
             c == <<Sign("]")>>
  <1>2. /\ a \in Seq(Chars) /\ Len(a) = 6
        /\ a[1] = Sign("[") /\ a[2] = Digit(s.min \div 10) /\ a[3] = Digit(s.min % 10)
        /\ a[4] = Sign(":") /\ a[5] = Digit(s.sec \div 10) /\ a[6] = Digit(s.sec % 10)
    <2>1. s.min \div 10 \in Digits10 /\ s.min % 10 \in Digits10 /\ s.sec \div 10 \in Digits10 /\ s.sec % 10 \in Digits10
      <3>1. s.sec \in 0 .. 99
        BY <1>1
      <3> QED BY <1>1, <3>1, TwoDigits
    <2> DEFINE m1 == Digit(s.min \div 10)
               m2 == Digit(s.min % 10)
               s1 == Digit(s.sec \div 10)
               s2 == Digit(s.sec % 10)
               l == Sign("[")
               r == Sign(":")
    <2>2. m1 \in Chars /\ m2 \in Chars /\ s1 \in Chars /\ s2 \in Chars /\ l \in Chars /\ r \in Chars
      BY <2>1, SignsAreChars
    <2>3. a = <<l, m1, m2, r, s1, s2>>
      BY DEF Minutes
    <2> HIDE DEF m1, m2, s1, s2, l, r, a
    <2>4. /\ a \in Seq(Chars) /\ Len(a) = 6 /\ a[1] = l /\ a[2] = m1 /\ a[3] = m2
          /\ a[4] = r /\ a[5] = s1 /\ a[6] = s2
      BY <2>2, <2>3
    <2> QED BY <2>4 DEF m1, m2, s1, s2, l, r
  <1>3. /\ b \in Seq(Chars) /\ Len(b) = Places(s)
        /\ s.frac # <<>> => b[1] = Sign(".")
        /\ \A i \in DOMAIN s.frac : b[1 + i] = Digit(s.frac[i])
    <2>1. CASE s.frac = <<>>
      BY <1>1, <2>1, EmptySeq DEF Fraction, Places
    <2>2. CASE s.frac # <<>>
      <3>1. dot \in Seq(Chars) /\ Len(dot) = 1 /\ dot[1] = Sign(".")
        BY SignsAreChars
      <3>2. ds \in Seq(Chars) /\ Len(ds) = Len(s.frac) /\ \A i \in DOMAIN s.frac : ds[i] = Digit(s.frac[i])
        BY <1>1, SignsAreChars
      <3>3. b = dot \o ds
        BY <2>2 DEF Fraction
      <3> HIDE DEF dot, ds, b
      <3>4. /\ dot \o ds \in Seq(Chars) /\ Len(dot \o ds) = Len(dot) + Len(ds)
            /\ \A i \in 1 .. Len(dot) + Len(ds) : (dot \o ds)[i] = IF i <= Len(dot) THEN dot[i] ELSE ds[i - Len(dot)]
        <4>1. dot \in Seq(Chars) /\ ds \in Seq(Chars) BY <3>1, <3>2
        <4> QED BY <4>1, ConcatProperties
      <3>5. b \in Seq(Chars) /\ Len(b) = 1 + Len(s.frac)
        BY <3>1, <3>2, <3>3, <3>4
      <3>6. b[1] = Sign(".")
        BY <1>1, <3>1, <3>2, <3>3, <3>4
      <3>7. ASSUME NEW i \in DOMAIN s.frac PROVE b[1 + i] = Digit(s.frac[i])
        <4>1. 1 + i \in 1 .. Len(dot) + Len(ds) /\ ~(1 + i <= Len(dot)) /\ (1 + i) - Len(dot) = i
          BY <1>1, <3>1, <3>2
        <4> QED BY <4>1, <3>2, <3>3, <3>4
      <3> QED BY <2>2, <1>1, <3>5, <3>6, <3>7 DEF Places
    <2> QED BY <2>1, <2>2
  <1>4. c \in Seq(Chars) /\ Len(c) = 1 /\ c[1] = Sign("]")
    BY SignsAreChars
  <1>5. Stamp(s) = (a \o b) \o c
    BY DEF Stamp
  <1> HIDE DEF a, b, c
  <1> DEFINE ab == a \o b
             t == ab \o c
  <1>6. /\ ab \in Seq(Chars) /\ Len(ab) = 6 + Places(s)
        /\ \A i \in 1 .. 6 + Places(s) : ab[i] = IF i <= 6 THEN a[i] ELSE b[i - 6]
    <2>1. /\ ab \in Seq(Chars) /\ Len(ab) = Len(a) + Len(b)
          /\ \A i \in 1 .. Len(a) + Len(b) : ab[i] = IF i <= Len(a) THEN a[i] ELSE b[i - Len(a)]
      BY <1>2, <1>3, ConcatProperties
    <2> HIDE DEF ab
    <2> QED BY <2>1, <1>2, <1>3
  <1> HIDE DEF ab
  <1>7. /\ t \in Seq(Chars) /\ Len(t) = 7 + Places(s)
        /\ \A i \in 1 .. 7 + Places(s) : t[i] = IF i <= 6 + Places(s) THEN ab[i] ELSE c[i - (6 + Places(s))]
    <2>1. Places(s) \in Nat
      BY <1>1 DEF Places
    <2>2. /\ t \in Seq(Chars) /\ Len(t) = Len(ab) + Len(c)
          /\ \A i \in 1 .. Len(ab) + Len(c) : t[i] = IF i <= Len(ab) THEN ab[i] ELSE c[i - Len(ab)]
      BY <1>4, <1>6, ConcatProperties
    <2> HIDE DEF t
    <2> QED BY <2>1, <2>2, <1>4, <1>6
  <1> HIDE DEF t
  <1>8. Places(s) \in Nat /\ (s.frac # <<>> => Places(s) = Len(s.frac) + 1)
    BY <1>1 DEF Places
  <1>9. \A i \in 1 .. 6 : t[i] = a[i]
    BY <1>6, <1>7, <1>8
  <1>10. s.frac # <<>> => t[7] = Sign(".")
    <2> SUFFICES ASSUME s.frac # <<>> PROVE t[7] = Sign(".")
      OBVIOUS
    <2>1. 7 \in 1 .. 6 + Places(s) /\ 7 \in 1 .. 7 + Places(s)
      BY <1>1, <1>8
    <2>2. t[7] = ab[7] /\ ab[7] = b[7 - 6]
      BY <2>1, <1>6, <1>7
    <2> QED BY <2>2, <1>3
  <1>11. ASSUME NEW i \in DOMAIN s.frac PROVE t[7 + i] = Digit(s.frac[i])
    <2>1. /\ 7 + i \in 1 .. 6 + Places(s) /\ 7 + i \in 1 .. 7 + Places(s) /\ (7 + i) - 6 = 1 + i
          /\ ~(7 + i <= 6)
      BY <1>1, <1>8
    <2>2. t[7 + i] = ab[7 + i] /\ ab[7 + i] = b[1 + i]
      BY <2>1, <1>6, <1>7
    <2> QED BY <2>2, <1>3
  <1>12. t[7 + Places(s)] = Sign("]")
    <2>1. 7 + Places(s) \in 1 .. 7 + Places(s) /\ (7 + Places(s)) - (6 + Places(s)) = 1 /\ ~(7 + Places(s) <= 6 + Places(s))
      BY <1>8
    <2> QED BY <2>1, <1>4, <1>7
  <1>13. IsStamp(t, s)
    BY <1>2, <1>7, <1>9, <1>10, <1>11, <1>12 DEF IsStamp
  <1> QED BY <1>5, <1>13 DEF t, ab

\* Inside of a stamp.
Inside(x) == ~x.over /\ x.token /\ ~x.skip_token

\* What a character does there: a digit goes to the number that is being read.
LEMMA InStamp ==
  ASSUME NEW x \in Scans, Inside(x)
  PROVE  /\ \A d \in Digits10 :
              /\ x.timepos = "min" => Character(x, Digit(d)) = [x EXCEPT !.min = x.min * 10 + d]
              /\ x.timepos = "sec" => Character(x, Digit(d)) = [x EXCEPT !.sec = x.sec * 10 + d]
              /\ x.timepos = "centis" => Character(x, Digit(d)) = [x EXCEPT !.centis = x.centis * 10 + d]
         /\ Character(x, Sign(":")) = [x EXCEPT !.timepos = "sec"]
         /\ Character(x, Sign(".")) = [x EXCEPT !.timepos = "centis"]
         /\ Character(x, Sign("]")).times = Append(x.times, total_millis(x))
  <1>1. \A c : Character(x, c) = InToken(x, c)
    BY DEF Character, Inside
  <1>2. ASSUME NEW d \in Digits10
        PROVE  Character(x, Digit(d)) = [x EXCEPT ![x.timepos] = x[x.timepos] * 10 + d]
    BY <1>1 DEF InToken, Digit, Sign
  <1>3. ASSUME NEW d \in Digits10
        PROVE  /\ x.timepos = "min" => Character(x, Digit(d)) = [x EXCEPT !.min = x.min * 10 + d]
               /\ x.timepos = "sec" => Character(x, Digit(d)) = [x EXCEPT !.sec = x.sec * 10 + d]
               /\ x.timepos = "centis" => Character(x, Digit(d)) = [x EXCEPT !.centis = x.centis * 10 + d]
    BY <1>2 DEF Scans
  <1>4. InToken(x, Sign(":")) = [x EXCEPT !.timepos = "sec"] /\ InToken(x, Sign(".")) = [x EXCEPT !.timepos = "centis"]
    BY DEF InToken, Sign
  <1>5. InToken(x, Sign("]")) = [x EXCEPT !.token = FALSE, !.first_token = TRUE, !.times = Append(x.times, total_millis(x))]
    BY DEF InToken, Sign
  <1>6. Character(x, Sign("]")).times = Append(x.times, total_millis(x))
    <2> DEFINE v == Append(x.times, total_millis(x))
    <2> HIDE DEF v
    <2>1. InToken(x, Sign("]")) = [x EXCEPT !.token = FALSE, !.first_token = TRUE, !.times = v]
      BY <1>5 DEF v
    <2>2. InToken(x, Sign("]")).times = v
      BY <2>1 DEF Scans
    <2> QED BY <1>1, <2>2 DEF v
  <1> QED BY <1>1, <1>3, <1>4, <1>6

\* After i characters of a stamp, before its end.
FractionRead(s, k) ==
  IF k = 0 THEN 0 ELSE IF k = 1 THEN s.frac[1] ELSE IF k = 2 THEN s.frac[1] * 10 + s.frac[2]
  ELSE (s.frac[1] * 10 + s.frac[2]) * 10 + s.frac[3]
Scanned(x, i, s) ==
  /\ Inside(x) /\ x.times = <<>>
  /\ x.timepos = IF i < 4 THEN "min" ELSE IF i < 7 THEN "sec" ELSE "centis"
  /\ x.min = IF i = 1 THEN 0 ELSE IF i = 2 THEN s.min \div 10 ELSE s.min
  /\ x.sec = IF i < 5 THEN 0 ELSE IF i = 5 THEN s.sec \div 10 ELSE s.sec
  /\ x.centis = IF i < 8 THEN 0 ELSE FractionRead(s, i - 7)

\* The bracket that opens the first stamp.
LEMMA StampBegins ==
  ASSUME NEW s \in Stamps, NEW t, IsStamp(t, s)
  PROVE  Character(AtStart, t[1]) \in Scans /\ Scanned(Character(AtStart, t[1]), 1, s)
  <1>1. t[1] = Sign("[") /\ t[1] \in Chars
    BY SignsAreChars DEF IsStamp
  <1>2. AtStart \in Scans
    BY EmptySeq DEF AtStart, Scans
  <1>3. Character(AtStart, Sign("[")) = [AtStart EXCEPT !.token = TRUE, !.skip_token = FALSE, !.min = 0, !.sec = 0, !.centis = 0]
    BY DEF Character, InText, AtStart
  <1>4. Scanned(Character(AtStart, t[1]), 1, s)
    <2> DEFINE y == Character(AtStart, Sign("["))
    <2>1. /\ ~y.over /\ y.token /\ ~y.skip_token /\ y.times = <<>> /\ y.timepos = "min"
          /\ y.min = 0 /\ y.sec = 0 /\ y.centis = 0
      <3> HIDE DEF y
      <3>1. y = [AtStart EXCEPT !.token = TRUE, !.skip_token = FALSE, !.min = 0, !.sec = 0, !.centis = 0]
        BY <1>3 DEF y
      <3> QED BY <3>1 DEF AtStart
    <2> HIDE DEF y
    <2>2. Scanned(y, 1, s)
      BY <2>1 DEF Scanned, Inside
    <2> QED BY <1>1, <2>2 DEF y
  <1> QED BY <1>1, <1>2, <1>4, ScanTypes

\* Each character up to the one that closes it.
LEMMA StampGoesOn ==
  ASSUME NEW s \in Stamps, NEW t, IsStamp(t, s), NEW i \in 2 .. 6 + Places(s),
         NEW x \in Scans, Scanned(x, i - 1, s)
  PROVE  Scanned(Character(x, t[i]), i, s)
  <1> DEFINE y == Character(x, t[i])
  <1>1. /\ s.min \in 0 .. 99 /\ s.sec \in 0 .. 59 /\ s.frac \in Seq(Digits10) /\ Len(s.frac) \in 0 .. 3
        /\ DOMAIN s.frac = 1 .. Len(s.frac) /\ s.sec \in 0 .. 99
    BY StampTypes
  <1>2. Inside(x)
    BY DEF Scanned
  <1>3. /\ s.min \div 10 \in Digits10 /\ s.min % 10 \in Digits10 /\ (s.min \div 10) * 10 + (s.min % 10) = s.min
        /\ s.sec \div 10 \in Digits10 /\ s.sec % 10 \in Digits10 /\ (s.sec \div 10) * 10 + (s.sec % 10) = s.sec
    BY <1>1, TwoDigits
  <1>4. Digits10 \subseteq Nat
    BY DEF Digits10
  <1>5. CASE i = 2
    <2>1. y = [x EXCEPT !.min = x.min * 10 + (s.min \div 10)]
      BY <1>2, <1>3, <1>5, InStamp DEF Scanned, IsStamp
    <2>2. x.min * 10 + (s.min \div 10) = s.min \div 10
      <3>1. x.min = 0
        BY <1>5 DEF Scanned
      <3>2. s.min \div 10 \in Nat
        BY <1>3, <1>4
      <3> QED BY <3>1, <3>2
    <2>3. y = [x EXCEPT !.min = s.min \div 10]
      BY <2>1, <2>2
    <2> HIDE DEF y
    <2>4. Scanned(y, 2, s)
      BY <1>5, <2>3 DEF Scanned, Scans, Inside
    <2> QED BY <1>5, <2>4 DEF y
  <1>6. CASE i = 3
    <2>1. y = [x EXCEPT !.min = x.min * 10 + (s.min % 10)]
      BY <1>2, <1>3, <1>6, InStamp DEF Scanned, IsStamp
    <2>2. x.min * 10 + (s.min % 10) = s.min
      BY <1>3, <1>4, <1>6 DEF Scanned
    <2>3. y = [x EXCEPT !.min = s.min]
      BY <2>1, <2>2
    <2> HIDE DEF y
    <2>4. Scanned(y, 3, s)
      BY <1>6, <2>3 DEF Scanned, Scans, Inside
    <2> QED BY <1>6, <2>4 DEF y
  <1>7. CASE i = 4
    <2>1. y = [x EXCEPT !.timepos = "sec"]
      BY <1>2, <1>7, InStamp DEF IsStamp
    <2> HIDE DEF y
    <2>2. Scanned(y, 4, s)
      BY <1>7, <2>1 DEF Scanned, Scans, Inside
    <2> QED BY <1>7, <2>2 DEF y
  <1>8. CASE i = 5
    <2>1. y = [x EXCEPT !.sec = x.sec * 10 + (s.sec \div 10)]
      BY <1>2, <1>3, <1>8, InStamp, SMTT(30) DEF Scanned, IsStamp
    <2>2. x.sec * 10 + (s.sec \div 10) = s.sec \div 10
      <3>1. x.sec = 0
        BY <1>8 DEF Scanned
      <3>2. s.sec \div 10 \in Nat
        BY <1>3, <1>4
      <3> QED BY <3>1, <3>2
    <2>3. y = [x EXCEPT !.sec = s.sec \div 10]
      BY <2>1, <2>2
    <2> HIDE DEF y
    <2>4. Scanned(y, 5, s)
      BY <1>8, <2>3 DEF Scanned, Scans, Inside
    <2> QED BY <1>8, <2>4 DEF y
  <1>9. CASE i = 6
    <2>1. y = [x EXCEPT !.sec = x.sec * 10 + (s.sec % 10)]
      <3>1. x.timepos = "sec" /\ t[i] = Digit(s.sec % 10)
        BY <1>9 DEF Scanned, IsStamp
      <3> QED BY <1>2, <1>3, <3>1, InStamp
    <2>2. x.sec * 10 + (s.sec % 10) = s.sec
      BY <1>3, <1>4, <1>9 DEF Scanned
    <2>3. y = [x EXCEPT !.sec = s.sec]
      BY <2>1, <2>2
    <2> HIDE DEF y
    <2>4. Scanned(y, 6, s)
      BY <1>9, <2>3 DEF Scanned, Scans, Inside
    <2> QED BY <1>9, <2>4 DEF y
  <1>10. CASE i = 7
    <2>1. s.frac # <<>>
      BY <1>10 DEF Places
    <2>2. y = [x EXCEPT !.timepos = "centis"]
      BY <1>2, <1>10, <2>1, InStamp DEF IsStamp
    <2> HIDE DEF y
    <2>3. Scanned(y, 7, s)
      BY <1>10, <2>2 DEF Scanned, Scans, Inside
    <2> QED BY <1>10, <2>3 DEF y
  <1>11. CASE i > 7
    <2>1. s.frac # <<>> /\ i - 7 \in DOMAIN s.frac /\ i \in {8, 9, 10} /\ 7 + (i - 7) = i
      <3>1. s.frac # <<>> /\ Places(s) = Len(s.frac) + 1
        BY <1>11 DEF Places
      <3> DEFINE n == Len(s.frac)
      <3>2. n \in 0 .. 3 /\ DOMAIN s.frac = 1 .. n /\ i \in 2 .. 7 + n
        BY <1>1, <3>1
      <3> HIDE DEF n
      <3> QED BY <1>11, <3>1, <3>2
    <2> DEFINE d == s.frac[i - 7]
    <2>2. t[i] = Digit(d) /\ d \in Digits10 /\ d \in Nat
      <3>1. t[7 + (i - 7)] = Digit(s.frac[i - 7])
        BY <2>1 DEF IsStamp
      <3>2. s.frac[i - 7] \in Digits10
        BY <1>1, <2>1
      <3> QED BY <1>4, <2>1, <3>1, <3>2
    <2>3. x.timepos = "centis"
      BY <1>11 DEF Scanned
    <2>4. y = [x EXCEPT !.centis = x.centis * 10 + d]
      <3> HIDE DEF d
      <3> QED BY <1>2, <2>2, <2>3, InStamp
    <2>5. x.centis * 10 + d = FractionRead(s, i - 7)
      <3>1. i = 8 => x.centis = 0
        BY DEF Scanned
      <3>2. i = 9 => x.centis = s.frac[1]
        BY DEF Scanned, FractionRead
      <3>3. i = 10 => x.centis = s.frac[1] * 10 + s.frac[2]
        BY DEF Scanned, FractionRead
      <3> QED BY <2>1, <2>2, <3>1, <3>2, <3>3 DEF FractionRead
    <2>6. y = [x EXCEPT !.centis = FractionRead(s, i - 7)]
      BY <2>4, <2>5
    <2> HIDE DEF y, d
    <2> DEFINE v == FractionRead(s, i - 7)
    <2>7. y.centis = v /\ y.times = x.times /\ y.timepos = x.timepos /\ y.min = x.min /\ y.sec = x.sec
          /\ y.over = x.over /\ y.token = x.token /\ y.skip_token = x.skip_token
      <3> HIDE DEF v
      <3> QED BY <2>6 DEF Scans, v
    <2>8. Scanned(y, i, s)
      BY <1>11, <2>7 DEF Scanned, Inside
    <2> QED BY <2>8 DEF y
  <1> QED BY <1>5, <1>6, <1>7, <1>8, <1>9, <1>10, <1>11

\* Where it ends it is read to the second, however its fraction is written.
LEMMA StampEnds ==
  ASSUME NEW s \in Stamps, NEW x \in Scans, Scanned(x, 6 + Places(s), s)
  PROVE  LET times == Character(x, Sign("]")).times
         IN  times # <<>> /\ times[1] \in Nat /\ times[1] \div 1000 = WrittenTime(s) \div 1000 /\ WrittenTime(s) \in Nat
  <1> DEFINE n == Len(s.frac)
             S == s.min * 60 + s.sec
             v == FractionRead(s, n)
             place(i) == IF i \in DOMAIN s.frac THEN s.frac[i] ELSE 0
             w == 100 * place(1) + 10 * place(2) + place(3)
  <1>1. /\ s.min \in 0 .. 99 /\ s.sec \in 0 .. 59 /\ s.frac \in Seq(Digits10) /\ n \in 0 .. 3
        /\ DOMAIN s.frac = 1 .. n
    BY StampTypes
  <1>2. x.times = <<>> /\ x.min = s.min /\ x.sec = s.sec /\ x.centis = v /\ Inside(x)
    <2>1. n = 0 <=> s.frac = <<>>
      BY <1>1
    <2>2. Places(s) = (IF n = 0 THEN 0 ELSE n + 1)
      BY <2>1 DEF Places
    <2>3. x.centis = v
      BY <1>1, <2>2, SMTT(30) DEF Scanned, FractionRead
    <2> QED BY <1>1, <2>2, <2>3 DEF Scanned
  <1>3. \A i \in 1 .. n : s.frac[i] \in 0 .. 9
    BY <1>1 DEF Digits10
  <1>4. v \in 0 .. 999 /\ w \in 0 .. 999
    <2>1. v \in 0 .. 999
      <3>1. n >= 1 => s.frac[1] \in 0 .. 9
        BY <1>1, <1>3
      <3>2. n >= 2 => s.frac[2] \in 0 .. 9
        BY <1>1, <1>3
      <3>3. n >= 3 => s.frac[3] \in 0 .. 9
        BY <1>1, <1>3
      <3>4. n = 0 \/ n = 1 \/ n = 2 \/ n = 3
        BY <1>1
      <3> HIDE DEF n
      <3>5. CASE n = 0 BY <3>5 DEF FractionRead
      <3>6. CASE n = 1 BY <3>1, <3>6 DEF FractionRead
      <3>7. CASE n = 2
        <4> DEFINE a == s.frac[1]
                   b == s.frac[2]
        <4>1. v = a * 10 + b
          BY <3>7 DEF FractionRead
        <4>2. a \in 0 .. 9 /\ b \in 0 .. 9
          BY <3>1, <3>2, <3>7
        <4> HIDE DEF a, b, v
        <4> QED BY <4>1, <4>2
      <3>8. CASE n = 3
        <4> DEFINE a == s.frac[1]
                   b == s.frac[2]
                   c == s.frac[3]
        <4>1. v = (a * 10 + b) * 10 + c
          BY <3>8 DEF FractionRead
        <4>2. a \in 0 .. 9 /\ b \in 0 .. 9 /\ c \in 0 .. 9
          BY <3>1, <3>2, <3>3, <3>8
        <4> HIDE DEF a, b, c, v
        <4> QED BY <4>1, <4>2
      <3> QED BY <3>4, <3>5, <3>6, <3>7, <3>8
    <2>2. place(1) \in 0 .. 9 /\ place(2) \in 0 .. 9 /\ place(3) \in 0 .. 9
      BY <1>1, <1>3
    <2> HIDE DEF place
    <2>3. w \in 0 .. 999
      BY <2>2
    <2> QED BY <2>1, <2>3, SMTT(30)
  <1> HIDE DEF v, w
  <1>5. S \in Nat /\ s.sec + 60 * s.min = S
    <2>1. s.min \in Nat /\ s.sec \in Nat
      <3>1. s.min \in 0 .. 99 /\ s.sec \in 0 .. 59 BY <1>1
      <3> QED BY <3>1
    <2> QED BY <2>1
  <1>6. total_millis(x) = IF v < 100 THEN (v + 100 * S) * 10 ELSE v + 1000 * S
    BY <1>2, <1>5 DEF total_millis
  <1> HIDE DEF S
  <1> DEFINE f == IF v < 100 THEN v * 10 ELSE v
  <1>7. f \in 0 .. 999 /\ total_millis(x) = 1000 * S + f
    <2>1. CASE v < 100
      BY <1>4, <1>5, <1>6, <2>1
    <2>2. CASE ~(v < 100)
      BY <1>4, <1>5, <1>6, <2>2
    <2> QED BY <2>1, <2>2
  <1> HIDE DEF f
  <1>8. total_millis(x) \in Nat /\ total_millis(x) \div 1000 = S
    BY <1>5, <1>7
  <1>9. WrittenTime(s) = 1000 * S + w
    <2>1. WrittenTime(s) = (s.min * 60 + s.sec) * 1000 + 100 * place(1) + 10 * place(2) + place(3)
      BY DEF WrittenTime
    <2>2. place(1) \in Nat /\ place(2) \in Nat /\ place(3) \in Nat
      BY <1>1, <1>3, SMTT(30)
    <2> HIDE DEF place
    <2> QED BY <1>5, <2>1, <2>2 DEF S, w
  <1>10. WrittenTime(s) \in Nat /\ WrittenTime(s) \div 1000 = S
    BY <1>4, <1>5, <1>9
  <1> DEFINE times == Character(x, Sign("]")).times
  <1>11. times = <<total_millis(x)>>
    <2>1. times = Append(<<>>, total_millis(x))
      BY <1>2, InStamp
    <2> QED BY <2>1
  <1> HIDE DEF times
  <1>12. times # <<>> /\ times[1] = total_millis(x)
    BY <1>11
  <1> QED BY <1>8, <1>10, <1>12 DEF times

\* A line of a file has stamps and a text.
LEMMA FileLine ==
  ASSUME NEW line \in FileLines
  PROVE  /\ line.text \in Texts \cup {Tag}
         /\ line.stamps # <<>> => line.stamps \in Seq(Stamps) /\ line.stamps[1] \in Stamps
  <1>1. MoreStamps \subseteq Stamps
    BY LrcAssumption
  <1>2. ASSUME NEW l \in StampLists PROVE l \in Seq(Stamps) /\ l[1] \in Stamps
    <2>1. CASE \E s \in Stamps : l = <<s>>
      BY <2>1
    <2>2. CASE \E s \in Stamps, m \in MoreStamps : l = <<s, m>>
      BY <1>1, <2>2
    <2> QED BY <2>1, <2>2 DEF StampLists
  <1> QED BY <1>2 DEF FileLines

\* What a file has for a line: its characters, and its first stamp before any others.
LEMMA LineBegins ==
  ASSUME NEW line \in FileLines
  PROVE  /\ Characters(line) \in Seq(Chars)
         /\ line.stamps = <<>> => Characters(line) = line.text /\ line.text \in Texts \cup {Tag}
         /\ line.stamps # <<>> =>
              /\ line.stamps[1] \in Stamps /\ Len(Stamp(line.stamps[1])) <= Len(Characters(line))
              /\ \A i \in 1 .. Len(Stamp(line.stamps[1])) : Characters(line)[i] = Stamp(line.stamps[1])[i]
  <1> DEFINE ss == [i \in DOMAIN line.stamps |-> Stamp(line.stamps[i])]
             flat == FlattenSeq(ss)
             text == line.text
  <1>1. text \in Texts \cup {Tag} /\ text \in Seq(Chars)
    <2>1. line.text \in Texts \cup {Tag}
      BY FileLine
    <2>2. <<Sign("blank"), Sign("a")>> \in Seq(Chars)
      BY SignsAreChars
    <2>3. 2 \in Digits10 /\ 1 \in Digits10
      BY DEF Digits10
    <2>4. <<Sign("a"), Sign("["), Sign("x"), Digit(2), Sign("]")>> \in Seq(Chars)
      <3>1. Sign("a") \in Chars /\ Sign("[") \in Chars /\ Sign("x") \in Chars /\ Digit(2) \in Chars /\ Sign("]") \in Chars
        BY <2>3, SignsAreChars
      <3> QED BY <3>1
    <2>5. Tag \in Seq(Chars)
      <3>1. Sign("[") \in Chars /\ Sign("a") \in Chars /\ Sign(":") \in Chars /\ Digit(1) \in Chars /\ Sign("]") \in Chars
        BY <2>3, SignsAreChars
      <3> QED BY <3>1 DEF Tag
    <2> QED BY <2>1, <2>2, <2>4, <2>5, EmptySeq DEF Texts
  <1>2. CASE line.stamps = <<>>
    <2>1. ss = <<>>
      BY <1>2
    <2>2. flat = <<>>
      BY <2>1 DEF FlattenSeq
    <2>3. Characters(line) = <<>> \o text
      BY <2>2 DEF Characters
    <2> HIDE DEF text
    <2> QED BY <1>1, <1>2, <2>3 DEF text
  <1>3. CASE line.stamps # <<>>
    <2> DEFINE s == line.stamps[1]
    <2>1. line.stamps \in Seq(Stamps) /\ s \in Stamps
      BY <1>3, FileLine
    <2> DEFINE st == line.stamps
               n == Len(st)
    <2>2. n \in Nat /\ n >= 1 /\ DOMAIN st = 1 .. n /\ \A i \in 1 .. n : st[i] \in Stamps
      BY <1>3, <2>1
    <2>3. \A z \in Stamps : Stamp(z) \in Seq(Chars)
      BY StampIsStamp DEF IsStamp
    <2>4. ss \in Seq(Seq(Chars)) /\ Len(ss) = n /\ ss # <<>> /\ ss[1] = Stamp(s)
      BY <2>1, <2>2, <2>3
    <2> HIDE DEF ss, n, st
    <2>5. PICK f : f[1] = ss[1] /\ (\A i \in 2 .. Len(ss) : f[i] = f[i - 1] \o ss[i]) /\ flat = f[Len(ss)]
      BY <2>4, FlattenGrows
    <2> DEFINE a == Stamp(s)
               Begins(r) == r \in Seq(Chars) /\ Len(a) <= Len(r) /\ \A i \in 1 .. Len(a) : r[i] = a[i]
               N == {k \in Nat : k + 1 <= n => Begins(f[k + 1])}
    <2>6. ASSUME NEW r, Begins(r), NEW q \in Seq(Chars) PROVE Begins(r \o q)
      <3> HIDE DEF a
      <3>1. r \in Seq(Chars) /\ q \in Seq(Chars)
        BY <2>6
      <3>2. /\ r \o q \in Seq(Chars) /\ Len(r \o q) = Len(r) + Len(q) /\ Len(r) \in Nat /\ Len(q) \in Nat
            /\ \A i \in 1 .. Len(r) + Len(q) : (r \o q)[i] = IF i <= Len(r) THEN r[i] ELSE q[i - Len(r)]
        BY <3>1, ConcatProperties
      <3> DEFINE u == r \o q
      <3> HIDE DEF u
      <3>3. /\ u \in Seq(Chars) /\ Len(u) = Len(r) + Len(q)
            /\ \A i \in 1 .. Len(r) + Len(q) : u[i] = IF i <= Len(r) THEN r[i] ELSE q[i - Len(r)]
        BY <3>2 DEF u
      <3>4. a \in Seq(Chars) /\ Len(a) \in Nat
        BY <2>1, <2>3 DEF a
      <3>5. \A i \in 1 .. Len(a) : u[i] = a[i]
        BY <2>6, <3>2, <3>3, <3>4
      <3>6. Begins(u)
        BY <2>6, <3>2, <3>3, <3>4, <3>5
      <3> QED BY <3>6 DEF u
    <2>7. 0 \in N
      <3>1. Begins(f[1])
        BY <2>3, <2>4, <2>5
      <3> QED BY <3>1
    <2>8. ASSUME NEW k \in Nat, k \in N PROVE k + 1 \in N
      <3> SUFFICES ASSUME (k + 1) + 1 <= n PROVE Begins(f[(k + 1) + 1])
        OBVIOUS
      <3>1. (k + 1) + 1 \in 2 .. Len(ss) /\ ((k + 1) + 1) - 1 = k + 1 /\ k + 1 <= n
        BY <2>2, <2>4
      <3>2. f[(k + 1) + 1] = f[k + 1] \o ss[(k + 1) + 1]
        BY <2>5, <3>1
      <3>3. Begins(f[k + 1])
        BY <2>8, <3>1
      <3>4. ss[(k + 1) + 1] \in Seq(Chars)
        BY <2>4, <3>1
      <3> HIDE DEF Begins
      <3> QED BY <2>6, <3>2, <3>3, <3>4
    <2>9. Begins(flat)
      <3> HIDE DEF Begins, N
      <3>1. n - 1 \in N
        <4>1. n - 1 \in Nat BY <2>2
        <4> QED BY <2>7, <2>8, <4>1, Counting
      <3>2. (n - 1) + 1 = n
        BY <2>2
      <3> QED BY <2>2, <2>4, <2>5, <3>1, <3>2 DEF N
    <2>10. Begins(flat \o text)
      <3> HIDE DEF Begins, flat, text
      <3> QED BY <1>1, <2>6, <2>9
    <2>11. Characters(line) = flat \o text
      BY DEF Characters, ss
    <2> QED BY <1>3, <2>1, <2>10, <2>11
  <1> QED BY <1>2, <1>3

\* The first character: a line has to begin with a bracket.
LEMMA FirstCharacter ==
  /\ Character(AtStart, Sign("[")) = [AtStart EXCEPT !.token = TRUE, !.skip_token = FALSE, !.min = 0, !.sec = 0, !.centis = 0]
  /\ \A c : c # Sign("[") => Character(AtStart, c) = [AtStart EXCEPT !.over = TRUE]
  <1>1. Character(AtStart, Sign("[")) = [AtStart EXCEPT !.token = TRUE, !.skip_token = FALSE, !.min = 0, !.sec = 0, !.centis = 0]
    BY DEF Character, InText, AtStart
  <1>2. ASSUME NEW c, c # Sign("[") PROVE Character(AtStart, c) = [AtStart EXCEPT !.over = TRUE]
    <2>1. ~AtStart.over /\ ~AtStart.token /\ ~AtStart.first_token
      BY DEF AtStart
    <2> QED BY <1>2, <2>1 DEF Character, InText
  <1> QED BY <1>1, <1>2

\* A line without a stamp has no time.
LEMMA NoStampNoTime ==
  ASSUME NEW line \in FileLines, line.stamps = <<>>
  PROVE  process_lrc_line(line) = <<>>
  <1> DEFINE t == line.text
             x == FoldLeft(Character, AtStart, t)
  <1>1. t \in Seq(Chars) /\ Characters(line) = t /\ t \in Texts \cup {Tag} /\ Len(t) \in Nat
    BY LineBegins
  <1>2. \A y \in Scans, c \in Chars : Character(y, c) \in Scans
    BY ScanTypes
  <1>3. AtStart \in Scans
    BY EmptySeq DEF AtStart, Scans
  <1>4. CASE t = Tag
    <2> DEFINE J == [i \in 0 .. 5 |-> {y \in Scans : /\ y.times = <<>> /\ ~y.over
                                                     /\ i = 0 => y = AtStart
                                                     /\ i = 1 => y.token /\ ~y.skip_token
                                                     /\ i \in 2 .. 4 => y.token /\ y.skip_token}]
    <2>1. Len(t) = 5 /\ t[1] = Sign("[") /\ t[2] = Sign("a")
      BY <1>4 DEF Tag
    <2>2. AtStart \in J[0]
      BY <1>3 DEF AtStart
    <2>3. ASSUME NEW i \in 1 .. 5, NEW y \in J[i - 1], y \in Scans PROVE Character(y, t[i]) \in J[i]
      <3> DEFINE z == Character(y, t[i])
      <3>1. /\ y.times = <<>> /\ ~y.over
            /\ i = 1 => y = AtStart
            /\ i = 2 => y.token /\ ~y.skip_token
            /\ i \in 3 .. 5 => y.token /\ y.skip_token
        OBVIOUS
      <3>2. z \in Scans
        BY <1>1, <1>2, <2>1
      <3>3. CASE i = 1
        <4>1. z = [AtStart EXCEPT !.token = TRUE, !.skip_token = FALSE, !.min = 0, !.sec = 0, !.centis = 0]
          BY <2>1, <3>1, <3>3, FirstCharacter
        <4>2. z.token /\ ~z.skip_token /\ ~z.over /\ z.times = <<>>
          BY <4>1 DEF AtStart
        <4> HIDE DEF z
        <4> QED BY <3>2, <3>3, <4>2 DEF z
      <3>4. CASE i = 2
        <4>1. z = InToken(y, Sign("a"))
          BY <2>1, <3>1, <3>4 DEF Character
        <4>2. InToken(y, Sign("a")) = [y EXCEPT !.skip_token = TRUE]
          BY DEF InToken, Sign
        <4>3. z.token /\ z.skip_token /\ ~z.over /\ z.times = <<>>
          BY <3>1, <3>4, <4>1, <4>2 DEF Scans
        <4> HIDE DEF z
        <4> QED BY <3>2, <3>4, <4>3 DEF z
      <3>5. CASE i \in 3 .. 5
        <4>1. z = [y EXCEPT !.token = t[i] # Sign("]")]
          BY <3>1, <3>5 DEF Character
        <4>2. /\ z.skip_token /\ ~z.over /\ z.times = <<>> /\ z.token = (t[i] # Sign("]"))
          <5> DEFINE b == t[i] # Sign("]")
          <5> HIDE DEF b
          <5>1. z = [y EXCEPT !.token = b] BY <4>1 DEF b
          <5>2. z.skip_token /\ ~z.over /\ z.times = <<>> /\ z.token = b BY <5>1, <3>1, <3>5 DEF Scans
          <5> QED BY <5>2 DEF b
        <4>3. i < 5 => z.token
          <5>1. t[3] = Sign(":") /\ t[4] = Digit(1)
            BY <1>4 DEF Tag
          <5>2. Sign(":") # Sign("]") /\ Digit(1) # Sign("]")
            BY DEF Sign, Digit
          <5>3. i < 5 => i = 3 \/ i = 4
            BY <3>5
          <5> HIDE DEF t, z
          <5> QED BY <4>2, <5>1, <5>2, <5>3
        <4> HIDE DEF z
        <4> QED BY <3>2, <3>5, <4>2, <4>3 DEF z
      <3> QED BY <3>3, <3>4, <3>5
    <2>4. x \in J[Len(t)]
      <3>1. \A i \in 1 .. Len(t) : \A y \in J[i - 1] : y \in Scans => Character(y, t[i]) \in J[i]
        BY <2>1, <2>3
      <3> HIDE DEF J, t
      <3> QED BY <1>1, <1>2, <1>3, <2>2, <3>1, ScanKeeps
    <2>5. x.times = <<>>
      BY <2>1, <2>4
    <2> QED BY <1>1, <2>5 DEF process_lrc_line
  <1>5. CASE t # Tag
    <2> DEFINE J == [i \in 0 .. Len(t) |-> {y \in Scans : /\ y.times = <<>>
                                                          /\ i = 0 => y = AtStart
                                                          /\ i > 0 => y.over}]
    <2>1. t # <<>> => t[1] # Sign("[")
      BY <1>1, <1>5 DEF Texts, Sign
    <2>2. AtStart \in J[0]
      BY <1>1, <1>3 DEF AtStart
    <2>3. ASSUME NEW i \in 1 .. Len(t), NEW y \in J[i - 1], y \in Scans PROVE Character(y, t[i]) \in J[i]
      <3> DEFINE z == Character(y, t[i])
      <3>1. i - 1 \in 0 .. Len(t) /\ i \in 0 .. Len(t) /\ t[i] \in Chars /\ t # <<>>
        BY <1>1
      <3>2. y.times = <<>> /\ (i = 1 => y = AtStart) /\ (i > 1 => y.over)
        BY <3>1
      <3>3. z \in Scans
        BY <1>2, <3>1
      <3>4. CASE i = 1
        <4>1. z = [AtStart EXCEPT !.over = TRUE]
          BY <2>1, <3>1, <3>2, <3>4, FirstCharacter, ZenonT(30)
        <4>2. z.over /\ z.times = <<>>
          BY <4>1 DEF AtStart
        <4> HIDE DEF z
        <4> QED BY <3>1, <3>3, <3>4, <4>2 DEF z
      <3>5. CASE i > 1
        <4>1. z = y
          BY <3>2, <3>5 DEF Character
        <4> HIDE DEF z
        <4> QED BY <3>1, <3>2, <3>3, <3>5, <4>1 DEF z
      <3> QED BY <3>4, <3>5
    <2>4. x \in J[Len(t)]
      <3> HIDE DEF J, t
      <3> QED BY <1>1, <1>2, <1>3, <2>2, <2>3, ScanKeeps
    <2>5. x.times = <<>>
      BY <1>1, <2>4
    <2> QED BY <1>1, <2>5 DEF process_lrc_line
  <1> QED BY <1>4, <1>5

\* The first time of a line is in the second that its first stamp says.
LEMMA FirstTimeIsRight ==
  ASSUME NEW line \in FileLines
  PROVE  LET times == process_lrc_line(line)
         IN  /\ times \in Seq(Nat)
             /\ times # <<>> => /\ line.stamps # <<>>
                                /\ WrittenTime(line.stamps[1]) \in Nat
                                /\ times[1] \div 1000 = WrittenTime(line.stamps[1]) \div 1000
  <1> DEFINE t == Characters(line)
             x == FoldLeft(Character, AtStart, t)
             times == process_lrc_line(line)
  <1>1. \A y \in Scans, c \in Chars : Character(y, c) \in Scans
    BY ScanTypes
  <1>2. AtStart \in Scans
    BY EmptySeq DEF AtStart, Scans
  <1>3. t \in Seq(Chars) /\ Len(t) \in Nat
    BY LineBegins
  <1>4. CASE line.stamps = <<>>
    <2>1. times = <<>>
      BY <1>4, NoStampNoTime
    <2> HIDE DEF times
    <2> QED BY <2>1, EmptySeq DEF times
  <1>5. CASE line.stamps # <<>>
    <2> DEFINE s == line.stamps[1]
               st == Stamp(s)
               last == 7 + Places(s)
               Right(ts) == ts # <<>> /\ ts[1] \div 1000 = WrittenTime(s) \div 1000
               J == [i \in 0 .. Len(t) |-> {y \in Scans : /\ i = 0 => y = AtStart
                                                          /\ i \in 1 .. last - 1 => Scanned(y, i, s)
                                                          /\ i >= last => Right(y.times)}]
    <2>1. s \in Stamps /\ Len(st) <= Len(t) /\ \A i \in 1 .. Len(st) : t[i] = st[i]
      BY <1>5, LineBegins
    <2>2. IsStamp(st, s) /\ Len(st) = last /\ Places(s) \in Nat /\ st[last] = Sign("]")
      <3>1. IsStamp(st, s)
        BY <2>1, StampIsStamp
      <3>2. Places(s) \in Nat
        BY <2>1, StampTypes DEF Places
      <3> HIDE DEF s, st
      <3> QED BY <3>1, <3>2 DEF IsStamp
    <2>3. WrittenTime(s) \in Nat
      <3>1. s.min \in 0 .. 99 /\ s.sec \in 0 .. 59 /\ s.frac \in Seq(Digits10)
        BY <2>1, StampTypes, ZenonT(30)
      <3>2. s.min \in Nat /\ s.sec \in Nat /\ \A i \in DOMAIN s.frac : s.frac[i] \in Nat
        <4> DEFINE m == s.min
                   e == s.sec
                   fr == s.frac
        <4> HIDE DEF m, e, fr, s
        <4>1. m \in 0 .. 99 /\ e \in 0 .. 59 /\ fr \in Seq(Digits10)
          BY <3>1 DEF m, e, fr
        <4>2. m \in Nat /\ e \in Nat
          BY <4>1
        <4>3. \A i \in DOMAIN fr : fr[i] \in Digits10
          BY <4>1
        <4>4. \A d \in Digits10 : d \in Nat
          BY DEF Digits10
        <4>5. \A i \in DOMAIN fr : fr[i] \in Nat
          BY <4>3, <4>4
        <4> QED BY <4>2, <4>5 DEF m, e, fr
      <3> HIDE DEF s
      <3> DEFINE place(i) == IF i \in DOMAIN s.frac THEN s.frac[i] ELSE 0
      <3>3. place(1) \in Nat /\ place(2) \in Nat /\ place(3) \in Nat
        BY <3>2
      <3>4. WrittenTime(s) = (s.min * 60 + s.sec) * 1000 + 100 * place(1) + 10 * place(2) + place(3)
        BY DEF WrittenTime
      <3> HIDE DEF place
      <3> QED BY <3>2, <3>3, <3>4
    <2> HIDE DEF s, st, t
    <2>4. AtStart \in J[0]
      BY <1>2, <1>3, <2>2
    <2>5. ASSUME NEW i \in 1 .. Len(t), NEW y \in J[i - 1], y \in Scans PROVE Character(y, t[i]) \in J[i]
      <3> DEFINE z == Character(y, t[i])
      <3>1. i - 1 \in 0 .. Len(t) /\ i \in 0 .. Len(t) /\ t[i] \in Chars
        BY <1>3
      <3>2. /\ i = 1 => y = AtStart
            /\ i - 1 \in 1 .. last - 1 => Scanned(y, i - 1, s)
            /\ i - 1 >= last => Right(y.times)
        <4> HIDE DEF Right
        <4> QED BY <3>1
      <3>3. z \in Scans /\ (y.times # <<>> => z.times # <<>> /\ z.times[1] = y.times[1])
        BY <3>1, ScanTypes
      <3>4. SUFFICES (i \in 1 .. last - 1 => Scanned(z, i, s)) /\ (i >= last => Right(z.times))
        <4> HIDE DEF Right, Scanned, z
        <4>1. z \in Scans /\ i # 0 /\ i \in 0 .. Len(t)
          BY <3>1, <3>3
        <4>2. z \in J[i]
          BY <3>4, <4>1
        <4> HIDE DEF J
        <4> QED BY <4>2 DEF z
      <3>5. CASE i = 1
        <4>1. t[1] = st[1] /\ 1 < last
          BY <2>1, <2>2
        <4>2. Scanned(z, 1, s)
          BY <2>1, <2>2, <3>2, <3>5, <4>1, StampBegins
        <4> QED BY <2>2, <3>5, <4>1, <4>2
      <3>6. CASE i \in 2 .. last - 1
        <4>1. t[i] = st[i] /\ i \in 2 .. 6 + Places(s) /\ i - 1 \in 1 .. last - 1
          BY <2>1, <2>2, <3>6
        <4>2. Scanned(z, i, s)
          BY <2>1, <2>2, <3>2, <4>1, StampGoesOn
        <4> QED BY <2>2, <3>6, <4>2
      <3>7. CASE i = last
        <4>1. t[i] = Sign("]") /\ i - 1 = 6 + Places(s) /\ i - 1 \in 1 .. last - 1
          BY <2>1, <2>2, <3>7
        <4>2. Scanned(y, 6 + Places(s), s)
          BY <3>2, <4>1
        <4>3. Right(z.times)
          BY <2>1, <4>1, <4>2, StampEnds
        <4> QED BY <2>2, <3>7, <4>3
      <3>8. CASE i > last
        <4>1. Right(y.times)
          BY <2>2, <3>1, <3>2, <3>8
        <4>2. Right(z.times)
          BY <3>3, <4>1
        <4> QED BY <2>2, <3>8, <4>2
      <3> QED BY <2>2, <3>5, <3>6, <3>7, <3>8
    <2>6. x \in J[Len(t)] /\ x \in Scans
      <3> HIDE DEF J
      <3> QED BY <1>1, <1>2, <1>3, <2>4, <2>5, ScanKeeps
    <2>7. Right(x.times) /\ x.times \in Seq(Nat)
      <3>1. Len(t) \in 0 .. Len(t) /\ Len(t) >= last
        BY <1>3, <2>1, <2>2
      <3>2. x.times \in Seq(Nat)
        BY <2>6 DEF Scans
      <3> HIDE DEF x, Right
      <3> QED BY <2>6, <3>1, <3>2
    <2>8. times = IF x.content = <<>> THEN <<>> ELSE x.times
      BY DEF process_lrc_line, t
    <2> HIDE DEF times, x
    <2>9. times \in Seq(Nat) /\ (times # <<>> => Right(times))
      BY <2>7, <2>8, EmptySeq
    <2> QED BY <1>5, <2>3, <2>9 DEF times, s
  <1> QED BY <1>4, <1>5

\* What is in the container: a list, and in it those that were first on their line have
\* the second that was written.
LrcInv ==
  /\ container \in Seq({container[i] : i \in DOMAIN container})
  /\ \A i \in DOMAIN container :
       /\ container[i].millisecond \in Nat
       /\ container[i].first => /\ container[i].written \in Nat
                                /\ container[i].millisecond \div 1000 = container[i].written \div 1000
  /\ lrcStep \in {"read", "sort", "done"}
  /\ lrcStep = "done" => \A i, j \in DOMAIN container : i < j => container[i].millisecond <= container[j].millisecond

\* A line that is read is added.
LEMMA ReadKeepsLrc ==
  ASSUME LrcInv, ReadLrcLine
  PROVE  LrcInv'
  <1>1. lrcStep = "read" /\ lrcStep' = "read"
    BY DEF ReadLrcLine
  <1>2. PICK line \in FileLines :
          container' = container \o [i \in DOMAIN process_lrc_line(line) |->
            [millisecond |-> process_lrc_line(line)[i], written |-> WrittenTime(line.stamps[i]), first |-> i = 1]]
    BY DEF ReadLrcLine
  <1> DEFINE times == process_lrc_line(line)
             new == [i \in DOMAIN times |->
                       [millisecond |-> times[i], written |-> WrittenTime(line.stamps[i]), first |-> i = 1]]
             E == {container[i] : i \in DOMAIN container} \cup {new[i] : i \in DOMAIN new}
             Good(e) == /\ e.millisecond \in Nat
                        /\ e.first => e.written \in Nat /\ e.millisecond \div 1000 = e.written \div 1000
  <1>3. times \in Seq(Nat) /\ DOMAIN times = 1 .. Len(times) /\ Len(times) \in Nat
    BY FirstTimeIsRight
  <1>4. ASSUME NEW i \in DOMAIN times PROVE Good(new[i])
    <2>1. new[i].millisecond = times[i] /\ new[i].written = WrittenTime(line.stamps[i]) /\ (new[i].first <=> i = 1)
      OBVIOUS
    <2>2. times[i] \in Nat /\ times # <<>>
      BY <1>3
    <2>3. WrittenTime(line.stamps[1]) \in Nat /\ times[1] \div 1000 = WrittenTime(line.stamps[1]) \div 1000
      BY <2>2, FirstTimeIsRight
    <2> HIDE DEF new, times
    <2> QED BY <2>1, <2>2, <2>3
  <1>5. /\ container' = container \o new /\ container \in Seq(E) /\ new \in Seq(E) /\ DOMAIN new = DOMAIN times
    <2>1. container' = container \o new /\ DOMAIN new = DOMAIN times
      BY <1>2
    <2>2. container \in Seq({container[i] : i \in DOMAIN container})
      BY DEF LrcInv
    <2> HIDE DEF times
    <2>3. new \in Seq({new[i] : i \in DOMAIN new})
      BY <1>3
    <2> HIDE DEF new
    <2> QED BY <2>1, <2>2, <2>3
  <1> HIDE DEF new, times
  <1>6. \A e \in E : Good(e)
    <2>1. \A i \in DOMAIN container : Good(container[i])
      BY DEF LrcInv
    <2> HIDE DEF Good
    <2> QED BY <1>4, <1>5, <2>1
  <1> DEFINE r == container \o new
  <1>7. r \in Seq(E)
    <2> HIDE DEF E
    <2> QED BY <1>5
  <1> HIDE DEF r, E
  <1>8. r \in Seq({r[i] : i \in DOMAIN r}) /\ \A i \in DOMAIN r : r[i] \in E
    BY <1>7
  <1>9. container' = r
    BY <1>5 DEF r
  <1> QED BY <1>1, <1>6, <1>8, <1>9 DEF LrcInv

\* Sorting changes no line: what was in the container is in it still, one after the other.
LEMMA SortKeepsLrc ==
  ASSUME LrcInv, SortLines
  PROVE  LrcInv'
  <1> DEFINE E == {container[i] : i \in DOMAIN container}
             n == Cardinality(E)
  <1>1. /\ container' \in SetToSeqs(E) /\ lrcStep' = "done"
        /\ \A i \in 1 .. Len(container') - 1 : container'[i].millisecond <= container'[i + 1].millisecond
    BY DEF SortLines
  <1>2. container' \in [1 .. n -> E] /\ n \in Nat
    <2>1. container' \in [1 .. n -> E]
      BY <1>1 DEF SetToSeqs
    <2>2. IsFiniteSet(E)
      <3>1. PICK S : container \in Seq(S)
        BY DEF LrcInv
      <3>2. DOMAIN container = 1 .. Len(container) /\ Len(container) \in Nat
        BY <3>1
      <3>3. IsFiniteSet(DOMAIN container)
        BY <3>2, FS_Interval
      <3> DEFINE f == [i \in DOMAIN container |-> container[i]]
      <3>4. f \in Surjection(DOMAIN container, E)
        BY DEF Surjection
      <3> HIDE DEF f, E
      <3> QED BY <3>3, <3>4, FS_Surjection
    <2> QED BY <2>1, <2>2, FS_CardinalityType
  <1>3. Len(container') = n /\ DOMAIN container' = 1 .. n
    BY <1>2
  <1>4. \A i \in 1 .. n : container'[i].millisecond \in Nat
    BY <1>2 DEF LrcInv
  <1> DEFINE c == container'
             N == {k \in Nat : \A i \in 1 .. n : i + k <= n => c[i].millisecond <= c[i + k].millisecond}
  <1>5. 0 \in N
    BY <1>4
  <1>6. ASSUME NEW k \in Nat, k \in N PROVE k + 1 \in N
    <2> SUFFICES ASSUME NEW i \in 1 .. n, i + (k + 1) <= n PROVE c[i].millisecond <= c[i + (k + 1)].millisecond
      OBVIOUS
    <2>1. i + k \in 1 .. n /\ i + k \in 1 .. n - 1 /\ i + (k + 1) = (i + k) + 1 /\ i + (k + 1) \in 1 .. n
      BY <1>2
    <2>2. c[i].millisecond <= c[i + k].millisecond
      BY <1>6, <2>1
    <2>3. c[i + k].millisecond <= c[(i + k) + 1].millisecond
      BY <1>1, <1>3, <2>1
    <2> HIDE DEF c, N
    <2>4. c[i].millisecond \in Nat /\ c[i + k].millisecond \in Nat /\ c[(i + k) + 1].millisecond \in Nat
      BY <1>4, <2>1 DEF c
    <2> QED BY <2>1, <2>2, <2>3, <2>4
  <1>7. ASSUME NEW i \in 1 .. n, NEW j \in 1 .. n, i < j PROVE c[i].millisecond <= c[j].millisecond
    <2>1. j - i \in N
      <3> HIDE DEF N
      <3>1. j - i \in Nat BY <1>7
      <3> QED BY <1>5, <1>6, <3>1, Counting
    <2>2. i + (j - i) = j /\ i + (j - i) <= n
      BY <1>2
    <2> QED BY <2>1, <2>2
  <1>8. \A i \in 1 .. n : \E k \in DOMAIN container : container'[i] = container[k]
    BY <1>2
  <1>9. container' \in Seq({container'[i] : i \in DOMAIN container'})
    <2> DEFINE d == container'
               S == {d[i] : i \in DOMAIN d}
    <2>1. d \in [1 .. n -> E] /\ n \in Nat /\ DOMAIN d = 1 .. n
      BY <1>2, <1>3
    <2>2. \A i \in 1 .. n : d[i] \in S
      BY <2>1
    <2> HIDE DEF n, E, S, d
    <2>3. d \in [1 .. n -> S]
      BY <2>1, <2>2
    <2>4. d \in Seq(S)
      BY <2>1, <2>3
    <2> QED BY <2>4 DEF S, d
  <1>10. \A i \in 1 .. n :
           /\ container'[i].millisecond \in Nat
           /\ container'[i].first => /\ container'[i].written \in Nat
                                     /\ container'[i].millisecond \div 1000 = container'[i].written \div 1000
    BY <1>8 DEF LrcInv
  <1> HIDE DEF n, E
  <1> QED BY <1>1, <1>3, <1>7, <1>9, <1>10 DEF LrcInv

\* Whatever files of lyrics hold, written with any fractions, the first time of every line is
\* in its second and the lines come in order.
THEOREM LinesAreInOrder == LrcSpec => []SungInOrder
  <1>1. LrcInit => LrcInv
    <2> SUFFICES ASSUME LrcInit PROVE LrcInv
      OBVIOUS
    <2>1. container = <<>> /\ DOMAIN container = {} /\ lrcStep = "read"
      BY DEF LrcInit
    <2> QED BY <2>1, EmptySeq DEF LrcInv
  <1>2. LrcInv /\ [LrcNext]_lrcVars => LrcInv'
    <2> SUFFICES ASSUME LrcInv, [LrcNext]_lrcVars PROVE LrcInv'
      OBVIOUS
    <2>1. CASE ReadLrcLine BY <2>1, ReadKeepsLrc
    <2>2. CASE LrcEnds BY <2>2 DEF LrcEnds, LrcInv
    <2>3. CASE SortLines BY <2>3, SortKeepsLrc
    <2>4. CASE UNCHANGED lrcVars BY <2>4 DEF lrcVars, LrcInv
    <2> QED BY <2>1, <2>2, <2>3, <2>4 DEF LrcNext
  <1>3. LrcInv => SungInOrder
    <2> SUFFICES ASSUME LrcInv, lrcStep = "done", NEW i \in DOMAIN container, NEW j \in DOMAIN container,
                        container[i].first, container[j].first
                 PROVE  /\ container[i].millisecond \div 1000 = container[i].written \div 1000
                        /\ i < j => container[i].written \div 1000 <= container[j].written \div 1000
      BY DEF SungInOrder
    <2> DEFINE a == container[i].millisecond
               b == container[j].millisecond
    <2>1. /\ a \in Nat /\ b \in Nat /\ a \div 1000 = container[i].written \div 1000
          /\ b \div 1000 = container[j].written \div 1000 /\ (i < j => a <= b)
      BY DEF LrcInv
    <2> HIDE DEF a, b
    <2>2. i < j => a \div 1000 <= b \div 1000
      BY <2>1
    <2> QED BY <2>1, <2>2 DEF a
  <1> QED BY <1>1, <1>2, <1>3, PTL DEF LrcSpec

=============================================================================
