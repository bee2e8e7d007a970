-------------------------- MODULE IncidentsProofs --------------------------
(***************************************************************************)
(* What holds of the Incident store for every catalogue, every limit of it, *)
(* however late the events of a container reach it, swapped with those of   *)
(* others, delivered twice or lost with the stream: a healthcheck that a    *)
(* listing saw pass does not fail in silence; the store holds the newest of *)
(* what was declared; the Transcript of an exit is of one life; and an exit *)
(* is called an OOM kill exactly when it was one.                           *)
(***************************************************************************)
EXTENDS Incidents, FiniteSetTheorems, SequenceTheorems, TLAPS

-----------------------------------------------------------------------------
(***************************************************************************)
(* What record and fresh make of a sequence of Incidents, one per instant.  *)
(***************************************************************************)

\* The instants of S's members are integers.
Dated(S) == \A x \in S : x.at \in Int

\* s is in the order of its instants, and has one member for each.
Rising(s) == \A i, j \in 1..Len(s) : i < j => s[i].at < s[j].at

\* A sequence that rises has each of its members once.
LEMMA RisingOnce ==
  ASSUME NEW S, Dated(S), NEW s \in Seq(S), Rising(s)
  PROVE  /\ ToSet(s) = {s[i] : i \in 1..Len(s)}
         /\ ToSet(s) \subseteq S /\ IsFiniteSet(ToSet(s)) /\ Cardinality(ToSet(s)) = Len(s)
         /\ \A i, j \in 1..Len(s) : s[i].at = s[j].at => i = j
<1> DEFINE n == Len(s)
           D == 1..n
           V == {s[i] : i \in D}
           f == [i \in D |-> s[i]]
<1>1. n \in Nat /\ DOMAIN s = D
  BY LenProperties
<1>2. \A i \in D : s[i] \in S
  BY ElementOfSeq
<1>3. ToSet(s) = V
  BY <1>1 DEF ToSet
<1>4. IsFiniteSet(D) /\ Cardinality(D) = n
  <2>1. 1 \in Int /\ n \in Int /\ (IF 1 > n THEN 0 ELSE n - 1 + 1) = n
    BY <1>1
  <2> HIDE DEF n
  <2> QED BY <2>1, FS_Interval
<1>5. ASSUME NEW i \in D, NEW j \in D, s[i].at = s[j].at PROVE i = j
  <2>1. s[i].at \in Int /\ i \in Int /\ j \in Int
    BY <1>2 DEF Dated
  <2>2. ~(i < j) /\ ~(j < i)
    BY <1>5, <2>1 DEF Rising
  <2> QED BY <2>1, <2>2
<1>6. f \in Bijection(D, V)
  <2>1. f \in [D -> V] /\ \A v \in V : \E i \in D : f[i] = v
    OBVIOUS
  <2>2. \A i, j \in D : f[i] = f[j] => i = j
    BY <1>5
  <2> HIDE DEF D, V, f
  <2> QED BY <2>1, <2>2 DEF Bijection, Injection, Surjection, IsInjective
<1> HIDE DEF f
<1>7. IsFiniteSet(V) /\ Cardinality(V) = n
  <2>1. ExistsBijection(D, V)
    BY <1>6 DEF ExistsBijection
  <2> HIDE DEF D, V, n
  <2> QED BY <1>4, <2>1, FS_Bijection
<1> QED BY <1>2, <1>3, <1>5, <1>7

\* The image of a finite set is finite.
LEMMA ImageOfFinite ==
  ASSUME NEW D, IsFiniteSet(D), NEW f
  PROVE  IsFiniteSet({f[x] : x \in D})
<1>1. [x \in D |-> f[x]] \in Surjection(D, {f[x] : x \in D})
  BY DEF Surjection
<1> QED BY <1>1, FS_Surjection

\* p goes through Q in order.
InOrder(p, Q) ==
  /\ p \in [1..Cardinality(Q) -> Q]
  /\ \A i, j \in 1..Cardinality(Q) : i < j => p[i] < p[j]

\* A finite set of integers can be gone through in order: an element's place is how many
\* come no later.
LEMMA OrderExists ==
  ASSUME NEW Q \in SUBSET Int, IsFiniteSet(Q)
  PROVE  \E p : InOrder(p, Q)
<1> DEFINE n == Cardinality(Q)
           D == 1..n
           below(q) == {k \in Q : k <= q}
           r == [q \in Q |-> Cardinality(below(q))]
           p == [i \in D |-> CHOOSE q \in Q : r[q] = i]
<1>1. n \in Nat
  BY FS_CardinalityType
<1>2. \A q \in Q : IsFiniteSet(below(q)) /\ Cardinality(below(q)) \in Nat /\ Cardinality(below(q)) <= n
  <2>1. ASSUME NEW q \in Q
        PROVE  IsFiniteSet(below(q)) /\ Cardinality(below(q)) \in Nat /\ Cardinality(below(q)) <= n
    <3>1. below(q) \in SUBSET Q
      OBVIOUS
    <3> HIDE DEF below
    <3> QED BY <3>1, FS_Subset, FS_CardinalityType
  <2> QED BY <2>1
<1>3. ASSUME NEW q \in Q, NEW u \in Q, q < u PROVE r[q] < r[u]
  <2>1. below(q) \cup {u} \in SUBSET below(u) /\ u \notin below(q)
    <3>1. ASSUME NEW k \in below(q) PROVE k \in below(u)
      <4>1. k \in Int /\ q \in Int /\ u \in Int
        OBVIOUS
      <4> QED BY <1>3, <4>1
    <3>2. u \in below(u) /\ u \notin below(q)
      <4>1. q \in Int /\ u \in Int
        OBVIOUS
      <4> QED BY <1>3, <4>1
    <3> QED BY <3>1, <3>2
  <2> HIDE DEF below
  <2>2. Cardinality(below(q) \cup {u}) = Cardinality(below(q)) + 1
    BY <1>2, <2>1, FS_AddElement
  <2>3. Cardinality(below(q) \cup {u}) <= Cardinality(below(u))
    BY <1>2, <2>1, FS_Subset
  <2> QED BY <1>2, <2>2, <2>3
<1>4. ASSUME NEW q \in Q PROVE r[q] \in D
  <2>1. r[q] \in Nat /\ r[q] <= n
    BY <1>2
  <2>2. r[q] # 0
    <3>1. q \in below(q)
      <4>1. q \in Int
        OBVIOUS
      <4> QED BY <4>1
    <3> HIDE DEF below
    <3>2. below(q) # {}
      BY <3>1
    <3> QED BY <1>2, <3>2, FS_EmptySet
  <2> QED BY <1>1, <2>1, <2>2
<1>5. IsFiniteSet(D) /\ Cardinality(D) = n
  <2>1. 1 \in Int /\ n \in Int /\ (IF 1 > n THEN 0 ELSE n - 1 + 1) = n
    BY <1>1
  <2> HIDE DEF n
  <2> QED BY <2>1, FS_Interval
<1>6. \A i \in D : \E q \in Q : r[q] = i
  <2>1. ASSUME NEW q \in Q, NEW u \in Q, r[q] = r[u] PROVE q = u
    <3>1. q \in Int /\ u \in Int /\ r[q] \in Int
      BY <1>1, <1>4
    <3>2. ~(q < u) /\ ~(u < q)
      BY <1>3, <2>1, <3>1
    <3> QED BY <3>1, <3>2
  <2>2. r \in [Q -> D]
    BY <1>4
  <2>3. Cardinality(Q) = Cardinality(D)
    BY <1>5
  <2> HIDE DEF r, D, n
  <2>4. r \in Injection(Q, D)
    BY <2>1, <2>2 DEF Injection, IsInjective
  <2>5. r \in Surjection(Q, D)
    BY <1>5, <2>3, <2>4, FS_Injection
  <2> QED BY <2>5 DEF Surjection
<1> HIDE DEF r
<1>7. \A i \in D : p[i] \in Q /\ r[p[i]] = i
  BY <1>6
<1>8. p \in [D -> Q]
  BY <1>7
<1> HIDE DEF p
<1>9. ASSUME NEW i \in D, NEW j \in D, i < j PROVE p[i] < p[j]
  <2>1. p[i] \in Int /\ p[j] \in Int /\ i \in Int /\ j \in Int
    <3>1. p[i] \in Q /\ p[j] \in Q
      BY <1>7
    <3>2. i \in Int /\ j \in Int
      BY <1>1
    <3>3. \A q \in Q : q \in Int
      OBVIOUS
    <3> QED BY <3>1, <3>2, <3>3
  <2>2. ~(p[j] < p[i]) /\ p[i] # p[j]
    BY <1>3, <1>7, <1>9, <2>1
  <2> QED BY <2>1, <2>2
<1> QED BY <1>8, <1>9 DEF InOrder

\* Whatever goes through a set in order meets all of it.
LEMMA OrderMeetsAll ==
  ASSUME NEW Q \in SUBSET Int, IsFiniteSet(Q), NEW p, InOrder(p, Q)
  PROVE  /\ Cardinality(Q) \in Nat
         /\ \A q \in Q : \E i \in 1..Cardinality(Q) : p[i] = q
<1> DEFINE n == Cardinality(Q)
           D == 1..n
<1>1. n \in Nat
  BY FS_CardinalityType
<1>2. IsFiniteSet(D) /\ Cardinality(D) = n
  <2>1. 1 \in Int /\ n \in Int /\ (IF 1 > n THEN 0 ELSE n - 1 + 1) = n
    BY <1>1
  <2> HIDE DEF n
  <2> QED BY <2>1, FS_Interval
<1>3. p \in [D -> Q] /\ \A i, j \in D : i < j => p[i] < p[j]
  BY DEF InOrder
<1>4. ASSUME NEW i \in D, NEW j \in D, p[i] = p[j] PROVE i = j
  <2>1. i \in Int /\ j \in Int /\ p[i] \in Int
    <3>1. p[i] \in Q
      BY <1>3
    <3>2. i \in Int /\ j \in Int
      BY <1>1
    <3>3. \A q \in Q : q \in Int
      OBVIOUS
    <3> QED BY <3>1, <3>2, <3>3
  <2>2. ~(i < j) /\ ~(j < i)
    BY <1>3, <1>4, <2>1
  <2> QED BY <2>1, <2>2
<1>5. Cardinality(D) = Cardinality(Q)
  BY <1>2
<1> HIDE DEF D
<1>6. p \in Injection(D, Q)
  BY <1>3, <1>4 DEF Injection, IsInjective
<1>7. p \in Surjection(D, Q)
  BY <1>5, <1>6, FS_Injection
<1> QED BY <1>1, <1>7 DEF Surjection, D

\* A finite set of integers has a least and a greatest element.
LEMMA Extremes ==
  ASSUME NEW Q \in SUBSET Int, Q # {}, IsFiniteSet(Q)
  PROVE  (\E x \in Q : \A y \in Q : x <= y) /\ (\E x \in Q : \A y \in Q : y <= x)
<1> DEFINE n == Cardinality(Q)
<1>1. PICK p : InOrder(p, Q)
  BY OrderExists
<1>2. n \in Nat /\ \A q \in Q : \E i \in 1..n : p[i] = q
  BY <1>1, OrderMeetsAll
<1>3. /\ \A i \in 1..n : p[i] \in Q /\ p[i] \in Int
      /\ \A i, j \in 1..n : i < j => p[i] < p[j]
  BY <1>1 DEF InOrder
<1> HIDE DEF n
<1>4. 1 \in 1..n /\ n \in 1..n
  <2>1. PICK i \in 1..n : TRUE
    BY <1>2
  <2> QED BY <1>2, <2>1
<1>5. ASSUME NEW y \in Q PROVE p[1] <= y /\ y <= p[n]
  <2>1. PICK i \in 1..n : p[i] = y
    BY <1>2
  <2>2. (i = 1 \/ 1 < i) /\ (i = n \/ i < n)
    BY <1>2
  <2>3. p[1] <= p[i]
    BY <1>3, <1>4, <2>2
  <2>4. p[i] <= p[n]
    BY <1>3, <1>4, <2>2
  <2> QED BY <2>1, <2>3, <2>4
<1> QED BY <1>3, <1>4, <1>5

\* What Max chooses from a finite set of integers.
LEMMA MaxOfFinite ==
  ASSUME NEW S \in SUBSET Int, S # {}, IsFiniteSet(S)
  PROVE  Max(S) \in S /\ \A y \in S : y <= Max(S)
<1>1. PICK m \in S : \A y \in S : y <= m
  BY Extremes
<1>2. \A y \in S : m >= y
  BY <1>1
<1>3. Max(S) \in S /\ \A y \in S : Max(S) >= y
  BY <1>2 DEF Max
<1> QED BY <1>3

\* What fresh leaves of a sequence that rises.
LEMMA FreshKept ==
  ASSUME NEW S, Dated(S), NEW h \in Seq(S), Rising(h), NEW t \in Int
  PROVE  /\ fresh(h, t) \in Seq(S) /\ Rising(fresh(h, t))
         /\ ToSet(fresh(h, t)) = {x \in ToSet(h) : x.at > t - MaxAge}
<1> DEFINE D == DOMAIN h
           Y == {i \in D : h[i].at > t - MaxAge}
           n == Cardinality(Y)
           R(p) == p \in [1..n -> Y] /\ \A i, j \in DOMAIN p : i < j => p[i] < p[j]
           p == CHOOSE q : R(q)
           out == [i \in DOMAIN p |-> h[p[i]]]
<1>1. /\ Len(h) \in Nat /\ D = 1..Len(h)
      /\ \A i \in D : h[i] \in S
  BY LenProperties, ElementOfSeq
<1>2. fresh(h, t) = out
  <2>1. fresh(h, t) = LET q == CHOOSE q \in [1..n -> Y] : \A i, j \in DOMAIN q : i < j => q[i] < q[j]
                      IN  [i \in DOMAIN q |-> h[q[i]]]
    BY DEF fresh
  <2> QED BY <2>1
<1>3. Y \in SUBSET Int /\ IsFiniteSet(Y)
  <2>1. Y \in SUBSET D
    OBVIOUS
  <2>2. IsFiniteSet(D)
    <3> DEFINE m == Len(h)
    <3>1. m \in Int /\ 1 \in Int /\ D = 1..m
      BY <1>1
    <3> HIDE DEF m, D
    <3> QED BY <3>1, FS_Interval
  <2> HIDE DEF Y
  <2>3. IsFiniteSet(Y)
    BY <2>1, <2>2, FS_Subset
  <2> QED BY <1>1, <2>1, <2>3
<1>4. \A i \in Y : i \in D /\ h[i].at > t - MaxAge
  OBVIOUS
<1>5. \A i \in D : h[i].at > t - MaxAge => i \in Y
  OBVIOUS
<1> HIDE DEF Y
<1>6. \E q : R(q)
  <2>1. PICK q : InOrder(q, Y)
    BY <1>3, OrderExists
  <2>2. R(q)
    BY <2>1 DEF InOrder
  <2> QED BY <2>2
<1>7. R(p)
  <2> HIDE DEF R
  <2> QED BY <1>6
<1> HIDE DEF p
<1>8. InOrder(p, Y) /\ DOMAIN p = 1..n
  BY <1>7 DEF InOrder
<1>9. n \in Nat /\ \A i \in Y : \E k \in 1..n : p[k] = i
  BY <1>3, <1>8, OrderMeetsAll
<1>10. /\ \A k \in 1..n : p[k] \in Y
       /\ \A i, j \in 1..n : i < j => p[i] < p[j]
  BY <1>7, <1>8
<1> HIDE DEF n
<1>11. \A k \in 1..n : out[k] = h[p[k]] /\ p[k] \in D /\ out[k] \in S
  BY <1>1, <1>4, <1>8, <1>10
<1>12. DOMAIN out = 1..n /\ out = [k \in 1..n |-> out[k]]
  BY <1>8
<1> HIDE DEF out
<1>13. out \in Seq(S)
  BY <1>9, <1>11, <1>12
<1>14. DOMAIN out = 1..Len(out)
  BY <1>13, LenProperties
<1>15. Rising(out)
  <2>1. ASSUME NEW i \in 1..n, NEW j \in 1..n, i < j PROVE out[i].at < out[j].at
    <3>1. p[i] < p[j] /\ p[i] \in 1..Len(h) /\ p[j] \in 1..Len(h)
      BY <1>1, <1>10, <1>11, <2>1
    <3> QED BY <1>11, <3>1 DEF Rising
  <2> QED BY <1>12, <1>14, <2>1 DEF Rising
<1>16. ToSet(out) = {x \in ToSet(h) : x.at > t - MaxAge}
  <2>1. ASSUME NEW k \in 1..n PROVE out[k] \in ToSet(h) /\ out[k].at > t - MaxAge
    BY <1>4, <1>10, <1>11 DEF ToSet
  <2>2. ASSUME NEW i \in D, h[i].at > t - MaxAge PROVE \E k \in 1..n : out[k] = h[i]
    BY <1>5, <1>9, <1>11, <2>2
  <2>3. ToSet(out) = {out[k] : k \in 1..n} /\ ToSet(h) = {h[i] : i \in D}
    BY <1>12 DEF ToSet
  <2> QED BY <2>1, <2>2, <2>3
<1> QED BY <1>2, <1>13, <1>15, <1>16

\* r is the PerService newest of k.
Newest(r, k) ==
  /\ Len(r) <= PerService /\ ToSet(r) \subseteq ToSet(k)
  /\ \A x \in ToSet(k) \ ToSet(r) : Len(r) = PerService /\ \A y \in ToSet(r) : y.at > x.at

\* What the cap of record leaves.
LEMMA CapKept ==
  ASSUME NEW S, Dated(S), NEW k \in Seq(S), Rising(k)
  PROVE  LET r == SubSeq(k, Max({1, Len(k) - PerService + 1}), Len(k))
         IN  r \in Seq(S) /\ Rising(r) /\ Newest(r, k)
<1> DEFINE n == Len(k)
           a == n - PerService + 1
           m == Max({1, a})
           r == SubSeq(k, m, n)
<1>1. n \in Nat /\ a \in Int /\ PerService \in Nat \ {0}
  BY IncidentsAssumption, LenProperties
<1>2. m = IF a >= 1 THEN a ELSE 1
  <2>1. \E x \in {1, a} : \A y \in {1, a} : x >= y
    BY <1>1
  <2>2. m \in {1, a} /\ \A y \in {1, a} : m >= y
    BY <2>1 DEF Max
  <2> HIDE DEF m, a
  <2> QED BY <1>1, <2>2
<1> HIDE DEF m
<1>3. m \in 1..(n + 1) /\ n \in (m - 1)..n
  BY <1>1, <1>2
<1>4. r \in Seq(S) /\ Len(r) = n - m + 1 /\ \A i \in 1..(n - m + 1) : r[i] = k[m + i - 1]
  BY <1>3, SubSeqProperties
<1>5. DOMAIN r = 1..(n - m + 1) /\ DOMAIN k = 1..n
  BY <1>4, LenProperties
<1> HIDE DEF r
<1>6. \A i \in 1..(n - m + 1) : m + i - 1 \in 1..n
  BY <1>1, <1>3
<1>7. Rising(r)
  <2>1. ASSUME NEW i \in 1..(n - m + 1), NEW j \in 1..(n - m + 1), i < j PROVE r[i].at < r[j].at
    <3>1. m + i - 1 \in 1..n /\ m + j - 1 \in 1..n /\ m + i - 1 < m + j - 1
      BY <1>3, <1>6, <2>1
    <3> QED BY <1>4, <3>1 DEF Rising
  <2> QED BY <1>4, <2>1 DEF Rising
<1>8. Len(r) <= PerService
  BY <1>1, <1>2, <1>4
<1>9. ToSet(r) \subseteq ToSet(k)
  BY <1>4, <1>5, <1>6 DEF ToSet
<1>10. ASSUME NEW x \in ToSet(k) \ ToSet(r)
       PROVE  Len(r) = PerService /\ \A y \in ToSet(r) : y.at > x.at
  <2>1. PICK i \in 1..n : x = k[i]
    BY <1>5 DEF ToSet
  <2>2. i < m
    <3>1. SUFFICES ASSUME ~(i < m) PROVE FALSE
      OBVIOUS
    <3>2. i - m + 1 \in 1..(n - m + 1) /\ m + (i - m + 1) - 1 = i
      BY <1>1, <1>3, <3>1
    <3>3. r[i - m + 1] = x
      BY <1>4, <2>1, <3>2
    <3> QED BY <1>5, <3>2, <3>3 DEF ToSet
  <2>3. Len(r) = PerService
    BY <1>1, <1>2, <1>4, <2>2
  <2>4. ASSUME NEW j \in 1..(n - m + 1) PROVE r[j].at > x.at
    <3>1. m + j - 1 \in 1..n /\ i < m + j - 1
      BY <1>3, <1>6, <2>2
    <3>2. x.at < k[m + j - 1].at
      BY <2>1, <3>1 DEF Rising
    <3>3. x.at \in Int /\ k[m + j - 1].at \in Int
      BY <2>1, <3>1, ElementOfSeq DEF Dated
    <3> QED BY <1>4, <3>2, <3>3
  <2> QED BY <1>5, <2>3, <2>4 DEF ToSet
<1> QED BY <1>4, <1>7, <1>8, <1>9, <1>10 DEF Newest, r, m

\* Where an instant goes in a sequence that rises.
LEMMA PlaceExists ==
  ASSUME NEW S, Dated(S), NEW h \in Seq(S), Rising(h), NEW a \in Int, \A i \in 1..Len(h) : h[i].at # a
  PROVE  \E c \in 0..Len(h) : \A i \in 1..Len(h) : IF i <= c THEN h[i].at < a ELSE h[i].at > a
<1> DEFINE n == Len(h)
           T == {k \in Nat : k <= n /\ (k < n => h[k + 1].at > a)}
<1>1. n \in Nat /\ \A i \in 1..n : h[i].at \in Int
  BY ElementOfSeq, LenProperties DEF Dated
<1>2. T \in SUBSET Int /\ T # {} /\ IsFiniteSet(T)
  <2>1. n \in T
    BY <1>1
  <2>2. T \in SUBSET (0..n)
    BY <1>1
  <2>3. IsFiniteSet(0..n)
    <3>1. 0 \in Int /\ n \in Int
      BY <1>1
    <3> HIDE DEF n
    <3> QED BY <3>1, FS_Interval
  <2>4. IsFiniteSet(T)
    <3> HIDE DEF T, n
    <3> QED BY <2>2, <2>3, FS_Subset
  <2> QED BY <2>1, <2>4
<1>3. PICK c \in T : \A k \in T : c <= k
  <2> HIDE DEF T
  <2> QED BY <1>2, Extremes
<1>4. ASSUME NEW i \in 1..n, i <= c PROVE h[i].at < a
  <2>1. i - 1 \in Nat /\ i - 1 < n /\ ~(c <= i - 1) /\ (i - 1) + 1 = i
    BY <1>1, <1>4
  <2>2. i - 1 \notin T
    BY <1>3, <2>1
  <2>3. ~(h[i].at > a)
    BY <2>1, <2>2
  <2> QED BY <1>1, <2>3
<1>5. ASSUME NEW i \in 1..n, ~(i <= c) PROVE h[i].at > a
  <2>1. c + 1 \in 1..n /\ c < n /\ h[c + 1].at > a
    BY <1>1, <1>5
  <2>2. CASE i = c + 1
    BY <2>1, <2>2
  <2>3. CASE i # c + 1
    <3>1. c + 1 < i
      BY <1>5, <2>3
    <3>2. h[c + 1].at < h[i].at
      BY <2>1, <3>1 DEF Rising
    <3>3. h[c + 1].at \in Int /\ h[i].at \in Int
      BY <1>1, <2>1
    <3> QED BY <2>1, <3>2, <3>3
  <2> QED BY <2>2, <2>3
<1>6. c \in 0..n /\ \A i \in 1..n : IF i <= c THEN h[i].at < a ELSE h[i].at > a
  <2>1. c \in 0..n
    BY <1>1
  <2> HIDE DEF n, T
  <2> QED BY <1>4, <1>5, <2>1
<1> HIDE DEF T
<1> QED BY <1>6

\* Where the sort puts what is appended.
LEMMA SortedKept ==
  ASSUME NEW S, Dated(S), NEW h \in Seq(S), Rising(h), NEW inc \in S,
         \A i \in 1..Len(h) : h[i].at # inc.at
  PROVE  LET k == Sorted(Append(h, inc))
         IN  k \in Seq(S) /\ Rising(k) /\ ToSet(k) = ToSet(h) \cup {inc}
<1> DEFINE n == Len(h)
           g == Append(h, inc)
           D == 1..(n + 1)
           Before(i, j) == g[i].at < g[j].at \/ (g[i].at = g[j].at /\ i < j)
           Right(p) == p \in [D -> D] /\ \A i, j \in D : i < j => Before(p[i], p[j])
           p == CHOOSE q : Right(q)
           k == [i \in D |-> g[p[i]]]
<1>1. n \in Nat /\ \A i \in 1..n : h[i] \in S /\ h[i].at \in Int
  BY ElementOfSeq, LenProperties DEF Dated
<1>2. /\ g \in Seq(S) /\ Len(g) = n + 1 /\ DOMAIN g = D
      /\ g[n + 1] = inc /\ \A i \in 1..n : g[i] = h[i]
  BY <1>1, AppendProperties, LenProperties
<1>3. D = 1..n \cup {n + 1} /\ inc.at \in Int
  BY <1>1 DEF Dated
<1>4. \A i \in D : g[i] \in S /\ g[i].at \in Int
  BY <1>1, <1>2, <1>3
<1>5. ASSUME NEW i \in D, NEW j \in D, g[i].at = g[j].at PROVE i = j
  <2>1. CASE i \in 1..n /\ j \in 1..n
    <3>1. h[i].at = h[j].at
      BY <1>2, <1>5, <2>1
    <3> QED BY <2>1, <3>1, RisingOnce
  <2>2. CASE i = n + 1 \/ j = n + 1
    BY <1>2, <1>3, <1>5, <2>2
  <2> QED BY <1>3, <2>1, <2>2
<1>6. Sorted(g) = k
  <2>1. Sorted(g) =
          LET q == CHOOSE q \in [D -> D] : \A i, j \in D : i < j => Before(q[i], q[j])
          IN  [i \in D |-> g[q[i]]]
    BY <1>2 DEF Sorted
  <2> QED BY <2>1
<1> HIDE DEF g
<1>7. \E q : Right(q)
  <2>1. PICK c \in 0..n : \A i \in 1..n : IF i <= c THEN h[i].at < inc.at ELSE h[i].at > inc.at
    BY <1>3, PlaceExists
  <2> DEFINE q == [i \in D |-> IF i <= c THEN i ELSE IF i = c + 1 THEN n + 1 ELSE i - 1]
  <2>2. q \in [D -> D]
    BY <1>1
  <2>3. ASSUME NEW i \in D
        PROVE  /\ i <= c => q[i] = i /\ i \in 1..n /\ g[q[i]].at = h[i].at /\ h[i].at < inc.at
               /\ i = c + 1 => g[q[i]].at = inc.at
               /\ i > c + 1 => q[i] = i - 1 /\ i - 1 \in 1..n /\ g[q[i]].at = h[i - 1].at /\ h[i - 1].at > inc.at
    <3>1. CASE i <= c
      BY <1>1, <1>2, <2>1, <3>1
    <3>2. CASE i = c + 1
      BY <1>1, <1>2, <3>2
    <3>3. CASE i > c + 1
      <4>1. i - 1 \in 1..n /\ ~(i - 1 <= c) /\ q[i] = i - 1
        BY <1>1, <3>3
      <4> QED BY <1>1, <1>2, <2>1, <3>3, <4>1
    <3> QED BY <3>1, <3>2, <3>3
  <2> HIDE DEF q
  <2>4. ASSUME NEW i \in D, NEW j \in D, i < j PROVE g[q[i]].at < g[q[j]].at
    <3>1. CASE j <= c
      BY <2>3, <2>4, <3>1 DEF Rising
    <3>2. CASE j = c + 1
      <4>1. i <= c
        BY <2>4, <3>2
      <4> QED BY <2>3, <3>2, <4>1
    <3>3. CASE j > c + 1 /\ i <= c
      <4>1. i < j - 1 /\ i \in 1..n /\ j - 1 \in 1..n
        BY <2>3, <3>3
      <4>2. h[i].at < h[j - 1].at
        BY <4>1 DEF Rising
      <4> QED BY <2>3, <3>3, <4>2
    <3>4. CASE j > c + 1 /\ i = c + 1
      <4>1. g[q[i]].at = inc.at /\ g[q[j]].at = h[j - 1].at /\ h[j - 1].at > inc.at /\ j - 1 \in 1..n
        BY <2>3, <3>4
      <4> QED BY <1>1, <1>3, <4>1
    <3>5. CASE i > c + 1
      <4>1. i - 1 < j - 1 /\ i - 1 \in 1..n /\ j - 1 \in 1..n /\ j > c + 1
        BY <2>3, <2>4, <3>5
      <4>2. h[i - 1].at < h[j - 1].at
        BY <4>1 DEF Rising
      <4> QED BY <2>3, <3>5, <4>1, <4>2
    <3> QED BY <3>1, <3>2, <3>3, <3>4, <3>5
  <2> QED BY <2>2, <2>4
<1>8. Right(p)
  <2> HIDE DEF Right
  <2> QED BY <1>7
<1> HIDE DEF p
<1>9. \A i \in D : p[i] \in D
  BY <1>8
<1>10. ASSUME NEW i \in D, NEW j \in D, p[i] = p[j] PROVE i = j
  <2>1. i \in Int /\ j \in Int /\ p[i] \in Int /\ g[p[i]].at \in Int
    BY <1>4, <1>9
  <2>2. ~Before(p[i], p[j]) /\ ~Before(p[j], p[i])
    BY <1>10, <2>1
  <2>3. ~(i < j) /\ ~(j < i)
    BY <1>8, <2>2
  <2> QED BY <2>1, <2>3
<1>11. \A v \in D : \E i \in D : p[i] = v
  <2>1. IsFiniteSet(D)
    <3>1. 1 \in Int /\ n + 1 \in Int
      BY <1>1
    <3> QED BY <3>1, FS_Interval
  <2>2. p \in [D -> D]
    BY <1>8
  <2> HIDE DEF D
  <2>3. p \in Injection(D, D)
    BY <1>10, <2>2 DEF Injection, IsInjective
  <2>4. p \in Surjection(D, D)
    BY <2>1, <2>3, FS_Injection
  <2> QED BY <2>4 DEF Surjection
<1>12. k \in Seq(S) /\ Len(k) = n + 1 /\ DOMAIN k = D /\ \A i \in D : k[i] = g[p[i]]
  <2>1. n + 1 \in Nat /\ \A i \in D : g[p[i]] \in S
    BY <1>1, <1>4, <1>9
  <2>2. k \in Seq(S)
    BY <2>1
  <2>3. DOMAIN k = D /\ \A i \in D : k[i] = g[p[i]]
    OBVIOUS
  <2> HIDE DEF k
  <2>4. D = 1..Len(k) /\ Len(k) \in Nat
    BY <2>2, <2>3, LenProperties
  <2>5. Len(k) = n + 1
    BY <2>1, <2>4
  <2> QED BY <2>2, <2>3, <2>5
<1> HIDE DEF k
<1>13. Rising(k)
  <2>1. ASSUME NEW i \in D, NEW j \in D, i < j PROVE k[i].at < k[j].at
    <3>1. Before(p[i], p[j])
      BY <1>8, <2>1
    <3>2. p[i] # p[j]
      BY <1>10, <2>1
    <3>3. g[p[i]].at < g[p[j]].at
      BY <1>5, <1>9, <3>1, <3>2
    <3> QED BY <1>12, <3>3
  <2> QED BY <1>12, <2>1 DEF Rising
<1>14. ToSet(k) = ToSet(h) \cup {inc}
  <2>1. ToSet(k) = {k[i] : i \in D} /\ ToSet(h) = {h[i] : i \in 1..n}
    BY <1>1, <1>12, LenProperties DEF ToSet
  <2>2. ASSUME NEW i \in D PROVE k[i] \in ToSet(h) \cup {inc}
    <3>1. k[i] = g[p[i]] /\ p[i] \in D
      BY <1>9, <1>12
    <3> QED BY <1>2, <1>3, <2>1, <3>1
  <2>3. ASSUME NEW v \in D PROVE g[v] \in ToSet(k)
    <3>1. PICK i \in D : p[i] = v
      BY <1>11
    <3> QED BY <1>12, <2>1, <3>1
  <2>4. \A i \in 1..n : h[i] \in ToSet(k)
    BY <1>2, <1>3, <2>3
  <2>5. inc \in ToSet(k)
    BY <1>2, <1>3, <2>3
  <2> QED BY <2>1, <2>2, <2>4, <2>5
<1> QED BY <1>6, <1>12, <1>13, <1>14 DEF g

\* PerService Incidents of h are younger than a.
Full(h, a) == Len(h) = PerService /\ \A x \in ToSet(h) : x.at > a

\* h holds an Incident of x's id.
HasId(h, x) == \E y \in ToSet(h) : IdOf(y) = IdOf(x)

\* h holds, or has lost to PerService younger ones, whatever of K is young enough at t.
Holds(h, K, t) == \A x \in K : x.at > t - MaxAge => HasId(h, x) \/ Full(h, x.at)

\* r is what record makes of h, which holds no Incident of inc's id, at t.
Recorded(r, h, inc, t) ==
  /\ ToSet(r) \subseteq ToSet(h) \cup {inc}
  /\ inc \in ToSet(r) => inc.at > t - MaxAge /\ ~Full(r, inc.at)
  /\ \A x \in ToSet(h) \cup {inc} : x.at > t - MaxAge => x \in ToSet(r) \/ Full(r, x.at)
  /\ \A a \in Int : a > t - MaxAge /\ Full(h, a) => Full(r, a)

\* record keeps the newest and loses only what is too old or has PerService after it.
LEMMA RecordKept ==
  ASSUME NEW S, Dated(S), NEW h \in Seq(S), Rising(h), Len(h) <= PerService, NEW inc \in S, NEW t \in Int,
         ~HasId(h, inc), \A x \in ToSet(h) : x.at # inc.at
  PROVE  /\ record(h, inc, t) \in Seq(S) /\ Rising(record(h, inc, t))
         /\ Len(record(h, inc, t)) <= PerService
         /\ Recorded(record(h, inc, t), h, inc, t)
<1> DEFINE n == Len(h)
           g == Sorted(Append(h, inc))
           k == fresh(g, t)
           r == SubSeq(k, Max({1, Len(k) - PerService + 1}), Len(k))
           H == ToSet(h)
           R == ToSet(r)
<1>1. n \in Nat /\ H = {h[i] : i \in 1..n} /\ H \subseteq S /\ IsFiniteSet(H) /\ Cardinality(H) = n
  BY RisingOnce, LenProperties
<1>2. record(h, inc, t) = r
  BY <1>1 DEF record, HasId
<1>3. g \in Seq(S) /\ Rising(g) /\ ToSet(g) = H \cup {inc}
  <2>1. \A i \in 1..Len(h) : h[i].at # inc.at
    BY <1>1
  <2> HIDE DEF n
  <2> QED BY <2>1, SortedKept
<1> HIDE DEF g
<1>4. k \in Seq(S) /\ Rising(k) /\ ToSet(k) = {x \in H \cup {inc} : x.at > t - MaxAge}
  <2>1. k \in Seq(S) /\ Rising(k) /\ ToSet(k) = {x \in ToSet(g) : x.at > t - MaxAge}
    <3>1. g \in Seq(S) /\ Rising(g)
      BY <1>3
    <3> HIDE DEF n, r, H, R
    <3> QED BY <3>1, FreshKept
  <2>2. ToSet(g) = H \cup {inc}
    BY <1>3
  <2> HIDE DEF k, H
  <2> QED BY <2>1, <2>2
<1> HIDE DEF k
<1>5. r \in Seq(S) /\ Rising(r) /\ Newest(r, k)
  BY <1>4, CapKept
<1> HIDE DEF r
<1>6. R \subseteq S /\ IsFiniteSet(R) /\ Cardinality(R) = Len(r) /\ Len(r) \in Nat
  BY <1>5, RisingOnce, LenProperties
<1> HIDE DEF H, R
<1>7. R \subseteq ToSet(k) /\ Len(r) <= PerService
      /\ \A x \in ToSet(k) \ R : Full(r, x.at)
  BY <1>5 DEF Newest, Full, R
<1>8. ASSUME NEW a \in Int, a > t - MaxAge, Full(h, a) PROVE Full(r, a)
  <2>1. n = PerService /\ \A x \in H : x.at > a /\ x.at \in Int
    BY <1>1, <1>8 DEF Full, Dated, H
  <2>2. t - MaxAge \in Int
    BY IncidentsAssumption
  <2>3. H \subseteq ToSet(k)
    BY <1>4, <1>8, <2>1, <2>2
  <2>4. CASE H \subseteq R
    <3>1. n <= Len(r) /\ (Len(r) = n => H = R)
      BY <1>1, <1>6, <2>4, FS_Subset
    <3>2. Len(r) = PerService /\ H = R
      BY <1>1, <1>6, <1>7, <2>1, <3>1
    <3> QED BY <2>1, <3>2 DEF Full, R
  <2>5. CASE ~(H \subseteq R)
    <3>1. PICK x \in H : x \notin R
      BY <2>5
    <3>2. Full(r, x.at) /\ x.at > a /\ x.at \in Int
      BY <1>7, <2>1, <2>3, <3>1
    <3>3. \A y \in R : y.at \in Int
      BY <1>6 DEF Dated
    <3> QED BY <3>2, <3>3 DEF Full, R
  <2> QED BY <2>4, <2>5
<1>9. inc \in R => inc.at > t - MaxAge /\ ~Full(r, inc.at)
  <2>1. inc.at \in Int
    BY DEF Dated
  <2> QED BY <1>4, <1>7, <2>1 DEF Full, R
<1> QED
  BY <1>2, <1>4, <1>5, <1>7, <1>8, <1>9 DEF Recorded, H, R

-----------------------------------------------------------------------------
(***************************************************************************)
(* The word of the queue on a container.                                    *)
(***************************************************************************)
Actions == {"exit", "clean", "unhealthy", "healthy", "oom", "restart"}

Events == [n : Ids, action : Actions, at : Int, fell : BOOLEAN, sighted : BOOLEAN]

\* The actions after which the store may think otherwise of a container's check.
Verdicts == {"exit", "clean", "unhealthy", "healthy"}

Speaks(e, n) == e.n = n /\ e.action \in Verdicts

\* Taking the first i of the events q in order leaves the store thinking that n's check
\* passes: the last of them to speak of n says so, or none does and the store thinks so.
LastSays(q, n, i) ==
  \E j \in 1..i : /\ Speaks(q[j], n) /\ q[j].action = "healthy"
                  /\ \A k \in (j + 1)..i : ~Speaks(q[k], n)

Silent(q, n, i) == \A k \in 1..i : ~Speaks(q[k], n)

Passing(q, h, n, i) == LastSays(q, n, i) \/ (n \in h /\ Silent(q, n, i))

Falling(e) == e.action = "unhealthy" /\ e.fell /\ e.sighted /\ isObserved(At(e.n))

Reported(e, seen) == \E p \in seen : p.e = e /\ p.inc # {}

\* p is q without its i-th event.
Without(p, q, i) ==
  /\ Len(p) = Len(q) - 1
  /\ \A j \in 1..Len(p) : p[j] = IF j < i THEN q[j] ELSE q[j + 1]

\* Removing an event leaves the others, in their order.
LEMMA RemoveAtWithout ==
  ASSUME NEW S, NEW q \in Seq(S), NEW i \in 1..Len(q)
  PROVE  RemoveAt(q, i) \in Seq(S) /\ Without(RemoveAt(q, i), q, i)
<1> DEFINE a == SubSeq(q, 1, i - 1)
           b == SubSeq(q, i + 1, Len(q))
<1>1. a \in Seq(S) /\ Len(a) = i - 1 /\ \A j \in 1..(i - 1) : a[j] = q[j]
  BY SubSeqProperties
<1>2. b \in Seq(S) /\ Len(b) = Len(q) - i /\ \A j \in 1..(Len(q) - i) : b[j] = q[i + j]
  BY SubSeqProperties
<1>3. RemoveAt(q, i) = a \o b
  BY DEF RemoveAt
<1> HIDE DEF a, b
<1>4. /\ a \o b \in Seq(S) /\ Len(a \o b) = Len(q) - 1
      /\ \A j \in 1..(Len(q) - 1) : (a \o b)[j] = IF j < i THEN a[j] ELSE b[j - (i - 1)]
  <2>1. /\ a \o b \in Seq(S) /\ Len(a \o b) = Len(a) + Len(b)
        /\ \A j \in 1..(Len(a) + Len(b)) : (a \o b)[j] = IF j <= Len(a) THEN a[j] ELSE b[j - Len(a)]
    BY <1>1, <1>2, ConcatProperties
  <2>2. Len(a) + Len(b) = Len(q) - 1 /\ \A j \in 1..(Len(q) - 1) : j <= Len(a) <=> j < i
    BY <1>1, <1>2
  <2>3. Len(a) = i - 1
    BY <1>1
  <2> QED BY <2>1, <2>2, <2>3
<1>5. ASSUME NEW j \in 1..(Len(q) - 1) PROVE (a \o b)[j] = IF j < i THEN q[j] ELSE q[j + 1]
  <2>1. CASE j < i
    BY <1>1, <1>4, <2>1
  <2>2. CASE ~(j < i)
    <3>1. j - (i - 1) \in 1..(Len(q) - i) /\ i + (j - (i - 1)) = j + 1
      BY <2>2
    <3> QED BY <1>2, <1>4, <2>2, <3>1
  <2> QED BY <2>1, <2>2
<1> QED
  BY <1>3, <1>4, <1>5 DEF Without

\* What comes after the first i events is nothing to them.
LEMMA SamePrefix ==
  ASSUME NEW p, NEW q, NEW i \in Nat, \A k \in 1..i : p[k] = q[k], NEW n
  PROVE  /\ LastSays(q, n, i) => LastSays(p, n, i)
         /\ Silent(q, n, i) => Silent(p, n, i)
<1>1. ASSUME LastSays(q, n, i) PROVE LastSays(p, n, i)
  <2>1. PICK j \in 1..i : Speaks(q[j], n) /\ q[j].action = "healthy" /\ \A k \in (j + 1)..i : ~Speaks(q[k], n)
    BY <1>1 DEF LastSays
  <2>2. p[j] = q[j]
    OBVIOUS
  <2>3. \A k \in (j + 1)..i : k \in 1..i
    OBVIOUS
  <2>4. \A k \in (j + 1)..i : ~Speaks(p[k], n)
    BY <2>1, <2>3
  <2> QED BY <2>1, <2>2, <2>4 DEF LastSays
<1>2. ASSUME Silent(q, n, i) PROVE Silent(p, n, i)
  BY <1>2 DEF Silent
<1> QED BY <1>1, <1>2

\* Taking the first event of n out leaves the last word on n, unless it was that.
LEMMA TakenSays ==
  ASSUME NEW q, Len(q) \in Nat, NEW i \in 1..Len(q), NEW p, Without(p, q, i),
         NEW n, \A k \in 1..(i - 1) : Speaks(q[i], n) => ~Speaks(q[k], n),
         NEW m \in i..Len(q)
  PROVE  /\ LastSays(q, n, m) =>
              \/ LastSays(p, n, m - 1)
              \/ Speaks(q[i], n) /\ q[i].action = "healthy" /\ Silent(p, n, m - 1)
         /\ Silent(q, n, m) => Silent(p, n, m - 1)
<1>1. \A k \in 1..(m - 1) : p[k] = IF k < i THEN q[k] ELSE q[k + 1]
  BY DEF Without
<1>2. ASSUME LastSays(q, n, m)
      PROVE  \/ LastSays(p, n, m - 1)
             \/ Speaks(q[i], n) /\ q[i].action = "healthy" /\ Silent(p, n, m - 1)
  <2>1. PICK j \in 1..m : /\ Speaks(q[j], n) /\ q[j].action = "healthy"
                          /\ \A k \in (j + 1)..m : ~Speaks(q[k], n)
    BY <1>2 DEF LastSays
  <2>2. CASE j < i
    <3>1. j \in 1..(m - 1) /\ p[j] = q[j]
      BY <1>1, <2>2
    <3>2. ASSUME NEW k \in (j + 1)..(m - 1) PROVE ~Speaks(p[k], n)
      <4>1. k \in 1..(m - 1) /\ k \in (j + 1)..m /\ (k + 1) \in (j + 1)..m
        OBVIOUS
      <4>2. p[k] = q[k] \/ p[k] = q[k + 1]
        BY <1>1, <4>1
      <4> QED BY <2>1, <4>1, <4>2
    <3> QED BY <2>1, <3>1, <3>2 DEF LastSays
  <2>3. CASE j = i
    <3>1. ASSUME NEW k \in 1..(m - 1) PROVE ~Speaks(p[k], n)
      <4>1. CASE k < i
        <5>1. p[k] = q[k] /\ k \in 1..(i - 1)
          BY <1>1, <4>1
        <5> QED BY <2>1, <2>3, <5>1
      <4>2. CASE ~(k < i)
        <5>1. p[k] = q[k + 1] /\ (k + 1) \in (j + 1)..m
          BY <1>1, <2>3, <4>2
        <5> QED BY <2>1, <5>1
      <4> QED BY <4>1, <4>2
    <3> QED BY <2>1, <2>3, <3>1 DEF Silent
  <2>4. CASE i < j
    <3>1. (j - 1) \in 1..(m - 1) /\ p[j - 1] = q[j]
      <4>1. (j - 1) \in 1..(m - 1) /\ ~(j - 1 < i) /\ (j - 1) + 1 = j
        BY <2>4
      <4> QED BY <1>1, <4>1
    <3>2. ASSUME NEW k \in ((j - 1) + 1)..(m - 1) PROVE ~Speaks(p[k], n)
      <4>1. k \in 1..(m - 1) /\ ~(k < i) /\ (k + 1) \in (j + 1)..m
        BY <2>4
      <4>2. p[k] = q[k + 1]
        BY <1>1, <4>1
      <4> QED BY <2>1, <4>1, <4>2
    <3> QED BY <2>1, <3>1, <3>2 DEF LastSays
  <2> QED BY <2>2, <2>3, <2>4
<1>3. ASSUME Silent(q, n, m), NEW k \in 1..(m - 1) PROVE ~Speaks(p[k], n)
  <2>1. k \in 1..m /\ (k + 1) \in 1..m
    OBVIOUS
  <2>2. p[k] = q[k] \/ p[k] = q[k + 1]
    BY <1>1
  <2> QED BY <1>3, <2>1, <2>2 DEF Silent
<1> QED
  BY <1>2, <1>3 DEF Silent

\* Events es sent after those of q have the last word, or leave it.
LEMMA SentSays ==
  ASSUME NEW S, NEW q \in Seq(S), NEW es \in Seq(S), NEW n
  PROVE  /\ LastSays(es, n, Len(es)) => LastSays(q \o es, n, Len(q \o es))
         /\ (LastSays(q, n, Len(q)) /\ Silent(es, n, Len(es))) => LastSays(q \o es, n, Len(q \o es))
         /\ (Silent(q, n, Len(q)) /\ Silent(es, n, Len(es))) => Silent(q \o es, n, Len(q \o es))
         /\ Silent(q \o es, n, Len(q \o es)) => Silent(q, n, Len(q))
<1> DEFINE p == q \o es
<1>1. /\ Len(q) \in Nat /\ Len(es) \in Nat /\ Len(p) = Len(q) + Len(es)
      /\ \A k \in 1..Len(p) : p[k] = IF k <= Len(q) THEN q[k] ELSE es[k - Len(q)]
  BY ConcatProperties
<1> HIDE DEF p
<1>2. \A k \in 1..Len(q) : k \in 1..Len(p) /\ p[k] = q[k]
  BY <1>1
<1>3. \A k \in 1..Len(es) : (Len(q) + k) \in 1..Len(p) /\ p[Len(q) + k] = es[k]
  BY <1>1
<1>4. ASSUME NEW k \in 1..Len(p) PROVE k \in 1..Len(q) \/ \E j \in 1..Len(es) : k = Len(q) + j /\ j = k - Len(q)
  BY <1>1
<1>5. ASSUME LastSays(es, n, Len(es)) PROVE LastSays(p, n, Len(p))
  <2>1. PICK j \in 1..Len(es) : /\ Speaks(es[j], n) /\ es[j].action = "healthy"
                                /\ \A k \in (j + 1)..Len(es) : ~Speaks(es[k], n)
    BY <1>5 DEF LastSays
  <2>2. (Len(q) + j) \in 1..Len(p) /\ p[Len(q) + j] = es[j]
    BY <1>3
  <2>3. ASSUME NEW k \in (Len(q) + j + 1)..Len(p) PROVE ~Speaks(p[k], n)
    <3>1. (k - Len(q)) \in (j + 1)..Len(es) /\ k \in 1..Len(p) /\ ~(k <= Len(q))
      BY <1>1
    <3> QED BY <1>1, <2>1, <3>1
  <2> QED BY <2>1, <2>2, <2>3 DEF LastSays
<1>6. ASSUME LastSays(q, n, Len(q)), Silent(es, n, Len(es)) PROVE LastSays(p, n, Len(p))
  <2>1. PICK j \in 1..Len(q) : /\ Speaks(q[j], n) /\ q[j].action = "healthy"
                               /\ \A k \in (j + 1)..Len(q) : ~Speaks(q[k], n)
    BY <1>6 DEF LastSays
  <2>2. j \in 1..Len(p) /\ p[j] = q[j]
    BY <1>2
  <2>3. ASSUME NEW k \in (j + 1)..Len(p) PROVE ~Speaks(p[k], n)
    <3>1. CASE k <= Len(q)
      BY <1>1, <2>1, <3>1
    <3>2. CASE ~(k <= Len(q))
      <4>1. (k - Len(q)) \in 1..Len(es) /\ k \in 1..Len(p)
        BY <1>1, <3>2
      <4> QED BY <1>1, <1>6, <3>2, <4>1 DEF Silent
    <3> QED BY <3>1, <3>2
  <2> QED BY <2>1, <2>2, <2>3 DEF LastSays
<1>7. ASSUME Silent(q, n, Len(q)), Silent(es, n, Len(es)), NEW k \in 1..Len(p) PROVE ~Speaks(p[k], n)
  BY <1>2, <1>3, <1>4, <1>7 DEF Silent
<1>8. ASSUME Silent(p, n, Len(p)) PROVE Silent(q, n, Len(q))
  BY <1>2, <1>8 DEF Silent
<1> QED
  BY <1>5, <1>6, <1>7, <1>8 DEF p, Silent

-----------------------------------------------------------------------------
(***************************************************************************)
(* The invariant of the falls.                                              *)
(***************************************************************************)
Typed ==
  /\ life \in [Ids -> {"down", "none", "starting", "healthy", "unhealthy"}]
  /\ now \in Int /\ sighted \subseteq Ids /\ queue \in Seq(Events)

\* Events arrive only while the stream is open; the last word on a container that is
\* healthy is that it is.
Queued ==
  /\ stream # "open" => queue = <<>>
  /\ \A n \in Ids : life[n] = "healthy" => LastSays(queue, n, Len(queue)) \/ Silent(queue, n, Len(queue))

\* A container whose health a listing saw is one the store thinks healthy, unless old
\* events made it think otherwise: then a pass is due, and the word that it recovered is
\* on its way.
Sighted ==
  \A n \in sighted :
    /\ n \in Ids /\ life[n] = "healthy" /\ isObserved(At(n))
    /\ n \notin healthy => /\ pc = "pass"
                           /\ stream = "open" => ~Silent(queue, n, Len(queue))

\* A fall under way has been reported, or will be when its turn comes.
FallsAwaited ==
  \A i \in 1..Len(queue) : Falling(queue[i]) =>
    Reported(queue[i], observed) \/ Passing(queue, healthy, queue[i].n, i - 1)

FallInv == Typed /\ Queued /\ Sighted /\ FallsAwaited /\ FallsReported

\* A report is never withdrawn while the process lives.
LEMMA ReportsStay ==
  ASSUME NEW e, NEW seen, NEW more, seen \subseteq more, Reported(e, seen)
  PROVE  Reported(e, more)
BY DEF Reported

\* What Observe makes of an event, as far as the healthchecks are concerned.
LEMMA ObserveFacts ==
  ASSUME NEW e \in Events, Observe(e)
  PROVE  /\ \A n : n \in healthy => n \in healthy' \/ Speaks(e, n)
         /\ (isObserved(At(e.n)) /\ e.action = "healthy") => e.n \in healthy'
         /\ \A n : n \in healthy' => n \in healthy \/ Speaks(e, n)
         /\ observed' = observed \cup {[e |-> e, inc |-> Declares(e)]}
         /\ (Falling(e) /\ e.n \in healthy) => Reported(e, observed')
<1>1. observed' = observed \cup {[e |-> e, inc |-> Declares(e)]}
  BY DEF Observe
<1>2. IF ~isObserved(At(e.n)) THEN healthy' = healthy
      ELSE healthy' = CASE e.action \in {"exit", "clean", "unhealthy"} -> healthy \ {e.n}
                        [] e.action = "healthy"                      -> healthy \cup {e.n}
                        [] OTHER                                     -> healthy
  BY DEF Observe, Remembered
<1>3. /\ ~isObserved(At(e.n)) => healthy' = healthy
      /\ (isObserved(At(e.n)) /\ e.action \in {"exit", "clean", "unhealthy"}) => healthy' = healthy \ {e.n}
      /\ (isObserved(At(e.n)) /\ e.action = "healthy") => healthy' = healthy \cup {e.n}
      /\ (isObserved(At(e.n)) /\ e.action \in {"oom", "restart"}) => healthy' = healthy
  <2>1. CASE ~isObserved(At(e.n))
    BY <1>2, <2>1
  <2>2. CASE isObserved(At(e.n)) /\ e.action \in {"exit", "clean", "unhealthy"}
    BY <1>2, <2>2
  <2>3. CASE isObserved(At(e.n)) /\ e.action = "healthy"
    BY <1>2, <2>3
  <2>4. CASE isObserved(At(e.n)) /\ e.action \in {"oom", "restart"}
    BY <1>2, <2>4
  <2> QED BY <2>1, <2>2, <2>3, <2>4
<1>4. e.action \in Actions
  BY DEF Events
<1>5. ASSUME NEW n, n \in healthy PROVE n \in healthy' \/ Speaks(e, n)
  BY <1>3, <1>4, <1>5 DEF Speaks, Verdicts, Actions
<1>6. ASSUME NEW n, n \in healthy' PROVE n \in healthy \/ Speaks(e, n)
  BY <1>3, <1>4, <1>6 DEF Speaks, Verdicts, Actions
<1>7. ASSUME Falling(e), e.n \in healthy PROVE Reported(e, observed')
  <2>1. isObserved(At(e.n)) /\ e.action = "unhealthy"
    BY <1>7 DEF Falling
  <2>2. Declares(e) = {Incident(e, "unhealthy", FALSE)}
    BY <1>7, <2>1 DEF Declares
  <2>3. [e |-> e, inc |-> Declares(e)].inc # {} /\ [e |-> e, inc |-> Declares(e)].e = e
    BY <2>2
  <2> QED BY <1>1, <2>3 DEF Reported
<1> QED
  BY <1>1, <1>3, <1>5, <1>6, <1>7

\* Events es sent while the containers go from life to life'.
LEMMA SendingKeeps ==
  ASSUME FallInv, NEW es \in Seq(Events), NEW t, Happen(es, t), Typed',
         \A n \in Ids : life'[n] = "healthy" =>
            \/ life[n] = "healthy" /\ Silent(es, n, Len(es))
            \/ LastSays(es, n, Len(es)),
         sighted' \subseteq sighted, \A n \in sighted' : life'[n] = "healthy",
         \A k \in 1..Len(es) : Falling(es[k]) => k = 1 /\ es[k].n \in sighted
  PROVE  FallInv'
<1>1. /\ UNCHANGED <<stream, pc, healthy, observed>>
      /\ queue' = IF stream = "open" THEN queue \o es ELSE queue
  BY DEF Happen, store
<1>2. FallsReported'
  BY <1>1 DEF FallInv, FallsReported
<1>3. queue \in Seq(Events) /\ Len(queue) \in Nat /\ Len(es) \in Nat
  BY DEF FallInv, Typed
<1>4. CASE stream # "open"
  <2>1. queue' = <<>> /\ queue = <<>>
    BY <1>1, <1>4 DEF FallInv, Queued
  <2>2. \A n : Silent(queue', n, Len(queue'))
    BY <2>1 DEF Silent
  <2>3. Queued'
    BY <1>1, <2>1, <2>2 DEF Queued
  <2>4. Sighted'
    BY <1>1, <1>4 DEF FallInv, Sighted
  <2>5. FallsAwaited'
    BY <2>1 DEF FallsAwaited
  <2> QED BY <1>2, <2>3, <2>4, <2>5 DEF FallInv
<1>5. CASE stream = "open"
  <2>1. queue' = queue \o es
    BY <1>1, <1>5
  <2>2. ASSUME NEW n \in Ids, life'[n] = "healthy"
        PROVE  LastSays(queue', n, Len(queue')) \/ Silent(queue', n, Len(queue'))
    <3>1. CASE LastSays(es, n, Len(es))
      BY <1>3, <2>1, <3>1, SentSays
    <3>2. CASE life[n] = "healthy" /\ Silent(es, n, Len(es))
      <4>1. LastSays(queue, n, Len(queue)) \/ Silent(queue, n, Len(queue))
        BY <3>2 DEF FallInv, Queued
      <4> QED BY <1>3, <2>1, <3>2, <4>1, SentSays
    <3> QED BY <2>2, <3>1, <3>2
  <2>3. Queued'
    BY <1>1, <1>5, <2>2 DEF Queued
  <2>4. ASSUME NEW n \in sighted', n \notin healthy' PROVE pc' = "pass" /\ ~Silent(queue', n, Len(queue'))
    <3>1. n \in sighted /\ n \notin healthy
      BY <1>1, <2>4
    <3>2. pc = "pass" /\ ~Silent(queue, n, Len(queue))
      BY <1>5, <3>1 DEF FallInv, Sighted
    <3> QED BY <1>1, <1>3, <2>1, <3>2, SentSays
  <2>5. Sighted'
    BY <2>4 DEF FallInv, Sighted
  <2>6. /\ Len(queue') = Len(queue) + Len(es)
        /\ \A k \in 1..Len(queue') : queue'[k] = IF k <= Len(queue) THEN queue[k] ELSE es[k - Len(queue)]
    BY <1>3, <2>1, ConcatProperties
  <2>7. ASSUME NEW n, NEW i \in 0..Len(queue), Passing(queue, healthy, n, i)
        PROVE  Passing(queue', healthy', n, i)
    <3>1. \A k \in 1..i : queue'[k] = queue[k]
      BY <1>3, <2>6
    <3>2. i \in Nat
      BY <1>3
    <3> QED BY <1>1, <2>7, <3>1, <3>2, SamePrefix DEF Passing
  <2>8. ASSUME NEW i \in 1..Len(queue'), Falling(queue'[i])
        PROVE  Reported(queue'[i], observed') \/ Passing(queue', healthy', queue'[i].n, i - 1)
    <3>1. CASE i <= Len(queue)
      <4>1. i \in 1..Len(queue) /\ queue'[i] = queue[i] /\ (i - 1) \in 0..Len(queue)
        BY <1>3, <2>6, <3>1
      <4>2. Reported(queue[i], observed) \/ Passing(queue, healthy, queue[i].n, i - 1)
        BY <2>8, <4>1 DEF FallInv, FallsAwaited
      <4> QED BY <1>1, <2>7, <4>1, <4>2
    <3>2. CASE ~(i <= Len(queue))
      <4>1. (i - Len(queue)) \in 1..Len(es) /\ queue'[i] = es[i - Len(queue)]
        BY <1>3, <2>6, <3>2
      <4>2. i - Len(queue) = 1 /\ queue'[i].n \in sighted
        BY <2>8, <4>1
      <4> DEFINE n == queue'[i].n
      <4>3. n \in Ids /\ life[n] = "healthy"
        BY <4>2 DEF FallInv, Sighted
      <4>4. LastSays(queue, n, Len(queue)) \/ Silent(queue, n, Len(queue))
        BY <4>3 DEF FallInv, Queued
      <4>5. n \in healthy \/ ~Silent(queue, n, Len(queue))
        BY <1>5, <4>2 DEF FallInv, Sighted
      <4>6. Passing(queue, healthy, n, Len(queue))
        BY <4>4, <4>5 DEF Passing
      <4>7. i - 1 = Len(queue) /\ Len(queue) \in 0..Len(queue)
        BY <1>3, <4>2
      <4> QED BY <2>7, <4>6, <4>7
    <3> QED BY <3>1, <3>2
  <2>9. FallsAwaited'
    BY <2>8 DEF FallsAwaited
  <2> QED BY <1>2, <2>3, <2>5, <2>9 DEF FallInv
<1> QED BY <1>4, <1>5

\* Whatever happens to a container, what is sent of it are events.
LEMMA SendingTyped ==
  ASSUME Typed, NEW es \in Seq(Events), NEW t \in Int, Happen(es, t),
         life' \in [Ids -> {"down", "none", "starting", "healthy", "unhealthy"}], sighted' \subseteq sighted
  PROVE  Typed'
<1>1. queue \o es \in Seq(Events)
  BY ConcatProperties DEF Typed
<1> QED
  BY <1>1 DEF Typed, Happen

\* An event of the clock's instant is one the queue can hold.
LEMMA EventTyped ==
  ASSUME NEW n \in Ids, NEW action \in Actions, NEW t \in Int
  PROVE  /\ Event(n, action, t) \in Events
         /\ Event(n, action, t).n = n /\ Event(n, action, t).action = action /\ Event(n, action, t).at = t
         /\ Event(n, action, t).sighted => n \in sighted
<1> DEFINE fell == life[n] = "healthy"
           seen == n \in sighted
<1>1. fell \in BOOLEAN /\ seen \in BOOLEAN
  OBVIOUS
<1>2. Event(n, action, t) = [n |-> n, action |-> action, at |-> t, fell |-> fell, sighted |-> seen]
  BY DEF Event
<1>3. seen => n \in sighted
  OBVIOUS
<1> HIDE DEF fell, seen
<1>4. Event(n, action, t) \in Events
  BY <1>1, <1>2 DEF Events
<1>5. Event(n, action, t).sighted = seen
  BY <1>2
<1>6. Event(n, action, t).sighted => n \in sighted
  BY <1>3, <1>5, Zenon
<1> QED
  BY <1>2, <1>4, <1>6

\* No events, or one that speaks of nobody's health.
LEMMA QuietSteps ==
  ASSUME FallInv, Elapse \/ (\E n \in Ids : Start(n) \/ Oom(n)) PROVE FallInv'
<1>1. now \in Int /\ OOMWindow \in Int
  BY IncidentsAssumption DEF FallInv, Typed
<1>2. \A n : Silent(<<>>, n, Len(<<>>))
  BY DEF Silent
<1>3. <<>> \in Seq(Events) /\ Len(<<>>) = 0
  OBVIOUS
<1>4. CASE Elapse
  <2>1. Happen(<<>>, now + OOMWindow) /\ UNCHANGED <<life, sighted>> /\ now + OOMWindow \in Int
    BY <1>1, <1>4 DEF Elapse
  <2>2. Typed'
    BY <1>3, <2>1, SendingTyped DEF FallInv, Typed
  <2>3. \A m \in Ids : life'[m] = "healthy" => life[m] = "healthy" /\ Silent(<<>>, m, Len(<<>>))
    BY <1>2, <2>1
  <2>4. \A m \in sighted' : life'[m] = "healthy"
    BY <2>1 DEF FallInv, Sighted
  <2>5. \A k \in 1..Len(<<>>) : Falling(<<>>[k]) => k = 1 /\ <<>>[k].n \in sighted
    BY <1>3
  <2> QED
    BY <1>3, <2>1, <2>2, <2>3, <2>4, <2>5, SendingKeeps
<1>5. ASSUME NEW n \in Ids, Start(n) PROVE FallInv'
  <2>1. Happen(<<>>, now + 1) /\ sighted' = sighted /\ now + 1 \in Int /\ life[n] = "down"
        /\ life' = [life EXCEPT ![n] = IF At(n).health = "none" THEN "none" ELSE "starting"]
    BY <1>1, <1>5 DEF Start, Up
  <2>2. life' \in [Ids -> {"down", "none", "starting", "healthy", "unhealthy"}]
    BY <2>1 DEF FallInv, Typed
  <2>3. Typed'
    BY <1>3, <2>1, <2>2, SendingTyped DEF FallInv
  <2>4. \A m \in Ids : life'[m] = "healthy" => life[m] = "healthy"
    BY <2>1 DEF FallInv, Typed
  <2>5. \A m \in Ids : life[m] = "healthy" => life'[m] = "healthy"
    BY <2>1 DEF FallInv, Typed
  <2>6. \A m \in sighted' : life'[m] = "healthy"
    BY <2>1, <2>5 DEF FallInv, Sighted
  <2>7. \A m \in Ids : life'[m] = "healthy" =>
           life[m] = "healthy" /\ Silent(<<>>, m, Len(<<>>))
    BY <1>2, <2>4
  <2>8. \A k \in 1..Len(<<>>) : Falling(<<>>[k]) => k = 1 /\ <<>>[k].n \in sighted
    BY <1>3
  <2> QED
    BY <1>3, <2>1, <2>3, <2>6, <2>7, <2>8, SendingKeeps
<1>6. ASSUME NEW n \in Ids, Oom(n) PROVE FallInv'
  <2> DEFINE e == Event(n, "oom", now + 1)
  <2>1. Happen(<<e>>, now + 1) /\ UNCHANGED <<life, sighted>> /\ now + 1 \in Int
    BY <1>1, <1>6 DEF Oom
  <2>2. e \in Events /\ e.action = "oom"
    BY <1>1, EventTyped DEF Actions
  <2> HIDE DEF e
  <2>3. <<e>> \in Seq(Events) /\ Len(<<e>>) = 1 /\ <<e>>[1] = e
    BY <2>2
  <2>4. \A m : Silent(<<e>>, m, Len(<<e>>))
    BY <2>2, <2>3 DEF Silent, Speaks, Verdicts
  <2>5. Typed'
    BY <2>1, <2>3, SendingTyped DEF FallInv, Typed
  <2>6. \A k \in 1..Len(<<e>>) : Falling(<<e>>[k]) => k = 1 /\ <<e>>[k].n \in sighted
    BY <2>2, <2>3 DEF Falling
  <2> QED
    BY <2>1, <2>3, <2>4, <2>5, <2>6, SendingKeeps DEF FallInv, Sighted
<1> QED
  BY <1>4, <1>5, <1>6

\* A check that changes its mind says so, and forgets that a listing saw it.
LEMMA CheckStep ==
  ASSUME FallInv, NEW n \in Ids, NEW s \in {"healthy", "unhealthy"}, Check(n, s) PROVE FallInv'
<1> DEFINE e == Event(n, s, now + 1)
<1>1. now + 1 \in Int
  BY DEF FallInv, Typed
<1>2. /\ Happen(<<e>>, now + 1) /\ sighted' = sighted \ {n}
      /\ life' = [life EXCEPT ![n] = s] /\ life[n] # s
  BY DEF Check
<1>3. e \in Events /\ e.n = n /\ e.action = s /\ (e.sighted => n \in sighted)
  BY <1>1, EventTyped DEF Actions
<1> HIDE DEF e
<1>4. <<e>> \in Seq(Events) /\ Len(<<e>>) = 1 /\ <<e>>[1] = e
  BY <1>3
<1>5. life' \in [Ids -> {"down", "none", "starting", "healthy", "unhealthy"}]
  BY <1>2 DEF FallInv, Typed
<1>6. Typed'
  BY <1>1, <1>2, <1>4, <1>5, SendingTyped DEF FallInv
<1>7. \A m \in Ids : life'[m] = IF m = n THEN s ELSE life[m]
  BY <1>2 DEF FallInv, Typed
<1>8. ASSUME NEW m \in Ids, life'[m] = "healthy"
      PROVE  (life[m] = "healthy" /\ Silent(<<e>>, m, Len(<<e>>))) \/ LastSays(<<e>>, m, Len(<<e>>))
  <2>1. CASE m = n
    <3>1. Speaks(e, m) /\ e.action = "healthy"
      BY <1>3, <1>7, <1>8, <2>1 DEF Speaks, Verdicts
    <3> QED BY <1>4, <3>1 DEF LastSays
  <2>2. CASE m # n
    BY <1>3, <1>4, <1>7, <1>8, <2>2 DEF Silent, Speaks
  <2> QED BY <2>1, <2>2
<1>9. \A m \in sighted' : life'[m] = "healthy"
  BY <1>2, <1>7 DEF FallInv, Sighted
<1>10. \A k \in 1..Len(<<e>>) : Falling(<<e>>[k]) => k = 1 /\ <<e>>[k].n \in sighted
  BY <1>3, <1>4 DEF Falling
<1> QED
  BY <1>2, <1>4, <1>6, <1>8, <1>9, <1>10, SendingKeeps

\* A container that dies, and perhaps comes back, is not healthy.
LEMMA DieStep ==
  ASSUME FallInv, NEW n \in Ids, NEW how \in {"exit", "clean"}, Die(n, how) \/ Restart(n, how)
  PROVE  FallInv'
<1>1. now \in Int
  BY DEF FallInv, Typed
<1>2. PICK es \in Seq(Events), t \in Int :
        /\ Happen(es, t)
        /\ \A k \in 1..Len(es) : es[k].n = n /\ es[k].action # "unhealthy"
  <2> DEFINE e == Event(n, how, now + 1)
             f == Event(n, "restart", now + 3)
  <2>1. e \in Events /\ e.n = n /\ e.action = how /\ f \in Events /\ f.n = n /\ f.action = "restart"
    BY <1>1, EventTyped DEF Actions
  <2>2. Happen(<<e>>, now + 1) \/ Happen(<<e, f>>, now + 3)
    BY DEF Die, Restart
  <2> HIDE DEF e, f
  <2>3. /\ <<e>> \in Seq(Events) /\ Len(<<e>>) = 1 /\ <<e>>[1] = e
        /\ <<e, f>> \in Seq(Events) /\ Len(<<e, f>>) = 2 /\ <<e, f>>[1] = e /\ <<e, f>>[2] = f
    BY <2>1
  <2>4. \A k \in 1..Len(<<e>>) : <<e>>[k].n = n /\ <<e>>[k].action # "unhealthy"
    BY <2>1, <2>3
  <2>5. \A k \in 1..Len(<<e, f>>) : <<e, f>>[k].n = n /\ <<e, f>>[k].action # "unhealthy"
    <3>1. \A k \in 1..2 : k = 1 \/ k = 2
      OBVIOUS
    <3> QED BY <2>1, <2>3, <3>1
  <2>6. now + 1 \in Int /\ now + 3 \in Int
    BY <1>1
  <2>7. CASE Happen(<<e>>, now + 1)
    BY <2>3, <2>4, <2>6, <2>7
  <2>8. CASE Happen(<<e, f>>, now + 3)
    BY <2>3, <2>5, <2>6, <2>8
  <2> QED BY <2>2, <2>7, <2>8
<1>3. /\ sighted' = sighted \ {n}
      /\ \/ life' = [life EXCEPT ![n] = "down"]
         \/ life' = [life EXCEPT ![n] = IF At(n).health = "none" THEN "none" ELSE "starting"]
  BY DEF Die, Restart, Up
<1>4. life' \in [Ids -> {"down", "none", "starting", "healthy", "unhealthy"}]
  BY <1>3 DEF FallInv, Typed
<1>5. Typed'
  BY <1>2, <1>3, <1>4, SendingTyped DEF FallInv
<1>6. \A m \in Ids : IF m = n THEN life'[m] # "healthy" ELSE life'[m] = life[m]
  BY <1>3 DEF FallInv, Typed
<1>7. \A m \in Ids : life'[m] = "healthy" => life[m] = "healthy" /\ Silent(es, m, Len(es))
  BY <1>2, <1>6 DEF Silent, Speaks
<1>8. \A m \in sighted' : life'[m] = "healthy"
  BY <1>3, <1>6 DEF FallInv, Sighted
<1>9. \A k \in 1..Len(es) : ~Falling(es[k])
  BY <1>2 DEF Falling
<1> QED
  BY <1>2, <1>3, <1>5, <1>7, <1>8, <1>9, SendingKeeps

\* The stream takes its events along.
LEMMA EmptyStep ==
  ASSUME FallInv, BreakStream \/ Subscribe PROVE FallInv'
<1>1. /\ queue' = <<>> /\ UNCHANGED <<life, now, sighted, healthy, observed>>
      /\ \/ pc' = pc /\ stream' = "broken"
         \/ pc = "subscribe"
  BY DEF BreakStream, Subscribe, docker, store
<1>2. Typed' /\ FallsReported' /\ FallsAwaited'
  BY <1>1 DEF FallInv, Typed, FallsReported, FallsAwaited
<1>3. Queued'
  BY <1>1 DEF Queued, Silent
<1>4. Sighted'
  BY <1>1 DEF FallInv, Sighted
<1> QED BY <1>2, <1>3, <1>4 DEF FallInv

\* A listing tells the store of every container that is healthy.
LEMMA PassStep == ASSUME FallInv, Pass PROVE FallInv'
<1>1. /\ UNCHANGED <<life, now, stream, queue, observed>>
      /\ healthy' = healthy \cup Healthy /\ sighted' = sighted \cup Healthy
  BY DEF Pass, docker
<1>2. Typed'
  BY <1>1 DEF FallInv, Typed, Healthy
<1>3. Queued'
  BY <1>1 DEF FallInv, Queued
<1>4. FallsReported'
  BY <1>1 DEF FallInv, FallsReported
<1>5. \A n \in sighted' : n \in Ids /\ life[n] = "healthy" /\ isObserved(At(n)) /\ n \in healthy'
  BY <1>1 DEF FallInv, Sighted, Healthy
<1>6. Sighted'
  BY <1>1, <1>5 DEF Sighted
<1>7. FallsAwaited'
  BY <1>1 DEF FallInv, FallsAwaited, Passing
<1> QED BY <1>2, <1>3, <1>4, <1>6, <1>7 DEF FallInv

\* The steps that neither move events nor learn of health.
LEMMA IdleStep ==
  ASSUME FallInv, Tick \/ StreamError \/ List \/ RestartWatcher \/ UNCHANGED vars PROVE FallInv'
<1>1. CASE RestartWatcher
  <2>1. queue' = <<>> /\ sighted' = {} /\ observed' = {} /\ UNCHANGED <<life, now>>
    BY <1>1 DEF RestartWatcher, docker
  <2> QED
    BY <2>1 DEF FallInv, Typed, Queued, Silent, Sighted, FallsAwaited, FallsReported
<1>2. CASE Tick \/ StreamError \/ List \/ UNCHANGED vars
  <2>1. /\ UNCHANGED <<life, now, sighted, stream, queue, healthy, observed>>
        /\ pc = "pass" => pc' = "pass"
    BY <1>2 DEF Tick, StreamError, List, vars, docker, store
  <2> QED
    BY <2>1 DEF FallInv, Typed, Queued, Sighted, FallsAwaited, FallsReported
<1> QED BY <1>1, <1>2

\* An event reaches the store: it is the first left of its container.
LEMMA NoteStep ==
  ASSUME FallInv, NEW i \in Deliverable, NoteIncident(i) PROVE FallInv'
<1> DEFINE e == queue[i]
<1>1. /\ queue \in Seq(Events) /\ Len(queue) \in Nat /\ i \in 1..Len(queue) /\ e \in Events
      /\ \A j \in 1..(i - 1) : queue[j].n # e.n
  BY DEF FallInv, Typed, Deliverable
<1>2. /\ Observe(e) /\ pc' = "pass" /\ UNCHANGED <<life, now, sighted, stream>>
      /\ queue' = RemoveAt(queue, i) \/ queue' = queue
  BY DEF NoteIncident, docker
<1> HIDE DEF e
<1>3. \A j \in 1..(i - 1) : \A n : Speaks(e, n) => ~Speaks(queue[j], n)
  BY <1>1 DEF Speaks
<1>4. /\ \A n : n \in healthy => n \in healthy' \/ Speaks(e, n)
      /\ (isObserved(At(e.n)) /\ e.action = "healthy") => e.n \in healthy'
      /\ \A n : n \in healthy' => n \in healthy \/ Speaks(e, n)
      /\ observed' = observed \cup {[e |-> e, inc |-> Declares(e)]}
      /\ (Falling(e) /\ e.n \in healthy) => Reported(e, observed')
  BY <1>1, <1>2, ObserveFacts
<1>5. \A x : Reported(x, observed) => Reported(x, observed')
  BY <1>4, ReportsStay
<1>6. FallsReported'
  <2>1. ASSUME Falling(e) PROVE Reported(e, observed')
    <3>1. Reported(e, observed) \/ Passing(queue, healthy, e.n, i - 1)
      BY <1>1, <2>1 DEF FallInv, FallsAwaited, e
    <3>2. ~LastSays(queue, e.n, i - 1)
      BY <1>1 DEF LastSays, Speaks
    <3> QED BY <1>4, <1>5, <2>1, <3>1, <3>2 DEF Passing
  <2>2. \A x : FallsReported <=>
          \A o \in observed : Falling(o.e) => Reported(o.e, observed)
    BY DEF FallsReported, Falling, Reported
  <2>3. ASSUME NEW o \in observed', Falling(o.e) PROVE Reported(o.e, observed')
    <3>1. CASE o \in observed
      BY <1>5, <2>2, <2>3, <3>1 DEF FallInv
    <3>2. CASE o.e = e
      BY <2>1, <2>3, <3>2
    <3> QED BY <1>4, <3>1, <3>2
  <2> QED BY <2>3 DEF FallsReported, Falling, Reported
<1>7. CASE queue' = queue
  <2>1. Typed'
    BY <1>2, <1>7 DEF FallInv, Typed
  <2>2. Queued'
    BY <1>2, <1>7 DEF FallInv, Queued
  <2>3. ASSUME NEW n \in sighted, n \notin healthy', stream = "open" PROVE ~Silent(queue, n, Len(queue))
    <3>1. CASE n \notin healthy
      BY <2>3, <3>1 DEF FallInv, Sighted
    <3>2. CASE n \in healthy
      <4>1. Speaks(queue[i], n)
        BY <1>4, <2>3, <3>2 DEF e
      <4> QED BY <1>1, <4>1 DEF Silent
    <3> QED BY <3>1, <3>2
  <2>4. Sighted'
    BY <1>2, <1>7, <2>3 DEF FallInv, Sighted
  <2>5. ASSUME NEW m \in 1..Len(queue), Falling(queue[m])
        PROVE  Reported(queue[m], observed') \/ Passing(queue, healthy', queue[m].n, m - 1)
    <3> DEFINE n == queue[m].n
    <3>1. Reported(queue[m], observed) \/ Passing(queue, healthy, n, m - 1)
      BY <2>5 DEF FallInv, FallsAwaited
    <3>2. ASSUME n \in healthy, Silent(queue, n, m - 1), n \notin healthy' PROVE Reported(queue[m], observed')
      <4>1. Speaks(queue[i], n) /\ e.n = n
        BY <1>4, <3>2 DEF e, Speaks
      <4>2. ~(i < m)
        BY <1>1, <3>2, <4>1 DEF Silent
      <4>3. ~(m < i)
        BY <1>1, <4>1
      <4>4. m = i
        BY <1>1, <4>2, <4>3
      <4> QED BY <1>4, <2>5, <3>2, <4>4 DEF e
    <3> QED BY <1>5, <3>1, <3>2 DEF Passing
  <2>6. FallsAwaited'
    BY <1>7, <2>5 DEF FallsAwaited
  <2> QED BY <1>6, <2>1, <2>2, <2>4, <2>6 DEF FallInv
<1>8. CASE queue' = RemoveAt(queue, i)
  <2>1. queue' \in Seq(Events) /\ Without(queue', queue, i)
    BY <1>1, <1>8, RemoveAtWithout
  <2>2. Len(queue') = Len(queue) - 1 /\ \A j \in 1..Len(queue') : queue'[j] = IF j < i THEN queue[j] ELSE queue[j + 1]
    BY <2>1 DEF Without
  <2>3. ASSUME NEW n, NEW m \in i..Len(queue)
        PROVE  /\ LastSays(queue, n, m) =>
                    \/ LastSays(queue', n, m - 1)
                    \/ Speaks(e, n) /\ e.action = "healthy" /\ Silent(queue', n, m - 1)
               /\ Silent(queue, n, m) => Silent(queue', n, m - 1)
    BY <1>1, <1>3, <2>1, TakenSays DEF e
  <2>4. Typed'
    BY <1>2, <2>1 DEF FallInv, Typed
  <2>5. Len(queue) \in i..Len(queue) /\ Len(queue') = Len(queue) - 1
    BY <1>1, <2>2
  <2>6. stream = "open"
    BY <1>1 DEF FallInv, Queued
  <2>7. Queued'
    <3>1. \A n \in Ids : life[n] = "healthy" =>
             LastSays(queue', n, Len(queue')) \/ Silent(queue', n, Len(queue'))
      BY <2>3, <2>5 DEF FallInv, Queued
    <3> QED BY <1>2, <2>6, <3>1 DEF Queued
  <2>8. ASSUME NEW n \in sighted, n \notin healthy' PROVE ~Silent(queue', n, Len(queue'))
    <3>1. n \in Ids /\ life[n] = "healthy" /\ isObserved(At(n))
      BY DEF FallInv, Sighted
    <3>2. ~Silent(queue, n, Len(queue))
      <4>1. CASE n \notin healthy
        BY <2>6, <4>1 DEF FallInv, Sighted
      <4>2. CASE n \in healthy
        <5>1. Speaks(queue[i], n)
          BY <1>4, <2>8, <4>2 DEF e
        <5> QED BY <1>1, <5>1 DEF Silent
      <4> QED BY <4>1, <4>2
    <3>3. LastSays(queue, n, Len(queue))
      BY <3>1, <3>2 DEF FallInv, Queued
    <3>4. ~(Speaks(e, n) /\ e.action = "healthy")
      BY <1>4, <2>8, <3>1 DEF Speaks
    <3>5. LastSays(queue', n, Len(queue'))
      BY <2>3, <2>5, <3>3, <3>4
    <3> QED BY <3>5 DEF LastSays, Silent
  <2>9. Sighted'
    BY <1>2, <2>8 DEF FallInv, Sighted
  <2>10. ASSUME NEW m \in 1..Len(queue'), Falling(queue'[m])
         PROVE  Reported(queue'[m], observed') \/ Passing(queue', healthy', queue'[m].n, m - 1)
    <3> DEFINE n == queue'[m].n
    <3>1. CASE m < i
      <4>1. m \in 1..Len(queue) /\ queue'[m] = queue[m] /\ m - 1 \in Nat
        BY <1>1, <2>2, <3>1
      <4>2. Reported(queue[m], observed) \/ Passing(queue, healthy, n, m - 1)
        BY <2>10, <4>1 DEF FallInv, FallsAwaited
      <4>3. \A k \in 1..(m - 1) : queue'[k] = queue[k]
        BY <1>1, <2>2, <3>1
      <4>4. ~Speaks(e, n)
        BY <1>1, <3>1, <4>1 DEF Speaks
      <4>5. n \in healthy => n \in healthy'
        BY <1>4, <4>4
      <4> QED BY <1>5, <4>1, <4>2, <4>3, <4>5, SamePrefix DEF Passing
    <3>2. CASE ~(m < i)
      <4>1. m + 1 \in 1..Len(queue) /\ queue'[m] = queue[m + 1] /\ m \in i..Len(queue) /\ (m + 1) - 1 = m
        BY <1>1, <2>2, <3>2
      <4>2. Reported(queue'[m], observed) \/ Passing(queue, healthy, n, m)
        BY <2>10, <4>1 DEF FallInv, FallsAwaited
      <4>3. isObserved(At(n))
        BY <2>10 DEF Falling
      <4>4. (Speaks(e, n) /\ e.action = "healthy") => n \in healthy'
        BY <1>4, <4>3 DEF Speaks
      <4>5. LastSays(queue, n, m) => Passing(queue', healthy', n, m - 1)
        BY <2>3, <4>1, <4>4 DEF Passing
      <4>6. ASSUME n \in healthy, Silent(queue, n, m) PROVE Passing(queue', healthy', n, m - 1)
        <5>1. ~Speaks(queue[i], n)
          <6>1. i \in 1..m
            BY <1>1, <4>1
          <6> QED BY <4>6, <6>1 DEF Silent
        <5>2. n \in healthy'
          BY <1>4, <4>6, <5>1 DEF e
        <5>3. Silent(queue', n, m - 1)
          BY <2>3, <4>1, <4>6
        <5> QED BY <5>2, <5>3 DEF Passing
      <4> QED BY <1>5, <4>2, <4>5, <4>6 DEF Passing
    <3> QED BY <3>1, <3>2
  <2>11. FallsAwaited'
    BY <2>10 DEF FallsAwaited
  <2> QED BY <1>6, <2>4, <2>7, <2>9, <2>11 DEF FallInv
<1> QED BY <1>2, <1>7, <1>8

\* Nothing has fallen at first.
LEMMA InitFall == Init => FallInv
<1> SUFFICES ASSUME Init PROVE FallInv
  OBVIOUS
<1>1. queue = <<>> /\ sighted = {} /\ observed = {} /\ now = 1
  BY DEF Init
<1>2. life \in [Ids -> {"down", "none", "starting", "healthy", "unhealthy"}]
  BY DEF Init
<1> QED
  BY <1>1, <1>2 DEF FallInv, Typed, Queued, Silent, Sighted, FallsAwaited, FallsReported

\* Every step keeps the invariant, whatever Docker does to the queue.
LEMMA NextFall == FallInv /\ [Next]_vars => FallInv'
<1> SUFFICES ASSUME FallInv, [Next]_vars PROVE FallInv'
  OBVIOUS
<1>1. CASE DockerNext
  BY <1>1, QuietSteps, CheckStep, DieStep, EmptyStep DEF DockerNext
<1>2. CASE WatcherNext
  BY <1>2, PassStep, EmptyStep, IdleStep, NoteStep DEF WatcherNext
<1>3. CASE UNCHANGED vars
  BY <1>3, IdleStep
<1> QED
  BY <1>1, <1>2, <1>3 DEF Next

\* A healthcheck that stopped passing is an Incident whenever a listing saw it pass,
\* for any containers: however far the queue of events lags behind the listings, whatever
\* is swapped between containers, delivered twice, or lost with the stream.
THEOREM FallsAlwaysReported == Spec => []FallsReported
<1>1. FallInv => FallsReported
  BY DEF FallInv
<1> QED
  BY InitFall, NextFall, <1>1, PTL DEF Spec

-----------------------------------------------------------------------------
(***************************************************************************)
(* What the store should hold of the Incidents declared of a service.       *)
(***************************************************************************)

\* What an Incident can be.
Kinds == {"exited", "restarted", "unhealthy"}

Incs == [service : Services, at : Int, kind : Kinds, n : Ids, oom : BOOLEAN]

KindOf(action) ==
  CASE action = "exit" -> "exited" [] action = "restart" -> "restarted" [] OTHER -> "unhealthy"

\* inc is what e declares, whatever is remembered of ooms.
Of(inc, e) ==
  /\ inc \in Incs /\ isObserved(At(e.n))
  /\ inc.service = ServiceOf(At(e.n)) /\ inc.at = e.at /\ inc.n = e.n /\ inc.kind = KindOf(e.action)
  /\ inc.kind = "exited" => e.action = "exit"

\* An event declares at most one Incident, of its own container and instant.
LEMMA DeclaresOne ==
  ASSUME NEW e \in Events, oom \in [Ids -> Int]
  PROVE  /\ Declares(e) = {} \/ \E inc : Declares(e) = {inc}
         /\ \A inc \in Declares(e) : Of(inc, e)
         /\ \A inc \in Declares(e) : e.action = "exit" => inc.oom = explains(oom[e.n], e.at)
         /\ (e.action = "exit" /\ isObserved(At(e.n))) => Declares(e) # {}
<1>1. e.n \in Ids /\ e.at \in Int /\ e.action \in Actions /\ oom[e.n] \in Int
  BY DEF Events
<1>2. ServiceOf(At(e.n)) \in Services
  <2>1. At(e.n) \in Catalogue
    BY <1>1 DEF Ids, At
  <2> QED BY <2>1 DEF Services
<1>3. explains(oom[e.n], e.at) \in BOOLEAN
  BY DEF explains
<1>4. CASE ~isObserved(At(e.n))
  BY <1>4 DEF Declares
<1>5. CASE isObserved(At(e.n)) /\ e.action = "exit"
  <2> DEFINE inc == Incident(e, "exited", explains(oom[e.n], e.at))
  <2>1. Declares(e) = {inc}
    BY <1>5 DEF Declares
  <2>2. /\ inc \in Incs /\ inc.service = ServiceOf(At(e.n)) /\ inc.at = e.at /\ inc.n = e.n
        /\ inc.kind = "exited" /\ inc.oom = explains(oom[e.n], e.at)
    BY <1>1, <1>2, <1>3 DEF Incident, Incs, Kinds
  <2> HIDE DEF inc
  <2>3. Of(inc, e)
    BY <1>5, <2>2 DEF Of, KindOf
  <2> QED BY <2>1, <2>2, <2>3
<1>6. CASE isObserved(At(e.n)) /\ e.action = "restart"
  <2> DEFINE inc == Incident(e, "restarted", FALSE)
  <2>1. Declares(e) = {inc}
    BY <1>6 DEF Declares
  <2>2. /\ inc \in Incs /\ inc.service = ServiceOf(At(e.n)) /\ inc.at = e.at /\ inc.n = e.n
        /\ inc.kind = "restarted"
    BY <1>1, <1>2 DEF Incident, Incs, Kinds
  <2> HIDE DEF inc
  <2>3. Of(inc, e)
    BY <1>6, <2>2 DEF Of, KindOf
  <2> QED BY <1>6, <2>1, <2>3
<1>7. CASE isObserved(At(e.n)) /\ e.action = "unhealthy" /\ e.n \in healthy
  <2> DEFINE inc == Incident(e, "unhealthy", FALSE)
  <2>1. Declares(e) = {inc}
    BY <1>7 DEF Declares
  <2>2. /\ inc \in Incs /\ inc.service = ServiceOf(At(e.n)) /\ inc.at = e.at /\ inc.n = e.n
        /\ inc.kind = "unhealthy"
    BY <1>1, <1>2 DEF Incident, Incs, Kinds
  <2> HIDE DEF inc
  <2>3. Of(inc, e)
    BY <1>7, <2>2 DEF Of, KindOf
  <2> QED BY <1>7, <2>1, <2>3
<1>8. CASE /\ isObserved(At(e.n)) /\ e.action # "exit" /\ e.action # "restart"
           /\ ~(e.action = "unhealthy" /\ e.n \in healthy)
  <2>1. Declares(e) = {}
    BY <1>8 DEF Declares
  <2> QED BY <1>8, <2>1
<1> QED BY <1>4, <1>5, <1>6, <1>7, <1>8

\* What Observe makes of an event, as far as the ooms are concerned.
LEMMA RemembersOOM ==
  ASSUME NEW e \in Events, oom \in [Ids -> Int], healthy \subseteq Ids, Observe(e)
  PROVE  /\ oom' \in [Ids -> Int]
         /\ \A n \in Ids : \/ oom'[n] = oom[n]
                           \/ n = e.n /\ isObserved(At(n)) /\ e.action = "oom" /\ oom'[n] = e.at
                           \/ n = e.n /\ e.action = "exit" /\ oom'[n] = 0
                           \/ n # e.n /\ oom'[n] = 0 /\ e.action = "oom" /\ e.at - oom[n] > OOMWindow
         /\ isObserved(At(e.n)) => /\ e.action = "oom" => oom'[e.n] = e.at
                                   /\ e.action = "exit" => oom'[e.n] = 0
         /\ healthy' \subseteq Ids
         /\ \A n \in healthy' : n \in healthy \/ isObserved(At(n))
<1>1. e.n \in Ids /\ e.at \in Int /\ e.action \in Actions
  BY DEF Events
<1>2. Remembered(e)
  BY DEF Observe
<1>3. CASE ~isObserved(At(e.n))
  BY <1>2, <1>3 DEF Remembered
<1>4. CASE isObserved(At(e.n))
  <2>1. /\ healthy' = CASE e.action \in {"exit", "clean", "unhealthy"} -> healthy \ {e.n}
                       [] e.action = "healthy"                      -> healthy \cup {e.n}
                       [] OTHER                                     -> healthy
        /\ oom' = CASE e.action = "oom"  -> [n \in Ids |-> IF n = e.n THEN e.at
                                                          ELSE IF e.at - oom[n] > OOMWindow THEN 0 ELSE oom[n]]
                   [] e.action = "exit" -> [oom EXCEPT ![e.n] = 0]
                   [] OTHER             -> oom
    BY <1>2, <1>4 DEF Remembered
  <2>2. healthy' \subseteq healthy \cup {e.n}
    BY <2>1
  <2>3. CASE e.action = "oom"
    <3>1. oom' = [n \in Ids |-> IF n = e.n THEN e.at
                                ELSE IF e.at - oom[n] > OOMWindow THEN 0 ELSE oom[n]]
      BY <2>1, <2>3
    <3> QED BY <1>1, <1>4, <2>2, <2>3, <3>1
  <2>4. CASE e.action = "exit"
    <3>1. oom' = [oom EXCEPT ![e.n] = 0]
      BY <2>1, <2>4
    <3> QED BY <1>1, <1>4, <2>2, <2>4, <3>1
  <2>5. CASE e.action # "oom" /\ e.action # "exit"
    <3>1. oom' = oom
      BY <2>1, <2>5
    <3> QED BY <1>1, <1>4, <2>2, <2>5, <3>1
  <2> QED BY <2>3, <2>4, <2>5
<1> QED BY <1>3, <1>4

-----------------------------------------------------------------------------
\* The Incidents that seen declares of service s.
Mine(seen, s) == {i \in UNION {o.inc : o \in seen} : i.service = s}

\* h is what the store should hold at t of K.
Kept(h, K, t) ==
  h \in Seq(Incs) /\ Rising(h) /\ Len(h) <= PerService /\ ToSet(h) \subseteq K /\ Holds(h, K, t)

\* An id has its instant in it (DeriveIDParts).
LEMMA SameIdSameTime ==
  ASSUME NEW x, NEW y, IdOf(x) = IdOf(y) PROVE x.at = y.at
BY DEF IdOf

\* Incidents have instants.
LEMMA IncsDated == Dated(Incs)
BY DEF Dated, Incs

\* Time passes.
LEMMA KeptLater ==
  ASSUME NEW h, NEW K \in SUBSET Incs, NEW t \in Int, NEW u \in Int, t <= u, Kept(h, K, t)
  PROVE  Kept(h, K, u)
<1>1. \A x \in K : x.at > u - MaxAge => x.at > t - MaxAge
  BY IncidentsAssumption DEF Incs
<1> QED BY <1>1 DEF Kept, Holds

\* The store is read.
LEMMA KeptFresh ==
  ASSUME NEW h, NEW K \in SUBSET Incs, NEW t \in Int, Kept(h, K, t)
  PROVE  Kept(fresh(h, t), K, t) /\ ToSet(fresh(h, t)) \subseteq ToSet(h)
<1> DEFINE r == fresh(h, t)
<1>1. h \in Seq(Incs) /\ Rising(h) /\ Len(h) <= PerService /\ ToSet(h) \subseteq K /\ Holds(h, K, t) /\ Dated(Incs)
  BY IncsDated DEF Kept
<1>2. r \in Seq(Incs) /\ Rising(r) /\ ToSet(r) = {x \in ToSet(h) : x.at > t - MaxAge}
  BY <1>1, FreshKept
<1> HIDE DEF r
<1>3. IsFiniteSet(ToSet(h)) /\ Cardinality(ToSet(h)) = Len(h) /\ Cardinality(ToSet(r)) = Len(r)
      /\ Len(r) \in Nat /\ Len(h) \in Nat
  BY <1>1, <1>2, RisingOnce, LenProperties
<1>4. Len(r) <= Len(h)
  <2>1. ToSet(r) \in SUBSET ToSet(h)
    BY <1>2
  <2> QED BY <1>3, <2>1, FS_Subset
<1>5. ASSUME NEW x \in K, x.at > t - MaxAge PROVE HasId(r, x) \/ Full(r, x.at)
  <2>1. CASE HasId(h, x)
    <3>1. PICK y \in ToSet(h) : IdOf(y) = IdOf(x)
      BY <2>1 DEF HasId
    <3>2. y.at > t - MaxAge
      BY <1>5, <3>1, SameIdSameTime
    <3> QED BY <1>2, <3>1, <3>2 DEF HasId
  <2>2. CASE Full(h, x.at)
    <3>1. \A y \in ToSet(h) : y.at > x.at /\ y.at \in Int /\ x.at \in Int /\ t - MaxAge \in Int
      BY <1>1, <2>2, IncidentsAssumption DEF Full, Incs
    <3>2. ToSet(r) = ToSet(h)
      BY <1>2, <1>5, <3>1
    <3> QED BY <1>3, <2>2, <3>2 DEF Full
  <2> QED BY <1>1, <1>5, <2>1, <2>2 DEF Holds
<1> QED BY <1>1, <1>2, <1>3, <1>4, <1>5, IncidentsAssumption DEF Kept, Holds, r

\* What K has of inc's instant has inc's id.
IdAt(K, inc) == \A x \in K : x.at = inc.at => IdOf(x) = IdOf(inc)

\* An Incident of K is recorded.
LEMMA KeptRecord ==
  ASSUME NEW h, NEW K \in SUBSET Incs, NEW t \in Int, Kept(h, K, t), NEW inc \in Incs, IdAt(K, inc)
  PROVE  /\ Kept(record(h, inc, t), K \cup {inc}, t)
         /\ ToSet(record(h, inc, t)) \subseteq ToSet(h) \cup {inc}
         /\ inc \in ToSet(record(h, inc, t)) => inc \in ToSet(h) \/ \A x \in K : IdOf(x) # IdOf(inc)
<1> DEFINE r == record(h, inc, t)
<1>1. h \in Seq(Incs) /\ Rising(h) /\ Len(h) <= PerService /\ ToSet(h) \subseteq K /\ Holds(h, K, t) /\ Dated(Incs)
  BY IncsDated DEF Kept
<1>2. CASE HasId(h, inc)
  <2>1. \E i \in 1..Len(h) : IdOf(h[i]) = IdOf(inc)
    BY <1>1, <1>2, RisingOnce DEF HasId
  <2>2. r = h
    BY <2>1 DEF record
  <2> HIDE DEF r
  <2> QED BY <1>1, <1>2, <2>2 DEF Kept, Holds, r
<1>3. CASE ~HasId(h, inc)
  <2>1. \A x \in ToSet(h) : x.at # inc.at
    BY <1>1, <1>3 DEF HasId, IdAt
  <2>2. /\ r \in Seq(Incs) /\ Rising(r) /\ Len(r) <= PerService
        /\ Recorded(r, h, inc, t)
    BY <1>1, <1>3, <2>1, RecordKept
  <2> HIDE DEF r
  <2>3. ASSUME NEW x \in K, x.at > t - MaxAge PROVE HasId(r, x) \/ Full(r, x.at)
    <3>1. CASE HasId(h, x)
      <4>1. PICK y \in ToSet(h) : IdOf(y) = IdOf(x)
        BY <3>1 DEF HasId
      <4>2. y.at = x.at
        BY <4>1, SameIdSameTime
      <4>3. y \in ToSet(r) \/ Full(r, y.at)
        BY <2>2, <2>3, <4>2 DEF Recorded
      <4> QED BY <4>1, <4>2, <4>3 DEF HasId
    <3>2. CASE Full(h, x.at)
      <4>1. x.at \in Int
        BY DEF Incs
      <4> QED BY <2>2, <2>3, <3>2, <4>1 DEF Recorded
    <3> QED BY <1>1, <2>3, <3>1, <3>2 DEF Holds
  <2>4. inc.at > t - MaxAge => HasId(r, inc) \/ Full(r, inc.at)
    BY <2>2 DEF Recorded, HasId
  <2>5. ToSet(r) \subseteq ToSet(h) \cup {inc}
    BY <2>2 DEF Recorded
  <2>6. ASSUME inc \in ToSet(r), NEW x \in K PROVE IdOf(x) # IdOf(inc)
    <3>1. SUFFICES ASSUME IdOf(x) = IdOf(inc) PROVE FALSE
      OBVIOUS
    <3>2. x.at = inc.at
      BY <3>1, SameIdSameTime
    <3>3. inc.at > t - MaxAge /\ ~Full(r, inc.at)
      BY <2>2, <2>6 DEF Recorded
    <3>4. HasId(r, x) \/ Full(r, x.at)
      BY <2>3, <3>2, <3>3
    <3>5. HasId(h, x) \/ Full(h, x.at)
      BY <1>1, <3>2, <3>3 DEF Holds
    <3>6. ~HasId(h, x)
      BY <1>3, <3>1 DEF HasId
    <3>7. Full(r, inc.at)
      <4>1. inc.at \in Int
        BY DEF Incs
      <4> QED BY <2>2, <3>2, <3>3, <3>5, <3>6, <4>1 DEF Recorded
    <3> QED BY <3>3, <3>7
  <2>7. Kept(r, K \cup {inc}, t)
    BY <1>1, <2>2, <2>3, <2>4, <2>5 DEF Kept, Holds
  <2> QED BY <2>5, <2>6, <2>7 DEF r
<1> QED BY <1>2, <1>3

\* What is held of K is its newest, once each and in order.
LEMMA KeptNewest ==
  ASSUME NEW h, NEW K \in SUBSET Incs, IsFiniteSet(K), NEW t \in Int, Kept(h, K, t)
  PROVE  /\ {IdOf(i) : i \in {i \in ToSet(h) : i.at > t - MaxAge}}
              = NewestOf({IdOf(i) : i \in {j \in K : j.at > t - MaxAge}})
         /\ \A i, j \in 1..Len(h) : i < j => h[i].at <= h[j].at /\ IdOf(h[i]) # IdOf(h[j])
<1> DEFINE H == ToSet(h)
           ids == {IdOf(i) : i \in {j \in K : j.at > t - MaxAge}}
           f == [i \in K |-> IdOf(i)]
           above(a) == {y \in ids : y[2] > a}
<1>1. h \in Seq(Incs) /\ Rising(h) /\ Len(h) <= PerService /\ H \subseteq K /\ Holds(h, K, t) /\ Dated(Incs)
  BY IncsDated DEF Kept
<1>2. /\ H = {h[i] : i \in 1..Len(h)} /\ IsFiniteSet(H) /\ Cardinality(H) = Len(h) /\ Len(h) \in Nat
      /\ \A i, j \in 1..Len(h) : h[i].at = h[j].at => i = j
  <2>1. /\ H = {h[i] : i \in 1..Len(h)} /\ IsFiniteSet(H) /\ Cardinality(H) = Len(h)
        /\ \A i, j \in 1..Len(h) : h[i].at = h[j].at => i = j
    BY <1>1, RisingOnce
  <2> QED BY <1>1, <2>1, LenProperties
<1>3. \A x \in Incs : IdOf(x)[2] = x.at /\ x.at \in Int
  BY DEF IdOf, Incs
<1>4. t - MaxAge \in Int /\ PerService \in Nat \ {0}
  BY IncidentsAssumption
<1>5. IsFiniteSet(ids)
  <2>1. IsFiniteSet({f[x] : x \in K})
    <3> HIDE DEF f
    <3> QED BY ImageOfFinite
  <2>2. ids \in SUBSET {f[x] : x \in K}
    OBVIOUS
  <2> HIDE DEF f, ids
  <2> QED BY <2>1, <2>2, FS_Subset
<1>6. ASSUME NEW i \in H, NEW j \in H, IdOf(i) = IdOf(j) PROVE i = j
  <2>1. i.at = j.at
    BY <1>6, SameIdSameTime
  <2> QED BY <1>2, <2>1
<1>7. \A a : IsFiniteSet(above(a)) /\ Cardinality(above(a)) \in Nat
  <2>1. \A a : above(a) \in SUBSET ids
    OBVIOUS
  <2> HIDE DEF above, ids
  <2> QED BY <1>5, <2>1, FS_Subset, FS_CardinalityType
<1> HIDE DEF H
<1>8. ASSUME NEW x \in H, x.at > t - MaxAge
      PROVE  IdOf(x) \in ids /\ Cardinality(above(x.at)) < PerService
  <2>1. x \in K
    BY <1>1
  <2>2. IdOf(x) \in ids
    BY <1>8, <2>1
  <2> DEFINE G == H \ {x}
             g == [y \in G |-> IdOf(y)]
             T == {g[y] : y \in G}
  <2>3. IsFiniteSet(G) /\ Cardinality(G) = Len(h) - 1
    <3>1. IsFiniteSet(G) /\ Cardinality(G) = IF x \in H THEN Cardinality(H) - 1 ELSE Cardinality(H)
      BY <1>2, FS_RemoveElement
    <3> QED BY <1>2, <3>1
  <2>4. above(x.at) \subseteq T
    <3>1. ASSUME NEW z \in K, z.at > t - MaxAge, z.at > x.at PROVE \E y \in G : IdOf(y) = IdOf(z)
      <4>1. HasId(h, z) \/ Full(h, z.at)
        BY <1>1, <3>1 DEF Holds
      <4>2. ~Full(h, z.at)
        BY <1>3, <2>1, <3>1 DEF Full, H
      <4>3. PICK y \in H : IdOf(y) = IdOf(z)
        BY <4>1, <4>2 DEF HasId, H
      <4>4. y.at = z.at
        BY <4>3, SameIdSameTime
      <4>5. y # x
        BY <1>3, <2>1, <3>1, <4>4
      <4> QED BY <4>3, <4>5
    <3>2. ASSUME NEW y \in above(x.at) PROVE \E z \in K : z.at > t - MaxAge /\ z.at > x.at /\ y = IdOf(z)
      BY <1>3
    <3>3. \A y \in G : g[y] = IdOf(y)
      OBVIOUS
    <3> HIDE DEF above, G, g
    <3> QED BY <3>1, <3>2, <3>3
  <2>5. IsFiniteSet(T) /\ Cardinality(T) <= Cardinality(G)
    <3>1. g \in Surjection(G, T)
      BY DEF Surjection
    <3> HIDE DEF g, G, T
    <3> QED BY <2>3, <3>1, FS_Surjection
  <2>6. Cardinality(above(x.at)) <= Cardinality(T)
    <3>1. above(x.at) \in SUBSET T
      BY <2>4
    <3> HIDE DEF above, T
    <3> QED BY <2>5, <3>1, FS_Subset
  <2>7. Cardinality(T) \in Nat
    <3> HIDE DEF T
    <3> QED BY <2>5, FS_CardinalityType
  <2>8. Cardinality(above(x.at)) \in Nat
    BY <1>7
  <2> HIDE DEF above, G, T, ids
  <2>9. Cardinality(above(x.at)) < PerService
    <3>1. Cardinality(G) < PerService /\ Cardinality(G) \in Int
      <4>1. Len(h) \in Nat /\ Len(h) <= PerService /\ PerService \in Nat
        BY <1>1, <1>2, <1>4
      <4> QED BY <2>3, <4>1
    <3> QED BY <1>4, <2>5, <2>6, <2>7, <2>8, <3>1
  <2> QED BY <2>2, <2>9
<1>9. ASSUME NEW x \in K, x.at > t - MaxAge, Cardinality(above(x.at)) < PerService
      PROVE  \E y \in H : y.at > t - MaxAge /\ IdOf(y) = IdOf(x)
  <2>1. CASE HasId(h, x)
    <3>1. PICK y \in H : IdOf(y) = IdOf(x)
      BY <2>1 DEF HasId, H
    <3> QED BY <1>9, <3>1, SameIdSameTime
  <2>2. CASE Full(h, x.at)
    <3> DEFINE g == [y \in H |-> IdOf(y)]
               A == above(x.at)
    <3>1. \A y \in H : IdOf(y) \in A
      <4>1. ASSUME NEW y \in H PROVE IdOf(y) \in A
        <5>1. y.at > x.at /\ y \in K /\ y.at \in Int /\ x.at \in Int /\ IdOf(y)[2] = y.at
          BY <1>1, <1>3, <2>2 DEF Full, H
        <5>2. y.at > t - MaxAge
          BY <1>4, <1>9, <5>1
        <5> QED BY <5>1, <5>2
      <4> QED BY <4>1
    <3>2. g \in [H -> A] /\ \A i, j \in H : g[i] = g[j] => i = j
      BY <1>6, <3>1
    <3>3. Cardinality(A) < PerService /\ Cardinality(A) \in Nat /\ IsFiniteSet(A)
      BY <1>7, <1>9
    <3> HIDE DEF A, g
    <3>4. g \in Injection(H, A)
      BY <3>2 DEF Injection, IsInjective
    <3>5. Cardinality(H) <= Cardinality(A)
      BY <3>3, <3>4, FS_Injection
    <3>6. Cardinality(H) = PerService
      BY <1>2, <2>2 DEF Full
    <3> QED BY <1>4, <3>3, <3>5, <3>6
  <2> QED BY <1>1, <1>9, <2>1, <2>2 DEF Holds
<1>10. {IdOf(i) : i \in {i \in H : i.at > t - MaxAge}} = NewestOf(ids)
  <2>1. NewestOf(ids) = {x \in ids : Cardinality(above(x[2])) < PerService}
    BY DEF NewestOf
  <2>2. ASSUME NEW x \in H, x.at > t - MaxAge PROVE IdOf(x) \in NewestOf(ids)
    <3>1. IdOf(x)[2] = x.at
      BY <1>1, <1>3
    <3> HIDE DEF above, ids
    <3> QED BY <1>8, <2>1, <2>2, <3>1
  <2>3. ASSUME NEW d \in NewestOf(ids) PROVE \E y \in H : y.at > t - MaxAge /\ IdOf(y) = d
    <3>1. PICK x \in K : x.at > t - MaxAge /\ d = IdOf(x)
      BY <2>1
    <3>2. d[2] = x.at
      BY <1>3, <3>1
    <3>3. Cardinality(above(x.at)) < PerService
      <4> HIDE DEF above, ids
      <4> QED BY <2>1, <3>2
    <3> HIDE DEF above, ids
    <3> QED BY <1>9, <3>1, <3>3
  <2> HIDE DEF ids
  <2> QED BY <2>2, <2>3
<1>11. ASSUME NEW i \in 1..Len(h), NEW j \in 1..Len(h), i < j
       PROVE  h[i].at <= h[j].at /\ IdOf(h[i]) # IdOf(h[j])
  <2>1. h[i].at < h[j].at
    BY <1>1, <1>11 DEF Rising
  <2>2. h[i] \in Incs /\ h[j] \in Incs
    BY <1>1, ElementOfSeq
  <2>3. h[i].at \in Int /\ h[j].at \in Int
    BY <1>3, <2>2
  <2> QED BY <2>1, <2>3, SameIdSameTime
<1> QED BY <1>10, <1>11 DEF H, ids

-----------------------------------------------------------------------------
(***************************************************************************)
(* The invariant of the store: the events of a container are taken in the   *)
(* order of their instants, each of its own, and of what they declared the  *)
(* store holds the newest.                                                  *)
(***************************************************************************)

\* The events under way and those this process took.
Known == ToSet(queue) \cup {o.e : o \in observed}

\* Every event has an instant of its own, at which its container does not start; those of
\* one container are taken in order.
Timed ==
  /\ starts \in [Ids -> Seq(Int)] /\ Known \subseteq Events /\ 0 <= now
  /\ \A e \in Known : 0 < e.at /\ e.at <= now
  /\ \A e, f \in Known : e.at = f.at => e = f
  /\ \A n \in Ids : \A u \in ToSet(starts[n]) : u <= now /\ \A e \in Known : e.n = n => u # e.at
  /\ Rising(queue)
  /\ \A o \in observed, f \in ToSet(queue) : o.e.n = f.n => o.e.at <= f.at

\* The store holds what it should of what the events declared.
Stored ==
  /\ IsFiniteSet(observed)
  /\ \A o \in observed : IsFiniteSet(o.inc) /\ \A i \in o.inc : Of(i, o.e)
  /\ \A o \in observed : (o.e.action = "exit" /\ isObserved(At(o.e.n))) => o.inc # {}
  /\ \A s \in Services : Kept(held[s], Mine(observed, s), now)

\* The types of the rest.
Shaped ==
  /\ healthy \subseteq {n \in Ids : isObserved(At(n))}
  /\ pc \in {"boot", "pass", "subscribe", "idle"} /\ stream \in {"none", "open", "broken"}
  /\ Len(queue) <= MaxQueue /\ oom \in [Ids -> Int]

\* The inductive invariant of the store.
StoreInv == FallInv /\ Shaped /\ Timed /\ Stored

\* No exit of e's container that this process took came after e.
Unanswered(e, seen) == ~\E p \in seen : p.e.n = e.n /\ p.e.action = "exit" /\ e.at < p.e.at

\* No exit that e explains is still to come.
Past(e) ==
  /\ now + 1 - e.at >= OOMWindow
  /\ \A f \in ToSet(queue) : f.n = e.n => f.at - e.at >= OOMWindow

\* What is remembered is the last oom that no exit answered, unless it no longer matters.
Remembering ==
  /\ \A n \in Ids : oom[n] # 0 =>
       isObserved(At(n)) /\ \E o \in observed : /\ o.e.n = n /\ o.e.action = "oom" /\ o.e.at = oom[n]
                                                /\ Unanswered(o.e, observed)
  /\ \A o \in observed :
       (o.e.action = "oom" /\ isObserved(At(o.e.n)) /\ Unanswered(o.e, observed)) =>
         oom[o.e.n] >= o.e.at \/ Past(o.e)

\* An oom of i's container came within the window before it, and no exit between.
OOMOf(i, seen) ==
  \E o \in seen :
    /\ o.e.n = i.n /\ o.e.action = "oom" /\ o.e.at < i.at /\ i.at - o.e.at < OOMWindow
    /\ ~\E p \in seen : p.e.n = i.n /\ p.e.action = "exit" /\ o.e.at < p.e.at /\ p.e.at < i.at

\* The inductive invariant of the ooms.
OOMInv == StoreInv /\ Remembering /\ OOMExplained

-----------------------------------------------------------------------------
\* What a sequence has in it.
LEMMA Members ==
  ASSUME NEW S, NEW q \in Seq(S)
  PROVE  /\ Len(q) \in Nat /\ ToSet(q) = {q[i] : i \in 1..Len(q)} /\ ToSet(q) \subseteq S
         /\ \A x \in S : ToSet(Append(q, x)) = ToSet(q) \cup {x}
         /\ \A p \in Seq(S) : ToSet(q \o p) = ToSet(q) \cup ToSet(p)
<1>1. \A p \in Seq(S) : Len(p) \in Nat /\ ToSet(p) = {p[i] : i \in 1..Len(p)} /\ ToSet(p) \subseteq S
  <2>1. ASSUME NEW p \in Seq(S) PROVE Len(p) \in Nat /\ DOMAIN p = 1..Len(p) /\ \A i \in 1..Len(p) : p[i] \in S
    BY LenProperties, ElementOfSeq
  <2> QED BY <2>1 DEF ToSet
<1>2. ASSUME NEW x \in S PROVE ToSet(Append(q, x)) = ToSet(q) \cup {x}
  <2> DEFINE p == Append(q, x)
  <2>1. /\ p \in Seq(S) /\ Len(p) = Len(q) + 1 /\ p[Len(q) + 1] = x
        /\ \A i \in 1..Len(q) : p[i] = q[i]
    BY AppendProperties
  <2> HIDE DEF p
  <2>2. \A i \in 1..Len(p) : i \in 1..Len(q) \/ i = Len(q) + 1
    BY <1>1, <2>1
  <2>3. \A i \in 1..Len(q) : i \in 1..Len(p)
    BY <1>1, <2>1
  <2>4. Len(q) + 1 \in 1..Len(p)
    BY <1>1, <2>1
  <2>5. ToSet(p) = {p[i] : i \in 1..Len(p)} /\ ToSet(q) = {q[i] : i \in 1..Len(q)}
    BY <1>1, <2>1
  <2>6. \A y : y \in ToSet(p) <=> y \in ToSet(q) \/ y = x
    BY <2>1, <2>2, <2>3, <2>4, <2>5
  <2>7. ToSet(p) = ToSet(q) \cup {x}
    BY <2>6
  <2> QED BY <2>7 DEF p
<1>3. ASSUME NEW p \in Seq(S) PROVE ToSet(q \o p) = ToSet(q) \cup ToSet(p)
  <2> DEFINE r == q \o p
             m == Len(q)
             n == Len(p)
  <2>1. /\ r \in Seq(S) /\ Len(r) = m + n /\ m \in Nat /\ n \in Nat
        /\ \A i \in 1..(m + n) : r[i] = IF i <= m THEN q[i] ELSE p[i - m]
    BY <1>1, ConcatProperties
  <2> HIDE DEF r
  <2>2. /\ ToSet(r) = {r[i] : i \in 1..(m + n)} /\ ToSet(q) = {q[i] : i \in 1..m}
        /\ ToSet(p) = {p[i] : i \in 1..n}
    BY <1>1, <2>1
  <2> HIDE DEF m, n
  <2>3. \A i \in 1..m : i \in 1..(m + n) /\ r[i] = q[i]
    BY <2>1
  <2>4. ASSUME NEW i \in 1..n PROVE m + i \in 1..(m + n) /\ r[m + i] = p[i]
    <3>1. m + i \in 1..(m + n) /\ ~(m + i <= m) /\ (m + i) - m = i
      BY <2>1
    <3> QED BY <2>1, <3>1
  <2>5. ASSUME NEW i \in 1..(m + n) PROVE (i \in 1..m /\ r[i] = q[i]) \/ ((i - m) \in 1..n /\ r[i] = p[i - m])
    <3>1. CASE i <= m
      BY <2>1, <3>1
    <3>2. CASE ~(i <= m)
      BY <2>1, <3>2
    <3> QED BY <3>1, <3>2
  <2> QED BY <2>2, <2>3, <2>4, <2>5 DEF r
<1> QED BY <1>1, <1>2, <1>3

\* Events sent later than those of q.
LEMMA SentLater ==
  ASSUME NEW q \in Seq(Events), NEW es \in Seq(Events), Rising(q), Rising(es), NEW t \in Int,
         \A e \in ToSet(q) : e.at <= t, \A e \in ToSet(es) : t < e.at
  PROVE  Rising(q \o es)
<1> DEFINE r == q \o es
           m == Len(q)
           n == Len(es)
<1>1. /\ Len(r) = m + n /\ m \in Nat /\ n \in Nat
      /\ \A i \in 1..(m + n) : r[i] = IF i <= m THEN q[i] ELSE es[i - m]
  BY ConcatProperties, LenProperties
<1>2. \A i \in 1..m : q[i] \in ToSet(q) /\ q[i] \in Events
  BY Members, ElementOfSeq
<1>3. \A i \in 1..n : es[i] \in ToSet(es) /\ es[i] \in Events
  BY Members, ElementOfSeq
<1> HIDE DEF r, m, n
<1>4. ASSUME NEW i \in 1..(m + n), NEW j \in 1..(m + n), i < j PROVE r[i].at < r[j].at
  <2>1. CASE j <= m
    <3>1. i \in 1..m /\ j \in 1..m
      BY <1>1, <1>4, <2>1
    <3> QED BY <1>1, <1>4, <2>1, <3>1 DEF Rising, m
  <2>2. CASE i <= m /\ ~(j <= m)
    <3>1. i \in 1..m /\ j - m \in 1..n /\ r[i] = q[i] /\ r[j] = es[j - m]
      BY <1>1, <1>4, <2>2
    <3>2. q[i].at <= t /\ t < es[j - m].at /\ q[i].at \in Int /\ es[j - m].at \in Int
      BY <1>2, <1>3, <3>1 DEF Events
    <3> QED BY <3>1, <3>2
  <2>3. CASE ~(i <= m)
    <3>1. i - m \in 1..n /\ j - m \in 1..n /\ i - m < j - m /\ r[i] = es[i - m] /\ r[j] = es[j - m]
      BY <1>1, <1>4, <2>3
    <3> QED BY <3>1 DEF Rising, n
  <2> QED BY <2>1, <2>2, <2>3
<1> QED BY <1>1, <1>4 DEF Rising, r

\* One event taken out.
LEMMA TakenOut ==
  ASSUME NEW S, NEW q \in Seq(S), Rising(q), NEW i \in 1..Len(q), NEW p \in Seq(S), Without(p, q, i)
  PROVE  Rising(p) /\ ToSet(p) \subseteq ToSet(q)
<1> DEFINE m == Len(p)
           n == Len(q)
<1>1. n \in Nat /\ m = n - 1 /\ \A j \in 1..m : p[j] = IF j < i THEN q[j] ELSE q[j + 1]
  BY LenProperties DEF Without
<1>2. ToSet(p) = {p[j] : j \in 1..m} /\ ToSet(q) = {q[j] : j \in 1..n}
  BY Members
<1> HIDE DEF m
<1>3. ASSUME NEW j \in 1..m PROVE j \in 1..n /\ j + 1 \in 1..n
  BY <1>1
<1>4. ToSet(p) \subseteq ToSet(q)
  BY <1>1, <1>2, <1>3
<1>5. ASSUME NEW j \in 1..m, NEW k \in 1..m, j < k PROVE p[j].at < p[k].at
  <2> DEFINE a == IF j < i THEN j ELSE j + 1
             b == IF k < i THEN k ELSE k + 1
  <2>1. a \in 1..n /\ b \in 1..n /\ a < b
    BY <1>3, <1>5
  <2>2. p[j] = q[a] /\ p[k] = q[b]
    BY <1>1
  <2> HIDE DEF a, b
  <2> QED BY <2>1, <2>2 DEF Rising
<1> QED BY <1>4, <1>5 DEF Rising, m

-----------------------------------------------------------------------------
(***************************************************************************)
(* What the containers do.                                                  *)
(***************************************************************************)

\* Events es are sent between now and t, at instants at which no container starts.
Sent(es, t) ==
  /\ now < t /\ Rising(es) /\ \A e \in ToSet(es) : now < e.at /\ e.at <= t
  /\ starts' \in [Ids -> Seq(Int)]
  /\ \A n \in Ids : \A u \in ToSet(starts'[n]) :
       u \in ToSet(starts[n]) \/ (now < u /\ u <= t /\ \A e \in ToSet(es) : u # e.at)

\* The sequences of events that one step sends.
LEMMA FewEvents ==
  ASSUME NEW e \in Events, NEW f \in Events, e.at < f.at
  PROVE  /\ <<>> \in Seq(Events) /\ ToSet(<<>>) = {} /\ Rising(<<>>)
         /\ <<e>> \in Seq(Events) /\ ToSet(<<e>>) = {e} /\ Rising(<<e>>)
         /\ <<e, f>> \in Seq(Events) /\ ToSet(<<e, f>>) = {e, f} /\ Rising(<<e, f>>)
<1> DEFINE p == <<e>>
           q == <<e, f>>
<1>1. <<>> \in Seq(Events) /\ p \in Seq(Events) /\ q \in Seq(Events)
      /\ Len(p) = 1 /\ p[1] = e /\ Len(q) = 2 /\ q[1] = e /\ q[2] = f
  OBVIOUS
<1>2. ToSet(<<>>) = {} /\ Rising(<<>>)
  BY DEF ToSet, Rising
<1> HIDE DEF p, q
<1>3. ToSet(p) = {p[i] : i \in 1..1} /\ ToSet(q) = {q[i] : i \in 1..2}
  BY <1>1, Members
<1>4. (\A i \in 1..1 : i = 1) /\ (\A i \in 1..2 : i = 1 \/ i = 2) /\ 1 \in 1..1 /\ 1 \in 1..2 /\ 2 \in 1..2
  OBVIOUS
<1>5. ToSet(p) = {e} /\ ToSet(q) = {e, f}
  BY <1>1, <1>3, <1>4
<1>6. Rising(p) /\ Rising(q)
  BY <1>1, <1>4 DEF Rising
<1> QED BY <1>1, <1>2, <1>5, <1>6 DEF p, q

\* A container starts.
LEMMA Started ==
  ASSUME Timed, now \in Int, NEW n \in Ids, NEW t \in Int, starts' = [starts EXCEPT ![n] = Append(@, t)]
  PROVE  /\ starts' \in [Ids -> Seq(Int)]
         /\ \A m \in Ids : \A u \in ToSet(starts'[m]) : u \in ToSet(starts[m]) \/ u = t
<1>1. starts \in [Ids -> Seq(Int)]
  BY DEF Timed
<1>2. Append(starts[n], t) \in Seq(Int)
  BY <1>1, AppendProperties
<1>3. starts' \in [Ids -> Seq(Int)] /\ \A m \in Ids : starts'[m] = IF m = n THEN Append(starts[n], t) ELSE starts[m]
  BY <1>1, <1>2
<1>4. ToSet(Append(starts[n], t)) = ToSet(starts[n]) \cup {t}
  BY <1>1, Members
<1> QED BY <1>3, <1>4

\* Whatever happens to the containers, its events are sent later than all before.
LEMMA SentSteps ==
  ASSUME Typed, Timed, DockerNext, ~BreakStream
  PROVE  \E es \in Seq(Events), t \in Int : Happen(es, t) /\ Sent(es, t)
<1>1. now \in Int /\ now + 1 \in Int /\ now + 2 \in Int /\ now + 3 \in Int /\ now + OOMWindow \in Int
      /\ now < now + OOMWindow /\ starts \in [Ids -> Seq(Int)]
  BY IncidentsAssumption DEF Typed, Timed
<1> DEFINE none == <<>>
<1>2. none \in Seq(Events) /\ ToSet(none) = {} /\ Rising(none)
  BY DEF ToSet, Rising
<1>3. ASSUME NEW n \in Ids, NEW a \in Actions, NEW t \in Int, now < t, Happen(<<Event(n, a, t)>>, t), starts' = starts
      PROVE  \E es \in Seq(Events), u \in Int : Happen(es, u) /\ Sent(es, u)
  <2> DEFINE e == Event(n, a, t)
             es == <<e>>
             f == Event(n, a, t + 1)
  <2>1. e \in Events /\ e.at = t /\ f \in Events /\ e.at < f.at
    BY <1>3, EventTyped
  <2> HIDE DEF e, f
  <2>2. es \in Seq(Events) /\ ToSet(es) = {e} /\ Rising(es)
    BY <2>1, FewEvents
  <2>3. Happen(es, t)
    BY <1>3 DEF e
  <2> HIDE DEF es
  <2>4. Sent(es, t)
    BY <1>1, <1>3, <2>1, <2>2 DEF Sent
  <2> QED BY <2>2, <2>3, <2>4
<1>4. ASSUME NEW n \in Ids, Start(n)
      PROVE  \E es \in Seq(Events), u \in Int : Happen(es, u) /\ Sent(es, u)
  <2>1. Happen(none, now + 1) /\ starts' = [starts EXCEPT ![n] = Append(@, now + 1)]
    BY <1>4 DEF Start, Up
  <2>2. /\ starts' \in [Ids -> Seq(Int)]
        /\ \A m \in Ids : \A u \in ToSet(starts'[m]) : u \in ToSet(starts[m]) \/ u = now + 1
    BY <1>1, <2>1, Started
  <2>3. Sent(none, now + 1)
    <3> HIDE DEF none
    <3> QED BY <1>1, <1>2, <2>2 DEF Sent
  <2> QED BY <1>1, <1>2, <2>1, <2>3
<1>5. CASE Elapse
  <2>1. Happen(none, now + OOMWindow) /\ starts' = starts
    BY <1>5 DEF Elapse
  <2>2. Sent(none, now + OOMWindow)
    <3> HIDE DEF none
    <3> QED BY <1>1, <1>2, <2>1 DEF Sent
  <2> QED BY <1>1, <1>2, <2>1, <2>2
<1>6. ASSUME NEW n \in Ids, NEW how \in {"exit", "clean"}, Restart(n, how)
      PROVE  \E es \in Seq(Events), u \in Int : Happen(es, u) /\ Sent(es, u)
  <2> DEFINE e == Event(n, how, now + 1)
             f == Event(n, "restart", now + 3)
             es == <<e, f>>
  <2>1. e \in Events /\ e.at = now + 1 /\ f \in Events /\ f.at = now + 3
    BY <1>1, EventTyped DEF Actions
  <2>2. Happen(es, now + 3) /\ starts' = [starts EXCEPT ![n] = Append(@, now + 2)]
    BY <1>6 DEF Restart, Up
  <2> HIDE DEF e, f
  <2>3. es \in Seq(Events) /\ ToSet(es) = {e, f} /\ Rising(es)
    <3>1. e.at < f.at
      BY <1>1, <2>1
    <3> QED BY <2>1, <3>1, FewEvents
  <2> HIDE DEF es
  <2>4. /\ starts' \in [Ids -> Seq(Int)]
        /\ \A m \in Ids : \A u \in ToSet(starts'[m]) : u \in ToSet(starts[m]) \/ u = now + 2
    BY <1>1, <2>2, Started
  <2>5. Sent(es, now + 3)
    BY <1>1, <2>1, <2>3, <2>4 DEF Sent
  <2> QED BY <1>1, <2>2, <2>3, <2>5
<1>7. ASSUME NEW n \in Ids, Oom(n) \/ (\E s \in {"healthy", "unhealthy"} : Check(n, s)) \/ (\E how \in {"exit", "clean"} : Die(n, how))
      PROVE  \E es \in Seq(Events), u \in Int : Happen(es, u) /\ Sent(es, u)
  <2>1. PICK a \in Actions : Happen(<<Event(n, a, now + 1)>>, now + 1) /\ starts' = starts
    BY <1>7 DEF Oom, Check, Die, Actions
  <2> QED BY <1>1, <1>3, <2>1
<1> QED BY <1>4, <1>5, <1>6, <1>7 DEF DockerNext

\* What they leave as it should be.
LEMMA SentKeeps ==
  ASSUME Typed, Shaped, Timed, Stored, NEW es \in Seq(Events), NEW t \in Int, Happen(es, t), Sent(es, t)
  PROVE  Shaped' /\ Timed' /\ Stored'
<1>1. /\ now' = t /\ UNCHANGED <<stream, pc, healthy, oom, held, observed>>
      /\ Len(queue) + Len(es) <= MaxQueue
      /\ queue' = IF stream = "open" THEN queue \o es ELSE queue
  BY DEF Happen, store
<1>2. /\ now \in Int /\ now < t /\ queue \in Seq(Events) /\ Rising(queue) /\ Rising(es)
      /\ \A e \in ToSet(es) : now < e.at /\ e.at <= t /\ e \in Events
  BY Members DEF Typed, Timed, Sent
<1>3. \A e \in Known : e \in Events /\ 0 < e.at /\ e.at <= now /\ e.at \in Int
  BY DEF Timed, Events
<1>4. /\ ToSet(queue') \subseteq ToSet(queue) \cup ToSet(es)
      /\ Rising(queue') /\ Len(queue') <= MaxQueue
  <2>1. CASE stream = "open"
    <3>1. queue' = queue \o es
      BY <1>1, <2>1
    <3>2. ToSet(queue \o es) = ToSet(queue) \cup ToSet(es)
      BY <1>2, Members
    <3>3. Len(queue \o es) = Len(queue) + Len(es)
      BY <1>2, ConcatProperties
    <3>4. Rising(queue \o es)
      <4>1. \A e \in ToSet(queue) : e.at <= now
        BY <1>3 DEF Known
      <4>2. \A e \in ToSet(es) : now < e.at
        BY <1>2
      <4> QED BY <1>2, <4>1, <4>2, SentLater
    <3> QED BY <1>1, <3>1, <3>2, <3>3, <3>4
  <2>2. CASE stream # "open"
    BY <1>1, <1>2, <2>2 DEF Shaped
  <2> QED BY <2>1, <2>2
<1>5. Shaped'
  BY <1>1, <1>4 DEF Shaped
<1>6. \A e \in Known' : e \in Known \/ e \in ToSet(es)
  BY <1>1, <1>4 DEF Known
<1>7. ASSUME NEW e \in Known', NEW f \in Known', e.at = f.at PROVE e = f
  <2>1. CASE e \in Known /\ f \in Known
    BY <1>7, <2>1 DEF Timed
  <2>2. CASE e \in ToSet(es) /\ f \in ToSet(es)
    <3>1. PICK i \in 1..Len(es), j \in 1..Len(es) : e = es[i] /\ f = es[j]
      BY <2>2, Members
    <3>2. Dated(Events)
      BY DEF Dated, Events
    <3>3. i = j
      BY <1>2, <1>7, <3>1, <3>2, RisingOnce
    <3> QED BY <3>1, <3>3
  <2>3. ~(e \in Known /\ f \in ToSet(es)) /\ ~(e \in ToSet(es) /\ f \in Known)
    BY <1>2, <1>3, <1>7
  <2> QED BY <1>6, <2>1, <2>2, <2>3
<1>8. ASSUME NEW n \in Ids, NEW u \in ToSet(starts'[n])
      PROVE  u <= t /\ \A e \in Known' : e.n = n => u # e.at
  <2>1. CASE u \in ToSet(starts[n])
    <3>1. starts[n] \in Seq(Int)
      BY DEF Timed
    <3>2. u \in Int /\ u <= now /\ \A e \in Known : e.n = n => u # e.at
      BY <2>1, <3>1, Members DEF Timed
    <3>3. \A e \in ToSet(es) : u # e.at
      BY <1>2, <3>2
    <3> QED BY <1>2, <1>6, <3>2, <3>3
  <2>2. CASE now < u /\ u <= t /\ \A e \in ToSet(es) : u # e.at
    BY <1>2, <1>3, <1>6, <2>2
  <2> QED BY <2>1, <2>2 DEF Sent
<1>9. ASSUME NEW o \in observed, NEW f \in ToSet(queue'), o.e.n = f.n PROVE o.e.at <= f.at
  <2>1. CASE f \in ToSet(queue)
    BY <1>9, <2>1 DEF Timed
  <2>2. CASE f \in ToSet(es)
    <3>1. o.e \in Known
      BY DEF Known
    <3>2. o.e.at <= now /\ o.e.at \in Int /\ now < f.at /\ f.at \in Int
      BY <1>2, <1>3, <2>2, <3>1 DEF Events
    <3> QED BY <1>2, <3>2
  <2> QED BY <1>4, <2>1, <2>2
<1>10. \A e \in Known' : e \in Events /\ 0 < e.at /\ e.at <= t
  <2>1. 0 <= now
    BY DEF Timed
  <2>2. \A e \in ToSet(es) : 0 < e.at
    BY <1>2, <2>1 DEF Events
  <2> QED BY <1>2, <1>3, <1>6, <2>2
<1>11. Timed'
  <2>1. starts' \in [Ids -> Seq(Int)] /\ 0 <= now'
    BY <1>1, <1>2 DEF Timed, Sent
  <2>2. Known' \subseteq Events /\ \A e \in Known' : 0 < e.at /\ e.at <= now'
    BY <1>1, <1>10
  <2>3. \A n \in Ids : \A u \in ToSet(starts'[n]) : u <= now' /\ \A e \in Known' : e.n = n => u # e.at
    BY <1>1, <1>8
  <2>4. \A o \in observed', f \in ToSet(queue') : o.e.n = f.n => o.e.at <= f.at
    BY <1>1, <1>9
  <2>5. \A e, f \in Known' : e.at = f.at => e = f
    BY <1>7
  <2> QED BY <1>4, <2>1, <2>2, <2>3, <2>4, <2>5 DEF Timed
<1>12. Stored'
  <2>1. ASSUME NEW s \in Services PROVE Kept(held'[s], Mine(observed', s), now')
    <3>1. Mine(observed, s) \in SUBSET Incs
      BY DEF Stored, Mine, Of
    <3>2. Kept(held[s], Mine(observed, s), t)
      <4>1. Kept(held[s], Mine(observed, s), now) /\ now <= t
        BY <1>2 DEF Stored
      <4> QED BY <1>2, <3>1, <4>1, KeptLater
    <3> QED BY <1>1, <3>2
  <2> QED BY <1>1, <2>1 DEF Stored
<1> QED BY <1>5, <1>11, <1>12

-----------------------------------------------------------------------------
(***************************************************************************)
(* What the watcher does.                                                   *)
(***************************************************************************)

\* What Observe makes of the store.
LEMMA HeldFacts ==
  ASSUME NEW e \in Events, oom \in [Ids -> Int], Observe(e), NEW s \in Services
  PROVE  \/ held'[s] = held[s] /\ \A inc \in Declares(e) : inc.service # s
         \/ \E inc \in Incs : /\ Declares(e) = {inc} /\ inc.service = s
                              /\ held'[s] = record(held[s], inc, now)
<1>1. held'[s] = IF \E i \in Declares(e) : i.service = s
                 THEN record(held[s], CHOOSE i \in Declares(e) : TRUE, now)
                 ELSE held[s]
  BY DEF Observe
<1>2. CASE Declares(e) = {}
  BY <1>1, <1>2
<1>3. ASSUME NEW inc, Declares(e) = {inc}
      PROVE  \/ held'[s] = held[s] /\ \A i \in Declares(e) : i.service # s
             \/ inc \in Incs /\ inc.service = s /\ held'[s] = record(held[s], inc, now)
  <2>1. inc \in Incs
    BY <1>3, DeclaresOne DEF Of
  <2>2. (CHOOSE i \in Declares(e) : TRUE) = inc
    BY <1>3
  <2> QED BY <1>1, <1>3, <2>1, <2>2
<1> QED BY <1>2, <1>3, DeclaresOne

\* Two Incidents of one event have the same id.
LEMMA OneId ==
  ASSUME NEW e, NEW x, NEW y, Of(x, e), Of(y, e)
  PROVE  IdOf(x) = IdOf(y)
BY DEF Of, IdOf

\* What the store is told of an event.
LEMMA ObservedStored ==
  ASSUME Stored, now \in Int, oom \in [Ids -> Int], NEW e \in Events, Observe(e), now' = now,
         \A o \in observed : o.e.at = e.at => o.e = e
  PROVE  /\ Stored'
         /\ \A s \in Services : \A x \in ToSet(held'[s]) :
              x \in ToSet(held[s]) \/ (x \in Declares(e) /\ (e.action = "exit" => \A o \in observed : o.e # e))
<1> DEFINE new == [e |-> e, inc |-> Declares(e)]
<1>1. observed' = observed \cup {new} /\ new.e = e /\ new.inc = Declares(e)
  BY DEF Observe
<1> HIDE DEF new
<1>2. /\ \A inc \in Declares(e) : Of(inc, e)
      /\ (e.action = "exit" /\ isObserved(At(e.n))) => Declares(e) # {}
      /\ Declares(e) = {} \/ \E inc : Declares(e) = {inc}
  BY DeclaresOne
<1>3. IsFiniteSet(Declares(e)) /\ IsFiniteSet(observed')
  <2>1. IsFiniteSet(Declares(e))
    <3>1. IsFiniteSet({}) /\ \A x : IsFiniteSet({x})
      BY FS_EmptySet, FS_Singleton, Zenon
    <3>2. CASE Declares(e) = {}
      BY <3>1, <3>2
    <3>3. ASSUME NEW inc, Declares(e) = {inc} PROVE IsFiniteSet(Declares(e))
      BY <3>1, <3>3
    <3> QED BY <1>2, <3>2, <3>3
  <2>2. IsFiniteSet(observed')
    BY <1>1, FS_AddElement DEF Stored
  <2> QED BY <2>1, <2>2
<1>4. \A s : Mine(observed', s) = Mine(observed, s) \cup {i \in Declares(e) : i.service = s}
  BY <1>1 DEF Mine
<1>5. ASSUME NEW s \in Services
      PROVE  /\ Kept(held'[s], Mine(observed', s), now)
             /\ \A x \in ToSet(held'[s]) :
                  x \in ToSet(held[s]) \/ (x \in Declares(e) /\ (e.action = "exit" => \A o \in observed : o.e # e))
  <2> DEFINE K == Mine(observed, s)
  <2>1. Kept(held[s], K, now) /\ K \in SUBSET Incs
    <3>1. Kept(held[s], K, now)
      BY DEF Stored
    <3>2. \A o \in observed : \A x \in o.inc : x \in Incs
      BY DEF Stored, Of
    <3>3. K \in SUBSET Incs
      BY <3>2 DEF Mine
    <3> QED BY <3>1, <3>3
  <2>2. \A x \in K : x.service = s /\ \E o \in observed : x \in o.inc /\ Of(x, o.e)
    BY DEF Stored, Mine
  <2>3. \A o \in observed : \A x \in o.inc : x.service = s => x \in K
    BY DEF Mine
  <2> HIDE DEF K
  <2>4. CASE held'[s] = held[s] /\ \A inc \in Declares(e) : inc.service # s
    <3>1. Mine(observed', s) = K
      BY <1>4, <2>4 DEF K
    <3> QED BY <2>1, <2>4, <3>1
  <2>5. ASSUME NEW inc \in Incs, Declares(e) = {inc}, inc.service = s, held'[s] = record(held[s], inc, now)
        PROVE  /\ Kept(held'[s], Mine(observed', s), now)
               /\ \A x \in ToSet(held'[s]) :
                    x \in ToSet(held[s]) \/ (x \in Declares(e) /\ (e.action = "exit" => \A o \in observed : o.e # e))
    <3>1. Mine(observed', s) = K \cup {inc} /\ Of(inc, e)
      <4>1. {i \in {inc} : i.service = s} = {inc}
        BY <2>5
      <4>2. Mine(observed', s) = Mine(observed, s) \cup {inc}
        BY <1>4, <2>5, <4>1
      <4>3. Of(inc, e)
        BY <1>2, <2>5
      <4> QED BY <4>2, <4>3 DEF K
    <3>2. ASSUME NEW x \in K, x.at = inc.at PROVE IdOf(x) = IdOf(inc)
      <4>1. PICK o \in observed : Of(x, o.e)
        BY <2>2
      <4>2. o.e = e
        BY <3>1, <3>2, <4>1 DEF Of
      <4> QED BY <3>1, <4>1, <4>2, OneId
    <3>3. /\ Kept(record(held[s], inc, now), K \cup {inc}, now)
          /\ ToSet(record(held[s], inc, now)) \subseteq ToSet(held[s]) \cup {inc}
          /\ inc \in ToSet(record(held[s], inc, now)) => inc \in ToSet(held[s]) \/ \A x \in K : IdOf(x) # IdOf(inc)
      <4> DEFINE h == held[s]
                 t == now
      <4>1. Kept(h, K, t) /\ K \in SUBSET Incs /\ t \in Int /\ inc \in Incs
        BY <2>1, <2>5
      <4>2. IdAt(K, inc)
        BY <3>2 DEF IdAt
      <4> HIDE DEF h, t
      <4>3. /\ Kept(record(h, inc, t), K \cup {inc}, t)
            /\ ToSet(record(h, inc, t)) \subseteq ToSet(h) \cup {inc}
            /\ inc \in ToSet(record(h, inc, t)) => inc \in ToSet(h) \/ \A x \in K : IdOf(x) # IdOf(inc)
        BY <4>1, <4>2, KeptRecord
      <4> QED BY <4>3 DEF h, t
    <3>4. ASSUME e.action = "exit", \A x \in K : IdOf(x) # IdOf(inc), NEW o \in observed PROVE o.e # e
      <4>1. SUFFICES ASSUME o.e = e PROVE FALSE
        OBVIOUS
      <4>2. o.inc # {}
        BY <3>1, <3>4, <4>1 DEF Stored, Of
      <4>3. PICK x \in o.inc : Of(x, e)
        BY <4>1, <4>2 DEF Stored
      <4>4. x.service = s
        BY <2>5, <3>1, <4>3 DEF Of
      <4>5. x \in K
        BY <2>3, <4>3, <4>4
      <4> QED BY <3>1, <3>4, <4>3, <4>5, OneId
    <3> QED BY <2>5, <3>1, <3>3, <3>4
  <2> QED BY <2>4, <2>5, HeldFacts
<1>6. Stored'
  <2>1. \A o \in observed' : IsFiniteSet(o.inc) /\ \A i \in o.inc : Of(i, o.e)
    BY <1>1, <1>2, <1>3 DEF Stored
  <2>2. \A o \in observed' : (o.e.action = "exit" /\ isObserved(At(o.e.n))) => o.inc # {}
    BY <1>1, <1>2 DEF Stored
  <2>3. \A s \in Services : Kept(held'[s], Mine(observed', s), now')
    BY <1>5
  <2> QED BY <1>3, <2>1, <2>2, <2>3 DEF Stored
<1> QED BY <1>5, <1>6

\* What is left of the queue and the events taken when an event is.
LEMMA NoteKeeps ==
  ASSUME Typed, Shaped, Timed, Stored, NEW i \in Deliverable, NoteIncident(i)
  PROVE  /\ Shaped' /\ Timed' /\ Stored'
         /\ i \in 1..Len(queue) /\ queue[i] \in ToSet(queue) /\ queue[i] \in Events
         /\ Observe(queue[i]) /\ UNCHANGED docker /\ ToSet(queue') \subseteq ToSet(queue)
         /\ \A s \in Services : \A x \in ToSet(held'[s]) :
              \/ x \in ToSet(held[s])
              \/ x \in Declares(queue[i]) /\ (queue[i].action = "exit" => \A o \in observed : o.e # queue[i])
<1> DEFINE e == queue[i]
<1>1. queue \in Seq(Events) /\ Len(queue) \in Nat /\ i \in 1..Len(queue)
  BY LenProperties DEF Typed, Deliverable
<1>2. e \in Events /\ e \in ToSet(queue)
  BY <1>1, Members
<1>3. /\ Observe(e) /\ pc' = "pass" /\ UNCHANGED <<now, starts, stream, sighted>> /\ UNCHANGED docker
      /\ queue' = RemoveAt(queue, i) \/ queue' = queue
  BY DEF NoteIncident, docker
<1>4. \A j \in 1..(i - 1) : queue[j].n # e.n
  BY DEF Deliverable
<1>5. ToSet(queue') \subseteq ToSet(queue) /\ Rising(queue') /\ Len(queue') <= Len(queue) /\ Len(queue') \in Nat
  <2>1. CASE queue' = queue
    BY <1>1, <2>1 DEF Timed
  <2>2. CASE queue' = RemoveAt(queue, i)
    <3>1. queue' \in Seq(Events) /\ Without(queue', queue, i)
      BY <1>1, <2>2, RemoveAtWithout
    <3>2. Rising(queue') /\ ToSet(queue') \subseteq ToSet(queue)
      BY <1>1, <3>1, TakenOut DEF Timed
    <3>3. Len(queue') = Len(queue) - 1 /\ Len(queue') \in Nat
      BY <3>1, LenProperties DEF Without
    <3> QED BY <1>1, <3>2, <3>3
  <2> QED BY <1>3, <2>1, <2>2
<1>6. \A f \in ToSet(queue) : f.n = e.n => e.at <= f.at
  <2>1. ASSUME NEW j \in 1..Len(queue), queue[j].n = e.n PROVE e.at <= queue[j].at
    <3>1. ~(j < i)
      BY <1>1, <1>4, <2>1
    <3>2. j = i \/ i < j
      BY <1>1, <3>1
    <3>3. queue[j].at \in Int /\ e.at \in Int
      <4>1. queue[j] \in Events
        BY <1>1, ElementOfSeq
      <4> HIDE DEF e
      <4> QED BY <1>2, <4>1 DEF Events
    <3> QED BY <1>1, <3>2, <3>3 DEF Timed, Rising
  <2> QED BY <1>1, <2>1, Members
<1>7. observed' = observed \cup {[e |-> e, inc |-> Declares(e)]}
  BY <1>3 DEF Observe
<1> HIDE DEF e
<1>8. Known' \subseteq Known
  <2>1. \A o \in observed' : o \in observed \/ o.e = e
    BY <1>7
  <2> QED BY <1>2, <1>5, <2>1 DEF Known
<1>9. Timed'
  <2>1. \A o \in observed', f \in ToSet(queue') : o.e.n = f.n => o.e.at <= f.at
    <3>1. \A o \in observed' : o \in observed \/ o.e = e
      BY <1>7
    <3> QED BY <1>5, <1>6, <3>1 DEF Timed
  <2>2. starts' = starts /\ now' = now
    BY <1>3
  <2>3. Known' \subseteq Events /\ \A x \in Known' : 0 < x.at /\ x.at <= now
    BY <1>8 DEF Timed
  <2>4. \A x, f \in Known' : x.at = f.at => x = f
    BY <1>8 DEF Timed
  <2>5. \A n \in Ids : \A u \in ToSet(starts[n]) : u <= now /\ \A x \in Known' : x.n = n => u # x.at
    BY <1>8 DEF Timed
  <2>6. starts \in [Ids -> Seq(Int)] /\ 0 <= now
    BY DEF Timed
  <2> QED BY <1>5, <2>1, <2>2, <2>3, <2>4, <2>5, <2>6 DEF Timed
<1>10. /\ Stored'
       /\ \A s \in Services : \A x \in ToSet(held'[s]) :
            x \in ToSet(held[s]) \/ (x \in Declares(e) /\ (e.action = "exit" => \A o \in observed : o.e # e))
  <2>1. \A o \in observed : o.e.at = e.at => o.e = e
    <3>1. \A o \in observed : o.e \in Known
      BY DEF Known
    <3>2. e \in Known
      BY <1>2 DEF Known
    <3> QED BY <3>1, <3>2 DEF Timed
  <2>2. now \in Int /\ oom \in [Ids -> Int] /\ now' = now
    BY <1>3 DEF Typed, Shaped
  <2> QED BY <1>2, <1>3, <2>1, <2>2, ObservedStored
<1>11. Shaped'
  <2>1. oom' \in [Ids -> Int] /\ healthy' \subseteq Ids /\ \A n \in healthy' : n \in healthy \/ isObserved(At(n))
    BY <1>2, <1>3, RemembersOOM DEF Shaped
  <2>2. Len(queue') <= MaxQueue
    BY <1>1, <1>5, IncidentsAssumption DEF Shaped
  <2> QED BY <1>3, <2>1, <2>2 DEF Shaped
<1> QED BY <1>1, <1>2, <1>3, <1>5, <1>9, <1>10, <1>11 DEF e

\* An empty store is right about nothing.
LEMMA KeptNothing == ASSUME NEW t PROVE Kept(<<>>, {}, t) /\ ToSet(<<>>) = {}
<1>1. <<>> \in Seq(Incs) /\ Len(<<>>) = 0 /\ ToSet(<<>>) = {}
  BY DEF ToSet
<1> QED BY <1>1, IncidentsAssumption DEF Kept, Rising, Holds

\* The stream, or the process, takes its events along.
LEMMA EmptyKeeps ==
  ASSUME Typed, Shaped, Timed, Stored, BreakStream \/ Subscribe \/ RestartWatcher
  PROVE  Shaped' /\ Timed' /\ Stored'
<1>1. queue' = <<>> /\ now' = now /\ starts' = starts
  BY DEF BreakStream, Subscribe, RestartWatcher, docker
<1>2. ToSet(queue') = {} /\ Rising(queue') /\ Len(queue') = 0
  BY <1>1 DEF ToSet, Rising
<1>3. \/ observed' = observed /\ UNCHANGED <<healthy, oom, held>>
      \/ /\ observed' = {} /\ healthy' = {} /\ oom' = [n \in Ids |-> 0] /\ held' = [s \in Services |-> <<>>]
  BY DEF BreakStream, Subscribe, RestartWatcher, store
<1>4. pc' \in {"boot", "pass", "subscribe", "idle"} /\ stream' \in {"none", "open", "broken"}
  BY DEF BreakStream, Subscribe, RestartWatcher, Shaped
<1>5. oom' \in [Ids -> Int]
  BY <1>3 DEF Shaped
<1>6. Shaped'
  BY <1>2, <1>3, <1>4, <1>5, IncidentsAssumption DEF Shaped
<1>7. Known' \subseteq Known
  BY <1>2, <1>3 DEF Known
<1>8. Timed'
  <2>1. Known' \subseteq Events /\ \A x \in Known' : 0 < x.at /\ x.at <= now
    BY <1>7 DEF Timed
  <2>2. \A x, f \in Known' : x.at = f.at => x = f
    BY <1>7 DEF Timed
  <2>3. \A n \in Ids : \A u \in ToSet(starts[n]) : u <= now /\ \A x \in Known' : x.n = n => u # x.at
    BY <1>7 DEF Timed
  <2>4. starts \in [Ids -> Seq(Int)] /\ 0 <= now
    BY DEF Timed
  <2> QED BY <1>1, <1>2, <2>1, <2>2, <2>3, <2>4 DEF Timed
<1>9. Stored'
  <2>1. CASE observed' = observed /\ UNCHANGED <<healthy, oom, held>>
    BY <1>1, <2>1 DEF Stored
  <2>2. CASE observed' = {} /\ held' = [s \in Services |-> <<>>]
    <3>1. \A s \in Services : Mine(observed', s) = {} /\ held'[s] = <<>>
      BY <2>2 DEF Mine
    <3>2. IsFiniteSet(observed')
      BY <2>2, FS_EmptySet
    <3> QED BY <2>2, <3>1, <3>2, KeptNothing DEF Stored
  <2> QED BY <1>3, <2>1, <2>2
<1> QED BY <1>6, <1>8, <1>9

\* The store is read.
LEMMA ListKeeps ==
  ASSUME Typed, Shaped, Timed, Stored, List
  PROVE  /\ Shaped' /\ Timed' /\ Stored'
         /\ \A s \in Services : ToSet(held'[s]) \subseteq ToSet(held[s])
<1>1. /\ UNCHANGED <<queue, now, starts, observed, healthy, oom, pc, stream>>
      /\ \A s \in Services : held'[s] = fresh(held[s], now)
  BY DEF List, docker
<1>2. Shaped'
  BY <1>1 DEF Shaped
<1>3. Timed'
  BY <1>1 DEF Timed, Known
<1>4. ASSUME NEW s \in Services
      PROVE  Kept(held'[s], Mine(observed', s), now') /\ ToSet(held'[s]) \subseteq ToSet(held[s])
  <2>1. Kept(held[s], Mine(observed, s), now) /\ Mine(observed, s) \in SUBSET Incs /\ now \in Int
    BY DEF Stored, Mine, Of, Typed
  <2> QED BY <1>1, <2>1, KeptFresh
<1>5. Stored'
  BY <1>1, <1>4 DEF Stored
<1> QED BY <1>2, <1>3, <1>4, <1>5

\* The steps that neither move events nor change what is held.
LEMMA IdleKeeps ==
  ASSUME Shaped, Timed, Stored, Pass \/ Tick \/ StreamError \/ UNCHANGED vars
  PROVE  /\ Shaped' /\ Timed' /\ Stored'
         /\ UNCHANGED <<queue, now, starts, observed, oom, held>>
<1>1. /\ UNCHANGED <<queue, now, starts, observed, oom, held, stream>>
      /\ healthy' = healthy \/ healthy' = healthy \cup Healthy
      /\ pc' \in {"boot", "pass", "subscribe", "idle"}
  BY DEF Pass, Tick, StreamError, vars, docker, store, Shaped
<1>2. Shaped'
  BY <1>1 DEF Shaped, Healthy
<1>3. Timed' /\ Stored'
  BY <1>1 DEF Timed, Known, Stored
<1> QED BY <1>1, <1>2, <1>3

\* The store starts empty, and nothing is under way.
LEMMA InitStore == Init => StoreInv
<1> SUFFICES ASSUME Init PROVE StoreInv
  OBVIOUS
<1>1. FallInv
  BY InitFall
<1> DEFINE none == <<>>
           one == <<1>>
<1>2. /\ queue = none /\ observed = {} /\ now = 1 /\ healthy = {} /\ oom = [n \in Ids |-> 0]
      /\ held = [s \in Services |-> none] /\ pc = "boot" /\ stream = "none"
      /\ starts = [n \in Ids |-> IF life[n] = "down" THEN none ELSE one]
  BY DEF Init, StoreInit
<1>3. /\ none \in Seq(Int) /\ one \in Seq(Int) /\ ToSet(none) = {} /\ Rising(none) /\ Len(none) = 0
      /\ \A u \in ToSet(one) : u = 1
  <2>1. none \in Seq(Int) /\ Len(none) = 0 /\ one \in Seq(Int) /\ Len(one) = 1 /\ one[1] = 1
    OBVIOUS
  <2>2. ToSet(none) = {} /\ Rising(none)
    BY DEF ToSet, Rising
  <2> HIDE DEF none, one
  <2>3. ToSet(one) = {one[i] : i \in 1..1}
    BY <2>1, Members
  <2>4. \A i \in 1..1 : i = 1
    OBVIOUS
  <2> QED BY <2>1, <2>2, <2>3, <2>4
<1>4. \A s \in Services : held[s] = none /\ Kept(none, {}, now)
  BY <1>2, KeptNothing
<1> HIDE DEF none, one
<1>5. Shaped
  BY <1>2, <1>3, IncidentsAssumption DEF Shaped
<1>6. Known = {}
  BY <1>2, <1>3 DEF Known
<1>7. Timed
  <2>1. starts \in [Ids -> Seq(Int)]
    BY <1>2, <1>3
  <2>2. \A n \in Ids : \A u \in ToSet(starts[n]) : u <= now
    BY <1>2, <1>3
  <2> QED BY <1>2, <1>3, <1>6, <2>1, <2>2 DEF Timed
<1>8. Stored
  <2>1. IsFiniteSet(observed)
    BY <1>2, FS_EmptySet
  <2>2. \A s \in Services : Mine(observed, s) = {}
    BY <1>2 DEF Mine
  <2> QED BY <1>2, <1>4, <2>1, <2>2 DEF Stored
<1> QED BY <1>1, <1>5, <1>7, <1>8 DEF StoreInv

\* Every step keeps the invariant of the store.
LEMMA NextStore == StoreInv /\ [Next]_vars => StoreInv'
<1> SUFFICES ASSUME StoreInv, [Next]_vars PROVE StoreInv'
  OBVIOUS
<1>1. FallInv' /\ Typed /\ Shaped /\ Timed /\ Stored
  BY NextFall DEF StoreInv, FallInv
<1> SUFFICES Shaped' /\ Timed' /\ Stored'
  BY <1>1 DEF StoreInv
<1>2. CASE DockerNext /\ ~BreakStream
  BY <1>1, <1>2, SentSteps, SentKeeps
<1>3. CASE BreakStream \/ Subscribe \/ RestartWatcher
  BY <1>1, <1>3, EmptyKeeps
<1>4. CASE List
  BY <1>1, <1>4, ListKeeps
<1>5. CASE Pass \/ Tick \/ StreamError \/ UNCHANGED vars
  BY <1>1, <1>5, IdleKeeps
<1>6. ASSUME NEW i \in Deliverable, NoteIncident(i) PROVE Shaped' /\ Timed' /\ Stored'
  BY <1>1, <1>6, NoteKeeps
<1> QED BY <1>2, <1>3, <1>4, <1>5, <1>6 DEF Next, WatcherNext

\* What the events declared of a service is finitely much, held in part.
LEMMA MineFacts ==
  ASSUME StoreInv, NEW s \in Services
  PROVE  /\ Mine(observed, s) \in SUBSET Incs /\ IsFiniteSet(Mine(observed, s))
         /\ Kept(held[s], Mine(observed, s), now) /\ now \in Int
         /\ Mine(observed, s) = {j \in Declared : j.service = s}
<1>1. Stored /\ now \in Int
  BY DEF StoreInv, FallInv, Typed
<1>2. Mine(observed, s) \in SUBSET Incs
  BY <1>1 DEF Stored, Mine, Of
<1> DEFINE f == [o \in observed |-> o.inc]
           T == {f[o] : o \in observed}
<1>3. IsFiniteSet(T)
  <2>1. IsFiniteSet(observed)
    BY <1>1 DEF Stored
  <2> HIDE DEF f
  <2> QED BY <2>1, ImageOfFinite
<1>4. \A x \in T : IsFiniteSet(x)
  BY <1>1 DEF Stored
<1>5. Mine(observed, s) \in SUBSET (UNION T)
  BY DEF Mine
<1> HIDE DEF f, T
<1>6. IsFiniteSet(UNION T)
  BY <1>3, <1>4, FS_UNION
<1>7. IsFiniteSet(Mine(observed, s))
  BY <1>5, <1>6, FS_Subset
<1> QED BY <1>1, <1>2, <1>7 DEF Stored, Mine, Declared

\* Types and limits: the queue and the store of every service stay within their bounds.
THEOREM IncidentsTyped == Spec => []TypeOK
<1>1. ASSUME StoreInv PROVE TypeOK
  <2>1. ASSUME NEW s \in Services, NEW i \in 1..Len(held[s])
        PROVE  held[s][i].service = s
    <3>1. held[s] \in Seq(Incs) /\ ToSet(held[s]) \subseteq Mine(observed, s)
      BY <1>1, MineFacts DEF Kept
    <3>2. held[s][i] \in ToSet(held[s])
      BY <3>1, Members
    <3> QED BY <3>1, <3>2 DEF Mine
  <2>2. \A s \in Services : Len(held[s]) <= PerService
    BY <1>1, MineFacts DEF Kept
  <2> QED BY <1>1, <2>1, <2>2 DEF TypeOK, StoreInv, FallInv, Typed, Shaped
<1> QED
  BY InitStore, NextStore, <1>1, PTL DEF Spec

\* Whatever order events came in and however often each was delivered, the store holds
\* the newest PerService Incidents of each service that are not too old, each once, oldest
\* first (record, List).
THEOREM NewestAlwaysKept == Spec => []NewestKept
<1>1. ASSUME StoreInv PROVE NewestKept
  <2>1. ASSUME NEW s \in Services
        PROVE  /\ {IdOf(i) : i \in Fresh(ToSet(held[s]))}
                    = NewestOf({IdOf(i) : i \in {j \in Fresh(Declared) : j.service = s}})
               /\ \A i, j \in 1..Len(held[s]) : i < j =>
                    held[s][i].at <= held[s][j].at /\ IdOf(held[s][i]) # IdOf(held[s][j])
    <3> DEFINE h == held[s]
               K == Mine(observed, s)
               t == now
    <3>1. K \in SUBSET Incs /\ IsFiniteSet(K) /\ Kept(h, K, t) /\ t \in Int
      BY <1>1, MineFacts
    <3>2. Fresh(ToSet(h)) = {i \in ToSet(h) : i.at > t - MaxAge}
      BY DEF Fresh
    <3>3. {j \in Fresh(Declared) : j.service = s} = {j \in K : j.at > t - MaxAge}
      BY <1>1, MineFacts DEF Fresh
    <3> HIDE DEF h, K, t
    <3>4. /\ {IdOf(i) : i \in {i \in ToSet(h) : i.at > t - MaxAge}}
               = NewestOf({IdOf(i) : i \in {j \in K : j.at > t - MaxAge}})
          /\ \A i, j \in 1..Len(h) : i < j => h[i].at <= h[j].at /\ IdOf(h[i]) # IdOf(h[j])
      BY <3>1, KeptNewest
    <3> QED BY <3>2, <3>3, <3>4 DEF h
  <2> QED BY <2>1 DEF NewestKept
<1> QED
  BY InitStore, NextStore, <1>1, PTL DEF Spec

-----------------------------------------------------------------------------
(***************************************************************************)
(* Quoting.                                                                 *)
(***************************************************************************)

\* An Incident the store holds is one that an event of this process declared.
LEMMA HeldFrom ==
  ASSUME StoreInv, NEW i \in Held
  PROVE  /\ i \in Incs /\ i \in ToSet(held[i.service]) /\ i.service = ServiceOf(At(i.n))
         /\ i.at \in Nat /\ i.at <= now /\ i.n \in Ids
         /\ \E o \in observed : i \in o.inc /\ Of(i, o.e) /\ o.e \in Known
<1>1. PICK s \in Services : i \in ToSet(held[s])
  BY DEF Held
<1>2. i \in Mine(observed, s)
  BY <1>1, MineFacts DEF Kept
<1>3. PICK o \in observed : i \in o.inc /\ i.service = s
  BY <1>2 DEF Mine
<1>4. Of(i, o.e) /\ o.e \in Known
  BY <1>3 DEF StoreInv, Stored, Known
<1>5. o.e.at \in Int /\ 0 < o.e.at /\ o.e.at <= now
  BY <1>4 DEF StoreInv, Timed, Events
<1> QED BY <1>1, <1>3, <1>4, <1>5 DEF Of, Incs

\* What a sequence has in it is finite.
LEMMA MembersFinite == ASSUME NEW S, NEW q \in Seq(S) PROVE IsFiniteSet(ToSet(q))
<1> DEFINE D == 1..Len(q)
<1>1. Len(q) \in Nat /\ ToSet(q) = {q[i] : i \in D}
  BY Members
<1>2. IsFiniteSet(D)
  BY <1>1, FS_Interval
<1> HIDE DEF D
<1> QED BY <1>1, <1>2, ImageOfFinite

\* The failure of the life before bounds what is quoted.
LEMMA QuotedAfter ==
  ASSUME StoreInv, NEW i \in Held, NEW p \in Held, p.n = i.n, p.at < i.at, NEW limit,
         NEW t \in QuotedStarts(i, Held, limit)
  PROVE  t \in ToSet(starts[i.n]) /\ t <= i.at /\ p.at < t
<1> DEFINE before == {o \in Held : o.service = i.service /\ IdOf(o) # IdOf(i) /\ o.at < i.at}
           f == [o \in before |-> o.at]
           A == {f[o] : o \in before}
<1>1. p \in before
  <2>1. p.service = i.service
    BY HeldFrom
  <2>2. IdOf(p) # IdOf(i)
    <3>1. p.at # i.at
      BY HeldFrom
    <3> QED BY <3>1, SameIdSameTime
  <2> QED BY <2>1, <2>2
<1>2. IsFiniteSet(before)
  <2>1. i.service \in Services
    BY HeldFrom DEF Incs
  <2>2. held[i.service] \in Seq(Incs)
    BY <2>1, MineFacts DEF Kept
  <2>3. IsFiniteSet(ToSet(held[i.service]))
    BY <2>2, MembersFinite
  <2>4. before \in SUBSET ToSet(held[i.service])
    BY HeldFrom
  <2> HIDE DEF before
  <2> QED BY <2>3, <2>4, FS_Subset
<1>3. \A o \in before : o.at \in Nat
  BY HeldFrom
<1>4. A \in SUBSET Nat /\ A # {} /\ IsFiniteSet(A)
  <2>1. A \in SUBSET Nat /\ A # {}
    BY <1>1, <1>3
  <2>2. IsFiniteSet(A)
    <3> HIDE DEF before, f
    <3> QED BY <1>2, ImageOfFinite
  <2> QED BY <2>1, <2>2
<1>5. PICK o \in before : \A q \in before : q.at <= o.at
  <2>1. Max(A) \in A /\ \A y \in A : y <= Max(A)
    <3> HIDE DEF A
    <3> QED BY <1>4, MaxOfFinite
  <2>2. PICK o \in before : Max(A) = o.at
    BY <2>1
  <2>3. \A q \in before : q.at \in A
    OBVIOUS
  <2> QED BY <2>1, <2>2, <2>3
<1>6. o \in PreviousIncident(i, Held)
  BY <1>5 DEF PreviousIncident
<1>7. t \in ToSet(starts[i.n]) /\ t <= i.at /\ t >= o.at /\ o.at >= p.at
  BY <1>1, <1>5, <1>6 DEF QuotedStarts
<1>8. i.n \in Ids /\ starts[i.n] \in Seq(Int)
  BY HeldFrom DEF StoreInv, Timed
<1>9. t \in Int
  BY <1>7, <1>8, Members
<1>10. t # p.at
  <2>1. PICK q \in observed : Of(p, q.e) /\ q.e \in Known
    BY HeldFrom
  <2>2. q.e.n = i.n /\ q.e.at = p.at
    BY <2>1 DEF Of
  <2> QED BY <1>7, <1>8, <2>1, <2>2 DEF StoreInv, Timed
<1>11. p.at \in Nat /\ o.at \in Nat
  BY <1>3, <1>5, HeldFrom
<1>12. p.at < t
  <2> HIDE DEF before
  <2> QED BY <1>7, <1>9, <1>10, <1>11
<1> QED BY <1>7, <1>12

\* The Transcript of an exit whose container failed in its life before too, and whose
\* failure is still held, is of the life that ended alone, whatever the listing's limit:
\* a container never starts at the instant of one of its events (SelectIncidents,
\* QuoteIncident).
THEOREM QuotesOfOneLife == Spec => []QuotesOneLife
<1>1. ASSUME StoreInv PROVE QuotesOneLife
  <2> SUFFICES ASSUME NEW i \in Held, NEW p \in Held, NEW limit \in 1..PerService,
                      i.n = p.n, LifeAt(p.n, p.at) + 1 = LifeAt(i.n, i.at),
                      NEW t \in QuotedStarts(i, Held, limit)
               PROVE  LifeAt(i.n, t) = LifeAt(i.n, i.at)
    BY DEF QuotesOneLife
  <2> DEFINE n == i.n
             Q == ToSet(starts[n])
             upto(x) == {s \in Q : s <= x}
  <2>1. /\ i.at \in Int /\ p.at \in Int /\ n \in Ids
        /\ starts[n] \in Seq(Int)
    BY <1>1, HeldFrom DEF StoreInv, Timed
  <2>2. Q \subseteq Int /\ IsFiniteSet(Q)
    BY <2>1, Members, MembersFinite
  <2> HIDE DEF Q
  <2>3. \A x : upto(x) \in SUBSET Q
    OBVIOUS
  <2>4. \A x, y : upto(x) \in SUBSET upto(y) => Cardinality(upto(x)) <= Cardinality(upto(y))
    <3> HIDE DEF upto
    <3>1. \A x : IsFiniteSet(upto(x))
      BY <2>2, <2>3, FS_Subset
    <3> QED BY <3>1, FS_Subset
  <2>5. \A x : IsFiniteSet(upto(x)) /\ Cardinality(upto(x)) \in Nat
    <3> HIDE DEF upto
    <3> QED BY <2>2, <2>3, FS_Subset, FS_CardinalityType
  <2>6. \A x : LifeAt(n, x) = Cardinality(upto(x))
    BY DEF LifeAt, Q
  <2>7. p.at < i.at
    <3>1. SUFFICES ASSUME ~(p.at < i.at) PROVE FALSE
      OBVIOUS
    <3>2. upto(i.at) \in SUBSET upto(p.at)
      <4>1. \A x \in Q : x \in Int /\ (x <= i.at => x <= p.at)
        BY <2>1, <2>2, <3>1
      <4> QED BY <4>1
    <3>3. Cardinality(upto(i.at)) <= Cardinality(upto(p.at))
      BY <2>4, <3>2
    <3>4. Cardinality(upto(p.at)) + 1 = Cardinality(upto(i.at))
      BY <2>6
    <3>5. Cardinality(upto(p.at)) \in Nat
      BY <2>5
    <3> HIDE DEF upto
    <3> QED BY <3>3, <3>4, <3>5
  <2>8. t \in Q /\ t <= i.at /\ p.at < t /\ t \in Int
    BY <1>1, <2>2, <2>7, QuotedAfter DEF Q
  <2>9. upto(t) \in SUBSET upto(i.at) /\ upto(p.at) \cup {t} \in SUBSET upto(t) /\ t \notin upto(p.at)
    <3>1. ASSUME NEW x \in Q PROVE (x <= t => x <= i.at) /\ (x <= p.at => x <= t)
      <4>1. x \in Int /\ t \in Int /\ i.at \in Int /\ p.at \in Int
        BY <2>1, <2>2, <2>8
      <4> QED BY <2>8, <4>1
    <3>2. upto(t) \in SUBSET upto(i.at) /\ upto(p.at) \in SUBSET upto(t)
      BY <3>1
    <3>3. t \in upto(t) /\ t \notin upto(p.at)
      BY <2>1, <2>8
    <3> QED BY <3>2, <3>3
  <2>10. Cardinality(upto(t)) <= Cardinality(upto(i.at))
    BY <2>4, <2>9
  <2>11. Cardinality(upto(p.at)) + 1 <= Cardinality(upto(t))
    <3> DEFINE A == upto(p.at)
               B == upto(t)
    <3>1. IsFiniteSet(A) /\ IsFiniteSet(B) /\ A \cup {t} \in SUBSET B /\ t \notin A
      BY <2>5, <2>9
    <3> HIDE DEF A, B
    <3>2. Cardinality(A \cup {t}) = Cardinality(A) + 1
      BY <3>1, FS_AddElement
    <3>3. Cardinality(A \cup {t}) <= Cardinality(B)
      BY <3>1, FS_Subset
    <3> QED BY <3>2, <3>3 DEF A, B
  <2>12. Cardinality(upto(p.at)) + 1 = Cardinality(upto(i.at))
    BY <2>6
  <2>13. Cardinality(upto(t)) \in Nat /\ Cardinality(upto(p.at)) \in Nat
    BY <2>5
  <2>14. Cardinality(upto(t)) = Cardinality(upto(i.at))
    <3> HIDE DEF upto
    <3> QED BY <2>10, <2>11, <2>12, <2>13
  <2> QED BY <2>6, <2>14
<1> QED
  BY InitStore, NextStore, <1>1, PTL DEF Spec

-----------------------------------------------------------------------------
(***************************************************************************)
(* OOM kills.                                                               *)
(***************************************************************************)

\* Events that are sent do not make an oom matter again.
LEMMA SentRemembers ==
  ASSUME OOMInv, StoreInv', NEW es \in Seq(Events), NEW t \in Int, Happen(es, t), Sent(es, t)
  PROVE  Remembering' /\ OOMExplained'
<1>1. /\ now' = t /\ UNCHANGED <<oom, held, observed>>
      /\ queue' = IF stream = "open" THEN queue \o es ELSE queue
  BY DEF Happen, store
<1>2. /\ queue \in Seq(Events) /\ now \in Int /\ now < t /\ \A f \in ToSet(es) : now < f.at /\ f \in Events
  BY Members DEF OOMInv, StoreInv, FallInv, Typed, Sent
<1>3. ToSet(queue') \subseteq ToSet(queue) \cup ToSet(es)
  BY <1>1, <1>2, Members
<1>4. ASSUME NEW o \in observed, Past(o.e) PROVE Past(o.e)'
  <2>1. o.e \in Events
    BY DEF OOMInv, StoreInv, Timed, Known
  <2>2. o.e.at \in Int /\ OOMWindow \in Int
    BY <2>1, IncidentsAssumption DEF Events
  <2>3. t + 1 - o.e.at >= OOMWindow
    BY <1>2, <1>4, <2>2 DEF Past
  <2>4. ASSUME NEW f \in ToSet(es) PROVE f.at - o.e.at >= OOMWindow
    <3>1. now < f.at /\ f.at \in Int /\ now + 1 - o.e.at >= OOMWindow
      BY <1>2, <1>4 DEF Past, Events
    <3> QED BY <1>2, <2>2, <3>1
  <2> QED BY <1>1, <1>3, <1>4, <2>3, <2>4 DEF Past
<1>5. Remembering'
  <2>1. \A n \in Ids : oom'[n] # 0 =>
          isObserved(At(n)) /\ \E o \in observed' : /\ o.e.n = n /\ o.e.action = "oom" /\ o.e.at = oom'[n]
                                                   /\ Unanswered(o.e, observed')
    BY <1>1 DEF OOMInv, Remembering
  <2>2. \A o \in observed' :
          (o.e.action = "oom" /\ isObserved(At(o.e.n)) /\ Unanswered(o.e, observed')) =>
            oom'[o.e.n] >= o.e.at \/ Past(o.e)'
    BY <1>1, <1>4 DEF OOMInv, Remembering
  <2> QED BY <2>1, <2>2 DEF Remembering, Past
<1>6. OOMExplained'
  BY <1>1 DEF OOMInv, OOMExplained, Held
<1> QED BY <1>5, <1>6

\* Nor do the steps that take no event.
LEMMA StillRemembers ==
  ASSUME OOMInv, UNCHANGED <<now, oom, observed>>, ToSet(queue') \subseteq ToSet(queue),
         \A s \in Services : ToSet(held'[s]) \subseteq ToSet(held[s])
  PROVE  Remembering' /\ OOMExplained'
<1>1. \A o \in observed : Past(o.e) => Past(o.e)'
  BY DEF Past
<1>2. Remembering'
  <2>1. \A n \in Ids : oom'[n] # 0 =>
          isObserved(At(n)) /\ \E o \in observed' : /\ o.e.n = n /\ o.e.action = "oom" /\ o.e.at = oom'[n]
                                                   /\ Unanswered(o.e, observed')
    BY DEF OOMInv, Remembering
  <2>2. \A o \in observed' :
          (o.e.action = "oom" /\ isObserved(At(o.e.n)) /\ Unanswered(o.e, observed')) =>
            oom'[o.e.n] >= o.e.at \/ Past(o.e)'
    BY <1>1 DEF OOMInv, Remembering
  <2> QED BY <2>1, <2>2 DEF Remembering, Past
<1>3. Held' \subseteq Held
  BY DEF Held
<1>4. OOMExplained'
  BY <1>3 DEF OOMInv, OOMExplained
<1> QED BY <1>2, <1>4

\* A process that starts remembers nothing.
LEMMA RestartRemembers == ASSUME RestartWatcher PROVE Remembering' /\ OOMExplained'
<1>1. observed' = {} /\ oom' = [n \in Ids |-> 0] /\ held' = [s \in Services |-> <<>>]
  BY DEF RestartWatcher
<1>2. \A s \in Services : ToSet(held'[s]) = {}
  BY <1>1 DEF ToSet
<1>3. Held' = {}
  BY <1>2 DEF Held
<1> QED BY <1>1, <1>3 DEF Remembering, OOMExplained

\* What taking event e of the queue relates to.
Taking(e) ==
  /\ e \in Events /\ e \in ToSet(queue) /\ Observe(e) /\ UNCHANGED <<now>>
  /\ ToSet(queue') \subseteq ToSet(queue)
  /\ \A f \in ToSet(queue) : e.at - f.at <= 1
  /\ \A s \in Services : \A x \in ToSet(held'[s]) :
       x \in ToSet(held[s]) \/ (x \in Declares(e) /\ (e.action = "exit" => \A o \in observed : o.e # e))

\* The events taken before e, and e.
LEMMA TakingFacts ==
  ASSUME OOMInv, NEW e, Taking(e)
  PROVE  /\ e.n \in Ids /\ e.at \in Int /\ 0 < e.at /\ e.at <= now /\ now \in Int
         /\ \A o \in observed : o.e \in Events /\ o.e.at \in Int /\ 0 < o.e.at
         /\ \A o \in observed : o.e.n = e.n => o.e.at <= e.at
         /\ \A o \in observed : o.e.at = e.at => o.e = e
         /\ \E new \in observed' : new.e = e
         /\ \A o \in observed' : o \in observed \/ o.e = e
         /\ observed \subseteq observed'
<1>1. observed' = observed \cup {[e |-> e, inc |-> Declares(e)]}
  BY DEF Taking, Observe
<1>2. e \in Known /\ \A o \in observed : o.e \in Known
  BY DEF Taking, Known
<1>3. \A x \in Known : x \in Events /\ x.n \in Ids /\ x.at \in Int /\ 0 < x.at /\ x.at <= now
  BY DEF OOMInv, StoreInv, Timed, Events
<1>4. \A o \in observed : (o.e.n = e.n => o.e.at <= e.at) /\ (o.e.at = e.at => o.e = e)
  BY <1>2 DEF OOMInv, StoreInv, Timed, Taking
<1>5. \E new \in observed' : new.e = e
  <2> DEFINE new == [e |-> e, inc |-> Declares(e)]
  <2>1. new.e = e /\ new \in observed'
    BY <1>1
  <2> HIDE DEF new
  <2> QED BY <2>1
<1>6. \A o \in observed' : o \in observed \/ o.e = e
  BY <1>1
<1> QED BY <1>1, <1>2, <1>3, <1>4, <1>5, <1>6 DEF OOMInv, StoreInv, FallInv, Typed

\* What is remembered once e is taken.
LEMMA TakenRemembers ==
  ASSUME OOMInv, NEW e, Taking(e)
  PROVE  Remembering'
<1>1. /\ \A n \in Ids : \/ oom'[n] = oom[n]
                        \/ n = e.n /\ isObserved(At(n)) /\ e.action = "oom" /\ oom'[n] = e.at
                        \/ n = e.n /\ e.action = "exit" /\ oom'[n] = 0
                        \/ n # e.n /\ oom'[n] = 0 /\ e.action = "oom" /\ e.at - oom[n] > OOMWindow
      /\ isObserved(At(e.n)) => /\ e.action = "oom" => oom'[e.n] = e.at
                                /\ e.action = "exit" => oom'[e.n] = 0
  <2>1. e \in Events /\ oom \in [Ids -> Int] /\ healthy \subseteq Ids /\ Observe(e)
    BY DEF Taking, OOMInv, StoreInv, Shaped
  <2> QED BY <2>1, RemembersOOM
<1>2. /\ e.n \in Ids /\ e.at \in Int /\ 0 < e.at /\ e.at <= now /\ now \in Int
      /\ \A o \in observed : o.e \in Events /\ o.e.at \in Int /\ 0 < o.e.at
      /\ \A o \in observed : o.e.n = e.n => o.e.at <= e.at
      /\ \A o \in observed : o.e.at = e.at => o.e = e
      /\ \E new \in observed' : new.e = e
      /\ \A o \in observed' : o \in observed \/ o.e = e
      /\ observed \subseteq observed'
  BY TakingFacts
<1>3. oom \in [Ids -> Int]
  BY DEF OOMInv, StoreInv, Shaped
<1>4. ASSUME NEW n \in Ids, oom'[n] # 0
      PROVE  isObserved(At(n)) /\ \E o \in observed' : /\ o.e.n = n /\ o.e.action = "oom" /\ o.e.at = oom'[n]
                                                      /\ Unanswered(o.e, observed')
  <2>1. CASE oom'[n] = oom[n]
    <3>1. isObserved(At(n)) /\ \E o \in observed : /\ o.e.n = n /\ o.e.action = "oom" /\ o.e.at = oom[n]
                                                    /\ Unanswered(o.e, observed)
      BY <1>4, <2>1 DEF OOMInv, Remembering
    <3>2. ~(e.n = n /\ e.action = "exit")
      BY <1>1, <1>4, <3>1
    <3>3. PICK o \in observed : /\ o.e.n = n /\ o.e.action = "oom" /\ o.e.at = oom[n]
                                /\ Unanswered(o.e, observed)
      BY <3>1
    <3>4. Unanswered(o.e, observed')
      BY <1>2, <3>2, <3>3 DEF Unanswered
    <3> QED BY <1>2, <2>1, <3>1, <3>3, <3>4
  <2>2. CASE n = e.n /\ isObserved(At(n)) /\ e.action = "oom" /\ oom'[n] = e.at
    <3>1. PICK new \in observed' : new.e = e
      BY <1>2
    <3>2. Unanswered(e, observed')
      <4>1. ASSUME NEW p \in observed', p.e.n = e.n PROVE ~(e.at < p.e.at)
        <5>1. p.e.at <= e.at /\ p.e.at \in Int
          BY <1>2, <4>1
        <5> QED BY <1>2, <5>1
      <4> QED BY <4>1 DEF Unanswered
    <3> QED BY <2>2, <3>1, <3>2
  <2> QED BY <1>1, <1>4, <2>1, <2>2
<1>5. ASSUME NEW o \in observed', o.e.action = "oom", isObserved(At(o.e.n)), Unanswered(o.e, observed')
      PROVE  oom'[o.e.n] >= o.e.at \/ Past(o.e)'
  <2>1. CASE o.e = e
    BY <1>1, <1>2, <1>5, <2>1
  <2>2. CASE o.e # e
    <3> DEFINE n == o.e.n
               a == o.e.at
    <3>1. o \in observed /\ n \in Ids /\ a \in Int /\ 0 < a
      BY <1>2, <2>2 DEF Events
    <3>2. Unanswered(o.e, observed)
      BY <1>2, <1>5 DEF Unanswered
    <3>3. oom[n] >= a \/ Past(o.e)
      BY <1>5, <3>1, <3>2 DEF OOMInv, Remembering
    <3>4. Past(o.e) => Past(o.e)'
      BY DEF Past, Taking
    <3>5. ~(n = e.n /\ e.action = "exit")
      <4>1. n = e.n => a < e.at
        <5>1. a # e.at
          BY <1>2, <2>2, <3>1
        <5>2. n = e.n => a <= e.at
          BY <1>2, <3>1
        <5> QED BY <1>2, <3>1, <5>1, <5>2
      <4> QED BY <1>2, <1>5, <4>1 DEF Unanswered
    <3>6. n = e.n => a <= e.at
      BY <1>2, <3>1
    <3>7. CASE oom[n] >= a /\ n # e.n /\ e.at - oom[n] > OOMWindow
      <4>1. oom[n] \in Int /\ OOMWindow \in Int
        BY <1>3, <3>1, IncidentsAssumption
      <4>2. now + 1 - a >= OOMWindow
        BY <1>2, <3>1, <3>7, <4>1
      <4>3. ASSUME NEW f \in ToSet(queue) PROVE f.at - a >= OOMWindow
        <5>1. f.at \in Int /\ e.at - f.at <= 1
          BY DEF Taking, OOMInv, StoreInv, Timed, Known, Events
        <5> QED BY <1>2, <3>1, <3>7, <4>1, <5>1
      <4> QED BY <4>2, <4>3 DEF Past, Taking
    <3>8. CASE oom[n] >= a /\ oom'[n] = oom[n]
      BY <3>8
    <3>9. CASE n = e.n /\ oom'[n] = e.at
      BY <3>6, <3>9, <1>2, <3>1
    <3> QED BY <1>1, <3>1, <3>3, <3>4, <3>5, <3>7, <3>8, <3>9
  <2> QED BY <2>1, <2>2
<1> QED BY <1>4, <1>5 DEF Remembering, Past

\* What was said of an exit stands; what is said of e is true.
LEMMA TakenExplains ==
  ASSUME OOMInv, NEW e, Taking(e)
  PROVE  OOMExplained'
<1>1. /\ e.n \in Ids /\ e.at \in Int /\ 0 < e.at /\ e.at <= now /\ now \in Int
      /\ \A o \in observed : o.e \in Events /\ o.e.at \in Int /\ 0 < o.e.at
      /\ \A o \in observed : o.e.n = e.n => o.e.at <= e.at
      /\ \A o \in observed : o.e.at = e.at => o.e = e
      /\ \E new \in observed' : new.e = e
      /\ \A o \in observed' : o \in observed \/ o.e = e
      /\ observed \subseteq observed'
  BY TakingFacts
<1>2. oom \in [Ids -> Int] /\ StoreInv /\ e \in Events
  BY DEF OOMInv, StoreInv, Shaped, Taking
<1>3. ASSUME NEW i \in Held, i.kind = "exited" PROVE i.oom <=> OOMOf(i, observed')
  <2>1. i.oom <=> OOMOf(i, observed)
    BY <1>3 DEF OOMInv, OOMExplained, OOMOf
  <2>2. i.at \in Int /\ \E o \in observed : Of(i, o.e)
    BY <1>2, HeldFrom
  <2>3. i.n = e.n => i.at <= e.at
    BY <1>1, <2>2 DEF Of
  <2>4. i.n = e.n => ~(e.at < i.at)
    BY <1>1, <2>2, <2>3
  <2>5. \A o \in observed' : (o.e.n = i.n /\ o.e.at < i.at) => o \in observed \/ (o.e = e /\ FALSE)
    BY <1>1, <2>4
  <2>6. OOMOf(i, observed') <=> OOMOf(i, observed)
    BY <1>1, <2>5 DEF OOMOf
  <2> QED BY <2>1, <2>6
<1>4. ASSUME NEW i \in Declares(e), i.kind = "exited", \A o \in observed : o.e # e, e.action = "exit"
      PROVE  i.oom <=> OOMOf(i, observed')
  <2>1. Of(i, e) /\ i.oom = explains(oom[e.n], e.at)
    BY <1>2, <1>4, DeclaresOne
  <2>2. i.at = e.at /\ i.n = e.n /\ isObserved(At(e.n)) /\ oom[e.n] \in Int /\ OOMWindow \in Nat \ {0}
    BY <1>1, <1>2, <2>1, IncidentsAssumption DEF Of
  <2>3. \A o \in observed : o.e.n = e.n => o.e.at < e.at
    <3>1. ASSUME NEW o \in observed, o.e.n = e.n PROVE o.e.at < e.at
      <4>1. o.e.at <= e.at /\ o.e.at # e.at /\ o.e.at \in Int
        BY <1>1, <1>4, <3>1
      <4> QED BY <1>1, <4>1
    <3> QED BY <3>1
  <2>4. ASSUME oom[e.n] # 0
        PROVE  \E o \in observed : /\ o.e.n = e.n /\ o.e.action = "oom" /\ o.e.at = oom[e.n]
                                   /\ Unanswered(o.e, observed)
    BY <1>1, <2>4 DEF OOMInv, Remembering
  <2>5. ASSUME explains(oom[e.n], e.at) PROVE OOMOf(i, observed')
    <3>1. oom[e.n] # 0 /\ e.at - oom[e.n] < OOMWindow
      BY <2>5 DEF explains
    <3>2. PICK o \in observed : /\ o.e.n = e.n /\ o.e.action = "oom" /\ o.e.at = oom[e.n]
                                /\ Unanswered(o.e, observed)
      BY <2>4, <3>1
    <3>3. o.e.at < e.at /\ e.at - o.e.at < OOMWindow
      BY <2>3, <3>1, <3>2
    <3>4. ASSUME NEW p \in observed', p.e.n = e.n, p.e.action = "exit", o.e.at < p.e.at, p.e.at < e.at
          PROVE  FALSE
      <4>1. p.e # e
        BY <1>1, <3>4
      <4>2. p \in observed
        BY <1>1, <4>1
      <4> QED BY <3>2, <3>4, <4>2 DEF Unanswered
    <3> QED BY <1>1, <2>2, <3>2, <3>3, <3>4 DEF OOMOf
  <2>6. ASSUME OOMOf(i, observed') PROVE explains(oom[e.n], e.at)
    <3>1. PICK o \in observed' :
            /\ o.e.n = e.n /\ o.e.action = "oom" /\ o.e.at < e.at /\ e.at - o.e.at < OOMWindow
            /\ ~\E p \in observed' : p.e.n = e.n /\ p.e.action = "exit" /\ o.e.at < p.e.at /\ p.e.at < e.at
      BY <2>2, <2>6 DEF OOMOf
    <3>2. o \in observed /\ o.e.at \in Int /\ 0 < o.e.at
      <4>1. o.e # e
        BY <1>4, <3>1
      <4>2. o \in observed
        BY <1>1, <4>1
      <4> QED BY <1>1, <4>2
    <3>3. Unanswered(o.e, observed)
      BY <1>1, <2>3, <3>1 DEF Unanswered
    <3>4. oom[e.n] >= o.e.at \/ Past(o.e)
      BY <2>2, <3>1, <3>2, <3>3 DEF OOMInv, Remembering
    <3>5. ~Past(o.e)
      <4>1. Past(o.e) => e.at - o.e.at >= OOMWindow
        BY <3>1 DEF Past, Taking
      <4> QED BY <1>1, <2>2, <3>1, <3>2, <4>1
    <3>6. oom[e.n] >= o.e.at /\ oom[e.n] # 0
      BY <2>2, <3>2, <3>4, <3>5
    <3>7. oom[e.n] < e.at
      BY <2>3, <2>4, <3>6
    <3> QED BY <1>1, <2>2, <3>1, <3>2, <3>6, <3>7 DEF explains
  <2> QED BY <2>1, <2>5, <2>6
<1>5. ASSUME NEW i \in Held', i.kind = "exited" PROVE i.oom <=> OOMOf(i, observed')
  <2>1. PICK s \in Services : i \in ToSet(held'[s])
    BY DEF Held
  <2>2. i \in Held \/ (i \in Declares(e) /\ (e.action = "exit" => \A o \in observed : o.e # e))
    BY <2>1 DEF Taking, Held
  <2>3. CASE i \in Held
    BY <1>3, <1>5, <2>3
  <2>4. CASE i \in Declares(e) /\ (e.action = "exit" => \A o \in observed : o.e # e)
    <3>1. e.action = "exit"
      BY <1>2, <1>5, <2>4, DeclaresOne DEF Of
    <3> QED BY <1>4, <1>5, <2>4, <3>1
  <2> QED BY <2>2, <2>3, <2>4
<1> QED BY <1>5 DEF OOMExplained, OOMOf

\* Every step keeps the invariant of the ooms.
LEMMA NextOOM == ASSUME Skew <= 1, OOMInv, [Next]_vars PROVE OOMInv'
<1>1. StoreInv' /\ StoreInv /\ Typed /\ Shaped /\ Timed /\ Stored
  BY NextStore DEF OOMInv, StoreInv, FallInv
<1> SUFFICES Remembering' /\ OOMExplained'
  BY <1>1 DEF OOMInv
<1>2. CASE DockerNext /\ ~BreakStream
  BY <1>1, <1>2, SentSteps, SentRemembers
<1>3. CASE BreakStream \/ Subscribe
  <2>1. queue' = <<>> /\ UNCHANGED <<now, oom, observed, held>>
    BY <1>3 DEF BreakStream, Subscribe, docker, store
  <2>2. ToSet(queue') \subseteq ToSet(queue)
    BY <2>1 DEF ToSet
  <2> QED BY <2>1, <2>2, StillRemembers
<1>4. CASE RestartWatcher
  BY <1>4, RestartRemembers
<1>5. CASE List
  <2>1. UNCHANGED <<now, oom, observed, queue>> /\ \A s \in Services : ToSet(held'[s]) \subseteq ToSet(held[s])
    BY <1>1, <1>5, ListKeeps DEF List, docker
  <2> QED BY <2>1, StillRemembers
<1>6. CASE Pass \/ Tick \/ StreamError \/ UNCHANGED vars
  <2>1. UNCHANGED <<queue, now, observed, oom, held>>
    BY <1>1, <1>6, IdleKeeps
  <2> QED BY <2>1, StillRemembers
<1>7. ASSUME NEW i \in Deliverable, NoteIncident(i) PROVE Remembering' /\ OOMExplained'
  <2> DEFINE e == queue[i]
  <2>1. /\ i \in 1..Len(queue) /\ e \in ToSet(queue) /\ e \in Events
        /\ Observe(e) /\ UNCHANGED docker /\ ToSet(queue') \subseteq ToSet(queue)
        /\ \A s \in Services : \A x \in ToSet(held'[s]) :
             \/ x \in ToSet(held[s])
             \/ x \in Declares(e) /\ (e.action = "exit" => \A o \in observed : o.e # e)
    BY <1>1, <1>7, NoteKeeps
  <2>2. ASSUME NEW j \in 1..Len(queue) PROVE e.at - queue[j].at <= 1
    <3>1. queue \in Seq(Events) /\ queue[j] \in Events /\ Rising(queue) /\ Len(queue) \in Nat
      BY <1>1, ElementOfSeq, LenProperties DEF Typed, Timed
    <3>2. queue[j].at \in Int /\ e.at \in Int
      BY <2>1, <3>1 DEF Events
    <3>3. CASE j < i
      <4>1. j \in 1..(i - 1)
        BY <2>1, <3>1, <3>3
      <4>2. e.at - queue[j].at <= Skew
        BY <4>1 DEF Deliverable
      <4> QED BY <3>2, <4>2, IncidentsAssumption
    <3>4. CASE j = i
      BY <3>2, <3>4
    <3>5. CASE i < j
      <4>1. e.at < queue[j].at
        BY <2>1, <3>1, <3>5 DEF Rising
      <4> QED BY <3>2, <4>1
    <3> QED BY <2>1, <3>3, <3>4, <3>5
  <2> HIDE DEF e
  <2>3. \A f \in ToSet(queue) : e.at - f.at <= 1
    BY <1>1, <2>2, Members DEF Typed
  <2>4. Taking(e)
    BY <2>1, <2>3 DEF Taking, docker
  <2> QED BY <2>4, TakenRemembers, TakenExplains
<1> QED BY <1>1, <1>2, <1>3, <1>4, <1>5, <1>6, <1>7 DEF Next, WatcherNext

\* An exit is called an OOM kill exactly when an oom of its container came within the
\* window before it and no failure in between was put down to it - provided Docker swaps
\* only events of two containers that come right after one another: an oom event forgets
\* the older ooms of the others, and an exit it overtook by more would lose its own
\* (Observe).
THEOREM OOMsExplained == ASSUME Skew <= 1 PROVE Spec => []OOMExplained
<1>1. Init => OOMInv
  <2> SUFFICES ASSUME Init PROVE OOMInv
    OBVIOUS
  <2>1. observed = {} /\ oom = [n \in Ids |-> 0] /\ held = [s \in Services |-> <<>>]
    BY DEF Init, StoreInit
  <2>2. \A s \in Services : ToSet(held[s]) = {}
    BY <2>1 DEF ToSet
  <2>3. Held = {}
    BY <2>2 DEF Held
  <2> QED BY <2>1, <2>3, InitStore DEF OOMInv, Remembering, OOMExplained
<1>2. OOMInv /\ [Next]_vars => OOMInv'
  BY NextOOM
<1>3. OOMInv => OOMExplained
  BY DEF OOMInv
<1> QED
  BY <1>1, <1>2, <1>3, PTL DEF Spec
====
