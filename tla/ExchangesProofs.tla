--------------------------- MODULE ExchangesProofs ---------------------------
(***************************************************************************)
(* What holds of the Inspection hop for every budget, every number of        *)
(* requests and reports and every policy header: a held Exchange has both of *)
(* its halves, the byte count is the sum of what is held, over the budget    *)
(* only for a single Exchange, the store holds something as new as any open  *)
(* request, and every page sent admits the agent.                            *)
(***************************************************************************)
EXTENDS Exchanges, FiniteSetTheorems, SequenceTheorems, WellFoundedInduction, TLAPS

-----------------------------------------------------------------------------
(***************************************************************************)
(* Naturals.                                                                *)
(***************************************************************************)
\* A set of naturals that is not empty has a least element.
LEMMA LeastNatural ==
  ASSUME NEW S \in SUBSET Nat, S # {}
  PROVE  \E x \in S : \A y \in S : x <= y
<1> DEFINE R == OpToRel(<, Nat)
<1>1. IsWellFoundedOn(R, Nat)
  BY NatLessThanWellFounded
<1>2. PICK x \in S : \A y \in S : <<y, x>> \notin R
  <2> HIDE DEF R
  <2> QED BY <1>1, WFMin
<1>3. ASSUME NEW y \in S PROVE x <= y
  <2>1. x \in Nat /\ y \in Nat
    OBVIOUS
  <2>2. <<y, x>> \in Nat \X Nat /\ <<y, x>>[1] = y /\ <<y, x>>[2] = x
    BY <2>1
  <2>3. ~(y < x)
    BY <1>2, <2>2, Zenon DEF OpToRel
  <2> QED BY <2>1, <2>3
<1> QED BY <1>3

\* A set of naturals that has 0, and the successor of each of its members, has them all.
LEMMA SetInduction ==
  ASSUME NEW G \in SUBSET Nat, 0 \in G, \A n \in G : n + 1 \in G
  PROVE  G = Nat
<1> SUFFICES ASSUME Nat \ G # {} PROVE FALSE
  OBVIOUS
<1>1. PICK x \in Nat \ G : \A y \in Nat \ G : x <= y
  BY LeastNatural
<1>2. x # 0 /\ x - 1 \in Nat /\ ~(x <= x - 1)
  OBVIOUS
<1>3. x - 1 \in G
  BY <1>1, <1>2
<1> QED BY <1>1, <1>2, <1>3

\* What Min chooses from naturals.
LEMMA MinIsMember ==
  ASSUME NEW S \in SUBSET Nat, S # {}
  PROVE  Min(S) \in S /\ \A y \in S : Min(S) <= y
BY LeastNatural DEF Min

-----------------------------------------------------------------------------
(***************************************************************************)
(* Finite sets.                                                             *)
(***************************************************************************)
\* Induction over the subsets of D: what holds of no element, and of a set when it
\* holds of the set without some element of it, holds of each.
LEMMA PickInduction ==
  ASSUME NEW D, IsFiniteSet(D), NEW P \in SUBSET SUBSET D, {} \in P,
         \A q \in SUBSET D : q # {} => \E x \in q : q \ {x} \in P => q \in P
  PROVE  P = SUBSET D
<1> DEFINE G == {n \in Nat : \A q \in SUBSET D : Cardinality(q) = n => q \in P}
<1>1. \A q \in SUBSET D : IsFiniteSet(q) /\ Cardinality(q) \in Nat
  BY FS_Subset, FS_CardinalityType
<1>2. 0 \in G
  <2>1. \A q \in SUBSET D : Cardinality(q) = 0 => q = {}
    BY <1>1, FS_EmptySet
  <2> QED BY <2>1
<1>3. ASSUME NEW n \in G PROVE n + 1 \in G
  <2>1. ASSUME NEW q \in SUBSET D, Cardinality(q) = n + 1 PROVE q \in P
    <3>1. q # {}
      BY <2>1, FS_EmptySet
    <3>2. PICK x \in q : q \ {x} \in P => q \in P
      BY <3>1
    <3>3. Cardinality(q \ {x}) = n
      <4>1. Cardinality(q \ {x}) = Cardinality(q) - 1
        BY <1>1, <3>1, FS_RemoveElement
      <4> QED BY <2>1, <4>1
    <3> QED BY <3>2, <3>3
  <2> QED BY <2>1
<1>4. G = Nat
  <2>1. G \in SUBSET Nat
    OBVIOUS
  <2> HIDE DEF G
  <2> QED BY <1>2, <1>3, <2>1, SetInduction
<1> QED BY <1>1, <1>4

\* The same, whichever element is left out.
LEMMA SubsetInduction ==
  ASSUME NEW D, IsFiniteSet(D), NEW P \in SUBSET SUBSET D, {} \in P,
         \A q \in SUBSET D : \A x \in q : q \ {x} \in P => q \in P
  PROVE  P = SUBSET D
<1>1. \A q \in SUBSET D : q # {} => \E x \in q : q \ {x} \in P => q \in P
  OBVIOUS
<1> QED BY <1>1, PickInduction

\* The image of a finite set is finite.
LEMMA ImageFinite ==
  ASSUME NEW D, IsFiniteSet(D), NEW f
  PROVE  IsFiniteSet({f[x] : x \in D})
<1>1. [x \in D |-> f[x]] \in Surjection(D, {f[x] : x \in D})
  BY DEF Surjection
<1> QED BY <1>1, FS_Surjection

\* What Max chooses from a finite set of naturals.
LEMMA MaxIsMember ==
  ASSUME NEW S \in SUBSET Nat, S # {}, IsFiniteSet(S)
  PROVE  Max(S) \in S /\ \A y \in S : y <= Max(S)
<1> DEFINE P == {q \in SUBSET S : q # {} => \E m \in q : \A y \in q : y <= m}
<1>1. ASSUME NEW q \in SUBSET S, NEW x \in q, q \ {x} \in P PROVE q \in P
  <2>1. CASE q \ {x} = {}
    <3>1. \A y \in q : y = x /\ x \in Nat
      BY <2>1
    <3> QED BY <3>1
  <2>2. CASE q \ {x} # {}
    <3>1. PICK m \in q \ {x} : \A y \in q \ {x} : y <= m
      BY <1>1, <2>2
    <3>2. x \in Nat /\ m \in Nat /\ q \subseteq Nat
      OBVIOUS
    <3>3. \E n \in {m, x} : \A y \in q : y <= n
      BY <3>1, <3>2
    <3> QED BY <3>3
  <2> QED BY <2>1, <2>2
<1>2. P = SUBSET S
  <2>1. P \in SUBSET SUBSET S /\ {} \in P
    OBVIOUS
  <2> HIDE DEF P
  <2> QED BY <1>1, <2>1, SubsetInduction
<1>3. PICK m \in S : \A y \in S : m >= y
  BY <1>2
<1>4. Max(S) \in S /\ \A y \in S : Max(S) >= y
  BY <1>3 DEF Max
<1> QED BY <1>4

-----------------------------------------------------------------------------
(***************************************************************************)
(* Recursive functions on the subsets of a finite set.                      *)
(***************************************************************************)
\* The subsets of D with at most n elements.
UpTo(D, n) == {q \in SUBSET D : Cardinality(q) <= n}

\* g is what base, the element pick takes out of a set and h make of the sets in Q.
Recurs(g, Q, base, pick, h) ==
  \A q \in Q : g[q] = IF q = {} THEN base ELSE h[<<pick[q], g[q \ {pick[q]}]>>]

\* What base, pick and h describe exists.
LEMMA RecursiveExists ==
  ASSUME NEW D, IsFiniteSet(D), NEW V, NEW base \in V, NEW pick, NEW h \in [D \X V -> V],
         \A q \in SUBSET D : q # {} => pick[q] \in q
  PROVE  \E g \in [SUBSET D -> V] : Recurs(g, SUBSET D, base, pick, h)
<1> DEFINE G == {n \in Nat : \E g \in [UpTo(D, n) -> V] : Recurs(g, UpTo(D, n), base, pick, h)}
<1>1. \A q \in SUBSET D : IsFiniteSet(q) /\ Cardinality(q) \in Nat
  BY FS_Subset, FS_CardinalityType
<1>2. 0 \in G
  <2>1. \A q \in UpTo(D, 0) : q = {}
    BY <1>1, FS_EmptySet DEF UpTo
  <2>2. [q \in UpTo(D, 0) |-> base] \in [UpTo(D, 0) -> V] /\ Recurs([q \in UpTo(D, 0) |-> base], UpTo(D, 0), base, pick, h)
    BY <2>1 DEF Recurs
  <2> QED BY <2>2
<1>3. ASSUME NEW n \in G PROVE n + 1 \in G
  <2>1. PICK f \in [UpTo(D, n) -> V] : Recurs(f, UpTo(D, n), base, pick, h)
    OBVIOUS
  <2> DEFINE g == [q \in UpTo(D, n + 1) |-> IF q = {} THEN base ELSE h[<<pick[q], f[q \ {pick[q]}]>>]]
  <2>2. ASSUME NEW q \in UpTo(D, n + 1), q # {}
        PROVE  pick[q] \in D /\ q \ {pick[q]} \in UpTo(D, n) /\ q \ {pick[q]} \in UpTo(D, n + 1)
    <3>1. q \in SUBSET D /\ pick[q] \in q
      BY <2>2 DEF UpTo
    <3>2. Cardinality(q \ {pick[q]}) = Cardinality(q) - 1 /\ Cardinality(q) \in Nat
      BY <1>1, <3>1, FS_RemoveElement
    <3> QED BY <3>1, <3>2 DEF UpTo
  <2>3. g \in [UpTo(D, n + 1) -> V]
    <3>1. ASSUME NEW q \in UpTo(D, n + 1), q # {} PROVE h[<<pick[q], f[q \ {pick[q]}]>>] \in V
      BY <2>2, <3>1
    <3> QED BY <3>1
  <2>4. \A q \in UpTo(D, n) : q \in UpTo(D, n + 1) /\ g[q] = f[q]
    <3>1. \A q \in UpTo(D, n) : q \in UpTo(D, n + 1)
      BY <1>1 DEF UpTo
    <3> QED BY <2>1, <3>1 DEF Recurs
  <2>5. Recurs(g, UpTo(D, n + 1), base, pick, h)
    <3>1. ASSUME NEW q \in UpTo(D, n + 1), q # {}
          PROVE  g[q] = h[<<pick[q], g[q \ {pick[q]}]>>]
      <4>1. g[q \ {pick[q]}] = f[q \ {pick[q]}]
        BY <2>2, <2>4, <3>1
      <4>2. g[q] = h[<<pick[q], f[q \ {pick[q]}]>>]
        BY <3>1
      <4> HIDE DEF g
      <4> QED BY <4>1, <4>2
    <3>2. \A q \in UpTo(D, n + 1) : q = {} => g[q] = base
      OBVIOUS
    <3> HIDE DEF g
    <3> QED BY <3>1, <3>2 DEF Recurs
  <2> HIDE DEF g
  <2> QED BY <2>3, <2>5
<1> HIDE DEF G
<1>4. G = Nat
  <2>1. G \in SUBSET Nat
    BY DEF G
  <2> QED BY <1>2, <1>3, <2>1, SetInduction
<1>5. Cardinality(D) \in G /\ UpTo(D, Cardinality(D)) = SUBSET D
  <2>1. Cardinality(D) \in Nat
    BY FS_CardinalityType
  <2>2. \A q \in SUBSET D : Cardinality(q) <= Cardinality(D)
    BY FS_Subset
  <2> QED BY <1>4, <2>1, <2>2 DEF UpTo
<1>6. PICK g \in [UpTo(D, Cardinality(D)) -> V] : Recurs(g, UpTo(D, Cardinality(D)), base, pick, h)
  BY <1>5 DEF G
<1>7. g \in [SUBSET D -> V] /\ Recurs(g, SUBSET D, base, pick, h)
  BY <1>5, <1>6, Zenon
<1> QED BY <1>7

-----------------------------------------------------------------------------
(***************************************************************************)
(* Sums: F adds up w over the subsets of D.                                 *)
(***************************************************************************)
Adds(F, D, w) ==
  /\ IsFiniteSet(D) /\ w \in [D -> Int] /\ F \in [SUBSET D -> Int] /\ F[{}] = 0
  /\ \A q \in SUBSET D : \A x \in q : F[q] = w[x] + F[q \ {x}]

\* The equation a fold with + is defined by.
Folds(F, D, w) ==
  F = [q \in SUBSET D |-> IF q = {} THEN 0
                          ELSE w[CHOOSE x \in q : TRUE] + F[q \ {CHOOSE x \in q : TRUE}]]

\* Every weight has a fold.
LEMMA SumExists ==
  ASSUME NEW D, IsFiniteSet(D), NEW w \in [D -> Int]
  PROVE  \E F : Folds(F, D, w)
<1> DEFINE pick == [q \in SUBSET D |-> CHOOSE x \in q : TRUE]
           h == [p \in D \X Int |-> w[p[1]] + p[2]]
<1>1. h \in [D \X Int -> Int]
  OBVIOUS
<1>2. \A q \in SUBSET D : q # {} => pick[q] \in q
  OBVIOUS
<1>3. \A x \in D, v \in Int : h[<<x, v>>] = w[x] + v
  OBVIOUS
<1>4. \A q \in SUBSET D : pick[q] = CHOOSE x \in q : TRUE
  OBVIOUS
<1> HIDE DEF pick, h
<1>5. PICK F \in [SUBSET D -> Int] : Recurs(F, SUBSET D, 0, pick, h)
  <2>1. 0 \in Int
    OBVIOUS
  <2> QED BY <1>1, <1>2, <2>1, RecursiveExists
<1>6. ASSUME NEW q \in SUBSET D, q # {}
      PROVE  F[q] = w[CHOOSE x \in q : TRUE] + F[q \ {CHOOSE x \in q : TRUE}]
  <2>1. pick[q] \in D /\ q \ {pick[q]} \in SUBSET D
    BY <1>2, <1>6
  <2>2. F[q] = h[<<pick[q], F[q \ {pick[q]}]>>]
    BY <1>5, <1>6 DEF Recurs
  <2>3. F[q] = w[pick[q]] + F[q \ {pick[q]}]
    BY <1>3, <2>1, <2>2
  <2> QED BY <1>4, <2>3
<1>7. F[{}] = 0
  BY <1>5 DEF Recurs
<1>8. ASSUME NEW q \in SUBSET D
      PROVE  F[q] = IF q = {} THEN 0
                    ELSE w[CHOOSE x \in q : TRUE] + F[q \ {CHOOSE x \in q : TRUE}]
  <2>1. CASE q = {}
    BY <1>7, <2>1
  <2>2. CASE q # {}
    BY <1>6, <2>2
  <2> QED BY <2>1, <2>2
<1>9. F = [q \in SUBSET D |-> F[q]]
  BY <1>5
<1>10. F = [q \in SUBSET D |-> IF q = {} THEN 0
                               ELSE w[CHOOSE x \in q : TRUE] + F[q \ {CHOOSE x \in q : TRUE}]]
  BY <1>8, <1>9
<1>11. Folds(F, D, w)
  BY <1>10, Zenon DEF Folds
<1> QED BY <1>11

\* In whatever order the fold takes the elements, it adds up all of them.
LEMMA FoldAdds ==
  ASSUME NEW D, IsFiniteSet(D), NEW w \in [D -> Int], NEW F, Folds(F, D, w)
  PROVE  Adds(F, D, w)
<1> DEFINE c(q) == CHOOSE x \in q : TRUE
           Good(q) == F[q] \in Int /\ \A x \in q : F[q] = w[x] + F[q \ {x}]
           G == {n \in Nat : \A q \in SUBSET D : Cardinality(q) <= n => Good(q)}
<1>1. F[{}] = 0 /\ \A q \in SUBSET D : q # {} => c(q) \in q /\ F[q] = w[c(q)] + F[q \ {c(q)}]
  BY DEF Folds
<1>2. \A q \in SUBSET D : IsFiniteSet(q) /\ Cardinality(q) \in Nat
  BY FS_Subset, FS_CardinalityType
<1> HIDE DEF c
<1>3. 0 \in G
  <2>1. \A q \in SUBSET D : Cardinality(q) <= 0 => q = {}
    BY <1>2, FS_EmptySet
  <2>2. Good({})
    BY <1>1
  <2> HIDE DEF Good
  <2> QED BY <2>1, <2>2
<1>4. ASSUME NEW n \in G PROVE n + 1 \in G
  <2>1. ASSUME NEW q \in SUBSET D, Cardinality(q) <= n + 1, NEW x \in q
        PROVE  Cardinality(q \ {x}) <= n /\ q \ {x} \in SUBSET D /\ Good(q \ {x})
    <3>1. Cardinality(q \ {x}) = Cardinality(q) - 1 /\ Cardinality(q) \in Nat
      BY <1>2, FS_RemoveElement
    <3>2. Cardinality(q \ {x}) <= n
      BY <2>1, <3>1
    <3> HIDE DEF Good
    <3> QED BY <3>2
  <2>2. ASSUME NEW q \in SUBSET D, Cardinality(q) <= n + 1 PROVE Good(q)
    <3>1. CASE q = {}
      BY <1>1, <3>1
    <3>2. CASE q # {}
      <4>1. c(q) \in q /\ F[q] = w[c(q)] + F[q \ {c(q)}] /\ w[c(q)] \in Int
        BY <1>1, <3>2
      <4>2. F[q \ {c(q)}] \in Int
        BY <2>1, <2>2, <4>1
      <4>3. ASSUME NEW x \in q, x # c(q) PROVE F[q] = w[x] + F[q \ {x}]
        <5> DEFINE r == (q \ {x}) \ {c(q)}
        <5>1. Good(q \ {x}) /\ Good(q \ {c(q)}) /\ q \ {x} \in SUBSET D
          BY <2>1, <2>2, <4>1
        <5>2. x \in q \ {c(q)} /\ c(q) \in q \ {x} /\ (q \ {c(q)}) \ {x} = r
          BY <4>1, <4>3
        <5>3. F[q \ {c(q)}] = w[x] + F[r] /\ F[q \ {x}] = w[c(q)] + F[r]
          BY <5>1, <5>2
        <5>4. Cardinality(q \ {x}) <= n
          BY <2>1, <2>2
        <5>5. Cardinality(q \ {x}) <= n + 1
          BY <1>2, <5>1, <5>4
        <5>6. Good(r)
          <6> HIDE DEF Good
          <6> QED BY <2>1, <5>1, <5>2, <5>5
        <5>7. w[x] \in Int /\ F[r] \in Int
          BY <5>6
        <5> HIDE DEF r
        <5> QED BY <4>1, <5>3, <5>7
      <4>4. F[q] \in Int
        BY <4>1, <4>2
      <4> QED BY <4>1, <4>3, <4>4
    <3> QED BY <3>1, <3>2
  <2> HIDE DEF Good
  <2> QED BY <2>2
<1>5. G = Nat
  <2>1. G \in SUBSET Nat
    OBVIOUS
  <2> HIDE DEF G
  <2> QED BY <1>3, <1>4, <2>1, SetInduction
<1>6. \A q \in SUBSET D : Good(q)
  BY <1>2, <1>5
<1>7. F \in [SUBSET D -> Int]
  BY <1>6 DEF Folds
<1> QED BY <1>1, <1>6, <1>7 DEF Adds

\* Nothing negative adds up to nothing negative.
LEMMA SumNatural ==
  ASSUME NEW D, NEW w, NEW F, Adds(F, D, w), \A x \in D : w[x] \in Nat
  PROVE  \A q \in SUBSET D : F[q] \in Nat
<1> DEFINE P == {q \in SUBSET D : F[q] \in Nat}
<1>1. {} \in P
  BY DEF Adds
<1>2. ASSUME NEW q \in SUBSET D, NEW x \in q, q \ {x} \in P PROVE q \in P
  <2>1. F[q] = w[x] + F[q \ {x}] /\ w[x] \in Nat
    BY DEF Adds
  <2> QED BY <1>2, <2>1
<1>3. P = SUBSET D
  <2>1. P \in SUBSET SUBSET D /\ IsFiniteSet(D)
    BY DEF Adds
  <2> HIDE DEF P
  <2> QED BY <1>1, <1>2, <2>1, SubsetInduction
<1> QED BY <1>3

\* What two disjoint sets add up to together.
LEMMA SumSplit ==
  ASSUME NEW D, NEW w, NEW F, Adds(F, D, w), NEW p \in SUBSET D, NEW q \in SUBSET D, p \cap q = {}
  PROVE  F[p \cup q] = F[p] + F[q]
<1> DEFINE P == {s \in SUBSET D : s \cap p = {} => F[p \cup s] = F[p] + F[s]}
<1>0. \A s \in SUBSET D : F[s] \in Int
  BY DEF Adds
<1>1. {} \in P
  <2>1. F[{}] = 0 /\ p \cup {} = p
    BY DEF Adds
  <2> QED BY <1>0, <2>1
<1>2. ASSUME NEW s \in SUBSET D, NEW x \in s, s \ {x} \in P, s \cap p = {}
      PROVE  F[p \cup s] = F[p] + F[s]
  <2>1. F[p \cup (s \ {x})] = F[p] + F[s \ {x}]
    BY <1>2
  <2>2. x \in p \cup s /\ (p \cup s) \ {x} = p \cup (s \ {x}) /\ p \cup s \in SUBSET D
    BY <1>2
  <2>3. F[p \cup s] = w[x] + F[p \cup (s \ {x})]
    BY <2>2 DEF Adds
  <2>4. F[s] = w[x] + F[s \ {x}] /\ w[x] \in Int
    BY DEF Adds
  <2>5. s \ {x} \in SUBSET D
    OBVIOUS
  <2> QED BY <1>0, <2>1, <2>3, <2>4, <2>5
<1>3. P = SUBSET D
  <2>1. P \in SUBSET SUBSET D /\ IsFiniteSet(D)
    BY DEF Adds
  <2>2. \A s \in SUBSET D : \A x \in s : s \ {x} \in P => s \in P
    BY <1>2
  <2> HIDE DEF P
  <2> QED BY <1>1, <2>1, <2>2, SubsetInduction
<1> QED BY <1>3

\* The same weights at other places add up to the same.
LEMMA SumMoved ==
  ASSUME NEW D, NEW E, NEW w, NEW v, NEW F, NEW G, Adds(F, D, w), Adds(G, E, v),
         NEW q \in SUBSET D, NEW p \in SUBSET E, NEW m,
         \A x \in q : m[x] \in p /\ v[m[x]] = w[x],
         \A x, y \in q : m[x] = m[y] => x = y,
         \A y \in p : \E x \in q : m[x] = y
  PROVE  G[p] = F[q]
<1> DEFINE moved(s) == {m[x] : x \in s}
           P == {s \in SUBSET D : s \subseteq q => G[moved(s)] = F[s]}
<1>1. {} \in P
  <2>1. moved({}) = {}
    OBVIOUS
  <2> QED BY <2>1 DEF Adds
<1>2. ASSUME NEW s \in SUBSET D, NEW x \in s, s \ {x} \in P, s \subseteq q
      PROVE  G[moved(s)] = F[s]
  <2>1. G[moved(s \ {x})] = F[s \ {x}]
    BY <1>2
  <2>2. F[s] = w[x] + F[s \ {x}]
    BY DEF Adds
  <2>3. moved(s) \in SUBSET E /\ m[x] \in moved(s) /\ v[m[x]] = w[x]
    BY <1>2
  <2>4. moved(s) \ {m[x]} = moved(s \ {x})
    <3>1. \A y \in s : m[y] = m[x] => y = x
      BY <1>2
    <3> QED BY <3>1
  <2> HIDE DEF moved
  <2>5. G[moved(s)] = v[m[x]] + G[moved(s) \ {m[x]}]
    BY <2>3 DEF Adds
  <2> QED BY <2>1, <2>2, <2>3, <2>4, <2>5
<1>3. P = SUBSET D
  <2>1. P \in SUBSET SUBSET D /\ IsFiniteSet(D)
    BY DEF Adds
  <2>2. \A s \in SUBSET D : \A x \in s : s \ {x} \in P => s \in P
    BY <1>2
  <2> HIDE DEF P
  <2> QED BY <1>1, <2>1, <2>2, SubsetInduction
<1>4. G[moved(q)] = F[q]
  BY <1>3
<1>5. moved(q) = p
  OBVIOUS
<1> QED BY <1>4, <1>5

\* What one element adds.
LEMMA SumTaken ==
  ASSUME NEW D, NEW w, NEW F, Adds(F, D, w), NEW x \in D
  PROVE  F[D] = w[x] + F[D \ {x}] /\ F[D \ {x}] \in Int
BY DEF Adds

-----------------------------------------------------------------------------
(***************************************************************************)
(* Selections: a fold that appends the members of C it meets.               *)
(***************************************************************************)
\* The equation such a fold over s is defined by.
Selects(F, s, C) ==
  F = [q \in SUBSET (DOMAIN s) |->
         IF q = {} THEN <<>>
         ELSE IF s[Max(q)] \in C THEN Append(F[q \ {Max(q)}], s[Max(q)]) ELSE F[q \ {Max(q)}]]

\* out is what s has in C among its first k members, in order: f says where each was.
Found(out, s, C, k, f) ==
  /\ f \in [1..Len(out) -> 1..k]
  /\ \A i, j \in 1..Len(out) : i < j => f[i] < f[j]
  /\ \A i \in 1..Len(out) : out[i] = s[f[i]] /\ s[f[i]] \in C
  /\ \A j \in 1..k : s[j] \in C => \E i \in 1..Len(out) : f[i] = j

\* out is what s has in C, in order.
Selection(out, s, C) == \E f : Found(out, s, C, Len(s), f)

\* The last place of some.
LEMMA LastPlace ==
  ASSUME NEW n \in Nat, NEW q \in SUBSET (1..n), q # {}
  PROVE  Max(q) \in q
<1> DEFINE D == 1..n
<1>1. IsFiniteSet(D) /\ q \subseteq D /\ q \in SUBSET Nat
  <2>1. IsFiniteSet(D)
    BY FS_Interval
  <2> QED BY <2>1
<1> HIDE DEF D
<1>2. IsFiniteSet(q)
  BY <1>1, FS_Subset
<1> QED BY <1>1, <1>2, MaxIsMember

\* The fold exists.
LEMMA SelectsExists ==
  ASSUME NEW S, NEW s \in Seq(S), NEW C
  PROVE  \E F : Selects(F, s, C)
<1> DEFINE D == DOMAIN s
           V == Seq(S)
           base == <<>>
           pick == [q \in SUBSET D |-> Max(q)]
           h == [p \in D \X V |-> IF s[p[1]] \in C THEN Append(p[2], s[p[1]]) ELSE p[2]]
<1>1. D = 1..Len(s) /\ Len(s) \in Nat /\ IsFiniteSet(D)
  <2>1. D = 1..Len(s) /\ Len(s) \in Nat
    BY LenProperties
  <2> HIDE DEF D
  <2> QED BY <2>1, FS_Interval
<1>2. \A q \in SUBSET D : q # {} => Max(q) \in q
  BY <1>1, LastPlace
<1>3. \A i \in D, out \in V : Append(out, s[i]) \in V
  BY <1>1, ElementOfSeq, AppendProperties
<1>4. base \in V
  BY EmptySeq
<1> HIDE DEF D, V, base
<1>5. h \in [D \X V -> V]
  BY <1>3
<1>6. \A i \in D, out \in V : h[<<i, out>>] = IF s[i] \in C THEN Append(out, s[i]) ELSE out
  OBVIOUS
<1>7. \A q \in SUBSET D : pick[q] = Max(q)
  OBVIOUS
<1> HIDE DEF pick, h
<1>8. PICK g \in [SUBSET D -> V] : Recurs(g, SUBSET D, base, pick, h)
  <2>1. \A q \in SUBSET D : q # {} => pick[q] \in q
    BY <1>2, <1>7
  <2> QED BY <1>1, <1>4, <1>5, <2>1, RecursiveExists
<1>9. ASSUME NEW q \in SUBSET D, q # {}
      PROVE  g[q] = IF s[Max(q)] \in C THEN Append(g[q \ {Max(q)}], s[Max(q)]) ELSE g[q \ {Max(q)}]
  <2>1. Max(q) \in D /\ q \ {Max(q)} \in SUBSET D /\ g[q \ {Max(q)}] \in V
    BY <1>2, <1>8, <1>9
  <2>2. g[q] = h[<<Max(q), g[q \ {Max(q)}]>>]
    BY <1>7, <1>8, <1>9 DEF Recurs
  <2> QED BY <1>6, <2>1, <2>2
<1>10. g[{}] = <<>> /\ g = [q \in SUBSET D |-> g[q]]
  BY <1>8 DEF Recurs, base
<1>11. Selects(g, s, C)
  BY <1>9, <1>10 DEF Selects, D
<1> QED BY <1>11

\* What it makes of s is the selection.
LEMMA SelectsSelection ==
  ASSUME NEW S, NEW s \in Seq(S), NEW C, NEW F, Selects(F, s, C)
  PROVE  F[DOMAIN s] \in Seq(S) /\ Selection(F[DOMAIN s], s, C)
<1> DEFINE n == Len(s)
           D == DOMAIN s
           Done(k) == F[1..k] \in Seq(S) /\ \E f : Found(F[1..k], s, C, k, f)
           G == {k \in Nat : k <= n => Done(k)}
<1>1. n \in Nat /\ D = 1..n
  BY LenProperties
<1>2. F[{}] = <<>>
  BY DEF Selects
<1>3. 0 \in G
  <2>1. 1..0 = {} /\ F[1..0] = <<>>
    BY <1>2
  <2>2. Len(<<>>) = 0 /\ <<>> \in Seq(S)
    BY EmptySeq
  <2>3. [i \in 1..0 |-> 0] \in [1..0 -> 1..0]
    BY <2>1
  <2>4. Found(<<>>, s, C, 0, [i \in 1..0 |-> 0])
    BY <2>1, <2>2, <2>3 DEF Found
  <2> QED BY <2>1, <2>2, <2>4
<1>4. ASSUME NEW k \in G PROVE k + 1 \in G
  <2> SUFFICES ASSUME k + 1 <= n PROVE Done(k + 1)
    OBVIOUS
  <2> DEFINE out == F[1..k]
             x == s[k + 1]
             new == F[1..(k + 1)]
  <2>1. Done(k) /\ k \in Nat
    BY <1>1
  <2>2. PICK f : Found(out, s, C, k, f)
    BY <2>1
  <2>3. out \in Seq(S) /\ Len(out) \in Nat /\ x \in S
    <3>1. k + 1 \in 1..Len(s)
      BY <1>1
    <3> QED BY <2>1, <3>1, ElementOfSeq, LenProperties
  <2>4. new = IF x \in C THEN Append(out, x) ELSE out
    <3> DEFINE q == 1..(k + 1)
    <3>0. k + 1 \in Int
      BY <2>1
    <3>1. q \in SUBSET D /\ q # {} /\ q \in SUBSET Nat /\ IsFiniteSet(q)
      <4>1. IsFiniteSet(q)
        BY <3>0, FS_Interval
      <4>2. q \in SUBSET D /\ q # {} /\ q \in SUBSET Nat
        BY <1>1, <2>1
      <4> QED BY <4>1, <4>2
    <3>2. \A y \in q : y <= k + 1
      OBVIOUS
    <3>3. k + 1 \in q /\ q \ {k + 1} = 1..k
      BY <2>1
    <3> HIDE DEF q
    <3>4. Max(q) \in q /\ \A y \in q : y <= Max(q)
      BY <3>1, MaxIsMember
    <3>5. Max(q) = k + 1
      BY <2>1, <3>1, <3>2, <3>3, <3>4
    <3>6. F[q] = IF s[Max(q)] \in C THEN Append(F[q \ {Max(q)}], s[Max(q)]) ELSE F[q \ {Max(q)}]
      BY <3>1 DEF Selects
    <3> QED BY <3>3, <3>5, <3>6 DEF q
  <2> HIDE DEF out, x, new
  <2>5. CASE x \notin C
    <3>1. \A j \in 1..(k + 1) : j \in 1..k \/ j = k + 1
      BY <2>1
    <3>2. 1..k \subseteq 1..(k + 1)
      BY <2>1
    <3>3. Found(out, s, C, k + 1, f)
      BY <2>2, <2>5, <3>1, <3>2 DEF Found, x
    <3> QED BY <2>3, <2>4, <2>5, <3>3 DEF new
  <2>6. CASE x \in C
    <3> DEFINE m == Len(out)
               g == [i \in 1..(m + 1) |-> IF i = m + 1 THEN k + 1 ELSE f[i]]
    <3>1. new = Append(out, x)
      BY <2>4, <2>6
    <3>2. /\ new \in Seq(S) /\ Len(new) = m + 1 /\ new[m + 1] = x
          /\ \A i \in 1..m : new[i] = out[i]
      BY <2>3, <3>1, AppendProperties
    <3>3. \A i \in 1..(m + 1) : i \in 1..m \/ i = m + 1
      BY <2>3
    <3>4. \A i \in 1..m : f[i] \in 1..k /\ f[i] \in 1..(k + 1) /\ f[i] < k + 1 /\ i # m + 1 /\ i \in 1..(m + 1)
      BY <2>1, <2>2, <2>3 DEF Found
    <3>5. (\A i \in 1..m : g[i] = f[i]) /\ g[m + 1] = k + 1 /\ m + 1 \in 1..(m + 1) /\ k + 1 \in 1..(k + 1)
      BY <2>1, <2>3, <3>4
    <3>6. g \in [1..(m + 1) -> 1..(k + 1)]
      BY <3>3, <3>4, <3>5
    <3> HIDE DEF g
    <3>7. \A i, j \in 1..(m + 1) : i < j => g[i] < g[j]
      <4>1. ASSUME NEW i \in 1..(m + 1), NEW j \in 1..(m + 1), i < j PROVE g[i] < g[j]
        <5>1. i \in 1..m
          BY <2>3, <4>1
        <5> QED BY <2>2, <3>3, <3>4, <3>5, <4>1, <5>1 DEF Found
      <4> QED BY <4>1
    <3>8. \A i \in 1..(m + 1) : new[i] = s[g[i]] /\ s[g[i]] \in C
      BY <2>2, <2>6, <3>2, <3>3, <3>5 DEF Found, x
    <3>9. \A j \in 1..(k + 1) : s[j] \in C => \E i \in 1..(m + 1) : g[i] = j
      <4>1. ASSUME NEW j \in 1..(k + 1), s[j] \in C PROVE \E i \in 1..(m + 1) : g[i] = j
        <5>1. CASE j = k + 1
          BY <3>5, <5>1
        <5>2. CASE j # k + 1
          <6>1. j \in 1..k
            BY <2>1, <5>2
          <6>2. PICK i \in 1..m : f[i] = j
            BY <2>2, <4>1, <6>1 DEF Found
          <6> QED BY <3>4, <3>5, <6>2
        <5> QED BY <5>1, <5>2
      <4> QED BY <4>1
    <3>10. Found(new, s, C, k + 1, g)
      BY <3>2, <3>6, <3>7, <3>8, <3>9 DEF Found
    <3> QED BY <3>2, <3>10 DEF new
  <2> QED BY <2>5, <2>6
<1>5. G = Nat
  <2>1. G \in SUBSET Nat
    OBVIOUS
  <2> HIDE DEF G
  <2> QED BY <1>3, <1>4, <2>1, SetInduction
<1>6. Done(n)
  BY <1>1, <1>5
<1> QED BY <1>1, <1>6 DEF Selection

-----------------------------------------------------------------------------
(***************************************************************************)
(* The policies of a page: whatever they are, the ones the hop sends in     *)
(* their place let the injected agent load and report.                      *)
(***************************************************************************)
\* A policy decides through the same directive as long as it has the same ones.
LEMMA SameGoverning ==
  ASSUME NEW p, NEW q, NEW kinds, DOMAIN p = DOMAIN q
  PROVE  governing(p, kinds) = governing(q, kinds)
BY DEF governing

\* Widening keeps the directives, loses no source and adds no other than the
\* one given, which every directive that decides then has.
LEMMA WidenAdds ==
  ASSUME NEW p, NEW kinds, NEW other, NEW source
  PROVE  LET w == widen(p, kinds, source)
         IN  /\ governing(w, other) = governing(p, other)
             /\ sources(p, other) \subseteq sources(w, other)
             /\ sources(w, other) \subseteq sources(p, other) \cup {source}
             /\ governing(p, kinds) # {} => source \in sources(w, kinds)
<1> DEFINE w == widen(p, kinds, source)
<1>1. DOMAIN w = DOMAIN p
  BY DEF widen
<1>2. \A k : governing(w, k) = governing(p, k)
  BY <1>1, SameGoverning
<1>3. \A k : \A d \in governing(p, k) : d \in DOMAIN p
  BY DEF governing
<1>4. \A d \in DOMAIN p : p[d] \subseteq w[d] /\ w[d] \subseteq p[d] \cup {source}
  BY DEF widen
<1>5. \A d \in governing(p, kinds) : source \in w[d]
  BY <1>3 DEF widen
<1>6. /\ sources(p, other) \subseteq sources(w, other)
      /\ sources(w, other) \subseteq sources(p, other) \cup {source}
  BY <1>2, <1>3, <1>4 DEF sources
<1>7. governing(p, kinds) # {} => source \in sources(w, kinds)
  BY <1>2, <1>5 DEF sources
<1> QED
  BY <1>2, <1>6, <1>7

\* A relaxed policy decides through the directives of the one it is made from,
\* keeps its sources, has the minted nonce or 'self' where they were needed, and
\* forbids no more: 'strict-dynamic' is not among what is added.
LEMMA RelaxedAdds ==
  ASSUME NEW h, NEW p, CSPAssumption
  PROVE  LET r == Relaxed(h, p)
         IN  /\ \A k : governing(r, k) = governing(p, k)
             /\ \A k : sources(p, k) \subseteq sources(r, k)
             /\ "strict-dynamic" \in sources(r, scriptKinds) => "strict-dynamic" \in sources(p, scriptKinds)
             /\ needScript(h) /\ governing(p, scriptKinds) # {} => Minted \in sources(r, scriptKinds)
             /\ needConnect(h) /\ governing(p, connectKinds) # {} => "self" \in sources(r, connectKinds)
<1> DEFINE s == IF needScript(h) THEN widen(p, scriptKinds, Minted) ELSE p
           r == IF needConnect(h) THEN widen(s, connectKinds, "self") ELSE s
<1>1. Relaxed(h, p) = r
  BY DEF Relaxed
<1>2. /\ \A k : governing(s, k) = governing(p, k) /\ sources(p, k) \subseteq sources(s, k)
      /\ \A k : sources(s, k) \subseteq sources(p, k) \cup {Minted}
      /\ needScript(h) /\ governing(p, scriptKinds) # {} => Minted \in sources(s, scriptKinds)
  BY WidenAdds
<1>3. /\ \A k : governing(r, k) = governing(s, k) /\ sources(s, k) \subseteq sources(r, k)
      /\ \A k : sources(r, k) \subseteq sources(s, k) \cup {"self"}
      /\ needConnect(h) /\ governing(s, connectKinds) # {} => "self" \in sources(r, connectKinds)
  <2> HIDE DEF s
  <2> QED BY WidenAdds
<1>4. Minted # "strict-dynamic"
  BY DEF CSPAssumption
<1> HIDE DEF s, r
<1> QED
  BY <1>1, <1>2, <1>3, <1>4

\* reconcileCSP admits the agent under every policy of every header.
THEOREM ReconciledAdmits ==
  ASSUME NEW h, DOMAIN h = 1..Len(h), CSPAssumption
  PROVE  Admits(reconcileCSP(h).policies, reconcileCSP(h).nonce)
<1> DEFINE tag == reconcileCSP(h).nonce
<1>1. reconcileCSP(h).policies = [i \in DOMAIN h |-> Relaxed(h, h[i])]
  BY DEF reconcileCSP
<1>2. tag = IF needScript(h) THEN {Minted}
            ELSE IF Own(h) = {} THEN {} ELSE {CHOOSE n \in Own(h) : TRUE}
  BY DEF reconcileCSP
<1> SUFFICES ASSUME NEW i \in DOMAIN h
             PROVE  Loads(Relaxed(h, h[i]), tag) /\ Connects(Relaxed(h, h[i]))
  BY <1>1 DEF Admits
<1> DEFINE p == h[i]  r == Relaxed(h, p)
<1> HIDE DEF tag
<1>3. /\ \A k : governing(r, k) = governing(p, k) /\ sources(p, k) \subseteq sources(r, k)
      /\ "strict-dynamic" \in sources(r, scriptKinds) => "strict-dynamic" \in sources(p, scriptKinds)
      /\ needScript(h) /\ governing(p, scriptKinds) # {} => Minted \in sources(r, scriptKinds)
      /\ needConnect(h) /\ governing(p, connectKinds) # {} => "self" \in sources(r, connectKinds)
  BY RelaxedAdds
<1> HIDE DEF r
<1>4. Connects(r)
  <2>1. CASE needConnect(h)
    BY <2>1, <1>3 DEF Connects
  <2>2. CASE ~needConnect(h)
    <3>1. admitsSelf(p, connectKinds)
      BY <2>2 DEF needConnect
    <3> QED
      BY <3>1, <1>3 DEF admitsSelf, Connects
  <2> QED BY <2>1, <2>2
<1>5. Loads(r, tag)
  <2>1. CASE needScript(h)
    BY <2>1, <1>2, <1>3 DEF Loads
  <2>2. CASE ~needScript(h) /\ Own(h) # {}
    <3>1. PICK n \in Own(h) : tag = {n}
      BY <2>2, <1>2
    <3>2. Own(h) \subseteq sources(p, scriptKinds)
      <4>1. Len(h) = 1 /\ Own(h) = nonce(h[1])
        BY <2>2 DEF Own
      <4>2. i = 1
        BY <4>1
      <4> QED
        BY <4>1, <4>2 DEF nonce
    <3> QED
      BY <3>1, <3>2, <1>3 DEF Loads
  <2>3. CASE ~needScript(h) /\ Own(h) = {}
    <3>1. admitsSelf(p, scriptKinds)
      BY <2>3 DEF needScript
    <3> QED
      BY <3>1, <1>3 DEF admitsSelf, Loads
  <2> QED BY <2>1, <2>2, <2>3
<1> QED
  BY <1>4, <1>5 DEF r

-----------------------------------------------------------------------------
(***************************************************************************)
(* What Exchanges take: Total is a fold, and these are its facts.           *)
(***************************************************************************)
Report   == [at : Nat, size : Nat]
Reports  == {rs \in Seq(Report) : Len(rs) <= maxReports}
Exchange == [id : Nat, at : Nat, host : {Inspected}, backend : {Inspected}, status : Nat, took : Int,
             warned : BOOLEAN, reports : Reports, suppressed : Nat, dom : BOOLEAN]

\* What size charges for reports is a sum of naturals.
LEMMA SizeNatural ==
  ASSUME NEW e \in Exchange
  PROVE  size(e) \in Nat
<1> DEFINE rs == e.reports
           w  == [i \in DOMAIN rs |-> rs[i].size]
           S  == FoldSeq(LAMBDA r, n : r.size + n, 0, rs)
<1>1. rs \in Seq(Report) /\ DOMAIN rs = 1..Len(rs) /\ Len(rs) \in Nat
  BY LenProperties DEF Exchange, Reports
<1>2. IsFiniteSet(DOMAIN rs)
  BY <1>1, FS_Interval
<1>3. w \in [DOMAIN rs -> Int] /\ \A i \in DOMAIN rs : w[i] \in Nat /\ w[i] = rs[i].size
  <2>1. \A i \in DOMAIN rs : rs[i] \in Report
    BY <1>1, ElementOfSeq
  <2> QED BY <2>1 DEF Report
<1> HIDE DEF w
<1>4. S \in Nat
  <2> DEFINE Q(it) == it = [s \in SUBSET DOMAIN rs |-> IF s = {} THEN 0
                             ELSE w[CHOOSE x \in s : TRUE] + it[s \ {CHOOSE x \in s : TRUE}]]
             R(it) == it = [s \in SUBSET DOMAIN rs |-> IF s = {} THEN 0
                             ELSE rs[CHOOSE x \in s : TRUE].size + it[s \ {CHOOSE x \in s : TRUE}]]
             F == CHOOSE it : R(it)
  <2>1. S = F[DOMAIN rs]
    BY DEF FoldSeq, FoldFunction, FoldFunctionOnSet, MapThenFoldSet
  <2>2. \A it : Q(it) <=> R(it)
    <3>1. \A s \in SUBSET DOMAIN rs : s # {} => w[CHOOSE x \in s : TRUE] = rs[CHOOSE x \in s : TRUE].size
      BY <1>3
    <3> QED BY <3>1
  <2>3. PICK f : Folds(f, DOMAIN rs, w)
    BY <1>2, <1>3, SumExists
  <2>4. Q(F)
    <3>1. Q(f)
      BY <2>3 DEF Folds
    <3> HIDE DEF Q, R
    <3>2. R(F)
      <4>1. R(f)
        BY <2>2, <3>1
      <4> QED BY <4>1
    <3> QED BY <2>2, <3>2
  <2>5. Folds(F, DOMAIN rs, w)
    BY <2>4 DEF Folds
  <2>6. F[DOMAIN rs] \in Nat
    <3> HIDE DEF F
    <3> QED BY <1>2, <1>3, <2>5, FoldAdds, SumNatural
  <2> QED BY <2>1, <2>6
<1>5. exchangeSize \in Nat /\ SnapshotSize \in Nat
  BY ExchangesAssumption DEF ExchangesAssumption
<1> HIDE DEF S, rs
<1>6. size(e) = exchangeSize + (IF e.dom THEN SnapshotSize ELSE 0) + S
  BY DEF size, S, rs
<1> QED BY <1>4, <1>5, <1>6

\* What the Exchanges of es take, one by one; Total adds it up.
Sizes(es) == [i \in 1..Len(es) |-> size(es[i])]

\* Where es has Exchanges.
Places(es) == 1..Len(es)

\* F adds up the sizes of the Exchanges of es.
Sums(F, es) == Adds(F, Places(es), Sizes(es))

\* Total is such a sum, over all of them.
LEMMA TotalSum ==
  ASSUME NEW es \in Seq(Exchange)
  PROVE  \E F : Sums(F, es) /\ Total(es) = F[Places(es)]
<1> DEFINE w == Sizes(es)
           Q(it) == it = [s \in SUBSET DOMAIN es |-> IF s = {} THEN 0
                           ELSE w[CHOOSE x \in s : TRUE] + it[s \ {CHOOSE x \in s : TRUE}]]
           R(it) == it = [s \in SUBSET DOMAIN es |-> IF s = {} THEN 0
                           ELSE size(es[CHOOSE x \in s : TRUE]) + it[s \ {CHOOSE x \in s : TRUE}]]
           F == CHOOSE it : R(it)
<1>1. DOMAIN es = 1..Len(es) /\ Len(es) \in Nat /\ IsFiniteSet(DOMAIN es)
  BY LenProperties, FS_Interval
<1>2. w \in [DOMAIN es -> Int] /\ \A i \in DOMAIN es : w[i] = size(es[i])
  <2>1. \A i \in 1..Len(es) : size(es[i]) \in Int
    BY <1>1, SizeNatural, ElementOfSeq
  <2> HIDE DEF Exchange
  <2> QED BY <1>1, <2>1 DEF Sizes
<1> HIDE DEF w
<1>3. Total(es) = F[DOMAIN es]
  BY DEF Total, FoldSeq, FoldFunction, FoldFunctionOnSet, MapThenFoldSet
<1>4. \A it : Q(it) <=> R(it)
  <2>1. \A s \in SUBSET DOMAIN es : s # {} => w[CHOOSE x \in s : TRUE] = size(es[CHOOSE x \in s : TRUE])
    BY <1>2
  <2> QED BY <2>1
<1>5. PICK f : Folds(f, DOMAIN es, w)
  BY <1>1, <1>2, SumExists
<1>6. Q(F)
  <2>1. Q(f)
    BY <1>5 DEF Folds
  <2> HIDE DEF Q, R
  <2>2. R(F)
    <3>1. R(f)
      BY <1>4, <2>1
    <3> QED BY <3>1
  <2> QED BY <1>4, <2>2
<1>7. Folds(F, DOMAIN es, w)
  BY <1>6 DEF Folds
<1> HIDE DEF F
<1>8. Adds(F, DOMAIN es, w)
  BY <1>1, <1>2, <1>7, FoldAdds
<1> QED BY <1>1, <1>3, <1>8 DEF w, Sums, Places

\* Two sequences of Exchanges, the positions q of the one elsewhere, at m, in the other.
LEMMA SameSizes ==
  ASSUME NEW es \in Seq(Exchange), NEW fs \in Seq(Exchange), NEW F, NEW G, Sums(F, es), Sums(G, fs),
         NEW q \in SUBSET Places(es), NEW p \in SUBSET Places(fs), NEW m,
         \A x \in q : m[x] \in p /\ fs[m[x]] = es[x],
         \A x, y \in q : m[x] = m[y] => x = y,
         \A y \in p : \E x \in q : m[x] = y
  PROVE  G[p] = F[q] /\ F[q] \in Int
<1> DEFINE D == Places(es)
           E == Places(fs)
           w == Sizes(es)
           v == Sizes(fs)
<1>1. q \in SUBSET D /\ p \in SUBSET E
  OBVIOUS
<1>2. \A x \in q : m[x] \in p /\ v[m[x]] = w[x]
  BY DEF Sizes, Places
<1>3. Adds(F, D, w) /\ Adds(G, E, v)
  BY DEF Sums
<1> HIDE DEF D, E, w, v
<1>4. G[p] = F[q]
  BY <1>1, <1>2, <1>3, SumMoved, SMT
<1>5. F[q] \in Int
  BY <1>1, <1>3 DEF Adds
<1> QED BY <1>4, <1>5

\* The same at the same positions.
LEMMA SameHere ==
  ASSUME NEW es \in Seq(Exchange), NEW fs \in Seq(Exchange), NEW F, NEW G,
         Sums(F, es), Sums(G, fs), NEW q \in SUBSET Places(es), q \subseteq Places(fs),
         \A x \in q : fs[x] = es[x]
  PROVE  G[q] = F[q] /\ F[q] \in Int
<1> DEFINE m == [x \in q |-> x]
<1>1. \A x \in q : m[x] = x
  OBVIOUS
<1> HIDE DEF m
<1> QED BY <1>1, SameSizes, SMT

\* All of an Exchange is counted.
LEMMA SizeTaken ==
  ASSUME NEW es \in Seq(Exchange), NEW F, Sums(F, es), NEW i \in Places(es)
  PROVE  F[Places(es)] = size(es[i]) + F[Places(es) \ {i}]
<1> DEFINE D == Places(es)
           w == Sizes(es)
<1>1. Adds(F, D, w) /\ w[i] = size(es[i])
  BY DEF Sums, Sizes, Places
<1> HIDE DEF D, w
<1>2. F[D] = w[i] + F[D \ {i}]
  BY <1>1, SumTaken DEF D
<1> QED BY <1>1, <1>2 DEF D

\* The total is a natural.
LEMMA TotalNatural ==
  ASSUME NEW es \in Seq(Exchange)
  PROVE  Total(es) \in Nat
<1>1. PICK F : Sums(F, es) /\ Total(es) = F[Places(es)]
  BY TotalSum
<1>2. \A i \in Places(es) : Sizes(es)[i] \in Nat
  <2>1. \A i \in 1..Len(es) : size(es[i]) \in Nat
    BY SizeNatural, ElementOfSeq
  <2> QED BY <2>1 DEF Sizes, Places
<1>3. Adds(F, Places(es), Sizes(es)) /\ Places(es) \in SUBSET Places(es)
  BY <1>1 DEF Sums
<1> QED BY <1>1, <1>2, <1>3, SumNatural

\* Nothing takes nothing.
LEMMA TotalEmpty == Total(<<>>) = 0
<1>1. <<>> \in Seq(Exchange) /\ Places(<<>>) = {}
  BY EmptySeq DEF Places
<1>2. PICK F : Sums(F, <<>>) /\ Total(<<>>) = F[Places(<<>>)]
  BY <1>1, TotalSum
<1> QED BY <1>1, <1>2 DEF Sums, Adds

\* One Exchange more adds its size.
LEMMA TotalAppend ==
  ASSUME NEW es \in Seq(Exchange), NEW e \in Exchange
  PROVE  Total(Append(es, e)) = Total(es) + size(e)
<1> DEFINE fs == Append(es, e)
<1>1. /\ Len(es) \in Nat /\ fs \in Seq(Exchange) /\ Len(fs) = Len(es) + 1 /\ fs[Len(fs)] = e
      /\ \A i \in 1..Len(es) : fs[i] = es[i]
  BY AppendProperties, LenProperties
<1> HIDE DEF fs
<1>2. PICK F : Sums(F, es) /\ Total(es) = F[Places(es)]
  BY TotalSum
<1>3. PICK G : Sums(G, fs) /\ Total(fs) = G[Places(fs)]
  BY <1>1, TotalSum
<1>4. Total(es) \in Nat
  BY TotalNatural
<1>5. Places(es) = Places(fs) \ {Len(fs)} /\ Len(fs) \in Places(fs)
  BY <1>1 DEF Places
<1>6. G[Places(es)] = F[Places(es)]
  <2> DEFINE q == Places(es)
  <2>1. \A i \in q : fs[i] = es[i]
    BY <1>1 DEF Places
  <2>2. q \in SUBSET Places(es) /\ q \subseteq Places(fs)
    BY <1>5
  <2> HIDE DEF q
  <2>3. G[q] = F[q]
    <3>1. fs \in Seq(Exchange) /\ Sums(F, es) /\ Sums(G, fs)
      BY <1>1, <1>2, <1>3
    <3> QED BY <2>1, <2>2, <3>1, SameHere
  <2> QED BY <2>3 DEF q
<1>7. G[Places(fs)] = size(e) + G[Places(es)]
  <2> DEFINE i == Len(fs)
  <2>1. i \in Places(fs) /\ fs[i] = e /\ Places(fs) \ {i} = Places(es)
    BY <1>1, <1>5
  <2> HIDE DEF i
  <2>2. fs \in Seq(Exchange) /\ Sums(G, fs)
    BY <1>1, <1>3
  <2>3. G[Places(fs)] = size(fs[i]) + G[Places(fs) \ {i}]
    BY <2>1, <2>2, SizeTaken
  <2> QED BY <2>1, <2>3
<1>8. size(e) \in Nat
  BY SizeNatural
<1> QED BY <1>2, <1>3, <1>4, <1>6, <1>7, <1>8 DEF fs

\* A prefix and what follows it share the total.
LEMMA TotalSplit ==
  ASSUME NEW es \in Seq(Exchange), NEW k \in 0..Len(es)
  PROVE  Total(es) = Total(SubSeq(es, 1, k)) + Total(SubSeq(es, k + 1, Len(es)))
<1> DEFINE ps == SubSeq(es, 1, k)
           ss == SubSeq(es, k + 1, Len(es))
<1>1. Len(es) \in Nat /\ k \in Nat /\ k <= Len(es)
  BY LenProperties
<1>2. ps \in Seq(Exchange) /\ Len(ps) = k /\ \A i \in 1..k : ps[i] = es[i]
  <2>1. 1 \in 1..(Len(es) + 1) /\ k \in 0..Len(es)
    BY <1>1
  <2> QED BY <1>1, <2>1, SubSeqProperties
<1>3. ss \in Seq(Exchange) /\ Len(ss) = Len(es) - k /\ \A i \in 1..(Len(es) - k) : ss[i] = es[i + k]
  <2>1. k + 1 \in 1..(Len(es) + 1) /\ Len(es) \in k..Len(es)
    BY <1>1
  <2> QED BY <1>1, <2>1, SubSeqProperties
<1> HIDE DEF ps, ss
<1>4. PICK F : Sums(F, es) /\ Total(es) = F[Places(es)]
  BY TotalSum
<1>5. PICK P : Sums(P, ps) /\ Total(ps) = P[Places(ps)]
  BY <1>2, TotalSum
<1>6. PICK S : Sums(S, ss) /\ Total(ss) = S[Places(ss)]
  BY <1>3, TotalSum
<1> DEFINE rest == (k + 1)..Len(es)
<1>7. /\ Places(ps) \in SUBSET Places(es) /\ rest \in SUBSET Places(es)
      /\ Places(ps) \cap rest = {} /\ Places(ps) \cup rest = Places(es)
  BY <1>1, <1>2 DEF Places
<1>8. \A i \in Places(ps) : ps[i] = es[i]
  BY <1>2 DEF Places
<1> DEFINE m == [i \in Places(ss) |-> i + k]
<1>9. /\ \A i \in Places(ss) : m[i] \in rest /\ es[m[i]] = ss[i]
      /\ \A i, j \in Places(ss) : m[i] = m[j] => i = j
      /\ \A j \in rest : \E i \in Places(ss) : m[i] = j
  <2>1. \A i \in Places(ss) : i + k \in rest /\ es[i + k] = ss[i] /\ i \in Int
    BY <1>1, <1>3 DEF Places
  <2>2. \A j \in rest : j - k \in Places(ss) /\ (j - k) + k = j
    BY <1>1, <1>3 DEF Places
  <2> HIDE DEF rest
  <2> QED BY <1>1, <2>1, <2>2
<1> HIDE DEF rest, m
<1>10. F[Places(es)] = F[Places(ps)] + F[rest]
  BY <1>4, <1>7, SumSplit DEF Sums
<1>11. F[Places(ps)] = P[Places(ps)]
  BY <1>2, <1>4, <1>5, <1>7, <1>8, SameHere
<1>12. F[rest] = S[Places(ss)]
  <2> DEFINE q == Places(ss)
  <2>1. q \in SUBSET Places(ss) /\ \A i \in q : m[i] \in rest /\ es[m[i]] = ss[i]
    BY <1>9
  <2>2. (\A i, j \in q : m[i] = m[j] => i = j) /\ \A j \in rest : \E i \in q : m[i] = j
    BY <1>9
  <2> HIDE DEF q
  <2>3. rest \in SUBSET Places(es) /\ ss \in Seq(Exchange) /\ Sums(F, es) /\ Sums(S, ss)
    BY <1>3, <1>4, <1>6, <1>7
  <2>4. F[rest] = S[q]
    BY <2>1, <2>2, <2>3, SameSizes, SMT
  <2> QED BY <2>4 DEF q
<1> QED BY <1>4, <1>5, <1>6, <1>10, <1>11, <1>12 DEF ps, ss

\* One Exchange in the place of another changes the total by their difference.
LEMMA TotalExcept ==
  ASSUME NEW es \in Seq(Exchange), NEW i \in 1..Len(es), NEW e \in Exchange
  PROVE  Total([es EXCEPT ![i] = e]) = Total(es) + size(e) - size(es[i])
<1> DEFINE fs == [es EXCEPT ![i] = e]
<1>1. /\ Len(es) \in Nat /\ fs \in Seq(Exchange) /\ Len(fs) = Len(es) /\ fs[i] = e
      /\ \A j \in 1..Len(es) : j # i => fs[j] = es[j]
  BY ExceptSeq, LenProperties
<1>2. size(e) \in Nat /\ size(es[i]) \in Nat
  BY SizeNatural, ElementOfSeq
<1> HIDE DEF fs
<1>3. PICK F : Sums(F, es) /\ Total(es) = F[Places(es)]
  BY TotalSum
<1>4. PICK G : Sums(G, fs) /\ Total(fs) = G[Places(fs)]
  BY <1>1, TotalSum
<1> DEFINE q == Places(es) \ {i}
<1>5. /\ Places(fs) = Places(es) /\ i \in Places(es) /\ q \in SUBSET Places(es)
      /\ \A j \in q : fs[j] = es[j]
  BY <1>1 DEF Places
<1>6. F[Places(es)] = size(es[i]) + F[q]
  BY <1>3, <1>5, SizeTaken
<1>7. G[Places(fs)] = size(e) + G[q]
  BY <1>1, <1>4, <1>5, SizeTaken
<1> HIDE DEF q
<1>8. G[q] = F[q] /\ F[q] \in Int
  BY <1>1, <1>3, <1>4, <1>5, SameHere
<1> QED BY <1>2, <1>3, <1>4, <1>6, <1>7, <1>8 DEF fs

-----------------------------------------------------------------------------
(***************************************************************************)
(* The store and its history.                                               *)
(***************************************************************************)
\* HalvesJoined, of one Exchange.
Joined(e, acc, out) ==
  /\ Len(e.reports) + e.suppressed = acc[e.id]
  /\ out[e.id] # Unfinished => e.status = out[e.id].status /\ e.warned = out[e.id].warned
  /\ out[e.id] = Unfinished => e.status = 0 /\ ~e.warned

\* What es holds is one Exchange per id up to m, in order, each joined.
Sound(es, m, acc, out) ==
  /\ es \in Seq(Exchange)
  /\ \A i, j \in 1..Len(es) : i < j => es[i].id < es[j].id
  /\ \A i \in 1..Len(es) : es[i].id \in 1..m /\ Joined(es[i], acc, out)

\* The strengthening of HalvesJoined and Accounted: ids not given out yet have no
\* history, and ids of held Exchanges increase.
IInv ==
  /\ now \in Nat /\ next \in 0..MaxRequests
  /\ Sound(items, next, accepted, outcome)
  /\ accepted \in [Ids -> Nat]
  /\ outcome \in [Ids -> [status : Nat \cup {-1}, warned : BOOLEAN]]
  /\ flight = [id \in Ids |-> flight[id]]
  /\ \A id \in Ids : \A st \in flight[id] : st.status \in Nat /\ st.warned \in BOOLEAN
  /\ \A id \in Ids : id > next => accepted[id] = 0 /\ outcome[id] = Unfinished /\ flight[id] = {}
  /\ Accounted /\ AgentAdmitted

-----------------------------------------------------------------------------
\* Eviction leaves a suffix that is not empty, within the budget if it is longer
\* than one, and counts what it leaves.
LEMMA EvictedSuffix ==
  ASSUME NEW es \in Seq(Exchange), es # <<>>, NEW n
  PROVE  LET r == Evicted(es, n)
         IN  \E k \in 0..(Len(es) - 1) :
               /\ r.items \in Seq(Exchange) /\ Len(r.items) = Len(es) - k
               /\ \A i \in 1..Len(r.items) : r.items[i] = es[i + k]
               /\ r.used <= budget \/ Len(r.items) = 1
               /\ n = Total(es) => r.used = Total(r.items)
<1> DEFINE fits == {i \in 0..(Len(es) - 1) : n - Total(SubSeq(es, 1, i)) <= budget}
           k == Min(fits \cup {Len(es) - 1})
           r == Evicted(es, n)
<1>1. Len(es) \in Nat \ {0}
  BY LenProperties
<1>2. k \in fits \cup {Len(es) - 1}
  <2>1. fits \cup {Len(es) - 1} \in SUBSET Nat
    BY <1>1
  <2> HIDE DEF fits
  <2> QED BY <2>1, MinIsMember
<1>3. r.items = SubSeq(es, k + 1, Len(es)) /\ r.used = n - Total(SubSeq(es, 1, k))
  BY DEF Evicted
<1>4. k \in 0..(Len(es) - 1) /\ (k = Len(es) - 1 \/ n - Total(SubSeq(es, 1, k)) <= budget)
  BY <1>1, <1>2
<1> HIDE DEF fits, k, r
<1>5. /\ r.items \in Seq(Exchange) /\ Len(r.items) = Len(es) - k
      /\ \A i \in 1..Len(r.items) : r.items[i] = es[i + k]
  <2>1. k + 1 \in 1..(Len(es) + 1) /\ Len(es) \in k..Len(es)
    BY <1>1, <1>4
  <2> QED BY <1>1, <1>3, <1>4, <2>1, SubSeqProperties
<1>6. r.used <= budget \/ Len(r.items) = 1
  <2>1. CASE k = Len(es) - 1
    BY <2>1, <1>1, <1>5
  <2>2. CASE n - Total(SubSeq(es, 1, k)) <= budget
    BY <2>2, <1>3, Zenon
  <2> QED BY <1>4, <2>1, <2>2
<1>7. n = Total(es) => r.used = Total(r.items)
  <2>1. Total(es) = Total(SubSeq(es, 1, k)) + Total(SubSeq(es, k + 1, Len(es)))
    <3>1. k \in 0..Len(es)
      BY <1>1, <1>4
    <3> QED BY <3>1, TotalSplit
  <2>2. Total(SubSeq(es, 1, k)) \in Nat /\ Total(r.items) \in Nat
    <3>1. SubSeq(es, 1, k) \in Seq(Exchange)
      <4>1. 1 \in 1..(Len(es) + 1) /\ k \in 0..Len(es)
        BY <1>1, <1>4
      <4> QED BY <4>1, SubSeqProperties
    <3>2. \A s \in Seq(Exchange) : Total(s) \in Nat
      BY TotalNatural
    <3> QED BY <1>5, <3>1, <3>2
  <2> QED BY <1>3, <2>1, <2>2
<1> QED BY <1>4, <1>5, <1>6, <1>7 DEF r

\* Eviction only drops Exchanges, so those it leaves are sound as before.
LEMMA SoundEvicted ==
  ASSUME NEW es, NEW n, NEW m \in Nat, NEW acc, NEW out, Sound(es, m, acc, out), es # <<>>
  PROVE  LET r == Evicted(es, n)
         IN  /\ Sound(r.items, m, acc, out) /\ r.items # <<>>
             /\ r.items[Len(r.items)].id = es[Len(es)].id
             /\ r.used <= budget \/ Len(r.items) = 1
             /\ n = Total(es) => r.used = Total(r.items)
             /\ \A i \in 1..Len(r.items) : \E j \in 1..Len(es) : r.items[i] = es[j]
<1> DEFINE r == Evicted(es, n)
<1>1. es \in Seq(Exchange) /\ Len(es) \in Nat
  BY LenProperties DEF Sound
<1>2. PICK k \in 0..(Len(es) - 1) :
        /\ r.items \in Seq(Exchange) /\ Len(r.items) = Len(es) - k
        /\ \A i \in 1..Len(r.items) : r.items[i] = es[i + k]
        /\ r.used <= budget \/ Len(r.items) = 1
        /\ n = Total(es) => r.used = Total(r.items)
  BY <1>1, EvictedSuffix
<1> HIDE DEF r
<1>3. \A i \in 1..Len(r.items) : i + k \in 1..Len(es) /\ r.items[i] = es[i + k]
  BY <1>1, <1>2
<1>4. Sound(r.items, m, acc, out)
  <2>1. ASSUME NEW i \in 1..Len(r.items), NEW j \in 1..Len(r.items), i < j
        PROVE  r.items[i].id < r.items[j].id
    <3>1. i + k \in 1..Len(es) /\ j + k \in 1..Len(es) /\ i + k < j + k
      BY <1>1, <1>2, <1>3, <2>1
    <3> QED BY <3>1, <1>3 DEF Sound
  <2>2. ASSUME NEW i \in 1..Len(r.items)
        PROVE  r.items[i].id \in 1..m /\ Joined(r.items[i], acc, out)
    BY <1>3 DEF Sound
  <2> QED BY <1>2, <2>1, <2>2 DEF Sound
<1>5. Len(r.items) \in 1..Len(es) /\ r.items[Len(r.items)] = es[Len(es)]
  <2>1. Len(r.items) = Len(es) - k
    BY <1>2
  <2> DEFINE l == Len(r.items)
  <2>2. l \in 1..Len(es) /\ l \in 1..l /\ l + k = Len(es)
    BY <1>1, <2>1
  <2>3. r.items[l] = es[l + k]
    <3> HIDE DEF l
    <3> QED BY <1>2, <2>2 DEF l
  <2> QED BY <2>2, <2>3
<1>6. r.items # <<>>
  BY <1>5, EmptySeq, LenProperties
<1>7. \A i \in 1..Len(r.items) : \E j \in 1..Len(es) : r.items[i] = es[j]
  BY <1>3
<1> QED BY <1>2, <1>4, <1>5, <1>6, <1>7 DEF r

\* An Exchange is added under an id that was not given out.
LEMMA SoundAppend ==
  ASSUME NEW es, NEW m \in Nat, NEW acc, NEW out, Sound(es, m, acc, out),
         NEW e \in Exchange, e.id = m + 1, Joined(e, acc, out)
  PROVE  /\ Sound(Append(es, e), m + 1, acc, out) /\ Append(es, e) # <<>>
         /\ Append(es, e)[Len(Append(es, e))] = e
<1> DEFINE s == Append(es, e)
<1>1. /\ es \in Seq(Exchange) /\ Len(es) \in Nat
      /\ s \in Seq(Exchange) /\ Len(s) = Len(es) + 1 /\ s[Len(s)] = e
      /\ \A i \in 1..Len(es) : s[i] = es[i]
  BY AppendProperties, LenProperties DEF Sound
<1> HIDE DEF s
<1>2. ASSUME NEW i \in 1..Len(s), NEW j \in 1..Len(s), i < j
      PROVE  s[i].id < s[j].id
  <2>1. i \in 1..Len(es) /\ s[i] = es[i] /\ es[i].id \in 1..m
    BY <1>1, <1>2 DEF Sound
  <2>2. CASE j = Len(s)
    BY <1>1, <2>1, <2>2
  <2>3. CASE j \in 1..Len(es)
    BY <1>1, <1>2, <2>1, <2>3 DEF Sound
  <2> QED BY <1>1, <2>2, <2>3
<1>3. ASSUME NEW i \in 1..Len(s)
      PROVE  s[i].id \in 1..(m + 1) /\ Joined(s[i], acc, out)
  <2>1. CASE i = Len(s)
    BY <1>1, <2>1
  <2>2. CASE i \in 1..Len(es)
    BY <1>1, <2>2 DEF Sound
  <2> QED BY <1>1, <2>1, <2>2
<1>4. s # <<>>
  BY <1>1, EmptySeq, LenProperties
<1> QED BY <1>1, <1>2, <1>3, <1>4 DEF Sound, s

-----------------------------------------------------------------------------
\* What Get chooses.
LEMMA Held ==
  ASSUME IInv, NEW id \in ids
  PROVE  /\ Get(id) \in 1..Len(items) /\ items[Get(id)] \in Exchange /\ items[Get(id)].id = id
         /\ Joined(items[Get(id)], accepted, outcome) /\ id \in 1..next /\ id \in Ids
<1>1. items \in Seq(Exchange) /\ DOMAIN items = 1..Len(items) /\ Len(items) \in Nat
  BY LenProperties DEF IInv, Sound
<1>2. \E i \in DOMAIN items : items[i].id = id
  BY DEF ids
<1>3. Get(id) \in 1..Len(items) /\ items[Get(id)].id = id
  BY <1>1, <1>2 DEF Get
<1>4. next \in Nat /\ 1..next \subseteq Ids
  BY ExchangesAssumption DEF IInv, Ids, ExchangesAssumption
<1> QED
  BY <1>1, <1>3, <1>4, ElementOfSeq DEF IInv, Sound

\* The ids of what is held, by position.
LEMMA OwnIds ==
  ASSUME IInv
  PROVE  ids = {items[i].id : i \in 1..Len(items)}
BY LenProperties DEF ids, IInv, Sound

\* es with n bytes may take the store's place: it is joined with a history, holds
\* something as new, and nothing that was not held.
Keeps(es, n, acc, out) ==
  /\ Sound(es, next, acc, out)
  /\ n = Total(es)
  /\ n <= budget \/ Len(es) = 1
  /\ items # <<>> => es # <<>> /\ es[Len(es)].id = items[Len(items)].id
  /\ \A i \in 1..Len(es) : es[i].id \in ids

\* A held Exchange is changed in place and so is its history; then the store evicts.
LEMMA SoundChanged ==
  ASSUME IInv, NEW id \in ids, NEW e \in Exchange, e.id = id, NEW acc2, NEW out2, Joined(e, acc2, out2),
         \A k \in Nat : k # id => acc2[k] = accepted[k] /\ out2[k] = outcome[k]
  PROVE  /\ size(e) = size(items[Get(id)]) => Keeps([items EXCEPT ![Get(id)] = e], used, acc2, out2)
         /\ Keeps(Changed(id, e).items, Changed(id, e).used, acc2, out2)
<1> DEFINE i == Get(id)
           s == [items EXCEPT ![i] = e]
           n == used + size(e) - size(items[i])
           r == Evicted(s, n)
<1>1. Changed(id, e) = r
  BY DEF Changed
<1>2. i \in 1..Len(items) /\ items[i].id = id
  BY Held
<1>3. Sound(items, next, accepted, outcome) /\ next \in Nat
  BY ExchangesAssumption DEF IInv, ExchangesAssumption
<1> HIDE DEF i
<1>4. /\ items \in Seq(Exchange) /\ Len(items) \in Nat
      /\ s \in Seq(Exchange) /\ Len(s) = Len(items) /\ s[i] = e
      /\ \A j \in 1..Len(items) : j # i => s[j] = items[j]
      /\ \A j \in 1..Len(items) : items[j] \in Exchange
  BY <1>2, <1>3, ExceptSeq, LenProperties, ElementOfSeq DEF Sound
<1> HIDE DEF s
<1>5. \A j \in 1..Len(items) : s[j].id = items[j].id
  BY <1>2, <1>4
<1>6. \A j \in 1..Len(items) : j # i => items[j].id # id /\ items[j].id \in Nat
  BY <1>2, <1>3, <1>4 DEF Sound
<1>7. ASSUME NEW j \in 1..Len(s)
      PROVE  s[j].id \in 1..next /\ Joined(s[j], acc2, out2)
  <2>1. CASE j = i
    BY <1>2, <1>3, <1>4, <2>1 DEF Sound
  <2>2. CASE j # i
    BY <1>3, <1>4, <1>6, <2>2, SMTT(30) DEF Sound, Joined
  <2> QED BY <2>1, <2>2
<1>8. \A j, k \in 1..Len(s) : j < k => s[j].id < s[k].id
  BY <1>3, <1>4, <1>5 DEF Sound
<1>9. s # <<>> /\ Len(items) \in 1..Len(items)
  BY <1>2, <1>4, EmptySeq, LenProperties
<1>10. Sound(s, next, acc2, out2) /\ s # <<>> /\ s[Len(s)].id = items[Len(items)].id
  BY <1>4, <1>5, <1>7, <1>8, <1>9 DEF Sound
<1>11. Total(s) = used + size(e) - size(items[i]) /\ used \in Nat /\ size(items[i]) \in Nat
  <2>1. Total(s) = Total(items) + size(e) - size(items[i])
    BY <1>2, <1>4, TotalExcept DEF s
  <2> QED BY <1>2, <1>4, <2>1, TotalNatural, SizeNatural DEF IInv, Accounted
<1>12. /\ Sound(r.items, next, acc2, out2) /\ r.items # <<>>
       /\ r.items[Len(r.items)].id = s[Len(s)].id
       /\ r.used <= budget \/ Len(r.items) = 1
       /\ r.used = Total(r.items)
       /\ \A j \in 1..Len(r.items) : \E k \in 1..Len(s) : r.items[j] = s[k]
  <2>1. n = Total(s)
    BY <1>11
  <2> HIDE DEF n
  <2> QED BY <1>3, <1>10, <2>1, SoundEvicted
<1>13. \A j \in 1..Len(s) : s[j].id \in ids
  <2>1. \A j \in 1..Len(items) : items[j].id \in ids
    BY <1>4, LenProperties DEF ids
  <2> QED BY <1>4, <1>5, <2>1
<1>14. Keeps(r.items, r.used, acc2, out2)
  BY <1>10, <1>12, <1>13 DEF Keeps
<1>15. size(e) = size(items[i]) => Keeps(s, used, acc2, out2)
  BY <1>4, <1>10, <1>11, <1>13 DEF Keeps, IInv, Accounted, WithinBudget
<1> QED BY <1>1, <1>14, <1>15 DEF s, i

-----------------------------------------------------------------------------
\* Nothing is held, in flight or noted at first.
LEMMA Initial == Init => IInv
<1> SUFFICES ASSUME Init PROVE IInv
  OBVIOUS
<1>1. now \in Nat /\ next \in 0..MaxRequests /\ accepted \in [Ids -> Nat]
  BY ExchangesAssumption DEF Init, ExchangesAssumption
<1>2. outcome \in [Ids -> [status : Nat \cup {-1}, warned : BOOLEAN]]
  BY DEF Init, Unfinished
<1>3. Sound(items, next, accepted, outcome)
  <2>1. items \in Seq(Exchange) /\ Len(items) = 0
    BY EmptySeq DEF Init
  <2> QED BY <2>1 DEF Sound
<1>4. \A id \in Ids : flight[id] = {}
  BY DEF Init
<1>5. flight = [id \in Ids |-> flight[id]]
  BY DEF Init
<1>6. \A id \in Ids : accepted[id] = 0 /\ outcome[id] = Unfinished
  BY DEF Init
<1>7. WithinBudget /\ used = Total(items)
  BY TotalEmpty, ExchangesAssumption DEF Init, WithinBudget, ExchangesAssumption
<1> QED
  BY <1>1, <1>2, <1>3, <1>4, <1>5, <1>6, <1>7 DEF IInv, Accounted, NewestHeld, AgentAdmitted

\* Steps that leave the store, the requests in flight and the history alone.
LEMMA NothingHeldChanges ==
  ASSUME IInv, UNCHANGED <<store, flight, history>>, now' \in Nat, next' \in next..MaxRequests
  PROVE  IInv'
<1>1. next \in Nat /\ next' \in Nat /\ next' \in 0..MaxRequests /\ next <= next'
  BY ExchangesAssumption DEF IInv, ExchangesAssumption
<1>2. items' = items /\ used' = used /\ flight' = flight /\ accepted' = accepted /\ outcome' = outcome
  BY DEF store, history
<1>3. Sound(items, next', accepted, outcome)
  BY <1>1 DEF IInv, Sound
<1>4. \A id \in Ids : id > next' => id > next
  BY <1>1 DEF Ids
<1>5. (Accounted /\ AgentAdmitted)'
  BY <1>2, Zenon DEF IInv, Accounted, WithinBudget, NewestHeld, AgentAdmitted
<1> QED
  BY <1>1, <1>2, <1>3, <1>4, <1>5 DEF IInv

\* What the backend answers is noted, in the policy of a page that was reconciled.
LEMMA Noted ==
  ASSUME IInv, NEW id \in Ids, NEW status \in Nat, NEW warned \in BOOLEAN, NEW sent, NEW page,
         Note(id, status, warned, sent, page), Admits(page.policies, page.nonce), now' \in Nat
  PROVE  IInv'
<1> DEFINE st == [at |-> State(id).at, status |-> status, warned |-> warned, sent |-> sent, page |-> page]
<1>1. /\ items' = items /\ used' = used /\ accepted' = accepted /\ outcome' = outcome /\ next' = next
      /\ flight' = [flight EXCEPT ![id] = {st}] /\ flight[id] # {}
  BY DEF Note, Open, store, history
<1>2. flight = [k \in Ids |-> flight[k]]
  BY DEF IInv
<1>3. st.status = status /\ st.warned = warned /\ st.page = page
  OBVIOUS
<1> HIDE DEF st
<1>4. flight'[id] = {st} /\ \A k \in Ids : k # id => flight'[k] = flight[k]
  BY <1>1, <1>2
<1>5. flight' = [k \in Ids |-> flight'[k]]
  BY <1>1, <1>2
<1>6. \A k \in Ids : \A s \in flight'[k] : s.status \in Nat /\ s.warned \in BOOLEAN
  BY <1>3, <1>4 DEF IInv
<1>7. \A k \in Ids : k > next => flight'[k] = {}
  BY <1>1, <1>4 DEF IInv
<1>8. NewestHeld'
  BY <1>1, <1>4 DEF IInv, Accounted, NewestHeld
<1>9. AgentAdmitted'
  BY <1>3, <1>4 DEF IInv, AgentAdmitted
<1>10. Accounted'
  BY <1>1, <1>8 DEF IInv, Accounted, WithinBudget
<1> QED
  BY <1>1, <1>5, <1>6, <1>7, <1>9, <1>10 DEF IInv

\* A request leaves the hop.
LEMMA Left ==
  ASSUME IInv, NEW id \in Ids, flight' = [flight EXCEPT ![id] = {}]
  PROVE  /\ flight' = [k \in Ids |-> flight'[k]]
         /\ \A k \in Ids : flight'[k] \in {flight[k], {}}
<1>1. flight = [k \in Ids |-> flight[k]]
  BY DEF IInv
<1> QED BY <1>1

\* A store that stays joined and holds something as new as before, while some
\* requests leave the hop.
LEMMA StillHeld ==
  ASSUME IInv, now' \in Nat, next' = next,
         Keeps(items', used', accepted', outcome'),
         accepted' \in [Ids -> Nat], outcome' \in [Ids -> [status : Nat \cup {-1}, warned : BOOLEAN]],
         \A id \in Ids : id > next => accepted'[id] = 0 /\ outcome'[id] = Unfinished,
         flight' = [k \in Ids |-> flight'[k]], \A k \in Ids : flight'[k] \in {flight[k], {}}
  PROVE  IInv' /\ ids' \subseteq ids
<1>1. \A k \in Ids : flight'[k] # {} => flight'[k] = flight[k] /\ flight[k] # {}
  OBVIOUS
<1>2. \A k \in Ids : \A s \in flight'[k] : s.status \in Nat /\ s.warned \in BOOLEAN
  BY <1>1 DEF IInv
<1>3. \A k \in Ids : k > next => flight'[k] = {}
  BY <1>1 DEF IInv
<1>4. NewestHeld'
  BY <1>1 DEF IInv, Accounted, NewestHeld, Keeps
<1>5. AgentAdmitted'
  BY <1>1 DEF IInv, AgentAdmitted
<1>6. Accounted' /\ Sound(items', next, accepted', outcome')
  BY <1>4 DEF Accounted, WithinBudget, Keeps
<1>7. ids' \subseteq ids
  <2>1. DOMAIN items' = 1..Len(items')
    BY <1>6, LenProperties DEF Sound
  <2> QED BY <2>1 DEF ids, Keeps
<1> QED
  BY <1>2, <1>3, <1>4, <1>5, <1>6, <1>7 DEF IInv

\* The response is done: the Exchange is completed with what ServeHTTP holds.
LEMMA FinishKeeps ==
  ASSUME IInv, NEW id \in Ids, Finish(id)
  PROVE  IInv' /\ ids' \subseteq ids
<1> DEFINE st == State(id)
           o  == [status |-> st.status, warned |-> st.warned]
<1>1. /\ Complete(id, st) /\ outcome' = [outcome EXCEPT ![id] = o]
      /\ flight' = [flight EXCEPT ![id] = {}]
      /\ now' = now /\ next' = next /\ accepted' = accepted
  BY DEF Finish
<1>2. st \in flight[id] /\ st.status \in Nat /\ st.warned \in BOOLEAN
  BY DEF Finish, Answered, State, IInv
<1> HIDE DEF st
<1>3. o \in [status : Nat \cup {-1}, warned : BOOLEAN] /\ o # Unfinished /\ o.status = st.status /\ o.warned = st.warned
  BY <1>2 DEF Unfinished
<1> HIDE DEF o
<1>4. outcome' \in [Ids -> [status : Nat \cup {-1}, warned : BOOLEAN]] /\ outcome'[id] = o
      /\ \A k : k # id => outcome'[k] = outcome[k]
  <2>1. outcome \in [Ids -> [status : Nat \cup {-1}, warned : BOOLEAN]]
    BY DEF IInv
  <2>2. /\ outcome' \in [Ids -> [status : Nat \cup {-1}, warned : BOOLEAN]] /\ outcome'[id] = o
        /\ \A k \in Ids : k # id => outcome'[k] = outcome[k]
    BY <1>1, <1>3, <2>1
  <2> QED BY <1>1, <2>1, <2>2
<1>5. ~(id > next)
  BY <1>2 DEF IInv
<1>6. \A k \in Ids : k > next => accepted'[k] = 0 /\ outcome'[k] = Unfinished
  BY <1>1, <1>4, <1>5 DEF IInv
<1>7. flight' = [k \in Ids |-> flight'[k]] /\ \A k \in Ids : flight'[k] \in {flight[k], {}}
  BY <1>1, Left
<1>8. now' \in Nat /\ accepted' \in [Ids -> Nat]
  BY <1>1 DEF IInv
<1>9. Keeps(items', used', accepted', outcome')
  <2>1. CASE id \notin ids
    <3>1. items' = items /\ used' = used
      BY <2>1, <1>1 DEF Complete, store
    <3>2. Sound(items, next, accepted, outcome')
      <4>1. \A i \in 1..Len(items) : items[i].id # id
        <5>1. DOMAIN items = 1..Len(items)
          BY LenProperties DEF IInv, Sound
        <5> QED BY <2>1, <5>1 DEF ids
      <4>2. \A i \in 1..Len(items) : Joined(items[i], accepted, outcome')
        BY <1>4, <4>1 DEF IInv, Sound, Joined
      <4> QED BY <4>2 DEF IInv, Sound
    <3> QED BY <1>1, <3>1, <3>2, OwnIds DEF IInv, Accounted, WithinBudget, Keeps
  <2>2. CASE id \in ids
    <3> DEFINE x == items[Get(id)]
               e == [x EXCEPT !.status = st.status, !.warned = st.warned, !.took = now - x.at]
    <3>1. x \in Exchange /\ x.id = id /\ Joined(x, accepted, outcome) /\ id \in Nat
      BY <2>2, Held DEF Ids
    <3>2. items' = Changed(id, e).items /\ used' = Changed(id, e).used
      BY <1>1, <2>2 DEF Complete, Becomes
    <3>3. now \in Nat
      BY DEF IInv
    <3> HIDE DEF x
    <3>4. e \in Exchange /\ e.id = id /\ e.reports = x.reports /\ e.suppressed = x.suppressed
          /\ e.status = st.status /\ e.warned = st.warned
      <4>1. now - x.at \in Int
        BY <3>1, <3>3 DEF Exchange
      <4>2. PICK t \in Int, n \in Nat, w \in BOOLEAN : t = now - x.at /\ n = st.status /\ w = st.warned
        BY <4>1, <1>2
      <4>3. e = [x EXCEPT !.status = n, !.warned = w, !.took = t]
        BY <4>2
      <4> HIDE DEF e
      <4>4. /\ e \in Exchange /\ e.id = x.id /\ e.reports = x.reports /\ e.suppressed = x.suppressed
            /\ e.status = n /\ e.warned = w
        BY <3>1, <4>3 DEF Exchange
      <4> QED BY <3>1, <4>2, <4>4
    <3> HIDE DEF e
    <3>5. Joined(e, accepted, outcome')
      BY <1>3, <1>4, <3>1, <3>4 DEF Joined
    <3>6. \A k \in Nat : k # id => accepted[k] = accepted[k] /\ outcome'[k] = outcome[k]
      BY <1>4
    <3>7. Keeps(Changed(id, e).items, Changed(id, e).used, accepted, outcome')
      BY <2>2, <3>4, <3>5, <3>6, SoundChanged
    <3> QED BY <1>1, <3>2, <3>7
  <2> QED BY <2>1, <2>2
<1> QED
  BY <1>1, <1>4, <1>6, <1>7, <1>8, <1>9, StillHeld, ZenonT(30)

\* An aborted handler completes nothing and leaves the store alone.
LEMMA AbortKeeps ==
  ASSUME IInv, NEW id \in Ids, Abort(id)
  PROVE  IInv' /\ ids' \subseteq ids
<1>1. /\ items' = items /\ used' = used /\ accepted' = accepted /\ outcome' = outcome
      /\ flight' = [flight EXCEPT ![id] = {}] /\ now' = now /\ next' = next
  BY DEF Abort, store, history
<1>2. Keeps(items', used', accepted', outcome')
  BY <1>1, OwnIds DEF Keeps, IInv, Accounted, WithinBudget
<1>3. flight' = [k \in Ids |-> flight'[k]] /\ \A k \in Ids : flight'[k] \in {flight[k], {}}
  BY <1>1, Left
<1>4. /\ now' \in Nat
      /\ accepted' \in [Ids -> Nat] /\ outcome' \in [Ids -> [status : Nat \cup {-1}, warned : BOOLEAN]]
      /\ \A k \in Ids : k > next => accepted'[k] = 0 /\ outcome'[k] = Unfinished
  BY <1>1 DEF IInv
<1> QED BY <1>1, <1>2, <1>3, <1>4, StillHeld

\* A hop that stops loses what it holds and what is in flight together.
LEMMA StopKeeps ==
  ASSUME IInv, HopStops
  PROVE  IInv' /\ ids' \subseteq ids
<1>1. /\ items' = <<>> /\ used' = 0 /\ accepted' = accepted /\ outcome' = outcome
      /\ flight' = [k \in Ids |-> {}] /\ now' = now /\ next' = next
  BY DEF HopStops, history
<1>2. \A k \in Ids : flight'[k] = {}
  BY <1>1
<1>3. Sound(items', next, accepted, outcome)
  <2>1. items' \in Seq(Exchange) /\ Len(items') = 0
    BY <1>1, EmptySeq
  <2> QED BY <2>1 DEF Sound
<1>4. NewestHeld' /\ AgentAdmitted'
  BY <1>2 DEF NewestHeld, AgentAdmitted
<1>5. Accounted'
  BY <1>1, <1>4, TotalEmpty, ExchangesAssumption DEF Accounted, WithinBudget, ExchangesAssumption
<1>6. flight' = [k \in Ids |-> flight'[k]]
  BY <1>1
<1>7. ids' \subseteq ids
  BY <1>1 DEF ids
<1> QED BY <1>1, <1>2, <1>3, <1>4, <1>5, <1>6, <1>7 DEF IInv

\* A report is attached to the Exchange it is of, or to none.
LEMMA IngestKeeps ==
  ASSUME IInv, NEW id \in Ids, NEW n \in ReportSizes, NEW dom \in BOOLEAN, Ingest(id, n, dom)
  PROVE  IInv' /\ ids' \subseteq ids
<1> DEFINE r == [at |-> now', size |-> n]
<1>1. /\ Attach(id, r, dom) /\ accepted' = [accepted EXCEPT ![id] = IF id \in ids THEN @ + 1 ELSE @]
      /\ now' = now + 1 /\ next' = next /\ flight' = flight /\ outcome' = outcome
  BY DEF Ingest, Tick, history
<1>2. now' \in Nat /\ r \in Report
  <2>1. now' \in Nat /\ n \in Nat
    BY <1>1, ExchangesAssumption DEF IInv, ExchangesAssumption
  <2> QED BY <2>1 DEF Report
<1> HIDE DEF r
<1>3. /\ flight' = [k \in Ids |-> flight'[k]] /\ \A k \in Ids : flight'[k] \in {flight[k], {}}
      /\ outcome' \in [Ids -> [status : Nat \cup {-1}, warned : BOOLEAN]]
  BY <1>1 DEF IInv
<1>4. CASE id \notin ids
  <2>1. items' = items /\ used' = used /\ accepted' = accepted
    BY <1>1, <1>4 DEF Attach, store, IInv
  <2>2. Keeps(items', used', accepted', outcome')
    BY <1>1, <2>1, OwnIds DEF Keeps, IInv, Accounted, WithinBudget
  <2>3. /\ accepted' \in [Ids -> Nat]
        /\ \A k \in Ids : k > next => accepted'[k] = 0 /\ outcome'[k] = Unfinished
    BY <1>1, <2>1 DEF IInv
  <2> QED BY <1>1, <1>2, <1>3, <2>2, <2>3, StillHeld
<1>5. CASE id \in ids
  <2> DEFINE x == items[Get(id)]
  <2>1. x \in Exchange /\ x.id = id /\ Joined(x, accepted, outcome) /\ id \in Nat /\ id \in 1..next
    BY <1>5, Held DEF Ids
  <2>2. /\ accepted' \in [Ids -> Nat] /\ accepted'[id] = accepted[id] + 1 /\ accepted[id] \in Nat
        /\ \A k : k # id => accepted'[k] = accepted[k]
    <3>1. accepted \in [Ids -> Nat] /\ accepted' = [accepted EXCEPT ![id] = accepted[id] + 1]
      BY <1>1, <1>5 DEF IInv
    <3> QED BY <3>1
  <2>3. next \in Nat /\ \A k \in Ids : k > next => accepted'[k] = 0 /\ outcome'[k] = Unfinished
    BY <1>1, <2>1, <2>2, ExchangesAssumption DEF IInv, ExchangesAssumption
  <2>4. \A k \in Nat : k # id => accepted'[k] = accepted[k] /\ outcome[k] = outcome[k]
    BY <2>2
  <2>5. CASE Len(x.reports) >= maxReports
    <3> DEFINE e == [x EXCEPT !.suppressed = @ + 1]
    <3>1. items' = [items EXCEPT ![Get(id)] = e] /\ used' = used
      BY <1>1, <1>5, <2>5 DEF Attach, Becomes
    <3> HIDE DEF x
    <3>2. /\ e \in Exchange /\ e.id = id /\ e.reports = x.reports /\ e.suppressed = x.suppressed + 1
          /\ e.status = x.status /\ e.warned = x.warned /\ e.dom = x.dom
      BY <2>1 DEF Exchange
    <3>3. Len(x.reports) \in Nat /\ x.suppressed \in Nat
      BY <2>1, LenProperties DEF Exchange, Reports
    <3> HIDE DEF e
    <3>4. Joined(e, accepted', outcome)
      <4>1. Len(x.reports) + x.suppressed = accepted[id]
        BY <2>1 DEF Joined
      <4>2. Len(e.reports) + e.suppressed = accepted'[e.id]
        BY <2>2, <3>2, <3>3, <4>1
      <4> QED BY <2>1, <3>2, <4>2 DEF Joined
    <3>5. Keeps([items EXCEPT ![Get(id)] = e], used, accepted', outcome)
      <4>1. size(e) = size(x)
        BY <3>2 DEF size
      <4> QED BY <1>5, <2>4, <3>2, <3>4, <4>1, SoundChanged DEF x
    <3>6. Keeps(items', used', accepted', outcome')
      BY <1>1, <3>1, <3>5
    <3> QED BY <1>1, <1>2, <1>3, <2>2, <2>3, <3>6, StillHeld
  <2>6. CASE ~(Len(x.reports) >= maxReports)
    <3> DEFINE e == [x EXCEPT !.reports = Append(@, r), !.dom = @ \/ dom]
    <3>1. items' = Changed(id, e).items /\ used' = Changed(id, e).used
      BY <1>1, <1>5, <2>6 DEF Attach, Becomes
    <3> HIDE DEF x
    <3>2. /\ Len(x.reports) \in Nat /\ x.suppressed \in Nat
          /\ Append(x.reports, r) \in Reports /\ Len(Append(x.reports, r)) = Len(x.reports) + 1
      <4>1. x.reports \in Seq(Report) /\ x.suppressed \in Nat
        BY <2>1 DEF Exchange, Reports
      <4>2. /\ Len(x.reports) \in Nat /\ Append(x.reports, r) \in Seq(Report)
            /\ Len(Append(x.reports, r)) = Len(x.reports) + 1
        BY <1>2, <4>1, AppendProperties, LenProperties
      <4>3. maxReports \in Nat /\ ~(Len(x.reports) >= maxReports)
        BY <2>6, ExchangesAssumption DEF ExchangesAssumption, x
      <4> QED BY <4>1, <4>2, <4>3 DEF Reports
    <3>3. /\ e \in Exchange /\ e.id = id /\ e.reports = Append(x.reports, r) /\ e.suppressed = x.suppressed
          /\ e.status = x.status /\ e.warned = x.warned
      <4>1. PICK q \in Reports, d \in BOOLEAN : q = Append(x.reports, r) /\ d = (x.dom \/ dom)
        BY <3>2
      <4>2. e = [x EXCEPT !.reports = q, !.dom = d]
        BY <4>1
      <4> HIDE DEF e
      <4>3. /\ e \in Exchange /\ e.id = x.id /\ e.reports = q /\ e.suppressed = x.suppressed
            /\ e.status = x.status /\ e.warned = x.warned
        BY <2>1, <4>2 DEF Exchange
      <4> QED BY <2>1, <4>1, <4>3
    <3> HIDE DEF e
    <3>4. Joined(e, accepted', outcome)
      BY <2>1, <2>2, <3>2, <3>3 DEF Joined
    <3>5. Keeps(Changed(id, e).items, Changed(id, e).used, accepted', outcome)
      BY <1>5, <2>4, <3>3, <3>4, SoundChanged
    <3>6. Keeps(items', used', accepted', outcome')
      BY <1>1, <3>1, <3>5
    <3> QED BY <1>1, <1>2, <1>3, <2>2, <2>3, <3>6, StillHeld
  <2> QED BY <2>5, <2>6
<1> QED BY <1>4, <1>5

\* A new Exchange has the next id, under which nothing was noted yet.
LEMMA ReceiveKeeps ==
  ASSUME IInv, Receive
  PROVE  IInv' /\ ids' \subseteq ids \cup {next'}
<1> DEFINE e  == [id |-> next', at |-> now', host |-> Inspected, backend |-> Inspected, status |-> 0,
                  took |-> 0, warned |-> FALSE, reports |-> <<>>, suppressed |-> 0, dom |-> FALSE]
           st == [at |-> now', status |-> 0, warned |-> FALSE, sent |-> 0, page |-> NoPage]
           es == Append(items, e)
           r  == Evicted(es, used + size(e))
<1>1. /\ items' = r.items /\ used' = r.used /\ accepted' = accepted /\ outcome' = outcome
      /\ flight' = [flight EXCEPT ![next'] = {st}] /\ now' = now + 1 /\ next' = next + 1 /\ next < MaxRequests
  BY DEF Receive, Add, Becomes, Tick, history
<1>2. now' \in Nat /\ next \in Nat /\ next' \in Nat /\ next' \in 0..MaxRequests /\ next' \in Ids /\ next' > next
  BY <1>1, ExchangesAssumption DEF IInv, Ids, ExchangesAssumption
<1>3. /\ e \in Exchange /\ e.id = next + 1 /\ e.reports = <<>> /\ e.suppressed = 0
      /\ e.status = 0 /\ ~e.warned
  <2>1. <<>> \in Reports
    BY EmptySeq, ExchangesAssumption DEF Reports, ExchangesAssumption
  <2> QED BY <1>1, <1>2, <2>1 DEF Exchange
<1>4. st.status \in Nat /\ st.warned \in BOOLEAN /\ st.page = NoPage
  OBVIOUS
<1> HIDE DEF e, st
<1>5. Joined(e, accepted, outcome)
  <2>1. accepted[next'] = 0 /\ outcome[next'] = Unfinished
    BY <1>2 DEF IInv
  <2>2. Len(e.reports) = 0
    BY <1>3
  <2> QED BY <1>1, <1>3, <2>1, <2>2 DEF Joined
<1>6. Sound(es, next + 1, accepted, outcome) /\ es # <<>> /\ es[Len(es)] = e
  <2>1. Sound(items, next, accepted, outcome)
    BY DEF IInv
  <2> QED BY <1>2, <1>3, <1>5, <2>1, SoundAppend
<1>7. /\ Sound(r.items, next', accepted, outcome) /\ r.items # <<>>
      /\ r.items[Len(r.items)].id = next'
      /\ r.used <= budget \/ Len(r.items) = 1
      /\ r.used = Total(r.items)
      /\ \A i \in 1..Len(r.items) : \E j \in 1..Len(es) : r.items[i] = es[j]
  <2>1. Total(es) = used + size(e)
    BY <1>3, TotalAppend DEF IInv, Sound, Accounted
  <2> DEFINE n == used + size(e)  m == next + 1
  <2>2. m \in Nat /\ Sound(es, m, accepted, outcome) /\ es # <<>> /\ n = Total(es) /\ r = Evicted(es, n)
    BY <1>2, <1>6, <2>1
  <2>3. next' = m /\ es[Len(es)].id = m
    BY <1>1, <1>3, <1>6
  <2> HIDE DEF es, n, m, r
  <2>4. /\ Sound(r.items, m, accepted, outcome) /\ r.items # <<>>
        /\ r.items[Len(r.items)].id = es[Len(es)].id
        /\ r.used <= budget \/ Len(r.items) = 1
        /\ r.used = Total(r.items)
        /\ \A i \in 1..Len(r.items) : \E j \in 1..Len(es) : r.items[i] = es[j]
    BY <2>2, SoundEvicted
  <2> QED BY <2>3, <2>4
<1> HIDE DEF r
<1>8. flight = [k \in Ids |-> flight[k]]
  BY DEF IInv
<1>9. /\ flight' = [k \in Ids |-> flight'[k]] /\ flight'[next'] = {st}
      /\ \A k \in Ids : k # next' => flight'[k] = flight[k]
  BY <1>1, <1>2, <1>8
<1>10. \A k \in Ids : \A s \in flight'[k] : s.status \in Nat /\ s.warned \in BOOLEAN
  BY <1>4, <1>9 DEF IInv
<1>11. \A k \in Ids : k > next' => k > next /\ k # next'
  BY <1>1, <1>2 DEF Ids
<1>12. \A k \in Ids : k > next' => accepted'[k] = 0 /\ outcome'[k] = Unfinished /\ flight'[k] = {}
  BY <1>1, <1>9, <1>11 DEF IInv
<1>13. NewestHeld'
  <2>1. \A k \in Ids : flight'[k] # {} => next' >= k
    <3>1. \A k \in Ids : k \in Nat /\ (flight[k] # {} => ~(k > next))
      BY DEF IInv, Ids
    <3> QED BY <1>1, <1>2, <1>9, <3>1
  <2> QED BY <1>1, <1>7, <2>1 DEF NewestHeld
<1>14. AgentAdmitted'
  <2>1. Admits(NoPage.policies, NoPage.nonce)
    BY DEF Admits, NoPage
  <2> QED BY <1>4, <1>9, <2>1 DEF IInv, AgentAdmitted
<1>15. accepted' \in [Ids -> Nat] /\ outcome' \in [Ids -> [status : Nat \cup {-1}, warned : BOOLEAN]]
  BY <1>1 DEF IInv
<1>16. Sound(items', next', accepted', outcome') /\ Accounted'
  BY <1>1, <1>7, <1>13 DEF WithinBudget, Accounted
<1>17. ids' \subseteq ids \cup {next'}
  <2>1. \A j \in 1..Len(es) : es[j].id \in ids \cup {next'}
    <3>1. \A j \in 1..Len(es) : es[j] = e \/ \E k \in 1..Len(items) : es[j] = items[k]
      <4>1. items \in Seq(Exchange)
        BY DEF IInv, Sound
      <4>2. Len(items) \in Nat /\ Len(es) = Len(items) + 1 /\ \A k \in 1..Len(items) : es[k] = items[k]
        BY <1>3, <4>1, AppendProperties, LenProperties
      <4> QED BY <1>6, <4>2
    <3> QED BY <1>1, <1>3, <3>1, OwnIds
  <2>2. DOMAIN items' = 1..Len(items')
    BY <1>16, LenProperties DEF Sound
  <2> HIDE DEF es
  <2>3. \A i \in 1..Len(items') : \E j \in 1..Len(es) : items'[i] = es[j]
    BY <1>1, <1>7
  <2>4. \A i \in 1..Len(items') : items'[i].id \in ids \cup {next'}
    BY <2>1, <2>3
  <2> QED BY <2>2, <2>4 DEF ids
<1> QED
  BY <1>17, <1>2, <1>9, <1>10, <1>12, <1>13, <1>14, <1>15, <1>16 DEF IInv

-----------------------------------------------------------------------------
\* Every step keeps IInv.
LEMMA Inductive == IInv /\ [Next]_vars => IInv'
<1> SUFFICES ASSUME IInv, [Next]_vars PROVE IInv'
  OBVIOUS
<1>1. now \in Nat /\ next \in Nat /\ next <= MaxRequests /\ MaxRequests \in Nat
  BY ExchangesAssumption DEF IInv, ExchangesAssumption
<1>2. Tick => now' \in Nat
  BY <1>1 DEF Tick
<1>3. Admits(NoPage.policies, NoPage.nonce)
  BY DEF Admits, NoPage
<1>4. ASSUME NEW status \in {200, 500}, Serve(status) PROVE IInv'
  <2>1. UNCHANGED <<store, flight, history>> /\ now' \in Nat /\ next' \in next..MaxRequests
    BY <1>1, <1>2, <1>4 DEF Serve
  <2> QED BY <2>1, NothingHeldChanges
<1>5. CASE Receive
  BY <1>5, ReceiveKeeps
<1>6. CASE Refuse
  <2>1. UNCHANGED <<store, flight, history>> /\ now' \in Nat /\ next' \in next..MaxRequests
    BY <1>1, <1>2, <1>6 DEF Refuse
  <2> QED BY <2>1, NothingHeldChanges
<1>7. CASE HopStops
  BY <1>7, StopKeeps
<1>8. CASE HopStarts
  <2>1. UNCHANGED <<store, flight, history>> /\ now' \in Nat /\ next' \in next..MaxRequests
    BY <1>1, <1>8 DEF HopStarts
  <2> QED BY <2>1, NothingHeldChanges
<1>9. ASSUME NEW id \in Ids, NEW h \in Headers, InjectAgent(id, h) PROVE IInv'
  <2> DEFINE r    == reconcileCSP(h)
             page == [nonce |-> r.nonce, policies |-> r.policies]
  <2>1. Admits(r.policies, r.nonce)
    <3>1. DOMAIN h = 1..Len(h)
      BY ExchangesAssumption DEF ExchangesAssumption
    <3> QED BY <3>1, CSPAssumption, ReconciledAdmits
  <2>2. r.warned \in BOOLEAN
    BY DEF reconcileCSP
  <2>3. Note(id, 200, r.warned, 200, page) /\ now' \in Nat
    BY <1>2, <1>9 DEF InjectAgent
  <2>4. page.nonce = r.nonce /\ page.policies = r.policies
    OBVIOUS
  <2> HIDE DEF r, page
  <2>5. Admits(page.policies, page.nonce)
    BY <2>1, <2>4
  <2> QED BY <2>2, <2>3, <2>5, Noted
<1>10. ASSUME NEW id \in Ids, NEW status \in {200, 500}, PassThrough(id, status) PROVE IInv'
  <2>1. PICK warned \in BOOLEAN : Note(id, status, warned, status, NoPage)
    BY <1>10 DEF PassThrough
  <2>2. now' \in Nat
    BY <1>2, <1>10 DEF PassThrough
  <2> QED BY <1>3, <2>1, <2>2, Noted
<1>11. ASSUME NEW id \in Ids, NEW status \in {0, 200}, BadGateway(id, status) PROVE IInv'
  <2>1. PICK warned \in BOOLEAN : Note(id, status, warned, 502, NoPage) /\ now' \in Nat
    BY <1>1, <1>11 DEF BadGateway
  <2> QED BY <1>3, <2>1, Noted
<1>12. ASSUME NEW id \in Ids, Finish(id) PROVE IInv'
  BY <1>12, FinishKeeps
<1>13. ASSUME NEW id \in Ids, Abort(id) PROVE IInv'
  BY <1>13, AbortKeeps
<1>14. ASSUME NEW id \in Ids, NEW n \in ReportSizes, NEW dom \in BOOLEAN, Ingest(id, n, dom) PROVE IInv'
  BY <1>14, IngestKeeps
<1>15. ASSUME NEW c \in Containers, Recreate(c) PROVE IInv'
  <2>1. UNCHANGED <<store, flight, history>> /\ now' \in Nat /\ next' \in next..MaxRequests
    BY <1>1, <1>2, <1>15 DEF Recreate
  <2> QED BY <2>1, NothingHeldChanges
<1>16. CASE UNCHANGED vars
  <2>1. UNCHANGED <<store, flight, history>> /\ now' \in Nat /\ next' \in next..MaxRequests
    BY <1>1, <1>16 DEF vars
  <2> QED BY <2>1, NothingHeldChanges
<1> QED
  BY <1>4, <1>5, <1>6, <1>7, <1>8, <1>9, <1>10, <1>11, <1>12, <1>13, <1>14, <1>15, <1>16 DEF Next

\* The strengthening holds throughout.
LEMMA Invariant == Spec => []IInv
BY Initial, Inductive, PTL DEF Spec

\* Whatever order a request completes in, its page reports and the store evicts, a
\* held Exchange has what both halves said of it (Complete, Attach, store.go).
THEOREM HalvesMeet == Spec => []HalvesJoined
<1>1. IInv => HalvesJoined
  <2>1. ASSUME IInv PROVE DOMAIN items = 1..Len(items)
    BY <2>1, LenProperties DEF IInv, Sound
  <2> QED BY <2>1 DEF IInv, Sound, Joined, HalvesJoined
<1> QED BY <1>1, Invariant, PTL

\* Every page the hop sends out admits the agent, under every policy of it
\* (reconcileCSP, csp.go).
THEOREM PagesAdmitAgent == Spec => []AgentAdmitted
<1>1. IInv => AgentAdmitted
  BY DEF IInv
<1> QED BY <1>1, Invariant, PTL

\* The byte count is the sum of what is held, the store is over its budget only for
\* one Exchange, and its newest is at least as new as any open request: what Add
\* just took in is never what it evicts (store.go).
THEOREM StoreAccounted == Spec => []Accounted
<1>1. IInv => Accounted
  BY DEF IInv
<1> QED BY <1>1, Invariant, PTL

-----------------------------------------------------------------------------
(***************************************************************************)
(* What else is kept: requests, pages and the access log.                   *)
(***************************************************************************)
\* Ids and times stay within their bounds, and a request is in the hop once.
Bounded ==
  /\ now \in 0..MaxTime /\ up \in BOOLEAN /\ pages \subseteq Ids
  /\ \A id \in Ids : flight[id] = {} \/ \E st : flight[id] = {st} /\ st.at \in Nat

\* Only a step that receives a request, or serves one elsewhere, gives out an id.
LEMMA NoneAppears ==
  ASSUME IInv, [Next]_vars
  PROVE  ids' \subseteq ids \/ (Receive /\ ids' \subseteq ids \cup {next'})
<1>1. CASE items' = items
  BY <1>1 DEF ids
<1>2. CASE Receive
  BY <1>2, ReceiveKeeps
<1>3. CASE HopStops
  BY <1>3, StopKeeps
<1>4. ASSUME NEW id \in Ids, Finish(id) PROVE ids' \subseteq ids
  BY <1>4, FinishKeeps
<1>5. ASSUME NEW id \in Ids, NEW n \in ReportSizes, NEW dom \in BOOLEAN, Ingest(id, n, dom) PROVE ids' \subseteq ids
  BY <1>5, IngestKeeps
<1>6. CASE Refuse \/ HopStarts \/ UNCHANGED vars
  BY <1>1, <1>6 DEF Refuse, HopStarts, vars, store
<1>7. ASSUME NEW status \in {200, 500}, Serve(status) PROVE items' = items
  BY <1>7 DEF Serve, store
<1>8. ASSUME NEW id \in Ids, NEW h \in Headers, InjectAgent(id, h) PROVE items' = items
  BY <1>8 DEF InjectAgent, Note, store
<1>9. ASSUME NEW id \in Ids, NEW status \in {200, 500}, PassThrough(id, status) PROVE items' = items
  BY <1>9 DEF PassThrough, Note, store
<1>10. ASSUME NEW id \in Ids, NEW status \in {0, 200}, BadGateway(id, status) PROVE items' = items
  BY <1>10 DEF BadGateway, Note, store
<1>11. ASSUME NEW id \in Ids, Abort(id) PROVE items' = items
  BY <1>11 DEF Abort, store
<1>12. ASSUME NEW c \in Containers, Recreate(c) PROVE items' = items
  BY <1>12 DEF Recreate, store
<1> QED
  BY <1>1, <1>2, <1>3, <1>4, <1>5, <1>6, <1>7, <1>8, <1>9, <1>10, <1>11, <1>12 DEF Next

\* What becomes of the request a step is about.
LEMMA FlightOf ==
  ASSUME IInv, NEW id \in Ids, NEW f, flight' = [flight EXCEPT ![id] = f]
  PROVE  flight'[id] = f /\ \A k \in Ids : k # id => flight'[k] = flight[k]
<1>1. flight = [k \in Ids |-> flight[k]]
  BY DEF IInv
<1> QED BY <1>1

\* Bounded is kept: what is noted of a request has the time it was received.
LEMMA BoundedKept ==
  ASSUME IInv, Bounded, [Next]_vars
  PROVE  Bounded'
<1>1. Tick => now' \in 0..MaxTime
  BY ExchangesAssumption DEF Tick, Bounded, ExchangesAssumption
<1>2. ASSUME UNCHANGED <<flight, pages, up>>, now' \in 0..MaxTime PROVE Bounded'
  BY <1>2 DEF Bounded
<1>3. ASSUME NEW id \in Ids, flight' = [flight EXCEPT ![id] = {}], UNCHANGED <<now, pages, up>> PROVE Bounded'
  <2>1. flight'[id] = {} /\ \A k \in Ids : k # id => flight'[k] = flight[k]
    BY <1>3, FlightOf
  <2> QED BY <1>3, <2>1 DEF Bounded
<1>4. ASSUME NEW id \in Ids, NEW status, NEW warned, NEW sent, NEW page, Note(id, status, warned, sent, page),
             pages' \subseteq Ids, now' \in 0..MaxTime
      PROVE  Bounded'
  <2> DEFINE st == [at |-> State(id).at, status |-> status, warned |-> warned, sent |-> sent, page |-> page]
  <2>1. State(id) \in flight[id]
    BY <1>4 DEF Note, Open, State
  <2>2. st.at \in Nat
    BY <2>1 DEF Bounded
  <2>3. flight' = [flight EXCEPT ![id] = {st}] /\ up' = up
    BY <1>4 DEF Note
  <2> HIDE DEF st
  <2>4. flight'[id] = {st} /\ \A k \in Ids : k # id => flight'[k] = flight[k]
    BY <2>3, FlightOf
  <2>5. \A k \in Ids : flight'[k] = {} \/ \E s : flight'[k] = {s} /\ s.at \in Nat
    BY <2>2, <2>4 DEF Bounded
  <2> QED BY <1>4, <2>3, <2>5 DEF Bounded
<1>5. now \in 0..MaxTime /\ pages \subseteq Ids
  BY DEF Bounded
<1>6. CASE Receive
  <2> DEFINE st == [at |-> now', status |-> 0, warned |-> FALSE, sent |-> 0, page |-> NoPage]
  <2>1. /\ flight' = [flight EXCEPT ![next'] = {st}] /\ pages' = pages /\ up' = up /\ now' \in 0..MaxTime
        /\ next' = next + 1 /\ next < MaxRequests
    BY <1>1, <1>6 DEF Receive
  <2>2. next' \in Ids /\ st.at \in Nat
    BY <2>1, ExchangesAssumption DEF IInv, Ids, ExchangesAssumption
  <2> HIDE DEF st
  <2>3. flight'[next'] = {st} /\ \A k \in Ids : k # next' => flight'[k] = flight[k]
    BY <2>1, <2>2, FlightOf
  <2>4. \A k \in Ids : flight'[k] = {} \/ \E s : flight'[k] = {s} /\ s.at \in Nat
    BY <2>2, <2>3 DEF Bounded
  <2> QED BY <2>1, <2>4 DEF Bounded
<1>7. CASE HopStops
  <2>1. up' = FALSE /\ flight' = [k \in Ids |-> {}] /\ now' = now /\ pages' = pages
    BY <1>7 DEF HopStops
  <2>2. \A k \in Ids : flight'[k] = {}
    BY <2>1
  <2> QED BY <2>1, <2>2 DEF Bounded
<1>8. CASE HopStarts
  <2>1. up' = TRUE /\ UNCHANGED <<flight, pages, now>>
    BY <1>8 DEF HopStarts
  <2> QED BY <2>1 DEF Bounded
<1>9. CASE Refuse
  BY <1>1, <1>2, <1>9 DEF Refuse
<1>10. ASSUME NEW status \in {200, 500}, Serve(status) PROVE Bounded'
  BY <1>1, <1>2, <1>10 DEF Serve
<1>11. ASSUME NEW id \in Ids, NEW h \in Headers, InjectAgent(id, h) PROVE Bounded'
  <2> DEFINE r == reconcileCSP(h)
  <2>1. Note(id, 200, r.warned, 200, [nonce |-> r.nonce, policies |-> r.policies])
    BY <1>11 DEF InjectAgent
  <2>2. pages' \subseteq Ids /\ now' \in 0..MaxTime
    BY <1>1, <1>5, <1>11 DEF InjectAgent
  <2> QED BY <1>4, <2>1, <2>2
<1>12. ASSUME NEW id \in Ids, NEW status \in {200, 500}, PassThrough(id, status) PROVE Bounded'
  <2>1. PICK warned \in BOOLEAN : Note(id, status, warned, status, NoPage)
    BY <1>12 DEF PassThrough
  <2>2. pages' \subseteq Ids /\ now' \in 0..MaxTime
    BY <1>1, <1>5, <1>12 DEF PassThrough
  <2> QED BY <1>4, <2>1, <2>2
<1>13. ASSUME NEW id \in Ids, NEW status \in {0, 200}, BadGateway(id, status) PROVE Bounded'
  <2>1. PICK warned \in BOOLEAN : Note(id, status, warned, 502, NoPage) /\ pages' \subseteq Ids /\ now' \in 0..MaxTime
    BY <1>5, <1>13 DEF BadGateway
  <2> QED BY <1>4, <2>1
<1>14. ASSUME NEW id \in Ids, Finish(id) PROVE Bounded'
  BY <1>3, <1>14 DEF Finish
<1>15. ASSUME NEW id \in Ids, Abort(id) PROVE Bounded'
  BY <1>3, <1>15 DEF Abort
<1>16. ASSUME NEW id \in Ids, NEW n \in ReportSizes, NEW dom \in BOOLEAN, Ingest(id, n, dom) PROVE Bounded'
  BY <1>1, <1>2, <1>16 DEF Ingest
<1>17. ASSUME NEW c \in Containers, Recreate(c) PROVE Bounded'
  BY <1>1, <1>2, <1>17 DEF Recreate
<1>18. CASE UNCHANGED vars
  BY <1>2, <1>5, <1>18 DEF vars
<1> QED
  BY <1>6, <1>7, <1>8, <1>9, <1>10, <1>11, <1>12, <1>13, <1>14, <1>15, <1>16, <1>17, <1>18 DEF Next

\* What Traefik logged it logged of the hop, or of a request the hop never had.
Apart ==
  \A r \in log :
    r.at \in Nat /\ r.backend \in {Direct, Hop} /\ (r.backend = Direct => r.id \in 1..next /\ r.id \notin ids)

\* A record of the hop, or of a request that has the next id and stays out of the hop.
LEMMA ApartLogged ==
  ASSUME IInv, Apart, next' \in Nat, next <= next',
         \A id \in ids' : id \in ids \/ id = next + 1,
         \A r \in log' : \/ r \in log
                         \/ r.at \in Nat /\ r.backend = Hop
                         \/ r.at \in Nat /\ r.backend = Direct /\ r.id = next' /\ next' = next + 1 /\ ids' \subseteq ids
  PROVE  Apart'
<1>1. next \in Nat /\ \A id \in ids : id \in 1..next
  <2>1. next \in Nat
    BY ExchangesAssumption DEF IInv, ExchangesAssumption
  <2>2. \A i \in 1..Len(items) : items[i].id \in 1..next
    BY DEF IInv, Sound
  <2> QED BY <2>1, <2>2, OwnIds
<1>2. Direct # Hop
  BY DEF Direct, Hop
<1> SUFFICES ASSUME NEW r \in log'
             PROVE  /\ r.at \in Nat /\ r.backend \in {Direct, Hop}
                    /\ r.backend = Direct => r.id \in 1..next' /\ r.id \notin ids'
  BY DEF Apart
<1>3. CASE r \in log
  BY <1>1, <1>3 DEF Apart
<1>4. CASE r.at \in Nat /\ r.backend = Hop
  BY <1>2, <1>4
<1>5. CASE r.at \in Nat /\ r.backend = Direct /\ r.id = next' /\ next' = next + 1 /\ ids' \subseteq ids
  BY <1>1, <1>5
<1> QED BY <1>3, <1>4, <1>5

\* Apart is kept.
LEMMA ApartKept ==
  ASSUME IInv, Bounded, Apart, [Next]_vars
  PROVE  Apart'
<1>1. next \in Nat /\ now \in Nat /\ \A k \in Ids : flight[k] # {} => State(k).at \in Nat
  BY ExchangesAssumption DEF IInv, Bounded, State, ExchangesAssumption
<1>2. Tick => now' \in Nat
  BY <1>1 DEF Tick
<1>3. ids' \subseteq ids \/ (Receive /\ ids' \subseteq ids \cup {next'})
  BY NoneAppears
<1>4. CASE Receive
  <2>1. next' = next + 1 /\ log' = log
    BY <1>4 DEF Receive
  <2>2. \A id \in ids' : id \in ids \/ id = next + 1
    BY <1>3, <2>1
  <2> QED BY <1>1, <2>1, <2>2, ApartLogged
<1>5. ASSUME ~Receive, next' = next,
             \A r \in log' : r \in log \/ (r.at \in Nat /\ r.backend = Hop)
      PROVE  Apart'
  BY <1>1, <1>3, <1>5, ApartLogged
<1>6. ASSUME NEW status \in {200, 500}, Serve(status) PROVE Apart'
  <2> DEFINE r == [id |-> next', at |-> now', host |-> Direct, status |-> status, backend |-> Direct,
                   took |-> now' - now', done |-> now']
  <2>1. log' = log \cup {r} /\ next' = next + 1 /\ items' = items /\ now' \in Nat
    BY <1>2, <1>6 DEF Serve, Logged, store
  <2>2. r.at \in Nat /\ r.backend = Direct /\ r.id = next'
    BY <2>1
  <2>3. ids' = ids
    BY <2>1 DEF ids
  <2> HIDE DEF r
  <2>4. \A x \in log' : x \in log \/ (x.at \in Nat /\ x.backend = Direct /\ x.id = next' /\ next' = next + 1 /\ ids' \subseteq ids)
    BY <2>1, <2>2, <2>3
  <2> QED BY <1>1, <2>1, <2>3, <2>4, ApartLogged
<1>7. CASE Refuse
  <2> DEFINE r == [id |-> next', at |-> now', host |-> Inspected, status |-> 502, backend |-> Hop,
                   took |-> now' - now', done |-> now']
  <2>1. log' = log \cup {r} /\ next' = next + 1 /\ items' = items /\ now' \in Nat
    BY <1>2, <1>7 DEF Refuse, Logged, store
  <2>2. r.at \in Nat /\ r.backend = Hop
    BY <2>1
  <2>3. ids' = ids
    BY <2>1 DEF ids
  <2> HIDE DEF r
  <2>4. \A x \in log' : x \in log \/ (x.at \in Nat /\ x.backend = Hop)
    BY <2>1, <2>2
  <2> QED BY <1>1, <2>1, <2>3, <2>4, ApartLogged
<1>8. ASSUME ~Receive, NEW id \in Ids, flight[id] # {}, next' = next,
             Logged(id, State(id).at, Inspected, State(id).sent, Hop, now)
      PROVE  Apart'
  <2> DEFINE r == [id |-> id, at |-> State(id).at, host |-> Inspected, status |-> State(id).sent, backend |-> Hop,
                   took |-> now - State(id).at, done |-> now]
  <2>1. log' = log \cup {r}
    BY <1>8 DEF Logged
  <2>2. r.at \in Nat /\ r.backend = Hop
    BY <1>1, <1>8
  <2> HIDE DEF r
  <2> QED BY <1>5, <1>8, <2>1, <2>2
<1>9. CASE ~Receive /\ HopStops
  <2> DEFINE rec(id) == [id |-> id, at |-> State(id).at, host |-> Inspected, status |-> 502, backend |-> Hop,
                         took |-> now - State(id).at, done |-> now]
  <2>1. log' = log \cup {rec(id) : id \in {i \in Ids : flight[i] # {}}} /\ next' = next
    BY <1>9 DEF HopStops
  <2>2. \A id \in Ids : flight[id] # {} => rec(id).at \in Nat /\ rec(id).backend = Hop
    BY <1>1
  <2> HIDE DEF rec
  <2>3. \A r \in log' : r \in log \/ (r.at \in Nat /\ r.backend = Hop)
    BY <2>1, <2>2
  <2> QED BY <1>5, <1>9, <2>1, <2>3
<1>10. ASSUME ~Receive, NEW id \in Ids, Finish(id) PROVE Apart'
  <2>1. flight[id] # {} /\ next' = next /\ Logged(id, State(id).at, Inspected, State(id).sent, Hop, now)
    BY <1>10 DEF Finish, Answered
  <2> QED BY <1>8, <1>10, <2>1
<1>11. ASSUME ~Receive, NEW id \in Ids, Abort(id) PROVE Apart'
  <2>1. flight[id] # {} /\ next' = next /\ Logged(id, State(id).at, Inspected, State(id).sent, Hop, now)
    BY <1>11 DEF Abort, Answered
  <2> QED BY <1>8, <1>11, <2>1
<1>12. ASSUME ~Receive, UNCHANGED <<log, next>> PROVE Apart'
  BY <1>5, <1>12
<1>13. CASE HopStarts \/ UNCHANGED vars
  <2>1. UNCHANGED <<log, next>>
    BY <1>13 DEF HopStarts, vars
  <2> QED BY <1>4, <1>12, <2>1
<1>14. ASSUME NEW id \in Ids, NEW h \in Headers, InjectAgent(id, h) PROVE UNCHANGED <<log, next>>
  BY <1>14 DEF InjectAgent, Note
<1>15. ASSUME NEW id \in Ids, NEW status \in {200, 500}, PassThrough(id, status) PROVE UNCHANGED <<log, next>>
  BY <1>15 DEF PassThrough, Note
<1>16. ASSUME NEW id \in Ids, NEW status \in {0, 200}, BadGateway(id, status) PROVE UNCHANGED <<log, next>>
  BY <1>16 DEF BadGateway, Note
<1>17. ASSUME NEW id \in Ids, NEW n \in ReportSizes, NEW dom \in BOOLEAN, Ingest(id, n, dom) PROVE UNCHANGED <<log, next>>
  BY <1>17 DEF Ingest
<1>18. ASSUME NEW c \in Containers, Recreate(c) PROVE UNCHANGED <<log, next>>
  BY <1>18 DEF Recreate
<1> QED
  BY <1>4, <1>6, <1>7, <1>9, <1>10, <1>11, <1>12, <1>13, <1>14, <1>15, <1>16, <1>17, <1>18 DEF Next

\* Both hold throughout.
LEMMA AlsoInvariant == Spec => [](Bounded /\ Apart)
<1>1. Init => Bounded /\ Apart
  BY ExchangesAssumption DEF Init, Bounded, Apart, ExchangesAssumption
<1>2. IInv /\ (Bounded /\ Apart) /\ [Next]_vars => (Bounded /\ Apart)'
  BY BoundedKept, ApartKept
<1> QED BY <1>1, <1>2, Invariant, PTL DEF Spec

\* The store keeps ids in order and no more reports than it may (store.go), and the
\* hop has a request once.
THEOREM TypesCorrect == Spec => []TypeOK
<1>1. IInv /\ Bounded => TypeOK
  <2> SUFFICES ASSUME IInv, Bounded PROVE TypeOK
    OBVIOUS
  <2>1. items \in Seq(Exchange) /\ DOMAIN items = 1..Len(items)
    BY LenProperties DEF IInv, Sound
  <2>2. used \in Nat
    BY <2>1, TotalNatural DEF IInv, Accounted
  <2>3. \A i \in DOMAIN items : Len(items[i].reports) <= maxReports /\ items[i].id \in Ids
    <3>1. \A i \in 1..Len(items) : items[i] \in Exchange
      BY <2>1, ElementOfSeq
    <3>2. \A i \in 1..Len(items) : Len(items[i].reports) <= maxReports
      BY <3>1 DEF Exchange, Reports
    <3>3. \A i \in 1..Len(items) : items[i].id \in Ids
      BY ExchangesAssumption DEF IInv, Sound, Ids, ExchangesAssumption
    <3> QED BY <2>1, <3>2, <3>3
  <2>4. \A i, j \in DOMAIN items : i < j => items[i].id < items[j].id
    BY <2>1 DEF IInv, Sound
  <2>5. \A id \in Ids : Cardinality(flight[id]) <= 1
    <3>1. \A st : Cardinality({st}) = 1
      BY FS_Singleton
    <3>2. Cardinality({}) = 0
      BY FS_EmptySet
    <3>3. \A id \in Ids : flight[id] = {} \/ \E st : flight[id] = {st}
      BY DEF Bounded
    <3>4. \A id \in Ids : Cardinality(flight[id]) \in {0, 1}
      BY <3>1, <3>2, <3>3, Zenon
    <3> QED BY <3>4
  <2>6. next \in 0..MaxRequests
    BY DEF IInv
  <2> QED BY <2>2, <2>3, <2>4, <2>5, <2>6 DEF Bounded, TypeOK
<1> QED BY <1>1, Invariant, AlsoInvariant, PTL

\* The last activity of an Exchange is no earlier than any of its reports.
LEMMA ActivityReported ==
  ASSUME NEW e \in Exchange, NEW j \in DOMAIN e.reports
  PROVE  e.reports[j].at \in Nat /\ Activity(e) \in Nat /\ e.reports[j].at <= Activity(e)
<1> DEFINE rs == e.reports
           S == {e.at} \cup {rs[i].at : i \in DOMAIN rs}
<1>1. rs \in Seq(Report) /\ DOMAIN rs = 1..Len(rs) /\ Len(rs) \in Nat /\ e.at \in Nat
  BY LenProperties DEF Exchange, Reports
<1>2. \A i \in DOMAIN rs : rs[i].at \in Nat
  <2>1. \A i \in DOMAIN rs : rs[i] \in Report
    BY <1>1, ElementOfSeq
  <2> QED BY <2>1 DEF Report
<1>3. IsFiniteSet(S)
  <2>1. IsFiniteSet(DOMAIN rs)
    <3> DEFINE m == Len(rs)
    <3>1. m \in Int /\ DOMAIN rs = 1..m
      BY <1>1
    <3> HIDE DEF m
    <3>2. IsFiniteSet(1..m)
      BY <3>1, FS_Interval
    <3> QED BY <3>1, <3>2
  <2> DEFINE f == [i \in DOMAIN rs |-> rs[i].at]
             T == {f[i] : i \in DOMAIN rs}
  <2>2. S = T \cup {e.at}
    OBVIOUS
  <2>3. IsFiniteSet(T)
    <3> HIDE DEF f
    <3> QED BY <2>1, ImageFinite
  <2> HIDE DEF S, T
  <2> QED BY <2>2, <2>3, FS_AddElement
<1>4. S \in SUBSET Nat /\ S # {} /\ rs[j].at \in S
  BY <1>1, <1>2
<1>5. Activity(e) = Max(S)
  BY DEF Activity
<1> HIDE DEF S, rs
<1>6. Max(S) \in S /\ rs[j].at <= Max(S)
  BY <1>3, <1>4, MaxIsMember
<1> QED BY <1>4, <1>5, <1>6 DEF rs

\* Merge drops the half of the hop's Exchanges that Traefik logged and keeps the
\* other, so a page that reported is listed once (Access, hopExchanges, Merge).
THEOREM ReportsListed == Spec => []RecentReportListed
<1>1. IInv /\ Apart => RecentReportListed
  <2> SUFFICES ASSUME IInv, Apart, NEW i \in DOMAIN items, NEW since \in 1..now, up,
                      NEW j \in DOMAIN items[i].reports, items[i].reports[j].at >= since
               PROVE  Cardinality({e \in Listing(since) : e.id = items[i].id}) = 1
    BY DEF RecentReportListed
  <2> DEFINE e == items[i]
  <2>1. items \in Seq(Exchange) /\ DOMAIN items = 1..Len(items) /\ e \in Exchange /\ since \in Nat
    <3>1. items \in Seq(Exchange) /\ now \in Nat
      BY DEF IInv, Sound
    <3> QED BY <3>1, LenProperties, ElementOfSeq
  <2>2. Activity(e) >= since
    <3>1. e.reports[j].at \in Nat /\ Activity(e) \in Nat /\ e.reports[j].at <= Activity(e)
      BY <2>1, ActivityReported
    <3> QED BY <2>1, <3>1
  <2>3. Interesting(e)
    BY DEF Interesting
  <2>4. e \in Listing(since)
    <3>1. e \in ToSet(items)
      BY DEF ToSet
    <3>2. e \in hopExchanges(since)
      BY <2>2, <3>1 DEF hopExchanges, Select
    <3> QED BY <2>2, <2>3, <3>2 DEF Listing, Select, Window, Merge
  <2>5. ASSUME NEW f \in Listing(since), f.id = e.id PROVE f = e
    <3>1. f \in Window(since)
      BY <2>5 DEF Listing, Select
    <3>2. CASE f \in Access(since) /\ f.backend # Hop
      <4>1. PICK r \in log : f.id = r.id /\ f.backend = r.backend
        BY <3>2 DEF Access
      <4>2. r.id \notin ids
        BY <3>2, <4>1 DEF Apart
      <4> QED BY <2>5, <4>1, <4>2 DEF ids
    <3>3. CASE f \in hopExchanges(since)
      <4>1. PICK k \in DOMAIN items : f = items[k]
        BY <3>3 DEF hopExchanges, Select, ToSet
      <4>2. k = i
        BY <2>1, <2>5, <4>1 DEF IInv, Sound
      <4> QED BY <4>1, <4>2
    <3> QED BY <3>1, <3>2, <3>3 DEF Window, Merge, servedByTheStack
  <2>6. {f \in Listing(since) : f.id = e.id} = {e}
    BY <2>4, <2>5
  <2> QED BY <2>6, FS_Singleton
<1> QED BY <1>1, Invariant, AlsoInvariant, PTL

-----------------------------------------------------------------------------
(***************************************************************************)
(* Transcripts.                                                             *)
(***************************************************************************)
\* A window has the lines that were written in it, all of them and in their order.
LEMMA LinesInWindow ==
  ASSUME NEW S, NEW lines \in Seq(S), NEW from, NEW to
  PROVE  /\ InWindow(lines, from, to) \in Seq(S)
         /\ Selection(InWindow(lines, from, to), lines, {l \in S : from <= l.at /\ l.at <= to})
<1> DEFINE D == DOMAIN lines
           C == {l \in S : from <= l.at /\ l.at <= to}
           R(g) == g = [q \in SUBSET D |-> IF q = {} THEN <<>>
                          ELSE IF from <= lines[Max(q)].at /\ lines[Max(q)].at <= to
                               THEN Append(g[q \ {Max(q)}], lines[Max(q)]) ELSE g[q \ {Max(q)}]]
           F == CHOOSE g : R(g)
<1>1. InWindow(lines, from, to) = F[D]
  BY DEF InWindow, FoldLeft, MapThenFoldSet
<1>2. \A q \in SUBSET D : q # {} =>
        (lines[Max(q)] \in C <=> (from <= lines[Max(q)].at /\ lines[Max(q)].at <= to))
  <2>1. Len(lines) \in Nat /\ D = 1..Len(lines)
    BY LenProperties
  <2>2. \A q \in SUBSET D : q # {} => Max(q) \in D
    BY <2>1, LastPlace
  <2>3. \A i \in D : lines[i] \in S
    BY <2>1, ElementOfSeq
  <2> QED BY <2>2, <2>3
<1> HIDE DEF C
<1>3. \A g : R(g) <=> Selects(g, lines, C)
  BY <1>2 DEF Selects
<1>4. \E g : R(g)
  BY <1>3, SelectsExists
<1>5. Selects(F, lines, C)
  <2>1. R(F)
    <3> HIDE DEF R
    <3> QED BY <1>4
  <2> HIDE DEF R, F
  <2> QED BY <1>3, <2>1
<1> HIDE DEF F
<1> QED BY <1>1, <1>5, SelectsSelection DEF C

\* The first k lines, and the last.
LEMMA FirstAndLastLines ==
  ASSUME NEW S, NEW lines \in Seq(S), NEW k \in 0..Len(lines)
  PROVE  /\ FirstLines(lines, k) \in Seq(S) /\ Len(FirstLines(lines, k)) = k
         /\ \A i \in 1..k : FirstLines(lines, k)[i] = lines[i]
         /\ LastLines(lines, k) \in Seq(S) /\ Len(LastLines(lines, k)) = k
         /\ \A i \in 1..k : LastLines(lines, k)[i] = lines[Len(lines) - k + i]
<1> DEFINE n == Len(lines)
           a == n - k + 1
           fs == SubSeq(lines, 1, k)
           ls == SubSeq(lines, a, n)
<1>1. n \in Nat /\ k \in Nat /\ a \in 1..(n + 1) /\ n \in (a - 1)..n /\ k \in (1 - 1)..n /\ 1 \in 1..(n + 1)
  BY LenProperties
<1>2. FirstLines(lines, k) = fs /\ LastLines(lines, k) = ls
  BY DEF FirstLines, LastLines
<1>3. fs \in Seq(S) /\ Len(fs) = k /\ \A i \in 1..k : fs[i] = lines[i]
  BY <1>1, SubSeqProperties
<1>4. ls \in Seq(S) /\ Len(ls) = n - a + 1 /\ \A i \in 1..(n - a + 1) : ls[i] = lines[a + i - 1]
  <2> HIDE DEF a
  <2> QED BY <1>1, SubSeqProperties
<1>5. n - a + 1 = k /\ \A i \in 1..k : a + i - 1 = n - k + i
  BY <1>1
<1> HIDE DEF fs, ls
<1> QED BY <1>2, <1>3, <1>4, <1>5

\* A prefix that is taken has a line and leaves one; a suffix has a line.
LEMMA Taken ==
  ASSUME NEW S, NEW lines \in Seq(S), NEW lim
  PROVE  /\ Len(lines) <= 1 => take(lines, lim) = <<>>
         /\ Len(lines) > 1 => \E k \in 1..(Len(lines) - 1) : take(lines, lim) = FirstLines(lines, k)
         /\ lines = <<>> => takeBack(lines, lim) = <<>>
         /\ lines # <<>> => \E k \in 1..Len(lines) : takeBack(lines, lim) = LastLines(lines, k)
<1> DEFINE A == {n \in 1..(Len(lines) - 1) : Bytes(FirstLines(lines, n)) <= lim}
           B == {n \in 1..Len(lines) : Bytes(LastLines(lines, n)) <= lim}
<1>1. Len(lines) \in Nat /\ (lines # <<>> => Len(lines) > 0)
  BY LenProperties
<1>2. A \in SUBSET (1..(Len(lines) - 1)) /\ B \in SUBSET (1..Len(lines))
  OBVIOUS
<1>3. /\ Len(lines) <= 1 => take(lines, lim) = <<>>
      /\ Len(lines) > 1 => take(lines, lim) = FirstLines(lines, Max({1} \cup A))
      /\ lines = <<>> => takeBack(lines, lim) = <<>>
      /\ lines # <<>> => takeBack(lines, lim) = LastLines(lines, Max({1} \cup B))
  BY <1>1 DEF take, takeBack
<1> HIDE DEF A, B
<1>4. ASSUME NEW m \in Nat, m > 0, NEW C \in SUBSET (1..m) PROVE Max({1} \cup C) \in 1..m
  <2> DEFINE X == {1} \cup C
  <2>1. X \in SUBSET Nat /\ X # {} /\ X \subseteq 1..m
    BY <1>4
  <2>2. IsFiniteSet(X)
    <3>1. IsFiniteSet(1..m)
      BY FS_Interval
    <3> DEFINE D == 1..m
    <3>2. IsFiniteSet(D) /\ X \subseteq D
      BY <2>1, <3>1
    <3> HIDE DEF X, D
    <3> QED BY <3>2, FS_Subset
  <2> HIDE DEF X
  <2>3. Max(X) \in X
    BY <2>1, <2>2, MaxIsMember
  <2> QED BY <2>1, <2>3 DEF X
<1>5. CASE Len(lines) > 1
  <2>1. Len(lines) - 1 \in Nat /\ Len(lines) - 1 > 0
    BY <1>1, <1>5
  <2>2. Max({1} \cup A) \in 1..(Len(lines) - 1)
    BY <1>2, <1>4, <2>1
  <2>3. Max({1} \cup B) \in 1..Len(lines)
    <3>1. Len(lines) \in Nat /\ Len(lines) > 0
      BY <1>1, <1>5
    <3> QED BY <1>2, <1>4, <3>1
  <2> QED BY <1>1, <1>3, <1>5, <2>2, <2>3
<1>6. CASE ~(Len(lines) > 1)
  <2>1. Len(lines) <= 1
    BY <1>1, <1>6
  <2>2. lines # <<>> => Max({1} \cup B) \in 1..Len(lines)
    <3>1. ASSUME lines # <<>> PROVE Len(lines) \in Nat /\ Len(lines) > 0
      BY <1>1, <3>1
    <3> QED BY <1>2, <1>4, <3>1
  <2> QED BY <1>1, <1>3, <1>6, <2>1, <2>2
<1> QED BY <1>5, <1>6

\* What take leaves of lines: fewer of them, with the first one.
LEMMA HeadTaken ==
  ASSUME NEW S, NEW lines \in Seq(S), NEW lim
  PROVE  /\ take(lines, lim) \in Seq(S) /\ Len(take(lines, lim)) \in Nat
         /\ Len(lines) <= 1 => Len(take(lines, lim)) = 0
         /\ Len(lines) > 1 => /\ Len(take(lines, lim)) > 0 /\ Len(take(lines, lim)) < Len(lines)
                              /\ take(lines, lim)[1] = lines[1]
<1> DEFINE head == take(lines, lim)
<1>1. Len(lines) \in Nat
  BY LenProperties
<1>2. CASE Len(lines) <= 1
  <2>1. head = <<>>
    BY <1>2, Taken
  <2>2. head \in Seq(S) /\ Len(head) = 0
    BY <2>1, EmptySeq
  <2> QED BY <1>1, <1>2, <2>2
<1>3. CASE ~(Len(lines) <= 1)
  <2>1. Len(lines) > 1
    BY <1>1, <1>3
  <2>2. PICK k \in 1..(Len(lines) - 1) : head = FirstLines(lines, k)
    BY <2>1, Taken
  <2>3. k \in 0..Len(lines) /\ k > 0 /\ k < Len(lines) /\ k \in Nat /\ 1 \in 1..k
    BY <1>1
  <2>4. FirstLines(lines, k) \in Seq(S) /\ Len(FirstLines(lines, k)) = k /\ FirstLines(lines, k)[1] = lines[1]
    BY <2>3, FirstAndLastLines
  <2> HIDE DEF head
  <2> QED BY <1>3, <2>1, <2>2, <2>3, <2>4 DEF head
<1> QED BY <1>2, <1>3

\* What takeBack leaves of lines: the last one, when there is one.
LEMMA TailTaken ==
  ASSUME NEW S, NEW lines \in Seq(S), NEW lim
  PROVE  /\ takeBack(lines, lim) \in Seq(S) /\ Len(takeBack(lines, lim)) \in Nat
         /\ Len(takeBack(lines, lim)) <= Len(lines)
         /\ Len(lines) > 0 => /\ Len(takeBack(lines, lim)) > 0
                              /\ takeBack(lines, lim)[Len(takeBack(lines, lim))] = lines[Len(lines)]
<1> DEFINE tail == takeBack(lines, lim)
<1>1. Len(lines) \in Nat
  BY LenProperties
<1>2. CASE lines = <<>>
  <2>1. tail = <<>>
    BY <1>2, Taken
  <2>2. tail \in Seq(S) /\ Len(tail) = 0 /\ Len(lines) = 0
    BY <1>2, <2>1, EmptySeq
  <2> QED BY <2>2
<1>3. CASE lines # <<>>
  <2>1. PICK k \in 1..Len(lines) : tail = LastLines(lines, k)
    BY <1>3, Taken
  <2>2. k \in 0..Len(lines) /\ k > 0 /\ k <= Len(lines) /\ k \in Nat /\ k \in 1..k /\ Len(lines) - k + k = Len(lines)
    BY <1>1
  <2>3. LastLines(lines, k) \in Seq(S) /\ Len(LastLines(lines, k)) = k
        /\ LastLines(lines, k)[k] = lines[Len(lines) - k + k]
    BY <2>2, FirstAndLastLines
  <2> HIDE DEF tail
  <2> QED BY <2>1, <2>2, <2>3 DEF tail
<1> QED BY <1>2, <1>3

\* Some of the last lines.
LEMMA RestOfLines ==
  ASSUME NEW S, NEW lines \in Seq(S), NEW k \in Nat, k <= Len(lines)
  PROVE  /\ LastLines(lines, k) \in Seq(S) /\ Len(LastLines(lines, k)) = k
         /\ k > 0 => LastLines(lines, k)[k] = lines[Len(lines)]
<1>1. Len(lines) \in Nat /\ k \in 0..Len(lines)
  BY LenProperties
<1>2. LastLines(lines, k) \in Seq(S) /\ Len(LastLines(lines, k)) = k
  BY <1>1, FirstAndLastLines
<1>3. ASSUME k > 0 PROVE LastLines(lines, k)[k] = lines[Len(lines)]
  <2>1. k \in 1..k /\ Len(lines) - k + k = Len(lines)
    BY <1>1, <1>3
  <2>2. LastLines(lines, k)[k] = lines[Len(lines) - k + k]
    BY <1>1, <2>1, FirstAndLastLines
  <2> QED BY <2>1, <2>2
<1> QED BY <1>2, <1>3

\* Two parts of which the first has a line, the second too.
LEMMA JoinedParts ==
  ASSUME NEW S, NEW head \in Seq(S), NEW tail \in Seq(S), Len(head) > 0, Len(tail) > 0
  PROVE  LET shown == head \o tail
         IN  /\ shown \in Seq(S) /\ Len(shown) = Len(head) + Len(tail)
             /\ shown[1] = head[1] /\ shown[Len(shown)] = tail[Len(tail)]
<1> DEFINE shown == head \o tail
           n == Len(head) + Len(tail)
<1>1. Len(head) \in Nat /\ Len(tail) \in Nat
  BY LenProperties
<1>2. shown \in Seq(S) /\ Len(shown) = n
      /\ \A i \in 1..n : shown[i] = IF i <= Len(head) THEN head[i] ELSE tail[i - Len(head)]
  BY ConcatProperties
<1>3. 1 \in 1..n /\ n \in 1..n /\ 1 <= Len(head) /\ ~(n <= Len(head)) /\ n - Len(head) = Len(tail)
  BY <1>1
<1> HIDE DEF shown, n
<1>4. shown[1] = head[1] /\ shown[n] = tail[Len(tail)]
  BY <1>2, <1>3
<1> QED BY <1>2, <1>4 DEF shown, n

\* cut leaves the lines it has room for, in two parts with the first line and the
\* last, and counts the rest.
LEMMA CutCounts ==
  ASSUME NEW S, NEW lines \in Seq(S), NEW lim
  PROVE  LET t     == cut(lines, lim)
             shown == t.head \o t.tail
         IN  /\ shown \in Seq(S) /\ Len(shown) + t.dropped = Len(lines)
             /\ lines # <<>> => shown[1] = lines[1] /\ shown[Len(shown)] = lines[Len(lines)]
             /\ t.dropped > 0 => t.head # <<>> /\ t.tail # <<>>
<1> DEFINE n == Len(lines)
           head == take(lines, lim \div 2)
           rest == LastLines(lines, n - Len(head))
           tail == takeBack(rest, lim \div 2)
           dropped == n - Len(head) - Len(tail)
           t == cut(lines, lim)
           shown == t.head \o t.tail
<1>1. n \in Nat
  BY LenProperties
<1>2. t = IF Bytes(lines) <= lim \/ dropped <= 0 THEN [Silence EXCEPT !.head = lines]
          ELSE [head |-> head, tail |-> tail, dropped |-> dropped]
  BY DEF cut
<1> HIDE DEF t
<1>3. CASE Bytes(lines) <= lim \/ dropped <= 0
  <2>1. t.head = lines /\ t.tail = <<>> /\ t.dropped = 0
    BY <1>2, <1>3 DEF Silence
  <2>2. shown = lines
    BY <2>1, ConcatEmptySeq
  <2> HIDE DEF shown
  <2> QED BY <1>1, <2>1, <2>2 DEF t, shown
<1>4. CASE ~(Bytes(lines) <= lim \/ dropped <= 0)
  <2>1. t.head = head /\ t.tail = tail /\ t.dropped = dropped
    BY <1>2, <1>4
  <2>2. /\ head \in Seq(S) /\ Len(head) \in Nat /\ (n <= 1 => Len(head) = 0)
        /\ (n > 1 => Len(head) > 0 /\ Len(head) < n /\ head[1] = lines[1])
    BY HeadTaken
  <2> HIDE DEF head
  <2>3. n - Len(head) \in Nat /\ n - Len(head) <= n
    BY <1>1, <2>2
  <2>4. rest \in Seq(S) /\ Len(rest) = n - Len(head) /\ (n - Len(head) > 0 => rest[n - Len(head)] = lines[n])
    BY <2>3, RestOfLines
  <2> HIDE DEF rest
  <2>5. /\ tail \in Seq(S) /\ Len(tail) \in Nat /\ Len(tail) <= Len(rest)
        /\ (Len(rest) > 0 => Len(tail) > 0 /\ tail[Len(tail)] = rest[Len(rest)])
    BY <2>4, TailTaken
  <2> HIDE DEF tail
  <2>6. dropped > 0 /\ dropped \in Int
    BY <1>1, <1>4, <2>2, <2>5
  <2>7. n > 1
    BY <1>1, <2>2, <2>4, <2>5, <2>6
  <2>8. /\ Len(head) > 0 /\ head[1] = lines[1] /\ Len(rest) > 0
        /\ Len(tail) > 0 /\ tail[Len(tail)] = lines[n]
    BY <1>1, <2>2, <2>4, <2>5, <2>7
  <2>9. shown = head \o tail
    BY <2>1
  <2> HIDE DEF shown
  <2>10. /\ shown \in Seq(S) /\ Len(shown) = Len(head) + Len(tail)
         /\ shown[1] = head[1] /\ shown[Len(shown)] = tail[Len(tail)]
    BY <2>2, <2>5, <2>8, <2>9, JoinedParts
  <2>11. Len(shown) + dropped = n
    BY <1>1, <2>2, <2>5, <2>10
  <2>12. head # <<>> /\ tail # <<>>
    BY <2>8, EmptySeq
  <2> QED BY <2>1, <2>8, <2>10, <2>11, <2>12 DEF t, shown
<1> QED BY <1>3, <1>4

-----------------------------------------------------------------------------
\* The lines of a container are its own.
Lines(born) == [at : Nat, len : Nat, of : {born}]

\* A container with what it wrote.
Container(born) == [born : {born}, lines : Seq(Lines(born))]

\* Whoever has the name has the output it wrote itself, and none of a container before it.
Written ==
  /\ output = [c \in Containers |-> output[c]]
  /\ \A c \in Containers : \E born \in Nat : output[c] \in Container(born)

\* Recreating takes the output along with the name.
LEMMA WrittenKept ==
  ASSUME Bounded, Written, [Next]_vars
  PROVE  Written'
<1>1. Tick => now' \in Nat
  BY ExchangesAssumption DEF Tick, Bounded, ExchangesAssumption
<1>2. ASSUME NEW c \in Containers, NEW new, NEW born \in Nat, new \in Container(born),
             output' = [output EXCEPT ![c] = new]
      PROVE  Written'
  <2>1. output'[c] = new /\ \A d \in Containers : d # c => output'[d] = output[d]
    BY <1>2 DEF Written
  <2>2. output' = [d \in Containers |-> output'[d]]
    BY <1>2 DEF Written
  <2>3. \A d \in Containers : \E b \in Nat : output'[d] \in Container(b)
    BY <1>2, <2>1 DEF Written
  <2> QED BY <2>2, <2>3 DEF Written
<1>3. ASSUME NEW c \in Containers, Writes(c), Tick PROVE Written'
  <2> DEFINE old == output[c]
             line == [at |-> now', len |-> 1, of |-> old.born]
             new == [old EXCEPT !.lines = Append(@, line)]
  <2>1. PICK born \in Nat : old \in Container(born)
    BY DEF Written
  <2>2. line \in Lines(born) /\ old.lines \in Seq(Lines(born))
    BY <1>1, <1>3, <2>1 DEF Lines, Container
  <2>3. output' = [output EXCEPT ![c] = new]
    BY <1>3 DEF Writes
  <2> HIDE DEF line
  <2>4. Append(old.lines, line) \in Seq(Lines(born))
    BY <2>2, AppendProperties
  <2>5. new \in Container(born)
    BY <2>1, <2>4 DEF Container
  <2> HIDE DEF new
  <2> QED BY <1>2, <2>3, <2>5
<1>4. ASSUME NEW c \in Containers, Recreate(c) PROVE Written'
  <2> DEFINE line == [at |-> now', len |-> 1, of |-> now']
             new == [born |-> now', lines |-> <<line>>]
  <2>1. output' = [output EXCEPT ![c] = new] /\ now' \in Nat
    BY <1>1, <1>4 DEF Recreate
  <2>2. line \in Lines(now')
    BY <2>1 DEF Lines
  <2> HIDE DEF line
  <2>3. <<line>> \in Seq(Lines(now'))
    BY <2>2, SMT
  <2>4. new \in Container(now')
    BY <2>3 DEF Container
  <2> HIDE DEF new
  <2> QED BY <1>2, <2>1, <2>4
<1>5. ASSUME UNCHANGED output PROVE Written'
  BY <1>5 DEF Written
<1>6. ASSUME NEW status \in {200, 500}, Serve(status) PROVE Written'
  BY <1>3, <1>6 DEF Serve, Containers
<1>7. ASSUME NEW id \in Ids, NEW h \in Headers, InjectAgent(id, h) PROVE Written'
  BY <1>3, <1>7 DEF InjectAgent, Containers
<1>8. ASSUME NEW id \in Ids, NEW status \in {200, 500}, PassThrough(id, status) PROVE Written'
  BY <1>3, <1>8 DEF PassThrough, Containers
<1>9. ASSUME NEW id \in Ids, NEW status \in {0, 200}, BadGateway(id, status) PROVE Written'
  BY <1>5, <1>9 DEF BadGateway, project
<1>10. ASSUME NEW id \in Ids, Finish(id) \/ Abort(id) PROVE Written'
  BY <1>5, <1>10 DEF Finish, Abort, project
<1>11. ASSUME NEW id \in Ids, NEW n \in ReportSizes, NEW dom \in BOOLEAN, Ingest(id, n, dom) PROVE Written'
  BY <1>5, <1>11 DEF Ingest, project
<1>12. CASE Receive \/ Refuse \/ HopStops \/ HopStarts \/ UNCHANGED vars
  BY <1>5, <1>12 DEF Receive, Refuse, HopStops, HopStarts, vars, project
<1> QED BY <1>4, <1>6, <1>7, <1>8, <1>9, <1>10, <1>11, <1>12 DEF Next

\* t is true to lines, those of a container born then, for a request at that time.
TrueTo(t, lines, born, at) ==
  LET shown == t.head \o t.tail
  IN  /\ \A i \in DOMAIN shown : shown[i].of < at + Second
      /\ born <= at => Len(shown) + t.dropped = Len(lines)
      /\ (born <= at /\ lines # <<>>) =>
           shown[1] = lines[1] /\ shown[Len(shown)] = lines[Len(lines)]
      /\ t.dropped > 0 => t.head # <<>> /\ t.tail # <<>>

\* The second of an instant begins at or before it, and less than a second before.
LEMMA SecondBegins ==
  ASSUME NEW born \in Nat
  PROVE  born - (born % Second) \in Int /\ born - (born % Second) <= born /\ born - (born % Second) > born - Second
<1>1. born % Second \in 0..(Second - 1)
  BY TranscriptAssumption DEF TranscriptAssumption
<1> DEFINE r == born % Second
<1>2. r \in Int /\ 0 <= r /\ r < Second /\ Second \in Int
  BY <1>1, TranscriptAssumption DEF TranscriptAssumption
<1> HIDE DEF r
<1>3. born - r \in Int /\ born - r <= born /\ born - r > born - Second
  BY <1>2
<1> QED BY <1>3 DEF r

\* What quote leaves of the output of a container, of what it wrote itself and in a
\* window: nothing when the second it was created in began after the request.
LEMMA QuotedOwn ==
  ASSUME NEW at \in Nat, NEW born \in Nat, NEW own \in Seq(Lines(born)), NEW from, NEW to,
         NEW listed \in Int, listed <= born, listed > born - Second,
         NEW t, t = IF listed > at THEN Silence ELSE cut(InWindow(own, from, to), limit)
  PROVE  TrueTo(t, InWindow(own, from, to), born, at)
<1> DEFINE lines == InWindow(own, from, to)
           shown == t.head \o t.tail
           S == Lines(born)
<1>1. lines \in Seq(S)
  BY LinesInWindow
<1> HIDE DEF lines
<1>2. CASE listed > at
  <2>1. t = Silence /\ ~(born <= at)
    BY <1>2
  <2>2. t.head = <<>> /\ t.tail = <<>> /\ ~(t.dropped > 0)
    BY <2>1 DEF Silence
  <2>3. shown = <<>> /\ DOMAIN shown = {}
    <3>0. <<>> \in Seq({})
      OBVIOUS
    <3>1. t.head \in Seq({}) /\ t.tail = <<>>
      BY <2>2, <3>0, Zenon
    <3>2. shown = t.head
      BY <3>1, ConcatEmptySeq
    <3> HIDE DEF shown
    <3> QED BY <2>2, <3>2
  <2> HIDE DEF shown
  <2> QED BY <2>1, <2>2, <2>3 DEF lines, shown, TrueTo
<1>3. CASE ~(listed > at)
  <2>1. t = cut(lines, limit) /\ born < at + Second
    BY <1>3, TranscriptAssumption DEF lines, TranscriptAssumption
  <2> HIDE DEF S
  <2>2. /\ shown \in Seq(S) /\ Len(shown) + t.dropped = Len(lines)
        /\ lines # <<>> => shown[1] = lines[1] /\ shown[Len(shown)] = lines[Len(lines)]
        /\ t.dropped > 0 => t.head # <<>> /\ t.tail # <<>>
    <3>1. LET u == cut(lines, limit)
              v == u.head \o u.tail
          IN  /\ v \in Seq(S) /\ Len(v) + u.dropped = Len(lines)
              /\ lines # <<>> => v[1] = lines[1] /\ v[Len(v)] = lines[Len(lines)]
              /\ u.dropped > 0 => u.head # <<>> /\ u.tail # <<>>
      BY <1>1, CutCounts, Zenon
    <3> QED BY <2>1, <3>1, Zenon
  <2> HIDE DEF shown
  <2>3. \A i \in DOMAIN shown : shown[i] \in S
    BY <2>2, ElementOfSeq, LenProperties
  <2>4. \A i \in DOMAIN shown : shown[i].of < at + Second
    BY <2>1, <2>3 DEF S, Lines
  <2> QED BY <2>1, <2>2, <2>4 DEF lines, shown, TrueTo
<1> QED BY <1>2, <1>3

\* A Transcript quotes no container that took the name a second or more after the
\* request, and one that was there from the first to the last line of the window,
\* counting what it leaves out (quote, cut).
THEOREM TranscriptsFaithful == Spec => []TranscriptFaithful
<1>1. Init => Written
  <2> SUFFICES ASSUME Init PROVE Written
    OBVIOUS
  <2> DEFINE none == <<>>
             new == [born |-> 0, lines |-> none]
  <2>1. output = [c \in Containers |-> new]
    BY DEF Init
  <2>2. none \in Seq(Lines(0))
    BY EmptySeq
  <2> HIDE DEF none
  <2>3. new \in Container(0)
    BY <2>2 DEF Container
  <2> HIDE DEF new
  <2> QED BY <2>1, <2>3 DEF Written
<1>2. IInv /\ Apart /\ Written => TranscriptFaithful
  <2> SUFFICES ASSUME IInv, Apart, Written, NEW e \in Window(0)
               PROVE  LET t     == Quoted(e)
                          c     == output[e.backend]
                          lines == InWindow(c.lines, From(e), To(e))
                          shown == t.head \o t.tail
                      IN  /\ \A i \in DOMAIN shown : shown[i].of < e.at + Second
                          /\ c.born <= e.at => Len(shown) + t.dropped = Len(lines)
                          /\ (c.born <= e.at /\ lines # <<>>) =>
                               shown[1] = lines[1] /\ shown[Len(shown)] = lines[Len(lines)]
                          /\ t.dropped > 0 => t.head # <<>> /\ t.tail # <<>>
    BY DEF TranscriptFaithful
  <2>1. e.backend \in Containers /\ e.at \in Nat
    <3>1. CASE e \in Access(0) /\ e.backend # Hop
      <4>1. PICK r \in log : e.at = r.at /\ e.backend = r.backend
        BY <3>1 DEF Access
      <4> QED BY <3>1, <4>1 DEF Apart, Containers
    <3>2. CASE e \in hopExchanges(0)
      <4>1. PICK i \in DOMAIN items : e = items[i]
        BY <3>2 DEF hopExchanges, Select, ToSet
      <4>2. items \in Seq(Exchange) /\ i \in 1..Len(items)
        BY LenProperties DEF IInv, Sound
      <4>3. e \in Exchange
        BY <4>1, <4>2, ElementOfSeq
      <4> QED BY <4>3 DEF Exchange, Containers
    <3> QED BY <3>1, <3>2 DEF Window, Merge, servedByTheStack
  <2>2. e.backend # ""
    BY <2>1 DEF Containers, Inspected, Direct
  <2>3. PICK born \in Nat : output[e.backend] \in Container(born)
    BY <2>1 DEF Written
  <2> DEFINE c == output[e.backend]
  <2>4. Quoted(e) = quote(e, {c}, limit)
    <3>1. {output[d] : d \in Containers \cap {e.backend}} = {c}
      BY <2>1
    <3> QED BY <3>1 DEF Quoted
  <2>5. c.born = born /\ c.lines \in Seq(Lines(born))
    BY <2>3 DEF Container
  <2> HIDE DEF c
  <2> DEFINE listed == born - (born % Second)
  <2>6. Quoted(e) = IF listed > e.at THEN Silence ELSE cut(InWindow(c.lines, From(e), To(e)), limit)
    <3>1. (CHOOSE x \in {c} : TRUE) = c
      OBVIOUS
    <3>2. (\A x \in {c} : Created(x) > e.at) <=> listed > e.at
      BY <2>5 DEF Created
    <3> QED BY <2>2, <2>4, <3>1, <3>2 DEF quote
  <2> DEFINE at == e.at  from == From(e)  to == To(e)  t == Quoted(e)
  <2>7. at \in Nat /\ t = IF listed > at THEN Silence ELSE cut(InWindow(c.lines, from, to), limit)
    BY <2>1, <2>6
  <2>8. listed \in Int /\ listed <= born /\ listed > born - Second
    BY SecondBegins
  <2> HIDE DEF at, from, to, t, listed
  <2>9. TrueTo(t, InWindow(c.lines, from, to), born, at)
    BY <2>3, <2>5, <2>7, <2>8, QuotedOwn
  <2> QED BY <2>5, <2>9 DEF c, at, from, to, t, TrueTo
<1>3. Bounded /\ Written /\ [Next]_vars => Written'
  BY WrittenKept
<1> QED BY <1>1, <1>2, <1>3, Invariant, AlsoInvariant, PTL DEF Spec
=============================================================================
