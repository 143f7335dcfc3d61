-------------------------- MODULE CollectionsProofs --------------------------
(***************************************************************************)
(* What proofs need to know of Total, for any finite set of accounts,      *)
(* tasks or nodes; of subsequences, of what stands at a rank when a set is *)
(* put in order, and of sequences without repetition.                      *)
(***************************************************************************)
EXTENDS Collections, FunctionTheorems, FiniteSetTheorems, WellFoundedInduction, TLAPS

\* The coins held at one place are as many as its amount says.
LEMMA CoinsAtOnePlace ==
  ASSUME NEW x, NEW n \in Nat
  PROVE  IsFiniteSet({x} \X (1..n)) /\ Cardinality({x} \X (1..n)) = n
<1>. DEFINE numbers == 1..n
            place == {x}
<1>1. IsFiniteSet(numbers) /\ Cardinality(numbers) = n
  BY FS_Interval
<1>2. IsFiniteSet(place) /\ Cardinality(place) = 1
  BY FS_Singleton
<1>. HIDE DEF numbers, place
<1>3. IsFiniteSet(place \X numbers)
      /\ Cardinality(place \X numbers) = Cardinality(place) * Cardinality(numbers)
  BY <1>1, <1>2, FS_Product
<1>4. Cardinality(place \X numbers) = n
  BY <1>1, <1>2, <1>3
<1>. QED
  BY <1>3, <1>4 DEF place, numbers

\* Finitely many places hold finitely many coins.
LEMMA CoinsFinite ==
  ASSUME NEW S, IsFiniteSet(S), NEW f \in [S -> Nat]
  PROVE  IsFiniteSet(Coins(f))
<1>. DEFINE g == [x \in S |-> {x} \X (1..f[x])]
            parts == { {x} \X (1..f[x]) : x \in S }
<1>1. g \in Surjection(S, parts)
  BY DEF Surjection
<1>2. IsFiniteSet(parts)
  BY <1>1, FS_Surjection
<1>3. \A T \in parts : IsFiniteSet(T)
  <2>1. ASSUME NEW x \in S PROVE IsFiniteSet({x} \X (1..f[x]))
    <3>1. f[x] \in Nat
      OBVIOUS
    <3>. QED
      BY <3>1, CoinsAtOnePlace
  <2>. QED
    BY <2>1, Zenon
<1>. HIDE DEF parts
<1>4. IsFiniteSet(UNION parts)
  BY <1>2, <1>3, FS_UNION
<1>. QED
  BY <1>4 DEF Coins, parts

\* A total of natural amounts is a natural number.
LEMMA TotalType ==
  ASSUME NEW S, IsFiniteSet(S), NEW f \in [S -> Nat]
  PROVE  Total(f) \in Nat
  BY CoinsFinite, FS_CardinalityType DEF Total

\* The coins elsewhere than at x.
Elsewhere(f, x) == UNION { {y} \X (1..f[y]) : y \in (DOMAIN f) \ {x} }

\* A total is the amount at one place plus the coins elsewhere.
LEMMA TotalSplit ==
  ASSUME NEW S, IsFiniteSet(S), NEW f \in [S -> Nat], NEW x \in S
  PROVE  /\ IsFiniteSet(Elsewhere(f, x))
         /\ Total(f) = f[x] + Cardinality(Elsewhere(f, x))
<1>. DEFINE here == {x} \X (1..f[x])
            rest == Elsewhere(f, x)
<1>1. Coins(f) = here \cup rest
  BY DEF Coins, Elsewhere
<1>2. here \cap rest = {}
  BY DEF Elsewhere
<1>3. IsFiniteSet(here) /\ Cardinality(here) = f[x]
  BY CoinsAtOnePlace
<1>4. rest \in SUBSET Coins(f)
  BY <1>1
<1>. HIDE DEF here, rest
<1>5. IsFiniteSet(rest)
  BY <1>4, CoinsFinite, FS_Subset
<1>6. Cardinality(here \cup rest)
        = Cardinality(here) + Cardinality(rest) - Cardinality(here \cap rest)
  BY <1>3, <1>5, FS_Union
<1>7. Cardinality(here \cap rest) = 0
  BY <1>2, FS_EmptySet
<1>8. Cardinality(rest) \in Nat
  BY <1>5, FS_CardinalityType
<1>9. Total(f) = f[x] + Cardinality(rest)
  BY <1>1, <1>3, <1>6, <1>7, <1>8 DEF Total
<1>. QED
  BY <1>5, <1>9 DEF rest

\* No amount exceeds the total.
LEMMA TotalBounds ==
  ASSUME NEW S, IsFiniteSet(S), NEW f \in [S -> Nat], NEW x \in S
  PROVE  f[x] <= Total(f)
<1>1. Cardinality(Elsewhere(f, x)) \in Nat
  BY TotalSplit, FS_CardinalityType
<1>2. Total(f) = f[x] + Cardinality(Elsewhere(f, x)) /\ f[x] \in Nat
  BY TotalSplit
<1>. QED
  BY <1>1, <1>2

\* Functions that differ at one place differ in total by what differs there.
LEMMA TotalDiffersAtOnePlace ==
  ASSUME NEW S, IsFiniteSet(S), NEW f \in [S -> Nat], NEW g \in [S -> Nat],
         NEW x \in S, \A y \in S \ {x} : g[y] = f[y]
  PROVE  Total(g) = Total(f) - f[x] + g[x]
<1>1. Elsewhere(g, x) = Elsewhere(f, x)
  BY DEF Elsewhere
<1>2. Total(f) = f[x] + Cardinality(Elsewhere(f, x)) /\ f[x] \in Nat
  BY TotalSplit
<1>3. Total(g) = g[x] + Cardinality(Elsewhere(f, x)) /\ g[x] \in Nat
  BY <1>1, TotalSplit
<1>4. Cardinality(Elsewhere(f, x)) \in Nat
  BY TotalSplit, FS_CardinalityType
<1>. QED
  BY <1>2, <1>3, <1>4

\* Nothing anywhere is nothing in total.
LEMMA TotalOfNothing ==
  ASSUME NEW S, NEW f \in [S -> Nat], \A x \in S : f[x] = 0
  PROVE  Total(f) = 0
<1>1. Coins(f) = {}
  BY DEF Coins
<1>. QED
  BY <1>1, FS_EmptySet DEF Total

\* More everywhere is no less in total.
LEMMA TotalMonotone ==
  ASSUME NEW S, IsFiniteSet(S), NEW f \in [S -> Nat], NEW g \in [S -> Nat],
         \A x \in S : f[x] <= g[x]
  PROVE  Total(f) <= Total(g)
<1>1. Coins(f) \in SUBSET Coins(g)
  BY DEF Coins
<1>. QED
  BY <1>1, CoinsFinite, FS_Subset DEF Total

\* An amount of any place has that many coins there.
CoinsAt(f, x) == {x} \X (1..f[x])

LEMMA PlaceCoins ==
  ASSUME NEW S, NEW f \in [S -> Nat]
  PROVE  /\ Coins(f) = UNION {CoinsAt(f, x) : x \in S}
         /\ \A x \in S : IsFiniteSet(CoinsAt(f, x)) /\ Cardinality(CoinsAt(f, x)) = f[x]
<1>1. Coins(f) = UNION {CoinsAt(f, x) : x \in S}
  BY DEF Coins, CoinsAt
<1>2. ASSUME NEW x \in S PROVE IsFiniteSet(CoinsAt(f, x)) /\ Cardinality(CoinsAt(f, x)) = f[x]
  BY CoinsAtOnePlace DEF CoinsAt
<1>. QED
  BY <1>1, <1>2

\* What is multiplied everywhere is multiplied in total.
LEMMA TotalScaled ==
  ASSUME NEW S, IsFiniteSet(S), NEW f \in [S -> Nat], NEW c \in Nat, NEW g \in [S -> Nat],
         \A x \in S : g[x] = c * f[x]
  PROVE  Total(g) = c * Total(f)
<1>. DEFINE times == 1..c
<1>1. IsFiniteSet(times) /\ Cardinality(times) = c
  BY FS_Interval
<1>. HIDE DEF times
<1>2. ASSUME NEW x \in S PROVE Bijection(CoinsAt(g, x), times \X CoinsAt(f, x)) # {}
  <2>1. IsFiniteSet(CoinsAt(f, x)) /\ Cardinality(CoinsAt(f, x)) = f[x]
    BY PlaceCoins
  <2>2. IsFiniteSet(CoinsAt(g, x)) /\ Cardinality(CoinsAt(g, x)) = g[x]
    BY PlaceCoins
  <2>3. /\ IsFiniteSet(times \X CoinsAt(f, x))
        /\ Cardinality(times \X CoinsAt(f, x)) = Cardinality(times) * Cardinality(CoinsAt(f, x))
    BY <1>1, <2>1, FS_Product
  <2>4. ExistsBijection(CoinsAt(g, x), times \X CoinsAt(f, x))
    BY <1>1, <2>1, <2>2, <2>3, FS_SameCardinalityBij
  <2>. QED
    BY <2>4 DEF ExistsBijection
<1>. DEFINE b == [x \in S |-> CHOOSE h : h \in Bijection(CoinsAt(g, x), times \X CoinsAt(f, x))]
            F == [k \in Coins(g) |-> b[k[1]][k]]
<1>3. \A x \in S : b[x] \in Bijection(CoinsAt(g, x), times \X CoinsAt(f, x))
  BY <1>2
<1>. HIDE DEF b
<1>4. \A x \in S : /\ b[x] \in [CoinsAt(g, x) -> times \X CoinsAt(f, x)]
                   /\ \A j, k \in CoinsAt(g, x) : b[x][j] = b[x][k] => j = k
                   /\ \A y \in times \X CoinsAt(f, x) : \E k \in CoinsAt(g, x) : b[x][k] = y
  <2>. SUFFICES ASSUME NEW x \in S
                PROVE  /\ b[x] \in [CoinsAt(g, x) -> times \X CoinsAt(f, x)]
                       /\ \A j, k \in CoinsAt(g, x) : b[x][j] = b[x][k] => j = k
                       /\ \A y \in times \X CoinsAt(f, x) : \E k \in CoinsAt(g, x) : b[x][k] = y
    OBVIOUS
  <2>. DEFINE P == CoinsAt(g, x)
              Q == times \X CoinsAt(f, x)
              h == b[x]
  <2>1. h \in Bijection(P, Q)
    BY <1>3
  <2>. HIDE DEF P, Q, h
  <2>2. h \in [P -> Q] /\ (\A j, k \in P : h[j] = h[k] => j = k) /\ \A y \in Q : \E k \in P : h[k] = y
    BY <2>1, Fun_BijectionProperties
  <2>. QED
    BY <2>2 DEF P, Q, h
<1>5. \A k \in Coins(g) : k[1] \in S /\ k \in CoinsAt(g, k[1])
  BY DEF Coins, CoinsAt
<1>6. \A k \in Coins(g) : F[k] \in times \X CoinsAt(f, k[1])
  BY <1>4, <1>5
<1>7. \A x \in S : \A y \in times \X CoinsAt(f, x) : y \in times \X Coins(f) /\ y[2][1] = x
  BY DEF Coins, CoinsAt
<1>8. F \in [Coins(g) -> times \X Coins(f)]
  BY <1>5, <1>6, <1>7
<1>9. \A j, k \in Coins(g) : F[j] = F[k] => j = k
  <2>. SUFFICES ASSUME NEW j \in Coins(g), NEW k \in Coins(g), F[j] = F[k] PROVE j = k
    OBVIOUS
  <2>1. j[1] = k[1]
    BY <1>5, <1>6, <1>7
  <2>. QED
    BY <1>4, <1>5, <2>1
<1>10. \A y \in times \X Coins(f) : \E k \in Coins(g) : F[k] = y
  <2>. SUFFICES ASSUME NEW y \in times \X Coins(f) PROVE \E k \in Coins(g) : F[k] = y
    OBVIOUS
  <2>1. PICK x \in S : y \in times \X CoinsAt(f, x)
    BY DEF Coins, CoinsAt
  <2>2. PICK k \in CoinsAt(g, x) : b[x][k] = y
    BY <1>4, <2>1
  <2>3. k \in Coins(g) /\ k[1] = x
    BY <2>2 DEF Coins, CoinsAt
  <2>. QED
    BY <2>2, <2>3
<1>. HIDE DEF F
<1>11. F \in Bijection(Coins(g), times \X Coins(f))
  BY <1>8, <1>9, <1>10, Fun_IsBij
<1>12. Cardinality(times \X Coins(f)) = Cardinality(Coins(g))
  BY <1>11, CoinsFinite, FS_Bijection DEF ExistsBijection
<1>13. Cardinality(times \X Coins(f)) = Cardinality(times) * Cardinality(Coins(f))
  BY <1>1, CoinsFinite, FS_Product
<1>. QED
  BY <1>1, <1>12, <1>13 DEF Total

\* Places under other names hold the same in total.
LEMMA TotalRenamed ==
  ASSUME NEW S, IsFiniteSet(S), NEW R, NEW f \in [S -> Nat], NEW g \in [R -> Nat],
         NEW name \in Bijection(S, R), \A x \in S : g[name[x]] = f[x]
  PROVE  Total(g) = Total(f)
<1>. DEFINE F == [k \in Coins(f) |-> <<name[k[1]], k[2]>>]
<1>1. /\ name \in [S -> R]
      /\ \A x, y \in S : name[x] = name[y] => x = y
      /\ \A r \in R : \E x \in S : name[x] = r
  BY Fun_BijectionProperties
<1>2. \A k \in Coins(f) : k[1] \in S /\ k[2] \in 1..f[k[1]] /\ k = <<k[1], k[2]>>
  BY DEF Coins
<1>3. F \in [Coins(f) -> Coins(g)]
  <2>. SUFFICES ASSUME NEW k \in Coins(f) PROVE <<name[k[1]], k[2]>> \in Coins(g)
    OBVIOUS
  <2>. QED
    BY <1>1, <1>2 DEF Coins
<1>4. \A j, k \in Coins(f) : F[j] = F[k] => j = k
  BY <1>1, <1>2
<1>5. \A y \in Coins(g) : \E k \in Coins(f) : F[k] = y
  <2>. SUFFICES ASSUME NEW y \in Coins(g) PROVE \E k \in Coins(f) : F[k] = y
    OBVIOUS
  <2>1. y[1] \in R /\ y[2] \in 1..g[y[1]] /\ y = <<y[1], y[2]>>
    BY DEF Coins
  <2>2. PICK x \in S : name[x] = y[1]
    BY <1>1, <2>1
  <2>3. <<x, y[2]>> \in Coins(f)
    BY <2>1, <2>2 DEF Coins
  <2>. QED
    BY <2>1, <2>2, <2>3
<1>. HIDE DEF F
<1>6. F \in Bijection(Coins(f), Coins(g))
  BY <1>3, <1>4, <1>5, Fun_IsBij
<1>. QED
  BY <1>6, CoinsFinite, FS_Bijection DEF ExistsBijection, Total

\* Where nothing is, nothing is counted.
LEMMA TotalOfPart ==
  ASSUME NEW S, NEW D, D \subseteq S, NEW f \in [S -> Nat], NEW h \in [D -> Nat],
         \A x \in D : f[x] = h[x], \A x \in S \ D : f[x] = 0
  PROVE  Total(f) = Total(h)
<1>1. Coins(f) = Coins(h)
  BY DEF Coins
<1>. QED
  BY <1>1 DEF Total

\* What is added everywhere, in places that held nothing, is added in total.
LEMMA TotalAdds ==
  ASSUME NEW S, IsFiniteSet(S), NEW f \in [S -> Nat], NEW g \in [S -> Nat], NEW h \in [S -> Nat],
         \A x \in S : f[x] = g[x] + h[x] /\ (g[x] = 0 \/ h[x] = 0)
  PROVE  Total(f) = Total(g) + Total(h)
<1>1. Coins(f) = Coins(g) \cup Coins(h)
  BY DEF Coins
<1>2. Coins(g) \cap Coins(h) = {}
  BY DEF Coins
<1>3. /\ IsFiniteSet(Coins(g)) /\ IsFiniteSet(Coins(h))
      /\ Cardinality(Coins(g)) \in Nat /\ Cardinality(Coins(h)) \in Nat
  BY CoinsFinite, FS_CardinalityType
<1>4. Cardinality(Coins(g) \cup Coins(h))
        = Cardinality(Coins(g)) + Cardinality(Coins(h)) - Cardinality(Coins(g) \cap Coins(h))
  BY <1>3, FS_Union
<1>5. Cardinality(Coins(g) \cap Coins(h)) = 0
  BY <1>2, FS_EmptySet
<1>. QED
  BY <1>1, <1>3, <1>4, <1>5 DEF Total

\* What is added everywhere is added in total.
LEMMA TotalOfSum ==
  ASSUME NEW S, IsFiniteSet(S), NEW f \in [S -> Nat], NEW g \in [S -> Nat], NEW h \in [S -> Nat],
         \A x \in S : f[x] = g[x] + h[x]
  PROVE  Total(f) = Total(g) + Total(h)
<1>. DEFINE above == {k \in Coins(f) : k[2] > g[k[1]]}
            F == [k \in above |-> <<k[1], k[2] - g[k[1]]>>]
<1>1. \A k \in Coins(f) : k[1] \in S /\ k[2] \in 1..f[k[1]] /\ k = <<k[1], k[2]>>
  BY DEF Coins
<1>2. \A x \in S, i \in Nat : /\ <<x, i>> \in Coins(f) <=> i \in 1..f[x]
                              /\ <<x, i>> \in Coins(g) <=> i \in 1..g[x]
                              /\ <<x, i>> \in Coins(h) <=> i \in 1..h[x]
  BY DEF Coins
<1>3. Coins(g) \subseteq Coins(f)
  BY DEF Coins
<1>4. Coins(f) = Coins(g) \cup above /\ Coins(g) \cap above = {}
  <2>1. ASSUME NEW k \in Coins(f), k \notin above PROVE k \in Coins(g)
    <3>1. k[2] \in 1..g[k[1]]
      BY <1>1, <2>1
    <3>. QED
      BY <1>1, <1>2, <3>1
  <2>2. ASSUME NEW k \in Coins(g) PROVE k \notin above
    <3>1. k[1] \in S /\ k[2] \in 1..g[k[1]]
      BY DEF Coins
    <3>2. ~(k[2] > g[k[1]])
      BY <3>1
    <3>. QED
      BY <3>2
  <2>. QED
    BY <1>3, <2>1, <2>2
<1>5. F \in [above -> Coins(h)]
  <2>. SUFFICES ASSUME NEW k \in above PROVE <<k[1], k[2] - g[k[1]]>> \in Coins(h)
    OBVIOUS
  <2>1. k[1] \in S /\ k[2] \in 1..f[k[1]] /\ k[2] > g[k[1]]
    BY <1>1
  <2>2. k[2] - g[k[1]] \in 1..h[k[1]]
    BY <2>1
  <2>. QED
    BY <1>2, <2>1, <2>2
<1>6. \A j, k \in above : F[j] = F[k] => j = k
  <2>. SUFFICES ASSUME NEW j \in above, NEW k \in above, F[j] = F[k] PROVE j = k
    OBVIOUS
  <2>1. j[1] = k[1] /\ j[2] - g[j[1]] = k[2] - g[k[1]]
    OBVIOUS
  <2>. QED
    BY <1>1, <2>1
<1>7. \A y \in Coins(h) : \E k \in above : F[k] = y
  <2>. SUFFICES ASSUME NEW y \in Coins(h) PROVE \E k \in above : F[k] = y
    OBVIOUS
  <2>1. y[1] \in S /\ y[2] \in 1..h[y[1]] /\ y = <<y[1], y[2]>>
    BY DEF Coins
  <2>. DEFINE k == <<y[1], y[2] + g[y[1]]>>
  <2>2. y[2] + g[y[1]] \in 1..f[y[1]] /\ y[2] + g[y[1]] > g[y[1]]
    BY <2>1
  <2>3. k \in above
    BY <1>2, <2>1, <2>2
  <2>4. F[k] = <<y[1], (y[2] + g[y[1]]) - g[y[1]]>>
    BY <2>3
  <2>5. (y[2] + g[y[1]]) - g[y[1]] = y[2]
    BY <2>1
  <2>. QED
    BY <2>1, <2>3, <2>4, <2>5
<1>8. above \in SUBSET Coins(f)
  OBVIOUS
<1>. HIDE DEF F, above
<1>9. IsFiniteSet(above) /\ IsFiniteSet(Coins(g)) /\ Cardinality(above) \in Nat /\ Cardinality(Coins(g)) \in Nat
  BY <1>8, CoinsFinite, FS_Subset, FS_CardinalityType
<1>10. F \in Bijection(above, Coins(h))
  BY <1>5, <1>6, <1>7, Fun_IsBij
<1>11. Cardinality(Coins(h)) = Cardinality(above)
  BY <1>9, <1>10, FS_Bijection DEF ExistsBijection
<1>12. Cardinality(Coins(g) \cup above)
        = Cardinality(Coins(g)) + Cardinality(above) - Cardinality(Coins(g) \cap above)
  BY <1>9, FS_Union
<1>13. Cardinality(Coins(g) \cap above) = 0
  BY <1>4, FS_EmptySet
<1>. QED
  BY <1>4, <1>9, <1>11, <1>12, <1>13 DEF Total

\* What is totalled group by group is the total.
Group(f, of, w) == [x \in {y \in DOMAIN f : of[y] = w} |-> f[x]]

LEMMA TotalOfGroups ==
  ASSUME NEW S, IsFiniteSet(S), NEW P, NEW f \in [S -> Nat], NEW of \in [S -> P],
         NEW g \in [P -> Nat], IsFiniteSet(P), \A w \in P : g[w] = Total(Group(f, of, w))
  PROVE  Total(g) = Total(f)
<1>1. ASSUME NEW w \in P PROVE Bijection(CoinsAt(g, w), Coins(Group(f, of, w))) # {}
  <2>. DEFINE D == {y \in S : of[y] = w}
  <2>1. D \in SUBSET S /\ Group(f, of, w) \in [D -> Nat]
    BY DEF Group
  <2>2. IsFiniteSet(D)
    BY <2>1, FS_Subset
  <2>3. IsFiniteSet(Coins(Group(f, of, w))) /\ Cardinality(Coins(Group(f, of, w))) = g[w]
    <3>. HIDE DEF D
    <3>. QED
      BY <2>1, <2>2, CoinsFinite DEF Total
  <2>4. IsFiniteSet(CoinsAt(g, w)) /\ Cardinality(CoinsAt(g, w)) = g[w]
    BY PlaceCoins
  <2>5. ExistsBijection(CoinsAt(g, w), Coins(Group(f, of, w)))
    BY <2>3, <2>4, FS_SameCardinalityBij
  <2>. QED
    BY <2>5 DEF ExistsBijection
<1>. DEFINE b == [w \in P |-> CHOOSE m : m \in Bijection(CoinsAt(g, w), Coins(Group(f, of, w)))]
            F == [k \in Coins(g) |-> b[k[1]][k]]
<1>2. \A w \in P : b[w] \in Bijection(CoinsAt(g, w), Coins(Group(f, of, w)))
  BY <1>1
<1>. HIDE DEF b
<1>3. \A w \in P : /\ b[w] \in [CoinsAt(g, w) -> Coins(Group(f, of, w))]
                   /\ \A j, k \in CoinsAt(g, w) : b[w][j] = b[w][k] => j = k
                   /\ \A y \in Coins(Group(f, of, w)) : \E k \in CoinsAt(g, w) : b[w][k] = y
  <2>. SUFFICES ASSUME NEW w \in P
                PROVE  /\ b[w] \in [CoinsAt(g, w) -> Coins(Group(f, of, w))]
                       /\ \A j, k \in CoinsAt(g, w) : b[w][j] = b[w][k] => j = k
                       /\ \A y \in Coins(Group(f, of, w)) : \E k \in CoinsAt(g, w) : b[w][k] = y
    OBVIOUS
  <2>. DEFINE A == CoinsAt(g, w)
              Q == Coins(Group(f, of, w))
              m == b[w]
  <2>1. m \in Bijection(A, Q)
    BY <1>2
  <2>. HIDE DEF A, Q, m
  <2>2. m \in [A -> Q] /\ (\A j, k \in A : m[j] = m[k] => j = k) /\ \A y \in Q : \E k \in A : m[k] = y
    BY <2>1, Fun_BijectionProperties
  <2>. QED
    BY <2>2 DEF A, Q, m
<1>4. \A k \in Coins(g) : k[1] \in P /\ k \in CoinsAt(g, k[1])
  BY DEF Coins, CoinsAt
<1>5. \A w \in P : \A y \in Coins(Group(f, of, w)) : y \in Coins(f) /\ y[1] \in S /\ of[y[1]] = w
  <2>. SUFFICES ASSUME NEW w \in P, NEW y \in Coins(Group(f, of, w))
                PROVE  y \in Coins(f) /\ y[1] \in S /\ of[y[1]] = w
    OBVIOUS
  <2>. DEFINE part == Group(f, of, w)
  <2>1. y[1] \in DOMAIN part /\ y \in {y[1]} \X (1..part[y[1]])
    BY DEF Coins
  <2>2. y[1] \in S /\ of[y[1]] = w /\ part[y[1]] = f[y[1]]
    BY <2>1 DEF Group
  <2>. HIDE DEF part
  <2>. QED
    BY <2>1, <2>2 DEF Coins
<1>6. \A y \in Coins(f) : y[1] \in S /\ of[y[1]] \in P /\ y \in Coins(Group(f, of, of[y[1]]))
  <2>. SUFFICES ASSUME NEW y \in Coins(f)
                PROVE  y[1] \in S /\ of[y[1]] \in P /\ y \in Coins(Group(f, of, of[y[1]]))
    OBVIOUS
  <2>. DEFINE part == Group(f, of, of[y[1]])
  <2>1. y[1] \in S /\ y \in {y[1]} \X (1..f[y[1]])
    BY DEF Coins
  <2>2. y[1] \in DOMAIN part /\ part[y[1]] = f[y[1]]
    BY <2>1 DEF Group
  <2>. HIDE DEF part
  <2>3. y \in Coins(part)
    BY <2>1, <2>2 DEF Coins
  <2>. QED
    BY <2>1, <2>3 DEF part
<1>7. F \in [Coins(g) -> Coins(f)]
  BY <1>3, <1>4, <1>5
<1>8. \A j, k \in Coins(g) : F[j] = F[k] => j = k
  <2>. SUFFICES ASSUME NEW j \in Coins(g), NEW k \in Coins(g), F[j] = F[k] PROVE j = k
    OBVIOUS
  <2>0. F[j] = b[j[1]][j] /\ F[k] = b[k[1]][k]
    OBVIOUS
  <2>1. of[F[j][1]] = j[1] /\ of[F[k][1]] = k[1]
    BY <1>3, <1>4, <1>5, <2>0
  <2>2. j[1] = k[1]
    BY <2>1
  <2>. DEFINE w == j[1]
  <2>3. w \in P /\ j \in CoinsAt(g, w) /\ k \in CoinsAt(g, w)
    BY <1>4, <2>2
  <2>4. b[w][j] = b[w][k]
    BY <2>0, <2>2
  <2>. HIDE DEF F, w
  <2>. QED
    BY <1>3, <2>3, <2>4
<1>9. \A y \in Coins(f) : \E k \in Coins(g) : F[k] = y
  <2>. SUFFICES ASSUME NEW y \in Coins(f) PROVE \E k \in Coins(g) : F[k] = y
    OBVIOUS
  <2>. DEFINE w == of[y[1]]
  <2>1. w \in P /\ y \in Coins(Group(f, of, w))
    BY <1>6
  <2>. HIDE DEF w
  <2>2. PICK k \in CoinsAt(g, w) : b[w][k] = y
    BY <1>3, <2>1
  <2>3. k \in Coins(g) /\ k[1] = w
    BY <2>1, <2>2 DEF Coins, CoinsAt
  <2>. QED
    BY <2>2, <2>3
<1>. HIDE DEF F
<1>10. F \in Bijection(Coins(g), Coins(f))
  BY <1>7, <1>8, <1>9, Fun_IsBij
<1>. QED
  BY <1>10, CoinsFinite, FS_Bijection DEF ExistsBijection, Total

\* Shares rounded down never exceed what is shared, if they do not exceed the whole.
LEMMA SharesFit ==
  ASSUME NEW S, IsFiniteSet(S), NEW amount \in Nat, NEW whole \in Nat \ {0},
         NEW share \in [S -> Nat], Total(share) <= whole,
         NEW pay \in [S -> Nat], \A x \in S : pay[x] = (amount * share[x]) \div whole
  PROVE  Total(pay) <= amount
<1>. DEFINE paid == [x \in S |-> whole * pay[x]]
            due == [x \in S |-> amount * share[x]]
<1>1. ASSUME NEW x \in S PROVE whole * pay[x] <= amount * share[x]
  <2>. DEFINE d == amount * share[x]
  <2>1. d \in Nat
    OBVIOUS
  <2>. HIDE DEF d
  <2>2. whole * (d \div whole) <= d
    BY <2>1, Z3
  <2>. QED
    BY <2>2 DEF d
<1>2. paid \in [S -> Nat] /\ due \in [S -> Nat]
  OBVIOUS
<1>3. \A x \in S : paid[x] = whole * pay[x] /\ due[x] = amount * share[x] /\ paid[x] <= due[x]
  BY <1>1
<1>. HIDE DEF paid, due
<1>4. Total(paid) <= Total(due)
  BY <1>2, <1>3, TotalMonotone
<1>5. Total(paid) = whole * Total(pay)
  BY <1>2, <1>3, TotalScaled, SMTT(30)
<1>6. Total(due) = amount * Total(share)
  BY <1>2, <1>3, TotalScaled
<1>7. Total(pay) \in Nat /\ Total(share) \in Nat
  BY TotalType
<1>. DEFINE p == Total(pay)
            s == Total(share)
<1>8. p \in Nat /\ s \in Nat /\ s <= whole /\ whole * p <= amount * s
  BY <1>4, <1>5, <1>6, <1>7
<1>. HIDE DEF p, s
<1>9. amount * s <= amount * whole
  BY <1>8, Z3
<1>10. whole * p <= whole * amount
  BY <1>8, <1>9, Z3
<1>11. p <= amount
  BY <1>8, <1>10, Z3
<1>. QED
  BY <1>11 DEF p

\* A credit leaves natural balances, and so does a debit the payer can cover.
\* A sum of amounts of at most c each.
LEMMA TotalAtMost ==
  ASSUME NEW S, IsFiniteSet(S), NEW c \in Nat, NEW f \in [S -> Nat], \A x \in S : f[x] <= c
  PROVE  Total(f) <= Cardinality(S) * c
<1>. DEFINE numbers == 1..c
<1>1. IsFiniteSet(numbers) /\ Cardinality(numbers) = c
  BY FS_Interval
<1>2. Coins(f) \in SUBSET (S \X numbers)
  BY DEF Coins
<1>. HIDE DEF numbers
<1>3. IsFiniteSet(S \X numbers) /\ Cardinality(S \X numbers) = Cardinality(S) * Cardinality(numbers)
  BY <1>1, FS_Product
<1>. QED
  BY <1>1, <1>2, <1>3, FS_Subset DEF Total

\* One for each chosen element counts the chosen ones.
LEMMA TotalOfChosen ==
  ASSUME NEW S, IsFiniteSet(S), NEW D \in SUBSET S, NEW f \in [S -> Nat],
         \A x \in S : f[x] = IF x \in D THEN 1 ELSE 0
  PROVE  Total(f) = Cardinality(D)
<1>. DEFINE one == {1}
<1>1. IsFiniteSet(one) /\ Cardinality(one) = 1
  BY FS_Singleton
<1>2. Coins(f) = D \X one
  <2>0. 1..1 = {1} /\ 1..0 = {}
    OBVIOUS
  <2>1. \A x \in S : 1..f[x] = IF x \in D THEN {1} ELSE {}
    BY <2>0
  <2>. QED
    BY <2>1 DEF Coins
<1>. HIDE DEF one
<1>3. IsFiniteSet(D) /\ Cardinality(D) \in Nat
  BY FS_Subset, FS_CardinalityType
<1>4. Cardinality(D \X one) = Cardinality(D) * Cardinality(one)
  BY <1>1, <1>3, FS_Product
<1>. QED
  BY <1>1, <1>2, <1>3, <1>4 DEF Total

\* Shares by weight, rounded down, leave less than one unit for each of those who share.
LEMMA LittleIsLeft ==
  ASSUME NEW S, IsFiniteSet(S), S # {}, NEW amount \in Nat, NEW weight \in [S -> Nat], Total(weight) > 0,
         NEW pay \in [S -> Nat], \A x \in S : pay[x] = (amount * weight[x]) \div Total(weight)
  PROVE  /\ Total(pay) \in Nat /\ Total(pay) <= amount
         /\ amount - Total(pay) < Cardinality(S)
<1>1. PICK whole : whole = Total(weight)
  OBVIOUS
<1>2. whole \in Nat \ {0} /\ Total(pay) \in Nat
  BY <1>1, TotalType
<1>3. \A x \in S : pay[x] = (amount * weight[x]) \div whole
  BY <1>1
<1>. DEFINE paid == [x \in S |-> whole * pay[x]]
            due == [x \in S |-> amount * weight[x]]
            rest == [x \in S |-> amount * weight[x] - whole * pay[x]]
<1>4. \A x \in S : /\ pay[x] \in Nat /\ amount * weight[x] \in Nat /\ whole * pay[x] \in Nat
                   /\ whole * pay[x] <= amount * weight[x]
                   /\ amount * weight[x] - whole * pay[x] <= whole - 1
  <2>. SUFFICES ASSUME NEW x \in S
                PROVE  /\ pay[x] \in Nat /\ amount * weight[x] \in Nat /\ whole * pay[x] \in Nat
                       /\ whole * pay[x] <= amount * weight[x]
                       /\ amount * weight[x] - whole * pay[x] <= whole - 1
    OBVIOUS
  <2>1. pay[x] \in Nat /\ weight[x] \in Nat
    OBVIOUS
  <2>2. PICK d \in Nat : d = amount * weight[x]
    BY <2>1
  <2>3. pay[x] = d \div whole
    BY <1>3, <2>2
  <2>4. whole * (d \div whole) <= d
    BY <1>2, Z3
  <2>5. d - whole * (d \div whole) < whole
    BY <1>2, Z3
  <2>6. PICK e \in Nat : e = whole * pay[x]
    BY <1>2, <2>1
  <2>. QED
    BY <1>2, <2>1, <2>2, <2>3, <2>4, <2>5, <2>6
<1>5. paid \in [S -> Nat] /\ due \in [S -> Nat] /\ rest \in [S -> Nat]
  <2>1. \A x \in S : amount * weight[x] - whole * pay[x] \in Nat
    BY <1>4
  <2>. QED
    BY <1>4, <2>1
<1>6. \A x \in S : /\ paid[x] = whole * pay[x] /\ due[x] = amount * weight[x]
                   /\ due[x] = paid[x] + rest[x] /\ rest[x] <= whole - 1
  BY <1>4
<1>. HIDE DEF paid, due, rest
<1>7. Total(due) = Total(paid) + Total(rest)
  BY <1>5, <1>6, TotalOfSum
<1>8. Total(paid) = whole * Total(pay)
  <2>1. \A x \in S : paid[x] = whole * pay[x]
    BY <1>6
  <2>2. pay \in [S -> Nat] /\ whole \in Nat
    BY <1>2
  <2>. QED
    BY <1>5, <2>1, <2>2, TotalScaled
<1>9. Total(due) = amount * whole
  <2>1. \A x \in S : due[x] = amount * weight[x]
    BY <1>6
  <2>2. Total(due) = amount * Total(weight)
    BY <1>5, <2>1, TotalScaled
  <2>. QED
    BY <1>1, <2>2
<1>10. Total(rest) \in Nat /\ Total(rest) <= Cardinality(S) * (whole - 1)
  BY <1>2, <1>5, <1>6, TotalAtMost, TotalType
<1>11. Cardinality(S) \in Nat /\ Cardinality(S) > 0
  BY FS_CardinalityType, FS_EmptySet
<1>12. PICK p \in Nat, r \in Nat, n \in Nat :
          p = Total(pay) /\ r = Total(rest) /\ n = Cardinality(S)
  BY <1>2, <1>10, <1>11
<1>13. /\ n > 0 /\ r <= n * (whole - 1) /\ amount * whole = whole * p + r
  BY <1>7, <1>8, <1>9, <1>10, <1>11, <1>12
<1>14. p <= amount /\ amount - p < n
  <2>1. \A a, q \in Nat : a < q => a + 1 <= q
    OBVIOUS
  <2>2. \A a, q \in Nat : a <= q => a * whole <= q * whole
    BY <1>2, Z3
  <2>3. whole * p = p * whole /\ n * (whole - 1) = n * whole - whole * 1 * n + n * (whole - 1)
    BY <1>2, Z3
  <2>4. p <= amount
    <3>. SUFFICES ASSUME amount < p PROVE FALSE
      OBVIOUS
    <3>1. (amount + 1) * whole <= p * whole
      BY <2>1, <2>2
    <3>2. (amount + 1) * whole = amount * whole + whole
      BY <1>2, Z3
    <3>3. amount * whole \in Nat /\ p * whole \in Nat
      BY <1>2
    <3>. QED
      BY <1>2, <1>13, <2>3, <3>1, <3>2, <3>3
  <2>5. amount - p < n
    <3>. SUFFICES ASSUME p + n <= amount PROVE FALSE
      BY <2>4
    <3>1. (p + n) * whole <= amount * whole
      BY <2>2
    <3>2. (p + n) * whole = p * whole + n * whole /\ n * (whole - 1) = n * whole - n
      BY <1>2, Z3
    <3>3. amount * whole \in Nat /\ p * whole \in Nat /\ n * whole \in Nat
      BY <1>2
    <3>. QED
      BY <1>2, <1>13, <2>3, <3>1, <3>2, <3>3
  <2>. QED
    BY <2>4, <2>5
<1>. QED
  BY <1>2, <1>12, <1>14

LEMMA CreditType ==
  ASSUME NEW S, NEW b \in [S -> Nat], NEW who \in S, NEW amount \in Nat
  PROVE  Credit(b, who, amount) \in [S -> Nat]
  BY DEF Credit

LEMMA DebitType ==
  ASSUME NEW S, NEW b \in [S -> Nat], NEW who \in S, NEW amount \in Nat, b[who] >= amount
  PROVE  Debit(b, who, amount) \in [S -> Nat]
  BY DEF Debit

-----------------------------------------------------------------------------
(* Subsequences.  The one principle they need is that a set of naturals    *)
(* has a least element, which the library knows as well-foundedness.       *)

LEMMA Least ==
    ASSUME NEW T \in SUBSET Nat, NEW n \in T
    PROVE  \E m \in T : \A k \in T : m <= k
<1>1. IsWellFoundedOn(OpToRel(<, Nat), Nat)
  BY NatLessThanWellFounded
<1>2. PICK m \in T : \A k \in T : ~(<<k, m>> \in OpToRel(<, Nat))
  BY <1>1, WFMin
<1>3. \A k \in T : ~(k < m)
  BY <1>2 DEF OpToRel
<1> QED
  BY <1>3

LEMMA Greatest ==
    ASSUME NEW n \in Nat, NEW T \in SUBSET (1..n), NEW k \in T
    PROVE  \E m \in T : \A j \in T : j <= m
<1> DEFINE bounds == {u \in Nat : \A j \in T : j <= u}
<1>1. n \in bounds /\ bounds \subseteq Nat
  OBVIOUS
<1>2. PICK m \in bounds : \A u \in bounds : m <= u
  BY <1>1, Least
<1>3. m \in T
  <2> SUFFICES ASSUME m \notin T PROVE FALSE
    OBVIOUS
  <2>1. \A j \in T : j <= m - 1
    BY <1>2
  <2>2. m - 1 \in Nat
    BY <1>2
  <2>3. m - 1 \in bounds
    BY <2>1, <2>2
  <2> QED
    BY <1>2, <2>3
<1> QED
  BY <1>2, <1>3

\* The indices below one are fewer than those up to it.
LEMMA BelowIs ==
    ASSUME NEW n \in Nat, NEW T \in SUBSET (1..n)
    PROVE  /\ IsFiniteSet(T) /\ Cardinality(T) \in 0..n
           /\ \A i \in T : /\ Below(T, i) \in SUBSET (1..n)
                           /\ Cardinality(Below(T, i)) \in Nat /\ Cardinality(Below(T, i)) < Cardinality(T)
<1>1. IsFiniteSet(1..n) /\ Cardinality(1..n) = n
  BY FS_Interval
<1>2. IsFiniteSet(T) /\ Cardinality(T) \in Nat /\ Cardinality(T) <= n
  BY <1>1, FS_Subset, FS_CardinalityType
<1>3. ASSUME NEW i \in T
      PROVE  /\ Below(T, i) \in SUBSET (1..n)
             /\ Cardinality(Below(T, i)) \in Nat /\ Cardinality(Below(T, i)) < Cardinality(T)
  <2>1. Below(T, i) \subseteq T /\ i \notin Below(T, i)
    BY DEF Below
  <2>2. Below(T, i) # T
    BY <2>1
  <2>3. /\ IsFiniteSet(Below(T, i)) /\ Cardinality(Below(T, i)) <= Cardinality(T)
        /\ Cardinality(Below(T, i)) = Cardinality(T) => Below(T, i) = T
    BY <1>2, <2>1, FS_Subset
  <2>4. Cardinality(Below(T, i)) \in Nat
    BY <2>3, FS_CardinalityType
  <2>5. Below(T, i) \subseteq 1..n
    BY <2>1
  <2>6. Cardinality(Below(T, i)) # Cardinality(T)
    BY <2>2, <2>3
  <2>7. Cardinality(Below(T, i)) < Cardinality(T)
    BY <1>2, <2>3, <2>4, <2>6
  <2> QED
    BY <2>4, <2>5, <2>7
<1> QED
  BY <1>2, <1>3

\* Every place up to the number of indices is the place of one of them.
LEMMA NthIs ==
    ASSUME NEW n \in Nat, NEW T \in SUBSET (1..n), NEW k \in 1..Cardinality(T)
    PROVE  Nth(T, k) \in T /\ Cardinality(Below(T, Nth(T, k))) = k - 1
<1> DEFINE late == {i \in T : Cardinality(Below(T, i)) >= k - 1}
<1>1. IsFiniteSet(T) /\ Cardinality(T) \in 0..n
      /\ \A i \in T : Below(T, i) \in SUBSET (1..n) /\ Cardinality(Below(T, i)) \in Nat
  BY BelowIs
<1>2. k \in Nat /\ k >= 1 /\ k <= Cardinality(T)
  BY <1>1
<1>3. late # {}
  <2>1. T # {}
    BY <1>1, <1>2, FS_EmptySet
  <2>2. PICK m \in T : \A j \in T : j <= m
    BY <2>1, Greatest
  <2>3. Below(T, m) = T \ {m}
    <3>1. \A j \in T : j \in Nat /\ m \in Nat /\ (j < m <=> j # m)
      BY <2>2
    <3> QED
      BY <3>1 DEF Below
  <2>4. Cardinality(T \ {m}) = Cardinality(T) - 1
    BY <1>1, FS_RemoveElement
  <2>5. m \in late
    BY <1>1, <1>2, <2>3, <2>4
  <2> QED
    BY <2>5
<1>4. PICK i \in late : \A j \in late : i <= j
  <2>1. late \in SUBSET Nat
    <3>1. \A i \in T : i \in Nat
      OBVIOUS
    <3> QED
      BY <3>1
  <2> HIDE DEF late
  <2> QED
    BY <1>3, <2>1, Least
<1>5. Cardinality(Below(T, i)) = k - 1
  <2> SUFFICES ASSUME Cardinality(Below(T, i)) >= k PROVE FALSE
    BY <1>1, <1>2
  <2>1. Below(T, i) # {} /\ IsFiniteSet(Below(T, i))
    BY <1>1, <1>2, FS_EmptySet, BelowIs
  <2>2. PICK m \in Below(T, i) : \A j \in Below(T, i) : j <= m
    BY <1>1, <2>1, Greatest
  <2>3. Below(T, m) = Below(T, i) \ {m} /\ m \in T /\ m < i
    <3>1. \A j \in T : j \in Nat /\ i \in Nat
      OBVIOUS
    <3>2. m \in T /\ m < i
      BY <2>2 DEF Below
    <3>3. \A j \in T : j < m <=> (j < i /\ j # m)
      BY <2>2, <3>1, <3>2 DEF Below
    <3> QED
      BY <3>2, <3>3 DEF Below
  <2>4. Cardinality(Below(T, m)) = Cardinality(Below(T, i)) - 1
    BY <2>1, <2>2, <2>3, FS_RemoveElement
  <2>5. m \in late
    <3>1. Cardinality(Below(T, i)) \in Nat
      BY <1>1
    <3> QED
      BY <1>2, <2>3, <2>4, <3>1
  <2>6. i <= m /\ i \in Nat /\ m \in Nat
    BY <1>4, <2>3, <2>5
  <2> QED
    BY <2>3, <2>6
<1>6. i \in T
  OBVIOUS
<1> HIDE DEF late
<1> QED
  BY <1>5, <1>6 DEF Nth

\* A subsequence has one element for every index that is kept, and each from a place
\* of its own.
LEMMA SubsequenceIs ==
    ASSUME NEW S, NEW s \in Seq(S), NEW T \in SUBSET (1..Len(s))
    PROVE  /\ Subsequence(s, T) \in Seq(S) /\ Len(Subsequence(s, T)) = Cardinality(T)
           /\ Len(Subsequence(s, T)) <= Len(s)
           /\ \A k \in 1..Cardinality(T) : Nth(T, k) \in T /\ Subsequence(s, T)[k] = s[Nth(T, k)]
           /\ \A k, l \in 1..Cardinality(T) : Nth(T, k) = Nth(T, l) => k = l
<1>1. Len(s) \in Nat /\ \A i \in 1..Len(s) : s[i] \in S
  OBVIOUS
<1>2. Cardinality(T) \in 0..Len(s)
  BY <1>1, BelowIs
<1>3. \A k \in 1..Cardinality(T) : Nth(T, k) \in T /\ Cardinality(Below(T, Nth(T, k))) = k - 1
  BY <1>1, NthIs
<1>4. \A k, l \in 1..Cardinality(T) : Nth(T, k) = Nth(T, l) => k = l
  BY <1>2, <1>3
<1>5. \A k \in 1..Cardinality(T) : s[Nth(T, k)] \in S
  BY <1>1, <1>3
<1>6. Subsequence(s, T) \in [1..Cardinality(T) -> S]
  BY <1>5 DEF Subsequence
<1>7. Cardinality(T) \in Nat
  BY <1>1, <1>2
<1>8. Subsequence(s, T) \in Seq(S)
  BY <1>6, <1>7
<1>9. Len(Subsequence(s, T)) = Cardinality(T)
  BY <1>6, <1>7, <1>8
<1>10. \A k \in 1..Cardinality(T) : Subsequence(s, T)[k] = s[Nth(T, k)]
  BY DEF Subsequence
<1> QED
  BY <1>1, <1>2, <1>3, <1>4, <1>8, <1>9, <1>10

\* What is left of a sequence is in it and in the set; it is empty only when the two
\* have nothing in common.
LEMMA ThoseAre ==
    ASSUME NEW A, NEW S, NEW s \in Seq(A)
    PROVE  /\ Those(s, S) \in Seq(A \cap S) /\ Len(Those(s, S)) <= Len(s)
           /\ \A i \in 1..Len(s) : s[i] \in S => Len(Those(s, S)) > 0
           /\ (\A i, j \in 1..Len(s) : s[i] = s[j] => i = j)
                => \A k, l \in 1..Len(Those(s, S)) : Those(s, S)[k] = Those(s, S)[l] => k = l
<1> DEFINE T == {i \in 1..Len(s) : s[i] \in S}
           t == Subsequence(s, T)
<1>1. T \in SUBSET (1..Len(s)) /\ Those(s, S) = t /\ \A i \in T : s[i] \in A \cap S
  BY DEF Those
<1>2. Len(s) \in Nat
  OBVIOUS
<1>3. \A i \in 1..Len(s) : s[i] \in S => i \in T
  OBVIOUS
<1> HIDE DEF T
<1>4. /\ t \in Seq(A) /\ Len(t) = Cardinality(T) /\ Len(t) <= Len(s)
      /\ \A k \in 1..Cardinality(T) : Nth(T, k) \in T /\ t[k] = s[Nth(T, k)]
      /\ \A k, l \in 1..Cardinality(T) : Nth(T, k) = Nth(T, l) => k = l
  BY <1>1, SubsequenceIs
<1> HIDE DEF t
<1>5. t \in Seq(A \cap S)
  <2>1. \A k \in 1..Len(t) : t[k] \in A \cap S
    BY <1>1, <1>4
  <2>2. t \in [1..Len(t) -> A \cap S] /\ Len(t) \in Nat
    BY <1>4, <2>1
  <2> QED
    BY <2>2
<1>6. T # {} => Len(t) > 0
  <2>1. IsFiniteSet(T) /\ Cardinality(T) \in Nat
    BY <1>1, <1>2, BelowIs, FS_CardinalityType
  <2> QED
    BY <1>4, <2>1, FS_EmptySet
<1>7. (\A i, j \in 1..Len(s) : s[i] = s[j] => i = j) => \A k, l \in 1..Len(t) : t[k] = t[l] => k = l
  <2> SUFFICES ASSUME \A i, j \in 1..Len(s) : s[i] = s[j] => i = j,
                      NEW k \in 1..Len(t), NEW l \in 1..Len(t), t[k] = t[l]
               PROVE  k = l
    OBVIOUS
  <2>1. k \in 1..Cardinality(T) /\ l \in 1..Cardinality(T)
    BY <1>4
  <2>2. /\ Nth(T, k) \in 1..Len(s) /\ Nth(T, l) \in 1..Len(s)
        /\ s[Nth(T, k)] = s[Nth(T, l)]
    BY <1>1, <1>4, <2>1
  <2>3. Nth(T, k) = Nth(T, l)
    BY <2>2
  <2> QED
    BY <1>4, <2>1, <2>3
<1> QED
  BY <1>1, <1>3, <1>4, <1>5, <1>6, <1>7

LEMMA LeadingIs ==
    ASSUME NEW S, NEW s \in Seq(S), NEW n \in Nat
    PROVE  /\ Leading(s, n) \in Seq(S) /\ Len(Leading(s, n)) = IF Len(s) < n THEN Len(s) ELSE n
           /\ \A k \in 1..Len(Leading(s, n)) : k \in 1..Len(s) /\ Leading(s, n)[k] = s[k]
BY DEF Leading
-----------------------------------------------------------------------------
(* Ranks: in a finite set that R orders strictly and totally, an element's *)
(* rank is the number of those before it.                                  *)

StrictlyOrders(R, S) ==
    /\ \A a \in S : <<a, a>> \notin R
    /\ \A a, b \in S : a # b => <<a, b>> \in R \/ <<b, a>> \in R
    /\ \A a, b, c \in S : <<a, b>> \in R /\ <<b, c>> \in R => <<a, c>> \in R

\* Ranks follow the order and run from 0, each one taken once.
LEMMA RankIs ==
  ASSUME NEW S, IsFiniteSet(S), NEW R, StrictlyOrders(R, S)
  PROVE  /\ Cardinality(S) \in Nat
         /\ \A a \in S : Cardinality(Ahead(S, R, a)) \in 0..(Cardinality(S) - 1)
         /\ \A a, b \in S : <<a, b>> \in R <=> Cardinality(Ahead(S, R, a)) < Cardinality(Ahead(S, R, b))
         /\ \A a, b \in S : Cardinality(Ahead(S, R, a)) = Cardinality(Ahead(S, R, b)) => a = b
         /\ \A k \in 0..(Cardinality(S) - 1) : \E a \in S : Cardinality(Ahead(S, R, a)) = k
<1>1. PICK n : n = Cardinality(S) /\ n \in Nat
  BY FS_CardinalityType
<1>. DEFINE rank(a) == Cardinality(Ahead(S, R, a))
<1>2. \A a \in S : IsFiniteSet(Ahead(S, R, a)) /\ rank(a) \in Nat /\ rank(a) < n
  <2>. SUFFICES ASSUME NEW a \in S
                PROVE  IsFiniteSet(Ahead(S, R, a)) /\ rank(a) \in Nat /\ rank(a) < n
    OBVIOUS
  <2>1. Ahead(S, R, a) \in SUBSET S /\ a \notin Ahead(S, R, a)
    BY DEF Ahead, StrictlyOrders
  <2>2. IsFiniteSet(Ahead(S, R, a)) /\ rank(a) <= n /\ (n = rank(a) => S = Ahead(S, R, a))
    BY <1>1, <2>1, FS_Subset
  <2>. QED
    BY <1>1, <2>1, <2>2, FS_CardinalityType
<1>3. ASSUME NEW a \in S, NEW b \in S, <<a, b>> \in R
      PROVE  rank(a) < rank(b)
  <2>1. Ahead(S, R, a) \in SUBSET Ahead(S, R, b) /\ a \in Ahead(S, R, b) /\ a \notin Ahead(S, R, a)
    BY <1>3 DEF Ahead, StrictlyOrders
  <2>2. rank(a) <= rank(b) /\ (rank(b) = rank(a) => Ahead(S, R, b) = Ahead(S, R, a))
    BY <1>2, <2>1, FS_Subset
  <2>. QED
    BY <1>2, <2>1, <2>2
<1>4. \A a, b \in S : a = b \/ <<a, b>> \in R \/ <<b, a>> \in R
  BY DEF StrictlyOrders
<1>5. \A a, b \in S : /\ rank(a) = rank(b) => a = b
                      /\ <<a, b>> \in R <=> rank(a) < rank(b)
  <2>. SUFFICES ASSUME NEW a \in S, NEW b \in S
                PROVE  /\ rank(a) = rank(b) => a = b
                       /\ <<a, b>> \in R <=> rank(a) < rank(b)
    OBVIOUS
  <2>1. /\ rank(a) \in Nat /\ rank(b) \in Nat
        /\ <<a, b>> \in R => rank(a) < rank(b)
        /\ <<b, a>> \in R => rank(b) < rank(a)
    BY <1>2, <1>3
  <2>. HIDE DEF rank
  <2>. QED
    BY <1>4, <2>1
<1>. DEFINE ranks == 0..(n - 1)
            f == [a \in S |-> rank(a)]
<1>6. IsFiniteSet(ranks) /\ Cardinality(ranks) = n
  <2>1. 0 \in Int /\ n - 1 \in Int /\ (IF 0 > n - 1 THEN 0 ELSE (n - 1) - 0 + 1) = n
    BY <1>1
  <2>. QED
    BY <2>1, FS_Interval
<1>7. f \in Injection(S, ranks)
  <2>1. \A a \in S : rank(a) \in ranks
    BY <1>1, <1>2
  <2>. HIDE DEF rank, ranks
  <2>2. f \in [S -> ranks]
    BY <2>1
  <2>3. \A a, b \in S : f[a] = f[b] => a = b
    BY <1>5
  <2>. QED
    BY <2>2, <2>3 DEF Injection, IsInjective
<1>8. f \in Surjection(S, ranks)
  <2>. HIDE DEF f, ranks
  <2>. QED
    BY <1>1, <1>6, <1>7, FS_Injection
<1>9. \A k \in ranks : \E a \in S : rank(a) = k
  <2>. HIDE DEF rank, ranks
  <2>. QED
    BY <1>8 DEF Surjection
<1>10. \A a \in S : rank(a) \in ranks
  BY <1>1, <1>2
<1>. QED
  BY <1>1, <1>5, <1>9, <1>10

\* So many have a rank below k.
LEMMA FirstInRank ==
  ASSUME NEW S, IsFiniteSet(S), NEW R, StrictlyOrders(R, S), NEW k \in Nat, k <= Cardinality(S)
  PROVE  Cardinality({a \in S : Cardinality(Ahead(S, R, a)) < k}) = k
<1>. DEFINE rank(a) == Cardinality(Ahead(S, R, a))
            D == {a \in S : rank(a) < k}
            ranks == 0..(k - 1)
            f == [a \in D |-> rank(a)]
<1>1. Cardinality(S) \in Nat /\ (\A a \in S : rank(a) \in Nat)
  BY RankIs
<1>2. \A a, b \in S : rank(a) = rank(b) => a = b
  BY RankIs
<1>3. \A j \in ranks : \E a \in S : rank(a) = j
  BY <1>1, RankIs
<1>4. IsFiniteSet(ranks) /\ Cardinality(ranks) = k
  BY FS_Interval
<1>5. \A a \in S : a \in D <=> rank(a) \in ranks
  BY <1>1
<1>6. D \subseteq S
  OBVIOUS
<1>. HIDE DEF rank, ranks, D
<1>7. f \in Injection(D, ranks) /\ f \in Surjection(D, ranks)
  <2>1. f \in [D -> ranks]
    BY <1>5, <1>6
  <2>2. \A a, b \in D : f[a] = f[b] => a = b
    BY <1>2, <1>6
  <2>3. \A j \in ranks : \E a \in D : f[a] = j
    BY <1>3, <1>5
  <2>. QED
    BY <2>1, <2>2, <2>3 DEF Injection, IsInjective, Surjection
<1>8. Cardinality(D) = Cardinality(ranks)
  <2>. HIDE DEF f
  <2>. QED
    BY <1>4, <1>7, FS_Injection
<1>. QED
  BY <1>4, <1>8 DEF D, rank

-----------------------------------------------------------------------------
(* Sequences without repetition.                                           *)

NoRepeats(s) == \A i, j \in 1..Len(s) : s[i] = s[j] => i = j
In(s) == {s[i] : i \in 1..Len(s)}

\* A sequence without repetition has as many elements as it is long.
LEMMA ApartCount ==
  ASSUME NEW S, NEW s \in Seq(S), NoRepeats(s)
  PROVE  In(s) \subseteq S /\ IsFiniteSet(In(s)) /\ Cardinality(In(s)) = Len(s) /\ Len(s) \in Nat
<1>1. Len(s) \in Nat /\ \A i \in 1..Len(s) : s[i] \in S
  OBVIOUS
<1>2. PICK n : n = Len(s) /\ n \in Nat
  BY <1>1
<1>. DEFINE f == [i \in 1..n |-> s[i]]
<1>3. f \in Bijection(1..n, In(s))
  BY <1>2 DEF Bijection, Injection, Surjection, IsInjective, In, NoRepeats
<1>4. IsFiniteSet(1..n) /\ Cardinality(1..n) = n
  <2>1. n \in Int /\ 1 \in Int
    BY <1>2
  <2>2. IsFiniteSet(1..n) /\ Cardinality(1..n) = IF 1 > n THEN 0 ELSE n - 1 + 1
    BY <2>1, FS_Interval
  <2>. QED
    BY <1>2, <2>2
<1>. HIDE DEF f
<1>5. IsFiniteSet(In(s)) /\ Cardinality(In(s)) = n
  BY <1>3, <1>4, FS_Bijection DEF ExistsBijection
<1>6. In(s) \subseteq S
  BY <1>1 DEF In
<1>. QED
  BY <1>1, <1>2, <1>5, <1>6

\* Every index that is kept has its place in the subsequence.
LEMMA EveryNth ==
  ASSUME NEW n \in Nat, NEW T \in SUBSET (1..n), NEW i \in T
  PROVE  \E k \in 1..Cardinality(T) : Nth(T, k) = i
<1>1. IsFiniteSet(T) /\ Cardinality(T) \in Nat
  BY BelowIs
<1>2. PICK c : c = Cardinality(T) /\ c \in Nat
  BY <1>1
<1>. DEFINE s == [k \in 1..c |-> Nth(T, k)]
<1>3. \A k \in 1..c : Nth(T, k) \in T /\ Cardinality(Below(T, Nth(T, k))) = k - 1
  BY <1>2, NthIs
<1>4. s \in Seq(T) /\ Len(s) = c
  BY <1>2, <1>3
<1>5. NoRepeats(s)
  <2>1. \A k \in 1..c : s[k] = Nth(T, k)
    OBVIOUS
  <2>. HIDE DEF s
  <2>2. \A k, l \in 1..c : s[k] = s[l] => k - 1 = l - 1
    BY <1>3, <2>1
  <2>. QED
    BY <1>2, <1>4, <2>2 DEF NoRepeats
<1>. HIDE DEF s
<1>6. In(s) \subseteq T /\ Cardinality(In(s)) = Cardinality(T)
  BY <1>2, <1>4, <1>5, ApartCount
<1>7. In(s) = T
  BY <1>1, <1>6, FS_Subset
<1>8. PICK k \in 1..c : s[k] = i
  BY <1>4, <1>7 DEF In
<1>. QED
  BY <1>2, <1>8 DEF s

\* Those of a sequence without repetition are all it has of the set, once each.
LEMMA ThoseApart ==
  ASSUME NEW A, NEW S, NEW s \in Seq(A), NoRepeats(s)
  PROVE  Those(s, S) \in Seq(A \cap S) /\ NoRepeats(Those(s, S)) /\ In(Those(s, S)) = In(s) \cap S
<1>1. Those(s, S) \in Seq(A \cap S) /\ NoRepeats(Those(s, S))
  BY ThoseAre DEF NoRepeats
<1>. DEFINE T == {i \in 1..Len(s) : s[i] \in S}
            t == Those(s, S)
<1>2. T \in SUBSET (1..Len(s)) /\ Len(s) \in Nat /\ t = Subsequence(s, T)
  BY DEF Those
<1>3. \A i \in T : i \in 1..Len(s) /\ s[i] \in S
  OBVIOUS
<1>4. \A i \in 1..Len(s) : s[i] \in S => i \in T
  OBVIOUS
<1>. HIDE DEF T, t
<1>5. /\ Len(t) = Cardinality(T)
      /\ \A k \in 1..Cardinality(T) : Nth(T, k) \in T /\ t[k] = s[Nth(T, k)]
  BY <1>2, SubsequenceIs
<1>6. In(t) \subseteq In(s) \cap S
  BY <1>3, <1>5 DEF In
<1>7. ASSUME NEW x \in In(s) \cap S
      PROVE  x \in In(t)
  <2>1. PICK i \in 1..Len(s) : s[i] = x
    BY DEF In
  <2>2. i \in T
    BY <1>4, <2>1
  <2>3. PICK k \in 1..Cardinality(T) : Nth(T, k) = i
    BY <1>2, <2>2, EveryNth
  <2>4. t[k] = x
    BY <1>5, <2>1, <2>3
  <2>. QED
    BY <1>5, <2>4 DEF In
<1>. QED
  BY <1>1, <1>6, <1>7 DEF t

\* A finite set in order: each of its elements once.
LEMMA InOrderIs ==
  ASSUME NEW S, IsFiniteSet(S), NEW R, StrictlyOrders(R, S)
  PROVE  /\ InOrder(S, R) \in Seq(S) /\ Len(InOrder(S, R)) = Cardinality(S)
         /\ NoRepeats(InOrder(S, R)) /\ In(InOrder(S, R)) = S
         /\ \A i, j \in 1..Cardinality(S) : i < j => <<InOrder(S, R)[i], InOrder(S, R)[j]>> \in R
<1>. DEFINE rank(a) == Cardinality(Ahead(S, R, a))
            s == InOrder(S, R)
<1>1. PICK n : n = Cardinality(S) /\ n \in Nat
  BY RankIs
<1>2. /\ \A a \in S : rank(a) \in 0..(n - 1)
      /\ \A a, b \in S : rank(a) = rank(b) => a = b
      /\ \A a, b \in S : <<a, b>> \in R <=> rank(a) < rank(b)
      /\ \A k \in 0..(n - 1) : \E a \in S : rank(a) = k
  BY <1>1, RankIs
<1>3. s = [k \in 1..n |-> CHOOSE a \in S : rank(a) = k - 1]
  BY <1>1 DEF InOrder
<1>. HIDE DEF rank
<1>4. \A k \in 1..n : s[k] \in S /\ rank(s[k]) = k - 1
  <2>. SUFFICES ASSUME NEW k \in 1..n PROVE s[k] \in S /\ rank(s[k]) = k - 1
    OBVIOUS
  <2>1. k - 1 \in 0..(n - 1)
    BY <1>1
  <2>2. \E a \in S : rank(a) = k - 1
    BY <1>2, <2>1
  <2>3. s[k] = CHOOSE a \in S : rank(a) = k - 1
    BY <1>3
  <2>. HIDE DEF s
  <2>. QED
    BY <2>2, <2>3
<1>5. s \in Seq(S) /\ Len(s) = n
  BY <1>1, <1>3, <1>4
<1>. HIDE DEF s
<1>6. NoRepeats(s)
  <2>1. \A k, l \in 1..n : s[k] = s[l] => k - 1 = l - 1
    BY <1>4
  <2>. QED
    BY <1>1, <1>5, <2>1 DEF NoRepeats
<1>7. In(s) = S
  <2>1. ASSUME NEW a \in S PROVE a \in In(s)
    <3>1. PICK r : r = rank(a) /\ r \in 0..(n - 1)
      BY <1>2
    <3>2. r + 1 \in 1..n /\ (r + 1) - 1 = r
      BY <1>1, <3>1
    <3>3. s[r + 1] \in S /\ rank(s[r + 1]) = r
      BY <1>4, <3>2
    <3>4. s[r + 1] = a
      BY <1>2, <3>1, <3>3
    <3>. QED
      BY <1>5, <3>2, <3>4 DEF In
  <2>2. In(s) \subseteq S
    BY <1>4, <1>5 DEF In
  <2>. QED
    BY <2>1, <2>2
<1>8. ASSUME NEW i \in 1..n, NEW j \in 1..n, i < j
      PROVE  <<s[i], s[j]>> \in R
  <2>1. s[i] \in S /\ s[j] \in S /\ rank(s[i]) = i - 1 /\ rank(s[j]) = j - 1
    BY <1>4
  <2>2. rank(s[i]) < rank(s[j])
    BY <1>1, <1>8, <2>1
  <2>. QED
    BY <1>2, <2>1, <2>2
<1>. QED
  BY <1>1, <1>5, <1>6, <1>7, <1>8 DEF s
=============================================================================
