----------------------------- MODULE TotalsProofs -----------------------------
(***************************************************************************)
(* Facts about sums over a column, for tables of any size, and the least   *)
(* number of a set, by which they are counted down.                        *)
(***************************************************************************)
EXTENDS Totals, FiniteSetTheorems, FunctionTheorems, TLAPS

\* Every set of naturals that is not empty has a smallest element.
LEMMA Smallest ==
    ASSUME NEW T \in SUBSET Nat, T # {}
    PROVE  \E m \in T : \A n \in T : m <= n
<1>1. PICK R : IsWellFoundedOn(R, Nat) /\ \A x, y \in Nat : x < y => <<x, y>> \in R
    BY NatLessThanWellFounded DEF OpToRel
<1>2. PICK m \in T : \A n \in T : ~ (<<n, m>> \in R)
    <2>1. IsWellFoundedOn(R, Nat) /\ T \subseteq Nat /\ T # {} BY <1>1
    <2> QED BY <2>1, WFMin, Zenon
<1>3. \A n \in T : ~ (n < m) BY <1>1, <1>2
<1> QED BY <1>3

\* The units of a finite table are finitely many.
LEMMA UnitsFinite ==
    ASSUME NEW S, IsFiniteSet(S), NEW f \in [S -> Nat]
    PROVE  IsFiniteSet(Units(f))
<1> DEFINE cell == [i \in S |-> {i} \X (1..f[i])]
           cells == {{i} \X (1..f[i]) : i \in S}
<1>1. IsFiniteSet(cells)
    <2>1. cell \in Surjection(S, cells)
        BY DEF Surjection
    <2> QED BY <2>1, FS_Surjection
<1>2. \A T \in cells : IsFiniteSet(T)
    <2> SUFFICES ASSUME NEW i \in S PROVE IsFiniteSet({i} \X (1..f[i]))
        OBVIOUS
    <2>1. IsFiniteSet({i}) BY FS_Singleton
    <2>2. IsFiniteSet(1..f[i]) BY FS_Interval
    <2> QED BY <2>1, <2>2, FS_Product
<1>3. DOMAIN f = S OBVIOUS
<1>4. Units(f) = UNION cells BY <1>3 DEF Units
<1> HIDE DEF cells
<1> QED BY <1>1, <1>2, <1>4, FS_UNION

\* A sum of naturals is a natural.
LEMMA TotalType ==
    ASSUME NEW S, IsFiniteSet(S), NEW f \in [S -> Nat]
    PROVE  Total(f) \in Nat
BY UnitsFinite, FS_CardinalityType DEF Total

\* Rows that all hold zero hold nothing together.
LEMMA TotalNone ==
    ASSUME NEW S, NEW f \in [S -> Nat], \A i \in S : f[i] = 0
    PROVE  Total(f) = 0
<1>1. \A i \in S : {i} \X (1..f[i]) = {}
    <2> SUFFICES ASSUME NEW i \in S PROVE {i} \X (1..f[i]) = {}
        OBVIOUS
    <2>1. 1..f[i] = {} OBVIOUS
    <2> QED BY <2>1
<1>2. DOMAIN f = S OBVIOUS
<1>3. Units(f) = {} BY <1>1, <1>2 DEF Units
<1> QED BY <1>3, FS_EmptySet DEF Total

\* One row holds what it holds.
LEMMA TotalOne ==
    ASSUME NEW k, NEW f \in [{k} -> Nat]
    PROVE  Total(f) = f[k]
<1> DEFINE n == f[k]
<1>1. n \in Nat OBVIOUS
<1>2. DOMAIN f = {k} OBVIOUS
<1>3. Units(f) = {k} \X (1..n) BY <1>2 DEF Units
<1> HIDE DEF n
<1>4. IsFiniteSet({k}) /\ Cardinality({k}) = 1 BY FS_Singleton
<1>5. IsFiniteSet(1..n) /\ Cardinality(1..n) = n
    <2>1. 1 \in Int /\ n \in Int BY <1>1
    <2>2. Cardinality(1..n) = IF 1 > n THEN 0 ELSE n - 1 + 1
        BY <2>1, FS_Interval, Zenon
    <2>3. IsFiniteSet(1..n) BY <2>1, FS_Interval, Zenon
    <2> QED BY <1>1, <2>2, <2>3
<1>6. Cardinality({k} \X (1..n)) = Cardinality({k}) * Cardinality(1..n)
    BY <1>4, <1>5, FS_Product
<1>7. Cardinality({k} \X (1..n)) = n BY <1>1, <1>4, <1>5, <1>6
<1> QED BY <1>3, <1>7 DEF Total, n

\* The rows of f, numbers of N, are those of a and those of b.
Splits(f, a, b, N) ==
    /\ IsFiniteSet(DOMAIN f)
    /\ f \in [DOMAIN f -> N] /\ a \in [DOMAIN a -> N] /\ b \in [DOMAIN b -> N]
    /\ DOMAIN f = DOMAIN a \cup DOMAIN b
    /\ DOMAIN a \cap DOMAIN b = {}
    /\ \A i \in DOMAIN a : a[i] = f[i]
    /\ \A i \in DOMAIN b : b[i] = f[i]

\* Two tables without a common row hold together what each of them holds.
LEMMA TotalUnion ==
    ASSUME NEW f, NEW a, NEW b, Splits(f, a, b, Nat)
    PROVE  /\ Total(f) = Total(a) + Total(b)
           /\ Total(a) \in Nat /\ Total(b) \in Nat
<1> DEFINE A == DOMAIN a
           B == DOMAIN b
<1>1. IsFiniteSet(Units(a)) /\ IsFiniteSet(Units(b))
    <2>1. IsFiniteSet(A) /\ IsFiniteSet(B) BY FS_Subset DEF Splits
    <2> QED BY <2>1, UnitsFinite DEF Splits
<1>3. Units(f) = Units(a) \cup Units(b) BY DEF Units, Splits
<1>4. Units(a) \cap Units(b) = {} BY DEF Units, Splits
<1>5. Cardinality(Units(a) \cup Units(b)) =
        Cardinality(Units(a)) + Cardinality(Units(b)) - Cardinality(Units(a) \cap Units(b))
    BY <1>1, FS_Union
<1>6. Cardinality(Units(a) \cap Units(b)) = 0 BY <1>4, FS_EmptySet
<1>7. Cardinality(Units(a)) \in Nat /\ Cardinality(Units(b)) \in Nat
    BY <1>1, FS_CardinalityType
<1> QED BY <1>3, <1>5, <1>6, <1>7 DEF Total

\* A row and the others.
LEMMA TotalSplit ==
    ASSUME NEW S, IsFiniteSet(S), NEW k \in S, NEW f \in [S -> Nat]
    PROVE  Total(f) = f[k] + Total([i \in S \ {k} |-> f[i]])
<1> DEFINE a == [i \in {k} |-> f[i]]
           b == [i \in S \ {k} |-> f[i]]
<1>1. a \in [{k} -> Nat] /\ a[k] = f[k] OBVIOUS
<1>2. Splits(f, a, b, Nat) BY DEF Splits
<1> HIDE DEF a, b
<1>3. Total(a) = f[k] BY <1>1, TotalOne
<1>4. Total(f) = Total(a) + Total(b) BY <1>2, TotalUnion
<1> QED BY <1>3, <1>4 DEF b

\* Two tables agree on the rows of A.
AgreeOn(f, g, A) == \A i \in A : g[i] = f[i]

\* Overwriting one row changes the sum by the difference.
LEMMA TotalUpdate ==
    ASSUME NEW S, IsFiniteSet(S), NEW k \in S, NEW f \in [S -> Nat], NEW g \in [S -> Nat],
           AgreeOn(f, g, S \ {k})
    PROVE  Total(g) + f[k] = Total(f) + g[k]
<1> DEFINE rest == [i \in S \ {k} |-> f[i]]
<1>1. [i \in S \ {k} |-> g[i]] = rest
    BY DEF AgreeOn
<1>2. Total(f) = f[k] + Total(rest)
    BY TotalSplit
<1>3. Total(g) = g[k] + Total(rest)
    BY <1>1, TotalSplit
<1>4. Total(rest) \in Nat
    <2>1. IsFiniteSet(S \ {k}) BY FS_Difference
    <2>2. rest \in [S \ {k} -> Nat] OBVIOUS
    <2> HIDE DEF rest
    <2> QED BY <2>1, <2>2, TotalType
<1>5. f[k] \in Nat /\ g[k] \in Nat
    OBVIOUS
<1> QED BY <1>2, <1>3, <1>4, <1>5

\* g is the table f with the row k added.
OneMoreRow(f, g, k, N) ==
    /\ IsFiniteSet(DOMAIN f)
    /\ k \notin DOMAIN f /\ DOMAIN g = DOMAIN f \cup {k}
    /\ f \in [DOMAIN f -> N] /\ g \in [DOMAIN g -> N]
    /\ AgreeOn(f, g, DOMAIN f)

\* A new row adds what it holds.
LEMMA TotalAdd ==
    ASSUME NEW f, NEW g, NEW k, OneMoreRow(f, g, k, Nat)
    PROVE  Total(g) = Total(f) + g[k]
<1> DEFINE S == DOMAIN f
           T == DOMAIN g
<1>0. /\ IsFiniteSet(S) /\ k \notin S /\ T = S \cup {k}
      /\ f \in [S -> Nat] /\ g \in [T -> Nat] /\ AgreeOn(f, g, S)
    BY DEF OneMoreRow
<1> HIDE DEF S, T
<1>1. IsFiniteSet(T) /\ k \in T /\ T \ {k} = S
    BY <1>0, FS_AddElement
<1>2. [i \in T \ {k} |-> g[i]] = f
    BY <1>0, <1>1 DEF AgreeOn
<1>3. Total(g) = g[k] + Total(f)
    BY <1>0, <1>1, <1>2, TotalSplit
<1>4. Total(f) \in Nat /\ g[k] \in Nat
    BY <1>0, <1>1, TotalType
<1> QED BY <1>3, <1>4

\* Rows that hold no more than before hold no more together.
LEMMA TotalLess ==
    ASSUME NEW S, IsFiniteSet(S), NEW f \in [S -> Nat], NEW g \in [S -> Nat],
           \A i \in S : g[i] <= f[i]
    PROVE  Total(g) <= Total(f)
<1>1. Units(g) \subseteq Units(f)
    <2>1. ASSUME NEW i \in S PROVE 1..g[i] \subseteq 1..f[i]
        <3>1. g[i] \in Nat /\ f[i] \in Nat /\ g[i] <= f[i] OBVIOUS
        <3> QED BY <3>1
    <2> QED BY <2>1 DEF Units
<1> QED BY <1>1, UnitsFinite, FS_Subset DEF Total

\* h holds, row by row, what f and g hold together.
SumOf(f, g, h, N) ==
    /\ IsFiniteSet(DOMAIN f) /\ DOMAIN g = DOMAIN f /\ DOMAIN h = DOMAIN f
    /\ f \in [DOMAIN f -> N] /\ g \in [DOMAIN g -> N] /\ h \in [DOMAIN h -> N]
    /\ \A i \in DOMAIN f : h[i] = f[i] + g[i]

\* The sum of a table of sums is the sum of the sums.
LEMMA TotalSum ==
    ASSUME NEW f, NEW g, NEW h, SumOf(f, g, h, Nat)
    PROVE  Total(h) = Total(f) + Total(g)
<1> DEFINE S == DOMAIN f
           top == [u \in Units(g) |-> <<u[1], f[u[1]] + u[2]>>]
           above == {<<u[1], f[u[1]] + u[2]>> : u \in Units(g)}
<1>1. /\ IsFiniteSet(S)
      /\ f \in [S -> Nat] /\ g \in [S -> Nat] /\ h \in [S -> Nat]
      /\ \A i \in S : h[i] = f[i] + g[i]
    BY DEF SumOf
<1> HIDE DEF S
<1>2. IsFiniteSet(Units(f)) /\ IsFiniteSet(Units(g)) /\ IsFiniteSet(Units(h))
    BY <1>1, UnitsFinite
<1>3. \A u : u \in Units(f) <=> \E i \in S, n \in Nat : u = <<i, n>> /\ 1 <= n /\ n <= f[i]
    BY <1>1 DEF Units
<1>4. \A u : u \in Units(g) <=> \E i \in S, n \in Nat : u = <<i, n>> /\ 1 <= n /\ n <= g[i]
    BY <1>1 DEF Units
<1>5. \A u : u \in Units(h) <=> \E i \in S, n \in Nat : u = <<i, n>> /\ 1 <= n /\ n <= h[i]
    BY <1>1 DEF Units
<1>6. \A u : u \in above <=> \E i \in S, n \in Nat : u = <<i, f[i] + n>> /\ 1 <= n /\ n <= g[i]
    <2>1. ASSUME NEW u \in above
          PROVE  \E i \in S, n \in Nat : u = <<i, f[i] + n>> /\ 1 <= n /\ n <= g[i]
        <3>1. PICK v \in Units(g) : u = <<v[1], f[v[1]] + v[2]>>
            OBVIOUS
        <3>2. PICK i \in S, n \in Nat : v = <<i, n>> /\ 1 <= n /\ n <= g[i]
            BY <1>4
        <3> QED BY <3>1, <3>2
    <2>2. ASSUME NEW i \in S, NEW n \in Nat, 1 <= n, n <= g[i]
          PROVE  <<i, f[i] + n>> \in above
        <3>1. <<i, n>> \in Units(g)
            BY <1>4, <2>2
        <3> QED BY <3>1
    <2> HIDE DEF above
    <2> QED BY <2>1, <2>2
<1>7. Units(f) \cap above = {}
    <2> SUFFICES ASSUME NEW u \in Units(f), u \in above PROVE FALSE
        OBVIOUS
    <2>1. PICK i \in S, n \in Nat : u = <<i, n>> /\ 1 <= n /\ n <= f[i]
        BY <1>3
    <2>2. PICK j \in S, m \in Nat : u = <<j, f[j] + m>> /\ 1 <= m /\ m <= g[j]
        BY <1>6
    <2>3. i = j /\ n = f[j] + m
        BY <2>1, <2>2
    <2> QED BY <1>1, <2>1, <2>2, <2>3
<1>8. Units(h) = Units(f) \cup above
    <2>1. ASSUME NEW u \in Units(h) PROVE u \in Units(f) \cup above
        <3>1. PICK i \in S, n \in Nat : u = <<i, n>> /\ 1 <= n /\ n <= h[i]
            BY <1>5
        <3>2. f[i] \in Nat /\ g[i] \in Nat /\ h[i] = f[i] + g[i]
            BY <1>1
        <3>3. CASE n <= f[i]
            BY <1>3, <3>1, <3>3
        <3>4. CASE ~(n <= f[i])
            <4>1. n - f[i] \in Nat /\ 1 <= n - f[i] /\ n - f[i] <= g[i] /\ f[i] + (n - f[i]) = n
                BY <3>1, <3>2, <3>4
            <4>2. u = <<i, f[i] + (n - f[i])>>
                BY <3>1, <4>1
            <4> QED BY <1>6, <4>1, <4>2
        <3> QED BY <3>3, <3>4
    <2>2. ASSUME NEW u \in Units(f) PROVE u \in Units(h)
        <3>1. PICK i \in S, n \in Nat : u = <<i, n>> /\ 1 <= n /\ n <= f[i]
            BY <1>3
        <3>2. n <= h[i]
            BY <1>1, <3>1
        <3> QED BY <1>5, <3>1, <3>2
    <2>3. ASSUME NEW u \in above PROVE u \in Units(h)
        <3>1. PICK i \in S, n \in Nat : u = <<i, f[i] + n>> /\ 1 <= n /\ n <= g[i]
            BY <1>6
        <3>2. f[i] + n \in Nat /\ 1 <= f[i] + n /\ f[i] + n <= h[i]
            BY <1>1, <3>1
        <3> QED BY <1>5, <3>1, <3>2
    <2> QED BY <2>1, <2>2, <2>3
<1>9. Cardinality(above) = Cardinality(Units(g)) /\ IsFiniteSet(above)
    <2>1. top \in Bijection(Units(g), above)
        <3>1. top \in Surjection(Units(g), above)
            BY DEF Surjection
        <3>2. ASSUME NEW u \in Units(g), NEW v \in Units(g), top[u] = top[v] PROVE u = v
            <4>1. PICK i \in S, n \in Nat : u = <<i, n>>
                BY <1>4
            <4>2. PICK j \in S, m \in Nat : v = <<j, m>>
                BY <1>4
            <4>3. <<i, f[i] + n>> = <<j, f[j] + m>>
                BY <3>2, <4>1, <4>2
            <4>4. i = j /\ f[i] + n = f[j] + m
                BY <4>3
            <4>5. n = m
                BY <1>1, <4>4
            <4> QED BY <4>1, <4>2, <4>4, <4>5
        <3>3. top \in [Units(g) -> above]
            OBVIOUS
        <3>4. top \in Injection(Units(g), above)
            BY <3>2, <3>3 DEF Injection, IsInjective
        <3> QED BY <3>1, <3>4 DEF Bijection
    <2>2. ExistsBijection(Units(g), above)
        BY <2>1 DEF ExistsBijection
    <2> HIDE DEF above
    <2> QED BY <1>2, <2>2, FS_Bijection
<1> HIDE DEF above
<1>10. Cardinality(Units(h)) = Cardinality(Units(f)) + Cardinality(above) - Cardinality(Units(f) \cap above)
    BY <1>2, <1>8, <1>9, FS_Union
<1>11. Cardinality(Units(f) \cap above) = 0
    BY <1>7, FS_EmptySet
<1>12. Cardinality(Units(f)) \in Nat /\ Cardinality(Units(g)) \in Nat
    BY <1>2, FS_CardinalityType
<1> QED BY <1>9, <1>10, <1>11, <1>12 DEF Total
===============================================================================
