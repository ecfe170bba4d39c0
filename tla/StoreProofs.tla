---------------------------- MODULE StoreProofs -----------------------------
(***************************************************************************)
(* Laws of sums, from laws of cardinality, and what the proofs about every *)
(* service use of the tables they share: ids, references, rounded amounts, *)
(* requests in flight and balances.                                        *)
(***************************************************************************)
EXTENDS Store, FiniteSetTheorems, TLAPS

(* The units of finitely many amounts are finitely many.                    *)
LEMMA UnitsFinite ==
  ASSUME NEW f, IsFiniteSet(DOMAIN f), \A x \in DOMAIN f : f[x] \in Nat
  PROVE  IsFiniteSet(Units(f))
<1> DEFINE D == DOMAIN f
           Part(x) == {x} \X (1 .. f[x])
           Parts == {Part(x) : x \in D}
           s == [x \in D |-> Part(x)]
<1>1. s \in Surjection(D, Parts)
  BY DEF Surjection
<1>2. IsFiniteSet(Parts)
  BY ONLY <1>1, IsFiniteSet(D), FS_Surjection
<1>3. \A p \in Parts : IsFiniteSet(p)
  <2> SUFFICES ASSUME NEW x \in D PROVE IsFiniteSet({x} \X (1 .. f[x]))
    OBVIOUS
  <2>1. IsFiniteSet({x})
    BY FS_Singleton
  <2>2. IsFiniteSet(1 .. f[x])
    BY FS_Interval
  <2> QED
    BY <2>1, <2>2, FS_Product
<1>4. IsFiniteSet(UNION Parts)
  BY ONLY <1>2, <1>3, FS_UNION
<1> QED
  BY <1>4 DEF Units

(* A sum of amounts is an amount.                                           *)
LEMMA TotalNat ==
  ASSUME NEW f, IsFiniteSet(DOMAIN f), \A x \in DOMAIN f : f[x] \in Nat
  PROVE  Total(f) \in Nat
BY UnitsFinite, FS_CardinalityType DEF Total

(* A sum over nothing is zero.                                              *)
LEMMA TotalOfNothing == ASSUME NEW f, DOMAIN f = {} PROVE Total(f) = 0
<1>1. Units(f) = {}
  BY DEF Units
<1> QED
  BY <1>1, FS_EmptySet DEF Total

(* One more term adds its amount.                                           *)
LEMMA TotalAdd ==
  ASSUME NEW f, NEW g, NEW x, x \notin DOMAIN f,
         IsFiniteSet(DOMAIN f), \A y \in DOMAIN f : f[y] \in Nat, g[x] \in Nat,
         DOMAIN g = DOMAIN f \cup {x}, \A y \in DOMAIN f : g[y] = f[y]
  PROVE  Total(g) = Total(f) + g[x]
<1> DEFINE New == {x} \X (1 .. g[x])
<1>1. Units(g) = Units(f) \cup New
  BY DEF Units
<1>2. Units(f) \cap New = {}
  BY DEF Units
<1>3. IsFiniteSet({x}) /\ Cardinality({x}) = 1
  BY FS_Singleton
<1>4. IsFiniteSet(1 .. g[x]) /\ Cardinality(1 .. g[x]) = g[x]
  BY FS_Interval
<1>5. IsFiniteSet(New) /\ Cardinality(New) = g[x]
  <2>1. Cardinality(New) = Cardinality({x}) * Cardinality(1 .. g[x])
    BY ONLY <1>3, <1>4, FS_Product
  <2>2. IsFiniteSet(New)
    BY ONLY <1>3, <1>4, FS_Product
  <2> HIDE DEF New
  <2> QED
    BY <1>3, <1>4, <2>1, <2>2
<1>6. IsFiniteSet(Units(f)) /\ Cardinality(Units(f)) \in Nat
  BY UnitsFinite, FS_CardinalityType
<1> HIDE DEF New
<1>7. Cardinality(Units(g)) = Cardinality(Units(f)) + Cardinality(New) - Cardinality({})
  BY <1>1, <1>2, <1>5, <1>6, FS_Union
<1> QED
  BY <1>5, <1>6, <1>7, FS_EmptySet DEF Total

(* Two sums whose terms correspond one to one are equal.                    *)
LEMMA SameTotal ==
  ASSUME NEW f, NEW g, NEW b \in Bijection(DOMAIN f, DOMAIN g),
         IsFiniteSet(DOMAIN f), \A x \in DOMAIN f : f[x] \in Nat,
         \A x \in DOMAIN f : g[b[x]] = f[x]
  PROVE  Total(f) = Total(g)
<1> DEFINE U == Units(f)
           V == Units(g)
           c == [u \in U |-> <<b[u[1]], u[2]>>]
<1>1. /\ b \in [DOMAIN f -> DOMAIN g]
      /\ \A x, y \in DOMAIN f : b[x] = b[y] => x = y
      /\ \A y \in DOMAIN g : \E x \in DOMAIN f : b[x] = y
  BY DEF Bijection, Injection, Surjection, IsInjective
<1>2. /\ \A u \in U : /\ u = <<u[1], u[2]>>
                      /\ u[1] \in DOMAIN f
                      /\ u[2] \in 1 .. f[u[1]]
      /\ \A x \in DOMAIN f : \A k \in 1 .. f[x] : <<x, k>> \in U
  BY DEF Units
<1>3. /\ \A v \in V : /\ v = <<v[1], v[2]>>
                      /\ v[1] \in DOMAIN g
                      /\ v[2] \in 1 .. g[v[1]]
      /\ \A y \in DOMAIN g : \A k \in 1 .. g[y] : <<y, k>> \in V
  BY DEF Units
<1>4. c \in [U -> V]
  BY <1>1, <1>2, <1>3
<1>5. ASSUME NEW u \in U, NEW v \in U, c[u] = c[v] PROVE u = v
  BY <1>1, <1>2, <1>5
<1>6. ASSUME NEW v \in V PROVE \E u \in U : c[u] = v
  <2>1. PICK x \in DOMAIN f : b[x] = v[1]
    BY <1>1, <1>3
  <2>2. <<x, v[2]>> \in U /\ c[<<x, v[2]>>] = v
    BY <1>2, <1>3, <2>1
  <2> QED
    BY <2>2
<1>7. c \in Bijection(U, V)
  BY <1>4, <1>5, <1>6 DEF Bijection, Injection, Surjection, IsInjective
<1>8. IsFiniteSet(U)
  BY UnitsFinite
<1> QED
  BY ONLY <1>7, <1>8, FS_Bijection DEF Total, ExistsBijection

(* What adds nothing may be left out of a sum.                               *)
LEMMA TotalDropsZeros ==
  ASSUME NEW f, NEW g, DOMAIN g \subseteq DOMAIN f, \A x \in DOMAIN g : g[x] = f[x],
         \A x \in DOMAIN f \ DOMAIN g : f[x] = 0
  PROVE  Total(f) = Total(g)
<1>1. Units(g) \subseteq Units(f)
  BY DEF Units
<1>2. ASSUME NEW u \in Units(f) PROVE u \in Units(g)
  <2>1. PICK x \in DOMAIN f : u \in {x} \X (1 .. f[x])
    BY DEF Units
  <2>2. x \in DOMAIN g
    BY <2>1
  <2> QED
    BY <2>1, <2>2 DEF Units
<1>3. Units(f) = Units(g)
  BY <1>1, <1>2
<1> QED
  BY <1>3 DEF Total

(* A sum over two parts is the sum of the parts.                             *)
LEMMA TotalSplits ==
  ASSUME NEW f, NEW g, NEW h, IsFiniteSet(DOMAIN f), \A x \in DOMAIN f : f[x] \in Nat,
         DOMAIN f = DOMAIN g \cup DOMAIN h, DOMAIN g \cap DOMAIN h = {},
         \A x \in DOMAIN g : g[x] = f[x], \A x \in DOMAIN h : h[x] = f[x]
  PROVE  Total(f) = Total(g) + Total(h)
<1>1. Units(f) = Units(g) \cup Units(h) /\ Units(g) \cap Units(h) = {}
  BY DEF Units
<1>2. IsFiniteSet(DOMAIN g) /\ IsFiniteSet(DOMAIN h)
  <2>1. DOMAIN g \in SUBSET (DOMAIN f) /\ DOMAIN h \in SUBSET (DOMAIN f)
    OBVIOUS
  <2> QED
    BY <2>1, FS_Subset
<1>3. /\ IsFiniteSet(Units(g)) /\ IsFiniteSet(Units(h))
      /\ Cardinality(Units(g)) \in Nat /\ Cardinality(Units(h)) \in Nat
  BY <1>2, UnitsFinite, FS_CardinalityType
<1>4. Cardinality(Units(f)) = Cardinality(Units(g)) + Cardinality(Units(h)) - Cardinality({})
  BY <1>1, <1>3, FS_Union
<1> QED
  BY <1>3, <1>4, FS_EmptySet DEF Total

(* A sum of sums, term by term.                                              *)
LEMMA TotalOfSums ==
  ASSUME NEW f, NEW g, NEW h, IsFiniteSet(DOMAIN h), DOMAIN f = DOMAIN h, DOMAIN g = DOMAIN h,
         \A x \in DOMAIN h : f[x] \in Nat /\ g[x] \in Nat /\ h[x] = f[x] + g[x]
  PROVE  Total(h) = Total(f) + Total(g)
<1> DEFINE G == Units(g)
           Above == {u \in Units(h) : u[2] > f[u[1]]}
           b == [u \in G |-> <<u[1], f[u[1]] + u[2]>>]
<1>1. /\ \A u \in Units(f) : u = <<u[1], u[2]>> /\ u[1] \in DOMAIN h /\ u[2] \in 1 .. f[u[1]]
      /\ \A u \in G : u = <<u[1], u[2]>> /\ u[1] \in DOMAIN h /\ u[2] \in 1 .. g[u[1]]
      /\ \A u \in Units(h) : u = <<u[1], u[2]>> /\ u[1] \in DOMAIN h /\ u[2] \in 1 .. h[u[1]]
      /\ \A x \in DOMAIN h : /\ \A k \in 1 .. f[x] : <<x, k>> \in Units(f)
                             /\ \A k \in 1 .. g[x] : <<x, k>> \in G
                             /\ \A k \in 1 .. h[x] : <<x, k>> \in Units(h)
  BY DEF Units
<1> HIDE DEF G
<1>2. Units(h) = Units(f) \cup Above /\ Units(f) \cap Above = {}
  <2>1. \A u \in Units(f) : u \in Units(h) /\ u \notin Above
    BY <1>1
  <2>2. \A u \in Units(h) : u \in Above \/ u \in Units(f)
    <3> SUFFICES ASSUME NEW u \in Units(h), ~(u[2] > f[u[1]]) PROVE u \in Units(f)
      OBVIOUS
    <3>1. u[2] \in 1 .. f[u[1]]
      BY <1>1
    <3> QED
      BY <1>1, <3>1
  <2> QED
    BY <2>1, <2>2
<1>3. b \in Bijection(G, Above)
  <2>1. ASSUME NEW u \in G PROVE b[u] \in Above
    <3>1. f[u[1]] + u[2] \in 1 .. h[u[1]] /\ f[u[1]] + u[2] > f[u[1]]
      BY <1>1
    <3>2. <<u[1], f[u[1]] + u[2]>> \in Units(h)
      BY <1>1, <3>1
    <3> QED
      BY <3>1, <3>2
  <2>2. ASSUME NEW u \in G, NEW v \in G, b[u] = b[v] PROVE u = v
    <3>1. u[1] = v[1] /\ f[u[1]] + u[2] = f[u[1]] + v[2]
      BY <2>2
    <3>2. u[2] = v[2]
      BY <1>1, <3>1
    <3> QED
      BY <1>1, <3>1, <3>2
  <2>3. ASSUME NEW t \in Above PROVE \E u \in G : b[u] = t
    <3> DEFINE k == t[2] - f[t[1]]
    <3>1. k \in 1 .. g[t[1]] /\ f[t[1]] + k = t[2]
      BY <1>1
    <3> HIDE DEF k
    <3>2. <<t[1], k>> \in G /\ b[<<t[1], k>>] = <<t[1], t[2]>>
      BY <1>1, <3>1
    <3> QED
      BY <1>1, <3>2
  <2> HIDE DEF b, Above
  <2>4. b \in [G -> Above]
    BY <2>1 DEF b
  <2> QED
    BY <2>2, <2>3, <2>4 DEF Bijection, Injection, Surjection, IsInjective
<1>4. IsFiniteSet(Units(f)) /\ IsFiniteSet(G)
  BY UnitsFinite DEF G
<1>5. IsFiniteSet(Above) /\ Cardinality(Above) = Cardinality(G)
  <2> HIDE DEF b, Above
  <2> QED
    BY ONLY <1>3, <1>4, FS_Bijection DEF ExistsBijection
<1>6. Cardinality(Units(f)) \in Nat /\ Cardinality(G) \in Nat
  BY <1>4, FS_CardinalityType
<1> HIDE DEF Above, b
<1>7. Cardinality(Units(h)) = Cardinality(Units(f)) + Cardinality(Above) - Cardinality({})
  BY <1>2, <1>4, <1>5, FS_Union
<1> QED
  BY <1>5, <1>6, <1>7, FS_EmptySet DEF Total, G

(* Equal terms, n[x] times a[x] for each x, add up to products.              *)
LEMMA TotalOfGroups ==
  ASSUME NEW X, IsFiniteSet(X), NEW n, NEW a, \A x \in X : n[x] \in Nat /\ a[x] \in Nat,
         NEW f, \A x \in X : \A k \in 1 .. n[x] : <<x, k>> \in DOMAIN f,
         \A t \in DOMAIN f : /\ t = <<t[1], t[2]>> /\ t[1] \in X /\ t[2] \in 1 .. n[t[1]]
                             /\ f[t] = a[t[1]],
         NEW g, DOMAIN g = X, \A x \in X : g[x] = n[x] * a[x]
  PROVE  Total(f) = Total(g)
<1> DEFINE A(x) == (1 .. n[x]) \X (1 .. a[x])
           B(x) == 1 .. n[x] * a[x]
           e == [x \in X |-> CHOOSE b : b \in Bijection(A(x), B(x))]
           c == [u \in Units(f) |-> <<u[1][1], e[u[1][1]][<<u[1][2], u[2]>>]>>]
<1>1. ASSUME NEW x \in X PROVE e[x] \in Bijection(A(x), B(x))
  <2>1. /\ IsFiniteSet(1 .. n[x]) /\ Cardinality(1 .. n[x]) = n[x]
        /\ IsFiniteSet(1 .. a[x]) /\ Cardinality(1 .. a[x]) = a[x]
    <3> SUFFICES ASSUME NEW m \in Nat PROVE IsFiniteSet(1 .. m) /\ Cardinality(1 .. m) = m
      OBVIOUS
    <3> QED
      BY FS_Interval
  <2>2. IsFiniteSet(A(x)) /\ Cardinality(A(x)) = n[x] * a[x]
    <3>1. Cardinality(A(x)) = Cardinality(1 .. n[x]) * Cardinality(1 .. a[x])
      BY ONLY <2>1, FS_Product
    <3>2. IsFiniteSet(A(x))
      BY ONLY <2>1, FS_Product
    <3> HIDE DEF A
    <3> QED
      BY ONLY <2>1, <3>1, <3>2
  <2>3. n[x] * a[x] \in Nat
    OBVIOUS
  <2>4. IsFiniteSet(B(x)) /\ Cardinality(B(x)) = n[x] * a[x]
    BY <2>3, FS_Interval
  <2> HIDE DEF A, B
  <2>5. ExistsBijection(A(x), B(x))
    BY <2>2, <2>4, FS_SameCardinalityBij
  <2> QED
    BY <2>5 DEF ExistsBijection
<1>2. \A x \in X : /\ \A p \in A(x) : e[x][p] \in B(x)
                   /\ \A p, q \in A(x) : e[x][p] = e[x][q] => p = q
                   /\ \A m \in B(x) : \E p \in A(x) : e[x][p] = m
  <2> HIDE DEF A, B, e
  <2> QED
    BY <1>1 DEF Bijection, Injection, Surjection, IsInjective
<1> HIDE DEF e
<1>3. \A u \in Units(f) : /\ u = <<<<u[1][1], u[1][2]>>, u[2]>>
                          /\ u[1][1] \in X
                          /\ <<u[1][2], u[2]>> \in A(u[1][1])
  BY DEF Units
<1>4. \A x \in X : \A p \in A(x) : <<<<x, p[1]>>, p[2]>> \in Units(f)
  <2> SUFFICES ASSUME NEW x \in X, NEW p \in A(x) PROVE <<<<x, p[1]>>, p[2]>> \in Units(f)
    OBVIOUS
  <2>1. <<x, p[1]>> \in DOMAIN f /\ f[<<x, p[1]>>] = a[x]
    OBVIOUS
  <2> QED
    BY <2>1 DEF Units
<1>5. /\ \A y \in Units(g) : y = <<y[1], y[2]>> /\ y[1] \in X /\ y[2] \in B(y[1])
      /\ \A x \in X : \A m \in B(x) : <<x, m>> \in Units(g)
  BY DEF Units
<1>6. \A x \in X : \A p \in A(x) : p = <<p[1], p[2]>>
  OBVIOUS
<1> HIDE DEF A, B
<1>7. c \in [Units(f) -> Units(g)]
  BY <1>2, <1>3, <1>5
<1>8. ASSUME NEW u \in Units(f), NEW v \in Units(f), c[u] = c[v] PROVE u = v
  <2>1. u[1][1] = v[1][1] /\ e[u[1][1]][<<u[1][2], u[2]>>] = e[u[1][1]][<<v[1][2], v[2]>>]
    BY <1>8
  <2>2. <<u[1][2], u[2]>> = <<v[1][2], v[2]>>
    BY <1>2, <1>3, <2>1
  <2> QED
    BY <1>3, <2>1, <2>2
<1>9. ASSUME NEW y \in Units(g) PROVE \E u \in Units(f) : c[u] = y
  <2>1. PICK p \in A(y[1]) : e[y[1]][p] = y[2]
    BY <1>2, <1>5
  <2>2. <<<<y[1], p[1]>>, p[2]>> \in Units(f)
    BY <1>4, <1>5
  <2>3. c[<<<<y[1], p[1]>>, p[2]>>] = <<y[1], e[y[1]][<<p[1], p[2]>>]>>
    BY <2>2
  <2> QED
    BY <1>5, <1>6, <2>1, <2>2, <2>3
<1>10. c \in Bijection(Units(f), Units(g))
  <2> HIDE DEF c
  <2> QED
    BY <1>7, <1>8, <1>9 DEF Bijection, Injection, Surjection, IsInjective
<1>11. IsFiniteSet(Units(g))
  <2>1. DOMAIN g = X /\ \A x \in X : g[x] \in Nat
    OBVIOUS
  <2> QED
    BY <2>1, UnitsFinite
<1>12. IsFiniteSet(Units(f)) /\ Cardinality(Units(f)) = Cardinality(Units(g))
  <2>1. IsFiniteSet(Units(f))
    BY ONLY <1>10, <1>11, FS_Injection DEF Bijection
  <2> QED
    BY ONLY <1>10, <2>1, FS_Bijection DEF ExistsBijection
<1> QED
  BY <1>12 DEF Total
(* A sum over the parts a key divides a table into is the sum of the table.  *)
LEMMA TotalOfParts ==
  ASSUME NEW f, IsFiniteSet(DOMAIN f), \A x \in DOMAIN f : f[x] \in Nat,
         NEW g, NEW k, \A x \in DOMAIN f : k[x] \in DOMAIN g,
         \A y \in DOMAIN g : g[y] = Total([x \in {z \in DOMAIN f : k[z] = y} |-> f[x]])
  PROVE  Total(g) = Total(f)
<1> DEFINE part(y) == [x \in {z \in DOMAIN f : k[z] = y} |-> f[x]]
           e == [y \in DOMAIN g |-> CHOOSE b : b \in Bijection(Units(part(y)), 1 .. g[y])]
           c == [u \in Units(f) |-> <<k[u[1]], e[k[u[1]]][u]>>]
<1>1. ASSUME NEW y \in DOMAIN g
      PROVE  g[y] \in Nat /\ e[y] \in Bijection(Units(part(y)), 1 .. g[y])
  <2>1. /\ DOMAIN part(y) \in SUBSET (DOMAIN f)
        /\ \A x \in DOMAIN part(y) : part(y)[x] \in Nat
    OBVIOUS
  <2>2. Total(part(y)) = g[y]
    OBVIOUS
  <2> HIDE DEF part
  <2>3. IsFiniteSet(DOMAIN part(y))
    BY <2>1, FS_Subset
  <2>4. IsFiniteSet(Units(part(y))) /\ Cardinality(Units(part(y))) = g[y] /\ g[y] \in Nat
    BY <2>1, <2>2, <2>3, UnitsFinite, TotalNat DEF Total
  <2>5. IsFiniteSet(1 .. g[y]) /\ Cardinality(1 .. g[y]) = g[y]
    BY <2>4, FS_Interval
  <2>6. ExistsBijection(Units(part(y)), 1 .. g[y])
    BY <2>4, <2>5, FS_SameCardinalityBij
  <2> QED
    BY <2>4, <2>6 DEF ExistsBijection
<1>2. \A y \in DOMAIN g :
        /\ \A u \in Units(part(y)) : e[y][u] \in 1 .. g[y]
        /\ \A u, v \in Units(part(y)) : e[y][u] = e[y][v] => u = v
        /\ \A m \in 1 .. g[y] : \E u \in Units(part(y)) : e[y][u] = m
  <2> HIDE DEF part, e
  <2> QED
    BY <1>1 DEF Bijection, Injection, Surjection, IsInjective
<1>3. /\ \A u \in Units(f) : k[u[1]] \in DOMAIN g /\ u \in Units(part(k[u[1]]))
      /\ \A y \in DOMAIN g : \A u \in Units(part(y)) : u \in Units(f) /\ k[u[1]] = y
  <2>1. \A h, u : u \in Units(h) <=> /\ u = <<u[1], u[2]>> /\ u[1] \in DOMAIN h
                                     /\ u[2] \in 1 .. h[u[1]]
    BY DEF Units
  <2>2. \A x, y : /\ x \in DOMAIN part(y) <=> x \in DOMAIN f /\ k[x] = y
                  /\ x \in DOMAIN part(y) => part(y)[x] = f[x]
    OBVIOUS
  <2> HIDE DEF part
  <2>3. ASSUME NEW u \in Units(f) PROVE k[u[1]] \in DOMAIN g /\ u \in Units(part(k[u[1]]))
    <3>1. u = <<u[1], u[2]>> /\ u[1] \in DOMAIN f /\ u[2] \in 1 .. f[u[1]]
      BY <2>1
    <3>2. u[1] \in DOMAIN part(k[u[1]]) /\ u[2] \in 1 .. part(k[u[1]])[u[1]]
      BY <2>2, <3>1
    <3> QED
      BY <2>1, <3>1, <3>2
  <2>4. ASSUME NEW y \in DOMAIN g, NEW u \in Units(part(y)) PROVE u \in Units(f) /\ k[u[1]] = y
    <3>1. u = <<u[1], u[2]>> /\ u[1] \in DOMAIN part(y) /\ u[2] \in 1 .. part(y)[u[1]]
      BY <2>1
    <3>2. u[1] \in DOMAIN f /\ k[u[1]] = y /\ u[2] \in 1 .. f[u[1]]
      BY <2>2, <3>1
    <3> QED
      BY <2>1, <3>1, <3>2
  <2> QED
    BY <2>3, <2>4
<1>4. /\ \A w \in Units(g) : w = <<w[1], w[2]>> /\ w[1] \in DOMAIN g /\ w[2] \in 1 .. g[w[1]]
      /\ \A y \in DOMAIN g : \A m \in 1 .. g[y] : <<y, m>> \in Units(g)
  BY DEF Units
<1> HIDE DEF part, e
<1>5. c \in [Units(f) -> Units(g)]
  BY <1>2, <1>3, <1>4
<1>6. ASSUME NEW u \in Units(f), NEW v \in Units(f), c[u] = c[v] PROVE u = v
  BY <1>2, <1>3, <1>6
<1>7. ASSUME NEW w \in Units(g) PROVE \E u \in Units(f) : c[u] = w
  <2>1. PICK u \in Units(part(w[1])) : e[w[1]][u] = w[2]
    BY <1>2, <1>4
  <2>2. u \in Units(f) /\ c[u] = <<w[1], w[2]>>
    BY <1>3, <1>4, <2>1
  <2> QED
    BY <1>4, <2>2
<1>8. c \in Bijection(Units(f), Units(g))
  <2> HIDE DEF c
  <2> QED
    BY <1>5, <1>6, <1>7 DEF Bijection, Injection, Surjection, IsInjective
<1>9. IsFiniteSet(Units(f))
  BY UnitsFinite
<1> HIDE DEF c
<1> QED
  BY ONLY <1>8, <1>9, FS_Bijection DEF Total, ExistsBijection
-----------------------------------------------------------------------------
(* A rounded amount is an amount.                                           *)
LEMMA ColumnNat == ASSUME NEW a \in Nat PROVE Column(a) \in Nat
  BY DEF Column

LEMMA NoneIsNobody == None \notin Users \cup Investors \cup DocumentIds \cup PaymentReferences
  BY StoreAssumption DEF StoreAssumption

(* A request is typed from its start, whatever it names, to its end.        *)
LEMMA IdleIsACall == Idle \in Calls
  BY DEF Idle, Calls, Steps

(* There are finitely many references: kinds times ids, or ids and rows.    *)
LEMMA FiniteReferences == IsFiniteSet(References)
<1> DEFINE Docs == DocumentIds \cup (DocumentIds \X (1 .. MaxPeriods))
           Kinds(k) == CASE k = 1 -> "DEPOSIT" [] k = 2 -> "WITHDRAWAL" [] k = 3 -> "INVESTMENT"
                         [] k = 4 -> "ROI_ACCRUAL" [] k = 5 -> "REPAYMENT_ROI_CASH"
                         [] k = 6 -> "REPAYMENT_ROI_WALLET" [] k = 7 -> "REPAYMENT_PRINCIPAL"
           All == (1 .. 7) \X Docs
           Refs == {<<Kinds(p[1]), p[2]>> : p \in All}
           s == [p \in All |-> <<Kinds(p[1]), p[2]>>]
<1>1. IsFiniteSet(1 .. 7)
  <2> DEFINE last == 7
  <2>1. last \in Int
    OBVIOUS
  <2> HIDE DEF last
  <2>2. IsFiniteSet(1 .. last)
    BY ONLY <2>1, FS_Interval
  <2> QED
    BY <2>2 DEF last
<1>2. IsFiniteSet(1 .. MaxPeriods)
  BY StoreAssumption, FS_Interval DEF StoreAssumption
<1>3. IsFiniteSet(DocumentIds \X (1 .. MaxPeriods))
  BY <1>2, FiniteAssumption, FS_Product
<1>4. IsFiniteSet(Docs)
  BY <1>3, FiniteAssumption, FS_Union
<1>5. IsFiniteSet(All)
  BY ONLY <1>1, <1>4, FS_Product
<1>6. s \in Surjection(All, Refs)
  <2> HIDE DEF Kinds, All
  <2> QED
    BY DEF Surjection
<1>7. IsFiniteSet(Refs)
  <2> HIDE DEF All, Refs, s
  <2> QED
    BY ONLY <1>5, <1>6, FS_Surjection
<1>8. ASSUME NEW r \in References PROVE r \in Refs
  <2>1. \E k \in 1 .. 7, x \in Docs : r = <<Kinds(k), x>>
    <3>1. CASE \E d \in DepositIds : r = DepositRef(d)
      BY <3>1 DEF DepositRef, DocumentIds
    <3>2. CASE \E d \in WithdrawalIds : r = WithdrawalRef(d)
      BY <3>2 DEF WithdrawalRef, DocumentIds
    <3>3. CASE \E d \in InvestmentIds : r = InvestmentRef(d)
      BY <3>3 DEF InvestmentRef, DocumentIds
    <3>4. CASE \E v \in InvestmentIds, k \in 1 .. MaxPeriods : r = AccrualRef(v, k)
      BY <3>4 DEF AccrualRef, DocumentIds
    <3>5. CASE \E d \in RepaymentIds : r = RoiCashRef(d)
      BY <3>5 DEF RoiCashRef, DocumentIds
    <3>6. CASE \E d \in RepaymentIds : r = RoiWalletRef(d)
      BY <3>6 DEF RoiWalletRef, DocumentIds
    <3>7. CASE \E d \in RepaymentIds : r = PrincipalRef(d)
      BY <3>7 DEF PrincipalRef, DocumentIds
    <3> QED
      BY <1>8, <3>1, <3>2, <3>3, <3>4, <3>5, <3>6, <3>7 DEF References
  <2>2. PICK k \in 1 .. 7, x \in Docs : r = <<Kinds(k), x>>
    BY <2>1
  <2>3. <<k, x>> \in All
    OBVIOUS
  <2> HIDE DEF Kinds, All
  <2> QED
    BY <2>2, <2>3
<1> QED
  BY <1>7, <1>8, FS_Subset

(* So every sum over wallet transactions is an amount.                      *)
LEMMA SumTxnsNat ==
  ASSUME walletTxn \in [References -> Txn], NEW i, NEW status, NEW direction
  PROVE  SumTxns(i, status, direction) \in Nat
<1> DEFINE P == Txns(i, status, direction)
           f == [r \in P |-> walletTxn[r].amount]
<1>1. DOMAIN f = P /\ P \in SUBSET References
  BY DEF Txns
<1>2. IsFiniteSet(P)
  BY <1>1, FiniteReferences, FS_Subset
<1>3. \A r \in P : f[r] \in Nat
  BY <1>1 DEF Txn
<1> HIDE DEF P, f
<1>4. Total(f) \in Nat
  BY <1>1, <1>2, <1>3, TotalNat
<1> QED
  BY <1>4 DEF SumTxns, f, P

(* A wallet transaction that is created adds its amount to the sums it is of.*)
LEMMA SumTxnsGrows ==
  ASSUME walletTxn \in [References -> Txn], walletTxn' \in [References -> Txn],
         NEW ref \in References, walletTxn[ref].status = "NONE",
         \A r \in References \ {ref} : walletTxn'[r] = walletTxn[r]
  PROVE  \A i, status, direction : status # "NONE" =>
           IF /\ walletTxn'[ref].status = status /\ walletTxn'[ref].investor = i
              /\ Direction(ref[1]) = direction
           THEN SumTxns(i, status, direction)'
                  = SumTxns(i, status, direction) + walletTxn'[ref].amount
           ELSE SumTxns(i, status, direction)' = SumTxns(i, status, direction)
<1> SUFFICES ASSUME NEW i, NEW status, status # "NONE", NEW direction
             PROVE  IF /\ walletTxn'[ref].status = status /\ walletTxn'[ref].investor = i
                       /\ Direction(ref[1]) = direction
                    THEN SumTxns(i, status, direction)'
                           = SumTxns(i, status, direction) + walletTxn'[ref].amount
                    ELSE SumTxns(i, status, direction)' = SumTxns(i, status, direction)
  OBVIOUS
<1> DEFINE txn == walletTxn'[ref]
           P == Txns(i, status, direction)
           f == [r \in P |-> walletTxn[r].amount]
           g == [r \in P' |-> walletTxn'[r].amount]
<1>1. ref \notin P /\ P \in SUBSET References
  BY DEF Txns
<1>2. IsFiniteSet(P)
  BY <1>1, FiniteReferences, FS_Subset
<1>3. DOMAIN f = P /\ \A r \in P : f[r] \in Nat
  BY <1>1 DEF Txn
<1>4. CASE txn.status = status /\ txn.investor = i /\ Direction(ref[1]) = direction
  <2>1. P' = P \cup {ref}
    BY <1>4 DEF Txns
  <2>2. /\ DOMAIN g = P \cup {ref} /\ g[ref] = txn.amount /\ g[ref] \in Nat
        /\ \A r \in P : g[r] = f[r]
    BY <1>1, <2>1 DEF Txn
  <2> HIDE DEF P, f, g
  <2>3. Total(g) = Total(f) + g[ref]
    BY <1>1, <1>2, <1>3, <2>2, TotalAdd
  <2> QED
    BY <1>4, <2>2, <2>3 DEF SumTxns, P, f, g
<1>5. CASE ~(txn.status = status /\ txn.investor = i /\ Direction(ref[1]) = direction)
  <2>1. P' = P
    BY <1>1, <1>5 DEF Txns
  <2>2. g = f
    BY <1>1, <2>1
  <2> QED
    BY <1>5, <2>2 DEF SumTxns
<1> QED
  BY <1>4, <1>5
-----------------------------------------------------------------------------
(* The kinds of references, and the accounts each debits and credits.        *)
Kinds == WalletKinds \cup {"ROI_ACCRUAL", "REPAYMENT_ROI_CASH"}

LEMMA ReferenceKinds == \A r \in References : r[1] \in Kinds
  BY DEF References, Kinds, WalletKinds, DepositRef, WithdrawalRef, InvestmentRef, AccrualRef,
       RoiCashRef, RoiWalletRef, PrincipalRef

LEMMA KindAccounts ==
  ASSUME NEW k \in Kinds
  PROVE  /\ CreditAccount(k) = "2010" <=> k \in WalletKinds /\ Direction(k) = "CREDIT"
         /\ DebitAccount(k) = "2010" <=> k \in WalletKinds /\ Direction(k) = "DEBIT"
         /\ CreditAccount(k) = "2020" <=> k = "INVESTMENT"
         /\ DebitAccount(k) = "2020" <=> k = "REPAYMENT_PRINCIPAL"
         /\ CreditAccount(k) = "2030" <=> k = "ROI_ACCRUAL"
         /\ DebitAccount(k) = "2030" <=> k = "REPAYMENT_ROI_WALLET"
         /\ DebitAccount(k) = "1010" <=> k \in {"DEPOSIT", "REPAYMENT_ROI_CASH"}
         /\ CreditAccount(k) = "1010" <=> k = "WITHDRAWAL"
  BY DEF Kinds, WalletKinds, CreditAccount, DebitAccount, Direction

(* The lines of rows that have one entry each add up to the rows' amounts.   *)
LEMMA SingleEntries ==
  ASSUME NEW R, IsFiniteSet(R), NEW ref, \A r, s \in R : ref[r] = ref[s] => r = s,
         NEW amount, DOMAIN amount = R, \A r \in R : amount[r] \in Nat,
         \A r \in R : journal[ref[r]][1].amount = amount[r],
         NEW L, L = {<<ref[r], 1>> : r \in R}
  PROVE  SumLines(L) = Total(amount)
<1> DEFINE g == [l \in L |-> journal[l[1]][l[2]].amount]
           b == [r \in R |-> <<ref[r], 1>>]
<1>1. b \in Bijection(R, L)
  <2>1. b \in [R -> L] /\ \A l \in L : \E r \in R : b[r] = l
    OBVIOUS
  <2>2. \A r, s \in R : b[r] = b[s] => r = s
    OBVIOUS
  <2> HIDE DEF b
  <2> QED
    BY ONLY <2>1, <2>2 DEF Bijection, Injection, Surjection, IsInjective
<1>2. DOMAIN g = L /\ \A r \in R : g[b[r]] = amount[r]
  OBVIOUS
<1> HIDE DEF g, b
<1>3. Total(amount) = Total(g)
  BY <1>1, <1>2, SameTotal
<1> QED
  BY <1>3 DEF SumLines, g

LEMMA SingleEntry ==
  ASSUME Mirrored, NEW r \in References, walletTxn[r].status = "POSTED"
  PROVE  /\ DOMAIN journal[r] = {1} /\ journal[r] # <<>> /\ r[1] \in WalletKinds
         /\ journal[r][1].investor = walletTxn[r].investor
         /\ journal[r][1].amount = walletTxn[r].amount
<1>1. PICK e : /\ r[1] \in WalletKinds
               /\ journal[r] = <<e>>
               /\ e = [investor |-> walletTxn[r].investor, amount |-> walletTxn[r].amount]
  BY DEF Mirrored, MirroredAt
<1>2. DOMAIN <<e>> = {1} /\ <<e>> # <<>> /\ <<e>>[1] = e
  OBVIOUS
<1> QED
  BY <1>1, <1>2

(* Where the wallet mirrors the journal, the lines under some references are *)
(* the posted ones among them, one each, and of their amount.                *)
LEMMA MirroredLines ==
  ASSUME StoreTypeOK, Mirrored, NEW R \in SUBSET References, \A r \in R : r[1] \in WalletKinds,
         NEW L, L = UNION {{r} \X DOMAIN journal[r] : r \in R},
         NEW P, P = {r \in R : walletTxn[r].status = "POSTED"}
  PROVE  SumLines(L) = Total([r \in P |-> walletTxn[r].amount])
<1> DEFINE amount == [r \in P |-> walletTxn[r].amount]
           ref == [r \in P |-> r]
<1>1. ASSUME NEW r \in P
      PROVE  /\ r \in R /\ r \in References
             /\ walletTxn[r].amount \in Nat
             /\ DOMAIN journal[r] = {1} /\ journal[r][1].amount = walletTxn[r].amount
  BY SingleEntry DEF StoreTypeOK, Txn
<1>2. ASSUME NEW r \in R, journal[r] # <<>> PROVE r \in P
  BY <1>2 DEF Mirrored, MirroredAt
<1>3. ASSUME NEW l \in L PROVE l[1] \in P /\ l = <<l[1], 1>>
  <2>1. PICK r \in R : l \in {r} \X DOMAIN journal[r]
    OBVIOUS
  <2>2. l = <<r, l[2]>> /\ l[2] \in DOMAIN journal[r] /\ r \in References
    BY <2>1
  <2>3. journal[r] # <<>>
    BY <2>2
  <2>4. r \in P
    BY <1>2, <2>3
  <2>5. l[2] = 1
    BY ONLY <1>1, <2>2, <2>4
  <2> QED
    BY <2>2, <2>4, <2>5
<1>4. ASSUME NEW r \in P PROVE <<r, 1>> \in L /\ journal[r][1].amount = walletTxn[r].amount
  <2>1. 1 \in DOMAIN journal[r] /\ journal[r][1].amount = walletTxn[r].amount
    BY <1>1
  <2>2. <<r, 1>> \in {r} \X DOMAIN journal[r] /\ r \in R
    BY <1>1, <2>1
  <2> QED
    BY <2>1, <2>2
<1>5. L = {<<ref[r], 1>> : r \in P}
  <2>1. \A r \in P : ref[r] = r
    OBVIOUS
  <2> HIDE DEF ref
  <2> QED
    BY <1>3, <1>4, <2>1
<1>6. IsFiniteSet(P)
  <2>1. P \in SUBSET References
    OBVIOUS
  <2> QED
    BY <2>1, FiniteReferences, FS_Subset
<1>7. /\ DOMAIN amount = P /\ \A r \in P : amount[r] \in Nat
      /\ \A r, s \in P : ref[r] = ref[s] => r = s
      /\ \A r \in P : journal[ref[r]][1].amount = amount[r]
  BY <1>1, <1>4
<1> HIDE DEF amount, ref
<1>8. SumLines(L) = Total(amount)
  BY <1>5, <1>6, <1>7, SingleEntries
<1> QED
  BY <1>8 DEF amount

(* So account 2010 owes what the wallet says: the posted transactions of a   *)
(* direction correspond one to one to the lines of that side.                *)
LEMMA MirroredSide ==
  ASSUME StoreTypeOK, Mirrored, NEW i \in Investors, NEW direction, NEW L,
         L = {l \in Lines(i) : l[1][1] \in WalletKinds /\ Direction(l[1][1]) = direction}
  PROVE  SumLines(L) = SumTxns(i, "POSTED", direction)
<1> DEFINE R == {r \in References : /\ r[1] \in WalletKinds /\ Direction(r[1]) = direction
                                    /\ journal[r] # <<>> /\ walletTxn[r].investor = i}
           All == UNION {{r} \X DOMAIN journal[r] : r \in R}
           P == {r \in R : walletTxn[r].status = "POSTED"}
<1>1. ASSUME NEW r \in References, r[1] \in WalletKinds, journal[r] # <<>>
      PROVE  \A n \in DOMAIN journal[r] : journal[r][n].investor = walletTxn[r].investor
  <2>1. walletTxn[r].status = "POSTED"
    BY <1>1 DEF Mirrored, MirroredAt
  <2> QED
    BY <2>1, SingleEntry
<1>2. P = Txns(i, "POSTED", direction)
  <2>1. \A r \in References : walletTxn[r].status = "POSTED" => r[1] \in WalletKinds /\ journal[r] # <<>>
    BY SingleEntry
  <2> QED
    BY <2>1 DEF Txns
<1>3. L = All
  <2>1. ASSUME NEW l \in L PROVE l \in All
    <3>1. PICK r \in References : l \in {r} \X DOMAIN journal[r]
      BY DEF Lines
    <3>2. l[1] = r /\ l[2] \in DOMAIN journal[r] /\ journal[r][l[2]].investor = i
      BY <3>1 DEF Lines
    <3>3. journal[r] # <<>>
      BY <3>2
    <3>4. r \in R
      BY <1>1, <3>2, <3>3
    <3> QED
      BY <3>1, <3>4
  <2>2. ASSUME NEW l \in All PROVE l \in L
    <3>1. PICK r \in R : l \in {r} \X DOMAIN journal[r]
      OBVIOUS
    <3>2. l[1] = r /\ l[2] \in DOMAIN journal[r] /\ journal[r][l[2]].investor = i
      BY <1>1, <3>1
    <3>3. l \in Lines(i)
      BY <3>1, <3>2 DEF Lines
    <3> QED
      BY <3>2, <3>3
  <2> QED
    BY <2>1, <2>2
<1>4. R \in SUBSET References /\ \A r \in R : r[1] \in WalletKinds
  OBVIOUS
<1> HIDE DEF R, P, All
<1>5. SumLines(All) = Total([r \in P |-> walletTxn[r].amount])
  BY <1>4, MirroredLines DEF All, P
<1> QED
  BY <1>2, <1>3, <1>5 DEF SumTxns

(* There are finitely many lines, and each has an amount.                    *)
LEMMA FiniteLines ==
  ASSUME journal \in [References -> Seq(Entry)],
         NEW L, L = UNION {{r} \X DOMAIN journal[r] : r \in References}
  PROVE  IsFiniteSet(L) /\ \A l \in L : journal[l[1]][l[2]].amount \in Nat
<1> DEFINE Part(r) == {r} \X DOMAIN journal[r]
           Parts == {Part(r) : r \in References}
           s == [r \in References |-> Part(r)]
<1>1. s \in Surjection(References, Parts)
  BY DEF Surjection
<1>2. IsFiniteSet(Parts)
  <2> HIDE DEF Parts, s
  <2> QED
    BY ONLY <1>1, FiniteReferences, FS_Surjection
<1>3. ASSUME NEW r \in References PROVE IsFiniteSet(Part(r))
  <2>1. IsFiniteSet({r})
    BY FS_Singleton
  <2>2. DOMAIN journal[r] = 1 .. Len(journal[r]) /\ Len(journal[r]) \in Nat
    OBVIOUS
  <2>3. IsFiniteSet(DOMAIN journal[r])
    BY <2>2, FS_Interval
  <2> QED
    BY <2>1, <2>3, FS_Product
<1>4. \A p \in Parts : IsFiniteSet(p)
  BY <1>3
<1>5. IsFiniteSet(UNION Parts)
  BY ONLY <1>2, <1>4, FS_UNION
<1>6. \A l \in L : journal[l[1]][l[2]].amount \in Nat
  <2> SUFFICES ASSUME NEW l \in L PROVE journal[l[1]][l[2]].amount \in Nat
    OBVIOUS
  <2>1. PICK r \in References : l \in {r} \X DOMAIN journal[r]
    OBVIOUS
  <2>2. l[1] = r /\ l[2] \in DOMAIN journal[r]
    BY <2>1
  <2>3. journal[r][l[2]] \in Entry
    BY <2>2
  <2> QED
    BY <2>2, <2>3 DEF Entry
<1> QED
  BY <1>5, <1>6

LEMMA MirroredAgrees == StoreTypeOK /\ Mirrored => LedgerAgreesWithWallet
<1> SUFFICES ASSUME StoreTypeOK, Mirrored, NEW i \in Investors
             PROVE  GLBalance("2010", i) = AvailableBalance(i)
  BY DEF LedgerAgreesWithWallet
<1>1. \A l \in Lines(i) : l[1][1] \in Kinds
  BY ReferenceKinds DEF Lines
<1>2. /\ {l \in Lines(i) : CreditAccount(l[1][1]) = "2010"}
           = {l \in Lines(i) : l[1][1] \in WalletKinds /\ Direction(l[1][1]) = "CREDIT"}
      /\ {l \in Lines(i) : DebitAccount(l[1][1]) = "2010"}
           = {l \in Lines(i) : l[1][1] \in WalletKinds /\ Direction(l[1][1]) = "DEBIT"}
  BY <1>1, KindAccounts
<1> QED
  BY <1>2, MirroredSide DEF GLBalance, AvailableBalance, PostedCredits, PostedDebits
=============================================================================
