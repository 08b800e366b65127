---------------------------- MODULE Totals_proofs ----------------------------
(***************************************************************************)
(* The laws of Total: it is a natural number, it is determined by the      *)
(* values over S, a change of one value changes it by the difference, and  *)
(* it bounds each of its terms.                                            *)
(***************************************************************************)
EXTENDS Totals, FiniteSetTheorems, TLAPS

(***************************************************************************)
(* The units of finitely many elements form a finite set, so a total of    *)
(* document amounts is a natural number.                                   *)
(***************************************************************************)
LEMMA TotalType ==
  ASSUME NEW S, IsFiniteSet(S), NEW f, \A x \in S : f[x] \in Nat
  PROVE  IsFiniteSet(Units(S, f)) /\ Total(S, f) \in Nat
<1> DEFINE Row(x) == {x} \X (1 .. f[x])
           Rows == {Row(x) : x \in S}
           g == [x \in S |-> Row(x)]
<1>1. g \in Surjection(S, Rows)
  BY DEF Surjection
<1>2. IsFiniteSet(Rows)
  BY <1>1, FS_Surjection
<1>3. ASSUME NEW R \in Rows PROVE IsFiniteSet(R)
  <2>1. PICK x \in S : R = {x} \X (1 .. f[x])
    OBVIOUS
  <2>2. IsFiniteSet({x})
    BY FS_Singleton
  <2>3. IsFiniteSet(1 .. f[x])
    <3>1. f[x] \in Int
      OBVIOUS
    <3> QED BY <3>1, FS_Interval
  <2> QED BY <2>1, <2>2, <2>3, FS_Product
<1>4. IsFiniteSet(UNION Rows)
  <2> HIDE DEF Rows
  <2> QED BY <1>2, <1>3, FS_UNION
<1>5. IsFiniteSet(Units(S, f))
  BY <1>4 DEF Units
<1> QED BY <1>5, FS_CardinalityType DEF Total

(***************************************************************************)
(* Two documents-to-amounts functions that agree on S have the same total. *)
(***************************************************************************)
LEMMA TotalSame ==
  ASSUME NEW S, NEW f, NEW g, \A x \in S : f[x] = g[x]
  PROVE  Total(S, f) = Total(S, g)
<1>1. {{x} \X (1 .. f[x]) : x \in S} = {{x} \X (1 .. g[x]) : x \in S}
  OBVIOUS
<1> QED BY <1>1 DEF Total, Units

(***************************************************************************)
(* One element splits off: the total is its amount plus the total of the   *)
(* others.                                                                 *)
(***************************************************************************)
LEMMA TotalSplit ==
  ASSUME NEW S, IsFiniteSet(S), NEW f, \A x \in S : f[x] \in Nat, NEW a \in S
  PROVE  Total(S, f) = Total(S \ {a}, f) + f[a]
<1> DEFINE Mine == {a} \X (1 .. f[a])
           Others == Units(S \ {a}, f)
<1>1. Units(S, f) = Others \cup Mine
  BY DEF Units
<1>2. Others \cap Mine = {}
  BY DEF Units
<1>3. IsFiniteSet(S \ {a})
  BY FS_RemoveElement
<1>4. IsFiniteSet(Others) /\ Cardinality(Others) \in Nat
  BY <1>3, TotalType DEF Total
<1>5. IsFiniteSet(Mine) /\ Cardinality(Mine) = f[a]
  <2>1. IsFiniteSet({a}) /\ Cardinality({a}) = 1
    BY FS_Singleton
  <2>2. PICK n \in Nat : n = f[a]
    OBVIOUS
  <2>3. IsFiniteSet(1 .. n) /\ Cardinality(1 .. n) = IF 1 > n THEN 0 ELSE n - 1 + 1
    BY FS_Interval
  <2>4. Cardinality(1 .. n) = n
    BY <2>3
  <2>5. /\ IsFiniteSet({a} \X (1 .. n))
        /\ Cardinality({a} \X (1 .. n)) = Cardinality({a}) * Cardinality(1 .. n)
    BY <2>1, <2>3, FS_Product, Zenon
  <2> QED BY <2>1, <2>2, <2>4, <2>5
<1>6. Cardinality(Others \cap Mine) = 0
  BY <1>2, FS_EmptySet
<1>7. Cardinality(Others \cup Mine) = Cardinality(Others) + Cardinality(Mine)
  <2> HIDE DEF Others, Mine
  <2>1. Cardinality(Others \cup Mine)
          = Cardinality(Others) + Cardinality(Mine) - Cardinality(Others \cap Mine)
    BY <1>4, <1>5, FS_Union, Zenon
  <2>2. Cardinality(Others) \in Nat /\ Cardinality(Mine) \in Nat
    BY <1>4, <1>5
  <2> QED BY <2>1, <2>2, <1>6
<1> QED BY <1>1, <1>5, <1>7 DEF Total

(***************************************************************************)
(* Posting or reversing one document changes the total of the live amounts *)
(* by the change of that document's own amount.                            *)
(***************************************************************************)
LEMMA TotalChange ==
  ASSUME NEW S, IsFiniteSet(S), NEW f, NEW g, NEW a \in S,
         \A x \in S : f[x] \in Nat /\ g[x] \in Nat,
         \A x \in S \ {a} : f[x] = g[x]
  PROVE  Total(S, g) = Total(S, f) - f[a] + g[a]
<1>1. Total(S, f) = Total(S \ {a}, f) + f[a]
  BY TotalSplit
<1>2. Total(S, g) = Total(S \ {a}, g) + g[a]
  BY TotalSplit
<1>3. Total(S \ {a}, f) = Total(S \ {a}, g)
  BY TotalSame
<1>4. IsFiniteSet(S \ {a})
  BY FS_RemoveElement
<1>5. Total(S \ {a}, f) \in Nat
  BY <1>4, TotalType
<1>6. f[a] \in Nat /\ g[a] \in Nat
  OBVIOUS
<1> QED BY <1>1, <1>2, <1>3, <1>5, <1>6

(***************************************************************************)
(* No term exceeds the total; in particular a total of zero has only zero  *)
(* terms.                                                                  *)
(***************************************************************************)
LEMMA TotalBound ==
  ASSUME NEW S, IsFiniteSet(S), NEW f, \A x \in S : f[x] \in Nat, NEW a \in S
  PROVE  f[a] <= Total(S, f)
<1>1. Total(S, f) = Total(S \ {a}, f) + f[a]
  BY TotalSplit
<1>2. IsFiniteSet(S \ {a})
  BY FS_RemoveElement
<1>3. Total(S \ {a}, f) \in Nat
  BY <1>2, TotalType
<1>4. f[a] \in Nat
  OBVIOUS
<1> QED BY <1>1, <1>3, <1>4

(***************************************************************************)
(* Where no document is live the total is zero.                            *)
(***************************************************************************)
LEMMA TotalZero ==
  ASSUME NEW S, NEW f, \A x \in S : f[x] = 0
  PROVE  Total(S, f) = 0
<1>1. \A x \in S : {x} \X (1 .. f[x]) = {}
  OBVIOUS
<1>2. Units(S, f) = {}
  BY <1>1 DEF Units
<1> QED BY <1>2, FS_EmptySet DEF Total

(***************************************************************************)
(* Only nothing adds up to nothing.                                        *)
(***************************************************************************)
LEMMA TotalIsZero ==
  ASSUME NEW S, IsFiniteSet(S), NEW f, \A x \in S : f[x] \in Nat
  PROVE  Total(S, f) = 0 <=> \A x \in S : f[x] = 0
<1>1. ASSUME Total(S, f) = 0, NEW x \in S PROVE f[x] = 0
  <2>1. f[x] <= Total(S, f)
    BY TotalBound
  <2> QED BY <1>1, <2>1
<1>2. (\A x \in S : f[x] = 0) => Total(S, f) = 0
  BY TotalZero
<1> QED BY <1>1, <1>2

(***************************************************************************)
(* Totals add up: what several documents take off an item together is the  *)
(* sum of what each takes.                                                 *)
(***************************************************************************)
LEMMA TotalSum ==
  ASSUME NEW S, IsFiniteSet(S), NEW f, NEW g, NEW h,
         \A x \in S : f[x] \in Nat /\ g[x] \in Nat,
         \A x \in S : h[x] = f[x] + g[x]
  PROVE  Total(S, h) = Total(S, f) + Total(S, g)
<1> DEFINE Shifted == {<<u[1], f[u[1]] + u[2]>> : u \in Units(S, g)}
           shift == [u \in Units(S, g) |-> <<u[1], f[u[1]] + u[2]>>]
<1>1. /\ \A u : u \in Units(S, f) <=> \E x \in S : \E k \in 1 .. f[x] : u = <<x, k>>
      /\ \A u : u \in Units(S, g) <=> \E x \in S : \E k \in 1 .. g[x] : u = <<x, k>>
      /\ \A u : u \in Units(S, h) <=> \E x \in S : \E k \in 1 .. h[x] : u = <<x, k>>
  BY DEF Units
<1>2. \A u : u \in Shifted <=> \E x \in S : \E k \in 1 .. g[x] : u = <<x, f[x] + k>>
  <2>1. ASSUME NEW u \in Units(S, g)
        PROVE  \E x \in S : \E k \in 1 .. g[x] : <<u[1], f[u[1]] + u[2]>> = <<x, f[x] + k>>
    BY <1>1
  <2>2. ASSUME NEW x \in S, NEW k \in 1 .. g[x] PROVE <<x, f[x] + k>> \in Shifted
    <3>1. <<x, k>> \in Units(S, g)
      BY <1>1
    <3> QED BY <3>1
  <2> QED BY <2>1, <2>2
<1>0. ASSUME NEW x \in S PROVE f[x] \in Nat /\ g[x] \in Nat /\ h[x] = f[x] + g[x]
  OBVIOUS
<1>3. shift \in Surjection(Units(S, g), Shifted) /\ shift \in Injection(Units(S, g), Shifted)
  <2>1. shift \in Surjection(Units(S, g), Shifted)
    BY DEF Surjection
  <2>2. ASSUME NEW u \in Units(S, g), NEW w \in Units(S, g), shift[u] = shift[w] PROVE u = w
    <3>1. PICK x \in S, k \in Int : k \in 1 .. g[x] /\ u = <<x, k>>
      BY <1>1
    <3>2. PICK y \in S, j \in Int : j \in 1 .. g[y] /\ w = <<y, j>>
      BY <1>1
    <3>3. x = y /\ f[x] + k = f[y] + j
      BY <2>2, <3>1, <3>2
    <3>4. f[x] \in Int /\ k \in Int /\ j \in Int
      OBVIOUS
    <3> QED BY <3>1, <3>2, <3>3, <3>4
  <2>3. shift \in Injection(Units(S, g), Shifted)
    BY <2>1, <2>2 DEF Surjection, Injection, IsInjective
  <2> QED BY <2>1, <2>3
<1>4. IsFiniteSet(Units(S, f)) /\ IsFiniteSet(Units(S, g))
  BY TotalType
<1>5. IsFiniteSet(Shifted) /\ Cardinality(Shifted) = Cardinality(Units(S, g))
  <2> HIDE DEF shift, Shifted
  <2> QED BY <1>3, <1>4, FS_Surjection
<1>6. Units(S, f) \cap Shifted = {}
  <2> SUFFICES ASSUME NEW u \in Units(S, f), u \in Shifted PROVE FALSE
    OBVIOUS
  <2>1. PICK x \in S, k \in Int : k \in 1 .. f[x] /\ u = <<x, k>>
    BY <1>1
  <2>2. PICK y \in S, j \in Int : j \in 1 .. g[y] /\ u = <<y, f[y] + j>>
    BY <1>2
  <2> QED BY <2>1, <2>2
<1>7. Units(S, h) = Units(S, f) \cup Shifted
  <2>1. ASSUME NEW u \in Units(S, h) PROVE u \in Units(S, f) \cup Shifted
    <3>1. PICK x \in S, k \in Int : k \in 1 .. h[x] /\ u = <<x, k>>
      BY <1>1
    <3>2. CASE k <= f[x]
      <4>1. k \in 1 .. f[x]
        BY <1>0, <3>1, <3>2
      <4> QED BY <1>1, <3>1, <4>1
    <3>3. CASE ~ (k <= f[x])
      <4>1. k - f[x] \in 1 .. g[x] /\ k = f[x] + (k - f[x])
        BY <1>0, <3>1, <3>3
      <4> QED BY <1>2, <3>1, <4>1
    <3> QED BY <3>2, <3>3
  <2>2. ASSUME NEW u \in Units(S, f) PROVE u \in Units(S, h)
    <3>1. PICK x \in S, k \in Int : k \in 1 .. f[x] /\ u = <<x, k>>
      BY <1>1
    <3>2. k \in 1 .. h[x]
      BY <1>0, <3>1
    <3> QED BY <1>1, <3>1, <3>2
  <2>3. ASSUME NEW u \in Shifted PROVE u \in Units(S, h)
    <3>1. PICK x \in S, k \in Int : k \in 1 .. g[x] /\ u = <<x, f[x] + k>>
      BY <1>2
    <3>2. f[x] + k \in 1 .. h[x]
      BY <1>0, <3>1
    <3> QED BY <1>1, <3>1, <3>2
  <2> QED BY <2>1, <2>2, <2>3
<1> HIDE DEF Shifted
<1>8. Cardinality(Units(S, f) \cup Shifted) = Cardinality(Units(S, f)) + Cardinality(Shifted)
  <2>1. Cardinality(Units(S, f) \cup Shifted)
          = Cardinality(Units(S, f)) + Cardinality(Shifted) - Cardinality(Units(S, f) \cap Shifted)
    BY <1>4, <1>5, FS_Union, Zenon
  <2>2. Cardinality(Units(S, f)) \in Nat /\ Cardinality(Shifted) \in Nat
    BY <1>4, <1>5, FS_CardinalityType
  <2>3. Cardinality(Units(S, f) \cap Shifted) = 0
    BY <1>6, FS_EmptySet
  <2> QED BY <2>1, <2>2, <2>3
<1> QED BY <1>5, <1>7, <1>8 DEF Total

(***************************************************************************)
(* A document that is added adds its amount.                               *)
(***************************************************************************)
LEMMA TotalAdd ==
  ASSUME NEW S, IsFiniteSet(S), NEW f, NEW a, a \notin S,
         \A x \in S \cup {a} : f[x] \in Nat
  PROVE  Total(S \cup {a}, f) = Total(S, f) + f[a]
<1>1. IsFiniteSet(S \cup {a}) /\ (S \cup {a}) \ {a} = S /\ a \in S \cup {a}
  BY FS_AddElement
<1> QED BY <1>1, TotalSplit

=============================================================================
