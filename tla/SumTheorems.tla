----------------------------- MODULE SumTheorems -----------------------------
(***************************************************************************)
(* Facts about sums over finite sets, SumFunctionOnSet of Functions: what   *)
(* adding, removing or changing an element does to the sum.  The sum is a    *)
(* recursive function of subsets that takes its elements in an order that    *)
(* CHOOSE fixes; the induction is by a least counterexample.                 *)
(***************************************************************************)
EXTENDS Integers, FiniteSets, Functions, FiniteSetTheorems, WellFoundedInduction, TLAPS

(* Every set of natural numbers that is not empty has a least element.      *)
LEMMA LeastNatural ==
    ASSUME NEW T \in SUBSET Nat, T # {}
    PROVE  \E m \in T : \A k \in T : m <= k
<1>1. IsWellFoundedOn(OpToRel(<, Nat), Nat)
  BY NatLessThanWellFounded
<1>2. PICK m \in T : \A k \in T : ~(<<k, m>> \in OpToRel(<, Nat))
  BY <1>1, WFMin
<1>3. \A k \in T : ~(k < m)
  BY <1>2 DEF OpToRel
<1> QED BY <1>3

-----------------------------------------------------------------------------
First(s) == CHOOSE x \in s : TRUE

Below(S, n) == {s \in SUBSET S : Cardinality(s) <= n}

(* g sums up f over the sets of D. *)
Sums(g, f, D) == g = [s \in D |-> IF s = {} THEN 0 ELSE f[First(s)] + g[s \ {First(s)}]]

LEMMA SumIsChosen ==
    ASSUME NEW f, NEW S
    PROVE  SumFunctionOnSet(f, S) = (CHOOSE g : Sums(g, f, SUBSET S))[S]
  BY DEF SumFunctionOnSet, FoldFunctionOnSet, MapThenFoldSet, Sums, First

LEMMA Smaller ==
    ASSUME NEW S, IsFiniteSet(S), NEW s \in SUBSET S
    PROVE  /\ IsFiniteSet(s) /\ Cardinality(s) \in Nat
           /\ s # {} => First(s) \in s
           /\ \A x \in s : /\ Cardinality(s \ {x}) = Cardinality(s) - 1
                           /\ Cardinality(s) > 0
<1>1. IsFiniteSet(s) /\ Cardinality(s) \in Nat
  BY FS_Subset, FS_CardinalityType
<1>2. s # {} => First(s) \in s
  BY DEF First
<1>3. ASSUME NEW x \in s
      PROVE  Cardinality(s \ {x}) = Cardinality(s) - 1 /\ Cardinality(s) > 0
  <2>1. Cardinality(s \ {x}) = Cardinality(s) - 1
    BY <1>1, FS_RemoveElement
  <2>2. Cardinality(s) # 0
    BY <1>1, FS_EmptySet
  <2> QED BY <1>1, <2>1, <2>2
<1> QED BY <1>1, <1>2, <1>3

(* Such a function exists: from one for the sets of n elements comes one for *)
(* the sets of n + 1.                                                        *)
LEMMA SumsExist ==
    ASSUME NEW S, IsFiniteSet(S), NEW f
    PROVE  \E g : Sums(g, f, SUBSET S)
<1> DEFINE P(n) == \E g : Sums(g, f, Below(S, n))
           Bad == {n \in Nat : ~P(n)}
<1>1. P(0)
  <2>1. \A s \in Below(S, 0) : s = {}
    <3> TAKE s \in Below(S, 0)
    <3>1. IsFiniteSet(s) /\ Cardinality(s) \in Nat /\ Cardinality(s) <= 0
      BY Smaller DEF Below
    <3> QED BY <3>1, FS_EmptySet
  <2>2. Sums([s \in Below(S, 0) |-> 0], f, Below(S, 0))
    BY <2>1 DEF Sums
  <2> QED BY <2>2
<1>2. ASSUME NEW n \in Nat, P(n) PROVE P(n + 1)
  <2>1. PICK g : Sums(g, f, Below(S, n))
    BY <1>2
  <2> DEFINE h == [s \in Below(S, n + 1) |-> IF s = {} THEN 0 ELSE f[First(s)] + g[s \ {First(s)}]]
  <2>2. ASSUME NEW s \in Below(S, n + 1), s # {}
        PROVE  s \ {First(s)} \in Below(S, n) /\ s \ {First(s)} \in Below(S, n + 1)
    <3>1. /\ Cardinality(s) \in Nat /\ Cardinality(s) <= n + 1 /\ s \in SUBSET S
          /\ Cardinality(s \ {First(s)}) = Cardinality(s) - 1
      BY <2>2, Smaller DEF Below
    <3>2. Cardinality(s \ {First(s)}) <= n /\ Cardinality(s \ {First(s)}) <= n + 1
      BY <3>1
    <3>3. s \ {First(s)} \in SUBSET S
      BY <3>1
    <3> QED BY <3>2, <3>3 DEF Below
  <2>3. ASSUME NEW s \in Below(S, n) PROVE s \in Below(S, n + 1) /\ h[s] = g[s]
    <3>1. Cardinality(s) \in Nat /\ Cardinality(s) <= n /\ s \in SUBSET S
      BY Smaller DEF Below
    <3>2. s \in Below(S, n + 1)
      BY <3>1 DEF Below
    <3> QED BY <2>1, <3>2 DEF Sums
  <2>4. Sums(h, f, Below(S, n + 1))
    <3>1. ASSUME NEW s \in Below(S, n + 1), s # {}
          PROVE  h[s \ {First(s)}] = g[s \ {First(s)}]
      BY <2>2, <2>3, <3>1
    <3> QED BY <3>1 DEF Sums
  <2> QED BY <2>4
<1>3. Bad = {}
  <2> SUFFICES ASSUME Bad # {} PROVE FALSE
    OBVIOUS
  <2>1. PICK m \in Bad : \A k \in Bad : m <= k
    BY LeastNatural
  <2> HIDE DEF P
  <2>2. m # 0
    BY <1>1, <2>1
  <2>3. m - 1 \in Nat /\ P(m - 1)
    BY <2>1, <2>2
  <2>4. P(m - 1 + 1)
    BY <1>2, <2>3
  <2> QED BY <2>1, <2>4
<1>4. Cardinality(S) \in Nat
  BY FS_CardinalityType
<1>5. Below(S, Cardinality(S)) = SUBSET S
  BY FS_Subset DEF Below
<1>6. P(Cardinality(S))
  <2> HIDE DEF P
  <2> QED BY <1>3, <1>4
<1> QED BY <1>5, <1>6

-----------------------------------------------------------------------------
Ints(f, S) == \A x \in S : f[x] \in Int

(* Such a function gives integers, and any element may be taken out first.  *)
LEMMA SumsType ==
    ASSUME NEW S, IsFiniteSet(S), NEW f, Ints(f, S), NEW g, Sums(g, f, SUBSET S)
    PROVE  \A s \in SUBSET S : g[s] \in Int
<1> DEFINE Bad == {n \in Nat : \E s \in SUBSET S : Cardinality(s) = n /\ g[s] \notin Int}
<1> SUFFICES ASSUME NEW s0 \in SUBSET S, g[s0] \notin Int PROVE FALSE
  OBVIOUS
<1>1. Cardinality(s0) \in Bad
  BY Smaller
<1>2. PICK m \in Bad : \A k \in Bad : m <= k
  <2> HIDE DEF Bad
  <2>1. Bad \in SUBSET Nat
    BY DEF Bad
  <2> QED BY <1>1, <2>1, LeastNatural
<1>3. PICK s \in SUBSET S : Cardinality(s) = m /\ g[s] \notin Int
  BY <1>2
<1>4. s # {} /\ First(s) \in s
  <2>1. g[{}] = 0
    BY DEF Sums
  <2>2. s # {}
    <3>1. 0 \in Int
      OBVIOUS
    <3> QED BY <1>3, <2>1, <3>1, Zenon
  <2> QED BY <2>2, Smaller
<1>5. g[s] = f[First(s)] + g[s \ {First(s)}]
  BY <1>4 DEF Sums
<1>6. g[s \ {First(s)}] \notin Int
  BY <1>3, <1>4, <1>5 DEF Ints
<1>7. Cardinality(s \ {First(s)}) = m - 1 /\ m - 1 \in Nat
  BY <1>3, <1>4, Smaller
<1>8. m - 1 \in Bad
  BY <1>6, <1>7
<1> QED BY <1>2, <1>7, <1>8

LEMMA SumsStep ==
    ASSUME NEW S, IsFiniteSet(S), NEW f, Ints(f, S), NEW g, Sums(g, f, SUBSET S)
    PROVE  \A s \in SUBSET S : \A x \in s : g[s] = f[x] + g[s \ {x}]
<1> DEFINE Bad == {n \in Nat : \E s \in SUBSET S : /\ Cardinality(s) = n
                                                   /\ \E x \in s : g[s] # f[x] + g[s \ {x}]}
<1> SUFFICES ASSUME NEW s0 \in SUBSET S, NEW x0 \in s0, g[s0] # f[x0] + g[s0 \ {x0}]
             PROVE  FALSE
  OBVIOUS
<1>1. Cardinality(s0) \in Bad
  BY Smaller
<1>2. PICK m \in Bad : \A k \in Bad : m <= k
  <2> HIDE DEF Bad
  <2>1. Bad \in SUBSET Nat
    BY DEF Bad
  <2> QED BY <1>1, <2>1, LeastNatural
<1>3. PICK s \in SUBSET S : Cardinality(s) = m /\ \E x \in s : g[s] # f[x] + g[s \ {x}]
  BY <1>2
<1>4. PICK x \in s : g[s] # f[x] + g[s \ {x}]
  BY <1>3
<1> DEFINE y == First(s)
<1>5. y \in s
  BY Smaller
<1>6. g[s] = f[y] + g[s \ {y}]
  BY <1>5 DEF Sums
<1>7. x # y
  BY <1>4, <1>6
<1> HIDE DEF y
<1>8. /\ Cardinality(s \ {y}) = m - 1 /\ Cardinality(s \ {x}) = m - 1 /\ m - 1 \in Nat
      /\ m - 1 < m
  BY <1>3, <1>5, Smaller
<1>9. m - 1 \notin Bad
  BY <1>2, <1>8
<1>10. g[s \ {y}] = f[x] + g[(s \ {y}) \ {x}]
  <2>1. s \ {y} \in SUBSET S /\ x \in s \ {y}
    BY <1>7
  <2> QED BY <1>8, <1>9, <2>1
<1>11. g[s \ {x}] = f[y] + g[(s \ {x}) \ {y}]
  <2>1. s \ {x} \in SUBSET S /\ y \in s \ {x}
    BY <1>5, <1>7
  <2> QED BY <1>8, <1>9, <2>1
<1>12. (s \ {y}) \ {x} = (s \ {x}) \ {y}
  OBVIOUS
<1>13. g[(s \ {x}) \ {y}] \in Int /\ f[x] \in Int /\ f[y] \in Int
  <2>1. (s \ {x}) \ {y} \in SUBSET S
    OBVIOUS
  <2> QED BY <1>5, <2>1, SumsType DEF Ints
<1>14. g[s] = f[y] + (f[x] + g[(s \ {x}) \ {y}])
  BY <1>6, <1>10, <1>12, Zenon
<1>15. f[x] + g[s \ {x}] = f[x] + (f[y] + g[(s \ {x}) \ {y}])
  BY <1>11, Zenon
<1>16. \A a, b, c \in Int : a + (b + c) = b + (a + c)
  OBVIOUS
<1>17. f[y] + (f[x] + g[(s \ {x}) \ {y}]) = f[x] + (f[y] + g[(s \ {x}) \ {y}])
  BY <1>13, <1>16, Zenon
<1> QED BY <1>4, <1>14, <1>15, <1>17, Zenon

(* Functions that agree on a set sum up to the same over it.                *)
LEMMA SumsAgree ==
    ASSUME NEW S, IsFiniteSet(S), NEW T, IsFiniteSet(T), NEW R, R \subseteq S, R \subseteq T,
           NEW f, Ints(f, S), NEW g, Sums(g, f, SUBSET S),
           NEW e, Ints(e, T), NEW h, Sums(h, e, SUBSET T),
           \A x \in R : f[x] = e[x]
    PROVE  g[R] = h[R]
<1> DEFINE Bad == {n \in Nat : \E s \in SUBSET R : Cardinality(s) = n /\ g[s] # h[s]}
<1> SUFFICES ASSUME g[R] # h[R] PROVE FALSE
  OBVIOUS
<1>1. Cardinality(R) \in Bad
  BY Smaller
<1>2. PICK m \in Bad : \A k \in Bad : m <= k
  <2> HIDE DEF Bad
  <2>1. Bad \in SUBSET Nat
    BY DEF Bad
  <2> QED BY <1>1, <2>1, LeastNatural
<1>3. PICK s \in SUBSET R : Cardinality(s) = m /\ g[s] # h[s]
  BY <1>2
<1>4. s \in SUBSET S /\ s \in SUBSET T
  OBVIOUS
<1>5. s # {}
  <2>1. g[{}] = 0 /\ h[{}] = 0
    BY DEF Sums
  <2> QED BY <1>3, <2>1
<1>6. PICK x : x \in s
  BY <1>5
<1>7. g[s] = f[x] + g[s \ {x}] /\ h[s] = e[x] + h[s \ {x}]
  BY <1>4, <1>6, SumsStep
<1>8. Cardinality(s \ {x}) = m - 1 /\ m - 1 \in Nat /\ m - 1 < m
  BY <1>3, <1>4, <1>6, Smaller
<1>9. g[s \ {x}] = h[s \ {x}]
  <2>1. s \ {x} \in SUBSET R
    OBVIOUS
  <2>2. m - 1 \notin Bad
    BY <1>2, <1>8
  <2> QED BY <1>8, <2>1, <2>2
<1> QED BY <1>3, <1>6, <1>7, <1>9

-----------------------------------------------------------------------------
(* The facts about SumFunctionOnSet. *)

LEMMA SumIsSums ==
    ASSUME NEW S, IsFiniteSet(S), NEW f
    PROVE  \E g : Sums(g, f, SUBSET S) /\ SumFunctionOnSet(f, S) = g[S]
<1>1. \E g : Sums(g, f, SUBSET S)
  BY SumsExist
<1>2. Sums(CHOOSE g : Sums(g, f, SUBSET S), f, SUBSET S)
  BY <1>1
<1> QED BY <1>2, SumIsChosen

-----------------------------------------------------------------------------
(* A sum of integers is an integer.                                          *)
THEOREM SumType ==
    ASSUME NEW S, IsFiniteSet(S), NEW f, Ints(f, S)
    PROVE  SumFunctionOnSet(f, S) \in Int
  BY SumIsSums, SumsType

(* The sum over no elements is 0.                                            *)
THEOREM SumEmpty ==
    ASSUME NEW f
    PROVE  SumFunctionOnSet(f, {}) = 0
<1>1. PICK g : Sums(g, f, SUBSET {}) /\ SumFunctionOnSet(f, {}) = g[{}]
  BY FS_EmptySet, SumIsSums
<1> QED BY <1>1 DEF Sums

(* The sum depends on the values over the set alone.                         *)
THEOREM SumSame ==
    ASSUME NEW S, IsFiniteSet(S), NEW f, NEW e, Ints(f, S), \A x \in S : e[x] = f[x]
    PROVE  SumFunctionOnSet(e, S) = SumFunctionOnSet(f, S)
<1>1. PICK g : Sums(g, f, SUBSET S) /\ SumFunctionOnSet(f, S) = g[S]
  BY SumIsSums
<1>2. PICK h : Sums(h, e, SUBSET S) /\ SumFunctionOnSet(e, S) = h[S]
  BY SumIsSums
<1>3. Ints(e, S)
  BY DEF Ints
<1>4. \A x \in S : f[x] = e[x]
  OBVIOUS
<1> QED BY <1>1, <1>2, <1>3, <1>4, SumsAgree

(* Any element can be taken out of the sum, not the chosen one only.          *)
THEOREM SumRemove ==
    ASSUME NEW S, IsFiniteSet(S), NEW f, Ints(f, S), NEW x \in S
    PROVE  SumFunctionOnSet(f, S) = f[x] + SumFunctionOnSet(f, S \ {x})
<1>1. PICK g : Sums(g, f, SUBSET S) /\ SumFunctionOnSet(f, S) = g[S]
  BY SumIsSums
<1>2. IsFiniteSet(S \ {x}) /\ Ints(f, S \ {x})
  BY FS_RemoveElement DEF Ints
<1>3. PICK h : Sums(h, f, SUBSET (S \ {x})) /\ SumFunctionOnSet(f, S \ {x}) = h[S \ {x}]
  BY <1>2, SumIsSums
<1>4. g[S] = f[x] + g[S \ {x}]
  BY <1>1, SumsStep
<1> DEFINE R == S \ {x}
<1>5. R \subseteq S /\ R \subseteq R /\ \A y \in R : f[y] = f[y]
  OBVIOUS
<1>6. g[R] = h[R]
  <2>1. IsFiniteSet(R) /\ Ints(f, R) /\ Sums(h, f, SUBSET R)
    BY <1>2, <1>3
  <2> HIDE DEF R
  <2> QED BY <1>1, <1>5, <2>1, SumsAgree
<1> QED BY <1>1, <1>3, <1>4, <1>6

(* An element that is added adds its value.                                  *)
THEOREM SumAdd ==
    ASSUME NEW S, IsFiniteSet(S), NEW x, x \notin S, NEW f, Ints(f, S \cup {x})
    PROVE  SumFunctionOnSet(f, S \cup {x}) = f[x] + SumFunctionOnSet(f, S)
<1>1. IsFiniteSet(S \cup {x}) /\ (S \cup {x}) \ {x} = S /\ x \in S \cup {x}
  BY FS_AddElement
<1> QED BY <1>1, SumRemove

(* When one value changes the sum changes by as much.                        *)
THEOREM SumChange ==
    ASSUME NEW S, IsFiniteSet(S), NEW x \in S, NEW f, NEW e, Ints(f, S), e[x] \in Int,
           \A y \in S \ {x} : e[y] = f[y]
    PROVE  SumFunctionOnSet(e, S) = SumFunctionOnSet(f, S) - f[x] + e[x]
<1>1. Ints(e, S) /\ IsFiniteSet(S \ {x}) /\ Ints(f, S \ {x})
  BY FS_RemoveElement DEF Ints
<1>2. /\ SumFunctionOnSet(e, S) = e[x] + SumFunctionOnSet(e, S \ {x})
      /\ SumFunctionOnSet(f, S) = f[x] + SumFunctionOnSet(f, S \ {x})
  BY <1>1, SumRemove
<1>3. SumFunctionOnSet(e, S \ {x}) = SumFunctionOnSet(f, S \ {x})
  BY <1>1, SumSame
<1>4. SumFunctionOnSet(f, S \ {x}) \in Int /\ f[x] \in Int
  BY <1>1, SumType DEF Ints
<1> QED BY <1>2, <1>3, <1>4

(* Elements whose value is 0 can be left out.                                *)
THEOREM SumZeros ==
    ASSUME NEW S, IsFiniteSet(S), NEW f, Ints(f, S), NEW T \in SUBSET S, \A x \in S \ T : f[x] = 0
    PROVE  SumFunctionOnSet(f, S) = SumFunctionOnSet(f, T)
<1> DEFINE Differs(R) == SumFunctionOnSet(f, T \cup R) # SumFunctionOnSet(f, T)
           Bad == {n \in Nat : \E R \in SUBSET (S \ T) : Cardinality(R) = n /\ Differs(R)}
<1> SUFFICES ASSUME Differs(S \ T) PROVE FALSE
  <2>1. T \cup (S \ T) = S
    OBVIOUS
  <2> QED BY <2>1
<1>1. \A R \in SUBSET (S \ T) : IsFiniteSet(R) /\ Cardinality(R) \in Nat
  BY FS_Subset, FS_CardinalityType
<1>2. Cardinality(S \ T) \in Bad
  <2>1. S \ T \in SUBSET (S \ T)
    OBVIOUS
  <2> HIDE DEF Differs
  <2> QED BY <1>1, <2>1
<1>3. PICK m \in Bad : \A k \in Bad : m <= k
  BY <1>2, LeastNatural
<1>4. PICK R \in SUBSET (S \ T) : Cardinality(R) = m /\ Differs(R)
  BY <1>3
<1>5. R # {}
  <2>1. T \cup {} = T
    OBVIOUS
  <2> QED BY <1>4, <2>1
<1>6. PICK x \in R : TRUE
  BY <1>5
<1>7. Cardinality(R \ {x}) = m - 1 /\ R \ {x} \in SUBSET (S \ T)
  BY <1>1, <1>4, <1>6, FS_RemoveElement
<1>8. Differs(R \ {x})
  <2> DEFINE Q == T \cup R
             P == T \cup (R \ {x})
  <2>1. Q \ {x} = P /\ x \in Q /\ Q \subseteq S /\ P \subseteq S /\ f[x] = 0
    BY <1>4, <1>6
  <2>2. IsFiniteSet(Q) /\ Ints(f, Q) /\ IsFiniteSet(P) /\ Ints(f, P)
    BY <2>1, FS_Subset DEF Ints
  <2>3. SumFunctionOnSet(f, Q) # SumFunctionOnSet(f, T)
    BY <1>4
  <2> SUFFICES SumFunctionOnSet(f, P) # SumFunctionOnSet(f, T)
    OBVIOUS
  <2> HIDE DEF Q, P
  <2>4. SumFunctionOnSet(f, Q) = f[x] + SumFunctionOnSet(f, Q \ {x})
    BY <2>1, <2>2, SumRemove
  <2>5. SumFunctionOnSet(f, P) \in Int
    BY <2>2, SumType
  <2> QED BY <2>1, <2>3, <2>4, <2>5
<1> HIDE DEF Differs
<1>9. m - 1 \in Nat
  BY <1>1, <1>7
<1>10. m - 1 \in Bad
  BY <1>7, <1>8, <1>9
<1> QED BY <1>3, <1>9, <1>10

(* The sum of two functions.                                                 *)
THEOREM SumPlus ==
    ASSUME NEW S, IsFiniteSet(S), NEW f, NEW e, NEW g, Ints(f, S), Ints(e, S),
           \A x \in S : g[x] = f[x] + e[x]
    PROVE  SumFunctionOnSet(g, S) = SumFunctionOnSet(f, S) + SumFunctionOnSet(e, S)
<1> DEFINE Differs(R) == SumFunctionOnSet(g, R) # SumFunctionOnSet(f, R) + SumFunctionOnSet(e, R)
           Bad == {n \in Nat : \E R \in SUBSET S : Cardinality(R) = n /\ Differs(R)}
<1> SUFFICES ASSUME Differs(S) PROVE FALSE
  OBVIOUS
<1>1. \A R \in SUBSET S : /\ IsFiniteSet(R) /\ Cardinality(R) \in Nat
                          /\ Ints(f, R) /\ Ints(e, R) /\ Ints(g, R)
  BY FS_Subset, FS_CardinalityType DEF Ints
<1>2. Cardinality(S) \in Bad
  <2>1. S \in SUBSET S
    OBVIOUS
  <2> HIDE DEF Differs
  <2> QED BY <1>1, <2>1
<1>3. PICK m \in Bad : \A k \in Bad : m <= k
  BY <1>2, LeastNatural
<1>4. PICK R \in SUBSET S : Cardinality(R) = m /\ Differs(R)
  BY <1>3
<1>5. R # {}
  <2>1. SumFunctionOnSet(g, {}) = 0 /\ SumFunctionOnSet(f, {}) = 0 /\ SumFunctionOnSet(e, {}) = 0
    BY SumEmpty
  <2> QED BY <1>4, <2>1
<1>6. PICK x \in R : TRUE
  BY <1>5
<1> DEFINE P == R \ {x}
<1>7. Cardinality(P) = m - 1 /\ P \in SUBSET S
  BY <1>1, <1>4, <1>6, FS_RemoveElement
<1>8. Differs(P)
  <2>1. /\ SumFunctionOnSet(g, R) = g[x] + SumFunctionOnSet(g, P)
        /\ SumFunctionOnSet(f, R) = f[x] + SumFunctionOnSet(f, P)
        /\ SumFunctionOnSet(e, R) = e[x] + SumFunctionOnSet(e, P)
    BY <1>1, <1>4, <1>6, SumRemove
  <2> HIDE DEF P
  <2>2. /\ SumFunctionOnSet(g, P) \in Int /\ SumFunctionOnSet(f, P) \in Int
        /\ SumFunctionOnSet(e, P) \in Int
    BY <1>1, <1>7, SumType
  <2>3. f[x] \in Int /\ e[x] \in Int /\ g[x] = f[x] + e[x]
    BY <1>6 DEF Ints
  <2>4. SumFunctionOnSet(g, R) # SumFunctionOnSet(f, R) + SumFunctionOnSet(e, R)
    BY <1>4
  <2> QED BY <2>1, <2>2, <2>3, <2>4
<1> HIDE DEF Differs, P
<1>9. m - 1 \in Nat
  BY <1>1, <1>7
<1>10. m - 1 \in Bad
  BY <1>7, <1>8, <1>9
<1> QED BY <1>3, <1>9, <1>10
(* A sum of natural numbers is one, and no less than any of them.            *)
THEOREM SumNat ==
    ASSUME NEW S, IsFiniteSet(S), NEW f, \A x \in S : f[x] \in Nat
    PROVE  /\ SumFunctionOnSet(f, S) \in Nat
           /\ \A x \in S : f[x] <= SumFunctionOnSet(f, S)
<1> DEFINE Negative(R) == ~(SumFunctionOnSet(f, R) \in Nat)
           Bad == {n \in Nat : \E R \in SUBSET S : Cardinality(R) = n /\ Negative(R)}
<1>1. \A R \in SUBSET S : IsFiniteSet(R) /\ Cardinality(R) \in Nat /\ Ints(f, R)
  BY FS_Subset, FS_CardinalityType DEF Ints
<1>2. ASSUME Bad # {} PROVE FALSE
  <2>1. PICK m \in Bad : \A k \in Bad : m <= k
    BY <1>2, LeastNatural
  <2>2. PICK R \in SUBSET S : Cardinality(R) = m /\ Negative(R)
    BY <2>1
  <2>3. R # {}
    BY <2>2, SumEmpty
  <2>4. PICK x \in R : TRUE
    BY <2>3
  <2> DEFINE P == R \ {x}
  <2>5. Cardinality(P) = m - 1 /\ P \in SUBSET S
    BY <1>1, <2>2, <2>4, FS_RemoveElement
  <2>6. SumFunctionOnSet(f, R) = f[x] + SumFunctionOnSet(f, P)
    BY <1>1, <2>2, <2>4, SumRemove
  <2>7. Negative(P)
    BY <2>2, <2>4, <2>6
  <2> HIDE DEF Negative, P
  <2>8. m - 1 \in Nat
    BY <1>1, <2>5
  <2>9. m - 1 \in Bad
    BY <2>5, <2>7, <2>8
  <2> QED BY <2>1, <2>8, <2>9
<1>3. \A R \in SUBSET S : SumFunctionOnSet(f, R) \in Nat
  BY <1>1, <1>2
<1>4. ASSUME NEW x \in S PROVE f[x] <= SumFunctionOnSet(f, S)
  <2>1. SumFunctionOnSet(f, S) = f[x] + SumFunctionOnSet(f, S \ {x})
    BY <1>1, SumRemove
  <2>2. SumFunctionOnSet(f, S \ {x}) \in Nat /\ f[x] \in Nat
    BY <1>3
  <2> QED BY <2>1, <2>2
<1> QED BY <1>3, <1>4
=============================================================================
