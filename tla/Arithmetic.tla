------------------------------ MODULE Arithmetic ------------------------------
(***************************************************************************)
(* Quotients, sums of a function over a finite set (SumFunctionOnSet of    *)
(* module Functions), which balances and supplies are made of, and the     *)
(* conversions of Decimal.                                                 *)
(*                                                                         *)
(* A sum takes out of its set whatever element CHOOSE finds.  That this    *)
(* makes no difference is shown by looking at a smallest set for which it  *)
(* would: inclusion of finite sets is well founded.                        *)
(***************************************************************************)
EXTENDS Decimal, FiniteSets, Functions, FiniteSetTheorems, WellFoundedInduction, TLAPS

\* Integer division, the way Go's big.Int.Div rounds for a positive divisor.
LEMMA DivBounds ==
  ASSUME NEW a \in Int, NEW d \in Nat \ {0}
  PROVE  /\ a \div d \in Int
         /\ d * (a \div d) <= a
         /\ a < d * (a \div d) + d
  OBVIOUS

\* A product of integers preserves an order when the factor is natural.
LEMMA MulMono ==
  ASSUME NEW a \in Int, NEW b \in Int, NEW d \in Nat, a <= b
  PROVE  /\ a * d <= b * d
         /\ d * a <= d * b
  OBVIOUS

\* A quotient is the largest integer whose multiple does not exceed a.
LEMMA DivGreatest ==
  ASSUME NEW a \in Int, NEW d \in Nat \ {0}, NEW k \in Int, d * k <= a
  PROVE  k <= a \div d
  OBVIOUS

\* A quotient of naturals is natural.
LEMMA DivNat ==
  ASSUME NEW a \in Nat, NEW d \in Nat \ {0}
  PROVE  a \div d \in Nat
  BY DivBounds, DivGreatest

\* The low bits of a natural number, taken for a number between -m - 1 and m,
\* are not greater than the number; and a number that fits stays what it is.
LEMMA LowBits ==
  ASSUME NEW m \in Nat \ {0}, NEW n \in Nat
  PROVE  LET low == ((n + m + 1) % (2 * (m + 1))) - (m + 1)
         IN  low \in Int /\ low <= n /\ (n <= m => low = n)
<1> DEFINE w == 2 * (m + 1)
           k == n + m + 1
<1>1. w \in Nat \ {0} /\ k \in Nat /\ (n <= m => k < w)
  OBVIOUS
<1> HIDE DEF w, k
<1>2. k % w \in Int /\ k % w <= k /\ (k < w => k % w = k)
  BY <1>1
<1> QED
  BY <1>1, <1>2 DEF w, k

------------------------------------------------------------------------------
\* The element that a sum takes out of s.
Pick(s) == CHOOSE x \in s : TRUE

\* g gives every subset of S its sum.
IsSum(g, f, S) ==
  g = [s \in SUBSET S |-> IF s = {} THEN 0 ELSE f[Pick(s)] + g[s \ {Pick(s)}]]

SumTable(f, S) == CHOOSE g : IsSum(g, f, S)

\* CHOOSE finds an element.
LEMMA PickIn == ASSUME NEW s, s # {} PROVE Pick(s) \in s
  BY DEF Pick

\* What the community modules' definition comes to.
LEMMA SumIsSums == ASSUME NEW f, NEW S PROVE SumFunctionOnSet(f, S) = SumTable(f, S)[S]
  BY DEF SumFunctionOnSet, FoldFunctionOnSet, MapThenFoldSet, SumTable, Pick, IsSum

\* Among subsets of a finite set there is one that includes no other.
LEMMA SmallestSubset ==
  ASSUME NEW S, IsFiniteSet(S), NEW C, \A T \in C : T \subseteq S, C # {}
  PROVE  \E T \in C : \A U \in C : U \subseteq T => U = T
<1> DEFINE R == StrictSubsetOrdering(S)
<1>1. IsWellFoundedOn(R, SUBSET S)
  BY FS_StrictSubsetOrderingWellFounded, FS_FiniteSubsetsOfFinite
<1>2. C \subseteq SUBSET S
  OBVIOUS
<1>3. \E T \in C : \A U \in C : ~ <<U, T>> \in R
  BY <1>1, <1>2, WFMin
<1> QED
  BY <1>2, <1>3 DEF StrictSubsetOrdering

\* Two functions that give sums give the same ones.
LEMMA SumsAgree ==
  ASSUME NEW f, NEW S, NEW T, NEW g, NEW h, IsSum(g, f, S), IsSum(h, f, T),
         NEW U, U \subseteq S, U \subseteq T, IsFiniteSet(U)
  PROVE  g[U] = h[U]
<1> DEFINE C == {V \in SUBSET U : g[V] # h[V]}
<1> SUFFICES ASSUME C # {} PROVE FALSE
  OBVIOUS
<1>1. \A V \in C : V \subseteq U
  OBVIOUS
<1> HIDE DEF C
<1>2. PICK V \in C : \A W \in C : W \subseteq V => W = V
  BY <1>1, SmallestSubset
<1> USE DEF C
<1>3. V # {}
  BY DEF IsSum
<1>4. Pick(V) \in V
  BY <1>3, PickIn
<1>5. g[V \ {Pick(V)}] = h[V \ {Pick(V)}]
  BY <1>2, <1>4
<1>6. g[V] = f[Pick(V)] + g[V \ {Pick(V)}]
  BY <1>2, <1>3 DEF IsSum
<1>7. h[V] = f[Pick(V)] + h[V \ {Pick(V)}]
  BY <1>2, <1>3 DEF IsSum
<1> QED
  BY <1>5, <1>6, <1>7

\* Every finite set has its sums.
LEMMA SumsExist ==
  ASSUME NEW f, NEW S, IsFiniteSet(S)
  PROVE  IsSum(SumTable(f, S), f, S)
<1> DEFINE C == {T \in SUBSET S : ~ \E g : IsSum(g, f, T)}
<1>1. SUFFICES ASSUME C # {} PROVE FALSE
  BY DEF SumTable
<1>2. \A T \in C : T \subseteq S
  OBVIOUS
<1> HIDE DEF C
<1>3. PICK T \in C : \A U \in C : U \subseteq T => U = T
  BY <1>1, <1>2, SmallestSubset
<1> USE DEF C
<1>4. ASSUME NEW p \in T PROVE IsSum(SumTable(f, T \ {p}), f, T \ {p})
  <2>1. \E g : IsSum(g, f, T \ {p})
    BY <1>3
  <2> QED
    BY <2>1 DEF SumTable
<1> DEFINE G == [s \in SUBSET T |->
                   IF s = {} THEN 0
                   ELSE f[Pick(s)] + SumTable(f, T \ {Pick(s)})[s \ {Pick(s)}]]
<1>5. ASSUME NEW s \in SUBSET T, s # {}
      PROVE  G[s \ {Pick(s)}] = SumTable(f, T \ {Pick(s)})[s \ {Pick(s)}]
  <2> DEFINE p == Pick(s)
             u == s \ {p}
             q == Pick(u)
             H == SumTable(f, T \ {p})
  <2>1. p \in s /\ p \in T
    BY <1>5, PickIn
  <2>2. IsSum(H, f, T \ {p})
    BY <1>4, <2>1
  <2>3. u \in SUBSET (T \ {p}) /\ u \in SUBSET T
    OBVIOUS
  <2>4. CASE u = {}
    <3>1. G[u] = 0
      BY <2>4
    <3>2. H[u] = 0
      <4> HIDE DEF H, u, p
      <4> QED
        BY <2>2, <2>3, <2>4 DEF IsSum
    <3> QED
      BY <3>1, <3>2
  <2>5. CASE u # {}
    <3>1. q \in u /\ q \in T
      BY <2>5, PickIn
    <3>2. IsSum(SumTable(f, T \ {q}), f, T \ {q})
      BY <1>4, <3>1
    <3>3. IsFiniteSet(u \ {q})
      BY FS_Subset
    <3>4. G[u] = f[q] + SumTable(f, T \ {q})[u \ {q}]
      BY <2>3, <2>5
    <3> HIDE DEF G, H, q, u, p
    <3>5. H[u \ {q}] = SumTable(f, T \ {q})[u \ {q}]
      <4>1. u \ {q} \subseteq T \ {p} /\ u \ {q} \subseteq T \ {q}
        BY <2>3
      <4> QED
        BY <2>2, <3>2, <3>3, <4>1, SumsAgree
    <3>6. H[u] = f[q] + H[u \ {q}]
      BY <2>2, <2>3, <2>5 DEF IsSum, q
    <3>7. G[u] = H[u]
      BY <3>4, <3>5, <3>6
    <3> QED
      BY <3>7 DEF H, u, p
  <2> QED
    BY <2>4, <2>5
<1>6. IsSum(G, f, T)
  BY <1>5 DEF IsSum
<1> QED
  BY <1>3, <1>6

\* A sum is nothing, or the element that is taken out and the sum of the rest.
LEMMA SumUnfold ==
  ASSUME NEW f, NEW S, IsFiniteSet(S)
  PROVE  SumFunctionOnSet(f, S) =
           IF S = {} THEN 0 ELSE f[Pick(S)] + SumFunctionOnSet(f, S \ {Pick(S)})
<1> DEFINE T == S \ {Pick(S)}
<1>1. IsSum(SumTable(f, S), f, S)
  BY SumsExist
<1>2. IsFiniteSet(T)
  BY FS_Subset
<1>3. IsSum(SumTable(f, T), f, T)
  BY <1>2, SumsExist
<1>4. SumTable(f, S)[T] = SumTable(f, T)[T]
  BY <1>1, <1>2, <1>3, SumsAgree
<1> HIDE DEF T
<1>5. SumTable(f, S)[S] = IF S = {} THEN 0 ELSE f[Pick(S)] + SumTable(f, S)[T]
  BY <1>1 DEF IsSum, T
<1> QED
  BY <1>4, <1>5, SumIsSums DEF T

\* The empty sum.
LEMMA SumEmpty == ASSUME NEW f PROVE SumFunctionOnSet(f, {}) = 0
  BY SumUnfold, FS_EmptySet

\* Integers have an integer sum.
LEMMA SumType ==
  ASSUME NEW S, IsFiniteSet(S), NEW f, \A x \in S : f[x] \in Int
  PROVE  SumFunctionOnSet(f, S) \in Int
<1> DEFINE C == {T \in SUBSET S : SumFunctionOnSet(f, T) \notin Int}
<1>1. SUFFICES ASSUME C # {} PROVE FALSE
  OBVIOUS
<1>2. \A T \in C : T \subseteq S
  OBVIOUS
<1> HIDE DEF C
<1>3. PICK T \in C : \A U \in C : U \subseteq T => U = T
  BY <1>1, <1>2, SmallestSubset
<1> USE DEF C
<1>4. SumFunctionOnSet(f, T) =
        IF T = {} THEN 0 ELSE f[Pick(T)] + SumFunctionOnSet(f, T \ {Pick(T)})
  BY <1>2, SumUnfold, FS_Subset
<1>5. T # {}
  BY <1>4
<1>6. Pick(T) \in T
  BY <1>5, PickIn
<1>7. SumFunctionOnSet(f, T \ {Pick(T)}) \in Int
  BY <1>3, <1>6
<1> QED
  BY <1>4, <1>5, <1>6, <1>7

\* Any element may be taken out first.
LEMMA SumRemove ==
  ASSUME NEW S, IsFiniteSet(S), NEW f, \A x \in S : f[x] \in Int, NEW y \in S
  PROVE  SumFunctionOnSet(f, S) = f[y] + SumFunctionOnSet(f, S \ {y})
<1> DEFINE Sum(T) == SumFunctionOnSet(f, T)
           C == {T \in SUBSET S : \E z \in T : Sum(T) # f[z] + Sum(T \ {z})}
<1>1. SUFFICES ASSUME C # {} PROVE FALSE
  OBVIOUS
<1>2. \A T \in C : T \subseteq S
  OBVIOUS
<1> HIDE DEF C
<1>3. PICK T \in C : \A U \in C : U \subseteq T => U = T
  BY <1>1, <1>2, SmallestSubset
<1> USE DEF C
<1>4. PICK z \in T : Sum(T) # f[z] + Sum(T \ {z})
  BY <1>3
<1> DEFINE p == Pick(T)
<1>5. p \in T /\ IsFiniteSet(T)
  BY <1>2, PickIn, FS_Subset
<1>6. Sum(T) = f[p] + Sum(T \ {p})
  BY <1>5, SumUnfold
<1> HIDE DEF p, Sum
<1>7. p # z
  BY <1>4, <1>6
<1>8. Sum(T \ {p}) = f[z] + Sum((T \ {p}) \ {z})
  <2>1. T \ {p} \notin C /\ T \ {p} \in SUBSET S /\ z \in T \ {p}
    BY <1>2, <1>3, <1>5, <1>7
  <2> QED
    BY <2>1
<1>9. Sum(T \ {z}) = f[p] + Sum((T \ {p}) \ {z})
  <2>1. T \ {z} \notin C /\ T \ {z} \in SUBSET S /\ p \in T \ {z}
    BY <1>2, <1>3, <1>5, <1>7
  <2>2. Sum(T \ {z}) = f[p] + Sum((T \ {z}) \ {p})
    BY <2>1
  <2>3. (T \ {z}) \ {p} = (T \ {p}) \ {z}
    OBVIOUS
  <2> QED
    BY <2>2, <2>3
<1>10. Sum((T \ {p}) \ {z}) \in Int
  <2>1. IsFiniteSet((T \ {p}) \ {z}) /\ \A x \in (T \ {p}) \ {z} : f[x] \in Int
    BY <1>5, FS_Subset
  <2> QED
    BY <2>1, SumType DEF Sum
<1>11. f[p] \in Int /\ f[z] \in Int
  BY <1>5
<1>12. f[p] + (f[z] + Sum((T \ {p}) \ {z})) = f[z] + (f[p] + Sum((T \ {p}) \ {z}))
  BY <1>10, <1>11
<1> QED
  BY <1>4, <1>6, <1>8, <1>9, <1>12

\* One more element adds its value.
LEMMA SumInsert ==
  ASSUME NEW S, IsFiniteSet(S), NEW y, y \notin S,
         NEW f, \A x \in S \cup {y} : f[x] \in Int
  PROVE  SumFunctionOnSet(f, S \cup {y}) = SumFunctionOnSet(f, S) + f[y]
<1>1. IsFiniteSet(S \cup {y}) /\ (S \cup {y}) \ {y} = S
  BY FS_AddElement
<1>2. SumFunctionOnSet(f, S \cup {y}) = f[y] + SumFunctionOnSet(f, S)
  BY <1>1, SumRemove
<1>3. SumFunctionOnSet(f, S) \in Int
  BY SumType
<1> QED
  BY <1>2, <1>3

\* Smaller values have a smaller sum.
LEMMA SumMono ==
  ASSUME NEW S, IsFiniteSet(S), NEW f, NEW g,
         \A x \in S : f[x] \in Int /\ g[x] \in Int /\ f[x] <= g[x]
  PROVE  SumFunctionOnSet(f, S) <= SumFunctionOnSet(g, S)
<1> DEFINE C == {T \in SUBSET S : ~(SumFunctionOnSet(f, T) <= SumFunctionOnSet(g, T))}
<1>1. SUFFICES ASSUME C # {} PROVE FALSE
  OBVIOUS
<1>2. \A T \in C : T \subseteq S
  OBVIOUS
<1> HIDE DEF C
<1>3. PICK T \in C : \A U \in C : U \subseteq T => U = T
  BY <1>1, <1>2, SmallestSubset
<1> USE DEF C
<1> DEFINE p == Pick(T)
<1>4. IsFiniteSet(T) /\ IsFiniteSet(T \ {p})
  BY <1>2, FS_Subset
<1>5. /\ SumFunctionOnSet(f, T) = IF T = {} THEN 0 ELSE f[p] + SumFunctionOnSet(f, T \ {p})
      /\ SumFunctionOnSet(g, T) = IF T = {} THEN 0 ELSE g[p] + SumFunctionOnSet(g, T \ {p})
  BY <1>4, SumUnfold
<1>6. T # {}
  BY <1>5
<1>7. p \in T
  BY <1>6, PickIn
<1> HIDE DEF p
<1>8. SumFunctionOnSet(f, T \ {p}) <= SumFunctionOnSet(g, T \ {p})
  BY <1>2, <1>3, <1>7
<1>9. SumFunctionOnSet(f, T \ {p}) \in Int /\ SumFunctionOnSet(g, T \ {p}) \in Int
  BY <1>2, <1>4, SumType
<1>10. ~(SumFunctionOnSet(f, T) <= SumFunctionOnSet(g, T)) /\ p \in S
  BY <1>2, <1>7
<1> HIDE DEF C
<1> QED
  BY <1>5, <1>6, <1>8, <1>9, <1>10

\* A sum is about the values in its set only.
LEMMA SumSame ==
  ASSUME NEW S, IsFiniteSet(S), NEW f, NEW g, \A x \in S : f[x] \in Int /\ g[x] = f[x]
  PROVE  SumFunctionOnSet(g, S) = SumFunctionOnSet(f, S)
<1>1. SumFunctionOnSet(f, S) \in Int /\ SumFunctionOnSet(g, S) \in Int
  BY SumType
<1>2. SumFunctionOnSet(f, S) <= SumFunctionOnSet(g, S)
  BY SumMono
<1>3. SumFunctionOnSet(g, S) <= SumFunctionOnSet(f, S)
  BY SumMono
<1> QED
  BY <1>1, <1>2, <1>3

\* One value changes, and the sum changes by as much.
LEMMA SumChange ==
  ASSUME NEW S, IsFiniteSet(S), NEW f, NEW g, NEW y \in S,
         \A x \in S : f[x] \in Int /\ g[x] \in Int,
         \A x \in S \ {y} : g[x] = f[x]
  PROVE  SumFunctionOnSet(g, S) = SumFunctionOnSet(f, S) - f[y] + g[y]
<1>1. IsFiniteSet(S \ {y})
  BY FS_Subset
<1>2. SumFunctionOnSet(f, S) = f[y] + SumFunctionOnSet(f, S \ {y})
  BY SumRemove
<1>3. SumFunctionOnSet(g, S) = g[y] + SumFunctionOnSet(g, S \ {y})
  BY SumRemove
<1>4. SumFunctionOnSet(g, S \ {y}) = SumFunctionOnSet(f, S \ {y})
  BY <1>1, SumSame
<1>5. SumFunctionOnSet(f, S \ {y}) \in Int
  BY <1>1, SumType
<1> QED
  BY <1>2, <1>3, <1>4, <1>5

\* Naturals: a sum is at least any part of it.
LEMMA SumNat ==
  ASSUME NEW S, IsFiniteSet(S), NEW f, \A x \in S : f[x] \in Nat
  PROVE  /\ SumFunctionOnSet(f, S) \in Nat
         /\ \A y \in S : f[y] <= SumFunctionOnSet(f, S)
<1>1. \A T \in SUBSET S : SumFunctionOnSet(f, T) \in Int /\ SumFunctionOnSet(f, T) >= 0
  <2> DEFINE C == {T \in SUBSET S : ~(SumFunctionOnSet(f, T) >= 0)}
  <2>1. \A T \in SUBSET S : IsFiniteSet(T) /\ SumFunctionOnSet(f, T) \in Int
    BY FS_Subset, SumType
  <2>2. SUFFICES ASSUME C # {} PROVE FALSE
    BY <2>1
  <2>3. \A T \in C : T \subseteq S
    OBVIOUS
  <2> HIDE DEF C
  <2>4. PICK T \in C : \A U \in C : U \subseteq T => U = T
    BY <2>2, <2>3, SmallestSubset
  <2> DEFINE p == Pick(T)
  <2>5. SumFunctionOnSet(f, T) = IF T = {} THEN 0 ELSE f[p] + SumFunctionOnSet(f, T \ {p})
    BY <2>1, <2>3, SumUnfold
  <2>6. ~(SumFunctionOnSet(f, T) >= 0) /\ T \subseteq S
    BY DEF C
  <2>7. T # {} /\ p \in T
    BY <2>5, <2>6, PickIn
  <2> HIDE DEF p
  <2>8. SumFunctionOnSet(f, T \ {p}) \in Int /\ SumFunctionOnSet(f, T \ {p}) >= 0
    BY <2>1, <2>4, <2>6, <2>7 DEF C
  <2> QED
    BY <2>5, <2>6, <2>7, <2>8
<1>2. ASSUME NEW y \in S PROVE f[y] <= SumFunctionOnSet(f, S)
  <2>1. SumFunctionOnSet(f, S) = f[y] + SumFunctionOnSet(f, S \ {y})
    BY SumRemove
  <2>2. SumFunctionOnSet(f, S \ {y}) \in Int /\ SumFunctionOnSet(f, S \ {y}) >= 0
    BY <1>1
  <2> QED
    BY <2>1, <2>2
<1> QED
  BY <1>1, <1>2

\* The sum of sums.
LEMMA SumAdd ==
  ASSUME NEW S, IsFiniteSet(S), NEW f, NEW g, NEW h,
         \A x \in S : f[x] \in Int /\ g[x] \in Int,
         \A x \in S : h[x] = f[x] + g[x]
  PROVE  SumFunctionOnSet(h, S) = SumFunctionOnSet(f, S) + SumFunctionOnSet(g, S)
<1> DEFINE C == {T \in SUBSET S :
                  SumFunctionOnSet(h, T) # SumFunctionOnSet(f, T) + SumFunctionOnSet(g, T)}
<1>1. SUFFICES ASSUME C # {} PROVE FALSE
  OBVIOUS
<1>2. \A T \in C : T \subseteq S
  OBVIOUS
<1> HIDE DEF C
<1>3. PICK T \in C : \A U \in C : U \subseteq T => U = T
  BY <1>1, <1>2, SmallestSubset
<1>4. /\ SumFunctionOnSet(h, T) # SumFunctionOnSet(f, T) + SumFunctionOnSet(g, T)
      /\ T \subseteq S /\ IsFiniteSet(T)
  BY FS_Subset DEF C
<1>5. T # {}
  <2>1. SUFFICES ASSUME T = {} PROVE FALSE
    OBVIOUS
  <2>2. /\ SumFunctionOnSet(f, T) = 0 /\ SumFunctionOnSet(g, T) = 0
        /\ SumFunctionOnSet(h, T) = 0
    BY <2>1, SumEmpty
  <2>3. SumFunctionOnSet(h, T) = SumFunctionOnSet(f, T) + SumFunctionOnSet(g, T)
    BY <2>2
  <2> QED
    BY <1>4, <2>3
<1>6. PICK y \in T : TRUE
  BY <1>5
<1>7. \A x \in T : f[x] \in Int /\ g[x] \in Int /\ h[x] \in Int
  BY <1>4
<1>8. /\ SumFunctionOnSet(f, T) = f[y] + SumFunctionOnSet(f, T \ {y})
      /\ SumFunctionOnSet(g, T) = g[y] + SumFunctionOnSet(g, T \ {y})
      /\ SumFunctionOnSet(h, T) = h[y] + SumFunctionOnSet(h, T \ {y})
  BY <1>4, <1>7, SumRemove
<1>9. SumFunctionOnSet(h, T \ {y})
        = SumFunctionOnSet(f, T \ {y}) + SumFunctionOnSet(g, T \ {y})
  BY <1>3, <1>4 DEF C
<1>10. IsFiniteSet(T \ {y})
  BY <1>4, FS_Subset
<1>11. SumFunctionOnSet(f, T \ {y}) \in Int /\ SumFunctionOnSet(g, T \ {y}) \in Int
  BY <1>7, <1>10, SumType
<1>12. h[y] = f[y] + g[y] /\ f[y] \in Int /\ g[y] \in Int
  BY <1>4
<1> QED
  BY <1>4, <1>8, <1>9, <1>11, <1>12

\* What is zero can be left out of a sum.
LEMMA SumOfPart ==
  ASSUME NEW S, IsFiniteSet(S), NEW P, P \subseteq S, NEW f, NEW g,
         \A x \in P : f[x] \in Int /\ g[x] = f[x],
         \A x \in S \ P : g[x] = 0
  PROVE  SumFunctionOnSet(g, S) = SumFunctionOnSet(f, P)
<1> DEFINE C == {T \in SUBSET S : SumFunctionOnSet(g, T) # SumFunctionOnSet(f, T \cap P)}
<1>1. SUFFICES ASSUME C # {} PROVE FALSE
  <2>1. S \cap P = P /\ S \in SUBSET S
    OBVIOUS
  <2> QED
    BY <2>1
<1>2. \A T \in C : T \subseteq S
  OBVIOUS
<1> HIDE DEF C
<1>3. PICK T \in C : \A U \in C : U \subseteq T => U = T
  BY <1>1, <1>2, SmallestSubset
<1>4. SumFunctionOnSet(g, T) # SumFunctionOnSet(f, T \cap P) /\ T \subseteq S
  BY DEF C
<1>5. T # {}
  BY <1>4, SumEmpty
<1>6. PICK y \in T : TRUE
  BY <1>5
<1>7. SumFunctionOnSet(g, T \ {y}) = SumFunctionOnSet(f, (T \ {y}) \cap P)
  BY <1>3, <1>4 DEF C
<1>8. IsFiniteSet(T) /\ IsFiniteSet(T \cap P) /\ \A x \in T : g[x] \in Int
  BY <1>4, FS_Subset
<1>9. SumFunctionOnSet(g, T) = g[y] + SumFunctionOnSet(g, T \ {y})
  BY <1>8, SumRemove
<1>10. CASE y \in P
  <2>1. SumFunctionOnSet(f, T \cap P) = f[y] + SumFunctionOnSet(f, (T \cap P) \ {y})
    BY <1>8, <1>10, SumRemove
  <2>2. (T \cap P) \ {y} = (T \ {y}) \cap P
    OBVIOUS
  <2> QED
    BY <1>4, <1>7, <1>9, <1>10, <2>1, <2>2
<1>11. CASE y \notin P
  <2>1. (T \ {y}) \cap P = T \cap P /\ g[y] = 0
    BY <1>4, <1>11
  <2>2. SumFunctionOnSet(f, T \cap P) \in Int
    BY <1>8, SumType
  <2>3. SumFunctionOnSet(g, T \ {y}) = SumFunctionOnSet(f, T \cap P)
    BY <1>7, <2>1
  <2> QED
    BY <1>4, <1>9, <2>1, <2>2, <2>3
<1> QED
  BY <1>10, <1>11

\* A part of the set, with smaller values, has a smaller sum.
LEMMA SumWithin ==
  ASSUME NEW S, IsFiniteSet(S), NEW P, P \subseteq S, NEW f, NEW g,
         \A x \in P : f[x] \in Int /\ f[x] <= g[x],
         \A x \in S : g[x] \in Nat
  PROVE  SumFunctionOnSet(f, P) <= SumFunctionOnSet(g, S)
<1> DEFINE h == [x \in S |-> IF x \in P THEN f[x] ELSE 0]
<1>1. \A x \in S : h[x] \in Int /\ g[x] \in Int /\ h[x] <= g[x]
  OBVIOUS
<1>2. \A x \in P : h[x] = f[x]
  OBVIOUS
<1>3. \A x \in S \ P : h[x] = 0
  OBVIOUS
<1> HIDE DEF h
<1>4. SumFunctionOnSet(h, S) = SumFunctionOnSet(f, P)
  BY <1>2, <1>3, SumOfPart
<1>5. SumFunctionOnSet(h, S) <= SumFunctionOnSet(g, S)
  BY <1>1, SumMono
<1> QED
  BY <1>4, <1>5

\* Prefix sums end in the sum.
LEMMA SumOfPrefixes ==
  ASSUME NEW n \in Nat, NEW d, NEW f, f[0] = 0,
         \A j \in 1 .. n : d[j] \in Int /\ f[j] = f[j-1] + d[j]
  PROVE  SumFunctionOnSet(d, 1 .. n) = f[n]
<1> DEFINE C == {T \in SUBSET (1 .. n) :
                  \E k \in 0 .. n : T = 1 .. k /\ SumFunctionOnSet(d, T) # f[k]}
<1>1. SUFFICES ASSUME C # {} PROVE FALSE
  <2>1. n \in 0 .. n /\ 1 .. n \in SUBSET (1 .. n)
    OBVIOUS
  <2> QED
    BY <2>1
<1>2. \A T \in C : T \subseteq 1 .. n
  OBVIOUS
<1>3. IsFiniteSet(1 .. n)
  BY FS_Interval
<1>4. PICK T \in C : \A U \in C : U \subseteq T => U = T
  <2> HIDE DEF C
  <2> QED
    BY <1>1, <1>2, <1>3, SmallestSubset
<1>5. PICK k \in 0 .. n : T = 1 .. k /\ SumFunctionOnSet(d, T) # f[k]
  OBVIOUS
<1>6. k # 0
  <2>1. SUFFICES ASSUME k = 0 PROVE FALSE
    OBVIOUS
  <2>2. T = {}
    BY <1>5, <2>1
  <2>3. SumFunctionOnSet(d, T) = 0
    BY <2>2, SumEmpty
  <2> QED
    BY <1>5, <2>1, <2>3
<1>7. k \in T /\ T \ {k} = 1 .. k - 1 /\ k - 1 \in 0 .. n /\ T \ {k} # T
  <2>1. k \in 1 .. n
    BY <1>6
  <2>2. T = 1 .. k
    BY <1>5
  <2> HIDE DEF C
  <2>3. k \in T /\ k - 1 \in 0 .. n
    BY <2>1, <2>2
  <2>4. T \ {k} = 1 .. k - 1
    BY <2>1, <2>2
  <2> QED
    BY <2>3, <2>4
<1>8. SumFunctionOnSet(d, T \ {k}) = f[k - 1]
  <2>1. T \ {k} \notin C
    BY <1>4, <1>7
  <2>2. T \ {k} \in SUBSET (1 .. n)
    BY <1>2
  <2> QED
    BY <1>7, <2>1, <2>2
<1>9. IsFiniteSet(T) /\ \A x \in T : d[x] \in Int
  BY <1>3, <1>5, FS_Subset
<1> HIDE DEF C
<1>10. SumFunctionOnSet(d, T) = d[k] + SumFunctionOnSet(d, T \ {k})
  BY <1>7, <1>9, SumRemove
<1>11. f[k] = f[k-1] + d[k] /\ d[k] \in Int
  BY <1>5, <1>6
<1>12. SumFunctionOnSet(d, T \ {k}) \in Int
  BY <1>9, FS_Subset, SumType
<1> QED
  BY <1>5, <1>8, <1>10, <1>11, <1>12

\* A finite set of integers has a smallest and a largest element.
LEMMA FiniteHasEnds ==
  ASSUME NEW S, IsFiniteSet(S), S \subseteq Int, S # {}
  PROVE  /\ \E m \in S : \A q \in S \ {m} : m < q
         /\ \E m \in S : \A q \in S \ {m} : m > q
<1>1. \E m \in S : \A q \in S \ {m} : m < q
  <2> DEFINE Upto(x) == {q \in S : q <= x}
             C == {Upto(x) : x \in S}
  <2>1. C # {} /\ \A T \in C : T \subseteq S
    OBVIOUS
  <2> HIDE DEF C
  <2>2. PICK T \in C : \A U \in C : U \subseteq T => U = T
    BY <2>1, SmallestSubset
  <2> USE DEF C
  <2>3. PICK m \in S : T = Upto(m)
    OBVIOUS
  <2>4. ASSUME NEW q \in S \ {m}, ~(m < q) PROVE FALSE
    <3>1. q \in Int /\ m \in Int /\ q < m
      BY <2>4
    <3>2. \A r \in S : r \in Int /\ (r <= q => r <= m)
      BY <3>1
    <3>3. Upto(q) \subseteq Upto(m) /\ m \in Upto(m) /\ m \notin Upto(q)
      <4>1. m <= m /\ ~(m <= q)
        BY <3>1
      <4>2. Upto(q) \subseteq Upto(m)
        BY <3>2
      <4>3. m \in Upto(m)
        BY <4>1
      <4>4. m \notin Upto(q)
        BY <4>1
      <4> QED
        BY <4>2, <4>3, <4>4
    <3>4. Upto(q) \subseteq T /\ m \in T /\ m \notin Upto(q)
      BY <2>3, <3>3
    <3> QED
      BY <2>2, <2>4, <3>4
  <2> QED
    BY <2>4
<1>2. \E m \in S : \A q \in S \ {m} : m > q
  <2> DEFINE From(x) == {q \in S : q >= x}
             C == {From(x) : x \in S}
  <2>1. C # {} /\ \A T \in C : T \subseteq S
    OBVIOUS
  <2> HIDE DEF C
  <2>2. PICK T \in C : \A U \in C : U \subseteq T => U = T
    BY <2>1, SmallestSubset
  <2> USE DEF C
  <2>3. PICK m \in S : T = From(m)
    OBVIOUS
  <2>4. ASSUME NEW q \in S \ {m}, ~(m > q) PROVE FALSE
    <3>1. q \in Int /\ m \in Int /\ q > m
      BY <2>4
    <3>2. \A r \in S : r \in Int /\ (r >= q => r >= m)
      BY <3>1
    <3>3. From(q) \subseteq From(m) /\ m \in From(m) /\ m \notin From(q)
      <4>1. m >= m /\ ~(m >= q)
        BY <3>1
      <4>2. From(q) \subseteq From(m)
        BY <3>2
      <4>3. m \in From(m)
        BY <4>1
      <4>4. m \notin From(q)
        BY <4>1
      <4> QED
        BY <4>2, <4>3, <4>4
    <3>4. From(q) \subseteq T /\ m \in T /\ m \notin From(q)
      BY <2>3, <3>3
    <3> QED
      BY <2>2, <2>4, <3>4
  <2> QED
    BY <2>4
<1> QED
  BY <1>1, <1>2

------------------------------------------------------------------------------
(***************************************************************************)
(* What the rounding of Decimal promises, for every Base.                  *)
(***************************************************************************)

\* PriceQtyToQuote returns a natural number, at most price * qty / Base.
LEMMA QuoteBounds ==
  ASSUME NEW p \in Int, NEW q \in Int
  PROVE  /\ PriceQtyToQuote(p, q) \in Nat
         /\ p \in Nat /\ q \in Nat => Base * PriceQtyToQuote(p, q) <= p * q
<1>1. CASE p <= 0 \/ q <= 0
  <2>1. PriceQtyToQuote(p, q) = 0
    BY <1>1 DEF PriceQtyToQuote
  <2>2. p \in Nat /\ q \in Nat => p * q = 0
    BY <1>1
  <2>3. Base * 0 = 0
    BY BaseAssumption
  <2> QED
    BY <2>1, <2>2, <2>3
<1>2. CASE ~(p <= 0 \/ q <= 0)
  <2>1. p * q \in Nat
    BY <1>2
  <2>2. PriceQtyToQuote(p, q) = (p * q) \div Base
    BY <1>2 DEF PriceQtyToQuote
  <2> QED
    BY <2>1, <2>2, DivBounds, DivNat, BaseAssumption
<1> QED
  BY <1>1, <1>2

\* The type half of QuoteBounds.
LEMMA QuoteNat ==
  ASSUME NEW p \in Int, NEW q \in Int
  PROVE  PriceQtyToQuote(p, q) \in Nat
  BY QuoteBounds

\* Cutting a reservation in two never costs more than the whole: the part
\* filled at p1 and the rest priced at the limit p2 fit in what a * p2 and
\* b * p2 reserved together.
THEOREM QuoteSplits ==
  ASSUME NEW p1 \in Nat \ {0}, NEW p2 \in Nat \ {0}, p1 <= p2,
         NEW a \in Nat \ {0}, NEW b \in Nat
  PROVE  PriceQtyToQuote(p1, a) + PriceQtyToQuote(p2, b)
           <= PriceQtyToQuote(p2, a + b)
<1> DEFINE x == PriceQtyToQuote(p1, a)
           y == PriceQtyToQuote(p2, b)
<1>1. x \in Nat /\ Base * x <= p1 * a
  BY QuoteBounds
<1>2. y \in Nat /\ Base * y <= p2 * b
  BY QuoteBounds
<1>3. p1 * a <= p2 * a
  BY MulMono
<1>4. p2 * (a + b) = p2 * a + p2 * b
  OBVIOUS
<1>5. Base * (x + y) = Base * x + Base * y
  BY <1>1, <1>2, BaseAssumption
<1>6. /\ p1 * a \in Int /\ p2 * a \in Int /\ p2 * b \in Int
      /\ Base * x \in Int /\ Base * y \in Int
  BY <1>1, <1>2, BaseAssumption
<1> HIDE DEF x, y
<1>7. Base * (x + y) <= p2 * (a + b)
  BY <1>1, <1>2, <1>3, <1>4, <1>5, <1>6
<1>8. x + y <= (p2 * (a + b)) \div Base
  BY <1>1, <1>2, <1>7, DivGreatest, BaseAssumption
<1>9. PriceQtyToQuote(p2, a + b) = (p2 * (a + b)) \div Base
  BY DEF PriceQtyToQuote
<1> QED
  BY <1>8, <1>9 DEF x, y

\* Converting an amount of quote to base and back never exceeds the amount:
\* a market buy can pay for every quantity the engine computes for it.
THEOREM QuoteOfQtyFits ==
  ASSUME NEW quote \in Nat, NEW p \in Nat \ {0},
         NEW n \in Nat, n <= QuoteToQty(quote, p)
  PROVE  PriceQtyToQuote(p, n) <= quote
<1> DEFINE x == PriceQtyToQuote(p, n)
           m == (quote * Base) \div p
<1>1. x \in Nat /\ Base * x <= p * n
  BY QuoteBounds
<1>2. quote * Base \in Nat
  BY BaseAssumption
<1>3. m \in Int /\ p * m <= quote * Base
  BY <1>2, DivBounds
<1>4. n <= m
  BY DEF QuoteToQty
<1>5. p * n <= p * m
  BY <1>3, <1>4, MulMono
<1>6. Base * x <= quote * Base
  <2>1. Base * x \in Int /\ p * n \in Int /\ p * m \in Int
    BY <1>1, <1>3, BaseAssumption
  <2> HIDE DEF x, m
  <2> QED
    BY <1>1, <1>2, <1>3, <1>5, <2>1
<1> HIDE DEF x, m
<1>7. CASE quote < x
  <2>1. (quote + 1) * Base <= x * Base
    BY <1>1, <1>7, MulMono, BaseAssumption
  <2>2. (quote + 1) * Base = quote * Base + Base /\ x * Base = Base * x
    BY <1>1, BaseAssumption
  <2> QED
    BY <1>1, <1>2, <1>6, <2>1, <2>2, BaseAssumption
<1> QED
  BY <1>1, <1>7 DEF x

\* A weighted average lies between two bounds of what is averaged, rounding
\* included.
LEMMA AvgBetween ==
  ASSUME NEW cur \in Int, NEW n \in Nat, NEW p \in Int, NEW q \in Nat \ {0},
         NEW lo \in Int, NEW hi \in Int,
         lo <= p, p <= hi, n > 0 => lo <= cur /\ cur <= hi
  PROVE  /\ WeightedAvg(cur, n, p, q) \in Int
         /\ lo <= WeightedAvg(cur, n, p, q)
         /\ WeightedAvg(cur, n, p, q) <= hi
<1> DEFINE t == cur * n + p * q
           d == n + q
<1>1. d \in Nat \ {0} /\ t \in Int
  OBVIOUS
<1>2. WeightedAvg(cur, n, p, q) = t \div d
  BY DEF WeightedAvg
<1>3. lo * n <= cur * n /\ cur * n <= hi * n
  <2>1. CASE n = 0
    BY <2>1
  <2>2. CASE n > 0
    BY <2>2, MulMono
  <2> QED
    BY <2>1, <2>2
<1>4. lo * q <= p * q /\ p * q <= hi * q
  BY MulMono
<1>5. lo * d = lo * n + lo * q /\ hi * d = hi * n + hi * q
  OBVIOUS
<1>6. lo * d <= t /\ t <= hi * d
  <2>1. /\ lo * n \in Int /\ lo * q \in Int /\ hi * n \in Int
        /\ hi * q \in Int /\ cur * n \in Int /\ p * q \in Int
    OBVIOUS
  <2> QED
    BY <1>3, <1>4, <1>5, <2>1
<1>7. lo <= t \div d
  <2>1. d * lo = lo * d
    OBVIOUS
  <2> QED
    BY <1>1, <1>6, <2>1, DivGreatest
<1>8. t \div d \in Int /\ d * (t \div d) <= t
  <2> HIDE DEF t, d
  <2> QED
    BY <1>1, DivBounds
<1> DEFINE k == t \div d
<1>9. CASE hi < k
  <2>1. k \in Int /\ d * k <= t
    BY <1>8
  <2> HIDE DEF k, t, d
  <2>2. d * (hi + 1) <= d * k
    BY <1>1, <1>9, <2>1, MulMono
  <2>3. d * (hi + 1) = hi * d + d
    BY <1>1
  <2>4. d * k \in Int /\ hi * d \in Int
    BY <1>1, <2>1
  <2> QED
    BY <1>1, <1>6, <2>1, <2>2, <2>3, <2>4
<1>10. k \in Int
  BY <1>8
<1>11. WeightedAvg(cur, n, p, q) = k /\ lo <= k
  BY <1>2, <1>7
<1> HIDE DEF k
<1> QED
  BY <1>9, <1>10, <1>11

\* The running average is a natural number.
LEMMA AvgNat ==
  ASSUME NEW cur \in Nat, NEW n \in Nat, NEW p \in Nat, NEW q \in Nat \ {0}
  PROVE  WeightedAvg(cur, n, p, q) \in Nat
<1>1. cur * n + p * q \in Nat /\ n + q \in Nat \ {0}
  OBVIOUS
<1>2. (cur * n + p * q) \div (n + q) \in Nat
  BY <1>1, DivNat
<1> QED
  BY <1>2 DEF WeightedAvg
==============================================================================
