------------------------ MODULE MatchingEngineProofs ------------------------
(***************************************************************************)
(* Proofs about MatchingEngine, for any orders, prices and requests: its   *)
(* inductive invariant and what follows from it (the book is consistent,   *)
(* levels are backed by orders, trades are within limits and in order of   *)
(* time), then what the trades tell of the orders, the book between two    *)
(* submissions, FOK orders, and the refinement of TradingContract.         *)
(*                                                                         *)
(* The delicate part is totalQty, the sum of what the orders of a level    *)
(* have left.  The invariant has it in a first-order form: there is a      *)
(* function of prefix sums that ends in totalQty, and each operation on a  *)
(* level comes with a way to rewrite that function.  SummedIsSum says that *)
(* this is the sum which the model's properties speak of.                  *)
(***************************************************************************)
EXTENDS MatchingEngine, SequenceTheorems, Arithmetic

\* f holds the prefix sums of r over the queue q, and they grow.
PrefixSums(f, q, r) ==
  /\ f \in [0 .. Len(q) -> Int]
  /\ f[0] = 0
  /\ \A i \in 1 .. Len(q) : f[i] = f[i-1] + r[q[i]]
  /\ \A i, j \in 0 .. Len(q) : i < j => f[i] < f[j]

\* The quantities r of the orders of q are positive and add up to t.
Summed(q, r, t) ==
  \E f \in [0 .. Len(q) -> Int] : PrefixSums(f, q, r) /\ f[Len(q)] = t

\* An empty level adds up to nothing.
LEMMA SummedEmpty ==
  ASSUME NEW r
  PROVE  Summed(<<>>, r, 0)
<1> DEFINE f == [i \in 0 .. Len(<<>>) |-> 0]
<1>1. Len(<<>>) = 0
  BY EmptySeq
<1>2. PrefixSums(f, <<>>, r) /\ f[Len(<<>>)] = 0
  BY <1>1 DEF PrefixSums
<1>3. f \in [0 .. Len(<<>>) -> Int]
  OBVIOUS
<1> QED
  BY <1>2, <1>3 DEF Summed

\* A level's total is positive exactly if somebody is queued there.
LEMMA SummedSign ==
  ASSUME NEW S, NEW q \in Seq(S), NEW r, NEW t, Summed(q, r, t)
  PROVE  /\ t \in Nat
         /\ q # <<>> <=> t > 0
         /\ q = <<>> <=> t = 0
<1>1. PICK f \in [0 .. Len(q) -> Int] : PrefixSums(f, q, r) /\ f[Len(q)] = t
  BY DEF Summed
<1>2. Len(q) \in Nat /\ (q # <<>> => Len(q) > 0) /\ (q = <<>> => Len(q) = 0)
  BY EmptySeq, LenProperties
<1>3. CASE q = <<>>
  BY <1>1, <1>2, <1>3 DEF PrefixSums
<1>4. CASE q # <<>>
  <2>1. 0 \in 0 .. Len(q) /\ Len(q) \in 0 .. Len(q) /\ 0 < Len(q)
    BY <1>2, <1>4
  <2>2. f[0] < f[Len(q)] /\ f[0] = 0 /\ f[Len(q)] \in Int
    BY <1>1, <2>1 DEF PrefixSums
  <2> QED
    BY <1>1, <1>4, <2>2
<1> QED
  BY <1>3, <1>4

\* Only the quantities of the queued orders matter.
LEMMA SummedSame ==
  ASSUME NEW S, NEW q \in Seq(S), NEW r, NEW r2, NEW t, Summed(q, r, t),
         \A i \in 1 .. Len(q) : r2[q[i]] = r[q[i]]
  PROVE  Summed(q, r2, t)
  BY DEF Summed, PrefixSums

\* push: a new order at the end.
LEMMA SummedAppend ==
  ASSUME NEW S, NEW q \in Seq(S), NEW r, NEW t, Summed(q, r, t),
         NEW o \in S, r[o] \in Nat \ {0}
  PROVE  Summed(Append(q, o), r, t + r[o])
<1> DEFINE n == Len(q)
           q2 == Append(q, o)
<1>1. PICK f \in [0 .. n -> Int] : PrefixSums(f, q, r) /\ f[n] = t
  BY DEF Summed
<1>2. n \in Nat /\ Len(q2) = n + 1 /\ q2[n + 1] = o /\ \A i \in 1 .. n : q2[i] = q[i]
  BY LenProperties, AppendProperties
<1> DEFINE g == [i \in 0 .. n + 1 |-> IF i <= n THEN f[i] ELSE t + r[o]]
<1>3. t \in Int /\ t + r[o] \in Int /\ t < t + r[o]
  BY <1>1, <1>2
<1>4. g \in [0 .. n + 1 -> Int]
  BY <1>2, <1>3
<1>5. g[0] = 0 /\ g[n + 1] = t + r[o] /\ \A i \in 0 .. n : g[i] = f[i]
  BY <1>1, <1>2 DEF PrefixSums
<1> HIDE DEF g, n, q2
<1>6. \A i \in 1 .. n + 1 : g[i] = g[i-1] + r[q2[i]]
  <2> TAKE i \in 1 .. n + 1
  <2>1. CASE i = n + 1
    <3>1. g[i - 1] = t
      BY <1>1, <1>2, <1>5, <2>1
    <3> QED
      BY <1>2, <1>5, <2>1, <3>1
  <2>2. CASE i # n + 1
    <3>1. i \in 1 .. n /\ i \in 0 .. n /\ i - 1 \in 0 .. n
      BY <1>2, <2>2
    <3>2. f[i] = f[i-1] + r[q[i]]
      BY <1>1, <3>1 DEF PrefixSums, n
    <3> QED
      BY <1>2, <1>5, <3>1, <3>2
  <2> QED
    BY <2>1, <2>2
<1>7. \A i, j \in 0 .. n + 1 : i < j => g[i] < g[j]
  <2> SUFFICES ASSUME NEW i \in 0 .. n + 1, NEW j \in 0 .. n + 1, i < j
               PROVE  g[i] < g[j]
    OBVIOUS
  <2>0. i \in 0 .. n
    BY <1>2
  <2>1. CASE j = n + 1
    <3>1. CASE i = n
      BY <1>1, <1>3, <1>5, <2>0, <2>1, <3>1
    <3>2. CASE i # n
      <4>1. i < n /\ n \in 0 .. n
        BY <1>2, <2>0, <3>2
      <4>2. f[i] < f[n] /\ f[i] \in Int
        BY <1>1, <2>0, <4>1 DEF PrefixSums, n
      <4> QED
        BY <1>1, <1>3, <1>5, <2>0, <2>1, <4>2
    <3> QED
      BY <3>1, <3>2
  <2>2. CASE j # n + 1
    <3>1. j \in 0 .. n
      BY <1>2, <2>2
    <3>2. f[i] < f[j]
      BY <1>1, <2>0, <3>1 DEF PrefixSums, n
    <3> QED
      BY <1>5, <2>0, <3>1, <3>2
  <2> QED
    BY <2>1, <2>2
<1>8. PrefixSums(g, q2, r) /\ g[Len(q2)] = t + r[o] /\ g \in [0 .. Len(q2) -> Int]
  BY <1>2, <1>4, <1>5, <1>6, <1>7 DEF PrefixSums
<1> QED
  BY <1>8 DEF Summed, q2

\* The arithmetic of taking the i-th summand x out of a sequence d of n
\* summands with prefix sums f.
Sums(f, d, n) ==
  /\ f \in [0 .. n -> Int]
  /\ f[0] = 0
  /\ \A j \in 1 .. n : f[j] = f[j-1] + d[j]
  /\ \A j, k \in 0 .. n : j < k => f[j] < f[k]

Dropped(f, d, n, i) ==
  [j \in 0 .. n - 1 |-> IF j < i THEN f[j] ELSE f[j+1] - d[i]]

\* What is left has the prefix sums that Dropped gives.
LEMMA DropSums ==
  ASSUME NEW n \in Nat \ {0}, NEW i \in 1 .. n,
         NEW f, NEW d \in [1 .. n -> Int], Sums(f, d, n)
  PROVE  /\ Dropped(f, d, n, i)[n - 1] = f[n] - d[i]
         /\ Sums(Dropped(f, d, n, i),
                 [j \in 1 .. n - 1 |-> IF j < i THEN d[j] ELSE d[j+1]], n - 1)
<1> DEFINE g == Dropped(f, d, n, i)
<1>0. /\ f \in [0 .. n -> Int]
      /\ \A j \in 0 .. n - 1 : g[j] = IF j < i THEN f[j] ELSE f[j+1] - d[i]
      /\ g = [j \in 0 .. n - 1 |-> g[j]]
      /\ f[0] = 0
  BY DEF Sums, Dropped
<1>00. f[i] = f[i-1] + d[i]
  BY DEF Sums
<1> HIDE DEF g
<1>1. \A j \in 0 .. n - 1 : j \in 0 .. n /\ j + 1 \in 0 .. n /\ j + 1 \in 1 .. n
  OBVIOUS
<1>2. d[i] \in Int /\ \A j \in 0 .. n : f[j] \in Int
  BY <1>0
<1>2a. d[i] \in Int
  OBVIOUS
<1>3. \A j \in 0 .. n - 1 : j < i => g[j] = f[j]
  BY <1>0
<1>4. \A j \in 0 .. n - 1 : ~(j < i) => g[j] = f[j+1] - d[i]
  BY <1>0
<1>5. g \in [0 .. n - 1 -> Int]
  <2>1. \A j \in 0 .. n - 1 : g[j] \in Int
    <3> TAKE j \in 0 .. n - 1
    <3>1. f[j] \in Int /\ f[j+1] \in Int
      BY <1>1, <1>2
    <3> QED
      BY <1>2, <1>3, <1>4, <3>1
  <2> QED
    BY <1>0, <2>1
<1>6. g[0] = 0
  BY <1>0, <1>3
<1>7. f[i] = f[i-1] + d[i] /\ f[i] \in Int /\ f[i-1] \in Int /\ i - 1 \in 0 .. n
  BY <1>00, <1>2
<1>8. g[n - 1] = f[n] - d[i]
  <2>1. CASE i = n
    <3>1. g[n - 1] = f[n - 1]
      BY <1>3, <2>1
    <3> QED
      BY <1>2, <1>7, <2>1, <3>1
  <2>2. CASE i # n
    <3>1. ~(n - 1 < i) /\ n - 1 \in 0 .. n - 1 /\ (n - 1) + 1 = n
      BY <2>2
    <3> QED
      BY <1>4, <3>1
  <2> QED
    BY <2>1, <2>2
<1>9. \A j \in 1 .. n - 1 : g[j] = g[j-1] + IF j < i THEN d[j] ELSE d[j+1]
  <2> TAKE j \in 1 .. n - 1
  <2>0. j \in 0 .. n - 1 /\ j - 1 \in 0 .. n - 1 /\ j \in 1 .. n /\ j + 1 \in 1 .. n
    OBVIOUS
  <2>1. CASE j < i
    <3>1. g[j] = f[j] /\ g[j-1] = f[j-1]
      BY <1>3, <2>0, <2>1
    <3>2. f[j] = f[j-1] + d[j]
      BY <2>0 DEF Sums
    <3> QED
      BY <2>1, <3>1, <3>2
  <2>2. CASE j = i
    <3>1. g[j] = f[j+1] - d[i] /\ g[j-1] = f[j-1]
      BY <1>3, <1>4, <2>0, <2>2
    <3>2. f[j+1] = f[j] + d[j+1] /\ d[j+1] \in Int
      <4>1. f[j+1] = f[(j+1)-1] + d[j+1] /\ (j+1)-1 = j
        BY <2>0 DEF Sums
      <4> QED
        BY <2>0, <4>1
    <3>3. ~(j < i) /\ f[j-1] \in Int /\ d[i] \in Int /\ f[j] = f[j-1] + d[i]
      BY <1>2, <1>7, <2>2
    <3>4. PICK a \in Int, x \in Int, y \in Int : a = f[j-1] /\ x = d[i] /\ y = d[j+1]
      BY <3>2, <3>3
    <3>5. f[j+1] = (a + x) + y
      BY <3>2, <3>3, <3>4
    <3>6. g[j] = ((a + x) + y) - x /\ g[j-1] = a
      BY <3>1, <3>4, <3>5
    <3>7. ((a + x) + y) - x = a + y
      OBVIOUS
    <3> QED
      BY <3>3, <3>4, <3>6, <3>7
  <2>3. CASE j > i
    <3>1. ~(j < i) /\ ~(j - 1 < i) /\ (j - 1) + 1 = j
      BY <2>0, <2>3
    <3>2. g[j] = f[j+1] - d[i] /\ g[j-1] = f[j] - d[i]
      BY <1>4, <2>0, <3>1
    <3>3. f[j+1] = f[j] + d[j+1] /\ d[j+1] \in Int
      <4>1. f[j+1] = f[(j+1)-1] + d[j+1] /\ (j+1)-1 = j
        BY <2>0 DEF Sums
      <4> QED
        BY <2>0, <4>1
    <3>4. f[j] \in Int
      BY <1>1, <1>2, <2>0
    <3> QED
      BY <1>2, <3>1, <3>2, <3>3, <3>4
  <2> QED
    BY <2>0, <2>1, <2>2, <2>3
<1>10. \A j, k \in 0 .. n - 1 : j < k => g[j] < g[k]
  <2> SUFFICES ASSUME NEW j \in 0 .. n - 1, NEW k \in 0 .. n - 1, j < k
               PROVE  g[j] < g[k]
    OBVIOUS
  <2>0. /\ j \in 0 .. n /\ k \in 0 .. n /\ j + 1 \in 0 .. n /\ k + 1 \in 0 .. n
        /\ i \in 0 .. n
    OBVIOUS
  <2>1. CASE k < i
    <3>1. g[j] = f[j] /\ g[k] = f[k]
      BY <1>3, <2>1
    <3>2. f[j] < f[k]
      BY <2>0 DEF Sums
    <3> QED
      BY <3>1, <3>2
  <2>2. CASE i <= j
    <3>1. g[j] = f[j+1] - d[i] /\ g[k] = f[k+1] - d[i]
      BY <1>4, <2>2
    <3>2. j + 1 < k + 1
      OBVIOUS
    <3>3. f[j+1] < f[k+1] /\ f[j+1] \in Int /\ f[k+1] \in Int
      BY <1>2, <2>0, <3>2 DEF Sums
    <3> QED
      BY <1>2, <3>1, <3>3
  <2>3. CASE j < i /\ i <= k
    <3>1. g[j] = f[j] /\ g[k] = f[k+1] - d[i]
      BY <1>3, <1>4, <2>3
    <3>2. i < k + 1
      BY <2>3
    <3>3. f[i] < f[k+1] /\ f[j] \in Int /\ f[k+1] \in Int
      BY <1>2, <2>0, <3>2 DEF Sums
    <3>4. f[j] <= f[i-1]
      <4>1. j = i - 1 \/ j < i - 1
        BY <2>3
      <4>2. j < i - 1 => f[j] < f[i-1]
        BY <1>7, <2>0 DEF Sums
      <4>3. PICK a \in Int, b \in Int : a = f[j] /\ b = f[i-1]
        BY <1>7, <3>3
      <4>4. j = i - 1 => a = b
        BY <4>3
      <4>5. a <= b
        BY <4>1, <4>2, <4>3, <4>4
      <4> QED
        BY <4>3, <4>5
    <3>5. PICK a \in Int, b \in Int, c \in Int, x \in Int :
            a = f[j] /\ b = f[i-1] /\ c = f[k+1] /\ x = d[i]
      BY <1>2a, <1>7, <3>3
    <3>6. a <= b /\ b + x < c
      BY <1>7, <3>3, <3>4, <3>5
    <3>7. a < c - x
      BY <3>6
    <3> QED
      BY <3>1, <3>5, <3>7
  <2> QED
    BY <2>0, <2>1, <2>2, <2>3
<1> DEFINE e == [j \in 1 .. n - 1 |-> IF j < i THEN d[j] ELSE d[j+1]]
<1>11. \A j \in 1 .. n - 1 : e[j] = IF j < i THEN d[j] ELSE d[j+1]
  OBVIOUS
<1> HIDE DEF e
<1>12. Sums(g, e, n - 1)
  BY <1>5, <1>6, <1>9, <1>10, <1>11 DEF Sums
<1> QED
  BY <1>8, <1>12 DEF g, e

\* Taking the i-th order out, wherever it stands.
LEMMA SummedDrop ==
  ASSUME NEW S, NEW q \in Seq(S), NEW r \in [S -> Int], NEW t, Summed(q, r, t),
         NEW i \in 1 .. Len(q),
         NEW q2 \in Seq(S), Len(q2) = Len(q) - 1,
         \A j \in 1 .. Len(q) - 1 : q2[j] = IF j < i THEN q[j] ELSE q[j+1]
  PROVE  Summed(q2, r, t - r[q[i]])
<1> DEFINE n == Len(q)
           d == [j \in 1 .. n |-> r[q[j]]]
           e == [j \in 1 .. n - 1 |-> IF j < i THEN d[j] ELSE d[j+1]]
<1>1. PICK f \in [0 .. n -> Int] : PrefixSums(f, q, r) /\ f[n] = t
  BY DEF Summed
<1>2. n \in Nat \ {0} /\ i \in 1 .. n /\ Len(q2) = n - 1
  BY LenProperties
<1>3. \A j \in 1 .. n : r[q[j]] \in Int
  BY ElementOfSeq
<1>4. d \in [1 .. n -> Int] /\ \A j \in 1 .. n : d[j] = r[q[j]]
  BY <1>3
<1>5. \A j \in 1 .. n - 1 : e[j] = r[q2[j]]
  <2> TAKE j \in 1 .. n - 1
  <2>1. j \in 1 .. n /\ j + 1 \in 1 .. n
    BY <1>2
  <2>2. q2[j] = IF j < i THEN q[j] ELSE q[j+1]
    OBVIOUS
  <2>3. e[j] = IF j < i THEN d[j] ELSE d[j+1]
    OBVIOUS
  <2> HIDE DEF n, d, e
  <2> QED
    BY <1>4, <2>1, <2>2, <2>3
<1>6. Sums(f, d, n)
  BY <1>1, <1>4 DEF PrefixSums, Sums
<1> HIDE DEF n, d
<1> DEFINE g == Dropped(f, d, n, i)
<1>7. g[n - 1] = f[n] - d[i] /\ Sums(g, e, n - 1)
  BY <1>2, <1>4, <1>6, DropSums
<1> HIDE DEF e, g
<1>8. g[n - 1] = t - r[q[i]]
  BY <1>1, <1>2, <1>4, <1>7
<1>9. PrefixSums(g, q2, r) /\ g \in [0 .. Len(q2) -> Int]
  BY <1>2, <1>5, <1>7 DEF PrefixSums, Sums
<1> QED
  BY <1>2, <1>8, <1>9 DEF Summed

\* A fill that leaves something of the oldest order.
LEMMA SummedCut ==
  ASSUME NEW S, NEW q \in Seq(S), NEW r \in [S -> Int], NEW t, Summed(q, r, t),
         q # <<>>,
         \A i, j \in 1 .. Len(q) : q[i] = q[j] => i = j,
         NEW r2 \in [S -> Int], NEW c \in Nat,
         c < r[q[1]], r2[q[1]] = r[q[1]] - c,
         \A i \in 2 .. Len(q) : r2[q[i]] = r[q[i]]
  PROVE  Summed(q, r2, t - c)
<1> DEFINE n == Len(q)
<1>1. PICK f \in [0 .. n -> Int] : PrefixSums(f, q, r) /\ f[n] = t
  BY DEF Summed
<1>2. n \in Nat \ {0}
  BY LenProperties, EmptySeq
<1> DEFINE g == [i \in 0 .. n |-> IF i = 0 THEN 0 ELSE f[i] - c]
<1>3. g \in [0 .. n -> Int]
  BY <1>2
<1>4. /\ \A i \in 0 .. n : g[i] = IF i = 0 THEN 0 ELSE f[i] - c
      /\ \A i \in 1 .. n : f[i] = f[i-1] + r[q[i]]
      /\ \A i, j \in 0 .. n : i < j => f[i] < f[j]
      /\ \A i \in 0 .. n : f[i] \in Int
      /\ \A i \in 1 .. n : r[q[i]] \in Int
      /\ f[0] = 0
  BY <1>1, ElementOfSeq DEF PrefixSums
<1>5. \A i \in 2 .. n : r2[q[i]] = r[q[i]]
  OBVIOUS
<1> HIDE DEF g, n
<1>6. g[0] = 0 /\ g[n] = t - c
  BY <1>1, <1>2, <1>4
<1>7. \A i \in 1 .. n : g[i] = g[i-1] + r2[q[i]]
  <2> TAKE i \in 1 .. n
  <2>1. CASE i = 1
    <3>1. g[1] = f[1] - c /\ g[0] = 0 /\ f[1] = 0 + r[q[1]]
      BY <1>2, <1>4
    <3>2. r[q[1]] \in Int
      BY <1>2, <1>4
    <3> QED
      BY <2>1, <3>1, <3>2
  <2>2. CASE i # 1
    <3>0. i \in 2 .. n /\ i \in 0 .. n /\ i - 1 \in 0 .. n /\ i - 1 # 0
      BY <1>2, <2>2
    <3>1. g[i] = f[i] - c /\ g[i-1] = f[i-1] - c /\ f[i] = f[i-1] + r[q[i]]
      BY <1>4, <2>2, <3>0
    <3>2. f[i-1] \in Int /\ r[q[i]] \in Int /\ r2[q[i]] = r[q[i]]
      BY <1>4, <1>5, <3>0
    <3> QED
      BY <3>1, <3>2
  <2> QED
    BY <2>1, <2>2
<1>8. \A i, j \in 0 .. n : i < j => g[i] < g[j]
  <2> SUFFICES ASSUME NEW i \in 0 .. n, NEW j \in 0 .. n, i < j
               PROVE  g[i] < g[j]
    OBVIOUS
  <2>1. CASE i = 0
    <3>1. c < f[1] /\ f[1] \in Int
      <4>1. f[1] = 0 + r[q[1]] /\ r[q[1]] \in Int
        BY <1>2, <1>4
      <4> QED
        BY <4>1
    <3>2. f[1] <= f[j]
      <4>1. j = 1 \/ f[1] < f[j]
        BY <1>2, <1>4, <2>1
      <4>2. f[j] \in Int
        BY <1>4
      <4> QED
        BY <3>1, <4>1, <4>2
    <3>3. g[i] = 0 /\ g[j] = f[j] - c /\ f[j] \in Int
      BY <1>4, <2>1
    <3> QED
      BY <3>1, <3>2, <3>3
  <2>2. CASE i # 0
    BY <1>4, <2>2
  <2> QED
    BY <2>1, <2>2
<1>9. PrefixSums(g, q, r2) /\ g[Len(q)] = t - c /\ g \in [0 .. Len(q) -> Int]
  BY <1>3, <1>6, <1>7, <1>8 DEF PrefixSums, n
<1> QED
  BY <1>9 DEF Summed

\* RemoveAt closes the gap.
LEMMA RemoveAtProperties ==
  ASSUME NEW S, NEW q \in Seq(S), NEW i \in 1 .. Len(q)
  PROVE  /\ RemoveAt(q, i) \in Seq(S)
         /\ Len(RemoveAt(q, i)) = Len(q) - 1
         /\ \A j \in 1 .. Len(q) - 1 :
              RemoveAt(q, i)[j] = IF j < i THEN q[j] ELSE q[j+1]
<1> DEFINE a == SubSeq(q, 1, i - 1)
           b == SubSeq(q, i + 1, Len(q))
<1>1. Len(q) \in Nat /\ \A j \in 1 .. Len(q) : q[j] \in S
  BY LenProperties, ElementOfSeq
<1>2. /\ a \in Seq(S) /\ Len(a) = i - 1
      /\ \A j \in 1 .. i - 1 : a[j] = q[j]
  <2>1. \A j \in 1 .. i - 1 : q[j] \in S
    BY <1>1
  <2>2. /\ a \in Seq(S) /\ Len(a) = IF 1 <= i - 1 THEN (i - 1) - 1 + 1 ELSE 0
        /\ \A j \in 1 .. (i - 1) - 1 + 1 : a[j] = q[1 + j - 1]
    BY <2>1, SubSeqProperties
  <2> QED
    BY <2>2
<1>3. /\ b \in Seq(S) /\ Len(b) = Len(q) - i
      /\ \A j \in 1 .. Len(q) - i : b[j] = q[i + j]
  <2>1. \A j \in i + 1 .. Len(q) : q[j] \in S
    BY <1>1
  <2>2. /\ b \in Seq(S)
        /\ Len(b) = IF i + 1 <= Len(q) THEN Len(q) - (i + 1) + 1 ELSE 0
        /\ \A j \in 1 .. Len(q) - (i + 1) + 1 : b[j] = q[(i + 1) + j - 1]
    BY <1>1, <2>1, SubSeqProperties
  <2> QED
    BY <1>1, <2>2
<1> HIDE DEF a, b
<1>4. /\ a \o b \in Seq(S) /\ Len(a \o b) = Len(q) - 1
      /\ \A j \in 1 .. Len(q) - 1 : (a \o b)[j] = IF j < i THEN q[j] ELSE q[j+1]
  <2>1. /\ a \o b \in Seq(S) /\ Len(a \o b) = Len(q) - 1
        /\ \A j \in 1 .. Len(q) - 1 :
             (a \o b)[j] = IF j <= i - 1 THEN a[j] ELSE b[j - (i - 1)]
    BY <1>1, <1>2, <1>3, ConcatProperties
  <2> SUFFICES ASSUME NEW j \in 1 .. Len(q) - 1
               PROVE  (a \o b)[j] = IF j < i THEN q[j] ELSE q[j+1]
    BY <2>1
  <2>2. CASE j < i
    <3>1. j \in 1 .. i - 1 /\ j <= i - 1
      BY <2>2
    <3> QED
      BY <1>2, <2>1, <2>2, <3>1
  <2>3. CASE ~(j < i)
    <3>1. /\ ~(j <= i - 1) /\ j - (i - 1) \in 1 .. Len(q) - i
          /\ i + (j - (i - 1)) = j + 1
      BY <1>1, <2>3
    <3> QED
      BY <1>3, <2>1, <2>3, <3>1
  <2> QED
    BY <2>2, <2>3
<1> QED
  BY <1>4 DEF RemoveAt, a, b

------------------------------------------------------------------------------
(***************************************************************************)
(* The inductive invariant.                                                *)
(***************************************************************************)

\* Every total is the sum of its queue, and every level with orders is known.
BookSums ==
  \A s \in Slots : Summed(queue[s], rem, total[s])

\* What an order has left is what it asked for less what it was filled, and
\* no fill has overdrawn it.  Nothing is known of an order not yet submitted.
Accounting ==
  \A o \in OrderIds :
    /\ status[o] = "NONE" => req[o] = NoRequest /\ filled[o] = 0
    /\ status[o] # "NONE" =>
         /\ req[o] \in Requests
         /\ rem[o] = req[o].qty - filled[o]
         /\ remQuote[o] >= 0
         /\ ~IsMarketBuy(o) => rem[o] >= 0

\* The taker is an order in the making: not in the book, still NEW, and
\* younger than everything in the book; the queues are sorted by age.
TakerFresh ==
  taker # NoOrder =>
    /\ status[taker] = "NEW"
    /\ \A o \in active : arrival[o] < arrival[taker]

Aged ==
  /\ \A o \in OrderIds : arrival[o] <= clock
  /\ \A s \in Slots : \A i, j \in DOMAIN queue[s] :
       i < j => arrival[queue[s][i]] < arrival[queue[s][j]]

\* An order that is open is in the book or is the taker.
OpenLives ==
  \A o \in OrderIds : status[o] \in Open => o \in active \/ o = taker

\* The trades so far name submitted orders, whose requests no longer change.
TradesSound ==
  \A i \in DOMAIN trades :
    LET t == trades[i] IN
    /\ status[t.maker] # "NONE" /\ status[t.taker] # "NONE"
    /\ req[t.maker].side # req[t.taker].side
    /\ t.price = req[t.maker].price
    /\ Crosses(req[t.taker], t.price)

IInv ==
  /\ TypeOK
  /\ BookConsistent
  /\ BookSums
  /\ Accounting
  /\ TakerFresh
  /\ Aged
  /\ OpenLives
  /\ TradesSound

\* What a request looks like, field by field.
LEMMA RequestFacts ==
  ASSUME NEW r \in Requests
  PROVE  /\ r.side \in Sides
         /\ r.qty \in Nat
         /\ r.quote \in Nat
         /\ r.type \in {"LIMIT", "MARKET"}
         /\ r.type = "LIMIT" <=> r \in LimitRequests
         /\ r.type = "LIMIT" => r.price \in Prices /\ r.qty \in Nat \ {0}
  BY EngineAssumption
     DEF RequestTypes, LimitRequests, MarketBuyRequests, MarketSellRequests, Sides

\* A queue is a sequence; its domain counts from 1.
LEMMA QueueFacts ==
  ASSUME TypeOK, NEW s \in Slots
  PROVE  /\ queue[s] \in Seq(OrderIds)
         /\ Len(queue[s]) \in Nat
         /\ DOMAIN queue[s] = 1 .. Len(queue[s])
         /\ \A i \in 1 .. Len(queue[s]) : queue[s][i] \in OrderIds
  BY LenProperties, ElementOfSeq DEF TypeOK

\* An active order's slot is a slot of the book.
LEMMA ActiveFacts ==
  ASSUME TypeOK, BookConsistent, NEW o \in active
  PROVE  /\ o \in OrderIds
         /\ SlotOf(o) \in Slots
         /\ req[o].side \in Sides /\ req[o].price \in Prices
         /\ rem[o] \in Nat \ {0}
         /\ req[o].type = "LIMIT"
<1>1. o \in OrderIds /\ req[o] \in LimitRequests /\ rem[o] \in Int /\ rem[o] > 0
  BY DEF TypeOK, BookConsistent
<1>2. /\ req[o].side \in Sides /\ req[o].price \in Prices
      /\ req[o].type = "LIMIT"
  BY <1>1 DEF LimitRequests
<1> QED
  BY <1>1, <1>2 DEF SlotOf, Slots

\* Before the first order everything is empty.
LEMMA InitInv == Init => IInv
<1> SUFFICES ASSUME Init PROVE IInv
  OBVIOUS
<1> USE DEF Init
<1>1. \A s \in Slots : queue[s] = <<>> /\ Len(queue[s]) = 0 /\ DOMAIN queue[s] = {}
  BY EmptySeq
<1>2. TypeOK
  <2>1. <<>> \in Seq(OrderIds) /\ <<>> \in Seq(Trade)
    BY EmptySeq
  <2> QED
    BY <2>1 DEF TypeOK
<1>3. BookConsistent
  BY <1>1 DEF BookConsistent
<1>4. BookSums
  BY SummedEmpty DEF BookSums
<1>5. Accounting
  BY DEF Accounting
<1>6. TakerFresh
  BY DEF TakerFresh
<1>7. Aged
  BY <1>1 DEF Aged
<1>8. OpenLives
  BY DEF OpenLives, Open
<1>9. TradesSound
  <2>1. DOMAIN trades = {}
    OBVIOUS
  <2> QED
    BY <2>1 DEF TradesSound
<1> QED
  BY <1>2, <1>3, <1>4, <1>5, <1>6, <1>7, <1>8, <1>9 DEF IInv

\* A new order changes nothing in the book.
LEMMA ArriveInv ==
  ASSUME IInv, NEW o \in OrderIds, NEW r \in Requests, Arrive(o, r),
         \/ status' = [status EXCEPT ![o] = "NEW"] /\ taker' = o
         \/ status' = [status EXCEPT ![o] = "REJECTED"] /\ taker' = taker
  PROVE  IInv'
<1> USE DEF Arrive, bookVars
<1>0. TypeOK /\ BookConsistent /\ BookSums /\ Accounting /\ TakerFresh /\ Aged
      /\ OpenLives /\ TradesSound
  BY DEF IInv
<1>1. r.side \in Sides /\ r.qty \in Nat /\ r.quote \in Nat
  BY RequestFacts
<1>2. o \notin active /\ filled[o] = 0 /\ taker = NoOrder /\ o # NoOrder
  BY <1>0, EngineAssumption DEF BookConsistent, Open, Accounting
<1>3. /\ req'[o] = r /\ rem'[o] = r.qty /\ remQuote'[o] = r.quote
      /\ arrival'[o] = clock + 1
      /\ \A a \in OrderIds \ {o} :
           /\ req'[a] = req[a] /\ rem'[a] = rem[a] /\ remQuote'[a] = remQuote[a]
           /\ arrival'[a] = arrival[a] /\ status'[a] = status[a]
      /\ status'[o] \in {"NEW", "REJECTED"}
  BY <1>0 DEF TypeOK
<1>4. TypeOK'
  <2>1. req' \in [OrderIds -> Requests \cup {NoRequest}]
    BY <1>0 DEF TypeOK
  <2>2. /\ status' \in [OrderIds -> {"NONE", "NEW", "PARTIALLY_FILLED", "FILLED",
                                     "CANCELED", "REJECTED", "EXPIRED"}]
        /\ taker' \in OrderIds \cup {NoOrder}
    BY <1>0 DEF TypeOK
  <2>3. rem' \in [OrderIds -> Int] /\ remQuote' \in [OrderIds -> Int]
    BY <1>0, <1>1 DEF TypeOK
  <2>4. clock' \in Nat /\ arrival' \in [OrderIds -> Nat]
    BY <1>0 DEF TypeOK
  <2> QED
    BY <1>0, <2>1, <2>2, <2>3, <2>4 DEF TypeOK
<1>5. \A s \in Slots : \A i \in DOMAIN queue[s] :
        queue[s][i] \in OrderIds \ {o} /\ SlotOf(queue[s][i])' = SlotOf(queue[s][i])
  BY <1>0, <1>2, <1>3, QueueFacts DEF BookConsistent, SlotOf
<1>6. \A a \in active : a \in OrderIds \ {o} /\ SlotOf(a)' = SlotOf(a)
  BY <1>0, <1>2, <1>3 DEF TypeOK, SlotOf
<1>7. BookConsistent'
  BY <1>0, <1>2, <1>3, <1>5, <1>6 DEF BookConsistent
<1>8. BookSums'
  <2> SUFFICES ASSUME NEW s \in Slots
               PROVE  Summed(queue[s], rem', total[s])
    BY DEF BookSums
  <2>1. \A i \in 1 .. Len(queue[s]) : rem'[queue[s][i]] = rem[queue[s][i]]
    BY <1>0, <1>3, <1>5, QueueFacts
  <2>2. queue[s] \in Seq(OrderIds) /\ Summed(queue[s], rem, total[s])
    BY <1>0, QueueFacts DEF BookSums
  <2> HIDE DEF Arrive
  <2> DEFINE q == queue[s]
             r2 == rem'
             t == total[s]
  <2>3. /\ q \in Seq(OrderIds) /\ Summed(q, rem, t)
        /\ \A i \in 1 .. Len(q) : r2[q[i]] = rem[q[i]]
    BY <2>1, <2>2
  <2> HIDE DEF q, r2, t
  <2>4. Summed(q, r2, t)
    BY <2>3, SummedSame
  <2> QED
    BY <2>4 DEF q, r2, t
<1>9. Accounting'
  <2> SUFFICES ASSUME NEW a \in OrderIds
               PROVE  /\ status'[a] = "NONE" => req'[a] = NoRequest /\ filled[a] = 0
                      /\ status'[a] # "NONE" =>
                           /\ req'[a] \in Requests
                           /\ rem'[a] = req'[a].qty - filled[a]
                           /\ remQuote'[a] >= 0
                           /\ ~IsMarketBuy(a)' => rem'[a] >= 0
    BY DEF Accounting
  <2>1. CASE a = o
    BY <1>1, <1>2, <1>3, <2>1
  <2>2. CASE a # o
    <3>1. IsMarketBuy(a)' <=> IsMarketBuy(a)
      BY <1>3, <2>2 DEF IsMarketBuy
    <3> QED
      BY <1>0, <1>3, <2>2, <3>1 DEF Accounting
  <2> QED
    BY <2>1, <2>2
<1>10. Aged'
  <2>1. \A a \in OrderIds : arrival'[a] <= clock'
    BY <1>0, <1>3 DEF Aged, TypeOK
  <2> QED
    BY <1>0, <1>3, <1>5, <2>1 DEF Aged
<1>11. TakerFresh'
  <2>1. \A a \in active : arrival'[a] < clock + 1
    BY <1>0, <1>3, <1>6 DEF Aged, TypeOK
  <2>2. CASE status' = [status EXCEPT ![o] = "NEW"] /\ taker' = o
    <3>1. status'[o] = "NEW"
      BY <1>0, <2>2 DEF TypeOK
    <3> QED
      BY <1>3, <2>1, <2>2, <3>1 DEF TakerFresh
  <2>3. CASE taker' = taker
    BY <1>2, <2>3 DEF TakerFresh
  <2> QED
    BY <2>2, <2>3
<1>12. OpenLives'
  <2>1. status'[o] \in Open => taker' = o
    BY <1>0 DEF TypeOK, Open
  <2>2. \A a \in OrderIds \ {o} : status[a] \in Open => a \in active
    BY <1>0, <1>2, EngineAssumption DEF OpenLives
  <2> QED
    BY <1>3, <2>1, <2>2 DEF OpenLives
<1>13. TradesSound'
  <2>1. \A i \in DOMAIN trades :
          trades[i].maker \in OrderIds \ {o} /\ trades[i].taker \in OrderIds \ {o}
    <3>1. \A i \in DOMAIN trades : trades[i] \in Trade
      BY <1>0, LenProperties, ElementOfSeq DEF TypeOK
    <3> QED
      BY <1>0, <3>1 DEF TradesSound, Trade
  <2>2. trades' = trades
    OBVIOUS
  <2> QED
    BY <1>0, <1>3, <2>1, <2>2 DEF TradesSound, Crosses
<1> QED
  BY <1>4, <1>7, <1>8, <1>9, <1>10, <1>11, <1>12, <1>13 DEF IInv

\* What is known of the level, the maker and the quantity of the next fill.
LEMMA FillFacts ==
  ASSUME IInv, taker # NoOrder, NEW p \in Matchable(taker)
  PROVE  LET s   == <<Opposite(req[taker].side), p>>
             m   == Head(queue[s])
             qty == FillQty(taker, m, p)
         IN  /\ taker \in OrderIds /\ status[taker] = "NEW"
             /\ p \in Prices /\ s \in Slots
             /\ queue[s] \in Seq(OrderIds) /\ queue[s] # <<>>
             /\ 1 \in DOMAIN queue[s] /\ m = queue[s][1]
             /\ m \in active /\ m \in OrderIds /\ m # taker /\ s = SlotOf(m)
             /\ qty \in Nat \ {0} /\ qty <= rem[m]
             /\ ~IsMarketBuy(taker) => qty <= rem[taker]
             /\ IsMarketBuy(taker) => qty <= QuoteToQty(remQuote[taker], p)
             /\ Crosses(req[taker], p)
<1> DEFINE s   == <<Opposite(req[taker].side), p>>
           m   == Head(queue[s])
           qty == FillQty(taker, m, p)
<1>0. TypeOK /\ BookConsistent /\ BookSums /\ Accounting /\ TakerFresh
  BY DEF IInv
<1>1. taker \in OrderIds /\ status[taker] = "NEW"
  BY <1>0 DEF TypeOK, TakerFresh
<1>2. req[taker] \in Requests /\ remQuote[taker] \in Nat
  BY <1>0, <1>1 DEF Accounting, TypeOK
<1>3. p \in Best(Opposite(req[taker].side)) /\ Crosses(req[taker], p) /\ qty > 0
  BY DEF Matchable
<1>4. p \in Prices /\ s \in heap /\ total[s] # 0
  BY <1>3 DEF Best, Visible
<1>5. s \in Slots
  BY <1>0, <1>4 DEF TypeOK
<1>6. queue[s] \in Seq(OrderIds) /\ queue[s] # <<>>
  <2>1. queue[s] \in Seq(OrderIds) /\ Summed(queue[s], rem, total[s])
    BY <1>0, <1>5, QueueFacts DEF BookSums
  <2> QED
    BY <1>4, <2>1, SummedSign
<1>7. 1 \in DOMAIN queue[s] /\ m = queue[s][1]
  BY <1>6, EmptySeq, LenProperties
<1>8. m \in active /\ s = SlotOf(m) /\ m # taker
  BY <1>0, <1>5, <1>7 DEF BookConsistent
<1>9. m \in OrderIds /\ rem[m] \in Nat \ {0}
  BY <1>0, <1>8, ActiveFacts
<1>10. rem[taker] \in Int
  BY <1>0, <1>1 DEF TypeOK
<1>11. QuoteToQty(remQuote[taker], p) \in Int
  <2>1. p \in Nat \ {0}
    BY <1>4, EngineAssumption
  <2>2. remQuote[taker] * Base \in Int
    BY <1>2, BaseAssumption
  <2> QED
    BY <2>1, <2>2, DivBounds DEF QuoteToQty
<1>12. /\ qty \in Nat \ {0} /\ qty <= rem[m]
       /\ ~IsMarketBuy(taker) => qty <= rem[taker]
       /\ IsMarketBuy(taker) => qty <= QuoteToQty(remQuote[taker], p)
  BY <1>3, <1>9, <1>10, <1>11 DEF FillQty
<1> HIDE DEF s, m, qty
<1>13. /\ taker \in OrderIds /\ status[taker] = "NEW"
       /\ p \in Prices /\ s \in Slots
       /\ queue[s] \in Seq(OrderIds) /\ queue[s] # <<>>
       /\ 1 \in DOMAIN queue[s] /\ m = queue[s][1]
       /\ m \in active /\ m \in OrderIds /\ m # taker /\ s = SlotOf(m)
       /\ qty \in Nat \ {0} /\ qty <= rem[m]
       /\ ~IsMarketBuy(taker) => qty <= rem[taker]
       /\ IsMarketBuy(taker) => qty <= QuoteToQty(remQuote[taker], p)
       /\ Crosses(req[taker], p)
  BY <1>1, <1>3, <1>4, <1>5, <1>6, <1>7, <1>8, <1>9, <1>12
<1> QED
  BY <1>13 DEF s, m, qty

\* A fill keeps the invariant.
LEMMA FillInv == ASSUME IInv, Fill PROVE IInv'
<1>0. TypeOK /\ BookConsistent /\ BookSums /\ Accounting /\ TakerFresh /\ Aged
      /\ OpenLives /\ TradesSound
  BY DEF IInv
<1>1. PICK p \in Matchable(taker) :
       LET s    == <<Opposite(req[taker].side), p>>
           m    == Head(queue[s])
           qty  == FillQty(taker, m, p)
           done == rem[m] = qty
       IN
       /\ avg' = [avg EXCEPT
            ![taker] = WeightedAvg(@, filled[taker], p, qty),
            ![m] = WeightedAvg(@, filled[m], p, qty)]
       /\ rem' = [rem EXCEPT ![taker] = @ - qty, ![m] = @ - qty]
       /\ filled' = [filled EXCEPT ![taker] = @ + qty, ![m] = @ + qty]
       /\ remQuote' = IF IsMarketBuy(taker)
                      THEN [remQuote EXCEPT ![taker] = @ - PriceQtyToQuote(p, qty)]
                      ELSE remQuote
       /\ total' = [total EXCEPT ![s] = @ - qty]
       /\ status' = [status EXCEPT
            ![m] = IF done THEN "FILLED" ELSE "PARTIALLY_FILLED"]
       /\ queue' = IF done THEN [queue EXCEPT ![s] = Tail(@)] ELSE queue
       /\ active' = IF done THEN active \ {m} ELSE active
       /\ trades' = Append(trades,
            [maker |-> m, taker |-> taker, price |-> p, qty |-> qty])
  BY DEF Fill
<1>2. /\ taker # NoOrder /\ heap' = HeapAfterMatch(taker)
      /\ UNCHANGED <<req, mapped, taker, clock, arrival>>
  BY DEF Fill
<1> DEFINE s   == <<Opposite(req[taker].side), p>>
           m   == Head(queue[s])
           qty == FillQty(taker, m, p)
           tr  == [maker |-> m, taker |-> taker, price |-> p, qty |-> qty]
<1>3. /\ taker \in OrderIds /\ status[taker] = "NEW"
      /\ p \in Prices /\ s \in Slots
      /\ queue[s] \in Seq(OrderIds) /\ queue[s] # <<>>
      /\ 1 \in DOMAIN queue[s] /\ m = queue[s][1]
      /\ m \in active /\ m \in OrderIds /\ m # taker /\ s = SlotOf(m)
      /\ qty \in Nat \ {0} /\ qty <= rem[m]
      /\ ~IsMarketBuy(taker) => qty <= rem[taker]
      /\ IsMarketBuy(taker) => qty <= QuoteToQty(remQuote[taker], p)
      /\ Crosses(req[taker], p)
  BY <1>2, FillFacts
<1>4. /\ s[1] = Opposite(req[taker].side) /\ s[2] = p
  OBVIOUS
<1>5. /\ avg' = [avg EXCEPT
            ![taker] = WeightedAvg(@, filled[taker], p, qty),
            ![m] = WeightedAvg(@, filled[m], p, qty)]
      /\ rem' = [rem EXCEPT ![taker] = @ - qty, ![m] = @ - qty]
      /\ filled' = [filled EXCEPT ![taker] = @ + qty, ![m] = @ + qty]
      /\ remQuote' = IF IsMarketBuy(taker)
                     THEN [remQuote EXCEPT ![taker] = @ - PriceQtyToQuote(p, qty)]
                     ELSE remQuote
      /\ total' = [total EXCEPT ![s] = @ - qty]
      /\ status' = [status EXCEPT
           ![m] = IF rem[m] = qty THEN "FILLED" ELSE "PARTIALLY_FILLED"]
      /\ queue' = IF rem[m] = qty THEN [queue EXCEPT ![s] = Tail(@)] ELSE queue
      /\ active' = IF rem[m] = qty THEN active \ {m} ELSE active
      /\ trades' = Append(trades, tr)
  BY <1>1
<1> HIDE DEF s, m, qty, tr
<1>6. p \in Nat \ {0} /\ req[taker] \in Requests /\ remQuote[taker] \in Nat
  <2>1. p \in Nat \ {0}
    BY <1>3, EngineAssumption
  <2>2. req[taker] \in Requests /\ remQuote[taker] >= 0
    BY <1>0, <1>3 DEF Accounting
  <2>3. remQuote[taker] \in Int
    BY <1>0, <1>3 DEF TypeOK
  <2> QED
    BY <2>1, <2>2, <2>3
<1>27. qty \in Int /\ qty > 0 /\ qty <= rem[m]
  <2>1. qty \in Nat \ {0}
    BY <1>3
  <2>2. qty <= rem[m]
    BY <1>3
  <2> QED
    BY <2>1, <2>2
<1>7. PriceQtyToQuote(p, qty) \in Nat
  <2>1. qty \in Int
    BY <1>3
  <2>2. p \in Int
    BY <1>6
  <2> QED
    BY <2>1, <2>2, QuoteNat
<1>8. IsMarketBuy(taker) => PriceQtyToQuote(p, qty) <= remQuote[taker]
  BY <1>3, <1>6, QuoteOfQtyFits
<1>9. rem[m] \in Nat \ {0} /\ status[m] \in Open
  BY <1>0, <1>3, ActiveFacts DEF BookConsistent
<1>10. /\ rem'[taker] = rem[taker] - qty /\ rem'[m] = rem[m] - qty
       /\ filled'[taker] = filled[taker] + qty /\ filled'[m] = filled[m] + qty
       /\ status'[m] = IF rem[m] = qty THEN "FILLED" ELSE "PARTIALLY_FILLED"
       /\ \A a \in OrderIds \ {m} : status'[a] = status[a]
       /\ \A a \in OrderIds \ {taker, m} : rem'[a] = rem[a] /\ filled'[a] = filled[a]
  BY <1>0, <1>3, <1>5 DEF TypeOK
<1>11. /\ remQuote'[taker] = IF IsMarketBuy(taker)
                              THEN remQuote[taker] - PriceQtyToQuote(p, qty)
                              ELSE remQuote[taker]
       /\ \A a \in OrderIds \ {taker} : remQuote'[a] = remQuote[a]
       /\ remQuote' \in [OrderIds -> Int]
  <2> DEFINE cost == PriceQtyToQuote(p, qty)
  <2>1. cost \in Nat /\ remQuote \in [OrderIds -> Int]
    BY <1>0, <1>7 DEF TypeOK
  <2>2. remQuote' = IF IsMarketBuy(taker)
                    THEN [remQuote EXCEPT ![taker] = @ - cost] ELSE remQuote
    BY <1>5
  <2> HIDE DEF cost
  <2>3. CASE IsMarketBuy(taker)
    BY <1>3, <2>1, <2>2, <2>3 DEF cost
  <2>4. CASE ~IsMarketBuy(taker)
    BY <1>3, <2>1, <2>2, <2>4
  <2> QED
    BY <2>3, <2>4
<1>12. tr \in Trade
  BY <1>3 DEF Trade, tr
<1>13. /\ Tail(queue[s]) \in Seq(OrderIds)
       /\ Len(Tail(queue[s])) = Len(queue[s]) - 1
       /\ \A i \in 1 .. Len(queue[s]) - 1 : Tail(queue[s])[i] = queue[s][i+1]
  BY <1>3, HeadTailProperties
<1>14. /\ \A z \in Slots \ {s} : queue'[z] = queue[z] /\ total'[z] = total[z]
       /\ total'[s] = total[s] - qty
       /\ queue'[s] = IF rem[m] = qty THEN Tail(queue[s]) ELSE queue[s]
  BY <1>0, <1>3, <1>5 DEF TypeOK
<1>15. TypeOK'
  <2>1. avg' \in [OrderIds -> Nat]
    <3>1. /\ WeightedAvg(avg[taker], filled[taker], p, qty) \in Nat
          /\ WeightedAvg(avg[m], filled[m], p, qty) \in Nat
      <4>1. /\ avg[taker] \in Nat /\ filled[taker] \in Nat
            /\ avg[m] \in Nat /\ filled[m] \in Nat
        BY <1>0, <1>3 DEF TypeOK
      <4> QED
        BY <1>3, <1>6, <4>1, AvgNat
    <3> QED
      BY <1>0, <1>3, <1>5, <3>1 DEF TypeOK
  <2>2. rem' \in [OrderIds -> Int] /\ filled' \in [OrderIds -> Nat]
    <3>1. qty \in Nat
      BY <1>3
    <3>2. rem \in [OrderIds -> Int] /\ filled \in [OrderIds -> Nat]
      BY <1>0 DEF TypeOK
    <3> DEFINE r1 == [rem EXCEPT ![taker] = rem[taker] - qty]
               f1 == [filled EXCEPT ![taker] = filled[taker] + qty]
    <3>3. r1 \in [OrderIds -> Int] /\ f1 \in [OrderIds -> Nat]
      BY <1>3, <3>1, <3>2
    <3>4. rem' = [r1 EXCEPT ![m] = rem[m] - qty] /\ filled' = [f1 EXCEPT ![m] = filled[m] + qty]
      BY <1>3, <1>5, <3>2
    <3>5. rem[m] - qty \in Int /\ filled[m] + qty \in Nat
      BY <1>3, <3>1, <3>2
    <3> HIDE DEF r1, f1
    <3> QED
      BY <3>3, <3>4, <3>5
  <2>3. total' \in [Slots -> Int] /\ queue' \in [Slots -> Seq(OrderIds)]
    <3>1. qty \in Int
      BY <1>3
    <3>2. total \in [Slots -> Int] /\ queue \in [Slots -> Seq(OrderIds)]
      BY <1>0 DEF TypeOK
    <3>3. total' \in [Slots -> Int]
      BY <1>3, <1>5, <3>1, <3>2
    <3>4. queue' \in [Slots -> Seq(OrderIds)]
      <4>1. CASE rem[m] = qty
        BY <1>3, <1>5, <1>13, <3>2, <4>1
      <4>2. CASE rem[m] # qty
        BY <1>5, <3>2, <4>2
      <4> QED
        BY <4>1, <4>2
    <3> QED
      BY <3>3, <3>4
  <2>4. status' \in [OrderIds -> {"NONE", "NEW", "PARTIALLY_FILLED", "FILLED",
                                  "CANCELED", "REJECTED", "EXPIRED"}]
    BY <1>0, <1>3, <1>5 DEF TypeOK
  <2>5. trades' \in Seq(Trade)
    BY <1>0, <1>5, <1>12, AppendProperties DEF TypeOK
  <2>6. active' \subseteq OrderIds /\ heap' \subseteq mapped'
    BY <1>0, <1>2, <1>5 DEF TypeOK, HeapAfterMatch
  <2> QED
    BY <1>0, <1>2, <1>11, <2>1, <2>2, <2>3, <2>4, <2>5, <2>6 DEF TypeOK
<1>16. \A a \in OrderIds : SlotOf(a)' = SlotOf(a) /\ (IsMarketBuy(a)' <=> IsMarketBuy(a))
  BY <1>2 DEF SlotOf, IsMarketBuy
<1>17. \A a \in active' : a \in active /\ a # taker /\ (rem[m] = qty => a # m)
  BY <1>0, <1>5 DEF BookConsistent
<1>18. \A z \in Slots : \A i \in DOMAIN queue'[z] :
         \E j \in DOMAIN queue[z] :
           /\ queue'[z][i] = queue[z][j]
           /\ j = IF z = s /\ rem[m] = qty THEN i + 1 ELSE i
  <2> TAKE z \in Slots
  <2>1. CASE z = s /\ rem[m] = qty
    <3>1. queue'[z] = Tail(queue[s])
      BY <1>14, <2>1
    <3>2. /\ DOMAIN Tail(queue[s]) = 1 .. Len(queue[s]) - 1
          /\ DOMAIN queue[s] = 1 .. Len(queue[s]) /\ Len(queue[s]) \in Nat
      BY <1>3, <1>13, LenProperties
    <3> SUFFICES ASSUME NEW i \in 1 .. Len(queue[s]) - 1
                 PROVE  i + 1 \in DOMAIN queue[s] /\ queue'[z][i] = queue[s][i+1]
      BY <2>1, <3>1, <3>2
    <3> QED
      BY <1>13, <3>1, <3>2
  <2>2. CASE ~(z = s /\ rem[m] = qty)
    <3>1. queue'[z] = queue[z]
      BY <1>14, <2>2
    <3> QED
      BY <2>2, <3>1
  <2> QED
    BY <2>1, <2>2
<1>26. \A z \in Slots : DOMAIN queue'[z] = 1 .. Len(queue'[z]) /\ Len(queue'[z]) \in Nat
  <2> TAKE z \in Slots
  <2>1. queue'[z] \in Seq(OrderIds)
    BY <1>15 DEF TypeOK
  <2> QED
    BY <2>1, LenProperties
<1>19. BookConsistent'
  <2>1. \A z \in Slots : \A i, j \in DOMAIN queue'[z] : queue'[z][i] = queue'[z][j] => i = j
    <3> SUFFICES ASSUME NEW z \in Slots, NEW i \in DOMAIN queue'[z],
                        NEW j \in DOMAIN queue'[z], queue'[z][i] = queue'[z][j]
                 PROVE  i = j
      OBVIOUS
    <3>1. PICK k \in DOMAIN queue[z] :
             queue'[z][i] = queue[z][k] /\ k = IF z = s /\ rem[m] = qty THEN i + 1 ELSE i
      BY <1>18
    <3>2. PICK l \in DOMAIN queue[z] :
             queue'[z][j] = queue[z][l] /\ l = IF z = s /\ rem[m] = qty THEN j + 1 ELSE j
      BY <1>18
    <3>3. k = l
      <4>1. queue[z][k] = queue[z][l]
        BY <3>1, <3>2
      <4> QED
        BY <1>0, <4>1 DEF BookConsistent
    <3>4. i \in Int /\ j \in Int
      BY <1>26
    <3> QED
      BY <3>1, <3>2, <3>3, <3>4
  <2>2. \A z \in Slots : \A i \in DOMAIN queue'[z] :
          queue'[z][i] \in active' /\ z = SlotOf(queue'[z][i])
    <3> SUFFICES ASSUME NEW z \in Slots, NEW i \in DOMAIN queue'[z]
                 PROVE  queue'[z][i] \in active' /\ z = SlotOf(queue'[z][i])
      OBVIOUS
    <3>1. PICK k \in DOMAIN queue[z] :
             queue'[z][i] = queue[z][k] /\ k = IF z = s /\ rem[m] = qty THEN i + 1 ELSE i
      BY <1>18
    <3>2. queue[z][k] \in active /\ z = SlotOf(queue[z][k]) /\ queue[z][k] \in OrderIds
      BY <1>0 DEF BookConsistent, TypeOK
    <3>3. rem[m] = qty => queue[z][k] # m
      <4> SUFFICES ASSUME rem[m] = qty, queue[z][k] = m PROVE FALSE
        OBVIOUS
      <4>1. z = s
        BY <1>3, <3>2
      <4>2. k = 1
        BY <1>0, <1>3, <4>1 DEF BookConsistent
      <4>3. i \in 1 .. Len(queue'[z])
        BY <1>26
      <4> QED
        BY <3>1, <4>1, <4>2, <4>3
    <3>4. queue[z][k] \in active'
      BY <1>5, <3>2, <3>3
    <3> QED
      BY <3>1, <3>2, <3>4
  <2>3. ASSUME NEW a \in active'
        PROVE  \E i \in DOMAIN queue'[SlotOf(a)] : queue'[SlotOf(a)][i] = a
    <3>0. a \in active /\ a \in OrderIds /\ SlotOf(a) \in Slots
      BY <1>0, <1>17, ActiveFacts
    <3>1. PICK k \in DOMAIN queue[SlotOf(a)] : queue[SlotOf(a)][k] = a
      BY <1>0, <3>0 DEF BookConsistent
    <3>2. CASE SlotOf(a) = s /\ rem[m] = qty
      <4>1. k # 1
        BY <1>3, <1>17, <3>1, <3>2
      <4>2. k \in 1 .. Len(queue[s]) /\ DOMAIN Tail(queue[s]) = 1 .. Len(queue[s]) - 1
        BY <1>3, <1>13, <3>1, <3>2, LenProperties
      <4>3. k - 1 \in 1 .. Len(queue[s]) - 1 /\ (k - 1) + 1 = k
        BY <4>1, <4>2
      <4>4. k - 1 \in DOMAIN queue'[s] /\ queue'[s][k - 1] = a
        BY <1>13, <1>14, <3>1, <3>2, <4>2, <4>3
      <4> QED
        BY <3>0, <3>2, <4>4
    <3>3. CASE ~(SlotOf(a) = s /\ rem[m] = qty)
      <4>1. queue'[SlotOf(a)] = queue[SlotOf(a)]
        BY <1>14, <3>0, <3>3
      <4> QED
        BY <3>0, <3>1, <4>1
    <3> QED
      BY <3>2, <3>3
  <2>4. ASSUME NEW a \in active'
        PROVE  /\ a # taker'
               /\ req'[a] \in LimitRequests /\ req'[a].tif # "IOC"
               /\ status'[a] \in Open
               /\ rem'[a] > 0
               /\ rem'[a] + filled'[a] = req'[a].qty
               /\ status'[a] = "NEW" => filled'[a] = 0
    <3>1. a \in active /\ a \in OrderIds /\ a # taker
      BY <1>0, <1>17 DEF TypeOK
    <3>2. /\ req[a] \in LimitRequests /\ req[a].tif # "IOC"
          /\ status[a] \in Open
          /\ rem[a] > 0
          /\ rem[a] + filled[a] = req[a].qty
          /\ status[a] = "NEW" => filled[a] = 0
      BY <1>0, <3>1 DEF BookConsistent
    <3>3. CASE a = m
      <4>1. rem[m] # qty
        BY <1>17, <3>3
      <4>2. rem[a] \in Int /\ filled[a] \in Int
        BY <1>0, <3>1 DEF TypeOK
      <4>3. status'[a] = "PARTIALLY_FILLED" /\ rem'[a] = rem[a] - qty
            /\ filled'[a] = filled[a] + qty
        BY <1>10, <3>3, <4>1
      <4> QED
        <5>1. rem'[a] > 0 /\ rem'[a] + filled'[a] = rem[a] + filled[a]
          <6>1. qty \in Int /\ qty <= rem[a] /\ rem[a] # qty
            BY <1>27, <3>3, <4>1
          <6> QED
            BY <4>2, <4>3, <6>1
        <5>2. status'[a] \in Open /\ status'[a] # "NEW"
          BY <4>3 DEF Open
        <5>3. req' = req /\ taker' = taker
          BY <1>2
        <5> QED
          BY <3>1, <3>2, <5>1, <5>2, <5>3
    <3>4. CASE a # m
      BY <1>2, <1>10, <3>1, <3>2, <3>4
    <3> QED
      BY <3>3, <3>4
  <2> QED
    BY <1>2, <2>1, <2>2, <2>3, <2>4 DEF BookConsistent, SlotOf
<1>20. BookSums'
  <2> SUFFICES ASSUME NEW z \in Slots
               PROVE  Summed(queue'[z], rem', total'[z])
    BY DEF BookSums
  <2>1. /\ queue[z] \in Seq(OrderIds) /\ Summed(queue[z], rem, total[z])
        /\ rem \in [OrderIds -> Int] /\ rem' \in [OrderIds -> Int]
        /\ queue[s] \in Seq(OrderIds) /\ Summed(queue[s], rem, total[s])
    BY <1>0, <1>3, <1>15, QueueFacts DEF BookSums, TypeOK
  <2>2. \A i \in 1 .. Len(queue[z]) :
          /\ queue[z][i] \in OrderIds /\ queue[z][i] # taker
          /\ SlotOf(queue[z][i]) = z
    BY <1>0, <2>1, LenProperties, ElementOfSeq DEF BookConsistent
  <2>3. CASE z # s
    <3>1. \A i \in 1 .. Len(queue[z]) : rem'[queue[z][i]] = rem[queue[z][i]]
      BY <1>3, <1>10, <2>2, <2>3
    <3>2. queue'[z] = queue[z] /\ total'[z] = total[z]
      BY <1>14, <2>3
    <3> DEFINE q == queue[z]
               r2 == rem'
               t == total[z]
    <3>3. /\ q \in Seq(OrderIds) /\ Summed(q, rem, t)
          /\ \A i \in 1 .. Len(q) : r2[q[i]] = rem[q[i]]
      BY <2>1, <3>1
    <3> HIDE DEF q, r2, t
    <3>4. Summed(q, r2, t)
      BY <3>3, SummedSame
    <3> QED
      BY <3>2, <3>4 DEF q, r2, t
  <2>4. \A i, j \in 1 .. Len(queue[s]) : queue[s][i] = queue[s][j] => i = j
    BY <1>0, <1>3, LenProperties DEF BookConsistent
  <2>5. \A i \in 2 .. Len(queue[s]) : rem'[queue[s][i]] = rem[queue[s][i]]
    <3> TAKE i \in 2 .. Len(queue[s])
    <3>1. Len(queue[s]) \in Nat /\ 1 \in 1 .. Len(queue[s]) /\ i \in 1 .. Len(queue[s])
      BY <1>3, LenProperties
    <3>2. queue[s][i] # m /\ queue[s][i] # taker /\ queue[s][i] \in OrderIds
      <4>1. queue[s][i] # queue[s][1]
        BY <2>4, <3>1
      <4>2. queue[s][i] \in active
        BY <1>0, <1>3, <3>1, LenProperties DEF BookConsistent
      <4>3. queue[s][i] \in OrderIds
        BY <1>0, <4>2 DEF TypeOK
      <4>4. queue[s][i] # taker
        BY <1>0, <4>2 DEF BookConsistent
      <4> QED
        BY <1>3, <4>1, <4>3, <4>4
    <3> QED
      BY <1>10, <3>2
  <2>6. CASE z = s /\ rem[m] = qty
    <3> DEFINE q == queue[s]
               q2 == Tail(queue[s])
               r2 == rem'
               t == total[s]
    <3>1. /\ q \in Seq(OrderIds) /\ Summed(q, rem, t) /\ rem \in [OrderIds -> Int]
          /\ 1 \in 1 .. Len(q) /\ q2 \in Seq(OrderIds) /\ Len(q2) = Len(q) - 1
          /\ \A j \in 1 .. Len(q) - 1 : q2[j] = q[j+1]
          /\ Len(q) \in Nat
      BY <1>3, <1>13, <2>1, LenProperties
    <3>2. \A i \in 2 .. Len(q) : r2[q[i]] = rem[q[i]]
      BY <2>5
    <3>3. rem[q[1]] = qty
      BY <1>3, <2>6
    <3>4. queue'[z] = q2 /\ total'[z] = t - qty
      BY <1>14, <2>6
    <3> HIDE DEF q, q2, r2, t
    <3>5. \A j \in 1 .. Len(q) - 1 : q2[j] = IF j < 1 THEN q[j] ELSE q[j+1]
      BY <3>1
    <3>6. Summed(q2, rem, t - rem[q[1]])
      BY <3>1, <3>5, SummedDrop
    <3>7. \A j \in 1 .. Len(q2) : r2[q2[j]] = rem[q2[j]]
      <4> TAKE j \in 1 .. Len(q2)
      <4>1. j \in 1 .. Len(q) - 1 /\ j + 1 \in 2 .. Len(q)
        BY <3>1
      <4>2. q2[j] = q[j+1]
        BY <3>1, <4>1
      <4> QED
        BY <3>2, <4>1, <4>2
    <3> DEFINE t2 == t - rem[q[1]]
    <3>8. q2 \in Seq(OrderIds) /\ Summed(q2, rem, t2)
      BY <3>1, <3>6
    <3> HIDE DEF t2
    <3>9. Summed(q2, r2, t2)
      BY <3>7, <3>8, SummedSame
    <3> QED
      BY <3>3, <3>4, <3>9 DEF r2, t2
  <2>7. CASE z = s /\ rem[m] # qty
    <3> DEFINE q == queue[s]
               r2 == rem'
               t == total[s]
    <3>1. /\ q \in Seq(OrderIds) /\ Summed(q, rem, t) /\ rem \in [OrderIds -> Int]
          /\ q # <<>> /\ r2 \in [OrderIds -> Int]
          /\ \A i, j \in 1 .. Len(q) : q[i] = q[j] => i = j
          /\ \A i \in 2 .. Len(q) : r2[q[i]] = rem[q[i]]
          /\ q[1] = m
      BY <1>3, <2>1, <2>4, <2>5
    <3>2. qty < rem[q[1]] /\ r2[q[1]] = rem[q[1]] - qty
      BY <1>3, <1>9, <1>10, <2>7
    <3>3. queue'[z] = q /\ total'[z] = t - qty /\ qty \in Nat
      BY <1>3, <1>14, <2>7
    <3> HIDE DEF q, r2, t
    <3>4. Summed(q, r2, t - qty)
      BY <3>1, <3>2, <3>3, SummedCut
    <3> QED
      BY <3>3, <3>4 DEF r2
  <2> QED
    BY <2>3, <2>6, <2>7
<1>21. Accounting'
  <2> SUFFICES ASSUME NEW a \in OrderIds
               PROVE  /\ status'[a] = "NONE" => req[a] = NoRequest /\ filled'[a] = 0
                      /\ status'[a] # "NONE" =>
                           /\ req[a] \in Requests
                           /\ rem'[a] = req[a].qty - filled'[a]
                           /\ remQuote'[a] >= 0
                           /\ ~IsMarketBuy(a) => rem'[a] >= 0
    BY <1>2, <1>16 DEF Accounting
  <2>1. /\ status[a] = "NONE" => req[a] = NoRequest /\ filled[a] = 0
        /\ status[a] # "NONE" =>
             /\ req[a] \in Requests
             /\ rem[a] = req[a].qty - filled[a]
             /\ remQuote[a] >= 0
             /\ ~IsMarketBuy(a) => rem[a] >= 0
    BY <1>0 DEF Accounting
  <2>2. rem[a] \in Int /\ filled[a] \in Int /\ remQuote[a] \in Int
    BY <1>0 DEF TypeOK
  <2>3. status[a] # "NONE" => req[a].qty \in Int
    BY <2>1, RequestFacts
  <2>4. CASE a = taker
    <3>1. status'[a] = "NEW" /\ status[a] = "NEW" /\ rem'[a] = rem[a] - qty
          /\ filled'[a] = filled[a] + qty
      BY <1>3, <1>10, <2>4
    <3>2. remQuote'[a] >= 0
      BY <1>7, <1>8, <1>11, <2>1, <2>2, <2>4, <3>1
    <3> QED
      BY <1>3, <2>1, <2>2, <2>3, <2>4, <3>1, <3>2
  <2>5. CASE a = m
    <3>1. status'[a] # "NONE" /\ status[a] # "NONE" /\ rem'[a] = rem[a] - qty
          /\ filled'[a] = filled[a] + qty /\ remQuote'[a] = remQuote[a]
      BY <1>3, <1>9, <1>10, <1>11, <2>5 DEF Open
    <3>2. qty \in Int /\ qty <= rem[a] /\ rem'[a] >= 0
      BY <1>27, <2>2, <2>5, <3>1
    <3>3. rem'[a] = req[a].qty - filled'[a]
      BY <2>1, <2>2, <2>3, <3>1, <3>2
    <3> QED
      BY <2>1, <3>1, <3>2, <3>3
  <2>6. CASE a \notin {taker, m}
    BY <1>10, <1>11, <2>1, <2>6
  <2> QED
    BY <2>4, <2>5, <2>6
<1>22. TakerFresh'
  BY <1>0, <1>2, <1>3, <1>10, <1>17 DEF TakerFresh
<1>23. Aged'
  <2>1. ASSUME NEW z \in Slots, NEW i \in DOMAIN queue'[z], NEW j \in DOMAIN queue'[z], i < j
        PROVE  arrival[queue'[z][i]] < arrival[queue'[z][j]]
    <3>1. PICK k \in DOMAIN queue[z] :
             queue'[z][i] = queue[z][k] /\ k = IF z = s /\ rem[m] = qty THEN i + 1 ELSE i
      BY <1>18
    <3>2. PICK l \in DOMAIN queue[z] :
             queue'[z][j] = queue[z][l] /\ l = IF z = s /\ rem[m] = qty THEN j + 1 ELSE j
      BY <1>18
    <3>3. i \in Int /\ j \in Int
      BY <1>26
    <3>4. k < l
      BY <2>1, <3>1, <3>2, <3>3
    <3> QED
      BY <1>0, <3>1, <3>2, <3>4 DEF Aged
  <2> QED
    BY <1>0, <1>2, <2>1 DEF Aged
<1>24. OpenLives'
  <2> SUFFICES ASSUME NEW a \in OrderIds, status'[a] \in Open
               PROVE  a \in active' \/ a = taker
    BY <1>2 DEF OpenLives
  <2>1. CASE a = m
    <3>1. rem[m] # qty
      BY <1>10, <2>1 DEF Open
    <3>2. active' = active
      BY <1>5, <3>1
    <3> QED
      BY <1>3, <2>1, <3>2
  <2>2. CASE a # m
    <3>1. status[a] \in Open
      BY <1>10, <2>2
    <3>2. a \in active \/ a = taker
      BY <1>0, <3>1 DEF OpenLives
    <3> QED
      BY <1>5, <2>2, <3>2
  <2> QED
    BY <2>1, <2>2
<1>25. TradesSound'
  <2>1. /\ DOMAIN trades' = 1 .. Len(trades) + 1
        /\ \A i \in 1 .. Len(trades) : trades'[i] = trades[i]
        /\ trades'[Len(trades) + 1] = tr
        /\ DOMAIN trades = 1 .. Len(trades) /\ Len(trades) \in Nat
        /\ \A i \in 1 .. Len(trades) : trades[i] \in Trade
    <3>1. trades \in Seq(Trade) /\ trades' = Append(trades, tr)
      BY <1>0, <1>5 DEF TypeOK
    <3>2. /\ trades' \in Seq(Trade) /\ Len(trades') = Len(trades) + 1
          /\ \A i \in 1 .. Len(trades) : trades'[i] = trades[i]
          /\ trades'[Len(trades) + 1] = tr
      BY <1>12, <3>1, AppendProperties
    <3>3. DOMAIN trades' = 1 .. Len(trades')
      BY <3>2, LenProperties
    <3>4. DOMAIN trades = 1 .. Len(trades) /\ Len(trades) \in Nat
      BY <3>1, LenProperties
    <3>5. \A i \in 1 .. Len(trades) : trades[i] \in Trade
      BY <3>1, ElementOfSeq
    <3> QED
      BY <3>2, <3>3, <3>4, <3>5
  <2>2. \A a \in OrderIds : status[a] # "NONE" => status'[a] # "NONE"
    BY <1>10
  <2> SUFFICES ASSUME NEW i \in DOMAIN trades'
               PROVE  LET t == trades'[i] IN
                      /\ status'[t.maker] # "NONE" /\ status'[t.taker] # "NONE"
                      /\ req[t.maker].side # req[t.taker].side
                      /\ t.price = req[t.maker].price
                      /\ Crosses(req[t.taker], t.price)
    BY <1>2 DEF TradesSound
  <2>3. CASE i \in 1 .. Len(trades)
    <3>1. trades'[i] = trades[i] /\ trades[i].maker \in OrderIds /\ trades[i].taker \in OrderIds
      BY <2>1, <2>3 DEF Trade
    <3> QED
      BY <1>0, <2>1, <2>2, <2>3, <3>1 DEF TradesSound
  <2>4. CASE i = Len(trades) + 1
    <3>1. trades'[i] = tr /\ tr.maker = m /\ tr.taker = taker /\ tr.price = p
      BY <2>1, <2>4 DEF tr
    <3>2. req[m].side = Opposite(req[taker].side) /\ req[m].price = p
      <4>1. PICK x, y : x = req[m].side /\ y = req[m].price
        OBVIOUS
      <4>2. s = <<x, y>>
        BY <1>3, <4>1 DEF SlotOf
      <4>3. s[1] = x /\ s[2] = y
        BY <4>2
      <4> QED
        BY <1>4, <4>1, <4>3
    <3>3. req[taker].side # Opposite(req[taker].side)
      BY <1>6, RequestFacts DEF Opposite, Sides
    <3>4. status'[m] # "NONE" /\ status'[taker] # "NONE"
      BY <1>3, <1>10
    <3> QED
      BY <1>3, <3>1, <3>2, <3>3, <3>4
  <2> QED
    BY <2>1, <2>3, <2>4
<1> QED
  BY <1>15, <1>19, <1>20, <1>21, <1>22, <1>23, <1>24, <1>25 DEF IInv

\* Ending a submission without resting leaves the book as it is.
LEMMA DropInv ==
  ASSUME IInv, NEW final \in {"FILLED", "REJECTED", "EXPIRED"},
         Finish(final), DropTaker
  PROVE  IInv'
<1> USE DEF Finish, DropTaker
<1>0. TypeOK /\ BookConsistent /\ BookSums /\ Accounting /\ TakerFresh /\ Aged
      /\ OpenLives /\ TradesSound
  BY DEF IInv
<1>1. taker \in OrderIds /\ taker' = NoOrder /\ NoOrder \notin OrderIds
  BY <1>0, EngineAssumption DEF TypeOK
<1>2. /\ status'[taker] = final
      /\ \A a \in OrderIds \ {taker} : status'[a] = status[a]
  BY <1>0, <1>1 DEF TypeOK
<1>3. \A a \in active : a \in OrderIds \ {taker} /\ status'[a] = status[a]
  BY <1>0, <1>2 DEF TypeOK, BookConsistent
<1>4. TypeOK'
  <2>1. status' \in [OrderIds -> {"NONE", "NEW", "PARTIALLY_FILLED", "FILLED",
                                  "CANCELED", "REJECTED", "EXPIRED"}]
    BY <1>0 DEF TypeOK
  <2>2. heap' \subseteq mapped' /\ mapped' \subseteq Slots
    BY <1>0 DEF TypeOK, HeapAfterMatch
  <2> QED
    BY <1>0, <1>1, <2>1, <2>2 DEF TypeOK
<1>5. BookConsistent'
  BY <1>0, <1>1, <1>3 DEF BookConsistent, SlotOf
<1>6. BookSums'
  BY <1>0 DEF BookSums
<1>7. Accounting'
  BY <1>0, <1>2 DEF Accounting, TakerFresh, IsMarketBuy
<1>8. TakerFresh' /\ Aged'
  BY <1>0, <1>1 DEF TakerFresh, Aged
<1>9. OpenLives'
  BY <1>0, <1>2 DEF OpenLives, Open
<1>10. TradesSound'
  BY <1>0, <1>2 DEF TradesSound, Crosses
<1> QED
  BY <1>4, <1>5, <1>6, <1>7, <1>8, <1>9, <1>10 DEF IInv

\* An order that rests joins the end of its queue.
LEMMA RestInv == ASSUME IInv, FinishResting PROVE IInv'
<1> DEFINE s == SlotOf(taker)
           q == queue[s]
           final == IF filled[taker] > 0 THEN "PARTIALLY_FILLED" ELSE "NEW"
<1>0. TypeOK /\ BookConsistent /\ BookSums /\ Accounting /\ TakerFresh /\ Aged
      /\ OpenLives /\ TradesSound
  BY DEF IInv
<1>1. /\ taker # NoOrder /\ status' = [status EXCEPT ![taker] = final]
      /\ taker' = NoOrder
      /\ UNCHANGED <<req, rem, remQuote, filled, avg, trades, clock, arrival>>
      /\ req[taker].type = "LIMIT" /\ rem[taker] # 0 /\ req[taker].tif # "IOC"
      /\ queue' = [queue EXCEPT ![s] = Append(@, taker)]
      /\ total' = [total EXCEPT ![s] = @ + rem[taker]]
      /\ mapped' = mapped \cup {s}
      /\ heap' = HeapAfterMatch(taker) \cup ({s} \ mapped)
      /\ active' = active \cup {taker}
  BY DEF FinishResting, Finish, Rest
<1>2. taker \in OrderIds /\ NoOrder \notin OrderIds /\ status[taker] = "NEW"
  BY <1>0, <1>1, EngineAssumption DEF TypeOK, TakerFresh
<1>3. /\ req[taker] \in Requests /\ rem[taker] = req[taker].qty - filled[taker]
      /\ (~IsMarketBuy(taker) => rem[taker] >= 0)
  BY <1>0, <1>2 DEF Accounting
<1>4. req[taker] \in LimitRequests /\ req[taker].qty \in Nat /\ s \in Slots
  <2>1. /\ req[taker] \in LimitRequests /\ req[taker].qty \in Nat
        /\ req[taker].side \in Sides /\ req[taker].price \in Prices
    BY <1>1, <1>3, RequestFacts
  <2> QED
    BY <2>1 DEF SlotOf, Slots
<1>5. rem[taker] \in Nat \ {0} /\ filled[taker] \in Nat
  <2>1. rem[taker] \in Int /\ filled[taker] \in Nat
    BY <1>0, <1>2 DEF TypeOK
  <2>2. ~IsMarketBuy(taker)
    BY <1>1 DEF IsMarketBuy
  <2> QED
    BY <1>1, <1>3, <2>1, <2>2
<1>6. q \in Seq(OrderIds) /\ Len(q) \in Nat /\ DOMAIN q = 1 .. Len(q)
  BY <1>0, <1>4, QueueFacts
<1>7. /\ \A z \in Slots \ {s} : queue'[z] = queue[z] /\ total'[z] = total[z]
      /\ queue'[s] = Append(q, taker) /\ total'[s] = total[s] + rem[taker]
  BY <1>0, <1>1, <1>4 DEF TypeOK
<1>8. /\ queue'[s] \in Seq(OrderIds) /\ Len(queue'[s]) = Len(q) + 1
      /\ \A i \in 1 .. Len(q) : queue'[s][i] = q[i]
      /\ queue'[s][Len(q) + 1] = taker
  BY <1>2, <1>6, <1>7, AppendProperties
<1>9. DOMAIN queue'[s] = 1 .. Len(q) + 1
  BY <1>8, LenProperties
<1>10. /\ status'[taker] = final
       /\ \A a \in OrderIds \ {taker} : status'[a] = status[a]
  BY <1>0, <1>1, <1>2 DEF TypeOK
<1>11. \A a \in active : a \in OrderIds \ {taker} /\ status'[a] = status[a]
  BY <1>0, <1>10 DEF TypeOK, BookConsistent
<1> HIDE DEF s
<1>12. TypeOK'
  <2>1. status' \in [OrderIds -> {"NONE", "NEW", "PARTIALLY_FILLED", "FILLED",
                                  "CANCELED", "REJECTED", "EXPIRED"}]
    BY <1>0, <1>1 DEF TypeOK
  <2>2. heap' \subseteq mapped' /\ mapped' \subseteq Slots
    BY <1>0, <1>1, <1>4 DEF TypeOK, HeapAfterMatch
  <2>3. total' \in [Slots -> Int]
    <3>1. total \in [Slots -> Int] /\ rem[taker] \in Int
      BY <1>0, <1>5 DEF TypeOK
    <3> QED
      BY <1>1, <1>4, <3>1
  <2>4. queue' \in [Slots -> Seq(OrderIds)]
    <3>1. queue \in [Slots -> Seq(OrderIds)] /\ Append(q, taker) \in Seq(OrderIds)
      BY <1>0, <1>7, <1>8 DEF TypeOK
    <3> QED
      BY <1>1, <1>4, <3>1
  <2>5. active' \subseteq OrderIds /\ taker' \in OrderIds \cup {NoOrder}
    BY <1>0, <1>1, <1>2 DEF TypeOK
  <2> QED
    BY <1>0, <1>1, <2>1, <2>2, <2>3, <2>4, <2>5 DEF TypeOK
<1>13. ASSUME NEW z \in Slots, NEW i \in DOMAIN queue'[z]
       PROVE  \/ i \in DOMAIN queue[z] /\ queue'[z][i] = queue[z][i]
              \/ z = s /\ i = Len(q) + 1 /\ queue'[z][i] = taker
  <2>1. CASE z = s
    BY <1>6, <1>8, <1>9, <1>13, <2>1
  <2>2. CASE z # s
    BY <1>7, <1>13, <2>2
  <2> QED
    BY <2>1, <2>2
<1>14. \A z \in Slots : \A i \in DOMAIN queue[z] :
         queue[z][i] \in active /\ queue[z][i] # taker /\ z = SlotOf(queue[z][i])
  BY <1>0 DEF BookConsistent
<1>15. BookConsistent'
  <2>1. \A z \in Slots : \A i, j \in DOMAIN queue'[z] : queue'[z][i] = queue'[z][j] => i = j
    <3>1. \A z \in Slots : \A i, j \in DOMAIN queue[z] : queue[z][i] = queue[z][j] => i = j
      BY <1>0 DEF BookConsistent
    <3> QED
      BY <1>13, <1>14, <3>1
  <2>2. \A z \in Slots : \A i \in DOMAIN queue'[z] :
          queue'[z][i] \in active' /\ z = SlotOf(queue'[z][i])
    BY <1>1, <1>13, <1>14 DEF s
  <2>3. ASSUME NEW a \in active'
        PROVE  \E i \in DOMAIN queue'[SlotOf(a)] : queue'[SlotOf(a)][i] = a
    <3>1. CASE a = taker
      <4>1. Len(q) + 1 \in DOMAIN queue'[s]
        BY <1>6, <1>9
      <4> QED
        BY <1>8, <3>1, <4>1 DEF s
    <3>2. CASE a \in active
      <4>1. SlotOf(a) \in Slots
        BY <1>0, <3>2, ActiveFacts
      <4>2. PICK i \in DOMAIN queue[SlotOf(a)] : queue[SlotOf(a)][i] = a
        BY <1>0, <3>2 DEF BookConsistent
      <4>3. i \in DOMAIN queue'[SlotOf(a)] /\ queue'[SlotOf(a)][i] = a
        <5>1. CASE SlotOf(a) = s
          BY <1>6, <1>8, <1>9, <4>2, <5>1
        <5>2. CASE SlotOf(a) # s
          BY <1>7, <4>1, <4>2, <5>2
        <5> QED
          BY <5>1, <5>2
      <4> QED
        BY <4>3
    <3> QED
      BY <1>1, <3>1, <3>2
  <2>4. ASSUME NEW a \in active'
        PROVE  /\ a # taker'
               /\ req'[a] \in LimitRequests /\ req'[a].tif # "IOC"
               /\ status'[a] \in Open
               /\ rem'[a] > 0
               /\ rem'[a] + filled'[a] = req'[a].qty
               /\ status'[a] = "NEW" => filled'[a] = 0
    <3>1. CASE a = taker
      <4>1. rem[a] > 0 /\ rem[a] + filled[a] = req[a].qty
        BY <1>3, <1>4, <1>5, <3>1
      <4>2. status'[a] \in Open /\ (status'[a] = "NEW" => filled[a] = 0)
        BY <1>5, <1>10, <3>1 DEF Open
      <4> QED
        BY <1>1, <1>2, <1>4, <3>1, <4>1, <4>2
    <3>2. CASE a \in active
      <4>1. /\ req[a] \in LimitRequests /\ req[a].tif # "IOC"
            /\ status[a] \in Open
            /\ rem[a] > 0
            /\ rem[a] + filled[a] = req[a].qty
            /\ status[a] = "NEW" => filled[a] = 0
        BY <1>0, <3>2 DEF BookConsistent
      <4> QED
        BY <1>1, <1>2, <1>11, <3>2, <4>1
    <3> QED
      BY <1>1, <3>1, <3>2
  <2> QED
    BY <1>1, <2>1, <2>2, <2>3, <2>4 DEF BookConsistent, SlotOf
<1>16. BookSums'
  <2> SUFFICES ASSUME NEW z \in Slots
               PROVE  Summed(queue'[z], rem, total'[z])
    BY <1>1 DEF BookSums
  <2>1. Summed(queue[z], rem, total[z])
    BY <1>0 DEF BookSums
  <2>2. CASE z # s
    BY <1>7, <2>1, <2>2
  <2>3. CASE z = s
    <3> DEFINE t == total[s]
    <3>1. q \in Seq(OrderIds) /\ Summed(q, rem, t)
      BY <1>6, <2>1, <2>3
    <3> HIDE DEF q, t
    <3>2. Summed(Append(q, taker), rem, t + rem[taker])
      BY <1>2, <1>5, <3>1, SummedAppend
    <3> QED
      BY <1>7, <2>3, <3>2 DEF t
  <2> QED
    BY <2>2, <2>3
<1>17. Accounting'
  BY <1>0, <1>1, <1>2, <1>10 DEF Accounting, IsMarketBuy
<1>18. TakerFresh'
  BY <1>1 DEF TakerFresh
<1>19. Aged'
  <2>1. \A a \in active : arrival[a] < arrival[taker]
    BY <1>0, <1>1 DEF TakerFresh
  <2>2. ASSUME NEW z \in Slots, NEW i \in DOMAIN queue'[z], NEW j \in DOMAIN queue'[z], i < j
        PROVE  arrival[queue'[z][i]] < arrival[queue'[z][j]]
    <3>1. CASE j \in DOMAIN queue[z] /\ queue'[z][j] = queue[z][j]
      <4>1. i \in DOMAIN queue[z] /\ queue'[z][i] = queue[z][i]
        BY <1>6, <1>13, <2>2, <3>1
      <4> QED
        BY <1>0, <2>2, <3>1, <4>1 DEF Aged
    <3>2. CASE z = s /\ j = Len(q) + 1 /\ queue'[z][j] = taker
      <4>1. i \in DOMAIN queue[z] /\ queue'[z][i] = queue[z][i]
        BY <1>6, <1>13, <2>2, <3>2
      <4> QED
        BY <1>14, <2>1, <3>2, <4>1
    <3> QED
      BY <1>13, <3>1, <3>2
  <2> QED
    BY <1>0, <1>1, <2>2 DEF Aged
<1>20. OpenLives'
  BY <1>0, <1>1, <1>10 DEF OpenLives
<1>21. TradesSound'
  <2>1. \A a : status[a] # "NONE" => status'[a] # "NONE"
    BY <1>0, <1>1, <1>2 DEF TypeOK
  <2> QED
    BY <1>0, <1>1, <2>1 DEF TradesSound, Crosses
<1> QED
  BY <1>12, <1>15, <1>16, <1>17, <1>18, <1>19, <1>20, <1>21 DEF IInv

\* A cancelled order leaves its queue, and its quantity leaves the total.  The
\* code drops a level whose total or whose queue runs out; the two always run
\* out together.
LEMMA CancelInv ==
  ASSUME IInv, NEW o \in OrderIds, Cancel(o)
  PROVE  IInv'
<1> DEFINE s == SlotOf(o)
           q == queue[s]
           gone == total[s] - rem[o] <= 0 \/ Len(q) = 1
<1>0. TypeOK /\ BookConsistent /\ BookSums /\ Accounting /\ TakerFresh /\ Aged
      /\ OpenLives /\ TradesSound
  BY DEF IInv
<1>1. PICK i \in DOMAIN q :
        q[i] = o /\ queue' = [queue EXCEPT ![s] = IF gone THEN <<>> ELSE RemoveAt(@, i)]
  BY DEF Cancel
<1>2. /\ o \in active /\ taker = NoOrder
      /\ total' = [total EXCEPT ![s] = IF gone THEN 0 ELSE @ - rem[o]]
      /\ mapped' = IF gone THEN mapped \ {s} ELSE mapped
      /\ heap' = IF gone THEN heap \ {s} ELSE heap
      /\ active' = active \ {o}
      /\ status' = [status EXCEPT ![o] = "CANCELED"]
      /\ UNCHANGED <<req, rem, remQuote, filled, avg, taker, trades, clock, arrival>>
  BY DEF Cancel
<1>3. s \in Slots /\ rem[o] \in Nat \ {0}
  BY <1>0, <1>2, ActiveFacts
<1>4. q \in Seq(OrderIds) /\ Len(q) \in Nat /\ DOMAIN q = 1 .. Len(q)
  BY <1>0, <1>3, QueueFacts
<1> DEFINE q2 == RemoveAt(q, i)
           t == total[s]
           t2 == t - rem[o]
<1>5. /\ q2 \in Seq(OrderIds) /\ Len(q2) = Len(q) - 1
      /\ \A j \in 1 .. Len(q) - 1 : q2[j] = IF j < i THEN q[j] ELSE q[j+1]
  BY <1>4, RemoveAtProperties
<1>6. rem \in [OrderIds -> Int] /\ Summed(q, rem, t)
  BY <1>0, <1>3 DEF TypeOK, BookSums
<1>7. Summed(q2, rem, t2)
  <2> HIDE DEF q, q2, t
  <2>1. i \in 1 .. Len(q) /\ q[i] = o
    BY <1>1, <1>4
  <2>2. Summed(q2, rem, t - rem[q[i]])
    BY <1>4, <1>5, <1>6, <2>1, SummedDrop
  <2> QED
    BY <2>1, <2>2
<1> HIDE DEF q2, t2
<1>8. t2 \in Nat /\ (q2 # <<>> <=> t2 > 0) /\ (q2 = <<>> <=> t2 = 0)
  BY <1>5, <1>7, SummedSign
<1>9. gone => q2 = <<>> /\ t2 = 0
  <2>1. CASE total[s] - rem[o] <= 0
    <3>1. t2 <= 0
      BY <2>1 DEF t2
    <3> QED
      BY <1>8, <3>1
  <2>2. CASE Len(q) = 1
    <3>1. Len(q2) = 0
      BY <1>5, <2>2
    <3>2. q2 = <<>>
      BY <1>5, <3>1, EmptySeq
    <3> QED
      BY <1>8, <3>2
  <2> QED
    BY <2>1, <2>2
<1>10. /\ queue' = [queue EXCEPT ![s] = q2]
       /\ total' = [total EXCEPT ![s] = t2]
  <2>1. queue' = [queue EXCEPT ![s] = IF gone THEN <<>> ELSE q2]
    BY <1>1 DEF q2
  <2>2. total' = [total EXCEPT ![s] = IF gone THEN 0 ELSE t2]
    BY <1>2 DEF t2
  <2> HIDE DEF gone
  <2> QED
    BY <1>9, <2>1, <2>2
<1> HIDE DEF gone
<1>11. /\ \A z \in Slots \ {s} : queue'[z] = queue[z] /\ total'[z] = total[z]
       /\ queue'[s] = q2 /\ total'[s] = t2
  BY <1>0, <1>3, <1>10 DEF TypeOK
<1> HIDE DEF s
<1>12. ASSUME NEW z \in Slots, NEW j \in DOMAIN queue'[z]
       PROVE  \E k \in DOMAIN queue[z] :
                /\ queue'[z][j] = queue[z][k]
                /\ k = IF z = s /\ ~(j < i) THEN j + 1 ELSE j
                /\ z = s => k # i
                /\ j \in Int
  <2>0. queue[z] \in Seq(OrderIds) /\ queue'[z] \in Seq(OrderIds)
    <3>1. queue[z] \in Seq(OrderIds)
      BY <1>0, QueueFacts
    <3> QED
      BY <1>5, <1>11, <3>1
  <2>1. CASE z = s
    <3>1. j \in 1 .. Len(q) - 1
      <4>1. DOMAIN q2 = 1 .. Len(q2)
        BY <1>5, LenProperties
      <4>2. j \in DOMAIN q2
        BY <1>11, <1>12, <2>1
      <4> QED
        BY <1>5, <4>1, <4>2
    <3>2. q2[j] = IF j < i THEN q[j] ELSE q[j+1]
      BY <1>5, <3>1
    <3>3. queue'[z] = q2 /\ queue[z] = q
      BY <1>11, <2>1
    <3>4. i \in 1 .. Len(q)
      BY <1>1, <1>4
    <3> HIDE DEF q
    <3>5. CASE j < i
      <4>1. j \in DOMAIN q /\ j # i /\ j \in Int
        BY <1>4, <3>1, <3>4, <3>5
      <4> QED
        BY <2>1, <3>2, <3>3, <3>5, <4>1
    <3>6. CASE ~(j < i)
      <4>1. j + 1 \in DOMAIN q /\ j + 1 # i /\ j \in Int
        BY <1>4, <3>1, <3>4, <3>6
      <4> QED
        BY <2>1, <3>2, <3>3, <3>6, <4>1
    <3> QED
      BY <3>5, <3>6
  <2>2. CASE z # s
    <3>1. queue'[z] = queue[z]
      BY <1>11, <2>2
    <3>2. j \in Int
      BY <1>12, <2>0, LenProperties
    <3> QED
      BY <1>12, <2>2, <3>1, <3>2
  <2> QED
    BY <2>1, <2>2
<1>13. \A z \in Slots : \A k \in DOMAIN queue[z] :
         queue[z][k] \in active /\ z = SlotOf(queue[z][k])
  BY <1>0 DEF BookConsistent
<1>14. \A z \in Slots : \A k, l \in DOMAIN queue[z] : queue[z][k] = queue[z][l] => k = l
  BY <1>0 DEF BookConsistent
<1>15. i \in DOMAIN queue[s] /\ queue[s][i] = o /\ i \in Int
  BY <1>1, <1>4
<1>16. \A a \in active' : a \in active /\ a # o /\ a \in OrderIds /\ status'[a] = status[a]
  BY <1>0, <1>2 DEF TypeOK
<1>17. TypeOK'
  <2>1. status' \in [OrderIds -> {"NONE", "NEW", "PARTIALLY_FILLED", "FILLED",
                                  "CANCELED", "REJECTED", "EXPIRED"}]
    BY <1>0, <1>2 DEF TypeOK
  <2>2. heap' \subseteq mapped' /\ mapped' \subseteq Slots
    BY <1>0, <1>2 DEF TypeOK
  <2>3. total' \in [Slots -> Int] /\ queue' \in [Slots -> Seq(OrderIds)]
    <3>1. total \in [Slots -> Int] /\ queue \in [Slots -> Seq(OrderIds)]
      BY <1>0 DEF TypeOK
    <3>2. t2 \in Int /\ q2 \in Seq(OrderIds)
      BY <1>5, <1>8
    <3>3. total' \in [Slots -> Int]
      BY <1>3, <1>10, <3>1, <3>2
    <3>4. queue' \in [Slots -> Seq(OrderIds)]
      BY <1>3, <1>10, <3>1, <3>2
    <3> QED
      BY <3>3, <3>4
  <2> QED
    BY <1>0, <1>2, <2>1, <2>2, <2>3 DEF TypeOK
<1>18. BookConsistent'
  <2>1. \A z \in Slots : \A j, k \in DOMAIN queue'[z] : queue'[z][j] = queue'[z][k] => j = k
    <3> SUFFICES ASSUME NEW z \in Slots, NEW j \in DOMAIN queue'[z],
                        NEW k \in DOMAIN queue'[z], queue'[z][j] = queue'[z][k]
                 PROVE  j = k
      OBVIOUS
    <3>1. PICK j2 \in DOMAIN queue[z] :
            /\ queue'[z][j] = queue[z][j2] /\ j \in Int
            /\ j2 = IF z = s /\ ~(j < i) THEN j + 1 ELSE j
      BY <1>12
    <3>2. PICK k2 \in DOMAIN queue[z] :
            /\ queue'[z][k] = queue[z][k2] /\ k \in Int
            /\ k2 = IF z = s /\ ~(k < i) THEN k + 1 ELSE k
      BY <1>12
    <3>3. j2 = k2
      <4>1. queue[z][j2] = queue[z][k2]
        BY <3>1, <3>2
      <4> QED
        BY <1>14, <4>1
    <3> QED
      BY <1>15, <3>1, <3>2, <3>3
  <2>2. \A z \in Slots : \A j \in DOMAIN queue'[z] :
          queue'[z][j] \in active' /\ z = SlotOf(queue'[z][j])
    <3> SUFFICES ASSUME NEW z \in Slots, NEW j \in DOMAIN queue'[z]
                 PROVE  queue'[z][j] \in active' /\ z = SlotOf(queue'[z][j])
      OBVIOUS
    <3>1. PICK k \in DOMAIN queue[z] :
            queue'[z][j] = queue[z][k] /\ (z = s => k # i)
      BY <1>12
    <3>2. queue[z][k] \in active /\ z = SlotOf(queue[z][k])
      BY <1>13
    <3>3. queue[z][k] # o
      BY <1>14, <1>15, <3>1, <3>2 DEF s
    <3> QED
      BY <1>2, <3>1, <3>2, <3>3
  <2>3. ASSUME NEW a \in active'
        PROVE  \E j \in DOMAIN queue'[SlotOf(a)] : queue'[SlotOf(a)][j] = a
    <3>1. a \in active /\ a # o /\ SlotOf(a) \in Slots
      BY <1>0, <1>16, ActiveFacts
    <3>2. PICK k \in DOMAIN queue[SlotOf(a)] : queue[SlotOf(a)][k] = a
      BY <1>0, <3>1 DEF BookConsistent
    <3>3. CASE SlotOf(a) = s
      <4>1. k # i /\ k \in 1 .. Len(q) /\ i \in 1 .. Len(q) /\ q[k] = a
        BY <1>1, <1>4, <3>1, <3>2, <3>3
      <4>2. DOMAIN q2 = 1 .. Len(q) - 1
        BY <1>5, LenProperties
      <4> HIDE DEF q
      <4>3. CASE k < i
        <5>1. k \in 1 .. Len(q) - 1
          BY <1>4, <4>1, <4>3
        <5>2. q2[k] = a
          BY <1>5, <4>1, <4>3, <5>1
        <5> QED
          BY <1>11, <3>3, <4>2, <5>1, <5>2
      <4>4. CASE ~(k < i)
        <5>1. k - 1 \in 1 .. Len(q) - 1 /\ ~(k - 1 < i) /\ (k - 1) + 1 = k
          BY <1>4, <4>1, <4>4
        <5>2. q2[k - 1] = a
          BY <1>5, <4>1, <5>1
        <5> QED
          BY <1>11, <3>3, <4>2, <5>1, <5>2
      <4> QED
        BY <4>3, <4>4
    <3>4. CASE SlotOf(a) # s
      <4>1. queue'[SlotOf(a)] = queue[SlotOf(a)]
        BY <1>11, <3>1, <3>4
      <4> QED
        BY <3>2, <4>1
    <3> QED
      BY <3>3, <3>4
  <2>4. ASSUME NEW a \in active'
        PROVE  /\ a # taker'
               /\ req'[a] \in LimitRequests /\ req'[a].tif # "IOC"
               /\ status'[a] \in Open
               /\ rem'[a] > 0
               /\ rem'[a] + filled'[a] = req'[a].qty
               /\ status'[a] = "NEW" => filled'[a] = 0
    <3>1. a \in active /\ status'[a] = status[a]
      BY <1>16
    <3>2. /\ a # taker
          /\ req[a] \in LimitRequests /\ req[a].tif # "IOC"
          /\ status[a] \in Open
          /\ rem[a] > 0
          /\ rem[a] + filled[a] = req[a].qty
          /\ status[a] = "NEW" => filled[a] = 0
      BY <1>0, <3>1 DEF BookConsistent
    <3> QED
      BY <1>2, <3>1, <3>2
  <2> QED
    BY <1>2, <2>1, <2>2, <2>3, <2>4 DEF BookConsistent, SlotOf
<1>19. BookSums'
  <2> SUFFICES ASSUME NEW z \in Slots
               PROVE  Summed(queue'[z], rem, total'[z])
    BY <1>2 DEF BookSums
  <2>1. Summed(queue[z], rem, total[z])
    BY <1>0 DEF BookSums
  <2> QED
    BY <1>7, <1>11, <2>1
<1>20. Accounting'
  <2>1. status[o] # "NONE"
    BY <1>0, <1>2 DEF BookConsistent, Open
  <2>2. \A a : status'[a] = "NONE" <=> status[a] = "NONE"
    BY <1>0, <1>2, <2>1 DEF TypeOK
  <2> QED
    BY <1>0, <1>2, <2>2 DEF Accounting, IsMarketBuy
<1>21. TakerFresh'
  BY <1>2 DEF TakerFresh
<1>22. Aged'
  <2>1. ASSUME NEW z \in Slots, NEW j \in DOMAIN queue'[z], NEW k \in DOMAIN queue'[z], j < k
        PROVE  arrival[queue'[z][j]] < arrival[queue'[z][k]]
    <3>1. PICK j2 \in DOMAIN queue[z] :
            /\ queue'[z][j] = queue[z][j2] /\ j \in Int
            /\ j2 = IF z = s /\ ~(j < i) THEN j + 1 ELSE j
      BY <1>12
    <3>2. PICK k2 \in DOMAIN queue[z] :
            /\ queue'[z][k] = queue[z][k2] /\ k \in Int
            /\ k2 = IF z = s /\ ~(k < i) THEN k + 1 ELSE k
      BY <1>12
    <3>3. j2 < k2
      BY <1>15, <2>1, <3>1, <3>2
    <3> QED
      BY <1>0, <3>1, <3>2, <3>3 DEF Aged
  <2> QED
    BY <1>0, <1>2, <2>1 DEF Aged
<1>23. OpenLives'
  <2>1. status'[o] = "CANCELED" /\ \A a \in OrderIds \ {o} : status'[a] = status[a]
    BY <1>0, <1>2 DEF TypeOK
  <2> QED
    BY <1>0, <1>2, <2>1 DEF OpenLives, Open
<1>24. TradesSound'
  <2>1. \A a : status[a] # "NONE" => status'[a] # "NONE"
    BY <1>0, <1>2 DEF TypeOK
  <2> QED
    BY <1>0, <1>2, <2>1 DEF TradesSound, Crosses
<1> QED
  BY <1>17, <1>18, <1>19, <1>20, <1>21, <1>22, <1>23, <1>24 DEF IInv

\* Every step keeps the invariant.
LEMMA NextInv == IInv /\ [Next]_vars => IInv'
<1> SUFFICES ASSUME IInv, [Next]_vars PROVE IInv'
  OBVIOUS
<1>1. CASE Submit
  <2>1. PICK o \in OrderIds, r \in Requests : SubmitAccepted(o, r) \/ SubmitRejected(o, r)
    BY <1>1 DEF Submit
  <2>2. Arrive(o, r)
    BY <2>1 DEF SubmitAccepted, SubmitRejected
  <2>3. \/ status' = [status EXCEPT ![o] = "NEW"] /\ taker' = o
        \/ status' = [status EXCEPT ![o] = "REJECTED"] /\ taker' = taker
    BY <2>1 DEF SubmitAccepted, SubmitRejected
  <2> QED
    BY <2>2, <2>3, ArriveInv
<1>2. CASE Fill
  BY <1>2, FillInv
<1>3. CASE FinishMarket
  <2>1. PICK final \in {"FILLED", "REJECTED", "EXPIRED"} : Finish(final) /\ DropTaker
    BY <1>3 DEF FinishMarket
  <2> QED
    BY <2>1, DropInv
<1>4. CASE FinishFilled
  BY <1>4, DropInv DEF FinishFilled
<1>5. CASE FinishExpired
  BY <1>5, DropInv DEF FinishExpired
<1>6. CASE FinishResting
  BY <1>6, RestInv
<1>7. CASE \E o \in OrderIds : Cancel(o)
  BY <1>7, CancelInv
<1>8. CASE UNCHANGED vars
  <2> USE <1>8 DEF vars, orderVars, bookVars
  <2>0. TypeOK /\ BookConsistent /\ BookSums /\ Accounting /\ TakerFresh /\ Aged
        /\ OpenLives /\ TradesSound
    BY DEF IInv
  <2>1. TypeOK'
    BY <2>0 DEF TypeOK
  <2>2. BookConsistent'
    BY <2>0 DEF BookConsistent, SlotOf
  <2>3. BookSums' /\ Aged' /\ TakerFresh' /\ OpenLives'
    BY <2>0 DEF BookSums, Aged, TakerFresh, OpenLives
  <2>4. Accounting' /\ TradesSound'
    BY <2>0 DEF Accounting, TradesSound, IsMarketBuy, Crosses
  <2> QED
    BY <2>1, <2>2, <2>3, <2>4 DEF IInv
<1> QED
  BY <1>1, <1>2, <1>3, <1>4, <1>5, <1>6, <1>7, <1>8 DEF Next, Work

\* The invariant holds in every reachable state.
THEOREM Invariance == Spec => []IInv
  BY InitInv, NextInv, PTL DEF Spec

------------------------------------------------------------------------------
(***************************************************************************)
(* What follows from the invariant.                                        *)
(***************************************************************************)

\* The variables keep their types.
THEOREM TypeSafe == Spec => []TypeOK
<1>1. IInv => TypeOK
  BY DEF IInv
<1> QED
  BY <1>1, Invariance, PTL

\* Engine.active and the queues of the book always agree: neither a fill nor
\* a cancellation misses the order it is about.
THEOREM BookSafe == Spec => []BookConsistent
<1>1. IInv => BookConsistent
  BY DEF IInv
<1> QED
  BY <1>1, Invariance, PTL

\* consumeLevel never indexes an empty queue: a level has a positive total
\* exactly if an order is queued there.
THEOREM BackedSafe == Spec => []LevelsBacked
<1>1. IInv => LevelsBacked
  <2> SUFFICES ASSUME IInv, NEW s \in Slots
               PROVE  total[s] >= 0 /\ (total[s] > 0 <=> queue[s] # <<>>)
    BY DEF LevelsBacked
  <2>1. queue[s] \in Seq(OrderIds) /\ Summed(queue[s], rem, total[s])
    BY QueueFacts DEF IInv, BookSums
  <2> DEFINE q == queue[s]
             t == total[s]
  <2>2. q \in Seq(OrderIds) /\ Summed(q, rem, t)
    BY <2>1
  <2> HIDE DEF q, t
  <2>3. t \in Nat /\ (q # <<>> <=> t > 0)
    BY <2>2, SummedSign
  <2> QED
    BY <2>3 DEF q, t
<1> QED
  BY <1>1, Invariance, PTL

\* Nobody trades outside the limits, and nobody gets more than was asked for.
THEOREM LimitsSafe == Spec => []TradesWithinLimits
<1>1. IInv => TradesWithinLimits
  <2> SUFFICES ASSUME IInv PROVE TradesWithinLimits
    OBVIOUS
  <2>1. ASSUME NEW o \in OrderIds, status[o] # "NONE", ~IsMarketBuy(o)
        PROVE  filled[o] <= req[o].qty
    <3>1. req[o] \in Requests /\ rem[o] = req[o].qty - filled[o] /\ rem[o] >= 0
      BY <2>1 DEF IInv, Accounting
    <3>2. req[o].qty \in Nat /\ filled[o] \in Nat
      BY <2>1, <3>1, RequestFacts DEF IInv, TypeOK
    <3> QED
      BY <3>1, <3>2
  <2>2. TradesSound
    BY DEF IInv
  <2> QED
    BY <2>1, <2>2 DEF TradesWithinLimits, TradesSound
<1> QED
  BY <1>1, Invariance, PTL

\* Whoever trades as a maker has waited longest at that price.
THEOREM TimePrioritySafe == Spec => TimePriority
<1> DEFINE A == \A t \in NewTrades :
                  \A o \in active :
                    SlotOf(o) = SlotOf(t.maker) => arrival[t.maker] <= arrival[o]
<1>1. IInv /\ [Next]_vars => [A]_vars
  <2> SUFFICES ASSUME IInv, [Next]_vars PROVE [A]_vars
    OBVIOUS
  <2>0. TypeOK /\ BookConsistent /\ Aged
    BY DEF IInv
  <2>1. CASE Fill
    <3>1. PICK p \in Matchable(taker) :
            LET s == <<Opposite(req[taker].side), p>>
                m == Head(queue[s])
            IN  trades' = Append(trades, [maker |-> m, taker |-> taker,
                                          price |-> p, qty |-> FillQty(taker, m, p)])
      BY <2>1 DEF Fill
    <3> DEFINE s  == <<Opposite(req[taker].side), p>>
               m  == Head(queue[s])
               tr == [maker |-> m, taker |-> taker, price |-> p,
                      qty |-> FillQty(taker, m, p)]
    <3>2. taker # NoOrder
      BY <2>1 DEF Fill
    <3>3. /\ taker \in OrderIds /\ p \in Prices /\ s \in Slots
          /\ 1 \in DOMAIN queue[s] /\ m = queue[s][1]
          /\ m \in OrderIds /\ s = SlotOf(m)
          /\ FillQty(taker, m, p) \in Nat \ {0}
      BY <3>2, FillFacts
    <3>4. trades' = Append(trades, tr) /\ tr.maker = m
      BY <3>1
    <3>5. tr \in Trade
      BY <3>3 DEF Trade
    <3> HIDE DEF s, m, tr
    <3>6. trades \in Seq(Trade)
      BY <2>0 DEF TypeOK
    <3>7. Len(trades') = Len(trades) + 1 /\ trades'[Len(trades) + 1] = tr
      BY <3>4, <3>5, <3>6, AppendProperties
    <3>8. \A t \in NewTrades : t = tr
      BY <3>7 DEF NewTrades
    <3>9. ASSUME NEW o \in active, SlotOf(o) = SlotOf(m)
          PROVE  arrival[m] <= arrival[o]
      <4>1. PICK i \in DOMAIN queue[s] : queue[s][i] = o
        BY <2>0, <3>3, <3>9 DEF BookConsistent
      <4>2. DOMAIN queue[s] = 1 .. Len(queue[s]) /\ Len(queue[s]) \in Nat
        BY <2>0, <3>3, QueueFacts
      <4>3. arrival[m] \in Nat /\ arrival[o] \in Nat
        BY <2>0, <3>3, <3>9 DEF TypeOK
      <4>4. CASE i = 1
        BY <3>3, <4>1, <4>3, <4>4
      <4>5. CASE i # 1
        <5>1. 1 < i
          BY <4>1, <4>2, <4>5
        <5>2. arrival[queue[s][1]] < arrival[queue[s][i]]
          BY <2>0, <3>3, <4>1, <5>1 DEF Aged
        <5> QED
          BY <3>3, <4>1, <4>3, <5>2
      <4> QED
        BY <4>4, <4>5
    <3> QED
      BY <3>4, <3>8, <3>9
  <2>2. CASE trades' = trades
    <3>1. NewTrades = {}
      <4>1. Len(trades) \in Nat
        BY <2>0, LenProperties DEF TypeOK
      <4> QED
        BY <2>2, <4>1 DEF NewTrades
    <3> QED
      BY <3>1
  <2>3. Fill \/ trades' = trades
    BY DEF Next, Work, Submit, SubmitAccepted, SubmitRejected, Arrive, FinishMarket,
           FinishFilled, FinishExpired, FinishResting, Finish, Cancel, vars
  <2> QED
    BY <2>1, <2>2, <2>3
<1>2. Spec => [][A]_vars
  BY <1>1, Invariance, PTL DEF Spec
<1> QED
  BY <1>2 DEF TimePriority

\* Nobody writes to an order that has ended.
THEOREM EndedSafe == Spec => EndedStaysEnded
<1> DEFINE Ended == {"FILLED", "CANCELED", "REJECTED", "EXPIRED"}
           Same(o) == /\ status'[o] = status[o] /\ filled'[o] = filled[o] /\ rem'[o] = rem[o]
                      /\ o \notin active'
           A == \A o \in OrderIds : status[o] \in Ended => Same(o)
<1>1. IInv /\ [Next]_vars => [A]_vars
  <2> SUFFICES ASSUME IInv, [Next]_vars, NEW o \in OrderIds, status[o] \in Ended
               PROVE  Same(o) \/ UNCHANGED vars
    OBVIOUS
  <2>0. TypeOK /\ BookConsistent /\ TakerFresh
    BY DEF IInv
  <2>1. o \notin active /\ status[o] # "NONE"
    BY <2>0 DEF BookConsistent, Open
  <2>2. taker # NoOrder => o # taker
    BY <2>0 DEF TakerFresh
  <2>3. CASE Submit
    BY <2>0, <2>1, <2>3 DEF Submit, SubmitAccepted, SubmitRejected, Arrive, bookVars, TypeOK
  <2>4. CASE Fill
    <3>1. PICK p \in Matchable(taker) :
            LET s   == <<Opposite(req[taker].side), p>>
                m   == Head(queue[s])
                qty == FillQty(taker, m, p)
            IN  /\ rem' = [rem EXCEPT ![taker] = @ - qty, ![m] = @ - qty]
                /\ filled' = [filled EXCEPT ![taker] = @ + qty, ![m] = @ + qty]
                /\ status' = [status EXCEPT
                     ![m] = IF rem[m] = qty THEN "FILLED" ELSE "PARTIALLY_FILLED"]
                /\ active' = IF rem[m] = qty THEN active \ {m} ELSE active
      BY <2>4 DEF Fill
    <3> DEFINE m   == Head(queue[<<Opposite(req[taker].side), p>>])
               qty == FillQty(taker, m, p)
    <3>2. taker # NoOrder
      BY <2>4 DEF Fill
    <3>3. m \in active
      BY <3>2, FillFacts
    <3>4. /\ rem' = [rem EXCEPT ![taker] = @ - qty, ![m] = @ - qty]
          /\ filled' = [filled EXCEPT ![taker] = @ + qty, ![m] = @ + qty]
          /\ status' = [status EXCEPT
               ![m] = IF rem[m] = qty THEN "FILLED" ELSE "PARTIALLY_FILLED"]
          /\ active' \subseteq active
      BY <3>1
    <3> HIDE DEF m, qty
    <3>5. o # m /\ o # taker
      BY <2>1, <2>2, <3>2, <3>3
    <3> QED
      BY <2>0, <2>1, <3>4, <3>5 DEF TypeOK
  <2>5. CASE FinishMarket \/ FinishFilled \/ FinishExpired
    BY <2>0, <2>1, <2>2, <2>5
       DEF FinishMarket, FinishFilled, FinishExpired, Finish, DropTaker, TypeOK
  <2>6. CASE FinishResting
    BY <2>0, <2>1, <2>2, <2>6 DEF FinishResting, Finish, Rest, TypeOK
  <2>7. CASE \E a \in OrderIds : Cancel(a)
    BY <2>0, <2>1, <2>7 DEF Cancel, TypeOK
  <2> QED
    BY <2>3, <2>4, <2>5, <2>6, <2>7 DEF Next, Work
<1>2. Spec => [][A]_vars
  BY <1>1, Invariance, PTL DEF Spec
<1> QED
  BY <1>2 DEF EndedStaysEnded


------------------------------------------------------------------------------
(***************************************************************************)
(* The sums: what orders were filled, what they paid, what levels hold.    *)
(***************************************************************************)

\* A price is a positive integer.
LEMMA PriceFacts == \A p \in Prices : p \in Int /\ p \in Nat \ {0}
<1>1. Prices \subseteq Nat \ {0}
  BY EngineAssumption
<1> QED
  BY <1>1

\* The sum of a level, in the terms of the model.
LEMMA SummedIsSum ==
  ASSUME NEW S, NEW q \in Seq(S), NEW r, \A i \in DOMAIN q : r[q[i]] \in Int,
         NEW t, Summed(q, r, t)
  PROVE  t = SumFunctionOnSet([i \in DOMAIN q |-> r[q[i]]], DOMAIN q)
<1> DEFINE d == [i \in DOMAIN q |-> r[q[i]]]
           n == Len(q)
<1>1. PICK f \in [0 .. Len(q) -> Int] : PrefixSums(f, q, r) /\ f[Len(q)] = t
  BY DEF Summed
<1>2. n \in Nat /\ DOMAIN q = 1 .. n
  BY LenProperties
<1>3. f[0] = 0 /\ \A i \in 1 .. n : f[i] = f[i-1] + r[q[i]]
  BY <1>1 DEF PrefixSums
<1>4. \A i \in 1 .. n : d[i] \in Int /\ f[i] = f[i-1] + d[i]
  BY <1>2, <1>3
<1>5. f[n] = t
  BY <1>1
<1>6. n \in Nat /\ f[0] = 0 /\ \A j \in 1 .. n : d[j] \in Int /\ f[j] = f[j-1] + d[j]
  BY <1>2, <1>3, <1>4
<1>7. SumFunctionOnSet(d, 1 .. n) = f[n]
  <2> HIDE DEF d, n
  <2> QED
    BY <1>6, SumOfPrefixes
<1> QED
  BY <1>2, <1>5, <1>7 DEF d

\* A fill, as seen from its maker m, its price p and its quantity qty.
FillOf(m, p, qty) ==
  LET s == <<Opposite(req[taker].side), p>> IN
  /\ taker \in OrderIds /\ status[taker] = "NEW" /\ m \in active /\ m # taker /\ s = SlotOf(m)
  /\ p \in Best(Opposite(req[taker].side)) /\ Crosses(req[taker], p)
  /\ filled' = [filled EXCEPT ![taker] = @ + qty, ![m] = @ + qty]
  /\ rem' = [rem EXCEPT ![taker] = @ - qty, ![m] = @ - qty]
  /\ remQuote' = IF IsMarketBuy(taker)
                 THEN [remQuote EXCEPT ![taker] = @ - PriceQtyToQuote(p, qty)]
                 ELSE remQuote
  /\ total' = [total EXCEPT ![s] = @ - qty]
  /\ status' = [status EXCEPT ![m] = IF rem[m] = qty THEN "FILLED" ELSE "PARTIALLY_FILLED"]
  /\ trades' = Append(trades, [maker |-> m, taker |-> taker, price |-> p, qty |-> qty])
  /\ heap' = HeapAfterMatch(taker)
  /\ UNCHANGED <<req, mapped, taker>>

\* Every fill has these three.
LEMMA FillHas ==
  ASSUME IInv, Fill
  PROVE  \E m \in OrderIds, p \in Prices, qty \in Nat \ {0} : FillOf(m, p, qty)
<1>1. PICK p \in Matchable(taker) :
       LET s    == <<Opposite(req[taker].side), p>>
           m    == Head(queue[s])
           qty  == FillQty(taker, m, p)
       IN
       /\ filled' = [filled EXCEPT ![taker] = @ + qty, ![m] = @ + qty]
       /\ rem' = [rem EXCEPT ![taker] = @ - qty, ![m] = @ - qty]
       /\ remQuote' = IF IsMarketBuy(taker)
                      THEN [remQuote EXCEPT ![taker] = @ - PriceQtyToQuote(p, qty)]
                      ELSE remQuote
       /\ total' = [total EXCEPT ![s] = @ - qty]
       /\ status' = [status EXCEPT
            ![m] = IF rem[m] = qty THEN "FILLED" ELSE "PARTIALLY_FILLED"]
       /\ trades' = Append(trades,
            [maker |-> m, taker |-> taker, price |-> p, qty |-> qty])
  BY DEF Fill
<1>2. taker # NoOrder /\ heap' = HeapAfterMatch(taker) /\ UNCHANGED <<req, mapped, taker>>
  BY DEF Fill
<1> DEFINE s   == <<Opposite(req[taker].side), p>>
           m   == Head(queue[s])
           qty == FillQty(taker, m, p)
<1>3. /\ taker \in OrderIds /\ status[taker] = "NEW" /\ p \in Prices
      /\ m \in active /\ m \in OrderIds /\ m # taker /\ s = SlotOf(m)
      /\ qty \in Nat \ {0} /\ Crosses(req[taker], p)
  BY <1>2, FillFacts
<1>4. p \in Best(Opposite(req[taker].side))
  BY DEF Matchable
<1>5. /\ filled' = [filled EXCEPT ![taker] = @ + qty, ![m] = @ + qty]
      /\ rem' = [rem EXCEPT ![taker] = @ - qty, ![m] = @ - qty]
      /\ remQuote' = IF IsMarketBuy(taker)
                     THEN [remQuote EXCEPT ![taker] = @ - PriceQtyToQuote(p, qty)]
                     ELSE remQuote
      /\ total' = [total EXCEPT ![s] = @ - qty]
      /\ status' = [status EXCEPT
           ![m] = IF rem[m] = qty THEN "FILLED" ELSE "PARTIALLY_FILLED"]
      /\ trades' = Append(trades,
           [maker |-> m, taker |-> taker, price |-> p, qty |-> qty])
  BY <1>1
<1>6. s = <<Opposite(req[taker].side), p>>
  OBVIOUS
<1> HIDE DEF s, m, qty
<1>7. FillOf(m, p, qty)
  BY <1>2, <1>3, <1>4, <1>5, <1>6 DEF FillOf
<1> QED
  BY <1>3, <1>7

\* What the orders have got and paid is the sum of their trades.
TradesTold ==
  \A o \in OrderIds :
    /\ filled[o] = SumFunctionOnSet(Quantities, OwnTrades(o))
    /\ status[o] # "NONE" =>
         remQuote[o] = req[o].quote -
           IF IsMarketBuy(o) THEN SumFunctionOnSet(Costs, OwnTrades(o)) ELSE 0

\* Each of the sums over the trades of an order is an integer.
LEMMA OwnFacts ==
  ASSUME TypeOK, NEW o \in OrderIds
  PROVE  /\ OwnTrades(o) \subseteq DOMAIN trades /\ IsFiniteSet(OwnTrades(o))
         /\ \A i \in DOMAIN trades : /\ Quantities[i] = trades[i].qty /\ Quantities[i] \in Int
                                      /\ Costs[i] = PriceQtyToQuote(trades[i].price, trades[i].qty)
                                      /\ Costs[i] \in Int
         /\ SumFunctionOnSet(Quantities, OwnTrades(o)) \in Int
         /\ SumFunctionOnSet(Costs, OwnTrades(o)) \in Int
<1>1. trades \in Seq(Trade) /\ Len(trades) \in Nat /\ DOMAIN trades = 1 .. Len(trades)
  BY LenProperties DEF TypeOK
<1>2. OwnTrades(o) \subseteq DOMAIN trades /\ IsFiniteSet(OwnTrades(o))
  <2>1. OwnTrades(o) \subseteq DOMAIN trades
    BY DEF OwnTrades
  <2>2. IsFiniteSet(1 .. Len(trades))
    BY <1>1, FS_Interval
  <2> QED
    BY <1>1, <2>1, <2>2, FS_Subset
<1>3. ASSUME NEW i \in DOMAIN trades
      PROVE  /\ Quantities[i] = trades[i].qty /\ Quantities[i] \in Int
             /\ Costs[i] = PriceQtyToQuote(trades[i].price, trades[i].qty) /\ Costs[i] \in Int
  <2>1. trades[i] \in Trade
    BY <1>1
  <2>2. trades[i].price \in Prices /\ trades[i].qty \in Nat
    BY <2>1 DEF Trade
  <2>3. trades[i].price \in Int /\ trades[i].qty \in Int
    BY <2>2, PriceFacts
  <2>4. PriceQtyToQuote(trades[i].price, trades[i].qty) \in Nat
    BY <2>3, QuoteNat
  <2>5. /\ Quantities[i] = trades[i].qty
        /\ Costs[i] = PriceQtyToQuote(trades[i].price, trades[i].qty)
    BY DEF Quantities, Costs
  <2> QED
    BY <2>2, <2>4, <2>5
<1>4. \A i \in OwnTrades(o) : Quantities[i] \in Int /\ Costs[i] \in Int
  BY <1>2, <1>3
<1> QED
  BY <1>2, <1>3, <1>4, SumType

\* The sums over the trades of an order that a new trade is not about stay as
\* they are, and those of the two that it is about grow by it.
LEMMA OneMoreTrade ==
  ASSUME TypeOK, NEW t \in Trade, trades' = Append(trades, t), NEW o \in OrderIds
  PROVE  /\ SumFunctionOnSet(Quantities, OwnTrades(o))' =
              SumFunctionOnSet(Quantities, OwnTrades(o)) + IF o \in {t.maker, t.taker} THEN t.qty ELSE 0
         /\ SumFunctionOnSet(Costs, OwnTrades(o))' =
              SumFunctionOnSet(Costs, OwnTrades(o))
                + IF o \in {t.maker, t.taker} THEN PriceQtyToQuote(t.price, t.qty) ELSE 0
<1> DEFINE S == OwnTrades(o)
           Q == Quantities
           C == Costs
           T == OwnTrades(o)'
           P == Quantities'
           D == Costs'
           n == Len(trades) + 1
           c == PriceQtyToQuote(t.price, t.qty)
<1>1. /\ trades \in Seq(Trade) /\ Len(trades) \in Nat /\ DOMAIN trades = 1 .. Len(trades)
      /\ n \notin DOMAIN trades
  BY LenProperties DEF TypeOK
<1>2. /\ DOMAIN trades' = DOMAIN trades \cup {n} /\ trades'[n] = t
      /\ \A i \in DOMAIN trades : trades'[i] = trades[i]
  <2>1. trades' \in Seq(Trade) /\ Len(trades') = Len(trades) + 1
    BY <1>1, AppendProperties
  <2>2. DOMAIN trades' = 1 .. Len(trades) + 1
    BY <2>1, LenProperties
  <2> QED
    BY <1>1, <2>2, AppendProperties
<1>3. /\ S \subseteq DOMAIN trades /\ IsFiniteSet(S)
      /\ \A i \in DOMAIN trades : /\ Q[i] = trades[i].qty /\ Q[i] \in Int
                                   /\ C[i] = PriceQtyToQuote(trades[i].price, trades[i].qty)
                                   /\ C[i] \in Int
      /\ SumFunctionOnSet(Q, S) \in Int /\ SumFunctionOnSet(C, S) \in Int
  BY OwnFacts
<1>4. t.qty \in Int /\ c \in Int
  <2>1. t.price \in Prices /\ t.qty \in Nat
    BY DEF Trade
  <2>2. t.price \in Int /\ t.qty \in Int
    BY <2>1, PriceFacts
  <2>3. c \in Nat
    BY <2>2, QuoteNat
  <2> QED
    BY <2>1, <2>3
<1>5. /\ \A i \in S : P[i] = Q[i] /\ P[i] \in Int /\ D[i] = C[i] /\ D[i] \in Int
      /\ P[n] = t.qty /\ D[n] = c
  <2>1. \A i \in DOMAIN trades' : /\ P[i] = trades'[i].qty
                                  /\ D[i] = PriceQtyToQuote(trades'[i].price, trades'[i].qty)
    BY DEF Quantities, Costs
  <2> QED
    BY <1>2, <1>3, <2>1
<1>6. T = S \cup (IF o \in {t.maker, t.taker} THEN {n} ELSE {}) /\ n \notin S
  <2>1. T = {i \in DOMAIN trades' : o \in {trades'[i].maker, trades'[i].taker}}
    BY DEF OwnTrades
  <2>2. S = {i \in DOMAIN trades : o \in {trades[i].maker, trades[i].taker}}
    BY DEF OwnTrades
  <2> HIDE DEF S, T, n
  <2> QED
    BY <1>1, <1>2, <2>1, <2>2
<1> HIDE DEF S, Q, C, T, P, D, n, c
<1>7. SumFunctionOnSet(P, S) = SumFunctionOnSet(Q, S) /\ SumFunctionOnSet(D, S) = SumFunctionOnSet(C, S)
  <2>1. \A i \in S : Q[i] \in Int /\ P[i] = Q[i]
    BY <1>3, <1>5
  <2>2. \A i \in S : C[i] \in Int /\ D[i] = C[i]
    BY <1>3, <1>5
  <2> QED
    BY <1>3, <2>1, <2>2, SumSame
<1>8. CASE o \in {t.maker, t.taker}
  <2>1. T = S \cup {n}
    BY <1>6, <1>8
  <2>2. /\ SumFunctionOnSet(P, S \cup {n}) = SumFunctionOnSet(P, S) + P[n]
        /\ SumFunctionOnSet(D, S \cup {n}) = SumFunctionOnSet(D, S) + D[n]
    <3>1. /\ \A i \in S \cup {n} : P[i] \in Int
          /\ \A i \in S \cup {n} : D[i] \in Int
      BY <1>4, <1>5
    <3> QED
      BY <1>3, <1>6, <3>1, SumInsert
  <2>3. /\ SumFunctionOnSet(P, T) = SumFunctionOnSet(Q, S) + t.qty
        /\ SumFunctionOnSet(D, T) = SumFunctionOnSet(C, S) + c
    BY <1>5, <1>7, <2>1, <2>2
  <2> QED
    BY <1>8, <2>3 DEF S, Q, C, T, P, D, c
<1>9. CASE o \notin {t.maker, t.taker}
  <2>1. T = S
    BY <1>6, <1>9
  <2>2. /\ SumFunctionOnSet(P, T) = SumFunctionOnSet(Q, S) + 0
        /\ SumFunctionOnSet(D, T) = SumFunctionOnSet(C, S) + 0
    BY <1>3, <1>7, <2>1
  <2> QED
    BY <1>9, <2>2 DEF S, Q, C, T, P, D
<1> QED
  BY <1>8, <1>9

\* A step that emits no trade leaves the sums over the trades alone.
LEMMA NoMoreTrades ==
  ASSUME trades' = trades, NEW o \in OrderIds
  PROVE  /\ SumFunctionOnSet(Quantities, OwnTrades(o))' = SumFunctionOnSet(Quantities, OwnTrades(o))
         /\ SumFunctionOnSet(Costs, OwnTrades(o))' = SumFunctionOnSet(Costs, OwnTrades(o))
<1>1. Quantities' = Quantities /\ Costs' = Costs /\ OwnTrades(o)' = OwnTrades(o)
  BY DEF Quantities, Costs, OwnTrades
<1> QED
  BY <1>1

\* An order that is not submitted has no trades.
LEMMA NoTradesYet ==
  ASSUME TypeOK, TradesSound, NEW o \in OrderIds, status[o] = "NONE"
  PROVE  /\ SumFunctionOnSet(Quantities, OwnTrades(o)) = 0
         /\ SumFunctionOnSet(Costs, OwnTrades(o)) = 0
<1>1. OwnTrades(o) = {}
  BY DEF OwnTrades, TradesSound
<1> QED
  BY <1>1, SumEmpty

\* At the start nobody has got anything.
LEMMA InitTold == Init => TradesTold
<1> SUFFICES ASSUME Init PROVE TradesTold
  OBVIOUS
<1>1. TypeOK /\ TradesSound
  BY InitInv DEF IInv
<1>2. \A o \in OrderIds : status[o] = "NONE" /\ filled[o] = 0
  BY DEF Init
<1> QED
  BY <1>1, <1>2, NoTradesYet DEF TradesTold

\* A new order starts with nothing got and nothing paid.
LEMMA ArriveTold ==
  ASSUME IInv, TradesTold, NEW a \in OrderIds, NEW r \in Requests, Arrive(a, r),
         \/ status' = [status EXCEPT ![a] = "NEW"]
         \/ status' = [status EXCEPT ![a] = "REJECTED"]
  PROVE  TradesTold'
<1>1. TypeOK /\ TradesSound
  BY DEF IInv
<1>2. SUFFICES ASSUME NEW o \in OrderIds
               PROVE  /\ filled'[o] = SumFunctionOnSet(Quantities, OwnTrades(o))'
                      /\ status'[o] # "NONE" =>
                           remQuote'[o] = req'[o].quote -
                             IF IsMarketBuy(o)' THEN SumFunctionOnSet(Costs, OwnTrades(o))' ELSE 0
  BY DEF TradesTold
<1>3. /\ SumFunctionOnSet(Quantities, OwnTrades(o))' = SumFunctionOnSet(Quantities, OwnTrades(o))
      /\ SumFunctionOnSet(Costs, OwnTrades(o))' = SumFunctionOnSet(Costs, OwnTrades(o))
  BY NoMoreTrades DEF Arrive
<1>4. filled'[o] = SumFunctionOnSet(Quantities, OwnTrades(o))'
  BY <1>3 DEF Arrive, TradesTold
<1>5. CASE o = a
  <2>1. status[o] = "NONE"
    BY <1>5 DEF Arrive
  <2>2. SumFunctionOnSet(Costs, OwnTrades(o))' = 0
    BY <1>1, <1>3, <2>1, NoTradesYet
  <2>3. remQuote'[o] = r.quote /\ req'[o] = r /\ r.quote \in Int
    BY <1>1, <1>5, RequestFacts DEF Arrive, TypeOK
  <2> QED
    BY <1>4, <2>2, <2>3
<1>6. CASE o # a
  <2>1. remQuote'[o] = remQuote[o] /\ req'[o] = req[o] /\ status'[o] = status[o]
    BY <1>1, <1>6 DEF Arrive, TypeOK
  <2>2. IsMarketBuy(o)' <=> IsMarketBuy(o)
    BY <2>1 DEF IsMarketBuy
  <2> QED
    BY <1>3, <1>4, <2>1, <2>2 DEF TradesTold
<1> QED
  BY <1>5, <1>6

\* A fill adds its trade to the sums of its two orders.
LEMMA FillTold == ASSUME IInv, TradesTold, Fill PROVE TradesTold'
<1>1. PICK m \in OrderIds, p \in Prices, qty \in Nat \ {0} : FillOf(m, p, qty)
  BY FillHas
<1> DEFINE t == [maker |-> m, taker |-> taker, price |-> p, qty |-> qty]
<1>2. /\ TypeOK /\ BookConsistent /\ Accounting
      /\ taker \in OrderIds /\ m \in active /\ m # taker
  BY <1>1 DEF IInv, FillOf
<1>3. t \in Trade /\ trades' = Append(trades, t)
  BY <1>1, <1>2 DEF Trade, FillOf
<1>4. ~IsMarketBuy(m)
  BY <1>2, ActiveFacts DEF IsMarketBuy
<1>5. req' = req
  BY <1>1 DEF FillOf
<1>6. SUFFICES ASSUME NEW o \in OrderIds
               PROVE  /\ filled'[o] = SumFunctionOnSet(Quantities, OwnTrades(o))'
                      /\ status'[o] # "NONE" =>
                           remQuote'[o] = req'[o].quote -
                             IF IsMarketBuy(o)' THEN SumFunctionOnSet(Costs, OwnTrades(o))' ELSE 0
  BY DEF TradesTold
<1> DEFINE G == SumFunctionOnSet(Quantities, OwnTrades(o))
           C == SumFunctionOnSet(Costs, OwnTrades(o))
           H == SumFunctionOnSet(Quantities, OwnTrades(o))'
           D == SumFunctionOnSet(Costs, OwnTrades(o))'
           c == PriceQtyToQuote(p, qty)
<1>7. /\ H = G + IF o \in {m, taker} THEN qty ELSE 0
      /\ D = C + IF o \in {m, taker} THEN c ELSE 0
  <2>1. t.maker = m /\ t.taker = taker /\ t.price = p /\ t.qty = qty
    OBVIOUS
  <2> HIDE DEF t
  <2> QED
    BY <1>2, <1>3, <2>1, OneMoreTrade
<1>8. G \in Int /\ C \in Int
  BY <1>2, OwnFacts
<1>9. c \in Int
  <2>1. p \in Int /\ qty \in Int
    BY EngineAssumption
  <2> QED
    BY <2>1, QuoteNat
<1>10. IsMarketBuy(o)' <=> IsMarketBuy(o)
  BY <1>5 DEF IsMarketBuy
<1>11. filled[o] = G /\ (status[o] # "NONE" =>
         remQuote[o] = req[o].quote - IF IsMarketBuy(o) THEN C ELSE 0)
  BY DEF TradesTold
<1>12. filled'[o] = filled[o] + IF o \in {m, taker} THEN qty ELSE 0
  <2>1. filled' = [filled EXCEPT ![taker] = @ + qty, ![m] = @ + qty]
    BY <1>1 DEF FillOf
  <2>2. filled \in [OrderIds -> Nat]
    BY <1>2 DEF TypeOK
  <2> QED
    BY <1>2, <2>1, <2>2
<1>13. remQuote'[o] = IF o = taker /\ IsMarketBuy(o) THEN remQuote[o] - c ELSE remQuote[o]
  <2>1. remQuote' = IF IsMarketBuy(taker) THEN [remQuote EXCEPT ![taker] = @ - c] ELSE remQuote
    BY <1>1 DEF FillOf
  <2>2. remQuote \in [OrderIds -> Int]
    BY <1>2 DEF TypeOK
  <2> QED
    BY <1>2, <2>1, <2>2
<1>14. status'[o] # "NONE" => status[o] # "NONE"
  <2>1. status[m] # "NONE"
    BY <1>2 DEF BookConsistent, Open
  <2>2. status' = [status EXCEPT ![m] = IF rem[m] = qty THEN "FILLED" ELSE "PARTIALLY_FILLED"]
    BY <1>1 DEF FillOf
  <2> QED
    BY <2>1, <2>2
<1> HIDE DEF G, C, H, D, c
<1>15. filled'[o] = H
  BY <1>7, <1>11, <1>12
<1>16. ASSUME status'[o] # "NONE"
       PROVE  remQuote'[o] = req'[o].quote - IF IsMarketBuy(o)' THEN D ELSE 0
  <2>1. remQuote[o] = req[o].quote - IF IsMarketBuy(o) THEN C ELSE 0
    BY <1>11, <1>14, <1>16
  <2>2. req'[o].quote = req[o].quote /\ req[o].quote \in Int
    <3>1. req[o] \in Requests
      BY <1>2, <1>14, <1>16 DEF Accounting
    <3> QED
      BY <1>5, <3>1, RequestFacts
  <2>3. CASE ~IsMarketBuy(o)
    BY <1>10, <1>13, <2>1, <2>2, <2>3
  <2>4. CASE IsMarketBuy(o) /\ o = taker
    BY <1>7, <1>8, <1>9, <1>10, <1>13, <2>1, <2>2, <2>4
  <2>5. CASE IsMarketBuy(o) /\ o # taker
    <3>1. D = C
      BY <1>4, <1>7, <1>8, <2>5
    <3> QED
      BY <1>10, <1>13, <2>1, <2>2, <2>5, <3>1
  <2> QED
    BY <2>3, <2>4, <2>5
<1> QED
  BY <1>15, <1>16 DEF D, H

\* Every other step leaves the trades, the quantities and the budgets alone.
LEMMA OthersTold ==
  ASSUME TypeOK, TradesTold,
         UNCHANGED <<req, remQuote, filled, trades>>,
         \A o \in OrderIds : status'[o] # "NONE" => status[o] # "NONE"
  PROVE  TradesTold'
<1> SUFFICES ASSUME NEW o \in OrderIds
             PROVE  /\ filled'[o] = SumFunctionOnSet(Quantities, OwnTrades(o))'
                    /\ status'[o] # "NONE" =>
                         remQuote'[o] = req'[o].quote -
                           IF IsMarketBuy(o)' THEN SumFunctionOnSet(Costs, OwnTrades(o))' ELSE 0
  BY DEF TradesTold
<1>1. /\ SumFunctionOnSet(Quantities, OwnTrades(o))' = SumFunctionOnSet(Quantities, OwnTrades(o))
      /\ SumFunctionOnSet(Costs, OwnTrades(o))' = SumFunctionOnSet(Costs, OwnTrades(o))
  BY NoMoreTrades
<1>2. IsMarketBuy(o)' <=> IsMarketBuy(o)
  BY DEF IsMarketBuy
<1> QED
  BY <1>1, <1>2 DEF TradesTold

\* A step keeps what the trades tell.
LEMMA NextTold == IInv /\ TradesTold /\ [Next]_vars => TradesTold'
<1> SUFFICES ASSUME IInv, TradesTold, [Next]_vars PROVE TradesTold'
  OBVIOUS
<1>0. TypeOK /\ BookConsistent /\ TakerFresh
  BY DEF IInv
<1>1. CASE Submit
  BY <1>1, ArriveTold DEF Submit, SubmitAccepted, SubmitRejected
<1>2. CASE Fill
  BY <1>2, FillTold
<1>3. CASE FinishMarket \/ FinishFilled \/ FinishExpired \/ FinishResting
  <2>1. PICK final : Finish(final)
    BY <1>3 DEF FinishMarket, FinishFilled, FinishExpired, FinishResting
  <2>2. taker \in OrderIds /\ status[taker] = "NEW"
    BY <1>0, <2>1 DEF Finish, TypeOK, TakerFresh
  <2> QED
    BY <1>0, <2>1, <2>2, OthersTold DEF Finish, TypeOK
<1>4. ASSUME NEW a \in OrderIds, Cancel(a) PROVE TradesTold'
  <2>1. status[a] # "NONE"
    BY <1>0, <1>4 DEF Cancel, BookConsistent, Open
  <2>2. status' = [status EXCEPT ![a] = "CANCELED"] /\ UNCHANGED <<req, remQuote, filled, trades>>
    BY <1>4 DEF Cancel
  <2> QED
    BY <1>0, <2>1, <2>2, OthersTold DEF TypeOK
<1>5. CASE UNCHANGED vars
  BY <1>0, <1>5, OthersTold DEF vars, orderVars
<1> QED
  BY <1>1, <1>2, <1>3, <1>4, <1>5 DEF Next, Work

\* The books of the engine can be made up again from its trades: what every
\* order has got and paid, and what every level of the book still holds.
THEOREM TradesAccountSafe == Spec => []TradesAccountForFills
<1>1. IInv /\ TradesTold => TradesAccountForFills
  <2> SUFFICES ASSUME IInv, TradesTold PROVE TradesAccountForFills
    OBVIOUS
  <2>1. TypeOK /\ BookSums /\ Accounting
    BY DEF IInv
  <2>2. LevelTotals
    <3> SUFFICES ASSUME NEW s \in Slots
                 PROVE  total[s] = SumFunctionOnSet([i \in DOMAIN queue[s] |-> rem[queue[s][i]]],
                                                    DOMAIN queue[s])
      BY DEF LevelTotals
    <3> DEFINE q == queue[s]
    <3>1. q \in Seq(OrderIds) /\ \A i \in DOMAIN q : q[i] \in OrderIds
      BY <2>1, QueueFacts
    <3>2. \A i \in DOMAIN q : rem[q[i]] \in Int
      BY <2>1, <3>1 DEF TypeOK
    <3>3. Summed(q, rem, total[s])
      BY <2>1 DEF BookSums
    <3> HIDE DEF q
    <3>4. total[s] = SumFunctionOnSet([i \in DOMAIN q |-> rem[q[i]]], DOMAIN q)
      BY <3>1, <3>2, <3>3, SummedIsSum
    <3> QED
      BY <3>4 DEF q
  <2> QED
    BY <2>1, <2>2 DEF TradesAccountForFills, TradesTold, Accounting
<1> QED
  BY <1>1, InitTold, NextTold, Invariance, PTL DEF Spec

------------------------------------------------------------------------------
(***************************************************************************)
(* What a step may do to an order, and what buyers pay in all.             *)
(***************************************************************************)

\* Trades are only added, a submitted order stays what it is, and what it has
\* got only grows.
LEMMA StepFacts ==
  ASSUME IInv, [Next]_vars
  PROVE  /\ trades' = trades \/ \E t \in Trade : trades' = Append(trades, t)
         /\ \A o \in OrderIds :
              /\ status[o] # "NONE" => status'[o] # "NONE" /\ req'[o] = req[o]
              /\ filled'[o] >= filled[o]
<1>0. TypeOK /\ BookConsistent /\ TakerFresh
  BY DEF IInv
<1>1. CASE Submit
  <2>1. PICK a \in OrderIds, r \in Requests : SubmitAccepted(a, r) \/ SubmitRejected(a, r)
    BY <1>1 DEF Submit
  <2>2. Arrive(a, r) /\ \E x \in {"NEW", "REJECTED"} : status' = [status EXCEPT ![a] = x]
    BY <2>1 DEF SubmitAccepted, SubmitRejected
  <2> QED
    BY <1>0, <2>2 DEF Arrive, TypeOK
<1>2. CASE Fill
  <2>1. PICK m \in OrderIds, p \in Prices, qty \in Nat \ {0} : FillOf(m, p, qty)
    BY <1>2, FillHas
  <2>2. /\ taker \in OrderIds /\ m # taker /\ req' = req
        /\ filled' = [filled EXCEPT ![taker] = @ + qty, ![m] = @ + qty]
        /\ \E x \in {"FILLED", "PARTIALLY_FILLED"} : status' = [status EXCEPT ![m] = x]
        /\ trades' = Append(trades, [maker |-> m, taker |-> taker, price |-> p, qty |-> qty])
    BY <2>1 DEF FillOf
  <2>3. [maker |-> m, taker |-> taker, price |-> p, qty |-> qty] \in Trade
    BY <2>2 DEF Trade
  <2>4. ASSUME NEW o \in OrderIds PROVE filled'[o] >= filled[o]
    <3>1. filled \in [OrderIds -> Nat]
      BY <1>0 DEF TypeOK
    <3>2. filled'[o] = IF o = m \/ o = taker THEN filled[o] + qty ELSE filled[o]
      BY <2>2, <3>1
    <3> QED
      BY <3>1, <3>2
  <2>5. ASSUME NEW o \in OrderIds, status[o] # "NONE" PROVE status'[o] # "NONE"
    BY <1>0, <2>2, <2>5 DEF TypeOK
  <2> QED
    BY <2>2, <2>3, <2>4, <2>5
<1>3. CASE FinishMarket \/ FinishFilled \/ FinishExpired \/ FinishResting
  <2>1. \E x \in {"FILLED", "REJECTED", "EXPIRED", "PARTIALLY_FILLED", "NEW"} : Finish(x)
    BY <1>3 DEF FinishMarket, FinishFilled, FinishExpired, FinishResting
  <2> QED
    BY <1>0, <2>1 DEF Finish, TypeOK
<1>4. CASE \E a \in OrderIds : Cancel(a)
  BY <1>0, <1>4 DEF Cancel, TypeOK
<1>5. CASE UNCHANGED vars
  BY <1>0, <1>5 DEF vars, orderVars, TypeOK
<1> QED
  BY <1>1, <1>2, <1>3, <1>4, <1>5 DEF Next, Work

\* An order starts only by being submitted.
LEMMA OnlySubmitStarts ==
  ASSUME IInv, Work \/ \E a \in OrderIds : Cancel(a)
  PROVE  \A o \in OrderIds : status[o] = "NONE" => status'[o] = "NONE"
<1>0. TypeOK /\ BookConsistent /\ TakerFresh
  BY DEF IInv
<1>1. \A a \in active : a \in OrderIds /\ status[a] # "NONE"
  BY <1>0 DEF BookConsistent, Open, TypeOK
<1>2. CASE Fill
  <2>1. PICK m \in OrderIds, p \in Prices, qty \in Nat \ {0} : FillOf(m, p, qty)
    BY <1>2, FillHas
  <2>2. m \in active /\ \E x : status' = [status EXCEPT ![m] = x]
    BY <2>1 DEF FillOf
  <2> QED
    BY <1>0, <1>1, <2>2 DEF TypeOK
<1>3. CASE FinishMarket \/ FinishFilled \/ FinishExpired \/ FinishResting
  <2>1. PICK final : Finish(final)
    BY <1>3 DEF FinishMarket, FinishFilled, FinishExpired, FinishResting
  <2>2. status[taker] = "NEW" /\ status' = [status EXCEPT ![taker] = final]
    BY <1>0, <2>1 DEF Finish, TakerFresh
  <2> QED
    BY <1>0, <2>2 DEF TypeOK
<1>4. ASSUME NEW a \in OrderIds, Cancel(a)
      PROVE  \A o \in OrderIds : status[o] = "NONE" => status'[o] = "NONE"
  BY <1>0, <1>1, <1>4 DEF Cancel, TypeOK
<1> QED
  BY <1>2, <1>3, <1>4 DEF Work

IsLimitBuy(o) == req[o].type = "LIMIT" /\ req[o].side = "BUY"

\* What a limit buy has paid and what its remaining quantity would cost at its
\* own limit are not more than the whole would have cost there.
BuysCovered ==
  \A o \in OrderIds :
    status[o] # "NONE" /\ IsLimitBuy(o) =>
      SumFunctionOnSet(Costs, OwnTrades(o)) + PriceQtyToQuote(req[o].price, rem[o])
        <= PriceQtyToQuote(req[o].price, req[o].qty)

\* A new order has paid nothing yet.
LEMMA ArriveBuys ==
  ASSUME IInv, BuysCovered, NEW a \in OrderIds, NEW r \in Requests, Arrive(a, r),
         \E x \in {"NEW", "REJECTED"} : status' = [status EXCEPT ![a] = x]
  PROVE  BuysCovered'
<1>1. TypeOK /\ TradesSound
  BY DEF IInv
<1>2. SUFFICES ASSUME NEW o \in OrderIds, status'[o] # "NONE", IsLimitBuy(o)'
               PROVE  SumFunctionOnSet(Costs, OwnTrades(o))' + PriceQtyToQuote(req'[o].price, rem'[o])
                        <= PriceQtyToQuote(req'[o].price, req'[o].qty)
  BY DEF BuysCovered
<1>3. SumFunctionOnSet(Costs, OwnTrades(o))' = SumFunctionOnSet(Costs, OwnTrades(o))
  BY NoMoreTrades DEF Arrive
<1>4. CASE o = a
  <2>1. SumFunctionOnSet(Costs, OwnTrades(o))' = 0
    BY <1>1, <1>3, <1>4, NoTradesYet DEF Arrive
  <2>2. req'[o] = r /\ rem'[o] = r.qty
    BY <1>1, <1>4 DEF Arrive, TypeOK
  <2>3. r.price \in Prices /\ r.qty \in Int
    BY <1>2, <2>2, RequestFacts DEF IsLimitBuy
  <2>4. r.price \in Int
    BY <2>3, PriceFacts
  <2>5. PriceQtyToQuote(r.price, r.qty) \in Nat
    BY <2>3, <2>4, QuoteNat
  <2> QED
    BY <2>1, <2>2, <2>5
<1>5. CASE o # a
  <2>1. req'[o] = req[o] /\ rem'[o] = rem[o] /\ status'[o] = status[o]
    BY <1>1, <1>5 DEF Arrive, TypeOK
  <2>2. IsLimitBuy(o)
    BY <1>2, <2>1 DEF IsLimitBuy
  <2> QED
    BY <1>2, <1>3, <2>1, <2>2 DEF BuysCovered
<1> QED
  BY <1>4, <1>5

\* A fill moves some of the remaining quantity to the trades, at the limit or
\* better, and the two roundings down do not add up to more than one.
LEMMA FillBuys == ASSUME IInv, BuysCovered, Fill PROVE BuysCovered'
<1>1. PICK m \in OrderIds, p \in Prices, qty \in Nat \ {0} : FillOf(m, p, qty)
  BY FillHas
<1> DEFINE t == [maker |-> m, taker |-> taker, price |-> p, qty |-> qty]
<1>2. /\ TypeOK /\ BookConsistent /\ Accounting /\ IInv'
      /\ taker \in OrderIds /\ m \in active /\ m # taker /\ req' = req
      /\ status[taker] = "NEW" /\ Crosses(req[taker], p) /\ p = req[m].price
      /\ rem' = [rem EXCEPT ![taker] = @ - qty, ![m] = @ - qty]
  <2>1. <<Opposite(req[taker].side), p>> = SlotOf(m)
    BY <1>1 DEF FillOf
  <2>2. p = req[m].price
    BY <2>1 DEF SlotOf
  <2>3. IInv'
    BY FillInv
  <2> QED
    BY <1>1, <2>2, <2>3 DEF FillOf, IInv
<1>3. t \in Trade /\ trades' = Append(trades, t)
  BY <1>1, <1>2 DEF Trade, FillOf
<1>4. SUFFICES ASSUME NEW o \in OrderIds, status'[o] # "NONE", IsLimitBuy(o)'
               PROVE  SumFunctionOnSet(Costs, OwnTrades(o))' + PriceQtyToQuote(req'[o].price, rem'[o])
                        <= PriceQtyToQuote(req'[o].price, req'[o].qty)
  BY DEF BuysCovered
<1> DEFINE C == SumFunctionOnSet(Costs, OwnTrades(o))
           D == SumFunctionOnSet(Costs, OwnTrades(o))'
           c == PriceQtyToQuote(p, qty)
           P == req[o].price
           left == rem'[o]
<1>5. D = C + IF o \in {m, taker} THEN c ELSE 0
  <2>1. t.maker = m /\ t.taker = taker /\ t.price = p /\ t.qty = qty
    OBVIOUS
  <2> HIDE DEF t
  <2> QED
    BY <1>2, <1>3, <2>1, OneMoreTrade
<1>6. IsLimitBuy(o) /\ status[o] # "NONE"
  <2>1. IsLimitBuy(o)
    BY <1>2, <1>4 DEF IsLimitBuy
  <2>2. status[m] # "NONE"
    BY <1>2 DEF BookConsistent, Open
  <2>3. \E x : status' = [status EXCEPT ![m] = x]
    BY <1>1 DEF FillOf
  <2> QED
    BY <1>2, <1>4, <2>1, <2>2, <2>3 DEF TypeOK
<1>7. req[o] \in Requests /\ P \in Prices /\ ~IsMarketBuy(o)
  <2>1. req[o] \in Requests
    BY <1>2, <1>6 DEF Accounting
  <2> QED
    BY <1>6, <2>1, RequestFacts DEF IsLimitBuy, IsMarketBuy
<1>8. P \in Nat \ {0} /\ p \in Nat \ {0} /\ P \in Int
  BY <1>7, PriceFacts
<1>9. left \in Nat /\ rem[o] \in Int /\ rem'[o] = rem[o] - IF o \in {m, taker} THEN qty ELSE 0
  <2>1. rem \in [OrderIds -> Int]
    BY <1>2 DEF TypeOK
  <2>2. rem'[o] = rem[o] - IF o \in {m, taker} THEN qty ELSE 0
    BY <1>2, <2>1
  <2>3. ~IsMarketBuy(o)'
    BY <1>2, <1>7 DEF IsMarketBuy
  <2>4. rem'[o] >= 0 /\ rem' \in [OrderIds -> Int]
    BY <1>2, <1>4, <2>3 DEF IInv, Accounting, TypeOK
  <2> QED
    BY <2>1, <2>2, <2>4
<1>10. C + PriceQtyToQuote(P, rem[o]) <= PriceQtyToQuote(P, req[o].qty)
  BY <1>6 DEF BuysCovered
<1>11. /\ C \in Int /\ c \in Nat /\ PriceQtyToQuote(P, rem[o]) \in Nat
       /\ PriceQtyToQuote(P, left) \in Nat /\ PriceQtyToQuote(P, req[o].qty) \in Nat
  <2>1. C \in Int
    BY <1>2, OwnFacts
  <2>2. req[o].qty \in Int /\ qty \in Int /\ p \in Int /\ left \in Int
    BY <1>7, <1>8, <1>9, RequestFacts
  <2> HIDE DEF C, P, left
  <2>3. /\ PriceQtyToQuote(p, qty) \in Nat /\ PriceQtyToQuote(P, rem[o]) \in Nat
        /\ PriceQtyToQuote(P, left) \in Nat /\ PriceQtyToQuote(P, req[o].qty) \in Nat
    BY <1>8, <1>9, <2>2, QuoteNat
  <2> QED
    BY <2>1, <2>3
<1>12. ASSUME o \in {m, taker}
       PROVE  c + PriceQtyToQuote(P, left) <= PriceQtyToQuote(P, rem[o])
  <2>1. p <= P
    BY <1>2, <1>6, <1>8, <1>12 DEF Crosses, IsLimitBuy
  <2>2. rem[o] = qty + left
    BY <1>9, <1>12
  <2> HIDE DEF c, P, left
  <2>3. PriceQtyToQuote(p, qty) + PriceQtyToQuote(P, left) <= PriceQtyToQuote(P, qty + left)
    BY <1>8, <1>9, <2>1, QuoteSplits
  <2> QED
    BY <2>2, <2>3 DEF c
<1>13. req'[o] = req[o]
  BY <1>2
<1> HIDE DEF C, D, c, P, left
<1>14. CASE o \in {m, taker}
  <2>1. D + PriceQtyToQuote(P, left) <= PriceQtyToQuote(P, req[o].qty)
    BY <1>5, <1>10, <1>11, <1>12, <1>14
  <2> QED
    BY <1>13, <2>1 DEF D, P, left
<1>15. CASE o \notin {m, taker}
  <2>1. D = C /\ left = rem[o]
    BY <1>5, <1>9, <1>11, <1>15 DEF left
  <2>2. D + PriceQtyToQuote(P, left) <= PriceQtyToQuote(P, req[o].qty)
    BY <1>10, <2>1
  <2> QED
    BY <1>13, <2>2 DEF D, P, left
<1> QED
  BY <1>14, <1>15

\* A step keeps what buyers pay within what was asked.
LEMMA NextBuys == IInv /\ BuysCovered /\ [Next]_vars => BuysCovered'
<1> SUFFICES ASSUME IInv, BuysCovered, [Next]_vars PROVE BuysCovered'
  OBVIOUS
<1>0. TypeOK /\ BookConsistent /\ TakerFresh
  BY DEF IInv
<1>1. CASE Submit
  <2>1. PICK a \in OrderIds, r \in Requests : SubmitAccepted(a, r) \/ SubmitRejected(a, r)
    BY <1>1 DEF Submit
  <2>2. Arrive(a, r) /\ \E x \in {"NEW", "REJECTED"} : status' = [status EXCEPT ![a] = x]
    BY <2>1 DEF SubmitAccepted, SubmitRejected
  <2> QED
    BY <2>2, ArriveBuys
<1>2. CASE Fill
  BY <1>2, FillBuys
<1>3. ASSUME UNCHANGED <<req, rem, trades>>,
             \A o \in OrderIds : status'[o] # "NONE" => status[o] # "NONE"
      PROVE  BuysCovered'
  <2> SUFFICES ASSUME NEW o \in OrderIds, status'[o] # "NONE", IsLimitBuy(o)'
               PROVE  SumFunctionOnSet(Costs, OwnTrades(o))' + PriceQtyToQuote(req'[o].price, rem'[o])
                        <= PriceQtyToQuote(req'[o].price, req'[o].qty)
    BY DEF BuysCovered
  <2>1. SumFunctionOnSet(Costs, OwnTrades(o))' = SumFunctionOnSet(Costs, OwnTrades(o))
    BY <1>3, NoMoreTrades
  <2>2. IsLimitBuy(o)
    BY <1>3 DEF IsLimitBuy
  <2> QED
    BY <1>3, <2>1, <2>2 DEF BuysCovered
<1>4. CASE FinishMarket \/ FinishFilled \/ FinishExpired \/ FinishResting
  <2>1. PICK final : Finish(final)
    BY <1>4 DEF FinishMarket, FinishFilled, FinishExpired, FinishResting
  <2>2. taker \in OrderIds /\ status[taker] = "NEW"
    BY <1>0, <2>1 DEF Finish, TypeOK, TakerFresh
  <2> QED
    BY <1>0, <1>3, <2>1, <2>2 DEF Finish, TypeOK
<1>5. ASSUME NEW a \in OrderIds, Cancel(a) PROVE BuysCovered'
  <2>1. status[a] # "NONE"
    BY <1>0, <1>5 DEF Cancel, BookConsistent, Open
  <2>2. status' = [status EXCEPT ![a] = "CANCELED"] /\ UNCHANGED <<req, rem, trades>>
    BY <1>5 DEF Cancel
  <2> QED
    BY <1>0, <1>3, <2>1, <2>2 DEF TypeOK
<1>6. CASE UNCHANGED vars
  BY <1>3, <1>6 DEF vars, orderVars
<1> QED
  BY <1>1, <1>2, <1>4, <1>5, <1>6 DEF Next, Work

\* No buyer ever pays more than the budget, or than the whole order costs at
\* its limit: rounding each trade on its own only ever saves.
LEMMA BuyersPayWithin ==
  ASSUME IInv, TradesTold, BuysCovered,
         NEW o \in OrderIds, status[o] # "NONE", req[o].side = "BUY"
  PROVE  SumFunctionOnSet(Costs, OwnTrades(o)) <=
           IF IsMarketBuy(o) THEN req[o].quote ELSE PriceQtyToQuote(req[o].price, req[o].qty)
<1> DEFINE C == SumFunctionOnSet(Costs, OwnTrades(o))
<1>1. TypeOK /\ Accounting
  BY DEF IInv
<1>2. C \in Int
  BY <1>1, OwnFacts
<1>3. req[o] \in Requests /\ remQuote[o] >= 0 /\ remQuote[o] \in Int /\ rem[o] \in Int
  BY <1>1 DEF Accounting, TypeOK
<1>4. req[o].quote \in Int /\ req[o].qty \in Int
  BY <1>3, RequestFacts
<1>5. CASE IsMarketBuy(o)
  <2>1. remQuote[o] = req[o].quote - C
    BY <1>5 DEF TradesTold
  <2> HIDE DEF C
  <2>2. C <= req[o].quote
    BY <1>2, <1>3, <1>4, <2>1
  <2> QED
    BY <1>5, <2>2 DEF C
<1>6. CASE ~IsMarketBuy(o)
  <2>1. IsLimitBuy(o) /\ req[o].price \in Prices
    BY <1>3, <1>6, RequestFacts DEF IsMarketBuy, IsLimitBuy
  <2>2. req[o].price \in Int
    BY <2>1, PriceFacts
  <2>3. PriceQtyToQuote(req[o].price, rem[o]) \in Nat /\ PriceQtyToQuote(req[o].price, req[o].qty) \in Nat
    BY <1>3, <1>4, <2>2, QuoteNat
  <2>4. C + PriceQtyToQuote(req[o].price, rem[o]) <= PriceQtyToQuote(req[o].price, req[o].qty)
    BY <2>1 DEF BuysCovered
  <2> HIDE DEF C
  <2>5. C <= PriceQtyToQuote(req[o].price, req[o].qty)
    BY <1>2, <2>3, <2>4
  <2> QED
    BY <1>6, <2>5 DEF C
<1> QED
  BY <1>5, <1>6

------------------------------------------------------------------------------
(***************************************************************************)
(* The book after a submission: no bid that can be found reaches an ask.   *)
(***************************************************************************)

\* The prices of the levels the map holds; at any time there are finitely
\* many, so that a side of the book has a best price unless none is visible.
Known(side) == {p \in Prices : <<side, p>> \in mapped}

FewLevels == \A side \in Sides : IsFiniteSet(Known(side))

\* VisibleUncrossed holds during a submission, too: the taker is not in the
\* book yet.
Uncrossed == \A bid \in Visible("BUY"), ask \in Visible("SELL") : bid < ask

\* A level with a total has an oldest order, which is active and not used up.
LEMMA HeadFacts ==
  ASSUME IInv, NEW s \in Slots, total[s] # 0
  PROVE  /\ total[s] \in Nat \ {0}
         /\ Head(queue[s]) \in active /\ rem[Head(queue[s])] \in Nat \ {0}
<1>1. TypeOK /\ BookConsistent /\ BookSums
  BY DEF IInv
<1> DEFINE q == queue[s]
           t == total[s]
<1>2. q \in Seq(OrderIds) /\ Summed(q, rem, t) /\ t # 0
  BY <1>1, QueueFacts DEF BookSums
<1> HIDE DEF q, t
<1>3. t \in Nat /\ q # <<>>
  BY <1>2, SummedSign
<1>4. 1 \in DOMAIN q /\ Head(q) = q[1]
  BY <1>2, <1>3, EmptySeq, LenProperties
<1> USE DEF q, t
<1>5. Head(queue[s]) \in active
  BY <1>1, <1>4 DEF BookConsistent
<1>6. rem[Head(queue[s])] \in Nat \ {0}
  BY <1>1, <1>5, ActiveFacts
<1> QED
  BY <1>2, <1>3, <1>5, <1>6

\* The total of a level is never negative.
LEMMA TotalNat ==
  ASSUME IInv, NEW s \in Slots
  PROVE  total[s] \in Nat
<1>1. total[s] # 0 => total[s] \in Nat
  BY HeadFacts
<1> QED
  BY <1>1

\* Unless no price is visible on a side there is a best one.
LEMMA BestExists ==
  ASSUME IInv, FewLevels, NEW side \in Sides, Visible(side) # {}
  PROVE  \E b \in Best(side) : /\ b \in Visible(side)
                               /\ \A q \in Visible(side) \ {b} : Better(side, b, q)
<1> DEFINE V == Visible(side)
<1>1. V \subseteq Known(side)
  BY DEF Visible, Known, IInv, TypeOK
<1>2. IsFiniteSet(Known(side))
  BY DEF FewLevels
<1>3. V \subseteq Int
  BY PriceFacts DEF Visible
<1>4. IsFiniteSet(V) /\ V # {}
  BY <1>1, <1>2, FS_Subset
<1> HIDE DEF V
<1>5. /\ \E m \in V : \A q \in V \ {m} : m < q
      /\ \E m \in V : \A q \in V \ {m} : m > q
  BY <1>3, <1>4, FiniteHasEnds
<1>6. \E b \in V : \A q \in V \ {b} : Better(side, b, q)
  <2>1. CASE side = "BUY"
    <3>1. \A b, q : Better(side, b, q) <=> b > q
      BY <2>1 DEF Better
    <3> QED
      BY <1>5, <3>1
  <2>2. CASE side # "BUY"
    <3>1. \A b, q : Better(side, b, q) <=> b < q
      BY <2>2 DEF Better
    <3> QED
      BY <1>5, <3>1
  <2> QED
    BY <2>1, <2>2
<1>7. PICK b \in V : \A q \in V \ {b} : Better(side, b, q)
  BY <1>6
<1>8. b \in Best(side)
  BY <1>7 DEF V, Best
<1> QED
  BY <1>7, <1>8 DEF V

\* A limit order that has something left when match() stops meets no price it
\* would trade at: the best price it can see is outside its limit.
LEMMA NothingLeft ==
  ASSUME IInv, FewLevels, taker \in OrderIds, req[taker].type = "LIMIT",
         rem[taker] # 0, Matchable(taker) = {},
         NEW q \in Visible(Opposite(req[taker].side))
  PROVE  ~Crosses(req[taker], q)
<1> DEFINE side == Opposite(req[taker].side)
<1>0. TypeOK /\ Accounting /\ TakerFresh
  BY DEF IInv
<1>1. req[taker] \in Requests /\ ~IsMarketBuy(taker) /\ rem[taker] \in Int /\ rem[taker] >= 0
  <2>1. status[taker] # "NONE"
    BY <1>0, EngineAssumption DEF TakerFresh
  <2> QED
    BY <1>0, <2>1 DEF Accounting, TypeOK, IsMarketBuy
<1>2. req[taker].side \in Sides /\ side \in Sides /\ req[taker].price \in Prices
  BY <1>1, RequestFacts DEF Opposite, Sides
<1>3. SUFFICES ASSUME Crosses(req[taker], q) PROVE FALSE
  OBVIOUS
<1>4. PICK b \in Best(side) : /\ b \in Visible(side)
                              /\ \A r \in Visible(side) \ {b} : Better(side, b, r)
  BY <1>2, BestExists
<1>5. b \in Prices /\ total[side, b] # 0 /\ <<side, b>> \in Slots
  BY <1>2, <1>4 DEF Visible, Slots
<1>6. b = q \/ Better(side, b, q)
  BY <1>4
<1>7. Crosses(req[taker], b)
  <2>1. b \in Int /\ q \in Int /\ req[taker].price \in Int
    BY <1>2, <1>5, PriceFacts DEF Visible
  <2>2. CASE req[taker].side = "BUY"
    BY <1>3, <1>6, <2>1, <2>2 DEF Better, Opposite, Crosses
  <2>3. CASE req[taker].side = "SELL"
    BY <1>3, <1>6, <2>1, <2>3 DEF Better, Opposite, Crosses
  <2> QED
    BY <1>2, <2>2, <2>3 DEF Sides
<1> DEFINE m == Head(queue[side, b])
<1>8. rem[m] \in Nat \ {0}
  BY <1>5, HeadFacts
<1>9. FillQty(taker, m, b) > 0 /\ ~Exhausted(taker)
  <2> HIDE DEF m
  <2> QED
    BY <1>1, <1>8 DEF FillQty, Exhausted
<1>10. b \in Matchable(taker)
  BY <1>4, <1>7, <1>9 DEF Matchable
<1> QED
  BY <1>10

\* The map gains at most one level in a step.
LEMMA NextFew == IInv /\ FewLevels /\ [Next]_vars => FewLevels'
<1> SUFFICES ASSUME IInv, FewLevels, [Next]_vars, NEW side \in Sides
             PROVE  IsFiniteSet(Known(side)')
  BY DEF FewLevels
<1>1. \E s : mapped' \subseteq mapped \cup {s}
  <2>1. CASE Submit
    BY <2>1 DEF Submit, SubmitAccepted, SubmitRejected, Arrive, bookVars
  <2>2. CASE Fill
    BY <2>2 DEF Fill
  <2>3. CASE FinishMarket \/ FinishFilled \/ FinishExpired
    BY <2>3 DEF FinishMarket, FinishFilled, FinishExpired, DropTaker
  <2>4. CASE FinishResting
    BY <2>4 DEF FinishResting, Rest
  <2>5. CASE \E o \in OrderIds : Cancel(o)
    BY <2>5 DEF Cancel
  <2>6. CASE UNCHANGED vars
    BY <2>6 DEF vars, bookVars
  <2> QED
    BY <2>1, <2>2, <2>3, <2>4, <2>5, <2>6 DEF Next, Work
<1>2. PICK s : mapped' \subseteq mapped \cup {s}
  BY <1>1
<1>3. Known(side)' \subseteq Known(side) \cup {s[2]}
  <2>1. \A p : <<side, p>> = s => s[2] = p
    OBVIOUS
  <2> QED
    BY <1>2, <2>1 DEF Known
<1>4. IsFiniteSet(Known(side))
  BY DEF FewLevels
<1>5. IsFiniteSet(Known(side) \cup {s[2]})
  BY <1>4, FS_AddElement
<1> QED
  BY <1>3, <1>5, FS_Subset

\* A cancellation makes no level visible.
LEMMA CancelShrinks ==
  ASSUME IInv, NEW o \in OrderIds, Cancel(o), NEW l \in Slots, l \in heap', total'[l] # 0
  PROVE  l \in heap /\ total[l] # 0
<1> DEFINE s    == SlotOf(o)
           t    == total[s]
           gone == t - rem[o] <= 0 \/ Len(queue[s]) = 1
<1>1. /\ o \in active
      /\ total' = [total EXCEPT ![s] = IF gone THEN 0 ELSE @ - rem[o]]
      /\ heap' = IF gone THEN heap \ {s} ELSE heap
  BY DEF Cancel
<1>2. s \in Slots /\ rem[o] \in Nat \ {0}
  BY <1>1, ActiveFacts DEF IInv
<1>3. t \in Nat
  BY <1>2, TotalNat
<1>4. t = 0 => t - rem[o] <= 0
  <2> HIDE DEF t
  <2> QED
    BY <1>2, <1>3
<1>5. t = 0 => gone
  BY <1>4
<1>6. total \in [Slots -> Int]
  BY DEF IInv, TypeOK
<1> HIDE DEF s, gone
<1>7. l \in heap
  BY <1>1
<1>8. l # s => total'[l] = total[l]
  BY <1>1, <1>6
<1>9. t = 0 => total'[s] = 0
  BY <1>1, <1>2, <1>5, <1>6
<1> QED
  BY <1>7, <1>8, <1>9

\* Only an order that starts to rest makes a price visible.
LEMMA VisibleShrinks ==
  ASSUME IInv, NEW side \in Sides, Submit \/ Fill \/ FinishMarket \/ FinishFilled
           \/ FinishExpired \/ (\E o \in OrderIds : Cancel(o)) \/ UNCHANGED vars
  PROVE  Visible(side)' \subseteq Visible(side)
<1>0. TypeOK /\ BookConsistent
  BY DEF IInv
<1> SUFFICES ASSUME NEW p \in Prices, <<side, p>> \in heap', total'[side, p] # 0
             PROVE  <<side, p>> \in heap /\ total[side, p] # 0
  BY DEF Visible
<1>s. <<side, p>> \in Slots
  BY DEF Slots
<1>1. CASE Submit
  BY <1>1 DEF Submit, SubmitAccepted, SubmitRejected, Arrive, bookVars
<1>2. CASE Fill
  <2>1. PICK m \in OrderIds, b \in Prices, qty \in Nat \ {0} : FillOf(m, b, qty)
    BY <1>2, FillHas
  <2>2. <<side, p>> \in heap
    BY <2>1 DEF FillOf, HeapAfterMatch
  <2> DEFINE s == <<Opposite(req[taker].side), b>>
  <2>3. total' = [total EXCEPT ![s] = @ - qty] /\ total[s] # 0
    BY <2>1 DEF FillOf, Best, Visible
  <2> HIDE DEF s
  <2>4. total[side, p] # 0
    <3>1. <<side, p>> # s => total'[side, p] = total[side, p]
      BY <1>0, <1>s, <2>3 DEF TypeOK
    <3> QED
      BY <2>3, <3>1
  <2> QED
    BY <2>2, <2>4
<1>3. CASE FinishMarket \/ FinishFilled \/ FinishExpired
  BY <1>3 DEF FinishMarket, FinishFilled, FinishExpired, DropTaker, HeapAfterMatch
<1>4. CASE \E o \in OrderIds : Cancel(o)
  BY <1>4, <1>s, CancelShrinks
<1>5. CASE UNCHANGED vars
  BY <1>5 DEF vars, bookVars
<1> QED
  BY <1>1, <1>2, <1>3, <1>4, <1>5

\* An order that starts to rest makes its own price visible and no other, and
\* no price on the other side reaches it.
LEMMA RestingUncrossed ==
  ASSUME IInv, FewLevels, Uncrossed, FinishResting
  PROVE  Uncrossed'
<1>0. TypeOK /\ TakerFresh /\ Accounting
  BY DEF IInv
<1> DEFINE mine  == req[taker].side
           p0    == req[taker].price
           other == Opposite(mine)
<1>1. /\ taker # NoOrder /\ Matchable(taker) = {}
      /\ req[taker].type = "LIMIT" /\ rem[taker] # 0
      /\ total' = [total EXCEPT ![<<mine, p0>>] = @ + rem[taker]]
      /\ heap' = HeapAfterMatch(taker) \cup ({<<mine, p0>>} \ mapped)
  BY DEF FinishResting, Finish, Rest, SlotOf
<1>2. taker \in OrderIds /\ req[taker] \in Requests
  BY <1>0, <1>1 DEF TypeOK, TakerFresh, Accounting
<1>3. mine \in Sides /\ p0 \in Prices /\ other \in Sides /\ mine # other
  BY <1>1, <1>2, RequestFacts DEF Opposite, Sides
<1>4. heap' \subseteq heap \cup {<<mine, p0>>}
  BY <1>1 DEF HeapAfterMatch
<1>5. \A s \in Slots : s # <<mine, p0>> => total'[s] = total[s]
  BY <1>0, <1>1 DEF TypeOK
<1>6. ASSUME NEW side \in Sides, NEW p \in Visible(side)'
      PROVE  p \in Visible(side) \/ (side = mine /\ p = p0)
  <2>1. p \in Prices /\ <<side, p>> \in heap' /\ total'[side, p] # 0 /\ <<side, p>> \in Slots
    BY <1>6 DEF Visible, Slots
  <2>2. CASE <<side, p>> = <<mine, p0>>
    BY <2>2
  <2>3. CASE <<side, p>> # <<mine, p0>>
    <3>1. <<side, p>> \in heap /\ total[side, p] # 0
      BY <1>4, <1>5, <2>1, <2>3
    <3> QED
      BY <2>1, <3>1 DEF Visible
  <2> QED
    BY <2>2, <2>3
<1>7. \A q \in Visible(other) : ~Crosses(req[taker], q)
  BY <1>1, <1>2, NothingLeft
<1>8. \A q \in Visible("BUY") \cup Visible("SELL") : q \in Int
  BY PriceFacts DEF Visible
<1>9. p0 \in Int
  BY <1>3, PriceFacts
<1>10. SUFFICES ASSUME NEW bid \in Visible("BUY")', NEW ask \in Visible("SELL")'
                PROVE  bid < ask
  BY DEF Uncrossed
<1>11. "BUY" \in Sides /\ "SELL" \in Sides
  BY DEF Sides
<1>12. CASE mine = "BUY"
  <2>1. ask \in Visible("SELL") /\ (bid \in Visible("BUY") \/ bid = p0)
    BY <1>6, <1>11, <1>12
  <2>2. ~Crosses(req[taker], ask)
    BY <1>7, <1>12, <2>1 DEF Opposite
  <2>3. p0 < ask
    BY <1>8, <1>9, <1>12, <2>1, <2>2 DEF Crosses
  <2> QED
    BY <2>1, <2>3 DEF Uncrossed
<1>13. CASE mine = "SELL"
  <2>1. bid \in Visible("BUY") /\ (ask \in Visible("SELL") \/ ask = p0)
    BY <1>6, <1>11, <1>13
  <2>2. ~Crosses(req[taker], bid)
    BY <1>7, <1>13, <2>1 DEF Opposite
  <2>3. bid < p0
    BY <1>8, <1>9, <1>13, <2>1, <2>2 DEF Crosses
  <2> QED
    BY <2>1, <2>3 DEF Uncrossed
<1> QED
  BY <1>3, <1>12, <1>13 DEF Sides

\* Every step keeps the book uncrossed.
LEMMA NextUncrossed == IInv /\ FewLevels /\ Uncrossed /\ [Next]_vars => Uncrossed'
<1> SUFFICES ASSUME IInv, FewLevels, Uncrossed, [Next]_vars PROVE Uncrossed'
  OBVIOUS
<1>1. CASE FinishResting
  BY <1>1, RestingUncrossed
<1>2. CASE Submit \/ Fill \/ FinishMarket \/ FinishFilled
             \/ FinishExpired \/ (\E o \in OrderIds : Cancel(o)) \/ UNCHANGED vars
  <2>1. "BUY" \in Sides /\ "SELL" \in Sides
    BY DEF Sides
  <2>2. Visible("BUY")' \subseteq Visible("BUY") /\ Visible("SELL")' \subseteq Visible("SELL")
    BY <1>2, <2>1, VisibleShrinks
  <2> QED
    BY <2>2 DEF Uncrossed
<1> QED
  BY <1>1, <1>2 DEF Next, Work

\* At the start nothing is visible and no level is known.
LEMMA InitUncrossed == Init => FewLevels /\ Uncrossed
<1> SUFFICES ASSUME Init PROVE FewLevels /\ Uncrossed
  OBVIOUS
<1>1. \A side \in Sides : Known(side) = {} /\ Visible(side) = {}
  BY DEF Init, Known, Visible
<1>2. FewLevels
  BY <1>1, FS_EmptySet DEF FewLevels
<1>3. Uncrossed
  BY <1>1 DEF Uncrossed, Sides
<1> QED
  BY <1>2, <1>3

\* match() never stops while it could go on: once a submission has ended, no
\* bid best() can find reaches an ask best() can find.
THEOREM VisibleUncrossedSafe == Spec => []VisibleUncrossed
<1>1. Uncrossed => VisibleUncrossed
  BY DEF Uncrossed, VisibleUncrossed
<1> QED
  BY <1>1, InitUncrossed, NextFew, NextUncrossed, Invariance, PTL DEF Spec

------------------------------------------------------------------------------
(***************************************************************************)
(* FOK: the check before the submission keeps its word during it.          *)
(***************************************************************************)

\* The visible prices r may trade at on the book of a side, and the totals of
\* that side by price.
Within(side, r)   == {p \in Visible(side) : Crosses(r, p)}
TotalsOf(side) == [p \in Prices |-> total[side, p]]

\* There are finitely many such prices, and each has a natural total.
LEMMA WithinFacts ==
  ASSUME IInv, FewLevels, NEW side \in Sides, NEW r
  PROVE  /\ IsFiniteSet(Within(side, r)) /\ Within(side, r) \subseteq Prices
         /\ \A p \in Prices : /\ <<side, p>> \in Slots
                              /\ TotalsOf(side)[p] = total[<<side, p>>] /\ total[<<side, p>>] \in Nat
<1>1. Within(side, r) \subseteq Known(side)
  BY DEF Within, Visible, Known, IInv, TypeOK
<1>2. IsFiniteSet(Known(side)) /\ Known(side) \subseteq Prices
  BY DEF FewLevels, Known
<1>3. \A p \in Prices : <<side, p>> \in Slots
  BY DEF Slots
<1>4. \A p \in Prices : total[<<side, p>>] \in Nat
  BY <1>3, TotalNat
<1>5. \A p \in Prices : TotalsOf(side)[p] = total[<<side, p>>]
  BY DEF TotalsOf
<1> QED
  BY <1>1, <1>2, <1>3, <1>4, <1>5, FS_Subset

\* canFullyFill looks at the levels of the map; if none of them is hidden
\* from best(), what it adds up is there for match() to find.
LEMMA FillableIsCovered ==
  ASSUME IInv, FewLevels, NEW r \in Requests, CanFullyFill(r), Hidden(Opposite(r.side)) = {}
  PROVE  r.qty <= SumFunctionOnSet(TotalsOf(Opposite(r.side)), Within(Opposite(r.side), r))
<1> DEFINE side == Opposite(r.side)
           I == {p \in Prices : /\ <<side, p>> \in mapped
                                /\ total[<<side, p>>] > 0
                                /\ Crosses(r, p)}
           f == [p \in I |-> total[<<side, p>>]]
           g == TotalsOf(side)
           V == Within(side, r)
<1>1. side \in Sides
  BY RequestFacts DEF Opposite, Sides
<1>2. /\ IsFiniteSet(V) /\ V \subseteq Prices
      /\ \A p \in Prices : g[p] = total[<<side, p>>] /\ total[<<side, p>>] \in Nat
  BY <1>1, WithinFacts
<1>3. SumFunctionOnSet(f, I) >= r.qty
  BY DEF CanFullyFill
<1>4. I = V
  <2>1. heap \subseteq mapped
    BY DEF IInv, TypeOK
  <2>2. \A p \in Prices : total[<<side, p>>] > 0 => <<side, p>> \in heap
    BY DEF Hidden
  <2>3. \A p \in Prices : total[<<side, p>>] # 0 <=> total[<<side, p>>] > 0
    <3> HIDE DEF g, V
    <3> QED
      BY <1>2
  <2> HIDE DEF side
  <2> QED
    BY <2>1, <2>2, <2>3 DEF Within, Visible
<1>5. \A p \in V : f[p] = g[p] /\ g[p] \in Int
  <2>1. \A p \in I : f[p] = total[<<side, p>>]
    OBVIOUS
  <2> HIDE DEF f, g, I, V
  <2>2. SUFFICES ASSUME NEW p \in V PROVE f[p] = g[p] /\ g[p] \in Int
    OBVIOUS
  <2>3. p \in I /\ p \in Prices
    BY <1>2, <1>4
  <2>4. f[p] = total[<<side, p>>] /\ g[p] = total[<<side, p>>] /\ total[<<side, p>>] \in Nat
    BY <1>2, <2>1, <2>3
  <2> QED
    BY <2>4
<1> HIDE DEF f, g, I, V
<1>6. SumFunctionOnSet(f, V) = SumFunctionOnSet(g, V) /\ SumFunctionOnSet(g, V) \in Int
  BY <1>2, <1>5, SumSame, SumType
<1>7. r.qty \in Int
  BY RequestFacts
<1>8. r.qty <= SumFunctionOnSet(g, V)
  BY <1>3, <1>4, <1>6, <1>7
<1> QED
  BY <1>8 DEF g, V

\* A fill takes as much from the levels the taker may use as from the taker.
LEMMA FillCovered ==
  ASSUME IInv, FewLevels, FOKCovered, Fill
  PROVE  FOKCovered'
<1>1. PICK m \in OrderIds, b \in Prices, qty \in Nat \ {0} : FillOf(m, b, qty)
  BY FillHas
<1>r. PICK r : r = req[taker]
  OBVIOUS
<1>s. PICK side : side = Opposite(r.side)
  OBVIOUS
<1> DEFINE s == <<side, b>>
<1>2. /\ taker \in OrderIds /\ m # taker /\ taker' = taker /\ req' = req
      /\ b \in Best(side) /\ Crosses(r, b)
      /\ rem' = [rem EXCEPT ![taker] = @ - qty, ![m] = @ - qty]
      /\ total' = [total EXCEPT ![s] = @ - qty]
      /\ heap' = HeapAfterMatch(taker)
  BY <1>1, <1>r, <1>s DEF FillOf
<1>3. /\ TypeOK /\ r \in Requests
      /\ rem \in [OrderIds -> Int] /\ total \in [Slots -> Int]
  <2>1. status[taker] # "NONE"
    BY <1>1 DEF FillOf
  <2> QED
    BY <1>2, <1>r, <2>1 DEF IInv, Accounting, TypeOK
<1>4. side \in Sides
  BY <1>3, <1>s, RequestFacts DEF Opposite, Sides
<1>5. b \in Visible(side) /\ <<side, b>> \in heap /\ total[<<side, b>>] # 0
  BY <1>2 DEF Best, Visible
\* The prices and totals before and after the fill.
<1>V. PICK V : V = Within(side, r)
  OBVIOUS
<1>W. PICK W : W = {p \in Prices : /\ <<side, p>> \in heap' /\ total'[<<side, p>>] # 0
                                   /\ Crosses(r, p)}
  OBVIOUS
<1>g. PICK g : g = TotalsOf(side)
  OBVIOUS
<1>h. PICK h : h = [p \in Prices |-> total'[<<side, p>>]]
  OBVIOUS
<1>6. SUFFICES ASSUME r.tif = "FOK",
                      \A p \in Prices : total'[<<side, p>>] > 0 => <<side, p>> \in heap'
               PROVE  rem'[taker] <= SumFunctionOnSet(h, W)
  <2>1. req'[taker'] = r /\ taker' = taker
    BY <1>2, <1>r
  <2>2. Hidden(side)' = {p \in Prices : total'[<<side, p>>] > 0 /\ <<side, p>> \notin heap'}
    BY DEF Hidden
  <2>3. {p \in Visible(side)' : Crosses(r, p)} = W
    BY <1>W DEF Visible
  <2>4. ASSUME r.tif = "FOK", Hidden(side)' = {}
        PROVE  rem'[taker] <= SumFunctionOnSet([p \in Prices |-> total'[<<side, p>>]],
                                {p \in Visible(side)' : Crosses(r, p)})
    BY <1>6, <1>h, <2>2, <2>3, <2>4
  <2> QED
    BY <1>s, <2>1, <2>4 DEF FOKCovered
<1>7. /\ IsFiniteSet(V) /\ V \subseteq Prices /\ b \in V
      /\ \A p \in Prices : /\ <<side, p>> \in Slots /\ g[p] = total[<<side, p>>]
                           /\ total[<<side, p>>] \in Nat
  <2>1. b \in Within(side, r)
    BY <1>2, <1>5 DEF Within
  <2> QED
    BY <1>4, <1>V, <1>g, <2>1, WithinFacts
<1>8. /\ h[b] = g[b] - qty
      /\ \A p \in Prices \ {b} : h[p] = g[p]
      /\ \A p \in Prices : h[p] = total'[<<side, p>>] /\ h[p] \in Int /\ g[p] \in Int
  <2>1. \A p \in Prices \ {b} : <<side, p>> # s
    OBVIOUS
  <2>2. /\ total'[s] = total[s] - qty
        /\ \A p \in Prices \ {b} : total'[<<side, p>>] = total[<<side, p>>]
    BY <1>2, <1>3, <1>7, <2>1
  <2> QED
    BY <1>h, <1>7, <2>2
<1>9. \A p \in Prices : total[<<side, p>>] > 0 => <<side, p>> \in heap
  <2>1. heap' \subseteq heap
    BY <1>2 DEF HeapAfterMatch
  <2>2. ASSUME NEW p \in Prices, total[<<side, p>>] > 0 PROVE <<side, p>> \in heap
    <3>1. CASE p = b
      BY <1>5, <3>1
    <3>2. CASE p # b
      <4>1. total'[<<side, p>>] = total[<<side, p>>]
        BY <1>7, <1>8, <3>2
      <4> QED
        BY <1>6, <2>1, <2>2, <4>1
    <3> QED
      BY <3>1, <3>2
  <2> QED
    BY <2>2
<1>10. rem[taker] <= SumFunctionOnSet(g, V)
  <2>1. taker # NoOrder
    BY <1>2, EngineAssumption
  <2>2. Hidden(side) = {}
    BY <1>9 DEF Hidden
  <2>3. V = {p \in Visible(side) : Crosses(r, p)} /\ g = [p \in Prices |-> total[<<side, p>>]]
    BY <1>V, <1>g DEF Within, TotalsOf
  <2> QED
    BY <1>6, <1>r, <1>s, <2>1, <2>2, <2>3 DEF FOKCovered
<1>11. W \subseteq V /\ \A p \in V \ W : h[p] = 0
  <2>1. heap' \subseteq heap /\ \A l \in heap : total[l] # 0 => l \in heap'
    BY <1>2 DEF HeapAfterMatch, Popped
  <2>2. V = {p \in Prices : <<side, p>> \in heap /\ total[<<side, p>>] # 0 /\ Crosses(r, p)}
    BY <1>V DEF Within, Visible
  <2>3. ASSUME NEW p \in W PROVE p \in V
    <3>1. p \in Prices /\ <<side, p>> \in heap /\ Crosses(r, p) /\ total'[<<side, p>>] # 0
      BY <1>W, <2>1, <2>3
    <3>2. total[<<side, p>>] # 0
      <4>1. CASE p = b
        BY <1>5, <4>1
      <4>2. CASE p # b
        BY <1>7, <1>8, <3>1, <4>2
      <4> QED
        BY <4>1, <4>2
    <3> QED
      BY <2>2, <3>1, <3>2
  <2>4. ASSUME NEW p \in V, h[p] # 0 PROVE p \in W
    <3>1. p \in Prices /\ <<side, p>> \in heap' /\ Crosses(r, p)
      BY <2>1, <2>2, <2>4
    <3>2. total'[<<side, p>>] # 0
      BY <1>8, <2>4, <3>1
    <3> QED
      BY <1>W, <3>1, <3>2
  <2> QED
    BY <2>3, <2>4
<1>12. rem'[taker] = rem[taker] - qty /\ rem[taker] \in Int
  BY <1>2, <1>3
<1>13. \A p \in V : g[p] \in Int /\ h[p] \in Int
  BY <1>7, <1>8
<1>14. SumFunctionOnSet(h, V) = SumFunctionOnSet(g, V) - g[b] + h[b]
  <2>1. \A p \in V \ {b} : h[p] = g[p]
    BY <1>7, <1>8
  <2>2. IsFiniteSet(V) /\ b \in V
    BY <1>7
  <2> QED
    BY <1>13, <2>1, <2>2, SumChange
<1>15. SumFunctionOnSet(h, V) = SumFunctionOnSet(h, W)
  <2>1. \A p \in W : h[p] \in Int /\ h[p] = h[p]
    BY <1>11, <1>13
  <2> QED
    BY <1>7, <1>11, <2>1, SumOfPart
<1>16. SumFunctionOnSet(g, V) \in Int /\ g[b] \in Int
  BY <1>7, <1>13, SumType
<1>17. rem[taker] - qty <= SumFunctionOnSet(g, V) - g[b] + (g[b] - qty)
  BY <1>10, <1>12, <1>16
<1> QED
  BY <1>8, <1>12, <1>14, <1>15, <1>17

\* A step keeps what canFullyFill has promised.
LEMMA NextCovered == IInv /\ FewLevels /\ FOKCovered /\ [Next]_vars => FOKCovered'
<1> SUFFICES ASSUME IInv, FewLevels, FOKCovered, [Next]_vars PROVE FOKCovered'
  OBVIOUS
<1>1. ASSUME NEW o \in OrderIds, NEW r \in Requests, SubmitAccepted(o, r)
      PROVE  FOKCovered'
  <2>s. PICK side : side = Opposite(r.side)
    OBVIOUS
  <2>1. /\ req' = [req EXCEPT ![o] = r] /\ rem' = [rem EXCEPT ![o] = r.qty] /\ taker' = o
        /\ UNCHANGED <<queue, total, mapped, heap>> /\ (r.tif = "FOK" => CanFullyFill(r))
    BY <1>1 DEF SubmitAccepted, Arrive, bookVars
  <2>2. req'[taker'] = r /\ rem'[taker'] = r.qty
    BY <2>1 DEF IInv, TypeOK
  <2>3. SUFFICES ASSUME r.tif = "FOK", Hidden(side)' = {}
                 PROVE  r.qty <= SumFunctionOnSet([p \in Prices |-> total'[<<side, p>>]],
                                   {p \in Visible(side)' : Crosses(r, p)})
    BY <2>2, <2>3, <2>s DEF FOKCovered
  <2>4. Visible(side)' = Visible(side) /\ Hidden(side)' = Hidden(side)
    BY <2>1 DEF Visible, Hidden
  <2>5. r.qty <= SumFunctionOnSet(TotalsOf(side), Within(side, r))
    BY <2>1, <2>3, <2>4, <2>s, FillableIsCovered
  <2> QED
    BY <2>1, <2>4, <2>5 DEF TotalsOf, Within
<1>2. ASSUME NEW o \in OrderIds, NEW r \in Requests, SubmitRejected(o, r)
      PROVE  FOKCovered'
  BY <1>2 DEF SubmitRejected, Arrive, FOKCovered
<1>3. CASE Fill
  BY <1>3, FillCovered
<1>4. CASE FinishMarket \/ FinishFilled \/ FinishExpired \/ FinishResting
  BY <1>4 DEF FinishMarket, FinishFilled, FinishExpired, FinishResting, Finish, FOKCovered
<1>5. CASE \E o \in OrderIds : Cancel(o)
  BY <1>5 DEF Cancel, FOKCovered
<1>6. CASE UNCHANGED vars
  <2>1. UNCHANGED <<req, rem, total, heap, taker>>
    BY <1>6 DEF vars, orderVars, bookVars
  <2> QED
    BY <2>1 DEF FOKCovered, Visible, Hidden
<1> QED
  BY <1>1, <1>2, <1>3, <1>4, <1>5, <1>6 DEF Next, Work, Submit

\* A FOK order that was let in can be filled to the end: as long as no level
\* has dropped out of the heap with orders in it, the levels the order may
\* trade with hold what it still wants.
THEOREM FOKCoveredSafe == Spec => []FOKCovered
<1>1. Init => FOKCovered
  BY DEF Init, FOKCovered
<1> QED
  BY <1>1, InitUncrossed, NextFew, NextCovered, Invariance, PTL DEF Spec


------------------------------------------------------------------------------
(***************************************************************************)
(* MatchingEngine implements TradingContract: under the mapping of         *)
(* MatchingEngine (phase for status, remQuote for budget) every step of    *)
(* the engine is one step of the contract, or a stutter when an order      *)
(* comes to rest.                                                          *)
(***************************************************************************)

\* The phase of an order, and how a status change shows.
LEMMA PhaseOf ==
  ASSUME NEW o \in OrderIds
  PROVE  /\ phase[o] = IF status[o] \in Open THEN "OPEN" ELSE status[o]
         /\ phase'[o] = IF status'[o] \in Open THEN "OPEN" ELSE status'[o]
  BY DEF phase

\* A status that is set shows as the phase it belongs to.
LEMMA PhaseSet ==
  ASSUME TypeOK, NEW o \in OrderIds, NEW x,
         status' = [status EXCEPT ![o] = x]
  PROVE  phase' = [phase EXCEPT ![o] = IF x \in Open THEN "OPEN" ELSE x]
  BY DEF phase, TypeOK

\* Both start with no order.
LEMMA RefInit == Init => Contract!Init
  BY DEF Init, Contract!Init, phase, Open

\* A new order is taken, and a FOK order may be turned away.
LEMMA RefSubmit ==
  ASSUME IInv, Submit
  PROVE  \E o \in OrderIds, r \in Requests : Contract!Take(o, r)
<1>1. PICK o \in OrderIds, r \in Requests : SubmitAccepted(o, r) \/ SubmitRejected(o, r)
  BY DEF Submit
<1>2. TypeOK
  BY DEF IInv
<1>3. /\ status[o] = "NONE"
      /\ req' = [req EXCEPT ![o] = r]
      /\ remQuote' = [remQuote EXCEPT ![o] = r.quote]
      /\ UNCHANGED <<filled, trades>>
  BY <1>1 DEF SubmitAccepted, SubmitRejected, Arrive
<1>4. phase[o] = "NONE"
  BY <1>3, PhaseOf DEF Open
<1>5. \/ phase' = [phase EXCEPT ![o] = "OPEN"]
      \/ r.tif = "FOK" /\ phase' = [phase EXCEPT ![o] = "REJECTED"]
  <2>1. CASE SubmitAccepted(o, r)
    <3>1. status' = [status EXCEPT ![o] = "NEW"]
      BY <2>1 DEF SubmitAccepted
    <3>2. phase' = [phase EXCEPT ![o] = IF "NEW" \in Open THEN "OPEN" ELSE "NEW"]
      BY <1>2, <3>1, PhaseSet
    <3> QED
      BY <3>2 DEF Open
  <2>2. CASE SubmitRejected(o, r)
    <3>1. status' = [status EXCEPT ![o] = "REJECTED"] /\ r.tif = "FOK"
      BY <2>2 DEF SubmitRejected
    <3>2. phase' = [phase EXCEPT ![o] = IF "REJECTED" \in Open THEN "OPEN" ELSE "REJECTED"]
      BY <1>2, <3>1, PhaseSet
    <3> QED
      BY <3>1, <3>2 DEF Open
  <2> QED
    BY <1>1, <2>1, <2>2
<1>6. Contract!Take(o, r)
  BY <1>3, <1>4, <1>5 DEF Contract!Take
<1> QED
  BY <1>6

\* A fill is an exchange: both sides have room for it, and the maker ends
\* exactly when it is used up.
LEMMA RefFill ==
  ASSUME IInv, Fill
  PROVE  \E m, t \in OrderIds : Contract!Exchange(m, t, filled'[m] - filled[m])
<1>0. TypeOK /\ BookConsistent /\ Accounting
  BY DEF IInv
<1>1. taker # NoOrder /\ UNCHANGED req
  BY DEF Fill
<1>2. PICK p \in Matchable(taker) :
       LET s    == <<Opposite(req[taker].side), p>>
           m    == Head(queue[s])
           qty  == FillQty(taker, m, p)
       IN
       /\ filled' = [filled EXCEPT ![taker] = @ + qty, ![m] = @ + qty]
       /\ remQuote' = IF IsMarketBuy(taker)
                      THEN [remQuote EXCEPT ![taker] = @ - PriceQtyToQuote(p, qty)]
                      ELSE remQuote
       /\ status' = [status EXCEPT
            ![m] = IF rem[m] = qty THEN "FILLED" ELSE "PARTIALLY_FILLED"]
       /\ trades' = Append(trades,
            [maker |-> m, taker |-> taker, price |-> p, qty |-> qty])
  BY DEF Fill
<1> DEFINE s   == <<Opposite(req[taker].side), p>>
           m   == Head(queue[s])
           qty == FillQty(taker, m, p)
<1>3. /\ taker \in OrderIds /\ status[taker] = "NEW" /\ p \in Prices
      /\ m \in active /\ m \in OrderIds /\ m # taker /\ s = SlotOf(m)
      /\ qty \in Nat \ {0} /\ qty <= rem[m]
      /\ ~IsMarketBuy(taker) => qty <= rem[taker]
      /\ IsMarketBuy(taker) => qty <= QuoteToQty(remQuote[taker], p)
      /\ Crosses(req[taker], p)
  BY <1>1, FillFacts
<1>4. s[1] = Opposite(req[taker].side) /\ s[2] = p
  OBVIOUS
<1>5. /\ filled' = [filled EXCEPT ![taker] = @ + qty, ![m] = @ + qty]
      /\ remQuote' = IF IsMarketBuy(taker)
                     THEN [remQuote EXCEPT ![taker] = @ - PriceQtyToQuote(p, qty)]
                     ELSE remQuote
      /\ status' = [status EXCEPT
           ![m] = IF rem[m] = qty THEN "FILLED" ELSE "PARTIALLY_FILLED"]
      /\ trades' = Append(trades,
           [maker |-> m, taker |-> taker, price |-> p, qty |-> qty])
  BY <1>2
<1> HIDE DEF s, m, qty
<1>6. /\ req[m].side = Opposite(req[taker].side) /\ req[m].price = p
      /\ req[m].type = "LIMIT" /\ status[m] \in Open
      /\ rem[m] + filled[m] = req[m].qty
  BY <1>0, <1>3, <1>4, ActiveFacts DEF SlotOf, BookConsistent
<1>7. req[taker] \in Requests /\ req[m].qty \in Nat
  <2>1. req[taker] \in Requests /\ req[m] \in Requests
    BY <1>0, <1>3, <1>6 DEF Accounting, Open
  <2> QED
    BY <2>1, RequestFacts
<1>8. /\ filled[m] \in Nat /\ filled[taker] \in Nat /\ rem[m] \in Int /\ rem[taker] \in Int
      /\ qty \in Int /\ qty > 0
  BY <1>0, <1>3 DEF TypeOK
<1>9. filled'[m] = filled[m] + qty /\ filled'[m] - filled[m] = qty
  <2>1. filled'[m] = filled[m] + qty
    BY <1>0, <1>3, <1>5 DEF TypeOK
  <2> QED
    BY <1>8, <2>1
<1>10. phase[m] = "OPEN" /\ phase[taker] = "OPEN"
  BY <1>3, <1>6, PhaseOf DEF Open
<1>11. req[m].side # req[taker].side /\ ~Contract!IsMarket(m) /\ Contract!Accepts(taker, p)
  <2>1. req[taker].side \in Sides
    BY <1>7, RequestFacts
  <2> QED
    BY <1>3, <1>6, <2>1 DEF Contract!IsMarket, Contract!Accepts, Opposite, Sides, Crosses
<1>12. Contract!HasRoom(m, p, qty)
  <2>1. ~Contract!IsMarketBuy(m)
    BY <1>6 DEF Contract!IsMarketBuy, Contract!IsMarket
  <2>2. filled[m] + qty <= req[m].qty
    <3>1. qty <= rem[m]
      BY <1>3
    <3> QED
      BY <1>6, <1>7, <1>8, <3>1
  <2> QED
    BY <2>1, <2>2 DEF Contract!HasRoom
<1>13. Contract!HasRoom(taker, p, qty)
  <2>1. CASE IsMarketBuy(taker)
    <3>1. remQuote[taker] \in Nat
      <4>1. remQuote[taker] >= 0
        BY <1>0, <1>3 DEF Accounting
      <4>2. remQuote[taker] \in Int
        BY <1>0, <1>3 DEF TypeOK
      <4> QED
        BY <4>1, <4>2
    <3>2. p \in Nat \ {0} /\ qty \in Nat /\ qty <= QuoteToQty(remQuote[taker], p)
      <4>1. p \in Nat \ {0}
        BY <1>3, EngineAssumption
      <4> QED
        BY <1>3, <2>1, <4>1
    <3>3. PriceQtyToQuote(p, qty) <= remQuote[taker]
      BY <3>1, <3>2, QuoteOfQtyFits
    <3> QED
      BY <2>1, <3>3
         DEF Contract!HasRoom, Contract!IsMarketBuy, Contract!IsMarket, IsMarketBuy,
             Contract!PriceQtyToQuote, PriceQtyToQuote
  <2>2. CASE ~IsMarketBuy(taker)
    <3>1. rem[taker] = req[taker].qty - filled[taker]
      BY <1>0, <1>3 DEF Accounting
    <3>2. req[taker].qty \in Nat
      BY <1>7, RequestFacts
    <3>3. qty <= rem[taker]
      BY <1>3, <2>2
    <3>4. filled[taker] + qty <= req[taker].qty
      BY <1>8, <3>1, <3>2, <3>3
    <3> QED
      BY <2>2, <3>4
         DEF Contract!HasRoom, Contract!IsMarketBuy, Contract!IsMarket, IsMarketBuy
  <2> QED
    BY <2>1, <2>2
<1>14. filled' = [filled EXCEPT ![m] = @ + qty, ![taker] = @ + qty]
  BY <1>0, <1>3, <1>5 DEF TypeOK
<1>15. remQuote' = IF Contract!IsMarketBuy(taker)
                   THEN [remQuote EXCEPT ![taker] = @ - Contract!PriceQtyToQuote(p, qty)]
                   ELSE remQuote
  BY <1>5 DEF Contract!IsMarketBuy, Contract!IsMarket, IsMarketBuy,
              Contract!PriceQtyToQuote, PriceQtyToQuote
<1>16. phase' = IF filled'[m] = req[m].qty THEN [phase EXCEPT ![m] = "FILLED"] ELSE phase
  <2>1. rem[m] = qty <=> filled'[m] = req[m].qty
    BY <1>6, <1>7, <1>8, <1>9
  <2>2. CASE rem[m] = qty
    <3>1. phase' = [phase EXCEPT ![m] = IF "FILLED" \in Open THEN "OPEN" ELSE "FILLED"]
      BY <1>0, <1>3, <1>5, <2>2, PhaseSet
    <3> QED
      BY <2>1, <2>2, <3>1 DEF Open
  <2>3. CASE rem[m] # qty
    <3>1. phase' = [phase EXCEPT ![m] = IF "PARTIALLY_FILLED" \in Open
                                        THEN "OPEN" ELSE "PARTIALLY_FILLED"]
      BY <1>0, <1>3, <1>5, <2>3, PhaseSet
    <3>2. [phase EXCEPT ![m] = "OPEN"] = phase
      BY <1>10 DEF phase
    <3> QED
      BY <2>1, <2>3, <3>1, <3>2 DEF Open
  <2> QED
    BY <2>2, <2>3
<1>17. trades' = Append(trades,
         [maker |-> m, taker |-> taker, price |-> req[m].price, qty |-> qty])
  BY <1>5, <1>6
<1>18. Contract!Exchange(m, taker, qty)
  BY <1>1, <1>6, <1>8, <1>10, <1>11, <1>12, <1>13, <1>14, <1>15, <1>16, <1>17
     DEF Contract!Exchange
<1> QED
  BY <1>3, <1>9, <1>18

\* The end of a submission closes the order, or leaves it open.
LEMMA RefFinish ==
  ASSUME IInv, FinishMarket \/ FinishFilled \/ FinishExpired \/ FinishResting
  PROVE  \/ UNCHANGED Contract!vars
         \/ \E o \in OrderIds, final \in {"FILLED", "REJECTED", "EXPIRED", "CANCELED"} :
              Contract!Close(o, final)
<1>0. TypeOK /\ Accounting /\ TakerFresh
  BY DEF IInv
<1>1. /\ taker # NoOrder
      /\ UNCHANGED <<req, remQuote, filled, trades>>
  BY DEF FinishMarket, FinishFilled, FinishExpired, FinishResting, Finish
<1>2. taker \in OrderIds /\ status[taker] = "NEW" /\ phase[taker] = "OPEN"
  BY <1>0, <1>1, PhaseOf DEF TypeOK, TakerFresh, Open
<1>3. /\ req[taker] \in Requests /\ rem[taker] = req[taker].qty - filled[taker]
      /\ (~IsMarketBuy(taker) => rem[taker] >= 0)
  BY <1>0, <1>2 DEF Accounting
<1>4. filled[taker] \in Nat /\ rem[taker] \in Int /\ req[taker].qty \in Nat
  BY <1>0, <1>2, <1>3, RequestFacts DEF TypeOK
<1>5. ASSUME NEW final \in {"FILLED", "REJECTED", "EXPIRED"},
             status' = [status EXCEPT ![taker] = final],
             Contract!MayEnd(taker, final)
      PROVE  Contract!Close(taker, final)
  <2>1. phase' = [phase EXCEPT ![taker] = IF final \in Open THEN "OPEN" ELSE final]
    BY <1>0, <1>2, <1>5, PhaseSet
  <2>2. phase' = [phase EXCEPT ![taker] = final]
    BY <2>1 DEF Open
  <2> QED
    BY <1>1, <1>2, <1>5, <2>2 DEF Contract!Close
<1>6. CASE FinishMarket
  <2> DEFINE final == IF filled[taker] = 0 THEN "REJECTED" ELSE "FILLED"
  <2>1. status' = [status EXCEPT ![taker] = final] /\ req[taker].type = "MARKET"
    BY <1>6 DEF FinishMarket, Finish
  <2>2. Contract!MayEnd(taker, final)
    BY <1>4, <2>1 DEF Contract!MayEnd, Contract!IsMarket
  <2>3. final \in {"FILLED", "REJECTED", "EXPIRED"}
    OBVIOUS
  <2> HIDE DEF final
  <2> QED
    BY <1>2, <1>5, <2>1, <2>2, <2>3
<1>7. CASE FinishFilled
  <2>1. /\ status' = [status EXCEPT ![taker] = "FILLED"]
        /\ req[taker].type = "LIMIT" /\ rem[taker] = 0
    BY <1>7 DEF FinishFilled, Finish
  <2>2. filled[taker] = req[taker].qty
    BY <1>3, <1>4, <2>1
  <2>3. Contract!MayEnd(taker, "FILLED")
    BY <2>1, <2>2 DEF Contract!MayEnd, Contract!IsMarket
  <2> QED
    BY <1>2, <1>5, <2>1, <2>3
<1>8. CASE FinishExpired
  <2>1. /\ status' = [status EXCEPT ![taker] = "EXPIRED"]
        /\ req[taker].type = "LIMIT" /\ rem[taker] # 0 /\ req[taker].tif = "IOC"
    BY <1>8 DEF FinishExpired, Finish
  <2>2. filled[taker] < req[taker].qty
    BY <1>3, <1>4, <2>1 DEF IsMarketBuy
  <2>3. Contract!MayEnd(taker, "EXPIRED")
    BY <2>1, <2>2 DEF Contract!MayEnd
  <2> QED
    BY <1>2, <1>5, <2>1, <2>3
<1>9. CASE FinishResting
  <2> DEFINE final == IF filled[taker] > 0 THEN "PARTIALLY_FILLED" ELSE "NEW"
  <2>1. status' = [status EXCEPT ![taker] = final]
    BY <1>9 DEF FinishResting, Finish
  <2>2. final \in Open
    BY DEF Open
  <2> HIDE DEF final
  <2>3. phase' = [phase EXCEPT ![taker] = "OPEN"]
    BY <1>0, <1>2, <2>1, <2>2, PhaseSet
  <2>4. phase' = phase
    BY <1>2, <2>3 DEF phase
  <2> QED
    BY <1>1, <2>4 DEF Contract!vars
<1> QED
  BY <1>6, <1>7, <1>8, <1>9

\* A cancellation closes an order that has something left.
LEMMA RefCancel ==
  ASSUME IInv, NEW o \in OrderIds, Cancel(o)
  PROVE  Contract!Close(o, "CANCELED")
<1>0. TypeOK /\ BookConsistent /\ Accounting
  BY DEF IInv
<1>1. /\ o \in active /\ status' = [status EXCEPT ![o] = "CANCELED"]
      /\ UNCHANGED <<req, remQuote, filled, trades>>
  BY DEF Cancel
<1>2. /\ status[o] \in Open /\ rem[o] \in Nat \ {0} /\ rem[o] + filled[o] = req[o].qty
      /\ req[o].type = "LIMIT" /\ filled[o] \in Nat
  BY <1>0, <1>1, ActiveFacts DEF BookConsistent, TypeOK
<1>3. phase[o] = "OPEN"
  BY <1>2, PhaseOf
<1>4. phase' = [phase EXCEPT ![o] = "CANCELED"]
  <2>1. phase' = [phase EXCEPT ![o] = IF "CANCELED" \in Open THEN "OPEN" ELSE "CANCELED"]
    BY <1>0, <1>1, PhaseSet
  <2> QED
    BY <2>1 DEF Open
<1>5. Contract!MayEnd(o, "CANCELED")
  <2>1. filled[o] < req[o].qty
    BY <1>2
  <2> QED
    BY <1>2, <2>1 DEF Contract!MayEnd, Contract!IsMarket
<1> QED
  BY <1>1, <1>3, <1>4, <1>5 DEF Contract!Close

\* Every step of the engine is a step of the contract or a stutter.
LEMMA RefNext == IInv /\ [Next]_vars => [Contract!Next]_(Contract!vars)
<1> SUFFICES ASSUME IInv, [Next]_vars PROVE [Contract!Next]_(Contract!vars)
  OBVIOUS
<1>1. CASE Submit
  BY <1>1, RefSubmit DEF Contract!Next
<1>2. CASE Fill
  BY <1>2, RefFill DEF Contract!Next
<1>3. CASE FinishMarket \/ FinishFilled \/ FinishExpired \/ FinishResting
  BY <1>3, RefFinish DEF Contract!Next
<1>4. CASE \E o \in OrderIds : Cancel(o)
  BY <1>4, RefCancel DEF Contract!Next
<1>5. CASE UNCHANGED vars
  BY <1>5 DEF vars, orderVars, Contract!vars, phase
<1> QED
  BY <1>1, <1>2, <1>3, <1>4, <1>5 DEF Next, Work

\* The engine keeps the contract with those who submit orders: no trade
\* outside an order's limits or budget, and no end the order does not allow.
THEOREM EngineImplementsContract == Spec => ImplementsContract
<1>1. Spec => Contract!Init /\ [][Contract!Next]_(Contract!vars)
  BY RefInit, RefNext, Invariance, PTL DEF Spec
<1> QED
  BY <1>1 DEF ImplementsContract, Contract!Spec
==============================================================================
