----------------------------- MODULE SumProofs -----------------------------
(* A sum of natural numbers is one, and changes by as much as the summand     *)
(* that changes.  What a recursive function is must be shown by induction,    *)
(* here by the least counterexample (UpTo).                                   *)
EXTENDS Sums, NaturalsInduction, WellFoundedInduction, TLAPS

Below == {ss \in Nat \X Nat : ss[1] < ss[2]}

LEMMA BelowWellFounded == IsWellFoundedOn(Below, Nat)
BY NatLessThanWellFounded DEF OpToRel, Below

(* A set of numbers that has 0, and n + 1 with n, up to m, has all up to m.   *)
LEMMA UpTo ==
    ASSUME NEW m \in Nat, NEW S, 0 \in S,
           \A n \in 0 .. m : n \in S /\ n < m => n + 1 \in S
    PROVE  0 .. m \subseteq S
<1> SUFFICES ASSUME NEW k \in 0 .. m, k \notin S PROVE FALSE
  OBVIOUS
<1> DEFINE T == {n \in Nat : n <= m /\ n \notin S}
<1>0. T \subseteq Nat /\ T # {}
  OBVIOUS
<1>1. PICK n \in T : \A i \in T : ~ (<<i, n>> \in Below)
  <2> HIDE DEF T
  <2> QED BY <1>0, BelowWellFounded, WFMin
<1>2. n \in Nat /\ n <= m /\ n \notin S /\ n # 0
  OBVIOUS
<1>3. n - 1 \in Nat /\ n - 1 < n /\ n - 1 \in 0 .. m
  BY <1>2
<1>4. n - 1 \notin T
  BY <1>1, <1>2, <1>3 DEF Below
<1> QED BY <1>2, <1>3, <1>4

IsTotal(f, n, v) == f = [i \in 0 .. n |-> IF i = 0 THEN 0 ELSE f[i - 1] + v[i]]

LEMMA SumDef ==
    ASSUME NEW n, NEW v
    PROVE  SumTo(n, v) = (CHOOSE f : IsTotal(f, n, v))[n]
BY DEF SumTo, IsTotal

LEMMA TotalExists ==
    ASSUME NEW n \in Nat, NEW v \in [1 .. n -> Nat]
    PROVE  \E f : IsTotal(f, n, v)
<1> DEFINE IsUpTo(f, m) == \A i \in 0 .. m : f[i] = IF i = 0 THEN 0 ELSE f[i - 1] + v[i]
           S == {m \in 0 .. n : \E f \in [0 .. m -> Nat] : IsUpTo(f, m)}
<1>1. 0 \in S
  <2> DEFINE z == [i \in 0 .. 0 |-> 0]
  <2>1. z \in [0 .. 0 -> Nat] /\ \A i \in 0 .. 0 : i = 0 /\ z[i] = 0
    OBVIOUS
  <2> HIDE DEF z
  <2>2. IsUpTo(z, 0)
    BY <2>1
  <2> QED BY <2>1, <2>2
<1>2. ASSUME NEW m \in 0 .. n, m \in S, m < n
      PROVE  m + 1 \in S
  <2>1. PICK f \in [0 .. m -> Nat] : IsUpTo(f, m)
    BY <1>2
  <2> DEFINE g == [i \in 0 .. m + 1 |-> IF i = m + 1 THEN f[m] + v[m + 1] ELSE f[i]]
  <2>2. m + 1 \in 1 .. n /\ v[m + 1] \in Nat /\ f[m] \in Nat
    BY <1>2
  <2>3. g \in [0 .. m + 1 -> Nat]
    BY <2>2
  <2>4. g[m + 1] = f[m] + v[m + 1] /\ \A i \in 0 .. m : g[i] = f[i]
    BY <1>2
  <2> HIDE DEF g
  <2>5. ASSUME NEW i \in 0 .. m + 1
        PROVE  g[i] = IF i = 0 THEN 0 ELSE g[i - 1] + v[i]
    <3>1. CASE i = m + 1
      BY <1>2, <2>4, <3>1
    <3>2. CASE i # m + 1 /\ i # 0
      <4>1. i \in 0 .. m /\ i - 1 \in 0 .. m
        BY <1>2, <3>2
      <4> QED BY <2>1, <2>4, <3>2, <4>1
    <3>3. CASE i = 0 /\ i # m + 1
      BY <1>2, <2>1, <2>4, <3>3
    <3> QED BY <3>1, <3>2, <3>3
  <2>6. m + 1 \in 0 .. n
    BY <1>2
  <2> QED BY <2>3, <2>5, <2>6
<1> HIDE DEF S
<1>3. n \in S
  <2>1. 0 .. n \subseteq S
    BY <1>1, <1>2, UpTo
  <2> QED BY <2>1
<1>4. PICK f \in [0 .. n -> Nat] : IsUpTo(f, n)
  BY <1>3 DEF S
<1>5. IsTotal(f, n, v)
  BY <1>4 DEF IsTotal
<1> QED BY <1>5

(* The partial sums, and the sum as the last of them.                         *)
LEMMA Totals ==
    ASSUME NEW n \in Nat, NEW v \in [1 .. n -> Nat]
    PROVE  \E f \in [0 .. n -> Nat] :
              /\ f[0] = 0
              /\ \A i \in 1 .. n : f[i] = f[i - 1] + v[i]
              /\ SumTo(n, v) = f[n]
<1> DEFINE f == CHOOSE g : IsTotal(g, n, v)
<1>1. IsTotal(f, n, v)
  BY TotalExists
<1>2. SumTo(n, v) = f[n]
  BY SumDef
<1> HIDE DEF f
<1>3. f[0] = 0 /\ \A i \in 1 .. n : f[i] = f[i - 1] + v[i]
  <2>1. \A i \in 0 .. n : f[i] = IF i = 0 THEN 0 ELSE f[i - 1] + v[i]
    BY <1>1 DEF IsTotal
  <2>2. \A i \in 1 .. n : i \in 0 .. n /\ i # 0
    OBVIOUS
  <2> QED BY <2>1, <2>2
<1> DEFINE S == {i \in 0 .. n : f[i] \in Nat}
<1>4. 0 \in S
  BY <1>3
<1>5. ASSUME NEW m \in 0 .. n, m \in S, m < n PROVE m + 1 \in S
  <2>1. m + 1 \in 1 .. n /\ (m + 1) - 1 = m /\ v[m + 1] \in Nat /\ f[m] \in Nat
    BY <1>5
  <2>2. f[m + 1] = f[m] + v[m + 1]
    BY <1>3, <2>1
  <2> QED BY <2>1, <2>2
<1>6. \A i \in 0 .. n : f[i] \in Nat
  <2> HIDE DEF S
  <2>1. 0 .. n \subseteq S
    BY <1>4, <1>5, UpTo
  <2> QED BY <2>1 DEF S
<1>7. f \in [0 .. n -> Nat]
  <2>1. f = [i \in 0 .. n |-> f[i]]
    BY <1>1 DEF IsTotal
  <2> QED BY <1>6, <2>1
<1> QED BY <1>2, <1>3, <1>7

(* A sum of natural numbers is one.                                           *)
LEMMA SumType ==
    ASSUME NEW n \in Nat, NEW v \in [1 .. n -> Nat]
    PROVE  SumTo(n, v) \in Nat
BY Totals

(* A sum of zeros.                                                            *)
LEMMA SumZero ==
    ASSUME NEW n \in Nat, NEW v \in [1 .. n -> Nat], \A i \in 1 .. n : v[i] = 0
    PROVE  SumTo(n, v) = 0
<1>1. PICK f \in [0 .. n -> Nat] : /\ f[0] = 0
                                   /\ \A i \in 1 .. n : f[i] = f[i - 1] + v[i]
                                   /\ SumTo(n, v) = f[n]
  BY Totals
<1> DEFINE S == {i \in 0 .. n : f[i] = 0}
<1>2. 0 \in S
  BY <1>1
<1>3. ASSUME NEW m \in 0 .. n, m \in S, m < n PROVE m + 1 \in S
  <2>1. m + 1 \in 1 .. n /\ (m + 1) - 1 = m
    BY <1>3
  <2> QED BY <1>1, <1>3, <2>1
<1> HIDE DEF S
<1>4. n \in S
  <2>1. 0 .. n \subseteq S
    BY <1>2, <1>3, UpTo
  <2> QED BY <2>1
<1> QED BY <1>1, <1>4 DEF S

LEMMA Exchange ==
    ASSUME NEW a \in Nat, NEW x \in Nat, NEW y \in Nat
    PROVE  (a + x) + y = (a + y) + x
OBVIOUS

(* One summand changes.                                                       *)
LEMMA SumChanged ==
    ASSUME NEW n \in Nat, NEW v \in [1 .. n -> Nat], NEW w \in [1 .. n -> Nat],
           NEW k \in 1 .. n, \A i \in 1 .. n \ {k} : w[i] = v[i]
    PROVE  SumTo(n, w) + v[k] = SumTo(n, v) + w[k]
<1>1. PICK f \in [0 .. n -> Nat] : /\ f[0] = 0
                                   /\ \A i \in 1 .. n : f[i] = f[i - 1] + v[i]
                                   /\ SumTo(n, v) = f[n]
  BY Totals
<1>2. PICK g \in [0 .. n -> Nat] : /\ g[0] = 0
                                   /\ \A i \in 1 .. n : g[i] = g[i - 1] + w[i]
                                   /\ SumTo(n, w) = g[n]
  BY Totals
<1> DEFINE S == {i \in 0 .. n : /\ i < k => g[i] = f[i]
                                /\ i >= k => g[i] + v[k] = f[i] + w[k]}
<1>3. 0 \in S
  BY <1>1, <1>2
<1>4. ASSUME NEW m \in 0 .. n, m \in S, m < n PROVE m + 1 \in S
  <2>1. m + 1 \in 1 .. n /\ (m + 1) - 1 = m
    BY <1>4
  <2>2. f[m + 1] = f[m] + v[m + 1] /\ g[m + 1] = g[m] + w[m + 1]
    BY <1>1, <1>2, <2>1
  <2>3. f[m] \in Nat /\ g[m] \in Nat /\ v[m + 1] \in Nat /\ w[m + 1] \in Nat
        /\ v[k] \in Nat /\ w[k] \in Nat
    BY <2>1
  <2>4. CASE m + 1 = k
    <3>1. m < k /\ g[m] = f[m]
      BY <1>4, <2>4
    <3>2. v[m + 1] = v[k] /\ w[m + 1] = w[k]
      BY <2>4
    <3>3. g[m + 1] + v[k] = f[m + 1] + w[k]
      BY <2>2, <2>3, <3>1, <3>2, Exchange
    <3> QED BY <2>1, <2>4, <3>3
  <2>5. CASE m + 1 # k
    <3>1. w[m + 1] = v[m + 1]
      BY <2>1, <2>5
    <3>2. m + 1 < k => g[m + 1] = f[m + 1]
      BY <1>4, <2>2, <2>3, <3>1
    <3>3. ASSUME m >= k PROVE g[m + 1] + v[k] = f[m + 1] + w[k]
      <4>1. g[m] + v[k] = f[m] + w[k]
        BY <1>4, <3>3
      <4>2. (g[m] + v[m + 1]) + v[k] = (f[m] + v[m + 1]) + w[k]
        <5> DEFINE a == g[m] b == f[m] x == v[k] y == w[k] z == v[m + 1]
        <5>1. a \in Nat /\ b \in Nat /\ x \in Nat /\ y \in Nat /\ z \in Nat /\ a + x = b + y
          BY <2>3, <4>1
        <5> HIDE DEF a, b, x, y, z
        <5>2. (a + z) + x = (b + z) + y
          BY <5>1
        <5> QED BY <5>2 DEF a, b, x, y, z
      <4> QED BY <2>2, <3>1, <4>2
    <3>4. m + 1 >= k => m >= k
      BY <1>4, <2>5
    <3> QED BY <2>1, <3>2, <3>3, <3>4
  <2> QED BY <2>4, <2>5
<1> HIDE DEF S
<1>5. n \in S
  <2>1. 0 .. n \subseteq S
    BY <1>3, <1>4, UpTo
  <2> QED BY <2>1
<1> QED BY <1>1, <1>2, <1>5 DEF S

(* No summand shrinks.                                                        *)
LEMMA SumGrows ==
    ASSUME NEW n \in Nat, NEW v \in [1 .. n -> Nat], NEW w \in [1 .. n -> Nat],
           \A i \in 1 .. n : v[i] <= w[i]
    PROVE  SumTo(n, v) <= SumTo(n, w)
<1>1. PICK f \in [0 .. n -> Nat] : /\ f[0] = 0
                                   /\ \A i \in 1 .. n : f[i] = f[i - 1] + v[i]
                                   /\ SumTo(n, v) = f[n]
  BY Totals
<1>2. PICK g \in [0 .. n -> Nat] : /\ g[0] = 0
                                   /\ \A i \in 1 .. n : g[i] = g[i - 1] + w[i]
                                   /\ SumTo(n, w) = g[n]
  BY Totals
<1> DEFINE S == {i \in 0 .. n : f[i] <= g[i]}
<1>3. 0 \in S
  BY <1>1, <1>2
<1>4. ASSUME NEW m \in 0 .. n, m \in S, m < n PROVE m + 1 \in S
  <2>1. m + 1 \in 1 .. n /\ (m + 1) - 1 = m
    BY <1>4
  <2>2. f[m + 1] = f[m] + v[m + 1] /\ g[m + 1] = g[m] + w[m + 1]
    BY <1>1, <1>2, <2>1
  <2>3. /\ f[m] \in Nat /\ g[m] \in Nat /\ v[m + 1] \in Nat /\ w[m + 1] \in Nat
        /\ f[m] <= g[m] /\ v[m + 1] <= w[m + 1]
    BY <1>4, <2>1
  <2>4. f[m] + v[m + 1] <= g[m] + w[m + 1]
    <3>1. PICK a \in Nat, b \in Nat, c \in Nat, d \in Nat :
            a = f[m] /\ b = v[m + 1] /\ c = g[m] /\ d = w[m + 1]
      BY <2>3
    <3>2. a <= c /\ b <= d
      BY <2>3, <3>1
    <3>3. a + b <= c + d
      BY <3>2
    <3> QED BY <3>1, <3>3
  <2> QED BY <2>1, <2>2, <2>4
<1> HIDE DEF S
<1>5. n \in S
  <2>1. 0 .. n \subseteq S
    BY <1>3, <1>4, UpTo
  <2> QED BY <2>1
<1> QED BY <1>1, <1>2, <1>5 DEF S
=============================================================================
