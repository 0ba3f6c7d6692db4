--------------------------- MODULE FeeRulesProofs ---------------------------
(***************************************************************************)
(* What the rules of the counter do for every number of lines, every        *)
(* amount and every list of named lines: the cascade hands out exactly the  *)
(* amount and never above the room, and the screen agrees with the counter. *)
(*                                                                         *)
(* First, what a sum over 1..n satisfies, for every n.  The induction       *)
(* principle used is "a nonempty set of naturals has a least element"       *)
(* (LeastNat), which only quantifies over sets.                             *)
(***************************************************************************)
EXTENDS FeeRules, FiniteSetsExt, FiniteSetTheorems, TLAPS, WellFoundedInduction, SequenceTheorems

\* A nonempty set of natural numbers has a least element.
LEMMA LeastNat ==
  ASSUME NEW T, T \subseteq Nat, T # {}
  PROVE  \E m \in T : \A k \in T : m <= k
<1> DEFINE R == {ss \in Nat \X Nat : ss[1] < ss[2]}
<1>0. OpToRel(<, Nat) = R
  BY Zenon DEF OpToRel
<1>1. IsWellFoundedOn(R, Nat)
  BY <1>0, NatLessThanWellFounded, Zenon
<1>2. PICK m \in T : \A k \in T : ~ (<<k, m>> \in R)
  <2> HIDE DEF R
  <2> QED
    BY <1>1, WFMin, Zenon
<1>3. \A k \in T : m <= k
  <2> SUFFICES ASSUME NEW k \in T, k < m
               PROVE  FALSE
    OBVIOUS
  <2>1. <<k, m>> \in R
    OBVIOUS
  <2>2. QED
    BY <1>2, <2>1, Zenon
<1>4. QED
  BY <1>3

\* A set that contains 0 and is closed under successor below n contains 0..n.
LEMMA FiniteInduction ==
  ASSUME NEW n \in Nat, NEW S, 0 \in S,
         \A i \in 1..n : i - 1 \in S => i \in S
  PROVE  0..n \subseteq S
<1> DEFINE T == {i \in 0..n : i \notin S}
<1>1. SUFFICES T = {}
  OBVIOUS
<1>2. SUFFICES ASSUME T # {}
               PROVE  FALSE
  OBVIOUS
<1>3. PICK m \in T : \A k \in T : m <= k
  <2>1. T \subseteq Nat
    OBVIOUS
  <2> HIDE DEF T
  <2>2. QED
    BY <1>2, <2>1, LeastNat
<1>4. m \in 1..n /\ m - 1 \in 0..n /\ m - 1 \notin T
  BY <1>3
<1>5. QED
  BY <1>4

\* f starts at x and each f[i] comes from f[i - 1] by g[i].
IsRun(f, n, x, g) == f[0] = x /\ \A i \in 1..n : f[i] = g[i][f[i - 1]]

\* Such a function exists, with values in V.
LEMMA RunExists ==
  ASSUME NEW n \in Nat, NEW V, NEW x \in V, NEW g \in [1..n -> [V -> V]]
  PROVE  \E f \in [0..n -> V] : IsRun(f, n, x, g)
<1> DEFINE Run(f, m) == /\ f \in [0..m -> V]
                        /\ f[0] = x
                        /\ \A i \in 1..m : f[i] = g[i][f[i - 1]]
           S == {m \in 0..n : \E f : Run(f, m)}
<1>1. 0 \in S
  <2>1. Run([i \in 0..0 |-> x], 0)
    OBVIOUS
  <2>2. 0 \in 0..n
    OBVIOUS
  <2> HIDE DEF Run
  <2>3. QED
    BY <2>1, <2>2, Zenon
<1>2. ASSUME NEW m \in 1..n, m - 1 \in S
      PROVE  m \in S
  <2>1. PICK f : Run(f, m - 1)
    BY <1>2
  <2> DEFINE h == [i \in 0..m |-> IF i = m THEN g[m][f[m - 1]] ELSE f[i]]
  <2>2. h \in [0..m -> V]
    <3>1. f[m - 1] \in V /\ g[m] \in [V -> V]
      BY <2>1
    <3>2. QED
      BY <2>1, <3>1
  <2>3. h[0] = x
    BY <2>1
  <2>4. ASSUME NEW i \in 1..m
        PROVE  h[i] = g[i][h[i - 1]]
    <3>1. CASE i = m
      BY <3>1, <2>1
    <3>2. CASE i # m
      BY <3>2, <2>1
    <3>3. QED
      BY <3>1, <3>2
  <2> HIDE DEF h
  <2>5. Run(h, m)
    BY <2>2, <2>3, <2>4
  <2>6. m \in 0..n
    OBVIOUS
  <2> HIDE DEF Run
  <2>7. QED
    BY <2>5, <2>6, Zenon
<1>3. 0..n \subseteq S
  <2> HIDE DEF S
  <2>1. \A i \in 1..n : i - 1 \in S => i \in S
    BY <1>2
  <2>2. QED
    BY <1>1, <2>1, FiniteInduction
<1>4. PICK f : Run(f, n)
  <2>1. n \in S
    <3> HIDE DEF S
    <3>1. QED
      BY <1>3
  <2> HIDE DEF Run
  <2>2. QED
    BY <2>1, Zenon
<1>5. QED
  BY <1>4 DEF IsRun

\* The running sums, as a relation: f is the list of partial sums of a.
LEMMA RunningSumExists ==
  ASSUME NEW n \in Nat, NEW a \in [1..n -> Int]
  PROVE  \E f \in [0..n -> Int] :
            f = [i \in 0..n |-> IF i = 0 THEN 0 ELSE f[i - 1] + a[i]]
<1> DEFINE g == [i \in 1..n |-> [v \in Int |-> v + a[i]]]
<1>1. g \in [1..n -> [Int -> Int]]
  OBVIOUS
<1>2. \A i \in 1..n, v \in Int : g[i][v] = v + a[i]
  OBVIOUS
<1> HIDE DEF g
<1>3. PICK f \in [0..n -> Int] : IsRun(f, n, 0, g)
  BY <1>1, 0 \in Int, RunExists, Zenon
<1>4. \A i \in 1..n : f[i] = f[i - 1] + a[i]
  <2>1. \A i \in 1..n : f[i - 1] \in Int
    OBVIOUS
  <2>2. QED
    BY <1>2, <1>3, <2>1 DEF IsRun
<1>5. f = [i \in 0..n |-> IF i = 0 THEN 0 ELSE f[i - 1] + a[i]]
  BY <1>3, <1>4 DEF IsRun
<1>6. QED
  BY <1>5

\* Prefix is the list of partial sums.
LEMMA PrefixRun ==
  ASSUME NEW n \in Nat, NEW a \in [1..n -> Int]
  PROVE  /\ Prefix(a, n) = [i \in 0..n |-> IF i = 0 THEN 0 ELSE Prefix(a, n)[i - 1] + a[i]]
<1> DEFINE Adds(f) == f = [i \in 0..n |-> IF i = 0 THEN 0 ELSE f[i - 1] + a[i]]
<1>1. \E f : Adds(f)
  BY RunningSumExists
<1>2. Prefix(a, n) = CHOOSE f : Adds(f)
  BY DEF Prefix
<1> HIDE DEF Adds
<1>3. Adds(Prefix(a, n))
  BY <1>1, <1>2, Zenon
<1>4. QED
  BY <1>3 DEF Adds

\* The defining equations of a sum, and its type.
THEOREM SumRec ==
  ASSUME NEW n \in Nat, NEW a \in [1..n -> Int]
  PROVE  /\ Prefix(a, n) \in [0..n -> Int]
         /\ Prefix(a, n)[0] = 0
         /\ \A i \in 1..n : Prefix(a, n)[i] = Prefix(a, n)[i - 1] + a[i]
         /\ Sum(a, n) = Prefix(a, n)[n]
         /\ Sum(a, n) \in Int
<1> DEFINE f == Prefix(a, n)
           S == {i \in 0..n : f[i] \in Int}
<1>1. f = [i \in 0..n |-> IF i = 0 THEN 0 ELSE f[i - 1] + a[i]]
  BY PrefixRun
<1> HIDE DEF f
<1>2. f[0] = 0 /\ \A i \in 1..n : f[i] = f[i - 1] + a[i]
  BY <1>1
<1>3. 0 \in S /\ \A i \in 1..n : i - 1 \in S => i \in S
  BY <1>2
<1>4. 0..n \subseteq S
  <2> HIDE DEF S
  <2>1. QED
    BY <1>3, FiniteInduction
<1>5. f \in [0..n -> Int]
  BY <1>1, <1>4
<1>6. QED
  BY <1>2, <1>5 DEF f, Sum

\* Adding two functions term by term adds their sums.
THEOREM SumPlus ==
  ASSUME NEW n \in Nat, NEW a \in [1..n -> Int], NEW b \in [1..n -> Int]
  PROVE  Sum([i \in 1..n |-> a[i] + b[i]], n) = Sum(a, n) + Sum(b, n)
<1> DEFINE c  == [i \in 1..n |-> a[i] + b[i]]
           pa == Prefix(a, n)
           pb == Prefix(b, n)
           pc == Prefix(c, n)
           S  == {i \in 0..n : pc[i] = pa[i] + pb[i]}
<1>1. c \in [1..n -> Int] /\ \A i \in 1..n : c[i] = a[i] + b[i]
  OBVIOUS
<1> HIDE DEF c
<1>2. /\ pa \in [0..n -> Int] /\ pa[0] = 0
      /\ \A i \in 1..n : pa[i] = pa[i - 1] + a[i]
      /\ Sum(a, n) = pa[n]
  BY SumRec
<1>3. /\ pb \in [0..n -> Int] /\ pb[0] = 0
      /\ \A i \in 1..n : pb[i] = pb[i - 1] + b[i]
      /\ Sum(b, n) = pb[n]
  BY SumRec
<1>4. /\ pc \in [0..n -> Int] /\ pc[0] = 0
      /\ \A i \in 1..n : pc[i] = pc[i - 1] + c[i]
      /\ Sum(c, n) = pc[n]
  BY <1>1, SumRec
<1> HIDE DEF pa, pb, pc
<1>5. 0 \in S
  BY <1>2, <1>3, <1>4
<1>6. ASSUME NEW i \in 1..n, i - 1 \in S
      PROVE  i \in S
  <2>1. pc[i - 1] = pa[i - 1] + pb[i - 1]
    BY <1>6
  <2>2. i - 1 \in 0..n /\ i \in 0..n
    OBVIOUS
  <2>3. QED
    BY <1>1, <1>2, <1>3, <1>4, <2>1, <2>2
<1>7. n \in S
  <2> HIDE DEF S
  <2>1. 0..n \subseteq S
    BY <1>5, <1>6, FiniteInduction
  <2>2. QED
    BY <2>1
<1>8. QED
  BY <1>2, <1>3, <1>4, <1>7 DEF c

\* A term-by-term bound is a bound on the sums.
THEOREM SumMonotone ==
  ASSUME NEW n \in Nat, NEW a \in [1..n -> Int], NEW b \in [1..n -> Int],
         \A i \in 1..n : a[i] <= b[i]
  PROVE  Sum(a, n) <= Sum(b, n)
<1> DEFINE pa == Prefix(a, n)
           pb == Prefix(b, n)
           S  == {i \in 0..n : pa[i] <= pb[i]}
<1>2. /\ pa \in [0..n -> Int] /\ pa[0] = 0
      /\ \A i \in 1..n : pa[i] = pa[i - 1] + a[i]
      /\ Sum(a, n) = pa[n]
  BY SumRec
<1>3. /\ pb \in [0..n -> Int] /\ pb[0] = 0
      /\ \A i \in 1..n : pb[i] = pb[i - 1] + b[i]
      /\ Sum(b, n) = pb[n]
  BY SumRec
<1> HIDE DEF pa, pb
<1>5. 0 \in S
  BY <1>2, <1>3
<1>6. ASSUME NEW i \in 1..n, i - 1 \in S
      PROVE  i \in S
  <2>1. pa[i - 1] <= pb[i - 1] /\ a[i] <= b[i]
    BY <1>6
  <2>2. i - 1 \in 0..n /\ i \in 0..n
    OBVIOUS
  <2>3. QED
    BY <1>2, <1>3, <2>1, <2>2
<1>7. n \in S
  <2> HIDE DEF S
  <2>1. 0..n \subseteq S
    BY <1>5, <1>6, FiniteInduction
  <2>2. QED
    BY <2>1
<1>8. QED
  BY <1>2, <1>3, <1>7

\* A function that is zero everywhere sums to zero.
THEOREM SumZero ==
  ASSUME NEW n \in Nat
  PROVE  Sum([i \in 1..n |-> 0], n) = 0
<1> DEFINE z == [i \in 1..n |-> 0]
<1>1. z \in [1..n -> Int] /\ z = [i \in 1..n |-> z[i] + z[i]]
  OBVIOUS
<1> HIDE DEF z
<1>2. Sum(z, n) \in Int
  BY <1>1, SumRec
<1>3. Sum([i \in 1..n |-> z[i] + z[i]], n) = Sum(z, n) + Sum(z, n)
  BY <1>1, SumPlus
<1>4. Sum(z, n) = 0
  <2>1. Sum(z, n) = Sum(z, n) + Sum(z, n)
    BY <1>1, <1>3, Zenon
  <2>2. \A x \in Int : x = x + x => x = 0
    BY SMTT(60)
  <2>3. QED
    BY <1>2, <2>1, <2>2, ZenonT(60)
<1>5. QED
  BY <1>4 DEF z

\* A function that is zero but at k sums to its value at k.
THEOREM SumSingle ==
  ASSUME NEW n \in Nat, NEW k \in 1..n, NEW v \in Int
  PROVE  Sum([i \in 1..n |-> IF i = k THEN v ELSE 0], n) = v
<1> DEFINE a == [i \in 1..n |-> IF i = k THEN v ELSE 0]
           pa == Prefix(a, n)
           S  == {i \in 0..n : pa[i] = IF i < k THEN 0 ELSE v}
<1>1. a \in [1..n -> Int] /\ \A i \in 1..n : a[i] = IF i = k THEN v ELSE 0
  OBVIOUS
<1> HIDE DEF a
<1>2. /\ pa \in [0..n -> Int] /\ pa[0] = 0
      /\ \A i \in 1..n : pa[i] = pa[i - 1] + a[i]
      /\ Sum(a, n) = pa[n]
  BY <1>1, SumRec
<1> HIDE DEF pa
<1>3. 0 \in S
  BY <1>2
<1>4. ASSUME NEW i \in 1..n, i - 1 \in S
      PROVE  i \in S
  <2>1. pa[i - 1] = IF i - 1 < k THEN 0 ELSE v
    BY <1>4
  <2>2. i - 1 \in 0..n /\ i \in 0..n /\ pa[i] = pa[i - 1] + a[i]
    BY <1>2
  <2>3. pa[i] = IF i < k THEN 0 ELSE v
    <3>1. CASE i < k
      BY <1>1, <2>1, <2>2, <3>1
    <3>2. CASE i = k
      BY <1>1, <2>1, <2>2, <3>2
    <3>3. CASE i > k
      BY <1>1, <2>1, <2>2, <3>3
    <3>4. QED
      BY <3>1, <3>2, <3>3
  <2>4. QED
    BY <2>2, <2>3
<1>5. n \in S
  <2> HIDE DEF S
  <2>1. 0..n \subseteq S
    BY <1>3, <1>4, FiniteInduction
  <2>2. QED
    BY <2>1
<1>6. QED
  BY <1>2, <1>5 DEF a

\* Changing one term changes the sum by the difference: what a payment that is
\* recorded, cancelled or moved does to the paid amount of a fee.
THEOREM SumUpdate ==
  ASSUME NEW n \in Nat, NEW a \in [1..n -> Int], NEW b \in [1..n -> Int],
         NEW k \in 1..n, \A i \in 1..n : i # k => b[i] = a[i]
  PROVE  Sum(b, n) = Sum(a, n) + b[k] - a[k]
<1> DEFINE d == [i \in 1..n |-> IF i = k THEN b[k] - a[k] ELSE 0]
<1>1. d \in [1..n -> Int] /\ b[k] - a[k] \in Int
  OBVIOUS
<1>2. b = [i \in 1..n |-> a[i] + d[i]]
  OBVIOUS
<1>3. Sum(d, n) = b[k] - a[k]
  BY <1>1, SumSingle
<1> HIDE DEF d
<1>4. Sum(b, n) = Sum(a, n) + Sum(d, n)
  BY <1>1, <1>2, SumPlus
<1>5. Sum(a, n) \in Int /\ Sum(b, n) \in Int
  BY SumRec
<1>6. QED
  BY <1>1, <1>3, <1>4, <1>5

\* SumUpdate with its parameters quantified, which a module with many assumptions of its
\* own instantiates one at a time.
LEMMA SumUpdateAll ==
  \A n \in Nat : \A a, b \in [1..n -> Int] : \A k \in 1..n :
     (\A i \in 1..n : i # k => b[i] = a[i]) => Sum(b, n) = Sum(a, n) + b[k] - a[k]
  BY SumUpdate, Zenon

\* A sum of nonnegative terms is at least each of its terms.
THEOREM SumNat ==
  ASSUME NEW n \in Nat, NEW a \in [1..n -> Nat]
  PROVE  /\ Sum(a, n) \in Nat
         /\ \A k \in 1..n : a[k] <= Sum(a, n)
<1>1. a \in [1..n -> Int]
  OBVIOUS
<1>2. Sum(a, n) \in Int
  BY <1>1, SumRec
<1>3. Sum(a, n) >= 0
  <2> DEFINE z == [i \in 1..n |-> 0]
  <2>1. z \in [1..n -> Int] /\ \A i \in 1..n : z[i] <= a[i]
    OBVIOUS
  <2>2. Sum(z, n) = 0
    BY SumZero
  <2> HIDE DEF z
  <2>3. QED
    BY <1>1, <1>2, <2>1, <2>2, SumMonotone
<1>4. ASSUME NEW k \in 1..n
      PROVE  a[k] <= Sum(a, n)
  <2> DEFINE s == [i \in 1..n |-> IF i = k THEN a[k] ELSE 0]
  <2>1. s \in [1..n -> Int] /\ \A i \in 1..n : s[i] <= a[i]
    OBVIOUS
  <2>2. Sum(s, n) = a[k]
    BY SumSingle, a[k] \in Int
  <2> HIDE DEF s
  <2>3. QED
    BY <1>1, <2>1, <2>2, SumMonotone
<1>5. QED
  BY <1>2, <1>3, <1>4

-----------------------------------------------------------------------------
(* The cascade, and the answers of the counter and of its screen. *)

\* What the cascade has left goes down line by line and stays a natural number.
THEOREM LeftAfterRec ==
  ASSUME NEW n \in Nat, NEW amount \in Nat, NEW room \in [1..n -> Nat]
  PROVE  LET left == LeftAfter(amount, room, n)
         IN  /\ left \in [0..n -> Nat]
             /\ left[0] = amount
             /\ \A i \in 1..n : left[i] = left[i - 1] - AtMost(left[i - 1], room[i])
<1> DEFINE left == LeftAfter(amount, room, n)
           Is(f) == f = [i \in 0..n |-> IF i = 0 THEN amount
                                        ELSE f[i - 1] - AtMost(f[i - 1], room[i])]
           g == [i \in 1..n |-> [v \in Nat |-> v - AtMost(v, room[i])]]
<1>1. g \in [1..n -> [Nat -> Nat]] /\ \A i \in 1..n, v \in Nat : g[i][v] = v - AtMost(v, room[i])
  BY DEF AtMost
<1> HIDE DEF g
<1>2. PICK f \in [0..n -> Nat] : IsRun(f, n, amount, g)
  BY <1>1, RunExists, Zenon
<1>3. \A i \in 1..n : f[i] = f[i - 1] - AtMost(f[i - 1], room[i])
  <2>1. \A i \in 1..n : f[i - 1] \in Nat
    OBVIOUS
  <2>2. QED
    BY <1>1, <1>2, <2>1 DEF IsRun
<1>4. Is(f)
  BY <1>2, <1>3 DEF IsRun
<1>5. left = CHOOSE h : Is(h)
  BY DEF LeftAfter
<1>6. Is(left)
  <2> HIDE DEF Is, left
  <2>1. QED
    BY <1>4, <1>5, Zenon
<1> HIDE DEF left
<1>7. /\ left[0] = amount
      /\ \A i \in 1..n : left[i] = left[i - 1] - AtMost(left[i - 1], room[i])
  BY <1>6
<1> DEFINE S == {i \in 0..n : left[i] \in Nat}
<1>8. 0 \in S
  BY <1>7
<1>9. 0..n \subseteq S
  <2>1. ASSUME NEW i \in 1..n, i - 1 \in S
        PROVE  i \in S
    <3>1. left[i - 1] \in Nat /\ room[i] \in Nat
      BY <2>1
    <3>2. left[i] = left[i - 1] - AtMost(left[i - 1], room[i])
      BY <1>7
    <3>3. left[i] \in Nat /\ i \in 0..n
      BY <3>1, <3>2 DEF AtMost
    <3>4. QED
      BY <3>3
  <2> HIDE DEF S
  <2>2. QED
    BY <1>8, <2>1, FiniteInduction
<1>10. left \in [0..n -> Nat]
  BY <1>6, <1>9
<1>11. QED
  BY <1>7, <1>10 DEF left

\* The cascade splits the whole amount, never above the room of a line; something is left
\* over only when every line is full, and a line is served only when those before it are
\* full (_cascade_by_priority).
THEOREM CascadeSplits ==
  ASSUME NEW n \in Nat, NEW amount \in Nat, NEW room \in [1..n -> Nat]
  PROVE  LET c == cascade_by_priority(amount, room, n)
         IN  /\ c.splits \in [1..n -> Nat]
             /\ c.surplus \in Nat
             /\ \A f \in 1..n : c.splits[f] <= room[f]
             /\ Sum(c.splits, n) + c.surplus = amount
             /\ c.surplus > 0 => \A f \in 1..n : c.splits[f] = room[f]
             /\ \A f, g \in 1..n : f < g /\ c.splits[g] > 0 => c.splits[f] = room[f]
<1> DEFINE left == LeftAfter(amount, room, n)
           splits == [f \in 1..n |-> AtMost(left[f - 1], room[f])]
           p == Prefix(splits, n)
<1>1. /\ left \in [0..n -> Nat]
      /\ left[0] = amount
      /\ \A i \in 1..n : left[i] = left[i - 1] - AtMost(left[i - 1], room[i])
  BY LeftAfterRec
<1> HIDE DEF left
<1>2. \A f \in 1..n : left[f - 1] \in Nat /\ left[f] \in Nat /\ room[f] \in Nat
  BY <1>1
<1>3. splits \in [1..n -> Nat] /\ splits \in [1..n -> Int]
  BY <1>2 DEF AtMost
<1>4. \A f \in 1..n : /\ splits[f] = AtMost(left[f - 1], room[f])
                      /\ left[f] = left[f - 1] - splits[f]
                      /\ splits[f] <= room[f]
                      /\ left[f] > 0 => splits[f] = room[f]
                      /\ left[f - 1] = 0 => left[f] = 0 /\ splits[f] = 0
  BY <1>1, <1>2 DEF AtMost
<1> HIDE DEF splits
<1>5. /\ p \in [0..n -> Int] /\ p[0] = 0
      /\ \A i \in 1..n : p[i] = p[i - 1] + splits[i]
      /\ Sum(splits, n) = p[n]
  BY <1>3, SumRec
<1> HIDE DEF p
<1>6. p[n] + left[n] = amount
  <2> DEFINE S == {i \in 0..n : p[i] + left[i] = amount}
  <2>1. 0 \in S
    BY <1>1, <1>5
  <2>2. ASSUME NEW i \in 1..n, i - 1 \in S
        PROVE  i \in S
    <3>1. p[i - 1] + left[i - 1] = amount /\ i \in 0..n /\ i - 1 \in 0..n
      BY <2>2
    <3>2. p[i] = p[i - 1] + splits[i] /\ left[i] = left[i - 1] - splits[i]
      BY <1>4, <1>5
    <3>3. p[i - 1] \in Int /\ left[i - 1] \in Nat /\ splits[i] \in Nat
      BY <1>1, <1>3, <1>5, <3>1
    <3>4. QED
      BY <3>1, <3>2, <3>3
  <2> HIDE DEF S
  <2>3. 0..n \subseteq S
    BY <2>1, <2>2, FiniteInduction
  <2>4. n \in S
    BY <2>3
  <2>5. QED
    BY <2>4 DEF S
<1>7. ASSUME NEW f \in 1..n, NEW g \in 0..n, f <= g, left[g] > 0
      PROVE  splits[f] = room[f]
  <2> DEFINE S == {i \in 0..n : i >= f /\ left[f] = 0 => left[i] = 0}
  <2>1. 0 \in S
    OBVIOUS
  <2>2. ASSUME NEW i \in 1..n, i - 1 \in S
        PROVE  i \in S
    <3>1. i - 1 >= f /\ left[f] = 0 => left[i - 1] = 0
      BY <2>2
    <3>2. QED
      BY <1>4, <3>1
  <2> HIDE DEF S
  <2>3. g \in S
    BY <2>1, <2>2, FiniteInduction
  <2>4. left[f] # 0
    BY <1>7, <2>3 DEF S
  <2>5. QED
    BY <1>2, <1>4, <2>4
<1>8. ASSUME NEW f \in 1..n, NEW g \in 1..n, f < g, splits[g] > 0
      PROVE  splits[f] = room[f]
  <2>1. left[g - 1] # 0
    BY <1>3, <1>4, <1>8
  <2>2. g - 1 \in 0..n /\ f <= g - 1 /\ left[g - 1] > 0
    BY <1>2, <1>8, <2>1
  <2>3. QED
    BY <1>7, <2>2
<1>9. left[n] > 0 => \A f \in 1..n : splits[f] = room[f]
  BY <1>7
<1>10. cascade_by_priority(amount, room, n) = [splits |-> splits, surplus |-> left[n]]
  BY DEF cascade_by_priority, left, splits
<1> DEFINE c == cascade_by_priority(amount, room, n)
<1>11. c.splits = splits /\ c.surplus = left[n]
  BY <1>10
<1> HIDE DEF c
<1>12. left[n] \in Nat
  BY <1>1
<1>13. /\ c.splits \in [1..n -> Nat]
       /\ c.surplus \in Nat
       /\ Sum(c.splits, n) + c.surplus = amount
  BY <1>3, <1>5, <1>6, <1>11, <1>12
<1>14. /\ \A f \in 1..n : c.splits[f] <= room[f]
       /\ c.surplus > 0 => \A f \in 1..n : c.splits[f] = room[f]
       /\ \A f, g \in 1..n : f < g /\ c.splits[g] > 0 => c.splits[f] = room[f]
  BY <1>4, <1>8, <1>9, <1>11
<1>15. QED
  BY <1>13, <1>14 DEF c

\* When the room is enough nothing is left over.
LEMMA NoSurplus ==
  ASSUME NEW n \in Nat, NEW amount \in Nat, NEW room \in [1..n -> Nat],
         amount <= Sum(room, n)
  PROVE  cascade_by_priority(amount, room, n).surplus = 0
<1> DEFINE c == cascade_by_priority(amount, room, n)
<1>1. /\ c.splits \in [1..n -> Nat] /\ c.surplus \in Nat
      /\ Sum(c.splits, n) + c.surplus = amount
      /\ c.surplus > 0 => \A f \in 1..n : c.splits[f] = room[f]
  BY CascadeSplits
<1> HIDE DEF c
<1>2. Sum(room, n) \in Nat
  BY SumNat
<1>3. CASE c.surplus > 0
  <2>1. c.splits = room
    BY <1>1, <1>3
  <2>2. QED
    BY <1>1, <1>2, <1>3, <2>1
<1>4. QED
  BY <1>1, <1>3 DEF c

-----------------------------------------------------------------------------
\* The lines of the school and a list of named lines, as the counter reads them.
LinesOK(fee, paid, n) ==
  /\ DOMAIN fee = 1..n
  /\ \A f \in 1..n : fee[f].amount \in Nat /\ paid[f] \in Nat

NamedLines(n) == Seq([fee : 1..n, amount : Nat])

\* The room of a line is an amount: what it still owes when it may be served, else nothing.
LEMMA RoomIsNat ==
  ASSUME NEW n \in Nat, NEW fee, NEW paid, LinesOK(fee, paid, n), NEW mine
  PROVE  /\ RoomOf(mine, fee, paid) \in [1..n -> Nat]
         /\ \A f \in 1..n :
              RoomOf(mine, fee, paid)[f] =
                IF f \in mine /\ can_receive_cash(fee[f], paid[f])
                THEN cash_remaining(fee[f], paid[f]) ELSE 0
<1> DEFINE room == RoomOf(mine, fee, paid)
<1>1. \A f \in 1..n : cash_remaining(fee[f], paid[f]) \in Nat
  BY DEF LinesOK, cash_remaining
<1>2. room = [f \in 1..n |-> IF f \in mine /\ can_receive_cash(fee[f], paid[f])
                             THEN cash_remaining(fee[f], paid[f]) ELSE 0]
  BY DEF LinesOK, RoomOf, plannable_fees
<1>3. QED
  BY <1>1, <1>2

\* A line nobody named is asked nothing.
LEMMA DirectedIsNat ==
  ASSUME NEW n \in Nat, NEW items \in NamedLines(n)
  PROVE  LET directed == merge_directed_lines(items, n)
         IN  /\ directed \in [1..n -> Nat]
             /\ \A f \in 1..n : f \notin Named(items) => directed[f] = 0
<1> DEFINE m == Len(items)
           asked(f) == [i \in 1..m |-> IF items[i].fee = f THEN items[i].amount ELSE 0]
<1>1. m \in Nat /\ \A i \in 1..m : items[i].fee \in 1..n /\ items[i].amount \in Nat
  <2>1. m \in Nat /\ items \in [1..m -> [fee : 1..n, amount : Nat]]
    BY LenProperties DEF NamedLines
  <2> HIDE DEF m
  <2>2. QED
    BY <2>1
<1>2. ASSUME NEW f \in 1..n
      PROVE  Sum(asked(f), m) \in Nat
  BY <1>1, SumNat
<1>3. ASSUME NEW f \in 1..n, f \notin Named(items)
      PROVE  Sum(asked(f), m) = 0
  <2>1. asked(f) = [i \in 1..m |-> 0]
    BY <1>3 DEF Named
  <2>2. QED
    BY <1>1, <2>1, SumZero
<1>4. merge_directed_lines(items, n) = [f \in 1..n |-> Sum(asked(f), m)]
  BY DEF merge_directed_lines
<1> HIDE DEF asked
<1>5. QED
  BY <1>2, <1>3, <1>4

\* What is accepted honours the named lines, never puts more on a line than it owes, and
\* leaves something over only when every line is full (_plan_split).
THEOREM SplitsHonour ==
  ASSUME NEW n \in Nat, NEW amount \in Nat, NEW items \in NamedLines(n),
         NEW fee, NEW paid, LinesOK(fee, paid, n), NEW mine,
         resolve_allocation(amount, items, mine, fee, paid, n).accepted
  PROVE  LET issue == resolve_allocation(amount, items, mine, fee, paid, n)
             room  == RoomOf(mine, fee, paid)
         IN  /\ issue.splits \in [1..n -> Nat]
             /\ issue.surplus \in Nat
             /\ \A f \in 1..n : /\ merge_directed_lines(items, n)[f] <= issue.splits[f]
                                /\ issue.splits[f] <= room[f]
             /\ Sum(issue.splits, n) + issue.surplus = amount
             /\ issue.surplus > 0 => issue.splits = room
             /\ \A f, g \in 1..n :
                  f < g /\ issue.splits[g] > merge_directed_lines(items, n)[g] => issue.splits[f] = room[f]
<1> DEFINE issue    == resolve_allocation(amount, items, mine, fee, paid, n)
           room     == RoomOf(mine, fee, paid)
           directed == merge_directed_lines(items, n)
           rest     == amount - Sum(directed, n)
           free     == [f \in 1..n |-> room[f] - directed[f]]
           c        == cascade_by_priority(rest, free, n)
           splits   == [f \in 1..n |-> directed[f] + c.splits[f]]
<1>1. Acceptable(Named(items), directed, mine, fee, paid, amount, n)
  BY DEF resolve_allocation
<1>2. issue.splits = splits /\ issue.surplus = c.surplus
  BY <1>1 DEF resolve_allocation, plan_split
<1>3. /\ directed \in [1..n -> Nat]
      /\ \A f \in 1..n : f \notin Named(items) => directed[f] = 0
  BY DirectedIsNat
<1>4. /\ room \in [1..n -> Nat]
      /\ \A f \in 1..n : room[f] = IF f \in mine /\ can_receive_cash(fee[f], paid[f])
                                   THEN cash_remaining(fee[f], paid[f]) ELSE 0
  BY RoomIsNat
<1>5. \A f \in 1..n : directed[f] <= room[f]
  <2>1. ASSUME NEW f \in 1..n
        PROVE  directed[f] <= room[f]
    <3>1. CASE f \in Named(items)
      <4>1. /\ f \in mine /\ can_receive_cash(fee[f], paid[f])
            /\ directed[f] <= cash_remaining(fee[f], paid[f])
        <5> HIDE DEF directed
        <5>1. QED
          BY <1>1, <3>1 DEF Acceptable
      <4>2. room[f] = cash_remaining(fee[f], paid[f])
        BY <1>4, <4>1
      <4>3. QED
        BY <4>1, <4>2
    <3>2. CASE f \notin Named(items)
      <4>1. directed[f] = 0 /\ room[f] \in Nat
        BY <1>3, <1>4, <3>2
      <4>2. QED
        BY <4>1
    <3>3. QED
      BY <3>1, <3>2
  <2>2. QED
    BY <2>1
<1>6. Sum(directed, n) \in Nat /\ Sum(directed, n) <= amount
  <2>1. Sum(directed, n) \in Nat
    BY <1>3, SumNat
  <2>2. QED
    BY <1>1, <2>1 DEF Acceptable
<1> HIDE DEF room, directed
<1>7. rest \in Nat /\ free \in [1..n -> Nat]
  BY <1>3, <1>4, <1>5, <1>6
<1> HIDE DEF rest, issue
<1>8. /\ c.splits \in [1..n -> Nat] /\ c.surplus \in Nat
      /\ \A f \in 1..n : c.splits[f] <= free[f]
      /\ Sum(c.splits, n) + c.surplus = rest
      /\ c.surplus > 0 => \A f \in 1..n : c.splits[f] = free[f]
      /\ \A f, g \in 1..n : f < g /\ c.splits[g] > 0 => c.splits[f] = free[f]
  <2> HIDE DEF free
  <2>1. QED
    BY <1>7, CascadeSplits
<1>9. \A f \in 1..n : free[f] = room[f] - directed[f]
  OBVIOUS
<1> HIDE DEF c, free
<1>10. splits \in [1..n -> Nat] /\ \A f \in 1..n : splits[f] = directed[f] + c.splits[f]
  BY <1>3, <1>8
<1>11. \A f \in 1..n : directed[f] <= splits[f] /\ splits[f] <= room[f]
  <2> TAKE f \in 1..n
  <2>1. splits[f] = directed[f] + c.splits[f] /\ c.splits[f] \in Nat
    BY <1>8, <1>10
  <2>2. c.splits[f] <= room[f] - directed[f]
    BY <1>8, <1>9
  <2>3. directed[f] \in Nat /\ room[f] \in Nat
    BY <1>3, <1>4
  <2> QED
    BY <2>1, <2>2, <2>3
<1>12. \A f \in 1..n : directed[f] \in Nat /\ room[f] \in Nat
  BY <1>3, <1>4
<1>13. Sum(splits, n) + c.surplus = amount
  <2>1. directed \in [1..n -> Int] /\ c.splits \in [1..n -> Int]
    BY <1>3, <1>8
  <2>2. Sum(splits, n) = Sum(directed, n) + Sum(c.splits, n)
    BY <2>1, SumPlus
  <2>3. Sum(c.splits, n) \in Nat
    BY <1>8, SumNat
  <2>4. rest = amount - Sum(directed, n)
    BY DEF rest
  <2>5. Sum(c.splits, n) + c.surplus = rest /\ c.surplus \in Nat
    BY <1>8
  <2> HIDE DEF splits
  <2>6. QED
    BY <1>6, <2>2, <2>3, <2>4, <2>5
<1>14. c.surplus > 0 => splits = room
  <2>1. SUFFICES ASSUME c.surplus > 0 PROVE splits = room
    OBVIOUS
  <2>2. \A f \in 1..n : splits[f] = room[f]
    <3> TAKE f \in 1..n
    <3>1. splits[f] = directed[f] + c.splits[f]
      BY <1>10
    <3>2. c.splits[f] = free[f] /\ free[f] = room[f] - directed[f]
      BY <1>8, <1>9, <2>1
    <3>3. directed[f] \in Nat /\ room[f] \in Nat
      BY <1>12
    <3> HIDE DEF splits
    <3> QED
      BY ONLY <3>1, <3>2, <3>3
  <2>3. QED
    BY <1>4, <1>10, <2>2
<1> HIDE DEF splits
<1>15. ASSUME NEW f \in 1..n, NEW g \in 1..n, f < g, splits[g] > directed[g]
       PROVE  splits[f] = room[f]
  <2>1. c.splits[g] > 0
    BY <1>8, <1>10, <1>12, <1>15
  <2>2. c.splits[f] = room[f] - directed[f]
    BY <1>8, <1>9, <1>15, <2>1
  <2> QED
    BY <1>10, <1>12, <2>2
<1>16. QED
  BY <1>2, <1>8, <1>10, <1>11, <1>13, <1>14, <1>15 DEF issue, room, directed

\* The control of the lines never refuses what the counter computes: it is a net for other
\* writers (allocation_invariant.verifier, called by _ecrire_versement).
THEOREM TheNetCatchesNothing ==
  ASSUME NEW n \in Nat, NEW amount \in Nat, NEW items \in NamedLines(n),
         NEW fee, NEW paid, LinesOK(fee, paid, n), NEW mine,
         amount <= remaining_cash(mine, fee, paid, n),
         resolve_allocation(amount, items, mine, fee, paid, n).accepted
  PROVE  /\ verifier(amount, resolve_allocation(amount, items, mine, fee, paid, n).splits, n)
         /\ resolve_allocation(amount, items, mine, fee, paid, n).surplus = 0
<1> DEFINE issue == resolve_allocation(amount, items, mine, fee, paid, n)
           room  == RoomOf(mine, fee, paid)
<1>1. /\ issue.splits \in [1..n -> Nat] /\ issue.surplus \in Nat
      /\ Sum(issue.splits, n) + issue.surplus = amount
      /\ issue.surplus > 0 => issue.splits = room
  BY SplitsHonour
<1>2. amount <= Sum(room, n)
  BY DEF remaining_cash
<1> HIDE DEF issue, room
<1>3. Sum(issue.splits, n) \in Nat
  BY <1>1, SumNat
<1>4. issue.surplus = 0
  BY <1>1, <1>2, <1>3
<1>5. Sum(issue.splits, n) = amount
  BY <1>1, <1>3, <1>4
<1>6. QED
  BY <1>4, <1>5 DEF issue, verifier

\* The screen's question (is there a surplus?) and the counter's three (is a line open, is
\* the total due enough, does the split cover the amount?) have the same answer.
THEOREM PreviewAgrees ==
  ASSUME NEW n \in Nat, NEW amount \in Nat \ {0}, NEW items \in NamedLines(n),
         NEW fee, NEW paid, LinesOK(fee, paid, n), NEW mine, mine \subseteq 1..n
  PROVE  preview_allocation(amount, items, mine, fee, paid, n).can_record
           <=> may_record(amount, items, mine, fee, paid, n)
<1> DEFINE issue == resolve_allocation(amount, items, mine, fee, paid, n)
           room  == RoomOf(mine, fee, paid)
<1>1. preview_allocation(amount, items, mine, fee, paid, n).can_record
        <=> mine # {} /\ issue.accepted /\ issue.surplus <= 0
  BY DEF preview_allocation, can_record
<1>2. may_record(amount, items, mine, fee, paid, n)
        <=> /\ plannable_fees(mine, fee, paid) # {}
            /\ amount <= Sum(room, n)
            /\ issue.accepted
            /\ Sum(issue.splits, n) = amount
  BY DEF may_record, remaining_cash, verifier
<1>3. SUFFICES ASSUME issue.accepted
               PROVE  mine # {} /\ issue.surplus <= 0
                        <=> /\ plannable_fees(mine, fee, paid) # {}
                            /\ amount <= Sum(room, n)
                            /\ Sum(issue.splits, n) = amount
  <2> HIDE DEF issue, room
  <2>1. QED
    BY <1>1, <1>2
<1>4. /\ issue.splits \in [1..n -> Nat] /\ issue.surplus \in Nat
      /\ \A f \in 1..n : issue.splits[f] <= room[f]
      /\ Sum(issue.splits, n) + issue.surplus = amount
  <2>1. amount \in Nat
    OBVIOUS
  <2>2. QED
    BY <1>3, <2>1, SplitsHonour
<1>5. /\ room \in [1..n -> Nat]
      /\ \A f \in 1..n : f \notin plannable_fees(mine, fee, paid) => room[f] = 0
  BY RoomIsNat DEF plannable_fees
<1> HIDE DEF issue, room
<1>6. Sum(issue.splits, n) \in Nat /\ Sum(room, n) \in Nat
  BY <1>4, <1>5, SumNat
<1>7. Sum(issue.splits, n) <= Sum(room, n)
  <2>1. issue.splits \in [1..n -> Int] /\ room \in [1..n -> Int]
    BY <1>4, <1>5
  <2>2. QED
    BY <1>4, <2>1, SumMonotone
<1>8. plannable_fees(mine, fee, paid) = {} => Sum(room, n) = 0
  <2>1. SUFFICES ASSUME plannable_fees(mine, fee, paid) = {} PROVE Sum(room, n) = 0
    OBVIOUS
  <2>2. room = [f \in 1..n |-> 0]
    BY <1>5, <2>1
  <2>3. QED
    BY <2>2, SumZero
<1>9. plannable_fees(mine, fee, paid) # {} => mine # {}
  BY DEF plannable_fees
<1>10. issue.surplus <= 0 <=> Sum(issue.splits, n) = amount
  BY <1>4, <1>6
<1>11. Sum(issue.splits, n) = amount =>
         amount <= Sum(room, n) /\ plannable_fees(mine, fee, paid) # {}
  BY <1>6, <1>7, <1>8
<1>12. QED
  BY <1>9, <1>10, <1>11
-----------------------------------------------------------------------------
(* Sums over a finite set, as the totals of the services add them up. *)

SetSum(w, S) == MapThenSumSet(LAMBDA x : w[x], S)

Chosen(s) == CHOOSE x \in s : TRUE

\* What the sum over s is, when f has those over the smaller sets.
NextSum(f, w, s) == IF s = {} THEN 0 ELSE w[Chosen(s)] + f[s \ {Chosen(s)}]

\* f adds up w over every part of S.
Adds(f, w, S) == f = [s \in SUBSET S |-> NextSum(f, w, s)]

\* A set of finite sets that contains the empty one, and each set of which one element can
\* be taken out to be in it, contains all the parts.
LEMMA PartsInduction ==
  ASSUME NEW S, IsFiniteSet(S), NEW P, {} \in P,
         \A s \in SUBSET S : s # {} /\ (\A x \in s : s \ {x} \in P) => s \in P
  PROVE  SUBSET S \subseteq P
<1> DEFINE N == Cardinality(S)
           G == {i \in 0..N : \A s \in SUBSET S : Cardinality(s) <= i => s \in P}
<1>1. N \in Nat /\ \A s \in SUBSET S : IsFiniteSet(s) /\ Cardinality(s) \in Nat /\ Cardinality(s) <= N
  BY FS_Subset, FS_CardinalityType
<1>2. 0 \in G
  <2>1. ASSUME NEW s \in SUBSET S, Cardinality(s) <= 0 PROVE s \in P
    <3>1. Cardinality(s) = 0 /\ IsFiniteSet(s)
      BY <1>1, <2>1
    <3> QED
      BY <3>1, FS_EmptySet
  <2> QED
    BY <1>1, <2>1
<1>3. ASSUME NEW i \in 1..N, i - 1 \in G PROVE i \in G
  <2>1. ASSUME NEW s \in SUBSET S, Cardinality(s) <= i PROVE s \in P
    <3>1. CASE s = {}
      BY <3>1
    <3>2. CASE s # {}
      <4>1. ASSUME NEW x \in s PROVE s \ {x} \in P
        <5>1. Cardinality(s \ {x}) = Cardinality(s) - 1
          BY <1>1, FS_RemoveElement
        <5>2. Cardinality(s \ {x}) <= i - 1 /\ s \ {x} \in SUBSET S
          BY <1>1, <2>1, <5>1
        <5> QED
          BY <1>3, <5>2
      <4> QED
        BY <3>2, <4>1
    <3> QED
      BY <3>1, <3>2
  <2> QED
    BY <2>1
<1> HIDE DEF N, G
<1>4. 0..N \subseteq G
  BY <1>1, <1>2, <1>3, FiniteInduction
<1>5. N \in G
  BY <1>1, <1>4
<1> QED
  BY <1>1, <1>5 DEF G

\* The element a sum takes first is one of the set.
LEMMA ChosenIn == \A s : s # {} => Chosen(s) \in s
  BY DEF Chosen

\* Some function holds the partial sums of every subset: there is one to choose.
LEMMA AddsExists ==
  ASSUME NEW S, IsFiniteSet(S), NEW w \in [S -> Int]
  PROVE  \E f \in [SUBSET S -> Int] : Adds(f, w, S)
<1> DEFINE N == Cardinality(S)
           V == [SUBSET S -> Int]
           more(h) == [s \in SUBSET S |-> NextSum(h, w, s)]
           g == [i \in 1..N |-> [h \in V |-> more(h)]]
           zero == [s \in SUBSET S |-> 0]
<1>1. N \in Nat
  BY FS_CardinalityType
<1>2. \A h \in V : more(h) \in V
  <2> SUFFICES ASSUME NEW h \in V, NEW s \in SUBSET S PROVE NextSum(h, w, s) \in Int
    OBVIOUS
  <2>1. s # {} => Chosen(s) \in S /\ s \ {Chosen(s)} \in SUBSET S
    BY ChosenIn
  <2> QED
    BY <2>1 DEF NextSum
<1>3. zero \in V
  OBVIOUS
<1>4. g \in [1..N -> [V -> V]]
  <2> HIDE DEF V, more
  <2> QED
    BY <1>2
<1>5. PICK r \in [0..N -> V] : IsRun(r, N, zero, g)
  <2> HIDE DEF V, more, g, zero, N
  <2> QED
    BY <1>1, <1>3, <1>4, RunExists
<1>6. r[0] = zero /\ \A i \in 1..N : r[i] = more(r[i - 1])
  <2>1. ASSUME NEW i \in 1..N PROVE r[i - 1] \in V
    <3> HIDE DEF V, N
    <3>1. i - 1 \in 0..N
      BY <1>1
    <3> QED
      BY <3>1
  <2> HIDE DEF V, more, zero
  <2> QED
    BY <1>5, <2>1 DEF IsRun
<1> DEFINE G == {i \in 0..N : \A s \in SUBSET S : Cardinality(s) <= i => r[i][s] = more(r[i])[s]}
<1>7. \A s \in SUBSET S : IsFiniteSet(s) /\ Cardinality(s) \in Nat /\ Cardinality(s) <= N
  BY FS_Subset, FS_CardinalityType
<1>8. 0 \in G
  <2>1. ASSUME NEW s \in SUBSET S, Cardinality(s) <= 0 PROVE r[0][s] = more(r[0])[s]
    <3>1. s = {}
      BY <1>7, <2>1, FS_EmptySet
    <3>2. r[0][s] = 0
      BY <1>6
    <3> QED
      BY <3>1, <3>2 DEF NextSum
  <2> HIDE DEF more
  <2> QED
    BY <1>1, <2>1
<1>9. ASSUME NEW i \in 1..N, i - 1 \in G PROVE i \in G
  <2>1. ASSUME NEW s \in SUBSET S, Cardinality(s) <= i PROVE r[i][s] = more(r[i])[s]
    <3>1. r[i] = more(r[i - 1])
      BY <1>6
    <3>2. CASE s = {}
      BY <3>1, <3>2 DEF NextSum
    <3>3. CASE s # {}
      <4> DEFINE t == s \ {Chosen(s)}
      <4>1. Chosen(s) \in s /\ t \in SUBSET S
        BY <3>3, ChosenIn
      <4>2. Cardinality(t) = Cardinality(s) - 1
        BY <1>7, <4>1, FS_RemoveElement
      <4>3. Cardinality(t) <= i - 1
        BY <1>7, <2>1, <4>2
      <4>4. r[i - 1][t] = more(r[i - 1])[t]
        BY <1>9, <4>1, <4>3
      <4>5. r[i][s] = w[Chosen(s)] + r[i - 1][t]
        BY <3>1, <3>3 DEF NextSum
      <4>6. more(r[i])[s] = w[Chosen(s)] + r[i][t]
        BY <3>3 DEF NextSum
      <4> HIDE DEF t, more
      <4> QED
        BY <3>1, <4>4, <4>5, <4>6
    <3> QED
      BY <3>2, <3>3
  <2> HIDE DEF more
  <2> QED
    BY <2>1
<1>10. 0..N \subseteq G
  <2> HIDE DEF N, G
  <2> QED
    BY <1>1, <1>8, <1>9, FiniteInduction
<1>11. r[N] \in V /\ \A s \in SUBSET S : r[N][s] = more(r[N])[s]
  <2>1. N \in G
    <3> HIDE DEF N, G
    <3> QED
      BY <1>1, <1>10
  <2> HIDE DEF more
  <2> QED
    BY <1>1, <1>7, <2>1
<1>12. r[N] = [s \in SUBSET S |-> NextSum(r[N], w, s)]
  <2> HIDE DEF N
  <2> QED
    BY <1>11
<1> QED
  BY <1>11, <1>12 DEF Adds

\* Two functions that add up the same numbers agree where both do.
LEMMA AddsUnique ==
  ASSUME NEW S, NEW T, NEW s, IsFiniteSet(s), s \subseteq S, s \subseteq T,
         NEW w, NEW u, \A x \in s : w[x] = u[x], NEW f, Adds(f, w, S), NEW g, Adds(g, u, T)
  PROVE  f[s] = g[s]
<1> DEFINE P == {t \in SUBSET s : f[t] = g[t]}
<1>1. \A t \in SUBSET s : f[t] = NextSum(f, w, t) /\ g[t] = NextSum(g, u, t)
  BY DEF Adds
<1>2. {} \in P
  BY <1>1 DEF NextSum
<1>3. ASSUME NEW t \in SUBSET s, t # {}, \A x \in t : t \ {x} \in P
      PROVE  t \in P
  BY <1>1, <1>3, ChosenIn DEF NextSum
<1>4. SUBSET s \subseteq P
  <2> HIDE DEF P
  <2> QED
    BY <1>2, <1>3, PartsInduction
<1> QED
  BY <1>4

\* The sum is what any such function has at the whole set.
LEMMA SetSumIs ==
  ASSUME NEW S, IsFiniteSet(S), NEW w, \A x \in S : w[x] \in Int, NEW T, S \subseteq T,
         NEW f, Adds(f, w, T)
  PROVE  SetSum(w, S) = f[S]
<1> DEFINE u == [x \in S |-> w[x]]
           F == CHOOSE g : Adds(g, w, S)
<1>1. PICK g \in [SUBSET S -> Int] : Adds(g, u, S)
  BY AddsExists
<1>2. \A s \in SUBSET S : NextSum(g, u, s) = NextSum(g, w, s)
  BY ChosenIn DEF NextSum
<1>3. Adds(g, w, S)
  BY <1>1, <1>2 DEF Adds
<1>4. Adds(F, w, S)
  BY <1>3
<1>5. SetSum(w, S) = F[S]
  BY Zenon DEF SetSum, MapThenSumSet, MapThenFoldSet, Adds, NextSum, Chosen
<1> HIDE DEF F
<1> QED
  BY <1>4, <1>5, AddsUnique

\* The lemmas below cite SetSumIs through this one: one function that adds up w over S.
LEMMA PartSums ==
  ASSUME NEW S, IsFiniteSet(S), NEW w, \A x \in S : w[x] \in Int
  PROVE  /\ SetSum(w, {}) = 0
         /\ \A s \in SUBSET S : SetSum(w, s) \in Int
         /\ \A s \in SUBSET S : s # {} =>
              SetSum(w, s) = w[Chosen(s)] + SetSum(w, s \ {Chosen(s)})
<1> DEFINE u == [x \in S |-> w[x]]
<1>1. PICK f \in [SUBSET S -> Int] : Adds(f, u, S)
  BY AddsExists
<1>2. \A s \in SUBSET S : NextSum(f, u, s) = NextSum(f, w, s)
  BY ChosenIn DEF NextSum
<1>3. Adds(f, w, S)
  BY <1>1, <1>2 DEF Adds
<1>4. ASSUME NEW s \in SUBSET S PROVE SetSum(w, s) = f[s]
  <2>1. IsFiniteSet(s) /\ \A x \in s : w[x] \in Int
    BY FS_Subset
  <2> DEFINE v == [x \in s |-> w[x]]
             g == [t \in SUBSET s |-> f[t]]
  <2>2. \A t \in SUBSET s : f[t] = NextSum(f, w, t) /\ NextSum(f, w, t) = NextSum(g, w, t)
    BY <1>3, ChosenIn DEF Adds, NextSum
  <2>3. Adds(g, w, s)
    BY <2>2 DEF Adds
  <2>4. SetSum(w, s) = g[s]
    <3> HIDE DEF g
    <3> QED
      BY <2>1, <2>3, SetSumIs
  <2> QED
    BY <2>4
<1>5. \A s \in SUBSET S : f[s] = NextSum(f, w, s) /\ f[s] \in Int
  BY <1>1, <1>3 DEF Adds
<1>6. f[{}] = 0 /\ \A s \in SUBSET S : s # {} => f[s] = w[Chosen(s)] + f[s \ {Chosen(s)}]
  BY <1>5 DEF NextSum
<1>7. \A s \in SUBSET S : s \ {Chosen(s)} \in SUBSET S
  OBVIOUS
<1>8. {} \in SUBSET S
  OBVIOUS
<1> QED
  BY <1>4, <1>5, <1>6, <1>7, <1>8, Zenon

\* Nothing sums to nothing.
LEMMA SetSumEmpty == \A w : SetSum(w, {}) = 0
<1> SUFFICES ASSUME NEW w PROVE SetSum(w, {}) = 0
  OBVIOUS
<1>1. IsFiniteSet({}) /\ \A x \in {} : w[x] \in Int
  BY FS_EmptySet
<1> QED
  BY <1>1, PartSums

\* Integers sum to an integer.
LEMMA SetSumType ==
  ASSUME NEW S, IsFiniteSet(S), NEW w, \A x \in S : w[x] \in Int
  PROVE  SetSum(w, S) \in Int
  BY PartSums

\* Any element may be added last.
LEMMA SetSumSplit ==
  ASSUME NEW S, IsFiniteSet(S), NEW w, \A x \in S : w[x] \in Int, NEW a \in S
  PROVE  SetSum(w, S) = w[a] + SetSum(w, S \ {a})
<1> DEFINE P == {s \in SUBSET S : \A x \in s : SetSum(w, s) = w[x] + SetSum(w, s \ {x})}
<1>1. \A s \in SUBSET S : s # {} => SetSum(w, s) = w[Chosen(s)] + SetSum(w, s \ {Chosen(s)})
  BY PartSums, Zenon
<1>2. \A s \in SUBSET S : SetSum(w, s) \in Int
  BY PartSums
<1>3. {} \in P
  OBVIOUS
<1>4. ASSUME NEW s \in SUBSET S, s # {}, \A x \in s : s \ {x} \in P
      PROVE  s \in P
  <2> SUFFICES ASSUME NEW x \in s PROVE SetSum(w, s) = w[x] + SetSum(w, s \ {x})
    OBVIOUS
  <2> DEFINE c == Chosen(s)
  <2>1. c \in s
    BY ChosenIn
  <2>2. SetSum(w, s) = w[c] + SetSum(w, s \ {c})
    BY <1>1, <1>4
  <2> HIDE DEF c
  <2>3. CASE x = c
    BY <2>2, <2>3
  <2>4. CASE x # c
    <3> DEFINE t == s \ {c, x}
    <3>1. (s \ {c}) \ {x} = t /\ (s \ {x}) \ {c} = t /\ t \in SUBSET S
      OBVIOUS
    <3>2. SetSum(w, s \ {c}) = w[x] + SetSum(w, t)
      BY <1>4, <2>1, <2>4, <3>1
    <3>3. SetSum(w, s \ {x}) = w[c] + SetSum(w, t)
      BY <1>4, <2>1, <2>4, <3>1
    <3>4. w[x] \in Int /\ w[c] \in Int /\ SetSum(w, t) \in Int
      BY <1>2, <2>1, <3>1
    <3>5. \A p, q, r \in Int : p + (q + r) = q + (p + r)
      OBVIOUS
    <3> HIDE DEF t
    <3>6. SetSum(w, s) = w[c] + (w[x] + SetSum(w, t))
      BY <2>2, <3>2, Zenon
    <3>7. w[c] + (w[x] + SetSum(w, t)) = w[x] + (w[c] + SetSum(w, t))
      BY <3>4, <3>5, Zenon
    <3> QED
      BY <3>3, <3>6, <3>7, Zenon
  <2> QED
    BY <2>3, <2>4
<1>5. SUBSET S \subseteq P
  <2> HIDE DEF P
  <2> QED
    BY <1>3, <1>4, PartsInduction
<1> QED
  BY <1>5

\* One more element adds its own number.
LEMMA SetSumAdd ==
  ASSUME NEW S, IsFiniteSet(S), NEW a, a \notin S, NEW w, \A x \in S \cup {a} : w[x] \in Int
  PROVE  SetSum(w, S \cup {a}) = w[a] + SetSum(w, S)
<1>1. IsFiniteSet(S \cup {a}) /\ (S \cup {a}) \ {a} = S
  BY FS_AddElement
<1> QED
  BY <1>1, SetSumSplit

\* Same numbers, same sum.
LEMMA SetSumSame ==
  ASSUME NEW S, IsFiniteSet(S), NEW w, \A x \in S : w[x] \in Int, NEW u, \A x \in S : u[x] = w[x]
  PROVE  SetSum(u, S) = SetSum(w, S)
<1> DEFINE P == {s \in SUBSET S : SetSum(u, s) = SetSum(w, s)}
<1>1. {} \in P
  BY SetSumEmpty
<1>2. ASSUME NEW s \in SUBSET S, s # {}, \A x \in s : s \ {x} \in P
      PROVE  s \in P
  <2>1. PICK x \in s : TRUE
    BY <1>2
  <2>2. IsFiniteSet(s)
    BY FS_Subset
  <2>3. SetSum(u, s) = u[x] + SetSum(u, s \ {x}) /\ SetSum(w, s) = w[x] + SetSum(w, s \ {x})
    BY <2>2, SetSumSplit
  <2> QED
    BY <1>2, <2>3
<1>3. SUBSET S \subseteq P
  <2> HIDE DEF P
  <2> QED
    BY <1>1, <1>2, PartsInduction
<1> QED
  BY <1>3

\* The sum of sums, of differences and of a constant.
LEMMA SetSumPlus ==
  ASSUME NEW S, IsFiniteSet(S), NEW w, NEW u, NEW v,
         \A x \in S : w[x] \in Int /\ u[x] \in Int /\ v[x] = w[x] + u[x]
  PROVE  SetSum(v, S) = SetSum(w, S) + SetSum(u, S)
<1> DEFINE P == {s \in SUBSET S : SetSum(v, s) = SetSum(w, s) + SetSum(u, s)}
<1>1. {} \in P
  BY SetSumEmpty
<1>2. ASSUME NEW s \in SUBSET S, s # {}, \A x \in s : s \ {x} \in P
      PROVE  s \in P
  <2>1. PICK x \in s : TRUE
    BY <1>2
  <2>2. IsFiniteSet(s) /\ IsFiniteSet(s \ {x}) /\ \A y \in s : v[y] \in Int
    BY FS_Subset
  <2>3. /\ SetSum(u, s) = u[x] + SetSum(u, s \ {x}) /\ SetSum(w, s) = w[x] + SetSum(w, s \ {x})
        /\ SetSum(v, s) = v[x] + SetSum(v, s \ {x})
    BY <2>2, SetSumSplit
  <2>4. SetSum(u, s \ {x}) \in Int /\ SetSum(w, s \ {x}) \in Int
    BY <2>2, SetSumType
  <2>5. SetSum(v, s \ {x}) = SetSum(w, s \ {x}) + SetSum(u, s \ {x})
    BY <1>2
  <2>6. v[x] = w[x] + u[x] /\ w[x] \in Int /\ u[x] \in Int
    OBVIOUS
  <2>7. SetSum(v, s) = SetSum(w, s) + SetSum(u, s)
    BY <2>3, <2>4, <2>5, <2>6
  <2> QED
    BY <2>7
<1>3. SUBSET S \subseteq P
  <2> HIDE DEF P
  <2> QED
    BY <1>1, <1>2, PartsInduction
<1> QED
  BY <1>3

\* Equal numbers sum to as many times that number.
LEMMA SetSumConst ==
  ASSUME NEW S, IsFiniteSet(S), NEW a \in Int, NEW w, \A x \in S : w[x] = a
  PROVE  SetSum(w, S) = a * Cardinality(S)
<1> DEFINE P == {s \in SUBSET S : SetSum(w, s) = a * Cardinality(s)}
<1>1. {} \in P
  BY SetSumEmpty, FS_EmptySet
<1>2. ASSUME NEW s \in SUBSET S, s # {}, \A x \in s : s \ {x} \in P
      PROVE  s \in P
  <2>1. PICK x \in s : TRUE
    BY <1>2
  <2>2. IsFiniteSet(s) /\ IsFiniteSet(s \ {x}) /\ \A y \in s : w[y] \in Int
    BY FS_Subset
  <2>3. SetSum(w, s) = w[x] + SetSum(w, s \ {x})
    BY <2>2, SetSumSplit
  <2>4. Cardinality(s \ {x}) = Cardinality(s) - 1 /\ Cardinality(s) \in Nat
    BY <2>2, FS_RemoveElement, FS_CardinalityType
  <2>5. SetSum(w, s \ {x}) = a * Cardinality(s \ {x}) /\ w[x] = a
    BY <1>2
  <2>6. \A n \in Nat : a * (n - 1) = a * n - a /\ a * n \in Int
    OBVIOUS
  <2>7. a * Cardinality(s \ {x}) = a * Cardinality(s) - a /\ a * Cardinality(s) \in Int
    BY <2>4, <2>6, Zenon
  <2>8. SetSum(w, s) = a * Cardinality(s)
    BY <2>3, <2>5, <2>7
  <2> QED
    BY <2>8
<1>3. SUBSET S \subseteq P
  <2> HIDE DEF P
  <2> QED
    BY <1>1, <1>2, PartsInduction
<1> QED
  BY <1>3

\* What is not in a part counts for nothing.
LEMMA SetSumPart ==
  ASSUME NEW S, IsFiniteSet(S), NEW w, \A x \in S : w[x] \in Int, NEW T \in SUBSET S,
         \A x \in S \ T : w[x] = 0
  PROVE  SetSum(w, S) = SetSum(w, T)
<1> DEFINE P == {s \in SUBSET S : SetSum(w, s) = SetSum(w, s \cap T)}
<1>1. {} \in P
  BY SetSumEmpty
<1>2. ASSUME NEW s \in SUBSET S, s # {}, \A x \in s : s \ {x} \in P
      PROVE  s \in P
  <2>1. PICK x \in s : TRUE
    BY <1>2
  <2>2. IsFiniteSet(s) /\ IsFiniteSet(s \cap T) /\ IsFiniteSet((s \ {x}) \cap T)
    BY FS_Subset
  <2>3. SetSum(w, s) = w[x] + SetSum(w, s \ {x})
    BY <2>2, SetSumSplit
  <2>4. SetSum(w, s \ {x}) = SetSum(w, (s \ {x}) \cap T)
    BY <1>2
  <2>5. CASE x \in T
    <3>1. (s \cap T) \ {x} = (s \ {x}) \cap T
      OBVIOUS
    <3>2. SetSum(w, s \cap T) = w[x] + SetSum(w, (s \cap T) \ {x})
      BY <2>2, <2>5, SetSumSplit
    <3> QED
      BY <2>3, <2>4, <3>1, <3>2
  <2>6. CASE x \notin T
    <3>1. s \cap T = (s \ {x}) \cap T /\ w[x] = 0
      BY <2>6
    <3>2. SetSum(w, s \ {x}) \in Int
      BY <2>2, <2>4, SetSumType
    <3>3. SetSum(w, s) = SetSum(w, s \ {x})
      BY <2>3, <3>1, <3>2
    <3> QED
      BY <2>4, <3>1, <3>3
  <2> QED
    BY <2>5, <2>6
<1>3. SUBSET S \subseteq P
  <2> HIDE DEF P
  <2> QED
    BY <1>1, <1>2, PartsInduction
<1>4. S \cap T = T
  OBVIOUS
<1> QED
  BY <1>3, <1>4

\* Two parts that share nothing.
LEMMA SetSumUnion ==
  ASSUME NEW S, IsFiniteSet(S), NEW T, IsFiniteSet(T), S \cap T = {},
         NEW w, \A x \in S \cup T : w[x] \in Int
  PROVE  SetSum(w, S \cup T) = SetSum(w, S) + SetSum(w, T)
<1> DEFINE u == [x \in S \cup T |-> IF x \in S THEN w[x] ELSE 0]
           v == [x \in S \cup T |-> IF x \in T THEN w[x] ELSE 0]
<1>1. IsFiniteSet(S \cup T)
  BY FS_Union
<1>2. SetSum(w, S \cup T) = SetSum(u, S \cup T) + SetSum(v, S \cup T)
  <2>1. \A x \in S \cup T : u[x] \in Int /\ v[x] \in Int /\ w[x] = u[x] + v[x]
    OBVIOUS
  <2> HIDE DEF u, v
  <2> QED
    BY <1>1, <2>1, SetSumPlus
<1>3. SetSum(u, S \cup T) = SetSum(u, S) /\ SetSum(v, S \cup T) = SetSum(v, T)
  <2>1. /\ \A x \in S \cup T : u[x] \in Int /\ v[x] \in Int
        /\ \A x \in (S \cup T) \ S : u[x] = 0
        /\ \A x \in (S \cup T) \ T : v[x] = 0
    OBVIOUS
  <2> HIDE DEF u, v
  <2> QED
    BY <1>1, <2>1, SetSumPart
<1>4. SetSum(u, S) = SetSum(w, S) /\ SetSum(v, T) = SetSum(w, T)
  <2>1. (\A x \in S : u[x] = w[x]) /\ (\A x \in T : v[x] = w[x])
    OBVIOUS
  <2> HIDE DEF u, v
  <2> QED
    BY <2>1, SetSumSame
<1> QED
  BY <1>2, <1>3, <1>4
\* Larger numbers, larger sum.
LEMMA SetSumMono ==
  ASSUME NEW S, IsFiniteSet(S), NEW w, NEW u,
         \A x \in S : w[x] \in Int /\ u[x] \in Int /\ w[x] <= u[x]
  PROVE  SetSum(w, S) <= SetSum(u, S)
<1> DEFINE P == {s \in SUBSET S : SetSum(w, s) <= SetSum(u, s)}
<1>1. {} \in P
  BY SetSumEmpty
<1>2. ASSUME NEW s \in SUBSET S, s # {}, \A x \in s : s \ {x} \in P
      PROVE  s \in P
  <2>1. PICK x \in s : TRUE
    BY <1>2
  <2>2. IsFiniteSet(s) /\ IsFiniteSet(s \ {x})
    BY FS_Subset
  <2>3. SetSum(u, s) = u[x] + SetSum(u, s \ {x}) /\ SetSum(w, s) = w[x] + SetSum(w, s \ {x})
    BY <2>2, SetSumSplit
  <2>4. SetSum(u, s \ {x}) \in Int /\ SetSum(w, s \ {x}) \in Int
    BY <2>2, SetSumType
  <2>5. SetSum(w, s \ {x}) <= SetSum(u, s \ {x}) /\ w[x] \in Int /\ u[x] \in Int /\ w[x] <= u[x]
    BY <1>2
  <2>6. SetSum(w, s) <= SetSum(u, s)
    BY <2>3, <2>4, <2>5
  <2> QED
    BY <2>6
<1>3. SUBSET S \subseteq P
  <2> HIDE DEF P
  <2> QED
    BY <1>1, <1>2, PartsInduction
<1> QED
  BY <1>3

\* Naturals add up to a natural.
LEMMA SetSumNat ==
  ASSUME NEW S, IsFiniteSet(S), NEW w, \A x \in S : w[x] \in Nat
  PROVE  SetSum(w, S) \in Nat
<1> DEFINE zero == [x \in S |-> 0]
<1>1. SetSum(zero, S) = 0 * Cardinality(S)
  BY SetSumConst
<1>2. SetSum(zero, S) <= SetSum(w, S)
  BY SetSumMono
<1>3. Cardinality(S) \in Nat /\ SetSum(w, S) \in Int
  BY FS_CardinalityType, SetSumType
<1> QED
  BY <1>1, <1>2, <1>3

\* A factor common to all.
LEMMA SetSumScale ==
  ASSUME NEW S, IsFiniteSet(S), NEW w, NEW u, NEW a \in Int,
         \A x \in S : w[x] \in Int /\ u[x] = a * w[x]
  PROVE  SetSum(u, S) = a * SetSum(w, S)
<1> DEFINE P == {s \in SUBSET S : SetSum(u, s) = a * SetSum(w, s)}
<1>1. {} \in P
  BY SetSumEmpty
<1>2. ASSUME NEW s \in SUBSET S, s # {}, \A x \in s : s \ {x} \in P
      PROVE  s \in P
  <2>1. PICK x \in s : TRUE
    BY <1>2
  <2>2. IsFiniteSet(s) /\ IsFiniteSet(s \ {x}) /\ \A y \in s : u[y] \in Int
    BY FS_Subset
  <2>3. SetSum(u, s) = u[x] + SetSum(u, s \ {x}) /\ SetSum(w, s) = w[x] + SetSum(w, s \ {x})
    BY <2>2, SetSumSplit
  <2>4. SetSum(w, s \ {x}) \in Int /\ w[x] \in Int /\ u[x] = a * w[x]
    BY <2>2, SetSumType
  <2>5. SetSum(u, s \ {x}) = a * SetSum(w, s \ {x})
    BY <1>2
  <2>6. \A m, n \in Int : a * (m + n) = a * m + a * n
    OBVIOUS
  <2>7. SetSum(u, s) = a * w[x] + a * SetSum(w, s \ {x})
    BY <2>3, <2>4, <2>5, Zenon
  <2>8. SetSum(u, s) = a * SetSum(w, s)
    BY <2>3, <2>4, <2>6, <2>7, Zenon
  <2> QED
    BY <2>8
<1>3. SUBSET S \subseteq P
  <2> HIDE DEF P
  <2> QED
    BY <1>1, <1>2, PartsInduction
<1> QED
  BY <1>3

\* The largest of finitely many naturals.
LEMMA MaxIs ==
  ASSUME NEW S, IsFiniteSet(S), S # {}, S \subseteq Nat
  PROVE  Max(S) \in S /\ \A x \in S : x <= Max(S)
<1> DEFINE P == {s \in SUBSET S : s # {} => \E m \in s : \A x \in s : x <= m}
<1>1. {} \in P
  OBVIOUS
<1>2. ASSUME NEW s \in SUBSET S, s # {}, \A x \in s : s \ {x} \in P
      PROVE  s \in P
  <2>1. PICK y \in s : TRUE
    BY <1>2
  <2>2. CASE s \ {y} = {}
    <3>1. s = {y} /\ y \in Nat
      BY <2>2
    <3>2. y \in s /\ \A x \in s : x <= y
      BY <3>1
    <3> QED
      BY <3>2
  <2>3. CASE s \ {y} # {}
    <3>1. PICK m \in s \ {y} : \A x \in s \ {y} : x <= m
      BY <1>2, <2>3
    <3>2. m \in Nat /\ y \in Nat
      OBVIOUS
    <3>3. CASE y <= m
      BY <3>1, <3>3
    <3>4. CASE m <= y
      <4>1. \A x \in s : x <= y
        BY <3>1, <3>2, <3>4
      <4> QED
        BY <4>1
    <3> QED
      BY <3>2, <3>3, <3>4
  <2> QED
    BY <2>2, <2>3
<1>3. SUBSET S \subseteq P
  <2> HIDE DEF P
  <2> QED
    BY <1>1, <1>2, PartsInduction
<1>4. \E m \in S : \A x \in S : x <= m
  BY <1>3
<1>5. \E m \in S : \A x \in S : m >= x
  BY <1>4
<1>6. Max(S) \in S /\ \A x \in S : Max(S) >= x
  BY <1>5, Zenon DEF Max
<1> QED
  BY <1>6
=============================================================================
