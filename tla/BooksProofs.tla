----------------------------- MODULE BooksProofs -----------------------------
(***************************************************************************)
(* What is told of the books (Statements), and the books when requests      *)
(* overlap (CounterTx), for any number of families, lines, payments and     *)
(* requests, any grid and any agreement.                                    *)
(*                                                                         *)
(* The screens each sum something else: lines of a family, of a category,   *)
(* payments of a cashier, of a method.  Every total is first turned into a  *)
(* sum over a set (OverLines, AmountIs); the sums agree because a set may   *)
(* be summed by groups (SetSumGroup) and a table by rows or by columns      *)
(* (SetSumExchange), and because a line owes what its status says           *)
(* (LineOwes), which the invariant of Counter gives.                        *)
(*                                                                         *)
(* For the requests that overlap, one invariant (TxIInv) ties every request  *)
(* in progress to the committed rows: the locks it holds or will ask for     *)
(* cover what its handler writes (Covered), no two of them clash             *)
(* (Exclusive), and its snapshot is of the past (Serves).  A handler that    *)
(* finds all it read as it was is the operation of Counter (HandlerAsIs).    *)
(***************************************************************************)
EXTENDS Statements, CounterTx, CounterProofs

USE CashDayAssumption, CounterAssumption

-----------------------------------------------------------------------------
(* Sums over rows, regrouped. *)

\* A sum over a list is the sum over the set of its places.
LEMMA SumIsSetSum ==
  ASSUME NEW n \in Nat, NEW a \in [1..n -> Int]
  PROVE  Sum(a, n) = SetSum(a, 1..n)
<1> DEFINE p == Prefix(a, n)
           I == {i \in 0..n : p[i] = SetSum(a, 1..i)}
<1>1. /\ p[0] = 0
      /\ \A i \in 1..n : p[i] = p[i - 1] + a[i]
      /\ Sum(a, n) = p[n]
  BY SumRec
<1> HIDE DEF p
<1>2. 0 \in I
  <2>1. 1..0 = {}
    OBVIOUS
  <2> QED
    BY <1>1, <2>1, SetSumEmpty
<1>3. ASSUME NEW i \in 1..n, i - 1 \in I
      PROVE  i \in I
  <2> DEFINE B == 1..(i - 1)
  <2>1. /\ 1..i = B \cup {i}
        /\ i \notin B
        /\ \A x \in B \cup {i} : a[x] \in Int
        /\ i \in 0..n
    OBVIOUS
  <2>2. IsFiniteSet(B)
    BY FS_Interval
  <2>3. p[i - 1] = SetSum(a, B)
    BY <1>3
  <2> HIDE DEF B
  <2>4. SetSum(a, B \cup {i}) = a[i] + SetSum(a, B)
    BY <2>1, <2>2, SetSumAdd
  <2>5. SetSum(a, B) \in Int
    BY <2>1, <2>2, SetSumType
  <2>6. p[i] = p[i - 1] + a[i] /\ a[i] \in Int
    BY <1>1
  <2>7. p[i] = SetSum(a, B \cup {i})
    BY ONLY <2>3, <2>4, <2>5, <2>6
  <2>8. p[i] = SetSum(a, 1..i)
    BY <2>1, <2>7
  <2> QED
    BY <2>1, <2>8
<1>4. n \in I
  <2> HIDE DEF I
  <2>1. 0..n \subseteq I
    BY <1>2, <1>3, FiniteInduction
  <2> QED
    BY <2>1
<1> QED
  BY <1>1, <1>4

\* A sum over some rows is the sum over the set of them.
LEMMA SumAtIsSetSum ==
  ASSUME NEW n \in Nat, NEW a, NEW P, P \subseteq 1..n, \A i \in P : a[i] \in Int
  PROVE  SumAt(P, a, n) = SetSum(a, P)
<1> DEFINE w == [i \in 1..n |-> IF i \in P THEN a[i] ELSE 0]
<1>1. w \in [1..n -> Int]
  OBVIOUS
<1>2. SumAt(P, a, n) = Sum(w, n)
  BY DEF SumAt
<1>3. /\ IsFiniteSet(1..n) /\ (\A x \in 1..n : w[x] \in Int)
      /\ P \in SUBSET (1..n) /\ (\A x \in (1..n) \ P : w[x] = 0)
      /\ \A x \in P : a[x] = w[x]
  BY FS_Interval
<1>4. IsFiniteSet(P)
  BY <1>3, FS_Subset
<1> HIDE DEF w
<1>5. Sum(w, n) = SetSum(w, 1..n)
  BY <1>1, SumIsSetSum
<1>6. SetSum(w, 1..n) = SetSum(w, P)
  BY <1>3, SetSumPart
<1>7. SetSum(a, P) = SetSum(w, P)
  <2>1. \A x \in P : w[x] \in Int
    BY <1>3
  <2> QED
    BY <1>3, <1>4, <2>1, SetSumSame
<1> QED
  BY <1>2, <1>5, <1>6, <1>7

\* Rows grouped by a key sum to what they sum to.
LEMMA SetSumGroup ==
  ASSUME NEW A, IsFiniteSet(A), NEW w, \A x \in A : w[x] \in Int,
         NEW K, IsFiniteSet(K), NEW key, \A x \in A : key[x] \in K,
         NEW group, \A k \in K : \A x : x \in group[k] <=> x \in A /\ key[x] = k,
         NEW v, \A k \in K : v[k] = SetSum(w, group[k])
  PROVE  SetSum(v, K) = SetSum(w, A)
<1> DEFINE In(s) == {x \in A : key[x] \in s}
           Q == {s \in SUBSET K : SetSum(v, s) = SetSum(w, In(s))}
<1>0. \A k \in K : v[k] \in Int
  <2> SUFFICES ASSUME NEW k \in K PROVE v[k] \in Int
    OBVIOUS
  <2> DEFINE B == group[k]
  <2>1. B \in SUBSET A
    OBVIOUS
  <2>3. IsFiniteSet(B) /\ \A x \in B : w[x] \in Int
    BY <2>1, FS_Subset
  <2>2. SetSum(w, B) \in Int
    <3> HIDE DEF B
    <3> QED
      BY <2>3, SetSumType
  <2> QED
    BY <2>2
<1>1. {} \in Q
  <2>1. In({}) = {}
    OBVIOUS
  <2> QED
    BY <2>1, SetSumEmpty
<1>2. ASSUME NEW s \in SUBSET K, s # {}, \A x \in s : s \ {x} \in Q
      PROVE  s \in Q
  <2>1. PICK k \in s : TRUE
    BY <1>2
  <2> DEFINE r == s \ {k}
             B == group[k]
  <2>2. SetSum(v, r) = SetSum(w, In(r))
    BY <1>2, <2>1
  <2>3. /\ In(s) = In(r) \cup B /\ In(r) \cap B = {}
        /\ IsFiniteSet(In(r)) /\ IsFiniteSet(B)
        /\ \A x \in In(r) \cup B : w[x] \in Int
    <3>1. In(r) \in SUBSET A /\ B \in SUBSET A
      BY <2>1
    <3>2. IsFiniteSet(In(r)) /\ IsFiniteSet(B)
      BY <3>1, FS_Subset
    <3>3. In(s) = In(r) \cup B /\ In(r) \cap B = {}
      BY <2>1
    <3> QED
      BY <3>1, <3>2, <3>3
  <2>4. /\ IsFiniteSet(r) /\ k \notin r /\ s = r \cup {k}
        /\ \A x \in r \cup {k} : v[x] \in Int
    <3>1. IsFiniteSet(r)
      BY FS_Subset
    <3> QED
      BY <1>0, <2>1, <3>1
  <2>5. v[k] = SetSum(w, B)
    BY <2>1
  <2> HIDE DEF B, r, In
  <2>6. SetSum(w, In(r) \cup B) = SetSum(w, In(r)) + SetSum(w, B)
    BY <2>3, SetSumUnion
  <2>7. SetSum(v, r \cup {k}) = v[k] + SetSum(v, r)
    BY <2>4, SetSumAdd
  <2>8. SetSum(w, B) \in Int /\ SetSum(w, In(r)) \in Int
    BY <2>3, SetSumType
  <2>9. SetSum(v, s) = SetSum(w, In(s))
    BY <2>2, <2>3, <2>4, <2>5, <2>6, <2>7, <2>8
  <2> QED
    BY <2>9
<1>3. K \in Q
  <2> HIDE DEF Q
  <2>1. SUBSET K \subseteq Q
    BY <1>1, <1>2, PartsInduction
  <2> QED
    BY <2>1
<1>4. In(K) = A
  OBVIOUS
<1> QED
  BY <1>3, <1>4

\* A table of integers, with rows A and columns B; the same by columns; the sums of its rows.
IntTable(m, A, B) == \A x \in A, y \in B : m[x][y] \in Int
Transposed(t, m, A, B) == \A y \in B, x \in A : t[y][x] = m[x][y]
RowSums(row, m, A, B) == \A x \in A : row[x] = SetSum(m[x], B)

\* A table sums to the same by rows and by columns.
LEMMA SetSumExchange ==
  ASSUME NEW A, IsFiniteSet(A), NEW B, IsFiniteSet(B), NEW m, IntTable(m, A, B),
         NEW row, RowSums(row, m, A, B), NEW t, Transposed(t, m, A, B),
         NEW col, RowSums(col, t, B, A)
  PROVE  SetSum(row, A) = SetSum(col, B)
<1> USE DEF IntTable, Transposed, RowSums
<1> DEFINE at(y) == t[y]
           part(s) == [y \in B |-> SetSum(at(y), s)]
           Q == {s \in SUBSET A : SetSum(row, s) = SetSum(part(s), B)}
<1>0. \A x \in A : row[x] \in Int
  BY SetSumType
<1>1. {} \in Q
  <2> DEFINE z == part({})
  <2>1. \A y \in B : z[y] = 0
    BY SetSumEmpty
  <2>2. 0 \in Int
    OBVIOUS
  <2> HIDE DEF z
  <2>3. SetSum(z, B) = 0 * Cardinality(B)
    BY <2>1, <2>2, SetSumConst
  <2>4. Cardinality(B) \in Nat
    BY FS_CardinalityType
  <2>5. SetSum(z, B) = 0
    BY <2>3, <2>4
  <2>6. SetSum(row, {}) = 0
    BY SetSumEmpty
  <2> QED
    BY <2>5, <2>6 DEF z
<1>2. ASSUME NEW s \in SUBSET A, s # {}, \A x \in s : s \ {x} \in Q
      PROVE  s \in Q
  <2>1. PICK k \in s : TRUE
    BY <1>2
  <2> DEFINE r == s \ {k}
  <2>2. SetSum(row, r) = SetSum(part(r), B)
    BY <1>2, <2>1
  <2>4. /\ IsFiniteSet(r) /\ k \notin r /\ s = r \cup {k} /\ k \in A /\ r \subseteq A
        /\ \A x \in r \cup {k} : row[x] \in Int
    <3>1. IsFiniteSet(r)
      BY FS_Subset
    <3> QED
      BY <1>0, <2>1, <3>1
  <2> HIDE DEF r
  <2>5. SetSum(row, r \cup {k}) = row[k] + SetSum(row, r)
    BY <2>4, SetSumAdd
  <2>6. \A y \in B : /\ SetSum(at(y), s) = m[k][y] + SetSum(at(y), r)
                     /\ SetSum(at(y), r) \in Int
    <3> SUFFICES ASSUME NEW y \in B
                 PROVE  /\ SetSum(at(y), s) = m[k][y] + SetSum(at(y), r)
                        /\ SetSum(at(y), r) \in Int
      OBVIOUS
    <3> DEFINE a == at(y)
    <3>1. (\A x \in r \cup {k} : a[x] \in Int) /\ a[k] = m[k][y]
      BY <2>4
    <3> HIDE DEF a
    <3>2. SetSum(a, r \cup {k}) = a[k] + SetSum(a, r)
      BY <2>4, <3>1, SetSumAdd
    <3>3. SetSum(a, r) \in Int
      BY <2>4, <3>1, SetSumType
    <3> QED
      BY <2>4, <3>1, <3>2, <3>3 DEF a
  <2> DEFINE pr == part(r)
             ps == part(s)
  <2>70. \A y \in B : pr[y] = SetSum(at(y), r) /\ ps[y] = SetSum(at(y), s)
    OBVIOUS
  <2>7. \A y \in B : pr[y] \in Int /\ m[k][y] \in Int /\ ps[y] = pr[y] + m[k][y]
    <3> HIDE DEF pr, ps, at
    <3>1. \A y \in B : m[k][y] \in Int
      BY <2>4
    <3>2. \A y \in B : m[k][y] + SetSum(at(y), r) = SetSum(at(y), r) + m[k][y]
      BY <2>6, <3>1
    <3> QED
      BY <2>6, <2>70, <3>1, <3>2
  <2> HIDE DEF pr, ps
  <2> DEFINE mk == m[k]
  <2>71. \A y \in B : pr[y] \in Int /\ mk[y] \in Int /\ ps[y] = pr[y] + mk[y]
    BY <2>7
  <2>72. row[k] = SetSum(mk, B)
    BY <2>4
  <2> HIDE DEF mk
  <2>8. SetSum(ps, B) = SetSum(pr, B) + SetSum(mk, B)
    BY <2>71, SetSumPlus
  <2>9. SetSum(mk, B) \in Int /\ SetSum(pr, B) \in Int
    BY <2>71, SetSumType
  <2>10. SetSum(row, r) = SetSum(pr, B)
    BY <2>2 DEF pr
  <2>11. SetSum(row, s) = SetSum(ps, B)
    BY <2>4, <2>5, <2>72, <2>8, <2>9, <2>10
  <2> QED
    BY <2>11 DEF ps
<1>3. A \in Q
  <2> HIDE DEF Q
  <2>1. SUBSET A \subseteq Q
    BY <1>1, <1>2, PartsInduction
  <2> QED
    BY <2>1
<1> DEFINE all == part(A)
<1>4. /\ \A y \in B : all[y] = col[y]
      /\ SetSum(row, A) = SetSum(all, B)
  BY <1>3
<1>5. \A y \in B : col[y] \in Int
  <2> SUFFICES ASSUME NEW y \in B PROVE col[y] \in Int
    OBVIOUS
  <2> DEFINE a == at(y)
  <2>1. (\A x \in A : a[x] \in Int) /\ col[y] = SetSum(a, A)
    OBVIOUS
  <2> HIDE DEF a
  <2> QED
    BY <2>1, SetSumType
<1> HIDE DEF all
<1>6. SetSum(all, B) = SetSum(col, B)
  BY <1>4, <1>5, SetSumSame
<1> QED
  BY <1>4, <1>6

-----------------------------------------------------------------------------
(* The readings of a screen. *)

\* A school has as many lines and payments as it has.
LEMMA SmallSets ==
  /\ IsFiniteSet(Fees) /\ IsFiniteSet(Payments)
  /\ \A L : L \subseteq Fees \/ L \subseteq Payments => IsFiniteSet(L)
<1>1. 1 \in Int /\ FeeCount \in Int /\ MaxPayments \in Int
  OBVIOUS
<1>2. IsFiniteSet(1..FeeCount) /\ IsFiniteSet(1..MaxPayments)
  BY <1>1, FS_Interval
<1>3. IsFiniteSet(Fees) /\ IsFiniteSet(Payments)
  BY <1>2 DEF Fees, Payments
<1> QED
  BY <1>3, FS_Subset

\* What the lines are worth, hold and owe are amounts.
LEMMA LineAmounts ==
  ASSUME MoneyTypeOK
  PROVE  /\ LineAmount \in [Fees -> Nat] /\ LinePaid \in [Fees -> Nat]
         /\ LineRest \in [Fees -> Nat]
         /\ \A f \in Fees : /\ LineAmount[f] = fee[f].amount
                            /\ LinePaid[f] = PaidOn(payment, alloc, f)
                            /\ LineRest[f] = cash_remaining(fee[f], LinePaid[f])
<1>1. \A f \in Fees : fee[f] \in FeeLine /\ fee[f].amount \in Nat
  BY DEF MoneyTypeOK, FeeLine
<1>2. \A f \in Fees : PaidOn(payment, alloc, f) \in Nat
  BY PaidOnIsNat DEF MoneyTypeOK
<1>3. LineAmount \in [Fees -> Nat] /\ \A f \in Fees : LineAmount[f] = fee[f].amount
  BY <1>1 DEF LineAmount
<1>4. LinePaid \in [Fees -> Nat] /\ \A f \in Fees : LinePaid[f] = PaidOn(payment, alloc, f)
  BY <1>2 DEF LinePaid, Paid
<1>5. /\ \A f \in Fees : LineRest[f] = cash_remaining(fee[f], LinePaid[f])
      /\ LineRest \in [Fees -> Nat]
  <2>1. \A f \in Fees : cash_remaining(fee[f], LinePaid[f]) \in Nat
    BY <1>1, <1>4 DEF cash_remaining
  <2> QED
    BY <2>1 DEF LineRest
<1> QED
  BY <1>3, <1>4, <1>5

\* What a line owes, by its status: the stored status tells what is paid.
LEMMA LineOwes ==
  ASSUME MoneyInv, NEW f \in Fees
  PROVE  /\ LineRest[f] > 0 <=> fee[f].status \in {"pending", "partial"}
         /\ is_not_cash_due(fee[f]) => LineRest[f] = 0
         /\ LineRest[f] <= LineAmount[f]
         /\ ~is_not_cash_due(fee[f]) => LineAmount[f] - LinePaid[f] <= LineRest[f]
         /\ ~Overpaid(f) /\ fee[f].status # "in_kind" => LineAmount[f] = LinePaid[f] + LineRest[f]
<1>1. /\ LineAmount[f] \in Nat /\ LinePaid[f] \in Nat /\ LineRest[f] \in Nat
      /\ LineAmount[f] = fee[f].amount
      /\ LinePaid[f] = PaidOn(payment, alloc, f)
      /\ LineRest[f] = cash_remaining(fee[f], LinePaid[f])
  BY LineAmounts DEF MoneyInv
<1>2. fee[f].status = StatusAfter(fee[f], LinePaid[f])
  <2>1. fee[f] = [fee[f] EXCEPT !.status = StatusAfter(fee[f], LinePaid[f])]
    BY <1>1 DEF MoneyInv, StatusTellsWhatIsPaid, recompute_fee_status
  <2>2. fee[f] \in FeeLine
    BY DEF MoneyInv, MoneyTypeOK
  <2> QED
    BY <2>1, <2>2 DEF FeeLine
<1>3. fee[f].status = "waived" => fee[f].amount = 0
  BY DEF MoneyInv, LinesOrdered
<1>4. Overpaid(f) <=> LinePaid[f] > fee[f].amount
  BY <1>1 DEF Overpaid
<1>5. is_not_cash_due(fee[f]) <=> fee[f].status \in {"waived", "in_kind"}
  BY DEF is_not_cash_due, NOT_CASH_DUE
<1> DEFINE st == fee[f].status
           am == fee[f].amount
           pd == LinePaid[f]
           nd == is_not_cash_due(fee[f])
<1>6. /\ nd => st \in {"waived", "in_kind"}
      /\ ~nd /\ pd >= am => st = "paid"
      /\ ~nd /\ pd < am => st \in {"partial", "pending"}
  BY <1>1, <1>2, <1>5 DEF StatusAfter
<1>7. LineRest[f] = IF nd \/ pd >= am THEN 0 ELSE am - pd
  BY <1>1 DEF cash_remaining
<1> QED
  BY <1>1, <1>3, <1>4, <1>5, <1>6, <1>7

\* Totals over lines are sums over their set.
LEMMA OverLines ==
  ASSUME NEW L, L \subseteq Fees, NEW amount, \A f \in L : amount[f] \in Int
  PROVE  SumOver(L, amount) = SetSum(amount, L) /\ IsFiniteSet(L)
<1>1. FeeCount \in Nat /\ L \subseteq 1..FeeCount
  BY DEF Fees
<1>2. IsFiniteSet(L)
  BY SmallSets
<1> QED
  BY <1>1, <1>2, SumAtIsSetSum DEF SumOver

\* The sum of what a screen lists under each key.
LEMMA TotalIs == \A w, D : TotalOf(w, D) = SetSum(w, D)
  BY DEF TotalOf, SetSum

-----------------------------------------------------------------------------
(* The takings. *)

\* Every line has a category, of which there are finitely many.
LEMMA CategoriesFinite ==
  /\ IsFiniteSet(Categories) /\ \A f \in Fees : CategoryOf[f] \in Categories
  /\ \A category \in Categories : LinesOf(category) \subseteq Fees
<1>1. IsFiniteSet(Fees)
  BY SmallSets
<1>2. Categories = {CategoryOf[f] : f \in Fees}
  BY DEF Categories
<1>3. IsFiniteSet(Categories)
  <2> DEFINE g == [f \in Fees |-> CategoryOf[f]]
  <2>1. g \in Surjection(Fees, Categories)
    BY <1>2 DEF Surjection
  <2> QED
    BY <1>1, <2>1, FS_Surjection
<1> QED
  BY <1>2, <1>3 DEF LinesOf

\* Lines shared among the categories sum to what they sum to.
LEMMA ByCategory ==
  ASSUME NEW w, \A f \in Fees : w[f] \in Int,
         NEW v, \A category \in Categories : v[category] = SetSum(w, LinesOf(category))
  PROVE  SetSum(v, Categories) = SetSum(w, Fees)
<1> DEFINE group == [category \in Categories |-> LinesOf(category)]
<1>1. \A category \in Categories :
        \A f : f \in group[category] <=> f \in Fees /\ CategoryOf[f] = category
  BY DEF LinesOf
<1>2. \A category \in Categories : v[category] = SetSum(w, group[category])
  OBVIOUS
<1>3. /\ IsFiniteSet(Fees) /\ IsFiniteSet(Categories)
      /\ \A f \in Fees : CategoryOf[f] \in Categories
  BY SmallSets, CategoriesFinite
<1> HIDE DEF group
<1> QED
  BY <1>1, <1>2, <1>3, SetSumGroup

\* An amount of payments is a sum over the set of them.
LEMMA AmountIs ==
  ASSUME MoneyTypeOK, NEW P, P \subseteq Payments
  PROVE  /\ AmountOf(P) = SetSum([p \in Payments |-> payment[p].amount], P)
         /\ IsFiniteSet(P) /\ \A p \in Payments : payment[p].amount \in Nat
<1> DEFINE amount == [p \in Payments |-> payment[p].amount]
<1>1. \A p \in Payments : payment[p].amount \in Nat
  BY DEF MoneyTypeOK, Payment
<1>2. IsFiniteSet(P)
  BY SmallSets
<1>3. MaxPayments \in Nat /\ P \subseteq 1..MaxPayments /\ \A p \in P : amount[p] \in Int
  BY <1>1 DEF Payments
<1> HIDE DEF amount
<1>4. SumAt(P, amount, MaxPayments) = SetSum(amount, P)
  BY <1>3, SumAtIsSetSum
<1> QED
  BY <1>1, <1>2, <1>4 DEF AmountOf, amount

\* The points by category tell the payments of the journal: what was put on the lines is
\* what was received, line by line and payment by payment.
LEMMA TakingsByCategory ==
  ASSUME MoneyTypeOK, LinesCoverPayment, NEW c
  PROVE  AmountOf(CompletedBy(c)) =
           TotalOf([category \in Categories |-> load_category_ledger(category, c).total_en_argent],
                   Categories)
<1> DEFINE P     == CompletedBy(c)
           amt   == [p \in Payments |-> payment[p].amount]
           byfee == paid_by_fee_for_scope(c)
           told  == [category \in Categories |-> load_category_ledger(category, c).total_en_argent]
           row   == [p \in P |-> SetSum(alloc[p], Fees)]
<1>1. P \subseteq Payments
  BY DEF CompletedBy
<1>2. AmountOf(P) = SetSum(amt, P) /\ IsFiniteSet(P) /\ \A p \in Payments : amt[p] \in Nat
  BY <1>1, AmountIs
<1>3. /\ IsFiniteSet(Fees)
      /\ \A p \in Payments : alloc[p] \in [Fees -> Nat]
  BY SmallSets DEF MoneyTypeOK
<1>4. \A p \in P : row[p] = amt[p]
  <2> SUFFICES ASSUME NEW p \in P PROVE SetSum(alloc[p], Fees) = payment[p].amount
    BY <1>1
  <2> DEFINE a == alloc[p]
  <2>1. FeeCount \in Nat /\ a \in [1..FeeCount -> Int] /\ Fees = 1..FeeCount
    BY <1>1, <1>3 DEF Fees
  <2>2. Sum(a, FeeCount) = payment[p].amount
    BY <1>1 DEF LinesCoverPayment
  <2> HIDE DEF a
  <2>3. Sum(a, FeeCount) = SetSum(a, Fees)
    BY <2>1, SumIsSetSum
  <2> QED
    BY <2>2, <2>3 DEF a
<1>5. SetSum(row, P) = SetSum(amt, P)
  <2>1. \A p \in P : amt[p] \in Int
    BY <1>1, <1>2
  <2> HIDE DEF row, amt, P
  <2> QED
    BY <1>2, <1>4, <2>1, SetSumSame
<1> DEFINE t == [f \in Fees |-> [p \in P |-> alloc[p][f]]]
<1>6. \A f \in Fees : byfee[f] = SetSum(t[f], P) /\ byfee[f] \in Int
  <2> SUFFICES ASSUME NEW f \in Fees
               PROVE  byfee[f] = SetSum(t[f], P) /\ byfee[f] \in Int
    OBVIOUS
  <2> DEFINE a == [p \in Payments |-> alloc[p][f]]
             b == t[f]
  <2>1. byfee[f] = SumAt(P, a, MaxPayments)
    BY DEF paid_by_fee_for_scope
  <2>2. /\ MaxPayments \in Nat /\ P \subseteq 1..MaxPayments
        /\ \A p \in P : a[p] \in Int /\ b[p] = a[p]
    BY <1>1, <1>3 DEF Payments
  <2> HIDE DEF a, b, P, byfee
  <2>3. SumAt(P, a, MaxPayments) = SetSum(a, P)
    BY <2>2, SumAtIsSetSum
  <2>4. SetSum(b, P) = SetSum(a, P) /\ SetSum(a, P) \in Int
    BY <1>2, <2>2, SetSumSame, SetSumType
  <2> QED
    BY <2>1, <2>3, <2>4 DEF b
<1>7. SetSum(row, P) = SetSum(byfee, Fees)
  <2> DEFINE m == [p \in P |-> alloc[p]]
  <2>1. IntTable(m, P, Fees)
    BY <1>1, <1>3 DEF IntTable
  <2>2. RowSums(row, m, P, Fees)
    BY DEF RowSums
  <2>3. Transposed(t, m, P, Fees)
    BY DEF Transposed
  <2>4. RowSums(byfee, t, Fees, P)
    BY <1>6 DEF RowSums
  <2>5. IsFiniteSet(P) /\ IsFiniteSet(Fees)
    BY <1>2, <1>3
  <2> HIDE DEF m, row, byfee, P, t, amt, told
  <2> QED
    BY ONLY <2>1, <2>2, <2>3, <2>4, <2>5, SetSumExchange
<1>8. \A category \in Categories :
        told[category] = SetSum(byfee, LinesOf(category))
  <2> SUFFICES ASSUME NEW category \in Categories
               PROVE  load_category_ledger(category, c).total_en_argent = SetSum(byfee, LinesOf(category))
    OBVIOUS
  <2> DEFINE L == LinesOf(category)
             mine == paid_by_fee_ids(L, c)
  <2>1. load_category_ledger(category, c).total_en_argent = SumOver(L, mine)
    BY DEF load_category_ledger, totaliser
  <2>2. L \subseteq Fees
    BY CategoriesFinite
  <2>3. \A f \in L : mine[f] = byfee[f] /\ mine[f] \in Int /\ byfee[f] \in Int
    BY <1>6, <2>2 DEF paid_by_fee_ids
  <2> HIDE DEF L, mine, byfee
  <2>4. SumOver(L, mine) = SetSum(mine, L) /\ IsFiniteSet(L)
    BY <2>2, <2>3, OverLines
  <2>5. SetSum(mine, L) = SetSum(byfee, L)
    BY <2>3, <2>4, SetSumSame
  <2> QED
    BY <2>1, <2>4, <2>5 DEF L
<1>9. SetSum(told, Categories) = SetSum(byfee, Fees)
  <2>1. \A f \in Fees : byfee[f] \in Int
    BY <1>6
  <2> HIDE DEF told, byfee
  <2> QED
    BY <1>8, <2>1, ByCategory
<1> QED
  BY <1>2, <1>5, <1>7, <1>9, TotalIs

\* The methods share the takings.
LEMMA TakingsByMethod ==
  ASSUME MoneyTypeOK, PaymentsAreReal, NEW c
  PROVE  AmountOf(CompletedBy(c)) = TotalOf(build_journal(c).by_method, Methods)
<1> DEFINE P   == CompletedBy(c)
           amt == [p \in Payments |-> payment[p].amount]
           by  == [m \in Methods |-> AmountOf({p \in P : payment[p].method = m})]
           key == [p \in P |-> payment[p].method]
<1>1. P \subseteq Payments
  BY DEF CompletedBy
<1>2. AmountOf(P) = SetSum(amt, P) /\ IsFiniteSet(P) /\ \A p \in Payments : amt[p] \in Nat
  BY <1>1, AmountIs
<1>3. build_journal(c).by_method = by
  BY DEF build_journal
<1>4. \A p \in P : key[p] \in Methods
  BY DEF CompletedBy, PaymentsAreReal
<1> DEFINE group == [m \in Methods |-> {p \in P : payment[p].method = m}]
<1>5. \A m \in Methods : by[m] = SetSum(amt, group[m])
  <2> SUFFICES ASSUME NEW m \in Methods PROVE by[m] = SetSum(amt, group[m])
    OBVIOUS
  <2> DEFINE T == group[m]
  <2>1. T \subseteq Payments /\ by[m] = AmountOf(T)
    BY <1>1
  <2> HIDE DEF T, by
  <2> QED
    BY <2>1, AmountIs DEF T
<1>6. SetSum(by, Methods) = SetSum(amt, P)
  <2>1. IsFiniteSet(Methods) /\ \A p \in P : amt[p] \in Int
    BY <1>1, <1>2, StatementsAssumption
  <2>2. \A m \in Methods : \A p : p \in group[m] <=> p \in P /\ key[p] = m
    OBVIOUS
  <2> HIDE DEF by, key, P, amt, group
  <2> QED
    BY <1>2, <1>4, <1>5, <2>1, <2>2, SetSumGroup
<1> QED
  BY <1>2, <1>3, <1>6, TotalIs

\* The book's cash is what the drawer expects: nothing pending is in cash.
LEMMA CashOfTheBook ==
  ASSUME MoneyTypeOK, PaymentsAreReal, NEW c \in Cashiers, NEW d \in Days, "cash" \in Methods
  PROVE  cashier_breakdown(c, d)["cash"] = DayCash(payment, c, d)
<1> DEFINE T == {p \in CompletedBy(c) : payment[p].day = d /\ payment[p].method = "cash"}
           amt == [p \in Payments |-> payment[p].amount]
           book == [p \in 1..MaxPayments |-> IF p \in T THEN amt[p] ELSE 0]
           drawer == [p \in Payments |->
              IF /\ payment[p].status \in LIVE_STATUSES
                 /\ payment[p].method = "cash" /\ payment[p].received_by = c /\ payment[p].day = d
              THEN payment[p].amount ELSE 0]
<1>1. cashier_breakdown(c, d)["cash"] = Sum(book, MaxPayments)
  BY DEF cashier_breakdown, AmountOf, SumAt
<1>2. DayCash(payment, c, d) = Sum(drawer, MaxPayments)
  BY DEF DayCash
<1>3. c # None
  BY StatementsAssumption
<1>4. ASSUME NEW p \in Payments
      PROVE  p \in T <=> /\ payment[p].status \in LIVE_STATUSES
                         /\ payment[p].method = "cash" /\ payment[p].received_by = c
                         /\ payment[p].day = d
  BY <1>3 DEF CompletedBy, LIVE_STATUSES, PaymentsAreReal
<1>5. book = drawer
  <2> HIDE DEF T
  <2> QED
    BY <1>4 DEF Payments
<1> QED
  BY <1>1, <1>2, <1>5

\* The screens of the takings agree in every state of sound books.
LEMMA TillAgrees ==
  ASSUME MoneyTypeOK, LinesCoverPayment, PaymentsAreReal
  PROVE  OneTill
<1>1. ASSUME NEW c \in Cashiers \cup {None}
      PROVE  /\ build_journal(c).total_encaisse = AmountOf(CompletedBy(c))
             /\ get_payments_summary(c).total_collected = AmountOf(CompletedBy(c))
  <2>1. {p \in WithStatus("completed") : c \in {None, payment[p].received_by}} = CompletedBy(c)
    BY DEF WithStatus, CompletedBy
  <2>2. get_payments_summary(c).total_collected
          = AmountOf({p \in WithStatus("completed") : c \in {None, payment[p].received_by}})
    BY DEF get_payments_summary
  <2>3. build_journal(c).total_encaisse = AmountOf(CompletedBy(c))
    BY DEF build_journal
  <2> QED
    BY <2>1, <2>2, <2>3
<1> QED
  BY <1>1, TakingsByCategory, TakingsByMethod, CashOfTheBook DEF OneTill

-----------------------------------------------------------------------------
(* The debt. *)

\* A family's debt, by the counter, the receipt and its schedule.
LEMMA DebtOfAFamily ==
  ASSUME MoneyInv, NEW e \in Enrollments
  PROVE  LET situation == situation_from_fees(e)
         IN  /\ remaining_cash(FeesOf(e), fee, LinePaid, FeeCount) = remaining_by_enrollment(e)
             /\ situation.total_remaining = remaining_by_enrollment(e)
             /\ NoLineOverpaid(e) =>
                  situation.total_due - situation.total_paid = situation.total_remaining
<1> DEFINE situation == situation_from_fees(e)
           F == FeesOf(e)
           M == {f \in F : fee[f].status # "in_kind"}
<1>1. /\ F \subseteq Fees /\ M \subseteq Fees /\ M \subseteq F
      /\ DOMAIN fee = Fees /\ Fees = 1..FeeCount /\ FeeCount \in Nat
  BY DEF FeesOf, MoneyInv, MoneyTypeOK, Fees
<1>2. /\ LineAmount \in [Fees -> Nat] /\ LinePaid \in [Fees -> Nat] /\ LineRest \in [Fees -> Nat]
      /\ \A f \in Fees : LineRest[f] = cash_remaining(fee[f], LinePaid[f])
  BY LineAmounts DEF MoneyInv
<1>3. remaining_cash(F, fee, LinePaid, FeeCount) = remaining_by_enrollment(e)
  <2>1. \A f \in Fees : RoomOf(F, fee, LinePaid)[f] = IF f \in F THEN LineRest[f] ELSE 0
    <3> SUFFICES ASSUME NEW f \in Fees
                 PROVE  RoomOf(F, fee, LinePaid)[f] = IF f \in F THEN LineRest[f] ELSE 0
      OBVIOUS
    <3>1. RoomOf(F, fee, LinePaid)[f] =
            IF f \in plannable_fees(F, fee, LinePaid) THEN LineRest[f] ELSE 0
      BY <1>1, <1>2 DEF RoomOf
    <3>2. f \in plannable_fees(F, fee, LinePaid) <=> f \in F /\ LineRest[f] > 0
      BY <1>2, LineOwes DEF plannable_fees, can_receive_cash
    <3>3. LineRest[f] \in Nat
      BY <1>2
    <3> HIDE DEF F
    <3> QED
      BY <3>1, <3>2, <3>3
  <2>2. RoomOf(F, fee, LinePaid) = [f \in 1..FeeCount |-> IF f \in F THEN LineRest[f] ELSE 0]
    <3>1. RoomOf(F, fee, LinePaid) = [f \in 1..FeeCount |-> RoomOf(F, fee, LinePaid)[f]]
      BY <1>1 DEF RoomOf
    <3> QED
      BY <1>1, <2>1, <3>1
  <2> QED
    BY <2>2 DEF remaining_cash, remaining_by_enrollment, SumOver, SumAt
<1>4. situation.total_remaining = remaining_by_enrollment(e)
  BY DEF situation_from_fees, remaining_by_enrollment
<1>5. ASSUME NoLineOverpaid(e)
      PROVE  situation.total_due - situation.total_paid = situation.total_remaining
  <2>1. /\ situation.total_due = SumOver(M, LineAmount)
        /\ situation.total_paid = SumOver(M, LinePaid)
        /\ situation.total_remaining = SumOver(F, LineRest)
    BY DEF situation_from_fees
  <2>2. /\ SumOver(M, LineAmount) = SetSum(LineAmount, M)
        /\ SumOver(M, LinePaid) = SetSum(LinePaid, M)
        /\ SumOver(F, LineRest) = SetSum(LineRest, F)
        /\ IsFiniteSet(M) /\ IsFiniteSet(F)
    <3> HIDE DEF M, F
    <3>1. /\ \A f \in M : LineAmount[f] \in Int /\ LinePaid[f] \in Int
          /\ \A f \in F : LineRest[f] \in Int
      BY <1>1, <1>2
    <3> QED
      BY <1>1, <3>1, OverLines
  <2>3. \A f \in F \ M : LineRest[f] = 0
    <3>1. \A f \in F \ M : f \in Fees /\ is_not_cash_due(fee[f])
      BY <1>1 DEF is_not_cash_due, NOT_CASH_DUE
    <3> QED
      BY <3>1, LineOwes
  <2>4. \A f \in M : /\ LinePaid[f] \in Int /\ LineRest[f] \in Int
                     /\ LineAmount[f] = LinePaid[f] + LineRest[f]
    <3> SUFFICES ASSUME NEW f \in M
                 PROVE  /\ LinePaid[f] \in Int /\ LineRest[f] \in Int
                        /\ LineAmount[f] = LinePaid[f] + LineRest[f]
      OBVIOUS
    <3>1. f \in Fees /\ ~Overpaid(f) /\ fee[f].status # "in_kind"
      BY <1>1, <1>5 DEF NoLineOverpaid
    <3>2. LineAmount[f] = LinePaid[f] + LineRest[f]
      BY <3>1, LineOwes
    <3> QED
      BY <1>2, <3>1, <3>2
  <2>5. SetSum(LineAmount, M) = SetSum(LinePaid, M) + SetSum(LineRest, M)
    <3> HIDE DEF M
    <3> QED
      BY <2>2, <2>4, SetSumPlus
  <2>6. SetSum(LineRest, F) = SetSum(LineRest, M)
    <3>1. M \in SUBSET F /\ \A f \in F : LineRest[f] \in Int
      BY <1>1, <1>2
    <3> HIDE DEF M, F
    <3> QED
      BY <2>2, <2>3, <3>1, SetSumPart
  <2>7. SetSum(LinePaid, M) \in Int /\ SetSum(LineRest, M) \in Int
    <3> HIDE DEF M
    <3> QED
      BY <2>2, <2>4, SetSumType
  <2> HIDE DEF situation, M, F
  <2> QED
    BY <2>1, <2>2, <2>5, <2>6, <2>7
<1> QED
  BY <1>3, <1>4, <1>5

\* What the schedule is drawn on: what is due, paid and owed on the mandatory lines.
LEMMA DueAndPaid ==
  ASSUME MoneyInv, NEW e \in Enrollments
  PROVE  /\ mandatory_total(e) \in Nat /\ paid_on_mandatory(e) \in Nat /\ OwedOnMandatory(e) \in Nat
         /\ mandatory_total(e) - paid_on_mandatory(e) <= OwedOnMandatory(e)
         /\ OwedOnMandatory(e) <= mandatory_total(e)
         /\ NoLineOverpaid(e) =>
              mandatory_total(e) = paid_on_mandatory(e) + OwedOnMandatory(e)
<1> DEFINE D == DueLines(e)
<1>1. D \subseteq Fees /\ D \subseteq FeesOf(e) /\ \A f \in D : ~is_not_cash_due(fee[f])
  BY DEF DueLines, FeesOf
<1>2. /\ LineAmount \in [Fees -> Nat] /\ LinePaid \in [Fees -> Nat] /\ LineRest \in [Fees -> Nat]
  BY LineAmounts DEF MoneyInv
<1>3. \A f \in D : /\ LineAmount[f] \in Nat /\ LinePaid[f] \in Nat /\ LineRest[f] \in Nat
                   /\ LineAmount[f] - LinePaid[f] <= LineRest[f]
                   /\ LineRest[f] <= LineAmount[f]
                   /\ ~Overpaid(f) => LineAmount[f] = LinePaid[f] + LineRest[f]
  <2> SUFFICES ASSUME NEW f \in D
               PROVE  /\ LineAmount[f] \in Nat /\ LinePaid[f] \in Nat /\ LineRest[f] \in Nat
                      /\ LineAmount[f] - LinePaid[f] <= LineRest[f]
                      /\ LineRest[f] <= LineAmount[f]
                      /\ ~Overpaid(f) => LineAmount[f] = LinePaid[f] + LineRest[f]
    OBVIOUS
  <2>1. f \in Fees /\ ~is_not_cash_due(fee[f]) /\ fee[f].status # "in_kind"
    BY <1>1 DEF is_not_cash_due, NOT_CASH_DUE
  <2> QED
    BY <1>2, <2>1, LineOwes
<1> HIDE DEF D
<1>4. /\ SumOver(D, LineAmount) = SetSum(LineAmount, D)
      /\ SumOver(D, LinePaid) = SetSum(LinePaid, D)
      /\ SumOver(D, LineRest) = SetSum(LineRest, D)
      /\ IsFiniteSet(D)
  <2>1. \A f \in D : LineAmount[f] \in Int /\ LinePaid[f] \in Int /\ LineRest[f] \in Int
    BY <1>3
  <2> QED
    BY <1>1, <2>1, OverLines
<1>5. SetSum(LineAmount, D) \in Nat /\ SetSum(LinePaid, D) \in Nat /\ SetSum(LineRest, D) \in Nat
  BY <1>3, <1>4, SetSumNat
<1> DEFINE both == [f \in D |-> LinePaid[f] + LineRest[f]]
<1>6. \A f \in D : /\ LinePaid[f] \in Int /\ LineRest[f] \in Int /\ LineAmount[f] \in Int
                   /\ both[f] = LinePaid[f] + LineRest[f] /\ both[f] \in Int
                   /\ LineAmount[f] <= both[f]
  BY <1>3
<1> HIDE DEF both
<1>7. SetSum(both, D) = SetSum(LinePaid, D) + SetSum(LineRest, D)
  BY <1>4, <1>6, SetSumPlus
<1>8. SetSum(LineAmount, D) <= SetSum(both, D)
  BY <1>4, <1>6, SetSumMono
<1>9. SetSum(LineRest, D) <= SetSum(LineAmount, D)
  BY <1>3, <1>4, <1>6, SetSumMono
<1>10. ASSUME NoLineOverpaid(e)
       PROVE  SetSum(LineAmount, D) = SetSum(LinePaid, D) + SetSum(LineRest, D)
  <2>1. \A f \in D : LineAmount[f] = LinePaid[f] + LineRest[f]
    BY <1>1, <1>3, <1>10 DEF NoLineOverpaid
  <2> QED
    BY <1>4, <1>6, <2>1, SetSumPlus
<1>11. /\ mandatory_total(e) = SetSum(LineAmount, D)
       /\ paid_on_mandatory(e) = SetSum(LinePaid, D)
       /\ OwedOnMandatory(e) = SetSum(LineRest, D)
  BY <1>4 DEF mandatory_total, paid_on_mandatory, OwedOnMandatory, D
<1> QED
  BY <1>5, <1>7, <1>8, <1>9, <1>10, <1>11

\* The screen of all schedules tells that debt.
LEMMA OverviewTells ==
  ASSUME MoneyInv, NEW e \in Enrollments
  PROVE  /\ overview(e).due = mandatory_total(e) /\ overview(e).paid = paid_on_mandatory(e)
         /\ overview(e).remaining <= OwedOnMandatory(e)
         /\ NoLineOverpaid(e) => overview(e).remaining = OwedOnMandatory(e)
<1>1. /\ overview(e).due = mandatory_total(e) /\ overview(e).paid = paid_on_mandatory(e)
      /\ overview(e).remaining =
           mandatory_total(e) - AtMost(mandatory_total(e), paid_on_mandatory(e))
  BY DEF overview, resolve_schedule
<1> QED
  BY <1>1, DueAndPaid DEF AtMost

\* The point of a category and its card, and who is on the list of the unpaid.
LEMMA DebtOfACategory ==
  ASSUME MoneyInv, NEW category \in Categories
  PROVE  /\ load_category_ledger(category, None) = load_categories_overview(None)[category]
         /\ load_category_ledger(category, None).eleves_restant_du
              = Cardinality(ListedUnder(category, "impayes"))
         /\ load_category_ledger(category, None).total_restant_du
              = SetSum(LineRest, LinesOf(category))
         /\ load_category_ledger(category, None).total_restant_du
              <= load_category_ledger(category, None).total_attendu
<1> DEFINE L    == LinesOf(category)
           some == paid_by_fee_ids(L, None)
           all  == paid_by_fee_for_scope(None)
           rest == [f \in L |-> cash_remaining(fee[f], some[f])]
           due  == {f \in L : ~is_not_cash_due(fee[f])}
<1>1. L \subseteq Fees
  BY CategoriesFinite
<1>2. \A f \in L : some[f] = all[f]
  BY DEF paid_by_fee_ids
<1>3. \A f \in Fees : all[f] = LinePaid[f]
  <2>1. \A p \in Payments : p \in CompletedBy(None) <=> payment[p].status = "completed"
    BY DEF CompletedBy
  <2> SUFFICES ASSUME NEW f \in Fees PROVE all[f] = LinePaid[f]
    OBVIOUS
  <2>2. all[f] = Sum([p \in 1..MaxPayments |->
                        IF p \in CompletedBy(None) THEN [q \in Payments |-> alloc[q][f]][p] ELSE 0],
                     MaxPayments)
    BY DEF paid_by_fee_for_scope, SumAt
  <2>3. [p \in 1..MaxPayments |->
           IF p \in CompletedBy(None) THEN [q \in Payments |-> alloc[q][f]][p] ELSE 0]
        = [p \in Payments |-> IF payment[p].status = "completed" THEN alloc[p][f] ELSE 0]
    BY <2>1 DEF Payments
  <2> QED
    BY <2>2, <2>3 DEF LinePaid, Paid, PaidOn
<1>4. /\ LineAmount \in [Fees -> Nat] /\ LinePaid \in [Fees -> Nat] /\ LineRest \in [Fees -> Nat]
      /\ \A f \in Fees : LineRest[f] = cash_remaining(fee[f], LinePaid[f])
  BY LineAmounts DEF MoneyInv
<1>5. \A f \in L : rest[f] = LineRest[f] /\ rest[f] \in Nat
  BY <1>1, <1>2, <1>3, <1>4
<1>6. /\ load_category_ledger(category, None).eleves_restant_du = Cardinality({f \in L : rest[f] > 0})
      /\ load_category_ledger(category, None).total_restant_du = SumOver(L, rest)
      /\ load_category_ledger(category, None).total_attendu = SumOver(due, LineAmount)
  BY DEF load_category_ledger, totaliser
<1>7. SumOver(L, rest) = SetSum(LineRest, L) /\ IsFiniteSet(L)
  <2> HIDE DEF rest, L
  <2>1. \A f \in L : rest[f] \in Int /\ LineRest[f] \in Int
    BY <1>5
  <2>2. SumOver(L, rest) = SetSum(rest, L) /\ IsFiniteSet(L)
    BY <1>1, <2>1, OverLines
  <2>3. SetSum(rest, L) = SetSum(LineRest, L)
    BY <1>5, <2>1, <2>2, SetSumSame
  <2> QED
    BY <2>2, <2>3
<1>8. {f \in L : rest[f] > 0} = ListedUnder(category, "impayes")
  <2>1. ListedUnder(category, "impayes") = {f \in L : fee[f].status \in {"pending", "partial"}}
    BY DEF ListedUnder, SEAUX
  <2>2. \A f \in L : rest[f] > 0 <=> fee[f].status \in {"pending", "partial"}
    BY <1>1, <1>5, LineOwes
  <2> HIDE DEF rest, L
  <2> QED
    BY <2>1, <2>2
<1>9. SetSum(LineRest, L) <= SumOver(due, LineAmount)
  <2>1. due \in SUBSET L /\ due \subseteq Fees
    BY <1>1
  <2>2. \A f \in L \ due : LineRest[f] = 0
    BY <1>1, LineOwes
  <2>3. \A f \in L : LineRest[f] \in Int /\ LineAmount[f] \in Int /\ LineRest[f] <= LineAmount[f]
    <3> SUFFICES ASSUME NEW f \in L
                 PROVE  LineRest[f] \in Int /\ LineAmount[f] \in Int /\ LineRest[f] <= LineAmount[f]
      OBVIOUS
    <3>1. f \in Fees
      BY <1>1
    <3>2. LineRest[f] <= LineAmount[f]
      BY <3>1, LineOwes
    <3> QED
      BY <1>4, <3>1, <3>2
  <2> HIDE DEF L, due
  <2>4. SetSum(LineRest, L) = SetSum(LineRest, due)
    BY <1>7, <2>1, <2>2, <2>3, SetSumPart
  <2>5. SumOver(due, LineAmount) = SetSum(LineAmount, due) /\ IsFiniteSet(due)
    BY <2>1, <2>3, OverLines
  <2>6. SetSum(LineRest, due) <= SetSum(LineAmount, due)
    BY <2>1, <2>3, <2>5, SetSumMono
  <2> QED
    BY <2>4, <2>5, <2>6
<1>10. load_category_ledger(category, None) = load_categories_overview(None)[category]
  <2>1. load_categories_overview(None)[category] = totaliser(L, all, all, None)
    BY DEF load_categories_overview
  <2>2. load_category_ledger(category, None) = totaliser(L, some, some, None)
    BY DEF load_category_ledger
  <2>3. rest = [f \in L |-> cash_remaining(fee[f], all[f])]
    BY <1>2
  <2>4. SumOver(L, some) = SumOver(L, all)
    <3>1. [f \in 1..FeeCount |-> IF f \in L THEN some[f] ELSE 0]
          = [f \in 1..FeeCount |-> IF f \in L THEN all[f] ELSE 0]
      BY <1>2
    <3> QED
      BY <3>1 DEF SumOver, SumAt
  <2>5. {f \in L : some[f] > 0} = {f \in L : all[f] > 0}
    BY <1>2
  <2> HIDE DEF L, some, all
  <2> QED
    BY <2>1, <2>2, <2>3, <2>4, <2>5 DEF totaliser
<1> QED
  BY <1>6, <1>7, <1>8, <1>9, <1>10

\* Lines shared among the families sum to what they sum to.
LEMMA ByEnrollment ==
  ASSUME NEW D, D \subseteq Fees, NEW w, \A f \in D : w[f] \in Int,
         NEW v, \A e \in Enrollments : v[e] = SumOver(D \cap FeesOf(e), w)
  PROVE  SumOver(D, w) = TotalOf(v, Enrollments)
<1>1. SumOver(D, w) = SetSum(w, D) /\ IsFiniteSet(D)
  BY OverLines
<1> DEFINE group == [e \in Enrollments |-> D \cap FeesOf(e)]
<1>2. \A e \in Enrollments : v[e] = SetSum(w, group[e])
  <2> SUFFICES ASSUME NEW e \in Enrollments PROVE v[e] = SetSum(w, group[e])
    OBVIOUS
  <2> DEFINE B == group[e]
  <2>1. B \subseteq Fees /\ (\A f \in B : w[f] \in Int) /\ v[e] = SumOver(B, w)
    OBVIOUS
  <2> HIDE DEF B
  <2>2. SumOver(B, w) = SetSum(w, B)
    BY <2>1, OverLines
  <2> QED
    BY <2>1, <2>2 DEF B
<1>3. /\ IsFiniteSet(Enrollments) /\ \A f \in D : EnrollmentOf[f] \in Enrollments
      /\ \A e \in Enrollments : \A f : f \in group[e] <=> f \in D /\ EnrollmentOf[f] = e
  BY StatementsAssumption DEF FeesOf
<1> HIDE DEF group
<1>4. SetSum(v, Enrollments) = SetSum(w, D)
  BY <1>1, <1>2, <1>3, SetSumGroup
<1> QED
  BY <1>1, <1>4, TotalIs

\* The school's totals: by category and by family, and the figures above the payments.
LEMMA DebtOfTheSchool ==
  ASSUME MoneyInv
  PROVE  /\ TotalOf([category \in Categories |->
                       load_category_ledger(category, None).total_restant_du], Categories)
              = TotalOf([e \in Enrollments |-> remaining_by_enrollment(e)], Enrollments)
         /\ get_payments_summary(None).total_expected
              = TotalOf([e \in Enrollments |-> overview(e).due], Enrollments)
         /\ get_payments_summary(None).total_paid
              = TotalOf([e \in Enrollments |-> overview(e).paid], Enrollments)
<1>1. /\ LineAmount \in [Fees -> Nat] /\ LinePaid \in [Fees -> Nat] /\ LineRest \in [Fees -> Nat]
  BY LineAmounts DEF MoneyInv
<1>2. IsFiniteSet(Fees) /\ \A f \in Fees : /\ LineAmount[f] \in Int /\ LinePaid[f] \in Int
                                           /\ LineRest[f] \in Int
  BY <1>1, SmallSets
<1>3. SumOver(Fees, LineRest) = TotalOf([e \in Enrollments |-> remaining_by_enrollment(e)], Enrollments)
  <2> DEFINE v == [e \in Enrollments |-> remaining_by_enrollment(e)]
  <2> SUFFICES SumOver(Fees, LineRest) = TotalOf(v, Enrollments)
    OBVIOUS
  <2>1. \A e \in Enrollments : v[e] = SumOver(Fees \cap FeesOf(e), LineRest)
    <3>1. \A e \in Enrollments : Fees \cap FeesOf(e) = FeesOf(e)
      BY DEF FeesOf
    <3> QED
      BY <3>1 DEF remaining_by_enrollment
  <2> HIDE DEF v
  <2> QED
    BY <1>2, <2>1, ByEnrollment
<1>4. SumOver(Fees, LineRest) =
        TotalOf([category \in Categories |-> load_category_ledger(category, None).total_restant_du],
                Categories)
  <2> DEFINE v == [category \in Categories |-> load_category_ledger(category, None).total_restant_du]
  <2> SUFFICES SumOver(Fees, LineRest) = TotalOf(v, Categories)
    OBVIOUS
  <2>1. SumOver(Fees, LineRest) = SetSum(LineRest, Fees)
    BY <1>2, OverLines
  <2>2. \A category \in Categories : v[category] = SetSum(LineRest, LinesOf(category))
    BY DebtOfACategory
  <2> HIDE DEF v
  <2>3. SetSum(v, Categories) = SetSum(LineRest, Fees)
    BY <1>2, <2>2, ByCategory
  <2> QED
    BY <2>1, <2>3, TotalIs
<1> DEFINE due == UNION {DueLines(e) : e \in Enrollments}
<1>5. due \subseteq Fees /\ \A e \in Enrollments : due \cap FeesOf(e) = DueLines(e)
  BY DEF DueLines, FeesOf
<1>6. /\ get_payments_summary(None).total_expected = SumOver(due, LineAmount)
      /\ get_payments_summary(None).total_paid = SumOver(due, LinePaid)
  BY DEF get_payments_summary
<1> HIDE DEF due
<1>7. SumOver(due, LineAmount) = TotalOf([e \in Enrollments |-> overview(e).due], Enrollments)
  <2> DEFINE v == [e \in Enrollments |-> overview(e).due]
  <2> SUFFICES SumOver(due, LineAmount) = TotalOf(v, Enrollments)
    OBVIOUS
  <2>1. \A e \in Enrollments : v[e] = SumOver(due \cap FeesOf(e), LineAmount)
    BY <1>5, OverviewTells DEF mandatory_total
  <2>2. \A f \in due : LineAmount[f] \in Int
    BY <1>2, <1>5
  <2> HIDE DEF v
  <2> QED
    BY <1>5, <2>1, <2>2, ByEnrollment
<1>8. SumOver(due, LinePaid) = TotalOf([e \in Enrollments |-> overview(e).paid], Enrollments)
  <2> DEFINE v == [e \in Enrollments |-> overview(e).paid]
  <2> SUFFICES SumOver(due, LinePaid) = TotalOf(v, Enrollments)
    OBVIOUS
  <2>1. \A e \in Enrollments : v[e] = SumOver(due \cap FeesOf(e), LinePaid)
    BY <1>5, OverviewTells DEF paid_on_mandatory
  <2>2. \A f \in due : LinePaid[f] \in Int
    BY <1>2, <1>5
  <2> HIDE DEF v
  <2> QED
    BY <1>5, <2>1, <2>2, ByEnrollment
<1> QED
  BY <1>3, <1>4, <1>6, <1>7, <1>8

\* The screens of the debt agree in every state of sound books.
LEMMA DebtAgrees ==
  ASSUME MoneyInv
  PROVE  OneDebt
  BY DebtOfAFamily, OverviewTells, DebtOfACategory, DebtOfTheSchool DEF OneDebt

-----------------------------------------------------------------------------
(* The schedules. *)

GridLine == [fixed : BOOLEAN, value : Nat \ {0}, due : Nat]
PlanRow  == [amount : Nat \ {0}, due : Nat]

\* The percentages of a grid share what is left of the debt to the franc: the last one takes
\* what the others left.
LEMMA SharesAddUp ==
  ASSUME NEW lines \in Seq(GridLine), NEW total \in Nat
  PROVE  /\ \A i \in Percentages(lines) : split_by_percentage(total, lines)[i] \in Int
         /\ IsFiniteSet(Percentages(lines)) /\ Percentages(lines) \subseteq 1..Len(lines)
         /\ Percentages(lines) # {} =>
              SetSum(split_by_percentage(total, lines), Percentages(lines)) = total
<1> DEFINE P     == Percentages(lines)
           n     == Len(lines)
           share == [i \in P |-> rounded_share(total, lines[i].value)]
           s     == split_by_percentage(total, lines)
<1>1. n \in Nat /\ DOMAIN lines = 1..n /\ \A i \in 1..n : lines[i] \in GridLine
  <2>1. n \in Nat /\ lines \in [1..n -> GridLine]
    BY LenProperties
  <2> QED
    BY <2>1
<1>2. P \subseteq 1..n /\ IsFiniteSet(P)
  <2>1. P \in SUBSET (1..n)
    BY <1>1 DEF Percentages
  <2>2. IsFiniteSet(1..n)
    BY <1>1, FS_Interval
  <2> QED
    BY <2>1, <2>2, FS_Subset
<1>3. \A i \in P : share[i] \in Int
  <2> SUFFICES ASSUME NEW i \in P PROVE rounded_share(total, lines[i].value) \in Int
    OBVIOUS
  <2>1. lines[i].value \in Nat
    BY <1>1, <1>2 DEF GridLine
  <2> QED
    BY <2>1 DEF rounded_share
<1>4. \A i \in P : s[i] = IF \E j \in P : j > i THEN share[i] ELSE total - SumAt(P \ {i}, share, n)
  BY DEF split_by_percentage
<1> HIDE DEF P, n, share, s
<1>5. \A i \in P : /\ SumAt(P \ {i}, share, n) = SetSum(share, P \ {i})
                   /\ SetSum(share, P \ {i}) \in Int
  <2> SUFFICES ASSUME NEW i \in P
               PROVE  /\ SumAt(P \ {i}, share, n) = SetSum(share, P \ {i})
                      /\ SetSum(share, P \ {i}) \in Int
    OBVIOUS
  <2> DEFINE R == P \ {i}
  <2>1. R \subseteq 1..n /\ (\A x \in R : share[x] \in Int) /\ IsFiniteSet(R)
    BY <1>2, <1>3, FS_Subset
  <2> HIDE DEF R
  <2>2. SumAt(R, share, n) = SetSum(share, R) /\ SetSum(share, R) \in Int
    BY <1>1, <2>1, SumAtIsSetSum, SetSumType
  <2> QED
    BY <2>2 DEF R
<1>6. \A i \in P : s[i] \in Int
  <2> SUFFICES ASSUME NEW i \in P PROVE s[i] \in Int
    OBVIOUS
  <2>1. s[i] = share[i] \/ s[i] = total - SetSum(share, P \ {i})
    BY <1>4, <1>5
  <2>2. share[i] \in Int /\ SetSum(share, P \ {i}) \in Int
    BY <1>3, <1>5
  <2> QED
    BY <2>1, <2>2
<1>7. ASSUME P # {}
      PROVE  SetSum(s, P) = total
  <2> DEFINE m == Max(P)
  <2>1. m \in P /\ \A x \in P : x <= m
    <3>1. P \subseteq Nat
      BY <1>1, <1>2
    <3> QED
      BY <1>2, <1>7, <3>1, MaxIs
  <2> HIDE DEF m
  <2> DEFINE R == P \ {m}
  <2>2. m \in Nat /\ \A x \in P : x \in Nat
    BY <1>1, <1>2, <2>1
  <2>3. s[m] = total - SetSum(share, R)
    <3>1. ~\E j \in P : j > m
      BY <2>1, <2>2
    <3> QED
      BY <1>4, <1>5, <2>1, <3>1
  <2>4. \A x \in R : s[x] = share[x]
    <3> SUFFICES ASSUME NEW x \in R PROVE s[x] = share[x]
      OBVIOUS
    <3>1. x \in P /\ m > x
      BY <2>1, <2>2
    <3> QED
      BY <1>4, <2>1, <3>1
  <2>5. IsFiniteSet(R) /\ \A x \in R : share[x] \in Int
    BY <1>2, <1>3, FS_Subset
  <2>6. SetSum(s, P) = s[m] + SetSum(s, R)
    BY <1>2, <1>6, <2>1, SetSumSplit
  <2> HIDE DEF R
  <2>7. SetSum(s, R) = SetSum(share, R) /\ SetSum(share, R) \in Int
    BY <2>4, <2>5, SetSumSame, SetSumType
  <2> QED
    BY <2>3, <2>6, <2>7
<1> QED
  BY <1>2, <1>6, <1>7 DEF P, n, s

\* A grid never asks for more than is due, whatever its fixed amounts come to.
LEMMA GridAsksNoMore ==
  ASSUME NEW lines \in Seq(GridLine), NEW total \in Nat
  PROVE  /\ resolve_grid_amounts(total, lines) \in [1..Len(lines) -> Int]
         /\ Sum(resolve_grid_amounts(total, lines), Len(lines)) <= total
<1> DEFINE n     == Len(lines)
           P     == Percentages(lines)
           room  == [i \in 1..n |-> IF lines[i].fixed THEN lines[i].value ELSE 0]
           fixed == cascade_by_priority(total, room, n)
           s     == split_by_percentage(fixed.surplus, lines)
           a     == resolve_grid_amounts(total, lines)
           b     == [i \in 1..n |-> IF i \in P THEN s[i] ELSE 0]
           f     == fixed.splits
<1>1. n \in Nat /\ DOMAIN lines = 1..n /\ \A i \in 1..n : lines[i] \in GridLine
  <2>1. n \in Nat /\ lines \in [1..n -> GridLine]
    BY LenProperties
  <2> QED
    BY <2>1
<1>2. \A i \in 1..n : /\ lines[i].fixed \in BOOLEAN /\ lines[i].value \in Nat
                      /\ i \in P <=> ~lines[i].fixed
  BY <1>1 DEF GridLine, Percentages, IsPercentage
<1>3. room \in [1..n -> Nat]
  BY <1>2
<1>4. \A i \in 1..n : i \in P => room[i] = 0
  BY <1>2
<1>5. a = [i \in 1..n |-> IF lines[i].fixed THEN f[i] ELSE s[i]]
  BY DEF resolve_grid_amounts
<1> HIDE DEF room
<1>6. /\ f \in [1..n -> Nat] /\ fixed.surplus \in Nat
      /\ \A i \in 1..n : f[i] <= room[i]
      /\ Sum(f, n) + fixed.surplus = total
  BY <1>1, <1>3, CascadeSplits
<1> HIDE DEF fixed, f
<1>7. /\ \A i \in P : s[i] \in Int
      /\ IsFiniteSet(P) /\ P \subseteq 1..n
      /\ P # {} => SetSum(s, P) = fixed.surplus
  BY <1>6, SharesAddUp
<1> HIDE DEF s, P
<1>8. \A i \in 1..n : i \in P => f[i] = 0
  <2> SUFFICES ASSUME NEW i \in 1..n, i \in P PROVE f[i] = 0
    OBVIOUS
  <2>1. f[i] \in Nat /\ f[i] <= 0
    BY <1>4, <1>6
  <2> QED
    BY <2>1
<1>9. b \in [1..n -> Int] /\ f \in [1..n -> Int] /\ \A i \in 1..n : b[i] = IF i \in P THEN s[i] ELSE 0
  BY <1>6, <1>7
<1>10. Sum(b, n) = SetSum(s, P)
  <2>1. Sum(b, n) = SumAt(P, s, n)
    BY DEF SumAt
  <2>2. n \in Nat /\ P \subseteq 1..n /\ \A i \in P : s[i] \in Int
    BY <1>1, <1>7
  <2> HIDE DEF b, n, a
  <2>3. SumAt(P, s, n) = SetSum(s, P)
    BY ONLY <2>2, SumAtIsSetSum
  <2> QED
    BY <2>1, <2>3
<1> HIDE DEF b, n, a
<1>11. a = [i \in 1..n |-> f[i] + b[i]]
  <2>1. \A i \in 1..n : (IF lines[i].fixed THEN f[i] ELSE s[i]) = f[i] + b[i]
    <3> SUFFICES ASSUME NEW i \in 1..n
                 PROVE  (IF lines[i].fixed THEN f[i] ELSE s[i]) = f[i] + b[i]
      OBVIOUS
    <3>1. f[i] \in Nat /\ (i \in P => s[i] \in Int /\ f[i] = 0)
      BY <1>6, <1>7, <1>8
    <3>2. b[i] = IF i \in P THEN s[i] ELSE 0
      BY <1>9
    <3> QED
      BY <1>2, <3>1, <3>2
  <2> QED
    BY <1>5, <2>1
<1>12. a \in [1..n -> Int]
  BY <1>9, <1>11
<1>13. Sum(a, n) = Sum(f, n) + Sum(b, n)
  BY <1>1, <1>9, <1>11, SumPlus
<1>14. Sum(f, n) \in Nat
  BY <1>1, <1>6, SumNat
<1>15. Sum(b, n) <= fixed.surplus
  <2>1. CASE P = {}
    BY <1>6, <1>10, <2>1, SetSumEmpty
  <2>2. CASE P # {}
    BY <1>6, <1>7, <1>10, <2>2
  <2> QED
    BY <2>1, <2>2
<1>16. Sum(b, n) \in Int
  <2>1. CASE P = {}
    BY <1>10, <2>1, SetSumEmpty
  <2>2. CASE P # {}
    BY <1>6, <1>7, <1>10, <2>2
  <2> QED
    BY <2>1, <2>2
<1>17. Sum(a, n) <= total
  BY ONLY total \in Nat, <1>6, <1>13, <1>14, <1>15, <1>16
<1> QED
  BY <1>12, <1>17 DEF a, n

\* Two lists with the same places are as long.
LEMMA SameEnd ==
  ASSUME NEW k \in Nat, NEW m \in Nat, 1..k = 1..m
  PROVE  k = m
<1>1. \A i \in Int : i \in 1..k <=> i \in 1..m
  BY Zenon
<1>2. \A i \in Int : (1 <= i /\ i <= k) <=> (1 <= i /\ i <= m)
  BY <1>1
<1>3. (1 <= k => k <= m) /\ (1 <= m => m <= k)
  BY <1>2
<1> QED
  BY <1>3

\* A family's schedule: amounts, and no more than is due when it is the grid's.
LEMMA ScheduleIs ==
  ASSUME MoneyInv, grid \in Grids \cup {<<>>}, plan \in [Enrollments -> Plans \cup {<<>>}],
         NEW e \in Enrollments
  PROVE  LET rows == ScheduleRows(e)
             n    == Len(rows)
         IN  /\ n \in Nat /\ DOMAIN rows = 1..n /\ \A i \in 1..n : rows[i].amount \in Int
             /\ plan[e] = <<>> => Scheduled(rows) <= mandatory_total(e)
<1> DEFINE rows  == ScheduleRows(e)
           n     == Len(rows)
           total == mandatory_total(e)
           m     == Len(grid)
           a     == resolve_grid_amounts(total, grid)
           drawn == [i \in 1..m |-> [amount |-> a[i], due |-> grid[i].due]]
<1>1. total \in Nat
  BY DueAndPaid
<1>2. CASE plan[e] # <<>>
  <2>1. rows = plan[e]
    BY <1>2 DEF ScheduleRows
  <2>2. plan[e] \in Seq(PlanRow)
    BY <1>2, StatementsAssumption DEF PlanRow
  <2> HIDE DEF rows
  <2>3. n \in Nat /\ rows \in [1..n -> PlanRow] /\ DOMAIN rows = 1..n
    BY <2>1, <2>2, LenProperties
  <2> QED
    BY <1>2, <2>3 DEF PlanRow, rows
<1>3. CASE plan[e] = <<>>
  <2>1. rows = drawn
    BY <1>3 DEF ScheduleRows
  <2>2. grid \in Seq(GridLine)
    BY StatementsAssumption, EmptySeq DEF GridLine
  <2>3. m \in Nat /\ grid \in [1..m -> GridLine]
    BY <2>2, LenProperties
  <2> HIDE DEF total, a
  <2>4. a \in [1..m -> Int] /\ Sum(a, m) <= total
    BY <1>1, <2>2, GridAsksNoMore DEF a
  <2> DEFINE Row == [amount : Int, due : Nat]
  <2>5. drawn \in [1..m -> Row]
    BY <2>3, <2>4 DEF GridLine
  <2>6. drawn \in Seq(Row)
    BY <2>3, <2>5, SeqDef
  <2>7. Len(drawn) = m
    <3>1. DOMAIN drawn = 1..Len(drawn) /\ Len(drawn) \in Nat
      BY <2>6, LenProperties
    <3>2. DOMAIN drawn = 1..m
      OBVIOUS
    <3> DEFINE k == Len(drawn)
    <3>3. k \in Nat /\ 1..k = 1..m
      BY <3>1, <3>2
    <3> HIDE DEF drawn, k
    <3>4. k = m
      BY <2>3, <3>3, SameEnd
    <3> QED
      BY <3>4 DEF k
  <2>8. \A i \in 1..m : drawn[i].amount = a[i]
    OBVIOUS
  <2>9. DOMAIN drawn = 1..m
    OBVIOUS
  <2> HIDE DEF drawn, rows
  <2>10. n = m
    BY <2>1, <2>7
  <2>11. Scheduled(rows) = Sum(a, m)
    <3>1. [i \in 1..Len(rows) |-> rows[i].amount] = [i \in 1..m |-> a[i]]
      BY <2>1, <2>8, <2>10
    <3>2. [i \in 1..m |-> a[i]] = a
      BY <2>4
    <3> QED
      BY <2>10, <3>1, <3>2 DEF Scheduled
  <2>12. \A i \in 1..n : rows[i].amount \in Int
    BY <2>1, <2>4, <2>8, <2>10
  <2> QED
    BY <2>1, <2>3, <2>4, <2>9, <2>10, <2>11, <2>12 DEF rows, total
<1> QED
  BY <1>2, <1>3

\* What is told late is owed, in every state of sound books and typed schedules.
LEMMA LateIsTold ==
  ASSUME MoneyInv, grid \in Grids \cup {<<>>}, plan \in [Enrollments -> Plans \cup {<<>>}]
  PROVE  LateIsOwed
<1> SUFFICES ASSUME NEW e \in Enrollments, ~AsksTooMuch(resolve_schedule(e))
             PROVE  LET s       == resolve_schedule(e)
                        all_due == \A i \in DOMAIN s.rows : s.rows[i].due <= today
                    IN  /\ s.late_amount <= OwedOnMandatory(e)
                        /\ OwedOnMandatory(e) = 0 => ensure_releasable(e, FALSE, FALSE)
                        /\ all_due /\ s.unscheduled_amount = 0 /\ NoLineOverpaid(e)
                             => s.late_amount = OwedOnMandatory(e)
                        /\ overview(e).state = "settled" /\ NoLineOverpaid(e)
                             => OwedOnMandatory(e) = 0
  BY DEF LateIsOwed
<1> DEFINE s     == resolve_schedule(e)
           rows  == ScheduleRows(e)
           n     == Len(rows)
           total == mandatory_total(e)
           paid  == paid_on_mandatory(e)
           owed  == OwedOnMandatory(e)
           asked == [i \in 1..n |-> rows[i].amount]
           due   == [i \in 1..n |-> IF rows[i].due <= today THEN rows[i].amount ELSE 0]
           late  == s.late_amount
<1>1. /\ s.rows = rows /\ s.total_mandatory = total
      /\ late = compute_arrears(rows, paid)
      /\ s.unscheduled_amount = total - AtMost(total, Scheduled(rows))
      /\ s.source = "negotiated" <=> plan[e] # <<>>
  <2>1. /\ s.rows = rows /\ s.total_mandatory = total
        /\ late = compute_arrears(rows, paid)
        /\ s.unscheduled_amount = total - AtMost(total, Scheduled(rows))
    BY DEF resolve_schedule
  <2>2. s.source = CASE plan[e] # <<>>                 -> "negotiated"
                     [] plan[e] = <<>> /\ grid # <<>>  -> "standard"
                     [] OTHER                          -> "none"
    BY DEF resolve_schedule
  <2> HIDE DEF s
  <2>3. s.source = "negotiated" <=> plan[e] # <<>>
    BY <2>2
  <2> QED
    BY <2>1, <2>3
<1>2. /\ total \in Nat /\ paid \in Nat /\ owed \in Nat
      /\ total - paid <= owed
      /\ NoLineOverpaid(e) => total = paid + owed
  BY DueAndPaid
<1>3. /\ n \in Nat /\ DOMAIN rows = 1..n /\ \A i \in 1..n : rows[i].amount \in Int
      /\ plan[e] = <<>> => Scheduled(rows) <= total
  BY ScheduleIs
<1>4. evaluate_release(e).blocked <=> late > 0
  BY DEF evaluate_release
<1>5. overview(e).state = "settled" => paid >= total
  <2>1. overview(e).state = IF total <= 0 THEN "no_fees"
                            ELSE IF s.late_amount > 0 THEN "late"
                            ELSE IF s.source = "none" THEN "unconfigured"
                            ELSE IF s.unscheduled_amount > 0 THEN "partial_schedule"
                            ELSE IF paid >= total THEN "settled" ELSE "on_track"
    BY <1>1 DEF overview
  <2> HIDE DEF s, paid, total
  <2> QED
    BY <2>1
<1>6. AsksTooMuch(s) <=> \/ s.source = "negotiated" /\ Scheduled(s.rows) > s.total_mandatory
                         \/ \E i \in DOMAIN s.rows : s.rows[i].amount < 0
  BY DEF AsksTooMuch
<1>7. ~AsksTooMuch(s)
  OBVIOUS
<1>8. compute_arrears(rows, paid) = Sum(due, n) - AtMost(Sum(due, n), paid)
  BY DEF compute_arrears
<1>9. Scheduled(rows) = Sum(asked, n)
  BY DEF Scheduled
<1> HIDE DEF s, rows, n, total, paid, owed, late
<1>10. \A i \in 1..n : asked[i] \in Int /\ asked[i] >= 0
  BY <1>1, <1>3, <1>6, <1>7
<1>11. asked \in [1..n -> Nat] /\ asked \in [1..n -> Int] /\ due \in [1..n -> Int]
  BY <1>3, <1>10
<1>12. \A i \in 1..n : due[i] <= asked[i]
  BY <1>10
<1> DEFINE all_due == \A i \in DOMAIN s.rows : s.rows[i].due <= today
<1>13. all_due => due = asked
  BY <1>1, <1>3
<1> HIDE DEF asked, due, all_due
<1> DEFINE A == Sum(asked, n)
           D == Sum(due, n)
<1>14. A \in Nat /\ D <= A
  BY <1>3, <1>11, <1>12, SumNat, SumMonotone
<1>15. D \in Int
  BY <1>3, <1>11, SumRec
<1>16. A <= total
  BY <1>1, <1>2, <1>3, <1>6, <1>7, <1>9, <1>14
<1>17. all_due => D = A
  BY <1>13
<1> HIDE DEF A, D
<1>18. late = IF D <= paid THEN 0 ELSE D - paid
  BY <1>1, <1>2, <1>8, <1>15 DEF AtMost, D
<1>19. late <= owed /\ late \in Int
  BY <1>2, <1>14, <1>15, <1>16, <1>18
<1>20. owed = 0 => ~evaluate_release(e).blocked
  BY <1>2, <1>4, <1>19
<1>21. all_due /\ s.unscheduled_amount = 0 /\ NoLineOverpaid(e) => late = owed
  <2> SUFFICES ASSUME all_due, s.unscheduled_amount = 0, NoLineOverpaid(e) PROVE late = owed
    OBVIOUS
  <2>1. total - (IF total <= A THEN total ELSE A) = 0
    BY <1>1, <1>9 DEF AtMost, A
  <2>2. A = total
    BY <1>2, <1>14, <1>16, <2>1
  <2> QED
    BY <1>2, <1>17, <1>18, <2>2
<1>22. overview(e).state = "settled" /\ NoLineOverpaid(e) => owed = 0
  BY <1>2, <1>5
<1> QED
  BY <1>19, <1>20, <1>21, <1>22 DEF ensure_releasable, s, owed, late, all_due

-----------------------------------------------------------------------------
(* The screens over the books. *)

\* A grid and an agreement are lists the office typed in.
SchedulesTyped == grid \in Grids \cup {<<>>} /\ plan \in [Enrollments -> Plans \cup {<<>>}]

BooksInv == PaymentsAreReal /\ SchedulesTyped

\* No schedule is typed in at first.
LEMMA SchedulesInitially == StatementsInit => Init /\ BooksInv
<1> SUFFICES ASSUME StatementsInit PROVE Init /\ BooksInv
  OBVIOUS
<1>1. Init /\ SchedulesTyped
  BY DEF StatementsInit, SchedulesTyped
<1> QED
  BY <1>1, DrawersInit DEF BooksInv

\* A schedule changes without the books, and is always one the office may type.
LEMMA ScheduleStep ==
  ASSUME SchedulesTyped, [StatementsNext]_<<vars, grid, plan>>
  PROVE  [Next]_vars /\ SchedulesTyped'
<1>1. CASE Next /\ UNCHANGED <<grid, plan>>
  BY <1>1 DEF SchedulesTyped
<1>2. ASSUME NEW g \in Grids, replace_grid(g)
      PROVE  [Next]_vars /\ SchedulesTyped'
  BY <1>2 DEF SchedulesTyped, replace_grid
<1>3. ASSUME NEW e \in Enrollments, NEW s \in Plans \cup {<<>>},
             plan' = [plan EXCEPT ![e] = s], UNCHANGED <<grid, vars>>
      PROVE  [Next]_vars /\ SchedulesTyped'
  BY <1>3 DEF SchedulesTyped
<1>4. ASSUME NEW e \in Enrollments, NEW s \in Plans, set_enrollment_plan(e, s)
      PROVE  [Next]_vars /\ SchedulesTyped'
  BY <1>3, <1>4 DEF set_enrollment_plan
<1>5. ASSUME NEW e \in Enrollments, clear_enrollment_plan(e)
      PROVE  [Next]_vars /\ SchedulesTyped'
  BY <1>3, <1>5 DEF clear_enrollment_plan
<1>6. CASE UNCHANGED <<vars, grid, plan>>
  BY <1>6 DEF SchedulesTyped
<1> QED
  BY <1>1, <1>2, <1>4, <1>5, <1>6 DEF StatementsNext

\* The screens and the schedules only read the books: a school with them is a counter as
\* Counter describes it, and all that is proved of the counter holds of it.
THEOREM ScreensOnlyRead == StatementsSpec => Spec
<1>1. SchedulesTyped /\ [StatementsNext]_<<vars, grid, plan>> => [Next]_vars /\ SchedulesTyped'
  BY ScheduleStep
<1>2. StatementsInit => Init /\ SchedulesTyped
  BY SchedulesInitially DEF BooksInv
<1> QED
  BY <1>1, <1>2, PTL DEF StatementsSpec, Spec

\* The books are sound for ever, and the schedules typed.
LEMMA BooksAlways == StatementsSpec => [](IInv /\ BooksInv)
<1>1. IInv /\ BooksInv /\ [StatementsNext]_<<vars, grid, plan>> => BooksInv'
  BY ScheduleStep, RealStep DEF BooksInv
<1>2. StatementsInit => BooksInv
  BY SchedulesInitially
<1> QED
  BY <1>1, <1>2, ScreensOnlyRead, Always, PTL DEF StatementsSpec

\* The takings are told alike by the points by category, the journal, the summary, the daily
\* book and the drawers, whatever was received, cancelled or moved.
THEOREM TillIsOne == StatementsSpec => []OneTill
<1>1. IInv /\ BooksInv => OneTill
  BY TillAgrees DEF IInv, MoneyInv, BooksInv
<1> QED
  BY <1>1, BooksAlways, PTL

\* The debt is told alike by the counter, the re-enrollment, the receipt, the schedules, the
\* points by category and the figures of the school, whatever corrected the lines.
THEOREM DebtIsOne == StatementsSpec => []OneDebt
<1>1. IInv => OneDebt
  BY DebtAgrees DEF IInv
<1> QED
  BY <1>1, BooksAlways, PTL

\* Documents are never withheld for more than the mandatory lines owe, for any grid and any
\* agreement, outside the two cases of AsksTooMuch.
THEOREM NothingWithheldUnowed == StatementsSpec => []LateIsOwed
<1>1. IInv /\ BooksInv => LateIsOwed
  BY LateIsTold DEF IInv, BooksInv, SchedulesTyped
<1> QED
  BY <1>1, BooksAlways, PTL

-----------------------------------------------------------------------------
(* The payments of requests that overlap.  Nothing is used of what a        *)
(* request brings: a row is only known by the names of its fields.          *)

RowsAreRecords ==
  /\ payment = [p \in Payments |-> payment[p]]
  /\ alloc = [p \in Payments |-> alloc[p]]
  /\ \A p \in Payments :
       payment[p] = [status |-> payment[p].status, enrollment |-> payment[p].enrollment,
                     amount |-> payment[p].amount, method |-> payment[p].method,
                     received_by |-> payment[p].received_by, day |-> payment[p].day,
                     key |-> payment[p].key]

TxInv == RowsAreRecords /\ OnePaymentPerKey

\* A row kept is a row with its own status.
LEMMA SameRow ==
  ASSUME RowsAreRecords, NEW p \in Payments
  PROVE  payment[p] = [payment[p] EXCEPT !.status = payment[p].status]
<1> DEFINE r == payment[p]
<1>1. r = [status |-> r.status, enrollment |-> r.enrollment, amount |-> r.amount,
           method |-> r.method, received_by |-> r.received_by, day |-> r.day, key |-> r.key]
  BY DEF RowsAreRecords
<1> HIDE DEF r
<1>2. r = [r EXCEPT !.status = r.status]
  BY ONLY <1>1
<1> QED
  BY <1>2 DEF r

\* The rows of payments left alone.
LEMMA PaymentsUntouched ==
  ASSUME TxInv, UNCHANGED <<payment, alloc>>
  PROVE  TxInv' /\ Kept
<1>1. TxInv'
  BY DEF TxInv, RowsAreRecords, OnePaymentPerKey
<1>2. Kept
  BY SameRow DEF TxInv, Kept
<1> QED
  BY <1>1, <1>2

\* A new payment takes a row that nobody has, and a key that no row bears.
LEMMA InsertStep ==
  ASSUME TxInv, NEW r, NEW s, NEW e, NEW key, NEW lines,
         Insert(r, s, e, key, lines), KeyIsFree(key)
  PROVE  TxInv' /\ Kept
<1> DEFINE row == [status |-> "completed", enrollment |-> e, amount |-> r.amount,
                   method |-> r.method, received_by |-> r.cashier, day |-> today,
                   key |-> key]
<1>1. PICK p \in Payments : /\ NextId(p)
                            /\ payment' = [payment EXCEPT ![p] = row]
                            /\ alloc' = [alloc EXCEPT ![p] = lines]
  BY DEF Insert
<1>2. /\ payment' = [q \in Payments |-> payment'[q]]
      /\ alloc' = [q \in Payments |-> alloc'[q]]
      /\ payment'[p] = row
      /\ \A q \in Payments : q # p => payment'[q] = payment[q] /\ alloc'[q] = alloc[q]
  BY <1>1 DEF TxInv, RowsAreRecords
<1>3. payment[p].status = "none"
  BY <1>1 DEF NextId
<1>4. row = [status |-> row.status, enrollment |-> row.enrollment, amount |-> row.amount,
             method |-> row.method, received_by |-> row.received_by, day |-> row.day,
             key |-> row.key] /\ row.key = key
  OBVIOUS
<1> HIDE DEF row
<1>5. RowsAreRecords'
  <2>1. \A q \in Payments : q # p => payment'[q] = payment[q]
    BY <1>2
  <2> QED
    BY <1>2, <1>4, <2>1 DEF TxInv, RowsAreRecords
<1>6. OnePaymentPerKey'
  <2> SUFFICES ASSUME NEW a \in Payments, NEW b \in Payments,
                      payment'[a].key # None, payment'[a].key = payment'[b].key
               PROVE  a = b
    BY DEF OnePaymentPerKey
  <2>1. CASE a # p /\ b # p
    BY <1>2, <2>1 DEF TxInv, OnePaymentPerKey
  <2>2. CASE a = p /\ b # p
    BY <1>2, <1>4, <2>2 DEF KeyIsFree
  <2>3. CASE a # p /\ b = p
    BY <1>2, <1>4, <2>3 DEF KeyIsFree
  <2> QED
    BY <2>1, <2>2, <2>3
<1>7. Kept
  BY <1>2, <1>3, SameRow DEF Kept, TxInv
<1> QED
  BY <1>5, <1>6, <1>7 DEF TxInv

\* A status read under the lock of its row moves along the allowed transitions only.
LEMMA TransitionTxStep ==
  ASSUME TxInv, NEW r, NEW s, NEW target, TransitionTx(r, s, target)
  PROVE  TxInv' /\ Kept
<1> DEFINE p == r.payment
<1>1. /\ target \in VALID_TRANSITIONS[payment[p].status]
      /\ payment' = [payment EXCEPT ![p].status = target]
      /\ alloc' = alloc
  BY DEF TransitionTx, StatusRead
<1>2. payment[p].status # "cancelled"
  BY <1>1 DEF VALID_TRANSITIONS, PaymentStatus
<1> HIDE DEF p
<1>3. CASE p \notin Payments
  <2>1. payment' = payment
    BY <1>1, <1>3 DEF TxInv, RowsAreRecords
  <2> QED
    BY <1>1, <2>1, PaymentsUntouched
<1>4. CASE p \in Payments
  <2> DEFINE old == payment[p]
             new == [old EXCEPT !.status = target]
  <2>1. /\ DOMAIN payment' = Payments
        /\ payment'[p] = new
        /\ \A q \in Payments : q # p => payment'[q] = payment[q]
    BY <1>1, <1>4 DEF TxInv, RowsAreRecords
  <2>2. old = [status |-> old.status, enrollment |-> old.enrollment, amount |-> old.amount,
               method |-> old.method, received_by |-> old.received_by, day |-> old.day,
               key |-> old.key]
    BY <1>4 DEF TxInv, RowsAreRecords
  <2>0. old.status # "cancelled"
    BY <1>2
  <2> HIDE DEF old
  <2>3. /\ new = [status |-> new.status, enrollment |-> new.enrollment, amount |-> new.amount,
                  method |-> new.method, received_by |-> new.received_by, day |-> new.day,
                  key |-> new.key]
        /\ new.status = target /\ new.key = old.key
    BY ONLY <2>2
  <2>4. new = [old EXCEPT !.status = new.status]
    BY <2>3
  <2> HIDE DEF new
  <2>5. RowsAreRecords'
    <3>1. RowsAreRecords
      BY DEF TxInv
    <3>2. payment' = [q \in Payments |-> payment'[q]]
      BY <2>1, <3>1, <1>1 DEF RowsAreRecords
    <3> QED
      BY ONLY <1>1, <2>1, <2>3, <3>1, <3>2 DEF RowsAreRecords
  <2>6. \A q \in Payments : payment'[q].key = payment[q].key
    BY <2>1, <2>3 DEF old
  <2>7. OnePaymentPerKey'
    BY <2>6 DEF TxInv, OnePaymentPerKey
  <2>8. Kept
    BY <1>1, <2>1, <2>4, <2>0, SameRow DEF Kept, TxInv, old
  <2> QED
    BY <2>5, <2>7, <2>8 DEF TxInv
<1> QED
  BY <1>3, <1>4

\* A move writes the lines of a payment that its lock shows completed.
LEMMA ReallocateTxStep ==
  ASSUME TxInv, NEW r, NEW s, Reallocate(r, s)
  PROVE  TxInv' /\ Kept
<1> DEFINE p == r.payment
           left == s.alloc[p][r.from] - r.amount
           seen == [s.alloc[p] EXCEPT ![r.from] = left, ![r.to] = @ + r.amount]
<1>1. /\ payment[p].status = "completed"
      /\ alloc' = [alloc EXCEPT ![p][r.from] = left, ![p][r.to] = seen[r.to]]
      /\ payment' = payment
  BY DEF Reallocate
<1> HIDE DEF left, seen
<1>2. /\ alloc' = [q \in Payments |-> alloc'[q]]
      /\ \A q \in Payments : q # p => alloc'[q] = alloc[q]
  BY <1>1 DEF TxInv, RowsAreRecords
<1>3. TxInv'
  <2>1. RowsAreRecords'
    BY <1>1, <1>2 DEF TxInv, RowsAreRecords
  <2>2. OnePaymentPerKey'
    BY <1>1 DEF TxInv, OnePaymentPerKey
  <2> QED
    BY <2>1, <2>2 DEF TxInv
<1>4. Kept
  BY <1>1, <1>2, SameRow DEF Kept, TxInv
<1> QED
  BY <1>3, <1>4

\* Every handler, with any snapshot behind it.
LEMMA HandlerStep ==
  ASSUME TxInv, NEW r, NEW s, NEW d, Handler(r, s, d)
  PROVE  TxInv' /\ Kept
<1>1. CASE Record(r, s, d)
  BY <1>1, InsertStep DEF Record
<1>2. CASE Create(r, s, d)
  <2>1. KeyIsFree(None)
    BY DEF KeyIsFree
  <2> QED
    BY <1>2, <2>1, InsertStep DEF Create
<1>3. CASE TransitionTx(r, s, "completed")
  BY <1>3, TransitionTxStep
<1>4. CASE Cancel(r, s)
  BY <1>4, TransitionTxStep DEF Cancel
<1>5. CASE Reallocate(r, s)
  BY <1>5, ReallocateTxStep
<1>6. CASE \/ MarkInKind(r, s) \/ CancelInKind(r, s) \/ SetDiscount(r, s)
           \/ RemoveDiscount(r, s) \/ OpenScreenTx(r, s) \/ CloseTx(r, s)
           \/ RegularizeTx(r, s) \/ SweepTx(s)
  <2>1. UNCHANGED <<payment, alloc>>
    BY <1>6 DEF MarkInKind, CancelInKind, SetDiscount, RemoveDiscount, OpenScreenTx, CloseTx,
                RegularizeTx, SweepTx
  <2> QED
    BY <2>1, PaymentsUntouched
<1> QED
  BY <1>1, <1>2, <1>3, <1>4, <1>5, <1>6 DEF Handler

\* Every step of the requests and of the clock.
LEMMA TxStep == TxInv /\ [TxNext]_txvars => TxInv' /\ Kept
<1> SUFFICES ASSUME TxInv, [TxNext]_txvars
             PROVE  TxInv' /\ Kept
  OBVIOUS
<1>1. ASSUME NEW t \in Tx, Commit(t)
      PROVE  TxInv' /\ Kept
  BY <1>1, HandlerStep DEF Commit
<1>2. CASE \/ \E t \in Tx : Begin(t) \/ Acquire(t) \/ Refuse(t) \/ Victim(t)
           \/ TickTx \/ UNCHANGED txvars
  <2>1. UNCHANGED <<payment, alloc>>
    BY <1>2 DEF Begin, Acquire, Refuse, Victim, TickTx, txvars, db
  <2> QED
    BY <2>1, PaymentsUntouched
<1> QED
  BY <1>1, <1>2 DEF TxNext

\* The books as the old counter left them.
LEMMA TxInitially == TxInit => TxInv
<1> SUFFICES ASSUME Init PROVE TxInv
  BY DEF TxInit
<1>1. /\ payment \in [Payments -> Payment]
      /\ alloc \in [Payments -> [Fees -> Nat]]
      /\ OnePaymentPerKey
  BY Initially DEF IInv, MoneyInv, MoneyTypeOK
<1>2. \A r \in Payment :
        r = [status |-> r.status, enrollment |-> r.enrollment, amount |-> r.amount,
             method |-> r.method, received_by |-> r.received_by, day |-> r.day, key |-> r.key]
  BY DEF Payment
<1>3. \A p \in Payments : payment[p] \in Payment
  BY <1>1
<1> QED
  BY <1>1, <1>2, <1>3 DEF TxInv, RowsAreRecords

\* However many screens send it at once, a key stands for one payment: requests that
\* overlap included, whatever their snapshots showed.
THEOREM TxKeysAreUnique == TxSpec => []OnePaymentPerKey
<1>1. TxInit => TxInv
  BY TxInitially
<1>2. TxInv /\ [TxNext]_txvars => TxInv'
  BY TxStep
<1>3. TxInv => OnePaymentPerKey
  BY DEF TxInv
<1> QED
  BY <1>1, <1>2, <1>3, PTL DEF TxSpec

\* Two corrections of one payment that overlap never bring a cancelled payment back nor
\* move its lines, and no request rewrites what a payment says of the money received:
\* the row read under its lock is enough (lifecycle.py, reallocation.py).
THEOREM TxHistoryStands == TxSpec => HistoryIsKept
<1>1. TxInit => TxInv
  BY TxInitially
<1>2. TxInv /\ [TxNext]_txvars => TxInv'
  BY TxStep
<1>3. TxInv /\ [TxNext]_txvars => [Kept]_vars
  BY TxStep
<1> QED
  BY <1>1, <1>2, <1>3, PTL DEF TxSpec, HistoryIsKept, Kept

-----------------------------------------------------------------------------
(* The row locks of the handlers: what they are, and what they cover. *)

\* From here each leaf cites the assumption that it needs.
HIDE CashDayAssumption
HIDE CounterAssumption

\* What the fields of a request are, by its operation.
LEMMA RequestFields ==
  ASSUME NEW r \in Requests
  PROVE  /\ r.op = "record" =>
              /\ r.cashier \in Cashiers /\ r.enrollment \in Enrollments /\ r.amount \in Amounts
              /\ r.items \in Items /\ r.method \in Methods /\ r.key \in Keys \cup {None}
         /\ r.op = "create" =>
              /\ r.cashier \in Cashiers /\ r.fee \in Fees /\ r.amount \in Amounts
              /\ r.method \in Methods
         /\ r.op \in {"validate", "cancel", "reallocate"} =>
              r.payment \in Payments /\ r.cashier \in Cashiers
         /\ r.op \in {"cancel", "reallocate"} => r.any \in BOOLEAN
         /\ r.op = "reallocate" => r.from \in Fees /\ r.to \in Fees /\ r.amount \in Amounts
         /\ r.op \in {"mark_in_kind", "cancel_in_kind", "remove_discount", "set_discount"} =>
              r.fee \in Fees
         /\ r.op = "set_discount" => r.reduction \in Amounts
         /\ r.op \in {"open_screen", "close", "regularize"} =>
              r.cashier \in Cashiers /\ r.day \in Days
         /\ r.op \in {"close", "regularize"} => r.counted \in Counts
         /\ r.op \in {"record", "create", "validate", "cancel", "reallocate", "mark_in_kind",
                      "cancel_in_kind", "remove_discount", "set_discount", "open_screen",
                      "close", "regularize", "sweep"}
<1>1. r \in Request
  BY RequestsAssumption
<1> QED
  BY ONLY <1>1 DEF Request

-----------------------------------------------------------------------------
(* The locks on a set of lines, one by one. *)

\* A set of numbers is counted off in its order.
LEMMA Ranks ==
  ASSUME NEW F, F \subseteq Fees
  PROVE  /\ IsFiniteSet(F) /\ Cardinality(F) \in Nat
         /\ \A f \in F : Cardinality({g \in F : g <= f}) \in 1..Cardinality(F)
         /\ \A i \in 1..Cardinality(F) : \E f \in F : Cardinality({g \in F : g <= f}) = i
         /\ \A f, g \in F :
              Cardinality({h \in F : h <= f}) = Cardinality({h \in F : h <= g}) => f = g
<1> DEFINE Upto(f) == {g \in F : g <= f}
           n       == Cardinality(F)
           rank    == [f \in F |-> Cardinality(Upto(f))]
<1>1. IsFiniteSet(F) /\ n \in Nat
  <2>1. IsFiniteSet(Fees)
    <3>1. FeeCount \in Int /\ 1 \in Int
      BY CounterAssumption
    <3> QED
      BY <3>1, FS_Interval DEF Fees
  <2>2. IsFiniteSet(F)
    BY <2>1, FS_Subset
  <2> QED
    BY <2>2, FS_CardinalityType
<1>2. \A f \in F : f \in Int
  BY DEF Fees
<1>3. \A f \in F : /\ IsFiniteSet(Upto(f)) /\ Cardinality(Upto(f)) \in Nat
                   /\ Cardinality(Upto(f)) <= n /\ f \in Upto(f)
  <2> SUFFICES ASSUME NEW f \in F
               PROVE  /\ IsFiniteSet(Upto(f)) /\ Cardinality(Upto(f)) \in Nat
                      /\ Cardinality(Upto(f)) <= n /\ f \in Upto(f)
    OBVIOUS
  <2>1. Upto(f) \in SUBSET F /\ f \in Upto(f)
    BY <1>2
  <2> HIDE DEF Upto
  <2>2. IsFiniteSet(Upto(f)) /\ Cardinality(Upto(f)) <= n
    BY <1>1, <2>1, FS_Subset
  <2> QED
    BY <2>1, <2>2, FS_CardinalityType
<1>4. \A f, g \in F : f < g => Cardinality(Upto(f)) < Cardinality(Upto(g))
  <2> SUFFICES ASSUME NEW f \in F, NEW g \in F, f < g
               PROVE  Cardinality(Upto(f)) < Cardinality(Upto(g))
    OBVIOUS
  <2>1. Upto(f) \in SUBSET Upto(g) /\ g \in Upto(g) /\ g \notin Upto(f)
    BY <1>2
  <2>2. IsFiniteSet(Upto(g)) /\ Cardinality(Upto(g)) \in Nat /\ Cardinality(Upto(f)) \in Nat
    BY <1>3
  <2> HIDE DEF Upto
  <2>3. /\ Cardinality(Upto(f)) <= Cardinality(Upto(g))
        /\ Cardinality(Upto(g)) = Cardinality(Upto(f)) => Upto(g) = Upto(f)
    BY <2>1, <2>2, FS_Subset
  <2> QED
    BY <2>1, <2>2, <2>3
<1>5. \A f, g \in F : Cardinality(Upto(f)) = Cardinality(Upto(g)) => f = g
  <2> SUFFICES ASSUME NEW f \in F, NEW g \in F, Cardinality(Upto(f)) = Cardinality(Upto(g))
               PROVE  f = g
    OBVIOUS
  <2>1. ~(f < g) /\ ~(g < f)
    <3>1. Cardinality(Upto(f)) \in Nat /\ Cardinality(Upto(g)) \in Nat
      BY <1>3
    <3> HIDE DEF Upto
    <3> QED
      BY <1>4, <3>1
  <2> QED
    BY <1>2, <2>1
<1>6. \A f \in F : Cardinality(Upto(f)) \in 1..n
  <2> SUFFICES ASSUME NEW f \in F PROVE Cardinality(Upto(f)) \in 1..n
    OBVIOUS
  <2>1. Cardinality(Upto(f)) # 0
    <3>1. IsFiniteSet(Upto(f)) /\ Upto(f) # {}
      BY <1>3
    <3> HIDE DEF Upto
    <3> QED
      BY <3>1, FS_EmptySet
  <2> HIDE DEF Upto
  <2> QED
    BY <1>1, <1>3, <2>1
<1>7. rank \in Injection(F, 1..n)
  <2>1. rank \in [F -> 1..n]
    BY <1>6
  <2>2. \A f, g \in F : rank[f] = rank[g] => f = g
    BY <1>5
  <2> HIDE DEF rank
  <2> QED
    BY <2>1, <2>2 DEF Injection, IsInjective
<1>8. \A i \in 1..n : \E f \in F : rank[f] = i
  <2>1. IsFiniteSet(1..n) /\ Cardinality(1..n) = n
    BY <1>1, FS_Interval
  <2> HIDE DEF rank
  <2>2. rank \in Surjection(F, 1..n)
    BY <1>7, <2>1, FS_Injection
  <2> QED
    BY <2>2 DEF Surjection
<1>9. \A i \in 1..n : \E f \in F : Cardinality(Upto(f)) = i
  BY <1>8
<1> QED
  BY <1>1, <1>5, <1>6, <1>9

\* The locks are those of the lines, all of them.
LEMMA FeeLocksAre ==
  ASSUME NEW F, F \subseteq Fees
  PROVE  /\ FeeLocks(F) \in Seq(RowLock)
         /\ \A f \in F : \E i \in 1..Len(FeeLocks(F)) : FeeLocks(F)[i] = X(<<"fee", f>>)
         /\ \A i \in 1..Len(FeeLocks(F)) : \E f \in F : FeeLocks(F)[i] = X(<<"fee", f>>)
<1> DEFINE rank(f) == Cardinality({g \in F : g <= f})
           n       == Cardinality(F)
           nth     == [i \in 1..n |-> CHOOSE f \in F : rank(f) = i]
<1>1. /\ n \in Nat
      /\ \A f \in F : rank(f) \in 1..n
      /\ \A i \in 1..n : \E f \in F : rank(f) = i
      /\ \A f, g \in F : rank(f) = rank(g) => f = g
  BY Ranks
<1>2. FeeLocks(F) = [i \in 1..n |-> X(<<"fee", nth[i]>>)]
  BY DEF FeeLocks
<1> HIDE DEF rank, n
<1>3. \A i \in 1..n : nth[i] \in F /\ rank(nth[i]) = i
  BY <1>1
<1>4. \A f \in F : nth[rank(f)] = f
  BY <1>1, <1>3
<1> HIDE DEF nth
<1>5. \A f \in Fees : X(<<"fee", f>>) \in RowLock
  BY DEF X, RowLock, Rows
<1>6. FeeLocks(F) \in Seq(RowLock) /\ Len(FeeLocks(F)) = n
  BY <1>1, <1>2, <1>3, <1>5
<1>7. \A i \in 1..n : FeeLocks(F)[i] = X(<<"fee", nth[i]>>)
  BY <1>2
<1> QED
  BY <1>1, <1>3, <1>4, <1>6, <1>7

\* A lock on a list of locks.
OnList(l, q) == \E i \in 1..Len(q) : q[i] = l

\* A lock is on two lists put together when it is on one of them.
LEMMA OnConcat ==
  ASSUME NEW a \in Seq(RowLock), NEW b \in Seq(RowLock), NEW l
  PROVE  OnList(l, a \o b) <=> OnList(l, a) \/ OnList(l, b)
<1>1. /\ Len(a) \in Nat /\ Len(b) \in Nat /\ Len(a \o b) = Len(a) + Len(b)
      /\ \A i \in 1..Len(a) + Len(b) : (a \o b)[i] = IF i <= Len(a) THEN a[i] ELSE b[i - Len(a)]
  BY LenProperties, ConcatProperties
<1> DEFINE m == Len(a)
           n == Len(b)
           q == a \o b
<1>2. /\ m \in Nat /\ n \in Nat /\ Len(q) = m + n
      /\ \A i \in 1..m + n : q[i] = IF i <= m THEN a[i] ELSE b[i - m]
  BY <1>1
<1> HIDE DEF q, m, n
<1>3. ASSUME OnList(l, q) PROVE OnList(l, a) \/ OnList(l, b)
  <2>1. PICK i \in 1..m + n : q[i] = l
    BY <1>2, <1>3 DEF OnList
  <2>2. CASE i <= m
    <3>1. i \in 1..m /\ a[i] = l
      BY <1>2, <2>1, <2>2
    <3> QED
      BY <3>1 DEF OnList, m
  <2>3. CASE ~(i <= m)
    <3>1. i - m \in 1..n /\ b[i - m] = l
      BY <1>2, <2>1, <2>3
    <3> QED
      BY <3>1 DEF OnList, n
  <2> QED
    BY <2>2, <2>3
<1>4. ASSUME OnList(l, a) PROVE OnList(l, q)
  <2>1. PICK i \in 1..m : a[i] = l
    BY <1>4 DEF OnList, m
  <2>2. i \in 1..m + n /\ q[i] = l
    BY <1>2, <2>1
  <2> QED
    BY <1>2, <2>2 DEF OnList
<1>5. ASSUME OnList(l, b) PROVE OnList(l, q)
  <2>1. PICK i \in 1..n : b[i] = l
    BY <1>5 DEF OnList, n
  <2>2. m + i \in 1..m + n /\ q[m + i] = l
    BY <1>2, <2>1
  <2> QED
    BY <1>2, <2>2 DEF OnList
<1> QED
  BY <1>3, <1>4, <1>5 DEF q

\* It is on a list when it is its head or on its tail.
LEMMA OnHead ==
  ASSUME NEW q \in Seq(RowLock), q # << >>, NEW l
  PROVE  OnList(l, q) <=> l = Head(q) \/ OnList(l, Tail(q))
<1>1. /\ Len(q) \in Nat /\ Len(q) > 0 /\ Head(q) = q[1]
      /\ Len(Tail(q)) = Len(q) - 1 /\ \A i \in 1..Len(q) - 1 : Tail(q)[i] = q[i + 1]
  BY EmptySeq, HeadTailProperties
<1>2. ASSUME NEW i \in 1..Len(q), i # 1
      PROVE  i - 1 \in 1..Len(q) - 1 /\ Tail(q)[i - 1] = q[i]
  BY <1>1, <1>2
<1>3. ASSUME NEW i \in 1..Len(q) - 1
      PROVE  i + 1 \in 1..Len(q) /\ Tail(q)[i] = q[i + 1]
  BY <1>1, <1>3
<1>4. 1 \in 1..Len(q)
  BY <1>1
<1>5. ASSUME OnList(l, q), l # Head(q) PROVE OnList(l, Tail(q))
  <2>1. PICK i \in 1..Len(q) : q[i] = l
    BY <1>5 DEF OnList
  <2>2. i # 1
    BY <1>1, <1>5, <2>1
  <2>3. i - 1 \in 1..Len(Tail(q)) /\ Tail(q)[i - 1] = l
    BY <1>1, <1>2, <2>1, <2>2
  <2> QED
    BY <2>3 DEF OnList
<1>6. ASSUME OnList(l, Tail(q)) PROVE OnList(l, q)
  <2>1. PICK i \in 1..Len(q) - 1 : Tail(q)[i] = l
    BY <1>1, <1>6 DEF OnList
  <2>2. i + 1 \in 1..Len(q) /\ q[i + 1] = l
    BY <1>3, <2>1
  <2> QED
    BY <2>2 DEF OnList
<1>7. ASSUME l = Head(q) PROVE OnList(l, q)
  BY <1>1, <1>4, <1>7 DEF OnList
<1> QED
  BY <1>5, <1>6, <1>7

\* The lists of at most three locks.
LEMMA OnShort ==
  /\ \A l : ~OnList(l, << >>)
  /\ \A l, a : OnList(l, <<a>>) <=> l = a
  /\ \A l, a, b : OnList(l, <<a, b>>) <=> l \in {a, b}
  /\ \A l, a, b, c : OnList(l, <<a, b, c>>) <=> l \in {a, b, c}
<1>1. /\ Len(<< >>) = 0
      /\ \A a : Len(<<a>>) = 1
      /\ \A a, b : Len(<<a, b>>) = 2
      /\ \A a, b, c : Len(<<a, b, c>>) = 3
  OBVIOUS
<1>2. /\ 1..0 = {} /\ 1..1 = {1} /\ 1..2 = {1, 2} /\ 1..3 = {1, 2, 3}
  OBVIOUS
<1> QED
  BY <1>1, <1>2 DEF OnList

\* The locks of different rows are different.
LEMMA LockNames ==
  /\ \A f, g : X(<<"fee", f>>) = X(<<"fee", g>>) => f = g
  /\ \A p, q : X(<<"payment", p>>) = X(<<"payment", q>>) => p = q
  /\ \A f, p : X(<<"fee", f>>) # X(<<"payment", p>>)
  /\ \A e, p : X(<<"enrollment", e>>) # X(<<"payment", p>>)
  /\ \A k, p : X(<<"key", k>>) # X(<<"payment", p>>)
  /\ \A c, d, p : X(<<"session", c, d>>) # X(<<"payment", p>>)
  /\ \A e, p : S(<<"enrollment", e>>) # X(<<"payment", p>>)
<1>1. \A a, b : X(a) = X(b) => a = b
  BY DEF X
<1>2. \A a, b : S(a) # X(b)
  BY DEF X, S
<1>3. /\ \A a, b, x, y : <<a, x>> = <<b, y>> => a = b /\ x = y
      /\ \A a, b, x, y, z : <<a, x, z>> # <<b, y>>
  OBVIOUS
<1> QED
  BY <1>1, <1>2, <1>3

\* The locks the handlers ask for are locks.
LEMMA LockTypes ==
  /\ \A f \in Fees : X(<<"fee", f>>) \in RowLock
  /\ \A p \in Payments : X(<<"payment", p>>) \in RowLock
  /\ \A e \in Enrollments :
       X(<<"enrollment", e>>) \in RowLock /\ S(<<"enrollment", e>>) \in RowLock
  /\ \A k \in Keys : X(<<"key", k>>) \in RowLock
  /\ \A c \in Cashiers, d \in Days : X(<<"session", c, d>>) \in RowLock
<1>1. \A row \in Rows : X(row) \in RowLock /\ S(row) \in RowLock
  BY DEF X, S, RowLock
<1>2. /\ \A f \in Fees : <<"fee", f>> \in Rows
      /\ \A p \in Payments : <<"payment", p>> \in Rows
      /\ \A e \in Enrollments : <<"enrollment", e>> \in Rows
      /\ \A k \in Keys : <<"key", k>> \in Rows
      /\ \A c \in Cashiers, d \in Days : <<"session", c, d>> \in Rows
  BY DEF Rows
<1> QED
  BY <1>1, <1>2

\* At most three locks are a list of locks.
LEMMA ShortLists ==
  /\ << >> \in Seq(RowLock)
  /\ \A a \in RowLock : <<a>> \in Seq(RowLock)
  /\ \A a, b \in RowLock : <<a, b>> \in Seq(RowLock)
  /\ \A a, b, c \in RowLock : <<a, b, c>> \in Seq(RowLock)
  OBVIOUS

-----------------------------------------------------------------------------
(* What a handler writes, and the locks that it takes on it. *)

WritesLine(r, s, f) ==
  \/ r.op = "record" /\ f \in FeesOf(r.enrollment)
  \/ r.op \in {"create", "mark_in_kind", "cancel_in_kind", "set_discount", "remove_discount"}
     /\ f = r.fee
  \/ r.op \in {"validate", "cancel"} /\ f \in LinesSeen(r, s)
  \/ r.op = "reallocate" /\ f \in {r.from, r.to}

WritesDrawer(r, s, d, c, e) ==
  \/ /\ r.op \in {"record", "create"} /\ r.method = "cash" /\ c = r.cashier /\ e = d
     /\ s.session[c][e].status = "none"
  \/ r.op \in {"open_screen", "close", "regularize"} /\ c = r.cashier /\ e = r.day
  \/ r.op = "sweep" /\ <<c, e>> \in s.batch

Correction == {"validate", "cancel", "reallocate"}

\* The locks held or to come, of a request.
Claims(l, held, todo) == l \in held \/ OnList(l, todo)

\* They cover what the handler writes of rows that exist; a payment is locked by its
\* corrections only.
Covered(r, s, d, held, todo) ==
  /\ \A f \in Fees : WritesLine(r, s, f) => Claims(X(<<"fee", f>>), held, todo)
  /\ \A c \in Cashiers, e \in Days :
       WritesDrawer(r, s, d, c, e) => Claims(X(<<"session", c, e>>), held, todo)
  /\ r.op \in Correction => Claims(X(<<"payment", r.payment>>), held, todo)
  /\ \A p \in Payments :
       Claims(X(<<"payment", p>>), held, todo) => r.op \in Correction /\ p = r.payment

\* Of a set of lines.
LEMMA OnFeeLocks ==
  ASSUME NEW F, F \subseteq Fees
  PROVE  /\ FeeLocks(F) \in Seq(RowLock)
         /\ \A f \in F : OnList(X(<<"fee", f>>), FeeLocks(F))
         /\ \A p : ~OnList(X(<<"payment", p>>), FeeLocks(F))
<1>1. /\ FeeLocks(F) \in Seq(RowLock)
      /\ \A f \in F : OnList(X(<<"fee", f>>), FeeLocks(F))
  BY FeeLocksAre DEF OnList
<1>2. ASSUME NEW p, OnList(X(<<"payment", p>>), FeeLocks(F)) PROVE FALSE
  <2>1. PICK i \in 1..Len(FeeLocks(F)) : FeeLocks(F)[i] = X(<<"payment", p>>)
    BY <1>2 DEF OnList
  <2>2. PICK f \in F : FeeLocks(F)[i] = X(<<"fee", f>>)
    BY FeeLocksAre
  <2> QED
    BY <2>1, <2>2, LockNames
<1> QED
  BY <1>1, <1>2

\* Of the drawer a cash payment opens.
LEMMA OnSessionLocks ==
  ASSUME NEW r, r.cashier \in Cashiers, NEW s, NEW d \in Days
  PROVE  /\ SessionLocks(r, s, d) \in Seq(RowLock)
         /\ r.method = "cash" /\ s.session[r.cashier][d].status = "none" =>
              OnList(X(<<"session", r.cashier, d>>), SessionLocks(r, s, d))
         /\ \A p : ~OnList(X(<<"payment", p>>), SessionLocks(r, s, d))
<1>1. X(<<"session", r.cashier, d>>) \in RowLock
  BY LockTypes
<1>2. CASE r.method = "cash" /\ s.session[r.cashier][d].status = "none"
  <2>1. SessionLocks(r, s, d) = <<X(<<"session", r.cashier, d>>)>>
    BY <1>2 DEF SessionLocks
  <2> QED
    BY <1>1, <2>1, OnShort, ShortLists, LockNames
<1>3. CASE ~(r.method = "cash" /\ s.session[r.cashier][d].status = "none")
  <2>1. SessionLocks(r, s, d) = << >>
    BY <1>3 DEF SessionLocks
  <2> QED
    BY <1>3, <2>1, OnShort, ShortLists
<1> QED
  BY <1>2, <1>3

\* A recorded payment: the drawer it may open, the whole enrollment, its key.
LEMMA RecordLocks ==
  ASSUME NEW r \in Requests, r.op = "record", NEW s, NEW d \in Days
  PROVE  /\ LocksOf(r, s, d) \in Seq(RowLock)
         /\ Covered(r, s, d, {}, LocksOf(r, s, d))
<1> DEFINE A == SessionLocks(r, s, d)
           B == <<X(<<"enrollment", r.enrollment>>)>>
           C == FeeLocks(FeesOf(r.enrollment))
           D == IF r.key = None THEN << >> ELSE <<X(<<"key", r.key>>)>>
<1>1. /\ r.cashier \in Cashiers /\ r.enrollment \in Enrollments /\ r.key \in Keys \cup {None}
      /\ FeesOf(r.enrollment) \subseteq Fees
  BY RequestFields DEF FeesOf
<1>2. /\ A \in Seq(RowLock)
      /\ r.method = "cash" /\ s.session[r.cashier][d].status = "none" =>
           OnList(X(<<"session", r.cashier, d>>), A)
      /\ \A p : ~OnList(X(<<"payment", p>>), A)
  BY <1>1, OnSessionLocks
<1>3. B \in Seq(RowLock) /\ \A p : ~OnList(X(<<"payment", p>>), B)
  BY <1>1, LockTypes, ShortLists, OnShort, LockNames
<1>4. /\ C \in Seq(RowLock) /\ \A p : ~OnList(X(<<"payment", p>>), C)
      /\ \A f \in FeesOf(r.enrollment) : OnList(X(<<"fee", f>>), C)
  BY <1>1, OnFeeLocks
<1>5. D \in Seq(RowLock) /\ \A p : ~OnList(X(<<"payment", p>>), D)
  BY <1>1, LockTypes, ShortLists, OnShort, LockNames
<1>6. LocksOf(r, s, d) = ((A \o B) \o C) \o D
  BY DEF LocksOf
<1> HIDE DEF A, B, C, D
<1>7. /\ A \o B \in Seq(RowLock) /\ (A \o B) \o C \in Seq(RowLock)
      /\ ((A \o B) \o C) \o D \in Seq(RowLock)
  BY <1>2, <1>3, <1>4, <1>5, ConcatProperties
<1>8. \A l : OnList(l, LocksOf(r, s, d)) <=>
               OnList(l, A) \/ OnList(l, B) \/ OnList(l, C) \/ OnList(l, D)
  <2> SUFFICES ASSUME NEW l
               PROVE  OnList(l, LocksOf(r, s, d)) <=>
                        OnList(l, A) \/ OnList(l, B) \/ OnList(l, C) \/ OnList(l, D)
    OBVIOUS
  <2>1. OnList(l, A \o B) <=> OnList(l, A) \/ OnList(l, B)
    BY <1>2, <1>3, OnConcat
  <2>2. OnList(l, (A \o B) \o C) <=> OnList(l, A \o B) \/ OnList(l, C)
    BY <1>4, <1>7, OnConcat
  <2>3. OnList(l, ((A \o B) \o C) \o D) <=> OnList(l, (A \o B) \o C) \/ OnList(l, D)
    BY <1>5, <1>7, OnConcat
  <2> QED
    BY <1>6, <2>1, <2>2, <2>3
<1> QED
  BY <1>2, <1>3, <1>4, <1>5, <1>6, <1>7, <1>8
     DEF Covered, Claims, WritesLine, WritesDrawer, Correction

\* The old route: the drawer, the line, its enrollment.
LEMMA CreateLocks ==
  ASSUME NEW r \in Requests, r.op = "create", NEW s, NEW d \in Days
  PROVE  /\ LocksOf(r, s, d) \in Seq(RowLock)
         /\ Covered(r, s, d, {}, LocksOf(r, s, d))
<1> DEFINE A == SessionLocks(r, s, d)
           B == <<X(<<"fee", r.fee>>), S(<<"enrollment", EnrollmentOf[r.fee]>>)>>
<1>1. r.cashier \in Cashiers /\ r.fee \in Fees /\ EnrollmentOf[r.fee] \in Enrollments
  BY RequestFields, CounterAssumption
<1>2. /\ A \in Seq(RowLock)
      /\ r.method = "cash" /\ s.session[r.cashier][d].status = "none" =>
           OnList(X(<<"session", r.cashier, d>>), A)
      /\ \A p : ~OnList(X(<<"payment", p>>), A)
  BY <1>1, OnSessionLocks
<1>3. /\ B \in Seq(RowLock) /\ OnList(X(<<"fee", r.fee>>), B)
      /\ \A p : ~OnList(X(<<"payment", p>>), B)
  BY <1>1, LockTypes, ShortLists, OnShort, LockNames
<1>4. LocksOf(r, s, d) = A \o B
  BY DEF LocksOf
<1> HIDE DEF A, B
<1>5. /\ A \o B \in Seq(RowLock)
      /\ \A l : OnList(l, LocksOf(r, s, d)) <=> OnList(l, A) \/ OnList(l, B)
  BY <1>2, <1>3, <1>4, ConcatProperties, OnConcat
<1> QED
  BY <1>2, <1>3, <1>4, <1>5 DEF Covered, Claims, WritesLine, WritesDrawer, Correction

\* A correction: the payment, then the lines.
LEMMA CorrectionLocks ==
  ASSUME NEW r \in Requests, r.op \in Correction, NEW s, NEW d \in Days
  PROVE  /\ LocksOf(r, s, d) \in Seq(RowLock)
         /\ Covered(r, s, d, {}, LocksOf(r, s, d))
<1>1. r.payment \in Payments /\ (r.op = "reallocate" => r.from \in Fees /\ r.to \in Fees)
  BY RequestFields DEF Correction
<1>2. CASE r.op \in {"validate", "cancel"}
  <2> DEFINE A == <<X(<<"payment", r.payment>>)>>
             B == FeeLocks(LinesSeen(r, s))
  <2>1. /\ A \in Seq(RowLock)
        /\ \A l : OnList(l, A) <=> l = X(<<"payment", r.payment>>)
    BY <1>1, LockTypes, ShortLists, OnShort
  <2>2. LinesSeen(r, s) \subseteq Fees
    BY DEF LinesSeen
  <2>3. /\ B \in Seq(RowLock)
        /\ \A f \in LinesSeen(r, s) : OnList(X(<<"fee", f>>), B)
        /\ \A p : ~OnList(X(<<"payment", p>>), B)
    BY <2>2, OnFeeLocks
  <2>4. LocksOf(r, s, d) = A \o B
    BY <1>2 DEF LocksOf
  <2> HIDE DEF A, B
  <2>5. /\ A \o B \in Seq(RowLock)
        /\ \A l : OnList(l, LocksOf(r, s, d)) <=> OnList(l, A) \/ OnList(l, B)
    BY <2>1, <2>3, <2>4, ConcatProperties, OnConcat
  <2>6. r.op \notin {"record", "create", "mark_in_kind", "cancel_in_kind", "set_discount",
                    "remove_discount", "reallocate", "open_screen", "close", "regularize",
                    "sweep"}
    BY <1>2
  <2>7. \A f \in Fees : WritesLine(r, s, f) => f \in LinesSeen(r, s)
    BY <2>6 DEF WritesLine
  <2>8. \A c, e : ~WritesDrawer(r, s, d, c, e)
    BY <2>6 DEF WritesDrawer
  <2>9. \A f \in LinesSeen(r, s) : OnList(X(<<"fee", f>>), LocksOf(r, s, d))
    BY <2>3, <2>5
  <2>10. /\ OnList(X(<<"payment", r.payment>>), LocksOf(r, s, d))
         /\ \A p : OnList(X(<<"payment", p>>), LocksOf(r, s, d)) => p = r.payment
    BY <2>1, <2>3, <2>5, LockNames
  <2>11. LocksOf(r, s, d) \in Seq(RowLock)
    BY <2>4, <2>5
  <2> QED
    BY <2>7, <2>8, <2>9, <2>10, <2>11 DEF Covered, Claims
<1>3. CASE r.op = "reallocate"
  <2>1. LocksOf(r, s, d) =
          <<X(<<"payment", r.payment>>), X(<<"fee", r.from>>), X(<<"fee", r.to>>)>>
    BY <1>3 DEF LocksOf
  <2>2. /\ LocksOf(r, s, d) \in Seq(RowLock)
        /\ \A l : OnList(l, LocksOf(r, s, d)) <=>
               l \in {X(<<"payment", r.payment>>), X(<<"fee", r.from>>), X(<<"fee", r.to>>)}
    BY <1>1, <1>3, <2>1, LockTypes, ShortLists, OnShort
  <2> QED
    BY <1>3, <2>2, LockNames DEF Covered, Claims, WritesLine, WritesDrawer, Correction
<1> QED
  BY <1>2, <1>3 DEF Correction

\* The handlers that lock one row.
LEMMA OneRowLocks ==
  ASSUME NEW r \in Requests, r.op \notin Correction \cup {"record", "create", "sweep"},
         NEW s, NEW d \in Days
  PROVE  /\ LocksOf(r, s, d) \in Seq(RowLock)
         /\ Covered(r, s, d, {}, LocksOf(r, s, d))
<1>1. CASE r.op \in {"mark_in_kind", "cancel_in_kind", "set_discount", "remove_discount"}
  <2>1. LocksOf(r, s, d) = <<X(<<"fee", r.fee>>)>> /\ r.fee \in Fees
    BY <1>1, RequestFields DEF LocksOf
  <2>2. /\ LocksOf(r, s, d) \in Seq(RowLock)
        /\ \A l : OnList(l, LocksOf(r, s, d)) <=> l = X(<<"fee", r.fee>>)
    BY <2>1, LockTypes, ShortLists, OnShort
  <2> QED
    BY <1>1, <2>2, LockNames DEF Covered, Claims, WritesLine, WritesDrawer, Correction
<1>2. CASE r.op \in {"open_screen", "close", "regularize"}
  <2>1. /\ LocksOf(r, s, d) = <<X(<<"session", r.cashier, r.day>>)>>
        /\ r.cashier \in Cashiers /\ r.day \in Days
    BY <1>2, RequestFields DEF LocksOf
  <2>2. /\ LocksOf(r, s, d) \in Seq(RowLock)
        /\ \A l : OnList(l, LocksOf(r, s, d)) <=> l = X(<<"session", r.cashier, r.day>>)
    BY <2>1, LockTypes, ShortLists, OnShort
  <2> QED
    BY <1>2, <2>2, LockNames DEF Covered, Claims, WritesLine, WritesDrawer, Correction
<1> QED
  BY <1>1, <1>2, RequestFields DEF Correction

\* Of the days the nightly closure goes through.
LEMMA SweepLocksCover ==
  ASSUME NEW r \in Requests, r.op = "sweep", NEW s, NEW d \in Days,
         s.batch \subseteq Cashiers \X Days, NEW q \in SweepLocks(s.batch)
  PROVE  LET todo == [i \in DOMAIN q |-> X(<<"session", q[i][1], q[i][2]>>)]
         IN  todo \in Seq(RowLock) /\ Covered(r, s, d, {}, todo)
<1> DEFINE stale == s.batch
           n     == Cardinality(stale)
           todo  == [i \in DOMAIN q |-> X(<<"session", q[i][1], q[i][2]>>)]
<1>1. stale \subseteq Cashiers \X Days /\ IsFiniteSet(stale) /\ n \in Nat
  <2>1. MaxDay \in Int /\ 1 \in Int
    BY CashDayAssumption
  <2>2. IsFiniteSet(Days) /\ IsFiniteSet(Cashiers)
    BY <2>1, FS_Interval, RequestsAssumption DEF Days
  <2>3. IsFiniteSet(Cashiers \X Days)
    BY <2>2, FS_Product
  <2>4. stale \in SUBSET (Cashiers \X Days)
    OBVIOUS
  <2>5. IsFiniteSet(stale)
    BY <2>3, <2>4, FS_Subset
  <2> QED
    BY <2>4, <2>5, FS_CardinalityType
<1>2. /\ q \in [1..n -> stale]
      /\ \A i, j \in 1..n : i < j => q[i] # q[j]
  BY DEF SweepLocks
<1> HIDE DEF n, stale
<1>3. /\ DOMAIN q = 1..n
      /\ \A i \in 1..n : /\ q[i] \in Cashiers \X Days
                          /\ q[i] = <<q[i][1], q[i][2]>>
                          /\ todo[i] = X(<<"session", q[i][1], q[i][2]>>)
  BY <1>1, <1>2
<1>4. todo \in Seq(RowLock) /\ Len(todo) = n
  <2>1. \A i \in 1..n : todo[i] \in RowLock
    BY <1>3, LockTypes
  <2>2. todo = [i \in 1..n |-> todo[i]]
    BY <1>3
  <2> HIDE DEF todo
  <2> QED
    BY <1>1, <2>1, <2>2
<1> HIDE DEF todo
<1>5. \A x \in stale : \E i \in 1..n : q[i] = x
  <2>1. q \in Injection(1..n, stale)
    <3>1. \A i, j \in 1..n : q[i] = q[j] => i = j
      <4> SUFFICES ASSUME NEW i \in 1..n, NEW j \in 1..n, q[i] = q[j] PROVE i = j
        OBVIOUS
      <4>1. ~(i < j) /\ ~(j < i)
        BY <1>2
      <4> QED
        BY <1>1, <4>1
    <3> QED
      BY <1>2, <3>1 DEF Injection, IsInjective
  <2>2. Cardinality(1..n) = n
    BY <1>1, FS_Interval
  <2>3. q \in Surjection(1..n, stale)
    BY <1>1, <2>1, <2>2, FS_Injection DEF n
  <2> QED
    BY <2>3 DEF Surjection
<1>6. \A c, e : <<c, e>> \in stale => OnList(X(<<"session", c, e>>), todo)
  <2> SUFFICES ASSUME NEW c, NEW e, <<c, e>> \in stale
               PROVE  OnList(X(<<"session", c, e>>), todo)
    OBVIOUS
  <2>1. PICK i \in 1..n : q[i] = <<c, e>>
    BY <1>5
  <2>2. q[i][1] = c /\ q[i][2] = e
    BY <2>1
  <2> QED
    BY <1>3, <1>4, <2>2 DEF OnList
<1>7. ASSUME NEW p, OnList(X(<<"payment", p>>), todo) PROVE FALSE
  <2>1. PICK i \in 1..n : todo[i] = X(<<"payment", p>>)
    BY <1>4, <1>7 DEF OnList
  <2>2. todo[i] = X(<<"session", q[i][1], q[i][2]>>)
    BY <1>3
  <2> QED
    BY <2>1, <2>2, LockNames
<1>8. Covered(r, s, d, {}, todo)
  BY <1>6, <1>7 DEF Covered, Claims, WritesLine, WritesDrawer, Correction, stale
<1> QED
  BY <1>4, <1>8 DEF todo

-----------------------------------------------------------------------------
(* What overlapping requests leave typed.  A handler computes from a snapshot, so *)
(* nothing is known of its numbers but that they are numbers; two facts make that     *)
(* enough: a line without a discount is worth something, and a day is locked exactly  *)
(* when it has its expected cash.                                                    *)

\* What a cashier's request puts on the lines: amounts, on lines of the family only.
LEMMA RecordLines ==
  ASSUME fee \in [Fees -> FeeLine], NEW paid \in [Fees -> Nat], NEW e, NEW amount \in Nat,
         NEW items \in Items, may_record(amount, items, FeesOf(e), fee, paid, FeeCount)
  PROVE  LET lines == resolve_allocation(amount, items, FeesOf(e), fee, paid, FeeCount).splits
         IN  /\ lines \in [Fees -> Nat]
             /\ \A f \in Fees : lines[f] > 0 => f \in FeesOf(e)
<1> DEFINE issue == resolve_allocation(amount, items, FeesOf(e), fee, paid, FeeCount)
           lines == issue.splits
           room  == RoomOf(FeesOf(e), fee, paid)
<1>1. issue.accepted
  BY DEF may_record
<1>2. LinesOK(fee, paid, FeeCount)
  BY DEF LinesOK, FeeLine, Fees
<1>3. FeeCount \in Nat /\ items \in NamedLines(FeeCount)
  BY ItemsAreNamedLines, CounterAssumption
<1>4. lines \in [1..FeeCount -> Nat] /\ \A f \in 1..FeeCount : lines[f] <= room[f]
  BY <1>1, <1>2, <1>3, SplitsHonour
<1>5. /\ room \in [1..FeeCount -> Nat]
      /\ \A f \in 1..FeeCount : f \notin FeesOf(e) => room[f] = 0
  BY <1>2, <1>3, RoomIsNat
<1> HIDE DEF issue, room
<1>6. ASSUME NEW f \in 1..FeeCount, lines[f] > 0 PROVE f \in FeesOf(e)
  <2>1. lines[f] \in Nat /\ lines[f] <= room[f] /\ room[f] \in Nat
    BY <1>4, <1>5
  <2>2. room[f] # 0
    BY <1>6, <2>1
  <2> QED
    BY <1>5, <2>2
<1> QED
  BY <1>4, <1>6 DEF Fees, issue

-----------------------------------------------------------------------------
(* Types. *)

\* A day is locked when, and only when, it has its expected cash.
Frozen(rows) ==
  \A c \in Cashiers, d \in Days : is_locked(rows[c][d]) <=> rows[c][d].expected # None

\* A line without a discount is worth something.
Undiscounted == \A f \in Fees : fee[f].original = None => fee[f].amount > 0

\* What a snapshot shows of the drawers was frozen, and still is.
SnapshotStands(s) ==
  /\ Frozen(s.session)
  /\ \A c \in Cashiers, d \in Days : is_locked(s.session[c][d]) => is_locked(session[c][d])

Data == TypeOK /\ Frozen(session) /\ Undiscounted

BooksTyped ==
  /\ fee \in [Fees -> FeeLine] /\ Undiscounted
  /\ payment \in [Payments -> Payment]
  /\ alloc \in [Payments -> [Fees -> Nat]]

DrawersTyped ==
  /\ session \in [Cashiers -> [Days -> CashSession]] /\ Frozen(session)

\* A day locked stays locked.
LocksStay ==
  \A c \in Cashiers, d \in Days : is_locked(session[c][d]) => is_locked(session'[c][d])

\* Data, in its two halves.
LEMMA DataParts == Data <=> today \in Days /\ BooksTyped /\ DrawersTyped
  BY DEF Data, TypeOK, CashDayTypeOK, BooksTyped, DrawersTyped

\* Books left alone.
LEMMA SameBooks == BooksTyped /\ UNCHANGED money => BooksTyped'
  BY DEF BooksTyped, Undiscounted, money

\* Drawers left alone.
LEMMA SameDrawers == DrawersTyped /\ session' = session => DrawersTyped' /\ LocksStay
  BY DEF DrawersTyped, Frozen, LocksStay

\* One day of one cashier written.
LEMMA RowWritten ==
  ASSUME DrawersTyped, NEW c \in Cashiers, NEW d \in Days, NEW row \in CashSession,
         session' = [session EXCEPT ![c][d] = row],
         is_locked(row) <=> row.expected # None,
         is_locked(session[c][d]) => is_locked(row)
  PROVE  DrawersTyped' /\ LocksStay
<1>1. \A x \in Cashiers, y \in Days :
        session'[x][y] = IF x = c /\ y = d THEN row ELSE session[x][y]
  BY DEF DrawersTyped
<1>2. session' \in [Cashiers -> [Days -> CashSession]]
  BY DEF DrawersTyped
<1> QED
  BY <1>1, <1>2 DEF DrawersTyped, Frozen, LocksStay

\* The drawer that a cash payment opens.
LEMMA DrawerOpenedTyped ==
  ASSUME DrawersTyped, NEW r, r.cashier \in Cashiers, NEW s, NEW d \in Days,
         DrawerOpened(r, s, d)
  PROVE  DrawersTyped' /\ LocksStay
<1>1. CASE session' = session
  BY <1>1, SameDrawers
<1>2. CASE /\ session[r.cashier][d].status = "none"
           /\ session' = [session EXCEPT ![r.cashier][d] = NewSession]
  <2>1. /\ NewSession \in CashSession /\ ~is_locked(NewSession)
        /\ NewSession.expected = None
    BY NewRow DEF NewSession
  <2>2. ~is_locked(session[r.cashier][d])
    BY <1>2 DEF is_locked, LOCKED_STATUSES
  <2> HIDE DEF NewSession
  <2> QED
    BY <1>2, <2>1, <2>2, RowWritten
<1> QED
  BY <1>1, <1>2 DEF DrawerOpened

\* The count of a day closed from office.
LEMMA CountedLate ==
  ASSUME NEW w \in CashSession, NEW n, NEW v, NEW y
  PROVE  [w EXCEPT !.status = "closed", !.counted = n, !.variance = v, !.regularized = y] =
           [status |-> "closed", expected |-> w.expected, counted |-> n, variance |-> v,
            regularized |-> y]
<1> DEFINE a == [w EXCEPT !.status = "closed"]
           b == [a EXCEPT !.counted = n]
           c == [b EXCEPT !.variance = v]
<1>1. a = [status |-> "closed", expected |-> w.expected, counted |-> w.counted,
           variance |-> w.variance, regularized |-> w.regularized]
  BY DEF CashSession
<1> HIDE DEF a
<1>2. b = [status |-> "closed", expected |-> w.expected, counted |-> n,
           variance |-> w.variance, regularized |-> w.regularized]
  BY <1>1
<1> HIDE DEF b
<1>3. c = [status |-> "closed", expected |-> w.expected, counted |-> n,
           variance |-> v, regularized |-> w.regularized]
  BY <1>2
<1> HIDE DEF c
<1>4. [c EXCEPT !.regularized = y] =
        [status |-> "closed", expected |-> w.expected, counted |-> n, variance |-> v,
         regularized |-> y]
  BY <1>3
<1> QED
  BY <1>4 DEF a, b, c

\* The handlers of the drawers: a day closed from office, in the snapshot, has its expected
\* cash, in the committed row too.
LEMMA SessionHandlersTyped ==
  ASSUME DrawersTyped, NEW r \in Requests, NEW s \in Snapshot, NEW d \in Days, SnapshotStands(s),
         \/ r.op = "open_screen" /\ OpenScreenTx(r, s)
         \/ r.op = "close" /\ CloseTx(r, s)
         \/ r.op = "regularize" /\ RegularizeTx(r, s)
         \/ r.op = "sweep" /\ SweepTx(s)
  PROVE  DrawersTyped' /\ LocksStay /\ UNCHANGED money
<1>0. /\ session \in [Cashiers -> [Days -> CashSession]]
      /\ s.session \in [Cashiers -> [Days -> CashSession]]
      /\ s.payment \in [Payments -> Payment]
  BY DEF DrawersTyped, Snapshot
<1>a. /\ r.op \in {"open_screen", "close", "regularize"} =>
           r.cashier \in Cashiers /\ r.day \in Days
      /\ r.op \in {"close", "regularize"} => r.counted \in Nat
  BY RequestFields, CounterAssumption
<1>b. ASSUME NEW c, NEW e PROVE DayCash(s.payment, c, e) \in Nat
  BY <1>0, DayCashIsNat
<1>1. CASE r.op = "open_screen" /\ OpenScreenTx(r, s)
  <2>1. /\ session[r.cashier][r.day].status = "none"
        /\ session' = [session EXCEPT ![r.cashier][r.day] = NewSession]
        /\ UNCHANGED money
    BY <1>1 DEF OpenScreenTx, get_my_session, money
  <2>2. /\ NewSession \in CashSession /\ ~is_locked(NewSession)
        /\ NewSession.expected = None
    BY NewRow DEF NewSession
  <2>3. ~is_locked(session[r.cashier][r.day])
    BY <2>1 DEF is_locked, LOCKED_STATUSES
  <2> HIDE DEF NewSession
  <2> QED
    BY <1>1, <1>a, <2>1, <2>2, <2>3, RowWritten
<1>2. CASE r.op = "close" /\ CloseTx(r, s)
  <2> DEFINE money_in == DayCash(s.payment, r.cashier, r.day)
             was  == session[r.cashier][r.day]
             row  == Counted(money_in, r.counted, was.regularized)
  <2>1. was \in CashSession /\ money_in \in Nat /\ r.counted \in Nat
    BY <1>0, <1>2, <1>a, <1>b
  <2>2. /\ session' = [session EXCEPT ![r.cashier][r.day] = row]
        /\ UNCHANGED money
    BY <1>2 DEF CloseTx, money
  <2> HIDE DEF money_in, was
  <2>3. row \in CashSession /\ is_locked(row) /\ row.expected # None
    BY <2>1, CashDayAssumption
       DEF Counted, CashSession, CashSessionStatus, is_locked, LOCKED_STATUSES
  <2> HIDE DEF row
  <2> QED
    BY <1>2, <1>a, <2>2, <2>3, RowWritten
<1>3. CASE r.op = "regularize" /\ RegularizeTx(r, s)
  <2> DEFINE seen == s.session[r.cashier][r.day]
             was  == session[r.cashier][r.day]
             row  == [was EXCEPT !.status = "closed", !.counted = r.counted,
                                 !.variance = r.counted - seen.expected, !.regularized = TRUE]
  <2>1. was \in CashSession /\ seen \in CashSession /\ r.counted \in Nat
    BY <1>0, <1>3, <1>a
  <2>2. /\ seen.status = "auto_closed"
        /\ session' = [session EXCEPT ![r.cashier][r.day] = row]
        /\ UNCHANGED money
    BY <1>3 DEF RegularizeTx, money
  <2>3. is_locked(seen)
    BY <2>2 DEF is_locked, LOCKED_STATUSES
  <2>4. seen.expected # None /\ was.expected # None
    BY <1>3, <1>a, <2>3 DEF SnapshotStands, Frozen, DrawersTyped
  <2> HIDE DEF seen, was
  <2>5. seen.expected \in Nat /\ was.expected \in Nat
    BY <2>1, <2>4 DEF CashSession
  <2>6. row = [status |-> "closed", expected |-> was.expected, counted |-> r.counted,
               variance |-> r.counted - seen.expected, regularized |-> TRUE]
    BY <2>1, CountedLate
  <2>7. r.counted - seen.expected \in Int
    BY <2>1, <2>5
  <2> HIDE DEF row
  <2>8. row \in CashSession
    BY <2>1, <2>5, <2>6, <2>7 DEF CashSession, CashSessionStatus
  <2>9. is_locked(row) /\ row.expected # None
    BY <2>4, <2>6 DEF is_locked, LOCKED_STATUSES
  <2> QED
    BY <1>3, <1>a, <2>2, <2>8, <2>9, RowWritten
<1>4. CASE r.op = "sweep" /\ SweepTx(s)
  <2> DEFINE row(c, e) == AutoClosed(session[c][e], DayCash(s.payment, c, e))
  <2>1. /\ session' = [c \in Cashiers |-> [e \in Days |->
                         IF <<c, e>> \in s.batch THEN row(c, e) ELSE session[c][e]]]
        /\ UNCHANGED money
    BY <1>4 DEF SweepTx, money
  <2>2. ASSUME NEW c \in Cashiers, NEW e \in Days
        PROVE  row(c, e) \in CashSession /\ is_locked(row(c, e)) /\ row(c, e).expected # None
    <3>1. DayCash(s.payment, c, e) \in Nat /\ session[c][e] \in CashSession
      BY <1>0, <1>b
    <3> QED
      BY <3>1, CashDayAssumption
         DEF AutoClosed, CashSession, CashSessionStatus, is_locked, LOCKED_STATUSES
  <2> HIDE DEF row
  <2>3. \A c \in Cashiers, e \in Days :
          session'[c][e] = IF <<c, e>> \in s.batch THEN row(c, e) ELSE session[c][e]
    BY <2>1
  <2>4. session' \in [Cashiers -> [Days -> CashSession]]
    BY <1>0, <2>1, <2>2
  <2>5. ASSUME NEW c \in Cashiers, NEW e \in Days
        PROVE  /\ is_locked(session'[c][e]) <=> session'[c][e].expected # None
               /\ is_locked(session[c][e]) => is_locked(session'[c][e])
    <3>1. CASE <<c, e>> \in s.batch
      BY <2>2, <2>3, <3>1
    <3>2. CASE <<c, e>> \notin s.batch
      <4>1. session'[c][e] = session[c][e]
        BY <2>3, <3>2
      <4>2. is_locked(session[c][e]) <=> session[c][e].expected # None
        BY DEF DrawersTyped, Frozen
      <4> QED
        BY <4>1, <4>2
    <3> QED
      BY <3>1, <3>2
  <2> QED
    BY <2>1, <2>4, <2>5 DEF DrawersTyped, Frozen, LocksStay
<1> QED
  BY <1>1, <1>2, <1>3, <1>4

\* The lines recomputed from whatever was seen of the payments.
LEMMA RecomputedTyped ==
  ASSUME BooksTyped, NEW pay, NEW al \in [Payments -> [Fees -> Nat]], NEW touched,
         fee' = Recomputed(touched, pay, al)
  PROVE  fee' \in [Fees -> FeeLine] /\ Undiscounted'
<1>1. \A f \in Fees : fee[f] \in FeeLine /\ PaidOn(pay, al, f) \in Nat
  BY PaidOnIsNat DEF BooksTyped
<1>2. ASSUME NEW f \in Fees
      PROVE  /\ recompute_fee_status(fee[f], PaidOn(pay, al, f)) \in FeeLine
             /\ recompute_fee_status(fee[f], PaidOn(pay, al, f)).amount = fee[f].amount
             /\ recompute_fee_status(fee[f], PaidOn(pay, al, f)).original = fee[f].original
  BY <1>1, Recomputing
<1>3. /\ fee' = [f \in Fees |-> fee'[f]]
      /\ \A f \in Fees : fee'[f] \in {fee[f], recompute_fee_status(fee[f], PaidOn(pay, al, f))}
  BY DEF Recomputed
<1>4. \A f \in Fees : /\ fee'[f] \in FeeLine /\ fee'[f].amount = fee[f].amount
                      /\ fee'[f].original = fee[f].original
  BY <1>1, <1>2, <1>3
<1>5. fee' \in [Fees -> FeeLine]
  BY <1>3, <1>4
<1> QED
  BY <1>4, <1>5 DEF Undiscounted, BooksTyped

\* A payment inserted with its lines.
LEMMA InsertTyped ==
  ASSUME BooksTyped, today \in Days, NEW r, NEW s \in Snapshot, NEW e \in Enrollments,
         NEW key \in Keys \cup {None}, NEW lines \in [Fees -> Nat],
         r.amount \in Nat, r.method \in Methods, r.cashier \in Cashiers,
         Insert(r, s, e, key, lines)
  PROVE  BooksTyped'
<1> DEFINE row == [status |-> "completed", enrollment |-> e, amount |-> r.amount,
                   method |-> r.method, received_by |-> r.cashier, day |-> today,
                   key |-> key]
<1>1. PICK p \in Payments :
        /\ payment' = [payment EXCEPT ![p] = row]
        /\ alloc' = [alloc EXCEPT ![p] = lines]
        /\ fee' = Recomputed({f \in Fees : lines[f] > 0}, [s.payment EXCEPT ![p] = payment'[p]],
                             [s.alloc EXCEPT ![p] = lines])
  BY DEF Insert
<1>2. row \in Payment
  BY DEF Payment, PaymentStatus
<1>3. s.alloc \in [Payments -> [Fees -> Nat]]
  BY DEF Snapshot
<1> HIDE DEF row
<1>4. payment' \in [Payments -> Payment] /\ alloc' \in [Payments -> [Fees -> Nat]]
  BY <1>1, <1>2 DEF BooksTyped
<1>5. [s.alloc EXCEPT ![p] = lines] \in [Payments -> [Fees -> Nat]]
  BY <1>3
<1>6. fee' \in [Fees -> FeeLine] /\ Undiscounted'
  BY <1>1, <1>5, RecomputedTyped
<1> QED
  BY <1>4, <1>6 DEF BooksTyped

\* What a snapshot shows paid.
LEMMA SnapshotPaid ==
  ASSUME NEW s \in Snapshot
  PROVE  /\ Paid(s.payment, s.alloc) \in [Fees -> Nat]
         /\ \A f \in Fees : Paid(s.payment, s.alloc)[f] = PaidOn(s.payment, s.alloc, f)
<1>1. s.alloc \in [Payments -> [Fees -> Nat]]
  BY DEF Snapshot
<1>2. \A f \in Fees : PaidOn(s.payment, s.alloc, f) \in Nat
  BY <1>1, PaidOnIsNat
<1> QED
  BY <1>2 DEF Paid

\* Taking money.
LEMMA TakingTyped ==
  ASSUME BooksTyped, DrawersTyped, today \in Days, NEW r \in Requests, NEW s \in Snapshot,
         NEW d \in Days,
         \/ r.op = "record" /\ Record(r, s, d)
         \/ r.op = "create" /\ Create(r, s, d)
  PROVE  BooksTyped' /\ DrawersTyped' /\ LocksStay
<1>1. CASE r.op = "record" /\ Record(r, s, d)
  <2> DEFINE paid  == Paid(s.payment, s.alloc)
             lines == resolve_allocation(r.amount, r.items, FeesOf(r.enrollment), fee, paid,
                                         FeeCount).splits
  <2>1. /\ r.cashier \in Cashiers /\ r.enrollment \in Enrollments /\ r.amount \in Nat
        /\ r.items \in Items /\ r.method \in Methods /\ r.key \in Keys \cup {None}
    BY <1>1, RequestFields, CounterAssumption
  <2>2. /\ DrawerOpened(r, s, d)
        /\ may_record(r.amount, r.items, FeesOf(r.enrollment), fee, paid, FeeCount)
        /\ Insert(r, s, r.enrollment, r.key, lines)
    BY <1>1 DEF Record
  <2>3. paid \in [Fees -> Nat] /\ fee \in [Fees -> FeeLine]
    BY SnapshotPaid DEF BooksTyped
  <2> HIDE DEF paid
  <2>4. lines \in [Fees -> Nat]
    BY <2>1, <2>2, <2>3, RecordLines
  <2> HIDE DEF lines
  <2> QED
    BY <2>1, <2>2, <2>4, InsertTyped, DrawerOpenedTyped
<1>2. CASE r.op = "create" /\ Create(r, s, d)
  <2> DEFINE lines == [f \in Fees |-> IF f = r.fee THEN r.amount ELSE 0]
  <2>1. /\ r.cashier \in Cashiers /\ r.fee \in Fees /\ r.amount \in Nat
        /\ r.method \in Methods /\ EnrollmentOf[r.fee] \in Enrollments
    BY <1>2, RequestFields, CounterAssumption
  <2>2. DrawerOpened(r, s, d) /\ Insert(r, s, EnrollmentOf[r.fee], None, lines)
    BY <1>2 DEF Create
  <2>3. lines \in [Fees -> Nat] /\ None \in Keys \cup {None}
    BY <2>1
  <2> HIDE DEF lines
  <2> QED
    BY <2>1, <2>2, <2>3, InsertTyped, DrawerOpenedTyped
<1> QED
  BY <1>1, <1>2

-----------------------------------------------------------------------------
(* The corrections, and the handlers that write one line. *)

\* A payment that exists goes on existing.
PaymentsStay ==
  \A p \in Payments : payment[p].status # "none" => payment'[p].status # "none"

\* A line takes a status of a line.
LEMMA StatusTyped ==
  ASSUME NEW line \in FeeLine, NEW n \in Nat
  PROVE  StatusAfter(line, n) \in FeeStatuses
<1>1. recompute_fee_status(line, n) \in FeeLine
  BY Recomputing
<1>2. recompute_fee_status(line, n).status = StatusAfter(line, n)
  BY DEF recompute_fee_status, FeeLine
<1> QED
  BY <1>1, <1>2 DEF FeeLine

\* A payment inserted takes none away.
LEMMA TakingStays ==
  ASSUME BooksTyped, NEW r, NEW s, NEW e, NEW key, NEW lines, Insert(r, s, e, key, lines)
  PROVE  PaymentsStay
<1> DEFINE row == [status |-> "completed", enrollment |-> e, amount |-> r.amount,
                   method |-> r.method, received_by |-> r.cashier, day |-> today,
                   key |-> key]
<1>1. PICK p \in Payments : payment' = [payment EXCEPT ![p] = row]
  BY DEF Insert
<1>2. row.status = "completed"
  OBVIOUS
<1> HIDE DEF row
<1> QED
  BY <1>1, <1>2 DEF PaymentsStay, BooksTyped

\* Validating and cancelling.
LEMMA TransitionTyped ==
  ASSUME BooksTyped, NEW r \in Requests, r.op \in {"validate", "cancel"}, NEW s \in Snapshot,
         NEW target \in {"completed", "cancelled"}, TransitionTx(r, s, target)
  PROVE  BooksTyped' /\ session' = session /\ PaymentsStay
<1> DEFINE p    == r.payment
           seen == [s.payment EXCEPT ![p] = payment'[p]]
           after(f) == StatusAfter(s.fee[f], PaidOn(seen, s.alloc, f))
<1>1. /\ p \in Payments
      /\ fee \in [Fees -> FeeLine] /\ payment \in [Payments -> Payment]
      /\ s.fee \in [Fees -> FeeLine] /\ s.alloc \in [Payments -> [Fees -> Nat]]
  BY RequestFields DEF BooksTyped, Snapshot
<1>2. /\ payment' = [payment EXCEPT ![p].status = target]
      /\ fee' = [f \in Fees |-> IF f \in LinesSeen(r, s) /\ after(f) # s.fee[f].status
                                THEN [fee[f] EXCEPT !.status = after(f)] ELSE fee[f]]
      /\ UNCHANGED <<alloc, session>>
  BY DEF TransitionTx
<1>3. \A f \in Fees : after(f) \in FeeStatuses
  <2> SUFFICES ASSUME NEW f \in Fees PROVE after(f) \in FeeStatuses
    OBVIOUS
  <2>1. s.fee[f] \in FeeLine /\ PaidOn(seen, s.alloc, f) \in Nat
    BY <1>1, PaidOnIsNat
  <2> QED
    BY <2>1, StatusTyped
<1> HIDE DEF after, p, seen
<1>4. ASSUME NEW f \in Fees
      PROVE  /\ [fee[f] EXCEPT !.status = after(f)] \in FeeLine
             /\ [fee[f] EXCEPT !.status = after(f)].amount = fee[f].amount
             /\ [fee[f] EXCEPT !.status = after(f)].original = fee[f].original
  <2>1. fee[f] \in FeeLine /\ after(f) \in FeeStatuses
    BY <1>1, <1>3
  <2> QED
    BY <2>1 DEF FeeLine
<1>5. \A f \in Fees : /\ fee'[f] \in FeeLine /\ fee'[f].amount = fee[f].amount
                      /\ fee'[f].original = fee[f].original
  BY <1>1, <1>2, <1>4
<1>6. fee' \in [Fees -> FeeLine] /\ Undiscounted'
  <2>1. fee' = [f \in Fees |-> fee'[f]]
    BY <1>2
  <2> QED
    BY <1>5, <2>1 DEF Undiscounted, BooksTyped
<1>7. payment' \in [Payments -> Payment] /\ PaymentsStay
  <2> DEFINE new == [payment[p] EXCEPT !.status = target]
  <2>1. payment[p] \in Payment
    BY <1>1
  <2>2. new \in Payment /\ new.status = target
    BY <2>1 DEF Payment, PaymentStatus
  <2>3. payment' = [payment EXCEPT ![p] = new]
    BY <1>2
  <2> HIDE DEF new
  <2> QED
    BY <1>1, <2>2, <2>3 DEF PaymentsStay
<1> QED
  BY <1>2, <1>6, <1>7 DEF BooksTyped

\* Moving from one line to another.
LEMMA MoveTyped ==
  ASSUME BooksTyped, NEW r \in Requests, r.op = "reallocate", NEW s \in Snapshot,
         Reallocate(r, s)
  PROVE  BooksTyped' /\ session' = session /\ PaymentsStay
<1> DEFINE p     == r.payment
           left  == s.alloc[p][r.from] - r.amount
           seen  == [s.alloc[p] EXCEPT ![r.from] = left, ![r.to] = @ + r.amount]
           after == [s.alloc EXCEPT ![p] = seen]
<1>1. /\ p \in Payments /\ r.from \in Fees /\ r.to \in Fees /\ r.amount \in Nat
      /\ s.alloc \in [Payments -> [Fees -> Nat]] /\ alloc \in [Payments -> [Fees -> Nat]]
  BY RequestFields, CounterAssumption DEF BooksTyped, Snapshot
<1>2. /\ r.from # r.to
      /\ LineHolds(s.alloc[p], r.from, r.amount)
      /\ alloc' = [alloc EXCEPT ![p][r.from] = left, ![p][r.to] = seen[r.to]]
      /\ fee' = Recomputed({r.from, r.to}, s.payment, after)
      /\ UNCHANGED <<payment, session>>
  BY DEF Reallocate
<1>3. left \in Nat
  <2>1. s.alloc[p][r.from] \in Nat
    BY <1>1
  <2> QED
    BY <1>1, <1>2, <2>1 DEF LineHolds
<1>4. seen \in [Fees -> Nat]
  <2>1. s.alloc[p] \in [Fees -> Nat]
    BY <1>1
  <2>2. s.alloc[p][r.to] + r.amount \in Nat
    BY <1>1
  <2>3. seen = [f \in Fees |-> IF f = r.to THEN s.alloc[p][r.to] + r.amount
                               ELSE IF f = r.from THEN left ELSE s.alloc[p][f]]
    BY <1>1, <1>2, <2>1
  <2> HIDE DEF left
  <2> QED
    BY <1>3, <2>1, <2>2, <2>3
<1> HIDE DEF left, seen, p
<1>5. alloc' \in [Payments -> [Fees -> Nat]]
  BY <1>1, <1>2, <1>3, <1>4
<1>6. after \in [Payments -> [Fees -> Nat]]
  BY <1>1, <1>4
<1> HIDE DEF after
<1>7. fee' \in [Fees -> FeeLine] /\ Undiscounted'
  BY <1>2, <1>6, RecomputedTyped
<1> QED
  BY <1>2, <1>5, <1>7 DEF BooksTyped, PaymentsStay

\* One line written.
LEMMA LineWritten ==
  ASSUME BooksTyped, NEW f \in Fees, NEW line \in FeeLine, fee' = [fee EXCEPT ![f] = line],
         line.original = None => line.amount > 0, UNCHANGED <<payment, alloc>>
  PROVE  BooksTyped' /\ PaymentsStay
<1>1. fee' \in [Fees -> FeeLine] /\ \A g \in Fees : fee'[g] = IF g = f THEN line ELSE fee[g]
  BY DEF BooksTyped
<1> QED
  BY <1>1 DEF BooksTyped, Undiscounted, PaymentsStay

\* Deposits in kind and discounts.
LEMMA LineHandlersTyped ==
  ASSUME BooksTyped, NEW r \in Requests, NEW s \in Snapshot,
         \/ r.op = "mark_in_kind" /\ MarkInKind(r, s)
         \/ r.op = "cancel_in_kind" /\ CancelInKind(r, s)
         \/ r.op = "set_discount" /\ SetDiscount(r, s)
         \/ r.op = "remove_discount" /\ RemoveDiscount(r, s)
  PROVE  BooksTyped' /\ session' = session /\ PaymentsStay
<1> DEFINE f == r.fee
           n == PaidOn(s.payment, s.alloc, f)
<1>1. f \in Fees /\ fee[f] \in FeeLine /\ s.fee[f] \in FeeLine
  BY RequestFields DEF BooksTyped, Snapshot
<1>2. n \in Nat
  BY <1>1, PaidOnIsNat DEF Snapshot
<1>3. fee[f].original = None => fee[f].amount > 0
  BY <1>1 DEF BooksTyped, Undiscounted
<1> HIDE DEF f, n
<1>4. ASSUME NEW st \in {"in_kind", "pending"}, fee' = [fee EXCEPT ![f].status = st],
             UNCHANGED <<payment, alloc, session>>
      PROVE  BooksTyped' /\ session' = session /\ PaymentsStay
  <2> DEFINE line == [fee[f] EXCEPT !.status = st]
  <2>1. line \in FeeLine /\ line.original = fee[f].original /\ line.amount = fee[f].amount
    BY <1>1 DEF FeeLine, FeeStatuses, NOT_CASH_DUE
  <2>2. fee' = [fee EXCEPT ![f] = line]
    BY <1>4
  <2> HIDE DEF line
  <2> QED
    BY <1>1, <1>3, <1>4, <2>1, <2>2, LineWritten
<1>5. CASE r.op = "mark_in_kind" /\ MarkInKind(r, s)
  BY <1>4, <1>5 DEF MarkInKind, f
<1>6. CASE r.op = "cancel_in_kind" /\ CancelInKind(r, s)
  BY <1>4, <1>6 DEF CancelInKind, f
<1>7. CASE r.op = "set_discount" /\ SetDiscount(r, s)
  <2> DEFINE existing == s.fee[f].original
             nominal  == IF existing # None THEN existing ELSE fee[f].amount
             net      == nominal - r.reduction
             due      == [status |-> "pending", amount |-> net, original |-> nominal]
             line     == IF net = 0 THEN [due EXCEPT !.status = "waived"]
                         ELSE recompute_fee_status(due, n)
  <2>1. /\ r.reduction <= nominal
        /\ (existing = None) <=> (fee[f].original = None)
        /\ fee' = [fee EXCEPT ![f] = line]
        /\ UNCHANGED <<payment, alloc, session>>
    BY <1>7 DEF SetDiscount, f, n
  <2>2. r.reduction \in Nat
    BY <1>7, RequestFields, CounterAssumption
  <2>3. nominal \in Nat \ {0}
    BY <1>1, <1>3, <2>1 DEF FeeLine
  <2> HIDE DEF nominal
  <2>4. net \in Nat
    BY <2>1, <2>2, <2>3
  <2> HIDE DEF net
  <2>5. due \in FeeLine /\ [due EXCEPT !.status = "waived"] \in FeeLine
    BY <2>3, <2>4 DEF FeeLine, FeeStatuses, NOT_CASH_DUE
  <2>6. due.original = nominal /\ [due EXCEPT !.status = "waived"].original = nominal
    OBVIOUS
  <2> HIDE DEF due
  <2>7. line \in FeeLine /\ line.original = nominal
    BY <1>2, <2>5, <2>6, Recomputing
  <2>8. nominal # None
    BY <2>3, CashDayAssumption
  <2> HIDE DEF line
  <2> QED
    BY <1>1, <2>1, <2>7, <2>8, LineWritten
<1>8. CASE r.op = "remove_discount" /\ RemoveDiscount(r, s)
  <2> DEFINE due  == [status |-> "pending", amount |-> s.fee[f].original, original |-> None]
             line == recompute_fee_status(due, n)
  <2>1. /\ s.fee[f].original # None
        /\ fee' = [fee EXCEPT ![f] = line]
        /\ UNCHANGED <<payment, alloc, session>>
    BY <1>8 DEF RemoveDiscount, f, n
  <2>2. s.fee[f].original \in Nat \ {0}
    BY <1>1, <2>1 DEF FeeLine
  <2>3. due \in FeeLine /\ due.amount > 0
    BY <2>2 DEF FeeLine, FeeStatuses, NOT_CASH_DUE
  <2> HIDE DEF due
  <2>4. line \in FeeLine /\ line.amount > 0
    BY <1>2, <2>3, Recomputing
  <2> HIDE DEF line
  <2> QED
    BY <1>1, <2>1, <2>4, LineWritten
<1> QED
  BY <1>5, <1>6, <1>7, <1>8

\* Whatever a handler read, what it writes is typed, and takes neither a payment nor a
\* locked day back.
LEMMA HandlerTyped ==
  ASSUME Data, NEW r \in Requests, NEW s \in Snapshot, NEW d \in Days, SnapshotStands(s),
         Handler(r, s, d), today' = today
  PROVE  Data' /\ LocksStay /\ PaymentsStay
<1>1. today \in Days /\ BooksTyped /\ DrawersTyped
  BY DataParts
<1> SUFFICES BooksTyped' /\ DrawersTyped' /\ LocksStay /\ PaymentsStay
  <2>1. BooksTyped' /\ DrawersTyped' /\ today' \in Days => Data'
    BY DEF Data, TypeOK, CashDayTypeOK, BooksTyped, DrawersTyped
  <2> QED
    BY <1>1, <2>1
<1>2. CASE \/ r.op = "record" /\ Record(r, s, d)
           \/ r.op = "create" /\ Create(r, s, d)
  <2>1. BooksTyped' /\ DrawersTyped' /\ LocksStay
    BY <1>1, <1>2, TakingTyped
  <2>2. PaymentsStay
    BY <1>1, <1>2, TakingStays DEF Record, Create
  <2> QED
    BY <2>1, <2>2
<1>3. CASE \/ r.op = "validate" /\ TransitionTx(r, s, "completed")
           \/ r.op = "cancel" /\ Cancel(r, s)
  <2>1. BooksTyped' /\ session' = session /\ PaymentsStay
    BY <1>1, <1>3, TransitionTyped DEF Cancel
  <2> QED
    BY <1>1, <2>1, SameDrawers
<1>4. CASE r.op = "reallocate" /\ Reallocate(r, s)
  BY <1>1, <1>4, MoveTyped, SameDrawers
<1>5. CASE \/ r.op = "mark_in_kind" /\ MarkInKind(r, s)
           \/ r.op = "cancel_in_kind" /\ CancelInKind(r, s)
           \/ r.op = "set_discount" /\ SetDiscount(r, s)
           \/ r.op = "remove_discount" /\ RemoveDiscount(r, s)
  <2>1. BooksTyped' /\ session' = session /\ PaymentsStay
    BY <1>1, <1>5, LineHandlersTyped
  <2> QED
    BY <1>1, <2>1, SameDrawers
<1>6. CASE \/ r.op = "open_screen" /\ OpenScreenTx(r, s)
           \/ r.op = "close" /\ CloseTx(r, s)
           \/ r.op = "regularize" /\ RegularizeTx(r, s)
           \/ r.op = "sweep" /\ SweepTx(s)
  <2>1. DrawersTyped' /\ LocksStay /\ UNCHANGED money
    BY <1>1, <1>6, SessionHandlersTyped
  <2>2. PaymentsStay
    BY <2>1 DEF PaymentsStay, money
  <2> QED
    BY <1>1, <2>1, <2>2, SameBooks
<1>7. \/ \/ r.op = "record" /\ Record(r, s, d)
         \/ r.op = "create" /\ Create(r, s, d)
      \/ \/ r.op = "validate" /\ TransitionTx(r, s, "completed")
         \/ r.op = "cancel" /\ Cancel(r, s)
      \/ r.op = "reallocate" /\ Reallocate(r, s)
      \/ \/ r.op = "mark_in_kind" /\ MarkInKind(r, s)
         \/ r.op = "cancel_in_kind" /\ CancelInKind(r, s)
         \/ r.op = "set_discount" /\ SetDiscount(r, s)
         \/ r.op = "remove_discount" /\ RemoveDiscount(r, s)
      \/ \/ r.op = "open_screen" /\ OpenScreenTx(r, s)
         \/ r.op = "close" /\ CloseTx(r, s)
         \/ r.op = "regularize" /\ RegularizeTx(r, s)
         \/ r.op = "sweep" /\ SweepTx(s)
  BY Zenon DEF Handler
<1> QED
  BY ONLY <1>2, <1>3, <1>4, <1>5, <1>6, <1>7, Zenon

-----------------------------------------------------------------------------
(* What a handler leaves alone: all but the rows it locked and a payment that it adds. *)

\* A handler writes the lines, the drawers and the payment that it locked, and a new payment.
LEMMA InsertLeaves ==
  ASSUME BooksTyped, NEW r, NEW s, NEW e, NEW key, NEW lines, Insert(r, s, e, key, lines)
  PROVE  /\ \A f \in Fees : ~(lines[f] > 0) => fee'[f] = fee[f]
         /\ \A p \in Payments : payment[p].status # "none" =>
              payment'[p] = payment[p] /\ alloc'[p] = alloc[p]
<1>1. PICK p \in Payments :
        /\ payment[p].status = "none"
        /\ \E row : payment' = [payment EXCEPT ![p] = row]
        /\ alloc' = [alloc EXCEPT ![p] = lines]
        /\ fee' = Recomputed({f \in Fees : lines[f] > 0}, [s.payment EXCEPT ![p] = payment'[p]],
                             [s.alloc EXCEPT ![p] = lines])
  BY DEF Insert, NextId
<1>2. \A f \in Fees : ~(lines[f] > 0) => fee'[f] = fee[f]
  BY <1>1 DEF Recomputed
<1> QED
  BY <1>1, <1>2 DEF BooksTyped

\* The lines.
LEMMA LinesLeft ==
  ASSUME BooksTyped, NEW r \in Requests, NEW s \in Snapshot, NEW d \in Days, Handler(r, s, d)
  PROVE  \A f \in Fees : ~WritesLine(r, s, f) => fee'[f] = fee[f]
<1>1. CASE r.op = "record" /\ Record(r, s, d)
  <2> DEFINE paid  == Paid(s.payment, s.alloc)
             lines == resolve_allocation(r.amount, r.items, FeesOf(r.enrollment), fee, paid,
                                         FeeCount).splits
  <2>1. r.amount \in Nat /\ r.items \in Items
    BY <1>1, RequestFields, CounterAssumption
  <2>2. /\ may_record(r.amount, r.items, FeesOf(r.enrollment), fee, paid, FeeCount)
        /\ Insert(r, s, r.enrollment, r.key, lines)
    BY <1>1 DEF Record
  <2>3. paid \in [Fees -> Nat] /\ fee \in [Fees -> FeeLine]
    BY SnapshotPaid DEF BooksTyped
  <2> HIDE DEF paid
  <2>4. \A f \in Fees : lines[f] > 0 => f \in FeesOf(r.enrollment)
    BY <2>1, <2>2, <2>3, RecordLines
  <2> HIDE DEF lines
  <2>5. \A f \in Fees : ~(lines[f] > 0) => fee'[f] = fee[f]
    BY <2>2, InsertLeaves
  <2> QED
    BY <1>1, <2>4, <2>5 DEF WritesLine
<1>2. CASE r.op = "create" /\ Create(r, s, d)
  <2> DEFINE lines == [f \in Fees |-> IF f = r.fee THEN r.amount ELSE 0]
  <2>1. Insert(r, s, EnrollmentOf[r.fee], None, lines)
    BY <1>2 DEF Create
  <2>2. \A f \in Fees : f # r.fee => ~(lines[f] > 0)
    OBVIOUS
  <2> HIDE DEF lines
  <2>3. \A f \in Fees : ~(lines[f] > 0) => fee'[f] = fee[f]
    BY <2>1, InsertLeaves
  <2> QED
    BY <1>2, <2>2, <2>3 DEF WritesLine
<1>3. CASE \/ r.op = "validate" /\ TransitionTx(r, s, "completed")
           \/ r.op = "cancel" /\ Cancel(r, s)
  <2>1. \A f \in Fees : f \notin LinesSeen(r, s) => fee'[f] = fee[f]
    BY <1>3 DEF Cancel, TransitionTx
  <2> QED
    BY <1>3, <2>1 DEF WritesLine
<1>4. CASE r.op = "reallocate" /\ Reallocate(r, s)
  <2>1. \A f \in Fees : f \notin {r.from, r.to} => fee'[f] = fee[f]
    BY <1>4 DEF Reallocate, Recomputed
  <2> QED
    BY <1>4, <2>1 DEF WritesLine
<1>5. CASE \/ r.op = "mark_in_kind" /\ MarkInKind(r, s)
           \/ r.op = "cancel_in_kind" /\ CancelInKind(r, s)
           \/ r.op = "set_discount" /\ SetDiscount(r, s)
           \/ r.op = "remove_discount" /\ RemoveDiscount(r, s)
  <2>1. \E line : fee' = [fee EXCEPT ![r.fee] = line]
    BY <1>5 DEF MarkInKind, CancelInKind, SetDiscount, RemoveDiscount
  <2>2. \A f \in Fees : f # r.fee => fee'[f] = fee[f]
    BY <2>1 DEF BooksTyped
  <2>3. r.op \in {"mark_in_kind", "cancel_in_kind", "set_discount", "remove_discount"}
    BY <1>5
  <2> QED
    BY <2>2, <2>3 DEF WritesLine
<1>6. CASE OpenScreenTx(r, s) \/ CloseTx(r, s) \/ RegularizeTx(r, s) \/ SweepTx(s)
  BY <1>6 DEF OpenScreenTx, CloseTx, RegularizeTx, SweepTx
<1>7. \/ r.op = "record" /\ Record(r, s, d)
      \/ r.op = "create" /\ Create(r, s, d)
      \/ \/ r.op = "validate" /\ TransitionTx(r, s, "completed")
         \/ r.op = "cancel" /\ Cancel(r, s)
      \/ r.op = "reallocate" /\ Reallocate(r, s)
      \/ \/ r.op = "mark_in_kind" /\ MarkInKind(r, s)
         \/ r.op = "cancel_in_kind" /\ CancelInKind(r, s)
         \/ r.op = "set_discount" /\ SetDiscount(r, s)
         \/ r.op = "remove_discount" /\ RemoveDiscount(r, s)
      \/ OpenScreenTx(r, s) \/ CloseTx(r, s) \/ RegularizeTx(r, s) \/ SweepTx(s)
  BY Zenon DEF Handler
<1> QED
  BY ONLY <1>1, <1>2, <1>3, <1>4, <1>5, <1>6, <1>7, Zenon

\* The payments.
LEMMA PaymentsLeft ==
  ASSUME BooksTyped, NEW r \in Requests, NEW s, NEW d, Handler(r, s, d)
  PROVE  \A p \in Payments :
           payment[p].status # "none" /\ ~(r.op \in Correction /\ p = r.payment) =>
             payment'[p] = payment[p] /\ alloc'[p] = alloc[p]
<1>1. CASE Record(r, s, d) \/ Create(r, s, d)
  <2>1. PICK e, key, lines : Insert(r, s, e, key, lines)
    BY <1>1 DEF Record, Create
  <2> QED
    BY <2>1, InsertLeaves
<1>2. CASE \/ r.op = "validate" /\ TransitionTx(r, s, "completed")
           \/ r.op = "cancel" /\ Cancel(r, s)
  <2>1. /\ r.op \in Correction /\ alloc' = alloc
        /\ \E target : payment' = [payment EXCEPT ![r.payment].status = target]
    BY <1>2 DEF Cancel, TransitionTx, Correction
  <2> QED
    BY <2>1 DEF BooksTyped
<1>3. CASE r.op = "reallocate" /\ Reallocate(r, s)
  <2>1. /\ r.op \in Correction /\ payment' = payment
        /\ \E x, y : alloc' = [alloc EXCEPT ![r.payment][r.from] = x, ![r.payment][r.to] = y]
    BY <1>3 DEF Reallocate, Correction
  <2> QED
    BY <2>1 DEF BooksTyped
<1>4. CASE \/ MarkInKind(r, s) \/ CancelInKind(r, s) \/ SetDiscount(r, s) \/ RemoveDiscount(r, s)
           \/ OpenScreenTx(r, s) \/ CloseTx(r, s) \/ RegularizeTx(r, s) \/ SweepTx(s)
  BY <1>4 DEF MarkInKind, CancelInKind, SetDiscount, RemoveDiscount, OpenScreenTx, CloseTx,
              RegularizeTx, SweepTx
<1>5. \/ Record(r, s, d) \/ Create(r, s, d)
      \/ \/ r.op = "validate" /\ TransitionTx(r, s, "completed")
         \/ r.op = "cancel" /\ Cancel(r, s)
      \/ r.op = "reallocate" /\ Reallocate(r, s)
      \/ MarkInKind(r, s) \/ CancelInKind(r, s) \/ SetDiscount(r, s) \/ RemoveDiscount(r, s)
      \/ OpenScreenTx(r, s) \/ CloseTx(r, s) \/ RegularizeTx(r, s) \/ SweepTx(s)
  BY Zenon DEF Handler
<1> QED
  BY ONLY <1>1, <1>2, <1>3, <1>4, <1>5, Zenon

\* The drawers.
LEMMA DrawersLeft ==
  ASSUME DrawersTyped, NEW r \in Requests, NEW s, NEW d, Handler(r, s, d)
  PROVE  \A c \in Cashiers, e \in Days :
           ~WritesDrawer(r, s, d, c, e) => session'[c][e] = session[c][e]
<1>1. CASE \/ r.op = "record" /\ Record(r, s, d)
           \/ r.op = "create" /\ Create(r, s, d)
  <2>1. DrawerOpened(r, s, d) /\ r.op \in {"record", "create"}
    BY <1>1 DEF Record, Create
  <2>2. CASE r.method = "cash" /\ s.session[r.cashier][d].status = "none"
    <3>1. session' = [session EXCEPT ![r.cashier][d] = NewSession]
      BY <2>1, <2>2 DEF DrawerOpened
    <3>2. \A c \in Cashiers, e \in Days :
            ~(c = r.cashier /\ e = d) => session'[c][e] = session[c][e]
      BY <3>1 DEF DrawersTyped
    <3> QED
      BY <2>1, <2>2, <3>2 DEF WritesDrawer
  <2>3. CASE ~(r.method = "cash" /\ s.session[r.cashier][d].status = "none")
    <3>1. session' = session
      BY <2>1, <2>3 DEF DrawerOpened
    <3> QED
      BY <3>1
  <2> QED
    BY <2>2, <2>3
<1>2. CASE \/ r.op = "open_screen" /\ OpenScreenTx(r, s)
           \/ r.op = "close" /\ CloseTx(r, s)
           \/ r.op = "regularize" /\ RegularizeTx(r, s)
  <2>1. /\ \E row : session' = [session EXCEPT ![r.cashier][r.day] = row]
        /\ r.op \in {"open_screen", "close", "regularize"}
    BY <1>2 DEF OpenScreenTx, CloseTx, RegularizeTx, get_my_session
  <2>2. \A c \in Cashiers, e \in Days :
          ~(c = r.cashier /\ e = r.day) => session'[c][e] = session[c][e]
    BY <2>1 DEF DrawersTyped
  <2> QED
    BY <2>1, <2>2 DEF WritesDrawer
<1>3. CASE r.op = "sweep" /\ SweepTx(s)
  BY <1>3 DEF SweepTx, WritesDrawer
<1>4. CASE \/ TransitionTx(r, s, "completed") \/ Cancel(r, s) \/ Reallocate(r, s)
           \/ MarkInKind(r, s) \/ CancelInKind(r, s) \/ SetDiscount(r, s) \/ RemoveDiscount(r, s)
  BY <1>4 DEF TransitionTx, Cancel, Reallocate, MarkInKind, CancelInKind, SetDiscount,
              RemoveDiscount
<1>5. \/ \/ r.op = "record" /\ Record(r, s, d)
         \/ r.op = "create" /\ Create(r, s, d)
      \/ \/ r.op = "open_screen" /\ OpenScreenTx(r, s)
         \/ r.op = "close" /\ CloseTx(r, s)
         \/ r.op = "regularize" /\ RegularizeTx(r, s)
      \/ r.op = "sweep" /\ SweepTx(s)
      \/ TransitionTx(r, s, "completed") \/ Cancel(r, s) \/ Reallocate(r, s)
      \/ MarkInKind(r, s) \/ CancelInKind(r, s) \/ SetDiscount(r, s) \/ RemoveDiscount(r, s)
  BY Zenon DEF Handler
<1> QED
  BY ONLY <1>1, <1>2, <1>3, <1>4, <1>5, Zenon

-----------------------------------------------------------------------------
(* The invariant: locks, snapshots and committed rows together. *)

RunningTx == [pc : {"running"}, req : Requests, snap : Snapshot, when : Days,
              held : SUBSET RowLock, todo : Seq(RowLock)]

\* The nightly closure has listed a batch of its snapshot.
Listed(r, s, d) == r.op = "sweep" => s.batch \in Batches(StaleIn(s.session, d))

\* What is known of a request in progress, against the committed rows: its locks cover what
\* it will write, its snapshot is of the past, the payment it corrects exists.
Serves(q, ses, pay) ==
  \/ q = Idle
  \/ /\ q \in RunningTx
     /\ Covered(q.req, q.snap, q.when, q.held, q.todo)
     /\ Listed(q.req, q.snap, q.when)
     /\ Frozen(q.snap.session)
     /\ \A c \in Cashiers, d \in Days :
          is_locked(q.snap.session[c][d]) => is_locked(ses[c][d])
     /\ q.req.op \in Correction => pay[q.req.payment].status # "none"

\* No two requests hold a row against one another.
Exclusive ==
  \A t, u \in Tx : t # u /\ Running(t) /\ Running(u) =>
    \A a \in tx[t].held, b \in tx[u].held : ~Clash(a, b)

TxIInv ==
  /\ Data /\ begun \in 0..MaxRequests
  /\ tx = [t \in Tx |-> tx[t]]
  /\ \A t \in Tx : Serves(tx[t], session, payment)
  /\ Exclusive

\* Whatever commits in between, a request goes on knowing what it knew.
LEMMA ServesOn ==
  ASSUME NEW q, Serves(q, session, payment), LocksStay, PaymentsStay
  PROVE  Serves(q, session', payment')
<1>1. CASE q = Idle
  BY <1>1 DEF Serves
<1>2. CASE q # Idle
  <2>1. /\ q \in RunningTx
        /\ Covered(q.req, q.snap, q.when, q.held, q.todo)
        /\ Listed(q.req, q.snap, q.when)
        /\ Frozen(q.snap.session)
        /\ \A c \in Cashiers, d \in Days :
             is_locked(q.snap.session[c][d]) => is_locked(session[c][d])
        /\ q.req.op \in Correction => payment[q.req.payment].status # "none"
    BY <1>2 DEF Serves
  <2>2. \A c \in Cashiers, d \in Days :
          is_locked(q.snap.session[c][d]) => is_locked(session'[c][d])
    BY <2>1 DEF LocksStay
  <2>3. q.req \in Requests
    BY <2>1 DEF RunningTx
  <2>4. q.req.op \in Correction => payment'[q.req.payment].status # "none"
    BY <2>1, <2>3, RequestFields DEF PaymentsStay, Correction
  <2> QED
    BY <2>1, <2>2, <2>4 DEF Serves
<1> QED
  BY <1>1, <1>2

\* An idle slot is no request in progress.
LEMMA IdleIsNot == Idle.pc = "idle" /\ \A q \in RunningTx : q # Idle /\ q.pc = "running"
  BY DEF Idle, RunningTx

\* The parts of a request in progress.
LEMMA InProgress ==
  ASSUME TxIInv, NEW t \in Tx, Running(t)
  PROVE  /\ tx[t] \in RunningTx
         /\ tx[t].req \in Requests /\ tx[t].snap \in Snapshot /\ tx[t].when \in Days
         /\ tx[t].held \in SUBSET RowLock /\ tx[t].todo \in Seq(RowLock)
         /\ Covered(tx[t].req, tx[t].snap, tx[t].when, tx[t].held, tx[t].todo)
         /\ SnapshotStands(tx[t].snap)
         /\ Listed(tx[t].req, tx[t].snap, tx[t].when)
         /\ tx[t].req.op \in Correction => payment[tx[t].req.payment].status # "none"
<1>1. tx[t] # Idle
  BY IdleIsNot DEF Running
<1>2. Serves(tx[t], session, payment)
  BY DEF TxIInv
<1>3. tx[t] \in RunningTx
  BY <1>1, <1>2 DEF Serves
<1>4. /\ tx[t].req \in Requests /\ tx[t].snap \in Snapshot /\ tx[t].when \in Days
      /\ tx[t].held \in SUBSET RowLock /\ tx[t].todo \in Seq(RowLock)
  BY <1>3 DEF RunningTx
<1> QED
  BY <1>1, <1>2, <1>3, <1>4 DEF Serves, SnapshotStands

\* A request begins with the locks its handler needs, and holds none.
LEMMA BeginStep ==
  ASSUME TxIInv, NEW t \in Tx, Begin(t)
  PROVE  TxIInv'
<1>1. PICK r \in Requests :
        /\ Addressed(r)
        /\ \E B \in IF r.op = "sweep" THEN Batches(StaleIn(session, today)) ELSE {{}} :
           \E todo \in IF r.op # "sweep" THEN {LocksOf(r, Database(B), today)}
                       ELSE {[i \in DOMAIN q |-> X(<<"session", q[i][1], q[i][2]>>)] :
                               q \in SweepLocks(B)} :
             tx' = [tx EXCEPT ![t] = [pc |-> "running", req |-> r, snap |-> Database(B),
                                      when |-> today, held |-> {}, todo |-> todo]]
  BY DEF Begin
<1>2. PICK B \in IF r.op = "sweep" THEN Batches(StaleIn(session, today)) ELSE {{}} :
        \E todo \in IF r.op # "sweep" THEN {LocksOf(r, Database(B), today)}
                    ELSE {[i \in DOMAIN q |-> X(<<"session", q[i][1], q[i][2]>>)] :
                            q \in SweepLocks(B)} :
          tx' = [tx EXCEPT ![t] = [pc |-> "running", req |-> r, snap |-> Database(B),
                                   when |-> today, held |-> {}, todo |-> todo]]
  BY <1>1
<1> DEFINE snap == Database(B)
<1>3. PICK todo \in IF r.op # "sweep" THEN {LocksOf(r, snap, today)}
                    ELSE {[i \in DOMAIN q |-> X(<<"session", q[i][1], q[i][2]>>)] :
                            q \in SweepLocks(B)} :
        tx' = [tx EXCEPT ![t] = [pc |-> "running", req |-> r, snap |-> snap,
                                 when |-> today, held |-> {}, todo |-> todo]]
  BY <1>2
<1>3a. tx[t].pc = "idle" /\ begun < MaxRequests /\ begun' = begun + 1 /\ UNCHANGED <<today, db>>
  BY DEF Begin
<1>4. today \in Days /\ Frozen(session) /\ TypeOK
  BY DEF TxIInv, Data, TypeOK, CashDayTypeOK
<1>5. /\ snap \in Snapshot /\ snap.session = session /\ snap.payment = payment
      /\ snap.batch = B
  <2>1. B \in SUBSET (Cashiers \X Days)
    BY <1>2 DEF Batches, StaleIn
  <2> QED
    BY <1>4, <2>1 DEF Database, Snapshot, TypeOK, CashDayTypeOK
<1> HIDE DEF snap
<1>6. todo \in Seq(RowLock) /\ Covered(r, snap, today, {}, todo)
  <2>1. CASE r.op = "record"
    BY <1>3, <1>4, <2>1, RecordLocks
  <2>2. CASE r.op = "create"
    BY <1>3, <1>4, <2>2, CreateLocks
  <2>3. CASE r.op \in Correction
    BY <1>3, <1>4, <2>3, CorrectionLocks DEF Correction
  <2>4. CASE r.op \notin Correction \cup {"record", "create", "sweep"}
    BY <1>3, <1>4, <2>4, OneRowLocks
  <2>5. CASE r.op = "sweep"
    <3>1. PICK q \in SweepLocks(B) :
            todo = [i \in DOMAIN q |-> X(<<"session", q[i][1], q[i][2]>>)]
      BY <1>3, <2>5
    <3>2. snap.batch \subseteq Cashiers \X Days /\ q \in SweepLocks(snap.batch)
      BY <1>5, <3>1 DEF Snapshot
    <3> QED
      BY <1>4, <2>5, <3>1, <3>2, SweepLocksCover
  <2> QED
    BY <2>1, <2>2, <2>3, <2>4, <2>5
<1> DEFINE new == [pc |-> "running", req |-> r, snap |-> snap, when |-> today,
                   held |-> {}, todo |-> todo]
<1>7. new \in RunningTx /\ new.held = {} /\ new.req = r /\ new.snap = snap
      /\ new.when = today /\ new.todo = todo
  BY <1>4, <1>5, <1>6 DEF RunningTx
<1>8. r.op \in Correction => payment[r.payment].status # "none"
  BY <1>1 DEF Addressed, Correction
<1>8a. Listed(r, snap, today)
  BY <1>2, <1>5 DEF Listed
<1> HIDE DEF new
<1>9. Serves(new, session, payment)
  BY <1>4, <1>5, <1>6, <1>7, <1>8, <1>8a DEF Serves
<1>10. tx = [u \in Tx |-> tx[u]]
  BY DEF TxIInv
<1>11. /\ tx' = [u \in Tx |-> tx'[u]]
       /\ \A u \in Tx : tx'[u] = IF u = t THEN new ELSE tx[u]
  BY <1>3, <1>10 DEF new
<1>12. Data'
  BY <1>3a DEF TxIInv, db, Data, TypeOK, CashDayTypeOK, Undiscounted, Frozen
<1>13. \A u \in Tx : Serves(tx'[u], session', payment')
  <2>1. session' = session /\ payment' = payment
    BY <1>3a DEF db
  <2> QED
    BY <1>9, <1>11, <2>1 DEF TxIInv
<1>14. Exclusive'
  <2> SUFFICES ASSUME NEW u \in Tx, NEW v \in Tx, u # v, Running(u)', Running(v)',
                      NEW a \in tx'[u].held, NEW b \in tx'[v].held
               PROVE  ~Clash(a, b)
    BY DEF Exclusive
  <2>1. u # t /\ v # t
    BY <1>7, <1>11
  <2> QED
    BY <1>11, <2>1 DEF TxIInv, Exclusive, Running
<1>15. begun' \in 0..MaxRequests
  BY <1>3a, RequestsAssumption DEF TxIInv
<1> QED
  BY <1>11, <1>12, <1>13, <1>14, <1>15 DEF TxIInv

\* A request with other locks.
LEMMA Relocked ==
  ASSUME NEW q \in RunningTx, NEW h, NEW w
  PROVE  [q EXCEPT !.held = h, !.todo = w] =
           [pc |-> "running", req |-> q.req, snap |-> q.snap, when |-> q.when,
            held |-> h, todo |-> w]
<1> DEFINE a == [q EXCEPT !.held = h]
<1>1. a = [pc |-> "running", req |-> q.req, snap |-> q.snap, when |-> q.when,
           held |-> h, todo |-> q.todo]
  BY DEF RunningTx
<1> HIDE DEF a
<1>2. [a EXCEPT !.todo = w] =
        [pc |-> "running", req |-> q.req, snap |-> q.snap, when |-> q.when,
         held |-> h, todo |-> w]
  BY <1>1
<1> QED
  BY <1>2 DEF a

\* A row is given to the request that waits for it when nobody else holds it.
LEMMA AcquireStep ==
  ASSUME TxIInv, NEW t \in Tx, Acquire(t)
  PROVE  TxIInv'
<1> DEFINE l   == Head(tx[t].todo)
           new == [tx[t] EXCEPT !.held = @ \cup {l}, !.todo = Tail(@)]
<1>1. /\ Running(t) /\ tx[t].todo # << >>
      /\ \A u \in Tx \ {t} : ~Holds(u, l)
      /\ tx' = [tx EXCEPT ![t].held = @ \cup {l}, ![t].todo = Tail(@)]
      /\ UNCHANGED <<today, db, begun>>
  BY DEF Acquire, Waiting
<1>2. /\ tx[t] \in RunningTx /\ tx[t].todo \in Seq(RowLock) /\ tx[t].held \in SUBSET RowLock
      /\ Covered(tx[t].req, tx[t].snap, tx[t].when, tx[t].held, tx[t].todo)
      /\ SnapshotStands(tx[t].snap)
      /\ Listed(tx[t].req, tx[t].snap, tx[t].when)
      /\ tx[t].req.op \in Correction => payment[tx[t].req.payment].status # "none"
  BY <1>1, InProgress
<1>3. l \in RowLock /\ Tail(tx[t].todo) \in Seq(RowLock)
  BY <1>1, <1>2, HeadTailProperties
<1>4. new = [pc |-> "running", req |-> tx[t].req, snap |-> tx[t].snap, when |-> tx[t].when,
             held |-> tx[t].held \cup {l}, todo |-> Tail(tx[t].todo)]
  BY <1>2, Relocked
<1>5. tx = [u \in Tx |-> tx[u]]
  BY DEF TxIInv
<1>6. tx' = [tx EXCEPT ![t] = new]
  BY <1>1, <1>5
<1>7. \A x : Claims(x, tx[t].held, tx[t].todo)
               <=> Claims(x, tx[t].held \cup {l}, Tail(tx[t].todo))
  <2> SUFFICES ASSUME NEW x
               PROVE  Claims(x, tx[t].held, tx[t].todo)
                        <=> Claims(x, tx[t].held \cup {l}, Tail(tx[t].todo))
    OBVIOUS
  <2>1. OnList(x, tx[t].todo) <=> x = l \/ OnList(x, Tail(tx[t].todo))
    BY <1>1, <1>2, OnHead
  <2> HIDE DEF l
  <2> QED
    BY <2>1 DEF Claims
<1> HIDE DEF l, new
<1>8. Covered(tx[t].req, tx[t].snap, tx[t].when, tx[t].held \cup {l}, Tail(tx[t].todo))
  BY <1>2, <1>7 DEF Covered
<1>9. /\ new \in RunningTx /\ new.req = tx[t].req /\ new.snap = tx[t].snap
      /\ new.when = tx[t].when
      /\ new.held = tx[t].held \cup {l} /\ new.todo = Tail(tx[t].todo)
  BY <1>2, <1>3, <1>4 DEF RunningTx
<1>10. Serves(new, session, payment)
  BY <1>2, <1>8, <1>9 DEF Serves, SnapshotStands
<1>11. /\ tx' = [u \in Tx |-> tx'[u]]
       /\ \A u \in Tx : tx'[u] = IF u = t THEN new ELSE tx[u]
  BY <1>5, <1>6
<1>12. Data'
  BY <1>1 DEF TxIInv, db, Data, TypeOK, CashDayTypeOK, Undiscounted, Frozen
<1>13. \A u \in Tx : Serves(tx'[u], session', payment')
  <2>1. session' = session /\ payment' = payment
    BY <1>1 DEF db
  <2> QED
    BY <1>10, <1>11, <2>1 DEF TxIInv
<1>14. Exclusive'
  <2>1. \A a, b : Clash(a, b) <=> Clash(b, a)
    BY DEF Clash
  <2>2. \A u \in Tx \ {t} : Running(u) => \A b \in tx[u].held : ~Clash(b, l)
    BY <1>1 DEF Holds
  <2>3. \A u \in Tx \ {t} : Running(u) =>
          \A a \in new.held, b \in tx[u].held : ~Clash(a, b) /\ ~Clash(b, a)
    BY <1>1, <1>9, <2>1, <2>2 DEF TxIInv, Exclusive
  <2>4. \A u \in Tx \ {t} : Running(u)' <=> Running(u)
    BY <1>11 DEF Running
  <2> SUFFICES ASSUME NEW u \in Tx, NEW v \in Tx, u # v, Running(u)', Running(v)',
                      NEW a \in tx'[u].held, NEW b \in tx'[v].held
               PROVE  ~Clash(a, b)
    BY DEF Exclusive
  <2>5. CASE u = t
    BY <1>11, <2>3, <2>4, <2>5
  <2>6. CASE v = t
    BY <1>11, <2>3, <2>4, <2>6
  <2>7. CASE u # t /\ v # t
    BY <1>11, <2>4, <2>7 DEF TxIInv, Exclusive
  <2> QED
    BY <2>5, <2>6, <2>7
<1>15. begun' \in 0..MaxRequests
  BY <1>1 DEF TxIInv
<1> QED
  BY <1>11, <1>12, <1>13, <1>14, <1>15 DEF TxIInv

\* A request that ends leaves its rows to the others.
LEMMA EndStep ==
  ASSUME TxIInv, NEW t \in Tx, tx' = [tx EXCEPT ![t] = Idle], begun' = begun,
         Data', LocksStay, PaymentsStay
  PROVE  TxIInv'
<1>1. tx = [u \in Tx |-> tx[u]]
  BY DEF TxIInv
<1>2. /\ tx' = [u \in Tx |-> tx'[u]]
      /\ \A u \in Tx : tx'[u] = IF u = t THEN Idle ELSE tx[u]
  BY <1>1
<1>3. \A u \in Tx : Serves(tx'[u], session', payment')
  <2> SUFFICES ASSUME NEW u \in Tx PROVE Serves(tx'[u], session', payment')
    OBVIOUS
  <2>1. CASE u = t
    BY <1>2, <2>1 DEF Serves
  <2>2. CASE u # t
    BY <1>2, <2>2, ServesOn DEF TxIInv
  <2> QED
    BY <2>1, <2>2
<1>4. Exclusive'
  <2> SUFFICES ASSUME NEW u \in Tx, NEW v \in Tx, u # v, Running(u)', Running(v)',
                      NEW a \in tx'[u].held, NEW b \in tx'[v].held
               PROVE  ~Clash(a, b)
    BY DEF Exclusive
  <2>1. u # t /\ v # t
    BY <1>2, IdleIsNot DEF Running
  <2> QED
    BY <1>2, <2>1 DEF TxIInv, Exclusive, Running
<1> QED
  BY <1>2, <1>3, <1>4 DEF TxIInv

\* A request that is rolled back writes nothing.
LEMMA NothingWritten ==
  ASSUME TxIInv, UNCHANGED <<today, db>>
  PROVE  Data' /\ LocksStay /\ PaymentsStay
<1>1. Data'
  BY DEF TxIInv, db, Data, TypeOK, CashDayTypeOK, Undiscounted, Frozen
<1> QED
  BY <1>1 DEF db, LocksStay, PaymentsStay

\* Every step of overlapping requests keeps the invariant.
LEMMA TxInvariance == TxIInv /\ [TxNext]_txvars => TxIInv'
<1> SUFFICES ASSUME TxIInv, [TxNext]_txvars PROVE TxIInv'
  OBVIOUS
<1>1. ASSUME NEW t \in Tx, Commit(t) PROVE TxIInv'
  <2>1. /\ Running(t) /\ Handler(tx[t].req, tx[t].snap, tx[t].when)
        /\ tx' = [tx EXCEPT ![t] = Idle] /\ begun' = begun /\ today' = today
    BY <1>1 DEF Commit, Granted
  <2>2. /\ tx[t].req \in Requests /\ tx[t].snap \in Snapshot /\ tx[t].when \in Days
        /\ SnapshotStands(tx[t].snap) /\ Data
    BY <2>1, InProgress DEF TxIInv
  <2>3. Data' /\ LocksStay /\ PaymentsStay
    BY <2>1, <2>2, HandlerTyped
  <2> QED
    BY <2>1, <2>3, EndStep
<1>2. ASSUME NEW t \in Tx, Refuse(t) \/ Victim(t) PROVE TxIInv'
  <2>1. UNCHANGED <<today, db>> /\ tx' = [tx EXCEPT ![t] = Idle] /\ begun' = begun
    BY <1>2 DEF Refuse, Victim
  <2> QED
    BY <2>1, NothingWritten, EndStep
<1>3. CASE TickTx \/ UNCHANGED txvars
  <2>1. UNCHANGED <<db, tx, begun>> /\ today' \in Days
    BY <1>3, CashDayAssumption
       DEF TickTx, Midnight, txvars, db, TxIInv, Data, TypeOK, CashDayTypeOK, Days
  <2>2. Data'
    BY <2>1 DEF db, TxIInv, Data, TypeOK, CashDayTypeOK, Undiscounted, Frozen
  <2>3. Exclusive'
    BY <2>1 DEF TxIInv, Exclusive, Running
  <2> QED
    BY <2>1, <2>2, <2>3 DEF TxIInv, db
<1> QED
  BY <1>1, <1>2, <1>3, BeginStep, AcquireStep DEF TxNext

\* It holds of the books as the old counter left them.
LEMMA TxBegins == TxInit => TxIInv
<1> SUFFICES ASSUME Init, tx = [t \in Tx |-> Idle], begun = 0 PROVE TxIInv
  BY DEF TxInit
<1>1. TypeOK
  BY Initially DEF IInv, MoneyInv, MoneyTypeOK, DrawerInv, TypeOK
<1>2. Frozen(session)
  BY DEF Init, CashDayInit, Frozen, NoSession, is_locked, LOCKED_STATUSES
<1>3. Undiscounted
  <2>1. \A f \in Fees : fee[f].amount = Nominal[f] /\ Nominal[f] \in Nat \ {0}
    BY CounterAssumption DEF Init
  <2> QED
    BY <2>1 DEF Undiscounted
<1>4. \A t \in Tx : Serves(tx[t], session, payment)
  BY DEF Serves
<1>5. Exclusive
  BY DEF Exclusive, Running, Idle
<1> QED
  BY <1>1, <1>2, <1>3, <1>4, <1>5, RequestsAssumption DEF TxIInv, Data

\* The invariant of overlapping requests.
LEMMA TxAlways == TxSpec => []TxIInv
<1>1. TxIInv /\ [TxNext]_txvars => TxIInv'
  BY TxInvariance
<1> QED
  BY TxBegins, <1>1, PTL DEF TxSpec

\* A request always knows an input of a screen, a typed snapshot and the locks of its handler,
\* and leaves typed rows, whatever its reads were worth.
THEOREM TxTypes == TxSpec => []TxTypeOK
<1>1. TxIInv => TxTypeOK
  <2> SUFFICES ASSUME TxIInv PROVE TxTypeOK
    OBVIOUS
  <2>1. \A t \in Tx : tx[t] \in {Idle} \cup RunningTx
    BY DEF TxIInv, Serves
  <2>2. tx \in [Tx -> {Idle} \cup RunningTx]
    BY <2>1 DEF TxIInv
  <2> QED
    BY <2>2 DEF TxTypeOK, TxIInv, Data, RunningTx
<1> QED
  BY TxAlways, <1>1, PTL

\* A day locked stays locked, whatever overlaps: no late cashier, second count or closure from
\* office opens a drawer again (cash_session_service.py).
THEOREM LockedDaysStayLocked == TxSpec => [][LocksStay]_txvars
<1>1. TxIInv /\ [TxNext]_txvars => LocksStay
  <2> SUFFICES ASSUME TxIInv, [TxNext]_txvars PROVE LocksStay
    OBVIOUS
  <2>1. CASE UNCHANGED db
    BY <2>1 DEF db, LocksStay
  <2>2. ASSUME NEW t \in Tx, Commit(t) PROVE LocksStay
    <3>1. /\ Running(t) /\ Handler(tx[t].req, tx[t].snap, tx[t].when) /\ today' = today
      BY <2>2 DEF Commit, Granted
    <3>2. /\ tx[t].req \in Requests /\ tx[t].snap \in Snapshot /\ tx[t].when \in Days
          /\ SnapshotStands(tx[t].snap) /\ Data
      BY <3>1, InProgress DEF TxIInv
    <3> QED
      BY <3>1, <3>2, HandlerTyped
  <2>3. (\E t \in Tx : Commit(t)) \/ UNCHANGED db
    BY DEF TxNext, Begin, Acquire, Refuse, Victim, TickTx, txvars, db
  <2> QED
    BY <2>1, <2>2, <2>3
<1> QED
  BY TxAlways, <1>1, PTL DEF TxSpec

\* The locks do what they are taken for: a line, a payment with its allocations or a drawer
\* that a request holds is written by nobody else until it ends.
THEOREM LockedRowsAlwaysStand == TxSpec => LockedRowsStand
<1> DEFINE Stand == \A t \in Tx : Running(t) /\ tx'[t] = tx[t] =>
              /\ \A f \in Fees : X(<<"fee", f>>) \in tx[t].held => fee'[f] = fee[f]
              /\ \A p \in Payments : X(<<"payment", p>>) \in tx[t].held =>
                   payment'[p] = payment[p] /\ alloc'[p] = alloc[p]
              /\ \A c \in Cashiers, d \in Days : X(<<"session", c, d>>) \in tx[t].held =>
                   session'[c][d] = session[c][d]
<1>1. TxIInv /\ [TxNext]_txvars => Stand
  <2> SUFFICES ASSUME TxIInv, [TxNext]_txvars, NEW t \in Tx, Running(t), tx'[t] = tx[t]
               PROVE  /\ \A f \in Fees : X(<<"fee", f>>) \in tx[t].held => fee'[f] = fee[f]
                      /\ \A p \in Payments : X(<<"payment", p>>) \in tx[t].held =>
                           payment'[p] = payment[p] /\ alloc'[p] = alloc[p]
                      /\ \A c \in Cashiers, d \in Days : X(<<"session", c, d>>) \in tx[t].held =>
                           session'[c][d] = session[c][d]
    OBVIOUS
  <2>1. CASE UNCHANGED db
    BY <2>1 DEF db
  <2>2. ASSUME NEW u \in Tx, Commit(u)
        PROVE  /\ \A f \in Fees : X(<<"fee", f>>) \in tx[t].held => fee'[f] = fee[f]
               /\ \A p \in Payments : X(<<"payment", p>>) \in tx[t].held =>
                    payment'[p] = payment[p] /\ alloc'[p] = alloc[p]
               /\ \A c \in Cashiers, d \in Days : X(<<"session", c, d>>) \in tx[t].held =>
                    session'[c][d] = session[c][d]
    <3> DEFINE r == tx[u].req
               s == tx[u].snap
               d == tx[u].when
    <3>1. /\ Running(u) /\ tx[u].todo = << >> /\ Handler(r, s, d)
          /\ tx' = [tx EXCEPT ![u] = Idle]
      BY <2>2 DEF Commit, Granted
    <3>2. u # t
      <4>1. tx = [v \in Tx |-> tx[v]] /\ tx[t] # Idle
        BY IdleIsNot DEF TxIInv, Running
      <4> QED
        BY <3>1, <4>1
    <3>3. /\ r \in Requests /\ s \in Snapshot /\ d \in Days
          /\ Covered(r, s, d, tx[u].held, tx[u].todo)
      BY <3>1, InProgress
    <3>4. BooksTyped /\ DrawersTyped
      BY DataParts DEF TxIInv
    <3> HIDE DEF r, s, d
    <3>5. \A row : X(row) \in tx[t].held => X(row) \notin tx[u].held
      <4>1. \A row : Clash(X(row), X(row))
        BY DEF Clash, X
      <4> QED
        BY <3>1, <3>2, <4>1 DEF TxIInv, Exclusive
    <3>6. \A l : Claims(l, tx[u].held, tx[u].todo) => l \in tx[u].held
      BY <3>1, OnShort DEF Claims
    <3>7. ASSUME NEW f \in Fees, X(<<"fee", f>>) \in tx[t].held
          PROVE  fee'[f] = fee[f]
      <4>1. ~WritesLine(r, s, f)
        BY <3>3, <3>5, <3>6, <3>7 DEF Covered
      <4> QED
        BY <3>1, <3>3, <3>4, <4>1, LinesLeft
    <3>8. ASSUME NEW p \in Payments, X(<<"payment", p>>) \in tx[t].held
          PROVE  payment'[p] = payment[p] /\ alloc'[p] = alloc[p]
      <4>1. ~(r.op \in Correction /\ p = r.payment)
        BY <3>3, <3>5, <3>6, <3>8 DEF Covered
      <4>2. payment[p].status # "none"
        <5>1. /\ Covered(tx[t].req, tx[t].snap, tx[t].when, tx[t].held, tx[t].todo)
              /\ tx[t].req.op \in Correction => payment[tx[t].req.payment].status # "none"
          BY InProgress
        <5>2. Claims(X(<<"payment", p>>), tx[t].held, tx[t].todo)
          BY <3>8 DEF Claims
        <5> QED
          BY <5>1, <5>2 DEF Covered
      <4> QED
        BY <3>1, <3>3, <3>4, <4>1, <4>2, PaymentsLeft
    <3>9. ASSUME NEW c \in Cashiers, NEW e \in Days, X(<<"session", c, e>>) \in tx[t].held
          PROVE  session'[c][e] = session[c][e]
      <4>1. ~WritesDrawer(r, s, d, c, e)
        BY <3>3, <3>5, <3>6, <3>9 DEF Covered
      <4> QED
        BY <3>1, <3>3, <3>4, <4>1, DrawersLeft
    <3> QED
      BY <3>7, <3>8, <3>9
  <2>3. (\E u \in Tx : Commit(u)) \/ UNCHANGED db
    BY DEF TxNext, Begin, Acquire, Refuse, Victim, TickTx, txvars, db
  <2> QED
    BY <2>1, <2>2, <2>3
<1> QED
  BY TxAlways, <1>1, PTL DEF TxSpec, LockedRowsStand

-----------------------------------------------------------------------------
(* What a handler reads without a lock, when nobody has changed it. *)

\* What is paid on a line is the same when every payment gives it the same.
LEMMA SamePaid ==
  ASSUME NEW pay, NEW al, NEW pay2, NEW al2, NEW f,
         \A q \in Payments : Part(pay, al, q, f) = Part(pay2, al2, q, f)
  PROVE  PaidOn(pay, al, f) = PaidOn(pay2, al2, f)
<1> DEFINE a == [q \in Payments |-> IF pay[q].status = "completed" THEN al[q][f] ELSE 0]
           b == [q \in Payments |-> IF pay2[q].status = "completed" THEN al2[q][f] ELSE 0]
<1>1. \A q \in Payments : a[q] = Part(pay, al, q, f) /\ b[q] = Part(pay2, al2, q, f)
  BY DEF Part
<1>2. a = [q \in Payments |-> a[q]] /\ b = [q \in Payments |-> b[q]]
  OBVIOUS
<1>3. PaidOn(pay, al, f) = Sum(a, MaxPayments) /\ PaidOn(pay2, al2, f) = Sum(b, MaxPayments)
  BY DEF PaidOn
<1> HIDE DEF a, b
<1>4. a = b
  BY <1>1, <1>2
<1> QED
  BY <1>3, <1>4

\* The money of a line that did not move.
LEMMA NotMoved ==
  ASSUME BooksTyped, NEW s \in Snapshot, NEW Q, Q \subseteq Payments, NEW f \in Fees,
         ~MoneyMoved(s, Q, f)
  PROVE  \A q \in Q : /\ s.alloc[q][f] = alloc[q][f]
                      /\ alloc[q][f] > 0 => s.payment[q].status = payment[q].status
                      /\ Part(s.payment, s.alloc, q, f) = Part(payment, alloc, q, f)
<1> SUFFICES ASSUME NEW q \in Q
             PROVE  /\ s.alloc[q][f] = alloc[q][f]
                    /\ alloc[q][f] > 0 => s.payment[q].status = payment[q].status
                    /\ Part(s.payment, s.alloc, q, f) = Part(payment, alloc, q, f)
  OBVIOUS
<1>1. alloc[q][f] \in Nat
  BY DEF BooksTyped
<1>2. /\ s.alloc[q][f] = alloc[q][f]
      /\ alloc[q][f] > 0 => s.payment[q].status = payment[q].status
  BY DEF MoneyMoved
<1>3. CASE alloc[q][f] > 0
  BY <1>2, <1>3 DEF Part
<1>4. CASE alloc[q][f] = 0
  BY <1>2, <1>4 DEF Part
<1> QED
  BY <1>1, <1>2, <1>3, <1>4

\* What the handlers read of it.
LEMMA MoneyRead ==
  ASSUME BooksTyped, NEW s \in Snapshot, NEW f \in Fees, ~MoneyMoved(s, Payments, f)
  PROVE  /\ PaidOn(s.payment, s.alloc, f) = PaidOn(payment, alloc, f)
         /\ SeenReserved(s, f) = LiveAllocated(f)
         /\ SeenLive(s, f) <=> fee_carries_live_payment(f)
<1>1. \A q \in Payments : /\ s.alloc[q][f] = alloc[q][f]
                          /\ alloc[q][f] > 0 => s.payment[q].status = payment[q].status
                          /\ Part(s.payment, s.alloc, q, f) = Part(payment, alloc, q, f)
  BY NotMoved
<1>2. PaidOn(s.payment, s.alloc, f) = PaidOn(payment, alloc, f)
  BY <1>1, SamePaid
<1>3. SeenLive(s, f) <=> fee_carries_live_payment(f)
  BY <1>1 DEF SeenLive, fee_carries_live_payment
<1> DEFINE a == [p \in Payments |->
                   IF s.payment[p].status \in LIVE_STATUSES THEN s.alloc[p][f] ELSE 0]
           b == [p \in Payments |->
                   IF payment[p].status \in LIVE_STATUSES THEN alloc[p][f] ELSE 0]
<1>4. ASSUME NEW q \in Payments PROVE a[q] = b[q]
  <2>1. alloc[q][f] \in Nat
    BY DEF BooksTyped
  <2>2. CASE alloc[q][f] > 0
    BY <1>1, <2>2
  <2>3. CASE alloc[q][f] = 0
    BY <1>1, <2>3
  <2> QED
    BY <2>1, <2>2, <2>3
<1>5. a = [q \in Payments |-> a[q]] /\ b = [q \in Payments |-> b[q]]
  OBVIOUS
<1>6. SeenReserved(s, f) = Sum(a, MaxPayments) /\ LiveAllocated(f) = Sum(b, MaxPayments)
  BY DEF SeenReserved, LiveAllocated
<1> HIDE DEF a, b
<1>7. a = b
  BY <1>4, <1>5
<1> QED
  BY <1>2, <1>3, <1>6, <1>7

\* The cash of a day that did not move.
LEMMA CashRead ==
  ASSUME NEW s, NEW c, NEW d, ~CashMoved(s, c, d)
  PROVE  DayCash(s.payment, c, d) = DayCash(payment, c, d)
<1> DEFINE a == [p \in Payments |->
                   IF /\ s.payment[p].status \in LIVE_STATUSES
                      /\ s.payment[p].method = "cash" /\ s.payment[p].received_by = c
                      /\ s.payment[p].day = d
                   THEN s.payment[p].amount ELSE 0]
           b == [p \in Payments |->
                   IF /\ payment[p].status \in LIVE_STATUSES
                      /\ payment[p].method = "cash" /\ payment[p].received_by = c
                      /\ payment[p].day = d
                   THEN payment[p].amount ELSE 0]
<1>1. ASSUME NEW q \in Payments PROVE a[q] = b[q]
  <2>1. CASE s.payment[q] = payment[q]
    BY <2>1
  <2>2. CASE s.payment[q] # payment[q]
    <3>1. /\ ~(/\ s.payment[q].method = "cash" /\ s.payment[q].received_by = c
               /\ s.payment[q].day = d)
          /\ ~(payment[q].method = "cash" /\ payment[q].received_by = c /\ payment[q].day = d)
      BY <2>2 DEF CashMoved
    <3> QED
      BY <3>1
  <2> QED
    BY <2>1, <2>2
<1>2. a = [q \in Payments |-> a[q]] /\ b = [q \in Payments |-> b[q]]
  OBVIOUS
<1>3. /\ DayCash(s.payment, c, d) = Sum(a, MaxPayments)
      /\ DayCash(payment, c, d) = Sum(b, MaxPayments)
  BY DEF DayCash
<1> HIDE DEF a, b
<1>4. a = b
  BY <1>1, <1>2
<1> QED
  BY <1>3, <1>4

\* A cashier's request is decided on what is paid on the lines of the family.
LEMMA SameRequest ==
  ASSUME NEW paid, NEW paid2, NEW mine, \A f \in mine : paid[f] = paid2[f],
         NEW amount, NEW items
  PROVE  /\ may_record(amount, items, mine, fee, paid, FeeCount)
              => may_record(amount, items, mine, fee, paid2, FeeCount)
         /\ resolve_allocation(amount, items, mine, fee, paid, FeeCount)
              = resolve_allocation(amount, items, mine, fee, paid2, FeeCount)
<1>1. plannable_fees(mine, fee, paid) = plannable_fees(mine, fee, paid2)
  BY DEF plannable_fees
<1>2. ASSUME NEW f \in plannable_fees(mine, fee, paid) PROVE paid[f] = paid2[f]
  BY DEF plannable_fees
<1>3. RoomOf(mine, fee, paid) = RoomOf(mine, fee, paid2)
  BY <1>1, <1>2 DEF RoomOf
<1>4. \A directed : plan_split(amount, directed, mine, fee, paid, FeeCount)
                      = plan_split(amount, directed, mine, fee, paid2, FeeCount)
  BY <1>3 DEF plan_split
<1>5. \A named, directed : Acceptable(named, directed, mine, fee, paid, amount, FeeCount)
                             = Acceptable(named, directed, mine, fee, paid2, amount, FeeCount)
  BY DEF Acceptable
<1>6. resolve_allocation(amount, items, mine, fee, paid, FeeCount)
        = resolve_allocation(amount, items, mine, fee, paid2, FeeCount)
  BY <1>4, <1>5 DEF resolve_allocation
<1>7. remaining_cash(mine, fee, paid, FeeCount) = remaining_cash(mine, fee, paid2, FeeCount)
  BY <1>3 DEF remaining_cash
<1> QED
  BY <1>1, <1>6, <1>7 DEF may_record

-----------------------------------------------------------------------------
(* The handlers, when nobody has changed what they read. *)

\* The drawer.
LEMMA DrawerAsIs ==
  ASSUME NEW r, NEW s, NEW d, DrawerOpened(r, s, d), ~DrawerMoved(r, s, d)
  PROVE  GuardDrawer(r.cashier, r.method)
<1>1. CASE r.method # "cash"
  BY <1>1 DEF DrawerOpened, GuardDrawer
<1>2. CASE r.method = "cash"
  <2>1. d = today /\ s.session[r.cashier][d] = session[r.cashier][d]
    BY <1>2 DEF DrawerMoved, SessionMoved
  <2> QED
    BY <1>2, <2>1 DEF DrawerOpened, GuardDrawer, ensure_open_session
<1> QED
  BY <1>1, <1>2

\* The payment and its lines.
LEMMA InsertAsIs ==
  ASSUME BooksTyped, NEW r, NEW s \in Snapshot, NEW e, NEW key, NEW lines \in [Fees -> Nat],
         Insert(r, s, e, key, lines),
         \A f \in Fees : lines[f] > 0 => ~MoneyMoved(s, Payments, f)
  PROVE  \E p \in Payments :
           NextId(p) /\ WritePayment(p, e, r.amount, r.method, r.cashier, key, lines)
<1> DEFINE row == [status |-> "completed", enrollment |-> e, amount |-> r.amount,
                   method |-> r.method, received_by |-> r.cashier, day |-> today,
                   key |-> key]
<1>1. PICK p \in Payments :
        /\ NextId(p)
        /\ payment' = [payment EXCEPT ![p] = row]
        /\ alloc' = [alloc EXCEPT ![p] = lines]
        /\ fee' = Recomputed({f \in Fees : lines[f] > 0}, [s.payment EXCEPT ![p] = payment'[p]],
                             [s.alloc EXCEPT ![p] = lines])
  BY DEF Insert
<1> DEFINE seenpay == [s.payment EXCEPT ![p] = payment'[p]]
           seenal  == [s.alloc EXCEPT ![p] = lines]
<1>a. row = [status |-> "completed", enrollment |-> e, amount |-> r.amount,
             method |-> r.method, received_by |-> r.cashier, day |-> today, key |-> key]
  OBVIOUS
<1> HIDE DEF row
<1>2. ASSUME NEW f \in Fees, lines[f] > 0
      PROVE  PaidOn(seenpay, seenal, f) = PaidOn(payment', alloc', f)
  <2>1. \A q \in Payments : Part(s.payment, s.alloc, q, f) = Part(payment, alloc, q, f)
    BY <1>2, NotMoved
  <2>2. ASSUME NEW q \in Payments
        PROVE  Part(seenpay, seenal, q, f) = Part(payment', alloc', q, f)
    <3>0. /\ s.payment \in [Payments -> Payment] /\ s.alloc \in [Payments -> [Fees -> Nat]]
          /\ payment \in [Payments -> Payment] /\ alloc \in [Payments -> [Fees -> Nat]]
      BY DEF BooksTyped, Snapshot
    <3>1. CASE q = p
      <4>1. /\ seenpay[q] = payment'[q] /\ seenal[q] = alloc'[q]
        BY <1>1, <3>0, <3>1
      <4> QED
        BY <4>1 DEF Part
    <3>2. CASE q # p
      <4>1. /\ seenpay[q] = s.payment[q] /\ payment'[q] = payment[q]
            /\ seenal[q] = s.alloc[q] /\ alloc'[q] = alloc[q]
        BY <1>1, <3>0, <3>2
      <4> QED
        BY <2>1, <4>1 DEF Part
    <3> QED
      BY <3>1, <3>2
  <2> HIDE DEF seenpay, seenal
  <2> QED
    BY <2>2, SamePaid
<1>3. Recomputed({f \in Fees : lines[f] > 0}, seenpay, seenal)
        = Recomputed({f \in Fees : lines[f] > 0}, payment', alloc')
  <2> HIDE DEF seenpay, seenal
  <2> QED
    BY <1>2 DEF Recomputed
<1>4. WritePayment(p, e, r.amount, r.method, r.cashier, key, lines)
  BY <1>1, <1>a, <1>3 DEF WritePayment
<1> QED
  BY <1>1, <1>4

\* A recorded payment.
LEMMA RecordAsIs ==
  ASSUME BooksTyped, NEW r \in Requests, NEW s \in Snapshot, NEW d, today' = today,
         r.op = "record", Record(r, s, d), ~ReadsThePast(r, s, d)
  PROVE  Served(r)
<1> DEFINE paid  == Paid(s.payment, s.alloc)
           now   == Paid(payment, alloc)
           lines == resolve_allocation(r.amount, r.items, FeesOf(r.enrollment), fee, paid,
                                       FeeCount).splits
<1>1. /\ r.cashier \in Cashiers /\ r.enrollment \in Enrollments /\ r.amount \in Amounts
      /\ r.amount \in Nat
      /\ r.items \in Items /\ r.method \in Methods /\ r.key \in Keys \cup {None}
  BY RequestFields, CounterAssumption
<1>2. /\ KeyIsFree(r.key)
      /\ DrawerOpened(r, s, d)
      /\ may_record(r.amount, r.items, FeesOf(r.enrollment), fee, paid, FeeCount)
      /\ Insert(r, s, r.enrollment, r.key, lines)
  BY DEF Record
<1>3. /\ ~DrawerMoved(r, s, d)
      /\ \A f \in FeesOf(r.enrollment) : ~MoneyMoved(s, Payments, f)
  BY DEF ReadsThePast
<1>4. GuardDrawer(r.cashier, r.method)
  BY <1>2, <1>3, DrawerAsIs
<1>5. /\ paid \in [Fees -> Nat] /\ fee \in [Fees -> FeeLine]
      /\ \A f \in Fees : paid[f] = PaidOn(s.payment, s.alloc, f)
      /\ \A f \in Fees : now[f] = PaidOn(payment, alloc, f)
  BY SnapshotPaid DEF BooksTyped, Paid
<1> HIDE DEF paid, now
<1>6. lines \in [Fees -> Nat] /\ \A f \in Fees : lines[f] > 0 => f \in FeesOf(r.enrollment)
  BY <1>1, <1>2, <1>5, RecordLines
<1>7. \A f \in FeesOf(r.enrollment) : paid[f] = now[f]
  BY <1>3, <1>5, MoneyRead DEF FeesOf
<1>8. /\ may_record(r.amount, r.items, FeesOf(r.enrollment), fee, now, FeeCount)
      /\ lines = resolve_allocation(r.amount, r.items, FeesOf(r.enrollment), fee, now,
                                    FeeCount).splits
  BY <1>2, <1>7, SameRequest
<1> HIDE DEF lines
<1>9. PICK p \in Payments :
        NextId(p) /\ WritePayment(p, r.enrollment, r.amount, r.method, r.cashier, r.key, lines)
  BY <1>2, <1>3, <1>6, InsertAsIs
<1>10. record_enrollment_payment(p, r.cashier, r.enrollment, r.amount, r.items, r.method, r.key)
  BY <1>2, <1>4, <1>8, <1>9 DEF record_enrollment_payment, now
<1> QED
  BY <1>10 DEF Served

\* The old route.
LEMMA CreateAsIs ==
  ASSUME BooksTyped, NEW r \in Requests, NEW s \in Snapshot, NEW d, today' = today,
         r.op = "create", Create(r, s, d), ~ReadsThePast(r, s, d)
  PROVE  Served(r)
<1> DEFINE lines == [f \in Fees |-> IF f = r.fee THEN r.amount ELSE 0]
<1>1. /\ r.cashier \in Cashiers /\ r.fee \in Fees /\ r.amount \in Amounts /\ r.amount \in Nat
      /\ r.method \in Methods
  BY RequestFields, CounterAssumption
<1>2. /\ DrawerOpened(r, s, d)
      /\ r.amount <= cash_remaining(fee[r.fee], PaidOn(s.payment, s.alloc, r.fee))
      /\ Insert(r, s, EnrollmentOf[r.fee], None, lines)
  BY DEF Create
<1>3. ~DrawerMoved(r, s, d) /\ ~MoneyMoved(s, Payments, r.fee)
  BY DEF ReadsThePast
<1>4. GuardDrawer(r.cashier, r.method)
  BY <1>2, <1>3, DrawerAsIs
<1>5. r.amount <= cash_remaining(fee[r.fee], PaidOn(payment, alloc, r.fee))
  BY <1>1, <1>2, <1>3, MoneyRead
<1>6. lines \in [Fees -> Nat] /\ \A f \in Fees : lines[f] > 0 => f = r.fee
  BY <1>1
<1>7. verifier(r.amount, lines, FeeCount)
  <2>1. FeeCount \in Nat /\ r.fee \in 1..FeeCount /\ r.amount \in Int
    BY <1>1, CounterAssumption DEF Fees
  <2>2. Sum([f \in 1..FeeCount |-> IF f = r.fee THEN r.amount ELSE 0], FeeCount) = r.amount
    BY <2>1, SumSingle
  <2> QED
    BY <2>2 DEF Fees, verifier
<1>8. \E p \in Payments :
        /\ NextId(p)
        /\ WritePayment(p, EnrollmentOf[r.fee], r.amount, r.method, r.cashier, None, lines)
  <2> HIDE DEF lines
  <2> QED
    BY <1>2, <1>3, <1>6, InsertAsIs
<1>9. PICK p \in Payments :
        /\ NextId(p)
        /\ WritePayment(p, EnrollmentOf[r.fee], r.amount, r.method, r.cashier, None, lines)
  BY <1>8
<1>10. create_payment(p, r.cashier, r.fee, r.amount, r.method)
  BY <1>4, <1>5, <1>7, <1>9 DEF create_payment
<1> QED
  BY <1>10 DEF Served

-----------------------------------------------------------------------------
(* The corrections, the discounts and the drawers, when nobody has changed what they read. *)

\* Validating and cancelling: a status that looks unchanged is not written, and is not stale.
LEMMA TransitionAsIs ==
  ASSUME BooksTyped, NEW r \in Requests, NEW s \in Snapshot, r.op \in {"validate", "cancel"},
         NEW target, TransitionTx(r, s, target), today' = today,
         s.alloc[r.payment] = alloc[r.payment],
         \A f \in LinesSeen(r, s) :
           s.fee[f] = fee[f] /\ ~MoneyMoved(s, Payments \ {r.payment}, f)
  PROVE  Transition(r.payment, target)
<1> DEFINE p       == r.payment
           seen    == [s.payment EXCEPT ![p] = payment'[p]]
           touched == {f \in Fees : alloc[p][f] > 0}
<1>1. /\ p \in Payments
      /\ fee \in [Fees -> FeeLine] /\ payment \in [Payments -> Payment]
      /\ s.payment \in [Payments -> Payment] /\ s.alloc \in [Payments -> [Fees -> Nat]]
  BY RequestFields DEF BooksTyped, Snapshot
<1>2. /\ target \in VALID_TRANSITIONS[payment[p].status]
      /\ payment' = [payment EXCEPT ![p].status = target]
      /\ fee' = [f \in Fees |->
                   LET status == StatusAfter(s.fee[f], PaidOn(seen, s.alloc, f))
                   IN  IF f \in LinesSeen(r, s) /\ status # s.fee[f].status
                       THEN [fee[f] EXCEPT !.status = status] ELSE fee[f]]
      /\ UNCHANGED <<alloc, session>>
  BY DEF TransitionTx, StatusRead
<1>3. LinesSeen(r, s) = touched
  BY DEF LinesSeen
<1>4. ASSUME NEW f \in touched
      PROVE  s.fee[f] = fee[f] /\ PaidOn(seen, s.alloc, f) = PaidOn(payment', alloc, f)
  <2>1. f \in Fees /\ s.fee[f] = fee[f] /\ ~MoneyMoved(s, Payments \ {p}, f)
    BY <1>3
  <2>2. \A q \in Payments \ {p} : Part(s.payment, s.alloc, q, f) = Part(payment, alloc, q, f)
    BY <2>1, NotMoved
  <2>3. ASSUME NEW q \in Payments
        PROVE  Part(seen, s.alloc, q, f) = Part(payment', alloc, q, f)
    <3>1. CASE q = p
      <4>1. seen[q] = payment'[q] /\ s.alloc[q] = alloc[q]
        BY <1>1, <3>1
      <4> QED
        BY <4>1 DEF Part
    <3>2. CASE q # p
      <4>1. seen[q] = s.payment[q] /\ payment'[q] = payment[q]
        BY <1>1, <1>2, <3>2
      <4> QED
        BY <2>2, <3>2, <4>1 DEF Part
    <3> QED
      BY <3>1, <3>2
  <2> HIDE DEF seen
  <2> QED
    BY <2>1, <2>3, SamePaid
<1> HIDE DEF seen, touched, p
<1>5. ASSUME NEW f \in touched
      PROVE  fee'[f] = recompute_fee_status(fee[f], PaidOn(payment', alloc, f))
  <2> DEFINE n == PaidOn(payment', alloc, f)
  <2>1. f \in Fees /\ fee[f] \in FeeLine
    BY <1>1 DEF touched
  <2>2. /\ s.fee[f] = fee[f] /\ PaidOn(seen, s.alloc, f) = n
    BY <1>4
  <2> HIDE DEF n
  <2>3. fee'[f] = IF StatusAfter(fee[f], n) # fee[f].status
                  THEN [fee[f] EXCEPT !.status = StatusAfter(fee[f], n)] ELSE fee[f]
    BY <1>2, <1>3, <2>1, <2>2
  <2>4. [fee[f] EXCEPT !.status = fee[f].status] = fee[f]
    BY <2>1 DEF FeeLine
  <2> QED
    BY <2>3, <2>4 DEF recompute_fee_status, n
<1>6. ASSUME NEW f \in Fees, f \notin touched PROVE fee'[f] = fee[f]
  BY <1>2, <1>3, <1>6
<1>7. fee' = [f \in Fees |-> fee'[f]]
  BY <1>2
<1>8. fee' = Recomputed(touched, payment', alloc)
  BY <1>5, <1>6, <1>7 DEF Recomputed
<1> QED
  BY <1>2, <1>8 DEF Transition, touched, p

\* The right to correct.
LEMMA RightAsIs ==
  ASSUME NEW r, NEW s, MayCorrect(r, s), ~RightMoved(r, s)
  PROVE  r.any \/ ensure_cashier_may_correct(r.payment, r.cashier)
<1>1. CASE r.any
  BY <1>1
<1>2. CASE ~r.any
  <2>1. /\ payment[r.payment].received_by = r.cashier
        /\ ~is_locked(s.session[r.cashier][payment[r.payment].day])
        /\ s.session[r.cashier][payment[r.payment].day]
             = session[r.cashier][payment[r.payment].day]
    BY <1>2 DEF MayCorrect, RightMoved, SessionMoved
  <2> QED
    BY <2>1 DEF ensure_cashier_may_correct
<1> QED
  BY <1>1, <1>2

\* The two corrections that change the status of a payment.
LEMMA CorrectionAsIs ==
  ASSUME BooksTyped, NEW r \in Requests, NEW s \in Snapshot, NEW d, today' = today,
         \/ r.op = "validate" /\ TransitionTx(r, s, "completed")
         \/ r.op = "cancel" /\ Cancel(r, s),
         ~ReadsThePast(r, s, d)
  PROVE  Served(r)
<1>1. /\ r.payment \in Payments /\ r.cashier \in Cashiers
      /\ r.op = "cancel" => r.any \in BOOLEAN
      /\ r.op \in {"validate", "cancel"}
  BY RequestFields
<1>2. /\ s.alloc[r.payment] = alloc[r.payment]
      /\ \A f \in LinesSeen(r, s) :
           s.fee[f] = fee[f] /\ ~MoneyMoved(s, Payments \ {r.payment}, f)
      /\ r.op = "cancel" => ~RightMoved(r, s)
  BY <1>1 DEF ReadsThePast
<1>3. CASE r.op = "validate" /\ TransitionTx(r, s, "completed")
  <2>1. validate_payment(r.payment)
    BY <1>1, <1>2, <1>3, TransitionAsIs DEF validate_payment
  <2> QED
    BY <1>3, <2>1 DEF Served
<1>4. CASE r.op = "cancel" /\ Cancel(r, s)
  <2>1. MayCorrect(r, s) /\ TransitionTx(r, s, "cancelled")
    BY <1>4 DEF Cancel
  <2>2. Transition(r.payment, "cancelled")
    BY <1>1, <1>2, <2>1, TransitionAsIs
  <2>3. r.any \/ ensure_cashier_may_correct(r.payment, r.cashier)
    BY <1>2, <1>4, <2>1, RightAsIs
  <2>4. cancel_payment(r.payment, r.cashier, r.any)
    BY <2>2, <2>3 DEF cancel_payment
  <2> QED
    BY <1>4, <2>4 DEF Served
<1> QED
  BY <1>3, <1>4

\* Two lines of a payment written.
LEMMA TwoLines ==
  ASSUME NEW al \in [Payments -> [Fees -> Nat]], NEW p \in Payments,
         NEW f \in Fees, NEW g \in Fees, f # g, NEW x, NEW y
  PROVE  [al EXCEPT ![p][f] = x, ![p][g] = y]
           = [al EXCEPT ![p] = [al[p] EXCEPT ![f] = x, ![g] = y]]
<1> DEFINE a == [al EXCEPT ![p][f] = x]
           m == [al[p] EXCEPT ![f] = x]
<1>1. a = [al EXCEPT ![p] = m] /\ a[p] = m
  OBVIOUS
<1> HIDE DEF a, m
<1>2. [a EXCEPT ![p][g] = y] = [al EXCEPT ![p] = [m EXCEPT ![g] = y]]
  BY <1>1
<1> QED
  BY <1>2 DEF a, m

\* Moving from one line to another.
LEMMA MoveAsIs ==
  ASSUME BooksTyped, NEW r \in Requests, NEW s \in Snapshot, NEW d, today' = today,
         r.op = "reallocate", Reallocate(r, s), ~ReadsThePast(r, s, d)
  PROVE  Served(r)
<1> DEFINE p     == r.payment
           left  == s.alloc[p][r.from] - r.amount
           seen  == [s.alloc[p] EXCEPT ![r.from] = left, ![r.to] = @ + r.amount]
           after == [s.alloc EXCEPT ![p] = seen]
           lines == [alloc[p] EXCEPT ![r.from] = @ - r.amount, ![r.to] = @ + r.amount]
           paidT == PaidOn(s.payment, s.alloc, r.to)
<1>1. /\ p \in Payments /\ r.from \in Fees /\ r.to \in Fees /\ r.amount \in Nat
      /\ r.amount \in Amounts /\ r.cashier \in Cashiers /\ r.any \in BOOLEAN
      /\ s.alloc \in [Payments -> [Fees -> Nat]] /\ alloc \in [Payments -> [Fees -> Nat]]
      /\ s.payment \in [Payments -> Payment]
  BY RequestFields, CounterAssumption DEF BooksTyped, Snapshot
<1>2. /\ r.from # r.to
      /\ payment[p].status = "completed"
      /\ MayCorrect(r, s)
      /\ LineHolds(s.alloc[p], r.from, r.amount)
      /\ SameEnrollment(r.to, r.from)
      /\ can_receive_cash(fee[r.to], paidT)
      /\ r.amount <= cash_remaining(fee[r.to], paidT)
      /\ alloc' = [alloc EXCEPT ![p][r.from] = left, ![p][r.to] = seen[r.to]]
      /\ fee' = Recomputed({r.from, r.to}, s.payment, after)
      /\ verifier(payment[p].amount, seen, FeeCount)
      /\ UNCHANGED <<payment, session>>
  BY DEF Reallocate
<1>3. /\ s.alloc[p] = alloc[p] /\ ~RightMoved(r, s)
      /\ ~MoneyMoved(s, Payments, r.from) /\ ~MoneyMoved(s, Payments, r.to)
  BY DEF ReadsThePast
<1>4. seen = lines
  BY <1>3
<1>5. alloc' = [alloc EXCEPT ![p] = lines]
  <2> DEFINE x == alloc[p][r.from] - r.amount
             y == alloc[p][r.to] + r.amount
  <2>1. alloc[p] \in [Fees -> Nat]
    BY <1>1
  <2>2. left = x /\ seen[r.to] = y
    BY <1>1, <1>2, <1>3, <2>1
  <2>3. lines = [alloc[p] EXCEPT ![r.from] = x, ![r.to] = y]
    OBVIOUS
  <2>4. alloc' = [alloc EXCEPT ![p][r.from] = x, ![p][r.to] = y]
    BY <1>2, <2>2
  <2> HIDE DEF left, seen, p, lines, x, y
  <2> QED
    BY <1>1, <1>2, <2>3, <2>4, TwoLines
<1>6. ASSUME NEW f \in {r.from, r.to}
      PROVE  PaidOn(s.payment, after, f) = PaidOn(payment, alloc', f)
  <2>1. f \in Fees /\ ~MoneyMoved(s, Payments, f)
    BY <1>1, <1>3
  <2>2. \A q \in Payments : Part(s.payment, s.alloc, q, f) = Part(payment, alloc, q, f)
    BY <2>1, NotMoved
  <2>3. s.payment[p].status = payment[p].status
    <3>1. alloc[p][r.from] > 0
      BY <1>2, <1>3 DEF LineHolds
    <3> QED
      BY <1>1, <1>3, <3>1, NotMoved
  <2>4. ASSUME NEW q \in Payments
        PROVE  Part(s.payment, after, q, f) = Part(payment, alloc', q, f)
    <3>1. CASE q = p
      <4>1. after[q] = seen /\ alloc'[q] = lines
        BY <1>1, <1>5, <3>1
      <4> HIDE DEF after, seen, lines
      <4> QED
        BY <1>4, <2>3, <3>1, <4>1 DEF Part
    <3>2. CASE q # p
      <4>1. after[q] = s.alloc[q] /\ alloc'[q] = alloc[q]
        BY <1>1, <1>5, <3>2
      <4> HIDE DEF after
      <4> QED
        BY <2>2, <4>1 DEF Part
    <3> QED
      BY <3>1, <3>2
  <2> HIDE DEF after
  <2> QED
    BY <2>4, SamePaid
<1>7. paidT = PaidOn(payment, alloc, r.to)
  BY <1>1, <1>3, MoneyRead
<1>8. r.any \/ ensure_cashier_may_correct(p, r.cashier)
  BY <1>2, <1>3, RightAsIs
<1> HIDE DEF after, paidT, seen
<1>9. fee' = Recomputed({r.from, r.to}, payment, alloc')
  BY <1>2, <1>6 DEF Recomputed
<1>10. LineHolds(alloc[p], r.from, r.amount)
  BY <1>2, <1>3
<1>11. verifier(payment[p].amount, lines, FeeCount)
  <2> HIDE DEF lines
  <2> QED
    BY <1>2, <1>4
<1>12. reallocate_payment(p, r.from, r.to, r.amount, r.cashier, r.any)
  <2>1. lines = [alloc[p] EXCEPT ![r.from] = @ - r.amount, ![r.to] = @ + r.amount]
    OBVIOUS
  <2> HIDE DEF lines, p
  <2> QED
    BY <1>2, <1>5, <1>7, <1>8, <1>9, <1>10, <1>11, <2>1 DEF reallocate_payment
<1> QED
  BY <1>12 DEF Served

\* Deposits in kind and discounts.
LEMMA LineAsIs ==
  ASSUME BooksTyped, NEW r \in Requests, NEW s \in Snapshot, NEW d, today' = today,
         \/ r.op = "mark_in_kind" /\ MarkInKind(r, s)
         \/ r.op = "cancel_in_kind" /\ CancelInKind(r, s)
         \/ r.op = "set_discount" /\ SetDiscount(r, s)
         \/ r.op = "remove_discount" /\ RemoveDiscount(r, s),
         ~ReadsThePast(r, s, d)
  PROVE  Served(r)
<1>1. /\ r.op \in {"mark_in_kind", "cancel_in_kind", "set_discount", "remove_discount"}
      /\ r.fee \in Fees
      /\ r.op = "set_discount" => r.reduction \in Amounts
  BY RequestFields
<1>2. ~MoneyMoved(s, Payments, r.fee)
  BY <1>1 DEF ReadsThePast
<1>3. /\ PaidOn(s.payment, s.alloc, r.fee) = PaidOn(payment, alloc, r.fee)
      /\ SeenReserved(s, r.fee) = LiveAllocated(r.fee)
      /\ SeenLive(s, r.fee) <=> fee_carries_live_payment(r.fee)
  BY <1>1, <1>2, MoneyRead
<1>4. CASE \/ r.op = "mark_in_kind" /\ MarkInKind(r, s)
           \/ r.op = "cancel_in_kind" /\ CancelInKind(r, s)
  <2>1. s.fee[r.fee] = fee[r.fee]
    BY <1>4 DEF ReadsThePast
  <2>2. \/ r.op = "mark_in_kind" /\ mark_in_kind_deposit(r.fee)
        \/ r.op = "cancel_in_kind" /\ cancel_in_kind_deposit(r.fee)
    BY <1>3, <1>4, <2>1
       DEF MarkInKind, CancelInKind, mark_in_kind_deposit, cancel_in_kind_deposit
  <2> QED
    BY <2>2 DEF Served
<1>5. CASE r.op = "set_discount" /\ SetDiscount(r, s)
  <2>1. s.fee[r.fee].original = fee[r.fee].original
    BY <1>5 DEF ReadsThePast
  <2>2. set_discount(r.fee, r.reduction)
    BY <1>3, <1>5, <2>1 DEF SetDiscount, set_discount
  <2> QED
    BY <1>5, <2>2 DEF Served
<1>6. CASE r.op = "remove_discount" /\ RemoveDiscount(r, s)
  <2>1. s.fee[r.fee].original = fee[r.fee].original
    BY <1>6 DEF ReadsThePast
  <2>2. remove_discount(r.fee)
    BY <1>3, <1>6, <2>1 DEF RemoveDiscount, remove_discount
  <2> QED
    BY <1>6, <2>2 DEF Served
<1> QED
  BY <1>4, <1>5, <1>6

\* The handlers of the drawers.
LEMMA SessionAsIs ==
  ASSUME DrawersTyped, NEW r \in Requests, NEW s, NEW d, today' = today,
         \/ r.op = "open_screen" /\ OpenScreenTx(r, s)
         \/ r.op = "close" /\ CloseTx(r, s)
         \/ r.op = "regularize" /\ RegularizeTx(r, s),
         ~ReadsThePast(r, s, d)
  PROVE  Served(r)
<1>1. /\ r.cashier \in Cashiers /\ r.day \in Days
      /\ r.op \in {"close", "regularize"} => r.counted \in Counts
  BY RequestFields
<1>2. CASE r.op = "open_screen" /\ OpenScreenTx(r, s)
  <2>1. OpenScreen(r.cashier, r.day)
    BY <1>2 DEF OpenScreenTx, OpenScreen, money
  <2> QED
    BY <1>2, <2>1 DEF Served
<1>3. CASE r.op = "close" /\ CloseTx(r, s)
  <2>1. /\ s.session[r.cashier][r.day] = session[r.cashier][r.day]
        /\ DayCash(s.payment, r.cashier, r.day) = DayCash(payment, r.cashier, r.day)
    BY <1>3, CashRead DEF ReadsThePast, SessionMoved
  <2>2. CloseDay(r.cashier, r.day, r.counted)
    BY <1>3, <2>1 DEF CloseTx, CloseDay, close_my_session, money
  <2> QED
    BY <1>3, <2>2 DEF Served
<1>4. CASE r.op = "regularize" /\ RegularizeTx(r, s)
  <2> DEFINE was == session[r.cashier][r.day]
  <2>1. s.session[r.cashier][r.day] = was
    BY <1>4 DEF ReadsThePast, SessionMoved
  <2>2. /\ was.status = "auto_closed"
        /\ session' = [session EXCEPT ![r.cashier][r.day] =
                         [was EXCEPT !.status = "closed", !.counted = r.counted,
                                     !.variance = r.counted - was.expected, !.regularized = TRUE]]
        /\ UNCHANGED <<today, money>>
    BY <1>4, <2>1 DEF RegularizeTx, money
  <2>3. was \in CashSession
    BY <1>1 DEF DrawersTyped
  <2>4. [was EXCEPT !.status = "closed", !.counted = r.counted,
                    !.variance = r.counted - was.expected, !.regularized = TRUE]
          = Counted(was.expected, r.counted, TRUE)
    BY <2>3, CountedLate DEF Counted
  <2>5. Regularize(r.cashier, r.day, r.counted)
    BY <2>2, <2>4 DEF Regularize, regularize_my_session
  <2> QED
    BY <1>4, <2>5 DEF Served
<1> QED
  BY <1>2, <1>3, <1>4

\* The nightly closure: the days of the snapshot are one batch.
LEMMA SweepAsIs ==
  ASSUME DrawersTyped, NEW r \in Requests, NEW s, NEW d, today' = today, r.op = "sweep",
         SweepTx(s), Listed(r, s, d), ~ReadsThePast(r, s, d)
  PROVE  UNCHANGED vars \/ Served(r)
<1> DEFINE B     == s.batch
           taken == [c \in Cashiers |-> [e \in Days |-> DayCash(payment, c, e)]]
<1>1. IsBatch(B)
  <2>1. StaleIn(s.session, d) = StaleOpen
    BY DEF ReadsThePast, StaleIn, StaleOpen
  <2> QED
    BY <2>1 DEF Listed, Batches, IsBatch
<1>2. /\ session' = [c \in Cashiers |-> [e \in Days |->
                       IF <<c, e>> \in B
                       THEN AutoClosed(session[c][e], DayCash(s.payment, c, e))
                       ELSE session[c][e]]]
      /\ UNCHANGED <<today, money>>
  BY DEF SweepTx, money
<1>3. B \subseteq StaleOpen
  BY <1>1 DEF IsBatch
<1>4. ASSUME NEW c \in Cashiers, NEW e \in Days, <<c, e>> \in B
      PROVE  DayCash(s.payment, c, e) = taken[c][e]
  <2>1. ~CashMoved(s, c, e)
    BY <1>4 DEF ReadsThePast
  <2> QED
    BY <2>1, CashRead
<1> HIDE DEF taken, B
<1>6. session' = [c \in Cashiers |-> [e \in Days |->
                    IF <<c, e>> \in B THEN AutoClosed(session[c][e], taken[c][e])
                    ELSE session[c][e]]]
  BY <1>2, <1>4
<1>7. CASE B = {}
  <2>1. session' = [c \in Cashiers |-> [e \in Days |-> session[c][e]]]
    BY <1>6, <1>7
  <2>2. session' = session
    BY <2>1 DEF DrawersTyped
  <2> QED
    BY <1>2, <2>2 DEF vars, money
<1>8. CASE B # {}
  <2>1. auto_close_stale_sessions(taken)
    BY <1>1, <1>3, <1>6, <1>8 DEF auto_close_stale_sessions
  <2>2. Sweep
    BY <1>2, <2>1 DEF Sweep, taken
  <2> QED
    BY <2>2 DEF Served
<1> QED
  BY <1>7, <1>8

-----------------------------------------------------------------------------
(* The overlap is the only cause of what departs from Counter. *)

\* Every handler is an operation of Counter when nothing that it read has changed.
LEMMA HandlerAsIs ==
  ASSUME BooksTyped, DrawersTyped, NEW r \in Requests, NEW s \in Snapshot, NEW d,
         today' = today, Handler(r, s, d), Listed(r, s, d), ~ReadsThePast(r, s, d)
  PROVE  UNCHANGED vars \/ Served(r)
<1>1. CASE r.op = "record" /\ Record(r, s, d)
  BY <1>1, RecordAsIs
<1>2. CASE r.op = "create" /\ Create(r, s, d)
  BY <1>2, CreateAsIs
<1>3. CASE \/ r.op = "validate" /\ TransitionTx(r, s, "completed")
           \/ r.op = "cancel" /\ Cancel(r, s)
  BY <1>3, CorrectionAsIs
<1>4. CASE r.op = "reallocate" /\ Reallocate(r, s)
  BY <1>4, MoveAsIs
<1>5. CASE \/ r.op = "mark_in_kind" /\ MarkInKind(r, s)
           \/ r.op = "cancel_in_kind" /\ CancelInKind(r, s)
           \/ r.op = "set_discount" /\ SetDiscount(r, s)
           \/ r.op = "remove_discount" /\ RemoveDiscount(r, s)
  BY <1>5, LineAsIs
<1>6. CASE \/ r.op = "open_screen" /\ OpenScreenTx(r, s)
           \/ r.op = "close" /\ CloseTx(r, s)
           \/ r.op = "regularize" /\ RegularizeTx(r, s)
  BY <1>6, SessionAsIs
<1>7. CASE r.op = "sweep" /\ SweepTx(s)
  BY <1>7, SweepAsIs
<1>8. \/ r.op = "record" /\ Record(r, s, d)
      \/ r.op = "create" /\ Create(r, s, d)
      \/ \/ r.op = "validate" /\ TransitionTx(r, s, "completed")
         \/ r.op = "cancel" /\ Cancel(r, s)
      \/ r.op = "reallocate" /\ Reallocate(r, s)
      \/ \/ r.op = "mark_in_kind" /\ MarkInKind(r, s)
         \/ r.op = "cancel_in_kind" /\ CancelInKind(r, s)
         \/ r.op = "set_discount" /\ SetDiscount(r, s)
         \/ r.op = "remove_discount" /\ RemoveDiscount(r, s)
      \/ \/ r.op = "open_screen" /\ OpenScreenTx(r, s)
         \/ r.op = "close" /\ CloseTx(r, s)
         \/ r.op = "regularize" /\ RegularizeTx(r, s)
      \/ r.op = "sweep" /\ SweepTx(s)
  BY Zenon DEF Handler
<1> QED
  BY ONLY <1>1, <1>2, <1>3, <1>4, <1>5, <1>6, <1>7, <1>8, Zenon

\* What a request asks for is an operation of Counter.
LEMMA ServedByCounter == ASSUME NEW r \in Requests, Served(r) PROVE Next
<1>1. CASE r.op = "record"
  <2>1. PICK p \in Payments :
          record_enrollment_payment(p, r.cashier, r.enrollment, r.amount, r.items, r.method, r.key)
    BY <1>1 DEF Served
  <2> QED
    BY <1>1, <2>1, RequestFields DEF Next
<1>2. CASE r.op = "create"
  <2>1. PICK p \in Payments : create_payment(p, r.cashier, r.fee, r.amount, r.method)
    BY <1>2 DEF Served
  <2> QED
    BY <1>2, <2>1, RequestFields DEF Next
<1>3. CASE r.op = "validate"
  <2>1. validate_payment(r.payment)
    BY <1>3 DEF Served
  <2> QED
    BY <1>3, <2>1, RequestFields DEF Next
<1>4. CASE r.op = "cancel"
  <2>1. cancel_payment(r.payment, r.cashier, r.any)
    BY <1>4 DEF Served
  <2> QED
    BY <1>4, <2>1, RequestFields DEF Next
<1>5. CASE r.op = "reallocate"
  <2>1. reallocate_payment(r.payment, r.from, r.to, r.amount, r.cashier, r.any)
    BY <1>5 DEF Served
  <2> QED
    BY <1>5, <2>1, RequestFields DEF Next
<1>6. CASE r.op \in {"mark_in_kind", "cancel_in_kind", "remove_discount"}
  <2>1. mark_in_kind_deposit(r.fee) \/ cancel_in_kind_deposit(r.fee) \/ remove_discount(r.fee)
    BY <1>6 DEF Served
  <2> QED
    BY <1>6, <2>1, RequestFields DEF Next
<1>7. CASE r.op = "set_discount"
  <2>1. set_discount(r.fee, r.reduction)
    BY <1>7 DEF Served
  <2> QED
    BY <1>7, <2>1, RequestFields DEF Next
<1>8. CASE r.op \in {"open_screen", "close", "regularize"}
  <2>1. \/ OpenScreen(r.cashier, r.day)
        \/ r.op = "close" /\ CloseDay(r.cashier, r.day, r.counted)
        \/ r.op = "regularize" /\ Regularize(r.cashier, r.day, r.counted)
    BY <1>8 DEF Served
  <2> QED
    BY <1>8, <2>1, RequestFields DEF Next
<1>9. CASE r.op = "sweep"
  <2>1. Sweep
    BY <1>9 DEF Served
  <2> QED
    BY <2>1 DEF Next
<1>10. r.op \in {"record", "create", "validate", "cancel", "reallocate", "mark_in_kind",
                 "cancel_in_kind", "remove_discount", "set_discount", "open_screen", "close",
                 "regularize", "sweep"}
  BY DEF Served
<1> QED
  BY <1>1, <1>2, <1>3, <1>4, <1>5, <1>6, <1>7, <1>8, <1>9, <1>10

\* A granted request that ends either commits its handler or is rolled back.
LEMMA Ending ==
  ASSUME TxIInv, [TxNext]_txvars, NEW t \in Tx, Granted(t), tx'[t] # tx[t]
  PROVE  Commit(t) \/ UNCHANGED vars
<1>1. tx = [u \in Tx |-> tx[u]]
  BY DEF TxIInv
<1>2. \A u \in Tx : u # t /\ (\E q : tx' = [tx EXCEPT ![u] = q]) => FALSE
  BY <1>1
<1>3. ASSUME NEW u \in Tx, Begin(u) PROVE FALSE
  <2>1. (\E q : tx' = [tx EXCEPT ![u] = q]) /\ tx[u].pc = "idle"
    BY <1>3 DEF Begin
  <2>2. u # t
    BY <2>1 DEF Granted, Running
  <2> QED
    BY <1>2, <2>1, <2>2
<1>4. ASSUME NEW u \in Tx, Acquire(u) PROVE FALSE
  <2>1. tx[u].todo # << >>
    BY <1>4 DEF Acquire, Waiting
  <2>2. u # t
    BY <2>1 DEF Granted
  <2>3. tx' = [tx EXCEPT ![u].held = @ \cup {Head(tx[u].todo)}, ![u].todo = Tail(@)]
    BY <1>4 DEF Acquire
  <2>4. tx'[t] = tx[t]
    BY <1>1, <2>2, <2>3
  <2> QED
    BY <2>4
<1>5. ASSUME NEW u \in Tx, Victim(u) PROVE FALSE
  <2>1. tx[u].todo # << >> /\ tx' = [tx EXCEPT ![u] = Idle]
    BY <1>5 DEF Victim, Waiting
  <2>2. u # t
    BY <2>1 DEF Granted
  <2> QED
    BY <1>2, <2>1, <2>2
<1>6. ASSUME NEW u \in Tx, Commit(u) PROVE u = t
  <2>1. tx' = [tx EXCEPT ![u] = Idle]
    BY <1>6 DEF Commit
  <2> QED
    BY <1>2, <2>1
<1>7. ASSUME NEW u \in Tx, Refuse(u) PROVE UNCHANGED vars
  BY <1>7 DEF Refuse, db, vars
<1>8. ~TickTx /\ ~UNCHANGED txvars
  BY DEF TickTx, txvars
<1> QED
  BY <1>3, <1>4, <1>5, <1>6, <1>7, <1>8 DEF TxNext

\* A request that read nothing past ends as the operation it asks for, or changes nothing.
LEMMA NoPastNoHarm ==
  ASSUME TxIInv, [TxNext]_txvars, NEW t \in Tx, Granted(t), tx'[t] # tx[t],
         ~ReadsThePast(tx[t].req, tx[t].snap, tx[t].when)
  PROVE  UNCHANGED vars \/ Served(tx[t].req)
<1>1. CASE Commit(t)
  <2>1. Handler(tx[t].req, tx[t].snap, tx[t].when) /\ today' = today /\ Running(t)
    BY <1>1 DEF Commit, Granted
  <2>2. /\ tx[t].req \in Requests /\ tx[t].snap \in Snapshot
        /\ Listed(tx[t].req, tx[t].snap, tx[t].when)
        /\ BooksTyped /\ DrawersTyped
    BY <2>1, InProgress, DataParts DEF TxIInv
  <2> QED
    BY <2>1, <2>2, HandlerAsIs
<1> QED
  BY <1>1, Ending

\* A request that changes something else than the operation it asks for has read, without a
\* lock, what another request has changed since its snapshot.
THEOREM OnlyThePastEverDeparts == TxSpec => OnlyThePastDeparts
<1>1. TxIInv /\ [TxNext]_txvars =>
        \A t \in Tx : /\ Granted(t) /\ tx'[t] # tx[t]
                      /\ ~ReadsThePast(tx[t].req, tx[t].snap, tx[t].when)
                      => UNCHANGED vars \/ Served(tx[t].req)
  BY NoPastNoHarm
<1> QED
  BY TxAlways, <1>1, PTL DEF TxSpec, OnlyThePastDeparts

\* No request that ends has read rows that changed since.
NothingPastIsRead ==
  [][\A t \in Tx : Granted(t) /\ tx'[t] # tx[t] =>
       ~ReadsThePast(tx[t].req, tx[t].snap, tx[t].when)]_txvars

\* Without such reads the requests that overlap, their locks, waits and rollbacks included, are
\* the counter that takes one request at a time: all that is proved of Counter, the drawers of
\* Till among it, holds of them.
THEOREM SerialWhenNothingPastIsRead == TxSpec /\ NothingPastIsRead => Spec
<1> DEFINE Fresh == \A t \in Tx : Granted(t) /\ tx'[t] # tx[t] =>
                      ~ReadsThePast(tx[t].req, tx[t].snap, tx[t].when)
<1>1. TxIInv /\ [TxNext]_txvars /\ [Fresh]_txvars => [Next]_vars
  <2> SUFFICES ASSUME TxIInv, [TxNext]_txvars, [Fresh]_txvars PROVE [Next]_vars
    OBVIOUS
  <2>1. CASE UNCHANGED txvars
    BY <2>1 DEF txvars, vars
  <2>2. CASE Fresh /\ ~UNCHANGED txvars
    <3>1. ASSUME NEW t \in Tx, Commit(t) PROVE [Next]_vars
      <4>1. Granted(t) /\ tx' = [tx EXCEPT ![t] = Idle] /\ tx[t] # Idle
        BY <3>1, IdleIsNot DEF Commit, Granted, Running
      <4>2. tx'[t] # tx[t]
        BY <4>1 DEF TxIInv
      <4>3. ~ReadsThePast(tx[t].req, tx[t].snap, tx[t].when)
        BY <2>2, <4>1, <4>2
      <4>4. UNCHANGED vars \/ Served(tx[t].req)
        BY <4>1, <4>2, <4>3, NoPastNoHarm
      <4>5. tx[t].req \in Requests
        BY <4>1, InProgress DEF TxIInv, Granted
      <4> QED
        BY <4>4, <4>5, ServedByCounter
    <3>2. ASSUME NEW t \in Tx, Begin(t) \/ Acquire(t) \/ Refuse(t) \/ Victim(t)
          PROVE  UNCHANGED vars
      BY <3>2 DEF Begin, Acquire, Refuse, Victim, db, vars
    <3>3. CASE TickTx
      <4>1. Tick
        BY <3>3 DEF TickTx, Tick, db, money
      <4> QED
        BY <4>1 DEF Next
    <3> QED
      BY <2>2, <3>1, <3>2, <3>3 DEF TxNext
  <2> QED
    BY <2>1, <2>2
<1>2. TxInit => Init
  BY DEF TxInit
<1> HIDE DEF Fresh
<1>3. NothingPastIsRead => [][Fresh]_txvars
  BY PTL DEF NothingPastIsRead, Fresh
<1> QED
  BY TxAlways, <1>1, <1>2, <1>3, PTL DEF TxSpec, Spec

\* What overlapping requests break, the money a line may hold and the day a cashier signs among
\* it, is kept by every behaviour without such reads: locks, waits and rollbacks are not to blame.
THEOREM TheBooksHoldWithoutThePast ==
  TxSpec /\ NothingPastIsRead =>
    /\ [](LinesCoverPayment /\ StatusTellsWhatIsPaid /\ NoMoneyOffTheCircuit)
    /\ OnlyValidationOverpays
    /\ ~WithPending => []NeverOverAllocated
    /\ ImplementsTill
<1>1. CASE WithPending
  BY <1>1, SerialWhenNothingPastIsRead, LinesAlwaysCover, StatusIsTrue, CircuitIsClean,
     NothingElseOverpays, CounterImplementsTill, PTL
<1>2. CASE ~WithPending
  <2>1. Spec => []NeverOverAllocated
    BY <1>2, AFreshSchoolNeverOverpays
  <2> QED
    BY <2>1, SerialWhenNothingPastIsRead, LinesAlwaysCover, StatusIsTrue, CircuitIsClean,
       NothingElseOverpays, CounterImplementsTill, PTL
<1> QED
  BY <1>1, <1>2

-----------------------------------------------------------------------------
(* The lines of a payment. *)

\* A payment inserted is split over lines of its enrollment that add up to it.
LEMMA InsertBalanced ==
  ASSUME BooksTyped, NEW r, NEW s, NEW e, NEW key, NEW lines,
         Insert(r, s, e, key, lines), Sum(lines, FeeCount) = r.amount,
         \A f \in Fees : lines[f] > 0 => EnrollmentOf[f] = e,
         NEW p \in Payments, Balanced(p)
  PROVE  Balanced(p)'
<1> DEFINE row == [status |-> "completed", enrollment |-> e, amount |-> r.amount,
                   method |-> r.method, received_by |-> r.cashier, day |-> today,
                   key |-> key]
<1>1. PICK q \in Payments : /\ payment' = [payment EXCEPT ![q] = row]
                            /\ alloc' = [alloc EXCEPT ![q] = lines]
  BY DEF Insert
<1>2. row.amount = r.amount /\ row.enrollment = e
  OBVIOUS
<1> HIDE DEF row
<1>3. \/ payment'[p] = row /\ alloc'[p] = lines
      \/ payment'[p] = payment[p] /\ alloc'[p] = alloc[p]
  BY <1>1 DEF BooksTyped
<1> QED
  BY <1>2, <1>3 DEF Balanced

\* A payment whose lines, amount and enrollment are left alone.
LEMMA StillBalanced ==
  ASSUME NEW p \in Payments, Balanced(p), alloc'[p] = alloc[p],
         payment'[p].amount = payment[p].amount, payment'[p].enrollment = payment[p].enrollment
  PROVE  Balanced(p)'
  BY DEF Balanced

\* Only a move may unbalance a payment, and only from lines that changed.
LEMMA HandlerBalanced ==
  ASSUME BooksTyped, NEW r \in Requests, NEW s \in Snapshot, NEW d, Handler(r, s, d),
         NEW p \in Payments, Balanced(p)
  PROVE  \/ Balanced(p)'
         \/ r.op = "reallocate" /\ r.payment = p /\ s.alloc[p] # alloc[p]
<1>1. CASE r.op = "record" /\ Record(r, s, d)
  <2> DEFINE paid  == Paid(s.payment, s.alloc)
             lines == resolve_allocation(r.amount, r.items, FeesOf(r.enrollment), fee, paid,
                                         FeeCount).splits
  <2>1. r.amount \in Nat /\ r.items \in Items
    BY <1>1, RequestFields, CounterAssumption
  <2>2. /\ may_record(r.amount, r.items, FeesOf(r.enrollment), fee, paid, FeeCount)
        /\ Insert(r, s, r.enrollment, r.key, lines)
    BY <1>1 DEF Record
  <2>3. paid \in [Fees -> Nat] /\ fee \in [Fees -> FeeLine]
    BY SnapshotPaid DEF BooksTyped
  <2>4. Sum(lines, FeeCount) = r.amount
    BY <2>2 DEF may_record, verifier
  <2> HIDE DEF paid
  <2>5. \A f \in Fees : lines[f] > 0 => f \in FeesOf(r.enrollment)
    BY <2>1, <2>2, <2>3, RecordLines
  <2> HIDE DEF lines
  <2>6. \A f \in Fees : lines[f] > 0 => EnrollmentOf[f] = r.enrollment
    BY <2>5 DEF FeesOf
  <2> QED
    BY <2>2, <2>4, <2>6, InsertBalanced
<1>2. CASE r.op = "create" /\ Create(r, s, d)
  <2> DEFINE lines == [f \in Fees |-> IF f = r.fee THEN r.amount ELSE 0]
  <2>1. r.fee \in Fees /\ r.amount \in Nat
    BY <1>2, RequestFields, CounterAssumption
  <2>2. Insert(r, s, EnrollmentOf[r.fee], None, lines)
    BY <1>2 DEF Create
  <2>3. FeeCount \in Nat /\ r.fee \in 1..FeeCount /\ r.amount \in Int
    BY <2>1, CounterAssumption DEF Fees
  <2>4. Sum(lines, FeeCount) = r.amount
    BY <2>3, SumSingle DEF Fees
  <2>5. \A f \in Fees : lines[f] > 0 => EnrollmentOf[f] = EnrollmentOf[r.fee]
    OBVIOUS
  <2> HIDE DEF lines
  <2> QED
    BY <2>2, <2>4, <2>5, InsertBalanced
<1>3. CASE \/ r.op = "validate" /\ TransitionTx(r, s, "completed")
           \/ r.op = "cancel" /\ Cancel(r, s)
  <2>1. /\ alloc' = alloc
        /\ \E target : payment' = [payment EXCEPT ![r.payment].status = target]
    BY <1>3 DEF Cancel, TransitionTx
  <2>2. PICK target : payment' = [payment EXCEPT ![r.payment].status = target]
    BY <2>1
  <2>3. payment'[p].amount = payment[p].amount /\ payment'[p].enrollment = payment[p].enrollment
    <3>1. payment[p] \in Payment /\ payment \in [Payments -> Payment]
      BY DEF BooksTyped
    <3>2. payment'[p] \in {payment[p], [payment[p] EXCEPT !.status = target]}
      BY <2>2, <3>1
    <3> QED
      BY <3>1, <3>2 DEF Payment
  <2> QED
    BY <2>1, <2>3, StillBalanced
<1>4. CASE r.op = "reallocate" /\ Reallocate(r, s)
  <2>1. CASE r.payment # p
    <3>1. payment' = payment /\ \E x, y : alloc' = [alloc EXCEPT ![r.payment][r.from] = x,
                                                                ![r.payment][r.to] = y]
      BY <1>4 DEF Reallocate
    <3>2. alloc'[p] = alloc[p]
      BY <2>1, <3>1 DEF BooksTyped
    <3> QED
      BY <3>1, <3>2, StillBalanced
  <2>2. CASE r.payment = p /\ s.alloc[p] = alloc[p]
    <3> DEFINE left == s.alloc[p][r.from] - r.amount
               seen == [s.alloc[p] EXCEPT ![r.from] = left, ![r.to] = @ + r.amount]
               y    == alloc[p][r.to] + r.amount
    <3>1. /\ r.from \in Fees /\ r.to \in Fees /\ r.amount \in Nat
          /\ alloc \in [Payments -> [Fees -> Nat]] /\ alloc[p] \in [Fees -> Nat]
      BY <1>4, RequestFields, CounterAssumption DEF BooksTyped
    <3>2. /\ r.from # r.to
          /\ LineHolds(s.alloc[p], r.from, r.amount)
          /\ SameEnrollment(r.to, r.from)
          /\ alloc' = [alloc EXCEPT ![p][r.from] = left, ![p][r.to] = seen[r.to]]
          /\ verifier(payment[p].amount, seen, FeeCount)
          /\ payment' = payment
      BY <1>4, <2>2 DEF Reallocate
    <3>3. seen = [alloc[p] EXCEPT ![r.from] = left, ![r.to] = y] /\ seen[r.to] = y
      BY <2>2, <3>1, <3>2
    <3> HIDE DEF left, seen, y
    <3>4. alloc'[p] = seen
      BY <3>1, <3>2, <3>3, TwoLines
    <3>5. \A f \in Fees : f \notin {r.from, r.to} => seen[f] = alloc[p][f]
      BY <3>1, <3>3
    <3>6. /\ EnrollmentOf[r.from] = payment[p].enrollment
          /\ EnrollmentOf[r.to] = payment[p].enrollment
      BY <2>2, <3>1, <3>2 DEF Balanced, LineHolds, SameEnrollment
    <3>7. \A f \in Fees : seen[f] > 0 => EnrollmentOf[f] = payment[p].enrollment
      BY <3>5, <3>6 DEF Balanced
    <3> QED
      BY <3>2, <3>4, <3>7 DEF Balanced, verifier
  <2> QED
    BY <1>4, <2>1, <2>2
<1>5. CASE \/ MarkInKind(r, s) \/ CancelInKind(r, s) \/ SetDiscount(r, s) \/ RemoveDiscount(r, s)
           \/ OpenScreenTx(r, s) \/ CloseTx(r, s) \/ RegularizeTx(r, s) \/ SweepTx(s)
  <2>1. payment' = payment /\ alloc' = alloc
    BY <1>5 DEF MarkInKind, CancelInKind, SetDiscount, RemoveDiscount, OpenScreenTx, CloseTx,
                RegularizeTx, SweepTx
  <2> QED
    BY <2>1, StillBalanced
<1>6. \/ r.op = "record" /\ Record(r, s, d)
      \/ r.op = "create" /\ Create(r, s, d)
      \/ \/ r.op = "validate" /\ TransitionTx(r, s, "completed")
         \/ r.op = "cancel" /\ Cancel(r, s)
      \/ r.op = "reallocate" /\ Reallocate(r, s)
      \/ MarkInKind(r, s) \/ CancelInKind(r, s) \/ SetDiscount(r, s) \/ RemoveDiscount(r, s)
      \/ OpenScreenTx(r, s) \/ CloseTx(r, s) \/ RegularizeTx(r, s) \/ SweepTx(s)
  BY Zenon DEF Handler
<1> QED
  BY ONLY <1>1, <1>2, <1>3, <1>4, <1>5, <1>6, Zenon

\* A payment goes on being split over lines of its enrollment that add up to it, unless a move
\* of it is computed on lines that changed.
THEOREM OnlyAStaleMoveEverUnbalances == TxSpec => OnlyAStaleMoveUnbalances
<1> DEFINE Kept1 == \A p \in Payments : Balanced(p) =>
              \/ Balanced(p)'
              \/ \E t \in Tx : /\ Granted(t) /\ tx'[t] # tx[t]
                               /\ tx[t].req.op = "reallocate" /\ tx[t].req.payment = p
                               /\ tx[t].snap.alloc[p] # alloc[p]
<1>1. TxIInv /\ [TxNext]_txvars => Kept1
  <2> SUFFICES ASSUME TxIInv, [TxNext]_txvars, NEW p \in Payments, Balanced(p)
               PROVE  \/ Balanced(p)'
                      \/ \E t \in Tx : /\ Granted(t) /\ tx'[t] # tx[t]
                                       /\ tx[t].req.op = "reallocate" /\ tx[t].req.payment = p
                                       /\ tx[t].snap.alloc[p] # alloc[p]
    OBVIOUS
  <2>1. CASE UNCHANGED db
    BY <2>1 DEF db, Balanced
  <2>2. ASSUME NEW t \in Tx, Commit(t)
        PROVE  \/ Balanced(p)'
               \/ /\ Granted(t) /\ tx'[t] # tx[t]
                  /\ tx[t].req.op = "reallocate" /\ tx[t].req.payment = p
                  /\ tx[t].snap.alloc[p] # alloc[p]
    <3>1. /\ Granted(t) /\ Running(t) /\ Handler(tx[t].req, tx[t].snap, tx[t].when)
          /\ tx' = [tx EXCEPT ![t] = Idle] /\ tx[t] # Idle
      BY <2>2, IdleIsNot DEF Commit, Granted, Running
    <3>2. tx'[t] # tx[t]
      BY <3>1 DEF TxIInv
    <3>3. /\ tx[t].req \in Requests /\ tx[t].snap \in Snapshot /\ BooksTyped
      BY <3>1, InProgress, DataParts DEF TxIInv
    <3> QED
      BY <3>1, <3>2, <3>3, HandlerBalanced
  <2>3. (\E t \in Tx : Commit(t)) \/ UNCHANGED db
    BY DEF TxNext, Begin, Acquire, Refuse, Victim, TickTx, txvars, db
  <2> QED
    BY <2>1, <2>2, <2>3
<1> QED
  BY TxAlways, <1>1, PTL DEF TxSpec, OnlyAStaleMoveUnbalances
=============================================================================
