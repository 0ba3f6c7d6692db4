---------------------------- MODULE OfficeProofs ----------------------------
(***************************************************************************)
(* Proofs about the services around the counter, for any number of documents,   *)
(* phones, families, classes, tariffs and requests: the register of seals        *)
(* (SealLineage), the hand-off of a photo (UploadHandoff), the dossiers of a      *)
(* year (Enrollments) and the fee lines of a dossier (FeeGrid); then the types    *)
(* of all the services of MCServices, whose behaviours run one of them.           *)
(***************************************************************************)
EXTENDS MCServices, WeekProofs, CouncilProofs

USE SealAssumption

Sealed == {"active", "superseded", "revoked"}

WellKept ==
  \A i \in Revisions :
    /\ row[i].status = "pending" =>
         i = Len(row) /\ row[i].scheme = "KSI2" /\ row[i].pdf = None
    /\ row[i].scheme = "KCEV1" => row[i].pdf = None /\ row[i].status \in Sealed
    /\ row[i].status \in {"active", "revoked"} => Published(i)
    /\ row[i].pdf # None =>
         row[i].pdf = [code |-> i, says |-> row[i].facts] /\ row[i].status \in Sealed

\* What a request has sealed has bytes; what a revoker has read was published.
InHand ==
  /\ \A r \in Request : work[r].pc = "sealed" => row[work[r].rev].pdf # None
  /\ \A v \in Revoker : revoking[v].pc = "read" => Published(revoking[v].rev)

\* One of the copies published is the last.
HasLast == \E n \in Known : \A j \in Known : j <= n

SealInv ==
  /\ SealTypeOK /\ WellKept /\ InHand /\ HasLast
  /\ OnlyTheLastStands /\ HandedOutIsSealed

\* What a step keeps of every row.
RowsKept ==
  /\ Revisions \subseteq Revisions'
  /\ \A i \in Revisions :
       /\ row'[i].facts = row[i].facts /\ row'[i].scheme = row[i].scheme
       /\ row[i].pdf # None => row'[i].pdf = row[i].pdf
       /\ row[i].status \in {"revoked", "failed"} => row'[i].status = row[i].status

-----------------------------------------------------------------------------
(* The newest of a set, and the records the register is made of.             *)

\* The newest of a set that has a greatest element is that element.
LEMMA NewestIs ==
  ASSUME NEW I, I \subseteq Nat, NEW n \in I, \A j \in I : j <= n
  PROVE  Newest(I) = n
<1>1. \A m \in I : (\A j \in I : j <= m) => m = n
  OBVIOUS
<1> QED
  BY <1>1 DEF Newest

\* A function on 1..n is a sequence of length n.
LEMMA FunctionIsSeq ==
  ASSUME NEW S, NEW n \in Nat, NEW s \in [1..n -> S]
  PROVE  s \in Seq(S) /\ Len(s) = n
OBVIOUS

\* A row is a record, and knows its columns.
LEMMA RowType ==
  ASSUME SealTypeOK, NEW i \in Revisions
  PROVE  /\ row[i] \in DocumentIssuance
         /\ row[i].scheme \in {"KCEV1", "KSI2"} /\ row[i].status \in Statuses
         /\ row[i].facts \in Facts /\ row[i].made \in Nat
         /\ row[i].pdf \in PDF \cup {None}
         /\ i \in 1..MaxRevision /\ Revisions = 1..Len(row) /\ Len(row) \in Nat
<1>1. row \in Seq(DocumentIssuance) /\ Len(row) <= MaxRevision
  BY DEF SealTypeOK
<1>2. Revisions = 1..Len(row) /\ Len(row) \in Nat
  BY <1>1 DEF Revisions
<1>3. row[i] \in DocumentIssuance
  BY <1>1, <1>2
<1>4. i \in 1..MaxRevision
  BY <1>1, <1>2
<1> QED
  BY <1>2, <1>3, <1>4 DEF DocumentIssuance

\* At most one row is active, and it is the last one published.
LEMMA OneStands ==
  ASSUME SealInv, NEW i \in Standing
  PROVE  Standing = {i}
<1>1. Revisions \subseteq Nat
  BY DEF SealInv, SealTypeOK, Revisions
<1>2. \A j \in Standing : Published(j) /\ j \in Revisions /\ row[j].status = "active"
  BY DEF SealInv, WellKept, Standing
<1>3. \A j, k \in Standing : ~(j < k)
  BY <1>1, <1>2 DEF SealInv, OnlyTheLastStands
<1>4. \A j \in Standing : j = i
  <2> TAKE j \in Standing
  <2>1. j \in Nat /\ i \in Nat
    BY <1>1, <1>2
  <2>2. ~(j < i) /\ ~(i < j)
    BY <1>3
  <2> QED
    BY <2>1, <2>2
<1> QED
  BY <1>4

-----------------------------------------------------------------------------
(* The initial state.                                                        *)

\* An empty register satisfies the invariant.
LEMMA SealInitInv == SealInit => SealInv
<1> SUFFICES ASSUME SealInit PROVE SealInv
  OBVIOUS
<1> DEFINE old == [scheme |-> "KCEV1", status |-> "active",
                   facts |-> CHOOSE f \in Facts : TRUE, made |-> 0, pdf |-> None]
<1>1. PICK n \in {0, 1} : n <= MaxRevision /\ row = Migrated(n)
  BY DEF SealInit
<1>2. old \in DocumentIssuance
  <2>1. (CHOOSE f \in Facts : TRUE) \in Facts
    OBVIOUS
  <2> QED
    BY <2>1 DEF DocumentIssuance, Statuses
<1>3. /\ row \in Seq(DocumentIssuance) /\ Len(row) = n /\ Revisions = 1..n
      /\ \A i \in Revisions : i = 1 /\ n = 1 /\ row[i] = old
  <2>1. CASE n = 0
    <3>1. row = [i \in 1..0 |-> old]
      BY <1>1, <2>1 DEF Migrated
    <3> QED
      BY <3>1, <2>1, <1>2 DEF Revisions
  <2>2. CASE n = 1
    <3>1. row = [i \in 1..1 |-> old]
      BY <1>1, <2>2 DEF Migrated
    <3> QED
      BY <3>1, <2>2, <1>2 DEF Revisions
  <2> QED
    BY <2>1, <2>2
<1>4. SealTypeOK
  <2>1. /\ clock = 0 /\ work = [r \in Request |-> Resting]
        /\ revoking = [v \in Revoker |-> Resting] /\ delivered = {}
    BY DEF SealInit
  <2>2. /\ work \in [Request -> {Resting} \cup Working]
        /\ revoking \in [Revoker -> {Resting} \cup [pc : {"read"}, rev : 1..MaxRevision]]
    BY <2>1
  <2>3. /\ \A r \in Request : work[r] = Resting
        /\ \A v \in Revoker : revoking[v] = Resting
    BY <2>1
  <2> QED
    BY <1>1, <1>3, <2>1, <2>2, <2>3 DEF SealTypeOK
<1> HIDE DEF old
<1>5. \A i \in Revisions : /\ row[i].scheme = "KCEV1" /\ row[i].status = "active"
                           /\ row[i].pdf = None
  BY <1>3 DEF old
<1>6. WellKept
  BY <1>5 DEF WellKept, Sealed, Published
<1>7. InHand
  <2>1. /\ \A r \in Request : work[r] = Resting
        /\ \A v \in Revoker : revoking[v] = Resting
    BY DEF SealInit
  <2>2. Resting.pc # "sealed" /\ Resting.pc # "read"
    BY DEF Resting
  <2> QED
    BY <2>1, <2>2 DEF InHand
<1>8. HasLast
  <2>1. Known = 0..n
    BY <1>1, <1>3, <1>5 DEF Known, Published
  <2> QED
    BY <1>1, <2>1 DEF HasLast
<1>9. OnlyTheLastStands
  BY <1>3, <1>5 DEF OnlyTheLastStands
<1>10. HandedOutIsSealed
  BY DEF SealInit, HandedOutIsSealed
<1> QED
  BY <1>4, <1>6, <1>7, <1>8, <1>9, <1>10 DEF SealInv

-----------------------------------------------------------------------------
(* Facts shared by the steps.                                                *)

\* What was handed out stays sealed by a step that keeps the rows and leaves what is in
\* hand alone.
LEMMA HandedOutStays ==
  ASSUME SealInv, RowsKept, WellKept', delivered' = delivered
  PROVE  HandedOutIsSealed'
<1>1. ASSUME NEW d \in delivered
      PROVE  /\ d.pdf.says = d.asked
             /\ d.pdf.code \in Revisions' /\ row'[d.pdf.code].pdf = d.pdf
             /\ row'[d.pdf.code].status \in Sealed
  <2>1. /\ d.pdf.says = d.asked /\ d.pdf.code \in Revisions
        /\ row[d.pdf.code].pdf = d.pdf /\ d.pdf \in PDF
    BY DEF SealInv, SealTypeOK, HandedOutIsSealed
  <2>2. d.pdf # None
    BY <2>1
  <2>3. row'[d.pdf.code].pdf = d.pdf /\ d.pdf.code \in Revisions'
    BY <2>1, <2>2 DEF RowsKept
  <2> QED
    BY <2>1, <2>2, <2>3 DEF WellKept
<1> QED
  BY <1>1 DEF HandedOutIsSealed, Sealed

\* A copy that was published stays published.
LEMMA PublishedStays ==
  ASSUME SealInv, RowsKept, NEW i \in Revisions, Published(i)
  PROVE  i \in Revisions' /\ Published(i)'
BY DEF RowsKept, Published

\* A step that publishes nothing leaves the last copy where it was.
LEMMA KnownStays ==
  ASSUME SealInv, Known' = Known
  PROVE  HasLast' /\ LastPublished' = LastPublished
<1>1. \E n \in Known' : \A j \in Known' : j <= n
  BY DEF SealInv, HasLast
<1>2. LastPublished' = Newest(Known')
  BY DEF LastPublished, Newest
<1> QED
  BY <1>1, <1>2 DEF HasLast, LastPublished

-----------------------------------------------------------------------------
(* A step that rewrites one status.                                          *)

\* A pending row may fail or give way, a published one may be revoked; nothing else may
\* happen to a row that is not being sealed.
Closes(i, s) ==
  \/ row[i].status = "pending" /\ s \in {"failed", "superseded"}
  \/ Published(i) /\ row[i].status # "pending" /\ s = "revoked"

\* Such a step keeps every row, publishes nothing, and withdraws at most that row.
LEMMA OneStatus ==
  ASSUME SealInv, NEW i \in Revisions, NEW s, Closes(i, s),
         row' = [row EXCEPT ![i].status = s]
  PROVE  /\ row' \in Seq(DocumentIssuance) /\ Len(row') = Len(row)
         /\ Revisions' = Revisions /\ RowsKept /\ WellKept' /\ OnlyTheLastStands'
         /\ Known' = Known /\ Standing' = Standing \ {i}
         /\ \A j \in Revisions : Published(j)' = Published(j)
<1>1. SealTypeOK /\ WellKept /\ OnlyTheLastStands
  BY DEF SealInv
<1>2. /\ row \in Seq(DocumentIssuance) /\ Revisions = 1..Len(row) /\ Len(row) \in Nat
      /\ row[i] \in DocumentIssuance
  BY <1>1, RowType DEF SealTypeOK
<1>3. s \in {"failed", "superseded", "revoked"}
  BY DEF Closes
<1>4. [row[i] EXCEPT !.status = s] \in DocumentIssuance
  BY <1>2, <1>3 DEF DocumentIssuance, Statuses
<1>5. row' = [row EXCEPT ![i] = [row[i] EXCEPT !.status = s]]
  OBVIOUS
<1>6. row' \in Seq(DocumentIssuance) /\ Len(row') = Len(row) /\ Revisions' = Revisions
  BY <1>2, <1>4, <1>5 DEF Revisions
<1>7. \A j \in Revisions : j # i => row'[j] = row[j]
  BY <1>2, <1>5
<1>8. /\ row'[i].status = s /\ row'[i].pdf = row[i].pdf
      /\ row'[i].scheme = row[i].scheme /\ row'[i].facts = row[i].facts
  BY <1>2, <1>5 DEF DocumentIssuance
<1>9. \A j \in Revisions : /\ Published(j)' = Published(j)
                           /\ row'[j].pdf = row[j].pdf
                           /\ row'[j].scheme = row[j].scheme
                           /\ row'[j].facts = row[j].facts
  BY <1>7, <1>8 DEF Published
<1>10. row[i].status = "failed" => ~Published(i)
  BY <1>1, <1>2 DEF WellKept, Published, Sealed, DocumentIssuance
<1>11. RowsKept
  <2>1. row[i].status \in {"revoked", "failed"} => row'[i].status = row[i].status
    BY <1>8, <1>10 DEF Closes
  <2> QED
    BY <1>6, <1>7, <1>9, <2>1 DEF RowsKept
<1>12. row[i].status = "pending" => ~Published(i)
  BY <1>1 DEF WellKept, Published
<1>13. WellKept'
  <2>1. ASSUME NEW j \in Revisions
        PROVE  /\ row'[j].status = "pending" =>
                    j = Len(row') /\ row'[j].scheme = "KSI2" /\ row'[j].pdf = None
               /\ row'[j].scheme = "KCEV1" => row'[j].pdf = None /\ row'[j].status \in Sealed
               /\ row'[j].status \in {"active", "revoked"} => Published(j)'
               /\ row'[j].pdf # None =>
                    /\ row'[j].pdf = [code |-> j, says |-> row'[j].facts]
                    /\ row'[j].status \in Sealed
    <3>1. CASE j # i
      <4>1. row'[j] = row[j]
        BY <1>7, <3>1
      <4> QED
        BY <1>1, <1>6, <1>9, <4>1 DEF WellKept
    <3>2. CASE j = i /\ row[i].status = "pending"
      <4>1. s \in {"failed", "superseded"} /\ row[i].scheme = "KSI2" /\ row[i].pdf = None
        BY <1>1, <1>12, <3>2 DEF Closes, WellKept
      <4> QED
        BY <1>8, <3>2, <4>1
    <3>3. CASE j = i /\ row[i].status # "pending"
      <4>1. s = "revoked" /\ Published(i)
        BY <3>3 DEF Closes
      <4> QED
        BY <1>1, <1>8, <1>9, <3>3, <4>1 DEF WellKept, Sealed
    <3> QED
      BY <3>1, <3>2, <3>3
  <2> QED
    BY <1>6, <2>1 DEF WellKept
<1>14. OnlyTheLastStands'
  <2>1. ASSUME NEW j \in Revisions, Published(j)
        PROVE  IF \E k \in Revisions : k > j /\ Published(k)
               THEN row'[j].status \in {"superseded", "revoked"}
               ELSE row'[j].status \in {"active", "revoked"}
    <3>1. CASE j # i
      BY <1>1, <1>7, <2>1, <3>1 DEF OnlyTheLastStands
    <3>2. CASE j = i
      <4>1. row'[j].status = "revoked"
        BY <1>8, <1>12, <2>1, <3>2 DEF Closes
      <4> QED
        BY <4>1
    <3> QED
      BY <3>1, <3>2
  <2> QED
    BY <1>6, <1>9, <2>1 DEF OnlyTheLastStands
<1>15. Known' = Known
  BY <1>6, <1>9 DEF Known
<1>16. Standing' = Standing \ {i}
  BY <1>3, <1>6, <1>7, <1>8 DEF Standing
<1> QED
  BY <1>6, <1>9, <1>11, <1>13, <1>14, <1>15, <1>16

-----------------------------------------------------------------------------
(* The steps.                                                                *)

Simulated == [P!Next]_<<LastPublished, Standing>>

\* A step that leaves the rows alone.
LEMMA RowsUntouched ==
  ASSUME SealInv, row' = row
  PROVE  /\ RowsKept /\ WellKept' /\ HasLast' /\ OnlyTheLastStands' /\ Simulated
         /\ Revisions' = Revisions /\ \A i \in Revisions : Published(i)' = Published(i)
<1>1. Revisions' = Revisions /\ \A i \in Revisions : Published(i)' = Published(i)
  BY DEF Revisions, Published
<1>2. RowsKept /\ WellKept' /\ OnlyTheLastStands'
  BY <1>1 DEF RowsKept, WellKept, OnlyTheLastStands, SealInv
<1>3. Known' = Known /\ Standing' = Standing
  BY <1>1 DEF Known, Standing
<1> QED
  BY <1>1, <1>2, <1>3, KnownStays DEF Simulated

\* A new pending row, after the one that blocked has failed.
LEMMA PendingRow ==
  ASSUME SealInv, NEW f \in Facts, Len(row) < MaxRevision, clock \in Nat,
         row' = Append([i \in Revisions |->
                          IF Blocking(i) THEN [row[i] EXCEPT !.status = "failed"] ELSE row[i]],
                       [scheme |-> "KSI2", status |-> "pending", facts |-> f,
                        made |-> clock, pdf |-> None])
  PROVE  /\ row' \in Seq(DocumentIssuance) /\ Len(row') = Len(row) + 1
         /\ Revisions' = 1..(Len(row) + 1) /\ Revisions \subseteq Revisions'
         /\ RowsKept /\ WellKept' /\ OnlyTheLastStands' /\ HasLast' /\ Simulated
         /\ \A i \in Revisions : Published(i)' = Published(i)
<1> DEFINE old == [i \in Revisions |->
                     IF Blocking(i) THEN [row[i] EXCEPT !.status = "failed"] ELSE row[i]]
           new == [scheme |-> "KSI2", status |-> "pending", facts |-> f,
                   made |-> clock, pdf |-> None]
<1>1. PICK n \in Nat : n = Len(row)
  BY DEF SealInv, SealTypeOK
<1>2. SealTypeOK /\ WellKept /\ OnlyTheLastStands
  BY DEF SealInv
<1>3. row \in Seq(DocumentIssuance) /\ n \in Nat /\ Revisions = 1..n
  BY <1>1, <1>2 DEF SealTypeOK, Revisions
<1>4. new \in DocumentIssuance
  BY DEF DocumentIssuance, Statuses
<1>5. Pending \subseteq Nat /\ \A j \in Pending : j = n /\ row[j].scheme = "KSI2"
  <2>1. \A j \in Pending : j \in Revisions /\ row[j].status = "pending"
    BY DEF Pending
  <2> QED
    BY <1>1, <1>2, <1>3, <2>1 DEF WellKept
<1>6. \A i, j \in Pending : j <= i
  BY <1>1, <1>5
<1>7. \A i \in Revisions : Blocking(i) <=> row[i].status = "pending"
  <2>1. ASSUME NEW i \in Revisions, row[i].status = "pending"
        PROVE  Blocking(i)
    <3>1. i \in Pending
      BY <2>1 DEF Pending
    <3>2. Newest(Pending) = i
      BY <1>5, <1>6, <3>1, NewestIs
    <3> QED
      BY <1>5, <3>1, <3>2 DEF Blocking
  <2>2. ASSUME NEW i \in Revisions, Blocking(i)
        PROVE  row[i].status = "pending"
    <3>1. PICK j \in Pending : TRUE
      BY <2>2 DEF Blocking
    <3>2. Newest(Pending) = j
      BY <1>5, <1>6, <3>1, NewestIs
    <3> QED
      BY <2>2, <3>1, <3>2 DEF Blocking, Pending
  <2> QED
    BY <2>1, <2>2
<1>8. old \in [1..n -> DocumentIssuance]
  <2>1. \A i \in Revisions : row[i] \in DocumentIssuance
    BY <1>2, RowType
  <2>2. \A i \in Revisions : [row[i] EXCEPT !.status = "failed"] \in DocumentIssuance
    BY <2>1 DEF DocumentIssuance, Statuses
  <2> QED
    BY <1>3, <2>1, <2>2
<1>9. row' = Append(old, new)
  OBVIOUS
<1>10. new.status = "pending" /\ new.scheme = "KSI2" /\ new.pdf = None
  OBVIOUS
<1> HIDE DEF old, new
<1>11. old \in Seq(DocumentIssuance) /\ Len(old) = n
  BY <1>8, FunctionIsSeq
<1>12. /\ Append(old, new) \in Seq(DocumentIssuance)
       /\ Len(Append(old, new)) = Len(old) + 1
       /\ \A i \in 1..Len(old) : Append(old, new)[i] = old[i]
       /\ Append(old, new)[Len(old) + 1] = new
  BY <1>4, <1>11
<1>13. row' \in Seq(DocumentIssuance) /\ Len(row') = n + 1
  BY <1>12, <1>11, <1>9
<1>14. Revisions' = 1..(n + 1)
  BY <1>3, <1>13 DEF Revisions
<1>15. \A i \in Revisions : row'[i] = old[i]
  BY <1>3, <1>12, <1>11, <1>9
<1>16. row'[n + 1] = new
  BY <1>12, <1>11, <1>9
<1>17. \A i \in Revisions :
         row'[i] = IF row[i].status = "pending" THEN [row[i] EXCEPT !.status = "failed"]
                   ELSE row[i]
  BY <1>7, <1>15 DEF old
<1>18. \A i \in Revisions :
         /\ row'[i].scheme = row[i].scheme /\ row'[i].facts = row[i].facts
         /\ row'[i].pdf = row[i].pdf
         /\ row'[i].status = IF row[i].status = "pending" THEN "failed" ELSE row[i].status
  <2> TAKE i \in Revisions
  <2>1. row[i] \in DocumentIssuance
    BY <1>2, RowType
  <2> QED
    BY <1>17, <2>1 DEF DocumentIssuance
<1>19. \A i \in Revisions : Published(i)' = Published(i)
  BY <1>18 DEF Published
<1>20. /\ row'[n + 1].status = "pending" /\ row'[n + 1].scheme = "KSI2"
       /\ row'[n + 1].pdf = None
  BY <1>16, <1>10
<1>21. ~Published(n + 1)'
  BY <1>20 DEF Published
<1>22. Revisions \subseteq Revisions' /\ \A i \in Revisions' : i \in Revisions \/ i = n + 1
  BY <1>3, <1>14
<1>23. RowsKept
  BY <1>18, <1>22 DEF RowsKept
<1>24. WellKept'
  <2>1. ASSUME NEW i \in Revisions'
        PROVE  /\ row'[i].status = "pending" =>
                    i = Len(row') /\ row'[i].scheme = "KSI2" /\ row'[i].pdf = None
               /\ row'[i].scheme = "KCEV1" => row'[i].pdf = None /\ row'[i].status \in Sealed
               /\ row'[i].status \in {"active", "revoked"} => Published(i)'
               /\ row'[i].pdf # None =>
                    /\ row'[i].pdf = [code |-> i, says |-> row'[i].facts]
                    /\ row'[i].status \in Sealed
    <3>1. CASE i = n + 1
      BY <1>13, <1>20, <3>1
    <3>2. CASE i \in Revisions /\ row[i].status = "pending"
      BY <1>2, <1>18, <3>2 DEF WellKept
    <3>3. CASE i \in Revisions /\ row[i].status # "pending"
      BY <1>2, <1>18, <1>19, <3>3 DEF WellKept
    <3> QED
      BY <1>22, <3>1, <3>2, <3>3
  <2> QED
    BY <2>1 DEF WellKept
<1>25. OnlyTheLastStands'
  <2>1. ASSUME NEW i \in Revisions', Published(i)'
        PROVE  IF \E j \in Revisions' : j > i /\ Published(j)'
               THEN row'[i].status \in {"superseded", "revoked"}
               ELSE row'[i].status \in {"active", "revoked"}
    <3>1. i \in Revisions /\ Published(i)
      BY <1>19, <1>21, <1>22, <2>1
    <3>2. row'[i].status = row[i].status
      BY <1>2, <1>18, <3>1 DEF WellKept, Published
    <3>3. (\E j \in Revisions' : j > i /\ Published(j)')
            <=> (\E j \in Revisions : j > i /\ Published(j))
      BY <1>19, <1>21, <1>22
    <3> QED
      BY <1>2, <3>1, <3>2, <3>3 DEF OnlyTheLastStands
  <2> QED
    BY <2>1 DEF OnlyTheLastStands
<1>26. Known' = Known
  BY <1>19, <1>21, <1>22 DEF Known
<1>27. Standing' = Standing
  <2>1. \A i \in Revisions' : row'[i].status = "active" <=> i \in Standing
    BY <1>3, <1>18, <1>20, <1>22 DEF Standing
  <2> QED
    BY <1>22, <2>1 DEF Standing
<1> QED
  BY <1>13, <1>14, <1>19, <1>22, <1>23, <1>24, <1>25, <1>26, <1>27, KnownStays, <1>1
  DEF Simulated

\* The pending row is sealed, and what stood is superseded, as finalize_document writes it.
Seals(i) ==
  row' = [j \in Revisions |->
            IF j = i THEN [row[j] EXCEPT !.status = "active",
                                         !.pdf = [code |-> i, says |-> row[i].facts]]
            ELSE IF j \in Superseded(i)
            THEN [row[j] EXCEPT !.status = "superseded"] ELSE row[j]]

\* Sealing publishes the copy of the last row, withdraws the one before and keeps the rest.
LEMMA SealedRow ==
  ASSUME SealInv, NEW i \in Revisions, row[i].status = "pending", Seals(i)
  PROVE  /\ row' \in Seq(DocumentIssuance) /\ Len(row') = Len(row) /\ Revisions' = Revisions
         /\ RowsKept /\ WellKept' /\ OnlyTheLastStands' /\ HasLast' /\ Simulated
         /\ row'[i].pdf # None
         /\ \A j \in Revisions : Published(j) => Published(j)'
<1> DEFINE pdf == [code |-> i, says |-> row[i].facts]
<1>1. SealTypeOK /\ WellKept /\ OnlyTheLastStands
  BY DEF SealInv
<1>2. PICK n \in Nat : n = Len(row)
  BY DEF SealInv, SealTypeOK
<1>3. row \in Seq(DocumentIssuance) /\ Revisions = 1..n /\ n <= MaxRevision
  BY <1>1, <1>2 DEF SealTypeOK, Revisions
<1>4. \A j \in Revisions : row[j] \in DocumentIssuance
  BY <1>1, RowType
<1>5. i = n /\ row[i].scheme = "KSI2" /\ row[i].pdf = None
  BY <1>1, <1>2 DEF WellKept
<1>6. pdf \in PDF /\ pdf # None
  BY <1>3, <1>4 DEF PDF, DocumentIssuance
<1> HIDE DEF pdf
<1>7. Superseded(i) = Standing
  BY DEF Superseded, Standing
<1>8. row' = [j \in Revisions |->
                IF j = i THEN [row[j] EXCEPT !.status = "active", !.pdf = pdf]
                ELSE IF j \in Standing
                THEN [row[j] EXCEPT !.status = "superseded"] ELSE row[j]]
  BY <1>7 DEF pdf, Seals
<1>9. \A j \in Revisions :
         row'[j] = IF j = i THEN [row[j] EXCEPT !.status = "active", !.pdf = pdf]
                   ELSE IF j \in Standing
                   THEN [row[j] EXCEPT !.status = "superseded"] ELSE row[j]
  BY <1>8
<1>10. \A j \in Revisions : row'[j] \in DocumentIssuance
  <2> TAKE j \in Revisions
  <2>1. /\ [row[j] EXCEPT !.status = "active", !.pdf = pdf] \in DocumentIssuance
        /\ [row[j] EXCEPT !.status = "superseded"] \in DocumentIssuance
    BY <1>4, <1>6 DEF DocumentIssuance, Statuses
  <2> QED
    BY <1>4, <1>9, <2>1
<1>11. row' \in [1..n -> DocumentIssuance]
  BY <1>3, <1>8, <1>10
<1>12. row' \in Seq(DocumentIssuance) /\ Len(row') = n
  BY <1>11, FunctionIsSeq
<1>13. Revisions' = Revisions
  BY <1>3, <1>12 DEF Revisions
<1>14. /\ row'[i].status = "active" /\ row'[i].pdf = pdf
       /\ row'[i].scheme = "KSI2" /\ row'[i].facts = row[i].facts
  BY <1>4, <1>5, <1>9 DEF DocumentIssuance
<1>15. \A j \in Revisions : j # i =>
         /\ row'[j].scheme = row[j].scheme /\ row'[j].facts = row[j].facts
         /\ row'[j].pdf = row[j].pdf
         /\ row'[j].status = IF row[j].status = "active" THEN "superseded" ELSE row[j].status
  <2> TAKE j \in Revisions
  <2>1. row[j] \in DocumentIssuance /\ (j \in Standing <=> row[j].status = "active")
    BY <1>4 DEF Standing
  <2> QED
    BY <1>9, <2>1 DEF DocumentIssuance
<1>16. Published(i)' /\ ~Published(i) /\ \A j \in Revisions : j # i => Published(j)' = Published(j)
  BY <1>5, <1>6, <1>14, <1>15 DEF Published
<1>17. \A j \in Revisions : j # i => j < i /\ row[j].status # "pending"
  <2>1. \A j \in Revisions : row[j].status = "pending" => j = n
    BY <1>1, <1>2 DEF WellKept
  <2>2. \A j \in Revisions : j # n => j < n
    BY <1>3
  <2> QED
    BY <1>5, <2>1, <2>2
<1>18. RowsKept
  BY <1>5, <1>13, <1>14, <1>15 DEF RowsKept
<1>19. WellKept'
  <2>1. ASSUME NEW j \in Revisions
        PROVE  /\ row'[j].status = "pending" =>
                    j = Len(row') /\ row'[j].scheme = "KSI2" /\ row'[j].pdf = None
               /\ row'[j].scheme = "KCEV1" => row'[j].pdf = None /\ row'[j].status \in Sealed
               /\ row'[j].status \in {"active", "revoked"} => Published(j)'
               /\ row'[j].pdf # None =>
                    /\ row'[j].pdf = [code |-> j, says |-> row'[j].facts]
                    /\ row'[j].status \in Sealed
    <3>1. CASE j = i
      <4>1. row'[i].pdf = [code |-> i, says |-> row'[i].facts]
        BY <1>14 DEF pdf
      <4> QED
        BY <1>14, <1>16, <3>1, <4>1 DEF Sealed
    <3>2. CASE j # i /\ row[j].status = "active"
      BY <1>1, <1>15, <1>16, <3>2 DEF WellKept, Sealed
    <3>3. CASE j # i /\ row[j].status # "active"
      BY <1>1, <1>15, <1>16, <1>17, <3>3 DEF WellKept
    <3> QED
      BY <3>1, <3>2, <3>3
  <2> QED
    BY <1>13, <2>1 DEF WellKept
<1>20. OnlyTheLastStands'
  <2>1. ASSUME NEW j \in Revisions, Published(j)'
        PROVE  IF \E k \in Revisions : k > j /\ Published(k)'
               THEN row'[j].status \in {"superseded", "revoked"}
               ELSE row'[j].status \in {"active", "revoked"}
    <3>1. CASE j = i
      BY <1>3, <1>5, <1>14, <3>1
    <3>2. CASE j # i
      <4>1. Published(j) /\ i > j
        BY <1>3, <1>16, <1>17, <2>1, <3>2
      <4>2. row[j].status \in {"active", "superseded", "revoked"}
        BY <1>1, <4>1 DEF OnlyTheLastStands
      <4>3. row'[j].status \in {"superseded", "revoked"}
        BY <1>15, <3>2, <4>2
      <4>4. \E k \in Revisions : k > j /\ Published(k)'
        BY <1>16, <4>1
      <4> QED
        BY <4>3, <4>4
    <3> QED
      BY <3>1, <3>2
  <2> QED
    BY <1>13, <2>1 DEF OnlyTheLastStands
<1>21. Known' = Known \cup {i}
  BY <1>13, <1>16 DEF Known
<1>22. Known \subseteq Nat /\ \A j \in Known : j < i
  <2>1. ASSUME NEW j \in Known PROVE j \in Nat /\ j < i
    <3>1. CASE j = 0
      BY <1>3, <3>1
    <3>2. CASE j # 0
      <4>1. j \in Revisions /\ j # i
        BY <1>16, <3>2 DEF Known
      <4> QED
        BY <1>3, <1>17, <4>1
    <3> QED
      BY <3>1, <3>2
  <2> QED
    BY <2>1
<1>23. Standing' = {i}
  <2>1. \A j \in Revisions : row'[j].status = "active" <=> j = i
    BY <1>14, <1>15
  <2> QED
    BY <1>13, <2>1 DEF Standing
<1>24. \A j \in Known \cup {i} : j <= i
  BY <1>3, <1>22
<1>25. HasLast'
  <2>1. \E k \in Known \cup {i} : \A j \in Known \cup {i} : j <= k
    BY <1>24
  <2> QED
    BY <1>21, <2>1 DEF HasLast
<1>26. LastPublished' = i
  <2>1. Newest(Known \cup {i}) = i
    <3>1. Known \cup {i} \subseteq Nat /\ i \in Known \cup {i}
      BY <1>3, <1>22
    <3> QED
      BY <1>24, <3>1, NewestIs
  <2>2. LastPublished' = Newest(Known')
    BY DEF LastPublished, Newest
  <2> QED
    BY <1>21, <2>1, <2>2
<1>27. LastPublished < i
  <2>1. PICK m \in Known : \A j \in Known : j <= m
    BY DEF SealInv, HasLast
  <2>2. LastPublished = m
    BY <1>22, <2>1, NewestIs DEF LastPublished
  <2> QED
    BY <1>22, <2>2
<1>28. Simulated
  BY <1>3, <1>5, <1>23, <1>26, <1>27 DEF Simulated, P!Next, P!Publish
<1> QED
  BY <1>2, <1>6, <1>12, <1>13, <1>14, <1>16, <1>18, <1>19, <1>20, <1>25, <1>28

-----------------------------------------------------------------------------
(* Putting the invariant together again.                                     *)

RowsFine ==
  /\ row' \in Seq(DocumentIssuance) /\ Len(row') <= MaxRevision /\ Revisions \subseteq Revisions'
  /\ RowsKept /\ WellKept' /\ OnlyTheLastStands' /\ HasLast' /\ Simulated
  /\ \A i \in Revisions : Published(i) => Published(i)'

WorkFine ==
  /\ work \in [Request -> {Resting} \cup Working]
  /\ \A r \in Request : work[r] # Resting => work[r].rev \in Revisions
  /\ \A r \in Request : work[r].pc = "sealed" => row[work[r].rev].pdf # None

RevokingFine ==
  /\ revoking \in [Revoker -> {Resting} \cup [pc : {"read"}, rev : 1..MaxRevision]]
  /\ \A v \in Revoker : revoking[v] # Resting => revoking[v].rev \in Revisions
  /\ \A v \in Revoker : revoking[v].pc = "read" => Published(revoking[v].rev)

Good == SealInv' /\ RowsKept /\ Simulated

\* A step that keeps the rows and hands nothing out keeps the invariant.
LEMMA Assemble ==
  ASSUME SealInv, RowsFine, WorkFine', RevokingFine', clock' \in 0..MaxClock,
         delivered' = delivered
  PROVE  Good
<1>1. SealTypeOK'
  BY DEF SealTypeOK, SealInv, RowsFine, WorkFine, RevokingFine
<1>2. InHand'
  BY DEF WorkFine, RevokingFine, InHand
<1>3. HandedOutIsSealed'
  BY HandedOutStays DEF RowsFine
<1> QED
  BY <1>1, <1>2, <1>3 DEF Good, SealInv, RowsFine

\* A request that goes on, or rests, still works on a row that is as it left it.
LEMMA WorkStays ==
  ASSUME SealInv, RowsFine,
         work' = work \/ \E r \in Request : work' = [work EXCEPT ![r] = Resting]
  PROVE  WorkFine'
<1>1. /\ work \in [Request -> {Resting} \cup Working]
      /\ \A r \in Request : work[r] # Resting => work[r].rev \in Revisions
      /\ \A r \in Request : work[r].pc = "sealed" => row[work[r].rev].pdf # None
  BY DEF SealInv, SealTypeOK, InHand
<1>2. work' \in [Request -> {Resting} \cup Working]
  BY <1>1
<1>3. \A r \in Request : work'[r] = work[r] \/ work'[r] = Resting
  BY <1>1
<1>4. Resting.pc = "idle"
  BY DEF Resting
<1>5. \A i \in Revisions : i \in Revisions' /\ (row[i].pdf # None => row'[i].pdf # None)
  BY DEF RowsFine, RowsKept
<1>6. ASSUME NEW r \in Request, work'[r] # Resting
      PROVE  /\ work'[r].rev \in Revisions'
             /\ work'[r].pc = "sealed" => row'[work'[r].rev].pdf # None
  <2>1. work'[r] = work[r] /\ work[r].rev \in Revisions
    BY <1>1, <1>3, <1>6
  <2> QED
    BY <1>1, <1>5, <2>1
<1>7. \A r \in Request : work'[r].pc = "sealed" => work'[r] # Resting
  BY <1>4
<1> QED
  BY <1>2, <1>6, <1>7 DEF WorkFine

\* So does a revoker.
LEMMA RevokingStays ==
  ASSUME SealInv, RowsFine,
         revoking' = revoking \/ \E v \in Revoker : revoking' = [revoking EXCEPT ![v] = Resting]
  PROVE  RevokingFine'
<1>1. /\ revoking \in [Revoker -> {Resting} \cup [pc : {"read"}, rev : 1..MaxRevision]]
      /\ \A v \in Revoker : revoking[v] # Resting => revoking[v].rev \in Revisions
      /\ \A v \in Revoker : revoking[v].pc = "read" => Published(revoking[v].rev)
  BY DEF SealInv, SealTypeOK, InHand
<1>2. revoking' \in [Revoker -> {Resting} \cup [pc : {"read"}, rev : 1..MaxRevision]]
  BY <1>1
<1>3. \A v \in Revoker : revoking'[v] = revoking[v] \/ revoking'[v] = Resting
  BY <1>1
<1>4. Resting.pc = "idle"
  BY DEF Resting
<1>5. \A i \in Revisions : i \in Revisions' /\ (Published(i) => Published(i)')
  BY DEF RowsFine
<1>6. ASSUME NEW v \in Revoker, revoking'[v] # Resting
      PROVE  /\ revoking'[v].rev \in Revisions'
             /\ revoking'[v].pc = "read" => Published(revoking[v].rev)'
  <2>1. revoking'[v] = revoking[v] /\ revoking[v].rev \in Revisions
    BY <1>1, <1>3, <1>6
  <2>2. revoking[v].pc = "read" => Published(revoking[v].rev)
    BY <1>1
  <2>3. \A i \in Revisions : Published(i)' <=> row'[i].scheme = "KCEV1" \/ row'[i].pdf # None
    BY DEF Published
  <2> QED
    BY <1>5, <2>1, <2>2, <2>3 DEF Published
<1>7. \A v \in Revoker : revoking'[v].pc = "read" => revoking'[v] # Resting
  BY <1>4
<1> QED
  BY <1>2, <1>6, <1>7 DEF RevokingFine

\* A step that leaves the rows alone, or rewrites one status, keeps them.
LEMMA FineRows ==
  ASSUME SealInv,
         row' = row \/ \E i \in Revisions : \E s \in Statuses :
                          Closes(i, s) /\ row' = [row EXCEPT ![i].status = s]
  PROVE  RowsFine
<1>1. row \in Seq(DocumentIssuance) /\ Len(row) <= MaxRevision
  BY DEF SealInv, SealTypeOK
<1>2. CASE row' = row
  <2>1. Len(row') = Len(row)
    BY <1>2
  <2> QED
    BY <1>1, <1>2, <2>1, RowsUntouched DEF RowsFine
<1>3. ASSUME NEW i \in Revisions, NEW s \in Statuses, Closes(i, s),
             row' = [row EXCEPT ![i].status = s]
      PROVE  RowsFine
  <2>1. /\ row' \in Seq(DocumentIssuance) /\ Len(row') = Len(row)
        /\ Revisions' = Revisions /\ RowsKept /\ WellKept' /\ OnlyTheLastStands'
        /\ Known' = Known /\ Standing' = Standing \ {i}
        /\ \A j \in Revisions : Published(j)' = Published(j)
    BY <1>3, OneStatus
  <2>2. HasLast' /\ LastPublished' = LastPublished
    BY <2>1, KnownStays
  <2>3. Simulated
    <3>1. CASE i \in Standing
      <4>1. Standing = {i}
        BY <3>1, OneStands
      <4>2. Standing # {} /\ Standing' = {}
        BY <2>1, <4>1
      <4> QED
        BY <2>2, <4>2 DEF Simulated, P!Next, P!Withdraw
    <3>2. CASE i \notin Standing
      <4>1. Standing' = Standing
        BY <2>1, <3>2
      <4> QED
        BY <2>2, <4>1 DEF Simulated
    <3> QED
      BY <3>1, <3>2
  <2> QED
    BY <1>1, <2>1, <2>2, <2>3 DEF RowsFine
<1> QED
  BY <1>2, <1>3

-----------------------------------------------------------------------------
(* One lemma per action.                                                     *)

\* A copy handed out from a row with bytes is sealed by that row.
LEMMA HandOut ==
  ASSUME SealInv, row' = row, WorkFine', RevokingFine', clock' \in 0..MaxClock,
         NEW i \in Revisions, row[i].pdf # None,
         delivered' = delivered \cup {[asked |-> row[i].facts, pdf |-> row[i].pdf]}
  PROVE  Good
<1>1. RowsFine
  BY FineRows
<1>2. /\ row[i].facts \in Facts /\ row[i].pdf \in PDF
      /\ row[i].pdf = [code |-> i, says |-> row[i].facts] /\ row[i].status \in Sealed
  BY RowType DEF SealInv, WellKept
<1>3. SealTypeOK'
  <2>1. delivered \subseteq [asked : Facts, pdf : PDF]
    BY DEF SealInv, SealTypeOK
  <2>2. [asked |-> row[i].facts, pdf |-> row[i].pdf] \in [asked : Facts, pdf : PDF]
    BY <1>2
  <2>3. delivered' \subseteq [asked : Facts, pdf : PDF]
    BY <2>1, <2>2
  <2> QED
    BY <1>1, <2>3 DEF SealTypeOK, RowsFine, WorkFine, RevokingFine
<1>4. HandedOutIsSealed'
  <2>1. ASSUME NEW d \in delivered'
        PROVE  /\ d.pdf.says = d.asked
               /\ d.pdf.code \in Revisions /\ row[d.pdf.code].pdf = d.pdf
               /\ row[d.pdf.code].status \in {"active", "superseded", "revoked"}
    <3>1. CASE d \in delivered
      BY <3>1 DEF SealInv, HandedOutIsSealed
    <3>2. CASE d = [asked |-> row[i].facts, pdf |-> row[i].pdf]
      <4>1. d.pdf = row[i].pdf /\ d.asked = row[i].facts
        BY <3>2
      <4>2. d.pdf.code = i /\ d.pdf.says = row[i].facts
        BY <1>2, <4>1
      <4> QED
        BY <1>2, <4>1, <4>2 DEF Sealed
    <3> QED
      BY <2>1, <3>1, <3>2
  <2> QED
    BY <2>1 DEF HandedOutIsSealed, Revisions
<1>5. InHand'
  BY DEF WorkFine, RevokingFine, InHand
<1> QED
  BY <1>1, <1>3, <1>4, <1>5 DEF Good, SealInv, RowsFine

\* The clock is not moved by the requests.
LEMMA SameClock ==
  ASSUME SealInv, clock' = clock
  PROVE  clock' \in 0..MaxClock /\ clock \in Nat
BY DEF SealInv, SealTypeOK

\* Asking for a document: the seal in force is reused, or a pending row is opened.
LEMMA IssueStep ==
  ASSUME SealInv, NEW r \in Request, NEW f \in Facts, issue_document(r, f)
  PROVE  Good
<1>1. clock' = clock /\ revoking' = revoking
  BY DEF issue_document
<1>2. clock' \in 0..MaxClock /\ clock \in Nat
  BY <1>1, SameClock
<1>3. CASE \E i \in Revisions : Reusable(i, f)
  <2>1. row' = row /\ work' = work
    BY <1>3 DEF issue_document
  <2>2. PICK i \in Revisions :
          Reusable(i, f) /\ delivered' = delivered \cup {[asked |-> f, pdf |-> row[i].pdf]}
    BY <1>3 DEF issue_document
  <2>3. row[i].pdf # None /\ row[i].facts = f
    BY <2>2 DEF Reusable
  <2>4. RowsFine
    BY <2>1, FineRows
  <2>5. WorkFine' /\ RevokingFine'
    BY <1>1, <2>1, <2>4, WorkStays, RevokingStays
  <2> QED
    BY <1>2, <2>1, <2>2, <2>3, <2>5, HandOut
<1>4. CASE ~\E i \in Revisions : Reusable(i, f)
  <2> DEFINE new == [scheme |-> "KSI2", status |-> "pending", facts |-> f,
                     made |-> clock, pdf |-> None]
  <2>1. /\ Len(row) < MaxRevision /\ delivered' = delivered
        /\ row' = Append([i \in Revisions |->
                            IF Blocking(i) THEN [row[i] EXCEPT !.status = "failed"] ELSE row[i]],
                         new)
        /\ work' = [work EXCEPT ![r] = [pc |-> "rendering", rev |-> Len(row) + 1]]
    BY <1>4 DEF issue_document
  <2>2. Len(row) \in Nat
    BY DEF SealInv, SealTypeOK
  <2>3. /\ row' \in Seq(DocumentIssuance) /\ Len(row') = Len(row) + 1
        /\ Revisions' = 1..(Len(row) + 1) /\ Revisions \subseteq Revisions'
        /\ RowsKept /\ WellKept' /\ OnlyTheLastStands' /\ HasLast' /\ Simulated
        /\ \A i \in Revisions : Published(i)' = Published(i)
    BY <1>2, <2>1, PendingRow
  <2> HIDE DEF new
  <2>4. RowsFine
    BY <2>1, <2>2, <2>3 DEF RowsFine
  <2>5. RevokingFine'
    BY <1>1, <2>4, RevokingStays
  <2>6. WorkFine'
    <3>1. /\ work \in [Request -> {Resting} \cup Working]
          /\ \A q \in Request : work[q] # Resting => work[q].rev \in Revisions
          /\ \A q \in Request : work[q].pc = "sealed" => row[work[q].rev].pdf # None
      BY DEF SealInv, SealTypeOK, InHand
    <3>2. [pc |-> "rendering", rev |-> Len(row) + 1] \in Working
      BY <2>1, <2>2 DEF Working
    <3>3. work' \in [Request -> {Resting} \cup Working]
      BY <2>1, <3>1, <3>2
    <3>4. ASSUME NEW q \in Request, work'[q] # Resting
          PROVE  /\ work'[q].rev \in Revisions'
                 /\ work'[q].pc = "sealed" => row'[work'[q].rev].pdf # None
      <4>1. CASE q = r
        <5>1. work'[q].pc = "rendering" /\ work'[q].rev = Len(row) + 1
          BY <2>1, <3>1, <4>1
        <5> QED
          BY <2>2, <2>3, <5>1
      <4>2. CASE q # r
        <5>1. work'[q] = work[q]
          BY <2>1, <3>1, <4>2
        <5>2. \A i \in Revisions : i \in Revisions' /\ (row[i].pdf # None => row'[i].pdf # None)
          BY <2>3 DEF RowsKept
        <5> QED
          BY <3>1, <3>4, <5>1, <5>2
      <4> QED
        BY <4>1, <4>2
    <3>5. \A q \in Request : work'[q].pc = "sealed" => work'[q] # Resting
      BY DEF Resting
    <3> QED
      BY <3>3, <3>4, <3>5 DEF WorkFine
  <2> QED
    BY <1>2, <2>1, <2>4, <2>5, <2>6, Assemble
<1> QED
  BY <1>3, <1>4

\* What a busy request works on.
LEMMA AtWork ==
  ASSUME SealInv, NEW r \in Request, work[r].pc # "idle"
  PROVE  /\ work[r] \in Working /\ work[r].rev \in Revisions
         /\ work[r].pc = "sealed" => row[work[r].rev].pdf # None
<1>1. work[r] # Resting
  BY DEF Resting
<1> QED
  BY <1>1 DEF SealInv, SealTypeOK, InHand

\* Sealing, or giving up because the row was taken over.
LEMMA FinalizeStep ==
  ASSUME SealInv, NEW r \in Request, finalize_document(r)
  PROVE  Good
<1> DEFINE i == work[r].rev
<1>1. /\ clock' = clock /\ revoking' = revoking /\ delivered' = delivered
      /\ work[r].pc = "rendering"
  BY DEF finalize_document
<1>2. work[r] \in Working /\ i \in Revisions
  BY <1>1, AtWork
<1>3. clock' \in 0..MaxClock
  BY <1>1, SameClock
<1>4. CASE Finalizable(i) /\ ~Overtaken(i)
  <2>1. Seals(i) /\ work' = [work EXCEPT ![r].pc = "sealed"]
    BY <1>4 DEF finalize_document, Seals
  <2>2. row[i].status = "pending"
    BY <1>4 DEF Finalizable
  <2>3. PICK k \in Revisions : k = i
    BY <1>2
  <2>4. /\ row' \in Seq(DocumentIssuance) /\ Len(row') = Len(row) /\ Revisions' = Revisions
        /\ RowsKept /\ WellKept' /\ OnlyTheLastStands' /\ HasLast' /\ Simulated
        /\ row'[k].pdf # None
        /\ \A j \in Revisions : Published(j) => Published(j)'
    BY <2>1, <2>2, <2>3, SealedRow
  <2>5. RowsFine
    BY <2>4 DEF RowsFine, SealInv, SealTypeOK
  <2>6. RevokingFine'
    BY <1>1, <2>5, RevokingStays
  <2>7. WorkFine'
    <3>1. /\ work \in [Request -> {Resting} \cup Working]
          /\ \A q \in Request : work[q] # Resting => work[q].rev \in Revisions
          /\ \A q \in Request : work[q].pc = "sealed" => row[work[q].rev].pdf # None
      BY DEF SealInv, SealTypeOK, InHand
    <3>2. /\ [work[r] EXCEPT !.pc = "sealed"] \in Working
          /\ [work[r] EXCEPT !.pc = "sealed"].rev = k
      BY <1>2, <2>3 DEF Working
    <3>3. work' = [work EXCEPT ![r] = [work[r] EXCEPT !.pc = "sealed"]]
      BY <2>1
    <3>4. work' \in [Request -> {Resting} \cup Working] /\ work'[r].rev = k
      BY <3>1, <3>2, <3>3
    <3>5. ASSUME NEW q \in Request, work'[q] # Resting
          PROVE  /\ work'[q].rev \in Revisions'
                 /\ work'[q].pc = "sealed" => row'[work'[q].rev].pdf # None
      <4>1. CASE q = r
        BY <2>4, <3>4, <4>1
      <4>2. CASE q # r
        <5>1. work'[q] = work[q]
          BY <3>1, <3>3, <4>2
        <5>2. \A j \in Revisions : j \in Revisions' /\ (row[j].pdf # None => row'[j].pdf # None)
          BY <2>4 DEF RowsKept
        <5> QED
          BY <3>1, <3>5, <5>1, <5>2
      <4> QED
        BY <4>1, <4>2
    <3>6. \A q \in Request : work'[q].pc = "sealed" => work'[q] # Resting
      BY DEF Resting
    <3> QED
      BY <3>4, <3>5, <3>6 DEF WorkFine
  <2> QED
    BY <1>1, <1>3, <2>5, <2>6, <2>7, Assemble
<1>5. CASE ~(Finalizable(i) /\ ~Overtaken(i))
  <2>1. /\ row' = IF Finalizable(i) THEN [row EXCEPT ![i].status = "superseded"] ELSE row
        /\ work' = [work EXCEPT ![r] = Resting]
    BY <1>5 DEF finalize_document
  <2>2. Finalizable(i) => Closes(i, "superseded")
    BY DEF Finalizable, Closes
  <2>3. "superseded" \in Statuses
    BY DEF Statuses
  <2> HIDE DEF i
  <2>4. RowsFine
    <3>1. CASE Finalizable(i)
      BY <1>2, <2>1, <2>2, <2>3, <3>1, FineRows
    <3>2. CASE ~Finalizable(i)
      BY <2>1, <3>2, FineRows
    <3> QED
      BY <3>1, <3>2
  <2>5. WorkFine' /\ RevokingFine'
    BY <1>1, <2>1, <2>4, WorkStays, RevokingStays
  <2> QED
    BY <1>1, <1>3, <2>4, <2>5, Assemble
<1> QED
  BY <1>4, <1>5

\* The bytes that were sealed reach the user.
LEMMA DeliverStep ==
  ASSUME SealInv, NEW r \in Request, deliver(r)
  PROVE  Good
<1>1. /\ row' = row /\ clock' = clock /\ revoking' = revoking
      /\ work' = [work EXCEPT ![r] = Resting] /\ work[r].pc = "sealed"
      /\ delivered' = delivered \cup
           {[asked |-> row[work[r].rev].facts,
             pdf |-> [code |-> work[r].rev, says |-> row[work[r].rev].facts]]}
  BY DEF deliver
<1>2. PICK i \in Revisions : i = work[r].rev /\ row[i].pdf # None
  BY <1>1, AtWork
<1>3. row[i].pdf = [code |-> i, says |-> row[i].facts]
  BY <1>2 DEF SealInv, WellKept
<1>4. delivered' = delivered \cup {[asked |-> row[i].facts, pdf |-> row[i].pdf]}
  BY <1>1, <1>2, <1>3
<1>5. RowsFine
  BY <1>1, FineRows
<1>6. WorkFine' /\ RevokingFine' /\ clock' \in 0..MaxClock
  BY <1>1, <1>5, WorkStays, RevokingStays, SameClock
<1> QED
  BY <1>1, <1>2, <1>4, <1>6, HandOut

\* A failure closes its own row, if it is still pending.
LEMMA RenderFailsStep ==
  ASSUME SealInv, NEW r \in Request, render_fails(r)
  PROVE  Good
<1>1. /\ clock' = clock /\ revoking' = revoking /\ delivered' = delivered
      /\ work' = [work EXCEPT ![r] = Resting] /\ work[r].pc # "idle"
  BY DEF render_fails
<1>2. PICK i \in Revisions : i = work[r].rev
  BY <1>1, AtWork
<1>3. row' = IF ClosesRow(i) THEN [row EXCEPT ![i].status = "failed"] ELSE row
  BY <1>2 DEF render_fails
<1>4. ClosesRow(i) => Closes(i, "failed") /\ "failed" \in Statuses
  BY DEF ClosesRow, Closes, Statuses
<1>5. RowsFine
  <2>1. CASE ClosesRow(i)
    BY <1>3, <1>4, <2>1, FineRows
  <2>2. CASE ~ClosesRow(i)
    BY <1>3, <2>2, FineRows
  <2> QED
    BY <2>1, <2>2
<1>6. WorkFine' /\ RevokingFine' /\ clock' \in 0..MaxClock
  BY <1>1, <1>5, WorkStays, RevokingStays, SameClock
<1> QED
  BY <1>1, <1>5, <1>6, Assemble

\* A death, or the clock, leaves every row as it is.
LEMMA QuietStep ==
  ASSUME SealInv, (\E r \in Request : crash(r)) \/ tick \/ UNCHANGED sealvars
  PROVE  Good
<1>1. /\ row' = row /\ revoking' = revoking /\ delivered' = delivered
      /\ work' = work \/ \E r \in Request : work' = [work EXCEPT ![r] = Resting]
  BY DEF crash, tick, sealvars
<1>2. clock' \in 0..MaxClock
  <2>1. clock \in 0..MaxClock
    BY DEF SealInv, SealTypeOK
  <2>2. clock' = clock \/ (clock < MaxClock /\ clock' = clock + 1)
    BY DEF crash, tick, sealvars
  <2> QED
    BY <2>1, <2>2
<1>3. RowsFine
  BY <1>1, FineRows
<1>4. WorkFine' /\ RevokingFine'
  BY <1>1, <1>3, WorkStays, RevokingStays
<1> QED
  BY <1>1, <1>2, <1>3, <1>4, Assemble

\* A revoker reads a row that stands.
LEMMA FindStep ==
  ASSUME SealInv, NEW v \in Revoker, NEW i \in Revisions, find_seal(v, i)
  PROVE  Good
<1>1. /\ row' = row /\ clock' = clock /\ work' = work /\ delivered' = delivered
      /\ row[i].status = "active" /\ revoking' = [revoking EXCEPT ![v] = [pc |-> "read", rev |-> i]]
  BY DEF find_seal
<1>2. RowsFine
  BY <1>1, FineRows
<1>3. WorkFine' /\ clock' \in 0..MaxClock
  BY <1>1, <1>2, WorkStays, SameClock
<1>4. Published(i) /\ i \in 1..MaxRevision
  BY <1>1, RowType DEF SealInv, WellKept
<1>5. RevokingFine'
  <2>1. /\ revoking \in [Revoker -> {Resting} \cup [pc : {"read"}, rev : 1..MaxRevision]]
        /\ \A w \in Revoker : revoking[w] # Resting => revoking[w].rev \in Revisions
        /\ \A w \in Revoker : revoking[w].pc = "read" => Published(revoking[w].rev)
    BY DEF SealInv, SealTypeOK, InHand
  <2>2. revoking' \in [Revoker -> {Resting} \cup [pc : {"read"}, rev : 1..MaxRevision]]
    BY <1>1, <1>4, <2>1
  <2>3. Revisions' = Revisions /\ \A j \in Revisions : Published(j)' = Published(j)
    BY <1>1, RowsUntouched
  <2>4. ASSUME NEW w \in Revoker
        PROVE  \/ revoking'[w] = revoking[w]
               \/ revoking'[w].rev = i /\ revoking'[w].pc = "read"
    BY <1>1, <2>1
  <2>5. \A j \in Revisions : row'[j] = row[j]
    BY <1>1
  <2>6. ASSUME NEW w \in Revoker, revoking'[w] # Resting
        PROVE  revoking'[w].rev \in Revisions'
    BY <2>1, <2>3, <2>4, <2>6
  <2>7. ASSUME NEW w \in Revoker, revoking'[w].pc = "read"
        PROVE  row'[revoking'[w].rev].scheme = "KCEV1" \/ row'[revoking'[w].rev].pdf # None
    BY <1>1, <1>4, <2>1, <2>4, <2>7 DEF Published
  <2> QED
    BY <2>2, <2>6, <2>7 DEF RevokingFine, Published
<1> QED
  BY <1>1, <1>2, <1>3, <1>5, Assemble

\* Revoking with a status that may be out of date.
LEMMA RevokeStep ==
  ASSUME SealInv, NEW v \in Revoker, revoke_document(v)
  PROVE  Good
<1>1. /\ clock' = clock /\ work' = work /\ delivered' = delivered
      /\ revoking' = [revoking EXCEPT ![v] = Resting] /\ revoking[v].pc = "read"
      /\ row' = [row EXCEPT ![revoking[v].rev].status = "revoked"]
  BY DEF revoke_document
<1>2. revoking[v] # Resting
  BY <1>1 DEF Resting
<1>3. PICK i \in Revisions : i = revoking[v].rev /\ Published(i)
  BY <1>1, <1>2 DEF SealInv, SealTypeOK, InHand
<1>4. row[i].status # "pending"
  BY <1>3 DEF SealInv, WellKept, Published
<1>5. Closes(i, "revoked") /\ "revoked" \in Statuses
  BY <1>3, <1>4 DEF Closes, Statuses
<1>6. row' = [row EXCEPT ![i].status = "revoked"]
  BY <1>1, <1>3
<1>7. RowsFine
  BY <1>5, <1>6, FineRows
<1>8. WorkFine' /\ RevokingFine' /\ clock' \in 0..MaxClock
  BY <1>1, <1>7, WorkStays, RevokingStays, SameClock
<1> QED
  BY <1>1, <1>7, <1>8, Assemble

\* Every step keeps the invariant and every row, and is a step of the abstract register.
LEMMA SealStep ==
  ASSUME SealInv, [SealNext]_sealvars
  PROVE  Good
<1>1. ASSUME NEW r \in Request, NEW f \in Facts, issue_document(r, f) PROVE Good
  BY <1>1, IssueStep
<1>2. ASSUME NEW r \in Request, finalize_document(r) PROVE Good
  BY <1>2, FinalizeStep
<1>3. ASSUME NEW r \in Request, deliver(r) PROVE Good
  BY <1>3, DeliverStep
<1>4. ASSUME NEW r \in Request, render_fails(r) PROVE Good
  BY <1>4, RenderFailsStep
<1>5. CASE (\E r \in Request : crash(r)) \/ tick \/ UNCHANGED sealvars
  BY <1>5, QuietStep
<1>6. ASSUME NEW v \in Revoker, NEW i \in Revisions, find_seal(v, i) PROVE Good
  BY <1>6, FindStep
<1>7. ASSUME NEW v \in Revoker, revoke_document(v) PROVE Good
  BY <1>7, RevokeStep
<1> QED
  BY <1>1, <1>2, <1>3, <1>4, <1>5, <1>6, <1>7 DEF SealNext

-----------------------------------------------------------------------------
(* The theorems.                                                             *)

\* The register, its requests and its revokers keep their types.
THEOREM SealTypes == SealSpec => []SealTypeOK
<1>1. SealInit => SealInv
  BY SealInitInv
<1>2. SealInv /\ [SealNext]_sealvars => SealInv'
  BY SealStep DEF Good
<1>3. SealInv => SealTypeOK
  BY DEF SealInv
<1> QED
  BY <1>1, <1>2, <1>3, PTL DEF SealSpec

\* However many requests overlap, are taken over or die, at most one copy stands, it is the
\* last one published, and none is superseded by nothing.
THEOREM LastCopyStands == SealSpec => []OnlyTheLastStands
<1>1. SealInit => SealInv
  BY SealInitInv
<1>2. SealInv /\ [SealNext]_sealvars => SealInv'
  BY SealStep DEF Good
<1>3. SealInv => OnlyTheLastStands
  BY DEF SealInv
<1> QED
  BY <1>1, <1>2, <1>3, PTL DEF SealSpec

\* Every PDF handed out is the one its code finds, says what was asked, and is neither
\* pending nor failed.
THEOREM CopiesAreSealed == SealSpec => []HandedOutIsSealed
<1>1. SealInit => SealInv
  BY SealInitInv
<1>2. SealInv /\ [SealNext]_sealvars => SealInv'
  BY SealStep DEF Good
<1>3. SealInv => HandedOutIsSealed
  BY DEF SealInv
<1> QED
  BY <1>1, <1>2, <1>3, PTL DEF SealSpec

\* No step brings back a revoked or failed row, nor changes the bytes under a seal.
THEOREM VerdictsStand == SealSpec => VerdictsAreFinal
<1>1. SealInit => SealInv
  BY SealInitInv
<1>2. SealInv /\ [SealNext]_sealvars => SealInv'
  BY SealStep DEF Good
<1>3. SealInv /\ [SealNext]_sealvars =>
        [\A i \in Revisions :
           /\ row[i].status \in {"revoked", "failed"} => row'[i].status = row[i].status
           /\ row[i].pdf # None => row'[i].pdf = row[i].pdf]_sealvars
  BY SealStep DEF Good, RowsKept
<1> QED
  BY <1>1, <1>2, <1>3, PTL DEF SealSpec, VerdictsAreFinal

\* The register of seals implements the abstract publication of one document.
THEOREM SealsArePublication == SealSpec => ImplementsPublication
<1>1. SealInit => SealInv /\ P!Init
  <2>1. SealInit => SealInv
    BY SealInitInv
  <2>2. ASSUME SealInit PROVE P!Init
    <3>1. PICK n \in {0, 1} : n <= MaxRevision /\ row = Migrated(n)
      BY <2>2 DEF SealInit
    <3>2. /\ Revisions = 1..n
          /\ \A i \in Revisions : row[i].scheme = "KCEV1" /\ row[i].status = "active"
      BY <3>1 DEF Migrated, Revisions
    <3>3. Known = 0..n /\ Standing = 1..n
      BY <3>1, <3>2 DEF Known, Standing, Published
    <3>4. LastPublished = n
      <4>1. 0..n \subseteq Nat /\ n \in 0..n /\ \A j \in 0..n : j <= n
        BY <3>1
      <4>2. Newest(0..n) = n
        BY <4>1, NewestIs
      <4> QED
        BY <3>3, <4>2 DEF LastPublished
    <3> QED
      BY <3>1, <3>3, <3>4 DEF P!Init
  <2> QED
    BY <2>1, <2>2
<1>2. SealInv /\ [SealNext]_sealvars => SealInv' /\ [P!Next]_<<LastPublished, Standing>>
  BY SealStep DEF Good, Simulated
<1> QED
  BY <1>1, <1>2, PTL DEF SealSpec, ImplementsPublication, P!Spec

-----------------------------------------------------------------------------
(* The hand-off of a photo. *)

Requests == {"confirm", "promote", "record", "close", "revoke", "retake", "forget"}

Upload == {Rest} \cup [pc : {"sending"}, since : Nat]
          \cup [pc : {"written"}, file : File, since : Nat]

ScreenWork == {Rest} \cup [pc : Requests, file : File \cup {Nothing}]

HandoffTyped ==
  /\ now \in 0..MaxNow
  /\ session \in [state : States, retakes : 0..MAX_RETAKES, file : File \cup {Nothing}]
  /\ staged \in [File -> [on : BOOLEAN, mtime : 0..MaxNow, used : BOOLEAN]]
  /\ phone \in [Phone -> Upload]
  /\ screen \in [Screen -> ScreenWork]
  /\ recorded \subseteq File

\* A screen that confirms from its claim to its end.
Confirms(o) == screen[o].pc \in {"promote", "record", "close"}

Over == session.state \in {"done", "gone"}

\* One confirmation at most, and none once the record is written.
OneConfirmation ==
  /\ \A o, q \in Screen : Confirms(o) /\ Confirms(q) => o = q
  /\ \A o \in Screen : Confirms(o) => Over
  /\ recorded # {} => Over /\ \A o \in Screen : screen[o].pc \notin {"promote", "record"}
  /\ \A f, g \in recorded : f = g
  /\ \A o \in Screen : screen[o].pc = "record" => screen[o].file # Nothing

\* A session that lives has not reached its deadline.
LivesInTime == session.state # "gone" => now < Deadline

HandoffInv == HandoffTyped /\ OneConfirmation /\ LivesInTime

\* A session just opened, with no file, satisfies the invariant.
LEMMA HandoffInitInv == HandoffInit => HandoffInv
  BY HandoffAssumption
  DEF HandoffInit, HandoffInv, HandoffTyped, Upload, ScreenWork, Rest, States, OneConfirmation,
      Confirms, Over, LivesInTime, Deadline

\* One step of GoneStaysGone and of SweepSparesTheScreen.
Ended == session.state = "gone" => session'.state = "gone"

Spared ==
  screen' = screen /\ session.state \in {"proposed", "done"} =>
    \A f \in File : f = session.file /\ staged[f].on => staged'[f].on

\* Removing a staged file leaves the store of staged files well formed.
LEMMA UnlinkedType ==
  ASSUME HandoffTyped, NEW f \in File \cup {Nothing}
  PROVE  Unlinked(f) \in [File -> [on : BOOLEAN, mtime : 0..MaxNow, used : BOOLEAN]]
  BY DEF HandoffTyped, Unlinked

\* A screen that is not idle carries the file its session was loaded with.
LEMMA PhoneAtWork ==
  ASSUME HandoffTyped, NEW o \in Screen, screen[o].pc # "idle"
  PROVE  screen[o] \in [pc : Requests, file : File \cup {Nothing}]
  BY DEF HandoffTyped, ScreenWork, Rest

\* A screen that goes on to its next request keeps its file, and the others do not move.
LEMMA ScreenMoves ==
  ASSUME HandoffTyped, NEW o \in Screen, screen[o].pc # "idle", NEW c \in Requests,
         screen' = [screen EXCEPT ![o].pc = c]
  PROVE  /\ screen'[o].pc = c /\ screen'[o].file = screen[o].file
         /\ \A q \in Screen \ {o} : screen'[q] = screen[q]
         /\ screen' \in [Screen -> ScreenWork]
<1>1. screen[o] \in [pc : Requests, file : File \cup {Nothing}]
  BY PhoneAtWork
<1>2. [screen[o] EXCEPT !.pc = c] \in [pc : Requests, file : File \cup {Nothing}]
  BY <1>1
<1>3. screen' = [screen EXCEPT ![o] = [screen[o] EXCEPT !.pc = c]]
  OBVIOUS
<1>4. screen \in [Screen -> ScreenWork]
  BY DEF HandoffTyped
<1>5. [screen[o] EXCEPT !.pc = c].pc = c /\ [screen[o] EXCEPT !.pc = c].file = screen[o].file
  BY <1>1
<1> QED
  BY <1>2, <1>3, <1>4, <1>5 DEF ScreenWork

\* A retake that is granted leaves the credit within its bounds.
LEMMA RepriseType ==
  ASSUME HandoffTyped, Reprise
  PROVE  session' \in [state : States, retakes : 0..MAX_RETAKES, file : File \cup {Nothing}]
<1>1. session.retakes - 1 \in 0..MAX_RETAKES
  BY HandoffAssumption DEF HandoffTyped, Reprise
<1> QED
  BY <1>1 DEF HandoffTyped, Reprise, States

\* No step of a phone breaks the invariant, revives a session or takes its photo away.
LEMMA PhoneKeeps ==
  ASSUME HandoffInv, NEW p \in Phone,
         claim_for_upload(p) \/ write_staged(p) \/ upload_fails(p) \/ mark_proposed(p)
  PROVE  HandoffInv' /\ Ended /\ Spared
<1> USE HandoffAssumption DEF HandoffInv, HandoffTyped, Upload, ScreenWork, Rest, Waiting, States,
        OneConfirmation, Confirms, Over, LivesInTime, Deadline, Ended, Spared
<1>1. CASE claim_for_upload(p)
  BY <1>1 DEF claim_for_upload, Transition
<1>2. CASE write_staged(p)
  BY <1>2 DEF write_staged
<1>3. CASE upload_fails(p)
  BY <1>3 DEF upload_fails, Transition
<1>4. CASE mark_proposed(p)
  <2>1. phone[p].file \in File
    BY <1>4 DEF mark_proposed
  <2>2. session' \in [state : States, retakes : 0..MAX_RETAKES, file : File \cup {Nothing}]
    BY <1>4, <2>1 DEF mark_proposed, Deposit
  <2> QED
    BY <1>4, <2>2 DEF mark_proposed, Deposit
<1> QED
  BY <1>1, <1>2, <1>3, <1>4

\* Nor does a step of a screen: the state is claimed before anything is recorded.
LEMMA ScreenKeeps ==
  ASSUME HandoffInv, NEW o \in Screen,
         \/ \E request \in {"confirm", "retake", "revoke"} : load_for_operator(o, request)
         \/ confirm_claims(o) \/ promote(o) \/ promote_fails(o) \/ finalise(o)
         \/ close_session(o) \/ request_retake(o) \/ forget_file(o)
  PROVE  HandoffInv' /\ Ended /\ Spared
<1> USE HandoffAssumption DEF HandoffInv, HandoffTyped, Upload, ScreenWork, Requests, Rest,
        Waiting, States, OneConfirmation, Confirms, Over, LivesInTime, Deadline, Ended, Spared, Ends
<1>1. ASSUME NEW request \in {"confirm", "retake", "revoke"}, load_for_operator(o, request)
      PROVE  HandoffInv' /\ Ended /\ Spared
  <2>1. /\ screen' = [screen EXCEPT ![o] = [pc |-> request, file |-> session.file]]
        /\ UNCHANGED <<now, session, staged, phone, recorded>>
    BY <1>1 DEF load_for_operator
  <2>2. [pc |-> request, file |-> session.file] \in ScreenWork
    OBVIOUS
  <2>3. screen' \in [Screen -> ScreenWork]
        /\ \A q \in Screen : screen'[q] = IF q = o THEN [pc |-> request, file |-> session.file] ELSE screen[q]
    <3> HIDE DEF ScreenWork
    <3>1. screen \in [Screen -> ScreenWork]
      BY DEF ScreenWork
    <3> QED
      BY <2>1, <2>2, <3>1
  <2>4. HandoffTyped'
    BY <2>1, <2>3
  <2>5. \A q \in Screen : screen'[q].pc \in {"promote", "record", "close"} => q # o /\ screen'[q] = screen[q]
    BY <2>3
  <2>6. OneConfirmation' /\ LivesInTime'
    BY <2>1, <2>5
  <2>7. Ended /\ Spared
    BY <2>1, <2>5
  <2> QED
    BY <2>4, <2>6, <2>7
<1>2. CASE confirm_claims(o)
  <2>1. UNCHANGED <<now, staged, phone, recorded>> /\ screen[o].pc = "confirm"
    BY <1>2 DEF confirm_claims
  <2>2. CASE Transition("proposed", "done") /\ screen' = [screen EXCEPT ![o].pc = "promote"]
    <3>1. /\ screen'[o].pc = "promote" /\ screen'[o].file = screen[o].file
          /\ \A q \in Screen \ {o} : screen'[q] = screen[q]
          /\ screen' \in [Screen -> ScreenWork]
      BY <2>1, <2>2, ScreenMoves, "promote" \in Requests
    <3>2. session.state = "proposed" /\ session'.state = "done"
          /\ session' \in [state : States, retakes : 0..MAX_RETAKES, file : File \cup {Nothing}]
      BY <2>2 DEF Transition
    <3>3. recorded = {} /\ \A q \in Screen : screen[q].pc \notin {"promote", "record", "close"}
      BY <3>2
    <3>4. \A q \in Screen : screen'[q].pc \in {"promote", "record", "close"} => q = o
      BY <3>1, <3>3
    <3>5. OneConfirmation'
      BY <2>1, <3>1, <3>2, <3>3, <3>4
    <3>6. HandoffTyped' /\ LivesInTime'
      BY <2>1, <3>1, <3>2
    <3> QED
      BY <2>1, <3>2, <3>5, <3>6
  <2>3. CASE Ends(o) /\ UNCHANGED session
    BY <2>1, <2>3
  <2> QED
    BY <1>2, <2>2, <2>3 DEF confirm_claims
<1>3. CASE promote(o)
  <2>1. /\ screen'[o].pc = "record" /\ screen'[o].file = screen[o].file
        /\ \A q \in Screen \ {o} : screen'[q] = screen[q]
        /\ screen' \in [Screen -> ScreenWork]
    BY <1>3, ScreenMoves, "record" \in Requests DEF promote
  <2>2. screen[o].file \in File \cup {Nothing}
    BY <1>3, PhoneAtWork DEF promote
  <2>3. staged' \in [File -> [on : BOOLEAN, mtime : 0..MaxNow, used : BOOLEAN]]
    BY <1>3, <2>2, UnlinkedType DEF promote
  <2>4. HandoffTyped'
    BY <1>3, <2>1, <2>3 DEF promote
  <2>5. screen' # screen
    BY <1>3, <2>1 DEF promote
  <2> HIDE DEF ScreenWork, HandoffTyped
  <2> QED
    BY <1>3, <2>1, <2>4, <2>5 DEF promote
<1>4. CASE promote_fails(o)
  BY <1>4 DEF promote_fails, Transition
<1>5. CASE finalise(o)
  <2>1. screen[o].pc # "idle" /\ screen[o].file \in File \cup {Nothing} /\ recorded = {}
    BY <1>5, PhoneAtWork DEF finalise
  <2>2. CASE Ends(o) /\ UNCHANGED recorded
    BY <1>5, <2>2 DEF finalise
  <2>3. CASE /\ recorded' = recorded \cup {screen[o].file}
             /\ screen' = [screen EXCEPT ![o].pc = "close"]
    <3>1. /\ screen'[o].pc = "close" /\ \A q \in Screen \ {o} : screen'[q] = screen[q]
          /\ screen' \in [Screen -> ScreenWork]
      BY <2>1, <2>3, ScreenMoves, "close" \in Requests
    <3>2. screen' # screen
      BY <1>5, <3>1 DEF finalise
    <3> HIDE DEF ScreenWork
    <3> QED
      BY <1>5, <2>1, <2>3, <3>1, <3>2 DEF finalise
  <2> QED
    BY <1>5, <2>2, <2>3 DEF finalise
<1>6. CASE close_session(o)
  <2>1. screen[o].pc # "idle" /\ screen[o] \in [pc : Requests, file : File \cup {Nothing}]
    BY <1>6, PhoneAtWork DEF close_session
  <2>2. staged' \in [File -> [on : BOOLEAN, mtime : 0..MaxNow, used : BOOLEAN]]
    BY <1>6, <2>1, UnlinkedType DEF close_session
  <2> QED
    BY <1>6, <2>1, <2>2 DEF close_session, Gone
<1>7. CASE request_retake(o)
  <2>1. CASE Ends(o) /\ UNCHANGED session
    BY <1>7, <2>1 DEF request_retake
  <2>2. CASE Reprise /\ screen' = [screen EXCEPT ![o].pc = "forget"]
    <3>1. /\ screen'[o].pc = "forget" /\ \A q \in Screen \ {o} : screen'[q] = screen[q]
          /\ screen' \in [Screen -> ScreenWork]
      BY <1>7, <2>2, ScreenMoves, "forget" \in Requests DEF request_retake
    <3>2. session' \in [state : States, retakes : 0..MAX_RETAKES, file : File \cup {Nothing}]
      BY <2>2, RepriseType
    <3>3. HandoffTyped'
      BY <1>7, <3>1, <3>2 DEF request_retake
    <3>4. screen' # screen /\ session.state = "proposed" /\ session'.state = "open"
      BY <1>7, <2>2, <3>1 DEF request_retake, Reprise
    <3> HIDE DEF ScreenWork
    <3> QED
      BY <1>7, <3>1, <3>3, <3>4 DEF request_retake
  <2> QED
    BY <1>7, <2>1, <2>2 DEF request_retake
<1>8. CASE forget_file(o)
  <2>1. screen[o].pc # "idle" /\ screen[o] \in [pc : Requests, file : File \cup {Nothing}]
    BY <1>8, PhoneAtWork DEF forget_file
  <2>2. staged' \in [File -> [on : BOOLEAN, mtime : 0..MaxNow, used : BOOLEAN]]
    BY <1>8, <2>1, UnlinkedType DEF forget_file
  <2> QED
    BY <1>8, <2>1, <2>2 DEF forget_file
<1> QED
  BY <1>1, <1>2, <1>3, <1>4, <1>5, <1>6, <1>7, <1>8

\* Nor does time, a crash, or the sweep of a file that is too old.
LEMMA TimeKeeps ==
  ASSUME HandoffInv,
         \/ tick_handoff \/ backend_dies
         \/ \E f \in File, d \in -Drift..Drift : sweep_staged(f, d)
         \/ UNCHANGED handoffvars
  PROVE  HandoffInv' /\ Ended /\ Spared
<1> USE HandoffAssumption DEF HandoffInv, HandoffTyped, Upload, ScreenWork, Requests, Rest,
        Waiting, States, OneConfirmation, Confirms, Over, LivesInTime, Deadline, Ended, Spared
<1>1. CASE tick_handoff
  BY <1>1 DEF tick_handoff, Gone
<1>2. CASE backend_dies
  BY <1>2 DEF backend_dies
<1>3. ASSUME NEW f \in File, NEW d \in -Drift..Drift, sweep_staged(f, d)
      PROVE  HandoffInv' /\ Ended /\ Spared
  <2>1. staged' \in [File -> [on : BOOLEAN, mtime : 0..MaxNow, used : BOOLEAN]]
    BY <1>3, UnlinkedType DEF sweep_staged
  <2>2. staged[f].mtime \in Nat /\ now \in Nat /\ d \in Int /\ d <= TTL
    OBVIOUS
  <2>3. now + d - staged[f].mtime > 2 * TTL
    BY <1>3 DEF sweep_staged, TooOld, AGE_MAXIMAL
  <2>4. session.state = "gone"
    BY <2>2, <2>3
  <2> QED
    BY <1>3, <2>1, <2>4 DEF sweep_staged
<1>4. CASE UNCHANGED handoffvars
  BY <1>4 DEF handoffvars
<1> QED
  BY <1>1, <1>2, <1>3, <1>4

\* Every step of the hand-off, then.
LEMMA HandoffStep ==
  HandoffInv /\ [HandoffNext]_handoffvars => HandoffInv' /\ Ended /\ Spared
  BY PhoneKeeps, ScreenKeeps, TimeKeeps DEF HandoffNext

\* The invariant of the hand-off.
LEMMA HandoffHolds == HandoffSpec => []HandoffInv
<1>1. HandoffInv /\ [HandoffNext]_handoffvars => HandoffInv'
  BY HandoffStep
<1> QED
  BY HandoffInitInv, <1>1, PTL DEF HandoffSpec

\* The session, its files and the requests around it keep their types, and the credit of retakes
\* is never overdrawn, for any phones, screens, files, delays and drift of the clocks.
THEOREM HandoffTypes == HandoffSpec => []HandoffTypeOK
<1>1. HandoffInv => HandoffTypeOK
  BY DEF HandoffInv, HandoffTyped, HandoffTypeOK, Upload, ScreenWork, Requests, Rest
<1> QED
  BY <1>1, HandoffHolds, PTL

\* However many operators confirm at once, and whatever dies, a session ends in one record at
\* most, and only once it is over.
THEOREM RecordsOnce == HandoffSpec => []RecordedOnce
<1>1. ASSUME HandoffInv
      PROVE  RecordedOnce
  <2>1. recorded = {} \/ \E f \in recorded : recorded = {f}
    BY <1>1 DEF HandoffInv, OneConfirmation
  <2>2. Cardinality(recorded) \in {0, 1}
    BY <2>1, FS_EmptySet, FS_Singleton
  <2> QED
    BY <1>1, <2>2 DEF HandoffInv, OneConfirmation, Confirms, RecordedOnce
<1> QED
  BY <1>1, HandoffHolds, PTL

\* A session that was closed, revoked or has expired never lives again: no script writes a key
\* that is gone.
THEOREM GoneSessionsStay == HandoffSpec => GoneStaysGone
<1>1. HandoffInv /\ [HandoffNext]_handoffvars => [Ended]_handoffvars
  BY HandoffStep
<1> QED
  BY <1>1, HandoffHolds, PTL DEF HandoffSpec, GoneStaysGone, Ended

\* The sweep never takes the photo of a session that lives, on any clock within the drift.
THEOREM SweepSpares == HandoffSpec => SweepSparesTheScreen
<1>1. HandoffInv /\ [HandoffNext]_handoffvars => [Spared]_handoffvars
  BY HandoffStep
<1> QED
  BY <1>1, HandoffHolds, PTL DEF HandoffSpec, SweepSparesTheScreen, Spared

-----------------------------------------------------------------------------
(* The dossiers of a year. *)

\* A payment was received for a row that is there.
PaidExist == \A s \in Student : dossier[s].paid # "never" => Exists(dossier[s])

EnrolInv == EnrolTypeOK /\ PaidExist

\* One step of PaidDossierStays, of ValidatedOnlyPaid and of OverfullOnlyByOverlap.
PaidStay == \A s \in Student : dossier[s].paid # "never" => Exists(dossier'[s])

ValidPaid ==
  \A s \in Student :
    dossier'[s].status = "valide" /\ dossier[s].status # "valide" =>
      \/ ~AwaitingPayment(dossier'[s])
      \/ \E w \in Worker : job'[w] # job[w] /\ job[w].view[s] # dossier[s]

RoomCounted ==
  \A c \in Class :
    LET before == Cardinality(InClass(dossier, c))  after == Cardinality(InClass(dossier', c))
    IN  after > before /\ after > max_students[c] =>
          \/ \E s \in Student : BackInClass(s, c)
          \/ \E w \in Worker : WorksOnThePast(w)

\* What a request w may write for a student.
FineRow(w, s, new) ==
  /\ new \in Row
  /\ new.paid # "never" \/ dossier[s].paid # "never" => Exists(new)
  /\ new.status = "valide" /\ dossier[s].status # "valide" =>
       ~AwaitingPayment(new) \/ job[w].view[s] # dossier[s]
  /\ Counted(new) /\ ~(Counted(dossier[s]) /\ dossier[s].class = new.class) =>
       \/ HasRoom(job[w].view, new.class)
       \/ Exists(dossier[s]) /\ dossier[s].class = new.class /\ ~Counted(dossier[s])

\* The row that stands for no dossier is a row, and nothing was paid on it.
LEMMA NoRowType == \A n \in Nat : NoRow(n) \in Row /\ ~Exists(NoRow(n)) /\ NoRow(n).paid = "never"
  BY EnrolAssumption DEF NoRow, Row, EnrollmentStatus, Paid, Exists

\* A class is finite, so its places can be counted.
LEMMA InClassFinite ==
  ASSUME NEW rows, NEW c
  PROVE  /\ IsFiniteSet(InClass(rows, c)) /\ Cardinality(InClass(rows, c)) \in Nat
  BY EnrolAssumption, FS_Subset, FS_CardinalityType, InClass(rows, c) \in SUBSET Student DEF InClass

\* A fine row, written by a request that moves on, keeps the invariant and the three promises.
LEMMA RowWritten ==
  ASSUME EnrolInv, NEW w \in Worker, NEW s \in Student, NEW new, FineRow(w, s, new),
         dossier' = [dossier EXCEPT ![s] = new], job'[w] # job[w]
  PROVE  /\ dossier' \in [Student -> Row] /\ PaidExist'
         /\ PaidStay /\ ValidPaid /\ RoomCounted
<1>1. dossier'[s] = new /\ \A t \in Student \ {s} : dossier'[t] = dossier[t]
  BY DEF EnrolInv, EnrolTypeOK
<1>2. dossier' \in [Student -> Row]
  BY DEF EnrolInv, EnrolTypeOK, FineRow
<1>3. PaidExist' /\ PaidStay
  BY <1>1 DEF EnrolInv, PaidExist, PaidStay, FineRow
<1>4. ValidPaid
  BY <1>1 DEF ValidPaid, FineRow
<1>5. RoomCounted
  <2> SUFFICES ASSUME NEW c \in Class,
                      Cardinality(InClass(dossier', c)) > Cardinality(InClass(dossier, c)),
                      Cardinality(InClass(dossier', c)) > max_students[c]
               PROVE  \/ \E t \in Student : BackInClass(t, c)
                      \/ \E v \in Worker : WorksOnThePast(v)
    BY DEF RoomCounted
  <2>1. IsFiniteSet(InClass(dossier, c)) /\ Cardinality(InClass(dossier, c)) \in Nat
        /\ Cardinality(InClass(dossier', c)) \in Nat
    BY InClassFinite
  <2>2. InClass(dossier', c) \subseteq InClass(dossier, c) \cup {s}
    BY <1>1 DEF InClass
  <2>3. CASE InClass(dossier', c) \subseteq InClass(dossier, c)
    <3>1. Cardinality(InClass(dossier', c)) <= Cardinality(InClass(dossier, c))
      BY <2>1, <2>3, FS_Subset
    <3> QED
      BY <2>1, <3>1
  <2>4. CASE s \in InClass(dossier', c) /\ s \notin InClass(dossier, c)
    <3>1. Counted(new) /\ new.class = c /\ ~(Counted(dossier[s]) /\ dossier[s].class = c)
      BY <1>1, <2>4 DEF InClass
    <3>2. CASE Exists(dossier[s]) /\ dossier[s].class = c /\ ~Counted(dossier[s])
      BY <1>1, <3>1, <3>2 DEF BackInClass
    <3>3. CASE HasRoom(job[w].view, c) /\ job[w].view = dossier
      <4>1. Cardinality(InClass(dossier, c)) < max_students[c]
        BY <3>3 DEF HasRoom, count_active_enrollments_for_class
      <4>2. IsFiniteSet(InClass(dossier, c) \cup {s})
            /\ Cardinality(InClass(dossier, c) \cup {s}) = Cardinality(InClass(dossier, c)) + 1
        BY <2>1, <2>4, FS_AddElement
      <4>3. Cardinality(InClass(dossier', c)) <= Cardinality(InClass(dossier, c) \cup {s})
        BY <2>2, <4>2, FS_Subset
      <4>4. max_students[c] \in Nat
        BY EnrolAssumption
      <4> QED
        BY <2>1, <4>1, <4>2, <4>3, <4>4
    <3>4. CASE job[w].view # dossier
      BY <3>4 DEF WorksOnThePast
    <3> QED
      BY <3>1, <3>2, <3>3, <3>4 DEF FineRow
  <2> QED
    BY <2>2, <2>3, <2>4
<1> QED
  BY <1>2, <1>3, <1>4, <1>5

\* A step that writes no dossier keeps them.
LEMMA Same ==
  ASSUME EnrolInv, UNCHANGED dossier
  PROVE  PaidExist' /\ PaidStay /\ ValidPaid /\ RoomCounted
<1>1. \A c \in Class : Cardinality(InClass(dossier, c)) \in Nat
  BY InClassFinite
<1> QED
  BY <1>1 DEF EnrolInv, PaidExist, PaidStay, ValidPaid, RoomCounted

\* So does the commit of a fine row.
LEMMA CommitKeeps ==
  ASSUME EnrolInv, NEW w \in Worker, NEW s \in Student, NEW new, Reads(w), FineRow(w, s, new),
         Commit(w, s, new)
  PROVE  EnrolInv' /\ PaidStay /\ ValidPaid /\ RoomCounted
<1>1. dossier' = [dossier EXCEPT ![s] = new] /\ job' = [job EXCEPT ![w] = Idle] /\ served' = served
  BY DEF Commit
<1>2. job'[w] # job[w]
  BY <1>1 DEF EnrolInv, EnrolTypeOK, Reads, Idle
<1>3. Idle \in [step : Steps, view : [Student -> Row], todo : Targets \cup {<<>>}, held : SUBSET Class]
  BY NoRowType DEF Idle, Blank, Steps
<1>4. dossier' \in [Student -> Row] /\ PaidExist' /\ PaidStay /\ ValidPaid /\ RoomCounted
  BY <1>1, <1>2, RowWritten
<1> QED
  BY <1>1, <1>3, <1>4 DEF EnrolInv, EnrolTypeOK

\* What is stored and what a request has read are rows.
LEMMA DossierRows ==
  ASSUME EnrolInv, NEW w \in Worker, NEW s \in Student
  PROVE  /\ dossier[s] \in Row /\ job[w].view[s] \in Row /\ job[w].view \in [Student -> Row]
         /\ dossier[s].paid # "never" => Exists(dossier[s])
  BY DEF EnrolInv, EnrolTypeOK, PaidExist

\* Every request of the office writes a fine row, or none.
LEMMA OfficeKeeps ==
  ASSUME EnrolInv, NEW w \in Worker, NEW s \in Student, OfficeStep(w, s)
  PROVE  EnrolInv' /\ PaidStay /\ ValidPaid /\ RoomCounted
<1> DEFINE r == job[w].view[s]
           d == dossier[s]
<1>0. d \in Row /\ r \in Row /\ (d.paid # "never" => Exists(d))
  BY DossierRows
<1> HIDE DEF r, d
<1> USE DEF Exists, Visible, Counted, Row, EnrollmentStatus, Paid
<1>1. ASSUME NEW c \in Class, create_enrollment(w, s, c)
      PROVE  Reads(w) /\ FineRow(w, s, Created(s, c)) /\ Commit(w, s, Created(s, c))
  <2>1. Reads(w) /\ Commit(w, s, Created(s, c)) /\ HasRoom(job[w].view, c) /\ ~Exists(d)
    BY <1>1 DEF create_enrollment, KeyFree, d
  <2>2. Created(s, c) \in Row /\ Created(s, c).class = c /\ Created(s, c).status = "open"
    BY <1>0 DEF Created, d
  <2> QED
    BY <2>1, <2>2 DEF FineRow, d
<1>2. ASSUME NEW st \in {"open", "valide", "closed"}, NEW c \in Class, update_enrollment(w, s, st, c)
      PROVE  \E new : Reads(w) /\ FineRow(w, s, new) /\ Commit(w, s, new)
  <2> DEFINE new == [d EXCEPT !.status = Wrote(r.status, st, @), !.class = Wrote(r.class, c, @)]
  <2>1. /\ Reads(w) /\ Visible(r) /\ Exists(d) /\ Commit(w, s, new)
        /\ c # r.class => HasRoom(job[w].view, c)
        /\ st = "valide" /\ r.status # "valide" => ~AwaitingPayment([r EXCEPT !.class = c])
    BY <1>2 DEF update_enrollment, SameRow, MayBeValid, MayValidate, d, r
  <2>2. /\ new \in Row /\ new.paid = d.paid /\ new.hidden = d.hidden
        /\ new.status = Wrote(r.status, st, d.status) /\ new.class = Wrote(r.class, c, d.class)
    BY <1>0 DEF Wrote
  <2> HIDE DEF new
  <2>3. Exists(new)
    BY <2>1, <2>2 DEF Wrote
  <2>4. new.status = "valide" /\ d.status # "valide" => ~AwaitingPayment(new) \/ r # d
    BY <1>0, <2>1, <2>2 DEF Wrote, AwaitingPayment, HasLines
  <2>5. Counted(new) /\ ~(Counted(d) /\ d.class = new.class) =>
          HasRoom(job[w].view, new.class) \/ (d.class = new.class /\ ~Counted(d))
    BY <2>1, <2>2 DEF Wrote
  <2>6. FineRow(w, s, new)
    BY <2>1, <2>2, <2>3, <2>4, <2>5 DEF FineRow, d, r
  <2> QED
    BY <2>1, <2>6
<1>3. ASSUME validate_enrollment(w, s)
      PROVE  \E new : Reads(w) /\ FineRow(w, s, new) /\ Commit(w, s, new)
  <2> DEFINE new == [d EXCEPT !.status = "valide"]
  <2>1. Reads(w) /\ Exists(d) /\ Commit(w, s, new) /\ ~AwaitingPayment(r)
    BY <1>3 DEF validate_enrollment, SameRow, MayValidate, d, r
  <2>2. new \in Row /\ new.paid = d.paid /\ new.hidden = d.hidden /\ new.status = "valide" /\ new.class = d.class
    BY <1>0
  <2> HIDE DEF new
  <2>3. FineRow(w, s, new)
    BY <1>0, <2>1, <2>2 DEF FineRow, AwaitingPayment, HasLines, d, r
  <2> QED
    BY <2>1, <2>3
<1>4. ASSUME record_payment(w, s) \/ cancel_last_payment(w, s)
      PROVE  \E new : Reads(w) /\ FineRow(w, s, new) /\ Commit(w, s, new)
  <2>1. PICK p \in Paid : Reads(w) /\ Exists(d) /\ Commit(w, s, [d EXCEPT !.paid = p])
    BY <1>0, <1>4 DEF record_payment, cancel_last_payment, d
  <2>2. [d EXCEPT !.paid = p] \in Row /\ \A x \in {"status", "class", "hidden"} : [d EXCEPT !.paid = p][x] = d[x]
    BY <1>0, <2>1
  <2>3. FineRow(w, s, [d EXCEPT !.paid = p])
    BY <1>0, <2>1, <2>2 DEF FineRow, d
  <2> QED
    BY <2>1, <2>3
<1>5. ASSUME archive_record(w, s) \/ restore_record(w, s)
      PROVE  \E new : Reads(w) /\ FineRow(w, s, new) /\ Commit(w, s, new)
  <2>1. PICK h \in BOOLEAN : Reads(w) /\ Exists(d) /\ Commit(w, s, [d EXCEPT !.hidden = h])
    BY <1>5 DEF archive_record, restore_record, SameRow, d
  <2>2. [d EXCEPT !.hidden = h] \in Row /\ \A x \in {"status", "class", "paid"} : [d EXCEPT !.hidden = h][x] = d[x]
    BY <1>0, <2>1
  <2>3. FineRow(w, s, [d EXCEPT !.hidden = h])
    BY <1>0, <2>1, <2>2 DEF FineRow, d
  <2> QED
    BY <2>1, <2>3
<1>6. ASSUME purge_record(w, s)
      PROVE  \E new : Reads(w) /\ FineRow(w, s, new) /\ Commit(w, s, new)
  <2>1. Reads(w) /\ d.paid = "never" /\ Commit(w, s, NoRow(d.rows))
    BY <1>6 DEF purge_record, HasLines, d
  <2>2. NoRow(d.rows) \in Row /\ NoRow(d.rows).paid = "never" /\ NoRow(d.rows).status = "none"
    BY <1>0, NoRowType
  <2>3. FineRow(w, s, NoRow(d.rows))
    BY <2>1, <2>2 DEF FineRow, d
  <2> QED
    BY <2>1, <2>3
<1> QED
  BY <1>1, <1>2, <1>3, <1>4, <1>5, <1>6, CommitKeeps DEF OfficeStep

\* The student a promotion takes next is one of those it has left.
LEMMA NextIs ==
  ASSUME EnrolInv, NEW w \in Worker, DOMAIN job[w].todo # {}
  PROVE  LET s == Next1(job[w].todo)
         IN  s \in DOMAIN job[w].todo /\ s \in Student /\ job[w].todo[s] \in Class
<1>1. job[w].todo \in Targets
  BY DEF EnrolInv, EnrolTypeOK
<1>2. PICK S \in SUBSET Student : job[w].todo \in [S -> Class]
  BY <1>1 DEF Targets
<1>3. DOMAIN job[w].todo \in SUBSET Nat
  BY <1>2, EnrolAssumption
<1>4. \E s \in DOMAIN job[w].todo : \A t \in DOMAIN job[w].todo : s <= t
  BY <1>3, LeastNat, Zenon
<1>5. Next1(job[w].todo) \in DOMAIN job[w].todo
  BY <1>4 DEF Next1
<1> QED
  BY <1>2, <1>5

\* A plan of promotion stays one when a pupil is done.
LEMMA WithoutType ==
  ASSUME NEW todo \in Targets \cup {<<>>}, NEW s
  PROVE  Without(todo, s) \in Targets
<1>1. PICK S \in SUBSET Student : todo \in [S -> Class]
  <2>1. CASE todo = <<>>
    BY <2>1, todo \in [{} -> Class]
  <2> QED
    BY <2>1 DEF Targets
<1>2. Without(todo, s) \in [S \ {s} -> Class] /\ S \ {s} \in SUBSET Student
  BY <1>1 DEF Without
<1> QED
  BY <1>2 DEF Targets

\* Every step of a promotion keeps the invariant and the three promises.
LEMMA PromotionKeeps ==
  ASSUME EnrolInv, NEW w \in Worker, PromotionStep(w)
  PROVE  EnrolInv' /\ PaidStay /\ ValidPaid /\ RoomCounted
<1> DEFINE Job == [step : Steps, view : [Student -> Row], todo : Targets \cup {<<>>}, held : SUBSET Class]
           s == Next1(job[w].todo)
           c == job[w].todo[s]
<1>1. job \in [Worker -> Job] /\ job[w] \in Job /\ job[w].todo \in Targets \cup {<<>>}
  BY DEF EnrolInv, EnrolTypeOK
<1>2. Idle \in Job
  BY NoRowType DEF Idle, Blank, Steps
<1>3. Without(job[w].todo, s) \in Targets
  BY <1>1, WithoutType
<1>4. Promotes(w) => s \in DOMAIN job[w].todo /\ s \in Student /\ c \in Class
  BY NextIs DEF Promotes
<1>5. CASE Promote(w)
  <2>1. /\ Promotes(w) /\ HasRoom(job[w].view, c) /\ KeyFree(s)
        /\ dossier' = [dossier EXCEPT ![s] = Created(s, c)]
        /\ job' = [job EXCEPT ![w].todo = Without(@, s), ![w].view = dossier', ![w].held = {}]
        /\ served' = served
    BY <1>5 DEF Promote
  <2>2. /\ Created(s, c) \in Row /\ Created(s, c).class = c /\ Created(s, c).status = "open"
        /\ Created(s, c).paid = "never" /\ dossier[s].paid = "never" /\ ~Exists(dossier[s])
    BY <1>4, <2>1, DossierRows DEF Created, Row, EnrollmentStatus, Paid, KeyFree
  <2>3. FineRow(w, s, Created(s, c))
    BY <2>1, <2>2 DEF FineRow, Exists
  <2>4. job'[w].todo = Without(job[w].todo, s) /\ s \notin DOMAIN job'[w].todo
    BY <1>1, <2>1 DEF Without
  <2>5. job'[w] # job[w]
    BY <1>4, <2>1, <2>4
  <2>6. dossier' \in [Student -> Row] /\ PaidExist' /\ PaidStay /\ ValidPaid /\ RoomCounted
    BY <1>4, <2>1, <2>3, <2>5, RowWritten
  <2>7. job' \in [Worker -> Job]
    BY <1>1, <1>3, <2>1, <2>6
  <2> QED
    BY <2>1, <2>6, <2>7 DEF EnrolInv, EnrolTypeOK
<1>6. CASE Skip(w) \/ PromoteFails(w) \/ PromotionEnds(w) \/ Victim(w)
  <2>1. UNCHANGED <<dossier, served>>
    BY <1>6 DEF Skip, PromoteFails, PromotionEnds, Victim
  <2>2. job' \in [Worker -> Job]
    <3>1. CASE Skip(w)
      BY <1>1, <1>3, <3>1 DEF Skip
    <3>2. CASE PromoteFails(w)
      BY <1>1, <1>3, <1>4, <3>2 DEF PromoteFails
    <3>3. CASE PromotionEnds(w) \/ Victim(w)
      BY <1>1, <1>2, <3>3 DEF PromotionEnds, Victim
    <3> QED
      BY <1>6, <3>1, <3>2, <3>3
  <2> QED
    BY <2>1, <2>2, Same DEF EnrolInv, EnrolTypeOK
<1> QED
  BY <1>5, <1>6 DEF PromotionStep

\* Every step of the office, then.
LEMMA EnrolStep ==
  EnrolInv /\ [EnrolNext]_enrolvars => EnrolInv' /\ PaidStay /\ ValidPaid /\ RoomCounted
<1> SUFFICES ASSUME EnrolInv, [EnrolNext]_enrolvars
             PROVE  EnrolInv' /\ PaidStay /\ ValidPaid /\ RoomCounted
  OBVIOUS
<1> DEFINE Job == [step : Steps, view : [Student -> Row], todo : Targets \cup {<<>>}, held : SUBSET Class]
<1>1. ASSUME NEW w \in Worker, get_db(w) \/ Abandon(w) \/ \E todo \in Targets : execute_promotion(w, todo)
      PROVE  EnrolInv' /\ PaidStay /\ ValidPaid /\ RoomCounted
  <2>1. dossier \in [Student -> Row] /\ job \in [Worker -> Job] /\ served \in 0..MaxRequests
    BY DEF EnrolInv, EnrolTypeOK
  <2>2. Idle \in Job
    BY NoRowType DEF Idle, Blank, Steps
  <2>3. UNCHANGED dossier /\ job' \in [Worker -> Job] /\ served' \in 0..MaxRequests
    <3>1. CASE get_db(w)
      <4> DEFINE mine == [job[w] EXCEPT !.step = "read", !.view = dossier]
      <4>1. mine \in Job
        BY <2>1 DEF Steps
      <4>2. job' = [job EXCEPT ![w] = mine]
        BY <3>1 DEF get_db
      <4> HIDE DEF mine, Job
      <4>3. job' \in [Worker -> Job]
        BY ONLY <2>1, <4>1, <4>2
      <4>4. served' \in 0..MaxRequests
        BY <2>1, <3>1, EnrolAssumption DEF get_db
      <4> QED
        BY <3>1, <4>3, <4>4 DEF get_db
    <3>2. CASE Abandon(w)
      BY <2>1, <2>2, <3>2 DEF Abandon
    <3>3. ASSUME NEW todo \in Targets, execute_promotion(w, todo)
          PROVE  UNCHANGED dossier /\ job' \in [Worker -> Job] /\ served' \in 0..MaxRequests
      BY <2>1, <3>3 DEF execute_promotion, Steps
    <3> QED
      BY <1>1, <3>1, <3>2, <3>3
  <2> QED
    BY <2>3, Same DEF EnrolInv, EnrolTypeOK
<1>2. CASE UNCHANGED enrolvars
  BY <1>2, Same DEF EnrolInv, EnrolTypeOK, enrolvars
<1> QED
  BY <1>1, <1>2, OfficeKeeps, PromotionKeeps DEF EnrolNext, WorkerStep

\* The rows left from the year before were never paid in this one.
LEMMA EnrolInitInv == EnrolInit => EnrolInv
<1> SUFFICES ASSUME EnrolInit
             PROVE  EnrolInv
  OBVIOUS
<1>1. /\ \A r \in Left : r \in Row /\ r.paid = "never"
      /\ NoRow(0) \in Row /\ NoRow(0).paid = "never"
  BY NoRowType DEF Left, Row, EnrollmentStatus, Paid
<1>2. dossier \in [Student -> Row] /\ \A s \in Student : dossier[s].paid = "never"
  BY <1>1 DEF EnrolInit
<1>3. Idle \in [step : Steps, view : [Student -> Row], todo : Targets \cup {<<>>}, held : SUBSET Class]
  BY NoRowType DEF Idle, Blank, Steps
<1> QED
  BY <1>2, <1>3, EnrolAssumption DEF EnrolInit, EnrolInv, EnrolTypeOK, PaidExist

\* The invariant of the dossiers.
LEMMA EnrolHolds == EnrolSpec => []EnrolInv
<1>1. EnrolInv /\ [EnrolNext]_enrolvars => EnrolInv'
  BY EnrolStep
<1> QED
  BY EnrolInitInv, <1>1, PTL DEF EnrolSpec

\* The dossiers and the requests at work on them keep their types, for any pupils, classes and
\* number of requests.
THEOREM DossierTypes == EnrolSpec => []EnrolTypeOK
<1>1. EnrolInv => EnrolTypeOK
  BY DEF EnrolInv
<1> QED
  BY <1>1, EnrolHolds, PTL

\* A dossier that money was received on is never deleted, however requests overlap.
THEOREM PaidDossiersStay == EnrolSpec => PaidDossierStays
<1>1. EnrolInv /\ [EnrolNext]_enrolvars => [PaidStay]_enrolvars
  BY EnrolStep
<1> QED
  BY <1>1, EnrolHolds, PTL DEF EnrolSpec, PaidDossierStays, PaidStay

\* A dossier becomes valid with its first fees received, unless the request read an older row.
THEOREM ValidatedPaid == EnrolSpec => ValidatedOnlyPaid
<1>1. EnrolInv /\ [EnrolNext]_enrolvars => [ValidPaid]_enrolvars
  BY EnrolStep
<1> QED
  BY <1>1, EnrolHolds, PTL DEF EnrolSpec, ValidatedOnlyPaid, ValidPaid

\* A class goes over its places only by a pupil who comes back to it, or by a request that
\* counted rows that have changed since.
THEOREM OverfullByOverlap == EnrolSpec => OverfullOnlyByOverlap
<1>1. EnrolInv /\ [EnrolNext]_enrolvars => [RoomCounted]_enrolvars
  BY EnrolStep
<1> QED
  BY <1>1, EnrolHolds, PTL DEF EnrolSpec, OverfullOnlyByOverlap, RoomCounted

-----------------------------------------------------------------------------
(* The grid of tariffs and the lines. *)

Grids == [Variant -> Amount \cup {0, NotSet}]

\* Each line is in the column of its tariff's category.
InColumn(ls) == \A k \in Category : ls[k] # NotSet => tariff[ls[k].variant].category = k

\* A snapshot is typed, and the files it saw are still there.
SeenTyped ==
  seen # NotSet =>
    /\ seen.grid \in Grids /\ seen.file \in [Dossier -> FileRow]
    /\ seen.line \in [Dossier -> Lines] /\ \A e \in Dossier : InColumn(seen.line[e])
    /\ \A e \in Dossier : seen.file[e] # NotSet => file[e] # NotSet

RowsTyped ==
  /\ grid \in Grids /\ file \in [Dossier -> FileRow] /\ line \in [Dossier -> Lines]
  /\ \A e \in Dossier : InColumn(line[e])
  /\ \A e \in Dossier, k \in Category : line[e][k] # NotSet => file[e] # NotSet

GridInv == RowsTyped /\ SeenTyped /\ ops \in 0..MaxOps

\* What a request read.
ReadTyped(R) ==
  /\ R.grid \in Grids /\ R.file \in [Dossier -> FileRow]
  /\ R.line \in [Dossier -> Lines] /\ \A e \in Dossier : InColumn(R.line[e])
  /\ \A e \in Dossier : R.file[e] # NotSet => file[e] # NotSet

\* What a request reads, now or from before, is a grid with its dossiers and lines.
LEMMA ReadIs ==
  ASSUME GridInv, NEW past \in BOOLEAN, Serve(past)
  PROVE  ReadTyped(Read(past))
  BY DEF GridInv, RowsTyped, SeenTyped, ReadTyped, Read, Committed, Serve

\* The line of a tariff that was entered.
LEMMA NewLineType ==
  ASSUME ops \in 0..MaxOps, ops < MaxOps, NEW g, NEW v \in Entered(g)
  PROVE  /\ NewLine(v, g) \in Line /\ NewLine(v, g).variant = v /\ NewLine(v, g).amount = g[v]
         /\ NewLine(v, g).kept = {} /\ NewLine(v, g).money = "none" /\ NewLine(v, g).id = ops + 1
  BY GridAssumption DEF NewLine, Line, Entered

\* A mandatory line is that of a tariff that bills the dossier.
LEMMA CreatedIs ==
  ASSUME NEW g, NEW d, NEW ls, NEW k \in Category
  PROVE  LET due == get_mandatory_fee_variants(g, d)
             F == {v \in due : tariff[v].category = k}
             new == create_mandatory_enrollment_fees(g, d, ls)
         IN  \/ new[k] = ls[k]
             \/ /\ ls[k] = NotSet
                /\ \E v \in F : new[k] = NewLine(v, g)
  BY DEF create_mandatory_enrollment_fees

\* Creating the mandatory fees leaves one well-formed line a category.
LEMMA CreatedType ==
  ASSUME ops \in 0..MaxOps, ops < MaxOps, NEW g, NEW d, NEW ls \in Lines, InColumn(ls)
  PROVE  /\ create_mandatory_enrollment_fees(g, d, ls) \in Lines
         /\ InColumn(create_mandatory_enrollment_fees(g, d, ls))
<1> DEFINE new == create_mandatory_enrollment_fees(g, d, ls)
<1>1. new = [k \in Category |-> new[k]]
  BY DEF create_mandatory_enrollment_fees
<1>2. ASSUME NEW k \in Category
      PROVE  new[k] \in Line \cup {NotSet} /\ (new[k] # NotSet => tariff[new[k].variant].category = k)
  <2>1. CASE new[k] = ls[k]
    BY <2>1 DEF Lines, InColumn
  <2>2. CASE \E v \in get_mandatory_fee_variants(g, d) : tariff[v].category = k /\ new[k] = NewLine(v, g)
    <3>1. PICK v \in get_mandatory_fee_variants(g, d) : tariff[v].category = k /\ new[k] = NewLine(v, g)
      BY <2>2
    <3>2. v \in Entered(g)
      BY DEF get_mandatory_fee_variants, most_specific_variant_per_category, Applicable
    <3> QED
      BY <3>1, <3>2, NewLineType
  <2> QED
    BY <2>1, <2>2, CreatedIs
<1>3. new \in Lines /\ InColumn(new)
  <2> HIDE DEF new
  <2> QED
    BY <1>1, <1>2 DEF Lines, InColumn
<1> QED
  BY <1>3

\* So does attaching the fees of an enrollment.
LEMMA AttachedType ==
  ASSUME ops \in 0..MaxOps, ops < MaxOps, NEW g, NEW d, NEW v \in Entered(g) \cup {NotSet}, NEW D
  PROVE  attach_fees(g, d, v, D) \in Lines /\ InColumn(attach_fees(g, d, v, D))
<1> DEFINE first == create_explicit_enrollment_fee(g, v)
           all == create_mandatory_enrollment_fees(g, d, first)
           ls == apply_in_kind_deposits(all, D)
<1>1. first \in Lines /\ InColumn(first)
  <2>1. CASE v = NotSet
    BY <2>1 DEF create_explicit_enrollment_fee, NoLines, Lines, InColumn
  <2>2. CASE v # NotSet
    BY <2>2, NewLineType DEF create_explicit_enrollment_fee, Lines, InColumn
  <2> QED
    BY <2>1, <2>2
<1>2. all \in Lines /\ InColumn(all)
  BY <1>1, CreatedType
<1>3. ls \in Lines /\ InColumn(ls)
  <2> HIDE DEF all
  <2>1. ASSUME NEW l \in Line PROVE [l EXCEPT !.kept = {"in_kind"}] \in Line
                                    /\ [l EXCEPT !.kept = {"in_kind"}].variant = l.variant
    BY DEF Line
  <2>2. ls = [k \in Category |-> ls[k]]
    BY DEF apply_in_kind_deposits
  <2>3. ASSUME NEW k \in Category
        PROVE  ls[k] \in Line \cup {NotSet} /\ (ls[k] # NotSet => tariff[ls[k].variant].category = k)
    <3>1. all[k] \in Line \cup {NotSet} /\ (all[k] # NotSet => tariff[all[k].variant].category = k)
      BY <1>2 DEF Lines, InColumn
    <3>2. \/ ls[k] = all[k]
          \/ all[k] # NotSet /\ ls[k] = [all[k] EXCEPT !.kept = {"in_kind"}]
      BY DEF apply_in_kind_deposits
    <3> QED
      BY <2>1, <3>1, <3>2
  <2> HIDE DEF ls
  <2> QED
    BY <2>2, <2>3 DEF Lines, InColumn
<1> QED
  BY <1>3 DEF attach_fees

\* So does dropping the lines nothing was paid on.
LEMMA RemainingType ==
  ASSUME NEW ls \in Lines, InColumn(ls)
  PROVE  Remaining(ls) \in Lines /\ InColumn(Remaining(ls))
  BY DEF Remaining, Lines, InColumn

\* So does writing the lines that were regenerated over the lines that stand.
LEMMA RewrittenType ==
  ASSUME GridInv, ops < MaxOps, NEW R, ReadTyped(R), NEW e \in Dossier, NEW d
  PROVE  LET ls == R.line[e]
             new == regenerate_enrollment_fees(R.grid, d, ls)
         IN  Rewritten(e, ls, new) \in Lines /\ InColumn(Rewritten(e, ls, new))
<1> DEFINE ls == R.line[e]
           new == regenerate_enrollment_fees(R.grid, d, ls)
<1>1. new \in Lines /\ InColumn(new)
  <2>1. Remaining(ls) \in Lines /\ InColumn(Remaining(ls))
    BY RemainingType DEF ReadTyped
  <2> QED
    BY <2>1, CreatedType DEF regenerate_enrollment_fees, GridInv
<1>2. line[e] \in Lines /\ InColumn(line[e])
  BY DEF GridInv, RowsTyped
<1> HIDE DEF new, ls
<1>3. Rewritten(e, ls, new) \in Lines /\ InColumn(Rewritten(e, ls, new))
  BY <1>1, <1>2 DEF Rewritten, Lines, InColumn
<1> QED
  BY <1>3 DEF new, ls

\* What a request may write.
LEMMA Served ==
  ASSUME GridInv, NEW past, Serve(past), grid' \in Grids, file' \in [Dossier -> FileRow],
         line' \in [Dossier -> Lines],
         \A e \in Dossier : InColumn(line'[e]) /\ (file[e] # NotSet => file'[e] # NotSet),
         \A e \in Dossier, k \in Category : line'[e][k] # NotSet => file'[e] # NotSet
  PROVE  GridInv'
<1>1. ops' \in 0..MaxOps
  BY GridAssumption DEF GridInv, Serve
<1>2. RowsTyped'
  BY DEF RowsTyped, InColumn
<1>3. SeenTyped'
  BY DEF GridInv, SeenTyped, Serve, InColumn
<1> QED
  BY <1>1, <1>2, <1>3 DEF GridInv

\* One dossier's lines.
LEMMA OneWritten ==
  ASSUME GridInv, NEW past, Serve(past), UNCHANGED grid, NEW e \in Dossier,
         file' \in [Dossier -> FileRow], file'[e] # NotSet,
         \A f \in Dossier : file[f] # NotSet => file'[f] # NotSet,
         NEW ls \in Lines, InColumn(ls), line' = [line EXCEPT ![e] = ls]
  PROVE  GridInv'
<1>1. line' \in [Dossier -> Lines] /\ grid' \in Grids
  BY DEF GridInv, RowsTyped
<1>2. \A f \in Dossier : line'[f] = IF f = e THEN ls ELSE line[f]
  BY DEF GridInv, RowsTyped
<1>3. \A f \in Dossier : InColumn(line'[f])
  BY <1>2 DEF GridInv, RowsTyped
<1>4. \A f \in Dossier, k \in Category : line'[f][k] # NotSet => file'[f] # NotSet
  BY <1>2 DEF GridInv, RowsTyped
<1> QED
  BY <1>1, <1>3, <1>4, Served

\* Writing one dossier leaves the others, and a row where there was one.
LEMMA FileRows ==
  ASSUME NEW f \in [Dossier -> FileRow], NEW e \in Dossier
  PROVE  /\ \A d \in Dims, r \in Reach :
              LET g == [f EXCEPT ![e] = [dims |-> d, reach |-> r]]
              IN  g \in [Dossier -> FileRow] /\ g[e] # NotSet /\ \A h \in Dossier : f[h] # NotSet => g[h] # NotSet
         /\ f[e] # NotSet =>
              /\ \A d \in Dims :
                   LET g == [f EXCEPT ![e].dims = d]
                   IN  g \in [Dossier -> FileRow] /\ g[e] # NotSet /\ \A h \in Dossier : f[h] # NotSet => g[h] # NotSet
              /\ \A r \in Reach :
                   LET g == [f EXCEPT ![e].reach = r]
                   IN  g \in [Dossier -> FileRow] /\ g[e] # NotSet /\ \A h \in Dossier : f[h] # NotSet => g[h] # NotSet
<1>1. \A d \in Dims, r \in Reach : [dims |-> d, reach |-> r] \in FileRow \ {NotSet}
  BY NoRowAssumption DEF FileRow
<1>2. f[e] # NotSet =>
        /\ \A d \in Dims : [f[e] EXCEPT !.dims = d] \in FileRow \ {NotSet}
        /\ \A r \in Reach : [f[e] EXCEPT !.reach = r] \in FileRow \ {NotSet}
  <2>1. f[e] # NotSet => f[e] \in [dims : Dims, reach : Reach]
    BY DEF FileRow
  <2> QED
    BY <2>1, NoRowAssumption DEF FileRow
<1>3. ASSUME NEW x \in FileRow \ {NotSet}
      PROVE  LET g == [f EXCEPT ![e] = x]
             IN  g \in [Dossier -> FileRow] /\ g[e] # NotSet /\ \A h \in Dossier : f[h] # NotSet => g[h] # NotSet
  OBVIOUS
<1>4. \A d \in Dims, r \in Reach :
        LET g == [f EXCEPT ![e] = [dims |-> d, reach |-> r]]
        IN  g \in [Dossier -> FileRow] /\ g[e] # NotSet /\ \A h \in Dossier : f[h] # NotSet => g[h] # NotSet
  BY <1>1, <1>3
<1>5. ASSUME f[e] # NotSet, NEW d \in Dims
      PROVE  LET g == [f EXCEPT ![e].dims = d]
             IN  g \in [Dossier -> FileRow] /\ g[e] # NotSet /\ \A h \in Dossier : f[h] # NotSet => g[h] # NotSet
  BY <1>2, <1>3, <1>5
<1>6. ASSUME f[e] # NotSet, NEW r \in Reach
      PROVE  LET g == [f EXCEPT ![e].reach = r]
             IN  g \in [Dossier -> FileRow] /\ g[e] # NotSet /\ \A h \in Dossier : f[h] # NotSet => g[h] # NotSet
  BY <1>2, <1>3, <1>6
<1> QED
  BY <1>4, <1>5, <1>6

\* The edited criteria of a dossier are criteria.
LEMMA EditedType ==
  ASSUME NEW d \in Dims, NEW read \in Dims, NEW current \in Dims
  PROVE  EditedDims(d, read, current) \in Dims
  BY DEF EditedDims, Dims

\* The counter keeps the tariff, the amount and the id of a line.
Kin(l, m) == m.variant = l.variant /\ m.amount = l.amount /\ m.id = l.id

\* A step of the counter moves the money of one line and nothing else.
LEMMA CounterWrites ==
  ASSUME GridInv, NEW e \in Dossier, NEW k \in Category, CounterStep(e, k)
  PROVE  /\ line[e][k] \in Line /\ line[e][k] # NotSet
         /\ Serve(FALSE) /\ UNCHANGED <<grid, file>>
         /\ \E l \in Line : Kin(line[e][k], l) /\ line' = [line EXCEPT ![e][k] = l]
<1> DEFINE l == line[e][k]
<1>1. l # NotSet /\ l \in Line
  BY DEF GridInv, RowsTyped, Lines, CounterStep
<1>2. \A m \in {"none", "live", "cancelled"} :
        [l EXCEPT !.money = m] \in Line /\ Kin(l, [l EXCEPT !.money = m])
  BY <1>1 DEF Line, Kin
<1>3. \A D \in SUBSET {"discount", "in_kind"} :
        [l EXCEPT !.kept = D] \in Line /\ Kin(l, [l EXCEPT !.kept = D])
  BY <1>1 DEF Line, Kin
<1>4. l.kept \in SUBSET {"discount", "in_kind"}
  BY <1>1 DEF Line
<1>5. \E new \in Line : Kin(l, new) /\ Touch(e, k, new)
  <2>1. CASE take_payment(e, k)
    BY <2>1, <1>2 DEF take_payment
  <2>2. CASE cancel_payment(e, k)
    BY <2>2, <1>2 DEF cancel_payment
  <2>3. CASE set_discount(e, k)
    BY <2>3, <1>3 DEF set_discount
  <2>4. CASE remove_discount(e, k)
    BY <2>4, <1>3 DEF remove_discount
  <2>5. CASE mark_in_kind_deposit(e, k)
    <3>1. l.kept \cup {"in_kind"} \in SUBSET {"discount", "in_kind"}
      BY <1>4
    <3>2. Touch(e, k, [l EXCEPT !.kept = l.kept \cup {"in_kind"}])
      BY <2>5 DEF mark_in_kind_deposit
    <3> QED
      BY <3>1, <3>2, <1>3
  <2>6. CASE cancel_in_kind_deposit(e, k)
    <3>1. l.kept \ {"in_kind"} \in SUBSET {"discount", "in_kind"}
      BY <1>4
    <3>2. Touch(e, k, [l EXCEPT !.kept = l.kept \ {"in_kind"}])
      BY <2>6 DEF cancel_in_kind_deposit
    <3> QED
      BY <3>1, <3>2, <1>3
  <2> QED
    BY <2>1, <2>2, <2>3, <2>4, <2>5, <2>6 DEF CounterStep
<1> QED
  BY <1>1, <1>5 DEF Touch

\* So it keeps the invariant.
LEMMA CounterKeeps ==
  ASSUME GridInv, NEW e \in Dossier, NEW k \in Category, CounterStep(e, k)
  PROVE  GridInv'
<1>1. PICK l \in Line : Kin(line[e][k], l) /\ line' = [line EXCEPT ![e][k] = l]
  BY CounterWrites
<1>2. Serve(FALSE) /\ UNCHANGED <<grid, file>> /\ line[e][k] \in Line /\ line[e][k] # NotSet
  BY CounterWrites
<1> DEFINE ls == [line[e] EXCEPT ![k] = l]
<1>3. line[e] \in Lines /\ InColumn(line[e]) /\ line' = [line EXCEPT ![e] = ls]
  BY <1>1 DEF GridInv, RowsTyped
<1>4. ls \in Lines /\ InColumn(ls)
  BY <1>1, <1>2, <1>3 DEF Lines, InColumn, Kin
<1>5. file[e] # NotSet /\ file' \in [Dossier -> FileRow]
  BY <1>2 DEF GridInv, RowsTyped
<1> HIDE DEF ls
<1> QED
  BY <1>2, <1>3, <1>4, <1>5, OneWritten

\* The lines of the confirmation.
LEMMA PropagatedIs ==
  ASSUME GridInv, ops < MaxOps, NEW R, ReadTyped(R), NEW v \in Variant, R.grid[v] \in Amount,
         NEW cm \in BOOLEAN, NEW e \in Dossier,
         e \in ToUpdate(R, v) => line[e][tariff[v].category] # NotSet
  PROVE  LET c == tariff[v].category
             new == Propagated(R, v, cm)[e]
         IN  /\ new \in Lines /\ InColumn(new)
             /\ \A k \in Category \ {c} : new[k] = line[e][k]
             /\ e \in ToUpdate(R, v) => new[c] = [line[e][c] EXCEPT !.amount = R.grid[v]]
             /\ cm /\ e \in ToCreate(R, v) /\ e \notin ToUpdate(R, v) => new[c] = NewLine(v, R.grid)
             /\ e \notin ToUpdate(R, v) /\ ~(cm /\ e \in ToCreate(R, v)) => new = line[e]
<1> DEFINE c == tariff[v].category
           x == IF e \in ToUpdate(R, v) THEN [line[e][c] EXCEPT !.amount = R.grid[v]]
                ELSE IF cm /\ e \in ToCreate(R, v) THEN NewLine(v, R.grid)
                ELSE line[e][c]
           new == Propagated(R, v, cm)[e]
<1>1. new = [line[e] EXCEPT ![c] = x]
  BY DEF Propagated
<1>2. line[e] \in Lines /\ InColumn(line[e]) /\ c \in Category
  BY GridAssumption DEF GridInv, RowsTyped
<1>3. line[e][c] # NotSet => line[e][c] \in Line /\ tariff[line[e][c].variant].category = c
  BY <1>2 DEF Lines, InColumn
<1>4. x \in Line \cup {NotSet} /\ (x # NotSet => tariff[x.variant].category = c)
  <2>1. CASE e \in ToUpdate(R, v)
    <3>1. [line[e][c] EXCEPT !.amount = R.grid[v]] \in Line
          /\ [line[e][c] EXCEPT !.amount = R.grid[v]].variant = line[e][c].variant
      BY <2>1, <1>3 DEF Line
    <3> QED
      BY <2>1, <3>1, <1>3
  <2>2. CASE e \notin ToUpdate(R, v) /\ cm /\ e \in ToCreate(R, v)
    BY <2>2, NewLineType DEF Entered, GridInv
  <2>3. CASE e \notin ToUpdate(R, v) /\ ~(cm /\ e \in ToCreate(R, v))
    BY <2>3, <1>2 DEF Lines, InColumn
  <2> QED
    BY <2>1, <2>2, <2>3
<1> HIDE DEF x
<1>5. new \in Lines
  BY <1>1, <1>2, <1>4 DEF Lines
<1>6. InColumn(new) /\ new[c] = x /\ \A k \in Category \ {c} : new[k] = line[e][k]
  BY <1>1, <1>2, <1>4 DEF Lines, InColumn
<1>7. x = line[e][c] => new = line[e]
  BY <1>1, <1>2 DEF Lines
<1> QED
  BY <1>5, <1>6, <1>7 DEF x

\* A propagation keeps it: it prices lines that exist, and creates lines of the column.
LEMMA PropagationKeeps ==
  ASSUME GridInv, NEW v \in Variant, NEW past \in BOOLEAN, NEW cm \in BOOLEAN,
         apply_variant_propagation(past, v, cm)
  PROVE  GridInv'
<1> DEFINE R == Read(past)
<1>1. Serve(past) /\ ops < MaxOps /\ R.grid[v] \in Amount /\ UNCHANGED <<grid, file>>
      /\ line' = Propagated(R, v, cm)
  BY DEF apply_variant_propagation, Serve
<1>2. ReadTyped(R)
  BY <1>1, ReadIs
<1>3. \A e \in Dossier : e \in ToUpdate(R, v) => line[e][tariff[v].category] # NotSet
  BY DEF apply_variant_propagation, SameLine
<1> HIDE DEF R
<1>4. \A e \in Dossier : Propagated(R, v, cm)[e] \in Lines /\ InColumn(Propagated(R, v, cm)[e])
  BY <1>1, <1>2, <1>3, PropagatedIs
<1>5. line' \in [Dossier -> Lines] /\ grid' \in Grids /\ file' \in [Dossier -> FileRow]
  BY <1>1, <1>4 DEF Propagated, GridInv, RowsTyped
<1>6. \A e \in Dossier, k \in Category : line'[e][k] # NotSet => file'[e] # NotSet
  <2> SUFFICES ASSUME NEW e \in Dossier, NEW k \in Category, line'[e][k] # NotSet
               PROVE  file[e] # NotSet
    BY <1>1
  <2>1. CASE e \in ToCreate(R, v)
    BY <2>1, <1>2 DEF ToCreate, ReadTyped
  <2>2. CASE e \in ToUpdate(R, v)
    BY <2>2, <1>2 DEF ToUpdate, DueLines, Carries, ReadTyped
  <2>3. CASE line'[e] = line[e]
    BY <2>3 DEF GridInv, RowsTyped
  <2>4. ASSUME e \notin ToUpdate(R, v), e \notin ToCreate(R, v)
        PROVE  line'[e] = line[e]
    <3>1. Propagated(R, v, cm)[e] = [line[e] EXCEPT ![tariff[v].category] = @]
      BY <2>4 DEF Propagated
    <3> QED
      BY <1>1, <3>1 DEF GridInv, RowsTyped, Lines
  <2> QED
    BY <1>1, <2>1, <2>2, <2>3, <2>4
<1> QED
  BY <1>1, <1>4, <1>5, <1>6, Served

\* Every step keeps it.
LEMMA GridStepKeeps ==
  ASSUME GridInv, GridNext
  PROVE  GridInv'
<1>1. CASE get_tenant_db
  BY <1>1 DEF get_tenant_db, GridInv, RowsTyped, SeenTyped, Committed, InColumn
<1>2. CASE \E v \in Variant : GridStep(v)
  <2>1. PICK v \in Variant : GridStep(v)
    BY <1>2
  <2>2. ASSUME NEW a \in Amount, set_price(v, a) PROVE GridInv'
    <3>1. grid' \in Grids /\ Serve(FALSE) /\ UNCHANGED <<file, line>>
      BY <2>2 DEF set_price, GridInv, RowsTyped, Grids
    <3> QED
      BY <3>1, Served DEF GridInv, RowsTyped
  <2>3. CASE delete_fee_variant(v)
    <3>1. grid' \in Grids /\ Serve(FALSE) /\ UNCHANGED <<file, line>>
      BY <2>3 DEF delete_fee_variant, GridInv, RowsTyped, Grids
    <3> QED
      BY <3>1, Served DEF GridInv, RowsTyped
  <2> QED
    BY <2>1, <2>2, <2>3, PropagationKeeps DEF GridStep
<1>3. CASE \E e \in Dossier : DossierStep(e)
  <2>1. PICK e \in Dossier : DossierStep(e)
    BY <1>3
  <2>2. ASSUME NEW past \in BOOLEAN, NEW d \in Dims, NEW v \in Variant \cup {NotSet},
               NEW D \in SUBSET InKind, enroll(past, e, d, v, D)
        PROVE  GridInv'
    <3> DEFINE ls == attach_fees(Read(past).grid, d, v, D)
    <3>1. Serve(past) /\ ops < MaxOps /\ UNCHANGED grid /\ line' = [line EXCEPT ![e] = ls]
          /\ file' = [file EXCEPT ![e] = [dims |-> d, reach |-> "live"]]
      BY <2>2 DEF enroll, Serve
    <3>2. v \in Entered(Read(past).grid) \cup {NotSet}
      BY <2>2 DEF enroll, Applicable
    <3>3. ls \in Lines /\ InColumn(ls)
      BY <3>1, <3>2, AttachedType DEF GridInv
    <3>4. file' \in [Dossier -> FileRow] /\ file'[e] # NotSet
          /\ \A f \in Dossier : file[f] # NotSet => file'[f] # NotSet
      <4> file \in [Dossier -> FileRow] /\ "live" \in Reach
        BY DEF GridInv, RowsTyped, Reach
      <4> QED
        BY <3>1, FileRows
    <3> HIDE DEF ls
    <3> QED
      BY <3>1, <3>3, <3>4, OneWritten
  <2>3. ASSUME NEW past \in BOOLEAN, NEW d \in Dims, update_enrollment_dims(past, e, d)
        PROVE  GridInv'
    <3> DEFINE R == Read(past)
               ls == Rewritten(e, R.line[e], regenerate_enrollment_fees(R.grid, d, R.line[e]))
    <3>1. Serve(past) /\ ops < MaxOps /\ UNCHANGED grid /\ line' = [line EXCEPT ![e] = ls]
          /\ R.file[e] # NotSet
          /\ file' = [file EXCEPT ![e].dims = EditedDims(d, R.file[e].dims, file[e].dims)]
      BY <2>3 DEF update_enrollment_dims, Serve, Regenerated
    <3>2. ReadTyped(R)
      BY <3>1, ReadIs
    <3>3. ls \in Lines /\ InColumn(ls)
      BY <3>1, <3>2, RewrittenType
    <3>4. file[e] # NotSet /\ R.file[e].dims \in Dims /\ file[e].dims \in Dims
      BY <3>1, <3>2 DEF ReadTyped, GridInv, RowsTyped, FileRow
    <3>5. EditedDims(d, R.file[e].dims, file[e].dims) \in Dims
      BY <3>4, EditedType
    <3>6. file' \in [Dossier -> FileRow] /\ file'[e] # NotSet
          /\ \A f \in Dossier : file[f] # NotSet => file'[f] # NotSet
      <4> file \in [Dossier -> FileRow]
        BY DEF GridInv, RowsTyped
      <4> QED
        BY <3>1, <3>4, <3>5, FileRows
    <3> HIDE DEF ls, R
    <3> QED
      BY <3>1, <3>3, <3>6, OneWritten
  <2>4. ASSUME NEW past \in BOOLEAN, regenerate(past, e)
        PROVE  GridInv'
    <3> DEFINE R == Read(past)
               ls == Rewritten(e, R.line[e], regenerate_enrollment_fees(R.grid, R.file[e].dims, R.line[e]))
    <3>1. Serve(past) /\ ops < MaxOps /\ UNCHANGED <<grid, file>> /\ line' = [line EXCEPT ![e] = ls]
          /\ R.file[e] # NotSet
      BY <2>4 DEF regenerate, Serve, Regenerated
    <3>2. ReadTyped(R)
      BY <3>1, ReadIs
    <3>3. ls \in Lines /\ InColumn(ls)
      BY <3>1, <3>2, RewrittenType
    <3>4. file' \in [Dossier -> FileRow] /\ file'[e] # NotSet
      BY <3>1, <3>2 DEF ReadTyped, GridInv, RowsTyped
    <3> HIDE DEF ls, R
    <3> QED
      BY <3>1, <3>3, <3>4, OneWritten
  <2>5. CASE change_reach(e)
    <3>1. Serve(FALSE) /\ file[e] # NotSet /\ UNCHANGED <<grid, line>>
          /\ \E r \in Reach : file' = [file EXCEPT ![e].reach = r]
      BY <2>5 DEF change_reach
    <3>2. file' \in [Dossier -> FileRow]
          /\ \A f \in Dossier : file[f] # NotSet => file'[f] # NotSet
      <4> file \in [Dossier -> FileRow]
        BY DEF GridInv, RowsTyped
      <4> QED
        BY <3>1, FileRows
    <3> QED
      BY <3>1, <3>2, Served DEF GridInv, RowsTyped
  <2> QED
    BY <2>1, <2>2, <2>3, <2>4, <2>5, CounterKeeps DEF DossierStep
<1> QED
  BY <1>1, <1>2, <1>3 DEF GridNext

\* The lines a dossier starts with are those of its mandatory fees.
LEMMA OpeningType ==
  ASSUME GridInit, NEW d
  PROVE  Opening(grid, d) \in Lines /\ InColumn(Opening(grid, d))
<1> DEFINE ls == create_mandatory_enrollment_fees(grid, d, NoLines)
<1>1. ASSUME NEW k \in Category, ls[k] # NotSet
      PROVE  [ls[k] EXCEPT !.id = 0] \in Line /\ tariff[[ls[k] EXCEPT !.id = 0].variant].category = k
  <2>1. NoLines[k] = NotSet
    BY DEF NoLines
  <2>2. PICK v \in get_mandatory_fee_variants(grid, d) : tariff[v].category = k /\ ls[k] = NewLine(v, grid)
    BY <1>1, <2>1, CreatedIs
  <2>3. v \in Variant /\ grid[v] \in Amount
    BY DEF get_mandatory_fee_variants, most_specific_variant_per_category, Applicable, Entered
  <2>a. NewLine(v, grid) = [variant |-> v, amount |-> grid[v], money |-> "none", kept |-> {}, id |-> ops + 1]
    BY DEF NewLine
  <2>4. [ls[k] EXCEPT !.id = 0] = [variant |-> v, amount |-> grid[v], money |-> "none", kept |-> {}, id |-> 0]
    <3>1. ls[k] = [variant |-> v, amount |-> grid[v], money |-> "none", kept |-> {}, id |-> ops + 1]
      BY <2>2, <2>a
    <3> HIDE DEF ls
    <3> QED
      BY ONLY <3>1
  <2>5. 0 \in 0..MaxOps
    BY GridAssumption
  <2> HIDE DEF ls
  <2> QED
    BY <2>2, <2>3, <2>4, <2>5 DEF Line
<1> HIDE DEF ls
<1>2. Opening(grid, d) = [k \in Category |-> IF ls[k] = NotSet THEN NotSet ELSE [ls[k] EXCEPT !.id = 0]]
  BY DEF Opening, ls
<1> QED
  BY <1>1, <1>2 DEF Lines, InColumn

\* The first grid and its dossiers satisfy the invariant.
LEMMA GridInitInv ==
  ASSUME GridInit
  PROVE  GridInv
<1>1. PICK E \in SUBSET Dossier, dims \in [Dossier -> Dims] :
        /\ file = [e \in Dossier |-> IF e \in E THEN [dims |-> dims[e], reach |-> "live"] ELSE NotSet]
        /\ line = [e \in Dossier |-> IF e \in E THEN Opening(grid, dims[e]) ELSE NoLines]
  BY DEF GridInit
<1>2. grid \in Grids /\ seen = NotSet /\ ops \in 0..MaxOps
  BY GridAssumption DEF GridInit, Grids
<1>3. NoLines \in Lines /\ InColumn(NoLines) /\ \A k \in Category : NoLines[k] = NotSet
  BY DEF NoLines, Lines, InColumn
<1>4. \A e \in Dossier : line[e] \in Lines /\ InColumn(line[e])
  BY <1>1, <1>3, OpeningType
<1>5. line \in [Dossier -> Lines]
  BY <1>1, <1>4
<1>6. \A e \in Dossier : [dims |-> dims[e], reach |-> "live"] \in FileRow \ {NotSet}
  BY NoRowAssumption DEF FileRow, Reach
<1>7. file \in [Dossier -> FileRow]
  BY <1>1, <1>6 DEF FileRow
<1>8. \A e \in Dossier, k \in Category : line[e][k] # NotSet => file[e] # NotSet
  BY <1>1, <1>3, <1>6
<1> QED
  BY <1>2, <1>4, <1>5, <1>7, <1>8 DEF GridInv, RowsTyped, SeenTyped

\* The invariant of the grid.
LEMMA GridHolds == GridSpec => []GridInv
<1>1. ASSUME GridInv, UNCHANGED gridvars PROVE GridInv'
  BY <1>1 DEF gridvars, GridInv, RowsTyped, SeenTyped, InColumn
<1> QED
  BY <1>1, GridInitInv, GridStepKeeps, PTL DEF GridSpec

\* Prices, dossiers and lines keep their types, and a line stays in the column of its category,
\* for any tariffs, criteria and dossiers.
THEOREM GridTypes == GridSpec => []GridTypeOK
<1>1. GridInv => GridTypeOK
  BY DEF GridInv, RowsTyped, SeenTyped, GridTypeOK, Grids, InColumn
<1> QED
  BY <1>1, GridHolds, PTL

-----------------------------------------------------------------------------
(* Money keeps its line. *)

MoneyKept(e, k) ==
  LET l == line[e][k]
  IN  l # NotSet /\ l.money # "none" =>
        /\ SameLine(l, line'[e][k])
        /\ \/ l.amount = line'[e][k].amount
           \/ /\ seen # NotSet /\ seen' = NotSet
              /\ SameLine(l, seen.line[e][k]) /\ seen.line[e][k].money = "none"

\* A line that is not written keeps its money.
LEMMA Untouched ==
  ASSUME NEW e, NEW k, line'[e][k] = line[e][k]
  PROVE  MoneyKept(e, k)
  BY DEF MoneyKept, SameLine

\* A regeneration writes the lines of one dossier, as its reads tell it.
LEMMA RegeneratedIs ==
  ASSUME GridInv, NEW past \in BOOLEAN, NEW e \in Dossier, NEW d, Regenerated(Read(past), e, d)
  PROVE  /\ \A f \in Dossier \ {e} : line'[f] = line[f]
         /\ LET ls == Read(past).line[e]
                new == regenerate_enrollment_fees(Read(past).grid, d, ls)
            IN  line'[e] = Rewritten(e, ls, new) /\ MayWrite(e, ls, new)
  BY DEF GridInv, RowsTyped, Regenerated

\* It leaves a line with money on it as it stands.
LEMMA RegeneratedMoney ==
  ASSUME GridInv, NEW past \in BOOLEAN, NEW e \in Dossier, NEW d, Regenerated(Read(past), e, d)
  PROVE  \A f \in Dossier, k \in Category : MoneyKept(f, k)
<1> SUFFICES ASSUME NEW f \in Dossier, NEW k \in Category PROVE MoneyKept(f, k)
  OBVIOUS
<1> DEFINE ls == Read(past).line[e]
           new == regenerate_enrollment_fees(Read(past).grid, d, ls)
<1>1. CASE f # e
  BY <1>1, RegeneratedIs, Untouched
<1>2. CASE f = e
  <2>1. line'[e] = Rewritten(e, ls, new) /\ MayWrite(e, ls, new)
    BY RegeneratedIs
  <2> HIDE DEF ls, new
  <2>2. line[e][k] # NotSet /\ line[e][k].money # "none" => line'[e][k] = line[e][k]
    BY <2>1 DEF Rewritten, MayWrite
  <2> QED
    BY <1>2, <2>2, Untouched DEF MoneyKept
<1> QED
  BY <1>1, <1>2

\* The counter moves money, never the line under it.
LEMMA CounterMoney ==
  ASSUME GridInv, NEW e \in Dossier, NEW k \in Category, CounterStep(e, k)
  PROVE  \A f \in Dossier, j \in Category : MoneyKept(f, j)
<1> SUFFICES ASSUME NEW f \in Dossier, NEW j \in Category PROVE MoneyKept(f, j)
  OBVIOUS
<1>1. PICK l \in Line : Kin(line[e][k], l) /\ line' = [line EXCEPT ![e][k] = l]
  BY CounterWrites
<1>2. line \in [Dossier -> [Category -> Line \cup {NotSet}]]
  BY DEF GridInv, RowsTyped, Lines
<1>3. CASE f = e /\ j = k
  <2>1. line'[e][k] = l /\ l # NotSet
    BY <1>1, <1>2, NoRowAssumption
  <2> QED
    BY <1>1, <1>3, <2>1 DEF MoneyKept, Kin, SameLine
<1>4. CASE ~(f = e /\ j = k)
  BY <1>1, <1>2, <1>4, Untouched
<1> QED
  BY <1>3, <1>4

\* A propagation prices a line with money only if it read it before the money came.
LEMMA PropagationMoney ==
  ASSUME GridInv, NEW v \in Variant, NEW past \in BOOLEAN, NEW cm \in BOOLEAN,
         apply_variant_propagation(past, v, cm)
  PROVE  \A f \in Dossier, j \in Category : MoneyKept(f, j)
<1> SUFFICES ASSUME NEW e \in Dossier, NEW k \in Category, line[e][k] # NotSet, line[e][k].money # "none"
             PROVE  MoneyKept(e, k)
  BY DEF MoneyKept
<1> DEFINE R == Read(past)
           c == tariff[v].category
<1>0. c \in Category /\ line[e] \in Lines
  BY GridAssumption DEF GridInv, RowsTyped
<1>1. line'[e] = [line[e] EXCEPT ![c] =
         IF e \in ToUpdate(R, v) THEN [line[e][c] EXCEPT !.amount = R.grid[v]]
         ELSE IF cm /\ e \in ToCreate(R, v) THEN NewLine(v, R.grid)
         ELSE line[e][c]]
  BY DEF apply_variant_propagation, Propagated
<1>2. k # c => line'[e][k] = line[e][k]
  BY <1>0, <1>1 DEF Lines
<1>3. CASE k = c /\ e \in ToUpdate(R, v)
  <2>1. SameLine(LineFor(R, v, e), line[e][c])
    BY <1>3 DEF apply_variant_propagation
  <2>2. LineFor(R, v, e).money = "none"
    BY <1>3 DEF ToUpdate, PaidLines
  <2>3. CASE past
    <3>1. R = seen /\ seen # NotSet /\ seen' = NotSet
      BY <2>3 DEF Read, apply_variant_propagation, Serve
    <3>2. line[e][c] \in Line
      BY <1>0, <1>3 DEF Lines
    <3>3. [line[e][c] EXCEPT !.amount = R.grid[v]] \in Line
          /\ [line[e][c] EXCEPT !.amount = R.grid[v]].id = line[e][c].id
      BY <3>2 DEF apply_variant_propagation, Line
    <3>4. line'[e][c] = [line[e][c] EXCEPT !.amount = R.grid[v]]
      BY <1>0, <1>1, <1>3 DEF Lines
    <3>5. SameLine(line[e][c], line'[e][c])
      BY <1>3, <3>3, <3>4, NoRowAssumption DEF SameLine
    <3> QED
      BY <1>3, <2>1, <2>2, <3>1, <3>5 DEF MoneyKept, SameLine, LineFor
  <2>4. CASE ~past
    BY <1>3, <2>2, <2>4 DEF Read, Committed, LineFor
  <2> QED
    BY <2>3, <2>4
<1>4. CASE k = c /\ e \notin ToUpdate(R, v)
  <2>1. ~(cm /\ e \in ToCreate(R, v))
    BY <1>4 DEF apply_variant_propagation
  <2>2. line'[e][k] = line[e][k]
    BY <1>0, <1>1, <1>4, <2>1 DEF Lines
  <2> QED
    BY <2>2, Untouched
<1> QED
  BY <1>2, <1>3, <1>4, Untouched

\* So does every step.
LEMMA MoneyStep ==
  ASSUME GridInv, GridNext
  PROVE  \A e \in Dossier, k \in Category : MoneyKept(e, k)
<1>1. CASE UNCHANGED line
  BY <1>1, Untouched
<1>2. ASSUME NEW e \in Dossier, NEW past \in BOOLEAN, NEW d \in Dims, NEW v \in Variant \cup {NotSet},
             NEW D \in SUBSET InKind, enroll(past, e, d, v, D)
      PROVE  \A f \in Dossier, k \in Category : MoneyKept(f, k)
  <2>1. \A f \in Dossier \ {e} : line'[f] = line[f]
    BY <1>2 DEF enroll, GridInv, RowsTyped
  <2>2. \A k \in Category : line[e][k] = NotSet
    BY <1>2 DEF enroll, GridInv, RowsTyped
  <2> QED
    BY <2>1, <2>2, Untouched DEF MoneyKept
<1>3. ASSUME NEW e \in Dossier, DossierStep(e)
      PROVE  \A f \in Dossier, k \in Category : MoneyKept(f, k)
  <2>1. ASSUME NEW past \in BOOLEAN, NEW d \in Dims, update_enrollment_dims(past, e, d)
        PROVE  \A f \in Dossier, k \in Category : MoneyKept(f, k)
    BY <2>1, RegeneratedMoney DEF update_enrollment_dims
  <2>2. ASSUME NEW past \in BOOLEAN, regenerate(past, e)
        PROVE  \A f \in Dossier, k \in Category : MoneyKept(f, k)
    BY <2>2, RegeneratedMoney DEF regenerate
  <2>3. CASE change_reach(e)
    BY <2>3, <1>1 DEF change_reach
  <2> QED
    BY <1>2, <1>3, <2>1, <2>2, <2>3, CounterMoney DEF DossierStep
<1>4. ASSUME NEW v \in Variant, GridStep(v)
      PROVE  \A f \in Dossier, k \in Category : MoneyKept(f, k)
  <2>1. ASSUME NEW a \in Amount, set_price(v, a) PROVE UNCHANGED line
    BY <2>1 DEF set_price
  <2>2. CASE delete_fee_variant(v)
    BY <2>2, <1>1 DEF delete_fee_variant
  <2> QED
    BY <1>1, <1>4, <2>1, <2>2, PropagationMoney DEF GridStep
<1>5. get_tenant_db => UNCHANGED line
  BY DEF get_tenant_db
<1> QED
  BY <1>1, <1>3, <1>4, <1>5 DEF GridNext

\* A line that money lies on is never deleted, renamed or priced anew, but by a propagation that
\* read it before the money came.
THEOREM MoneyKeepsLines == GridSpec => MoneyKeepsItsLine
<1>1. GridInv /\ [GridNext]_gridvars => [\A e \in Dossier, k \in Category : MoneyKept(e, k)]_gridvars
  BY MoneyStep
<1> QED
  BY <1>1, GridHolds, PTL DEF GridSpec, MoneyKeepsItsLine, MoneyKept

-----------------------------------------------------------------------------
(* Billed as if enrolled current. *)

\* The tariff that beats another is more specific.
LEMMA BeatsIs ==
  ASSUME NEW w, NEW v, Beats(w, v)
  PROVE  ~(specificity(w) <= specificity(v))
  BY DEF Beats, specificity, Weight

\* The tariff kept for a category is one the dossier is billed at.
LEMMA MandatoryBills ==
  ASSUME NEW g, NEW d, NEW v \in get_mandatory_fee_variants(g, d)
  PROVE  Bills(g, d, v)
  BY BeatsIs DEF Bills, get_mandatory_fee_variants, most_specific_variant_per_category

NewLines(e) == {k \in Category : line'[e][k] # NotSet /\ ~SameLine(line[e][k], line'[e][k])}

\* A new line bears the price and the tariff of a dossier enrolled current.
AtPrice(e, k) ==
  /\ line'[e][k].amount = grid'[line'[e][k].variant]
  /\ line'[e][k].variant \in Applicable(grid', file'[e].dims)

Billed(e, k) == Bills(grid', file'[e].dims, line'[e][k].variant)

NamedTariff(e) == {k \in NewLines(e) : ~Billed(e, k)}

BilledStep(e) ==
  seen = NotSet \/ seen' # NotSet =>
    /\ \A k \in NewLines(e) : AtPrice(e, k)
    /\ NamedTariff(e) # {} => file[e] = NotSet /\ Cardinality(NamedTariff(e)) = 1

\* Lines all billed at the grid need no exception.
LEMMA AllBilled ==
  ASSUME NEW e, \A k \in NewLines(e) : AtPrice(e, k) /\ Billed(e, k)
  PROVE  BilledStep(e)
  BY DEF BilledStep, NamedTariff

\* Where no line changes there is no new line.
LEMMA NothingNew ==
  ASSUME NEW e, \A k \in Category : line'[e][k] = line[e][k]
  PROVE  BilledStep(e)
<1>1. NewLines(e) = {}
  BY DEF NewLines, SameLine
<1> QED
  BY <1>1, AllBilled

\* A line created for a dossier is at the price of the grid.
LEMMA NewLineBilled ==
  ASSUME NEW g, NEW d, NEW v \in get_mandatory_fee_variants(g, d)
  PROVE  /\ NewLine(v, g).variant = v /\ NewLine(v, g).amount = g[v]
         /\ v \in Applicable(g, d) /\ Bills(g, d, v)
  BY MandatoryBills DEF NewLine, Bills

\* A regeneration on what is committed bills at the grid.
LEMMA RegeneratedBilled ==
  ASSUME GridInv, NEW e \in Dossier, NEW d, Regenerated(Committed, e, d),
         UNCHANGED grid, file'[e].dims = d
  PROVE  \A f \in Dossier : BilledStep(f)
<1> SUFFICES ASSUME NEW f \in Dossier PROVE BilledStep(f)
  OBVIOUS
<1> DEFINE ls == line[e]
           new == regenerate_enrollment_fees(grid, d, ls)
<1>1. Committed = Read(FALSE)
  BY DEF Read
<1>2. CASE f # e
  BY <1>1, <1>2, RegeneratedIs, NothingNew
<1>3. CASE f = e
  <2>1. line'[e] = Rewritten(e, ls, new)
    <3>1. Read(FALSE).line = line /\ Read(FALSE).grid = grid
      BY DEF Read, Committed
    <3>2. line' = [line EXCEPT ![e] = Rewritten(e, ls, new)]
      BY DEF Regenerated, Committed
    <3> QED
      BY <3>2 DEF GridInv, RowsTyped
  <2>2. ASSUME NEW k \in Category, line'[e][k] # NotSet, ~SameLine(ls[k], line'[e][k])
        PROVE  AtPrice(e, k) /\ Billed(e, k)
    <3>1. new[k] # NotSet /\ ~SameLine(new[k], ls[k]) /\ line'[e][k] = new[k]
      <4> HIDE DEF new
      <4>1. line'[e][k] = ls[k] => SameLine(ls[k], line'[e][k])
        BY <2>2 DEF SameLine
      <4> QED
        BY <2>1, <2>2, <4>1 DEF Rewritten
    <3>2. new[k] # Remaining(ls)[k]
      <4>1. Remaining(ls)[k] \in {NotSet, ls[k]}
        BY DEF Remaining
      <4> HIDE DEF new
      <4> QED
        BY <3>1, <4>1 DEF SameLine
    <3>3. PICK v \in get_mandatory_fee_variants(grid, d) : new[k] = NewLine(v, grid)
      BY <3>2, CreatedIs DEF regenerate_enrollment_fees
    <3> QED
      BY <3>1, <3>3, NewLineBilled DEF AtPrice, Billed
  <2> QED
    BY <1>3, <2>2, AllBilled DEF NewLines
<1> QED
  BY <1>2, <1>3

\* An enrollment bills at the grid, but for the one tariff the form may name.
LEMMA EnrolledBilled ==
  ASSUME GridInv, NEW e \in Dossier, NEW d \in Dims, NEW v \in Variant \cup {NotSet}, NEW D,
         enroll(FALSE, e, d, v, D)
  PROVE  \A f \in Dossier : BilledStep(f)
<1> SUFFICES ASSUME NEW f \in Dossier PROVE BilledStep(f)
  OBVIOUS
<1> DEFINE first == create_explicit_enrollment_fee(grid, v)
           all == create_mandatory_enrollment_fees(grid, d, first)
<1>1. /\ file[e] = NotSet /\ UNCHANGED grid /\ file'[e].dims = d
      /\ line' = [line EXCEPT ![e] = attach_fees(grid, d, v, D)]
      /\ v # NotSet => v \in Applicable(grid, d)
  BY DEF enroll, Read, Committed, GridInv, RowsTyped
<1>2. CASE f # e
  BY <1>1, <1>2, NothingNew DEF GridInv, RowsTyped
<1>3. CASE f = e
  <2>1. ASSUME NEW k \in NewLines(e)
        PROVE  AtPrice(e, k) /\ (Billed(e, k) \/ (v # NotSet /\ k = tariff[v].category))
    <3>1. line'[e] = apply_in_kind_deposits(all, D)
      BY <1>1 DEF attach_fees, GridInv, RowsTyped
    <3>2. all[k] # NotSet /\ \/ line'[e][k] = all[k]
                             \/ line'[e][k] = [all[k] EXCEPT !.kept = {"in_kind"}]
      <4> HIDE DEF all
      <4> QED
        BY <2>1, <3>1 DEF NewLines, apply_in_kind_deposits
    <3>3. k \in Category
      BY <2>1 DEF NewLines
    <3>4. ASSUME NEW w, all[k] = NewLine(w, grid)
          PROVE  line'[e][k].variant = w /\ line'[e][k].amount = grid[w]
      <4> HIDE DEF all
      <4>1. NewLine(w, grid).variant = w /\ NewLine(w, grid).amount = grid[w]
            /\ [NewLine(w, grid) EXCEPT !.kept = {"in_kind"}].variant = w
            /\ [NewLine(w, grid) EXCEPT !.kept = {"in_kind"}].amount = grid[w]
        BY DEF NewLine
      <4> QED
        BY <3>2, <3>4, <4>1
    <3>5. CASE all[k] = first[k]
      <4>1. v # NotSet /\ k = tariff[v].category /\ all[k] = NewLine(v, grid)
        BY <3>2, <3>3, <3>5 DEF create_explicit_enrollment_fee, NoLines
      <4>2. v \in Applicable(grid, d)
        BY <1>1, <4>1
      <4> HIDE DEF all, first
      <4> QED
        BY <1>1, <3>4, <4>1, <4>2 DEF AtPrice
    <3>6. CASE \E w \in get_mandatory_fee_variants(grid, d) : all[k] = NewLine(w, grid)
      <4>1. PICK w \in get_mandatory_fee_variants(grid, d) : all[k] = NewLine(w, grid)
        BY <3>6
      <4> HIDE DEF all, first
      <4> QED
        BY <1>1, <3>4, <4>1, NewLineBilled DEF AtPrice, Billed
    <3> QED
      BY <3>3, <3>5, <3>6, CreatedIs
  <2>2. NamedTariff(e) \subseteq {k \in Category : v # NotSet /\ k = tariff[v].category}
    BY <2>1 DEF NamedTariff, NewLines
  <2>3. ASSUME NamedTariff(e) # {} PROVE Cardinality(NamedTariff(e)) = 1
    <3>1. NamedTariff(e) = {tariff[v].category}
      BY <2>2, <2>3
    <3> QED
      BY <3>1, FS_Singleton
  <2> QED
    BY <1>1, <1>3, <2>1, <2>3 DEF BilledStep
<1> QED
  BY <1>2, <1>3

\* A propagation on what is committed bills at the grid.
LEMMA PropagationBilled ==
  ASSUME GridInv, NEW v \in Variant, NEW cm \in BOOLEAN, apply_variant_propagation(FALSE, v, cm)
  PROVE  \A f \in Dossier : BilledStep(f)
<1> SUFFICES ASSUME NEW e \in Dossier PROVE BilledStep(e)
  OBVIOUS
<1> DEFINE R == Committed
           c == tariff[v].category
<1>0. c \in Category /\ line[e] \in Lines /\ UNCHANGED <<grid, file>> /\ Read(FALSE) = R
  BY GridAssumption DEF GridInv, RowsTyped, apply_variant_propagation, Read
<1>1. line'[e] = [line[e] EXCEPT ![c] =
         IF e \in ToUpdate(R, v) THEN [line[e][c] EXCEPT !.amount = R.grid[v]]
         ELSE IF cm /\ e \in ToCreate(R, v) THEN NewLine(v, R.grid)
         ELSE line[e][c]]
  BY <1>0 DEF apply_variant_propagation, Propagated
<1>2. \A k \in Category \ {c} : line'[e][k] = line[e][k]
  BY <1>0, <1>1 DEF Lines
<1>3. CASE e \in ToUpdate(R, v)
  <2>1. line[e][c] # NotSet /\ line[e][c] \in Line
    BY <1>0, <1>3 DEF apply_variant_propagation, SameLine, Lines
  <2>2. line'[e][c] = [line[e][c] EXCEPT !.amount = R.grid[v]]
    BY <1>0, <1>1, <1>3 DEF Lines
  <2>3. line'[e][c].id = line[e][c].id /\ line'[e][c] \in Line
    BY <1>0, <2>1, <2>2 DEF apply_variant_propagation, Line
  <2>4. SameLine(line[e][c], line'[e][c])
    BY <2>1, <2>3, NoRowAssumption DEF SameLine
  <2>5. NewLines(e) = {}
    BY <1>2, <2>4 DEF NewLines, SameLine
  <2> QED
    BY <2>5, AllBilled
<1>4. CASE e \notin ToUpdate(R, v) /\ cm /\ e \in ToCreate(R, v)
  <2>1. line'[e][c] = NewLine(v, grid)
    BY <1>0, <1>1, <1>4 DEF Lines, Committed
  <2>2. line'[e][c].variant = v /\ line'[e][c].amount = grid[v]
    BY <2>1 DEF NewLine
  <2>3. /\ v \in most_specific_variant_per_category(
               {w \in Applicable(grid, file[e].dims) : tariff[w].category = c})
    BY <1>4 DEF ToCreate, Committed
  <2>4. Bills(grid, file[e].dims, v)
    BY <2>3, BeatsIs DEF Bills, most_specific_variant_per_category
  <2>5. AtPrice(e, c) /\ Billed(e, c)
    BY <1>0, <2>2, <2>4 DEF AtPrice, Billed, Bills
  <2>6. NewLines(e) \subseteq {c}
    BY <1>2 DEF NewLines, SameLine
  <2> QED
    BY <2>5, <2>6, AllBilled
<1>5. CASE e \notin ToUpdate(R, v) /\ ~(cm /\ e \in ToCreate(R, v))
  <2>1. line'[e] = line[e]
    BY <1>0, <1>1, <1>5 DEF Lines
  <2> QED
    BY <2>1, NothingNew
<1> QED
  BY <1>3, <1>4, <1>5

\* A commit on an older read is the exception the property states.
LEMMA LateLeftOut ==
  ASSUME NEW past \in BOOLEAN, Serve(past), past
  PROVE  \A e \in Dossier : BilledStep(e)
  BY DEF Serve, BilledStep

\* Every step bills at the grid.
LEMMA BilledNow ==
  ASSUME GridInv, GridNext
  PROVE  \A e \in Dossier : BilledStep(e)
<1>1. CASE UNCHANGED line
  BY <1>1, NothingNew
<1>2. ASSUME NEW e \in Dossier, DossierStep(e)
      PROVE  \A f \in Dossier : BilledStep(f)
  <2>1. ASSUME NEW past \in BOOLEAN, NEW d \in Dims, NEW v \in Variant \cup {NotSet},
               NEW D \in SUBSET InKind, enroll(past, e, d, v, D)
        PROVE  \A f \in Dossier : BilledStep(f)
    <3>1. CASE past
      BY <2>1, <3>1, LateLeftOut DEF enroll
    <3>2. CASE past = FALSE
      BY <2>1, <3>2, EnrolledBilled
    <3> QED
      BY <3>1, <3>2
  <2>2. ASSUME NEW past \in BOOLEAN, NEW d \in Dims, update_enrollment_dims(past, e, d)
        PROVE  \A f \in Dossier : BilledStep(f)
    <3>1. CASE past
      BY <2>2, <3>1, LateLeftOut DEF update_enrollment_dims
    <3>2. CASE past = FALSE
      <4>1. /\ Regenerated(Committed, e, d) /\ UNCHANGED grid /\ file[e] # NotSet
            /\ file' = [file EXCEPT ![e].dims = EditedDims(d, file[e].dims, file[e].dims)]
        BY <2>2, <3>2 DEF update_enrollment_dims, Read, Committed
      <4>2. file[e] \in [dims : Dims, reach : Reach]
        BY <4>1 DEF GridInv, RowsTyped, FileRow
      <4>3. EditedDims(d, file[e].dims, file[e].dims) = d
        BY <4>2 DEF EditedDims, Dims
      <4>4. file'[e] = [file[e] EXCEPT !.dims = d]
        BY <4>1, <4>3 DEF GridInv, RowsTyped
      <4>5. file'[e].dims = d
        BY <4>2, <4>4
      <4> QED
        BY <4>1, <4>5, RegeneratedBilled
    <3> QED
      BY <3>1, <3>2
  <2>3. ASSUME NEW past \in BOOLEAN, regenerate(past, e)
        PROVE  \A f \in Dossier : BilledStep(f)
    <3>1. CASE past
      BY <2>3, <3>1, LateLeftOut DEF regenerate
    <3>2. CASE past = FALSE
      BY <2>3, <3>2, RegeneratedBilled DEF regenerate, Read, Committed
    <3> QED
      BY <3>1, <3>2
  <2>4. CASE change_reach(e)
    BY <2>4, <1>1 DEF change_reach
  <2>5. ASSUME NEW k \in Category, CounterStep(e, k)
        PROVE  \A f \in Dossier : BilledStep(f)
    <3>1. PICK l \in Line : Kin(line[e][k], l) /\ line' = [line EXCEPT ![e][k] = l]
      BY <2>5, CounterWrites
    <3>2. line \in [Dossier -> [Category -> Line \cup {NotSet}]]
      BY DEF GridInv, RowsTyped, Lines
    <3>3. \A f \in Dossier, j \in Category : ~(f = e /\ j = k) => line'[f][j] = line[f][j]
      BY <3>1, <3>2
    <3>4. SameLine(line[e][k], line'[e][k])
      BY <2>5, <3>1, <3>2, NoRowAssumption DEF CounterStep, Kin, SameLine
    <3>5. \A f \in Dossier : NewLines(f) = {}
      BY <3>3, <3>4 DEF NewLines, SameLine
    <3> QED
      BY <3>5, AllBilled
  <2> QED
    BY <1>2, <2>1, <2>2, <2>3, <2>4, <2>5 DEF DossierStep
<1>3. ASSUME NEW v \in Variant, GridStep(v)
      PROVE  \A f \in Dossier : BilledStep(f)
  <2>1. ASSUME NEW a \in Amount, set_price(v, a) PROVE UNCHANGED line
    BY <2>1 DEF set_price
  <2>2. CASE delete_fee_variant(v)
    BY <2>2, <1>1 DEF delete_fee_variant
  <2>3. ASSUME NEW past \in BOOLEAN, NEW cm \in BOOLEAN, apply_variant_propagation(past, v, cm)
        PROVE  \A f \in Dossier : BilledStep(f)
    <3>1. CASE past
      BY <2>3, <3>1, LateLeftOut DEF apply_variant_propagation
    <3>2. CASE past = FALSE
      BY <2>3, <3>2, PropagationBilled
    <3> QED
      BY <3>1, <3>2
  <2> QED
    BY <1>1, <1>3, <2>1, <2>2, <2>3 DEF GridStep
<1>4. get_tenant_db => UNCHANGED line
  BY DEF get_tenant_db
<1> QED
  BY <1>1, <1>2, <1>3, <1>4 DEF GridNext

\* A line that appears, unless by a late commit, is at the price and under the criteria of the
\* grid at that moment; only an enrollment may name a tariff the criteria would not choose.
THEOREM NewLinesAtTheGrid == GridSpec => BilledAsEnrolled
<1>1. GridInv /\ [GridNext]_gridvars => [\A e \in Dossier : BilledStep(e)]_gridvars
  BY BilledNow
<1> QED
  BY <1>1, GridHolds, PTL DEF GridSpec, BilledAsEnrolled, BilledStep, NewLines, AtPrice, NamedTariff, Billed

-----------------------------------------------------------------------------
(* The preview adds up. *)

\* The more specific tariff beats the other.
LEMMA SpecificBeats ==
  ASSUME NEW w, NEW v, ~(specificity(w) <= specificity(v))
  PROVE  Beats(w, v)
  BY DEF Beats, specificity, Weight

\* Two sets apart count together.
LEMMA CardOfTwo ==
  ASSUME NEW S, NEW T, IsFiniteSet(S), IsFiniteSet(T), S \cap T = {}
  PROVE  IsFiniteSet(S \cup T) /\ Cardinality(S \cup T) = Cardinality(S) + Cardinality(T)
         /\ Cardinality(S) \in Nat /\ Cardinality(T) \in Nat
<1>1. Cardinality(S) \in Nat /\ Cardinality(T) \in Nat
  BY FS_CardinalityType
<1>2. IsFiniteSet(S \cup T) /\ Cardinality(S \cup T) = Cardinality(S) + Cardinality(T) - Cardinality(S \cap T)
  BY FS_Union
<1>3. Cardinality(S \cap T) = 0
  BY FS_EmptySet, Zenon
<1> QED
  BY <1>1, <1>2, <1>3

LackTheLine(v) ==
  LET k == tariff[v].category
  IN  {e \in Dossier : /\ k \in Mandatory /\ file[e] # NotSet /\ file[e].reach = "live"
                       /\ line[e][k] = NotSet /\ Bills(grid, file[e].dims, v)}

\* A propagation creates its line where a live dossier is billed for it and lacks it.
LEMMA CreatedWhereLacking ==
  ASSUME NEW v
  PROVE  ToCreate(Committed, v) = LackTheLine(v)
<1> DEFINE k == tariff[v].category
           V(e) == {w \in Applicable(grid, file[e].dims) : tariff[w].category = k}
<1>1. ASSUME NEW e
      PROVE  v \in most_specific_variant_per_category(V(e)) <=> Bills(grid, file[e].dims, v)
  <2>1. ASSUME v \in most_specific_variant_per_category(V(e)) PROVE Bills(grid, file[e].dims, v)
    BY <2>1, BeatsIs DEF most_specific_variant_per_category, Bills
  <2>2. ASSUME Bills(grid, file[e].dims, v) PROVE v \in most_specific_variant_per_category(V(e))
    BY <2>2, SpecificBeats DEF most_specific_variant_per_category, Bills
  <2> QED
    BY <2>1, <2>2
<1> HIDE DEF V
<1>2. ToCreate(Committed, v) =
        {e \in Dossier : /\ k \in Mandatory
                         /\ file[e] # NotSet /\ file[e].reach = "live" /\ line[e][k] = NotSet
                         /\ v \in most_specific_variant_per_category(V(e))}
  BY DEF ToCreate, Committed, LineFor, V
<1> QED
  BY <1>1, <1>2 DEF LackTheLine

\* The preview counts the dossiers that lack the line and those that carry it, each once.
LEMMA PackagesAddUp ==
  ASSUME GridInv, NEW v \in Variant
  PROVE  /\ concernees(Committed, v) =
              Cardinality(LackTheLine(v)) + Cardinality({e \in Dossier : Carries(Committed, v, e)})
<1> DEFINE R == Committed
           B == {e \in Dossier : Carries(R, v, e)}
           P1 == ToUpdate(R, v)
           P2 == UpToDate(R, v)
           P3 == PaidLines(R, v)
           P4 == Discounted(R, v)
           P5 == Deposited(R, v)
<1>1. P1 \subseteq Dossier /\ P2 \subseteq Dossier /\ P3 \subseteq Dossier
      /\ P4 \subseteq Dossier /\ P5 \subseteq Dossier
  BY DEF ToUpdate, UpToDate, PaidLines, Discounted, Deposited, DueLines
<1>2. IsFiniteSet(P1) /\ IsFiniteSet(P2) /\ IsFiniteSet(P3) /\ IsFiniteSet(P4) /\ IsFiniteSet(P5)
  BY <1>1, GridAssumption, FS_Subset
<1>3. \A e \in B : LineFor(R, v, e).kept \in SUBSET {"discount", "in_kind"}
  <2>1. \A e \in B : LineFor(R, v, e) \in Line
    BY GridAssumption DEF Carries, LineFor, Committed, GridInv, RowsTyped, Lines
  <2> QED
    BY <2>1 DEF Line
<1>4. P1 \cup P2 \cup P3 = DueLines(R, v) /\ P1 \cap P2 = {} /\ (P1 \cup P2) \cap P3 = {}
  BY DEF ToUpdate, UpToDate, PaidLines
<1>5. P4 \cap DueLines(R, v) = {} /\ P5 \cap (DueLines(R, v) \cup P4) = {}
  BY DEF Discounted, Deposited, DueLines
<1>6. B = (DueLines(R, v) \cup P4) \cup P5
  BY <1>3 DEF Discounted, Deposited, DueLines
<1> HIDE DEF P1, P2, P3, P4, P5, B
<1>7. Cardinality(B) = Cardinality(P1) + Cardinality(P2) + Cardinality(P3)
                       + Cardinality(P4) + Cardinality(P5)
  <2>1. IsFiniteSet(P1 \cup P2) /\ Cardinality(P1 \cup P2) = Cardinality(P1) + Cardinality(P2)
    BY <1>2, <1>4, CardOfTwo
  <2>a. Cardinality((P1 \cup P2) \cup P3) = Cardinality(P1 \cup P2) + Cardinality(P3)
        /\ IsFiniteSet((P1 \cup P2) \cup P3)
    BY <1>2, <1>4, <2>1, CardOfTwo
  <2>2. IsFiniteSet(DueLines(R, v))
        /\ Cardinality(DueLines(R, v)) = Cardinality(P1 \cup P2) + Cardinality(P3)
    BY <1>4, <2>a
  <2>3. IsFiniteSet(DueLines(R, v) \cup P4)
        /\ Cardinality(DueLines(R, v) \cup P4) = Cardinality(DueLines(R, v)) + Cardinality(P4)
    BY <1>2, <1>5, <2>2, CardOfTwo
  <2>4. Cardinality(B) = Cardinality(DueLines(R, v) \cup P4) + Cardinality(P5)
    BY <1>2, <1>5, <1>6, <2>3, CardOfTwo
  <2> QED
    BY <2>1, <2>2, <2>3, <2>4
<1>8. IsFiniteSet(LackTheLine(v))
  BY GridAssumption, FS_Subset, LackTheLine(v) \in SUBSET Dossier DEF LackTheLine
<1>9. /\ Cardinality(P1) \in Nat /\ Cardinality(P2) \in Nat /\ Cardinality(P3) \in Nat
      /\ Cardinality(P4) \in Nat /\ Cardinality(P5) \in Nat /\ Cardinality(LackTheLine(v)) \in Nat
  BY <1>2, <1>8, FS_CardinalityType
<1>10. concernees(R, v) = Cardinality(P1) + Cardinality(LackTheLine(v)) + Cardinality(P2)
                          + Cardinality(P3) + Cardinality(P4) + Cardinality(P5)
  BY CreatedWhereLacking DEF concernees, P1, P2, P3, P4, P5
<1> QED
  BY <1>7, <1>9, <1>10 DEF B

\* What a dossier owes in money for a category.
Owes(ls, k) ==
  [e \in Dossier |-> IF ls[e][k] = NotSet \/ "in_kind" \in ls[e][k].kept THEN 0 ELSE ls[e][k].amount]

\* The debt of a category is the sum of its lines.
LEMMA DebtIs ==
  ASSUME NEW ls, NEW k, \A e \in Dossier : Owes(ls, k)[e] \in Int
  PROVE  Debt(ls, k) = SetSum(Owes(ls, k), Dossier)
<1> DEFINE w == Owes(ls, k)
           more(f, s) == IF s = {} THEN 0
                         ELSE (IF ls[CHOOSE e \in s : TRUE][k] = NotSet
                                    \/ "in_kind" \in ls[CHOOSE e \in s : TRUE][k].kept
                                 THEN 0 ELSE ls[CHOOSE e \in s : TRUE][k].amount)
                              + f[s \ {CHOOSE e \in s : TRUE}]
           F == CHOOSE f : f = [s \in SUBSET Dossier |-> more(f, s)]
<1>1. \A f, s : s \in SUBSET Dossier => more(f, s) = NextSum(f, w, s)
  BY DEF NextSum, Chosen, Owes
<1>2. w \in [Dossier -> Int]
  BY DEF Owes
<1>3. PICK g : Adds(g, w, Dossier)
  <2> HIDE DEF w, more
  <2>1. IsFiniteSet(Dossier)
    BY GridAssumption
  <2> QED
    BY <1>2, <2>1, AddsExists, Zenon
<1>4. g = [s \in SUBSET Dossier |-> more(g, s)]
  <2> HIDE DEF more
  <2> QED
    BY <1>1, <1>3 DEF Adds
<1>5. F = [s \in SUBSET Dossier |-> more(F, s)]
  <2> HIDE DEF more
  <2> QED
    BY <1>4
<1>6. Adds(F, w, Dossier)
  <2> HIDE DEF more, F
  <2> QED
    BY <1>1, <1>5 DEF Adds
<1>7. Debt(ls, k) = F[Dossier]
  BY Zenon DEF Debt, MapThenSumSet, MapThenFoldSet
<1> HIDE DEF F, w
<1>8. IsFiniteSet(Dossier) /\ (\A e \in Dossier : w[e] \in Int) /\ Dossier \subseteq Dossier
  BY <1>2, GridAssumption
<1>9. SetSum(w, Dossier) = F[Dossier]
  BY <1>6, <1>8, SetSumIs, Zenon
<1> QED
  BY <1>7, <1>9 DEF w

\* The gap the preview announces on a line to reprice.
Gap(v) == [e \in Dossier |-> IF e \in ToUpdate(Committed, v)
                               THEN grid[v] - line[e][tariff[v].category].amount ELSE 0]

\* What the preview announces is the sum of the gaps of the lines to be priced.
LEMMA DebtDeltaIs ==
  ASSUME NEW v, Gap(v) \in [Dossier -> Int]
  PROVE  debt_delta(Committed, v) = SetSum(Gap(v), Dossier)
<1> DEFINE S == ToUpdate(Committed, v)
           k == tariff[v].category
           w == Gap(v)
           more(f, s) == IF s = {} THEN 0
                         ELSE (grid[v] - line[CHOOSE e \in s : TRUE][k].amount)
                              + f[s \ {CHOOSE e \in s : TRUE}]
           F == CHOOSE f : f = [s \in SUBSET S |-> more(f, s)]
<1>1. S \in SUBSET Dossier
  BY DEF ToUpdate, DueLines
<1>2. \A f, s : s \in SUBSET S => more(f, s) = NextSum(f, w, s)
  <2> SUFFICES ASSUME NEW f, NEW s \in SUBSET S, s # {}
               PROVE  more(f, s) = NextSum(f, w, s)
    BY DEF NextSum
  <2> DEFINE c == CHOOSE e \in s : TRUE
  <2>1. c \in S /\ c \in Dossier
    BY <1>1
  <2>2. w[c] = grid[v] - line[c][k].amount
    BY <2>1 DEF Gap
  <2> HIDE DEF w, S, k
  <2> QED
    BY <2>2 DEF NextSum, Chosen
<1>3. IsFiniteSet(Dossier) /\ IsFiniteSet(S) /\ (\A e \in S : w[e] \in Int) /\ S \subseteq S
  <2>1. IsFiniteSet(S)
    BY <1>1, GridAssumption, FS_Subset
  <2> HIDE DEF S
  <2> QED
    BY <1>1, <2>1, GridAssumption
<1>4. PICK g : Adds(g, [e \in S |-> w[e]], S)
  <2>1. [e \in S |-> w[e]] \in [S -> Int]
    BY <1>3
  <2> HIDE DEF w, more, S
  <2> QED
    BY <1>3, <2>1, AddsExists, Zenon
<1>5. g = [s \in SUBSET S |-> more(g, s)]
  <2>1. \A s \in SUBSET S : NextSum(g, [e \in S |-> w[e]], s) = NextSum(g, w, s)
    <3> HIDE DEF w, S
    <3> QED
      BY DEF NextSum, Chosen
  <2> HIDE DEF more, w, S
  <2> QED
    BY <1>2, <1>4, <2>1 DEF Adds
<1>6. F = [s \in SUBSET S |-> more(F, s)]
  <2> HIDE DEF more, S
  <2> QED
    BY <1>5
<1>7. Adds(F, w, S)
  <2> HIDE DEF more, F, S, w
  <2> QED
    BY <1>2, <1>6 DEF Adds
<1>8. debt_delta(Committed, v) = F[S]
  BY Zenon DEF debt_delta, MapThenSumSet, MapThenFoldSet, Committed, LineFor
<1>9. SetSum(w, S) = F[S]
  <2> HIDE DEF more, F, S, w
  <2> QED
    BY <1>3, <1>7, SetSumIs, Zenon
<1>10. SetSum(w, Dossier) = SetSum(w, S)
  <2>1. (\A e \in Dossier : w[e] \in Int) /\ (\A e \in Dossier \ S : w[e] = 0)
    BY DEF Gap
  <2> HIDE DEF F, S, w
  <2> QED
    BY <1>1, <1>3, <2>1, SetSumPart, Zenon
<1> QED
  BY <1>8, <1>9, <1>10

\* The preview tells what the propagation would do.
LEMMA PreviewTells ==
  ASSUME GridInv
  PROVE  PreviewAddsUp
<1> SUFFICES ASSUME NEW v \in Entered(grid)
    PROVE  LET k == tariff[v].category
           IN  /\ concernees(Committed, v) =
                    Cardinality(LackTheLine(v)) + Cardinality({e \in Dossier : Carries(Committed, v, e)})
               /\ Debt(Propagated(Committed, v, FALSE), k) - Debt(line, k) = debt_delta(Committed, v)
               /\ Debt(Propagated(Committed, v, TRUE), k) - Debt(line, k)
                    = debt_delta(Committed, v) + ecart_des_creations(Committed, v)
  BY Zenon DEF PreviewAddsUp, LackTheLine
<1> DEFINE k == tariff[v].category
           w0 == Owes(line, k)
           w1 == Owes(Propagated(Committed, v, FALSE), k)
           w2 == Owes(Propagated(Committed, v, TRUE), k)
           gap == Gap(v)
           new == [e \in Dossier |-> IF e \in ToCreate(Committed, v) THEN grid[v] ELSE 0]
<1>0. \A a \in Amount : a \in Int
  BY GridAssumption
<1>1. v \in Variant /\ grid[v] \in Amount /\ grid[v] \in Int /\ k \in Category
  <2>1. v \in Variant /\ grid[v] \in Amount
    BY DEF Entered
  <2> QED
    BY <1>0, <2>1, GridAssumption
<1>2. ASSUME NEW e \in Dossier
      PROVE  /\ line[e] \in Lines /\ line[e][k] \in Line \cup {NotSet}
             /\ line[e][k] # NotSet => line[e][k] \in Line /\ line[e][k].amount \in Int
             /\ Propagated(Committed, v, FALSE)[e][k] =
                  IF e \in ToUpdate(Committed, v) THEN [line[e][k] EXCEPT !.amount = grid[v]]
                  ELSE line[e][k]
             /\ Propagated(Committed, v, TRUE)[e][k] =
                  IF e \in ToUpdate(Committed, v) THEN [line[e][k] EXCEPT !.amount = grid[v]]
                  ELSE IF e \in ToCreate(Committed, v) THEN NewLine(v, grid)
                  ELSE line[e][k]
  <2>1. line[e] \in Lines
    BY DEF GridInv, RowsTyped
  <2>2. line[e][k] \in Line \cup {NotSet}
    BY <1>1, <2>1 DEF Lines
  <2>3. line[e][k] # NotSet => line[e][k].amount \in Int
    BY <1>0, <2>2 DEF Line
  <2>4. ASSUME NEW cm \in BOOLEAN
        PROVE  Propagated(Committed, v, cm)[e][k] =
                 IF e \in ToUpdate(Committed, v) THEN [line[e][k] EXCEPT !.amount = grid[v]]
                 ELSE IF cm /\ e \in ToCreate(Committed, v) THEN NewLine(v, grid)
                 ELSE line[e][k]
    <3>1. Propagated(Committed, v, cm)[e] = [line[e] EXCEPT ![k] =
            IF e \in ToUpdate(Committed, v) THEN [line[e][k] EXCEPT !.amount = grid[v]]
            ELSE IF cm /\ e \in ToCreate(Committed, v) THEN NewLine(v, grid)
            ELSE line[e][k]]
      BY DEF Propagated, Committed
    <3> QED
      BY <1>1, <2>1, <3>1 DEF Lines
  <2>5. /\ Propagated(Committed, v, FALSE)[e][k] =
             IF e \in ToUpdate(Committed, v) THEN [line[e][k] EXCEPT !.amount = grid[v]]
             ELSE line[e][k]
        /\ Propagated(Committed, v, TRUE)[e][k] =
             IF e \in ToUpdate(Committed, v) THEN [line[e][k] EXCEPT !.amount = grid[v]]
             ELSE IF e \in ToCreate(Committed, v) THEN NewLine(v, grid)
             ELSE line[e][k]
    BY <2>4
  <2> QED
    BY <2>1, <2>2, <2>3, <2>5
<1>3. ASSUME NEW e \in ToUpdate(Committed, v)
      PROVE  /\ e \in Dossier /\ line[e][k] # NotSet /\ line[e][k].kept = {}
             /\ [line[e][k] EXCEPT !.amount = grid[v]] # NotSet
             /\ [line[e][k] EXCEPT !.amount = grid[v]].kept = {}
             /\ [line[e][k] EXCEPT !.amount = grid[v]].amount = grid[v]
  <2>1. e \in Dossier /\ line[e][k] # NotSet /\ line[e][k].kept = {}
    BY DEF ToUpdate, DueLines, Carries, LineFor, Committed
  <2>2. line[e][k] \in Line
    BY <1>2, <2>1
  <2>3. [line[e][k] EXCEPT !.amount = grid[v]] \in Line
    BY <1>1, <2>2 DEF Line
  <2>4. /\ [line[e][k] EXCEPT !.amount = grid[v]].kept = {}
        /\ [line[e][k] EXCEPT !.amount = grid[v]].amount = grid[v]
    BY <2>1, <2>2 DEF Line
  <2> QED
    BY <2>1, <2>3, <2>4, NoRowAssumption
<1>4. ASSUME NEW e \in ToCreate(Committed, v)
      PROVE  /\ e \in Dossier /\ line[e][k] = NotSet
             /\ NewLine(v, grid).kept = {} /\ NewLine(v, grid).amount = grid[v]
  BY DEF ToCreate, LineFor, Committed, NewLine
<1>5. NewLine(v, grid) # NotSet
  <2>1. NewLine(v, grid) \in Line
    BY <1>1 DEF NewLine, Line, GridInv
  <2> QED
    BY <2>1, NoRowAssumption
<1>6. ASSUME NEW e \in Dossier
      PROVE  /\ w0[e] \in Int /\ gap[e] \in Int /\ new[e] \in Int
             /\ w1[e] = w0[e] + gap[e] /\ w2[e] = w1[e] + new[e] /\ w1[e] \in Int /\ w2[e] \in Int
  <2> DEFINE l == line[e][k]
             p1 == Propagated(Committed, v, FALSE)
             p2 == Propagated(Committed, v, TRUE)
  <2>1. /\ w0[e] = IF l = NotSet \/ "in_kind" \in l.kept THEN 0 ELSE l.amount
        /\ w1[e] = IF p1[e][k] = NotSet \/ "in_kind" \in p1[e][k].kept THEN 0 ELSE p1[e][k].amount
        /\ w2[e] = IF p2[e][k] = NotSet \/ "in_kind" \in p2[e][k].kept THEN 0 ELSE p2[e][k].amount
        /\ gap[e] = IF e \in ToUpdate(Committed, v) THEN grid[v] - l.amount ELSE 0
        /\ new[e] = IF e \in ToCreate(Committed, v) THEN grid[v] ELSE 0
    BY DEF Owes, Gap
  <2>2. l # NotSet => l.amount \in Int
    BY <1>2
  <2>3. CASE e \in ToUpdate(Committed, v)
    <3>1. l # NotSet /\ l.kept = {}
      BY <1>3, <2>3
    <3>2. e \notin ToCreate(Committed, v)
      BY <1>4, <3>1
    <3> DEFINE m == [l EXCEPT !.amount = grid[v]]
    <3>3. m # NotSet /\ m.kept = {} /\ m.amount = grid[v] /\ p1[e][k] = m /\ p2[e][k] = m
      BY <1>2, <1>3, <2>3
    <3> HIDE DEF m, l, p1, p2, w0, w1, w2, gap, new
    <3>4. w0[e] = l.amount /\ w1[e] = grid[v] /\ w2[e] = grid[v] /\ gap[e] = grid[v] - l.amount /\ new[e] = 0
      BY <2>1, <2>3, <3>1, <3>2, <3>3
    <3> QED
      BY <1>1, <2>2, <3>1, <3>4
  <2>4. CASE e \notin ToUpdate(Committed, v) /\ e \in ToCreate(Committed, v)
    <3>1. p1[e][k] = l /\ l = NotSet /\ p2[e][k] = NewLine(v, grid)
      BY <1>2, <1>4, <2>4
    <3>2. NewLine(v, grid).kept = {} /\ NewLine(v, grid).amount = grid[v]
      BY <1>4, <2>4
    <3> HIDE DEF l, p1, p2, w0, w1, w2, gap, new
    <3>3. w0[e] = 0 /\ w1[e] = 0 /\ w2[e] = grid[v] /\ gap[e] = 0 /\ new[e] = grid[v]
      BY <1>5, <2>1, <2>4, <3>1, <3>2
    <3> QED
      BY <1>1, <3>3
  <2>5. CASE e \notin ToUpdate(Committed, v) /\ e \notin ToCreate(Committed, v)
    <3>1. p1[e][k] = l /\ p2[e][k] = l
      BY <1>2, <2>5
    <3> HIDE DEF l, p1, p2, w0, w1, w2, gap, new
    <3>2. w1[e] = w0[e] /\ w2[e] = w0[e] /\ gap[e] = 0 /\ new[e] = 0
      BY <2>1, <2>5, <3>1
    <3>3. w0[e] \in Int
      BY <2>1, <2>2
    <3> QED
      BY <3>2, <3>3
  <2> QED
    BY <2>3, <2>4, <2>5
<1>7. IsFiniteSet(Dossier)
  BY GridAssumption
<1>8. gap \in [Dossier -> Int]
  BY <1>6 DEF Gap
<1> DEFINE S0 == SetSum(w0, Dossier)
           S1 == SetSum(w1, Dossier)
           S2 == SetSum(w2, Dossier)
           G == SetSum(gap, Dossier)
           N == SetSum(new, Dossier)
<1>9. Debt(line, k) = S0 /\ Debt(Propagated(Committed, v, FALSE), k) = S1
      /\ Debt(Propagated(Committed, v, TRUE), k) = S2
  BY <1>6, DebtIs
<1>10. debt_delta(Committed, v) = G
  BY <1>8, DebtDeltaIs
<1>11. S1 = S0 + G /\ S2 = S1 + N /\ S0 \in Int /\ G \in Int /\ N \in Int
  <2> HIDE DEF w0, w1, w2, gap, new
  <2> QED
    BY <1>6, <1>7, SetSumPlus, SetSumType
<1>12. N = ecart_des_creations(Committed, v)
  <2> DEFINE C == ToCreate(Committed, v)
  <2>1. C \in SUBSET Dossier /\ (\A e \in C : new[e] = grid[v]) /\ (\A e \in Dossier \ C : new[e] = 0)
    BY DEF ToCreate
  <2>2. IsFiniteSet(C)
    BY <1>7, <2>1, FS_Subset
  <2>3. SetSum(new, C) = grid[v] * Cardinality(C)
    <3> HIDE DEF new, C
    <3> QED
      BY <1>1, <2>1, <2>2, SetSumConst
  <2>4. N = SetSum(new, C)
    <3> HIDE DEF new, C
    <3> QED
      BY <1>6, <1>7, <2>1, SetSumPart
  <2> QED
    BY <2>3, <2>4 DEF ecart_des_creations, Committed
<1>13. concernees(Committed, v) =
         Cardinality(LackTheLine(v)) + Cardinality({e \in Dossier : Carries(Committed, v, e)})
  BY <1>1, PackagesAddUp
<1> HIDE DEF S0, S1, S2, G, N
<1>14. S1 - S0 = G /\ S2 - S0 = G + N
  BY <1>11
<1>15. /\ Debt(Propagated(Committed, v, FALSE), k) - Debt(line, k) = debt_delta(Committed, v)
       /\ Debt(Propagated(Committed, v, TRUE), k) - Debt(line, k)
            = debt_delta(Committed, v) + ecart_des_creations(Committed, v)
  BY <1>9, <1>10, <1>12, <1>14
<1> QED
  BY <1>13, <1>15

\* Counts and debt announced before a propagation are those it brings when nothing moves in
\* between, for any grid, dossiers and lines.
THEOREM PreviewIsExact == GridSpec => []PreviewAddsUp
  BY GridHolds, PreviewTells, PTL

-----------------------------------------------------------------------------
(* The services together: MCServices runs one of the six, the others rest.      *)

\* A behaviour of MCServices starts each of the services in one of its own first states.
LEMMA EachStarts ==
  Init => SealInit /\ HandoffInit /\ EnrolInit /\ GridInit /\ WeekInit /\ CouncilInit
  BY DEF Init

\* Whatever service a step belongs to, it is a step of that service and a stutter of the
\* five others.
LEMMA EachSteps ==
  [Next]_vars =>
    /\ [SealNext]_sealvars /\ [HandoffNext]_handoffvars /\ [EnrolNext]_enrolvars
    /\ [GridNext]_gridvars /\ [WeekNext]_weekvars /\ [CouncilNext]_councilvars
<1> SUFFICES ASSUME [Next]_vars
             PROVE  /\ [SealNext]_sealvars /\ [HandoffNext]_handoffvars /\ [EnrolNext]_enrolvars
                    /\ [GridNext]_gridvars /\ [WeekNext]_weekvars /\ [CouncilNext]_councilvars
  OBVIOUS
<1>1. CASE UNCHANGED vars
  BY <1>1 DEF vars
<1>2. CASE Next
  BY <1>2 DEF Next
<1> QED
  BY <1>1, <1>2

\* What MCServices runs is each of the six services, so that what is proved of one of them
\* holds in the behaviours its run checks.
THEOREM ServicesRunAsProved ==
  Spec => /\ SealSpec /\ EnrolSpec /\ GridSpec /\ WeekSpec /\ CouncilSpec
          /\ HandoffInit /\ [][HandoffNext]_handoffvars
  BY EachStarts, EachSteps, PTL
  DEF Spec, SealSpec, EnrolSpec, GridSpec, WeekSpec, CouncilSpec

\* The rows, the sessions, the tasks and the papers of the six services keep their types in
\* every behaviour of MCServices.
THEOREM ServicesTyped == Spec => []ServicesTypeOK
<1>1. HandoffInv /\ [HandoffNext]_handoffvars => HandoffInv'
  BY HandoffStep
<1>2. HandoffInv => HandoffTypeOK
  BY DEF HandoffInv, HandoffTyped, HandoffTypeOK, Upload, ScreenWork, Requests, Rest
<1>3. SealTypeOK /\ HandoffTypeOK /\ EnrolTypeOK /\ GridTypeOK /\ WeekTypeOK /\ CouncilTypeOK
      => ServicesTypeOK
  BY DEF ServicesTypeOK
<1> QED
  BY ServicesRunAsProved, SealTypes, DossierTypes, GridTypes, WeekTypes, CouncilTypes,
     HandoffInitInv, <1>1, <1>2, <1>3, PTL
=============================================================================
