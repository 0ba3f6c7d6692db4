---------------------------- MODULE SealLineage ----------------------------
(***************************************************************************)
(* The register of institutional seals: the revisions of ONE document (one  *)
(* type and reference), from the pending row to the sealed PDF.             *)
(*                                                                         *)
(* A request issues a pending row in one transaction, renders the PDF       *)
(* outside any transaction, and finalizes in a second one; anything may      *)
(* happen in between: another request, a takeover of a row that has been     *)
(* pending for too long, the death of the process.  Both transactions lock   *)
(* the rows they decide on (SELECT ... FOR UPDATE on the whole lineage), so  *)
(* each is one step.  Two first issues at once collide on the unique key     *)
(* (type, reference, revision): the loser rolls back and starts again, which *)
(* is an Issue after the winner's.  A revocation reads the row by its code   *)
(* first and is never refreshed when the row is locked: two steps.           *)
(***************************************************************************)
EXTENDS Naturals, Sequences, FiniteSets

CONSTANTS Request,        \* document requests (worker slots)
          Revoker,        \* members of staff who revoke seals
          Facts,          \* what a document says (SealFacts); equality is facts.matches
          Expires,        \* TRUE: sealed for a time; FALSE: a bulletin, without expiry
          StaleAfter,     \* _STALE_PENDING_AFTER, in ticks
          Validity,       \* how long a seal stands, in ticks
          MaxRevision,    \* bound: revisions of the document
          MaxClock,       \* bound: the clock
          None            \* the null of the database

\* A PDF is known by the code printed on it and by what it says.
PDF == [code : 1..MaxRevision, says : Facts]

ASSUME SealAssumption ==
  /\ Expires \in BOOLEAN
  /\ StaleAfter \in Nat \ {0} /\ Validity \in Nat \ {0}
  /\ MaxRevision \in Nat /\ MaxClock \in Nat
  /\ Facts # {} /\ None \notin PDF

VARIABLES clock,          \* the time, in ticks
          row,            \* row[i]: revision i of the document
          work,           \* work[r]: what request r is doing
          revoking,       \* revoking[v]: the row v has read, as it read it
          delivered       \* the PDF handed out so far, with the revision they are sealed by

sealvars == <<clock, row, work, revoking, delivered>>

-----------------------------------------------------------------------------
Statuses == {"pending", "active", "revoked", "superseded", "failed"}

\* KSI2 rows carry the bytes they seal; KCEV1 rows, from before the migration, do not.
DocumentIssuance ==
  [scheme : {"KCEV1", "KSI2"}, status : Statuses, facts : Facts, made : Nat,
   pdf : PDF \cup {None}]

Revisions == DOMAIN row
Standing  == {i \in Revisions : row[i].status = "active"}
Resting   == [pc |-> "idle"]

\* Expiry is computed when a seal is read, never stored.
effective_status(i) ==
  IF row[i].status = "active" /\ Expires /\ clock >= row[i].made + Validity
  THEN "expired" ELSE row[i].status

\* The newest row of a set, the first the descending SELECT returns.
Newest(I) == CHOOSE i \in I : \A j \in I : j <= i

\* The migration numbers the old rows of a document; only its last one is active.
Migrated(n) ==
  [i \in 1..n |-> [scheme |-> "KCEV1", status |-> IF i = n THEN "active" ELSE "superseded",
                   facts |-> CHOOSE f \in Facts : TRUE, made |-> 0, pdf |-> None]]

SealInit ==
  /\ clock = 0
  /\ \E n \in {0, 1} : n <= MaxRevision /\ row = Migrated(n)
  /\ work = [r \in Request |-> Resting]
  /\ revoking = [v \in Revoker |-> Resting]
  /\ delivered = {}

-----------------------------------------------------------------------------
(* Issue.                                                                   *)

\* The newest active KSI2 row, when its PDF says what is asked and has not expired.
CurrentActive == {i \in Standing : row[i].scheme = "KSI2"}

\* Mutant: the scheme and the bytes of the row are not looked at.
reusable_any_scheme(i, f) ==
  /\ Standing # {} /\ i = Newest(Standing)
  /\ effective_status(i) = "active" /\ row[i].facts = f

\* Mutant: any active row will do, whatever it says.
reusable_any_facts(i, f) ==
  /\ CurrentActive # {} /\ i = Newest(CurrentActive)
  /\ row[i].pdf # None /\ effective_status(i) = "active"

Reusable(i, f) ==
  /\ CurrentActive # {} /\ i = Newest(CurrentActive)
  /\ row[i].pdf # None /\ effective_status(i) = "active" /\ row[i].facts = f

Pending == {i \in Revisions : row[i].status = "pending"}

\* A row pending for less than StaleAfter belongs to a request still rendering.
Fresh(i) == row[i].made + StaleAfter > clock

\* _guard_pending looks at the newest pending row, if it is of the current scheme.
Blocking(i) == Pending # {} /\ i = Newest(Pending) /\ row[i].scheme = "KSI2"

\* It refuses while that row is fresh, else fails it and takes over.
MayIssue == \A i \in Revisions : Blocking(i) => ~Fresh(i)

issue_document(r, f) ==
  /\ work[r].pc = "idle"
  /\ IF \E i \in Revisions : Reusable(i, f)
     THEN /\ \E i \in Revisions :
               Reusable(i, f) /\ delivered' = delivered \cup {[asked |-> f, pdf |-> row[i].pdf]}
          /\ UNCHANGED <<row, work>>
     ELSE /\ MayIssue
          /\ Len(row) < MaxRevision
          /\ row' = Append([i \in Revisions |->
                              IF Blocking(i) THEN [row[i] EXCEPT !.status = "failed"]
                              ELSE row[i]],
                           [scheme |-> "KSI2", status |-> "pending", facts |-> f,
                            made |-> clock, pdf |-> None])
          /\ work' = [work EXCEPT ![r] = [pc |-> "rendering", rev |-> Len(row) + 1]]
          /\ UNCHANGED delivered
  /\ UNCHANGED <<clock, revoking>>

-----------------------------------------------------------------------------
(* Finalize.  The PDF carries the code of its row and says its facts.       *)

\* reject_if_newer_revision.
Overtaken(i) == \E j \in Revisions : j > i /\ row[j].status \in {"pending", "active"}

\* lock_active_revisions: the active rows of the lineage but this one.
Superseded(i) == Standing \ {i}

\* Mutant: the status of the row is not looked at.
finalizable_any(i) == TRUE

Finalizable(i) == row[i].status = "pending"

\* The transaction that seals; a row no longer pending, or overtaken, is refused.
finalize_document(r) ==
  /\ work[r].pc = "rendering"
  /\ LET i   == work[r].rev
         pdf == [code |-> i, says |-> row[i].facts]
     IN  IF Finalizable(i) /\ ~Overtaken(i)
         THEN /\ row' = [j \in Revisions |->
                           IF j = i THEN [row[j] EXCEPT !.status = "active", !.pdf = pdf]
                           ELSE IF j \in Superseded(i)
                           THEN [row[j] EXCEPT !.status = "superseded"] ELSE row[j]]
              /\ work' = [work EXCEPT ![r].pc = "sealed"]
         ELSE /\ row' = IF Finalizable(i) THEN [row EXCEPT ![i].status = "superseded"] ELSE row
              /\ work' = [work EXCEPT ![r] = Resting]
  /\ UNCHANGED <<clock, revoking, delivered>>

\* The bytes reach the user after the commit.
deliver(r) ==
  /\ work[r].pc = "sealed"
  /\ delivered' = delivered \cup
       {[asked |-> row[work[r].rev].facts,
         pdf |-> [code |-> work[r].rev, says |-> row[work[r].rev].facts]]}
  /\ work' = [work EXCEPT ![r] = Resting]
  /\ UNCHANGED <<clock, row, revoking>>

\* Mutant: the cleanup closes the row whatever became of it.
closes_any_row(i) == TRUE

\* mark_document_failed rereads the row and closes it only if it is still pending.
ClosesRow(i) == row[i].status = "pending"

\* The rendering, the sealing or the answer fails, or the request is cancelled.
render_fails(r) ==
  /\ work[r].pc # "idle"
  /\ LET i == work[r].rev IN
       row' = IF ClosesRow(i) THEN [row EXCEPT ![i].status = "failed"] ELSE row
  /\ work' = [work EXCEPT ![r] = Resting]
  /\ UNCHANGED <<clock, revoking, delivered>>

\* The process dies: nobody closes the row.
crash(r) ==
  /\ work[r].pc # "idle"
  /\ work' = [work EXCEPT ![r] = Resting]
  /\ UNCHANGED <<clock, row, revoking, delivered>>

-----------------------------------------------------------------------------
(* Revoke.                                                                  *)

\* get_issuance_by_code: a row that is not active in the snapshot is refused later.
find_seal(v, i) ==
  /\ revoking[v].pc = "idle" /\ row[i].status = "active"
  /\ revoking' = [revoking EXCEPT ![v] = [pc |-> "read", rev |-> i]]
  /\ UNCHANGED <<clock, row, work, delivered>>

\* The row is locked, but the status tested is the one read before.
revoke_document(v) ==
  /\ revoking[v].pc = "read"
  /\ row' = [row EXCEPT ![revoking[v].rev].status = "revoked"]
  /\ revoking' = [revoking EXCEPT ![v] = Resting]
  /\ UNCHANGED <<clock, work, delivered>>

tick ==
  /\ clock < MaxClock
  /\ clock' = clock + 1
  /\ UNCHANGED <<row, work, revoking, delivered>>

SealNext ==
  \/ \E r \in Request : \/ \E f \in Facts : issue_document(r, f)
                        \/ finalize_document(r)
                        \/ deliver(r)
                        \/ render_fails(r)
                        \/ crash(r)
  \/ \E v \in Revoker : \/ \E i \in Revisions : find_seal(v, i)
                        \/ revoke_document(v)
  \/ tick

SealSpec == SealInit /\ [][SealNext]_sealvars

-----------------------------------------------------------------------------
(* Properties.                                                              *)

Working == [pc : {"rendering", "sealed"}, rev : 1..MaxRevision]

\* Every row has the columns of a DocumentIssuance, a request works on a row that exists,
\* and what is handed out is a PDF.
SealTypeOK ==
  /\ clock \in 0..MaxClock
  /\ row \in Seq(DocumentIssuance) /\ Len(row) <= MaxRevision
  /\ work \in [Request -> {Resting} \cup Working]
  /\ revoking \in [Revoker -> {Resting} \cup [pc : {"read"}, rev : 1..MaxRevision]]
  /\ \A r \in Request : work[r] # Resting => work[r].rev \in Revisions
  /\ \A v \in Revoker : revoking[v] # Resting => revoking[v].rev \in Revisions
  /\ delivered \subseteq [asked : Facts, pdf : PDF]

\* A row that was a document once: sealed, or issued before the migration.
Published(i) == row[i].scheme = "KCEV1" \/ row[i].pdf # None

\* The last document published stands, unless it was revoked, and it is the only one that
\* stands: a slow or stale generation never comes back over a newer one, no seal of an
\* older copy, KCEV1 included, stays valid, and none is superseded by nothing.
OnlyTheLastStands ==
  \A i \in Revisions : Published(i) =>
    IF \E j \in Revisions : j > i /\ Published(j)
    THEN row[i].status \in {"superseded", "revoked"}
    ELSE row[i].status \in {"active", "revoked"}

\* A PDF in the hands of a family says what was asked, and its code finds a row that is
\* still, and for ever, the row of those very bytes: never a pending or a failed one.
HandedOutIsSealed ==
  \A d \in delivered :
    /\ d.pdf.says = d.asked
    /\ d.pdf.code \in Revisions /\ row[d.pdf.code].pdf = d.pdf
    /\ row[d.pdf.code].status \in {"active", "superseded", "revoked"}

\* Whatever requests, cleanups and revocations overlap, a revoked seal never comes back, a
\* failed one is never sealed, and the bytes under a seal never change.
VerdictsAreFinal ==
  [][\A i \in Revisions :
       /\ row[i].status \in {"revoked", "failed"} => row'[i].status = row[i].status
       /\ row[i].pdf # None => row'[i].pdf = row[i].pdf]_sealvars

\* The copies published so far, and 0; the last of them, as the abstract specification
\* counts it.
Known == {0} \cup {i \in Revisions : Published(i)}
LastPublished == Newest(Known)

P == INSTANCE Publication WITH last <- LastPublished, valid <- Standing

\* Locks, takeovers, dead processes and stale revocations amount to this: one document is
\* published copy after copy, and at most its last copy is in force.
ImplementsPublication == P!Spec
=============================================================================
