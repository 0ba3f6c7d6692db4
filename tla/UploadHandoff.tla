--------------------------- MODULE UploadHandoff ---------------------------
(***************************************************************************)
(* A deposit session: an operator shows a code, a phone deposits a photo in   *)
(* a staging directory, the operator confirms, takes it again or revokes.     *)
(*                                                                         *)
(* The session is a hash in Redis that expires at an absolute deadline; its   *)
(* state changes only in Lua scripts, one step each.  The staged file is on    *)
(* disk, shared with the worker that sweeps it by age.  Every operator         *)
(* request loads the session first, then acts on what it loaded: load, script, *)
(* promotion, record and file removal are separate steps, and a process may    *)
(* die between any two.                                                      *)
(***************************************************************************)
EXTENDS Integers, FiniteSets

CONSTANTS Phone,          \* phones that scanned the code
          Screen,         \* requests of the operator (two tabs, two clicks)
          File,           \* names of staged files; each is given out once
          TTL,            \* SESSION_TTL_SECONDS, in ticks
          MAX_RETAKES,
          Drift,          \* how far the worker's clock may be from the backend's
          MaxUpload,      \* bound: how long a phone's upload lasts
          MaxNow,         \* bound: the clock
          Nothing         \* no file

ASSUME HandoffAssumption ==
  /\ TTL \in Nat \ {0} /\ MAX_RETAKES \in Nat /\ MaxUpload \in Nat /\ MaxNow \in Nat
  /\ Drift \in 0..TTL
  /\ Nothing \notin File

VARIABLES now,            \* the backend's clock
          session,        \* the hash in Redis
          staged,         \* staged[f]: a file of the staging directory
          phone,          \* phone[p]: what an upload is doing
          screen,         \* screen[o]: what an operator's request is doing
          recorded        \* the files confirmed and written on the record

handoffvars == <<now, session, staged, phone, screen, recorded>>

-----------------------------------------------------------------------------
AGE_MAXIMAL == 2 * TTL

Deadline == TTL                       \* opened at 0; a retake does not postpone it
Waiting(x) == x.pc = "idle"
Rest == [pc |-> "idle"]

States == {"open", "receiving", "proposed", "done", "gone"}
Gone   == [state |-> "gone", retakes |-> 0, file |-> Nothing]

\* The session once opened; expired, closed and never opened look the same.
HandoffInit ==
  /\ now = 0
  /\ session = [state |-> "open", retakes |-> MAX_RETAKES, file |-> Nothing]
  /\ staged = [f \in File |-> [on |-> FALSE, mtime |-> 0, used |-> FALSE]]
  /\ phone = [p \in Phone |-> Rest]
  /\ screen = [o \in Screen |-> Rest]
  /\ recorded = {}

Unlinked(f) == IF f = Nothing THEN staged ELSE [staged EXCEPT ![f].on = FALSE]

-----------------------------------------------------------------------------
(* The scripts.  On a key that has expired HGET answers nil: they refuse.    *)

\* Mutant: the new state is written without looking at the old one.
transition_blind(from, to) == session' = [session EXCEPT !.state = to]

\* _TRANSITION_SCRIPT.
Transition(from, to) ==
  session.state = from /\ session' = [session EXCEPT !.state = to]

\* _DEPOT_SCRIPT: the state and the file at once.
Deposit(f) ==
  /\ session.state = "receiving"
  /\ session' = [session EXCEPT !.state = "proposed", !.file = f]

\* Mutant: the credit is not looked at.
reprise_unlimited ==
  /\ session.state = "proposed"
  /\ session' = [session EXCEPT !.state = "open", !.retakes = @ - 1]

\* _REPRISE_SCRIPT: the credit and the state at once.
Reprise ==
  /\ session.state = "proposed" /\ session.retakes > 0
  /\ session' = [session EXCEPT !.state = "open", !.retakes = @ - 1]

-----------------------------------------------------------------------------
(* The phone: receive_deposit.                                              *)

claim_for_upload(p) ==
  /\ Waiting(phone[p])
  /\ Transition("open", "receiving")
  /\ phone' = [phone EXCEPT ![p] = [pc |-> "sending", since |-> now]]
  /\ UNCHANGED <<now, staged, screen, recorded>>

\* write_staged: a new name, the date of the backend.
write_staged(p) ==
  /\ phone[p].pc = "sending"
  /\ \E f \in File :
       /\ ~staged[f].used
       /\ staged' = [staged EXCEPT ![f] = [on |-> TRUE, mtime |-> now, used |-> TRUE]]
       /\ phone' = [phone EXCEPT ![p] = [pc |-> "written", file |-> f, since |-> now]]
  /\ UNCHANGED <<now, session, screen, recorded>>

\* The upload is cut, or the bytes are not what they claim: release_claim.
upload_fails(p) ==
  /\ phone[p].pc = "sending"
  /\ IF session.state = "receiving" THEN Transition("receiving", "open")
     ELSE UNCHANGED session
  /\ phone' = [phone EXCEPT ![p] = Rest]
  /\ UNCHANGED <<now, staged, screen, recorded>>

\* mark_proposed; when it is refused the file stays where it is.
mark_proposed(p) ==
  /\ phone[p].pc = "written"
  /\ Deposit(phone[p].file) \/ (session.state # "receiving" /\ UNCHANGED session)
  /\ phone' = [phone EXCEPT ![p] = Rest]
  /\ UNCHANGED <<now, staged, screen, recorded>>

-----------------------------------------------------------------------------
(* The operator: load_for_operator, then one of three requests.              *)

load_for_operator(o, request) ==
  /\ Waiting(screen[o]) /\ session.state # "gone"
  /\ screen' = [screen EXCEPT ![o] = [pc |-> request, file |-> session.file]]
  /\ UNCHANGED <<now, session, staged, phone, recorded>>

Ends(o) == screen' = [screen EXCEPT ![o] = Rest]

\* confirm_session, first the state: the second click is refused here.
confirm_claims(o) ==
  /\ screen[o].pc = "confirm"
  /\ \/ /\ Transition("proposed", "done")
        /\ screen' = [screen EXCEPT ![o].pc = "promote"]
     \/ /\ session.state # "proposed"
        /\ Ends(o) /\ UNCHANGED session
  /\ UNCHANGED <<now, staged, phone, recorded>>

\* promote_staged: the bytes are copied out, then the staged file goes.
promote(o) ==
  /\ screen[o].pc = "promote"
  /\ LET f == screen[o].file IN
       /\ f # Nothing /\ staged[f].on
       /\ staged' = Unlinked(f)
       /\ screen' = [screen EXCEPT ![o].pc = "record"]
  /\ UNCHANGED <<now, session, phone, recorded>>

\* No file, or a full disk: the session goes back to the operator.
promote_fails(o) ==
  /\ screen[o].pc = "promote"
  /\ Transition("done", "proposed") \/ (session.state # "done" /\ UNCHANGED session)
  /\ Ends(o)
  /\ UNCHANGED <<now, staged, phone, recorded>>

\* target.finalise writes the record and commits; a failure leaves the session done.
finalise(o) ==
  /\ screen[o].pc = "record"
  /\ \/ /\ recorded' = recorded \cup {screen[o].file}
        /\ screen' = [screen EXCEPT ![o].pc = "close"]
     \/ Ends(o) /\ UNCHANGED recorded
  /\ UNCHANGED <<now, session, staged, phone>>

\* close_session: the file as loaded, then the key.
close_session(o) ==
  /\ screen[o].pc \in {"close", "revoke"}
  /\ staged' = Unlinked(screen[o].file)
  /\ session' = Gone
  /\ Ends(o)
  /\ UNCHANGED <<now, phone, recorded>>

\* request_retake, first the script, then the file that was loaded.
request_retake(o) ==
  /\ screen[o].pc = "retake"
  /\ \/ Reprise /\ screen' = [screen EXCEPT ![o].pc = "forget"]
     \/ /\ session.state # "proposed" \/ session.retakes = 0
        /\ Ends(o) /\ UNCHANGED session
  /\ UNCHANGED <<now, staged, phone, recorded>>

forget_file(o) ==
  /\ screen[o].pc = "forget"
  /\ staged' = Unlinked(screen[o].file)
  /\ Ends(o)
  /\ UNCHANGED <<now, session, phone, recorded>>

-----------------------------------------------------------------------------
(* Time, crashes, the sweep.                                                *)

\* Redis drops the key at its deadline.  No upload outlasts MaxUpload.
tick_handoff ==
  /\ now < MaxNow
  /\ \A p \in Phone : phone[p].pc # "idle" => now < phone[p].since + MaxUpload
  /\ now' = now + 1
  /\ session' = IF now + 1 >= Deadline THEN Gone ELSE session
  /\ UNCHANGED <<staged, phone, screen, recorded>>

\* The process serving the phone, or the operator, dies.
backend_dies ==
  /\ \/ \E p \in Phone : ~Waiting(phone[p]) /\ phone' = [phone EXCEPT ![p] = Rest]
                         /\ UNCHANGED screen
     \/ \E o \in Screen : ~Waiting(screen[o]) /\ screen' = [screen EXCEPT ![o] = Rest]
                          /\ UNCHANGED phone
  /\ UNCHANGED <<now, session, staged, recorded>>

\* Mutant: the age is counted from the wrong end, and no file is ever old.
too_old_never(f, d) == staged[f].mtime - (now + d) > AGE_MAXIMAL

\* Mutant: the margin is forgotten.
too_old_at_expiry(f, d) == now + d - staged[f].mtime > TTL

TooOld(f, d) == now + d - staged[f].mtime > AGE_MAXIMAL

\* sweep_staged_handoffs on one file, by a clock that is d away from the backend's.
sweep_staged(f, d) ==
  /\ staged[f].on /\ TooOld(f, d)
  /\ staged' = Unlinked(f)
  /\ UNCHANGED <<now, session, phone, screen, recorded>>

HandoffNext ==
  \/ \E p \in Phone : claim_for_upload(p) \/ write_staged(p) \/ upload_fails(p)
                      \/ mark_proposed(p)
  \/ \E o \in Screen : \/ \E request \in {"confirm", "retake", "revoke"} :
                            load_for_operator(o, request)
                       \/ confirm_claims(o) \/ promote(o) \/ promote_fails(o)
                       \/ finalise(o) \/ close_session(o)
                       \/ request_retake(o) \/ forget_file(o)
  \/ tick_handoff \/ backend_dies
  \/ \E f \in File, d \in -Drift..Drift : sweep_staged(f, d)

\* The scheduler runs the sweep for ever, on the slowest clock at worst, time passes, and an
\* upload that is served ends.
PhoneStep(p) == write_staged(p) \/ upload_fails(p) \/ mark_proposed(p)
HandoffFairness ==
  /\ WF_handoffvars(tick_handoff)
  /\ \A p \in Phone : WF_handoffvars(PhoneStep(p))
  /\ \A f \in File : WF_handoffvars(sweep_staged(f, -Drift))

HandoffSpec == HandoffInit /\ [][HandoffNext]_handoffvars /\ HandoffFairness

-----------------------------------------------------------------------------
(* Properties.                                                              *)

\* A session, its files and the requests around it are well formed, and the credit of
\* retakes is never overdrawn.
HandoffTypeOK ==
  /\ now \in 0..MaxNow
  /\ session \in [state : States, retakes : 0..MAX_RETAKES, file : File \cup {Nothing}]
  /\ staged \in [File -> [on : BOOLEAN, mtime : 0..MaxNow, used : BOOLEAN]]
  /\ \A p \in Phone : phone[p].pc \in {"idle", "sending", "written"}
  /\ \A o \in Screen : screen[o].pc \in {"idle", "confirm", "promote", "record", "close",
                                         "revoke", "retake", "forget"}
  /\ recorded \subseteq File

\* The photo of a session that lives, on the operator's screen or being confirmed, is never
\* taken away by the sweep, even when the clocks of the two containers differ by as much as
\* a whole session.
SweepSparesTheScreen ==
  [][screen' = screen /\ session.state \in {"proposed", "done"} =>
       \A f \in File : f = session.file /\ staged[f].on => staged'[f].on]_handoffvars

\* Two clicks, two tabs, a failed promotion tried again: one session writes the record at
\* most once, and while a confirmation is at work no other one is.
RecordedOnce ==
  /\ Cardinality(recorded) <= 1
  /\ \A o, q \in Screen :
       screen[o].pc \in {"record", "close"} /\ screen[q].pc \in {"promote", "record"} => o = q

\* A session that was confirmed, revoked or has expired never comes back: a script that
\* arrives late does not write on a key that is gone, where it would have no deadline.
GoneStaysGone == [][session.state = "gone" => session'.state = "gone"]_handoffvars

\* Whatever is abandoned, crashed or refused, a staged photo does not stay on the disk.
NoPhotoStaysStaged == \A f \in File : staged[f].on ~> ~staged[f].on
=============================================================================
