----------------------------- MODULE Attendance -----------------------------
(***************************************************************************)
(* What happens to a ticket after the sale: staff scan its QR code at the  *)
(* venue (core/services/check_in_attendee.py), the attendee leaves         *)
(* feedback (registrations/views.py).  Both read the registration without  *)
(* a lock and write without a transaction, one statement after the other,  *)
(* while sales and cancellations go on.                                    *)
(*                                                                         *)
(* Sales are those of TicketLedger, which Ticketing implements: the two    *)
(* requests modelled here see of a registration what the ledger keeps of   *)
(* it, its committed status.  All registrations are for one event; clock   *)
(* is where its end and the 14 days after it lie.                          *)
(***************************************************************************)
EXTENDS Integers, FiniteSets

CONSTANTS Workers, Regs, Tiers, TierOf, FreeTiers, NoReg

ASSUME NoRegAssumption == NoReg \notin Regs
ASSUME FiniteAssumption == IsFiniteSet(Workers) /\ IsFiniteSet(Regs)

VARIABLES
  standing, settled, issued, sold,  \* the ledger
  clock,     \* before the end of the event, in the 14 days after it, or later
  checkIns,  \* number of check_in rows of each registration
  feedback,  \* number of feedback rows of each registration
  pc, reg    \* what each worker runs next, and for which registration

Ledger == INSTANCE TicketLedger

ledger  == <<standing, settled, issued, sold>>
rows    == <<checkIns, feedback>>
request == <<pc, reg>>
vars    == <<ledger, clock, rows, request>>

Labels == {"idle", "scan_exists", "scan_insert",
           "feedback_checked_in", "feedback_exists", "feedback_insert"}

TypeOK ==
  /\ clock \in {"before", "window", "closed"}
  /\ checkIns \in [Regs -> Nat]
  /\ feedback \in [Regs -> Nat]
  /\ pc \in [Workers -> Labels]
  /\ reg \in [Workers -> Regs \union {NoReg}]
  /\ issued \subseteq Regs
  /\ standing \in [Regs -> {"NONE", "PENDING", "CONFIRMED", "CANCELLED"}]
  /\ \A w \in Workers : pc[w] = "idle" <=> reg[w] = NoReg

Init ==
  /\ Ledger!Init
  /\ clock = "before"
  /\ checkIns = [r \in Regs |-> 0]
  /\ feedback = [r \in Regs |-> 0]
  /\ pc = [w \in Workers |-> "idle"]
  /\ reg = [w \in Workers |-> NoReg]

Begin(w, r, label) ==
  /\ pc[w] = "idle"
  /\ pc' = [pc EXCEPT ![w] = label]
  /\ reg' = [reg EXCEPT ![w] = r]

Goto(w, from, to) ==
  /\ pc[w] = from
  /\ pc' = [pc EXCEPT ![w] = to]
  /\ UNCHANGED reg

\* The request is answered.
End(w) ==
  /\ pc' = [pc EXCEPT ![w] = "idle"]
  /\ reg' = [reg EXCEPT ![w] = NoReg]

\* The unique constraints behind the OneToOneFields of CheckIn and Feedback.
Unique_NoConstraint(rowsOf, r) == rowsOf[r] >= 0
Unique(rowsOf, r) == rowsOf[r] = 0

(***************************************************************************)
(* CheckInAttendeeService.execute.  An unknown token and a registration    *)
(* that is not CONFIRMED are refused and change nothing.                   *)
(***************************************************************************)

Scan_AnyStatus(w, r) ==
  /\ standing[r] # "NONE"
  /\ Begin(w, r, "scan_exists")
  /\ UNCHANGED <<ledger, clock, rows>>
Scan_UnknownToken(w, r) ==
  /\ standing[r] \in {"NONE", "CONFIRMED"}
  /\ Begin(w, IF standing[r] = "NONE" THEN NoReg ELSE r, "scan_exists")
  /\ UNCHANGED <<ledger, clock, rows>>
Scan(w, r) ==
  /\ standing[r] = "CONFIRMED"
  /\ Begin(w, r, "scan_exists")
  /\ UNCHANGED <<ledger, clock, rows>>

ScanExists(w) ==
  /\ pc[w] = "scan_exists"
  /\ \/ checkIns[reg[w]] = 0 /\ Goto(w, "scan_exists", "scan_insert")
     \/ checkIns[reg[w]] > 0 /\ End(w)
  /\ UNCHANGED <<ledger, clock, rows>>

\* The IntegrityError of a duplicate is caught and answered like one found before.
ScanInsert(w) ==
  /\ pc[w] = "scan_insert"
  /\ \/ Unique(checkIns, reg[w]) /\ checkIns' = [checkIns EXCEPT ![reg[w]] = @ + 1]
     \/ ~Unique(checkIns, reg[w]) /\ UNCHANGED checkIns
  /\ End(w)
  /\ UNCHANGED <<ledger, clock, feedback>>

(***************************************************************************)
(* feedback_create.  The status of the registration is not looked at.      *)
(***************************************************************************)

FeedbackRead(w, r) ==
  /\ standing[r] # "NONE"
  /\ Begin(w, r, "feedback_checked_in")
  /\ UNCHANGED <<ledger, clock, rows>>

FeedbackCheckedIn(w) ==
  /\ pc[w] = "feedback_checked_in"
  /\ \/ checkIns[reg[w]] > 0 /\ Goto(w, "feedback_checked_in", "feedback_exists")
     \/ checkIns[reg[w]] = 0 /\ End(w)
  /\ UNCHANGED <<ledger, clock, rows>>

FeedbackExists_AnyTime(w) ==
  /\ pc[w] = "feedback_exists"
  /\ \/ feedback[reg[w]] = 0 /\ Goto(w, "feedback_exists", "feedback_insert")
     \/ feedback[reg[w]] > 0 /\ End(w)
  /\ UNCHANGED <<ledger, clock, rows>>
\* now is compared with end_time + 14 days, and with nothing else.
FeedbackExists(w) ==
  /\ pc[w] = "feedback_exists"
  /\ \/ clock # "closed" /\ feedback[reg[w]] = 0 /\ Goto(w, "feedback_exists", "feedback_insert")
     \/ (clock = "closed" \/ feedback[reg[w]] > 0) /\ End(w)
  /\ UNCHANGED <<ledger, clock, rows>>

\* The IntegrityError of a duplicate is not caught here: the request fails.
FeedbackInsert(w) ==
  /\ pc[w] = "feedback_insert"
  /\ \/ Unique(feedback, reg[w]) /\ feedback' = [feedback EXCEPT ![reg[w]] = @ + 1]
     \/ ~Unique(feedback, reg[w]) /\ UNCHANGED feedback
  /\ End(w)
  /\ UNCHANGED <<ledger, clock, checkIns>>

(***************************************************************************)
(* The rest of the system                                                  *)
(***************************************************************************)

Sales == Ledger!Next /\ UNCHANGED <<clock, rows, request>>

Tick ==
  /\ \/ clock = "before" /\ clock' = "window"
     \/ clock = "window" /\ clock' = "closed"
  /\ UNCHANGED <<ledger, rows, request>>

Fail(w) ==
  /\ pc[w] # "idle"
  /\ End(w)
  /\ UNCHANGED <<ledger, clock, rows>>

Step(w) ==
  \/ ScanExists(w) \/ ScanInsert(w)
  \/ FeedbackCheckedIn(w) \/ FeedbackExists(w) \/ FeedbackInsert(w)
  \/ Fail(w)

Next ==
  \/ \E w \in Workers : Step(w)
  \/ \E w \in Workers, r \in Regs : Scan(w, r) \/ FeedbackRead(w, r)
  \/ Sales
  \/ Tick

Spec == Init /\ [][Next]_vars

(***************************************************************************)
(* Properties                                                              *)
(***************************************************************************)

\* Two scans of one code at two doors admit once (FR-13), and an attendee who
\* submits twice at once leaves one feedback: the checks before the inserts
\* are stale by then, the constraints are not.
OneRowEach == \A r \in Regs : checkIns[r] <= 1 /\ feedback[r] <= 1

\* Whoever was admitted had been issued a ticket, and whoever left feedback
\* had been admitted, whatever was cancelled in between.
AttendanceBacked ==
  \A r \in Regs :
    /\ checkIns[r] > 0 => r \in issued
    /\ feedback[r] > 0 => checkIns[r] > 0

\* The scans of r that have found it CONFIRMED and may still insert a row.
Scanning(r) == {w \in Workers : pc[w] \in {"scan_exists", "scan_insert"} /\ reg[w] = r}

\* "Raises RegistrationNotConfirmedError (410) if not confirmed.", but the status is
\* read long before the insert: once a registration is cancelled it gains no
\* check-in but by a scan that had found it CONFIRMED before, each spent by it.
CancelledAdmitsNothing ==
  [][\A r \in Regs : standing[r] = "CANCELLED" =>
       checkIns'[r] + Cardinality(Scanning(r)') <= checkIns[r] + Cardinality(Scanning(r))]_vars

\* The feedback rows of r and the requests past the check of the window.
Submitting(r) == {w \in Workers : pc[w] = "feedback_insert" /\ reg[w] = r}

\* Once the window has closed a registration gains no feedback but by a request
\* that had passed the check before, and none twice.
ClosedWindowGainsNothing ==
  [][clock = "closed" =>
       \A r \in Regs :
         feedback'[r] + Cardinality(Submitting(r)') <= feedback[r] + Cardinality(Submitting(r))]_vars

\* The venue keeps its promises (Admission): each insert of a check-in is one
\* admission of a ticket holder, each insert of a feedback one review.
Venue == INSTANCE Admission WITH
  ticketed <- issued,
  admitted <- checkIns,
  reviewed <- feedback

KeepsAdmission == Venue!Spec
=============================================================================
