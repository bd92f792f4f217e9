-------------------------- MODULE AttendanceProofs --------------------------
(***************************************************************************)
(* Proofs about Attendance, for any registrations, workers and tiers.      *)
(***************************************************************************)
EXTENDS Attendance, FiniteSetTheorems, TLAPS

\* What a request has read and what cannot have changed since: a registration
\* once issued stays issued, a check-in row once inserted stays.
RequestOK(w) ==
  /\ pc[w] \in {"scan_exists", "scan_insert"} => reg[w] \in issued
  /\ pc[w] \in {"feedback_exists", "feedback_insert"} => checkIns[reg[w]] > 0

AInv ==
  /\ TypeOK
  /\ OneRowEach
  /\ AttendanceBacked
  /\ \A r \in Regs : standing[r] = "CONFIRMED" => r \in issued
  /\ \A w \in Workers : RequestOK(w)

\* The invariant holds before anything is sold or scanned.
LEMMA AInvInit == Init => AInv
BY DEF Init, Ledger!Init, AInv, TypeOK, Labels, OneRowEach, AttendanceBacked, RequestOK

\* The ledger only adds issued tickets, and confirms none without issuing it.
LEMMA SalesOnlyIssue ==
  ASSUME TypeOK, \A r \in Regs : standing[r] = "CONFIRMED" => r \in issued, Ledger!Next
  PROVE  /\ standing' \in [Regs -> {"NONE", "PENDING", "CONFIRMED", "CANCELLED"}]
         /\ issued' \subseteq Regs
         /\ issued \subseteq issued'
         /\ \A r \in Regs : standing'[r] = "CONFIRMED" => r \in issued'
BY DEF TypeOK, Ledger!Next, Ledger!Request, Ledger!Settle, Ledger!Issue, Ledger!Cancel

\* Every step of a scan, a submission, a sale, a failure or the clock keeps the
\* invariant.
LEMMA AInvStep == AInv /\ [Next]_vars => AInv'
<1> SUFFICES ASSUME AInv, [Next]_vars PROVE AInv'
  OBVIOUS
<1> USE NoRegAssumption DEF AInv, Labels
<1>1. ASSUME NEW w \in Workers, NEW r \in Regs, Scan(w, r) \/ FeedbackRead(w, r) PROVE AInv'
  BY <1>1 DEF Scan, FeedbackRead, Begin, TypeOK, OneRowEach, AttendanceBacked, RequestOK,
              ledger, rows
<1>2. ASSUME NEW w \in Workers, ScanExists(w) \/ FeedbackCheckedIn(w) \/ FeedbackExists(w) \/ Fail(w)
      PROVE  AInv'
  <2>1. UNCHANGED <<ledger, clock, rows>>
    BY <1>2 DEF ScanExists, FeedbackCheckedIn, FeedbackExists, Fail
  <2>2. /\ pc' \in [Workers -> Labels] /\ reg' \in [Workers -> Regs \union {NoReg}]
        /\ \A v \in Workers : pc'[v] = "idle" <=> reg'[v] = NoReg
    BY <1>2 DEF ScanExists, FeedbackCheckedIn, FeedbackExists, Fail, Goto, End, TypeOK
  <2>3. \A v \in Workers : RequestOK(v)'
    BY <1>2, <2>1 DEF ScanExists, FeedbackCheckedIn, FeedbackExists, Fail, Goto, End, RequestOK,
                      TypeOK, ledger, rows
  <2>4. QED
    BY <2>1, <2>2, <2>3 DEF TypeOK, OneRowEach, AttendanceBacked, ledger, rows
<1>3. ASSUME NEW w \in Workers, ScanInsert(w) PROVE AInv'
  <2>1. reg[w] \in Regs /\ reg[w] \in issued
    BY <1>3 DEF ScanInsert, RequestOK, TypeOK
  <2>2. \A r \in Regs : checkIns'[r] \in Nat /\ checkIns'[r] <= 1 /\ checkIns'[r] >= checkIns[r]
    BY <1>3 DEF ScanInsert, Unique, TypeOK, OneRowEach
  <2>3. \A r \in Regs : checkIns'[r] > 0 => r \in issued
    BY <1>3, <2>1 DEF ScanInsert, TypeOK, AttendanceBacked
  <2>4. checkIns' \in [Regs -> Nat]
    BY <1>3, <2>2 DEF ScanInsert, TypeOK
  <2>5. /\ pc' \in [Workers -> Labels] /\ reg' \in [Workers -> Regs \union {NoReg}]
        /\ \A v \in Workers : pc'[v] = "idle" <=> reg'[v] = NoReg
    BY <1>3 DEF ScanInsert, End, TypeOK
  <2>6. \A v \in Workers : RequestOK(v)'
    BY <1>3, <2>2 DEF ScanInsert, End, RequestOK, TypeOK, ledger
  <2>7. UNCHANGED <<ledger, clock, feedback>>
    BY <1>3 DEF ScanInsert
  <2>8. AttendanceBacked'
    BY <2>2, <2>3, <2>7 DEF TypeOK, AttendanceBacked, ledger
  <2>9. QED
    BY <2>2, <2>4, <2>5, <2>6, <2>7, <2>8 DEF TypeOK, OneRowEach, ledger
<1>4. ASSUME NEW w \in Workers, FeedbackInsert(w) PROVE AInv'
  <2>1. reg[w] \in Regs /\ checkIns[reg[w]] > 0
    BY <1>4 DEF FeedbackInsert, RequestOK, TypeOK
  <2>2. \A r \in Regs : feedback'[r] \in Nat /\ feedback'[r] <= 1
    BY <1>4 DEF FeedbackInsert, Unique, TypeOK, OneRowEach
  <2>3. \A r \in Regs : feedback'[r] > 0 => checkIns[r] > 0
    BY <1>4, <2>1 DEF FeedbackInsert, TypeOK, AttendanceBacked
  <2>4. feedback' \in [Regs -> Nat]
    BY <1>4, <2>2 DEF FeedbackInsert, TypeOK
  <2>5. /\ pc' \in [Workers -> Labels] /\ reg' \in [Workers -> Regs \union {NoReg}]
        /\ \A v \in Workers : pc'[v] = "idle" <=> reg'[v] = NoReg
    BY <1>4 DEF FeedbackInsert, End, TypeOK
  <2>6. \A v \in Workers : RequestOK(v)'
    BY <1>4 DEF FeedbackInsert, End, RequestOK, TypeOK, ledger
  <2>7. UNCHANGED <<ledger, clock, checkIns>>
    BY <1>4 DEF FeedbackInsert
  <2>8. QED
    BY <2>2, <2>3, <2>4, <2>5, <2>6, <2>7 DEF TypeOK, OneRowEach, AttendanceBacked, ledger
<1>5. CASE Sales
  <2>1. /\ standing' \in [Regs -> {"NONE", "PENDING", "CONFIRMED", "CANCELLED"}]
        /\ issued' \subseteq Regs
        /\ issued \subseteq issued'
        /\ \A r \in Regs : standing'[r] = "CONFIRMED" => r \in issued'
    BY <1>5, SalesOnlyIssue DEF Sales
  <2>2. QED
    BY <1>5, <2>1 DEF Sales, TypeOK, OneRowEach, AttendanceBacked, RequestOK, rows, request
<1>6. CASE Tick
  BY <1>6 DEF Tick, TypeOK, OneRowEach, AttendanceBacked, RequestOK, ledger, rows, request
<1>7. CASE UNCHANGED vars
  BY <1>7 DEF vars, TypeOK, OneRowEach, AttendanceBacked, RequestOK, ledger, rows, request
<1>8. QED
  BY <1>1, <1>2, <1>3, <1>4, <1>5, <1>6, <1>7 DEF Next, Step

\* The invariant holds at all times.
LEMMA AttendanceInductive == Spec => []AInv
BY AInvInit, AInvStep, PTL DEF Spec

\* A registration has at most one check-in and one feedback, however many doors
\* scan it and however often the attendee submits.
THEOREM OneAdmission == Spec => []OneRowEach
<1>1. AInv => OneRowEach
  BY DEF AInv
<1>2. QED
  BY AttendanceInductive, <1>1, PTL

\* Check-ins stand on issued tickets and feedback on check-ins, although the
\* ticket may be cancelled between any two statements.
THEOREM AttendanceIsBacked == Spec => []AttendanceBacked
<1>1. AInv => AttendanceBacked
  BY DEF AInv
<1>2. QED
  BY AttendanceInductive, <1>1, PTL

\* Rows and requests keep their types.
THEOREM AttendanceTyped == Spec => []TypeOK
<1>1. AInv => TypeOK
  BY DEF AInv
<1>2. QED
  BY AttendanceInductive, <1>1, PTL

(***************************************************************************)
(* The window of feedback                                                  *)
(***************************************************************************)

\* Fewer requests past the check, and no new row: no gain.
LEMMA NoFeedbackGain ==
  ASSUME AInv, NEW r \in Regs, feedback'[r] = feedback[r], Submitting(r)' \subseteq Submitting(r)
  PROVE  feedback'[r] + Cardinality(Submitting(r)') <= feedback[r] + Cardinality(Submitting(r))
<1>1. IsFiniteSet(Submitting(r))
  BY FiniteAssumption, FS_Subset DEF Submitting
<1>2. Cardinality(Submitting(r)') <= Cardinality(Submitting(r)) /\ IsFiniteSet(Submitting(r)')
  BY <1>1, FS_Subset
<1>3. feedback[r] \in Nat
  BY DEF AInv, TypeOK
<1>4. QED
  BY <1>1, <1>2, <1>3, FS_CardinalityType

\* A request that inserts a row is no longer one that will.
LEMMA InsertUsesUp ==
  ASSUME AInv, NEW w \in Workers, FeedbackInsert(w), NEW r \in Regs
  PROVE  feedback'[r] + Cardinality(Submitting(r)') <= feedback[r] + Cardinality(Submitting(r))
<1>1. Submitting(r)' \subseteq Submitting(r) \ {w}
  BY DEF FeedbackInsert, End, Submitting, AInv, TypeOK, Labels
<1>2. CASE reg[w] # r \/ feedback' = feedback
  <2>1. feedback'[r] = feedback[r]
    BY <1>2 DEF FeedbackInsert, AInv, TypeOK
  <2>2. QED
    BY <1>1, <2>1, NoFeedbackGain
<1>3. CASE reg[w] = r /\ feedback' # feedback
  <2>1. w \in Submitting(r)
    BY <1>3 DEF FeedbackInsert, Submitting
  <2>2. IsFiniteSet(Submitting(r))
    BY FiniteAssumption, FS_Subset DEF Submitting
  <2>3. /\ IsFiniteSet(Submitting(r) \ {w})
        /\ Cardinality(Submitting(r) \ {w}) = Cardinality(Submitting(r)) - 1
    BY <2>1, <2>2, FS_RemoveElement
  <2>4. /\ Cardinality(Submitting(r)') <= Cardinality(Submitting(r) \ {w})
        /\ IsFiniteSet(Submitting(r)')
    BY <1>1, <2>3, FS_Subset
  <2>5. feedback[r] \in Nat /\ feedback'[r] = feedback[r] + 1
    BY <1>3 DEF FeedbackInsert, AInv, TypeOK
  <2>6. QED
    BY <2>2, <2>3, <2>4, <2>5, FS_CardinalityType
<1>4. QED
  BY <1>2, <1>3

\* After the window no step lets a request past the check.
LEMMA ClosedStep ==
  ASSUME AInv, [Next]_vars, clock = "closed", NEW r \in Regs
  PROVE  feedback'[r] + Cardinality(Submitting(r)') <= feedback[r] + Cardinality(Submitting(r))
<1> DEFINE Less == feedback'[r] = feedback[r] /\ Submitting(r)' \subseteq Submitting(r)
<1>1. ASSUME NEW w \in Workers, FeedbackInsert(w)
      PROVE  feedback'[r] + Cardinality(Submitting(r)') <= feedback[r] + Cardinality(Submitting(r))
  BY <1>1, InsertUsesUp
<1>2. ASSUME NEW w \in Workers,
             ScanExists(w) \/ ScanInsert(w) \/ FeedbackCheckedIn(w) \/ FeedbackExists(w) \/ Fail(w)
      PROVE  Less
  BY <1>2 DEF ScanExists, ScanInsert, FeedbackCheckedIn, FeedbackExists, Fail, Goto, End, rows,
              Submitting, AInv, TypeOK
<1>3. ASSUME NEW w \in Workers, NEW q \in Regs, Scan(w, q) \/ FeedbackRead(w, q)
      PROVE  Less
  BY <1>3 DEF Scan, FeedbackRead, Begin, rows, Submitting, AInv, TypeOK
<1>4. CASE Sales \/ Tick \/ UNCHANGED vars
  <2>1. Less
    BY <1>4 DEF Sales, Tick, vars, rows, request, Submitting
  <2>2. QED
    BY <2>1, NoFeedbackGain
<1>5. QED
  BY <1>1, <1>2, <1>3, <1>4, NoFeedbackGain DEF Next, Step

\* feedback_create looks at the clock before it inserts and not after: once the
\* window has closed, only requests that were past the look leave feedback.
THEOREM WindowCloses == Spec => ClosedWindowGainsNothing
<1>1. AInv /\ [Next]_vars =>
        [clock = "closed" =>
           \A r \in Regs :
             feedback'[r] + Cardinality(Submitting(r)')
               <= feedback[r] + Cardinality(Submitting(r))]_vars
  BY ClosedStep
<1>2. QED
  BY <1>1, AttendanceInductive, PTL DEF Spec, ClosedWindowGainsNothing

(***************************************************************************)
(* Cancelled tickets                                                       *)
(***************************************************************************)

\* Fewer scans past the check of the status, and no new row: no gain.
LEMMA NoCheckInGain ==
  ASSUME AInv, NEW r \in Regs, checkIns'[r] = checkIns[r], Scanning(r)' \subseteq Scanning(r)
  PROVE  checkIns'[r] + Cardinality(Scanning(r)') <= checkIns[r] + Cardinality(Scanning(r))
<1>1. IsFiniteSet(Scanning(r))
  BY FiniteAssumption, FS_Subset DEF Scanning
<1>2. Cardinality(Scanning(r)') <= Cardinality(Scanning(r)) /\ IsFiniteSet(Scanning(r)')
  BY <1>1, FS_Subset
<1>3. checkIns[r] \in Nat
  BY DEF AInv, TypeOK
<1>4. QED
  BY <1>1, <1>2, <1>3, FS_CardinalityType

\* A scan that inserts a row is no longer one that will.
LEMMA ScanUsesUp ==
  ASSUME AInv, NEW w \in Workers, ScanInsert(w), NEW r \in Regs
  PROVE  checkIns'[r] + Cardinality(Scanning(r)') <= checkIns[r] + Cardinality(Scanning(r))
<1>1. Scanning(r)' \subseteq Scanning(r) \ {w}
  BY DEF ScanInsert, End, Scanning, AInv, TypeOK, Labels
<1>2. CASE reg[w] # r \/ checkIns' = checkIns
  <2>1. checkIns'[r] = checkIns[r]
    BY <1>2 DEF ScanInsert, AInv, TypeOK
  <2>2. QED
    BY <1>1, <2>1, NoCheckInGain
<1>3. CASE reg[w] = r /\ checkIns' # checkIns
  <2>1. w \in Scanning(r)
    BY <1>3 DEF ScanInsert, Scanning
  <2>2. IsFiniteSet(Scanning(r))
    BY FiniteAssumption, FS_Subset DEF Scanning
  <2>3. /\ IsFiniteSet(Scanning(r) \ {w})
        /\ Cardinality(Scanning(r) \ {w}) = Cardinality(Scanning(r)) - 1
    BY <2>1, <2>2, FS_RemoveElement
  <2>4. /\ Cardinality(Scanning(r)') <= Cardinality(Scanning(r) \ {w})
        /\ IsFiniteSet(Scanning(r)')
    BY <1>1, <2>3, FS_Subset
  <2>5. checkIns[r] \in Nat /\ checkIns'[r] = checkIns[r] + 1
    BY <1>3 DEF ScanInsert, AInv, TypeOK
  <2>6. QED
    BY <2>2, <2>3, <2>4, <2>5, FS_CardinalityType
<1>4. QED
  BY <1>2, <1>3

\* Once a registration is cancelled no scan finds it CONFIRMED.
LEMMA CancelledStep ==
  ASSUME AInv, [Next]_vars, NEW r \in Regs, standing[r] = "CANCELLED"
  PROVE  checkIns'[r] + Cardinality(Scanning(r)') <= checkIns[r] + Cardinality(Scanning(r))
<1> DEFINE Less == checkIns'[r] = checkIns[r] /\ Scanning(r)' \subseteq Scanning(r)
<1>1. ASSUME NEW w \in Workers, ScanInsert(w)
      PROVE  checkIns'[r] + Cardinality(Scanning(r)') <= checkIns[r] + Cardinality(Scanning(r))
  BY <1>1, ScanUsesUp
<1>2. ASSUME NEW w \in Workers,
             \/ ScanExists(w) \/ FeedbackCheckedIn(w) \/ FeedbackExists(w)
             \/ FeedbackInsert(w) \/ Fail(w)
      PROVE  Less
  BY <1>2 DEF ScanExists, FeedbackCheckedIn, FeedbackExists, FeedbackInsert, Fail, Goto, End, rows,
              Scanning, AInv, TypeOK
<1>3. ASSUME NEW w \in Workers, NEW q \in Regs, Scan(w, q) \/ FeedbackRead(w, q)
      PROVE  Less
  BY <1>3 DEF Scan, FeedbackRead, Begin, rows, Scanning, AInv, TypeOK
<1>4. CASE Sales \/ Tick \/ UNCHANGED vars
  <2>1. Less
    BY <1>4 DEF Sales, Tick, vars, rows, request, Scanning
  <2>2. QED
    BY <2>1, NoCheckInGain
<1>5. QED
  BY <1>1, <1>2, <1>3, <1>4, NoCheckInGain DEF Next, Step

\* CheckInAttendeeService looks at the status before it inserts and not after:
\* once a registration is cancelled, only scans that were past the look admit.
THEOREM CancelStopsScans == Spec => CancelledAdmitsNothing
<1>1. AInv /\ [Next]_vars =>
        [\A r \in Regs : standing[r] = "CANCELLED" =>
           checkIns'[r] + Cardinality(Scanning(r)')
             <= checkIns[r] + Cardinality(Scanning(r))]_vars
  BY CancelledStep
<1>2. QED
  BY <1>1, AttendanceInductive, PTL DEF Spec, CancelledAdmitsNothing

(***************************************************************************)
(* Refinement                                                              *)
(***************************************************************************)

\* An empty venue stands for an empty database.
LEMMA AdmissionInit == Init => Venue!Init
BY DEF Init, Ledger!Init, Venue!Init

\* A sale issues a ticket for one registration or for none.
LEMMA SaleIsTicket ==
  ASSUME Sales
  PROVE  Venue!Next \/ UNCHANGED Venue!venue
<1>1. CASE \E r \in Regs : Ledger!Issue(r)
  <2>1. PICK r \in Regs : Ledger!Issue(r)
    BY <1>1
  <2>2. Venue!Ticket(r)
    BY <2>1 DEF Sales, Venue!Ticket, Ledger!Issue, rows
  <2>3. QED
    BY <2>2 DEF Venue!Next
<1>2. CASE \E r \in Regs : Ledger!Request(r) \/ Ledger!Settle(r) \/ Ledger!Cancel(r)
  BY <1>2 DEF Sales, Venue!venue, Ledger!Request, Ledger!Settle, Ledger!Cancel, rows
<1>3. QED
  BY <1>1, <1>2 DEF Sales, Ledger!Next

\* The insert of a check-in is an admission, or the duplicate of one.
LEMMA ScanIsAdmission ==
  ASSUME AInv, NEW w \in Workers, ScanInsert(w)
  PROVE  Venue!Next \/ UNCHANGED Venue!venue
<1>1. reg[w] \in Regs /\ reg[w] \in issued
  BY DEF ScanInsert, AInv, RequestOK, TypeOK
<1>2. CASE Unique(checkIns, reg[w])
  <2>1. Venue!Admit(reg[w])
    BY <1>1, <1>2 DEF ScanInsert, Unique, Venue!Admit, AInv, TypeOK, ledger
  <2>2. QED
    BY <1>1, <2>1 DEF Venue!Next
<1>3. CASE ~Unique(checkIns, reg[w])
  BY <1>3 DEF ScanInsert, Venue!venue, ledger
<1>4. QED
  BY <1>2, <1>3

\* The insert of a feedback is a review, or the duplicate of one.
LEMMA FeedbackIsReview ==
  ASSUME AInv, NEW w \in Workers, FeedbackInsert(w)
  PROVE  Venue!Next \/ UNCHANGED Venue!venue
<1>1. reg[w] \in Regs /\ checkIns[reg[w]] > 0
  BY DEF FeedbackInsert, AInv, RequestOK, TypeOK
<1>2. CASE Unique(feedback, reg[w])
  <2>1. checkIns[reg[w]] = 1
    BY <1>1 DEF AInv, TypeOK, OneRowEach
  <2>2. Venue!Review(reg[w])
    BY <1>1, <1>2, <2>1 DEF FeedbackInsert, Unique, Venue!Review, AInv, TypeOK, ledger
  <2>3. QED
    BY <1>1, <2>2 DEF Venue!Next
<1>3. CASE ~Unique(feedback, reg[w])
  BY <1>3 DEF FeedbackInsert, Venue!venue, ledger
<1>4. QED
  BY <1>2, <1>3

\* Every other step is unseen by the venue.
LEMMA AdmissionStep == AInv /\ [Next]_vars => [Venue!Next]_(Venue!venue)
<1> SUFFICES ASSUME AInv, [Next]_vars PROVE Venue!Next \/ UNCHANGED Venue!venue
  OBVIOUS
<1>1. CASE Sales
  BY <1>1, SaleIsTicket
<1>2. CASE \E w \in Workers : ScanInsert(w)
  BY <1>2, ScanIsAdmission
<1>3. CASE \E w \in Workers : FeedbackInsert(w)
  BY <1>3, FeedbackIsReview
<1>4. CASE \E w \in Workers :
              ScanExists(w) \/ FeedbackCheckedIn(w) \/ FeedbackExists(w) \/ Fail(w)
  BY <1>4 DEF ScanExists, FeedbackCheckedIn, FeedbackExists, Fail, ledger, rows, Venue!venue
<1>5. CASE \E w \in Workers, r \in Regs : Scan(w, r) \/ FeedbackRead(w, r)
  BY <1>5 DEF Scan, FeedbackRead, ledger, rows, Venue!venue
<1>6. CASE Tick \/ UNCHANGED vars
  BY <1>6 DEF Tick, vars, ledger, rows, Venue!venue
<1>7. QED
  BY <1>1, <1>2, <1>3, <1>4, <1>5, <1>6 DEF Next, Step

\* Scans and feedback requests implement the venue's promise.
THEOREM ImplementsAdmission == Spec => KeepsAdmission
BY AdmissionInit, AdmissionStep, AttendanceInductive, PTL DEF Spec, KeepsAdmission, Venue!Spec
=============================================================================
