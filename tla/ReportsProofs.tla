--------------------------- MODULE ReportsProofs ---------------------------
(***************************************************************************)
(* Proofs about Reports, for any registrations, tiers and workers.         *)
(***************************************************************************)
EXTENDS Reports, AttendanceProofs

Report == [next : {"tickets", "revenue", "admitted", "rated", "counters", "shown"},
           tickets : SUBSET Regs, revenue : SUBSET Regs, admitted : SUBSET Regs,
           rated : SUBSET Regs, counters : [Tiers -> Int]]

\* The counter of a tier counts the tickets ever issued for it: what ReportBounded
\* compares the rows of a dashboard with.
CounterOK ==
  /\ sold \in [Tiers -> Int]
  /\ \A t \in Tiers : sold[t] = Cardinality(OfTier(issued, t))

\* What has been read is of tickets issued by then, however much has been
\* cancelled since, so that it stays below the counters until they are read.
ReadOK ==
  report.next # "shown" =>
    report.tickets \union report.revenue \union report.admitted \union report.rated \subseteq issued

ReportInv ==
  /\ AInv
  /\ CounterOK
  /\ report \in Report
  /\ ReadOK
  /\ ReportBounded

\* Nothing has been read of a report that begins.
LEMMA NothingRead ==
  /\ NoReport \in Report /\ NoReport.next = "tickets"
  /\ NoReport.tickets = {} /\ NoReport.revenue = {}
  /\ NoReport.admitted = {} /\ NoReport.rated = {}
BY DEF NoReport, Report

\* The invariant holds before anything is sold or read.
LEMMA ReportInvInit == ReportInit => ReportInv
<1> SUFFICES ASSUME ReportInit PROVE ReportInv
  OBVIOUS
<1>1. AInv
  BY AInvInit DEF ReportInit
<1>2. \A t \in Tiers : OfTier(issued, t) = {}
  BY DEF ReportInit, Init, Ledger!Init, OfTier
<1>3. CounterOK
  BY <1>2, FS_EmptySet DEF ReportInit, Init, Ledger!Init, CounterOK
<1>4. report \in Report /\ ReadOK /\ ReportBounded
  BY NothingRead DEF ReportInit, ReadOK, ReportBounded
<1> QED BY <1>1, <1>3, <1>4 DEF ReportInv

\* The registrations of a tier are finitely many, and a smaller set counts no more.
LEMMA OfTierCounts ==
  ASSUME NEW S, NEW T, T \subseteq Regs, S \subseteq T, NEW t
  PROVE  /\ IsFiniteSet(OfTier(T, t))
         /\ Cardinality(OfTier(S, t)) <= Cardinality(OfTier(T, t))
<1>1. OfTier(T, t) \subseteq Regs /\ OfTier(S, t) \subseteq OfTier(T, t)
  BY DEF OfTier
<1>2. IsFiniteSet(OfTier(T, t))
  BY <1>1, FiniteAssumption, FS_Subset
<1> QED BY <1>1, <1>2, FS_Subset

\* The counter of a tier moves with the tickets issued for it, and only then.
LEMMA IssueCounts ==
  ASSUME CounterOK, issued \subseteq Regs, NEW r \in Regs, Ledger!Issue(r)
  PROVE  CounterOK'
<1>1. r \notin issued /\ issued' = issued \union {r} /\ sold' = [sold EXCEPT ![TierOf[r]] = @ + 1]
  BY DEF Ledger!Issue
<1>2. sold' \in [Tiers -> Int]
  <2>1. ASSUME NEW t \in Tiers PROVE sold'[t] \in Int
    BY <1>1 DEF CounterOK
  <2> QED BY <1>1, <2>1 DEF CounterOK
<1>3. ASSUME NEW t \in Tiers PROVE sold'[t] = Cardinality(OfTier(issued', t))
  <2>1. IsFiniteSet(OfTier(issued, t)) /\ sold[t] = Cardinality(OfTier(issued, t))
    BY OfTierCounts DEF CounterOK
  <2>2. CASE TierOf[r] = t
    <3>1. OfTier(issued', t) = OfTier(issued, t) \union {r} /\ r \notin OfTier(issued, t)
      BY <1>1, <2>2 DEF OfTier
    <3>2. Cardinality(OfTier(issued', t)) = Cardinality(OfTier(issued, t)) + 1
      BY <2>1, <3>1, FS_AddElement
    <3> QED BY <1>1, <2>1, <2>2, <3>2 DEF CounterOK
  <2>3. CASE TierOf[r] # t
    <3>1. OfTier(issued', t) = OfTier(issued, t)
      BY <1>1, <2>3 DEF OfTier
    <3> QED BY <1>1, <2>1, <2>3, <3>1 DEF CounterOK
  <2> QED BY <2>2, <2>3
<1> QED BY <1>2, <1>3 DEF CounterOK

\* Scans, feedback, the clock and what else the ledger does leave the counters
\* and the issued tickets as they are.
LEMMA CounterStep ==
  ASSUME AInv, CounterOK, [Next]_vars
  PROVE  CounterOK' /\ issued \subseteq issued'
<1>1. issued \subseteq Regs
  BY DEF AInv, TypeOK
<1>2. CASE \E r \in Regs : Ledger!Issue(r)
  BY <1>1, <1>2, IssueCounts DEF Ledger!Issue
<1>3. CASE UNCHANGED <<issued, sold>>
  BY <1>3 DEF CounterOK, OfTier
<1>4. CASE Sales
  BY <1>2, <1>3, <1>4 DEF Sales, Ledger!Next, Ledger!Request, Ledger!Settle, Ledger!Cancel
<1>5. CASE UNCHANGED vars \/ Tick
  BY <1>3, <1>5 DEF vars, Tick, ledger
<1>6. CASE \E w \in Workers : Step(w) \/ \E r \in Regs : Scan(w, r) \/ FeedbackRead(w, r)
  BY <1>3, <1>6 DEF Step, ScanExists, ScanInsert, FeedbackCheckedIn, FeedbackExists,
                    FeedbackInsert, Fail, Scan, FeedbackRead, ledger
<1> QED BY <1>4, <1>5, <1>6 DEF Next

\* The venue's steps leave a report being read as it is.
LEMMA VenueStep ==
  ASSUME ReportInv, [Next]_vars, UNCHANGED report
  PROVE  ReportInv'
<1>1. AInv' /\ CounterOK' /\ issued \subseteq issued'
  BY AInvStep, CounterStep DEF ReportInv
<1>2. report' \in Report /\ ReadOK' /\ ReportBounded'
  BY <1>1 DEF ReportInv, ReadOK, ReportBounded, OfTier
<1> QED BY <1>1, <1>2 DEF ReportInv

\* Each query is over confirmed registrations, which have been issued.
LEMMA QueryStep ==
  ASSUME ReportInv,
         \/ ReportTickets \/ ReportRevenue \/ ReportAdmitted \/ ReportRated \/ ReportDone
  PROVE  ReportInv'
<1>1. AInv' /\ CounterOK'
  BY DEF ReportInv, ReportTickets, ReportRevenue, ReportAdmitted, ReportRated, ReportDone, vars,
         ledger, rows, request, AInv, TypeOK, OneRowEach, AttendanceBacked, RequestOK, CounterOK,
         OfTier
<1>2. Confirmed \subseteq issued /\ issued \subseteq Regs /\ issued' = issued
  BY DEF ReportInv, AInv, TypeOK, Confirmed, ReportTickets, ReportRevenue, ReportAdmitted,
         ReportRated, ReportDone, vars, ledger
<1> DEFINE Read == report' \in Report /\ ReadOK' /\ report'.next # "shown"
<1>3. report \in Report /\ ReadOK
  BY DEF ReportInv
<1>4. Read
  <2>1. CASE ReportTickets
    BY <1>2, <2>1, NothingRead DEF ReportTickets, Report, ReadOK
  <2>2. CASE ReportRevenue
    BY <1>2, <1>3, <2>2 DEF ReportRevenue, Report, ReadOK
  <2>3. CASE ReportAdmitted
    BY <1>2, <1>3, <2>3 DEF ReportAdmitted, Report, ReadOK
  <2>4. CASE ReportRated
    BY <1>2, <1>3, <2>4 DEF ReportRated, Report, ReadOK
  <2>5. CASE ReportDone
    BY <2>5, NothingRead DEF ReportDone, ReadOK
  <2> QED BY <2>1, <2>2, <2>3, <2>4, <2>5
<1>5. ReportBounded'
  BY <1>4 DEF ReportBounded
<1> QED BY <1>1, <1>4, <1>5 DEF ReportInv

\* The counters, read last, cover every row read before.
LEMMA CountersStep ==
  ASSUME ReportInv, ReportCounters
  PROVE  ReportInv'
<1>1. AInv' /\ CounterOK'
  BY DEF ReportInv, ReportCounters, vars, ledger, rows, request, AInv, TypeOK, OneRowEach,
         AttendanceBacked, RequestOK, CounterOK, OfTier
<1>2. /\ report \in Report /\ ReadOK /\ report.next = "counters"
      /\ report' = [report EXCEPT !.next = "shown", !.counters = sold]
      /\ sold \in [Tiers -> Int] /\ issued \subseteq Regs
  BY DEF ReportInv, ReportCounters, CounterOK, AInv, TypeOK
<1>3. report' \in Report /\ ReadOK'
  BY <1>2 DEF Report, ReadOK
<1>4. ASSUME NEW S, S \subseteq issued, NEW t \in Tiers
      PROVE  Cardinality(OfTier(S, t)) <= sold[t]
  BY <1>2, <1>4, OfTierCounts DEF ReportInv, CounterOK
<1>5. /\ report'.tickets \subseteq issued /\ report'.revenue \subseteq issued
      /\ report'.admitted \subseteq issued /\ report'.rated \subseteq issued
      /\ report'.counters = sold
  BY <1>2 DEF Report, ReadOK
<1>6. ReportBounded'
  BY <1>4, <1>5 DEF ReportBounded, OfTier
<1> QED BY <1>1, <1>3, <1>6 DEF ReportInv

\* Every step keeps the invariant.
LEMMA ReportInvStep == ReportInv /\ [ReportNext]_reportVars => ReportInv'
BY VenueStep, QueryStep, CountersStep DEF ReportNext, reportVars

\* The invariant is inductive.
LEMMA ReportInductive == ReportSpec => []ReportInv
BY ReportInvInit, ReportInvStep, PTL DEF ReportSpec

\* A dashboard never shows more tickets, payments, admissions or ratings than seats
\* taken, in any tier, although event_analytics reads them one after the other.
THEOREM DashboardBounded == ReportSpec => []ReportBounded
<1>1. ReportInv => ReportBounded
  BY DEF ReportInv
<1> QED BY <1>1, ReportInductive, PTL
=============================================================================
