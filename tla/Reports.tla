------------------------------- MODULE Reports -------------------------------
(***************************************************************************)
(* The organizer's dashboard (RegistrationRepo.event_analytics) while      *)
(* tickets are sold, cancelled and scanned.  Its numbers come from queries *)
(* that run one after the other without a transaction, each on what is     *)
(* committed by then.  tickets_sold, revenue, check_in_rate and            *)
(* average_rating are of the registrations that are CONFIRMED when their   *)
(* query runs; the breakdown shows the counters of the tiers.  Of a count, *)
(* a sum or an average the model keeps the registrations whose rows it is  *)
(* over.  (The CSV export is one query, of one moment: it has nothing to   *)
(* interleave with and is left out.)                                       *)
(***************************************************************************)
EXTENDS Attendance

VARIABLE report  \* the report being read, and what each of its queries returned

reportVars == <<vars, report>>

NoReport == [next |-> "tickets", tickets |-> {}, revenue |-> {}, admitted |-> {}, rated |-> {},
             counters |-> [t \in Tiers |-> 0]]

Confirmed == {r \in Regs : standing[r] = "CONFIRMED"}

ReportTickets ==
  /\ report.next = "tickets"
  /\ report' = [NoReport EXCEPT !.next = "revenue", !.tickets = Confirmed]
  /\ UNCHANGED vars

\* registration__in is a subquery: it is evaluated again.
ReportRevenue ==
  /\ report.next = "revenue"
  /\ report' = [report EXCEPT !.next = "admitted",
                              !.revenue = Confirmed \intersect issued]
  /\ UNCHANGED vars

ReportAdmitted ==
  /\ report.next = "admitted"
  /\ report' = [report EXCEPT !.next = "rated",
                              !.admitted = {r \in Confirmed : checkIns[r] > 0}]
  /\ UNCHANGED vars

ReportRated ==
  /\ report.next = "rated"
  /\ report' = [report EXCEPT !.next = "counters",
                              !.rated = {r \in Confirmed : feedback[r] > 0}]
  /\ UNCHANGED vars

ReportCounters ==
  /\ report.next = "counters"
  /\ report' = [report EXCEPT !.next = "shown", !.counters = sold]
  /\ UNCHANGED vars

ReportDone ==
  /\ report.next = "shown"
  /\ report' = NoReport
  /\ UNCHANGED vars

ReportInit == Init /\ report = NoReport

ReportNext ==
  \/ Next /\ UNCHANGED report
  \/ ReportTickets \/ ReportRevenue \/ ReportAdmitted \/ ReportRated \/ ReportCounters
  \/ ReportDone

ReportSpec == ReportInit /\ [][ReportNext]_reportVars

(***************************************************************************)
(* Properties                                                              *)
(***************************************************************************)

OfTier(S, t) == {r \in S : TierOf[r] = t}

\* Although its numbers are of different moments, a dashboard never shows more
\* tickets, payments, admissions or ratings than seats taken, in any tier and so
\* in sum: the counters are read last and never go down.  (They may show more: a
\* cancellation gives no seat back.)  Of the sales of TicketLedger, that is: next to
\* a PATCH or DELETE of the tier, or to a run of seed_demo, whose rows are there
\* before their counter is saved, a dashboard can show more tickets than seats.
ReportBounded ==
  report.next = "shown" =>
    \A t \in Tiers :
      /\ Cardinality(OfTier(report.tickets, t))  <= report.counters[t]
      /\ Cardinality(OfTier(report.revenue, t))  <= report.counters[t]
      /\ Cardinality(OfTier(report.admitted, t)) <= report.counters[t]
      /\ Cardinality(OfTier(report.rated, t))    <= report.counters[t]
=============================================================================
