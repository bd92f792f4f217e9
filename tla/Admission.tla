------------------------------ MODULE Admission ------------------------------
(***************************************************************************)
(* What the venue promises, with requests, stale checks and doors left out:*)
(* a ticket is issued, its holder is admitted once, and whoever was        *)
(* admitted may leave one feedback.  Tickets, admissions and feedback are  *)
(* never taken back, whatever is cancelled.                                *)
(***************************************************************************)
EXTENDS Naturals

CONSTANT Regs  \* registration ids

VARIABLES ticketed,  \* registrations a ticket was ever issued for
          admitted,  \* how often each was admitted
          reviewed   \* how many feedbacks each left

venue == <<ticketed, admitted, reviewed>>

Init ==
  /\ ticketed = {}
  /\ admitted = [r \in Regs |-> 0]
  /\ reviewed = [r \in Regs |-> 0]

Ticket(r) ==
  /\ ticketed' = ticketed \union {r}
  /\ UNCHANGED <<admitted, reviewed>>

Admit(r) ==
  /\ r \in ticketed
  /\ admitted[r] = 0
  /\ admitted' = [admitted EXCEPT ![r] = 1]
  /\ UNCHANGED <<ticketed, reviewed>>

Review(r) ==
  /\ admitted[r] = 1
  /\ reviewed[r] = 0
  /\ reviewed' = [reviewed EXCEPT ![r] = 1]
  /\ UNCHANGED <<ticketed, admitted>>

Next == \E r \in Regs : Ticket(r) \/ Admit(r) \/ Review(r)

Spec == Init /\ [][Next]_venue
=============================================================================
