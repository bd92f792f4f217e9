---------------------------- MODULE TicketLedger ----------------------------
(***************************************************************************)
(* What ticket sales promise, with requests, row locks and processes left  *)
(* out: a registration is requested, a payment for it is settled, a ticket *)
(* is issued for it at most once and only against a settled payment (or on *)
(* a free tier), it may be cancelled, and the sold counter of its tier     *)
(* moves in the same step as the issue and in no other.                    *)
(*                                                                         *)
(* The ledger promises no capacity: the webhook path of the code issues    *)
(* without looking at it.  Cancelling gives no seat back, as in the code.  *)
(***************************************************************************)
EXTENDS Integers

CONSTANTS Regs,      \* registration ids
          Tiers,     \* ticket tiers
          TierOf,    \* the tier of each registration
          FreeTiers  \* the tiers with price 0

VARIABLES standing,  \* standing[r]: the status column of r, "NONE" before the row exists
          settled,   \* registrations whose own payment has succeeded
          issued,    \* registrations a ticket was ever issued for
          sold       \* sold[t]: the counter of tier t

ledger == <<standing, settled, issued, sold>>

Init ==
  /\ standing = [r \in Regs |-> "NONE"]
  /\ settled = {}
  /\ issued = {}
  /\ sold = [t \in Tiers |-> 0]

Request(r) ==
  /\ standing[r] = "NONE"
  /\ standing' = [standing EXCEPT ![r] = "PENDING"]
  /\ UNCHANGED <<settled, issued, sold>>

Settle(r) ==
  /\ standing[r] # "NONE"
  /\ settled' = settled \union {r}
  /\ UNCHANGED <<standing, issued, sold>>

\* On a free tier the row is born with its ticket.  On a paid one somebody has
\* paid; a cancellation that lost the race to the confirmation is overwritten.
Issuable(r) ==
  \/ standing[r] = "NONE" /\ TierOf[r] \in FreeTiers
  \/ standing[r] \in {"PENDING", "CANCELLED"} /\ settled # {}

Issue(r) ==
  /\ Issuable(r)
  /\ r \notin issued
  /\ standing' = [standing EXCEPT ![r] = "CONFIRMED"]
  /\ issued' = issued \union {r}
  /\ sold' = [sold EXCEPT ![TierOf[r]] = @ + 1]
  /\ UNCHANGED settled

Cancel_Restock(r) ==
  /\ standing[r] \in {"PENDING", "CONFIRMED"}
  /\ standing' = [standing EXCEPT ![r] = "CANCELLED"]
  /\ sold' = [sold EXCEPT ![TierOf[r]] = @ - 1]
  /\ UNCHANGED <<settled, issued>>
Cancel(r) ==
  /\ standing[r] \in {"PENDING", "CONFIRMED"}
  /\ standing' = [standing EXCEPT ![r] = "CANCELLED"]
  /\ UNCHANGED <<settled, issued, sold>>

Next == \E r \in Regs : Request(r) \/ Settle(r) \/ Issue(r) \/ Cancel(r)

Spec == Init /\ [][Next]_ledger
=============================================================================
