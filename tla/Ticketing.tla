------------------------------ MODULE Ticketing ------------------------------
(***************************************************************************)
(* Ticket sales of the EventEase backend: registration, confirmation by    *)
(* the client, confirmation by the Stripe webhook, and cancellation        *)
(* (core/services/register_for_event.py, core/stripe_webhook.py,           *)
(* registrations/views.py), run by concurrent workers against one          *)
(* database, one payment provider and one mail server.                     *)
(*                                                                         *)
(* Granularity.  A label of pc is a point where the code is about to run a *)
(* statement another process can be interleaved with: a query that reads   *)
(* without a lock, a statement that waits for a row lock, a call to Stripe *)
(* or to the mail server, a commit.  The database runs READ COMMITTED, so  *)
(* what a transaction writes appears at its commit and a rollback leaves   *)
(* no trace; what it did outside the database (an intent, an email) stays. *)
(* A row lock is held from the label after the statement that takes it to  *)
(* the end of the transaction, so which locks a worker holds is a function *)
(* of its label (HoldsTier, HoldsReg), and a transaction that ends frees   *)
(* them all at once.                                                       *)
(*                                                                         *)
(* Amounts are in cents.  The primary key r of a registration is a name;   *)
(* TierOf[r] is the tier asked for in the request that creates it.  The    *)
(* PaymentIntent created for r is named r too: its metadata carries r.     *)
(***************************************************************************)
EXTENDS Integers, FiniteSets

CONSTANTS Workers,    \* threads that serve requests
          Regs,       \* primary keys of registrations
          Tiers,      \* ticket tiers
          TierOf,     \* the tier of each registration
          Price,      \* price of each tier, in cents
          Total,      \* quantity_total of each tier
          NoReg,      \* no registration, no payment intent
          FreeRef,    \* gateway_ref "free"
          NoPayment   \* a registration without a payment row

ASSUME RegsAssumption ==
  /\ IsFiniteSet(Regs)
  /\ NoReg \notin Regs
  /\ FreeRef \notin Regs \union {NoReg}

ASSUME TiersAssumption ==
  /\ TierOf \in [Regs -> Tiers]
  /\ Price \in [Tiers -> Nat]
  /\ Total \in [Tiers -> Nat \ {0}]

PaymentRow == [ref : Regs \union {FreeRef}, amount : Nat]

ASSUME PaymentAssumption == NoPayment \notin PaymentRow

VARIABLES
  tier,     \* rows of ticket_tier: price, total, sold
  status,   \* status column of registration; "NONE" while the row is absent
  payment,  \* payment row of each registration, or NoPayment
  intent,   \* PaymentIntents at Stripe, by the registration in their metadata
  hook,     \* the payment_intent.succeeded event of r: none, due, acked
  mailed,   \* registrations a ticket email was sent for
  pc,       \* what each worker runs next
  reg,      \* the registration its request is about
  ref       \* the payment reference its request carries

db      == <<tier, status, payment>>
outside == <<intent, hook, mailed>>
request == <<pc, reg, ref>>
vars    == <<db, outside, request>>

RegisterLabels == {"register_intent", "register_commit", "register_mail"}
ConfirmLabels  == {"confirm_lock", "confirm_verify", "confirm_save", "confirm_mail"}
WebhookLabels  == {"webhook_tier", "webhook_commit", "webhook_mail"}
Labels == RegisterLabels \union ConfirmLabels \union WebhookLabels
            \union {"idle", "sale_commit", "cancel_save"}

TypeOK ==
  /\ tier \in [Tiers -> [price : Nat, total : Nat \ {0}, sold : Nat]]
  /\ status \in [Regs -> {"NONE", "PENDING", "CONFIRMED", "CANCELLED"}]
  /\ payment \in [Regs -> PaymentRow \union {NoPayment}]
  /\ intent \in [Regs -> [status : {"none", "open", "succeeded"}, amount : Nat]]
  /\ hook \in [Regs -> {"none", "due", "acked"}]
  /\ mailed \subseteq Regs
  /\ pc \in [Workers -> Labels]
  /\ reg \in [Workers -> Regs \union {NoReg}]
  /\ ref \in [Workers -> Regs \union {FreeRef, NoReg}]

Init ==
  /\ tier = [t \in Tiers |-> [price |-> Price[t], total |-> Total[t], sold |-> 0]]
  /\ status = [r \in Regs |-> "NONE"]
  /\ payment = [r \in Regs |-> NoPayment]
  /\ intent = [r \in Regs |-> [status |-> "none", amount |-> 0]]
  /\ hook = [r \in Regs |-> "none"]
  /\ mailed = {}
  /\ pc = [w \in Workers |-> "idle"]
  /\ reg = [w \in Workers |-> NoReg]
  /\ ref = [w \in Workers |-> NoReg]

(***************************************************************************)
(* Row locks                                                               *)
(***************************************************************************)

\* Labels past get_tier, the SELECT ... FOR UPDATE on the tier row.
TierHolding == RegisterLabels \union
  {"confirm_verify", "confirm_save", "confirm_mail", "webhook_commit", "sale_commit"}

\* Labels past the statement that locks the registration row.  A row that was
\* inserted and not yet committed belongs to the transaction that inserted it.
RegHolding == RegisterLabels \union
  {"confirm_mail", "webhook_tier", "webhook_commit", "sale_commit"}

HoldsTier(w, t) == pc[w] \in TierHolding /\ TierOf[reg[w]] = t
HoldsReg(w, r)  == pc[w] \in RegHolding /\ reg[w] = r

TierFree_NoLock(t) == t \in Tiers
TierFree(t) == \A w \in Workers : ~HoldsTier(w, t)

RegFree(r) == \A w \in Workers : ~HoldsReg(w, r)

\* w waits for a row that v has locked.
WaitsOn(w, v) ==
  \/ pc[w] \in {"confirm_lock", "webhook_tier"} /\ HoldsTier(v, TierOf[reg[w]])
  \/ pc[w] \in {"confirm_save", "cancel_save"} /\ HoldsReg(v, reg[w])

(***************************************************************************)
(* Rows and references                                                     *)
(***************************************************************************)

Remaining(t) == tier[t].total - tier[t].sold

\* A key the sequence has not handed out.  It never hands one out twice; a key
\* whose request was rolled back before anything left the database has been
\* seen by nobody and stands for a new one.
Fresh(r) ==
  /\ status[r] = "NONE"
  /\ intent[r].status = "none"
  /\ r \notin mailed
  /\ RegFree(r)

\* The unique constraint behind Payment.registration, a OneToOneField.
Insertable_NoConstraint(r) == r \in Regs
Insertable(r) == payment[r] = NoPayment

\* retrieve_intent returned an intent and its status is "succeeded".
Verified_AnyStatus(i) == i # NoReg
Verified(i) == i # NoReg /\ intent[i].status = "succeeded"

\* The payment_intent_id values a client can hold: those of the intents whose
\* client secret some request returned.
KnownIntents == {i \in Regs : status[i] # "NONE" /\ intent[i].status # "none"}

Sold_Decremented(t) == [tier EXCEPT ![t].sold = @ - 1]
Sold(t) == [tier EXCEPT ![t].sold = @ + 1]   \* decrement_inventory

\* The writes of a sale: status, counter, payment row.
Sell(r, i) ==
  /\ status' = [status EXCEPT ![r] = "CONFIRMED"]
  /\ tier' = Sold(TierOf[r])
  /\ payment' = [payment EXCEPT ![r] = [ref |-> i, amount |-> tier[TierOf[r]].price]]

(***************************************************************************)
(* Requests                                                                *)
(***************************************************************************)

Begin(w, r, i, label) ==
  /\ pc[w] = "idle"
  /\ pc' = [pc EXCEPT ![w] = label]
  /\ reg' = [reg EXCEPT ![w] = r]
  /\ ref' = [ref EXCEPT ![w] = i]

Goto(w, from, to) ==
  /\ pc[w] = from
  /\ pc' = [pc EXCEPT ![w] = to]
  /\ UNCHANGED <<reg, ref>>

\* The request is answered and its transaction, if any, is over.
End(w) ==
  /\ pc' = [pc EXCEPT ![w] = "idle"]
  /\ reg' = [reg EXCEPT ![w] = NoReg]
  /\ ref' = [ref EXCEPT ![w] = NoReg]

(***************************************************************************)
(* RegisterForEventService.execute.  A sold-out tier is refused with       *)
(* CapacityExhaustedError and changes nothing, so it takes no step.        *)
(***************************************************************************)

RegisterStart(w, r) ==
  /\ Fresh(r)
  /\ TierFree(TierOf[r])
  /\ Remaining(TierOf[r]) > 0
  /\ \/ tier[TierOf[r]].price = 0 /\ Begin(w, r, FreeRef, "register_mail")
     \/ tier[TierOf[r]].price > 0 /\ Begin(w, r, r, "register_intent")
  /\ UNCHANGED <<db, outside>>

\* create_intent: Stripe keeps the intent whatever becomes of the transaction.
CreateIntent(w) ==
  /\ Goto(w, "register_intent", "register_commit")
  /\ intent' = [intent EXCEPT ![reg[w]] =
                  [status |-> "open", amount |-> tier[TierOf[reg[w]]].price]]
  /\ UNCHANGED <<db, hook, mailed>>

\* The PENDING row becomes visible and the client gets the secret.
RegisterCommit(w) ==
  /\ pc[w] = "register_commit"
  /\ status' = [status EXCEPT ![reg[w]] = "PENDING"]
  /\ End(w)
  /\ UNCHANGED <<tier, payment, outside>>

\* send_ticket inside the transaction: the mail is out before the commit.
TicketMail(w) ==
  /\ Goto(w, "register_mail", "sale_commit") \/ Goto(w, "confirm_mail", "sale_commit")
  /\ mailed' = mailed \union {reg[w]}
  /\ UNCHANGED <<db, intent, hook>>

\* The commit of a free registration or of a confirmation by the client.
SaleCommit(w) ==
  /\ pc[w] = "sale_commit"
  /\ Sell(reg[w], ref[w])
  /\ End(w)
  /\ UNCHANGED outside

(***************************************************************************)
(* ConfirmRegistrationService.execute, asked for by the client with the    *)
(* intent id it chooses to send, or none.  get_by_id takes no lock.        *)
(***************************************************************************)

ConfirmRead(w, r) ==
  /\ status[r] = "PENDING"
  /\ \E i \in KnownIntents \union {NoReg} : Begin(w, r, i, "confirm_lock")
  /\ UNCHANGED <<db, outside>>

\* get_tier, then the capacity check of the confirmation.
ConfirmLock(w) ==
  /\ pc[w] = "confirm_lock"
  /\ TierFree(TierOf[reg[w]])
  /\ \/ Remaining(TierOf[reg[w]]) > 0 /\ Goto(w, "confirm_lock", "confirm_verify")
     \/ Remaining(TierOf[reg[w]]) <= 0 /\ End(w)
  /\ UNCHANGED <<db, outside>>

ConfirmVerify_PollStripe(w) ==
  /\ Goto(w, "confirm_verify", "confirm_save")
  /\ Verified(ref[w])
  /\ UNCHANGED <<db, outside>>
ConfirmVerify(w) ==
  /\ pc[w] = "confirm_verify"
  /\ \/ Verified(ref[w]) /\ Goto(w, "confirm_verify", "confirm_save")
     \/ ~Verified(ref[w]) /\ End(w)
  /\ UNCHANGED <<db, outside>>

\* The UPDATE of status waits for the row and sets CONFIRMED whatever the row
\* holds by then; inserting a second payment raises IntegrityError.
ConfirmSave(w) ==
  /\ pc[w] = "confirm_save"
  /\ RegFree(reg[w])
  /\ \/ Insertable(reg[w]) /\ Goto(w, "confirm_save", "confirm_mail")
     \/ ~Insertable(reg[w]) /\ End(w)
  /\ UNCHANGED <<db, outside>>

(***************************************************************************)
(* The Stripe webhook.  Stripe delivers an event until it gets a 200, and  *)
(* may deliver one twice.  The events of failed payments and events about  *)
(* unknown registrations only write a log line.                            *)
(***************************************************************************)

Ack(r) == hook' = [hook EXCEPT ![r] = "acked"]

WebhookLockReg_PendingOnly(w, r) ==
  /\ hook[r] # "none"
  /\ status[r] = "PENDING"
  /\ RegFree(r)
  /\ Begin(w, r, r, "webhook_tier")
  /\ UNCHANGED <<db, outside>>
\* The SELECT ... FOR UPDATE locks the registration first ...
WebhookLockReg(w, r) ==
  /\ hook[r] # "none"
  /\ RegFree(r)
  /\ Begin(w, r, r, "webhook_tier")
  /\ UNCHANGED <<db, outside>>

WebhookLockTier_UnlessConfirmed(w) ==
  /\ pc[w] = "webhook_tier"
  /\ TierFree(TierOf[reg[w]])
  /\ \/ status[reg[w]] # "CONFIRMED" /\ Goto(w, "webhook_tier", "webhook_commit") /\ UNCHANGED hook
     \/ status[reg[w]] = "CONFIRMED" /\ End(w) /\ Ack(reg[w])
  /\ UNCHANGED <<db, intent, mailed>>
\* ... then, in the order of its joins, the tier.  There is no capacity check.
WebhookLockTier(w) ==
  /\ pc[w] = "webhook_tier"
  /\ TierFree(TierOf[reg[w]])
  /\ \/ status[reg[w]] = "PENDING" /\ Goto(w, "webhook_tier", "webhook_commit") /\ UNCHANGED hook
     \/ status[reg[w]] # "PENDING" /\ End(w) /\ Ack(reg[w])
  /\ UNCHANGED <<db, intent, mailed>>

WebhookCommit(w) ==
  /\ Goto(w, "webhook_commit", "webhook_mail")
  /\ Insertable(reg[w])
  /\ Sell(reg[w], ref[w])
  /\ UNCHANGED outside

\* send_ticket after the commit, then the 200.
WebhookMail(w) ==
  /\ pc[w] = "webhook_mail"
  /\ mailed' = mailed \union {reg[w]}
  /\ End(w)
  /\ Ack(reg[w])
  /\ UNCHANGED <<db, intent>>

\* Any exception is logged and swallowed: the transaction, if it is still
\* open, is rolled back, and Stripe gets its 200.
WebhookError(w) ==
  /\ pc[w] \in WebhookLabels
  /\ End(w)
  /\ Ack(reg[w])
  /\ UNCHANGED <<db, intent, mailed>>

(***************************************************************************)
(* registration_cancel: a read and an unconditional write, no transaction  *)
(* around them.  The seat is not given back and the payment not refunded.  *)
(***************************************************************************)

CancelRead(w, r) ==
  /\ status[r] \in {"PENDING", "CONFIRMED"}
  /\ Begin(w, r, NoReg, "cancel_save")
  /\ UNCHANGED <<db, outside>>

CancelSave_Restock(w) ==
  /\ pc[w] = "cancel_save"
  /\ RegFree(reg[w])
  /\ status' = [status EXCEPT ![reg[w]] = "CANCELLED"]
  /\ tier' = Sold_Decremented(TierOf[reg[w]])
  /\ End(w)
  /\ UNCHANGED <<payment, outside>>
CancelSave(w) ==
  /\ pc[w] = "cancel_save"
  /\ RegFree(reg[w])
  /\ status' = [status EXCEPT ![reg[w]] = "CANCELLED"]
  /\ End(w)
  /\ UNCHANGED <<tier, payment, outside>>

(***************************************************************************)
(* The environment                                                         *)
(***************************************************************************)

\* The buyer pays with the client secret, which is in the answer to a
\* committed registration; cancelling the registration leaves the intent open.
PayIntent(r) ==
  /\ status[r] # "NONE"
  /\ intent[r].status = "open"
  /\ intent' = [intent EXCEPT ![r].status = "succeeded"]
  /\ hook' = [hook EXCEPT ![r] = "due"]
  /\ UNCHANGED <<db, mailed, request>>

\* A request dies: the worker is killed, Stripe or the mail server raises, the
\* database aborts the transaction.  Nothing is committed.  In a webhook
\* request this is the death of the worker; exceptions are WebhookError.
Fail(w) ==
  /\ pc[w] # "idle"
  /\ End(w)
  /\ UNCHANGED <<db, outside>>

Step(w) ==
  \/ CreateIntent(w) \/ RegisterCommit(w) \/ TicketMail(w) \/ SaleCommit(w)
  \/ ConfirmLock(w) \/ ConfirmVerify(w) \/ ConfirmSave(w)
  \/ WebhookLockTier(w) \/ WebhookCommit(w) \/ WebhookMail(w)
  \/ CancelSave(w)

Arrival(w, r) ==
  RegisterStart(w, r) \/ ConfirmRead(w, r) \/ WebhookLockReg(w, r) \/ CancelRead(w, r)

Next ==
  \/ \E w \in Workers : Step(w) \/ WebhookError(w) \/ Fail(w)
  \/ \E w \in Workers, r \in Regs : Arrival(w, r)
  \/ \E r \in Regs : PayIntent(r)

Spec == Init /\ [][Next]_vars

(***************************************************************************)
(* Fairness.  PostgreSQL queues the waiters of a row lock in order, so a   *)
(* request that waits gets its turn (strong fairness of Step), and its     *)
(* deadlock detector aborts one transaction of every cycle.  Stripe repeats*)
(* an event until it is answered, and only finitely many deliveries of one *)
(* event meet a worker that dies.  Nothing obliges a client to act, a      *)
(* request to fail, or a request not to fail.                              *)
(***************************************************************************)

DeadlockVictim(w) == \E v \in Workers : WaitsOn(w, v) /\ WaitsOn(v, w)

DeadlockAbort ==
  \E w \in Workers :
    /\ DeadlockVictim(w)
    /\ IF pc[w] \in WebhookLabels THEN WebhookError(w) ELSE Fail(w)

Deliver(r) == hook[r] = "due" /\ \E w \in Workers : WebhookLockReg(w, r)

DiesDelivering(r) ==
  \E w \in Workers :
    reg[w] = r /\ pc[w] \in WebhookLabels /\ hook[r] = "due" /\ Fail(w)

Fairness ==
  /\ \A w \in Workers : SF_vars(Step(w))
  /\ WF_vars(DeadlockAbort)
  /\ \A r \in Regs : SF_vars(Deliver(r)) /\ <>[][~DiesDelivering(r)]_vars

FairSpec == Spec /\ Fairness

(***************************************************************************)
(* Safety                                                                  *)
(***************************************************************************)

RegsIn(t) == {r \in Regs : TierOf[r] = t}
Paid(r) == payment[r] # NoPayment

\* quantity_sold of a tier is the number of its registrations with a payment
\* row: whichever of the two confirmation paths, or both, or a redelivery,
\* works on a registration, it is counted once, and a rolled-back sale never.
SoldCountsPayments ==
  \A t \in Tiers : tier[t].sold = Cardinality({r \in RegsIn(t) : Paid(r)})

\* A ticket stands on a payment row, and the row's reference on an intent that
\* has succeeded, unless it is the row of a free registration.
TicketsBacked ==
  \A r \in Regs :
    /\ status[r] = "CONFIRMED" => Paid(r)
    /\ Paid(r) => \/ payment[r].ref = FreeRef /\ Price[TierOf[r]] = 0
                  \/ payment[r].ref \in Regs /\ intent[payment[r].ref].status = "succeeded"

\* A tier at its limit sells on only when a webhook commits: between their
\* capacity check under the tier lock and their commit, the two services admit
\* no other sale of the tier.
OnlyWebhookOversells ==
  [][\A t \in Tiers :
       tier'[t].sold > tier[t].sold /\ Remaining(t) <= 0
         => \E w \in Workers : pc[w] = "webhook_commit" /\ pc'[w] = "webhook_mail"]_vars

\* Cancelling an issued ticket is final: a confirmation that read PENDING
\* before the sale, or a late delivery, cannot bring it back, because only one
\* payment row fits on a registration.
IssuedCancelIsFinal ==
  [][\A r \in Regs : Paid(r) /\ status[r] = "CANCELLED" => status'[r] = "CANCELLED"]_vars

\* The requests that may still confirm r: past their look at its status.
Confirming(r) ==
  {w \in Workers : reg[w] = r /\ pc[w] \in {"confirm_lock", "confirm_verify", "confirm_save",
                                          "confirm_mail", "sale_commit", "webhook_commit"}}

\* A cancelled registration gains nothing: no request that comes later confirms
\* it, though its buyer still pays and Stripe still reports it.  Only the requests
\* that had read PENDING before may, and each of them spends itself doing so.
CancelledGainsNothing ==
  [][\A r \in Regs : status[r] = "CANCELLED" =>
       /\ Confirming(r)' \subseteq Confirming(r)
       /\ status'[r] = "CONFIRMED" => Confirming(r)' # Confirming(r)]_vars

\* Ticket sales keep the ledger (TicketLedger): each registration gets at most
\* one ticket, issued against a settled payment in the step that counts it.
Ledger == INSTANCE TicketLedger WITH
  FreeTiers <- {t \in Tiers : Price[t] = 0},
  standing  <- status,
  settled   <- {r \in Regs : intent[r].status = "succeeded"},
  issued    <- {r \in Regs : Paid(r)},
  sold      <- [t \in Tiers |-> tier[t].sold]

KeepsLedger == Ledger!Spec

(***************************************************************************)
(* Liveness                                                                *)
(***************************************************************************)

\* Every request is answered, although a confirmation and the webhook take the
\* locks of the registration and of its tier in opposite orders.
RequestsFinish == \A w \in Workers : pc[w] # "idle" ~> pc[w] = "idle"

\* Every event Stripe has to deliver is acknowledged in the end.
EventsAcked == \A r \in Regs : hook[r] = "due" ~> hook[r] = "acked"

(***************************************************************************)
(* What the texts of the repository say, and the code does not do          *)
(***************************************************************************)

\* The confirmation checks "capacity again inside the atomic block": a tier
\* never sells more than its total.
NoOversell == \A t \in Tiers : tier[t].sold <= tier[t].total

\* A registration that is "not in PENDING status" is not confirmed.
ConfirmOnlyPending ==
  [][\A r \in Regs : status'[r] = "CONFIRMED" /\ status[r] # "CONFIRMED"
       => status[r] \in {"NONE", "PENDING"}]_vars

\* The webhook is the path "that survives the user closing the browser": a
\* registration that is paid for does not stay PENDING.
PaidIsSettled ==
  \A r \in Regs : intent[r].status = "succeeded" ~> status[r] # "PENDING"

\* The mail says the registration "has been confirmed": no mail is out for a
\* registration that has no ticket and no commit of one under way.
MailMeansTicket ==
  \A r \in mailed :
    Paid(r) \/ \E w \in Workers : pc[w] = "sale_commit" /\ reg[w] = r
=============================================================================
