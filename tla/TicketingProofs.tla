--------------------------- MODULE TicketingProofs ---------------------------
(***************************************************************************)
(* Proofs about Ticketing, for any finite set of registrations and any     *)
(* workers, tiers, prices and totals.  All of them follow from one         *)
(* inductive invariant, IInv.                                              *)
(***************************************************************************)
EXTENDS TicketingInvariant

\* Prices are those of the start, and the reference "free" is of free tiers.
PricesFixed ==
  /\ \A t \in Tiers : tier[t].price = Price[t]
  /\ \A w \in Workers :
       pc[w] \in {"register_mail", "sale_commit"} /\ ref[w] = FreeRef => Price[TierOf[reg[w]]] = 0
  /\ \A r \in Regs : Paid(r) /\ payment[r].ref = FreeRef => Price[TierOf[r]] = 0

IInv == Core /\ PricesFixed /\ SoldCountsPayments

(***************************************************************************)
(* The counter                                                             *)
(***************************************************************************)

\* A sale for a registration without a payment row counts one and adds one.
LEMMA SellCounts ==
  ASSUME IInv, NEW r \in Regs, NEW i \in Regs \union {FreeRef}, Sell(r, i), ~Paid(r)
  PROVE  SoldCountsPayments'
<1> TypeOK /\ SoldCountsPayments
  BY DEF IInv, Core
<1>1. ASSUME NEW t \in Tiers PROVE tier'[t].sold = Cardinality(PaidIn(t)')
  <2>1. tier[t].sold = Cardinality(PaidIn(t))
    BY DEF SoldCountsPayments, PaidIn
  <2>2. CASE t = TierOf[r]
    BY <2>1, <2>2, SellAddsOne
  <2>3. CASE t # TierOf[r]
    BY <2>1, <2>3, SellAddsOne
  <2>4. QED
    BY <2>2, <2>3
<1>2. QED
  BY <1>1 DEF SoldCountsPayments, PaidIn

\* Counter and payments move together: the commits of a sale add one to each,
\* all other steps leave both alone.
LEMMA CountStep == IInv /\ [Next]_vars => SoldCountsPayments'
<1> SUFFICES ASSUME IInv, [Next]_vars PROVE SoldCountsPayments'
  OBVIOUS
<1> Core
  BY DEF IInv
<1>1. ASSUME NEW w \in Workers, Sale(w) PROVE SoldCountsPayments'
  BY <1>1, SaleSells, SellCounts
<1>2. CASE UNCHANGED <<tier, payment>>
  BY <1>2 DEF IInv, SoldCountsPayments, Paid, RegsIn
<1>3. QED
  BY <1>1, <1>2, OthersDoNotSell DEF vars, db

\* A request that gets the reference "free" found its tier free of charge.
LEMMA FreeRequests ==
  ASSUME IInv, [Next]_vars, NEW w \in Workers, pc'[w] \in {"register_mail", "sale_commit"},
         ref'[w] = FreeRef
  PROVE  Price[TierOf[reg'[w]]] = 0
<1> Core /\ PricesFixed /\ TypeOK /\ WorkerOK(w) /\ RefOK(w)
  BY DEF IInv, Core
<1>1. CASE pc'[w] = pc[w] /\ reg'[w] = reg[w] /\ ref'[w] = ref[w]
  BY <1>1 DEF PricesFixed
<1>2. ASSUME NEW r \in Regs, Arrival(w, r) PROVE Price[TierOf[reg'[w]]] = 0
  BY <1>2, TiersAssumption DEF Arrival, RegisterStart, ConfirmRead, WebhookLockReg, CancelRead,
                               Begin, PricesFixed, TypeOK
<1>3. CASE Step(w) \/ WebhookError(w) \/ Fail(w)
  <2>1. CASE TicketMail(w)
    BY <2>1, RegsAssumption DEF TicketMail, Goto, PricesFixed, RefOK, TypeOK
  <2>2. CASE ~TicketMail(w)
    BY <1>3, <2>2 DEF Step, CreateIntent, RegisterCommit, SaleCommit, ConfirmLock, ConfirmVerify,
                      ConfirmSave, WebhookLockTier, WebhookCommit, WebhookMail, CancelSave,
                      WebhookError, Fail, Goto, End, TypeOK
  <2>3. QED
    BY <2>1, <2>2
<1>4. ASSUME NEW v \in Workers, v # w, Acts(v) PROVE Price[TierOf[reg'[w]]] = 0
  BY <1>1, <1>4, OthersStay
<1>5. ASSUME NEW r \in Regs, PayIntent(r) PROVE Price[TierOf[reg'[w]]] = 0
  BY <1>1, <1>5 DEF PayIntent, request
<1>6. CASE UNCHANGED vars
  BY <1>1, <1>6 DEF vars, request
<1>7. QED
  BY <1>2, <1>3, <1>4, <1>5, <1>6, NextActs DEF Acts

\* No step changes a price, and a sale records its request's reference.
LEMMA PriceStep == IInv /\ [Next]_vars => PricesFixed'
<1> SUFFICES ASSUME IInv, [Next]_vars PROVE PricesFixed'
  OBVIOUS
<1> Core /\ TypeOK /\ PricesFixed
  BY DEF IInv, Core
<1>1. \A w \in Workers :
        pc'[w] \in {"register_mail", "sale_commit"} /\ ref'[w] = FreeRef
          => Price[TierOf[reg'[w]]] = 0
  BY FreeRequests
<1>2. CASE UNCHANGED <<tier, payment>>
  BY <1>1, <1>2 DEF PricesFixed, Paid
<1>3. ASSUME NEW w \in Workers, Sale(w) PROVE PricesFixed'
  <2>1. reg[w] \in Regs /\ ref[w] \in Regs \union {FreeRef} /\ Sell(reg[w], ref[w])
    BY <1>3, SaleSells
  <2>2. ref[w] = FreeRef => Price[TierOf[reg[w]]] = 0
    BY <1>3, RegsAssumption DEF Sale, SaleCommit, WebhookCommit, Goto, Core, RefOK, PricesFixed,
                                WebhookLabels
  <2>3. \A t \in Tiers : tier'[t].price = tier[t].price
    BY <2>1, TiersAssumption DEF TypeOK, Sell, Sold
  <2>4. \A r \in Regs : payment'[r] # NoPayment /\ payment'[r].ref = FreeRef => Price[TierOf[r]] = 0
    <3>1. /\ payment'[reg[w]].ref = ref[w]
          /\ \A r \in Regs : r # reg[w] => payment'[r] = payment[r]
      BY <2>1 DEF Sell, TypeOK
    <3>2. QED
      BY <2>2, <3>1 DEF PricesFixed, Paid
  <2>5. QED
    BY <1>1, <2>3, <2>4 DEF PricesFixed, Paid
<1>4. QED
  BY <1>2, <1>3, OthersDoNotSell DEF vars, db

(***************************************************************************)
(* The theorems                                                            *)
(***************************************************************************)

\* The empty database satisfies the invariant.
LEMMA IInvInit == Init => IInv
<1> SUFFICES ASSUME Init PROVE IInv
  OBVIOUS
<1>1. Core /\ PricesFixed
  BY CoreInit DEF Init, PricesFixed, Paid
<1>2. SoldCountsPayments
  <2>1. \A t \in Tiers : {r \in RegsIn(t) : Paid(r)} = {} /\ tier[t].sold = 0
    BY DEF Init, Paid, RegsIn
  <2>2. QED
    BY <2>1, FS_EmptySet DEF SoldCountsPayments
<1>3. QED
  BY <1>1, <1>2 DEF IInv

\* IInv is inductive: it holds at the start and no step of any worker, client,
\* payment or failure breaks it.
THEOREM Inductive == Spec => []IInv
<1>1. IInv /\ [Next]_vars => IInv'
  BY CoreStep, PriceStep, CountStep DEF IInv
<1>2. QED
  BY IInvInit, <1>1, PTL DEF Spec

\* The rows, events and requests of ticket sales keep their types.
THEOREM TypeCorrect == Spec => []TypeOK
<1>1. IInv => TypeOK
  BY DEF IInv, Core
<1>2. QED
  BY Inductive, <1>1, PTL

\* The sold counter of every tier is the number of its paid registrations,
\* however confirmations, webhooks, cancellations and failures interleave.
THEOREM CounterCorrect == Spec => []SoldCountsPayments
<1>1. IInv => SoldCountsPayments
  BY DEF IInv
<1>2. QED
  BY Inductive, <1>1, PTL

\* Every ticket stands on a payment row and every row on a succeeded intent,
\* or on a free tier.
THEOREM TicketsAreBacked == Spec => []TicketsBacked
<1>1. IInv => TicketsBacked
  BY DEF IInv, Core, RowOK, Backed, PricesFixed, TicketsBacked
<1>2. QED
  BY Inductive, <1>1, PTL

\* The part of it without prices and counters is what the steps below need.
LEMMA CoreInductive == Spec => []Core
<1>1. IInv => Core
  BY DEF IInv
<1>2. QED
  BY Inductive, <1>1, PTL

\* Cancelling an issued ticket is final.
THEOREM CancelOfIssuedIsFinal == Spec => IssuedCancelIsFinal
BY CoreInductive, IssuedCancelStep, PTL DEF Spec, IssuedCancelIsFinal

\* A cancelled registration is confirmed only by requests that had read PENDING
\* before, and each of them is spent by it.
THEOREM CancelStopsArrivals == Spec => CancelledGainsNothing
BY CoreInductive, CancelledGainStep, PTL DEF Spec, CancelledGainsNothing

\* At its limit a tier sells on only through the webhook.
THEOREM ServicesRespectCapacity == Spec => OnlyWebhookOversells
<1>1. Core /\ [Next]_vars =>
        [\A t \in Tiers :
           tier'[t].sold > tier[t].sold /\ Remaining(t) <= 0
             => \E w \in Workers : pc[w] = "webhook_commit" /\ pc'[w] = "webhook_mail"]_vars
  <2> SUFFICES ASSUME Core, Next, NEW t \in Tiers, tier'[t].sold > tier[t].sold, Remaining(t) <= 0
               PROVE  \E w \in Workers : pc[w] = "webhook_commit" /\ pc'[w] = "webhook_mail"
    OBVIOUS
  <2> TypeOK
    BY DEF Core
  <2>1. PICK w \in Workers : Sale(w)
    BY OthersDoNotSell, tier'[t].sold > tier[t].sold DEF TypeOK
  <2>2. TierOf[reg[w]] = t
    <3>1. Sell(reg[w], ref[w])
      BY <2>1, SaleSells
    <3>2. t # TierOf[reg[w]] => tier'[t] = tier[t]
      BY <3>1 DEF Sell, Sold, TypeOK
    <3>3. tier[t].sold \in Nat
      BY DEF TypeOK
    <3>4. QED
      BY <3>2, <3>3, tier'[t].sold > tier[t].sold
  <2>3. ~SaleCommit(w)
    BY <2>2, Remaining(t) <= 0 DEF SaleCommit, Core, WorkerOK, SeatedLabels, Remaining, TypeOK
  <2>4. QED
    BY <2>1, <2>3 DEF Sale, WebhookCommit, Goto, TypeOK
<1>2. QED
  BY CoreInductive, <1>1, PTL DEF Spec, OnlyWebhookOversells

(***************************************************************************)
(* Refinement of TicketLedger                                              *)
(***************************************************************************)

Settled == {r \in Regs : intent[r].status = "succeeded"}
Issued  == {r \in Regs : Paid(r)}

\* The commits of a sale issue the ticket in the ledger.
LEMMA SaleIssues ==
  ASSUME IInv, NEW w \in Workers, Sale(w)
  PROVE  Ledger!Issue(reg[w])
<1> Core
  BY DEF IInv
<1> TypeOK /\ RowOK(reg[w])
  BY SaleSells DEF Core
<1>1. /\ reg[w] \in Regs /\ ref[w] \in Regs \union {FreeRef} /\ Backed(ref[w])
      /\ ~Paid(reg[w]) /\ Sell(reg[w], ref[w]) /\ UNCHANGED outside
  BY SaleSells
<1>2. IF status[reg[w]] = "NONE" THEN ref[w] = FreeRef ELSE ref[w] \in Regs
  BY <1>1 DEF Sale, SaleCommit, WebhookCommit, Goto, Core, RefOK, WorkerOK, KnownLabels,
              WebhookLabels
<1>3. Ledger!Issuable(reg[w])
  <2>1. CASE status[reg[w]] = "NONE"
    <3>1. pc[w] = "sale_commit" /\ ref[w] = FreeRef
      BY <1>2, <2>1 DEF Sale, SaleCommit, WebhookCommit, Goto, Core, WorkerOK, KnownLabels,
                        WebhookLabels
    <3>2. Price[TierOf[reg[w]]] = 0
      BY <3>1 DEF IInv, PricesFixed
    <3>3. QED
      BY <1>1, <2>1, <3>2, TiersAssumption DEF Ledger!Issuable
  <2>2. CASE status[reg[w]] # "NONE"
    <3>1. status[reg[w]] \in {"PENDING", "CANCELLED"}
      BY <1>1, <2>2 DEF TypeOK, RowOK
    <3>2. ref[w] \in Settled
      BY <1>1, <1>2, <2>2, RegsAssumption DEF Backed, Settled
    <3>3. QED
      BY <3>1, <3>2 DEF Ledger!Issuable, Settled
  <2>3. QED
    BY <2>1, <2>2
<1>4. Issued' = Issued \union {reg[w]}
  <2>1. payment'[reg[w]] # NoPayment
    <3>1. [ref |-> ref[w], amount |-> tier[TierOf[reg[w]]].price] \in PaymentRow
      BY <1>1, TiersAssumption DEF PaymentRow, TypeOK
    <3>2. QED
      BY <1>1, <3>1, PaymentAssumption DEF Sell, TypeOK
  <2>2. \A q \in Regs : q # reg[w] => payment'[q] = payment[q]
    BY <1>1 DEF Sell, TypeOK
  <2>3. QED
    BY <1>1, <2>1, <2>2 DEF Issued, Paid
<1>5. [t \in Tiers |-> tier'[t].sold]
        = [[t \in Tiers |-> tier[t].sold] EXCEPT ![TierOf[reg[w]]] = @ + 1]
  BY <1>1, TiersAssumption DEF Sell, Sold, TypeOK
<1>6. Settled' = Settled
  BY <1>1 DEF Settled, outside
<1>7. QED
  BY <1>1, <1>3, <1>4, <1>5, <1>6 DEF Ledger!Issue, Sell, Settled, Issued, Paid

\* Every step of ticket sales is a step of the ledger or leaves it alone.
LEMMA LedgerStep == IInv /\ [Next]_vars => [Ledger!Next]_(Ledger!ledger)
<1> SUFFICES ASSUME IInv, [Next]_vars PROVE [Ledger!Next]_(Ledger!ledger)
  OBVIOUS
<1> Core /\ TypeOK
  BY DEF IInv, Core
<1>1. ASSUME NEW w \in Workers, Sale(w) PROVE Ledger!Next
  <2>1. reg[w] \in Regs
    BY <1>1, SaleSells
  <2>2. Ledger!Issue(reg[w])
    BY <1>1, SaleIssues
  <2>3. QED
    BY <2>1, <2>2 DEF Ledger!Next, Ledger!Issue, Ledger!Issuable
<1> USE DEF Settled, Issued, Paid
<1>2. ASSUME NEW w \in Workers, RegisterCommit(w) PROVE Ledger!Next
  <2>1. reg[w] \in Regs /\ status[reg[w]] = "NONE"
    BY <1>2 DEF RegisterCommit, Core, WorkerOK, RegisterLabels
  <2>2. Ledger!Request(reg[w])
    BY <1>2, <2>1 DEF RegisterCommit, Ledger!Request, outside
  <2>3. QED
    BY <2>1, <2>2 DEF Ledger!Next
<1>3. ASSUME NEW w \in Workers, CancelSave(w) PROVE [Ledger!Next]_(Ledger!ledger)
  <2>1. reg[w] \in Regs /\ status[reg[w]] # "NONE"
    BY <1>3 DEF CancelSave, Core, WorkerOK, KnownLabels
  <2>2. UNCHANGED <<tier, payment, intent>>
    BY <1>3 DEF CancelSave, outside
  <2>3. CASE status[reg[w]] = "CANCELLED"
    <3>1. status' = status
      BY <1>3, <2>1, <2>3 DEF CancelSave, TypeOK
    <3>2. QED
      BY <2>2, <3>1 DEF Ledger!ledger
  <2>4. CASE status[reg[w]] # "CANCELLED"
    <3>1. Ledger!Cancel(reg[w])
      BY <1>3, <2>1, <2>2, <2>4 DEF CancelSave, Ledger!Cancel, TypeOK
    <3>2. QED
      BY <2>1, <3>1 DEF Ledger!Next
  <2>5. QED
    BY <2>3, <2>4
<1>4. ASSUME NEW r \in Regs, PayIntent(r) PROVE Ledger!Next
  <2>1. Settled' = Settled \union {r}
    BY <1>4 DEF PayIntent, TypeOK
  <2>2. Ledger!Settle(r)
    BY <1>4, <2>1 DEF PayIntent, Ledger!Settle, db
  <2>3. QED
    BY <2>2 DEF Ledger!Next
<1>5. ASSUME NEW w \in Workers, CreateIntent(w) PROVE UNCHANGED Ledger!ledger
  <2>1. reg[w] \in Regs /\ intent[reg[w]].status = "none"
    BY <1>5 DEF CreateIntent, Goto, Core, WorkerOK
  <2>2. Settled' = Settled
    BY <1>5, <2>1 DEF CreateIntent, TypeOK
  <2>3. QED
    BY <1>5, <2>2 DEF CreateIntent, Ledger!ledger, db
<1>6. ASSUME NEW w \in Workers,
             \/ TicketMail(w) \/ ConfirmLock(w) \/ ConfirmVerify(w) \/ ConfirmSave(w)
             \/ WebhookLockTier(w) \/ WebhookMail(w) \/ WebhookError(w) \/ Fail(w)
             \/ \E r \in Regs : Arrival(w, r)
      PROVE  UNCHANGED Ledger!ledger
  <2>1. UNCHANGED <<tier, status, payment, intent>>
    BY <1>6 DEF TicketMail, ConfirmLock, ConfirmVerify, ConfirmSave, WebhookLockTier, WebhookMail,
                WebhookError, Fail, Arrival, RegisterStart, ConfirmRead, WebhookLockReg,
                CancelRead, db, outside
  <2>2. QED
    BY <2>1 DEF Ledger!ledger
<1>7. CASE UNCHANGED vars
  BY <1>7 DEF vars, db, outside, Ledger!ledger
<1>8. QED
  BY <1>1, <1>2, <1>3, <1>4, <1>5, <1>6, <1>7 DEF Next, Step, Sale

\* Ticket sales implement the ledger: at most one ticket per registration,
\* issued against a settled payment or on a free tier, and counted as issued.
THEOREM ImplementsLedger == Spec => KeepsLedger
<1>1. Init => Ledger!Init
  BY DEF Init, Ledger!Init, Paid
<1>2. IInv /\ [Next]_vars => [Ledger!Next]_(Ledger!ledger)
  BY LedgerStep
<1>3. QED
  BY Inductive, <1>1, <1>2, PTL DEF Spec, KeepsLedger, Ledger!Spec
=============================================================================
