-------------------------- MODULE TicketingInvariant --------------------------
(***************************************************************************)
(* The inductive invariant of Ticketing that needs no price, total or      *)
(* counter of a tier: types, row locks, what each request knows at each    *)
(* label, and what each row stands on.  TicketingProofs adds what depends  *)
(* on tiers nobody edits, TierAdminProofs what holds while they are edited.*)
(***************************************************************************)
EXTENDS Ticketing, FiniteSetTheorems, TLAPS

(***************************************************************************)
(* The inductive invariant                                                 *)
(***************************************************************************)

\* What a reference stands on when a sale is to be recorded against it.
Backed(i) ==
  \/ i = FreeRef
  \/ i \in Regs /\ intent[i].status = "succeeded"

\* No two transactions hold the same row.
LocksExclusive ==
  \A v, w \in Workers : v # w =>
    /\ pc[v] \in TierHolding /\ pc[w] \in TierHolding => TierOf[reg[v]] # TierOf[reg[w]]
    /\ pc[v] \in RegHolding /\ pc[w] \in RegHolding => reg[v] # reg[w]

\* Labels of requests about a row that is committed.
KnownLabels == ConfirmLabels \union WebhookLabels \union {"cancel_save"}

\* Labels past the capacity check of a service.
SeatedLabels == RegisterLabels \union
  {"confirm_verify", "confirm_save", "confirm_mail", "sale_commit"}

\* Labels at which no payment row can appear under the worker's feet.
UnsoldLabels == RegisterLabels \union {"confirm_mail", "sale_commit"}

WorkerOK(w) ==
  /\ pc[w] # "idle" => reg[w] \in Regs
  /\ pc[w] \in RegisterLabels => status[reg[w]] = "NONE"
  /\ pc[w] = "register_intent" => intent[reg[w]].status = "none"
  /\ pc[w] \in KnownLabels => status[reg[w]] # "NONE"
  /\ pc[w] \in UnsoldLabels => payment[reg[w]] = NoPayment
  /\ pc[w] \in SeatedLabels => Remaining(TierOf[reg[w]]) > 0

RefOK(w) ==
  /\ pc[w] \in {"confirm_lock", "confirm_verify"} => ref[w] \in Regs \union {NoReg}
  /\ pc[w] \in {"confirm_save", "confirm_mail"} \union WebhookLabels =>
       ref[w] \in Regs /\ Backed(ref[w])
  /\ pc[w] \in WebhookLabels => ref[w] = reg[w]
  /\ pc[w] = "register_mail" => ref[w] = FreeRef
  /\ pc[w] = "sale_commit" =>
       /\ Backed(ref[w])
       /\ ref[w] = FreeRef <=> status[reg[w]] = "NONE"

RowOK(r) ==
  /\ status[r] = "CONFIRMED" => Paid(r)
  /\ Paid(r) => status[r] # "NONE" /\ Backed(payment[r].ref)
  /\ hook[r] # "none" => intent[r].status = "succeeded"
  /\ intent[r].status = "succeeded" => status[r] # "NONE"

Core ==
  /\ TypeOK
  /\ LocksExclusive
  /\ \A w \in Workers : WorkerOK(w)
  /\ \A w \in Workers : RefOK(w)
  /\ \A r \in Regs : RowOK(r)

(***************************************************************************)
(* Types                                                                   *)
(***************************************************************************)

\* The database, Stripe and the workers start with values of their types.
LEMMA TypeInit == Init => TypeOK
BY RegsAssumption, TiersAssumption, PaymentAssumption DEF Init, TypeOK, PaymentRow, Labels

\* Ending, starting and moving a request keep the types of its variables.
LEMMA RequestTypes ==
  ASSUME TypeOK, NEW w \in Workers,
         \/ End(w)
         \/ \E from \in Labels, to \in Labels : Goto(w, from, to)
         \/ \E r \in Regs, i \in Regs \union {FreeRef, NoReg}, l \in Labels : Begin(w, r, i, l)
  PROVE  /\ pc' \in [Workers -> Labels]
         /\ reg' \in [Workers -> Regs \union {NoReg}]
         /\ ref' \in [Workers -> Regs \union {FreeRef, NoReg}]
<1>1. "idle" \in Labels
  BY DEF Labels
<1>2. QED
  BY <1>1 DEF TypeOK, End, Goto, Begin

\* A sale against a proper reference keeps the types of the rows.
LEMMA SellTypes ==
  ASSUME TypeOK, NEW r \in Regs, NEW i \in Regs \union {FreeRef}, Sell(r, i)
  PROVE  /\ tier' \in [Tiers -> [price : Nat, total : Nat \ {0}, sold : Nat]]
         /\ status' \in [Regs -> {"NONE", "PENDING", "CONFIRMED", "CANCELLED"}]
         /\ payment' \in [Regs -> PaymentRow \union {NoPayment}]
<1>1. TierOf[r] \in Tiers
  BY TiersAssumption
<1>2. tier[TierOf[r]] \in [price : Nat, total : Nat \ {0}, sold : Nat]
  BY <1>1 DEF TypeOK
<1>3. [tier[TierOf[r]] EXCEPT !.sold = @ + 1] \in [price : Nat, total : Nat \ {0}, sold : Nat]
  BY <1>2
<1>4. tier' \in [Tiers -> [price : Nat, total : Nat \ {0}, sold : Nat]]
  BY <1>1, <1>3 DEF TypeOK, Sell, Sold
<1>5. [ref |-> i, amount |-> tier[TierOf[r]].price] \in PaymentRow
  BY <1>2 DEF PaymentRow
<1>6. QED
  BY <1>4, <1>5 DEF TypeOK, Sell

\* Every step of a worker, a buyer or a failure keeps the types; the references
\* a sale records need RefOK of the invariant.
LEMMA TypeStep == Core /\ [Next]_vars => TypeOK'
<1> SUFFICES ASSUME Core, [Next]_vars PROVE TypeOK'
  OBVIOUS
<1> TypeOK
  BY DEF Core
<1>1. ASSUME NEW w \in Workers, NEW r \in Regs, Arrival(w, r) PROVE TypeOK'
  <2>1. \E i \in Regs \union {FreeRef, NoReg}, l \in Labels : Begin(w, r, i, l)
    BY <1>1 DEF Arrival, RegisterStart, ConfirmRead, WebhookLockReg, CancelRead, KnownIntents,
                Labels, RegisterLabels, ConfirmLabels, WebhookLabels
  <2>2. UNCHANGED <<db, outside>>
    BY <1>1 DEF Arrival, RegisterStart, ConfirmRead, WebhookLockReg, CancelRead
  <2>3. QED
    BY <2>1, <2>2, RequestTypes DEF TypeOK, db, outside
<1>2. ASSUME NEW w \in Workers, WebhookError(w) \/ Fail(w) PROVE TypeOK'
  <2>1. pc' \in [Workers -> Labels] /\ reg' \in [Workers -> Regs \union {NoReg}]
        /\ ref' \in [Workers -> Regs \union {FreeRef, NoReg}]
    BY <1>2, RequestTypes DEF WebhookError, Fail
  <2>2. hook' \in [Regs -> {"none", "due", "acked"}]
    BY <1>2 DEF WebhookError, Fail, Ack, TypeOK, outside
  <2>3. QED
    BY <1>2, <2>1, <2>2 DEF WebhookError, Fail, TypeOK, db, outside
<1>3. ASSUME NEW r \in Regs, PayIntent(r) PROVE TypeOK'
  BY <1>3 DEF PayIntent, TypeOK, db, request
<1>4. ASSUME NEW w \in Workers, Step(w) PROVE TypeOK'
  <2>1. pc' \in [Workers -> Labels] /\ reg' \in [Workers -> Regs \union {NoReg}]
        /\ ref' \in [Workers -> Regs \union {FreeRef, NoReg}]
    <3>1. \/ End(w)
          \/ \E from \in Labels, to \in Labels : Goto(w, from, to)
      BY <1>4 DEF Step, CreateIntent, RegisterCommit, TicketMail, SaleCommit, ConfirmLock,
                  ConfirmVerify, ConfirmSave, WebhookLockTier, WebhookCommit, WebhookMail,
                  CancelSave, Labels, RegisterLabels, ConfirmLabels, WebhookLabels
    <3>2. QED
      BY <3>1, RequestTypes
  <2>2. reg[w] \in Regs
    <3>1. pc[w] # "idle"
      BY <1>4 DEF Step, CreateIntent, RegisterCommit, TicketMail, SaleCommit, ConfirmLock,
                  ConfirmVerify, ConfirmSave, WebhookLockTier, WebhookCommit, WebhookMail,
                  CancelSave, Goto
    <3>2. QED
      BY <3>1 DEF Core, WorkerOK
  <2>3. TierOf[reg[w]] \in Tiers /\ tier[TierOf[reg[w]]].price \in Nat
    BY <2>2, TiersAssumption DEF TypeOK
  <2>4. CASE CreateIntent(w)
    <3>1. [status |-> "open", amount |-> tier[TierOf[reg[w]]].price]
            \in [status : {"none", "open", "succeeded"}, amount : Nat]
      BY <2>3
    <3>2. QED
      BY <2>1, <2>4, <3>1 DEF CreateIntent, TypeOK, db
  <2>5. CASE SaleCommit(w)
    <3>1. ref[w] \in Regs \union {FreeRef}
      BY <2>5 DEF SaleCommit, Core, RefOK, Backed
    <3>2. QED
      BY <2>1, <2>2, <2>5, <3>1, SellTypes DEF SaleCommit, TypeOK, outside
  <2>6. CASE WebhookCommit(w)
    <3>1. ref[w] \in Regs \union {FreeRef}
      BY <2>6 DEF WebhookCommit, Goto, Core, RefOK, WebhookLabels
    <3>2. QED
      BY <2>1, <2>2, <2>6, <3>1, SellTypes DEF WebhookCommit, TypeOK, outside
  <2>7. CASE RegisterCommit(w) \/ CancelSave(w)
    BY <2>1, <2>2, <2>7 DEF RegisterCommit, CancelSave, TypeOK, outside
  <2>8. CASE TicketMail(w) \/ WebhookMail(w) \/ WebhookLockTier(w)
    BY <2>1, <2>2, <2>8 DEF TicketMail, WebhookMail, WebhookLockTier, Ack, TypeOK, db
  <2>9. CASE ConfirmLock(w) \/ ConfirmVerify(w) \/ ConfirmSave(w)
    BY <2>1, <2>9 DEF ConfirmLock, ConfirmVerify, ConfirmSave, TypeOK, db, outside
  <2>10. QED
    BY <1>4, <2>4, <2>5, <2>6, <2>7, <2>8, <2>9 DEF Step
<1>5. CASE UNCHANGED vars
  BY <1>5 DEF TypeOK, vars, db, outside, request
<1>6. QED
  BY <1>1, <1>2, <1>3, <1>4, <1>5 DEF Next

(***************************************************************************)
(* Locks                                                                   *)
(***************************************************************************)

Acts(w) == Step(w) \/ WebhookError(w) \/ Fail(w) \/ \E r \in Regs : Arrival(w, r)

\* A step of one worker leaves the requests of the others alone.
LEMMA OthersStay ==
  ASSUME TypeOK, NEW w \in Workers, Acts(w), NEW v \in Workers, v # w
  PROVE  pc'[v] = pc[v] /\ reg'[v] = reg[v] /\ ref'[v] = ref[v]
<1>1. \/ End(w)
      \/ \E from, to \in Labels : Goto(w, from, to)
      \/ \E r, i, l : Begin(w, r, i, l)
  BY DEF Acts, Step, Arrival, CreateIntent, RegisterCommit, TicketMail, SaleCommit, ConfirmLock,
         ConfirmVerify, ConfirmSave, WebhookLockTier, WebhookCommit, WebhookMail, CancelSave,
         WebhookError, Fail, RegisterStart, ConfirmRead, WebhookLockReg, CancelRead,
         Labels, RegisterLabels, ConfirmLabels, WebhookLabels
<1>2. QED
  BY <1>1 DEF TypeOK, End, Goto, Begin

\* A worker that comes to hold a row either held it before or found it free.
LEMMA TakesFreeLocks ==
  ASSUME TypeOK, NEW w \in Workers, Acts(w)
  PROVE  /\ pc'[w] \in TierHolding =>
              \/ pc[w] \in TierHolding /\ reg'[w] = reg[w]
              \/ TierFree(TierOf[reg'[w]])
         /\ pc'[w] \in RegHolding =>
              \/ pc[w] \in RegHolding /\ reg'[w] = reg[w]
              \/ RegFree(reg'[w])
<1> USE DEF TierHolding, RegHolding, RegisterLabels
<1>1. ASSUME NEW r \in Regs, Arrival(w, r)
      PROVE  /\ pc'[w] \in TierHolding => TierFree(TierOf[reg'[w]])
             /\ pc'[w] \in RegHolding => RegFree(reg'[w])
  BY <1>1 DEF Arrival, RegisterStart, ConfirmRead, WebhookLockReg, CancelRead, Begin, Fresh, TypeOK
<1>2. ASSUME WebhookError(w) \/ Fail(w)
      PROVE  pc'[w] \notin TierHolding /\ pc'[w] \notin RegHolding
  BY <1>2 DEF WebhookError, Fail, End, TypeOK
<1>3. CASE CreateIntent(w) \/ TicketMail(w) \/ ConfirmVerify(w) \/ WebhookCommit(w)
  BY <1>3 DEF CreateIntent, TicketMail, ConfirmVerify, WebhookCommit, Goto, End, TypeOK
<1>4. CASE RegisterCommit(w) \/ SaleCommit(w) \/ WebhookMail(w) \/ CancelSave(w)
  BY <1>4 DEF RegisterCommit, SaleCommit, WebhookMail, CancelSave, End, TypeOK
<1>5. CASE ConfirmLock(w) \/ ConfirmSave(w) \/ WebhookLockTier(w)
  BY <1>5 DEF ConfirmLock, ConfirmSave, WebhookLockTier, Goto, End, TypeOK
<1>6. QED
  BY <1>1, <1>2, <1>3, <1>4, <1>5 DEF Acts, Step

\* Next is a step of one worker or a payment at Stripe.
LEMMA NextActs == Next <=> (\E w \in Workers : Acts(w)) \/ (\E r \in Regs : PayIntent(r))
BY DEF Next, Acts

\* A row lock is taken only when free, so no two transactions come to hold one.
LEMMA LocksStep == Core /\ [Next]_vars => LocksExclusive'
<1> SUFFICES ASSUME Core, [Next]_vars PROVE LocksExclusive'
  OBVIOUS
<1> TypeOK /\ LocksExclusive
  BY DEF Core
<1>1. ASSUME NEW w \in Workers, Acts(w) PROVE LocksExclusive'
  <2>1. ASSUME NEW v \in Workers, v # w
        PROVE  /\ pc'[v] \in TierHolding /\ pc'[w] \in TierHolding
                    => TierOf[reg'[v]] # TierOf[reg'[w]]
               /\ pc'[v] \in RegHolding /\ pc'[w] \in RegHolding => reg'[v] # reg'[w]
    <3>1. pc'[v] = pc[v] /\ reg'[v] = reg[v]
      BY <1>1, <2>1, OthersStay
    <3>2. QED
      BY <1>1, <2>1, <3>1, TakesFreeLocks DEF LocksExclusive, TierFree, RegFree, HoldsTier, HoldsReg
  <2>2. ASSUME NEW u \in Workers, NEW v \in Workers, u # v, u # w, v # w
        PROVE  /\ pc'[u] \in TierHolding /\ pc'[v] \in TierHolding
                    => TierOf[reg'[u]] # TierOf[reg'[v]]
               /\ pc'[u] \in RegHolding /\ pc'[v] \in RegHolding => reg'[u] # reg'[v]
    <3>1. pc'[u] = pc[u] /\ reg'[u] = reg[u] /\ pc'[v] = pc[v] /\ reg'[v] = reg[v]
      BY <1>1, <2>2, OthersStay
    <3>2. QED
      BY <2>2, <3>1 DEF LocksExclusive
  <2>3. QED
    BY <2>1, <2>2 DEF LocksExclusive
<1>2. ASSUME NEW r \in Regs, PayIntent(r) PROVE LocksExclusive'
  BY <1>2 DEF PayIntent, request, LocksExclusive
<1>3. CASE UNCHANGED vars
  BY <1>3 DEF vars, request, LocksExclusive
<1>4. QED
  BY <1>1, <1>2, <1>3, NextActs

(***************************************************************************)
(* Requests and rows                                                       *)
(***************************************************************************)

\* What a step of w does to the rows, for a worker v that is not w: the row
\* v has locked, or reserved, is not written, and no row goes back to "NONE".
LEMMA RowsOfOthers ==
  ASSUME Core, NEW w \in Workers, Acts(w), NEW v \in Workers, v # w, pc[v] # "idle"
  PROVE  /\ pc[v] \in RegHolding => /\ status'[reg[v]] = status[reg[v]]
                                    /\ payment'[reg[v]] = payment[reg[v]]
                                    /\ intent'[reg[v]] = intent[reg[v]]
         /\ status[reg[v]] # "NONE" => status'[reg[v]] # "NONE"
         /\ pc[v] \in TierHolding =>
              tier'[TierOf[reg[v]]] = tier[TierOf[reg[v]]]
<1> TypeOK /\ LocksExclusive /\ WorkerOK(w) /\ WorkerOK(v)
  BY DEF Core
<1> reg[v] \in Regs /\ TierOf[reg[v]] \in Tiers
  BY TiersAssumption DEF WorkerOK
<1>1. CASE SaleCommit(w) \/ WebhookCommit(w)
  <2>1. reg[w] \in Regs /\ pc[w] \in TierHolding \intersect RegHolding /\ Sell(reg[w], ref[w])
        /\ intent' = intent
    BY <1>1 DEF SaleCommit, WebhookCommit, Goto, WorkerOK, TierHolding, RegHolding, outside
  <2>2. /\ pc[v] \in RegHolding => reg[v] # reg[w]
        /\ pc[v] \in TierHolding => TierOf[reg[v]] # TierOf[reg[w]]
    BY <2>1 DEF LocksExclusive
  <2>3. QED
    BY <2>1, <2>2 DEF Sell, Sold, TypeOK
<1>2. CASE RegisterCommit(w)
  <2>1. pc[w] \in RegHolding /\ reg[w] \in Regs
    BY <1>2 DEF RegisterCommit, WorkerOK, RegHolding, RegisterLabels
  <2>2. QED
    BY <1>2, <2>1 DEF RegisterCommit, LocksExclusive, TypeOK, outside
<1>3. CASE CancelSave(w)
  BY <1>3 DEF CancelSave, RegFree, HoldsReg, TypeOK, outside
<1>4. CASE CreateIntent(w)
  <2>1. pc[w] \in RegHolding
    BY <1>4 DEF CreateIntent, Goto, RegHolding, RegisterLabels
  <2>2. QED
    BY <1>4, <2>1 DEF CreateIntent, Goto, LocksExclusive, TypeOK, db
<1>5. CASE \/ TicketMail(w) \/ ConfirmLock(w) \/ ConfirmVerify(w) \/ ConfirmSave(w)
           \/ WebhookLockTier(w) \/ WebhookMail(w) \/ WebhookError(w) \/ Fail(w)
           \/ \E r \in Regs : Arrival(w, r)
  BY <1>5 DEF TicketMail, ConfirmLock, ConfirmVerify, ConfirmSave, WebhookLockTier, WebhookMail,
              WebhookError, Fail, Arrival, RegisterStart, ConfirmRead, WebhookLockReg, CancelRead,
              db, outside
<1>6. QED
  BY <1>1, <1>2, <1>3, <1>4, <1>5 DEF Acts, Step

\* What a request has read under its locks, or of a committed row, stays true
\* while other workers run.
LEMMA WorkerStep == Core /\ [Next]_vars => \A w \in Workers : WorkerOK(w)'
<1> SUFFICES ASSUME Core, [Next]_vars PROVE \A w \in Workers : WorkerOK(w)'
  OBVIOUS
<1> TypeOK
  BY DEF Core
<1> USE DEF RegisterLabels, ConfirmLabels, WebhookLabels, KnownLabels, SeatedLabels, UnsoldLabels
<1>1. ASSUME NEW w \in Workers, Acts(w), NEW v \in Workers, v # w PROVE WorkerOK(v)'
  <2>1. pc'[v] = pc[v] /\ reg'[v] = reg[v]
    BY <1>1, OthersStay
  <2>2. CASE pc[v] = "idle"
    BY <2>1, <2>2 DEF WorkerOK
  <2>3. CASE pc[v] # "idle"
    BY <1>1, <2>1, <2>3, RowsOfOthers DEF Core, WorkerOK, Remaining, TierHolding, RegHolding
  <2>4. QED
    BY <2>2, <2>3
<1>2. ASSUME NEW w \in Workers, NEW r \in Regs, Arrival(w, r) PROVE WorkerOK(w)'
  <2>1. RowOK(r)
    BY DEF Core
  <2>2. pc'[w] \notin {"idle", "register_commit"} /\ reg'[w] = r
        /\ status' = status /\ payment' = payment /\ tier' = tier /\ intent' = intent
    BY <1>2 DEF Arrival, RegisterStart, ConfirmRead, WebhookLockReg, CancelRead, Begin, TypeOK,
                db, outside
  <2>3. pc'[w] \in RegisterLabels =>
          /\ status[r] = "NONE"
          /\ intent[r].status = "none"
          /\ Remaining(TierOf[r]) > 0
    BY <1>2, <2>2 DEF Arrival, RegisterStart, ConfirmRead, WebhookLockReg, CancelRead, Begin,
                      TypeOK, Fresh
  <2>4. pc'[w] \in RegisterLabels \union {"confirm_lock", "webhook_tier", "cancel_save"}
    BY <1>2 DEF Arrival, RegisterStart, ConfirmRead, WebhookLockReg, CancelRead, Begin, TypeOK
  <2>5. pc'[w] \in {"confirm_lock", "webhook_tier", "cancel_save"} => status[r] # "NONE"
    BY <1>2, <2>1 DEF Arrival, RegisterStart, ConfirmRead, WebhookLockReg, CancelRead, Begin,
                      TypeOK, RowOK
  <2>6. QED
    BY <2>1, <2>2, <2>3, <2>4, <2>5 DEF WorkerOK, RowOK, Paid, Remaining
<1>3. ASSUME NEW w \in Workers, Step(w) \/ WebhookError(w) \/ Fail(w) PROVE WorkerOK(w)'
  <2> WorkerOK(w)
    BY DEF Core
  <2>1. CASE pc'[w] = "idle"
    BY <2>1 DEF WorkerOK
  <2>2. CASE CreateIntent(w) \/ TicketMail(w)
    BY <2>2 DEF CreateIntent, TicketMail, Goto, WorkerOK, Remaining, TypeOK, db
  <2>3. CASE ConfirmLock(w) \/ ConfirmVerify(w) \/ ConfirmSave(w) \/ WebhookLockTier(w)
    BY <2>1, <2>3 DEF ConfirmLock, ConfirmVerify, ConfirmSave, WebhookLockTier, Goto, End,
                      WorkerOK, Remaining, Insertable, TypeOK, db, outside
  <2>4. CASE WebhookCommit(w)
    BY <2>4 DEF WebhookCommit, Goto, Sell, WorkerOK, TypeOK
  <2>5. CASE \/ RegisterCommit(w) \/ SaleCommit(w) \/ WebhookMail(w) \/ CancelSave(w)
             \/ WebhookError(w) \/ Fail(w)
    BY <2>1, <2>5 DEF RegisterCommit, SaleCommit, WebhookMail, CancelSave, WebhookError, Fail,
                      End, TypeOK
  <2>6. QED
    BY <1>3, <2>2, <2>3, <2>4, <2>5 DEF Step
<1>4. ASSUME NEW r \in Regs, PayIntent(r), NEW w \in Workers PROVE WorkerOK(w)'
  BY <1>4 DEF PayIntent, Core, WorkerOK, Remaining, TypeOK, db, request
<1>5. ASSUME UNCHANGED vars, NEW w \in Workers PROVE WorkerOK(w)'
  BY <1>5 DEF Core, WorkerOK, Remaining, vars, db, outside, request
<1>6. QED
  BY <1>1, <1>2, <1>3, <1>4, <1>5, NextActs DEF Acts

\* No step takes back a success at Stripe, and none makes one in a request.
LEMMA SuccessStays ==
  ASSUME Core, [Next]_vars, NEW i \in Regs, intent[i].status = "succeeded"
  PROVE  intent'[i].status = "succeeded"
<1> TypeOK
  BY DEF Core
<1>1. ASSUME NEW w \in Workers, CreateIntent(w) PROVE intent'[i].status = "succeeded"
  <2>1. intent[reg[w]].status = "none"
    BY <1>1 DEF CreateIntent, Goto, Core, WorkerOK
  <2>2. QED
    BY <1>1, <2>1 DEF CreateIntent, TypeOK
<1>2. ASSUME NEW w \in Workers, Acts(w), ~CreateIntent(w) PROVE intent' = intent
  BY <1>2 DEF Acts, Step, Arrival, RegisterCommit, TicketMail, SaleCommit, ConfirmLock,
              ConfirmVerify, ConfirmSave, WebhookLockTier, WebhookCommit, WebhookMail, CancelSave,
              WebhookError, Fail, RegisterStart, ConfirmRead, WebhookLockReg, CancelRead, outside
<1>3. ASSUME NEW r \in Regs, PayIntent(r) PROVE intent'[i].status = "succeeded"
  BY <1>3 DEF PayIntent, TypeOK
<1>4. CASE UNCHANGED vars
  BY <1>4 DEF vars, outside
<1>5. QED
  BY <1>1, <1>2, <1>3, <1>4, NextActs

\* What a reference stands on stays.
LEMMA BackedStays ==
  ASSUME Core, [Next]_vars, NEW i, Backed(i)
  PROVE  \/ i = FreeRef
         \/ i \in Regs /\ intent'[i].status = "succeeded"
BY SuccessStays DEF Backed

\* A request carries its reference unchanged from the check of the intent, or
\* from the event, to the payment row.
LEMMA RefStep == Core /\ [Next]_vars => \A w \in Workers : RefOK(w)'
<1> SUFFICES ASSUME Core, [Next]_vars PROVE \A w \in Workers : RefOK(w)'
  OBVIOUS
<1> TypeOK
  BY DEF Core
<1>1. ASSUME NEW w \in Workers, Acts(w), NEW v \in Workers, v # w PROVE RefOK(v)'
  <2>1. pc'[v] = pc[v] /\ reg'[v] = reg[v] /\ ref'[v] = ref[v]
    BY <1>1, OthersStay
  <2>2. pc[v] = "sale_commit" => status'[reg[v]] = status[reg[v]]
    BY <1>1, RowsOfOthers DEF RegHolding
  <2>3. Backed(ref[v]) => Backed(ref[v])'
    <3>1. ASSUME Backed(ref[v])
          PROVE  \/ ref[v] = FreeRef
                 \/ ref[v] \in Regs /\ intent'[ref[v]].status = "succeeded"
      BY <3>1, BackedStays
    <3>2. QED
      BY <2>1, <3>1 DEF Backed
  <2>4. RefOK(v)
    BY DEF Core
  <2>5. QED
    BY <2>1, <2>2, <2>3, <2>4 DEF RefOK
<1>2. ASSUME NEW w \in Workers, NEW r \in Regs, Arrival(w, r) PROVE RefOK(w)'
  <2>1. CASE RegisterStart(w, r)
    BY <2>1 DEF RegisterStart, Begin, RefOK, TypeOK, WebhookLabels
  <2>2. CASE ConfirmRead(w, r)
    BY <2>2 DEF ConfirmRead, KnownIntents, Begin, RefOK, TypeOK, WebhookLabels
  <2>3. CASE WebhookLockReg(w, r)
    BY <2>3 DEF WebhookLockReg, Begin, RefOK, Backed, Core, RowOK, TypeOK, WebhookLabels, outside
  <2>4. CASE CancelRead(w, r)
    BY <2>4 DEF CancelRead, Begin, RefOK, TypeOK, WebhookLabels
  <2>5. QED
    BY <1>2, <2>1, <2>2, <2>3, <2>4 DEF Arrival
<1>3. ASSUME NEW w \in Workers, Step(w) \/ WebhookError(w) \/ Fail(w) PROVE RefOK(w)'
  <2> RefOK(w) /\ WorkerOK(w)
    BY DEF Core
  <2>1. CASE pc'[w] = "idle"
    BY <2>1 DEF RefOK, WebhookLabels
  <2>2. CASE CreateIntent(w)
    BY <2>2 DEF CreateIntent, Goto, RefOK, TypeOK, WebhookLabels
  <2>3. CASE TicketMail(w)
    BY <2>3, RegsAssumption DEF TicketMail, Goto, RefOK, WorkerOK, Backed, TypeOK, db,
            RegisterLabels, KnownLabels, ConfirmLabels, WebhookLabels
  <2>4. CASE ConfirmLock(w) \/ ConfirmSave(w)
    BY <2>1, <2>4 DEF ConfirmLock, ConfirmSave, Goto, End, RefOK, Backed, TypeOK, outside,
                      WebhookLabels
  <2>5. CASE ConfirmVerify(w)
    BY <2>1, <2>5 DEF ConfirmVerify, Verified, Goto, End, RefOK, Backed, TypeOK, outside,
                      WebhookLabels
  <2>6. CASE WebhookLockTier(w) \/ WebhookCommit(w)
    BY <2>1, <2>6 DEF WebhookLockTier, WebhookCommit, Goto, End, RefOK, Backed, TypeOK, outside,
                      WebhookLabels
  <2>7. CASE \/ RegisterCommit(w) \/ SaleCommit(w) \/ WebhookMail(w) \/ CancelSave(w)
             \/ WebhookError(w) \/ Fail(w)
    BY <2>1, <2>7 DEF RegisterCommit, SaleCommit, WebhookMail, CancelSave, WebhookError, Fail,
                      End, TypeOK
  <2>8. QED
    BY <1>3, <2>2, <2>3, <2>4, <2>5, <2>6, <2>7 DEF Step
<1>4. ASSUME NEW r \in Regs, PayIntent(r), NEW w \in Workers PROVE RefOK(w)'
  BY <1>4, BackedStays DEF PayIntent, Core, RefOK, Backed, db, request
<1>5. ASSUME UNCHANGED vars, NEW w \in Workers PROVE RefOK(w)'
  BY <1>5 DEF Core, RefOK, Backed, vars, db, outside, request
<1>6. QED
  BY <1>1, <1>2, <1>3, <1>4, <1>5, NextActs DEF Acts

\* No step confirms a registration without a payment row or leaves a row
\* without backing.
LEMMA RowStep == Core /\ [Next]_vars => \A r \in Regs : RowOK(r)'
<1> SUFFICES ASSUME Core, [Next]_vars, NEW r \in Regs PROVE RowOK(r)'
  OBVIOUS
<1> TypeOK /\ RowOK(r)
  BY DEF Core
<1>1. Backed(payment[r].ref) =>
        \/ payment[r].ref = FreeRef
        \/ payment[r].ref \in Regs /\ intent'[payment[r].ref].status = "succeeded"
  BY BackedStays
<1>2. intent[r].status = "succeeded" => intent'[r].status = "succeeded"
  BY SuccessStays
<1>3. ASSUME NEW w \in Workers, SaleCommit(w) \/ WebhookCommit(w) PROVE RowOK(r)'
  <2>1. /\ reg[w] \in Regs /\ Backed(ref[w]) /\ Sell(reg[w], ref[w])
        /\ UNCHANGED outside
    BY <1>3 DEF SaleCommit, WebhookCommit, Goto, Core, WorkerOK, RefOK, WebhookLabels
  <2>2. payment'[reg[w]] # NoPayment
    <3>1. [ref |-> ref[w], amount |-> tier[TierOf[reg[w]]].price] \in PaymentRow
      BY <2>1, TiersAssumption DEF PaymentRow, Backed, TypeOK
    <3>2. QED
      BY <2>1, <3>1, PaymentAssumption DEF Sell, TypeOK
  <2>3. \/ ref[w] = FreeRef
        \/ ref[w] \in Regs /\ intent'[ref[w]].status = "succeeded"
    BY <2>1, BackedStays
  <2>4. CASE r = reg[w]
    BY <2>1, <2>2, <2>3, <2>4 DEF Sell, RowOK, Paid, Backed, TypeOK, outside
  <2>5. CASE r # reg[w]
    BY <2>1, <2>5 DEF Sell, RowOK, Paid, Backed, TypeOK, outside
  <2>6. QED
    BY <2>4, <2>5
<1>4. ASSUME NEW w \in Workers, RegisterCommit(w) \/ CancelSave(w) PROVE RowOK(r)'
  BY <1>4 DEF RegisterCommit, CancelSave, RowOK, Paid, Backed, TypeOK, outside
<1>5. ASSUME NEW w \in Workers, CreateIntent(w) PROVE RowOK(r)'
  <2>1. intent'[r].status = "succeeded" => intent[r].status = "succeeded"
    BY <1>5 DEF CreateIntent, TypeOK
  <2>2. UNCHANGED <<status, payment, hook>>
    BY <1>5 DEF CreateIntent, db
  <2>3. QED
    BY <1>1, <1>2, <2>1, <2>2 DEF RowOK, Paid, Backed
<1>6. ASSUME NEW w \in Workers, WebhookLockTier(w) \/ WebhookMail(w) \/ WebhookError(w)
      PROVE  RowOK(r)'
  <2>1. pc[w] \in WebhookLabels /\ reg[w] \in Regs
    BY <1>6 DEF WebhookLockTier, WebhookMail, WebhookError, Core, WorkerOK, WebhookLabels
  <2>2. UNCHANGED <<status, payment, intent>>
    BY <1>6 DEF WebhookLockTier, WebhookMail, WebhookError, db
  <2>3. hook'[r] # hook[r] => r = reg[w]
    BY <1>6, <2>1 DEF WebhookLockTier, WebhookMail, WebhookError, Ack, TypeOK
  <2>4. hook'[r] # "none" => intent[r].status = "succeeded"
    BY <2>1, <2>3, RegsAssumption DEF RowOK, Core, RefOK, Backed
  <2>5. QED
    BY <2>2, <2>4 DEF RowOK, Paid, Backed
<1>7. ASSUME NEW w \in Workers,
             \/ TicketMail(w) \/ ConfirmLock(w) \/ ConfirmVerify(w) \/ ConfirmSave(w) \/ Fail(w)
             \/ \E q \in Regs : Arrival(w, q)
      PROVE  RowOK(r)'
  <2>1. UNCHANGED <<status, payment, intent, hook>>
    BY <1>7 DEF TicketMail, ConfirmLock, ConfirmVerify, ConfirmSave, Fail, Arrival, RegisterStart,
                ConfirmRead, WebhookLockReg, CancelRead, db, outside
  <2>2. QED
    BY <2>1 DEF RowOK, Paid, Backed
<1>8. ASSUME NEW q \in Regs, PayIntent(q) PROVE RowOK(r)'
  BY <1>1, <1>8 DEF PayIntent, RowOK, Paid, Backed, TypeOK, db
<1>9. CASE UNCHANGED vars
  BY <1>9 DEF vars, db, outside, RowOK, Paid, Backed
<1>10. QED
  BY <1>3, <1>4, <1>5, <1>6, <1>7, <1>8, <1>9 DEF Next, Step

(***************************************************************************)
(* Sales                                                                   *)
(***************************************************************************)

\* The steps that sell: the commit of a service or of the webhook.
Sale(w) == SaleCommit(w) \/ WebhookCommit(w)

\* They sell to a registration without a payment row, against a proper reference.
LEMMA SaleSells ==
  ASSUME Core, NEW w \in Workers, Sale(w)
  PROVE  /\ reg[w] \in Regs
         /\ ref[w] \in Regs \union {FreeRef}
         /\ Backed(ref[w])
         /\ ~Paid(reg[w])
         /\ Sell(reg[w], ref[w])
         /\ UNCHANGED outside
BY DEF Sale, SaleCommit, WebhookCommit, Goto, Core, WorkerOK, RefOK, Backed, Paid, Insertable,
       UnsoldLabels, WebhookLabels

\* No other step touches the counters or the payments.
LEMMA OthersDoNotSell ==
  ASSUME Next, \A w \in Workers : ~Sale(w)
  PROVE  UNCHANGED <<tier, payment>>
BY DEF Next, Sale, Step, Arrival, CreateIntent, RegisterCommit, TicketMail, ConfirmLock,
       ConfirmVerify, ConfirmSave, WebhookLockTier, WebhookMail, CancelSave, WebhookError, Fail,
       RegisterStart, ConfirmRead, WebhookLockReg, CancelRead, PayIntent, db

\* The row a sale leaves is a payment row.
LEMMA SellPays ==
  ASSUME TypeOK, NEW r \in Regs, NEW i \in Regs \union {FreeRef}, Sell(r, i)
  PROVE  /\ payment'[r] = [ref |-> i, amount |-> tier[TierOf[r]].price]
         /\ payment'[r] # NoPayment
         /\ \A q \in Regs : q # r => payment'[q] = payment[q] /\ status'[q] = status[q]
         /\ status'[r] = "CONFIRMED"
<1>1. [ref |-> i, amount |-> tier[TierOf[r]].price] \in PaymentRow
  BY TiersAssumption DEF PaymentRow, TypeOK
<1>2. QED
  BY <1>1, PaymentAssumption DEF Sell, TypeOK

PaidIn(t) == {r \in RegsIn(t) : Paid(r)}

\* The paid registrations of a tier can be counted.
LEMMA PaidInFinite == ASSUME NEW t PROVE IsFiniteSet(PaidIn(t)) /\ Cardinality(PaidIn(t)) \in Nat
BY RegsAssumption, FS_Subset, FS_CardinalityType DEF PaidIn, RegsIn

\* A sale for a registration without a payment row adds one to the counter of
\* its tier and to the payments of its tier, and nothing to those of others.
LEMMA SellAddsOne ==
  ASSUME TypeOK, NEW r \in Regs, NEW i \in Regs \union {FreeRef}, Sell(r, i), ~Paid(r)
  PROVE  \A t \in Tiers :
           IF t = TierOf[r]
           THEN /\ tier'[t].sold = tier[t].sold + 1
                /\ Cardinality(PaidIn(t)') = Cardinality(PaidIn(t)) + 1
           ELSE tier'[t] = tier[t] /\ PaidIn(t)' = PaidIn(t)
<1>1. payment'[r] # NoPayment /\ \A q \in Regs : q # r => payment'[q] = payment[q]
  BY SellPays
<1>2. ASSUME NEW t \in Tiers, t # TierOf[r]
      PROVE  tier'[t] = tier[t] /\ PaidIn(t)' = PaidIn(t)
  BY <1>1, <1>2 DEF Sell, Sold, TypeOK, PaidIn, RegsIn, Paid
<1>3. ASSUME NEW t \in Tiers, t = TierOf[r]
      PROVE  /\ tier'[t].sold = tier[t].sold + 1
             /\ Cardinality(PaidIn(t)') = Cardinality(PaidIn(t)) + 1
  <2>1. PaidIn(t)' = PaidIn(t) \union {r}
    BY <1>1, <1>3 DEF PaidIn, RegsIn, Paid
  <2>2. Cardinality(PaidIn(t) \union {r}) = Cardinality(PaidIn(t)) + 1
    <3>1. r \notin PaidIn(t)
      BY DEF PaidIn
    <3>2. QED
      BY <3>1, PaidInFinite, FS_AddElement
  <2>3. tier'[t].sold = tier[t].sold + 1
    BY <1>3 DEF Sell, Sold, TypeOK
  <2>4. QED
    BY <2>1, <2>2, <2>3
<1>4. QED
  BY <1>2, <1>3

(***************************************************************************)
(* The invariant                                                           *)
(***************************************************************************)

\* The empty database satisfies the invariant.
LEMMA CoreInit == Init => Core
<1> SUFFICES ASSUME Init PROVE Core
  OBVIOUS
<1>1. LocksExclusive /\ (\A w \in Workers : WorkerOK(w) /\ RefOK(w)) /\ (\A r \in Regs : RowOK(r))
  BY DEF Init, LocksExclusive, WorkerOK, RefOK, RowOK, Paid, TierHolding, RegHolding,
         RegisterLabels, ConfirmLabels, WebhookLabels, KnownLabels, SeatedLabels, UnsoldLabels
<1>2. QED
  BY <1>1, TypeInit DEF Core

\* No step of any worker, client, payment or failure breaks it.
LEMMA CoreStep == Core /\ [Next]_vars => Core'
BY TypeStep, LocksStep, WorkerStep, RefStep, RowStep DEF Core

(***************************************************************************)
(* What a sale can do to a cancelled registration, also next to edits      *)
(***************************************************************************)

\* A registration that is sold and cancelled stays cancelled.
LEMMA IssuedCancelStep ==
  Core /\ [Next]_vars =>
    [\A r \in Regs : Paid(r) /\ status[r] = "CANCELLED" => status'[r] = "CANCELLED"]_vars
<1> SUFFICES ASSUME Core, Next, NEW r \in Regs, Paid(r), status[r] = "CANCELLED"
             PROVE  status'[r] = "CANCELLED"
  OBVIOUS
<1> TypeOK
  BY DEF Core
<1>1. ASSUME NEW w \in Workers, Sale(w) PROVE status'[r] = "CANCELLED"
  BY <1>1, SaleSells DEF Sell, TypeOK
<1>2. ASSUME NEW w \in Workers, RegisterCommit(w) PROVE status'[r] = "CANCELLED"
  BY <1>2 DEF RegisterCommit, Core, WorkerOK, Paid, TypeOK, UnsoldLabels, RegisterLabels
<1>3. ASSUME NEW w \in Workers, CancelSave(w) PROVE status'[r] = "CANCELLED"
  BY <1>3 DEF CancelSave, TypeOK
<1>4. CASE status' = status
  BY <1>4
<1>5. QED
  BY <1>1, <1>2, <1>3, <1>4 DEF Next, Sale, Step, Arrival, CreateIntent, TicketMail, ConfirmLock,
     ConfirmVerify, ConfirmSave, WebhookLockTier, WebhookMail, WebhookError, Fail,
     RegisterStart, ConfirmRead, WebhookLockReg, CancelRead, PayIntent, db

ConfirmingLabels ==
  {"confirm_lock", "confirm_verify", "confirm_save", "confirm_mail", "sale_commit", "webhook_commit"}

\* A request that comes to confirm a registration finds it PENDING, or makes it.
LEMMA ConfirmsPending ==
  ASSUME Core, NEW w \in Workers, Acts(w), pc'[w] \in ConfirmingLabels,
         status[reg'[w]] = "CANCELLED"
  PROVE  pc[w] \in ConfirmingLabels /\ reg'[w] = reg[w]
<1> TypeOK /\ WorkerOK(w)
  BY DEF Core
<1>1. ASSUME NEW r \in Regs, Arrival(w, r) PROVE FALSE
  BY <1>1 DEF Arrival, RegisterStart, ConfirmRead, WebhookLockReg, CancelRead, Begin, TypeOK,
              ConfirmingLabels
<1>2. CASE TicketMail(w)
  BY <1>2 DEF TicketMail, Goto, TypeOK, WorkerOK, RegisterLabels, ConfirmingLabels
<1>3. CASE WebhookLockTier(w)
  BY <1>3 DEF WebhookLockTier, Goto, End, TypeOK, ConfirmingLabels
<1>4. CASE ConfirmLock(w) \/ ConfirmVerify(w) \/ ConfirmSave(w)
  BY <1>4 DEF ConfirmLock, ConfirmVerify, ConfirmSave, Goto, End, TypeOK, ConfirmingLabels
<1>5. CASE \/ CreateIntent(w) \/ RegisterCommit(w) \/ SaleCommit(w) \/ WebhookCommit(w)
           \/ WebhookMail(w) \/ CancelSave(w) \/ WebhookError(w) \/ Fail(w)
  BY <1>5 DEF CreateIntent, RegisterCommit, SaleCommit, WebhookCommit, WebhookMail, CancelSave,
              WebhookError, Fail, Goto, End, TypeOK, ConfirmingLabels
<1>6. QED
  BY <1>1, <1>2, <1>3, <1>4, <1>5 DEF Acts, Step

\* A step that confirms a cancelled registration uses up a request that had read
\* it PENDING, and none adds one.
LEMMA CancelledGainStep ==
  Core /\ [Next]_vars =>
    [\A r \in Regs : status[r] = "CANCELLED" =>
       /\ Confirming(r)' \subseteq Confirming(r)
       /\ status'[r] = "CONFIRMED" => Confirming(r)' # Confirming(r)]_vars
<1> SUFFICES ASSUME Core, Next, NEW r \in Regs, status[r] = "CANCELLED"
             PROVE  /\ Confirming(r)' \subseteq Confirming(r)
                    /\ status'[r] = "CONFIRMED" => Confirming(r)' # Confirming(r)
  OBVIOUS
<1> TypeOK
  BY DEF Core
<1>1. \A w \in Workers : w \in Confirming(r) <=> pc[w] \in ConfirmingLabels /\ reg[w] = r
  BY DEF Confirming, ConfirmingLabels
<1>2. \A w \in Workers : w \in Confirming(r)' <=> pc'[w] \in ConfirmingLabels /\ reg'[w] = r
  BY DEF Confirming, ConfirmingLabels
<1>3. ASSUME NEW w \in Workers, Acts(w), NEW v \in Confirming(r)' PROVE v \in Confirming(r)
  <2>1. v \in Workers
    BY DEF Confirming
  <2>2. CASE v = w
    BY <1>1, <1>2, <1>3, <2>1, <2>2, ConfirmsPending
  <2>3. CASE v # w
    BY <1>1, <1>2, <1>3, <2>1, <2>3, OthersStay
  <2>4. QED
    BY <2>2, <2>3
<1>4. ASSUME NEW q \in Regs, PayIntent(q)
      PROVE  Confirming(r)' = Confirming(r) /\ status'[r] = status[r]
  BY <1>4 DEF PayIntent, Confirming, db, request
<1>5. ASSUME NEW w \in Workers, Sale(w), status'[r] = "CONFIRMED"
      PROVE  Confirming(r)' # Confirming(r)
  <2>1. reg[w] = r
    BY <1>5, SaleSells, SellPays DEF Core
  <2>2. pc[w] \in ConfirmingLabels /\ pc'[w] \notin ConfirmingLabels
    BY <1>5 DEF Sale, SaleCommit, WebhookCommit, Goto, End, TypeOK, ConfirmingLabels
  <2>3. QED
    BY <1>1, <1>2, <2>1, <2>2
<1>6. ASSUME NEW w \in Workers, ~Sale(w), Acts(w) PROVE status'[r] # "CONFIRMED"
  <2>1. CASE RegisterCommit(w) \/ CancelSave(w)
    BY <2>1 DEF RegisterCommit, CancelSave, TypeOK
  <2>2. CASE ~RegisterCommit(w) /\ ~CancelSave(w)
    BY <1>6, <2>2 DEF Acts, Sale, Step, Arrival, CreateIntent, TicketMail, ConfirmLock,
       ConfirmVerify, ConfirmSave, WebhookLockTier, WebhookMail, WebhookError, Fail,
       RegisterStart, ConfirmRead, WebhookLockReg, CancelRead, db
  <2>3. QED
    BY <2>1, <2>2
<1>7. QED
  BY <1>3, <1>4, <1>5, <1>6, NextActs
=============================================================================
