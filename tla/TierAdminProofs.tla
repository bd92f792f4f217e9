--------------------------- MODULE TierAdminProofs ---------------------------
(***************************************************************************)
(* Proofs about TierAdmin: what holds of ticket sales while the organizer  *)
(* edits the tiers, for any finite set of registrations and any workers,   *)
(* editors, tiers, prices and totals.  The sales keep the invariant Core   *)
(* of TicketingInvariant; the edits touch no row of a tier that a request  *)
(* has locked, and what they write stays below the payments.               *)
(***************************************************************************)
EXTENDS TierAdmin, TicketingInvariant

(***************************************************************************)
(* The inductive invariant                                                 *)
(***************************************************************************)

EditsTyped ==
  /\ edit \in [Editors -> Edit \union {NoEdit}]
  /\ listing \in [Tiers -> {"new", "listed", "deleted"}]
  /\ repriced \subseteq Regs

\* Tiers that requests and registrations refer to are there.
Listed ==
  /\ \A r \in Regs : status[r] # "NONE" => listing[TierOf[r]] = "listed"
  /\ \A w \in Workers : pc[w] # "idle" => listing[TierOf[reg[w]]] = "listed"

\* No counter, and no counter a PATCH is about to write, exceeds the payments.
SoldBounded ==
  /\ \A t \in Tiers : tier[t].sold <= Cardinality(PaidIn(t))
  /\ \A e \in Editors :
       edit[e] # NoEdit /\ edit[e].op = "patch"
         => edit[e].row.sold <= Cardinality(PaidIn(edit[e].at))

\* What the price of a tier is to the requests and the unsold registrations.
PricesKnown ==
  /\ \A r \in Regs :
       status[r] # "NONE" /\ ~Paid(r) /\ r \notin repriced
         => tier[TierOf[r]].price = intent[r].amount
  /\ \A w \in Workers :
       /\ pc[w] = "register_commit" => tier[TierOf[reg[w]]].price = intent[reg[w]].amount
       /\ pc[w] \in {"register_mail", "sale_commit"} /\ ref[w] = FreeRef
            => tier[TierOf[reg[w]]].price = 0 /\ intent[reg[w]].status = "none"

AdminCore == Core /\ EditsTyped /\ Listed

AdminInv == AdminCore /\ SoldBounded /\ PricesKnown /\ RecordedAsQuoted

(***************************************************************************)
(* Steps                                                                   *)
(***************************************************************************)

\* What an edit does to the rows of tiers: nothing, or it writes one row, of a
\* tier no request has locked or of one that did not exist.
Writes(t, row) ==
  /\ tier' = [tier EXCEPT ![t] = row]
  /\ TierFree(t) \/ listing[t] = "new"
  /\ row \in TierRow
  /\ listing' = [listing EXCEPT ![t] = "listed"]
  /\ UNCHANGED <<status, payment, outside, request>>

\* An editor is about to write a row of a tier.
LEMMA EditRead ==
  ASSUME EditsTyped, NEW e \in Editors, edit[e] # NoEdit
  PROVE  /\ edit[e].at \in Tiers
         /\ edit[e].op \in {"patch", "delete"}
         /\ edit[e].op = "patch" => edit[e].row \in TierRow
<1>1. edit[e] \in Edit
  BY DEF EditsTyped
<1>2. QED
  BY <1>1 DEF Edit

\* A PATCH that applies the fields of its request to a row has a row to write.
LEMMA PatchedRow ==
  ASSUME NEW row \in TierRow, NEW price \in Prices \union {Same}, NEW total \in Totals \union {Same}
  PROVE  Patched(row, price, total) \in TierRow /\ Patched(row, price, total).sold = row.sold
BY EditAssumption DEF Patched, TierRow

\* A row of a tier has the shape of the rows that edits write.
LEMMA TierRows == TypeOK => \A t \in Tiers : tier[t] \in TierRow
BY DEF TypeOK, TierRow

\* A step of the edits leaves the rows of tiers alone or writes one.
LEMMA AdminSteps ==
  ASSUME AdminCore, [AdminNext]_adminVars
  PROVE  \/ Sales
         \/ UNCHANGED <<vars, repriced>> /\ UNCHANGED listing
         \/ UNCHANGED <<vars, repriced>> /\ \E e \in Editors : DeleteSave(e)
         \/ \E t \in Tiers, price \in Prices, total \in Totals :
              /\ TierCreate(t, price, total)
              /\ Writes(t, [price |-> price, total |-> total, sold |-> 0])
         \/ \E e \in Editors : PatchSave(e) /\ Writes(edit[e].at, edit[e].row)
<1> EditsTyped /\ TypeOK
  BY DEF AdminCore, Core
<1>1. ASSUME NEW t \in Tiers, NEW price \in Prices, NEW total \in Totals, TierCreate(t, price, total)
      PROVE  Writes(t, [price |-> price, total |-> total, sold |-> 0])
  <2>1. [price |-> price, total |-> total, sold |-> 0] \in TierRow
    BY EditAssumption DEF TierRow
  <2>2. QED
    BY <1>1, <2>1 DEF TierCreate, Writes
<1>2. ASSUME NEW e \in Editors, PatchSave(e) PROVE Writes(edit[e].at, edit[e].row)
  BY <1>2, EditRead DEF PatchSave, Writes
<1>3. ASSUME NEW e \in Editors, EditFails(e) PROVE UNCHANGED <<vars, repriced>> /\ UNCHANGED listing
  BY <1>3 DEF EditFails
<1>4. ASSUME NEW e \in Editors, NEW t \in Tiers,
             \/ DeleteRead(e, t)
             \/ \E price \in Prices \union {Same}, total \in Totals \union {Same} :
                  PatchRead(e, t, price, total)
      PROVE  UNCHANGED <<vars, repriced>> /\ UNCHANGED listing
  BY <1>4 DEF DeleteRead, PatchRead
<1>5. ASSUME NEW e \in Editors, DeleteSave(e) PROVE UNCHANGED <<vars, repriced>>
  BY <1>5 DEF DeleteSave
<1>6. CASE UNCHANGED adminVars
  BY <1>6 DEF adminVars
<1>7. QED
  BY <1>1, <1>2, <1>3, <1>4, <1>5, <1>6 DEF AdminNext

(***************************************************************************)
(* Types of the edits                                                      *)
(***************************************************************************)

\* Every step keeps the types of what the edits have read and of the listing.
LEMMA EditsTypedStep == AdminCore /\ [AdminNext]_adminVars => EditsTyped'
<1> SUFFICES ASSUME AdminCore, [AdminNext]_adminVars PROVE EditsTyped'
  OBVIOUS
<1> EditsTyped /\ TypeOK
  BY DEF AdminCore, Core
<1>1. CASE Sales
  BY <1>1 DEF Sales, EditsTyped
<1>2. ASSUME NEW t \in Tiers, NEW price \in Prices, NEW total \in Totals, TierCreate(t, price, total)
      PROVE  EditsTyped'
  BY <1>2 DEF TierCreate, EditsTyped
<1>3. ASSUME NEW e \in Editors, NEW t \in Tiers, NEW price \in Prices \union {Same},
             NEW total \in Totals \union {Same}, PatchRead(e, t, price, total)
      PROVE  EditsTyped'
  <2>1. [op |-> "patch", at |-> t, row |-> Patched(tier[t], price, total)] \in Edit
    <3>1. Patched(tier[t], price, total) \in TierRow
      BY PatchedRow, TierRows
    <3>2. QED
      BY <3>1 DEF Edit
  <2>2. QED
    BY <1>3, <2>1 DEF PatchRead, EditsTyped
<1>4. ASSUME NEW e \in Editors, NEW t \in Tiers, DeleteRead(e, t) PROVE EditsTyped'
  <2>1. [op |-> "delete", at |-> t] \in Edit
    BY DEF Edit
  <2>2. QED
    BY <1>4, <2>1 DEF DeleteRead, EditsTyped
<1>5. ASSUME NEW e \in Editors, PatchSave(e) PROVE EditsTyped'
  BY <1>5, EditRead DEF PatchSave, EditsTyped, Unsold, RegsIn
<1>6. ASSUME NEW e \in Editors, DeleteSave(e) \/ EditFails(e) PROVE EditsTyped'
  BY <1>6, EditRead DEF DeleteSave, EditFails, EditsTyped
<1>7. CASE UNCHANGED adminVars
  BY <1>7 DEF adminVars, EditsTyped
<1>8. QED
  BY <1>1, <1>2, <1>3, <1>4, <1>5, <1>6, <1>7 DEF AdminNext

(***************************************************************************)
(* Sales under edits                                                       *)
(***************************************************************************)

\* A request past the capacity check has its tier locked, and its tier exists:
\* no edit writes the row it works with.
LEMMA SpareLocked ==
  ASSUME AdminCore, NEW t \in Tiers, NEW row, Writes(t, row),
         NEW w \in Workers, pc[w] \in SeatedLabels
  PROVE  TierOf[reg[w]] # t
<1>1. listing[TierOf[reg[w]]] = "listed"
  BY DEF AdminCore, Listed, SeatedLabels, RegisterLabels
<1>2. pc[w] \in TierHolding
  BY DEF SeatedLabels, TierHolding, RegisterLabels
<1>3. QED
  BY <1>1, <1>2 DEF Writes, TierFree, HoldsTier

\* An edit of a tier keeps the invariant of the sales.
LEMMA WritesKeepCore ==
  ASSUME AdminCore, NEW t \in Tiers, NEW row, Writes(t, row)
  PROVE  Core'
<1> Core /\ TypeOK
  BY DEF AdminCore, Core
<1>1. TypeOK'
  BY DEF Writes, TypeOK, TierRow, outside, request
<1>2. LocksExclusive' /\ (\A w \in Workers : RefOK(w)') /\ (\A r \in Regs : RowOK(r)')
  <2>1. LocksExclusive'
    BY DEF Core, Writes, LocksExclusive, request
  <2>2. \A w \in Workers : RefOK(w)'
    BY DEF Core, Writes, RefOK, Backed, outside, request
  <2>3. \A r \in Regs : RowOK(r)'
    BY DEF Core, Writes, RowOK, Paid, Backed, outside
  <2>4. QED
    BY <2>1, <2>2, <2>3
<1>3. ASSUME NEW w \in Workers PROVE WorkerOK(w)'
  <2>1. WorkerOK(w)
    BY DEF Core
  <2>2. pc[w] \in SeatedLabels => tier'[TierOf[reg[w]]] = tier[TierOf[reg[w]]]
    BY <2>1, SpareLocked, TiersAssumption DEF Writes, TypeOK, WorkerOK, SeatedLabels, RegisterLabels
  <2>3. UNCHANGED <<status, payment, intent, pc, reg>>
    BY DEF Writes, outside, request
  <2>4. QED
    BY <2>1, <2>2, <2>3 DEF WorkerOK, Remaining
<1>4. QED
  BY <1>1, <1>2, <1>3 DEF Core

\* No step of a sale or of an edit breaks it.
LEMMA CoreKept == AdminCore /\ [AdminNext]_adminVars => Core'
<1> SUFFICES ASSUME AdminCore, [AdminNext]_adminVars PROVE Core'
  OBVIOUS
<1> Core /\ EditsTyped
  BY DEF AdminCore
<1>1. CASE Next \/ UNCHANGED vars
  BY <1>1, CoreStep
<1>2. ASSUME NEW t \in Tiers, NEW row, Writes(t, row) PROVE Core'
  BY <1>2, WritesKeepCore
<1>3. ASSUME NEW e \in Editors, PatchSave(e) PROVE edit[e].at \in Tiers
  BY <1>3, EditRead DEF PatchSave
<1>4. QED
  BY <1>1, <1>2, <1>3, AdminSteps DEF Sales

(***************************************************************************)
(* References to tiers                                                     *)
(***************************************************************************)

\* A registration row appears at the commit of the request that makes it.
LEMMA RowsAppear ==
  ASSUME Core, Next, NEW r \in Regs, status[r] = "NONE", status'[r] # "NONE"
  PROVE  \E w \in Workers : pc[w] # "idle" /\ reg[w] = r
<1> TypeOK
  BY DEF Core
<1>1. ASSUME NEW w \in Workers, Sale(w) PROVE pc[w] # "idle" /\ (reg[w] # r => status'[r] = status[r])
  BY <1>1, SaleSells, SellPays DEF Sale, SaleCommit, WebhookCommit, Goto
<1>2. ASSUME NEW w \in Workers, RegisterCommit(w) \/ CancelSave(w)
      PROVE  pc[w] # "idle" /\ (reg[w] # r => status'[r] = status[r])
  BY <1>2 DEF RegisterCommit, CancelSave, TypeOK
<1>3. CASE status' = status
  BY <1>3
<1>4. QED
  BY <1>1, <1>2, <1>3 DEF Next, Sale, Step, Arrival, CreateIntent, TicketMail, ConfirmLock,
     ConfirmVerify, ConfirmSave, WebhookLockTier, WebhookMail, WebhookError, Fail,
     RegisterStart, ConfirmRead, WebhookLockReg, CancelRead, PayIntent, db

\* A request that starts is about a registration that is there, or finds the
\* tier it asks for.
LEMMA ArrivalFinds ==
  ASSUME Core, NEW w \in Workers, NEW r \in Regs, Arrival(w, r)
  PROVE  /\ pc[w] = "idle"
         /\ reg'[w] = r
         /\ pc'[w] \in RegisterLabels \/ status[r] # "NONE"
<1> TypeOK /\ RowOK(r)
  BY DEF Core
<1>1. CASE RegisterStart(w, r)
  BY <1>1 DEF RegisterStart, Begin, TypeOK, RegisterLabels
<1>2. CASE ConfirmRead(w, r) \/ WebhookLockReg(w, r) \/ CancelRead(w, r)
  BY <1>2 DEF ConfirmRead, WebhookLockReg, CancelRead, Begin, TypeOK, RowOK
<1>3. QED
  BY <1>1, <1>2 DEF Arrival

\* A step of a request that does not end it stays with its registration.
LEMMA StepStays ==
  ASSUME Core, NEW w \in Workers, Step(w) \/ WebhookError(w) \/ Fail(w), pc'[w] # "idle"
  PROVE  pc[w] # "idle" /\ reg'[w] = reg[w]
<1> TypeOK
  BY DEF Core
<1>1. pc[w] # "idle" /\ (End(w) \/ \E from, to \in Labels : Goto(w, from, to))
  BY DEF Step, CreateIntent, RegisterCommit, TicketMail, SaleCommit, ConfirmLock,
         ConfirmVerify, ConfirmSave, WebhookLockTier, WebhookCommit, WebhookMail, CancelSave,
         WebhookError, Fail, Goto, Labels, RegisterLabels, ConfirmLabels, WebhookLabels
<1>2. QED
  BY <1>1 DEF End, Goto, TypeOK

\* Sales refer only to tiers that are there.
LEMMA SalesListed == AdminCore /\ Sales => Listed'
<1> SUFFICES ASSUME AdminCore, Sales PROVE Listed'
  OBVIOUS
<1> Core /\ TypeOK /\ Listed /\ Next /\ TierFound /\ listing' = listing
  BY DEF AdminCore, Core, Sales
<1>1. ASSUME NEW r \in Regs, status'[r] # "NONE" PROVE listing[TierOf[r]] = "listed"
  BY <1>1, RowsAppear DEF Listed
<1>2. ASSUME NEW w \in Workers, pc'[w] # "idle" PROVE listing[TierOf[reg'[w]]] = "listed"
  <2>1. CASE pc'[w] = pc[w] /\ reg'[w] = reg[w]
    BY <1>2, <2>1 DEF Listed
  <2>2. ASSUME NEW r \in Regs, Arrival(w, r) PROVE listing[TierOf[reg'[w]]] = "listed"
    BY <2>2, ArrivalFinds DEF TierFound, Listed
  <2>3. CASE Step(w) \/ WebhookError(w) \/ Fail(w)
    BY <1>2, <2>3, StepStays DEF Listed
  <2>4. ASSUME NEW v \in Workers, v # w, Acts(v) PROVE pc'[w] = pc[w] /\ reg'[w] = reg[w]
    BY <2>4, OthersStay
  <2>5. ASSUME NEW r \in Regs, PayIntent(r) PROVE pc'[w] = pc[w] /\ reg'[w] = reg[w]
    BY <2>5 DEF PayIntent, request
  <2>6. QED
    BY <2>1, <2>2, <2>3, <2>4, <2>5, NextActs DEF Acts
<1>3. QED
  BY <1>1, <1>2 DEF Listed

\* A DELETE takes no tier that a registration refers to, nor one that a request
\* has locked to make a registration.
LEMMA ListedStep == AdminCore /\ [AdminNext]_adminVars => Listed'
<1> SUFFICES ASSUME AdminCore, [AdminNext]_adminVars PROVE Listed'
  OBVIOUS
<1> Core /\ EditsTyped /\ Listed /\ TypeOK
  BY DEF AdminCore, Core
<1>1. CASE UNCHANGED vars /\ UNCHANGED listing
  BY <1>1 DEF Listed, vars, db, request
<1>2. ASSUME NEW t \in Tiers, NEW row, Writes(t, row) PROVE Listed'
  BY <1>2, TiersAssumption DEF Writes, Listed, EditsTyped, request
<1>3. ASSUME NEW e \in Editors, DeleteSave(e), UNCHANGED vars PROVE Listed'
  <2> DEFINE t == edit[e].at
  <2>1. t \in Tiers
    BY <1>3, EditRead DEF DeleteSave
  <2>2. CASE ~Referenced(t) /\ listing' = [listing EXCEPT ![t] = "deleted"]
    <3>1. \A r \in Regs : status[r] # "NONE" => TierOf[r] # t
      BY <2>2 DEF Referenced, RegsIn
    <3>2. ASSUME NEW w \in Workers, pc[w] # "idle" PROVE TierOf[reg[w]] # t
      <4>1. WorkerOK(w) /\ RefOK(w) /\ pc[w] \in Labels
        BY DEF Core, TypeOK
      <4>2. CASE pc[w] \in TierHolding
        BY <1>3, <4>2 DEF DeleteSave, TierFree, HoldsTier
      <4>3. CASE pc[w] \notin TierHolding
        <5>1. pc[w] \in KnownLabels /\ reg[w] \in Regs
          BY <3>2, <4>1, <4>3 DEF Labels, TierHolding, KnownLabels, RegisterLabels, ConfirmLabels,
                                  WebhookLabels, WorkerOK
        <5>2. QED
          BY <3>1, <4>1, <5>1 DEF WorkerOK
      <4>4. QED
        BY <4>2, <4>3
    <3>3. QED
      BY <1>3, <2>1, <2>2, <3>1, <3>2 DEF Listed, EditsTyped, vars, db, request
  <2>3. CASE UNCHANGED listing
    BY <1>1, <1>3, <2>3
  <2>4. QED
    BY <1>3, <2>2, <2>3 DEF DeleteSave
<1>4. ASSUME NEW e \in Editors, PatchSave(e) PROVE edit[e].at \in Tiers
  BY <1>4, EditRead DEF PatchSave
<1>5. QED
  BY <1>1, <1>2, <1>3, <1>4, AdminSteps, SalesListed

(***************************************************************************)
(* Counters                                                                *)
(***************************************************************************)

\* No step takes a payment row away.
LEMMA PaymentsStay ==
  ASSUME AdminCore, [AdminNext]_adminVars, NEW t
  PROVE  /\ PaidIn(t) \subseteq PaidIn(t)'
         /\ Cardinality(PaidIn(t)) <= Cardinality(PaidIn(t)')
<1> Core
  BY DEF AdminCore
<1>1. \A r \in Regs : Paid(r) => payment'[r] # NoPayment
  <2>1. CASE payment' = payment
    BY <2>1 DEF Paid
  <2>2. ASSUME NEW w \in Workers, Sale(w), NEW r \in Regs, Paid(r) PROVE payment'[r] # NoPayment
    BY <2>2, SaleSells, SellPays DEF Core, Paid
  <2>3. QED
    BY <2>1, <2>2, AdminSteps, OthersDoNotSell DEF Sales, vars, db, Writes
<1>2. PaidIn(t) \subseteq PaidIn(t)'
  BY <1>1 DEF PaidIn, RegsIn, Paid
<1>3. IsFiniteSet(PaidIn(t)')
  BY RegsAssumption, FS_Subset DEF PaidIn, RegsIn
<1>4. QED
  BY <1>2, <1>3, FS_Subset

\* A sale adds a payment for what it counts, an edit writes a counter that was
\* covered when it was read, and payments do not go away.
LEMMA BoundStep == AdminCore /\ SoldBounded /\ [AdminNext]_adminVars => SoldBounded'
<1> SUFFICES ASSUME AdminCore, SoldBounded, [AdminNext]_adminVars PROVE SoldBounded'
  OBVIOUS
<1> Core /\ EditsTyped /\ TypeOK
  BY DEF AdminCore, Core
<1> DEFINE Then(t) == {r \in RegsIn(t) : payment'[r] # NoPayment}
<1>0. \A t : Then(t) = PaidIn(t)'
  BY DEF PaidIn, RegsIn, Paid
<1> HIDE DEF Then
<1>1. \A t : /\ Cardinality(PaidIn(t)) \in Nat /\ Cardinality(Then(t)) \in Nat
             /\ Cardinality(PaidIn(t)) <= Cardinality(Then(t))
  <2>1. ASSUME NEW t PROVE Cardinality(Then(t)) \in Nat
    <3>1. IsFiniteSet(Then(t))
      BY RegsAssumption, FS_Subset DEF Then, RegsIn
    <3>2. QED
      BY <3>1, FS_CardinalityType
  <2>2. QED
    BY <1>0, <2>1, PaymentsStay, PaidInFinite
<1>2. ASSUME NEW t \in Tiers PROVE tier'[t].sold <= Cardinality(Then(t))
  <2>1. tier[t].sold <= Cardinality(PaidIn(t)) /\ tier[t].sold \in Nat
    BY DEF SoldBounded, TypeOK
  <2>2. CASE tier'[t] = tier[t]
    BY <1>1, <2>1, <2>2
  <2>3. ASSUME NEW w \in Workers, Sale(w) PROVE tier'[t].sold <= Cardinality(Then(t))
    <3>1. /\ reg[w] \in Regs /\ ref[w] \in Regs \union {FreeRef} /\ Sell(reg[w], ref[w])
          /\ ~Paid(reg[w])
      BY <2>3, SaleSells
    <3>2. CASE t = TierOf[reg[w]]
      BY <1>0, <1>1, <2>1, <3>1, <3>2, SellAddsOne
    <3>3. CASE t # TierOf[reg[w]]
      BY <2>2, <3>1, <3>3, SellAddsOne
    <3>4. QED
      BY <3>2, <3>3
  <2>4. ASSUME NEW q \in Tiers, NEW row, Writes(q, row), row.sold <= Cardinality(PaidIn(q))
        PROVE  tier'[t].sold <= Cardinality(Then(t))
    <3>1. row.sold \in Nat
      BY <2>4 DEF Writes, TierRow
    <3>2. tier'[t] = IF t = q THEN row ELSE tier[t]
      BY <2>4 DEF Writes, TypeOK
    <3>3. QED
      BY <1>1, <2>1, <2>4, <3>1, <3>2
  <2>5. ASSUME NEW e \in Editors, PatchSave(e)
        PROVE  edit[e].at \in Tiers /\ edit[e].row.sold <= Cardinality(PaidIn(edit[e].at))
    BY <2>5, EditRead DEF PatchSave, SoldBounded
  <2>6. CASE Next \/ UNCHANGED vars
    BY <2>2, <2>3, <2>6, OthersDoNotSell DEF vars, db
  <2>7. ASSUME NEW q \in Tiers, NEW price \in Prices, NEW total \in Totals,
               Writes(q, [price |-> price, total |-> total, sold |-> 0])
        PROVE  tier'[t].sold <= Cardinality(Then(t))
    BY <1>1, <2>4, <2>7
  <2>8. QED
    BY <2>4, <2>5, <2>6, <2>7, AdminSteps DEF Sales
<1>3. ASSUME NEW e \in Editors, edit'[e] # NoEdit, edit'[e].op = "patch"
      PROVE  edit'[e].row.sold <= Cardinality(Then(edit'[e].at))
  <2>1. CASE edit'[e] = edit[e]
    <3>1. /\ edit[e].row.sold <= Cardinality(PaidIn(edit[e].at))
          /\ edit[e].row.sold \in Nat
      BY <1>3, <2>1, EditRead DEF SoldBounded, TierRow
    <3>2. QED
      BY <1>1, <2>1, <3>1
  <2>2. ASSUME NEW t \in Tiers, NEW price \in Prices \union {Same}, NEW total \in Totals \union {Same},
               PatchRead(e, t, price, total)
        PROVE  edit'[e].row.sold <= Cardinality(Then(edit'[e].at))
    <3>1. edit'[e] = [op |-> "patch", at |-> t, row |-> Patched(tier[t], price, total)]
      BY <2>2 DEF PatchRead, EditsTyped
    <3>2. Patched(tier[t], price, total).sold = tier[t].sold
      BY PatchedRow, TierRows
    <3>3. tier[t].sold <= Cardinality(PaidIn(t)) /\ tier[t].sold \in Nat
      BY DEF SoldBounded, TypeOK
    <3>4. QED
      BY <1>1, <3>1, <3>2, <3>3
  <2>3. ASSUME NEW t \in Tiers, DeleteRead(e, t) PROVE FALSE
    BY <1>3, <2>3 DEF DeleteRead, EditsTyped
  <2>4. ASSUME PatchSave(e) \/ DeleteSave(e) \/ EditFails(e) PROVE FALSE
    BY <1>3, <2>4 DEF PatchSave, DeleteSave, EditFails, EditsTyped
  <2>5. ASSUME NEW d \in Editors, d # e,
               \/ \E t \in Tiers, price \in Prices \union {Same}, total \in Totals \union {Same} :
                    PatchRead(d, t, price, total)
               \/ \E t \in Tiers : DeleteRead(d, t)
               \/ PatchSave(d) \/ DeleteSave(d) \/ EditFails(d)
        PROVE  edit'[e] = edit[e]
    BY <2>5 DEF PatchRead, DeleteRead, PatchSave, DeleteSave, EditFails, EditsTyped
  <2>6. CASE edit' = edit
    BY <2>1, <2>6
  <2>7. QED
    BY <2>1, <2>2, <2>3, <2>4, <2>5, <2>6 DEF AdminNext, Sales, TierCreate, adminVars
<1>4. QED
  BY <1>2, <1>3 DEF SoldBounded, Then, PaidIn, RegsIn, Paid

(***************************************************************************)
(* Prices                                                                  *)
(***************************************************************************)

\* Sales change no price.
LEMMA SalesKeepPrices ==
  ASSUME Core, [Next]_vars
  PROVE  \A t \in Tiers : tier'[t].price = tier[t].price
<1> TypeOK
  BY DEF Core
<1>1. ASSUME NEW w \in Workers, Sale(w) PROVE \A t \in Tiers : tier'[t].price = tier[t].price
  <2>1. reg[w] \in Regs /\ Sell(reg[w], ref[w])
    BY <1>1, SaleSells
  <2>2. tier' = [tier EXCEPT ![TierOf[reg[w]]].sold = @ + 1]
    BY <2>1 DEF Sell, Sold
  <2>3. QED
    BY <2>2 DEF TypeOK
<1>2. QED
  BY <1>1, OthersDoNotSell DEF vars, db

\* The price a request has seen is the price of its tier when it commits, for
\* the row is locked; a free registration has no intent.
LEMMA RequestPriceStep ==
  ASSUME Core, PricesKnown, [Next]_vars, NEW w \in Workers
  PROVE  /\ pc'[w] = "register_commit" => tier'[TierOf[reg'[w]]].price = intent'[reg'[w]].amount
         /\ pc'[w] \in {"register_mail", "sale_commit"} /\ ref'[w] = FreeRef
              => tier'[TierOf[reg'[w]]].price = 0 /\ intent'[reg'[w]].status = "none"
<1> TypeOK /\ WorkerOK(w) /\ RefOK(w)
  BY DEF Core
<1> DEFINE Then == /\ pc'[w] = "register_commit"
                         => tier'[TierOf[reg'[w]]].price = intent'[reg'[w]].amount
                   /\ pc'[w] \in {"register_mail", "sale_commit"} /\ ref'[w] = FreeRef
                         => /\ tier'[TierOf[reg'[w]]].price = 0
                            /\ intent'[reg'[w]].status = "none"
<1> SUFFICES Then
  OBVIOUS
<1>1. ASSUME UNCHANGED <<tier, intent>>, pc'[w] = pc[w], reg'[w] = reg[w], ref'[w] = ref[w]
      PROVE  Then
  BY <1>1 DEF PricesKnown
<1>2. ASSUME NEW r \in Regs, Arrival(w, r) PROVE Then
  BY <1>2 DEF Arrival, RegisterStart, ConfirmRead, WebhookLockReg, CancelRead, Begin, Fresh, TypeOK,
              db, outside
<1>3. CASE CreateIntent(w)
  <2>1. reg[w] \in Regs /\ pc'[w] = "register_commit" /\ reg'[w] = reg[w] /\ tier' = tier
    BY <1>3 DEF CreateIntent, Goto, WorkerOK, TypeOK, db
  <2>2. intent'[reg[w]].amount = tier[TierOf[reg[w]]].price
    BY <1>3, <2>1 DEF CreateIntent, TypeOK
  <2>3. QED
    BY <2>1, <2>2
<1>4. CASE TicketMail(w)
  <2>1. /\ pc'[w] = "sale_commit" /\ reg'[w] = reg[w] /\ ref'[w] = ref[w]
        /\ UNCHANGED <<tier, intent>>
    BY <1>4 DEF TicketMail, Goto, TypeOK, db
  <2>2. pc[w] = "register_mail" \/ ref[w] \in Regs
    BY <1>4 DEF TicketMail, Goto, RefOK
  <2>3. QED
    BY <2>1, <2>2, RegsAssumption DEF PricesKnown
<1>5. CASE \/ RegisterCommit(w) \/ SaleCommit(w) \/ ConfirmLock(w) \/ ConfirmVerify(w)
           \/ ConfirmSave(w) \/ WebhookLockTier(w) \/ WebhookCommit(w) \/ WebhookMail(w)
           \/ CancelSave(w) \/ WebhookError(w) \/ Fail(w)
  <2>1. pc'[w] \notin {"register_commit", "register_mail", "sale_commit"}
    BY <1>5 DEF RegisterCommit, SaleCommit, ConfirmLock, ConfirmVerify, ConfirmSave, WebhookLockTier,
                WebhookCommit, WebhookMail, CancelSave, WebhookError, Fail, Goto, End, TypeOK
  <2>2. QED
    BY <2>1
<1>6. ASSUME NEW v \in Workers, v # w, Acts(v) PROVE Then
  <2>1. pc'[w] = pc[w] /\ reg'[w] = reg[w] /\ ref'[w] = ref[w]
    BY <1>6, OthersStay
  <2>2. CASE pc[w] \in {"register_commit", "register_mail", "sale_commit"}
    <3>1. reg[w] \in Regs /\ pc[w] \in RegHolding
      BY <2>2 DEF WorkerOK, RegHolding, RegisterLabels
    <3>2. intent'[reg[w]] = intent[reg[w]]
      BY <1>6, <2>2, <3>1, RowsOfOthers
    <3>3. tier'[TierOf[reg[w]]].price = tier[TierOf[reg[w]]].price
      BY <3>1, SalesKeepPrices, TiersAssumption
    <3>4. QED
      BY <2>1, <3>2, <3>3 DEF PricesKnown
  <2>3. QED
    BY <2>1, <2>2
<1>7. ASSUME NEW r \in Regs, PayIntent(r) PROVE Then
  <2>1. /\ tier' = tier /\ pc' = pc /\ reg' = reg /\ ref' = ref
        /\ \A q \in Regs : /\ intent'[q].amount = intent[q].amount
                           /\ intent[q].status = "none" => intent'[q] = intent[q]
    BY <1>7 DEF PayIntent, TypeOK, db, request
  <2>2. pc[w] \in {"register_commit", "register_mail", "sale_commit"} => reg[w] \in Regs
    BY DEF WorkerOK
  <2>3. QED
    BY <2>1, <2>2 DEF PricesKnown
<1>8. CASE UNCHANGED vars
  BY <1>1, <1>8 DEF vars, db, outside, request
<1>9. QED
  BY <1>2, <1>3, <1>4, <1>5, <1>6, <1>7, <1>8, NextActs DEF Acts, Step

\* What happens to an unsold registration, and to the payment row of a sold one.
LEMMA SalesPriceStep ==
  ASSUME Core, PricesKnown, RecordedAsQuoted, Next, UNCHANGED repriced
  PROVE  /\ \A r \in Regs :
              status'[r] # "NONE" /\ payment'[r] = NoPayment /\ r \notin repriced
                => tier'[TierOf[r]].price = intent'[r].amount
         /\ RecordedAsQuoted'
<1> TypeOK
  BY DEF Core
<1> DEFINE Owed(r) == status'[r] # "NONE" /\ payment'[r] = NoPayment /\ r \notin repriced
                        => tier'[TierOf[r]].price = intent'[r].amount
           Due(r) == payment'[r] # NoPayment =>
                       IF payment'[r].ref = FreeRef
                         THEN payment'[r].amount = 0 /\ intent'[r].status = "none"
                         ELSE r \notin repriced => payment'[r].amount = intent'[r].amount
<1>1. ASSUME NEW r \in Regs, status'[r] = status[r], payment'[r] = payment[r], intent'[r] = intent[r]
      PROVE  Owed(r) /\ Due(r)
  <2>1. tier'[TierOf[r]].price = tier[TierOf[r]].price
    BY SalesKeepPrices, TiersAssumption
  <2>2. QED
    BY <1>1, <2>1 DEF PricesKnown, RecordedAsQuoted, Paid
<1>2. ASSUME NEW w \in Workers, Sale(w), NEW r \in Regs PROVE Owed(r) /\ Due(r)
  <2>1. /\ reg[w] \in Regs /\ ref[w] \in Regs \union {FreeRef} /\ ~Paid(reg[w])
        /\ Sell(reg[w], ref[w]) /\ intent' = intent
    BY <1>2, SaleSells DEF outside
  <2>2. /\ payment'[reg[w]] = [ref |-> ref[w], amount |-> tier[TierOf[reg[w]]].price]
        /\ payment'[reg[w]] # NoPayment
        /\ \A q \in Regs : q # reg[w] => payment'[q] = payment[q] /\ status'[q] = status[q]
    BY <2>1, SellPays
  <2>3. CASE r # reg[w]
    BY <1>1, <2>1, <2>2, <2>3
  <2>4. CASE r = reg[w]
    <3>1. /\ payment'[r].ref = ref[w] /\ payment'[r].amount = tier[TierOf[r]].price
      BY <2>2, <2>4
    <3>2. ref[w] = FreeRef => tier[TierOf[r]].price = 0 /\ intent[r].status = "none"
      BY <1>2, <2>4, RegsAssumption
      DEF Sale, SaleCommit, WebhookCommit, Goto, Core, RefOK, PricesKnown, WebhookLabels
    <3>3. ref[w] # FreeRef => status[r] # "NONE"
      BY <1>2, <2>4, RegsAssumption
      DEF Sale, SaleCommit, WebhookCommit, Goto, Core, RefOK, WorkerOK, WebhookLabels, KnownLabels
    <3>4. ref[w] # FreeRef /\ r \notin repriced => tier[TierOf[r]].price = intent[r].amount
      BY <2>1, <2>4, <3>3 DEF PricesKnown
    <3>5. QED
      BY <2>1, <2>2, <2>4, <3>1, <3>2, <3>4
  <2>5. QED
    BY <2>3, <2>4
<1>3. ASSUME NEW w \in Workers, RegisterCommit(w), NEW r \in Regs PROVE Owed(r) /\ Due(r)
  <2>1. reg[w] \in Regs /\ ~Paid(reg[w]) /\ payment' = payment /\ intent' = intent /\ tier' = tier
    BY <1>3 DEF RegisterCommit, Core, WorkerOK, UnsoldLabels, RegisterLabels, Paid, outside
  <2>2. CASE r = reg[w]
    BY <1>3, <2>1, <2>2 DEF RegisterCommit, PricesKnown, Paid
  <2>3. CASE r # reg[w]
    BY <1>1, <1>3, <2>1, <2>3 DEF RegisterCommit, TypeOK
  <2>4. QED
    BY <2>2, <2>3
<1>4. ASSUME NEW w \in Workers, CancelSave(w), NEW r \in Regs PROVE Owed(r) /\ Due(r)
  <2>1. /\ status[reg[w]] # "NONE" /\ payment' = payment /\ intent' = intent /\ tier' = tier
        /\ status' = [status EXCEPT ![reg[w]] = "CANCELLED"]
    BY <1>4 DEF CancelSave, Core, WorkerOK, KnownLabels, outside
  <2>2. status'[r] # "NONE" => status[r] # "NONE"
    BY <2>1 DEF TypeOK
  <2>3. QED
    BY <2>1, <2>2 DEF PricesKnown, RecordedAsQuoted, Paid
<1>5. ASSUME NEW w \in Workers, CreateIntent(w), NEW r \in Regs PROVE Owed(r) /\ Due(r)
  <2>1. reg[w] \in Regs /\ status[reg[w]] = "NONE" /\ ~Paid(reg[w]) /\ status' = status
        /\ payment' = payment
    BY <1>5 DEF CreateIntent, Goto, Core, WorkerOK, UnsoldLabels, RegisterLabels, Paid, db
  <2>2. CASE r = reg[w]
    BY <2>1, <2>2 DEF Paid
  <2>3. CASE r # reg[w]
    BY <1>1, <1>5, <2>1, <2>3 DEF CreateIntent, TypeOK
  <2>4. QED
    BY <2>2, <2>3
<1>6. ASSUME NEW q \in Regs, PayIntent(q), NEW r \in Regs PROVE Owed(r) /\ Due(r)
  <2>1. /\ UNCHANGED <<tier, status, payment>>
        /\ intent'[r].amount = intent[r].amount
        /\ intent[r].status = "none" => intent'[r].status = "none"
    BY <1>6 DEF PayIntent, TypeOK, db
  <2>2. QED
    BY <2>1 DEF PricesKnown, RecordedAsQuoted, Paid
<1> HIDE DEF Owed, Due
<1>7. ASSUME UNCHANGED <<status, payment, intent>>, NEW r \in Regs PROVE Owed(r) /\ Due(r)
  BY <1>1, <1>7
<1>8. \A r \in Regs : Owed(r) /\ Due(r)
  BY <1>2, <1>3, <1>4, <1>5, <1>6, <1>7
  DEF Next, Sale, Step, Arrival, TicketMail, ConfirmLock, ConfirmVerify, ConfirmSave,
      WebhookLockTier, WebhookMail, WebhookError, Fail, RegisterStart, ConfirmRead, WebhookLockReg,
      CancelRead, db, outside
<1>9. QED
  BY <1>8 DEF Owed, Due, RecordedAsQuoted, Paid

\* A PATCH of the price leaves out of repriced only registrations that are sold,
\* and a tier that is new has none.
LEMMA WritesPriceStep ==
  ASSUME AdminCore, PricesKnown, RecordedAsQuoted, NEW t \in Tiers, NEW row, Writes(t, row),
         repriced \subseteq repriced',
         \/ listing[t] = "new"
         \/ row.price = tier[t].price
         \/ Unsold(t) \subseteq repriced'
  PROVE  PricesKnown' /\ RecordedAsQuoted'
<1> Core /\ TypeOK
  BY DEF AdminCore, Core
<1>1. UNCHANGED <<status, payment, intent, pc, reg, ref>>
  BY DEF Writes, outside, request
<1>2. \A q \in Tiers : tier'[q] = IF q = t THEN row ELSE tier[q]
  BY DEF Writes, TypeOK
<1>3. RecordedAsQuoted'
  BY <1>1 DEF RecordedAsQuoted, Paid
<1>4. ASSUME NEW r \in Regs, status[r] # "NONE", ~Paid(r), r \notin repriced'
      PROVE  tier'[TierOf[r]].price = intent[r].amount
  <2>1. tier[TierOf[r]].price = intent[r].amount
    BY <1>4 DEF PricesKnown
  <2>2. TierOf[r] # t \/ row.price = tier[t].price
    <3>1. listing[TierOf[r]] = "listed"
      BY <1>4 DEF AdminCore, Listed
    <3>2. TierOf[r] = t => r \in Unsold(t)
      BY <1>4 DEF Unsold, RegsIn
    <3>3. QED
      BY <1>4, <3>1, <3>2
  <2>3. QED
    BY <1>2, <2>1, <2>2, TiersAssumption
<1>5. ASSUME NEW w \in Workers, pc[w] \in {"register_commit", "register_mail", "sale_commit"}
      PROVE  tier'[TierOf[reg[w]]] = tier[TierOf[reg[w]]]
  <2>1. reg[w] \in Regs /\ pc[w] \in SeatedLabels
    BY <1>5 DEF Core, WorkerOK, SeatedLabels, RegisterLabels
  <2>2. QED
    BY <1>2, <2>1, SpareLocked, TiersAssumption
<1>6. PricesKnown'
  BY <1>1, <1>4, <1>5 DEF PricesKnown, Paid
<1>7. QED
  BY <1>3, <1>6

(***************************************************************************)
(* The theorems                                                            *)
(***************************************************************************)

\* At the start no tier has sold anything and no edit is under way.
LEMMA AdminInvInit == AdminInit => AdminInv
<1> SUFFICES ASSUME AdminInit PROVE AdminInv
  OBVIOUS
<1> Init /\ Core
  BY CoreInit DEF AdminInit
<1>1. EditsTyped /\ Listed
  BY DEF AdminInit, Init, EditsTyped, Listed
<1>2. SoldBounded
  <2>1. \A t \in Tiers : tier[t].sold = 0 /\ Cardinality(PaidIn(t)) \in Nat
    BY PaidInFinite DEF Init
  <2>2. QED
    BY <2>1 DEF AdminInit, SoldBounded
<1>3. PricesKnown /\ RecordedAsQuoted
  BY DEF Init, PricesKnown, RecordedAsQuoted, Paid
<1>4. QED
  BY <1>1, <1>2, <1>3 DEF AdminInv, AdminCore

\* Prices and payment rows agree after every step as before it.
LEMMA PricesStep ==
  AdminCore /\ PricesKnown /\ RecordedAsQuoted /\ [AdminNext]_adminVars
    => PricesKnown' /\ RecordedAsQuoted'
<1> SUFFICES ASSUME AdminCore, PricesKnown, RecordedAsQuoted, [AdminNext]_adminVars
             PROVE  PricesKnown' /\ RecordedAsQuoted'
  OBVIOUS
<1> Core /\ EditsTyped
  BY DEF AdminCore
<1>1. CASE Sales
  BY <1>1, RequestPriceStep, SalesPriceStep DEF Sales, PricesKnown, Paid
<1>2. CASE UNCHANGED <<vars, repriced>>
  BY <1>2 DEF vars, db, outside, request, PricesKnown, RecordedAsQuoted, Paid
<1>3. ASSUME NEW t \in Tiers, NEW price \in Prices, NEW total \in Totals,
             TierCreate(t, price, total),
             Writes(t, [price |-> price, total |-> total, sold |-> 0])
      PROVE  PricesKnown' /\ RecordedAsQuoted'
  BY <1>3, WritesPriceStep DEF TierCreate
<1>4. ASSUME NEW e \in Editors, PatchSave(e), Writes(edit[e].at, edit[e].row)
      PROVE  PricesKnown' /\ RecordedAsQuoted'
  <2>1. edit[e].at \in Tiers
    BY <1>4, EditRead DEF PatchSave
  <2>2. \/ edit[e].row.price = tier[edit[e].at].price
        \/ Unsold(edit[e].at) \subseteq repriced'
    BY <1>4 DEF PatchSave
  <2>3. repriced \subseteq repriced'
    BY <1>4 DEF PatchSave
  <2>4. QED
    BY <1>4, <2>1, <2>2, <2>3, WritesPriceStep
<1>5. QED
  BY <1>1, <1>2, <1>3, <1>4, AdminSteps

\* AdminInv is inductive: neither sales nor edits, nor the two together, break it.
THEOREM AdminInductive == AdminSpec => []AdminInv
<1>1. AdminInv /\ [AdminNext]_adminVars => AdminInv'
  BY CoreKept, EditsTypedStep, ListedStep, BoundStep, PricesStep DEF AdminInv, AdminCore
<1>2. QED
  BY AdminInvInit, <1>1, PTL DEF AdminSpec

\* Rows, requests and edits keep their types while tiers are created, patched
\* and deleted.
THEOREM AdminTyped == AdminSpec => []AdminTypeOK
<1>1. AdminInv => AdminTypeOK
  BY DEF AdminInv, AdminCore, Core, EditsTyped, AdminTypeOK
<1>2. QED
  BY AdminInductive, <1>1, PTL

\* A DELETE never takes a tier from under a registration or a request for one.
THEOREM RegistrationsKeepTheirTier == AdminSpec => []NoOrphans
<1>1. AdminInv => NoOrphans
  BY DEF AdminInv, AdminCore, Listed, NoOrphans, RegisterLabels
<1>2. QED
  BY AdminInductive, <1>1, PTL

\* A lost update hides seats that are taken, and takes none that are not: the
\* counter of a tier never exceeds its payments.
THEOREM SeatsArePaidFor == AdminSpec => []SoldAtMostPayments
<1>1. AdminInv => SoldAtMostPayments
  BY DEF AdminInv, SoldBounded, SoldAtMostPayments, PaidIn
<1>2. QED
  BY AdminInductive, <1>1, PTL

\* A payment row records the price its own buyer was quoted, whichever intent its
\* confirmation referred to, unless a PATCH changed the price in between.
THEOREM RowsShowTheQuote == AdminSpec => []RecordedAsQuoted
<1>1. AdminInv => RecordedAsQuoted
  BY DEF AdminInv
<1>2. QED
  BY AdminInductive, <1>1, PTL

\* An edit leaves the registrations, payments and requests to the sales.
LEMMA EditsSpareSales ==
  AdminNext => [Next]_vars \/ UNCHANGED <<status, payment, outside, request>>
BY DEF AdminNext, Sales, TierCreate, PatchRead, PatchSave, DeleteRead, DeleteSave, EditFails, vars, db

\* Cancelling an issued ticket is final also while organizers edit its tier
\* (registration_cancel next to tier_detail).
THEOREM CancelOfIssuedIsFinalUnderEdits == AdminSpec => IssuedCancelIsFinal
<1> DEFINE Final == \A r \in Regs : Paid(r) /\ status[r] = "CANCELLED" => status'[r] = "CANCELLED"
<1>1. Core /\ [AdminNext]_adminVars => [Final]_vars
  <2> SUFFICES ASSUME Core, [AdminNext]_adminVars, ~ UNCHANGED vars PROVE Final
    OBVIOUS
  <2>1. [Next]_vars \/ UNCHANGED <<status, payment, outside, request>>
    BY EditsSpareSales DEF adminVars
  <2>2. CASE [Next]_vars
    BY <2>2, IssuedCancelStep
  <2>3. CASE UNCHANGED <<status, payment, outside, request>>
    BY <2>3
  <2> QED BY <2>1, <2>2, <2>3
<1>2. AdminInv => Core
  BY DEF AdminInv, AdminCore
<1> QED BY AdminInductive, <1>1, <1>2, PTL DEF AdminSpec, IssuedCancelIsFinal

\* Nor does a cancelled registration gain anything from an edit: a price, a total
\* or a counter written back lets no later request confirm it.
THEOREM CancelStopsArrivalsUnderEdits == AdminSpec => CancelledGainsNothing
<1> DEFINE Gain == \A r \in Regs : status[r] = "CANCELLED" =>
                     /\ Confirming(r)' \subseteq Confirming(r)
                     /\ status'[r] = "CONFIRMED" => Confirming(r)' # Confirming(r)
<1>1. Core /\ [AdminNext]_adminVars => [Gain]_vars
  <2> SUFFICES ASSUME Core, [AdminNext]_adminVars, ~ UNCHANGED vars PROVE Gain
    OBVIOUS
  <2>1. [Next]_vars \/ UNCHANGED <<status, payment, outside, request>>
    BY EditsSpareSales DEF adminVars
  <2>2. CASE [Next]_vars
    BY <2>2, CancelledGainStep
  <2>3. CASE UNCHANGED <<status, payment, outside, request>>
    BY <2>3 DEF Confirming, request
  <2> QED BY <2>1, <2>2, <2>3
<1>2. AdminInv => Core
  BY DEF AdminInv, AdminCore
<1> QED BY AdminInductive, <1>1, <1>2, PTL DEF AdminSpec, CancelledGainsNothing
=============================================================================
