------------------------------ MODULE TierAdmin ------------------------------
(***************************************************************************)
(* The organizer's edits of ticket tiers (tier_create and tier_detail in   *)
(* events/views.py) while tickets of the tiers are sold (Ticketing).       *)
(*                                                                         *)
(* PATCH reads the row without a lock, applies the fields of the request   *)
(* to the object and saves it: the UPDATE waits for the row lock and       *)
(* writes every column of the object, quantity_sold included.  DELETE      *)
(* reads quantity_sold without a lock and deletes the row when it was 0,   *)
(* unless a registration refers to it (on_delete=PROTECT, and the foreign  *)
(* key at commit).                                                         *)
(*                                                                         *)
(* Of a tier its price, total and counter are kept; its name and the event *)
(* it belongs to, which a PATCH can also change, touch no sale.            *)
(***************************************************************************)
EXTENDS Ticketing

CONSTANTS Editors,   \* threads that serve the organizer
          NewTiers,  \* the tiers that do not exist yet at the start
          Totals,    \* values of quantity_total in a request
          Prices,    \* values of price in a request
          Same,      \* a field a PATCH does not name
          NoEdit     \* no edit under way

TierRow == [price : Nat, total : Nat \ {0}, sold : Nat]

Edit == [op : {"patch"}, at : Tiers, row : TierRow] \union [op : {"delete"}, at : Tiers]

ASSUME EditAssumption ==
  /\ Totals \subseteq Nat \ {0} /\ Prices \subseteq Nat
  /\ Same \notin Totals /\ Same \notin Prices
  /\ NoEdit \notin Edit

VARIABLES
  edit,     \* what each editor has read and is about to write
  listing,  \* which tier rows exist, and which are gone
  repriced  \* history: registrations not yet sold when a PATCH changed the price of their tier

adminVars == <<vars, edit, listing, repriced>>

AdminTypeOK ==
  /\ TypeOK
  /\ edit \in [Editors -> Edit \union {NoEdit}]
  /\ listing \in [Tiers -> {"new", "listed", "deleted"}]
  /\ repriced \subseteq Regs

AdminInit ==
  /\ Init
  /\ edit = [e \in Editors |-> NoEdit]
  /\ listing = [t \in Tiers |-> IF t \in NewTiers THEN "new" ELSE "listed"]
  /\ repriced = {}

\* quantity_sold is no field of the request: it starts at its default.
TierCreate(t, price, total) ==
  /\ listing[t] = "new"
  /\ listing' = [listing EXCEPT ![t] = "listed"]
  /\ tier' = [tier EXCEPT ![t] = [price |-> price, total |-> total, sold |-> 0]]
  /\ UNCHANGED <<status, payment, outside, request, edit, repriced>>

Patched(row, price, total) ==
  [row EXCEPT !.price = IF price = Same THEN @ ELSE price,
              !.total = IF total = Same THEN @ ELSE total]

PatchRead(e, t, price, total) ==
  /\ edit[e] = NoEdit
  /\ listing[t] = "listed"
  /\ edit' = [edit EXCEPT ![e] =
                [op |-> "patch", at |-> t, row |-> Patched(tier[t], price, total)]]
  /\ UNCHANGED <<vars, listing, repriced>>

\* The registrations of the tier that are still to be sold.
Unsold(t) == {r \in RegsIn(t) : status[r] # "NONE" /\ ~Paid(r)}

\* save() of an object whose row is gone inserts it again: an UPDATE of no row
\* is followed by an INSERT with the primary key of the object.
PatchSave(e) ==
  LET t == edit[e].at IN
  /\ edit[e] # NoEdit
  /\ edit[e].op = "patch"
  /\ TierFree(t)
  /\ tier' = [tier EXCEPT ![t] = edit[e].row]
  /\ listing' = [listing EXCEPT ![t] = "listed"]
  /\ repriced' = repriced \union (IF edit[e].row.price = tier[t].price THEN {} ELSE Unsold(t))
  /\ edit' = [edit EXCEPT ![e] = NoEdit]
  /\ UNCHANGED <<status, payment, outside, request>>

DeleteRead(e, t) ==
  /\ edit[e] = NoEdit
  /\ listing[t] = "listed"
  /\ tier[t].sold <= 0
  /\ edit' = [edit EXCEPT ![e] = [op |-> "delete", at |-> t]]
  /\ UNCHANGED <<vars, listing, repriced>>

\* Some committed registration refers to the tier.
Referenced_NoProtect(t) == t \notin Tiers
Referenced(t) == \E r \in RegsIn(t) : status[r] # "NONE"

\* The DELETE waits for the row, which every registration being made holds.
DeleteSave(e) ==
  LET t == edit[e].at IN
  /\ edit[e] # NoEdit
  /\ edit[e].op = "delete"
  /\ TierFree(t)
  /\ \/ (Referenced(t) \/ listing[t] = "deleted") /\ UNCHANGED listing
     \/ ~Referenced(t) /\ listing' = [listing EXCEPT ![t] = "deleted"]
  /\ edit' = [edit EXCEPT ![e] = NoEdit]
  /\ UNCHANGED <<vars, repriced>>

EditFails(e) ==
  /\ edit[e] # NoEdit
  /\ edit' = [edit EXCEPT ![e] = NoEdit]
  /\ UNCHANGED <<vars, listing, repriced>>

\* get_tier finds the row of the tier a registration asks for.
TierFound ==
  \A w \in Workers :
    pc[w] = "idle" /\ pc'[w] \in RegisterLabels => listing[TierOf[reg'[w]]] = "listed"

Sales == Next /\ TierFound /\ UNCHANGED <<edit, listing, repriced>>

AdminNext ==
  \/ Sales
  \/ \E t \in Tiers, price \in Prices, total \in Totals : TierCreate(t, price, total)
  \/ \E e \in Editors :
       \/ \E t \in Tiers, price \in Prices \union {Same}, total \in Totals \union {Same} :
            PatchRead(e, t, price, total)
       \/ \E t \in Tiers : DeleteRead(e, t)
       \/ PatchSave(e) \/ DeleteSave(e) \/ EditFails(e)

AdminSpec == AdminInit /\ [][AdminNext]_adminVars

(***************************************************************************)
(* Properties                                                              *)
(***************************************************************************)

\* A PATCH that saves an old quantity_sold over a sale hides seats that are
\* taken; it never takes a seat nobody paid for.  So the counter of a tier may
\* fall short of its payments and never exceeds them.
SoldAtMostPayments ==
  \A t \in Tiers : tier[t].sold <= Cardinality({r \in RegsIn(t) : Paid(r)})

\* No registration refers to a tier that is gone, nor does one being made: the
\* check of quantity_sold before a DELETE does not see PENDING registrations,
\* nor those that commit after it.
NoOrphans ==
  /\ \A r \in Regs : status[r] # "NONE" => listing[TierOf[r]] = "listed"
  /\ \A w \in Workers : pc[w] \in RegisterLabels => listing[TierOf[reg[w]]] = "listed"

\* A payment row records the price its own buyer was quoted, the amount of the
\* intent made for the registration, and 0 for one made while its tier was free:
\* only a PATCH of the price between the registration and the sale puts another
\* amount there, and one that overlaps either of them waits.  The row need not
\* record what Stripe took: its buyer may have confirmed with the succeeded intent
\* of another registration.
RecordedAsQuoted ==
  \A r \in Regs : Paid(r) =>
    IF payment[r].ref = FreeRef
      THEN payment[r].amount = 0 /\ intent[r].status = "none"
      ELSE r \notin repriced => payment[r].amount = intent[r].amount

\* quantity_sold is one of the "read_only_fields" of a PATCH and otherwise only
\* incremented: no step lowers it.
SoldNeverLowered == [][\A t \in Tiers : tier'[t].sold >= tier[t].sold]_adminVars
=============================================================================
