------------------------------ MODULE SeedDemo ------------------------------
(***************************************************************************)
(* The management command seed_demo, which fills the database with demo    *)
(* data, run by several operators or deployment hooks at once while the    *)
(* API serves requests.  The command opens no transaction: each of its     *)
(* statements commits by itself, a run that dies leaves what it has        *)
(* written, and what it has written is on sale at once (its events are     *)
(* born PUBLISHED).                                                        *)
(*                                                                         *)
(* A run is the position it has reached in Script.  Of the rows it writes  *)
(* the model keeps what others can get in the way of: the addresses, the   *)
(* two tiers it sells itself, and the registrations of those.  The API is  *)
(* what TicketLedger and TierAdmin leave of it: registrations that are     *)
(* free, or PENDING until they are paid for, cancellations, scans, and the *)
(* organizer's PATCH of a tier.  A PATCH can give any tier a price or take *)
(* it away, so that both kinds of registration are made of both tiers; the *)
(* price itself is left out.  So is the DELETE of a tier nobody has        *)
(* registered for: a run that goes on to sell it fails (SeedFail).         *)
(***************************************************************************)
EXTENDS Naturals, Sequences, FiniteSets

CONSTANTS Runs,      \* invocations of the command
          Signups,   \* the demo addresses somebody may register through the API
          LiveSales, \* bound on the registrations made through the API
          Api        \* who makes those

ASSUME SeedAssumption == LiveSales \in Nat /\ Api \notin Runs

(***************************************************************************)
(* The statements of handle, in order                                      *)
(***************************************************************************)

Do(op, of) == [op |-> op, of |-> of]

Account(address) == <<Do("user", address), Do("profile", address)>>

\* An event, its tiers, and as many sessions as it has.
Event(tiers, sessions) ==
  <<Do("event", "demo")>> \o [i \in DOMAIN tiers |-> Do("tier", tiers[i])]
    \o [i \in 1..sessions |-> Do("session", "demo")]

People ==
  <<Do("user", "admin")>> \o Account("org1") \o Account("org2")
    \o Account("att1") \o Account("att2") \o Account("att3")

Programme ==
  Event(<<"early", "general", "vip">>, 3) \o Event(<<"free">>, 2)
    \o Event(<<"standard", "premium">>, 3) \o Event(<<"meetup">>, 2)

\* Three tickets of the free tier, two of which are checked in, and one of the
\* early birds; check_in names its registration by its place in the query.
Samples_Unpaid ==
  << Do("registration", "free"), Do("payment", "free"),
     Do("registration", "free"),
     Do("registration", "free"), Do("payment", "free"),
     Do("save", "free"), Do("select", "free"), Do("check_in", 1), Do("check_in", 2),
     Do("registration", "early"), Do("payment", "early"), Do("save", "early") >>
Samples ==
  << Do("registration", "free"), Do("payment", "free"),
     Do("registration", "free"), Do("payment", "free"),
     Do("registration", "free"), Do("payment", "free"),
     Do("save", "free"), Do("select", "free"), Do("check_in", 1), Do("check_in", 2),
     Do("registration", "early"), Do("payment", "early"), Do("save", "early") >>

Script == People \o Programme \o Samples

Operands(op) == {Script[k].of : k \in {j \in DOMAIN Script : Script[j].op = op}}

Addresses == Operands("user") \union Signups
DemoTiers == Operands("registration")

VARIABLES
  stage,   \* of each run: "new", "running", "over"
  done,    \* how many statements of the script it has executed
  picked,  \* the registrations it read to check them in
  emails,  \* the demo addresses that have an account
  listed,  \* the tiers that exist
  sold,    \* quantity_sold
  seen,    \* history: the values of it that a PATCH under way may have read
  reg      \* registration rows, by primary key

runState == <<stage, done, picked>>
counters == <<sold, seen>>
seedVars == <<runState, emails, listed, counters, reg>>

Row == [tier : DemoTiers, by : Runs \union {Api}, status : {"PENDING", "CONFIRMED", "CANCELLED"},
        paid : BOOLEAN, admitted : BOOLEAN]

SeedTypeOK ==
  /\ stage \in [Runs -> {"new", "running", "over"}]
  /\ done \in [Runs -> 0..Len(Script)]
  /\ picked \in [Runs -> Seq(1..Len(reg))]
  /\ emails \subseteq Addresses
  /\ listed \subseteq Operands("tier")
  /\ sold \in [DemoTiers -> Nat]
  /\ seen \in [DemoTiers -> SUBSET Nat]
  /\ reg \in Seq(Row)

SeedInit ==
  /\ stage = [p \in Runs |-> "new"]
  /\ done = [p \in Runs |-> 0]
  /\ picked = [p \in Runs |-> <<>>]
  /\ emails = {} /\ listed = {}
  /\ sold = [t \in DemoTiers |-> 0]
  /\ seen = [t \in DemoTiers |-> {0}]
  /\ reg = <<>>

\* "Demo data already exists. Skipping."
SeedStart(p) ==
  /\ stage[p] = "new"
  /\ stage' = [stage EXCEPT ![p] = IF "admin" \in emails THEN "over" ELSE "running"]
  /\ UNCHANGED <<done, picked, emails, listed, counters, reg>>

At(p, op) == stage[p] = "running" /\ Script[done[p] + 1].op = op
Operand(p) == Script[done[p] + 1].of

Advance(p) ==
  /\ done' = [done EXCEPT ![p] = @ + 1]
  /\ stage' = [stage EXCEPT ![p] = IF done[p] + 1 = Len(Script) THEN "over" ELSE @]

Die(p) == stage' = [stage EXCEPT ![p] = "over"] /\ UNCHANGED done

\* The unique constraint of User.email; nothing catches the IntegrityError.
Available_NoConstraint(address) == address \in Addresses
Available(address) == address \notin emails

SeedUser(p) ==
  /\ At(p, "user")
  /\ \/ Available(Operand(p)) /\ emails' = emails \union {Operand(p)} /\ Advance(p)
     \/ ~Available(Operand(p)) /\ Die(p) /\ UNCHANGED emails
  /\ UNCHANGED <<picked, listed, counters, reg>>

SeedRow(p) ==
  /\ \/ At(p, "profile") \/ At(p, "event") \/ At(p, "session")
  /\ Advance(p)
  /\ UNCHANGED <<picked, emails, listed, counters, reg>>

SeedTier(p) ==
  /\ At(p, "tier")
  /\ listed' = listed \union {Operand(p)}
  /\ Advance(p)
  /\ UNCHANGED <<picked, emails, counters, reg>>

Registration(t, by, status, paid) ==
  [tier |-> t, by |-> by, status |-> status, paid |-> paid, admitted |-> FALSE]

SeedRegistration(p) ==
  /\ At(p, "registration")
  /\ reg' = Append(reg, Registration(Operand(p), p, "CONFIRMED", FALSE))
  /\ Advance(p)
  /\ UNCHANGED <<picked, emails, listed, counters>>

\* The tickets of the tier the run has made; the last one is in its hands.
Own_AnyTier(p, t) == {i \in DOMAIN reg : reg[i].by = p}
Own(p, t) == {i \in DOMAIN reg : reg[i].by = p /\ reg[i].tier = t}

Latest(S) == CHOOSE i \in S : \A j \in S : j <= i

SeedPayment(p) ==
  /\ At(p, "payment")
  /\ reg' = [reg EXCEPT ![Latest(Own(p, Operand(p)))].paid = TRUE]
  /\ Advance(p)
  /\ UNCHANGED <<picked, emails, listed, counters>>

SetCounter(t, n) ==
  /\ sold' = [sold EXCEPT ![t] = n]
  /\ seen' = [seen EXCEPT ![t] = @ \union {n}]

\* save() writes the whole object, whose quantity_sold has counted the tickets
\* of the run since the tier was created, and no others.
SeedSave(p) ==
  /\ At(p, "save")
  /\ SetCounter(Operand(p), Cardinality(Own(p, Operand(p))))
  /\ Advance(p)
  /\ UNCHANGED <<picked, emails, listed, reg>>

Oldest_Descending(S) == CHOOSE i \in S : \A j \in S : j <= i
Oldest(S) == CHOOSE i \in S : \A j \in S : i <= j

\* The two oldest registrations of the tier, whoever's and in whatever status;
\* the run has made three.
SeedSelect(p) ==
  LET keys == {i \in DOMAIN reg : reg[i].tier = Operand(p)} IN
  /\ At(p, "select")
  /\ picked' = [picked EXCEPT ![p] = <<Oldest(keys), Oldest(keys \ {Oldest(keys)})>>]
  /\ Advance(p)
  /\ UNCHANGED <<emails, listed, counters, reg>>

\* The IntegrityError of a registration that was scanned meanwhile ends the run.
SeedCheckIn(p) ==
  LET i == picked[p][Operand(p)] IN
  /\ At(p, "check_in")
  /\ \/ ~reg[i].admitted /\ reg' = [reg EXCEPT ![i].admitted = TRUE] /\ Advance(p)
     \/ reg[i].admitted /\ Die(p) /\ UNCHANGED reg
  /\ UNCHANGED <<picked, emails, listed, counters>>

SeedFail(p) ==
  /\ stage[p] = "running"
  /\ Die(p)
  /\ UNCHANGED <<picked, emails, listed, counters, reg>>

(***************************************************************************)
(* The API                                                                 *)
(***************************************************************************)

Live == {i \in DOMAIN reg : reg[i].by = Api}

ApiRegister(address) ==
  /\ address \in Signups \ emails
  /\ emails' = emails \union {address}
  /\ UNCHANGED <<runState, listed, counters, reg>>

\* No demo tier is near its limit.
Reservable(t) == t \in listed /\ Cardinality(Live) < LiveSales

\* While the tier is free: row, payment and counter in one commit.
ApiSale_Returned(t) ==
  /\ Reservable(t)
  /\ reg' = Append(reg, Registration(t, Api, "CONFIRMED", TRUE))
  /\ SetCounter(t, sold[t] - 1)
  /\ UNCHANGED <<runState, emails, listed>>
ApiSale(t) ==
  /\ Reservable(t)
  /\ reg' = Append(reg, Registration(t, Api, "CONFIRMED", TRUE))
  /\ SetCounter(t, sold[t] + 1)
  /\ UNCHANGED <<runState, emails, listed>>

\* While it has a price: the row waits for its payment.
ApiReserve(t) ==
  /\ Reservable(t)
  /\ reg' = Append(reg, Registration(t, Api, "PENDING", FALSE))
  /\ UNCHANGED <<runState, emails, listed, counters>>

\* The buyer has paid.  A cancellation that lost the race to the confirmation is
\* overwritten.
ApiConfirm(i) ==
  /\ reg[i].by = Api /\ ~reg[i].paid
  /\ reg' = [reg EXCEPT ![i].status = "CONFIRMED", ![i].paid = TRUE]
  /\ SetCounter(reg[i].tier, sold[reg[i].tier] + 1)
  /\ UNCHANGED <<runState, emails, listed>>

ApiCancel(i) ==
  /\ reg[i].status # "CANCELLED"
  /\ reg' = [reg EXCEPT ![i].status = "CANCELLED"]
  /\ UNCHANGED <<runState, emails, listed, counters>>

\* A PATCH writes back the counter it has read, however long ago.
ApiPatch(t) ==
  /\ t \in listed
  /\ \E n \in seen[t] : SetCounter(t, n)
  /\ UNCHANGED <<runState, emails, listed, reg>>

ApiScan(i) ==
  /\ reg[i].status = "CONFIRMED" /\ ~reg[i].admitted
  /\ reg' = [reg EXCEPT ![i].admitted = TRUE]
  /\ UNCHANGED <<runState, emails, listed, counters>>

SeedNext ==
  \/ \E p \in Runs :
       \/ SeedStart(p) \/ SeedUser(p) \/ SeedRow(p) \/ SeedTier(p) \/ SeedRegistration(p)
       \/ SeedPayment(p) \/ SeedSave(p) \/ SeedSelect(p) \/ SeedCheckIn(p) \/ SeedFail(p)
  \/ \E address \in Signups : ApiRegister(address)
  \/ \E t \in DemoTiers : ApiSale(t) \/ ApiReserve(t) \/ ApiPatch(t)
  \/ \E i \in DOMAIN reg : ApiConfirm(i) \/ ApiCancel(i) \/ ApiScan(i)

SeedSpec == SeedInit /\ [][SeedNext]_seedVars

(***************************************************************************)
(* Properties                                                              *)
(***************************************************************************)

\* However many runs overlap, one writes: all may have found no admin, and the
\* unique address of the admin, their first statement, stops all but one.
SeededOnce == \A p, q \in Runs : p # q => done[p] = 0 \/ done[q] = 0

\* The saves of the tiers overwrite what the API has sold since they were
\* created, so a counter may fall short of the tickets; it never exceeds those
\* that have a payment row.
PaidIn(t) == {i \in DOMAIN reg : reg[i].tier = t /\ reg[i].paid}

CounterNeverAhead == \A t \in DemoTiers : sold[t] <= Cardinality(PaidIn(t))

\* What the API confirms has a payment row; a run that dies leaves at most one
\* registration without, the one it was writing.
UnpaidIsNewest ==
  \A i \in DOMAIN reg : ~reg[i].paid =>
    LET p == reg[i].by IN
      \/ p = Api /\ reg[i].status # "CONFIRMED"
      \/ /\ p \in Runs
         /\ Script[done[p] + 1].op = "payment"
         /\ i = Latest(Own(p, reg[i].tier))

\* "Check in the first two attendees": a run may check in others than it has made,
\* even some who have not paid, but nobody who came after its second ticket of the
\* tier, however many register before its query and after it.
ChecksInFirst ==
  [][\A p \in Runs, i \in DOMAIN reg :
       SeedCheckIn(p) /\ reg'[i].admitted /\ ~reg[i].admitted =>
         \A j, k \in Own(p, reg[i].tier) : j < i /\ k < i => j = k]_seedVars
=============================================================================
