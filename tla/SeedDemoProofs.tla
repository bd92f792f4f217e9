--------------------------- MODULE SeedDemoProofs ---------------------------
(***************************************************************************)
(* Proofs about SeedDemo, for any set of runs and any number of            *)
(* registrations made through the API.                                     *)
(***************************************************************************)
EXTENDS SeedDemo, FiniteSetTheorems, SequenceTheorems, WellFoundedInduction, TLAPS

(***************************************************************************)
(* The script                                                              *)
(***************************************************************************)

Names == {"admin", "org1", "org2", "att1", "att2", "att3", "demo", "early", "general", "vip",
          "free", "standard", "premium", "meetup"}

\* Statements before the first ticket, and those of the tickets.
Preparing == [op : {"user", "profile", "event", "tier", "session"}, of : Names]
Selling   == [op : {"registration", "payment", "save", "select"}, of : {"early", "free"}]
               \union [op : {"check_in"}, of : {1, 2}]

\* The accounts come first, and of them the admin.
LEMMA PeopleFirst ==
  /\ People \in Seq(Preparing)
  /\ Len(People) >= 1 /\ People[1] = Do("user", "admin")
<1>1. \A name \in Names : Account(name) \in Seq(Preparing) /\ Len(Account(name)) = 2
  BY DEF Account, Do, Preparing
<1>2. <<Do("user", "admin")>> \in Seq(Preparing)
  BY DEF Do, Preparing, Names
<1> QED
  BY <1>1, <1>2 DEF People, Names

\* The tickets come last.
LEMMA SamplesAre ==
  /\ Samples \in Seq(Selling) /\ Len(Samples) = 13
  /\ Samples[1] = Do("registration", "free") /\ Samples[2] = Do("payment", "free")
  /\ Samples[3] = Do("registration", "free") /\ Samples[4] = Do("payment", "free")
  /\ Samples[5] = Do("registration", "free") /\ Samples[6] = Do("payment", "free")
  /\ Samples[7] = Do("save", "free") /\ Samples[8] = Do("select", "free")
  /\ Samples[9] = Do("check_in", 1) /\ Samples[10] = Do("check_in", 2)
  /\ Samples[11] = Do("registration", "early") /\ Samples[12] = Do("payment", "early")
  /\ Samples[13] = Do("save", "early")
<1>1. /\ \A t \in {"early", "free"} : \A op \in {"registration", "payment", "save", "select"} :
           Do(op, t) \in Selling
      /\ Do("check_in", 1) \in Selling /\ Do("check_in", 2) \in Selling
  BY DEF Do, Selling
<1> QED BY <1>1 DEF Samples

\* An event is prepared tier by tier and session by session.
LEMMA EventPrepared ==
  ASSUME NEW tiers \in Seq(Names), NEW n \in Nat
  PROVE  Event(tiers, n) \in Seq(Preparing)
<1> DEFINE offered == [i \in DOMAIN tiers |-> Do("tier", tiers[i])]
           held == [i \in 1..n |-> Do("session", "demo")]
<1>1. <<Do("event", "demo")>> \in Seq(Preparing)
  BY DEF Do, Preparing, Names
<1>2. offered \in Seq(Preparing)
  <2>1. \A i \in 1..Len(tiers) : Do("tier", tiers[i]) \in Preparing
    BY DEF Do, Preparing
  <2> QED BY <2>1, IsASeq
<1>3. held \in Seq(Preparing)
  <2>1. Do("session", "demo") \in Preparing
    BY DEF Do, Preparing, Names
  <2> QED BY <2>1, IsASeq
<1> HIDE DEF offered, held
<1>4. Event(tiers, n) = (<<Do("event", "demo")>> \o offered) \o held
  BY DEF Event, offered, held
<1> QED BY <1>1, <1>2, <1>3, <1>4, ConcatProperties

LEMMA ProgrammePrepared == Programme \in Seq(Preparing)
<1> DEFINE a == Event(<<"early", "general", "vip">>, 3)
           b == Event(<<"free">>, 2)
           c == Event(<<"standard", "premium">>, 3)
           d == Event(<<"meetup">>, 2)
<1>1. /\ <<"early", "general", "vip">> \in Seq(Names) /\ <<"free">> \in Seq(Names)
      /\ <<"standard", "premium">> \in Seq(Names) /\ <<"meetup">> \in Seq(Names)
  BY DEF Names
<1>2. a \in Seq(Preparing) /\ b \in Seq(Preparing) /\ c \in Seq(Preparing) /\ d \in Seq(Preparing)
  BY <1>1, EventPrepared
<1>3. Programme = ((a \o b) \o c) \o d
  BY DEF Programme
<1> HIDE DEF a, b, c, d
<1> QED BY <1>2, <1>3, ConcatProperties

(***************************************************************************)
(* The invariant                                                           *)
(***************************************************************************)

\* The number of statements before the first ticket.
Prepared == Len(People \o Programme)

\* A run that has written something has taken the address of the admin.
RunOK(p) ==
  /\ stage[p] = "new" => done[p] = 0
  /\ stage[p] = "running" => done[p] < Len(Script)
  /\ done[p] > 0 => "admin" \in emails

\* A run's unpaid registration is its latest, and the next statement pays for it;
\* one of the API is not confirmed.
UnpaidOK ==
  \A i \in DOMAIN reg : ~reg[i].paid =>
    LET p == reg[i].by IN
      /\ p = Api => reg[i].status # "CONFIRMED"
      /\ p # Api =>
           /\ p \in Runs /\ done[p] < Len(Script)
           /\ Script[done[p] + 1] = Do("payment", reg[i].tier)
           /\ \A j \in Own(p, reg[i].tier) : j <= i

\* No counter a PATCH may write back exceeds the payments.
SeenOK == \A t \in DemoTiers : \A n \in seen[t] : n <= Cardinality(PaidIn(t))

\* The tickets of the free tier the run has made before it selects two.
MadeOK(p) ==
  /\ done[p] > Prepared => Own(p, "free") # {}
  /\ done[p] > Prepared + 2 => \E i, j \in Own(p, "free") : i # j

\* A ticket of the free tier that at most one of the run's own is older than.
EarlyFor(p, i) ==
  /\ i \in DOMAIN reg /\ reg[i].tier = "free"
  /\ \A j, k \in Own(p, "free") : j < i /\ k < i => j = k

\* The two the run has selected.
PickedOK(p) == done[p] > Prepared + 7 => \A n \in {1, 2} : EarlyFor(p, picked[p][n])

SeedInv ==
  /\ SeedTypeOK
  /\ SeededOnce
  /\ \A p \in Runs : RunOK(p) /\ MadeOK(p) /\ PickedOK(p)
  /\ UnpaidOK
  /\ SeenOK
  /\ CounterNeverAhead

LEMMA ScriptShape ==
  /\ Script \in Seq(Preparing \union Selling)
  /\ Prepared \in Nat /\ Prepared >= 1 /\ Len(Script) = Prepared + 13
  /\ Script[1] = Do("user", "admin")
  /\ \A k \in 1..Prepared : Script[k] \in Preparing
  /\ \A j \in 1..13 : Script[Prepared + j] = Samples[j]
<1> DEFINE head == People \o Programme
           All == Preparing \union Selling
<1>1. /\ head \in Seq(Preparing) /\ Len(head) >= 1 /\ head[1] = Do("user", "admin")
      /\ Len(head) \in Nat /\ \A k \in 1..Len(head) : head[k] \in Preparing
  <2>1. head \in Seq(Preparing) /\ Len(head) = Len(People) + Len(Programme) /\ head[1] = People[1]
    BY PeopleFirst, ProgrammePrepared, ConcatProperties
  <2>2. Len(People) \in Nat /\ Len(Programme) \in Nat
    BY PeopleFirst, ProgrammePrepared
  <2> HIDE DEF head
  <2> QED BY <2>1, <2>2, PeopleFirst
<1>2. Script = head \o Samples
  BY PeopleFirst, ProgrammePrepared, SamplesAre DEF Script
<1>3. Prepared = Len(head)
  BY DEF Prepared
<1> HIDE DEF head
<1>4. head \in Seq(All) /\ Samples \in Seq(All)
  BY <1>1, SamplesAre
<1>5. /\ head \o Samples \in Seq(All) /\ Len(head \o Samples) = Len(head) + Len(Samples)
      /\ \A k \in 1..Len(head) + Len(Samples) :
           (head \o Samples)[k] = IF k <= Len(head) THEN head[k] ELSE Samples[k - Len(head)]
  BY <1>4, ConcatProperties
<1> HIDE DEF All
<1>6. Len(Samples) = 13
  BY SamplesAre
<1>7. ASSUME NEW k \in 1..Len(head) PROVE Script[k] = head[k]
  BY <1>1, <1>2, <1>5, <1>6
<1>8. ASSUME NEW j \in 1..13 PROVE Script[Len(head) + j] = Samples[j]
  BY <1>1, <1>2, <1>5, <1>6
<1>9. Script \in Seq(Preparing \union Selling)
  BY <1>2, <1>5 DEF All
<1>10. Prepared \in Nat /\ Prepared >= 1 /\ Len(Script) = Prepared + 13
  BY <1>1, <1>2, <1>3, <1>5, <1>6
<1>11. Script[1] = Do("user", "admin") /\ \A k \in 1..Prepared : Script[k] \in Preparing
  BY <1>1, <1>3, <1>7
<1>12. \A j \in 1..13 : Script[Prepared + j] = Samples[j]
  BY <1>3, <1>8
<1> QED BY <1>9, <1>10, <1>11, <1>12

\* What the statement at a place of the script can be.
LEMMA Statements ==
  ASSUME NEW k \in 1..Len(Script)
  PROVE  /\ k = 1 => Script[k].op = "user" /\ Script[k].of = "admin"
         /\ Script[k].op = "registration" =>
              k < Len(Script) /\ Script[k + 1] = Do("payment", Script[k].of)
         /\ k = Prepared + 1 \/ k = Prepared + 3 => Script[k] = Do("registration", "free")
         /\ Script[k].op = "select" <=> k = Prepared + 8
         /\ Script[k].op = "select" => Script[k].of = "free"
         /\ Script[k].op = "check_in" => k > Prepared + 8 /\ Script[k].of \in {1, 2}
<1>1. \A op, of : Do(op, of).op = op /\ Do(op, of).of = of
  BY DEF Do
<1>2. k \in Nat /\ Prepared \in Nat /\ Prepared >= 1 /\ Len(Script) = Prepared + 13
  <2>1. Prepared \in Nat /\ Prepared >= 1 /\ Len(Script) = Prepared + 13
    BY ScriptShape
  <2> QED BY <2>1
<1>3. k = 1 => Script[k].op = "user" /\ Script[k].of = "admin"
  <2>1. Script[1] = Do("user", "admin")
    BY ScriptShape
  <2> QED BY <1>1, <2>1
<1>4. CASE k <= Prepared
  <2>1. \A i \in 1..Prepared : Script[i] \in Preparing
    BY ScriptShape
  <2>2. Script[k] \in Preparing
    BY <1>2, <1>4, <2>1
  <2>3. Script[k].op \notin {"registration", "select", "check_in"}
    BY <2>2 DEF Preparing
  <2> QED BY <1>2, <1>3, <1>4, <2>3
<1>5. CASE k > Prepared
  <2>1. PICK j \in 1..13 : k = Prepared + j
    <3>1. k - Prepared \in 1..13 /\ k = Prepared + (k - Prepared)
      BY <1>2, <1>5
    <3> QED BY <3>1
  <2>2. \A i \in 1..13 : Script[Prepared + i] = Samples[i]
    BY ScriptShape
  <2>3. Script[k] = Samples[j] /\ (j < 13 => k < Len(Script) /\ Script[k + 1] = Samples[j + 1])
    <3>1. j < 13 => j + 1 \in 1..13 /\ k + 1 = Prepared + (j + 1) /\ k < Len(Script)
      BY <1>2, <2>1
    <3> QED BY <2>1, <2>2, <3>1
  <2>4. /\ Samples[j].op = "registration" => j < 13 /\ Samples[j + 1] = Do("payment", Samples[j].of)
        /\ j = 1 \/ j = 3 => Samples[j] = Do("registration", "free")
        /\ Samples[j].op = "select" <=> j = 8
        /\ Samples[j].op = "select" => Samples[j].of = "free"
        /\ Samples[j].op = "check_in" => j > 8 /\ Samples[j].of \in {1, 2}
    <3>1. \/ j = 1 \/ j = 2 \/ j = 3 \/ j = 4 \/ j = 5 \/ j = 6 \/ j = 7
          \/ j = 8 \/ j = 9 \/ j = 10 \/ j = 11 \/ j = 12 \/ j = 13
      OBVIOUS
    <3> QED BY <1>1, <3>1, SamplesAre
  <2>5. Script[k].op = "registration" => k < Len(Script) /\ Script[k + 1] = Do("payment", Script[k].of)
    BY <2>3, <2>4
  <2>6. k = Prepared + 1 \/ k = Prepared + 3 => Script[k] = Do("registration", "free")
    BY <1>2, <2>1, <2>3, <2>4
  <2>7. /\ Script[k].op = "select" <=> k = Prepared + 8
        /\ Script[k].op = "select" => Script[k].of = "free"
    BY <1>2, <2>1, <2>3, <2>4
  <2>8. Script[k].op = "check_in" => k > Prepared + 8 /\ Script[k].of \in {1, 2}
    BY <1>2, <2>1, <2>3, <2>4
  <2> QED BY <1>3, <2>5, <2>6, <2>7, <2>8
<1> QED BY <1>2, <1>4, <1>5

\* A run saves the tiers it registers for.
LEMMA SavesDemoTiers == Operands("save") \subseteq DemoTiers
<1>1. Script \in Seq(Preparing \union Selling) /\ DOMAIN Script = 1..(Prepared + 13) /\ Prepared \in Nat
  BY ScriptShape
<1>2. ASSUME NEW k \in DOMAIN Script, Script[k].op = "save" PROVE Script[k].of \in {"early", "free"}
  <2>1. Script[k] \in Preparing \union Selling
    BY <1>1
  <2> QED BY <1>2, <2>1 DEF Preparing, Selling
<1>3. "free" \in DemoTiers
  <2>1. Prepared + 1 \in DOMAIN Script /\ Script[Prepared + 1] = Do("registration", "free")
    BY <1>1, ScriptShape, SamplesAre
  <2> QED BY <2>1 DEF DemoTiers, Operands, Do
<1>4. "early" \in DemoTiers
  <2>1. Prepared + 11 \in DOMAIN Script /\ Script[Prepared + 11] = Do("registration", "early")
    BY <1>1, ScriptShape, SamplesAre
  <2> QED BY <2>1 DEF DemoTiers, Operands, Do
<1> QED BY <1>2, <1>3, <1>4 DEF Operands

(***************************************************************************)
(* Rows and statements                                                     *)
(***************************************************************************)

LEMMA LatestIs ==
  ASSUME NEW S, S \subseteq Nat, NEW i \in S, \A j \in S : j <= i
  PROVE  Latest(S) = i
<1>1. \A k \in S : (\A j \in S : j <= k) => k = i
  OBVIOUS
<1> QED BY <1>1 DEF Latest

\* By the least-number principle.
LEMMA OldestIs ==
  ASSUME NEW S, S \subseteq Nat, S # {}
  PROVE  Oldest(S) \in S /\ \A j \in S : Oldest(S) <= j
<1> DEFINE Less == OpToRel(<, Nat)
<1>1. PICK i \in S : \A j \in S : ~(<<j, i>> \in Less)
  <2> HIDE DEF Less
  <2>1. IsWellFoundedOn(Less, Nat)
    BY NatLessThanWellFounded DEF Less
  <2> QED BY <2>1, WFMin
<1>2. ASSUME NEW j \in S PROVE i <= j
  <2>1. <<j, i>> \in Nat \X Nat => ~(j < i)
    BY <1>1 DEF OpToRel
  <2> QED BY <2>1
<1> QED BY <1>2 DEF Oldest

LEMMA RowIs ==
  ASSUME SeedTypeOK, NEW i \in DOMAIN reg
  PROVE  reg[i] \in Row /\ reg[i].tier \in DemoTiers
<1>1. reg \in Seq(Row) /\ DOMAIN reg = 1..Len(reg)
  BY DEF SeedTypeOK
<1>2. \A k \in 1..Len(reg) : reg[k] \in Row
  <2> HIDE DEF Row
  <2> QED BY <1>1
<1>3. reg[i] \in Row
  BY <1>1, <1>2
<1> QED BY <1>3 DEF Row

LEMMA Wider ==
  ASSUME NEW m \in Nat, NEW n \in Nat, m <= n
  PROVE  Seq(1..m) \subseteq Seq(1..n)
<1>1. 1..m \subseteq 1..n
  OBVIOUS
<1> QED BY <1>1

\* Where a run is, and what its next statement is.
LEMMA NextStatement ==
  ASSUME SeedInv, NEW p \in Runs, stage[p] = "running"
  PROVE  /\ done[p] \in Nat /\ done[p] + 1 \in 1..Len(Script) /\ Len(Script) \in Nat
         /\ Prepared \in Nat /\ Len(Script) = Prepared + 13
         /\ \A op : At(p, op) => Operand(p) \in Operands(op)
<1>1. Prepared \in Nat /\ Len(Script) = Prepared + 13 /\ DOMAIN Script = 1..Len(Script)
  BY ScriptShape
<1>2. done[p] \in 0..Len(Script) /\ done[p] < Len(Script)
  BY DEF SeedInv, SeedTypeOK, RunOK
<1> QED BY <1>1, <1>2 DEF At, Operand, Operands

\* While a run executes a statement other than a payment, its tickets are paid.
LEMMA OwnPaid ==
  ASSUME SeedInv, NEW p \in Runs, NEW op, op # "payment", At(p, op),
         NEW i \in DOMAIN reg, reg[i].by = p
  PROVE  reg[i].paid
<1> SUFFICES ASSUME ~reg[i].paid PROVE FALSE
  OBVIOUS
<1>1. Script[done[p] + 1] = Do("payment", reg[i].tier)
  BY SeedAssumption DEF SeedInv, UnpaidOK
<1>2. Script[done[p] + 1].op = "payment"
  BY <1>1 DEF Do
<1> QED BY <1>2 DEF At

\* The query of the free tier finds at least two registrations, of which no ticket
\* of the run is older than the first, nor any but one than the second.
LEMMA SelectsTwo ==
  ASSUME SeedInv, NEW p \in Runs, At(p, "select")
  PROVE  LET keys == {i \in DOMAIN reg : reg[i].tier = Operand(p)} IN
         \A i \in {Oldest(keys), Oldest(keys \ {Oldest(keys)})} : EarlyFor(p, i)
<1> DEFINE keys == {i \in DOMAIN reg : reg[i].tier = Operand(p)}
           first == Oldest(keys)
           second == Oldest(keys \ {first})
<1>1. Operand(p) = "free" /\ done[p] > Prepared + 2
  BY NextStatement, Statements DEF At, Operand
<1>2. PICK i, j \in Own(p, "free") : i # j
  BY <1>1 DEF SeedInv, MadeOK
<1>3. /\ keys \subseteq DOMAIN reg /\ DOMAIN reg \subseteq Nat
      /\ Own(p, "free") \subseteq keys /\ \A k \in keys : reg[k].tier = "free"
  BY <1>1 DEF Own, SeedInv, SeedTypeOK
<1> HIDE DEF keys
<1>4. first \in keys /\ \A k \in keys : first <= k
  BY <1>2, <1>3, OldestIs
<1>5. second \in keys /\ \A k \in keys \ {first} : second <= k
  <2>1. keys \ {first} # {} /\ keys \ {first} \subseteq Nat
    BY <1>2, <1>3
  <2> HIDE DEF first
  <2> QED BY <2>1, OldestIs
<1> HIDE DEF first, second
<1>6. EarlyFor(p, first)
  <2>1. \A k \in Own(p, "free") : ~(k < first)
    BY <1>3, <1>4
  <2> QED BY <1>3, <1>4, <2>1 DEF EarlyFor
<1>7. EarlyFor(p, second)
  <2>1. \A k \in Own(p, "free") : k < second => k = first
    BY <1>3, <1>4, <1>5
  <2> QED BY <1>3, <1>5, <2>1 DEF EarlyFor
<1> QED BY <1>6, <1>7 DEF first, second, keys

(***************************************************************************)
(* Steps                                                                   *)
(***************************************************************************)

\* What a step does to the position of a run.
LEMMA Moves ==
  ASSUME SeedTypeOK, [SeedNext]_seedVars, NEW p \in Runs
  PROVE  \/ /\ done'[p] = done[p]
            /\ \/ stage'[p] = stage[p] \/ stage'[p] = "over"
               \/ stage[p] = "new" /\ stage'[p] = "running"
         \/ /\ stage[p] = "running" /\ done'[p] = done[p] + 1
            /\ stage'[p] = IF done[p] + 1 = Len(Script) THEN "over" ELSE "running"
<1> DEFINE Goal == \/ /\ done'[p] = done[p]
                      /\ \/ stage'[p] = stage[p] \/ stage'[p] = "over"
                         \/ stage[p] = "new" /\ stage'[p] = "running"
                   \/ /\ stage[p] = "running" /\ done'[p] = done[p] + 1
                      /\ stage'[p] = IF done[p] + 1 = Len(Script) THEN "over" ELSE "running"
<1>1. ASSUME NEW q \in Runs, Advance(q), stage[q] = "running" PROVE Goal
  BY <1>1 DEF Advance, SeedTypeOK
<1>2. ASSUME NEW q \in Runs, Die(q) PROVE Goal
  BY <1>2 DEF Die, SeedTypeOK
<1>3. ASSUME UNCHANGED <<stage, done>> PROVE Goal
  BY <1>3
<1>4. ASSUME NEW q \in Runs, SeedStart(q) PROVE Goal
  BY <1>4 DEF SeedStart, SeedTypeOK
<1> HIDE DEF Goal
<1>5. ASSUME NEW q \in Runs, SeedUser(q) \/ SeedRow(q) \/ SeedTier(q) \/ SeedRegistration(q)
               \/ SeedPayment(q) \/ SeedSave(q) \/ SeedSelect(q) \/ SeedCheckIn(q) \/ SeedFail(q)
      PROVE  Goal
  <2>1. (Advance(q) \/ Die(q)) /\ stage[q] = "running"
    BY <1>5 DEF SeedUser, SeedRow, SeedTier, SeedRegistration, SeedPayment, SeedSave, SeedSelect,
         SeedCheckIn, SeedFail, At
  <2> QED BY <2>1, <1>1, <1>2
<1>6. ASSUME NEW x, ApiRegister(x) \/ ApiSale(x) \/ ApiReserve(x) \/ ApiPatch(x)
                    \/ ApiConfirm(x) \/ ApiCancel(x) \/ ApiScan(x)
      PROVE  Goal
  BY <1>3, <1>6 DEF ApiRegister, ApiSale, ApiReserve, ApiPatch, ApiConfirm, ApiCancel, ApiScan,
       runState
<1>7. ASSUME UNCHANGED seedVars PROVE Goal
  BY <1>3, <1>7 DEF seedVars, runState
<1>8. Goal
  BY <1>4, <1>5, <1>6, <1>7 DEF SeedNext
<1> QED BY <1>8 DEF Goal

\* What every step does to the rows: they keep their places, tiers and makers,
\* and a payment row stays; none is confirmed without one.
KeepsRows ==
  \A i \in DOMAIN reg :
    /\ i \in DOMAIN reg'
    /\ reg'[i].tier = reg[i].tier /\ reg'[i].by = reg[i].by
    /\ reg[i].paid => reg'[i].paid
    /\ reg'[i].status = "CONFIRMED" => reg[i].status = "CONFIRMED" \/ reg'[i].paid

MakesRow(t, by, status, paid) ==
  reg' = Append(reg, Registration(t, by, status, paid))

Statuses == {"PENDING", "CONFIRMED", "CANCELLED"}

LEMMA Made ==
  ASSUME SeedTypeOK, NEW t \in DemoTiers, NEW by \in Runs \union {Api}, NEW status \in Statuses,
         NEW paid \in BOOLEAN, MakesRow(t, by, status, paid)
  PROVE  /\ Len(reg) \in Nat /\ DOMAIN reg = 1..Len(reg)
         /\ reg' \in Seq(Row) /\ Len(reg') = Len(reg) + 1 /\ DOMAIN reg' = 1..(Len(reg) + 1)
         /\ \A i \in DOMAIN reg : i \in DOMAIN reg' /\ reg'[i] = reg[i]
         /\ reg'[Len(reg) + 1] = Registration(t, by, status, paid)
         /\ KeepsRows
<1>1. Registration(t, by, status, paid) \in Row
  BY DEF Registration, Row, Statuses
<1>2. reg \in Seq(Row)
  BY DEF SeedTypeOK
<1>3. /\ Len(reg) \in Nat /\ DOMAIN reg = 1..Len(reg)
      /\ reg' \in Seq(Row) /\ Len(reg') = Len(reg) + 1 /\ DOMAIN reg' = 1..(Len(reg) + 1)
      /\ reg'[Len(reg) + 1] = Registration(t, by, status, paid)
  BY <1>1, <1>2, AppendProperties DEF MakesRow
<1>4. ASSUME NEW i \in DOMAIN reg PROVE i \in DOMAIN reg' /\ reg'[i] = reg[i]
  BY <1>1, <1>2, <1>3, AppendProperties DEF MakesRow
<1> QED BY <1>3, <1>4 DEF KeepsRows

LEMMA Edited ==
  ASSUME SeedTypeOK, NEW i,
         \/ reg' = [reg EXCEPT ![i].paid = TRUE]
         \/ reg' = [reg EXCEPT ![i].admitted = TRUE]
         \/ reg' = [reg EXCEPT ![i].status = "CANCELLED"]
         \/ reg' = [reg EXCEPT ![i].status = "CONFIRMED", ![i].paid = TRUE]
  PROVE  /\ Len(reg) \in Nat /\ DOMAIN reg = 1..Len(reg)
         /\ reg' \in Seq(Row) /\ Len(reg') = Len(reg) /\ DOMAIN reg' = DOMAIN reg
         /\ KeepsRows
<1>1. reg \in Seq(Row) /\ DOMAIN reg = 1..Len(reg) /\ Len(reg) \in Nat
  BY DEF SeedTypeOK
<1>2. \A j \in DOMAIN reg : reg[j] \in Row
  BY <1>1
<1>3. DOMAIN reg' = DOMAIN reg
  OBVIOUS
<1>4. \A j \in DOMAIN reg : reg'[j] \in Row /\ reg'[j].tier = reg[j].tier /\ reg'[j].by = reg[j].by
         /\ (reg[j].paid => reg'[j].paid)
         /\ (reg'[j].status = "CONFIRMED" => reg[j].status = "CONFIRMED" \/ reg'[j].paid)
  <2>1. CASE reg' = [reg EXCEPT ![i].paid = TRUE]
    BY <1>2, <2>1 DEF Row
  <2>2. CASE reg' = [reg EXCEPT ![i].admitted = TRUE]
    BY <1>2, <2>2 DEF Row
  <2>3. CASE reg' = [reg EXCEPT ![i].status = "CANCELLED"]
    BY <1>2, <2>3 DEF Row
  <2>4. CASE reg' = [reg EXCEPT ![i].status = "CONFIRMED", ![i].paid = TRUE]
    BY <1>1, <1>2, <2>4 DEF Row
  <2> QED BY <2>1, <2>2, <2>3, <2>4
<1>5. reg' \in Seq(Row) /\ Len(reg') = Len(reg)
  <2>1. reg' = [j \in 1..Len(reg) |-> reg'[j]]
    BY <1>1, <1>3
  <2> QED BY <1>1, <1>3, <1>4, <2>1
<1> QED BY <1>1, <1>3, <1>4, <1>5 DEF KeepsRows

\* A ticket written for a run is of one of the demo tiers.
LEMMA Registers ==
  ASSUME SeedInv, NEW p \in Runs, SeedRegistration(p)
  PROVE  /\ stage[p] = "running" /\ At(p, "registration") /\ Operand(p) \in DemoTiers
         /\ MakesRow(Operand(p), p, "CONFIRMED", FALSE)
<1>1. At(p, "registration") /\ stage[p] = "running"
  BY DEF SeedRegistration, At
<1> QED BY <1>1, NextStatement DEF SeedRegistration, MakesRow, DemoTiers

LEMMA RowsStay ==
  ASSUME SeedInv, [SeedNext]_seedVars
  PROVE  /\ KeepsRows /\ reg' \in Seq(Row)
         /\ Len(reg) \in Nat /\ Len(reg') \in Nat /\ Len(reg) <= Len(reg')
<1> DEFINE Goal == /\ KeepsRows /\ reg' \in Seq(Row)
                   /\ Len(reg) \in Nat /\ Len(reg') \in Nat /\ Len(reg) <= Len(reg')
<1>1. SeedTypeOK /\ reg \in Seq(Row) /\ Len(reg) \in Nat
  BY DEF SeedInv, SeedTypeOK
<1>2. ASSUME UNCHANGED reg PROVE Goal
  BY <1>1, <1>2 DEF KeepsRows
<1>3. ASSUME NEW i,
             \/ reg' = [reg EXCEPT ![i].paid = TRUE]
             \/ reg' = [reg EXCEPT ![i].admitted = TRUE]
             \/ reg' = [reg EXCEPT ![i].status = "CANCELLED"]
             \/ reg' = [reg EXCEPT ![i].status = "CONFIRMED", ![i].paid = TRUE]
      PROVE  Goal
  <2>1. KeepsRows /\ reg' \in Seq(Row) /\ Len(reg') = Len(reg)
    BY <1>1, <1>3, Edited
  <2> QED BY <1>1, <2>1
<1>4. ASSUME NEW t \in DemoTiers, NEW by \in Runs \union {Api}, NEW status \in Statuses,
             NEW paid \in BOOLEAN, MakesRow(t, by, status, paid)
      PROVE  Goal
  <2>1. KeepsRows /\ reg' \in Seq(Row) /\ Len(reg') = Len(reg) + 1
    BY <1>1, <1>4, Made
  <2> QED BY <1>1, <2>1
<1> HIDE DEF Goal
<1>5. ASSUME NEW p \in Runs, SeedRegistration(p) PROVE Goal
  <2>1. Operand(p) \in DemoTiers /\ MakesRow(Operand(p), p, "CONFIRMED", FALSE)
    BY <1>5, Registers
  <2> QED BY <2>1, <1>4 DEF Statuses
<1>6. ASSUME NEW p \in Runs, SeedPayment(p) PROVE Goal
  BY <1>3, <1>6 DEF SeedPayment
<1>7. ASSUME NEW p \in Runs, SeedCheckIn(p) PROVE Goal
  BY <1>2, <1>3, <1>7 DEF SeedCheckIn
<1>8. ASSUME NEW p \in Runs, SeedStart(p) \/ SeedUser(p) \/ SeedRow(p) \/ SeedTier(p)
               \/ SeedSave(p) \/ SeedSelect(p) \/ SeedFail(p)
      PROVE  Goal
  BY <1>2, <1>8 DEF SeedStart, SeedUser, SeedRow, SeedTier, SeedSave, SeedSelect, SeedFail
<1>9. ASSUME NEW x, ApiRegister(x) \/ ApiPatch(x) PROVE Goal
  BY <1>2, <1>9 DEF ApiRegister, ApiPatch
<1>10. ASSUME NEW x, ApiConfirm(x) \/ ApiCancel(x) \/ ApiScan(x) PROVE Goal
  BY <1>3, <1>10 DEF ApiConfirm, ApiCancel, ApiScan
<1>11. ASSUME NEW t \in DemoTiers, ApiSale(t) \/ ApiReserve(t) PROVE Goal
  BY <1>4, <1>11 DEF ApiSale, ApiReserve, MakesRow, Statuses
<1>12. ASSUME UNCHANGED seedVars PROVE Goal
  BY <1>2, <1>12 DEF seedVars
<1>13. Goal
  BY <1>5, <1>6, <1>7, <1>8, <1>9, <1>10, <1>11, <1>12 DEF SeedNext
<1> QED BY <1>13 DEF Goal

LEMMA Typed ==
  ASSUME SeedInv, [SeedNext]_seedVars
  PROVE  SeedTypeOK'
<1> DEFINE PlaceOK == /\ stage \in [Runs -> {"new", "running", "over"}]
                      /\ done \in [Runs -> 0..Len(Script)]
           Rest == /\ picked \in [Runs -> Seq(1..Len(reg))]
                   /\ emails \subseteq Addresses /\ listed \subseteq Operands("tier")
                   /\ sold \in [DemoTiers -> Nat] /\ seen \in [DemoTiers -> SUBSET Nat]
<1>1. reg' \in Seq(Row) /\ Len(reg) \in Nat /\ Len(reg') \in Nat /\ Len(reg) <= Len(reg')
  BY RowsStay
<1>2. PlaceOK /\ Rest /\ reg \in Seq(Row)
  BY DEF SeedInv, SeedTypeOK
<1>3. ASSUME NEW p \in Runs, stage[p] = "running", Advance(p) PROVE PlaceOK'
  <2>1. done[p] + 1 \in 0..Len(Script)
    BY <1>3, NextStatement
  <2> QED BY <1>2, <1>3, <2>1 DEF Advance
<1>4. ASSUME NEW p \in Runs, Die(p) PROVE PlaceOK'
  BY <1>2, <1>4 DEF Die
<1>5. ASSUME UNCHANGED <<stage, done>> PROVE PlaceOK'
  BY <1>2, <1>5
<1>6. picked \in [Runs -> Seq(1..Len(reg'))]
  BY <1>1, <1>2, Wider
<1>7. ASSUME UNCHANGED <<picked, emails, listed, counters>> PROVE Rest'
  BY <1>2, <1>6, <1>7 DEF counters
<1> HIDE DEF PlaceOK
<1>8. ASSUME NEW p \in Runs, SeedStart(p) PROVE PlaceOK' /\ Rest'
  BY <1>2, <1>7, <1>8 DEF SeedStart, PlaceOK
<1>9. ASSUME NEW p \in Runs, SeedUser(p) PROVE PlaceOK' /\ Rest'
  <2>1. stage[p] = "running" /\ Operand(p) \in Addresses /\ UNCHANGED <<picked, listed, counters>>
    BY <1>9, NextStatement DEF SeedUser, At, Addresses
  <2>2. (Advance(p) \/ Die(p)) /\ (emails' = emails \union {Operand(p)} \/ UNCHANGED emails)
    BY <1>9 DEF SeedUser
  <2>3. emails' \subseteq Addresses
    BY <1>2, <2>1, <2>2
  <2> QED BY <1>2, <1>3, <1>4, <1>6, <2>1, <2>2, <2>3 DEF counters
<1>10. ASSUME NEW p \in Runs, SeedTier(p) PROVE PlaceOK' /\ Rest'
  <2>1. stage[p] = "running" /\ Operand(p) \in Operands("tier") /\ UNCHANGED <<picked, emails, counters>>
    BY <1>10, NextStatement DEF SeedTier, At
  <2>2. Advance(p) /\ listed' = listed \union {Operand(p)}
    BY <1>10 DEF SeedTier
  <2>3. listed' \subseteq Operands("tier")
    BY <1>2, <2>1, <2>2
  <2> QED BY <1>2, <1>3, <1>6, <2>1, <2>2, <2>3 DEF counters
<1>11. ASSUME NEW p \in Runs, SeedSave(p) PROVE PlaceOK' /\ Rest'
  <2>1. stage[p] = "running" /\ Advance(p) /\ UNCHANGED <<picked, emails, listed>>
    BY <1>11 DEF SeedSave, At
  <2>2. Cardinality(Own(p, Operand(p))) \in Nat
    <3>1. Own(p, Operand(p)) \subseteq 1..Len(reg)
      BY <1>2 DEF Own
    <3>2. IsFiniteSet(1..Len(reg))
      BY <1>1, FS_Interval
    <3>3. IsFiniteSet(Own(p, Operand(p)))
      BY <3>1, <3>2, FS_Subset
    <3> QED BY <3>3, FS_CardinalityType
  <2>3. sold' \in [DemoTiers -> Nat] /\ seen' \in [DemoTiers -> SUBSET Nat]
    BY <1>2, <1>11, <2>2 DEF SeedSave, SetCounter
  <2> QED BY <1>2, <1>3, <1>6, <2>1, <2>3
<1>12. ASSUME NEW p \in Runs, SeedSelect(p) PROVE PlaceOK' /\ Rest'
  <2> DEFINE keys == {i \in DOMAIN reg : reg[i].tier = Operand(p)}
             first == Oldest(keys)
             second == Oldest(keys \ {first})
  <2>1. /\ stage[p] = "running" /\ At(p, "select") /\ Advance(p)
        /\ picked' = [picked EXCEPT ![p] = <<first, second>>]
        /\ UNCHANGED <<emails, listed, counters, reg>>
    BY <1>12 DEF SeedSelect, At
  <2>2. first \in DOMAIN reg /\ second \in DOMAIN reg /\ DOMAIN reg = 1..Len(reg)
    <3>1. \A i \in {first, second} : i \in DOMAIN reg
      BY <2>1, SelectsTwo DEF EarlyFor
    <3> QED BY <1>2, <3>1
  <2> HIDE DEF first, second
  <2>3. <<first, second>> \in Seq(1..Len(reg))
    BY <2>2
  <2>4. picked' \in [Runs -> Seq(1..Len(reg'))]
    BY <1>2, <2>1, <2>3
  <2> QED BY <1>2, <1>3, <2>1, <2>4 DEF counters
<1>13. ASSUME NEW p \in Runs, SeedRow(p) \/ SeedRegistration(p) \/ SeedPayment(p)
                \/ SeedCheckIn(p) \/ SeedFail(p)
       PROVE  PlaceOK' /\ Rest'
  <2>1. /\ stage[p] = "running" /\ (Advance(p) \/ Die(p))
        /\ UNCHANGED <<picked, emails, listed, counters>>
    BY <1>13 DEF SeedRow, SeedRegistration, SeedPayment, SeedCheckIn, SeedFail, At
  <2> QED BY <1>3, <1>4, <1>7, <2>1
<1>14. ASSUME NEW a \in Signups, ApiRegister(a) PROVE PlaceOK' /\ Rest'
  <2>1. emails' \subseteq Addresses
    BY <1>2, <1>14 DEF ApiRegister, Addresses
  <2>2. UNCHANGED <<stage, done, picked, listed, counters>>
    BY <1>14 DEF ApiRegister, runState
  <2> QED BY <1>2, <1>5, <1>6, <2>1, <2>2 DEF counters
<1>15. ASSUME NEW t \in DemoTiers, NEW n \in Nat, SetCounter(t, n), UNCHANGED <<runState, emails, listed>>
       PROVE  PlaceOK' /\ Rest'
  <2>1. sold' \in [DemoTiers -> Nat] /\ seen' \in [DemoTiers -> SUBSET Nat]
    BY <1>2, <1>15 DEF SetCounter
  <2>2. UNCHANGED <<stage, done, picked, emails, listed>>
    BY <1>15 DEF runState
  <2> QED BY <1>2, <1>5, <1>6, <2>1, <2>2
<1>16. ASSUME NEW i \in DOMAIN reg, ApiConfirm(i) PROVE PlaceOK' /\ Rest'
  <2>1. reg[i].tier \in DemoTiers
    BY RowIs DEF SeedInv
  <2>2. sold[reg[i].tier] + 1 \in Nat
    BY <1>2, <2>1
  <2> QED BY <1>15, <1>16, <2>1, <2>2 DEF ApiConfirm
<1>17. ASSUME NEW t \in DemoTiers, ApiSale(t) \/ ApiPatch(t) PROVE PlaceOK' /\ Rest'
  <2>1. sold[t] + 1 \in Nat /\ seen[t] \subseteq Nat
    BY <1>2
  <2> QED BY <1>15, <1>17, <2>1 DEF ApiSale, ApiPatch
<1>18. ASSUME NEW x, ApiReserve(x) \/ ApiCancel(x) \/ ApiScan(x) PROVE PlaceOK' /\ Rest'
  BY <1>5, <1>7, <1>18 DEF ApiReserve, ApiCancel, ApiScan, runState
<1>19. ASSUME UNCHANGED seedVars PROVE PlaceOK' /\ Rest'
  BY <1>5, <1>7, <1>19 DEF seedVars, runState
<1> HIDE DEF Rest
<1>20. PlaceOK' /\ Rest'
  BY <1>8, <1>9, <1>10, <1>11, <1>12, <1>13, <1>14, <1>15, <1>16, <1>17,
        <1>18, <1>19 DEF SeedNext
<1> QED BY <1>1, <1>20 DEF SeedTypeOK, PlaceOK, Rest

\* A run whose position changes has executed its next statement.
LEMMA Executes ==
  ASSUME SeedTypeOK, [SeedNext]_seedVars, NEW p \in Runs, done'[p] # done[p]
  PROVE  /\ stage[p] = "running" /\ done'[p] = done[p] + 1
         /\ \A q \in Runs : q # p => done'[q] = done[q]
         /\ \/ SeedUser(p) /\ Available(Operand(p)) /\ emails' = emails \union {Operand(p)}
            \/ SeedRow(p) \/ SeedTier(p) \/ SeedRegistration(p) \/ SeedPayment(p)
            \/ SeedSave(p) \/ SeedSelect(p) \/ SeedCheckIn(p)
<1> DEFINE Statement == \/ SeedUser(p) /\ Available(Operand(p)) /\ emails' = emails \union {Operand(p)}
                        \/ SeedRow(p) \/ SeedTier(p) \/ SeedRegistration(p) \/ SeedPayment(p)
                        \/ SeedSave(p) \/ SeedSelect(p) \/ SeedCheckIn(p)
<1>1. ~ UNCHANGED done
  OBVIOUS
<1>2. \A q : ~ Die(q)
  BY <1>1 DEF Die
<1>3. ASSUME NEW q \in Runs, Advance(q) PROVE q = p
  BY <1>3 DEF Advance, SeedTypeOK
<1>4. ASSUME NEW q \in Runs,
             SeedUser(q) \/ SeedRow(q) \/ SeedTier(q) \/ SeedRegistration(q)
               \/ SeedPayment(q) \/ SeedSave(q) \/ SeedSelect(q) \/ SeedCheckIn(q)
      PROVE  stage[p] = "running" /\ Advance(p) /\ Statement
  <2>1. stage[q] = "running" /\ Advance(q)
    BY <1>2, <1>4 DEF SeedUser, SeedRow, SeedTier, SeedRegistration, SeedPayment, SeedSave,
         SeedSelect, SeedCheckIn, At
  <2>2. SeedUser(q) => Available(Operand(q)) /\ emails' = emails \union {Operand(q)}
    BY <1>2 DEF SeedUser
  <2> QED BY <1>3, <1>4, <2>1, <2>2
<1>5. \A x : ~ SeedStart(x) /\ ~ SeedFail(x) /\ ~ ApiRegister(x) /\ ~ ApiSale(x)
               /\ ~ ApiReserve(x) /\ ~ ApiPatch(x) /\ ~ ApiConfirm(x) /\ ~ ApiCancel(x) /\ ~ ApiScan(x)
  BY <1>1, <1>2 DEF SeedStart, SeedFail, ApiRegister, ApiSale, ApiReserve, ApiPatch, ApiConfirm,
       ApiCancel, ApiScan, runState
<1>6. ~ UNCHANGED seedVars
  BY <1>1 DEF seedVars, runState
<1> HIDE DEF Statement
<1>7. stage[p] = "running" /\ Advance(p) /\ Statement
  BY <1>4, <1>5, <1>6 DEF SeedNext
<1>8. done'[p] = done[p] + 1 /\ \A q \in Runs : q # p => done'[q] = done[q]
  BY <1>7 DEF Advance, SeedTypeOK
<1> QED BY <1>7, <1>8 DEF Statement

\* An account is never closed.
LEMMA EmailsStay ==
  ASSUME [SeedNext]_seedVars
  PROVE  emails \subseteq emails'
<1>1. ASSUME NEW x, SeedUser(x) \/ ApiRegister(x) PROVE emails \subseteq emails'
  BY <1>1 DEF SeedUser, ApiRegister
<1>2. ASSUME NEW x, SeedStart(x) \/ SeedRow(x) \/ SeedTier(x) \/ SeedRegistration(x) \/ SeedPayment(x)
               \/ SeedSave(x) \/ SeedSelect(x) \/ SeedCheckIn(x) \/ SeedFail(x)
      PROVE  emails' = emails
  BY <1>2 DEF SeedStart, SeedRow, SeedTier, SeedRegistration, SeedPayment, SeedSave, SeedSelect,
       SeedCheckIn, SeedFail
<1>3. ASSUME NEW x, ApiSale(x) \/ ApiReserve(x) \/ ApiPatch(x) \/ ApiConfirm(x) \/ ApiCancel(x)
               \/ ApiScan(x)
      PROVE  emails' = emails
  BY <1>3 DEF ApiSale, ApiReserve, ApiPatch, ApiConfirm, ApiCancel, ApiScan
<1>4. ASSUME UNCHANGED seedVars PROVE emails' = emails
  BY <1>4 DEF seedVars
<1> QED BY <1>1, <1>2, <1>3, <1>4 DEF SeedNext

\* The address of the admin lets one run past its first statement.
LEMMA Alone ==
  ASSUME SeedInv, [SeedNext]_seedVars
  PROVE  SeededOnce' /\ \A p \in Runs : RunOK(p)'
<1>1. SeedTypeOK /\ Len(Script) \in Nat
  BY ScriptShape DEF SeedInv
<1>2. \A p \in Runs : done[p] \in Nat
  BY <1>1 DEF SeedTypeOK
<1>3. ASSUME NEW p \in Runs, done[p] = 0, done'[p] # 0
      PROVE  /\ "admin" \notin emails /\ "admin" \in emails'
             /\ \A q \in Runs : q # p => done'[q] = 0
  <2>1. /\ stage[p] = "running"
        /\ \A q \in Runs : q # p => done'[q] = done[q]
        /\ \/ SeedUser(p) /\ Available(Operand(p)) /\ emails' = emails \union {Operand(p)}
           \/ SeedRow(p) \/ SeedTier(p) \/ SeedRegistration(p) \/ SeedPayment(p)
           \/ SeedSave(p) \/ SeedSelect(p) \/ SeedCheckIn(p)
    BY <1>1, <1>3, Executes
  <2>2. Script[1].op = "user" /\ Script[1].of = "admin"
    <3>1. Script[1] = Do("user", "admin")
      BY ScriptShape
    <3> QED BY <3>1 DEF Do
  <2>3. Operand(p) = "admin" /\ \A op : At(p, op) => op = "user"
    BY <1>3, <2>2 DEF Operand, At
  <2>4. Available("admin") /\ emails' = emails \union {"admin"}
    BY <2>1, <2>3 DEF SeedRow, SeedTier, SeedRegistration, SeedPayment, SeedSave, SeedSelect, SeedCheckIn
  <2>5. \A q \in Runs : done[q] = 0
    BY <1>2, <2>4 DEF Available, SeedInv, RunOK
  <2> QED BY <2>1, <2>4, <2>5 DEF Available
<1>4. ASSUME NEW p \in Runs PROVE RunOK(p)'
  <2>1. stage'[p] = "new" => done'[p] = 0
    BY <1>1, Moves DEF SeedInv, RunOK
  <2>2. stage'[p] = "running" => done'[p] < Len(Script)
    <3>1. (stage[p] = "new" => done[p] = 0) /\ (stage[p] = "running" => done[p] < Len(Script))
      BY DEF SeedInv, RunOK
    <3>2. 0 < Len(Script)
      <4>1. Prepared \in Nat /\ Len(Script) = Prepared + 13
        BY ScriptShape
      <4> QED BY <4>1
    <3> QED BY <1>1, <1>2, <3>1, <3>2, Moves
  <2>3. done'[p] > 0 => "admin" \in emails'
    BY <1>2, <1>3, EmailsStay DEF SeedInv, RunOK
  <2> QED BY <2>1, <2>2, <2>3 DEF RunOK
<1>5. ASSUME NEW p \in Runs, NEW q \in Runs, p # q PROVE done'[p] = 0 \/ done'[q] = 0
  <2>1. CASE done[p] = 0 /\ done'[p] # 0
    BY <1>3, <1>5, <2>1
  <2>2. CASE done[q] = 0 /\ done'[q] # 0
    BY <1>3, <1>5, <2>2
  <2> QED BY <1>5, <2>1, <2>2 DEF SeedInv, SeededOnce
<1> QED BY <1>4, <1>5 DEF SeededOnce

\* A row appears at the end of the table: one of the API that is paid for or not
\* confirmed, or one of a run that executes a registration.
LEMMA NewRow ==
  ASSUME SeedInv, [SeedNext]_seedVars, NEW i \in DOMAIN reg', i \notin DOMAIN reg
  PROVE  /\ i = Len(reg) + 1 /\ DOMAIN reg' = 1..i /\ i \in Nat
         /\ \/ reg'[i].by = Api /\ (reg'[i].paid \/ reg'[i].status = "PENDING")
            \/ \E q \in Runs : SeedRegistration(q) /\ reg'[i] = Registration(Operand(q), q, "CONFIRMED", FALSE)
<1> DEFINE Goal == /\ i = Len(reg) + 1 /\ DOMAIN reg' = 1..i /\ i \in Nat
                   /\ \/ reg'[i].by = Api /\ (reg'[i].paid \/ reg'[i].status = "PENDING")
                      \/ \E q \in Runs : SeedRegistration(q) /\ reg'[i] = Registration(Operand(q), q, "CONFIRMED", FALSE)
<1>1. SeedTypeOK /\ DOMAIN reg' # DOMAIN reg
  BY DEF SeedInv
<1>2. ASSUME NEW t \in DemoTiers, ApiSale(t) \/ ApiReserve(t) PROVE Goal
  <2>1. /\ Len(reg) \in Nat /\ DOMAIN reg = 1..Len(reg) /\ DOMAIN reg' = 1..(Len(reg) + 1)
        /\ \/ reg'[Len(reg) + 1] = Registration(t, Api, "CONFIRMED", TRUE)
           \/ reg'[Len(reg) + 1] = Registration(t, Api, "PENDING", FALSE)
    BY <1>1, <1>2, Made DEF ApiSale, ApiReserve, MakesRow, Statuses
  <2>2. i = Len(reg) + 1
    BY <2>1
  <2>3. reg'[i].by = Api /\ (reg'[i].paid \/ reg'[i].status = "PENDING")
    BY <2>1, <2>2 DEF Registration
  <2>4. DOMAIN reg' = 1..i /\ i \in Nat
    BY <2>1, <2>2
  <2> QED BY <2>2, <2>3, <2>4
<1>3. ASSUME NEW q \in Runs, SeedRegistration(q) PROVE Goal
  <2>1. Operand(q) \in DemoTiers /\ MakesRow(Operand(q), q, "CONFIRMED", FALSE)
    BY <1>3, Registers
  <2>2. /\ Len(reg) \in Nat /\ DOMAIN reg = 1..Len(reg) /\ DOMAIN reg' = 1..(Len(reg) + 1)
        /\ reg'[Len(reg) + 1] = Registration(Operand(q), q, "CONFIRMED", FALSE)
    BY <1>1, <2>1, Made DEF Statuses
  <2>3. i = Len(reg) + 1
    BY <2>2
  <2>4. DOMAIN reg' = 1..(Len(reg) + 1) /\ Len(reg) \in Nat
    BY <2>2
  <2>5. DOMAIN reg' = 1..i /\ i \in Nat
    BY <2>3, <2>4
  <2>6. reg'[i] = Registration(Operand(q), q, "CONFIRMED", FALSE)
    BY <2>2, <2>3
  <2> QED BY <1>3, <2>3, <2>5, <2>6
<1>4. \A x : ~ ApiConfirm(x) /\ ~ ApiCancel(x) /\ ~ ApiScan(x) /\ ~ SeedPayment(x) /\ ~ SeedCheckIn(x)
  BY <1>1 DEF ApiConfirm, ApiCancel, ApiScan, SeedPayment, SeedCheckIn
<1>5. \A x : ~ SeedStart(x) /\ ~ SeedUser(x) /\ ~ SeedRow(x) /\ ~ SeedTier(x) /\ ~ SeedSave(x)
               /\ ~ SeedSelect(x) /\ ~ SeedFail(x) /\ ~ ApiRegister(x) /\ ~ ApiPatch(x)
  BY <1>1 DEF SeedStart, SeedUser, SeedRow, SeedTier, SeedSave, SeedSelect, SeedFail, ApiRegister,
       ApiPatch
<1>6. ~ UNCHANGED seedVars
  BY <1>1 DEF seedVars
<1> HIDE DEF Goal
<1>7. Goal
  BY <1>2, <1>3, <1>4, <1>5, <1>6 DEF SeedNext
<1> QED BY <1>7 DEF Goal

\* A registration moves its run on to the payment of the ticket.
LEMMA ThenPays ==
  ASSUME SeedInv, NEW p \in Runs, SeedRegistration(p)
  PROVE  /\ done[p] \in Nat /\ done'[p] = done[p] + 1 /\ done'[p] < Len(Script)
         /\ Script[done'[p] + 1] = Do("payment", Operand(p))
<1>1. stage[p] = "running" /\ At(p, "registration") /\ Advance(p)
  BY DEF SeedRegistration, At
<1>2. done[p] \in Nat /\ done[p] + 1 \in 1..Len(Script)
  BY <1>1, NextStatement
<1>3. done[p] + 1 < Len(Script) /\ Script[done[p] + 1 + 1] = Do("payment", Script[done[p] + 1].of)
  BY <1>1, <1>2, Statements DEF At
<1>4. done'[p] = done[p] + 1
  BY <1>1 DEF Advance, SeedInv, SeedTypeOK
<1> QED BY <1>2, <1>3, <1>4 DEF Operand

\* A payment pays for the ticket the run has just written.
LEMMA Pays ==
  ASSUME SeedInv, NEW p \in Runs, SeedPayment(p), NEW i \in DOMAIN reg, reg[i].by = p,
         ~ reg[i].paid
  PROVE  reg'[i].paid
<1>1. Script[done[p] + 1] = Do("payment", reg[i].tier) /\ \A j \in Own(p, reg[i].tier) : j <= i
  BY SeedAssumption DEF SeedInv, UnpaidOK
<1>2. Operand(p) = reg[i].tier
  BY <1>1 DEF Operand, Do
<1>3. i \in Own(p, Operand(p)) /\ Own(p, Operand(p)) \subseteq Nat
  BY <1>2 DEF Own, SeedInv, SeedTypeOK
<1>4. Latest(Own(p, Operand(p))) = i
  BY <1>1, <1>2, <1>3, LatestIs
<1>5. reg' = [reg EXCEPT ![i].paid = TRUE] /\ reg[i] \in Row
  BY <1>4 DEF SeedPayment, SeedInv, SeedTypeOK
<1> QED BY <1>5 DEF Row

LEMMA UnpaidStays ==
  ASSUME SeedInv, [SeedNext]_seedVars
  PROVE  UnpaidOK'
<1> SUFFICES ASSUME NEW i \in DOMAIN reg', ~ reg'[i].paid
             PROVE  /\ reg'[i].by = Api => reg'[i].status # "CONFIRMED"
                    /\ reg'[i].by # Api =>
                         /\ reg'[i].by \in Runs /\ done'[reg'[i].by] < Len(Script)
                         /\ Script[done'[reg'[i].by] + 1] = Do("payment", reg'[i].tier)
                         /\ \A j \in DOMAIN reg' :
                              reg'[j].by = reg'[i].by /\ reg'[j].tier = reg'[i].tier => j <= i
  BY DEF UnpaidOK, Own
<1>1. SeedTypeOK /\ DOMAIN reg = 1..Len(reg) /\ Len(reg) \in Nat
  BY DEF SeedInv, SeedTypeOK
<1> DEFINE p == reg[i].by
<1>2. ASSUME i \in DOMAIN reg
      PROVE  /\ ~ reg[i].paid /\ reg'[i].by = p /\ reg'[i].tier = reg[i].tier
             /\ reg'[i].status = "CONFIRMED" => reg[i].status = "CONFIRMED"
  BY <1>2, RowsStay DEF KeepsRows
<1>3. CASE i \in DOMAIN reg /\ p = Api
  BY <1>2, <1>3 DEF SeedInv, UnpaidOK
<1>4. CASE i \in DOMAIN reg /\ p # Api
  <2>1. ~ reg[i].paid /\ reg'[i].by = p /\ reg'[i].tier = reg[i].tier
    BY <1>2, <1>4
  <2>2. /\ p \in Runs /\ done[p] < Len(Script)
        /\ Script[done[p] + 1] = Do("payment", reg[i].tier)
        /\ \A j \in Own(p, reg[i].tier) : j <= i
    BY <1>4, <2>1 DEF SeedInv, UnpaidOK
  <2>3. done'[p] = done[p]
    <3> SUFFICES ASSUME done'[p] # done[p] PROVE FALSE
      OBVIOUS
    <3> DEFINE Others == \/ SeedUser(p) \/ SeedRow(p) \/ SeedTier(p) \/ SeedRegistration(p)
                         \/ SeedSave(p) \/ SeedSelect(p) \/ SeedCheckIn(p)
    <3>1. SeedPayment(p) \/ Others
      BY <1>1, <2>2, Executes
    <3>2. \A op : At(p, op) => op = "payment"
      BY <2>2 DEF At, Do
    <3>3. ~ Others
      BY <3>2 DEF SeedUser, SeedRow, SeedTier, SeedRegistration, SeedSave, SeedSelect, SeedCheckIn
    <3> QED BY <1>4, <2>1, <2>2, <3>1, <3>3, Pays
  <2>4. ASSUME NEW j \in DOMAIN reg', reg'[j].by = p, reg'[j].tier = reg[i].tier PROVE j <= i
    <3>1. CASE j \in DOMAIN reg
      <4>1. j \in Own(p, reg[i].tier)
        BY <2>4, <3>1, RowsStay DEF KeepsRows, Own
      <4> QED BY <2>2, <4>1
    <3>2. CASE j \notin DOMAIN reg
      <4>1. PICK q \in Runs : SeedRegistration(q) /\ reg'[j] = Registration(Operand(q), q, "CONFIRMED", FALSE)
        BY <2>2, <2>4, <3>2, NewRow, SeedAssumption
      <4>2. q = p
        BY <2>4, <4>1 DEF Registration
      <4>3. done'[p] = done[p] + 1 /\ done[p] \in Nat
        BY <4>1, <4>2, ThenPays
      <4> QED BY <2>3, <4>3
    <3> QED BY <3>1, <3>2
  <2>5. done'[p] < Len(Script) /\ Script[done'[p] + 1] = Do("payment", reg[i].tier)
    BY <2>2, <2>3
  <2> QED BY ONLY <1>4, <2>1, <2>2, <2>4, <2>5
<1>5. CASE i \notin DOMAIN reg /\ reg'[i].by = Api
  BY <1>5, NewRow, SeedAssumption DEF Registration
<1>6. CASE i \notin DOMAIN reg /\ reg'[i].by # Api
  <2>1. DOMAIN reg' = 1..i /\ i \in Nat
    BY <1>6, NewRow
  <2>2. PICK q \in Runs : SeedRegistration(q) /\ reg'[i] = Registration(Operand(q), q, "CONFIRMED", FALSE)
    BY <1>6, NewRow
  <2>3. reg'[i].by = q /\ reg'[i].tier = Operand(q)
    BY <2>2 DEF Registration
  <2>4. done'[q] < Len(Script) /\ Script[done'[q] + 1] = Do("payment", Operand(q))
    BY <2>2, ThenPays
  <2>5. \A j \in DOMAIN reg' : j <= i
    BY <2>1
  <2>6. /\ reg'[i].by \in Runs /\ done'[reg'[i].by] < Len(Script)
        /\ Script[done'[reg'[i].by] + 1] = Do("payment", reg'[i].tier)
    BY ONLY <2>3, <2>4, q \in Runs
  <2> QED BY ONLY <1>6, <2>5, <2>6
<1> QED BY <1>3, <1>4, <1>5, <1>6

LEMMA MadeStays ==
  ASSUME SeedInv, [SeedNext]_seedVars, NEW p \in Runs
  PROVE  MadeOK(p)'
<1>1. SeedTypeOK /\ MadeOK(p) /\ done[p] \in Nat
  BY DEF SeedInv, SeedTypeOK
<1>2. Prepared \in Nat
  BY ScriptShape
<1> DEFINE mine == Own(p, "free")
<1>3. mine \subseteq mine'
  BY RowsStay DEF KeepsRows, Own
<1>4. CASE done'[p] = done[p]
  BY <1>1, <1>3, <1>4 DEF MadeOK
<1>5. CASE done'[p] # done[p]
  <2>1. stage[p] = "running" /\ done'[p] = done[p] + 1
    BY <1>1, <1>5, Executes
  <2>2. CASE done[p] = Prepared \/ done[p] = Prepared + 2
    <3>1. Script[done[p] + 1] = Do("registration", "free")
      BY <2>1, <2>2, <1>2, NextStatement, Statements
    <3>2. Operand(p) = "free" /\ \A op : At(p, op) => op = "registration"
      BY <3>1 DEF Operand, At, Do
    <3>3. SeedRegistration(p)
      BY <1>1, <1>5, <3>2, Executes
        DEF SeedUser, SeedRow, SeedTier, SeedPayment, SeedSave, SeedSelect, SeedCheckIn
    <3>4. Operand(p) \in DemoTiers /\ MakesRow(Operand(p), p, "CONFIRMED", FALSE)
      BY <3>3, Registers
    <3>5. /\ Len(reg) \in Nat /\ DOMAIN reg = 1..Len(reg) /\ DOMAIN reg' = 1..(Len(reg) + 1)
          /\ reg'[Len(reg) + 1] = Registration("free", p, "CONFIRMED", FALSE)
      BY <1>1, <3>2, <3>4, Made DEF Statuses
    <3>6. Len(reg) + 1 \in mine' /\ Len(reg) + 1 \notin mine
      BY <3>5 DEF Own, Registration
    <3>7. done'[p] > Prepared + 2 => mine # {}
      BY <1>1, <1>2, <2>1, <2>2 DEF MadeOK
    <3> QED BY <1>3, <3>6, <3>7 DEF MadeOK
  <2>3. CASE done[p] # Prepared /\ done[p] # Prepared + 2
    <3>1. /\ done'[p] > Prepared => done[p] > Prepared
          /\ done'[p] > Prepared + 2 => done[p] > Prepared + 2
      BY <1>1, <1>2, <2>1, <2>3
    <3> QED BY <1>1, <1>3, <3>1 DEF MadeOK
  <2> QED BY <2>2, <2>3
<1> QED BY <1>4, <1>5

\* A ticket the run writes later is younger than those there are.
LEMMA EarlyStays ==
  ASSUME SeedInv, [SeedNext]_seedVars, NEW p \in Runs, NEW i, EarlyFor(p, i)
  PROVE  EarlyFor(p, i)'
<1>1. DOMAIN reg = 1..Len(reg) /\ DOMAIN reg' = 1..Len(reg') /\ KeepsRows
  BY RowsStay DEF SeedInv, SeedTypeOK
<1>2. i \in DOMAIN reg' /\ reg'[i].tier = "free"
  BY <1>1 DEF EarlyFor, KeepsRows
<1>3. ASSUME NEW j \in Own(p, "free")', j < i PROVE j \in Own(p, "free")
  <2>1. j \in DOMAIN reg' /\ reg'[j].by = p /\ reg'[j].tier = "free"
    BY DEF Own
  <2>2. j \in DOMAIN reg
    BY <1>1, <1>3, <2>1, RowsStay DEF EarlyFor
  <2> QED BY <1>1, <2>1, <2>2 DEF Own, KeepsRows
<1> QED BY <1>2, <1>3 DEF EarlyFor

LEMMA PickedStays ==
  ASSUME SeedInv, [SeedNext]_seedVars, NEW p \in Runs
  PROVE  PickedOK(p)'
<1>1. SeedTypeOK /\ PickedOK(p) /\ done[p] \in Nat
  BY DEF SeedInv, SeedTypeOK
<1>2. Prepared \in Nat
  BY ScriptShape
<1>3. ASSUME NEW q \in Runs, SeedSelect(q) PROVE PickedOK(p)'
  <2> DEFINE keys == {i \in DOMAIN reg : reg[i].tier = Operand(q)}
             first == Oldest(keys)
             second == Oldest(keys \ {first})
  <2>1. At(q, "select") /\ Advance(q) /\ picked' = [picked EXCEPT ![q] = <<first, second>>]
    BY <1>3 DEF SeedSelect
  <2>2. \A i \in {first, second} : EarlyFor(q, i)
    BY <2>1, SelectsTwo
  <2> HIDE DEF first, second
  <2>3. CASE q = p
    <3>1. picked'[p] = <<first, second>>
      BY <1>1, <2>1, <2>3 DEF SeedTypeOK
    <3>2. picked'[p][1] = first /\ picked'[p][2] = second
      BY <3>1
    <3>3. \A n \in {1, 2} : EarlyFor(p, picked'[p][n])
      BY <2>2, <2>3, <3>2
    <3> QED BY <3>3, EarlyStays DEF PickedOK
  <2>4. CASE q # p
    <3>1. picked'[p] = picked[p] /\ done'[p] = done[p]
      BY <1>1, <2>1, <2>4 DEF SeedTypeOK, Advance
    <3> QED BY <1>1, <3>1, EarlyStays DEF PickedOK
  <2> QED BY <2>3, <2>4
<1>4. CASE \A q \in Runs : ~ SeedSelect(q)
  <2>1. picked' = picked
    <3>1. \A x : SeedStart(x) \/ SeedUser(x) \/ SeedRow(x) \/ SeedTier(x) \/ SeedRegistration(x)
                   \/ SeedPayment(x) \/ SeedSave(x) \/ SeedCheckIn(x) \/ SeedFail(x)
                 => picked' = picked
      BY DEF SeedStart, SeedUser, SeedRow, SeedTier, SeedRegistration, SeedPayment, SeedSave,
           SeedCheckIn, SeedFail
    <3>2. \A x : ApiRegister(x) \/ ApiSale(x) \/ ApiReserve(x) \/ ApiPatch(x) \/ ApiConfirm(x)
                   \/ ApiCancel(x) \/ ApiScan(x)
                 => picked' = picked
      BY DEF ApiRegister, ApiSale, ApiReserve, ApiPatch, ApiConfirm, ApiCancel, ApiScan, runState
    <3>3. UNCHANGED seedVars => picked' = picked
      BY DEF seedVars, runState
    <3> QED BY <1>4, <3>1, <3>2, <3>3 DEF SeedNext
  <2>2. done'[p] > Prepared + 7 => done[p] > Prepared + 7
    <3> SUFFICES ASSUME done'[p] # done[p], done[p] = Prepared + 7 PROVE FALSE
      <4>1. done'[p] = done[p] \/ done'[p] = done[p] + 1
        BY <1>1, Moves
      <4> QED BY <1>1, <1>2, <4>1
    <3>1. stage[p] = "running"
      BY <1>1, Executes
    <3>2. Script[done[p] + 1].op = "select"
      BY <1>2, <3>1, NextStatement, Statements
    <3>3. \A op : At(p, op) => op = "select"
      BY <3>2 DEF At
    <3> QED BY <1>1, <1>4, <3>3, Executes
          DEF SeedUser, SeedRow, SeedTier, SeedRegistration, SeedPayment, SeedSave, SeedCheckIn
  <2> QED BY <1>1, <2>1, <2>2, EarlyStays DEF PickedOK
<1> QED BY <1>3, <1>4

LEMMA PaidStay ==
  ASSUME SeedInv, [SeedNext]_seedVars, NEW t
  PROVE  /\ IsFiniteSet(PaidIn(t)) /\ IsFiniteSet(PaidIn(t)') /\ PaidIn(t) \subseteq PaidIn(t)'
         /\ Cardinality(PaidIn(t)) \in Nat /\ Cardinality(PaidIn(t)') \in Nat
         /\ Cardinality(PaidIn(t)) <= Cardinality(PaidIn(t)')
<1>1. PaidIn(t) \subseteq PaidIn(t)'
  BY RowsStay DEF KeepsRows, PaidIn
<1>2. Len(reg') \in Nat /\ PaidIn(t)' \subseteq 1..Len(reg')
  BY RowsStay DEF PaidIn
<1>3. IsFiniteSet(1..Len(reg'))
  BY <1>2, FS_Interval
<1>4. IsFiniteSet(PaidIn(t)')
  BY <1>2, <1>3, FS_Subset
<1>5. IsFiniteSet(PaidIn(t)) /\ Cardinality(PaidIn(t)) <= Cardinality(PaidIn(t)')
  BY <1>1, <1>4, FS_Subset
<1> QED BY <1>1, <1>4, <1>5, FS_CardinalityType

\* A counter set to no more than the payments of its tier will not exceed them.
LEMMA CounterSet ==
  ASSUME SeedInv, [SeedNext]_seedVars, NEW u \in DemoTiers, NEW n \in Nat,
         n <= Cardinality(PaidIn(u)'), SetCounter(u, n)
  PROVE  CounterNeverAhead' /\ SeenOK'
<1> SUFFICES ASSUME NEW t \in DemoTiers
             PROVE  /\ sold'[t] <= Cardinality(PaidIn(t)')
                    /\ \A m \in seen'[t] : m <= Cardinality(PaidIn(t)')
  BY DEF CounterNeverAhead, SeenOK
<1>1. /\ Cardinality(PaidIn(t)) \in Nat /\ Cardinality(PaidIn(t)') \in Nat
      /\ Cardinality(PaidIn(t)) <= Cardinality(PaidIn(t)')
  BY PaidStay
<1>2. /\ sold \in [DemoTiers -> Nat] /\ seen \in [DemoTiers -> SUBSET Nat]
      /\ sold[t] <= Cardinality(PaidIn(t)) /\ \A m \in seen[t] : m <= Cardinality(PaidIn(t))
  BY DEF SeedInv, SeedTypeOK, CounterNeverAhead, SeenOK
<1>3. \A m \in Nat : m <= Cardinality(PaidIn(t)) => m <= Cardinality(PaidIn(t)')
  BY <1>1
<1>4. /\ sold'[t] = IF t = u THEN n ELSE sold[t]
      /\ seen'[t] = IF t = u THEN seen[t] \union {n} ELSE seen[t]
      /\ sold[t] \in Nat /\ seen[t] \subseteq Nat
  BY <1>2 DEF SetCounter
<1> QED BY <1>2, <1>3, <1>4

\* A step that adds a payment row to a tier makes room for one more.
LEMMA RoomForOne ==
  ASSUME SeedInv, [SeedNext]_seedVars, NEW u \in DemoTiers, NEW k, k \notin PaidIn(u),
         k \in PaidIn(u)'
  PROVE  sold[u] + 1 \in Nat /\ sold[u] + 1 <= Cardinality(PaidIn(u)')
<1>1. /\ IsFiniteSet(PaidIn(u)) /\ IsFiniteSet(PaidIn(u)') /\ PaidIn(u) \subseteq PaidIn(u)'
      /\ Cardinality(PaidIn(u)) \in Nat /\ Cardinality(PaidIn(u)') \in Nat
  BY PaidStay
<1>2. Cardinality(PaidIn(u) \union {k}) = Cardinality(PaidIn(u)) + 1
  BY <1>1, FS_AddElement
<1>3. Cardinality(PaidIn(u) \union {k}) <= Cardinality(PaidIn(u)')
  <2>1. PaidIn(u) \union {k} \subseteq PaidIn(u)'
    BY <1>1
  <2> QED BY <1>1, <2>1, FS_Subset
<1>4. sold[u] \in Nat /\ sold[u] <= Cardinality(PaidIn(u))
  BY DEF SeedInv, SeedTypeOK, CounterNeverAhead
<1> QED BY <1>1, <1>2, <1>3, <1>4

LEMMA CounterStays ==
  ASSUME SeedInv, [SeedNext]_seedVars
  PROVE  CounterNeverAhead' /\ SeenOK'
<1> DEFINE Goal == CounterNeverAhead' /\ SeenOK'
<1>1. SeedTypeOK /\ reg \in Seq(Row) /\ DOMAIN reg = 1..Len(reg) /\ Len(reg) \in Nat
  BY DEF SeedInv, SeedTypeOK
<1>2. ASSUME UNCHANGED counters PROVE Goal
  <2> SUFFICES ASSUME NEW t \in DemoTiers
               PROVE  /\ sold[t] <= Cardinality(PaidIn(t)')
                      /\ \A m \in seen[t] : m <= Cardinality(PaidIn(t)')
    BY <1>2 DEF CounterNeverAhead, SeenOK, counters
  <2>1. /\ Cardinality(PaidIn(t)) \in Nat /\ Cardinality(PaidIn(t)') \in Nat
        /\ Cardinality(PaidIn(t)) <= Cardinality(PaidIn(t)')
    BY PaidStay
  <2>2. /\ sold[t] \in Nat /\ seen[t] \subseteq Nat
        /\ sold[t] <= Cardinality(PaidIn(t)) /\ \A m \in seen[t] : m <= Cardinality(PaidIn(t))
    BY DEF SeedInv, SeedTypeOK, CounterNeverAhead, SeenOK
  <2>3. \A m \in Nat : m <= Cardinality(PaidIn(t)) => m <= Cardinality(PaidIn(t)')
    BY <2>1
  <2> QED BY <2>2, <2>3
<1> HIDE DEF Goal
<1>3. ASSUME NEW p \in Runs, SeedSave(p) PROVE Goal
  <2>1. At(p, "save") /\ stage[p] = "running" /\ Operand(p) \in Operands("save")
    BY <1>3, NextStatement DEF SeedSave, At
  <2>2. PICK t \in DemoTiers : t = Operand(p)
    BY <2>1, SavesDemoTiers
  <2>3. PICK n : n = Cardinality(Own(p, t))
    OBVIOUS
  <2>4. SetCounter(t, n)
    BY <1>3, <2>2, <2>3 DEF SeedSave
  <2>5. Own(p, t) \subseteq PaidIn(t) /\ IsFiniteSet(PaidIn(t))
    BY <2>1, OwnPaid, PaidStay DEF Own, PaidIn
  <2>6. n \in Nat /\ n <= Cardinality(PaidIn(t))
    BY <2>3, <2>5, FS_Subset, FS_CardinalityType
  <2>7. n <= Cardinality(PaidIn(t)')
    BY <2>6, PaidStay
  <2> QED BY <2>4, <2>6, <2>7, CounterSet DEF Goal
<1>4. ASSUME NEW u \in DemoTiers, ApiSale(u) PROVE Goal
  <2>1. SetCounter(u, sold[u] + 1) /\ MakesRow(u, Api, "CONFIRMED", TRUE)
    BY <1>4 DEF ApiSale, MakesRow
  <2>2. /\ Len(reg) \in Nat /\ DOMAIN reg = 1..Len(reg) /\ DOMAIN reg' = 1..(Len(reg) + 1)
        /\ reg'[Len(reg) + 1] = Registration(u, Api, "CONFIRMED", TRUE)
    BY <1>1, <2>1, Made DEF Statuses
  <2>3. Len(reg) + 1 \in PaidIn(u)' /\ Len(reg) + 1 \notin PaidIn(u)
    BY <2>2 DEF PaidIn, Registration
  <2> QED BY <2>1, <2>3, RoomForOne, CounterSet DEF Goal
<1>5. ASSUME NEW i \in DOMAIN reg, ApiConfirm(i) PROVE Goal
  <2>1. reg[i] \in Row /\ reg[i].tier \in DemoTiers
    BY <1>1, RowIs
  <2>2. PICK u \in DemoTiers : u = reg[i].tier
    BY <2>1
  <2>3. /\ SetCounter(u, sold[u] + 1) /\ ~reg[i].paid
        /\ reg' = [reg EXCEPT ![i].status = "CONFIRMED", ![i].paid = TRUE]
    BY <1>5, <2>2 DEF ApiConfirm
  <2>4. i \in DOMAIN reg' /\ reg'[i].paid /\ reg'[i].tier = u
    BY <1>1, <2>1, <2>2, <2>3 DEF Row
  <2>5. i \notin PaidIn(u) /\ i \in PaidIn(u)'
    BY <2>3, <2>4 DEF PaidIn
  <2> QED BY <2>3, <2>5, RoomForOne, CounterSet DEF Goal
<1>6. ASSUME NEW t \in DemoTiers, ApiPatch(t) PROVE Goal
  <2>1. PICK n \in seen[t] : SetCounter(t, n)
    BY <1>6 DEF ApiPatch
  <2>2. n \in Nat /\ n <= Cardinality(PaidIn(t))
    BY <1>1, <2>1 DEF SeedTypeOK, SeedInv, SeenOK
  <2>3. n <= Cardinality(PaidIn(t)')
    BY <2>2, PaidStay
  <2> QED BY <2>1, <2>2, <2>3, CounterSet DEF Goal
<1>7. ASSUME NEW x, SeedStart(x) \/ SeedUser(x) \/ SeedRow(x) \/ SeedTier(x) \/ SeedRegistration(x)
               \/ SeedPayment(x) \/ SeedSelect(x) \/ SeedCheckIn(x) \/ SeedFail(x)
      PROVE  Goal
  <2>1. UNCHANGED counters
    BY <1>7 DEF SeedStart, SeedUser, SeedRow, SeedTier, SeedRegistration, SeedPayment, SeedSelect,
         SeedCheckIn, SeedFail
  <2> QED BY <1>2, <2>1
<1>8. ASSUME NEW x, ApiRegister(x) \/ ApiReserve(x) \/ ApiCancel(x) \/ ApiScan(x) PROVE Goal
  BY <1>2, <1>8 DEF ApiRegister, ApiReserve, ApiCancel, ApiScan
<1>9. ASSUME UNCHANGED seedVars PROVE Goal
  BY <1>2, <1>9 DEF seedVars
<1>10. Goal
  BY <1>3, <1>4, <1>5, <1>6, <1>7, <1>8, <1>9 DEF SeedNext
<1> QED BY <1>10 DEF Goal

(***************************************************************************)
(* Theorems                                                                *)
(***************************************************************************)

LEMMA SeedInvInit == SeedInit => SeedInv
<1> SUFFICES ASSUME SeedInit PROVE SeedInv
  OBVIOUS
<1>1. Prepared \in Nat /\ Prepared >= 1 /\ Len(Script) = Prepared + 13
  BY ScriptShape
<1>2. SeedTypeOK
  BY <1>1 DEF SeedInit, SeedTypeOK
<1>3. SeededOnce /\ UnpaidOK
  BY DEF SeedInit, SeededOnce, UnpaidOK
<1>4. ASSUME NEW p \in Runs PROVE RunOK(p) /\ MadeOK(p) /\ PickedOK(p)
  BY <1>1 DEF SeedInit, RunOK, MadeOK, PickedOK
<1>5. CounterNeverAhead /\ SeenOK
  <2> SUFFICES ASSUME NEW t \in DemoTiers
               PROVE  sold[t] <= Cardinality(PaidIn(t)) /\ \A n \in seen[t] : n <= Cardinality(PaidIn(t))
    BY DEF CounterNeverAhead, SeenOK
  <2>1. PaidIn(t) = {} /\ sold[t] = 0 /\ seen[t] = {0}
    BY DEF SeedInit, PaidIn
  <2> QED BY <2>1, FS_EmptySet
<1> QED BY <1>2, <1>3, <1>4, <1>5 DEF SeedInv

LEMMA SeedInvStep == SeedInv /\ [SeedNext]_seedVars => SeedInv'
BY Typed, Alone, MadeStays, PickedStays, UnpaidStays, CounterStays DEF SeedInv

LEMMA SeedInvariant == SeedSpec => []SeedInv
BY SeedInvInit, SeedInvStep, PTL DEF SeedSpec

\* Positions, accounts, tiers, counters and rows are what the tables hold: in
\* particular no counter is negative, whoever saves it last.
THEOREM SeedTyped == SeedSpec => []SeedTypeOK
<1>1. SeedInv => SeedTypeOK
  BY DEF SeedInv
<1> QED BY <1>1, SeedInvariant, PTL

\* Of any number of overlapping runs, one writes.
THEOREM OneRunSeeds == SeedSpec => []SeededOnce
<1>1. SeedInv => SeededOnce
  BY DEF SeedInv
<1> QED BY <1>1, SeedInvariant, PTL

\* The saves of the tiers never put a counter above the payments of its tier.
THEOREM CounterNotAhead == SeedSpec => []CounterNeverAhead
<1>1. SeedInv => CounterNeverAhead
  BY DEF SeedInv
<1> QED BY <1>1, SeedInvariant, PTL

\* Wherever a run dies, the only registration it leaves without a payment row is
\* the one it was writing; the API confirms none without.
THEOREM UnpaidOnlyNewest == SeedSpec => []UnpaidIsNewest
<1>1. ASSUME SeedInv PROVE UnpaidIsNewest
  <2> SUFFICES ASSUME NEW i \in DOMAIN reg, ~ reg[i].paid, reg[i].by # Api
               PROVE  LET p == reg[i].by IN
                        /\ p \in Runs
                        /\ Script[done[p] + 1].op = "payment"
                        /\ i = Latest(Own(p, reg[i].tier))
    BY <1>1 DEF UnpaidIsNewest, SeedInv, UnpaidOK
  <2> DEFINE p == reg[i].by
  <2>1. /\ p \in Runs /\ Script[done[p] + 1] = Do("payment", reg[i].tier)
        /\ \A j \in Own(p, reg[i].tier) : j <= i
    BY <1>1 DEF SeedInv, UnpaidOK
  <2>2. i \in Own(p, reg[i].tier) /\ Own(p, reg[i].tier) \subseteq Nat
    BY <1>1 DEF Own, SeedInv, SeedTypeOK
  <2>3. Latest(Own(p, reg[i].tier)) = i
    BY <2>1, <2>2, LatestIs
  <2>4. Script[done[p] + 1].op = "payment"
    BY <2>1 DEF Do
  <2> QED BY <2>1, <2>3, <2>4
<1> QED BY <1>1, SeedInvariant, PTL

\* The two tickets checked in are the oldest of their tier when they were selected:
\* whoever registers meanwhile, none of them came after the run's second.
THEOREM ScansTheFirst == SeedSpec => ChecksInFirst
<1> DEFINE First == \A p \in Runs, i \in DOMAIN reg :
                      SeedCheckIn(p) /\ reg'[i].admitted /\ ~reg[i].admitted =>
                        \A j, k \in Own(p, reg[i].tier) : j < i /\ k < i => j = k
<1>1. ASSUME SeedInv, [SeedNext]_seedVars PROVE First
  <2> SUFFICES ASSUME NEW p \in Runs, NEW i \in DOMAIN reg,
                      SeedCheckIn(p), reg'[i].admitted, ~reg[i].admitted
               PROVE  \A j, k \in Own(p, reg[i].tier) : j < i /\ k < i => j = k
    OBVIOUS
  <2> DEFINE n == picked[p][Operand(p)]
  <2>1. At(p, "check_in") /\ (reg' = [reg EXCEPT ![n].admitted = TRUE] \/ reg' = reg)
    BY DEF SeedCheckIn
  <2>2. i = n
    BY <2>1
  <2>3. stage[p] = "running" /\ Script[done[p] + 1].op = "check_in"
    BY <2>1 DEF At
  <2>4. Operand(p) \in {1, 2} /\ done[p] > Prepared + 7
    BY <1>1, <2>3, NextStatement, Statements DEF Operand
  <2>5. EarlyFor(p, n)
    BY <1>1, <2>4 DEF SeedInv, PickedOK
  <2> QED BY <2>2, <2>5 DEF EarlyFor
<1>2. SeedSpec => [][First]_seedVars
  BY <1>1, SeedInvariant, PTL DEF SeedSpec
<1> QED BY <1>2 DEF ChecksInFirst
=============================================================================
