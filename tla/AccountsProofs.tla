--------------------------- MODULE AccountsProofs ---------------------------
(***************************************************************************)
(* Proofs about Accounts, for any addresses, tokens and workers.  The      *)
(* workers may also serve the requests of EventLifecycle and Agenda, so    *)
(* that the lemmas hold where AgendaProofs needs them.                     *)
(***************************************************************************)
EXTENDS Accounts, FiniteSetTheorems, TLAPS

WorkerLabels == AccountLabels \union {"idle", "event_read", "event_save", "session_save"}

RequestTypeOK ==
  /\ pc \in [Workers -> WorkerLabels]
  /\ user \in [Workers -> Users \union {NoUser}]
  /\ token \in [Workers -> Tokens \union {NoToken}]

\* What a request knows of the token it carries: it was issued to the request's
\* user, and it is retired before another one is issued in exchange.
RequestOK(w) ==
  /\ pc[w] \in {"register_user", "register_profile"} => token[w] = NoToken
  /\ pc[w] = "refresh_blacklist" => owner[token[w]] = user[w]
  /\ pc[w] = "logout_blacklist" => owner[token[w]] # NoUser
  /\ pc[w] = "issue" /\ token[w] # NoToken
       => token[w] \in blacklist /\ owner[token[w]] = user[w]

AInv ==
  /\ TypeOK
  /\ RequestTypeOK
  /\ OneCreator
  /\ RotationRetires
  /\ \A w \in Workers : RequestOK(w)

\* The invariant holds while there are no accounts and no tokens.
LEMMA AInvInit == Init => AInv
BY AccountsAssumption
DEF Init, AInv, TypeOK, RequestTypeOK, AccountLabels, WorkerLabels, OneCreator, RotationRetires, RequestOK

\* Whoever starts a request has read what RequestOK says, and the rows are as before.
LEMMA BeginStep ==
  ASSUME AInv, NEW w \in Workers, NEW u \in Users, NEW k \in Tokens \union {NoToken},
         NEW label \in WorkerLabels \ {"register_profile"},
         Begin(w, u, k, label), UNCHANGED rows,
         label \in {"register_user", "issue"} => k = NoToken,
         label = "refresh_blacklist" => k \in Tokens /\ owner[k] = u,
         label = "logout_blacklist" => k \in Tokens /\ owner[k] # NoUser
  PROVE  AInv'
<1>1. RequestTypeOK'
  BY DEF AInv, RequestTypeOK, Begin, AccountLabels, WorkerLabels
<1>2. TypeOK'
  BY DEF AInv, TypeOK, RequestTypeOK, Begin, rows, AccountLabels, WorkerLabels
<1>3. OneCreator' /\ RotationRetires'
  BY DEF AInv, OneCreator, RotationRetires, RequestTypeOK, Begin, rows
<1>4. \A v \in Workers : RequestOK(v)'
  BY DEF AInv, RequestOK, RequestTypeOK, Begin, rows
<1> QED BY <1>1, <1>2, <1>3, <1>4 DEF AInv

\* A request that ends leaves nothing to be true of it.
LEMMA EndStep ==
  ASSUME AInv, NEW w \in Workers, End(w), UNCHANGED rows
  PROVE  AInv'
<1>1. TypeOK' /\ RequestTypeOK'
  BY DEF AInv, TypeOK, RequestTypeOK, End, rows, AccountLabels, WorkerLabels
<1>2. OneCreator' /\ RotationRetires'
  BY DEF AInv, OneCreator, RotationRetires, RequestTypeOK, End, rows
<1>3. \A v \in Workers : RequestOK(v)'
  BY DEF AInv, RequestOK, RequestTypeOK, End, rows
<1> QED BY <1>1, <1>2, <1>3 DEF AInv

\* The unique constraint lets one registration of an address past it.
LEMMA RegisterUserStep ==
  ASSUME AInv, NEW w \in Workers, RegisterUser(w)
  PROVE  AInv'
<1> USE DEF AInv
<1>1. CASE ~Available(user[w]) /\ End(w) /\ UNCHANGED account
  BY <1>1, EndStep DEF RegisterUser, rows
<1>2. CASE /\ Available(user[w])
           /\ account' = [account EXCEPT ![user[w]] = "bare"]
           /\ Goto(w, "register_user", "register_profile")
  <2>1. user[w] \in Users /\ account[user[w]] = "none"
    BY <1>2 DEF RegisterUser, TypeOK, AccountLabels, Available
  <2>2. TypeOK' /\ RequestTypeOK'
    BY <1>2, <2>1 DEF RegisterUser, TypeOK, RequestTypeOK, Goto, AccountLabels, WorkerLabels
  <2>3. OneCreator'
    BY <1>2, <2>1 DEF OneCreator, TypeOK, RequestTypeOK, Goto, AccountLabels, WorkerLabels
  <2>4. RotationRetires' /\ \A v \in Workers : RequestOK(v)'
    BY <1>2 DEF RegisterUser, RotationRetires, RequestOK, RequestTypeOK, Goto
  <2> QED BY <2>2, <2>3, <2>4
<1> QED BY <1>1, <1>2 DEF RegisterUser

\* The profile is the creator's own.
LEMMA RegisterProfileStep ==
  ASSUME AInv, NEW w \in Workers, RegisterProfile(w)
  PROVE  AInv'
<1> USE DEF AInv
<1>1. user[w] \in Users
  BY DEF RegisterProfile, Goto, TypeOK, AccountLabels
<1>2. TypeOK' /\ RequestTypeOK'
  BY <1>1 DEF RegisterProfile, TypeOK, RequestTypeOK, Goto, AccountLabels, WorkerLabels
<1>3. OneCreator'
  BY <1>1 DEF RegisterProfile, OneCreator, TypeOK, RequestTypeOK, Goto, AccountLabels, WorkerLabels
<1>4. RotationRetires' /\ \A v \in Workers : RequestOK(v)'
  BY DEF RegisterProfile, RotationRetires, RequestOK, RequestTypeOK, Goto
<1> QED BY <1>2, <1>3, <1>4

\* A new token succeeds the one its request has retired.
LEMMA IssueStep ==
  ASSUME AInv, NEW w \in Workers, Issue(w)
  PROVE  AInv'
<1> USE DEF AInv
<1>1. PICK k \in Tokens :
        /\ owner[k] = NoUser
        /\ owner' = [owner EXCEPT ![k] = user[w]]
        /\ parent' = [parent EXCEPT ![k] = token[w]]
  BY DEF Issue
<1>2. user[w] \in Users /\ token[w] \in Tokens \union {NoToken}
  BY DEF Issue, TypeOK, RequestTypeOK, AccountLabels
<1>3. k \notin blacklist /\ \A j \in blacklist : j \in Tokens /\ owner'[j] = owner[j]
  BY <1>1 DEF TypeOK
<1>4. TypeOK' /\ RequestTypeOK'
  BY <1>1, <1>2, <1>3, AccountsAssumption DEF Issue, End, TypeOK, RequestTypeOK, AccountLabels, WorkerLabels
<1>5. OneCreator'
  BY DEF Issue, End, OneCreator, RequestTypeOK
<1>6. RotationRetires'
  <2> SUFFICES ASSUME NEW j \in Tokens, parent'[j] # NoToken
               PROVE  parent'[j] \in blacklist' /\ owner'[parent'[j]] = owner'[j]
    BY DEF RotationRetires
  <2>1. CASE j = k
    BY <2>1, <1>1, <1>2, <1>3 DEF Issue, RequestOK, TypeOK
  <2>2. CASE j # k
    BY <2>2, <1>1, <1>3 DEF Issue, RotationRetires, TypeOK
  <2> QED BY <2>1, <2>2
<1>7. ASSUME NEW v \in Workers PROVE RequestOK(v)'
  <2>1. CASE v = w
    BY <2>1 DEF Issue, End, RequestOK, RequestTypeOK
  <2>2. CASE v # w
    <3>1. pc'[v] = pc[v] /\ user'[v] = user[v] /\ token'[v] = token[v] /\ blacklist' = blacklist
      BY <2>2 DEF Issue, End, RequestTypeOK
    <3>2. pc[v] \in {"refresh_blacklist", "logout_blacklist"} =>
            token[v] \in Tokens /\ owner[token[v]] # NoUser
      BY AccountsAssumption DEF TypeOK, RequestOK, AccountLabels
    <3> QED BY <3>1, <3>2, <1>1, <1>3 DEF RequestOK, TypeOK
  <2> QED BY <2>1, <2>2
<1> QED BY <1>4, <1>5, <1>6, <1>7

\* Retiring a token takes nothing from anybody.
LEMMA RefreshBlacklistStep ==
  ASSUME AInv, NEW w \in Workers, RefreshBlacklist(w)
  PROVE  AInv'
<1> USE DEF AInv
<1>1. user[w] \in Users /\ token[w] \in Tokens /\ owner[token[w]] = user[w]
  BY DEF RefreshBlacklist, Goto, TypeOK, RequestOK, AccountLabels
<1>2. TypeOK' /\ RequestTypeOK'
  BY <1>1, AccountsAssumption DEF RefreshBlacklist, TypeOK, RequestTypeOK, Goto, AccountLabels, WorkerLabels
<1>3. OneCreator' /\ RotationRetires'
  BY DEF RefreshBlacklist, OneCreator, RotationRetires, RequestTypeOK, Goto
<1>4. \A v \in Workers : RequestOK(v)'
  BY <1>1 DEF RefreshBlacklist, RequestOK, RequestTypeOK, Goto
<1> QED BY <1>2, <1>3, <1>4

\* The same for a logout.
LEMMA LogoutBlacklistStep ==
  ASSUME AInv, NEW w \in Workers, LogoutBlacklist(w)
  PROVE  AInv'
<1> USE DEF AInv
<1>1. token[w] \in Tokens /\ owner[token[w]] # NoUser
  BY DEF LogoutBlacklist, TypeOK, RequestOK
<1>2. TypeOK' /\ RequestTypeOK'
  BY <1>1 DEF LogoutBlacklist, End, TypeOK, RequestTypeOK, AccountLabels, WorkerLabels
<1>3. OneCreator' /\ RotationRetires'
  BY DEF LogoutBlacklist, End, OneCreator, RotationRetires, RequestTypeOK
<1>4. \A v \in Workers : RequestOK(v)'
  BY DEF LogoutBlacklist, End, RequestOK, RequestTypeOK
<1> QED BY <1>2, <1>3, <1>4

\* A suspension touches no request and no token.
LEMMA SuspendStep ==
  ASSUME AInv, NEW u \in Users, Suspend(u)
  PROVE  AInv'
BY DEF Suspend, AInv, TypeOK, RequestTypeOK, OneCreator, RotationRetires, RequestOK, request

\* Every step keeps the invariant: one case per action.
LEMMA AInvStep == AInv /\ [Next]_accounts => AInv'
<1> SUFFICES ASSUME AInv, [Next]_accounts PROVE AInv'
  OBVIOUS
<1>1. CASE UNCHANGED accounts
  BY <1>1 DEF accounts, rows, request, AInv, TypeOK, RequestTypeOK, OneCreator,
              RotationRetires, RequestOK
<1>2. ASSUME NEW w \in Workers, AccountStep(w) PROVE AInv'
  BY <1>2, RegisterUserStep, RegisterProfileStep, IssueStep, RefreshBlacklistStep,
     LogoutBlacklistStep, EndStep DEF AccountStep, Fail
<1>3. ASSUME NEW w \in Workers, NEW u \in Users, RegisterRead(w, u) PROVE AInv'
  BY <1>3, BeginStep DEF RegisterRead, AccountLabels, WorkerLabels
<1>4. ASSUME NEW w \in Workers, NEW u \in Users, LoginRead(w, u) PROVE AInv'
  BY <1>4, BeginStep DEF LoginRead, AccountLabels, WorkerLabels
<1>5. ASSUME NEW w \in Workers, NEW k \in Tokens, RefreshRead(w, k) PROVE AInv'
  <2>1. owner[k] \in Users
    BY <1>5 DEF RefreshRead, AccountLabels, WorkerLabels, Accepted, AInv, TypeOK
  <2> QED BY <1>5, <2>1, BeginStep DEF RefreshRead, AccountLabels, WorkerLabels
<1>6. ASSUME NEW w \in Workers, NEW u \in Users, NEW k \in Tokens, LogoutRead(w, u, k)
      PROVE  AInv'
  BY <1>6, BeginStep DEF LogoutRead, AccountLabels, WorkerLabels, Accepted
<1>7. ASSUME NEW u \in Users, Suspend(u) PROVE AInv'
  BY <1>7, SuspendStep
<1> QED BY <1>1, <1>2, <1>3, <1>4, <1>5, <1>6, <1>7 DEF Next

\* The invariant is inductive.
LEMMA AccountsInductive == Spec => []AInv
BY AInvInit, AInvStep, PTL DEF Spec

\* Rows and requests keep their types, and only issued tokens are blacklisted.
THEOREM AccountsTyped == Spec => []TypeOK
<1>1. AInv => TypeOK
  BY DEF AInv
<1> QED BY <1>1, AccountsInductive, PTL

\* The profile of an account is made by one request (the unique constraint on
\* User.email, accounts/models.py), whatever registrations overlap.
THEOREM OneRequestCreates == Spec => []OneCreator
<1>1. AInv => OneCreator
  BY DEF AInv
<1> QED BY <1>1, AccountsInductive, PTL

\* refresh_view retires a token before its successor exists, for the same user.
THEOREM RefreshRetires == Spec => []RotationRetires
<1>1. AInv => RotationRetires
  BY DEF AInv
<1> QED BY <1>1, AccountsInductive, PTL

\* The sets the accounting is about are finite, and a smaller set counts no more.
LEMMA NoGain ==
  ASSUME NEW k, Successors(k)' \subseteq Successors(k), Refreshing(k)' \subseteq Refreshing(k)
  PROVE  Cardinality(Successors(k)') + Cardinality(Refreshing(k)')
           <= Cardinality(Successors(k)) + Cardinality(Refreshing(k))
<1>1. IsFiniteSet(Successors(k)) /\ IsFiniteSet(Refreshing(k))
  BY AccountsAssumption, FS_Subset DEF Successors, Refreshing
<1>2. /\ Cardinality(Successors(k)') <= Cardinality(Successors(k))
      /\ Cardinality(Refreshing(k)') <= Cardinality(Refreshing(k))
  BY <1>1, FS_Subset
<1>3. /\ IsFiniteSet(Successors(k)') /\ IsFiniteSet(Refreshing(k)')
  BY <1>1, FS_Subset
<1> QED BY <1>1, <1>2, <1>3, FS_CardinalityType

\* A token that gains a successor loses the request that issued it.
LEMMA IssueGains ==
  ASSUME AInv, NEW w \in Workers, Issue(w), NEW k \in Tokens, token[w] = k
  PROVE  Cardinality(Successors(k)') + Cardinality(Refreshing(k)')
           <= Cardinality(Successors(k)) + Cardinality(Refreshing(k))
<1>1. PICK j \in Tokens : parent' = [parent EXCEPT ![j] = k]
  BY DEF Issue
<1>2. Successors(k)' \subseteq Successors(k) \union {j}
  BY <1>1 DEF Successors, AInv, TypeOK
<1>3. w \in Refreshing(k) /\ Refreshing(k)' \subseteq Refreshing(k) \ {w}
  BY AccountsAssumption DEF Issue, End, Refreshing, AInv, RequestTypeOK
<1>4. IsFiniteSet(Successors(k)) /\ IsFiniteSet(Refreshing(k))
  BY AccountsAssumption, FS_Subset DEF Successors, Refreshing
<1>5. /\ IsFiniteSet(Successors(k) \union {j})
      /\ Cardinality(Successors(k) \union {j}) <= Cardinality(Successors(k)) + 1
  <2>1. Cardinality(Successors(k)) \in Nat
    BY <1>4, FS_CardinalityType
  <2>2. /\ IsFiniteSet(Successors(k) \union {j})
        /\ Cardinality(Successors(k) \union {j}) =
             IF j \in Successors(k) THEN Cardinality(Successors(k)) ELSE Cardinality(Successors(k)) + 1
    BY <1>4, FS_AddElement
  <2> QED BY <2>1, <2>2
<1>6. /\ IsFiniteSet(Refreshing(k) \ {w})
      /\ Cardinality(Refreshing(k) \ {w}) = Cardinality(Refreshing(k)) - 1
  BY <1>3, <1>4, FS_RemoveElement
<1>7. /\ Cardinality(Successors(k)') <= Cardinality(Successors(k) \union {j})
      /\ Cardinality(Refreshing(k)') <= Cardinality(Refreshing(k) \ {w})
      /\ IsFiniteSet(Successors(k)') /\ IsFiniteSet(Refreshing(k)')
  BY <1>2, <1>3, <1>5, <1>6, FS_Subset
<1> QED BY <1>4, <1>5, <1>6, <1>7, FS_CardinalityType

\* The accounting of one step: requests that read k before it was blacklisted are
\* the only ones that can still exchange it.
LEMMA GainStep ==
  ASSUME AInv, [Next]_accounts, NEW k \in blacklist
  PROVE  Cardinality(Successors(k)') + Cardinality(Refreshing(k)')
           <= Cardinality(Successors(k)) + Cardinality(Refreshing(k))
<1> DEFINE Less == Successors(k)' \subseteq Successors(k) /\ Refreshing(k)' \subseteq Refreshing(k)
<1>1. k \in Tokens
  BY DEF AInv, TypeOK
<1>2. CASE UNCHANGED accounts
  BY <1>2, NoGain DEF accounts, rows, request, Successors, Refreshing
<1>3. ASSUME NEW w \in Workers, RegisterUser(w) \/ RegisterProfile(w) \/ LogoutBlacklist(w) \/ Fail(w)
      PROVE  Less
  <2>1. Successors(k)' \subseteq Successors(k)
    BY <1>3 DEF RegisterUser, RegisterProfile, LogoutBlacklist, Fail, rows, Successors
  <2>2. CASE End(w)
    BY <2>1, <2>2 DEF End, Refreshing, AInv, RequestTypeOK
  <2>3. CASE pc[w] \in {"register_user", "register_profile"} /\ pc' = [pc EXCEPT ![w] = pc'[w]]
               /\ token' = token
    BY <2>1, <2>3, <1>1, AccountsAssumption DEF Refreshing, AInv, RequestTypeOK, RequestOK
  <2> QED BY <1>3, <2>2, <2>3
          DEF RegisterUser, RegisterProfile, LogoutBlacklist, Fail, Goto, AInv, RequestTypeOK
<1>4. ASSUME NEW w \in Workers, RefreshBlacklist(w) PROVE Less
  BY <1>4 DEF RefreshBlacklist, Goto, Successors, Refreshing, AInv, RequestTypeOK
<1>5. ASSUME NEW w \in Workers, Issue(w), token[w] # k PROVE Less
  BY <1>5, <1>1 DEF Issue, End, Successors, Refreshing, AInv, TypeOK, RequestTypeOK
<1>6. ASSUME NEW w \in Workers, NEW u, NEW j, NEW label, j # k, Begin(w, u, j, label), UNCHANGED rows
      PROVE  Less
  BY <1>6 DEF Begin, rows, Successors, Refreshing, AInv, RequestTypeOK
<1>7. ASSUME NEW u \in Users, Suspend(u) PROVE Less
  BY <1>7 DEF Suspend, request, Successors, Refreshing
<1>8. CASE \E w \in Workers : AccountStep(w)
  BY <1>1, <1>3, <1>4, <1>5, <1>8, NoGain, IssueGains DEF AccountStep
<1>9. CASE \E w \in Workers, u \in Users : RegisterRead(w, u) \/ LoginRead(w, u)
  BY <1>1, <1>6, <1>9, NoGain, AccountsAssumption DEF RegisterRead, LoginRead
<1>10. CASE \E w \in Workers, j \in Tokens :
              RefreshRead(w, j) \/ \E u \in Users : LogoutRead(w, u, j)
  BY <1>6, <1>10, NoGain DEF RefreshRead, LogoutRead, Accepted
<1> QED BY <1>2, <1>7, <1>8, <1>9, <1>10, NoGain DEF Next

\* Overlapping refreshes may exchange one token each, but a token that is
\* blacklisted gains no successor that was not under way (refresh_view).
THEOREM RetiredGainsNothing == Spec => BlacklistedGainsNothing
<1>1. AInv /\ [Next]_accounts =>
        [\A k \in blacklist :
           Cardinality(Successors(k)') + Cardinality(Refreshing(k)')
             <= Cardinality(Successors(k)) + Cardinality(Refreshing(k))]_accounts
  BY GainStep
<1> QED BY <1>1, AccountsInductive, PTL DEF Spec, BlacklistedGainsNothing
=============================================================================
