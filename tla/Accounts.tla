------------------------------ MODULE Accounts ------------------------------
(***************************************************************************)
(* Accounts and refresh tokens: registration, login, refresh, logout       *)
(* (accounts/views.py, accounts/serializers.py) and suspension by an       *)
(* administrator (core/admin_views.py).  No request opens a transaction:   *)
(* every statement commits by itself, and a request that dies leaves what  *)
(* its statements have written.                                            *)
(*                                                                         *)
(* A user is an email address in lower case.  Access tokens are signed and *)
(* not stored; what matters of them is that a request that carries one     *)
(* reads is_active of its user first.  Expiry only makes tokens unusable   *)
(* and is left out.                                                        *)
(***************************************************************************)
EXTENDS Naturals, FiniteSets

CONSTANTS Workers,  \* threads that serve requests
          Users,    \* email addresses
          Tokens,   \* refresh tokens
          NoUser, NoToken

ASSUME AccountsAssumption ==
  /\ NoUser \notin Users /\ NoToken \notin Tokens
  /\ IsFiniteSet(Workers) /\ IsFiniteSet(Tokens)

VARIABLES
  account,    \* "none", "bare" (the user row alone) or "full" (with its profile)
  active,     \* is_active
  owner,      \* the user a token was issued for, NoUser before that
  parent,     \* the token it was issued in exchange for, NoToken for none
  blacklist,  \* blacklisted tokens
  pc,         \* what each worker runs next
  user,       \* the user its request is about
  token       \* the refresh token its request carries

rows     == <<account, active, owner, parent, blacklist>>
request  == <<pc, user, token>>
accounts == <<rows, request>>

AccountLabels == {"register_user", "register_profile", "issue", "refresh_blacklist",
                  "logout_blacklist"}

TypeOK ==
  /\ account \in [Users -> {"none", "bare", "full"}]
  /\ active \in [Users -> BOOLEAN]
  /\ owner \in [Tokens -> Users \union {NoUser}]
  /\ parent \in [Tokens -> Tokens \union {NoToken}]
  /\ blacklist \subseteq {k \in Tokens : owner[k] # NoUser}
  /\ \A w \in Workers :
       /\ pc[w] \in AccountLabels => user[w] \in Users
       /\ pc[w] \in {"refresh_blacklist", "logout_blacklist"} => token[w] \in Tokens

Init ==
  /\ account = [u \in Users |-> "none"]
  /\ active = [u \in Users |-> TRUE]
  /\ owner = [k \in Tokens |-> NoUser]
  /\ parent = [k \in Tokens |-> NoToken]
  /\ blacklist = {}
  /\ pc = [w \in Workers |-> "idle"]
  /\ user = [w \in Workers |-> NoUser]
  /\ token = [w \in Workers |-> NoToken]

Begin(w, u, k, label) ==
  /\ pc[w] = "idle"
  /\ pc' = [pc EXCEPT ![w] = label]
  /\ user' = [user EXCEPT ![w] = u]
  /\ token' = [token EXCEPT ![w] = k]

Goto(w, from, to) ==
  /\ pc[w] = from
  /\ pc' = [pc EXCEPT ![w] = to]
  /\ UNCHANGED <<user, token>>

End(w) ==
  /\ pc' = [pc EXCEPT ![w] = "idle"]
  /\ user' = [user EXCEPT ![w] = NoUser]
  /\ token' = [token EXCEPT ![w] = NoToken]

\* JWTAuthentication: the user of the access token exists and is active.
Authentic(u) == account[u] # "none" /\ active[u]

(***************************************************************************)
(* register_view                                                           *)
(***************************************************************************)

\* validate_email finds no account with the address.
RegisterRead(w, u) ==
  /\ account[u] = "none"
  /\ Begin(w, u, NoToken, "register_user")
  /\ UNCHANGED rows

\* The unique constraint of User.email.
Available_NoConstraint(u) == u \in Users
Available(u) == account[u] = "none"

\* An IntegrityError ends the request.
RegisterUser(w) ==
  /\ pc[w] = "register_user"
  /\ \/ /\ Available(user[w])
        /\ account' = [account EXCEPT ![user[w]] = "bare"]
        /\ Goto(w, "register_user", "register_profile")
     \/ ~Available(user[w]) /\ End(w) /\ UNCHANGED account
  /\ UNCHANGED <<active, owner, parent, blacklist>>

RegisterProfile(w) ==
  /\ Goto(w, "register_profile", "issue")
  /\ account' = [account EXCEPT ![user[w]] = "full"]
  /\ UNCHANGED <<active, owner, parent, blacklist>>

(***************************************************************************)
(* login_view.  authenticate returns no inactive user, so the answer for a *)
(* suspended account after it is never given.                              *)
(***************************************************************************)

LoginRead(w, u) ==
  /\ Authentic(u)
  /\ Begin(w, u, NoToken, "issue")
  /\ UNCHANGED rows

\* RefreshToken.for_user records a new token, for whoever the user is by now.
Issue(w) ==
  /\ pc[w] = "issue"
  /\ \E k \in Tokens :
       /\ owner[k] = NoUser
       /\ owner' = [owner EXCEPT ![k] = user[w]]
       /\ parent' = [parent EXCEPT ![k] = token[w]]
  /\ End(w)
  /\ UNCHANGED <<account, active, blacklist>>

(***************************************************************************)
(* refresh_view                                                            *)
(***************************************************************************)

Accepted_Unchecked(k) == owner[k] # NoUser
\* RefreshToken(token_str) verifies the token and looks it up in the blacklist.
Accepted(k) == owner[k] # NoUser /\ k \notin blacklist

RefreshRead(w, k) ==
  /\ Accepted(k)
  /\ Begin(w, owner[k], k, "refresh_blacklist")
  /\ UNCHANGED rows

RefreshBlacklist_Omitted(w) ==
  /\ Goto(w, "refresh_blacklist", "issue")
  /\ UNCHANGED rows
\* blacklist() is a get_or_create: it does not notice that somebody else did it.
RefreshBlacklist(w) ==
  /\ Goto(w, "refresh_blacklist", "issue")
  /\ blacklist' = blacklist \union {token[w]}
  /\ UNCHANGED <<account, active, owner, parent>>

(***************************************************************************)
(* logout_view: any active user, and the refresh token it is given.        *)
(***************************************************************************)

LogoutRead(w, u, k) ==
  /\ Authentic(u)
  /\ Accepted(k)
  /\ Begin(w, u, k, "logout_blacklist")
  /\ UNCHANGED rows

LogoutBlacklist(w) ==
  /\ pc[w] = "logout_blacklist"
  /\ blacklist' = blacklist \union {token[w]}
  /\ End(w)
  /\ UNCHANGED <<account, active, owner, parent>>

(***************************************************************************)
(* user_suspend, by an administrator, who is none of Users.                *)
(***************************************************************************)

Suspend(u) ==
  /\ account[u] # "none"
  /\ active' = [active EXCEPT ![u] = FALSE]
  /\ UNCHANGED <<account, owner, parent, blacklist, request>>

Fail(w) ==
  /\ pc[w] \in AccountLabels
  /\ End(w)
  /\ UNCHANGED rows

AccountStep(w) ==
  \/ RegisterUser(w) \/ RegisterProfile(w) \/ Issue(w)
  \/ RefreshBlacklist(w) \/ LogoutBlacklist(w) \/ Fail(w)

Next ==
  \/ \E w \in Workers : AccountStep(w)
  \/ \E w \in Workers, u \in Users : RegisterRead(w, u) \/ LoginRead(w, u)
  \/ \E w \in Workers, k \in Tokens : RefreshRead(w, k)
  \/ \E w \in Workers, u \in Users, k \in Tokens : LogoutRead(w, u, k)
  \/ \E u \in Users : Suspend(u)

Spec == Init /\ [][Next]_accounts

(***************************************************************************)
(* Properties                                                              *)
(***************************************************************************)

\* Two registrations of one address never both get past the unique constraint,
\* although both may have passed the check of the serializer: the profile of an
\* account is made by one request, and by none once it exists.
OneCreator ==
  \A v, w \in Workers :
    pc[v] = "register_profile" =>
      /\ account[user[v]] = "bare"
      /\ v # w /\ pc[w] = "register_profile" => user[v] # user[w]

\* A refresh retires the old token before it issues the new one, to the same
\* user: whenever the request dies, no token is alive beside its successor.
RotationRetires ==
  \A k \in Tokens :
    parent[k] # NoToken => parent[k] \in blacklist /\ owner[parent[k]] = owner[k]

\* The tokens issued in exchange for k, and the requests that still may issue one.
Successors(k) == {j \in Tokens : parent[j] = k}
Refreshing(k) == {w \in Workers : pc[w] \in {"refresh_blacklist", "issue"} /\ token[w] = k}

\* Refreshes that overlap can each exchange one token, but once it is blacklisted,
\* by a refresh or a logout, it gains no successor that was not under way.
BlacklistedGainsNothing ==
  [][\A k \in blacklist :
       Cardinality(Successors(k)') + Cardinality(Refreshing(k)')
         <= Cardinality(Successors(k)) + Cardinality(Refreshing(k))]_accounts
=============================================================================
