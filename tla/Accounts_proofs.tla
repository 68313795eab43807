---------------------------- MODULE Accounts_proofs ----------------------------
(***************************************************************************)
(* Theorems about Sessions and about Accounts, which opens the sessions:   *)
(* what Sessions promises Accounts keeps, since each of its steps is a     *)
(* step of Sessions or leaves the sessions alone, and its own property     *)
(* holds for any number of forms, e-mails and sessions.                    *)
(***************************************************************************)
EXTENDS Accounts, FiniteSetTheorems, TLAPS

-----------------------------------------------------------------------------
(* Sessions: the invariant has a part about each token and a part about    *)
(* each request in progress, what the row can have become since the        *)
(* request read it                                                         *)

\* The row of a token: none before the token is issued or after it is logged out,
\* never longer than a TTL, and never shorter than the renewal threshold while the
\* token is in use.
TokenInv(t) ==
    /\ lastUse[t] = 0 => sessions[t] = 0 /\ t \notin loggedOut
    /\ t \in loggedOut => sessions[t] = 0
    /\ sessions[t] > 0 => sessions[t] <= lastUse[t] + TTL
    /\ t \notin loggedOut \cup cutShort /\ kept[t] > 0 =>
          \/ sessions[t] >= kept[t] + RenewThreshold
          \/ sessions[t] = 0 /\ now >= kept[t] + RenewThreshold

\* A request in progress is at most MaxStall old; while it looks at the row it
\* read, that row is unchanged, was renewed since, or expired and was deleted; and
\* what it is about to write is a TTL from its own look at the clock.
RequestInv(r) ==
    req[r].at # "idle" =>
        /\ req[r].since <= now /\ now <= req[r].since + MaxStall
        /\ req[r].at = "read" /\ req[r].token \notin loggedOut \cup cutShort =>
              \/ sessions[req[r].token] = req[r].seen
              \/ sessions[req[r].token] >= req[r].since + TTL - MaxStall
              \/ sessions[req[r].token] = 0 /\ req[r].seen <= now
        /\ req[r].at = "renewing" =>
              /\ req[r].since + TTL <= req[r].until
              /\ req[r].until <= now + TTL
              /\ req[r].until <= lastUse[req[r].token] + TTL

IInv ==
    /\ TypeOK
    /\ \A t \in Tokens : TokenInv(t)
    /\ \A r \in Requests : RequestInv(r)

\* The invariant holds at the start (no session, no request).
LEMMA IInvInit == Init => IInv
<1> USE SessionsAssumption
<1> QED
  BY SMT DEF Init, IInv, TypeOK, TokenInv, RequestInv, Idle, Busy, Times

\* Issuing a session keeps the invariant: the token has no request yet.
LEMMA CreateKeeps == ASSUME IInv, NEW t \in Tokens, CreateSession(t) PROVE IInv'
<1> USE SessionsAssumption
<1>1. TypeOK'
  BY SMT DEF IInv, TypeOK, CreateSession, Idle, Busy, Times
<1>2. ASSUME NEW u \in Tokens PROVE TokenInv(u)'
  BY SMT DEF IInv, TypeOK, CreateSession, TokenInv, Times
<1>3. ASSUME NEW r \in Requests PROVE RequestInv(r)'
  <2>1. CASE req[r].at = "idle"
    BY <2>1, SMT DEF CreateSession, RequestInv
  <2>2. CASE req[r].at # "idle"
    <3>1. req[r] \in Busy /\ req[r].token # t
      BY <2>2, SMT DEF IInv, TypeOK, CreateSession, Idle
    <3>2. RequestInv(r)
      BY DEF IInv
    <3> QED
      BY <3>1, <3>2, SMT DEF IInv, TypeOK, CreateSession, RequestInv, Busy
  <2> QED
    BY <2>1, <2>2
<1> QED
  BY <1>1, <1>2, <1>3 DEF IInv

\* Comparing the row with the clock keeps the invariant: a token that is accepted
\* without a renewal has a row that is good for longer than the threshold, also
\* when it is no longer the row that was read.
LEMMA CheckKeeps == ASSUME IInv, NEW r \in Requests, Check(r) PROVE IInv'
<1> USE SessionsAssumption
<1>0. PICK t \in Tokens : t = req[r].token
  BY SMT DEF IInv, TypeOK, Check, Idle, Busy
<1>1. req[r] \in Busy /\ req[r].at = "read" /\ RequestInv(r) /\ TokenInv(t)
  BY SMT DEF IInv, TypeOK, Check, Idle, Busy
<1>2. t = req[r].token /\ lastUse[t] > 0 /\ now \in Nat
  BY <1>0, <1>1, SMT DEF IInv, TypeOK, Busy
<1>3. UNCHANGED <<now, sessions, loggedOut, cutShort>>
  BY DEF Check
<1>4. CASE now >= req[r].seen
  <2>1. req' = [req EXCEPT ![r] = [@ EXCEPT !.at = "deleting"]] /\ UNCHANGED <<lastUse, kept>>
    BY <1>4 DEF Check, Becomes
  <2>2. TypeOK'
    BY <1>1, <1>3, <2>1, SMT DEF IInv, TypeOK, Idle, Busy
  <2>3. ASSUME NEW u \in Tokens PROVE TokenInv(u)'
    BY <1>3, <2>1 DEF IInv, TokenInv
  <2>4. ASSUME NEW q \in Requests PROVE RequestInv(q)'
    BY <1>1, <1>3, <2>1, SMT DEF IInv, TypeOK, RequestInv, Busy
  <2> QED
    BY <2>2, <2>3, <2>4 DEF IInv
<1>5. CASE now < req[r].seen /\ now >= req[r].seen - RenewThreshold
  <2>1. /\ req' = [req EXCEPT ![r] = [@ EXCEPT !.at = "renewing", !.until = now + TTL]]
        /\ lastUse' = [lastUse EXCEPT ![t] = now]
        /\ UNCHANGED kept
    BY <1>1, <1>2, <1>5, SMT DEF IInv, TypeOK, Check, Busy, Times
  <2>2. TypeOK'
    <3>1. now + TTL \in Times /\ now \in 0 .. now
      BY SMT DEF IInv, TypeOK, Times
    <3>2. [req[r] EXCEPT !.at = "renewing", !.until = now + TTL] \in Busy
      BY <1>1, <3>1 DEF Busy
    <3>3. req' \in [Requests -> Idle \cup Busy]
      BY <2>1, <3>2 DEF IInv, TypeOK
    <3>4. lastUse' \in [Tokens -> 0 .. now]
      BY <2>1, <3>1 DEF IInv, TypeOK
    <3>5. ASSUME NEW q \in Requests, req'[q].at # "idle" PROVE lastUse'[req'[q].token] > 0
      BY <1>1, <1>2, <2>1, <3>5, SMT DEF IInv, TypeOK, Idle, Busy
    <3> QED
      BY <1>3, <2>1, <3>3, <3>4, <3>5 DEF IInv, TypeOK
  <2>3. ASSUME NEW u \in Tokens PROVE TokenInv(u)'
    BY <1>2, <1>3, <2>1, SMT DEF IInv, TypeOK, TokenInv, Times
  <2>4. ASSUME NEW q \in Requests PROVE RequestInv(q)'
    <3>1. CASE q = r
      BY <1>1, <1>2, <1>3, <2>1, <3>1, SMT DEF IInv, TypeOK, RequestInv, Busy
    <3>2. CASE q # r
      BY <1>2, <1>3, <2>1, <3>2, SMT DEF IInv, TypeOK, RequestInv, Idle, Busy, Times
    <3> QED
      BY <3>1, <3>2
  <2> QED
    BY <2>2, <2>3, <2>4 DEF IInv
<1>6. CASE now < req[r].seen /\ ~(now >= req[r].seen - RenewThreshold)
  <2>1. /\ req' = [req EXCEPT ![r] = [@ EXCEPT !.at = "valid"]]
        /\ lastUse' = [lastUse EXCEPT ![t] = now]
        /\ kept' = [kept EXCEPT ![t] = now]
    BY <1>1, <1>2, <1>6, SMT DEF IInv, TypeOK, Check, Becomes, Busy, Times
  <2>2. TypeOK'
    BY <1>1, <1>2, <1>3, <2>1, SMT DEF IInv, TypeOK, Idle, Busy
  <2>3. TokenInv(t)'
    BY <1>1, <1>2, <1>3, <1>6, <2>1, SMT DEF IInv, TypeOK, TokenInv, RequestInv, Busy, Times
  <2>4. ASSUME NEW u \in Tokens PROVE TokenInv(u)'
    <3>1. CASE u # t
      BY <1>2, <1>3, <2>1, <3>1, SMT DEF IInv, TypeOK, TokenInv
    <3> QED
      BY <2>3, <3>1
  <2>5. ASSUME NEW q \in Requests PROVE RequestInv(q)'
    <3>1. CASE q = r
      BY <1>1, <1>2, <1>3, <2>1, <3>1, SMT DEF IInv, TypeOK, RequestInv, Busy
    <3>2. CASE q # r
      BY <1>2, <1>3, <2>1, <3>2, SMT DEF IInv, TypeOK, RequestInv, Idle, Busy, Times
    <3> QED
      BY <3>1, <3>2
  <2> QED
    BY <2>2, <2>4, <2>5 DEF IInv
<1> QED
  BY <1>1, <1>2, <1>4, <1>5, <1>6, SMT DEF Busy, Times

\* Deleting the row keeps the invariant: a row that was not cut short had expired.
LEMMA DeleteKeeps == ASSUME IInv, NEW r \in Requests, DeleteExpired(r) PROVE IInv'
<1> USE SessionsAssumption
<1>1. req[r] \in Busy /\ req[r].at = "deleting" /\ RequestInv(r) /\ TokenInv(req[r].token)
  BY SMT DEF IInv, TypeOK, DeleteExpired, Ends, Idle, Busy
<1>2. TypeOK'
  BY <1>1, SMT DEF IInv, TypeOK, DeleteExpired, Ends, RequestInv, Idle, Busy, Times
<1>3. ASSUME NEW u \in Tokens PROVE TokenInv(u)'
  BY <1>1, SMT DEF IInv, TypeOK, DeleteExpired, Ends, TokenInv, RequestInv, Busy, Times
<1>4. ASSUME NEW q \in Requests PROVE RequestInv(q)'
  <2>1. req[q] \in Idle \cup Busy /\ RequestInv(q)
    BY DEF IInv, TypeOK
  <2>2. CASE q = r
    BY <1>1, <2>2, SMT DEF IInv, TypeOK, DeleteExpired, Ends, RequestInv, Busy, Times
  <2>3. CASE q # r /\ req[q].at # "idle"
    BY <1>1, <2>1, <2>3, SMT DEF IInv, TypeOK, DeleteExpired, Ends, RequestInv, Idle, Busy, Times
  <2>4. CASE q # r /\ req[q].at = "idle"
    BY <2>4, SMT DEF IInv, TypeOK, DeleteExpired, Ends, RequestInv
  <2> QED
    BY <2>2, <2>3, <2>4
<1> QED
  BY <1>2, <1>3, <1>4 DEF IInv

\* Writing the new expiry keeps the invariant, however many ticks ago it was
\* computed.
LEMMA RenewKeeps == ASSUME IInv, NEW r \in Requests, Renew(r) PROVE IInv'
<1> USE SessionsAssumption
<1>1. req[r] \in Busy /\ req[r].at = "renewing" /\ RequestInv(r) /\ TokenInv(req[r].token)
  BY SMT DEF IInv, TypeOK, Renew, Becomes, Keep, Idle, Busy
<1>2. TypeOK'
  BY <1>1, SMT DEF IInv, TypeOK, Renew, Becomes, Keep, RequestInv, Idle, Busy, Times
<1>3. ASSUME NEW u \in Tokens PROVE TokenInv(u)'
  BY <1>1, SMT DEF IInv, TypeOK, Renew, Becomes, Keep, TokenInv, RequestInv, Busy, Times
<1>4. ASSUME NEW q \in Requests PROVE RequestInv(q)'
  <2>1. req[q] \in Idle \cup Busy /\ RequestInv(q)
    BY DEF IInv, TypeOK
  <2>2. CASE q = r
    BY <1>1, <2>2, SMT DEF IInv, TypeOK, Renew, Becomes, Keep, RequestInv, Busy, Times
  <2>3. CASE q # r /\ req[q].at # "idle"
    BY <1>1, <2>1, <2>3, SMT DEF IInv, TypeOK, Renew, Becomes, Keep, RequestInv, Idle, Busy, Times
  <2>4. CASE q # r /\ req[q].at = "idle"
    BY <2>4, SMT DEF IInv, TypeOK, Renew, Becomes, Keep, RequestInv
  <2> QED
    BY <2>2, <2>3, <2>4
<1> QED
  BY <1>2, <1>3, <1>4 DEF IInv

\* Logging out keeps the invariant.
LEMMA LogoutKeeps == ASSUME IInv, NEW r \in Requests, Logout(r) PROVE IInv'
<1> USE SessionsAssumption
<1>1. req[r] \in Busy /\ req[r].at = "valid" /\ RequestInv(r) /\ TokenInv(req[r].token)
  BY SMT DEF IInv, TypeOK, Logout, Ends, Idle, Busy
<1>2. TypeOK'
  BY <1>1, SMT DEF IInv, TypeOK, Logout, Ends, RequestInv, Idle, Busy, Times
<1>3. ASSUME NEW u \in Tokens PROVE TokenInv(u)'
  BY <1>1, SMT DEF IInv, TypeOK, Logout, Ends, TokenInv, RequestInv, Busy, Times
<1>4. ASSUME NEW q \in Requests PROVE RequestInv(q)'
  <2>1. req[q] \in Idle \cup Busy /\ RequestInv(q)
    BY DEF IInv, TypeOK
  <2>2. CASE q = r
    BY <1>1, <2>2, SMT DEF IInv, TypeOK, Logout, Ends, RequestInv, Busy, Times
  <2>3. CASE q # r /\ req[q].at # "idle"
    BY <1>1, <2>1, <2>3, SMT DEF IInv, TypeOK, Logout, Ends, RequestInv, Idle, Busy, Times
  <2>4. CASE q # r /\ req[q].at = "idle"
    BY <2>4, SMT DEF IInv, TypeOK, Logout, Ends, RequestInv
  <2> QED
    BY <2>2, <2>3, <2>4
<1> QED
  BY <1>2, <1>3, <1>4 DEF IInv

\* Reading a row keeps the invariant: what was just read is still there.
LEMMA SelectKeeps ==
  ASSUME IInv, NEW r \in Requests, NEW t \in Tokens, Select(r, t) PROVE IInv'
<1> USE SessionsAssumption
<1>1. TypeOK'
  BY SMT DEF IInv, TypeOK, TokenInv, Select, Idle, Busy, Times
<1>2. ASSUME NEW u \in Tokens PROVE TokenInv(u)'
  BY SMT DEF IInv, Select, TokenInv
<1>3. ASSUME NEW q \in Requests PROVE RequestInv(q)'
  BY SMT DEF IInv, TypeOK, Select, RequestInv
<1> QED
  BY <1>1, <1>2, <1>3 DEF IInv

\* A request that ends, served or not, keeps the invariant.
LEMMA EndKeeps ==
  ASSUME IInv, NEW r \in Requests, Serve(r) \/ Die(r) PROVE IInv'
<1>1. TypeOK'
  BY SMT DEF IInv, TypeOK, Serve, Die, Ends, Idle, Busy
<1>2. ASSUME NEW u \in Tokens PROVE TokenInv(u)'
  BY SMT DEF IInv, Serve, Die, TokenInv
<1>3. ASSUME NEW q \in Requests PROVE RequestInv(q)'
  BY SMT DEF IInv, TypeOK, Serve, Die, Ends, RequestInv
<1> QED
  BY <1>1, <1>2, <1>3 DEF IInv

\* The clock keeps the invariant: no request gets older than MaxStall.
LEMMA TickKeeps == ASSUME IInv, Tick PROVE IInv'
<1> USE SessionsAssumption
<1>1. TypeOK'
  BY SMT DEF IInv, TypeOK, Tick
<1>2. ASSUME NEW u \in Tokens PROVE TokenInv(u)'
  BY SMT DEF IInv, TypeOK, Tick, TokenInv
<1>3. ASSUME NEW q \in Requests PROVE RequestInv(q)'
  <2>1. req[q] \in Idle \cup Busy /\ RequestInv(q)
    BY DEF IInv, TypeOK
  <2> QED
    BY <2>1, SMT DEF IInv, TypeOK, Tick, RequestInv, Idle, Busy, Times
<1> QED
  BY <1>1, <1>2, <1>3 DEF IInv

\* Every step keeps the invariant.
LEMMA IInvStep == IInv /\ [Next]_vars => IInv'
<1> SUFFICES ASSUME IInv, [Next]_vars PROVE IInv'
  OBVIOUS
<1>1. CASE UNCHANGED vars
  BY <1>1 DEF IInv, TypeOK, TokenInv, RequestInv, vars
<1>2. CASE Next
  BY <1>2, CreateKeeps, SelectKeeps, CheckKeeps, DeleteKeeps, RenewKeeps, LogoutKeeps,
     EndKeeps, TickKeeps DEF Next, RequestNext
<1> QED
  BY <1>1, <1>2

\* Every reachable state satisfies the invariant.
THEOREM Inductive == Spec => []IInv
  BY IInvInit, IInvStep, PTL DEF Spec

\* The state of sessions and requests keeps its shape, whatever overlaps.
THEOREM TypeCorrect == Spec => []TypeOK
<1>1. IInv => TypeOK
  BY DEF IInv
<1> QED
  BY <1>1, Inductive, PTL

\* No interleaving of renewals, deletions and logouts brings a logged-out session
\* back, for any number of requests.
THEOREM LogoutIsFinal == Spec => []LoggedOutStaysDead
<1>1. IInv => LoggedOutStaysDead
  <2> SUFFICES ASSUME IInv, NEW t \in loggedOut PROVE sessions[t] = 0
    BY DEF LoggedOutStaysDead
  <2>1. t \in Tokens
    BY DEF IInv, TypeOK
  <2> QED
    BY <2>1 DEF IInv, TokenInv
<1> QED
  BY <1>1, Inductive, PTL

\* No row outlives the last acceptance of its token by more than a TTL.
THEOREM IdleEnds == Spec => []IdleSessionsEnd
<1>1. IInv => IdleSessionsEnd
  BY DEF IInv, TokenInv, IdleSessionsEnd
<1> QED
  BY <1>1, Inductive, PTL

\* Whoever is served stays signed in for the renewal threshold, provided a request
\* lasts at most half of what the TTL leaves beyond it.
THEOREM RenewalSuffices == Spec => []UseKeepsAlive
<1>1. IInv => UseKeepsAlive
  <2> SUFFICES ASSUME IInv, NEW t \in Tokens \ (loggedOut \cup cutShort),
                      kept[t] > 0, now < kept[t] + RenewThreshold
               PROVE sessions[t] > now
    BY DEF UseKeepsAlive
  <2> QED
    BY SessionsAssumption, SMT DEF IInv, TypeOK, TokenInv, Times
<1> QED
  BY <1>1, Inductive, PTL

-----------------------------------------------------------------------------
(* Accounts *)

\* A step of a form or of a request is a step of Sessions, or none.
LEMMA StepIsSessionStep == [AccountsNext]_<<vars, accountVars>> => [Next]_vars
<1> SUFFICES ASSUME [AccountsNext]_<<vars, accountVars>> PROVE [Next]_vars
  OBVIOUS
<1>1. ASSUME NEW f \in Forms, SignIn(f) PROVE Next
  BY <1>1 DEF SignIn, Next
<1> QED
  BY <1>1 DEF AccountsNext, SignUp, LogIn, CreateAccount, FormDies, Next

\* With the forms that open sessions, the sessions behave as Sessions says.
THEOREM AccountsRunSessions == AccountsSpec => Spec
<1>1. AccountsInit => Init
  BY DEF AccountsInit
<1> QED
  BY <1>1, StepIsSessionStep, PTL DEF AccountsSpec, Spec

-----------------------------------------------------------------------------

\* Every row is in lower case, with an id that was counted out, and neither its
\* e-mail nor its id is another row's.
UsersInv ==
    /\ IsFiniteSet(users)
    /\ \A u \in users :
          /\ u.id \in 1 .. Cardinality(users)
          /\ u.email = [address |-> u.email.address, lower |-> TRUE]
    /\ \A u, v \in users : u.email = v.email \/ u.id = v.id => u = v

\* The one membership of a user or of an organization.
Owns(u, org) == [user |-> u.id, org |-> org, role |-> "owner"]

\* A membership joins a user and an organization that exist, one to one.
MembersInv ==
    /\ \A m \in memberships :
          (\E u \in users : m.user = u.id) /\ m.org \in organizations
    /\ \A u \in users : \E org \in organizations :
          {m \in memberships : m.user = u.id} = {Owns(u, org)}
    /\ \A org \in organizations : \E u \in users :
          {m \in memberships : m.org = org} = {Owns(u, org)}

\* The account a form signs in to, and the account of a session, have the e-mail
\* and the password that were entered.
IsAccount(id, address, password) ==
    \E u \in users : u.id = id /\ u.email.address = address /\ u.password = password

BusyForm == [at : {"creating", "signing in"}, email : Emails, password : Passwords, user : Nat]

FormsInv ==
    /\ form \in [Forms -> {NoForm} \cup BusyForm]
    /\ \A f \in Forms : form[f].at = "signing in" =>
          IsAccount(form[f].user, form[f].email.address, form[f].password)

OwnersInv ==
    /\ owner = [t \in Tokens |-> owner[t]]
    /\ entered = [t \in Tokens |-> entered[t]]
    /\ \A t \in Tokens : sessions[t] > 0 => \E u \in users :
          u.id = owner[t] /\ <<u.email.address, u.password>> = entered[t]

AInv == UsersInv /\ MembersInv /\ FormsInv /\ OwnersInv

\* At the start there is nothing.
LEMMA AInvInit == AccountsInit => AInv
<1> SUFFICES ASSUME AccountsInit PROVE AInv
  OBVIOUS
<1>1. UsersInv
  BY FS_EmptySet DEF AccountsInit, UsersInv
<1>2. MembersInv
  BY DEF AccountsInit, MembersInv
<1>3. FormsInv
  BY DEF AccountsInit, FormsInv, NoForm
<1>4. OwnersInv
  BY DEF AccountsInit, Init, OwnersInv
<1> QED
  BY <1>1, <1>2, <1>3, <1>4 DEF AInv

\* Steps that leave the tables alone keep what is said of them alone.
LEMMA TablesKept ==
    ASSUME UsersInv, MembersInv, UNCHANGED tables
    PROVE  UsersInv' /\ MembersInv'
  BY DEF UsersInv, MembersInv, tables, Owns

\* A transaction that commits adds one account with an organization of its own.
LEMMA CommitKeepsTables ==
    ASSUME UsersInv, MembersInv, NEW user, NEW slug,
           user.id = Cardinality(users) + 1,
           user.email = [address |-> user.email.address, lower |-> TRUE],
           \A u \in users : u.email # user.email,
           slug \notin organizations,
           users' = users \cup {user},
           organizations' = organizations \cup {slug},
           memberships' = memberships \cup {[user |-> user.id, org |-> slug, role |-> "owner"]}
    PROVE  UsersInv' /\ MembersInv'
<1>1. Cardinality(users) \in Nat
  BY FS_CardinalityType DEF UsersInv
<1>2. user \notin users /\ \A u \in users : u.id # user.id
  <2>1. \A n \in Nat : n + 1 \notin 1 .. n
    OBVIOUS
  <2>2. user.id \notin 1 .. Cardinality(users)
    BY <1>1, <2>1
  <2> QED
    BY <2>2, Zenon DEF UsersInv
<1>3. IsFiniteSet(users') /\ Cardinality(users') = Cardinality(users) + 1
  BY <1>2, FS_AddElement DEF UsersInv
<1>4. UsersInv'
  <2>1. \A u \in users' : /\ u.id \in 1 .. Cardinality(users')
                          /\ u.email = [address |-> u.email.address, lower |-> TRUE]
    <3>1. \A n \in Nat : 1 .. n \subseteq 1 .. (n + 1) /\ n + 1 \in 1 .. (n + 1)
      OBVIOUS
    <3>2. /\ 1 .. Cardinality(users) \subseteq 1 .. Cardinality(users')
          /\ user.id \in 1 .. Cardinality(users')
      BY <1>1, <1>3, <3>1
    <3> QED
      BY <3>2, Zenon DEF UsersInv
  <2>2. \A u, v \in users' : u.email = v.email \/ u.id = v.id => u = v
    BY <1>2 DEF UsersInv
  <2> QED
    BY <1>3, <2>1, <2>2 DEF UsersInv
<1>5. MembersInv'
  <2>0. \A m \in memberships : m.user # user.id /\ m.org # slug
    BY <1>2 DEF MembersInv
  <2> DEFINE new == [user |-> user.id, org |-> slug, role |-> "owner"]
  <2>1. \A m \in memberships' : (\E u \in users' : m.user = u.id) /\ m.org \in organizations'
    BY DEF MembersInv
  <2>2. ASSUME NEW u \in users'
        PROVE  \E org \in organizations' : {m \in memberships' : m.user = u.id} = {Owns(u, org)}
    <3>1. CASE u = user
      <4>1. {m \in memberships' : m.user = user.id} = {Owns(user, slug)}
        BY <2>0 DEF Owns
      <4> QED
        BY <3>1, <4>1
    <3>2. CASE u \in users
      <4>1. PICK org \in organizations : {m \in memberships : m.user = u.id} = {Owns(u, org)}
        BY <3>2 DEF MembersInv
      <4>2. {m \in memberships' : m.user = u.id} = {m \in memberships : m.user = u.id}
        BY <1>2, <3>2
      <4> QED
        BY <4>1, <4>2
    <3> QED
      BY <3>1, <3>2
  <2>3. ASSUME NEW org \in organizations'
        PROVE  \E u \in users' : {m \in memberships' : m.org = org} = {Owns(u, org)}
    <3>1. CASE org = slug
      <4>1. {m \in memberships' : m.org = slug} = {Owns(user, slug)}
        BY <2>0 DEF Owns
      <4> QED
        BY <3>1, <4>1
    <3>2. CASE org \in organizations
      <4>1. PICK u \in users : {m \in memberships : m.org = org} = {Owns(u, org)}
        BY <3>2 DEF MembersInv
      <4>2. {m \in memberships' : m.org = org} = {m \in memberships : m.org = org}
        BY <3>2
      <4> QED
        BY <4>1, <4>2
    <3> QED
      BY <3>1, <3>2
  <2>4. (\A u \in users' : \E org \in organizations' :
           {m \in memberships' : m.user = u.id} = {Owns(u, org)})
    BY <2>2
  <2>5. \A org \in organizations' : \E u \in users' :
           {m \in memberships' : m.org = org} = {Owns(u, org)}
    BY <2>3
  <2> QED
    BY <2>1, <2>4, <2>5 DEF MembersInv, Owns
<1> QED
  BY <1>4, <1>5

\* Rows are only added: the account of a form or a session stays what it was.
LEMMA RowsAdded ==
    ASSUME FormsInv, OwnersInv, users \subseteq users',
           sessions' = sessions, owner' = owner, entered' = entered
    PROVE  /\ OwnersInv'
           /\ \A f \in Forms : form'[f] = form[f] /\ form[f].at = "signing in" =>
                 IsAccount(form[f].user, form[f].email.address, form[f].password)'
<1>1. OwnersInv'
  BY DEF OwnersInv
<1>2. ASSUME NEW f \in Forms, form[f].at = "signing in"
      PROVE  \E u \in users' : /\ u.id = form[f].user /\ u.email.address = form[f].email.address
                               /\ u.password = form[f].password
  BY <1>2 DEF FormsInv, IsAccount
<1> QED
  BY <1>1, <1>2 DEF IsAccount

\* Creating an account keeps the invariant, whether it commits or fails.
LEMMA CreateAccountKeeps == ASSUME AInv, NEW f \in Forms, CreateAccount(f) PROVE AInv'
<1> DEFINE user == NewUser(f, ToLowerCase(form[f].email))
<1>1. PICK slug \in Slugs : Commit(f, user, slug)
  BY DEF CreateAccount
<1>2. sessions' = sessions /\ owner' = owner /\ entered' = entered
  BY DEF CreateAccount, vars
<1>3. CASE (\A u \in users : u.email # user.email) /\ slug \notin organizations
  <2>1. /\ users' = users \cup {user}
        /\ organizations' = organizations \cup {slug}
        /\ memberships' = memberships \cup {[user |-> user.id, org |-> slug, role |-> "owner"]}
        /\ form' = [form EXCEPT ![f].at = "signing in", ![f].user = user.id]
    BY <1>1, <1>3 DEF Commit
  <2>2. user.id = Cardinality(users) + 1 /\ user.password = form[f].password
    BY DEF NewUser
  <2>3. form[f] \in BusyForm
    <3>1. form[f] \in {NoForm} \cup BusyForm /\ form[f].at = "creating"
      BY DEF AInv, FormsInv, CreateAccount
    <3> QED
      BY <3>1 DEF NoForm
  <2>4. /\ user.email = [address |-> user.email.address, lower |-> TRUE]
        /\ user.email.address = form[f].email.address
    BY <2>3, AccountsAssumption DEF NewUser, ToLowerCase, BusyForm
  <2>5. UsersInv' /\ MembersInv'
    <3> HIDE DEF user
    <3> QED
      BY <1>3, <2>1, <2>2, <2>4, CommitKeepsTables DEF AInv
  <2>6. OwnersInv'
    BY <1>2, <2>1, RowsAdded DEF AInv
  <2>7. FormsInv'
    <3>1. user.id \in Nat
      BY <2>2, FS_CardinalityType DEF AInv, UsersInv
    <3>2. form' \in [Forms -> {NoForm} \cup BusyForm]
      BY <2>1, <2>3, <3>1 DEF AInv, FormsInv, BusyForm
    <3>3. ASSUME NEW g \in Forms, form'[g].at = "signing in"
          PROVE  IsAccount(form[g].user, form[g].email.address, form[g].password)'
      <4>1. CASE g = f
        <5>1. /\ form'[g].user = user.id /\ form'[g].password = form[f].password
              /\ form'[g].email.address = form[f].email.address
          BY <4>1, <2>1, <2>3 DEF AInv, FormsInv, BusyForm
        <5>2. user \in users'
          BY <2>1
        <5> HIDE DEF user
        <5> QED
          BY <5>1, <5>2, <2>2, <2>4 DEF IsAccount
      <4>2. CASE g # f
        <5>1. form'[g] = form[g]
          BY <4>2, <2>1 DEF AInv, FormsInv
        <5> QED
          BY <5>1, <3>3, <1>2, <2>1, RowsAdded DEF AInv, IsAccount
      <4> QED
        BY <4>1, <4>2
    <3> QED
      BY <3>2, <3>3 DEF FormsInv
  <2> QED
    BY <2>5, <2>6, <2>7 DEF AInv
<1>4. CASE ~((\A u \in users : u.email # user.email) /\ slug \notin organizations)
  <2>1. form' = [form EXCEPT ![f] = NoForm] /\ UNCHANGED tables
    BY <1>1, <1>4 DEF Commit
  <2>2. UsersInv' /\ MembersInv'
    BY <2>1, TablesKept DEF AInv
  <2>3. FormsInv' /\ OwnersInv'
    BY <1>2, <2>1 DEF AInv, FormsInv, OwnersInv, IsAccount, NoForm, tables
  <2> QED
    BY <2>2, <2>3 DEF AInv
<1> QED
  BY <1>3, <1>4

\* The other steps of a form keep the invariant.
LEMMA FormKeeps ==
    ASSUME AInv, NEW f \in Forms, NEW email \in Emails, NEW password \in Passwords,
           SignUp(f, email, password) \/ LogIn(f, email, password) \/ FormDies(f)
    PROVE  AInv'
<1>1. UNCHANGED tables /\ sessions' = sessions /\ owner' = owner /\ entered' = entered
  BY DEF SignUp, LogIn, FormDies, vars
<1>2. UsersInv' /\ MembersInv'
  BY <1>1, TablesKept DEF AInv
<1>3. OwnersInv'
  BY <1>1 DEF AInv, OwnersInv, tables
<1>4. CASE SignUp(f, email, password) \/ FormDies(f)
  <2>1. FormsInv'
    <3>1. PICK new \in {NoForm} \cup [at : {"creating"}, email : Emails, password : Passwords,
                                      user : Nat] : form' = [form EXCEPT ![f] = new]
      BY <1>4 DEF SignUp, FormDies
    <3>2. new \in {NoForm} \cup BusyForm /\ new.at # "signing in"
      <4>1. CASE new = NoForm
        <5>1. NoForm.at = "idle" /\ "idle" # "signing in"
          BY DEF NoForm
        <5> QED
          BY <4>1, <5>1, Zenon
      <4>2. CASE new \in [at : {"creating"}, email : Emails, password : Passwords, user : Nat]
        <5>1. new.at = "creating" /\ new \in BusyForm
          BY <4>2 DEF BusyForm
        <5>2. "creating" # "signing in"
          OBVIOUS
        <5> QED
          BY <5>1, <5>2, Zenon
      <4> QED
        BY <4>1, <4>2, <3>1
    <3>3. form' \in [Forms -> {NoForm} \cup BusyForm]
      BY <3>1, <3>2 DEF AInv, FormsInv
    <3>4. ASSUME NEW g \in Forms, form'[g].at = "signing in"
          PROVE  IsAccount(form[g].user, form[g].email.address, form[g].password)'
      BY <3>1, <3>2, <3>4, <1>1 DEF AInv, FormsInv, IsAccount, tables
    <3> QED
      BY <3>3, <3>4 DEF FormsInv
  <2> QED
    BY <1>2, <1>3, <2>1 DEF AInv
<1>5. CASE LogIn(f, email, password)
  <2>1. PICK u \in FindUserByEmail(email) :
           /\ u.password = password
           /\ form' = [form EXCEPT ![f] = [at |-> "signing in", email |-> email,
                                           password |-> password, user |-> u.id]]
    BY <1>5 DEF LogIn
  <2>2. u \in users /\ u.id \in Nat /\ u.email.address = email.address
    <3>1. u \in users /\ u.email = ToLowerCase(email)
      BY DEF FindUserByEmail
    <3>2. Cardinality(users) \in Nat
      BY FS_CardinalityType DEF AInv, UsersInv
    <3>3. \A n \in Nat : 1 .. n \subseteq Nat
      OBVIOUS
    <3>4. u.id \in 1 .. Cardinality(users)
      BY <3>1 DEF AInv, UsersInv
    <3>5. ToLowerCase(email).address = email.address
      BY AccountsAssumption DEF ToLowerCase
    <3> QED
      BY <3>1, <3>2, <3>3, <3>4, <3>5
  <2>3. FormsInv'
    <3>1. form' \in [Forms -> {NoForm} \cup BusyForm]
      BY <2>1, <2>2 DEF AInv, FormsInv, BusyForm
    <3>2. ASSUME NEW g \in Forms, form'[g].at = "signing in"
          PROVE  IsAccount(form[g].user, form[g].email.address, form[g].password)'
      BY <3>2, <1>1, <2>1, <2>2 DEF AInv, FormsInv, IsAccount, tables
    <3> QED
      BY <3>1, <3>2 DEF FormsInv
  <2> QED
    BY <1>2, <1>3, <2>3 DEF AInv
<1> QED
  BY <1>4, <1>5

\* A session is opened for the form's account.
LEMMA SignInKeeps == ASSUME AInv, TypeOK, NEW f \in Forms, SignIn(f) PROVE AInv'
<1>1. PICK t \in Tokens :
         /\ CreateSession(t)
         /\ owner' = [owner EXCEPT ![t] = form[f].user]
         /\ entered' = [entered EXCEPT ![t] = <<form[f].email.address, form[f].password>>]
  BY DEF SignIn
<1>2. form' = [form EXCEPT ![f] = NoForm] /\ UNCHANGED tables
  BY DEF SignIn
<1>3. UsersInv' /\ MembersInv'
  BY <1>2, TablesKept DEF AInv
<1>4. FormsInv'
  BY <1>2 DEF AInv, FormsInv, IsAccount, NoForm, tables
<1>5. OwnersInv'
  <2>1. \A s \in Tokens \ {t} : sessions'[s] = sessions[s]
    BY <1>1 DEF TypeOK, CreateSession
  <2>2. \E u \in users : u.id = form[f].user
                        /\ <<u.email.address, u.password>> =
                             <<form[f].email.address, form[f].password>>
    BY DEF AInv, FormsInv, IsAccount, SignIn
  <2> QED
    BY <1>1, <1>2, <2>1, <2>2 DEF AInv, OwnersInv, tables
<1> QED
  BY <1>3, <1>4, <1>5 DEF AInv

\* No request creates a row.
LEMMA RequestKeeps == ASSUME AInv, TypeOK, RequestNext, UNCHANGED accountVars PROVE AInv'
<1>1. UNCHANGED <<users, organizations, memberships, form, owner, entered>>
  BY DEF accountVars
<1>2. \A t \in Tokens : sessions'[t] > 0 => sessions[t] > 0
  <2>1. ASSUME NEW r \in Requests, NEW s \in Tokens, Select(r, s) PROVE sessions' = sessions
    BY <2>1 DEF Select
  <2>2. ASSUME NEW r \in Requests, Check(r) \/ Serve(r) \/ Die(r) PROVE sessions' = sessions
    BY <2>2 DEF Check, Serve, Die
  <2>3. ASSUME Tick PROVE sessions' = sessions
    BY <2>3 DEF Tick
  <2>4. ASSUME NEW r \in Requests, DeleteExpired(r) \/ Logout(r) \/ Renew(r), NEW t \in Tokens
        PROVE  sessions'[t] > 0 => sessions[t] > 0
    BY <2>4, SMT DEF TypeOK, DeleteExpired, Logout, Renew, Times
  <2> QED
    BY <2>1, <2>2, <2>3, <2>4 DEF RequestNext
<1> QED
  BY <1>1, <1>2 DEF AInv, UsersInv, MembersInv, FormsInv, OwnersInv, IsAccount, Owns

\* Every step keeps the invariant.
LEMMA AInvStep == AInv /\ TypeOK /\ [AccountsNext]_<<vars, accountVars>> => AInv'
<1> SUFFICES ASSUME AInv, TypeOK, [AccountsNext]_<<vars, accountVars>> PROVE AInv'
  OBVIOUS
<1>1. CASE UNCHANGED <<vars, accountVars>>
  BY <1>1 DEF vars, accountVars, AInv, UsersInv, MembersInv, FormsInv, OwnersInv, IsAccount, Owns
<1>2. ASSUME NEW f \in Forms, CreateAccount(f) \/ SignIn(f) PROVE AInv'
  BY <1>2, CreateAccountKeeps, SignInKeeps
<1>3. ASSUME NEW f \in Forms, NEW email \in Emails, NEW password \in Passwords,
             SignUp(f, email, password) \/ LogIn(f, email, password)
      PROVE  AInv'
  BY <1>3, FormKeeps
<1>4. ASSUME NEW f \in Forms, FormDies(f) PROVE AInv'
  <2>1. form[f] \in BusyForm
    BY <1>4 DEF AInv, FormsInv, FormDies
  <2>2. form[f].email \in Emails /\ form[f].password \in Passwords
    BY <2>1 DEF BusyForm
  <2> QED
    BY <1>4, <2>2, FormKeeps
<1>5. ASSUME RequestNext, UNCHANGED accountVars PROVE AInv'
  BY <1>5, RequestKeeps
<1> QED
  BY <1>1, <1>2, <1>3, <1>4, <1>5 DEF AccountsNext

\* One complete account per address and sessions of whoever entered its password,
\* for any number of sign-ups, logins and requests that overlap or die.
THEOREM AccountsAreComplete == AccountsSpec => []AccountsComplete
<1>1. AInv => AccountsComplete
  <2> SUFFICES ASSUME AInv PROVE AccountsComplete
    OBVIOUS
  <2>1. \A u, v \in users : u.email.address = v.email.address => u = v
    <3> SUFFICES ASSUME NEW u \in users, NEW v \in users,
                        u.email.address = v.email.address
                 PROVE  u = v
      OBVIOUS
    <3>1. u.email = v.email
      BY DEF AInv, UsersInv
    <3> QED
      BY <3>1 DEF AInv, UsersInv
  <2> QED
    BY <2>1 DEF AInv, MembersInv, OwnersInv, Owns, AccountsComplete
<1>2. AccountsSpec => []TypeOK
  BY AccountsRunSessions, TypeCorrect, PTL
<1> QED
  BY <1>1, <1>2, AInvInit, AInvStep, PTL DEF AccountsSpec
=============================================================================
