------------------------------- MODULE Accounts -------------------------------
(***************************************************************************)
(* Sign-up and login (lib/server/auth/account.ts, the auth routes) over the *)
(* session table: the forms that people submit overlap with each other and  *)
(* with the requests of Sessions.  A statement or a transaction is a step,  *)
(* and a form can die between two of them.  An e-mail is an address and     *)
(* whether it is spelled in lower case.                                     *)
(***************************************************************************)
EXTENDS Sessions, FiniteSets

CONSTANTS
    Forms,       \* forms being handled at a time
    Emails,      \* what people type as e-mail: an address, and how it is spelled
    Passwords,   \* passwords of at least eight characters
    Slugs        \* what slugify can return

ASSUME AccountsAssumption ==
    Emails \subseteq [address : {e.address : e \in Emails}, lower : BOOLEAN]

VARIABLES
    users,           \* the table: id, email, password
    organizations,   \* the table, by its unique slug
    memberships,     \* the table: user, org, role
    form,            \* where each form is
    owner,           \* the sessions table: user_id of each token's row, 0 before it
    entered          \* history: address and password that opened each token's session

tables == <<users, organizations, memberships>>
accountVars == <<users, organizations, memberships, form, owner, entered>>

NoForm == [at |-> "idle"]

AccountsInit ==
    /\ Init
    /\ users = {} /\ organizations = {} /\ memberships = {}
    /\ form = [f \in Forms |-> NoForm]
    /\ owner = [t \in Tokens |-> 0]
    /\ entered = [t \in Tokens |-> <<>>]

ToLowerCase(email) == [email EXCEPT !.lower = TRUE]
FindUserByEmail(email) == {u \in users : u.email = ToLowerCase(email)}

\* The form of a valid sign-up whose address is free so far; it goes on to hash
\* the password and to create the account.
SignUp(f, email, password) ==
    /\ form[f] = NoForm
    /\ FindUserByEmail(email) = {}
    /\ form' = [form EXCEPT ![f] = [at |-> "creating", email |-> email,
                                    password |-> password, user |-> 0]]
    /\ UNCHANGED <<tables, owner, entered, vars>>

\* The row the transaction inserts; ids are fresh.
NewUser(f, email) == [id |-> Cardinality(users) + 1, email |-> email,
                      password |-> form[f].password]

\* The transaction of createAccount: it commits when no unique column has its
\* value already, and is rolled back otherwise, which fails the form.
Commit(f, user, slug) ==
    IF (\A u \in users : u.email # user.email) /\ slug \notin organizations
    THEN /\ users' = users \cup {user}
         /\ organizations' = organizations \cup {slug}
         /\ memberships' = memberships \cup {[user |-> user.id, org |-> slug, role |-> "owner"]}
         /\ form' = [form EXCEPT ![f].at = "signing in", ![f].user = user.id]
    ELSE /\ form' = [form EXCEPT ![f] = NoForm]
         /\ UNCHANGED tables

\* Mutant of CreateAccount: the e-mail is stored as it was typed.
CreateAccountAsTyped(f) ==
    /\ form[f].at = "creating"
    /\ \E slug \in Slugs : Commit(f, NewUser(f, form[f].email), slug)
    /\ UNCHANGED <<owner, entered, vars>>

CreateAccount(f) ==
    /\ form[f].at = "creating"
    /\ \E slug \in Slugs : Commit(f, NewUser(f, ToLowerCase(form[f].email)), slug)
    /\ UNCHANGED <<owner, entered, vars>>

\* Login with an account's e-mail and its password; any other changes nothing.
LogIn(f, email, password) ==
    /\ form[f] = NoForm
    /\ \E u \in FindUserByEmail(email) :
          /\ u.password = password
          /\ form' = [form EXCEPT ![f] = [at |-> "signing in", email |-> email,
                                          password |-> password, user |-> u.id]]
    /\ UNCHANGED <<tables, owner, entered, vars>>

\* Either form ends with a session of its user and the redirect to the sites.
SignIn(f) ==
    /\ form[f].at = "signing in"
    /\ \E t \in Tokens :
          /\ CreateSession(t)
          /\ owner' = [owner EXCEPT ![t] = form[f].user]
          /\ entered' = [entered EXCEPT ![t] = <<form[f].email.address, form[f].password>>]
    /\ form' = [form EXCEPT ![f] = NoForm]
    /\ UNCHANGED tables

\* A statement throws or the server stops: the form goes no further.
FormDies(f) ==
    /\ form[f] # NoForm
    /\ form' = [form EXCEPT ![f] = NoForm]
    /\ UNCHANGED <<tables, owner, entered, vars>>

AccountsNext ==
    \/ \E f \in Forms :
          \/ \E email \in Emails, password \in Passwords :
                SignUp(f, email, password) \/ LogIn(f, email, password)
          \/ CreateAccount(f)
          \/ SignIn(f)
          \/ FormDies(f)
    \/ RequestNext /\ UNCHANGED accountVars

AccountsSpec == AccountsInit /\ [][AccountsNext]_<<vars, accountVars>>

-----------------------------------------------------------------------------
(* Property *)

\* Whatever sign-ups and logins overlap or die half-way, an address has at most one
\* account, however it was typed; an account is in exactly one organization, its own,
\* and no organization is without its account (account.ts:42-56); and a session is of
\* the account whose e-mail and password were entered, also for the loser of two
\* sign-ups (signup/+page.server.ts:28-36, login/+page.server.ts:20-35).
AccountsComplete ==
    /\ \A u, v \in users : u.email.address = v.email.address => u = v
    /\ \A u \in users : \E org \in organizations :
          {m \in memberships : m.user = u.id} = {[user |-> u.id, org |-> org, role |-> "owner"]}
    /\ \A org \in organizations : \E u \in users :
          {m \in memberships : m.org = org} = {[user |-> u.id, org |-> org, role |-> "owner"]}
    /\ \A t \in Tokens : sessions[t] > 0 => \E u \in users :
          /\ u.id = owner[t]
          /\ <<u.email.address, u.password>> = entered[t]
=============================================================================
