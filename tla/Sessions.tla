------------------------------- MODULE Sessions -------------------------------
(***************************************************************************)
(* Dashboard sessions (lib/server/auth/session.ts) as the request hook, the *)
(* login page and the logout action use them (hooks.server.ts, login,      *)
(* signup, logout).  Requests with the same token overlap: each statement  *)
(* is a step, and the clock is read after the row.  A token stands for its *)
(* hash, the id of the row.                                                *)
(***************************************************************************)
EXTENDS Integers

CONSTANTS
    Tokens,           \* what generateSessionToken can return
    Requests,         \* requests in progress at a time
    TTL,              \* SESSION_TTL_MS, in ticks
    RenewThreshold,   \* RENEW_THRESHOLD_MS, in ticks
    MaxStall,         \* bound: ticks a request lasts
    MaxTime           \* bound on the clock

ASSUME SessionsAssumption ==
    /\ TTL \in Nat /\ RenewThreshold \in Nat /\ MaxStall \in Nat /\ MaxTime \in Nat \ {0}
    /\ 0 < RenewThreshold
    /\ RenewThreshold + 2 * MaxStall <= TTL

VARIABLES
    now,         \* the clock
    sessions,    \* the table: expires_at of each token's row, 0 for no row
    req,         \* where each request is: token, expiry it read, expiry it will write
    lastUse,     \* history: when each token was last issued or compared with success
    kept,        \* history: the same, counting a renewal only when it is written
    loggedOut,   \* history: tokens that were logged out
    cutShort     \* history: tokens whose renewal crossed the deletion of the row

vars == <<now, sessions, req, lastUse, kept, loggedOut, cutShort>>

Times == 0 .. MaxTime + TTL

\* Positions: after the select, before the delete, before the update, and
\* accepted, with the page's own work to do.
Idle == [at : {"idle"}]
Busy == [at : {"read", "deleting", "renewing", "valid"},
         token : Tokens, seen : Times, until : Times, since : 1 .. MaxTime]

\* The shape of the state; a request holds a token that was issued.
TypeOK ==
    /\ now \in 1 .. MaxTime
    /\ sessions \in [Tokens -> Times]
    /\ req \in [Requests -> Idle \cup Busy]
    /\ lastUse \in [Tokens -> 0 .. now]
    /\ kept \in [Tokens -> 0 .. now]
    /\ loggedOut \subseteq Tokens
    /\ cutShort \subseteq Tokens
    /\ \A r \in Requests : req[r].at # "idle" => lastUse[req[r].token] > 0

Init ==
    /\ now = 1
    /\ sessions = [t \in Tokens |-> 0]
    /\ req = [r \in Requests |-> [at |-> "idle"]]
    /\ lastUse = [t \in Tokens |-> 0]
    /\ kept = [t \in Tokens |-> 0]
    /\ loggedOut = {}
    /\ cutShort = {}

Becomes(r, at) == req' = [req EXCEPT ![r] = [@ EXCEPT !.at = at]]
Keep(t, time) == kept' = [kept EXCEPT ![t] = IF @ < time THEN time ELSE @]
Ends(r) == req' = [req EXCEPT ![r] = [at |-> "idle"]]

\* Login and sign-up: a fresh token gets a row for a whole TTL.
CreateSession(t) ==
    /\ lastUse[t] = 0
    /\ sessions' = [sessions EXCEPT ![t] = now + TTL]
    /\ lastUse' = [lastUse EXCEPT ![t] = now]
    /\ kept' = [kept EXCEPT ![t] = now]
    /\ UNCHANGED <<now, req, loggedOut, cutShort>>

\* The hook selects the row of the cookie's token.  Without a row nobody is
\* signed in and nothing changes.
Select(r, t) ==
    /\ req[r].at = "idle"
    /\ sessions[t] > 0
    /\ req' = [req EXCEPT ![r] = [at |-> "read", token |-> t, seen |-> sessions[t],
                                  until |-> 0, since |-> now]]
    /\ UNCHANGED <<now, sessions, lastUse, kept, loggedOut, cutShort>>

\* Mutant of Check: the time left is added to the renewed session.
CheckAndAdd(r) ==
    /\ req[r].at = "read"
    /\ IF now >= req[r].seen
       THEN Becomes(r, "deleting") /\ UNCHANGED <<lastUse, kept>>
       ELSE /\ lastUse' = [lastUse EXCEPT ![req[r].token] = now]
            /\ IF now >= req[r].seen - RenewThreshold
               THEN req' = [req EXCEPT ![r] = [@ EXCEPT !.at = "renewing",
                                                        !.until = req[r].seen + TTL]]
                    /\ UNCHANGED kept
               ELSE Becomes(r, "valid") /\ kept' = [kept EXCEPT ![req[r].token] = now]
    /\ UNCHANGED <<now, sessions, loggedOut, cutShort>>

\* Mutant of Check: a session is never renewed.
CheckOnly(r) ==
    /\ req[r].at = "read"
    /\ IF now >= req[r].seen
       THEN Becomes(r, "deleting") /\ UNCHANGED <<lastUse, kept>>
       ELSE /\ lastUse' = [lastUse EXCEPT ![req[r].token] = now]
            /\ kept' = [kept EXCEPT ![req[r].token] = now]
            /\ Becomes(r, "valid")
    /\ UNCHANGED <<now, sessions, loggedOut, cutShort>>

\* The row is compared with the clock: expired, near its expiry, or good as it is.
Check(r) ==
    /\ req[r].at = "read"
    /\ IF now >= req[r].seen
       THEN Becomes(r, "deleting") /\ UNCHANGED <<lastUse, kept>>
       ELSE /\ lastUse' = [lastUse EXCEPT ![req[r].token] = now]
            /\ IF now >= req[r].seen - RenewThreshold
               THEN req' = [req EXCEPT ![r] = [@ EXCEPT !.at = "renewing",
                                                        !.until = now + TTL]]
                    /\ UNCHANGED kept
               ELSE Becomes(r, "valid") /\ kept' = [kept EXCEPT ![req[r].token] = now]
    /\ UNCHANGED <<now, sessions, loggedOut, cutShort>>

\* The expired row is deleted, by its id alone: also when it was renewed since.
DeleteExpired(r) ==
    /\ req[r].at = "deleting"
    /\ sessions' = [sessions EXCEPT ![req[r].token] = 0]
    /\ cutShort' = IF sessions[req[r].token] > now
                   THEN cutShort \cup {req[r].token} ELSE cutShort
    /\ Ends(r)
    /\ UNCHANGED <<now, lastUse, kept, loggedOut>>

\* Mutant of Renew: the update inserts the row when there is none.
RenewOrInsert(r) ==
    /\ req[r].at = "renewing"
    /\ sessions' = [sessions EXCEPT ![req[r].token] = req[r].until]
    /\ Keep(req[r].token, req[r].until - TTL)
    /\ cutShort' = IF sessions[req[r].token] = 0
                   THEN cutShort \cup {req[r].token} ELSE cutShort
    /\ Becomes(r, "valid")
    /\ UNCHANGED <<now, lastUse, loggedOut>>

\* The new expiry is written; an update without a row changes nothing.
Renew(r) ==
    /\ req[r].at = "renewing"
    /\ sessions' = [sessions EXCEPT ![req[r].token] = IF @ = 0 THEN 0 ELSE req[r].until]
    /\ Keep(req[r].token, req[r].until - TTL)
    /\ cutShort' = IF sessions[req[r].token] = 0
                   THEN cutShort \cup {req[r].token} ELSE cutShort
    /\ Becomes(r, "valid")
    /\ UNCHANGED <<now, lastUse, loggedOut>>

\* The page is served.
Serve(r) ==
    /\ req[r].at = "valid"
    /\ Ends(r)
    /\ UNCHANGED <<now, sessions, lastUse, kept, loggedOut, cutShort>>

\* The logout action, reached through the hook like any page.
Logout(r) ==
    /\ req[r].at = "valid"
    /\ sessions' = [sessions EXCEPT ![req[r].token] = 0]
    /\ loggedOut' = loggedOut \cup {req[r].token}
    /\ Ends(r)
    /\ UNCHANGED <<now, lastUse, kept, cutShort>>

\* A statement throws or the server stops: the request goes no further.
Die(r) ==
    /\ req[r].at # "idle"
    /\ Ends(r)
    /\ UNCHANGED <<now, sessions, lastUse, kept, loggedOut, cutShort>>

\* Time passes, as far as no request in progress gets too old.
Tick ==
    /\ now < MaxTime
    /\ \A r \in Requests : req[r].at # "idle" => now < req[r].since + MaxStall
    /\ now' = now + 1
    /\ UNCHANGED <<sessions, req, lastUse, kept, loggedOut, cutShort>>

\* A step of a signed-in request, or of the clock.
RequestNext ==
    \/ \E r \in Requests :
          \/ \E t \in Tokens : Select(r, t)
          \/ Check(r)
          \/ DeleteExpired(r)
          \/ Renew(r)
          \/ Serve(r)
          \/ Logout(r)
          \/ Die(r)
    \/ Tick

Next == (\E t \in Tokens : CreateSession(t)) \/ RequestNext

Spec == Init /\ [][Next]_vars

-----------------------------------------------------------------------------
(* Properties *)

\* A token that was logged out is never accepted again: no renewal that was
\* under way brings its row back (session.ts:71-74, session.ts:82-85).
LoggedOutStaysDead == \A t \in loggedOut : sessions[t] = 0

\* A session nobody uses for a TTL is over: however requests overlap, a row never
\* outlives the last moment its token was accepted by more than the TTL
\* (session.ts:37-42, session.ts:71-74).
IdleSessionsEnd == \A t \in Tokens : sessions[t] > 0 => sessions[t] <= lastUse[t] + TTL

\* The sliding renewal works: whoever is served stays signed in for the renewal
\* threshold at least, even when an older request writes an older expiry over a
\* newer one.  Excepted are tokens logged out, and a row deleted by a request that read
\* it as expired while another was renewing it (session.ts:66-74).
UseKeepsAlive ==
    \A t \in Tokens \ (loggedOut \cup cutShort) :
        kept[t] > 0 /\ now < kept[t] + RenewThreshold => sessions[t] > now
=============================================================================
