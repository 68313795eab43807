-------------------------------- MODULE Sharing -------------------------------
(***************************************************************************)
(* Sites and their public links (lib/server/sites.ts) as the dashboard's   *)
(* actions and the share page use them.  Every statement is a step; the    *)
(* toggle reads the row and writes it back in a second statement.          *)
(*                                                                         *)
(* All sites belong to one organization: with another's id each statement  *)
(* matches no row.  A row is in the table under its domain, which is       *)
(* unique; its id is never used again.                                     *)
(***************************************************************************)
EXTENDS Integers

CONSTANTS
    Domains,      \* domains that get registered
    Requests,     \* toggles in progress at a time
    MaxSites,     \* bound: rows ever inserted
    MaxTokens     \* bound: tokens ever minted

ASSUME SharingAssumption == MaxSites \in Nat /\ MaxTokens \in Nat

VARIABLES
    sites,      \* the row of each domain
    inserted,   \* rows inserted so far: the identity column
    minted,     \* tokens minted so far
    toggle,     \* the local variables of each setSitePublic under way
    rotated,    \* history: tokens replaced by a rotation
    dead        \* history: tokens of deleted rows, and of rotations that met no toggle

vars == <<sites, inserted, minted, toggle, rotated, dead>>

\* Token 0 is the null of a row that was never public, id 0 stands for no row.
SiteIds == 1 .. MaxSites
ShareTokens == 0 .. MaxTokens
Row == [id : SiteIds, isPublic : BOOLEAN, shareToken : ShareTokens]
NoRow == [id |-> 0, isPublic |-> FALSE, shareToken |-> 0]
NoToggle == [id |-> 0, isPublic |-> FALSE, shareToken |-> 0]

\* The shape of the state; ids and tokens come from the past.
TypeOK ==
    /\ sites \in [Domains -> Row \cup {NoRow}]
    /\ inserted \in 0 .. MaxSites
    /\ minted \in ShareTokens
    /\ toggle \in [Requests -> Row \cup {NoToggle}]
    /\ rotated \subseteq 1 .. minted
    /\ dead \subseteq 1 .. minted
    /\ \A d \in Domains : sites[d].id <= inserted /\ sites[d].shareToken <= minted
    /\ \A r \in Requests : toggle[r].id <= inserted /\ toggle[r].shareToken <= minted

Init ==
    /\ sites = [d \in Domains |-> NoRow]
    /\ inserted = 0
    /\ minted = 0
    /\ toggle = [r \in Requests |-> NoToggle]
    /\ rotated = {}
    /\ dead = {}

Exists(d) == sites[d].id > 0

\* Mutant of NewToken: the token is made of nothing but the site.
SameToken == 1

\* Sixteen random bytes: a token never seen before.
NewToken == minted + 1

\* Registering a domain; a second row for it is refused by the constraint.
CreateSite(d) ==
    /\ ~Exists(d)
    /\ inserted < MaxSites
    /\ inserted' = inserted + 1
    /\ sites' = [sites EXCEPT ![d] = [id |-> inserted + 1, isPublic |-> FALSE,
                                      shareToken |-> 0]]
    /\ UNCHANGED <<minted, toggle, rotated, dead>>

\* Mutant of DeleteSite: the id is free for the next row.
DeleteAndReuseId(d) ==
    /\ Exists(d)
    /\ sites' = [sites EXCEPT ![d] = NoRow]
    /\ inserted' = sites[d].id - 1
    /\ dead' = dead \cup ({sites[d].shareToken} \ {0})
    /\ UNCHANGED <<minted, toggle, rotated>>

\* Deleting a site ends its link for good.
DeleteSite(d) ==
    /\ Exists(d)
    /\ sites' = [sites EXCEPT ![d] = NoRow]
    /\ dead' = dead \cup ({sites[d].shareToken} \ {0})
    /\ UNCHANGED <<inserted, minted, toggle, rotated>>

\* Mutant of ReadSite: enabling relies on a token being there.
ReadAndKeep(r, d, isPublic) ==
    /\ toggle[r] = NoToggle
    /\ Exists(d)
    /\ toggle' = [toggle EXCEPT ![r] = [id |-> sites[d].id, isPublic |-> isPublic,
                                        shareToken |-> sites[d].shareToken]]
    /\ UNCHANGED <<sites, inserted, minted, rotated, dead>>

\* setSitePublic reads the row and decides on the token, a new one if it enables a
\* site that has none.
ReadSite(r, d, isPublic) ==
    LET mint == isPublic /\ sites[d].shareToken = 0 IN
    /\ toggle[r] = NoToggle
    /\ Exists(d)
    /\ mint => minted < MaxTokens
    /\ toggle' = [toggle EXCEPT
          ![r] = [id |-> sites[d].id, isPublic |-> isPublic,
                  shareToken |-> IF mint THEN NewToken ELSE sites[d].shareToken]]
    /\ minted' = IF mint THEN NewToken ELSE minted
    /\ UNCHANGED <<sites, inserted, rotated, dead>>

\* ... and writes both columns of the row with that id, which may have been changed
\* or deleted since.
WriteSite(r) ==
    /\ toggle[r] # NoToggle
    /\ sites' = [d \in Domains |->
          IF sites[d].id = toggle[r].id THEN toggle[r] ELSE sites[d]]
    /\ toggle' = [toggle EXCEPT ![r] = NoToggle]
    /\ UNCHANGED <<inserted, minted, rotated, dead>>

\* The request ends between its two statements.
AbortToggle(r) ==
    /\ toggle[r] # NoToggle
    /\ toggle' = [toggle EXCEPT ![r] = NoToggle]
    /\ UNCHANGED <<sites, inserted, minted, rotated, dead>>

\* regenerateShareToken: one statement, whether the site is public or not.
RotateToken(d) ==
    /\ Exists(d)
    /\ minted < MaxTokens
    /\ minted' = NewToken
    /\ sites' = [sites EXCEPT ![d].shareToken = NewToken]
    /\ rotated' = rotated \cup ({sites[d].shareToken} \ {0})
    /\ dead' = dead \cup
          {t \in {sites[d].shareToken} \ {0} : \A r \in Requests : toggle[r].shareToken # t}
    /\ UNCHANGED <<inserted, toggle>>

\* getPublicSiteByToken: what the link with token t shows.
PublicSites(t) == {d \in Domains : Exists(d) /\ sites[d].shareToken = t /\ sites[d].isPublic}

Next ==
    \/ \E d \in Domains : CreateSite(d) \/ DeleteSite(d) \/ RotateToken(d)
    \/ \E r \in Requests :
          \/ \E d \in Domains, isPublic \in BOOLEAN : ReadSite(r, d, isPublic)
          \/ WriteSite(r)
          \/ AbortToggle(r)

Spec == Init /\ [][Next]_vars

-----------------------------------------------------------------------------
(* Properties *)

\* A link that was ended, by deleting its site or by a rotation that no toggle
\* overlapped, never shows anything again, not even after the domain is registered
\* anew or a toggle of the old site writes late (sites.ts:42-73).
EndedLinksStayDead == \A t \in dead : PublicSites(t) = {}

\* A public site has a link: whatever toggles and rotations overlap, the flag is
\* never set on a row without a token (sites.ts:57-65).
PublicHasLink == \A d \in Domains : sites[d].isPublic => sites[d].shareToken # 0

\* A link leads to one site, so the limit of one row cuts nothing off and the
\* unique constraint never refuses a token (sites.ts:75-83, schema sites.ts:20).
OneSitePerLink ==
    \A d, e \in Domains : sites[d].shareToken = sites[e].shareToken /\ d # e
        => sites[d].shareToken = 0

\* "Rotate the share token, invalidating any previously shared link" (sites.ts:67):
\* no token that was rotated away opens a site.
RotationIsFinal == \A t \in rotated : PublicSites(t) = {}
=============================================================================
