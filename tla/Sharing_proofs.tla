----------------------------- MODULE Sharing_proofs ----------------------------
(***************************************************************************)
(* Theorems about Sharing.  The invariant says which row a token belongs   *)
(* to: two holders of one token, rows or toggles, have the same id, and a  *)
(* toggle holding a dead token has the id of a row that is gone.           *)
(***************************************************************************)
EXTENDS Sharing, TLAPS

\* A row is public with a live token or not public.
SiteInv(d) ==
    /\ sites[d].shareToken \notin dead
    /\ sites[d].isPublic => sites[d].shareToken # 0

\* Ids and tokens identify a row.
PairInv(d, e) ==
    d # e => /\ sites[d].id = sites[e].id => sites[d].id = 0
             /\ sites[d].shareToken = sites[e].shareToken => sites[d].shareToken = 0

\* A toggle holds a token of its own row, and a dead one only if that row is gone.
ToggleInv(r) ==
    /\ toggle[r].isPublic => toggle[r].shareToken # 0
    /\ \A d \in Domains :
          /\ toggle[r].shareToken \in dead => sites[d].id # toggle[r].id
          /\ sites[d].shareToken = toggle[r].shareToken /\ toggle[r].shareToken # 0
                => sites[d].id = toggle[r].id

\* Toggles that hold one token are toggles of one row.
TogglesInv(r, q) ==
    toggle[r].shareToken = toggle[q].shareToken /\ toggle[r].shareToken # 0
        => toggle[r].id = toggle[q].id

IInv ==
    /\ TypeOK
    /\ \A d \in Domains : SiteInv(d)
    /\ \A d, e \in Domains : PairInv(d, e)
    /\ \A r \in Requests : ToggleInv(r)
    /\ \A r, q \in Requests : TogglesInv(r, q)

\* The invariant holds of the empty tables.
LEMMA IInvInit == Init => IInv
  BY SharingAssumption, SMT
     DEF Init, IInv, TypeOK, SiteInv, PairInv, ToggleInv, TogglesInv, Row, NoRow, NoToggle,
         SiteIds, ShareTokens

\* A new row keeps the invariant: its id is in no toggle.
LEMMA CreateKeeps ==
  ASSUME IInv, NEW d \in Domains, CreateSite(d) PROVE IInv'
<1> USE SharingAssumption DEF Row, NoRow, NoToggle, SiteIds, ShareTokens
<1>1. TypeOK'
  BY SMT DEF IInv, TypeOK, CreateSite, Exists
<1>2. ASSUME NEW c \in Domains PROVE SiteInv(c)'
  BY SMT DEF IInv, TypeOK, SiteInv, PairInv, ToggleInv, CreateSite, Exists
<1>3. ASSUME NEW c \in Domains, NEW e \in Domains PROVE PairInv(c, e)'
  BY SMT DEF IInv, TypeOK, PairInv, ToggleInv, CreateSite, Exists
<1>4. ASSUME NEW q \in Requests PROVE ToggleInv(q)'
  BY SMT DEF IInv, TypeOK, SiteInv, PairInv, ToggleInv, TogglesInv, CreateSite, Exists
<1>5. ASSUME NEW p \in Requests, NEW q \in Requests PROVE TogglesInv(p, q)'
  BY SMT DEF IInv, TypeOK, ToggleInv, TogglesInv, CreateSite, Exists
<1> QED
  BY <1>1, <1>2, <1>3, <1>4, <1>5 DEF IInv

\* A deletion keeps the invariant: toggles with the token that dies have the id that
\* goes.
LEMMA DeleteKeeps ==
  ASSUME IInv, NEW d \in Domains, DeleteSite(d) PROVE IInv'
<1> USE SharingAssumption DEF Row, NoRow, NoToggle, SiteIds, ShareTokens
<1>1. TypeOK'
  <2>1. dead' \subseteq 1 .. minted
    <3>1. minted \in Nat /\ sites[d].shareToken \in 0 .. minted /\ dead \subseteq 1 .. minted
      BY SMT DEF IInv, TypeOK
    <3>2. {sites[d].shareToken} \ {0} \subseteq 1 .. minted
      BY <3>1, SMT
    <3> QED
      BY <3>1, <3>2 DEF DeleteSite
  <2>2. sites' \in [Domains -> Row \cup {NoRow}]
    BY DEF IInv, TypeOK, DeleteSite
  <2>3. ASSUME NEW c \in Domains PROVE sites'[c].id <= inserted /\ sites'[c].shareToken <= minted
    BY SMT DEF IInv, TypeOK, DeleteSite
  <2> QED
    BY <2>1, <2>2, <2>3 DEF IInv, TypeOK, DeleteSite
<1>2. ASSUME NEW c \in Domains PROVE SiteInv(c)'
  BY SMT DEF IInv, TypeOK, SiteInv, PairInv, ToggleInv, DeleteSite, Exists
<1>3. ASSUME NEW c \in Domains, NEW e \in Domains PROVE PairInv(c, e)'
  BY SMT DEF IInv, TypeOK, PairInv, ToggleInv, DeleteSite, Exists
<1>4. ASSUME NEW q \in Requests PROVE ToggleInv(q)'
  BY SMT DEF IInv, TypeOK, SiteInv, PairInv, ToggleInv, TogglesInv, DeleteSite, Exists
<1>5. ASSUME NEW p \in Requests, NEW q \in Requests PROVE TogglesInv(p, q)'
  BY SMT DEF IInv, TypeOK, ToggleInv, TogglesInv, DeleteSite, Exists
<1> QED
  BY <1>1, <1>2, <1>3, <1>4, <1>5 DEF IInv

\* A rotation keeps the invariant: a token dies only if no toggle holds it.
LEMMA RotateKeeps ==
  ASSUME IInv, NEW d \in Domains, RotateToken(d) PROVE IInv'
<1> USE SharingAssumption DEF Row, NoRow, NoToggle, SiteIds, ShareTokens
<1>1. TypeOK'
  BY SMT DEF IInv, TypeOK, RotateToken, NewToken, Exists
<1>2. ASSUME NEW c \in Domains PROVE SiteInv(c)'
  BY SMT DEF IInv, TypeOK, SiteInv, PairInv, ToggleInv, RotateToken, NewToken, Exists
<1>3. ASSUME NEW c \in Domains, NEW e \in Domains PROVE PairInv(c, e)'
  BY SMT DEF IInv, TypeOK, PairInv, ToggleInv, RotateToken, NewToken, Exists
<1>4. ASSUME NEW q \in Requests PROVE ToggleInv(q)'
  BY SMT DEF IInv, TypeOK, SiteInv, PairInv, ToggleInv, TogglesInv, RotateToken, NewToken, Exists
<1>5. ASSUME NEW p \in Requests, NEW q \in Requests PROVE TogglesInv(p, q)'
  BY SMT DEF IInv, TypeOK, ToggleInv, TogglesInv, RotateToken, NewToken, Exists
<1> QED
  BY <1>1, <1>2, <1>3, <1>4, <1>5 DEF IInv

\* Reading a row keeps the invariant: the toggle holds its token or a new one.
LEMMA ReadKeeps ==
  ASSUME IInv, NEW r \in Requests, NEW d \in Domains, NEW isPublic \in BOOLEAN,
         ReadSite(r, d, isPublic) PROVE IInv'
<1> USE SharingAssumption DEF Row, NoRow, NoToggle, SiteIds, ShareTokens
<1>1. TypeOK'
  BY SMT DEF IInv, TypeOK, ReadSite, NewToken, Exists
<1>2. ASSUME NEW c \in Domains PROVE SiteInv(c)'
  BY SMT DEF IInv, TypeOK, SiteInv, PairInv, ToggleInv, ReadSite, NewToken, Exists
<1>3. ASSUME NEW c \in Domains, NEW e \in Domains PROVE PairInv(c, e)'
  BY SMT DEF IInv, TypeOK, PairInv, ToggleInv, ReadSite, NewToken, Exists
<1>4. ASSUME NEW q \in Requests PROVE ToggleInv(q)'
  BY SMT DEF IInv, TypeOK, SiteInv, PairInv, ToggleInv, TogglesInv, ReadSite, NewToken, Exists
<1>5. ASSUME NEW p \in Requests, NEW q \in Requests PROVE TogglesInv(p, q)'
  BY SMT DEF IInv, TypeOK, ToggleInv, TogglesInv, ReadSite, NewToken, Exists
<1> QED
  BY <1>1, <1>2, <1>3, <1>4, <1>5 DEF IInv

\* Writing the row back keeps the invariant: if it is still there, the token is not
\* dead.
LEMMA WriteKeeps ==
  ASSUME IInv, NEW r \in Requests, WriteSite(r) PROVE IInv'
<1> USE SharingAssumption DEF Row, NoRow, NoToggle, SiteIds, ShareTokens
<1>1. TypeOK'
  BY SMT DEF IInv, TypeOK, WriteSite
<1>2. ASSUME NEW c \in Domains PROVE SiteInv(c)'
  BY SMT DEF IInv, TypeOK, SiteInv, PairInv, ToggleInv, WriteSite
<1>3. ASSUME NEW c \in Domains, NEW e \in Domains PROVE PairInv(c, e)'
  BY SMT DEF IInv, TypeOK, PairInv, ToggleInv, WriteSite
<1>4. ASSUME NEW q \in Requests PROVE ToggleInv(q)'
  BY SMT DEF IInv, TypeOK, SiteInv, PairInv, ToggleInv, TogglesInv, WriteSite
<1>5. ASSUME NEW p \in Requests, NEW q \in Requests PROVE TogglesInv(p, q)'
  BY SMT DEF IInv, TypeOK, ToggleInv, TogglesInv, WriteSite
<1> QED
  BY <1>1, <1>2, <1>3, <1>4, <1>5 DEF IInv

\* A toggle that is given up keeps the invariant.
LEMMA AbortKeeps ==
  ASSUME IInv, NEW r \in Requests, AbortToggle(r) PROVE IInv'
<1> USE SharingAssumption DEF Row, NoRow, NoToggle, SiteIds, ShareTokens
<1>1. TypeOK'
  BY SMT DEF IInv, TypeOK, AbortToggle
<1>2. ASSUME NEW c \in Domains PROVE SiteInv(c)'
  BY SMT DEF IInv, TypeOK, SiteInv, PairInv, ToggleInv, AbortToggle
<1>3. ASSUME NEW c \in Domains, NEW e \in Domains PROVE PairInv(c, e)'
  BY SMT DEF IInv, TypeOK, PairInv, ToggleInv, AbortToggle
<1>4. ASSUME NEW q \in Requests PROVE ToggleInv(q)'
  BY SMT DEF IInv, TypeOK, SiteInv, PairInv, ToggleInv, TogglesInv, AbortToggle
<1>5. ASSUME NEW p \in Requests, NEW q \in Requests PROVE TogglesInv(p, q)'
  BY SMT DEF IInv, TypeOK, ToggleInv, TogglesInv, AbortToggle
<1> QED
  BY <1>1, <1>2, <1>3, <1>4, <1>5 DEF IInv

\* Every step keeps the invariant.
LEMMA IInvStep == IInv /\ [Next]_vars => IInv'
<1> SUFFICES ASSUME IInv, [Next]_vars PROVE IInv'
  OBVIOUS
<1>1. CASE UNCHANGED vars
  BY <1>1 DEF IInv, TypeOK, SiteInv, PairInv, ToggleInv, TogglesInv, vars
<1>2. CASE Next
  BY <1>2, CreateKeeps, DeleteKeeps, RotateKeeps, ReadKeeps, WriteKeeps, AbortKeeps DEF Next
<1> QED
  BY <1>1, <1>2

\* Every reachable state satisfies the invariant.
THEOREM Inductive == Spec => []IInv
  BY IInvInit, IInvStep, PTL DEF Spec

\* Rows and toggles keep their shape, and refer to ids and tokens of the past only.
THEOREM TypeCorrect == Spec => []TypeOK
<1>1. IInv => TypeOK
  BY DEF IInv
<1> QED
  BY <1>1, Inductive, PTL

\* An ended link is dead for good, for any number of domains and toggles.
THEOREM EndingIsFinal == Spec => []EndedLinksStayDead
<1>1. IInv => EndedLinksStayDead
  BY DEF IInv, SiteInv, EndedLinksStayDead, PublicSites
<1> QED
  BY <1>1, Inductive, PTL

\* No overlap of toggles makes a site public without a link.
THEOREM PublicImpliesLink == Spec => []PublicHasLink
<1>1. IInv => PublicHasLink
  BY DEF IInv, SiteInv, PublicHasLink
<1> QED
  BY <1>1, Inductive, PTL

\* Two sites never share a link.
THEOREM LinksAreUnique == Spec => []OneSitePerLink
<1>1. IInv => OneSitePerLink
  BY DEF IInv, PairInv, OneSitePerLink
<1> QED
  BY <1>1, Inductive, PTL
=============================================================================
