------------------------------ MODULE MC_Sharing -----------------------------
(* Sites and links for TLC: two domains, two overlapping toggles.          *)
EXTENDS Sharing, TLC

CONSTANTS example, shop, r1, r2

TwoDomains == {example, shop}
TwoRequests == {r1, r2}
\* Domains and requests are interchangeable.
SameNames == Permutations(TwoDomains) \cup Permutations(TwoRequests)
=============================================================================
