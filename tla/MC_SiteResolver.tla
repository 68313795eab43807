-------------------------- MODULE MC_SiteResolver --------------------------
(* SiteResolver for TLC: one domain, since domains share only the clock.    *)
EXTENDS SiteResolver

CONSTANTS shop, r1, r2

OneDomain == {shop}
TwoRequests == {r1, r2}
=============================================================================
