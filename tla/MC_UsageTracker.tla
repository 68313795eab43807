-------------------------- MODULE MC_UsageTracker --------------------------
(* UsageTracker for TLC: one org, two requests, up to two months. *)
EXTENDS UsageTracker

CONSTANTS acme, r1, r2

OneOrg == {acme}
TwoRequests == {r1, r2}
=============================================================================
