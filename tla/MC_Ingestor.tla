----------------------------- MODULE MC_Ingestor ----------------------------
(* Ingestor for TLC: two requests of one org with a limit of one event.     *)
EXTENDS Ingestor, TLC

CONSTANTS acme, r1, r2

OneOrg == {acme}
TwoRequests == {r1, r2}
LimitOne == [o \in OneOrg |-> 1]
=============================================================================
