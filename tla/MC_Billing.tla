----------------------------- MODULE MC_Billing ------------------------------
(* Billing for TLC: two plans, so that an org changes plans while payments  *)
(* of the other are under way, or one.                                      *)
EXTENDS Billing, TLC

CONSTANTS starter, growth, o1, o2, n1, ipn, browser, cron

TwoPlans == {starter, growth}
OnePlan == {starter}
TwoOrders == {o1, o2}
OneOrder == {o1}
OneRenewal == {n1}
NoRenewal == {}
TwoCalls == {ipn, browser}
OneCron == {cron}
NoCron == {}

\* Plans, orders and calls are treated alike.
Alike == Permutations(TwoPlans) \cup Permutations(TwoOrders) \cup Permutations(TwoCalls)
=============================================================================
