----------------------------- MODULE MC_Analytics -----------------------------
(* Analytics for TLC: a week of three days, a day of two hours.            *)
EXTENDS Analytics, TLC

Columns(path, country) ==
    [pathname |-> path, referrer_source |-> "Direct", country_code |-> country,
     browser |-> "", os |-> "", device |-> "", utm_source |-> "", utm_medium |-> "",
     utm_campaign |-> ""]
Pageview == [site |-> 1, person |-> "p", name |-> "pageview", col |-> Columns("/", "")]
SignUp == [site |-> 1, person |-> "p", name |-> "signup", col |-> Columns("/", "NO")]
Purchase == [site |-> 1, person |-> "q", name |-> "buy", col |-> Columns("/", "SE")]
Elsewhere == [site |-> 2, person |-> "p", name |-> "pageview", col |-> Columns("/", "NO")]
TwoHits == {Pageview, SignUp}
\* One row on the first day of the long window but before it, one of another site, one
\* in both windows.
ThreeStored == <<[hit |-> Pageview, time |-> 4], [hit |-> Elsewhere, time |-> 9],
                 [hit |-> Purchase, time |-> 10]>>
SomeValues == {"", "/", "NO", "SE"}
Spans == ("24h" :> 2) @@ ("30d" :> 6)
OneZone == {1}
OnePanel == {"country"}
OneAddress == {[range |-> "bogus", filters |-> [NoFilters EXCEPT !.page = "/"]]}
LastPoint == {6}
=============================================================================
