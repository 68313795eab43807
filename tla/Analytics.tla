------------------------------- MODULE Analytics -------------------------------
(***************************************************************************)
(* The statistics pages: the events table with its daily rollup, the       *)
(* queries behind one dashboard, which ClickHouse answers one by one while *)
(* rows keep arriving, and the two pages that show it, the owner's with    *)
(* filters and the public one without.  Time is in ticks, the seconds of   *)
(* the table's timestamps.  uniq() is taken to count exactly.              *)
(***************************************************************************)
EXTENDS Integers, Sequences, FiniteSets, FiniteSetsExt, Functions

CONSTANTS
    Hits,         \* what visitors do: site, person, name and the columns stored for it
    Site,         \* the site on show
    Values,       \* values of the columns
    Hour, Day,    \* in ticks
    Span,         \* preset |-> length of its window, in ticks
    Zones,        \* distances of a site's timezone from UTC, in ticks
    Panels,       \* the panels of the page
    PanelLimit,   \* rows of a panel
    Addresses,    \* queries a visitor may enter by hand
    Pointed,      \* bound: the points of the chart the mouse stops at
    Stored,       \* the rows stored before: their hits and times, in order
    Start,        \* time of the first request
    MaxTime, MaxRows, MaxLoads   \* bounds

NoFilters == [key \in {"page", "source", "country", "device", "browser", "os",
                       "utm_source", "utm_medium", "utm_campaign"} |-> ""]
None == [none |-> TRUE]

ASSUME AnalyticsAssumption ==
    /\ {Hour, Day} \subseteq Nat \ {0} /\ Day % Hour = 0
    /\ "30d" \in DOMAIN Span /\ \A preset \in DOMAIN Span : Span[preset] \in Nat
    /\ Zones \subseteq Int /\ Pointed \subseteq Nat
    /\ Panels \subseteq {"page", "source", "country", "browser", "os", "device"}
    /\ PanelLimit \in Nat
    /\ \A h \in Hits : DOMAIN h = {"site", "person", "name", "col"}
    /\ "" \in Values
    /\ \A url \in Addresses :
          /\ url = [range |-> url.range, filters |-> url.filters]
          /\ url.filters \in [DOMAIN NoFilters -> Values]
    /\ DOMAIN Stored = 1 .. Len(Stored) /\ Len(Stored) \in 0 .. MaxRows
    /\ \A i \in DOMAIN Stored : Stored[i].time \in Int
    /\ Start \in Nat /\ MaxTime \in Nat /\ Start <= MaxTime
    /\ MaxRows \in Nat /\ MaxLoads \in Nat

VARIABLES
    now,
    viewer,     \* "owner" or "public"
    zone,       \* sites.timezone, as its distance from UTC
    rows,       \* the events table, in the order of arrival
    rollup,     \* events_daily, and how many of the rows its view has processed
    page,       \* the page on screen: its address, what it shows, the chart's hover
    load,       \* the request on its way, or None
    loads       \* requests so far

vars == <<now, viewer, zone, rows, rollup, page, load, loads>>

-----------------------------------------------------------------------------
(* Rows *)

\* The visitor is a hash of the daily salt, and is the session too.
RowOf(hit, t) ==
    [site |-> hit.site, name |-> hit.name, col |-> hit.col, time |-> t,
     visitor |-> <<hit.person, t \div Day>>]

\* Function f with v at k.
Put(f, k, v) == [x \in DOMAIN f \cup {k} |-> IF x = k THEN v ELSE f[x]]

NoDay == [pageviews |-> 0, visitors |-> {}]
DayOf(days, site, d) == IF <<site, d>> \in DOMAIN days THEN days[<<site, d>>] ELSE NoDay

\* events_daily_mv, for one row: sums add up, visitor states merge.
Merge(days, r) ==
    LET d == r.time \div Day
        old == DayOf(days, r.site, d) IN
    Put(days, <<r.site, d>>,
        [pageviews |-> old.pageviews + (IF r.name = "pageview" THEN 1 ELSE 0),
         visitors |-> old.visitors \cup {r.visitor}])

\* events_daily when the view has processed the rows rs.
Rolled(rs) ==
    [key \in {<<rs[i].site, rs[i].time \div Day>> : i \in DOMAIN rs} |->
        LET I == {i \in DOMAIN rs : <<rs[i].site, rs[i].time \div Day>> = key} IN
        [pageviews |-> Cardinality({i \in I : rs[i].name = "pageview"}),
         visitors |-> {rs[i].visitor : i \in I}]]

-----------------------------------------------------------------------------
(* Queries, on the rows rs and a scope *)

FilterColumns ==
    [page |-> "pathname", source |-> "referrer_source", country |-> "country_code",
     device |-> "device", browser |-> "browser", os |-> "os", utm_source |-> "utm_source",
     utm_medium |-> "utm_medium", utm_campaign |-> "utm_campaign"]
BreakdownColumns ==
    [page |-> "pathname", source |-> "referrer_source", country |-> "country_code",
     browser |-> "browser", os |-> "os", device |-> "device"]

\* A window ends at the moment of the request, a day's first and last included in part.
ResolveRange(preset, t) == [from |-> t - Span[preset], to |-> t]
PreviousRange(range) == [from |-> 2 * range.from - range.to, to |-> range.from]

\* The rows buildWhere's clause selects.
BuildWhere(rs, scope) ==
    {i \in DOMAIN rs :
        /\ rs[i].site = Site
        /\ rs[i].time >= scope.range.from
        /\ rs[i].time < scope.range.to
        /\ \A key \in DOMAIN FilterColumns :
              scope.filters[key] \in {"", rs[i].col[FilterColumns[key]]}}

Visitors(rs, I) == Cardinality({rs[i].visitor : i \in I})
Pageviews(rs, I) == Cardinality({i \in I : rs[i].name = "pageview"})
Count(rs, I) == [visitors |-> Visitors(rs, I), pageviews |-> Pageviews(rs, I)]

\* The second query of getTotals: bounces and durations of the sessions.
Engagement(rs, I) ==
    LET sessions == {rs[i].visitor : i \in I}
        Of(s) == {i \in I : rs[i].visitor = s}
        Times(s) == {rs[i].time : i \in Of(s)} IN
    [sessions |-> Cardinality(sessions),
     bounced |-> Cardinality({s \in sessions : Pageviews(rs, Of(s)) = 1}),
     duration |-> MapThenSumSet(LAMBDA s : Max(Times(s)) - Min(Times(s)), sessions)]

\* bounceRate stays a fraction; the average duration is rounded.
Totals(top, eng) ==
    [visitors |-> top.visitors, pageviews |-> top.pageviews,
     bounceRate |-> IF eng.sessions > 0 THEN <<eng.bounced, eng.sessions>> ELSE <<0, 1>>,
     avgDuration |-> IF eng.sessions = 0 THEN 0
                     ELSE (2 * eng.duration + eng.sessions) \div (2 * eng.sessions)]
EmptyTotals == Totals([visitors |-> 0, pageviews |-> 0],
                      [sessions |-> 0, bounced |-> 0, duration |-> 0])

HasActiveFilters(scope) == scope.filters # NoFilters
Hourly(scope) == scope.range.to - scope.range.from <= 2 * Day
FromRollup(scope) == ~Hourly(scope) /\ ~HasActiveFilters(scope)

\* Mutant of RollupSeries: the filled days end before today, and so do the dates read.
RollupEndsYesterday(days, scope) ==
    [d \in scope.range.from \div Day .. (scope.range.to \div Day) - 1 |->
        [visitors |-> Cardinality(DayOf(days, Site, d).visitors),
         pageviews |-> DayOf(days, Site, d).pageviews]]

\* getTimeseriesFromRollup: whole UTC days, the one the window starts in included.
RollupSeries(days, scope) ==
    [d \in scope.range.from \div Day .. scope.range.to \div Day |->
        [visitors |-> Cardinality(DayOf(days, Site, d).visitors),
         pageviews |-> DayOf(days, Site, d).pageviews]]

\* getTimeseries on the raw rows: hours or days of the site's timezone.  WITH FILL adds
\* the empty buckets up to the last one, which is there only when a row is in it.
RawSeries(rs, scope) ==
    LET I == BuildWhere(rs, scope)
        Bucket(t) == (t + scope.zone) \div (IF Hourly(scope) THEN Hour ELSE Day)
        filled == Bucket(scope.range.from) .. Bucket(scope.range.to) - 1 IN
    [b \in filled \cup {Bucket(rs[i].time) : i \in I} |->
        Count(rs, {i \in I : Bucket(rs[i].time) = b})]

\* ORDER BY figure DESC LIMIT: the order of equals is open.
Top(groups, figure) ==
    {S \in SUBSET groups :
        /\ Cardinality(S) = IF Cardinality(groups) < PanelLimit THEN Cardinality(groups)
                            ELSE PanelLimit
        /\ \A x \in S, y \in groups \ S : x[figure] >= y[figure]}

\* Mutant of Breakdown: rows without a value form a group of their own.
BreakdownWithEmpty(rs, scope, dim) ==
    LET I == BuildWhere(rs, scope)
        label(i) == rs[i].col[BreakdownColumns[dim]]
        Group(l) == [label |-> l, visitors |-> Visitors(rs, {i \in I : label(i) = l}),
                     pageviews |-> Pageviews(rs, {i \in I : label(i) = l})] IN
    Top({Group(l) : l \in {label(i) : i \in I}}, "visitors")

\* getBreakdown: the possible answers.
Breakdown(rs, scope, dim) ==
    LET label(i) == rs[i].col[BreakdownColumns[dim]]
        I == {i \in BuildWhere(rs, scope) : label(i) # ""}
        Group(l) == [label |-> l, visitors |-> Visitors(rs, {i \in I : label(i) = l}),
                     pageviews |-> Pageviews(rs, {i \in I : label(i) = l})] IN
    Top({Group(l) : l \in {label(i) : i \in I}}, "visitors")

\* Mutant of CustomEvents: the limit is left out.
CustomEventsAll(rs, scope) ==
    LET I == {i \in BuildWhere(rs, scope) : rs[i].name # "pageview"} IN
    {{[label |-> l, count |-> Cardinality({i \in I : rs[i].name = l}),
       visitors |-> Visitors(rs, {i \in I : rs[i].name = l})] : l \in {rs[i].name : i \in I}}}

\* getCustomEvents: the possible answers.
CustomEvents(rs, scope) ==
    LET I == {i \in BuildWhere(rs, scope) : rs[i].name # "pageview"}
        Named(l) == {i \in I : rs[i].name = l}
        Group(l) == [label |-> l, count |-> Cardinality(Named(l)),
                     visitors |-> Visitors(rs, Named(l))] IN
    Top({Group(l) : l \in {rs[i].name : i \in I}}, "count")

-----------------------------------------------------------------------------
(* One request: getDashboard sends its queries at once *)

Queries == {"top", "engagement", "previous top", "previous engagement", "series", "events"}
           \cup Panels
\* The queries getTotals sends only when the one before has been answered.
Before == [q \in {"engagement", "previous engagement"} |->
              IF q = "engagement" THEN "top" ELSE "previous top"]
Previous(scope) == [scope EXCEPT !.range = PreviousRange(@)]

\* The possible answers to query q.
Answers(q, s) ==
    CASE q = "top" -> {Count(rows, BuildWhere(rows, s))}
      [] q = "engagement" -> {Engagement(rows, BuildWhere(rows, s))}
      [] q = "previous top" -> {Count(rows, BuildWhere(rows, Previous(s)))}
      [] q = "previous engagement" -> {Engagement(rows, BuildWhere(rows, Previous(s)))}
      [] q = "series" -> {IF FromRollup(s) THEN RollupSeries(rollup.days, s)
                          ELSE RawSeries(rows, s)}
      [] q = "events" -> CustomEvents(rows, s)
      [] OTHER -> Breakdown(rows, s, q)

\* History, for the queries the properties compare: the rows the answer to q can count.
\* The view may not have processed the last one.
Compared == {"top", "series"} \cup Panels
Seen(q, s) == IF q = "series" /\ FromRollup(s) THEN rollup.done ELSE Len(rows)

\* load of the two pages: an unknown preset is the default, a filter needs a value, and
\* the public page has none.
ScopeOf(url) ==
    [preset |-> IF url.range \in DOMAIN Span THEN url.range ELSE "30d",
     range |-> ResolveRange(IF url.range \in DOMAIN Span THEN url.range ELSE "30d", now),
     filters |-> IF viewer = "owner" THEN url.filters ELSE NoFilters,
     zone |-> zone]

\* A newer request replaces the one on its way.
Request(url) ==
    /\ loads < MaxLoads
    /\ loads' = loads + 1
    /\ load' = [url |-> url, scope |-> ScopeOf(url), got |-> <<>>, seen |-> <<>>]
    /\ UNCHANGED <<now, viewer, zone, rows, rollup>>

Answer(q) ==
    /\ load # None
    /\ q \in Queries \ DOMAIN load.got
    /\ q \in DOMAIN Before => Before[q] \in DOMAIN load.got
    /\ \E a \in Answers(q, load.scope) :
          load' = [load EXCEPT
              !.got = Put(@, q, a),
              !.seen = IF q \in Compared THEN Put(@, q, Seen(q, load.scope)) ELSE @]
    /\ UNCHANGED <<now, viewer, zone, rows, rollup, page, loads>>

\* The page takes the answer.  The chart starts afresh when range or filters differ.
Show(data) ==
    /\ load' = None
    /\ page' = [url |-> load.url, data |-> data,
                hover |-> IF /\ page.data # None
                             /\ page.data.scope.preset = data.scope.preset
                             /\ page.data.scope.filters = data.scope.filters
                          THEN page.hover ELSE -1]
    /\ UNCHANGED <<now, viewer, zone, rows, rollup, loads>>

\* All the answers are there: the payload is assembled.
Assemble ==
    /\ load # None
    /\ DOMAIN load.got = Queries
    /\ Show([scope |-> load.scope, seen |-> load.seen,
             totals |-> Totals(load.got["top"], load.got["engagement"]),
             previous |-> Totals(load.got["previous top"], load.got["previous engagement"]),
             series |-> load.got["series"], events |-> load.got["events"],
             breakdowns |-> [p \in Panels |-> load.got[p]]])

\* A query fails: the page shows an empty dashboard.
QueryFails ==
    /\ load # None
    /\ DOMAIN load.got # Queries
    /\ Show([scope |-> load.scope, seen |-> [q \in Compared |-> 0],
             totals |-> EmptyTotals, previous |-> EmptyTotals,
             series |-> <<>>, events |-> {}, breakdowns |-> [p \in Panels |-> {}]])

-----------------------------------------------------------------------------
(* The pages *)

BlankPage == [url |-> [range |-> "", filters |-> NoFilters], data |-> None, hover |-> -1]

\* An address is entered by hand: the browser starts with an empty page.
Open(url) ==
    /\ page' = BlankPage
    /\ Request(url)

\* goto(): the page on screen, and its address, stay until the answer is there.
Goto(url) ==
    /\ page.data # None
    /\ Request(url)
    /\ UNCHANGED page

\* navigate(): the new parameters go into those of the address on screen.
With(url, key, value) ==
    IF key = "range" THEN [url EXCEPT !.range = value] ELSE [url EXCEPT !.filters[key] = value]

PickRange(preset) == Goto(With(page.url, "range", preset))
ActiveFilters == {key \in DOMAIN NoFilters : page.data.scope.filters[key] # ""}

Select(dim, label) ==
    /\ viewer = "owner" /\ page.data # None
    /\ \E g \in page.data.breakdowns[dim] : g.label = label
    /\ Goto(With(page.url, dim, label))

RemoveFilter(key) ==
    /\ page.data # None
    /\ key \in ActiveFilters
    /\ Goto(With(page.url, key, ""))

ClearFilters ==
    /\ page.data # None
    /\ ActiveFilters # {}
    /\ Goto([page.url EXCEPT !.filters =
                [key \in DOMAIN @ |-> IF key \in ActiveFilters THEN "" ELSE @[key]]])

\* The mouse over the chart: the index of the nearest point, 0 when there is at most one.
Hover ==
    /\ page.data # None
    /\ LET points == Cardinality(DOMAIN page.data.series) IN
       \E i \in IF points <= 1 THEN {0} ELSE Pointed \cap 0 .. points - 1 :
           page' = [page EXCEPT !.hover = i]
    /\ UNCHANGED <<now, viewer, zone, rows, rollup, load, loads>>

Leave ==
    /\ page.hover >= 0
    /\ page' = [page EXCEPT !.hover = -1]
    /\ UNCHANGED <<now, viewer, zone, rows, rollup, load, loads>>

\* A card's change against the previous window, as a fraction; none without one.
Delta(value, previous) == IF previous > 0 THEN <<value - previous, previous>> ELSE None
Cards ==
    LET t == page.data.totals
        p == page.data.previous IN
    [visitors |-> Delta(t.visitors, p.visitors), pageviews |-> Delta(t.pageviews, p.pageviews),
     duration |-> Delta(t.avgDuration, p.avgDuration)]

-----------------------------------------------------------------------------
(* The database and the clock *)

\* A batch with a row goes into the table; the view's part of it follows.
Insert(hit, t) ==
    /\ Len(rows) < MaxRows
    /\ rollup.done = Len(rows)
    /\ rows' = Append(rows, RowOf(hit, t))
    /\ UNCHANGED <<now, viewer, zone, rollup, page, load, loads>>

UpdateView ==
    /\ rollup.done < Len(rows)
    /\ rollup' = [done |-> rollup.done + 1, days |-> Merge(rollup.days, rows[rollup.done + 1])]
    /\ UNCHANGED <<now, viewer, zone, rows, page, load, loads>>

Tick ==
    /\ now < MaxTime
    /\ now' = now + 1
    /\ UNCHANGED <<viewer, zone, rows, rollup, page, load, loads>>

Init ==
    /\ now = Start
    /\ viewer \in {"owner", "public"}
    /\ zone \in Zones
    /\ rows = [i \in DOMAIN Stored |-> RowOf(Stored[i].hit, Stored[i].time)]
    /\ rollup = [done |-> Len(rows), days |-> Rolled(rows)]
    /\ page = BlankPage
    /\ load = None
    /\ loads = 0

Next ==
    \/ \E url \in Addresses : Open(url)
    \/ \E preset \in DOMAIN Span : PickRange(preset)
    \/ \E dim \in Panels, label \in Values : Select(dim, label)
    \/ \E key \in DOMAIN NoFilters : RemoveFilter(key)
    \/ ClearFilters
    \/ \E q \in Queries : Answer(q)
    \/ Assemble
    \/ QueryFails
    \/ Hover
    \/ Leave
    \/ \E hit \in Hits, t \in {now - 1, now} : Insert(hit, t)
    \/ UpdateView
    \/ Tick

Spec == Init /\ [][Next]_vars

-----------------------------------------------------------------------------
(* Properties *)

\* The shape of the state, and of what the page shows: no panel is longer than its
\* limit, no card divides by an empty window.
TypeOK ==
    /\ now \in Start .. MaxTime /\ loads \in 0 .. MaxLoads
    /\ Len(rows) <= MaxRows /\ rollup.done \in {Len(rows) - 1, Len(rows)}
    /\ page.hover \in Int
    /\ page.data # None =>
          /\ page.data.scope.preset \in DOMAIN Span
          /\ DOMAIN page.data.breakdowns = Panels
          /\ Cardinality(page.data.events) <= PanelLimit
          /\ \A p \in Panels : Cardinality(page.data.breakdowns[p]) <= PanelLimit
          /\ \A c \in DOMAIN Cards : Cards[c] = None \/ Cards[c][2] > 0

Total(series, figure) == SumFunction([b \in DOMAIN series |-> series[b][figure]])

\* The chart and the cards of one page are answered by different queries, at different
\* moments and for a long window from different tables; still they add up.  The counts of
\* the chart are those of the cards, save for the rows that came between the two answers
\* and, in the rollup's whole days, the rows of those days outside the window; only
\* a visitor who is there in two buckets of a raw series counts in both, while in the
\* rollup nobody does, because identities change with its days (queries.ts:61-84,
\* queries.ts:98-107, index.ts:33-39, salt.go:26-30).
SeriesAddsUp ==
    page.data # None =>
        LET d == page.data
            came == d.seen["series"] - d.seen["top"]
            outside == Cardinality({i \in 1 .. d.seen["series"] :
                          /\ rows[i].site = Site
                          /\ rows[i].time \div Day \in DOMAIN d.series
                          /\ rows[i].time \notin d.scope.range.from .. d.scope.range.to - 1})
            slack == IF FromRollup(d.scope) THEN outside ELSE 0
            more == IF came > 0 THEN came ELSE 0
            fewer == IF came < 0 THEN -came ELSE 0
            shown == [f \in {"visitors", "pageviews"} |-> Total(d.series, f)] IN
        /\ \A f \in {"visitors", "pageviews"} : shown[f] >= d.totals[f] - fewer
        /\ shown["pageviews"] <= d.totals.pageviews + more + slack
        /\ FromRollup(d.scope) => shown["visitors"] <= d.totals.visitors + more + slack

\* A click on a row of a panel asks for just that row: the address it leads to selects,
\* of the rows the panel was counted on, those the row counts.  The panel and the filter
\* have each a table of columns, an empty label would be no filter at all, and a filter
\* that is active already is replaced (queries.ts:116-123, queries.ts:166, filters.ts:8-18,
\* +page.server.ts:25-29).
DrillDownAgrees ==
    (page.data # None /\ viewer = "owner") =>
        \A dim \in Panels : \A g \in page.data.breakdowns[dim] :
            LET d == page.data
                seen == SubSeq(rows, 1, d.seen[dim])
                clicked == With(page.url, dim, g.label)
                scope == [ScopeOf(clicked) EXCEPT !.range = d.scope.range]
                I == BuildWhere(seen, scope) IN
            Count(seen, I) = [visitors |-> g.visitors, pageviews |-> g.pageviews]
=============================================================================
