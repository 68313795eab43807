------------------------------ MODULE Onboarding ------------------------------
(***************************************************************************)
(* From a site's first page to its owner's "You're all set!": a visitor's  *)
(* browser runs the script, its beacons go to the ingestor, which turns    *)
(* them into rows of the site it resolves the domain to, and the dashboard *)
(* waits for the first of them.                                            *)
(***************************************************************************)
EXTENDS BrowserTracker, Beacon, SitePages

CONSTANTS
    Visits,      \* a visitor's browser: user agent, referrer, what the site reports, and
                 \* the bytes of its beacons besides the page's address
    FirstVisit,  \* the one of them while the owner is at the dashboard
    Page(_),     \* the URL at a path
    Domain       \* data-domain

ASSUME OnboardingAssumption ==
    /\ FirstVisit \in Visits /\ MaxSites > 0 /\ Pageview \in Words
    /\ \A v \in Visits : /\ v.event \in Texts /\ v.referrer \in Referrers
                          /\ v.props \in Seq(Properties) /\ v.bytes \in [Calls -> Nat]
    /\ \A p \in Paths : Page(p) \in BeaconURLs /\ Page(p).url.text.len > 0
    /\ Domain \in Texts

VARIABLES
    visit,       \* the visitor's
    watching,    \* bound: either the owner is at the dashboard, or the visitor moves about
    arrived,     \* beacons that have been handled or lost
    handled      \* history: the beacons handled while their org was not blocked, and the row
                 \* made of each, if any

vars == <<trackerVars, pagesVars, visit, watching, arrived, handled>>

None == [none |-> TRUE]

\* What send() puts into a beacon.
Body(sent) ==
    [n |-> IF sent.name = Pageview THEN [len |-> 8, width |-> 1, pad |-> FALSE, id |-> Pageview]
           ELSE visit.event,
     u |-> Page(sent.path), d |-> Domain, r |-> visit.referrer,
     m |-> IF sent.name = Pageview THEN <<>> ELSE visit.props,
     bytes |-> visit.bytes[sent.name] + Page(sent.path).url.text.len]

\* handleIngest, for a request that Resolve answers with id, of an org that block mode finds
\* over its limit or not: the rows it may buffer, or none for a bot, a body that is cut
\* and no JSON then, an invalid beacon, an unregistered domain, a blocked org.
Ingest(b, id, over) ==
    IF visit.agent = "bot" \/ b.bytes > Limits.body \/ ~Validate(b) \/ id = 0 \/ over
    THEN {None}
    ELSE BuildRows(Validated(b))

NextBeacon == Body(tracker.sent[arrived + 1])

\* The next beacon reaches the ingestor, and its row, if any, the table.  The org of the
\* owner who waits at the dashboard is within its limit.
Deliver ==
    /\ arrived < Len(tracker.sent)
    /\ arrived' = arrived + 1
    /\ \E id \in ResolvesTo, over \in BOOLEAN : \E row \in Ingest(NextBeacon, id, over) :
          /\ watching => ~over
          /\ handled' = IF over THEN handled
                        ELSE handled \cup {[beacon |-> NextBeacon, id |-> id, row |-> row]}
          /\ IF row = None THEN UNCHANGED counted ELSE StoreRow(id)
    /\ UNCHANGED <<trackerVars, site, recent, list, setup, checks, failures, visit, watching>>

\* The beacon, its lookup or its row is lost.
Lose ==
    /\ arrived < Len(tracker.sent)
    /\ arrived' = arrived + 1
    /\ UNCHANGED <<trackerVars, pagesVars, visit, watching, handled>>

\* With a quiet owner the site is there and its cached answers are current.
Init ==
    /\ visit \in Visits
    /\ watching \in BOOLEAN
    /\ TrackerInit
    /\ IF watching
       THEN /\ PagesInit
            /\ visit = FirstVisit /\ path \notin Excluded /\ tab = "visible" /\ ~optedOut
       ELSE /\ PagesStart
            /\ site = [id |-> 1, inserted |-> 1]
    /\ arrived = 0
    /\ handled = {}

Next ==
    \/ (IF watching THEN RunScript ELSE TrackerNext)
          /\ UNCHANGED <<pagesVars, visit, watching, arrived, handled>>
    \/ watching /\ PagesNext /\ UNCHANGED <<trackerVars, visit, watching, arrived, handled>>
    \/ Deliver
    \/ Lose

Spec == Init /\ [][Next]_vars /\ PagesFairness

-----------------------------------------------------------------------------
(* Properties *)

\* The shape of the state.
TypeOK ==
    /\ TrackerTypeOK /\ PagesTypeOK
    /\ visit \in Visits /\ watching \in BOOLEAN
    /\ arrived \in 0 .. Len(tracker.sent)
    /\ \A h \in handled : h.row # None => h.id \in counted

\* A text of which the two sides count the same, a host they read alike, a number neither
\* writes as a power of ten.
PlainValue(v) ==
    IF v \in Texts THEN IsASCII(v)
    ELSE v \in Numbers /\ v.exponent \in FixedExponents /\ IsASCII(v.written)

PlainURL(u) ==
    /\ IsASCII(u.text) /\ ~u.refused
    /\ IF u.absolute THEN u.host = u.webHost ELSE u.host.name = ""

Plain(b) ==
    /\ IsASCII(b.n) /\ IsASCII(b.d)
    /\ PlainURL(b.u.url) /\ ~b.u.path.escaped /\ IsASCII(b.u.utm) /\ ~b.u.utmOdd
    /\ PlainURL(b.r.url)
    /\ \A i \in DOMAIN b.m : IsASCII(b.m[i].key) /\ PlainValue(b.m[i].value)
    /\ Cardinality({i \in DOMAIN b.m : b.m[i].key.len > 0}) <= Limits.props

\* "The same rules as the zod schema on the TypeScript side": a beacon of plain texts, hosts
\* and numbers (ASCII and no escapes, addresses as a browser writes them, numbers from 1e-6
\* to below 1e21) that the shared schema accepts is stored as the shared helpers read it,
\* for a person, a registered site, an org that is not blocked and a body within its limit.
\* And whatever a script sends, what is stored keeps within the limits, in bytes
\* (validate.go:10-71, url.go:21-85, events.ts:12-49, url.ts:15-77, pipeline.go:20-62).
StoredAsAgreed ==
    \A h \in handled :
        /\ (/\ h.id # 0 /\ visit.agent # "bot" /\ h.beacon.bytes <= Limits.body
            /\ Plain(h.beacon) /\ SchemaAccepts(h.beacon)) => h.row = Agreed(h.beacon)
        /\ h.row # None =>
              /\ Bytes(h.row.name) \in 1 .. Limits.name
              /\ Bytes(h.row.referrer) <= Limits.url
              /\ Bytes(h.row.page.utm) <= Limits.tag
              /\ Cardinality(h.row.props) <= Limits.props
              /\ \A p \in h.row.props :
                    Bytes(p.key) \in 1 .. Limits.key /\ Bytes(p.value) <= Limits.value
=============================================================================
