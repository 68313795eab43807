------------------------------- MODULE SitePages -------------------------------
(***************************************************************************)
(* The dashboard's pages of one domain's site: the list with its form, and *)
(* the setup page that waits for the first event.  Rows arrive under the   *)
(* site the ingestor resolves the domain to.                               *)
(*                                                                         *)
(* The resolver's cache may still give what stopped being true less than a *)
(* TTL ago, as SiteResolver shows: `recent` holds those answers.           *)
(***************************************************************************)
EXTENDS Integers

CONSTANTS
    MaxSites,      \* bound: rows ever inserted
    MaxChecks,     \* bound: checks of the setup page under way
    MaxFailures    \* bound: failures of ClickHouse

ASSUME PagesAssumption == {MaxSites, MaxChecks, MaxFailures} \subseteq Nat

VARIABLES
    site,       \* the id of the domain's row, 0 for none, and the ids given out
    recent,     \* ids, or 0, that a cached answer may still give
    counted,    \* ids with rows in the events table
    list,       \* the page with the sites: what it shows, its form
    setup,      \* the setup page; site 0 when it is closed
    checks,     \* its checks under way: at the server, answered, the answers
    failures

pagesVars == <<site, recent, counted, list, setup, checks, failures>>

Ids == 1 .. MaxSites
NoSetup == [site |-> 0, verified |-> FALSE, polling |-> FALSE, checking |-> FALSE, timer |-> FALSE]
NoChecks == [asked |-> 0, yes |-> 0, no |-> 0]

\* The shape of the state: the timer runs while the page listens, and a page that is
\* verified has stopped.  Badges are true: a site that is shown live or verified has rows.
PagesTypeOK ==
    /\ site \in [id : 0 .. site.inserted, inserted : 0 .. MaxSites]
    /\ recent \subseteq 0 .. site.inserted
    /\ counted \subseteq 1 .. site.inserted
    /\ list \in [sites : SUBSET (1 .. site.inserted), live : SUBSET counted,
                form : {"closed", "open", "adding"}, error : BOOLEAN]
    /\ list.live \subseteq list.sites
    /\ setup \in [site : 0 .. site.inserted, verified : BOOLEAN, polling : BOOLEAN,
                 checking : BOOLEAN, timer : BOOLEAN]
    /\ setup.verified => setup.site \in counted /\ ~setup.polling
    /\ setup.timer = setup.polling
    /\ checks \in [asked : 0 .. MaxChecks, yes : 0 .. MaxChecks, no : 0 .. MaxChecks]
    /\ checks.asked + checks.yes + checks.no <= MaxChecks
    /\ checks # NoChecks => setup.site # 0
    /\ failures \in 0 .. MaxFailures

PagesStart ==
    /\ recent = {} /\ counted = {}
    /\ list = [sites |-> {}, live |-> {}, form |-> "closed", error |-> FALSE]
    /\ setup = NoSetup
    /\ checks = NoChecks
    /\ failures = 0

PagesInit == PagesStart /\ site = [id |-> 0, inserted |-> 0]

-----------------------------------------------------------------------------
(* The database *)

\* What Resolve may answer for the domain now.
ResolvesTo == {site.id} \cup recent

Registered == {site.id} \ {0}

\* The cached answers from before the last change expire.
Expire ==
    /\ recent # {}
    /\ recent' = {}
    /\ UNCHANGED <<site, counted, list, setup, checks, failures>>

\* A row of id is in the events table.
StoreRow(id) == counted' = counted \cup {id}

\* Another visitor's first beacon is stored under the site its domain resolves to.
VisitorCounted ==
    /\ \E id \in ResolvesTo \ (counted \cup {0}) : StoreRow(id)
    /\ UNCHANGED <<site, recent, list, setup, checks, failures>>

\* A count query of a page, which fails or gives the sites among S with rows; a page
\* takes a failure for no rows.
CountEvents(S, counts) ==
    \/ counts = S \cap counted /\ UNCHANGED failures
    \/ /\ failures < MaxFailures /\ failures' = failures + 1
       /\ counts = {}

-----------------------------------------------------------------------------
(* The page with the sites *)

\* load, and what the page shows once it has the data; rows is the table then.
ShowSites(rows, form, error) ==
    \E counts \in SUBSET rows :
        /\ CountEvents(rows, counts)
        /\ list' = [sites |-> rows, live |-> counts, form |-> form, error |-> error]

VisitList ==
    /\ ShowSites(Registered, "closed", FALSE)
    /\ UNCHANGED <<site, recent, counted, setup, checks>>

\* The button shows or hides the form; without sites the form is always there.
ToggleForm ==
    /\ list.sites # {} /\ list.form # "adding"
    /\ list' = [list EXCEPT !.form = IF @ = "open" THEN "closed" ELSE "open"]
    /\ UNCHANGED <<site, recent, counted, setup, checks, failures>>

SubmitForm ==
    /\ list.form # "adding"
    /\ list.form = "open" \/ list.sites = {}
    /\ list' = [list EXCEPT !.form = "adding"]
    /\ UNCHANGED <<site, recent, counted, setup, checks, failures>>

\* The create action: a malformed domain is refused, one that is in the table by its
\* unique constraint.  The page reloads and closes the form, the error with it.
Create(wellFormed) ==
    /\ list.form = "adding"
    /\ IF wellFormed /\ site.id = 0
       THEN /\ site.inserted < MaxSites
            /\ site' = [id |-> site.inserted + 1, inserted |-> site.inserted + 1]
            /\ recent' = recent \cup {0}
            /\ ShowSites({site.inserted + 1}, "closed", FALSE)
       ELSE /\ ShowSites(Registered, "closed", TRUE)
            /\ UNCHANGED <<site, recent>>
    /\ UNCHANGED <<counted, setup, checks>>

\* The delete action of a site on the page; its row may be gone already.
Delete(id) ==
    /\ id \in list.sites
    /\ IF site.id = id
       THEN /\ site' = [site EXCEPT !.id = 0]
            /\ recent' = recent \cup {id}
            /\ ShowSites({}, list.form, FALSE)
       ELSE /\ ShowSites(Registered, list.form, FALSE)
            /\ UNCHANGED <<site, recent>>
    /\ UNCHANGED <<counted, setup, checks>>

-----------------------------------------------------------------------------
(* The setup page *)

\* load: a site that is there, verified when it has rows.
OpenSetup ==
    /\ setup.site = 0
    /\ site.id # 0
    /\ \E counts \in SUBSET {site.id} :
          /\ CountEvents({site.id}, counts)
          /\ setup' = [NoSetup EXCEPT !.site = site.id, !.verified = (counts # {})]
    /\ UNCHANGED <<site, recent, counted, list, checks>>

\* onDestroy: the timer stops; answers still to come find no page.
CloseSetup ==
    /\ setup.site # 0
    /\ setup' = NoSetup
    /\ checks' = NoChecks
    /\ UNCHANGED <<site, recent, counted, list, failures>>

InFlight == checks.asked + checks.yes + checks.no

\* checkOnce, up to its fetch.
AskWith(page) ==
    /\ InFlight < MaxChecks
    /\ checks' = [checks EXCEPT !.asked = @ + 1]
    /\ setup' = [page EXCEPT !.checking = TRUE]

StartPolling ==
    /\ setup.site # 0 /\ ~setup.verified /\ ~setup.polling
    /\ AskWith([setup EXCEPT !.polling = TRUE, !.timer = TRUE])
    /\ UNCHANGED <<site, recent, counted, list, failures>>

\* Mutant of TimerFires: setTimeout in the place of setInterval.
FiresOnce ==
    /\ setup.timer
    /\ AskWith([setup EXCEPT !.timer = FALSE])
    /\ UNCHANGED <<site, recent, counted, list, failures>>

\* Every three seconds, whether the last check has been answered or not.
TimerFires ==
    /\ setup.timer
    /\ AskWith(setup)
    /\ UNCHANGED <<site, recent, counted, list, failures>>

\* Mutant of Verify: the count of any site of the domain will do.
VerifyAny ==
    /\ checks.asked > 0
    /\ checks' = [checks EXCEPT !.asked = @ - 1,
                     ![IF counted # {} THEN "yes" ELSE "no"] = @ + 1]
    /\ UNCHANGED <<site, recent, counted, list, setup, failures>>

\* The verify endpoint: for a site that is gone it answers with an error, which the
\* page takes like a no.
Verify ==
    /\ checks.asked > 0
    /\ \E counts \in SUBSET {setup.site} :
          /\ CountEvents({setup.site} \cap {site.id}, counts)
          /\ checks' = [checks EXCEPT !.asked = @ - 1,
                           ![IF counts # {} THEN "yes" ELSE "no"] = @ + 1]
    /\ UNCHANGED <<site, recent, counted, list, setup>>

\* An answer arrives, in any order: a yes ends the listening, each ends the spinner.
Received ==
    /\ checks.yes > 0
    /\ checks' = [checks EXCEPT !.yes = @ - 1]
    /\ setup' = [setup EXCEPT !.verified = TRUE, !.polling = FALSE, !.timer = FALSE,
                              !.checking = FALSE]
    /\ UNCHANGED <<site, recent, counted, list, failures>>

NotReceived ==
    /\ checks.no > 0
    /\ checks' = [checks EXCEPT !.no = @ - 1]
    /\ setup' = [setup EXCEPT !.checking = FALSE]
    /\ UNCHANGED <<site, recent, counted, list, failures>>

Owner ==
    \/ VisitList \/ ToggleForm \/ SubmitForm
    \/ \E wellFormed \in BOOLEAN : Create(wellFormed)
    \/ \E id \in Ids : Delete(id)
    \/ OpenSetup \/ CloseSetup \/ StartPolling

PagesNext ==
    \/ Owner
    \/ TimerFires \/ Verify \/ Received \/ NotReceived
    \/ Expire \/ VisitorCounted

-----------------------------------------------------------------------------
(* Liveness *)

\* The browser's timer and requests make progress, cached answers expire, and the site
\* has visitors; which of the cached answers they get until then is open.
PagesFairness ==
    /\ WF_pagesVars(TimerFires) /\ WF_pagesVars(Verify)
    /\ WF_pagesVars(Received) /\ WF_pagesVars(NotReceived)
    /\ WF_pagesVars(Expire) /\ WF_pagesVars(recent = {} /\ VisitorCounted)

\* While the setup page listens for a registered site that has visitors, it finds out:
\* cached answers from before the registration lose the first beacons or store them under
\* a deleted site of the same domain, checks overlap and fail, their answers come in any
\* order, but in the end the page is verified, unless it is closed or the site deleted
\* (+page.svelte:39-66, verify/+server.ts:8-26, resolver.go:36-56).  This takes for granted
\* that block mode does not find the site's org over its limit (server.go:102-108): a new
\* site of an org that is blocked stores nothing, and its page listens until it is closed.
ListeningFinds ==
    \A id \in Ids :
        (setup.polling /\ setup.site = id /\ site.id = id)
            ~> ~(setup.polling /\ setup.site = id /\ site.id = id)
=============================================================================
