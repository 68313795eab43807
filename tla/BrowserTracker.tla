---------------------------- MODULE BrowserTracker ----------------------------
(***************************************************************************)
(* The script customers embed (packages/tracker/src/tracker.ts), in one    *)
(* page of one browser.  A handler runs to its end before the next: each   *)
(* is a step.  The site's own code, the browser's history and its tabs are *)
(* the environment; the stub that queues calls until the script is there   *)
(* comes with the customer's snippet.                                      *)
(***************************************************************************)
EXTENDS Integers, Sequences, FiniteSets, SequencesExt

CONSTANTS
    Paths,        \* the paths of the customer's site
    NoPath,       \* the empty string, which is none of them
    Excluded,     \* those that data-exclude matches
    Events,       \* the custom events its code may report
    MaxMoves,     \* bound: changes of the address
    MaxCalls,     \* bound: calls of seyr()
    MaxTabs       \* bound: changes of the tab's state

ASSUME TrackerAssumption ==
    /\ Excluded \subseteq Paths
    /\ NoPath \notin Paths
    /\ "pageview" \notin Events   \* an event of that name would be a pageview
    /\ {MaxMoves, MaxCalls, MaxTabs} \subseteq Nat

VARIABLES
    path,       \* loc.pathname
    tab,        \* document.prerendering and document.visibilityState
    optedOut,   \* seyr_ignore or Do Not Track
    running,    \* the script has run, and seyr() is its own
    queue,      \* seyr.q, the calls before that
    tracker,    \* the closure: lastPath, and what send() has handed to the browser
    deferred,   \* the listener for the first pageview is installed
    moves, calls, tabs,   \* counters of the bounded events
    stay,       \* history: number of the current stay at a path
    watched,    \* history: stays the script has seen, and whether it ignored the page then
    reports     \* history: pageviews sent in each stay

pageVars == <<path, tab, optedOut, moves, calls, tabs>>
trackerVars == <<pageVars, running, queue, tracker, deferred, stay, watched, reports>>

\* "prerendering" is the flag of today's browsers, in a tab that is hidden;
\* "prerender" the visibility state of older ones, which have no such flag.
Tabs == {"prerendering", "prerender", "hidden", "visible"}
Pageview == "pageview"
Calls == {Pageview} \cup Events
Beacons == [name : Calls, path : Paths]
Stays == 1 .. MaxMoves + 1

\* The shape of the state.
TrackerTypeOK ==
    /\ path \in Paths /\ tab \in Tabs /\ optedOut \in BOOLEAN
    /\ running \in BOOLEAN /\ deferred \in BOOLEAN
    /\ queue \in Seq(Calls) /\ (running => queue = <<>>)
    /\ tracker \in [lastPath : Paths \cup {NoPath}, sent : Seq(Beacons)]
    /\ moves \in 0 .. MaxMoves /\ calls \in 0 .. MaxCalls /\ tabs \in 0 .. MaxTabs
    /\ stay \in Stays
    /\ watched \in [Stays -> {"no", "seen", "ignored"}]
    /\ reports \in [Stays -> 0 .. MaxMoves + MaxCalls + 1]

TrackerInit ==
    /\ path \in Paths /\ tab \in Tabs /\ optedOut \in BOOLEAN
    /\ running = FALSE /\ deferred = FALSE
    /\ queue = <<>>
    /\ tracker = [lastPath |-> NoPath, sent |-> <<>>]
    /\ moves = 0 /\ calls = 0 /\ tabs = 0
    /\ stay = 1
    /\ watched = [s \in Stays |-> "no"]
    /\ reports = [s \in Stays |-> 0]

-----------------------------------------------------------------------------
(* The closure's functions, on its state t, in a page at path p *)

ShouldIgnore(p) == optedOut \/ tab = "prerendering" \/ p \in Excluded

\* send: sendBeacon, or fetch where that is missing or refuses.
Send(t, name, p) ==
    IF ShouldIgnore(p) THEN t
    ELSE [t EXCEPT !.sent = Append(@, [name |-> name, path |-> p])]

\* Mutant of TrackPageview: repeats are not told apart.
TrackAlways(t, p) == Send([t EXCEPT !.lastPath = p], Pageview, p)

\* The path counts as seen before send decides whether to ignore the page.
TrackPageview(t, p) ==
    IF p = t.lastPath THEN t ELSE Send([t EXCEPT !.lastPath = p], Pageview, p)

\* seyr('pageview') and seyr('event', name): the address is read now, also for a
\* call that was queued at another one.
Seyr(t, call) == IF call = Pageview THEN TrackPageview(t, path) ELSE Send(t, call, path)

-----------------------------------------------------------------------------
(* Steps *)

\* A step that leaves the closure as t, in stay s at path p; asked says whether it was
\* a step at which the stay is due to be reported.
Leaves(t, s, p, asked) ==
    LET new == {i \in Len(tracker.sent) + 1 .. Len(t.sent) : t.sent[i].name = Pageview} IN
    /\ tracker' = t
    /\ reports' = [reports EXCEPT ![s] = @ + Cardinality(new)]
    /\ watched' = [watched EXCEPT ![s] =
          IF @ # "no" \/ ~asked THEN @ ELSE IF ShouldIgnore(p) THEN "ignored" ELSE "seen"]

\* The site's code calls seyr(): the stub before the script, then the script.
CallSeyr(call) ==
    /\ calls < MaxCalls
    /\ calls' = calls + 1
    /\ IF running
       THEN Leaves(Seyr(tracker, call), stay, path, call = Pageview) /\ UNCHANGED queue
       ELSE queue' = Append(queue, call) /\ UNCHANGED <<tracker, reports, watched>>
    /\ UNCHANGED <<path, tab, optedOut, moves, tabs, running, deferred, stay>>

\* The script runs: the queue is drained in order, history is patched, and the first
\* pageview goes out or waits for the tab.
RunScript ==
    /\ ~running
    /\ running' = TRUE
    /\ queue' = <<>>
    /\ deferred' = (tab = "prerender")
    /\ LET drained == FoldLeft(Seyr, tracker, queue) IN
       IF tab = "prerender"
       THEN Leaves(drained, stay, path, Contains(queue, Pageview))
       ELSE Leaves(TrackPageview(drained, path), stay, path, TRUE)
    /\ UNCHANGED <<pageVars, stay>>

\* pushState, replaceState, or back and forward: the address changes, then the script
\* is called.  Without the script only the address does.
Navigate(p) ==
    /\ moves < MaxMoves
    /\ moves' = moves + 1
    /\ path' = p
    /\ stay' = IF p = path THEN stay ELSE stay + 1
    /\ IF running
       THEN Leaves(TrackPageview(tracker, p), stay', p, TRUE)
       ELSE UNCHANGED <<tracker, reports, watched>>
    /\ UNCHANGED <<tab, optedOut, calls, tabs, running, queue, deferred>>

\* The tab is activated, shown or hidden; the listener goes with the first state
\* that is not "prerender".
ChangeTab(v) ==
    /\ tabs < MaxTabs
    /\ tabs' = tabs + 1
    /\ v \in {"hidden", "visible"} \ {tab}
    /\ tab' = v
    /\ deferred' = FALSE
    /\ IF deferred
       THEN Leaves(TrackPageview(tracker, path), stay, path, TRUE)
       ELSE UNCHANGED <<tracker, reports, watched>>
    /\ UNCHANGED <<path, optedOut, moves, calls, running, queue, stay>>

TrackerNext ==
    \/ \E call \in Calls : CallSeyr(call)
    \/ RunScript
    \/ \E p \in Paths : Navigate(p)
    \/ \E v \in Tabs : ChangeTab(v)

-----------------------------------------------------------------------------
(* Properties *)

\* Every stay at a path is one pageview, however queued calls, the script's own first
\* pageview, history changes to the same or another path and the tab's activation fall
\* together.  None is sent twice; only a stay that the script first saw while it had to
\* ignore the page goes unreported, and a prerendered page is such a stay for good:
\* activation does not bring its pageview back (tracker.ts:73-77, tracker.ts:107-119).
OnePageviewPerStay ==
    \A s \in Stays :
        /\ reports[s] <= 1
        /\ watched[s] = "seen" => reports[s] = 1
=============================================================================
