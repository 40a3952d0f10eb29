--------------------------- MODULE TimelinePages ---------------------------
(***************************************************************************)
(* A page of the timeline as the API processes find it: in the cache of    *)
(* the process (L1), in Redis (L2) or in MySQL, one load per process at a  *)
(* time, a stale page while it is refreshed in the background.             *)
(***************************************************************************)
EXTENDS FeedVideos

VARIABLES
  pageL2,    \* the page in Redis
  pageL1,    \* the page in localCache, by process
  flight,    \* singleflight.Group: the load of the page, by process
  refresh,   \* processes that have started a background refresh
  req        \* the requests

pagesVars == <<videoVars, pageL2, pageL1, flight, refresh, req>>

NoRequest == [step |-> "idle", page |-> {}]

PagesInit ==
  /\ VideosInit
  /\ pageL2 = Nothing
  /\ pageL1 = [a \in Apis |-> Nothing]
  /\ flight = [a \in Apis |-> Nothing]
  /\ refresh = {}
  /\ req = [r \in Requests |-> NoRequest]
----------------------------------------------------------------------------
Local(page, soft) == [page |-> page, stale |-> FALSE, soft |-> soft]

\* GetPageState: what a process may find, Redis failing or not.
FoundPages(a) == IF pageL1[a] # Nothing THEN {pageL1[a].page} ELSE {pageL2, Nothing}

\* A page found in Redis is kept in the process.
KeepLocal(a, page) ==
  pageL1' = IF pageL1[a] = Nothing /\ page # Nothing
            THEN [pageL1 EXCEPT ![a] = Local(page, FALSE)] ELSE pageL1

\* An entry that SetPage wrote is served for a while after it has gone stale;
\* one that was kept is not.
SoftExpire(a) ==
  /\ pageL1[a] # Nothing /\ ~pageL1[a].stale
  /\ pageL1' = [pageL1 EXCEPT ![a] = IF @.soft THEN [@ EXCEPT !.stale = TRUE] ELSE Nothing]
  /\ UNCHANGED <<videoVars, pageL2, flight, refresh, req>>

\* The entry expires, or a full cache drops it.
HardExpire(a) ==
  /\ pageL1[a] # Nothing
  /\ pageL1' = [pageL1 EXCEPT ![a] = Nothing]
  /\ UNCHANGED <<videoVars, pageL2, flight, refresh, req>>

ExpirePage ==
  /\ pageL2 # Nothing
  /\ pageL2' = Nothing
  /\ UNCHANGED <<videoVars, pageL1, flight, refresh, req>>
----------------------------------------------------------------------------
RequestAt(r, step) == req[r].step = step
RequestGoto(r, step, page) == req' = [req EXCEPT ![r] = [step |-> step, page |-> page]]

\* A request comes and looks into the caches.
GetPage(r) ==
  LET a == apiOf[r]
  IN  /\ RequestAt(r, "idle")
      /\ \E page \in FoundPages(a) :
           /\ IF page = Nothing THEN RequestGoto(r, "join", {}) ELSE RequestGoto(r, "answer", page)
           /\ KeepLocal(a, page)
      /\ refresh' = IF pageL1[a] # Nothing /\ pageL1[a].stale THEN refresh \cup {a} ELSE refresh
      /\ UNCHANGED <<videoVars, pageL2, flight>>

FlightGoto(a, step, page) == flight' = [flight EXCEPT ![a] = [step |-> step, page |-> page]]
FlightAt(a, step) == flight[a] # Nothing /\ flight[a].step = step

\* group.Do: the first request of a process loads, the others wait for it.
Join(r) ==
  LET a == apiOf[r]
  IN  /\ RequestAt(r, "join")
      /\ RequestGoto(r, "wait", {})
      /\ IF flight[a] = Nothing THEN FlightGoto(a, "check", {}) ELSE UNCHANGED flight
      /\ UNCHANGED <<videoVars, pageL2, pageL1, refresh>>

\* A refresh that finds a load under way waits for it and does nothing.
StartRefresh(a) ==
  /\ a \in refresh
  /\ refresh' = refresh \ {a}
  /\ IF flight[a] = Nothing THEN FlightGoto(a, "load", {}) ELSE UNCHANGED flight
  /\ UNCHANGED <<videoVars, pageL2, pageL1, req>>

\* The load ends for all that wait for it.
Land(a, outcome) ==
  /\ flight' = [flight EXCEPT ![a] = Nothing]
  /\ req' = [r \in Requests |->
              IF apiOf[r] # a \/ ~RequestAt(r, "wait") THEN req[r]
              ELSE IF outcome = Nothing THEN NoRequest
              ELSE [step |-> "answer", page |-> outcome]]

CheckAgain(a) ==
  /\ FlightAt(a, "check")
  /\ \E page \in FoundPages(a) :
       /\ IF page = Nothing THEN FlightGoto(a, "load", {}) /\ UNCHANGED req ELSE Land(a, page)
       /\ KeepLocal(a, page)
  /\ UNCHANGED <<videoVars, pageL2, refresh>>

\* Mutant: a load takes what is cached and stores it once more.
LoadCached(a) ==
  /\ FlightAt(a, "load")
  /\ \E page \in FoundPages(a) :
       FlightGoto(a, "set", IF page = Nothing THEN published ELSE page)
  /\ UNCHANGED <<videoVars, pageL2, pageL1, refresh, req>>

LoadPage(a) ==
  /\ FlightAt(a, "load")
  /\ \/ FlightGoto(a, "set", published) /\ UNCHANGED req
     \/ Land(a, Nothing)
  /\ UNCHANGED <<videoVars, pageL2, pageL1, refresh>>

\* SetPage keeps the page in the process even if Redis does not take it.
SetPage(a) ==
  LET page == flight[a].page
  IN  /\ FlightAt(a, "set")
      /\ pageL2' \in {page, pageL2}
      /\ pageL1' = [pageL1 EXCEPT ![a] = Local(page, TRUE)]
      /\ Land(a, page)
      /\ UNCHANGED <<videoVars, refresh>>

Reply(r) ==
  /\ RequestAt(r, "answer")
  /\ RequestGoto(r, "idle", {})
  /\ UNCHANGED <<videoVars, pageL2, pageL1, flight, refresh>>

\* InvalidateVideo deletes the pages in Redis.
InvalidatePages(v) ==
  /\ Invalidate(v)
  /\ pageL2' = Nothing
  /\ UNCHANGED <<pageL1, flight, refresh, req>>
----------------------------------------------------------------------------
PageStep(r) == Join(r) \/ Reply(r)
FlightStep(a) == StartRefresh(a) \/ CheckAgain(a) \/ LoadPage(a) \/ SetPage(a)

PagesNext ==
  \/ \E r \in Requests : GetPage(r) \/ PageStep(r)
  \/ \E a \in Apis : FlightStep(a) \/ SoftExpire(a) \/ HardExpire(a)
  \/ \E v \in Videos :
       \/ (Hide(v) \/ Restore(v)) /\ UNCHANGED <<pageL2, pageL1, flight, refresh, req>>
       \/ InvalidatePages(v)
  \/ ExpirePage

PagesSpec == PagesInit /\ [][PagesNext]_pagesVars

\* What has been asked for is answered, and every entry of a cache expires.
PagesFairness ==
  /\ \A r \in Requests : WF_pagesVars(PageStep(r))
  /\ \A a \in Apis : /\ WF_pagesVars(FlightStep(a)) /\ WF_pagesVars(SoftExpire(a))
                     /\ WF_pagesVars(pageL1[a] # Nothing /\ pageL1[a].stale /\ HardExpire(a))
  /\ WF_pagesVars(ExpirePage)
----------------------------------------------------------------------------
(* Properties.                                                             *)

\* Once the videos no longer change, every answer shows what is published from
\* some moment on: no cache keeps an old page alive, whatever is read, refreshed
\* and stored in whichever order, and although nothing deletes the pages of L1.
PagesCatchUp ==
  \A shown \in SUBSET Videos :
    <>[](published = shown) =>
      <>[](\A r \in Requests : RequestAt(r, "answer") => req[r].page = shown)
============================================================================
