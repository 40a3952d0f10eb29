---------------------------- MODULE TimelineWalk ----------------------------
(***************************************************************************)
(* A client that walks down the timeline, page after page, while videos    *)
(* are published and taken down.  Each page has a cursor, is cached under  *)
(* it, and gives the cursor of the next: the place of its last item.  What *)
(* has been taken down is filtered out of a page only when it is shown.    *)
(***************************************************************************)
EXTENDS Integers, FiniteSets

CONSTANTS
  WalkCount,    \* the videos are 1..WalkCount, in the order of publication
  WalkLimit,    \* items of a page
  Uncached,     \* no page is cached under a cursor
  MaxTakedowns  \* bound: videos taken down

ASSUME WalkAssumption == WalkCount \in Nat /\ WalkLimit \in Nat \ {0} /\ MaxTakedowns \in Nat

VARIABLES
  row,        \* video.status, as far as the timeline is concerned
  pages,      \* the cached page of each cursor
  walk,       \* the walk of the client
  takedowns

walkVars == <<row, pages, walk, takedowns>>

Ids == 1 .. WalkCount
Top == WalkCount + 1
Rows == {v \in Ids : row[v] = "published"}

\* Mutant: a page starts with the item of the cursor.
From(cursor) == {v \in Rows : v <= cursor}

Below(cursor) == {v \in Rows : v < cursor}

Last(items) == CHOOSE v \in items : \A w \in items : v <= w

\* stayed: the videos that were published whenever a page was loaded, and since.
NoWalk == [cursor |-> Top, shown |-> {}, stayed |-> Ids, repeated |-> FALSE, step |-> "walk"]

WalkInit ==
  /\ \E old \in 0 .. WalkCount : row = [v \in Ids |-> IF v <= old THEN "published" ELSE "new"]
  /\ pages = [c \in 1 .. Top |-> Uncached]
  /\ walk = NoWalk
  /\ takedowns = 0
----------------------------------------------------------------------------
\* A restored video keeps its place.
PublishRow(v) ==
  /\ \/ row[v] = "hidden"
     \/ row[v] = "new" /\ \A w \in Ids : w < v => row[w] # "new"
  /\ row' = [row EXCEPT ![v] = "published"]
  /\ UNCHANGED <<pages, walk, takedowns>>

HideRow(v) ==
  /\ row[v] = "published" /\ takedowns < MaxTakedowns
  /\ takedowns' = takedowns + 1
  /\ row' = [row EXCEPT ![v] = "hidden"]
  /\ pages' = [c \in 1 .. Top |-> IF pages[c] = Uncached THEN Uncached
                                  ELSE [pages[c] EXCEPT !.rows = @ \ {v}]]
  /\ walk' = [walk EXCEPT !.stayed = @ \ {v}]

\* ListTimelinePage and timelinePage, for the items below a cursor.
LoadedPage(cursor) ==
  [items |-> {v \in Below(cursor) : Cardinality({w \in Below(cursor) : w > v}) < WalkLimit},
   more  |-> Cardinality(Below(cursor)) > WalkLimit,
   rows  |-> Rows]

\* The cursor is that of the last item, shown or not.
NextCursor(page) == IF page.items = {} THEN Top ELSE Last(page.items)

Show(page) ==
  LET seen == page.items \cap Rows
  IN  walk' = [cursor   |-> NextCursor(page),
               shown    |-> walk.shown \cup seen,
               stayed   |-> walk.stayed \cap page.rows,
               repeated |-> walk.repeated \/ seen \cap walk.shown # {},
               step     |-> IF page.more THEN "walk" ELSE "end"]

ReadCached ==
  /\ walk.step = "walk" /\ pages[walk.cursor] # Uncached
  /\ Show(pages[walk.cursor])
  /\ UNCHANGED <<row, pages, takedowns>>

ReadLoaded ==
  LET page == LoadedPage(walk.cursor)
  IN  /\ walk.step = "walk"
      /\ Show(page)
      /\ pages' \in {pages, [pages EXCEPT ![walk.cursor] = page]}
      /\ UNCHANGED <<row, takedowns>>

\* The page expires, or a takedown deletes it.
DropPage(c) ==
  /\ pages[c] # Uncached
  /\ pages' = [pages EXCEPT ![c] = Uncached]
  /\ UNCHANGED <<row, walk, takedowns>>

StartWalk ==
  /\ walk.step = "end"
  /\ walk' = NoWalk
  /\ UNCHANGED <<row, pages, takedowns>>
----------------------------------------------------------------------------
WalkNext ==
  \/ \E v \in Ids : PublishRow(v) \/ HideRow(v)
  \/ ReadCached \/ ReadLoaded \/ StartWalk
  \/ \E c \in 1 .. Top : DropPage(c)

WalkSpec == WalkInit /\ [][WalkNext]_walkVars
----------------------------------------------------------------------------
(* Properties.                                                             *)

\* A walk shows no video twice, and one that has reached the end has shown every
\* video that was published whenever one of its pages was loaded and was not
\* taken down since: new videos, old pages and gaps do not shift the pages.
WalkShowsEachOnce ==
  /\ ~walk.repeated
  /\ walk.step = "end" => walk.stayed \subseteq walk.shown

WalkTypeOK ==
  /\ row \in [Ids -> {"new", "published", "hidden"}]
  /\ pages \in [1 .. Top -> {Uncached} \cup [items : SUBSET Ids, more : BOOLEAN, rows : SUBSET Ids]]
  /\ walk \in [cursor : 1 .. Top, shown : SUBSET Ids, stayed : SUBSET Ids, repeated : BOOLEAN,
               step : {"walk", "end"}]

\* A page has every row below its cursor that was there when it was loaded, down to its last
\* item, or to the end; of those rows the ones that have been taken down no longer count.
PageComplete(page, cursor) ==
  /\ \A v \in page.items : v < cursor
  /\ page.more => page.items # {}
  /\ page.rows \subseteq Rows
  /\ \A v \in page.rows :
       v < cursor => v \in page.items \/ (page.more /\ \A w \in page.items : v < w)

\* A walk has shown nothing below its cursor, and what has stayed above it.
WalkStands ==
  /\ ~walk.repeated
  /\ walk.step = "walk" => /\ \A v \in walk.shown : v >= walk.cursor
                           /\ \A v \in walk.stayed : v >= walk.cursor => v \in walk.shown
  /\ walk.step = "end" => walk.stayed \subseteq walk.shown

\* Inductive.
WalkInv ==
  /\ WalkTypeOK /\ WalkStands
  /\ \A c \in 1 .. Top : pages[c] # Uncached => PageComplete(pages[c], c)
============================================================================
