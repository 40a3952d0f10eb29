--------------------------- MODULE FollowingFeed ---------------------------
(***************************************************************************)
(* The following feed: videos of small creators are pushed into the inbox  *)
(* of each follower, those of big creators into an outbox of the author    *)
(* that is read with the inbox.  Inboxes and outboxes are bounded sorted   *)
(* sets in Redis, filled by the fanout worker, by a backfill after a       *)
(* follow and by a cold start from MySQL, and cleaned of videos that are   *)
(* taken down.  A read that finds the index insufficient goes to MySQL.    *)
(***************************************************************************)
EXTENDS Integers, FiniteSets

CONSTANTS
  Viewers,     \* the accounts that follow, numbered from 1
  Readers,     \* those of them that read and change whom they follow
  Authors,     \* the accounts that are followed
  Count,       \* the videos are 1..Count, in the order of publication
  AuthorOf,    \* the author of each video
  InboxMax,    \* length of an inbox and of the snapshot of a cold start
  OutboxMax,   \* length of an outbox
  RecentMax,   \* length of a backfill
  PageLimit,   \* items of a page
  Batch,       \* followers per step of the fanout
  NoLoad,      \* the viewer reads no page
  NoCall,      \* the viewer changes no follow
  NotCached,   \* the key is not in Redis
  MaxChanges   \* bound: follow requests, blocks, videos taken down and authors that
               \* cross the threshold of big creators

Videos == 1 .. Count

CallRecords == [step : {"invalidate", "recent", "backfill"}, author : Authors,
                active : BOOLEAN, items : SUBSET Videos]

ASSUME ConstantsAssumption ==
  /\ Viewers \subseteq Nat \ {0} /\ IsFiniteSet(Viewers) /\ Readers \subseteq Viewers
  /\ NoCall \notin CallRecords
  /\ Count \in Nat
  /\ AuthorOf \in [Videos -> Authors]
  /\ {InboxMax, OutboxMax, RecentMax, PageLimit, Batch} \subseteq Nat \ {0}
  /\ MaxChanges \in Nat

VARIABLES
  status,     \* video.status, as far as the feed is concerned
  follow,     \* active rows of user_follow
  big,        \* authors with at least BigCreatorFollowerThreshold followers
  inbox,      \* feed:following:inbox, by viewer
  outbox,     \* feed:following:author, by author
  snap,       \* feed:following:snapshot, by viewer
  known,      \* the cached follows of a viewer and the big creators among them
  announced,  \* VideoPublished events not yet handled, by video
  fan,        \* the fanout of a video
  cleanups,   \* invalidations of a video not yet run
  cleaning,   \* videos whose inboxes are cleaned and whose outboxes are not
  call,       \* the follow request of a reader
  load,       \* the page a reader is loading
  doubt,      \* history: readers whose index something has made unreliable
  changes     \* changes so far

vars == <<status, follow, big, inbox, outbox, snap, known, announced, fan,
          cleanups, cleaning, call, load, doubt, changes>>
redis   == <<inbox, outbox, snap, known>>
content == <<status, announced, cleanups>>
worker  == <<fan, cleaning>>
----------------------------------------------------------------------------
(* Sets of videos, newest first.                                           *)

\* The n newest of the videos vs.
Newest(vs, n) == {v \in vs : Cardinality({w \in vs : w > v}) < n}
Oldest(vs) == CHOOSE v \in vs : \A w \in vs : v <= w
Before(vs, cursor) == {v \in vs : v < cursor}

NoCursor == Count + 1
Following(u) == {a \in Authors : <<u, a>> \in follow}
Published == {v \in Videos : status[v] = "published"}

\* ListFollowingPage: the published videos of the followed authors.
Feed(u) == {v \in Published : AuthorOf[v] \in Following(u)}
SqlPage(u, cursor, n) == Newest(Before(Feed(u), cursor), n)

InitFan  == [step |-> "idle", after |-> 0, to |-> {}]

Init ==
  /\ \E old \in 0 .. Count :
       status = [v \in Videos |-> IF v <= old THEN "published" ELSE "new"]
  /\ follow \in SUBSET (Viewers \X Authors)
  /\ big \in SUBSET Authors
  /\ inbox = [u \in Viewers |-> {}]
  /\ outbox = [a \in Authors |-> {}]
  /\ snap = [u \in Readers |-> NotCached]
  /\ known = [u \in Readers |-> NotCached]
  /\ announced = [v \in Videos |-> 0]
  /\ fan = [v \in Videos |-> InitFan]
  /\ cleanups = [v \in Videos |-> 0]
  /\ cleaning = {}
  /\ call = [u \in Readers |-> NoCall]
  /\ load = [u \in Readers |-> NoLoad]
  /\ doubt = {}
  /\ changes = 0
----------------------------------------------------------------------------
(* Publication and takedown, as VideoModeration describes them.            *)

\* publishTarget keeps the first publication time; the restore of a video that
\* is offline also announces its visibility.
Publish(v) ==
  /\ \/ status[v] = "new" /\ \A w \in Before(Videos, v) : status[w] # "new"
     \/ status[v] = "hidden"
  /\ status' = [status EXCEPT ![v] = "published"]
  /\ announced' = [announced EXCEPT ![v] = @ + 1]
  /\ \/ UNCHANGED cleanups
     \/ status[v] = "hidden" /\ cleanups' = [cleanups EXCEPT ![v] = @ + 1]
  /\ UNCHANGED <<follow, big, redis, worker, call, load, doubt, changes>>

Hide(v) ==
  /\ status[v] = "published"
  /\ changes < MaxChanges
  /\ changes' = changes + 1
  /\ status' = [status EXCEPT ![v] = "hidden"]
  /\ cleanups' = [cleanups EXCEPT ![v] = @ + 1]
  /\ UNCHANGED <<follow, big, redis, announced, worker, call, load, doubt>>

\* InvalidateVideo scans the inboxes and then the outboxes.
CleanInboxes(v) ==
  /\ cleanups[v] > 0 /\ v \notin cleaning
  /\ cleaning' = cleaning \cup {v}
  /\ inbox' = [u \in Viewers |-> inbox[u] \ {v}]
  /\ doubt' = doubt \cup {u \in Readers : v \in inbox[u]}
  /\ UNCHANGED <<status, follow, big, outbox, snap, known, announced, fan, cleanups, call, load, changes>>

CleanOutboxes(v) ==
  /\ v \in cleaning
  /\ cleaning' = cleaning \ {v}
  /\ cleanups' = [cleanups EXCEPT ![v] = @ - 1]
  /\ outbox' = [a \in Authors |-> outbox[a] \ {v}]
  /\ doubt' = IF v \in outbox[AuthorOf[v]] THEN Readers ELSE doubt
  /\ UNCHANGED <<status, follow, big, inbox, snap, known, announced, fan, call, load, changes>>

\* Other accounts follow or unfollow an author, who crosses the threshold.
Cross(a) ==
  /\ changes < MaxChanges
  /\ changes' = changes + 1
  /\ big' = IF a \in big THEN big \ {a} ELSE big \cup {a}
  /\ doubt' = Readers
  /\ UNCHANGED <<follow, redis, content, worker, call, load>>
----------------------------------------------------------------------------
(* The fanout worker.                                                      *)

FanGoto(v, step, after, to) ==
  fan' = [fan EXCEPT ![v] = [step |-> step, after |-> after, to |-> to]]

FanOnly == UNCHANGED <<status, follow, big, snap, known, cleanups, cleaning, call, load, changes>>

\* AddInboxItems: the oldest items leave an inbox that is full.
Pushed(box, v) == Newest(box \cup {v}, InboxMax)

CountFollowers(v) ==
  /\ announced[v] > 0 /\ fan[v].step = "idle"
  /\ FanGoto(v, IF AuthorOf[v] \in big THEN "outbox" ELSE "list", 0, {})
  /\ FanOnly /\ UNCHANGED <<inbox, outbox, announced, doubt>>

\* HandleVideoPublished has returned: the event is done.
Handled(v) ==
  /\ fan' = [fan EXCEPT ![v] = InitFan]
  /\ announced' = [announced EXCEPT ![v] = @ - 1]

AddAuthorOutboxItem(v) ==
  LET a == AuthorOf[v]
  IN  /\ fan[v].step = "outbox"
      /\ outbox' = [outbox EXCEPT ![a] = Newest(@ \cup {v}, OutboxMax)]
      /\ Handled(v)
      /\ FanOnly /\ UNCHANGED <<inbox, doubt>>

\* ListFollowerIDs after the cursor, in the order of their numbers.
NextFollowers(a, after) ==
  LET rest == {u \in Viewers : <<u, a>> \in follow /\ u > after}
  IN  {u \in rest : Cardinality({w \in rest : w < u}) < Batch}

ListFollowers(v) ==
  LET to == NextFollowers(AuthorOf[v], fan[v].after)
  IN  /\ fan[v].step = "list"
      /\ IF to = {} THEN Handled(v)
                    ELSE FanGoto(v, "push", fan[v].after, to) /\ UNCHANGED announced
      /\ FanOnly /\ UNCHANGED <<inbox, outbox, doubt>>

\* A batch listed before an unfollow may be pushed after the index was deleted:
\* the inbox then holds videos that a page reads and drops.
AddInboxItems(v) ==
  LET to == fan[v].to
  IN  /\ fan[v].step = "push"
      /\ inbox' = [u \in Viewers |-> IF u \in to THEN Pushed(inbox[u], v) ELSE inbox[u]]
      /\ doubt' = doubt \cup {u \in to \cap Readers : <<u, AuthorOf[v]>> \notin follow}
      /\ IF Cardinality(to) < Batch
         THEN Handled(v)
         ELSE /\ FanGoto(v, "list", CHOOSE u \in to : \A w \in to : w <= u, {})
              /\ UNCHANGED announced
      /\ FanOnly /\ UNCHANGED outbox

\* An error or a crash: the event is handled again from the first follower.
FanoutFails(v) ==
  /\ fan[v].step # "idle"
  /\ fan' = [fan EXCEPT ![v] = InitFan]
  /\ FanOnly /\ UNCHANGED <<inbox, outbox, announced, doubt>>
----------------------------------------------------------------------------
(* A reader follows or unfollows an author.                                *)

CallOnly == UNCHANGED <<big, outbox, content, worker, changes>>

CallGoto(u, step, items) ==
  call' = [call EXCEPT ![u] = [step |-> step, author |-> call[u].author,
                               active |-> call[u].active, items |-> items]]

\* The pages that are being loaded have seen, or will yet see, other follows.
Overtaken(u) ==
  IF load[u] = NoLoad THEN load
  ELSE IF load[u].step = "answer" THEN load
  ELSE [load EXCEPT ![u].raced = TRUE]

\* A request may repeat what already holds.
SetFollow(u, a, active) ==
  /\ call[u] = NoCall
  /\ changes < MaxChanges
  /\ changes' = changes + 1
  /\ follow' = IF active THEN follow \cup {<<u, a>>} ELSE follow \ {<<u, a>>}
  /\ call' = [call EXCEPT ![u] = [step |-> "invalidate", author |-> a,
                                 active |-> active, items |-> {}]]
  /\ load' = Overtaken(u)
  /\ UNCHANGED <<big, redis, content, worker, doubt>>

\* A block between the two, in either direction, ends the follow.  The index is
\* not deleted: it is in doubt until the reader's next request deletes it.
SetBlock(u, a) ==
  /\ <<u, a>> \in follow
  /\ changes < MaxChanges
  /\ changes' = changes + 1
  /\ follow' = follow \ {<<u, a>>}
  /\ doubt' = doubt \cup {u}
  /\ UNCHANGED <<big, redis, content, worker, call, load>>

\* Mutant: the cached follows outlive the index.
InvalidateInbox(u) ==
  /\ inbox' = [inbox EXCEPT ![u] = {}]
  /\ snap' = [snap EXCEPT ![u] = NotCached]
  /\ UNCHANGED known

\* InvalidateFollowingIndex deletes every key of the viewer.
DeleteIndex(u) ==
  /\ inbox' = [inbox EXCEPT ![u] = {}]
  /\ snap' = [snap EXCEPT ![u] = NotCached]
  /\ known' = [known EXCEPT ![u] = NotCached]

Invalidate(u) ==
  /\ call[u] # NoCall /\ call[u].step = "invalidate"
  /\ DeleteIndex(u)
  /\ doubt' = doubt \ {u}
  /\ IF call[u].active /\ call[u].author \notin big
     THEN CallGoto(u, "recent", {})
     ELSE call' = [call EXCEPT ![u] = NoCall]
  /\ UNCHANGED <<follow, load>> /\ CallOnly

ListAuthorRecentVideos(u) ==
  /\ call[u] # NoCall /\ call[u].step = "recent"
  /\ CallGoto(u, "backfill", Newest({v \in Published : AuthorOf[v] = call[u].author}, RecentMax))
  /\ UNCHANGED <<follow, inbox, snap, known, load, doubt>> /\ CallOnly

\* One video after the other, the newest first; a block may have ended the follow.
Backfill(u) ==
  LET items == call[u].items
  IN  /\ call[u] # NoCall /\ call[u].step = "backfill"
      /\ IF items = {}
         THEN call' = [call EXCEPT ![u] = NoCall] /\ UNCHANGED inbox
         ELSE \E v \in Newest(items, 1) :
                /\ inbox' = [inbox EXCEPT ![u] = Pushed(@, v)]
                /\ CallGoto(u, "backfill", items \ {v})
      /\ doubt' = IF items = {} \/ <<u, call[u].author>> \in follow
                  THEN doubt ELSE doubt \cup {u}
      /\ UNCHANGED <<follow, snap, known, load>> /\ CallOnly

\* An error of Redis or of MySQL, or a crash, after the follow has been committed.
CallFails(u) ==
  /\ call[u] # NoCall
  /\ call' = [call EXCEPT ![u] = NoCall]
  /\ doubt' = IF call[u].step = "invalidate" THEN doubt \cup {u} ELSE doubt
  /\ UNCHANGED <<follow, inbox, snap, known, load>> /\ CallOnly
----------------------------------------------------------------------------
(* A reader loads a page: FollowingCandidateSource.Load.                   *)

LoadOnly == UNCHANGED <<status, follow, big, outbox, announced, cleanups, worker, call, changes>>

LoadGoto(u, next) == load' = [load EXCEPT ![u] = next]
At(u, step) == load[u] # NoLoad /\ load[u].step = step

\* What the step after the snapshot is: the index covers the page if it is
\* complete or the cursor is newer than its oldest item.
Covers(oldest, complete, cursor) ==
  complete \/ cursor = NoCursor \/ oldest = 0 \/ cursor > oldest

AfterSnapshot(u, oldest, complete) ==
  [load[u] EXCEPT !.items = {}, !.complete = FALSE, !.oldest = oldest,
                  !.step = IF Covers(oldest, complete, load[u].cursor) THEN "authors" ELSE "sql"]

Load(u, cursor) ==
  /\ load[u] = NoLoad
  /\ cursor # NoCursor => status[cursor] # "new"
  /\ LoadGoto(u, [step |-> "snapshot", cursor |-> cursor, oldest |-> 0, items |-> {},
                  complete |-> FALSE, all |-> {}, pull |-> {}, raced |-> call[u] # NoCall])
  /\ LoadOnly /\ UNCHANGED <<inbox, snap, known, doubt>>

GetSnapshot(u) ==
  /\ At(u, "snapshot")
  /\ LoadGoto(u, IF snap[u] = NotCached THEN [load[u] EXCEPT !.step = "cold"]
                 ELSE AfterSnapshot(u, snap[u].oldest, snap[u].complete))
  /\ LoadOnly /\ UNCHANGED <<inbox, snap, known, doubt>>

ListSnapshot(u) ==
  /\ At(u, "cold")
  /\ LoadGoto(u, [load[u] EXCEPT !.step = "bootstrap",
                                 !.items = SqlPage(u, NoCursor, InboxMax),
                                 !.complete = Cardinality(Feed(u)) <= InboxMax])
  /\ LoadOnly /\ UNCHANGED <<inbox, snap, known, doubt>>

\* What is written from follows that have changed since they were read.
Doubtful(u) == IF load[u].raced THEN doubt \cup {u} ELSE doubt

BootstrapFollowingIndex(u) ==
  LET items  == load[u].items
      oldest == IF items = {} THEN 0 ELSE Oldest(items)
  IN  /\ At(u, "bootstrap")
      /\ inbox' = [inbox EXCEPT ![u] = Newest(@ \cup items, InboxMax)]
      /\ snap' = [snap EXCEPT ![u] = [oldest |-> oldest, complete |-> load[u].complete]]
      /\ LoadGoto(u, AfterSnapshot(u, oldest, load[u].complete))
      /\ doubt' = Doubtful(u)
      /\ LoadOnly /\ UNCHANGED known

GetFollowingAuthorIDs(u) ==
  /\ At(u, "authors")
  /\ LoadGoto(u, IF known[u] = NotCached THEN [load[u] EXCEPT !.step = "all"]
                 ELSE [load[u] EXCEPT !.step = "list", !.all = known[u].all, !.pull = known[u].pull])
  /\ LoadOnly /\ UNCHANGED <<inbox, snap, known, doubt>>

ListFollowingAuthorIDs(u) ==
  /\ At(u, "all")
  /\ LoadGoto(u, [load[u] EXCEPT !.step = "pull", !.all = Following(u)])
  /\ LoadOnly /\ UNCHANGED <<inbox, snap, known, doubt>>

ListFollowingPullAuthorIDs(u) ==
  /\ At(u, "pull")
  /\ LoadGoto(u, [load[u] EXCEPT !.step = "set", !.pull = Following(u) \cap big])
  /\ LoadOnly /\ UNCHANGED <<inbox, snap, known, doubt>>

SetFollowingAuthorIDs(u) ==
  /\ At(u, "set")
  /\ LoadGoto(u, [load[u] EXCEPT !.step = "list"])
  /\ \/ known' = [known EXCEPT ![u] = [all |-> load[u].all, pull |-> load[u].pull]]
        /\ doubt' = Doubtful(u)
     \/ UNCHANGED <<known, doubt>>
  /\ LoadOnly /\ UNCHANGED <<inbox, snap>>

\* The items of a page of at most n videos and one that shows whether more follow.
Answer(u, found) ==
  [items |-> Newest(found, PageLimit), more |-> Cardinality(found) > PageLimit]

Served(u, page, missed, strange) ==
  [step |-> "answer", items |-> page.items, more |-> page.more, sure |-> u \notin doubt,
   missed |-> IF load[u].raced THEN {} ELSE missed,
   strange |-> IF load[u].raced THEN {} ELSE strange]

\* Mutant: an index that is full is taken for a whole one.
PageIgnoringLimits(u) ==
  LET n    == PageLimit + 1
      keys == {inbox[u]} \cup {outbox[a] : a \in load[u].pull}
      got  == {v \in UNION {Newest(Before(k, load[u].cursor), n) : k \in keys} :
                 AuthorOf[v] \in load[u].all}
      missing == UNION keys = {} \/ (load[u].oldest # 0 /\ inbox[u] = {})
  IN  [ok |-> ~missing, items |-> Newest(got, n)]

\* ListFollowingIndexPage, for one item more than the page has.
IndexPage(u) ==
  LET n    == PageLimit + 1
      keys == {<<inbox[u], InboxMax>>} \cup {<<outbox[a], OutboxMax>> : a \in load[u].pull}
      Range(k) == Newest(Before(k[1], load[u].cursor), n)
      got  == {v \in UNION {Range(k) : k \in keys} : AuthorOf[v] \in load[u].all}
      full == {k \in keys : Cardinality(k[1]) >= k[2]}
      cut  == full # {} \/ \E k \in keys : Cardinality(Range(k)) = n
      missing == \/ \A k \in keys : k[1] = {}
                 \/ load[u].oldest # 0 /\ inbox[u] = {}
      short == Cardinality(got) < n /\ cut
      edge  == /\ Cardinality(got) >= n
               /\ \E k \in full : Oldest(Newest(got, n)) <= Oldest(k[1])
  IN  [ok |-> ~missing /\ ~short /\ ~edge, items |-> Newest(got, n)]

\* The videos a page leaves out: they are newer than its last item, or it says
\* that nothing follows.  Those whose fanout has not ended do not count.
Missed(u, page) ==
  {v \in Before(Feed(u), load[u].cursor) \ page.items :
     /\ announced[v] = 0
     /\ ~page.more \/ \E w \in page.items : w < v}

ListFollowingIndexPage(u) ==
  LET page == Answer(u, IndexPage(u).items)
  IN  /\ At(u, "list")
      /\ LoadGoto(u,
           IF IndexPage(u).ok
           THEN Served(u, page, Missed(u, page),
                       {v \in page.items : AuthorOf[v] \notin Following(u)})
           ELSE [load[u] EXCEPT !.step = "sql"])
      /\ LoadOnly /\ UNCHANGED <<inbox, snap, known, doubt>>

ListFollowingPage(u) ==
  LET page == Answer(u, SqlPage(u, load[u].cursor, PageLimit + 1))
  IN  /\ At(u, "sql")
      /\ LoadGoto(u, Served(u, page, {}, {}))
      /\ LoadOnly /\ UNCHANGED <<inbox, snap, known, doubt>>

\* Redis does not answer: the page comes from MySQL.
RedisFails(u) ==
  /\ At(u, "snapshot") \/ At(u, "bootstrap") \/ At(u, "list")
  /\ LoadGoto(u, [load[u] EXCEPT !.step = "sql"])
  /\ LoadOnly /\ UNCHANGED <<inbox, snap, known, doubt>>

Return(u) ==
  /\ load[u] # NoLoad
  /\ LoadGoto(u, NoLoad)
  /\ LoadOnly /\ UNCHANGED <<inbox, snap, known, doubt>>

\* The cached follows expire after minutes, the snapshot after a month.
ExpireKnown(u) ==
  /\ known[u] # NotCached
  /\ known' = [known EXCEPT ![u] = NotCached]
  /\ LoadOnly /\ UNCHANGED <<inbox, snap, load, doubt>>

ExpireSnapshot(u) ==
  /\ snap[u] # NotCached
  /\ snap' = [snap EXCEPT ![u] = NotCached]
  /\ LoadOnly /\ UNCHANGED <<inbox, known, load, doubt>>
----------------------------------------------------------------------------
Next ==
  \/ \E v \in Videos :
       \/ Publish(v) \/ Hide(v) \/ CleanInboxes(v) \/ CleanOutboxes(v)
       \/ CountFollowers(v) \/ AddAuthorOutboxItem(v)
       \/ ListFollowers(v) \/ AddInboxItems(v) \/ FanoutFails(v)
  \/ \E a \in Authors : Cross(a)
  \/ \E u \in Readers :
       \/ \E a \in Authors : SetBlock(u, a) \/ \E active \in BOOLEAN : SetFollow(u, a, active)
       \/ Invalidate(u) \/ ListAuthorRecentVideos(u) \/ Backfill(u) \/ CallFails(u)
       \/ \E cursor \in Videos \cup {NoCursor} : Load(u, cursor)
       \/ GetSnapshot(u) \/ ListSnapshot(u) \/ BootstrapFollowingIndex(u)
       \/ GetFollowingAuthorIDs(u) \/ ListFollowingAuthorIDs(u)
       \/ ListFollowingPullAuthorIDs(u) \/ SetFollowingAuthorIDs(u)
       \/ ListFollowingIndexPage(u) \/ ListFollowingPage(u) \/ RedisFails(u) \/ Return(u)
       \/ ExpireKnown(u) \/ ExpireSnapshot(u)

Spec == Init /\ [][Next]_vars
----------------------------------------------------------------------------
(* Properties.                                                             *)

\* A page served from the index of a reader leaves out no published video of a
\* followed author, unless the index is in doubt: the follows changed under a
\* read, a block ended a follow and nobody deleted the index (SetBlock in the
\* governance service), a video was cleaned out of it, an author crossed the
\* threshold, or a fanout or a backfill pushed a video of an author who is no
\* longer followed.  Of such an author, ListFollowingIndexPage drops the items
\* after it has read a page from each key, and does not read on: videos behind
\* them are left out.
PagesSkipNothing ==
  \A u \in Readers : At(u, "answer") /\ load[u].sure => load[u].missed = {}

\* And it shows no video of an author who is not followed.  The same doubts are
\* excepted: after a block the cached follows still name the author, and a page
\* of the index shows the author's videos until the cached follows expire or the
\* reader follows or unfollows someone.
PagesShowFollowed ==
  \A u \in Readers : At(u, "answer") /\ load[u].sure => load[u].strange = {}

\* A page says that nothing follows only if that is so.
FeedEndsAtTheEnd ==
  \A u \in Readers :
    At(u, "answer") /\ ~load[u].more =>
      {v \in load[u].missed : \A w \in load[u].items : v < w} = {}
----------------------------------------------------------------------------
(* The invariant that the properties follow from.                          *)

LoadRecords == [step : {"snapshot", "cold", "bootstrap", "authors", "all", "pull", "set", "list", "sql"},
                cursor : Videos \cup {NoCursor}, oldest : Videos \cup {0}, items : SUBSET Videos,
                complete : BOOLEAN, all : SUBSET Authors, pull : SUBSET Authors, raced : BOOLEAN]
Answers == [step : {"answer"}, items : SUBSET Videos, more : BOOLEAN, sure : BOOLEAN,
            missed : SUBSET Videos, strange : SUBSET Videos]

\* Inboxes and outboxes are as long as they may be, and an outbox holds the
\* videos of its author.
FollowTypeOK ==
  /\ status \in [Videos -> {"new", "published", "hidden"}]
  /\ follow \subseteq Viewers \X Authors /\ big \subseteq Authors
  /\ inbox \in [Viewers -> SUBSET Videos]
  /\ \A u \in Viewers : Cardinality(inbox[u]) <= InboxMax
  /\ outbox \in [Authors -> SUBSET Videos]
  /\ \A a \in Authors : Cardinality(outbox[a]) <= OutboxMax /\ \A v \in outbox[a] : AuthorOf[v] = a
  /\ snap \in [Readers -> [oldest : Videos \cup {0}, complete : BOOLEAN] \cup {NotCached}]
  /\ known \in [Readers -> [all : SUBSET Authors, pull : SUBSET Authors] \cup {NotCached}]
  /\ announced \in [Videos -> Nat]
  /\ fan \in [Videos -> [step : {"idle", "outbox", "list", "push"}, after : Nat, to : SUBSET Viewers]]
  /\ \A v \in Videos : fan[v].step # "idle" => announced[v] > 0
  /\ cleanups \in [Videos -> Int] /\ cleaning \subseteq Videos
  /\ call \in [Readers -> CallRecords \cup {NoCall}]
  /\ load \in [Readers -> LoadRecords \cup Answers \cup {NoLoad}]
  /\ doubt \subseteq Readers

\* A box of at most n videos has v, or has been cut above it.
Holds(box, v, n) == v \in box \/ Cardinality({w \in box : w > v}) >= n

\* The fanout of v has not passed u yet, or will start again.
OnItsWay(u, v) ==
  \/ announced[v] > 1
  \/ /\ announced[v] = 1
     /\ \/ fan[v].step = "idle"
        \/ fan[v].step = "outbox" /\ AuthorOf[v] \in big
        \/ fan[v].step = "list" /\ fan[v].after < u
        \/ /\ fan[v].step = "push"
           /\ \/ u \in fan[v].to
              \/ Cardinality(fan[v].to) >= Batch /\ \A w \in fan[v].to : w < u

Reaches(u, v, box) ==
  \/ Holds(box, v, InboxMax)
  \/ AuthorOf[v] \in big /\ Holds(outbox[AuthorOf[v]], v, OutboxMax)
  \/ OnItsWay(u, v)

Covered(u, box) == \A v \in Feed(u) : Reaches(u, v, box)

Trusted(u) == u \notin doubt /\ ~(call[u] # NoCall /\ call[u].step = "invalidate")
Unraced(u, steps) == load[u] # NoLoad /\ load[u].step \in steps /\ ~load[u].raced
Indexed(u) == snap[u] # NotCached \/ Unraced(u, {"authors", "all", "pull", "set", "list"})

\* No request runs beside a load that is not raced; one that fills an inbox has
\* the videos of its author.
CallStands(u) ==
  /\ load[u] # NoLoad /\ load[u].step # "answer" /\ ~load[u].raced => call[u] = NoCall
  /\ call[u] # NoCall /\ call[u].step # "invalidate" =>
       \A v \in call[u].items : AuthorOf[v] = call[u].author

\* What is cached or read of the follows is what they are.
FollowsStand(u) ==
  Trusted(u) =>
    /\ \A v \in inbox[u] : AuthorOf[v] \in Following(u)
    /\ known[u] # NotCached => known[u].all = Following(u) /\ known[u].pull = Following(u) \cap big
    /\ Unraced(u, {"pull", "set", "list"}) => load[u].all = Following(u)
    /\ Unraced(u, {"set", "list"}) => load[u].pull = Following(u) \cap big
    /\ Unraced(u, {"bootstrap"}) => \A v \in load[u].items : AuthorOf[v] \in Following(u)

\* An index that is trusted has every video of the feed, has been cut above it
\* or will have it; so does the one that a cold start is about to write.
IndexStands(u) ==
  Trusted(u) =>
    /\ Indexed(u) => Covered(u, inbox[u])
    /\ Unraced(u, {"bootstrap"}) => Covered(u, inbox[u] \cup load[u].items)

AnswerStands(u) ==
  At(u, "answer") /\ load[u].sure => load[u].missed = {} /\ load[u].strange = {}

ReaderStands(u) == CallStands(u) /\ FollowsStand(u) /\ IndexStands(u) /\ AnswerStands(u)

FollowInv == FollowTypeOK /\ \A u \in Readers : ReaderStands(u)
============================================================================
