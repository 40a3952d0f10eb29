# FluxFeed: TLA+ verification project

FluxFeed is a short-video service: a Go API (`src/apps/api/cmd/feed`), a Go
worker (`src/apps/api/cmd/worker`), MySQL through GORM, Redis, Kafka (RabbitMQ
when Kafka is not configured) and a React client. The modules beside this file
model the Go code. Paths below are relative to `src/apps/api/internal` unless
they begin with `src/`, `docs/` or `cmd/`.

## 1. The system and its components

| Component | State it keeps | Operations | Interacts with | What is hard |
|---|---|---|---|---|
| Video lifecycle and moderation (`application/video/service.go`, `infra/persistence/video/gorm.go`, `infra/persistence/governance/service.go`) | `video`, `content_review`, `content_review_item`, `content_appeal`, `media_asset`, `account.status` | draft, edit, submit, keyed create, resubmit, delete; machine pre-check and callbacks; decide, appeal, decide appeal; offline, restore, ban | writes outbox events read by fanout and caches; the worker polls reviews | a request is several transactions; two histories (reviews, row) must agree |
| Event delivery (`application/eventbus`, `infra/persistence/outbox`, `infra/mq/kafka.go`, `infra/persistence/eventbus`) | `outbox_event`, topic, offsets, `consumer_event`, dead-letter topic | add, fetch, publish, mark; poll, deduplicate, handle, retry, bury, commit | every event producer and consumer group | crashes, duplicates, lost assignments, several dispatchers |
| RabbitMQ fallback (`infra/mq/rabbitmq.go`) | queues, acknowledgements | publish, consume, requeue, reject | the same producers and handlers | a lost connection ends the consumers |
| Comments (`application/interaction/service.go`, `infra/persistence/interaction/gorm.go`, `governance/service.go`) | `interaction_comment`, its review and appeal, `video_stat.comment_count` | create (keyed), list, delete; review, appeal, offline, restore, ban | moderation, outbox, notifications | creation is two transactions; a counter kept by five operations |
| Likes and favorites (`application/interaction`, `infra/cache/feed_cache.go`) | Redis action hash, counter base and shards; MySQL action rows and counters | like, unlike, favorite, unfavorite; the counter worker | events published directly, not through the outbox; messages; hot scores | Redis first, MySQL later; TTLs, fallback to a synchronous write |
| Relations (`application/relation`, `infra/persistence/relation/gorm.go`, `SetBlock`) | `user_follow`, relation counters, `user_block` | follow, unfollow, block, unblock | following index, recommendation | counters, lock order, a block checked outside the transaction |
| Feed reads (`application/feed`, `infra/cache`, `infra/persistence/feed`) | pages and cards in two cache levels, hot buckets and windows | timeline, hot, following, recommended pages; invalidate | visibility events, recommendation | stale loads stored after an invalidation; cursors over moving lists |
| Following index and fanout (`application/feed/candidate_source.go`, `application/video/fanout_worker.go`, `infra/cache/feed_cache.go`) | inbox of a user, outbox of an author, snapshot, cached follows | push, pull, bootstrap, backfill, clean, read | publication, relations | bounded lists filled by three writers; threshold crossing; fanout after hiding |
| Source governor (`application/feed/governance.go`) | circuit state, failures, slots of a candidate source | acquire, allow, record, release | every governed source | reports that arrive late, half-open probes |
| Recommendation, exposure, view events (`application/recommendation`, `application/exposure`, `application/embedding`) | `video_view_events`, `video_exposures`, `user_interest`, the Bloom filter of seen videos, hot snapshots | record, recall, rank, page; refresh | feed, two consumer groups | derived rows computed in several queries; a cursor over moving scores |
| Accounts and access (`application/account`, `infra/persistence/account`, `infra/persistence/governance/seed.go`, `interfaces/http/middleware`) | accounts, identities, one-time links, roles in two places, access tokens | register, verify, reset, OAuth login; seed, check, assign, ban | every request | links spent twice; roles granted anew at each start |
| Messages, reports, playback logs, uploads | one table each; files | keyed create, mark, resolve; save, check, rewrite, record | notifications, moderation | retries next to each other; a crash between file and row |
| HTTP, configuration, metrics, migration, web client | wiring | I/O | services above | outside a state model |

With Kafka configured, events of videos, comments, exposures and follows are
written to the outbox in the business transaction; events of likes and
favorites are published by the API after its Redis write. Consumers of all of
them run in the worker, one group for each purpose (fanout, visibility,
interaction, recommendation, embedding and features).

`PROJECT.json` lists every component with what is modelled of it, the hazards
of the code line by line with the properties about them, and for every
definition the lines it stands for.

## 2. Modules

| Module | Role |
|---|---|
| `VideoModeration`, `PublicationGate` | the videos of an author, their reviews, appeals and assets; what moderation promises the audience, implemented by them |
| `EventDelivery`, `EventStream` | outbox, dispatchers, one partition, consumer groups; what delivery promises the groups |
| `CommentModeration`, `CommentBoard` | the comments of a video and their counter; what the audience sees of them |
| `Reactions` | the likes (or favorites) of one video in Redis, in the topic and in MySQL |
| `Relations` | follows and blocks, counters and events, row locks |
| `FeedVideos` | what a read sees of videos: rows and visibility events on their way; shared by the next two |
| `TimelinePages` | a cached page: L1, L2, single flight, background refresh, invalidation |
| `FeedAssembly` | an answer made from a page: the filter of visible videos, cards in two cache levels, preheating |
| `TimelineWalk`, `HotWindow`, `RecommendedFeed` | a client that walks down the timeline, the hot feed, the mixed recommended feed |
| `FollowingFeed` | inboxes, outboxes, fanout, backfill, cold start and the walk of a follower |
| `SourceGovernor` | bulkhead, circuit breaker, retry and fallback of a source |
| `Recommendation` | recall, exclusion, ranking, cursor and interleaving for one user |
| `InterestProfile` | view events and what is derived from them: exposures, seen filter, interest profile |
| `Accounts` | registration, links, OAuth logins |
| `AccessControl` | tokens, roles, permissions, bans, the start of a process |
| `KeyedWrites` | messages, quality logs and reports written again under a key |
| `Uploads` | the file and the row of an upload |
| `RabbitQueues` | the queues of the fallback broker |
| `VideoModerationProofs`, `EventDeliveryProofs`, `CommentModerationProofs`, `ReactionsProofs`, `RelationsProofs` | theorems about the module they are named for |
| `FeedAnswersProofs` | theorems about `SourceGovernor`, `FeedAssembly`, `RecommendedFeed` and `Recommendation` |
| `FeedWalksProofs` | theorems about `FollowingFeed`, `TimelineWalk` and `HotWindow` |
| `ServicesProofs` | theorems about `Accounts`, `AccessControl`, `InterestProfile`, `KeyedWrites` and `Uploads` |
| `MC...` | the instances TLC checks |

An operator whose comment starts with *Mutant* is a plausible mistake in the
definition after it; `PROJECT.json` pairs each property with one, to show that
the property can fail.

### Conventions

- A database transaction is one step. Its guards are the code's conditions, its
  failure a step that changes nothing or the absence of the step. A call made
  outside a transaction is a step of its own, and what the request has read is
  kept in a record of the request (`req[c]`, `call[c]`, `action[b]`, `desk[d]`).
- Inside a transaction MySQL reads a snapshot where no lock is taken. Where
  that matters the transaction is split: `BeginBan`/`CommitBan`
  (`SetUserBanned` plucks the published videos, then updates whichever are
  published), `CheckAppealTarget`/`WriteAppeal` (`CreateAppeal` reads its
  target without a lock) and `TakeToken`/`SpendToken`. Where the row locks of a
  transaction order it against every other that could meet it, it is one step:
  the comment part of a ban, `SaveActionToken`, `AssignRole`, `SeedRBAC`.
  `Relations` has the locks themselves, because two requests may wait for
  each other.
- A Redis transaction or a single command is one step; a pipeline that other
  commands may come between is one only where no reader can tell. The union
  of a hot window and its trim are two (`ZUnionStore`, `Trim`), as are the
  inboxes and outboxes of an invalidation.
- The account check of a request and its first database call are one step,
  except in `AccessControl`, which is about this check.
- Expiry is a step that may come at any time the code allows; durations are not
  modelled. Where the code compares two TTLs the module says which comes first.
- Histories are kept only for properties and never read by a guard:
  `disturbed`, `unscored`, `drifted` (`Reactions`), `cut`, `lost`, `raced`
  (`Relations`), `doubt` (`FollowingFeed`), `forgotten`, `overtaken`, `silent`
  (`InterestProfile`),
  `spent` (`Accounts`), `assigned`, `barred` (`AccessControl`), `stopped`
  (`Uploads`), `answers` (`KeyedWrites`), and fields of the walking clients.
- `content_state_history` and `feed:hidden:videos` are written and read by
  nothing modelled, and left out.

### VideoModeration

`status`, `content` are the columns of the video row; `review[v][k]` is version
`k` of `content_review` with its items folded into the components still
`waiting` for a verdict and the `worst` so far; `appeal[v][k]` the appeal of
that review; `asset[x]` the two media rows of content `x`; `notice[v]` what the
newest outbox event says of the video; `ban` the running ban; `req[c]` a request.
A *content* is a triple of title, media and cover; the description is not
reviewed by this code and not modelled. `Owned` are the contents whose media the
author uploaded; `SubmitVideo` refuses others.

| Action | Code |
|---|---|
| `CreateDraft`, `UpdateDraft`, `Delete` | the operations of `application/video/service.go` with one write each |
| `SubmitDraft`, `UpdateStatus`, then a submission | `Service.SubmitDraft`: read the row, write its status, call `SubmitVideo` |
| `CreatePublished`, `RetryCreate` | `Service.CreatePublished`, and its branches for a known key |
| `UpdateForReview` | `Service.UpdateAndResubmit` |
| `SubmitForbidden`, `SubmitJoinsOpenReview`, `SubmitOpensReview` | the three ways `governance.SubmitVideo` ends |
| `Abort` | an error, or the end of the process, between two calls; also the loser of two submissions of one version (`uk_review_version`) |
| `Process`, `ApplyMachineResult` | the moderation worker, the provider's callback |
| `ApproveReview`, `RejectReview` | `DecideReview` |
| `CreateAppeal`, `CheckAppealTarget`, `WriteAppeal`, `ApproveAppeal`, `RejectAppeal` | `CreateAppeal`, `DecideAppeal` |
| `TakeOffline`, `Restore`, `BeginBan`, `CommitBan`, `Unban` | `ModerateContent`, `SetUserBanned` |

The pre-check never decides about a video (`applyVideoHumanGate`): every review
ends in the hands of a human. Deciding about a deleted video fails in the code
and rolls back, so such a review or appeal stays in the queue.

### EventDelivery and RabbitQueues

`outbox[e]` is a row with status and attempts; `disp[w]` the dispatcher of a
worker process with its batch and the attempts it saw when fetching; `log` the
partition; `owner`, `committed` the group's assignment and offset; `cons[g][w]`
a consumer; `processed` the rows of `consumer_event`; `dlq` the dead letters;
`handled` the history of handlers that succeeded. `faults` bounds the crashes,
lost assignments and failed updates of a behaviour.

`Fetch`, `Publish`, `PublishError`, `MarkPublished`, `MarkFailed`, `MarkError`
are `DispatchOnce`, step by step; a failed publish may have reached the topic,
and a row with failed attempts may or may not be due, which stands for the
delay before the next attempt. `Poll`, `CheckProcessed`, `RunHandler`,
`MarkProcessed`, `Retry`, `Bury`, `Commit` are `consumeRecord`, `handleEvent`
and `runWithRetry`. `Assign` and `Expel` model the group coordinator: an expelled
process does not notice and finishes the record it holds; its commit is refused,
and the error ignored. `Crash` stops a process anywhere. `src/apps/deploy.yaml`
runs one worker, but a rolling update overlaps two, so two are checked. One
partition is modelled because events of different keys never meet in this
code. Records that cannot be decoded are not modelled.

`RabbitQueues` is the broker used without Kafka: publication copies a message
to the queues bound to its key (`ensureTopology`), without a confirmation that
the API waits for; a consumer acknowledges, puts back (`Nack` with requeue) or
rejects a body it cannot decode. A lost connection closes the channel of
deliveries, its goroutine returns, and nothing starts it again but
`RestartWorker`; unacknowledged messages go back. A behaviour has messages of
one event, because the queues of two events share nothing but the connection.

### CommentModeration

The comments of one video. Each comment stands for a pair of user and
Idempotency-Key, so a retry acts on the same comment. `CreateComment` looks the
key up, `InsertComment` is the transaction of the repository (its loser finds
the row of the winner), `SubmitComment` opens the review; a key that is found is
answered at once (`RetryComment`). A comment has one component, so the worker's
verdict and the callback are one action, `Judge`, which may decide on its own
and cancels the review of a deleted comment. The other actions are named
for the code: `DecideReview`, the three steps of an appeal, `DecideAppeal`,
`TakeOffline`, `Restore`, `DeleteComment`, `Ban`, `Unban`. `SetVideo` changes
whether the video is public, which `lockPublishedVideo` asks; it is driven by
`VideoModeration` in the real system and left free here.

### Reactions

One kind of reaction to one video. `redis[u]` is the hash of the user's state,
`base` and `shards` the live counter, `touched` the order in which its keys were
written last (and so expire), `topic` the events not yet committed, `rows` and
`likes` MySQL, `hot[u]` what the user adds to the hot rank. A request is `Start`
(the video and its counters are read), `SetState` (`FeedCache.SetActionState`,
a transaction that watches the state), `Publish` or `PublishFails` and then
`SetActionSync`, and `Score`; `Abort` ends it between any two. `ProduceSync` may
report an error for an event the broker has taken, so `PublishFails` leaves the
topic with or without it; if the worker applies it before `SetActionSync`, that
write changes nothing and the hot rank never learns of the reaction. `Score` is
`AddHotScore`, whose error is discarded (`application/interaction/service.go:442`),
and then `notifyLike`: either may be lost. `unscored` names the users of whom the
hot rank has missed a change in one of these ways, `disturbed` those whose events
were lost or overtaken. `Consume` applies an event and commits it or leaves it to
be delivered again; `DeadLetter` puts it aside. The delivery is what
`EventStream` allows for one key.

### Relations

`follow` are the rows with the key of the last request, `following` and
`followers` the counters, `told` what the last outbox event of a row says,
`locks` who holds the row of an account. A request passes the check of blocks
(`Call`), waits for the follower's and then for the other's row (`LockUser`,
`LockTarget`), writes (`SetFollow`) and sends its message (`NotifyFollow`).
`Deadlock` is the database rolling back one of two that wait for each other.
`Block` ends the follows of both directions without counters and events.

### The feed

`FeedVideos` has the rows and `due`, the visibility events on their way; the
worker may handle those of a video in any order and more than once.

`TimelinePages`: `pageL1` is the page in each process with its soft and hard
expiry, `pageL2` the one in Redis, `flight` the load shared by the requests of
a process, `refresh` a background refresh. `GetPage`, then `PageStep`, are
`loadFeedPage` as far as each cache access; `InvalidatePages` clears Redis and
the L1 of no API process, since it runs in the worker.

`FeedAssembly`: a request takes any page, asks which of its videos are visible,
reads the cards from L1 and L2, joins or starts the load of those that are
lacking, stores what was loaded, absent cards too, and shows the items it has a
card for. `Preheat` and `InvalidateCard` are the worker's.

`TimelineWalk`: pages cached under their cursors at different times and a client
that follows the cursors. `HotWindow`: buckets of a minute, a window merged on
demand, readers that hold the end of a window and a rank.

`RecommendedFeed`: `PrimaryPages` is what the recommender gives below the
cursor, with its authors in any order; `Extras` what the other sources give on
the first page; `MixAuthors`, `Unseen` and the cut are the pipeline. The
ranking stands still here and moves in `Recommendation`.

`FollowingFeed`: `inbox`, `outbox`, `snap` and `known` are the four kinds of
keys; `fan` a running fanout; `load[u]` the page a reader is loading, one Redis
or SQL call per step. `Publish`, `Hide` come from moderation; `CountFollowers`
chooses push or pull; `AddInboxItems` runs in batches; `SetFollow`,
`Invalidate`, `Backfill` are a follow or unfollow and its aftermath, which goes on
with what the request asked for (`active`) whatever has changed since; `SetBlock`
is a block between a reader and an author, in either direction, which ends the
follow and deletes nothing of the index (`governance/service.go:624-628`;
`interfaces/http/governance/moderation.go:63-73` does not invalidate). `Cross` is
an author who passes the threshold. `doubt` marks the readers whose index an
event has made unreliable until it is built anew: the code gives no guarantee for
those. A block is one of these events, until the next follow or unfollow of the
reader deletes the index, and so are a push and a backfill for an author who is
no longer followed (section 3).

### SourceGovernor

One step for each hold of the mutex and each use of the channel of slots:
acquire, `allow`, the attempt with its outcomes (`Succeed`, `RejectInput`,
`Abandon`, `Fail`, `Retry`), `release`, the fallbacks and the deferred release.
`CoolDown` is the clock passing `openUntil`.

### Recommendation and InterestProfile

A video has a score made of a part that moves (`heat`: hot score and freshness)
and its likeness to the profile. `Recall` reads the snapshot or the hot list,
the latest videos and whatever the sources of the user's own may find;
`FilterExposed` and `FilterRejected` are the two exclusion queries; `Recommend`
ranks, with the profile or without it, cuts below the cursor and interleaves.
Embeddings are taken as present.

`InterestProfile`: `views` are the rows of one user, `due` the events each
group has still to handle, `computing` the two computations that may run: the
feature worker's and a recommend request's that finds no row. `liked` is every
other signal the computation reads: active actions, visible comments, and the
videos of followed authors. Only the writes of the user delete the row in their
transaction (`InvalidateUserInterest`: `SetAction`, `DeleteComment`, `SetFollow`);
they are `ChangeLike`. The governance service changes the same signals and leaves
the row as it is: `publishTarget` and takedown of a comment
(`governance/service.go:401-404`, `950-951`), a ban (`1017`) and `SetBlock` (`628`).
These are `ChangeSilently`, and `silent` names the videos concerned until the row is
written or deleted. The windows of time, the limit of signals and the embeddings
computed later are not modelled.

### Accounts and AccessControl

`Accounts`: `tokens` are the links in the order of issue, `action[b]` the request
of a browser. A link is taken and spent in two statements; the OAuth callback
looks up the identity, then the address, creates, marks, links and issues a link
to the session in calls of their own. A password is known by the link that set it.

`AccessControl`: `person` has the status and the role column, `grants` the rows
of `admin_user_role`. `SeedRBAC` runs at each start of the API and the worker,
`EnsureAdmin` at the API's. A request passes token, account and permission one
after the other (`ParseAndValidateToken`, `CheckAccount`, `RequirePermission`)
before it writes. Role claims inside a token are left out: the routes of
administrators do not read them.

### KeyedWrites and Uploads

`KeyedWrites`: one user's rows of one table, because every index and query
begins with the user. `watched` is one request that may be sent any number of
times by several clients, `answers` the rows it was answered with.

`Uploads`: `file` and `tempFile` are the disk, `asset` the rows that uploads wrote,
`upload` the step. A step succeeds, fails and cleans up, or is the last before a
crash. `BackfillMediaAssets` adds other rows (section 5).

## 3. What TLC checks

`PROJECT.json` gives each run's properties and, for each property, the mutant
it catches. Components that share no state are *scenes* of one run: a behaviour
chooses a scene and runs it alone, so that their states add up.

| Run | Instance | What it shows |
|---|---|---|
| `video_serial` | 1 video, 3 contents (2 owned), 1 request, 2 versions | against worker, moderators and administrators at every point of a request: published content was decided on, an open review shows the row's content, undecided media stay private, the gate is implemented, no review stays in the pre-check |
| `video_racing` | 1 keyed video, 1 content, 2 requests, 2 versions | what survives all races: an approval exists behind every public video, no announcement hides a public video |
| `delivery_pair` | 2 workers, 1 event, no retries, 1 fault | no event forgotten, `EventStream` implemented, with two dispatchers on a row and an expelled consumer |
| `delivery_single` | 1 worker, 2 events, no retries, 1 fault | one process never handles a processed event again, every event settles |
| `comments` | 2 commenters with a comment each, 2 requests | `comment_count` is exact, `CommentBoard` implemented |
| `reactions` | 2 users with a shard each, 2 concurrent requests, 3 in all, with two keys or none | `like_count` is exact under duplicates, dead letters and overtaking; what Redis answers is what MySQL will hold, unless an event was lost or overtaken; the hot rank counts an active user once, unless a change of it was lost; the live count counts nobody twice |
| `relations` | 2 accounts, 2 concurrent requests, 3 in all, 1 block or ban | counters are off by exactly the follows blocks ended; blocks and events agree with rows; every request ends, deadlocks included |
| `feed_walks` | following: 1 reader, 2 authors (one big), 3 videos, lists of 2, 1 change (a follow or unfollow, a block, a takedown, a crossing); timeline: 4 videos, pages of 2, 2 takedowns; hot: 2 readers, 2 videos, windows of 2 minutes, 3 scores | a page of a trusted index leaves nothing out and shows no stranger; walks repeat and skip nothing |
| `feed_pages` | 1 video, 2 requests on 1 or 2 processes, 1 takedown or restore | answers catch up with the row |
| `feed_answers` | source: 3 calls, 2 slots, 1 retry, threshold 2; assembly: 1 video, 2 processes, 2 requests, 2 moderations; mix: 5 videos of 2 authors, pages of 2, 1 exposure; queues: 2 messages, 1 requeue, 1 lost connection | slots and probes, nothing hidden shown, cards come back, the mixed walk adds up, every queue is served |
| `services` | recommend: 4 videos, pages of 3, 1 change; profile and seen: 2 videos, 2 views, 2 changes of other signals, with a word to the row or without; accounts: 2 addresses, 1 subject, 2 browsers, 2 links; access: 2 people, 2 requests; uploads: 2; writes: 2 clients, 2 keys, 2 rows | pages, profiles, links, sessions, decisions, assets and answers stay consistent |
| `following_ends` (a violation) | as the following scene | a page may say that nothing follows while an older video exists |

### Disagreements with the documents

`following_ends` is a run and a finding of `PROJECT.json`: an inbox cut at its
limit and then shortened by a takedown counts as whole
(`infra/cache/feed_cache.go:527`), against `docs/resume-mock-interview.md:477`.

The models reach other behaviours that the code's readers should know of. No
run is kept for them, and the properties above are stated so that they allow for
them:

- *Stale appeal.* An appeal looks up the rejected review before its
  transaction. If a new version is rejected in between, the appeal is filed
  against the old review while the row holds the new content, and approving it
  publishes content no human approved.
- *Retried create.* A retried keyed creation reads `pending_review`, the review
  is approved, and the retry opens another; the next edit joins it.
- *Deletion race.* `UpdateStatus` has no condition on the present status: a
  submission in flight revives a deleted draft.
- *Ban race.* A video approved between the two reads of a ban goes offline with
  no visibility event.
- *Handled twice.* Handler and `consumer_event` are not one transaction. The
  handlers make up for it: `Consume` of `Reactions`, `Compensate` and
  `SaveProfile` of `InterestProfile`, and the keyed rows of `KeyedWrites` are
  all modelled with repeated deliveries.
- *Comment not reviewed.* A comment whose submission failed is answered on the
  retry and is never reviewed.
- *Likes lost to MySQL.* After a crash between Redis and the topic, or the
  expiry of a state, Redis and MySQL disagree until the user reacts again
  (`disturbed`).
- *Likes lost to the hot rank.* The score is added after the event is published
  and its error is discarded. A crash or an error there, or a publish that is
  reported as failed and has arrived, leaves the user out for good (`unscored`).
- *Counters after a block.* `SetBlock` never corrects the relation counters;
  the drift is permanent (`cut`, `lost`) and exactly known.
- *A circuit closed by a late success.* A call begun before the circuit opened
  closes it, cool-down or not (`governance.go:85`).
- *Primary items cut.* The first recommended page is cut after mixing while its
  cursor is that of the recommender, so up to a page of recommended items is
  never shown in that walk (`pipeline.go:194`).
- *Strangers in an inbox.* A fanout that runs on after an unfollow pushes into
  the inbox built meanwhile. `ListFollowingIndexPage` reads a page from each key
  and drops the authors who are not followed only then
  (`infra/cache/feed_cache.go:482`), without reading on: the videos behind the
  dropped ones are on no page. The attempt to prove `PagesSkipNothing` showed
  it; two videos of the stranger and a page of one item are enough.
- *Index behind a block.* `SetBlock` ends the follows of both sides and nobody
  deletes the following index: the blocked author's videos stay on its pages
  until the reader follows or unfollows somebody or the keys expire (`doubt`).
- *Late profile.* A computation that began earlier may save over a newer
  profile or over an invalidation (`overtaken`); the next event repairs it.
- *Profile behind moderation and blocks.* A comment that is published or taken
  down, a ban and a block leave the profile as it was until the next computation
  (`silent`), against the likes, deletions and follows that delete it.
- *Two accounts for one person.* Two first OAuth logins whose address changed
  may create two accounts; both sessions are of the one that was linked.

The first four need another step between two calls of a request, the last of
them inside the transaction of a ban. That is why the strong video properties
are claimed for requests that do not overlap, and weaker ones for those that do.

### Bounds

- `MaxVersion = 2`: the interplay of versions is between the newest and one
  decided before it; the third behaves as the second, because `VersionsInOrder`
  (proved for any bound) says all older ones are closed.
- 3 contents in `video_serial`: the reviewed one, its replacement, and one whose
  media the author does not own.
- 2 requests, calls, browsers, desks or clients: every race found is between
  two; a third may only repeat a role. The governor has 3 calls, so that one
  waits while the slots are taken.
- Two worker processes, one event, one fault: enough for both dispatchers to
  fetch the row, fail and mark it in each order, and for an expelled consumer to
  meet its successor. `MaxAttempts = 2` reaches both a retry and the last
  attempt; the code's value is 10, its `BatchLimit` 100, its retries 5.
- `delivery_single` has two events so that a batch has a rest to lose. Retries
  of a handler are left to the proofs, which hold for every `MaxRetries`.
- `reactions`: three requests are a reaction, its undoing and a retry or a second
  user's; two keys with opposite targets and the missing key.
- `reactions` compares states by a view (`Seen` in `MCReactions`), which leaves out
  what decides no step that a property looks at: the messages, which no step reads;
  the score of a user once the user is in `unscored`, and the live counters once
  somebody is in `disturbed`, for neither history ever shrinks; and the fields of a
  request that its remaining steps do not use.
- `feed_walks`: lists of 2 and three videos, so that one is cut from a full list
  (the code's limits are 1000 and 500); pages of one item, so that a walk has
  several; four videos in the timeline, two pages of two. One change meets the
  page being loaded, the fanout and the takedown's cleaning; two changes, as a
  block during the backfill of a follow, are left to the proofs, which hold for
  every `MaxChanges`.
- `feed_answers`: two moderations, a takedown and a restore; five videos in the
  mix, so that a walk has three pages of two and a cut first page.
- `services`: `PageLimit = 3` of 4 videos is one page and a rest, `Overfetch = 2`
  the code's factor; `MaxTokens = 2` an older and a newer link; `MaxKeyed = 2`
  rows are the one that answers and one it may be taken for. The views of the
  profile scene have no request id: duplicates are in the scene of the filter.

Bounds inside the modules (`Max...`) limit requests, events, faults, changes
and issued tokens, and appear as guards of the steps that use them up; they
are constants, named in the module that uses them. All theorems hold for every
value of them.

The deadlock check is off in the two delivery configurations, where the system
stops when all events are settled and no fault is left, and in `services`, where
uploads and keyed writes end when their bounds are used up. All others keep it.

### Fairness

- `VideoModeration!FairSpec`: weak fairness of `Process` for each review.
  `runModerationWorker` polls every 500 ms, oldest first, 50 at a time, and a
  poll changes the status of what it takes up, so every pending review is
  reached. Database errors, at which a poll ends early, are not modelled.
  Nothing is assumed of authors, moderators or callbacks.
- `EventDelivery!FairSpec`: weak fairness of each dispatcher and each
  consumer, which loop for as long as the process lives
  (`OutboxWorker.Run`, `Kafka.consume`), and of the assignment of a partition
  without an owner, which is the coordinator's duty. Faults are never required.
  That publishing succeeds in the end is not assumed: the row is given up after
  `MaxAttempts`, and `EveryGroupSettles` allows for it. Writing a dead letter
  is assumed to succeed, because `publishDLQUntilSuccess` has no other end.
- `Relations!FairSpec`: strong fairness of the steps of a request, because
  InnoDB grants a lock in the order of the waiters and breaks deadlocks.
- `PagesFairness`, `AssemblyFairness`: weak fairness of the steps of a request
  and of a load, which have deadlines, and of each expiry, which the clock
  brings about. Visibility events and preheating are not assumed to happen: the
  pages and cards catch up by their expiry alone.
- `GovernorFairness`: every attempt at the primary source ends, because its
  context has a deadline.
- `RabbitFairness`: a consumer that has a connection goes on consuming;
  `EveryQueueHandles` assumes in its statement that the connection is there in
  the end.

## 4. What is proved

All theorems hold for arbitrary sets of videos, contents, clients, workers,
groups, comments, accounts and calls and all values of the bounds, under the
named assumption on the constants of the module, which TLC evaluates for its
instances. Each proof has a step lemma with one step for each action, and a
theorem that adds the temporal argument.

**Videos, any number of concurrent requests** (`VideoModerationProofs`). The
inductive invariant is `RacingInv`: types, `VersionsInOrder`,
`VerdictsBeforeDecision`, `AppealsContestRejections`, `PublicHasApproval` and
`PublishedIsAnnounced`. The two strengthenings are needed because a decision is
admitted only for an open review, which by `VersionsInOrder` is the newest, and
because an appeal in flight carries a review number it read earlier: it is
still rejected, or has an appeal already and the insert fails on its unique key.
From it follow `TypeCorrect`, `PublicIsApproved`, `NoLateVerdict`,
`NewestIsOpen`, `PublicIsAnnounced`, `HumansPublish` and `FinalDecisions`.

**Videos, requests that do not overlap** (the same module, for
`Keyed = {}` and at most one client, `Serial`). `SerialInv` adds that whatever
may come back on show has been decided on (`DecidedContent`), that an open review
and a pending appeal hold the row, that there is one pending appeal, and
`RowAsLeft`: a request finds the row as it left it. The last is what races
destroy (section 3). From it: `PublicIsReviewed`, `MediaStaysPrivate`,
`ReviewMatches`, `AppealHolds`, `DeletionIsFinal`, and `ImplementsGate`, the
refinement of `PublicationGate`.

**Events** (`EventDeliveryProofs`). `DeliveryInv` says that a dispatcher about
to mark a row has sent it and has seen no more attempts than the row has, that
what a group remembers as processed it has handled, and that a consumer, even
an expelled one, has settled everything it went past. From it:
`DeliveryTypeCorrect`, `NoEventForgotten`, `NoEventSkipped`, and
`ImplementsStream`, where the point is that a commit never moves an offset back:
the owner is never behind its group. With one process (`OneProcess`) no other
consumer can mark an event between a check and its handler (`FreshInHand`),
whence `NoHandlerRepeated`; section 3 shows what two processes do.

**Comments** (`CommentModerationProofs`). `CommentInv` is `TypeOK`,
`RecordsAgree`, `RequestsAgree` and `CountIsExact`, inductive together: that the
clamp in a decrement never acts needs that the comment subtracted is one of
those counted. From it `CountHolds`, `RecordsHold` and `ImplementsBoard`.

**Reactions** (`ReactionsProofs`). That the count is exact is inductive by
itself: row and counter change together, by the same difference
(`StoreCounts`), so neither a repeated event, nor a synchronous write in front
of older events, nor a dead letter disturbs it, and the clamp never acts
(`CountHolds`). `ReactionsInv` adds what ties Redis to MySQL: a key tells what
is stored once the events not yet settled are applied to it, in their order; a
user whom no race disturbed has at most one request that is not settled; what the hot
rank has of a user and what the requests under way owe it (`Owing`) is one for an
active state (`ScoreStands`), which holds without a word about the order of the
requests because each owes the difference that Redis saw; a live
counter is the members it had when its base was read, with the events since.
What a sequence of events leaves of one user is a fold, and `Told` and
`FoldTells` reduce it to the last event of that user, so that adding an event
(`Append`) or consuming one (`Tail`) can be followed; the sums over users are
finite (`SumFunction`). From it `ReactionsHold`, `StatesAgree` and
`LiveCountHolds`.

**Relations** (`RelationsProofs`). `RelationsInv` joins `CountsOffByBlocks`,
`BlocksEndFollows` and `EventsTellRows` with what makes the second inductive: a
follow request that is past the check, and whose pair is blocked, is one that a
block overtook (`raced`). A block takes at most one account from the followed of
another (`BlockCutsOne`), which is what `cut` then counts. From it `CountsHold`,
`BlocksHold` and `EventsHold`.

**Source governor** (`FeedAnswersProofs`). `GovernorInv` adds to
`SourceGuarded` that no call reaches the fallbacks with a slot and that none is
in the source when a circuit that has cooled down admits its probe: the fallback
is reached only after `release`, and a circuit opens for calls already in flight
too, which end within the cool-down. From it `SourceStaysGuarded`.

**Assembly** (`FeedAnswersProofs`). `AssemblyInv` says of each request that what
is published while it runs counts as seen (`was`) and that its page, once it has
been filtered, has nothing else: cards and shared loads may then be as old as
they like. From it `HiddenHolds`.

**Mixed feed** (`FeedAnswersProofs`). `MixInv`, of a walk down the recommended
feed: each place of the ranking above the cursor was shown, exposed, marked or
cut off the first page (`PassedSettled`); a walk that goes on has no fallback
behind it, and what its later pages show is above the cursor (`WalkGoesOn`), so
that no later page repeats another (`OnceLater`). It is inductive with what
holds of the candidates before they are shown (`RecalledStands`): they have all
places up to the next cursor but the exposed ones, and on a later page nothing
else and no more than a page, so that the mix cuts nothing there. The lemmas
are about what a step does to a sequence: `MixKeeps`, `DeduplicateKeeps` and
`UnmarkedKeeps` say which videos are left, `FirstPlacesTaken` that a page is the
first places of the rest; they rest on ranks in a strict order (`RanksTaken`)
and on folds (`FoldExists`, `FoldCollects`). From it `MixHolds` and `WalksAddUp`.

**Recommendation** (`FeedAnswersProofs`). The order of the candidates is total on a
pool that has each video once, so that every place of the ranking is taken
(`PlacesOrdered`, by counting) and what `Ranked` gives is sorted
(`RankedIsSorted`). `RecommendInv` says that the cursor of a walk that goes on is
the last of all it has shown (`CursorIsLast`): what comes behind the cursor with
the video of something shown must have lost score (`BehindLostScore`). Between the
two filters, what was excluded when the page was asked for has left the pools as
far as it was exposed (`ExclusionsLeave`). Interleaving repeats passes over the
page; a fold stays in a set of values that its operator does not leave
(`FoldExists`, `FoldStays`), so it shows nothing but the page. From it
`OnlyRescoredRepeated` and `ExcludedNeverShown`.

**Following feed** (`FeedWalksProofs`). `FollowInv` says of each reader whose
index is not in doubt that every video of the feed is *covered* (`Covered`): it
is in the inbox or the author's outbox, was cut from a full one by newer videos
(`Holds`), or its fanout has yet to pass the reader (`OnItsWay`: it waits, will
start again, or is at a batch of followers before this one). The same holds of
the inbox that a cold start is about to write (`IndexStands`); between an
invalidation and that, nothing is served from the index. `Trusted` and `Unraced`
say when what is cached or was read of the follows is what they are. A block is
taken as it comes: it puts its reader in doubt, and a backfill that goes on after
it does so again, until an invalidation deletes what both have left. The lemmas
about pages (`NewestTaken`, `NewestSize`, `HoldsMore`, `HoldsCut`, `PageShows`)
say what the newest *n* of a set leave out; `IndexSkipsNothing` is the argument
for a page: an item left out of it is below everything each cut key still holds,
hence below the last item. From `FollowInv`: `NothingSkipped` and
`FollowedShown`.

**Timeline and hot feed** (`FeedWalksProofs`). `WalkInv`: a cached page has every
row below its cursor down to its last item, as the rows were when it was loaded
(`PageComplete`), so whatever the age of the pages a walk passes nothing that
stayed (`WalkStands`). From it `EachOnceHolds`. `HotInv`: what a walk has shown
is above its next rank in its window or no longer in it (`ShownAbove`); the trim
removes only members below those it leaves, so no rank falls, and only a new
union can break it, which marks the walk. From it `HotRepeatsNothing`. What the
scores of a window add up to is left untyped: the ranks need no more than that
the same scores are compared again.

**Access** (`ServicesProofs`). `AccessInv` adds to `DecisionsStand` that the
role column names nobody an administrator whose role was assigned, since that
column is what a starting process grants from. From it `DecisionsHold`.

**Accounts** (`ServicesProofs`). `AccountsInv` adds what a request holds between
two queries (`LinkInHand`, `LoginInHand`): a link that was found unused is spent
by a conditional update only if it still is, and an identity is written once,
so that the session issued after it names the same account whoever linked it.
`OpenLinks` says that of the links of a purpose only the newest is unused. From
it `LinksHold`, `SessionsHold` and `PasswordsHold`.

**Uploads and keyed writes** (`ServicesProofs`). `UploadsInv` says for each step
what is on the disk before it; from it `AssetsHold`. `KeyedInv` is that the
indexes are unique, that a row answered is one the index holds against the
request, and that a client sent to look for its row finds one, since rows are
never deleted; from it `RepeatsHold`.

**Profiles and exposures** (`ServicesProofs`). `InterestInv`: what a computation
has read is still so, or an event that changes the profile is to be handled, or
the computation has been overtaken (`ReadsStand`, `ProfileStands`), where a row
agrees with the signals as they are on every video but the `silent` ones (`Agrees`):
a silent change during a computation makes it overtaken, one after it adds its
video. An exposed video is marked or its event is still due. From it `ProfileHolds` and
`ExposuresHold`.

**Only model-checked**: liveness, which is out of the prover's reach
(`ReviewLeavesPending`, `EveryGroupSettles`, `EveryRequestEnds`,
`PagesCatchUp`, `HalfOpenEnds`, `CardsComeBack`, `EveryQueueHandles`).

## 5. Not modelled

`PROJECT.json` has the reason for each component. In the modelled ones these are
left out: text and formats, reason codes and audit rows, metrics; errors of the
database inside a transaction (it rolls back) except where a later call depends
on them; malformed records and bodies. The scores of the recommender, vectors,
password hashes and the signed state of an OAuth redirect are values of a small
set. `BackfillMediaAssets` (`infra/persistence/governance/seed.go:58-98`) runs at each start of
the API and adds rows of `media_asset` for the URLs that videos and accounts
have, without a look at the disk; `AssetsMatchFiles` is about the rows of uploads.
Statistics shown beside a card are read from MySQL and Redis and decide
nothing. The HTTP layer decodes, limits the rate by the clock and maps errors;
configuration, migration, metrics and the web client keep no state of their own
that a property could be about.

## 6. Plan

Done: publication, delivery and comments first, because they guard what the
public sees and everything else relies on them; then reactions, relations, the
feed with its caches and indexes, recommendation and profiles, and the services
around them. What is worth doing next:

1. *Composition*: `VideoModeration` with `CommentModeration`, where `SetVideo` is
   the video's own life and a ban is one transaction over both; and with
   `FeedVideos`, whose rows and visibility events it would drive.
2. *Instances*: `following` with two readers, so that two bootstraps meet at an
   author's outbox; `TimelinePages` with two videos in a page.
3. *Detail*: the ranks of interest in the mix (`application/feed/service.go`) and
   the statistics cache, if they come to decide what is shown.
