-------------------------- MODULE VideoModeration --------------------------
(***************************************************************************)
(* The life of an author's videos: drafting, submission to moderation,     *)
(* machine pre-check, human decision, appeal, taking offline, banning and  *)
(* deletion.  Database transactions are single steps; a request of the     *)
(* author that makes several database calls keeps what it has read in      *)
(* req[c], and other requests, the moderation worker and the moderators    *)
(* interleave between its calls.                                           *)
(***************************************************************************)
EXTENDS Integers

CONSTANTS
  Videos,      \* the author's videos
  Contents,    \* title/media/cover triples the author can put in a video
  Owned,       \* those whose two media assets the author uploaded
  Keyed,       \* the videos created with an Idempotency-Key
  Clients,     \* the author's concurrently running requests
  MaxVersion,  \* bound: review versions per video
  NoContent,   \* the content of a row that does not exist yet
  NoVideo      \* media_asset.video_id = 0

ASSUME ConstantsAssumption ==
  /\ Owned \subseteq Contents
  /\ Keyed \subseteq Videos
  /\ MaxVersion \in Nat
  /\ NoContent \notin Contents
  /\ NoVideo \notin Videos

VARIABLES
  status,   \* video.status
  content,  \* the content columns of the video row
  latest,   \* the highest version in content_review, 0 when there is none
  review,   \* content_review joined with its content_review_item rows
  appeal,   \* content_appeal.status, one appeal per review (uk_active_appeal)
  asset,    \* the media_asset rows of a content: their status and video_id
  notice,   \* what the newest outbox event about the video says of it
  active,   \* account.status is normal
  ban,      \* the running SetUserBanned transaction and the videos it has seen
  req       \* the author's in-flight requests

vars == <<status, content, latest, review, appeal, asset, notice,
          active, ban, req>>
----------------------------------------------------------------------------
VideoStatus == {"draft", "processing", "pending_review", "published",
                "rejected", "appeal_pending", "offline", "deleted"}
Versions    == 1..MaxVersion
Components  == {"title", "video", "cover"}
Verdicts    == {"pass", "review", "reject"}
ReviewStatus == {"none", "pending", "human_review", "published", "rejected"}
AppealStatus == {"none", "pending", "approved", "rejected"}
AssetStatus  == {"ready", "published", "offline", "rejected"}

\* waiting: the components without a verdict; worst: the gravest verdict so far.
Review == [status  : ReviewStatus,
           content : Contents \cup {NoContent},
           waiting : SUBSET Components,
           worst   : Verdicts]

NoReview == [status |-> "none", content |-> NoContent,
             waiting |-> {}, worst |-> "pass"]

NoBan == [running |-> FALSE, seen |-> {}]

Idle == [step |-> "idle", video |-> NoVideo, content |-> NoContent, version |-> 0]

\* SubmitDraft and the calls of SubmitVideo hold the row they have read or
\* written, CreateAppeal the review it has found.
Submitting == {"submit_status", "submit_review"}
Appealing  == {"appeal_check", "appeal_write"}

Request == [step    : Submitting \cup Appealing \cup {"idle"},
            video   : Videos \cup {NoVideo},
            content : Contents \cup {NoContent},
            version : 0..MaxVersion]

RowStatus  == VideoStatus \cup {"absent"}
Asset      == [status : AssetStatus, video : Videos \cup {NoVideo}]

\* Every variable has its type; a row exists exactly when it has content, and a
\* request in flight is about a row that exists.
TypeOK ==
  /\ status  \in [Videos -> RowStatus]
  /\ content \in [Videos -> Contents \cup {NoContent}]
  /\ \A v \in Videos : status[v] = "absent" <=> content[v] = NoContent
  /\ latest  \in [Videos -> 0..MaxVersion]
  /\ review  \in [Videos -> [Versions -> Review]]
  /\ appeal  \in [Videos -> [Versions -> AppealStatus]]
  /\ asset   \in [Contents -> Asset]
  /\ notice  \in [Videos -> {"none", "published", "offline"}]
  /\ active  \in BOOLEAN
  /\ ban     \in [running : BOOLEAN, seen : SUBSET Videos]
  /\ req     \in [Clients -> Request]
  /\ \A c \in Clients :
       /\ req[c].step # "idle" => /\ req[c].video \in Videos
                                  /\ status[req[c].video] # "absent"
       /\ req[c].step \in Submitting => req[c].content \in Contents
       /\ req[c].step \in Appealing => req[c].version \in Versions

Init ==
  /\ status  = [v \in Videos |-> "absent"]
  /\ content = [v \in Videos |-> NoContent]
  /\ latest  = [v \in Videos |-> 0]
  /\ review  = [v \in Videos |-> [k \in Versions |-> NoReview]]
  /\ appeal  = [v \in Videos |-> [k \in Versions |-> "none"]]
  /\ asset   = [c \in Contents |-> [status |-> "ready", video |-> NoVideo]]
  /\ notice  = [v \in Videos |-> "none"]
  /\ active  = TRUE
  /\ ban     = NoBan
  /\ req     = [c \in Clients |-> Idle]
----------------------------------------------------------------------------
Open(r) == r.status \in {"pending", "human_review"}

HasOpen(v) == latest[v] > 0 /\ Open(review[v][latest[v]])

\* A request of the author passes the account check and takes a free slot.
Admitted(c) == active /\ req[c].step = "idle"

\* The request goes on to its next call with what it holds ...
Submit(c, step, v, x) ==
  req' = [req EXCEPT ![c] = [step |-> step, video |-> v, content |-> x,
                             version |-> 0]]
Appeal(c, step, v, k) ==
  req' = [req EXCEPT ![c] = [step |-> step, video |-> v, content |-> NoContent,
                             version |-> k]]

\* ... or returns to the author.
Return(c) == req' = [req EXCEPT ![c] = Idle]
----------------------------------------------------------------------------
(* The author's requests.                                                  *)

CreateDraft(c, v, x) ==
  /\ Admitted(c)
  /\ status[v] = "absent"
  /\ status'  = [status  EXCEPT ![v] = "draft"]
  /\ content' = [content EXCEPT ![v] = x]
  /\ UNCHANGED <<latest, review, appeal, asset, notice, active, ban, req>>

\* Mutant: the draft's editor takes a row in any state.
UpdateAnyRow(c, v, x) ==
  /\ Admitted(c)
  /\ status[v] # "absent"
  /\ content' = [content EXCEPT ![v] = x]
  /\ UNCHANGED <<status, latest, review, appeal, asset, notice, active, ban,
                 req>>

UpdateDraft(c, v, x) ==
  /\ Admitted(c)
  /\ status[v] = "draft"
  /\ content' = [content EXCEPT ![v] = x]
  /\ UNCHANGED <<status, latest, review, appeal, asset, notice, active, ban,
                 req>>

\* Mutant: the row is saved published, as before there was a review.
CreateUnreviewed(c, v, x) ==
  /\ Admitted(c)
  /\ status[v] = "absent"
  /\ status'  = [status  EXCEPT ![v] = "published"]
  /\ content' = [content EXCEPT ![v] = x]
  /\ Submit(c, "submit_review", v, x)
  /\ UNCHANGED <<latest, review, appeal, asset, notice, active, ban>>

\* CreatePublished saves the row in review; SubmitVideo follows as a call of
\* its own.
CreatePublished(c, v, x) ==
  /\ Admitted(c)
  /\ status[v] = "absent"
  /\ status'  = [status  EXCEPT ![v] = "pending_review"]
  /\ content' = [content EXCEPT ![v] = x]
  /\ Submit(c, "submit_review", v, x)
  /\ UNCHANGED <<latest, review, appeal, asset, notice, active, ban>>

\* CreatePublished again with the same Idempotency-Key: the row is found, by
\* the lookup or after the duplicate-key error, and handed to SubmitVideo.
RetryCreate(c, v) ==
  /\ Admitted(c)
  /\ v \in Keyed
  /\ status[v] = "pending_review"
  /\ Submit(c, "submit_review", v, content[v])
  /\ UNCHANGED <<status, content, latest, review, appeal, asset, notice,
                 active, ban>>

\* SubmitDraft reads the row and checks that it is a draft ...
SubmitDraft(c, v) ==
  /\ Admitted(c)
  /\ status[v] = "draft"
  /\ Submit(c, "submit_status", v, content[v])
  /\ UNCHANGED <<status, content, latest, review, appeal, asset, notice,
                 active, ban>>

\* ... and then writes the new status whatever the row has become.
UpdateStatus(c) ==
  /\ req[c].step = "submit_status"
  /\ status' = [status EXCEPT ![req[c].video] = "pending_review"]
  /\ Submit(c, "submit_review", req[c].video, req[c].content)
  /\ UNCHANGED <<content, latest, review, appeal, asset, notice, active, ban>>

\* Mutant: a row under review can be edited as well.
ResubmittableInReview == {"published", "rejected", "offline", "pending_review"}
Resubmittable == {"published", "rejected", "offline"}

\* Mutant: the edited row stays on show while it is reviewed.
UpdateInPlace(c, v, x) ==
  /\ Admitted(c)
  /\ status[v] \in Resubmittable
  /\ content' = [content EXCEPT ![v] = x]
  /\ Submit(c, "submit_review", v, x)
  /\ UNCHANGED <<status, latest, review, appeal, asset, notice, active, ban>>

\* UpdateAndResubmit: the conditional UPDATE; SubmitVideo follows.
UpdateForReview(c, v, x) ==
  /\ Admitted(c)
  /\ status[v] \in Resubmittable
  /\ status'  = [status  EXCEPT ![v] = "pending_review"]
  /\ content' = [content EXCEPT ![v] = x]
  /\ Submit(c, "submit_review", v, x)
  /\ UNCHANGED <<latest, review, appeal, asset, notice, active, ban>>

\* Delete reads the row for the owner and then sets the status whatever it
\* is by then, so only the write is a step.
Delete(c, v) ==
  /\ Admitted(c)
  /\ status[v] \notin {"absent", "deleted"}
  /\ status' = [status EXCEPT ![v] = "deleted"]
  /\ UNCHANGED <<content, latest, review, appeal, asset, notice, active, ban,
                 req>>

\* The request is cut short: its 3 s context expires or the API crashes.
Abort(c) ==
  /\ req[c].step # "idle"
  /\ Return(c)
  /\ UNCHANGED <<status, content, latest, review, appeal, asset, notice,
                 active, ban>>
----------------------------------------------------------------------------
(* SubmitVideo: one transaction that opens the next review version.        *)

NewReview(x) == [status |-> "pending", content |-> x,
                 waiting |-> Components, worst |-> "pass"]

BindAsset(v, x) ==
  asset' = [asset EXCEPT ![x] = [status |-> @.status, video |-> v]]

\* The assets are not the author's: ErrForbidden, the row stays as it is.
SubmitForbidden(c) ==
  /\ req[c].step = "submit_review"
  /\ req[c].content \notin Owned
  /\ Return(c)
  /\ UNCHANGED <<status, content, latest, review, appeal, asset, notice,
                 active, ban>>

\* A review is open already: only the assets are bound to the video.
SubmitJoinsOpenReview(c) ==
  LET v == req[c].video  x == req[c].content
  IN  /\ req[c].step = "submit_review"
      /\ x \in Owned
      /\ HasOpen(v)
      /\ BindAsset(v, x)
      /\ Return(c)
      /\ UNCHANGED <<status, content, latest, review, appeal, notice, active,
                     ban>>

SubmitOpensReview(c) ==
  LET v == req[c].video  x == req[c].content  k == latest[v] + 1
  IN  /\ req[c].step = "submit_review"
      /\ x \in Owned
      /\ ~HasOpen(v)
      /\ k <= MaxVersion
      /\ BindAsset(v, x)
      /\ latest' = [latest EXCEPT ![v] = k]
      /\ review' = [review EXCEPT ![v][k] = NewReview(x)]
      /\ Return(c)
      /\ UNCHANGED <<status, content, appeal, notice, active, ban>>
----------------------------------------------------------------------------
(* Machine pre-check.  Machine verdicts are hints: the human gate sends    *)
(* every video review with a full set of verdicts to human_review.         *)

Worse(a, b) == IF "reject" \in {a, b} THEN "reject"
               ELSE IF "review" \in {a, b} THEN "review" ELSE "pass"

HumanGate(worst) == "human_review"

\* The review with the verdicts that are left to give and the gravest given.
Judged(r, waiting, worst) ==
  [status  |-> IF waiting = {} THEN HumanGate(worst) ELSE r.status,
   content |-> r.content, waiting |-> waiting, worst |-> worst]

\* Mutant: the worker leaves what a callback has begun to judge to callbacks.
ProcessUntouched(v, k, d) ==
  /\ review[v][k].status = "pending"
  /\ review[v][k].waiting = Components
  /\ review' = [review EXCEPT ![v][k] = Judged(@, {}, Worse(@.worst, d))]
  /\ UNCHANGED <<status, content, latest, appeal, asset, notice, active, ban,
                 req>>

\* The worker fills the missing verdicts; d is the gravest of those.
Process(v, k, d) ==
  /\ review[v][k].status = "pending"
  /\ review' = [review EXCEPT ![v][k] = Judged(@, {}, Worse(@.worst, d))]
  /\ UNCHANGED <<status, content, latest, appeal, asset, notice, active, ban,
                 req>>

\* The callback for one component, ignored when that already has a verdict.
ApplyMachineResult(v, k, m, d) ==
  /\ m \in review[v][k].waiting
  /\ review' = [review EXCEPT ![v][k] =
                  Judged(@, @.waiting \ {m}, Worse(@.worst, d))]
  /\ UNCHANGED <<status, content, latest, appeal, asset, notice, active, ban,
                 req>>
----------------------------------------------------------------------------
(* Effects of a decision on the video, its assets and the outbox, in the   *)
(* transaction of the caller.                                              *)

Publishable == {"pending_review", "rejected", "appeal_pending", "offline"}

MarkAsset(x, s) ==
  asset' = [asset EXCEPT ![x] = [status |-> s, video |-> @.video]]

\* Mutant: the outbox event is forgotten.
PublishSilently(v) ==
  /\ status[v] \in Publishable \cup {"published"}
  /\ status' = [status EXCEPT ![v] = "published"]
  /\ asset' = [asset EXCEPT ![content[v]] = [status |-> "published", video |-> v]]
  /\ UNCHANGED notice

\* publishTarget fails, and the transaction with it, unless one of these holds.
PublishTarget(v) ==
  \/ /\ status[v] = "published"
     /\ UNCHANGED <<status, asset, notice>>
  \/ /\ status[v] \in Publishable
     /\ status' = [status EXCEPT ![v] = "published"]
     /\ asset'  = [asset EXCEPT ![content[v]] =
                     [status |-> "published", video |-> v]]
     /\ notice' = [notice EXCEPT ![v] = "published"]

\* rejectTarget rejects from every status but deleted.
RejectTarget(v) ==
  \/ /\ status[v] = "rejected"
     /\ UNCHANGED <<status, asset>>
  \/ /\ status[v] \notin {"absent", "deleted", "rejected"}
     /\ status' = [status EXCEPT ![v] = "rejected"]
     /\ MarkAsset(content[v], "rejected")

Close(v, k, s) ==
  review' = [review EXCEPT ![v][k] = [status |-> s, content |-> @.content,
                                      waiting |-> @.waiting, worst |-> @.worst]]

\* DecideReview: only a review waiting for a human can be decided.
CanDecide(s) == s = "human_review"

ApproveReview(v, k) ==
  /\ CanDecide(review[v][k].status)
  /\ PublishTarget(v)
  /\ Close(v, k, "published")
  /\ UNCHANGED <<content, latest, appeal, active, ban, req>>

RejectReview(v, k) ==
  /\ CanDecide(review[v][k].status)
  /\ RejectTarget(v)
  /\ Close(v, k, "rejected")
  /\ UNCHANGED <<content, latest, appeal, notice, active, ban, req>>
----------------------------------------------------------------------------
(* Appeals.                                                                *)

LatestRejected(v, k) ==
  /\ review[v][k].status = "rejected"
  /\ \A j \in Versions : j > k => review[v][j].status # "rejected"

\* CreateAppeal finds the review appealed against, outside the transaction.
CreateAppeal(c, v, k) ==
  /\ Admitted(c)
  /\ status[v] # "absent"
  /\ LatestRejected(v, k)
  /\ appeal[v][k] # "pending"
  /\ Appeal(c, "appeal_check", v, k)
  /\ UNCHANGED <<status, content, latest, review, appeal, asset, notice,
                 active, ban>>

\* The transaction reads the row without locking it ...
CheckAppealTarget(c) ==
  /\ req[c].step = "appeal_check"
  /\ IF status[req[c].video] = "rejected"
     THEN Appeal(c, "appeal_write", req[c].video, req[c].version)
     ELSE Return(c)
  /\ UNCHANGED <<status, content, latest, review, appeal, asset, notice,
                 active, ban>>

\* ... inserts the appeal (unique per review) and updates the row if it is
\* still rejected, without checking that it was.
WriteAppeal(c) ==
  LET v == req[c].video  k == req[c].version
  IN  /\ req[c].step = "appeal_write"
      /\ \/ /\ appeal[v][k] = "none"
            /\ appeal' = [appeal EXCEPT ![v][k] = "pending"]
            /\ status' = [status EXCEPT ![v] =
                            IF @ = "rejected" THEN "appeal_pending" ELSE @]
         \/ /\ appeal[v][k] # "none"
            /\ UNCHANGED <<appeal, status>>
      /\ Return(c)
      /\ UNCHANGED <<content, latest, review, asset, notice, active, ban>>

ApproveAppeal(v, k) ==
  /\ appeal[v][k] = "pending"
  /\ PublishTarget(v)
  /\ Close(v, k, "published")
  /\ appeal' = [appeal EXCEPT ![v][k] = "approved"]
  /\ UNCHANGED <<content, latest, active, ban, req>>

RejectAppeal(v, k) ==
  /\ appeal[v][k] = "pending"
  /\ RejectTarget(v)
  /\ Close(v, k, "rejected")
  /\ appeal' = [appeal EXCEPT ![v][k] = "rejected"]
  /\ UNCHANGED <<content, latest, notice, active, ban, req>>
----------------------------------------------------------------------------
(* Administrators.                                                         *)

TakeOffline(v) ==
  /\ status[v] = "published"
  /\ status' = [status EXCEPT ![v] = "offline"]
  /\ MarkAsset(content[v], "offline")
  /\ notice' = [notice EXCEPT ![v] = "offline"]
  /\ UNCHANGED <<content, latest, review, appeal, active, ban, req>>

Restore(v) ==
  /\ status[v] = "offline"
  /\ PublishTarget(v)
  /\ UNCHANGED <<content, latest, review, appeal, active, ban, req>>

\* SetUserBanned(true) lists the published videos in its snapshot ...
BeginBan ==
  /\ ~ban.running
  /\ ban' = [running |-> TRUE,
             seen |-> {v \in Videos : status[v] = "published"}]
  /\ UNCHANGED <<status, content, latest, review, appeal, asset, notice,
                 active, req>>

\* ... writes an outbox event for each of those, and takes
\* every video offline that is published when the UPDATE runs.  The assets
\* keep their status.
CommitBan ==
  /\ ban.running
  /\ active'  = FALSE
  /\ ban'     = NoBan
  /\ status'  = [v \in Videos |-> IF status[v] = "published" THEN "offline"
                                 ELSE status[v]]
  /\ notice'  = [v \in Videos |-> IF v \in ban.seen THEN "offline" ELSE notice[v]]
  /\ UNCHANGED <<content, latest, review, appeal, asset, req>>

Unban ==
  /\ ~ban.running
  /\ active' = TRUE
  /\ UNCHANGED <<status, content, latest, review, appeal, asset, notice, ban,
                 req>>
----------------------------------------------------------------------------
AuthorStep(c) ==
  \/ \E v \in Videos :
       \/ RetryCreate(c, v)
       \/ SubmitDraft(c, v)
       \/ Delete(c, v)
       \/ \E x \in Contents : \/ CreateDraft(c, v, x)
                              \/ UpdateDraft(c, v, x)
                              \/ CreatePublished(c, v, x)
                              \/ UpdateForReview(c, v, x)
       \/ \E k \in Versions : CreateAppeal(c, v, k)
  \/ UpdateStatus(c)
  \/ SubmitForbidden(c)
  \/ SubmitJoinsOpenReview(c)
  \/ SubmitOpensReview(c)
  \/ CheckAppealTarget(c)
  \/ WriteAppeal(c)
  \/ Abort(c)

MachineStep(v, k) ==
  \E d \in Verdicts :
    \/ Process(v, k, d)
    \/ \E m \in Components : ApplyMachineResult(v, k, m, d)

ModeratorStep(v) ==
  \/ TakeOffline(v)
  \/ Restore(v)
  \/ \E k \in Versions : \/ ApproveReview(v, k) \/ RejectReview(v, k)
                         \/ ApproveAppeal(v, k) \/ RejectAppeal(v, k)

Next ==
  \/ \E c \in Clients : AuthorStep(c)
  \/ \E v \in Videos, k \in Versions : MachineStep(v, k)
  \/ \E v \in Videos : ModeratorStep(v)
  \/ BeginBan
  \/ CommitBan
  \/ Unban

Spec == Init /\ [][Next]_vars

\* The worker polls content_review every 500 ms and takes the oldest pending
\* rows, so no pending review is passed over for ever.
FairSpec ==
  /\ Spec
  /\ \A v \in Videos, k \in Versions :
       WF_vars(\E d \in Verdicts : Process(v, k, d))
----------------------------------------------------------------------------
(* Properties.                                                             *)

Verdict(v, S) == {review[v][k].content : k \in {j \in Versions :
                                                  review[v][j].status \in S}}
Approved(v) == Verdict(v, {"published"})
Reviewed(v) == Verdict(v, {"published", "rejected"})

\* Nothing becomes public that no human has decided on: the content of a
\* published video is that of a review a moderator closed (publishTarget).
PublishedWasReviewed ==
  \A v \in Videos : status[v] = "published" => content[v] \in Reviewed(v)

\* AssetAccess: an asset is public when its own status and the status of the
\* video it is bound to both say published.
ServedPublicly(x) ==
  /\ asset[x].status = "published"
  /\ asset[x].video # NoVideo => status[asset[x].video] = "published"

\* The media of a content no moderator has seen is not served to the public.
UnreviewedMediaPrivate ==
  \A x \in Contents : ServedPublicly(x) => \E v \in Videos : x \in Reviewed(v)

\* While a review is open the row carries the content under review and is not
\* public: what the moderator reads is what the decision applies to.
OpenReviewMatchesVideo ==
  \A v \in Videos, k \in Versions :
    Open(review[v][k]) =>
      \/ status[v] = "deleted"
      \/ status[v] = "pending_review" /\ review[v][k].content = content[v]

\* While an appeal is pending the video stays as it was rejected: it is not
\* edited, reviewed again or shown before the appeal is decided.
AppealHoldsVideo ==
  \A v \in Videos, k \in Versions :
    appeal[v][k] = "pending" => status[v] \in {"appeal_pending", "deleted"}

\* No interleaving of a deletion with other requests brings a video back.
DeletedStaysDeleted ==
  [][\A v \in Videos : status[v] = "deleted" => status'[v] = "deleted"]_vars

\* A video that is or was public has a review that ended in approval; this
\* holds under every race of the author's own requests.
PublicHasApproval ==
  \A v \in Videos : status[v] \in {"published", "offline"} => Approved(v) # {}

\* A video becomes public only in a step in which a human approves one of its
\* reviews or appeals, or restores it: no machine verdict publishes.
OnlyHumansPublish ==
  [][\A v \in Videos :
       status[v] # "published" /\ status'[v] = "published" =>
         \/ status[v] = "offline"
         \/ \E k \in Versions : /\ review[v][k].status \in {"human_review", "rejected"}
                                /\ review'[v][k].status = "published"]_vars

\* Approval is final, and a rejected review changes only by its appeal.
DecisionsAreFinal ==
  [][\A v \in Videos, k \in Versions :
       /\ review[v][k].status = "published" => review'[v][k] = review[v][k]
       /\ review[v][k].status = "rejected" /\ review'[v][k] # review[v][k] =>
            appeal[v][k] = "pending" /\ appeal'[v][k] = "approved"]_vars

\* A review waits for the machine exactly while a verdict is missing, so a
\* callback that comes after the decision finds nothing to change.
VerdictsBeforeDecision ==
  \A v \in Videos, k \in Versions :
    (review[v][k].status = "pending") <=> (review[v][k].waiting # {})

\* At most the newest review of a video is open.
OneOpenReview ==
  \A v \in Videos, k \in Versions : Open(review[v][k]) => k = latest[v]

\* The newest event in the outbox never hides a public video from consumers.
PublishedIsAnnounced ==
  \A v \in Videos : status[v] = "published" => notice[v] = "published"

\* The pre-check never loses a review.
ReviewLeavesPending ==
  \A v \in Videos, k \in Versions :
    (review[v][k].status = "pending") ~> (review[v][k].status # "pending")

----------------------------------------------------------------------------
(* What the properties rest on, inductively.                               *)

\* Versions are opened in order, and an older one has been decided.
VersionsInOrder ==
  \A v \in Videos, k \in Versions :
    /\ k > latest[v] => review[v][k].status = "none"
    /\ k < latest[v] => review[v][k].status \in {"published", "rejected"}
    /\ k = latest[v] => review[v][k].status # "none"

\* A pending appeal, and one about to be inserted unless the insert is bound
\* to fail, contests a review that stands rejected.
AppealsContestRejections ==
  /\ \A v \in Videos, k \in Versions :
       appeal[v][k] = "pending" => review[v][k].status = "rejected"
  /\ \A c \in Clients : req[c].step \in Appealing =>
       \/ review[req[c].video][req[c].version].status = "rejected"
       \/ appeal[req[c].video][req[c].version] # "none"

\* Inductive for any number of concurrent requests.
RacingInv ==
  /\ TypeOK
  /\ VersionsInOrder
  /\ VerdictsBeforeDecision
  /\ AppealsContestRejections
  /\ PublicHasApproval
  /\ PublishedIsAnnounced

\* The author's requests run one at a time and no creation is retried.
Serial == Keyed = {} /\ \A c, d \in Clients : c = d

\* What is or may come back on show has been decided on.
DecidedContent ==
  /\ \A v \in Videos :
       status[v] \in {"published", "offline", "rejected", "appeal_pending"} =>
         content[v] \in Reviewed(v)
  /\ \A x \in Contents :
       asset[x].status = "published" => \E v \in Videos : x \in Reviewed(v)

OnePendingAppeal ==
  \A v \in Videos, j, k \in Versions :
    appeal[v][j] = "pending" /\ appeal[v][k] = "pending" => j = k

\* While no other request runs, a request finds the row as it left it.
RowAsLeft ==
  /\ \A v \in Videos : status[v] \in {"absent", "draft"} => latest[v] = 0
  /\ \A c \in Clients : LET v == req[c].video IN
       /\ req[c].step \in Submitting =>
            /\ content[v] = req[c].content
            /\ ~HasOpen(v)
            /\ status[v] = IF req[c].step = "submit_status" THEN "draft"
                                                           ELSE "pending_review"
       /\ req[c].step = "appeal_write" => status[v] = "rejected"

\* Inductive when Serial holds.
SerialInv ==
  /\ RacingInv
  /\ DecidedContent
  /\ OpenReviewMatchesVideo
  /\ AppealHoldsVideo
  /\ OnePendingAppeal
  /\ RowAsLeft

\* The public view of the videos implements the publication gate.
Gate == INSTANCE PublicationGate WITH
  judged <- [v \in Videos |-> Reviewed(v)],
  shown <- [v \in Videos |-> IF status[v] = "published" THEN content[v]
                                                       ELSE NoContent]

\* Whatever author, worker, moderators and administrators do, the audience
\* sees a content only after a human has judged it.
GateSpec == Gate!GateSpec
============================================================================
